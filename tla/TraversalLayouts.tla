-------------------------- MODULE TraversalLayouts --------------------------
(***************************************************************************)
(* The layouts "bfs" and "rcm": generateBFSPermutation and                 *)
(* generateRCMPermutation in thirdparty/faiss/faiss/IndexHNSW.cpp, with    *)
(* the seeds of choose_low_degree_seed and choose_pseudo_peripheral_seed.  *)
(* One step takes one vertex from a queue, or settles one seed.  work      *)
(* holds the local variables of the generator and, in pc, where it is.     *)
(***************************************************************************)
EXTENDS LayoutGraph

VARIABLES neighbors, entry_point, perm, work

n == Cardinality(DOMAIN neighbors)

BfsBegin == [pc |-> "bfs", visited |-> {}, queue |-> <<>>]

\* bfs_traversal(entry_point), then bfs_traversal(i) for each i not visited.
BfsStart ==
  /\ work.pc = "bfs" /\ work.queue = <<>> /\ work.visited # DOMAIN neighbors
  /\ LET start == IF work.visited = {} THEN entry_point
                  ELSE CHOOSE i \in DOMAIN neighbors \ work.visited :
                         \A j \in DOMAIN neighbors \ work.visited : i <= j
     IN work' = [work EXCEPT !.queue = <<start>>, !.visited = @ \cup {start}]
  /\ UNCHANGED perm

\* A plausible slip: a vertex counts as visited only when it leaves the queue.
BfsVisitLate ==
  /\ work.pc = "bfs" /\ work.queue # <<>>
  /\ LET node == Head(work.queue)
         fresh == SelectSeq(neighbors[node], LAMBDA v : v \notin work.visited)
     IN /\ perm' = Append(perm, node)
        /\ work' = [work EXCEPT !.queue = Tail(@) \o fresh, !.visited = @ \cup {node}]

BfsVisit ==
  /\ work.pc = "bfs" /\ work.queue # <<>>
  /\ LET node == Head(work.queue)
         fresh == SelectSeq(neighbors[node], LAMBDA v : v \notin work.visited)
     IN /\ perm' = Append(perm, node)
        /\ work' = [work EXCEPT !.queue = Tail(@) \o fresh, !.visited = @ \cup ToSet(fresh)]

BfsReturn ==
  /\ work.pc = "bfs" /\ work.queue = <<>> /\ work.visited = DOMAIN neighbors
  /\ work' = [pc |-> "return"]
  /\ UNCHANGED perm

-----------------------------------------------------------------------------
RcmBegin == [pc |-> "seed", graph |-> Undirected(neighbors), component_visited |-> {},
             seed |-> -1, previous_eccentricity |-> -1,
             queue |-> <<>>, component_order |-> <<>>]

ChooseLowDegreeSeed ==
  /\ work.pc = "seed" /\ Len(perm) < n
  /\ LET open == DOMAIN neighbors \ work.component_visited
     IN work' = [work EXCEPT !.pc = "peripheral", !.previous_eccentricity = -1,
                   !.seed = CHOOSE i \in open : \A j \in open \ {i} : ByDegree(work.graph, i, j)]
  /\ UNCHANGED perm

\* A plausible slip: move also when that gains no distance.
ImproveSeedWithoutGain ==
  /\ work.pc = "peripheral"
  /\ LET t == Traversal(work.graph, work.seed, work.component_visited)
         eccentricity == t.distance[Last(t.order)]
         farthest == SelectSeq(t.order, LAMBDA v : t.distance[v] = eccentricity)
         i == CHOOSE i \in DOMAIN farthest : \A j \in DOMAIN farthest :
                LET di == Degree(work.graph, farthest[i])
                    dj == Degree(work.graph, farthest[j])
                IN di < dj \/ (di = dj /\ i <= j)
     IN work' = IF eccentricity < work.previous_eccentricity \/ farthest[i] = work.seed
                THEN [work EXCEPT !.pc = "fill", !.queue = <<work.seed>>,
                        !.component_visited = @ \cup {work.seed}, !.component_order = <<>>]
                ELSE [work EXCEPT !.seed = farthest[i], !.previous_eccentricity = eccentricity]
  /\ UNCHANGED perm

\* One round of choose_pseudo_peripheral_seed: move to the first vertex of least
\* degree among the farthest ones, as long as that gains distance.
ImproveSeed ==
  /\ work.pc = "peripheral"
  /\ LET t == Traversal(work.graph, work.seed, work.component_visited)
         eccentricity == t.distance[Last(t.order)]
         farthest == SelectSeq(t.order, LAMBDA v : t.distance[v] = eccentricity)
         i == CHOOSE i \in DOMAIN farthest : \A j \in DOMAIN farthest :
                LET di == Degree(work.graph, farthest[i])
                    dj == Degree(work.graph, farthest[j])
                IN di < dj \/ (di = dj /\ i <= j)
     IN work' = IF eccentricity <= work.previous_eccentricity \/ farthest[i] = work.seed
                THEN [work EXCEPT !.pc = "fill", !.queue = <<work.seed>>,
                        !.component_visited = @ \cup {work.seed}, !.component_order = <<>>]
                ELSE [work EXCEPT !.seed = farthest[i], !.previous_eccentricity = eccentricity]
  /\ UNCHANGED perm

RcmVisit ==
  /\ work.pc = "fill" /\ work.queue # <<>>
  /\ LET node == Head(work.queue)
         fresh == Out(work.graph, node) \ work.component_visited
         neighbor_buffer == Sorted(fresh, LAMBDA u, v : ByDegree(work.graph, u, v))
     IN work' = [work EXCEPT !.queue = Tail(@) \o neighbor_buffer,
                   !.component_visited = @ \cup fresh, !.component_order = Append(@, node)]
  /\ UNCHANGED perm

\* A plausible slip: the component is emitted in the order it was visited.
RcmEmitForward ==
  /\ work.pc = "fill" /\ work.queue = <<>>
  /\ perm' = perm \o work.component_order
  /\ work' = [work EXCEPT !.pc = "seed"]

\* Reverse the order of the component, and go on with the next one.
RcmEmit ==
  /\ work.pc = "fill" /\ work.queue = <<>>
  /\ perm' = perm \o Reverse(work.component_order)
  /\ work' = [work EXCEPT !.pc = "seed"]

RcmReturn ==
  /\ work.pc = "seed" /\ Len(perm) >= n
  /\ work' = [pc |-> "return"]
  /\ UNCHANGED perm

-----------------------------------------------------------------------------
BfsNext == BfsStart \/ BfsVisit \/ BfsReturn
RcmNext == ChooseLowDegreeSeed \/ ImproveSeed \/ RcmVisit \/ RcmEmit \/ RcmReturn
=============================================================================
