----------------------------- MODULE HnswLayout -----------------------------
(***************************************************************************)
(* The post-build layout pass: reorder_graph_after_build of                *)
(* thirdparty/faiss/faiss/IndexHNSW.cpp, which runs one of the permutation *)
(* generators, permutes the level-0 graph and, for "rorder", sorts the     *)
(* neighbour lists in parallel.  Storage and the upper levels, which       *)
(* permute_entries moves too, are in HnswSqNode.                           *)
(***************************************************************************)
EXTENDS LayoutGraph

CONSTANTS
  Inputs,     \* [method, neighbors, entry_point]: graphs to lay out, and how
  Window, HugeVertices,   \* see GorderLayout
  MaxCalls    \* bound on the number of calls

ASSUME MaxCallsIsNat == MaxCalls \in Nat

VARIABLES
  input,         \* the member of Inputs this behaviour is about
  neighbors,     \* the level-0 neighbour lists
  entry_point,
  reorder_perm,
  perm,          \* the permutation being generated
  work,          \* the local variables of the running generator
  calls

vars == <<input, neighbors, entry_point, reorder_perm, perm, work, calls>>

Traversals == INSTANCE TraversalLayouts
Rabbit == INSTANCE RabbitLayout
Gorder == INSTANCE GorderLayout

Idle == [pc |-> "idle"]
Running == work.pc \notin {"idle", "return", "sort"}

Init ==
  /\ input \in Inputs
  /\ neighbors = input.neighbors
  /\ entry_point = input.entry_point
  /\ reorder_perm = <<>> /\ perm = <<>> /\ work = Idle /\ calls = 0

\* A second call throws, a call on an empty index returns, and an unknown method
\* throws: the index stays as it is.
Rejected ==
  \/ reorder_perm # <<>>
  \/ DOMAIN neighbors = {} \/ entry_point = -1
  \/ input.method \notin {"rorder", "gorder", "rcm", "rabbitorder", "bfs"}

ReorderGraphAfterBuild ==
  /\ calls < MaxCalls /\ work = Idle
  /\ calls' = calls + 1
  /\ perm' = <<>>
  /\ work' = IF Rejected THEN Idle
             ELSE CASE input.method = "bfs" -> Traversals!BfsBegin
                    [] input.method = "rcm" -> Traversals!RcmBegin
                    [] input.method = "rabbitorder" -> Rabbit!RabbitBegin
                    [] OTHER -> Gorder!GorderBegin
  /\ UNCHANGED <<input, neighbors, entry_point, reorder_perm>>

Generate ==
  /\ Running
  /\ \/ input.method = "bfs" /\ Traversals!BfsNext
     \/ input.method = "rcm" /\ Traversals!RcmNext
     \/ input.method = "rabbitorder" /\ Rabbit!RabbitNext
     \/ input.method \in {"gorder", "rorder"} /\ Gorder!GorderNext
  /\ UNCHANGED <<input, neighbors, entry_point, reorder_perm, calls>>

\* Where the vertex v comes to lie.
NewIndex(v) == (CHOOSE i \in DOMAIN perm : perm[i] = v) - 1

PermutedNeighbors ==
  [i \in DOMAIN neighbors |->
     [j \in DOMAIN neighbors[perm[i + 1]] |-> NewIndex(neighbors[perm[i + 1]][j])]]

PermuteEntries ==
  /\ work.pc = "return"
  /\ neighbors' = PermutedNeighbors
  /\ entry_point' = NewIndex(entry_point)
  /\ reorder_perm' = perm
  /\ work' = IF input.method = "rorder" THEN [pc |-> "sort", left |-> DOMAIN neighbors] ELSE Idle
  /\ UNCHANGED <<input, perm, calls>>

\* optimize_neighbors_by_id: the threads treat the vertices in any order.
OptimizeNeighborsById ==
  /\ work.pc = "sort"
  /\ \E v \in work.left :
       /\ neighbors' = [neighbors EXCEPT ![v] = Ascending(ToSet(@))]
       /\ work' = IF work.left = {v} THEN Idle ELSE [work EXCEPT !.left = @ \ {v}]
  /\ UNCHANGED <<input, entry_point, reorder_perm, perm, calls>>

Next == ReorderGraphAfterBuild \/ Generate \/ PermuteEntries \/ OptimizeNeighborsById

\* One thread runs the pass to its end; nobody is obliged to call it.
Spec == Init /\ [][Next]_vars /\ WF_vars(Generate \/ PermuteEntries \/ OptimizeNeighborsById)

-----------------------------------------------------------------------------
\* UnitHeap between two of its steps: the linked list holds exactly the vertices
\* still to be placed, in decreasing order of key and linked both ways, and the
\* headers delimit the runs of equal keys (DeleteElement, DecreaseTop,
\* IncrementKey and ReConstruct each repair three structures at once).
HeapWellFormed ==
  work.pc \in {"first", "take"} => Gorder!ListWellFormed(work.heap, Gorder!InHeap)

\* GOrder's bookkeeping is exact: key plus pending update of a vertex is its
\* number of edges and common in-neighbours with the last Window vertices, although
\* decrements are deferred and shared in-neighbours are skipped on both sides
\* (popvexist).  In particular no key can sink below 0, an index of Header.
ScoresExact ==
  work.pc \in {"first", "take"} =>
    \A w \in Gorder!InHeap :
      /\ work.heap.update[w] <= 0
      /\ work.heap.key[w] + work.heap.update[w] = Gorder!WindowScore(w)

\* RabbitOrder's merges: the active communities partition the vertices, the
\* members of a community are the vertices whose parents lead to it, and its
\* strength is the sum of their degrees.
CommunitiesPartition ==
  work.pc = "rabbit" =>
    \A r \in DOMAIN neighbors :
      LET Root(v) == Rabbit!FindRoot(work.parent, v)
          own == {v \in DOMAIN neighbors : Root(v) = r}
      IN /\ work.active[r] <=> work.parent[r] = r
         /\ work.active[Root(r)]
         /\ ToSet(work.members[r]) = own /\ Len(work.members[r]) = Cardinality(own)
         /\ work.strength[r] = Along(LAMBDA sum, v : sum + Degree(work.graph, v), 0, work.members[r])

\* "bfs" lists what the entry point reaches first, nearest first.  "rcm" lists
\* each connected component as a block, in which the distance from its last
\* vertex (the seed) never grows.
Generated == work.pc = "return"

BreadthFirst ==
  LET t == Traversal(neighbors, entry_point, {})
      reached == DOMAIN t.distance
  IN \A i, j \in DOMAIN perm : i < j =>
       /\ perm[j] \in reached => perm[i] \in reached
       /\ perm[j] \in reached => t.distance[perm[i]] <= t.distance[perm[j]]

ReverseBreadthFirst ==
  LET From(v) == Traversal(Undirected(neighbors), v, {}).distance
  IN \A v \in DOMAIN neighbors :
       LET block == {i \in DOMAIN perm : perm[i] \in DOMAIN From(v)}
           distance == From(perm[Max(block)])
       IN \A i, j \in block : i < j =>
            /\ i..j \subseteq block
            /\ distance[perm[i]] >= distance[perm[j]]

TraversalOrder ==
  Generated => CASE input.method = "bfs" -> BreadthFirst
                 [] input.method = "rcm" -> ReverseBreadthFirst
                 [] OTHER -> TRUE

\* Every generator returns a permutation, and the laid-out graph is the input
\* under it: same edges, same order within a list (ascending for "rorder"), same
\* entry point.  This is what HnswSqNode assumes of a layout.
LayoutKeepsEdges ==
  /\ Generated => IsPermutation(perm, neighbors)
  /\ reorder_perm # <<>> =>
       /\ input.entry_point = reorder_perm[entry_point + 1]
       /\ \A i \in DOMAIN neighbors :
            LET back == [j \in DOMAIN neighbors[i] |-> reorder_perm[neighbors[i][j] + 1]]
                given == input.neighbors[reorder_perm[i + 1]]
            IN IF input.method # "rorder" \/ (work.pc = "sort" /\ i \in work.left)
               THEN back = given
               ELSE /\ ToSet(back) = ToSet(given) /\ Len(back) = Len(given)
                    /\ \A j \in 1..(Len(back) - 1) : neighbors[i][j] < neighbors[i][j + 1]

\* A call returns: the rounds of ExtractMax, of the seed search and of the
\* traversals end, and every list gets sorted.
LayoutReturns == [](work # Idle => <>(work = Idle))
=============================================================================
