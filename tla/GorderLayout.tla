---------------------------- MODULE GorderLayout ----------------------------
(***************************************************************************)
(* The layouts "gorder" and "rorder": generateGorderPermutation in         *)
(* thirdparty/faiss/faiss/IndexHNSW.cpp.  Vertices are appended to order   *)
(* one at a time; the next one should have the most edges to, and common   *)
(* in-neighbours with, the last Window vertices.  The UnitHeap keeps that  *)
(* score up to date as vertices enter and leave the window.                *)
(***************************************************************************)
EXTENDS LayoutGraph, UnitHeap

CONSTANTS
  Window,         \* the window of the code, which is 5
  HugeVertices    \* the values hugevertex may have: floor(sqrt(N)) in the code, which
                  \* needs nine vertices to exceed 2

VARIABLES neighbors, perm, work

Vertices == DOMAIN neighbors
N == Cardinality(Vertices)

GorderBegin == [pc |-> "build"]

\* "if (N == 1) return {0}"
GorderOneVertex ==
  /\ work.pc = "build" /\ N = 1
  /\ perm' = <<0>>
  /\ work' = [pc |-> "return"]

\* out_graph is sorted, in_graph filled in the order of the sources.  The heap has
\* the in-degrees as keys, all of it to be taken back.  The tests of a vertex against
\* hugevertex are made once.
GorderBuild ==
  /\ work.pc = "build" /\ N > 1
  /\ \E key \in {[v \in Vertices |-> Cardinality(In(neighbors, v))]} :
       \E update \in {[v \in Vertices |-> -key[v]]} :
         \E tmp \in SortedByKey(key), hugevertex \in HugeVertices :
           work' = [pc |-> "first", heap |-> ReConstruct(key, update, tmp),
                    order |-> <<>>, zero |-> <<>>,
                    out_graph |-> [v \in Vertices |-> Ascending(Out(neighbors, v))],
                    in_graph |-> [v \in Vertices |-> Ascending(In(neighbors, v))],
                    huge |-> {v \in Vertices : Cardinality(Out(neighbors, v)) > hugevertex}]
  /\ UNCHANGED perm

Indegree(v) == Len(work.in_graph[v])
Outdegree(v) == Len(work.out_graph[v])
NotHuge(v) == v \notin work.huge

IncrementAll(h, vs) == Along(Increment, h, vs)
DecrementAll(h, vs) == Along(decrementKey, h, vs)

\* v enters the window.  The in-neighbours in skipped were treated when an
\* earlier vertex left it (popvexist).
OutEntered(h, v) == IF NotHuge(v) THEN IncrementAll(h, work.out_graph[v]) ELSE h

InEntered(h, v, skipped) ==
  LET Through(g, u) ==
        LET g1 == Increment(g, u)
        IN IF Outdegree(u) > 1 /\ u \notin skipped THEN IncrementAll(g1, work.out_graph[u]) ELSE g1
  IN Along(Through, h, SelectSeq(work.in_graph[v], NotHuge))

\* The in-neighbours of popv through which v is reached too.
PopvExist(popv, v) ==
  {u \in ToSet(work.in_graph[popv]) : NotHuge(u) /\ Outdegree(u) > 1 /\ v \in Out(neighbors, u)}

\* A plausible slip: what popv and v share is taken back although it is not
\* given again.
LeftTwice(h, popv, v) ==
  LET Through(g, u) ==
        LET g1 == decrementKey(g, u)
        IN IF Outdegree(u) > 1 THEN DecrementAll(g1, work.out_graph[u]) ELSE g1
      h1 == IF NotHuge(popv) THEN DecrementAll(h, work.out_graph[popv]) ELSE h
  IN Along(Through, h1, SelectSeq(work.in_graph[popv], NotHuge))

\* popv leaves the window when v enters it.
Left(h, popv, v) ==
  LET Through(g, u) ==
        LET g1 == decrementKey(g, u)
        IN IF Outdegree(u) > 1 /\ u \notin PopvExist(popv, v)
           THEN DecrementAll(g1, work.out_graph[u]) ELSE g1
      h1 == IF NotHuge(popv) THEN DecrementAll(h, work.out_graph[popv]) ELSE h
  IN Along(Through, h1, SelectSeq(work.in_graph[popv], NotHuge))

Taken(h, v) == [h EXCEPT !.update[v] = IntMaxHalf]

\* The first vertex has the greatest in-degree.  Vertices without edges are set
\* aside, but not vertex 0, which the first test of the loop always takes.
GorderFirst ==
  /\ work.pc = "first"
  /\ LET tmpindex == CHOOSE v \in Vertices : \A u \in Vertices :
                       Indegree(u) < Indegree(v) \/ (Indegree(u) = Indegree(v) /\ v <= u)
         zero == Ascending({v \in Vertices \ {0} : Indegree(v) + Outdegree(v) = 0})
         Without(h, v) == DeleteElement(Taken(h, v), v)
     IN \E h1 \in {Along(Without, work.heap, zero)} :
          \E h2 \in {Without(h1, tmpindex)} :
            \E h3 \in {InEntered(h2, tmpindex, {})} :
              work' = [work EXCEPT !.pc = "take", !.zero = zero, !.order = <<tmpindex>>,
                         !.heap = OutEntered(h3, tmpindex)]
  /\ UNCHANGED perm

More == Len(work.order) + Len(work.zero) < N

\* A round of the loop of ExtractMax that changes the top.
GorderSink ==
  /\ work.pc = "take" /\ More /\ TopSinks(work.heap)
  /\ work' = [work EXCEPT !.heap = DecreaseTop(@)]
  /\ UNCHANGED perm

\* The last round of ExtractMax and the body of the loop.
GorderTake ==
  /\ work.pc = "take" /\ More /\ ~TopSinks(work.heap)
  /\ LET v == work.heap.top
         order == Append(work.order, v)
         count == Len(work.order)
         popv == order[count - Window + 1]
         left == count >= Window
     IN \E h1 \in {Taken(DeleteElement(work.heap, v), v)} :
          \E h2 \in {IF left THEN Left(h1, popv, v) ELSE h1} :
            \E h3 \in {OutEntered(h2, v)} :
              work' = [work EXCEPT !.order = order,
                         !.heap = InEntered(h3, v, IF left THEN PopvExist(popv, v) ELSE {})]
  /\ UNCHANGED perm

\* The vertices set aside are inserted before the last one.
GorderReturn ==
  /\ work.pc = "take" /\ ~More
  /\ perm' = Front(work.order) \o work.zero \o <<Last(work.order)>>
  /\ work' = [pc |-> "return"]

GorderNext == GorderOneVertex \/ GorderBuild \/ GorderFirst \/ GorderSink \/ GorderTake \/ GorderReturn

-----------------------------------------------------------------------------
\* The score by its definition: edges between w and the window, and the
\* in-neighbours it shares with it, through vertices of small out-degree.
WindowScore(w) ==
  LET last == SubSeq(work.order, IF Len(work.order) > Window THEN Len(work.order) - Window + 1 ELSE 1,
                     Len(work.order))
      One(b) == IF b THEN 1 ELSE 0
      Count(x) == One(NotHuge(x) /\ w \in Out(neighbors, x))
                  + One(NotHuge(w) /\ x \in Out(neighbors, w))
                  + Cardinality({u \in In(neighbors, x) :
                                   NotHuge(u) /\ Outdegree(u) > 1 /\ w \in Out(neighbors, u)})
  IN Along(LAMBDA sum, x : sum + Count(x), 0, last)

InHeap == Vertices \ (ToSet(work.order) \cup ToSet(work.zero))
=============================================================================
