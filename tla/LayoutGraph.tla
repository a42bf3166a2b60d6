---------------------------- MODULE LayoutGraph -----------------------------
(***************************************************************************)
(* What the layout generators of thirdparty/faiss/faiss/IndexHNSW.cpp      *)
(* share: the level-0 graph, as the function from a vertex to its          *)
(* neighbour list up to the first -1, and its undirected form.             *)
(***************************************************************************)
EXTENDS Integers, Sequences, FiniteSets, SequencesExt

\* The elements of S in the order of Before, which is total on S.
Sorted(S, Before(_, _)) ==
  [i \in 1..Cardinality(S) |->
     CHOOSE x \in S : Cardinality({y \in S : Before(y, x)}) = i - 1]

Ascending(S) == Sorted(S, LAMBDA x, y : x < y)

\* op applied to base and the elements of s in turn.  The bound acc makes TLC
\* evaluate each intermediate value once.
Along(op(_, _), base, s) ==
  LET After[k \in 0..Len(s)] ==
        IF k = 0 THEN base
        ELSE CHOOSE r \in {op(acc, s[k]) : acc \in {After[k - 1]}} : TRUE
  IN After[Len(s)]

Out(g, v) == ToSet(g[v])
In(g, v) == {u \in DOMAIN g : v \in Out(g, u)}

\* build_undirected_level0_graph: sorted, each neighbour once.
Undirected(g) == [v \in DOMAIN g |-> Ascending(Out(g, v) \cup In(g, v))]

Degree(g, v) == Len(g[v])

ByDegree(g, u, v) ==
  \/ Degree(g, u) < Degree(g, v)
  \/ Degree(g, u) = Degree(g, v) /\ u < v

\* The breadth-first traversal of g from start that avoids blocked: the order in
\* which the queue is filled, and the distance of each vertex.
Traversal(g, start, blocked) ==
  LET Dequeue(t, k) ==
        IF k > Len(t.order) THEN t
        ELSE LET node == t.order[k]
                 seen == DOMAIN t.distance
                 fresh == SelectSeq(g[node], LAMBDA v : v \notin blocked \cup seen)
             IN [order |-> t.order \o fresh,
                 distance |-> [v \in seen \cup ToSet(fresh) |->
                                 IF v \in seen THEN t.distance[v] ELSE t.distance[node] + 1]]
  IN Along(Dequeue, [order |-> <<start>>, distance |-> [v \in {start} |-> 0]],
           [k \in 1..Cardinality(DOMAIN g) |-> k])

\* perm lists every vertex of g once.
IsPermutation(perm, g) ==
  /\ Len(perm) = Cardinality(DOMAIN g)
  /\ ToSet(perm) = DOMAIN g
=============================================================================
