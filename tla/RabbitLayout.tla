---------------------------- MODULE RabbitLayout ----------------------------
(***************************************************************************)
(* The layout "rabbitorder": generateRabbitOrderPermutation in             *)
(* thirdparty/faiss/faiss/IndexHNSW.cpp.  Each vertex starts as its own    *)
(* community; a community is merged at most once, into the neighbouring    *)
(* community with the best positive gain.  One step treats one vertex of   *)
(* the order.  Path compression in rabbit_find_root changes no root and is *)
(* left out.                                                               *)
(***************************************************************************)
EXTENDS LayoutGraph

VARIABLES neighbors, perm, work

RabbitBegin ==
  LET graph == Undirected(neighbors)
      total == Along(LAMBDA sum, v : sum + Degree(graph, v), 0, Ascending(DOMAIN graph))
  IN [pc |-> "rabbit", graph |-> graph,
      order |-> Sorted(DOMAIN graph, LAMBDA u, v : ByDegree(graph, u, v)),
      parent |-> [v \in DOMAIN graph |-> v],
      members |-> [v \in DOMAIN graph |-> <<v>>],
      strength |-> [v \in DOMAIN graph |-> Degree(graph, v)],
      total_edge_weight |-> IF total = 0 THEN 1 ELSE total,
      active |-> [v \in DOMAIN graph |-> TRUE],
      root_processed |-> {}]

\* rabbit_find_root: the end of the path of parents.
FindRoot(parent, node) ==
  LET Up[k \in 0..Cardinality(DOMAIN parent)] ==
        IF k = 0 THEN node ELSE parent[Up[k - 1]]
  IN Up[Cardinality(DOMAIN parent)]

\* The edges between the community source and each other active one.
EdgeWeights(source) ==
  LET root == [v \in DOMAIN neighbors |-> FindRoot(work.parent, v)]
  IN [r \in DOMAIN neighbors |->
        IF r = source \/ ~work.active[r] THEN 0
        ELSE Cardinality({<<member, v>> \in ToSet(work.members[source]) \X (DOMAIN neighbors) :
                            v \in Out(work.graph, member) /\ root[v] = r})]

\* The roots that may come out as best_root.  Gain is score * total_edge_weight.
\* Scores are doubles: those that are equal although the terms differ may be
\* rounded either way; equal terms give equal scores, and the smaller root wins.
BestRoots(source, edge_weights) ==
  LET Gain(r) == edge_weights[r] * work.total_edge_weight - work.strength[source] * work.strength[r]
      best == {r \in DOMAIN neighbors :
                 /\ edge_weights[r] > 0 /\ Gain(r) > 0
                 /\ \A s \in DOMAIN neighbors : edge_weights[s] > 0 => Gain(s) <= Gain(r)}
  IN {r \in best : \A s \in best :
        edge_weights[s] = edge_weights[r] /\ work.strength[s] = work.strength[r] => r <= s}

Source == FindRoot(work.parent, Head(work.order))
Considered == work.active[Source] /\ Source \notin work.root_processed

RabbitSkip ==
  /\ work.pc = "rabbit" /\ work.order # <<>> /\ ~Considered
  /\ work' = [work EXCEPT !.order = Tail(@)]
  /\ UNCHANGED perm

\* A plausible slip: the merged community keeps its members.
MergedWithoutClear(source, best) ==
  [work EXCEPT !.order = Tail(@), !.root_processed = @ \cup {source},
     !.parent[source] = best,
     !.members = [@ EXCEPT ![best] = @ \o work.members[source]],
     !.strength = [@ EXCEPT ![best] = @ + work.strength[source], ![source] = 0],
     !.active[source] = FALSE]

Merged(source, best) ==
  [work EXCEPT !.order = Tail(@), !.root_processed = @ \cup {source},
     !.parent[source] = best,
     !.members = [@ EXCEPT ![best] = @ \o work.members[source], ![source] = <<>>],
     !.strength = [@ EXCEPT ![best] = @ + work.strength[source], ![source] = 0],
     !.active[source] = FALSE]

\* Merge into a best root, or stay when there is none.
RabbitVisit ==
  /\ work.pc = "rabbit" /\ work.order # <<>> /\ Considered
  /\ \E source \in {Source} :
       \E targets \in {BestRoots(source, EdgeWeights(source))} :
         IF targets = {}
         THEN work' = [work EXCEPT !.order = Tail(@), !.root_processed = @ \cup {source}]
         ELSE \E best \in targets : work' = Merged(source, best)
  /\ UNCHANGED perm

StrongerFirst(r, s) ==
  LET Least(v) == CHOOSE x \in ToSet(work.members[v]) : \A y \in ToSet(work.members[v]) : x <= y
  IN \/ work.strength[r] > work.strength[s]
     \/ work.strength[r] = work.strength[s] /\ Least(r) < Least(s)

\* rabbit_emit_members: the members not emitted yet.
EmitMembers(emitted, root) ==
  emitted \o SelectSeq(work.members[root], LAMBDA v : v \notin ToSet(emitted))

\* The communities from strong to weak, then the vertices that are left.
RabbitEmit ==
  /\ work.pc = "rabbit" /\ work.order = <<>>
  /\ \E roots \in {{r \in DOMAIN neighbors : FindRoot(work.parent, r) = r /\ work.active[r]}} :
       \E emitted \in {Along(EmitMembers, <<>>, Sorted(roots, StrongerFirst))} :
         perm' = emitted \o Ascending(DOMAIN neighbors \ ToSet(emitted))
  /\ work' = [pc |-> "return"]

RabbitNext == RabbitSkip \/ RabbitVisit \/ RabbitEmit
=============================================================================
