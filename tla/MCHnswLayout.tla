---------------------------- MODULE MCHnswLayout ----------------------------
(***************************************************************************)
(* Bounded graphs for each generator: for "bfs" and "rorder" all graphs of *)
(* three vertices with lists in any order ("bfs" from every entry point),  *)
(* for "gorder" digraphs of four vertices with bounded lists, for "rcm"    *)
(* and "rabbitorder" all undirected graphs of five vertices; also one      *)
(* vertex, none, and a method that does not exist.                         *)
(***************************************************************************)
EXTENDS HnswLayout

\* Neighbour lists: of distinct vertices, without the vertex itself.
Lists(vs, v) == {s \in UNION {[1..k -> vs \ {v}] : k \in 0..(Cardinality(vs) - 1)} :
                   \A i, j \in DOMAIN s : s[i] = s[j] => i = j}
SortedLists(vs, v) == {Ascending(S) : S \in SUBSET (vs \ {v})}

OrderedGraphs == {g \in [0..2 -> UNION {Lists(0..2, v) : v \in 0..2}] :
                    \A v \in 0..2 : v \notin ToSet(g[v])}

\* Directed graphs with at most three links of vertex 0, two of 1, one of 2 and 3.
ShortLists(v, k) == {s \in SortedLists(0..3, v) : Len(s) <= k}
Digraphs == {[v \in 0..3 |-> lists[v + 1]] : lists \in
               ShortLists(0, 3) \X ShortLists(1, 2) \X ShortLists(2, 1) \X ShortLists(3, 1)}

\* For "rcm" and "rabbitorder" only the undirected graph matters: links go up.
UpwardGraphs == {[v \in 0..4 |-> Ascending({w \in 0..4 : <<v, w>> \in E})] :
                   E \in SUBSET {e \in (0..4) \X (0..4) : e[1] < e[2]}}

Input(m, g, e) == [method |-> m, neighbors |-> g, entry_point |-> e]

MCInputs ==
  {Input("bfs", g, e) : g \in OrderedGraphs, e \in 0..2}
  \cup {Input("rorder", g, 0) : g \in OrderedGraphs}
  \cup {Input("gorder", g, 0) : g \in Digraphs}
  \cup {Input(m, g, 0) : m \in {"rcm", "rabbitorder"}, g \in UpwardGraphs}
  \cup {Input(m, [v \in {0} |-> <<>>], 0) : m \in {"rorder", "bfs", "rcm", "rabbitorder", "unknown"}}
  \cup {Input("rorder", <<>>, -1)}
=============================================================================
