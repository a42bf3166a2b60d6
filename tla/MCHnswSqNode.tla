---------------------------- MODULE MCHnswSqNode ----------------------------
(***************************************************************************)
(* Datasets of one to four rows: without scalar info, with scalar values   *)
(* that combine_partitions joins into one group, and with values that make *)
(* two groups of two rows; with and without embedding lists.               *)
(***************************************************************************)
EXTENDS HnswSqNode

CONSTANTS u, v, w

Plain == [vecs |-> <<u, v, w>>, info |-> <<>>, lims |-> <<0, 1, 3>>]
OneGroup == [vecs |-> <<v, u, w>>, info |-> <<<<1, 3>>, <<2>>>>, lims |-> <<>>]
TwoGroups == [vecs |-> <<w, u, v, u>>, info |-> <<<<4>>, <<1, 2>>, <<3>>>>, lims |-> <<0, 2, 3, 4>>]
OneRow == [vecs |-> <<w>>, info |-> <<>>, lims |-> <<>>]

MCDatasets == {Plain, OneGroup, TwoGroups, OneRow}

\* A graph without symmetry: row 2 reaches level 1 and row 3 level 2.
Wiring == [levels |-> <<0, 1, 2, 0>>,
           links |-> <<{[level |-> 0, to |-> 2]},
                       {[level |-> 0, to |-> 1], [level |-> 0, to |-> 3], [level |-> 1, to |-> 3]},
                       {[level |-> 0, to |-> 4], [level |-> 1, to |-> 2]},
                       {[level |-> 0, to |-> 3]}>>]

MCWirings == {Wiring}

MCConfigs == {[layout |-> FALSE, refine |-> FALSE], [layout |-> TRUE, refine |-> FALSE],
              [layout |-> TRUE, refine |-> TRUE]}
=============================================================================
