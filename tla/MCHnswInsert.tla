---------------------------- MODULE MCHnswInsert ----------------------------
(***************************************************************************)
(* Two threads; points at marks of a ruler that measures every distance    *)
(* once.                                                                   *)
(***************************************************************************)
EXTENDS HnswInsert

Metric(at) == [e \in Points \X Points |->
                 LET d == at[e[1]] - at[e[2]] IN IF d < 0 THEN -d ELSE d]

MCMetrics == {Metric(<<0, 6, 1, 4>>), Metric(<<4, 1, 0, 6>>)}
MCBatches == <<2, 2>>
MCNbNeighbors == [l \in 0..1 |-> IF l = 0 THEN 2 ELSE 1]
=============================================================================
