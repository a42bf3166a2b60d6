------------------------------ MODULE MCServing ------------------------------
(***************************************************************************)
(* The two structures that serve concurrent calls beside the indexes       *)
(* themselves, the data-view refiner and the pool of GPU resources.  They  *)
(* share no state: a behaviour exercises one of them.  The refiner has     *)
(* norms and codes, or neither.                                            *)
(***************************************************************************)
EXTENDS DataViewRefiner, GpuResMgr

VARIABLE served

vars == <<served, refinerVars, poolVars>>

Init ==
  /\ RefinerInit /\ PoolInit
  /\ \/ served = "refiner" /\ res_num_ = 1 /\ is_cosine_ = quantized
     \/ served = "pool" /\ ~is_cosine_ /\ ~quantized

Next ==
  \/ served = "refiner" /\ RefinerNext /\ UNCHANGED <<served, poolVars>>
  \/ served = "pool" /\ PoolNext /\ UNCHANGED <<served, refinerVars>>

Spec == Init /\ [][Next]_vars /\ RefinerFairness /\ PoolFairness
=============================================================================
