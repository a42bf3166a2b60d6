---------------------------- MODULE MCFairRWLock ----------------------------
(***************************************************************************)
(* Small instances of FairRWLock: the threads are model values.            *)
(***************************************************************************)
EXTENDS FairRWLock

CONSTANTS r1, r2, w1, w2
=============================================================================
