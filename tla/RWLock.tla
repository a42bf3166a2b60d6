------------------------------- MODULE RWLock -------------------------------
(***************************************************************************)
(* What a multi-read single-write lock promises to its users: any number   *)
(* of readers, or one writer, hold it.  Which waiting thread is admitted   *)
(* next, and when, is left open; FairRWLock is shown to implement this.    *)
(***************************************************************************)
CONSTANT Threads

VARIABLES
  reading,   \* the threads between LockRead and UnLockRead
  writing    \* the threads between LockWrite and UnLockWrite

lockVars == <<reading, writing>>

LockInit == reading = {} /\ writing = {}

AcquireRead(t) ==
  /\ t \notin reading /\ writing = {}
  /\ reading' = reading \cup {t}
  /\ UNCHANGED writing

ReleaseRead(t) ==
  /\ t \in reading
  /\ reading' = reading \ {t}
  /\ UNCHANGED writing

AcquireWrite(t) ==
  /\ reading = {} /\ writing = {}
  /\ writing' = {t}
  /\ UNCHANGED reading

ReleaseWrite(t) ==
  /\ t \in writing
  /\ writing' = writing \ {t}
  /\ UNCHANGED reading

LockNext == \E t \in Threads :
  AcquireRead(t) \/ ReleaseRead(t) \/ AcquireWrite(t) \/ ReleaseWrite(t)

LockSpec == LockInit /\ [][LockNext]_lockVars
=============================================================================
