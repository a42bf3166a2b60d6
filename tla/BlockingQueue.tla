---------------------------- MODULE BlockingQueue ----------------------------
(***************************************************************************)
(* BlockingQueue of include/knowhere/comp/blocking_queue.h.  Every member  *)
(* function but SetCapacity runs under mtx; a call of Put or Take that     *)
(* cannot proceed sleeps on full_ or empty_, here the sets of sleepers.    *)
(***************************************************************************)
EXTENDS Naturals, Sequences

CONSTANT Capacity    \* capacity_: 32 in the code, and nobody calls SetCapacity

VARIABLES queue_, full_, empty_

queueVars == <<queue_, full_, empty_>>

QueueInit == queue_ = <<>> /\ full_ = {} /\ empty_ = {}

\* Mutant of Put: forgets to notify.
PutSilent(t, task) ==
  /\ Len(queue_) < Capacity
  /\ queue_' = Append(queue_, task)
  /\ full_' = full_ \ {t} /\ UNCHANGED empty_

\* Put returns; empty_.notify_all
Put(t, task) ==
  /\ Len(queue_) < Capacity
  /\ queue_' = Append(queue_, task)
  /\ full_' = full_ \ {t} /\ empty_' = {}

\* Put goes to sleep, the first time or again.
PutWaits(t) ==
  /\ Len(queue_) >= Capacity
  /\ full_' = full_ \cup {t}
  /\ UNCHANGED <<queue_, empty_>>

\* Take returns the front; full_.notify_all
Take(t) ==
  /\ queue_ # <<>>
  /\ queue_' = Tail(queue_)
  /\ full_' = {} /\ empty_' = empty_ \ {t}

TakeWaits(t) ==
  /\ queue_ = <<>>
  /\ empty_' = empty_ \cup {t}
  /\ UNCHANGED <<queue_, full_>>
=============================================================================
