----------------------------- MODULE FairRWLock -----------------------------
(***************************************************************************)
(* FairRWLock of include/knowhere/comp/rw_lock.h.  Every member function   *)
(* runs under mtx_, which a thread releases only while it is asleep on a   *)
(* condition variable; one step of this module is one such critical        *)
(* section, from the moment the thread gets mtx_ to its return or its next *)
(* sleep.  A condition variable is the set of the threads asleep on it.    *)
(***************************************************************************)
EXTENDS Naturals, Sequences, FiniteSets

CONSTANTS
  Readers,      \* threads that call LockRead / UnLockRead
  Writers,      \* threads that call LockWrite / UnLockWrite
  MaxRequests   \* bound on id_counter_, so that TLC's instance is finite

ASSUME ThreadsFinite == IsFiniteSet(Readers \cup Writers)
ASSUME MaxRequestsNat == MaxRequests \in Nat

Threads == Readers \cup Writers

VARIABLES
  id_counter_, readers_, writer_,   \* the members of the same names
  write_requests_,                  \* the queue of the ids of the writers
  read_cv_, write_cv_,              \* threads asleep on the variable
  pc,                               \* where each thread is
  id                                \* its local variable id

vars == <<id_counter_, readers_, writer_, write_requests_, read_cv_, write_cv_,
          pc, id>>

Places == {"idle", "readWait", "reading", "writeWait", "writing"}

Init ==
  /\ id_counter_ = 0
  /\ readers_ = 0
  /\ writer_ = FALSE
  /\ write_requests_ = <<>>
  /\ read_cv_ = {} /\ write_cv_ = {}
  /\ pc = [t \in Threads |-> "idle"]
  /\ id = [t \in Threads |-> 0]
-----------------------------------------------------------------------------
\* Reading side.

\* Mutants of ReadAdmitted: without the test of writer_, and without the queue.
ReadAdmittedDuringWrite(i) == write_requests_ # <<>> => Head(write_requests_) > i
ReadAdmittedOutOfTurn(i) == ~writer_

\* The predicate of read_cv_.wait.
ReadAdmitted(i) ==
  ~writer_ /\ (write_requests_ # <<>> => Head(write_requests_) > i)

\* Mutant of AwaitRead: the reader is not counted.
AwaitReadUncounted(t, i) ==
  /\ UNCHANGED readers_
  /\ pc' = [pc EXCEPT ![t] = IF ReadAdmitted(i) THEN "reading" ELSE "readWait"]
  /\ read_cv_' = IF ReadAdmitted(i) THEN read_cv_ \ {t} ELSE read_cv_ \cup {t}

\* One evaluation of the predicate by the thread t whose request has number i.
AwaitRead(t, i) ==
  \/ /\ ReadAdmitted(i)
     /\ readers_' = readers_ + 1
     /\ pc' = [pc EXCEPT ![t] = "reading"]
     /\ read_cv_' = read_cv_ \ {t}
  \/ /\ ~ReadAdmitted(i)
     /\ pc' = [pc EXCEPT ![t] = "readWait"]
     /\ read_cv_' = read_cv_ \cup {t}
     /\ UNCHANGED readers_

LockRead(t) ==
  /\ pc[t] = "idle" /\ id_counter_ < MaxRequests
  /\ id' = [id EXCEPT ![t] = id_counter_]
  /\ id_counter_' = id_counter_ + 1
  /\ AwaitRead(t, id_counter_)
  /\ UNCHANGED <<writer_, write_requests_, write_cv_>>

\* A notified thread, or one that wakes up spuriously, tests again.
ResumeRead(t) ==
  /\ pc[t] = "readWait"
  /\ AwaitRead(t, id[t])
  /\ UNCHANGED <<id_counter_, writer_, write_requests_, write_cv_, id>>

\* notify_one: one sleeper, whichever the implementation picks.
NotifyOneWriter ==
  IF write_cv_ = {} THEN UNCHANGED write_cv_
  ELSE \E w \in write_cv_ : write_cv_' = write_cv_ \ {w}

\* Mutant of UnLockRead: the last reader wakes no writer.
UnLockReadSilent(t) ==
  /\ pc[t] = "reading"
  /\ pc' = [pc EXCEPT ![t] = "idle"]
  /\ readers_' = readers_ - 1
  /\ UNCHANGED <<id_counter_, writer_, write_requests_, read_cv_, write_cv_, id>>

UnLockRead(t) ==
  /\ pc[t] = "reading"
  /\ pc' = [pc EXCEPT ![t] = "idle"]
  /\ readers_' = readers_ - 1
  /\ IF readers_' = 0 /\ write_requests_ # <<>>
     THEN NotifyOneWriter ELSE UNCHANGED write_cv_
  /\ UNCHANGED <<id_counter_, writer_, write_requests_, read_cv_, id>>
-----------------------------------------------------------------------------
\* Writing side.

\* Mutants of WriteAdmitted: without the test of readers_, and of the queue.
WriteAdmittedWithReaders(q, i) == ~writer_ /\ Head(q) = i
WriteAdmittedOutOfTurn(q, i) == ~writer_ /\ readers_ = 0

\* The predicate of write_cv_.wait, on the queue q.
WriteAdmitted(q, i) == ~writer_ /\ readers_ = 0 /\ Head(q) = i

AwaitWrite(t, q, i) ==
  \/ /\ WriteAdmitted(q, i)
     /\ writer_' = TRUE
     /\ pc' = [pc EXCEPT ![t] = "writing"]
     /\ write_cv_' = write_cv_ \ {t}
  \/ /\ ~WriteAdmitted(q, i)
     /\ pc' = [pc EXCEPT ![t] = "writeWait"]
     /\ write_cv_' = write_cv_ \cup {t}
     /\ UNCHANGED writer_

LockWrite(t) ==
  /\ pc[t] = "idle" /\ id_counter_ < MaxRequests
  /\ id' = [id EXCEPT ![t] = id_counter_]
  /\ id_counter_' = id_counter_ + 1
  /\ write_requests_' = Append(write_requests_, id_counter_)
  /\ AwaitWrite(t, write_requests_', id_counter_)
  /\ UNCHANGED <<readers_, read_cv_>>

ResumeWrite(t) ==
  /\ pc[t] = "writeWait"
  /\ AwaitWrite(t, write_requests_, id[t])
  /\ UNCHANGED <<id_counter_, readers_, write_requests_, read_cv_, id>>

\* Mutant of UnLockWrite: the last writer wakes no reader.
UnLockWriteSilent(t) ==
  /\ pc[t] = "writing"
  /\ pc' = [pc EXCEPT ![t] = "idle"]
  /\ writer_' = FALSE
  /\ write_requests_' = Tail(write_requests_)
  /\ NotifyOneWriter
  /\ UNCHANGED <<id_counter_, readers_, read_cv_, id>>

UnLockWrite(t) ==
  /\ pc[t] = "writing"
  /\ pc' = [pc EXCEPT ![t] = "idle"]
  /\ writer_' = FALSE
  /\ write_requests_' = Tail(write_requests_)
  /\ IF write_requests_' # <<>>
     THEN NotifyOneWriter /\ UNCHANGED read_cv_
     ELSE read_cv_' = {} /\ UNCHANGED write_cv_
  /\ UNCHANGED <<id_counter_, readers_, id>>
-----------------------------------------------------------------------------
Next ==
  \/ \E t \in Readers : LockRead(t) \/ ResumeRead(t) \/ UnLockRead(t)
  \/ \E t \in Writers : LockWrite(t) \/ ResumeWrite(t) \/ UnLockWrite(t)

Spec == Init /\ [][Next]_vars

\* A thread that was notified gets mtx_ and runs; a holder's guard is
\* destroyed at the end of its block.  Nothing obliges a thread to ask for the
\* lock, and nothing obliges a sleeper to wake up without a notification.
FairSpec ==
  /\ Spec
  /\ \A t \in Readers : /\ WF_vars(t \notin read_cv_ /\ ResumeRead(t))
                        /\ WF_vars(UnLockRead(t))
  /\ \A t \in Writers : /\ WF_vars(t \notin write_cv_ /\ ResumeWrite(t))
                        /\ WF_vars(UnLockWrite(t))
-----------------------------------------------------------------------------
\* The members have the types of their declarations; in particular --readers_
\* never goes below zero.
TypeOK ==
  /\ id_counter_ \in Nat /\ readers_ \in Nat /\ writer_ \in BOOLEAN
  /\ write_requests_ \in Seq(Nat)
  /\ read_cv_ \subseteq Threads /\ write_cv_ \subseteq Threads
  /\ pc \in [Threads -> Places]
  /\ id \in [Threads -> Nat]

Reading == {t \in Threads : pc[t] = "reading"}
Writing == {t \in Threads : pc[t] = "writing"}
PendingWriters == {t \in Threads : pc[t] \in {"writeWait", "writing"}}

\* No writer holds the lock together with any other holder, although the lock
\* itself keeps only a count and a flag: LockRead and LockWrite test readers_
\* and writer_, never who holds it.
MutualExclusion ==
  /\ \A t \in Writing : Reading = {} /\ Writing = {t}
  /\ readers_ = Cardinality(Reading)
  /\ writer_ <=> Writing # {}

\* The queue and the threads agree: request numbers are unique and below the
\* counter, the queue is in increasing order and holds the number of every
\* writer that waits or writes, and the one that writes is at its head, so that
\* the pop() of UnLockWrite, which names no element, removes its own request.
RequestsInOrder ==
  /\ \A t \in Threads : pc[t] # "idle" => id[t] < id_counter_
  /\ \A t, u \in Threads : pc[t] # "idle" /\ pc[u] # "idle" /\ t # u => id[t] # id[u]
  /\ \A i \in DOMAIN write_requests_ : write_requests_[i] < id_counter_
  /\ \A i, j \in DOMAIN write_requests_ : i < j => write_requests_[i] < write_requests_[j]
  /\ \A t \in PendingWriters : \E i \in DOMAIN write_requests_ : write_requests_[i] = id[t]
  /\ \A t \in Writing : write_requests_[1] = id[t]

\* Sleeping readers are never forgotten: while a reader sleeps on read_cv_ some
\* writer is queued, and the last of these to leave (UnLockWrite with an empty
\* queue) wakes every reader.
NoStrandedReader == read_cv_ # {} => write_requests_ # <<>>

Admitted(t) == pc[t] \notin {"reading", "writing"} /\ pc'[t] \in {"reading", "writing"}

OnlyBeforeLaterWriters ==
  \A t, u \in Threads :
    Admitted(t) /\ pc[u] = "writeWait" /\ u # t => id'[t] < id[u]

\* No thread, reader or writer, is admitted while a writer that asked before it
\* is still waiting: the order the request numbers of LockRead and LockWrite
\* are there for.
NoOvertakingOfWriters == [][OnlyBeforeLaterWriters]_vars

\* Every request for the lock is eventually granted.
EveryRequestAdmitted ==
  \A t \in Threads : pc[t] \in {"readWait", "writeWait"} ~> pc[t] \in {"reading", "writing"}

\* As long as no two writers wait at the same time, as when one thread does all
\* the writing, every notify_one reaches the writer whose turn it is, and every
\* request is granted.
OneWriterAtATimeIsServed ==
  [](Cardinality(PendingWriters) <= 1) => EveryRequestAdmitted

\* The lock implements the abstract one.
Lock == INSTANCE RWLock WITH reading <- Reading, writing <- Writing
ImplementsRWLock == Lock!LockSpec
=============================================================================
