-------------------------- MODULE SparseIndexNodeCC --------------------------
(***************************************************************************)
(* SparseInvertedIndexNodeCC of src/index/sparse/sparse_index_node.cc, the *)
(* growable sparse index whose Add may run together with its searches.     *)
(* Every call is a task with a number; mutex_, cv_, the queue add_tasks_   *)
(* and two counters decide which tasks run.  A step is one critical        *)
(* section of mutex_, or a stretch of a call between two of them.  A batch *)
(* of rows given to Add is one row, named by the number of its task.       *)
(***************************************************************************)
EXTENDS Naturals, Sequences, FiniteSets

CONSTANTS
  Adders,          \* threads that call Add
  Searchers,       \* Search, GetVectorByIds, Dim, Size and Count
  RangeSearchers,  \* RangeSearch
  Iterators,       \* AnnIterator, and then HasNext / Next on what it returns
  MaxTasks,        \* bound on next_task_id_
  MetricIP         \* whether metric_type is IP (it is BM25 otherwise)

ThreadSet == Adders \cup Searchers \cup RangeSearchers \cup Iterators

ASSUME ThreadSetFinite == IsFiniteSet(ThreadSet)
ASSUME BoundsNat == MaxTasks \in Nat
ASSUME MetricKnown == MetricIP \in BOOLEAN

VARIABLES
  active_readers_, add_tasks_, next_task_id_, current_task_id_,  \* members
  cv_,          \* the threads asleep on the condition variable
  index_,       \* whether Train has created the index; it is null before
  rows,         \* the rows of index_, in the order of their ids
  raw_data_,    \* the rows kept for GetVectorByIds (metric IP)
  pc,           \* where each thread is
  task_id       \* the number of its last task

tasks == <<active_readers_, add_tasks_, next_task_id_, current_task_id_, cv_>>
data == <<index_, rows, raw_data_>>
vars == <<tasks, data, pc, task_id>>

\* Places of a thread: waits are on cv_.  A RangeSearch that has its permission
\* ("reading") asks for a second one in AnnIterator ("nestedWait", "nested") and
\* then scans under the first ("ranging").  "notify" is after Add's unlock.
Places == {"idle", "addWait", "adding", "notify", "readWait", "reading",
           "nestedWait", "nested", "ranging", "hasIterator", "iterReading"}

\* Places of a thread that holds a ReadPermission.
Holding == {"reading", "nestedWait", "nested", "ranging"}

Init ==
  /\ active_readers_ = 0 /\ add_tasks_ = <<>>
  /\ next_task_id_ = 0 /\ current_task_id_ = 0
  /\ cv_ = {}
  /\ index_ = FALSE /\ rows = <<>> /\ raw_data_ = <<>>
  /\ pc = [t \in ThreadSet |-> "idle"]
  /\ task_id = [t \in ThreadSet |-> 0]

\* Add keeps mutex_ from the end of its wait to its unlock.
MutexFree == \A t \in ThreadSet : pc[t] # "adding"

\* The first statements of Add and of the constructor of ReadPermission.
TakeNumber(t) ==
  /\ MutexFree /\ next_task_id_ < MaxTasks
  /\ next_task_id_' = next_task_id_ + 1
  /\ task_id' = [task_id EXCEPT ![t] = next_task_id_]
-----------------------------------------------------------------------------
\* Add.

\* Mutants of AddAdmitted: a later task may pass, and the order is ignored.
AddAdmittedEarly(i) == current_task_id_ <= i
AddAdmittedOutOfTurn(i) == active_readers_ = 0

\* The predicate of Add's wait.
AddAdmitted(i) == current_task_id_ = i /\ active_readers_ = 0

AwaitAdd(t, i) ==
  \/ /\ AddAdmitted(i)
     /\ pc' = [pc EXCEPT ![t] = "adding"]
     /\ cv_' = cv_ \ {t}
  \/ /\ ~AddAdmitted(i)
     /\ pc' = [pc EXCEPT ![t] = "addWait"]
     /\ cv_' = cv_ \cup {t}

Add(t) ==
  /\ pc[t] = "idle"
  /\ TakeNumber(t)
  /\ add_tasks_' = Append(add_tasks_, next_task_id_)
  /\ AwaitAdd(t, next_task_id_)
  /\ UNCHANGED <<active_readers_, current_task_id_, data>>

ResumeAdd(t) ==
  /\ pc[t] = "addWait" /\ MutexFree
  /\ AwaitAdd(t, task_id[t])
  /\ UNCHANGED <<active_readers_, add_tasks_, next_task_id_, current_task_id_, data, task_id>>

\* SparseInvertedIndexNode::Add returns empty_index before the first Train, and
\* sparse_inner_error when index_->Add throws, as a rule before it has counted the
\* rows.  (What a failed call left in the posting lists is not shown.)
BaseAdd(t) ==
  \/ index_ /\ rows' = Append(rows, task_id[t])
  \/ UNCHANGED rows

\* Mutant of AddRows: the raw data is inserted at the other end.
AddRowsAtFront(t) ==
  /\ BaseAdd(t)
  /\ raw_data_' = IF MetricIP THEN <<task_id[t]>> \o raw_data_ ELSE raw_data_
  /\ UNCHANGED index_

\* With metric IP raw_data_ grows whatever the Add of the base class returned.
AddRows(t) ==
  /\ BaseAdd(t)
  /\ raw_data_' = IF MetricIP THEN Append(raw_data_, task_id[t]) ELSE raw_data_
  /\ UNCHANGED index_

\* Mutant of FinishAdd: the task is not counted as finished.
FinishAddUncounted(t) ==
  /\ pc[t] = "adding"
  /\ AddRows(t)
  /\ add_tasks_' = Tail(add_tasks_)
  /\ pc' = [pc EXCEPT ![t] = "notify"]
  /\ UNCHANGED <<active_readers_, next_task_id_, current_task_id_, cv_, task_id>>

FinishAdd(t) ==
  /\ pc[t] = "adding"
  /\ AddRows(t)
  /\ add_tasks_' = Tail(add_tasks_)
  /\ current_task_id_' = current_task_id_ + 1
  /\ pc' = [pc EXCEPT ![t] = "notify"]
  /\ UNCHANGED <<active_readers_, next_task_id_, cv_, task_id>>

\* Mutant of NotifyAfterAdd: nobody is notified.
NotifyAfterAddSilent(t) ==
  /\ pc[t] = "notify"
  /\ pc' = [pc EXCEPT ![t] = "idle"]
  /\ UNCHANGED <<tasks, data, task_id>>

NotifyAfterAdd(t) ==
  /\ pc[t] = "notify"
  /\ cv_' = {}
  /\ pc' = [pc EXCEPT ![t] = "idle"]
  /\ UNCHANGED <<active_readers_, add_tasks_, next_task_id_, current_task_id_, data, task_id>>
-----------------------------------------------------------------------------
\* ReadPermission.

\* The predicate of the reader's wait; it is also the negation of the test
\* before the wait, since no read has the number of an Add.
ReadAdmitted(i) == add_tasks_ # <<>> => i < Head(add_tasks_)

\* Mutant of AwaitRead: the reader is not counted.
AwaitReadUncounted(t, i, wait, hold) ==
  /\ UNCHANGED active_readers_
  /\ pc' = [pc EXCEPT ![t] = IF ReadAdmitted(i) THEN hold ELSE wait]
  /\ cv_' = IF ReadAdmitted(i) THEN cv_ \ {t} ELSE cv_ \cup {t}

AwaitRead(t, i, wait, hold) ==
  \/ /\ ReadAdmitted(i)
     /\ active_readers_' = active_readers_ + 1
     /\ pc' = [pc EXCEPT ![t] = hold]
     /\ cv_' = cv_ \ {t}
  \/ /\ ~ReadAdmitted(i)
     /\ pc' = [pc EXCEPT ![t] = wait]
     /\ cv_' = cv_ \cup {t}
     /\ UNCHANGED active_readers_

\* The constructor, in a thread that moves from the place "from".
AcquireRead(t, from, wait, hold) ==
  /\ pc[t] = from
  /\ TakeNumber(t)
  /\ AwaitRead(t, next_task_id_, wait, hold)
  /\ UNCHANGED <<add_tasks_, current_task_id_, data>>

ResumeRead(t, wait, hold) ==
  /\ pc[t] = wait /\ MutexFree
  /\ AwaitRead(t, task_id[t], wait, hold)
  /\ UNCHANGED <<add_tasks_, next_task_id_, current_task_id_, data, task_id>>

\* Mutants of ReleaseRead: the task is not counted as finished, and nobody is
\* notified.
ReleaseReadUncounted(t, to) ==
  /\ MutexFree
  /\ active_readers_' = active_readers_ - 1
  /\ cv_' = {}
  /\ pc' = [pc EXCEPT ![t] = to]
  /\ UNCHANGED <<add_tasks_, next_task_id_, current_task_id_, data, task_id>>
ReleaseReadSilent(t, to) ==
  /\ MutexFree
  /\ active_readers_' = active_readers_ - 1
  /\ current_task_id_' = current_task_id_ + 1
  /\ pc' = [pc EXCEPT ![t] = to]
  /\ UNCHANGED <<add_tasks_, next_task_id_, cv_, data, task_id>>

\* The destructor.
ReleaseRead(t, to) ==
  /\ MutexFree
  /\ active_readers_' = active_readers_ - 1
  /\ current_task_id_' = current_task_id_ + 1
  /\ cv_' = {}
  /\ pc' = [pc EXCEPT ![t] = to]
  /\ UNCHANGED <<add_tasks_, next_task_id_, data, task_id>>
-----------------------------------------------------------------------------
\* The calls that take a ReadPermission.

\* Search, GetVectorByIds, Dim, Size and Count.
StartRead(t) == AcquireRead(t, "idle", "readWait", "reading")
ResumeStartRead(t) == ResumeRead(t, "readWait", "reading")
FinishSearch(t) == pc[t] = "reading" /\ ReleaseRead(t, "idle")

\* AnnIterator returns iterators that have computed nothing yet, or an error
\* when there is no index.
FinishAnnIterator(t) ==
  /\ pc[t] = "reading"
  /\ ReleaseRead(t, IF index_ THEN "hasIterator" ELSE "idle")

\* The first HasNext or Next of such an iterator reads all of index_, without
\* any permission.  Its user may also drop it unused.
FirstNext(t) ==
  /\ pc[t] = "hasIterator"
  /\ \E p \in {"iterReading", "idle"} : pc' = [pc EXCEPT ![t] = p]
  /\ UNCHANGED <<tasks, data, task_id>>

FinishFirstNext(t) ==
  /\ pc[t] = "iterReading"
  /\ pc' = [pc EXCEPT ![t] = "idle"]
  /\ UNCHANGED <<tasks, data, task_id>>

\* RangeSearch runs IndexNode::RangeSearch, which calls the AnnIterator of this
\* class (unless range_search_k is 0, when it returns at once) and then reads
\* the index through the iterators.
CallAnnIterator(t) == AcquireRead(t, "reading", "nestedWait", "nested")
ResumeAnnIterator(t) == ResumeRead(t, "nestedWait", "nested")
ReturnIterators(t) == pc[t] = "nested" /\ ReleaseRead(t, "ranging")
FinishRangeSearch(t) == pc[t] \in {"reading", "ranging"} /\ ReleaseRead(t, "idle")

\* Train is not among the methods that may run concurrently.
Train ==
  /\ \A t \in ThreadSet : pc[t] = "idle"
  /\ index_' = TRUE
  /\ rows' = <<>>
  /\ UNCHANGED <<raw_data_, tasks, pc, task_id>>
-----------------------------------------------------------------------------
AddStep(t) == Add(t) \/ ResumeAdd(t) \/ FinishAdd(t) \/ NotifyAfterAdd(t)
SearchStep(t) == StartRead(t) \/ ResumeStartRead(t) \/ FinishSearch(t)
IteratorStep(t) ==
  StartRead(t) \/ ResumeStartRead(t) \/ FinishAnnIterator(t) \/ FirstNext(t) \/ FinishFirstNext(t)
RangeStep(t) ==
  \/ StartRead(t) \/ ResumeStartRead(t)
  \/ CallAnnIterator(t) \/ ResumeAnnIterator(t) \/ ReturnIterators(t) \/ FinishRangeSearch(t)

Next ==
  \/ \E t \in Adders : AddStep(t)
  \/ \E t \in Searchers : SearchStep(t)
  \/ \E t \in Iterators : IteratorStep(t)
  \/ \E t \in RangeSearchers : RangeStep(t)
  \/ Train

Spec == Init /\ [][Next]_vars

\* A thread inside a call goes on: it gets mutex_, once notified, and its base
\* call returns.  Nothing obliges a thread to start a call, or a sleeper to wake
\* up without a notification.
FairSpec ==
  /\ Spec
  /\ \A t \in Adders :
       /\ WF_vars(t \notin cv_ /\ ResumeAdd(t))
       /\ WF_vars(FinishAdd(t) \/ NotifyAfterAdd(t))
  /\ \A t \in Searchers \cup Iterators \cup RangeSearchers :
       WF_vars(t \notin cv_ /\ ResumeStartRead(t))
  /\ \A t \in Searchers : WF_vars(FinishSearch(t))
  /\ \A t \in Iterators : WF_vars(FinishAnnIterator(t) \/ FinishFirstNext(t))
  /\ \A t \in RangeSearchers :
       /\ WF_vars(t \notin cv_ /\ ResumeAnnIterator(t))
       /\ WF_vars(CallAnnIterator(t) \/ ReturnIterators(t) \/ FinishRangeSearch(t))
-----------------------------------------------------------------------------
\* The members have the types of their declarations; in particular the
\* destructor of ReadPermission never takes active_readers_ below zero.
TypeOK ==
  /\ active_readers_ \in Nat /\ next_task_id_ \in Nat /\ current_task_id_ \in Nat
  /\ add_tasks_ \in Seq(Nat)
  /\ cv_ \subseteq ThreadSet
  /\ index_ \in BOOLEAN /\ rows \in Seq(Nat) /\ raw_data_ \in Seq(Nat)
  /\ pc \in [ThreadSet -> Places]
  /\ task_id \in [ThreadSet -> Nat]

Reading == {t \in ThreadSet : pc[t] \in Holding}
Writing == {t \in ThreadSet : pc[t] = "adding"}
Nesting == {t \in ThreadSet : pc[t] = "nested"}

\* Threads whose last task has a number but has not finished, among them the
\* ones that wait for cv_ in Add or in their first ReadPermission.
Waiting == {t \in ThreadSet : pc[t] \in {"addWait", "readWait"}}
NestedWaiting == {t \in ThreadSet : pc[t] = "nestedWait"}

\* active_readers_ is the number of permissions in use (a RangeSearch inside
\* AnnIterator has two), and current_task_id_, which the code increments at the
\* end of every task whatever its number, is the number of finished tasks.
CountersAgree ==
  /\ active_readers_ = Cardinality(Reading) + Cardinality(Nesting)
  /\ next_task_id_ = current_task_id_ + Cardinality(Waiting) + Cardinality(Writing)
       + active_readers_ + Cardinality(NestedWaiting)

\* Add changes the index and raw_data_ only while no other task reads them:
\* Search, GetVectorByIds and RangeSearch see one state of the index from their
\* first access to their last.
AddsExcludeReads ==
  \A t \in Writing : Writing = {t} /\ Reading = {}

RunsAlone(t) ==
  \A u \in ThreadSet \ {t} : pc'[u] \notin Holding
    /\ (pc'[u] \in {"addWait", "readWait"} => task_id'[t] < task_id'[u])

ReadsBeforeAdds(t) ==
  \A u \in ThreadSet \ {t} : pc'[u] \in {"addWait", "adding"} => task_id'[t] < task_id'[u]

StartsInOrder ==
  \A t \in ThreadSet :
    /\ pc[t] # "adding" /\ pc'[t] = "adding" => RunsAlone(t)
    /\ active_readers_' > active_readers_ /\ pc'[t] # pc[t] => ReadsBeforeAdds(t)

\* Tasks run in the order of their numbers as far as it matters: an Add starts
\* only when every task numbered before it has finished, a read only when every
\* Add numbered before it has (the comments in Add and in ReadPermission).
TasksInOrder == [][StartsInOrder]_vars

\* No wakeup is lost: a thread asleep on cv_ whose predicate has become true is
\* about to be notified.  Add notifies after it has released mutex_.
NoMissedWakeup ==
  (\E t \in ThreadSet : pc[t] = "notify") \/
  \A t \in cv_ : IF pc[t] = "addWait" THEN ~AddAdmitted(task_id[t])
                                     ELSE ~ReadAdmitted(task_id[t])

\* The protocol never blocks itself: when tasks wait and none runs, the one with
\* the least number is admitted by its predicate.
LeastTaskAdmitted ==
  (Waiting # {} /\ Reading = {} /\ Writing = {}) =>
    \E t \in Waiting :
      /\ \A u \in Waiting \ {t} : task_id[t] < task_id[u]
      /\ IF pc[t] = "addWait" THEN AddAdmitted(task_id[t]) ELSE ReadAdmitted(task_id[t])

\* Every task is served, as long as no RangeSearch waits for its second
\* permission.
EveryTaskServed ==
  [](NestedWaiting = {}) =>
    \A t \in ThreadSet : pc[t] \in {"addWait", "readWait"} ~> pc[t] \in {"adding", "reading"}

\* The elements of r are elements of w, in the same order.
FoundInOrder(r, w) ==
  \E place \in [DOMAIN r -> DOMAIN w] :
    /\ \A i \in DOMAIN r : w[place[i]] = r[i]
    /\ \A i, j \in DOMAIN r : i < j => place[i] < place[j]

\* With metric IP, raw_data_ has every row of the index, in the order of the ids,
\* whatever calls of Add failed in between and however often Train emptied the
\* index: so an id that Search returns is never past the end of raw_data_, which
\* GetVectorByIds reads without a test.
RawDataCoversIndex ==
  MetricIP => FoundInOrder(rows, raw_data_)

\* GetVectorByIds, which looks a row up in raw_data_ by its id, returns the row
\* that Add gave that id.
RawDataAlignedWithIndex ==
  MetricIP => \A i \in DOMAIN rows : raw_data_[i] = rows[i]

\* Add never changes the index while an iterator reads it.
IteratorsExcludeAdds == \A t \in Writing, u \in ThreadSet : pc[u] # "iterReading"

\* RangeSearch returns.
RangeSearchReturns ==
  \A t \in RangeSearchers : pc[t] = "reading" ~> pc[t] = "idle"

\* To its callers, the protocol of mutex_, cv_ and the counters is a
\* multi-read single-write lock.
Lock == INSTANCE RWLock WITH Threads <- ThreadSet, reading <- Reading, writing <- Writing
ImplementsRWLock == Lock!LockSpec
=============================================================================
