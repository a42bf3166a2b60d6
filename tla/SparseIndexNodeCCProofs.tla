----------------------- MODULE SparseIndexNodeCCProofs -----------------------
(***************************************************************************)
(* Proofs about SparseIndexNodeCC, for any finite sets of threads and any  *)
(* number of tasks and calls of Train.                                     *)
(***************************************************************************)
EXTENDS SparseIndexNodeCC, FiniteSetTheorems, WellFoundedInduction, TLAPS

\* Threads with a task that has a number and may not run yet, or is an Add.
Pending == {t \in ThreadSet : pc[t] \in {"addWait", "readWait", "nestedWait", "adding"}}
PendingAdds == {t \in ThreadSet : pc[t] \in {"addWait", "adding"}}

\* The numbers of tasks and the queue add_tasks_.  The queue is increasing and
\* has the numbers of the calls of Add that have not finished; the one that
\* runs is its head, so that pop() removes the caller's own.  No task with a
\* number above the head has been let in: this is what makes the comparison of
\* a number with current_task_id_, a mere count, mean "all before it are done".
TasksNumbered ==
  /\ \A t \in Pending : task_id[t] < next_task_id_
  /\ \A t, u \in Pending : t # u => task_id[t] # task_id[u]
  /\ \A i \in DOMAIN add_tasks_ : add_tasks_[i] < next_task_id_
  /\ \A i, j \in DOMAIN add_tasks_ : i < j => add_tasks_[i] < add_tasks_[j]
  /\ \A t \in PendingAdds : \E i \in DOMAIN add_tasks_ : add_tasks_[i] = task_id[t]
  /\ \A i \in DOMAIN add_tasks_ : \E t \in PendingAdds : task_id[t] = add_tasks_[i]
  /\ \A t \in Writing : add_tasks_[1] = task_id[t]
  /\ \A i \in DOMAIN add_tasks_ : \A n \in add_tasks_[i]..(next_task_id_ - 1) :
       \E t \in Pending : task_id[t] = n

\* Whoever sleeps on cv_ is in one of the two waits.
SleepersWait == \A t \in cv_ : pc[t] \in {"addWait", "readWait", "nestedWait"}

IInv ==
  /\ TypeOK /\ CountersAgree /\ AddsExcludeReads /\ NoMissedWakeup
  /\ TasksNumbered /\ SleepersWait
-----------------------------------------------------------------------------
\* Counting threads.

One(c) == IF c THEN 1 ELSE 0

\* How the number of a set of threads changes when one thread may enter or leave it.
LEMMA CountMove ==
  ASSUME NEW S \in SUBSET ThreadSet, NEW T \in SUBSET ThreadSet, NEW t \in ThreadSet,
         \A u \in ThreadSet : u # t => (u \in T <=> u \in S)
  PROVE  /\ Cardinality(S) \in Nat /\ Cardinality(T) \in Nat
         /\ Cardinality(T) = Cardinality(S) - One(t \in S) + One(t \in T)
<1>1. IsFiniteSet(S) /\ IsFiniteSet(T)
  BY ThreadSetFinite, FS_Subset
<1>2. Cardinality(S) \in Nat /\ Cardinality(T) \in Nat
  BY <1>1, FS_CardinalityType
<1>3. CASE t \in S <=> t \in T
  <2>1. S = T
    BY <1>3
  <2> QED BY <1>2, <2>1 DEF One
<1>4. CASE t \in S /\ t \notin T
  <2>1. T = S \ {t}
    BY <1>4
  <2>2. Cardinality(T) = Cardinality(S) - 1
    BY <1>1, <1>4, <2>1, FS_RemoveElement
  <2> QED BY <1>2, <1>4, <2>2 DEF One
<1>5. CASE t \notin S /\ t \in T
  <2>1. T = S \cup {t}
    BY <1>5
  <2>2. Cardinality(T) = Cardinality(S) + 1
    BY <1>1, <1>5, <2>1, FS_AddElement
  <2> QED BY <1>2, <1>5, <2>2 DEF One
<1> QED BY <1>3, <1>4, <1>5

\* The five sets that CountersAgree counts, when a thread moves to the place b.
LEMMA MoveCounts ==
  ASSUME TypeOK, NEW t \in ThreadSet, NEW b \in Places, pc' = [pc EXCEPT ![t] = b]
  PROVE  /\ pc' \in [ThreadSet -> Places]
         /\ pc'[t] = b /\ \A u \in ThreadSet : u # t => pc'[u] = pc[u]
         /\ Cardinality(Reading) \in Nat /\ Cardinality(Nesting) \in Nat
         /\ Cardinality(Waiting) \in Nat /\ Cardinality(Writing) \in Nat
         /\ Cardinality(NestedWaiting) \in Nat
         /\ Cardinality(Reading)' = Cardinality(Reading) - One(pc[t] \in Holding) + One(b \in Holding)
         /\ Cardinality(Nesting)' = Cardinality(Nesting) - One(pc[t] = "nested") + One(b = "nested")
         /\ Cardinality(Waiting)' = Cardinality(Waiting) - One(pc[t] \in {"addWait", "readWait"})
                                      + One(b \in {"addWait", "readWait"})
         /\ Cardinality(Writing)' = Cardinality(Writing) - One(pc[t] = "adding") + One(b = "adding")
         /\ Cardinality(NestedWaiting)' = Cardinality(NestedWaiting) - One(pc[t] = "nestedWait")
                                            + One(b = "nestedWait")
<1>1. /\ pc' \in [ThreadSet -> Places]
      /\ pc'[t] = b /\ \A u \in ThreadSet : u # t => pc'[u] = pc[u]
  BY DEF TypeOK
<1>2. /\ Reading \in SUBSET ThreadSet /\ Reading' \in SUBSET ThreadSet
      /\ \A u \in ThreadSet : u # t => (u \in Reading' <=> u \in Reading)
      /\ t \in Reading <=> pc[t] \in Holding
      /\ t \in Reading' <=> b \in Holding
  BY <1>1 DEF Reading
<1>3. /\ Nesting \in SUBSET ThreadSet /\ Nesting' \in SUBSET ThreadSet
      /\ \A u \in ThreadSet : u # t => (u \in Nesting' <=> u \in Nesting)
      /\ t \in Nesting <=> pc[t] = "nested"
      /\ t \in Nesting' <=> b = "nested"
  BY <1>1 DEF Nesting
<1>4. /\ Waiting \in SUBSET ThreadSet /\ Waiting' \in SUBSET ThreadSet
      /\ \A u \in ThreadSet : u # t => (u \in Waiting' <=> u \in Waiting)
      /\ t \in Waiting <=> pc[t] \in {"addWait", "readWait"}
      /\ t \in Waiting' <=> b \in {"addWait", "readWait"}
  BY <1>1 DEF Waiting
<1>5. /\ Writing \in SUBSET ThreadSet /\ Writing' \in SUBSET ThreadSet
      /\ \A u \in ThreadSet : u # t => (u \in Writing' <=> u \in Writing)
      /\ t \in Writing <=> pc[t] = "adding"
      /\ t \in Writing' <=> b = "adding"
  BY <1>1 DEF Writing
<1>6. /\ NestedWaiting \in SUBSET ThreadSet /\ NestedWaiting' \in SUBSET ThreadSet
      /\ \A u \in ThreadSet : u # t => (u \in NestedWaiting' <=> u \in NestedWaiting)
      /\ t \in NestedWaiting <=> pc[t] = "nestedWait"
      /\ t \in NestedWaiting' <=> b = "nestedWait"
  BY <1>1 DEF NestedWaiting
<1>7. /\ Cardinality(Reading) \in Nat
      /\ Cardinality(Reading') = Cardinality(Reading) - One(t \in Reading) + One(t \in Reading')
  BY <1>2, CountMove
<1>8. /\ Cardinality(Nesting) \in Nat
      /\ Cardinality(Nesting') = Cardinality(Nesting) - One(t \in Nesting) + One(t \in Nesting')
  BY <1>3, CountMove
<1>9. /\ Cardinality(Waiting) \in Nat
      /\ Cardinality(Waiting') = Cardinality(Waiting) - One(t \in Waiting) + One(t \in Waiting')
  BY <1>4, CountMove
<1>10. /\ Cardinality(Writing) \in Nat
       /\ Cardinality(Writing') = Cardinality(Writing) - One(t \in Writing) + One(t \in Writing')
  BY <1>5, CountMove
<1>11. /\ Cardinality(NestedWaiting) \in Nat
       /\ Cardinality(NestedWaiting') = Cardinality(NestedWaiting) - One(t \in NestedWaiting)
                                          + One(t \in NestedWaiting')
  BY <1>6, CountMove
<1>12. Cardinality(Reading)' = Cardinality(Reading) - One(pc[t] \in Holding) + One(b \in Holding)
  BY <1>2, <1>7 DEF One
<1>13. Cardinality(Nesting)' = Cardinality(Nesting) - One(pc[t] = "nested") + One(b = "nested")
  BY <1>3, <1>8 DEF One
<1>14. Cardinality(Waiting)' = Cardinality(Waiting) - One(pc[t] \in {"addWait", "readWait"})
                                 + One(b \in {"addWait", "readWait"})
  BY <1>4, <1>9 DEF One
<1>15. Cardinality(Writing)' = Cardinality(Writing) - One(pc[t] = "adding") + One(b = "adding")
  BY <1>5, <1>10 DEF One
<1>16. Cardinality(NestedWaiting)' = Cardinality(NestedWaiting) - One(pc[t] = "nestedWait")
                                       + One(b = "nestedWait")
  BY <1>6, <1>11 DEF One
<1> QED BY <1>1, <1>7, <1>8, <1>9, <1>10, <1>11, <1>12, <1>13, <1>14, <1>15, <1>16

\* The tasks that wait or add are those that CountersAgree counts one by one.
LEMMA PendingCount ==
  /\ IsFiniteSet(Pending) /\ Cardinality(Pending) \in Nat
  /\ Cardinality(Pending) = Cardinality(Waiting) + Cardinality(Writing) + Cardinality(NestedWaiting)
  /\ Cardinality(Waiting) \in Nat /\ Cardinality(Writing) \in Nat
  /\ Cardinality(NestedWaiting) \in Nat
  /\ Cardinality(Reading) \in Nat /\ Cardinality(Nesting) \in Nat
  /\ Cardinality(Reading) = 0 <=> Reading = {}
<1>1. /\ IsFiniteSet(Waiting) /\ IsFiniteSet(Writing) /\ IsFiniteSet(NestedWaiting)
      /\ IsFiniteSet(Reading) /\ IsFiniteSet(Nesting)
  BY ThreadSetFinite, FS_Subset DEF Waiting, Writing, NestedWaiting, Reading, Nesting
<1>2. /\ Waiting \cap Writing = {} /\ (Waiting \cup Writing) \cap NestedWaiting = {}
      /\ Pending = (Waiting \cup Writing) \cup NestedWaiting
  BY DEF Waiting, Writing, NestedWaiting, Pending
<1>3. /\ IsFiniteSet(Waiting \cup Writing)
      /\ Cardinality(Waiting \cup Writing) = Cardinality(Waiting) + Cardinality(Writing) - Cardinality({})
  BY <1>1, <1>2, FS_Union
<1>4. /\ IsFiniteSet(Pending)
      /\ Cardinality(Pending)
           = Cardinality(Waiting \cup Writing) + Cardinality(NestedWaiting) - Cardinality({})
  BY <1>1, <1>2, <1>3, FS_Union
<1>5. Cardinality({}) = 0 /\ (Cardinality(Reading) = 0 <=> Reading = {})
  BY <1>1, FS_EmptySet
<1>6. /\ Cardinality(Waiting) \in Nat /\ Cardinality(Writing) \in Nat
      /\ Cardinality(NestedWaiting) \in Nat /\ Cardinality(Pending) \in Nat
      /\ Cardinality(Reading) \in Nat /\ Cardinality(Nesting) \in Nat
  BY <1>1, <1>4, FS_CardinalityType
<1> QED BY <1>3, <1>4, <1>5, <1>6

\* CountersAgree, said of the pending tasks.
LEMMA CountersAgreePending ==
  ASSUME TypeOK, CountersAgree
  PROVE  next_task_id_ = current_task_id_ + active_readers_ + Cardinality(Pending)
<1> DEFINE a == Cardinality(Waiting) b == Cardinality(Writing) c == Cardinality(NestedWaiting)
<1>1. a \in Nat /\ b \in Nat /\ c \in Nat /\ Cardinality(Pending) = a + b + c
  BY PendingCount
<1>2. next_task_id_ = current_task_id_ + a + b + active_readers_ + c
  BY DEF CountersAgree
<1>3. current_task_id_ \in Nat /\ active_readers_ \in Nat
  BY DEF TypeOK
<1> HIDE DEF a, b, c
<1> QED BY <1>1, <1>2, <1>3

\* At least the tasks from the head of the queue on are pending, and no more
\* than these exactly when no pending task comes before the head.
LEMMA HeadCount ==
  ASSUME TypeOK, TasksNumbered, add_tasks_ # <<>>
  PROVE  /\ Head(add_tasks_) \in Nat /\ Head(add_tasks_) < next_task_id_
         /\ next_task_id_ - Head(add_tasks_) <= Cardinality(Pending)
         /\ next_task_id_ - Head(add_tasks_) = Cardinality(Pending)
              <=> \A u \in Pending : task_id[u] >= Head(add_tasks_)
<1> DEFINE h == Head(add_tasks_)
           S == {u \in Pending : task_id[u] >= h}
           f == [u \in S |-> task_id[u]]
<1>1. h \in Nat /\ h = add_tasks_[1] /\ 1 \in DOMAIN add_tasks_ /\ next_task_id_ \in Nat
  BY DEF TypeOK
<1>2. h < next_task_id_
  BY <1>1 DEF TasksNumbered
<1>3. \A u \in Pending : task_id[u] \in Nat
  BY DEF TypeOK, Pending
<1> HIDE DEF h
<1>4. f \in Surjection(S, h..(next_task_id_ - 1))
  <2>1. f \in [S -> h..(next_task_id_ - 1)]
    BY <1>1, <1>3 DEF TasksNumbered
  <2>2. ASSUME NEW n \in h..(next_task_id_ - 1) PROVE \E u \in S : f[u] = n
    <3>1. PICK u \in Pending : task_id[u] = n
      BY <1>1 DEF TasksNumbered
    <3> QED BY <1>1, <3>1
  <2> QED BY <2>1, <2>2 DEF Surjection
<1>5. IsFiniteSet(Pending) /\ S \in SUBSET Pending
  BY PendingCount
<1>6. /\ IsFiniteSet(S) /\ Cardinality(S) <= Cardinality(Pending)
      /\ Cardinality(Pending) = Cardinality(S) => Pending = S
  BY <1>5, FS_Subset
<1>7. Cardinality(h..(next_task_id_ - 1)) <= Cardinality(S)
  <2> HIDE DEF f, S
  <2> QED BY <1>4, <1>6, FS_Surjection
<1>8. Cardinality(h..(next_task_id_ - 1)) = next_task_id_ - h
  <2>1. h \in Int /\ next_task_id_ - 1 \in Int
    BY <1>1
  <2>2. Cardinality(h..(next_task_id_ - 1))
          = IF h > next_task_id_ - 1 THEN 0 ELSE (next_task_id_ - 1) - h + 1
    BY <2>1, FS_Interval
  <2> QED BY <1>1, <1>2, <2>2
<1>9. Cardinality(S) \in Nat /\ Cardinality(Pending) \in Nat
  BY <1>5, <1>6, FS_CardinalityType
<1>10. next_task_id_ - h <= Cardinality(Pending)
  BY <1>1, <1>6, <1>7, <1>8, <1>9
<1>11. ASSUME next_task_id_ - h = Cardinality(Pending), NEW u \in Pending PROVE task_id[u] >= h
  <2>1. Pending = S
    BY <1>1, <1>6, <1>7, <1>8, <1>9, <1>11
  <2> QED BY <2>1
<1>12. ASSUME \A u \in Pending : task_id[u] >= h
       PROVE  next_task_id_ - h = Cardinality(Pending)
  <2>1. S = Pending
    BY <1>12
  <2>2. f \in Injection(S, h..(next_task_id_ - 1))
    BY <1>4 DEF Surjection, Injection, IsInjective, TasksNumbered
  <2>3. Cardinality(h..(next_task_id_ - 1)) = Cardinality(S)
    <3> HIDE DEF f, S
    <3> QED BY <1>4, <1>6, <2>2, FS_Surjection
  <2> QED BY <1>8, <2>1, <2>3, Zenon
<1> QED BY <1>1, <1>2, <1>10, <1>11, <1>12 DEF h
-----------------------------------------------------------------------------
\* Numbers and the queue, when the places of the pending tasks do not change.
LEMMA NumbersKept ==
  ASSUME TasksNumbered, Pending' = Pending, PendingAdds' = PendingAdds, Writing' = Writing,
         UNCHANGED <<add_tasks_, next_task_id_>>,
         \A u \in Pending : task_id'[u] = task_id[u]
  PROVE  TasksNumbered'
<1>1. PendingAdds \subseteq Pending /\ Writing \subseteq Pending
  BY DEF PendingAdds, Pending, Writing
<1> QED BY <1>1 DEF TasksNumbered

\* A step after which fewer threads wait for their turn, while nobody adds,
\* keeps the numbering of tasks when every number behind an Add still has a thread.
LEMMA NumbersFewer ==
  ASSUME TasksNumbered, Pending' \subseteq Pending, PendingAdds' = PendingAdds, Writing' = {},
         UNCHANGED <<add_tasks_, next_task_id_, task_id>>,
         \A j \in DOMAIN add_tasks_ : \A n \in add_tasks_[j]..(next_task_id_ - 1) :
           \E u \in Pending' : task_id[u] = n
  PROVE  TasksNumbered'
BY DEF TasksNumbered

\* A sequence of numbers with one more number is a sequence of numbers.
LEMMA AppendedNumber ==
  ASSUME NEW s \in Seq(Nat), NEW n \in Nat
  PROVE  Append(s, n) \in Seq(Nat)
OBVIOUS

\* The constructor's values satisfy the inductive invariant.
LEMMA InitIInv == Init => IInv
<1> SUFFICES ASSUME Init PROVE IInv OBVIOUS
<1>1. TypeOK
  <2>1. index_ \in BOOLEAN
    BY Zenon DEF Init
  <2>2. /\ active_readers_ = 0 /\ next_task_id_ = 0 /\ current_task_id_ = 0
        /\ add_tasks_ = <<>> /\ rows = <<>> /\ raw_data_ = <<>> /\ cv_ = {}
        /\ pc = [t \in ThreadSet |-> "idle"] /\ task_id = [t \in ThreadSet |-> 0]
    BY Zenon DEF Init
  <2>3. 0 \in Nat /\ <<>> \in Seq(Nat) /\ "idle" \in Places
    BY DEF Places
  <2> QED BY <2>1, <2>2, <2>3, Zenon DEF TypeOK
<1>2. /\ Reading = {} /\ Writing = {} /\ Nesting = {} /\ Waiting = {} /\ NestedWaiting = {}
      /\ Pending = {} /\ PendingAdds = {}
  BY DEF Init, Reading, Writing, Nesting, Waiting, NestedWaiting, Pending, PendingAdds, Holding
<1>3. CountersAgree
  BY <1>2, FS_EmptySet DEF Init, CountersAgree
<1>4. AddsExcludeReads /\ NoMissedWakeup /\ SleepersWait
  BY <1>2 DEF Init, AddsExcludeReads, NoMissedWakeup, SleepersWait
<1>5. TasksNumbered
  BY <1>2 DEF Init, TasksNumbered
<1> QED BY <1>1, <1>3, <1>4, <1>5 DEF IInv

\* A call of Add that finds its predicate true runs alone: its number is the
\* head of the queue and the least of all pending ones.
LEMMA AdmittedAddIsLeast ==
  ASSUME IInv, MutexFree, NEW t \in ThreadSet, pc[t] = "addWait", AddAdmitted(task_id[t])
  PROVE  /\ Reading = {} /\ Writing = {}
         /\ add_tasks_ # <<>> /\ add_tasks_[1] = task_id[t]
         /\ \A u \in Pending : u # t => task_id[t] < task_id[u]
<1> USE DEF IInv
<1>1. Writing = {}
  BY DEF Writing, MutexFree
<1>2. active_readers_ = 0 /\ current_task_id_ = task_id[t] /\ task_id[t] \in Nat
  BY DEF AddAdmitted, TypeOK
<1>3. Cardinality(Reading) = 0
  BY <1>2, PendingCount DEF CountersAgree
<1>4. Reading = {}
  BY <1>3, PendingCount
<1>5. t \in PendingAdds /\ t \in Pending
  BY DEF PendingAdds, Pending
<1>6. PICK i \in DOMAIN add_tasks_ : add_tasks_[i] = task_id[t]
  BY <1>5 DEF TasksNumbered
<1>7. /\ add_tasks_ # <<>> /\ 1 \in DOMAIN add_tasks_ /\ Head(add_tasks_) = add_tasks_[1]
      /\ add_tasks_[1] \in Nat /\ i \in Nat /\ (i = 1 \/ 1 < i)
  BY <1>6 DEF TypeOK
<1>8. add_tasks_[1] <= task_id[t]
  BY <1>2, <1>6, <1>7 DEF TasksNumbered
<1>9. next_task_id_ = task_id[t] + Cardinality(Pending)
  BY <1>2, PendingCount, CountersAgreePending
<1>10. /\ next_task_id_ - add_tasks_[1] <= Cardinality(Pending)
       /\ next_task_id_ - add_tasks_[1] = Cardinality(Pending)
            => \A u \in Pending : task_id[u] >= add_tasks_[1]
  BY <1>7, HeadCount
<1>11. add_tasks_[1] = task_id[t] /\ next_task_id_ - add_tasks_[1] = Cardinality(Pending)
  <2>1. Cardinality(Pending) \in Nat
    BY PendingCount
  <2> QED BY <1>2, <1>7, <1>8, <1>9, <1>10, <2>1
<1>12. \A u \in Pending : task_id[u] >= task_id[t] /\ task_id[u] \in Nat
  <2>1. \A u \in Pending : task_id[u] \in Nat
    BY DEF TypeOK, Pending
  <2> QED BY <1>10, <1>11, <2>1
<1>13. \A u \in Pending : u # t => task_id[u] # task_id[t]
  BY <1>5 DEF TasksNumbered
<1>14. \A u \in Pending : u # t => task_id[t] < task_id[u]
  BY <1>2, <1>12, <1>13
<1> QED BY <1>1, <1>4, <1>7, <1>11, <1>14

\* A new call of Add is let in at once only when nothing is going on.
LEMMA NewAddFindsNothing ==
  ASSUME IInv, MutexFree, AddAdmitted(next_task_id_)
  PROVE  Reading = {} /\ Writing = {} /\ Pending = {} /\ add_tasks_ = <<>>
<1> USE DEF IInv
<1>1. Writing = {}
  BY DEF Writing, MutexFree
<1>2. active_readers_ = 0 /\ current_task_id_ = next_task_id_ /\ next_task_id_ \in Nat
  BY DEF AddAdmitted, TypeOK
<1>3. Cardinality(Reading) = 0
  BY <1>2, PendingCount DEF CountersAgree
<1>4. Reading = {}
  BY <1>3, PendingCount
<1>5. Cardinality(Pending) = 0
  BY <1>2, PendingCount, CountersAgreePending
<1>6. Pending = {}
  BY <1>5, PendingCount, FS_EmptySet
<1>7. add_tasks_ = <<>>
  <2>1. SUFFICES ASSUME add_tasks_ # <<>> PROVE FALSE
    OBVIOUS
  <2>2. 1 \in DOMAIN add_tasks_
    BY <2>1 DEF TypeOK
  <2>3. PendingAdds # {}
    BY <2>2 DEF TasksNumbered
  <2> QED BY <1>6, <2>3 DEF Pending, PendingAdds
<1> QED BY <1>1, <1>4, <1>6, <1>7
-----------------------------------------------------------------------------
\* What one thread contributes to the two counters: the permissions it has, and
\* its tasks that have a number and are not finished.
Held(p) == One(p \in Holding) + One(p = "nested")
Unfinished(p) ==
  Held(p) + One(p \in {"addWait", "readWait"}) + One(p = "adding") + One(p = "nestedWait")

\* The two contributions at every place.
LEMMA Contributions ==
  /\ \A p \in {"idle", "notify", "hasIterator", "iterReading"} : Held(p) = 0 /\ Unfinished(p) = 0
  /\ \A p \in {"addWait", "readWait", "adding"} : Held(p) = 0 /\ Unfinished(p) = 1
  /\ \A p \in {"reading", "ranging"} : Held(p) = 1 /\ Unfinished(p) = 1
  /\ Held("nestedWait") = 1 /\ Unfinished("nestedWait") = 2
  /\ Held("nested") = 2 /\ Unfinished("nested") = 2
BY DEF Held, Unfinished, One, Holding

\* The counters agree after a step that moves one thread, if they change by what
\* the thread contributes.
LEMMA CountersKept ==
  ASSUME TypeOK, CountersAgree, NEW t \in ThreadSet, NEW b \in Places,
         pc' = [pc EXCEPT ![t] = b],
         active_readers_' = active_readers_ - Held(pc[t]) + Held(b),
         NEW next \in Nat, next_task_id_' = next, NEW finished \in Nat, current_task_id_' = finished,
         next - finished = next_task_id_ - current_task_id_ - Unfinished(pc[t]) + Unfinished(b)
  PROVE  CountersAgree' /\ active_readers_' \in Nat
<1> DEFINE r == Cardinality(Reading) n == Cardinality(Nesting) a == Cardinality(Waiting)
           w == Cardinality(Writing) m == Cardinality(NestedWaiting)
           r1 == One(pc[t] \in Holding) r2 == One(b \in Holding)
           n1 == One(pc[t] = "nested") n2 == One(b = "nested")
           a1 == One(pc[t] \in {"addWait", "readWait"}) a2 == One(b \in {"addWait", "readWait"})
           w1 == One(pc[t] = "adding") w2 == One(b = "adding")
           m1 == One(pc[t] = "nestedWait") m2 == One(b = "nestedWait")
<1>1. r' = r - r1 + r2 /\ n' = n - n1 + n2 /\ a' = a - a1 + a2 /\ w' = w - w1 + w2 /\ m' = m - m1 + m2
  BY MoveCounts, ZenonT(40)
<1>2. /\ active_readers_ = r + n
      /\ next_task_id_ = current_task_id_ + a + w + active_readers_ + m
  BY DEF CountersAgree
<1>3. r \in Nat /\ n \in Nat /\ a \in Nat /\ w \in Nat /\ m \in Nat
  BY MoveCounts, Zenon
<1>4. r' \in Nat /\ n' \in Nat
  <2>1. r' \in Nat
    BY ThreadSetFinite, FS_Subset, FS_CardinalityType DEF Reading
  <2>2. n' \in Nat
    BY ThreadSetFinite, FS_Subset, FS_CardinalityType DEF Nesting
  <2> QED BY <2>1, <2>2
<1>5. current_task_id_ \in Nat /\ next_task_id_ \in Nat
  BY DEF TypeOK
<1>6. /\ r1 \in Int /\ r2 \in Int /\ n1 \in Int /\ n2 \in Int /\ a1 \in Int /\ a2 \in Int
      /\ w1 \in Int /\ w2 \in Int /\ m1 \in Int /\ m2 \in Int
  BY DEF One
<1>7. /\ Held(pc[t]) = r1 + n1 /\ Unfinished(pc[t]) = r1 + n1 + a1 + w1 + m1
      /\ Held(b) = r2 + n2 /\ Unfinished(b) = r2 + n2 + a2 + w2 + m2
  BY DEF Held, Unfinished
<1> HIDE DEF r, n, a, w, m, r1, r2, n1, n2, a1, a2, w1, w2, m1, m2
<1>8. active_readers_' = r' + n'
  BY <1>1, <1>2, <1>3, <1>6, <1>7
<1>9. next_task_id_' = current_task_id_' + a' + w' + active_readers_' + m'
  <2>1. next - finished
          = (a + w + r + n + m) - (r1 + n1 + a1 + w1 + m1) + (r2 + n2 + a2 + w2 + m2)
    BY <1>2, <1>3, <1>5, <1>6, <1>7
  <2>2. next = finished + (a - a1 + a2) + (w - w1 + w2) + ((r - r1 + r2) + (n - n1 + n2))
                 + (m - m1 + m2)
    BY <1>3, <1>6, <2>1
  <2> QED BY <1>1, <1>8, <2>2, Zenon
<1>10. CountersAgree'
  BY <1>8, <1>9 DEF CountersAgree, r, n, a, w, m
<1>11. active_readers_' \in Nat
  <2>1. PICK x \in Nat, y \in Nat : r' = x /\ n' = y
    BY <1>4
  <2> QED BY <1>8, <2>1
<1> QED BY <1>10, <1>11

\* No wakeup is lost by a step that only puts its own thread to sleep, with a
\* false predicate, and makes no predicate of another thread true.
LEMMA WakeupsKept ==
  ASSUME TypeOK, NoMissedWakeup, SleepersWait, NEW t \in ThreadSet,
         pc[t] # "notify", cv_' \subseteq cv_ \cup {t},
         \A u \in ThreadSet : u # t => pc'[u] = pc[u] /\ task_id'[u] = task_id[u],
         current_task_id_' = current_task_id_, active_readers_' \in Nat,
         active_readers_' >= active_readers_,
         add_tasks_ # <<>> => add_tasks_' # <<>> /\ Head(add_tasks_') = Head(add_tasks_),
         t \in cv_' => /\ pc'[t] \in {"addWait", "readWait", "nestedWait"}
                       /\ IF pc'[t] = "addWait" THEN ~AddAdmitted(task_id[t])'
                                                ELSE ~ReadAdmitted(task_id[t])'
  PROVE  NoMissedWakeup' /\ SleepersWait'
<1>1. SleepersWait'
  BY Zenon DEF SleepersWait, TypeOK
<1>2. SUFFICES ASSUME \A u \in ThreadSet : pc'[u] # "notify", NEW u \in cv_', u # t
               PROVE  IF pc'[u] = "addWait" THEN ~AddAdmitted(task_id[u])'
                                            ELSE ~ReadAdmitted(task_id[u])'
  BY <1>1 DEF NoMissedWakeup
<1>3. u \in cv_ /\ u \in ThreadSet
  BY <1>2 DEF TypeOK
<1>4. pc'[u] = pc[u] /\ task_id'[u] = task_id[u]
  BY <1>2, <1>3
<1>5. \A v \in ThreadSet : pc[v] # "notify"
  BY <1>2
<1>6. IF pc[u] = "addWait" THEN ~AddAdmitted(task_id[u]) ELSE ~ReadAdmitted(task_id[u])
  BY <1>3, <1>5 DEF NoMissedWakeup
<1>7. CASE pc[u] = "addWait"
  BY <1>4, <1>6, <1>7 DEF AddAdmitted, TypeOK
<1>8. CASE pc[u] # "addWait"
  BY <1>4, <1>6, <1>8 DEF ReadAdmitted
<1> QED BY <1>7, <1>8
-----------------------------------------------------------------------------
\* Add up to its return from the wait or its first sleep: the number that it
\* appends to the queue is above all others.
LEMMA AddIInv ==
  ASSUME IInv, NEW t \in ThreadSet, Add(t) PROVE IInv'
<1> USE DEF IInv
<1> DEFINE i == next_task_id_
           q == Append(add_tasks_, i)
<1>1. /\ pc[t] = "idle" /\ MutexFree /\ i \in Nat /\ add_tasks_' = q /\ next_task_id_' = i + 1
      /\ task_id' = [task_id EXCEPT ![t] = i]
      /\ UNCHANGED <<active_readers_, current_task_id_, data>>
  BY DEF Add, TakeNumber, TypeOK
<1>2. /\ task_id' \in [ThreadSet -> Nat] /\ task_id'[t] = i
      /\ \A u \in ThreadSet : u # t => task_id'[u] = task_id[u]
  BY <1>1 DEF TypeOK
<1>3. /\ q \in Seq(Nat) /\ Len(q) = Len(add_tasks_) + 1 /\ q # <<>> /\ Head(q) = q[1]
      /\ q[Len(q)] = i /\ Len(add_tasks_) \in Nat
      /\ DOMAIN q = 1..Len(q) /\ DOMAIN add_tasks_ = 1..Len(add_tasks_)
      /\ \A j \in DOMAIN add_tasks_ : q[j] = add_tasks_[j]
      /\ add_tasks_ # <<>> => Head(q) = Head(add_tasks_)
  <2>1. i \in Nat /\ add_tasks_ \in Seq(Nat)
    BY Zenon DEF IInv, TypeOK
  <2> HIDE DEF i, IInv
  <2> QED BY <2>1, SMTT(30)
<1>4. PICK b \in {"adding", "addWait"} :
        /\ pc' = [pc EXCEPT ![t] = b]
        /\ b = "adding" => AddAdmitted(i) /\ cv_' = cv_ \ {t}
        /\ b = "addWait" => ~AddAdmitted(i) /\ cv_' = cv_ \cup {t}
  BY Zenon DEF Add, AwaitAdd
<1> HIDE DEF q, i
<1>5. b \in Places
  BY DEF Places
<1>6. /\ pc' \in [ThreadSet -> Places] /\ pc'[t] = b
      /\ \A u \in ThreadSet : u # t => pc'[u] = pc[u]
  BY <1>4, <1>5, MoveCounts, Zenon
<1>7. CountersAgree'
  <2>1. Held(pc[t]) = 0 /\ Held(b) = 0 /\ Unfinished(pc[t]) = 0 /\ Unfinished(b) = 1
    BY <1>1, <1>4, Contributions
  <2>2. /\ active_readers_' = active_readers_ - Held(pc[t]) + Held(b)
        /\ i + 1 \in Nat /\ current_task_id_ \in Nat
        /\ (i + 1) - current_task_id_
             = next_task_id_ - current_task_id_ - Unfinished(pc[t]) + Unfinished(b)
    BY <1>1, <2>1, SMTT(30) DEF TypeOK, i
  <2>3. current_task_id_' = current_task_id_
    BY <1>1
  <2> QED BY <1>1, <1>4, <1>5, <2>2, <2>3, CountersKept, Zenon
<1>8. TypeOK'
  <2>1. cv_' \subseteq ThreadSet
    BY <1>4 DEF TypeOK
  <2> QED BY <1>1, <1>2, <1>3, <1>6, <2>1 DEF TypeOK, data
<1>9. AddsExcludeReads'
  <2>1. CASE b = "addWait"
    BY <1>1, <1>6, <2>1 DEF AddsExcludeReads, Writing, Reading, MutexFree
  <2>2. CASE b = "adding"
    <3>1. Reading = {} /\ Writing = {}
      BY <1>1, <1>4, <2>2, NewAddFindsNothing DEF i
    <3>2. Reading' = {} /\ Writing' = {t}
      BY <1>6, <2>2, <3>1, Zenon DEF Reading, Writing, Holding
    <3> QED BY <3>2 DEF AddsExcludeReads
  <2> QED BY <2>1, <2>2
<1>10. NoMissedWakeup' /\ SleepersWait'
  <2>1. cv_' \subseteq cv_ \cup {t}
    BY <1>4
  <2>2. t \in cv_' => b = "addWait" /\ ~AddAdmitted(i)
    BY <1>4
  <2>3. t \in cv_' => pc'[t] = "addWait" /\ ~AddAdmitted(task_id[t])'
    BY <1>1, <1>2, <1>6, <2>2 DEF AddAdmitted
  <2>4. active_readers_' \in Nat /\ active_readers_' >= active_readers_
    BY <1>1 DEF TypeOK
  <2> QED BY <1>1, <1>2, <1>3, <1>6, <2>1, <2>3, <2>4, WakeupsKept
<1>11. TasksNumbered'
  <2>1. Pending' = Pending \cup {t} /\ PendingAdds' = PendingAdds \cup {t}
        /\ t \notin Pending /\ t \notin PendingAdds
    BY <1>1, <1>4, <1>6 DEF Pending, PendingAdds
  <2>2. PendingAdds \subseteq Pending /\ Pending \subseteq ThreadSet
    BY Zenon DEF Pending, PendingAdds
  <2>3. \A u \in Pending : u # t /\ task_id'[u] = task_id[u] /\ task_id[u] \in Nat /\ task_id[u] < i
    BY <1>2, <2>1, <2>2, Zenon DEF TasksNumbered, TypeOK, i
  <2>4. /\ \A u \in Pending' : task_id'[u] < i + 1
        /\ \A u, v \in Pending' : u # v => task_id'[u] # task_id'[v]
    BY <1>1, <1>2, <2>1, <2>2, <2>3 DEF TasksNumbered
  <2>5. \A j \in DOMAIN q : (j \in DOMAIN add_tasks_ /\ q[j] \in Nat /\ q[j] < i) \/ j = Len(q)
    <3>1. \A j \in DOMAIN add_tasks_ : add_tasks_[j] < i /\ add_tasks_[j] \in Nat
      <4>1. add_tasks_ \in Seq(Nat) /\ \A j \in DOMAIN add_tasks_ : add_tasks_[j] < i
        BY Zenon DEF TasksNumbered, TypeOK, i
      <4> HIDE DEF IInv
      <4> QED BY <4>1
    <3>2. \A j \in DOMAIN q : j \in DOMAIN add_tasks_ \/ j = Len(q)
      <4> HIDE DEF IInv
      <4> QED BY <1>3
    <3> QED BY <1>3, <3>1, <3>2, Zenon
  <2>6. \A j \in DOMAIN q : q[j] < i + 1
    <3> SUFFICES ASSUME NEW j \in DOMAIN q PROVE q[j] < i + 1
      OBVIOUS
    <3>1. i \in Nat /\ ((q[j] \in Nat /\ q[j] < i) \/ q[j] = i)
      BY <1>1, <1>3, <2>5, Zenon
    <3> HIDE DEF IInv, i, q
    <3> QED BY <3>1
  <2>7. ASSUME NEW j \in DOMAIN q, NEW k \in DOMAIN q, j < k PROVE q[j] < q[k]
    <3>1. j \in DOMAIN add_tasks_
      BY <1>3, <2>7
    <3>2. CASE k \in DOMAIN add_tasks_
      BY <1>3, <2>7, <3>1, <3>2 DEF TasksNumbered
    <3>3. CASE k = Len(q)
      BY <1>3, <2>5, <2>7, <3>1, <3>3
    <3> QED BY <2>5, <3>2, <3>3
  <2>8. ASSUME NEW u \in PendingAdds' PROVE \E j \in DOMAIN q : q[j] = task_id'[u]
    <3>1. CASE u = t
      <4>1. Len(q) \in DOMAIN q
        BY <1>3
      <4> QED BY <1>2, <1>3, <3>1, <4>1
    <3>2. CASE u # t
      <4>1. u \in PendingAdds /\ task_id'[u] = task_id[u]
        BY <2>1, <2>2, <2>3, <3>2
      <4>2. PICK j \in DOMAIN add_tasks_ : add_tasks_[j] = task_id[u]
        BY <4>1 DEF TasksNumbered
      <4>3. j \in DOMAIN q
        BY <1>3
      <4> QED BY <1>3, <4>1, <4>2, <4>3, Zenon
    <3> QED BY <3>1, <3>2
  <2>9. ASSUME NEW j \in DOMAIN q PROVE \E u \in PendingAdds' : task_id'[u] = q[j]
    <3>1. CASE j = Len(q)
      BY <1>2, <1>3, <2>1, <3>1
    <3>2. CASE j \in DOMAIN add_tasks_
      <4>1. PICK u \in PendingAdds : task_id[u] = add_tasks_[j]
        BY <3>2 DEF TasksNumbered
      <4> QED BY <1>3, <2>1, <2>2, <2>3, <3>2, <4>1
    <3> QED BY <2>5, <3>1, <3>2
  <2>10. ASSUME NEW u \in Writing' PROVE q[1] = task_id'[u]
    <3>1. u = t /\ b = "adding"
      BY <1>1, <1>6 DEF Writing, MutexFree
    <3>2. add_tasks_ = <<>>
      BY <1>1, <1>4, <3>1, NewAddFindsNothing DEF i
    <3> QED BY <1>2, <1>3, <3>1, <3>2
  <2>11. ASSUME NEW j \in DOMAIN q, NEW n \in q[j]..i PROVE \E u \in Pending' : task_id'[u] = n
    <3>1. CASE n = i
      BY <1>2, <2>1, <3>1
    <3>2. CASE n # i
      <4>1. j \in DOMAIN add_tasks_ /\ n \in add_tasks_[j]..(i - 1)
        <5>1. i \in Nat /\ q[Len(q)] = i
          BY <1>1, <1>3
        <5>2. j # Len(q)
          BY <3>2, <5>1
        <5>3. j \in DOMAIN add_tasks_ /\ q[j] \in Nat
          BY <2>5, <5>2
        <5>4. q[j] = add_tasks_[j]
          BY <1>3, <5>3
        <5>5. n \in q[j]..(i - 1)
          BY <3>2, <5>1, <5>3
        <5> QED BY <5>3, <5>4, <5>5
      <4>2. PICK u \in Pending : task_id[u] = n
        BY <4>1 DEF TasksNumbered, i
      <4> QED BY <2>1, <2>3, <4>2
    <3> QED BY <3>1, <3>2
  <2>12. (i + 1) - 1 = i
    BY <1>1
  <2> QED BY <1>1, <2>4, <2>6, <2>7, <2>8, <2>9, <2>10, <2>11, <2>12 DEF TasksNumbered
<1> QED BY <1>7, <1>8, <1>9, <1>10, <1>11

\* Add when it wakes up and tests again.
LEMMA ResumeAddIInv ==
  ASSUME IInv, NEW t \in ThreadSet, ResumeAdd(t) PROVE IInv'
<1> USE DEF IInv
<1>1. /\ pc[t] = "addWait" /\ MutexFree /\ task_id[t] \in Nat
      /\ UNCHANGED <<active_readers_, add_tasks_, next_task_id_, current_task_id_, data, task_id>>
  BY DEF ResumeAdd, TypeOK
<1>2. PICK b \in {"adding", "addWait"} :
        /\ pc' = [pc EXCEPT ![t] = b]
        /\ b = "adding" => AddAdmitted(task_id[t]) /\ cv_' = cv_ \ {t}
        /\ b = "addWait" => ~AddAdmitted(task_id[t]) /\ cv_' = cv_ \cup {t}
  BY Zenon DEF ResumeAdd, AwaitAdd
<1>3. b \in Places
  BY DEF Places
<1>4. /\ pc' \in [ThreadSet -> Places] /\ pc'[t] = b
      /\ \A u \in ThreadSet : u # t => pc'[u] = pc[u]
  BY <1>2, <1>3, MoveCounts, Zenon
<1>5. CountersAgree'
  <2>1. Held(pc[t]) = 0 /\ Held(b) = 0 /\ Unfinished(pc[t]) = 1 /\ Unfinished(b) = 1
    BY <1>1, <1>2, Contributions
  <2>2. /\ active_readers_' = active_readers_ - Held(pc[t]) + Held(b)
        /\ next_task_id_ \in Nat /\ current_task_id_ \in Nat
        /\ next_task_id_ - current_task_id_
             = next_task_id_ - current_task_id_ - Unfinished(pc[t]) + Unfinished(b)
    BY <1>1, <2>1, SMTT(30) DEF TypeOK
  <2>3. next_task_id_' = next_task_id_ /\ current_task_id_' = current_task_id_
    BY <1>1
  <2> QED BY <1>2, <1>3, <2>2, <2>3, CountersKept, Zenon
<1>6. TypeOK'
  <2>1. cv_' \subseteq ThreadSet
    BY <1>2 DEF TypeOK
  <2> QED BY <1>1, <1>4, <2>1 DEF TypeOK, data
<1>7. b = "adding" =>
        /\ Reading = {} /\ Writing = {} /\ add_tasks_ # <<>> /\ add_tasks_[1] = task_id[t]
  BY <1>1, <1>2, AdmittedAddIsLeast, Zenon
<1>8. AddsExcludeReads'
  <2>1. CASE b = "addWait"
    BY <1>1, <1>4, <2>1 DEF AddsExcludeReads, Writing, Reading, MutexFree
  <2>2. CASE b = "adding"
    <3>1. Reading' = {} /\ Writing' = {t}
      BY <1>4, <1>7, <2>2 DEF Reading, Writing, Holding
    <3> QED BY <3>1 DEF AddsExcludeReads
  <2> QED BY <2>1, <2>2
<1>9. NoMissedWakeup' /\ SleepersWait'
  <2>1. cv_' \subseteq cv_ \cup {t}
    BY <1>2
  <2>2. t \in cv_' => b = "addWait" /\ ~AddAdmitted(task_id[t])
    BY <1>2
  <2>3. t \in cv_' => pc'[t] = "addWait" /\ ~AddAdmitted(task_id[t])'
    BY <1>1, <1>4, <2>2 DEF AddAdmitted
  <2>4. active_readers_' \in Nat /\ active_readers_' >= active_readers_
    BY <1>1 DEF TypeOK
  <2> QED BY <1>1, <1>4, <2>1, <2>3, <2>4, WakeupsKept
<1>10. TasksNumbered'
  <2>1. Pending' = Pending /\ PendingAdds' = PendingAdds
    BY <1>1, <1>2, <1>4 DEF Pending, PendingAdds
  <2>2. \A u \in Writing' : add_tasks_[1] = task_id[u]
    <3>1. \A u \in Writing' : u = t /\ b = "adding"
      BY <1>1, <1>4 DEF Writing, MutexFree
    <3> QED BY <1>7, <3>1, Zenon
  <2> QED BY <1>1, <2>1, <2>2 DEF TasksNumbered
<1> QED BY <1>5, <1>6, <1>8, <1>9, <1>10

\* The end of Add: the number that it pops is its own.
LEMMA FinishAddIInv ==
  ASSUME IInv, NEW t \in ThreadSet, FinishAdd(t) PROVE IInv'
<1> USE DEF IInv
<1> DEFINE q == Tail(add_tasks_)
<1>1. /\ pc[t] = "adding" /\ pc' = [pc EXCEPT ![t] = "notify"] /\ add_tasks_' = q
      /\ current_task_id_' = current_task_id_ + 1
      /\ UNCHANGED <<active_readers_, next_task_id_, cv_, task_id>>
  BY DEF FinishAdd
<1>2. "notify" \in Places
  BY DEF Places
<1>3. /\ pc' \in [ThreadSet -> Places] /\ pc'[t] = "notify"
      /\ \A u \in ThreadSet : u # t => pc'[u] = pc[u]
  BY <1>1, <1>2, MoveCounts, Zenon
<1>4. t \in Writing /\ Writing = {t} /\ Reading = {} /\ t \in PendingAdds /\ t \in Pending
  BY <1>1 DEF Writing, AddsExcludeReads, PendingAdds, Pending
<1>5. add_tasks_ # <<>> /\ add_tasks_[1] = task_id[t] /\ add_tasks_[1] \in Nat
  BY <1>4 DEF TasksNumbered, TypeOK
<1>6. /\ q \in Seq(Nat) /\ Len(q) = Len(add_tasks_) - 1 /\ Len(q) \in Nat
      /\ DOMAIN q = 1..Len(q) /\ DOMAIN add_tasks_ = 1..Len(add_tasks_) /\ 1 \in DOMAIN add_tasks_
      /\ \A j \in DOMAIN q : j + 1 \in DOMAIN add_tasks_ /\ q[j] = add_tasks_[j + 1] /\ 1 < j + 1
  BY <1>5 DEF TypeOK
<1> HIDE DEF q
<1>7. CountersAgree'
  <2>1. Held(pc[t]) = 0 /\ Held("notify") = 0 /\ Unfinished(pc[t]) = 1 /\ Unfinished("notify") = 0
    BY <1>1, Contributions
  <2>2. /\ active_readers_' = active_readers_ - Held(pc[t]) + Held("notify")
        /\ next_task_id_ \in Nat /\ current_task_id_ + 1 \in Nat
        /\ next_task_id_ - (current_task_id_ + 1)
             = next_task_id_ - current_task_id_ - Unfinished(pc[t]) + Unfinished("notify")
    BY <1>1, <2>1 DEF TypeOK
  <2> QED BY <1>1, <1>2, <2>2, CountersKept, Zenon
<1>8. TypeOK'
  <2>1. current_task_id_' \in Nat
    BY <1>1 DEF TypeOK
  <2>2. index_' \in BOOLEAN /\ rows' \in Seq(Nat) /\ raw_data_' \in Seq(Nat)
    <3>1. AddRows(t) /\ index_ \in BOOLEAN
      BY Zenon DEF FinishAdd, TypeOK
    <3>2. index_' = index_
      BY <3>1, Zenon DEF AddRows
    <3>3. rows' \in Seq(Nat) /\ raw_data_' \in Seq(Nat)
      <4>1. /\ rows \in Seq(Nat) /\ raw_data_ \in Seq(Nat) /\ task_id[t] \in Nat
        BY Zenon DEF TypeOK
      <4>2. /\ rows' = Append(rows, task_id[t]) \/ rows' = rows
            /\ raw_data_' = Append(raw_data_, task_id[t]) \/ raw_data_' = raw_data_
        BY <3>1, Zenon DEF AddRows, BaseAdd
      <4>3. Append(rows, task_id[t]) \in Seq(Nat) /\ Append(raw_data_, task_id[t]) \in Seq(Nat)
        BY <4>1, AppendedNumber, Zenon
      <4> QED BY <4>1, <4>2, <4>3, Zenon
    <3> QED BY <3>1, <3>2, <3>3, Zenon
  <2> QED BY <1>1, <1>3, <1>6, <2>1, <2>2 DEF TypeOK
<1>9. AddsExcludeReads'
  BY <1>3, <1>4, Zenon DEF AddsExcludeReads, Writing
<1>10. NoMissedWakeup' /\ SleepersWait'
  <2>1. t \notin cv_
    BY <1>1, Zenon DEF SleepersWait
  <2> QED BY <1>1, <1>3, <2>1 DEF NoMissedWakeup, SleepersWait, TypeOK
<1>11. TasksNumbered'
  <2>1. /\ Pending' = Pending \ {t} /\ PendingAdds' = PendingAdds \ {t} /\ Writing' = {}
    BY <1>3, <1>4 DEF Pending, PendingAdds, Writing
  <2>2. /\ \A u \in Pending' : task_id[u] < next_task_id_
        /\ \A u, v \in Pending' : u # v => task_id[u] # task_id[v]
    BY <2>1 DEF TasksNumbered
  <2>3. ASSUME NEW j \in DOMAIN q PROVE q[j] < next_task_id_ /\ q[j] > task_id[t]
    <3>1. PICK k \in DOMAIN add_tasks_ : q[j] = add_tasks_[k] /\ 1 < k
      BY <1>6
    <3>2. add_tasks_[k] < next_task_id_ /\ add_tasks_[1] < add_tasks_[k]
      BY <1>6, <3>1, Zenon DEF TasksNumbered
    <3>3. add_tasks_[k] \in Nat
      BY DEF TypeOK
    <3> QED BY <1>5, <3>1, <3>2, <3>3
  <2>4. ASSUME NEW j \in DOMAIN q, NEW k \in DOMAIN q, j < k PROVE q[j] < q[k]
    <3>1. j + 1 < k + 1 /\ j + 1 \in DOMAIN add_tasks_ /\ k + 1 \in DOMAIN add_tasks_
      BY <1>6, <2>4
    <3> QED BY <1>6, <3>1 DEF TasksNumbered
  <2>5. ASSUME NEW u \in PendingAdds' PROVE \E j \in DOMAIN q : q[j] = task_id[u]
    <3>1. u \in PendingAdds /\ u # t /\ u \in Pending
      BY <2>1 DEF Pending, PendingAdds
    <3>2. PICK k \in DOMAIN add_tasks_ : add_tasks_[k] = task_id[u]
      BY <3>1 DEF TasksNumbered
    <3>3. k # 1
      BY <1>4, <1>5, <3>1, <3>2 DEF TasksNumbered
    <3>4. k - 1 \in DOMAIN q /\ k = (k - 1) + 1
      BY <1>6, <3>2, <3>3
    <3>5. q[k - 1] = add_tasks_[k]
      BY <1>6, <3>4
    <3> QED BY <3>2, <3>4, <3>5
  <2>6. ASSUME NEW j \in DOMAIN q PROVE \E u \in PendingAdds' : task_id[u] = q[j]
    <3>1. PICK u \in PendingAdds : task_id[u] = q[j]
      BY <1>6 DEF TasksNumbered
    <3>2. u # t
      BY <1>5, <1>6, <2>3, <3>1
    <3> QED BY <2>1, <3>1, <3>2, Zenon
  <2>7. ASSUME NEW j \in DOMAIN q, NEW n \in q[j]..(next_task_id_ - 1)
        PROVE  \E u \in Pending' : task_id[u] = n
    <3>1. PICK u \in Pending : task_id[u] = n
      BY <1>6 DEF TasksNumbered
    <3>2. q[j] \in Nat /\ q[j] > task_id[t] /\ task_id[t] \in Nat /\ n >= q[j]
      BY <1>5, <1>6, <2>3
    <3>3. u # t
      BY <3>1, <3>2
    <3> QED BY <2>1, <3>1, <3>3
  <2>8. \A j \in DOMAIN q : q[j] < next_task_id_
    BY <2>3
  <2> QED BY <1>1, <2>1, <2>2, <2>4, <2>5, <2>6, <2>7, <2>8 DEF TasksNumbered
<1> QED BY <1>7, <1>8, <1>9, <1>10, <1>11

\* A step that moves a thread between places where it has no task, and wakes
\* everybody or nobody: notify_all of Add, the iterator without permission.
LEMMA OutsideIInv ==
  ASSUME IInv, NEW t \in ThreadSet, NEW b \in {"idle", "iterReading"},
         pc[t] \in {"notify", "hasIterator", "iterReading"},
         pc' = [pc EXCEPT ![t] = b],
         cv_' = {} \/ (cv_' = cv_ /\ pc[t] # "notify"),
         UNCHANGED <<active_readers_, add_tasks_, next_task_id_, current_task_id_, data, task_id>>
  PROVE  IInv'
<1> USE DEF IInv
<1>1. b \in Places
  BY DEF Places
<1>2. /\ pc' \in [ThreadSet -> Places] /\ pc'[t] = b
      /\ \A u \in ThreadSet : u # t => pc'[u] = pc[u]
  BY <1>1, MoveCounts, Zenon
<1>3. CountersAgree'
  <2>1. Held(pc[t]) = 0 /\ Held(b) = 0 /\ Unfinished(pc[t]) = 0 /\ Unfinished(b) = 0
    BY Contributions
  <2>2. /\ active_readers_' = active_readers_ - Held(pc[t]) + Held(b)
        /\ next_task_id_ \in Nat /\ current_task_id_ \in Nat
        /\ next_task_id_ - current_task_id_
             = next_task_id_ - current_task_id_ - Unfinished(pc[t]) + Unfinished(b)
    BY <2>1 DEF TypeOK
  <2> QED BY <1>1, <2>2, CountersKept, Zenon
<1>4. TypeOK'
  BY <1>2 DEF TypeOK, data
<1>5. /\ Pending' = Pending /\ PendingAdds' = PendingAdds
      /\ Writing' = Writing /\ Reading' = Reading
  BY <1>2 DEF Pending, PendingAdds, Writing, Reading, Holding
<1>6. AddsExcludeReads' /\ TasksNumbered'
  BY <1>5, NumbersKept DEF AddsExcludeReads
<1>7. NoMissedWakeup' /\ SleepersWait'
  <2>1. CASE cv_' = {}
    BY <2>1 DEF NoMissedWakeup, SleepersWait
  <2>2. CASE cv_' = cv_ /\ pc[t] # "notify"
    <3>1. t \notin cv_
      BY DEF SleepersWait
    <3>2. active_readers_' \in Nat /\ active_readers_' >= active_readers_
      BY DEF TypeOK
    <3> QED BY <1>2, <2>2, <3>1, <3>2, WakeupsKept
  <2> QED BY <2>1, <2>2, Zenon
<1> QED BY <1>3, <1>4, <1>6, <1>7
-----------------------------------------------------------------------------
\* The places a ReadPermission moves a thread through: those of the first one,
\* and those of the one that AnnIterator takes inside RangeSearch.
Route(from, wait, hold) ==
  \/ from = "idle" /\ wait = "readWait" /\ hold = "reading"
  \/ from = "reading" /\ wait = "nestedWait" /\ hold = "nested"

\* The constructor of ReadPermission up to its return or its first sleep.  It is
\* let in at once only when no Add is queued.
LEMMA AcquireReadIInv ==
  ASSUME IInv, NEW t \in ThreadSet, NEW from, NEW wait, NEW hold, Route(from, wait, hold),
         AcquireRead(t, from, wait, hold)
  PROVE  IInv'
<1> USE DEF IInv
<1> DEFINE i == next_task_id_
<1>1. /\ pc[t] = from /\ MutexFree /\ i \in Nat /\ next_task_id_' = i + 1
      /\ task_id' = [task_id EXCEPT ![t] = i]
      /\ UNCHANGED <<add_tasks_, current_task_id_, data>>
  BY DEF AcquireRead, TakeNumber, TypeOK
<1>2. /\ task_id' \in [ThreadSet -> Nat] /\ task_id'[t] = i
      /\ \A u \in ThreadSet : u # t => task_id'[u] = task_id[u]
  BY <1>1 DEF TypeOK
<1>3. PICK b \in {hold, wait} :
        /\ pc' = [pc EXCEPT ![t] = b]
        /\ b = hold => ReadAdmitted(i) /\ cv_' = cv_ \ {t} /\ active_readers_' = active_readers_ + 1
        /\ b = wait => ~ReadAdmitted(i) /\ cv_' = cv_ \cup {t} /\ active_readers_' = active_readers_
  BY Zenon DEF AcquireRead, AwaitRead, Route
<1> HIDE DEF i
<1>4. b \in Places /\ hold # wait
  BY DEF Places, Route
<1>5. /\ pc' \in [ThreadSet -> Places] /\ pc'[t] = b
      /\ \A u \in ThreadSet : u # t => pc'[u] = pc[u]
  BY <1>3, <1>4, MoveCounts, Zenon
<1>6. CountersAgree' /\ active_readers_' \in Nat
  <2>1. /\ Held(b) = Held(pc[t]) + (IF b = hold THEN 1 ELSE 0) /\ Held(pc[t]) \in Nat
        /\ Unfinished(b) = Unfinished(pc[t]) + 1 /\ Unfinished(pc[t]) \in Nat
    BY <1>1, <1>3, Contributions DEF Route
  <2>2. active_readers_' = active_readers_ - Held(pc[t]) + Held(b)
    BY <1>3, <1>4, <2>1 DEF TypeOK
  <2>3. /\ i + 1 \in Nat /\ current_task_id_ \in Nat
        /\ (i + 1) - current_task_id_
             = next_task_id_ - current_task_id_ - Unfinished(pc[t]) + Unfinished(b)
    BY <1>1, <2>1, SMTT(30) DEF TypeOK, i
  <2>4. current_task_id_' = current_task_id_
    BY <1>1
  <2> QED BY <1>1, <1>3, <1>4, <2>2, <2>3, <2>4, CountersKept, Zenon
<1>7. TypeOK'
  <2>1. cv_' \subseteq ThreadSet
    BY <1>3 DEF TypeOK
  <2>2. next_task_id_' \in Nat
    BY <1>1
  <2> QED BY <1>1, <1>2, <1>5, <1>6, <2>1, <2>2, Zenon DEF TypeOK, data
<1>8. Writing = {} /\ Writing' = {}
  BY <1>1, <1>3, <1>5 DEF Writing, MutexFree, Route
<1>9. AddsExcludeReads'
  BY <1>8, Zenon DEF AddsExcludeReads
<1>10. NoMissedWakeup' /\ SleepersWait'
  <2>1. cv_' \subseteq cv_ \cup {t} /\ pc[t] # "notify"
    BY <1>1, <1>3 DEF Route
  <2>2. t \in cv_' => b = wait /\ ~ReadAdmitted(i)
    BY <1>3
  <2>3. t \in cv_' => pc'[t] \in {"readWait", "nestedWait"} /\ ~ReadAdmitted(task_id[t])'
    BY <1>1, <1>2, <1>5, <2>2, Zenon DEF ReadAdmitted, Route
  <2>4. active_readers_' >= active_readers_
    BY <1>3, <1>4 DEF TypeOK
  <2> QED BY <1>1, <1>2, <1>5, <1>6, <2>1, <2>3, <2>4, WakeupsKept, Zenon
<1>11. TasksNumbered'
  <2>1. t \notin Pending /\ PendingAdds' = PendingAdds /\ t \notin PendingAdds
    BY <1>1, <1>3, <1>5 DEF Pending, PendingAdds, Route
  <2>2. PendingAdds \subseteq Pending /\ Pending \subseteq ThreadSet
    BY DEF Pending, PendingAdds
  <2>3. \A u \in Pending : u # t /\ task_id'[u] = task_id[u] /\ task_id[u] \in Nat /\ task_id[u] < i
    BY <1>2, <2>1, <2>2, Zenon DEF TasksNumbered, TypeOK, i
  <2>4. \A u \in PendingAdds : task_id'[u] = task_id[u]
    BY <2>2, <2>3, Zenon
  <2>5. \A j \in DOMAIN add_tasks_ : add_tasks_[j] < i + 1
    <3>1. add_tasks_ \in Seq(Nat) /\ \A j \in DOMAIN add_tasks_ : add_tasks_[j] < i
      BY Zenon DEF TasksNumbered, TypeOK, i
    <3> HIDE DEF IInv, i
    <3> QED BY <1>1, <3>1
  <2>6. (i + 1) - 1 = i
    BY <1>1
  <2>7. CASE b = wait
    <3>1. Pending' = Pending \cup {t}
      BY <1>5, <2>7, Zenon DEF Pending, Route
    <3>2. /\ \A u \in Pending' : task_id'[u] < i + 1
          /\ \A u, v \in Pending' : u # v => task_id'[u] # task_id'[v]
      BY <1>1, <1>2, <2>2, <2>3, <3>1 DEF TasksNumbered
    <3>3. ASSUME NEW j \in DOMAIN add_tasks_, NEW n \in add_tasks_[j]..i
          PROVE  \E u \in Pending' : task_id'[u] = n
      <4>1. CASE n = i
        BY <1>2, <3>1, <4>1, Zenon
      <4>2. CASE n # i
        <5>1. n \in add_tasks_[j]..(i - 1)
          BY <1>1, <4>2 DEF TypeOK
        <5>2. PICK u \in Pending : task_id[u] = n
          BY <5>1, Zenon DEF TasksNumbered, i
        <5> QED BY <2>3, <3>1, <5>2, Zenon
      <4> QED BY <4>1, <4>2, Zenon
    <3> QED BY <1>1, <1>8, <2>1, <2>4, <2>5, <2>6, <3>2, <3>3 DEF TasksNumbered
  <2>8. CASE b = hold
    <3>1. Pending' = Pending
      BY <1>5, <2>1, <2>8 DEF Pending, Route
    <3>2. add_tasks_ = <<>>
      <4>1. SUFFICES ASSUME add_tasks_ # <<>> PROVE FALSE
        OBVIOUS
      <4>2. Head(add_tasks_) \in Nat /\ Head(add_tasks_) < i
        BY <4>1, HeadCount DEF i
      <4>3. i < Head(add_tasks_)
        BY <1>3, <2>8, <4>1 DEF ReadAdmitted
      <4> QED BY <1>1, <4>2, <4>3
    <3>3. DOMAIN add_tasks_ = {}
      BY <3>2
    <3>4. /\ \A u \in Pending : task_id'[u] < i + 1
          /\ \A u, v \in Pending : u # v => task_id'[u] # task_id'[v]
      BY <1>1, <2>3 DEF TasksNumbered
    <3>5. \A u \in PendingAdds : FALSE
      BY <3>3 DEF TasksNumbered
    <3> QED BY <1>1, <1>8, <2>1, <3>1, <3>3, <3>4, <3>5 DEF TasksNumbered
  <2> QED BY <2>7, <2>8
<1> QED BY <1>6, <1>7, <1>9, <1>10, <1>11

\* A ReadPermission whose thread wakes up and tests again.
LEMMA ResumeReadIInv ==
  ASSUME IInv, NEW t \in ThreadSet, NEW from, NEW wait, NEW hold, Route(from, wait, hold),
         ResumeRead(t, wait, hold)
  PROVE  IInv'
<1> USE DEF IInv
<1>1. /\ pc[t] = wait /\ MutexFree /\ task_id[t] \in Nat
      /\ UNCHANGED <<add_tasks_, next_task_id_, current_task_id_, data, task_id>>
  BY DEF ResumeRead, TypeOK
<1>2. PICK b \in {hold, wait} :
        /\ pc' = [pc EXCEPT ![t] = b]
        /\ b = hold => /\ ReadAdmitted(task_id[t]) /\ cv_' = cv_ \ {t}
                       /\ active_readers_' = active_readers_ + 1
        /\ b = wait => /\ ~ReadAdmitted(task_id[t]) /\ cv_' = cv_ \cup {t}
                       /\ active_readers_' = active_readers_
  BY Zenon DEF ResumeRead, AwaitRead, Route
<1>3. b \in Places /\ hold # wait
  BY DEF Places, Route
<1>4. /\ pc' \in [ThreadSet -> Places] /\ pc'[t] = b
      /\ \A u \in ThreadSet : u # t => pc'[u] = pc[u]
  BY <1>2, <1>3, MoveCounts, Zenon
<1>5. CountersAgree' /\ active_readers_' \in Nat
  <2>1. /\ Held(b) = Held(pc[t]) + (IF b = hold THEN 1 ELSE 0) /\ Held(pc[t]) \in Nat
        /\ Unfinished(b) = Unfinished(pc[t]) /\ Unfinished(pc[t]) \in Nat
    BY <1>1, <1>2, Contributions DEF Route
  <2>2. active_readers_' = active_readers_ - Held(pc[t]) + Held(b)
    BY <1>2, <1>3, <2>1 DEF TypeOK
  <2>3. /\ next_task_id_ \in Nat /\ current_task_id_ \in Nat
        /\ next_task_id_ - current_task_id_
             = next_task_id_ - current_task_id_ - Unfinished(pc[t]) + Unfinished(b)
    BY <1>1, <2>1, SMTT(30) DEF TypeOK
  <2>4. next_task_id_' = next_task_id_ /\ current_task_id_' = current_task_id_
    BY <1>1, Zenon
  <2> QED BY <1>2, <1>3, <2>2, <2>3, <2>4, CountersKept, Zenon
<1>6. TypeOK'
  <2>1. cv_' \subseteq ThreadSet
    BY <1>2 DEF TypeOK
  <2> QED BY <1>1, <1>4, <1>5, <2>1, Zenon DEF TypeOK, data
<1>7. Writing = {} /\ Writing' = {}
  BY <1>1, <1>2, <1>4 DEF Writing, MutexFree, Route
<1>8. AddsExcludeReads'
  BY <1>7, Zenon DEF AddsExcludeReads
<1>9. NoMissedWakeup' /\ SleepersWait'
  <2>1. cv_' \subseteq cv_ \cup {t} /\ pc[t] # "notify"
    BY <1>1, <1>2 DEF Route
  <2>2. t \in cv_' => b = wait /\ ~ReadAdmitted(task_id[t])
    BY <1>2, Zenon
  <2>3. t \in cv_' => pc'[t] \in {"readWait", "nestedWait"} /\ ~ReadAdmitted(task_id[t])'
    BY <1>1, <1>4, <2>2, Zenon DEF ReadAdmitted, Route
  <2>4. active_readers_' >= active_readers_
    BY <1>2, <1>3 DEF TypeOK
  <2> QED BY <1>1, <1>4, <1>5, <2>1, <2>3, <2>4, WakeupsKept, Zenon
<1>10. TasksNumbered'
  <2>1. t \in Pending /\ PendingAdds' = PendingAdds /\ t \notin PendingAdds
    BY <1>1, <1>2, <1>4, Zenon DEF Pending, PendingAdds, Route
  <2>2. CASE b = wait
    <3>1. Pending' = Pending
      BY <1>4, <2>1, <2>2, Zenon DEF Pending, Route
    <3> QED BY <1>1, <1>7, <2>1, <3>1, NumbersKept, Zenon
  <2>3. CASE b = hold
    <3>1. Pending' = Pending \ {t}
      BY <1>4, <2>3 DEF Pending, Route
    <3>2. ASSUME NEW j \in DOMAIN add_tasks_, NEW n \in add_tasks_[j]..(next_task_id_ - 1)
          PROVE  \E u \in Pending' : task_id[u] = n
      <4>1. PICK u \in Pending : task_id[u] = n
        BY DEF TasksNumbered
      <4>2. /\ add_tasks_ # <<>> /\ Head(add_tasks_) = add_tasks_[1] /\ 1 \in DOMAIN add_tasks_
            /\ j \in Nat /\ (j = 1 \/ 1 < j) /\ add_tasks_[1] \in Nat /\ add_tasks_[j] \in Nat
        BY DEF TypeOK
      <4>3. task_id[t] < add_tasks_[1]
        BY <1>2, <2>3, <4>2, Zenon DEF ReadAdmitted
      <4>4. add_tasks_[1] <= add_tasks_[j]
        BY <4>2 DEF TasksNumbered
      <4>5. u # t
        BY <1>1, <4>1, <4>2, <4>3, <4>4
      <4> QED BY <3>1, <4>1, <4>5, Zenon
    <3>3. Pending' \subseteq Pending /\ PendingAdds' = PendingAdds /\ Writing' = {}
      BY <1>7, <2>1, <3>1, Zenon
    <3> QED BY <1>1, <3>2, <3>3, NumbersFewer
  <2> QED BY <2>2, <2>3, Zenon
<1> QED BY <1>5, <1>6, <1>8, <1>9, <1>10, Zenon

\* The destructor of ReadPermission.
LEMMA ReleaseReadIInv ==
  ASSUME IInv, NEW t \in ThreadSet, NEW b, ReleaseRead(t, b),
         \/ pc[t] \in {"reading", "ranging"} /\ b \in {"idle", "hasIterator"}
         \/ pc[t] = "nested" /\ b = "ranging"
  PROVE  IInv'
<1> USE DEF IInv
<1>1. /\ MutexFree /\ active_readers_' = active_readers_ - 1
      /\ current_task_id_' = current_task_id_ + 1
      /\ cv_' = {} /\ pc' = [pc EXCEPT ![t] = b]
      /\ UNCHANGED <<add_tasks_, next_task_id_, data, task_id>>
  BY DEF ReleaseRead
<1>2. b \in Places
  BY DEF Places
<1>3. /\ pc' \in [ThreadSet -> Places] /\ pc'[t] = b
      /\ \A u \in ThreadSet : u # t => pc'[u] = pc[u]
  BY <1>1, <1>2, MoveCounts, Zenon
<1>4. CountersAgree' /\ active_readers_' \in Nat
  <2>1. /\ Held(b) = Held(pc[t]) - 1 /\ Held(pc[t]) \in Nat
        /\ Unfinished(b) = Unfinished(pc[t]) - 1 /\ Unfinished(pc[t]) \in Nat
    BY Contributions
  <2>2. active_readers_' = active_readers_ - Held(pc[t]) + Held(b)
    BY <1>1, <2>1 DEF TypeOK
  <2>3. /\ next_task_id_ \in Nat /\ current_task_id_ + 1 \in Nat
        /\ next_task_id_ - (current_task_id_ + 1)
             = next_task_id_ - current_task_id_ - Unfinished(pc[t]) + Unfinished(b)
    BY <2>1 DEF TypeOK
  <2> QED BY <1>1, <1>2, <2>2, <2>3, CountersKept, Zenon
<1>5. TypeOK'
  <2>1. current_task_id_' \in Nat
    BY <1>1 DEF TypeOK
  <2> QED BY <1>1, <1>3, <1>4, <2>1, Zenon DEF TypeOK, data
<1>6. /\ Pending' = Pending /\ PendingAdds' = PendingAdds
      /\ Writing' = Writing /\ Writing = {}
  BY <1>1, <1>3 DEF Pending, PendingAdds, Writing, MutexFree
<1>7. AddsExcludeReads' /\ TasksNumbered'
  BY <1>1, <1>6, NumbersKept, Zenon DEF AddsExcludeReads
<1>8. NoMissedWakeup' /\ SleepersWait'
  BY <1>1 DEF NoMissedWakeup, SleepersWait
<1> QED BY <1>4, <1>5, <1>7, <1>8

\* A step that changes at most the rows: Train, or none at all.
LEMMA TasksKeptIInv ==
  ASSUME IInv, TypeOK', UNCHANGED <<tasks, pc, task_id>> PROVE IInv'
<1> USE DEF IInv
<1>1. UNCHANGED <<active_readers_, add_tasks_, next_task_id_, current_task_id_, cv_, pc, task_id>>
  BY Zenon DEF tasks
<1>2. CountersAgree' /\ AddsExcludeReads' /\ SleepersWait' /\ NoMissedWakeup'
  BY <1>1 DEF CountersAgree, AddsExcludeReads, SleepersWait, NoMissedWakeup, AddAdmitted, ReadAdmitted,
       Reading, Writing, Nesting, Waiting, NestedWaiting
<1>3. TasksNumbered'
  <2>1. Pending' = Pending /\ PendingAdds' = PendingAdds /\ Writing' = Writing
    BY <1>1 DEF Pending, PendingAdds, Writing
  <2> QED BY <1>1, <2>1, NumbersKept, Zenon
<1> QED BY <1>2, <1>3

\* Every step of the protocol preserves the invariant.
LEMMA NextIInv ==
  ASSUME IInv, [Next]_vars PROVE IInv'
<1>1. ASSUME NEW t \in Adders, AddStep(t) PROVE IInv'
  <2>1. t \in ThreadSet
    BY DEF ThreadSet
  <2>2. CASE NotifyAfterAdd(t)
    BY <2>1, <2>2, OutsideIInv, Zenon DEF NotifyAfterAdd
  <2> QED BY <1>1, <2>1, <2>2, AddIInv, ResumeAddIInv, FinishAddIInv DEF AddStep
<1>2. ASSUME NEW t \in ThreadSet, StartRead(t) \/ ResumeStartRead(t) PROVE IInv'
  <2>1. Route("idle", "readWait", "reading")
    BY DEF Route
  <2> QED BY <1>2, <2>1, AcquireReadIInv, ResumeReadIInv DEF StartRead, ResumeStartRead
<1>3. ASSUME NEW t \in Searchers, SearchStep(t) PROVE IInv'
  <2>1. t \in ThreadSet
    BY DEF ThreadSet
  <2>2. CASE FinishSearch(t)
    BY <2>1, <2>2, ReleaseReadIInv DEF FinishSearch
  <2> QED BY <1>2, <1>3, <2>1, <2>2 DEF SearchStep
<1>4. ASSUME NEW t \in Iterators, IteratorStep(t) PROVE IInv'
  <2>1. t \in ThreadSet
    BY DEF ThreadSet
  <2>2. CASE FinishAnnIterator(t)
    <3>1. PICK b \in {"idle", "hasIterator"} : ReleaseRead(t, b)
      BY <2>2 DEF FinishAnnIterator
    <3>2. pc[t] \in {"reading", "ranging"}
      BY <2>2 DEF FinishAnnIterator
    <3> QED BY <2>1, <3>1, <3>2, ReleaseReadIInv
  <2>3. CASE FirstNext(t) \/ FinishFirstNext(t)
    <3>1. PICK b \in {"idle", "iterReading"} : pc' = [pc EXCEPT ![t] = b]
      BY <2>3 DEF FirstNext, FinishFirstNext
    <3>2. /\ pc[t] \in {"hasIterator", "iterReading"}
          /\ UNCHANGED <<active_readers_, add_tasks_, next_task_id_, current_task_id_, cv_, data, task_id>>
      BY <2>3 DEF FirstNext, FinishFirstNext, tasks
    <3> QED BY <2>1, <3>1, <3>2, OutsideIInv, Zenon
  <2> QED BY <1>2, <1>4, <2>1, <2>2, <2>3 DEF IteratorStep
<1>5. ASSUME NEW t \in RangeSearchers, RangeStep(t) PROVE IInv'
  <2>1. t \in ThreadSet
    BY DEF ThreadSet
  <2>2. CASE CallAnnIterator(t) \/ ResumeAnnIterator(t)
    <3>1. Route("reading", "nestedWait", "nested")
      BY DEF Route
    <3> QED BY <2>1, <2>2, <3>1, AcquireReadIInv, ResumeReadIInv DEF CallAnnIterator, ResumeAnnIterator
  <2>3. CASE ReturnIterators(t)
    BY <2>1, <2>3, ReleaseReadIInv DEF ReturnIterators
  <2>4. CASE FinishRangeSearch(t)
    BY <2>1, <2>4, ReleaseReadIInv DEF FinishRangeSearch
  <2> QED BY <1>2, <1>5, <2>1, <2>2, <2>3, <2>4 DEF RangeStep
<1>6. CASE Train \/ UNCHANGED vars
  <2>1. UNCHANGED <<tasks, pc, task_id>>
    BY <1>6 DEF Train, vars
  <2>2. index_' \in BOOLEAN /\ rows' \in Seq(Nat) /\ raw_data_' = raw_data_
    <3>1. index_ \in BOOLEAN /\ rows \in Seq(Nat) /\ <<>> \in Seq(Nat)
      BY DEF IInv, TypeOK
    <3> QED BY <1>6, <3>1, Zenon DEF Train, vars, data
  <2>3. TypeOK'
    BY <2>1, <2>2 DEF IInv, TypeOK, tasks
  <2> QED BY <2>1, <2>3, TasksKeptIInv
<1>7. CASE Next
  BY <1>1, <1>3, <1>4, <1>5, <1>6, <1>7 DEF Next
<1> QED BY <1>6, <1>7

\* The inductive invariant holds in every reachable state.
LEMMA Invariance == Spec => []IInv
<1>1. IInv /\ [Next]_vars => IInv'
  BY NextIInv
<1> QED BY <1>1, InitIInv, PTL DEF Spec
-----------------------------------------------------------------------------
\* The members keep their types; active_readers_ never goes below zero, so the
\* unsigned counter of the code never wraps around.
THEOREM TypeCorrect == Spec => []TypeOK
<1>1. IInv => TypeOK
  BY DEF IInv
<1> QED BY <1>1, Invariance, PTL

\* active_readers_ counts the permissions in use and current_task_id_ the
\* finished tasks, whatever the order in which they finish.
THEOREM Counters == Spec => []CountersAgree
<1>1. IInv => CountersAgree
  BY DEF IInv
<1> QED BY <1>1, Invariance, PTL

\* Add changes the index only while it runs alone.
THEOREM Exclusion == Spec => []AddsExcludeReads
<1>1. IInv => AddsExcludeReads
  BY DEF IInv
<1> QED BY <1>1, Invariance, PTL

\* No notification is lost between a test of a wait predicate and the sleep.
THEOREM Wakeups == Spec => []NoMissedWakeup
<1>1. IInv => NoMissedWakeup
  BY DEF IInv
<1> QED BY <1>1, Invariance, PTL
-----------------------------------------------------------------------------
\* A non-empty set of numbers has a least one.
LEMMA LeastNumber ==
  ASSUME NEW S \in SUBSET Nat, S # {}
  PROVE  \E n \in S : \A m \in S : n <= m
<1> DEFINE R == OpToRel(<, Nat)
<1>1. IsWellFoundedOn(R, Nat)
  BY NatLessThanWellFounded, Zenon
<1>2. \A m, n \in Nat : m < n => <<m, n>> \in R
  BY DEF OpToRel
<1> HIDE DEF R
<1>3. PICK x \in S : \A y \in S : ~ (<<y, x>> \in R)
  BY <1>1, WFMin, Zenon
<1>4. ASSUME NEW m \in S PROVE x <= m
  <2>1. m \in Nat /\ x \in Nat
    OBVIOUS
  <2>2. ~(m < x)
    BY <1>2, <1>3, <2>1, Zenon
  <2> QED BY <2>1, <2>2
<1> QED BY <1>4

\* When tasks wait and none runs, the predicate of the one with the least number
\* is true: the predicates of Add and of ReadPermission, one on a count and one
\* on the queue, never block each other.
THEOREM LeastAdmitted == Spec => []LeastTaskAdmitted
<1>1. IInv => LeastTaskAdmitted
  <2> SUFFICES ASSUME IInv, Waiting # {}, Reading = {}, Writing = {}
               PROVE  \E t \in Waiting :
                        /\ \A u \in Waiting \ {t} : task_id[t] < task_id[u]
                        /\ IF pc[t] = "addWait" THEN AddAdmitted(task_id[t])
                                               ELSE ReadAdmitted(task_id[t])
    BY DEF LeastTaskAdmitted
  <2> USE DEF IInv
  <2>1. NestedWaiting = {} /\ Nesting = {} /\ Pending = Waiting
    BY DEF NestedWaiting, Nesting, Reading, Writing, Holding, Pending, Waiting
  <2>2. active_readers_ = 0
    BY <2>1, FS_EmptySet DEF CountersAgree
  <2>3. next_task_id_ = current_task_id_ + 0 + Cardinality(Pending)
    BY <2>2, CountersAgreePending
  <2>4. \A u \in Waiting : u \in ThreadSet /\ task_id[u] \in Nat
    BY DEF TypeOK, Waiting
  <2>5. PICK t \in Waiting : \A u \in Waiting : task_id[t] <= task_id[u]
    <3> DEFINE S == {task_id[u] : u \in Waiting}
    <3>1. S \in SUBSET Nat /\ S # {}
      BY <2>4
    <3>2. PICK n \in S : \A m \in S : n <= m
      <4> HIDE DEF S
      <4> QED BY <3>1, LeastNumber
    <3> QED BY <3>2, Zenon
  <2>6. \A u \in Waiting \ {t} : task_id[t] < task_id[u]
    <3>1. \A u \in Waiting \ {t} : task_id[t] # task_id[u]
      BY <2>1 DEF TasksNumbered
    <3> QED BY <2>4, <2>5, <3>1
  <2>7. pc[t] = "addWait" \/ pc[t] = "readWait"
    BY DEF Waiting
  <2>8. CASE pc[t] = "addWait"
    <3>1. t \in PendingAdds
      BY <2>4, <2>8 DEF PendingAdds
    <3>2. PICK i \in DOMAIN add_tasks_ : add_tasks_[i] = task_id[t]
      BY <3>1 DEF TasksNumbered
    <3>3. /\ add_tasks_ # <<>> /\ 1 \in DOMAIN add_tasks_ /\ Head(add_tasks_) = add_tasks_[1]
          /\ (i = 1 \/ 1 < i) /\ add_tasks_[1] \in Nat /\ add_tasks_[i] \in Nat
      BY <3>2 DEF TypeOK
    <3>4. Head(add_tasks_) <= task_id[t]
      BY <3>2, <3>3 DEF TasksNumbered
    <3>5. PICK u \in PendingAdds : task_id[u] = Head(add_tasks_)
      BY <3>3 DEF TasksNumbered
    <3>6. u \in Waiting
      BY <3>5 DEF PendingAdds, Waiting, Writing
    <3>7. task_id[t] = Head(add_tasks_)
      BY <2>4, <2>5, <3>4, <3>5, <3>6
    <3>8. \A v \in Pending : task_id[v] >= Head(add_tasks_)
      BY <2>1, <2>4, <2>5, <3>7, Zenon
    <3>9. next_task_id_ - Head(add_tasks_) = Cardinality(Pending)
      BY <3>3, <3>8, HeadCount, Zenon
    <3>10. Cardinality(Pending) \in Nat /\ next_task_id_ \in Nat /\ current_task_id_ \in Nat
           /\ Head(add_tasks_) \in Nat
      BY <3>3, PendingCount DEF TypeOK
    <3>11. current_task_id_ = Head(add_tasks_)
      BY <2>3, <3>9, <3>10
    <3> QED BY <2>2, <2>6, <2>8, <3>7, <3>11 DEF AddAdmitted
  <2>9. CASE pc[t] = "readWait"
    <3>1. ASSUME add_tasks_ # <<>> PROVE task_id[t] < Head(add_tasks_)
      <4>1. 1 \in DOMAIN add_tasks_ /\ Head(add_tasks_) = add_tasks_[1]
        BY <3>1 DEF TypeOK
      <4>2. PICK u \in PendingAdds : task_id[u] = Head(add_tasks_)
        BY <4>1 DEF TasksNumbered
      <4>3. u \in Waiting \ {t}
        BY <2>9, <4>2 DEF PendingAdds, Waiting, Writing
      <4> QED BY <2>6, <4>2, <4>3
    <3> QED BY <2>6, <2>9, <3>1 DEF ReadAdmitted
  <2> QED BY <2>7, <2>8, <2>9, Zenon
<1> QED BY <1>1, Invariance, PTL

\* A row appended to raw_data_, and to the rows of the index or not, keeps the
\* rows of the index in raw_data_ in their order.
LEMMA AppendedRowCovered ==
  ASSUME NEW r \in Seq(Nat), NEW w \in Seq(Nat), NEW n \in Nat, FoundInOrder(r, w),
         NEW r2, r2 = Append(r, n) \/ r2 = r
  PROVE  FoundInOrder(r2, Append(w, n))
<1> DEFINE w2 == Append(w, n)
<1>0. PICK place \in [DOMAIN r -> DOMAIN w] :
        /\ \A i \in DOMAIN r : w[place[i]] = r[i]
        /\ \A i, j \in DOMAIN r : i < j => place[i] < place[j]
  BY Zenon DEF FoundInOrder
<1> DEFINE p == [i \in DOMAIN r2 |-> IF i \in DOMAIN r THEN place[i] ELSE Len(w) + 1]
<1>1. /\ Len(r) \in Nat /\ Len(w) \in Nat /\ DOMAIN r = 1..Len(r) /\ DOMAIN w = 1..Len(w)
      /\ DOMAIN w2 = 1..(Len(w) + 1) /\ w2[Len(w) + 1] = n
      /\ \A i \in DOMAIN w : w2[i] = w[i]
  OBVIOUS
<1> HIDE DEF w2
<1>2. /\ \A i \in DOMAIN r : i \in DOMAIN r2 /\ r2[i] = r[i]
      /\ \A i \in DOMAIN r2 : i \in DOMAIN r \/ (i = Len(r) + 1 /\ r2[i] = n)
  <2>1. CASE r2 = r
    BY <2>1, Zenon
  <2>2. CASE r2 = Append(r, n)
    <3>1. /\ DOMAIN r2 = 1..(Len(r) + 1) /\ r2[Len(r) + 1] = n
          /\ \A i \in DOMAIN r : r2[i] = r[i]
      BY <2>2
    <3> QED BY <1>1, <3>1
  <2> QED BY <2>1, <2>2, Zenon
<1>3. \A i \in DOMAIN r : p[i] = place[i] /\ place[i] \in DOMAIN w
  BY <1>2, Zenon
<1>4. \A i \in DOMAIN r2 : i \in DOMAIN r \/ (p[i] = Len(w) + 1 /\ r2[i] = n)
  BY <1>2, Zenon
<1>5. \A i \in DOMAIN r2 : p[i] \in DOMAIN w2
  <2>1. Len(w) + 1 \in DOMAIN w2 /\ DOMAIN w \subseteq DOMAIN w2
    BY <1>1
  <2> QED BY <1>3, <1>4, <2>1, Zenon
<1>6. p \in [DOMAIN r2 -> DOMAIN w2]
  BY <1>5, Zenon
<1> HIDE DEF p
<1>7. ASSUME NEW i \in DOMAIN r2 PROVE w2[p[i]] = r2[i]
  <2>1. CASE i \in DOMAIN r
    <3>1. p[i] = place[i] /\ place[i] \in DOMAIN w /\ r2[i] = r[i]
      BY <1>2, <1>3, <2>1, Zenon
    <3>2. w2[place[i]] = w[place[i]] /\ w[place[i]] = r[i]
      BY <1>0, <1>1, <2>1, <3>1, Zenon
    <3> QED BY <3>1, <3>2, Zenon
  <2>2. CASE p[i] = Len(w) + 1 /\ r2[i] = n
    BY <1>1, <2>2, Zenon
  <2> QED BY <1>4, <2>1, <2>2, Zenon
<1>8. ASSUME NEW i \in DOMAIN r2, NEW j \in DOMAIN r2, i < j PROVE p[i] < p[j]
  <2>1. CASE i \in DOMAIN r /\ j \in DOMAIN r
    BY <1>0, <1>3, <1>8, <2>1, Zenon
  <2>2. CASE i \in DOMAIN r /\ j \notin DOMAIN r
    <3>1. p[i] \in 1..Len(w) /\ p[j] = Len(w) + 1
      BY <1>1, <1>3, <1>4, <2>2, Zenon
    <3> QED BY <1>1, <3>1
  <2>3. CASE i \notin DOMAIN r
    <3>1. i = Len(r) + 1 /\ (j \in 1..Len(r) \/ j = Len(r) + 1)
      BY <1>1, <1>2, <2>3, Zenon
    <3> QED BY <1>1, <1>8, <3>1
  <2> QED BY <2>1, <2>2, <2>3, Zenon
<1>9. FoundInOrder(r2, w2)
  BY <1>6, <1>7, <1>8, Zenon DEF FoundInOrder
<1> QED BY <1>9, Zenon DEF w2

\* Every row of the index is in raw_data_, and in the order of the ids, for any
\* sequence of calls of Add, failed ones included, and of Train.
THEOREM RawData == Spec => []RawDataCoversIndex
<1> DEFINE RInv == TypeOK /\ RawDataCoversIndex
<1>1. Init => RInv
  <2>1. Init => TypeOK
    BY InitIInv DEF IInv
  <2>2. ASSUME Init PROVE RawDataCoversIndex
    <3>1. rows = <<>> /\ raw_data_ = <<>> /\ DOMAIN rows = {}
      BY <2>2 DEF Init
    <3>2. [i \in DOMAIN rows |-> i] \in [DOMAIN rows -> DOMAIN raw_data_]
      BY <3>1, Zenon
    <3> QED BY <3>1, <3>2, Zenon DEF RawDataCoversIndex, FoundInOrder
  <2> QED BY <2>1, <2>2, Zenon
<1>2. RInv /\ TypeOK' /\ [Next]_vars => RInv'
  <2> SUFFICES ASSUME RInv, TypeOK', [Next]_vars PROVE RawDataCoversIndex'
    OBVIOUS
  <2>1. CASE UNCHANGED data
    BY <2>1, Zenon DEF data, RawDataCoversIndex
  <2>2. ASSUME NEW t \in ThreadSet, AddRows(t) PROVE RawDataCoversIndex'
    <3>1. SUFFICES ASSUME MetricIP PROVE FoundInOrder(rows', raw_data_')
      BY Zenon DEF RawDataCoversIndex
    <3>2. /\ task_id[t] \in Nat /\ rows \in Seq(Nat) /\ raw_data_ \in Seq(Nat)
          /\ FoundInOrder(rows, raw_data_)
      BY <3>1, Zenon DEF TypeOK, RawDataCoversIndex
    <3>3. /\ raw_data_' = Append(raw_data_, task_id[t])
          /\ rows' = Append(rows, task_id[t]) \/ rows' = rows
      BY <2>2, <3>1, Zenon DEF AddRows, BaseAdd
    <3>4. /\ FoundInOrder(Append(rows, task_id[t]), Append(raw_data_, task_id[t]))
          /\ FoundInOrder(rows, Append(raw_data_, task_id[t]))
      BY <3>2, AppendedRowCovered, Zenon
    <3> QED BY <3>3, <3>4, Zenon
  <2>3. CASE Train
    <3>1. rows' = <<>> /\ DOMAIN rows' = {}
      BY <2>3 DEF Train
    <3>2. [i \in DOMAIN rows' |-> i] \in [DOMAIN rows' -> DOMAIN raw_data_']
      BY <3>1, Zenon
    <3> QED BY <3>1, <3>2, Zenon DEF RawDataCoversIndex, FoundInOrder
  <2>4. CASE \E t \in Adders : AddStep(t)
    BY <2>1, <2>2, <2>4 DEF AddStep, Add, ResumeAdd, FinishAdd, NotifyAfterAdd, ThreadSet
  <2>5. CASE \E t \in Searchers : SearchStep(t)
    BY <2>1, <2>5 DEF SearchStep, StartRead, ResumeStartRead, FinishSearch,
         AcquireRead, ResumeRead, ReleaseRead
  <2>6. CASE \E t \in Iterators : IteratorStep(t)
    BY <2>1, <2>6, Zenon DEF IteratorStep, StartRead, ResumeStartRead, FinishAnnIterator, FirstNext,
         FinishFirstNext, AcquireRead, ResumeRead, ReleaseRead
  <2>7. CASE \E t \in RangeSearchers : RangeStep(t)
    BY <2>1, <2>7, Zenon DEF RangeStep, StartRead, ResumeStartRead, CallAnnIterator, ResumeAnnIterator,
         ReturnIterators, FinishRangeSearch, AcquireRead, ResumeRead, ReleaseRead
  <2>8. CASE UNCHANGED vars
    BY <2>1, <2>8 DEF vars
  <2> QED BY <2>3, <2>4, <2>5, <2>6, <2>7, <2>8 DEF Next
<1>3. RInv => RawDataCoversIndex
  OBVIOUS
<1> HIDE DEF RInv
<1> QED BY <1>1, <1>2, <1>3, TypeCorrect, PTL DEF Spec
-----------------------------------------------------------------------------
\* A step that lets no task in starts none out of order.
LEMMA NoStart ==
  ASSUME active_readers_' <= active_readers_, active_readers_ \in Nat, active_readers_' \in Nat,
         \A t \in ThreadSet : pc'[t] = "adding" => pc[t] = "adding"
  PROVE  StartsInOrder
<1>1. ~(active_readers_' > active_readers_)
  OBVIOUS
<1> QED BY <1>1 DEF StartsInOrder

\* A test of Add's wait predicate lets it in only when it is the next in order.
LEMMA AddStartsInOrder ==
  ASSUME IInv, NEW t \in ThreadSet, Add(t) \/ ResumeAdd(t) PROVE StartsInOrder
<1> USE DEF IInv
<1>1. PICK b \in {"adding", "addWait"} : pc' = [pc EXCEPT ![t] = b]
  BY Zenon DEF Add, ResumeAdd, AwaitAdd
<1>2. /\ pc'[t] = b /\ \A u \in ThreadSet : u # t => pc'[u] = pc[u]
      /\ active_readers_' = active_readers_ /\ active_readers_ \in Nat /\ MutexFree
  BY <1>1 DEF TypeOK, Add, ResumeAdd, TakeNumber
<1>3. CASE b = "addWait"
  BY <1>2, <1>3, NoStart
<1>4. CASE b = "adding"
  <2>1. ASSUME NEW u \in ThreadSet \ {t}
        PROVE  /\ pc[u] \notin Holding
               /\ pc[u] \in {"addWait", "readWait"} => task_id'[t] < task_id'[u]
    <3>1. CASE Add(t)
      <4>1. AddAdmitted(next_task_id_)
        BY <1>2, <1>4, <3>1, Zenon DEF Add, AwaitAdd, TypeOK
      <4>2. Reading = {} /\ Pending = {}
        BY <1>2, <4>1, NewAddFindsNothing, Zenon
      <4> QED BY <4>2 DEF Reading, Pending
    <3>2. CASE ResumeAdd(t)
      <4>1. AddAdmitted(task_id[t]) /\ pc[t] = "addWait" /\ task_id' = task_id
        BY <1>2, <1>4, <3>2, Zenon DEF ResumeAdd, AwaitAdd, TypeOK
      <4>2. Reading = {} /\ \A v \in Pending : v # t => task_id[t] < task_id[v]
        BY <1>2, <4>1, AdmittedAddIsLeast, Zenon
      <4> QED BY <4>1, <4>2 DEF Reading, Pending
    <3> QED BY <3>1, <3>2
  <2>2. RunsAlone(t)
    BY <1>2, <2>1 DEF RunsAlone
  <2>3. ~(active_readers_' > active_readers_)
    BY <1>2
  <2>4. \A u \in ThreadSet : pc[u] # "adding" /\ pc'[u] = "adding" => u = t
    BY <1>2
  <2> QED BY <2>2, <2>3, <2>4, Zenon DEF StartsInOrder
<1> QED BY <1>3, <1>4

\* A test of a reader's predicate lets it in only before every queued Add.
LEMMA ReadStartsInOrder ==
  ASSUME IInv, NEW t \in ThreadSet, NEW from, NEW wait, NEW hold, Route(from, wait, hold),
         AcquireRead(t, from, wait, hold) \/ ResumeRead(t, wait, hold)
  PROVE  StartsInOrder
<1> USE DEF IInv
<1>1. PICK i \in Nat : AwaitRead(t, i, wait, hold) /\ task_id'[t] = i
  BY DEF AcquireRead, ResumeRead, TakeNumber, TypeOK
<1>2. /\ \A u \in ThreadSet : u # t => task_id'[u] = task_id[u]
      /\ active_readers_ \in Nat
  BY DEF AcquireRead, ResumeRead, TakeNumber, TypeOK
<1>3. PICK b \in {hold, wait} :
        /\ pc' = [pc EXCEPT ![t] = b]
        /\ b = hold => ReadAdmitted(i)
        /\ b = wait => active_readers_' = active_readers_
  BY <1>1, Zenon DEF AwaitRead, Route
<1>4. /\ pc'[t] = b /\ \A u \in ThreadSet : u # t => pc'[u] = pc[u]
      /\ b # "adding"
  BY <1>3, Zenon DEF TypeOK, Route
<1>5. CASE b = wait
  BY <1>2, <1>3, <1>4, <1>5, NoStart
<1>6. CASE b = hold
  <2>1. ASSUME NEW u \in ThreadSet \ {t}, pc[u] \in {"addWait", "adding"} PROVE i < task_id[u]
    <3>1. u \in PendingAdds
      BY <2>1, Zenon DEF PendingAdds
    <3>2. PICK j \in DOMAIN add_tasks_ : add_tasks_[j] = task_id[u]
      BY <3>1 DEF TasksNumbered
    <3>3. /\ add_tasks_ # <<>> /\ 1 \in DOMAIN add_tasks_ /\ Head(add_tasks_) = add_tasks_[1]
          /\ (j = 1 \/ 1 < j) /\ add_tasks_[1] \in Nat /\ add_tasks_[j] \in Nat
      BY <3>2 DEF TypeOK
    <3>4. add_tasks_[1] <= task_id[u]
      BY <3>2, <3>3 DEF TasksNumbered
    <3>5. i < add_tasks_[1]
      BY <1>3, <1>6, <3>3, Zenon DEF ReadAdmitted
    <3> QED BY <3>2, <3>3, <3>4, <3>5
  <2>2. ReadsBeforeAdds(t)
    BY <1>1, <1>2, <1>4, <2>1, Zenon DEF ReadsBeforeAdds
  <2>3. \A u \in ThreadSet : pc'[u] # pc[u] => u = t
    BY <1>4, Zenon
  <2>4. \A u \in ThreadSet : pc'[u] = "adding" => pc[u] = "adding"
    BY <1>4, Zenon
  <2> QED BY <2>2, <2>3, <2>4, Zenon DEF StartsInOrder
<1> QED BY <1>5, <1>6, Zenon

\* A task that ends or goes on outside the protocol starts none.
LEMMA OtherStepsInOrder ==
  ASSUME IInv, IInv', NEW t \in ThreadSet, NEW b \in Places \ {"adding"},
         \/ FinishAdd(t) \/ NotifyAfterAdd(t)
         \/ FirstNext(t) \/ FinishFirstNext(t) \/ ReleaseRead(t, b)
  PROVE  StartsInOrder
<1>1. active_readers_ \in Nat /\ active_readers_' \in Nat
  BY Zenon DEF IInv, TypeOK
<1>2. active_readers_' = active_readers_ \/ active_readers_' = active_readers_ - 1
  BY DEF FinishAdd, NotifyAfterAdd, FirstNext, FinishFirstNext, ReleaseRead, tasks
<1>3. active_readers_' <= active_readers_
  BY <1>1, <1>2
<1>4. PICK p : p # "adding" /\ pc' = [pc EXCEPT ![t] = p]
  BY Zenon DEF FinishAdd, NotifyAfterAdd, FirstNext, FinishFirstNext, ReleaseRead
<1>5. \A u \in ThreadSet : pc'[u] = "adding" => pc[u] = "adding"
  BY <1>4 DEF IInv, TypeOK
<1> QED BY <1>1, <1>3, <1>5, NoStart, Zenon

\* An Add starts only when every task with a smaller number has finished, a read
\* only when every such Add has: what the comments of Add and ReadPermission say.
THEOREM InOrder == Spec => TasksInOrder
<1>1. IInv /\ IInv' /\ [Next]_vars => [StartsInOrder]_vars
  <2> SUFFICES ASSUME IInv, IInv', Next PROVE StartsInOrder
    OBVIOUS
  <2>1. ASSUME NEW t \in ThreadSet, StartRead(t) \/ ResumeStartRead(t) PROVE StartsInOrder
    <3>1. Route("idle", "readWait", "reading")
      BY DEF Route
    <3> QED BY <2>1, <3>1, ReadStartsInOrder DEF StartRead, ResumeStartRead
  <2>2. ASSUME NEW t \in Adders, AddStep(t) PROVE StartsInOrder
    <3>1. t \in ThreadSet /\ "idle" \in Places \ {"adding"}
      BY DEF ThreadSet, Places
    <3> QED BY <2>2, <3>1, AddStartsInOrder, OtherStepsInOrder DEF AddStep
  <2>3. ASSUME NEW t \in Searchers, SearchStep(t) PROVE StartsInOrder
    <3>1. t \in ThreadSet /\ "idle" \in Places \ {"adding"}
      BY DEF ThreadSet, Places
    <3> QED BY <2>1, <2>3, <3>1, OtherStepsInOrder DEF SearchStep, FinishSearch
  <2>4. ASSUME NEW t \in Iterators, IteratorStep(t) PROVE StartsInOrder
    <3>1. t \in ThreadSet /\ "idle" \in Places \ {"adding"} /\ "hasIterator" \in Places \ {"adding"}
      BY DEF ThreadSet, Places
    <3>2. CASE FinishAnnIterator(t)
      <4>1. PICK b \in Places \ {"adding"} : ReleaseRead(t, b)
        BY <3>1, <3>2 DEF FinishAnnIterator
      <4> QED BY <3>1, <4>1, OtherStepsInOrder
    <3> QED BY <2>1, <2>4, <3>1, <3>2, OtherStepsInOrder, Zenon DEF IteratorStep
  <2>5. ASSUME NEW t \in RangeSearchers, RangeStep(t) PROVE StartsInOrder
    <3>1. t \in ThreadSet /\ "idle" \in Places \ {"adding"} /\ "ranging" \in Places \ {"adding"}
      BY DEF ThreadSet, Places
    <3>2. CASE CallAnnIterator(t) \/ ResumeAnnIterator(t)
      <4>1. Route("reading", "nestedWait", "nested")
        BY DEF Route
      <4> QED BY <3>1, <3>2, <4>1, ReadStartsInOrder DEF CallAnnIterator, ResumeAnnIterator
    <3> QED BY <2>1, <2>5, <3>1, <3>2, OtherStepsInOrder DEF RangeStep, ReturnIterators, FinishRangeSearch
  <2>6. CASE Train
    <3>1. active_readers_' = active_readers_ /\ active_readers_ \in Nat /\ pc' = pc
      BY <2>6 DEF Train, tasks, IInv, TypeOK
    <3> QED BY <3>1, NoStart
  <2> QED BY <2>2, <2>3, <2>4, <2>5, <2>6, Zenon DEF Next
<1> QED BY <1>1, Invariance, PTL DEF Spec, TasksInOrder
-----------------------------------------------------------------------------
\* A call of Add takes and releases the abstract lock for writing.
LEMMA AddRefines ==
  ASSUME IInv, NEW t \in ThreadSet, AddStep(t)
  PROVE  Lock!AcquireWrite(t) \/ Lock!ReleaseWrite(t) \/ UNCHANGED Lock!lockVars
<1> USE DEF IInv
<1>1. CASE Add(t) \/ ResumeAdd(t)
  <2>1. pc[t] \in {"idle", "addWait"} /\ MutexFree
    BY <1>1 DEF Add, ResumeAdd, TakeNumber
  <2>2. PICK b \in {"adding", "addWait"} :
          /\ pc' = [pc EXCEPT ![t] = b]
          /\ b = "adding" => \/ AddAdmitted(next_task_id_)
                             \/ pc[t] = "addWait" /\ AddAdmitted(task_id[t])
    BY <1>1, Zenon DEF Add, ResumeAdd, AwaitAdd
  <2>3. CASE b = "addWait"
    BY <2>1, <2>2, <2>3 DEF TypeOK, Reading, Writing, Holding, Lock!lockVars
  <2>4. CASE b = "adding"
    <3>1. Reading = {} /\ Writing = {}
      BY <2>1, <2>2, <2>4, NewAddFindsNothing, AdmittedAddIsLeast, Zenon
    <3>2. Reading' = Reading /\ Writing' = {t}
      BY <2>1, <2>2, <2>4, <3>1, Zenon DEF TypeOK, Reading, Writing, Holding
    <3> QED BY <3>1, <3>2 DEF Lock!AcquireWrite
  <2> QED BY <2>3, <2>4
<1>2. CASE FinishAdd(t)
  BY <1>2, Zenon DEF FinishAdd, TypeOK, Reading, Writing, Holding, Lock!ReleaseWrite
<1>3. CASE NotifyAfterAdd(t)
  BY <1>3 DEF NotifyAfterAdd, TypeOK, Reading, Writing, Holding, Lock!lockVars
<1> QED BY <1>1, <1>2, <1>3 DEF AddStep

\* The first permission of a thread takes the abstract lock for reading, a
\* second one changes nothing that the lock's users see.
LEMMA ReadRefines ==
  ASSUME IInv, NEW t \in ThreadSet, NEW from, NEW wait, NEW hold, Route(from, wait, hold),
         AcquireRead(t, from, wait, hold) \/ ResumeRead(t, wait, hold)
  PROVE  Lock!AcquireRead(t) \/ UNCHANGED Lock!lockVars
<1> USE DEF IInv
<1>1. pc[t] \in {from, wait} /\ MutexFree
  BY DEF AcquireRead, ResumeRead, TakeNumber
<1>2. PICK b \in {hold, wait} : pc' = [pc EXCEPT ![t] = b]
  BY Zenon DEF AcquireRead, ResumeRead, AwaitRead
<1>3. /\ pc'[t] = b /\ \A u \in ThreadSet : u # t => pc'[u] = pc[u]
  BY <1>2, Zenon DEF TypeOK
<1>4. Writing = {} /\ Writing' = {}
  BY <1>1, <1>3 DEF MutexFree, Writing, Route
<1>5. CASE from = "idle" /\ b = hold
  <2>1. t \notin Reading /\ Reading' = Reading \cup {t}
    BY <1>1, <1>3, <1>5 DEF Route, Reading, Holding
  <2> QED BY <1>4, <2>1, Zenon DEF Lock!AcquireRead
<1>6. CASE from # "idle" \/ b = wait
  <2>1. Reading' = Reading
    BY <1>1, <1>3, <1>6 DEF Route, Reading, Holding
  <2> QED BY <1>4, <2>1 DEF Lock!lockVars
<1> QED BY <1>5, <1>6

\* The end of a permission, and the iterator that has none.
LEMMA ReleaseRefines ==
  ASSUME IInv, NEW t \in ThreadSet, NEW b,
         \/ pc[t] \in {"reading", "ranging"} /\ b \in {"idle", "hasIterator"}
         \/ pc[t] = "nested" /\ b = "ranging"
         \/ pc[t] \in {"hasIterator", "iterReading"} /\ b \in {"idle", "iterReading"},
         pc' = [pc EXCEPT ![t] = b]
  PROVE  Lock!ReleaseRead(t) \/ UNCHANGED Lock!lockVars
<1>1. /\ pc'[t] = b /\ \A u \in ThreadSet : u # t => pc'[u] = pc[u]
  BY DEF IInv, TypeOK
<1>2. Writing' = Writing
  BY <1>1 DEF Writing
<1>3. CASE pc[t] \in {"reading", "ranging"}
  <2>1. t \in Reading /\ Reading' = Reading \ {t}
    BY <1>1, <1>3 DEF Reading, Holding
  <2> QED BY <1>2, <2>1 DEF Lock!ReleaseRead
<1>4. CASE pc[t] \in {"nested", "hasIterator", "iterReading"}
  <2>1. Reading' = Reading
    BY <1>1, <1>4, Zenon DEF Reading, Holding
  <2> QED BY <1>2, <2>1 DEF Lock!lockVars
<1> QED BY <1>3, <1>4

\* Every critical section is a step of the abstract lock or changes nothing
\* that its users see.
LEMMA NextRefines ==
  ASSUME IInv, [Next]_vars PROVE [Lock!LockNext]_(Lock!lockVars)
<1> DEFINE LockStep(t) == \/ Lock!AcquireRead(t) \/ Lock!ReleaseRead(t)
                          \/ Lock!AcquireWrite(t) \/ Lock!ReleaseWrite(t)
                          \/ UNCHANGED Lock!lockVars
<1>1. ASSUME NEW t \in ThreadSet, StartRead(t) \/ ResumeStartRead(t) PROVE LockStep(t)
  <2>1. Route("idle", "readWait", "reading")
    BY DEF Route
  <2> QED BY <1>1, <2>1, ReadRefines DEF StartRead, ResumeStartRead
<1>2. ASSUME NEW t \in ThreadSet, AddStep(t) PROVE LockStep(t)
  BY <1>2, AddRefines, Zenon
<1>3. ASSUME NEW t \in ThreadSet, SearchStep(t) PROVE LockStep(t)
  BY <1>1, <1>3, ReleaseRefines DEF SearchStep, FinishSearch, ReleaseRead
<1>4. ASSUME NEW t \in ThreadSet, IteratorStep(t) PROVE LockStep(t)
  <2>1. CASE FinishAnnIterator(t)
    <3>1. PICK b \in {"idle", "hasIterator"} : pc' = [pc EXCEPT ![t] = b]
      BY <2>1, Zenon DEF FinishAnnIterator, ReleaseRead
    <3>2. pc[t] \in {"reading", "ranging"}
      BY <2>1 DEF FinishAnnIterator
    <3> QED BY <3>1, <3>2, ReleaseRefines, Zenon
  <2>2. CASE FirstNext(t) \/ FinishFirstNext(t)
    <3>1. PICK b \in {"idle", "iterReading"} : pc' = [pc EXCEPT ![t] = b]
      BY <2>2, Zenon DEF FirstNext, FinishFirstNext
    <3>2. pc[t] \in {"hasIterator", "iterReading"}
      BY <2>2, Zenon DEF FirstNext, FinishFirstNext
    <3> QED BY <3>1, <3>2, ReleaseRefines, Zenon
  <2> QED BY <1>1, <1>4, <2>1, <2>2 DEF IteratorStep
<1>5. ASSUME NEW t \in ThreadSet, RangeStep(t) PROVE LockStep(t)
  <2>1. CASE CallAnnIterator(t) \/ ResumeAnnIterator(t)
    <3>1. Route("reading", "nestedWait", "nested")
      BY DEF Route
    <3> QED BY <2>1, <3>1, ReadRefines DEF CallAnnIterator, ResumeAnnIterator
  <2>2. CASE ReturnIterators(t)
    BY <2>2, ReleaseRefines, Zenon DEF ReturnIterators, ReleaseRead
  <2>3. CASE FinishRangeSearch(t)
    BY <2>3, ReleaseRefines, Zenon DEF FinishRangeSearch, ReleaseRead
  <2> QED BY <1>1, <1>5, <2>1, <2>2, <2>3 DEF RangeStep
<1>6. CASE Train \/ UNCHANGED vars
  <2>1. pc' = pc
    BY <1>6 DEF Train, vars
  <2> QED BY <2>1 DEF Reading, Writing, Lock!lockVars
<1>7. ASSUME NEW t \in ThreadSet, LockStep(t) PROVE [Lock!LockNext]_(Lock!lockVars)
  BY <1>7 DEF Lock!LockNext
<1> HIDE DEF LockStep
<1> QED BY <1>2, <1>3, <1>4, <1>5, <1>6, <1>7, Zenon DEF Next, ThreadSet

\* To its callers the protocol is a multi-read single-write lock: Add writes,
\* Search, GetVectorByIds, AnnIterator and RangeSearch read.
THEOREM Refinement == Spec => ImplementsRWLock
<1>1. Init => Lock!LockInit
  BY DEF Init, Reading, Writing, Holding, Lock!LockInit
<1>2. IInv /\ [Next]_vars => [Lock!LockNext]_(Lock!lockVars)
  BY NextRefines
<1> QED BY <1>1, <1>2, Invariance, PTL DEF Spec, ImplementsRWLock, Lock!LockSpec
=============================================================================
