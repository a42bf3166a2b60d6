-------------------------- MODULE FairRWLockProofs --------------------------
(***************************************************************************)
(* Proofs about FairRWLock, for any finite set of threads and any number   *)
(* of requests.                                                            *)
(***************************************************************************)
EXTENDS FairRWLock, FiniteSetTheorems, TLAPS

\* The inductive invariant: the safety invariants imply each other's induction
\* steps.  (MutualExclusion needs the counts to be right, and the pop() of
\* UnLockWrite needs the writer to be the head of the queue.)
IInv == TypeOK /\ MutualExclusion /\ RequestsInOrder /\ NoStrandedReader

\* How the number of a set of threads, which is what readers_ is compared with,
\* changes when one thread enters or leaves it.
LEMMA CountReaders ==
  ASSUME NEW S \in SUBSET Threads, NEW t \in Threads
  PROVE  /\ Cardinality(S) \in Nat
         /\ t \notin S => Cardinality(S \cup {t}) = Cardinality(S) + 1
         /\ t \in S => /\ Cardinality(S \ {t}) = Cardinality(S) - 1
                       /\ Cardinality(S) > 0
         /\ Cardinality(S) = 0 <=> S = {}
<1>1. IsFiniteSet(S)
  BY ThreadsFinite, FS_Subset DEF Threads
<1>2. IsFiniteSet(S \ {t}) /\ Cardinality(S \ {t}) = IF t \in S THEN Cardinality(S) - 1 ELSE Cardinality(S)
  BY <1>1, FS_RemoveElement
<1>3. Cardinality(S \cup {t}) = IF t \in S THEN Cardinality(S) ELSE Cardinality(S) + 1
  BY <1>1, FS_AddElement
<1>4. Cardinality(S) \in Nat /\ Cardinality(S \ {t}) \in Nat
  BY <1>1, <1>2, FS_CardinalityType
<1>5. Cardinality(S) = 0 <=> S = {}
  BY <1>1, FS_EmptySet
<1> QED BY <1>2, <1>3, <1>4, <1>5

\* What LockWrite's push to write_requests_ does: the queue is longer by one, its
\* last number is the new one, and the others are where they were.
LEMMA PushedRequest ==
  ASSUME NEW s \in Seq(Nat), NEW e \in Nat, NEW q, q = Append(s, e)
  PROVE  /\ q \in Seq(Nat) /\ Len(q) = Len(s) + 1 /\ q # <<>>
         /\ q[Len(q)] = e /\ Len(s) \in Nat
         /\ DOMAIN q = 1 .. Len(q) /\ DOMAIN s = 1 .. Len(s)
         /\ \A i \in DOMAIN s : q[i] = s[i] /\ q[i] \in Nat
         /\ Head(q) = q[1]
<1>1. q \in Seq(Nat) /\ Len(q) = Len(s) + 1 /\ Len(s) \in Nat
  OBVIOUS
<1>2. q[Len(q)] = e /\ \A i \in 1 .. Len(s) : q[i] = s[i] /\ q[i] \in Nat
  BY <1>1
<1>3. DOMAIN q = 1 .. Len(q) /\ DOMAIN s = 1 .. Len(s)
  BY <1>1
<1>4. q # <<>> /\ Head(q) = q[1]
  BY <1>1
<1> QED BY <1>1, <1>2, <1>3, <1>4

\* An evaluation of the predicate of read_cv_.wait lets the thread in or puts
\* it to sleep, and it puts it to sleep only behind a queued writer.
LEMMA AwaitReadCases ==
  ASSUME IInv, NEW t \in Threads, NEW i \in Nat, AwaitRead(t, i)
  PROVE  \/ /\ ~writer_ /\ (write_requests_ # <<>> => Head(write_requests_) > i)
            /\ readers_' = readers_ + 1
            /\ pc' = [pc EXCEPT ![t] = "reading"]
            /\ read_cv_' = read_cv_ \ {t}
         \/ /\ write_requests_ # <<>>
            /\ readers_' = readers_
            /\ pc' = [pc EXCEPT ![t] = "readWait"]
            /\ read_cv_' = read_cv_ \cup {t}
<1>1. CASE ReadAdmitted(i)
  BY <1>1, Zenon DEF AwaitRead, ReadAdmitted
<1>2. CASE ~ReadAdmitted(i)
  <2>1. write_requests_ # <<>>
    BY <1>2 DEF IInv, ReadAdmitted, MutualExclusion, RequestsInOrder, PendingWriters, Writing, TypeOK
  <2> QED BY <1>2, <2>1, Zenon DEF AwaitRead
<1> QED BY <1>1, <1>2

\* What such an evaluation does to the counting of the readers, to the types
\* and to the sleepers, whether LockRead or ResumeRead makes it.
LEMMA AwaitReadKeeps ==
  ASSUME IInv, NEW t \in Threads, NEW i \in Nat, AwaitRead(t, i),
         pc[t] \in {"idle", "readWait"}, UNCHANGED <<writer_, write_requests_>>
  PROVE  /\ pc' \in [Threads -> Places] /\ readers_' \in Nat /\ read_cv_' \subseteq Threads
         /\ writer_' \in BOOLEAN
         /\ MutualExclusion' /\ NoStrandedReader'
         /\ Writing' = Writing /\ PendingWriters' = PendingWriters
         /\ \A u \in Threads : u # t => pc'[u] = pc[u]
<1> USE DEF IInv
<1>1. t \notin Reading /\ t \notin Writing /\ t \notin PendingWriters
  BY DEF Reading, Writing, PendingWriters
<1>0. writer_' \in BOOLEAN /\ writer_' = writer_ /\ write_requests_' = write_requests_
  BY Zenon DEF TypeOK
<1>2. CASE /\ ~writer_
           /\ readers_' = readers_ + 1
           /\ pc' = [pc EXCEPT ![t] = "reading"]
           /\ read_cv_' = read_cv_ \ {t}
  <2>1. pc' \in [Threads -> Places] /\ readers_' \in Nat /\ read_cv_' \subseteq Threads
    BY <1>2 DEF TypeOK, Places
  <2>2. /\ Reading' = Reading \cup {t} /\ Writing' = Writing /\ PendingWriters' = PendingWriters
        /\ \A u \in Threads : u # t => pc'[u] = pc[u]
    BY <1>1, <1>2 DEF TypeOK, Reading, Writing, PendingWriters
  <2>3. Cardinality(Reading \cup {t}) = Cardinality(Reading) + 1
    BY <1>1, CountReaders DEF Reading
  <2>4. MutualExclusion'
    BY <1>0, <1>2, <2>2, <2>3 DEF MutualExclusion
  <2>5. NoStrandedReader'
    BY <1>0, <1>2 DEF NoStrandedReader
  <2> QED BY <1>0, <2>1, <2>2, <2>4, <2>5
<1>3. CASE /\ write_requests_ # <<>>
           /\ readers_' = readers_
           /\ pc' = [pc EXCEPT ![t] = "readWait"]
           /\ read_cv_' = read_cv_ \cup {t}
  <2>1. pc' \in [Threads -> Places] /\ readers_' \in Nat /\ read_cv_' \subseteq Threads
    BY <1>3 DEF TypeOK, Places
  <2>2. /\ Reading' = Reading /\ Writing' = Writing /\ PendingWriters' = PendingWriters
        /\ \A u \in Threads : u # t => pc'[u] = pc[u]
    BY <1>1, <1>3 DEF TypeOK, Reading, Writing, PendingWriters
  <2>3. MutualExclusion'
    BY <1>0, <1>3, <2>2 DEF MutualExclusion
  <2>4. NoStrandedReader'
    BY <1>0, <1>3 DEF NoStrandedReader
  <2> QED BY <1>0, <2>1, <2>2, <2>3, <2>4
<1> QED BY <1>2, <1>3, AwaitReadCases

\* The constructor's values satisfy the inductive invariant.
LEMMA InitIInv == Init => IInv
<1> SUFFICES ASSUME Init PROVE IInv OBVIOUS
<1>1. TypeOK
  <2>1. writer_ \in BOOLEAN
    BY Zenon DEF Init
  <2>2. write_requests_ \in Seq(Nat)
    BY DEF Init
  <2>3. pc \in [Threads -> Places]
    BY DEF Init, Places
  <2>4. id \in [Threads -> Nat]
    BY DEF Init
  <2> QED BY <2>1, <2>2, <2>3, <2>4 DEF Init, TypeOK
<1>2. Reading = {} /\ Writing = {} /\ PendingWriters = {}
  BY DEF Init, Reading, Writing, PendingWriters
<1>3. MutualExclusion
  BY <1>2, FS_EmptySet DEF Init, MutualExclusion
<1>4. RequestsInOrder /\ NoStrandedReader
  BY <1>2 DEF Init, RequestsInOrder, NoStrandedReader
<1> QED BY <1>1, <1>3, <1>4 DEF IInv
-----------------------------------------------------------------------------
\* LockRead, up to its return or its first sleep, keeps the inductive invariant.
LEMMA LockReadIInv ==
  ASSUME IInv, NEW t \in Threads, LockRead(t) PROVE IInv'
<1> USE DEF IInv
<1>1. id_counter_ \in Nat /\ AwaitRead(t, id_counter_) /\ pc[t] = "idle"
      /\ UNCHANGED <<writer_, write_requests_>>
  BY Zenon DEF LockRead, TypeOK
<1>2. /\ pc' \in [Threads -> Places] /\ readers_' \in Nat /\ read_cv_' \subseteq Threads
      /\ writer_' \in BOOLEAN
      /\ MutualExclusion' /\ NoStrandedReader'
      /\ Writing' = Writing /\ PendingWriters' = PendingWriters
      /\ \A u \in Threads : u # t => pc'[u] = pc[u]
  BY <1>1, AwaitReadKeeps
<1>3. id' \in [Threads -> Nat] /\ id_counter_' \in Nat
  BY DEF LockRead, TypeOK
<1>4. TypeOK'
  BY <1>2, <1>3, Zenon DEF LockRead, TypeOK
<1>5. RequestsInOrder'
  BY <1>1, <1>2 DEF LockRead, TypeOK, RequestsInOrder, PendingWriters, Writing
<1> QED BY <1>2, <1>4, <1>5

\* So does a reader that wakes up and tests again.
LEMMA ResumeReadIInv ==
  ASSUME IInv, NEW t \in Threads, ResumeRead(t) PROVE IInv'
<1> USE DEF IInv
<1>1. id[t] \in Nat /\ AwaitRead(t, id[t]) /\ pc[t] = "readWait"
      /\ UNCHANGED <<writer_, write_requests_>>
  BY DEF ResumeRead, TypeOK
<1>2. /\ pc' \in [Threads -> Places] /\ readers_' \in Nat /\ read_cv_' \subseteq Threads
      /\ writer_' \in BOOLEAN
      /\ MutualExclusion' /\ NoStrandedReader'
      /\ Writing' = Writing /\ PendingWriters' = PendingWriters
      /\ \A u \in Threads : u # t => pc'[u] = pc[u]
  BY <1>1, AwaitReadKeeps
<1>3. TypeOK'
  BY <1>2, Zenon DEF ResumeRead, TypeOK
<1>4. RequestsInOrder'
  BY <1>1, <1>2 DEF ResumeRead, TypeOK, RequestsInOrder, PendingWriters, Writing
<1> QED BY <1>2, <1>3, <1>4

\* UnLockRead keeps it: it counts one of the readers off.
LEMMA UnLockReadIInv ==
  ASSUME IInv, NEW t \in Threads, UnLockRead(t) PROVE IInv'
<1> USE DEF IInv
<1>1. t \in Reading /\ t \notin Writing /\ t \notin PendingWriters
  BY DEF UnLockRead, Reading, Writing, PendingWriters
<1>2. /\ Reading' = Reading \ {t} /\ Writing' = Writing /\ PendingWriters' = PendingWriters
      /\ \A u \in Threads : u # t => pc'[u] = pc[u]
      /\ pc'[t] = "idle"
  BY <1>1 DEF UnLockRead, TypeOK, Reading, Writing, PendingWriters
<1>3. Cardinality(Reading) \in Nat /\ Cardinality(Reading) > 0
      /\ Cardinality(Reading \ {t}) = Cardinality(Reading) - 1
  BY <1>1, CountReaders, Zenon DEF Reading
<1>4. writer_' = writer_ /\ write_requests_' = write_requests_ /\ writer_' \in BOOLEAN
  BY Zenon DEF UnLockRead, TypeOK
<1>5. readers_' = readers_ - 1 /\ readers_' \in Nat
  BY <1>3 DEF UnLockRead, MutualExclusion
<1>6. pc' \in [Threads -> Places] /\ write_cv_' \subseteq Threads
  BY DEF UnLockRead, NotifyOneWriter, TypeOK, Places
<1>7. TypeOK'
  BY <1>4, <1>5, <1>6, Zenon DEF UnLockRead, TypeOK
<1>8. MutualExclusion'
  BY <1>1, <1>2, <1>3, <1>4, <1>5 DEF MutualExclusion
<1>9. RequestsInOrder' /\ NoStrandedReader'
  BY <1>2, <1>4 DEF UnLockRead, RequestsInOrder, NoStrandedReader, PendingWriters, Writing
<1> QED BY <1>7, <1>8, <1>9

\* An evaluation of the predicate of write_cv_.wait makes the thread the only
\* holder or puts it to sleep, whether LockWrite or ResumeWrite makes it.
LEMMA AwaitWriteKeeps ==
  ASSUME IInv, NEW t \in Threads, NEW q, NEW i \in Nat, AwaitWrite(t, q, i),
         pc[t] \in {"idle", "writeWait"}, UNCHANGED readers_
  PROVE  /\ pc' \in [Threads -> Places] /\ write_cv_' \subseteq Threads
         /\ writer_' \in BOOLEAN
         /\ MutualExclusion'
         /\ PendingWriters' = PendingWriters \cup {t}
         /\ \A u \in Threads : u # t => pc'[u] = pc[u]
         /\ \/ Writing' = Writing
            \/ Writing' = {t} /\ Head(q) = i
<1> USE DEF IInv
<1>1. t \notin Reading /\ t \notin Writing
  BY DEF Reading, Writing
<1>2. CASE WriteAdmitted(q, i)
  <2>1. /\ writer_' = TRUE /\ writer_' \in BOOLEAN /\ ~writer_
        /\ pc' = [pc EXCEPT ![t] = "writing"] /\ write_cv_' = write_cv_ \ {t}
        /\ readers_ = 0 /\ Head(q) = i
    BY <1>2, Zenon DEF AwaitWrite, WriteAdmitted
  <2>2. Reading = {} /\ Writing = {}
    BY <2>1, CountReaders, Zenon DEF MutualExclusion, Reading
  <2>3. Reading' = {} /\ Writing' = {t} /\ PendingWriters' = PendingWriters \cup {t}
        /\ \A u \in Threads : u # t => pc'[u] = pc[u]
    BY <2>1, <2>2 DEF TypeOK, Reading, Writing, PendingWriters
  <2>4. pc' \in [Threads -> Places] /\ write_cv_' \subseteq Threads
    BY <2>1 DEF TypeOK, Places
  <2>5. MutualExclusion'
    BY <2>1, <2>2, <2>3, Zenon DEF MutualExclusion
  <2> QED BY <2>1, <2>3, <2>4, <2>5
<1>3. CASE ~WriteAdmitted(q, i)
  <2>1. /\ writer_' = writer_ /\ writer_' \in BOOLEAN
        /\ pc' = [pc EXCEPT ![t] = "writeWait"] /\ write_cv_' = write_cv_ \cup {t}
    BY <1>3, Zenon DEF AwaitWrite, TypeOK
  <2>2. Reading' = Reading /\ Writing' = Writing /\ PendingWriters' = PendingWriters \cup {t}
        /\ \A u \in Threads : u # t => pc'[u] = pc[u]
    BY <1>1, <2>1 DEF TypeOK, Reading, Writing, PendingWriters
  <2>3. pc' \in [Threads -> Places] /\ write_cv_' \subseteq Threads
    BY <2>1 DEF TypeOK, Places
  <2>4. MutualExclusion'
    BY <2>1, <2>2 DEF MutualExclusion
  <2> QED BY <2>1, <2>2, <2>3, <2>4
<1> QED BY <1>2, <1>3

\* LockWrite keeps it: the number it appends is above all those in the queue.
LEMMA LockWriteIInv ==
  ASSUME IInv, NEW t \in Threads, LockWrite(t) PROVE IInv'
<1> USE DEF IInv
<1> DEFINE q == Append(write_requests_, id_counter_)
<1>1. /\ id_counter_ \in Nat /\ AwaitWrite(t, q, id_counter_) /\ pc[t] = "idle"
      /\ UNCHANGED readers_ /\ write_requests_' = q
  BY Zenon DEF LockWrite, TypeOK
<1> HIDE DEF q
<1>2. /\ pc' \in [Threads -> Places] /\ write_cv_' \subseteq Threads
      /\ writer_' \in BOOLEAN
      /\ MutualExclusion'
      /\ PendingWriters' = PendingWriters \cup {t}
      /\ \A u \in Threads : u # t => pc'[u] = pc[u]
      /\ \/ Writing' = Writing
         \/ Writing' = {t} /\ Head(q) = id_counter_
  BY <1>1, AwaitWriteKeeps
<1>3. /\ id' = [id EXCEPT ![t] = id_counter_] /\ id_counter_' = id_counter_ + 1
      /\ id' \in [Threads -> Nat] /\ id_counter_' \in Nat
  BY DEF LockWrite, TypeOK
<1>4. /\ q \in Seq(Nat) /\ Len(q) = Len(write_requests_) + 1 /\ q # <<>>
      /\ q[Len(q)] = id_counter_ /\ Len(write_requests_) \in Nat
      /\ DOMAIN q = 1 .. Len(q) /\ DOMAIN write_requests_ = 1 .. Len(write_requests_)
      /\ \A i \in DOMAIN write_requests_ : q[i] = write_requests_[i] /\ q[i] \in Nat
      /\ Head(q) = q[1]
  <2>1. write_requests_ \in Seq(Nat) /\ id_counter_ \in Nat
    BY <1>1, Zenon DEF TypeOK
  <2>2. q = Append(write_requests_, id_counter_)
    BY Zenon DEF q
  <2> QED BY <2>1, <2>2, PushedRequest
<1>5. TypeOK'
  BY <1>1, <1>2, <1>3, <1>4, Zenon DEF LockWrite, TypeOK
<1>6. NoStrandedReader'
  BY <1>1, <1>4 DEF NoStrandedReader
<1>7. RequestsInOrder'
  <2>1. /\ \A u \in Threads : pc'[u] # "idle" => id'[u] < id_counter_'
        /\ \A u, v \in Threads : pc'[u] # "idle" /\ pc'[v] # "idle" /\ u # v => id'[u] # id'[v]
    BY <1>2, <1>3 DEF TypeOK, RequestsInOrder
  <2>2. /\ \A i \in DOMAIN q : q[i] < id_counter_'
        /\ \A i, j \in DOMAIN q : i < j => q[i] < q[j]
    <3>1. \A i \in DOMAIN write_requests_ : q[i] \in Nat /\ q[i] < id_counter_
      <4>1. \A i \in DOMAIN write_requests_ : write_requests_[i] < id_counter_
        BY Zenon DEF RequestsInOrder
      <4> QED BY <1>4, <4>1, Zenon
    <3>2. \A i \in DOMAIN q : i \in DOMAIN write_requests_ \/ i = Len(q)
      BY <1>4
    <3>3. \A i, j \in DOMAIN write_requests_ : i < j => q[i] < q[j]
      BY <1>4 DEF RequestsInOrder
    <3>4. \A i \in DOMAIN q : q[i] < id_counter_'
      <4>1. id_counter_ \in Nat /\ id_counter_' = id_counter_ + 1 /\ q[Len(q)] = id_counter_
        BY <1>1, <1>3, <1>4, Zenon
      <4> QED BY <3>1, <3>2, <4>1
    <3>5. ASSUME NEW i \in DOMAIN q, NEW j \in DOMAIN q, i < j PROVE q[i] < q[j]
      <4>1. i \in DOMAIN write_requests_
        BY <1>4, <3>5
      <4> QED BY <1>4, <3>1, <3>2, <3>3, <3>5, <4>1
    <3> QED BY <3>4, <3>5
  <2>3. \A u \in PendingWriters' : \E i \in DOMAIN q : q[i] = id'[u]
    <3>1. SUFFICES ASSUME NEW u \in PendingWriters' PROVE \E i \in DOMAIN q : q[i] = id'[u]
      OBVIOUS
    <3>2. CASE u = t
      <4>1. id'[u] = id_counter_ /\ Len(q) \in DOMAIN q
        BY <1>3, <1>4, <3>2 DEF TypeOK
      <4> QED BY <4>1, <1>4
    <3>3. CASE u # t
      <4>1. u \in PendingWriters /\ u \in Threads /\ id'[u] = id[u]
        BY <1>2, <1>3, <3>3 DEF PendingWriters, TypeOK
      <4>2. PICK i \in DOMAIN write_requests_ : write_requests_[i] = id[u]
        BY <4>1 DEF RequestsInOrder
      <4> QED BY <4>1, <4>2, <1>4
    <3> QED BY <3>2, <3>3
  <2>4. \A u \in Writing' : q[1] = id'[u]
    <3>1. CASE Writing' = {t} /\ Head(q) = id_counter_
      BY <1>3, <1>4, <3>1 DEF TypeOK
    <3>2. CASE Writing' = Writing
      <4>1. SUFFICES ASSUME NEW u \in Writing PROVE q[1] = id'[u]
        BY <3>2
      <4>2. u # t /\ u \in Threads /\ u \in PendingWriters
        BY <1>1 DEF Writing, PendingWriters
      <4>3. 1 \in DOMAIN write_requests_ /\ write_requests_[1] = id[u]
        BY <4>1, <4>2, <1>4 DEF RequestsInOrder
      <4> QED BY <1>3, <1>4, <4>2, <4>3, Zenon DEF TypeOK
    <3> QED BY <1>2, <3>1, <3>2
  <2> QED BY <1>1, <2>1, <2>2, <2>3, <2>4 DEF RequestsInOrder
<1> QED BY <1>2, <1>5, <1>6, <1>7

\* So does a writer that wakes up and tests again.
LEMMA ResumeWriteIInv ==
  ASSUME IInv, NEW t \in Threads, ResumeWrite(t) PROVE IInv'
<1> USE DEF IInv
<1>1. /\ id[t] \in Nat /\ AwaitWrite(t, write_requests_, id[t]) /\ pc[t] = "writeWait"
      /\ UNCHANGED <<id_counter_, readers_, write_requests_, read_cv_, id>>
  BY DEF ResumeWrite, TypeOK
<1>2. /\ pc' \in [Threads -> Places] /\ write_cv_' \subseteq Threads
      /\ writer_' \in BOOLEAN
      /\ MutualExclusion'
      /\ PendingWriters' = PendingWriters \cup {t}
      /\ \A u \in Threads : u # t => pc'[u] = pc[u]
      /\ \/ Writing' = Writing
         \/ Writing' = {t} /\ Head(write_requests_) = id[t]
  BY <1>1, AwaitWriteKeeps
<1>3. TypeOK'
  BY <1>1, <1>2, Zenon DEF TypeOK
<1>4. NoStrandedReader'
  BY <1>1 DEF NoStrandedReader
<1>5. PendingWriters' = PendingWriters
  BY <1>1, <1>2 DEF PendingWriters
<1>6. \A u \in Writing' : write_requests_[1] = id[u]
  BY <1>1, <1>2 DEF RequestsInOrder, TypeOK
<1>7. RequestsInOrder'
  <2>1. /\ \A u \in Threads : pc'[u] # "idle" => id'[u] < id_counter_'
        /\ \A u, v \in Threads : pc'[u] # "idle" /\ pc'[v] # "idle" /\ u # v => id'[u] # id'[v]
    BY <1>1, <1>2 DEF RequestsInOrder
  <2> QED BY <1>1, <1>5, <1>6, <2>1 DEF RequestsInOrder
<1> QED BY <1>2, <1>3, <1>4, <1>7

\* UnLockWrite keeps it: the number it pops is the caller's own, and with the
\* last one it wakes every reader.
LEMMA UnLockWriteIInv ==
  ASSUME IInv, NEW t \in Threads, UnLockWrite(t) PROVE IInv'
<1> USE DEF IInv
<1> DEFINE q == Tail(write_requests_)
<1>1. t \in Writing /\ t \in PendingWriters /\ Writing = {t} /\ Reading = {}
  BY DEF UnLockWrite, Writing, PendingWriters, MutualExclusion
<1>2. /\ Reading' = {} /\ Writing' = {} /\ PendingWriters' = PendingWriters \ {t}
      /\ \A u \in Threads : u # t => pc'[u] = pc[u]
      /\ pc'[t] = "idle"
  BY <1>1 DEF UnLockWrite, TypeOK, Reading, Writing, PendingWriters
<1>3. writer_' = FALSE /\ writer_' \in BOOLEAN /\ write_requests_' = q
      /\ UNCHANGED <<id_counter_, readers_, id>>
  BY Zenon DEF UnLockWrite
<1>4. write_requests_ # <<>> /\ write_requests_[1] = id[t]
  BY <1>1 DEF RequestsInOrder, TypeOK
<1>5. /\ q \in Seq(Nat) /\ Len(q) = Len(write_requests_) - 1 /\ Len(q) \in Nat
      /\ DOMAIN q = 1 .. Len(q) /\ DOMAIN write_requests_ = 1 .. Len(write_requests_)
      /\ \A i \in DOMAIN q : i + 1 \in DOMAIN write_requests_ /\ q[i] = write_requests_[i + 1]
  BY <1>4 DEF TypeOK
<1> HIDE DEF q
<1>6. pc' \in [Threads -> Places] /\ write_cv_' \subseteq Threads /\ read_cv_' \subseteq Threads
  BY DEF UnLockWrite, NotifyOneWriter, TypeOK, Places
<1>7. TypeOK'
  BY <1>3, <1>5, <1>6, Zenon DEF TypeOK
<1>8. MutualExclusion'
  BY <1>1, <1>2, <1>3 DEF MutualExclusion
<1>9. NoStrandedReader'
  BY DEF UnLockWrite, NoStrandedReader
<1>10. RequestsInOrder'
  <2>1. /\ \A u \in Threads : pc'[u] # "idle" => id'[u] < id_counter_'
        /\ \A u, v \in Threads : pc'[u] # "idle" /\ pc'[v] # "idle" /\ u # v => id'[u] # id'[v]
    BY <1>2, <1>3 DEF RequestsInOrder
  <2>2. /\ \A i \in DOMAIN q : q[i] < id_counter_'
        /\ \A i, j \in DOMAIN q : i < j => q[i] < q[j]
    <3>1. \A i \in DOMAIN q : q[i] < id_counter_'
      BY <1>3, <1>5 DEF RequestsInOrder
    <3>2. ASSUME NEW i \in DOMAIN q, NEW j \in DOMAIN q, i < j PROVE q[i] < q[j]
      <4>1. i + 1 < j + 1 /\ i + 1 \in DOMAIN write_requests_ /\ j + 1 \in DOMAIN write_requests_
            /\ q[i] = write_requests_[i + 1] /\ q[j] = write_requests_[j + 1]
        BY <1>5, <3>2
      <4> QED BY <4>1 DEF RequestsInOrder
    <3> QED BY <3>1, <3>2
  <2>3. ASSUME NEW u \in PendingWriters' PROVE \E i \in DOMAIN q : q[i] = id[u]
    <3>1. u \in PendingWriters /\ u # t /\ u \in Threads /\ t \in Threads
          /\ pc[u] # "idle" /\ pc[t] # "idle"
      BY <1>1, <1>2 DEF PendingWriters
    <3>2. PICK i \in DOMAIN write_requests_ : write_requests_[i] = id[u]
      BY <3>1 DEF RequestsInOrder
    <3>3. i # 1
      BY <1>4, <3>1, <3>2 DEF RequestsInOrder
    <3>4. i - 1 \in DOMAIN q /\ i = (i - 1) + 1
      BY <1>5, <3>2, <3>3
    <3>5. q[i - 1] = write_requests_[i]
      BY <1>5, <3>4
    <3> QED BY <3>2, <3>4, <3>5
  <2> QED BY <1>2, <1>3, <2>1, <2>2, <2>3 DEF RequestsInOrder
<1> QED BY <1>7, <1>8, <1>9, <1>10

\* Every step of the lock keeps the inductive invariant.
LEMMA NextIInv ==
  ASSUME IInv, [Next]_vars PROVE IInv'
<1>1. ASSUME NEW t \in Readers, LockRead(t) \/ ResumeRead(t) \/ UnLockRead(t)
      PROVE  IInv'
  BY <1>1, LockReadIInv, ResumeReadIInv, UnLockReadIInv DEF Threads
<1>2. ASSUME NEW t \in Writers, LockWrite(t) \/ ResumeWrite(t) \/ UnLockWrite(t)
      PROVE  IInv'
  BY <1>2, LockWriteIInv, ResumeWriteIInv, UnLockWriteIInv DEF Threads
<1>3. CASE UNCHANGED vars
  BY <1>3, Zenon DEF vars, IInv, TypeOK, MutualExclusion, RequestsInOrder, NoStrandedReader,
         Reading, Writing, PendingWriters
<1> QED BY <1>1, <1>2, <1>3 DEF Next
-----------------------------------------------------------------------------
\* The inductive invariant holds throughout.
LEMMA Invariance == Spec => []IInv
<1>1. Init => IInv
  BY InitIInv
<1>2. IInv /\ [Next]_vars => IInv'
  BY NextIInv
<1> QED BY <1>1, <1>2, PTL DEF Spec

\* The members of the lock and the threads' local variables keep their types;
\* in particular --readers_ of UnLockRead never wraps below zero.
THEOREM TypeCorrect == Spec => []TypeOK
<1>1. IInv => TypeOK
  BY DEF IInv
<1> QED BY <1>1, Invariance, PTL

\* Whatever the number of threads, the count and the flag that LockRead and
\* LockWrite test stand for the threads that hold the lock, and a writer is
\* alone.
THEOREM Exclusion == Spec => []MutualExclusion
<1>1. IInv => MutualExclusion
  BY DEF IInv
<1> QED BY <1>1, Invariance, PTL

\* The queue write_requests_ is sorted, holds the number of every writer that
\* waits or writes, and the pop() of UnLockWrite removes the caller's own.
THEOREM QueueInOrder == Spec => []RequestsInOrder
<1>1. IInv => RequestsInOrder
  BY DEF IInv
<1> QED BY <1>1, Invariance, PTL

\* A reader sleeps on read_cv_ only while a writer that will notify it, or
\* hand the duty on to the next one, is queued.
THEOREM ReadersNotStranded == Spec => []NoStrandedReader
<1>1. IInv => NoStrandedReader
  BY DEF IInv
<1> QED BY <1>1, Invariance, PTL
-----------------------------------------------------------------------------
\* The writer at the head of the queue has the smallest number of all the
\* writers that wait.
LEMMA HeadIsSmallest ==
  ASSUME IInv, NEW u \in PendingWriters
  PROVE  /\ id[u] \in Nat /\ write_requests_ # <<>> /\ Head(write_requests_) \in Nat
         /\ id[u] >= Head(write_requests_)
<1> USE DEF IInv
<1>1. u \in Threads
  BY DEF PendingWriters
<1>2. PICK i \in DOMAIN write_requests_ : write_requests_[i] = id[u]
  BY DEF RequestsInOrder
<1>3. /\ write_requests_ \in Seq(Nat) /\ id[u] \in Nat
  BY <1>1 DEF TypeOK
<1>4. /\ write_requests_ # <<>> /\ 1 \in DOMAIN write_requests_
      /\ Head(write_requests_) = write_requests_[1] /\ i \in Nat /\ (i = 1 \/ 1 < i)
      /\ write_requests_[1] \in Nat
  BY <1>2, <1>3
<1>5. 1 < i => write_requests_[1] < write_requests_[i]
  BY <1>2, <1>4 DEF RequestsInOrder
<1> QED BY <1>2, <1>3, <1>4, <1>5

\* A reader that is let in asked before every writer that waits.
LEMMA ReaderBeforeWriters ==
  ASSUME IInv, NEW t \in Threads, NEW i \in Nat, AwaitRead(t, i),
         NEW u \in PendingWriters, pc'[t] = "reading"
  PROVE  i < id[u]
<1>1. pc \in [Threads -> Places]
  BY DEF IInv, TypeOK
<1>2. write_requests_ # <<>> => Head(write_requests_) > i
  BY <1>1, AwaitReadCases
<1> QED BY <1>2, HeadIsSmallest

\* A writer that is let in is the head of its queue.
LEMMA WriterIsHead ==
  ASSUME IInv, NEW t \in Threads, NEW q, NEW i, AwaitWrite(t, q, i),
         pc'[t] = "writing"
  PROVE  Head(q) = i
<1>1. pc \in [Threads -> Places]
  BY DEF IInv, TypeOK
<1>2. CASE WriteAdmitted(q, i)
  BY <1>2 DEF WriteAdmitted
<1>3. CASE ~WriteAdmitted(q, i)
  BY <1>1, <1>3, Zenon DEF AwaitWrite
<1> QED BY <1>2, <1>3

\* Only the thread that takes the step can be admitted by it.
LEMMA OrderOfOneStep ==
  ASSUME IInv, NEW t \in Threads, NEW i \in Nat, id'[t] = i,
         \A v \in Threads : v # t => pc'[v] = pc[v],
         pc'[t] \in {"reading", "writing"} /\ pc[t] \notin {"reading", "writing"}
           => \A u \in PendingWriters : u # t => i < id[u]
  PROVE  OnlyBeforeLaterWriters
BY DEF OnlyBeforeLaterWriters, Admitted, PendingWriters

\* Readers and writers are let in behind no writer that asked later than a
\* waiting one: the queue of LockWrite serves the writers in the order of their
\* requests and holds back the readers that came after.
THEOREM WritersInOrder == Spec => NoOvertakingOfWriters
<1>1. IInv /\ [Next]_vars => [OnlyBeforeLaterWriters]_vars
  <2> SUFFICES ASSUME IInv, Next PROVE OnlyBeforeLaterWriters
    OBVIOUS
  <2>0. TypeOK
    BY DEF IInv
  <2>1. ASSUME NEW t \in Readers, LockRead(t) PROVE OnlyBeforeLaterWriters
    <3>1. /\ t \in Threads /\ id_counter_ \in Nat /\ AwaitRead(t, id_counter_) /\ pc[t] = "idle"
          /\ UNCHANGED <<writer_, write_requests_>>
      BY <2>0, <2>1, Zenon DEF LockRead, TypeOK, Threads
    <3>2. id'[t] = id_counter_
      BY <2>0, <2>1, <3>1 DEF LockRead, TypeOK
    <3>3. \A v \in Threads : v # t => pc'[v] = pc[v]
      BY <3>1, AwaitReadKeeps
    <3>4. pc'[t] # "writing"
      BY <2>0, <3>1, AwaitReadCases DEF TypeOK
    <3>5. pc'[t] = "reading" => \A u \in PendingWriters : id_counter_ < id[u]
      BY <3>1, ReaderBeforeWriters
    <3> QED BY <3>1, <3>2, <3>3, <3>4, <3>5, OrderOfOneStep
  <2>2. ASSUME NEW t \in Readers, ResumeRead(t) PROVE OnlyBeforeLaterWriters
    <3>1. /\ t \in Threads /\ id[t] \in Nat /\ AwaitRead(t, id[t]) /\ pc[t] = "readWait"
          /\ UNCHANGED <<writer_, write_requests_, id>>
      BY <2>0, <2>2 DEF ResumeRead, TypeOK, Threads
    <3>2. id'[t] = id[t]
      BY <3>1
    <3>3. \A v \in Threads : v # t => pc'[v] = pc[v]
      BY <3>1, AwaitReadKeeps
    <3>4. pc'[t] # "writing"
      BY <2>0, <3>1, AwaitReadCases DEF TypeOK
    <3>5. pc'[t] = "reading" => \A u \in PendingWriters : id[t] < id[u]
      BY <3>1, ReaderBeforeWriters
    <3> QED BY <3>1, <3>2, <3>3, <3>4, <3>5, OrderOfOneStep
  <2>3. ASSUME NEW t \in Threads, UnLockRead(t) \/ UnLockWrite(t) PROVE OnlyBeforeLaterWriters
    <3>1. pc' = [pc EXCEPT ![t] = "idle"]
      BY <2>3 DEF UnLockRead, UnLockWrite
    <3> QED BY <2>0, <3>1 DEF OnlyBeforeLaterWriters, Admitted, TypeOK
  <2>4. ASSUME NEW t \in Writers, LockWrite(t) PROVE OnlyBeforeLaterWriters
    <3> DEFINE q == Append(write_requests_, id_counter_)
    <3>1. /\ t \in Threads /\ id_counter_ \in Nat /\ AwaitWrite(t, q, id_counter_) /\ pc[t] = "idle"
          /\ UNCHANGED readers_
      BY <2>0, <2>4, Zenon DEF LockWrite, TypeOK, Threads
    <3>2. id'[t] = id_counter_
      BY <2>0, <2>4, <3>1 DEF LockWrite, TypeOK
    <3>3. \A v \in Threads : v # t => pc'[v] = pc[v]
      BY <3>1, AwaitWriteKeeps
    <3>4. pc'[t] # "reading"
      BY <2>0, <3>1 DEF AwaitWrite, TypeOK
    <3>5. pc'[t] = "writing" => PendingWriters = {}
      <4>1. SUFFICES ASSUME pc'[t] = "writing", NEW u \in PendingWriters PROVE FALSE
        OBVIOUS
      <4>2. Head(q) = id_counter_
        BY <3>1, <4>1, WriterIsHead, Zenon
      <4>3. write_requests_ # <<>>
        BY HeadIsSmallest
      <4>4. Head(q) = write_requests_[1] /\ 1 \in DOMAIN write_requests_
            /\ write_requests_[1] \in Nat
        BY <2>0, <4>3 DEF TypeOK
      <4> QED BY <4>2, <4>4 DEF IInv, RequestsInOrder, TypeOK
    <3> QED BY <3>1, <3>2, <3>3, <3>4, <3>5, OrderOfOneStep
  <2>5. ASSUME NEW t \in Writers, ResumeWrite(t) PROVE OnlyBeforeLaterWriters
    <3>1. /\ t \in Threads /\ id[t] \in Nat /\ AwaitWrite(t, write_requests_, id[t])
          /\ pc[t] = "writeWait" /\ UNCHANGED <<readers_, id>>
      BY <2>0, <2>5 DEF ResumeWrite, TypeOK, Threads
    <3>2. id'[t] = id[t]
      BY <3>1
    <3>3. \A v \in Threads : v # t => pc'[v] = pc[v]
      BY <3>1, AwaitWriteKeeps
    <3>4. pc'[t] # "reading"
      BY <2>0, <3>1 DEF AwaitWrite, TypeOK
    <3>5. pc'[t] = "writing" => \A u \in PendingWriters : u # t => id[t] < id[u]
      <4>1. SUFFICES ASSUME pc'[t] = "writing", NEW u \in PendingWriters, u # t PROVE id[t] < id[u]
        OBVIOUS
      <4>2. Head(write_requests_) = id[t]
        BY <3>1, <4>1, WriterIsHead
      <4>3. id[u] # id[t]
        BY <3>1, <4>1 DEF IInv, RequestsInOrder, PendingWriters
      <4> QED BY <3>1, <4>2, <4>3, HeadIsSmallest
    <3> QED BY <3>1, <3>2, <3>3, <3>4, <3>5, OrderOfOneStep
  <2> QED BY <2>1, <2>2, <2>3, <2>4, <2>5 DEF Next, Threads
<1> QED BY <1>1, Invariance, PTL DEF Spec, NoOvertakingOfWriters
-----------------------------------------------------------------------------
\* An evaluation of a wait predicate is an acquisition of the abstract lock or
\* changes nothing that it sees.
LEMMA AwaitReadAcquires ==
  ASSUME IInv, NEW t \in Threads, NEW i \in Nat, AwaitRead(t, i),
         pc[t] \in {"idle", "readWait"}
  PROVE  Lock!AcquireRead(t) \/ UNCHANGED Lock!lockVars
<1> USE DEF IInv
<1>1. CASE ~writer_ /\ pc' = [pc EXCEPT ![t] = "reading"]
  <2>1. Writing = {} /\ t \notin Reading
    BY <1>1 DEF MutualExclusion, Reading
  <2>2. Reading' = Reading \cup {t} /\ Writing' = Writing
    BY <1>1, <2>1 DEF TypeOK, Reading, Writing
  <2> QED BY <2>1, <2>2 DEF Lock!AcquireRead
<1>2. CASE pc' = [pc EXCEPT ![t] = "readWait"]
  BY <1>2 DEF TypeOK, Reading, Writing, Lock!lockVars
<1> QED BY <1>1, <1>2, AwaitReadCases

\* To the users of the lock, a writer's test takes it for writing or changes
\* nothing that they see.
LEMMA AwaitWriteAcquires ==
  ASSUME IInv, NEW t \in Threads, NEW q, NEW i, AwaitWrite(t, q, i),
         pc[t] \in {"idle", "writeWait"}
  PROVE  Lock!AcquireWrite(t) \/ UNCHANGED Lock!lockVars
<1> USE DEF IInv
<1>1. CASE WriteAdmitted(q, i)
  <2>1. ~writer_ /\ readers_ = 0 /\ pc' = [pc EXCEPT ![t] = "writing"]
    BY <1>1, Zenon DEF AwaitWrite, WriteAdmitted
  <2>2. Reading = {} /\ Writing = {}
    BY <2>1, CountReaders, Zenon DEF MutualExclusion, Reading
  <2>3. Reading' = Reading /\ Writing' = {t}
    BY <2>1, <2>2 DEF TypeOK, Reading, Writing
  <2> QED BY <2>2, <2>3 DEF Lock!AcquireWrite
<1>2. CASE ~WriteAdmitted(q, i)
  <2>1. pc' = [pc EXCEPT ![t] = "writeWait"]
    BY <1>2, Zenon DEF AwaitWrite
  <2> QED BY <2>1 DEF TypeOK, Reading, Writing, Lock!lockVars
<1> QED BY <1>1, <1>2

\* Every critical section of the code is a step of the abstract lock, or one
\* that its users cannot see.
LEMMA NextRefines ==
  ASSUME IInv, [Next]_vars PROVE [Lock!LockNext]_(Lock!lockVars)
<1>0. TypeOK
  BY DEF IInv
<1>1. ASSUME NEW t \in Readers, LockRead(t) \/ ResumeRead(t)
      PROVE  Lock!AcquireRead(t) \/ UNCHANGED Lock!lockVars
  <2>1. PICK i \in Nat : AwaitRead(t, i)
    BY <1>0, <1>1 DEF LockRead, ResumeRead, TypeOK, Threads
  <2>2. pc[t] \in {"idle", "readWait"}
    BY <1>1 DEF LockRead, ResumeRead
  <2> QED BY <2>1, <2>2, AwaitReadAcquires DEF Threads
<1>2. ASSUME NEW t \in Readers, UnLockRead(t) PROVE Lock!ReleaseRead(t)
  BY <1>0, <1>2 DEF UnLockRead, TypeOK, Reading, Writing, Threads, Lock!ReleaseRead
<1>3. ASSUME NEW t \in Writers, LockWrite(t) \/ ResumeWrite(t)
      PROVE  Lock!AcquireWrite(t) \/ UNCHANGED Lock!lockVars
  <2>1. PICK q, i : AwaitWrite(t, q, i)
    BY <1>3 DEF LockWrite, ResumeWrite
  <2>2. pc[t] \in {"idle", "writeWait"}
    BY <1>3 DEF LockWrite, ResumeWrite
  <2> QED BY <2>1, <2>2, AwaitWriteAcquires DEF Threads
<1>4. ASSUME NEW t \in Writers, UnLockWrite(t) PROVE Lock!ReleaseWrite(t)
  BY <1>0, <1>4 DEF UnLockWrite, TypeOK, Reading, Writing, Threads, Lock!ReleaseWrite
<1>5. CASE UNCHANGED vars
  BY <1>5 DEF vars, Reading, Writing, Lock!lockVars
<1>6. CASE Next
  BY <1>1, <1>2, <1>3, <1>4, <1>6 DEF Next, Threads, Lock!LockNext
<1> QED BY <1>5, <1>6

\* FairRWLock implements the abstract multi-read single-write lock: to the
\* threads that call it, its counters, queue and condition
\* variables are AcquireRead, ReleaseRead, AcquireWrite and ReleaseWrite.
THEOREM Refinement == Spec => ImplementsRWLock
<1>1. Init => Lock!LockInit
  BY DEF Init, Reading, Writing, Lock!LockInit
<1>2. IInv /\ [Next]_vars => [Lock!LockNext]_(Lock!lockVars)
  BY NextRefines
<1> QED BY <1>1, <1>2, Invariance, PTL DEF Spec, ImplementsRWLock, Lock!LockSpec
=============================================================================
