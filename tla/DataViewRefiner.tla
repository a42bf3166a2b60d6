--------------------------- MODULE DataViewRefiner ---------------------------
(***************************************************************************)
(* IndexNodeWithDataViewRefiner: a base index, whose reads and writes the  *)
(* FairRWLock base_index_lock_ protects, and a refiner (DataViewIndexFlat) *)
(* that no lock protects as a whole.  Add gives each block of rows first   *)
(* to the refiner, then to the base index; Search takes ids from the base  *)
(* index and reads the refiner's rows of these ids.                        *)
(*                                                                         *)
(* A block is one row, named by its call of Add and its place in it.  The  *)
(* base index is external code: a list of rows.  Ids count from 0.         *)
(***************************************************************************)
EXTENDS Integers, Sequences, FiniteSets

CONSTANTS
  Adders, Readers,                \* threads that call Add; Search and AnnIterator
  MaxRows,                        \* bound on the rows (blocks) given to Add
  MaxCalls,                       \* bound on the calls of Add, Search and AnnIterator
  MaxFailures,                    \* bound on the parts of an Add that fail
  MaxTrains                       \* bound on the calls of Train

VARIABLES
  is_cosine_, quantized,          \* the metric; quant_data_ # nullptr
  trains,                         \* calls of Train so far
  ntotal_, norms_, quant_data_,   \* the refiner: row counter, norms, codes
  base_index_,                    \* the rows of the base index
  th,                             \* what each thread does
  calls, rows,                    \* calls of Add, Search and AnnIterator, and rows, so far
  returned,                       \* rows of successful calls of Add
  overlapped, failures, trainFailed,  \* what has happened: two calls of Add at the same
                                  \* time, parts of an Add that failed, a Train that failed
  id_counter_, readers_, writer_, write_requests_, read_cv_, write_cv_,
  lockPc, lockId                  \* base_index_lock_

Threads == Adders \cup Readers

BaseLock == INSTANCE FairRWLock WITH Writers <- Adders, MaxRequests <- MaxCalls + MaxRows,
              pc <- lockPc, id <- lockId

lockVars == <<id_counter_, readers_, writer_, write_requests_, read_cv_, write_cv_, lockPc, lockId>>
refiner == <<ntotal_, norms_, quant_data_>>
history == <<calls, rows, returned, overlapped, failures, trainFailed>>
config == <<is_cosine_, quantized, trains>>
refinerVars == <<config, refiner, base_index_, th, history, lockVars>>

Idle == [pc |-> "idle", call |-> 0, block |-> 0, blocks |-> 0, offset |-> 0, ids |-> {},
         promised |-> {}]
Garbage == <<0, 0>>   \* codes of a slot that nobody has written

RefinerInit ==
  /\ is_cosine_ \in BOOLEAN /\ quantized \in BOOLEAN /\ trains = 0
  /\ ntotal_ = 0 /\ norms_ = <<>> /\ quant_data_ = <<>> /\ base_index_ = <<>>
  /\ th = [t \in Threads |-> Idle]
  /\ calls = 0 /\ rows = 0 /\ returned = {} /\ overlapped = FALSE /\ failures = 0 /\ trainFailed = FALSE
  /\ BaseLock!Init

Go(t, pc) == th' = [th EXCEPT ![t].pc = pc]
Fail == failures < MaxFailures /\ failures' = failures + 1
Row(t) == <<th[t].call, th[t].block>>

\* Train makes a new refiner, then trains the base index, which replaces its rows
\* when it succeeds.  The refiner's own failure is swallowed.  Train runs alone.
Train ==
  /\ trains < MaxTrains /\ \A t \in Threads : th[t] = Idle
  /\ trains' = trains + 1
  /\ ntotal_' = 0 /\ norms_' = <<>> /\ quant_data_' = <<>>
  /\ returned' = {}
  /\ \/ base_index_' = <<>> /\ overlapped' = FALSE /\ failures' = 0 /\ trainFailed' = FALSE
     \/ trainFailed' = TRUE /\ UNCHANGED <<base_index_, overlapped, failures>>
  /\ UNCHANGED <<is_cosine_, quantized, th, calls, rows, lockVars>>

-----------------------------------------------------------------------------
\* Add is called after a successful Train.
BeginAdd(t) ==
  /\ th[t].pc = "idle" /\ trains > 0 /\ ~trainFailed /\ calls < MaxCalls
  /\ \E blocks \in 1..(MaxRows - rows) :
       /\ rows' = rows + blocks
       /\ th' = [th EXCEPT ![t] = [Idle EXCEPT !.pc = "quant", !.call = calls + 1, !.block = 1,
                                               !.blocks = blocks]]
  /\ calls' = calls + 1
  /\ overlapped' = (overlapped \/ \E u \in Adders : th[u].pc # "idle")
  /\ UNCHANGED <<config, refiner, base_index_, returned, failures, trainFailed, lockVars>>

\* DataViewIndexFlat::Add, the codes: read where the list ends, then write there.
\* An exception is constructed but not thrown.
QuantBegin(t) ==
  /\ th[t].pc = "quant"
  /\ \/ /\ quantized
        /\ th' = [th EXCEPT ![t].pc = "codes", ![t].offset = Len(quant_data_)]
        /\ UNCHANGED failures
     \/ quantized /\ Go(t, "norms") /\ Fail
     \/ ~quantized /\ Go(t, "norms") /\ UNCHANGED failures
  /\ UNCHANGED <<config, refiner, base_index_, calls, rows, returned, overlapped, trainFailed, lockVars>>

QuantAdd(t) ==
  /\ th[t].pc = "codes"
  /\ quant_data_' = IF th[t].offset = Len(quant_data_) THEN Append(quant_data_, Row(t))
                    ELSE Append([quant_data_ EXCEPT ![th[t].offset + 1] = Row(t)], Garbage)
  /\ Go(t, "norms")
  /\ UNCHANGED <<config, ntotal_, norms_, base_index_, history, lockVars>>

\* Mutant of AppendNorms: inserted at the front.
AppendNormsAtFront(t) ==
  /\ th[t].pc = "norms"
  /\ norms_' = IF is_cosine_ THEN <<Row(t)>> \o norms_ ELSE norms_
  /\ Go(t, "count")
  /\ UNCHANGED <<config, ntotal_, quant_data_, base_index_, history, lockVars>>

\* The norms, under norms_mutex_.  The insertion may throw; the call of Add then
\* ends, and the base index does not get the block.
AppendNorms(t) ==
  /\ th[t].pc = "norms"
  /\ \/ /\ norms_' = IF is_cosine_ THEN Append(norms_, Row(t)) ELSE norms_
        /\ Go(t, "count")
        /\ UNCHANGED failures
     \/ is_cosine_ /\ Fail /\ th' = [th EXCEPT ![t] = Idle] /\ UNCHANGED norms_
  /\ UNCHANGED <<config, ntotal_, quant_data_, base_index_, calls, rows, returned, overlapped,
                 trainFailed, lockVars>>

\* Mutant of LockBase: the base index gets the block before the refiner has counted it.
LockBaseEarly(t) ==
  /\ th[t].pc = "count"
  /\ BaseLock!LockWrite(t)
  /\ Go(t, "base")
  /\ UNCHANGED <<config, refiner, base_index_, history>>

CountRows(t) ==
  /\ th[t].pc = "count"
  /\ ntotal_' = ntotal_ + 1
  /\ Go(t, "lock")
  /\ UNCHANGED <<config, norms_, quant_data_, base_index_, history, lockVars>>

\* FairWriteLockGuard and base_index_->Add, which may fail.
LockBase(t) ==
  /\ th[t].pc = "lock"
  /\ BaseLock!LockWrite(t)
  /\ Go(t, "base")
  /\ UNCHANGED <<config, refiner, base_index_, history>>

\* Mutant of BaseAdd: add_stat is not looked at.
BaseAddUnchecked(t) ==
  /\ th[t].pc = "base" /\ lockPc[t] = "writing"
  /\ \/ base_index_' = Append(base_index_, Row(t)) /\ UNCHANGED failures
     \/ Fail /\ UNCHANGED base_index_
  /\ Go(t, "added")
  /\ UNCHANGED <<config, refiner, calls, rows, returned, overlapped, trainFailed, lockVars>>

BaseAdd(t) ==
  /\ th[t].pc = "base" /\ lockPc[t] = "writing"
  /\ \/ base_index_' = Append(base_index_, Row(t)) /\ Go(t, "added") /\ UNCHANGED failures
     \/ Fail /\ Go(t, "refused") /\ UNCHANGED base_index_
  /\ UNCHANGED <<config, refiner, calls, rows, returned, overlapped, trainFailed, lockVars>>

\* Mutant of UnlockBase: a failed Add returns with the lock taken.
UnlockBaseOnSuccess(t) ==
  /\ th[t].pc \in {"added", "refused"}
  /\ IF th[t].pc = "added" THEN BaseLock!UnLockWrite(t) ELSE UNCHANGED lockVars
  /\ LET last == th[t].block = th[t].blocks
     IN th' = [th EXCEPT ![t] = IF th[t].pc = "refused" \/ last THEN Idle
                                ELSE [@ EXCEPT !.pc = "quant", !.block = @ + 1, !.offset = 0]]
  /\ UNCHANGED <<config, refiner, base_index_, history>>

\* The guard is left: the next block, or the return.
UnlockBase(t) ==
  /\ th[t].pc \in {"added", "refused"}
  /\ BaseLock!UnLockWrite(t)
  /\ LET last == th[t].block = th[t].blocks
         all == {<<th[t].call, b>> : b \in 1..th[t].blocks}
     IN /\ th' = [th EXCEPT ![t] = IF th[t].pc = "refused" \/ last THEN Idle
                                   ELSE [@ EXCEPT !.pc = "quant", !.block = @ + 1, !.offset = 0]]
        /\ returned' = IF th[t].pc = "added" /\ last THEN returned \cup all ELSE returned
  /\ UNCHANGED <<config, refiner, base_index_, calls, rows, overlapped, failures, trainFailed>>

-----------------------------------------------------------------------------
\* Search and AnnIterator: the base index under FairReadLockGuard.
BeginRead(t) ==
  /\ th[t].pc = "idle" /\ trains > 0 /\ calls < MaxCalls
  /\ BaseLock!LockRead(t)
  /\ th' = [th EXCEPT ![t] = [Idle EXCEPT !.pc = "read", !.promised = returned]]
  /\ calls' = calls + 1
  /\ UNCHANGED <<config, refiner, base_index_, rows, returned, overlapped, failures, trainFailed>>

\* base_index_->Search: ids of the rows the base index has, or an error.
BaseSearch(t) ==
  /\ th[t].pc = "read" /\ lockPc[t] = "reading"
  /\ BaseLock!UnLockRead(t)
  /\ \/ th' = [th EXCEPT ![t].pc = "refine", ![t].ids = 0..(Len(base_index_) - 1)]
     \/ th' = [th EXCEPT ![t] = Idle]
  /\ UNCHANGED <<config, refiner, base_index_, history>>

\* SearchWithIds reads codes and norms of these ids.
Refine(t) ==
  /\ th[t].pc = "refine"
  /\ th' = [th EXCEPT ![t] = Idle]
  /\ UNCHANGED <<config, refiner, base_index_, history, lockVars>>

\* base_index_->AnnIterator: an iterator, or an error.
CreateIterator(t) ==
  /\ th[t].pc = "read" /\ lockPc[t] = "reading"
  /\ BaseLock!UnLockRead(t)
  /\ \/ Go(t, "iterate")
     \/ th' = [th EXCEPT ![t] = Idle]
  /\ UNCHANGED <<config, refiner, base_index_, history>>

\* Next and UpdateNext run without the lock: base_workspace_ may meet a row that a
\* concurrent Add is writing.  raw_distance then reads the refiner's row of the id.
IteratorNext(t) ==
  /\ th[t].pc = "iterate"
  /\ LET writing == \E u \in Adders : th[u].pc = "base" /\ lockPc[u] = "writing"
         seen == IF writing THEN Len(base_index_) + 1 ELSE Len(base_index_)
     IN th' = [th EXCEPT ![t].pc = "refine", ![t].ids = 0..(seen - 1), ![t].promised = {}]
  /\ UNCHANGED <<config, refiner, base_index_, history, lockVars>>

\* A thread that waits for base_index_lock_ is woken.
ResumeLock(t) ==
  /\ \/ t \in Adders /\ BaseLock!ResumeWrite(t)
     \/ t \in Readers /\ BaseLock!ResumeRead(t)
  /\ UNCHANGED <<config, refiner, base_index_, th, history>>

AddStep(t) == \/ QuantBegin(t) \/ QuantAdd(t) \/ AppendNorms(t) \/ CountRows(t) \/ LockBase(t)
              \/ BaseAdd(t) \/ UnlockBase(t)
ReadStep(t) == BaseSearch(t) \/ CreateIterator(t) \/ IteratorNext(t) \/ Refine(t)

RefinerNext ==
  \/ Train
  \/ \E t \in Adders : BeginAdd(t) \/ AddStep(t)
  \/ \E t \in Readers : BeginRead(t) \/ ReadStep(t)
  \/ \E t \in Threads : ResumeLock(t)

\* A call that has begun goes on; a notified thread gets the mutex of the lock.
RefinerFairness ==
  /\ \A t \in Adders : WF_refinerVars(AddStep(t))
  /\ \A t \in Readers : WF_refinerVars(ReadStep(t))
  /\ \A t \in Threads : WF_refinerVars(t \notin read_cv_ \cup write_cv_ /\ ResumeLock(t))

-----------------------------------------------------------------------------
\* Every id that a search or an iterator takes from the base index has its row in
\* the refiner, although the two are read under different locks and an iterator may
\* meet a row that is being added: SearchWithIds and GetDataNorm (whose test of the
\* size is off by one) do not read past the norms, and raw_distance does not throw
\* "the id of result larger than index rows count".  A failed Train breaks this (the
\* refiner is replaced, the base index is not); codes also need that no quantized Add
\* failed.
RefinedBeforeSearchable ==
  \A t \in Threads : th[t].pc = "refine" /\ ~trainFailed =>
    \A i \in th[t].ids :
      /\ i < ntotal_
      /\ is_cosine_ => i < Len(norms_)
      /\ quantized /\ failures = 0 => i < Len(quant_data_)

\* The norm and the codes of an id are those of the base index's row with this id, as
\* long as calls of Add neither overlapped nor failed: "support concurrent build and
\* search" holds for one builder.
RowsAligned ==
  ~overlapped /\ failures = 0 /\ ~trainFailed =>
    \A i \in DOMAIN base_index_ :
      /\ is_cosine_ => norms_[i] = base_index_[i]
      /\ quantized => quant_data_[i] = base_index_[i]

\* A search that begins after an Add has returned finds all its rows in the base
\* index, whatever is added or fails in between.
ReturnedRowsAreSearched ==
  \A t \in Readers : th[t].pc = "refine" =>
    \A row \in th[t].promised : \E i \in th[t].ids : base_index_[i + 1] = row

\* Every call returns, when no two calls of Add wait for the lock together.
CallsReturn ==
  [](Cardinality(BaseLock!PendingWriters) <= 1) =>
    \A t \in Threads : th[t].pc # "idle" ~> th[t].pc = "idle"
=============================================================================
