------------------------------ MODULE GpuResMgr ------------------------------
(***************************************************************************)
(* The pool of GPU resources: GPUResMgr and ResScope of                    *)
(* src/index/gpu/gpu_res_mgr.h over a BlockingQueue.  A builder takes a    *)
(* resource, works under its mutex and puts it back; its index node keeps  *)
(* a weak pointer, through which a search later locks the same resource.   *)
(* One step is one critical section, or a read or write of init_, which is *)
(* read outside init_mutex_.                                               *)
(***************************************************************************)
EXTENDS BlockingQueue, Integers, FiniteSets

CONSTANTS
  Builders,    \* threads that build an index node and search it
  Main,        \* the thread that calls Free
  ResNums,     \* values of gpu_params_.res_num_
  MaxBuilds, MaxSearches, MaxFrees   \* bounds on the calls

VARIABLES
  res_num_, init_,
  init_mutex_,       \* who holds it
  made,              \* resources made so far: they are 1..made
  mutex_,            \* who holds the mutex of a resource
  worker,            \* what each thread does: place, loop counter, resource
  weak,              \* the res_ of the node that a builder has built
  builds, searches, frees,
  misused            \* Free ran beside another call, or a search after Free

poolVars == <<res_num_, init_, init_mutex_, made, mutex_, worker, weak, builds, searches, frees,
              misused, queueVars>>

Nobody == 0
Resting == [pc |-> "idle", i |-> 0, res |-> 0]
Everybody == Builders \cup {Main}

PoolInit ==
  /\ QueueInit
  /\ res_num_ \in ResNums /\ init_ = FALSE /\ init_mutex_ = Nobody
  /\ made = 0 /\ mutex_ = <<>>
  /\ worker = [t \in Everybody |-> Resting]
  /\ weak = [t \in Builders |-> 0]
  /\ builds = 0 /\ searches = 0 /\ frees = 0 /\ misused = FALSE

At(t, pc) == worker[t].pc = pc
To(t, pc) == worker' = [worker EXCEPT ![t].pc = pc]
Busy(t) == worker[t].pc # "idle"

-----------------------------------------------------------------------------
\* GetRes, and the first test of Init.
GetRes(t) ==
  /\ At(t, "idle") /\ builds < MaxBuilds
  /\ To(t, IF init_ THEN "take" ELSE "init")
  /\ builds' = builds + 1
  /\ misused' = (misused \/ Busy(Main))
  /\ UNCHANGED <<res_num_, init_, init_mutex_, made, mutex_, weak, searches, frees, queueVars>>

\* Mutant of InitLock: no second test.
InitLockUnchecked(t) ==
  /\ At(t, "init") /\ init_mutex_ = Nobody
  /\ init_mutex_' = t /\ worker' = [worker EXCEPT ![t].pc = "fill", ![t].i = 0]
  /\ UNCHANGED <<res_num_, init_, made, mutex_, weak, builds, searches, frees, misused, queueVars>>

\* init_mutex_ and the second test.
InitLock(t) ==
  /\ At(t, "init") /\ init_mutex_ = Nobody
  /\ IF init_ THEN To(t, "take") /\ UNCHANGED init_mutex_
     ELSE init_mutex_' = t /\ worker' = [worker EXCEPT ![t].pc = "fill", ![t].i = 0]
  /\ UNCHANGED <<res_num_, init_, made, mutex_, weak, builds, searches, frees, misused, queueVars>>

\* The loop of Init: a new resource is put into the queue.  A CUDA error on the way
\* ends the process.
InitPut(t) ==
  /\ At(t, "fill") /\ worker[t].i < res_num_
  /\ \/ /\ Put(t, made + 1)
        /\ made' = made + 1 /\ mutex_' = Append(mutex_, Nobody)
        /\ worker' = [worker EXCEPT ![t].i = @ + 1]
     \/ PutWaits(t) /\ UNCHANGED <<made, mutex_, worker>>
  /\ UNCHANGED <<res_num_, init_, init_mutex_, weak, builds, searches, frees, misused>>

InitDone(t) ==
  /\ At(t, "fill") /\ worker[t].i = res_num_
  /\ init_' = TRUE /\ init_mutex_' = Nobody
  /\ worker' = [worker EXCEPT ![t].pc = "take", ![t].i = 0]
  /\ UNCHANGED <<res_num_, made, mutex_, weak, builds, searches, frees, misused, queueVars>>

TakeRes(t) ==
  /\ At(t, "take")
  /\ \/ Take(t) /\ worker' = [worker EXCEPT ![t].pc = "scope", ![t].res = Head(queue_)]
     \/ TakeWaits(t) /\ UNCHANGED worker
  /\ UNCHANGED <<res_num_, init_, init_mutex_, made, mutex_, weak, builds, searches, frees,
                 misused>>

\* ResScope(gpu_res, true)
EnterScope(t) ==
  /\ At(t, "scope") /\ mutex_[worker[t].res] = Nobody
  /\ mutex_' = [mutex_ EXCEPT ![worker[t].res] = t]
  /\ To(t, "build")
  /\ UNCHANGED <<res_num_, init_, init_mutex_, made, weak, builds, searches, frees, misused,
                 queueVars>>

\* The node is built and remembers the resource; or the build throws.
Build(t) ==
  /\ At(t, "build")
  /\ weak' \in {weak, [weak EXCEPT ![t] = worker[t].res]}
  /\ To(t, "renew")
  /\ UNCHANGED <<res_num_, init_, init_mutex_, made, mutex_, builds, searches, frees, misused,
                 queueVars>>

\* ~ResScope: the resource is put back before its mutex is unlocked.
PutRes(t) ==
  /\ At(t, "renew")
  /\ \/ Put(t, worker[t].res) /\ To(t, "unlock")
     \/ PutWaits(t) /\ UNCHANGED worker
  /\ UNCHANGED <<res_num_, init_, init_mutex_, made, mutex_, weak, builds, searches, frees,
                 misused>>

LeaveScope(t) ==
  /\ At(t, "unlock")
  /\ mutex_' = [mutex_ EXCEPT ![worker[t].res] = Nobody]
  /\ worker' = [worker EXCEPT ![t] = Resting]
  /\ UNCHANGED <<res_num_, init_, init_mutex_, made, weak, builds, searches, frees, misused,
                 queueVars>>

\* ResScope(res_, false): the weak pointer is locked.  What keeps a resource alive is
\* the queue and the threads that hold it; a search of a dead one is not followed.
Alive(r) == (\E i \in DOMAIN queue_ : queue_[i] = r) \/ \E t \in Everybody : worker[t].res = r

Search(t) ==
  /\ At(t, "idle") /\ weak[t] # 0 /\ searches < MaxSearches
  /\ worker' = [worker EXCEPT ![t].pc = IF Alive(weak[t]) THEN "share" ELSE "dangling",
                              ![t].res = IF Alive(weak[t]) THEN weak[t] ELSE 0]
  /\ searches' = searches + 1
  /\ misused' = (misused \/ frees > 0)
  /\ UNCHANGED <<res_num_, init_, init_mutex_, made, mutex_, weak, builds, frees, queueVars>>

EnterSearch(t) ==
  /\ At(t, "share") /\ mutex_[worker[t].res] = Nobody
  /\ mutex_' = [mutex_ EXCEPT ![worker[t].res] = t]
  /\ To(t, "unlock")
  /\ UNCHANGED <<res_num_, init_, init_mutex_, made, weak, builds, searches, frees, misused,
                 queueVars>>

\* Free: "should be invoked before main return".
Free ==
  /\ At(Main, "idle") /\ frees < MaxFrees
  /\ To(Main, "check") /\ frees' = frees + 1
  /\ misused' = (misused \/ \E t \in Builders : Busy(t))
  /\ UNCHANGED <<res_num_, init_, init_mutex_, made, mutex_, weak, builds, searches, queueVars>>

FreeCheck ==
  /\ At(Main, "check")
  /\ IF queue_ # <<>> THEN To(Main, "drain") /\ UNCHANGED init_
     ELSE To(Main, "idle") /\ init_' = FALSE
  /\ UNCHANGED <<res_num_, init_mutex_, made, mutex_, weak, builds, searches, frees, misused,
                 queueVars>>

FreeTake ==
  /\ At(Main, "drain")
  /\ \/ Take(Main) /\ To(Main, "check")
     \/ TakeWaits(Main) /\ UNCHANGED worker
  /\ UNCHANGED <<res_num_, init_, init_mutex_, made, mutex_, weak, builds, searches, frees,
                 misused>>

BuilderStep(t) == \/ InitLock(t) \/ InitPut(t) \/ InitDone(t) \/ TakeRes(t) \/ EnterScope(t)
                  \/ Build(t) \/ PutRes(t) \/ LeaveScope(t) \/ EnterSearch(t)
MainStep == FreeCheck \/ FreeTake

PoolNext ==
  \/ \E t \in Builders : GetRes(t) \/ BuilderStep(t) \/ Search(t)
  \/ Free \/ MainStep

Awake(t) == t \notin full_ \cup empty_

\* A call that has begun goes on, unless it sleeps and nobody has notified it.
PoolFairness ==
  /\ \A t \in Builders : WF_poolVars(Awake(t) /\ BuilderStep(t))
  /\ WF_poolVars(Awake(Main) /\ MainStep)

-----------------------------------------------------------------------------
\* The pool never has more than res_num_ resources although init_ is tested without
\* the mutex, a resource is in the queue at most once, nobody else has it between
\* GetRes and PutRes, and the resource of a node is still there when it is searched,
\* unless Free runs beside another call or a search comes after it.
PoolKept ==
  ~misused =>
    LET taken == {t \in Builders : worker[t].pc \in {"scope", "build", "renew"}}
    IN /\ Cardinality({r \in 1..made : Alive(r)}) <= res_num_
       /\ \A i, j \in DOMAIN queue_ : i # j => queue_[i] # queue_[j]
       /\ \A t \in taken : \A i \in DOMAIN queue_ : queue_[i] # worker[t].res
       /\ \A t, u \in taken : t # u => worker[t].res # worker[u].res
       /\ \A t \in Builders : ~At(t, "dangling")

\* Every call of GetRes, Free or a search returns, if the resources fit into the queue
\* and Free is called alone: Init holds init_mutex_ while it waits for space, and a
\* Free beside Init can leave init_ set and the queue empty.
PoolServes ==
  \A t \in Everybody :
    [](Busy(t) => <>(~Busy(t) \/ misused \/ res_num_ > Capacity))
=============================================================================
