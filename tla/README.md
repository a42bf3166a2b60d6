# TLA+ models of the RVANNS artifact (Knowhere with MPMI and ROrder)

Models of the parts of the repository where correctness depends on the order
of events: the locks and queues that let searches run beside `Add`, the parallel
construction of an HNSW graph, the algorithms that reorder it, and the life of an
HNSW_SQ index whose rows are partitioned, reordered, saved and loaded. TLC checks
small instances; TLAPS proves the lock for any number of threads.

## The system

The repository is a vector search library (`src/src`, `src/include`) over a
modified faiss (`src/thirdparty/faiss`). A user builds an index node, searches
it, saves and loads it; some nodes also accept `Add` while searches run.

| Part | Code | Model | Status |
| --- | --- | --- | --- |
| Fair read-write lock | `include/knowhere/comp/rw_lock.h` | `FairRWLock`, `RWLock` | modelled, proved |
| Concurrent sparse index | `src/index/sparse/sparse_index_node.cc` | `SparseIndexNodeCC` | modelled |
| HNSW_SQ node: partitions, embedding lists, layout, save and load | `src/index/hnsw/faiss_hnsw.cc`, `include/knowhere/index/index_node.h` | `HnswSqNode`, `LogicalIndex` | partly |
| Storage and graph permutation | `thirdparty/faiss/faiss/IndexHNSW.cpp` | operators of `HnswSqNode`, `HnswLayout` | partly |
| Filters | `include/knowhere/bitsetview.h` | operators of `HnswSqNode` | partly |
| Deferred iterators | `include/knowhere/index/index_node.h` | actions of `SparseIndexNodeCC` | partly |
| BFS, RCM, RabbitOrder, GOrder with UnitHeap | `thirdparty/faiss/faiss/IndexHNSW.cpp` | `HnswLayout` with `TraversalLayouts`, `RabbitLayout`, `GorderLayout`, `UnitHeap`, `LayoutGraph` | modelled |
| Concurrent HNSW insertion | `IndexHNSW.cpp`, `impl/HNSW.cpp` | `HnswInsert` | modelled |
| Data-view refiner | `src/index/data_view_dense_index` | `DataViewRefiner` over `FairRWLock` | modelled |
| BlockingQueue, GPUResMgr | `comp/blocking_queue.h`, `gpu_res_mgr.h` | `BlockingQueue`, `GpuResMgr` | partly |
| DiskANN and AISAQ preparation | `src/index/diskann` | | not modelled yet |
| BuildAsync and Interrupt | `src/index/index.cc`, `interrupt.cc` | | not modelled yet |
| MPMI quantizer | `impl/ScalarQuantizer.cpp` | | not modelled yet |
| IVF, Flat, MinHash, hnswlib, GPU nodes, SIMD kernels, configuration | various | | not modelled: numeric kernels, device code or plain containers |

## Modules and their correspondence to the code

**FairRWLock.** One step is one critical section of `mtx_`, from getting the
mutex to the return or the next sleep. The variables are the members of the
same names, the sleepers of each condition variable, and each thread's place
and request number. `notify_one` removes any one sleeper. A thread may wake
spuriously. **RWLock** is the abstract lock: readers, or one writer.

**SparseIndexNodeCC.** One step is one critical section of `mutex_` or a stretch
between two of them. `Add` holds `mutex_` from the end of its wait to its
unlock, and notifies afterwards, in a step of its own. `RangeSearch` keeps its
permission while the inherited code calls `AnnIterator`. An iterator is created
under a permission and read later without one. `Train` runs alone, as the class
comment asks. A batch given to `Add` is one row named by its task number. The `Add` of
the base class may fail on any index, and `raw_data_` grows all the same; `rows` are the
rows the index counts, and what a failed call left in its posting lists is not shown.

**HnswSqNode.** The node is a record with the members of the class. Operations
are functions from a node to the set of its outcomes, since they call each other
and each may fail: every early return, and an exception at each place where the
code catches one. Public calls are the actions. Graph construction is a constant
(`Wirings`): what matters here is that a layout moves it as a whole. A layout may
return any permutation, so the properties do not depend on the method.
`ready` and `promised` record whether the last calls succeeded and whether the
calls were ones the class makes a promise for; `torn` records that a load in the mv
format (several indexes, or one with labels) failed half way. Such a load overwrites
the node as it reads: each label vector, `index_rows_sum`, `label_to_internal_offset`,
then one index after the other, and the model has a failure at each read, also in the
middle of a vector. **LogicalIndex** is the abstract
index: rows in the order they were given, and what a saved copy contains.

**HnswLayout.** `reorder_graph_after_build`: one of the four generators, then
`permute_entries`, then for "rorder" the sorting of the neighbour lists. `work` holds
the local variables of the pass. A generator's step is one round of its main loop:
a vertex taken from a queue (**TraversalLayouts**), a community considered for a merge
(**RabbitLayout**), a vertex extracted from the heap (**GorderLayout**). **UnitHeap**
has the linked list, the bucket headers and the deferred updates of the code.
**LayoutGraph** has the level-0 graph and its undirected form. This run checks, on its
instance, what `HnswSqNode` assumes: a layout returns a permutation.

**HnswInsert.** `IndexHNSW::add` and the parallel region of `hnsw_add_vertices`. A step
reads or writes one neighbour list, or takes or releases a lock. Lists are read
without a lock, so that a list under rewriting is read as any mix of old and new
slots. The test of `max_level` and the writes of `max_level` and `entry_point` are three steps. Any thread may get any
point of a group, and an interrupt may come after each point. Distances are
pairwise different, and `keep_max_size_level0` is off, its default. A thread that reads
the list of a vertex at a level it does not have is recorded in `strayed` and not
followed.

**DataViewRefiner.** `Train`, `Add`, `Search`, `AnnIterator` and the iterators, over an
instance of `FairRWLock`, not of the abstract lock. A block of `Add` is one row. Codes,
norms, row counter and base index are separate steps, since different locks, or none,
protect them. The base index is external: a list of rows, whose `Add`, `Search`,
`AnnIterator` and `Train` may fail. The quantized `Add` and the insertion of the norms may
fail too; the first error is swallowed, the second ends the call. `Train` runs alone.

**GpuResMgr** over **BlockingQueue.** A step is one critical section, or one access to
`init_`. A builder takes a resource, works in a `ResScope` and puts it back; a search
locks the weak pointer its node kept. What keeps a resource alive is the queue and the
threads that hold it. A CUDA error in the loop of `Init` ends the process (`CUDA_VERIFY`);
an exception there could only be exhausted memory, which is not modelled.

## Runs

| Run | Instance | Shows |
| --- | --- | --- |
| `rwlock` | 2 readers, 2 writers, 6 requests, fair | exclusion, queue order, no overtaken writer, no forgotten reader, the abstract lock, service when writers do not wait together |
| `rwlock_stranded` | 1 reader, 2 writers, 5 requests, fair | **violation**: two waiting writers, `notify_one` wakes the wrong one, nobody is served |
| `sparse_cc` | 2 adders, a searcher, an iterator user, a range searcher, 5 tasks, any calls of `Train`, failing `Add`s, fair | counters, exclusion, task order, no lost wakeup, every row of the index in the raw data, the abstract lock, service |
| `sparse_cc_range` | an adder, a range searcher, 4 tasks, fair | **violation**: nested permission and an `Add` in between deadlock |
| `sparse_cc_iterator` | an adder, an iterator user, 4 tasks | **violation**: an iterator reads while `Add` writes |
| `sparse_cc_rawdata` | an adder, a searcher, any calls of `Train` | **violation**: raw rows and ids drift apart after a failed `Add` or a second `Train` |
| `hnsw_sq` | four datasets of 1 to 4 rows, 3 calls that may change the node, any calls of `Serialize` | id maps, labels, filtered search, graph after layout, the abstract index |
| `layout` | small graphs, all methods, window 2, 2 calls, fair | UnitHeap's structure, GOrder's scores, RabbitOrder's communities, the order of BFS and RCM, every layout a permutation that keeps the edges, termination |
| `hnsw_insert` | 2 threads, 2 batches of 2 points, 2 levels, 2 metrics, interrupts, fair | well-formed lists, no point visible before it is linked, connectivity, the entry point, when levels are in range, termination |
| `serving` | refiner: 2 adders, a reader, 2 rows, 3 calls, 2 calls of `Train`, a failure; pool: 2 builders, `Free`, 1 to 3 resources for 2 places; fair | every searched id is in the refiner, rows aligned, returned rows found, calls return; resources not shared or lost, the pool serves |
| `hnsw_sq_add` | as `hnsw_sq` | **violation**: `Add` to a partitioned index leaves rows without ids |
| `hnsw_sq_count` | as `hnsw_sq` | **violation**: filtered count of the wrong partition |

Each violation is listed with the line of documentation it contradicts under
`findings` in `PROJECT.json`.

### Where the guarantees end

Some properties have a precondition because the code does not give more. In each of
these cases TLC reaches the bad state when the precondition is dropped:

- `RowsAligned` is for calls of `Add` that neither overlap nor fail. Overlapping calls
  append codes, norms and base rows in different orders. An exception of the quantized
  `Add` is not thrown, so that later codes are shifted, and ids can lie past the codes.
- `RefinedBeforeSearchable` is not for an index whose last `Train` failed: its refiner
  is new and its base index is not.
- `RawDataCoversIndex` says that each row of the index is in `raw_data_` and in which
  order, not where: rows of failed `Add`s and of earlier indexes lie in between
  (`sparse_cc_rawdata`).
- `IdMapsAgree` is not for a node whose last load failed half way in the mv format: its
  old indexes still answer calls, with parts of the new maps. Nothing is promised about
  such a node; the property says that no other failure has this effect and that the
  next `Build`, `Train` or load ends it.
- `CallsReturn` is for at most one writer waiting at a time; with two, the lock can
  strand both (`rwlock_stranded`).
- `PoolKept` and `PoolServes` are for a `Free` that runs alone and after the last search,
  as its comment asks. Otherwise `init_` can stay set over an empty pool, there can be
  too many resources, and a search can meet a dead weak pointer. `PoolServes` also needs
  the resources to fit into the queue: above that, `Init` waits with `init_mutex_` held.
- `LevelsInRange` says when a thread may combine an old entry point with a new
  `max_level`: only in a call that adds points above the top level of a non-empty graph.
  There it does happen. The code runs a group in parallel from 101 points on.
- `Connected` is for graphs in which no list was full, since a full list drops links.

### Bounds

- `MaxRequests`, `MaxTasks`: the numbers only order requests. In `rwlock` all four
  threads can ask and two requests are left for threads that ask again. In
  `sparse_cc` there are as many tasks as threads, shared among them in every way,
  and a `RangeSearch` may use two. No thread is kept waiting by the bound: it only
  stops new calls, and a `RangeSearch` without a number left returns early. Two writers and two readers are the least that show both
  kinds of waiting and a wrong `notify_one`.
- `BaseRows` is 2 instead of 128, so that four rows make two partitions and three
  rows with two values make one.
- `layout`: all graphs of three vertices with lists in any order ("bfs", "rorder"), the
  digraphs of four vertices with at most 3, 2, 1 and 1 links ("gorder"), all undirected
  graphs of five vertices ("rcm", "rabbitorder"). `HugeVertices` are the values
  `hugevertex` may have, 2 and 3, so that one vertex may exceed it; the code takes the
  square root of the size. `Window` is 2 instead of 5, so that vertices leave it.
- `hnsw_insert`: lists have 2 slots at level 0 and 1 above, so that they fill up and are
  rewritten. The second batch meets a graph, complete or interrupted.
- `serving`: the refiner has norms and codes, or neither. Two adders with one row each,
  or one with two, and a reader. `Capacity` is 2 instead of 32, and `ResNums` lies below,
  at and above it.
- In `hnsw_sq`, `MaxCalls` is 3, and `Serialize` is not counted: build, save, load and one
  more call, or build, save, build again, load half way and save again. `MaxRows` is 4.
- Deadlock checking is off: bounded requests and calls run out. Blocking inside a
  call is what the liveness properties and `LeastTaskAdmitted` are about.

### Fairness

A notified thread eventually gets the mutex and tests its predicate; a holder
eventually releases (its guard is a scoped object and its work finite). These are
weak fairness of the resume and release steps. Nobody is obliged to start a call,
and a sleeper that was not notified is not obliged to wake up: the standard allows
spurious wakeups and does not promise them. The same holds for the sleepers of
`BlockingQueue`. A layout is one thread that keeps running; in `hnsw_insert` every thread
of the parallel region keeps running. All of it is weak fairness.

## Proofs

`FairRWLockProofs` proves, for any finite set of threads and any bound on the
requests: type correctness, exclusion, the order of the queue, that readers are
not forgotten, that no writer is overtaken, and that the lock implements `RWLock`.

The inductive invariant is the conjunction of the four invariants. None is
inductive alone: exclusion needs `readers_` and `writer_` to agree with the
holders; `UnLockWrite` pops the head of the queue, which is the caller's own
request only because the writer is the head; and that in turn needs the queue to be
increasing and the numbers unique. Each action has a lemma; `AwaitReadKeeps` and
`AwaitWriteKeeps` treat a predicate test once for the first and the later ones.
Overtaking follows from the head being the least number in the queue. The
assumptions are that the set of threads is finite and the bound a natural number.

`SparseIndexNodeCCProofs` proves, for any finite sets of threads and any bound on the
tasks: type correctness, the counters, exclusion, no missed wakeup, that the least
waiting task may run, the order of the tasks, that `raw_data_` has the rows of the
index, and that the protocol implements `RWLock`.

The inductive invariant `IInv` adds `TasksNumbered` and `SleepersWait` to the
invariants the run checks. The predicate of `Add` compares its number with
`current_task_id_`, which is a count of finished tasks and not a number; that the
count means "all before it are done" needs three facts that `TasksNumbered` states:
numbers of pending tasks are distinct, `add_tasks_` is increasing and has exactly the
pending `Add`s, and every number from an entry of `add_tasks_` up to the next number
to be given still has its thread. `MoveCounts` gives the change of the five
cardinalities when one thread changes its place; `CountersKept` and `WakeupsKept`
carry the counters and the wakeups over any such step. `RawData` extends the place of
each row by the new one, or leaves it when the base `Add` fails. The assumptions are
that the set of threads is finite, the bound a natural number and the metric known.

Only model-checked: liveness (out of the prover's reach), everything about
`HnswSqNode`, `HnswLayout`, `HnswInsert`, `DataViewRefiner` and `GpuResMgr`.

## Not modelled

- DiskANN and AISAQ, BuildAsync and Interrupt: possible, and in the plan.
- MPMI: the choice of dimensions, their bitmaps and the row format are discrete and in
  the plan; errors and encoding are floating point, which TLC does not have.
- Search on the graph, distances, `RangeSearch` of the refiner: they change no state.
- `SetCapacity`, `Front` and `Back` of `BlockingQueue` have no caller.
- The memory level: `ConcurrentArrayInvertedLists` grows its segments while others read
  them; the models see lists as values.
- Nodes listed as such in the table: numeric kernels, device code, plain containers.

## Plan

1. Proofs for `DataViewRefiner` (`RefinedBeforeSearchable`: the row counter and the norms
   are never behind the base index) and `GpuResMgr` (`PoolKept`).
2. Proofs for the layouts: the placed vertices are distinct and, at the end, all.
3. DiskANN preparation, BuildAsync, the discrete part of MPMI.
