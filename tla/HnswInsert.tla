----------------------------- MODULE HnswInsert -----------------------------
(***************************************************************************)
(* Insertion into an HNSW graph by several threads: hnsw_add_vertices in   *)
(* thirdparty/faiss/faiss/IndexHNSW.cpp and add_with_locks,                *)
(* add_links_starting_from, search_neighbors_to_add, add_link and          *)
(* shrink_neighbor_list in thirdparty/faiss/faiss/impl/HNSW.cpp.           *)
(*                                                                         *)
(* One step reads or writes the neighbour list of one vertex, or takes or  *)
(* releases a lock.  Lists are read without a lock: a list that is being   *)
(* rewritten is read as any mix of its old and new slots.  Points are      *)
(* numbered from 1 in the order they are added; -1 is no point.            *)
(***************************************************************************)
EXTENDS Integers, Sequences, FiniteSets, SequencesExt

CONSTANTS
  Threads,      \* the threads of the parallel region
  Batches,      \* sequence of numbers of rows: the calls of add, in this order
  Metrics,      \* distances: functions from pairs of points to numbers, symmetric,
                \* and different for different pairs
  MaxLevel,     \* bound on the level of a point
  NbNeighbors,  \* function: nb_neighbors(level), the slots of a list
  EfConstruction,
  Interrupts    \* whether an InterruptCallback is installed

Points == 1..(LET Sum[i \in 0..Len(Batches)] == IF i = 0 THEN 0 ELSE Sum[i - 1] + Batches[i]
              IN Sum[Len(Batches)])
Levels == 0..MaxLevel
None == -1

ASSUME InsertConstants ==
  /\ MaxLevel \in Nat /\ Interrupts \in BOOLEAN
  /\ \A l \in Levels : NbNeighbors[l] \in Nat \ {0}
  /\ EfConstruction \in Nat \ {0}
  /\ \A m \in Metrics : \A a, b, c, d \in Points :
       m[a, b] = m[c, d] /\ a # b /\ c # d => {a, b} = {c, d}

VARIABLES
  metric,
  ntotal, levels,      \* levels[p]: the top level of p, counted from 0
  neighbors,           \* neighbors[p][l]: the list of p at level l, without the -1s
  entry_point, max_level,
  locks,               \* the thread that holds the lock of a point
  call,                \* the call of add: which batch, the group of points being
                       \* inserted, those not taken yet, the flag interrupt
  th,                  \* the local variables of each thread
  inserted,            \* the points whose add_with_locks has returned
  dropped,             \* some list was full and "fought out which to keep"
  strayed              \* threads that read the list of a vertex at a level it does
                       \* not have: slots of another vertex.  They are not followed.

vars == <<metric, ntotal, levels, neighbors, entry_point, max_level, locks, call, th,
          inserted, dropped, strayed>>

Idle == [pc |-> "idle", pt |-> None, nearest |-> None, level |-> None, candidates |-> {},
         results |-> {}, visited |-> {}, targets |-> <<>>, list |-> <<>>]

Returned == "returned"
Interrupted == "interrupted"

Init ==
  /\ metric \in Metrics
  /\ ntotal = 0 /\ levels = <<>> /\ neighbors = <<>>
  /\ entry_point = None /\ max_level = -1
  /\ locks = <<>>
  /\ call = [status |-> Returned, batch |-> 0, group |-> -1, pending |-> {},
             interrupt |-> FALSE, raises |-> FALSE]
  /\ th = [t \in Threads |-> Idle]
  /\ inserted = {} /\ dropped = FALSE /\ strayed = {}

-----------------------------------------------------------------------------
Nearest(p, S) == CHOOSE a \in S : \A b \in S : metric[p, a] <= metric[p, b]
Farthest(p, S) == CHOOSE a \in S : \A b \in S : metric[p, a] >= metric[p, b]

\* The vertices of S, farthest first: the order a priority_queue<NodeDistCloser>
\* is emptied in.
FarthestFirst(p, S) ==
  [i \in 1..Cardinality(S) |->
     CHOOSE a \in S : Cardinality({b \in S : metric[p, b] > metric[p, a]}) = i - 1]

\* HNSW::shrink_neighbor_list: from near to far, a vertex is kept when no vertex
\* kept before is closer to it than p is, until there are size of them.
Shrunk(p, S, size) ==
  LET Keep(kept, a) ==
        IF Cardinality(kept) < size /\ \A b \in kept : metric[a, b] >= metric[p, a]
        THEN kept \cup {a} ELSE kept
  IN FoldLeft(Keep, {}, Reverse(FarthestFirst(p, S)))

\* The lists an unsynchronized reader may see at v: the list, or a mix of its old
\* and new slots while another thread rewrites it, up to the first empty slot.
Slots(list, l) == [i \in 1..NbNeighbors[l] |-> IF i <= Len(list) THEN list[i] ELSE None]

Cut(slots) ==
  LET full == {i \in 0..Len(slots) : \A j \in 1..i : slots[j] # None}
  IN SubSeq(slots, 1, CHOOSE i \in full : \A j \in full : j <= i)

Rewriters(v, l) ==
  {t \in Threads : th[t].pc = "rewrite" /\ Head(th[t].targets) = v /\ th[t].level = l}

Seen(v, l) ==
  IF Rewriters(v, l) = {} THEN {neighbors[v][l]}
  ELSE LET t == CHOOSE t \in Rewriters(v, l) : TRUE
           old == Slots(neighbors[v][l], l)
           new == Slots(th[t].list, l)
       IN {Cut([i \in DOMAIN old |-> IF i \in S THEN new[i] ELSE old[i]]) : S \in SUBSET DOMAIN old}

-----------------------------------------------------------------------------
\* prepare_level_tab: the level table and the neighbour lists grow by the batch.
LevelTable(new) ==
  [p \in 1..(ntotal + Cardinality(DOMAIN new)) |-> IF p <= ntotal THEN levels[p] ELSE new[p]]

EmptyLists(lv) ==
  [p \in DOMAIN lv |-> IF p <= ntotal THEN neighbors[p] ELSE [l \in 0..lv[p] |-> <<>>]]

\* The points of a batch with top level g.
Group(lv, pts, g) == {p \in pts : lv[p] = g}

\* IndexHNSW::add and the first part of hnsw_add_vertices: random levels for the
\* batch, new locks, and the highest group comes first.
Add ==
  /\ call.status # "running" /\ call.batch < Len(Batches)
  /\ LET batch == call.batch + 1
         pts == (ntotal + 1)..(ntotal + Batches[batch])
     IN \E new \in [pts -> Levels] :
          LET top == CHOOSE l \in Levels : (\E p \in pts : new[p] = l) /\ \A p \in pts : new[p] <= l
          IN /\ levels' = LevelTable(new)
             /\ ntotal' = ntotal + Batches[batch]
             /\ neighbors' = EmptyLists(LevelTable(new))
             /\ locks' = [p \in DOMAIN LevelTable(new) |-> None]
             /\ call' = [status |-> "running", batch |-> batch, group |-> top,
                         pending |-> Group(new, pts, top), interrupt |-> FALSE,
                         raises |-> ntotal > 0 /\ top > max_level]
  /\ UNCHANGED <<metric, entry_point, max_level, th, inserted, dropped, strayed>>

BatchPoints == (ntotal - Batches[call.batch] + 1)..ntotal

\* Mutant of NextGroup: no barrier between the groups.
NextGroupWithoutBarrier ==
  /\ call.status = "running" /\ call.pending = {}
  /\ call.group > 0 \/ \A t \in Threads : th[t] = Idle
  /\ call' = IF call.interrupt THEN [call EXCEPT !.status = Interrupted]
             ELSE IF call.group = 0 THEN [call EXCEPT !.status = Returned]
             ELSE [call EXCEPT !.group = @ - 1,
                               !.pending = Group(levels, BatchPoints, call.group - 1)]
  /\ UNCHANGED <<metric, ntotal, levels, neighbors, entry_point, max_level, locks, th,
                 inserted, dropped, strayed>>

\* The end of the parallel region: throw, go on with the next lower level, or
\* return.
NextGroup ==
  /\ call.status = "running" /\ call.pending = {} /\ \A t \in Threads : th[t] = Idle
  /\ call' = IF call.interrupt THEN [call EXCEPT !.status = Interrupted]
             ELSE IF call.group = 0 THEN [call EXCEPT !.status = Returned]
             ELSE [call EXCEPT !.group = @ - 1,
                               !.pending = Group(levels, BatchPoints, call.group - 1)]
  /\ UNCHANGED <<metric, ntotal, levels, neighbors, entry_point, max_level, locks, th,
                 inserted, dropped, strayed>>

\* The body of the loop over the group, which any thread may get any point of.
Skip(t) ==
  /\ th[t].pc = "idle" /\ call.interrupt
  /\ \E p \in call.pending : call' = [call EXCEPT !.pending = @ \ {p}]
  /\ UNCHANGED <<metric, ntotal, levels, neighbors, entry_point, max_level, locks, th,
                 inserted, dropped, strayed>>

\* Mutant of ReadEntry: max_level counts from 1, as the level table does.
ReadEntryOneBased(t) ==
  /\ th[t].pc = "idle" /\ ~call.interrupt
  /\ \E p \in call.pending :
       /\ call' = [call EXCEPT !.pending = @ \ {p}]
       /\ IF entry_point = None
          THEN /\ max_level' = levels[p] + 1 /\ entry_point' = p
               /\ th' = [th EXCEPT ![t] = [Idle EXCEPT !.pc = "done", !.pt = p]]
          ELSE /\ th' = [th EXCEPT ![t] = [Idle EXCEPT !.pc = "start", !.pt = p,
                                             !.nearest = entry_point]]
               /\ UNCHANGED <<max_level, entry_point>>
  /\ UNCHANGED <<metric, ntotal, levels, neighbors, locks, inserted, dropped, strayed>>

\* add_with_locks up to the end of its critical section.
ReadEntry(t) ==
  /\ th[t].pc = "idle" /\ ~call.interrupt
  /\ \E p \in call.pending :
       /\ call' = [call EXCEPT !.pending = @ \ {p}]
       /\ IF entry_point = None
          THEN /\ max_level' = levels[p] /\ entry_point' = p
               /\ th' = [th EXCEPT ![t] = [Idle EXCEPT !.pc = "done", !.pt = p]]
          ELSE /\ th' = [th EXCEPT ![t] = [Idle EXCEPT !.pc = "start", !.pt = p,
                                             !.nearest = entry_point]]
               /\ UNCHANGED <<max_level, entry_point>>
  /\ UNCHANGED <<metric, ntotal, levels, neighbors, locks, inserted, dropped, strayed>>

\* Mutant of Descend: no links at level 0.
DescendAboveBase(r, level) ==
  IF level > levels[r.pt] THEN [r EXCEPT !.pc = "greedy", !.level = level]
  ELSE IF level > 0
       THEN [r EXCEPT !.pc = "search", !.level = level, !.candidates = {r.nearest},
                      !.results = {r.nearest}, !.visited = {r.nearest}]
       ELSE [r EXCEPT !.pc = "finish", !.level = level]

\* Where a thread goes with level and nearest: down the greedy search, into the
\* search for links at this level, or out of the loop.
Descend(r, level) ==
  IF level > levels[r.pt] THEN [r EXCEPT !.pc = "greedy", !.level = level]
  ELSE IF level >= 0
       THEN [r EXCEPT !.pc = "search", !.level = level, !.candidates = {r.nearest},
                      !.results = {r.nearest}, !.visited = {r.nearest}]
       ELSE [r EXCEPT !.pc = "finish", !.level = level, !.candidates = {}, !.results = {},
                      !.visited = {}]

\* Take the own lock and read max_level, which is not in the critical section.
Start(t) ==
  /\ th[t].pc = "start" /\ locks[th[t].pt] = None
  /\ locks' = [locks EXCEPT ![th[t].pt] = t]
  /\ th' = [th EXCEPT ![t] = Descend(th[t], max_level)]
  /\ UNCHANGED <<metric, ntotal, levels, neighbors, entry_point, max_level, call, inserted,
                 dropped, strayed>>

HasLevel(v, l) == l <= levels[v]

Stray(t) ==
  /\ th[t].pc \in {"greedy", "search"} /\ t \notin strayed
  /\ ~HasLevel(th[t].nearest, th[t].level)
  /\ strayed' = strayed \cup {t}
  /\ UNCHANGED <<metric, ntotal, levels, neighbors, entry_point, max_level, locks, call, th,
                 inserted, dropped>>

\* One round of greedy_update_nearest.
Greedy(t) ==
  LET r == th[t]
  IN /\ r.pc = "greedy" /\ HasLevel(r.nearest, r.level)
     /\ \E seen \in Seen(r.nearest, r.level) :
          LET best == Nearest(r.pt, {r.nearest} \cup ToSet(seen))
          IN th' = [th EXCEPT ![t] = IF best # r.nearest THEN [r EXCEPT !.nearest = best]
                                     ELSE Descend(r, r.level - 1)]
     /\ UNCHANGED <<metric, ntotal, levels, neighbors, entry_point, max_level, locks, call,
                    inserted, dropped, strayed>>

\* The loop of search_neighbors_to_add goes on.
Exploring(r) ==
  /\ r.candidates # {}
  /\ LET c == Nearest(r.pt, r.candidates)
     IN metric[r.pt, c] <= metric[r.pt, Farthest(r.pt, r.results)]

\* update_with_candidate
Offer(r, a) ==
  IF a \in r.visited THEN r
  ELSE IF Cardinality(r.results) < EfConstruction
          \/ metric[r.pt, Farthest(r.pt, r.results)] > metric[r.pt, a]
  THEN LET more == r.results \cup {a}
       IN [r EXCEPT !.visited = @ \cup {a}, !.candidates = @ \cup {a},
             !.results = IF Cardinality(more) > EfConstruction
                         THEN more \ {Farthest(r.pt, more)} ELSE more]
  ELSE [r EXCEPT !.visited = @ \cup {a}]

Explore(t) ==
  LET r == th[t]
      c == Nearest(r.pt, r.candidates)
  IN /\ r.pc = "search" /\ HasLevel(r.nearest, r.level) /\ Exploring(r)
     /\ \E seen \in Seen(c, r.level) :
          th' = [th EXCEPT ![t] = FoldLeft(Offer, [r EXCEPT !.candidates = @ \ {c}], seen)]
     /\ UNCHANGED <<metric, ntotal, levels, neighbors, entry_point, max_level, locks, call,
                    inserted, dropped, strayed>>

\* Mutant of Full: one slot too many.
FullTooLate(v, l) == Len(neighbors[v][l]) > NbNeighbors[l]

\* add_link: append when the last slot is free, else keep a selection.
Full(v, l) == Len(neighbors[v][l]) = NbNeighbors[l]

WithLink(v, list, l, dest) ==
  IF Len(list) < NbNeighbors[l] THEN Append(list, dest)
  ELSE FarthestFirst(v, Shrunk(v, ToSet(list) \cup {dest}, NbNeighbors[l]))

\* Mutant of LinkOwn: the own lock stays taken.
LinkOwnKeepingLock(t) ==
  LET r == th[t]
      selected == IF Cardinality(r.results) < NbNeighbors[r.level] THEN r.results
                  ELSE Shrunk(r.pt, r.results, NbNeighbors[r.level])
      targets == FarthestFirst(r.pt, selected)
  IN /\ r.pc = "search" /\ HasLevel(r.nearest, r.level) /\ ~Exploring(r)
     /\ neighbors' = [neighbors EXCEPT ![r.pt][r.level] = targets]
     /\ th' = [th EXCEPT ![t] = [r EXCEPT !.pc = "others", !.targets = targets, !.candidates = {},
                                          !.results = {}, !.visited = {}]]
     /\ UNCHANGED <<metric, ntotal, levels, entry_point, max_level, locks, call, inserted,
                    dropped, strayed>>

\* The rest of add_links_starting_from up to omp_unset_lock: select the targets,
\* write the own list, release the own lock.
LinkOwn(t) ==
  LET r == th[t]
      selected == IF Cardinality(r.results) < NbNeighbors[r.level] THEN r.results
                  ELSE Shrunk(r.pt, r.results, NbNeighbors[r.level])
      targets == FarthestFirst(r.pt, selected)
      own == FoldLeft(LAMBDA list, a : WithLink(r.pt, list, r.level, a),
                      neighbors[r.pt][r.level], targets)
  IN /\ r.pc = "search" /\ HasLevel(r.nearest, r.level) /\ ~Exploring(r)
     /\ neighbors' = [neighbors EXCEPT ![r.pt][r.level] = own]
     /\ locks' = [locks EXCEPT ![r.pt] = None]
     /\ th' = [th EXCEPT ![t] = [r EXCEPT !.pc = "others", !.targets = targets, !.candidates = {},
                                          !.results = {}, !.visited = {}]]
     /\ UNCHANGED <<metric, ntotal, levels, entry_point, max_level, call, inserted, dropped,
                    strayed>>

\* Link a target back: one store, or the start of a rewrite.
LinkOther(t) ==
  LET r == th[t]
      v == Head(r.targets)
  IN /\ r.pc = "others" /\ r.targets # <<>> /\ locks[v] = None
     /\ IF Full(v, r.level)
        THEN /\ locks' = [locks EXCEPT ![v] = t]
             /\ th' = [th EXCEPT ![t] = [r EXCEPT !.pc = "rewrite",
                          !.list = WithLink(v, neighbors[v][r.level], r.level, r.pt)]]
             /\ dropped' = TRUE
             /\ UNCHANGED neighbors
        ELSE /\ neighbors' = [neighbors EXCEPT ![v][r.level] = Append(@, r.pt)]
             /\ th' = [th EXCEPT ![t] = [r EXCEPT !.targets = Tail(@)]]
             /\ UNCHANGED <<locks, dropped>>
     /\ UNCHANGED <<metric, ntotal, levels, entry_point, max_level, call, inserted, strayed>>

Rewrite(t) ==
  LET r == th[t]
      v == Head(r.targets)
  IN /\ r.pc = "rewrite"
     /\ neighbors' = [neighbors EXCEPT ![v][r.level] = r.list]
     /\ locks' = [locks EXCEPT ![v] = None]
     /\ th' = [th EXCEPT ![t] = [r EXCEPT !.pc = "others", !.targets = Tail(@), !.list = <<>>]]
     /\ UNCHANGED <<metric, ntotal, levels, entry_point, max_level, call, inserted, dropped,
                    strayed>>

\* Take the own lock again and go on with the next level; after the last one it is
\* released at once.
Relock(t) ==
  LET r == th[t]
  IN /\ r.pc = "others" /\ r.targets = <<>> /\ locks[r.pt] = None
     /\ locks' = [locks EXCEPT ![r.pt] = IF r.level > 0 THEN t ELSE None]
     /\ th' = [th EXCEPT ![t] = Descend(r, r.level - 1)]
     /\ UNCHANGED <<metric, ntotal, levels, neighbors, entry_point, max_level, call, inserted,
                    dropped, strayed>>

\* Mutant of TestLevel: not compared with max_level.
TestLevelAlways(t) ==
  /\ th[t].pc = "finish"
  /\ th' = [th EXCEPT ![t].pc = "raiseLevel"]
  /\ UNCHANGED <<metric, ntotal, levels, neighbors, entry_point, max_level, locks, call,
                 inserted, dropped, strayed>>

\* The end of add_with_locks, which no lock protects: a test and two stores.
TestLevel(t) ==
  /\ th[t].pc = "finish"
  /\ th' = [th EXCEPT ![t].pc = IF levels[th[t].pt] > max_level THEN "raiseLevel" ELSE "done"]
  /\ UNCHANGED <<metric, ntotal, levels, neighbors, entry_point, max_level, locks, call,
                 inserted, dropped, strayed>>

RaiseLevel(t) ==
  /\ th[t].pc = "raiseLevel"
  /\ max_level' = levels[th[t].pt]
  /\ th' = [th EXCEPT ![t].pc = "raise"]
  /\ UNCHANGED <<metric, ntotal, levels, neighbors, entry_point, locks, call, inserted,
                 dropped, strayed>>

RaiseEntry(t) ==
  /\ th[t].pc = "raise"
  /\ entry_point' = th[t].pt
  /\ th' = [th EXCEPT ![t].pc = "done"]
  /\ UNCHANGED <<metric, ntotal, levels, neighbors, max_level, locks, call, inserted, dropped,
                 strayed>>

\* add_with_locks has returned; the thread may find that it is interrupted.
Done(t) ==
  /\ th[t].pc = "done"
  /\ inserted' = inserted \cup {th[t].pt}
  /\ th' = [th EXCEPT ![t] = Idle]
  /\ \E interrupted \in {FALSE, Interrupts} :
       call' = [call EXCEPT !.interrupt = @ \/ interrupted]
  /\ UNCHANGED <<metric, ntotal, levels, neighbors, entry_point, max_level, locks, dropped,
                 strayed>>

Insert(t) == \/ Skip(t) \/ ReadEntry(t) \/ Start(t) \/ Stray(t) \/ Greedy(t) \/ Explore(t)
             \/ LinkOwn(t) \/ LinkOther(t) \/ Rewrite(t) \/ Relock(t) \/ TestLevel(t)
             \/ RaiseLevel(t) \/ RaiseEntry(t) \/ Done(t)

Next == Add \/ NextGroup \/ \E t \in Threads : Insert(t)

\* Every thread of the parallel region keeps running.
Spec == Init /\ [][Next]_vars /\ WF_vars(NextGroup) /\ \A t \in Threads : WF_vars(Insert(t))

-----------------------------------------------------------------------------
Links(p, l) == ToSet(neighbors[p][l])
Quiet == call.status # "running"

\* Lists stay within their slots, without the point itself and without a point
\* twice, and a link at a level leads to a point that has this level, whatever the
\* interleaving of searches without locks and appends under locks.  The statistics
\* of HNSW assert the second part (impl/HNSW.cpp:134).
LinksWellFormed ==
  \A p \in 1..ntotal : \A l \in 0..levels[p] :
    /\ Len(neighbors[p][l]) <= NbNeighbors[l]
    /\ Cardinality(Links(p, l)) = Len(neighbors[p][l])
    /\ p \notin Links(p, l)
    /\ \A q \in Links(p, l) : HasLevel(q, l)

\* A point cannot be met at a level before its own list there is written, so no
\* search lands on a point without links: the groups go from high to low with a
\* barrier in between.
InvisibleUntilLinked ==
  \A t \in Threads : th[t].pc \in {"start", "greedy", "search"} =>
    LET r == th[t]
    IN \A l \in 0..levels[r.pt] : (r.pc # "search" \/ l <= r.level) =>
         /\ neighbors[r.pt][l] = <<>>
         /\ \A p \in 1..ntotal : HasLevel(p, l) => r.pt \notin Links(p, l)

\* As long as no list was full, links go both ways and every inserted point can be
\* reached from the entry point at level 0, whatever was inserted concurrently and
\* also after an interrupted call.
Connected ==
  Quiet /\ ~dropped /\ inserted # {} =>
    LET Reach[i \in 0..ntotal] ==
          IF i = 0 THEN {entry_point} ELSE Reach[i - 1] \cup UNION {Links(p, 0) : p \in Reach[i - 1]}
    IN /\ Reach[ntotal] = inserted
       /\ \A p \in 1..ntotal : \A l \in 0..levels[p] : \A q \in Links(p, l) : p \in Links(q, l)

\* "entry point in the search structure (one of the points with maximum level"
\* (impl/HNSW.h:126): when no call runs, the entry point is an inserted point, its
\* level is max_level, and no inserted point is higher.
EntryPointHighest ==
  Quiet /\ inserted # {} =>
    /\ entry_point \in inserted
    /\ levels[entry_point] = max_level
    /\ \A p \in inserted : levels[p] <= max_level

\* A thread combines an entry point and a max_level that it read at different
\* moments.  They fit, and neighbor_range stays within the vertex, unless the call
\* adds to a graph that has only lower levels: then the level may be new and the
\* entry point old.
LevelsInRange == strayed # {} => call.raises

\* A call of add ends: no thread waits forever for the lock of a point.
AddEnds == [](call.status = "running" => <>(call.status # "running" \/ strayed # {}))
=============================================================================
