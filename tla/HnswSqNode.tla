----------------------------- MODULE HnswSqNode -----------------------------
(***************************************************************************)
(* The life of an HNSW_SQ index: BaseFaissRegularIndexHNSWSQNode and its   *)
(* bases in src/index/hnsw/faiss_hnsw.cc, with the embedding-list wrappers *)
(* of include/knowhere/index/index_node.h and the post-build layout of     *)
(* thirdparty/faiss/faiss/IndexHNSW.cpp.                                   *)
(*                                                                         *)
(* A node is a record with the members of the class.  An operation maps a  *)
(* node to the set of its outcomes [ok, node]: operations call each other, *)
(* and each can fail where the code returns an error or catches an         *)
(* exception.  Ids and offsets start at 1; index_rows_sum is as in the     *)
(* code.  A row is [vec, list]: its vector and, for embedding lists, the   *)
(* list it belongs to (0 otherwise).                                       *)
(***************************************************************************)
EXTENDS Naturals, Sequences, FiniteSets, Functions, SequencesExt

CONSTANTS
  Datasets,   \* [vecs, info, lims]: vectors, scalar info, EMB_LIST_OFFSET;
              \* info and lims are <<>> when the dataset has none
  Wirings,    \* [levels, links]: what graph construction may produce, for
              \* MaxRows rows; a link of a row is [level, to]
  Configs,    \* [layout, refine]: whether "graph_layout" names a layout, and
              \* whether "refine" is set
  BaseRows,   \* the base_rows of combine_partitions (128)
  MaxRows,    \* bound on the rows of a node
  MaxCalls,   \* bound on the number of calls that may change the node
  Lost        \* see LogicalIndex

ASSUME BoundsAreNat == {BaseRows, MaxRows, MaxCalls} \subseteq Nat

VARIABLES
  node,    \* the members of the node
  blob,    \* the last serialized copy
  ready,     \* the node was built or loaded with success, and every call since
             \* then succeeded, or failed without touching the node
  promised   \* the calls were those for which this specification promises the
             \* rows: a partitioned index comes from one Build, and no Add grew an
             \* index that is partitioned or holds embedding lists
VARIABLE torn    \* a load in the mv format failed when it had begun to overwrite the
                 \* node, and no Build, Train or load has replaced its maps since
VARIABLE calls   \* the number of such calls so far

vars == <<node, blob, ready, promised, torn, calls>>

\* indexes[i] as faiss knows it.  A null pointer is an index that is not live.
\* codes and norms are the storage, links and entry the graph; reorder_perm is
\* the permutation of the layout, which is not serialized.
NullIndex == [live |-> FALSE, refine |-> FALSE, codes |-> <<>>,
              wiring |-> [levels |-> <<>>, links |-> <<>>],
              norms |-> <<>>, links |-> <<>>, levels |-> <<>>, entry |-> 0,
              reorder_perm |-> <<>>]

FreshNode == [indexes |-> <<NullIndex>>, labels |-> <<>>, index_rows_sum |-> <<>>,
              label_to_internal_offset |-> <<>>,
              internal_offset_to_most_external_id |-> <<>>,
              tmp_combined_scalar_ids |-> <<>>, emb_list_offset_ |-> <<>>]

\* A null pointer in labels.
NullLabels == <<0>>

Success(nd) == [ok |-> TRUE, node |-> nd]
Failure(nd) == [ok |-> FALSE, node |-> nd]

\* RETURN_IF_ERROR: the outcomes of Op after those of a first operation.
Then(outcomes, Op(_)) ==
  UNION {IF o.ok THEN Op(o.node) ELSE {o} : o \in outcomes}

IsIndexEmpty(nd) == nd.indexes = <<>> \/ \E i \in DOMAIN nd.indexes : ~nd.indexes[i].live

SumTo(f, n) == FoldFunctionOnSet(+, 0, f, 1..n)

Count(nd) == SumTo([i \in DOMAIN nd.indexes |-> Len(nd.indexes[i].codes)], Len(nd.indexes))
-----------------------------------------------------------------------------
\* combine_partitions: scalar values in the order of their number of rows (the
\* order of equal ones is up to std::sort) are joined until they have base_rows
\* rows; what is left over joins the last group.

SizeOrders(info) ==
  {o \in Bijection(DOMAIN info, DOMAIN info) :
     \A i, j \in DOMAIN info : i < j => Len(info[o[i]]) <= Len(info[o[j]])}

Combine(info, order) ==
  LET AddValue(acc, i) ==
        LET cur == Append(acc.cur, i)
            size == acc.size + Len(info[i])
        IN IF size >= BaseRows THEN [res |-> Append(acc.res, cur), cur |-> <<>>, size |-> 0]
                               ELSE [acc EXCEPT !.cur = cur, !.size = size]
      end == FoldLeft(AddValue, [res |-> <<>>, cur |-> <<>>, size |-> 0], order)
  IN IF end.cur = <<>> THEN end.res
     ELSE IF end.res = <<>> THEN <<end.cur>>
     ELSE Front(end.res) \o <<Last(end.res) \o end.cur>>

CombinePartitions(info) == {Combine(info, o) : o \in SizeOrders(info)}
-----------------------------------------------------------------------------
\* faiss::IndexHNSW.

\* train, on an index just created.
TrainedIndexes(refine) ==
  {[NullIndex EXCEPT !.live = TRUE, !.refine = refine, !.wiring = w] : w \in Wirings}

\* Mutant of AddToIndex: the norms are not stored.
AddToIndexWithoutNorms(x, vecs) ==
  LET n == Len(x.codes) + Len(vecs)
      levels == SubSeq(x.wiring.levels, 1, n)
  IN {[x EXCEPT !.codes = @ \o vecs, !.levels = levels, !.entry = e,
                !.links = [i \in 1..n |-> {k \in x.wiring.links[i] : k.to <= n}]] :
        e \in {i \in 1..n : \A j \in 1..n : levels[j] <= levels[i]}}

\* add: the storage grows, and graph construction gives the rows their levels
\* and links.  The entry point is a row of the highest level.  The caller sees an
\* exception when a layout has been applied.
AddToIndex(x, vecs) ==
  LET n == Len(x.codes) + Len(vecs)
      levels == SubSeq(x.wiring.levels, 1, n)
  IN {[x EXCEPT !.codes = @ \o vecs, !.norms = @ \o vecs, !.levels = levels, !.entry = e,
                !.links = [i \in 1..n |-> {k \in x.wiring.links[i] : k.to <= n}]] :
        e \in {i \in 1..n : \A j \in 1..n : levels[j] <= levels[i]}}

\* Mutant of PermuteEntries: the entry point keeps its old offset.
PermuteEntriesStaleEntry(x, perm) ==
  LET imap == AntiFunction(perm)
      Moved(s) == [i \in DOMAIN perm |-> s[perm[i]]]
  IN [x EXCEPT !.codes = Moved(@), !.norms = Moved(@), !.levels = Moved(@),
               !.links = [i \in DOMAIN perm |->
                            {[level |-> k.level, to |-> imap[k.to]] : k \in x.links[perm[i]]}]]

\* permute_entries: perm maps new offsets to old ones.
PermuteEntries(x, perm) ==
  LET imap == AntiFunction(perm)
      Moved(s) == [i \in DOMAIN perm |-> s[perm[i]]]
  IN [x EXCEPT !.codes = Moved(@), !.norms = Moved(@), !.levels = Moved(@),
               !.entry = imap[@],
               !.links = [i \in DOMAIN perm |->
                            {[level |-> k.level, to |-> imap[k.to]] : k \in x.links[perm[i]]}]]

\* reorder_graph_after_build, with whatever permutation the method computes.
\* ROrder's second phase may fail when the entries have been permuted already.
ReorderGraphAfterBuild(x) ==
  IF x.reorder_perm # <<>> THEN {[ok |-> FALSE, index |-> x]}
  ELSE IF x.codes = <<>> THEN {[ok |-> TRUE, index |-> x]}
  ELSE {[ok |-> b, index |-> [PermuteEntries(x, p) EXCEPT !.reorder_perm = p]] :
          b \in BOOLEAN, p \in Bijection(DOMAIN x.codes, DOMAIN x.codes)}
       \cup {[ok |-> FALSE, index |-> x]}
-----------------------------------------------------------------------------
\* Train.

\* The rows of ds that go to the group c of scalar values, in their order.
RowsOfGroup(ds, c) == FlattenSeq([j \in DOMAIN c |-> ds.info[c[j]]])

\* TrainIndexByScalarInfo when it stops after filling the id maps of the first m
\* groups; xs are the indexes trained so far.  A row that no group names keeps the
\* first offset, as resize left it.
PartitionedNode(nd, ds, m, xs) ==
  LET k == Len(nd.tmp_combined_scalar_ids)
      Rows(i) == IF i <= m THEN RowsOfGroup(ds, nd.tmp_combined_scalar_ids[i]) ELSE <<>>
      sizes == [i \in 1..k |-> Len(Rows(i))]
      placed == FlattenSeq([i \in 1..k |-> Rows(i)])
  IN [nd EXCEPT !.indexes = [i \in 1..k |-> IF i \in DOMAIN xs THEN xs[i] ELSE NullIndex],
                !.labels = [i \in 1..k |-> Rows(i)],
                !.index_rows_sum = [i \in 1..(k + 1) |-> IF i > m + 1 THEN 0 ELSE SumTo(sizes, i - 1)],
                !.label_to_internal_offset =
                  [id \in DOMAIN ds.vecs |-> IF id \notin ToSet(placed) THEN 1
                                            ELSE SelectLastInSeq(placed, LAMBDA r : r = id)]]

TrainIndexByScalarInfo(nd, ds, refine) ==
  LET k == Len(nd.tmp_combined_scalar_ids)
  IN {Success(PartitionedNode(nd, ds, k, xs)) : xs \in [1..k -> TrainedIndexes(refine)]}
     \cup UNION {{Failure(PartitionedNode(nd, ds, m, xs)) : xs \in [1..(m - 1) -> TrainedIndexes(refine)]} :
                   m \in 1..k}

\* TrainInternal forgets the old index first.  tmp_combined_scalar_ids keeps its
\* value when the dataset has no scalar info.
TrainInternal(nd, ds, refine) ==
  LET cleared == [nd EXCEPT !.indexes = <<NullIndex>>, !.labels = <<>>, !.index_rows_sum = <<>>,
                            !.label_to_internal_offset = <<>>,
                            !.internal_offset_to_most_external_id = <<>>]
      groups == IF ds.info = <<>> THEN {nd.tmp_combined_scalar_ids}
                ELSE IF Len(ds.info) > 1 THEN CombinePartitions(ds.info) ELSE {<<>>}
      Grouped(c) == [cleared EXCEPT !.tmp_combined_scalar_ids = c]
      Trained(c) ==
        IF ds.info = <<>> \/ Len(c) <= 1
        THEN {Success([Grouped(c) EXCEPT !.indexes = <<x>>]) : x \in TrainedIndexes(refine)}
             \cup {Failure(Grouped(c))}
        ELSE TrainIndexByScalarInfo(Grouped(c), ds, refine)
  IN {Failure(cleared)} \cup UNION {Trained(c) : c \in groups}
-----------------------------------------------------------------------------
\* Add.

\* The outcomes of adding vecs to indexes[i]: an exception may leave the storage
\* grown and the graph as it was.
AddToPart(nd, i, vecs) ==
  LET x == nd.indexes[i]
      With(y) == [nd EXCEPT !.indexes[i] = y]
  IN IF x.reorder_perm # <<>> THEN {Failure(nd)}
     ELSE {Success(With(y)) : y \in AddToIndex(x, vecs)}
          \cup {Failure(With([x EXCEPT !.codes = @ \o vecs, !.norms = @ \o vecs]))}

\* The loops over the groups of tmp_combined_scalar_ids and the values of each.
AddPartitions(nd, ds) ==
  LET groups == nd.tmp_combined_scalar_ids
      VecsOf(v) == [r \in DOMAIN ds.info[v] |-> ds.vecs[ds.info[v][r]]]
      AddGroup(outcomes, i) ==
        LET AddValue(before, v) == Then(before, LAMBDA n : AddToPart(n, i, VecsOf(v)))
        IN FoldLeft(AddValue, outcomes, groups[i])
  IN FoldLeft(AddGroup, {Success(nd)}, [i \in DOMAIN groups |-> i])

\* Mutant of AddInternal: labels are not tested.
AddInternalAfterLayout(nd, ds) ==
  IF IsIndexEmpty(nd) THEN {Failure(nd)} ELSE AddToPart(nd, 1, ds.vecs)

\* AddInternal.  The groups may be those of an earlier Train, and then name an
\* index or a scalar value that does not exist: the process does not survive.
AddInternal(nd, ds) ==
  IF IsIndexEmpty(nd) \/ (Len(nd.indexes) = 1 /\ nd.labels # <<>>) THEN {Failure(nd)}
  ELSE IF ds.info = <<>> \/ Len(nd.tmp_combined_scalar_ids) <= 1 THEN AddToPart(nd, 1, ds.vecs)
  ELSE IF \/ Len(nd.tmp_combined_scalar_ids) > Len(nd.indexes)
          \/ \E c \in ToSet(nd.tmp_combined_scalar_ids) : ~(ToSet(c) \subseteq DOMAIN ds.info)
       THEN {Failure(FreshNode)}
       ELSE AddPartitions(nd, ds)
-----------------------------------------------------------------------------
\* Build.

\* Mutant of ApplyGraphLayout: both maps are the permutation.
ApplyGraphLayoutOneMap(nd) ==
  IF Len(nd.indexes) # 1 \/ IsIndexEmpty(nd) \/ nd.labels # <<>> \/ nd.indexes[1].refine
  THEN {Failure(nd)}
  ELSE {LET perm == r.index.reorder_perm
            moved == [nd EXCEPT !.indexes = <<r.index>>]
        IN IF ~r.ok THEN Failure(moved)
           ELSE Success([moved EXCEPT !.labels = <<perm>>, !.index_rows_sum = <<0, Len(perm)>>,
                                      !.label_to_internal_offset = perm]) :
          r \in ReorderGraphAfterBuild(nd.indexes[1])}

\* ApplyGraphLayout, with a layout other than "unordered".
ApplyGraphLayout(nd) ==
  IF Len(nd.indexes) # 1 \/ IsIndexEmpty(nd) \/ nd.labels # <<>> \/ nd.indexes[1].refine
  THEN {Failure(nd)}
  ELSE {LET perm == r.index.reorder_perm
            moved == [nd EXCEPT !.indexes = <<r.index>>]
        IN IF ~r.ok THEN Failure(moved)
           ELSE Success([moved EXCEPT !.labels = <<perm>>, !.index_rows_sum = <<0, Len(perm)>>,
                                      !.label_to_internal_offset = AntiFunction(perm)]) :
          r \in ReorderGraphAfterBuild(nd.indexes[1])}

\* Build of the HNSW_SQ node.
Build(nd, ds, cf) ==
  IF cf.layout /\ ds.info # <<>> THEN {Failure(nd)}
  ELSE LET added == Then(TrainInternal(nd, ds, cf.refine), LAMBDA n : AddInternal(n, ds))
       IN IF ~cf.layout THEN added ELSE Then(added, ApplyGraphLayout)

\* EmbListOffset: the prefix of lims up to the first that reaches the end.
EmbListOffset(lims, rows) == SubSeq(lims, 1, SelectInSeq(lims, LAMBDA x : x >= rows))

\* get_el_id: upper_bound over the offsets.
GetElId(offset, id) == Cardinality({i \in DOMAIN offset : offset[i] < id})

\* index_rows_sum divides the offsets as labels does.
RowsSumFitsLabels(nd) ==
  nd.index_rows_sum = [i \in 1..(Len(nd.labels) + 1) |->
                         SumTo([p \in DOMAIN nd.labels |-> Len(nd.labels[p])], i - 1)]

GetInternalIdToExternalIdMap(nd) ==
  IF nd.labels = <<>> THEN [o \in 1..Count(nd) |-> o] ELSE FlattenSeq(nd.labels)

\* SetBaseIndexIDMap.  The loop over index_rows_sum that collects the labels
\* asserts that the two fit; otherwise the process does not survive.
SetBaseIndexIDMap(nd) ==
  LET ids == GetInternalIdToExternalIdMap(nd)
  IN IF nd.labels # <<>> /\ ~RowsSumFitsLabels(nd) THEN Failure(FreshNode)
     ELSE Success([nd EXCEPT !.internal_offset_to_most_external_id =
                               [o \in DOMAIN ids |-> GetElId(nd.emb_list_offset_, ids[o])]])

BuildEmbListIfNeed(nd, ds, cf, emb) ==
  IF ~emb THEN Build(nd, ds, cf)
  ELSE IF ds.lims = <<>> THEN {Failure(nd)}
  ELSE Then(Build(nd, ds, cf),
            LAMBDA n : {SetBaseIndexIDMap(
              [n EXCEPT !.emb_list_offset_ = EmbListOffset(ds.lims, Len(ds.vecs))])})
-----------------------------------------------------------------------------
\* GetVectorByIds and Search, which change nothing.

\* The index of the internal offset o: upper_bound over index_rows_sum.
PartitionOf(nd, o) == Cardinality({i \in DOMAIN nd.index_rows_sum : nd.index_rows_sum[i] < o})

\* get_vector of GetVectorByIds.
VectorById(nd, id) ==
  IF nd.label_to_internal_offset = <<>> THEN nd.indexes[1].codes[id]
  ELSE LET o == nd.label_to_internal_offset[id]
           p == PartitionOf(nd, o)
       IN nd.indexes[p].codes[o - nd.index_rows_sum[p]]

\* Mutant of TestedId: the labels of a single index are not applied.
TestedIdWithoutLabels(nd, p, o) ==
  IF nd.internal_offset_to_most_external_id # <<>>
  THEN nd.internal_offset_to_most_external_id[(IF nd.labels = <<>> THEN 0 ELSE nd.index_rows_sum[p]) + o]
  ELSE IF Len(nd.indexes) > 1 THEN nd.labels[p][o] ELSE o

\* The id whose bit Search tests for the row at offset o of indexes[p]:
\* BitsetView::test with the out ids and the id offset that Search sets.
TestedId(nd, p, o) ==
  IF nd.internal_offset_to_most_external_id # <<>>
  THEN nd.internal_offset_to_most_external_id[(IF nd.labels = <<>> THEN 0 ELSE nd.index_rows_sum[p]) + o]
  ELSE IF nd.labels # <<>> THEN nd.labels[p][o] ELSE o

\* getIndexToSearchByScalarInfo, for a bitset that lets the ids in "allowed" pass.
\* With a map to list ids the first valid index is an internal offset already.
GetIndexToSearchByScalarInfo(nd, allowed) ==
  LET most == nd.internal_offset_to_most_external_id
      valid == IF most # <<>> THEN {o \in DOMAIN most : most[o] \in allowed}
               ELSE allowed
      first == CHOOSE i \in valid : \A j \in valid : i <= j
  IN IF Len(nd.indexes) = 1 \/ valid = {} THEN 1
     ELSE PartitionOf(nd, IF most # <<>> THEN first ELSE nd.label_to_internal_offset[first])

\* What Search can return: the rows of the chosen index that pass the bitset,
\* with the id it reports for each.
SearchResults(nd, allowed) ==
  LET p == GetIndexToSearchByScalarInfo(nd, allowed)
      codes == nd.indexes[p].codes
  IN {[id |-> IF nd.labels = <<>> THEN o ELSE nd.labels[p][o], vec |-> codes[o]] :
        o \in {q \in DOMAIN codes : TestedId(nd, p, q) \in allowed}}

\* The number of filtered rows that Search gives the bitset of an index with
\* labels.  When it is 0 set_out_ids counts again, with the id offset 0.
FilteredOutIds(nd, p, allowed) ==
  LET most == nd.internal_offset_to_most_external_id
      valid == IF most # <<>> THEN {o \in DOMAIN most : most[o] \in allowed} ELSE allowed
      rows == DOMAIN nd.labels[p]
      Out(o) == IF most # <<>> THEN most[o] ELSE nd.labels[p][o]
      filtered == Cardinality(rows) - Cardinality(valid)
  IN IF filtered > 0 THEN filtered ELSE Cardinality({o \in rows : Out(o) \notin allowed})

\* The rows of a node as its user sees them.
Visible(nd) ==
  LET most == nd.internal_offset_to_most_external_id
      Offset(id) == IF nd.labels = <<>> THEN id ELSE nd.label_to_internal_offset[id]
  IN [id \in 1..Count(nd) |-> [vec |-> VectorById(nd, id),
                              list |-> IF most = <<>> THEN 0 ELSE most[Offset(id)]]]
-----------------------------------------------------------------------------
\* Serialize and Deserialize.

NoBlob == [mv |-> FALSE, indexes |-> <<>>, labels |-> <<>>, index_rows_sum |-> <<>>,
           label_to_internal_offset |-> <<>>, emb_list_meta |-> <<>>,
           grouped |-> FALSE, rows |-> Lost, torn |-> FALSE]

\* Mutant of Serialized: a single index is always written in the plain format.
SerializedPlain(nd) ==
  LET mv == Len(nd.indexes) > 1
  IN [mv |-> mv,
      indexes |-> [i \in DOMAIN nd.indexes |-> [nd.indexes[i] EXCEPT !.reorder_perm = <<>>]],
      labels |-> IF mv THEN nd.labels ELSE <<>>,
      index_rows_sum |-> IF mv THEN nd.index_rows_sum ELSE <<>>,
      label_to_internal_offset |-> IF mv THEN nd.label_to_internal_offset ELSE <<>>,
      emb_list_meta |-> nd.emb_list_offset_,
      grouped |-> nd.internal_offset_to_most_external_id # <<>>,
      rows |-> IF ready /\ promised THEN Visible(nd) ELSE Lost, torn |-> torn]

\* SerializeEmbListIfNeed: the id maps are written only in the mv format.
\* The last three fields record, for the properties, what was saved.
Serialized(nd) ==
  LET mv == Len(nd.indexes) > 1 \/ nd.labels # <<>>
  IN [mv |-> mv,
      indexes |-> [i \in DOMAIN nd.indexes |-> [nd.indexes[i] EXCEPT !.reorder_perm = <<>>]],
      labels |-> IF mv THEN nd.labels ELSE <<>>,
      index_rows_sum |-> IF mv THEN nd.index_rows_sum ELSE <<>>,
      label_to_internal_offset |-> IF mv THEN nd.label_to_internal_offset ELSE <<>>,
      emb_list_meta |-> nd.emb_list_offset_,
      grouped |-> nd.internal_offset_to_most_external_id # <<>>,
      rows |-> IF ready /\ promised THEN Visible(nd) ELSE Lost, torn |-> torn]

\* A vector with the value old after a read_vector of new that failed: it has its
\* old value until the size is read, and the new size then, with a prefix of the
\* new elements; resize gives an element it adds the value zero.
CutShort(old, new, zero) ==
  {old} \cup {[i \in DOMAIN new |-> IF i <= m THEN new[i]
                                    ELSE IF i \in DOMAIN old THEN old[i] ELSE zero] :
                m \in 0..(Len(new) - 1)}

\* The nodes that readHeader leaves when a read fails: each label vector, then
\* index_rows_sum and label_to_internal_offset are overwritten before the next is
\* read.  labels has its new size from the start.
HeaderCutShort(nd, b) ==
  LET LabelsUpTo(j, l) ==
        [i \in DOMAIN b.labels |-> IF i < j THEN b.labels[i] ELSE IF i = j THEN l
                                   ELSE IF i \in DOMAIN nd.labels THEN nd.labels[i] ELSE NullLabels]
      labelled == [nd EXCEPT !.labels = b.labels]
      summed == [labelled EXCEPT !.index_rows_sum = b.index_rows_sum]
  IN {nd}
     \cup UNION {{[nd EXCEPT !.labels = LabelsUpTo(j, l)] : l \in CutShort(<<>>, b.labels[j], 1)} :
                   j \in DOMAIN b.labels}
     \cup {[labelled EXCEPT !.index_rows_sum = s] :
             s \in CutShort(nd.index_rows_sum, b.index_rows_sum, 0)}
     \cup {[summed EXCEPT !.label_to_internal_offset = s] :
             s \in CutShort(nd.label_to_internal_offset, b.label_to_internal_offset, 1)}

\* The node when Deserialize has read the header and the first m indexes of b.
\* (The plain format has no header, and the maps are cleared at its end.)
ReadUpTo(nd, b, m) ==
  [nd EXCEPT !.indexes = [i \in DOMAIN b.indexes |->
                            IF i <= m THEN b.indexes[i]
                            ELSE IF i \in DOMAIN nd.indexes THEN nd.indexes[i] ELSE NullIndex],
             !.labels = b.labels, !.index_rows_sum = b.index_rows_sum,
             !.label_to_internal_offset = b.label_to_internal_offset,
             !.internal_offset_to_most_external_id = <<>>]

\* Deserialize and DeserializeFromFile: a read may fail at any point.  In the mv
\* format the node is overwritten as the reads go on.
Deserialize(nd, b) ==
  {Success(ReadUpTo(nd, b, Len(b.indexes)))} \cup
  IF ~b.mv THEN {Failure(nd)}
  ELSE {Failure(n) : n \in HeaderCutShort([nd EXCEPT !.internal_offset_to_most_external_id = <<>>], b)}
       \cup {Failure(ReadUpTo(nd, b, m)) : m \in 0..(Len(b.indexes) - 1)}

DeserializeEmbListIfNeed(nd, b, emb) ==
  IF ~emb THEN Deserialize(nd, b)
  ELSE Then(Deserialize(nd, b),
            LAMBDA n : IF b.emb_list_meta = <<>> THEN {Failure(n)}
                       ELSE {SetBaseIndexIDMap([n EXCEPT !.emb_list_offset_ = b.emb_list_meta])})
-----------------------------------------------------------------------------
Init ==
  /\ node = FreshNode /\ blob = NoBlob
  /\ ready = FALSE /\ promised = FALSE /\ torn = FALSE
  /\ calls = 0

Called == calls < MaxCalls /\ calls' = calls + 1

\* The state after the outcome o, when success gives ready and promised the
\* values r and p.
Finish(o, r, p) ==
  /\ node' = o.node
  /\ ready' = IF o.ok THEN r ELSE ready /\ o.node = node
  /\ promised' = IF o.ok THEN p ELSE promised
  /\ UNCHANGED blob

\* Build and Train replace the maps as soon as they touch the node.
DoBuild(ds, cf, emb) ==
  /\ Called
  /\ \E o \in BuildEmbListIfNeed(node, ds, cf, emb) :
       Finish(o, TRUE, TRUE) /\ torn' = (torn /\ o.node = node)

DoTrain(ds, cf) ==
  /\ Called
  /\ \E o \in TrainInternal(node, ds, cf.refine) :
       Finish(o, TRUE, Len(o.node.indexes) = 1) /\ torn' = (torn /\ o.node = node)

DoAdd(ds) ==
  /\ Called
  /\ \A i \in DOMAIN node.indexes : Len(node.indexes[i].codes) + Len(ds.vecs) <= MaxRows
  /\ \E o \in AddInternal(node, ds) :
       Finish(o, ready, /\ promised /\ Len(node.indexes) = 1
                        /\ node.internal_offset_to_most_external_id = <<>>)
  /\ UNCHANGED torn

\* writeHeader follows every pointer of labels: the process does not survive a
\* null one.
DoSerialize ==
  /\ ~IsIndexEmpty(node)
  /\ \/ /\ NullLabels \notin ToSet(node.labels)
        /\ blob' = Serialized(node)
        /\ UNCHANGED <<node, ready, promised>>
     \/ /\ NullLabels \in ToSet(node.labels)
        /\ Finish(Failure(FreshNode), FALSE, FALSE)
  /\ UNCHANGED <<torn, calls>>

\* Deserialize into this node, or into one just created.
DoDeserialize(nd, emb) ==
  /\ Called /\ blob # NoBlob
  /\ \E o \in DeserializeEmbListIfNeed(nd, blob, emb) :
       /\ Finish(o, blob.rows # Lost, emb = blob.grouped)
       /\ torn' = IF o.ok THEN blob.torn
                  ELSE (torn /\ nd = node) \/ (blob.mv /\ o.node # nd)

Next ==
  \/ \E ds \in Datasets, cf \in Configs, emb \in BOOLEAN : DoBuild(ds, cf, emb)
  \/ \E ds \in Datasets, cf \in Configs : DoTrain(ds, cf)
  \/ \E ds \in Datasets : DoAdd(ds)
  \/ DoSerialize
  \/ \E nd \in {node, FreshNode}, emb \in BOOLEAN : DoDeserialize(nd, emb)

Spec == Init /\ [][Next]_vars
-----------------------------------------------------------------------------
\* The members have the types of their declarations, offsets and ids are those
\* of existing rows, and the storage has a norm for every code.
TypeOK ==
  /\ \A x \in ToSet(node.indexes) :
       /\ DOMAIN x = DOMAIN NullIndex
       /\ x.live \in BOOLEAN /\ x.refine \in BOOLEAN /\ x.entry \in 0..MaxRows
       /\ Len(x.codes) <= MaxRows /\ Len(x.norms) = Len(x.codes)
       /\ x.reorder_perm \in Seq(1..MaxRows)
  /\ node.labels \in Seq(Seq(1..MaxRows) \cup {NullLabels})
  /\ node.index_rows_sum \in Seq(0..MaxRows)
  /\ node.label_to_internal_offset \in Seq(0..MaxRows)
  /\ node.internal_offset_to_most_external_id \in Seq(1..MaxRows)
  /\ DOMAIN blob = DOMAIN NoBlob
  /\ ready \in BOOLEAN /\ promised \in BOOLEAN /\ torn \in BOOLEAN

Good == ready /\ promised

\* Whether every allowed row is in one of the indexes: the filter of a search on
\* a partitioned index selects a value of the partition key.
OnePartition(nd, rows) ==
  Len(nd.indexes) > 1 =>
    \E p \in DOMAIN nd.indexes : rows \subseteq ToSet(nd.labels[p])

\* The rows a filter lets pass: it has a bit for each list when the rows are
\* grouped in lists, and one for each row otherwise.
AllowedRows(nd, allowed) ==
  IF nd.internal_offset_to_most_external_id = <<>> THEN allowed
  ELSE {id \in 1..Count(nd) : GetElId(nd.emb_list_offset_, id) \in allowed}

Filters(nd) ==
  {f \in SUBSET (1..Count(nd)) : OnePartition(nd, AllowedRows(nd, f))}

\* In every node that answers calls the label maps belong together: labels and
\* label_to_internal_offset are inverse to each other, and index_rows_sum divides
\* the offsets as labels does.  It holds also after calls of Build, Train and Add
\* that failed at any point.  The one call that can break it is a Deserialize of
\* the mv format that fails half way, which leaves the old indexes with parts of
\* the new maps; the next Build, Train or load restores it.
IdMapsAgree ==
  ~torn /\ ~IsIndexEmpty(node) /\ node.labels # <<>> =>
    LET placed == FlattenSeq(node.labels)
    IN /\ Len(node.labels) = Len(node.indexes)
       /\ RowsSumFitsLabels(node)
       /\ DOMAIN placed = DOMAIN node.label_to_internal_offset
       /\ \A o \in DOMAIN placed : node.label_to_internal_offset[placed[o]] = o

\* The id maps cover exactly the rows of the indexes: nothing was added after a
\* layout, also not to an index that was saved and loaded, which has forgotten
\* its permutation (AddInternal tests labels for this).
LabelsCoverRows ==
  Good /\ node.labels # <<>> =>
    \A i \in DOMAIN node.indexes : Len(node.labels[i]) = Len(node.indexes[i].codes)

\* A filtered search considers exactly the allowed rows, with their original ids
\* and vectors: after a layout, in the partition chosen from the bitset, with
\* filters on rows or on embedding lists, and after saving and loading.
SearchSeesAllowedRows ==
  Good => \A allowed \in Filters(node) :
    SearchResults(node, allowed) =
      {[id |-> id, vec |-> VectorById(node, id)] : id \in AllowedRows(node, allowed)}

\* permute_entries moves a row with all that belongs to it: links, levels, norms
\* and the entry point are those of the graph that was built, seen through the
\* id map, so that a search walks the same graph after a layout.
LayoutKeepsGraph ==
  Good => \A p \in DOMAIN node.indexes :
    LET x == node.indexes[p]
        n == Len(x.codes)
        Old(o) == IF Len(node.indexes) = 1 /\ node.labels # <<>> THEN node.labels[1][o] ELSE o
    IN /\ x.norms = x.codes
       /\ \A o \in 1..n :
            /\ x.levels[o] = x.wiring.levels[Old(o)] /\ x.levels[o] <= x.levels[x.entry]
            /\ {[level |-> k.level, to |-> Old(k.to)] : k \in x.links[o]}
                 = {k \in x.wiring.links[Old(o)] : k.to <= n}

\* Count() never exceeds the ids that GetVectorByIds and Search can name.
CountedRowsHaveIds ==
  ready /\ ~IsIndexEmpty(node) /\ node.label_to_internal_offset # <<>> =>
    Count(node) <= Len(node.label_to_internal_offset)

\* The count() of the bitset that Search hands to the index is the number of the
\* rows of this index that the bitset filters out.
FilterCountIsExact ==
  Good /\ node.labels # <<>> => \A allowed \in Filters(node) :
    LET p == GetIndexToSearchByScalarInfo(node, allowed)
    IN FilteredOutIds(node, p, allowed)
         = Cardinality({o \in DOMAIN node.labels[p] : TestedId(node, p, o) \notin allowed})
-----------------------------------------------------------------------------
\* The abstract index.

\* The list that lims puts the row i into.
ListOf(lims, i) == CHOOSE l \in DOMAIN lims : lims[l] < i /\ i <= lims[l + 1]

InputRows(ds, emb) ==
  [i \in DOMAIN ds.vecs |-> [vec |-> ds.vecs[i], list |-> IF emb THEN ListOf(ds.lims, i) ELSE 0]]

Logical == INSTANCE LogicalIndex WITH
  Inputs <- {InputRows(ds, FALSE) : ds \in Datasets}
              \cup {InputRows(ds, TRUE) : ds \in {d \in Datasets : d.lims # <<>>}},
  content <- IF Good THEN Visible(node) ELSE Lost,
  saved <- blob.rows

\* To its user, the node is an index of rows in the order they were given:
\* partitions, layouts and the serialized format are not visible.
ImplementsLogicalIndex == Logical!LogicalSpec
=============================================================================
