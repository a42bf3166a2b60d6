SPECIFICATION FairSpec
CONSTANTS
  a1 = a1
  a2 = a2
  s1 = s1
  i1 = i1
  g1 = g1
  Adders = {a1, a2}
  Searchers = {s1}
  RangeSearchers = {g1}
  Iterators = {i1}
  MaxTasks = 5
  MetricIP = TRUE
INVARIANTS
  TypeOK
  CountersAgree
  AddsExcludeReads
  NoMissedWakeup
  LeastTaskAdmitted
  RawDataCoversIndex
PROPERTIES
  TasksInOrder
  ImplementsRWLock
  EveryTaskServed
CHECK_DEADLOCK FALSE
