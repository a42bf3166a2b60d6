SPECIFICATION Spec
CONSTANTS
  Adders = {a1, a2}
  Readers = {r}
  MaxRows = 2
  MaxCalls = 3
  MaxFailures = 1
  MaxTrains = 2
  Builders = {b1, b2}
  Main = main
  Capacity = 2
  ResNums = {1, 2, 3}
  MaxBuilds = 2
  MaxSearches = 1
  MaxFrees = 1
INVARIANTS
  RefinedBeforeSearchable
  RowsAligned
  ReturnedRowsAreSearched
  PoolKept
PROPERTIES
  CallsReturn
  PoolServes
CHECK_DEADLOCK FALSE
