SPECIFICATION FairSpec
CONSTANTS
  a1 = a1
  a2 = a2
  s1 = s1
  i1 = i1
  g1 = g1
  Adders = {a1}
  Searchers = {}
  RangeSearchers = {g1}
  Iterators = {}
  MaxTasks = 4
  MetricIP = TRUE
PROPERTY
  RangeSearchReturns
CHECK_DEADLOCK FALSE
