SPECIFICATION Spec
CONSTANTS
  a1 = a1
  a2 = a2
  s1 = s1
  i1 = i1
  g1 = g1
  Adders = {a1}
  Searchers = {}
  RangeSearchers = {}
  Iterators = {i1}
  MaxTasks = 4
  MetricIP = TRUE
INVARIANT
  IteratorsExcludeAdds
CHECK_DEADLOCK FALSE
