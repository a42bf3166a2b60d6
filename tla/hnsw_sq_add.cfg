SPECIFICATION Spec
CONSTANTS
  u = u
  v = v
  w = w
  Lost = Lost
  Datasets <- MCDatasets
  Wirings <- MCWirings
  Configs <- MCConfigs
  BaseRows = 2
  MaxCalls = 3
  MaxRows = 4
INVARIANT CountedRowsHaveIds
CHECK_DEADLOCK FALSE
