SPECIFICATION Spec
CONSTANTS
  Threads = {t1, t2}
  Batches <- MCBatches
  Metrics <- MCMetrics
  MaxLevel = 1
  NbNeighbors <- MCNbNeighbors
  EfConstruction = 2
  Interrupts = TRUE
INVARIANTS
  LinksWellFormed
  InvisibleUntilLinked
  Connected
  EntryPointHighest
  LevelsInRange
PROPERTY AddEnds
CHECK_DEADLOCK FALSE
