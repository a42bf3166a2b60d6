SPECIFICATION Spec
CONSTANTS
  Inputs <- MCInputs
  Window = 2
  HugeVertices = {2, 3}
  MaxCalls = 2
INVARIANTS
  HeapWellFormed
  ScoresExact
  CommunitiesPartition
  TraversalOrder
  LayoutKeepsEdges
PROPERTY LayoutReturns
CHECK_DEADLOCK FALSE
