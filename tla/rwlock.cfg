SPECIFICATION FairSpec
CONSTANTS
  r1 = r1
  r2 = r2
  w1 = w1
  w2 = w2
  Readers = {r1, r2}
  Writers = {w1, w2}
  MaxRequests = 6
INVARIANTS
  TypeOK
  MutualExclusion
  RequestsInOrder
  NoStrandedReader
PROPERTIES
  NoOvertakingOfWriters
  ImplementsRWLock
  OneWriterAtATimeIsServed
CHECK_DEADLOCK FALSE
