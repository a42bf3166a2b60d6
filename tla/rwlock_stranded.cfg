SPECIFICATION FairSpec
CONSTANTS
  r1 = r1
  r2 = r2
  w1 = w1
  w2 = w2
  Readers = {r1}
  Writers = {w1, w2}
  MaxRequests = 5
PROPERTY
  EveryRequestAdmitted
CHECK_DEADLOCK FALSE
