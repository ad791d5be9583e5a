SPECIFICATION FairSpec
CONSTANTS
  n1 = n1
  n2 = n2
  c1 = c1
  c2 = c2
  c3 = c3
  Node = {n1, n2}
  Leader = {n1}
  Client = {c1, c2, c3}
  MAX_WORKERS <- TwoAndOne
  MaxQueue = 1
CHECK_DEADLOCK FALSE
INVARIANTS TypeOK EveryWaitHasATask
PROPERTIES RoundsEnd CallsReturn
