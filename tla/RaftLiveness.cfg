SPECIFICATION FairSpec
CONSTANTS
  n1 = n1
  n2 = n2
  n3 = n3
  w1 = w1
  w2 = w2
  Nil = Nil
  Node = {n1, n2, n3}
  Up = {n1, n2}
  Electable = {n1}
  Op = {w1}
  Lossy = {}
  MaxTerm = 2
  MaxCalls = 1
  MaxBeats = 2
  MaxRestarts = 0
PROPERTIES LeaderElected WritesReturn WritesReachAll
