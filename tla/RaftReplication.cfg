SPECIFICATION Spec
CONSTANTS
  n1 = n1
  n2 = n2
  n3 = n3
  w1 = w1
  w2 = w2
  Nil = Nil
  Node = {n1, n2, n3}
  Up = {n1, n2}
  Electable = {n1}
  Op = {w1, w2}
  Lossy = {n2}
  MaxTerm = 1
  MaxCalls = 1
  MaxBeats = 1
  MaxRestarts = 0
SYMMETRY Symmetry
CHECK_DEADLOCK FALSE
INVARIANTS LogMatching LogHasNoGaps  
