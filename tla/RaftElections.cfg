SPECIFICATION Spec
CONSTANTS
  n1 = n1
  n2 = n2
  n3 = n3
  w1 = w1
  w2 = w2
  Nil = Nil
  Node = {n1, n2, n3}
  Up = {n1, n2, n3}
  Electable = {n1, n2, n3}
  Op = {}
  Lossy = {}
  MaxTerm = 2
  MaxCalls = 1
  MaxBeats = 0
  MaxRestarts = 0
SYMMETRY Symmetry
INVARIANTS TypeOK ElectionSafety
PROPERTY ElectionsAreBallots
