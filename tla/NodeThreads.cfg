SPECIFICATION Spec
CONSTANTS
  n1 = n1
  n2 = n2
  n3 = n3
  t1 = t1
  t2 = t2
  j1 = j1
  j2 = j2
  j3 = j3
  j4 = j4
  Nil = Nil
  Node = {n1, n2, n3}
  self = n1
  Thread = {t1, t2}
  Job = {j1, j2, j3, j4}
  LogTerm <- TwoEntries
  MaxTerm = 2
  MaxCalls = 3
SYMMETRY Symmetry
CHECK_DEADLOCK FALSE
INVARIANTS TypeOK ElectionTimerKept CommittedIsStored IdxIsLastRow
PROPERTY VotesAreBallots
