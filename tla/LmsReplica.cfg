SPECIFICATION Spec
CONSTANTS
  s1 = s1
  s2 = s2
  s3 = s3
  q1 = q1
  ann = ann
  plan = plan
  essay = essay
  Node = {n1, n2}
  Leader = n1
  Worker = {w1, w2}
  Submission = {s1, s2, s3}
  Question = {q1}
  Reply = {a1, a2}
  student <- MCstudent
  file <- MCfile
  question <- MCquestion
  Nil = Nil
  MaxLog = 3
  MaxJobs = 2
  MaxFaults = 1
SYMMETRY Alike
INVARIANTS TypeOK RowHasFile  LastSubmissionStored QuestionsAreAsked LastReplyShown
CHECK_DEADLOCK FALSE
