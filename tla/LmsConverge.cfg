SPECIFICATION Spec
CONSTANTS
  s1 = s1
  s2 = s2
  s3 = s3
  q1 = q1
  ann = ann
  plan = plan
  essay = essay
  Node = {n1, n2}
  Leader = n1
  Worker = {w1, w2}
  Submission = {s1, s2}
  Question = {}
  Reply = {}
  student <- MCstudent
  file <- MCfile
  question <- MCquestion
  Nil = Nil
  MaxLog = 2
  MaxJobs = 2
  MaxFaults = 0
CHECK_DEADLOCK FALSE
INVARIANT SubmissionsConverge
