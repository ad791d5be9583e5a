----------------------------- MODULE MCLmsReplica -----------------------------
(* Small instances of LmsReplica: the values that a .cfg cannot write. *)
EXTENDS LmsReplica, TLC

CONSTANTS s1, s2, s3, q1, ann, plan, essay

(* One student hands in two files, the first of them twice; every reply is to
   one question. *)
MCstudent == [o \in Submission |-> ann]
MCfile == [o \in Submission |-> IF o = s2 THEN essay ELSE plan]
MCquestion == [o \in Reply |-> q1]

(* The threads of a pool are alike, and so are the two submissions of one name
   and the replies. *)
Alike == Permutations(Worker) \cup Permutations({s1, s3}) \cup Permutations(Reply)

=============================================================================
