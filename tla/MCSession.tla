----------------------------- MODULE MCSession -----------------------------
(* Small instances of Session for TLC. *)
EXTENDS Session

CONSTANTS n1, n2, ann, bob

(* Two nodes, and a user of each role. *)
TwoNodes == <<n1, n2>>
Roles == [u \in User |-> IF u = ann THEN "Student" ELSE "Instructor"]

=============================================================================
