---------------------------- MODULE MCServerPool ----------------------------
(* Small instances of ServerPool for TLC. *)
EXTENDS ServerPool

CONSTANTS n1, n2, c1, c2, c3

(* A thread of n1 may be a chat's for good; the only one of n2 may be a write's. *)
TwoAndOne == [n \in Node |-> IF n = n1 THEN 2 ELSE 1]

=============================================================================
