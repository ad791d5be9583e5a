--------------------------- MODULE MCNodeThreads ---------------------------
(* Small instances of NodeThreads for TLC. *)
EXTENDS NodeThreads, TLC

(* The log of the cluster: two entries of term 1. *)
TwoEntries == <<1, 1>>

(* Threads are interchangeable, and so are the peers. *)
Symmetry == Permutations(Thread) \cup Permutations(Peer)

=============================================================================
