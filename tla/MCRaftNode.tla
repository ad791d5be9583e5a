----------------------------- MODULE MCRaftNode -----------------------------
(* Small instances of RaftNode for TLC. *)
EXTENDS RaftNode, TLC

(* The nodes that may be elected are interchangeable, and so are the writes, and
   the others among those that answer in time and among those that may not. *)
Others == Node \ Electable
Symmetry == Permutations(Electable) \cup Permutations(Others \ Lossy)
              \cup Permutations(Others \cap Lossy) \cup Permutations(Op)

=============================================================================
