------------------------------- MODULE Ballot -------------------------------
(***************************************************************************)
(* What the elections of server/consensus/raft_node.py keep, whatever is   *)
(* lost, late or restarted: votes are only ever added, a node declares     *)
(* itself leader of a term only with votes of more than half the nodes,    *)
(* and a node votes for a second candidate in a term only after one of its *)
(* threads has written its row from what was no longer in it, or could.    *)
(***************************************************************************)
EXTENDS Integers, FiniteSets, TLAPS, FiniteSetTheorems

CONSTANTS
  Node,
  Term       \* the terms there are

VARIABLES
  grants,    \* votes: <<voter, term, candidate>>
  wins,      \* elections won: <<candidate, term>>
  rewound    \* nodes whose row was, or can be, overwritten from an old reading

vars == <<grants, wins, rewound>>

majority == Cardinality(Node) \div 2
Voters(n, t) == {v \in Node : <<v, t, n>> \in grants}

Cast(v, t, c) ==
  /\ v \in rewound \/ \A d \in Node : <<v, t, d>> \in grants => d = c
  /\ grants' = grants \cup {<<v, t, c>>}
  /\ rewound' \in {rewound, rewound \cup {v}}
  /\ UNCHANGED wins

Win(c, t) ==
  /\ Cardinality(Voters(c, t)) > majority
  /\ wins' = wins \cup {<<c, t>>}
  /\ UNCHANGED <<grants, rewound>>

Rewind(v) ==
  /\ rewound' = rewound \cup {v}
  /\ UNCHANGED <<grants, wins>>

Init == grants = {} /\ wins = {} /\ rewound = {}

Next == \E v \in Node : \/ Rewind(v)
                        \/ \E t \in Term : \/ Win(v, t)
                                          \/ \E c \in Node : Cast(v, t, c)

Spec == Init /\ [][Next]_vars

-----------------------------------------------------------------------------
(* Two nodes that both became leader of one term share a voter, and that
   voter's term had been overwritten: the ballot set_term guards, which clears
   voted_for with every write of the term. *)
ElectionSafety ==
  \A a, b \in Node, t \in Term :
    <<a, t>> \in wins /\ <<b, t>> \in wins /\ a # b =>
      \E v \in rewound : v \in Voters(a, t) \cap Voters(b, t)

-----------------------------------------------------------------------------
(* The inductive invariant: votes are votes, a node that was never rewound has
   voted once a term, and every election was won with a majority. *)
TypeOK ==
  /\ grants \subseteq (Node \X Term \X Node)
  /\ wins \subseteq (Node \X Term)
  /\ rewound \subseteq Node
VotesOnce ==
  \A v \in Node \ rewound, t \in Term, a, b \in Node :
    <<v, t, a>> \in grants /\ <<v, t, b>> \in grants => a = b
WonByMajority ==
  \A c \in Node, t \in Term : <<c, t>> \in wins => Cardinality(Voters(c, t)) > majority
Inv == TypeOK /\ VotesOnce /\ WonByMajority

(* Two majorities of a finite set of nodes share a node. *)
LEMMA MajoritiesMeet ==
  ASSUME IsFiniteSet(Node), NEW A \in SUBSET Node, NEW B \in SUBSET Node,
         Cardinality(A) > majority, Cardinality(B) > majority
  PROVE  A \cap B # {}
<1>1. IsFiniteSet(A) /\ IsFiniteSet(B) /\ IsFiniteSet(A \cup B)
  BY FS_Subset, FS_Union
<1>2. /\ Cardinality(A) \in Nat /\ Cardinality(B) \in Nat /\ Cardinality(Node) \in Nat
      /\ Cardinality(A \cup B) <= Cardinality(Node)
  BY <1>1, FS_CardinalityType, FS_Subset, A \cup B \subseteq Node
<1>3. Cardinality(A \cup B) = Cardinality(A) + Cardinality(B) - Cardinality(A \cap B)
  BY <1>1, FS_Union
<1>4. A \cap B = {} => Cardinality(A \cap B) = 0
  BY FS_EmptySet
<1> QED
  BY <1>2, <1>3, <1>4 DEF majority

(* The invariant is enough: the node that two winners of one term share has
   voted twice in it. *)
LEMMA InvImpliesSafety ==
  ASSUME IsFiniteSet(Node), Inv
  PROVE  ElectionSafety
<1> SUFFICES ASSUME NEW a \in Node, NEW b \in Node, NEW t \in Term,
                    <<a, t>> \in wins, <<b, t>> \in wins, a # b
             PROVE  \E v \in rewound : v \in Voters(a, t) \cap Voters(b, t)
  BY DEF ElectionSafety
<1>1. Cardinality(Voters(a, t)) > majority /\ Cardinality(Voters(b, t)) > majority
  BY DEF Inv, WonByMajority
<1>2. PICK v \in Node : v \in Voters(a, t) \cap Voters(b, t)
  BY <1>1, MajoritiesMeet DEF Voters
<1>3. v \in rewound
  BY <1>2 DEF Inv, VotesOnce, Voters
<1> QED
  BY <1>2, <1>3

(* Every step keeps the invariant: votes are only added, so a majority stays
   one. *)
LEMMA InvStep ==
  ASSUME IsFiniteSet(Node), Inv, [Next]_vars
  PROVE  Inv'
<1> USE DEF Inv, TypeOK, VotesOnce, WonByMajority
<1>1. CASE UNCHANGED vars
  BY <1>1 DEF vars, Voters
<1>2. ASSUME NEW v \in Node, Rewind(v) PROVE Inv'
  BY <1>2 DEF Rewind, Voters
<1>3. ASSUME NEW c \in Node, NEW t \in Term, Win(c, t) PROVE Inv'
  <2>1. TypeOK' /\ VotesOnce'
    BY <1>3 DEF Win
  <2>2. \A d \in Node, s \in Term : Voters(d, s)' = Voters(d, s)
    BY <1>3 DEF Win, Voters
  <2>3. ASSUME NEW d \in Node, NEW s \in Term, <<d, s>> \in wins'
        PROVE  (Cardinality(Voters(d, s)) > majority)'
    <3>1. Cardinality(Voters(d, s)) > majority
      BY <1>3, <2>3 DEF Win
    <3>2. majority' = majority
      BY DEF majority
    <3> QED
      BY <2>2, <3>1, <3>2
  <2> QED
    BY <2>1, <2>3
<1>4. ASSUME NEW v \in Node, NEW t \in Term, NEW c \in Node, Cast(v, t, c) PROVE Inv'
  <2>1. TypeOK' /\ VotesOnce'
    BY <1>4 DEF Cast
  <2>2. ASSUME NEW d \in Node, NEW s \in Term, <<d, s>> \in wins'
        PROVE  (Cardinality(Voters(d, s)) > majority)'
    <3>1. Voters(d, s) \subseteq Voters(d, s)' /\ IsFiniteSet(Voters(d, s)')
      BY <1>4, FS_Subset DEF Cast, Voters
    <3>2. /\ Cardinality(Voters(d, s)) <= Cardinality(Voters(d, s)')
          /\ Cardinality(Voters(d, s)) \in Nat /\ Cardinality(Voters(d, s)') \in Nat
      BY <3>1, FS_Subset, FS_CardinalityType
    <3>3. Cardinality(Voters(d, s)) > majority
      BY <1>4, <2>2 DEF Cast
    <3>4. majority \in Nat /\ majority' = majority
      BY FS_CardinalityType DEF majority
    <3> QED
      BY <3>2, <3>3, <3>4
  <2> QED
    BY <2>1, <2>2
<1> QED
  BY <1>1, <1>2, <1>3, <1>4 DEF Next

(* What candidate_request_vote promises: leaders of one term share a voter whose
   term was overwritten. *)
THEOREM BallotIsSafe ==
  ASSUME IsFiniteSet(Node)
  PROVE  Spec => []ElectionSafety
<1>1. Init => Inv
  BY DEF Init, Inv, TypeOK, VotesOnce, WonByMajority
<1>2. Inv /\ [Next]_vars => Inv'
  BY InvStep
<1>3. Inv => ElectionSafety
  BY InvImpliesSafety
<1> QED
  BY <1>1, <1>2, <1>3, PTL DEF Spec

=============================================================================
