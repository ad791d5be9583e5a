--------------------------- MODULE RaftNodeProofs ---------------------------
(***************************************************************************)
(* Theorems about RaftNode, for every value of its constants.              *)
(***************************************************************************)
EXTENDS RaftNode, TLAPS, FiniteSetTheorems

Messages == VoteRequests \cup AppendRequests \cup Answers
RowOrNone == [idx : Nat, term : Term, op : Op \cup {Nil}]

-----------------------------------------------------------------------------
(* What the helpers return. *)

LEMMA TermFacts == /\ 0 \in Term /\ MaxTerm \in Nat
                   /\ \A t \in Term : t \in Nat /\ (t < MaxTerm => t + 1 \in Term)
BY BoundAssumption DEF Term

LEMMA RowTypes ==
  ASSUME NEW rows \in SUBSET Row, NEW k
  PROVE  /\ TopRow(rows) \in RowOrNone /\ RowAt(rows, k) \in RowOrNone
         /\ TopRow(rows) # NoRow => TopRow(rows) \in rows
<1>1. NoRow \in RowOrNone /\ Row \subseteq RowOrNone
  BY TermFacts DEF NoRow, RowOrNone, Row
<1>2. \/ TopRow(rows) = NoRow
      \/ TopRow(rows) \in rows
  BY DEF TopRow
<1>3. \/ RowAt(rows, k) = NoRow
      \/ RowAt(rows, k) \in rows
  BY DEF RowAt
<1> QED
  BY <1>1, <1>2, <1>3

LEMMA VoteRequestType ==
  ASSUME NEW i \in Node, NEW k \in Nat, NEW t \in Term, NEW last \in RowOrNone
  PROVE  VoteRequest(i, k, t, last) \subseteq VoteRequests
<1>1. last.idx \in Nat /\ last.term \in Term
  BY DEF RowOrNone
<1>2. ASSUME NEW p \in Peers(i)
      PROVE  [type |-> "vote", from |-> i, to |-> p, live |-> TRUE, call |-> k,
              term |-> t, last_log_idx |-> last.idx, last_log_term |-> last.term]
               \in VoteRequests
  BY <1>1 DEF VoteRequests, Peers
<1> QED
  BY <1>2 DEF VoteRequest

LEMMA AppendRequestType ==
  ASSUME TypeOK, NEW i \in Node, NEW w \in Op \cup {Nil}, NEW next \in [Node -> Nat]
  PROVE  AppendRequest(i, w, next) \subseteq AppendRequests
<1>1. /\ raft_logs[i] \in SUBSET Row /\ term[i] \in Term /\ committed_index[i] \in Nat
  BY DEF TypeOK
<1>2. ASSUME NEW p \in Peers(i)
      PROVE  LET prev == RowAt(raft_logs[i], next[p] - 1)
             IN  [type |-> "append", from |-> i, to |-> p, live |-> TRUE,
                  term |-> term[i], write |-> w, prev_log_idx |-> prev.idx,
                  prev_log_term |-> prev.term,
                  entries |-> Suffix(raft_logs[i], next[p]),
                  leader_commit_idx |-> committed_index[i]] \in AppendRequests
  <2> DEFINE prev == RowAt(raft_logs[i], next[p] - 1)
  <2>1. prev \in RowOrNone
    BY <1>1, RowTypes
  <2>2. prev.idx \in Nat /\ prev.term \in Term
    BY <2>1 DEF RowOrNone
  <2>3. Suffix(raft_logs[i], next[p]) \in SUBSET Row
    BY <1>1 DEF Suffix
  <2>4. p \in Node
    BY DEF Peers
  <2> HIDE DEF prev
  <2> QED
    BY <1>1, <2>2, <2>3, <2>4 DEF AppendRequests, prev
<1> QED
  BY <1>2 DEF AppendRequest

LEMMA AnswerType ==
  ASSUME NEW m \in VoteRequests \cup AppendRequests, NEW yes \in BOOLEAN, NEW t \in Term
  PROVE  Answer(m, yes, t) \subseteq Answers
BY DEF Answer, Answers

LEMMA MessageTypes ==
  ASSUME NEW m \in Messages
  PROVE  /\ m.type = "vote" <=> m \in VoteRequests
         /\ m.type = "append" <=> m \in AppendRequests
         /\ m.type = "answer" <=> m \in Answers
         /\ IsRequest(m) <=> m \in VoteRequests \cup AppendRequests
BY DEF Messages, VoteRequests, AppendRequests, Answers, IsRequest

LEMMA Abandoned ==
  ASSUME NEW m \in VoteRequests \cup AppendRequests
  PROVE  /\ [m EXCEPT !.live = FALSE] \in VoteRequests \cup AppendRequests
         /\ [m EXCEPT !.live = FALSE].type = m.type
BY DEF VoteRequests, AppendRequests

LEMMA OrphanedType ==
  ASSUME NEW msgs \in SUBSET Messages, NEW c
  PROVE  Orphaned(msgs, c) \subseteq Messages
BY Abandoned, MessageTypes DEF Orphaned, Messages

LEMMA WriteHearsType ==
  ASSUME TypeOK, NEW m \in AppendRequests, NEW ack \in BOOLEAN, WriteHears(m, ack)
  PROVE  /\ writes' \in [Op -> Writes]
         /\ \A o \in Op : /\ writes[o].node = writes'[o].node
                          /\ writes[o].status = writes'[o].status
                          /\ writes[o].new_idx = writes'[o].new_idx
<1>1. m.write \in Op \cup {Nil} /\ m.to \in Node
  BY DEF AppendRequests
<1>2. CASE m.write = Nil
  BY <1>2 DEF WriteHears, TypeOK
<1>3. CASE m.write \in Op
  <2> DEFINE w == writes[m.write]
             v == [w EXCEPT !.waiting = @ \ {m.to}, !.acks = @ + (IF ack THEN 1 ELSE 0)]
  <2>1. w \in Writes /\ m.write # Nil
    BY <1>3, OpAssumption DEF TypeOK
  <2>2. v \in Writes /\ v.node = w.node /\ v.status = w.status /\ v.new_idx = w.new_idx
    <3>1. w.acks + (IF ack THEN 1 ELSE 0) \in Nat /\ w.waiting \ {m.to} \in SUBSET Node
      BY <2>1 DEF Writes
    <3> HIDE DEF w
    <3> QED
      BY <2>1, <3>1 DEF Writes
  <2>3. writes' = [writes EXCEPT ![m.write] = v]
    BY <1>3, <2>1 DEF WriteHears
  <2> QED
    BY <1>3, <2>2, <2>3 DEF TypeOK
<1> QED
  BY <1>1, <1>2, <1>3

-----------------------------------------------------------------------------
(* Type correctness: one lemma per action. *)

LEMMA TypeCandidate ==
  ASSUME TypeOK, NEW i \in Node, candidate_request_vote(i)
  PROVE  TypeOK'
<1> DEFINE t == term[i] + 1
           last == TopRow(raft_logs[i])
           k == CHOOSE n \in FreeCalls(i) : TRUE
<1>1. t \in Term /\ last \in RowOrNone
  BY TermFacts, RowTypes DEF candidate_request_vote, TypeOK
<1>2. k \in Nat
  BY BoundAssumption DEF candidate_request_vote, FreeCalls
<1>3. [node |-> i, call |-> k, term |-> t, last_index |-> last.idx,
       votes_received |-> 1, waiting |-> Peers(i)] \in Elections
  BY <1>1, <1>2 DEF Elections, RowOrNone, Peers
<1>4. VoteRequest(i, k, t, last) \subseteq VoteRequests
  BY <1>1, <1>2, VoteRequestType
<1>5. /\ term' = [term EXCEPT ![i] = t]
      /\ voted_for' = [voted_for EXCEPT ![i] = i]
      /\ grants' = grants \cup {<<i, t, i>>}
      /\ elections' = elections \cup
           {[node |-> i, call |-> k, term |-> t, last_index |-> last.idx,
             votes_received |-> 1, waiting |-> Peers(i)]}
      /\ net' = net \cup VoteRequest(i, k, t, last)
      /\ state' = [state EXCEPT ![i] = "C"]
      /\ UNCHANGED <<logs, memory, heard, writes, connected, restarts, wins, rewound>>
  BY DEF candidate_request_vote
<1> HIDE DEF t, last, k
<1> QED
  BY <1>1, <1>3, <1>4, <1>5 DEF TypeOK, logs, memory
LEMMA TypeVote ==
  ASSUME TypeOK, NEW m \in net, follower_request_vote(m)
  PROVE  TypeOK'
<1>1. /\ m \in VoteRequests /\ m.to \in Node /\ m.from \in Node /\ m.term \in Term
      /\ term[m.to] \in Term
  BY MessageTypes DEF follower_request_vote, TypeOK, Messages, VoteRequests
<1> DEFINE i == m.to
           last == TopRow(raft_logs[i])
           stale == \/ m.last_log_term < last.term
                    \/ m.last_log_term = last.term /\ m.last_log_idx < last.idx
           grant == m.term >= term[i] /\ FreeVote(i, m) /\ ~stale
<1>2. /\ AdoptTerm(i, m.term)
      /\ voted_for' = [voted_for EXCEPT ![i] = IF grant THEN m.from
                                               ELSE IF m.term > term[i] THEN Nil
                                               ELSE @]
      /\ grants' = IF grant THEN grants \cup {<<i, m.term, m.from>>} ELSE grants
      /\ Respond(m, grant, IF grant THEN m.term ELSE term[i])
      /\ UNCHANGED <<logs, memory, heard, elections, writes, connected, restarts,
                     wins, rewound>>
  BY DEF follower_request_vote
<1>3. Answer(m, grant, IF grant THEN m.term ELSE term[i]) \subseteq Answers
  <2>1. grant \in BOOLEAN
    OBVIOUS
  <2> HIDE DEF grant
  <2>2. (IF grant THEN m.term ELSE term[i]) \in Term
    BY <1>1
  <2> QED
    BY <1>1, <2>1, <2>2, AnswerType
<1> HIDE DEF grant
<1>4. net' \subseteq Messages
  BY <1>2, <1>3 DEF Respond, TypeOK, Messages
<1>5. term' \in [Node -> Term] /\ state' \in [Node -> {"F", "C", "L"}]
  BY <1>1, <1>2 DEF AdoptTerm, TypeOK
<1>6. voted_for' \in [Node -> Node \cup {Nil}] /\ grants' \subseteq (Node \X Term \X Node)
  BY <1>1, <1>2 DEF TypeOK
<1> QED
  BY <1>2, <1>4, <1>5, <1>6 DEF TypeOK, Messages, logs, memory

LEMMA AdoptAnswerType ==
  ASSUME TypeOK, NEW i \in Node, NEW t \in Term, AdoptAnswerTerm(i, t)
  PROVE  /\ term' \in [Node -> Term] /\ voted_for' \in [Node -> Node \cup {Nil}]
         /\ state' \in [Node -> {"F", "C", "L"}] /\ rewound' \subseteq Node
BY DEF AdoptAnswerTerm, TypeOK

LEMMA TypeElection ==
  ASSUME TypeOK, NEW c \in elections, NEW a \in net,
         election_refused(c, a) \/ election_won(c, a) \/ election_counted(c, a)
  PROVE  TypeOK'
<1>1. /\ c \in Elections /\ c.node \in Node /\ c.term \in Term /\ c.last_index \in Nat
      /\ a \in Answers /\ a.term \in Term
  BY MessageTypes
     DEF TypeOK, Messages, Elections, Answers, VoteAnswer, election_refused, election_won,
         election_counted
<1>2. Orphaned(net, c) \subseteq Messages
  BY OrphanedType DEF TypeOK, Messages
<1>3. CASE election_refused(c, a)
  <2>1. AdoptAnswerTerm(c.node, a.term)
    BY <1>3 DEF election_refused
  <2> QED
    BY <1>1, <1>2, <1>3, <2>1, AdoptAnswerType
       DEF election_refused, TypeOK, Messages, logs, memory
<1>4. CASE election_won(c, a)
  <2>1. next_index' \in [Node -> [Node -> Nat]]
    BY <1>1, <1>4 DEF election_won, TypeOK
  <2>2. AppendRequest(c.node, Nil, next_index'[c.node]) \subseteq AppendRequests
    BY <1>1, <2>1, AppendRequestType
  <2>3. net' \subseteq Messages /\ elections' \subseteq Elections
    BY <1>2, <1>4, <2>2 DEF election_won, TypeOK, Messages
  <2>4. /\ state' \in [Node -> {"F", "C", "L"}] /\ leader_node' \in [Node -> Node \cup {Nil}]
        /\ wins' \subseteq (Node \X Term)
    BY <1>1, <1>4 DEF election_won, TypeOK
  <2>5. UNCHANGED <<disk, committed_index, last_applied, heard, writes, connected,
                    restarts, grants, rewound>>
    BY <1>4 DEF election_won
  <2> QED
    BY <2>1, <2>3, <2>4, <2>5 DEF TypeOK, Messages, disk
<1>5. CASE election_counted(c, a)
  <2> DEFINE d == [Without(c, a.req.to) EXCEPT !.votes_received = Votes(c, a)]
  <2>1. d \in Elections
    <3>1. Without(c, a.req.to) \in Elections
      BY <1>1 DEF Elections, Without
    <3>2. Votes(c, a) \in Nat
      BY <1>1 DEF Elections, Votes
    <3> QED
      BY <3>1, <3>2 DEF Elections
  <2>2. elections' = (elections \ {c}) \cup {d} /\ net' = net \ {a}
    BY <1>5 DEF election_counted
  <2> HIDE DEF d
  <2> QED
    BY <1>5, <2>1, <2>2 DEF election_counted, TypeOK, disk, logs, memory, history
<1> QED
  BY <1>3, <1>4, <1>5

LEMMA TypeAppend ==
  ASSUME TypeOK, NEW m \in net, follower_append_entries(m)
  PROVE  TypeOK'
<1> DEFINE i == m.to
<1>1. /\ m \in AppendRequests /\ i \in Node /\ m.term \in Term /\ m.entries \in SUBSET Row
      /\ m.leader_commit_idx \in Nat /\ term[i] \in Term
  BY MessageTypes
     DEF follower_append_entries, append_stale, append_empty, append_mismatch,
         append_stored, AppendCurrent, AppendHeard, TypeOK, Messages, AppendRequests
<1>2. /\ heard' = [heard EXCEPT ![i] = TRUE]
      /\ UNCHANGED <<leader_node, next_index, elections, writes, connected, restarts,
                     history>>
  BY DEF follower_append_entries, append_stale, append_empty, append_mismatch,
         append_stored, AppendCurrent, AppendHeard
<1>3. ASSUME NEW yes \in BOOLEAN, NEW t \in Term, Respond(m, yes, t)
      PROVE  net' \subseteq Messages
  BY <1>1, <1>3, AnswerType DEF Respond, TypeOK, Messages
<1>4. ASSUME AppendCurrent(m)
      PROVE  /\ term' \in [Node -> Term] /\ voted_for' \in [Node -> Node \cup {Nil}]
             /\ state' \in [Node -> {"F", "C", "L"}]
  BY <1>1, <1>4 DEF AppendCurrent, AdoptTerm, TypeOK
<1>5. CASE append_stale(m)
  <2>1. net' \subseteq Messages
    BY <1>1, <1>3, <1>5 DEF append_stale
  <2> QED
    BY <1>2, <1>5, <2>1 DEF append_stale, TypeOK, Messages, disk, logs, history
<1>6. CASE append_empty(m) \/ append_mismatch(m)
  <2>1. net' \subseteq Messages /\ AppendCurrent(m)
    BY <1>1, <1>3, <1>6 DEF append_empty, append_mismatch
  <2> QED
    BY <1>2, <1>4, <1>6, <2>1
       DEF append_empty, append_mismatch, TypeOK, Messages, logs, history
<1>7. CASE append_stored(m)
  <2> DEFINE rows == Inserted(raft_logs[i], m.entries)
             last == IF m.entries = {} THEN idx[i] ELSE TopRow(m.entries).idx
             commit == CommitTo(m, last)
             batch == Batch(i, rows, commit)
  <2>1. net' \subseteq Messages /\ AppendCurrent(m)
    BY <1>1, <1>3, <1>7 DEF append_stored
  <2>2. rows \in SUBSET Row /\ last \in Nat /\ batch \in SUBSET Row
    BY <1>1, RowTypes DEF Inserted, Batch, TypeOK, RowOrNone
  <2>3. commit \in Nat /\ TopRow(batch).idx \in Nat
    BY <1>1, <2>2, RowTypes DEF CommitTo, RowOrNone
  <2>4. /\ raft_logs' = [raft_logs EXCEPT ![i] = rows]
        /\ idx' = [idx EXCEPT ![i] = StoredTo(i, last)]
        /\ \/ UNCHANGED <<committed_index, last_applied, applied>>
           \/ /\ committed_index' = [committed_index EXCEPT ![i] = commit]
              /\ last_applied' = [last_applied EXCEPT ![i] =
                                    IF batch = {} THEN @ ELSE TopRow(batch).idx]
              /\ applied' = [applied EXCEPT ![i] = [o \in Op |->
                   applied[i][o] + (IF \E r \in batch : r.op = o THEN 1 ELSE 0)]]
    BY <1>7 DEF append_stored
  <2> HIDE DEF rows, last, commit, batch
  <2>5. raft_logs' \in [Node -> SUBSET Row] /\ idx' \in [Node -> Nat]
    BY <1>1, <2>2, <2>4 DEF StoredTo, TypeOK
  <2>6. committed_index' \in [Node -> Nat] /\ last_applied' \in [Node -> Nat]
    <3>1. CASE UNCHANGED <<committed_index, last_applied, applied>>
      BY <3>1 DEF TypeOK
    <3>2. CASE /\ committed_index' = [committed_index EXCEPT ![i] = commit]
               /\ last_applied' = [last_applied EXCEPT ![i] =
                                     IF batch = {} THEN @ ELSE TopRow(batch).idx]
      <4>1. (IF batch = {} THEN last_applied[i] ELSE TopRow(batch).idx) \in Nat
        BY <1>1, <2>3 DEF TypeOK
      <4>2. last_applied' = [last_applied EXCEPT ![i] =
                IF batch = {} THEN last_applied[i] ELSE TopRow(batch).idx]
        BY <3>2
      <4> QED
        BY <1>1, <2>3, <3>2, <4>1, <4>2 DEF TypeOK
    <3> QED
      BY <2>4, <3>1, <3>2
  <2>7. applied' \in [Node -> [Op -> Nat]]
    <3>1. applied \in [Node -> [Op -> Nat]]
      BY DEF TypeOK
    <3>2. [o \in Op |-> applied[i][o] + (IF \E r \in batch : r.op = o THEN 1 ELSE 0)]
            \in [Op -> Nat]
      BY <1>1, <3>1
    <3> QED
      BY <1>1, <2>4, <3>1, <3>2
  <2> QED
    BY <1>2, <1>4, <2>1, <2>5, <2>6, <2>7 DEF TypeOK, Messages, history
<1> QED
  BY <1>5, <1>6, <1>7 DEF follower_append_entries

LEMMA TypeAppendAnswer ==
  ASSUME TypeOK, NEW a \in net,
         append_accepted(a) \/ append_backed_off(a) \/ append_deposed(a)
  PROVE  TypeOK'
<1>1. AppendAnswer(a)
  BY DEF append_accepted, append_backed_off, append_deposed
<1>2. /\ a \in Answers /\ a.req \in AppendRequests /\ a.term \in Term
  <2>1. a \in Answers /\ a.req.type = "append"
    BY <1>1, MessageTypes DEF AppendAnswer, TypeOK, Messages
  <2> QED
    BY <2>1 DEF Answers, VoteRequests
<1>3. /\ a.req.from \in Node /\ a.req.to \in Node /\ a.req.prev_log_idx \in Nat
      /\ a.req.entries \in SUBSET Row
  BY <1>2 DEF AppendRequests
<1>4. /\ writes' \in [Op -> Writes]
      /\ \A o \in Op : writes'[o].status \in {"inserted", "open"} => writes'[o].node \in Node
  BY <1>1, <1>2, WriteHearsType DEF AppendAnswer, TypeOK
<1>5. /\ net' \subseteq Messages
      /\ UNCHANGED <<logs, leader_node, committed_index, last_applied, heard,
                     elections, connected, restarts, grants, wins>>
  BY <1>1 DEF AppendAnswer, TypeOK, Messages
<1>6. CASE append_accepted(a) \/ append_backed_off(a)
  <2>1. NextAfter(a.req) \in Nat
    BY <1>3, RowTypes DEF NextAfter, RowOrNone
  <2>2. \E n \in Nat : next_index' = [next_index EXCEPT ![a.req.from][a.req.to] = n]
    <3>1. next_index[a.req.from][a.req.to] \in Nat
      BY <1>3 DEF TypeOK
    <3> QED
      BY <1>3, <1>6, <2>1, <3>1 DEF append_accepted, append_backed_off
  <2>3. next_index' \in [Node -> [Node -> Nat]]
    BY <1>3, <2>2 DEF TypeOK
  <2>4. UNCHANGED <<term, voted_for, state, rewound>>
    BY <1>6 DEF append_accepted, append_backed_off
  <2> QED
    BY <1>4, <1>5, <2>3, <2>4 DEF TypeOK, Messages, logs
<1>7. CASE append_deposed(a)
  <2>1. /\ term' \in [Node -> Term] /\ voted_for' \in [Node -> Node \cup {Nil}]
        /\ state' \in [Node -> {"F", "C", "L"}] /\ rewound' \subseteq Node
    BY <1>2, <1>3, <1>7, AdoptAnswerType DEF append_deposed
  <2> QED
    BY <1>4, <1>5, <1>7, <2>1 DEF append_deposed, TypeOK, Messages, logs
<1> QED
  BY <1>6, <1>7

LEMMA TypeWrite ==
  ASSUME TypeOK, NEW o \in Op,
         (\E i \in Node : leader_append_log(i, o)) \/ increment_idx(o) \/ write_returned(o)
  PROVE  TypeOK'
<1>1. writes[o] \in Writes /\ writes[o].waiting \in SUBSET Node /\ writes[o].new_idx \in Nat
      /\ writes[o].acks \in Nat /\ writes[o].node \in Node \cup {Nil}
  BY DEF TypeOK, Writes
<1>2. ASSUME NEW i \in Node, leader_append_log(i, o) PROVE TypeOK'
  <2> DEFINE row == [idx |-> idx[i] + 1, term |-> term[i], op |-> o]
             w == [status |-> "inserted", node |-> i, new_idx |-> row.idx, acks |-> 1,
                   waiting |-> Peers(i)]
             e == [writes[o] EXCEPT !.status = "error"]
  <2>1. row \in Row /\ w \in Writes
    BY <1>2 DEF Row, Writes, Peers, TypeOK
  <2>2. e \in Writes /\ e.status = "error"
    BY <1>1 DEF Writes
  <2>3. UNCHANGED <<term, voted_for, idx, applied, state, memory, heard, elections,
                    connected, net, restarts, history>>
    BY <1>2 DEF leader_append_log
  <2>4. \/ /\ raft_logs' = [raft_logs EXCEPT ![i] = @ \cup {row}]
           /\ writes' = [writes EXCEPT ![o] = w]
        \/ /\ writes' = [writes EXCEPT ![o] = e]
           /\ UNCHANGED raft_logs
    BY <1>2 DEF leader_append_log, TypeOK
  <2>5. w.status = "inserted" /\ w.node = i
    OBVIOUS
  <2> HIDE DEF row, w, e
  <2>6. /\ raft_logs \in [Node -> SUBSET Row] /\ writes \in [Op -> Writes]
        /\ \A q \in Op : writes[q].status \in {"inserted", "open"} => writes[q].node \in Node
    BY DEF TypeOK
  <2>7. raft_logs' \in [Node -> SUBSET Row]
    BY <2>1, <2>4, <2>6
  <2>8. writes' \in [Op -> Writes]
    BY <2>1, <2>2, <2>4, <2>6
  <2>9. \A q \in Op : writes'[q].status \in {"inserted", "open"} => writes'[q].node \in Node
    BY <2>2, <2>4, <2>5, <2>6
  <2> QED
    BY <2>3, <2>7, <2>8, <2>9 DEF TypeOK, memory, history
<1>3. ASSUME NEW st \in {"open", "ok"},
             writes' = [writes EXCEPT ![o].status = st], writes[o].node \in Node
      PROVE  /\ writes' \in [Op -> Writes]
             /\ \A q \in Op : writes'[q].status \in {"inserted", "open"} => writes'[q].node \in Node
  <2> DEFINE e == [writes[o] EXCEPT !.status = st]
  <2>1. e \in Writes /\ e.node = writes[o].node
    BY <1>1 DEF Writes
  <2>2. writes' = [writes EXCEPT ![o] = e]
    BY <1>3 DEF TypeOK
  <2> HIDE DEF e
  <2> QED
    BY <1>3, <2>1, <2>2 DEF TypeOK
<1>4. CASE increment_idx(o)
  <2>1. writes[o].node \in Node
    BY <1>4 DEF increment_idx, TypeOK
  <2>2. AppendRequest(writes[o].node, o, next_index[writes[o].node]) \subseteq AppendRequests
    BY <2>1, AppendRequestType DEF TypeOK
  <2>3. /\ idx' = [idx EXCEPT ![writes[o].node] = @ + 1]
        /\ net' = net \cup AppendRequest(writes[o].node, o, next_index[writes[o].node])
        /\ writes' = [writes EXCEPT ![o].status = "open"]
        /\ UNCHANGED <<term, voted_for, raft_logs, applied, state, memory, heard,
                       elections, connected, restarts, history>>
    BY <1>4 DEF increment_idx
  <2>4. idx' \in [Node -> Nat] /\ net' \subseteq Messages
    BY <2>1, <2>2, <2>3 DEF TypeOK, Messages
  <2>5. /\ writes' \in [Op -> Writes]
        /\ \A q \in Op : writes'[q].status \in {"inserted", "open"} => writes'[q].node \in Node
    BY <1>3, <2>1, <2>3
  <2> QED
    BY <2>3, <2>4, <2>5 DEF TypeOK, Messages, memory, history
<1>5. CASE write_returned(o)
  <2>1. writes[o].node \in Node
    BY <1>5 DEF write_returned, TypeOK
  <2>2. /\ \/ /\ committed_index' = [committed_index EXCEPT ![writes[o].node] = writes[o].new_idx]
              /\ last_applied' = [last_applied EXCEPT ![writes[o].node] = writes[o].new_idx]
           \/ UNCHANGED <<committed_index, last_applied>>
        /\ applied' = [applied EXCEPT ![writes[o].node][o] = @ + 1]
        /\ writes' = [writes EXCEPT ![o].status = "ok"]
        /\ UNCHANGED <<term, voted_for, idx, raft_logs, state, leader_node, next_index,
                       heard, elections, connected, net, restarts, history>>
    BY <1>5 DEF write_returned
  <2> DEFINE n == writes[o].node
  <2>3. committed_index' \in [Node -> Nat] /\ last_applied' \in [Node -> Nat]
    <3>1. writes[o].new_idx \in Nat /\ n \in Node
      BY <1>1, <2>1
    <3>2. \/ /\ committed_index' = [committed_index EXCEPT ![n] = writes[o].new_idx]
             /\ last_applied' = [last_applied EXCEPT ![n] = writes[o].new_idx]
          \/ UNCHANGED <<committed_index, last_applied>>
      BY <2>2
    <3> HIDE DEF n
    <3> QED
      BY <3>1, <3>2 DEF TypeOK
  <2>4. applied' \in [Node -> [Op -> Nat]]
    <3>1. n \in Node /\ applied' = [applied EXCEPT ![n][o] = @ + 1]
      BY <2>1, <2>2
    <3> HIDE DEF n
    <3> QED
      BY <3>1 DEF TypeOK
  <2>5. /\ writes' \in [Op -> Writes]
        /\ \A q \in Op : writes'[q].status \in {"inserted", "open"} => writes'[q].node \in Node
    BY <1>3, <2>1, <2>2
  <2> QED
    BY <2>2, <2>3, <2>4, <2>5 DEF TypeOK, history
<1> QED
  BY <1>2, <1>4, <1>5

LEMMA TypeEnvironment ==
  ASSUME TypeOK,
         (\E m \in net : rpc_timeout(m)) \/ (\E i \in Node : restart(i))
  PROVE  TypeOK'
<1>1. ASSUME NEW m \in net, rpc_timeout(m) PROVE TypeOK'
  <2> DEFINE q == IF IsRequest(m) THEN m ELSE m.req
  <2>1. m \in Messages /\ q \in VoteRequests \cup AppendRequests
    <3>1. m \in Messages
      BY DEF TypeOK, Messages
    <3> QED
      BY <3>1, MessageTypes DEF Messages, Answers
  <2>2. net' \subseteq Messages
    BY <1>1, <2>1, MessageTypes, Abandoned DEF rpc_timeout, TypeOK, Messages
  <2>3. CASE q.type = "vote"
    <3>1. elections' = {IF Awaits(c, q) THEN Without(c, q.to) ELSE c : c \in elections}
          /\ UNCHANGED writes
      BY <1>1, <2>3 DEF rpc_timeout
    <3>2. \A c \in elections : Without(c, q.to) \in Elections
      BY DEF TypeOK, Elections, Without
    <3>3. elections' \subseteq Elections
      BY <3>1, <3>2 DEF TypeOK
    <3> QED
      BY <1>1, <2>2, <3>1, <3>3 DEF rpc_timeout, TypeOK, Messages, disk, memory, history
  <2>4. CASE q.type = "append"
    <3>1. WriteHears(q, FALSE) /\ UNCHANGED elections
      BY <1>1, <2>4 DEF rpc_timeout
    <3>2. q \in AppendRequests
      BY <2>1, <2>4 DEF VoteRequests
    <3>3. /\ writes' \in [Op -> Writes]
          /\ \A o \in Op : writes'[o].status \in {"inserted", "open"} => writes'[o].node \in Node
      BY <3>1, <3>2, WriteHearsType DEF TypeOK
    <3> QED
      BY <1>1, <2>2, <3>1, <3>3 DEF rpc_timeout, TypeOK, Messages, disk, memory, history
  <2> QED
    BY <2>1, <2>3, <2>4 DEF VoteRequests, AppendRequests
<1>2. ASSUME NEW i \in Node, restart(i) PROVE TypeOK'
  <2>1. net' \subseteq Messages
    <3>1. ASSUME NEW m \in net
          PROVE  (IF IsRequest(m) /\ m.from = i THEN [m EXCEPT !.live = FALSE] ELSE m)
                   \in Messages
      <4>1. m \in Messages
        BY DEF TypeOK, Messages
      <4> QED
        BY <4>1, MessageTypes, Abandoned DEF Messages
    <3>2. net' = {IF IsRequest(m) /\ m.from = i THEN [m EXCEPT !.live = FALSE] ELSE m :
                    m \in {n \in net : IsRequest(n) \/ n.req.from # i}}
      BY <1>2 DEF restart
    <3> QED
      BY <3>1, <3>2
  <2>2. /\ writes' \in [Op -> Writes]
        /\ \A o \in Op : writes'[o].status \in {"inserted", "open"} => writes'[o].node \in Node
    <3>1. \A o \in Op : /\ writes[o] \in Writes
                        /\ [writes[o] EXCEPT !.status = "dead"] \in Writes
                        /\ [writes[o] EXCEPT !.status = "dead"].status = "dead"
      BY DEF TypeOK, Writes
    <3>2. writes' = [o \in Op |->
                  IF writes[o].node = i /\ writes[o].status \in {"inserted", "open"}
                  THEN [writes[o] EXCEPT !.status = "dead"] ELSE writes[o]]
      BY <1>2 DEF restart
    <3> QED
      BY <3>1, <3>2 DEF TypeOK
  <2>3. /\ state' \in [Node -> {"F", "C", "L"}] /\ leader_node' \in [Node -> Node \cup {Nil}]
        /\ committed_index' \in [Node -> Nat] /\ last_applied' \in [Node -> Nat]
        /\ next_index' \in [Node -> [Node -> Nat]] /\ heard' \in [Node -> BOOLEAN]
        /\ elections' \subseteq Elections /\ restarts' \in Nat
    BY <1>2 DEF restart, TypeOK
  <2>4. UNCHANGED <<disk, connected, history>>
    BY <1>2 DEF restart
  <2> QED
    BY <2>1, <2>2, <2>3, <2>4 DEF TypeOK, Messages, disk, history
<1> QED
  BY <1>1, <1>2

LEMMA TypeTimer ==
  ASSUME TypeOK, NEW i \in Node,
         leader_timeout_tick(i) \/ heartbeat_tick(i) \/ get_leader_id(i)
  PROVE  TypeOK'
<1>1. CASE leader_timeout_tick(i)
  BY <1>1 DEF leader_timeout_tick, TypeOK, disk, memory, history
<1>2. CASE heartbeat_tick(i)
  <2>1. AppendRequest(i, Nil, next_index[i]) \subseteq AppendRequests
    BY AppendRequestType DEF TypeOK
  <2> QED
    BY <1>2, <2>1 DEF heartbeat_tick, TypeOK, disk, memory, history
<1>3. CASE get_leader_id(i)
  BY <1>3 DEF get_leader_id, TypeOK, disk, memory, history
<1> QED
  BY <1>1, <1>2, <1>3

LEMMA TypeInit == Init => TypeOK
BY TermFacts DEF Init, TypeOK, Writes

LEMMA TypeStep == TypeOK /\ [Next]_vars => TypeOK'
<1> SUFFICES ASSUME TypeOK, [Next]_vars PROVE TypeOK'
  OBVIOUS
<1>1. CASE UNCHANGED vars
  BY <1>1 DEF vars, TypeOK, disk, memory, history, Messages
<1>2. CASE Next
  <2>1. ASSUME NEW c \in elections, election_over(c) PROVE TypeOK'
    BY <2>1 DEF election_over, TypeOK, disk, memory, history
  <2> QED
    BY <1>2, <2>1, TypeCandidate, TypeVote, TypeElection, TypeAppend, TypeAppendAnswer,
       TypeWrite, TypeEnvironment, TypeTimer DEF Next
<1> QED
  BY <1>1, <1>2

(* Every variable of RaftNode keeps its type in every behaviour. *)
THEOREM TypeCorrect == Spec => []TypeOK
BY TypeInit, TypeStep, PTL DEF Spec

-----------------------------------------------------------------------------
(* Elections.  What the handlers keep between them: a node that was never
   rewound remembers its last vote, a granted answer on its way has its vote
   behind it, and a running election has counted only votes that were cast. *)
VoteRemembered ==
  \A v \in Node \ rewound, t \in Term, c \in Node : <<v, t, c>> \in grants =>
    t < term[v] \/ (t = term[v] /\ voted_for[v] = c)
AnswersBacked ==
  \A a \in net : a.type = "answer" /\ a.req.type = "vote" /\ a.yes =>
    <<a.req.to, a.req.term, a.req.from>> \in grants
Counted(c) == Promise!Voters(c.node, c.term) \ c.waiting
VotesBacked == \A c \in elections : c.votes_received <= Cardinality(Counted(c))
VoteInv == VoteRemembered /\ AnswersBacked /\ VotesBacked

(* Ballot counts as this module does. *)
LEMMA SameCount == \A S : Promise!Cardinality(S) = Cardinality(S)
BY DEF Promise!Cardinality, Cardinality

(* A larger set of nodes counts for at least as much. *)
LEMMA NodesCount ==
  ASSUME NEW A \in SUBSET Node, NEW B \in SUBSET Node, A \subseteq B
  PROVE  /\ Cardinality(A) \in Nat /\ Cardinality(B) \in Nat
         /\ Cardinality(A) <= Cardinality(B)
         /\ \A p \in B \ A : Cardinality(A) + 1 <= Cardinality(B)
<1>1. IsFiniteSet(A) /\ IsFiniteSet(B)
  BY NodeAssumption, FS_Subset
<1>2. ASSUME NEW p \in B \ A PROVE Cardinality(A) + 1 <= Cardinality(B)
  <2>1. A \cup {p} \in SUBSET B
    BY <1>2
  <2>2. Cardinality(A \cup {p}) = Cardinality(A) + 1
    BY <1>1, <1>2, FS_AddElement
  <2>3. Cardinality(A \cup {p}) <= Cardinality(B)
    BY <1>1, <2>1, FS_Subset
  <2> QED
    BY <2>2, <2>3
<1> QED
  BY <1>1, <1>2, FS_Subset, FS_CardinalityType

(* Votes backed stay backed when the votes only grow and no election counts a
   vote: the elections after the step are some of those before, waiting for
   no more nodes. *)
LEMMA VotesStayBacked ==
  ASSUME TypeOK, VotesBacked, grants \subseteq grants',
         \A d \in elections' : \E c \in elections :
            /\ d.node = c.node /\ d.term = c.term /\ d.waiting \subseteq c.waiting
            /\ d.votes_received = c.votes_received
  PROVE  VotesBacked'
<1> SUFFICES ASSUME NEW d \in elections'
             PROVE  d.votes_received <= Cardinality(Counted(d)')
  BY DEF VotesBacked, Counted
<1>1. PICK c \in elections : /\ d.node = c.node /\ d.term = c.term
                             /\ d.waiting \subseteq c.waiting
                             /\ d.votes_received = c.votes_received
  OBVIOUS
<1>2. Counted(c) \subseteq Counted(d)' /\ Counted(d)' \in SUBSET Node
  BY <1>1 DEF Counted, Promise!Voters
<1>3. Cardinality(Counted(c)) <= Cardinality(Counted(d)')
      /\ Cardinality(Counted(c)) \in Nat /\ Cardinality(Counted(d)') \in Nat
  BY <1>2, NodesCount
<1>4. c.votes_received <= Cardinality(Counted(c)) /\ c.votes_received \in Nat
  BY DEF VotesBacked, TypeOK, Elections
<1> QED
  BY <1>1, <1>3, <1>4

(* A step that touches no vote and no term, and counts no vote. *)
LEMMA QuietStep ==
  ASSUME TypeOK, VoteInv, UNCHANGED <<grants, rewound, term, voted_for>>,
         \A d \in elections' : \E c \in elections :
            /\ d.node = c.node /\ d.term = c.term /\ d.waiting \subseteq c.waiting
            /\ d.votes_received = c.votes_received,
         \A a \in net' : a.type = "answer" /\ a.req.type = "vote" => a \in net
  PROVE  VoteInv'
<1>1. VotesBacked'
  BY VotesStayBacked DEF VoteInv
<1>2. VoteRemembered' /\ AnswersBacked'
  BY DEF VoteInv, VoteRemembered, AnswersBacked
<1> QED
  BY <1>1, <1>2 DEF VoteInv

LEMMA VoteCandidate ==
  ASSUME TypeOK, VoteInv, NEW i \in Node, candidate_request_vote(i)
  PROVE  VoteInv' /\ Promise!Next
<1>1. PICK t, e, requests :
        /\ t = term[i] + 1
        /\ e.node = i /\ e.term = t /\ e.waiting = Node \ {i} /\ e.votes_received = 1
        /\ \A m \in requests : m.type = "vote"
        /\ term' = [term EXCEPT ![i] = t]
        /\ voted_for' = [voted_for EXCEPT ![i] = i]
        /\ grants' = grants \cup {<<i, t, i>>}
        /\ elections' = elections \cup {e}
        /\ net' = net \cup requests
        /\ UNCHANGED <<wins, rewound>>
  <2> DEFINE t == term[i] + 1
             k == CHOOSE n \in FreeCalls(i) : TRUE
             last == TopRow(raft_logs[i])
             e == [node |-> i, call |-> k, term |-> t, last_index |-> last.idx,
                   votes_received |-> 1, waiting |-> Peers(i)]
             requests == VoteRequest(i, k, t, last)
  <2>1. /\ term' = [term EXCEPT ![i] = t]
        /\ voted_for' = [voted_for EXCEPT ![i] = i]
        /\ grants' = grants \cup {<<i, t, i>>}
        /\ elections' = elections \cup {e}
        /\ net' = net \cup requests
        /\ UNCHANGED <<wins, rewound>>
    BY DEF candidate_request_vote
  <2>2. e.node = i /\ e.term = t /\ e.waiting = Node \ {i} /\ e.votes_received = 1
    BY DEF Peers
  <2>3. \A m \in requests : m.type = "vote"
    BY DEF VoteRequest
  <2>4. t = term[i] + 1
    OBVIOUS
  <2> HIDE DEF t, e, requests
  <2> QED
    BY <2>1, <2>2, <2>3, <2>4
<1>2. t \in Term /\ term[i] \in Nat /\ term \in [Node -> Nat]
  BY <1>1, TermFacts DEF candidate_request_vote, TypeOK
<1>5. Promise!Next
  <2>1. i \in rewound \/ \A d \in Node : <<i, t, d>> \notin grants
    BY <1>1, <1>2 DEF VoteInv, VoteRemembered
  <2>2. Promise!Cast(i, t, i)
    BY <1>1, <2>1 DEF Promise!Cast
  <2> QED
    BY <1>2, <2>2 DEF Promise!Next
<1>6. VoteRemembered'
  <2> SUFFICES ASSUME NEW v \in Node \ rewound, NEW s \in Term, NEW c \in Node,
                      <<v, s, c>> \in grants'
               PROVE  s < term'[v] \/ (s = term'[v] /\ voted_for'[v] = c)
    BY <1>1 DEF VoteRemembered
  <2>1. CASE <<v, s, c>> \in grants
    <3>1. s < term[v] \/ (s = term[v] /\ voted_for[v] = c)
      BY <2>1 DEF VoteInv, VoteRemembered
    <3>2. s \in Nat /\ term[v] \in Nat
      BY TermFacts, <1>2
    <3> QED
      BY <1>1, <1>2, <3>1, <3>2 DEF TypeOK
  <2>2. CASE <<v, s, c>> = <<i, t, i>>
    BY <1>1, <1>2, <2>2 DEF TypeOK
  <2> QED
    BY <1>1, <2>1, <2>2
<1>7. AnswersBacked'
  BY <1>1 DEF VoteInv, AnswersBacked
<1>8. VotesBacked'
  <2>1. ASSUME NEW d \in elections PROVE d.votes_received <= Cardinality(Counted(d)')
    <3>1. Counted(d) \subseteq Counted(d)' /\ Counted(d)' \in SUBSET Node
      BY <1>1 DEF Counted, Promise!Voters
    <3>2. /\ Cardinality(Counted(d)) <= Cardinality(Counted(d)')
          /\ Cardinality(Counted(d)) \in Nat /\ Cardinality(Counted(d)') \in Nat
      BY <3>1, NodesCount
    <3>3. d.votes_received \in Nat /\ d.votes_received <= Cardinality(Counted(d))
      BY DEF VoteInv, VotesBacked, TypeOK, Elections
    <3> QED
      BY <3>2, <3>3
  <2>2. 1 <= Cardinality(Counted(e)')
    <3>1. i \in Counted(e)' /\ Counted(e)' \in SUBSET Node
      BY <1>1 DEF Counted, Promise!Voters
    <3>2. /\ Cardinality({}) \in Nat
          /\ Cardinality({}) + 1 <= Cardinality(Counted(e)') /\ Cardinality(Counted(e)') \in Nat
      BY <3>1, NodesCount, {} \in SUBSET Node
    <3> QED
      BY <3>2
  <2>3. \A d \in elections' : d \in elections \/ d = e
    BY <1>1
  <2> QED
    BY <1>1, <2>1, <2>2, <2>3 DEF VotesBacked, Counted
<1> QED
  BY <1>5, <1>6, <1>7, <1>8 DEF VoteInv

(* A vote given is a vote cast: voted_for is what the voter remembers of it. *)
LEMMA VoteFollower ==
  ASSUME TypeOK, VoteInv, NEW m \in net, follower_request_vote(m)
  PROVE  VoteInv' /\ [Promise!Next]_(Promise!vars)
<1> DEFINE i == m.to
           t == m.term
           c == m.from
           Effect(grant, answer) ==
              /\ grant => t >= term[i] /\ voted_for[i] \in {Nil, c}
              /\ term' = [term EXCEPT ![i] = IF t > term[i] THEN t ELSE @]
              /\ voted_for' = [voted_for EXCEPT ![i] = IF grant THEN c
                                                       ELSE IF t > term[i] THEN Nil ELSE @]
              /\ grants' = IF grant THEN grants \cup {<<i, t, c>>} ELSE grants
              /\ \A a \in answer : a.req = m /\ (a.yes => grant)
              /\ net' = (net \ {m}) \cup answer
              /\ UNCHANGED <<elections, wins, rewound>>
<1>0. PICK grant \in BOOLEAN : \E answer : Effect(grant, answer)
  <2> DEFINE last == TopRow(raft_logs[i])
             stale == \/ m.last_log_term < last.term
                      \/ m.last_log_term = last.term /\ m.last_log_idx < last.idx
             yes == t >= term[i] /\ FreeVote(i, m) /\ ~stale
             answers == Answer(m, yes, IF yes THEN t ELSE term[i])
  <2>1. /\ AdoptTerm(i, t)
        /\ voted_for' = [voted_for EXCEPT ![i] = IF yes THEN c
                                                 ELSE IF t > term[i] THEN Nil ELSE @]
        /\ grants' = IF yes THEN grants \cup {<<i, t, c>>} ELSE grants
        /\ net' = (net \ {m}) \cup answers
        /\ UNCHANGED <<elections, wins, rewound>>
    BY DEF follower_request_vote, Respond
  <2>2. yes \in BOOLEAN /\ (yes => t >= term[i] /\ voted_for[i] \in {Nil, c})
    BY DEF FreeVote
  <2> HIDE DEF yes
  <2>3. \A a \in answers : a.req = m /\ (a.yes => yes)
    BY <2>2 DEF Answer
  <2> HIDE DEF answers
  <2>4. term' = [term EXCEPT ![i] = IF t > term[i] THEN t ELSE @]
    BY <2>1 DEF AdoptTerm
  <2> QED
    BY <2>1, <2>2, <2>3, <2>4
<1>1. PICK answer : Effect(grant, answer)
  BY <1>0
<1>2. /\ i \in Node /\ t \in Term /\ c \in Node /\ t \in Nat /\ m.type = "vote"
  BY <1>1, MessageTypes, TermFacts
     DEF follower_request_vote, TypeOK, Messages, VoteRequests
<1>3. /\ term \in [Node -> Nat] /\ voted_for \in [Node -> Node \cup {Nil}]
  BY TermFacts DEF TypeOK
<1>4. grants \subseteq grants' /\ \A g \in grants' : g \in grants \/ (grant /\ g = <<i, t, c>>)
  BY <1>1
<1>5. ASSUME grant, i \notin rewound, NEW d \in Node, <<i, t, d>> \in grants
      PROVE  d = c
  BY <1>1, <1>2, <1>3, <1>5, NodeAssumption DEF VoteInv, VoteRemembered
<1>6. [Promise!Next]_(Promise!vars)
  <2>1. CASE ~grant
    BY <1>1, <2>1 DEF Promise!vars
  <2>2. CASE grant
    <3>1. Promise!Cast(i, t, c)
      BY <1>1, <1>5, <2>2 DEF Promise!Cast
    <3> QED
      BY <1>2, <3>1 DEF Promise!Next
  <2> QED
    BY <2>1, <2>2
<1>7. VoteRemembered'
  <2> SUFFICES ASSUME NEW v \in Node \ rewound, NEW s \in Term, NEW d \in Node,
                      <<v, s, d>> \in grants'
               PROVE  s < term'[v] \/ (s = term'[v] /\ voted_for'[v] = d)
    BY <1>1 DEF VoteRemembered
  <2>0. s \in Nat /\ term[v] \in Nat
    BY TermFacts, <1>3
  <2>1. CASE <<v, s, d>> \in grants
    <3>1. s < term[v] \/ (s = term[v] /\ voted_for[v] = d)
      BY <2>1 DEF VoteInv, VoteRemembered
    <3>2. CASE v # i
      BY <1>1, <1>2, <1>3, <3>1, <3>2
    <3>3. CASE v = i /\ s < term[i]
      BY <1>1, <1>2, <1>3, <2>0, <3>3
    <3>4. CASE v = i /\ s = term[i] /\ voted_for[i] = d
      <4>1. CASE t > term[i]
        BY <1>1, <1>2, <1>3, <2>0, <3>4, <4>1
      <4>2. CASE ~(t > term[i]) /\ grant
        <5>1. t = s
          BY <1>1, <1>2, <2>0, <3>4, <4>2
        <5>2. d = c
          BY <1>5, <2>1, <3>4, <4>2, <5>1
        <5> QED
          BY <1>1, <1>2, <1>3, <3>4, <4>2, <5>2
      <4>3. CASE ~(t > term[i]) /\ ~grant
        BY <1>1, <1>2, <1>3, <3>4, <4>3
      <4> QED
        BY <4>1, <4>2, <4>3
    <3> QED
      BY <3>1, <3>2, <3>3, <3>4
  <2>2. CASE grant /\ <<v, s, d>> = <<i, t, c>>
    <3>1. t >= term[i]
      BY <1>1, <2>2
    <3>2. term'[i] = t
      BY <1>1, <1>2, <1>3, <3>1
    <3>3. voted_for'[i] = c
      BY <1>1, <1>2, <1>3, <2>2
    <3> QED
      BY <2>2, <3>2, <3>3
  <2> QED
    BY <1>4, <2>1, <2>2
<1>8. AnswersBacked'
  <2> SUFFICES ASSUME NEW a \in net', a.type = "answer", a.req.type = "vote", a.yes
               PROVE  <<a.req.to, a.req.term, a.req.from>> \in grants'
    BY DEF AnswersBacked
  <2>1. CASE a \in net
    BY <1>4, <2>1 DEF VoteInv, AnswersBacked
  <2>2. CASE a \in answer
    BY <1>1, <2>2
  <2> QED
    BY <1>1, <2>1, <2>2
<1>9. VotesBacked'
  BY <1>1, <1>4, VotesStayBacked DEF VoteInv
<1> QED
  BY <1>6, <1>7, <1>8, <1>9 DEF VoteInv

(* A term taken from an answer: either it is higher than the stored one, and the
   votes remembered are of older terms, or the node is rewound. *)
LEMMA VoteAdopted ==
  ASSUME TypeOK, VoteInv, NEW i \in Node, NEW t \in Term, AdoptAnswerTerm(i, t),
         UNCHANGED <<grants, wins>>, elections' \subseteq elections,
         \A a \in net' : a.type = "answer" /\ a.req.type = "vote" => a \in net
  PROVE  VoteInv' /\ [Promise!Next]_(Promise!vars)
<1>1. /\ term' = [term EXCEPT ![i] = t]
      /\ rewound' = IF t > term[i] THEN rewound ELSE rewound \cup {i}
  BY DEF AdoptAnswerTerm
<1>2. \A v \in Node \ {i} : voted_for'[v] = voted_for[v] /\ term'[v] = term[v]
  BY DEF AdoptAnswerTerm, TypeOK
<1>3. term[i] \in Nat /\ t \in Nat /\ term'[i] = t
  BY <1>1, TermFacts DEF TypeOK
<1>4. [Promise!Next]_(Promise!vars)
  <2>1. CASE t > term[i]
    BY <1>1, <2>1 DEF Promise!vars
  <2>2. CASE ~(t > term[i])
    BY <1>1, <2>2 DEF Promise!Next, Promise!Rewind
  <2> QED
    BY <2>1, <2>2
<1>5. VoteRemembered'
  <2> SUFFICES ASSUME NEW v \in Node \ rewound', NEW s \in Term, NEW d \in Node,
                      <<v, s, d>> \in grants
               PROVE  s < term'[v] \/ (s = term'[v] /\ voted_for'[v] = d)
    BY DEF VoteRemembered
  <2>1. v \notin rewound /\ (v = i => t > term[i])
    BY <1>1
  <2>2. s < term[v] \/ (s = term[v] /\ voted_for[v] = d)
    BY <2>1 DEF VoteInv, VoteRemembered
  <2>3. s \in Nat
    BY TermFacts
  <2> QED
    BY <1>2, <1>3, <2>1, <2>2, <2>3
<1>6. AnswersBacked' /\ VotesBacked'
  BY VotesStayBacked DEF VoteInv, AnswersBacked
<1> QED
  BY <1>4, <1>5, <1>6 DEF VoteInv

(* The answer counted next adds a voter that was not counted before. *)
LEMMA CountedVote ==
  ASSUME TypeOK, VoteInv, NEW c \in elections, NEW a \in net, VoteAnswer(c, a)
  PROVE  /\ Votes(c, a) \in Nat
         /\ Votes(c, a) <= Cardinality(Counted(Without(c, a.req.to)))
         /\ Without(c, a.req.to).waiting = c.waiting \ {a.req.to}
         /\ Without(c, a.req.to).node = c.node /\ Without(c, a.req.to).term = c.term
<1> DEFINE p == a.req.to
           d == Without(c, p)
<1>1. /\ c \in Elections /\ c.votes_received \in Nat
      /\ a \in Answers /\ a.req.type = "vote" /\ p \in c.waiting
      /\ a.req.from = c.node /\ a.req.term = c.term
  BY MessageTypes DEF VoteAnswer, Awaits, Asked, TypeOK, Messages, Elections
<1>2. d.waiting = c.waiting \ {p} /\ d.node = c.node /\ d.term = c.term
  BY <1>1 DEF Without, Elections
<1>3. Counted(c) \subseteq Counted(d) /\ Counted(d) \in SUBSET Node
  BY <1>2 DEF Counted, Promise!Voters
<1>4. /\ Cardinality(Counted(c)) \in Nat /\ Cardinality(Counted(d)) \in Nat
      /\ Cardinality(Counted(c)) <= Cardinality(Counted(d))
      /\ \A q \in Counted(d) \ Counted(c) : Cardinality(Counted(c)) + 1 <= Cardinality(Counted(d))
  BY <1>3, NodesCount
<1>5. c.votes_received <= Cardinality(Counted(c))
  BY DEF VoteInv, VotesBacked
<1>6. a.yes \in BOOLEAN /\ a.type = "answer"
  BY <1>1 DEF Answers
<1>7. a.yes => p \in Counted(d) \ Counted(c)
  <2> SUFFICES ASSUME a.yes PROVE p \in Counted(d) \ Counted(c)
    OBVIOUS
  <2>1. <<p, c.term, c.node>> \in grants
    BY <1>1, <1>6 DEF VoteInv, AnswersBacked
  <2>2. p \in Node
    BY <1>1 DEF Elections
  <2> QED
    BY <1>1, <1>2, <2>1, <2>2 DEF Counted, Promise!Voters
<1> HIDE DEF d, p
<1>8. CASE a.yes
  <2>1. Votes(c, a) = c.votes_received + 1
    BY <1>8 DEF Votes
  <2> QED
    BY <1>1, <1>2, <1>4, <1>5, <1>7, <1>8, <2>1 DEF d, p
<1>9. CASE ~a.yes
  <2>1. Votes(c, a) = c.votes_received
    BY <1>1, <1>9 DEF Votes
  <2> QED
    BY <1>1, <1>2, <1>4, <1>5, <2>1 DEF d, p
<1> QED
  BY <1>6, <1>8, <1>9

LEMMA OrphanedAnswers ==
  ASSUME TypeOK, NEW c, NEW a \in Orphaned(net, c), a.type = "answer"
  PROVE  a \in net
<1>1. PICK m \in net : a = IF IsRequest(m) /\ Asked(c, m) THEN [m EXCEPT !.live = FALSE] ELSE m
  BY DEF Orphaned
<1>2. CASE IsRequest(m)
  <2>1. m \in VoteRequests \cup AppendRequests
    BY <1>2, MessageTypes DEF TypeOK, Messages
  <2>2. a.type = m.type
    BY <1>1, <2>1, Abandoned
  <2> QED
    BY <1>2, <2>2 DEF IsRequest
<1> QED
  BY <1>1, <1>2

(* The answer that makes a majority makes it one of votes cast. *)
LEMMA VoteElection ==
  ASSUME TypeOK, VoteInv, NEW c \in elections, NEW a \in net,
         election_refused(c, a) \/ election_won(c, a) \/ election_counted(c, a)
  PROVE  VoteInv' /\ [Promise!Next]_(Promise!vars)
<1> DEFINE d == Without(c, a.req.to)
<1>1. VoteAnswer(c, a)
  BY DEF election_refused, election_won, election_counted
<1>2. /\ Votes(c, a) \in Nat /\ Votes(c, a) <= Cardinality(Counted(d))
      /\ d.waiting = c.waiting \ {a.req.to} /\ d.node = c.node /\ d.term = c.term
  BY <1>1, CountedVote
<1>3. /\ c \in Elections /\ c.node \in Node /\ c.term \in Term /\ a.term \in Term
      /\ a \in Answers
  BY <1>1, MessageTypes DEF VoteAnswer, TypeOK, Messages, Elections, Answers
<1>4. Counted(d) \subseteq Promise!Voters(c.node, c.term)
  BY <1>2 DEF Counted
<1>5. Promise!Voters(c.node, c.term) \in SUBSET Node
  BY DEF Promise!Voters
<1> HIDE DEF d
<1>6. CASE election_refused(c, a)
  <2>1. /\ AdoptAnswerTerm(c.node, a.term) /\ UNCHANGED <<grants, wins>>
        /\ elections' = elections \ {c} /\ net' = Orphaned(net, c)
    BY <1>6 DEF election_refused
  <2>2. \A b \in net' : b.type = "answer" => b \in net
    BY <2>1, OrphanedAnswers
  <2> QED
    BY <1>3, <2>1, <2>2, VoteAdopted
<1>7. CASE election_won(c, a)
  <2>1. /\ net' = Orphaned(net, c) \cup AppendRequest(c.node, Nil, next_index'[c.node])
        /\ elections' = elections \ {c} /\ wins' = wins \cup {<<c.node, c.term>>}
        /\ UNCHANGED <<term, voted_for, grants, rewound>> /\ Votes(c, a) > majority
    BY <1>7 DEF election_won, disk
  <2>2. \A b \in net' : b.type = "answer" => b \in net
    BY <2>1, OrphanedAnswers DEF AppendRequest
  <2>3. VoteInv'
    BY <2>1, <2>2, QuietStep
  <2>4. Cardinality(Promise!Voters(c.node, c.term)) > Promise!majority
    <3>1. /\ Cardinality(Counted(d)) \in Nat
          /\ Cardinality(Promise!Voters(c.node, c.term)) \in Nat
          /\ Cardinality(Counted(d)) <= Cardinality(Promise!Voters(c.node, c.term))
      BY <1>4, <1>5, NodesCount
    <3>2. Promise!majority = majority
      BY SameCount DEF Promise!majority, majority
    <3>3. majority \in Nat
      <4>1. Cardinality(Node) \in Nat
        BY NodeAssumption, FS_CardinalityType
      <4> QED
        BY <4>1 DEF majority
    <3> QED
      BY <1>2, <2>1, <3>1, <3>2, <3>3
  <2>5. Promise!Win(c.node, c.term)
    BY <2>1, <2>4, SameCount DEF Promise!Win
  <2> QED
    BY <1>3, <2>3, <2>5 DEF Promise!Next
<1>8. CASE election_counted(c, a)
  <2>1. PICK e : /\ e.votes_received = Votes(c, a) /\ e.node = d.node
                 /\ e.term = d.term /\ e.waiting = d.waiting
                 /\ elections' = (elections \ {c}) \cup {e}
                 /\ net' = net \ {a}
                 /\ UNCHANGED <<grants, wins, rewound, term, voted_for>>
    <3> DEFINE f == [d EXCEPT !.votes_received = Votes(c, a)]
    <3>1. /\ f.votes_received = Votes(c, a) /\ f.node = d.node
          /\ f.term = d.term /\ f.waiting = d.waiting
      BY <1>3 DEF d, Without, Elections
    <3>2. /\ elections' = (elections \ {c}) \cup {f} /\ net' = net \ {a}
          /\ UNCHANGED <<grants, wins, rewound, term, voted_for>>
      BY <1>8 DEF election_counted, d, disk, history
    <3> HIDE DEF f
    <3> QED
      BY <3>1, <3>2
  <2>2. VoteRemembered' /\ AnswersBacked'
    BY <2>1 DEF VoteInv, VoteRemembered, AnswersBacked
  <2>3. VotesBacked'
    <3>1. \A f \in elections' : f = e \/ f \in elections
      BY <2>1
    <3>2. \A f : Counted(f)' = Counted(f)
      BY <2>1 DEF Counted, Promise!Voters
    <3>3. Counted(e) = Counted(d)
      BY <2>1 DEF Counted
    <3>4. e.votes_received <= Cardinality(Counted(e)')
      BY <1>2, <2>1, <3>2, <3>3
    <3>5. \A f \in elections : f.votes_received <= Cardinality(Counted(f)')
      BY <3>2 DEF VoteInv, VotesBacked
    <3> QED
      BY <3>1, <3>4, <3>5 DEF VotesBacked
  <2> QED
    BY <2>1, <2>2, <2>3 DEF VoteInv, Promise!vars
<1> QED
  BY <1>6, <1>7, <1>8

(* The handler of appends clears a vote only with a term that is newer. *)
LEMMA VoteAppend ==
  ASSUME TypeOK, VoteInv, NEW m \in net, follower_append_entries(m)
  PROVE  VoteInv' /\ UNCHANGED Promise!vars
<1> DEFINE i == m.to
           t == m.term
<1>1. /\ m \in AppendRequests /\ i \in Node /\ t \in Nat /\ term[i] \in Nat
      /\ term \in [Node -> Nat]
  BY MessageTypes, TermFacts
     DEF follower_append_entries, append_stale, append_empty, append_mismatch,
         append_stored, AppendCurrent, AppendHeard, TypeOK, Messages, AppendRequests
<1>2. UNCHANGED <<elections, grants, wins, rewound>>
  BY DEF follower_append_entries, append_stale, append_empty, append_mismatch,
         append_stored, AppendCurrent, AppendHeard, history
<1>3. ASSUME NEW a \in net', a.type = "answer", a.req.type = "vote" PROVE a \in net
  <2>1. ASSUME NEW yes, NEW s, Respond(m, yes, s) PROVE a \in net
    BY <1>1, <1>3, <2>1 DEF Respond, Answer, AppendRequests
  <2> QED
    BY <2>1 DEF follower_append_entries, append_stale, append_empty, append_mismatch,
                append_stored
<1>4. \/ UNCHANGED <<term, voted_for>>
      \/ /\ term' = [term EXCEPT ![i] = IF t > term[i] THEN t ELSE @]
         /\ voted_for' = [voted_for EXCEPT ![i] = IF t > term[i] THEN Nil ELSE @]
  BY DEF follower_append_entries, append_stale, append_empty, append_mismatch,
         append_stored, AppendCurrent, AdoptTerm, disk
<1>5. VotesBacked' /\ AnswersBacked'
  BY <1>2, <1>3, VotesStayBacked DEF VoteInv, AnswersBacked
<1>6. VoteRemembered'
  <2> SUFFICES ASSUME NEW v \in Node \ rewound, NEW s \in Term, NEW d \in Node,
                      <<v, s, d>> \in grants
               PROVE  s < term'[v] \/ (s = term'[v] /\ voted_for'[v] = d)
    BY <1>2 DEF VoteRemembered
  <2>1. s < term[v] \/ (s = term[v] /\ voted_for[v] = d)
    BY DEF VoteInv, VoteRemembered
  <2>2. s \in Nat
    BY TermFacts
  <2>3. CASE UNCHANGED <<term, voted_for>>
    BY <2>1, <2>3
  <2>4. CASE /\ term' = [term EXCEPT ![i] = IF t > term[i] THEN t ELSE @]
             /\ voted_for' = [voted_for EXCEPT ![i] = IF t > term[i] THEN Nil ELSE @]
    BY <1>1, <2>1, <2>2, <2>4 DEF TypeOK
  <2> QED
    BY <1>4, <2>3, <2>4
<1> QED
  BY <1>2, <1>5, <1>6 DEF VoteInv, Promise!vars

LEMMA VoteAppendAnswer ==
  ASSUME TypeOK, VoteInv, NEW a \in net,
         append_accepted(a) \/ append_backed_off(a) \/ append_deposed(a)
  PROVE  VoteInv' /\ [Promise!Next]_(Promise!vars)
<1>1. /\ net' = net \ {a} /\ UNCHANGED <<elections, grants, wins>>
      /\ a.type = "answer" /\ a.req.type = "append"
  BY DEF append_accepted, append_backed_off, append_deposed, AppendAnswer
<1>2. CASE append_accepted(a) \/ append_backed_off(a)
  <2>1. UNCHANGED <<term, voted_for, rewound>>
    BY <1>2 DEF append_accepted, append_backed_off
  <2>2. VoteInv'
    BY <1>1, <2>1, QuietStep
  <2> QED
    BY <1>1, <2>1, <2>2 DEF Promise!vars
<1>3. CASE append_deposed(a)
  <2>1. AdoptAnswerTerm(a.req.from, a.term)
    BY <1>3 DEF append_deposed
  <2>2. a.req.from \in Node /\ a.term \in Term
    <3>1. a \in Answers
      BY <1>1, MessageTypes DEF TypeOK, Messages
    <3> QED
      BY <3>1 DEF Answers, VoteRequests, AppendRequests
  <2> QED
    BY <1>1, <2>1, <2>2, VoteAdopted
<1> QED
  BY <1>2, <1>3

(* What the rest of Next does to votes: nothing, but for calls that end and
   answers that are dropped. *)
LEMMA VoteQuiet ==
  ASSUME TypeOK, VoteInv,
         \/ \E i \in Node : \/ leader_timeout_tick(i) \/ heartbeat_tick(i)
                            \/ get_leader_id(i) \/ restart(i)
                            \/ \E o \in Op : leader_append_log(i, o)
         \/ \E m \in net : rpc_timeout(m)
         \/ \E c \in elections : election_over(c)
         \/ \E o \in Op : increment_idx(o) \/ write_returned(o)
  PROVE  VoteInv' /\ UNCHANGED Promise!vars
<1>1. UNCHANGED <<term, voted_for, grants, wins, rewound>>
  BY DEF leader_timeout_tick, heartbeat_tick, get_leader_id, restart, leader_append_log,
         rpc_timeout, election_over, increment_idx, write_returned, disk, history
<1>2. ASSUME NEW d \in elections'
      PROVE  \E c \in elections : /\ d.node = c.node /\ d.term = c.term
                                  /\ d.waiting \subseteq c.waiting
                                  /\ d.votes_received = c.votes_received
  <2>1. CASE d \in elections
    BY <2>1
  <2>2. ASSUME NEW m \in net, rpc_timeout(m), d \notin elections
        PROVE  \E c \in elections : /\ d.node = c.node /\ d.term = c.term
                                    /\ d.waiting \subseteq c.waiting
                                    /\ d.votes_received = c.votes_received
    <3>1. PICK c, p : c \in elections /\ d = Without(c, p)
      BY <2>2 DEF rpc_timeout
    <3> QED
      BY <3>1 DEF Without, TypeOK, Elections
  <2> QED
    BY <2>1, <2>2 DEF leader_timeout_tick, heartbeat_tick, get_leader_id, restart,
         leader_append_log, election_over, increment_idx, write_returned
<1>3. ASSUME NEW a \in net', a.type = "answer", a.req.type = "vote" PROVE a \in net
  <2>1. ASSUME NEW m \in net, rpc_timeout(m) PROVE a \in net
    <3>1. CASE IsRequest(m)
      <4>1. a \in net \/ a = [m EXCEPT !.live = FALSE]
        BY <2>1, <3>1 DEF rpc_timeout
      <4>2. [m EXCEPT !.live = FALSE].type = m.type
        BY <3>1, MessageTypes, Abandoned DEF TypeOK, Messages
      <4> QED
        BY <1>3, <3>1, <4>1, <4>2 DEF IsRequest
    <3>2. CASE ~IsRequest(m)
      BY <2>1, <3>2 DEF rpc_timeout
    <3> QED
      BY <3>1, <3>2
  <2>2. ASSUME NEW i \in Node, restart(i) PROVE a \in net
    <3>1. PICK m \in net :
            a = IF IsRequest(m) /\ m.from = i THEN [m EXCEPT !.live = FALSE] ELSE m
      BY <2>2 DEF restart
    <3>2. IsRequest(m) => [m EXCEPT !.live = FALSE].type = m.type
      BY MessageTypes, Abandoned DEF TypeOK, Messages
    <3> QED
      BY <1>3, <3>1, <3>2 DEF IsRequest
  <2>3. \A i, w, next : \A b \in AppendRequest(i, w, next) : b.type = "append"
    BY DEF AppendRequest
  <2>4. ASSUME (\E i \in Node : heartbeat_tick(i)) \/ (\E o \in Op : increment_idx(o))
        PROVE  a \in net
    <3>1. PICK i, w, next : net' = net \cup AppendRequest(i, w, next)
      BY <2>4 DEF heartbeat_tick, increment_idx
    <3> QED
      BY <1>3, <2>3, <3>1
  <2> QED
    BY <2>1, <2>2, <2>4 DEF leader_timeout_tick, get_leader_id, leader_append_log,
                            election_over, write_returned
<1>4. VoteInv'
  BY <1>1, <1>2, <1>3, QuietStep
<1> QED
  BY <1>1, <1>4 DEF Promise!vars

LEMMA VoteInit == Init => VoteInv /\ Promise!Init
BY DEF Init, VoteInv, VoteRemembered, AnswersBacked, VotesBacked, Promise!Init

LEMMA VoteStep == TypeOK /\ VoteInv /\ [Next]_vars => VoteInv' /\ [Promise!Next]_(Promise!vars)
<1> SUFFICES ASSUME TypeOK, VoteInv, [Next]_vars
             PROVE  VoteInv' /\ [Promise!Next]_(Promise!vars)
  OBVIOUS
<1>1. CASE UNCHANGED vars
  <2>1. UNCHANGED <<grants, wins, rewound, term, voted_for, elections, net>>
    BY <1>1 DEF vars, disk, history
  <2>2. VoteInv'
    BY <2>1, QuietStep
  <2> QED
    BY <2>1, <2>2 DEF Promise!vars
<1>2. CASE Next
  BY <1>2, VoteCandidate, VoteFollower, VoteElection, VoteAppend, VoteAppendAnswer,
     VoteQuiet DEF Next
<1> QED
  BY <1>1, <1>2

(* Every behaviour of the nodes, with any number of them, whatever is lost, late
   or restarted, is one of the abstract ballot: no vote is given twice in a
   term but by a rewound node, and no election is won without a majority. *)
THEOREM ElectionsRefine == Spec => ElectionsAreBallots
<1>1. Init => TypeOK /\ VoteInv /\ Promise!Init
  BY TypeInit, VoteInit
<1>2. TypeOK /\ VoteInv /\ [Next]_vars => TypeOK' /\ VoteInv' /\ [Promise!Next]_(Promise!vars)
  BY TypeStep, VoteStep
<1> QED
  BY <1>1, <1>2, PTL DEF Spec, ElectionsAreBallots, Promise!Spec

(* Two leaders of one term share a voter whose term an answer had overwritten. *)
THEOREM LeadersShareRewoundVoter == Spec => []ElectionSafety
<1>1. Promise!IsFiniteSet(Node)
  BY NodeAssumption DEF Promise!IsFiniteSet, IsFiniteSet
<1>2. Promise!Spec => []Promise!ElectionSafety
  BY <1>1, Promise!BallotIsSafe, PTL
<1> QED
  BY <1>2, ElectionsRefine, PTL DEF ElectionsAreBallots, ElectionSafety

-----------------------------------------------------------------------------
(* The commit index.  A write in progress has an index the node's log already
   has, or will have with the _increment_idx that is still to come. *)
WritesWithinLog ==
  \A o \in Op : LET w == writes[o]
                IN  /\ w.status = "inserted" => w.new_idx <= idx[w.node] + 1
                    /\ w.status = "open" => w.new_idx <= idx[w.node]
IndexInv == CommitWithinLog /\ WritesWithinLog

(* A step after which no write is further than it was, no commit index higher
   and no log shorter. *)
LEMMA IndexQuiet ==
  ASSUME TypeOK, TypeOK', IndexInv,
         \A i \in Node : idx'[i] >= idx[i],
         \A i \in Node : committed_index'[i] <= committed_index[i] \/ committed_index'[i] <= idx'[i],
         \A o \in Op : /\ writes'[o].status \in {"inserted", "open"} =>
                            /\ writes'[o].status = writes[o].status
                            /\ writes'[o].node = writes[o].node
                            /\ writes'[o].new_idx = writes[o].new_idx
  PROVE  IndexInv'
<1>1. /\ \A i \in Node : /\ idx[i] \in Nat /\ idx'[i] \in Nat
                         /\ committed_index[i] \in Nat /\ committed_index'[i] \in Nat
      /\ \A o \in Op : /\ writes[o].new_idx \in Nat
                       /\ writes[o].status \in {"inserted", "open"} => writes[o].node \in Node
  BY DEF TypeOK, Writes
<1>2. CommitWithinLog'
  BY <1>1 DEF IndexInv, CommitWithinLog
<1>3. WritesWithinLog'
  <2> SUFFICES ASSUME NEW o \in Op
               PROVE  /\ writes'[o].status = "inserted" => writes'[o].new_idx <= idx'[writes'[o].node] + 1
                      /\ writes'[o].status = "open" => writes'[o].new_idx <= idx'[writes'[o].node]
    BY DEF WritesWithinLog
  <2>1. /\ writes[o].status = "inserted" => writes[o].new_idx <= idx[writes[o].node] + 1
        /\ writes[o].status = "open" => writes[o].new_idx <= idx[writes[o].node]
    BY DEF IndexInv, WritesWithinLog
  <2> QED
    BY <1>1, <2>1
<1> QED
  BY <1>2, <1>3 DEF IndexInv

LEMMA IndexAppend ==
  ASSUME TypeOK, TypeOK', IndexInv, NEW m \in net, follower_append_entries(m)
  PROVE  IndexInv'
<1>1. UNCHANGED writes
  BY DEF follower_append_entries, append_stale, append_empty, append_mismatch,
         append_stored, AppendCurrent, AppendHeard
<1>2. CASE append_stale(m) \/ append_empty(m) \/ append_mismatch(m)
  <2>1. UNCHANGED <<idx, committed_index>>
    BY <1>2 DEF append_stale, append_empty, append_mismatch, disk, logs
  <2> QED
    BY <1>1, <2>1, IndexQuiet DEF TypeOK
<1>3. CASE append_stored(m)
  <2> DEFINE i == m.to
             last == IF m.entries = {} THEN idx[i] ELSE TopRow(m.entries).idx
  <2>1. /\ m \in AppendRequests /\ i \in Node /\ m.leader_commit_idx \in Nat
        /\ m.entries \in SUBSET Row /\ idx[i] \in Nat
    BY <1>3, MessageTypes
       DEF append_stored, AppendCurrent, AppendHeard, TypeOK, Messages, AppendRequests
  <2>2. last \in Nat
    BY <2>1, RowTypes DEF RowOrNone
  <2>3. /\ idx' = [idx EXCEPT ![i] = StoredTo(i, last)]
        /\ \/ UNCHANGED committed_index
           \/ committed_index' = [committed_index EXCEPT ![i] = CommitTo(m, last)]
    BY <1>3 DEF append_stored
  <2> HIDE DEF last
  <2>4. /\ StoredTo(i, last) \in Nat /\ idx[i] <= StoredTo(i, last)
        /\ CommitTo(m, last) <= StoredTo(i, last)
    BY <2>1, <2>2 DEF StoredTo, CommitTo
  <2>5. \A j \in Node : idx'[j] >= idx[j]
    BY <2>1, <2>3, <2>4 DEF TypeOK
  <2>6. \A j \in Node : committed_index'[j] <= committed_index[j] \/ committed_index'[j] <= idx'[j]
    BY <2>1, <2>3, <2>4 DEF TypeOK
  <2> QED
    BY <1>1, <2>5, <2>6, IndexQuiet
<1> QED
  BY <1>2, <1>3 DEF follower_append_entries

LEMMA IndexWrite ==
  ASSUME TypeOK, TypeOK', IndexInv, NEW o \in Op,
         (\E i \in Node : leader_append_log(i, o)) \/ increment_idx(o) \/ write_returned(o)
  PROVE  IndexInv'
<1>1. /\ idx \in [Node -> Nat] /\ committed_index \in [Node -> Nat]
      /\ writes \in [Op -> Writes]
      /\ writes[o].status \in {"inserted", "open"} => writes[o].node \in Node
      /\ writes[o].new_idx \in Nat
  BY DEF TypeOK, Writes
<1>2. ASSUME NEW i \in Node, leader_append_log(i, o) PROVE IndexInv'
  <2>1. UNCHANGED <<idx, committed_index>>
    BY <1>2 DEF leader_append_log, memory
  <2>2. \/ /\ writes'[o].status = "inserted" /\ writes'[o].node = i
           /\ writes'[o].new_idx = idx[i] + 1
        \/ writes'[o].status = "error"
    BY <1>1, <1>2 DEF leader_append_log, Writes
  <2>3. \A q \in Op \ {o} : writes'[q] = writes[q]
    BY <1>1, <1>2 DEF leader_append_log
  <2>4. CommitWithinLog'
    BY <2>1 DEF IndexInv, CommitWithinLog
  <2>5. WritesWithinLog'
    <3> SUFFICES ASSUME NEW q \in Op
                 PROVE  /\ writes'[q].status = "inserted" => writes'[q].new_idx <= idx'[writes'[q].node] + 1
                        /\ writes'[q].status = "open" => writes'[q].new_idx <= idx'[writes'[q].node]
      BY DEF WritesWithinLog
    <3>1. CASE q = o
      BY <1>1, <2>1, <2>2, <3>1
    <3>2. CASE q # o
      BY <2>1, <2>3, <3>2 DEF IndexInv, WritesWithinLog
    <3> QED
      BY <3>1, <3>2
  <2> QED
    BY <2>4, <2>5 DEF IndexInv
<1>3. CASE increment_idx(o)
  <2> DEFINE i == writes[o].node
  <2>1. /\ i \in Node /\ writes[o].status = "inserted"
        /\ idx' = [idx EXCEPT ![i] = @ + 1]
        /\ writes' = [writes EXCEPT ![o].status = "open"]
        /\ UNCHANGED committed_index
    BY <1>1, <1>3 DEF increment_idx, memory
  <2> HIDE DEF i
  <2>2. \A j \in Node : /\ idx'[j] \in Nat /\ idx[j] \in Nat /\ committed_index[j] \in Nat
                        /\ idx'[j] >= idx[j] /\ (j = i => idx'[j] = idx[j] + 1)
    BY <1>1, <2>1
  <2>3. \A q \in Op : /\ writes'[q].node = writes[q].node /\ writes'[q].new_idx = writes[q].new_idx
                      /\ q # o => writes'[q].status = writes[q].status
                      /\ writes'[o].status = "open"
    BY <1>1, <2>1 DEF Writes
  <2>4. CommitWithinLog'
    BY <2>1, <2>2 DEF IndexInv, CommitWithinLog
  <2>5. WritesWithinLog'
    <3> SUFFICES ASSUME NEW q \in Op
                 PROVE  /\ writes'[q].status = "inserted" => writes'[q].new_idx <= idx'[writes'[q].node] + 1
                        /\ writes'[q].status = "open" => writes'[q].new_idx <= idx'[writes'[q].node]
      BY DEF WritesWithinLog
    <3>1. /\ writes[q].status = "inserted" => writes[q].new_idx <= idx[writes[q].node] + 1
          /\ writes[q].status = "open" => writes[q].new_idx <= idx[writes[q].node]
          /\ writes[q].new_idx \in Nat
          /\ writes[q].status \in {"inserted", "open"} => writes[q].node \in Node
      BY DEF IndexInv, WritesWithinLog, TypeOK, Writes
    <3>2. CASE q = o
      BY <2>1, <2>2, <2>3, <3>1, <3>2 DEF i
    <3>3. CASE q # o
      BY <2>2, <2>3, <3>1, <3>3
    <3> QED
      BY <3>2, <3>3
  <2> QED
    BY <2>4, <2>5 DEF IndexInv
<1>4. CASE write_returned(o)
  <2> DEFINE i == writes[o].node
             n == writes[o].new_idx
  <2>1. /\ i \in Node /\ n <= idx[i] /\ UNCHANGED idx
        /\ \/ committed_index' = [committed_index EXCEPT ![i] = n]
           \/ UNCHANGED committed_index
        /\ writes' = [writes EXCEPT ![o].status = "ok"]
    BY <1>1, <1>4 DEF write_returned, IndexInv, WritesWithinLog
  <2> HIDE DEF i, n
  <2>2. \A j \in Node : committed_index'[j] <= committed_index[j] \/ committed_index'[j] <= idx'[j]
    BY <1>1, <2>1
  <2>3. \A q \in Op \ {o} : writes'[q] = writes[q]
    BY <1>1, <2>1
  <2>4. writes'[o].status = "ok"
    BY <1>1, <2>1 DEF Writes
  <2>5. \A j \in Node : idx'[j] >= idx[j]
    BY <1>1, <2>1
  <2> QED
    BY <2>2, <2>3, <2>4, <2>5, IndexQuiet
<1> QED
  BY <1>2, <1>3, <1>4

LEMMA IndexOther ==
  ASSUME TypeOK, TypeOK', IndexInv,
         \/ \E i \in Node : \/ candidate_request_vote(i) \/ leader_timeout_tick(i)
                            \/ heartbeat_tick(i) \/ get_leader_id(i) \/ restart(i)
         \/ \E m \in net : \/ follower_request_vote(m) \/ append_accepted(m)
                           \/ append_backed_off(m) \/ append_deposed(m) \/ rpc_timeout(m)
         \/ \E c \in elections : \/ election_over(c)
                                 \/ \E a \in net : \/ election_refused(c, a)
                                                   \/ election_won(c, a)
                                                   \/ election_counted(c, a)
         \/ UNCHANGED vars
  PROVE  IndexInv'
<1>1. UNCHANGED idx
  BY DEF candidate_request_vote, leader_timeout_tick, heartbeat_tick, get_leader_id, restart,
         follower_request_vote, append_accepted, append_backed_off, append_deposed,
         AppendAnswer, rpc_timeout, election_over, election_refused, election_won,
         election_counted, vars, disk, logs
<1>2. \/ UNCHANGED committed_index
      \/ \E i \in Node : committed_index' = [committed_index EXCEPT ![i] = 0]
  BY DEF candidate_request_vote, leader_timeout_tick, heartbeat_tick, get_leader_id, restart,
         follower_request_vote, append_accepted, append_backed_off, append_deposed,
         AppendAnswer, rpc_timeout, election_over, election_refused, election_won,
         election_counted, vars, memory
<1>3. \A i \in Node : committed_index'[i] <= committed_index[i] /\ idx'[i] >= idx[i]
  <2>1. /\ committed_index \in [Node -> Nat]
        /\ \A i \in Node : idx[i] \in Nat
    BY DEF TypeOK
  <2> QED
    BY <1>1, <1>2, <2>1
<1>4. ASSUME NEW o \in Op, writes'[o].status \in {"inserted", "open"}
      PROVE  /\ writes'[o].status = writes[o].status /\ writes'[o].node = writes[o].node
             /\ writes'[o].new_idx = writes[o].new_idx
  <2>1. CASE UNCHANGED writes
    BY <2>1
  <2>2. ASSUME NEW i \in Node, restart(i)
        PROVE  /\ writes'[o].status = writes[o].status /\ writes'[o].node = writes[o].node
               /\ writes'[o].new_idx = writes[o].new_idx
    <3>1. \/ writes'[o] = writes[o]
          \/ writes'[o] = [writes[o] EXCEPT !.status = "dead"]
      BY <2>2 DEF restart
    <3>2. writes[o] \in Writes
      BY DEF TypeOK
    <3>3. [writes[o] EXCEPT !.status = "dead"].status = "dead"
      BY <3>2 DEF Writes
    <3> QED
      BY <1>4, <3>1, <3>3
  <2>3. ASSUME NEW m \in AppendRequests, NEW ack \in BOOLEAN, WriteHears(m, ack)
        PROVE  /\ writes'[o].status = writes[o].status /\ writes'[o].node = writes[o].node
               /\ writes'[o].new_idx = writes[o].new_idx
    BY <2>3, WriteHearsType
  <2>4. ASSUME NEW a \in net, append_accepted(a) \/ append_backed_off(a) \/ append_deposed(a)
        PROVE  a.req \in AppendRequests /\ WriteHears(a.req, TRUE)
    <3>1. AppendAnswer(a)
      BY <2>4 DEF append_accepted, append_backed_off, append_deposed
    <3>2. a \in Answers /\ a.req.type = "append"
      BY <3>1, MessageTypes DEF AppendAnswer, TypeOK, Messages
    <3> QED
      BY <3>1, <3>2 DEF AppendAnswer, Answers, VoteRequests
  <2>5. ASSUME NEW m \in net, rpc_timeout(m)
        PROVE  UNCHANGED writes \/ \E q \in AppendRequests : WriteHears(q, FALSE)
    <3> DEFINE q == IF IsRequest(m) THEN m ELSE m.req
    <3>1. q \in VoteRequests \cup AppendRequests
      <4>1. m \in Messages
        BY DEF TypeOK, Messages
      <4> QED
        BY <4>1, MessageTypes DEF Messages, Answers
    <3>2. UNCHANGED writes \/ (q.type = "append" /\ WriteHears(q, FALSE))
      BY <2>5 DEF rpc_timeout
    <3> HIDE DEF q
    <3>3. q.type = "append" => q \in AppendRequests
      BY <3>1 DEF VoteRequests
    <3> QED
      BY <3>2, <3>3
  <2> QED
    BY <2>1, <2>2, <2>3, <2>4, <2>5
       DEF candidate_request_vote, leader_timeout_tick, heartbeat_tick, get_leader_id,
           follower_request_vote, election_over, election_refused, election_won,
           election_counted, vars
<1> QED
  BY <1>3, <1>4, IndexQuiet

LEMMA IndexInit == Init => IndexInv
BY DEF Init, IndexInv, CommitWithinLog, WritesWithinLog

LEMMA IndexStep == TypeOK /\ IndexInv /\ [Next]_vars => IndexInv'
<1> SUFFICES ASSUME TypeOK, IndexInv, [Next]_vars PROVE IndexInv'
  OBVIOUS
<1>1. TypeOK'
  BY TypeStep
<1> QED
  BY <1>1, IndexAppend, IndexWrite, IndexOther DEF Next

(* committed_index never runs ahead of the node's own log. *)
THEOREM CommitsAreLogged == Spec => []CommitWithinLog
<1>1. Init => TypeOK /\ IndexInv
  BY TypeInit, IndexInit
<1>2. TypeOK /\ IndexInv /\ [Next]_vars => TypeOK' /\ IndexInv'
  BY TypeStep, IndexStep
<1>3. IndexInv => CommitWithinLog
  BY DEF IndexInv
<1> QED
  BY <1>1, <1>2, <1>3, PTL DEF Spec

=============================================================================
