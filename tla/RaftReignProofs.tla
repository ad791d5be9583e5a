--------------------------- MODULE RaftReignProofs ---------------------------
(***************************************************************************)
(* The rows of RaftNode's logs and the writes that run on the databases,   *)
(* for every value of its constants: what one reign keeps, the first one,  *)
(* and what every life of a process does.                                  *)
(***************************************************************************)
EXTENDS RaftLogProofs

-----------------------------------------------------------------------------
(* Which actions change what. *)

LEMMA LogSteps ==
  ASSUME [Next]_vars
  PROVE  \/ UNCHANGED <<raft_logs, idx>>
         \/ \E m \in net : append_stored(m)
         \/ \E i \in Node, o \in Op : leader_append_log(i, o)
         \/ \E o \in Op : increment_idx(o)
BY DEF Next, candidate_request_vote, leader_timeout_tick, heartbeat_tick, get_leader_id,
       restart, follower_request_vote, follower_append_entries, append_stale, append_empty,
       append_mismatch, append_accepted, append_backed_off, append_deposed, AppendAnswer,
       rpc_timeout, election_over, election_refused, election_won, election_counted,
       write_returned, vars, disk, logs

LEMMA ApplySteps ==
  ASSUME [Next]_vars
  PROVE  \/ UNCHANGED <<applied, last_applied, committed_index>>
         \/ \E m \in net : append_stored(m)
         \/ \E o \in Op : write_returned(o)
         \/ \E i \in Node : restart(i)
<1>1. ASSUME NEW m \in net, follower_append_entries(m)
      PROVE  UNCHANGED <<applied, last_applied, committed_index>> \/ append_stored(m)
  BY <1>1 DEF follower_append_entries, append_stale, append_empty, append_mismatch, disk, logs
<1>2. ASSUME NEW m \in net,
             append_accepted(m) \/ append_backed_off(m) \/ append_deposed(m)
      PROVE  UNCHANGED <<applied, last_applied, committed_index>>
  BY <1>2 DEF append_accepted, append_backed_off, append_deposed, AppendAnswer, logs
<1>3. ASSUME \/ \E i \in Node : \/ candidate_request_vote(i) \/ leader_timeout_tick(i)
                                \/ heartbeat_tick(i) \/ get_leader_id(i)
             \/ \E c \in elections : \/ election_over(c)
                                     \/ \E a \in net : \/ election_refused(c, a)
                                                       \/ election_won(c, a)
                                                       \/ election_counted(c, a)
             \/ UNCHANGED vars
      PROVE  UNCHANGED <<applied, last_applied, committed_index>>
  BY <1>3 DEF candidate_request_vote, leader_timeout_tick, heartbeat_tick, get_leader_id,
              election_over, election_refused, election_won, election_counted, vars, disk,
              logs, memory
<1>4. ASSUME \/ \E m \in net : follower_request_vote(m) \/ rpc_timeout(m)
             \/ \E o \in Op : increment_idx(o) \/ \E i \in Node : leader_append_log(i, o)
      PROVE  UNCHANGED <<applied, last_applied, committed_index>>
  BY <1>4 DEF follower_request_vote, rpc_timeout, leader_append_log, increment_idx, disk,
              logs, memory
<1> QED
  BY <1>1, <1>2, <1>3, <1>4 DEF Next

LEMMA NextSteps ==
  ASSUME [Next]_vars
  PROVE  \/ UNCHANGED next_index
         \/ \E c \in elections, a \in net : election_won(c, a)
         \/ \E a \in net : append_accepted(a) \/ append_backed_off(a)
         \/ \E i \in Node : restart(i)
BY DEF Next, candidate_request_vote, leader_timeout_tick, heartbeat_tick, get_leader_id,
       follower_request_vote, follower_append_entries, append_stale, append_empty,
       append_mismatch, append_stored, AppendCurrent, AppendHeard, append_deposed,
       rpc_timeout, election_over, election_refused, election_counted, write_returned,
       leader_append_log, increment_idx, vars, memory

LEMMA TermSteps ==
  ASSUME [Next]_vars
  PROVE  \/ UNCHANGED <<term, rewound>>
         \/ \E i \in Node : candidate_request_vote(i)
         \/ \E m \in net : follower_request_vote(m)
         \/ \E m \in net : AppendCurrent(m)
         \/ \E a \in net : append_deposed(a)
         \/ \E c \in elections, a \in net : election_refused(c, a)
BY DEF Next, leader_timeout_tick, heartbeat_tick, get_leader_id, restart,
       follower_append_entries, append_stale, append_empty, append_mismatch, append_stored,
       AppendHeard, append_accepted, append_backed_off, rpc_timeout, election_over,
       election_won, election_counted, write_returned, leader_append_log, increment_idx,
       vars, disk, history

LEMMA WinSteps ==
  ASSUME [Next]_vars
  PROVE  \/ UNCHANGED wins
         \/ \E c \in elections, a \in net : election_won(c, a)
BY DEF Next, candidate_request_vote, leader_timeout_tick, heartbeat_tick, get_leader_id,
       restart, follower_request_vote, follower_append_entries, append_stale, append_empty,
       append_mismatch, append_stored, AppendCurrent, AppendHeard, append_accepted,
       append_backed_off, append_deposed, AppendAnswer, rpc_timeout, election_over,
       election_refused, election_counted, write_returned, leader_append_log,
       increment_idx, vars, history

(* A write goes on to its next stage, hears from a peer, or dies with its node. *)
Begun(o) == \E i \in Node : /\ leader_append_log(i, o) /\ writes[o].status = "new"
                            /\ writes'[o] = [status |-> "inserted", node |-> i,
                                 new_idx |-> idx[i] + 1, acks |-> 1, waiting |-> Peers(i)]
Refused(o) == writes[o].status = "new" /\ writes'[o] = [writes[o] EXCEPT !.status = "error"]
Opened(o) == increment_idx(o) /\ writes[o].status = "inserted"
             /\ writes'[o] = [writes[o] EXCEPT !.status = "open"]
Returned(o) == write_returned(o) /\ writes[o].status = "open" /\ writes[o].waiting = {}
               /\ writes'[o] = [writes[o] EXCEPT !.status = "ok"]
Hears(o, p, ack) == writes'[o] = [writes[o] EXCEPT !.waiting = @ \ {p},
                                                   !.acks = @ + (IF ack THEN 1 ELSE 0)]
Heard(o) == \/ \E a \in net : /\ AppendAnswer(a) /\ a.req.write = o
                              /\ Hears(o, a.req.to, TRUE)
            \/ \E m \in net : /\ rpc_timeout(m) /\ Request(m).type = "append"
                              /\ Request(m).live /\ Request(m).write = o
                              /\ Hears(o, Request(m).to, FALSE)
Dead(o) == \E i \in Node : restart(i) /\ writes[o].node = i
                           /\ writes[o].status \in {"inserted", "open"}
                           /\ writes'[o] = [writes[o] EXCEPT !.status = "dead"]

LEMMA HearsOne ==
  ASSUME TypeOK, NEW q \in AppendRequests, NEW ack, WriteHears(q, ack), NEW o \in Op
  PROVE  writes'[o] = writes[o] \/ (q.write = o /\ Hears(o, q.to, ack))
<1>1. q.write \in Op \cup {Nil} /\ writes \in [Op -> Writes]
  BY DEF AppendRequests, TypeOK
<1>2. CASE q.write = Nil
  BY <1>2 DEF WriteHears
<1>3. CASE q.write # Nil
  BY <1>1, <1>3 DEF WriteHears, Hears
<1> QED
  BY <1>2, <1>3

LEMMA WriteSteps ==
  ASSUME TypeOK, [Next]_vars, NEW o \in Op
  PROVE  \/ writes'[o] = writes[o]
         \/ Begun(o) \/ Refused(o) \/ Opened(o) \/ Returned(o) \/ Heard(o) \/ Dead(o)
<1>0. writes \in [Op -> Writes]
  BY DEF TypeOK
<1>1. ASSUME NEW a \in net, AppendAnswer(a) PROVE writes'[o] = writes[o] \/ Heard(o)
  <2>1. a.type = "answer" /\ Request(a) = a.req /\ a.req.type = "append" /\ WriteHears(a.req, TRUE)
    BY <1>1 DEF AppendAnswer, Request, IsRequest
  <2>2. a.req \in AppendRequests
    BY <2>1, RequestTypes
  <2> QED
    BY <1>1, <2>1, <2>2, HearsOne DEF Heard
<1>2. ASSUME NEW m \in net, rpc_timeout(m) PROVE writes'[o] = writes[o] \/ Heard(o)
  <2>1. /\ Request(m).live
        /\ \/ UNCHANGED writes
           \/ Request(m).type = "append" /\ WriteHears(Request(m), FALSE)
    BY <1>2 DEF rpc_timeout, Request
  <2> QED
    BY <1>2, <2>1, RequestTypes, HearsOne DEF Heard
<1>3. ASSUME NEW i \in Node, restart(i) PROVE writes'[o] = writes[o] \/ Dead(o)
  BY <1>3 DEF restart, Dead
<1>4. ASSUME NEW i \in Node, NEW q \in Op, leader_append_log(i, q)
      PROVE  writes'[o] = writes[o] \/ Begun(o) \/ Refused(o)
  BY <1>0, <1>4 DEF leader_append_log, Begun, Refused
<1>5. ASSUME NEW q \in Op, increment_idx(q) PROVE writes'[o] = writes[o] \/ Opened(o)
  BY <1>0, <1>5 DEF increment_idx, Opened
<1>6. ASSUME NEW q \in Op, write_returned(q) PROVE writes'[o] = writes[o] \/ Returned(o)
  BY <1>0, <1>6 DEF write_returned, Returned
<1>7. \/ UNCHANGED writes
      \/ \E a \in net : AppendAnswer(a)
      \/ \E m \in net : rpc_timeout(m)
      \/ \E i \in Node : restart(i)
      \/ \E i \in Node, q \in Op : leader_append_log(i, q)
      \/ \E q \in Op : increment_idx(q) \/ write_returned(q)
  BY DEF Next, candidate_request_vote, leader_timeout_tick, heartbeat_tick, get_leader_id,
       follower_request_vote, follower_append_entries, append_stale, append_empty,
       append_mismatch, append_stored, AppendCurrent, AppendHeard, append_accepted,
       append_backed_off, append_deposed, election_over, election_refused, election_won,
       election_counted, vars
<1> QED
  BY <1>1, <1>2, <1>3, <1>4, <1>5, <1>6, <1>7

LEMMA WriteFields ==
  ASSUME TypeOK, NEW o \in Op
  PROVE  LET w == writes[o]
             v == writes'[o]
             placed == v.node = w.node /\ v.new_idx = w.new_idx
             counted == v.acks = w.acks /\ v.waiting = w.waiting
         IN  /\ Refused(o) => placed /\ counted /\ v.status = "error"
             /\ Opened(o) => placed /\ counted /\ v.status = "open"
             /\ Returned(o) => placed /\ counted /\ v.status = "ok"
             /\ Dead(o) => placed /\ counted /\ v.status = "dead"
             /\ Heard(o) => placed /\ v.status = w.status
             /\ \A p, ack : Hears(o, p, ack) =>
                  /\ placed /\ v.status = w.status /\ v.waiting = w.waiting \ {p}
                  /\ v.acks = w.acks + (IF ack THEN 1 ELSE 0)
<1>1. writes[o] \in Writes
  BY DEF TypeOK
<1>2. ASSUME NEW st, NEW v, v = [writes[o] EXCEPT !.status = st]
      PROVE  /\ v.node = writes[o].node /\ v.new_idx = writes[o].new_idx
             /\ v.acks = writes[o].acks /\ v.waiting = writes[o].waiting /\ v.status = st
  BY <1>1, <1>2 DEF Writes
<1>3. ASSUME NEW p, NEW ack, Hears(o, p, ack)
      PROVE  /\ writes'[o].node = writes[o].node /\ writes'[o].new_idx = writes[o].new_idx
             /\ writes'[o].status = writes[o].status
             /\ writes'[o].waiting = writes[o].waiting \ {p}
             /\ writes'[o].acks = writes[o].acks + (IF ack THEN 1 ELSE 0)
  BY <1>1, <1>3 DEF Writes, Hears
<1> DEFINE Kept == /\ writes'[o].node = writes[o].node
                   /\ writes'[o].new_idx = writes[o].new_idx
                   /\ writes'[o].acks = writes[o].acks
                   /\ writes'[o].waiting = writes[o].waiting
<1>4. Refused(o) => Kept /\ writes'[o].status = "error"
  BY <1>2 DEF Refused
<1>5. Opened(o) => Kept /\ writes'[o].status = "open"
  BY <1>2 DEF Opened
<1>6. Returned(o) => Kept /\ writes'[o].status = "ok"
  BY <1>2 DEF Returned
<1>7. Dead(o) => Kept /\ writes'[o].status = "dead"
  BY <1>2 DEF Dead
<1>8. Heard(o) => /\ writes'[o].node = writes[o].node /\ writes'[o].new_idx = writes[o].new_idx
                  /\ writes'[o].status = writes[o].status
  BY <1>3 DEF Heard
<1> QED
  BY <1>3, <1>4, <1>5, <1>6, <1>7, <1>8

(* An append in flight after a step was in flight before, or is one whose caller gave it
   up, the answer to one, or a new one from a leader's log. *)
Dropped(m) == \E n \in net : n.type = "append" /\ m = [n EXCEPT !.live = FALSE]
Answered(m) == /\ m.type = "answer" /\ m.req \in net /\ m.req.type = "append" /\ m.req.live
               /\ follower_append_entries(m.req)
               /\ \E yes, t : Respond(m.req, yes, t) /\ m.yes = yes /\ m.term = t
Sends(i, w, next) ==
  \/ \E c \in elections, a \in net : /\ election_won(c, a) /\ i = c.node /\ w = Nil
                                     /\ next = [p \in Node |-> c.last_index + 1]
  \/ heartbeat_tick(i) /\ w = Nil /\ next = next_index[i]
  \/ \E o \in Op : increment_idx(o) /\ i = writes[o].node /\ w = o /\ next = next_index[i]
Sent(m) == \E i \in Node, w \in Op \cup {Nil}, next \in [Node -> Nat] :
             /\ Sends(i, w, next) /\ m \in AppendRequest(i, w, next)
             /\ AppendRequest(i, w, next) \subseteq net'

LEMMA AnsweredOne ==
  ASSUME TypeOK, NEW n \in net, follower_append_entries(n), NEW m \in net', m \notin net
  PROVE  Answered(m)
<1>1. n.type = "append"
  BY DEF follower_append_entries, append_stale, append_empty, append_mismatch,
         append_stored, AppendCurrent, AppendHeard
<1>2. PICK yes, t : Respond(n, yes, t)
  BY DEF follower_append_entries, append_stale, append_empty, append_mismatch, append_stored
<1>3. n.live /\ m = [type |-> "answer", req |-> n, yes |-> yes, term |-> t]
  BY <1>2 DEF Respond, Answer
<1> QED
  BY <1>1, <1>2, <1>3 DEF Answered

LEMMA AppendSteps ==
  ASSUME TypeOK, TypeOK', [Next]_vars, NEW m \in net', Request(m).type = "append"
  PROVE  m \in net \/ Dropped(m) \/ Answered(m) \/ Sent(m)
<1>1. ASSUME NEW n \in net, IsRequest(n), m = [n EXCEPT !.live = FALSE] PROVE Dropped(m)
  <2>1. n \in VoteRequests \cup AppendRequests
    BY <1>1, MessageTypes DEF TypeOK, Messages
  <2>2. m.type = n.type
    BY <1>1, <2>1, Abandoned
  <2> QED
    BY <1>1, <2>2 DEF Dropped, Request, IsRequest
<1>2. ASSUME NEW n \in net, follower_request_vote(n) PROVE m \in net
  <2>1. n.type = "vote" /\ \E yes, t : Respond(n, yes, t)
    BY <1>2 DEF follower_request_vote
  <2> QED
    BY <2>1 DEF Respond, Answer, Request, IsRequest
<1>3. ASSUME NEW c \in elections, NEW a \in net, election_won(c, a)
      PROVE  m \in net \/ Dropped(m) \/ Sent(m)
  <2> DEFINE next == [p \in Node |-> c.last_index + 1]
  <2>1. c.node \in Node /\ c.last_index \in Nat
    BY DEF TypeOK, Elections
  <2>2. next_index'[c.node] = next /\ next \in [Node -> Nat]
    BY <1>3, <2>1 DEF election_won, TypeOK
  <2>3. net' = Orphaned(net, c) \cup AppendRequest(c.node, Nil, next)
    BY <1>3, <2>2 DEF election_won
  <2>4. Sends(c.node, Nil, next)
    BY <1>3 DEF Sends
  <2> HIDE DEF next
  <2>5. CASE m \in AppendRequest(c.node, Nil, next)
    BY <2>1, <2>2, <2>3, <2>4, <2>5 DEF Sent
  <2>6. CASE m \in Orphaned(net, c)
    BY <1>1, <2>6 DEF Orphaned
  <2> QED
    BY <2>3, <2>5, <2>6
<1>4. ASSUME NEW c \in elections, NEW a \in net, election_refused(c, a)
      PROVE  m \in net \/ Dropped(m)
  BY <1>1, <1>4 DEF election_refused, Orphaned
<1>5. ASSUME NEW i \in Node, heartbeat_tick(i) PROVE m \in net \/ Sent(m)
  <2>1. next_index[i] \in [Node -> Nat] /\ Sends(i, Nil, next_index[i])
    BY <1>5 DEF TypeOK, Sends
  <2>2. net' = net \cup AppendRequest(i, Nil, next_index[i])
    BY <1>5 DEF heartbeat_tick
  <2> QED
    BY <2>1, <2>2 DEF Sent
<1>6. ASSUME NEW o \in Op, increment_idx(o) PROVE m \in net \/ Sent(m)
  <2> DEFINE i == writes[o].node
  <2>1. i \in Node /\ next_index[i] \in [Node -> Nat]
    BY <1>6 DEF TypeOK, increment_idx
  <2>2. Sends(i, o, next_index[i])
    BY <1>6 DEF Sends
  <2>3. net' = net \cup AppendRequest(i, o, next_index[i])
    BY <1>6 DEF increment_idx
  <2> HIDE DEF i
  <2> QED
    BY <2>1, <2>2, <2>3 DEF Sent
<1>7. ASSUME NEW i \in Node, candidate_request_vote(i) PROVE m \in net
  <2>1. PICK k, t, last : net' = net \cup VoteRequest(i, k, t, last)
    BY <1>7 DEF candidate_request_vote
  <2> QED
    BY <2>1 DEF VoteRequest, Request, IsRequest
<1>8. ASSUME NEW n \in net, rpc_timeout(n) PROVE m \in net \/ Dropped(m)
  BY <1>1, <1>8 DEF rpc_timeout
<1>9. ASSUME NEW i \in Node, restart(i) PROVE m \in net \/ Dropped(m)
  <2>1. PICK n \in net :
          m = IF IsRequest(n) /\ n.from = i THEN [n EXCEPT !.live = FALSE] ELSE n
    BY <1>9 DEF restart
  <2> QED
    BY <1>1, <2>1
<1>10. ASSUME NEW n \in net, follower_append_entries(n) PROVE m \in net \/ Answered(m)
  BY <1>10, AnsweredOne
<1>11. ASSUME \/ \E i \in Node : leader_timeout_tick(i) \/ get_leader_id(i)
              \/ \E a \in net : append_accepted(a) \/ append_backed_off(a) \/ append_deposed(a)
              \/ \E c \in elections : \/ election_over(c)
                                      \/ \E a \in net : election_counted(c, a)
              \/ \E o \in Op : write_returned(o) \/ \E i \in Node : leader_append_log(i, o)
              \/ UNCHANGED vars
       PROVE  m \in net
  BY <1>11 DEF leader_timeout_tick, get_leader_id, append_accepted, append_backed_off,
               append_deposed, AppendAnswer, election_over, election_counted,
               write_returned, leader_append_log, vars
<1> QED
  BY <1>2, <1>3, <1>4, <1>5, <1>6, <1>7, <1>8, <1>9, <1>10, <1>11 DEF Next

(* The fields of an append in flight, with its new form and its old one. *)
LEMMA DroppedFields ==
  ASSUME TypeOK, NEW m, Dropped(m)
  PROVE  \E n \in net : /\ n \in AppendRequests /\ Request(n) = n /\ Request(m) = m
                        /\ n.type = "append" /\ m.type = "append" /\ ~m.live
                        /\ m.from = n.from /\ m.to = n.to /\ m.term = n.term
                        /\ m.write = n.write /\ m.entries = n.entries
                        /\ m.prev_log_idx = n.prev_log_idx /\ m.prev_log_term = n.prev_log_term
                        /\ m.leader_commit_idx = n.leader_commit_idx
<1>1. PICK n \in net : n.type = "append" /\ m = [n EXCEPT !.live = FALSE]
  BY DEF Dropped
<1>2. n \in AppendRequests
  BY <1>1, MessageTypes DEF TypeOK, Messages
<1>3. /\ m.type = "append" /\ ~m.live
      /\ m.from = n.from /\ m.to = n.to /\ m.term = n.term
      /\ m.write = n.write /\ m.entries = n.entries
      /\ m.prev_log_idx = n.prev_log_idx /\ m.prev_log_term = n.prev_log_term
      /\ m.leader_commit_idx = n.leader_commit_idx
  BY <1>1, <1>2 DEF AppendRequests
<1> QED
  BY <1>1, <1>2, <1>3 DEF Request, IsRequest

LEMMA SentFields ==
  ASSUME TypeOK, NEW i \in Node, NEW w \in Op \cup {Nil}, NEW next \in [Node -> Nat],
         NEW m \in AppendRequest(i, w, next)
  PROVE  /\ m \in AppendRequests /\ Request(m) = m /\ m.type = "append" /\ m.live
         /\ m.from = i /\ m.to \in Peers(i) /\ m.term = term[i] /\ m.write = w
         /\ LET prev == RowAt(raft_logs[i], next[m.to] - 1)
            IN  m.prev_log_idx = prev.idx /\ m.prev_log_term = prev.term
         /\ m.entries = Suffix(raft_logs[i], next[m.to])
         /\ m.leader_commit_idx = committed_index[i]
         /\ \A n \in AppendRequest(i, w, next) : n.to = m.to => n = m
<1>1. m \in AppendRequests
  BY AppendRequestType
<1> DEFINE to(p) == LET prev == RowAt(raft_logs[i], next[p] - 1)
                    IN  [type |-> "append", from |-> i, to |-> p, live |-> TRUE,
                         term |-> term[i], write |-> w, prev_log_idx |-> prev.idx,
                         prev_log_term |-> prev.term,
                         entries |-> Suffix(raft_logs[i], next[p]),
                         leader_commit_idx |-> committed_index[i]]
<1>2. AppendRequest(i, w, next) = {to(p) : p \in Peers(i)}
  BY DEF AppendRequest
<1>3. \A p : /\ to(p).type = "append" /\ to(p).live /\ to(p).from = i /\ to(p).to = p
             /\ to(p).term = term[i] /\ to(p).write = w
             /\ to(p).prev_log_idx = RowAt(raft_logs[i], next[p] - 1).idx
             /\ to(p).prev_log_term = RowAt(raft_logs[i], next[p] - 1).term
             /\ to(p).entries = Suffix(raft_logs[i], next[p])
             /\ to(p).leader_commit_idx = committed_index[i]
  OBVIOUS
<1> HIDE DEF to
<1>4. PICK p \in Peers(i) : m = to(p)
  BY <1>2
<1>5. \A n \in AppendRequest(i, w, next) : n = to(n.to)
  BY <1>2, <1>3
<1>6. m.to = p
  BY <1>3, <1>4
<1> QED
  BY <1>1, <1>3, <1>4, <1>5, <1>6 DEF Request, IsRequest

-----------------------------------------------------------------------------
(* Who leads.  Only a node that won an election is told of as leader, connected to, written
   to, or sends appends, and it sends none to itself. *)

Leaders == {w[1] : w \in wins}
NamedLeaders == /\ \A i \in Node : leader_node[i] # Nil => leader_node[i] = i /\ i \in Leaders
                /\ \A i \in Node : state[i] = "L" => i \in Leaders
                /\ connected \subseteq Leaders
WritesToLeaders == \A o \in Op : writes[o].node # Nil => writes[o].node \in Leaders
AppendsFromLeaders ==
  \A m \in net : Request(m).type = "append" =>
    Request(m).from \in Leaders /\ Request(m).to # Request(m).from
CandidatesElectable == /\ \A c \in elections : c.node \in Electable
                       /\ Leaders \subseteq Electable
LeadInv == NamedLeaders /\ WritesToLeaders /\ AppendsFromLeaders /\ CandidatesElectable

LEMMA LeadersGrow ==
  ASSUME TypeOK, [Next]_vars
  PROVE  /\ Leaders \subseteq Leaders' /\ Leaders \subseteq Node
         /\ \A c \in elections, a \in net : election_won(c, a) => c.node \in Leaders'
         /\ \A i \in Leaders' \ Leaders : \E c \in elections, a \in net :
              election_won(c, a) /\ c.node = i
<1>1. Leaders \subseteq Node
  BY DEF TypeOK, Leaders
<1>2. ASSUME NEW c \in elections, NEW a \in net, election_won(c, a)
      PROVE  Leaders' = Leaders \cup {c.node}
  <2> DEFINE w == <<c.node, c.term>>
  <2>1. w[1] = c.node /\ wins' = wins \cup {w}
    BY <1>2 DEF election_won
  <2> HIDE DEF w
  <2> QED
    BY <2>1 DEF Leaders
<1>3. UNCHANGED wins => Leaders' = Leaders
  BY DEF Leaders
<1> QED
  BY <1>1, <1>2, <1>3, WinSteps

LEMMA NamedLeadersKept ==
  ASSUME TypeOK, LeadInv, [Next]_vars
  PROVE  NamedLeaders'
<1>1. /\ leader_node \in [Node -> Node \cup {Nil}] /\ state \in [Node -> {"F", "C", "L"}]
      /\ Leaders \subseteq Leaders' /\ elections \subseteq Elections
  BY LeadersGrow DEF TypeOK
<1>2. CASE UNCHANGED <<leader_node, connected>>
           /\ \A i \in Node : state'[i] = "L" => state[i] = "L"
  BY <1>1, <1>2 DEF LeadInv, NamedLeaders
<1>3. ASSUME NEW c \in elections, NEW a \in net, election_won(c, a) PROVE NamedLeaders'
  <2>1. c.node \in Node /\ c.node \in Leaders'
    BY <1>1, <1>3, LeadersGrow DEF Elections
  <2>2. /\ state' = [state EXCEPT ![c.node] = "L"] /\ UNCHANGED connected
        /\ leader_node' = [leader_node EXCEPT ![c.node] = c.node]
    BY <1>3 DEF election_won
  <2> QED
    BY <1>1, <2>1, <2>2 DEF LeadInv, NamedLeaders
<1>4. ASSUME NEW i \in Node, get_leader_id(i) PROVE NamedLeaders'
  <2>1. /\ UNCHANGED <<leader_node, state>> /\ leader_node[i] # Nil
        /\ connected' = connected \cup {leader_node[i]}
    BY <1>4 DEF get_leader_id, memory
  <2> QED
    BY <1>1, <2>1 DEF LeadInv, NamedLeaders
<1>5. ASSUME NEW i \in Node, restart(i) PROVE NamedLeaders'
  <2>1. /\ UNCHANGED connected /\ state' = [state EXCEPT ![i] = "F"]
        /\ leader_node' = [leader_node EXCEPT ![i] = Nil]
    BY <1>5 DEF restart
  <2> QED
    BY <1>1, <2>1 DEF LeadInv, NamedLeaders
<1>6. ASSUME NEW i \in Node, candidate_request_vote(i)
      PROVE  UNCHANGED <<leader_node, connected>>
             /\ \A j \in Node : state'[j] = "L" => state[j] = "L"
  BY <1>1, <1>6 DEF candidate_request_vote, memory
<1>7. ASSUME NEW m \in net, follower_request_vote(m) \/ follower_append_entries(m)
      PROVE  UNCHANGED <<leader_node, connected>>
             /\ \A j \in Node : state'[j] = "L" => state[j] = "L"
  <2>1. UNCHANGED <<leader_node, connected>>
    BY <1>7 DEF follower_request_vote, follower_append_entries, append_stale, append_empty,
       append_mismatch, append_stored, AppendCurrent, AppendHeard, memory
  <2>2. UNCHANGED state \/ AdoptTerm(m.to, m.term)
    BY <1>7 DEF follower_request_vote, follower_append_entries, append_stale, append_empty,
       append_mismatch, append_stored, AppendCurrent
  <2> QED
    BY <1>1, <2>1, <2>2 DEF AdoptTerm
<1>8. ASSUME NEW a \in net,
             append_accepted(a) \/ append_backed_off(a) \/ append_deposed(a)
      PROVE  UNCHANGED <<leader_node, connected>>
             /\ \A j \in Node : state'[j] = "L" => state[j] = "L"
  BY <1>1, <1>8 DEF append_accepted, append_backed_off, append_deposed, AppendAnswer,
                    AdoptAnswerTerm
<1>9. ASSUME NEW c \in elections, NEW a \in net, election_refused(c, a) \/ election_counted(c, a)
      PROVE  UNCHANGED <<leader_node, connected>>
             /\ \A j \in Node : state'[j] = "L" => state[j] = "L"
  BY <1>1, <1>9 DEF election_refused, election_counted, AdoptAnswerTerm, memory
<1>10. ASSUME \/ \E i \in Node : leader_timeout_tick(i) \/ heartbeat_tick(i)
              \/ \E m \in net : rpc_timeout(m)
              \/ \E c \in elections : election_over(c)
              \/ \E o \in Op : \/ increment_idx(o) \/ write_returned(o)
                               \/ \E i \in Node : leader_append_log(i, o)
              \/ UNCHANGED vars
       PROVE  UNCHANGED <<leader_node, connected, state>>
  BY <1>10 DEF leader_timeout_tick, heartbeat_tick, rpc_timeout, election_over,
               increment_idx, write_returned, leader_append_log, vars, memory
<1> QED
  BY <1>2, <1>3, <1>4, <1>5, <1>6, <1>7, <1>8, <1>9, <1>10 DEF Next

LEMMA WritesToLeadersKept ==
  ASSUME TypeOK, LeadInv, [Next]_vars
  PROVE  WritesToLeaders'
<1> SUFFICES ASSUME NEW o \in Op, writes'[o].node # Nil
             PROVE  writes'[o].node \in Leaders'
  BY DEF WritesToLeaders
<1>1. Leaders \subseteq Leaders' /\ writes[o] \in Writes
  BY LeadersGrow DEF TypeOK
<1>2. CASE writes'[o].node = writes[o].node
  BY <1>1, <1>2 DEF LeadInv, WritesToLeaders
<1>3. CASE Begun(o)
  <2>1. writes'[o].node \in connected
    BY <1>3 DEF Begun, leader_append_log
  <2> QED
    BY <1>1, <2>1 DEF LeadInv, NamedLeaders
<1> QED
  BY <1>1, <1>2, <1>3, WriteSteps, WriteFields

LEMMA AppendsFromLeadersKept ==
  ASSUME TypeOK, TypeOK', LeadInv, [Next]_vars
  PROVE  AppendsFromLeaders'
<1> SUFFICES ASSUME NEW m \in net', Request(m).type = "append"
             PROVE  Request(m).from \in Leaders' /\ Request(m).to # Request(m).from
  BY DEF AppendsFromLeaders, Request, IsRequest
<1>1. Leaders \subseteq Leaders'
  BY LeadersGrow
<1>2. CASE m \in net
  BY <1>1, <1>2 DEF LeadInv, AppendsFromLeaders
<1>3. CASE Dropped(m)
  BY <1>1, <1>3, DroppedFields DEF LeadInv, AppendsFromLeaders
<1>4. CASE Answered(m)
  <2>1. m.req \in net /\ Request(m.req) = m.req /\ Request(m) = m.req
    BY <1>4 DEF Answered, Request, IsRequest
  <2> QED
    BY <1>1, <1>4, <2>1 DEF LeadInv, AppendsFromLeaders, Answered
<1>5. CASE Sent(m)
  <2>1. PICK i \in Node, w \in Op \cup {Nil}, next \in [Node -> Nat] :
          Sends(i, w, next) /\ m \in AppendRequest(i, w, next)
    BY <1>5 DEF Sent
  <2>2. Request(m).from = i /\ Request(m).to # i
    BY <2>1, SentFields DEF Peers
  <2>3. CASE heartbeat_tick(i)
    BY <1>1, <2>2, <2>3 DEF heartbeat_tick, LeadInv, NamedLeaders
  <2>4. ASSUME NEW o \in Op, increment_idx(o), i = writes[o].node PROVE i \in Leaders'
    <3>1. writes[o].node # Nil
      BY <2>4, NodeAssumption
    <3> QED
      BY <1>1, <2>4, <3>1 DEF LeadInv, WritesToLeaders
  <2> QED
    BY <2>1, <2>2, <2>3, <2>4, LeadersGrow DEF Sends
<1> QED
  BY <1>2, <1>3, <1>4, <1>5, AppendSteps

(* A call to candidate_request_vote keeps the term and the index it began with. *)
LEMMA ElectionSteps ==
  ASSUME TypeOK, [Next]_vars, NEW d \in elections'
  PROVE  \/ \E c \in elections : /\ d.node = c.node /\ d.term = c.term
                                 /\ d.last_index = c.last_index
         \/ \E i \in Node : /\ candidate_request_vote(i) /\ d.node = i
                            /\ d.term = term[i] + 1
                            /\ d.last_index = TopRow(raft_logs[i]).idx
<1> DEFINE Begins(i) == /\ d.node = i /\ d.term = term[i] + 1
                        /\ d.last_index = TopRow(raft_logs[i]).idx
           Goes(c) == d.node = c.node /\ d.term = c.term /\ d.last_index = c.last_index
<1>1. CASE elections' \subseteq elections
  BY <1>1
<1>2. ASSUME NEW i \in Node, candidate_request_vote(i), d \notin elections PROVE Begins(i)
  BY <1>2 DEF candidate_request_vote
<1>3. \A c \in elections : \A p : /\ Without(c, p).node = c.node /\ Without(c, p).term = c.term
                                  /\ Without(c, p).last_index = c.last_index
  BY DEF Without, TypeOK, Elections
<1>4. ASSUME NEW c \in elections, NEW a \in net, election_counted(c, a), d \notin elections
      PROVE  Goes(c)
  <2> DEFINE e == [Without(c, a.req.to) EXCEPT !.votes_received = Votes(c, a)]
  <2>1. e.node = c.node /\ e.term = c.term /\ e.last_index = c.last_index
    BY DEF Without, TypeOK, Elections
  <2>2. elections' = (elections \ {c}) \cup {e}
    BY <1>4 DEF election_counted
  <2> HIDE DEF e
  <2> QED
    BY <1>4, <2>1, <2>2
<1>5. ASSUME NEW m \in net, rpc_timeout(m) PROVE \E c \in elections : Goes(c)
  <2>1. \E c \in elections : d = c \/ \E p : d = Without(c, p)
    BY <1>5 DEF rpc_timeout
  <2> QED
    BY <1>3, <2>1
<1>6. \/ elections' \subseteq elections
      \/ \E i \in Node : candidate_request_vote(i)
      \/ \E c \in elections, a \in net : election_counted(c, a)
      \/ \E m \in net : rpc_timeout(m)
  BY DEF Next, leader_timeout_tick, heartbeat_tick, get_leader_id, restart,
     follower_request_vote, follower_append_entries, append_stale, append_empty,
     append_mismatch, append_stored, AppendCurrent, AppendHeard, append_accepted,
     append_backed_off, append_deposed, AppendAnswer, election_over, election_refused,
     election_won, leader_append_log, increment_idx, write_returned, vars
<1>7. d \in elections => \E c \in elections : Goes(c)
  OBVIOUS
<1> QED
  BY <1>1, <1>2, <1>4, <1>5, <1>6, <1>7

LEMMA CandidatesElectableKept ==
  ASSUME TypeOK, LeadInv, [Next]_vars
  PROVE  CandidatesElectable'
<1>1. ASSUME NEW d \in elections' PROVE d.node \in Electable
  BY ElectionSteps DEF LeadInv, CandidatesElectable, candidate_request_vote
<1>2. Leaders' \subseteq Electable
  BY LeadersGrow DEF LeadInv, CandidatesElectable
<1> QED
  BY <1>1, <1>2 DEF CandidatesElectable

LEMMA LeadStep == TypeOK /\ TypeOK' /\ LeadInv /\ [Next]_vars => LeadInv'
BY NamedLeadersKept, WritesToLeadersKept, AppendsFromLeadersKept, CandidatesElectableKept
   DEF LeadInv

LEMMA LeadInit == Init => LeadInv
BY DEF Init, LeadInv, NamedLeaders, WritesToLeaders, AppendsFromLeaders,
       CandidatesElectable, Leaders

-----------------------------------------------------------------------------
(* Every write is in one row at most, whichever logs hold it. *)

RowsOnce ==
  /\ \A i \in Node : \A r \in raft_logs[i] : writes[r.op].status \notin {"new", "error"}
  /\ \A i, j \in Node : \A r \in raft_logs[i], q \in raft_logs[j] : r.op = q.op => r = q

LEMMA RowSteps ==
  ASSUME TypeOK, NextInv, [Next]_vars, NEW i \in Node, NEW r \in raft_logs'[i]
  PROVE  \/ \E j \in Node : r \in raft_logs[j]
         \/ \E o \in Op : Begun(o) /\ r = [idx |-> idx[i] + 1, term |-> term[i], op |-> o]
                          /\ writes'[o].node = i
<1>0. raft_logs \in [Node -> SUBSET Row] /\ writes \in [Op -> Writes]
  BY DEF TypeOK
<1>1. ASSUME NEW m \in net, append_stored(m) PROVE \E j \in Node : r \in raft_logs[j]
  <2>1. m.type = "append" /\ Request(m) = m
    BY <1>1 DEF append_stored, AppendCurrent, AppendHeard, Request, IsRequest
  <2>2. m \in AppendRequests /\ m.entries \subseteq raft_logs[m.from]
    BY <2>1, RequestTypes DEF NextInv, AppendsCarried, Carried
  <2>3. m.from \in Node /\ m.to \in Node
    BY <2>2 DEF AppendRequests
  <2>4. raft_logs' = [raft_logs EXCEPT ![m.to] = Inserted(raft_logs[m.to], m.entries)]
    BY <1>1 DEF append_stored
  <2>5. Inserted(raft_logs[m.to], m.entries) \subseteq raft_logs[m.to] \cup m.entries
    BY DEF Inserted
  <2> QED
    BY <1>0, <2>2, <2>3, <2>4, <2>5
<1>2. ASSUME NEW k \in Node, NEW o \in Op, leader_append_log(k, o), r \notin raft_logs[i]
      PROVE  /\ Begun(o) /\ r = [idx |-> idx[i] + 1, term |-> term[i], op |-> o]
             /\ writes'[o].node = i
  <2> DEFINE row == [idx |-> idx[k] + 1, term |-> term[k], op |-> o]
             w == [status |-> "inserted", node |-> k, new_idx |-> idx[k] + 1, acks |-> 1,
                   waiting |-> Peers(k)]
  <2>1. writes[o].status = "new"
    BY <1>2 DEF leader_append_log
  <2>2. /\ raft_logs' = [raft_logs EXCEPT ![k] = @ \cup {row}]
        /\ writes' = [writes EXCEPT ![o] = w]
    BY <1>0, <1>2 DEF leader_append_log
  <2>3. w.node = k
    OBVIOUS
  <2> HIDE DEF row
  <2>4. k = i /\ r = row
    BY <1>0, <1>2, <2>2
  <2>5. writes'[o] = w
    BY <1>0, <2>2
  <2> QED
    BY <1>2, <2>1, <2>3, <2>4, <2>5 DEF Begun, row
<1>3. ASSUME UNCHANGED raft_logs PROVE \E j \in Node : r \in raft_logs[j]
  BY <1>3
<1>4. ASSUME NEW o \in Op, increment_idx(o) PROVE UNCHANGED raft_logs
  BY <1>4 DEF increment_idx
<1> QED
  BY <1>1, <1>2, <1>3, <1>4, LogSteps

(* Every part of a log has a last row, or is empty. *)
PartsTopped == \A i \in Node : \A rows \in SUBSET raft_logs[i] : Topped(rows)

LEMMA UnionTopped ==
  ASSUME NEW A \in SUBSET Row, NEW B \in SUBSET Row, Topped(A), Topped(B)
  PROVE  Topped(A \cup B)
<1>1. CASE A = {} \/ B = {}
  <2>1. A \cup B \in {A, B}
    BY <1>1
  <2> QED
    BY <2>1
<1>2. CASE A # {} /\ B # {}
  <2>1. PICK a \in A : IsTop(a, A)
    BY <1>2 DEF Topped
  <2>2. PICK b \in B : IsTop(b, B)
    BY <1>2 DEF Topped
  <2>3. IsTop(a, A \cup B) \/ IsTop(b, A \cup B)
    BY <2>1, <2>2, RowFields DEF IsTop
  <2> QED
    BY <2>1, <2>2, <2>3 DEF Topped
<1> QED
  BY <1>1, <1>2

LEMMA PartsStep ==
  ASSUME TypeOK, NextInv, PartsTopped, [Next]_vars
  PROVE  PartsTopped'
<1>0. raft_logs \in [Node -> SUBSET Row]
  BY DEF TypeOK
<1>1. ASSUME NEW i \in Node, NEW S \in SUBSET Row, NEW B \in SUBSET Row,
             S \subseteq raft_logs[i] \cup B, \A T \in SUBSET B : Topped(T)
      PROVE  Topped(S)
  <2>1. S = (S \cap raft_logs[i]) \cup (S \cap B)
    BY <1>1
  <2>2. Topped(S \cap raft_logs[i]) /\ Topped(S \cap B)
    BY <1>1 DEF PartsTopped
  <2> QED
    BY <2>1, <2>2, UnionTopped
<1>2. ASSUME NEW i \in Node, NEW B \in SUBSET Row, \A T \in SUBSET B : Topped(T),
             \A j \in Node : \/ raft_logs'[j] = raft_logs[j]
                             \/ raft_logs'[j] \subseteq raft_logs[j] \cup B
      PROVE  PartsTopped'
  <2> SUFFICES ASSUME NEW j \in Node, NEW S \in SUBSET raft_logs'[j] PROVE Topped(S)
    BY DEF PartsTopped, Topped, IsTop
  <2>1. S \in SUBSET Row /\ S \subseteq raft_logs[j] \cup B
    BY <1>0, <1>2
  <2> QED
    BY <1>1, <1>2, <2>1
<1>3. ASSUME NEW m \in net, append_stored(m) PROVE PartsTopped'
  <2>1. m.type = "append" /\ Request(m) = m
    BY <1>3 DEF append_stored, AppendCurrent, AppendHeard, Request, IsRequest
  <2>2. m \in AppendRequests /\ m.entries \subseteq raft_logs[m.from]
    BY <2>1, RequestTypes DEF NextInv, AppendsCarried, Carried
  <2>3. m.from \in Node /\ m.to \in Node /\ m.entries \in SUBSET Row
    BY <2>2 DEF AppendRequests
  <2>4. \A T \in SUBSET m.entries : Topped(T)
    BY <2>2, <2>3 DEF PartsTopped
  <2>5. raft_logs' = [raft_logs EXCEPT ![m.to] = Inserted(raft_logs[m.to], m.entries)]
    BY <1>3 DEF append_stored
  <2>6. Inserted(raft_logs[m.to], m.entries) \subseteq raft_logs[m.to] \cup m.entries
    BY DEF Inserted
  <2> QED
    BY <1>0, <1>2, <2>3, <2>4, <2>5, <2>6
<1>4. ASSUME NEW i \in Node, NEW o \in Op, leader_append_log(i, o) PROVE PartsTopped'
  <2> DEFINE row == [idx |-> idx[i] + 1, term |-> term[i], op |-> o]
  <2>1. row \in Row
    BY DEF Row, TypeOK
  <2>2. UNCHANGED raft_logs \/ raft_logs' = [raft_logs EXCEPT ![i] = @ \cup {row}]
    BY <1>4 DEF leader_append_log
  <2> HIDE DEF row
  <2>3. \A T \in SUBSET {row} : Topped(T)
    BY <2>1, RowFields DEF Topped, IsTop
  <2>4. /\ {row} \in SUBSET Row
        /\ \A j \in Node : \/ raft_logs'[j] = raft_logs[j]
                           \/ raft_logs'[j] \subseteq raft_logs[j] \cup {row}
    BY <1>0, <2>1, <2>2
  <2> QED
    BY <1>2, <2>3, <2>4
<1>5. ASSUME UNCHANGED raft_logs PROVE PartsTopped'
  BY <1>5 DEF PartsTopped, Topped, IsTop
<1>6. ASSUME NEW o \in Op, increment_idx(o) PROVE UNCHANGED raft_logs
  BY <1>6 DEF increment_idx
<1> QED
  BY <1>3, <1>4, <1>5, <1>6, LogSteps

LEMMA RowsOnceStep ==
  ASSUME TypeOK, NextInv, RowsOnce, [Next]_vars
  PROVE  RowsOnce'
<1>1. \A j \in Node : \A r \in raft_logs[j] : r.op \in Op
  BY DEF TypeOK, Row
<1>2. ASSUME NEW o \in Op, writes[o].status \notin {"new", "error"}
      PROVE  writes'[o].status \notin {"new", "error"}
  BY <1>2, WriteSteps, WriteFields DEF Begun, Refused
<1>3. ASSUME NEW i \in Node, NEW r \in raft_logs'[i]
      PROVE  writes'[r.op].status \notin {"new", "error"}
  <2>1. CASE \E j \in Node : r \in raft_logs[j]
    BY <1>1, <1>2, <2>1 DEF RowsOnce
  <2>2. ASSUME NEW o \in Op, Begun(o), r.op = o PROVE writes'[r.op].status = "inserted"
    BY <2>2 DEF Begun
  <2> QED
    BY <2>1, <2>2, RowSteps
<1>4. ASSUME NEW i \in Node, NEW r \in raft_logs'[i],
             NEW j \in Node, NEW q \in raft_logs'[j], r.op = q.op
      PROVE  r = q
  <2> DEFINE Old(x) == \E k \in Node : x \in raft_logs[k]
             New(x, k) == \E o \in Op :
               /\ Begun(o) /\ x = [idx |-> idx[k] + 1, term |-> term[k], op |-> o]
               /\ writes'[o].node = k
  <2>1. (Old(r) \/ New(r, i)) /\ (Old(q) \/ New(q, j))
    BY <1>4, RowSteps
  <2>2. ASSUME NEW x, Old(x) PROVE writes[x.op].status # "new"
    BY <2>2 DEF RowsOnce
  <2>3. ASSUME NEW x, NEW k, New(x, k)
        PROVE  /\ writes[x.op].status = "new" /\ writes'[x.op].node = k
               /\ x = [idx |-> idx[k] + 1, term |-> term[k], op |-> x.op]
    BY <2>3 DEF Begun
  <2>4. Old(r) /\ Old(q) => r = q
    BY <1>4 DEF RowsOnce
  <2> HIDE DEF Old, New
  <2>5. ~(Old(r) /\ New(q, j)) /\ ~(New(r, i) /\ Old(q))
    BY <1>4, <2>2, <2>3
  <2>6. New(r, i) /\ New(q, j) => r = q
    <3> SUFFICES ASSUME New(r, i), New(q, j) PROVE r = q
      OBVIOUS
    <3>1. i = j
      BY <1>4, <2>3
    <3> QED
      BY <1>4, <2>3, <3>1
  <2> QED
    BY <2>1, <2>4, <2>5, <2>6
<1> QED
  BY <1>3, <1>4 DEF RowsOnce

-----------------------------------------------------------------------------
(* How often a write runs on a node that is no leader: at most once in each life before
   this one, and in this one only if its row is among those applied. *)

Ran(i, o) == \E r \in raft_logs[i] : r.op = o /\ r.idx <= last_applied[i]
OnceALife ==
  \A i \in Node \ Leaders, o \in Op :
    applied[i][o] <= restarts + (IF Ran(i, o) THEN 1 ELSE 0)

(* The batch a follower applies: it takes last_applied from below its rows to the last. *)
LEMMA BatchApplied ==
  ASSUME TypeOK, NextInv, PartsTopped', NEW m \in net, append_stored(m)
  PROVE  LET i == m.to
             rows == raft_logs'[i]
         IN  /\ i \in Node /\ m \in AppendRequests /\ m.from \in Node /\ Request(m) = m
             /\ m.type = "append" /\ m.entries \subseteq raft_logs[m.from]
             /\ rows = Inserted(raft_logs[i], m.entries)
             /\ \A j \in Node \ {i} : /\ raft_logs'[j] = raft_logs[j] /\ idx'[j] = idx[j]
                                      /\ applied'[j] = applied[j]
                                      /\ last_applied'[j] = last_applied[j]
                                      /\ committed_index'[j] = committed_index[j]
             /\ last_applied[i] <= last_applied'[i]
             /\ \/ UNCHANGED <<applied, last_applied, committed_index>>
                \/ /\ committed_index'[i] <= m.leader_commit_idx
                   /\ last_applied'[i] = last_applied[i]
                      \/ \E r \in rows : r.idx = last_applied'[i]
                   /\ \A o \in Op : applied'[i][o] = applied[i][o] +
                        (IF \E r \in rows : /\ r.op = o /\ last_applied[i] < r.idx
                                            /\ r.idx <= last_applied'[i]
                         THEN 1 ELSE 0)
<1> DEFINE i == m.to
           last == IF m.entries = {} THEN idx[i] ELSE TopRow(m.entries).idx
           rows == Inserted(raft_logs[i], m.entries)
           commit == CommitTo(m, last)
           batch == Batch(i, rows, commit)
           count == [o \in Op |-> applied[i][o] + (IF \E r \in batch : r.op = o THEN 1 ELSE 0)]
<1>1. /\ m.type = "append" /\ Request(m) = m /\ m \in AppendRequests
      /\ m.entries \subseteq raft_logs[m.from] /\ Topped(m.entries)
  <2>1. m.type = "append" /\ Request(m) = m
    BY DEF append_stored, AppendCurrent, AppendHeard, Request, IsRequest
  <2> QED
    BY <2>1, RequestTypes DEF NextInv, AppendsCarried, Carried
<1>2. /\ i \in Node /\ m.from \in Node /\ m.entries \in SUBSET Row
      /\ m.leader_commit_idx \in Nat
  BY <1>1 DEF AppendRequests
<1>3. /\ raft_logs \in [Node -> SUBSET Row] /\ applied \in [Node -> [Op -> Nat]]
      /\ last_applied \in [Node -> Nat] /\ committed_index \in [Node -> Nat]
      /\ idx \in [Node -> Nat]
  BY DEF TypeOK
<1>4. last \in Nat /\ commit \in Nat /\ commit <= m.leader_commit_idx
  <2>1. last \in Nat
    BY <1>2, <1>3, RowTypes DEF RowOrNone
  <2> HIDE DEF last
  <2> QED
    BY <1>2, <2>1 DEF CommitTo
<1>5. rows \in SUBSET Row /\ Topped(rows)
  BY <1>1, <1>2, <1>3, InsertedTopped DEF NextInv, LogsTopped
<1>6. /\ raft_logs' = [raft_logs EXCEPT ![i] = rows]
      /\ idx' = [idx EXCEPT ![i] = StoredTo(i, last)]
      /\ \/ UNCHANGED <<committed_index, last_applied, applied>>
         \/ /\ committed_index' = [committed_index EXCEPT ![i] = commit]
            /\ last_applied' = [last_applied EXCEPT ![i] =
                                  IF batch = {} THEN @ ELSE TopRow(batch).idx]
            /\ applied' = [applied EXCEPT ![i] = count]
  BY DEF append_stored
<1>7. /\ batch \in SUBSET Row /\ batch \subseteq rows
      /\ \A r \in rows : r \in batch <=> last_applied[i] < r.idx /\ r.idx <= commit
  BY <1>5 DEF Batch
<1>8. batch # {} => TopRow(batch) \in batch /\ \A r \in batch : r.idx <= TopRow(batch).idx
  <2>1. raft_logs'[i] = rows
    BY <1>2, <1>3, <1>6
  <2>2. Topped(batch)
    BY <1>2, <1>7, <2>1 DEF PartsTopped, Topped, IsTop
  <2> HIDE DEF batch
  <2> QED
    BY <1>7, <2>2, LastIsTop DEF LastIdx
<1>9. \A j \in Node \ {i} : /\ raft_logs'[j] = raft_logs[j] /\ idx'[j] = idx[j]
                            /\ applied'[j] = applied[j]
                            /\ last_applied'[j] = last_applied[j]
                            /\ committed_index'[j] = committed_index[j]
  BY <1>3, <1>6
<1>10. raft_logs'[i] = rows
  BY <1>2, <1>3, <1>6
<1> HIDE DEF rows, batch, count, commit, last
<1>11. CASE UNCHANGED <<committed_index, last_applied, applied>>
  BY <1>1, <1>2, <1>3, <1>9, <1>10, <1>11 DEF rows
<1>12. CASE /\ committed_index' = [committed_index EXCEPT ![i] = commit]
            /\ last_applied' = [last_applied EXCEPT ![i] =
                                  IF batch = {} THEN @ ELSE TopRow(batch).idx]
            /\ applied' = [applied EXCEPT ![i] = count]
  <2>1. committed_index'[i] = commit /\ applied'[i] = count
    BY <1>2, <1>3, <1>12
  <2>2. last_applied'[i] = IF batch = {} THEN last_applied[i] ELSE TopRow(batch).idx
    BY <1>2, <1>3, <1>12
  <2>3. \A r \in rows : r \in batch <=> last_applied[i] < r.idx /\ r.idx <= last_applied'[i]
    <3>1. \A r \in rows : r.idx \in Nat
      BY <1>5, RowFields
    <3>2. last_applied[i] \in Nat
      BY <1>2, <1>3
    <3>3. CASE batch = {}
      BY <1>7, <2>2, <3>1, <3>2, <3>3
    <3>4. CASE batch # {}
      BY <1>4, <1>7, <1>8, <2>2, <3>1, <3>2, <3>4
    <3> QED
      BY <3>3, <3>4
  <2>4. /\ last_applied[i] <= last_applied'[i]
        /\ last_applied'[i] = last_applied[i] \/ \E r \in rows : r.idx = last_applied'[i]
    <3>1. \A r \in rows : r.idx \in Nat
      BY <1>5, RowFields
    <3>2. last_applied[i] \in Nat
      BY <1>2, <1>3
    <3>3. CASE batch = {}
      BY <2>2, <3>2, <3>3
    <3>4. CASE batch # {}
      <4>1. TopRow(batch) \in rows /\ last_applied[i] < TopRow(batch).idx
        BY <1>7, <1>8, <3>4
      <4> QED
        BY <2>2, <3>1, <3>2, <3>4, <4>1
    <3> QED
      BY <3>3, <3>4
  <2>5. ASSUME NEW o \in Op
        PROVE  applied'[i][o] = applied[i][o] +
                 (IF \E r \in rows : /\ r.op = o /\ last_applied[i] < r.idx
                                     /\ r.idx <= last_applied'[i] THEN 1 ELSE 0)
    <3>1. applied'[i][o] = applied[i][o] + (IF \E r \in batch : r.op = o THEN 1 ELSE 0)
      BY <2>1 DEF count
    <3>2. (\E r \in batch : r.op = o) <=>
          \E r \in rows : /\ r.op = o /\ last_applied[i] < r.idx /\ r.idx <= last_applied'[i]
      BY <1>7, <2>3
    <3> QED
      BY <3>1, <3>2
  <2>6. committed_index'[i] <= m.leader_commit_idx
    BY <1>4, <2>1
  <2> QED
    BY <1>1, <1>2, <1>9, <1>10, <2>4, <2>5, <2>6 DEF rows
<1> QED
  BY <1>6, <1>11, <1>12

LEMMA LogsGrow ==
  ASSUME TypeOK, [Next]_vars, NEW i \in Node
  PROVE  /\ raft_logs[i] \subseteq raft_logs'[i]
         /\ idx[i] <= idx'[i]
<1>0. raft_logs \in [Node -> SUBSET Row] /\ idx \in [Node -> Nat]
  BY DEF TypeOK
<1>1. ASSUME NEW m \in net, append_stored(m)
      PROVE  raft_logs[i] \subseteq raft_logs'[i] /\ idx[i] <= idx'[i]
  <2> DEFINE last == IF m.entries = {} THEN idx[m.to] ELSE TopRow(m.entries).idx
  <2>1. /\ raft_logs' = [raft_logs EXCEPT ![m.to] = Inserted(raft_logs[m.to], m.entries)]
        /\ idx' = [idx EXCEPT ![m.to] = StoredTo(m.to, last)]
    BY <1>1 DEF append_stored
  <2>2. m \in AppendRequests
    BY <1>1, MessageTypes DEF append_stored, AppendCurrent, AppendHeard, TypeOK, Messages
  <2>3. last \in Nat /\ m.to \in Node
    BY <1>0, <2>2, RowTypes DEF AppendRequests, RowOrNone
  <2> HIDE DEF last
  <2>4. idx[m.to] <= StoredTo(m.to, last)
    BY <1>0, <2>3 DEF StoredTo
  <2>5. raft_logs[m.to] \subseteq Inserted(raft_logs[m.to], m.entries)
    BY DEF Inserted
  <2> QED
    BY <1>0, <2>1, <2>4, <2>5
<1>2. ASSUME NEW k \in Node, NEW o \in Op, leader_append_log(k, o)
      PROVE  raft_logs[i] \subseteq raft_logs'[i] /\ idx[i] <= idx'[i]
  BY <1>0, <1>2 DEF leader_append_log
<1>3. ASSUME NEW o \in Op, increment_idx(o)
      PROVE  raft_logs[i] \subseteq raft_logs'[i] /\ idx[i] <= idx'[i]
  BY <1>0, <1>3 DEF increment_idx
<1> QED
  BY <1>0, <1>1, <1>2, <1>3, LogSteps

LEMMA RestartSteps ==
  ASSUME TypeOK, [Next]_vars
  PROVE  /\ restarts \in Nat /\ restarts' \in Nat /\ restarts <= restarts'
         /\ restarts' # restarts =>
              \E i \in Node : /\ restart(i) /\ restarts' = restarts + 1
                              /\ last_applied'[i] = 0
<1>1. ASSUME NEW i \in Node, restart(i)
      PROVE  restarts' = restarts + 1 /\ last_applied'[i] = 0
  BY <1>1 DEF restart, TypeOK
<1>2. UNCHANGED restarts \/ \E i \in Node : restart(i)
  BY DEF Next, candidate_request_vote, leader_timeout_tick, heartbeat_tick, get_leader_id,
         follower_request_vote, follower_append_entries, append_stale, append_empty,
         append_mismatch, append_stored, AppendCurrent, AppendHeard, append_accepted,
         append_backed_off, append_deposed, AppendAnswer, rpc_timeout, election_over,
         election_refused, election_won, election_counted, leader_append_log,
         increment_idx, write_returned, vars
<1> QED
  BY <1>1, <1>2 DEF TypeOK

LEMMA OnceALifeStep ==
  ASSUME TypeOK, TypeOK', NextInv, PartsTopped', LeadInv, RowsOnce', OnceALife, [Next]_vars
  PROVE  OnceALife'
<1> SUFFICES ASSUME NEW i \in Node, i \notin Leaders', NEW o \in Op
             PROVE  applied'[i][o] <= restarts' + (IF Ran(i, o)' THEN 1 ELSE 0)
  BY DEF OnceALife
<1>0. /\ applied \in [Node -> [Op -> Nat]] /\ last_applied \in [Node -> Nat]
      /\ last_applied'[i] \in Nat /\ raft_logs \in [Node -> SUBSET Row]
      /\ restarts \in Nat /\ restarts' \in Nat /\ restarts <= restarts' /\ i \notin Leaders
      /\ raft_logs[i] \subseteq raft_logs'[i]
  BY LeadersGrow, LogsGrow, RestartSteps DEF TypeOK
<1>1. applied[i][o] <= restarts + (IF Ran(i, o) THEN 1 ELSE 0)
  BY <1>0 DEF OnceALife
<1>2. ASSUME applied'[i][o] = applied[i][o], last_applied[i] <= last_applied'[i]
      PROVE  applied'[i][o] <= restarts' + (IF Ran(i, o)' THEN 1 ELSE 0)
  <2>1. Ran(i, o) => Ran(i, o)'
    BY <1>0, <1>2, RowFields DEF Ran
  <2> QED
    BY <1>0, <1>1, <1>2, <2>1
<1>3. ASSUME NEW m \in net, append_stored(m)
      PROVE  applied'[i][o] <= restarts' + (IF Ran(i, o)' THEN 1 ELSE 0)
  <2>1. CASE applied'[i][o] = applied[i][o]
    BY <1>0, <1>2, <1>3, <2>1, BatchApplied
  <2>2. CASE applied'[i][o] # applied[i][o]
    <3>1. i = m.to
      BY <1>3, <2>2, BatchApplied
    <3> DEFINE new == \E r \in raft_logs'[i] : /\ r.op = o /\ last_applied[i] < r.idx
                                               /\ r.idx <= last_applied'[i]
    <3>2. applied'[i][o] = applied[i][o] + (IF new THEN 1 ELSE 0)
      BY <1>3, <2>2, <3>1, BatchApplied
    <3>3. new
      BY <1>0, <2>2, <3>2
    <3>4. Ran(i, o)'
      BY <3>3 DEF Ran
    <3>5. ~Ran(i, o)
      <4> SUFFICES ASSUME Ran(i, o) PROVE FALSE
        OBVIOUS
      <4>1. PICK q \in raft_logs[i] : q.op = o /\ q.idx <= last_applied[i]
        BY DEF Ran
      <4>2. PICK r \in raft_logs'[i] : r.op = o /\ last_applied[i] < r.idx
        BY <3>3
      <4>3. q = r
        BY <1>0, <4>1, <4>2 DEF RowsOnce
      <4> QED
        BY <1>0, <4>1, <4>2, <4>3, RowFields
    <3> QED
      BY <1>0, <1>1, <3>2, <3>3, <3>4, <3>5
  <2> QED
    BY <2>1, <2>2
<1>4. ASSUME NEW q \in Op, write_returned(q)
      PROVE  applied'[i][o] <= restarts' + (IF Ran(i, o)' THEN 1 ELSE 0)
  <2>1. writes[q].node \in Node /\ writes[q].node # i
    <3>1. writes[q].node \in Node
      BY <1>4 DEF write_returned, TypeOK
    <3> QED
      BY <1>0, <3>1, NodeAssumption DEF LeadInv, WritesToLeaders
  <2>2. applied'[i] = applied[i] /\ last_applied'[i] = last_applied[i]
    BY <1>0, <1>4, <2>1 DEF write_returned
  <2> QED
    BY <1>0, <1>2, <2>2
<1>5. ASSUME NEW k \in Node, restart(k)
      PROVE  applied'[i][o] <= restarts' + (IF Ran(i, o)' THEN 1 ELSE 0)
  <2>1. UNCHANGED applied /\ restarts' = restarts + 1
    BY <1>5 DEF restart, disk
  <2> QED
    BY <1>0, <1>1, <2>1
<1>6. CASE UNCHANGED <<applied, last_applied, committed_index>>
  BY <1>0, <1>2, <1>6
<1> QED
  BY <1>3, <1>4, <1>5, <1>6, ApplySteps

(* What a node that alone can lead runs itself: the writes that are answered. *)
RanWhenAnswered(l) == \A o \in Op : applied[l][o] <= IF writes[o].status = "ok" THEN 1 ELSE 0

LEMMA RanWhenAnsweredStep ==
  ASSUME NEW l \in Node, Electable = {l}, TypeOK, TypeOK', NextInv, PartsTopped', LeadInv,
         RanWhenAnswered(l), [Next]_vars
  PROVE  RanWhenAnswered(l)'
<1> SUFFICES ASSUME NEW o \in Op
             PROVE  applied'[l][o] <= IF writes'[o].status = "ok" THEN 1 ELSE 0
  BY DEF RanWhenAnswered
<1>0. /\ applied \in [Node -> [Op -> Nat]] /\ applied[l][o] \in Nat /\ applied'[l][o] \in Nat
      /\ applied[l][o] <= IF writes[o].status = "ok" THEN 1 ELSE 0
  BY DEF TypeOK, RanWhenAnswered
<1>1. writes[o].status = "ok" => writes'[o].status = "ok"
  BY WriteSteps, WriteFields DEF Begun, Refused, Opened, Returned, Dead
<1>2. CASE applied'[l][o] = applied[l][o]
  BY <1>0, <1>1, <1>2
<1>3. ASSUME NEW m \in net, append_stored(m) PROVE applied'[l][o] = applied[l][o]
  <2>1. m.to # m.from /\ m.from \in Leaders /\ Leaders \subseteq {l}
    BY <1>3, BatchApplied DEF LeadInv, AppendsFromLeaders, CandidatesElectable
  <2> QED
    BY <1>3, <2>1, BatchApplied
<1>4. ASSUME NEW q \in Op, write_returned(q)
      PROVE  applied'[l][o] <= IF writes'[o].status = "ok" THEN 1 ELSE 0
  <2>1. /\ applied' = [applied EXCEPT ![writes[q].node][q] = @ + 1]
        /\ writes[q].status = "open" /\ writes' = [writes EXCEPT ![q].status = "ok"]
    BY <1>4 DEF write_returned
  <2>2. CASE q = o
    <3>1. writes'[o].status = "ok"
      BY <2>1, <2>2 DEF TypeOK, Writes
    <3>2. applied'[l][o] <= applied[l][o] + 1 /\ writes[o].status # "ok"
      BY <1>0, <2>1, <2>2
    <3> QED
      BY <1>0, <3>1, <3>2
  <2>3. CASE q # o
    <3>1. applied'[l][o] = applied[l][o]
      BY <1>0, <2>1, <2>3
    <3> QED
      BY <1>2, <3>1
  <2> QED
    BY <2>2, <2>3
<1>5. ASSUME NEW k \in Node, restart(k) PROVE applied'[l][o] = applied[l][o]
  BY <1>5 DEF restart, disk
<1> QED
  BY <1>2, <1>3, <1>4, <1>5, ApplySteps

LifeInv == TypeOK /\ NextInv /\ PartsTopped /\ LeadInv /\ RowsOnce /\ OnceALife

LEMMA LifeInit == Init => LifeInv
<1> SUFFICES ASSUME Init PROVE LifeInv
  OBVIOUS
<1>1. TypeOK /\ LeadInv
  BY TypeInit, LeadInit
<1>2. NextInv
  BY NextInvInit
<1>3. PartsTopped /\ RowsOnce
  <2>1. \A i \in Node : raft_logs[i] = {}
    BY DEF Init
  <2> QED
    BY <2>1 DEF PartsTopped, RowsOnce, Topped
<1>4. OnceALife
  BY DEF Init, OnceALife, Ran
<1> QED
  BY <1>1, <1>2, <1>3, <1>4 DEF LifeInv

LEMMA LifeStep == LifeInv /\ [Next]_vars => LifeInv'
<1> SUFFICES ASSUME LifeInv, [Next]_vars PROVE LifeInv'
  OBVIOUS
<1>1. TypeOK /\ NextInv /\ PartsTopped /\ LeadInv /\ RowsOnce /\ OnceALife
  BY DEF LifeInv
<1>2. TypeOK' /\ NextInv'
  BY <1>1, TypeStep, NextInvStep
<1>3. PartsTopped' /\ LeadInv' /\ RowsOnce'
  BY <1>1, <1>2, PartsStep, LeadStep, RowsOnceStep
<1>4. OnceALife'
  BY <1>1, <1>2, <1>3, OnceALifeStep
<1> QED
  BY <1>2, <1>3, <1>4 DEF LifeInv

(* With one node electable, a write runs on a node at most once for each life of its
   process: whatever is lost or late, and however often nodes restart with last_applied
   forgotten and replay the log. *)
THEOREM OneLeaderAppliesOncePerLife ==
  ASSUME NEW l \in Node, Electable = {l}
  PROVE  Spec => []AppliedOncePerLife
<1> DEFINE Inv == LifeInv /\ RanWhenAnswered(l)
<1>1. Init => Inv
  <2>1. Init => RanWhenAnswered(l)
    BY DEF Init, RanWhenAnswered
  <2> QED
    BY <2>1, LifeInit
<1>2. Inv /\ [Next]_vars => Inv'
  <2> SUFFICES ASSUME Inv, [Next]_vars PROVE Inv'
    OBVIOUS
  <2>1. LifeInv'
    BY LifeStep
  <2> QED
    BY <2>1, RanWhenAnsweredStep DEF LifeInv
<1>3. Inv => AppliedOncePerLife
  <2> SUFFICES ASSUME Inv, NEW i \in Node, NEW o \in Op PROVE applied[i][o] <= 1 + restarts
    BY DEF AppliedOncePerLife
  <2>1. applied[i][o] \in Nat /\ restarts \in Nat /\ Leaders \subseteq {l}
    BY DEF LifeInv, TypeOK, LeadInv, CandidatesElectable
  <2>2. CASE i \in Leaders
    BY <2>1, <2>2 DEF RanWhenAnswered
  <2>3. CASE i \notin Leaders
    BY <2>1, <2>3 DEF LifeInv, OnceALife
  <2> QED
    BY <2>2, <2>3
<1> HIDE DEF Inv
<1> QED
  BY <1>1, <1>2, <1>3, PTL DEF Spec

-----------------------------------------------------------------------------
(* Acknowledgements.  A write waits for each peer with one request in flight, or with the
   answer to it. *)

Live(m, o, p) == LET q == Request(m)
                 IN  q.type = "append" /\ q.live /\ q.write = o /\ q.to = p
InsertedWaits ==
  \A o \in Op : writes[o].status = "inserted" =>
    writes[o].waiting = Peers(writes[o].node) /\ writes[o].acks = 1
LiveAwaited ==
  \A m \in net, o \in Op, p \in Node : Live(m, o, p) =>
    /\ writes[o].status = "open" /\ p \in writes[o].waiting
    /\ Request(m).from = writes[o].node
LiveOnce == \A m, n \in net, o \in Op, p \in Node : Live(m, o, p) /\ Live(n, o, p) => m = n
AnswersLive ==
  \A m \in net : m.type = "answer" /\ m.req.type = "append" => m.req.live
AckInv == InsertedWaits /\ LiveAwaited /\ LiveOnce /\ AnswersLive

LEMMA LiveSteps ==
  ASSUME TypeOK, TypeOK', [Next]_vars, NEW m \in net', NEW o \in Op, NEW p \in Node,
         Live(m, o, p)
  PROVE  \/ \E x \in net : /\ Live(x, o, p) /\ Request(x).from = Request(m).from
                           /\ x = m \/ (m \notin net /\ Answered(m) /\ x = m.req)
         \/ /\ increment_idx(o) /\ Request(m).from = writes[o].node
            /\ p \in Peers(writes[o].node)
            /\ m \in AppendRequest(writes[o].node, o, next_index[writes[o].node])
<1>0. Request(m).type = "append" /\ Request(m).live /\ Request(m).write = o /\ Request(m).to = p
  BY DEF Live
<1>1. CASE m \in net
  BY <1>1
<1>2. CASE m \notin net /\ Answered(m)
  <2>1. Request(m.req) = m.req /\ Request(m) = m.req /\ m.req \in net
    BY <1>2 DEF Answered, Request, IsRequest
  <2> QED
    BY <1>0, <1>2, <2>1 DEF Live
<1>3. CASE Dropped(m)
  BY <1>0, <1>3, DroppedFields
<1>4. CASE Sent(m)
  <2>1. PICK i \in Node, w \in Op \cup {Nil}, next \in [Node -> Nat] :
          Sends(i, w, next) /\ m \in AppendRequest(i, w, next)
    BY <1>4 DEF Sent
  <2>2. Request(m) = m /\ m.from = i /\ m.to \in Peers(i) /\ m.write = w
    BY <2>1, SentFields
  <2>3. w = o /\ w # Nil
    BY <1>0, <2>2, OpAssumption
  <2>4. increment_idx(o) /\ i = writes[o].node /\ next = next_index[i]
    BY <2>1, <2>3 DEF Sends
  <2> QED
    BY <1>0, <2>1, <2>2, <2>3, <2>4
<1> QED
  BY <1>0, <1>1, <1>2, <1>3, <1>4, AppendSteps

LEMMA AnswerLive ==
  ASSUME TypeOK, AckInv, NEW a \in net, AppendAnswer(a)
  PROVE  /\ a.req \in AppendRequests /\ a.req.to \in Node /\ Request(a) = a.req
         /\ a.req.type = "append" /\ a.req.live
         /\ Live(a, a.req.write, a.req.to) /\ net' = net \ {a}
<1>1. a.type = "answer" /\ a.req.type = "append" /\ net' = net \ {a} /\ Request(a) = a.req
  BY DEF AppendAnswer, Request, IsRequest
<1>2. a.req \in AppendRequests
  BY <1>1, RequestTypes
<1> QED
  BY <1>1, <1>2 DEF AckInv, AnswersLive, Live, AppendRequests

(* Whoever a write hears from, it had a request in flight to, that is there no more. *)
LEMMA HeardOnce ==
  ASSUME TypeOK, AckInv, NEW o \in Op, Heard(o)
  PROVE  \E x \in net, p \in Node, ack \in BOOLEAN :
           /\ Live(x, o, p) /\ Hears(o, p, ack)
           /\ \A m \in net' : Request(m).type = "append" /\ Request(m).live =>
                                m \in net /\ m # x
<1>1. ASSUME NEW a \in net, AppendAnswer(a), a.req.write = o, Hears(o, a.req.to, TRUE)
      PROVE  \E x \in net, p \in Node, ack \in BOOLEAN :
               /\ Live(x, o, p) /\ Hears(o, p, ack)
               /\ \A m \in net' : Request(m).type = "append" /\ Request(m).live =>
                                    m \in net /\ m # x
  BY <1>1, AnswerLive
<1>2. ASSUME NEW n \in net, rpc_timeout(n), Request(n).type = "append", Request(n).live,
             Request(n).write = o, Hears(o, Request(n).to, FALSE)
      PROVE  \E x \in net, p \in Node, ack \in BOOLEAN :
               /\ Live(x, o, p) /\ Hears(o, p, ack)
               /\ \A m \in net' : Request(m).type = "append" /\ Request(m).live =>
                                    m \in net /\ m # x
  <2>1. Request(n).to \in Node /\ Live(n, o, Request(n).to)
    BY <1>2, RequestTypes DEF AppendRequests, Live
  <2>2. ASSUME NEW m \in net', Request(m).type = "append", Request(m).live
        PROVE  m \in net /\ m # n
    <3>1. \/ m \in net /\ m # n
          \/ IsRequest(n) /\ m = [n EXCEPT !.live = FALSE]
      BY <1>2 DEF rpc_timeout
    <3>2. ASSUME IsRequest(n), m = [n EXCEPT !.live = FALSE] PROVE FALSE
      <4>1. Dropped(m)
        BY <1>2, <3>2 DEF Dropped, Request
      <4> QED
        BY <2>2, <4>1, DroppedFields
    <3> QED
      BY <3>1, <3>2
  <2> QED
    BY <1>2, <2>1, <2>2
<1> QED
  BY <1>1, <1>2 DEF Heard

LEMMA InsertedWaitsStep ==
  ASSUME TypeOK, AckInv, [Next]_vars
  PROVE  InsertedWaits'
<1> SUFFICES ASSUME NEW o \in Op, writes'[o].status = "inserted"
             PROVE  writes'[o].waiting = Peers(writes'[o].node) /\ writes'[o].acks = 1
  BY DEF InsertedWaits, Peers
<1>1. CASE writes'[o] = writes[o]
  BY <1>1 DEF AckInv, InsertedWaits
<1>2. CASE Begun(o)
  BY <1>2 DEF Begun
<1>3. CASE Heard(o)
  <2>1. writes[o].status = "inserted"
    BY <1>3, WriteFields
  <2>2. writes[o].status = "open"
    BY <1>3, HeardOnce DEF AckInv, LiveAwaited
  <2> QED
    BY <2>1, <2>2
<1> QED
  BY <1>1, <1>2, <1>3, WriteSteps, WriteFields

LEMMA LiveAwaitedStep ==
  ASSUME TypeOK, TypeOK', AckInv, [Next]_vars
  PROVE  LiveAwaited'
<1> SUFFICES ASSUME NEW m \in net', NEW o \in Op, NEW p \in Node, Live(m, o, p)
             PROVE  /\ writes'[o].status = "open" /\ p \in writes'[o].waiting
                    /\ Request(m).from = writes'[o].node
  BY DEF LiveAwaited, Live, Request, IsRequest
<1>1. ASSUME NEW x \in net, Live(x, o, p), Request(x).from = Request(m).from,
             x = m \/ (m \notin net /\ Answered(m) /\ x = m.req)
      PROVE  /\ writes'[o].status = "open" /\ p \in writes'[o].waiting
             /\ Request(m).from = writes'[o].node
  <2>1. /\ writes[o].status = "open" /\ p \in writes[o].waiting
        /\ Request(m).from = writes[o].node
    BY <1>1 DEF AckInv, LiveAwaited
  <2>2. CASE writes'[o] = writes[o]
    BY <2>1, <2>2
  <2>3. CASE Heard(o)
    <3>1. PICK y \in net, h \in Node, ack \in BOOLEAN :
            /\ Live(y, o, h) /\ Hears(o, h, ack)
            /\ \A n \in net' : Request(n).type = "append" /\ Request(n).live =>
                                 n \in net /\ n # y
      BY <2>3, HeardOnce
    <3>2. m \in net /\ m # y
      BY <3>1 DEF Live
    <3>3. h # p
      BY <1>1, <3>1, <3>2 DEF AckInv, LiveOnce
    <3> QED
      BY <2>1, <3>1, <3>3, WriteFields
  <2>4. CASE Dead(o)
    <3>1. PICK i \in Node : restart(i) /\ writes[o].node = i
      BY <2>4 DEF Dead
    <3>2. PICK n \in net : /\ IsRequest(n) \/ n.req.from # i
                           /\ m = IF IsRequest(n) /\ n.from = i
                                  THEN [n EXCEPT !.live = FALSE] ELSE n
      BY <3>1 DEF restart
    <3>3. CASE IsRequest(n) /\ n.from = i
      <4>1. n \in VoteRequests \cup AppendRequests
        BY <3>3, MessageTypes DEF TypeOK, Messages
      <4>2. m.type = n.type
        BY <3>2, <3>3, <4>1, Abandoned
      <4>3. Request(m) = m /\ m.type = "append"
        BY <3>3, <4>2 DEF Live, Request, IsRequest
      <4>4. Dropped(m)
        BY <3>2, <3>3, <4>2, <4>3 DEF Dropped
      <4> QED
        BY <4>4, DroppedFields DEF Live
    <3>4. CASE ~(IsRequest(n) /\ n.from = i)
      BY <2>1, <3>1, <3>2, <3>4 DEF Request
    <3> QED
      BY <3>3, <3>4
  <2> QED
    BY <2>1, <2>2, <2>3, <2>4, WriteSteps DEF Begun, Refused, Opened, Returned
<1>2. ASSUME increment_idx(o), Request(m).from = writes[o].node,
             p \in Peers(writes[o].node)
      PROVE  /\ writes'[o].status = "open" /\ p \in writes'[o].waiting
             /\ Request(m).from = writes'[o].node
  <2>1. writes[o].status = "inserted" /\ writes' = [writes EXCEPT ![o].status = "open"]
    BY <1>2 DEF increment_idx
  <2>2. /\ writes'[o].status = "open" /\ writes'[o].waiting = writes[o].waiting
        /\ writes'[o].node = writes[o].node
    BY <2>1 DEF TypeOK, Writes
  <2> QED
    BY <1>2, <2>1, <2>2 DEF AckInv, InsertedWaits
<1> QED
  BY <1>1, <1>2, LiveSteps

LEMMA LiveOnceStep ==
  ASSUME TypeOK, TypeOK', AckInv, [Next]_vars
  PROVE  LiveOnce'
<1> SUFFICES ASSUME NEW m \in net', NEW n \in net', NEW o \in Op, NEW p \in Node,
                    Live(m, o, p), Live(n, o, p)
             PROVE  m = n
  BY DEF LiveOnce, Live, Request, IsRequest
<1> DEFINE Heir(x, y) == /\ Live(x, o, p)
                         /\ x = y \/ (y \notin net /\ Answered(y) /\ x = y.req)
           New(y) == increment_idx(o) /\
                     y \in AppendRequest(writes[o].node, o, next_index[writes[o].node])
<1>1. (\E x \in net : Heir(x, m)) \/ New(m)
  BY LiveSteps
<1>2. (\E x \in net : Heir(x, n)) \/ New(n)
  BY LiveSteps
<1>3. ASSUME NEW x \in net, NEW y, Heir(x, y), increment_idx(o) PROVE FALSE
  BY <1>3 DEF AckInv, LiveAwaited, increment_idx
<1>4. ASSUME New(m), New(n) PROVE m = n
  <2> DEFINE i == writes[o].node
  <2>1. i \in Node /\ next_index[i] \in [Node -> Nat]
    BY <1>4 DEF increment_idx, TypeOK
  <2>2. Request(m) = m /\ Request(n) = n
    BY <1>4, <2>1, SentFields
  <2>3. m.to = n.to
    BY <2>2 DEF Live
  <2> QED
    BY <1>4, <2>1, <2>3, SentFields
<1>5. ASSUME NEW y \in net', Answered(y), y \notin net PROVE net' = (net \ {y.req}) \cup {y}
  BY <1>5 DEF Answered, Respond, Answer
<1>6. ASSUME NEW x \in net, Heir(x, m), Heir(x, n) PROVE m = n
  <2>1. CASE x = m /\ x = n
    BY <2>1
  <2>2. CASE m \notin net /\ Answered(m) /\ x = m.req /\ n = x
    <3>1. net' = (net \ {x}) \cup {m} /\ m.type = "answer" /\ x.type = "append"
      BY <1>5, <2>2 DEF Answered
    <3> QED
      BY <2>2, <3>1
  <2>3. CASE n \notin net /\ Answered(n) /\ x = n.req /\ m = x
    <3>1. net' = (net \ {x}) \cup {n} /\ n.type = "answer" /\ x.type = "append"
      BY <1>5, <2>3 DEF Answered
    <3> QED
      BY <2>3, <3>1
  <2>4. CASE m \notin net /\ n \notin net /\ Answered(m)
    <3>1. net' = (net \ {m.req}) \cup {m}
      BY <1>5, <2>4
    <3> QED
      BY <2>4, <3>1
  <2> QED
    BY <1>6, <2>1, <2>2, <2>3, <2>4
<1>7. ASSUME NEW x \in net, NEW y \in net, Live(x, o, p), Live(y, o, p) PROVE x = y
  BY <1>7 DEF AckInv, LiveOnce
<1> QED
  BY <1>1, <1>2, <1>3, <1>4, <1>6, <1>7

LEMMA AnswersLiveStep ==
  ASSUME TypeOK, TypeOK', AckInv, [Next]_vars
  PROVE  AnswersLive'
<1> SUFFICES ASSUME NEW m \in net', m.type = "answer", m.req.type = "append" PROVE m.req.live
  BY DEF AnswersLive
<1>1. Request(m) = m.req
  BY DEF Request, IsRequest
<1>2. CASE m \in net
  BY <1>2 DEF AckInv, AnswersLive
<1>3. CASE Dropped(m)
  BY <1>3, DroppedFields
<1>4. CASE Sent(m)
  BY <1>4, SentFields DEF Sent
<1>5. CASE Answered(m)
  BY <1>5 DEF Answered
<1> QED
  BY <1>1, <1>2, <1>3, <1>4, <1>5, AppendSteps

LEMMA AckStep == TypeOK /\ TypeOK' /\ AckInv /\ [Next]_vars => AckInv'
BY InsertedWaitsStep, LiveAwaitedStep, LiveOnceStep, AnswersLiveStep DEF AckInv

LEMMA AckInit == Init => AckInv
BY DEF Init, AckInv, InsertedWaits, LiveAwaited, LiveOnce, AnswersLive

-----------------------------------------------------------------------------
(* The first reign.  As long as no vote is recorded in a term above 1, every request and
   every leader is of term 1, no answer overwrites a term, and one node leads. *)

FirstTerm == \A g \in grants : g[2] <= 1
Terms ==
  /\ rewound = {} /\ \A i \in Node : term[i] <= 1
  /\ \A m \in net : m.term <= 1 /\ (Request(m).type = "append" => Request(m).term = 1)
  /\ \A c \in elections : c.term = 1 /\ c.last_index = 0 /\ term[c.node] = 1
  /\ \A w \in wins : w[2] = 1
  /\ \A l \in Leaders : term[l] = 1
  /\ \A i \in Node : term[i] = 0 => raft_logs[i] = {}
OneLeader == \A k, l \in Leaders : k = l

LEMMA FirstTermBefore ==
  ASSUME [Next]_vars, FirstTerm'
  PROVE  FirstTerm
<1>1. grants \subseteq grants'
  BY DEF Next, candidate_request_vote, leader_timeout_tick, heartbeat_tick, get_leader_id,
         restart, follower_request_vote, follower_append_entries, append_stale, append_empty,
         append_mismatch, append_stored, AppendCurrent, AppendHeard, append_accepted,
         append_backed_off, append_deposed, AppendAnswer, rpc_timeout, election_over,
         election_refused, election_won, election_counted, leader_append_log,
         increment_idx, write_returned, vars, history
<1> QED
  BY <1>1 DEF FirstTerm

LEMMA CandidateFirst ==
  ASSUME TypeOK, FirstTerm', Terms, NEW i \in Node, candidate_request_vote(i)
  PROVE  term[i] = 0 /\ TopRow(raft_logs[i]).idx = 0 /\ term' = [term EXCEPT ![i] = 1]
<1> DEFINE g == <<i, term[i] + 1, i>>
<1>1. g \in grants' /\ g[2] = term[i] + 1 /\ term' = [term EXCEPT ![i] = term[i] + 1]
  BY DEF candidate_request_vote
<1>2. term[i] + 1 <= 1 /\ term[i] \in Nat
  <2>1. term[i] \in Nat
    BY TermFacts DEF TypeOK
  <2> HIDE DEF g
  <2> QED
    BY <1>1, <2>1 DEF FirstTerm
<1>3. term[i] = 0
  BY <1>2
<1>4. raft_logs[i] = {}
  BY <1>3 DEF Terms
<1> QED
  BY <1>1, <1>3, <1>4 DEF TopRow, NoRow

LEMMA TermGrows ==
  ASSUME TypeOK, TypeOK', FirstTerm', Terms, [Next]_vars
  PROVE  rewound' = {} /\ \A i \in Node : term[i] <= term'[i] /\ term'[i] <= 1
<1>0. term \in [Node -> Nat] /\ \A i \in Node : term[i] <= 1
  BY TermFacts DEF TypeOK, Terms
<1>1. CASE UNCHANGED <<term, rewound>>
  BY <1>0, <1>1 DEF Terms
<1>2. ASSUME NEW i \in Node, candidate_request_vote(i)
      PROVE  rewound' = {} /\ \A k \in Node : term[k] <= term'[k] /\ term'[k] <= 1
  <2>1. UNCHANGED rewound
    BY <1>2 DEF candidate_request_vote
  <2> QED
    BY <1>0, <1>2, <2>1, CandidateFirst DEF Terms
<1>3. ASSUME NEW m \in net, m.to \in Node, m.term \in Nat, AdoptTerm(m.to, m.term),
             UNCHANGED rewound
      PROVE  rewound' = {} /\ \A k \in Node : term[k] <= term'[k] /\ term'[k] <= 1
  BY <1>0, <1>3 DEF AdoptTerm, Terms
<1>4. ASSUME NEW m \in net, follower_request_vote(m) \/ AppendCurrent(m)
      PROVE  /\ m.to \in Node /\ m.term \in Nat /\ AdoptTerm(m.to, m.term)
             /\ UNCHANGED rewound
  <2>1. m \in VoteRequests \cup AppendRequests
    BY <1>4, MessageTypes DEF follower_request_vote, AppendCurrent, AppendHeard, TypeOK, Messages
  <2> QED
    BY <1>4, <2>1, TermFacts DEF follower_request_vote, AppendCurrent, AppendHeard, history,
                                 VoteRequests, AppendRequests
<1>5. ASSUME NEW a \in net, append_deposed(a) PROVE FALSE
  <2>1. a.type = "answer" /\ a.req.type = "append" /\ Request(a) = a.req /\ a.term > a.req.term
    BY <1>5 DEF append_deposed, AppendAnswer, Request, IsRequest
  <2>2. a \in Answers
    BY <2>1, MessageTypes DEF TypeOK, Messages
  <2> QED
    BY <2>1, <2>2, TermFacts DEF Terms, Answers
<1>6. ASSUME NEW c \in elections, NEW a \in net, election_refused(c, a) PROVE FALSE
  <2>1. a.type = "answer" /\ a.term > c.term
    BY <1>6 DEF election_refused, VoteAnswer
  <2>2. a \in Answers
    BY <2>1, MessageTypes DEF TypeOK, Messages
  <2> QED
    BY <2>1, <2>2, TermFacts DEF Terms, Answers
<1> QED
  BY <1>1, <1>2, <1>3, <1>4, <1>5, <1>6, TermSteps

(* The term of a message is that of another one, or of a node. *)
LEMMA MessageTermSteps ==
  ASSUME TypeOK, TypeOK', [Next]_vars, NEW m \in net'
  PROVE  \/ \E n \in net : m.term = n.term
         \/ \E i \in Node : m.term = term[i]
         \/ \E i \in Node : candidate_request_vote(i) /\ m.term = term[i] + 1
<1> DEFINE Old == \E n \in net : m.term = n.term
           Node1 == \E i \in Node : m.term = term[i]
<1>1. ASSUME NEW n \in net, IsRequest(n), m = [n EXCEPT !.live = FALSE] PROVE Old
  <2>1. n \in VoteRequests \cup AppendRequests
    BY <1>1, MessageTypes DEF TypeOK, Messages
  <2>2. m.term = n.term
    BY <1>1, <2>1 DEF VoteRequests, AppendRequests
  <2> QED
    BY <2>2
<1>2. ASSUME NEW n \in net, NEW yes, NEW t, Respond(n, yes, t) PROVE Old \/ m.term = t
  BY <1>2 DEF Respond, Answer
<1>3. ASSUME NEW n \in net, follower_request_vote(n) \/ follower_append_entries(n)
      PROVE  Old \/ Node1
  <2>1. n \in VoteRequests \cup AppendRequests
    <3>1. n.type = "vote" \/ n.type = "append"
      BY <1>3 DEF follower_request_vote, follower_append_entries, append_stale, append_empty,
                  append_mismatch, append_stored, AppendCurrent, AppendHeard
    <3> QED
      BY <3>1, MessageTypes DEF TypeOK, Messages
  <2>2. n.to \in Node
    BY <2>1 DEF VoteRequests, AppendRequests
  <2>3. \E yes, t : Respond(n, yes, t) /\ t \in {n.term, term[n.to]}
    <3>1. CASE follower_request_vote(n)
      <4> DEFINE last == TopRow(raft_logs[n.to])
                 stale == \/ n.last_log_term < last.term
                          \/ n.last_log_term = last.term /\ n.last_log_idx < last.idx
                 grant == n.term >= term[n.to] /\ FreeVote(n.to, n) /\ ~stale
      <4>1. Respond(n, grant, IF grant THEN n.term ELSE term[n.to])
        BY <3>1 DEF follower_request_vote
      <4> HIDE DEF grant
      <4> QED
        BY <4>1
    <3>2. CASE follower_append_entries(n)
      <4>1. Respond(n, FALSE, term[n.to]) \/ \E yes : Respond(n, yes, n.term)
        BY <3>2 DEF follower_append_entries, append_stale, append_empty, append_mismatch,
                    append_stored
      <4> QED
        BY <4>1
    <3> QED
      BY <1>3, <3>1, <3>2
  <2> QED
    BY <1>2, <2>2, <2>3
<1>4. ASSUME NEW i \in Node, candidate_request_vote(i)
      PROVE  Old \/ m.term = term[i] + 1
  <2>1. PICK k, last : net' = net \cup VoteRequest(i, k, term[i] + 1, last)
    BY <1>4 DEF candidate_request_vote
  <2>2. \A n \in VoteRequest(i, k, term[i] + 1, last) : n.term = term[i] + 1
    BY DEF VoteRequest
  <2> QED
    BY <2>1, <2>2
<1>6. ASSUME NEW c, m \in Orphaned(net, c) PROVE Old
  BY <1>1, <1>6 DEF Orphaned
<1>7. ASSUME NEW n \in net, rpc_timeout(n) PROVE Old
  BY <1>1, <1>7 DEF rpc_timeout
<1>8. ASSUME NEW i \in Node, restart(i) PROVE Old
  <2>1. PICK n \in net :
          m = IF IsRequest(n) /\ n.from = i THEN [n EXCEPT !.live = FALSE] ELSE n
    BY <1>8 DEF restart
  <2> QED
    BY <1>1, <2>1
<1>9. ASSUME NEW c \in elections, NEW a \in net, election_won(c, a) PROVE Old \/ Node1
  <2>1. m \in Orphaned(net, c) \/ m \in AppendRequest(c.node, Nil, next_index'[c.node])
    BY <1>9 DEF election_won
  <2>2. c.node \in Node /\ next_index'[c.node] \in [Node -> Nat]
    BY DEF TypeOK, Elections
  <2> QED
    BY <1>6, <2>1, <2>2, SentFields
<1>10. ASSUME NEW i \in Node, NEW w \in Op \cup {Nil},
              net' = net \cup AppendRequest(i, w, next_index[i])
       PROVE  Old \/ Node1
  <2>1. next_index[i] \in [Node -> Nat]
    BY DEF TypeOK
  <2> QED
    BY <1>10, <2>1, SentFields
<1>11. ASSUME NEW o \in Op, increment_idx(o) PROVE Old \/ Node1
  <2>1. writes[o].node \in Node
    BY <1>11 DEF increment_idx, TypeOK
  <2> QED
    BY <1>10, <1>11, <2>1 DEF increment_idx
<1>12. ASSUME NEW i \in Node, heartbeat_tick(i) PROVE Old \/ Node1
  BY <1>10, <1>12 DEF heartbeat_tick
<1>13. ASSUME NEW c \in elections, NEW a \in net, election_refused(c, a) PROVE Old
  BY <1>6, <1>13 DEF election_refused
<1>14. ASSUME \/ \E i \in Node : leader_timeout_tick(i) \/ get_leader_id(i)
              \/ \E a \in net : append_accepted(a) \/ append_backed_off(a) \/ append_deposed(a)
              \/ \E c \in elections : \/ election_over(c)
                                      \/ \E a \in net : election_counted(c, a)
              \/ \E o \in Op : write_returned(o) \/ \E i \in Node : leader_append_log(i, o)
              \/ UNCHANGED vars
       PROVE  Old
  BY <1>14 DEF leader_timeout_tick, get_leader_id, append_accepted, append_backed_off,
               append_deposed, AppendAnswer, election_over, election_counted,
               write_returned, leader_append_log, vars
<1> QED
  BY <1>3, <1>4, <1>7, <1>8, <1>9, <1>11, <1>12, <1>13, <1>14 DEF Next

LEMMA SendsFirst ==
  ASSUME TypeOK, LeadInv, Terms, NEW i \in Node, NEW w, NEW next, Sends(i, w, next)
  PROVE  /\ term[i] = 1
         /\ i \in Leaders \/ \E c \in elections, a \in net : election_won(c, a) /\ i = c.node
<1>1. CASE \E c \in elections, a \in net : election_won(c, a) /\ i = c.node
  BY <1>1 DEF Terms
<1>2. CASE heartbeat_tick(i)
  BY <1>2 DEF heartbeat_tick, Terms, LeadInv, NamedLeaders
<1>3. ASSUME NEW o \in Op, increment_idx(o), i = writes[o].node
      PROVE  term[i] = 1 /\ i \in Leaders
  BY <1>3, NodeAssumption DEF Terms, LeadInv, WritesToLeaders
<1> QED
  BY <1>1, <1>2, <1>3 DEF Sends

LEMMA AppendFirst ==
  ASSUME TypeOK, TypeOK', LeadInv, Terms, [Next]_vars, NEW m \in net',
         Request(m).type = "append"
  PROVE  Request(m).term = 1
<1>1. CASE m \in net
  BY <1>1 DEF Terms
<1>2. CASE Dropped(m)
  BY <1>2, DroppedFields DEF Terms
<1>3. CASE Answered(m)
  BY <1>3 DEF Answered, Terms, Request, IsRequest
<1>4. CASE Sent(m)
  <2>1. PICK i \in Node, w \in Op \cup {Nil}, next \in [Node -> Nat] :
          Sends(i, w, next) /\ m \in AppendRequest(i, w, next)
    BY <1>4 DEF Sent
  <2>2. Request(m) = m /\ m.term = term[i]
    BY <2>1, SentFields
  <2> QED
    BY <2>1, <2>2, SendsFirst
<1> QED
  BY <1>1, <1>2, <1>3, <1>4, AppendSteps

LEMMA TermsStep ==
  ASSUME TypeOK, TypeOK', LeadInv, FirstTerm', Terms, [Next]_vars
  PROVE  Terms'
<1>0. /\ term \in [Node -> Nat] /\ term' \in [Node -> Nat]
      /\ raft_logs \in [Node -> SUBSET Row] /\ Leaders \subseteq Node
  BY TermFacts, LeadersGrow DEF TypeOK
<1>1. rewound' = {} /\ \A i \in Node : term[i] <= term'[i] /\ term'[i] <= 1
  BY TermGrows
<1>2. ASSUME NEW m \in net' PROVE m.term <= 1
  <2>1. ASSUME NEW i \in Node, candidate_request_vote(i), m.term = term[i] + 1
        PROVE  m.term <= 1
    BY <2>1, CandidateFirst
  <2> QED
    BY <2>1, MessageTermSteps DEF Terms
<1>3. ASSUME NEW m \in net', Request(m).type = "append" PROVE Request(m).term = 1
  BY <1>3, AppendFirst
<1>4. ASSUME NEW d \in elections' PROVE d.term = 1 /\ d.last_index = 0 /\ term'[d.node] = 1
  <2>1. ASSUME NEW c \in elections, d.node = c.node, d.term = c.term,
               d.last_index = c.last_index
        PROVE  d.term = 1 /\ d.last_index = 0 /\ term'[d.node] = 1
    <3>1. c.node \in Node
      BY DEF TypeOK, Elections
    <3> QED
      BY <1>0, <1>1, <2>1, <3>1 DEF Terms
  <2>2. ASSUME NEW i \in Node, candidate_request_vote(i), d.node = i, d.term = term[i] + 1,
               d.last_index = TopRow(raft_logs[i]).idx
        PROVE  d.term = 1 /\ d.last_index = 0 /\ term'[d.node] = 1
    BY <1>0, <2>2, CandidateFirst
  <2> QED
    BY <2>1, <2>2, ElectionSteps
<1>5. ASSUME NEW w \in wins' PROVE w[2] = 1
  <2>1. ASSUME NEW c \in elections, NEW a \in net, election_won(c, a), w \notin wins
        PROVE  w[2] = 1
    BY <2>1 DEF election_won, Terms
  <2> QED
    BY <2>1, WinSteps DEF Terms
<1>6. ASSUME NEW l \in Leaders' PROVE term'[l] = 1
  <2>1. l \in Node /\ term[l] = 1
    <3>1. CASE l \in Leaders
      BY <1>0, <3>1 DEF Terms
    <3>2. CASE l \notin Leaders
      BY <3>2, LeadersGrow DEF Terms, TypeOK, Elections
    <3> QED
      BY <3>1, <3>2
  <2> QED
    BY <1>0, <1>1, <2>1
<1>7. ASSUME NEW i \in Node, term'[i] = 0 PROVE raft_logs'[i] = {}
  <2>1. term[i] = 0 /\ raft_logs[i] = {}
    BY <1>0, <1>1, <1>7 DEF Terms
  <2>2. ASSUME NEW m \in net, append_stored(m) PROVE raft_logs'[i] = raft_logs[i]
    <3>1. /\ m.type = "append" /\ Request(m) = m /\ AdoptTerm(m.to, m.term)
          /\ \E rows : raft_logs' = [raft_logs EXCEPT ![m.to] = rows]
      BY <2>2 DEF append_stored, AppendCurrent, AppendHeard, Request, IsRequest
    <3>2. m.to \in Node
      BY <3>1, RequestTypes DEF AppendRequests
    <3>3. term'[m.to] >= 1
      BY <1>0, <3>1, <3>2 DEF AdoptTerm, Terms
    <3> QED
      BY <1>0, <1>7, <3>1, <3>2, <3>3
  <2>3. ASSUME NEW k \in Node, NEW o \in Op, leader_append_log(k, o)
        PROVE  raft_logs'[i] = raft_logs[i]
    <3>1. term[k] = 1
      BY <2>3 DEF leader_append_log, LeadInv, NamedLeaders, Terms
    <3> QED
      BY <1>0, <2>1, <2>3, <3>1 DEF leader_append_log
  <2> QED
    BY <2>1, <2>2, <2>3, LogSteps DEF increment_idx
<1> QED
  BY <1>1, <1>2, <1>3, <1>4, <1>5, <1>6, <1>7 DEF Terms, Request, IsRequest

LEMMA OneLeaderStays ==
  ASSUME TypeOK, Terms, ElectionSafety
  PROVE  OneLeader
<1> SUFFICES ASSUME NEW k \in Leaders, NEW l \in Leaders, k # l PROVE FALSE
  BY DEF OneLeader
<1>1. PICK v \in wins : v[1] = k
  BY DEF Leaders
<1>2. PICK w \in wins : w[1] = l
  BY DEF Leaders
<1>3. v = <<k, 1>> /\ w = <<l, 1>> /\ k \in Node /\ l \in Node /\ 1 \in Term
  BY <1>1, <1>2 DEF TypeOK, Terms
<1> QED
  BY <1>1, <1>2, <1>3 DEF ElectionSafety, Promise!ElectionSafety, Terms

(* What the invariants above give, at every moment of the first reign. *)
Base == LifeInv /\ IndexInv /\ AckInv
FirstReign == FirstTerm /\ Terms /\ OneLeader

LEMMA FirstReignAlways == Spec => []Base /\ [](FirstTerm => FirstReign)
<1>1. Init => Base /\ (FirstTerm => Terms)
  <2> SUFFICES ASSUME Init PROVE Base /\ Terms
    OBVIOUS
  <2>1. Base
    BY LifeInit, IndexInit, AckInit DEF Base, LifeInv
  <2>2. Terms
    BY DEF Init, Terms, Leaders
  <2> QED
    BY <2>1, <2>2
<1>2. Base /\ (FirstTerm => Terms) /\ [Next]_vars => (Base /\ (FirstTerm => Terms))'
  <2> SUFFICES ASSUME Base, FirstTerm => Terms, [Next]_vars
               PROVE  Base' /\ (FirstTerm' => Terms')
    OBVIOUS
  <2>1. TypeOK /\ LeadInv /\ TypeOK'
    BY TypeStep DEF Base, LifeInv
  <2>2. Base'
    BY <2>1, LifeStep, IndexStep, AckStep DEF Base
  <2>3. FirstTerm' => Terms'
    BY <2>1, FirstTermBefore, TermsStep
  <2> QED
    BY <2>2, <2>3
<1>3. Base /\ (FirstTerm => Terms) /\ ElectionSafety => (FirstTerm => FirstReign)
  BY OneLeaderStays DEF Base, LifeInv, FirstReign
<1> QED
  BY <1>1, <1>2, <1>3, LeadersShareRewoundVoter, PTL DEF Spec

-----------------------------------------------------------------------------
(* The logs of the first reign.  The leader's has one row at each index up to idx, and the
   row of a write that is not counted in idx yet; a follower's is a prefix of it.  An
   append carries a piece of it without holes, that begins where the follower's log
   ends or before. *)

LeaderRows ==
  \A l \in Leaders :
    /\ \A r \in raft_logs[l] : 1 <= r.idx /\ r.idx <= idx[l] + 1 /\ r.term = 1
    /\ \A r, q \in raft_logs[l] : r.idx = q.idx => r = q
    /\ \A o \in Op : writes[o].status = "inserted" => writes[o].new_idx = idx[l] + 1
    /\ \A o \in Op : writes[o].status \in {"inserted", "open"} =>
         \E r \in raft_logs[l] : r.idx = writes[o].new_idx /\ r.op = o
Prefixes ==
  /\ \A i \in Node : raft_logs[i] # {} => Leaders # {}
  /\ \A i \in Node \ Leaders, l \in Leaders :
       raft_logs[i] = {r \in raft_logs[l] : r.idx <= idx[i]}
Held(i, k) == \A r \in raft_logs[i] : r.idx <= k => Cardinality(Holders(r)) > majority
Whole(q) ==
  /\ \A e \in q.entries : q.prev_log_idx < e.idx
  /\ \A e \in q.entries, r \in raft_logs[q.from] :
       q.prev_log_idx < r.idx /\ r.idx <= e.idx => r \in q.entries
Fitting(q) ==
  /\ q.prev_log_idx <= idx[q.to] /\ (q.prev_log_idx # 0 => q.prev_log_term = 1)
  /\ q.leader_commit_idx <= idx[q.from] /\ Held(q.from, q.leader_commit_idx)
Telling(q) ==
  q.write # Nil => /\ writes[q.write].status # "new"
                   /\ \/ writes[q.write].new_idx <= q.prev_log_idx
                      \/ \E e \in q.entries : e.idx = writes[q.write].new_idx
Segments ==
  \A m \in net : Request(m).type = "append" =>
    /\ Whole(Request(m)) /\ Fitting(Request(m)) /\ Telling(Request(m))
    /\ m.type = "answer" => m.yes /\ \A e \in m.req.entries : e.idx <= idx[m.req.to]
NextHeld == \A l \in Leaders : \A p \in Peers(l) : next_index[l][p] \in 1..(idx[p] + 1)
Stored(o) == {p \in Node \ writes[o].waiting :
                p = writes[o].node \/ idx[p] >= writes[o].new_idx}
AcksBacked == \A o \in Op : writes[o].status \in {"inserted", "open"} =>
                writes[o].acks <= Cardinality(Stored(o))
Reign == /\ LeaderRows /\ Prefixes /\ LogHasNoGaps /\ Segments /\ NextHeld
         /\ AcksBacked /\ CommittedOnMajority

(* A step of it, from a state where all of this holds. *)
ReignStep == Base /\ Base' /\ FirstReign /\ FirstReign' /\ Reign /\ [Next]_vars

LEMMA ReignTypes ==
  ASSUME Base
  PROVE  /\ TypeOK /\ NextInv /\ LeadInv /\ RowsOnce /\ AckInv /\ PartsTopped
         /\ Leaders \subseteq Node /\ idx \in [Node -> Nat] /\ raft_logs \in [Node -> SUBSET Row]
         /\ \A i \in Node : \A r \in raft_logs[i] : r.idx \in Nat
         /\ \A i \in Node : committed_index[i] \in Nat /\ committed_index[i] <= idx[i]
<1>1. TypeOK /\ NextInv /\ LeadInv /\ RowsOnce /\ AckInv /\ PartsTopped /\ CommitWithinLog
  BY DEF Base, LifeInv, IndexInv
<1>2. idx \in [Node -> Nat] /\ raft_logs \in [Node -> SUBSET Row]
      /\ committed_index \in [Node -> Nat]
  BY <1>1 DEF TypeOK
<1> QED
  BY <1>1, <1>2, RowFields DEF CommitWithinLog, TypeOK, Leaders

(* When nobody led before, nothing is logged. *)
LEMMA NewLeader ==
  ASSUME ReignStep, NEW l \in Leaders', l \notin Leaders
  PROVE  /\ Leaders = {} /\ Leaders' = {l} /\ l \in Node
         /\ \E c \in elections, a \in net : election_won(c, a) /\ c.node = l
         /\ \A i \in Node : raft_logs[i] = {} /\ idx[i] = 0
         /\ \A o \in Op : writes[o].status \notin {"inserted", "open"}
<1>0. TypeOK /\ LeadInv /\ Leaders \subseteq Node /\ idx \in [Node -> Nat] /\ [Next]_vars
  BY ReignTypes DEF ReignStep
<1>1. /\ \E c \in elections, a \in net : election_won(c, a) /\ c.node = l
      /\ Leaders \subseteq Leaders'
  BY <1>0, LeadersGrow
<1>2. Leaders = {} /\ Leaders' = {l}
  BY <1>1 DEF ReignStep, FirstReign, OneLeader
<1>3. l \in Node
  BY <1>0, <1>1 DEF TypeOK, Elections
<1>4. \A i \in Node : raft_logs[i] = {}
  BY <1>2 DEF ReignStep, Reign, Prefixes
<1>5. \A i \in Node : idx[i] = 0
  <2> SUFFICES ASSUME NEW i \in Node, idx[i] # 0 PROVE FALSE
    OBVIOUS
  <2>1. 1 \in 1..idx[i]
    BY <1>0
  <2> QED
    BY <1>4, <2>1 DEF ReignStep, Reign, LogHasNoGaps
<1>6. ASSUME NEW o \in Op, writes[o].status \in {"inserted", "open"} PROVE FALSE
  <2>1. writes[o].node \in Node
    BY <1>0, <1>6 DEF TypeOK
  <2> QED
    BY <1>0, <1>2, <2>1, NodeAssumption DEF LeadInv, WritesToLeaders
<1> QED
  BY <1>1, <1>2, <1>3, <1>4, <1>5, <1>6

(* A follower stores what an append carries: its log stays a prefix. *)
LEMMA StoredPrefix ==
  ASSUME ReignStep, NEW m \in net, append_stored(m)
  PROVE  LET i == m.to
             l == m.from
         IN  /\ m \in AppendRequests /\ Request(m) = m /\ m.type = "append"
             /\ l \in Leaders /\ i \in Node \ Leaders /\ m.entries \subseteq raft_logs[l]
             /\ \A j \in Node \ {i} : raft_logs'[j] = raft_logs[j] /\ idx'[j] = idx[j]
             /\ raft_logs'[i] = {r \in raft_logs[l] : r.idx <= idx'[i]}
             /\ \A e \in m.entries : e.idx <= idx'[i]
             /\ idx[i] <= idx'[i]
             /\ idx'[i] = idx[i] \/ \E e \in m.entries : e.idx = idx'[i]
<1> DEFINE i == m.to
           l == m.from
           last == IF m.entries = {} THEN idx[i] ELSE TopRow(m.entries).idx
<1>0. /\ TypeOK /\ NextInv /\ LeadInv /\ Leaders \subseteq Node /\ idx \in [Node -> Nat]
      /\ raft_logs \in [Node -> SUBSET Row] /\ PartsTopped'
      /\ \A j \in Node : \A r \in raft_logs[j] : r.idx \in Nat
  BY ReignTypes DEF ReignStep, Base, LifeInv
<1>1. /\ m \in AppendRequests /\ Request(m) = m /\ m.type = "append"
      /\ i \in Node /\ l \in Node /\ m.entries \subseteq raft_logs[l]
      /\ raft_logs'[i] = Inserted(raft_logs[i], m.entries)
      /\ \A j \in Node \ {i} : raft_logs'[j] = raft_logs[j] /\ idx'[j] = idx[j]
  BY <1>0, BatchApplied
<1>2. l \in Leaders /\ i \notin Leaders
  <2>1. l \in Leaders /\ i # l
    BY <1>0, <1>1 DEF LeadInv, AppendsFromLeaders
  <2> QED
    BY <2>1 DEF ReignStep, FirstReign, OneLeader
<1>3. raft_logs[i] = {r \in raft_logs[l] : r.idx <= idx[i]}
  BY <1>1, <1>2 DEF ReignStep, Reign, Prefixes
<1>4. \A r, q \in raft_logs[l] : r.idx = q.idx => r = q
  BY <1>2 DEF ReignStep, Reign, LeaderRows
<1>5. Whole(m) /\ Fitting(m)
  BY <1>1 DEF ReignStep, Reign, Segments
<1>6. /\ last \in Nat
      /\ m.entries # {} => (\E e \in m.entries : e.idx = last) /\ \A e \in m.entries : e.idx <= last
      /\ m.entries = {} => last = idx[i]
  <2>1. m.entries \in SUBSET Row /\ Topped(m.entries)
    BY <1>0, <1>1 DEF NextInv, AppendsCarried, Carried
  <2> QED
    BY <1>0, <1>1, <2>1, LastIsTop DEF LastIdx
<1>7. idx' = [idx EXCEPT ![i] = StoredTo(i, last)]
  BY DEF append_stored
<1> HIDE DEF last
<1>8. /\ \A e \in m.entries : e.idx <= idx'[i]
      /\ idx[i] <= idx'[i] /\ idx'[i] \in Nat
      /\ idx'[i] = idx[i] \/ \E e \in m.entries : e.idx = idx'[i]
  <2>1. idx'[i] = (IF last > idx[i] THEN last ELSE idx[i]) /\ idx[i] \in Nat
    BY <1>0, <1>1, <1>7 DEF StoredTo
  <2>2. \A e \in m.entries : e.idx \in Nat
    BY <1>0, <1>1
  <2> QED
    BY <1>6, <2>1, <2>2
<1>9. raft_logs'[i] = {r \in raft_logs[l] : r.idx <= idx'[i]}
  <2>1. ASSUME NEW r \in raft_logs'[i] PROVE r \in raft_logs[l] /\ r.idx <= idx'[i]
    BY <1>0, <1>1, <1>3, <1>8, <2>1 DEF Inserted
  <2>2. ASSUME NEW r \in raft_logs[l], r.idx <= idx'[i] PROVE r \in raft_logs'[i]
    <3>1. CASE r.idx <= idx[i]
      BY <1>1, <1>3, <3>1 DEF Inserted
    <3>2. CASE r.idx > idx[i]
      <4>1. r.idx \in Nat /\ idx[i] \in Nat /\ m.prev_log_idx \in Nat
        BY <1>0, <1>1 DEF AppendRequests
      <4>2. m.prev_log_idx <= idx[i]
        BY <1>5 DEF Fitting
      <4>3. PICK e \in m.entries : r.idx <= e.idx
        BY <1>8, <2>2, <3>2, <4>1
      <4>4. r \in m.entries
        BY <1>5, <3>2, <4>1, <4>2, <4>3 DEF Whole
      <4>5. \A q \in raft_logs[i] : q.idx # r.idx
        BY <1>0, <1>1, <1>3, <3>2, <4>1
      <4> QED
        BY <1>1, <4>4, <4>5 DEF Inserted
    <3> QED
      BY <1>0, <1>1, <3>1, <3>2
  <2> QED
    BY <2>1, <2>2
<1> QED
  BY <1>1, <1>2, <1>8, <1>9

(* The leader's own steps: a write's row is added after the last one, and counted. *)
Adds(o, l) ==
  LET row == [idx |-> idx[l] + 1, term |-> 1, op |-> o]
  IN  /\ raft_logs' = [raft_logs EXCEPT ![l] = @ \cup {row}] /\ UNCHANGED idx
      /\ row \in raft_logs'[l] /\ row.idx = idx[l] + 1 /\ row.term = 1 /\ row.op = o
      /\ \A r \in raft_logs[l] : r.idx <= idx[l]
      /\ writes'[o].status = "inserted" /\ writes'[o].node = l
      /\ writes'[o].new_idx = idx[l] + 1
      /\ UNCHANGED <<net, next_index, committed_index, last_applied, elections, wins>>
Counts(o, l) ==
  /\ increment_idx(o) /\ writes[o].node = l /\ writes[o].status = "inserted"
  /\ UNCHANGED raft_logs /\ idx' = [idx EXCEPT ![l] = @ + 1]
  /\ writes'[o].status = "open"
  /\ UNCHANGED <<next_index, committed_index, last_applied, elections, wins>>

LEMMA AddsOne ==
  ASSUME ReignStep, NEW i \in Node, NEW o \in Op, leader_append_log(i, o)
  PROVE  /\ i \in Leaders
         /\ Adds(o, i) \/ (UNCHANGED <<raft_logs, idx>> /\ writes'[o].status = "error")
<1>0. /\ TypeOK /\ LeadInv /\ idx \in [Node -> Nat] /\ raft_logs \in [Node -> SUBSET Row]
      /\ writes \in [Op -> Writes] /\ \A j \in Node : \A r \in raft_logs[j] : r.idx \in Nat
  BY ReignTypes DEF ReignStep, TypeOK
<1>1. i \in Leaders /\ term[i] = 1
  BY <1>0 DEF leader_append_log, LeadInv, NamedLeaders, ReignStep, FirstReign, Terms
<1> DEFINE row == [idx |-> idx[i] + 1, term |-> term[i], op |-> o]
           w == [status |-> "inserted", node |-> i, new_idx |-> row.idx, acks |-> 1,
                 waiting |-> Peers(i)]
           free == \A r \in raft_logs[i] : r.idx # row.idx \/ r.term # row.term
<1>2. \/ /\ free /\ raft_logs' = [raft_logs EXCEPT ![i] = @ \cup {row}]
         /\ writes' = [writes EXCEPT ![o] = w]
      \/ UNCHANGED raft_logs /\ writes' = [writes EXCEPT ![o].status = "error"]
  BY DEF leader_append_log
<1>3. UNCHANGED <<idx, net, next_index, committed_index, last_applied, elections, wins>>
  BY DEF leader_append_log, memory, history
<1>4. CASE UNCHANGED raft_logs /\ writes' = [writes EXCEPT ![o].status = "error"]
  BY <1>0, <1>1, <1>3, <1>4 DEF Writes
<1>5. CASE /\ free /\ raft_logs' = [raft_logs EXCEPT ![i] = @ \cup {row}]
           /\ writes' = [writes EXCEPT ![o] = w]
  <2>1. /\ row.idx = idx[i] + 1 /\ row.term = 1 /\ row.op = o
        /\ row = [idx |-> idx[i] + 1, term |-> 1, op |-> o]
    BY <1>1
  <2>2. w.status = "inserted" /\ w.node = i /\ w.new_idx = idx[i] + 1
    BY <2>1
  <2>3. \A r \in raft_logs[i] : r.idx <= idx[i] + 1 /\ r.term = 1
    BY <1>1 DEF ReignStep, Reign, LeaderRows
  <2>4. \A r \in raft_logs[i] : r.idx <= idx[i]
    BY <1>0, <1>5, <2>1, <2>3
  <2> HIDE DEF row, w
  <2>5. row \in raft_logs'[i] /\ writes'[o] = w
    BY <1>0, <1>5
  <2> QED
    BY <1>1, <1>3, <1>5, <2>1, <2>2, <2>4, <2>5 DEF Adds
<1> QED
  BY <1>2, <1>4, <1>5

LEMMA CountsOne ==
  ASSUME ReignStep, NEW o \in Op, increment_idx(o)
  PROVE  writes[o].node \in Leaders /\ Counts(o, writes[o].node)
<1>0. TypeOK /\ LeadInv
  BY ReignTypes DEF ReignStep
<1>1. writes[o].node \in Leaders
  BY <1>0, NodeAssumption DEF increment_idx, TypeOK, LeadInv, WritesToLeaders
<1>2. writes'[o].status = "open"
  BY <1>0 DEF increment_idx, TypeOK, Writes
<1> QED
  BY <1>1, <1>2 DEF Counts, increment_idx, memory, history

LEMMA ReignLogSteps ==
  ASSUME ReignStep
  PROVE  \/ UNCHANGED <<raft_logs, idx>>
         \/ \E m \in net : append_stored(m)
         \/ \E o \in Op, l \in Leaders : Adds(o, l) \/ Counts(o, l)
BY LogSteps, AddsOne, CountsOne DEF ReignStep

(* Where a write is in its stages, a step later. *)
LEMMA ReignWriteSteps ==
  ASSUME ReignStep, NEW o \in Op, writes'[o].status \in {"inserted", "open"}
  PROVE  \/ \E l \in Leaders : Adds(o, l)
         \/ \E l \in Leaders : /\ Counts(o, l) /\ writes'[o].new_idx = writes[o].new_idx
                               /\ writes'[o].waiting = writes[o].waiting
                               /\ writes'[o].acks = writes[o].acks
                               /\ writes'[o].node = writes[o].node
         \/ /\ writes'[o].status = writes[o].status /\ writes'[o].node = writes[o].node
            /\ writes'[o].new_idx = writes[o].new_idx
            /\ writes'[o] = writes[o] \/ (Heard(o) /\ writes[o].status = "open")
<1>0. TypeOK /\ AckInv /\ [Next]_vars
  BY ReignTypes DEF ReignStep
<1>1. CASE writes'[o] = writes[o]
  BY <1>1
<1>2. CASE Begun(o)
  <2>1. PICK i \in Node : leader_append_log(i, o) /\ writes'[o].status = "inserted"
    BY <1>2 DEF Begun
  <2> QED
    BY <2>1, AddsOne
<1>3. CASE Opened(o)
  BY <1>0, <1>3, CountsOne, WriteFields DEF Opened
<1>4. CASE Heard(o)
  <2>1. writes[o].status = "open"
    BY <1>0, <1>4, HeardOnce DEF AckInv, LiveAwaited
  <2> QED
    BY <1>0, <1>4, <2>1, WriteFields
<1> QED
  BY <1>0, <1>1, <1>2, <1>3, <1>4, WriteSteps, WriteFields

LEMMA LeaderRowsStep ==
  ASSUME ReignStep
  PROVE  LeaderRows'
<1> SUFFICES ASSUME NEW l \in Leaders'
             PROVE  /\ \A r \in raft_logs'[l] : 1 <= r.idx /\ r.idx <= idx'[l] + 1 /\ r.term = 1
                    /\ \A r, q \in raft_logs'[l] : r.idx = q.idx => r = q
                    /\ \A o \in Op : writes'[o].status = "inserted" =>
                         writes'[o].new_idx = idx'[l] + 1
                    /\ \A o \in Op : writes'[o].status \in {"inserted", "open"} =>
                         \E r \in raft_logs'[l] : r.idx = writes'[o].new_idx /\ r.op = o
  BY DEF LeaderRows
<1>0. /\ TypeOK /\ LeadInv /\ idx \in [Node -> Nat] /\ raft_logs \in [Node -> SUBSET Row]
      /\ Leaders \subseteq Node
      /\ \A j \in Node : \A r \in raft_logs[j] : r.idx \in Nat
  BY ReignTypes DEF ReignStep
<1>1. CASE l \notin Leaders
  <2>1. l \in Node /\ raft_logs[l] = {} /\ UNCHANGED <<raft_logs, writes>>
    BY <1>1, NewLeader DEF election_won, disk
  <2> QED
    BY <1>1, <2>1, NewLeader
<1>2. CASE l \in Leaders
  <2>0. l \in Node /\ idx[l] \in Nat /\ idx'[l] \in Nat
        /\ raft_logs[l] \subseteq raft_logs'[l] /\ idx[l] <= idx'[l]
    BY <1>0, <1>2, LogsGrow, ReignTypes DEF ReignStep, Base, LifeInv, TypeOK
  <2>1. /\ \A r \in raft_logs[l] : 1 <= r.idx /\ r.idx <= idx[l] + 1 /\ r.term = 1
        /\ \A r, q \in raft_logs[l] : r.idx = q.idx => r = q
        /\ \A o \in Op : writes[o].status = "inserted" => writes[o].new_idx = idx[l] + 1
        /\ \A o \in Op : writes[o].status \in {"inserted", "open"} =>
             \E r \in raft_logs[l] : r.idx = writes[o].new_idx /\ r.op = o
    BY <1>2 DEF ReignStep, Reign, LeaderRows
  <2>2. \A k \in Leaders : k = l
    BY <1>2 DEF ReignStep, FirstReign, OneLeader
  <2>3. \/ raft_logs'[l] = raft_logs[l]
        \/ \E o \in Op : Adds(o, l)
    <3>1. ASSUME NEW m \in net, append_stored(m) PROVE raft_logs'[l] = raft_logs[l]
      BY <1>2, <2>0, <3>1, StoredPrefix
    <3> QED
      BY <2>2, <3>1, ReignLogSteps DEF Counts
  <2>4. \A r \in raft_logs'[l] : 1 <= r.idx /\ r.idx <= idx'[l] + 1 /\ r.term = 1
    <3>1. CASE raft_logs'[l] = raft_logs[l]
      BY <1>0, <2>0, <2>1, <3>1
    <3>2. ASSUME NEW o \in Op, Adds(o, l), NEW r \in raft_logs'[l]
          PROVE  1 <= r.idx /\ r.idx <= idx'[l] + 1 /\ r.term = 1
      BY <1>0, <2>0, <2>1, <3>2 DEF Adds
    <3> QED
      BY <2>3, <3>1, <3>2
  <2>5. ASSUME NEW r \in raft_logs'[l], NEW q \in raft_logs'[l], r.idx = q.idx PROVE r = q
    <3>1. ASSUME NEW o \in Op, Adds(o, l) PROVE r = q
      BY <1>0, <2>0, <2>1, <2>5, <3>1 DEF Adds
    <3> QED
      BY <2>1, <2>3, <2>5, <3>1
  <2>6. ASSUME NEW o \in Op, writes'[o].status = "inserted"
        PROVE  writes'[o].new_idx = idx'[l] + 1
    <3>1. CASE \E k \in Leaders : Adds(o, k)
      BY <2>2, <3>1 DEF Adds
    <3>2. CASE writes'[o].status = writes[o].status /\ writes'[o].new_idx = writes[o].new_idx
      <4>1. writes[o].new_idx = idx[l] + 1
        BY <2>1, <2>6, <3>2
      <4>2. ASSUME NEW q \in Op, Counts(q, l) PROVE FALSE
        <5>1. q # o /\ writes[q].new_idx = idx[l] + 1
          BY <2>1, <2>6, <3>2, <4>2 DEF Counts
        <5> QED
          BY <2>1, <2>6, <3>2, <4>1, <4>2, <5>1 DEF Counts
      <4>3. ASSUME NEW m \in net, append_stored(m) PROVE idx'[l] = idx[l]
        BY <1>2, <2>0, <4>3, StoredPrefix
      <4>4. idx'[l] = idx[l]
        BY <2>2, <4>2, <4>3, ReignLogSteps DEF Adds
      <4> QED
        BY <3>2, <4>1, <4>4
    <3> QED
      BY <2>6, <3>1, <3>2, ReignWriteSteps DEF Counts
  <2>7. ASSUME NEW o \in Op, writes'[o].status \in {"inserted", "open"}
        PROVE  \E r \in raft_logs'[l] : r.idx = writes'[o].new_idx /\ r.op = o
    <3>1. CASE \E k \in Leaders : Adds(o, k)
      <4>1. Adds(o, l)
        BY <2>2, <3>1
      <4> QED
        BY <4>1 DEF Adds
    <3>2. CASE writes[o].status \in {"inserted", "open"} /\ writes'[o].new_idx = writes[o].new_idx
      BY <2>0, <2>1, <3>2
    <3> QED
      BY <2>7, <3>1, <3>2, ReignWriteSteps DEF Counts
  <2> QED
    BY <2>4, <2>5, <2>6, <2>7
<1> QED
  BY <1>1, <1>2

LEMMA PrefixesStep ==
  ASSUME ReignStep
  PROVE  Prefixes'
<1>0. /\ TypeOK /\ TypeOK' /\ NextInv /\ LeadInv /\ LeadInv' /\ idx \in [Node -> Nat]
      /\ raft_logs \in [Node -> SUBSET Row]
      /\ Leaders \subseteq Node /\ Leaders \subseteq Leaders' /\ [Next]_vars
      /\ \A j \in Node : \A r \in raft_logs[j] : r.idx \in Nat
  BY ReignTypes, LeadersGrow DEF ReignStep, Base, LifeInv
<1>1. ASSUME NEW i \in Node, NEW r \in raft_logs'[i] PROVE Leaders' # {}
  <2>1. CASE \E j \in Node : r \in raft_logs[j]
    BY <1>0, <2>1 DEF ReignStep, Reign, Prefixes
  <2>2. ASSUME NEW o \in Op, writes'[o].node = i PROVE Leaders' # {}
    BY <1>0, <2>2, NodeAssumption DEF LeadInv, WritesToLeaders
  <2> QED
    BY <1>0, <2>1, <2>2, RowSteps
<1>2. ASSUME NEW i \in Node \ Leaders', NEW l \in Leaders'
      PROVE  raft_logs'[i] = {r \in raft_logs'[l] : r.idx <= idx'[i]}
  <2>1. CASE l \notin Leaders
    <3>1. l \in Node /\ raft_logs[l] = {} /\ raft_logs[i] = {} /\ UNCHANGED raft_logs
      BY <2>1, NewLeader DEF election_won, disk
    <3> QED
      BY <3>1
  <2>2. CASE l \in Leaders
    <3>1. /\ i \in Node \ Leaders /\ l \in Node /\ i # l /\ \A k \in Leaders : k = l
          /\ raft_logs[i] = {r \in raft_logs[l] : r.idx <= idx[i]}
      BY <1>0, <2>2 DEF ReignStep, Reign, Prefixes, FirstReign, OneLeader
    <3>2. CASE UNCHANGED <<raft_logs, idx>>
      BY <3>1, <3>2
    <3>3. ASSUME NEW m \in net, append_stored(m)
          PROVE  raft_logs'[i] = {r \in raft_logs'[l] : r.idx <= idx'[i]}
      <4>1. m.from = l /\ m.to # l /\ raft_logs'[l] = raft_logs[l]
        BY <3>1, <3>3, StoredPrefix
      <4>2. CASE i = m.to
        BY <3>3, <4>1, <4>2, StoredPrefix
      <4>3. CASE i # m.to
        BY <3>1, <3>3, <4>1, <4>3, StoredPrefix
      <4> QED
        BY <4>2, <4>3
    <3>4. ASSUME NEW o \in Op, Adds(o, l)
          PROVE  raft_logs'[i] = {r \in raft_logs'[l] : r.idx <= idx'[i]}
      <4> DEFINE row == [idx |-> idx[l] + 1, term |-> 1, op |-> o]
      <4>1. /\ raft_logs'[i] = raft_logs[i] /\ raft_logs'[l] = raft_logs[l] \cup {row}
            /\ idx'[i] = idx[i] /\ row.idx = idx[l] + 1
            /\ \A r \in raft_logs[l] : r.idx <= idx[l]
        BY <1>0, <3>1, <3>4 DEF Adds
      <4> HIDE DEF row
      <4>2. idx[i] <= idx[l]
        <5> SUFFICES ASSUME idx[i] > idx[l] PROVE FALSE
          BY <1>0, <3>1
        <5>1. idx[l] + 1 \in 1..idx[i]
          BY <1>0, <3>1
        <5>2. PICK r \in raft_logs[i] : r.idx = idx[l] + 1
          BY <5>1 DEF ReignStep, Reign, LogHasNoGaps
        <5> QED
          BY <1>0, <3>1, <4>1, <5>2
      <4> QED
        BY <1>0, <3>1, <4>1, <4>2
    <3>5. ASSUME NEW o \in Op, Counts(o, l)
          PROVE  raft_logs'[i] = {r \in raft_logs'[l] : r.idx <= idx'[i]}
      BY <1>0, <3>1, <3>5 DEF Counts
    <3> QED
      BY <3>1, <3>2, <3>3, <3>4, <3>5, ReignLogSteps
  <2> QED
    BY <2>1, <2>2
<1> QED
  BY <1>1, <1>2 DEF Prefixes

LEMMA NoGapsStep ==
  ASSUME ReignStep
  PROVE  LogHasNoGaps'
<1> SUFFICES ASSUME NEW i \in Node, NEW k \in 1..idx'[i] PROVE \E r \in raft_logs'[i] : r.idx = k
  BY DEF LogHasNoGaps
<1>0. /\ TypeOK /\ idx \in [Node -> Nat] /\ raft_logs \in [Node -> SUBSET Row]
      /\ Leaders \subseteq Node /\ [Next]_vars /\ idx'[i] \in Nat
      /\ \A j \in Node : \A r \in raft_logs[j] : r.idx \in Nat
  BY ReignTypes DEF ReignStep, Base, LifeInv, TypeOK
<1>1. CASE k <= idx[i]
  <2>1. k \in 1..idx[i]
    BY <1>0, <1>1
  <2> QED
    BY <1>0, <2>1, LogsGrow DEF ReignStep, Reign, LogHasNoGaps
<1>2. CASE idx[i] < k
  <2>1. idx'[i] # idx[i]
    BY <1>0, <1>2
  <2>2. ASSUME NEW m \in net, append_stored(m) PROVE \E r \in raft_logs'[i] : r.idx = k
    <3> DEFINE l == m.from
    <3>1. /\ i = m.to /\ l \in Leaders /\ m.entries \subseteq raft_logs[l] /\ l \in Node
          /\ raft_logs'[i] = {r \in raft_logs[l] : r.idx <= idx'[i]}
      BY <1>0, <2>1, <2>2, StoredPrefix
    <3>2. PICK e \in m.entries : e.idx = idx'[i]
      BY <2>1, <2>2, <3>1, StoredPrefix
    <3>3. e \in raft_logs[l] /\ e.idx <= idx[l] + 1
      BY <3>1 DEF ReignStep, Reign, LeaderRows
    <3> HIDE DEF l
    <3>4. CASE k = e.idx
      BY <1>0, <3>1, <3>2, <3>3, <3>4
    <3>5. CASE k # e.idx
      <4>1. k \in 1..idx[l]
        BY <1>0, <3>1, <3>2, <3>3, <3>5
      <4>2. PICK r \in raft_logs[l] : r.idx = k
        BY <3>1, <4>1 DEF ReignStep, Reign, LogHasNoGaps
      <4> QED
        BY <1>0, <3>1, <4>2
    <3> QED
      BY <3>4, <3>5
  <2>3. ASSUME NEW o \in Op, NEW l \in Leaders, Counts(o, l)
        PROVE  \E r \in raft_logs'[i] : r.idx = k
    <3>1. i = l /\ k = idx[i] + 1 /\ UNCHANGED raft_logs
      BY <1>0, <1>2, <2>1, <2>3 DEF Counts
    <3> QED
      BY <2>3, <3>1 DEF Counts, ReignStep, Reign, LeaderRows
  <2>4. ASSUME NEW o \in Op, NEW l \in Leaders, Adds(o, l) PROVE FALSE
    BY <2>1, <2>4 DEF Adds
  <2> QED
    BY <2>1, <2>2, <2>3, <2>4, ReignLogSteps
<1> QED
  BY <1>0, <1>1, <1>2

LEMMA MajorityType == majority \in Nat
BY NodesCount, SMT DEF majority

(* What is stored stays so, and rows come above idx. *)
LEMMA HoldersGrow ==
  ASSUME TypeOK, TypeOK', [Next]_vars, NEW r
  PROVE  /\ Cardinality(Holders(r)) \in Nat /\ Cardinality(Holders(r))' \in Nat
         /\ Cardinality(Holders(r)) <= Cardinality(Holders(r))'
<1>1. Holders(r) \subseteq Holders(r)' /\ Holders(r)' \subseteq Node
  BY LogsGrow DEF Holders
<1> QED
  BY <1>1, NodesCount

LEMMA NewRowsAbove ==
  ASSUME ReignStep, NEW i \in Node, NEW r \in raft_logs'[i], r \notin raft_logs[i]
  PROVE  r.idx > idx[i]
<1>0. /\ Leaders \subseteq Node /\ idx \in [Node -> Nat] /\ raft_logs \in [Node -> SUBSET Row]
      /\ \A j \in Node : \A q \in raft_logs[j] : q.idx \in Nat
  BY ReignTypes DEF ReignStep
<1>1. ASSUME NEW m \in net, append_stored(m) PROVE r.idx > idx[i]
  <2>1. /\ i = m.to /\ m.from \in Leaders /\ i \in Node \ Leaders
        /\ r \in raft_logs[m.from]
    BY <1>1, StoredPrefix
  <2>2. raft_logs[i] = {q \in raft_logs[m.from] : q.idx <= idx[i]}
    BY <2>1 DEF ReignStep, Reign, Prefixes
  <2> QED
    BY <1>0, <2>1, <2>2
<1>2. ASSUME NEW o \in Op, NEW l \in Leaders, Adds(o, l) PROVE r.idx > idx[i]
  BY <1>0, <1>2 DEF Adds
<1> QED
  BY <1>1, <1>2, ReignLogSteps DEF Counts

LEMMA HeldKept ==
  ASSUME ReignStep, NEW i \in Node, NEW k \in Nat, k <= idx[i], Held(i, k)
  PROVE  Held(i, k)'
<1>0. /\ TypeOK /\ TypeOK' /\ [Next]_vars /\ idx[i] \in Nat /\ majority \in Nat
      /\ raft_logs' \in [Node -> SUBSET Row]
  BY ReignTypes, MajorityType DEF ReignStep, Base, LifeInv, TypeOK
<1> SUFFICES ASSUME NEW r \in raft_logs'[i], r.idx <= k
             PROVE  Cardinality(Holders(r))' > majority
  BY DEF Held, majority
<1>1. r.idx \in Nat
  BY <1>0, RowFields
<1>2. r \in raft_logs[i]
  BY <1>0, <1>1, NewRowsAbove
<1>3. Cardinality(Holders(r)) > majority
  BY <1>2 DEF Held
<1> QED
  BY <1>0, <1>3, HoldersGrow

(* An append keeps to the leader's log and to its follower's while these grow. *)
LEMMA RequestFits ==
  ASSUME ReignStep, NEW q \in AppendRequests, q.from \in Leaders,
         q.entries \subseteq raft_logs[q.from], Whole(q), Fitting(q), Telling(q)
  PROVE  (Whole(q) /\ Fitting(q) /\ Telling(q))'
<1>0. /\ TypeOK /\ [Next]_vars /\ idx \in [Node -> Nat] /\ idx' \in [Node -> Nat]
      /\ q.from \in Node /\ q.to \in Node /\ q.leader_commit_idx \in Nat
      /\ q.prev_log_idx \in Nat /\ q.entries \subseteq raft_logs[q.from]
      /\ \A i \in Node : \A r \in raft_logs[i] : r.idx \in Nat
      /\ \A i \in Node : \A r \in raft_logs'[i] : r.idx \in Nat
  BY ReignTypes, RowFields DEF AppendRequests, ReignStep, Base, LifeInv, TypeOK
<1>1. /\ idx[q.to] <= idx'[q.to] /\ idx[q.from] <= idx'[q.from]
      /\ raft_logs[q.from] \subseteq raft_logs'[q.from]
  BY <1>0, LogsGrow
<1>2. Whole(q)'
  <2>1. ASSUME NEW e \in q.entries, NEW r \in raft_logs'[q.from],
               q.prev_log_idx < r.idx, r.idx <= e.idx
        PROVE  r \in q.entries
    <3>1. CASE r \in raft_logs[q.from]
      BY <2>1, <3>1 DEF Whole
    <3>2. CASE r \notin raft_logs[q.from]
      <4>1. PICK o \in Op : Adds(o, q.from)
        <5>1. ASSUME NEW m \in net, append_stored(m) PROVE FALSE
          <6>1. m.to \notin Leaders /\ \A j \in Node \ {m.to} : raft_logs'[j] = raft_logs[j]
            BY <5>1, StoredPrefix
          <6> QED
            BY <1>0, <3>2, <6>1
        <5>2. \A l \in Leaders : l = q.from
          BY DEF ReignStep, FirstReign, OneLeader
        <5> QED
          BY <3>2, <5>1, <5>2, ReignLogSteps DEF Counts
      <4>2. e.idx <= idx[q.from] /\ r.idx > idx[q.from]
        BY <1>0, <3>2, <4>1, NewRowsAbove DEF Adds
      <4> QED
        BY <1>0, <2>1, <4>2
    <3> QED
      BY <3>1, <3>2
  <2> QED
    BY <2>1 DEF Whole
<1>3. Fitting(q)'
  <2>1. Held(q.from, q.leader_commit_idx)'
    BY <1>0, HeldKept DEF Fitting
  <2> QED
    BY <1>0, <1>1, <2>1 DEF Fitting
<1>4. Telling(q)'
  <2> SUFFICES ASSUME q.write # Nil
               PROVE  /\ writes'[q.write].status # "new"
                      /\ \/ writes'[q.write].new_idx <= q.prev_log_idx
                         \/ \E e \in q.entries : e.idx = writes'[q.write].new_idx
    BY DEF Telling
  <2>1. q.write \in Op
    BY DEF AppendRequests
  <2>2. /\ writes[q.write].status # "new"
        /\ \/ writes[q.write].new_idx <= q.prev_log_idx
           \/ \E e \in q.entries : e.idx = writes[q.write].new_idx
    BY DEF Telling
  <2>3. /\ writes'[q.write].status # "new"
        /\ writes'[q.write].new_idx = writes[q.write].new_idx
    <3>1. ~Begun(q.write) /\ ~Refused(q.write)
      BY <2>2 DEF Begun, Refused
    <3> QED
      BY <1>0, <2>1, <2>2, <3>1, WriteSteps, WriteFields
  <2> QED
    BY <2>2, <2>3
<1> QED
  BY <1>2, <1>3, <1>4

(* Nothing is refused: an answer says yes, and what was carried is stored. *)
LEMMA AnswersYes ==
  ASSUME ReignStep, NEW m \in net', m \notin net, Answered(m)
  PROVE  m.yes /\ \A e \in m.req.entries : e.idx <= idx'[m.req.to]
<1> DEFINE q == m.req
<1>0. /\ TypeOK /\ LeadInv /\ idx \in [Node -> Nat] /\ raft_logs \in [Node -> SUBSET Row]
      /\ term \in [Node -> Nat] /\ Leaders \subseteq Node /\ IsRequest(q) /\ Request(q) = q
      /\ q \in net /\ q.type = "append" /\ m.type = "answer" /\ follower_append_entries(q)
  BY ReignTypes, TermFacts DEF ReignStep, TypeOK, Answered, Request, IsRequest
<1>1. /\ q \in AppendRequests /\ q.term = 1 /\ q.from \in Leaders /\ q.to \in Node \ Leaders
      /\ q.prev_log_idx \in Nat /\ term[q.to] <= 1 /\ Fitting(q)
  <2>1. q \in AppendRequests /\ q.term = 1 /\ q.from \in Leaders /\ q.to # q.from /\ Fitting(q)
    BY <1>0, RequestTypes DEF ReignStep, FirstReign, Terms, LeadInv, AppendsFromLeaders,
                              Reign, Segments
  <2> QED
    BY <2>1 DEF AppendRequests, ReignStep, FirstReign, OneLeader, Terms
<1>2. m = [type |-> "answer", req |-> q, yes |-> m.yes, term |-> m.term] \/ m \in net
  BY DEF Answered, Respond, Answer
<1>3. ASSUME NEW t, Respond(q, TRUE, t) PROVE m.yes
  BY <1>3 DEF Respond, Answer
<1>4. ASSUME append_stale(q) PROVE FALSE
  BY <1>0, <1>1, <1>4 DEF append_stale
<1>5. Consistent(q)
  <2> SUFFICES ASSUME q.prev_log_idx # 0
               PROVE  \E r \in raft_logs[q.to] :
                        r.idx = q.prev_log_idx /\ r.term = q.prev_log_term
    BY DEF Consistent
  <2>1. q.prev_log_idx \in 1..idx[q.to] /\ q.prev_log_term = 1
    BY <1>0, <1>1 DEF Fitting
  <2>2. PICK r \in raft_logs[q.to] : r.idx = q.prev_log_idx
    BY <1>1, <2>1 DEF ReignStep, Reign, LogHasNoGaps
  <2>3. r \in raft_logs[q.from]
    BY <1>1 DEF ReignStep, Reign, Prefixes
  <2>4. r.term = 1
    BY <1>1, <2>3 DEF ReignStep, Reign, LeaderRows
  <2> QED
    BY <2>1, <2>2, <2>4
<1>6. CASE append_empty(q)
  BY <1>3, <1>6 DEF append_empty
<1>7. CASE append_stored(q)
  <2>1. m.yes
    BY <1>3, <1>7 DEF append_stored
  <2> QED
    BY <1>0, <1>7, <2>1, StoredPrefix
<1> QED
  BY <1>0, <1>4, <1>5, <1>6, <1>7 DEF follower_append_entries, append_mismatch

(* Who sends appends, and from where in its log. *)
LEMMA SendsHeld ==
  ASSUME ReignStep, NEW i \in Node, NEW w, NEW next \in [Node -> Nat], Sends(i, w, next)
  PROVE  /\ UNCHANGED raft_logs
         /\ w # Nil => w \in Op /\ increment_idx(w) /\ i = writes[w].node /\ Counts(w, i)
         /\ \/ i \in Leaders /\ \A p \in Peers(i) : next[p] \in 1..(idx[p] + 1)
            \/ raft_logs[i] = {} /\ idx[i] = 0 /\ w = Nil /\ idx'[i] = 0
<1>0. /\ TypeOK /\ LeadInv /\ idx \in [Node -> Nat] /\ Leaders \subseteq Node /\ [Next]_vars
  BY ReignTypes DEF ReignStep
<1>1. ASSUME NEW c \in elections, NEW a \in net, election_won(c, a), i = c.node,
             next = [p \in Node |-> c.last_index + 1], w = Nil
      PROVE  /\ UNCHANGED raft_logs
             /\ \/ i \in Leaders /\ \A p \in Peers(i) : next[p] \in 1..(idx[p] + 1)
                \/ raft_logs[i] = {} /\ idx[i] = 0 /\ w = Nil /\ idx'[i] = 0
  <2>1. UNCHANGED <<raft_logs, idx>> /\ c.last_index = 0 /\ i \in Leaders'
    BY <1>0, <1>1, LeadersGrow DEF election_won, disk, ReignStep, FirstReign, Terms
  <2>2. CASE i \in Leaders
    BY <1>0, <1>1, <2>1, <2>2 DEF Peers
  <2>3. CASE i \notin Leaders
    BY <1>1, <2>1, <2>3, NewLeader
  <2> QED
    BY <2>1, <2>2, <2>3
<1>2. CASE heartbeat_tick(i) /\ w = Nil /\ next = next_index[i]
  <2>1. UNCHANGED raft_logs /\ i \in Leaders
    BY <1>0, <1>2 DEF heartbeat_tick, disk, LeadInv, NamedLeaders
  <2> QED
    BY <1>2, <2>1 DEF ReignStep, Reign, NextHeld
<1>3. ASSUME NEW o \in Op, increment_idx(o), i = writes[o].node, w = o, next = next_index[i]
      PROVE  /\ UNCHANGED raft_logs /\ Counts(o, i)
             /\ i \in Leaders /\ \A p \in Peers(i) : next[p] \in 1..(idx[p] + 1)
  <2>1. UNCHANGED raft_logs /\ i \in Leaders /\ Counts(o, i)
    BY <1>3, CountsOne DEF increment_idx
  <2> QED
    BY <1>3, <2>1 DEF ReignStep, Reign, NextHeld
<1> QED
  BY <1>1, <1>2, <1>3, OpAssumption DEF Sends

(* What a leader sends begins right after a row that its follower holds. *)
LEMMA SentFits ==
  ASSUME ReignStep, NEW m, Sent(m)
  PROVE  (Whole(m) /\ Fitting(m) /\ Telling(m))'
<1>0. /\ TypeOK /\ TypeOK' /\ NextInv /\ LeadInv /\ [Next]_vars
      /\ idx \in [Node -> Nat] /\ idx' \in [Node -> Nat] /\ raft_logs \in [Node -> SUBSET Row]
      /\ \A j \in Node : \A r \in raft_logs[j] : r.idx \in Nat
      /\ \A j \in Node : committed_index[j] \in Nat /\ committed_index[j] <= idx[j]
  BY ReignTypes DEF ReignStep, Base, LifeInv, TypeOK
<1>1. PICK i \in Node, w \in Op \cup {Nil}, next \in [Node -> Nat] :
        Sends(i, w, next) /\ m \in AppendRequest(i, w, next)
  BY DEF Sent
<1> DEFINE n == next[m.to]
           prev == RowAt(raft_logs[i], n - 1)
<1>2. /\ m.from = i /\ m.to \in Peers(i) /\ m.to \in Node /\ m.write = w
      /\ m.prev_log_idx = prev.idx /\ m.prev_log_term = prev.term
      /\ m.entries = Suffix(raft_logs[i], n) /\ m.leader_commit_idx = committed_index[i]
  BY <1>0, <1>1, SentFields DEF Peers
<1>3. /\ UNCHANGED raft_logs /\ idx[i] <= idx'[i] /\ idx[m.to] <= idx'[m.to]
      /\ w # Nil => w \in Op /\ increment_idx(w) /\ i = writes[w].node /\ Counts(w, i)
  BY <1>0, <1>1, <1>2, SendsHeld, LogsGrow
<1>4. CASE raft_logs[i] = {} /\ idx[i] = 0 /\ w = Nil
  <2>1. prev.idx = 0 /\ m.entries = {} /\ committed_index[i] = 0
    BY <1>0, <1>4, <1>2 DEF RowAt, NoRow, Suffix
  <2> QED
    BY <1>0, <1>2, <1>3, <1>4, <2>1 DEF Whole, Fitting, Telling, Held
<1>5. CASE i \in Leaders /\ n \in 1..(idx[m.to] + 1)
  <2>1. /\ \A r \in raft_logs[i] : 1 <= r.idx /\ r.term = 1
        /\ \A r, q \in raft_logs[i] : r.idx = q.idx => r = q
        /\ \A o \in Op : writes[o].status \in {"inserted", "open"} =>
             \E r \in raft_logs[i] : r.idx = writes[o].new_idx /\ r.op = o
    BY <1>5 DEF ReignStep, Reign, LeaderRows
  <2>2. n \in Nat /\ n - 1 \in Nat /\ n - 1 <= idx[m.to]
    BY <1>0, <1>2, <1>5
  <2>3. prev.idx = n - 1 /\ (n - 1 # 0 => prev.term = 1)
    <3>1. CASE n - 1 = 0
      <4>1. \A r \in raft_logs[i] : r.idx # n - 1
        BY <1>0, <2>1, <3>1
      <4> QED
        BY <3>1, <4>1 DEF RowAt, NoRow
    <3>2. CASE n - 1 # 0
      <4>1. n - 1 \in 1..idx[m.to] /\ m.to \in Node \ Leaders
        BY <1>0, <1>2, <1>5, <2>2, <3>2 DEF Peers, ReignStep, FirstReign, OneLeader
      <4>2. PICK r \in raft_logs[m.to] : r.idx = n - 1
        BY <4>1 DEF ReignStep, Reign, LogHasNoGaps
      <4>3. r \in raft_logs[i]
        BY <1>5, <4>1 DEF ReignStep, Reign, Prefixes
      <4>4. \A q \in raft_logs[i] : q.idx = n - 1 => r.term <= q.term
        BY <2>1, <4>2, <4>3
      <4>5. prev \in raft_logs[i] /\ prev.idx = n - 1
        BY <4>2, <4>3, <4>4 DEF RowAt
      <4> QED
        BY <2>1, <4>5
    <3> QED
      BY <3>1, <3>2
  <2> HIDE DEF prev, n
  <2>4. Whole(m)'
    BY <1>0, <1>2, <1>3, <2>2, <2>3 DEF Whole, Suffix
  <2>5. Fitting(m)'
    <3>1. m.leader_commit_idx \in Nat /\ m.leader_commit_idx <= idx[i]
      BY <1>0, <1>1, <1>2
    <3>2. Held(i, m.leader_commit_idx)
      BY <1>1, <1>2 DEF Held, ReignStep, Reign, CommittedOnMajority
    <3>3. Held(i, m.leader_commit_idx)'
      BY <1>1, <3>1, <3>2, HeldKept
    <3>4. m.leader_commit_idx <= idx'[i]
      BY <1>0, <1>1, <1>2, <1>3
    <3>5. m.prev_log_idx <= idx'[m.to] /\ (m.prev_log_idx # 0 => m.prev_log_term = 1)
      BY <1>0, <1>2, <1>3, <2>2, <2>3
    <3> QED
      BY <1>2, <3>3, <3>4, <3>5 DEF Fitting
  <2>6. Telling(m)'
    <3> SUFFICES ASSUME w # Nil
                 PROVE  /\ writes'[w].status # "new"
                        /\ \/ writes'[w].new_idx <= m.prev_log_idx
                           \/ \E e \in m.entries : e.idx = writes'[w].new_idx
      BY <1>2 DEF Telling
    <3>1. w \in Op /\ Counts(w, i) /\ increment_idx(w)
      BY <1>3
    <3>2. writes'[w].status = "open" /\ writes'[w].new_idx = writes[w].new_idx
      BY <1>0, <3>1 DEF Counts, increment_idx, TypeOK, Writes
    <3>3. PICK r \in raft_logs[i] : r.idx = writes[w].new_idx
      BY <2>1, <3>1 DEF Counts
    <3> QED
      BY <1>0, <1>1, <1>2, <2>2, <2>3, <3>2, <3>3 DEF Suffix
  <2> QED
    BY <2>4, <2>5, <2>6
<1> QED
  BY <1>1, <1>2, <1>4, <1>5, SendsHeld

LEMMA SegmentsStep ==
  ASSUME ReignStep
  PROVE  Segments'
<1>0. TypeOK /\ TypeOK' /\ NextInv /\ LeadInv /\ [Next]_vars
  BY ReignTypes DEF ReignStep, Base, LifeInv
<1>1. ASSUME NEW n \in net, Request(n).type = "append"
      PROVE  (Whole(Request(n)) /\ Fitting(Request(n)) /\ Telling(Request(n)))'
  <2>1. /\ Request(n) \in AppendRequests /\ Request(n).from \in Leaders
        /\ Request(n).entries \subseteq raft_logs[Request(n).from]
        /\ Whole(Request(n)) /\ Fitting(Request(n)) /\ Telling(Request(n))
    BY <1>0, <1>1, RequestTypes DEF NextInv, AppendsCarried, Carried, LeadInv,
         AppendsFromLeaders, ReignStep, Reign, Segments
  <2> QED
    BY <2>1, RequestFits
<1>2. ASSUME NEW m \in net', Request(m).type = "append"
      PROVE  (Whole(Request(m)) /\ Fitting(Request(m)) /\ Telling(Request(m)))'
  <2>1. CASE m \in net
    BY <1>1, <1>2, <2>1
  <2>2. CASE Dropped(m)
    <3>1. PICK n \in net : /\ Request(n) = n /\ Request(m) = m /\ n.type = "append"
                           /\ m.from = n.from /\ m.to = n.to /\ m.write = n.write
                           /\ m.entries = n.entries /\ m.prev_log_idx = n.prev_log_idx
                           /\ m.prev_log_term = n.prev_log_term
                           /\ m.leader_commit_idx = n.leader_commit_idx
      BY <1>0, <2>2, DroppedFields
    <3>2. (Whole(n) /\ Fitting(n) /\ Telling(n))'
      BY <1>1, <3>1
    <3> QED
      BY <3>1, <3>2 DEF Whole, Fitting, Telling
  <2>3. CASE Answered(m)
    <3>1. m.req \in net /\ Request(m.req) = m.req /\ Request(m) = m.req
      BY <2>3 DEF Answered, Request, IsRequest
    <3> QED
      BY <1>1, <1>2, <3>1
  <2>4. CASE Sent(m)
    <3>1. Request(m) = m
      BY <1>0, <2>4, SentFields DEF Sent
    <3> QED
      BY <2>4, <3>1, SentFits
  <2> QED
    BY <1>0, <1>2, <2>1, <2>2, <2>3, <2>4, AppendSteps
<1>3. ASSUME NEW m \in net', Request(m).type = "append", m.type = "answer"
      PROVE  m.yes /\ \A e \in m.req.entries : e.idx <= idx'[m.req.to]
  <2>1. CASE m \in net
    <3>1. m.yes /\ \A e \in m.req.entries : e.idx <= idx[m.req.to]
      BY <1>3, <2>1 DEF ReignStep, Reign, Segments
    <3>2. Request(m) = m.req
      BY <1>3 DEF Request, IsRequest
    <3>3. m.req \in AppendRequests
      BY <1>0, <1>3, <2>1, <3>2, RequestTypes
    <3>4. /\ m.req.to \in Node /\ m.req.entries \subseteq Row
          /\ idx[m.req.to] \in Nat /\ idx'[m.req.to] \in Nat
      BY <1>0, <3>3 DEF AppendRequests, TypeOK
    <3>5. idx[m.req.to] <= idx'[m.req.to]
      BY <1>0, <3>4, LogsGrow
    <3> QED
      BY <3>1, <3>4, <3>5, RowFields
  <2>2. CASE m \notin net /\ Answered(m)
    BY <2>2, AnswersYes
  <2>3. ~Dropped(m) /\ ~Sent(m)
    <3>1. Dropped(m) \/ Sent(m) => m.type = "append"
      BY <1>0, DroppedFields, SentFields DEF Sent
    <3> QED
      BY <1>3, <3>1
  <2> QED
    BY <1>0, <1>3, <2>1, <2>2, <2>3, AppendSteps
<1> QED
  BY <1>2, <1>3 DEF Segments, Request, IsRequest

LEMMA NextHeldStep ==
  ASSUME ReignStep
  PROVE  NextHeld'
<1> SUFFICES ASSUME NEW l \in Leaders', NEW p \in Peers(l)
             PROVE  next_index'[l][p] \in 1..(idx'[p] + 1)
  BY DEF NextHeld, Peers
<1>0. /\ TypeOK /\ NextInv /\ LeadInv /\ [Next]_vars /\ p \in Node /\ Leaders \subseteq Node
      /\ idx[p] \in Nat /\ idx'[p] \in Nat /\ idx[p] <= idx'[p]
      /\ next_index \in [Node -> [Node -> Nat]]
  BY ReignTypes, LogsGrow DEF ReignStep, Base, LifeInv, TypeOK, Peers
<1>1. ASSUME NEW c \in elections, NEW a \in net, election_won(c, a)
      PROVE  /\ next_index'[c.node] = [q \in Node |-> 1]
             /\ \A i \in Node \ {c.node} : next_index'[i] = next_index[i]
  BY <1>0, <1>1 DEF election_won, ReignStep, FirstReign, Terms, TypeOK, Elections
<1>2. CASE l \notin Leaders
  BY <1>0, <1>1, <1>2, NewLeader
<1>3. CASE l \in Leaders
  <2>0. l \in Node /\ next_index[l][p] \in 1..(idx[p] + 1)
    BY <1>0, <1>3 DEF ReignStep, Reign, NextHeld
  <2>1. CASE next_index'[l][p] = next_index[l][p]
    BY <1>0, <2>0, <2>1
  <2>2. ASSUME NEW c \in elections, NEW a \in net, election_won(c, a)
        PROVE  next_index'[l][p] \in 1..(idx'[p] + 1)
    BY <1>0, <1>1, <2>0, <2>1, <2>2
  <2>3. ASSUME NEW i \in Node, restart(i) PROVE next_index'[l][p] \in 1..(idx'[p] + 1)
    BY <1>0, <2>0, <2>1, <2>3 DEF restart
  <2>4. ASSUME NEW a \in net, append_backed_off(a) PROVE FALSE
    BY <2>4 DEF append_backed_off, AppendAnswer, ReignStep, Reign, Segments, Request, IsRequest
  <2>5. ASSUME NEW a \in net, append_accepted(a)
        PROVE  next_index'[l][p] \in 1..(idx'[p] + 1)
    <3> DEFINE q == a.req
               n == IF q.entries = {} THEN next_index[q.from][q.to] ELSE NextAfter(q)
    <3>1. /\ a.type = "answer" /\ q.type = "append" /\ Request(a) = q
          /\ next_index' = [next_index EXCEPT ![q.from][q.to] = n]
      BY <2>5 DEF append_accepted, AppendAnswer, Request, IsRequest
    <3>2. /\ q \in AppendRequests /\ Topped(q.entries) /\ q.entries \in SUBSET Row
          /\ \A e \in q.entries : e.idx <= idx[q.to]
      BY <1>0, <3>1, RequestTypes DEF NextInv, AppendsCarried, Carried, AppendRequests,
                                      ReignStep, Reign, Segments
    <3>3. CASE l = q.from /\ p = q.to /\ q.entries # {}
      <4>1. next_index'[l][p] = TopRow(q.entries).idx + 1
        BY <1>0, <2>0, <3>1, <3>3 DEF NextAfter
      <4>2. TopRow(q.entries) \in q.entries
        BY <3>2, <3>3, LastIsTop
      <4>3. TopRow(q.entries).idx \in Nat /\ TopRow(q.entries).idx <= idx[p]
        BY <3>2, <3>3, <4>2, RowFields
      <4> QED
        BY <1>0, <4>1, <4>3
    <3>4. CASE ~(l = q.from /\ p = q.to /\ q.entries # {})
      <4>1. q.from \in Node /\ q.to \in Node
        BY <3>2 DEF AppendRequests
      <4> HIDE DEF q
      <4> QED
        BY <1>0, <2>0, <2>1, <3>1, <3>4, <4>1
    <3> QED
      BY <3>3, <3>4
  <2> QED
    BY <1>0, <2>1, <2>2, <2>3, <2>4, <2>5, NextSteps
<1> QED
  BY <1>2, <1>3

LEMMA AcksBackedStep ==
  ASSUME ReignStep
  PROVE  AcksBacked'
<1> SUFFICES ASSUME NEW o \in Op, writes'[o].status \in {"inserted", "open"}
             PROVE  writes'[o].acks <= Cardinality(Stored(o))'
  BY DEF AcksBacked
<1>0. /\ TypeOK /\ TypeOK' /\ AckInv /\ AckInv' /\ [Next]_vars
      /\ idx \in [Node -> Nat] /\ idx' \in [Node -> Nat]
      /\ writes[o] \in Writes /\ writes'[o] \in Writes
      /\ Stored(o) \in SUBSET Node /\ Stored(o)' \in SUBSET Node
      /\ Cardinality(Stored(o))' \in Nat /\ Cardinality(Stored(o)) \in Nat
  <2>1. Stored(o) \in SUBSET Node /\ Stored(o)' \in SUBSET Node
    BY DEF Stored
  <2> QED
    BY <2>1, NodesCount, ReignTypes DEF ReignStep, Base, LifeInv, TypeOK
<1>1. \A i \in Node : idx[i] <= idx'[i]
  BY <1>0, LogsGrow
<1>2. ASSUME NEW l \in Leaders, Adds(o, l)
      PROVE  writes'[o].acks <= Cardinality(Stored(o))'
  <2>1. /\ l \in Node /\ writes'[o].node = l /\ writes'[o].acks = 1
        /\ writes'[o].waiting = Peers(l)
    BY <1>0, <1>2, ReignTypes DEF ReignStep, Adds, AckInv, InsertedWaits
  <2>2. l \in Stored(o)' \ {}
    BY <2>1 DEF Stored, Peers
  <2>3. Cardinality({}) + 1 <= Cardinality(Stored(o))'
    BY <1>0, <2>2, NodesCount
  <2> QED
    BY <1>0, <2>1, <2>3, FS_EmptySet
<1>3. ASSUME writes[o].status \in {"inserted", "open"}, writes'[o].acks = writes[o].acks,
             writes'[o].waiting \subseteq writes[o].waiting,
             writes'[o].new_idx = writes[o].new_idx, writes'[o].node = writes[o].node
      PROVE  writes'[o].acks <= Cardinality(Stored(o))'
  <2>1. writes[o].acks <= Cardinality(Stored(o)) /\ writes[o].acks \in Nat
        /\ writes[o].new_idx \in Nat
    BY <1>0, <1>3 DEF ReignStep, Reign, AcksBacked, Writes
  <2>2. Stored(o) \subseteq Stored(o)'
    BY <1>0, <1>1, <1>3, <2>1 DEF Stored
  <2> QED
    BY <1>0, <1>3, <2>1, <2>2, NodesCount
<1>4. ASSUME Heard(o), writes[o].status = "open"
      PROVE  writes'[o].acks <= Cardinality(Stored(o))'
  <2>1. ASSUME NEW a \in net, AppendAnswer(a), a.req.write = o, Hears(o, a.req.to, TRUE)
        PROVE  writes'[o].acks <= Cardinality(Stored(o))'
    <3> DEFINE p == a.req.to
    <3>1. /\ a.type = "answer" /\ p \in Node /\ Request(a) = a.req /\ Live(a, o, p)
          /\ a.req.type = "append" /\ a.req \in AppendRequests
      BY <1>0, <2>1, AnswerLive DEF AppendAnswer
    <3>2. p \in writes[o].waiting
      BY <1>0, <3>1 DEF AckInv, LiveAwaited
    <3>3. /\ writes'[o].node = writes[o].node /\ writes'[o].new_idx = writes[o].new_idx
          /\ writes'[o].waiting = writes[o].waiting \ {p}
          /\ writes'[o].acks = writes[o].acks + 1
      BY <1>0, <2>1, WriteFields
    <3>4. idx[p] >= writes[o].new_idx
      <4>1. /\ \A e \in a.req.entries : e.idx <= idx[p]
            /\ a.req.prev_log_idx <= idx[p] /\ a.req.prev_log_idx \in Nat
            /\ \/ writes[o].new_idx <= a.req.prev_log_idx
               \/ \E e \in a.req.entries : e.idx = writes[o].new_idx
        BY <2>1, <3>1, OpAssumption DEF ReignStep, Reign, Segments, Fitting, Telling,
                                        AppendRequests
      <4>2. writes[o].new_idx \in Nat /\ idx[p] \in Nat
        BY <1>0, <3>1 DEF Writes
      <4> QED
        BY <4>1, <4>2
    <3>5. Stored(o) \subseteq Stored(o)' /\ p \in Stored(o)' \ Stored(o)
      <4>1. writes[o].new_idx \in Nat
        BY <1>0 DEF Writes
      <4> HIDE DEF p
      <4> QED
        BY <1>0, <1>1, <3>1, <3>2, <3>3, <3>4, <4>1 DEF Stored
    <3>6. Cardinality(Stored(o)) + 1 <= Cardinality(Stored(o))'
      BY <1>0, <3>5, NodesCount
    <3>7. writes[o].acks <= Cardinality(Stored(o)) /\ writes[o].acks \in Nat
      BY <1>0, <1>4 DEF ReignStep, Reign, AcksBacked, Writes
    <3> QED
      BY <1>0, <3>3, <3>6, <3>7
  <2>2. ASSUME NEW p, Hears(o, p, FALSE)
        PROVE  writes'[o].acks <= Cardinality(Stored(o))'
    <3>1. /\ writes'[o].node = writes[o].node /\ writes'[o].new_idx = writes[o].new_idx
          /\ writes'[o].waiting \subseteq writes[o].waiting
          /\ writes'[o].acks = writes[o].acks + 0
      BY <1>0, <2>2, WriteFields
    <3> QED
      BY <1>0, <1>3, <1>4, <3>1 DEF Writes
  <2> QED
    BY <1>4, <2>1, <2>2 DEF Heard
<1> QED
  BY <1>2, <1>3, <1>4, ReignWriteSteps DEF Counts

LEMMA CommittedStep ==
  ASSUME ReignStep
  PROVE  CommittedOnMajority'
<1> SUFFICES ASSUME NEW i \in Node, NEW r \in raft_logs'[i], r.idx <= committed_index'[i]
             PROVE  Cardinality(Holders(r))' > majority
  BY DEF CommittedOnMajority, majority
<1>0. /\ TypeOK /\ TypeOK' /\ NextInv /\ LeadInv /\ PartsTopped' /\ [Next]_vars
      /\ Leaders \subseteq Node /\ idx \in [Node -> Nat] /\ raft_logs \in [Node -> SUBSET Row]
      /\ idx[i] \in Nat /\ committed_index[i] \in Nat /\ committed_index[i] <= idx[i]
      /\ r.idx \in Nat /\ majority \in Nat /\ committed_index \in [Node -> Nat]
      /\ \A j \in Node : \A q \in raft_logs[j] : q.idx \in Nat
  BY ReignTypes, MajorityType, RowFields DEF ReignStep, Base, LifeInv, TypeOK
<1>1. ASSUME Cardinality(Holders(r)) > majority PROVE Cardinality(Holders(r))' > majority
  BY <1>0, <1>1, HoldersGrow
<1>2. CASE committed_index'[i] = committed_index[i]
  <2>1. r \in raft_logs[i]
    BY <1>0, <1>2, NewRowsAbove
  <2> QED
    BY <1>1, <1>2, <2>1 DEF ReignStep, Reign, CommittedOnMajority
<1>3. ASSUME NEW m \in net, append_stored(m) PROVE Cardinality(Holders(r))' > majority
  <2>1. /\ \A j \in Node \ {m.to} : committed_index'[j] = committed_index[j]
        /\ \/ UNCHANGED committed_index
           \/ committed_index'[m.to] <= m.leader_commit_idx
    BY <1>0, <1>3, BatchApplied
  <2>2. CASE i = m.to /\ committed_index'[i] <= m.leader_commit_idx
    <3>1. /\ m \in AppendRequests /\ Request(m) = m /\ m.type = "append"
          /\ raft_logs'[i] = {q \in raft_logs[m.from] : q.idx <= idx'[i]}
      BY <1>3, <2>2, StoredPrefix
    <3>2. Held(m.from, m.leader_commit_idx)
      BY <3>1 DEF ReignStep, Reign, Segments, Fitting
    <3>3. r \in raft_logs[m.from] /\ r.idx <= m.leader_commit_idx
      <4>1. committed_index'[i] \in Nat /\ m.leader_commit_idx \in Nat
        BY <1>0, <3>1 DEF TypeOK, AppendRequests
      <4> QED
        BY <1>0, <2>2, <3>1, <4>1
    <3> QED
      BY <1>1, <3>2, <3>3 DEF Held
  <2> QED
    BY <1>2, <2>1, <2>2
<1>4. ASSUME NEW o \in Op, write_returned(o) PROVE Cardinality(Holders(r))' > majority
  <2> DEFINE w == writes[o]
  <2>1. /\ w.status = "open" /\ UNCHANGED raft_logs
        /\ \/ /\ Acked(w)
              /\ committed_index' = [committed_index EXCEPT ![w.node] = w.new_idx]
           \/ UNCHANGED committed_index
    BY <1>4 DEF write_returned
  <2>2. CASE Acked(w) /\ i = w.node /\ committed_index'[i] = w.new_idx
    <3>1. i \in Leaders /\ w.acks \in Nat /\ w.new_idx \in Nat /\ r \in raft_logs[i]
      BY <1>0, <2>1, <2>2, NodeAssumption DEF LeadInv, WritesToLeaders, TypeOK, Writes
    <3>2. Stored(o) \subseteq Holders(r)
      <4> SUFFICES ASSUME NEW p \in Node, p = i \/ idx[p] >= w.new_idx
                   PROVE  r \in raft_logs[p]
        BY <2>2 DEF Stored, Holders
      <4>1. CASE p \in Leaders
        BY <3>1, <4>1 DEF ReignStep, FirstReign, OneLeader
      <4>2. CASE p \notin Leaders
        <5>1. raft_logs[p] = {q \in raft_logs[i] : q.idx <= idx[p]}
          BY <3>1, <4>2 DEF ReignStep, Reign, Prefixes
        <5> QED
          BY <1>0, <2>2, <3>1, <4>2, <5>1
      <4> QED
        BY <4>1, <4>2
    <3>3. w.acks <= Cardinality(Stored(o))
      BY <2>1 DEF ReignStep, Reign, AcksBacked
    <3>4. /\ Cardinality(Stored(o)) \in Nat /\ Cardinality(Holders(r)) \in Nat
          /\ Cardinality(Stored(o)) <= Cardinality(Holders(r))
      <4>1. Holders(r) \subseteq Node
        BY DEF Holders
      <4> QED
        BY <3>2, <4>1, NodesCount
    <3> QED
      BY <1>0, <1>1, <2>2, <3>1, <3>3, <3>4 DEF Acked
  <2> QED
    BY <1>0, <1>2, <2>1, <2>2
<1>5. ASSUME NEW k \in Node, restart(k) PROVE Cardinality(Holders(r))' > majority
  <2>1. CASE i # k
    BY <1>0, <1>2, <1>5, <2>1 DEF restart
  <2>2. CASE i = k
    <3>1. committed_index'[i] = 0 /\ r \in raft_logs[i]
      BY <1>0, <1>5, <2>2 DEF restart, disk
    <3>2. PICK l \in Leaders : r \in raft_logs[l]
      BY <3>1 DEF ReignStep, Reign, Prefixes
    <3>3. 1 <= r.idx
      BY <3>2 DEF ReignStep, Reign, LeaderRows
    <3> QED
      BY <1>0, <3>1, <3>3
  <2> QED
    BY <2>1, <2>2
<1> QED
  BY <1>2, <1>3, <1>4, <1>5, ApplySteps, <1>0

LEMMA ReignBegins == Init => Reign
<1> SUFFICES ASSUME Init PROVE Reign
  OBVIOUS
<1>1. /\ Leaders = {} /\ net = {} /\ \A i \in Node : raft_logs[i] = {} /\ idx[i] = 0
      /\ \A o \in Op : writes[o].status = "new"
  BY DEF Init, Leaders
<1> QED
  BY <1>1 DEF Reign, LeaderRows, Prefixes, LogHasNoGaps, Segments, NextHeld, AcksBacked,
              CommittedOnMajority

LEMMA ReignStays == ReignStep => Reign'
BY LeaderRowsStep, PrefixesStep, NoGapsStep, SegmentsStep, NextHeldStep, AcksBackedStep,
   CommittedStep DEF Reign

LEMMA ReignAlways == Spec => [](FirstTerm => FirstReign /\ Reign)
<1> DEFINE Known == Base /\ (FirstTerm => FirstReign)
<1>1. Spec => []Known
  BY FirstReignAlways, PTL
<1>2. Init => (FirstTerm => Reign)
  BY ReignBegins
<1>3. Known /\ Known' /\ (FirstTerm => Reign) /\ [Next]_vars => (FirstTerm => Reign)'
  BY FirstTermBefore, ReignStays DEF ReignStep
<1>4. Known /\ (FirstTerm => Reign) => (FirstTerm => FirstReign /\ Reign)
  OBVIOUS
<1> HIDE DEF Known
<1> QED
  BY <1>1, <1>2, <1>3, <1>4, PTL DEF Spec

LEMMA ReignMatches ==
  ASSUME TypeOK, Reign, OneLeader
  PROVE  LogMatching
<1> SUFFICES ASSUME NEW i \in Node, NEW j \in Node, NEW r \in raft_logs[i] \cap raft_logs[j]
             PROVE  {q \in raft_logs[i] : q.idx <= r.idx} = {q \in raft_logs[j] : q.idx <= r.idx}
  BY DEF LogMatching
<1>0. idx \in [Node -> Nat] /\ raft_logs \in [Node -> SUBSET Row] /\ Leaders \subseteq Node
  BY DEF TypeOK, Leaders
<1>1. PICK l \in Leaders : TRUE
  BY DEF Reign, Prefixes
<1>2. \A p \in Node : p = l \/ raft_logs[p] = {q \in raft_logs[l] : q.idx <= idx[p]}
  BY <1>1 DEF Reign, Prefixes, OneLeader
<1>3. ASSUME NEW p \in Node, r \in raft_logs[p]
      PROVE  {q \in raft_logs[p] : q.idx <= r.idx} = {q \in raft_logs[l] : q.idx <= r.idx}
  <2>1. r.idx \in Nat /\ idx[p] \in Nat /\ \A q \in raft_logs[l] : q.idx \in Nat
    BY <1>0, <1>1, <1>3, RowFields
  <2> QED
    BY <1>2, <1>3, <2>1
<1> QED
  BY <1>3

(* While no vote is recorded in a term above 1, whoever restarts, and whatever is lost,
   late or refused: two nodes that hold one row hold the same rows below it. *)
THEOREM FirstReignLogsMatch == Spec => [](FirstTerm => LogMatching)
<1>1. Base /\ (FirstTerm => FirstReign /\ Reign) => (FirstTerm => LogMatching)
  BY ReignMatches, ReignTypes DEF FirstReign
<1> QED
  BY <1>1, FirstReignAlways, ReignAlways, PTL

(* In the same reign, the log of every node has a row at each index up to its idx: a write
   may come, or its node restart, between the INSERT and _increment_idx of another, and
   appends carry any number of rows. *)
THEOREM FirstReignHasNoGaps == Spec => [](FirstTerm => LogHasNoGaps)
<1>1. (FirstTerm => FirstReign /\ Reign) => (FirstTerm => LogHasNoGaps)
  BY DEF Reign
<1> QED
  BY <1>1, ReignAlways, PTL

(* In the same reign, whatever a node takes as committed is stored by more than half the
   nodes, although every answer that a write hears counts as an acknowledgement. *)
THEOREM FirstReignCommitsOnMajority == Spec => [](FirstTerm => CommittedOnMajority)
<1>1. (FirstTerm => FirstReign /\ Reign) => (FirstTerm => CommittedOnMajority)
  BY DEF Reign
<1> QED
  BY <1>1, ReignAlways, PTL

-----------------------------------------------------------------------------
(* The order in which followers apply.  Until the first restart, last_applied is within the
   log, and what lies up to it has run once. *)

Untouched == FirstTerm /\ restarts = 0
InOrder ==
  \A i \in Node \ Leaders :
    /\ last_applied[i] <= idx[i]
    /\ \A o \in Op : applied[i][o] = IF Ran(i, o) THEN 1 ELSE 0

LEMMA InOrderStep ==
  ASSUME ReignStep, restarts = 0, restarts' = 0, InOrder
  PROVE  InOrder'
<1> SUFFICES ASSUME NEW i \in Node, i \notin Leaders'
             PROVE  /\ last_applied'[i] <= idx'[i]
                    /\ \A o \in Op : applied'[i][o] = IF Ran(i, o)' THEN 1 ELSE 0
  BY DEF InOrder
<1>0. /\ TypeOK /\ TypeOK' /\ NextInv /\ LeadInv /\ RowsOnce' /\ PartsTopped' /\ [Next]_vars
      /\ idx[i] \in Nat /\ idx'[i] \in Nat /\ idx[i] <= idx'[i]
      /\ last_applied[i] \in Nat /\ last_applied'[i] \in Nat
      /\ raft_logs[i] \subseteq raft_logs'[i]
      /\ \A r \in raft_logs'[i] : r.idx \in Nat /\ r.op \in Op
  BY ReignTypes, RowFields, LogsGrow DEF ReignStep, Base, LifeInv, TypeOK, Row
<1>1. i \notin Leaders /\ last_applied[i] <= idx[i]
      /\ \A o \in Op : applied[i][o] = IF Ran(i, o) THEN 1 ELSE 0
  BY <1>0, LeadersGrow DEF InOrder
<1>2. ASSUME NEW r \in raft_logs'[i], r.idx <= last_applied[i] PROVE r \in raft_logs[i]
  BY <1>0, <1>1, <1>2, NewRowsAbove
<1>3. CASE applied'[i] = applied[i] /\ last_applied'[i] = last_applied[i]
  <2>1. \A o \in Op : Ran(i, o)' = Ran(i, o)
    BY <1>0, <1>2, <1>3 DEF Ran
  <2> QED
    BY <1>0, <1>1, <1>3, <2>1
<1>4. ASSUME NEW m \in net, append_stored(m), i = m.to
      PROVE  /\ last_applied'[i] <= idx'[i]
             /\ \A o \in Op : applied'[i][o] = IF Ran(i, o)' THEN 1 ELSE 0
  <2>1. /\ last_applied[i] <= last_applied'[i]
        /\ \/ UNCHANGED <<applied, last_applied, committed_index>>
           \/ /\ last_applied'[i] = last_applied[i]
                 \/ \E r \in raft_logs'[i] : r.idx = last_applied'[i]
              /\ \A o \in Op : applied'[i][o] = applied[i][o] +
                   (IF \E r \in raft_logs'[i] : /\ r.op = o /\ last_applied[i] < r.idx
                                                /\ r.idx <= last_applied'[i]
                    THEN 1 ELSE 0)
    BY <1>0, <1>4, BatchApplied
  <2>2. raft_logs'[i] = {r \in raft_logs[m.from] : r.idx <= idx'[i]}
    BY <1>4, StoredPrefix
  <2>3. CASE UNCHANGED <<applied, last_applied, committed_index>>
    BY <1>3, <2>3
  <2>4. CASE /\ last_applied'[i] = last_applied[i]
                \/ \E r \in raft_logs'[i] : r.idx = last_applied'[i]
             /\ \A o \in Op : applied'[i][o] = applied[i][o] +
                  (IF \E r \in raft_logs'[i] : /\ r.op = o /\ last_applied[i] < r.idx
                                               /\ r.idx <= last_applied'[i]
                   THEN 1 ELSE 0)
    <3>1. last_applied'[i] <= idx'[i]
      BY <1>0, <1>1, <2>2, <2>4
    <3>2. ASSUME NEW o \in Op PROVE applied'[i][o] = IF Ran(i, o)' THEN 1 ELSE 0
      <4> DEFINE Runs == \E r \in raft_logs'[i] : /\ r.op = o /\ last_applied[i] < r.idx
                                                  /\ r.idx <= last_applied'[i]
      <4>1. \A r, q \in raft_logs'[i] : r.op = o /\ q.op = o => r = q
        BY <1>0 DEF RowsOnce
      <4>2. Ran(i, o)' <=> Ran(i, o) \/ Runs
        BY <1>0, <1>2, <2>1 DEF Ran
      <4>3. ~(Ran(i, o) /\ Runs)
        BY <1>0, <4>1 DEF Ran
      <4>4. applied'[i][o] = applied[i][o] + (IF Runs THEN 1 ELSE 0)
        BY <2>4
      <4> HIDE DEF Runs
      <4> QED
        BY <1>1, <4>2, <4>3, <4>4
    <3> QED
      BY <3>1, <3>2
  <2> QED
    BY <2>1, <2>3, <2>4
<1>5. ASSUME NEW m \in net, append_stored(m), i # m.to
      PROVE  applied'[i] = applied[i] /\ last_applied'[i] = last_applied[i]
  BY <1>0, <1>5, BatchApplied
<1>6. ASSUME NEW o \in Op, write_returned(o)
      PROVE  applied'[i] = applied[i] /\ last_applied'[i] = last_applied[i]
  <2>1. writes[o].node \in Leaders
    BY <1>0, <1>6, NodeAssumption DEF LeadInv, WritesToLeaders, write_returned, TypeOK
  <2> QED
    BY <1>0, <1>1, <1>6, <2>1 DEF write_returned, TypeOK
<1>7. ASSUME NEW k \in Node, restart(k) PROVE FALSE
  BY <1>7 DEF restart
<1> QED
  BY <1>0, <1>3, <1>4, <1>5, <1>6, <1>7, ApplySteps

(* In the first reign, until a node restarts, a follower has run each write up to
   last_applied once, and none beyond, whichever order the appends arrive in. *)
THEOREM FirstReignAppliesInOrder == Spec => [](Untouched => FollowersApplyOnceInOrder)
<1> DEFINE Known == Base /\ (FirstTerm => FirstReign /\ Reign)
<1>1. Spec => []Known
  BY FirstReignAlways, ReignAlways, PTL
<1>2. Init => (Untouched => InOrder)
  <2> SUFFICES ASSUME Init PROVE InOrder
    OBVIOUS
  <2> QED
    BY DEF Init, InOrder, Ran
<1>3. Known /\ Known' /\ (Untouched => InOrder) /\ [Next]_vars => (Untouched => InOrder)'
  <2> SUFFICES ASSUME Known, Known', Untouched => InOrder, [Next]_vars, Untouched'
               PROVE  InOrder'
    OBVIOUS
  <2>1. restarts = 0 /\ restarts' = 0
    BY RestartSteps, ReignTypes DEF Untouched
  <2>2. FirstTerm /\ FirstTerm'
    BY FirstTermBefore DEF Untouched
  <2> QED
    BY <2>1, <2>2, InOrderStep DEF Untouched, ReignStep
<1>4. Known /\ (Untouched => InOrder) => (Untouched => FollowersApplyOnceInOrder)
  <2> SUFFICES ASSUME Base, InOrder PROVE FollowersApplyOnceInOrder
    OBVIOUS
  <2>1. Leaders \subseteq Electable
    BY ReignTypes DEF LeadInv, CandidatesElectable
  <2> QED
    BY <2>1 DEF FollowersApplyOnceInOrder, InOrder, Ran
<1> HIDE DEF Known
<1> QED
  BY <1>1, <1>2, <1>3, <1>4, PTL DEF Spec

=============================================================================
