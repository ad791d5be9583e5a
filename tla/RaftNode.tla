------------------------------ MODULE RaftNode ------------------------------
(***************************************************************************)
(* The consensus engine of server/consensus/raft_node.py: every Node       *)
(* object of the cluster, the Timer that drives it, the RPCs between the   *)
(* nodes, the write path of the services down to the local database, and   *)
(* the clients' choice of a node to write to.                              *)
(*                                                                         *)
(* One RPC handler runs without interruption by another handler of the     *)
(* same node.  Everything that waits for the network is cut there: an      *)
(* election and a replication round are records of what the waiting code   *)
(* holds in its local variables, and other handlers run in between.        *)
(***************************************************************************)
EXTENDS Naturals, FiniteSets

CONSTANTS
  Node,         \* the rows of node_discovery
  Up,           \* the nodes whose process is running
  Electable,    \* the nodes whose leader-timeout job may find no heartbeat
  Op,           \* the client writes, each one submitted at most once
  Nil,          \* SQL NULL / Python None
  Lossy,        \* the running nodes an RPC to which may miss its 1 s deadline
  MaxTerm,      \* bound: no election is started from this term on
  MaxCalls,     \* bound: candidate_request_vote calls a node has in flight
  MaxBeats,     \* bound: heartbeat RPCs in flight from one node to another
  MaxRestarts   \* bound: restarts in the whole cluster

ASSUME NodeAssumption == /\ IsFiniteSet(Node) /\ Node # {} /\ Nil \notin Node
                         /\ Up \subseteq Node /\ Electable \subseteq Up
ASSUME OpAssumption == IsFiniteSet(Op) /\ Nil \notin Op
ASSUME BoundAssumption == /\ {MaxTerm, MaxCalls, MaxBeats, MaxRestarts} \subseteq Nat
                          /\ Lossy \subseteq Node

VARIABLES
  term, voted_for, idx,   \* the row of state_info
  raft_logs,              \* the rows of raft_logs: records [idx, term, op]
  state,                  \* "F", "C" or "L"; kept in memory, as are the next ones
  leader_node, committed_index, last_applied, next_index,
  heard,                  \* has heartbeat_tracker moved since the last tick?
  applied,                \* how often each write ran against this node's tables
  elections,              \* candidate_request_vote calls waiting for answers
  writes,                 \* per write: where, how far, with how many acks
  connected,              \* the nodes some client has connected its stubs to
  net,                    \* requests not handled, answers not processed
  restarts,               \* counts the restarts
  grants, wins, rewound   \* history: votes recorded, elections won, and nodes
                          \* where an answer's term overwrote one as high

disk == <<term, voted_for, idx, raft_logs, applied>>
logs == <<idx, raft_logs, applied>>
memory == <<leader_node, committed_index, last_applied, next_index>>
history == <<grants, wins, rewound>>
vars == <<disk, state, memory, heard, elections, writes, connected, net,
          restarts, history>>

-----------------------------------------------------------------------------
(* The log table.  Ties between rows of one idx are broken as SQLite's plan
   for these queries does, which reads the UNIQUE (idx, term) index: backwards
   for ORDER BY idx DESC, forwards for idx = ?.

   An operator Bug... is a mutant of the definition that follows it, and used
   nowhere: a property of a run fails when it takes that definition's place. *)

BugNoRow == [idx |-> Nil, term |-> Nil, op |-> Nil]
NoRow == [idx |-> 0, term |-> 0, op |-> Nil]

TopRow(rows) ==
  LET top(r) == \A q \in rows : q.idx < r.idx \/ (q.idx = r.idx /\ q.term <= r.term)
  IN  IF \E r \in rows : top(r) THEN CHOOSE r \in rows : top(r) ELSE NoRow

RowAt(rows, k) ==
  LET first(r) == r.idx = k /\ \A q \in rows : q.idx = k => r.term <= q.term
  IN  IF \E r \in rows : first(r) THEN CHOOSE r \in rows : first(r) ELSE NoRow

(* The rows from index n on. *)
BugSuffix(rows, n) == {r \in rows : r.idx > n}
Suffix(rows, n) == {r \in rows : r.idx >= n}

(* The rows added by INSERT ... ON CONFLICT(idx, term) DO NOTHING. *)
Inserted(rows, entries) ==
  rows \cup {e \in entries : \A r \in rows : r.idx # e.idx \/ r.term # e.term}

Peers(i) == Node \ {i}
majority == Cardinality(Node) \div 2

-----------------------------------------------------------------------------
(* RPCs.  A request is live while its caller waits for the answer; the
   answer carries the request, as the caller's thread still has it. *)

VoteRequest(i, k, t, last) ==
  {[type |-> "vote", from |-> i, to |-> p, live |-> TRUE, call |-> k, term |-> t,
    last_log_idx |-> last.idx, last_log_term |-> last.term] : p \in Peers(i)}

(* What leader_append_entries and its workers send, for the write w or Nil. *)
AppendRequest(i, w, next) ==
  {LET prev == RowAt(raft_logs[i], next[p] - 1)
   IN  [type |-> "append", from |-> i, to |-> p, live |-> TRUE, term |-> term[i],
        write |-> w, prev_log_idx |-> prev.idx, prev_log_term |-> prev.term,
        entries |-> Suffix(raft_logs[i], next[p]),
        leader_commit_idx |-> committed_index[i]] : p \in Peers(i)}

IsRequest(m) == m.type \in {"vote", "append"}
Answer(m, yes, t) ==
  IF m.live THEN {[type |-> "answer", req |-> m, yes |-> yes, term |-> t]} ELSE {}
Respond(m, yes, t) == net' = (net \ {m}) \cup Answer(m, yes, t)

Beats(i, p) ==
  LET beat(m) == /\ m.type = "append" /\ m.live /\ m.write = Nil
                 /\ m.from = i /\ m.to = p
  IN  {m \in net : beat(IF IsRequest(m) THEN m ELSE m.req)}

-----------------------------------------------------------------------------
(* State helpers. *)

(* set_term followed by set_state(FOLLOWER), on a request of a higher term. *)
AdoptTerm(i, t) ==
  LET newer == t > term[i]
  IN  /\ term' = [term EXCEPT ![i] = IF newer THEN t ELSE @]
      /\ state' = [state EXCEPT ![i] = IF newer THEN "F" ELSE @]

(* The same two calls on an answer: the term written is compared with the one
   the request carried, not with the one stored now. *)
AdoptAnswerTerm(i, t) ==
  /\ term' = [term EXCEPT ![i] = t]
  /\ voted_for' = [voted_for EXCEPT ![i] = Nil]
  /\ state' = [state EXCEPT ![i] = "F"]
  /\ rewound' = IF t > term[i] THEN rewound ELSE rewound \cup {i}

(* The candidate_request_vote calls of i still running; each has a number, that
   its requests carry. *)
Calls(i) == {c \in elections : c.node = i}
FreeCalls(i) == (1..MaxCalls) \ {c.call : c \in Calls(i)}
Asked(c, m) == m.type = "vote" /\ m.live /\ m.from = c.node /\ m.call = c.call
Awaits(c, m) == Asked(c, m) /\ m.term = c.term /\ m.to \in c.waiting
Without(c, p) == [c EXCEPT !.waiting = @ \ {p}]

(* The call c returns: nobody reads the answers to its other requests. *)
Orphaned(msgs, c) ==
  {IF IsRequest(m) /\ Asked(c, m) THEN [m EXCEPT !.live = FALSE] ELSE m :
     m \in {n \in msgs : IsRequest(n) \/ ~Asked(c, n.req)}}

(* The caller of RPC m stops waiting for m.to, with one more ack or without. *)
BugWriteHears(m, ack) ==
  writes' = IF m.write = Nil \/ ~ack THEN writes
            ELSE [writes EXCEPT ![m.write].waiting = @ \ {m.to},
                                ![m.write].acks = @ + 1]
WriteHears(m, ack) ==
  writes' = IF m.write = Nil THEN writes
            ELSE [writes EXCEPT ![m.write].waiting = @ \ {m.to},
                                ![m.write].acks = @ + (IF ack THEN 1 ELSE 0)]

-----------------------------------------------------------------------------
(* Elections. *)

candidate_request_vote(i) ==
  /\ i \in Electable /\ state[i] # "L" /\ ~heard[i]
  /\ term[i] < MaxTerm /\ FreeCalls(i) # {}
  /\ LET t == term[i] + 1
         k == CHOOSE n \in FreeCalls(i) : TRUE
         last == TopRow(raft_logs[i])
     IN  /\ term' = [term EXCEPT ![i] = t]
         /\ voted_for' = [voted_for EXCEPT ![i] = i]
         /\ grants' = grants \cup {<<i, t, i>>}
         /\ elections' = elections \cup
              {[node |-> i, call |-> k, term |-> t, last_index |-> last.idx,
                votes_received |-> 1, waiting |-> Peers(i)]}
         /\ net' = net \cup VoteRequest(i, k, t, last)
  /\ state' = [state EXCEPT ![i] = "C"]
  /\ UNCHANGED <<logs, memory, heard, writes, connected, restarts, wins, rewound>>

(* The leader-timeout job after a heartbeat, and at the bound on terms, where
   the model starts no further election. *)
leader_timeout_tick(i) ==
  /\ i \in Electable /\ state[i] # "L" /\ (heard[i] \/ term[i] >= MaxTerm)
  /\ heard' = [heard EXCEPT ![i] = FALSE]
  /\ UNCHANGED <<disk, state, memory, elections, writes, connected, net,
                 restarts, history>>

BugFreeVote(i, m) == TRUE
FreeVote(i, m) == voted_for[i] \in {Nil, m.from}

(* voted_for is compared as it was read before set_term cleared it, and a
   refusal answers the term read then. *)
follower_request_vote(m) ==
  /\ m \in net /\ m.type = "vote" /\ m.to \in Up
  /\ LET i == m.to
         last == TopRow(raft_logs[i])
         stale == \/ m.last_log_term < last.term
                  \/ m.last_log_term = last.term /\ m.last_log_idx < last.idx
         grant == /\ m.term >= term[i]
                  /\ FreeVote(i, m)
                  /\ ~stale
     IN  /\ AdoptTerm(i, m.term)
         /\ voted_for' = [voted_for EXCEPT ![i] = IF grant THEN m.from
                                                  ELSE IF m.term > term[i] THEN Nil
                                                  ELSE @]
         /\ grants' = IF grant THEN grants \cup {<<i, m.term, m.from>>} ELSE grants
         /\ Respond(m, grant, IF grant THEN m.term ELSE term[i])
  /\ UNCHANGED <<logs, memory, heard, elections, writes, connected, restarts,
                 wins, rewound>>

(* One turn of the as_completed loop, for the answer a to the call c: *)
VoteAnswer(c, a) ==
  /\ c \in elections /\ a \in net /\ a.type = "answer" /\ a.req.type = "vote"
  /\ Awaits(c, a.req)
BugVotes(c, a) == c.votes_received + 1
BugNoVotes(c, a) == c.votes_received
Votes(c, a) == c.votes_received + (IF a.yes THEN 1 ELSE 0)

(* ... a higher term ends the call, *)
election_refused(c, a) ==
  /\ VoteAnswer(c, a) /\ a.term > c.term
  /\ AdoptAnswerTerm(c.node, a.term)
  /\ elections' = elections \ {c}
  /\ net' = Orphaned(net, c)
  /\ UNCHANGED <<logs, memory, heard, writes, connected, restarts, grants, wins>>

(* ... a majority makes the node leader, whatever its term is by now, *)
election_won(c, a) ==
  /\ VoteAnswer(c, a) /\ a.term <= c.term /\ Votes(c, a) > majority
  /\ state' = [state EXCEPT ![c.node] = "L"]
  /\ leader_node' = [leader_node EXCEPT ![c.node] = c.node]
  /\ next_index' = [next_index EXCEPT ![c.node] = [p \in Node |-> c.last_index + 1]]
  /\ net' = Orphaned(net, c) \cup AppendRequest(c.node, Nil, next_index'[c.node])
  /\ elections' = elections \ {c}
  /\ wins' = wins \cup {<<c.node, c.term>>}
  /\ UNCHANGED <<disk, committed_index, last_applied, heard, writes, connected,
                 restarts, grants, rewound>>

(* ... and anything else is counted. *)
election_counted(c, a) ==
  /\ VoteAnswer(c, a) /\ a.term <= c.term /\ Votes(c, a) <= majority
  /\ elections' = (elections \ {c}) \cup
                    {[Without(c, a.req.to) EXCEPT !.votes_received = Votes(c, a)]}
  /\ net' = net \ {a}
  /\ UNCHANGED <<disk, state, memory, heard, writes, connected, restarts, history>>

(* Every peer answered or missed its deadline: return False. *)
election_over(c) ==
  /\ c \in elections /\ c.waiting = {}
  /\ elections' = elections \ {c}
  /\ UNCHANGED <<disk, state, memory, heard, writes, connected, net, restarts, history>>

-----------------------------------------------------------------------------
(* Replication. *)

heartbeat_tick(i) ==
  /\ i \in Up /\ state[i] = "L"
  /\ \A p \in Peers(i) : Cardinality(Beats(i, p)) < MaxBeats
  /\ net' = net \cup AppendRequest(i, Nil, next_index[i])
  /\ UNCHANGED <<disk, state, memory, heard, elections, writes, connected,
                 restarts, history>>

(* follower_append_entries: every request counts as a heartbeat, *)
AppendHeard(m) ==
  /\ m \in net /\ m.type = "append" /\ m.to \in Up
  /\ heard' = [heard EXCEPT ![m.to] = TRUE]
  /\ UNCHANGED <<leader_node, next_index, elections, writes, connected, restarts,
                 history>>
AppendCurrent(m) ==
  /\ AppendHeard(m) /\ m.term >= term[m.to]
  /\ AdoptTerm(m.to, m.term)
  /\ voted_for' = [voted_for EXCEPT ![m.to] = IF m.term > term[m.to] THEN Nil ELSE @]

Consistent(m) ==
  \/ m.prev_log_idx = 0
  \/ \E r \in raft_logs[m.to] : r.idx = m.prev_log_idx /\ r.term = m.prev_log_term

(* ... one of an older term is refused, *)
append_stale(m) ==
  /\ AppendHeard(m) /\ m.term < term[m.to]
  /\ Respond(m, FALSE, term[m.to])
  /\ UNCHANGED <<disk, state, committed_index, last_applied>>

(* ... one with nothing in it returns at once, *)
append_empty(m) ==
  /\ AppendCurrent(m) /\ m.entries = {} /\ m.prev_log_idx = 0
  /\ Respond(m, TRUE, m.term)
  /\ UNCHANGED <<logs, committed_index, last_applied>>

(* ... one whose previous entry is not here is refused in the same term, *)
append_mismatch(m) ==
  /\ AppendCurrent(m) /\ ~Consistent(m)
  /\ Respond(m, FALSE, m.term)
  /\ UNCHANGED <<logs, committed_index, last_applied>>

BugStoredTo(i, last) == idx[i] + last
BugNotStored(i, last) == idx[i]
StoredTo(i, last) == IF last > idx[i] THEN last ELSE idx[i]
CommitTo(m, last) == IF m.leader_commit_idx < last THEN m.leader_commit_idx ELSE last
BugBatch(i, rows, commit) == {r \in rows : last_applied[i] <= r.idx /\ r.idx <= commit}
BugShortBatch(i, rows, commit) == {r \in rows : last_applied[i] < r.idx /\ r.idx < commit}
Batch(i, rows, commit) == {r \in rows : last_applied[i] < r.idx /\ r.idx <= commit}

(* ... any other is stored, and what is newly committed is applied. *)
append_stored(m) ==
  /\ AppendCurrent(m) /\ Consistent(m) /\ (m.entries # {} \/ m.prev_log_idx # 0)
  /\ Respond(m, TRUE, m.term)
  /\ LET i == m.to
         rows == Inserted(raft_logs[i], m.entries)
         last == IF m.entries = {} THEN idx[i] ELSE TopRow(m.entries).idx
         commit == CommitTo(m, last)
         batch == Batch(i, rows, commit)
     IN  /\ raft_logs' = [raft_logs EXCEPT ![i] = rows]
         /\ idx' = [idx EXCEPT ![i] = StoredTo(i, last)]
         /\ \/ /\ m.leader_commit_idx <= committed_index[i]
               /\ UNCHANGED <<committed_index, last_applied, applied>>
            \/ /\ m.leader_commit_idx > committed_index[i]
               /\ committed_index' = [committed_index EXCEPT ![i] = commit]
               /\ last_applied' = [last_applied EXCEPT ![i] =
                                     IF batch = {} THEN @ ELSE TopRow(batch).idx]
               /\ applied' = [applied EXCEPT ![i] = [o \in Op |->
                    applied[i][o] + (IF \E r \in batch : r.op = o THEN 1 ELSE 0)]]

follower_append_entries(m) ==
  append_stale(m) \/ append_empty(m) \/ append_mismatch(m) \/ append_stored(m)

(* The worker thread of _append_entries_to_peer, with the answer a. *)
AppendAnswer(a) ==
  /\ a \in net /\ a.type = "answer" /\ a.req.type = "append"
  /\ net' = net \ {a}
  /\ WriteHears(a.req, TRUE)
  /\ UNCHANGED <<logs, leader_node, committed_index, last_applied, heard,
                 elections, connected, restarts, grants, wins>>

BugNextAfter(m) == TopRow(m.entries).idx + 2
NextAfter(m) == TopRow(m.entries).idx + 1

append_accepted(a) ==
  /\ AppendAnswer(a) /\ a.yes
  /\ next_index' = [next_index EXCEPT ![a.req.from][a.req.to] =
                      IF a.req.entries = {} THEN @ ELSE NextAfter(a.req)]
  /\ UNCHANGED <<term, voted_for, state, rewound>>

append_backed_off(a) ==
  /\ AppendAnswer(a) /\ ~a.yes /\ a.term = a.req.term
  /\ next_index' = [next_index EXCEPT ![a.req.from][a.req.to] =
                      IF a.req.prev_log_idx = 0 THEN 1 ELSE a.req.prev_log_idx]
  /\ UNCHANGED <<term, voted_for, state, rewound>>

append_deposed(a) ==
  /\ AppendAnswer(a) /\ ~a.yes /\ a.term > a.req.term
  /\ AdoptAnswerTerm(a.req.from, a.term)
  /\ UNCHANGED next_index

-----------------------------------------------------------------------------
(* Client writes: the services call leader_append_log on whatever node the
   client is connected to, then run the operation on its database. *)

(* The polled node answers its leader_node; a client that has a write to submit
   connects to it. *)
get_leader_id(i) ==
  /\ \E o \in Op : writes[o].status = "new"
  /\ i \in Up /\ leader_node[i] # Nil /\ leader_node[i] \notin connected
  /\ connected' = connected \cup {leader_node[i]}
  /\ UNCHANGED <<disk, state, memory, heard, elections, writes, net, restarts, history>>

(* leader_append_log: the INSERT, which UNIQUE (idx, term) may refuse, *)
leader_append_log(i, o) ==
  /\ i \in connected /\ writes[o].status = "new"
  /\ LET row == [idx |-> idx[i] + 1, term |-> term[i], op |-> o]
         free == \A r \in raft_logs[i] : r.idx # row.idx \/ r.term # row.term
     IN  \/ /\ free
            /\ raft_logs' = [raft_logs EXCEPT ![i] = @ \cup {row}]
            /\ writes' = [writes EXCEPT ![o] = [status |-> "inserted", node |-> i,
                            new_idx |-> row.idx, acks |-> 1, waiting |-> Peers(i)]]
         \/ /\ ~free
            /\ writes' = [writes EXCEPT ![o].status = "error"]
            /\ UNCHANGED raft_logs
  /\ UNCHANGED <<term, voted_for, idx, applied, state, memory, heard, elections,
                 connected, net, restarts, history>>

(* ... then _increment_idx and leader_append_entries, *)
increment_idx(o) ==
  /\ writes[o].status = "inserted"
  /\ LET i == writes[o].node
     IN  /\ idx' = [idx EXCEPT ![i] = @ + 1]
         /\ net' = net \cup AppendRequest(i, o, next_index[i])
  /\ writes' = [writes EXCEPT ![o].status = "open"]
  /\ UNCHANGED <<term, voted_for, raft_logs, applied, state, memory, heard,
                 elections, connected, restarts, history>>

BugAcked(w) == w.acks >= majority
Acked(w) == w.acks > majority

(* ... then, all RPCs over, the return to the service, which takes the index
   for success whether or not a majority acknowledged it. *)
write_returned(o) ==
  /\ writes[o].status = "open" /\ writes[o].waiting = {}
  /\ LET w == writes[o]
     IN  /\ \/ /\ Acked(w)
               /\ committed_index' = [committed_index EXCEPT ![w.node] = w.new_idx]
               /\ last_applied' = [last_applied EXCEPT ![w.node] = w.new_idx]
            \/ /\ ~Acked(w)
               /\ UNCHANGED <<committed_index, last_applied>>
         /\ applied' = [applied EXCEPT ![w.node][o] = @ + 1]
  /\ writes' = [writes EXCEPT ![o].status = "ok"]
  /\ UNCHANGED <<term, voted_for, idx, raft_logs, state, leader_node, next_index,
                 heard, elections, connected, net, restarts, history>>

-----------------------------------------------------------------------------
(* The environment. *)

(* The caller's deadline passes: the request may still arrive, and an answer
   not processed yet is dropped. *)
rpc_timeout(m) ==
  /\ m \in net
  /\ LET q == IF IsRequest(m) THEN m ELSE m.req
     IN  /\ q.live /\ q.to \in Lossy \cup (Node \ Up)
         /\ net' = (net \ {m}) \cup
                     (IF IsRequest(m) THEN {[m EXCEPT !.live = FALSE]} ELSE {})
         /\ \/ /\ q.type = "vote"
               /\ elections' = {IF Awaits(c, q) THEN Without(c, q.to) ELSE c : c \in elections}
               /\ UNCHANGED writes
            \/ /\ q.type = "append"
               /\ WriteHears(q, FALSE)
               /\ UNCHANGED elections
  /\ UNCHANGED <<disk, state, memory, heard, connected, restarts, history>>

(* The process of i dies and starts again from its database. *)
restart(i) ==
  /\ i \in Up /\ restarts < MaxRestarts
  /\ restarts' = restarts + 1
  /\ state' = [state EXCEPT ![i] = "F"]
  /\ leader_node' = [leader_node EXCEPT ![i] = Nil]
  /\ committed_index' = [committed_index EXCEPT ![i] = 0]
  /\ last_applied' = [last_applied EXCEPT ![i] = 0]
  /\ next_index' = [next_index EXCEPT ![i] = [p \in Node |-> 1]]
  /\ heard' = [heard EXCEPT ![i] = FALSE]
  /\ elections' = elections \ Calls(i)
  /\ writes' = [o \in Op |->
                  IF writes[o].node = i /\ writes[o].status \in {"inserted", "open"}
                  THEN [writes[o] EXCEPT !.status = "dead"] ELSE writes[o]]
  /\ net' = {IF IsRequest(m) /\ m.from = i THEN [m EXCEPT !.live = FALSE] ELSE m :
               m \in {n \in net : IsRequest(n) \/ n.req.from # i}}
  /\ UNCHANGED <<disk, connected, history>>

-----------------------------------------------------------------------------
Init ==
  /\ term = [i \in Node |-> 0]
  /\ voted_for = [i \in Node |-> Nil]
  /\ idx = [i \in Node |-> 0]
  /\ raft_logs = [i \in Node |-> {}]
  /\ state = [i \in Node |-> "F"]
  /\ leader_node = [i \in Node |-> Nil]
  /\ committed_index = [i \in Node |-> 0]
  /\ last_applied = [i \in Node |-> 0]
  /\ next_index = [i \in Node |-> [p \in Node |-> 1]]
  /\ heard = [i \in Node |-> FALSE]
  /\ applied = [i \in Node |-> [o \in Op |-> 0]]
  /\ elections = {}
  /\ writes = [o \in Op |-> [status |-> "new", node |-> Nil, new_idx |-> 0,
                             acks |-> 0, waiting |-> {}]]
  /\ connected = {}
  /\ net = {}
  /\ restarts = 0
  /\ grants = {} /\ wins = {} /\ rewound = {}

Next ==
  \/ \E i \in Node : \/ candidate_request_vote(i)
                     \/ leader_timeout_tick(i)
                     \/ heartbeat_tick(i)
                     \/ get_leader_id(i)
                     \/ restart(i)
  \/ \E m \in net : \/ follower_request_vote(m)
                    \/ follower_append_entries(m)
                    \/ append_accepted(m)
                    \/ append_backed_off(m)
                    \/ append_deposed(m)
                    \/ rpc_timeout(m)
  \/ \E c \in elections : \/ election_over(c)
                          \/ \E a \in net : \/ election_refused(c, a)
                                            \/ election_won(c, a)
                                            \/ election_counted(c, a)
  \/ \E o \in Op : \/ \E i \in Node : leader_append_log(i, o)
                   \/ increment_idx(o)
                   \/ write_returned(o)

Spec == Init /\ [][Next]_vars

(* The scheduler runs its jobs, gRPC delivers and times out, and every thread
   that can go on does.  A request to a node, for a write or none, is served
   whatever else is: the writes of an instance occupy fewer than the MAX_WORKERS
   threads of a server. *)
Handle(i, p, w) ==
  \E m \in net : /\ IsRequest(m) /\ m.from = i /\ m.to = p
                 /\ \/ w = Nil /\ follower_request_vote(m)
                    \/ m.type = "append" /\ m.write = w /\ follower_append_entries(m)
Resume(i, p, w) ==
  \E m \in net : /\ m.type = "answer" /\ m.req.from = i /\ m.req.to = p
                 /\ \/ /\ w = Nil
                       /\ \E c \in elections : \/ election_refused(c, m)
                                               \/ election_won(c, m)
                                               \/ election_counted(c, m)
                    \/ /\ m.req.type = "append" /\ m.req.write = w
                       /\ append_accepted(m) \/ append_backed_off(m) \/ append_deposed(m)
Expire(i, p, w) ==
  \E m \in net : /\ IsRequest(m) /\ m.from = i /\ m.to = p /\ m.to \notin Up
                 /\ m.type = "append" => m.write = w
                 /\ rpc_timeout(m)

Fairness ==
  /\ \A i \in Electable : /\ WF_vars(candidate_request_vote(i)) /\ WF_vars(heartbeat_tick(i))
                          /\ WF_vars(\E c \in Calls(i) : election_over(c))
  /\ \A i \in Electable : \A p \in Peers(i), w \in Op \cup {Nil} :
       WF_vars(Handle(i, p, w)) /\ WF_vars(Resume(i, p, w)) /\ WF_vars(Expire(i, p, w))
  /\ \A o \in Op : WF_vars(increment_idx(o)) /\ WF_vars(write_returned(o))

FairSpec == Spec /\ Fairness

-----------------------------------------------------------------------------
(* Types. *)

Term == 0..MaxTerm

Row == [idx : Nat, term : Term, op : Op]
VoteRequests == [type : {"vote"}, from : Node, to : Node, live : BOOLEAN, call : Nat,
                 term : Term, last_log_idx : Nat, last_log_term : Term]
AppendRequests == [type : {"append"}, from : Node, to : Node, live : BOOLEAN,
                   term : Term, write : Op \cup {Nil}, prev_log_idx : Nat,
                   prev_log_term : Term, entries : SUBSET Row, leader_commit_idx : Nat]
Answers == [type : {"answer"}, req : VoteRequests \cup AppendRequests, yes : BOOLEAN,
            term : Term]
Elections == [node : Node, call : Nat, term : Term, last_index : Nat,
              votes_received : Nat, waiting : SUBSET Node]
Writes == [status : {"new", "inserted", "open", "ok", "error", "dead"},
           node : Node \cup {Nil}, new_idx : Nat, acks : Nat, waiting : SUBSET Node]

(* Every variable keeps its type, and a write in progress knows its node. *)
TypeOK ==
  /\ term \in [Node -> Term] /\ voted_for \in [Node -> Node \cup {Nil}]
  /\ idx \in [Node -> Nat] /\ raft_logs \in [Node -> SUBSET Row]
  /\ state \in [Node -> {"F", "C", "L"}] /\ leader_node \in [Node -> Node \cup {Nil}]
  /\ committed_index \in [Node -> Nat] /\ last_applied \in [Node -> Nat]
  /\ next_index \in [Node -> [Node -> Nat]] /\ heard \in [Node -> BOOLEAN]
  /\ applied \in [Node -> [Op -> Nat]] /\ elections \subseteq Elections
  /\ writes \in [Op -> Writes]
  /\ \A o \in Op : writes[o].status \in {"inserted", "open"} => writes[o].node \in Node
  /\ connected \subseteq Node /\ net \subseteq (VoteRequests \cup AppendRequests \cup Answers)
  /\ restarts \in Nat /\ grants \subseteq (Node \X Term \X Node)
  /\ wins \subseteq (Node \X Term) /\ rewound \subseteq Node

-----------------------------------------------------------------------------
(* Elections. *)

(* Whatever is lost, late or restarted, the votes and the elections won are
   those of the abstract ballot. *)
Promise == INSTANCE Ballot WITH
  Node <- Node, Term <- Term, grants <- grants, wins <- wins, rewound <- rewound
ElectionsAreBallots == Promise!Spec

(* Two leaders of one term have a voter in common whose term an answer
   overwrote: a late answer to candidate_request_vote or to an appendEntries. *)
ElectionSafety == Promise!ElectionSafety

-----------------------------------------------------------------------------
(* Logs. *)

Holders(r) == {i \in Node : r \in raft_logs[i]}

(* committed_index never points past the node's log, with a write of its own
   still in flight or with a leader far ahead of it. *)
CommitWithinLog == \A i \in Node : committed_index[i] <= idx[i]

(* next_index never skips an entry the node has yet to get: at most one past
   the last row. *)
NextIndexWithinLog ==
  \A i, p \in Node : next_index[i][p] <= TopRow(raft_logs[i]).idx + 1

(* With one node electable, a write runs on a node at most once for each life of
   its process, although last_applied is lost with it and the log is replayed.
   (A leader whose writes returned out of order, and that follows another one
   afterwards, runs the later write again: last_applied went back.) *)
AppliedOncePerLife ==
  \A i \in Node, o \in Op : applied[i][o] <= 1 + restarts

(* Under one leader: two nodes that hold one row hold the same rows below it. *)
LogMatching ==
  \A i, j \in Node : \A r \in raft_logs[i] \cap raft_logs[j] :
    {q \in raft_logs[i] : q.idx <= r.idx} = {q \in raft_logs[j] : q.idx <= r.idx}

(* Under one leader: the log has a row at every index up to idx, although the
   INSERT and _increment_idx are two transactions. *)
LogHasNoGaps == \A i \in Node : \A k \in 1..idx[i] : \E r \in raft_logs[i] : r.idx = k

(* Under one leader: what a node takes as committed is stored by more than half
   the nodes, although refused appends count as acknowledgements too. *)
CommittedOnMajority ==
  \A i \in Node : \A r \in raft_logs[i] :
    r.idx <= committed_index[i] => Cardinality(Holders(r)) > majority

(* Under one leader: a follower has run each write up to last_applied once, and
   none beyond, whichever order the appends arrive in. *)
FollowersApplyOnceInOrder ==
  \A i \in Node \ Electable, o \in Op :
    applied[i][o] = IF \E r \in raft_logs[i] : r.op = o /\ r.idx <= last_applied[i]
                    THEN 1 ELSE 0

-----------------------------------------------------------------------------
(* What the code's comments and its documents say, and the code does not do. *)

(* raft_node.py, follower_request_vote: a vote is granted if none has been cast
   in this term. *)
OneVotePerTerm ==
  \A v, a, b \in Node, t \in Term : <<v, t, a>> \in grants /\ <<v, t, b>> \in grants => a = b

-----------------------------------------------------------------------------
(* Liveness, with one node electable and a majority up. *)

(* A leader is elected and stays. *)
LeaderElected == \E i \in Up : <>[](state[i] = "L")

(* A write that is begun is answered. *)
WritesReturn == \A o \in Op : writes[o].status = "inserted" ~> writes[o].status = "ok"

(* A write that is answered runs on every node that is up. *)
WritesReachAll == \A o \in Op : writes[o].status = "ok" ~> \A i \in Up : applied[i][o] = 1

=============================================================================
