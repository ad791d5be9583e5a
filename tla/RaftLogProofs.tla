---------------------------- MODULE RaftLogProofs ----------------------------
(***************************************************************************)
(* The logs of RaftNode, for every value of its constants: how far         *)
(* next_index and the requests in flight may be from the rows of the node  *)
(* they belong to.                                                         *)
(***************************************************************************)
EXTENDS RaftNodeProofs

-----------------------------------------------------------------------------
(* Last rows.  A log that is not empty has one: Topped is an invariant, kept by every
   way in which rows are added, rather than a fact about finite sets. *)

IsTop(r, rows) == \A q \in rows : q.idx < r.idx \/ (q.idx = r.idx /\ q.term <= r.term)
Topped(rows) == rows = {} \/ \E r \in rows : IsTop(r, rows)
LastIdx(rows) == TopRow(rows).idx

LEMMA RowFields == \A r \in Row : r.idx \in Nat /\ r.term \in Nat
BY TermFacts DEF Row

LEMMA LastIsTop ==
  ASSUME NEW rows \in SUBSET Row, Topped(rows)
  PROVE  /\ LastIdx(rows) \in Nat
         /\ rows # {} => TopRow(rows) \in rows /\ IsTop(TopRow(rows), rows)
         /\ rows = {} => LastIdx(rows) = 0
         /\ \A r \in rows : r.idx <= LastIdx(rows)
<1>1. LastIdx(rows) \in Nat
  BY RowTypes DEF RowOrNone, LastIdx
<1>2. CASE rows = {}
  BY <1>1, <1>2 DEF TopRow, NoRow, LastIdx
<1>3. CASE rows # {}
  <2>1. TopRow(rows) \in rows /\ IsTop(TopRow(rows), rows)
    BY <1>3 DEF TopRow, Topped, IsTop
  <2> QED
    BY <1>1, <1>3, <2>1, RowFields DEF IsTop, LastIdx
<1> QED
  BY <1>2, <1>3

LEMMA LastGrows ==
  ASSUME NEW rows \in SUBSET Row, NEW more \in SUBSET Row, rows \subseteq more, Topped(more)
  PROVE  LastIdx(rows) <= LastIdx(more)
<1>1. TopRow(rows) \in rows \/ LastIdx(rows) = 0
  BY DEF TopRow, NoRow, LastIdx
<1> QED
  BY <1>1, LastIsTop DEF LastIdx

LEMMA RowAtWithin ==
  ASSUME NEW rows \in SUBSET Row, Topped(rows), NEW k
  PROVE  RowAt(rows, k).idx <= LastIdx(rows)
<1>1. RowAt(rows, k) \in rows \/ RowAt(rows, k).idx = 0
  BY DEF RowAt, NoRow
<1> QED
  BY <1>1, LastIsTop

LEMMA SuffixTopped ==
  ASSUME NEW rows \in SUBSET Row, Topped(rows), NEW n \in Nat
  PROVE  Topped(Suffix(rows, n)) /\ Suffix(rows, n) \subseteq rows
<1>1. Suffix(rows, n) \subseteq rows
  BY DEF Suffix
<1>2. ASSUME NEW q \in Suffix(rows, n) PROVE Topped(Suffix(rows, n))
  <2>1. PICK r \in rows : IsTop(r, rows)
    BY <1>1 DEF Topped
  <2>2. r.idx >= n
    BY <1>1, <2>1, RowFields DEF IsTop, Suffix
  <2>3. r \in Suffix(rows, n) /\ IsTop(r, Suffix(rows, n))
    BY <1>1, <2>1, <2>2 DEF Suffix, IsTop
  <2> QED
    BY <2>3 DEF Topped
<1> QED
  BY <1>1, <1>2 DEF Topped

LEMMA RowAdded ==
  ASSUME NEW rows \in SUBSET Row, Topped(rows), NEW r \in Row
  PROVE  Topped(rows \cup {r})
<1>1. CASE rows = {}
  BY <1>1, RowFields DEF Topped, IsTop
<1>2. CASE rows # {}
  <2>1. PICK t \in rows : IsTop(t, rows)
    BY <1>2 DEF Topped
  <2>2. IsTop(t, rows \cup {r}) \/ IsTop(r, rows \cup {r})
    BY <2>1, RowFields DEF IsTop
  <2> QED
    BY <2>1, <2>2 DEF Topped
<1> QED
  BY <1>1, <1>2

LEMMA InsertedTopped ==
  ASSUME NEW rows \in SUBSET Row, Topped(rows), NEW more \in SUBSET Row, Topped(more)
  PROVE  /\ Topped(Inserted(rows, more)) /\ rows \subseteq Inserted(rows, more)
         /\ Inserted(rows, more) \in SUBSET Row
<1> DEFINE all == Inserted(rows, more)
<1>1. /\ rows \subseteq all /\ all \subseteq rows \cup more
      /\ \A e \in more \ all : \E r \in rows : r.idx = e.idx /\ r.term = e.term
  <2>1. all = rows \cup {e \in more : \A r \in rows : r.idx # e.idx \/ r.term # e.term}
    BY DEF Inserted
  <2> QED
    BY <2>1
<1> HIDE DEF all
<1>2. ASSUME more = {} PROVE Topped(all)
  BY <1>1, <1>2 DEF Topped, IsTop
<1>3. ASSUME rows = {} PROVE Topped(all)
  <2>1. all = more
    BY <1>1, <1>3
  <2> QED
    BY <2>1
<1>4. ASSUME rows # {}, more # {} PROVE Topped(all)
  <2>1. PICK t \in rows : IsTop(t, rows)
    BY <1>4 DEF Topped
  <2>2. PICK e \in more : IsTop(e, more)
    BY <1>4 DEF Topped
  <2>3. CASE e.idx < t.idx \/ (e.idx = t.idx /\ e.term <= t.term)
    <3>1. IsTop(t, all)
      BY <1>1, <2>1, <2>2, <2>3, RowFields DEF IsTop
    <3> QED
      BY <1>1, <2>1, <3>1 DEF Topped
  <2>4. CASE t.idx < e.idx \/ (e.idx = t.idx /\ t.term < e.term)
    <3>1. e \in all
      BY <1>1, <2>1, <2>2, <2>4, RowFields DEF IsTop
    <3>2. IsTop(e, all)
      BY <1>1, <2>1, <2>2, <2>4, RowFields DEF IsTop
    <3> QED
      BY <3>1, <3>2 DEF Topped
  <2> QED
    BY <2>3, <2>4, RowFields
<1> QED
  BY <1>1, <1>2, <1>3, <1>4 DEF all

-----------------------------------------------------------------------------
(* The invariant.  What an append carries was read from its sender's log, which keeps
   it: so do the answers to it, over restarts and changes of leader.  An election knows
   an index its node had when it began. *)

Request(m) == IF IsRequest(m) THEN m ELSE m.req
Carried(m) == /\ Topped(m.entries) /\ m.entries \subseteq raft_logs[m.from]
              /\ m.prev_log_idx <= LastIdx(raft_logs[m.from])
LogsTopped == \A i \in Node : Topped(raft_logs[i])
AppendsCarried == \A m \in net : Request(m).type = "append" => Carried(Request(m))
ElectionsWithinLog == \A c \in elections : c.last_index <= LastIdx(raft_logs[c.node])
NextInv == LogsTopped /\ AppendsCarried /\ ElectionsWithinLog /\ NextIndexWithinLog

(* A step that leaves the logs alone, or adds to them, keeps the invariant when no append,
   election or index is new but such as it allows. *)
SameCargo(m, n) ==
  m.from = n.from /\ m.entries = n.entries /\ m.prev_log_idx = n.prev_log_idx
AppendsKept ==
  \A m \in net' : Request(m).type = "append" =>
    \/ \E n \in net : Request(n).type = "append" /\ SameCargo(Request(m), Request(n))
    \/ Carried(Request(m))'
ElectionsKept ==
  \A c \in elections' : \/ \E d \in elections : c.node = d.node /\ c.last_index = d.last_index
                        \/ c.node \in Node /\ c.last_index <= LastIdx(raft_logs[c.node])
IndexesKept ==
  \A i, p \in Node : \/ next_index'[i][p] = next_index[i][p]
                     \/ next_index'[i][p] <= LastIdx(raft_logs[i]) + 1

LEMMA RequestTypes ==
  ASSUME TypeOK, NEW m \in net
  PROVE  /\ Request(m) \in VoteRequests \cup AppendRequests
         /\ Request(m).type = "append" <=> Request(m) \in AppendRequests
<1>1. m \in Messages
  BY DEF TypeOK, Messages
<1>2. Request(m) \in VoteRequests \cup AppendRequests
  BY <1>1, MessageTypes DEF Request, Messages, Answers
<1> QED
  BY <1>2 DEF VoteRequests, AppendRequests

LEMMA NextKept ==
  ASSUME TypeOK, TypeOK', NextInv, AppendsKept, ElectionsKept, IndexesKept,
         \A i \in Node : raft_logs[i] \subseteq raft_logs'[i] /\ Topped(raft_logs'[i])
  PROVE  NextInv'
<1>1. \A i \in Node : /\ LastIdx(raft_logs[i]) \in Nat /\ LastIdx(raft_logs'[i]) \in Nat
                      /\ LastIdx(raft_logs[i]) <= LastIdx(raft_logs'[i])
  <2> SUFFICES ASSUME NEW i \in Node
               PROVE  /\ LastIdx(raft_logs[i]) \in Nat /\ LastIdx(raft_logs'[i]) \in Nat
                      /\ LastIdx(raft_logs[i]) <= LastIdx(raft_logs'[i])
    OBVIOUS
  <2>1. raft_logs[i] \in SUBSET Row /\ raft_logs'[i] \in SUBSET Row
    BY DEF TypeOK
  <2> QED
    BY <2>1, LastIsTop, LastGrows DEF NextInv, LogsTopped
<1>2. LogsTopped'
  BY DEF LogsTopped
<1>3. AppendsCarried'
  <2> SUFFICES ASSUME NEW m \in net', Request(m).type = "append"
               PROVE  Carried(Request(m))'
    BY DEF AppendsCarried, Request, IsRequest
  <2>1. ASSUME NEW n \in net, Request(n).type = "append", SameCargo(Request(m), Request(n))
        PROVE  Carried(Request(m))'
    <3> DEFINE q == Request(n)
               r == Request(m)
    <3>1. q.from \in Node /\ q.prev_log_idx \in Nat
      BY <2>1, RequestTypes DEF AppendRequests
    <3>2. Carried(q)
      BY <2>1 DEF NextInv, AppendsCarried
    <3>3. r.from = q.from /\ r.entries = q.entries /\ r.prev_log_idx = q.prev_log_idx
      BY <2>1 DEF SameCargo
    <3> HIDE DEF q, r
    <3>4. /\ Topped(r.entries) /\ r.entries \subseteq raft_logs'[r.from]
          /\ r.prev_log_idx <= LastIdx(raft_logs'[r.from])
      BY <1>1, <3>1, <3>2, <3>3 DEF Carried
    <3> QED
      BY <3>4 DEF Carried, r, Request, IsRequest, LastIdx, TopRow
  <2> QED
    BY <2>1 DEF AppendsKept
<1>4. ElectionsWithinLog'
  <2> SUFFICES ASSUME NEW c \in elections'
               PROVE  c.last_index <= LastIdx(raft_logs'[c.node])
    BY DEF ElectionsWithinLog, LastIdx, TopRow
  <2>1. c.node \in Node /\ c.last_index \in Nat
    BY DEF TypeOK, Elections
  <2>2. c.last_index <= LastIdx(raft_logs[c.node])
    BY DEF ElectionsKept, NextInv, ElectionsWithinLog
  <2> QED
    BY <1>1, <2>1, <2>2
<1>5. NextIndexWithinLog'
  <2> SUFFICES ASSUME NEW i \in Node, NEW p \in Node
               PROVE  next_index'[i][p] <= LastIdx(raft_logs'[i]) + 1
    BY DEF NextIndexWithinLog, LastIdx, TopRow
  <2>1. next_index[i][p] \in Nat /\ next_index'[i][p] \in Nat
    BY DEF TypeOK
  <2>2. next_index[i][p] <= LastIdx(raft_logs[i]) + 1
    BY DEF NextInv, NextIndexWithinLog, LastIdx
  <2> QED
    BY <1>1, <2>1, <2>2 DEF IndexesKept
<1> QED
  BY <1>2, <1>3, <1>4, <1>5 DEF NextInv

-----------------------------------------------------------------------------
(* One lemma for each group of actions. *)

LEMMA AppendCarries ==
  ASSUME TypeOK, NextInv, NEW i \in Node, NEW w, NEW next \in [Node -> Nat],
         NEW m \in AppendRequest(i, w, next)
  PROVE  Request(m) = m /\ m.type = "append" /\ Carried(m)
<1>1. raft_logs[i] \in SUBSET Row /\ Topped(raft_logs[i])
  BY DEF TypeOK, NextInv, LogsTopped
<1>2. PICK p \in Peers(i) :
        /\ m.type = "append" /\ m.from = i
        /\ m.prev_log_idx = RowAt(raft_logs[i], next[p] - 1).idx
        /\ m.entries = Suffix(raft_logs[i], next[p])
  BY DEF AppendRequest
<1>3. next[p] \in Nat
  BY DEF Peers
<1> QED
  BY <1>1, <1>2, <1>3, RowAtWithin, SuffixTopped DEF Request, IsRequest, Carried

(* A step that only adds appends to net, and may give other messages up, ... *)
LEMMA AppendsSent ==
  ASSUME TypeOK, NextInv, UNCHANGED raft_logs, NEW sent,
         \A m \in sent : Request(m) = m /\ m.type = "append" /\ Carried(m),
         \A m \in net' : \/ m \in sent
                         \/ Request(m).type # "append"
                         \/ \E n \in net : /\ Request(n).type = "append"
                                           /\ SameCargo(Request(m), Request(n))
  PROVE  AppendsKept
<1> SUFFICES ASSUME NEW m \in net', Request(m).type = "append", m \in sent
             PROVE  Carried(Request(m))'
  BY DEF AppendsKept
<1>1. Carried(Request(m))
  OBVIOUS
<1> QED
  BY <1>1 DEF Carried, LastIdx, TopRow, Request, IsRequest

(* ... and one that leaves the logs alone. *)
LEMMA SameLogs ==
  ASSUME TypeOK, TypeOK', NextInv, AppendsKept, ElectionsKept, IndexesKept, UNCHANGED raft_logs
  PROVE  NextInv'
BY NextKept DEF NextInv, LogsTopped

LEMMA OrphanedCargo ==
  ASSUME TypeOK, NEW c, NEW m \in Orphaned(net, c), Request(m).type = "append"
  PROVE  \E n \in net : Request(n).type = "append" /\ SameCargo(Request(m), Request(n))
<1>1. PICK n \in net :
        m = IF IsRequest(n) /\ Asked(c, n) THEN [n EXCEPT !.live = FALSE] ELSE n
  BY DEF Orphaned
<1>2. CASE m = n
  BY <1>2 DEF SameCargo
<1>3. CASE IsRequest(n) /\ Asked(c, n) /\ m = [n EXCEPT !.live = FALSE]
  <2>1. n.type = "vote" /\ n \in VoteRequests \cup AppendRequests
    BY <1>3, MessageTypes DEF Asked, TypeOK, Messages
  <2>2. m.type = "vote"
    BY <1>3, <2>1, Abandoned
  <2> QED
    BY <2>2 DEF Request, IsRequest
<1> QED
  BY <1>1, <1>2, <1>3

LEMMA NextElection ==
  ASSUME TypeOK, TypeOK', NextInv, NEW c \in elections, NEW a \in net,
         election_refused(c, a) \/ election_won(c, a) \/ election_counted(c, a)
  PROVE  NextInv'
<1>1. c \in Elections /\ c.node \in Node /\ c.last_index \in Nat
  BY DEF TypeOK, Elections
<1>2. UNCHANGED raft_logs
  BY DEF election_refused, election_won, election_counted, logs, disk
<1>3. CASE election_refused(c, a)
  <2>1. AppendsKept
    BY <1>2, <1>3, OrphanedCargo, AppendsSent DEF election_refused, AppendsKept
  <2>2. ElectionsKept /\ IndexesKept
    BY <1>3 DEF election_refused, memory, ElectionsKept, IndexesKept
  <2> QED
    BY <1>2, <2>1, <2>2, SameLogs
<1>4. CASE election_won(c, a)
  <2> DEFINE next == [p \in Node |-> c.last_index + 1]
             sent == AppendRequest(c.node, Nil, next)
  <2>1. next_index' = [next_index EXCEPT ![c.node] = next]
    BY <1>4 DEF election_won
  <2>2. next \in [Node -> Nat] /\ next_index'[c.node] = next
    BY <1>1, <2>1 DEF TypeOK
  <2>3. net' = Orphaned(net, c) \cup sent
    BY <1>4, <2>2 DEF election_won
  <2>4. \A m \in sent : Request(m) = m /\ m.type = "append" /\ Carried(m)
    BY <1>1, <2>2, AppendCarries
  <2> HIDE DEF sent
  <2>5. AppendsKept
    BY <1>2, <2>3, <2>4, OrphanedCargo, AppendsSent
  <2>6. ElectionsKept
    BY <1>4 DEF election_won, ElectionsKept
  <2>7. IndexesKept
    <3>1. c.last_index <= LastIdx(raft_logs[c.node])
      BY DEF NextInv, ElectionsWithinLog
    <3>2. LastIdx(raft_logs[c.node]) \in Nat
      BY <1>1, RowTypes DEF LastIdx, RowOrNone, TypeOK
    <3> QED
      BY <1>1, <2>1, <3>1, <3>2 DEF IndexesKept, TypeOK
  <2> QED
    BY <1>2, <2>5, <2>6, <2>7, SameLogs
<1>5. CASE election_counted(c, a)
  <2>1. AppendsKept
    BY <1>5 DEF election_counted, AppendsKept, SameCargo
  <2>2. IndexesKept
    BY <1>5 DEF election_counted, memory, IndexesKept
  <2>3. ElectionsKept
    <3> DEFINE d == [Without(c, a.req.to) EXCEPT !.votes_received = Votes(c, a)]
    <3>1. d.node = c.node /\ d.last_index = c.last_index
      BY <1>1 DEF Without, Elections
    <3>2. elections' = (elections \ {c}) \cup {d}
      BY <1>5 DEF election_counted
    <3> HIDE DEF d
    <3> QED
      BY <3>1, <3>2 DEF ElectionsKept
  <2> QED
    BY <1>2, <2>1, <2>2, <2>3, SameLogs
<1> QED
  BY <1>3, <1>4, <1>5

LEMMA NextTimer ==
  ASSUME TypeOK, TypeOK', NextInv, NEW i \in Node,
         \/ candidate_request_vote(i) \/ leader_timeout_tick(i) \/ heartbeat_tick(i)
         \/ get_leader_id(i)
  PROVE  NextInv'
<1>1. UNCHANGED raft_logs /\ IndexesKept
  BY DEF candidate_request_vote, leader_timeout_tick, heartbeat_tick, get_leader_id, logs,
         disk, memory, IndexesKept
<1>2. CASE candidate_request_vote(i)
  <2> DEFINE t == term[i] + 1
             k == CHOOSE n \in FreeCalls(i) : TRUE
             last == TopRow(raft_logs[i])
             c == [node |-> i, call |-> k, term |-> t, last_index |-> last.idx,
                   votes_received |-> 1, waiting |-> Peers(i)]
  <2>1. elections' = elections \cup {c} /\ net' = net \cup VoteRequest(i, k, t, last)
    BY <1>2 DEF candidate_request_vote
  <2>2. c.node = i /\ c.last_index = LastIdx(raft_logs[i])
    BY DEF LastIdx
  <2>3. LastIdx(raft_logs[i]) \in Nat
    BY RowTypes DEF LastIdx, RowOrNone, TypeOK
  <2>4. \A m \in VoteRequest(i, k, t, last) : Request(m).type # "append"
    BY DEF VoteRequest, Request, IsRequest
  <2> HIDE DEF c
  <2>5. ElectionsKept
    BY <2>1, <2>2, <2>3 DEF ElectionsKept
  <2>6. AppendsKept
    BY <2>1, <2>4 DEF AppendsKept, SameCargo
  <2> QED
    BY <1>1, <2>5, <2>6, SameLogs
<1>3. CASE heartbeat_tick(i)
  <2> DEFINE sent == AppendRequest(i, Nil, next_index[i])
  <2>1. next_index[i] \in [Node -> Nat] /\ net' = net \cup sent
    BY <1>3 DEF heartbeat_tick, TypeOK
  <2>2. \A m \in sent : Request(m) = m /\ m.type = "append" /\ Carried(m)
    BY <2>1, AppendCarries
  <2> HIDE DEF sent
  <2>3. AppendsKept
    BY <1>1, <2>1, <2>2, AppendsSent DEF SameCargo
  <2>4. ElectionsKept
    BY <1>3 DEF heartbeat_tick, ElectionsKept
  <2> QED
    BY <1>1, <2>3, <2>4, SameLogs
<1>4. CASE leader_timeout_tick(i) \/ get_leader_id(i)
  <2>1. UNCHANGED <<net, elections>>
    BY <1>4 DEF leader_timeout_tick, get_leader_id
  <2>2. AppendsKept /\ ElectionsKept
    BY <2>1 DEF AppendsKept, SameCargo, ElectionsKept
  <2> QED
    BY <1>1, <2>2, SameLogs
<1> QED
  BY <1>2, <1>3, <1>4

(* An answer belongs to the request it takes the place of. *)
LEMMA Responded ==
  ASSUME TypeOK, NEW m \in net, IsRequest(m), NEW yes, NEW t, Respond(m, yes, t)
  PROVE  AppendsKept
<1>1. Request(m) = m
  BY DEF Request
<1>2. \A a \in net' : a \in net \/ Request(a) = m
  BY DEF Respond, Answer, Request, IsRequest
<1> QED
  BY <1>1, <1>2 DEF AppendsKept, SameCargo

LEMMA NextVote ==
  ASSUME TypeOK, TypeOK', NextInv, NEW m \in net, follower_request_vote(m)
  PROVE  NextInv'
<1>1. IsRequest(m) /\ \E yes, t : Respond(m, yes, t)
  BY DEF follower_request_vote, IsRequest
<1>2. UNCHANGED <<raft_logs, elections, next_index>>
  BY DEF follower_request_vote, logs, memory
<1>3. ElectionsKept /\ IndexesKept
  BY <1>2 DEF ElectionsKept, IndexesKept
<1> QED
  BY <1>1, <1>2, <1>3, Responded, SameLogs

LEMMA NextAppend ==
  ASSUME TypeOK, TypeOK', NextInv, NEW m \in net, follower_append_entries(m)
  PROVE  NextInv'
<1>1. /\ m.type = "append" /\ m \in AppendRequests /\ m.to \in Node
      /\ IsRequest(m) /\ UNCHANGED <<elections, next_index>>
  <2>1. m.type = "append" /\ UNCHANGED <<elections, next_index>>
    BY DEF follower_append_entries, append_stale, append_empty, append_mismatch,
           append_stored, AppendCurrent, AppendHeard
  <2> QED
    BY <2>1, MessageTypes DEF IsRequest, TypeOK, Messages, AppendRequests
<1>2. AppendsKept
  <2>1. \E yes, t : Respond(m, yes, t)
    BY DEF follower_append_entries, append_stale, append_empty, append_mismatch,
           append_stored
  <2> QED
    BY <1>1, <2>1, Responded
<1>3. ElectionsKept /\ IndexesKept
  BY <1>1 DEF ElectionsKept, IndexesKept
<1>4. CASE append_stale(m) \/ append_empty(m) \/ append_mismatch(m)
  <2>1. UNCHANGED raft_logs
    BY <1>4 DEF append_stale, append_empty, append_mismatch, disk, logs
  <2> QED
    BY <1>2, <1>3, <2>1, SameLogs
<1>5. CASE append_stored(m)
  <2> DEFINE i == m.to
  <2>1. raft_logs' = [raft_logs EXCEPT ![i] = Inserted(raft_logs[i], m.entries)]
    BY <1>5 DEF append_stored
  <2>2. Request(m) = m
    BY <1>1 DEF Request
  <2>3. m.entries \in SUBSET Row /\ Topped(m.entries)
    BY <1>1, <2>2 DEF AppendRequests, NextInv, AppendsCarried, Carried
  <2> HIDE DEF i
  <2>4. ASSUME NEW j \in Node
        PROVE  raft_logs[j] \subseteq raft_logs'[j] /\ Topped(raft_logs'[j])
    <3>1. raft_logs[j] \in SUBSET Row /\ Topped(raft_logs[j])
      BY DEF TypeOK, NextInv, LogsTopped
    <3>2. \/ raft_logs'[j] = raft_logs[j]
          \/ raft_logs'[j] = Inserted(raft_logs[j], m.entries)
      BY <2>1 DEF TypeOK
    <3> QED
      BY <2>3, <3>1, <3>2, InsertedTopped
  <2> QED
    BY <1>2, <1>3, <2>4, NextKept
<1> QED
  BY <1>4, <1>5 DEF follower_append_entries

LEMMA NextAnswer ==
  ASSUME TypeOK, TypeOK', NextInv, NEW a \in net,
         append_accepted(a) \/ append_backed_off(a) \/ append_deposed(a)
  PROVE  NextInv'
<1> DEFINE q == a.req
           i == q.from
<1>1. AppendAnswer(a)
  BY DEF append_accepted, append_backed_off, append_deposed
<1>2. a.type = "answer" /\ q.type = "append" /\ net' = net \ {a}
      /\ UNCHANGED <<raft_logs, elections>>
  BY <1>1 DEF AppendAnswer, logs
<1>3. Request(a) = q
  BY <1>2 DEF Request, IsRequest
<1>4. /\ q \in AppendRequests /\ Carried(q)
      /\ i \in Node /\ q.to \in Node /\ q.prev_log_idx \in Nat /\ q.entries \in SUBSET Row
  <2>1. q \in AppendRequests /\ Carried(q)
    BY <1>2, <1>3, RequestTypes DEF NextInv, AppendsCarried
  <2> QED
    BY <2>1 DEF AppendRequests
<1>5. AppendsKept /\ ElectionsKept
  BY <1>2 DEF AppendsKept, SameCargo, ElectionsKept
<1>6. ASSUME NEW n, next_index' = [next_index EXCEPT ![i][q.to] = n],
             n = next_index[i][q.to] \/ n <= LastIdx(raft_logs[i]) + 1
      PROVE  IndexesKept
  BY <1>4, <1>6 DEF IndexesKept, TypeOK
<1>7. IndexesKept
  <2>1. raft_logs[i] \in SUBSET Row /\ Topped(raft_logs[i]) /\ LastIdx(raft_logs[i]) \in Nat
    BY <1>4, LastIsTop DEF TypeOK, NextInv, LogsTopped
  <2>2. LastIdx(q.entries) \in Nat /\ LastIdx(q.entries) <= LastIdx(raft_logs[i])
    BY <1>4, <2>1, LastIsTop, LastGrows DEF Carried
  <2>3. q.prev_log_idx <= LastIdx(raft_logs[i])
    BY <1>4 DEF Carried
  <2>4. CASE append_accepted(a)
    <3>1. next_index' = [next_index EXCEPT ![i][q.to] =
                           IF q.entries = {} THEN next_index[i][q.to] ELSE LastIdx(q.entries) + 1]
      BY <1>4, <2>4 DEF append_accepted, NextAfter, LastIdx, TypeOK
    <3> HIDE DEF i, q
    <3> QED
      BY <1>6, <2>1, <2>2, <3>1
  <2>5. CASE append_backed_off(a)
    <3>1. next_index' = [next_index EXCEPT ![i][q.to] =
                           IF q.prev_log_idx = 0 THEN 1 ELSE q.prev_log_idx]
      BY <2>5 DEF append_backed_off
    <3>2. (IF q.prev_log_idx = 0 THEN 1 ELSE q.prev_log_idx) <= LastIdx(raft_logs[i]) + 1
      BY <1>4, <2>1, <2>3
    <3> HIDE DEF i, q
    <3> QED
      BY <1>6, <3>1, <3>2
  <2>6. CASE append_deposed(a)
    BY <2>6 DEF append_deposed, IndexesKept
  <2> QED
    BY <2>4, <2>5, <2>6
<1> QED
  BY <1>2, <1>5, <1>7, SameLogs

LEMMA NextWrite ==
  ASSUME TypeOK, TypeOK', NextInv, NEW o \in Op,
         (\E i \in Node : leader_append_log(i, o)) \/ increment_idx(o) \/ write_returned(o)
  PROVE  NextInv'
<1>1. UNCHANGED <<elections, next_index>>
  BY DEF leader_append_log, increment_idx, write_returned, memory
<1>2. ElectionsKept /\ IndexesKept
  BY <1>1 DEF ElectionsKept, IndexesKept
<1>3. ASSUME NEW i \in Node, leader_append_log(i, o) PROVE NextInv'
  <2> DEFINE row == [idx |-> idx[i] + 1, term |-> term[i], op |-> o]
  <2>1. \/ UNCHANGED raft_logs
        \/ raft_logs' = [raft_logs EXCEPT ![i] = @ \cup {row}]
    BY <1>3 DEF leader_append_log
  <2>2. row \in Row
    BY DEF Row, TypeOK
  <2> HIDE DEF row
  <2>3. ASSUME NEW j \in Node
        PROVE  raft_logs[j] \subseteq raft_logs'[j] /\ Topped(raft_logs'[j])
    <3>1. raft_logs[j] \in SUBSET Row /\ Topped(raft_logs[j])
      BY DEF TypeOK, NextInv, LogsTopped
    <3>2. raft_logs'[j] = raft_logs[j] \/ raft_logs'[j] = raft_logs[j] \cup {row}
      BY <2>1 DEF TypeOK
    <3> QED
      BY <2>2, <3>1, <3>2, RowAdded
  <2>4. AppendsKept
    BY <1>3 DEF leader_append_log, AppendsKept, SameCargo
  <2> QED
    BY <1>2, <2>3, <2>4, NextKept
<1>4. CASE increment_idx(o)
  <2> DEFINE i == writes[o].node
             sent == AppendRequest(i, o, next_index[i])
  <2>1. i \in Node /\ next_index[i] \in [Node -> Nat]
    BY <1>4 DEF increment_idx, TypeOK
  <2>2. net' = net \cup sent /\ UNCHANGED raft_logs
    BY <1>4 DEF increment_idx
  <2>3. \A m \in sent : Request(m) = m /\ m.type = "append" /\ Carried(m)
    BY <2>1, AppendCarries
  <2> HIDE DEF sent
  <2>4. AppendsKept
    BY <2>2, <2>3, AppendsSent DEF SameCargo
  <2> QED
    BY <1>2, <2>2, <2>4, SameLogs
<1>5. CASE write_returned(o)
  <2>1. UNCHANGED <<net, raft_logs>>
    BY <1>5 DEF write_returned
  <2>2. AppendsKept
    BY <2>1 DEF AppendsKept, SameCargo
  <2> QED
    BY <1>2, <2>1, <2>2, SameLogs
<1> QED
  BY <1>3, <1>4, <1>5

LEMMA NextEnvironment ==
  ASSUME TypeOK, TypeOK', NextInv,
         \/ \E m \in net : rpc_timeout(m)
         \/ \E i \in Node : restart(i)
         \/ \E c \in elections : election_over(c)
         \/ UNCHANGED vars
  PROVE  NextInv'
<1>1. UNCHANGED raft_logs
  BY DEF rpc_timeout, restart, election_over, vars, disk
<1>2. ASSUME NEW m \in net, IsRequest(m)
      PROVE  LET n == [m EXCEPT !.live = FALSE]
             IN  Request(n).type = "append" => Request(m).type = "append" /\ SameCargo(Request(n), Request(m))
  <2>1. m \in VoteRequests \cup AppendRequests
    BY <1>2, MessageTypes DEF TypeOK, Messages
  <2>2. IsRequest([m EXCEPT !.live = FALSE])
    BY <1>2, <2>1, Abandoned DEF IsRequest
  <2>3. CASE m \in AppendRequests
    BY <1>2, <2>2, <2>3 DEF AppendRequests, Request, SameCargo
  <2>4. CASE m \in VoteRequests
    BY <1>2, <2>2, <2>4 DEF VoteRequests, Request
  <2> QED
    BY <2>1, <2>3, <2>4
<1>3. ASSUME NEW m \in net, rpc_timeout(m) PROVE NextInv'
  <2>1. \A n \in net' : n \in net \/ (IsRequest(m) /\ n = [m EXCEPT !.live = FALSE])
    BY <1>3 DEF rpc_timeout
  <2>2. AppendsKept
    BY <1>2, <2>1 DEF AppendsKept, SameCargo
  <2>3. ElectionsKept
    <3>1. \A p, c : c \in elections =>
            Without(c, p).node = c.node /\ Without(c, p).last_index = c.last_index
      BY DEF Without, TypeOK, Elections
    <3>2. \/ UNCHANGED elections
          \/ \E q : elections' = {IF Awaits(c, q) THEN Without(c, q.to) ELSE c : c \in elections}
      BY <1>3 DEF rpc_timeout
    <3>3. \A c \in elections' : \/ c \in elections
                              \/ \E d \in elections : \E p : c = Without(d, p)
      BY <3>2
    <3> QED
      BY <3>1, <3>3 DEF ElectionsKept
  <2>4. IndexesKept
    BY <1>3 DEF rpc_timeout, memory, IndexesKept
  <2> QED
    BY <1>1, <2>2, <2>3, <2>4, SameLogs
<1>4. ASSUME NEW i \in Node, restart(i) PROVE NextInv'
  <2>1. \A n \in net' : \/ n \in net
                        \/ \E m \in net : IsRequest(m) /\ n = [m EXCEPT !.live = FALSE]
    BY <1>4 DEF restart
  <2>2. AppendsKept
    BY <1>2, <2>1 DEF AppendsKept, SameCargo
  <2>3. ElectionsKept
    BY <1>4 DEF restart, ElectionsKept
  <2>4. IndexesKept
    <3>1. next_index' = [next_index EXCEPT ![i] = [p \in Node |-> 1]]
      BY <1>4 DEF restart
    <3>2. LastIdx(raft_logs[i]) \in Nat
      BY RowTypes DEF LastIdx, RowOrNone, TypeOK
    <3> QED
      BY <3>1, <3>2 DEF IndexesKept, TypeOK
  <2> QED
    BY <1>1, <2>2, <2>3, <2>4, SameLogs
<1>5. ASSUME (\E c \in elections : election_over(c)) \/ UNCHANGED vars PROVE NextInv'
  <2>1. /\ elections' \subseteq elections /\ UNCHANGED <<net, next_index>>
    BY <1>5 DEF election_over, vars, memory
  <2>2. AppendsKept /\ ElectionsKept /\ IndexesKept
    BY <2>1 DEF AppendsKept, SameCargo, ElectionsKept, IndexesKept
  <2> QED
    BY <1>1, <2>2, SameLogs
<1> QED
  BY <1>3, <1>4, <1>5

-----------------------------------------------------------------------------
LEMMA NextInvInit == Init => NextInv
<1> SUFFICES ASSUME Init PROVE NextInv
  OBVIOUS
<1>1. LogsTopped /\ AppendsCarried /\ ElectionsWithinLog
  BY DEF Init, LogsTopped, Topped, AppendsCarried, ElectionsWithinLog
<1>2. NextIndexWithinLog
  <2>1. \A i \in Node : LastIdx(raft_logs[i]) \in Nat
    BY TypeInit, RowTypes DEF LastIdx, RowOrNone, TypeOK
  <2>2. \A i, p \in Node : next_index[i][p] = 1
    BY DEF Init
  <2> QED
    BY <2>1, <2>2 DEF NextIndexWithinLog, LastIdx
<1> QED
  BY <1>1, <1>2 DEF NextInv

LEMMA NextInvStep == TypeOK /\ NextInv /\ [Next]_vars => NextInv'
<1> SUFFICES ASSUME TypeOK, NextInv, [Next]_vars PROVE NextInv'
  OBVIOUS
<1>1. TypeOK'
  BY TypeStep
<1> QED
  BY <1>1, NextElection, NextTimer, NextVote, NextAppend, NextAnswer, NextWrite,
     NextEnvironment DEF Next

(* next_index never points more than one past the last row of the node that keeps it:
   whichever answers come late, to whichever leadership, and whichever nodes restart, no
   row is skipped in what a leader sends. *)
THEOREM IndexesWithinLog == Spec => []NextIndexWithinLog
<1>1. Init => TypeOK /\ NextInv
  BY TypeInit, NextInvInit
<1>2. TypeOK /\ NextInv /\ [Next]_vars => TypeOK' /\ NextInv'
  BY TypeStep, NextInvStep
<1>3. NextInv => NextIndexWithinLog
  BY DEF NextInv
<1> QED
  BY <1>1, <1>2, <1>3, PTL DEF Spec

=============================================================================
