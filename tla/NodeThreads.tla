----------------------------- MODULE NodeThreads -----------------------------
(***************************************************************************)
(* One node of server/consensus/raft_node.py, statement by statement: the  *)
(* worker threads that run follower_request_vote and                       *)
(* follower_append_entries, and the scheduler's threads that run           *)
(* candidate_request_vote, over one row of state_info, one table raft_logs *)
(* and one leader-timeout job.                                             *)
(*                                                                         *)
(* A step is one transaction or one assignment.  A thread keeps the row as *)
(* get_state_info returned it, and goes on with that whatever others write *)
(* in between.  RaftNode runs each handler in one step; what both keep is  *)
(* the promise of module Ballot.                                           *)
(***************************************************************************)
EXTENDS Naturals, FiniteSets

CONSTANTS
  Node, self,     \* the cluster, and the node that is looked at
  Thread,         \* its threads
  Job,            \* identities of the scheduler's jobs
  LogTerm,        \* the log of the cluster: the term of each entry
  Nil,
  MaxTerm,        \* bound: terms
  MaxCalls        \* bound: requests, elections and restarts

Length == Cardinality(DOMAIN LogTerm)
Term == 0..MaxTerm

ASSUME ThreadAssumption ==
  /\ self \in Node /\ Nil \notin Node /\ Job # {}
  /\ {MaxTerm, MaxCalls} \subseteq Nat
  /\ Length \in Nat /\ LogTerm \in [1..Length -> Term]

(* The scheduler names a new job as no job before it. *)
ASSUME JobAssumption ==
  \A held \in [Thread -> Job \cup {Nil}], k \in Job :
    \E j \in Job : j # k /\ \A g \in Thread : j # held[g]

VARIABLES
  term, voted_for, idx,   \* the row of state_info
  raft_logs,              \* the indices of the rows
  committed_index,
  lt_job, jobs,           \* Timer._lt_job, and the jobs the scheduler has
  thread,                 \* what each thread is doing
  calls,
  grants,                 \* history: the votes of this node
  stale                   \* history: has a thread held a row others had changed?

row == <<term, voted_for>>
log == <<idx, raft_logs, committed_index>>
timer == <<lt_job, jobs>>
vars == <<row, log, timer, thread, calls, grants, stale>>

-----------------------------------------------------------------------------
(* Requests: a vote for a candidate whose log ends with entry `last`, of a term
   before its own, and the entries after `prev` up to `last`, of which `commit`
   are committed. *)
Peer == Node \ {self}
TermOf(k) == IF k = 0 THEN 0 ELSE LogTerm[k]
VoteRequest ==
  {m \in [type : {"vote"}, term : Term, from : Peer, last : 0..Length] :
     TermOf(m.last) < m.term}
AppendRequest ==
  {m \in [type : {"append"}, term : Term, prev : 0..Length, last : 0..Length,
          commit : 0..Length] :
     m.term > 0 /\ m.prev <= m.last /\ m.commit <= m.last /\ TermOf(m.last) <= m.term}

(* A thread: the statement it is at, its request, the row it has read, the
   index it will write and the job it will remove. *)
Idle == [pc |-> "idle", req |-> Nil, seen |-> Nil, to |-> 0, job |-> Nil]
Is(h, pc) == thread[h].pc = pc
Req(h) == thread[h].req
Seen(h) == thread[h].seen

Read == [term |-> term, voted_for |-> voted_for, idx |-> idx]
Begin(h, pc, m) ==
  /\ Is(h, "idle") /\ calls < MaxCalls
  /\ calls' = calls + 1
  /\ thread' = [thread EXCEPT ![h] = [Idle EXCEPT !.pc = pc, !.req = m, !.seen = Read]]
  /\ UNCHANGED <<row, log, timer, grants>>
Goto(h, pc) == thread' = [thread EXCEPT ![h].pc = pc]
Return(h) == thread' = [thread EXCEPT ![h] = Idle]

(* get_state_info once more. *)
Reread(h, from, pc, job) ==
  /\ Is(h, from)
  /\ thread' = [thread EXCEPT ![h].pc = pc, ![h].seen = Read, ![h].job = job]
  /\ UNCHANGED <<row, log, timer, calls, grants>>

(* set_term and set_voted_for look at nothing. *)
set_term(t) ==
  /\ term' = t /\ voted_for' = Nil
  /\ UNCHANGED <<log, timer, calls, grants>>

set_voted_for(n, t) ==
  /\ voted_for' = n
  /\ grants' = grants \cup {<<self, t, n>>}
  /\ UNCHANGED <<term, log, timer, calls>>

-----------------------------------------------------------------------------
(* Timer.reset_leader_timeout removes the job that _lt_job names, adds one and
   notes it.  A thread comes to it with the name it may already have loaded
   (job): the removal raises when that job, or the one named now, is gone. *)

ResetAt(h) == thread' = [thread EXCEPT ![h] = [Idle EXCEPT !.pc = "reset", !.job = lt_job]]

BugRemoved(h, from, pc) ==
  /\ Is(h, from)
  /\ jobs' = jobs \ {lt_job}
  /\ thread' = [thread EXCEPT ![h].pc = pc, ![h].job = Nil]
  /\ UNCHANGED <<row, log, lt_job, calls, grants>>
Removed(h, from, pc) ==
  /\ Is(h, from) /\ lt_job \in jobs
  /\ jobs' = jobs \ {lt_job}
  /\ thread' = [thread EXCEPT ![h].pc = pc, ![h].job = Nil]
  /\ UNCHANGED <<row, log, lt_job, calls, grants>>
JobLookupError(h, from) ==
  /\ Is(h, from) /\ {thread[h].job, lt_job} \cap (Job \ jobs) # {}
  /\ UNCHANGED <<row, log, timer, calls, grants>>
NewJob == CHOOSE j \in Job : j # lt_job /\ \A g \in Thread : j # thread[g].job
Added(h, from) ==
  /\ Is(h, from)
  /\ lt_job' = NewJob
  /\ jobs' = jobs \cup {NewJob}
  /\ UNCHANGED <<row, log, calls, grants>>

-----------------------------------------------------------------------------
(* follower_request_vote. *)

follower_request_vote(h, m) == m \in VoteRequest /\ Begin(h, "vote", m)

vote_set_term(h) ==
  /\ Is(h, "vote") /\ Req(h).term > Seen(h).term
  /\ set_term(Req(h).term)
  /\ Goto(h, "newer")

(* A denial; the row read at the beginning decides it. *)
BugVoteFree(h) == TRUE
VoteFree(h) == Seen(h).voted_for \in {Nil, Req(h).from}
Compared(h) == Is(h, "newer") \/ (Is(h, "vote") /\ Req(h).term = Seen(h).term)
TopRow == IF raft_logs = {} THEN 0 ELSE CHOOSE k \in raft_logs : \A j \in raft_logs : j <= k
LogStale(h) ==
  \/ TermOf(Req(h).last) < TermOf(TopRow)
  \/ TermOf(Req(h).last) = TermOf(TopRow) /\ Req(h).last < TopRow

vote_denied(h) ==
  /\ \/ Is(h, "vote") /\ Req(h).term < Seen(h).term
     \/ Compared(h) /\ (~VoteFree(h) \/ LogStale(h))
  /\ Return(h)
  /\ UNCHANGED <<row, log, timer, calls, grants>>

vote_deserved(h) ==
  /\ Compared(h) /\ VoteFree(h) /\ ~LogStale(h)
  /\ Goto(h, "grant")
  /\ UNCHANGED <<row, log, timer, calls, grants>>

vote_recorded(h) ==
  /\ Is(h, "grant")
  /\ set_voted_for(Req(h).from, Req(h).term)
  /\ ResetAt(h)

(* The tail of a vote and of an election; the exception turns a vote that is
   recorded into a denial, and ends the job of an election. *)
reset_remove(h) == Removed(h, "reset", "add")
reset_fails(h) == JobLookupError(h, "reset") /\ Return(h)
reset_add(h) == Added(h, "add") /\ Return(h)

-----------------------------------------------------------------------------
(* follower_append_entries. *)

follower_append_entries(h, m) == m \in AppendRequest /\ Begin(h, "append", m)

append_set_term(h) ==
  /\ Is(h, "append") /\ Req(h).term > Seen(h).term
  /\ set_term(Req(h).term)
  /\ Goto(h, "adopted")
append_reread(h) == Reread(h, "adopted", "append_reset", lt_job)
append_remove(h) == Removed(h, "append_reset", "append_add")
append_reset_fails(h) == JobLookupError(h, "append_reset") /\ Return(h)
append_add(h) == Added(h, "append_add") /\ Goto(h, "current")

Current(h) == Is(h, "current") \/ (Is(h, "append") /\ Req(h).term = Seen(h).term)
BugConsistent(h) == TRUE
Consistent(h) == Req(h).prev = 0 \/ Req(h).prev \in raft_logs

(* An older term, nothing in it, or no row for the entry before. *)
append_returned(h) ==
  /\ \/ Is(h, "append") /\ Req(h).term < Seen(h).term
     \/ Current(h) /\ (Req(h).last = 0 \/ ~Consistent(h))
  /\ Return(h)
  /\ UNCHANGED <<row, log, timer, calls, grants>>

(* One transaction inserts the rows and writes idx, which is compared with the
   row as it was read. *)
BugNewIdx(h, last) == last
BugIdxPast(h, last) == IF last >= Seen(h).idx THEN last + 1 ELSE idx
NewIdx(h, last) == IF last > Seen(h).idx THEN last ELSE idx

append_stored(h) ==
  /\ Current(h) /\ Req(h).last # 0 /\ Consistent(h)
  /\ LET last == IF Req(h).prev = Req(h).last THEN Seen(h).idx ELSE Req(h).last
     IN  /\ raft_logs' = raft_logs \cup (Req(h).prev + 1)..Req(h).last
         /\ idx' = NewIdx(h, last)
         /\ thread' = [thread EXCEPT ![h].pc = "stored", ![h].seen = Nil, ![h].to = last]
  /\ UNCHANGED <<row, committed_index, timer, calls, grants>>

Commit(h) == IF Req(h).commit < thread[h].to THEN Req(h).commit ELSE thread[h].to

append_committing(h) ==
  /\ Is(h, "stored") /\ Req(h).commit > committed_index
  /\ thread' = [thread EXCEPT ![h].pc = "apply", ![h].req = Nil, ![h].to = Commit(h)]
  /\ UNCHANGED <<row, log, timer, calls, grants>>
append_done(h) ==
  /\ Is(h, "stored") /\ Req(h).commit <= committed_index
  /\ Return(h)
  /\ UNCHANGED <<row, log, timer, calls, grants>>
(* The rows are applied in between: module LmsReplica. *)
append_committed(h) ==
  /\ Is(h, "apply")
  /\ committed_index' = thread[h].to
  /\ Return(h)
  /\ UNCHANGED <<row, idx, raft_logs, timer, calls, grants>>

-----------------------------------------------------------------------------
(* candidate_request_vote, in a thread of the scheduler. *)

candidate_request_vote(h) == jobs # {} /\ term < MaxTerm /\ Begin(h, "stand", Nil)
stand_set_term(h) == Is(h, "stand") /\ set_term(Seen(h).term + 1) /\ Goto(h, "stood")
stand_reread(h) == Reread(h, "stood", "vote_self", Nil)
stand_vote(h) ==
  Is(h, "vote_self") /\ set_voted_for(self, Seen(h).term) /\ Goto(h, "asked")

(* The answers: a higher term, a majority, or nothing more to come.  An error in
   the reset after a refusal is swallowed, and the loop goes on. *)
election_refused(h, t) ==
  /\ Is(h, "asked") /\ t > Seen(h).term
  /\ set_term(t)
  /\ thread' = [thread EXCEPT ![h].pc = "refused", ![h].job = lt_job]
refused_remove(h) == Removed(h, "refused", "add")
refused_fails(h) == JobLookupError(h, "refused")
                    /\ thread' = [thread EXCEPT ![h].pc = "asked", ![h].job = Nil]
election_won(h) ==
  /\ Is(h, "asked") /\ Return(h)
  /\ UNCHANGED <<row, log, timer, calls, grants>>
election_over(h) ==
  /\ Is(h, "asked") /\ ResetAt(h)
  /\ UNCHANGED <<row, log, timer, calls, grants>>

-----------------------------------------------------------------------------
(* The process dies and starts again. *)
FirstJob == CHOOSE j \in Job : TRUE
restart ==
  /\ calls < MaxCalls
  /\ calls' = calls + 1
  /\ thread' = [h \in Thread |-> Idle]
  /\ committed_index' = 0
  /\ lt_job' = FirstJob /\ jobs' = {FirstJob}
  /\ UNCHANGED <<row, idx, raft_logs, grants>>

(* A thread that may still write the row, or idx, from what it has read of them is
   stale when they are no longer what it has made of them. *)
RowIs(t, v) == term = t /\ voted_for = v
Unchanged(h) == RowIs(Seen(h).term, Seen(h).voted_for)
UpToDate(h) ==
  CASE thread[h].pc \in {"vote", "stand", "vote_self"} -> Unchanged(h)
    [] thread[h].pc \in {"newer", "grant"} ->
         IF Req(h).term > Seen(h).term THEN RowIs(Req(h).term, Nil) ELSE Unchanged(h)
    [] Is(h, "stood") -> RowIs(Seen(h).term + 1, Nil)
    [] Is(h, "asked") -> RowIs(Seen(h).term, self)
    [] Is(h, "append") -> Unchanged(h) /\ idx = Seen(h).idx
    [] thread[h].pc \in {"append_reset", "append_add", "current"} ->
         idx = Seen(h).idx
    [] OTHER -> TRUE

Init ==
  /\ term = 0 /\ voted_for = Nil /\ idx = 0
  /\ raft_logs = {} /\ committed_index = 0
  /\ lt_job = FirstJob /\ jobs = {FirstJob}
  /\ thread = [h \in Thread |-> Idle]
  /\ calls = 0
  /\ grants = {} /\ stale = FALSE

Vote(h) == \/ \E m \in VoteRequest : follower_request_vote(h, m)
           \/ vote_set_term(h) \/ vote_denied(h) \/ vote_deserved(h) \/ vote_recorded(h)
Reset(h) == reset_remove(h) \/ reset_fails(h) \/ reset_add(h)
AppendEntries(h) ==
  \/ \E m \in AppendRequest : follower_append_entries(h, m)
  \/ append_set_term(h) \/ append_reread(h) \/ append_remove(h) \/ append_reset_fails(h)
  \/ append_add(h) \/ append_returned(h) \/ append_stored(h) \/ append_committing(h)
  \/ append_done(h) \/ append_committed(h)
Stand(h) ==
  \/ candidate_request_vote(h) \/ stand_set_term(h) \/ stand_reread(h) \/ stand_vote(h)
  \/ \E t \in Term : election_refused(h, t)
  \/ refused_remove(h) \/ refused_fails(h) \/ election_won(h) \/ election_over(h)

Step == restart \/ \E h \in Thread : Vote(h) \/ Reset(h) \/ AppendEntries(h) \/ Stand(h)
Next == Step /\ stale' = (stale \/ \E h \in Thread : ~UpToDate(h)')

Spec == Init /\ [][Next]_vars

-----------------------------------------------------------------------------
(* Properties. *)

Pc == {"idle", "vote", "newer", "grant", "reset", "add", "append", "adopted",
       "append_reset", "append_add", "current", "stored", "apply", "stand",
       "stood", "vote_self", "asked", "refused"}
Row == [term : Term, voted_for : Node \cup {Nil}, idx : 0..Length]
ThreadState == [pc : Pc, req : VoteRequest \cup AppendRequest \cup {Nil},
                seen : Row \cup {Nil}, to : 0..Length, job : Job \cup {Nil}]

(* The row, the log, the job and the threads have the types of their columns and
   attributes in Node, Timer and schema.py. *)
TypeOK ==
  /\ term \in Term /\ voted_for \in Node \cup {Nil} /\ idx \in 0..Length
  /\ raft_logs \subseteq 1..Length /\ committed_index \in 0..Length
  /\ lt_job \in Job /\ jobs \subseteq Job
  /\ thread \in [Thread -> ThreadState]
  /\ calls \in 0..MaxCalls
  /\ grants \subseteq {self} \X Term \X Node
  /\ stale \in BOOLEAN

(* What follower_request_vote and candidate_request_vote promise: while no thread
   holds a row that has been changed since it read it, the node gives one vote a
   term, its own included, over all restarts. *)
Promise == INSTANCE Ballot WITH
  Node <- Node, Term <- Term, grants <- grants, wins <- {},
  rewound <- IF stale THEN {self} ELSE {}
VotesAreBallots == Promise!Spec

(* reset_leader_timeout, called by any number of threads at once, never loses the
   job that starts elections and never leaves two: there is one, or one thread is
   about to add it. *)
ElectionTimerKept ==
  LET adding == {h \in Thread : thread[h].pc \in {"add", "append_add"}}
  IN  \/ jobs = {lt_job} /\ adding = {}
      \/ jobs = {} /\ \E h \in Thread : adding = {h}

(* Every entry up to committed_index is in raft_logs, whatever other handlers of
   follower_append_entries write between the steps of one. *)
CommittedIsStored == 1..committed_index \subseteq raft_logs

(* While no thread holds an old row, idx is the last row of raft_logs: the index a
   leader counts on from, and up to which a follower commits. *)
IdxIsLastRow == stale \/ idx = TopRow

=============================================================================
