-------------------------- MODULE NodeThreadsProofs --------------------------
(***************************************************************************)
(* Theorems about NodeThreads, for every cluster, number of threads, log   *)
(* and bound.                                                              *)
(***************************************************************************)
EXTENDS NodeThreads, TLAPS

(* What a thread holds, by the statement it is at. *)
Held(s) ==
  /\ s.pc \in {"vote", "newer", "grant"} => s.req \in VoteRequest
  /\ s.pc \in {"append", "adopted", "append_reset", "append_add", "current", "stored"} =>
       s.req \in AppendRequest
  /\ s.pc \in {"vote", "newer", "grant", "append", "append_reset", "append_add",
               "current", "stand", "stood", "vote_self", "asked", "refused"} =>
       s.seen \in Row
  /\ s.pc \in {"stand", "stood"} => s.seen.term < MaxTerm

ThreadsHold == \A h \in Thread : Held(thread[h])

-----------------------------------------------------------------------------
(* Types. *)

LEMMA Bounds == Length \in Nat /\ MaxTerm \in Nat /\ Term = 0..MaxTerm
BY ThreadAssumption DEF Term

(* A new job has a new name. *)
LEMMA NewJobType ==
  ASSUME TypeOK
  PROVE  NewJob \in Job
<1>1. [g \in Thread |-> thread[g].job] \in [Thread -> Job \cup {Nil}] /\ lt_job \in Job
  BY DEF TypeOK, ThreadState
<1>2. \E j \in Job : j # lt_job /\ \A g \in Thread : j # thread[g].job
  BY <1>1, JobAssumption
<1> QED
  BY <1>2 DEF NewJob

LEMMA IdleType == Idle \in ThreadState /\ Held(Idle)
BY Bounds DEF Idle, ThreadState, Held, Pc

LEMMA InitType == Init => TypeOK /\ ThreadsHold
<1> SUFFICES ASSUME Init PROVE TypeOK /\ ThreadsHold
  OBVIOUS
<1>1. FirstJob \in Job
  BY ThreadAssumption DEF FirstJob
<1>2. 0 \in Term /\ 0 \in 0..Length /\ 0 \in 0..MaxCalls
  BY Bounds, ThreadAssumption
<1> QED
  BY <1>1, <1>2, IdleType DEF Init, TypeOK, ThreadsHold

(* A thread that moves leaves the others where they are. *)
LEMMA Moved ==
  ASSUME TypeOK, ThreadsHold, NEW h \in Thread, NEW s \in ThreadState, Held(s),
         thread' = [thread EXCEPT ![h] = s]
  PROVE  thread' \in [Thread -> ThreadState] /\ ThreadsHold'
BY DEF TypeOK, ThreadsHold

(* The record of a thread after it has gone on, in the forms the actions use. *)
LEMMA Forms ==
  ASSUME TypeOK, NEW h \in Thread, NEW pc, NEW seen, NEW job, NEW to
  PROVE  LET s == thread[h]
         IN  /\ s \in ThreadState
             /\ [thread EXCEPT ![h].pc = pc] = [thread EXCEPT ![h] = [s EXCEPT !.pc = pc]]
             /\ [thread EXCEPT ![h].pc = pc, ![h].job = job] =
                  [thread EXCEPT ![h] = [s EXCEPT !.pc = pc, !.job = job]]
             /\ [thread EXCEPT ![h].pc = pc, ![h].seen = seen, ![h].job = job] =
                  [thread EXCEPT ![h] = [s EXCEPT !.pc = pc, !.seen = seen, !.job = job]]
             /\ [thread EXCEPT ![h].pc = pc, ![h].seen = seen, ![h].to = to] =
                  [thread EXCEPT ![h] = [s EXCEPT !.pc = pc, !.seen = seen, !.to = to]]
             /\ [thread EXCEPT ![h].pc = pc, ![h].req = seen, ![h].to = to] =
                  [thread EXCEPT ![h] = [s EXCEPT !.pc = pc, !.req = seen, !.to = to]]
BY DEF TypeOK, ThreadState

(* What every action leaves to be shown: the columns, and the record of its thread. *)
Columns ==
  /\ term \in Term /\ voted_for \in Node \cup {Nil} /\ idx \in 0..Length
  /\ raft_logs \subseteq 1..Length /\ committed_index \in 0..Length
  /\ lt_job \in Job /\ jobs \subseteq Job
  /\ calls \in 0..MaxCalls /\ grants \subseteq {self} \X Term \X Node

LEMMA BeginType ==
  ASSUME TypeOK, ThreadsHold, NEW h \in Thread, NEW pc, NEW m, Begin(h, pc, m),
         \/ pc = "vote" /\ m \in VoteRequest
         \/ pc = "append" /\ m \in AppendRequest
         \/ pc = "stand" /\ m = Nil /\ term < MaxTerm
  PROVE  Columns' /\ thread' \in [Thread -> ThreadState] /\ ThreadsHold'
<1> DEFINE s == [Idle EXCEPT !.pc = pc, !.req = m, !.seen = Read]
<1>1. Read \in Row
  BY DEF TypeOK, Read, Row
<1>2. s \in ThreadState
  BY <1>1, IdleType DEF Idle, ThreadState, Pc
<1>3. Held(s)
  BY <1>1 DEF Held, Idle, Read
<1>4. thread' = [thread EXCEPT ![h] = s]
  BY DEF Begin
<1>5. Columns'
  BY ThreadAssumption DEF Begin, TypeOK, Columns, row, log, timer
<1> HIDE DEF s
<1> QED
  BY <1>2, <1>3, <1>4, <1>5, Moved

LEMMA VoteType ==
  ASSUME TypeOK, ThreadsHold, NEW h \in Thread, Vote(h)
  PROVE  Columns' /\ thread' \in [Thread -> ThreadState] /\ ThreadsHold'
<1> USE DEF Is, Req, Seen
<1>1. Held(thread[h]) /\ thread[h] \in ThreadState
  BY DEF TypeOK, ThreadsHold
<1>2. CASE \E m \in VoteRequest : follower_request_vote(h, m)
  BY <1>2, BeginType DEF follower_request_vote
<1>3. CASE vote_set_term(h)
  <2> DEFINE s == [thread[h] EXCEPT !.pc = "newer"]
  <2>1. s \in ThreadState /\ Held(s)
    BY <1>1, <1>3 DEF vote_set_term, ThreadState, Held, Pc
  <2>2. thread' = [thread EXCEPT ![h] = s]
    BY <1>3, Forms DEF vote_set_term, Goto
  <2>3. Columns'
    BY <1>1, <1>3 DEF vote_set_term, set_term, TypeOK, Columns, row, log, timer, Held, VoteRequest
  <2> HIDE DEF s
  <2> QED
    BY <2>1, <2>2, <2>3, Moved
<1>4. CASE vote_denied(h)
  <2>1. thread' = [thread EXCEPT ![h] = Idle] /\ Columns'
    BY <1>4 DEF vote_denied, Return, TypeOK, Columns, row, log, timer
  <2> QED
    BY <2>1, IdleType, Moved
<1>5. CASE vote_deserved(h)
  <2> DEFINE s == [thread[h] EXCEPT !.pc = "grant"]
  <2>1. s \in ThreadState /\ Held(s)
    BY <1>1, <1>5 DEF vote_deserved, Compared, ThreadState, Held, Pc
  <2>2. thread' = [thread EXCEPT ![h] = s] /\ Columns'
    BY <1>5, Forms DEF vote_deserved, Goto, TypeOK, Columns, row, log, timer
  <2> HIDE DEF s
  <2> QED
    BY <2>1, <2>2, Moved
<1>6. CASE vote_recorded(h)
  <2> DEFINE s == [Idle EXCEPT !.pc = "reset", !.job = lt_job]
  <2>1. s \in ThreadState /\ Held(s)
    BY IdleType DEF Idle, TypeOK, ThreadState, Held, Pc
  <2>2. thread' = [thread EXCEPT ![h] = s]
    BY <1>6 DEF vote_recorded, ResetAt
  <2>3. Req(h).from \in Node /\ Req(h).term \in Term
    BY <1>1, <1>6 DEF vote_recorded, Held, VoteRequest, Peer
  <2>4. Columns'
    BY <1>6, <2>3 DEF vote_recorded, set_voted_for, TypeOK, Columns, row, log, timer
  <2> HIDE DEF s
  <2> QED
    BY <2>1, <2>2, <2>4, Moved
<1> QED
  BY <1>2, <1>3, <1>4, <1>5, <1>6 DEF Vote

(* Removing and adding the job. *)
LEMMA TimerType ==
  ASSUME TypeOK, ThreadsHold, NEW h \in Thread, NEW from, NEW pc
  PROVE  /\ Removed(h, from, pc) => Columns'
         /\ Added(h, from) => Columns'
         /\ JobLookupError(h, from) => Columns'
<1>1. NewJob \in Job
  BY NewJobType
<1> QED
  BY <1>1 DEF Removed, Added, JobLookupError, TypeOK, Columns, row, log, timer

(* A thread that goes on to a statement that needs no request and no row. *)
LEMMA OnType ==
  ASSUME TypeOK, ThreadsHold, NEW h \in Thread, NEW pc \in Pc,
         \/ pc \in {"add", "reset"}
         \/ pc = "append_add" /\ Is(h, "append_reset")
         \/ pc = "asked" /\ Is(h, "refused")
         \/ pc = "current" /\ Is(h, "append_add"),
         NEW job \in Job \cup {Nil},
         thread' = [thread EXCEPT ![h].pc = pc, ![h].job = job]
  PROVE  thread' \in [Thread -> ThreadState] /\ ThreadsHold'
<1> DEFINE s == [thread[h] EXCEPT !.pc = pc, !.job = job]
<1>1. Held(thread[h]) /\ thread[h] \in ThreadState
  BY DEF TypeOK, ThreadsHold
<1>2. s \in ThreadState /\ Held(s)
  BY <1>1 DEF ThreadState, Held, Is
<1>3. thread' = [thread EXCEPT ![h] = s]
  BY Forms
<1> HIDE DEF s
<1> QED
  BY <1>2, <1>3, Moved

LEMMA ResetType ==
  ASSUME TypeOK, ThreadsHold, NEW h \in Thread, Reset(h)
  PROVE  Columns' /\ thread' \in [Thread -> ThreadState] /\ ThreadsHold'
<1>1. CASE reset_remove(h)
  <2>1. thread' = [thread EXCEPT ![h].pc = "add", ![h].job = Nil] /\ "add" \in Pc
    BY <1>1 DEF reset_remove, Removed, Pc
  <2> QED
    BY <1>1, <2>1, OnType, TimerType DEF reset_remove
<1>2. CASE reset_fails(h)
  <2>1. thread' = [thread EXCEPT ![h] = Idle]
    BY <1>2 DEF reset_fails, Return
  <2> QED
    BY <1>2, <2>1, IdleType, Moved, TimerType DEF reset_fails
<1>3. CASE reset_add(h)
  <2>1. thread' = [thread EXCEPT ![h] = Idle]
    BY <1>3 DEF reset_add, Return
  <2> QED
    BY <1>3, <2>1, IdleType, Moved, TimerType DEF reset_add
<1> QED
  BY <1>1, <1>2, <1>3 DEF Reset

LEMMA AppendType ==
  ASSUME TypeOK, ThreadsHold, NEW h \in Thread, AppendEntries(h)
  PROVE  Columns' /\ thread' \in [Thread -> ThreadState] /\ ThreadsHold'
<1> USE DEF Is, Req, Seen
<1>1. Held(thread[h]) /\ thread[h] \in ThreadState
  BY DEF TypeOK, ThreadsHold
<1>2. CASE \E m \in AppendRequest : follower_append_entries(h, m)
  BY <1>2, BeginType DEF follower_append_entries
<1>3. CASE append_set_term(h)
  <2> DEFINE s == [thread[h] EXCEPT !.pc = "adopted"]
  <2>1. s \in ThreadState /\ Held(s)
    BY <1>1, <1>3 DEF append_set_term, ThreadState, Held, Pc
  <2>2. thread' = [thread EXCEPT ![h] = s]
    BY <1>3, Forms DEF append_set_term, Goto
  <2>3. Columns'
    BY <1>1, <1>3 DEF append_set_term, set_term, TypeOK, Columns, row, log, timer, Held,
       AppendRequest
  <2> HIDE DEF s
  <2> QED
    BY <2>1, <2>2, <2>3, Moved
<1>4. CASE append_reread(h)
  <2> DEFINE s == [thread[h] EXCEPT !.pc = "append_reset", !.seen = Read, !.job = lt_job]
  <2>1. Read \in Row /\ lt_job \in Job
    BY DEF TypeOK, Read, Row
  <2>2. s \in ThreadState /\ Held(s)
    BY <1>1, <1>4, <2>1 DEF append_reread, Reread, ThreadState, Held, Pc
  <2>3. thread' = [thread EXCEPT ![h] = s]
    BY <1>4, Forms DEF append_reread, Reread
  <2>4. Columns'
    BY <1>4 DEF append_reread, Reread, TypeOK, Columns, row, log, timer
  <2> HIDE DEF s
  <2> QED
    BY <2>2, <2>3, <2>4, Moved
<1>5. CASE append_remove(h)
  <2>1. thread' = [thread EXCEPT ![h].pc = "append_add", ![h].job = Nil]
    BY <1>5 DEF append_remove, Removed
  <2>2. Is(h, "append_reset") /\ "append_add" \in Pc
    BY <1>5 DEF append_remove, Removed, Pc
  <2> QED
    BY <1>5, <2>1, <2>2, OnType, TimerType DEF append_remove
<1>6. CASE append_reset_fails(h) \/ append_returned(h) \/ append_done(h)
  <2>1. thread' = [thread EXCEPT ![h] = Idle]
    BY <1>6 DEF append_reset_fails, append_returned, append_done, Return
  <2>2. Columns'
    BY <1>6, TimerType DEF append_reset_fails, append_returned, append_done, TypeOK, Columns,
       row, log, timer
  <2> QED
    BY <2>1, <2>2, IdleType, Moved
<1>7. CASE append_add(h)
  <2> DEFINE s == [thread[h] EXCEPT !.pc = "current"]
  <2>1. s \in ThreadState /\ Held(s)
    BY <1>1, <1>7 DEF append_add, Added, ThreadState, Held, Pc
  <2>2. thread' = [thread EXCEPT ![h] = s]
    BY <1>7, Forms DEF append_add, Goto
  <2> HIDE DEF s
  <2> QED
    BY <1>7, <2>1, <2>2, Moved, TimerType DEF append_add
<1>8. CASE append_stored(h)
  <2> DEFINE last == IF Req(h).prev = Req(h).last THEN Seen(h).idx ELSE Req(h).last
             s == [thread[h] EXCEPT !.pc = "stored", !.seen = Nil, !.to = last]
  <2>1. /\ Req(h) \in AppendRequest /\ Seen(h) \in Row
    BY <1>1, <1>8 DEF append_stored, Current, Held
  <2>2. Req(h).prev \in 0..Length /\ Req(h).last \in 0..Length /\ last \in 0..Length
    BY <2>1, Bounds DEF AppendRequest, Row
  <2>3. s \in ThreadState /\ Held(s)
    BY <1>1, <2>1, <2>2 DEF ThreadState, Held, Pc
  <2>4. thread' = [thread EXCEPT ![h] = s]
    BY <1>8, Forms DEF append_stored
  <2>5. Columns'
    <3>1. raft_logs' = raft_logs \cup (Req(h).prev + 1)..Req(h).last /\ idx' = NewIdx(h, last)
      BY <1>8 DEF append_stored
    <3>2. idx' \in 0..Length
      BY <2>2, <3>1 DEF NewIdx, TypeOK
    <3>3. (Req(h).prev + 1)..Req(h).last \subseteq 1..Length
      BY <2>2, Bounds
    <3>4. raft_logs' \subseteq 1..Length
      BY <3>1, <3>3 DEF TypeOK
    <3> HIDE DEF last
    <3> QED
      BY <1>8, <3>2, <3>4 DEF append_stored, TypeOK, Columns, row, timer
  <2> HIDE DEF s
  <2> QED
    BY <2>3, <2>4, <2>5, Moved
<1>9. CASE append_committing(h)
  <2> DEFINE s == [thread[h] EXCEPT !.pc = "apply", !.req = Nil, !.to = Commit(h)]
  <2>1. Commit(h) \in 0..Length
    BY <1>1, <1>9 DEF append_committing, Commit, ThreadState, Held, AppendRequest
  <2>2. s \in ThreadState /\ Held(s)
    BY <1>1, <2>1 DEF ThreadState, Held, Pc
  <2>3. thread' = [thread EXCEPT ![h] = s]
    BY <1>9, Forms DEF append_committing
  <2>4. Columns'
    BY <1>9 DEF append_committing, TypeOK, Columns, row, log, timer
  <2> HIDE DEF s
  <2> QED
    BY <2>2, <2>3, <2>4, Moved
<1>10. CASE append_committed(h)
  <2>1. thread' = [thread EXCEPT ![h] = Idle]
    BY <1>10 DEF append_committed, Return
  <2>2. Columns'
    BY <1>1, <1>10 DEF append_committed, TypeOK, Columns, row, timer, ThreadState
  <2> QED
    BY <2>1, <2>2, IdleType, Moved
<1> QED
  BY <1>2, <1>3, <1>4, <1>5, <1>6, <1>7, <1>8, <1>9, <1>10 DEF AppendEntries

LEMMA StandType ==
  ASSUME TypeOK, ThreadsHold, NEW h \in Thread, Stand(h)
  PROVE  Columns' /\ thread' \in [Thread -> ThreadState] /\ ThreadsHold'
<1> USE DEF Is, Req, Seen
<1>1. Held(thread[h]) /\ thread[h] \in ThreadState
  BY DEF TypeOK, ThreadsHold
<1>2. CASE candidate_request_vote(h)
  BY <1>2, BeginType DEF candidate_request_vote
<1>3. CASE stand_set_term(h)
  <2> DEFINE s == [thread[h] EXCEPT !.pc = "stood"]
  <2>1. s \in ThreadState /\ Held(s)
    BY <1>1, <1>3 DEF stand_set_term, ThreadState, Held, Pc
  <2>2. thread' = [thread EXCEPT ![h] = s]
    BY <1>3, Forms DEF stand_set_term, Goto
  <2>3. Seen(h).term + 1 \in Term
    BY <1>1, <1>3, Bounds DEF stand_set_term, Held, Row
  <2>4. Columns'
    BY <1>3, <2>3 DEF stand_set_term, set_term, TypeOK, Columns, row, log, timer
  <2> HIDE DEF s
  <2> QED
    BY <2>1, <2>2, <2>4, Moved
<1>4. CASE stand_reread(h)
  <2> DEFINE s == [thread[h] EXCEPT !.pc = "vote_self", !.seen = Read, !.job = Nil]
  <2>1. Read \in Row
    BY DEF TypeOK, Read, Row
  <2>2. s \in ThreadState /\ Held(s)
    BY <1>1, <1>4, <2>1 DEF stand_reread, Reread, ThreadState, Held, Pc
  <2>3. thread' = [thread EXCEPT ![h] = s]
    BY <1>4, Forms DEF stand_reread, Reread
  <2>4. Columns'
    BY <1>4 DEF stand_reread, Reread, TypeOK, Columns, row, log, timer
  <2> HIDE DEF s
  <2> QED
    BY <2>2, <2>3, <2>4, Moved
<1>5. CASE stand_vote(h)
  <2> DEFINE s == [thread[h] EXCEPT !.pc = "asked"]
  <2>1. s \in ThreadState /\ Held(s)
    BY <1>1, <1>5 DEF stand_vote, ThreadState, Held, Pc
  <2>2. thread' = [thread EXCEPT ![h] = s]
    BY <1>5, Forms DEF stand_vote, Goto
  <2>3. Seen(h).term \in Term
    BY <1>1, <1>5 DEF stand_vote, Held, Row
  <2>4. Columns'
    BY <1>5, <2>3, ThreadAssumption DEF stand_vote, set_voted_for, TypeOK, Columns, row, log, timer
  <2> HIDE DEF s
  <2> QED
    BY <2>1, <2>2, <2>4, Moved
<1>6. ASSUME NEW t \in Term, election_refused(h, t)
      PROVE  Columns' /\ thread' \in [Thread -> ThreadState] /\ ThreadsHold'
  <2> DEFINE s == [thread[h] EXCEPT !.pc = "refused", !.job = lt_job]
  <2>1. s \in ThreadState /\ Held(s)
    BY <1>1, <1>6 DEF election_refused, TypeOK, ThreadState, Held, Pc
  <2>2. thread' = [thread EXCEPT ![h] = s]
    BY <1>6, Forms DEF election_refused
  <2>3. Columns'
    BY <1>6 DEF election_refused, set_term, TypeOK, Columns, row, log, timer
  <2> HIDE DEF s
  <2> QED
    BY <2>1, <2>2, <2>3, Moved
<1>7. CASE refused_remove(h)
  <2>1. thread' = [thread EXCEPT ![h].pc = "add", ![h].job = Nil] /\ "add" \in Pc
    BY <1>7 DEF refused_remove, Removed, Pc
  <2> QED
    BY <1>7, <2>1, OnType, TimerType DEF refused_remove
<1>8. CASE refused_fails(h)
  <2>1. thread' = [thread EXCEPT ![h].pc = "asked", ![h].job = Nil] /\ "asked" \in Pc
    BY <1>8 DEF refused_fails, Pc
  <2>2. Is(h, "refused")
    BY <1>8 DEF refused_fails, JobLookupError
  <2> QED
    BY <1>8, <2>1, <2>2, OnType, TimerType DEF refused_fails
<1>9. CASE election_won(h)
  <2>1. thread' = [thread EXCEPT ![h] = Idle] /\ Columns'
    BY <1>9 DEF election_won, Return, TypeOK, Columns, row, log, timer
  <2> QED
    BY <2>1, IdleType, Moved
<1>10. CASE election_over(h)
  <2> DEFINE s == [Idle EXCEPT !.pc = "reset", !.job = lt_job]
  <2>1. s \in ThreadState /\ Held(s)
    BY IdleType DEF Idle, TypeOK, ThreadState, Held, Pc
  <2>2. thread' = [thread EXCEPT ![h] = s] /\ Columns'
    BY <1>10 DEF election_over, ResetAt, TypeOK, Columns, row, log, timer
  <2> HIDE DEF s
  <2> QED
    BY <2>1, <2>2, Moved
<1> QED
  BY <1>2, <1>3, <1>4, <1>5, <1>6, <1>7, <1>8, <1>9, <1>10 DEF Stand

LEMMA TypeStep == TypeOK /\ ThreadsHold /\ [Next]_vars => TypeOK' /\ ThreadsHold'
<1> SUFFICES ASSUME TypeOK, ThreadsHold, [Next]_vars
             PROVE  TypeOK' /\ ThreadsHold'
  OBVIOUS
<1>1. CASE UNCHANGED vars
  BY <1>1 DEF vars, row, log, timer, TypeOK, ThreadsHold
<1>2. CASE Next
  <2>1. ASSUME Columns', thread' \in [Thread -> ThreadState], ThreadsHold'
        PROVE  TypeOK' /\ ThreadsHold'
    BY <1>2, <2>1 DEF Next, TypeOK, Columns
  <2>2. CASE restart
    <3>1. FirstJob \in Job
      BY ThreadAssumption DEF FirstJob
    <3>2. Columns'
      BY <2>2, <3>1, Bounds, ThreadAssumption DEF restart, TypeOK, Columns, row
    <3>3. thread' \in [Thread -> ThreadState] /\ ThreadsHold'
      BY <2>2, IdleType DEF restart, ThreadsHold
    <3> QED
      BY <2>1, <3>2, <3>3
  <2> QED
    BY <1>2, <2>1, <2>2, VoteType, ResetType, AppendType, StandType DEF Next, Step
<1> QED
  BY <1>1, <1>2

(* TypeOK, for every node: what each thread holds decides what it may write. *)
THEOREM TypeCorrect == Spec => []TypeOK
<1>1. Init => TypeOK /\ ThreadsHold
  BY InitType
<1>2. TypeOK /\ ThreadsHold /\ [Next]_vars => TypeOK' /\ ThreadsHold'
  BY TypeStep
<1> QED
  BY <1>1, <1>2, PTL DEF Spec

-----------------------------------------------------------------------------
(* The job of the timer. *)

Adding == {h \in Thread : thread[h].pc \in {"add", "append_add"}}
TimerInv == \/ jobs = {lt_job} /\ Adding = {}
            \/ jobs = {} /\ \E h \in Thread : Adding = {h}

(* A step removes the job and puts its thread where it adds one, or adds the job
   and takes it away from there, or does neither. *)
TimerStep(h) ==
  \/ /\ lt_job \in jobs /\ jobs' = jobs \ {lt_job} /\ lt_job' = lt_job
     /\ h \notin Adding /\ Adding' = Adding \cup {h}
  \/ /\ h \in Adding /\ jobs' = jobs \cup {lt_job'} /\ Adding' = Adding \ {h}
  \/ UNCHANGED <<jobs, lt_job, Adding>>

LEMMA Others ==
  ASSUME TypeOK, NEW h \in Thread, Vote(h) \/ Reset(h) \/ AppendEntries(h) \/ Stand(h)
  PROVE  \A g \in Thread \ {h} : thread'[g] = thread[g]
<1> USE DEF TypeOK, Goto, Return, ResetAt, Begin, Reread
<1>1. CASE Vote(h)
  BY <1>1 DEF Vote, follower_request_vote, vote_set_term, vote_denied, vote_deserved,
     vote_recorded
<1>2. CASE Reset(h)
  BY <1>2 DEF Reset, reset_remove, reset_fails, reset_add, Removed
<1>3. CASE AppendEntries(h)
  BY <1>3 DEF AppendEntries, follower_append_entries, append_set_term, append_reread,
     append_remove, append_reset_fails, append_add, append_returned, append_stored,
     append_committing, append_done, append_committed, Removed
<1>4. CASE Stand(h)
  BY <1>4 DEF Stand, candidate_request_vote, stand_set_term, stand_reread, stand_vote,
     election_refused, refused_remove, refused_fails, election_won, election_over, Removed
<1> QED
  BY <1>1, <1>2, <1>3, <1>4

(* Where a thread is before and after a step, and what it holds then. *)
LEMMA Moves ==
  ASSUME TypeOK, NEW h \in Thread, NEW t
  PROVE  LET s == thread[h]
             s1 == thread'[h]
         IN
           /\ vote_set_term(h) => s.pc = "vote" /\ s1.pc = "newer" /\ s1 =
                [s EXCEPT !.pc = "newer"]
           /\ vote_denied(h) => s.pc \in {"vote", "newer"} /\ s1.pc = "idle" /\ s1 =
                Idle
           /\ vote_deserved(h) => s.pc \in {"vote", "newer"} /\ s1.pc = "grant" /\ s1 =
                [s EXCEPT !.pc = "grant"]
           /\ vote_recorded(h) => s.pc = "grant" /\ s1.pc = "reset" /\ s1 =
                [Idle EXCEPT !.pc = "reset", !.job = lt_job]
           /\ reset_remove(h) => s.pc = "reset" /\ s1.pc = "add" /\ s1 =
                [s EXCEPT !.pc = "add", !.job = Nil]
           /\ reset_fails(h) => s.pc = "reset" /\ s1.pc = "idle" /\ s1 =
                Idle
           /\ reset_add(h) => s.pc = "add" /\ s1.pc = "idle" /\ s1 =
                Idle
           /\ append_set_term(h) => s.pc = "append" /\ s1.pc = "adopted" /\ s1 =
                [s EXCEPT !.pc = "adopted"]
           /\ append_reread(h) => s.pc = "adopted" /\ s1.pc = "append_reset" /\ s1 =
                [s EXCEPT !.pc = "append_reset", !.seen = Read, !.job = lt_job]
           /\ append_remove(h) => s.pc = "append_reset" /\ s1.pc = "append_add" /\ s1 =
                [s EXCEPT !.pc = "append_add", !.job = Nil]
           /\ append_reset_fails(h) => s.pc = "append_reset" /\ s1.pc = "idle" /\ s1 =
                Idle
           /\ append_add(h) => s.pc = "append_add" /\ s1.pc = "current" /\ s1 =
                [s EXCEPT !.pc = "current"]
           /\ append_returned(h) => s.pc \in {"append", "current"} /\ s1.pc = "idle" /\ s1 =
                Idle
           /\ append_committing(h) => s.pc = "stored" /\ s1.pc = "apply" /\ s1 =
                [s EXCEPT !.pc = "apply", !.req = Nil, !.to = Commit(h)]
           /\ append_done(h) => s.pc = "stored" /\ s1.pc = "idle" /\ s1 =
                Idle
           /\ append_committed(h) => s.pc = "apply" /\ s1.pc = "idle" /\ s1 =
                Idle
           /\ stand_set_term(h) => s.pc = "stand" /\ s1.pc = "stood" /\ s1 =
                [s EXCEPT !.pc = "stood"]
           /\ stand_reread(h) => s.pc = "stood" /\ s1.pc = "vote_self" /\ s1 =
                [s EXCEPT !.pc = "vote_self", !.seen = Read, !.job = Nil]
           /\ stand_vote(h) => s.pc = "vote_self" /\ s1.pc = "asked" /\ s1 =
                [s EXCEPT !.pc = "asked"]
           /\ election_refused(h, t) => s.pc = "asked" /\ s1.pc = "refused" /\ s1 =
                [s EXCEPT !.pc = "refused", !.job = lt_job]
           /\ refused_remove(h) => s.pc = "refused" /\ s1.pc = "add" /\ s1 =
                [s EXCEPT !.pc = "add", !.job = Nil]
           /\ refused_fails(h) => s.pc = "refused" /\ s1.pc = "asked" /\ s1 =
                [s EXCEPT !.pc = "asked", !.job = Nil]
           /\ election_won(h) => s.pc = "asked" /\ s1.pc = "idle" /\ s1 =
                Idle
           /\ election_over(h) => s.pc = "asked" /\ s1.pc = "reset" /\ s1 =
                [Idle EXCEPT !.pc = "reset", !.job = lt_job]
<1> USE DEF Is, Idle
<1> DEFINE s == thread[h]
           s1 == thread'[h]
<1>0. thread \in [Thread -> ThreadState] /\ thread[h] \in ThreadState
  BY DEF TypeOK
<1>1. vote_set_term(h) => s.pc = "vote" /\ s1.pc = "newer" /\ s1 =
        [s EXCEPT !.pc = "newer"]
  BY <1>0 DEF vote_set_term, Goto, ThreadState
<1>2. vote_denied(h) => s.pc \in {"vote", "newer"} /\ s1.pc = "idle" /\ s1 =
        Idle
  BY <1>0 DEF vote_denied, Compared, Return, ThreadState
<1>3. vote_deserved(h) => s.pc \in {"vote", "newer"} /\ s1.pc = "grant" /\ s1 =
        [s EXCEPT !.pc = "grant"]
  BY <1>0 DEF vote_deserved, Compared, Goto, ThreadState
<1>4. vote_recorded(h) => s.pc = "grant" /\ s1.pc = "reset" /\ s1 =
        [Idle EXCEPT !.pc = "reset", !.job = lt_job]
  BY <1>0 DEF vote_recorded, ResetAt, ThreadState
<1>5. reset_remove(h) => s.pc = "reset" /\ s1.pc = "add" /\ s1 =
        [s EXCEPT !.pc = "add", !.job = Nil]
  BY <1>0 DEF reset_remove, Removed, ThreadState
<1>6. reset_fails(h) => s.pc = "reset" /\ s1.pc = "idle" /\ s1 =
        Idle
  BY <1>0 DEF reset_fails, JobLookupError, Return, ThreadState
<1>7. reset_add(h) => s.pc = "add" /\ s1.pc = "idle" /\ s1 =
        Idle
  BY <1>0 DEF reset_add, Added, Return, ThreadState
<1>8. append_set_term(h) => s.pc = "append" /\ s1.pc = "adopted" /\ s1 =
        [s EXCEPT !.pc = "adopted"]
  BY <1>0 DEF append_set_term, Goto, ThreadState
<1>9. append_reread(h) => s.pc = "adopted" /\ s1.pc = "append_reset" /\ s1 =
        [s EXCEPT !.pc = "append_reset", !.seen = Read, !.job = lt_job]
  BY <1>0 DEF append_reread, Reread, ThreadState
<1>10. append_remove(h) => s.pc = "append_reset" /\ s1.pc = "append_add" /\ s1 =
        [s EXCEPT !.pc = "append_add", !.job = Nil]
  BY <1>0 DEF append_remove, Removed, ThreadState
<1>11. append_reset_fails(h) => s.pc = "append_reset" /\ s1.pc = "idle" /\ s1 =
        Idle
  BY <1>0 DEF append_reset_fails, JobLookupError, Return, ThreadState
<1>12. append_add(h) => s.pc = "append_add" /\ s1.pc = "current" /\ s1 =
        [s EXCEPT !.pc = "current"]
  BY <1>0 DEF append_add, Added, Goto, ThreadState
<1>13. append_returned(h) => s.pc \in {"append", "current"} /\ s1.pc = "idle" /\ s1 =
        Idle
  BY <1>0 DEF append_returned, Current, Return, ThreadState
<1>14. append_committing(h) => s.pc = "stored" /\ s1.pc = "apply" /\ s1 =
        [s EXCEPT !.pc = "apply", !.req = Nil, !.to = Commit(h)]
  BY <1>0 DEF append_committing, ThreadState
<1>15. append_done(h) => s.pc = "stored" /\ s1.pc = "idle" /\ s1 =
        Idle
  BY <1>0 DEF append_done, Return, ThreadState
<1>16. append_committed(h) => s.pc = "apply" /\ s1.pc = "idle" /\ s1 =
        Idle
  BY <1>0 DEF append_committed, Return, ThreadState
<1>17. stand_set_term(h) => s.pc = "stand" /\ s1.pc = "stood" /\ s1 =
        [s EXCEPT !.pc = "stood"]
  BY <1>0 DEF stand_set_term, Goto, ThreadState
<1>18. stand_reread(h) => s.pc = "stood" /\ s1.pc = "vote_self" /\ s1 =
        [s EXCEPT !.pc = "vote_self", !.seen = Read, !.job = Nil]
  BY <1>0 DEF stand_reread, Reread, ThreadState
<1>19. stand_vote(h) => s.pc = "vote_self" /\ s1.pc = "asked" /\ s1 =
        [s EXCEPT !.pc = "asked"]
  BY <1>0 DEF stand_vote, Goto, ThreadState
<1>20. election_refused(h, t) => s.pc = "asked" /\ s1.pc = "refused" /\ s1 =
        [s EXCEPT !.pc = "refused", !.job = lt_job]
  BY <1>0 DEF election_refused, ThreadState
<1>21. refused_remove(h) => s.pc = "refused" /\ s1.pc = "add" /\ s1 =
        [s EXCEPT !.pc = "add", !.job = Nil]
  BY <1>0 DEF refused_remove, Removed, ThreadState
<1>22. refused_fails(h) => s.pc = "refused" /\ s1.pc = "asked" /\ s1 =
        [s EXCEPT !.pc = "asked", !.job = Nil]
  BY <1>0 DEF refused_fails, JobLookupError, ThreadState
<1>23. election_won(h) => s.pc = "asked" /\ s1.pc = "idle" /\ s1 =
        Idle
  BY <1>0 DEF election_won, Return, ThreadState
<1>24. election_over(h) => s.pc = "asked" /\ s1.pc = "reset" /\ s1 =
        [Idle EXCEPT !.pc = "reset", !.job = lt_job]
  BY <1>0 DEF election_over, ResetAt, ThreadState
<1> QED
  BY <1>1, <1>2, <1>3, <1>4, <1>5, <1>6, <1>7, <1>8, <1>9, <1>10, <1>11, <1>12, <1>13,
     <1>14, <1>15, <1>16, <1>17, <1>18, <1>19, <1>20, <1>21, <1>22, <1>23, <1>24

LEMMA BeginMoves ==
  ASSUME TypeOK, NEW h \in Thread, NEW pc, NEW m, Begin(h, pc, m)
  PROVE  /\ thread[h].pc = "idle" /\ thread'[h].pc = pc
         /\ UNCHANGED <<jobs, lt_job>>
BY DEF Begin, Is, TypeOK, Idle, timer

LEMMA BeginHolds ==
  ASSUME TypeOK, NEW h \in Thread, NEW pc, NEW m, Begin(h, pc, m)
  PROVE  thread'[h].req = m /\ thread'[h].seen = Read
BY DEF Begin, TypeOK, Idle

LEMMA Rereads ==
  ASSUME TypeOK, NEW h \in Thread, NEW from, NEW pc, NEW job, Reread(h, from, pc, job)
  PROVE  thread'[h].seen = Read
BY DEF Reread, TypeOK, ThreadState

LEMMA StoredMoves ==
  ASSUME TypeOK, NEW h \in Thread, append_stored(h)
  PROVE  LET last == IF Req(h).prev = Req(h).last THEN Seen(h).idx ELSE Req(h).last
         IN  /\ thread[h].pc \in {"append", "current"} /\ thread'[h].pc = "stored"
             /\ thread'[h] = [thread[h] EXCEPT !.pc = "stored", !.seen = Nil, !.to = last]
BY DEF append_stored, Current, Is, TypeOK, ThreadState

LEMMA Joins ==
  ASSUME TypeOK, NEW h \in Thread, \A g \in Thread \ {h} : thread'[g] = thread[g]
  PROVE  Adding' = IF thread'[h].pc \in {"add", "append_add"}
                   THEN Adding \cup {h} ELSE Adding \ {h}
BY DEF Adding

(* A step that comes from and goes to other statements than these two, and leaves
   the jobs alone. *)
Elsewhere(h) ==
  /\ thread[h].pc \notin {"add", "append_add"} /\ thread'[h].pc \notin {"add", "append_add"}
  /\ UNCHANGED <<jobs, lt_job>>

LEMMA TimerSteps ==
  ASSUME TypeOK, NEW h \in Thread, Vote(h) \/ Reset(h) \/ AppendEntries(h) \/ Stand(h)
  PROVE  TimerStep(h)
<1> USE DEF Is, timer
<1>0. \A g \in Thread \ {h} : thread'[g] = thread[g]
  BY Others
<1>1. \/ thread[h].pc \in {"add", "append_add"} /\ h \in Adding
      \/ thread[h].pc \notin {"add", "append_add"} /\ h \notin Adding
  BY DEF Adding
<1>2. Adding' = IF thread'[h].pc \in {"add", "append_add"} THEN Adding \cup {h} ELSE Adding \ {h}
  BY <1>0, Joins
<1>3. ASSUME Elsewhere(h) PROVE TimerStep(h)
  BY <1>1, <1>2, <1>3 DEF TimerStep, Elsewhere
<1>4. CASE Vote(h)
  <2>1. Elsewhere(h)
    <3>1. ASSUME NEW m \in VoteRequest, follower_request_vote(h, m) PROVE Elsewhere(h)
      <4>1. Begin(h, "vote", m)
        BY <3>1 DEF follower_request_vote
      <4> QED
        BY <4>1, BeginMoves DEF Elsewhere
    <3>2. CASE vote_set_term(h)
      BY <3>2, Moves DEF vote_set_term, set_term, Elsewhere
    <3>3. CASE vote_denied(h)
      BY <3>3, Moves DEF vote_denied, Elsewhere
    <3>4. CASE vote_deserved(h)
      BY <3>4, Moves DEF vote_deserved, Elsewhere
    <3>5. CASE vote_recorded(h)
      BY <3>5, Moves DEF vote_recorded, set_voted_for, Elsewhere
    <3> QED
      BY <1>4, <3>1, <3>2, <3>3, <3>4, <3>5 DEF Vote
  <2> QED
    BY <1>3, <2>1
<1>5. CASE Reset(h)
  <2>1. CASE reset_remove(h)
    <3>1. thread'[h].pc = "add"
      BY <2>1, Moves
    <3> QED
      BY <1>1, <2>1, <3>1, <1>2 DEF reset_remove, Removed, TimerStep
  <2>2. CASE reset_fails(h)
    <3>1. thread'[h].pc = "idle"
      BY <2>2, Moves
    <3> QED
      BY <1>1, <2>2, <3>1, <1>2 DEF reset_fails, JobLookupError, TimerStep
  <2>3. CASE reset_add(h)
    <3>1. thread'[h].pc = "idle"
      BY <2>3, Moves
    <3> QED
      BY <1>1, <2>3, <3>1, <1>2 DEF reset_add, Added, TimerStep
  <2> QED
    BY <1>5, <2>1, <2>2, <2>3 DEF Reset
<1>6. CASE AppendEntries(h)
  <2>1. CASE append_remove(h)
    <3>1. thread'[h].pc = "append_add"
      BY <2>1, Moves
    <3> QED
      BY <1>1, <2>1, <3>1, <1>2 DEF append_remove, Removed, TimerStep
  <2>2. CASE append_add(h)
    <3>1. thread'[h].pc = "current"
      BY <2>2, Moves
    <3> QED
      BY <1>1, <2>2, <3>1, <1>2 DEF append_add, Added, TimerStep
  <2>3. CASE append_reset_fails(h)
    <3>1. thread'[h].pc = "idle"
      BY <2>3, Moves
    <3> QED
      BY <1>1, <2>3, <3>1, <1>2 DEF append_reset_fails, JobLookupError, TimerStep
  <2>4. CASE \/ \E m \in AppendRequest : follower_append_entries(h, m)
             \/ append_set_term(h) \/ append_reread(h) \/ append_returned(h)
             \/ append_stored(h) \/ append_committing(h) \/ append_done(h)
             \/ append_committed(h)
    <3>1. Elsewhere(h)
      <4>1. ASSUME NEW m \in AppendRequest, follower_append_entries(h, m) PROVE Elsewhere(h)
        <5>1. Begin(h, "append", m)
          BY <4>1 DEF follower_append_entries
        <5> QED
          BY <5>1, BeginMoves DEF Elsewhere
      <4>2. CASE append_set_term(h)
        BY <4>2, Moves DEF append_set_term, set_term, Elsewhere
      <4>3. CASE append_reread(h)
        BY <4>3, Moves DEF append_reread, Reread, Elsewhere
      <4>4. CASE append_returned(h)
        BY <4>4, Moves DEF append_returned, Elsewhere
      <4>5. CASE append_stored(h)
        BY <4>5, StoredMoves DEF append_stored, Elsewhere
      <4>6. CASE append_committing(h)
        BY <4>6, Moves DEF append_committing, Elsewhere
      <4>7. CASE append_done(h)
        BY <4>7, Moves DEF append_done, Elsewhere
      <4>8. CASE append_committed(h)
        BY <4>8, Moves DEF append_committed, Elsewhere
      <4> QED
        BY <2>4, <4>1, <4>2, <4>3, <4>4, <4>5, <4>6, <4>7, <4>8
    <3> QED
      BY <1>3, <3>1
  <2> QED
    BY <1>6, <2>1, <2>2, <2>3, <2>4 DEF AppendEntries
<1>7. CASE Stand(h)
  <2>1. CASE refused_remove(h)
    <3>1. thread'[h].pc = "add"
      BY <2>1, Moves
    <3> QED
      BY <1>1, <2>1, <3>1, <1>2 DEF refused_remove, Removed, TimerStep
  <2>2. CASE refused_fails(h)
    <3>1. thread'[h].pc = "asked"
      BY <2>2, Moves
    <3> QED
      BY <1>1, <2>2, <3>1, <1>2 DEF refused_fails, JobLookupError, TimerStep
  <2>3. CASE \/ candidate_request_vote(h) \/ stand_set_term(h) \/ stand_reread(h)
             \/ stand_vote(h) \/ \E t \in Term : election_refused(h, t)
             \/ election_won(h) \/ election_over(h)
    <3>1. Elsewhere(h)
      <4>1. CASE candidate_request_vote(h)
        <5>1. Begin(h, "stand", Nil)
          BY <4>1 DEF candidate_request_vote
        <5> QED
          BY <5>1, BeginMoves DEF Elsewhere
      <4>2. CASE stand_set_term(h)
        BY <4>2, Moves DEF stand_set_term, set_term, Elsewhere
      <4>3. CASE stand_reread(h)
        BY <4>3, Moves DEF stand_reread, Reread, Elsewhere
      <4>4. CASE stand_vote(h)
        BY <4>4, Moves DEF stand_vote, set_voted_for, Elsewhere
      <4>5. CASE \E t \in Term : election_refused(h, t)
        BY <4>5, Moves DEF election_refused, set_term, Elsewhere
      <4>6. CASE election_won(h)
        BY <4>6, Moves DEF election_won, Elsewhere
      <4>7. CASE election_over(h)
        BY <4>7, Moves DEF election_over, Elsewhere
      <4> QED
        BY <2>3, <4>1, <4>2, <4>3, <4>4, <4>5, <4>6, <4>7
    <3> QED
      BY <1>3, <3>1
  <2> QED
    BY <1>7, <2>1, <2>2, <2>3 DEF Stand
<1> QED
  BY <1>4, <1>5, <1>6, <1>7

LEMMA TimerInvStep == TypeOK /\ TimerInv /\ [Next]_vars => TimerInv'
<1> SUFFICES ASSUME TypeOK, TimerInv, [Next]_vars PROVE TimerInv'
  OBVIOUS
<1>1. CASE UNCHANGED vars
  BY <1>1 DEF vars, timer, TimerInv, Adding
<1>2. ASSUME NEW h \in Thread, TimerStep(h) PROVE TimerInv'
  BY <1>2 DEF TimerStep, TimerInv
<1>3. CASE restart
  BY <1>3 DEF restart, TimerInv, Adding, Idle
<1> QED
  BY <1>1, <1>2, <1>3, TimerSteps DEF Next, Step

(* ElectionTimerKept: the job is removed once before it is added once. *)
THEOREM TimerKept == Spec => []ElectionTimerKept
<1>1. Init => TimerInv
  BY DEF Init, TimerInv, Adding, Idle
<1>2. TypeOK /\ TimerInv /\ [Next]_vars => TimerInv'
  BY TimerInvStep
<1>3. TimerInv => ElectionTimerKept
  BY DEF TimerInv, Adding, ElectionTimerKept
<1> QED
  BY <1>1, <1>2, <1>3, TypeCorrect, PTL DEF Spec

-----------------------------------------------------------------------------
(* The log. *)

Stored(k) == k = 0 \/ k \in raft_logs
LogHeld(s) ==
  /\ s.pc \in {"append", "append_reset", "append_add", "current"} => Stored(s.seen.idx)
  /\ s.pc \in {"stored", "apply"} => Stored(s.to)
LogInv ==
  /\ \A k \in raft_logs : 1..k \subseteq raft_logs
  /\ Stored(idx) /\ Stored(committed_index)
  /\ \A h \in Thread : LogHeld(thread[h])

(* A step that leaves the log alone and goes where a thread holds no index of it. *)
Quiet(h) ==
  /\ UNCHANGED log
  /\ thread'[h].pc \notin {"append", "append_reset", "append_add", "current", "stored", "apply"}

(* A step of the log: rows are added, each below another, and the indices are of
   rows. *)
LogStep(h) ==
  /\ raft_logs \subseteq raft_logs'
  /\ \A k \in raft_logs' : 1..k \subseteq raft_logs'
  /\ Stored(idx)' /\ Stored(committed_index)'
  /\ LogHeld(thread[h])'

LEMMA LogKept ==
  ASSUME LogInv, NEW h \in Thread, LogStep(h), \A g \in Thread \ {h} : thread'[g] = thread[g]
  PROVE  LogInv'
<1>1. ASSUME NEW g \in Thread PROVE LogHeld(thread[g])'
  <2>1. CASE g = h
    BY <2>1 DEF LogStep
  <2>2. CASE g # h
    BY <2>2 DEF LogInv, LogStep, LogHeld, Stored
  <2> QED
    BY <2>1, <2>2
<1> QED
  BY <1>1 DEF LogInv, LogStep

LEMMA QuietSteps ==
  ASSUME TypeOK, LogInv, NEW h \in Thread, Quiet(h)
  PROVE  LogStep(h)
BY DEF Quiet, LogStep, LogInv, LogHeld, Stored, log

LEMMA VoteLog ==
  ASSUME TypeOK, LogInv, NEW h \in Thread, Vote(h)
  PROVE  LogStep(h)
<1>1. ASSUME NEW m \in VoteRequest, follower_request_vote(h, m) PROVE LogStep(h)
  <2>1. Begin(h, "vote", m)
    BY <1>1 DEF follower_request_vote
  <2>2. thread'[h].pc = "vote" /\ UNCHANGED log
    BY <2>1, BeginMoves DEF Begin
  <2> QED
    BY <2>2, QuietSteps DEF Quiet
<1>2. CASE vote_set_term(h) \/ vote_denied(h) \/ vote_deserved(h) \/ vote_recorded(h)
  <2> SUFFICES Quiet(h)
    BY QuietSteps
  <2>1. CASE vote_set_term(h)
    BY <2>1, Moves DEF vote_set_term, set_term, Quiet
  <2>2. CASE vote_denied(h)
    BY <2>2, Moves DEF vote_denied, Quiet
  <2>3. CASE vote_deserved(h)
    BY <2>3, Moves DEF vote_deserved, Quiet
  <2>4. CASE vote_recorded(h)
    BY <2>4, Moves DEF vote_recorded, set_voted_for, Quiet
  <2> QED
    BY <1>2, <2>1, <2>2, <2>3, <2>4
<1> QED
  BY <1>1, <1>2 DEF Vote

LEMMA ResetLog ==
  ASSUME TypeOK, LogInv, NEW h \in Thread, Reset(h)
  PROVE  LogStep(h)
<1> SUFFICES Quiet(h)
  BY QuietSteps
<1>1. CASE reset_remove(h)
  BY <1>1, Moves DEF reset_remove, Removed, Quiet
<1>2. CASE reset_fails(h)
  BY <1>2, Moves DEF reset_fails, JobLookupError, Quiet
<1>3. CASE reset_add(h)
  BY <1>3, Moves DEF reset_add, Added, Quiet
<1> QED
  BY <1>1, <1>2, <1>3 DEF Reset

LEMMA StandLog ==
  ASSUME TypeOK, LogInv, NEW h \in Thread, Stand(h)
  PROVE  LogStep(h)
<1> SUFFICES Quiet(h)
  BY QuietSteps
<1>1. CASE stand_set_term(h)
  BY <1>1, Moves DEF stand_set_term, set_term, Quiet
<1>2. CASE stand_reread(h)
  BY <1>2, Moves DEF stand_reread, Reread, Quiet
<1>3. CASE stand_vote(h)
  BY <1>3, Moves DEF stand_vote, set_voted_for, Quiet
<1>4. CASE \E t \in Term : election_refused(h, t)
  BY <1>4, Moves DEF election_refused, set_term, Quiet
<1>5. CASE refused_remove(h)
  BY <1>5, Moves DEF refused_remove, Removed, Quiet
<1>6. CASE refused_fails(h)
  BY <1>6, Moves DEF refused_fails, JobLookupError, Quiet
<1>7. CASE election_won(h)
  BY <1>7, Moves DEF election_won, Quiet
<1>8. CASE election_over(h)
  BY <1>8, Moves DEF election_over, Quiet
<1>9. CASE candidate_request_vote(h)
  <2>1. Begin(h, "stand", Nil)
    BY <1>9 DEF candidate_request_vote
  <2>2. thread'[h].pc = "stand" /\ UNCHANGED log
    BY <2>1, BeginMoves DEF Begin
  <2> QED
    BY <2>2 DEF Quiet
<1> QED
  BY <1>1, <1>2, <1>3, <1>4, <1>5, <1>6, <1>7, <1>8, <1>9 DEF Stand

LEMMA AppendLog ==
  ASSUME TypeOK, ThreadsHold, LogInv, NEW h \in Thread, AppendEntries(h)
  PROVE  LogStep(h)
<1> USE DEF LogStep, LogInv, LogHeld, Stored, log
<1>0. LogHeld(thread[h]) /\ Held(thread[h]) /\ thread[h] \in ThreadState
  BY DEF TypeOK, ThreadsHold
<1>1. ASSUME NEW m \in AppendRequest, follower_append_entries(h, m) PROVE LogStep(h)
  <2>1. Begin(h, "append", m)
    BY <1>1 DEF follower_append_entries
  <2>2. thread'[h].pc = "append" /\ UNCHANGED log
    BY <2>1, BeginMoves DEF Begin
  <2>3. thread'[h].seen = Read
    BY <2>1, BeginHolds
  <2>4. thread'[h].seen.idx = idx
    BY <2>3 DEF Read
  <2> QED
    BY <2>2, <2>4
<1>2. CASE append_set_term(h) \/ append_reset_fails(h) \/ append_returned(h) \/ append_done(h)
  <2> SUFFICES Quiet(h)
    BY QuietSteps
  <2>1. CASE append_set_term(h)
    BY <2>1, Moves DEF append_set_term, set_term, Quiet
  <2>2. CASE append_reset_fails(h)
    BY <2>2, Moves DEF append_reset_fails, JobLookupError, Quiet
  <2>3. CASE append_returned(h)
    BY <2>3, Moves DEF append_returned, Quiet
  <2>4. CASE append_done(h)
    BY <2>4, Moves DEF append_done, Quiet
  <2> QED
    BY <1>2, <2>1, <2>2, <2>3, <2>4
<1>3. CASE append_reread(h)
  <2>1. thread'[h].pc = "append_reset"
    BY <1>3, Moves
  <2>2. thread'[h].seen = Read /\ UNCHANGED log
    BY <1>3, Rereads DEF append_reread, Reread
  <2>3. thread'[h].seen.idx = idx
    BY <2>2 DEF Read
  <2> QED
    BY <2>1, <2>2, <2>3
<1>4. CASE append_remove(h)
  <2>1. /\ thread[h].pc = "append_reset" /\ thread'[h].pc = "append_add"
        /\ thread'[h].seen = thread[h].seen
    BY <1>0, <1>4, Moves DEF ThreadState
  <2>2. UNCHANGED log
    BY <1>4 DEF append_remove, Removed
  <2> QED
    BY <1>0, <2>1, <2>2
<1>5. CASE append_add(h)
  <2>1. /\ thread[h].pc = "append_add" /\ thread'[h].pc = "current"
        /\ thread'[h].seen = thread[h].seen
    BY <1>0, <1>5, Moves DEF ThreadState
  <2>2. UNCHANGED log
    BY <1>5 DEF append_add, Added
  <2> QED
    BY <1>0, <2>1, <2>2
<1>6. CASE append_stored(h)
  <2> DEFINE p == Req(h).prev
             q == Req(h).last
             last == IF p = q THEN Seen(h).idx ELSE q
  <2>1. thread[h].pc \in {"append", "current"} /\ thread'[h].pc = "stored" /\ thread'[h].to = last
    BY <1>0, <1>6, StoredMoves DEF ThreadState
  <2>2. p \in Nat /\ q \in Nat /\ p <= q /\ q # 0 /\ (p = 0 \/ p \in raft_logs)
    BY <1>0, <1>6, <2>1, Bounds DEF append_stored, Consistent, Held, AppendRequest, Req
  <2>3. raft_logs' = raft_logs \cup (p + 1)..q /\ idx' = NewIdx(h, last)
        /\ committed_index' = committed_index
    BY <1>6 DEF append_stored
  <2>4. Stored(Seen(h).idx)
    BY <1>0, <2>1 DEF Seen
  <2> HIDE DEF p, q
  <2>5. 1..p \subseteq raft_logs
    BY <2>2
  <2>6. ASSUME NEW k \in raft_logs' PROVE 1..k \subseteq raft_logs'
    <3>1. CASE k \in raft_logs
      BY <2>3, <3>1
    <3>2. CASE k \in (p + 1)..q
      <4>1. 1..k \subseteq 1..p \cup (p + 1)..q
        BY <2>2, <3>2
      <4> QED
        BY <2>3, <2>5, <4>1
    <3> QED
      BY <2>3, <3>1, <3>2
  <2>7. last = 0 \/ last \in raft_logs'
    <3>1. CASE p = q
      BY <2>3, <2>4, <3>1
    <3>2. CASE p # q
      BY <2>2, <2>3, <3>2
    <3> QED
      BY <3>1, <3>2
  <2> HIDE DEF last
  <2>8. Stored(idx)' /\ Stored(committed_index)'
    BY <2>3, <2>7 DEF NewIdx
  <2>9. LogHeld(thread[h])'
    BY <2>1, <2>7
  <2> QED
    BY <2>3, <2>6, <2>8, <2>9
<1>7. CASE append_committing(h)
  <2>1. thread[h].pc = "stored" /\ thread'[h].pc = "apply" /\ thread'[h].to = Commit(h)
    BY <1>0, <1>7, Moves DEF ThreadState
  <2>2. Req(h).commit \in Nat /\ thread[h].to \in Nat
    BY <1>0, <2>1, Bounds DEF Held, AppendRequest, Req, ThreadState
  <2>3. Stored(Commit(h))
    <3>1. CASE Req(h).commit < thread[h].to
      <4>1. Req(h).commit \in 1..thread[h].to \/ Req(h).commit = 0
        BY <2>2, <3>1
      <4>2. 1..thread[h].to \subseteq raft_logs
        BY <1>0, <2>1, <2>2, <3>1
      <4> QED
        BY <3>1, <4>1, <4>2 DEF Commit
    <3>2. CASE ~(Req(h).commit < thread[h].to)
      BY <1>0, <2>1, <3>2 DEF Commit
    <3> QED
      BY <3>1, <3>2
  <2>4. UNCHANGED log
    BY <1>7 DEF append_committing
  <2> QED
    BY <2>1, <2>3, <2>4
<1>8. CASE append_committed(h)
  <2>1. thread[h].pc = "apply" /\ thread'[h].pc = "idle"
    BY <1>8, Moves
  <2>2. committed_index' = thread[h].to /\ idx' = idx /\ raft_logs' = raft_logs
    BY <1>8 DEF append_committed
  <2> QED
    BY <1>0, <2>1, <2>2
<1> QED
  BY <1>1, <1>2, <1>3, <1>4, <1>5, <1>6, <1>7, <1>8 DEF AppendEntries

LEMMA LogInvStep == TypeOK /\ ThreadsHold /\ LogInv /\ [Next]_vars => LogInv'
<1> SUFFICES ASSUME TypeOK, ThreadsHold, LogInv, [Next]_vars PROVE LogInv'
  OBVIOUS
<1>1. CASE UNCHANGED vars
  BY <1>1 DEF vars, log, LogInv, LogHeld, Stored
<1>2. ASSUME NEW h \in Thread, Vote(h) \/ Reset(h) \/ AppendEntries(h) \/ Stand(h)
      PROVE  LogInv'
  BY <1>2, VoteLog, ResetLog, StandLog, AppendLog, Others, LogKept
<1>3. CASE restart
  BY <1>3 DEF restart, LogInv, LogHeld, Stored, Idle
<1> QED
  BY <1>1, <1>2, <1>3 DEF Next, Step

(* CommittedIsStored: rows have no gaps below them, and an index a handler has read
   or written is that of a row, or zero. *)
THEOREM CommitsAreStored == Spec => []CommittedIsStored
<1>1. Init => TypeOK /\ ThreadsHold /\ LogInv
  BY InitType DEF Init, LogInv, LogHeld, Stored, Idle
<1>2. TypeOK /\ ThreadsHold /\ LogInv /\ [Next]_vars => TypeOK' /\ ThreadsHold' /\ LogInv'
  BY TypeStep, LogInvStep
<1>3. TypeOK /\ LogInv => CommittedIsStored
  BY DEF TypeOK, LogInv, Stored, CommittedIsStored
<1> QED
  BY <1>1, <1>2, <1>3, PTL DEF Spec

-----------------------------------------------------------------------------
(* The row. *)

(* A vote is only deserved by what the thread has read. *)
RowHeld(s) ==
  /\ s.pc = "newer" => s.req.term > s.seen.term
  /\ s.pc = "grant" => s.req.term >= s.seen.term /\ s.seen.voted_for \in {Nil, s.req.from}

(* The votes cast are of terms the row has passed, and the one of its term is in it. *)
VotesKept ==
  \A t \in Term, c \in Node :
    <<self, t, c>> \in grants => t <= term /\ (t = term => voted_for = c)

FreshInv ==
  /\ \A h \in Thread : RowHeld(thread[h])
  /\ ~stale => /\ \A h \in Thread : UpToDate(h)
               /\ \A h \in Thread : thread[h].pc = "vote_self" => thread[h].seen.voted_for = Nil
               /\ \A k \in raft_logs : k <= idx
               /\ VotesKept

(* A step writes nothing to the row, or a term, or a vote: a higher term and the one
   vote, unless a thread was stale. *)
Raises == \E t \in Term : /\ term' = t /\ voted_for' = Nil /\ grants' = grants
                          /\ stale \/ t > term
Votes == \E t \in Term, c \in Node :
           /\ voted_for' = c /\ term' = term /\ grants' = grants \cup {<<self, t, c>>}
           /\ stale \/ (t = term /\ voted_for \in {Nil, c})
RowStep == UNCHANGED <<term, voted_for, grants>> \/ Raises \/ Votes

(* What a step of thread h has to keep for the invariant. *)
FreshStep(h) ==
  /\ RowStep /\ RowHeld(thread'[h])
  /\ ~stale => /\ thread'[h].pc = "vote_self" => thread'[h].seen.voted_for = Nil
               /\ \A k \in raft_logs' : k <= idx'

LEMMA FreshKept ==
  ASSUME TypeOK, FreshInv, NEW h \in Thread, FreshStep(h),
         \A g \in Thread \ {h} : thread'[g] = thread[g],
         stale' = (stale \/ \E g \in Thread : ~UpToDate(g)')
  PROVE  FreshInv'
<1>1. ASSUME NEW g \in Thread PROVE RowHeld(thread'[g])
  BY DEF FreshInv, FreshStep
<1>2. ASSUME ~stale'
      PROVE  /\ \A g \in Thread : UpToDate(g)'
             /\ \A g \in Thread : thread'[g].pc = "vote_self" => thread'[g].seen.voted_for = Nil
             /\ \A k \in raft_logs' : k <= idx'
             /\ VotesKept'
  <2>1. ~stale /\ \A g \in Thread : UpToDate(g)'
    BY <1>2
  <2>2. VotesKept
    BY <2>1 DEF FreshInv
  <2>3. VotesKept'
    <3>1. CASE UNCHANGED <<term, voted_for, grants>>
      BY <2>2, <3>1 DEF VotesKept
    <3>2. CASE Raises
      BY <2>1, <2>2, <3>2, Bounds DEF VotesKept, Raises, TypeOK
    <3>3. CASE Votes
      <4>1. PICK t \in Term, c \in Node :
              /\ voted_for' = c /\ term' = term /\ grants' = grants \cup {<<self, t, c>>}
              /\ t = term /\ voted_for \in {Nil, c}
        BY <2>1, <3>3 DEF Votes
      <4> QED
        BY <2>2, <4>1, Bounds, ThreadAssumption DEF VotesKept, TypeOK
    <3> QED
      BY <3>1, <3>2, <3>3 DEF FreshStep, RowStep
  <2>4. \A g \in Thread : thread'[g].pc = "vote_self" => thread'[g].seen.voted_for = Nil
    BY <2>1 DEF FreshInv, FreshStep
  <2> QED
    BY <2>1, <2>3, <2>4 DEF FreshStep
<1> QED
  BY <1>1, <1>2 DEF FreshInv

(* A step after which a thread holds no decision of a vote, and which writes nothing. *)
Idles(h) ==
  /\ thread'[h].pc \notin {"newer", "grant", "vote_self"}
  /\ UNCHANGED <<term, voted_for, grants, raft_logs, idx>>

LEMMA IdlesFresh ==
  ASSUME FreshInv, NEW h \in Thread, Idles(h)
  PROVE  FreshStep(h)
BY DEF Idles, FreshInv, FreshStep, RowStep, RowHeld

LEMMA BeginFresh ==
  ASSUME TypeOK, FreshInv, NEW h \in Thread, NEW pc \in {"vote", "append", "stand"}, NEW m,
         Begin(h, pc, m)
  PROVE  FreshStep(h)
<1>1. thread'[h].pc = pc
  BY BeginMoves
<1>2. UNCHANGED <<term, voted_for, grants, raft_logs, idx>>
  BY DEF Begin, row, log
<1> QED
  BY <1>1, <1>2, IdlesFresh DEF Idles

LEMMA VoteFresh ==
  ASSUME TypeOK, ThreadsHold, FreshInv, NEW h \in Thread, Vote(h)
  PROVE  FreshStep(h)
<1> USE DEF Req, Seen
<1>0. /\ thread[h] \in ThreadState /\ Held(thread[h]) /\ RowHeld(thread[h])
      /\ ~stale => UpToDate(h) /\ \A k \in raft_logs : k <= idx
  BY DEF TypeOK, ThreadsHold, FreshInv
<1>1. ASSUME NEW m \in VoteRequest, follower_request_vote(h, m) PROVE FreshStep(h)
  BY <1>1, BeginFresh DEF follower_request_vote
<1>2. CASE vote_set_term(h)
  <2>1. /\ thread[h].pc = "vote" /\ thread'[h].pc = "newer"
        /\ thread'[h].req = thread[h].req /\ thread'[h].seen = thread[h].seen
    BY <1>0, <1>2, Moves DEF ThreadState
  <2>2. /\ Req(h).term > Seen(h).term /\ Req(h).term \in Term
        /\ term' = Req(h).term /\ voted_for' = Nil /\ grants' = grants /\ UNCHANGED log
    BY <1>0, <1>2, <2>1 DEF vote_set_term, set_term, Held, VoteRequest
  <2>3. stale \/ term = Seen(h).term
    BY <1>0, <2>1 DEF UpToDate, Unchanged, RowIs, Is
  <2>4. Raises
    BY <2>2, <2>3 DEF Raises
  <2> QED
    BY <1>0, <2>1, <2>2, <2>4 DEF FreshStep, RowStep, RowHeld, log
<1>3. CASE vote_denied(h)
  <2>1. thread'[h].pc = "idle" /\ UNCHANGED <<row, log, grants>>
    BY <1>3, Moves DEF vote_denied
  <2> QED
    BY <2>1, IdlesFresh DEF Idles, row, log
<1>4. CASE vote_deserved(h)
  <2>1. /\ thread'[h].pc = "grant" /\ thread'[h].req = thread[h].req
        /\ thread'[h].seen = thread[h].seen
    BY <1>0, <1>4, Moves DEF ThreadState
  <2>2. Req(h).term >= Seen(h).term /\ Seen(h).voted_for \in {Nil, Req(h).from}
    <3>1. VoteFree(h) /\ Compared(h)
      BY <1>4 DEF vote_deserved
    <3>2. Req(h).term >= Seen(h).term
      <4>1. Req(h) \in VoteRequest /\ Seen(h) \in Row
        BY <1>0, <3>1 DEF Compared, Is, Held
      <4>2. Req(h).term \in Nat /\ Seen(h).term \in Nat
        BY <4>1, Bounds DEF VoteRequest, Row
      <4> QED
        BY <1>0, <3>1, <4>2 DEF Compared, Is, RowHeld
    <3> QED
      BY <3>1, <3>2 DEF VoteFree
  <2>3. UNCHANGED <<row, log, grants>>
    BY <1>4 DEF vote_deserved
  <2> QED
    BY <1>0, <2>1, <2>2, <2>3 DEF FreshStep, RowStep, RowHeld, row, log
<1>5. CASE vote_recorded(h)
  <2>1. thread[h].pc = "grant" /\ thread'[h].pc = "reset"
    BY <1>5, Moves
  <2>2. Req(h) \in VoteRequest /\ Seen(h) \in Row
    BY <1>0, <2>1 DEF Held
  <2>3. /\ Req(h).term \in Term /\ Req(h).from \in Node /\ Req(h).term \in Nat
        /\ Seen(h).term \in Nat
    BY <2>2, Bounds DEF VoteRequest, Peer, Row
  <2>4. /\ voted_for' = Req(h).from /\ grants' = grants \cup {<<self, Req(h).term, Req(h).from>>}
        /\ term' = term /\ UNCHANGED log
    BY <1>5 DEF vote_recorded, set_voted_for
  <2>5. stale \/ (Req(h).term = term /\ voted_for \in {Nil, Req(h).from})
    BY <1>0, <2>1, <2>3 DEF UpToDate, Unchanged, RowIs, RowHeld, Is
  <2>6. Votes
    BY <2>3, <2>4, <2>5 DEF Votes
  <2> QED
    BY <1>0, <2>1, <2>4, <2>6 DEF FreshStep, RowStep, RowHeld, log
<1> QED
  BY <1>1, <1>2, <1>3, <1>4, <1>5 DEF Vote

LEMMA ResetFresh ==
  ASSUME TypeOK, FreshInv, NEW h \in Thread, Reset(h)
  PROVE  FreshStep(h)
<1> SUFFICES Idles(h)
  BY IdlesFresh
<1> USE DEF Idles, row, log
<1>1. CASE reset_remove(h)
  BY <1>1, Moves DEF reset_remove, Removed
<1>2. CASE reset_fails(h)
  BY <1>2, Moves DEF reset_fails, JobLookupError
<1>3. CASE reset_add(h)
  BY <1>3, Moves DEF reset_add, Added
<1> QED
  BY <1>1, <1>2, <1>3 DEF Reset

LEMMA AppendFresh ==
  ASSUME TypeOK, ThreadsHold, FreshInv, NEW h \in Thread, AppendEntries(h)
  PROVE  FreshStep(h)
<1> USE DEF Req, Seen
<1>0. /\ thread[h] \in ThreadState /\ Held(thread[h]) /\ RowHeld(thread[h])
      /\ ~stale => UpToDate(h) /\ \A k \in raft_logs : k <= idx
  BY DEF TypeOK, ThreadsHold, FreshInv
<1>1. ASSUME NEW m \in AppendRequest, follower_append_entries(h, m) PROVE FreshStep(h)
  BY <1>1, BeginFresh DEF follower_append_entries
<1>2. CASE append_set_term(h)
  <2>1. thread[h].pc = "append" /\ thread'[h].pc = "adopted"
    BY <1>2, Moves
  <2>2. /\ Req(h).term > Seen(h).term /\ Req(h).term \in Term
        /\ term' = Req(h).term /\ voted_for' = Nil /\ grants' = grants /\ UNCHANGED log
    BY <1>0, <1>2, <2>1 DEF append_set_term, set_term, Held, AppendRequest
  <2>3. stale \/ term = Seen(h).term
    BY <1>0, <2>1 DEF UpToDate, Unchanged, RowIs, Is
  <2>4. Raises
    BY <2>2, <2>3 DEF Raises
  <2> QED
    BY <1>0, <2>1, <2>2, <2>4 DEF FreshStep, RowStep, RowHeld, log
<1>3. CASE \/ append_reread(h) \/ append_remove(h) \/ append_reset_fails(h) \/ append_add(h)
           \/ append_returned(h) \/ append_committing(h) \/ append_done(h)
           \/ append_committed(h)
  <2> SUFFICES Idles(h)
    BY IdlesFresh
  <2> USE DEF Idles, row, log
  <2>1. CASE append_reread(h)
    BY <2>1, Moves DEF append_reread, Reread
  <2>2. CASE append_remove(h)
    BY <2>2, Moves DEF append_remove, Removed
  <2>3. CASE append_reset_fails(h)
    BY <2>3, Moves DEF append_reset_fails, JobLookupError
  <2>4. CASE append_add(h)
    BY <2>4, Moves DEF append_add, Added
  <2>5. CASE append_returned(h)
    BY <2>5, Moves DEF append_returned
  <2>6. CASE append_committing(h)
    BY <2>6, Moves DEF append_committing
  <2>7. CASE append_done(h)
    BY <2>7, Moves DEF append_done
  <2>8. CASE append_committed(h)
    BY <2>8, Moves DEF append_committed
  <2> QED
    BY <1>3, <2>1, <2>2, <2>3, <2>4, <2>5, <2>6, <2>7, <2>8
<1>4. CASE append_stored(h)
  <2> DEFINE p == Req(h).prev
             q == Req(h).last
             last == IF p = q THEN Seen(h).idx ELSE q
  <2>1. thread[h].pc \in {"append", "current"} /\ thread'[h].pc = "stored"
    BY <1>4, StoredMoves
  <2>2. p \in Nat /\ q \in Nat /\ p <= q /\ idx \in Nat
    BY <1>0, <2>1, Bounds DEF Held, AppendRequest, TypeOK
  <2>3. /\ raft_logs' = raft_logs \cup (p + 1)..q /\ idx' = NewIdx(h, last)
        /\ UNCHANGED row /\ grants' = grants
    BY <1>4 DEF append_stored
  <2>4. stale \/ idx = Seen(h).idx
    BY <1>0, <2>1 DEF UpToDate, Is
  <2> HIDE DEF p, q
  <2>5. ASSUME ~stale, NEW k \in raft_logs' PROVE k <= idx'
    <3>1. idx' = IF p # q /\ q > idx THEN q ELSE idx
      BY <2>2, <2>3, <2>4, <2>5 DEF NewIdx
    <3>2. raft_logs \subseteq Nat /\ \A j \in raft_logs : j <= idx
      BY <1>0, <2>5, Bounds DEF TypeOK
    <3>3. CASE k \in raft_logs
      BY <2>2, <3>1, <3>2, <3>3
    <3>4. CASE k \in (p + 1)..q
      BY <2>2, <3>1, <3>4
    <3> QED
      BY <2>3, <2>5, <3>3, <3>4
  <2> QED
    BY <2>1, <2>3, <2>5 DEF FreshStep, RowStep, RowHeld, row
<1> QED
  BY <1>1, <1>2, <1>3, <1>4 DEF AppendEntries

LEMMA StandFresh ==
  ASSUME TypeOK, ThreadsHold, FreshInv, NEW h \in Thread, Stand(h)
  PROVE  FreshStep(h)
<1> USE DEF Req, Seen
<1>0. /\ thread[h] \in ThreadState /\ Held(thread[h]) /\ RowHeld(thread[h])
      /\ ~stale => /\ UpToDate(h) /\ \A k \in raft_logs : k <= idx
                   /\ thread[h].pc = "vote_self" => thread[h].seen.voted_for = Nil
  BY DEF TypeOK, ThreadsHold, FreshInv
<1>1. CASE candidate_request_vote(h)
  BY <1>1, BeginFresh DEF candidate_request_vote
<1>2. CASE stand_set_term(h)
  <2>1. thread[h].pc = "stand" /\ thread'[h].pc = "stood"
    BY <1>2, Moves
  <2>2. Seen(h).term + 1 \in Term /\ Seen(h).term \in Nat
    BY <1>0, <2>1, Bounds DEF Held, Row
  <2>3. term' = Seen(h).term + 1 /\ voted_for' = Nil /\ grants' = grants /\ UNCHANGED log
    BY <1>2 DEF stand_set_term, set_term
  <2>4. stale \/ term = Seen(h).term
    BY <1>0, <2>1 DEF UpToDate, Unchanged, RowIs, Is
  <2>5. Raises
    BY <2>2, <2>3, <2>4 DEF Raises
  <2> QED
    BY <1>0, <2>1, <2>3, <2>5 DEF FreshStep, RowStep, RowHeld, log
<1>3. CASE stand_reread(h)
  <2>1. thread[h].pc = "stood" /\ thread'[h].pc = "vote_self"
    BY <1>3, Moves
  <2>2. thread'[h].seen = Read /\ UNCHANGED <<row, log, grants>>
    BY <1>3, Rereads DEF stand_reread, Reread
  <2>3. thread'[h].seen.voted_for = voted_for
    BY <2>2 DEF Read
  <2>4. stale \/ voted_for = Nil
    BY <1>0, <2>1 DEF UpToDate, RowIs, Is
  <2> QED
    BY <1>0, <2>1, <2>2, <2>3, <2>4 DEF FreshStep, RowStep, RowHeld, row, log
<1>4. CASE stand_vote(h)
  <2>1. thread[h].pc = "vote_self" /\ thread'[h].pc = "asked"
    BY <1>4, Moves
  <2>2. Seen(h).term \in Term
    BY <1>0, <2>1 DEF Held, Row
  <2>3. /\ voted_for' = self /\ grants' = grants \cup {<<self, Seen(h).term, self>>}
        /\ term' = term /\ UNCHANGED log
    BY <1>4 DEF stand_vote, set_voted_for
  <2>4. stale \/ (Seen(h).term = term /\ voted_for = Nil)
    BY <1>0, <2>1 DEF UpToDate, Unchanged, RowIs, Is
  <2>5. Votes
    BY <2>2, <2>3, <2>4, ThreadAssumption DEF Votes
  <2> QED
    BY <1>0, <2>1, <2>3, <2>5 DEF FreshStep, RowStep, RowHeld, log
<1>5. ASSUME NEW t \in Term, election_refused(h, t) PROVE FreshStep(h)
  <2>1. thread[h].pc = "asked" /\ thread'[h].pc = "refused"
    BY <1>5, Moves
  <2>2. /\ t > Seen(h).term /\ term' = t /\ voted_for' = Nil /\ grants' = grants
        /\ UNCHANGED log
    BY <1>5 DEF election_refused, set_term
  <2>3. stale \/ term = Seen(h).term
    BY <1>0, <2>1 DEF UpToDate, RowIs, Is
  <2>4. Raises
    BY <2>2, <2>3 DEF Raises
  <2> QED
    BY <1>0, <2>1, <2>2, <2>4 DEF FreshStep, RowStep, RowHeld, log
<1>6. CASE refused_remove(h) \/ refused_fails(h) \/ election_won(h) \/ election_over(h)
  <2> SUFFICES Idles(h)
    BY IdlesFresh
  <2> USE DEF Idles, row, log
  <2>1. CASE refused_remove(h)
    BY <2>1, Moves DEF refused_remove, Removed
  <2>2. CASE refused_fails(h)
    BY <2>2, Moves DEF refused_fails, JobLookupError
  <2>3. CASE election_won(h)
    BY <2>3, Moves DEF election_won
  <2>4. CASE election_over(h)
    BY <2>4, Moves DEF election_over
  <2> QED
    BY <1>6, <2>1, <2>2, <2>3, <2>4
<1> QED
  BY <1>1, <1>2, <1>3, <1>4, <1>5, <1>6 DEF Stand

(* A step of a thread, and a restart, which keeps the row. *)
LEMMA FreshInvStep ==
  ASSUME TypeOK, ThreadsHold, FreshInv, [Next]_vars
  PROVE  FreshInv' /\ RowStep /\ (stale' = stale \/ stale' = TRUE)
<1>1. CASE UNCHANGED vars
  BY <1>1 DEF vars, row, log, RowStep, FreshInv, RowHeld, VotesKept, UpToDate, Unchanged,
     RowIs, Is, Req, Seen
<1>2. ASSUME Next, NEW h \in Thread, Vote(h) \/ Reset(h) \/ AppendEntries(h) \/ Stand(h)
      PROVE  FreshInv' /\ RowStep /\ (stale' = stale \/ stale' = TRUE)
  <2>1. FreshStep(h) /\ \A g \in Thread \ {h} : thread'[g] = thread[g]
    BY <1>2, VoteFresh, ResetFresh, AppendFresh, StandFresh, Others
  <2>2. stale' = (stale \/ \E g \in Thread : ~UpToDate(g)')
    BY <1>2 DEF Next
  <2>3. FreshInv'
    BY <2>1, <2>2, FreshKept
  <2> QED
    BY <2>1, <2>2, <2>3 DEF FreshStep, TypeOK
<1>3. CASE Next /\ restart
  <2>1. /\ \A g \in Thread : thread'[g] = Idle
        /\ UNCHANGED <<term, voted_for, idx, raft_logs, grants>>
    BY <1>3 DEF restart, row
  <2>2. \A g \in Thread : thread'[g].pc = "idle"
    BY <2>1 DEF Idle
  <2>3. \A g \in Thread : UpToDate(g)'
    BY <2>2 DEF UpToDate, Is
  <2>4. stale' = stale
    BY <1>3, <2>3 DEF Next, TypeOK
  <2> QED
    BY <2>1, <2>2, <2>3, <2>4 DEF FreshInv, RowHeld, VotesKept, RowStep
<1> QED
  BY <1>1, <1>2, <1>3 DEF Next, Step

LEMMA FreshInit == Init => FreshInv
<1> SUFFICES ASSUME Init PROVE FreshInv
  OBVIOUS
<1>1. \A h \in Thread : thread[h].pc = "idle"
  BY DEF Init, Idle
<1> QED
  BY <1>1 DEF Init, FreshInv, RowHeld, VotesKept, UpToDate, Is

(* IdxIsLastRow: an append compares what it writes with the idx it has read. *)
THEOREM IdxIsKept == Spec => []IdxIsLastRow
<1>1. Init => TypeOK /\ ThreadsHold /\ LogInv /\ FreshInv
  BY InitType, FreshInit DEF Init, LogInv, LogHeld, Stored, Idle
<1>2. TypeOK /\ ThreadsHold /\ LogInv /\ FreshInv /\ [Next]_vars =>
        TypeOK' /\ ThreadsHold' /\ LogInv' /\ FreshInv'
  BY TypeStep, LogInvStep, FreshInvStep
<1>3. TypeOK /\ LogInv /\ FreshInv => IdxIsLastRow
  <2> SUFFICES ASSUME TypeOK, LogInv, FreshInv, ~stale PROVE idx = TopRow
    BY DEF IdxIsLastRow
  <2>1. raft_logs \subseteq Nat /\ 0 \notin raft_logs /\ \A k \in raft_logs : k <= idx
    BY Bounds DEF TypeOK, FreshInv
  <2>2. idx = 0 \/ idx \in raft_logs
    BY DEF LogInv, Stored
  <2>3. CASE raft_logs = {}
    BY <2>2, <2>3 DEF TopRow
  <2>4. CASE raft_logs # {}
    <3>1. idx \in raft_logs
      <4>1. PICK k \in raft_logs : TRUE
        BY <2>4
      <4>2. k \in Nat /\ k # 0 /\ k <= idx
        BY <2>1, <4>1
      <4> QED
        BY <2>2, <4>2
    <3>2. \A k \in raft_logs : (\A j \in raft_logs : j <= k) => k = idx
      BY <2>1, <3>1
    <3> QED
      BY <2>1, <2>4, <3>1, <3>2 DEF TopRow
  <2> QED
    BY <2>3, <2>4
<1> QED
  BY <1>1, <1>2, <1>3, PTL DEF Spec

(* VotesAreBallots: a vote is in the row until the term rises, so that only a stale
   thread gives a second one. *)
THEOREM ThreadsKeepBallot == Spec => VotesAreBallots
<1>1. Init => TypeOK /\ ThreadsHold /\ FreshInv
  BY InitType, FreshInit
<1>2. TypeOK /\ ThreadsHold /\ FreshInv /\ [Next]_vars => TypeOK' /\ ThreadsHold' /\ FreshInv'
  BY TypeStep, FreshInvStep
<1>3. Init => Promise!Init
  BY DEF Init, Promise!Init
<1>4. TypeOK /\ ThreadsHold /\ FreshInv /\ [Next]_vars => [Promise!Next]_(Promise!vars)
  <2> SUFFICES ASSUME TypeOK, ThreadsHold, FreshInv, [Next]_vars
               PROVE  [Promise!Next]_(Promise!vars)
    OBVIOUS
  <2>1. RowStep /\ (stale' = stale \/ stale' = TRUE) /\ stale \in BOOLEAN /\ self \in Node
    BY FreshInvStep, ThreadAssumption DEF TypeOK
  <2>2. CASE grants' = grants
    <3>1. CASE stale' = stale
      BY <2>2, <3>1 DEF Promise!vars
    <3>2. CASE stale' = TRUE
      <4>1. Promise!Rewind(self) \/ stale' = stale
        BY <2>1, <2>2, <3>2 DEF Promise!Rewind
      <4> QED
        BY <2>1, <2>2, <4>1 DEF Promise!Next, Promise!vars
    <3> QED
      BY <2>1, <3>1, <3>2
  <2>3. CASE Votes
    <3>1. PICK t \in Term, c \in Node :
            /\ grants' = grants \cup {<<self, t, c>>}
            /\ stale \/ (t = term /\ voted_for \in {Nil, c})
      BY <2>3 DEF Votes
    <3>2. stale \/ \A d \in Node : <<self, t, d>> \in grants => d = c
      BY <3>1, ThreadAssumption DEF FreshInv, VotesKept
    <3>3. Promise!Cast(self, t, c)
      BY <2>1, <3>1, <3>2 DEF Promise!Cast
    <3> QED
      BY <2>1, <3>3 DEF Promise!Next
  <2> QED
    BY <2>1, <2>2, <2>3 DEF RowStep, Raises
<1> QED
  BY <1>1, <1>2, <1>3, <1>4, PTL DEF Spec, VotesAreBallots, Promise!Spec

=============================================================================
