------------------------------ MODULE LmsReplica ------------------------------
(***************************************************************************)
(* What a replicated write does to the tables and the files of the nodes:  *)
(* the worker threads that run handlers/assignments_handler.py and         *)
(* handlers/queries_handler.py, on the leader for the client's call and on *)
(* the followers for the committed rows of an appendEntries request.       *)
(*                                                                         *)
(* The consensus engine is module RaftNode.  Here one leader stays in      *)
(* office, the log is the sequence of the writes it has committed, and an  *)
(* appendEntries request carries any prefix of it, old ones included.      *)
(***************************************************************************)
EXTENDS Naturals, Sequences, FiniteSets

CONSTANTS
  Node, Leader,
  Worker,               \* the threads of a node's gRPC pool that are used
  Submission, Question, Reply,   \* the client writes, each one made once
  student, file,        \* of a submission: who makes it, the name of its file
  question,             \* of a reply: the question it answers
  Nil,
  MaxLog,               \* bound: writes made
  MaxJobs,              \* bound: jobs at one time, in the whole cluster
  MaxFaults             \* bound: calls that fail and restarts of followers

Op == Submission \cup Question \cup Reply
Student == {student[o] : o \in Submission}
File == {<<student[o], file[o]>> : o \in Submission}

ASSUME ReplicaAssumption ==
  /\ Leader \in Node /\ IsFiniteSet(Node)
  /\ question \in [Reply -> Question]
  /\ Nil \notin Op \cup File \cup Worker
  /\ Submission \cap (Question \cup Reply) = {} /\ Question \cap Reply = {}
  /\ "partial" \notin Submission \cup {Nil}
  /\ {MaxLog, MaxJobs, MaxFaults} \subseteq Nat

VARIABLES
  log,                       \* the committed entries, records [op, qid]
  last_applied, committed_index,
  assignment_submissions,    \* per student, the file name in the committed row
  Resources,                 \* the files: Nil, "partial" or the submission held
  queries,                   \* the rows of the table, records [id, ask, reply]
  lock,                      \* the worker whose transaction is open, or Nil
  jobs,                      \* what the busy workers are doing
  faults,                    \* counts them
  failed,                    \* history: nodes where a call has failed,
  overlapped                 \* ... and where two jobs have run at the same time

tables == <<assignment_submissions, Resources, queries>>
indices == <<last_applied, committed_index>>
errors == <<faults, failed>>
vars == <<log, indices, tables, lock, jobs, errors, overlapped>>

-----------------------------------------------------------------------------
(* A job has the log positions it still has to apply, the index a handler of
   appendEntries commits at the end (0 for a client's call), and the stage its
   first position is in. *)

Stage == {"ready", "inserted", "opened", "written", "done"}
Job == [node : Node, worker : Worker, rows : Seq(Nat), commit : Nat, stage : Stage]

Running(i) == {j \in jobs : j.node = i}
Idle(i) == Worker \ {j.worker : j \in Running(i)}
Start(i, w, rows, commit) ==
  /\ w \in Idle(i) /\ Cardinality(jobs) < MaxJobs
  /\ jobs' = jobs \cup {[node |-> i, worker |-> w, rows |-> rows,
                         commit |-> commit, stage |-> "ready"]}
  /\ overlapped' = IF Running(i) = {} THEN overlapped ELSE overlapped \cup {i}

At(j, stage) == j \in jobs /\ j.rows # <<>> /\ j.stage = stage
Goto(j, stage) == jobs' = (jobs \ {j}) \cup {[j EXCEPT !.stage = stage]}
OpOf(j) == log[Head(j.rows)].op
FileOf(o) == <<student[o], file[o]>>

(* SQLite lets one transaction write: from the first statement to the commit. *)
BugFree(j) == TRUE
Free(j) == lock[j.node] = Nil
Locks(j) == lock' = [lock EXCEPT ![j.node] = j.worker]
Unlocks(j) == lock' = [lock EXCEPT ![j.node] = Nil]

(* The handler returns an error, which apply drops. *)
Fail(j) ==
  /\ faults < MaxFaults
  /\ faults' = faults + 1
  /\ failed' = failed \cup {j.node}
  /\ Goto(j, "done")
  /\ UNCHANGED <<log, indices, assignment_submissions, queries, overlapped>>

-----------------------------------------------------------------------------
(* Where jobs come from. *)

(* The service method of the write o, once leader_append_log has returned. *)
Call(o, qid, w) ==
  /\ Len(log) < MaxLog
  /\ \A k \in DOMAIN log : log[k].op # o
  /\ log' = Append(log, [op |-> o, qid |-> qid])
  /\ Start(Leader, w, <<Len(log) + 1>>, 0)
  /\ last_applied' = [last_applied EXCEPT ![Leader] = Len(log) + 1]
  /\ committed_index' = [committed_index EXCEPT ![Leader] = Len(log) + 1]
  /\ UNCHANGED <<tables, lock, errors>>

submitAssignment(o, w) == o \in Submission /\ Call(o, Nil, w)
createQuery(o, w) == o \in Question /\ Call(o, Nil, w)
(* The instructor names a row that getQueries has shown on the leader. *)
answerQuery(o, w) ==
  /\ o \in Reply
  /\ \E q \in queries[Leader] : q.ask = question[o] /\ Call(o, q.id, w)

(* The positions after last_applied up to n. *)
From(first, n) == [k \in 1..(IF n < first THEN 0 ELSE n - first + 1) |-> first + k - 1]
BugLongPending(i, n) == From(last_applied[i] + 1, n + 1)
BugPending(i, n) == From(last_applied[i] + 2, n)
Pending(i, n) == From(last_applied[i] + 1, n)

(* A request whose leader_commit_idx is n reaches _apply_committed_entries. *)
follower_append_entries(i, n, w) ==
  /\ i # Leader /\ n \in 1..Len(log) /\ n > committed_index[i]
  /\ Start(i, w, Pending(i, n), n)
  /\ UNCHANGED <<log, indices, tables, lock, errors>>

-----------------------------------------------------------------------------
(* handlers/assignments_handler.py. *)

insert_assignment_submission(j) ==
  /\ At(j, "ready") /\ OpOf(j) \in Submission /\ Free(j)
  /\ Locks(j)
  /\ Goto(j, "inserted")
  /\ UNCHANGED <<log, indices, tables, errors, overlapped>>

(* open(path, "wb") empties a file of that name. *)
open_file(j) ==
  /\ At(j, "inserted")
  /\ Resources' = [Resources EXCEPT ![j.node][FileOf(OpOf(j))] = "partial"]
  /\ Goto(j, "opened")
  /\ UNCHANGED <<log, indices, assignment_submissions, queries, lock, errors, overlapped>>

write_file(j) ==
  /\ At(j, "opened")
  /\ Resources' = [Resources EXCEPT ![j.node][FileOf(OpOf(j))] = OpOf(j)]
  /\ Goto(j, "written")
  /\ UNCHANGED <<log, indices, assignment_submissions, queries, lock, errors, overlapped>>

BugRowKept(i, o) ==
  IF assignment_submissions[i][student[o]] = Nil
  THEN FileOf(o) ELSE assignment_submissions[i][student[o]]
NewRow(i, o) == FileOf(o)

BugReadyToCommit(j) == At(j, "inserted")
ReadyToCommit(j) == At(j, "written")

commit_submission(j) ==
  /\ ReadyToCommit(j)
  /\ assignment_submissions' =
       [assignment_submissions EXCEPT ![j.node][student[OpOf(j)]] = NewRow(j.node, OpOf(j))]
  /\ Unlocks(j)
  /\ Goto(j, "done")
  /\ UNCHANGED <<log, indices, Resources, queries, errors, overlapped>>

(* makedirs, open or write raises: roll back. *)
write_file_error(j) ==
  /\ At(j, "inserted") \/ At(j, "opened")
  /\ Fail(j)
  /\ Unlocks(j)
  /\ UNCHANGED Resources

(* "database is locked", after the 5 s that sqlite3.connect waits by default. *)
lock_timeout(j) ==
  /\ At(j, "ready") /\ ~Free(j)
  /\ Fail(j)
  /\ UNCHANGED <<Resources, lock>>

-----------------------------------------------------------------------------
(* handlers/queries_handler.py: one statement and its commit. *)

(* gen_uuid: an id of this node's own, never used before. *)
NewId(i) == <<i, Cardinality(queries[i]) + 1>>

create_query(j) ==
  /\ At(j, "ready") /\ OpOf(j) \in Question /\ Free(j)
  /\ queries' = [queries EXCEPT ![j.node] = @ \cup
                   {[id |-> NewId(j.node), ask |-> OpOf(j), reply |-> Nil]}]
  /\ Goto(j, "done")
  /\ UNCHANGED <<log, indices, assignment_submissions, Resources, lock, errors, overlapped>>

BugAnswered(q, o, qid) == IF q.id = qid /\ q.reply = Nil THEN [q EXCEPT !.reply = o] ELSE q
Answered(q, o, qid) == IF q.id = qid THEN [q EXCEPT !.reply = o] ELSE q

update_answer_to_query(j) ==
  /\ At(j, "ready") /\ OpOf(j) \in Reply /\ Free(j)
  /\ queries' = [queries EXCEPT ![j.node] =
                   {Answered(q, OpOf(j), log[Head(j.rows)].qid) : q \in @}]
  /\ Goto(j, "done")
  /\ UNCHANGED <<log, indices, assignment_submissions, Resources, lock, errors, overlapped>>

-----------------------------------------------------------------------------
(* The end of a row, and of a job. *)

AfterRow(j) == (jobs \ {j}) \cup {[j EXCEPT !.rows = Tail(@), !.stage = "ready"]}

(* apply has returned: _set_last_applied. *)
row_applied(j) ==
  /\ At(j, "done") /\ j.commit # 0
  /\ last_applied' = [last_applied EXCEPT ![j.node] = Head(j.rows)]
  /\ jobs' = AfterRow(j)
  /\ UNCHANGED <<log, committed_index, tables, lock, errors, overlapped>>

(* The client has its response. *)
call_returned(j) ==
  /\ At(j, "done") /\ j.commit = 0
  /\ jobs' = jobs \ {j}
  /\ UNCHANGED <<log, indices, tables, lock, errors, overlapped>>

(* The loop is over: _set_committed_index. *)
batch_applied(j) ==
  /\ j \in jobs /\ j.rows = <<>>
  /\ committed_index' = [committed_index EXCEPT ![j.node] = j.commit]
  /\ jobs' = jobs \ {j}
  /\ UNCHANGED <<log, last_applied, tables, lock, errors, overlapped>>

(* A follower's process dies and starts again: SQLite rolls back, the files
   stay as they are, and the indices are those of Node.__init__. *)
restart(i) ==
  /\ i # Leader /\ faults < MaxFaults
  /\ faults' = faults + 1
  /\ last_applied' = [last_applied EXCEPT ![i] = 0]
  /\ committed_index' = [committed_index EXCEPT ![i] = 0]
  /\ lock' = [lock EXCEPT ![i] = Nil]
  /\ jobs' = jobs \ Running(i)
  /\ UNCHANGED <<log, tables, failed, overlapped>>

-----------------------------------------------------------------------------
Init ==
  /\ log = <<>>
  /\ last_applied = [i \in Node |-> 0]
  /\ committed_index = [i \in Node |-> 0]
  /\ assignment_submissions = [i \in Node |-> [s \in Student |-> Nil]]
  /\ Resources = [i \in Node |-> [f \in File |-> Nil]]
  /\ queries = [i \in Node |-> {}]
  /\ lock = [i \in Node |-> Nil]
  /\ jobs = {}
  /\ faults = 0 /\ failed = {} /\ overlapped = {}

Next ==
  \/ \E o \in Op, w \in Worker :
       submitAssignment(o, w) \/ createQuery(o, w) \/ answerQuery(o, w)
  \/ \E i \in Node :
       restart(i) \/ \E n \in 1..Len(log), w \in Worker : follower_append_entries(i, n, w)
  \/ \E j \in jobs :
       \/ insert_assignment_submission(j) \/ open_file(j) \/ write_file(j)
       \/ commit_submission(j) \/ write_file_error(j) \/ lock_timeout(j)
       \/ create_query(j) \/ update_answer_to_query(j)
       \/ row_applied(j) \/ call_returned(j) \/ batch_applied(j)

Spec == Init /\ [][Next]_vars

-----------------------------------------------------------------------------
(* The variables hold values of the kinds the tables and threads hold. *)
Entry == [op : Op, qid : (Node \X Nat) \cup {Nil}]
Query == [id : Node \X Nat, ask : Question, reply : Reply \cup {Nil}]
TypeOK ==
  /\ log \in Seq(Entry)
  /\ last_applied \in [Node -> Nat] /\ committed_index \in [Node -> Nat]
  /\ assignment_submissions \in [Node -> [Student -> File \cup {Nil}]]
  /\ Resources \in [Node -> [File -> Submission \cup {Nil, "partial"}]]
  /\ queries \in [Node -> SUBSET Query] /\ \A i \in Node : IsFiniteSet(queries[i])
  /\ lock \in [Node -> Worker \cup {Nil}]
  /\ jobs \subseteq Job
  /\ \A j \in jobs : \A k \in DOMAIN j.rows : j.rows[k] \in DOMAIN log
  /\ faults \in Nat
  /\ failed \subseteq Node /\ overlapped \subseteq Node

(* A row that readers see names a file that exists on that node, whatever
   failed, ran at the same time or died half way: getSubmittedAssignment never
   lacks a submission the table has (submit_assignment writes the file before it
   commits, and rolls back when it cannot). *)
RowHasFile ==
  \A i \in Node, s \in Student :
    assignment_submissions[i][s] # Nil =>
      Resources[i][assignment_submissions[i][s]] # Nil

(* One transaction at a time writes a node's tables, and the transaction open
   belongs to a thread that is still going to end it: no error path leaves the
   database locked (the rollbacks and commits of submit_assignment). *)
Uncommitted == {"inserted", "opened", "written"}
InTransaction(i) == {j \in Running(i) : j.stage \in Uncommitted}
LockIsHeld ==
  \A i \in Node : {j.worker : j \in InTransaction(i)} = {lock[i]} \ {Nil}

(* The positions up to k of the writes that satisfy P. *)
Applied(ops, k) == {n \in 1..k : log[n].op \in ops}
Latest(S) == CHOOSE n \in S : \A m \in S : m <= n
Quiet(i) == Running(i) = {}
By(s) == {o \in Submission : student[o] = s}

(* A node at rest, whose jobs ran one after the other and without an error, has
   for each student the row and the file of the last submission among the log
   entries it has applied, also after a restart replayed the log over the tables
   and the half-written files it left. *)
LastSubmissionStored ==
  \A i \in Node \ (overlapped \cup failed), s \in Student :
    LET made == Applied(By(s), last_applied[i])
        last == log[Latest(made)].op
    IN  Quiet(i) /\ made # {} => /\ assignment_submissions[i][s] = FileOf(last)
                                /\ Resources[i][FileOf(last)] = last

(* Each question applied is a row of the table.  Threads that overlap and
   restarts may insert it again, nothing loses it: a second handler skips the
   entries up to last_applied, and those have been applied (the order of apply
   and _set_last_applied in _apply_committed_entries). *)
QuestionsAreAsked ==
  \A i \in Node \ failed : Quiet(i) =>
    \A n \in Applied(Question, last_applied[i]) :
      \E q \in queries[i] : q.ask = log[n].op

(* The leader shows for a question the last reply made to it, when replies did
   not overlap or fail, and shows no reply that is not in the log. *)
LastReplyShown ==
  \A q \in queries[Leader] :
    LET made == Applied({o \in Reply : question[o] = q.ask}, Len(log))
    IN  /\ q.reply # Nil => \E n \in made : log[n].op = q.reply
        /\ /\ Quiet(Leader) /\ Leader \notin overlapped \cup failed /\ made # {}
           => q.reply = log[Latest(made)].op

(* docs/architecture.md:7: replication "ensures all nodes converge to the same
   state".  Two nodes that have applied the whole log without an error have the
   same submission rows. *)
SubmissionsConverge ==
  \A i, k \in Node \ failed :
    /\ Quiet(i) /\ last_applied[i] = Len(log)
    /\ Quiet(k) /\ last_applied[k] = Len(log)
    => assignment_submissions[i] = assignment_submissions[k]

(* docs/system-design.md:94: "all writes are eventually applied on every node".
   A node that has applied the whole log shows for each question what the leader
   shows. *)
RepliesReplicated ==
  \A i \in Node : Quiet(i) /\ Quiet(Leader) /\ last_applied[i] = Len(log) =>
    \A q \in queries[i], l \in queries[Leader] : q.ask = l.ask => q.reply = l.reply

=============================================================================
