--------------------------- MODULE LmsReplicaProofs ---------------------------
(***************************************************************************)
(* Theorems about LmsReplica, for every value of its constants.            *)
(***************************************************************************)
EXTENDS LmsReplica, TLAPS, FiniteSetTheorems, SequenceTheorems

(* The part of TypeOK that speaks of the jobs, for the log they work on. *)
JobsOK(js, lg) ==
  /\ js \subseteq Job
  /\ \A j \in js : \A k \in DOMAIN j.rows : j.rows[k] \in DOMAIN lg

(* The first position of a job is a committed entry, and what is left of a job
   after it is a job. *)
LEMMA JobHead ==
  ASSUME TypeOK, NEW j \in jobs, j.rows # <<>>
  PROVE  /\ j.node \in Node /\ j.worker \in Worker /\ j.commit \in Nat
         /\ Head(j.rows) \in Nat /\ log[Head(j.rows)] \in Entry /\ OpOf(j) \in Op
         /\ Tail(j.rows) \in Seq(Nat)
         /\ \A k \in DOMAIN Tail(j.rows) : Tail(j.rows)[k] \in DOMAIN log
<1>1. j \in Job /\ \A k \in DOMAIN j.rows : j.rows[k] \in DOMAIN log
  BY DEF TypeOK
<1>2. j.rows \in Seq(Nat) /\ log \in Seq(Entry)
  BY <1>1 DEF Job, TypeOK
<1>3. /\ Len(j.rows) \in Nat \ {0} /\ DOMAIN j.rows = 1..Len(j.rows)
      /\ Head(j.rows) = j.rows[1]
      /\ Tail(j.rows) \in Seq(Nat) /\ Len(Tail(j.rows)) = Len(j.rows) - 1
      /\ DOMAIN Tail(j.rows) = 1..Len(Tail(j.rows))
  BY <1>2
<1>4. Head(j.rows) \in DOMAIN log /\ log[Head(j.rows)] \in Entry
  BY <1>1, <1>2, <1>3
<1>5. ASSUME NEW k \in DOMAIN Tail(j.rows)
      PROVE  Tail(j.rows)[k] \in DOMAIN log
  <2>1. Tail(j.rows)[k] = j.rows[k + 1] /\ k + 1 \in DOMAIN j.rows
    BY <1>2, <1>3, <1>5
  <2> QED
    BY <1>1, <2>1
<1> QED
  BY <1>1, <1>2, <1>3, <1>4, <1>5 DEF Job, Entry, OpOf

LEMMA GotoType ==
  ASSUME TypeOK, NEW j \in jobs, NEW s \in Stage, Goto(j, s)
  PROVE  JobsOK(jobs', log)
BY DEF Goto, TypeOK, JobsOK, Job

LEMMA FailType ==
  ASSUME TypeOK, NEW j \in jobs, j.node \in Node, Fail(j)
  PROVE  /\ JobsOK(jobs', log) /\ faults' \in Nat /\ failed' \subseteq Node
         /\ UNCHANGED <<log, indices, assignment_submissions, queries, overlapped>>
<1>1. Goto(j, "done") /\ "done" \in Stage
  BY DEF Fail, Stage
<1>2. JobsOK(jobs', log)
  BY <1>1, GotoType
<1> QED
  BY <1>2 DEF Fail, TypeOK

(* A job that starts works on entries of the log. *)
LEMMA StartType ==
  ASSUME TypeOK, NEW lg, NEW i \in Node, NEW w \in Worker, NEW rows \in Seq(Nat),
         NEW commit \in Nat, Start(i, w, rows, commit),
         DOMAIN log \subseteq DOMAIN lg, \A k \in DOMAIN rows : rows[k] \in DOMAIN lg
  PROVE  JobsOK(jobs', lg) /\ overlapped' \subseteq Node
<1> DEFINE new == [node |-> i, worker |-> w, rows |-> rows, commit |-> commit,
                   stage |-> "ready"]
<1>1. new \in Job
  BY DEF Job, Stage
<1>2. jobs' = jobs \cup {new} /\ overlapped' \subseteq overlapped \cup {i}
  BY DEF Start
<1> QED
  BY <1>1, <1>2 DEF TypeOK, JobsOK

LEMMA CallType ==
  ASSUME TypeOK, NEW o \in Op, NEW qid \in (Node \X Nat) \cup {Nil}, NEW w \in Worker,
         Call(o, qid, w)
  PROVE  TypeOK'
<1>1. Leader \in Node /\ log \in Seq(Entry) /\ Len(log) \in Nat
  BY ReplicaAssumption DEF TypeOK
<1> DEFINE e == [op |-> o, qid |-> qid]
           rows == <<Len(log) + 1>>
<1>2. e \in Entry
  BY DEF Entry
<1>3. /\ log' = Append(log, e) /\ log' \in Seq(Entry)
      /\ DOMAIN log = 1..Len(log) /\ DOMAIN log' = 1..(Len(log) + 1)
  BY <1>1, <1>2 DEF Call
<1>4. /\ rows \in Seq(Nat) /\ DOMAIN rows = {1} /\ rows[1] = Len(log) + 1
  BY <1>1
<1>5. \A k \in DOMAIN rows : rows[k] \in DOMAIN log'
  BY <1>1, <1>3, <1>4
<1>6. Start(Leader, w, rows, 0) /\ 0 \in Nat /\ DOMAIN log \subseteq DOMAIN log'
  BY <1>1, <1>3 DEF Call
<1>7. JobsOK(jobs', log') /\ overlapped' \subseteq Node
  BY <1>1, <1>4, <1>5, <1>6, StartType
<1>8. /\ last_applied' \in [Node -> Nat] /\ committed_index' \in [Node -> Nat]
      /\ UNCHANGED <<tables, lock, errors>>
  BY <1>1 DEF Call, TypeOK
<1> QED
  BY <1>3, <1>7, <1>8 DEF TypeOK, JobsOK, tables, errors

LEMMA AppendType ==
  ASSUME TypeOK, NEW i \in Node, NEW n \in 1..Len(log), NEW w \in Worker,
         follower_append_entries(i, n, w)
  PROVE  TypeOK'
<1>1. log \in Seq(Entry) /\ Len(log) \in Nat /\ DOMAIN log = 1..Len(log) /\ n \in Nat
  BY DEF TypeOK
<1>2. last_applied[i] \in Nat
  BY DEF TypeOK
<1>3. /\ Pending(i, n) \in Seq(Nat)
      /\ \A k \in DOMAIN Pending(i, n) : Pending(i, n)[k] \in DOMAIN log
  <2> DEFINE first == last_applied[i] + 1
             len == IF n < first THEN 0 ELSE n - first + 1
  <2>1. first \in Nat /\ len \in Nat /\ (len = 0 \/ first + len - 1 = n) /\ first >= 1
    BY <1>1, <1>2
  <2>2. Pending(i, n) = [k \in 1..len |-> first + k - 1]
    BY DEF Pending, From
  <2> HIDE DEF first, len
  <2>3. \A k \in 1..len : first + k - 1 \in Nat /\ first + k - 1 \in 1..n
    BY <1>1, <2>1
  <2>4. Pending(i, n) \in [1..len -> Nat] /\ DOMAIN Pending(i, n) = 1..len
    BY <2>2, <2>3
  <2>5. Pending(i, n) \in Seq(Nat)
    BY <2>1, <2>4, SeqDef
  <2> QED
    BY <1>1, <2>2, <2>3, <2>4, <2>5
<1>4. /\ Start(i, w, Pending(i, n), n)
      /\ UNCHANGED <<log, indices, tables, lock, errors>>
  BY DEF follower_append_entries
<1>5. JobsOK(jobs', log) /\ overlapped' \subseteq Node
  BY <1>1, <1>3, <1>4, StartType
<1> QED
  BY <1>4, <1>5 DEF TypeOK, JobsOK, indices, tables, errors

(* Replying to a question leaves as many rows, of the same type. *)
LEMMA AnsweredRows ==
  ASSUME NEW rows \in SUBSET Query, IsFiniteSet(rows), NEW o \in Reply, NEW qid
  PROVE  LET after == {Answered(q, o, qid) : q \in rows}
         IN  after \subseteq Query /\ IsFiniteSet(after)
<1> DEFINE after == {Answered(q, o, qid) : q \in rows}
           f == [q \in rows |-> Answered(q, o, qid)]
<1>1. \A q \in rows : Answered(q, o, qid) \in Query
  BY DEF Answered, Query
<1>2. f \in Surjection(rows, after)
  BY DEF Surjection
<1>3. IsFiniteSet(after)
  BY <1>2, FS_Surjection
<1> QED
  BY <1>1, <1>3

LEMMA TypeInit == Init => TypeOK
<1> SUFFICES ASSUME Init PROVE TypeOK
  OBVIOUS
<1>1. log \in Seq(Entry)
  BY DEF Init
<1>2. IsFiniteSet({})
  BY FS_EmptySet
<1> QED
  BY <1>1, <1>2 DEF Init, TypeOK

(* A step of a job that changes none but these variables. *)
LEMMA JobStep ==
  ASSUME TypeOK, JobsOK(jobs', log), UNCHANGED <<log, overlapped>>,
         last_applied' \in [Node -> Nat], committed_index' \in [Node -> Nat],
         assignment_submissions' \in [Node -> [Student -> File \cup {Nil}]],
         Resources' \in [Node -> [File -> Submission \cup {Nil, "partial"}]],
         queries' \in [Node -> SUBSET Query], \A i \in Node : IsFiniteSet(queries'[i]),
         lock' \in [Node -> Worker \cup {Nil}],
         faults' \in Nat, failed' \subseteq Node
  PROVE  TypeOK'
BY DEF TypeOK, JobsOK

LEMMA FileFacts ==
  ASSUME NEW o \in Submission
  PROVE  FileOf(o) \in File /\ student[o] \in Student
BY DEF FileOf, File, Student

(* A thread between INSERT and commit has a submission in hand. *)
SubmissionInHand ==
  \A j \in jobs : j.stage \in Uncommitted => j.rows # <<>> /\ OpOf(j) \in Submission

LEMMA TypeStep ==
  ASSUME TypeOK, SubmissionInHand, [Next]_vars
  PROVE  TypeOK'
<1> USE DEF indices, tables, errors
<1>1. ASSUME NEW o \in Op, NEW w \in Worker, submitAssignment(o, w) \/ createQuery(o, w)
      PROVE  TypeOK'
  BY <1>1, CallType DEF submitAssignment, createQuery
<1>2. ASSUME NEW o \in Op, NEW w \in Worker, answerQuery(o, w)
      PROVE  TypeOK'
  <2>1. PICK q \in queries[Leader] : Call(o, q.id, w)
    BY <1>2 DEF answerQuery
  <2>2. q.id \in Node \X Nat
    BY ReplicaAssumption DEF TypeOK, Query
  <2> QED
    BY <2>1, <2>2, CallType
<1>3. ASSUME NEW i \in Node, NEW n \in 1..Len(log), NEW w \in Worker,
             follower_append_entries(i, n, w)
      PROVE  TypeOK'
  BY <1>3, AppendType
<1>4. ASSUME NEW i \in Node, restart(i) PROVE TypeOK'
  <2>1. JobsOK(jobs', log)
    BY <1>4 DEF restart, TypeOK, JobsOK
  <2>2. /\ last_applied' \in [Node -> Nat] /\ committed_index' \in [Node -> Nat]
        /\ lock' \in [Node -> Worker \cup {Nil}] /\ faults' \in Nat
    BY <1>4 DEF restart, TypeOK
  <2> QED
    BY <1>4, <2>1, <2>2, JobStep DEF restart, TypeOK
<1>5. ASSUME NEW j \in jobs, insert_assignment_submission(j) PROVE TypeOK'
  <2>1. j.rows # <<>> /\ Goto(j, "inserted") /\ "inserted" \in Stage
    BY <1>5 DEF insert_assignment_submission, At, Stage
  <2>2. JobsOK(jobs', log)
    BY <2>1, GotoType
  <2>3. lock' \in [Node -> Worker \cup {Nil}]
    BY <1>5, <2>1, JobHead DEF insert_assignment_submission, Locks, TypeOK
  <2> QED
    BY <1>5, <2>2, <2>3, JobStep DEF insert_assignment_submission, TypeOK
<1>6. ASSUME NEW j \in jobs, open_file(j) PROVE TypeOK'
  <2>1. j.rows # <<>> /\ Goto(j, "opened") /\ "opened" \in Stage
    BY <1>6 DEF open_file, At, Stage
  <2>2. JobsOK(jobs', log)
    BY <2>1, GotoType
  <2>3. Resources' \in [Node -> [File -> Submission \cup {Nil, "partial"}]]
    BY <1>6 DEF open_file, TypeOK
  <2> QED
    BY <1>6, <2>2, <2>3, JobStep DEF open_file, TypeOK
<1>7. ASSUME NEW j \in jobs, write_file(j) PROVE TypeOK'
  <2>0. OpOf(j) \in Submission
    BY <1>7 DEF write_file, At, SubmissionInHand, Uncommitted
  <2>1. j.rows # <<>> /\ Goto(j, "written") /\ "written" \in Stage
    BY <1>7 DEF write_file, At, Stage
  <2>2. JobsOK(jobs', log)
    BY <2>1, GotoType
  <2>3. Resources' \in [Node -> [File -> Submission \cup {Nil, "partial"}]]
    BY <1>7, <2>0 DEF write_file, TypeOK
  <2> QED
    BY <1>7, <2>2, <2>3, JobStep DEF write_file, TypeOK
<1>8. ASSUME NEW j \in jobs, commit_submission(j) PROVE TypeOK'
  <2>0. OpOf(j) \in Submission
    BY <1>8 DEF commit_submission, ReadyToCommit, At, SubmissionInHand, Uncommitted
  <2>1. j.rows # <<>> /\ Goto(j, "done") /\ "done" \in Stage
    BY <1>8 DEF commit_submission, ReadyToCommit, At, Stage
  <2>2. JobsOK(jobs', log)
    BY <2>1, GotoType
  <2>3. assignment_submissions' \in [Node -> [Student -> File \cup {Nil}]]
    BY <1>8, <2>0, FileFacts DEF commit_submission, NewRow, TypeOK
  <2>4. lock' \in [Node -> Worker \cup {Nil}]
    BY <1>8 DEF commit_submission, Unlocks, TypeOK
  <2> QED
    BY <1>8, <2>2, <2>3, <2>4, JobStep DEF commit_submission, TypeOK
<1>9. ASSUME NEW j \in jobs, write_file_error(j) \/ lock_timeout(j) PROVE TypeOK'
  <2>1. j.rows # <<>> /\ Fail(j)
    BY <1>9 DEF write_file_error, lock_timeout, At
  <2>2. /\ JobsOK(jobs', log) /\ faults' \in Nat /\ failed' \subseteq Node
        /\ UNCHANGED <<log, indices, assignment_submissions, queries, overlapped>>
    BY <2>1, JobHead, FailType
  <2>3. lock' \in [Node -> Worker \cup {Nil}] /\ UNCHANGED Resources
    BY <1>9 DEF write_file_error, lock_timeout, Unlocks, TypeOK
  <2> QED
    BY <2>2, <2>3, JobStep DEF TypeOK
<1>10. ASSUME NEW j \in jobs, create_query(j) PROVE TypeOK'
  <2> DEFINE q == [id |-> NewId(j.node), ask |-> OpOf(j), reply |-> Nil]
  <2>1. j.rows # <<>> /\ Goto(j, "done") /\ "done" \in Stage /\ OpOf(j) \in Question
    BY <1>10 DEF create_query, At, Stage
  <2>2. JobsOK(jobs', log) /\ j.node \in Node
    BY <2>1, GotoType, JobHead
  <2>3. IsFiniteSet(queries[j.node]) /\ Cardinality(queries[j.node]) \in Nat
    BY <2>2, FS_CardinalityType DEF TypeOK
  <2>4. q \in Query
    BY <2>1, <2>2, <2>3 DEF NewId, Query
  <2>5. IsFiniteSet(queries[j.node] \cup {q})
    BY <2>3, FS_AddElement
  <2>6. queries' = [queries EXCEPT ![j.node] = @ \cup {q}]
    BY <1>10 DEF create_query
  <2>7. queries' \in [Node -> SUBSET Query] /\ \A i \in Node : IsFiniteSet(queries'[i])
    BY <2>2, <2>4, <2>5, <2>6 DEF TypeOK
  <2> QED
    BY <1>10, <2>2, <2>7, JobStep DEF create_query, TypeOK
<1>11. ASSUME NEW j \in jobs, update_answer_to_query(j) PROVE TypeOK'
  <2> DEFINE rows == queries[j.node]
             after == {Answered(q, OpOf(j), log[Head(j.rows)].qid) : q \in rows}
  <2>1. j.rows # <<>> /\ Goto(j, "done") /\ "done" \in Stage /\ OpOf(j) \in Reply
    BY <1>11 DEF update_answer_to_query, At, Stage
  <2>2. JobsOK(jobs', log) /\ j.node \in Node
    BY <2>1, GotoType, JobHead
  <2>3. rows \in SUBSET Query /\ IsFiniteSet(rows)
    BY <2>2 DEF TypeOK
  <2>4. after \subseteq Query /\ IsFiniteSet(after)
    BY <2>1, <2>3, AnsweredRows
  <2>5. queries' = [queries EXCEPT ![j.node] = after]
    BY <1>11 DEF update_answer_to_query
  <2>6. queries' \in [Node -> SUBSET Query] /\ \A i \in Node : IsFiniteSet(queries'[i])
    BY <2>2, <2>4, <2>5 DEF TypeOK
  <2> QED
    BY <1>11, <2>2, <2>6, JobStep DEF update_answer_to_query, TypeOK
<1>12. ASSUME NEW j \in jobs, row_applied(j) PROVE TypeOK'
  <2>1. j.rows # <<>> /\ jobs' = AfterRow(j)
    BY <1>12 DEF row_applied, At
  <2>2. JobsOK(jobs', log)
    BY <2>1, JobHead DEF AfterRow, TypeOK, JobsOK, Job, Stage
  <2>3. last_applied' \in [Node -> Nat]
    BY <1>12, <2>1, JobHead DEF row_applied, TypeOK
  <2> QED
    BY <1>12, <2>2, <2>3, JobStep DEF row_applied, TypeOK
<1>13. ASSUME NEW j \in jobs, call_returned(j) PROVE TypeOK'
  BY <1>13 DEF call_returned, TypeOK
<1>14. ASSUME NEW j \in jobs, batch_applied(j) PROVE TypeOK'
  <2>1. j.commit \in Nat
    BY DEF TypeOK, Job
  <2>2. JobsOK(jobs', log) /\ committed_index' \in [Node -> Nat]
    BY <1>14, <2>1 DEF batch_applied, TypeOK, JobsOK
  <2> QED
    BY <1>14, <2>2, JobStep DEF batch_applied, TypeOK
<1>15. CASE UNCHANGED vars
  BY <1>15 DEF TypeOK, vars
<1> QED
  BY <1>1, <1>2, <1>3, <1>4, <1>5, <1>6, <1>7, <1>8, <1>9, <1>10, <1>11, <1>12,
     <1>13, <1>14, <1>15 DEF Next

-----------------------------------------------------------------------------
(* The inductive invariant: what a thread has done when it is in a stage. *)

(* The file of a submission is there once the thread has opened it. *)
FileInHand ==
  \A j \in jobs : j.stage \in {"opened", "written"} =>
    Resources[j.node][FileOf(OpOf(j))] # Nil

OneJobEach == \A j, k \in jobs : j.node = k.node /\ j.worker = k.worker => j = k

LockOwned == \A j \in jobs : j.stage \in Uncommitted => lock[j.node] = j.worker
LockLive ==
  \A i \in Node : lock[i] # Nil =>
    \E j \in jobs : j.node = i /\ j.worker = lock[i] /\ j.stage \in Uncommitted

ReplicaInv == /\ TypeOK /\ SubmissionInHand /\ FileInHand /\ OneJobEach
              /\ LockOwned /\ LockLive /\ RowHasFile

LEMMA MovedJob ==
  ASSUME TypeOK, NEW j \in jobs, NEW s, Goto(j, s)
  PROVE  LET d == [j EXCEPT !.stage = s]
         IN  /\ jobs' = (jobs \ {j}) \cup {d}
             /\ d.node = j.node /\ d.worker = j.worker /\ d.rows = j.rows /\ d.stage = s
BY DEF TypeOK, Job, Goto

LEMMA SameWorkers ==
  ASSUME OneJobEach, NEW j \in jobs, NEW d, jobs' = (jobs \ {j}) \cup {d},
         d.node = j.node, d.worker = j.worker
  PROVE  OneJobEach'
BY DEF OneJobEach

LEMMA StartKeeps ==
  ASSUME ReplicaInv, NEW i \in Node, NEW w \in Worker, NEW rows, NEW commit,
         Start(i, w, rows, commit), UNCHANGED <<tables, lock>>,
         \A j \in jobs : j.rows # <<>> => log'[Head(j.rows)] = log[Head(j.rows)]
  PROVE  (SubmissionInHand /\ FileInHand /\ OneJobEach /\ LockOwned /\ LockLive /\ RowHasFile)'
<1> DEFINE new == [node |-> i, worker |-> w, rows |-> rows, commit |-> commit,
                   stage |-> "ready"]
<1>1. /\ jobs' = jobs \cup {new} /\ new.node = i /\ new.worker = w /\ new.stage = "ready"
      /\ \A j \in jobs : ~(j.node = i /\ j.worker = w)
  BY DEF Start, Idle, Running
<1> HIDE DEF new
<1>2. "ready" \notin Uncommitted /\ {"opened", "written"} \subseteq Uncommitted
  BY DEF Uncommitted
<1>3. SubmissionInHand'
  BY <1>1, <1>2 DEF ReplicaInv, SubmissionInHand, OpOf
<1>4. FileInHand'
  <2> SUFFICES ASSUME NEW j \in jobs', j.stage \in {"opened", "written"}
               PROVE  Resources'[j.node][FileOf(OpOf(j))'] # Nil
    BY DEF FileInHand
  <2>1. j \in jobs /\ j.stage \in Uncommitted
    BY <1>1, <1>2
  <2>2. OpOf(j)' = OpOf(j)
    BY <2>1 DEF ReplicaInv, SubmissionInHand, OpOf
  <2> QED
    BY <2>1, <2>2 DEF ReplicaInv, FileInHand, tables, FileOf
<1>5. OneJobEach'
  BY <1>1 DEF ReplicaInv, OneJobEach
<1>6. LockOwned' /\ LockLive'
  BY <1>1, <1>2 DEF ReplicaInv, LockOwned, LockLive
<1>7. RowHasFile'
  BY DEF ReplicaInv, RowHasFile, tables
<1> QED
  BY <1>3, <1>4, <1>5, <1>6, <1>7

LEMMA CallKeeps ==
  ASSUME ReplicaInv, NEW o \in Op, NEW qid \in (Node \X Nat) \cup {Nil}, NEW w \in Worker,
         Call(o, qid, w)
  PROVE  ReplicaInv'
<1>1. TypeOK'
  BY CallType DEF ReplicaInv
<1>2. ASSUME NEW j \in jobs, j.rows # <<>>
      PROVE  log'[Head(j.rows)] = log[Head(j.rows)]
  <2>1. j.rows \in Seq(Nat) /\ log \in Seq(Entry) /\ 1 \in DOMAIN j.rows
    BY <1>2 DEF ReplicaInv, TypeOK, Job
  <2>2. Head(j.rows) \in DOMAIN log
    BY <2>1 DEF ReplicaInv, TypeOK
  <2>3. [op |-> o, qid |-> qid] \in Entry
    BY DEF Entry
  <2> QED
    BY <2>1, <2>2, <2>3 DEF Call
<1>3. Leader \in Node /\ Start(Leader, w, <<Len(log) + 1>>, 0) /\ UNCHANGED <<tables, lock>>
  BY ReplicaAssumption DEF Call
<1> QED
  BY <1>1, <1>2, <1>3, StartKeeps DEF ReplicaInv

(* What every step of a thread must do to keep the invariant, j being its job
   before and d after it. *)
Keeps(j, d) ==
  /\ jobs' = (jobs \ {j}) \cup {d}
  /\ d.node = j.node /\ d.worker = j.worker
  /\ UNCHANGED log
  /\ d.stage \in Uncommitted =>
       /\ d.rows = j.rows /\ j.rows # <<>> /\ OpOf(j) \in Submission
       /\ lock'[j.node] = j.worker
       /\ lock[j.node] = Nil \/ j.stage \in Uncommitted
  /\ d.stage \notin Uncommitted =>
       lock'[j.node] = IF j.stage \in Uncommitted THEN Nil ELSE lock[j.node]
  /\ \A i \in Node \ {j.node} : lock'[i] = lock[i]
  /\ \A i \in Node, f \in File : Resources[i][f] # Nil => Resources'[i][f] # Nil
  /\ d.stage \in {"opened", "written"} => Resources'[j.node][FileOf(OpOf(j))] # Nil

LEMMA JobKeeps ==
  ASSUME ReplicaInv, NEW j \in jobs, NEW d, Keeps(j, d)
  PROVE  (SubmissionInHand /\ FileInHand /\ OneJobEach /\ LockOwned /\ LockLive)'
<1>1. /\ jobs' = (jobs \ {j}) \cup {d} /\ d.node = j.node /\ d.worker = j.worker
      /\ {"opened", "written"} \subseteq Uncommitted
      /\ \A k \in jobs : k.node \in Node /\ k.worker \in Worker /\ k.worker # Nil
  BY ReplicaAssumption DEF Keeps, Uncommitted, ReplicaInv, TypeOK, Job
<1>2. \A k \in jobs : OpOf(k)' = OpOf(k)
  BY DEF Keeps, OpOf
<1>3. d.stage \in Uncommitted => OpOf(d)' = OpOf(j)
  BY DEF Keeps, OpOf
<1>4. SubmissionInHand'
  <2> SUFFICES ASSUME NEW k \in jobs', k.stage \in Uncommitted
               PROVE  k.rows # <<>> /\ OpOf(k)' \in Submission
    BY DEF SubmissionInHand
  <2>1. CASE k = d
    BY <1>3, <2>1 DEF Keeps
  <2>2. CASE k \in jobs
    BY <1>2, <2>2 DEF ReplicaInv, SubmissionInHand
  <2> QED
    BY <1>1, <2>1, <2>2
<1>5. FileInHand'
  <2> SUFFICES ASSUME NEW k \in jobs', k.stage \in {"opened", "written"}
               PROVE  Resources'[k.node][FileOf(OpOf(k)')] # Nil
    BY DEF FileInHand, FileOf
  <2>1. CASE k = d
    BY <1>1, <1>3, <2>1 DEF Keeps
  <2>2. CASE k \in jobs
    <3>1. Resources[k.node][FileOf(OpOf(k))] # Nil /\ OpOf(k) \in Submission
      BY <1>1, <2>2 DEF ReplicaInv, FileInHand, SubmissionInHand
    <3>2. FileOf(OpOf(k)) \in File
      BY <3>1, FileFacts
    <3> QED
      BY <1>1, <1>2, <2>2, <3>1, <3>2 DEF Keeps
  <2> QED
    BY <1>1, <2>1, <2>2
<1>6. OneJobEach'
  BY <1>1, SameWorkers DEF ReplicaInv
<1>7. ASSUME NEW k \in jobs \ {j}, k.stage \in Uncommitted
      PROVE  /\ lock[k.node] = k.worker /\ lock'[k.node] = lock[k.node]
             /\ k.node = j.node => d.stage \notin Uncommitted /\ j.stage \notin Uncommitted
  <2>1. lock[k.node] = k.worker /\ k.node \in Node /\ k.worker # Nil
    BY <1>1, <1>7 DEF ReplicaInv, LockOwned
  <2>2. CASE k.node # j.node
    BY <2>1, <2>2 DEF Keeps
  <2>3. CASE k.node = j.node
    <3>1. j.stage \notin Uncommitted
      BY <1>7, <2>1, <2>3 DEF ReplicaInv, LockOwned, OneJobEach
    <3>2. d.stage \notin Uncommitted
      BY <2>1, <2>3, <3>1 DEF Keeps
    <3> QED
      BY <2>1, <2>3, <3>1, <3>2 DEF Keeps
  <2> QED
    BY <2>2, <2>3
<1>8. LockOwned'
  <2> SUFFICES ASSUME NEW k \in jobs', k.stage \in Uncommitted
               PROVE  lock'[k.node] = k.worker
    BY DEF LockOwned
  <2>1. CASE k = d
    BY <1>1, <2>1 DEF Keeps
  <2>2. CASE k \in jobs \ {j}
    BY <1>7, <2>2
  <2> QED
    BY <1>1, <2>1, <2>2
<1>9. LockLive'
  <2> SUFFICES ASSUME NEW i \in Node, lock'[i] # Nil
               PROVE  \E k \in jobs' : /\ k.node = i /\ k.worker = lock'[i]
                                       /\ k.stage \in Uncommitted
    BY DEF LockLive
  <2>1. CASE i = j.node /\ d.stage \in Uncommitted
    BY <1>1, <2>1 DEF Keeps
  <2>2. CASE ~(i = j.node /\ d.stage \in Uncommitted)
    <3>1. lock'[i] = lock[i] /\ (i = j.node => j.stage \notin Uncommitted)
      BY <2>2 DEF Keeps
    <3>2. PICK k \in jobs : k.node = i /\ k.worker = lock[i] /\ k.stage \in Uncommitted
      BY <3>1 DEF ReplicaInv, LockLive
    <3>3. k # j
      BY <3>1, <3>2
    <3> QED
      BY <1>1, <3>1, <3>2, <3>3
  <2> QED
    BY <2>1, <2>2
<1> QED
  BY <1>4, <1>5, <1>6, <1>8, <1>9

LEMMA RowsKeep ==
  ASSUME ReplicaInv, UNCHANGED assignment_submissions,
         \A i \in Node, f \in File : Resources[i][f] # Nil => Resources'[i][f] # Nil
  PROVE  RowHasFile'
<1> SUFFICES ASSUME NEW i \in Node, NEW s \in Student, assignment_submissions[i][s] # Nil
             PROVE  Resources'[i][assignment_submissions[i][s]] # Nil
  BY DEF RowHasFile
<1>1. assignment_submissions[i][s] \in File
  BY DEF ReplicaInv, TypeOK
<1> QED
  BY <1>1 DEF ReplicaInv, RowHasFile

(* The steps of one job, apart from its type correctness. *)
LEMMA JobStepKeeps ==
  ASSUME ReplicaInv, NEW j \in jobs,
         \/ insert_assignment_submission(j) \/ open_file(j) \/ write_file(j)
         \/ commit_submission(j) \/ write_file_error(j) \/ lock_timeout(j)
         \/ create_query(j) \/ update_answer_to_query(j)
         \/ row_applied(j)
  PROVE  (SubmissionInHand /\ FileInHand /\ OneJobEach /\ LockOwned /\ LockLive /\ RowHasFile)'
<1> USE DEF indices, tables, errors
<1> DEFINE to(s) == [j EXCEPT !.stage = s]
<1>0. /\ TypeOK /\ j \in Job /\ j.node \in Node /\ j.worker \in Worker /\ Nil \notin Worker
      /\ lock \in [Node -> Worker \cup {Nil}]
      /\ Resources \in [Node -> [File -> Submission \cup {Nil, "partial"}]]
      /\ Nil # "partial" /\ Nil \notin Submission
  BY ReplicaAssumption DEF ReplicaInv, TypeOK, Job, Op
<1>1. j.stage \in Uncommitted =>
        /\ j.rows # <<>> /\ OpOf(j) \in Submission /\ FileOf(OpOf(j)) \in File
        /\ student[OpOf(j)] \in Student /\ lock[j.node] = j.worker
  BY FileFacts DEF ReplicaInv, SubmissionInHand, LockOwned
<1>2. /\ Uncommitted = {"inserted", "opened", "written"}
  BY DEF Uncommitted
<1>3. CASE insert_assignment_submission(j)
  <2>1. Goto(j, "inserted") /\ j.rows # <<>> /\ OpOf(j) \in Submission /\ lock[j.node] = Nil
    BY <1>3 DEF insert_assignment_submission, At, Free
  <2>2. Keeps(j, to("inserted"))
    BY <1>0, <1>2, <1>3, <2>1, MovedJob
       DEF Keeps, insert_assignment_submission, Locks, At
  <2> QED
    BY <1>3, <2>2, JobKeeps, RowsKeep DEF insert_assignment_submission
<1>4. CASE open_file(j)
  <2>1. Goto(j, "opened") /\ j.stage = "inserted"
    BY <1>4 DEF open_file, At
  <2>2. \A i \in Node, f \in File :
          Resources[i][f] # Nil => Resources'[i][f] # Nil
    BY <1>0, <1>4 DEF open_file
  <2>3. Resources'[j.node][FileOf(OpOf(j))] # Nil
    BY <1>0, <1>1, <1>2, <1>4, <2>1 DEF open_file
  <2>4. Keeps(j, to("opened"))
    BY <1>0, <1>1, <1>2, <1>4, <2>1, <2>2, <2>3, MovedJob DEF Keeps, open_file
  <2> QED
    BY <1>4, <2>2, <2>4, JobKeeps, RowsKeep DEF open_file
<1>5. CASE write_file(j)
  <2>1. Goto(j, "written") /\ j.stage = "opened"
    BY <1>5 DEF write_file, At
  <2>2. \A i \in Node, f \in File :
          Resources[i][f] # Nil => Resources'[i][f] # Nil
    BY <1>0, <1>1, <1>2, <1>5, <2>1 DEF write_file
  <2>3. Resources'[j.node][FileOf(OpOf(j))] # Nil
    BY <1>0, <1>1, <1>2, <1>5, <2>1 DEF write_file
  <2>4. Keeps(j, to("written"))
    BY <1>0, <1>1, <1>2, <1>5, <2>1, <2>2, <2>3, MovedJob DEF Keeps, write_file
  <2> QED
    BY <1>5, <2>2, <2>4, JobKeeps, RowsKeep DEF write_file
<1>6. CASE commit_submission(j)
  <2>1. Goto(j, "done") /\ j.stage = "written"
    BY <1>6 DEF commit_submission, ReadyToCommit, At
  <2>2. Keeps(j, to("done"))
    BY <1>0, <1>1, <1>2, <1>6, <2>1, MovedJob DEF Keeps, commit_submission, Unlocks
  <2>3. RowHasFile'
    <3>1. Resources[j.node][FileOf(OpOf(j))] # Nil
      BY <2>1 DEF ReplicaInv, FileInHand
    <3>2. SUFFICES ASSUME NEW i \in Node, NEW s \in Student,
                          assignment_submissions'[i][s] # Nil
                   PROVE  Resources[i][assignment_submissions'[i][s]] # Nil
      BY <1>6 DEF RowHasFile, commit_submission
    <3>3. CASE i = j.node /\ s = student[OpOf(j)]
      <4>1. assignment_submissions'[i][s] = FileOf(OpOf(j))
        BY <1>0, <1>6, <3>3 DEF commit_submission, NewRow, TypeOK
      <4> QED
        BY <3>1, <3>3, <4>1
    <3>4. CASE ~(i = j.node /\ s = student[OpOf(j)])
      <4>1. assignment_submissions'[i][s] = assignment_submissions[i][s]
        BY <1>0, <1>6, <3>4 DEF commit_submission, TypeOK
      <4> QED
        BY <3>2, <4>1 DEF ReplicaInv, RowHasFile
    <3> QED
      BY <3>3, <3>4
  <2> QED
    BY <2>2, <2>3, JobKeeps
<1>7. CASE write_file_error(j)
  <2>1. Goto(j, "done") /\ j.stage \in Uncommitted /\ UNCHANGED <<log, assignment_submissions>>
    BY <1>2, <1>7 DEF write_file_error, Fail, At
  <2>2. Keeps(j, to("done"))
    BY <1>0, <1>1, <1>2, <1>7, <2>1, MovedJob DEF Keeps, write_file_error, Unlocks
  <2> QED
    BY <1>7, <2>1, <2>2, JobKeeps, RowsKeep DEF write_file_error
<1>8. CASE lock_timeout(j)
  <2>1. /\ Goto(j, "done") /\ j.stage = "ready"
        /\ UNCHANGED <<log, assignment_submissions, Resources, lock>>
    BY <1>8 DEF lock_timeout, Fail, At
  <2>2. Keeps(j, to("done"))
    BY <1>0, <1>2, <2>1, MovedJob DEF Keeps
  <2> QED
    BY <2>1, <2>2, JobKeeps, RowsKeep
<1>9. CASE create_query(j) \/ update_answer_to_query(j)
  <2>1. /\ Goto(j, "done") /\ j.stage = "ready"
        /\ UNCHANGED <<log, assignment_submissions, Resources, lock>>
    BY <1>9 DEF create_query, update_answer_to_query, At
  <2>2. Keeps(j, to("done"))
    BY <1>0, <1>2, <2>1, MovedJob DEF Keeps
  <2> QED
    BY <2>1, <2>2, JobKeeps, RowsKeep
<1>10. CASE row_applied(j)
  <2> DEFINE d == [j EXCEPT !.rows = Tail(@), !.stage = "ready"]
  <2>1. /\ jobs' = (jobs \ {j}) \cup {d} /\ j.stage = "done"
        /\ UNCHANGED <<log, assignment_submissions, Resources, lock>>
    BY <1>10 DEF row_applied, AfterRow, At
  <2>2. d.node = j.node /\ d.worker = j.worker /\ d.stage = "ready"
    BY <1>0 DEF Job
  <2>3. Keeps(j, d)
    BY <1>0, <1>2, <2>1, <2>2 DEF Keeps
  <2> QED
    BY <2>1, <2>3, JobKeeps, RowsKeep
<1> QED
  BY <1>3, <1>4, <1>5, <1>6, <1>7, <1>8, <1>9, <1>10

(* A thread that ends, outside a transaction. *)
LEMMA EndKeeps ==
  ASSUME ReplicaInv, NEW j \in jobs, call_returned(j) \/ batch_applied(j)
  PROVE  (SubmissionInHand /\ FileInHand /\ OneJobEach /\ LockOwned /\ LockLive /\ RowHasFile)'
<1>1. /\ j.stage \notin Uncommitted
      /\ jobs' = jobs \ {j} /\ UNCHANGED <<log, tables, lock>>
  BY DEF call_returned, batch_applied, At, ReplicaInv, SubmissionInHand, Uncommitted
<1>2. \A k \in jobs : OpOf(k)' = OpOf(k)
  BY <1>1 DEF OpOf
<1>3. SubmissionInHand' /\ FileInHand'
  BY <1>1, <1>2 DEF ReplicaInv, SubmissionInHand, FileInHand, FileOf, tables
<1>4. OneJobEach' /\ LockOwned' /\ LockLive'
  BY <1>1 DEF ReplicaInv, OneJobEach, LockOwned, LockLive
<1>5. RowHasFile'
  BY <1>1 DEF ReplicaInv, RowHasFile, tables
<1> QED
  BY <1>3, <1>4, <1>5

(* A process that dies takes its threads and its transaction with it. *)
LEMMA RestartKeeps ==
  ASSUME ReplicaInv, NEW i \in Node, restart(i)
  PROVE  (SubmissionInHand /\ FileInHand /\ OneJobEach /\ LockOwned /\ LockLive /\ RowHasFile)'
<1>1. /\ jobs' = {j \in jobs : j.node # i} /\ UNCHANGED <<log, tables>>
      /\ \A n \in Node : lock'[n] = IF n = i THEN Nil ELSE lock[n]
      /\ \A j \in jobs : j.node \in Node
  BY DEF restart, Running, ReplicaInv, TypeOK, Job
<1>2. \A k \in jobs : OpOf(k)' = OpOf(k)
  BY <1>1 DEF OpOf
<1>3. SubmissionInHand' /\ FileInHand'
  BY <1>1, <1>2 DEF ReplicaInv, SubmissionInHand, FileInHand, FileOf, tables
<1>4. OneJobEach' /\ LockOwned' /\ LockLive'
  BY <1>1 DEF ReplicaInv, OneJobEach, LockOwned, LockLive
<1>5. RowHasFile'
  BY <1>1 DEF ReplicaInv, RowHasFile, tables
<1> QED
  BY <1>3, <1>4, <1>5

LEMMA ReplicaInit == Init => ReplicaInv
<1> SUFFICES ASSUME Init PROVE ReplicaInv
  OBVIOUS
<1> QED
  BY TypeInit DEF Init, ReplicaInv, SubmissionInHand, FileInHand, OneJobEach, LockOwned,
                  LockLive, RowHasFile

LEMMA ReplicaStep == ReplicaInv /\ [Next]_vars => ReplicaInv'
<1> SUFFICES ASSUME ReplicaInv, [Next]_vars PROVE ReplicaInv'
  OBVIOUS
<1>1. TypeOK'
  BY TypeStep DEF ReplicaInv
<1>2. ASSUME NEW o \in Op, NEW w \in Worker,
             submitAssignment(o, w) \/ createQuery(o, w) \/ answerQuery(o, w)
      PROVE  ReplicaInv'
  <2>1. PICK qid \in (Node \X Nat) \cup {Nil} : Call(o, qid, w)
    BY <1>2, ReplicaAssumption
       DEF submitAssignment, createQuery, answerQuery, ReplicaInv, TypeOK, Query
  <2> QED
    BY <2>1, CallKeeps
<1>3. ASSUME NEW i \in Node, NEW n \in 1..Len(log), NEW w \in Worker,
             follower_append_entries(i, n, w)
      PROVE  ReplicaInv'
  <2>1. /\ Start(i, w, Pending(i, n), n) /\ UNCHANGED <<log, tables, lock>>
    BY <1>3 DEF follower_append_entries
  <2> QED
    BY <1>1, <2>1, StartKeeps DEF ReplicaInv
<1>4. ASSUME NEW i \in Node, restart(i) PROVE ReplicaInv'
  BY <1>1, <1>4, RestartKeeps DEF ReplicaInv
<1>5. ASSUME NEW j \in jobs,
             \/ insert_assignment_submission(j) \/ open_file(j) \/ write_file(j)
             \/ commit_submission(j) \/ write_file_error(j) \/ lock_timeout(j)
             \/ create_query(j) \/ update_answer_to_query(j)
             \/ row_applied(j)
      PROVE  ReplicaInv'
  BY <1>1, <1>5, JobStepKeeps DEF ReplicaInv
<1>6. ASSUME NEW j \in jobs, call_returned(j) \/ batch_applied(j) PROVE ReplicaInv'
  BY <1>1, <1>6, EndKeeps DEF ReplicaInv
<1>7. CASE UNCHANGED vars
  <2>1. UNCHANGED <<log, tables, lock, jobs>>
    BY <1>7 DEF vars
  <2>2. \A k \in jobs : OpOf(k)' = OpOf(k)
    BY <2>1 DEF OpOf
  <2>3. SubmissionInHand' /\ FileInHand'
    BY <2>1, <2>2 DEF ReplicaInv, SubmissionInHand, FileInHand, FileOf, tables
  <2> QED
    BY <1>1, <2>1, <2>3
       DEF ReplicaInv, OneJobEach, LockOwned, LockLive, RowHasFile, tables
<1> QED
  BY <1>2, <1>3, <1>4, <1>5, <1>6, <1>7 DEF Next

LEMMA ReplicaAlways == Spec => []ReplicaInv
<1> QED
  BY ReplicaInit, ReplicaStep, PTL DEF Spec

-----------------------------------------------------------------------------
(* The tables, files and threads of every node keep their types. *)
THEOREM TypeCorrect == Spec => []TypeOK
<1>1. ReplicaInv => TypeOK
  BY DEF ReplicaInv
<1> QED
  BY <1>1, ReplicaAlways, PTL

(* A committed submission row always has its file, whatever fails, overlaps or
   dies half way (handlers/assignments_handler.py, submit_assignment). *)
THEOREM RowsHaveFiles == Spec => []RowHasFile
<1>1. ReplicaInv => RowHasFile
  BY DEF ReplicaInv
<1> QED
  BY <1>1, ReplicaAlways, PTL

(* The write lock of a node's database is held exactly by the thread between its
   INSERT and its commit or rollback. *)
THEOREM LocksAreHeld == Spec => []LockIsHeld
<1>1. ReplicaInv => LockIsHeld
  <2> SUFFICES ASSUME ReplicaInv, NEW i \in Node
               PROVE  {j.worker : j \in InTransaction(i)} = {lock[i]} \ {Nil}
    BY DEF LockIsHeld
  <2>1. \A j \in InTransaction(i) :
          j \in jobs /\ j.node = i /\ j.stage \in Uncommitted /\ j.worker # Nil
    BY ReplicaAssumption DEF InTransaction, Running, ReplicaInv, TypeOK, Job
  <2>2. \A j \in InTransaction(i) : j.worker = lock[i] /\ lock[i] # Nil
    BY <2>1 DEF ReplicaInv, LockOwned
  <2>3. lock[i] # Nil => \E j \in InTransaction(i) : j.worker = lock[i]
    BY DEF ReplicaInv, LockLive, InTransaction, Running
  <2> QED
    BY <2>2, <2>3
<1> QED
  BY <1>1, ReplicaAlways, PTL

-----------------------------------------------------------------------------
(* Questions: the inductive invariant, over jobs that overlap and followers that start
   again. *)

Asked(i, n) == \E q \in queries[i] : q.ask = log[n].op

(* A client's call, which only the leader has, applies one position; a request of
   the leader applies consecutive ones. *)
Shaped(j) ==
  /\ j.commit = 0 <=> j.node = Leader
  /\ j.commit = 0 => j.rows # <<>> /\ Tail(j.rows) = <<>>
  /\ \A k \in DOMAIN j.rows : j.rows[k] = j.rows[1] + k - 1
JobsShaped == \A j \in jobs : Shaped(j)

(* What a follower's job has behind it, and what it has just done. *)
BelowAsked ==
  \A j \in jobs : j.commit # 0 /\ j.rows # <<>> /\ j.node \notin failed =>
    \A n \in 1..(Head(j.rows) - 1) : log[n].op \in Question => Asked(j.node, n)
DoneAsked ==
  \A j \in jobs : j.rows # <<>> /\ j.stage = "done" /\ j.node \notin failed =>
    (OpOf(j) \in Question => Asked(j.node, Head(j.rows)))

(* The leader counts a position as applied while its call is still applying it. *)
Asking(i, n) ==
  \E j \in jobs : /\ j.node = i /\ j.commit = 0 /\ j.rows # <<>>
                  /\ Head(j.rows) = n /\ j.stage # "done"
AppliedAsked ==
  \A i \in Node \ failed : \A n \in 1..last_applied[i] :
    log[n].op \in Question => Asked(i, n) \/ Asking(i, n)
AppliedLogged ==
  /\ \A i \in Node : last_applied[i] <= Len(log)
  /\ last_applied[Leader] = Len(log)

AskInv == JobsShaped /\ BelowAsked /\ DoneAsked /\ AppliedAsked /\ AppliedLogged

-----------------------------------------------------------------------------
(* No step takes a question away, changes an entry, or forgets a failure. *)
Kept ==
  /\ Len(log) <= Len(log') /\ Len(log') \in Nat /\ failed \subseteq failed'
  /\ \A n \in 1..Len(log) : log'[n] = log[n]
  /\ \A i \in Node, n \in 1..Len(log) : Asked(i, n) => Asked(i, n)'

LEMMA LogFacts ==
  ASSUME TypeOK
  PROVE  /\ Len(log) \in Nat /\ DOMAIN log = 1..Len(log) /\ log \in Seq(Entry)
         /\ \A i \in Node : last_applied[i] \in Nat
         /\ \A j \in jobs : j \in Job /\ j.node \in Node /\ j.commit \in Nat
         /\ Leader \in Node
BY ReplicaAssumption DEF TypeOK, Job

LEMMA QuietKept ==
  ASSUME TypeOK, UNCHANGED <<log, queries>>, failed \subseteq failed'
  PROVE  Kept
BY LogFacts DEF Kept, Asked

LEMMA CallKept ==
  ASSUME TypeOK, NEW o, NEW qid, NEW w, Call(o, qid, w)
  PROVE  /\ Kept /\ Len(log') = Len(log) + 1
         /\ UNCHANGED <<queries, failed>>
<1>1. log \in Seq(Entry) /\ log' = Append(log, [op |-> o, qid |-> qid])
  BY LogFacts DEF Call
<1>2. log \in Seq(Entry \cup {[op |-> o, qid |-> qid]})
  BY <1>1
<1>3. /\ Len(log') = Len(log) + 1 /\ Len(log) \in Nat
      /\ \A n \in 1..Len(log) : log'[n] = log[n]
  BY <1>1, <1>2
<1>4. UNCHANGED <<queries, failed>>
  BY DEF Call, tables, errors
<1> QED
  BY <1>3, <1>4 DEF Kept, Asked

LEMMA CreateKept ==
  ASSUME TypeOK, NEW j \in jobs, create_query(j)
  PROVE  Kept /\ Asked(j.node, Head(j.rows))' /\ UNCHANGED <<log, failed>>
<1> DEFINE q == [id |-> NewId(j.node), ask |-> OpOf(j), reply |-> Nil]
<1>1. /\ queries' = [queries EXCEPT ![j.node] = @ \cup {q}]
      /\ UNCHANGED <<log, failed>> /\ j.node \in Node
  BY LogFacts DEF create_query, errors
<1>2. /\ \A i \in Node : queries[i] \subseteq queries'[i]
      /\ q \in queries'[j.node] /\ q.ask = log[Head(j.rows)].op
  BY <1>1 DEF TypeOK, OpOf
<1>3. Kept
  BY <1>1, <1>2, LogFacts DEF Kept, Asked
<1>4. Asked(j.node, Head(j.rows))'
  BY <1>1, <1>2 DEF Asked
<1> QED
  BY <1>1, <1>3, <1>4

LEMMA UpdateKept ==
  ASSUME TypeOK, NEW j \in jobs, update_answer_to_query(j)
  PROVE  Kept /\ UNCHANGED <<log, failed>>
<1> DEFINE new(q) == Answered(q, OpOf(j), log[Head(j.rows)].qid)
<1>1. /\ queries' = [queries EXCEPT ![j.node] = {new(q) : q \in @}]
      /\ UNCHANGED <<log, failed>> /\ j.node \in Node
  BY LogFacts DEF update_answer_to_query, errors
<1>2. \A q \in queries[j.node] : new(q).ask = q.ask
  BY <1>1 DEF TypeOK, Query, Answered
<1> HIDE DEF new
<1>3. ASSUME NEW i \in Node, NEW n, Asked(i, n)
      PROVE  Asked(i, n)'
  <2>1. PICK q \in queries[i] : q.ask = log[n].op
    BY <1>3 DEF Asked
  <2>2. CASE i = j.node
    <3>1. new(q) \in queries'[i] /\ new(q).ask = log'[n].op
      BY <1>1, <1>2, <2>1, <2>2 DEF TypeOK
    <3> QED
      BY <3>1 DEF Asked
  <2>3. CASE i # j.node
    BY <1>1, <2>1, <2>3 DEF Asked, TypeOK
  <2> QED
    BY <2>2, <2>3
<1> QED
  BY <1>1, <1>3, LogFacts DEF Kept

-----------------------------------------------------------------------------
(* Steps of jobs. *)

LEMMA HeadInLog ==
  ASSUME TypeOK, NEW j \in jobs, j.rows # <<>>
  PROVE  Head(j.rows) \in 1..Len(log) /\ Head(j.rows) \in Nat
<1>1. j.rows \in Seq(Nat) /\ 1 \in DOMAIN j.rows /\ Head(j.rows) = j.rows[1]
  BY DEF TypeOK, Job
<1> QED
  BY <1>1, LogFacts DEF TypeOK

(* A step inside the first position of a job. *)
LEMMA MoveAsks ==
  ASSUME TypeOK, AskInv, Kept, NEW j \in jobs, NEW s, Goto(j, s), j.rows # <<>>,
         UNCHANGED <<log, last_applied>>,
         j.stage # "done",
         s = "done" => \/ j.node \in failed'
                       \/ OpOf(j) \in Question => Asked(j.node, Head(j.rows))'
  PROVE  AskInv'
<1> DEFINE d == [j EXCEPT !.stage = s]
<1>1. /\ jobs' = (jobs \ {j}) \cup {d} /\ j \in Job
      /\ d.node = j.node /\ d.rows = j.rows /\ d.commit = j.commit /\ d.stage = s
  BY DEF TypeOK, Goto, Job
<1> HIDE DEF d
<1>2. /\ \A k \in jobs' : k \in jobs \/ k = d
      /\ \A k \in jobs : k # j => k \in jobs'
      /\ d \in jobs'
  BY <1>1
<1>3. JobsShaped'
  BY <1>1, <1>2 DEF AskInv, JobsShaped, Shaped
<1>4. BelowAsked'
  <2> SUFFICES ASSUME NEW k \in jobs', k.commit # 0, k.rows # <<>>, k.node \notin failed',
                      NEW n \in 1..(Head(k.rows) - 1), log'[n].op \in Question
               PROVE  Asked(k.node, n)'
    BY DEF BelowAsked
  <2>1. PICK m \in jobs : m.node = k.node /\ m.rows = k.rows /\ m.commit = k.commit
    BY <1>1, <1>2
  <2>2. n \in 1..Len(log) /\ m.node \in Node
    BY <2>1, HeadInLog, LogFacts
  <2>3. Asked(m.node, n)
    BY <2>1, <2>2 DEF AskInv, BelowAsked, Kept
  <2> QED
    BY <2>1, <2>2, <2>3 DEF Kept
<1>5. DoneAsked'
  <2> SUFFICES ASSUME NEW k \in jobs', k.rows # <<>>, k.stage = "done", k.node \notin failed',
                      OpOf(k)' \in Question
               PROVE  Asked(k.node, Head(k.rows))'
    BY DEF DoneAsked
  <2>1. CASE k = d
    BY <1>1, <2>1 DEF OpOf
  <2>2. CASE k \in jobs
    <3>1. Head(k.rows) \in 1..Len(log) /\ k.node \in Node
      BY <2>2, HeadInLog, LogFacts
    <3>2. OpOf(k) \in Question /\ k.node \notin failed
      BY DEF OpOf, Kept
    <3>3. Asked(k.node, Head(k.rows))
      BY <2>2, <3>2 DEF AskInv, DoneAsked
    <3> QED
      BY <3>1, <3>3 DEF Kept
  <2> QED
    BY <1>2, <2>1, <2>2
<1>6. AppliedAsked'
  <2> SUFFICES ASSUME NEW i \in Node \ failed', NEW n \in 1..last_applied[i],
                      log'[n].op \in Question, ~Asked(i, n)'
               PROVE  Asking(i, n)'
    BY DEF AppliedAsked
  <2>1. n \in 1..Len(log) /\ i \notin failed
    BY LogFacts DEF AskInv, AppliedLogged, Kept
  <2>2. ~Asked(i, n)
    BY <2>1 DEF Kept
  <2>3. PICK k \in jobs : /\ k.node = i /\ k.commit = 0 /\ k.rows # <<>>
                          /\ Head(k.rows) = n /\ k.stage # "done"
    BY <2>1, <2>2 DEF AskInv, AppliedAsked, Asking
  <2>4. CASE k = j
    <3>1. s # "done"
      BY <2>3, <2>4 DEF OpOf
    <3> QED
      BY <1>1, <1>2, <2>3, <2>4, <3>1 DEF Asking
  <2>5. CASE k # j
    BY <1>2, <2>3, <2>5 DEF Asking
  <2> QED
    BY <2>4, <2>5
<1>7. AppliedLogged'
  BY DEF AskInv, AppliedLogged
<1> QED
  BY <1>3, <1>4, <1>5, <1>6, <1>7 DEF AskInv

(* A job that goes on to its next position has the one before it behind it. *)
LEMMA NextAsks ==
  ASSUME TypeOK, AskInv, NEW j \in jobs, row_applied(j)
  PROVE  AskInv'
<1> DEFINE d == [j EXCEPT !.rows = Tail(@), !.stage = "ready"]
<1>1. /\ jobs' = (jobs \ {j}) \cup {d} /\ j \in Job /\ j.node \in Node
      /\ d.node = j.node /\ d.rows = Tail(j.rows) /\ d.commit = j.commit /\ d.stage = "ready"
      /\ j.rows # <<>> /\ j.stage = "done" /\ j.commit # 0 /\ j.rows \in Seq(Nat)
  BY DEF TypeOK, Job, row_applied, AfterRow, At
<1> HIDE DEF d
<1>2. /\ UNCHANGED <<log, queries, failed>>
      /\ last_applied' = [last_applied EXCEPT ![j.node] = Head(j.rows)]
  BY DEF row_applied, tables, errors
<1>3. /\ \A k \in jobs' : k \in jobs \/ k = d
      /\ \A k \in jobs : k # j => k \in jobs'
  BY <1>1
<1>4. /\ Head(j.rows) = j.rows[1] /\ Len(j.rows) \in Nat \ {0} /\ j.rows[1] \in Nat
      /\ DOMAIN j.rows = 1..Len(j.rows) /\ DOMAIN d.rows = 1..(Len(j.rows) - 1)
      /\ \A k \in DOMAIN d.rows : d.rows[k] = j.rows[k + 1]
      /\ d.rows # <<>> => Head(d.rows) = d.rows[1] /\ 1 \in DOMAIN d.rows
  BY <1>1
<1>5. \A k \in DOMAIN j.rows : j.rows[k] = j.rows[1] + k - 1
  BY DEF AskInv, JobsShaped, Shaped
<1>6. \A k \in DOMAIN d.rows : d.rows[k] = j.rows[1] + k
  <2> SUFFICES ASSUME NEW k \in DOMAIN d.rows PROVE d.rows[k] = j.rows[1] + k
    OBVIOUS
  <2>1. k \in Nat /\ k + 1 \in DOMAIN j.rows /\ d.rows[k] = j.rows[k + 1]
    BY <1>4
  <2>2. j.rows[k + 1] = j.rows[1] + (k + 1) - 1
    BY <1>5, <2>1
  <2> QED
    BY <1>4, <2>1, <2>2
<1>7. d.rows # <<>> => Head(d.rows) = Head(j.rows) + 1
  BY <1>4, <1>6
<1>8. ASSUME j.node \notin failed, NEW n \in 1..Head(j.rows), log[n].op \in Question
      PROVE  Asked(j.node, n)
  <2>1. CASE n = Head(j.rows)
    BY <1>1, <1>8, <2>1 DEF AskInv, DoneAsked, OpOf
  <2>2. CASE n # Head(j.rows)
    <3>1. n \in 1..(Head(j.rows) - 1)
      BY <1>4, <2>2
    <3> QED
      BY <1>1, <1>8, <3>1 DEF AskInv, BelowAsked
  <2> QED
    BY <2>1, <2>2
<1>9. JobsShaped'
  <2>1. d.commit = 0 <=> d.node = Leader
    BY <1>1 DEF AskInv, JobsShaped, Shaped
  <2>2. \A k \in DOMAIN d.rows : d.rows[k] = d.rows[1] + k - 1
    <3> SUFFICES ASSUME NEW k \in DOMAIN d.rows PROVE d.rows[k] = d.rows[1] + k - 1
      OBVIOUS
    <3>1. k \in Nat /\ 1 \in DOMAIN d.rows
      BY <1>4
    <3>2. d.rows[k] = j.rows[1] + k /\ d.rows[1] = j.rows[1] + 1
      BY <1>6, <3>1
    <3> QED
      BY <1>4, <3>1, <3>2
  <2>3. Shaped(d)
    BY <1>1, <2>1, <2>2 DEF Shaped
  <2> QED
    BY <1>3, <2>3 DEF AskInv, JobsShaped, Shaped
<1>10. BelowAsked'
  <2> SUFFICES ASSUME NEW k \in jobs', k.commit # 0, k.rows # <<>>, k.node \notin failed,
                      NEW n \in 1..(Head(k.rows) - 1), log[n].op \in Question
               PROVE  Asked(k.node, n)
    BY <1>2 DEF BelowAsked, Asked
  <2>1. CASE k = d
    <3>1. n \in 1..Head(j.rows)
      BY <1>4, <1>7, <2>1
    <3> QED
      BY <1>1, <1>8, <2>1, <3>1
  <2>2. CASE k \in jobs
    BY <2>2 DEF AskInv, BelowAsked
  <2> QED
    BY <1>3, <2>1, <2>2
<1>11. DoneAsked'
  <2>1. \A k \in jobs' : k.stage = "done" => k \in jobs
    BY <1>1, <1>3
  <2>2. \A k \in jobs : OpOf(k)' = OpOf(k)
    BY <1>2 DEF OpOf
  <2> QED
    BY <1>2, <2>1, <2>2 DEF AskInv, DoneAsked, Asked
<1>12. AppliedAsked'
  <2> SUFFICES ASSUME NEW i \in Node \ failed, NEW n \in 1..last_applied'[i],
                      log[n].op \in Question, ~Asked(i, n)
               PROVE  Asking(i, n)'
    BY <1>2 DEF AppliedAsked, Asked
  <2>1. CASE i = j.node
    <3>1. last_applied'[i] = Head(j.rows)
      BY <1>1, <1>2, <2>1 DEF TypeOK
    <3> QED
      BY <1>8, <2>1, <3>1
  <2>2. CASE i # j.node
    <3>1. last_applied'[i] = last_applied[i]
      BY <1>1, <1>2, <2>2 DEF TypeOK
    <3>2. PICK k \in jobs : /\ k.node = i /\ k.commit = 0 /\ k.rows # <<>>
                            /\ Head(k.rows) = n /\ k.stage # "done"
      BY <3>1 DEF AskInv, AppliedAsked, Asking
    <3> QED
      BY <1>1, <1>3, <3>2 DEF Asking
  <2> QED
    BY <2>1, <2>2
<1>13. AppliedLogged'
  <2>1. j.node # Leader
    BY <1>1 DEF AskInv, JobsShaped, Shaped
  <2> QED
    BY <1>1, <1>2, <2>1, HeadInLog, LogFacts DEF AskInv, AppliedLogged, TypeOK
<1> QED
  BY <1>9, <1>10, <1>11, <1>12, <1>13 DEF AskInv

(* Jobs that end, when those of a call have done their position. *)
LEMMA EndAsks ==
  ASSUME TypeOK, AskInv, UNCHANGED <<log, queries, failed>>, jobs' \subseteq jobs,
         \A i \in Node : last_applied'[i] \in Nat /\ last_applied'[i] <= last_applied[i],
         last_applied'[Leader] = last_applied[Leader],
         \A j \in jobs : j.commit = 0 /\ j.rows # <<>> /\ j.stage # "done" => j \in jobs'
  PROVE  AskInv'
<1>1. \A i, n : Asked(i, n)' = Asked(i, n)
  BY DEF Asked
<1>2. \A j \in jobs : OpOf(j)' = OpOf(j)
  BY DEF OpOf
<1>3. JobsShaped'
  BY DEF AskInv, JobsShaped, Shaped
<1>4. BelowAsked' /\ DoneAsked'
  BY <1>1, <1>2 DEF AskInv, BelowAsked, DoneAsked
<1>5. AppliedAsked'
  <2> SUFFICES ASSUME NEW i \in Node \ failed, NEW n \in 1..last_applied'[i],
                      log[n].op \in Question, ~Asked(i, n)
               PROVE  Asking(i, n)'
    BY <1>1 DEF AppliedAsked
  <2>1. n \in 1..last_applied[i]
    BY LogFacts
  <2>2. Asking(i, n)
    BY <2>1 DEF AskInv, AppliedAsked
  <2> QED
    BY <2>2 DEF Asking
<1>6. AppliedLogged'
  BY LogFacts DEF AskInv, AppliedLogged
<1> QED
  BY <1>3, <1>4, <1>5, <1>6 DEF AskInv

-----------------------------------------------------------------------------
(* Jobs that start. *)

LEMMA StartAsks ==
  ASSUME TypeOK, AskInv, Kept, NEW i \in Node, NEW w, NEW rows \in Seq(Nat), NEW commit \in Nat,
         Start(i, w, rows, commit), UNCHANGED failed,
         Shaped([node |-> i, worker |-> w, rows |-> rows, commit |-> commit, stage |-> "ready"]),
         commit # 0 /\ rows # <<>> => Head(rows) = last_applied[i] + 1,
         commit # 0 => UNCHANGED <<log, last_applied>>,
         commit = 0 => /\ Head(rows) = Len(log) + 1 /\ Len(log') = Len(log) + 1
                       /\ last_applied' = [last_applied EXCEPT ![i] = Len(log) + 1]
  PROVE  AskInv'
<1> DEFINE d == [node |-> i, worker |-> w, rows |-> rows, commit |-> commit, stage |-> "ready"]
<1>1. /\ jobs' = jobs \cup {d} /\ d.node = i /\ d.rows = rows /\ d.commit = commit
      /\ d.stage = "ready" /\ Shaped(d)
  BY DEF Start
<1> HIDE DEF d
<1>2. JobsShaped'
  BY <1>1 DEF AskInv, JobsShaped, Shaped
<1>3. BelowAsked'
  <2> SUFFICES ASSUME NEW k \in jobs', k.commit # 0, k.rows # <<>>, k.node \notin failed,
                      NEW n \in 1..(Head(k.rows) - 1), log'[n].op \in Question
               PROVE  Asked(k.node, n)'
    BY DEF BelowAsked
  <2>1. CASE k = d
    <3>1. n \in 1..last_applied[i] /\ UNCHANGED log /\ k.node = i /\ i # Leader
      BY <1>1, <2>1, LogFacts DEF Shaped
    <3>2. ~Asking(i, n)
      BY <3>1 DEF Asking, AskInv, JobsShaped, Shaped
    <3>3. n \in 1..Len(log) /\ i \notin failed /\ log[n].op \in Question
      <4>1. last_applied[i] \in Nat /\ last_applied[i] <= Len(log) /\ Len(log) \in Nat
        BY LogFacts DEF AskInv, AppliedLogged
      <4>2. n \in 1..Len(log)
        BY <3>1, <4>1
      <4> QED
        BY <3>1, <4>2
    <3>4. Asked(i, n)
      BY <3>1, <3>2, <3>3 DEF AskInv, AppliedAsked
    <3> QED
      BY <3>1, <3>3, <3>4 DEF Kept
  <2>2. CASE k \in jobs
    <3>1. n \in 1..Len(log) /\ k.node \in Node
      BY <2>2, HeadInLog, LogFacts
    <3>2. Asked(k.node, n)
      BY <2>2, <3>1 DEF AskInv, BelowAsked, Kept
    <3> QED
      BY <3>1, <3>2 DEF Kept
  <2> QED
    BY <1>1, <2>1, <2>2
<1>4. DoneAsked'
  <2> SUFFICES ASSUME NEW k \in jobs', k.rows # <<>>, k.stage = "done", k.node \notin failed,
                      OpOf(k)' \in Question
               PROVE  Asked(k.node, Head(k.rows))'
    BY DEF DoneAsked
  <2>1. k \in jobs
    BY <1>1
  <2>2. Head(k.rows) \in 1..Len(log) /\ k.node \in Node
    BY <2>1, HeadInLog, LogFacts
  <2>3. OpOf(k) \in Question
    BY <2>2 DEF OpOf, Kept
  <2>4. Asked(k.node, Head(k.rows))
    BY <2>1, <2>3 DEF AskInv, DoneAsked
  <2> QED
    BY <2>2, <2>4 DEF Kept
<1>5. AppliedAsked'
  <2> SUFFICES ASSUME NEW k \in Node \ failed, NEW n \in 1..last_applied'[k],
                      log'[n].op \in Question, ~Asked(k, n)'
               PROVE  Asking(k, n)'
    BY DEF AppliedAsked
  <2>1. CASE n \in 1..Len(log) /\ n \in 1..last_applied[k]
    <3>1. ~Asked(k, n) /\ log[n].op \in Question
      BY <2>1 DEF Kept
    <3>2. Asking(k, n)
      BY <2>1, <3>1 DEF AskInv, AppliedAsked
    <3> QED
      BY <1>1, <3>2 DEF Asking
  <2>2. CASE last_applied'[k] = last_applied[k]
    <3>1. n \in 1..Len(log) /\ n \in 1..last_applied[k]
      BY <2>2, LogFacts DEF AskInv, AppliedLogged
    <3> QED
      BY <2>1, <3>1
  <2>3. CASE k = i /\ commit = 0
    <3>0. /\ Head(rows) = Len(log) + 1 /\ last_applied'[k] = Len(log) + 1
          /\ k = Leader /\ rows # <<>>
      BY <1>1, <2>3 DEF Shaped, TypeOK
    <3>1. CASE n = Len(log) + 1
      BY <1>1, <2>3, <3>0, <3>1 DEF Asking
    <3>2. CASE n # Len(log) + 1
      <4>1. n \in 1..Len(log) /\ n \in 1..last_applied[k]
        BY <3>0, <3>2, LogFacts DEF AskInv, AppliedLogged
      <4> QED
        BY <4>1, <2>1
    <3> QED
      BY <3>1, <3>2
  <2>4. k # i \/ commit # 0 => last_applied'[k] = last_applied[k]
    BY DEF TypeOK
  <2> QED
    BY <2>2, <2>3, <2>4
<1>6. AppliedLogged'
  <2>1. CASE commit = 0
    <3>1. i = Leader
      BY <1>1, <2>1 DEF Shaped
    <3>2. /\ Len(log) \in Nat /\ Len(log') = Len(log) + 1 /\ Leader \in Node
          /\ \A k \in Node : last_applied[k] \in Nat /\ last_applied[k] <= Len(log)
      BY <2>1, LogFacts DEF AskInv, AppliedLogged
    <3>3. /\ last_applied'[Leader] = Len(log) + 1
          /\ \A k \in Node : k # Leader => last_applied'[k] = last_applied[k]
      BY <2>1, <3>1, <3>2 DEF TypeOK
    <3> QED
      BY <3>2, <3>3 DEF AppliedLogged
  <2>2. CASE commit # 0
    BY <2>2 DEF AskInv, AppliedLogged
  <2> QED
    BY <2>1, <2>2
<1> QED
  BY <1>2, <1>3, <1>4, <1>5, <1>6 DEF AskInv

-----------------------------------------------------------------------------
(* The steps of the specification. *)

LEMMA CallAsks ==
  ASSUME TypeOK, AskInv, NEW o, NEW qid, NEW w, Call(o, qid, w)
  PROVE  AskInv'
<1> DEFINE rows == <<Len(log) + 1>>
<1>1. /\ Start(Leader, w, rows, 0) /\ UNCHANGED failed
      /\ last_applied' = [last_applied EXCEPT ![Leader] = Len(log) + 1]
  BY DEF Call, errors
<1>2. /\ rows \in Seq(Nat) /\ Head(rows) = Len(log) + 1 /\ rows # <<>> /\ Tail(rows) = <<>>
      /\ DOMAIN rows = {1}
  BY LogFacts
<1>3. \A k \in DOMAIN rows : rows[k] = rows[1] + k - 1
  BY <1>2, LogFacts
<1> HIDE DEF rows
<1>4. Shaped([node |-> Leader, worker |-> w, rows |-> rows, commit |-> 0, stage |-> "ready"])
  BY <1>2, <1>3 DEF Shaped
<1>5. Kept /\ Len(log') = Len(log) + 1
  BY CallKept
<1> QED
  BY <1>1, <1>2, <1>4, <1>5, LogFacts, StartAsks

LEMMA AppendAsks ==
  ASSUME TypeOK, AskInv, NEW i \in Node, NEW n \in 1..Len(log), NEW w,
         follower_append_entries(i, n, w)
  PROVE  AskInv'
<1>1. /\ Start(i, w, Pending(i, n), n) /\ UNCHANGED <<log, queries, failed, last_applied>>
      /\ i # Leader /\ n \in Nat \ {0}
  BY LogFacts DEF follower_append_entries, tables, errors, indices
<1> DEFINE first == last_applied[i] + 1
           len == IF n < first THEN 0 ELSE n - first + 1
<1>2. first \in Nat /\ len \in Nat
  BY <1>1, LogFacts
<1>3. Pending(i, n) = [k \in 1..len |-> first + k - 1]
  BY DEF Pending, From
<1> DEFINE rows == Pending(i, n)
<1> HIDE DEF len
<1>4. rows \in [1..len -> Nat] /\ DOMAIN rows = 1..len
  BY <1>2, <1>3
<1>5. rows \in Seq(Nat)
  BY <1>2, <1>4, SeqDef
<1>6. ASSUME NEW k \in DOMAIN rows
      PROVE  rows[k] = rows[1] + k - 1
  <2>1. k \in 1..len /\ 1 \in 1..len
    BY <1>2, <1>4
  <2>2. rows[k] = first + k - 1 /\ rows[1] = first + 1 - 1
    BY <1>3, <2>1
  <2> QED
    BY <1>2, <2>1, <2>2
<1>7. rows # <<>> => Head(rows) = first
  <2> SUFFICES ASSUME rows # <<>> PROVE Head(rows) = first
    OBVIOUS
  <2>1. 1 \in DOMAIN rows /\ Head(rows) = rows[1]
    BY <1>5
  <2>2. rows[1] = first + 1 - 1
    BY <1>3, <1>4, <2>1
  <2> QED
    BY <1>2, <2>1, <2>2
<1> HIDE DEF rows
<1>8. Shaped([node |-> i, worker |-> w, rows |-> rows, commit |-> n, stage |-> "ready"])
  BY <1>1, <1>6 DEF Shaped
<1>9. Kept
  BY <1>1, QuietKept
<1>10. Start(i, w, rows, n)
  BY <1>1 DEF rows
<1> QED
  BY <1>1, <1>5, <1>7, <1>8, <1>9, <1>10, StartAsks

LEMMA JobAsks ==
  ASSUME TypeOK, SubmissionInHand, AskInv, NEW j \in jobs,
         \/ insert_assignment_submission(j) \/ open_file(j) \/ write_file(j)
         \/ commit_submission(j) \/ write_file_error(j) \/ lock_timeout(j)
         \/ create_query(j) \/ update_answer_to_query(j)
  PROVE  AskInv'
<1> USE DEF indices, tables, errors
<1>1. CASE insert_assignment_submission(j)
  <2>1. Goto(j, "inserted") /\ UNCHANGED <<log, last_applied, queries, failed>>
        /\ j.rows # <<>> /\ j.stage # "done"
    BY <1>1 DEF insert_assignment_submission, At
  <2> QED
    BY <2>1, QuietKept, MoveAsks
<1>2. CASE open_file(j)
  <2>1. Goto(j, "opened") /\ UNCHANGED <<log, last_applied, queries, failed>>
        /\ j.rows # <<>> /\ j.stage # "done"
    BY <1>2 DEF open_file, At
  <2> QED
    BY <2>1, QuietKept, MoveAsks
<1>3. CASE write_file(j)
  <2>1. Goto(j, "written") /\ UNCHANGED <<log, last_applied, queries, failed>>
        /\ j.rows # <<>> /\ j.stage # "done"
    BY <1>3 DEF write_file, At
  <2> QED
    BY <2>1, QuietKept, MoveAsks
<1>4. CASE commit_submission(j)
  <2>1. Goto(j, "done") /\ UNCHANGED <<log, last_applied, queries, failed>>
        /\ j.rows # <<>> /\ j.stage = "written"
    BY <1>4 DEF commit_submission, ReadyToCommit, At
  <2>2. OpOf(j) \notin Question
    BY <2>1, ReplicaAssumption DEF SubmissionInHand, Uncommitted
  <2> QED
    BY <2>1, <2>2, QuietKept, MoveAsks
<1>5. CASE write_file_error(j) \/ lock_timeout(j)
  <2>1. /\ Goto(j, "done") /\ UNCHANGED <<log, last_applied, queries>>
        /\ failed' = failed \cup {j.node} /\ j.rows # <<>> /\ j.stage # "done"
    BY <1>5 DEF write_file_error, lock_timeout, Fail, At
  <2> QED
    BY <2>1, QuietKept, MoveAsks
<1>6. CASE create_query(j)
  <2>1. Goto(j, "done") /\ UNCHANGED <<log, last_applied>> /\ j.rows # <<>> /\ j.stage # "done"
    BY <1>6 DEF create_query, At
  <2> QED
    BY <1>6, <2>1, CreateKept, MoveAsks
<1>7. CASE update_answer_to_query(j)
  <2>1. /\ Goto(j, "done") /\ UNCHANGED <<log, last_applied>> /\ j.rows # <<>>
        /\ j.stage # "done" /\ OpOf(j) \notin Question
    BY <1>7, ReplicaAssumption DEF update_answer_to_query, At
  <2> QED
    BY <1>7, <2>1, UpdateKept, MoveAsks
<1> QED
  BY <1>1, <1>2, <1>3, <1>4, <1>5, <1>6, <1>7

LEMMA AskInit == Init => AskInv
BY ReplicaAssumption
   DEF Init, AskInv, JobsShaped, BelowAsked, DoneAsked, AppliedAsked, AppliedLogged

LEMMA AskStep == TypeOK /\ SubmissionInHand /\ AskInv /\ [Next]_vars => AskInv'
<1> SUFFICES ASSUME TypeOK, SubmissionInHand, AskInv, [Next]_vars PROVE AskInv'
  OBVIOUS
<1> USE DEF indices, tables, errors
<1>1. ASSUME NEW o \in Op, NEW w \in Worker,
             submitAssignment(o, w) \/ createQuery(o, w) \/ answerQuery(o, w)
      PROVE  AskInv'
  <2>1. PICK qid : Call(o, qid, w)
    BY <1>1 DEF submitAssignment, createQuery, answerQuery
  <2> QED
    BY <2>1, CallAsks
<1>2. ASSUME NEW i \in Node, NEW n \in 1..Len(log), NEW w \in Worker,
             follower_append_entries(i, n, w)
      PROVE  AskInv'
  BY <1>2, AppendAsks
<1>3. ASSUME NEW i \in Node, restart(i) PROVE AskInv'
  <2>1. /\ UNCHANGED <<log, queries, failed>> /\ i # Leader
        /\ jobs' = {j \in jobs : j.node # i}
        /\ last_applied' = [last_applied EXCEPT ![i] = 0]
    BY <1>3 DEF restart, Running
  <2>2. \A k \in Node : last_applied'[k] \in Nat /\ last_applied'[k] <= last_applied[k]
    BY <2>1, LogFacts DEF TypeOK
  <2>3. last_applied'[Leader] = last_applied[Leader]
    BY <2>1, LogFacts DEF TypeOK
  <2>4. \A j \in jobs : j.commit = 0 => j \in jobs'
    BY <2>1 DEF AskInv, JobsShaped, Shaped
  <2> QED
    BY <2>1, <2>2, <2>3, <2>4, EndAsks
<1>4. ASSUME NEW j \in jobs,
             \/ insert_assignment_submission(j) \/ open_file(j) \/ write_file(j)
             \/ commit_submission(j) \/ write_file_error(j) \/ lock_timeout(j)
             \/ create_query(j) \/ update_answer_to_query(j)
      PROVE  AskInv'
  BY <1>4, JobAsks
<1>5. ASSUME NEW j \in jobs, row_applied(j) PROVE AskInv'
  BY <1>5, NextAsks
<1>6. ASSUME NEW j \in jobs, call_returned(j) \/ batch_applied(j) PROVE AskInv'
  <2>1. /\ jobs' = jobs \ {j} /\ UNCHANGED <<log, queries, failed, last_applied>>
        /\ j.stage = "done" \/ j.rows = <<>>
    BY <1>6 DEF call_returned, batch_applied, At
  <2>2. \A i \in Node : last_applied'[i] \in Nat /\ last_applied'[i] <= last_applied[i]
    BY <2>1, LogFacts
  <2> QED
    BY <2>1, <2>2, EndAsks
<1>7. CASE UNCHANGED vars
  <2>1. UNCHANGED <<log, queries, failed, last_applied, jobs>>
    BY <1>7 DEF vars
  <2>2. \A i \in Node : last_applied'[i] \in Nat /\ last_applied'[i] <= last_applied[i]
    BY <2>1, LogFacts
  <2> QED
    BY <2>1, <2>2, EndAsks
<1> QED
  BY <1>1, <1>2, <1>3, <1>4, <1>5, <1>6, <1>7 DEF Next

-----------------------------------------------------------------------------
(* Every question that a node at rest has applied is a row of its table, over
   handlers that overlap and restarts that replay the log: _apply_committed_entries
   sets last_applied after apply, and nothing deletes from the table. *)
THEOREM QuestionsAreKept == Spec => []QuestionsAreAsked
<1>1. ReplicaInv => TypeOK /\ SubmissionInHand
  BY DEF ReplicaInv
<1>2. TypeOK /\ AskInv => QuestionsAreAsked
  <2> SUFFICES ASSUME TypeOK, AskInv, NEW i \in Node \ failed, Quiet(i),
                      NEW n \in Applied(Question, last_applied[i])
               PROVE  \E q \in queries[i] : q.ask = log[n].op
    BY DEF QuestionsAreAsked
  <2>1. n \in 1..last_applied[i] /\ log[n].op \in Question
    BY DEF Applied
  <2>2. ~Asking(i, n)
    BY DEF Asking, Quiet, Running
  <2> QED
    BY <2>1, <2>2 DEF AskInv, AppliedAsked, Asked
<1> QED
  BY <1>1, <1>2, AskInit, AskStep, ReplicaAlways, PTL DEF Spec

-----------------------------------------------------------------------------
(* Submissions: the inductive invariant.  A node whose jobs run one after the other
   has, of the positions behind it, what each student made last; only the student
   whose submission a job is writing is out of that, until the job is done. *)

Sound == Node \ (overlapped \cup failed)
Alone == \A i \in Node \ overlapped : \A j, k \in Running(i) : j = k

LastOf(S, n) == n \in S /\ \A m \in S : m <= n
Holds(i, s, o) == assignment_submissions[i][s] = FileOf(o) /\ Resources[i][FileOf(o)] = o
HasLast(i, k, s) ==
  LET made == Applied(By(s), k)
  IN  made # {} => \E n \in made : LastOf(made, n) /\ Holds(i, s, log[n].op)
Stored(i, k) == \A s \in Student : HasLast(i, k, s)

Writing(j, s) == j.stage \in Uncommitted \cup {"done"} /\ OpOf(j) \in By(s)
AtRestStored == \A i \in Sound : Quiet(i) => Stored(i, last_applied[i])
OverStored ==
  \A j \in jobs : j.node \in Sound /\ j.rows = <<>> => Stored(j.node, last_applied[j.node])
AtNext ==
  \A j \in jobs : j.node \in Sound /\ j.rows # <<>> =>
    Head(j.rows) = IF j.node = Leader THEN last_applied[j.node] ELSE last_applied[j.node] + 1
BelowStored ==
  \A j \in jobs : j.node \in Sound /\ j.rows # <<>> =>
    \A s \in Student : HasLast(j.node, Head(j.rows) - 1, s) \/ Writing(j, s)
WrittenStored ==
  \A j \in jobs : j.node \in Sound /\ j.rows # <<>> /\ j.stage = "written" =>
    Resources[j.node][FileOf(OpOf(j))] = OpOf(j)
DoneStored ==
  \A j \in jobs : j.node \in Sound /\ j.rows # <<>> /\ j.stage = "done" =>
    Stored(j.node, Head(j.rows))

StoreInv == /\ Alone /\ AtRestStored /\ OverStored /\ AtNext
            /\ BelowStored /\ WrittenStored /\ DoneStored

-----------------------------------------------------------------------------
(* What a student made last. *)

LEMMA SameLast ==
  ASSUME NEW i, NEW k \in Nat, NEW s, HasLast(i, k, s),
         \A n \in 1..k : log'[n] = log[n],
         assignment_submissions'[i][s] = assignment_submissions[i][s],
         \A o \in By(s) : Resources'[i][FileOf(o)] = Resources[i][FileOf(o)]
  PROVE  HasLast(i, k, s)'
<1> DEFINE made == Applied(By(s), k)
           made2 == Applied(By(s), k)'
<1>1. made2 = made
  BY DEF Applied
<1>2. \A n \in made : log'[n] = log[n] /\ log[n].op \in By(s)
  BY DEF Applied
<1>3. made # {} => \E n \in made : LastOf(made, n) /\ Holds(i, s, log[n].op)
  BY DEF HasLast
<1>4. \A n \in made : Holds(i, s, log[n].op) => Holds(i, s, log[n].op)'
  BY <1>2 DEF Holds, FileOf
<1> HIDE DEF made
<1>5. made2 # {} => \E n \in made2 : LastOf(made2, n) /\ Holds(i, s, log[n].op)'
  BY <1>1, <1>3, <1>4
<1> QED
  BY <1>5 DEF HasLast, LastOf

LEMMA OtherLast ==
  ASSUME NEW i, NEW k \in Nat \ {0}, NEW s, log[k].op \notin By(s), HasLast(i, k - 1, s)
  PROVE  HasLast(i, k, s)
<1>1. Applied(By(s), k) = Applied(By(s), k - 1)
  <2>1. \A n : n \in 1..k /\ n # k <=> n \in 1..(k - 1)
    OBVIOUS
  <2> QED
    BY <2>1 DEF Applied
<1> QED
  BY <1>1 DEF HasLast

LEMMA NewLast ==
  ASSUME NEW i, NEW k \in Nat \ {0}, NEW s, log'[k].op \in By(s), Holds(i, s, log[k].op)'
  PROVE  HasLast(i, k, s)'
<1>1. k \in Applied(By(s), k)' /\ \A m \in Applied(By(s), k)' : m <= k
  BY DEF Applied
<1> QED
  BY <1>1 DEF HasLast, LastOf

LEMMA NothingLast == \A i, s : HasLast(i, 0, s)
BY DEF HasLast, Applied

-----------------------------------------------------------------------------
(* Jobs of a node run one after the other, or the node is known for it. *)

LEMMA AloneStep ==
  ASSUME TypeOK, Alone, [Next]_vars
  PROVE  Alone'
<1>1. ASSUME NEW i \in Node, NEW w, NEW rows, NEW commit, Start(i, w, rows, commit)
      PROVE  Alone'
  <2> DEFINE d == [node |-> i, worker |-> w, rows |-> rows, commit |-> commit,
                   stage |-> "ready"]
  <2>1. jobs' = jobs \cup {d} /\ d.node = i
    BY <1>1 DEF Start
  <2> HIDE DEF d
  <2>2. \A k : k # i => Running(k)' = Running(k)
    BY <2>1 DEF Running
  <2>3. Running(i) = {} => Running(i)' = {d}
    BY <2>1 DEF Running
  <2>4. overlapped \subseteq overlapped' /\ (Running(i) # {} => i \in overlapped')
    BY <1>1 DEF Start
  <2> QED
    BY <2>2, <2>3, <2>4 DEF Alone
<1>2. ASSUME NEW j \in jobs, NEW d, jobs' = (jobs \ {j}) \cup {d}, d.node = j.node,
             UNCHANGED overlapped
      PROVE  Alone'
  BY <1>2 DEF Alone, Running
<1>3. CASE jobs' \subseteq jobs /\ UNCHANGED overlapped
  BY <1>3 DEF Alone, Running
<1>4. ASSUME NEW j \in jobs, NEW s, Goto(j, s), UNCHANGED overlapped PROVE Alone'
  BY <1>2, <1>4, MovedJob
<1>5. ASSUME NEW o, NEW qid, NEW w, Call(o, qid, w) PROVE Alone'
  BY <1>1, <1>5, LogFacts DEF Call
<1>6. ASSUME NEW o \in Op, NEW w \in Worker,
             submitAssignment(o, w) \/ createQuery(o, w) \/ answerQuery(o, w)
      PROVE  Alone'
  BY <1>5, <1>6 DEF submitAssignment, createQuery, answerQuery
<1>7. ASSUME NEW i \in Node, NEW n \in 1..Len(log), NEW w \in Worker,
             follower_append_entries(i, n, w)
      PROVE  Alone'
  BY <1>1, <1>7 DEF follower_append_entries
<1>8. ASSUME NEW i \in Node, restart(i) PROVE Alone'
  BY <1>3, <1>8 DEF restart
<1>9. ASSUME NEW j \in jobs,
             \/ insert_assignment_submission(j) \/ open_file(j) \/ write_file(j)
             \/ commit_submission(j)
      PROVE  Alone'
  BY <1>4, <1>9 DEF insert_assignment_submission, open_file, write_file, commit_submission
<1>10. ASSUME NEW j \in jobs,
             \/ write_file_error(j) \/ lock_timeout(j)
             \/ create_query(j) \/ update_answer_to_query(j)
      PROVE  Alone'
  BY <1>4, <1>10 DEF write_file_error, lock_timeout, create_query, update_answer_to_query, Fail
<1>11. ASSUME NEW j \in jobs, row_applied(j) PROVE Alone'
  <2> DEFINE d == [j EXCEPT !.rows = Tail(@), !.stage = "ready"]
  <2>1. jobs' = (jobs \ {j}) \cup {d} /\ d.node = j.node /\ UNCHANGED overlapped
    BY <1>11 DEF row_applied, AfterRow, TypeOK, Job
  <2> HIDE DEF d
  <2> QED
    BY <1>2, <2>1
<1>12. ASSUME NEW j \in jobs, call_returned(j) \/ batch_applied(j) PROVE Alone'
  BY <1>3, <1>12 DEF call_returned, batch_applied
<1>13. CASE UNCHANGED vars
  BY <1>3, <1>13 DEF vars
<1> QED
  BY <1>6, <1>7, <1>8, <1>9, <1>10, <1>11, <1>12, <1>13 DEF Next

-----------------------------------------------------------------------------
(* Steps of jobs. *)

(* Of the nodes where a step changes neither table nor file, what was stored stays so. *)
LEMMA StoredKept ==
  ASSUME TypeOK, NEW i \in Node, NEW k \in Nat, NEW s \in Student, HasLast(i, k, s),
         UNCHANGED log, assignment_submissions'[i] = assignment_submissions[i],
         Resources'[i] = Resources[i]
  PROVE  HasLast(i, k, s)'
BY SameLast

LEMMA MoveStores ==
  ASSUME TypeOK, StoreInv, Alone', NEW j \in jobs, NEW t, Goto(j, t), j.rows # <<>>,
         UNCHANGED <<log, last_applied, overlapped>>, failed \subseteq failed',
         \A i \in Node \ {j.node} : /\ assignment_submissions'[i] = assignment_submissions[i]
                                    /\ Resources'[i] = Resources[i],
         j.node \in Sound' =>
           /\ \A s \in Student : \/ HasLast(j.node, Head(j.rows) - 1, s)'
                                 \/ t \in Uncommitted \cup {"done"} /\ OpOf(j) \in By(s)
           /\ t = "written" => Resources'[j.node][FileOf(OpOf(j))] = OpOf(j)
           /\ t = "done" => Stored(j.node, Head(j.rows))'
  PROVE  StoreInv'
<1> DEFINE d == [j EXCEPT !.stage = t]
<1>1. /\ jobs' = (jobs \ {j}) \cup {d} /\ j \in Job /\ j.node \in Node
      /\ d.node = j.node /\ d.rows = j.rows /\ d.stage = t
  BY DEF TypeOK, Goto, Job
<1> HIDE DEF d
<1>2. /\ \A k \in jobs' : k \in jobs \/ k = d
      /\ \A k \in jobs : k # j => k \in jobs'
      /\ d \in jobs' /\ Sound' \subseteq Sound /\ Sound \subseteq Node
  BY <1>1 DEF Sound
<1>3. ASSUME NEW k \in jobs', k # d, k.node \in Sound'
      PROVE  k \in jobs /\ k.node \in Node \ {j.node} /\ k.node \in Sound
  <2>1. k \in jobs /\ k.node \in Sound /\ k.node \in Node \ overlapped'
    BY <1>2, <1>3 DEF Sound
  <2>2. k.node # j.node
    BY <1>1, <1>2, <1>3, <2>1 DEF Alone, Running
  <2> QED
    BY <1>2, <2>1, <2>2
<1>4. ASSUME NEW k \in jobs PROVE OpOf(k)' = OpOf(k)
  BY DEF OpOf
<1>5. OpOf(d)' = OpOf(j)
  BY <1>1 DEF OpOf
<1>6. ASSUME NEW i \in Node \ {j.node}, NEW k \in Nat, NEW s \in Student, HasLast(i, k, s)
      PROVE  HasLast(i, k, s)'
  BY <1>6, StoredKept
<1>7. AtRestStored'
  <2> SUFFICES ASSUME NEW i \in Sound', Quiet(i)', NEW s \in Student
               PROVE  HasLast(i, last_applied[i], s)'
    BY DEF AtRestStored, Stored
  <2>1. i # j.node /\ i \in Sound
    BY <1>1, <1>2 DEF Quiet, Running
  <2>2. Quiet(i)
    BY <1>1, <1>2, <2>1 DEF Quiet, Running
  <2>3. PICK k \in Nat : k = last_applied[i]
    BY <1>2, <2>1, LogFacts
  <2>4. HasLast(i, k, s)
    BY <2>1, <2>2, <2>3 DEF StoreInv, AtRestStored, Stored
  <2>5. HasLast(i, k, s)'
    BY <1>2, <1>6, <2>1, <2>4
  <2> QED
    BY <2>3, <2>5
<1>8. OverStored'
  <2> SUFFICES ASSUME NEW k \in jobs', k.node \in Sound', k.rows = <<>>, NEW s \in Student
               PROVE  HasLast(k.node, last_applied[k.node], s)'
    BY DEF OverStored, Stored
  <2>1. k \in jobs /\ k.node \in Node \ {j.node} /\ k.node \in Sound
    BY <1>1, <1>3
  <2>2. PICK n \in Nat : n = last_applied[k.node]
    BY <2>1, LogFacts
  <2>3. HasLast(k.node, n, s)
    BY <2>1, <2>2 DEF StoreInv, OverStored, Stored
  <2>4. HasLast(k.node, n, s)'
    BY <1>6, <2>1, <2>3
  <2> QED
    BY <2>2, <2>4
<1>9. AtNext'
  BY <1>1, <1>2 DEF StoreInv, AtNext
<1>10. ASSUME NEW k \in jobs', k.node \in Sound', k.rows # <<>>
       PROVE  /\ \A s \in Student : HasLast(k.node, Head(k.rows) - 1, s)' \/ Writing(k, s)'
              /\ k.stage = "written" =>
                   Resources'[k.node][FileOf(OpOf(k)')] = OpOf(k)'
              /\ k.stage = "done" => Stored(k.node, Head(k.rows))'
  <2>1. CASE k = d
    BY <1>1, <1>5, <1>10, <2>1 DEF Writing
  <2>2. CASE k # d
    <3>1. k \in jobs /\ k.node \in Node \ {j.node} /\ k.node \in Sound
      BY <1>3, <1>10, <2>2
    <3>2. Head(k.rows) \in Nat /\ Head(k.rows) - 1 \in Nat
      BY <1>10, <3>1, HeadInLog
    <3>3. \A s \in Student : HasLast(k.node, Head(k.rows) - 1, s) \/ Writing(k, s)
      BY <1>10, <3>1 DEF StoreInv, BelowStored
    <3>4. \A s \in Student : HasLast(k.node, Head(k.rows) - 1, s)' \/ Writing(k, s)'
      BY <1>4, <1>6, <3>1, <3>2, <3>3 DEF Writing
    <3>5. k.stage = "written" => Resources'[k.node][FileOf(OpOf(k)')] = OpOf(k)'
      BY <1>4, <1>10, <3>1 DEF StoreInv, WrittenStored
    <3>6. k.stage = "done" => Stored(k.node, Head(k.rows))'
      BY <1>6, <1>10, <3>1, <3>2 DEF StoreInv, DoneStored, Stored
    <3> QED
      BY <3>4, <3>5, <3>6
  <2> QED
    BY <2>1, <2>2
<1>11. BelowStored' /\ WrittenStored' /\ DoneStored'
  BY <1>10 DEF BelowStored, WrittenStored, DoneStored, FileOf
<1> QED
  BY <1>7, <1>8, <1>9, <1>11 DEF StoreInv

(* Writing the file of one student leaves what the others made. *)
LEMMA WriteLast ==
  ASSUME TypeOK, NEW j \in jobs, OpOf(j) \in Submission, NEW s \in Student, OpOf(j) \notin By(s),
         NEW k \in Nat, HasLast(j.node, k, s), UNCHANGED log,
         assignment_submissions'[j.node][s] = assignment_submissions[j.node][s],
         \A f \in File : f # FileOf(OpOf(j)) => Resources'[j.node][f] = Resources[j.node][f]
  PROVE  HasLast(j.node, k, s)'
<1>1. ASSUME NEW o \in By(s) PROVE Resources'[j.node][FileOf(o)] = Resources[j.node][FileOf(o)]
  <2>1. student[o] = s /\ student[OpOf(j)] # s /\ o \in Submission
    BY DEF By
  <2>2. FileOf(o) # FileOf(OpOf(j)) /\ FileOf(o) \in File
    BY <2>1, FileFacts DEF FileOf
  <2> QED
    BY <2>2
<1> QED
  BY <1>1, SameLast

LEMMA JobStores ==
  ASSUME TypeOK, SubmissionInHand, StoreInv, Alone', NEW j \in jobs,
         \/ insert_assignment_submission(j) \/ open_file(j) \/ write_file(j)
         \/ commit_submission(j) \/ write_file_error(j) \/ lock_timeout(j)
         \/ create_query(j) \/ update_answer_to_query(j)
  PROVE  StoreInv'
<1> USE DEF indices, tables, errors
<1>0. j.node \in Node /\ (j.rows # <<>> => Head(j.rows) \in Nat \ {0} /\ Head(j.rows) - 1 \in Nat)
  BY LogFacts, HeadInLog
<1>1. ASSUME j.node \in Sound, j.rows # <<>>, NEW s \in Student,
             ~Writing(j, s)
      PROVE  HasLast(j.node, Head(j.rows) - 1, s)
  BY <1>1 DEF StoreInv, BelowStored
<1>2. CASE insert_assignment_submission(j)
  <2>1. /\ Goto(j, "inserted") /\ j.rows # <<>> /\ j.stage = "ready"
        /\ UNCHANGED <<log, last_applied, overlapped, failed, assignment_submissions, Resources>>
    BY <1>2 DEF insert_assignment_submission, At
  <2>2. ASSUME j.node \in Sound', NEW s \in Student
        PROVE  HasLast(j.node, Head(j.rows) - 1, s)'
    <3>1. ~Writing(j, s) /\ j.node \in Sound
      BY <2>1, <2>2 DEF Writing, Uncommitted, Sound
    <3> QED
      BY <1>0, <1>1, <2>1, <3>1, StoredKept
  <2> QED
    BY <2>1, <2>2, MoveStores
<1>3. ASSUME NEW t \in {"opened", "written"}, NEW v, Goto(j, t), j.rows # <<>>,
             j.stage \in {"inserted", "opened"}, t = "written" => v = OpOf(j),
             Resources' = [Resources EXCEPT ![j.node][FileOf(OpOf(j))] = v],
             UNCHANGED <<log, last_applied, overlapped, failed, assignment_submissions>>
      PROVE  StoreInv'
  <2>1. OpOf(j) \in Submission
    BY <1>3 DEF SubmissionInHand, Uncommitted
  <2>2. /\ \A i \in Node \ {j.node} : Resources'[i] = Resources[i]
        /\ \A f \in File : f # FileOf(OpOf(j)) => Resources'[j.node][f] = Resources[j.node][f]
        /\ Resources'[j.node][FileOf(OpOf(j))] = v
    BY <1>0, <1>3, <2>1, FileFacts DEF TypeOK
  <2>3. ASSUME j.node \in Sound', NEW s \in Student, OpOf(j) \notin By(s)
        PROVE  HasLast(j.node, Head(j.rows) - 1, s)'
    <3>1. ~Writing(j, s) /\ j.node \in Sound
      BY <1>3, <2>3 DEF Writing, Sound
    <3>2. HasLast(j.node, Head(j.rows) - 1, s)
      BY <1>1, <1>3, <3>1
    <3> QED
      BY <1>0, <1>3, <2>1, <2>2, <2>3, <3>2, WriteLast
  <2>4. t \in Uncommitted /\ t # "done"
    BY <1>3 DEF Uncommitted
  <2> QED
    BY <1>3, <2>2, <2>3, <2>4, MoveStores
<1>4. CASE open_file(j)
  <2>1. /\ Goto(j, "opened") /\ j.rows # <<>> /\ j.stage = "inserted"
        /\ Resources' = [Resources EXCEPT ![j.node][FileOf(OpOf(j))] = "partial"]
        /\ UNCHANGED <<log, last_applied, overlapped, failed, assignment_submissions>>
    BY <1>4 DEF open_file, At
  <2> QED
    BY <1>3, <2>1
<1>5. CASE write_file(j)
  <2>1. /\ Goto(j, "written") /\ j.rows # <<>> /\ j.stage = "opened"
        /\ Resources' = [Resources EXCEPT ![j.node][FileOf(OpOf(j))] = OpOf(j)]
        /\ UNCHANGED <<log, last_applied, overlapped, failed, assignment_submissions>>
    BY <1>5 DEF write_file, At
  <2> QED
    BY <1>3, <2>1
<1>6. CASE commit_submission(j)
  <2>1. /\ Goto(j, "done") /\ j.rows # <<>> /\ j.stage = "written"
        /\ assignment_submissions' =
             [assignment_submissions EXCEPT ![j.node][student[OpOf(j)]] = FileOf(OpOf(j))]
        /\ UNCHANGED <<log, last_applied, overlapped, failed, Resources>>
    BY <1>6 DEF commit_submission, ReadyToCommit, At, NewRow
  <2>2. OpOf(j) \in Submission
    BY <2>1 DEF SubmissionInHand, Uncommitted
  <2>3. /\ \A i \in Node \ {j.node} : assignment_submissions'[i] = assignment_submissions[i]
        /\ \A s \in Student : s # student[OpOf(j)] =>
             assignment_submissions'[j.node][s] = assignment_submissions[j.node][s]
        /\ assignment_submissions'[j.node][student[OpOf(j)]] = FileOf(OpOf(j))
    BY <1>0, <2>1, <2>2, FileFacts DEF TypeOK
  <2>4. ASSUME j.node \in Sound', NEW s \in Student
        PROVE  HasLast(j.node, Head(j.rows), s)'
    <3>0. j.node \in Sound /\ log[Head(j.rows)].op = OpOf(j)
      BY <2>1, <2>4 DEF Sound, OpOf
    <3>1. CASE OpOf(j) \in By(s)
      <4>1. s = student[OpOf(j)] /\ Resources[j.node][FileOf(OpOf(j))] = OpOf(j)
        BY <2>1, <3>0, <3>1 DEF By, StoreInv, WrittenStored
      <4>2. Holds(j.node, s, log[Head(j.rows)].op)'
        BY <2>1, <2>3, <3>0, <4>1 DEF Holds, FileOf
      <4>3. log'[Head(j.rows)].op \in By(s)
        BY <2>1, <3>0, <3>1
      <4> QED
        BY <1>0, <2>1, <4>2, <4>3, NewLast
    <3>2. CASE OpOf(j) \notin By(s)
      <4>1. ~Writing(j, s) /\ s # student[OpOf(j)]
        BY <2>2, <3>2 DEF Writing, By
      <4>2. HasLast(j.node, Head(j.rows) - 1, s)
        BY <1>1, <2>1, <3>0, <4>1
      <4>3. HasLast(j.node, Head(j.rows), s)
        BY <1>0, <2>1, <3>0, <3>2, <4>2, OtherLast
      <4> QED
        BY <1>0, <2>1, <2>3, <4>1, <4>3, SameLast
    <3> QED
      BY <3>1, <3>2
  <2>5. ASSUME NEW s \in Student, OpOf(j) \notin By(s), j.node \in Sound'
        PROVE  HasLast(j.node, Head(j.rows) - 1, s)'
    <3>1. ~Writing(j, s) /\ s # student[OpOf(j)] /\ j.node \in Sound
      BY <2>1, <2>2, <2>5 DEF Writing, By, Sound
    <3>2. HasLast(j.node, Head(j.rows) - 1, s)
      BY <1>1, <2>1, <3>1
    <3> QED
      BY <1>0, <2>1, <2>3, <3>1, <3>2, SameLast
  <2>6. j.node \in Sound' => Stored(j.node, Head(j.rows))'
    BY <2>4 DEF Stored
  <2> QED
    BY <2>1, <2>3, <2>5, <2>6, MoveStores
<1>7. CASE create_query(j) \/ update_answer_to_query(j)
  <2>1. /\ Goto(j, "done") /\ j.rows # <<>> /\ j.stage = "ready" /\ OpOf(j) \notin Submission
        /\ UNCHANGED <<log, last_applied, overlapped, failed, assignment_submissions, Resources>>
    BY <1>7, ReplicaAssumption DEF create_query, update_answer_to_query, At
  <2>2. ASSUME j.node \in Sound', NEW s \in Student
        PROVE  HasLast(j.node, Head(j.rows) - 1, s)' /\ HasLast(j.node, Head(j.rows), s)'
    <3>1. ~Writing(j, s) /\ j.node \in Sound /\ log[Head(j.rows)].op \notin By(s)
      BY <2>1, <2>2 DEF Writing, Uncommitted, Sound, By, OpOf
    <3>2. HasLast(j.node, Head(j.rows) - 1, s)
      BY <1>1, <2>1, <3>1
    <3>3. HasLast(j.node, Head(j.rows), s)
      BY <1>0, <2>1, <3>1, <3>2, OtherLast
    <3> QED
      BY <1>0, <2>1, <3>2, <3>3, StoredKept
  <2>3. j.node \in Sound' => Stored(j.node, Head(j.rows))'
    BY <2>2 DEF Stored
  <2> QED
    BY <2>1, <2>2, <2>3, MoveStores
<1>8. CASE write_file_error(j) \/ lock_timeout(j)
  <2>1. /\ Goto(j, "done") /\ j.rows # <<>> /\ failed' = failed \cup {j.node}
        /\ UNCHANGED <<log, last_applied, overlapped, assignment_submissions, Resources>>
    BY <1>8 DEF write_file_error, lock_timeout, At, Fail
  <2>2. j.node \notin Sound'
    BY <2>1 DEF Sound
  <2> QED
    BY <2>1, <2>2, MoveStores
<1> QED
  BY <1>2, <1>4, <1>5, <1>6, <1>7, <1>8

(* A job that starts on a node at rest finds what the node had. *)
LEMMA StartStores ==
  ASSUME TypeOK, AppliedLogged, StoreInv, Alone', NEW i \in Node, NEW w, NEW rows \in Seq(Nat),
         NEW commit, Start(i, w, rows, commit),
         UNCHANGED <<assignment_submissions, Resources, failed>>,
         \A n \in 1..Len(log) : log'[n] = log[n],
         \A m \in Node \ {i} : last_applied'[m] = last_applied[m],
         rows = <<>> => last_applied'[i] = last_applied[i],
         rows # <<>> => /\ Head(rows) = last_applied[i] + 1
                        /\ last_applied'[i] = IF i = Leader THEN Head(rows) ELSE last_applied[i]
  PROVE  StoreInv'
<1> DEFINE d == [node |-> i, worker |-> w, rows |-> rows, commit |-> commit, stage |-> "ready"]
<1>1. /\ jobs' = jobs \cup {d} /\ d.node = i /\ d.rows = rows /\ d.stage = "ready"
      /\ overlapped \subseteq overlapped' /\ (Running(i) # {} => i \in overlapped')
  BY DEF Start
<1> HIDE DEF d
<1>2. Sound' \subseteq Sound /\ Sound \subseteq Node /\ (i \in Sound' => Quiet(i))
  BY <1>1 DEF Sound, Quiet
<1>3. ASSUME NEW m \in Node, NEW k \in Nat, k <= Len(log), NEW s \in Student, HasLast(m, k, s)
      PROVE  HasLast(m, k, s)'
  <2>1. \A n \in 1..k : log'[n] = log[n]
    BY <1>3, LogFacts
  <2> QED
    BY <1>3, <2>1, SameLast
<1>4. \A m \in Node : last_applied[m] \in Nat /\ last_applied[m] <= Len(log)
  BY LogFacts DEF AppliedLogged
<1>5. ASSUME i \in Sound', NEW s \in Student
      PROVE  HasLast(i, last_applied[i], s) /\ \E k \in Nat : /\ k = last_applied[i]
                                                             /\ HasLast(i, k, s)'
  <2>1. HasLast(i, last_applied[i], s)
    BY <1>2, <1>5 DEF StoreInv, AtRestStored, Stored
  <2>2. PICK k \in Nat : k = last_applied[i] /\ k <= Len(log)
    BY <1>4
  <2> QED
    BY <1>3, <2>1, <2>2
<1>6. ASSUME NEW k \in jobs', k # d, k.node \in Sound'
      PROVE  /\ k \in jobs /\ k.node \in Node \ {i} /\ k.node \in Sound
             /\ k.rows # <<>> => Head(k.rows) \in Nat \ {0} /\ Head(k.rows) <= Len(log)
                                 /\ OpOf(k)' = OpOf(k)
  <2>1. k \in jobs /\ k.node \in Sound /\ k.node \in Node
    BY <1>1, <1>2, <1>6
  <2>2. k.node # i
    BY <1>2, <1>6, <2>1 DEF Quiet, Running
  <2>3. k.rows # <<>> => Head(k.rows) \in 1..Len(log) /\ Len(log) \in Nat
    BY <2>1, HeadInLog, LogFacts
  <2> QED
    BY <2>1, <2>2, <2>3 DEF OpOf
<1>7. AtRestStored'
  <2> SUFFICES ASSUME NEW m \in Sound', Quiet(m)', NEW s \in Student
               PROVE  HasLast(m, last_applied[m], s)'
    BY DEF AtRestStored, Stored
  <2>1. m # i /\ m \in Sound /\ Quiet(m)
    BY <1>1, <1>2 DEF Quiet, Running
  <2>2. PICK k \in Nat : k = last_applied[m] /\ k <= Len(log) /\ last_applied'[m] = k
    BY <1>2, <1>4, <2>1
  <2>3. HasLast(m, k, s)
    BY <2>1, <2>2 DEF StoreInv, AtRestStored, Stored
  <2> QED
    BY <1>2, <1>3, <2>1, <2>2, <2>3
<1>8. OverStored'
  <2> SUFFICES ASSUME NEW k \in jobs', k.node \in Sound', k.rows = <<>>, NEW s \in Student
               PROVE  HasLast(k.node, last_applied[k.node], s)'
    BY DEF OverStored, Stored
  <2>1. CASE k = d
    <3>1. i \in Sound' /\ last_applied'[i] = last_applied[i]
      BY <1>1, <2>1
    <3> QED
      BY <1>1, <1>5, <2>1, <3>1
  <2>2. CASE k # d
    <3>1. k \in jobs /\ k.node \in Node \ {i} /\ k.node \in Sound
      BY <1>6, <2>2
    <3>2. PICK n \in Nat : /\ n = last_applied[k.node] /\ n <= Len(log)
                           /\ last_applied'[k.node] = n
      BY <1>4, <3>1
    <3>3. HasLast(k.node, n, s)
      BY <3>1, <3>2 DEF StoreInv, OverStored, Stored
    <3> QED
      BY <1>3, <3>1, <3>2, <3>3
  <2> QED
    BY <2>1, <2>2
<1>9. AtNext'
  <2> SUFFICES ASSUME NEW k \in jobs', k.node \in Sound', k.rows # <<>>
               PROVE  Head(k.rows) = IF k.node = Leader THEN last_applied'[k.node]
                                     ELSE last_applied'[k.node] + 1
    BY DEF AtNext
  <2>1. CASE k = d
    BY <1>1, <2>1
  <2>2. CASE k # d
    BY <1>6, <2>2 DEF StoreInv, AtNext
  <2> QED
    BY <2>1, <2>2
<1>10. ASSUME NEW k \in jobs', k.node \in Sound', k.rows # <<>>
       PROVE  /\ \A s \in Student : HasLast(k.node, Head(k.rows) - 1, s)' \/ Writing(k, s)'
              /\ k.stage = "written" => Resources'[k.node][FileOf(OpOf(k)')] = OpOf(k)'
              /\ k.stage = "done" => Stored(k.node, Head(k.rows))'
  <2>1. CASE k = d
    <3>1. i \in Sound' /\ Head(rows) - 1 = last_applied[i]
      BY <1>1, <1>4, <1>10, <2>1
    <3>2. \A s \in Student : HasLast(i, Head(rows) - 1, s)'
      <4> SUFFICES ASSUME NEW s \in Student PROVE HasLast(i, Head(rows) - 1, s)'
        OBVIOUS
      <4>1. PICK n \in Nat : n = last_applied[i] /\ HasLast(i, n, s)'
        BY <1>5, <3>1
      <4>2. n = Head(rows) - 1
        BY <3>1, <4>1
      <4> QED
        BY <4>1, <4>2
    <3> QED
      BY <1>1, <2>1, <3>2
  <2>2. CASE k # d
    <3>1. k \in jobs /\ k.node \in Node \ {i} /\ k.node \in Sound /\ OpOf(k)' = OpOf(k)
      BY <1>6, <1>10, <2>2
    <3>2. /\ Head(k.rows) \in Nat /\ Head(k.rows) - 1 \in Nat
          /\ Head(k.rows) <= Len(log) /\ Head(k.rows) - 1 <= Len(log)
      BY <1>6, <1>10, <2>2, LogFacts
    <3>3. \A s \in Student : HasLast(k.node, Head(k.rows) - 1, s) \/ Writing(k, s)
      BY <1>10, <3>1 DEF StoreInv, BelowStored
    <3>4. \A s \in Student : HasLast(k.node, Head(k.rows) - 1, s)' \/ Writing(k, s)'
      BY <1>3, <3>1, <3>2, <3>3 DEF Writing
    <3>5. k.stage = "written" => Resources'[k.node][FileOf(OpOf(k)')] = OpOf(k)'
      BY <1>10, <3>1 DEF StoreInv, WrittenStored
    <3>6. k.stage = "done" => Stored(k.node, Head(k.rows))'
      BY <1>3, <1>10, <3>1, <3>2 DEF StoreInv, DoneStored, Stored
    <3> QED
      BY <3>4, <3>5, <3>6
  <2> QED
    BY <2>1, <2>2
<1>11. BelowStored' /\ WrittenStored' /\ DoneStored'
  BY <1>10 DEF BelowStored, WrittenStored, DoneStored, FileOf
<1> QED
  BY <1>7, <1>8, <1>9, <1>11 DEF StoreInv

(* A job that is over leaves what it did, a process that starts again has nothing behind
   it. *)
LEMMA EndStores ==
  ASSUME TypeOK, StoreInv, Alone', jobs' \subseteq jobs,
         UNCHANGED <<log, assignment_submissions, Resources, failed, overlapped>>,
         \A i \in Sound : Quiet(i)' =>
           \/ last_applied'[i] = 0
           \/ last_applied'[i] = last_applied[i] /\ Stored(i, last_applied[i]),
         \A j \in jobs' : last_applied'[j.node] = last_applied[j.node]
  PROVE  StoreInv'
<1>1. Sound' = Sound /\ Sound \subseteq Node
  BY DEF Sound
<1>2. \A m \in Node, k \in Nat, s \in Student : HasLast(m, k, s) => HasLast(m, k, s)'
  BY StoredKept
<1>3. AtRestStored'
  <2> SUFFICES ASSUME NEW m \in Sound, Quiet(m)', NEW s \in Student
               PROVE  HasLast(m, last_applied[m], s)'
    BY <1>1 DEF AtRestStored, Stored
  <2>1. PICK k \in Nat : k = last_applied'[m] /\ HasLast(m, k, s)
    BY <1>1, NothingLast, LogFacts DEF Stored
  <2>2. HasLast(m, k, s)'
    BY <1>1, <1>2, <2>1
  <2> QED
    BY <2>1, <2>2
<1>4. ASSUME NEW k \in jobs
      PROVE  k.node \in Node /\ OpOf(k)' = OpOf(k)
             /\ (k.rows # <<>> => Head(k.rows) \in Nat /\ Head(k.rows) - 1 \in Nat)
  BY HeadInLog, LogFacts DEF OpOf
<1>5. OverStored'
  <2> SUFFICES ASSUME NEW k \in jobs', k.node \in Sound, k.rows = <<>>, NEW s \in Student
               PROVE  HasLast(k.node, last_applied[k.node], s)'
    BY <1>1 DEF OverStored, Stored
  <2>1. PICK n \in Nat : n = last_applied[k.node] /\ last_applied'[k.node] = n
    BY <1>4, LogFacts
  <2>2. HasLast(k.node, n, s)
    BY <2>1 DEF StoreInv, OverStored, Stored
  <2> QED
    BY <1>2, <1>4, <2>1, <2>2
<1>6. AtNext'
  BY <1>1 DEF StoreInv, AtNext
<1>7. BelowStored'
  BY <1>1, <1>2, <1>4 DEF StoreInv, BelowStored, Writing
<1>8. WrittenStored'
  BY <1>1, <1>4 DEF StoreInv, WrittenStored, FileOf
<1>9. DoneStored'
  BY <1>1, <1>2, <1>4 DEF StoreInv, DoneStored, Stored
<1> QED
  BY <1>3, <1>5, <1>6, <1>7, <1>8, <1>9 DEF StoreInv

LEMMA NextHead ==
  ASSUME TypeOK, JobsShaped, NEW j \in jobs, j.rows # <<>>, Tail(j.rows) # <<>>
  PROVE  Head(Tail(j.rows)) = Head(j.rows) + 1
<1>1. j.rows \in Seq(Nat)
  BY DEF TypeOK, Job
<1>2. /\ Head(j.rows) = j.rows[1] /\ j.rows[1] \in Nat
      /\ Head(Tail(j.rows)) = j.rows[2] /\ 2 \in DOMAIN j.rows
  BY <1>1
<1>3. j.rows[2] = j.rows[1] + 2 - 1
  BY <1>2 DEF JobsShaped, Shaped
<1> QED
  BY <1>2, <1>3

LEMMA RowStores ==
  ASSUME TypeOK, JobsShaped, StoreInv, Alone', NEW j \in jobs, row_applied(j)
  PROVE  StoreInv'
<1> DEFINE d == [j EXCEPT !.rows = Tail(@), !.stage = "ready"]
<1>1. /\ jobs' = (jobs \ {j}) \cup {d} /\ j \in Job /\ j.node \in Node
      /\ d.node = j.node /\ d.rows = Tail(j.rows) /\ d.stage = "ready"
      /\ j.rows # <<>> /\ j.stage = "done" /\ j.commit # 0
  BY DEF TypeOK, Job, row_applied, AfterRow, At
<1> HIDE DEF d
<1>2. /\ UNCHANGED <<log, assignment_submissions, Resources, failed, overlapped>>
      /\ last_applied' = [last_applied EXCEPT ![j.node] = Head(j.rows)]
  BY DEF row_applied, tables, errors
<1>3. /\ last_applied'[j.node] = Head(j.rows) /\ j.node # Leader
      /\ Head(j.rows) \in Nat
      /\ d.rows # <<>> => Head(d.rows) = Head(j.rows) + 1
      /\ \A m \in Node \ {j.node} : last_applied'[m] = last_applied[m]
  BY <1>1, <1>2, NextHead, HeadInLog DEF TypeOK, JobsShaped, Shaped
<1>4. Sound' = Sound /\ Sound \subseteq Node
  BY <1>2 DEF Sound
<1>5. \A m \in Node, k \in Nat, s \in Student : HasLast(m, k, s) => HasLast(m, k, s)'
  BY <1>2, StoredKept
<1>6. ASSUME j.node \in Sound, NEW s \in Student
      PROVE  HasLast(j.node, Head(j.rows), s)'
  BY <1>1, <1>3, <1>5, <1>6 DEF StoreInv, DoneStored, Stored
<1>7. ASSUME NEW k \in jobs', k # d, k.node \in Sound
      PROVE  /\ k \in jobs /\ k.node \in Node \ {j.node} /\ OpOf(k)' = OpOf(k)
             /\ k.rows # <<>> => Head(k.rows) \in Nat /\ Head(k.rows) - 1 \in Nat
             /\ last_applied'[k.node] = last_applied[k.node]
  <2>1. k \in jobs /\ k # j /\ k.node \in Node
    BY <1>1, <1>4, <1>7
  <2>2. k.node # j.node
    BY <1>1, <1>7, <2>1 DEF Sound, StoreInv, Alone, Running
  <2> QED
    BY <1>2, <1>3, <2>1, <2>2, HeadInLog DEF OpOf
<1>8. AtRestStored'
  <2> SUFFICES ASSUME NEW m \in Sound, Quiet(m)', NEW s \in Student
               PROVE  HasLast(m, last_applied[m], s)'
    BY <1>4 DEF AtRestStored, Stored
  <2>1. m # j.node /\ Quiet(m)
    BY <1>1 DEF Quiet, Running
  <2>2. PICK k \in Nat : k = last_applied[m] /\ last_applied'[m] = k
    BY <1>3, <1>4, <2>1, LogFacts
  <2>3. HasLast(m, k, s)
    BY <2>1, <2>2 DEF StoreInv, AtRestStored, Stored
  <2> QED
    BY <1>4, <1>5, <2>2, <2>3
<1>9. OverStored'
  <2> SUFFICES ASSUME NEW k \in jobs', k.node \in Sound, k.rows = <<>>, NEW s \in Student
               PROVE  HasLast(k.node, last_applied[k.node], s)'
    BY <1>4 DEF OverStored, Stored
  <2>1. CASE k = d
    BY <1>1, <1>3, <1>6, <2>1
  <2>2. CASE k # d
    <3>1. PICK n \in Nat : n = last_applied[k.node] /\ last_applied'[k.node] = n
      BY <1>7, <2>2, LogFacts
    <3>2. HasLast(k.node, n, s)
      BY <1>7, <2>2, <3>1 DEF StoreInv, OverStored, Stored
    <3> QED
      BY <1>5, <1>7, <2>2, <3>1, <3>2
  <2> QED
    BY <2>1, <2>2
<1>10. AtNext'
  <2> SUFFICES ASSUME NEW k \in jobs', k.node \in Sound, k.rows # <<>>
               PROVE  Head(k.rows) = IF k.node = Leader THEN last_applied'[k.node]
                                     ELSE last_applied'[k.node] + 1
    BY <1>4 DEF AtNext
  <2>1. CASE k = d
    BY <1>1, <1>3, <2>1
  <2>2. CASE k # d
    BY <1>7, <2>2 DEF StoreInv, AtNext
  <2> QED
    BY <2>1, <2>2
<1>11. ASSUME NEW k \in jobs', k.node \in Sound, k.rows # <<>>
       PROVE  /\ \A s \in Student : HasLast(k.node, Head(k.rows) - 1, s)' \/ Writing(k, s)'
              /\ k.stage = "written" => Resources'[k.node][FileOf(OpOf(k)')] = OpOf(k)'
              /\ k.stage = "done" => Stored(k.node, Head(k.rows))'
  <2>1. CASE k = d
    <3>1. Head(k.rows) - 1 = Head(j.rows)
      BY <1>3, <1>11, <2>1
    <3>2. \A s \in Student : HasLast(k.node, Head(k.rows) - 1, s)'
      BY <1>1, <1>6, <1>11, <2>1, <3>1
    <3> QED
      BY <1>1, <2>1, <3>2
  <2>2. CASE k # d
    <3>1. /\ k \in jobs /\ k.node \in Node /\ OpOf(k)' = OpOf(k)
          /\ Head(k.rows) \in Nat /\ Head(k.rows) - 1 \in Nat
      BY <1>7, <1>11, <2>2
    <3>2. \A s \in Student : HasLast(k.node, Head(k.rows) - 1, s) \/ Writing(k, s)
      BY <1>11, <3>1 DEF StoreInv, BelowStored
    <3>3. \A s \in Student : HasLast(k.node, Head(k.rows) - 1, s)' \/ Writing(k, s)'
      BY <1>5, <3>1, <3>2 DEF Writing
    <3>4. k.stage = "written" => Resources'[k.node][FileOf(OpOf(k)')] = OpOf(k)'
      BY <1>2, <1>11, <3>1 DEF StoreInv, WrittenStored
    <3>5. k.stage = "done" => Stored(k.node, Head(k.rows))'
      BY <1>5, <1>11, <3>1 DEF StoreInv, DoneStored, Stored
    <3> QED
      BY <3>3, <3>4, <3>5
  <2> QED
    BY <2>1, <2>2
<1>12. BelowStored' /\ WrittenStored' /\ DoneStored'
  BY <1>4, <1>11 DEF BelowStored, WrittenStored, DoneStored, FileOf
<1> QED
  BY <1>8, <1>9, <1>10, <1>12 DEF StoreInv

-----------------------------------------------------------------------------
(* The steps of the specification. *)

LEMMA PendingRows ==
  ASSUME TypeOK, NEW i \in Node, NEW n \in 1..Len(log)
  PROVE  /\ Pending(i, n) \in Seq(Nat)
         /\ Pending(i, n) # <<>> => Head(Pending(i, n)) = last_applied[i] + 1
<1> DEFINE first == last_applied[i] + 1
           len == IF n < first THEN 0 ELSE n - first + 1
           rows == Pending(i, n)
<1>1. first \in Nat /\ len \in Nat
  BY LogFacts
<1>2. rows = [k \in 1..len |-> first + k - 1]
  BY DEF Pending, From
<1> HIDE DEF len
<1>3. rows \in [1..len -> Nat]
  BY <1>1, <1>2
<1>4. rows \in Seq(Nat)
  BY <1>1, <1>3, SeqDef
<1> HIDE DEF rows
<1>5. ASSUME rows # <<>> PROVE Head(rows) = first
  <2>1. 1 \in DOMAIN rows /\ Head(rows) = rows[1]
    BY <1>4, <1>5
  <2>2. rows[1] = first + 1 - 1
    BY <1>2, <1>3, <2>1
  <2> QED
    BY <1>1, <2>1, <2>2
<1> QED
  BY <1>4, <1>5 DEF rows

LEMMA CallStores ==
  ASSUME TypeOK, AppliedLogged, StoreInv, Alone', NEW o, NEW qid, NEW w, Call(o, qid, w)
  PROVE  StoreInv'
<1> DEFINE rows == <<Len(log) + 1>>
<1>1. /\ Start(Leader, w, rows, 0) /\ UNCHANGED <<assignment_submissions, Resources, failed>>
      /\ last_applied' = [last_applied EXCEPT ![Leader] = Len(log) + 1]
  BY DEF Call, errors, tables
<1>2. /\ rows \in Seq(Nat) /\ Head(rows) = Len(log) + 1 /\ rows # <<>>
      /\ Leader \in Node /\ last_applied[Leader] = Len(log)
      /\ last_applied'[Leader] = Head(rows)
      /\ \A m \in Node \ {Leader} : last_applied'[m] = last_applied[m]
  BY <1>1, LogFacts DEF AppliedLogged, TypeOK
<1>3. \A n \in 1..Len(log) : log'[n] = log[n]
  BY CallKept DEF Kept
<1> HIDE DEF rows
<1> QED
  BY <1>1, <1>2, <1>3, StartStores

LEMMA AppendStores ==
  ASSUME TypeOK, AppliedLogged, StoreInv, Alone', NEW i \in Node, NEW n \in 1..Len(log), NEW w,
         follower_append_entries(i, n, w)
  PROVE  StoreInv'
<1>1. /\ Start(i, w, Pending(i, n), n) /\ i # Leader
      /\ UNCHANGED <<log, last_applied, assignment_submissions, Resources, failed>>
  BY DEF follower_append_entries, tables, errors, indices
<1> QED
  BY <1>1, PendingRows, StartStores

LEMMA StoreInit == Init => StoreInv
<1> SUFFICES ASSUME Init PROVE StoreInv
  OBVIOUS
<1>1. \A i \in Node, s \in Student : HasLast(i, last_applied[i], s)
  BY NothingLast DEF Init
<1> QED
  BY <1>1 DEF Init, StoreInv, Alone, AtRestStored, OverStored, AtNext, BelowStored,
              WrittenStored, DoneStored, Stored, Sound, Running

LEMMA StoreStep ==
  ASSUME TypeOK, SubmissionInHand, AskInv, StoreInv, [Next]_vars
  PROVE  StoreInv'
<1>0. Alone' /\ AppliedLogged /\ JobsShaped
  BY AloneStep DEF StoreInv, AskInv
<1> USE DEF indices, tables, errors
<1>1. ASSUME NEW o \in Op, NEW w \in Worker,
             submitAssignment(o, w) \/ createQuery(o, w) \/ answerQuery(o, w)
      PROVE  StoreInv'
  <2>1. PICK qid : Call(o, qid, w)
    BY <1>1 DEF submitAssignment, createQuery, answerQuery
  <2> QED
    BY <1>0, <2>1, CallStores
<1>2. ASSUME NEW i \in Node, NEW n \in 1..Len(log), NEW w \in Worker,
             follower_append_entries(i, n, w)
      PROVE  StoreInv'
  BY <1>0, <1>2, AppendStores
<1>3. ASSUME NEW i \in Node, restart(i) PROVE StoreInv'
  <2>1. /\ UNCHANGED <<log, assignment_submissions, Resources, failed, overlapped>>
        /\ jobs' = {j \in jobs : j.node # i}
        /\ last_applied' = [last_applied EXCEPT ![i] = 0]
    BY <1>3 DEF restart, Running
  <2>2. /\ last_applied'[i] = 0
        /\ \A k \in Node \ {i} : last_applied'[k] = last_applied[k]
    BY <2>1 DEF TypeOK
  <2>3. \A k \in Node \ {i} : Quiet(k)' => Quiet(k)
    BY <2>1 DEF Quiet, Running
  <2>4. \A k \in Sound : Quiet(k)' =>
          last_applied'[k] = 0 \/ (last_applied'[k] = last_applied[k] /\ Stored(k, last_applied[k]))
    BY <2>2, <2>3 DEF StoreInv, AtRestStored, Sound
  <2>5. \A j \in jobs' : last_applied'[j.node] = last_applied[j.node]
    BY <2>1, <2>2, LogFacts
  <2> QED
    BY <1>0, <2>1, <2>4, <2>5, EndStores
<1>4. ASSUME NEW j \in jobs,
             \/ insert_assignment_submission(j) \/ open_file(j) \/ write_file(j)
             \/ commit_submission(j) \/ write_file_error(j) \/ lock_timeout(j)
             \/ create_query(j) \/ update_answer_to_query(j)
      PROVE  StoreInv'
  BY <1>0, <1>4, JobStores
<1>5. ASSUME NEW j \in jobs, row_applied(j) PROVE StoreInv'
  BY <1>0, <1>5, RowStores
<1>6. ASSUME NEW j \in jobs, call_returned(j) \/ batch_applied(j) PROVE StoreInv'
  <2>1. /\ jobs' = jobs \ {j} /\ j.node \in Node
        /\ UNCHANGED <<log, assignment_submissions, Resources, failed, overlapped, last_applied>>
        /\ j.rows # <<>> => j.stage = "done" /\ j.commit = 0
    BY <1>6, LogFacts DEF call_returned, batch_applied, At
  <2>2. j.rows # <<>> => j.node = Leader
    BY <1>0, <2>1 DEF JobsShaped, Shaped
  <2>3. j.node \in Sound => Stored(j.node, last_applied[j.node])
    BY <2>1, <2>2 DEF StoreInv, OverStored, AtNext, DoneStored
  <2>4. \A k \in Node : Quiet(k)' => Quiet(k) \/ k = j.node
    BY <2>1 DEF Quiet, Running
  <2>5. \A k \in Sound : Quiet(k)' => Stored(k, last_applied[k])
    BY <2>3, <2>4 DEF StoreInv, AtRestStored, Sound
  <2> QED
    BY <1>0, <2>1, <2>5, EndStores
<1>7. CASE UNCHANGED vars
  <2>1. UNCHANGED <<log, assignment_submissions, Resources, failed, overlapped, last_applied, jobs>>
    BY <1>7 DEF vars
  <2>2. \A k \in Sound : Quiet(k)' => Stored(k, last_applied[k])
    BY <2>1 DEF StoreInv, AtRestStored, Quiet, Running
  <2> QED
    BY <1>0, <2>1, <2>2, EndStores
<1> QED
  BY <1>1, <1>2, <1>3, <1>4, <1>5, <1>6, <1>7 DEF Next

LEMMA LastIsLatest ==
  ASSUME NEW S \in SUBSET Nat, NEW n, LastOf(S, n)
  PROVE  Latest(S) = n
<1>1. \A m \in S : (\A k \in S : k <= m) => m = n
  BY DEF LastOf
<1> QED
  BY <1>1 DEF LastOf, Latest

(* A node at rest whose jobs ran one after the other and without an error has, for each
   student, the row and the file of the last submission it has applied: whatever order
   the other nodes and the other students worked in, and after restarts that replay the
   log over tables and half-written files (handlers/assignments_handler.py,
   submit_assignment, and _apply_committed_entries). *)
THEOREM LastSubmissionKept == Spec => []LastSubmissionStored
<1>1. ReplicaInv => TypeOK /\ SubmissionInHand
  BY DEF ReplicaInv
<1>2. TypeOK /\ StoreInv => LastSubmissionStored
  <2> SUFFICES ASSUME TypeOK, StoreInv, NEW i \in Node \ (overlapped \cup failed),
                      NEW s \in Student, Quiet(i), Applied(By(s), last_applied[i]) # {}
               PROVE  Holds(i, s, log[Latest(Applied(By(s), last_applied[i]))].op)
    BY DEF LastSubmissionStored, Holds
  <2> DEFINE made == Applied(By(s), last_applied[i])
  <2>1. PICK n \in made : LastOf(made, n) /\ Holds(i, s, log[n].op)
    BY DEF StoreInv, AtRestStored, Stored, HasLast, Sound
  <2>2. made \subseteq Nat
    BY LogFacts DEF Applied
  <2>3. Latest(made) = n
    BY <2>1, <2>2, LastIsLatest
  <2> QED
    BY <2>1, <2>3
<1> QED
  BY <1>1, <1>2, AskInit, AskStep, StoreInit, StoreStep, ReplicaAlways, PTL DEF Spec

-----------------------------------------------------------------------------
(* Replies: the inductive invariant.  The leader, which never starts again, has one row
   of each question asked, with an id of its own, so the id that a reply names in the
   log is that of its question's row. *)

CalledOnce == \A m, n \in 1..Len(log) : log[m].op = log[n].op => m = n
CallsDiffer == \A j, k \in Running(Leader) : Head(j.rows) = Head(k.rows) => j = k
RowsNamed == \A q, r \in queries[Leader] : q.id = r.id \/ q.ask = r.ask => q = r
IdsCounted == \A q \in queries[Leader] : q.id[2] <= Cardinality(queries[Leader])
AsksLogged == \A q \in queries[Leader] : \E n \in 1..Len(log) : log[n].op = q.ask
AskedLater ==
  \A j \in Running(Leader) : j.stage = "ready" => \A q \in queries[Leader] : q.ask # OpOf(j)
RepliesNamed ==
  \A n \in 1..Len(log) : log[n].op \in Reply =>
    \E q \in queries[Leader] : q.id = log[n].qid /\ q.ask = question[log[n].op]

Answers(a, k) == Applied({o \in Reply : question[o] = a}, k)
RepliesLogged ==
  \A q \in queries[Leader] : q.reply # Nil =>
    \E n \in Answers(q.ask, Len(log)) : log[n].op = q.reply
TableInv == /\ CalledOnce /\ CallsDiffer /\ RowsNamed /\ IdsCounted /\ AsksLogged
            /\ AskedLater /\ RepliesNamed /\ RepliesLogged

(* Without overlap or failure a row shows the last reply behind the leader's job. *)
ShowsLast(q, k) ==
  LET made == Answers(q.ask, k)
  IN  made # {} => \E n \in made : LastOf(made, n) /\ q.reply = log[n].op
AtRestShown ==
  Leader \in Sound /\ Quiet(Leader) => \A q \in queries[Leader] : ShowsLast(q, Len(log))
BusyShown ==
  \A j \in Running(Leader) : Leader \in Sound =>
    \A q \in queries[Leader] :
      ShowsLast(q, IF j.stage = "done" THEN Len(log) ELSE Len(log) - 1)
ReplyInv == TableInv /\ AtRestShown /\ BusyShown

-----------------------------------------------------------------------------
(* What a row shows. *)

LEMMA SameShown ==
  ASSUME NEW q, NEW k \in Nat, ShowsLast(q, k), \A n \in 1..k : log'[n] = log[n]
  PROVE  ShowsLast(q, k)'
<1> DEFINE made == Answers(q.ask, k)
           made2 == Answers(q.ask, k)'
<1>1. made2 = made /\ \A n \in made : log'[n] = log[n]
  BY DEF Applied, Answers
<1>2. made # {} => \E n \in made : LastOf(made, n) /\ q.reply = log[n].op
  BY DEF ShowsLast
<1> HIDE DEF made
<1>3. made2 # {} => \E n \in made2 : LastOf(made2, n) /\ q.reply = log'[n].op
  BY <1>1, <1>2
<1> QED
  BY <1>3 DEF ShowsLast, LastOf

LEMMA OtherShown ==
  ASSUME NEW q, NEW k \in Nat \ {0}, ShowsLast(q, k - 1),
         ~(log[k].op \in Reply /\ question[log[k].op] = q.ask)
  PROVE  ShowsLast(q, k)
<1>1. Answers(q.ask, k) = Answers(q.ask, k - 1)
  <2>1. \A n : n \in 1..k /\ n # k <=> n \in 1..(k - 1)
    OBVIOUS
  <2> QED
    BY <2>1 DEF Applied, Answers
<1> QED
  BY <1>1 DEF ShowsLast

LEMMA NewShown ==
  ASSUME NEW q, NEW k \in Nat \ {0}, q.reply = log'[k].op, q.reply \in Reply,
         question[q.reply] = q.ask
  PROVE  ShowsLast(q, k)'
<1>1. k \in Answers(q.ask, k)' /\ \A m \in Answers(q.ask, k)' : m <= k
  BY DEF Applied, Answers
<1> QED
  BY <1>1 DEF ShowsLast, LastOf

LEMMA AnsweredRow ==
  ASSUME NEW q \in Query, NEW o \in Reply, NEW x
  PROVE  /\ Answered(q, o, x) \in Query
         /\ Answered(q, o, x).id = q.id /\ Answered(q, o, x).ask = q.ask
         /\ q.id = x => Answered(q, o, x).reply = o
         /\ q.id # x => Answered(q, o, x) = q
BY DEF Answered, Query

-----------------------------------------------------------------------------
(* The leader's jobs, when no call begins. *)

GoesOn ==
  /\ CallsDiffer'
  /\ \A k \in Running(Leader)' :
       \E j \in Running(Leader) : j.rows = k.rows /\ (k.stage = "ready" => j.stage = "ready")

LEMMA MoveGoesOn ==
  ASSUME TypeOK, CallsDiffer, NEW j \in jobs, NEW t, Goto(j, t), t # "ready"
  PROVE  GoesOn
<1> DEFINE d == [j EXCEPT !.stage = t]
<1>1. jobs' = (jobs \ {j}) \cup {d} /\ d.node = j.node /\ d.rows = j.rows /\ d.stage = t
  BY MovedJob
<1> HIDE DEF d
<1>2. \A k \in Running(Leader)' :
        \/ k \in Running(Leader) /\ k # j
        \/ k = d /\ j \in Running(Leader)
  BY <1>1 DEF Running
<1>3. CallsDiffer'
  BY <1>1, <1>2 DEF CallsDiffer
<1> QED
  BY <1>1, <1>2, <1>3 DEF GoesOn

LEMMA FewerGoOn ==
  ASSUME CallsDiffer, Running(Leader)' \subseteq Running(Leader)
  PROVE  GoesOn
BY DEF GoesOn, CallsDiffer

(* A leader's job is a call. *)
LEMMA LeaderJob ==
  ASSUME TypeOK, JobsShaped, NEW j \in Running(Leader)
  PROVE  j \in jobs /\ j.node = Leader /\ j.commit = 0 /\ j.rows # <<>>
         /\ Head(j.rows) \in 1..Len(log) /\ OpOf(j) = log[Head(j.rows)].op
<1>1. j \in jobs /\ j.node = Leader /\ j.commit = 0 /\ j.rows # <<>>
  BY DEF Running, JobsShaped, Shaped
<1> QED
  BY <1>1, HeadInLog DEF OpOf

LEMMA TableKept ==
  ASSUME TypeOK, TableInv, GoesOn, UNCHANGED log, queries'[Leader] = queries[Leader]
  PROVE  TableInv'
<1>1. \A k \in Running(Leader)' : \E j \in Running(Leader) :
        OpOf(k)' = OpOf(j) /\ (k.stage = "ready" => j.stage = "ready")
  BY DEF GoesOn, OpOf
<1>2. CalledOnce' /\ RowsNamed' /\ IdsCounted' /\ AsksLogged'
  BY DEF TableInv, CalledOnce, RowsNamed, IdsCounted, AsksLogged
<1>3. AskedLater'
  BY <1>1 DEF TableInv, AskedLater
<1>4. RepliesNamed' /\ RepliesLogged'
  BY DEF TableInv, RepliesNamed, RepliesLogged, Answers, Applied
<1> QED
  BY <1>2, <1>3, <1>4 DEF TableInv, GoesOn

-----------------------------------------------------------------------------
(* A new row. *)

LEMMA CreateTable ==
  ASSUME TypeOK, JobsShaped, TableInv, NEW j \in Running(Leader), create_query(j)
  PROVE  TableInv'
<1> DEFINE q == [id |-> NewId(Leader), ask |-> OpOf(j), reply |-> Nil]
<1>1. /\ j \in jobs /\ j.node = Leader /\ Head(j.rows) \in 1..Len(log)
      /\ OpOf(j) = log[Head(j.rows)].op /\ Leader \in Node
      /\ j.stage = "ready" /\ OpOf(j) \in Question /\ Goto(j, "done")
      /\ UNCHANGED log
  BY LeaderJob, LogFacts DEF create_query, At
<1>2. /\ queries[Leader] \subseteq Query /\ IsFiniteSet(queries[Leader])
      /\ Cardinality(queries[Leader]) \in Nat
      /\ queries'[Leader] = queries[Leader] \cup {q}
  BY <1>1, FS_CardinalityType DEF create_query, TypeOK
<1>3. /\ q.id[2] = Cardinality(queries[Leader]) + 1 /\ q.ask = OpOf(j) /\ q.reply = Nil
  BY DEF NewId
<1> HIDE DEF q
<1>4. \A r \in queries[Leader] : /\ r.id[2] \in Nat /\ r.id[2] <= Cardinality(queries[Leader])
                                 /\ r.id # q.id /\ r.ask # q.ask
  <2>1. \A r \in queries[Leader] : r.id[2] \in Nat
    BY <1>2 DEF Query
  <2>2. \A r \in queries[Leader] : r.id[2] <= Cardinality(queries[Leader])
    BY DEF TableInv, IdsCounted
  <2>3. \A r \in queries[Leader] : r.ask # q.ask
    BY <1>1, <1>3 DEF TableInv, AskedLater
  <2> QED
    BY <1>2, <1>3, <2>1, <2>2, <2>3
<1>5. Cardinality(queries'[Leader]) = Cardinality(queries[Leader]) + 1
  BY <1>2, <1>4, FS_AddElement
<1>6. GoesOn
  BY <1>1, MoveGoesOn DEF TableInv
<1>7. CalledOnce'
  BY <1>1 DEF TableInv, CalledOnce
<1>8. RowsNamed'
  BY <1>2, <1>4 DEF TableInv, RowsNamed
<1>9. IdsCounted'
  BY <1>2, <1>3, <1>4, <1>5 DEF IdsCounted
<1>10. AsksLogged'
  BY <1>1, <1>2, <1>3 DEF TableInv, AsksLogged
<1>11. AskedLater'
  <2> SUFFICES ASSUME NEW k \in Running(Leader)', k.stage = "ready", NEW r \in queries'[Leader]
               PROVE  r.ask # OpOf(k)'
    BY DEF AskedLater
  <2> DEFINE d == [j EXCEPT !.stage = "done"]
  <2>0. jobs' = (jobs \ {j}) \cup {d} /\ d.stage = "done"
    BY <1>1, MovedJob
  <2> HIDE DEF d
  <2>1. k \in Running(Leader) /\ k # j
    BY <1>1, <2>0 DEF Running
  <2>2. OpOf(k)' = OpOf(k) /\ Head(k.rows) \in 1..Len(log) /\ OpOf(k) = log[Head(k.rows)].op
    BY <1>1, <2>1, LeaderJob DEF OpOf
  <2>3. OpOf(k) # OpOf(j)
    BY <1>1, <2>1, <2>2 DEF TableInv, CalledOnce, CallsDiffer
  <2>4. r \in queries[Leader] => r.ask # OpOf(k)
    BY <2>1 DEF TableInv, AskedLater
  <2> QED
    BY <1>2, <1>3, <2>2, <2>3, <2>4
<1>12. RepliesNamed'
  BY <1>1, <1>2 DEF TableInv, RepliesNamed
<1>13. RepliesLogged'
  BY <1>1, <1>2, <1>3 DEF TableInv, RepliesLogged, Answers, Applied
<1> QED
  BY <1>6, <1>7, <1>8, <1>9, <1>10, <1>11, <1>12, <1>13 DEF TableInv, GoesOn

(* The row that a reply goes to is that of its question. *)
LEMMA ReplyRow ==
  ASSUME TypeOK, JobsShaped, TableInv, NEW j \in Running(Leader), update_answer_to_query(j)
  PROVE  LET o == OpOf(j)
             x == log[Head(j.rows)].qid
         IN  /\ o \in Reply /\ queries'[Leader] = {Answered(q, o, x) : q \in queries[Leader]}
             /\ \A q \in queries[Leader] : q.id = x <=> q.ask = question[o]
             /\ j.stage = "ready" /\ Goto(j, "done") /\ UNCHANGED <<log, failed, overlapped>>
<1>1. /\ j \in jobs /\ j.node = Leader /\ Head(j.rows) \in 1..Len(log)
      /\ OpOf(j) = log[Head(j.rows)].op /\ Leader \in Node
  BY LeaderJob, LogFacts
<1>2. /\ j.stage = "ready" /\ OpOf(j) \in Reply /\ Goto(j, "done")
      /\ UNCHANGED <<log, failed, overlapped>>
      /\ queries'[Leader] = {Answered(q, OpOf(j), log[Head(j.rows)].qid) : q \in queries[Leader]}
  BY <1>1 DEF update_answer_to_query, At, TypeOK, errors
<1>3. PICK r \in queries[Leader] : r.id = log[Head(j.rows)].qid /\ r.ask = question[OpOf(j)]
  BY <1>1, <1>2 DEF TableInv, RepliesNamed
<1>4. \A q \in queries[Leader] : q.id = r.id \/ q.ask = r.ask => q = r
  BY DEF TableInv, RowsNamed
<1> QED
  BY <1>2, <1>3, <1>4

LEMMA UpdateTable ==
  ASSUME TypeOK, JobsShaped, TableInv, NEW j \in Running(Leader), update_answer_to_query(j)
  PROVE  TableInv'
<1> DEFINE o == OpOf(j)
           x == log[Head(j.rows)].qid
           new(q) == Answered(q, o, x)
<1>1. /\ j \in jobs /\ Head(j.rows) \in 1..Len(log) /\ log[Head(j.rows)].op = o
      /\ o \in Reply /\ queries'[Leader] = {new(q) : q \in queries[Leader]}
      /\ \A q \in queries[Leader] : q.id = x <=> q.ask = question[o]
      /\ Goto(j, "done") /\ UNCHANGED log
  BY LeaderJob, ReplyRow
<1>2. queries[Leader] \subseteq Query /\ IsFiniteSet(queries[Leader])
  BY LogFacts DEF TypeOK
<1>3. \A q \in queries[Leader] : /\ new(q).id = q.id /\ new(q).ask = q.ask
                                 /\ q.id = x => new(q).reply = o
                                 /\ q.id # x => new(q) = q
  BY <1>1, <1>2, AnsweredRow
<1> HIDE DEF new, x, o
<1>4. \A q \in queries'[Leader] : \E r \in queries[Leader] : q = new(r)
  BY <1>1
<1>5. Cardinality(queries'[Leader]) = Cardinality(queries[Leader])
  <2> DEFINE f == [q \in queries[Leader] |-> new(q)]
  <2>1. f \in Surjection(queries[Leader], queries'[Leader])
    BY <1>1 DEF Surjection
  <2>2. ASSUME NEW q \in queries[Leader], NEW r \in queries[Leader], f[q] = f[r] PROVE q = r
    <3>1. q.id = r.id
      BY <1>3, <2>2
    <3> QED
      BY <3>1 DEF TableInv, RowsNamed
  <2>3. f \in Injection(queries[Leader], queries'[Leader])
    BY <2>1, <2>2 DEF Injection, IsInjective, Surjection
  <2> HIDE DEF f
  <2> QED
    BY <1>2, <2>1, <2>3, FS_Surjection
<1>6. GoesOn
  BY <1>1, MoveGoesOn DEF TableInv
<1>7. CalledOnce'
  BY <1>1 DEF TableInv, CalledOnce
<1>8. RowsNamed'
  BY <1>3, <1>4 DEF TableInv, RowsNamed
<1>9. IdsCounted'
  BY <1>3, <1>4, <1>5 DEF TableInv, IdsCounted
<1>14. AsksLogged'
  BY <1>1, <1>3, <1>4 DEF TableInv, AsksLogged
<1>10. AskedLater'
  <2>1. \A k \in Running(Leader)' : \E l \in Running(Leader) :
          OpOf(k)' = OpOf(l) /\ (k.stage = "ready" => l.stage = "ready")
    BY <1>1, <1>6 DEF GoesOn, OpOf
  <2> QED
    BY <1>3, <1>4, <2>1 DEF TableInv, AskedLater
<1>11. RepliesNamed'
  <2> SUFFICES ASSUME NEW n \in 1..Len(log), log[n].op \in Reply
               PROVE  \E q \in queries'[Leader] : q.id = log[n].qid /\ q.ask = question[log[n].op]
    BY <1>1 DEF RepliesNamed
  <2>1. PICK q \in queries[Leader] : q.id = log[n].qid /\ q.ask = question[log[n].op]
    BY DEF TableInv, RepliesNamed
  <2> QED
    BY <1>1, <1>3, <2>1
<1>12. RepliesLogged'
  <2> SUFFICES ASSUME NEW q \in queries[Leader], new(q).reply # Nil
               PROVE  \E n \in 1..Len(log) : /\ log[n].op = new(q).reply /\ log[n].op \in Reply
                                             /\ question[log[n].op] = q.ask
    BY <1>1, <1>3, <1>4 DEF RepliesLogged, Answers, Applied
  <2>1. CASE q.id = x
    BY <1>1, <1>3, <2>1
  <2>2. CASE q.id # x
    BY <1>3, <2>2 DEF TableInv, RepliesLogged, Answers, Applied
  <2> QED
    BY <2>1, <2>2
<1> QED
  BY <1>6, <1>7, <1>8, <1>9, <1>10, <1>11, <1>12, <1>14 DEF TableInv, GoesOn

(* A new call. *)
LEMMA CallTable ==
  ASSUME TypeOK, JobsShaped, TableInv, NEW o \in Op, NEW qid, NEW w, Call(o, qid, w),
         o \in Reply => \E q \in queries[Leader] : q.id = qid /\ q.ask = question[o]
  PROVE  TableInv'
<1>0. PICK d : d = [node |-> Leader, worker |-> w, rows |-> <<Len(log) + 1>>, commit |-> 0,
                    stage |-> "ready"]
  OBVIOUS
<1>1. /\ Len(log) \in Nat /\ Len(log') = Len(log) + 1 /\ UNCHANGED queries
      /\ \A n \in 1..Len(log) : log'[n] = log[n]
  BY CallKept, LogFacts DEF Kept
<1>2. log'[Len(log) + 1] = [op |-> o, qid |-> qid]
  <2>1. log \in Seq(Entry) /\ log' = Append(log, [op |-> o, qid |-> qid])
    BY LogFacts DEF Call
  <2>2. log \in Seq(Entry \cup {[op |-> o, qid |-> qid]})
    BY <2>1
  <2> QED
    BY <2>1, <2>2
<1>3. \A n \in 1..Len(log) : log[n].op # o
  BY LogFacts DEF Call
<1>4. /\ jobs' = jobs \cup {d} /\ d.node = Leader /\ Head(d.rows) = Len(log) + 1
      /\ d.stage = "ready"
  BY <1>0, LogFacts DEF Call, Start
<1>5. \A k \in Running(Leader)' : k \in Running(Leader) \/ k = d
  BY <1>4 DEF Running
<1>6. \A k \in Running(Leader) :
        Head(k.rows) \in 1..Len(log) /\ OpOf(k) = log[Head(k.rows)].op /\ OpOf(k)' = OpOf(k)
  BY <1>1, LeaderJob DEF OpOf
<1>7. OpOf(d)' = o
  BY <1>2, <1>4 DEF OpOf
<1>8. \A n \in 1..Len(log') : n \in 1..Len(log) \/ n = Len(log) + 1
  BY <1>1
<1>9. CalledOnce'
  <2>1. log'[Len(log) + 1].op = o
    BY <1>2
  <2> QED
    BY <1>1, <1>3, <1>8, <2>1 DEF TableInv, CalledOnce
<1>10. CallsDiffer'
  BY <1>1, <1>4, <1>5, <1>6 DEF TableInv, CallsDiffer
<1>11. RowsNamed' /\ IdsCounted'
  BY <1>1 DEF TableInv, RowsNamed, IdsCounted
<1>12. AsksLogged'
  BY <1>1 DEF TableInv, AsksLogged
<1>13. AskedLater'
  <2>1. \A q \in queries[Leader] : q.ask # o
    BY <1>3 DEF TableInv, AsksLogged
  <2> QED
    BY <1>1, <1>5, <1>6, <1>7, <2>1 DEF TableInv, AskedLater
<1>14. RepliesNamed'
  BY <1>1, <1>2, <1>8 DEF TableInv, RepliesNamed
<1>15. RepliesLogged'
  BY <1>1 DEF TableInv, RepliesLogged, Answers, Applied
<1> QED
  BY <1>9, <1>10, <1>11, <1>12, <1>13, <1>14, <1>15 DEF TableInv

-----------------------------------------------------------------------------
(* What the rows show. *)

ShownInv == AtRestShown /\ BusyShown

(* A leader that works alone is at the last entry of the log. *)
LEMMA LeaderHead ==
  ASSUME TypeOK, JobsShaped, AppliedLogged, AtNext, Leader \in Sound, NEW j \in Running(Leader)
  PROVE  Head(j.rows) = Len(log) /\ Len(log) \in Nat \ {0} /\ Len(log) - 1 \in Nat
         /\ OpOf(j) = log[Len(log)].op
<1>1. Head(j.rows) = Len(log)
  BY LeaderJob DEF AtNext, AppliedLogged
<1> QED
  BY <1>1, LeaderJob, LogFacts

LEMMA MoveShown ==
  ASSUME TypeOK, Alone', ShownInv, NEW j \in jobs, NEW t, Goto(j, t), UNCHANGED <<log, overlapped>>,
         JobsShaped, failed \subseteq failed',
         j.node # Leader => queries'[Leader] = queries[Leader],
         j.node = Leader /\ Leader \in Sound' =>
           \A q \in queries'[Leader] :
             IF t = "done" THEN ShowsLast(q, Len(log))' ELSE ShowsLast(q, Len(log) - 1)'
  PROVE  ShownInv'
<1> DEFINE d == [j EXCEPT !.stage = t]
<1>1. jobs' = (jobs \ {j}) \cup {d} /\ d.node = j.node /\ d.stage = t
  BY MovedJob
<1> HIDE DEF d
<1>2. Sound' \subseteq Sound /\ Sound' \subseteq Node \ overlapped'
  BY DEF Sound
<1>3. CASE j.node = Leader
  <2>1. ~Quiet(Leader)'
    BY <1>1, <1>3 DEF Quiet, Running
  <2>2. Leader \in Sound' => \A k \in Running(Leader)' : k = d
    BY <1>1, <1>2, <1>3 DEF Alone, Running
  <2>3. BusyShown'
    BY <1>1, <1>3, <2>2 DEF BusyShown
  <2> QED
    BY <2>1, <2>3 DEF ShownInv, AtRestShown
<1>4. CASE j.node # Leader
  <2>1. Running(Leader)' = Running(Leader)
    BY <1>1, <1>4 DEF Running
  <2>2. \A q \in queries[Leader] : ShowsLast(q, Len(log)) => ShowsLast(q, Len(log))'
    <3>1. PICK n \in Nat : n = Len(log) /\ Len(log') = n
      BY LogFacts
    <3>2. \A q \in queries[Leader] : ShowsLast(q, n) => ShowsLast(q, n)'
      BY SameShown
    <3> QED
      BY <3>1, <3>2
  <2>3. AtRestShown'
    BY <1>2, <1>4, <2>1, <2>2 DEF ShownInv, AtRestShown, Quiet
  <2>4. ASSUME NEW k \in Running(Leader)', Leader \in Sound', NEW q \in queries'[Leader]
        PROVE  ShowsLast(q, IF k.stage = "done" THEN Len(log) ELSE Len(log) - 1)'
    <3>0. k \in Running(Leader) /\ q \in queries[Leader]
      BY <1>4, <2>1, <2>4
    <3>1. Head(k.rows) \in 1..Len(log) /\ Len(log) \in Nat
      BY <3>0, LeaderJob, LogFacts
    <3>4. Len(log) - 1 \in Nat
      BY <3>1
    <3>2. PICK n \in Nat : n = (IF k.stage = "done" THEN Len(log) ELSE Len(log) - 1)
      BY <3>1, <3>4
    <3>3. ShowsLast(q, n)'
      BY <1>2, <2>4, <3>0, <3>2, SameShown DEF ShownInv, BusyShown
    <3> QED
      BY <3>2, <3>3
  <2> QED
    BY <2>3, <2>4 DEF ShownInv, BusyShown
<1> QED
  BY <1>3, <1>4

LEMMA EndShown ==
  ASSUME TypeOK, JobsShaped, ShownInv, Running(Leader)' \subseteq Running(Leader),
         UNCHANGED <<log, failed>>, queries'[Leader] = queries[Leader],
         Leader \in Sound' => Leader \in Sound,
         Leader \in Sound /\ Quiet(Leader)' =>
           Quiet(Leader) \/ \E j \in Running(Leader) : j.stage = "done"
  PROVE  ShownInv'
<1>1. PICK n \in Nat : n = Len(log) /\ Len(log') = n
  BY LogFacts
<1>2. \A q, k : k \in Nat /\ ShowsLast(q, k) => ShowsLast(q, k)'
  BY SameShown
<1>3. AtRestShown'
  <2> SUFFICES ASSUME Leader \in Sound', Quiet(Leader)', NEW q \in queries[Leader]
               PROVE  ShowsLast(q, n)'
    BY <1>1 DEF AtRestShown
  <2>1. ShowsLast(q, n)
    BY <1>1 DEF ShownInv, AtRestShown, BusyShown
  <2> QED
    BY <1>2, <2>1
<1>4. ASSUME NEW k \in Running(Leader)', Leader \in Sound', NEW q \in queries'[Leader]
      PROVE  ShowsLast(q, IF k.stage = "done" THEN Len(log) ELSE Len(log) - 1)'
  <2>0. k \in Running(Leader) /\ q \in queries[Leader]
    BY <1>4
  <2>1. Head(k.rows) \in 1..Len(log) /\ Len(log) \in Nat
    BY <2>0, LeaderJob, LogFacts
  <2>4. Len(log) - 1 \in Nat
    BY <2>1
  <2>2. PICK m \in Nat : m = (IF k.stage = "done" THEN Len(log) ELSE Len(log) - 1)
    BY <2>1, <2>4
  <2>3. ShowsLast(q, m)'
    BY <1>2, <1>4, <2>0, <2>2 DEF ShownInv, BusyShown
  <2> QED
    BY <2>2, <2>3
<1> QED
  BY <1>3, <1>4 DEF ShownInv, BusyShown

LEMMA CallShown ==
  ASSUME TypeOK, JobsShaped, Alone', ShownInv, NEW o, NEW qid, NEW w, Call(o, qid, w)
  PROVE  ShownInv'
<1> DEFINE d == [node |-> Leader, worker |-> w, rows |-> <<Len(log) + 1>>, commit |-> 0,
                 stage |-> "ready"]
<1>1. /\ Len(log) \in Nat /\ Len(log') = Len(log) + 1 /\ UNCHANGED <<queries, failed>>
      /\ \A n \in 1..Len(log) : log'[n] = log[n]
  BY CallKept, LogFacts DEF Kept
<1>2. /\ jobs' = jobs \cup {d} /\ d.node = Leader /\ d.stage = "ready"
      /\ overlapped \subseteq overlapped' /\ (Running(Leader) # {} => Leader \in overlapped')
  BY DEF Call, Start
<1> HIDE DEF d
<1>3. ~Quiet(Leader)'
  BY <1>2 DEF Quiet, Running
<1>4. Leader \in Sound' => Leader \in Sound /\ Quiet(Leader) /\ \A k \in Running(Leader)' : k = d
  BY <1>1, <1>2 DEF Sound, Quiet, Running
<1>5. ASSUME Leader \in Sound', NEW q \in queries[Leader]
      PROVE  ShowsLast(q, Len(log) - 1)'
  <2>1. PICK n \in Nat : n = Len(log) /\ Len(log') - 1 = n
    BY <1>1
  <2>2. ShowsLast(q, n)
    BY <1>4, <1>5, <2>1 DEF ShownInv, AtRestShown
  <2>3. ShowsLast(q, n)'
    BY <1>1, <2>1, <2>2, SameShown
  <2> QED
    BY <2>1, <2>3
<1>6. BusyShown'
  BY <1>1, <1>2, <1>4, <1>5 DEF BusyShown
<1> QED
  BY <1>3, <1>6 DEF ShownInv, AtRestShown

-----------------------------------------------------------------------------
(* The steps of the specification. *)

LEMMA JobReplies ==
  ASSUME TypeOK, SubmissionInHand, JobsShaped, AppliedLogged, StoreInv, Alone', ReplyInv,
         NEW j \in jobs,
         \/ insert_assignment_submission(j) \/ open_file(j) \/ write_file(j)
         \/ commit_submission(j) \/ write_file_error(j) \/ lock_timeout(j)
         \/ create_query(j) \/ update_answer_to_query(j)
  PROVE  ReplyInv'
<1> USE DEF indices, tables, errors
<1>0. TableInv /\ ShownInv /\ CallsDiffer /\ AtNext /\ j.node \in Node /\ Leader \in Node
  BY LogFacts DEF ReplyInv, TableInv, ShownInv, StoreInv
<1>1. ASSUME j.node = Leader, Leader \in Sound, j.stage # "done"
      PROVE  /\ Len(log) \in Nat \ {0} /\ Len(log) - 1 \in Nat /\ Head(j.rows) = Len(log)
             /\ OpOf(j) = log[Len(log)].op
             /\ \A q \in queries[Leader] : ShowsLast(q, Len(log) - 1)
  <2>1. j \in Running(Leader)
    BY <1>1 DEF Running
  <2> QED
    BY <1>0, <1>1, <2>1, LeaderHead DEF ShownInv, BusyShown
<1>2. ASSUME NEW t, Goto(j, t), t # "ready", UNCHANGED <<log, overlapped>>, j.stage # "done",
             failed \subseteq failed', queries'[Leader] = queries[Leader],
             \/ t # "done" \/ j.node \in failed' \/ OpOf(j) \notin Reply \/ j.node # Leader
      PROVE  ReplyInv'
  <2>1. TableInv'
    BY <1>0, <1>2, MoveGoesOn, TableKept
  <2>2. ASSUME j.node = Leader, Leader \in Sound', NEW q \in queries[Leader]
        PROVE  IF t = "done" THEN ShowsLast(q, Len(log))' ELSE ShowsLast(q, Len(log) - 1)'
    <3>1. Leader \in Sound /\ j.node \notin failed'
      BY <1>2, <2>2 DEF Sound
    <3>2. PICK n \in Nat \ {0} : n = Len(log) /\ Len(log') = n
      BY <1>1, <1>2, <2>2, <3>1
    <3>3. ShowsLast(q, n - 1) /\ OpOf(j) = log[n].op /\ n - 1 \in Nat
      BY <1>1, <1>2, <2>2, <3>1, <3>2
    <3>4. CASE t = "done"
      <4>1. ShowsLast(q, n)
        BY <1>2, <2>2, <3>1, <3>3, <3>4, OtherShown
      <4>2. ShowsLast(q, n)'
        BY <1>2, <4>1, SameShown
      <4> QED
        BY <3>2, <3>4, <4>2
    <3>5. CASE t # "done"
      <4>1. ShowsLast(q, n - 1)'
        BY <1>2, <3>3, SameShown
      <4> QED
        BY <3>2, <3>5, <4>1
    <3> QED
      BY <3>4, <3>5
  <2>3. ShownInv'
    BY <1>0, <1>2, <2>2, MoveShown
  <2> QED
    BY <2>1, <2>3 DEF ReplyInv, ShownInv
<1>3. CASE insert_assignment_submission(j)
  <2>1. /\ Goto(j, "inserted") /\ j.stage # "done"
        /\ UNCHANGED <<log, overlapped, failed, queries>>
    BY <1>3 DEF insert_assignment_submission, At
  <2> QED
    BY <1>2, <2>1
<1>4. CASE open_file(j) \/ write_file(j)
  <2>1. /\ Goto(j, "opened") \/ Goto(j, "written")
        /\ j.stage # "done" /\ UNCHANGED <<log, overlapped, failed, queries>>
    BY <1>4 DEF open_file, write_file, At
  <2> QED
    BY <1>2, <2>1
<1>5. CASE commit_submission(j)
  <2>1. /\ Goto(j, "done") /\ j.stage = "written" /\ UNCHANGED <<log, overlapped, failed, queries>>
    BY <1>5 DEF commit_submission, ReadyToCommit, At
  <2>2. OpOf(j) \notin Reply
    BY <2>1, ReplicaAssumption DEF SubmissionInHand, Uncommitted
  <2> QED
    BY <1>2, <2>1, <2>2
<1>6. CASE write_file_error(j) \/ lock_timeout(j)
  <2>1. /\ Goto(j, "done") /\ j.stage # "done" /\ UNCHANGED <<log, overlapped, queries>>
        /\ failed' = failed \cup {j.node}
    BY <1>6 DEF write_file_error, lock_timeout, At, Fail
  <2> QED
    BY <1>2, <2>1
<1>7. ASSUME create_query(j) \/ update_answer_to_query(j), j.node # Leader
      PROVE  ReplyInv'
  <2>1. /\ Goto(j, "done") /\ j.stage # "done" /\ UNCHANGED <<log, overlapped, failed>>
        /\ queries'[Leader] = queries[Leader]
    BY <1>0, <1>7 DEF create_query, update_answer_to_query, At, TypeOK
  <2> QED
    BY <1>2, <1>7, <2>1
<1>8. ASSUME create_query(j), j.node = Leader
      PROVE  ReplyInv'
  <2> DEFINE new == [id |-> NewId(j.node), ask |-> OpOf(j), reply |-> Nil]
  <2>1. /\ Goto(j, "done") /\ j.stage = "ready" /\ OpOf(j) \in Question /\ j \in Running(Leader)
        /\ UNCHANGED <<log, overlapped, failed>>
        /\ queries'[Leader] = queries[Leader] \cup {new} /\ new.ask = OpOf(j)
    BY <1>0, <1>8 DEF create_query, At, TypeOK, Running
  <2> HIDE DEF new
  <2>2. TableInv'
    BY <1>0, <1>8, <2>1, CreateTable
  <2>3. ASSUME Leader \in Sound', NEW q \in queries'[Leader]
        PROVE  ShowsLast(q, Len(log))'
    <3>1. Leader \in Sound
      BY <2>1, <2>3 DEF Sound
    <3>2. PICK n \in Nat \ {0} : n = Len(log) /\ Len(log') = n
      BY <1>1, <1>8, <2>1, <3>1
    <3>3. CASE q \in queries[Leader]
      <4>1. ShowsLast(q, n - 1) /\ log[n].op \notin Reply
        BY <1>1, <1>8, <2>1, <3>1, <3>2, <3>3, ReplicaAssumption
      <4>2. ShowsLast(q, n)
        BY <4>1, OtherShown
      <4>3. ShowsLast(q, n)'
        BY <2>1, <4>2, SameShown
      <4> QED
        BY <3>2, <4>3
    <3>4. CASE q.ask = OpOf(j)
      <4>1. \A r \in queries[Leader] : r.ask # q.ask
        BY <1>0, <2>1, <3>4 DEF TableInv, AskedLater
      <4>2. Answers(q.ask, n) = {}
        BY <1>0, <3>2, <4>1 DEF TableInv, RepliesNamed, Answers, Applied
      <4>3. ShowsLast(q, n)
        BY <4>2 DEF ShowsLast
      <4>4. ShowsLast(q, n)'
        BY <2>1, <4>3, SameShown
      <4> QED
        BY <3>2, <4>4
    <3> QED
      BY <2>1, <3>3, <3>4
  <2>4. ShownInv'
    BY <1>0, <1>8, <2>1, <2>3, MoveShown
  <2> QED
    BY <2>2, <2>4 DEF ReplyInv, ShownInv
<1>9. ASSUME update_answer_to_query(j), j.node = Leader
      PROVE  ReplyInv'
  <2> DEFINE o == OpOf(j)
             x == log[Head(j.rows)].qid
             new(q) == Answered(q, o, x)
  <2>0. j \in Running(Leader)
    BY <1>9 DEF Running
  <2>1. /\ o \in Reply /\ queries'[Leader] = {new(q) : q \in queries[Leader]}
        /\ \A q \in queries[Leader] : q.id = x <=> q.ask = question[o]
        /\ j.stage = "ready" /\ Goto(j, "done") /\ UNCHANGED <<log, failed, overlapped>>
    BY <1>0, <1>9, <2>0, ReplyRow
  <2>2. TableInv'
    BY <1>0, <1>9, <2>0, UpdateTable
  <2>3. \A q \in queries[Leader] : /\ new(q).ask = q.ask
                                   /\ q.id = x => new(q).reply = o
                                   /\ q.id # x => new(q) = q
    BY <1>0, <2>1, AnsweredRow DEF TypeOK
  <2> HIDE DEF new, x
  <2>4. ASSUME Leader \in Sound', NEW q \in queries'[Leader]
        PROVE  ShowsLast(q, Len(log))'
    <3>1. Leader \in Sound
      BY <2>1, <2>4 DEF Sound
    <3>2. PICK n \in Nat \ {0} : n = Len(log) /\ Len(log') = n
      BY <1>1, <1>9, <2>1, <3>1
    <3>3. PICK r \in queries[Leader] : q = new(r)
      BY <2>1
    <3>4. log[n].op = o /\ ShowsLast(r, n - 1)
      BY <1>1, <1>9, <2>1, <3>1, <3>2
    <3>5. CASE r.id = x
      <4>1. q.reply = log'[n].op /\ q.reply \in Reply /\ question[q.reply] = q.ask
        BY <2>1, <2>3, <3>3, <3>4, <3>5
      <4>2. ShowsLast(q, n)'
        BY <4>1, NewShown
      <4> QED
        BY <3>2, <4>2
    <3>6. CASE r.id # x
      <4>1. q = r /\ question[log[n].op] # q.ask
        BY <2>1, <2>3, <3>3, <3>4, <3>6
      <4>2. ShowsLast(q, n)
        BY <3>4, <4>1, OtherShown
      <4>3. ShowsLast(q, n)'
        BY <2>1, <4>2, SameShown
      <4> QED
        BY <3>2, <4>3
    <3> QED
      BY <3>5, <3>6
  <2>5. ShownInv'
    BY <1>0, <1>9, <2>1, <2>4, MoveShown
  <2> QED
    BY <2>2, <2>5 DEF ReplyInv, ShownInv
<1> QED
  BY <1>3, <1>4, <1>5, <1>6, <1>7, <1>8, <1>9

LEMMA ReplyInit == Init => ReplyInv
<1> SUFFICES ASSUME Init PROVE ReplyInv
  OBVIOUS
<1>1. Len(log) = 0 /\ queries[Leader] = {} /\ Running(Leader) = {}
  BY ReplicaAssumption DEF Init, Running
<1> QED
  BY <1>1 DEF ReplyInv, TableInv, CalledOnce, CallsDiffer, RowsNamed, IdsCounted, AsksLogged,
              AskedLater, RepliesNamed, RepliesLogged, AtRestShown, BusyShown

LEMMA ReplyStep ==
  ASSUME TypeOK, SubmissionInHand, AskInv, StoreInv, ReplyInv, [Next]_vars
  PROVE  ReplyInv'
<1>0. /\ Alone' /\ AppliedLogged /\ JobsShaped /\ TableInv /\ ShownInv /\ CallsDiffer
      /\ Leader \in Node
  BY AloneStep, LogFacts DEF StoreInv, AskInv, ReplyInv, ShownInv, TableInv
<1> USE DEF indices, tables, errors
<1>1. ASSUME NEW o \in Op, NEW w \in Worker,
             submitAssignment(o, w) \/ createQuery(o, w) \/ answerQuery(o, w)
      PROVE  ReplyInv'
  <2>1. PICK qid : /\ Call(o, qid, w)
                   /\ o \in Reply => \E q \in queries[Leader] : q.id = qid /\ q.ask = question[o]
    BY <1>1, ReplicaAssumption DEF submitAssignment, createQuery, answerQuery
  <2>2. TableInv'
    BY <1>0, <2>1, CallTable
  <2>3. ShownInv'
    BY <1>0, <2>1, CallShown
  <2> QED
    BY <2>2, <2>3 DEF ReplyInv, ShownInv
<1>2. ASSUME Running(Leader)' \subseteq Running(Leader),
             UNCHANGED <<log, failed, queries>>, overlapped \subseteq overlapped',
             Leader \in Sound /\ Quiet(Leader)' =>
               Quiet(Leader) \/ \E j \in Running(Leader) : j.stage = "done"
      PROVE  ReplyInv'
  <2>1. TableInv'
    BY <1>0, <1>2, FewerGoOn, TableKept
  <2>2. Sound' \subseteq Sound
    BY <1>2 DEF Sound
  <2>3. ShownInv'
    BY <1>0, <1>2, <2>2, EndShown
  <2> QED
    BY <2>1, <2>3 DEF ReplyInv, ShownInv
<1>3. ASSUME NEW i \in Node, NEW n \in 1..Len(log), NEW w \in Worker,
             follower_append_entries(i, n, w)
      PROVE  ReplyInv'
  <2>1. /\ UNCHANGED <<log, failed, queries>> /\ i # Leader /\ overlapped \subseteq overlapped'
        /\ Running(Leader)' = Running(Leader)
    BY <1>3 DEF follower_append_entries, Start, Running
  <2> QED
    BY <1>2, <2>1 DEF Quiet
<1>4. ASSUME NEW i \in Node, restart(i) PROVE ReplyInv'
  <2>1. /\ UNCHANGED <<log, failed, queries, overlapped>> /\ i # Leader
        /\ Running(Leader)' = Running(Leader)
    BY <1>4 DEF restart, Running
  <2> QED
    BY <1>2, <2>1 DEF Quiet
<1>5. ASSUME NEW j \in jobs,
             \/ insert_assignment_submission(j) \/ open_file(j) \/ write_file(j)
             \/ commit_submission(j) \/ write_file_error(j) \/ lock_timeout(j)
             \/ create_query(j) \/ update_answer_to_query(j)
      PROVE  ReplyInv'
  BY <1>0, <1>5, JobReplies
<1>6. ASSUME NEW j \in jobs, row_applied(j) PROVE ReplyInv'
  <2> DEFINE d == [j EXCEPT !.rows = Tail(@), !.stage = "ready"]
  <2>1. /\ jobs' = (jobs \ {j}) \cup {d} /\ d.node = j.node /\ j.node # Leader
        /\ UNCHANGED <<log, failed, queries, overlapped>>
    BY <1>0, <1>6 DEF row_applied, AfterRow, TypeOK, Job, JobsShaped, Shaped
  <2> HIDE DEF d
  <2>2. Running(Leader)' = Running(Leader)
    BY <2>1 DEF Running
  <2> QED
    BY <1>2, <2>1, <2>2 DEF Quiet
<1>7. ASSUME NEW j \in jobs, call_returned(j) \/ batch_applied(j) PROVE ReplyInv'
  <2>1. /\ jobs' = jobs \ {j} /\ UNCHANGED <<log, queries, failed, overlapped>>
        /\ j.node = Leader => j.stage = "done"
    BY <1>0, <1>7 DEF call_returned, batch_applied, At, JobsShaped, Shaped
  <2>2. Running(Leader)' \subseteq Running(Leader)
    BY <2>1 DEF Running
  <2>3. Quiet(Leader)' => Quiet(Leader) \/ \E k \in Running(Leader) : k.stage = "done"
    BY <2>1 DEF Quiet, Running
  <2> QED
    BY <1>2, <2>1, <2>2, <2>3
<1>8. CASE UNCHANGED vars
  <2>1. UNCHANGED <<log, queries, failed, overlapped>> /\ Running(Leader)' = Running(Leader)
    BY <1>8 DEF vars, Running
  <2> QED
    BY <1>2, <2>1 DEF Quiet
<1> QED
  BY <1>1, <1>3, <1>4, <1>5, <1>6, <1>7, <1>8 DEF Next

(* The leader shows no reply that is not in the log, nor one to another question; and at
   rest, when its replies did not overlap or fail, it shows for each question the last
   reply made to it (handlers/queries_handler.py, update_answer_to_query, with the id
   that getQueries showed). *)
THEOREM LastReplyKept == Spec => []LastReplyShown
<1>1. ReplicaInv => TypeOK /\ SubmissionInHand
  BY DEF ReplicaInv
<1>2. TypeOK /\ ReplyInv => LastReplyShown
  <2> SUFFICES ASSUME TypeOK, ReplyInv, NEW q \in queries[Leader]
               PROVE  LET made == Answers(q.ask, Len(log))
                      IN  /\ q.reply # Nil => \E n \in made : log[n].op = q.reply
                          /\ Quiet(Leader) /\ Leader \in Sound /\ made # {}
                               => q.reply = log[Latest(made)].op
    BY LogFacts DEF LastReplyShown, Answers, Sound
  <2> DEFINE made == Answers(q.ask, Len(log))
  <2>1. q.reply # Nil => \E n \in made : log[n].op = q.reply
    BY DEF ReplyInv, TableInv, RepliesLogged
  <2>2. ASSUME Quiet(Leader), Leader \in Sound, made # {}
        PROVE  q.reply = log[Latest(made)].op
    <3>1. PICK n \in made : LastOf(made, n) /\ q.reply = log[n].op
      BY <2>2 DEF ReplyInv, AtRestShown, ShowsLast
    <3>2. made \subseteq Nat
      BY DEF Answers, Applied
    <3>3. Latest(made) = n
      BY <3>1, <3>2, LastIsLatest
    <3> QED
      BY <3>1, <3>3
  <2> QED
    BY <2>1, <2>2
<1> QED
  BY <1>1, <1>2, AskInit, AskStep, StoreInit, StoreStep, ReplyInit, ReplyStep, ReplicaAlways, PTL
  DEF Spec

-----------------------------------------------------------------------------
(* Where nodes do agree. *)

RowsLogged ==
  \A i \in Node, s \in Student : assignment_submissions[i][s] # Nil =>
    \E n \in 1..Len(log) : log[n].op \in By(s)

LEMMA RowsLoggedStep ==
  ASSUME TypeOK, SubmissionInHand, RowsLogged, [Next]_vars
  PROVE  RowsLogged'
<1> USE DEF indices, tables, errors
<1>1. CASE UNCHANGED <<log, assignment_submissions>>
  BY <1>1 DEF RowsLogged
<1>2. ASSUME NEW o \in Op, NEW w \in Worker,
             submitAssignment(o, w) \/ createQuery(o, w) \/ answerQuery(o, w)
      PROVE  RowsLogged'
  <2>1. PICK qid : Call(o, qid, w)
    BY <1>2 DEF submitAssignment, createQuery, answerQuery
  <2>2. /\ Len(log') = Len(log) + 1 /\ Len(log) \in Nat /\ UNCHANGED assignment_submissions
        /\ \A n \in 1..Len(log) : log'[n] = log[n]
    BY <2>1, CallKept, LogFacts DEF Kept, Call
  <2>3. \A n \in 1..Len(log) : n \in 1..Len(log')
    BY <2>2
  <2> QED
    BY <2>2, <2>3 DEF RowsLogged
<1>3. ASSUME NEW j \in jobs, commit_submission(j) PROVE RowsLogged'
  <2>1. /\ j.rows # <<>> /\ j.stage = "written" /\ UNCHANGED log /\ j.node \in Node
        /\ assignment_submissions' =
             [assignment_submissions EXCEPT ![j.node][student[OpOf(j)]] = NewRow(j.node, OpOf(j))]
    BY <1>3, LogFacts DEF commit_submission, ReadyToCommit, At
  <2>2. OpOf(j) \in Submission /\ Head(j.rows) \in 1..Len(log) /\ log[Head(j.rows)].op = OpOf(j)
    BY <2>1, HeadInLog DEF SubmissionInHand, Uncommitted, OpOf
  <2>3. \A i \in Node, s \in Student :
          assignment_submissions'[i][s] = assignment_submissions[i][s] \/ OpOf(j) \in By(s)
    BY <2>1, <2>2, FileFacts DEF TypeOK, By
  <2> QED
    BY <2>1, <2>2, <2>3 DEF RowsLogged
<1>4. ASSUME NEW i \in Node,
             restart(i) \/ \E n \in 1..Len(log), w \in Worker : follower_append_entries(i, n, w)
      PROVE  RowsLogged'
  BY <1>1, <1>4 DEF restart, follower_append_entries
<1>5. ASSUME NEW j \in jobs,
             \/ insert_assignment_submission(j) \/ open_file(j) \/ write_file(j)
             \/ write_file_error(j) \/ lock_timeout(j)
      PROVE  RowsLogged'
  BY <1>1, <1>5 DEF insert_assignment_submission, open_file, write_file, write_file_error,
                    lock_timeout, Fail
<1>6. ASSUME NEW j \in jobs,
             \/ create_query(j) \/ update_answer_to_query(j)
             \/ row_applied(j) \/ call_returned(j) \/ batch_applied(j)
      PROVE  RowsLogged'
  BY <1>1, <1>6 DEF create_query, update_answer_to_query, row_applied, call_returned,
                    batch_applied
<1>7. CASE UNCHANGED vars
  BY <1>1, <1>7 DEF vars
<1> QED
  BY <1>2, <1>3, <1>4, <1>5, <1>6, <1>7 DEF Next

(* Of the nodes where no call has failed and no two jobs have run at the same time, two
   that have applied the whole log have the same submission rows. *)
SoundNodesAgree ==
  \A i, k \in Node \ (overlapped \cup failed) :
    /\ Quiet(i) /\ last_applied[i] = Len(log)
    /\ Quiet(k) /\ last_applied[k] = Len(log)
    => assignment_submissions[i] = assignment_submissions[k]

(* What docs/architecture.md:7 promises, "all nodes converge to the same state", and
   SubmissionsConverge finds untrue, holds of the submission rows of all nodes whose jobs
   neither overlap nor fail, restarts included. *)
THEOREM OrderedJobsConverge == Spec => []SoundNodesAgree
<1>1. ReplicaInv => TypeOK /\ SubmissionInHand
  BY DEF ReplicaInv
<1>2. Init => RowsLogged
  BY DEF Init, RowsLogged
<1>3. TypeOK /\ StoreInv /\ RowsLogged => SoundNodesAgree
  <2> SUFFICES ASSUME TypeOK, StoreInv, RowsLogged, NEW i \in Sound, NEW k \in Sound,
                      Quiet(i), last_applied[i] = Len(log), Quiet(k), last_applied[k] = Len(log)
               PROVE  assignment_submissions[i] = assignment_submissions[k]
    BY DEF SoundNodesAgree, Sound
  <2>1. ASSUME NEW s \in Student
        PROVE  assignment_submissions[i][s] = assignment_submissions[k][s]
    <3> DEFINE made == Applied(By(s), Len(log))
    <3>1. i \in Node /\ k \in Node /\ made \subseteq Nat
      BY DEF Sound, Applied
    <3>2. CASE made = {}
      BY <3>1, <3>2 DEF RowsLogged, Applied
    <3>3. CASE made # {}
      <4>1. PICK n \in made : LastOf(made, n) /\ Holds(i, s, log[n].op)
        BY <3>3 DEF StoreInv, AtRestStored, Stored, HasLast
      <4>2. PICK m \in made : LastOf(made, m) /\ Holds(k, s, log[m].op)
        BY <3>3 DEF StoreInv, AtRestStored, Stored, HasLast
      <4>3. Latest(made) = n /\ Latest(made) = m
        BY <3>1, <4>1, <4>2, LastIsLatest
      <4> QED
        BY <4>1, <4>2, <4>3 DEF Holds
    <3> QED
      BY <3>2, <3>3
  <2>2. /\ assignment_submissions[i] \in [Student -> File \cup {Nil}]
        /\ assignment_submissions[k] \in [Student -> File \cup {Nil}]
    BY DEF TypeOK, Sound
  <2> QED
    BY <2>1, <2>2
<1> QED
  BY <1>1, <1>2, <1>3, AskInit, AskStep, StoreInit, StoreStep, RowsLoggedStep, ReplicaAlways, PTL
  DEF Spec

=============================================================================
