# NeuralNexus in TLA+

Specifications of the replicated core of NeuralNexus (`src/neuralnexus`), the
TLC runs that check them on small instances, and proofs of their main safety
properties for every instance.  `PROJECT.json` lists the runs, the mutants, the
source lines of every definition, the findings and the hazards.

## The system

A cluster of server processes, each with a SQLite file and a directory
`Resources`, and terminal clients.

| Component | State | Operations | Talks to |
|---|---|---|---|
| **Raft node** (`consensus/raft_node.py`, `Node`) | row of `state_info` (term, voted_for, idx), table `raft_logs`; in memory: state, leader_node, committed_index, last_applied, next_index, heartbeat_tracker | `candidate_request_vote`, `leader_append_log`, `leader_append_entries`, `follower_append_entries`, `follower_request_vote`, `_apply_committed_entries` | peers by gRPC with a 1 s deadline; handlers of writes through `apply` |
| **Timer** (same file) | two APScheduler jobs | leader-timeout tick, heartbeat tick, reset | its `Node` |
| **Raft service** (`services/raft_service.py`) | none | `appendEntries`, `requestVote`, `getLeader` | `Node` |
| **Services** (`services/*_service.py`) | none | submit an assignment, ask, answer, upload, read | `leader_append_log`, then a handler on the local database |
| **Handlers and tables** (`handlers/`, `database/db_methods.py`) | tables of submissions, questions, materials, users; files | `submit_assignment`, `create_query`, `answer_query`, `material_upload` | SQLite, one writer at a time |
| **gRPC server** (`server_entry.py`) | pool of 4 worker threads | – | runs every RPC, chats and cluster RPCs alike |
| **Authentication** (`security/`, `auth_service.py`) | encrypted tokens with role and expiry | login, check | every service |
| **Tutor chat** (`llm_service.py`, `llm_handler.py`) | context window of a session | bidirectional stream | a worker thread for as long as it is open |
| **Client** (`client/`) | stubs, token, current leader | leader discovery, reconnect, calls | any node |

What makes it hard: RPCs that time out and still arrive; answers compared with a
term read before the call; handlers of one node running in several threads, each
statement its own transaction; a log that survives a crash beside indices that
do not; a write that runs on the leader in a service thread and on followers in
the thread of an `appendEntries`; a pool of four threads that waits for other
pools.  The 40 hazards in `PROJECT.json` place these at their lines.

What makes each part correct:

* Raft node, elections: at most one leader of a term; a vote recorded is not
  given again; a cluster with a majority up gets a leader.
* Raft node, log: logs agree below a common entry, have no gaps; what is
  committed is on a majority; an entry is applied once for each life of a
  process, in order; no index points past the log.
* Tables: a row has its file; the last submission of the log is the one stored;
  no question is lost; all nodes come to the same tables.
* Handlers of a node, statement by statement: one vote a term as long as no
  thread goes on with an outdated row; the job that starts elections is never
  lost or doubled; nothing is committed that is not stored.
* Worker pool: whoever waits, waits for something that can still come; a call
  returns as long as chats leave a thread.
* Client session: a sub-menu has its token; work belongs to a login that is no
  older than two hours; a success that is reported is in a log; the terminal
  comes back after every failure and finds a running leader.

## Modules

| Module | What it is |
|---|---|
| `Ballot` | what elections promise, abstractly: votes cast, elections won, and the nodes one of whose threads has written its row from what was no longer in it, or could; its one theorem |
| `RaftNode` | the consensus engine of all nodes, the timers, the RPCs, and the clients' choice of a node to write to |
| `NodeThreads` | the handlers of one node, transaction by transaction, in several threads, with the reset of the election job |
| `LmsReplica` | what a committed write does to tables and files, in the threads of each node |
| `ServerPool` | the queues and worker threads of all nodes: chats, writes, appends, heartbeats, deadlines |
| `Session` | a terminal client, its menus and token, its calls on the servers, reconnection |
| `RaftNodeProofs`, `RaftLogProofs`, `RaftReignProofs` | theorems about `RaftNode`: types, elections and `committed_index`; `next_index`; the logs and what runs on the databases under one leader |
| `NodeThreadsProofs`, `LmsReplicaProofs`, `ServerPoolProofs`, `SessionProofs` | theorems about the module of the name |
| `MCRaftNode`, `MCNodeThreads`, `MCLmsReplica`, `MCServerPool`, `MCSession` | symmetry sets and constant functions for TLC |

The modules meet where the components do.  `RaftNode` and `NodeThreads` are two
detailed views of the same handlers, both shown to implement `Ballot`: the first
composes all nodes and takes a handler as one step, the second takes one node
and cuts its handlers.  `LmsReplica` opens what `RaftNode` counts as `applied`.
`ServerPool` says when a request gets a thread at all, which `RaftNode` and
`Session` assume under fairness.  `Session` takes from `RaftNode` that a node
may be elected at any time and that a write is logged or not.

`RaftNode` has an action per handler or job.  An RPC handler runs without
interruption by another handler of its node; everything that waits for the
network is cut there, and the waiting code is a record of its local variables
(`elections` for `candidate_request_vote`, `writes` for `leader_append_log`).
`net` holds requests that no handler has taken and answers that the caller's
thread has not processed, in no order; a request whose caller gave up stays
there, not `live`, and may still be handled.  A restart keeps the tables and
loses the memory.  `leader_append_log` is three actions, because its INSERT,
`_increment_idx` and return are separate transactions.  `term` and `voted_for`
move together as `set_term` moves them, including where an answer's term
overwrites a stored one that is as high (`rewound` remembers the node).

`LmsReplica` takes from `RaftNode` what a reign of one leader gives: a sequence
of committed entries, and requests that carry any prefix of it, old ones
included.  It opens what `RaftNode` keeps as the count `applied`.  A job is a
worker thread of a node with the log positions it has fetched; a step is a
statement: INSERT (which takes SQLite's write lock), opening the file (which
empties it), writing it, commit, the update of `last_applied`, the update of
`committed_index`.  A file that cannot be written is rolled back, a thread that
waits for the lock may run into SQLite's timeout, `apply` drops both errors.
Question ids belong to the node that inserts the row, as `gen_uuid` makes them.

`NodeThreads` has an action per transaction or assignment of
`follower_request_vote`, `follower_append_entries` and `candidate_request_vote`.
A thread's record holds the row as `get_state_info` returned it; every later
step uses that copy, as the code does, whatever other threads have written.
Requests are any that a correct leader or candidate may send, old ones included;
the answers to the node's own candidacy are any.  `reset_leader_timeout` is two
steps, remove and add, and a remove of a job that is gone raises
(`reset_fails`).  `stale` is a history variable: it becomes true when a thread
that may still write the row, or `idx`, holds an outdated copy.

`ServerPool` has a queue and a function from threads to tasks for each node.  A
write on a thread starts a round of appends (`leader_append_entries`), one at
each peer, and keeps its thread until all of them have been answered or have
passed their deadline; a heartbeat is such a round without a thread.  An append
whose caller has given up stays where it is, marked `late`.  A chat ends when
its user says so.

`Session` follows one client: discovery, the nested menus, and one call at a
time.  `handler` is what the servers do for each call: a call that writes has a
slot of its own, since its handler may go on after the client has given it up;
`told` and `raft_logs` say afterwards what the client heard and what was
logged.  A token is the record that the cipher hides.

Definitions named `Bug...` are mutants: one for each property of each passing
run, which the property must catch.

## Runs

| Run | Instance | Shows |
|---|---|---|
| `elections` | 3 nodes that may all stand, terms to 2, one call each, no writes | types; votes and wins refine `Ballot`; two leaders of a term share a rewound voter |
| `replication` | n1 leads, n2 slow (`Lossy`), n3 down, two concurrent writes and heartbeats | matching logs, no gaps, commitment on a majority, followers apply once and in order |
| `crash` | n1 and n2 up, two writes, one restart anywhere, two terms | indices stay within the logs; at most one application for each life |
| `liveness` | two of three up, one electable, fair | a leader is elected and stays; a write is answered and reaches every node that is up |
| `replica` | leader and follower, any 3 of 6 writes, 2 jobs at a time, one fault | rows have files, locks are held by live threads, the last submission is stored, no question lost, the last reply shown |
| `threads` | one node, 2 threads, 2 log entries, 2 terms, any 3 of requests, elections and restarts | the election job is kept, what is committed is stored, `idx` is the last row, votes refine `Ballot` |
| `session` | 2 nodes, a student and an instructor, 2 logins, one write, 2 faults, fair | menus match tokens, work stays within a session, answers are true; the terminal comes back, finds a leader, leaves dead nodes |
| `pool` | 2 nodes with 2 and 1 threads, 3 clients, one heartbeat sender, fair | nobody waits for what cannot come; rounds end; calls return while chats leave a thread |
| `one_vote` *(violation)* | two candidates | a node votes twice in a term after a late answer rewrote its term |
| `concurrent_writes` *(violation)* | two writes, fair | they return in the other order and the later one never reaches the follower |
| `replies` *(violation)* | one question, one reply | the reply reaches the leader's table only |
| `converge` *(violation)* | two submissions of a student | nodes that applied the whole log name different files |

Each violation is a finding in `PROJECT.json`, with the sentence of the
documentation that it contradicts.  Other findings were met while modelling and
need no run: a write runs without a majority; a node alone is never elected,
against `docs/architecture.md:94`; material uploads put raw bytes into
`json.dumps` and always fail, while an empty one is reported as stored; `idx` can
be written back below the last row; a lost race for the election job denies a
vote that is already recorded; two calls of the client never reconnect; only
nodes that won an election answer `getLeader`; an error answer to `getQueries`
ends the client; a wrong role is answered `UNAUTHENTICATED`; timestamps are
local; the model can be loaded twice; four chats occupy a node.

**Bounds.** Two terms are enough for a late answer of one term to meet the next;
`MaxCalls` is 1 because overlapping elections of a node differ only in which
refusal arrives (see below).  `MaxBeats` limits heartbeats in flight to a peer;
one of them beside the requests of two writes already overtakes and repeats
entries.  `replication` keeps the third node down so that loss, heartbeats and
two writes fit in one run; `crash` does so for restarts and two writes; in
`elections` all three nodes vote.  In `LmsReplica` nodes meet only in the log,
so two jobs in the whole cluster cover every pair of threads on one node and a
leader working beside a follower; three writes cover a resubmission under the
same name after one under another, and a question with two replies; `MaxFaults`
is one error or one restart.  In `NodeThreads` two threads and three calls let a
handler be overtaken by one, or by a restart, and a third meet the outcome; four
jobs are more than can be held at once.  In `Session` one user of each role, two
logins and a clock of two token lifetimes let a token of one user expire, or be
replaced by another's, during the write of the first; two faults are a lost
connection and the crash of the node that the write is still running on; the
mutants of discovery and reconnection need the second node.  In `ServerPool` the
two threads of `n1` are one that a chat may hold for good and one more, the only
one of `n2` may be taken by a write that waits for `n1`: the smallest pools in
which writes of two nodes block each other.  `MaxQueue` holds back new calls and
heartbeats, never the appends of a write.  `CHECK_DEADLOCK FALSE` is set where the bounds stop
a finished system: no term, write or heartbeat is left.

**One leader.** `LogMatching`, `LogHasNoGaps`, `CommittedOnMajority` and
`FollowersApplyOnceInOrder` are checked with one electable node; the code does
not keep them across leaders (it has no truncation, and rows of two terms may
share an index).  `AppliedOncePerLife` too: with two electable nodes a leader
whose writes returned out of order has its `last_applied` moved back and, when it
follows the other node, runs the later write again.

**Exempted nodes.** `LastSubmissionStored` and `LastReplyShown` leave out nodes
where jobs overlapped or a call failed: run `converge` shows what overlapping
does, and `raft_node.py:466-467` moves on past a failed entry.  `RowHasFile` and
`LockIsHeld` exempt nothing.

**Fairness.** In `RaftNode`, weak fairness of the jobs of an electable node (the scheduler runs
them at an interval), of every handler and every waiting thread, of the delivery
of each stream of requests, and of the deadline of a request to a node that is
down.  Each is per caller, peer and write, because each has a thread of its own.
The writes of the liveness run occupy fewer than the four worker threads, so a
handler always finds one; `ServerPool` says what happens otherwise.  A node has one election at a time there: with the 200–400 ms period
and the 1 s deadline the code allows several, and the refusal of an older one, in
the node's own newer term, deposes the node that just won.  Intervals are not
modelled, so no run says how often that happens.

In `ServerPool` the executor gives a free thread the next task (`Take`, per
node), each thread goes on (per thread), each round's deadlines pass (gRPC's
timer); nothing makes a user end a chat, a client call, or a process restart, so
`CallsReturn` has the condition that from some time on chats leave a thread of
each node.  In `Session` the client's own loops go on, and the handlers of a call
other than a chat; nobody has to type, no node has to start or to win, so
`FindsLeader` and `ReachesLeaderAgain` have the condition that from some time on
some node is elected, and the latter that the user goes on reading, since a call
that meets `UNAVAILABLE` is what makes the client reconnect.

## Proofs

| Theorem | Statement |
|---|---|
| `Ballot!BallotIsSafe` | two winners of one term share a rewound voter |
| `RaftNodeProofs!TypeCorrect` | `Spec => []TypeOK` |
| `RaftNodeProofs!ElectionsRefine` | `Spec => Promise!Spec`: every step is a step of `Ballot` or leaves votes, wins and rewinds as they are |
| `RaftNodeProofs!LeadersShareRewoundVoter` | `Spec => []ElectionSafety` |
| `RaftNodeProofs!CommitsAreLogged` | `Spec => []CommitWithinLog` |
| `RaftLogProofs!IndexesWithinLog` | `Spec => []NextIndexWithinLog` |
| `RaftReignProofs!OneLeaderAppliesOncePerLife` | `Electable = {l}` implies `Spec => []AppliedOncePerLife` |
| `RaftReignProofs!FirstReignLogsMatch` | `Spec => [](FirstTerm => LogMatching)` |
| `RaftReignProofs!FirstReignHasNoGaps` | `Spec => [](FirstTerm => LogHasNoGaps)` |
| `RaftReignProofs!FirstReignCommitsOnMajority` | `Spec => [](FirstTerm => CommittedOnMajority)` |
| `RaftReignProofs!FirstReignAppliesInOrder` | `Spec => [](Untouched => FollowersApplyOnceInOrder)` |
| `NodeThreadsProofs!TypeCorrect` | `Spec => []TypeOK` |
| `NodeThreadsProofs!TimerKept` | `Spec => []ElectionTimerKept` |
| `NodeThreadsProofs!CommitsAreStored` | `Spec => []CommittedIsStored` |
| `NodeThreadsProofs!IdxIsKept` | `Spec => []IdxIsLastRow` |
| `NodeThreadsProofs!ThreadsKeepBallot` | `Spec => Promise!Spec`: the handlers cut in steps implement `Ballot` for their node |
| `LmsReplicaProofs!TypeCorrect` | `Spec => []TypeOK` |
| `LmsReplicaProofs!RowsHaveFiles` | `Spec => []RowHasFile` |
| `LmsReplicaProofs!LocksAreHeld` | `Spec => []LockIsHeld` |
| `LmsReplicaProofs!QuestionsAreKept` | `Spec => []QuestionsAreAsked` |
| `LmsReplicaProofs!LastSubmissionKept` | `Spec => []LastSubmissionStored` |
| `LmsReplicaProofs!LastReplyKept` | `Spec => []LastReplyShown` |
| `LmsReplicaProofs!OrderedJobsConverge` | `Spec => []SoundNodesAgree`: nodes whose jobs neither overlapped nor failed, and that have applied the whole log, have the same submission rows |
| `ServerPoolProofs!PoolTypes` | `Spec => []TypeOK` |
| `ServerPoolProofs!EveryWaitServed` | `Spec => []EveryWaitHasATask` |
| `SessionProofs!TypeCorrect` | `Spec => []TypeOK` |
| `SessionProofs!MenusMatch` | `Spec => []MenuMatchesToken` |
| `SessionProofs!WorkInSession` | `Spec => []WorkIsInSession` |
| `SessionProofs!AnswersTrue` | `Spec => []AnswersAreTrue` |

They hold for all sets of nodes, writes and threads and all bounds, from the
named assumptions only: a finite, non-empty set of nodes, `Nil` outside the
sets of values, and bounds that are numbers.  Five theorems about the log have a
hypothesis beside these, because without it the code does not keep the property
(see *One leader* above).  `Electable = {l}` allows any number of elections of `l`,
terms and restarts.  `FirstTerm` says that no vote is recorded in a term above 1:
several nodes may stand, and any may restart, but once a later term has a vote the
theorem says no more.  `Untouched` adds that no node has restarted, since a restarted
follower replays its log.  The run `crash` has `Electable = {n1}` with two terms and a
restart; every state of `replication` is `Untouched`.

*Elections.* The winners of `Ballot` have a quorum of votes, quorums intersect,
and a voter that is not rewound cast one vote in a term.  For `RaftNode` the
invariant `VoteInv` says what ties code to ballot: a node not rewound still has
its vote of its current term in `voted_for` and none above it
(`VoteRemembered`); a granting answer in flight belongs to a vote cast; and a
running call counts no more votes than nodes that have voted for it, none of
which it still waits for.  Counting an answer needs the last part, which an
answer processed twice would break.

*Commit index.* `CommitWithinLog` is not inductive: `write_returned` sets
`committed_index` to an index taken earlier.  `WritesWithinLog` adds that a
write's index, once counted by `_increment_idx`, stays within `idx`, which never
decreases.

*next_index.* An answer that says yes moves `next_index` by what its request
carried, so `NextIndexWithinLog` needs to follow requests while they travel.
`NextInv` adds that the entries and `prev_log_idx` of every append in flight or
answered are from its sender's log, which keeps its rows, for any number of terms
and restarts (`AppendsCarried`); that an election's `last_index` is within its
node's log (`ElectionsWithinLog`); and that every log with rows has a last one
(`LogsTopped`), carried as an invariant so that no theory of finite sets is needed.

*One electable node.* `AppliedOncePerLife` follows from `LifeInv`.  Appends, writes
and `leader_node` name nodes that have won (`LeadInv`), so the one electable node runs
only its own writes, when they return (`RanWhenAnswered`), and never entries as a
follower; a write has one row, the same in all logs (`RowsOnce`); and a node that has
never led has run a write at most once for each restart, and once more if its row is
not above `last_applied` (`OnceALife`).
The last part needs the rows between `last_applied` and `committed_index` to be those
that are run now, for any set of them (`PartsTopped`).

*Acknowledgements.* A write counts answers, so one answer must not count twice, and a
late one must not count at all.  `AckInv`: an append of a write that its caller still
waits for is the only one to its peer (`LiveOnce`), the peer is among `waiting`
(`LiveAwaited`), and an answer is to a live request (`AnswersLive`).

*First reign.* While `FirstTerm` holds nobody has been rewound, every leader is one of
term 1 (`Terms`), and `LeadersShareRewoundVoter` leaves one (`OneLeader`).  `Reign` then
says what each actor knows: the leader's log has one row for each index up to `idx`,
and at most one above, of a write not counted yet (`LeaderRows`); another log is a
prefix of it (`Prefixes`); an append carries a piece without holes (`Whole`) that
begins where its receiver's log ends or before (`Fitting`) and reaches the row of the
write that sent it (`Telling`); `next_index` is never past the follower's log
(`NextHeld`).  Hence no append is refused in this reign, every answer counted means
that the peer stores the row (`AcksBacked`), and a commit is on a majority.  That an
append is accepted needs `Fitting`, which needs `NextHeld`, which needs that answers
were accepted: only the conjunction is inductive.  `InOrder` adds that a follower has
run exactly the writes up to `last_applied`.

*Tables.* `RowHasFile` needs to know what a thread has done by its stage: between
INSERT and commit it holds a submission (`SubmissionInHand`), from the open on
the file exists (`FileInHand`), and no step removes a file.  `LockIsHeld` needs
that a worker has one job (`OneJobEach`), that a thread in a transaction owns the
lock (`LockOwned`) and that a held lock has such a thread (`LockLive`).  The
conjunction with `TypeOK` is inductive; `TypeOK` needs `SubmissionInHand`, since
a commit writes the file name of a submission.

*Questions.* `QuestionsAreAsked` speaks of nodes at rest; while jobs run, `AskInv`
says where each position up to `last_applied` stands.  A job of a follower has
consecutive positions (`JobsShaped`), and the questions below its first one are in
the table (`BelowAsked`), the first one too once its handler is done
(`DoneAsked`); so `last_applied` may be set to it, even back, when an older request
ends last.  The leader sets `last_applied` before it applies: a position of its
own is in the table or is being applied by a call (`AppliedAsked`).

*Submissions.* `LastSubmissionStored` also speaks of nodes at rest.  `StoreInv` keeps,
for a node whose jobs have neither overlapped nor failed, that it has one job (`Alone`);
that the position the job works on is the next after `last_applied`, or on the leader
`last_applied` itself (`AtNext`); that below it each student has the row and the file of
the last submission, but for the student whose file is being written (`BelowStored`);
and the same with the position included once the handler is done (`DoneStored`).  The
file that a failed or restarted job leaves empty is why those nodes are exempt or replay
from the start.  `OrderedJobsConverge` follows: the last submission of the log decides
the row, and no row is without one in the log (`RowsLogged`).  It says where the promise
of `docs/architecture.md:7` holds; run `converge` shows that it does not elsewhere.

*Replies.* `LastReplyShown` needs an account of the questions (`TableInv`): each call is
logged once, no two rows of the leader share an id or a question, and a reply in the log
names the id of the row of its own question, which was there before it.  While a reply
runs, the table shows the last one before it (`BusyShown`).

*Pool.* `EveryWaitHasATask` counts copies of a task over queues and threads.  The proof
counts places: a place is a position of a queue or a thread (`Spots`, `At`).  `Places`
says that a client in a call, or an owner that waits for a peer, has a task at exactly
one place, and that other appends are given up; each action is one of six changes to
the places of a node (a task joins, is taken, finished, given up, all are lost with the
process, or none), and each change keeps `Places`.  `RoundsAwait`: peers are waited for
only by a round that runs.

*Statement by statement.* In `NodeThreads`, a thread that may add the job has
taken it away, so at most one can (`TimerInv`, which uses that the scheduler
never gives two jobs one name).  `CommittedIsStored` needs that the rows of
`raft_logs` have no gap and that every index a thread carries, the `idx` it read
or the last entry it inserted, is of a row that is there (`LogInv`).
`IdxIsLastRow` and `VotesAreBallots` hold while `stale` is false, by `FreshInv`:
every thread that may still write the row holds what the row is, no row lies
above `idx`, and a vote of the current term is in `voted_for` (`VotesKept`).
Without `stale` neither is true of the code: see the findings.

*Session.* `MenuMatchesToken` needs that the answer to a login carries the role
that was asked for and that no login is ever open on a server (`GrantedRole`).
`WorkIsInSession` needs that every token, in the client or in a request, goes
back to a login that was right, with its user, role and time (`TokensBacked`).
`AnswersAreTrue` follows from an account of each slot (`Ledger`): what stage its
handler is at, whether its entry is logged, what the client was told, and that a
slot not used yet has none of these.  All three rest on types, which need that a
login on its way names a user (`CallerNamed`) and that an admitted call holds a
token (`TokenHeld`).

Only model-checked: the properties under fairness (`LeaderElected`, `WritesReturn`,
`WritesReachAll`, `RoundsEnd`, `CallsReturn`, `ClientReturns`, `FindsLeader`,
`ReachesLeaderAgain`), since
liveness and ENABLED are outside what the proof system supports.  Every safety property
of a passing run is stated by a theorem; the log properties only for the first reign,
since over two leaders the code does not keep them.  A second reign of one electable
node is checked by `crash` only for the indices and `AppliedOncePerLife`.

## Left out of the models

* `match_index`, which nothing reads; `created_at`; message texts.
* The interleaving of two RPC handlers of a node inside `RaftNode`.  They
  interleave in `NodeThreads`, for one node, and in `LmsReplica`, from the point
  where rows are applied.  The writes of a leader are cut in steps in `RaftNode`,
  and are not in `NodeThreads`, whose node follows or stands.
* More than four nodes: `leader_append_entries` has three worker threads and
  cancels what it has not sent; up to three peers all of it is sent at once.  A
  worker's read of the log is one step with the start of the round.
* The change of leader in `LmsReplica`, material uploads (they never succeed) and
  `create_assignment` (no service calls it).
* Listing and downloading materials: no upload succeeds, so there are none.
* A clock that goes back, and nodes whose clocks differ: `Session` has one clock
  that only goes on.  Several clients: they meet only in the cluster, in
  `RaftNode` and `ServerPool`.
* The wait for a worker inside `Session`: a call is handled under fairness, as
  `CallsReturn` of `ServerPool` allows.
* The context window of a chat, a list that one thread appends to, and the
  loading of the model.
* The text of tokens, files, questions; zip archives; the model's answers.
* What menus print, seed data, settings, cryptography: fixed data, I/O or library
  calls.

## Plan

Done: `Ballot`, `RaftNode`, `NodeThreads`, `LmsReplica`, `ServerPool`, `Session`,
and the theorems above.  What remains worth doing:

1. `leader_append_log` in `NodeThreads`: a node that leads while its threads
   still answer as a follower, and the two transactions of a write between the
   steps of an append.
2. Theorems: the log properties over several reigns of one electable node, as far as
   TLC finds them true; `leader_append_log` in `NodeThreads` with the proofs it then needs.
3. Reads on followers: how far behind the leader `getQueries` may be.
