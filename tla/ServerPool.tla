----------------------------- MODULE ServerPool -----------------------------
(***************************************************************************)
(* The worker pools of the nodes (server_entry.py).  Whatever a node is    *)
(* asked, by clients and by its peers, waits in one queue for one of       *)
(* MAX_WORKERS threads, and a handler keeps its thread to its end: a chat  *)
(* until its user quits, a write until the other nodes have answered its   *)
(* appends or let the deadline of one second pass.  Heartbeats are sent    *)
(* by the scheduler, which has threads of its own, but are answered by the *)
(* pools of the other nodes.                                               *)
(***************************************************************************)
EXTENDS Naturals, Sequences, SequencesExt, FiniteSets

CONSTANTS
  Node,
  Leader,        \* the nodes that send heartbeats: those whose state is L, which may be
                 \* several after an election
  Client,        \* clients, each with one call at a time
  MAX_WORKERS,   \* the threads of each node: four, less those that chats hold for good
  MaxQueue       \* bound: calls and heartbeats begin only while the queues are shorter

ASSUME PoolAssumption ==
  /\ MAX_WORKERS \in [Node -> Nat \ {0}] /\ MaxQueue \in Nat
  /\ Leader \subseteq Node /\ Node \cap Client = {}

VARIABLES
  queue,      \* requests that wait for a thread, in the order they came
  worker,     \* what each thread of a node does
  calling,    \* clients that wait for the end of a call
  rounds,     \* leader_append_entries in progress: of the write of a client, or the
              \* heartbeat of a node
  awaited     \* the peers each of them waits for

vars == <<queue, worker, calling, rounds, awaited>>

-----------------------------------------------------------------------------
Worker(n) == 1..MAX_WORKERS[n]
Owner == Client \cup Node

(* "read" stands for whatever ends by itself: logins, reads, getLeader, votes.  A task
   is late when its caller waits for it no longer. *)
Task == [op : {"read", "write", "chat"}, by : Client, late : {FALSE}]
          \cup [op : {"append"}, by : Owner, late : BOOLEAN]
Free == [op |-> "free"]
New(op, o) == [op |-> op, by |-> o, late |-> FALSE]

Runs(n, w, op) == worker[n][w].op = op
Short == \A n \in Node : Len(queue[n]) < MaxQueue

(* What an owner that no longer waits leaves at a node. *)
GivenUp(t, O) == IF t.op = "append" /\ t.by \in O THEN [t EXCEPT !.late = TRUE] ELSE t
QueueWithout(n, O) == [i \in DOMAIN queue[n] |-> GivenUp(queue[n][i], O)]
WorkersWithout(n, O) == [w \in Worker(n) |-> GivenUp(worker[n][w], O)]
BugFreesAll(n, w) == worker' = [worker EXCEPT ![n] = Free]
BugFreesNone(n, w) == UNCHANGED worker
Frees(n, w) == worker' = [worker EXCEPT ![n][w] = Free]

-----------------------------------------------------------------------------
(* A client calls a node, none of its calls with a deadline. *)
call(c, n, op) ==
  /\ c \notin calling /\ Short
  /\ calling' = calling \cup {c}
  /\ queue' = [queue EXCEPT ![n] = Append(@, New(op, c))]
  /\ UNCHANGED <<worker, rounds, awaited>>

(* A thread, of those that are free the first, takes the next request; one whose caller
   has given up is only dropped. *)
BugDropped(t) == t.op = "append"
Dropped(t) == t.late

take(n, w) ==
  /\ Runs(n, w, "free") /\ (\A v \in 1..w - 1 : ~Runs(n, v, "free")) /\ queue[n] # <<>>
  /\ queue' = [queue EXCEPT ![n] = Tail(@)]
  /\ worker' = [worker EXCEPT ![n][w] = IF Dropped(Head(queue[n])) THEN Free
                                        ELSE Head(queue[n])]
  /\ UNCHANGED <<calling, rounds, awaited>>

(* leader_append_entries: an append to each peer at once, then it waits for all. *)
Sends(n, o) ==
  /\ rounds' = rounds \cup {o}
  /\ awaited' = [awaited EXCEPT ![o] = Node \ {n}]
  /\ queue' = [m \in Node |-> IF m = n THEN queue[m]
                              ELSE Append(queue[m], New("append", o))]
  /\ UNCHANGED <<worker, calling>>
leader_append_log(n, w) ==
  Runs(n, w, "write") /\ worker[n][w].by \notin rounds /\ Sends(n, worker[n][w].by)
heartbeat_tick(n) == n \in Leader \ rounds /\ Short /\ Sends(n, n)

(* A handler that waits for nobody ends; the answer to an append that is late is lost. *)
Answered(n, t) ==
  IF t.op = "append" /\ ~t.late THEN [awaited EXCEPT ![t.by] = @ \ {n}] ELSE awaited

handler_returns(n, w) ==
  /\ Runs(n, w, "read") \/ Runs(n, w, "append")
  /\ awaited' = Answered(n, worker[n][w])
  /\ calling' = IF Runs(n, w, "read") THEN calling \ {worker[n][w].by} ELSE calling
  /\ Frees(n, w)
  /\ UNCHANGED <<queue, rounds>>

(* timeout=1. *)
BugExpired(o, p) == FALSE
Expired(o, p) == p \in awaited[o]

deadline(o, p) ==
  /\ Expired(o, p)
  /\ awaited' = [awaited EXCEPT ![o] = @ \ {p}]
  /\ queue' = [queue EXCEPT ![p] = QueueWithout(p, {o})]
  /\ worker' = [worker EXCEPT ![p] = WorkersWithout(p, {o})]
  /\ UNCHANGED <<calling, rounds>>

Ended(o) == o \in rounds /\ awaited[o] = {}

write_returns(n, w) ==
  /\ Runs(n, w, "write") /\ Ended(worker[n][w].by)
  /\ rounds' = rounds \ {worker[n][w].by} /\ calling' = calling \ {worker[n][w].by}
  /\ Frees(n, w)
  /\ UNCHANGED <<queue, awaited>>
heartbeat_returns(n) ==
  /\ Ended(n)
  /\ rounds' = rounds \ {n}
  /\ UNCHANGED <<queue, worker, calling, awaited>>

(* The user quits, or there is no model to ask. *)
chat_over(n, w) ==
  /\ Runs(n, w, "chat")
  /\ calling' = calling \ {worker[n][w].by}
  /\ Frees(n, w)
  /\ UNCHANGED <<queue, rounds, awaited>>

(* A process dies and starts again: its callers get UNAVAILABLE, its peers notice that
   it waits for them no longer. *)
TasksAt(n) == Range(queue[n]) \cup (Range(worker[n]) \ {Free})
CallersAt(n) == {t.by : t \in {u \in TasksAt(n) : u.op # "append"}}
restart(n) ==
  LET gone == CallersAt(n) \cup {n}
  IN  /\ calling' = calling \ gone /\ rounds' = rounds \ gone
      /\ awaited' = [o \in Owner |-> IF o \in gone THEN {} ELSE awaited[o] \ {n}]
      /\ queue' = [m \in Node |-> IF m = n THEN <<>> ELSE QueueWithout(m, gone)]
      /\ worker' = [m \in Node |-> IF m = n THEN [w \in Worker(m) |-> Free]
                                   ELSE WorkersWithout(m, gone)]

-----------------------------------------------------------------------------
Init ==
  /\ queue = [n \in Node |-> <<>>] /\ worker = [n \in Node |-> [w \in Worker(n) |-> Free]]
  /\ calling = {} /\ rounds = {} /\ awaited = [o \in Owner |-> {}]

Works(n, w) == leader_append_log(n, w) \/ handler_returns(n, w) \/ write_returns(n, w)
Take(n) == \E w \in Worker(n) : take(n, w)
Deadline(o) == \E p \in Node : deadline(o, p)

Next ==
  \/ \E c \in Client, n \in Node, op \in {"read", "write", "chat"} : call(c, n, op)
  \/ \E n \in Node : Take(n) \/ heartbeat_tick(n) \/ heartbeat_returns(n) \/ restart(n)
  \/ \E n \in Node : \E w \in Worker(n) : Works(n, w) \/ chat_over(n, w)
  \/ \E o \in Owner : Deadline(o)

(* Threads go on and deadlines pass; no user has to quit a chat. *)
Fairness ==
  /\ \A n \in Node : WF_vars(Take(n)) /\ \A w \in Worker(n) : WF_vars(Works(n, w))
  /\ \A n \in Leader : WF_vars(heartbeat_returns(n))
  /\ \A o \in Client \cup Leader : WF_vars(Deadline(o))
Spec == Init /\ [][Next]_vars
FairSpec == Spec /\ Fairness

-----------------------------------------------------------------------------
(* Properties. *)

(* The queue and the threads of each node are of the types that the gRPC server and
   the executor give them. *)
TypeOK ==
  /\ queue \in [Node -> Seq(Task)]
  /\ DOMAIN worker = Node
  /\ \A n \in Node : worker[n] \in [Worker(n) -> Task \cup {Free}]
  /\ calling \subseteq Client /\ rounds \subseteq Owner
  /\ awaited \in [Owner -> SUBSET Node]

(* Whoever waits, a client for a call or leader_append_entries for a peer, waits for
   something that is in one queue or on one thread; and nothing else is but what was
   given up.  Over deadlines, restarts and answers that cross them, no answer is waited
   for that cannot come, and none comes twice. *)
Copies(n, t) == Cardinality({i \in DOMAIN queue[n] : queue[n][i] = t})
                  + Cardinality({w \in Worker(n) : worker[n][w] = t})
Calls(c, n) == {op \in {"read", "write", "chat"} : Copies(n, New(op, c)) > 0}
EveryWaitHasATask ==
  /\ \A o \in Owner, n \in Node :
       Copies(n, New("append", o)) = IF n \in awaited[o] THEN 1 ELSE 0
  /\ \A c \in Client :
       LET places == {n \in Node : Calls(c, n) # {}}
       IN  Cardinality(places) = IF c \in calling THEN 1 ELSE 0
  /\ \A o \in Owner : awaited[o] # {} => o \in rounds

(* leader_append_entries returns, whatever the threads of its peers are doing: writes
   of two nodes that hold all threads of both do not wait for each other for ever, and
   a heartbeat is never the last. *)
RoundsEnd == \A o \in Client \cup Leader : o \in rounds ~> o \notin rounds

(* As long as chats leave one thread of each node, every other call returns: a write,
   and a getLeader that was asked without a deadline. *)
Chats(n) == Cardinality({w \in Worker(n) : Runs(n, w, "chat")})
Chatting(c) == \E n \in Node : "chat" \in Calls(c, n)
CallsReturn ==
  <>[](\A n \in Node : Chats(n) < MAX_WORKERS[n])
    => \A c \in Client : c \in calling ~> c \notin calling \/ Chatting(c)

=============================================================================
