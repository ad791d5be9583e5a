--------------------------- MODULE ServerPoolProofs ---------------------------
(***************************************************************************)
(* Theorems about ServerPool, for every value of its constants.            *)
(***************************************************************************)
EXTENDS ServerPool, TLAPS, FiniteSetTheorems, SequenceTheorems

-----------------------------------------------------------------------------
(* Tasks. *)

IsCall(t) == t.op \in {"read", "write", "chat"}
Serves(t, c) == IsCall(t) /\ t.by = c
Waits(t, o) == t.op = "append" /\ ~t.late /\ t.by = o

LEMMA TaskFields ==
  /\ \A t \in Task : IsCall(t) \/ t.op = "append"
  /\ \A t \in Task : IsCall(t) => t.by \in Client /\ ~t.late
  /\ \A t \in Task : t.op = "append" => t.by \in Owner /\ t.late \in BOOLEAN
  /\ Free \notin Task /\ \A x : ~Serves(Free, x) /\ ~Waits(Free, x)
BY DEF Task, IsCall, Serves, Waits, Free, Owner

LEMMA NewTasks ==
  /\ \A c \in Client, op \in {"read", "write", "chat"} :
       /\ New(op, c) \in Task /\ IsCall(New(op, c)) /\ New(op, c).by = c
       /\ \A x : (Serves(New(op, c), x) <=> x = c) /\ ~Waits(New(op, c), x)
  /\ \A o \in Owner : /\ New("append", o) \in Task
                      /\ \A x : ~Serves(New("append", o), x)
                                /\ (Waits(New("append", o), x) <=> x = o)
BY DEF New, Task, IsCall, Serves, Waits

LEMMA AskedTask ==
  ASSUME NEW t \in Task \cup {Free}
  PROVE  /\ \A o : Waits(t, o) <=> t = New("append", o)
         /\ \A c : Serves(t, c) <=> \E op \in {"read", "write", "chat"} : t = New(op, c)
<1>1. CASE t = Free
  <2>1. \A op, x : New(op, x) # Free \/ op = "free"
    BY DEF New, Free
  <2> QED
    BY <1>1, <2>1, TaskFields
<1>2. CASE t \in Task
  <2>1. t = [op |-> t.op, by |-> t.by, late |-> t.late]
    BY <1>2 DEF Task
  <2>2. t.late \in BOOLEAN /\ (IsCall(t) => ~t.late)
    BY <1>2 DEF Task, IsCall
  <2>3. \A op, x : t = New(op, x) <=> t.op = op /\ t.by = x /\ ~t.late
    <3>1. \A op, x : /\ New(op, x).op = op /\ New(op, x).by = x /\ New(op, x).late = FALSE
                     /\ New(op, x) = [op |-> op, by |-> x, late |-> FALSE]
      BY DEF New
    <3>2. ~t.late <=> t.late = FALSE
      BY <2>2
    <3>3. ASSUME NEW op, NEW x, t.op = op, t.by = x, t.late = FALSE PROVE t = New(op, x)
      BY <2>1, <3>1, <3>3
    <3>4. ASSUME NEW op, NEW x, t = New(op, x) PROVE t.op = op /\ t.by = x /\ t.late = FALSE
      BY <3>1, <3>4
    <3> QED
      BY <3>2, <3>3, <3>4, Zenon
  <2> QED
    BY <2>2, <2>3 DEF Serves, Waits, IsCall
<1> QED
  BY <1>1, <1>2

LEMMA GivenUpTask ==
  ASSUME NEW t \in Task \cup {Free}, NEW O
  PROVE  /\ t \in Task => GivenUp(t, O) \in Task
         /\ t = Free => GivenUp(t, O) = Free
         /\ \A x : Serves(GivenUp(t, O), x) <=> Serves(t, x)
         /\ \A x : Waits(GivenUp(t, O), x) <=> Waits(t, x) /\ x \notin O
<1>1. CASE t.op = "append" /\ t.by \in O
  <2> DEFINE u == [t EXCEPT !.late = TRUE]
  <2>1. t \in Task /\ t \in [op : {"append"}, by : Owner, late : BOOLEAN]
    <3>1. t # Free
      BY <1>1 DEF Free
    <3> HIDE DEF u
    <3> QED
      BY <1>1, <3>1 DEF Task
  <2>2. u \in Task /\ u.op = "append" /\ u.late /\ u.by = t.by
    <3>1. u.op = t.op /\ u.by = t.by /\ u.late = TRUE
      BY <2>1
    <3>2. u \in [op : {"append"}, by : Owner, late : BOOLEAN]
      BY <2>1
    <3> HIDE DEF u
    <3> QED
      BY <1>1, <3>1, <3>2 DEF Task
  <2>3. GivenUp(t, O) = u
    BY <1>1 DEF GivenUp
  <2> HIDE DEF u
  <2> QED
    BY <1>1, <2>1, <2>2, <2>3, TaskFields DEF Serves, Waits, IsCall
<1>2. CASE ~(t.op = "append" /\ t.by \in O)
  <2>1. GivenUp(t, O) = t
    BY <1>2 DEF GivenUp
  <2> QED
    BY <1>2, <2>1 DEF Waits
<1> QED
  BY <1>1, <1>2

-----------------------------------------------------------------------------
(* Types. *)

LEMMA WorkersFinite ==
  \A n \in Node : MAX_WORKERS[n] \in Nat \ {0} /\ Worker(n) \subseteq Nat \ {0}
BY PoolAssumption DEF Worker

LEMMA WithoutTypes ==
  ASSUME TypeOK, NEW n \in Node, NEW O
  PROVE  /\ QueueWithout(n, O) \in Seq(Task) /\ Len(QueueWithout(n, O)) = Len(queue[n])
         /\ DOMAIN QueueWithout(n, O) = DOMAIN queue[n]
         /\ WorkersWithout(n, O) \in [Worker(n) -> Task \cup {Free}]
<1>1. queue[n] \in Seq(Task) /\ worker[n] \in [Worker(n) -> Task \cup {Free}]
  BY DEF TypeOK
<1>2. Len(queue[n]) \in Nat /\ DOMAIN queue[n] = 1..Len(queue[n])
      /\ \A i \in DOMAIN queue[n] : queue[n][i] \in Task
  BY <1>1
<1>3. QueueWithout(n, O) \in [1..Len(queue[n]) -> Task]
  BY <1>2, GivenUpTask DEF QueueWithout
<1>4. QueueWithout(n, O) \in Seq(Task) /\ Len(QueueWithout(n, O)) = Len(queue[n])
  BY <1>2, <1>3, IsASeq, LenProperties
<1>5. WorkersWithout(n, O) \in [Worker(n) -> Task \cup {Free}]
  BY <1>1, GivenUpTask DEF WorkersWithout
<1> QED
  BY <1>2, <1>3, <1>4, <1>5

LEMMA OwnerOf ==
  ASSUME TypeOK, NEW n \in Node, NEW w \in Worker(n)
  PROVE  /\ worker[n][w] \in Task \cup {Free}
         /\ IsCall(worker[n][w]) => worker[n][w] \in Task /\ worker[n][w].by \in Client
         /\ Runs(n, w, "append") => worker[n][w].by \in Owner
BY TaskFields DEF TypeOK, Runs, IsCall, Free

LEMMA FreesTypes ==
  ASSUME TypeOK, NEW n \in Node, NEW w \in Worker(n), Frees(n, w)
  PROVE  /\ DOMAIN worker' = Node
         /\ \A m \in Node : worker'[m] \in [Worker(m) -> Task \cup {Free}]
         /\ worker'[n] = [worker[n] EXCEPT ![w] = Free]
         /\ \A m \in Node \ {n} : worker'[m] = worker[m]
BY DEF TypeOK, Frees

LEMMA SendsTypes ==
  ASSUME TypeOK, NEW n \in Node, NEW o \in Owner, Sends(n, o)
  PROVE  TypeOK'
<1>1. New("append", o) \in Task
  BY NewTasks
<1>2. \A m \in Node : Append(queue[m], New("append", o)) \in Seq(Task)
  BY <1>1 DEF TypeOK
<1>3. queue' \in [Node -> Seq(Task)]
  BY <1>2 DEF Sends, TypeOK
<1>4. rounds' \subseteq Owner /\ awaited' \in [Owner -> SUBSET Node]
  BY DEF Sends, TypeOK
<1> QED
  BY <1>3, <1>4 DEF Sends, TypeOK, Worker

LEMMA TypeStep == TypeOK /\ [Next]_vars => TypeOK'
<1> SUFFICES ASSUME TypeOK, [Next]_vars PROVE TypeOK'
  OBVIOUS
<1>1. ASSUME NEW c \in Client, NEW n \in Node, NEW op \in {"read", "write", "chat"},
             call(c, n, op)
      PROVE  TypeOK'
  <2>1. New(op, c) \in Task
    BY NewTasks
  <2>2. Append(queue[n], New(op, c)) \in Seq(Task)
    BY <2>1 DEF TypeOK
  <2>3. queue' \in [Node -> Seq(Task)]
    BY <1>1, <2>2 DEF call, TypeOK
  <2> QED
    BY <1>1, <2>3 DEF call, TypeOK, Worker
<1>2. ASSUME NEW n \in Node, NEW w \in Worker(n), take(n, w) PROVE TypeOK'
  <2>1. queue[n] \in Seq(Task) /\ queue[n] # <<>>
    BY <1>2 DEF take, TypeOK
  <2>2. Head(queue[n]) \in Task /\ Tail(queue[n]) \in Seq(Task)
    BY <2>1
  <2>3. queue' \in [Node -> Seq(Task)]
    BY <1>2, <2>2 DEF take, TypeOK
  <2> DEFINE t == IF Dropped(Head(queue[n])) THEN Free ELSE Head(queue[n])
  <2>4. t \in Task \cup {Free} /\ worker' = [worker EXCEPT ![n][w] = t]
    BY <1>2, <2>2 DEF take
  <2> HIDE DEF t
  <2>5. DOMAIN worker' = Node
        /\ \A m \in Node : worker'[m] \in [Worker(m) -> Task \cup {Free}]
    BY <2>4 DEF TypeOK
  <2> QED
    BY <1>2, <2>3, <2>5 DEF take, TypeOK, Worker
<1>3. ASSUME NEW n \in Node, NEW w \in Worker(n), handler_returns(n, w) PROVE TypeOK'
  <2>1. awaited' \in [Owner -> SUBSET Node]
    BY <1>3 DEF handler_returns, Answered, TypeOK
  <2> QED
    BY <1>3, <2>1, FreesTypes DEF handler_returns, TypeOK, Worker
<1>4. ASSUME NEW n \in Node, NEW w \in Worker(n), write_returns(n, w) \/ chat_over(n, w)
      PROVE  TypeOK'
  BY <1>4, FreesTypes DEF write_returns, chat_over, TypeOK, Worker
<1>5. ASSUME NEW n \in Node, NEW w \in Worker(n), leader_append_log(n, w) PROVE TypeOK'
  BY <1>5, SendsTypes, OwnerOf DEF leader_append_log, Runs, IsCall, Owner
<1>6. ASSUME NEW n \in Node, heartbeat_tick(n) PROVE TypeOK'
  BY <1>6, SendsTypes DEF heartbeat_tick, Owner
<1>7. ASSUME NEW n \in Node, heartbeat_returns(n) PROVE TypeOK'
  BY <1>7 DEF heartbeat_returns, TypeOK, Worker
<1>8. ASSUME NEW o \in Owner, NEW p \in Node, deadline(o, p) PROVE TypeOK'
  <2>1. queue' \in [Node -> Seq(Task)]
    BY <1>8, WithoutTypes DEF deadline, TypeOK
  <2>2. DOMAIN worker' = Node
        /\ \A m \in Node : worker'[m] \in [Worker(m) -> Task \cup {Free}]
    BY <1>8, WithoutTypes DEF deadline, TypeOK
  <2>3. awaited' \in [Owner -> SUBSET Node]
    BY <1>8 DEF deadline, TypeOK
  <2> QED
    BY <1>8, <2>1, <2>2, <2>3 DEF deadline, TypeOK, Worker
<1>9. ASSUME NEW n \in Node, restart(n) PROVE TypeOK'
  <2> DEFINE gone == CallersAt(n) \cup {n}
  <2>1. queue' = [m \in Node |-> IF m = n THEN <<>> ELSE QueueWithout(m, gone)]
        /\ worker' = [m \in Node |-> IF m = n THEN [w \in Worker(m) |-> Free]
                                     ELSE WorkersWithout(m, gone)]
        /\ calling' = calling \ gone /\ rounds' = rounds \ gone
        /\ awaited' = [o \in Owner |-> IF o \in gone THEN {} ELSE awaited[o] \ {n}]
    BY <1>9 DEF restart
  <2> HIDE DEF gone
  <2>2. queue' \in [Node -> Seq(Task)]
    BY <2>1, WithoutTypes
  <2>3. DOMAIN worker' = Node
        /\ \A m \in Node : worker'[m] \in [Worker(m) -> Task \cup {Free}]
    BY <2>1, WithoutTypes
  <2>4. awaited' \in [Owner -> SUBSET Node]
    BY <2>1 DEF TypeOK
  <2> QED
    BY <2>1, <2>2, <2>3, <2>4 DEF TypeOK, Worker
<1>10. CASE UNCHANGED vars
  BY <1>10 DEF vars, TypeOK, Worker
<1> QED
  BY <1>1, <1>2, <1>3, <1>4, <1>5, <1>6, <1>7, <1>8, <1>9, <1>10
  DEF Next, Take, Works, Deadline

LEMMA TypeInit == Init => TypeOK
BY DEF Init, TypeOK

(* The queue and the threads of each node are of the types that the gRPC server and the
   executor give them. *)
THEOREM PoolTypes == Spec => []TypeOK
BY TypeInit, TypeStep, PTL DEF Spec

-----------------------------------------------------------------------------
(* The places of a node that hold a task: a position of its queue, or, as a negative
   number, one of its threads. *)

Spots(n) == DOMAIN queue[n] \cup {-w : w \in Worker(n)}
At(n, k) == IF k > 0 THEN queue[n][k] ELSE worker[n][-k]

(* A client has one call, at one place, and an append that is waited for is at one place
   of the peer: of those that are not, none is left that is not given up. *)
CallsServed ==
  \A c \in Client : c \in calling <=> \E n \in Node : \E k \in Spots(n) : Serves(At(n, k), c)
CallsOnce ==
  \A c \in Client, n \in Node, m \in Node : \A k \in Spots(n), j \in Spots(m) :
    Serves(At(n, k), c) /\ Serves(At(m, j), c) => n = m /\ k = j
AppendsAwaited ==
  \A o \in Owner, n \in Node : n \in awaited[o] <=> \E k \in Spots(n) : Waits(At(n, k), o)
AppendsOnce ==
  \A o \in Owner, n \in Node : \A k, j \in Spots(n) :
    Waits(At(n, k), o) /\ Waits(At(n, j), o) => k = j
RoundsAwait == \A o \in Owner : awaited[o] # {} => o \in rounds
Places == CallsServed /\ CallsOnce /\ AppendsAwaited /\ AppendsOnce
PoolInv == Places /\ RoundsAwait

LEMMA SpotTypes ==
  ASSUME TypeOK, NEW n \in Node
  PROVE  /\ Spots(n) \subseteq Int /\ 0 \notin Spots(n)
         /\ \A k \in Spots(n) : At(n, k) \in Task \cup {Free}
         /\ \A k \in DOMAIN queue[n] : k \in Nat \ {0} /\ k \in Spots(n) /\ At(n, k) = queue[n][k]
         /\ \A w \in Worker(n) : -w \in Spots(n) /\ At(n, -w) = worker[n][w]
         /\ \A k \in Spots(n) : k > 0 => k \in DOMAIN queue[n]
         /\ \A k \in Spots(n) : ~(k > 0) => -k \in Worker(n)
<1>1. queue[n] \in Seq(Task) /\ worker[n] \in [Worker(n) -> Task \cup {Free}]
  BY DEF TypeOK
<1>2. DOMAIN queue[n] \subseteq Nat \ {0} /\ \A k \in DOMAIN queue[n] : queue[n][k] \in Task
  BY <1>1
<1>3. \A w \in Worker(n) : w \in Nat \ {0} /\ -w \in Int /\ -(-w) = w /\ ~(-w > 0)
  BY WorkersFinite
<1> QED
  BY <1>1, <1>2, <1>3 DEF Spots, At

(* What a step leaves at a node: every place as it was, *)
Same(n) == Spots(n)' = Spots(n) /\ \A k \in Spots(n) : At(n, k)' = At(n, k)
(* ... a new task at a place of its own, *)
Joined(n, t) ==
  \E e : /\ Spots(n)' = Spots(n) \cup {e} /\ e \notin Spots(n) /\ At(n, e)' = t
         /\ \A k \in Spots(n) : At(n, k)' = At(n, k)
(* ... a thread free, *)
Freed(n, w) == /\ Spots(n)' = Spots(n) /\ At(n, -w)' = Free
               /\ \A k \in Spots(n) \ {-w} : At(n, k)' = At(n, k)
(* ... what some owners asked given up, *)
Left(n, O) == Spots(n)' = Spots(n) /\ \A k \in Spots(n) : At(n, k)' = GivenUp(At(n, k), O)
(* ... nothing, *)
Emptied(n) == Spots(n)' \subseteq Spots(n) /\ \A k \in Spots(n)' : At(n, k)' = Free
(* ... or the first of the queue on a free thread, and the others moved up. *)
Before(k, w) == IF k = -w THEN 1 ELSE IF k > 0 THEN k + 1 ELSE k
Taken(n, w) ==
  /\ 1 \in Spots(n) /\ -w \in Spots(n) /\ At(n, -w) = Free
  /\ \A k \in Spots(n) : k # -w => \E j \in Spots(n)' : Before(j, w) = k
  /\ \A k \in Spots(n)' : /\ Before(k, w) \in Spots(n)
                          /\ At(n, k)' = (IF k = -w /\ At(n, 1).late THEN Free
                                          ELSE At(n, Before(k, w)))
  /\ \A k, j \in Spots(n)' : Before(k, w) = Before(j, w) => k = j

LEMMA SameSpots ==
  ASSUME NEW n \in Node, queue'[n] = queue[n], worker'[n] = worker[n]
  PROVE  Same(n)
BY DEF Same, Spots, At, Worker

LEMMA JoinedSpots ==
  ASSUME TypeOK, NEW n \in Node, NEW t \in Task, queue'[n] = Append(queue[n], t),
         worker'[n] = worker[n]
  PROVE  Joined(n, t)
<1> DEFINE e == Len(queue[n]) + 1
<1>1. queue[n] \in Seq(Task) /\ Len(queue[n]) \in Nat /\ DOMAIN queue[n] = 1..Len(queue[n])
  BY DEF TypeOK
<1>2. /\ DOMAIN queue'[n] = 1..e /\ queue'[n][e] = t
      /\ \A k \in 1..Len(queue[n]) : queue'[n][k] = queue[n][k]
  BY <1>1
<1>3. PICK x \in Nat : x = e
  BY <1>1
<1>4. Spots(n)' = Spots(n) \cup {x} /\ x \notin Spots(n)
  BY <1>1, <1>2, <1>3, WorkersFinite DEF Spots, Worker
<1>5. At(n, x)' = t
  BY <1>1, <1>2, <1>3 DEF At
<1>6. ASSUME NEW k \in Spots(n) PROVE At(n, k)' = At(n, k)
  BY <1>1, <1>2, WorkersFinite DEF Spots, At
<1> QED
  BY <1>4, <1>5, <1>6 DEF Joined

LEMMA FreedSpots ==
  ASSUME TypeOK, NEW n \in Node, NEW w \in Worker(n), queue'[n] = queue[n], Frees(n, w)
  PROVE  Freed(n, w) /\ \A m \in Node \ {n} : worker'[m] = worker[m]
<1>1. /\ worker'[n] = [worker[n] EXCEPT ![w] = Free]
      /\ \A m \in Node \ {n} : worker'[m] = worker[m]
  BY FreesTypes
<1>2. worker[n] \in [Worker(n) -> Task \cup {Free}]
  BY DEF TypeOK
<1>3. Spots(n)' = Spots(n)
  BY DEF Spots, Worker
<1>4. -w \in Int /\ ~(-w > 0) /\ -(-w) = w /\ worker'[n][w] = Free
  BY <1>1, <1>2, WorkersFinite
<1>5. ASSUME NEW k \in Spots(n), k # -w PROVE At(n, k)' = At(n, k)
  BY <1>1, <1>2, <1>5, SpotTypes DEF At
<1> QED
  BY <1>1, <1>3, <1>4, <1>5 DEF Freed, At

LEMMA LeftSpots ==
  ASSUME TypeOK, NEW n \in Node, NEW O, queue'[n] = QueueWithout(n, O),
         worker'[n] = WorkersWithout(n, O)
  PROVE  Left(n, O)
<1>1. Spots(n)' = Spots(n)
  BY WithoutTypes DEF Spots, Worker
<1>2. ASSUME NEW k \in Spots(n) PROVE At(n, k)' = GivenUp(At(n, k), O)
  BY <1>2, SpotTypes DEF At, QueueWithout, WorkersWithout
<1> QED
  BY <1>1, <1>2 DEF Left

LEMMA EmptiedSpots ==
  ASSUME TypeOK, NEW n \in Node, queue'[n] = <<>>,
         worker'[n] = [w \in Worker(n) |-> Free]
  PROVE  Emptied(n)
<1>1. Spots(n)' = {-w : w \in Worker(n)}
  BY DEF Spots, Worker
<1>2. Spots(n)' \subseteq Spots(n)
  BY <1>1 DEF Spots
<1>3. ASSUME NEW k \in Spots(n)' PROVE At(n, k)' = Free
  BY <1>1, <1>3, WorkersFinite DEF At
<1> QED
  BY <1>2, <1>3 DEF Emptied

LEMMA TakenSpots ==
  ASSUME TypeOK, NEW n \in Node, NEW w \in Worker(n), take(n, w)
  PROVE  Taken(n, w) /\ \A m \in Node \ {n} : Same(m)
<1> DEFINE q == queue[n]
           t == IF Head(q).late THEN Free ELSE Head(q)
<1>1. /\ q \in Seq(Task) /\ q # <<>> /\ Len(q) \in Nat \ {0} /\ DOMAIN q = 1..Len(q)
      /\ Head(q) = q[1] /\ worker[n] \in [Worker(n) -> Task \cup {Free}]
  BY DEF take, TypeOK
<1>2. /\ queue' = [queue EXCEPT ![n] = Tail(q)] /\ worker' = [worker EXCEPT ![n][w] = t]
      /\ worker[n][w].op = "free"
  BY DEF take, Dropped, Runs
<1>3. /\ queue'[n] = Tail(q) /\ worker'[n] = [worker[n] EXCEPT ![w] = t]
      /\ \A m \in Node \ {n} : queue'[m] = queue[m] /\ worker'[m] = worker[m]
  BY <1>2 DEF TypeOK
<1>4. /\ DOMAIN queue'[n] = 1..(Len(q) - 1)
      /\ \A k \in 1..(Len(q) - 1) : queue'[n][k] = q[k + 1]
  BY <1>1, <1>3
<1>5. worker[n][w] = Free
  BY <1>1, <1>2 DEF Task
<1>6. /\ w \in Nat \ {0} /\ -w \in Int /\ -w < 0
      /\ \A v \in Worker(n) : v \in Nat \ {0} /\ -v \in Int /\ -v < 0 /\ -(-v) = v
  BY WorkersFinite
<1>7. /\ Spots(n) = 1..Len(q) \cup {-v : v \in Worker(n)}
      /\ Spots(n)' = 1..(Len(q) - 1) \cup {-v : v \in Worker(n)}
  BY <1>1, <1>4 DEF Spots, Worker
<1>8. 1 \in Spots(n) /\ -w \in Spots(n) /\ At(n, -w) = Free /\ At(n, 1) = Head(q)
  BY <1>1, <1>5, <1>6, <1>7 DEF At
<1>9. ASSUME NEW k \in Spots(n), k # -w PROVE \E j \in Spots(n)' : Before(j, w) = k
  <2>1. CASE k = 1
    BY <1>6, <1>7, <2>1 DEF Before
  <2>2. CASE k \in 2..Len(q)
    <3>1. k - 1 \in 1..(Len(q) - 1) /\ k - 1 \in Spots(n)' /\ Before(k - 1, w) = k
      BY <1>1, <1>6, <1>7, <2>2 DEF Before
    <3> QED
      BY <3>1
  <2>3. CASE k \in {-v : v \in Worker(n)}
    BY <1>6, <1>7, <1>9, <2>3 DEF Before
  <2> QED
    BY <1>1, <1>7, <1>9, <2>1, <2>2, <2>3
<1>10. ASSUME NEW k \in Spots(n)'
       PROVE  /\ Before(k, w) \in Spots(n)
              /\ At(n, k)' = (IF k = -w /\ At(n, 1).late THEN Free ELSE At(n, Before(k, w)))
  <2>1. CASE k = -w
    <3>1. Before(k, w) = 1
      BY <2>1 DEF Before
    <3>2. At(n, k)' = t
      BY <1>1, <1>3, <1>6, <2>1 DEF At
    <3> QED
      BY <1>8, <2>1, <3>1, <3>2
  <2>2. CASE k \in 1..(Len(q) - 1)
    <3>1. Before(k, w) = k + 1 /\ k + 1 \in 1..Len(q) /\ k # -w
      BY <1>1, <1>6, <2>2 DEF Before
    <3>2. At(n, k)' = q[k + 1] /\ At(n, k + 1) = q[k + 1]
      BY <1>1, <1>4, <2>2, <3>1 DEF At
    <3> QED
      BY <1>7, <3>1, <3>2
  <2>3. CASE k \in {-v : v \in Worker(n)} /\ k # -w
    <3>1. PICK v \in Worker(n) : k = -v
      BY <2>3
    <3>2. Before(k, w) = k /\ v # w /\ ~(k > 0) /\ -k = v
      BY <1>6, <2>3, <3>1 DEF Before
    <3>3. At(n, k)' = worker'[n][v] /\ At(n, k) = worker[n][v] /\ worker'[n][v] = worker[n][v]
      BY <1>1, <1>3, <3>2 DEF At
    <3> QED
      BY <1>7, <2>3, <3>2, <3>3
  <2> QED
    BY <1>7, <2>1, <2>2, <2>3
<1>11. ASSUME NEW k \in Spots(n)', NEW j \in Spots(n)', Before(k, w) = Before(j, w)
       PROVE  k = j
  <2>1. k \in Int /\ j \in Int /\ (k > 0 \/ k < 0) /\ (j > 0 \/ j < 0)
    BY <1>1, <1>6, <1>7
  <2> QED
    BY <1>6, <1>11, <2>1 DEF Before
<1>12. \A m \in Node \ {n} : Same(m)
  BY <1>3, SameSpots
<1> QED
  BY <1>8, <1>9, <1>10, <1>11, <1>12 DEF Taken

-----------------------------------------------------------------------------
(* Every step keeps the places. *)

LEMMA CallPlaces ==
  ASSUME TypeOK, Places, NEW c \in Client, NEW n \in Node, NEW op \in {"read", "write", "chat"},
         call(c, n, op)
  PROVE  Places'
<1>1. /\ c \notin calling /\ calling' = calling \cup {c} /\ UNCHANGED awaited
      /\ queue'[n] = Append(queue[n], New(op, c)) /\ worker'[n] = worker[n]
      /\ \A m \in Node \ {n} : queue'[m] = queue[m] /\ worker'[m] = worker[m]
  BY DEF call, TypeOK
<1>2. New(op, c) \in Task /\ \A x : (Serves(New(op, c), x) <=> x = c) /\ ~Waits(New(op, c), x)
  BY NewTasks
<1>3. Joined(n, New(op, c))
  BY <1>1, <1>2, JoinedSpots
<1>4. PICK e : /\ Spots(n)' = Spots(n) \cup {e} /\ e \notin Spots(n) /\ At(n, e)' = New(op, c)
               /\ \A k \in Spots(n) : At(n, k)' = At(n, k)
  BY <1>3 DEF Joined
<1>5. \A m \in Node \ {n} : Spots(m)' = Spots(m) /\ \A k \in Spots(m) : At(m, k)' = At(m, k)
  BY <1>1, SameSpots DEF Same
<1>6. \A m \in Node : \A k \in Spots(m) : ~Serves(At(m, k), c)
  BY <1>1 DEF Places, CallsServed
<1>7. /\ \A m \in Node : \A k \in Spots(m) : k \in Spots(m)' /\ At(m, k)' = At(m, k)
      /\ \A m \in Node : \A k \in Spots(m)' : k \in Spots(m) \/ (m = n /\ k = e)
  BY <1>4, <1>5
<1>8. CallsServed'
  <2> SUFFICES ASSUME NEW d \in Client
               PROVE  d \in calling' <=>
                        \E m \in Node : \E k \in Spots(m)' : Serves(At(m, k)', d)
    BY DEF CallsServed, Serves, IsCall
  <2>1. d \in calling <=> \E m \in Node : \E k \in Spots(m) : Serves(At(m, k), d)
    BY DEF Places, CallsServed
  <2> QED
    BY <1>1, <1>2, <1>4, <1>7, <2>1
<1>9. CallsOnce'
  <2> SUFFICES ASSUME NEW d \in Client, NEW l \in Node, NEW m \in Node, NEW k \in Spots(l)',
                      NEW j \in Spots(m)', Serves(At(l, k)', d), Serves(At(m, j)', d)
               PROVE  l = m /\ k = j
    BY DEF CallsOnce, Serves, IsCall
  <2>1. CASE k \in Spots(l) /\ j \in Spots(m)
    BY <1>7, <2>1 DEF Places, CallsOnce
  <2> QED
    BY <1>2, <1>4, <1>6, <1>7, <2>1
<1>10. ASSUME NEW o, NEW m \in Node, NEW k \in Spots(m)', Waits(At(m, k)', o)
       PROVE  k \in Spots(m) /\ Waits(At(m, k), o)
  BY <1>2, <1>4, <1>7, <1>10
<1>11. AppendsAwaited'
  <2> SUFFICES ASSUME NEW o \in Owner, NEW m \in Node
               PROVE  m \in awaited'[o] <=> \E k \in Spots(m)' : Waits(At(m, k)', o)
    BY DEF AppendsAwaited, Waits
  <2> QED
    BY <1>1, <1>7, <1>10 DEF Places, AppendsAwaited
<1>12. AppendsOnce'
  <2> SUFFICES ASSUME NEW o \in Owner, NEW m \in Node, NEW k \in Spots(m)',
                      NEW j \in Spots(m)', Waits(At(m, k)', o), Waits(At(m, j)', o)
               PROVE  k = j
    BY DEF AppendsOnce, Waits
  <2> QED
    BY <1>10 DEF Places, AppendsOnce
<1> QED
  BY <1>8, <1>9, <1>11, <1>12 DEF Places

LEMMA SendsPlaces ==
  ASSUME TypeOK, Places, NEW n \in Node, NEW o \in Owner, awaited[o] = {}, Sends(n, o)
  PROVE  Places'
<1>1. /\ UNCHANGED calling /\ awaited' = [awaited EXCEPT ![o] = Node \ {n}]
      /\ queue'[n] = queue[n] /\ worker'[n] = worker[n]
      /\ \A m \in Node \ {n} : /\ queue'[m] = Append(queue[m], New("append", o))
                               /\ worker'[m] = worker[m]
  BY DEF Sends, TypeOK
<1>2. /\ New("append", o) \in Task
      /\ \A x : ~Serves(New("append", o), x) /\ (Waits(New("append", o), x) <=> x = o)
  BY NewTasks
<1>3. Spots(n)' = Spots(n) /\ \A k \in Spots(n) : At(n, k)' = At(n, k)
  BY <1>1, SameSpots DEF Same
<1>4. \A m \in Node \ {n} : Joined(m, New("append", o))
  BY <1>1, <1>2, JoinedSpots
<1>5. \A m \in Node : \A k \in Spots(m) : k \in Spots(m)' /\ At(m, k)' = At(m, k)
  BY <1>3, <1>4 DEF Joined
<1>6. \A m \in Node \ {n} : \E e \in Spots(m)' :
        /\ At(m, e)' = New("append", o)
        /\ \A k \in Spots(m)' : k \in Spots(m) \/ k = e
  BY <1>4 DEF Joined
<1>7. \A m \in Node : \A k \in Spots(m) : ~Waits(At(m, k), o)
  BY DEF Places, AppendsAwaited
<1>8. ASSUME NEW c, NEW m \in Node, NEW k \in Spots(m)', Serves(At(m, k)', c)
      PROVE  k \in Spots(m) /\ Serves(At(m, k), c)
  BY <1>2, <1>3, <1>5, <1>6, <1>8
<1>9. CallsServed'
  <2> SUFFICES ASSUME NEW d \in Client
               PROVE  d \in calling' <=>
                        \E m \in Node : \E k \in Spots(m)' : Serves(At(m, k)', d)
    BY DEF CallsServed, Serves, IsCall
  <2> QED
    BY <1>1, <1>5, <1>8 DEF Places, CallsServed
<1>10. CallsOnce'
  <2> SUFFICES ASSUME NEW d \in Client, NEW l \in Node, NEW m \in Node, NEW k \in Spots(l)',
                      NEW j \in Spots(m)', Serves(At(l, k)', d), Serves(At(m, j)', d)
               PROVE  l = m /\ k = j
    BY DEF CallsOnce, Serves, IsCall
  <2> QED
    BY <1>8 DEF Places, CallsOnce
<1>11. ASSUME NEW x \in Owner, NEW m \in Node
       PROVE  /\ m \in awaited'[x] <=> \E k \in Spots(m)' : Waits(At(m, k)', x)
              /\ \A k, j \in Spots(m)' : Waits(At(m, k)', x) /\ Waits(At(m, j)', x) => k = j
  <2>1. /\ m \in awaited[x] <=> \E k \in Spots(m) : Waits(At(m, k), x)
        /\ \A k, j \in Spots(m) : Waits(At(m, k), x) /\ Waits(At(m, j), x) => k = j
        /\ awaited'[x] = IF x = o THEN Node \ {n} ELSE awaited[x]
    BY <1>1 DEF Places, AppendsAwaited, AppendsOnce, TypeOK
  <2>2. CASE m = n
    BY <1>3, <1>7, <2>1, <2>2
  <2>3. CASE m # n
    <3>1. PICK e \in Spots(m)' : /\ At(m, e)' = New("append", o)
                                 /\ \A k \in Spots(m)' : k \in Spots(m) \/ k = e
      BY <1>6, <2>3
    <3>2. CASE x = o
      BY <1>2, <1>5, <1>7, <2>1, <2>3, <3>1, <3>2
    <3>3. CASE x # o
      <4>1. \A k \in Spots(m)' : Waits(At(m, k)', x) => k \in Spots(m) /\ Waits(At(m, k), x)
        BY <1>2, <1>5, <3>1, <3>3
      <4> QED
        BY <1>5, <2>1, <3>3, <4>1
    <3> QED
      BY <3>2, <3>3
  <2> QED
    BY <2>2, <2>3
<1>12. AppendsAwaited' /\ AppendsOnce'
  BY <1>11 DEF AppendsAwaited, AppendsOnce, Waits
<1> QED
  BY <1>9, <1>10, <1>12 DEF Places

(* A thread that ends answers the one that its task waits for it. *)
LEMMA FreesPlaces ==
  ASSUME TypeOK, Places, NEW n \in Node, NEW w \in Worker(n), Frees(n, w), UNCHANGED queue,
         calling' = (IF IsCall(worker[n][w]) THEN calling \ {worker[n][w].by} ELSE calling),
         awaited' = Answered(n, worker[n][w])
  PROVE  Places'
<1> DEFINE t == worker[n][w]
<1>1. Freed(n, w) /\ \A m \in Node \ {n} : Same(m)
  BY FreedSpots, SameSpots
<1>2. -w \in Spots(n) /\ At(n, -w) = t /\ t \in Task \cup {Free}
  BY SpotTypes, OwnerOf
<1>3. /\ \A m \in Node : Spots(m)' = Spots(m)
      /\ \A m \in Node : \A k \in Spots(m) :
           IF m = n /\ k = -w THEN At(m, k)' = Free ELSE At(m, k)' = At(m, k)
  BY <1>1 DEF Freed, Same
<1>4. \A x : ~Serves(Free, x) /\ ~Waits(Free, x)
  BY TaskFields
<1>5. ASSUME NEW d \in Client
      PROVE  d \in calling' <=> \E m \in Node : \E k \in Spots(m)' : Serves(At(m, k)', d)
  <2>1. d \in calling <=> \E m \in Node : \E k \in Spots(m) : Serves(At(m, k), d)
    BY DEF Places, CallsServed
  <2>2. \A m \in Node : \A k \in Spots(m) :
          Serves(At(m, k), d) /\ Serves(t, d) => m = n /\ k = -w
    BY <1>2 DEF Places, CallsOnce
  <2>3. d \in calling' <=> d \in calling /\ ~Serves(t, d)
    BY DEF Serves
  <2> HIDE DEF t
  <2>4. CASE Serves(t, d)
    BY <1>3, <1>4, <2>2, <2>3, <2>4
  <2>5. CASE ~Serves(t, d)
    <3>1. ASSUME NEW m \in Node, NEW k \in Spots(m), Serves(At(m, k), d)
          PROVE  k \in Spots(m)' /\ Serves(At(m, k)', d)
      BY <1>2, <1>3, <2>5, <3>1
    <3>2. ASSUME NEW m \in Node, NEW k \in Spots(m)', Serves(At(m, k)', d)
          PROVE  k \in Spots(m) /\ Serves(At(m, k), d)
      BY <1>3, <1>4, <3>2
    <3> QED
      BY <2>1, <2>3, <2>5, <3>1, <3>2
  <2> QED
    BY <2>4, <2>5
<1>6. CallsServed'
  BY <1>5 DEF CallsServed, Serves, IsCall
<1>7. CallsOnce'
  <2> SUFFICES ASSUME NEW d \in Client, NEW l \in Node, NEW m \in Node, NEW k \in Spots(l)',
                      NEW j \in Spots(m)', Serves(At(l, k)', d), Serves(At(m, j)', d)
               PROVE  l = m /\ k = j
    BY DEF CallsOnce, Serves, IsCall
  <2> HIDE DEF t
  <2>1. k \in Spots(l) /\ j \in Spots(m) /\ Serves(At(l, k), d) /\ Serves(At(m, j), d)
    BY <1>3, <1>4
  <2> QED
    BY <2>1 DEF Places, CallsOnce
<1>8. ASSUME NEW o \in Owner, NEW m \in Node
      PROVE  /\ m \in awaited'[o] <=> \E k \in Spots(m)' : Waits(At(m, k)', o)
             /\ \A k, j \in Spots(m)' : Waits(At(m, k)', o) /\ Waits(At(m, j)', o) => k = j
  <2>1. /\ m \in awaited[o] <=> \E k \in Spots(m) : Waits(At(m, k), o)
        /\ \A k, j \in Spots(m) : Waits(At(m, k), o) /\ Waits(At(m, j), o) => k = j
    BY DEF Places, AppendsAwaited, AppendsOnce
  <2>2. m \in awaited'[o] <=> m \in awaited[o] /\ ~(m = n /\ Waits(t, o))
    <3>1. CASE t.op = "append" /\ ~t.late
      <4>1. awaited' = [awaited EXCEPT ![t.by] = @ \ {n}] /\ t.by \in Owner
        BY <3>1, OwnerOf DEF Answered, Runs
      <4>2. Waits(t, o) <=> t.by = o
        BY <3>1 DEF Waits
      <4> QED
        BY <4>1, <4>2 DEF TypeOK
    <3>2. CASE ~(t.op = "append" /\ ~t.late)
      <4>1. awaited' = awaited
        BY <3>2 DEF Answered
      <4> QED
        BY <3>2, <4>1 DEF Waits
    <3> QED
      BY <3>1, <3>2
  <2> HIDE DEF t
  <2>3. ASSUME NEW k \in Spots(m)'
        PROVE  k \in Spots(m) /\ (Waits(At(m, k)', o) <=>
                                   Waits(At(m, k), o) /\ ~(m = n /\ k = -w))
    BY <1>3, <1>4
  <2>4. m = n => \A k \in Spots(m) : Waits(At(m, k), o) /\ Waits(t, o) => k = -w
    BY <1>2, <2>1
  <2> QED
    BY <1>2, <1>3, <2>1, <2>2, <2>3, <2>4
<1>9. AppendsAwaited' /\ AppendsOnce'
  BY <1>8 DEF AppendsAwaited, AppendsOnce, Waits
<1> QED
  BY <1>6, <1>7, <1>9 DEF Places

LEMMA TakePlaces ==
  ASSUME TypeOK, Places, NEW n \in Node, NEW w \in Worker(n), take(n, w)
  PROVE  Places'
<1>1. Taken(n, w) /\ UNCHANGED <<calling, awaited>>
      /\ \A m \in Node \ {n} : Spots(m)' = Spots(m) /\ \A k \in Spots(m) : At(m, k)' = At(m, k)
  BY TakenSpots DEF take, Same
<1> DEFINE from(m, k) == IF m = n THEN Before(k, w) ELSE k
<1>2. At(n, 1).late => \A x : ~Serves(At(n, 1), x) /\ ~Waits(At(n, 1), x)
  BY <1>1, SpotTypes, TaskFields DEF Taken, Serves, Waits
<1>3. \A x : ~Serves(Free, x) /\ ~Waits(Free, x)
  BY TaskFields
<1>4. ASSUME NEW m \in Node, NEW k \in Spots(m)'
      PROVE  /\ from(m, k) \in Spots(m)
             /\ \A x : Serves(At(m, k)', x) <=> Serves(At(m, from(m, k)), x)
             /\ \A x : Waits(At(m, k)', x) <=> Waits(At(m, from(m, k)), x)
  <2>1. CASE m = n
    <3>1. /\ Before(k, w) \in Spots(n)
          /\ At(n, k)' = (IF k = -w /\ At(n, 1).late THEN Free ELSE At(n, Before(k, w)))
      BY <1>1, <1>4, <2>1 DEF Taken
    <3>2. CASE k = -w /\ At(n, 1).late
      <4>1. Before(k, w) = 1
        BY <3>2 DEF Before
      <4> QED
        BY <1>2, <1>3, <2>1, <3>1, <3>2, <4>1
    <3> QED
      BY <2>1, <3>1, <3>2
  <2>2. CASE m # n
    BY <1>1, <1>4, <2>2
  <2> QED
    BY <2>1, <2>2
<1>5. ASSUME NEW m \in Node, NEW k \in Spots(m)', NEW j \in Spots(m)', from(m, k) = from(m, j)
      PROVE  k = j
  BY <1>1, <1>5 DEF Taken
<1>6. ASSUME NEW m \in Node, NEW k \in Spots(m), NEW x, Serves(At(m, k), x) \/ Waits(At(m, k), x)
      PROVE  \E j \in Spots(m)' : from(m, j) = k
  BY <1>1, <1>3, <1>6 DEF Taken
<1> HIDE DEF from
<1>7. CallsServed'
  <2> SUFFICES ASSUME NEW d \in Client
               PROVE  d \in calling' <=>
                        \E m \in Node : \E k \in Spots(m)' : Serves(At(m, k)', d)
    BY DEF CallsServed, Serves, IsCall
  <2>1. d \in calling <=> \E m \in Node : \E k \in Spots(m) : Serves(At(m, k), d)
    BY DEF Places, CallsServed
  <2> QED
    BY <1>1, <1>4, <1>6, <2>1
<1>8. CallsOnce'
  <2> SUFFICES ASSUME NEW d \in Client, NEW l \in Node, NEW m \in Node, NEW k \in Spots(l)',
                      NEW j \in Spots(m)', Serves(At(l, k)', d), Serves(At(m, j)', d)
               PROVE  l = m /\ k = j
    BY DEF CallsOnce, Serves, IsCall
  <2>1. l = m /\ from(l, k) = from(m, j)
    BY <1>4 DEF Places, CallsOnce
  <2> QED
    BY <1>5, <2>1
<1>9. ASSUME NEW o \in Owner, NEW m \in Node
      PROVE  /\ m \in awaited'[o] <=> \E k \in Spots(m)' : Waits(At(m, k)', o)
             /\ \A k, j \in Spots(m)' : Waits(At(m, k)', o) /\ Waits(At(m, j)', o) => k = j
  <2>1. /\ m \in awaited[o] <=> \E k \in Spots(m) : Waits(At(m, k), o)
        /\ \A k, j \in Spots(m) : Waits(At(m, k), o) /\ Waits(At(m, j), o) => k = j
    BY DEF Places, AppendsAwaited, AppendsOnce
  <2> QED
    BY <1>1, <1>4, <1>5, <1>6, <2>1
<1>10. AppendsAwaited' /\ AppendsOnce'
  BY <1>9 DEF AppendsAwaited, AppendsOnce, Waits
<1> QED
  BY <1>7, <1>8, <1>10 DEF Places

(* What is given up is still there, but waited for no longer. *)
LEMMA DeadlinePlaces ==
  ASSUME TypeOK, Places, NEW o \in Owner, NEW p \in Node, deadline(o, p)
  PROVE  Places'
<1>1. /\ UNCHANGED calling /\ awaited' = [awaited EXCEPT ![o] = @ \ {p}]
      /\ queue'[p] = QueueWithout(p, {o}) /\ worker'[p] = WorkersWithout(p, {o})
      /\ \A m \in Node \ {p} : queue'[m] = queue[m] /\ worker'[m] = worker[m]
  BY DEF deadline, TypeOK
<1>2. Left(p, {o}) /\ \A m \in Node \ {p} : Same(m)
  BY <1>1, LeftSpots, SameSpots
<1>3. ASSUME NEW m \in Node
      PROVE  /\ Spots(m)' = Spots(m)
             /\ \A k \in Spots(m) : \A x : Serves(At(m, k)', x) <=> Serves(At(m, k), x)
             /\ \A k \in Spots(m) : \A x : Waits(At(m, k)', x) <=>
                                         Waits(At(m, k), x) /\ ~(m = p /\ x = o)
  <2>1. CASE m = p
    <3>1. /\ Spots(m)' = Spots(m)
          /\ \A k \in Spots(m) : /\ At(m, k)' = GivenUp(At(m, k), {o})
                                 /\ At(m, k) \in Task \cup {Free}
      BY <1>2, <2>1, SpotTypes DEF Left
    <3> QED
      BY <2>1, <3>1, GivenUpTask
  <2>2. CASE m # p
    BY <1>2, <2>2 DEF Same
  <2> QED
    BY <2>1, <2>2
<1>4. CallsServed' /\ CallsOnce'
  <2>1. ASSUME NEW d \in Client
        PROVE  d \in calling' <=>
                 \E m \in Node : \E k \in Spots(m)' : Serves(At(m, k)', d)
    BY <1>1, <1>3 DEF Places, CallsServed
  <2>2. ASSUME NEW d \in Client, NEW l \in Node, NEW m \in Node, NEW k \in Spots(l)',
               NEW j \in Spots(m)', Serves(At(l, k)', d), Serves(At(m, j)', d)
        PROVE  l = m /\ k = j
    BY <1>3, <2>2 DEF Places, CallsOnce
  <2> QED
    BY <2>1, <2>2 DEF CallsServed, CallsOnce, Serves, IsCall
<1>5. ASSUME NEW x \in Owner, NEW m \in Node
      PROVE  /\ m \in awaited'[x] <=> \E k \in Spots(m)' : Waits(At(m, k)', x)
             /\ \A k, j \in Spots(m)' : Waits(At(m, k)', x) /\ Waits(At(m, j)', x) => k = j
  <2>1. /\ m \in awaited[x] <=> \E k \in Spots(m) : Waits(At(m, k), x)
        /\ \A k, j \in Spots(m) : Waits(At(m, k), x) /\ Waits(At(m, j), x) => k = j
    BY DEF Places, AppendsAwaited, AppendsOnce
  <2>2. m \in awaited'[x] <=> m \in awaited[x] /\ ~(m = p /\ x = o)
    BY <1>1 DEF TypeOK
  <2> QED
    BY <1>3, <2>1, <2>2
<1> QED
  BY <1>4, <1>5 DEF Places, AppendsAwaited, AppendsOnce, Waits

LEMMA CallersAtNode ==
  ASSUME TypeOK, NEW n \in Node
  PROVE  /\ \A c : c \in CallersAt(n) <=> \E k \in Spots(n) : Serves(At(n, k), c)
         /\ CallersAt(n) \subseteq Client
<1>1. Range(queue[n]) = {queue[n][k] : k \in DOMAIN queue[n]}
      /\ Range(worker[n]) = {worker[n][w] : w \in Worker(n)}
  BY DEF Range, TypeOK
<1>2. \A t : t \in TasksAt(n) <=> t # Free /\ \E k \in Spots(n) : At(n, k) = t
  <2>1. \A k \in DOMAIN queue[n] : queue[n][k] # Free
    BY TaskFields DEF TypeOK
  <2> QED
    BY <1>1, <2>1, SpotTypes DEF TasksAt, At
<1>3. \A t \in TasksAt(n) : t \in Task /\ (t.op # "append" <=> IsCall(t))
  BY <1>2, SpotTypes, TaskFields DEF IsCall
<1>4. \A c : c \in CallersAt(n) <=> \E t \in TasksAt(n) : Serves(t, c)
  BY <1>3 DEF CallersAt, Serves
<1> QED
  BY <1>2, <1>3, <1>4, TaskFields DEF Serves

LEMMA RestartPlaces ==
  ASSUME TypeOK, Places, NEW n \in Node, restart(n)
  PROVE  Places'
<1> DEFINE gone == CallersAt(n) \cup {n}
<1>1. /\ calling' = calling \ gone
      /\ awaited' = [o \in Owner |-> IF o \in gone THEN {} ELSE awaited[o] \ {n}]
      /\ queue'[n] = <<>> /\ worker'[n] = [w \in Worker(n) |-> Free]
      /\ \A m \in Node \ {n} : /\ queue'[m] = QueueWithout(m, gone)
                               /\ worker'[m] = WorkersWithout(m, gone)
  BY DEF restart
<1>2. \A c \in Client : c \in gone <=> \E k \in Spots(n) : Serves(At(n, k), c)
  BY CallersAtNode, PoolAssumption
<1> HIDE DEF gone
<1>3. Emptied(n) /\ \A m \in Node \ {n} : Left(m, gone)
  BY <1>1, EmptiedSpots, LeftSpots
<1>4. \A k \in Spots(n)' : \A x : ~Serves(At(n, k)', x) /\ ~Waits(At(n, k)', x)
  BY <1>3, TaskFields DEF Emptied
<1>5. ASSUME NEW m \in Node \ {n}
      PROVE  /\ Spots(m)' = Spots(m)
             /\ \A k \in Spots(m) : \A x : Serves(At(m, k)', x) <=> Serves(At(m, k), x)
             /\ \A k \in Spots(m) : \A x : Waits(At(m, k)', x) <=>
                                         Waits(At(m, k), x) /\ x \notin gone
  BY <1>3, SpotTypes, GivenUpTask DEF Left
<1>6. CallsServed'
  <2> SUFFICES ASSUME NEW d \in Client
               PROVE  d \in calling' <=>
                        \E m \in Node : \E k \in Spots(m)' : Serves(At(m, k)', d)
    BY DEF CallsServed, Serves, IsCall
  <2>1. d \in calling <=> \E m \in Node : \E k \in Spots(m) : Serves(At(m, k), d)
    BY DEF Places, CallsServed
  <2>2. CASE \E k \in Spots(n) : Serves(At(n, k), d)
    <3>1. \A m \in Node \ {n} : \A k \in Spots(m) : ~Serves(At(m, k), d)
      BY <2>2 DEF Places, CallsOnce
    <3> QED
      BY <1>1, <1>2, <1>4, <1>5, <2>2, <3>1
  <2>3. CASE ~\E k \in Spots(n) : Serves(At(n, k), d)
    BY <1>1, <1>2, <1>4, <1>5, <2>1, <2>3
  <2> QED
    BY <2>2, <2>3
<1>7. CallsOnce'
  <2> SUFFICES ASSUME NEW d \in Client, NEW l \in Node, NEW m \in Node, NEW k \in Spots(l)',
                      NEW j \in Spots(m)', Serves(At(l, k)', d), Serves(At(m, j)', d)
               PROVE  l = m /\ k = j
    BY DEF CallsOnce, Serves, IsCall
  <2>1. l # n /\ m # n
    BY <1>4
  <2> QED
    BY <1>5, <2>1 DEF Places, CallsOnce
<1>8. ASSUME NEW o \in Owner, NEW m \in Node
      PROVE  /\ m \in awaited'[o] <=> \E k \in Spots(m)' : Waits(At(m, k)', o)
             /\ \A k, j \in Spots(m)' : Waits(At(m, k)', o) /\ Waits(At(m, j)', o) => k = j
  <2>1. /\ m \in awaited[o] <=> \E k \in Spots(m) : Waits(At(m, k), o)
        /\ \A k, j \in Spots(m) : Waits(At(m, k), o) /\ Waits(At(m, j), o) => k = j
    BY DEF Places, AppendsAwaited, AppendsOnce
  <2>2. m \in awaited'[o] <=> m \in awaited[o] /\ o \notin gone /\ m # n
    BY <1>1
  <2> QED
    BY <1>4, <1>5, <2>1, <2>2
<1> QED
  BY <1>6, <1>7, <1>8 DEF Places, AppendsAwaited, AppendsOnce, Waits

-----------------------------------------------------------------------------
(* The invariant. *)

LEMMA PoolPlacesStep == TypeOK /\ PoolInv /\ [Next]_vars => Places'
<1> SUFFICES ASSUME TypeOK, PoolInv, [Next]_vars PROVE Places'
  OBVIOUS
<1>0. Places /\ RoundsAwait
  BY DEF PoolInv
<1>1. ASSUME NEW c \in Client, NEW n \in Node, NEW op \in {"read", "write", "chat"},
             call(c, n, op)
      PROVE  Places'
  BY <1>0, <1>1, CallPlaces
<1>2. ASSUME NEW n \in Node, NEW w \in Worker(n), take(n, w) PROVE Places'
  BY <1>0, <1>2, TakePlaces
<1>3. ASSUME NEW n \in Node, NEW w \in Worker(n), leader_append_log(n, w) PROVE Places'
  <2>1. worker[n][w].by \in Owner /\ worker[n][w].by \notin rounds
        /\ Sends(n, worker[n][w].by)
    BY <1>3, OwnerOf DEF leader_append_log, Runs, IsCall, Owner
  <2> QED
    BY <1>0, <2>1, SendsPlaces DEF RoundsAwait
<1>4. ASSUME NEW n \in Node, heartbeat_tick(n) PROVE Places'
  <2>1. n \in Owner /\ n \notin rounds /\ Sends(n, n)
    BY <1>4 DEF heartbeat_tick, Owner
  <2> QED
    BY <1>0, <2>1, SendsPlaces DEF RoundsAwait
<1>5. ASSUME NEW n \in Node, NEW w \in Worker(n), handler_returns(n, w) PROVE Places'
  <2>1. Runs(n, w, "read") <=> IsCall(worker[n][w])
    BY <1>5 DEF handler_returns, Runs, IsCall
  <2> QED
    BY <1>0, <1>5, <2>1, FreesPlaces DEF handler_returns
<1>6. ASSUME NEW n \in Node, NEW w \in Worker(n), write_returns(n, w) \/ chat_over(n, w)
      PROVE  Places'
  <2>1. /\ IsCall(worker[n][w]) /\ worker[n][w].op # "append"
        /\ calling' = calling \ {worker[n][w].by} /\ Frees(n, w) /\ UNCHANGED <<queue, awaited>>
    BY <1>6 DEF write_returns, chat_over, Runs, IsCall
  <2> QED
    BY <1>0, <2>1, FreesPlaces DEF Answered
<1>7. CASE UNCHANGED <<queue, worker, calling, awaited>>
  BY <1>0, <1>7 DEF Places, CallsServed, CallsOnce, AppendsAwaited, AppendsOnce, Serves,
                    Waits, IsCall, At, Spots, Worker
<1>8. ASSUME NEW n \in Node, heartbeat_returns(n) PROVE Places'
  BY <1>7, <1>8 DEF heartbeat_returns
<1>9. ASSUME NEW o \in Owner, NEW p \in Node, deadline(o, p) PROVE Places'
  BY <1>0, <1>9, DeadlinePlaces
<1>10. ASSUME NEW n \in Node, restart(n) PROVE Places'
  BY <1>0, <1>10, RestartPlaces
<1>11. CASE UNCHANGED vars
  BY <1>7, <1>11 DEF vars
<1> QED
  BY <1>1, <1>2, <1>3, <1>4, <1>5, <1>6, <1>8, <1>9, <1>10, <1>11
  DEF Next, Take, Works, Deadline

LEMMA RoundsAwaitStep == TypeOK /\ RoundsAwait /\ [Next]_vars => RoundsAwait'
<1> SUFFICES ASSUME TypeOK, RoundsAwait, [Next]_vars, NEW o \in Owner, awaited'[o] # {}
             PROVE  o \in rounds'
  BY DEF RoundsAwait
<1>0. (awaited[o] # {} => o \in rounds) /\ awaited \in [Owner -> SUBSET Node]
  BY DEF RoundsAwait, TypeOK
<1>1. CASE UNCHANGED <<rounds, awaited>>
  BY <1>0, <1>1
<1>2. ASSUME NEW c \in Client, NEW n \in Node, NEW op \in {"read", "write", "chat"},
             call(c, n, op)
      PROVE  o \in rounds'
  BY <1>1, <1>2 DEF call
<1>3. ASSUME NEW n \in Node, NEW w \in Worker(n), take(n, w) \/ chat_over(n, w)
      PROVE  o \in rounds'
  BY <1>1, <1>3 DEF take, chat_over
<1>4. ASSUME NEW n \in Node, NEW x \in Owner, Sends(n, x) PROVE o \in rounds'
  BY <1>0, <1>4 DEF Sends
<1>5. ASSUME NEW n \in Node, NEW w \in Worker(n), leader_append_log(n, w)
      PROVE  o \in rounds'
  BY <1>4, <1>5, OwnerOf DEF leader_append_log, Runs, IsCall, Owner
<1>6. ASSUME NEW n \in Node, heartbeat_tick(n) PROVE o \in rounds'
  BY <1>4, <1>6 DEF heartbeat_tick, Owner
<1>7. ASSUME NEW n \in Node, NEW w \in Worker(n), handler_returns(n, w)
      PROVE  o \in rounds'
  BY <1>0, <1>7 DEF handler_returns, Answered
<1>8. ASSUME NEW n \in Node, NEW w \in Worker(n), write_returns(n, w) PROVE o \in rounds'
  BY <1>0, <1>8 DEF write_returns, Ended
<1>9. ASSUME NEW n \in Node, heartbeat_returns(n) PROVE o \in rounds'
  BY <1>0, <1>9 DEF heartbeat_returns, Ended
<1>10. ASSUME NEW x \in Owner, NEW p \in Node, deadline(x, p) PROVE o \in rounds'
  BY <1>0, <1>10 DEF deadline
<1>11. ASSUME NEW n \in Node, restart(n) PROVE o \in rounds'
  BY <1>0, <1>11 DEF restart
<1>12. CASE UNCHANGED vars
  BY <1>1, <1>12 DEF vars
<1> QED
  BY <1>2, <1>3, <1>5, <1>6, <1>7, <1>8, <1>9, <1>10, <1>11, <1>12
  DEF Next, Take, Works, Deadline

LEMMA PoolInit == Init => PoolInv
<1> SUFFICES ASSUME Init PROVE PoolInv
  OBVIOUS
<1>1. TypeOK
  BY TypeInit
<1>2. \A n \in Node : queue[n] = <<>> /\ worker[n] = [w \in Worker(n) |-> Free]
  BY DEF Init
<1>3. ASSUME NEW n \in Node, NEW k \in Spots(n) PROVE At(n, k) = Free
  <2>1. k \notin DOMAIN queue[n]
    <3>1. queue[n] = <<>> /\ queue[n] \in Seq(Task)
      BY <1>1, <1>2 DEF TypeOK
    <3>2. Len(queue[n]) = 0 /\ DOMAIN queue[n] = 1..Len(queue[n])
      BY <3>1, EmptySeq, LenProperties
    <3>3. DOMAIN queue[n] = 1..0
      BY <3>2
    <3> QED
      BY <3>3
  <2>2. ~(k > 0) /\ -k \in Worker(n)
    BY <1>1, <2>1, SpotTypes
  <2> QED
    BY <1>2, <2>2 DEF At
<1>4. \A o : ~Serves(Free, o) /\ ~Waits(Free, o)
  BY TaskFields
<1> QED
  BY <1>3, <1>4 DEF Init, PoolInv, Places, CallsServed, CallsOnce, AppendsAwaited, AppendsOnce,
                    RoundsAwait

-----------------------------------------------------------------------------
(* Copies of a task. *)

LEMMA CopiesOf ==
  ASSUME TypeOK, NEW n \in Node, NEW t \in Task,
         \A k, j \in Spots(n) : At(n, k) = t /\ At(n, j) = t => k = j
  PROVE  Copies(n, t) = IF \E k \in Spots(n) : At(n, k) = t THEN 1 ELSE 0
<1> DEFINE Q == {i \in DOMAIN queue[n] : queue[n][i] = t}
           W == {w \in Worker(n) : worker[n][w] = t}
<1>1. Copies(n, t) = Cardinality(Q) + Cardinality(W)
  BY DEF Copies
<1>2. /\ \A k \in DOMAIN queue[n] : k > 0 /\ k \in Spots(n) /\ At(n, k) = queue[n][k]
      /\ \A w \in Worker(n) : w > 0 /\ w \in Int /\ -w \in Spots(n)
                              /\ At(n, -w) = worker[n][w]
      /\ \A k \in Spots(n) : k \in Int /\ (k > 0 => k \in DOMAIN queue[n])
                             /\ (~(k > 0) => -k \in Worker(n) /\ -(-k) = k)
  BY SpotTypes, WorkersFinite
<1>3. \A x, y : /\ x \in Q /\ y \in Q => x = y
                /\ x \in W /\ y \in W => x = y
                /\ x \in Q => y \notin W
  <2>1. \A x, y : x \in W /\ y \in W => x = y
    <3> SUFFICES ASSUME NEW x \in W, NEW y \in W PROVE x = y
      OBVIOUS
    <3>1. x \in Int /\ y \in Int /\ -x = -y
      BY <1>2
    <3> QED
      BY <3>1
  <2>2. ASSUME NEW x \in Q, NEW y \in W PROVE FALSE
    <3>1. x = -y /\ x > 0 /\ y > 0 /\ y \in Int
      BY <1>2
    <3> QED
      BY <3>1
  <2> QED
    BY <1>2, <2>1, <2>2
<1>4. (\E k \in Spots(n) : At(n, k) = t) <=> Q # {} \/ W # {}
  <2>1. ASSUME NEW k \in Spots(n), At(n, k) = t PROVE Q # {} \/ W # {}
    <3>1. CASE k > 0
      BY <1>2, <2>1, <3>1
    <3>2. CASE ~(k > 0)
      <4>1. -k \in Worker(n) /\ worker[n][-k] = t
        BY <1>2, <2>1, <3>2
      <4> QED
        BY <4>1
    <3> QED
      BY <3>1, <3>2
  <2> QED
    BY <1>2, <2>1
<1> HIDE DEF Q, W
<1>5. ASSUME NEW S, \A x, y : x \in S /\ y \in S => x = y
      PROVE  Cardinality(S) = IF S = {} THEN 0 ELSE 1
  <2>1. CASE S = {}
    BY <2>1, FS_EmptySet
  <2>2. CASE S # {}
    <3>1. PICK x : x \in S
      BY <2>2
    <3>2. S = {x}
      BY <1>5, <3>1
    <3> QED
      BY <2>2, <3>2, FS_Singleton
  <2> QED
    BY <2>1, <2>2
<1>6. /\ Cardinality(Q) = IF Q = {} THEN 0 ELSE 1
      /\ Cardinality(W) = IF W = {} THEN 0 ELSE 1
      /\ Q = {} \/ W = {}
  BY <1>3, <1>5
<1> QED
  BY <1>1, <1>4, <1>6

LEMMA WaitsHaveTasks == TypeOK /\ PoolInv => EveryWaitHasATask
<1> SUFFICES ASSUME TypeOK, PoolInv PROVE EveryWaitHasATask
  OBVIOUS
<1>0. CallsServed /\ CallsOnce /\ AppendsAwaited /\ AppendsOnce /\ RoundsAwait
  BY DEF PoolInv, Places
<1>1. ASSUME NEW o \in Owner, NEW n \in Node
      PROVE  Copies(n, New("append", o)) = IF n \in awaited[o] THEN 1 ELSE 0
  <2>1. New("append", o) \in Task
    BY NewTasks
  <2>2. \A k \in Spots(n) : Waits(At(n, k), o) <=> At(n, k) = New("append", o)
    BY SpotTypes, AskedTask
  <2>3. \A k, j \in Spots(n) : At(n, k) = New("append", o) /\ At(n, j) = New("append", o) => k = j
    BY <1>0, <2>2 DEF AppendsOnce
  <2>4. n \in awaited[o] <=> \E k \in Spots(n) : At(n, k) = New("append", o)
    BY <1>0, <2>2 DEF AppendsAwaited
  <2> QED
    BY <2>1, <2>3, <2>4, CopiesOf
<1>2. ASSUME NEW c \in Client, NEW n \in Node
      PROVE  Calls(c, n) # {} <=> \E k \in Spots(n) : Serves(At(n, k), c)
  <2>1. \A k \in Spots(n) : Serves(At(n, k), c) <=>
                              \E op \in {"read", "write", "chat"} : At(n, k) = New(op, c)
    BY SpotTypes, AskedTask
  <2>2. ASSUME NEW op \in {"read", "write", "chat"}
        PROVE  Copies(n, New(op, c)) > 0 <=> \E k \in Spots(n) : At(n, k) = New(op, c)
    <3>1. New(op, c) \in Task
      BY NewTasks
    <3>2. \A k, j \in Spots(n) : At(n, k) = New(op, c) /\ At(n, j) = New(op, c) => k = j
      BY <1>0, <2>1 DEF CallsOnce
    <3> QED
      BY <3>1, <3>2, CopiesOf
  <2>3. Calls(c, n) # {} <=> \E op \in {"read", "write", "chat"} : Copies(n, New(op, c)) > 0
    BY DEF Calls
  <2> QED
    BY <2>1, <2>2, <2>3
<1>3. ASSUME NEW c \in Client
      PROVE  Cardinality({n \in Node : Calls(c, n) # {}}) = IF c \in calling THEN 1 ELSE 0
  <2> DEFINE places == {n \in Node : Calls(c, n) # {}}
  <2>1. \A n : n \in places <=> n \in Node /\ \E k \in Spots(n) : Serves(At(n, k), c)
    BY <1>2
  <2> HIDE DEF places
  <2>2. places # {} <=> c \in calling
    BY <1>0, <2>1 DEF CallsServed
  <2>3. \A n, m \in places : n = m
    BY <1>0, <2>1 DEF CallsOnce
  <2>4. CASE c \in calling
    <3>1. PICK n : places = {n}
      BY <2>2, <2>3, <2>4
    <3> QED
      BY <2>4, <3>1, FS_Singleton DEF places
  <2>5. CASE c \notin calling
    BY <2>2, <2>5, FS_EmptySet DEF places
  <2> QED
    BY <2>4, <2>5
<1> QED
  BY <1>0, <1>1, <1>3 DEF EveryWaitHasATask, RoundsAwait

(* Whoever waits, a client for a call or leader_append_entries for a peer, waits for one
   task, which is in one queue or on one thread, and no other task of its is there but
   what was given up: over deadlines, restarts and answers that cross them, with any
   number of nodes, clients and threads. *)
THEOREM EveryWaitServed == Spec => []EveryWaitHasATask
<1>1. Init => TypeOK /\ PoolInv
  BY TypeInit, PoolInit
<1>2. TypeOK /\ PoolInv /\ [Next]_vars => TypeOK' /\ PoolInv'
  BY TypeStep, PoolPlacesStep, RoundsAwaitStep DEF PoolInv
<1>3. TypeOK /\ PoolInv => EveryWaitHasATask
  BY WaitsHaveTasks
<1> QED
  BY <1>1, <1>2, <1>3, PTL DEF Spec

=============================================================================
