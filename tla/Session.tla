------------------------------ MODULE Session ------------------------------
(***************************************************************************)
(* A client process (client/*.py), the people who log in at its terminal   *)
(* one after another, and the calls it makes: discovery of a leader, the   *)
(* menus, the token, what becomes of a call on the server that takes it    *)
(* (security/access_control.py, services/*.py), and reconnection.          *)
(*                                                                         *)
(* A node is up or down, and has or has not been elected since it started: *)
(* leader_node is its own id or nothing, and nothing clears it.  A handler *)
(* goes on when the connection of its caller is lost.  Time is a counter,  *)
(* as coarse as one of these needs it.                                     *)
(***************************************************************************)
EXTENDS Naturals, Sequences, FiniteSets

CONSTANTS
  Node, BOOTSTRAP_NODES,   \* the nodes, and the order in which the client asks them
  User, RoleOf,            \* the rows of users, with their roles
  Nil,
  TTL,                     \* two hours
  MaxTime,                 \* bound: the clock
  MaxLogins,               \* bound: logins that are right
  MaxCalls,                \* bound: calls that write
  MaxFaults                \* bound: crashes, lost connections, database errors

Role == {"Student", "Instructor"}

ASSUME SessionAssumption ==
  /\ BOOTSTRAP_NODES \in Seq(Node) /\ RoleOf \in [User -> Role]
  /\ Nil \notin Node \cup User
  /\ {TTL, MaxTime, MaxLogins, MaxCalls, MaxFaults} \subseteq Nat

VARIABLES
  pc,             \* what the client is doing
  poll,           \* get_leader_id: the place in BOOTSTRAP_NODES
  menu,           \* the innermost handle_menu
  access_token,
  stubs,          \* the node the stubs connect to
  call,           \* the slot of the call in progress
  handler,        \* what the servers do for each call
  calls,          \* calls that write, so far
  up, elected,    \* nodes that run; nodes elected since they started
  clock, faults,
  raft_logs,      \* history: the entries logged, on whichever node
  logins,         \* history: the logins that were right
  told            \* history: what the client was told of each call that writes

client == <<pc, poll, menu, access_token, stubs, call>>
cluster == <<up, elected>>
history == <<raft_logs, logins, told>>
vars == <<client, handler, calls, cluster, clock, faults, history>>

-----------------------------------------------------------------------------
(* Operations.  Each writing call has a slot of its own; all others, of which only
   the one in progress matters, share slot 0.  There is never a material to list or
   to download, because no upload succeeds. *)
Writes == {"submitAssignment", "createQuery", "answerQuery"}
Reads == {"getCourseContents", "getSubmittedAssignment", "getQueries"}
Logins == {"studentLogin", "facultyLogin"}
Ops == Writes \cup Reads \cup Logins \cup {"courseMaterialUpload", "askLlm"}
Slot == 0..MaxCalls

MainMenu == "Main Menu"
LoginRole(op) == IF op = "studentLogin" THEN "Student" ELSE "Instructor"

(* MAIN_MENU_ACTIONS, STUDENT_MENU_ACTIONS and FACULTY_MENU_ACTIONS. *)
BugOffers(m, op) ==
  CASE m = MainMenu -> op \in Logins \cup {"logout"}
    [] m = "Student" -> op \in {"getCourseContents", "submitAssignment", "getQueries",
                                "createQuery", "askLlm", "logout"}
    [] OTHER -> op \in {"getCourseContents", "getSubmittedAssignment",
                        "courseMaterialUpload", "getQueries", "askLlm", "logout"}
Offers(m, op) ==
  CASE m = MainMenu -> op \in Logins \cup {"logout"}
    [] m = "Student" -> op \in {"getCourseContents", "submitAssignment", "getQueries",
                                "createQuery", "askLlm"}
    [] OTHER -> op \in {"getCourseContents", "getSubmittedAssignment",
                        "courseMaterialUpload", "getQueries", "askLlm"}

(* The decorators: student_, faculty_ and any_access_token_required. *)
Required(op) ==
  CASE op \in {"submitAssignment", "createQuery"} -> {"Student"}
    [] op \in {"getSubmittedAssignment", "courseMaterialUpload", "answerQuery"} ->
         {"Instructor"}
    [] OTHER -> Role

(* All calls but these reconnect after UNAVAILABLE. *)
BugReconnects(op) == op \in Logins
Reconnects(op) == op \notin {"createQuery", "askLlm"}

NoToken == [user |-> Nil, role |-> "none", expiry |-> 0]
Idle == [stage |-> "none", node |-> Nil, op |-> "none", user |-> Nil, token |-> NoToken,
         began |-> 0]
Op(c) == handler[c].op
Stage(c, s) == handler[c].stage = s

-----------------------------------------------------------------------------
(* Leader discovery: main() until it has a leader, reconnect_to_leader once. *)

BugFirst == 2
First == 1
BugAfterNone == pc
AfterNone == IF pc = "reconnect" THEN "menu" ELSE "discover"

Polling == pc \in {"discover", "reconnect"}
Polled == BOOTSTRAP_NODES[poll]

(* Down, or getLeader answers with no id. *)
poll_next ==
  /\ Polling /\ poll <= Len(BOOTSTRAP_NODES) /\ Polled \notin elected
  /\ poll' = poll + 1
  /\ UNCHANGED <<pc, menu, access_token, stubs, call, handler, calls, cluster, clock,
                 faults, history>>

connect_to_leader ==
  /\ Polling /\ poll <= Len(BOOTSTRAP_NODES) /\ Polled \in elected
  /\ stubs' = Polled
  /\ pc' = "menu" /\ poll' = 1
  /\ UNCHANGED <<menu, access_token, call, handler, calls, cluster, clock, faults, history>>

(* reconnect_to_leader returns with the stubs as they were. *)
no_leader_found ==
  /\ Polling /\ poll > Len(BOOTSTRAP_NODES)
  /\ pc' = AfterNone /\ poll' = First
  /\ UNCHANGED <<menu, access_token, stubs, call, handler, calls, cluster, clock,
                 faults, history>>

-----------------------------------------------------------------------------
(* handle_menu and the actions of the menus. *)

Send(op, user) ==
  LET c == IF op \in Writes THEN calls + 1 ELSE 0
  IN  /\ op \in Writes => calls < MaxCalls
      /\ calls' = IF op \in Writes THEN c ELSE calls
      /\ pc' = "calling" /\ call' = c
      /\ handler' = [handler EXCEPT ![c] =
           [Idle EXCEPT !.stage = "sent", !.node = stubs, !.op = op, !.user = user,
                        !.token = IF op \in Logins THEN NoToken ELSE access_token]]
      /\ UNCHANGED <<poll, menu, access_token, stubs, cluster, clock, faults, history>>

login(op, user) ==
  /\ pc = "menu" /\ op \in Logins /\ Offers(menu, op)
  /\ Cardinality(logins) < MaxLogins
  /\ Send(op, user)
choose(op) == pc = "menu" /\ op \in Ops \ Logins /\ Offers(menu, op) /\ Send(op, Nil)

logout ==
  /\ pc = "menu" /\ Offers(menu, "logout")
  /\ access_token' = NoToken
  /\ UNCHANGED <<pc, poll, menu, stubs, call, handler, calls, cluster, clock, faults,
                 history>>

go_back ==
  /\ pc = "menu"
  /\ pc' = IF menu = MainMenu THEN "exited" ELSE "menu"
  /\ menu' = MainMenu
  /\ UNCHANGED <<poll, access_token, stubs, call, handler, calls, cluster, clock, faults,
                 history>>

(* The prompt after the questions, in the faculty menu. *)
answer_query == pc = "choosing" /\ Send("answerQuery", Nil)
answer_none ==
  /\ pc = "choosing" /\ pc' = "menu"
  /\ UNCHANGED <<poll, menu, access_token, stubs, call, handler, calls, cluster, clock,
                 faults, history>>

-----------------------------------------------------------------------------
(* What a server does for a call: the decorator, then the service. *)

Serving(c, s) == Stage(c, s) /\ handler[c].node \in up
Becomes(c, s) == handler' = [handler EXCEPT ![c].stage = s]

(* A handler that ends leaves an answer, unless its caller has given up. *)
Answer(c, s) ==
  [handler[c] EXCEPT !.stage = s, !.user = Nil, !.token = NoToken, !.began = 0]
Ends(c, s) ==
  handler' = [handler EXCEPT ![c] = IF told[c] = "nothing" THEN Answer(c, s) ELSE Idle]
Server == <<client, calls, cluster, clock>>

(* AuthService and login: the token that a login returns. *)
BugMinted(c) == [user |-> handler[c].user, role |-> Op(c), expiry |-> clock + TTL]
Minted(c) == [user |-> handler[c].user, role |-> LoginRole(Op(c)), expiry |-> clock + TTL]

login_right(c) ==
  /\ Serving(c, "sent") /\ Op(c) \in Logins
  /\ RoleOf[handler[c].user] = LoginRole(Op(c))
  /\ handler' = [handler EXCEPT ![c] = [Answer(c, "ok") EXCEPT !.token = Minted(c)]]
  /\ logins' = logins \cup {[user |-> handler[c].user, role |-> LoginRole(Op(c)),
                             at |-> clock]}
  /\ UNCHANGED <<Server, faults, raft_logs, told>>

(* Another password, another role, or no such user. *)
login_wrong(c) ==
  /\ Serving(c, "sent") /\ Op(c) \in Logins
  /\ Ends(c, "refused")
  /\ UNCHANGED <<Server, faults, history>>

(* The role and the expiry of the token are looked at here and nowhere later; the
   timestamps are compared as they are, so that a token is good in its last second. *)
BugAdmitted(c) == handler[c].token.role \in Required(Op(c))
Admitted(c) == handler[c].token.role \in Required(Op(c)) /\ clock <= handler[c].token.expiry

call_admitted(c) ==
  /\ Serving(c, "sent") /\ Op(c) \notin Logins /\ Admitted(c)
  /\ handler' = [handler EXCEPT ![c].stage = "open", ![c].began = clock]
  /\ UNCHANGED <<Server, faults, history>>

call_refused(c) ==
  /\ Serving(c, "sent") /\ Op(c) \notin Logins /\ ~Admitted(c)
  /\ Ends(c, "refused")
  /\ UNCHANGED <<Server, faults, history>>

(* A submission without data is refused; an upload without data is a success, and
   any other one ends in the exception that json.dumps raises for bytes. *)
empty_file(c) ==
  /\ Serving(c, "open") /\ Op(c) = "submitAssignment"
  /\ Ends(c, "refused")
  /\ UNCHANGED <<Server, faults, history>>
courseMaterialUpload(c, s) ==
  /\ Serving(c, "open") /\ Op(c) = "courseMaterialUpload" /\ s \in {"ok", "failed"}
  /\ Ends(c, s)
  /\ UNCHANGED <<Server, faults, history>>

(* leader_append_log returns an index, or None after an exception before or after
   its INSERT. *)
BugNotReplicated(c) == Becomes(c, "logged")
NotReplicated(c) == Ends(c, "failed")

Entry(c) == [call |-> c, op |-> Op(c), user |-> handler[c].token.user,
             began |-> handler[c].began]
leader_append_log(c) ==
  /\ Serving(c, "open") /\ Op(c) \in Writes
  /\ raft_logs' = raft_logs \cup {Entry(c)}
  /\ Becomes(c, "logged")
  /\ UNCHANGED <<Server, faults, logins, told>>
append_log_error(c, inserted) ==
  /\ Serving(c, "open") /\ Op(c) \in Writes /\ faults < MaxFaults
  /\ raft_logs' = IF inserted THEN raft_logs \cup {Entry(c)} ELSE raft_logs
  /\ NotReplicated(c)
  /\ faults' = faults + 1
  /\ UNCHANGED <<Server, logins, told>>

(* The rest of a write, and a call that only reads. *)
Finishing(c) == \/ Serving(c, "logged")
                \/ Serving(c, "open") /\ Op(c) \in Reads
handler_returns(c) ==
  /\ Finishing(c)
  /\ Ends(c, "ok")
  /\ UNCHANGED <<Server, faults, history>>
handler_error(c) ==
  /\ Finishing(c) /\ faults < MaxFaults
  /\ Ends(c, "failed")
  /\ faults' = faults + 1
  /\ UNCHANGED <<Server, history>>

(* A chat is open until its user quits, or until there is no model to ask. *)
chat_over(c, s) ==
  /\ Serving(c, "open") /\ Op(c) = "askLlm" /\ s \in {"ok", "failed"}
  /\ Ends(c, s)
  /\ UNCHANGED <<Server, faults, history>>

-----------------------------------------------------------------------------
(* What the client makes of the answer. *)

Tell(what) == told' = [told EXCEPT ![call] = IF call = 0 THEN "nothing" ELSE what]
Done == handler' = [handler EXCEPT ![call] = Idle]

login_returned ==
  /\ pc = "calling" /\ Stage(call, "ok") /\ Op(call) \in Logins
  /\ access_token' = handler[call].token
  /\ menu' = LoginRole(Op(call)) /\ pc' = "menu"
  /\ Done
  /\ UNCHANGED <<poll, stubs, call, calls, cluster, clock, faults, history>>

(* get_queries does not look at the error of an answer, and json.loads raises on
   the empty text beside it. *)
AfterAnswer ==
  IF Op(call) # "getQueries" \/ Stage(call, "refused") THEN "menu"
  ELSE IF Stage(call, "failed") THEN "crashed"
  ELSE IF menu = "Student" THEN "menu" ELSE "choosing"

call_returned ==
  /\ pc = "calling" /\ handler[call].stage \in {"ok", "failed", "refused"}
  /\ Op(call) \in Logins => ~Stage(call, "ok")
  /\ pc' = AfterAnswer
  /\ Tell(handler[call].stage)
  /\ Done
  /\ UNCHANGED <<poll, menu, access_token, stubs, call, calls, cluster, clock, faults,
                 raft_logs, logins>>

AfterUnavailable == IF Reconnects(Op(call)) THEN "reconnect" ELSE "menu"

(* UNAVAILABLE: the node is down or was meanwhile. *)
node_unavailable ==
  /\ pc = "calling" /\ (Stage(call, "dead") \/ handler[call].node \notin up)
  /\ pc' = AfterUnavailable
  /\ Tell("failed")
  /\ Done
  /\ UNCHANGED <<poll, menu, access_token, stubs, call, calls, cluster, clock, faults,
                 raft_logs, logins>>

(* UNAVAILABLE: the connection is lost, and the handler of a write goes on. *)
connection_lost ==
  /\ pc = "calling" /\ faults < MaxFaults
  /\ pc' = AfterUnavailable
  /\ Tell("failed")
  /\ IF call = 0 THEN Done ELSE UNCHANGED handler
  /\ faults' = faults + 1
  /\ UNCHANGED <<poll, menu, access_token, stubs, call, calls, cluster, clock, raft_logs,
                 logins>>

-----------------------------------------------------------------------------
(* The nodes and the clock. *)

Others == <<client, calls, history>>
node_elected(n) ==
  /\ n \in up \ elected
  /\ elected' = elected \cup {n}
  /\ UNCHANGED <<Others, handler, up, clock, faults>>
node_crashes(n) ==
  /\ n \in up /\ faults < MaxFaults
  /\ up' = up \ {n} /\ elected' = elected \ {n}
  /\ handler' = [c \in Slot |->
       IF handler[c].node # n THEN handler[c]
       ELSE IF told[c] = "nothing" THEN Answer(c, "dead") ELSE Idle]
  /\ faults' = faults + 1
  /\ UNCHANGED <<Others, clock>>
node_starts(n) ==
  /\ n \in Node \ up
  /\ up' = up \cup {n}
  /\ UNCHANGED <<Others, handler, elected, clock, faults>>
tick ==
  /\ clock < MaxTime
  /\ clock' = clock + 1
  /\ UNCHANGED <<Others, handler, cluster, faults>>

-----------------------------------------------------------------------------
Init ==
  /\ pc = "discover" /\ poll = 1 /\ menu = MainMenu
  /\ access_token = NoToken /\ stubs = Nil /\ call = 0
  /\ handler = [c \in Slot |-> Idle] /\ calls = 0
  /\ up = Node /\ elected = {}
  /\ clock = 0 /\ faults = 0
  /\ raft_logs = {} /\ logins = {} /\ told = [c \in Slot |-> "nothing"]

Discover == poll_next \/ connect_to_leader \/ no_leader_found
Ask == \/ \E op \in Logins, u \in User : login(op, u)
       \/ \E op \in Ops : choose(op)
       \/ logout \/ go_back \/ answer_query \/ answer_none
Serve(c) == \/ login_right(c) \/ login_wrong(c) \/ call_admitted(c) \/ call_refused(c)
            \/ \E s \in {"ok", "failed"} : courseMaterialUpload(c, s)
            \/ leader_append_log(c) \/ handler_returns(c)
Fail(c) == \/ empty_file(c) \/ handler_error(c)
           \/ \E inserted \in BOOLEAN : append_log_error(c, inserted)
Chat(c) == \E s \in {"ok", "failed"} : chat_over(c, s)
Hear == login_returned \/ call_returned \/ node_unavailable
Environment == \/ connection_lost \/ tick
               \/ \E n \in Node : node_elected(n) \/ node_crashes(n) \/ node_starts(n)

Next == \/ Discover \/ Ask \/ Hear \/ Environment
        \/ \E c \in Slot : Serve(c) \/ Fail(c) \/ Chat(c)

Spec == Init /\ [][Next]_vars

(* The client's loops and calls go on, and so does a handler that has a worker; no
   person has to type anything, and no node has to start or to be elected. *)
Fairness == WF_vars(Discover) /\ WF_vars(Hear) /\ \A c \in Slot : WF_vars(Serve(c))
FairSpec == Spec /\ Fairness

-----------------------------------------------------------------------------
(* Properties. *)

Token == [user : User, role : Role, expiry : 0..MaxTime + TTL]
Handler == [stage : {"none", "sent", "open", "logged", "ok", "failed", "refused", "dead"},
            node : Node \cup {Nil}, op : Ops \cup {"none"}, user : User \cup {Nil},
            token : Token \cup {NoToken}, began : 0..MaxTime]

(* The session_manager of the client, the handlers and the histories are of the
   types that rpc_client.py and the services give them. *)
TypeOK ==
  /\ pc \in {"discover", "menu", "choosing", "calling", "reconnect", "crashed", "exited"}
  /\ poll \in 1..Len(BOOTSTRAP_NODES) + 1
  /\ menu \in Role \cup {MainMenu} /\ access_token \in Token \cup {NoToken}
  /\ stubs \in Node \cup {Nil} /\ call \in Slot
  /\ handler \in [Slot -> Handler] /\ calls \in Slot
  /\ elected \subseteq up /\ up \subseteq Node
  /\ clock \in 0..MaxTime /\ faults \in 0..MaxFaults
  /\ raft_logs \subseteq [call : Slot, op : Writes, user : User, began : 0..MaxTime]
  /\ logins \subseteq [user : User, role : Role, at : 0..MaxTime]
  /\ told \in [Slot -> {"nothing", "ok", "failed", "refused"}]

(* A sub-menu is open only with a token of its role, whoever logs in, fails to log
   in, logs out and goes back in between, and whatever fails: no call that needs a
   token is made without one. *)
MenuMatchesToken == menu # MainMenu => access_token.role = menu

(* Whatever a server logs, or still does, for a user, it began at most two hours
   after that user logged in with a role the operation requires: over crashes,
   changes of leader and further logins at the same terminal. *)
InSession(user, op, began) ==
  \E l \in logins : l.user = user /\ l.role \in Required(op) /\ began \in l.at..l.at + TTL
WorkIsInSession ==
  /\ \A e \in raft_logs : InSession(e.user, e.op, e.began)
  /\ \A c \in Slot : handler[c].stage \in {"open", "logged"} =>
       InSession(handler[c].token.user, Op(c), handler[c].began)

(* A call that writes is told to have succeeded only when it is in a log, and
   refused only when it is in none and will never be; any other error leaves that
   open, and to repeat such a call may write twice. *)
Logged(c) == \E e \in raft_logs : e.call = c
AnswersAreTrue == \A c \in Slot : /\ told[c] = "ok" => Logged(c)
                                  /\ told[c] = "refused" => ~Logged(c)

(* A call, with the reconnection that may follow, gives the terminal back: whichever
   nodes die, and though no call has a deadline.  A chat lasts as long as its user. *)
ClientReturns ==
  pc \in {"calling", "reconnect"} /\ Op(call) # "askLlm"
    ~> pc \in {"menu", "choosing", "crashed"}

(* main() finds a leader when from some time on there always is one. *)
FindsLeader == <>[](elected # {}) => []<>(pc # "discover")

(* When from some time on there always is an elected node, a user who goes on reading
   is connected to a node that runs, whatever node died under the stubs. *)
Reading == \E op \in Reads : choose(op)
ReachesLeaderAgain ==
  <>[](elected # {}) /\ []<><<Reading>>_vars => <>[](stubs \in up)

=============================================================================
