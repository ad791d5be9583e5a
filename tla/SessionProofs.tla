--------------------------- MODULE SessionProofs ---------------------------
(* Theorems about Session: the types, the menus and the token, what is done within
   a session, and what a client may believe of an answer. *)
EXTENDS Session, SequenceTheorems, TLAPS

USE DEF Slot

-----------------------------------------------------------------------------
(* Records. *)

LEMMA IdleType == Idle \in Handler
BY SessionAssumption DEF Idle, Handler, NoToken

LEMMA AnswerType ==
  ASSUME handler \in [Slot -> Handler], NEW c \in Slot,
         NEW s \in {"ok", "failed", "refused", "dead"}
  PROVE  /\ Answer(c, s) \in Handler /\ Answer(c, s).stage = s
         /\ Answer(c, s).token = NoToken /\ Answer(c, s).op = Op(c)
<1>1. handler[c] \in Handler /\ 0 \in 0..MaxTime
  BY SessionAssumption
<1>2. Answer(c, s) \in Handler
  BY <1>1 DEF Handler, Answer
<1>3. Answer(c, s).op = handler[c].op
  BY <1>1 DEF Handler, Answer
<1>4. Answer(c, s).stage = s /\ Answer(c, s).token = NoToken
  BY <1>1 DEF Handler, Answer
<1> QED
  BY <1>2, <1>3, <1>4 DEF Op

(* The handlers after each kind of step: one of them is new, the others stay. *)
NewAt(c, s) ==
  /\ handler' \in [Slot -> Handler]
  /\ \A d \in Slot : d # c => handler'[d] = handler[d]
  /\ handler'[c].stage = s

LEMMA EndsType ==
  ASSUME handler \in [Slot -> Handler], NEW c \in Slot,
         NEW s \in {"ok", "failed", "refused"}, Ends(c, s)
  PROVE  /\ NewAt(c, s) \/ NewAt(c, "none")
         /\ told[c] = "nothing" => NewAt(c, s)
         /\ handler'[c].token = NoToken /\ handler'[c].op \in {Op(c), "none"}
         /\ handler'[c].stage = s => handler'[c].op = Op(c)
         /\ handler'[c].stage = "none" => handler'[c].node = Nil
<1>1. IF told[c] = "nothing"
      THEN handler' = [handler EXCEPT ![c] = Answer(c, s)]
      ELSE handler' = [handler EXCEPT ![c] = Idle]
  BY DEF Ends
<1>2. /\ Answer(c, s) \in Handler /\ Answer(c, s).stage = s
      /\ Answer(c, s).token = NoToken /\ Answer(c, s).op = Op(c)
  BY AnswerType
<1>3. /\ Idle \in Handler /\ Idle.stage = "none" /\ Idle.token = NoToken
      /\ Idle.op = "none" /\ Idle.node = Nil
  BY IdleType DEF Idle
<1> QED
  BY <1>1, <1>2, <1>3 DEF NewAt

LEMMA DoneType ==
  ASSUME handler \in [Slot -> Handler], call \in Slot, Done
  PROVE  /\ NewAt(call, "none") /\ handler'[call].token = NoToken
         /\ handler'[call].op = "none" /\ handler'[call].node = Nil
<1>1. /\ Idle \in Handler /\ Idle.stage = "none" /\ Idle.token = NoToken
      /\ Idle.op = "none" /\ Idle.node = Nil
  BY IdleType DEF Idle
<1> QED
  BY <1>1 DEF Done, NewAt

LEMMA MintedType ==
  ASSUME clock \in 0..MaxTime, NEW c \in Slot, handler[c].user \in User
  PROVE  Minted(c) \in Token
<1>1. clock + TTL \in 0..MaxTime + TTL
  BY SessionAssumption
<1> QED
  BY <1>1 DEF Minted, Token, Role, LoginRole

LEMMA LoginType ==
  ASSUME TypeOK, NEW c \in Slot, handler[c].user \in User, login_right(c)
  PROVE  /\ NewAt(c, "ok") /\ handler'[c].token = Minted(c) /\ handler'[c].op = Op(c)
         /\ logins' \subseteq [user : User, role : Role, at : 0..MaxTime]
<1>1. /\ Answer(c, "ok") \in Handler /\ Answer(c, "ok").stage = "ok"
      /\ Answer(c, "ok").op = Op(c)
  BY AnswerType DEF TypeOK
<1> DEFINE h == [Answer(c, "ok") EXCEPT !.token = Minted(c)]
<1>2. h \in Handler /\ h.stage = "ok" /\ h.op = Op(c) /\ h.token = Minted(c)
  BY <1>1, MintedType DEF Handler, TypeOK
<1>3. handler' = [handler EXCEPT ![c] = h]
  BY DEF login_right
<1> HIDE DEF h
<1>4. NewAt(c, "ok") /\ handler'[c].token = Minted(c) /\ handler'[c].op = Op(c)
  BY <1>2, <1>3 DEF NewAt, TypeOK
<1>5. LoginRole(Op(c)) \in Role
  BY DEF LoginRole, Role
<1>6. logins' \subseteq [user : User, role : Role, at : 0..MaxTime]
  BY <1>5 DEF login_right, TypeOK
<1> QED
  BY <1>4, <1>6

LEMMA BecomesType ==
  ASSUME handler \in [Slot -> Handler], NEW c \in Slot,
         Becomes(c, "logged")
  PROVE  /\ NewAt(c, "logged") /\ handler'[c].op = Op(c)
         /\ handler'[c].token = handler[c].token /\ handler'[c].began = handler[c].began
<1> DEFINE h == [handler[c] EXCEPT !.stage = "logged"]
<1>1. handler[c] \in Handler
  OBVIOUS
<1>2. h \in Handler
  BY <1>1 DEF Handler
<1>3. h.stage = "logged"
  BY <1>1 DEF Handler
<1>4. h.op = handler[c].op /\ h.token = handler[c].token /\ h.began = handler[c].began
  BY <1>1 DEF Handler
<1>5. handler' = [handler EXCEPT ![c] = h]
  BY DEF Becomes
<1> HIDE DEF h
<1> QED
  BY <1>2, <1>3, <1>4, <1>5 DEF NewAt, Op

LEMMA OpenType ==
  ASSUME TypeOK, NEW c \in Slot, call_admitted(c)
  PROVE  /\ NewAt(c, "open") /\ handler'[c].op = Op(c)
         /\ handler'[c].token = handler[c].token /\ handler'[c].began = clock
<1>1. handler[c] \in Handler /\ clock \in 0..MaxTime
  BY DEF TypeOK
<1> DEFINE h == [handler[c] EXCEPT !.stage = "open", !.began = clock]
<1>2. h \in Handler
  BY <1>1 DEF Handler
<1>3. h.stage = "open"
  BY <1>1 DEF Handler
<1>4. h.op = handler[c].op /\ h.token = handler[c].token /\ h.began = clock
  BY <1>1 DEF Handler
<1>5. handler' = [handler EXCEPT ![c] = h]
  BY DEF call_admitted
<1> HIDE DEF h
<1> QED
  BY <1>2, <1>3, <1>4, <1>5 DEF NewAt, TypeOK, Op

(* What a call begins with. *)
LEMMA SendType ==
  ASSUME TypeOK, NEW op \in Ops, NEW user \in User \cup {Nil}, Send(op, user)
  PROVE  /\ NewAt(call', "sent") /\ calls' \in Slot /\ call' \in Slot
         /\ handler'[call'].op = op /\ handler'[call'].user = user
         /\ handler'[call'].token = IF op \in Logins THEN NoToken ELSE access_token
         /\ IF op \in Writes THEN call' = calls + 1 /\ calls' = calls + 1
                              ELSE call' = 0 /\ calls' = calls
         /\ pc' = "calling"
         /\ UNCHANGED <<poll, menu, access_token, stubs, cluster, clock, faults, history>>
<1> DEFINE c == IF op \in Writes THEN calls + 1 ELSE 0
           t == IF op \in Logins THEN NoToken ELSE access_token
           h == [Idle EXCEPT !.stage = "sent", !.node = stubs, !.op = op, !.user = user,
                             !.token = t]
<1>1. c \in Slot /\ calls' \in Slot
  BY SessionAssumption DEF Send, TypeOK
<1>2. t \in Token \cup {NoToken}
  BY DEF TypeOK
<1>3. handler' = [handler EXCEPT ![c] = h] /\ call' = c
  BY DEF Send
<1> HIDE DEF c, t
<1>4. h \in Handler /\ h.stage = "sent" /\ h.op = op /\ h.user = user /\ h.token = t
  BY <1>2, IdleType DEF Handler, TypeOK
<1> HIDE DEF h
<1>5. /\ NewAt(call', "sent") /\ handler'[call'].op = op /\ handler'[call'].user = user
      /\ handler'[call'].token = t
  BY <1>1, <1>3, <1>4 DEF TypeOK, NewAt
<1> QED
  BY <1>1, <1>3, <1>5 DEF Send, c, t

(* A crash stops the handlers of the node. *)
LEMMA CrashType ==
  ASSUME TypeOK, NEW n \in Node, node_crashes(n)
  PROVE  /\ handler' \in [Slot -> Handler]
         /\ \A d \in Slot : \/ handler'[d] = handler[d]
                             \/ /\ handler'[d].stage \in {"dead", "none"}
                                /\ handler'[d].token = NoToken
                                /\ handler'[d].stage = "dead" =>
                                     handler'[d].op = Op(d) /\ handler[d].node = n
                                /\ handler'[d].stage = "none" =>
                                     handler'[d].op = "none" /\ handler'[d].node = Nil
<1>1. \A d \in Slot : /\ Answer(d, "dead") \in Handler
                      /\ Answer(d, "dead").stage = "dead"
                      /\ Answer(d, "dead").token = NoToken
                      /\ Answer(d, "dead").op = Op(d)
  BY AnswerType DEF TypeOK
<1>2. /\ Idle \in Handler /\ Idle.stage = "none" /\ Idle.token = NoToken
      /\ Idle.op = "none" /\ Idle.node = Nil
  BY IdleType DEF Idle
<1>3. handler' = [d \in Slot |->
        IF handler[d].node # n THEN handler[d]
        ELSE IF told[d] = "nothing" THEN Answer(d, "dead") ELSE Idle]
  BY DEF node_crashes
<1>4. \A d \in Slot : \/ handler'[d] \in {handler[d], Idle}
                      \/ handler'[d] = Answer(d, "dead") /\ handler[d].node = n
  BY <1>3
<1>5. handler' \in [Slot -> Handler]
  BY <1>1, <1>2, <1>3, <1>4 DEF TypeOK
<1>6. ASSUME NEW d \in Slot, handler'[d] = Idle
      PROVE  /\ handler'[d].stage = "none" /\ handler'[d].token = NoToken
             /\ handler'[d].op = "none" /\ handler'[d].node = Nil
  BY <1>2, <1>6
<1>7. ASSUME NEW d \in Slot, handler'[d] = Answer(d, "dead")
      PROVE  /\ handler'[d].stage = "dead" /\ handler'[d].token = NoToken
             /\ handler'[d].op = Op(d)
  BY <1>1, <1>7
<1> QED
  BY <1>4, <1>5, <1>6, <1>7

-----------------------------------------------------------------------------
(* The kinds of steps.  A quiet one leaves calls, servers and histories alone. *)

Quiet ==
  /\ UNCHANGED <<call, handler, calls, history>>
  /\ clock' \in {clock, clock + 1}
  /\ \/ UNCHANGED <<menu, access_token>>
     \/ menu' = MainMenu /\ UNCHANGED access_token
     \/ menu = MainMenu /\ menu' = MainMenu /\ access_token' = NoToken

FaultStep == UNCHANGED faults \/ (faults < MaxFaults /\ faults' = faults + 1)

Ended(c, s) ==
  /\ Ends(c, s)
  /\ s = "refused" => handler[c].stage \in {"sent", "open"}
  /\ s = "ok" => Stage(c, "logged") \/ Op(c) \notin Writes \cup Logins
  /\ handler[c].stage \in {"sent", "open", "logged"}
  /\ FaultStep
  /\ UNCHANGED <<client, calls, cluster, clock, history>>

LEMMA QuietSteps ==
  ASSUME UNCHANGED vars \/ Discover \/ logout \/ go_back \/ answer_none \/ tick
           \/ \E n \in Node : node_elected(n) \/ node_starts(n)
  PROVE  Quiet
<1> USE DEF client, cluster, history, Others, Quiet
<1>1. CASE UNCHANGED vars
  BY <1>1 DEF vars
<1>2. CASE Discover
  BY <1>2 DEF Discover, poll_next, connect_to_leader, no_leader_found
<1>3. CASE logout
  BY <1>3 DEF logout, Offers, MainMenu
<1>4. CASE go_back \/ answer_none \/ tick
  BY <1>4 DEF go_back, answer_none, tick
<1>5. CASE \E n \in Node : node_elected(n) \/ node_starts(n)
  BY <1>5 DEF node_elected, node_starts
<1> QED
  BY <1>1, <1>2, <1>3, <1>4, <1>5

LEMMA EndedSteps ==
  ASSUME NEW c \in Slot,
         \/ login_wrong(c) \/ call_refused(c) \/ empty_file(c)
         \/ \E s \in {"ok", "failed"} : courseMaterialUpload(c, s) \/ chat_over(c, s)
         \/ handler_returns(c) \/ handler_error(c)
  PROVE  \E s \in {"ok", "failed", "refused"} : Ended(c, s)
<1> USE DEF Ended, Server, history, Serving, Stage, FaultStep
<1>1. CASE login_wrong(c) \/ call_refused(c) \/ empty_file(c)
  BY <1>1 DEF login_wrong, call_refused, empty_file
<1>2. CASE \E s \in {"ok", "failed"} : courseMaterialUpload(c, s) \/ chat_over(c, s)
  BY <1>2 DEF courseMaterialUpload, chat_over, Writes, Logins
<1>3. CASE handler_returns(c)
  BY <1>3 DEF handler_returns, Finishing, Reads, Writes, Logins
<1>4. CASE handler_error(c)
  BY <1>4 DEF handler_error, Finishing
<1> QED
  BY <1>1, <1>2, <1>3, <1>4

LEMMA Kinds ==
  ASSUME [Next]_vars
  PROVE  \/ Quiet
         \/ \E op \in Logins, u \in User : Send(op, u)
         \/ \E op \in Ops \ Logins : Send(op, Nil)
         \/ \E c \in Slot : \/ login_right(c) \/ call_admitted(c) \/ leader_append_log(c)
                            \/ \E s \in {"ok", "failed", "refused"} : Ended(c, s)
                            \/ \E inserted \in BOOLEAN : append_log_error(c, inserted)
         \/ Hear \/ connection_lost
         \/ \E n \in Node : node_crashes(n)
<1>1. CASE UNCHANGED vars \/ Discover
  BY <1>1, QuietSteps
<1>2. CASE Ask
  BY <1>2, QuietSteps DEF Ask, login, choose, answer_query, Ops, Writes, Logins
<1>3. CASE Environment
  BY <1>3, QuietSteps DEF Environment
<1>4. ASSUME NEW c \in Slot, Serve(c) \/ Fail(c) \/ Chat(c)
      PROVE  \/ login_right(c) \/ call_admitted(c) \/ leader_append_log(c)
             \/ \E s \in {"ok", "failed", "refused"} : Ended(c, s)
             \/ \E inserted \in BOOLEAN : append_log_error(c, inserted)
  BY <1>4, EndedSteps DEF Serve, Fail, Chat
<1> QED
  BY <1>1, <1>2, <1>3, <1>4 DEF Next

-----------------------------------------------------------------------------
(* Types.  A login that has been sent names a user, and so does an admitted token:
   what is logged with it is of its type. *)

CallerNamed ==
  \A c \in Slot : Stage(c, "sent") /\ Op(c) \in Logins => handler[c].user \in User
TokenHeld ==
  \A c \in Slot : handler[c].stage \in {"open", "logged"} => handler[c].token \in Token
Typed == TypeOK /\ CallerNamed /\ TokenHeld

LEMMA TypeInit == Init => Typed
BY IdleType, SessionAssumption
   DEF Init, Typed, TypeOK, CallerNamed, TokenHeld, Stage, Op, Idle, cluster, Handler

LEMMA NewKeepsHolders ==
  ASSUME Typed, NEW c \in Slot,
         NEW s \in {"none", "open", "logged", "ok", "failed", "refused"}, NewAt(c, s),
         s \in {"open", "logged"} => handler'[c].token \in Token
  PROVE  CallerNamed' /\ TokenHeld'
BY DEF Typed, CallerNamed, TokenHeld, NewAt, Stage, Op

LEMMA SendKeepsTypes ==
  ASSUME Typed, NEW op \in Ops, NEW user \in User \cup {Nil}, Send(op, user),
         op \in Logins => user \in User
  PROVE  Typed'
<1>1. /\ NewAt(call', "sent") /\ calls' \in Slot /\ call' \in Slot
      /\ handler'[call'].op = op /\ handler'[call'].user = user
      /\ pc' = "calling"
      /\ UNCHANGED <<poll, menu, access_token, stubs, cluster, clock, faults, history>>
  BY SendType DEF Typed
<1>2. TypeOK'
  BY <1>1 DEF Typed, TypeOK, NewAt, cluster, history
<1>3. CallerNamed'
  BY <1>1 DEF Typed, CallerNamed, NewAt, Stage, Op
<1>4. TokenHeld'
  BY <1>1 DEF Typed, TokenHeld, NewAt
<1> QED
  BY <1>2, <1>3, <1>4 DEF Typed

LEMMA DiscoverKeepsTypes ==
  ASSUME Typed, Discover PROVE Typed'
<1> USE SessionAssumption
        DEF cluster, history, Typed, TypeOK, CallerNamed, TokenHeld, Stage, Op
<1>1. CASE poll_next
  BY <1>1 DEF poll_next
<1>2. CASE connect_to_leader
  BY <1>2 DEF connect_to_leader, Polled
<1>3. CASE no_leader_found
  BY <1>3 DEF no_leader_found, AfterNone, First
<1> QED
  BY <1>1, <1>2, <1>3 DEF Discover

LEMMA AskKeepsTypes ==
  ASSUME Typed, Ask PROVE Typed'
<1> USE DEF cluster, history
<1>1. ASSUME NEW op \in Logins, NEW u \in User, login(op, u) PROVE Typed'
  BY <1>1, SendKeepsTypes DEF login, Ops
<1>2. ASSUME NEW op \in Ops, choose(op) PROVE Typed'
  BY <1>2, SendKeepsTypes DEF choose
<1>3. CASE answer_query
  BY <1>3, SendKeepsTypes DEF answer_query, Ops, Writes, Logins
<1>4. CASE logout \/ go_back \/ answer_none
  BY <1>4 DEF logout, go_back, answer_none, Typed, TypeOK, CallerNamed, TokenHeld,
              Stage, Op
<1> QED
  BY <1>1, <1>2, <1>3, <1>4 DEF Ask

(* What a step of a server keeps of the types, if what it logs is of its own. *)
LEMMA ServerKeepsTypes ==
  ASSUME Typed, NEW c \in Slot,
         NEW s \in {"none", "open", "logged", "ok", "failed", "refused"}, NewAt(c, s),
         s \in {"open", "logged"} => handler'[c].token \in Token,
         UNCHANGED <<client, calls, cluster, clock, told>>, faults' \in 0..MaxFaults,
         raft_logs' \subseteq [call : Slot, op : Writes, user : User, began : 0..MaxTime],
         logins' \subseteq [user : User, role : Role, at : 0..MaxTime]
  PROVE  Typed'
<1>1. CallerNamed' /\ TokenHeld'
  BY NewKeepsHolders
<1>2. TypeOK'
  BY DEF Typed, TypeOK, NewAt, client, cluster
<1> QED
  BY <1>1, <1>2 DEF Typed

LEMMA EntryType ==
  ASSUME TypeOK, NEW c \in Slot, handler[c].token \in Token, Op(c) \in Writes
  PROVE  Entry(c) \in [call : Slot, op : Writes, user : User, began : 0..MaxTime]
<1>1. handler[c] \in Handler
  BY DEF TypeOK
<1> QED
  BY <1>1 DEF Entry, Handler, Token

LEMMA AdmittedHeld ==
  ASSUME TypeOK, NEW c \in Slot, Admitted(c)
  PROVE  handler[c].token \in Token
<1>1. handler[c] \in Handler
  BY DEF TypeOK
<1>2. handler[c].token \in Token \cup {NoToken}
  BY <1>1 DEF Handler
<1>3. NoToken.role \notin Role
  BY DEF NoToken, Role
<1>4. handler[c].token.role \in Role
  BY DEF Admitted, Required, Role
<1> QED
  BY <1>2, <1>3, <1>4

LEMMA FaultType ==
  ASSUME TypeOK, FaultStep
  PROVE  faults' \in 0..MaxFaults
BY SessionAssumption DEF TypeOK, FaultStep

LEMMA EndedKeepsTypes ==
  ASSUME Typed, NEW c \in Slot, NEW s \in {"ok", "failed", "refused"}, Ended(c, s)
  PROVE  Typed'
<1>1. NewAt(c, s) \/ NewAt(c, "none")
  BY EndsType DEF Ended, Typed, TypeOK
<1>2. faults' \in 0..MaxFaults
  BY FaultType DEF Ended, Typed
<1>3. UNCHANGED <<client, calls, cluster, clock, told, raft_logs, logins>>
  BY DEF Ended, history
<1>4. /\ raft_logs' \subseteq [call : Slot, op : Writes, user : User, began : 0..MaxTime]
      /\ logins' \subseteq [user : User, role : Role, at : 0..MaxTime]
  BY <1>3 DEF Typed, TypeOK
<1> QED
  BY <1>1, <1>2, <1>3, <1>4, ServerKeepsTypes

LEMMA LogKeepsTypes ==
  ASSUME Typed, NEW c \in Slot,
         leader_append_log(c) \/ \E inserted \in BOOLEAN : append_log_error(c, inserted)
  PROVE  Typed'
<1>1. handler[c].token \in Token /\ Op(c) \in Writes
  BY DEF leader_append_log, append_log_error, Serving, Stage, Typed, TokenHeld
<1>2. raft_logs' \subseteq [call : Slot, op : Writes, user : User, began : 0..MaxTime]
  BY <1>1, EntryType DEF leader_append_log, append_log_error, Typed, TypeOK
<1>3. /\ UNCHANGED <<client, calls, cluster, clock, told, logins>>
      /\ FaultStep
  BY DEF leader_append_log, append_log_error, Server, FaultStep
<1>4. logins' \subseteq [user : User, role : Role, at : 0..MaxTime]
  BY <1>3 DEF Typed, TypeOK
<1>5. faults' \in 0..MaxFaults
  BY <1>3, FaultType DEF Typed
<1>6. handler \in [Slot -> Handler]
  BY DEF Typed, TypeOK
<1>7. CASE leader_append_log(c)
  <2>1. NewAt(c, "logged") /\ handler'[c].token \in Token
    BY <1>1, <1>6, <1>7, BecomesType DEF leader_append_log
  <2> QED
    BY <2>1, <1>2, <1>3, <1>4, <1>5, ServerKeepsTypes
<1>8. CASE \E inserted \in BOOLEAN : append_log_error(c, inserted)
  <2>1. NewAt(c, "failed") \/ NewAt(c, "none")
    BY <1>6, <1>8, EndsType DEF append_log_error, NotReplicated
  <2> QED
    BY <2>1, <1>2, <1>3, <1>4, <1>5, ServerKeepsTypes
<1> QED
  BY <1>7, <1>8

LEMMA ServeKeepsTypes ==
  ASSUME Typed, NEW c \in Slot, Serve(c) \/ Fail(c) \/ Chat(c)
  PROVE  Typed'
<1>1. CASE login_right(c)
  <2>1. handler[c].user \in User
    BY <1>1 DEF login_right, Serving, Typed, CallerNamed
  <2>2. /\ NewAt(c, "ok")
        /\ logins' \subseteq [user : User, role : Role, at : 0..MaxTime]
    BY <1>1, <2>1, LoginType DEF Typed
  <2>3. UNCHANGED <<client, calls, cluster, clock, told, raft_logs, faults>>
    BY <1>1 DEF login_right, Server
  <2>4. /\ faults' \in 0..MaxFaults
        /\ raft_logs' \subseteq [call : Slot, op : Writes, user : User, began : 0..MaxTime]
    BY <2>3 DEF Typed, TypeOK
  <2> QED
    BY <2>2, <2>3, <2>4, ServerKeepsTypes
<1>2. CASE call_admitted(c)
  <2>1. NewAt(c, "open") /\ handler'[c].token \in Token
    BY <1>2, OpenType, AdmittedHeld DEF call_admitted, Typed
  <2>2. UNCHANGED <<client, calls, cluster, clock, told, raft_logs, logins, faults>>
    BY <1>2 DEF call_admitted, Server, history
  <2>3. /\ faults' \in 0..MaxFaults
        /\ raft_logs' \subseteq [call : Slot, op : Writes, user : User, began : 0..MaxTime]
        /\ logins' \subseteq [user : User, role : Role, at : 0..MaxTime]
    BY <2>2 DEF Typed, TypeOK
  <2> QED
    BY <2>1, <2>2, <2>3, ServerKeepsTypes
<1>3. CASE leader_append_log(c) \/ \E inserted \in BOOLEAN : append_log_error(c, inserted)
  BY <1>3, LogKeepsTypes
<1>4. CASE \E s \in {"ok", "failed", "refused"} : Ended(c, s)
  BY <1>4, EndedKeepsTypes
<1> QED
  BY <1>1, <1>2, <1>3, <1>4, EndedSteps DEF Serve, Fail, Chat

LEMMA HearKeepsTypes ==
  ASSUME Typed, Hear \/ connection_lost
  PROVE  Typed'
<1>1. call \in Slot /\ handler \in [Slot -> Handler] /\ handler[call] \in Handler
  BY DEF Typed, TypeOK
<1>2. \/ Done /\ UNCHANGED faults
      \/ Done /\ FaultStep
      \/ UNCHANGED handler /\ FaultStep
  BY DEF Hear, login_returned, call_returned, node_unavailable, connection_lost,
         FaultStep
<1>3. NewAt(call, "none") \/ UNCHANGED handler
  BY <1>1, <1>2, DoneType
<1>4. CallerNamed' /\ TokenHeld'
  <2>1. CASE NewAt(call, "none")
    BY <1>1, <2>1, NewKeepsHolders
  <2>2. CASE UNCHANGED handler
    BY <2>2 DEF Typed, CallerNamed, TokenHeld, Stage, Op
  <2> QED
    BY <1>3, <2>1, <2>2
<1>5. faults' \in 0..MaxFaults
  BY <1>2, FaultType DEF Typed, FaultStep
<1>6. handler' \in [Slot -> Handler]
  BY <1>1, <1>3 DEF NewAt
<1>7. handler[call].token \in Token \cup {NoToken}
  BY <1>1 DEF Handler
<1>8. UNCHANGED <<poll, stubs, call, calls, cluster, clock, raft_logs, logins>>
  BY DEF Hear, login_returned, call_returned, node_unavailable, connection_lost, history
<1>9. /\ pc' \in {"menu", "choosing", "calling", "reconnect", "crashed"}
      /\ menu' \in Role \cup {MainMenu} /\ access_token' \in Token \cup {NoToken}
      /\ told' \in [Slot -> {"nothing", "ok", "failed", "refused"}]
  <2>1. CASE login_returned
    BY <2>1, <1>7 DEF login_returned, Typed, TypeOK, LoginRole, Role, history
  <2>2. CASE call_returned
    BY <2>2, <1>1 DEF call_returned, Tell, AfterAnswer, Typed, TypeOK
  <2>3. CASE node_unavailable \/ connection_lost
    BY <2>3, <1>1 DEF node_unavailable, connection_lost, Tell, AfterUnavailable, Typed,
                      TypeOK
  <2> QED
    BY <2>1, <2>2, <2>3 DEF Hear
<1>10. TypeOK'
  BY <1>5, <1>6, <1>8, <1>9 DEF Typed, TypeOK, cluster
<1> QED
  BY <1>4, <1>10 DEF Typed

LEMMA CrashKeepsTypes ==
  ASSUME Typed, NEW n \in Node, node_crashes(n)
  PROVE  Typed'
<1>1. /\ handler' \in [Slot -> Handler]
      /\ \A d \in Slot : \/ handler'[d] = handler[d]
                         \/ handler'[d].stage \in {"dead", "none"}
  BY CrashType DEF Typed
<1>2. CallerNamed' /\ TokenHeld'
  BY <1>1 DEF Typed, CallerNamed, TokenHeld, Stage, Op
<1>3. faults' \in 0..MaxFaults
  BY FaultType DEF node_crashes, Typed, FaultStep
<1>4. TypeOK'
  BY <1>1, <1>3 DEF node_crashes, Others, client, history, Typed, TypeOK
<1> QED
  BY <1>2, <1>4 DEF Typed

LEMMA TypedKept == Typed /\ [Next]_vars => Typed'
<1> SUFFICES ASSUME Typed, [Next]_vars PROVE Typed'
  OBVIOUS
<1>1. CASE UNCHANGED vars
  BY <1>1 DEF vars, client, cluster, history, Typed, TypeOK, CallerNamed, TokenHeld,
              Stage, Op
<1>2. CASE Discover \/ Ask \/ Hear \/ connection_lost
  BY <1>2, DiscoverKeepsTypes, AskKeepsTypes, HearKeepsTypes
<1>3. CASE tick \/ \E n \in Node : node_elected(n) \/ node_starts(n)
  BY <1>3, SessionAssumption
     DEF tick, node_elected, node_starts, Others, client, cluster, history, Typed,
         TypeOK, CallerNamed, TokenHeld, Stage, Op
<1>4. CASE \E n \in Node : node_crashes(n)
  BY <1>4, CrashKeepsTypes
<1>5. CASE \E c \in Slot : Serve(c) \/ Fail(c) \/ Chat(c)
  BY <1>5, ServeKeepsTypes
<1> QED
  BY <1>1, <1>2, <1>3, <1>4, <1>5 DEF Next, Environment

(* Every reachable state is well typed, and a call being served holds a token of a
   user: session_manager, the handlers and the histories of rpc_client.py and the
   services. *)
THEOREM TypeCorrect == Spec => []TypeOK
<1>1. Spec => []Typed
  BY TypeInit, TypedKept, PTL DEF Spec
<1> QED
  BY <1>1, PTL DEF Typed

-----------------------------------------------------------------------------
(* The menu and the token.  Two things must hold before a login has returned: what it
   returns has the role that was asked for, and no other call passes for a login. *)

GrantedRole ==
  \A c \in Slot : Op(c) \in Logins =>
    /\ Stage(c, "ok") => handler[c].token.role = LoginRole(Op(c))
    /\ handler[c].stage \notin {"open", "logged"}
MenuInv == Typed /\ GrantedRole /\ MenuMatchesToken

LEMMA GrantedRoleKept ==
  ASSUME MenuInv, [Next]_vars
  PROVE  GrantedRole'
<1> USE DEF Stage, Op
<1>1. TypeOK /\ GrantedRole /\ handler \in [Slot -> Handler]
  BY DEF MenuInv, Typed, TypeOK
<1>2. CASE Quiet
  BY <1>1, <1>2 DEF Quiet, GrantedRole
<1>3. CASE \E op \in Ops, user \in User \cup {Nil} : Send(op, user)
  <2>1. NewAt(call', "sent")
    BY <1>1, <1>3, SendType
  <2> QED
    BY <2>1, <1>1 DEF NewAt, GrantedRole
<1>4. ASSUME NEW c \in Slot, login_right(c)
      PROVE  GrantedRole'
  <2>1. handler[c].user \in User
    BY <1>4 DEF login_right, Serving, MenuInv, Typed, CallerNamed
  <2>2. NewAt(c, "ok") /\ handler'[c].token = Minted(c) /\ handler'[c].op = Op(c)
    BY <1>1, <1>4, <2>1, LoginType
  <2>3. Minted(c).role = LoginRole(Op(c))
    BY DEF Minted
  <2> QED
    BY <1>1, <2>2, <2>3 DEF NewAt, GrantedRole
<1>5. ASSUME NEW c \in Slot, call_admitted(c)
      PROVE  GrantedRole'
  <2>1. NewAt(c, "open") /\ handler'[c].op = Op(c) /\ Op(c) \notin Logins
    BY <1>1, <1>5, OpenType DEF call_admitted
  <2> QED
    BY <1>1, <2>1 DEF NewAt, GrantedRole
<1>6. ASSUME NEW c \in Slot, leader_append_log(c)
      PROVE  GrantedRole'
  <2>1. NewAt(c, "logged") /\ handler'[c].op = Op(c) /\ Op(c) \notin Logins
    BY <1>1, <1>6, BecomesType DEF leader_append_log, Writes, Logins
  <2> QED
    BY <1>1, <2>1 DEF NewAt, GrantedRole
<1>7. ASSUME NEW c \in Slot, NEW s \in {"ok", "failed", "refused"}, Ended(c, s)
      PROVE  GrantedRole'
  <2>1. /\ NewAt(c, s) \/ NewAt(c, "none")
        /\ handler'[c].stage = s => handler'[c].op = Op(c)
    BY <1>1, <1>7, EndsType DEF Ended
  <2>2. s = "ok" => Op(c) \notin Logins
    BY <1>1, <1>7 DEF Ended, GrantedRole
  <2> QED
    BY <1>1, <2>1, <2>2 DEF NewAt, GrantedRole
<1>8. ASSUME NEW c \in Slot, NEW inserted \in BOOLEAN, append_log_error(c, inserted)
      PROVE  GrantedRole'
  <2>1. NewAt(c, "failed") \/ NewAt(c, "none")
    BY <1>1, <1>8, EndsType DEF append_log_error, NotReplicated
  <2> QED
    BY <1>1, <2>1 DEF NewAt, GrantedRole
<1>9. CASE Hear \/ connection_lost
  <2>1. Done \/ UNCHANGED handler
    BY <1>9 DEF Hear, login_returned, call_returned, node_unavailable, connection_lost
  <2>2. NewAt(call, "none") \/ UNCHANGED handler
    BY <1>1, <2>1, DoneType DEF TypeOK
  <2> QED
    BY <1>1, <2>2 DEF NewAt, GrantedRole
<1>10. CASE \E n \in Node : node_crashes(n)
  BY <1>1, <1>10, CrashType DEF GrantedRole
<1> QED
  BY <1>2, <1>3, <1>4, <1>5, <1>6, <1>7, <1>8, <1>9, <1>10, Kinds DEF Logins, Ops

LEMMA MenuKept ==
  ASSUME MenuInv, [Next]_vars
  PROVE  MenuMatchesToken'
<1> USE DEF MenuInv, MenuMatchesToken
<1>1. CASE Quiet
  BY <1>1 DEF Quiet
<1>2. CASE \E op \in Ops, user \in User \cup {Nil} : Send(op, user)
  BY <1>2 DEF Send
<1>3. CASE \E c \in Slot : \/ login_right(c) \/ call_admitted(c) \/ leader_append_log(c)
                           \/ \E s \in {"ok", "failed", "refused"} : Ended(c, s)
                           \/ \E inserted \in BOOLEAN : append_log_error(c, inserted)
  <2>1. UNCHANGED <<menu, access_token>>
    BY <1>3 DEF login_right, call_admitted, leader_append_log, Ended, append_log_error,
                Server, client
  <2> QED
    BY <2>1
<1>4. CASE login_returned
  BY <1>4 DEF login_returned, GrantedRole, Typed, TypeOK
<1>5. CASE call_returned \/ node_unavailable \/ connection_lost
  BY <1>5 DEF call_returned, node_unavailable, connection_lost
<1>6. CASE \E n \in Node : node_crashes(n)
  BY <1>6 DEF node_crashes, Others, client
<1> QED
  BY <1>1, <1>2, <1>3, <1>4, <1>5, <1>6, Kinds DEF Hear, Logins, Ops

(* At the terminal a sub-menu is open only with a token of its role, whatever failed
   before (client/menu_renderer.py, client/ui_actions.py). *)
THEOREM MenusMatch == Spec => []MenuMatchesToken
<1>1. Init => MenuInv
  BY TypeInit DEF Init, MenuInv, GrantedRole, MenuMatchesToken, Stage, Op, Idle, Logins
<1>2. MenuInv /\ [Next]_vars => MenuInv'
  BY TypedKept, GrantedRoleKept, MenuKept DEF MenuInv
<1>3. Spec => []MenuInv
  BY <1>1, <1>2, PTL DEF Spec
<1> QED
  BY <1>3, PTL DEF MenuInv

-----------------------------------------------------------------------------
(* Work and sessions.  Each token at hand, at the terminal or in a call, comes from a
   login of the past that was right. *)

FromLogin(t, l) == l.user = t.user /\ l.role = t.role /\ l.at <= clock
                     /\ t.expiry = l.at + TTL
Backed(t) == t.role = "none" \/ \E l \in logins : FromLogin(t, l)
TokensBacked == Backed(access_token) /\ \A c \in Slot : Backed(handler[c].token)
HandlersInSession ==
  \A c \in Slot : handler[c].stage \in {"open", "logged"} =>
    InSession(handler[c].token.user, Op(c), handler[c].began)
EntriesInSession == \A e \in raft_logs : InSession(e.user, e.op, e.began)
WorkInv == Typed /\ TokensBacked /\ HandlersInSession /\ EntriesInSession

LEMMA LoginsGrow ==
  ASSUME Typed, [Next]_vars
  PROVE  logins \subseteq logins' /\ clock' \in {clock, clock + 1}
<1> USE DEF client, cluster, history
<1>1. CASE Quiet
  BY <1>1 DEF Quiet
<1>2. CASE \E op \in Ops, user \in User \cup {Nil} : Send(op, user)
  BY <1>2 DEF Send
<1>3. CASE \E c \in Slot : \/ login_right(c) \/ call_admitted(c) \/ leader_append_log(c)
                           \/ \E s \in {"ok", "failed", "refused"} : Ended(c, s)
                           \/ \E inserted \in BOOLEAN : append_log_error(c, inserted)
  BY <1>3 DEF login_right, call_admitted, leader_append_log, Ended, append_log_error,
              Server
<1>4. CASE Hear \/ connection_lost
  BY <1>4 DEF Hear, login_returned, call_returned, node_unavailable, connection_lost
<1>5. CASE \E n \in Node : node_crashes(n)
  BY <1>5 DEF node_crashes, Others
<1> QED
  BY <1>1, <1>2, <1>3, <1>4, <1>5, Kinds DEF Logins, Ops

(* What a login backs stays backed, and what was in a session stays in it. *)
LEMMA BackedStays ==
  ASSUME Typed, [Next]_vars, NEW t, Backed(t)
  PROVE  t.role = "none" \/ \E l \in logins' : l.user = t.user /\ l.role = t.role
                              /\ l.at <= clock' /\ t.expiry = l.at + TTL
<1>1. CASE t.role = "none"
  BY <1>1
<1>2. ASSUME NEW l \in logins, FromLogin(t, l)
      PROVE  l \in logins' /\ l.at <= clock'
  <2>1. l \in logins' /\ clock' \in {clock, clock + 1}
    BY LoginsGrow
  <2>2. l.at \in Nat /\ clock \in Nat
    BY DEF Typed, TypeOK
  <2> QED
    BY <2>1, <2>2, <1>2 DEF FromLogin
<1> QED
  BY <1>1, <1>2 DEF Backed, FromLogin

LEMMA SessionStays ==
  ASSUME Typed, [Next]_vars, NEW user, NEW op, NEW began, InSession(user, op, began)
  PROVE  \E l \in logins' : l.user = user /\ l.role \in Required(op)
                              /\ began \in l.at..l.at + TTL
BY LoginsGrow DEF InSession

LEMMA TokensKept ==
  ASSUME WorkInv, [Next]_vars
  PROVE  TokensBacked'
<1>1. Typed /\ TypeOK /\ TokensBacked /\ handler \in [Slot -> Handler]
  BY DEF WorkInv, Typed, TypeOK
<1>2. Backed(NoToken)
  BY DEF Backed, NoToken
<1>3. ASSUME NEW t, Backed(t), NEW u, u = t
      PROVE  u.role = "none" \/ \E l \in logins' : l.user = u.user /\ l.role = u.role
                                  /\ l.at <= clock' /\ u.expiry = l.at + TTL
  BY <1>1, <1>3, BackedStays
<1>4. /\ access_token' \in {access_token, NoToken}
      /\ \A c \in Slot : handler'[c].token \in {handler[c].token, NoToken, access_token}
      => TokensBacked'
  BY <1>1, <1>2, <1>3 DEF TokensBacked, Backed, FromLogin
<1>5. CASE Quiet
  BY <1>4, <1>5 DEF Quiet
<1>6. CASE \E op \in Ops, user \in User \cup {Nil} : Send(op, user)
  <2>1. PICK op \in Ops, user \in User \cup {Nil} : Send(op, user)
    BY <1>6
  <2>2. /\ NewAt(call', "sent") /\ UNCHANGED access_token
        /\ handler'[call'].token \in {NoToken, access_token}
    BY <1>1, <2>1, SendType
  <2> QED
    BY <2>2, <1>4 DEF NewAt
<1>7. ASSUME NEW c \in Slot, login_right(c)
      PROVE  TokensBacked'
  <2>1. handler[c].user \in User
    BY <1>7 DEF login_right, Serving, WorkInv, Typed, CallerNamed
  <2>2. NewAt(c, "ok") /\ handler'[c].token = Minted(c)
    BY <1>1, <1>7, <2>1, LoginType
  <2>3. UNCHANGED <<access_token, clock>>
    BY <1>7 DEF login_right, Server, client
  <2> DEFINE l == [user |-> handler[c].user, role |-> LoginRole(Op(c)), at |-> clock]
  <2>4. l \in logins' /\ clock \in Nat
    BY <1>7, <1>1 DEF login_right, TypeOK
  <2>5. /\ l.user = Minted(c).user /\ l.role = Minted(c).role /\ l.at <= clock
        /\ Minted(c).expiry = l.at + TTL
    BY <2>4 DEF Minted
  <2> HIDE DEF l
  <2>6. Backed(handler[c].token)'
    BY <2>2, <2>3, <2>4, <2>5 DEF Backed, FromLogin
  <2>7. \A d \in Slot : d # c => Backed(handler[d].token)'
    BY <2>2, <1>1, <1>3 DEF NewAt, Backed, FromLogin, TokensBacked
  <2>8. Backed(access_token)'
    BY <2>3, <1>1, <1>3 DEF Backed, FromLogin, TokensBacked
  <2> QED
    BY <2>6, <2>7, <2>8 DEF TokensBacked
<1>8. ASSUME NEW c \in Slot, call_admitted(c) \/ leader_append_log(c)
      PROVE  TokensBacked'
  <2>1. NewAt(c, "open") \/ NewAt(c, "logged")
    BY <1>1, <1>8, OpenType, BecomesType DEF leader_append_log
  <2>2. handler'[c].token = handler[c].token
    BY <1>1, <1>8, OpenType, BecomesType DEF leader_append_log
  <2>3. UNCHANGED access_token
    BY <1>8 DEF call_admitted, leader_append_log, Server, client
  <2> QED
    BY <2>1, <2>2, <2>3, <1>4 DEF NewAt
<1>9. ASSUME NEW c \in Slot, NEW s \in {"ok", "failed", "refused"}, Ends(c, s),
             UNCHANGED access_token
      PROVE  TokensBacked'
  BY <1>1, <1>4, <1>9, EndsType DEF NewAt
<1>10. ASSUME NEW c \in Slot, NEW s \in {"ok", "failed", "refused"}, Ended(c, s)
       PROVE  TokensBacked'
  BY <1>9, <1>10 DEF Ended, client
<1>11. ASSUME NEW c \in Slot, NEW inserted \in BOOLEAN, append_log_error(c, inserted)
       PROVE  TokensBacked'
  BY <1>9, <1>11 DEF append_log_error, NotReplicated, Server, client
<1>12. CASE Hear \/ connection_lost
  <2>1. Done \/ UNCHANGED handler
    BY <1>12 DEF Hear, login_returned, call_returned, node_unavailable, connection_lost
  <2>2. \A c \in Slot : handler'[c].token \in {handler[c].token, NoToken}
    BY <1>1, <2>1, DoneType DEF TypeOK, NewAt
  <2>3. access_token' \in {access_token, handler[call].token} /\ call \in Slot
    BY <1>12, <1>1
       DEF Hear, login_returned, call_returned, node_unavailable, connection_lost, TypeOK
  <2>4. Backed(access_token)'
    BY <2>3, <1>1, <1>3 DEF Backed, FromLogin, TokensBacked
  <2>5. \A c \in Slot : Backed(handler[c].token)'
    BY <2>2, <1>1, <1>2, <1>3 DEF Backed, FromLogin, TokensBacked
  <2> QED
    BY <2>4, <2>5 DEF TokensBacked
<1>13. CASE \E n \in Node : node_crashes(n)
  <2>1. UNCHANGED access_token
    BY <1>13 DEF node_crashes, Others, client
  <2> QED
    BY <1>1, <1>4, <1>13, <2>1, CrashType
<1> QED
  BY <1>5, <1>6, <1>7, <1>8, <1>10, <1>11, <1>12, <1>13, Kinds DEF Logins, Ops

(* The decorator admits a call within the two hours of the login behind its token. *)
LEMMA AdmittedInSession ==
  ASSUME WorkInv, NEW c \in Slot, Admitted(c)
  PROVE  InSession(handler[c].token.user, Op(c), clock)
<1>1. /\ handler[c].token.role \in Required(Op(c)) /\ clock <= handler[c].token.expiry
      /\ clock \in Nat
  BY DEF Admitted, WorkInv, Typed, TypeOK
<1>2. handler[c].token.role # "none"
  BY <1>1 DEF Required, Role
<1>3. PICK l \in logins : FromLogin(handler[c].token, l)
  BY <1>2 DEF WorkInv, TokensBacked, Backed
<1>4. l.at \in Nat
  BY DEF WorkInv, Typed, TypeOK
<1>5. clock \in l.at..l.at + TTL
  BY <1>1, <1>3, <1>4, SessionAssumption DEF FromLogin
<1> QED
  BY <1>1, <1>3, <1>5 DEF FromLogin, InSession

LEMMA HandlersKept ==
  ASSUME WorkInv, [Next]_vars
  PROVE  HandlersInSession'
<1>1. Typed /\ TypeOK /\ HandlersInSession /\ handler \in [Slot -> Handler]
  BY DEF WorkInv, Typed, TypeOK
<1> DEFINE Kept(c) ==
      /\ handler'[c].token = handler[c].token /\ handler'[c].op = handler[c].op
      /\ handler'[c].began = handler[c].began
      /\ handler[c].stage \in {"open", "logged"}
    Works(c) == handler'[c].stage \in {"open", "logged"}
<1>2. ASSUME NEW c \in Slot, Works(c), handler'[c] = handler[c] \/ Kept(c)
      PROVE  InSession(handler[c].token.user, Op(c), handler[c].began)'
  <2>1. InSession(handler[c].token.user, handler[c].op, handler[c].began)
    BY <1>1, <1>2 DEF HandlersInSession, Op
  <2>2. \E l \in logins' :
          /\ l.user = handler[c].token.user /\ l.role \in Required(handler[c].op)
          /\ handler[c].began \in l.at..l.at + TTL
    BY <1>1, <2>1, SessionStays
  <2> QED
    BY <1>2, <2>2 DEF InSession, Op
<1>3. (\A c \in Slot : Works(c) => handler'[c] = handler[c] \/ Kept(c))
        => HandlersInSession'
  BY <1>2 DEF HandlersInSession
<1>4. CASE Quiet
  BY <1>3, <1>4 DEF Quiet
<1>5. CASE \E op \in Ops, user \in User \cup {Nil} : Send(op, user)
  BY <1>1, <1>3, <1>5, SendType DEF NewAt
<1>6. ASSUME NEW c \in Slot, login_right(c)
      PROVE  HandlersInSession'
  <2>1. handler[c].user \in User
    BY <1>6 DEF login_right, Serving, WorkInv, Typed, CallerNamed
  <2> QED
    BY <1>1, <1>3, <1>6, <2>1, LoginType DEF NewAt
<1>7. ASSUME NEW c \in Slot, call_admitted(c)
      PROVE  HandlersInSession'
  <2>1. /\ NewAt(c, "open") /\ handler'[c].op = Op(c)
        /\ handler'[c].token = handler[c].token /\ handler'[c].began = clock
    BY <1>1, <1>7, OpenType
  <2>2. InSession(handler[c].token.user, handler[c].op, clock)
    BY <1>7, AdmittedInSession DEF call_admitted, Op
  <2>3. \E l \in logins' :
          /\ l.user = handler[c].token.user /\ l.role \in Required(handler[c].op)
          /\ clock \in l.at..l.at + TTL
    BY <1>1, <2>2, SessionStays
  <2>4. InSession(handler[c].token.user, Op(c), handler[c].began)'
    BY <2>1, <2>3 DEF InSession, Op
  <2>5. ASSUME NEW d \in Slot, d # c, Works(d)
        PROVE  InSession(handler[d].token.user, Op(d), handler[d].began)'
    BY <2>1, <1>2, <2>5 DEF NewAt
  <2> QED
    BY <2>4, <2>5 DEF HandlersInSession
<1>8. ASSUME NEW c \in Slot, leader_append_log(c)
      PROVE  HandlersInSession'
  <2>1. /\ NewAt(c, "logged") /\ handler'[c].op = handler[c].op
        /\ handler'[c].token = handler[c].token /\ handler'[c].began = handler[c].began
        /\ handler[c].stage = "open"
    BY <1>1, <1>8, BecomesType DEF leader_append_log, Serving, Stage, Op
  <2> QED
    BY <1>3, <2>1 DEF NewAt
<1>9. ASSUME NEW c \in Slot, NEW s \in {"ok", "failed", "refused"}, Ends(c, s)
      PROVE  HandlersInSession'
  BY <1>1, <1>3, <1>9, EndsType DEF NewAt
<1>10. CASE \E c \in Slot : \/ \E s \in {"ok", "failed", "refused"} : Ended(c, s)
                            \/ \E inserted \in BOOLEAN : append_log_error(c, inserted)
  BY <1>9, <1>10 DEF Ended, append_log_error, NotReplicated
<1>11. CASE Hear \/ connection_lost
  <2>1. Done \/ UNCHANGED handler
    BY <1>11 DEF Hear, login_returned, call_returned, node_unavailable, connection_lost
  <2>2. NewAt(call, "none") \/ UNCHANGED handler
    BY <1>1, <2>1, DoneType DEF TypeOK
  <2> QED
    BY <1>1, <1>3, <2>2 DEF NewAt
<1>12. CASE \E n \in Node : node_crashes(n)
  BY <1>1, <1>3, <1>12, CrashType
<1> QED
  BY <1>4, <1>5, <1>6, <1>7, <1>8, <1>10, <1>11, <1>12, Kinds DEF Logins, Ops

LEMMA EntriesKept ==
  ASSUME WorkInv, [Next]_vars
  PROVE  EntriesInSession'
<1>1. Typed /\ EntriesInSession
  BY DEF WorkInv
<1>2. ASSUME NEW e \in raft_logs
      PROVE  InSession(e.user, e.op, e.began)'
  <2>1. InSession(e.user, e.op, e.began)
    BY <1>1 DEF EntriesInSession
  <2>2. \E l \in logins' : l.user = e.user /\ l.role \in Required(e.op)
                             /\ e.began \in l.at..l.at + TTL
    BY <1>1, <2>1, SessionStays
  <2> QED
    BY <2>2 DEF InSession
<1>3. raft_logs' = raft_logs => EntriesInSession'
  BY <1>2 DEF EntriesInSession
<1>4. CASE Quiet
  BY <1>3, <1>4 DEF Quiet, history
<1>5. CASE \E op \in Ops, user \in User \cup {Nil} : Send(op, user)
  BY <1>3, <1>5 DEF Send, history
<1>6. ASSUME NEW c \in Slot,
             leader_append_log(c) \/ \E inserted \in BOOLEAN : append_log_error(c, inserted)
      PROVE  EntriesInSession'
  <2>1. raft_logs' = raft_logs \/ raft_logs' = raft_logs \cup {Entry(c)}
    BY <1>6 DEF leader_append_log, append_log_error
  <2>2. handler[c].stage = "open"
    BY <1>6 DEF leader_append_log, append_log_error, Serving, Stage
  <2>3. InSession(handler[c].token.user, handler[c].op, handler[c].began)
    BY <2>2 DEF WorkInv, HandlersInSession, Op
  <2>4. \E l \in logins' :
          /\ l.user = handler[c].token.user /\ l.role \in Required(handler[c].op)
          /\ handler[c].began \in l.at..l.at + TTL
    BY <1>1, <2>3, SessionStays
  <2>5. /\ Entry(c).user = handler[c].token.user /\ Entry(c).op = handler[c].op
        /\ Entry(c).began = handler[c].began
    BY DEF Entry, Op
  <2>6. ASSUME NEW e, e = Entry(c)
        PROVE  InSession(e.user, e.op, e.began)'
    BY <2>4, <2>5, <2>6 DEF InSession
  <2> QED
    BY <1>2, <2>1, <2>6 DEF EntriesInSession
<1>7. CASE \E c \in Slot : \/ login_right(c) \/ call_admitted(c)
                           \/ \E s \in {"ok", "failed", "refused"} : Ended(c, s)
  BY <1>3, <1>7 DEF login_right, call_admitted, Ended, history
<1>8. CASE Hear \/ connection_lost
  BY <1>3, <1>8
     DEF Hear, login_returned, call_returned, node_unavailable, connection_lost, history
<1>9. CASE \E n \in Node : node_crashes(n)
  BY <1>3, <1>9 DEF node_crashes, Others, history
<1> QED
  BY <1>4, <1>5, <1>6, <1>7, <1>8, <1>9, Kinds DEF Logins, Ops

(* Nothing is logged for a user, and nothing still done, that a server began more than
   two hours after the user logged in with a role for it (security/access_control.py). *)
THEOREM WorkInSession == Spec => []WorkIsInSession
<1>1. Init => WorkInv
  BY TypeInit DEF Init, WorkInv, TokensBacked, HandlersInSession, EntriesInSession, Backed,
                  Idle, NoToken
<1>2. WorkInv /\ [Next]_vars => WorkInv'
  BY TypedKept, TokensKept, HandlersKept, EntriesKept DEF WorkInv
<1>3. Spec => []WorkInv
  BY <1>1, <1>2, PTL DEF Spec
<1>4. WorkInv => WorkIsInSession
  BY DEF WorkInv, HandlersInSession, EntriesInSession, WorkIsInSession
<1> QED
  BY <1>3, <1>4, PTL

-----------------------------------------------------------------------------
(* The ledger: what the slot of a call and the logs have to do with each other, and
   with what the client was told. *)

Accounted(c) ==
  IF c = 0 THEN Op(0) \notin Writes /\ told[0] = "nothing"
  ELSE /\ Op(c) \in Writes \cup {"none"}
       /\ Stage(c, "none") => handler[c].node = Nil
       /\ ~Stage(c, "none") => c <= calls /\ Op(c) \in Writes
       /\ handler[c].stage \in {"ok", "logged"} => Logged(c)
       /\ handler[c].stage \in {"sent", "open", "refused"} => ~Logged(c)
       /\ c > calls => Stage(c, "none") /\ ~Logged(c)
       /\ told[c] = "refused" => Stage(c, "none") /\ ~Logged(c) /\ c <= calls
       /\ told[c] = "ok" => Logged(c)
Ledger == \A c \in Slot : Accounted(c)
LedgerInv == Typed /\ Ledger

(* A slot stays accounted for when its handler, its entries and its answer stay. *)
LEMMA SameSlot ==
  ASSUME TypeOK, TypeOK', NEW c \in Slot, Accounted(c), handler'[c] = handler[c],
         told'[c] = told[c], Logged(c)' <=> Logged(c),
         calls' = calls \/ (calls' = calls + 1 /\ c # calls + 1)
  PROVE  Accounted(c)'
BY SessionAssumption DEF Accounted, Op, Stage, TypeOK

LEMMA LedgerServes ==
  ASSUME LedgerInv, TypeOK', NEW c \in Slot,
         \/ login_right(c) \/ call_admitted(c) \/ leader_append_log(c)
         \/ \E s \in {"ok", "failed", "refused"} : Ended(c, s)
         \/ \E inserted \in BOOLEAN : append_log_error(c, inserted)
  PROVE  Ledger'
<1>1. TypeOK /\ handler \in [Slot -> Handler] /\ Accounted(c)
  BY DEF LedgerInv, Typed, TypeOK, Ledger
<1>2. told' = told /\ calls' = calls
  BY DEF login_right, call_admitted, leader_append_log, Ended, append_log_error, Server,
         history
<1>3. raft_logs' = raft_logs \/ raft_logs' = raft_logs \cup {Entry(c)}
  BY DEF login_right, call_admitted, leader_append_log, Ended, append_log_error, history
<1>4. \A d \in Slot : d # c => (Logged(d)' <=> Logged(d))
  BY <1>3 DEF Logged, Entry
<1>5. ASSUME Accounted(c)', \A d \in Slot : d # c => handler'[d] = handler[d]
      PROVE  Ledger'
  BY <1>1, <1>2, <1>4, <1>5, SameSlot DEF Ledger, LedgerInv
<1>6. CASE login_right(c)
  <2>1. handler[c].user \in User /\ Op(c) \in Logins
    BY <1>6 DEF login_right, Serving, LedgerInv, Typed, CallerNamed
  <2>2. NewAt(c, "ok") /\ handler'[c].op = Op(c)
    BY <1>1, <1>6, <2>1, LoginType
  <2>3. c = 0
    BY <1>1, <1>6, <2>1 DEF Accounted, login_right, Serving, Stage, Logins, Writes
  <2>4. Accounted(c)'
    BY <1>1, <1>2, <2>2, <2>3 DEF Accounted, Op
  <2> QED
    BY <1>5, <2>2, <2>4 DEF NewAt
<1>7. CASE call_admitted(c)
  <2>1. NewAt(c, "open") /\ handler'[c].op = Op(c) /\ raft_logs' = raft_logs
    BY <1>1, <1>7, OpenType DEF call_admitted, history
  <2>2. Stage(c, "sent")
    BY <1>7 DEF call_admitted, Serving
  <2>3. Accounted(c)'
    BY <1>1, <1>2, <2>1, <2>2 DEF Accounted, Op, Stage, NewAt, Logged
  <2> QED
    BY <1>5, <2>1, <2>3 DEF NewAt
<1>8. CASE leader_append_log(c)
  <2>1. /\ NewAt(c, "logged") /\ handler'[c].op = Op(c) /\ Op(c) \in Writes
        /\ raft_logs' = raft_logs \cup {Entry(c)} /\ Stage(c, "open")
    BY <1>1, <1>8, BecomesType DEF leader_append_log, Serving
  <2>2. Logged(c)'
    <3>1. Entry(c) \in raft_logs'
      BY <2>1
    <3>2. Entry(c).call = c
      BY DEF Entry
    <3> QED
      BY <3>1, <3>2 DEF Logged
  <2>3. Accounted(c)'
    BY <1>1, <1>2, <2>1, <2>2 DEF Accounted, Op, Stage, NewAt
  <2> QED
    BY <1>5, <2>1, <2>3 DEF NewAt
<1>9. ASSUME NEW s \in {"ok", "failed", "refused"}, Ended(c, s)
      PROVE  Ledger'
  <2>1. /\ NewAt(c, s) \/ NewAt(c, "none")
        /\ handler'[c].op \in {Op(c), "none"}
        /\ handler'[c].stage = s => handler'[c].op = Op(c)
        /\ handler'[c].stage = "none" => handler'[c].node = Nil
    BY <1>1, <1>9, EndsType DEF Ended
  <2>2. raft_logs' = raft_logs
    BY <1>9 DEF Ended, history
  <2>3. /\ s = "refused" => handler[c].stage \in {"sent", "open"}
        /\ s = "ok" => handler[c].stage = "logged" \/ Op(c) \notin Writes
        /\ handler[c].stage # "none"
    BY <1>9 DEF Ended, Stage
  <2>4. Logged(c)' <=> Logged(c)
    BY <2>2 DEF Logged
  <2>5. Accounted(c)'
    <3>1. CASE c = 0
      BY <1>1, <1>2, <2>1, <3>1 DEF Accounted, Op, Writes
    <3>2. CASE c # 0
      BY <1>1, <1>2, <2>1, <2>3, <2>4, <3>2 DEF Accounted, Op, Stage, NewAt
    <3> QED
      BY <3>1, <3>2
  <2> QED
    BY <1>5, <2>1, <2>5 DEF NewAt
<1>10. ASSUME NEW inserted \in BOOLEAN, append_log_error(c, inserted)
       PROVE  Ledger'
  <2>1. /\ NewAt(c, "failed") \/ NewAt(c, "none")
        /\ handler'[c].op \in {Op(c), "none"}
        /\ handler'[c].stage = "failed" => handler'[c].op = Op(c)
        /\ handler'[c].stage = "none" => handler'[c].node = Nil
    BY <1>1, <1>10, EndsType DEF append_log_error, NotReplicated
  <2>2. Op(c) \in Writes /\ Stage(c, "open")
    BY <1>10 DEF append_log_error, Serving
  <2>3. Logged(c) => Logged(c)'
    BY <1>3 DEF Logged
  <2>4. Accounted(c)'
    BY <1>1, <1>2, <2>1, <2>2, <2>3 DEF Accounted, Op, Stage, NewAt
  <2> QED
    BY <1>5, <2>1, <2>4 DEF NewAt
<1> QED
  BY <1>6, <1>7, <1>8, <1>9, <1>10

LEMMA LedgerSends ==
  ASSUME LedgerInv, TypeOK', NEW op \in Ops, NEW user \in User \cup {Nil}, Send(op, user)
  PROVE  Ledger'
<1>1. TypeOK /\ calls \in Nat
  BY DEF LedgerInv, Typed, TypeOK
<1> DEFINE c == IF op \in Writes THEN calls + 1 ELSE 0
<1>2. /\ NewAt(c, "sent") /\ c \in Slot /\ handler'[c].op = op
      /\ calls' = IF op \in Writes THEN c ELSE calls
      /\ UNCHANGED <<told, raft_logs>>
  BY <1>1, SendType DEF history
<1>3. \A d \in Slot : Logged(d)' <=> Logged(d)
  BY <1>2 DEF Logged
<1>4. op \in Writes => c = calls + 1 /\ c # 0
  BY <1>1
<1>5. op \notin Writes => c = 0
  OBVIOUS
<1>6. PICK d \in Slot : d = c
  BY <1>2
<1> HIDE DEF c
<1>7. ASSUME NEW e \in Slot, e # d
      PROVE  Accounted(e)'
  <2>1. Accounted(e) /\ handler'[e] = handler[e] /\ told'[e] = told[e]
    BY <1>2, <1>6, <1>7 DEF LedgerInv, Ledger, NewAt
  <2>2. calls' = calls \/ (calls' = calls + 1 /\ e # calls + 1)
    BY <1>2, <1>4, <1>6, <1>7
  <2> QED
    BY <1>1, <1>3, <2>1, <2>2, SameSlot
<1>8. Accounted(d)'
  <2>1. handler'[d].stage = "sent" /\ handler'[d].op = op /\ told'[d] = told[d]
    BY <1>2, <1>6 DEF NewAt
  <2>2. CASE op \in Writes
    <3>1. d # 0 /\ d > calls /\ calls' = d /\ d \in Nat
      BY <1>1, <1>2, <1>4, <1>6, <2>2
    <3>2. ~Logged(d) /\ told[d] \notin {"ok", "refused"}
      BY <1>1, <3>1 DEF LedgerInv, Ledger, Accounted
    <3>3. ~Logged(d)'
      BY <1>3, <3>2
    <3> QED
      BY <2>1, <2>2, <3>1, <3>2, <3>3 DEF Accounted, Op, Stage
  <2>3. CASE op \notin Writes
    <3>1. d = 0 /\ told[0] = "nothing"
      BY <1>5, <1>6, <2>3 DEF LedgerInv, Ledger, Accounted
    <3> QED
      BY <2>1, <2>3, <3>1 DEF Accounted, Op
  <2> QED
    BY <2>2, <2>3
<1> QED
  BY <1>7, <1>8 DEF Ledger

LEMMA LedgerHears ==
  ASSUME LedgerInv, TypeOK', Hear \/ connection_lost
  PROVE  Ledger'
<1> USE DEF Hear, login_returned, call_returned, node_unavailable, connection_lost
<1>1. TypeOK /\ call \in Slot /\ handler \in [Slot -> Handler]
      /\ told \in [Slot -> {"nothing", "ok", "failed", "refused"}]
  BY DEF LedgerInv, Typed, TypeOK
<1>2. calls' = calls /\ raft_logs' = raft_logs
  BY DEF history
<1>3. \A d \in Slot : Logged(d)' <=> Logged(d)
  BY <1>2 DEF Logged
<1>4. \/ told' = told
      \/ \E what \in {"ok", "failed", "refused"} :
           /\ told' = [told EXCEPT ![call] = IF call = 0 THEN "nothing" ELSE what]
           /\ what # "failed" => Stage(call, what) /\ Done
  BY DEF history, Tell, Stage
<1>5. Done \/ UNCHANGED handler
  OBVIOUS
<1>6. PICK c \in Slot : c = call
  BY <1>1
<1>7. Done => NewAt(c, "none") /\ handler'[c].op = "none" /\ handler'[c].node = Nil
  BY <1>1, <1>6, DoneType
<1>8. ASSUME NEW d \in Slot, d # c
      PROVE  Accounted(d)'
  <2>1. handler'[d] = handler[d]
    BY <1>5, <1>7, <1>8 DEF NewAt
  <2>2. told'[d] = told[d] /\ Accounted(d)
    BY <1>1, <1>4, <1>6, <1>8 DEF LedgerInv, Ledger
  <2> QED
    BY <1>1, <1>2, <1>3, <2>1, <2>2, SameSlot
<1>9. Accounted(c)'
  <2>1. Accounted(c)
    BY DEF LedgerInv, Ledger
  <2>2. \/ handler'[c] = handler[c]
        \/ /\ handler'[c].stage = "none" /\ handler'[c].op = "none"
           /\ handler'[c].node = Nil
    BY <1>5, <1>7 DEF NewAt
  <2>3. CASE c = 0
    <3>1. told'[c] = "nothing"
      BY <2>1, <2>3, <1>1, <1>4, <1>6 DEF Accounted
    <3> QED
      BY <2>1, <2>2, <2>3, <3>1 DEF Accounted, Op, Writes
  <2>4. CASE c # 0
    <3>1. \/ told'[c] = told[c]
          \/ told'[c] = "failed"
          \/ /\ told'[c] \in {"ok", "refused"} /\ handler[c].stage = told'[c]
             /\ handler'[c].stage = "none"
      BY <1>1, <1>4, <1>6, <1>7, <2>4 DEF Stage, NewAt
    <3>2. c \in Nat /\ calls \in Nat
      BY <1>1 DEF TypeOK
    <3> QED
      BY <1>2, <1>3, <2>1, <2>2, <2>4, <3>1, <3>2 DEF Accounted, Op, Stage
  <2> QED
    BY <2>3, <2>4
<1> QED
  BY <1>8, <1>9 DEF Ledger

LEMMA LedgerCrashes ==
  ASSUME LedgerInv, TypeOK', NEW n \in Node, node_crashes(n)
  PROVE  Ledger'
<1>1. TypeOK
  BY DEF LedgerInv, Typed
<1>2. UNCHANGED <<calls, told, raft_logs>>
  BY DEF node_crashes, Others, history
<1>3. \A d \in Slot : Logged(d)' <=> Logged(d)
  BY <1>2 DEF Logged
<1>4. ASSUME NEW d \in Slot
      PROVE  Accounted(d)'
  <2>1. Accounted(d)
    BY DEF LedgerInv, Ledger
  <2>2. CASE handler'[d] = handler[d]
    BY <1>1, <1>2, <1>3, <2>1, <2>2, SameSlot
  <2>3. CASE handler'[d].stage = "none" /\ handler'[d].op = "none" /\ handler'[d].node = Nil
    BY <1>2, <1>3, <2>1, <2>3 DEF Accounted, Op, Stage, Writes
  <2>4. CASE handler'[d].stage = "dead" /\ handler'[d].op = Op(d) /\ handler[d].node = n
    BY <1>2, <1>3, <2>1, <2>4, SessionAssumption DEF Accounted, Op, Stage
  <2> QED
    BY <1>1, <2>2, <2>3, <2>4, CrashType
<1> QED
  BY <1>4 DEF Ledger

(* What a client is told of a write, when it is told that it succeeded or that it was
   refused, is what the logs hold (services/*.py, client/rpc_client.py). *)
THEOREM AnswersTrue == Spec => []AnswersAreTrue
<1>1. Init => LedgerInv
  BY TypeInit, SessionAssumption
     DEF Init, LedgerInv, Ledger, Accounted, Logged, Op, Stage, Idle, Writes
<1>2. LedgerInv /\ [Next]_vars => LedgerInv'
  <2> SUFFICES ASSUME LedgerInv, [Next]_vars PROVE LedgerInv'
    OBVIOUS
  <2>1. Typed' /\ TypeOK'
    BY TypedKept DEF LedgerInv, Typed
  <2>2. Ledger'
    <3>1. CASE Quiet
      <4>1. UNCHANGED <<handler, calls, told, raft_logs>>
        BY <3>1 DEF Quiet, history
      <4> QED
        BY <4>1 DEF LedgerInv, Ledger, Accounted, Logged, Op, Stage
    <3>2. CASE \E op \in Ops, user \in User \cup {Nil} : Send(op, user)
      BY <3>2, <2>1, LedgerSends
    <3>3. CASE \E c \in Slot :
                 \/ login_right(c) \/ call_admitted(c) \/ leader_append_log(c)
                 \/ \E s \in {"ok", "failed", "refused"} : Ended(c, s)
                 \/ \E inserted \in BOOLEAN : append_log_error(c, inserted)
      BY <3>3, <2>1, LedgerServes
    <3>4. CASE Hear \/ connection_lost
      BY <3>4, <2>1, LedgerHears
    <3>5. CASE \E n \in Node : node_crashes(n)
      BY <3>5, <2>1, LedgerCrashes
    <3> QED
      BY <3>1, <3>2, <3>3, <3>4, <3>5, Kinds DEF Logins, Ops
  <2> QED
    BY <2>1, <2>2 DEF LedgerInv
<1>3. Spec => []LedgerInv
  BY <1>1, <1>2, PTL DEF Spec
<1>4. LedgerInv => AnswersAreTrue
  BY SessionAssumption DEF LedgerInv, Ledger, Accounted, AnswersAreTrue
<1> QED
  BY <1>3, <1>4, PTL

=============================================================================
