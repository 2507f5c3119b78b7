------------------------------ MODULE WebSocket ------------------------------
(* "websocket" scopes: flasgo/websockets.py and _handle_websocket of app.py. *)
(* Every connection has the task that runs _handle_websocket and its         *)
(* endpoint, and tasks the endpoint has spawned that share the WebSocket     *)
(* object and may outlive it.  A call of the object checks its state, hands  *)
(* a message to the server, is suspended in the server's send, and changes   *)
(* the state only when that returns: the other tasks, a cancellation and the *)
(* loss of the connection come in between.                                   *)
EXTENDS Integers, Sequences, FiniteSets

CONSTANTS
  Socket,     \* websocket scopes handled by the process
  Helper,     \* tasks an endpoint spawns
  MaxTexts    \* bound: messages the application sends on a connection

Main == "main"
ASSUME WebSocketAssumption ==
  IsFiniteSet(Socket) /\ IsFiniteSet(Helper) /\ Main \notin Helper /\ MaxTexts \in Nat

VARIABLES
  pc,       \* pc[w]: where _handle_websocket is
  op,       \* op[w][t]: the call task t waits in, "none", or "cancelled"
  taken,    \* taken[w][t]: the server took the message of that call
  plain,    \* plain[w]: scope without the "websocket.http.response" extension
  client,   \* client[w]: _client_state
  app,      \* app[w]: _application_state
  sent,     \* sent[w]: messages the server took
  torn,     \* torn[w]: a call was cut in its send, or two calls overlapped
  active    \* gauge websocket_active

connection == <<client, app>>
vars == <<pc, op, taken, plain, connection, sent, torn, active>>

Task == {Main} \cup Helper
Before == {"idle", "connect", "checks", "authorize", "denial", "outer"}
Running == {"endpoint", "inner", "leave", "last"}
\* Over without the endpoint having run, after it, or with an exception that
\* reaches the server.
Over == {"ended", "left", "raised"}
Stage == Before \cup Running \cup Over
Message == {"accept", "text", "close", "start", "body"}
Waiting == Message \cup {"receive"}

Init ==
  /\ pc = [w \in Socket |-> "idle"]
  /\ op = [w \in Socket |-> [t \in Task |-> "none"]]
  /\ taken = [w \in Socket |-> [t \in Task |-> FALSE]]
  /\ plain \in [Socket -> BOOLEAN]
  /\ client = [w \in Socket |-> "connecting"]
  /\ app = [w \in Socket |-> "connecting"]
  /\ sent = [w \in Socket |-> <<>>]
  /\ torn = [w \in Socket |-> FALSE]
  /\ active = 0

----------------------------------------------------------------------------
Goto(w, stage) == pc' = [pc EXCEPT ![w] = stage]
Free(w, t) == op[w][t] = "none"

\* Two calls overlap harmlessly only when both send application messages.
Clashes(w, t, message) ==
  \E u \in Task \ {t} : op[w][u] \in Message /\ ~(op[w][u] = "text" /\ message = "text")

\* _safe_send up to the await: the server takes the message, or the connection
\* is lost already and the send will raise OSError.
Call(w, t, message) ==
  /\ op' = [op EXCEPT ![w][t] = message]
  /\ \E got \in BOOLEAN :
       /\ taken' = [taken EXCEPT ![w][t] = got]
       /\ sent' = IF got THEN [sent EXCEPT ![w] = Append(@, message)] ELSE sent
  /\ torn' = [torn EXCEPT ![w] = @ \/ Clashes(w, t, message)]

\* The first message of deny(): a response head, or a close without extension.
Denial(w) == IF plain[w] THEN "close" ELSE "start"

\* How the framework ends a connection: close() when accepted, deny() when the
\* handshake is still open.
Ending(w) == IF app[w] = "accepted" THEN "close" ELSE Denial(w)

\* Mutant: the gauge goes down whenever a connection ends.
GaugeDownAlways(w) == active' = active - 1

\* The outer `finally`, always reached: the gauge goes down if it went up.
GaugeDown(w) == active' = IF pc[w] \in Running THEN active - 1 ELSE active

Finish(w) == Goto(w, IF pc[w] \in Running THEN "left" ELSE "ended") /\ GaugeDown(w)

----------------------------------------------------------------------------
\* The handshake: receive_connect(), then routing, host and origin checks.
Begin(w) ==
  /\ pc[w] = "idle"
  /\ Goto(w, "connect")
  /\ UNCHANGED <<op, taken, plain, connection, sent, torn, active>>

Connect(w) ==
  /\ pc[w] = "connect"
  /\ client' = [client EXCEPT ![w] = "connected"]
  /\ Goto(w, "checks")
  /\ UNCHANGED <<op, taken, plain, app, sent, torn, active>>

\* The first event is not websocket.connect, a check or the identity of the
\* user raises, or a challenge is no header: on to the outer `except Exception`.
HandshakeRaises(w) ==
  /\ pc[w] \in {"connect", "checks", "authorize"}
  /\ Goto(w, "outer")
  /\ UNCHANGED <<op, taken, plain, connection, sent, torn, active>>

ChecksPass(w) ==
  /\ pc[w] = "checks"
  /\ Goto(w, "authorize")
  /\ UNCHANGED <<op, taken, plain, connection, sent, torn, active>>

\* No route, host, origin, authentication backend or permission: deny().
Refuse(w) ==
  /\ pc[w] \in {"checks", "authorize"}
  /\ Goto(w, "denial")
  /\ Call(w, Main, Denial(w))
  /\ UNCHANGED <<plain, connection, active>>

Authorize(w) ==
  /\ pc[w] = "authorize"
  /\ Goto(w, "endpoint")
  /\ active' = active + 1
  /\ UNCHANGED <<op, taken, plain, connection, sent, torn>>

----------------------------------------------------------------------------
\* Calls of the application: by the endpoint while it runs, by the tasks it
\* spawned from then on.
MayCall(w, t) ==
  /\ Free(w, t)
  /\ IF t = Main THEN pc[w] = "endpoint" ELSE pc[w] \in Running \cup {"left", "raised"}

Accept(w, t) ==
  /\ MayCall(w, t)
  /\ client[w] = "connected" /\ app[w] = "connecting"
  /\ Call(w, t, "accept")
  /\ UNCHANGED <<pc, plain, connection, active>>

SendText(w, t) ==
  /\ MayCall(w, t)
  /\ app[w] = "accepted"
  /\ Cardinality({i \in DOMAIN sent[w] : sent[w][i] = "text"}) < MaxTexts
  /\ Call(w, t, "text")
  /\ UNCHANGED <<pc, plain, connection, active>>

\* Mutant: a disconnected socket is closed again.
CloseTwice(w, t) ==
  /\ MayCall(w, t)
  /\ Call(w, t, "close")
  /\ UNCHANGED <<pc, plain, connection, active>>

\* close(): nothing is done on a disconnected socket.
Close(w, t) ==
  /\ MayCall(w, t)
  /\ app[w] # "disconnected"
  /\ Call(w, t, "close")
  /\ UNCHANGED <<pc, plain, connection, active>>

Deny(w, t) ==
  /\ MayCall(w, t)
  /\ app[w] = "connecting"
  /\ Call(w, t, Denial(w))
  /\ UNCHANGED <<pc, plain, connection, active>>

\* _receive_message() waits for the next event ...
Receive(w, t) ==
  /\ MayCall(w, t)
  /\ app[w] = "accepted" /\ client[w] # "disconnected"
  /\ op' = [op EXCEPT ![w][t] = "receive"]
  /\ UNCHANGED <<pc, taken, plain, connection, sent, torn, active>>

\* ... which is a message,
Received(w, t) ==
  /\ op[w][t] = "receive"
  /\ op' = [op EXCEPT ![w][t] = "none"]
  /\ UNCHANGED <<pc, taken, plain, connection, sent, torn, active>>

\* Mutant: the close is sent on the state of before the wait.
ReceivedBadCloses(w, t) ==
  /\ op[w][t] = "receive"
  /\ Call(w, t, "close")
  /\ UNCHANGED <<pc, plain, connection, active>>

\* or one that is too long, too frequent or of the wrong kind: close(),
\* which looks at the state as it is by now.
ReceivedBad(w, t) ==
  /\ op[w][t] = "receive"
  /\ IF app[w] = "disconnected"
       THEN /\ op' = [op EXCEPT ![w][t] = "none"]
            /\ UNCHANGED <<taken, sent, torn>>
       ELSE Call(w, t, "close")
  /\ UNCHANGED <<pc, plain, connection, active>>

\* or the client's disconnect.
Disconnected(w, t) ==
  /\ op[w][t] = "receive"
  /\ op' = [op EXCEPT ![w][t] = "none"]
  /\ client' = [client EXCEPT ![w] = "disconnected"]
  /\ app' = [app EXCEPT ![w] = "disconnected"]
  /\ UNCHANGED <<pc, taken, plain, sent, torn, active>>

----------------------------------------------------------------------------
\* Where the task goes when a call of the framework itself is over.
After(w) == IF pc[w] = "inner" THEN Goto(w, "leave") /\ UNCHANGED active
            ELSE Finish(w)
Resume(w, t) ==
  IF t = Main /\ pc[w] # "endpoint" THEN After(w)
  ELSE UNCHANGED <<pc, active>>

StateAfter(message) == CASE message = "accept" -> "accepted"
                         [] message \in {"close", "body"} -> "disconnected"

\* The server's send returns: the state follows.
Returns(w, t) ==
  /\ op[w][t] \in Message \ {"start"} /\ taken[w][t]
  /\ op' = [op EXCEPT ![w][t] = "none"]
  /\ taken' = [taken EXCEPT ![w][t] = FALSE]
  /\ app' = IF op[w][t] = "text" THEN app
            ELSE [app EXCEPT ![w] = StateAfter(op[w][t])]
  /\ Resume(w, t)
  /\ UNCHANGED <<plain, client, sent, torn>>

\* After the head of a denial response, its body.
HeadReturns(w, t) ==
  /\ op[w][t] = "start" /\ taken[w][t]
  /\ Call(w, t, "body")
  /\ UNCHANGED <<pc, plain, connection, active>>

\* Mutant: the connection is not marked as lost.
LostUnmarked(w, t) ==
  /\ op[w][t] \in Message
  /\ op' = [op EXCEPT ![w][t] = "none"]
  /\ taken' = [taken EXCEPT ![w][t] = FALSE]
  /\ IF t = Main /\ pc[w] # "endpoint"
       THEN After(w) ELSE UNCHANGED <<pc, active>>
  /\ UNCHANGED <<plain, connection, sent, torn>>

\* The send raises OSError: disconnected, and WebSocketDisconnect to the caller.
Lost(w, t) ==
  /\ op[w][t] \in Message
  /\ op' = [op EXCEPT ![w][t] = "none"]
  /\ taken' = [taken EXCEPT ![w][t] = FALSE]
  /\ app' = [app EXCEPT ![w] = "disconnected"]
  /\ Resume(w, t)
  /\ UNCHANGED <<plain, client, sent, torn>>

\* What catches another exception of a send of the framework itself: the inner
\* `finally`, the outer `except Exception`, or nothing but the outer `finally`.
Propagate(w) ==
  \/ pc[w] = "inner" /\ Goto(w, "leave") /\ UNCHANGED active
  \/ pc[w] = "leave" /\ Goto(w, "last") /\ UNCHANGED active
  \/ pc[w] = "denial" /\ Goto(w, "outer") /\ UNCHANGED active
  \/ pc[w] = "last" /\ Goto(w, "raised") /\ GaugeDown(w)
  \/ pc[w] = "outer" /\ Goto(w, "ended") /\ GaugeDown(w)

\* The server refuses the message with an exception that is no OSError: the
\* state stays as it was.  A denial may so be cut between head and body, and be
\* tried again (bound: on a connection with nothing cut or clashing before).
SendRaises(w, t) ==
  /\ op[w][t] \in Message /\ ~taken[w][t]
  /\ op[w][t] = "body" => ~torn[w]
  /\ op' = [op EXCEPT ![w][t] = "none"]
  /\ torn' = [torn EXCEPT ![w] = @ \/ op[w][t] = "body"]
  /\ IF t = Main /\ pc[w] # "endpoint" THEN Propagate(w) ELSE UNCHANGED <<pc, active>>
  /\ UNCHANGED <<taken, plain, connection, sent>>

----------------------------------------------------------------------------
\* The endpoint returns, or raises WebSocketDisconnect, or is cancelled: on to
\* the inner `finally`.
EndpointLeaves(w) ==
  /\ pc[w] = "endpoint" /\ Free(w, Main)
  /\ Goto(w, "leave")
  /\ UNCHANGED <<op, taken, plain, connection, sent, torn, active>>

\* It raises anything else: closed with 1011 or denied with 500 first.
EndpointRaises(w) ==
  /\ pc[w] = "endpoint" /\ Free(w, Main)
  /\ IF app[w] = "disconnected"
       THEN Goto(w, "leave") /\ UNCHANGED <<op, taken, sent, torn>>
       ELSE Goto(w, "inner") /\ Call(w, Main, Ending(w))
  /\ UNCHANGED <<plain, connection, active>>

\* Mutant: only what was accepted is closed.
LeaveAcceptedOnly(w) ==
  /\ pc[w] \in {"leave", "last", "outer"} /\ Free(w, Main)
  /\ IF app[w] # "accepted"
       THEN Finish(w) /\ UNCHANGED <<op, taken, sent, torn>>
       ELSE Call(w, Main, "close") /\ UNCHANGED <<pc, active>>
  /\ UNCHANGED <<plain, connection>>

\* The inner `finally` and the outer `except Exception`: the connection is closed
\* or denied unless it is over.
Leave(w) ==
  /\ pc[w] \in {"leave", "last", "outer"} /\ Free(w, Main)
  /\ IF app[w] = "disconnected"
       THEN Finish(w) /\ UNCHANGED <<op, taken, sent, torn>>
       ELSE Call(w, Main, Ending(w)) /\ UNCHANGED <<pc, active>>
  /\ UNCHANGED <<plain, connection>>

\* A task is cancelled where it waits; a message the server holds stays taken.
\* CancelledError passes the `except` clauses and runs the `finally` ones; a
\* spawned task is over.
Cancel(w, t) ==
  /\ \/ t = Main /\ pc[w] \in {"connect", "authorize", "endpoint"}
     \/ op[w][t] \in Waiting
  /\ op' = [op EXCEPT ![w][t] = IF t = Main THEN "none" ELSE "cancelled"]
  /\ taken' = [taken EXCEPT ![w][t] = FALSE]
  /\ torn' = [torn EXCEPT ![w] = @ \/ op[w][t] \in Message \ {"text"}]
  /\ IF t # Main THEN UNCHANGED <<pc, active>>
     ELSE IF pc[w] \in {"endpoint", "inner"} THEN Goto(w, "leave") /\ UNCHANGED active
     ELSE Finish(w)
  /\ UNCHANGED <<plain, connection, sent>>

Handshake(w) == \/ Begin(w) \/ Connect(w) \/ HandshakeRaises(w) \/ ChecksPass(w)
                \/ Refuse(w) \/ Authorize(w)
Calls(w, t) == \/ Accept(w, t) \/ SendText(w, t) \/ Close(w, t) \/ Deny(w, t)
               \/ Receive(w, t) \/ Received(w, t) \/ ReceivedBad(w, t)
               \/ Disconnected(w, t) \/ Returns(w, t) \/ HeadReturns(w, t)
               \/ Lost(w, t) \/ SendRaises(w, t)
Leaving(w) == EndpointLeaves(w) \/ EndpointRaises(w) \/ Leave(w)

Next == \E w \in Socket :
          \/ Handshake(w)
          \/ Leaving(w)
          \/ \E t \in Task : Calls(w, t) \/ Cancel(w, t)

Spec == Init /\ [][Next]_vars
----------------------------------------------------------------------------
\* What the ASGI specification lets an application send on a connection.
LegalAccepted(s) ==
  /\ s # <<>> /\ s[1] = "accept"
  /\ \A i \in 2..Len(s) : s[i] = "text" \/ (s[i] = "close" /\ i = Len(s))
Legal(s) == s \in {<<>>, <<"close">>, <<"start">>, <<"start", "body">>} \/ LegalAccepted(s)

InSend(w) == \E t \in Task : op[w][t] \in Message

TypeOK ==
  /\ pc \in [Socket -> Stage]
  /\ op \in [Socket -> [Task -> Waiting \cup {"none", "cancelled"}]]
  /\ taken \in [Socket -> [Task -> BOOLEAN]]
  /\ plain \in [Socket -> BOOLEAN]
  /\ client \in [Socket -> {"connecting", "connected", "disconnected"}]
  /\ app \in [Socket -> {"connecting", "accepted", "disconnected"}]
  /\ sent \in [Socket -> Seq(Message)]
  /\ torn \in [Socket -> BOOLEAN]
  /\ active \in Int

\* Whatever the endpoint and its tasks call and in whatever state, what the
\* server gets is a legal conversation: one handshake answer, messages only
\* between acceptance and close, one close, nothing after it.  It takes a call
\* cut in its send, or overlapping calls, to break that (websockets.py 114-225).
ProtocolLegal == \A w \in Socket : ~torn[w] => Legal(sent[w])

\* _application_state tells what the server knows, once no call is in flight,
\* unless it says disconnected (the connection may be lost).
StateAgrees ==
  \A w \in Socket :
    ~torn[w] /\ ~InSend(w) =>
      /\ app[w] = "connecting" => sent[w] = <<>>
      /\ app[w] = "accepted" => /\ LegalAccepted(sent[w])
                                /\ sent[w][Len(sent[w])] # "close"

\* When _handle_websocket is over after running an endpoint, the connection has
\* been closed, denied or lost: an endpoint that forgets to accept, that leaves
\* the socket open, raises or is cancelled leaves nobody waiting, even if the
\* server refused a first attempt to close it (app.py 399-443).
NothingLeftOpen ==
  \A w \in Socket : pc[w] = "left" /\ ~torn[w] => app[w] = "disconnected"

\* websocket_active is the number of endpoints running, on every way out: the
\* connection lost while it is closed, or the task cancelled there (app.py 444-448).
GaugeExact == active = Cardinality({w \in Socket : pc[w] \in Running})

\* A connection that is over for the application is never taken up again: no
\* late answer of the server reopens it or sends on it.
NeverReopened ==
  [][\A w \in Socket :
       app[w] = "disconnected" /\ ~torn[w] =>
         /\ app'[w] = "disconnected"
         /\ sent'[w] = sent[w]]_vars

\* "A WebSocket handshake may only be denied before acceptance."
\* (websockets.py 198)
DeniedBeforeAcceptance ==
  \A w \in Socket : \A i, j \in DOMAIN sent[w] :
    sent[w][i] = "accept" /\ sent[w][j] = "start" => j < i
=============================================================================
