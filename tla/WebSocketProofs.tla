-------------------------- MODULE WebSocketProofs --------------------------
(* What WebSocket promises, for any number of connections and of tasks that  *)
(* share one.                                                                *)
EXTENDS WebSocket, FiniteSetTheorems, SequenceTheorems, TLAPS

----------------------------------------------------------------------------
\* What a step of task t on connection w leaves alone: the other connections,
\* and the calls of the other tasks.
Frame(w, t) ==
  /\ \A v \in Socket \ {w} :
       /\ op'[v] = op[v] /\ taken'[v] = taken[v] /\ sent'[v] = sent[v]
       /\ torn'[v] = torn[v] /\ app'[v] = app[v]
  /\ \A u \in Task \ {t} : op'[w][u] = op[w][u] /\ taken'[w][u] = taken[w][u]

Op == Waiting \cup {"none", "cancelled"}

LEMMA OpFacts ==
  /\ Message \subseteq Waiting /\ Waiting \subseteq Op
  /\ "receive" \in Waiting /\ "receive" \notin Message
  /\ "none" \in Op /\ "none" \notin Waiting
  /\ "cancelled" \in Op /\ "cancelled" \notin Waiting
  /\ Main \in Task /\ Helper = Task \ {Main}
BY WebSocketAssumption DEF Message, Waiting, Op, Task

\* Changing what one task does on one connection.
LEMMA Nested ==
  ASSUME NEW S, NEW f \in [Socket -> [Task -> S]], NEW w \in Socket, NEW t \in Task, NEW x \in S
  PROVE  /\ [f EXCEPT ![w][t] = x] \in [Socket -> [Task -> S]]
         /\ [f EXCEPT ![w][t] = x][w][t] = x
         /\ \A u \in Task \ {t} : [f EXCEPT ![w][t] = x][w][u] = f[w][u]
         /\ \A v \in Socket \ {w} : [f EXCEPT ![w][t] = x][v] = f[v]
OBVIOUS

\* A call begins: what it changes, and the types it keeps.
LEMMA CallFacts ==
  ASSUME TypeOK, NEW w \in Socket, NEW t \in Task, NEW m \in Message, Call(w, t, m)
  PROVE  /\ op' \in [Socket -> [Task -> Op]]
         /\ taken' \in [Socket -> [Task -> BOOLEAN]]
         /\ sent' \in [Socket -> Seq(Message)]
         /\ torn' \in [Socket -> BOOLEAN]
         /\ op'[w][t] = m
         /\ sent'[w] = IF taken'[w][t] THEN Append(sent[w], m) ELSE sent[w]
         /\ torn'[w] = (torn[w] \/ Clashes(w, t, m))
         /\ app' = app => Frame(w, t)
<1>1. op \in [Socket -> [Task -> Op]] /\ m \in Op
  BY OpFacts DEF TypeOK, Op
<1>2. op' = [op EXCEPT ![w][t] = m]
  BY DEF Call
<1>3. PICK got \in BOOLEAN :
        /\ taken' = [taken EXCEPT ![w][t] = got]
        /\ sent' = IF got THEN [sent EXCEPT ![w] = Append(@, m)] ELSE sent
  BY DEF Call
<1>4. taken \in [Socket -> [Task -> BOOLEAN]] /\ sent \in [Socket -> Seq(Message)]
  BY DEF TypeOK
<1>5. /\ op' \in [Socket -> [Task -> Op]] /\ op'[w][t] = m
      /\ \A u \in Task \ {t} : op'[w][u] = op[w][u]
      /\ \A v \in Socket \ {w} : op'[v] = op[v]
  BY <1>1, <1>2, Nested
<1>6. /\ taken' \in [Socket -> [Task -> BOOLEAN]] /\ taken'[w][t] = got
      /\ \A u \in Task \ {t} : taken'[w][u] = taken[w][u]
      /\ \A v \in Socket \ {w} : taken'[v] = taken[v]
  BY <1>3, <1>4, Nested
<1>7. /\ sent' \in [Socket -> Seq(Message)]
      /\ sent'[w] = IF got THEN Append(sent[w], m) ELSE sent[w]
      /\ \A v \in Socket \ {w} : sent'[v] = sent[v]
  <2>1. sent[w] \in Seq(Message) /\ Append(sent[w], m) \in Seq(Message)
    BY <1>4
  <2>2. QED
    BY <1>3, <1>4, <2>1
<1>8. /\ torn' \in [Socket -> BOOLEAN] /\ torn'[w] = (torn[w] \/ Clashes(w, t, m))
      /\ \A v \in Socket \ {w} : torn'[v] = torn[v]
  <2>1. torn \in [Socket -> BOOLEAN] /\ Clashes(w, t, m) \in BOOLEAN
    BY DEF TypeOK, Clashes
  <2>2. torn' = [torn EXCEPT ![w] = @ \/ Clashes(w, t, m)]
    BY DEF Call
  <2>3. QED
    BY <2>1, <2>2
<1>9. app' = app => Frame(w, t)
  BY <1>5, <1>6, <1>7, <1>8 DEF Frame
<1>10. QED
  BY <1>5, <1>6, <1>7, <1>8, <1>9

\* A call ends, or is given up: the same.
LEMMA EndFacts ==
  ASSUME TypeOK, NEW w \in Socket, NEW t \in Task, NEW x \in {"none", "cancelled"},
         op' = [op EXCEPT ![w][t] = x],
         taken' = [taken EXCEPT ![w][t] = FALSE] \/ taken' = taken
  PROVE  /\ op' \in [Socket -> [Task -> Op]]
         /\ taken' \in [Socket -> [Task -> BOOLEAN]]
         /\ op'[w][t] = x
         /\ (/\ sent' = sent
             /\ \A v \in Socket \ {w} : torn'[v] = torn[v] /\ app'[v] = app[v])
            => Frame(w, t)
<1>1. /\ op \in [Socket -> [Task -> Op]] /\ x \in Op
      /\ taken \in [Socket -> [Task -> BOOLEAN]]
  BY OpFacts DEF TypeOK, Op
<1>2. /\ op' \in [Socket -> [Task -> Op]] /\ op'[w][t] = x
      /\ \A u \in Task \ {t} : op'[w][u] = op[w][u]
      /\ \A v \in Socket \ {w} : op'[v] = op[v]
  BY <1>1, Nested
<1>3. /\ taken' \in [Socket -> [Task -> BOOLEAN]]
      /\ \A u \in Task \ {t} : taken'[w][u] = taken[w][u]
      /\ \A v \in Socket \ {w} : taken'[v] = taken[v]
  <2>1. CASE taken' = [taken EXCEPT ![w][t] = FALSE]
    BY <1>1, <2>1, Nested
  <2>2. QED
    BY <1>1, <2>1
<1>4. QED
  BY <1>2, <1>3 DEF Frame

----------------------------------------------------------------------------
\* Types.
LEMMA StageFacts ==
  /\ {"idle", "connect", "checks", "authorize", "denial", "outer"} \subseteq Stage
  /\ {"endpoint", "inner", "leave", "last", "ended", "left", "raised"} \subseteq Stage
  /\ Before \cup Over \subseteq Stage /\ Running \subseteq Stage
BY DEF Stage, Before, Running, Over

LEMMA GotoType ==
  ASSUME TypeOK, NEW w \in Socket, NEW s \in Stage, Goto(w, s)
  PROVE  pc' \in [Socket -> Stage] /\ pc'[w] = s /\ \A v \in Socket \ {w} : pc'[v] = pc[v]
BY DEF TypeOK, Goto

LEMMA FinishType ==
  ASSUME TypeOK, NEW w \in Socket, Finish(w)
  PROVE  /\ pc' \in [Socket -> Stage] /\ active' \in Int
         /\ pc'[w] = IF pc[w] \in Running THEN "left" ELSE "ended"
         /\ \A v \in Socket \ {w} : pc'[v] = pc[v]
<1>1. active' \in Int
  BY DEF TypeOK, Finish, GaugeDown
<1>2. QED
  BY <1>1, GotoType, StageFacts DEF Finish

\* Where an exception of a send takes the task.
LEMMA PropagateType ==
  ASSUME TypeOK, NEW w \in Socket, Propagate(w)
  PROVE  /\ pc' \in [Socket -> Stage] /\ active' \in Int
         /\ pc[w] \notin Over /\ pc'[w] \in {"leave", "last", "outer", "raised", "ended"}
         /\ pc'[w] \in {"outer", "ended"} <=> pc[w] \notin Running
         /\ \A v \in Socket \ {w} : pc'[v] = pc[v]
<1>1. active' \in Int
  BY DEF TypeOK, Propagate, GaugeDown
<1>2. PICK s \in Stage : Goto(w, s)
  BY StageFacts DEF Propagate
<1>3. pc' = [pc EXCEPT ![w] = s] /\ pc'[w] = s
  BY <1>2, GotoType DEF Goto
<1>4. pc[w] \notin Over /\ s \in {"leave", "last", "outer", "raised", "ended"}
      /\ (s \in {"outer", "ended"} <=> pc[w] \notin Running)
  BY <1>3, StageFacts, GotoType DEF Propagate, Over, Running
<1>5. QED
  BY <1>1, <1>2, <1>3, <1>4, GotoType

LEMMA ResumeType ==
  ASSUME TypeOK, NEW w \in Socket, NEW t \in Task, Resume(w, t)
  PROVE  pc' \in [Socket -> Stage] /\ active' \in Int
<1>1. pc \in [Socket -> Stage] /\ active \in Int
  BY DEF TypeOK
<1>2. After(w) => pc' \in [Socket -> Stage] /\ active' \in Int
  BY <1>1, FinishType, GotoType, StageFacts DEF After
<1>3. QED
  BY <1>1, <1>2 DEF Resume

LEMMA DenialType == \A w \in Socket : Denial(w) \in Message /\ Ending(w) \in Message
BY DEF Denial, Ending, Message

\* The variables but pc, client and app keep their types in a step that makes
\* the call m or none; those are for each action to show.
LEMMA TypeByCall ==
  ASSUME TypeOK, NEW w \in Socket, NEW t \in Task, NEW m \in Message, Call(w, t, m),
         UNCHANGED <<plain, connection>>, pc' \in [Socket -> Stage], active' \in Int
  PROVE  TypeOK'
<1>1. /\ plain' \in [Socket -> BOOLEAN]
      /\ client' \in [Socket -> {"connecting", "connected", "disconnected"}]
      /\ app' \in [Socket -> {"connecting", "accepted", "disconnected"}]
  BY DEF TypeOK, connection
<1>2. QED
  BY <1>1, CallFacts DEF TypeOK, Op

LEMMA TypeByEnd ==
  ASSUME TypeOK, NEW w \in Socket, NEW t \in Task, NEW x \in {"none", "cancelled"},
         op' = [op EXCEPT ![w][t] = x],
         taken' = [taken EXCEPT ![w][t] = FALSE] \/ taken' = taken,
         UNCHANGED <<plain, sent>>, torn' \in [Socket -> BOOLEAN],
         client' \in [Socket -> {"connecting", "connected", "disconnected"}],
         app' \in [Socket -> {"connecting", "accepted", "disconnected"}],
         pc' \in [Socket -> Stage], active' \in Int
  PROVE  TypeOK'
<1>1. plain' \in [Socket -> BOOLEAN] /\ sent' \in [Socket -> Seq(Message)]
  BY DEF TypeOK
<1>2. QED
  BY <1>1, EndFacts DEF TypeOK, Op

LEMMA InitType == Init => TypeOK
<1> SUFFICES ASSUME Init PROVE TypeOK
  OBVIOUS
<1>1. sent \in [Socket -> Seq(Message)]
  BY DEF Init
<1>2. pc \in [Socket -> Stage]
  BY StageFacts DEF Init
<1>3. op \in [Socket -> [Task -> Op]]
  BY OpFacts DEF Init
<1>4. QED
  BY <1>1, <1>2, <1>3 DEF Init, TypeOK, Op, connection

LEMMA HandshakeType ==
  ASSUME TypeOK, NEW w \in Socket, Handshake(w) PROVE TypeOK'
<1>0. pc \in [Socket -> Stage] /\ active \in Int /\ Main \in Task
  BY OpFacts DEF TypeOK
<1>1. CASE Begin(w) \/ ChecksPass(w) \/ HandshakeRaises(w)
  <2>1. pc' \in [Socket -> Stage]
    BY <1>1, GotoType, StageFacts DEF Begin, ChecksPass, HandshakeRaises
  <2>2. QED
    BY <1>1, <2>1 DEF TypeOK, Begin, ChecksPass, HandshakeRaises, connection
<1>2. CASE Connect(w)
  <2>1. pc' \in [Socket -> Stage]
    BY <1>2, GotoType, StageFacts DEF Connect
  <2>2. QED
    BY <1>2, <2>1 DEF TypeOK, Connect
<1>3. CASE Refuse(w)
  <2>1. pc' \in [Socket -> Stage]
    BY <1>3, GotoType, StageFacts DEF Refuse
  <2>2. QED
    BY <1>0, <1>3, <2>1, DenialType, TypeByCall DEF Refuse
<1>4. CASE Authorize(w)
  <2>1. pc' \in [Socket -> Stage] /\ active' \in Int
    BY <1>0, <1>4, GotoType, StageFacts DEF Authorize
  <2>2. QED
    BY <1>4, <2>1 DEF TypeOK, Authorize, connection
<1>5. QED
  BY <1>1, <1>2, <1>3, <1>4 DEF Handshake

LEMMA CallsType ==
  ASSUME TypeOK, NEW w \in Socket, NEW t \in Task, Calls(w, t) PROVE TypeOK'
<1>0. /\ pc \in [Socket -> Stage] /\ active \in Int
      /\ torn \in [Socket -> BOOLEAN] /\ taken \in [Socket -> [Task -> BOOLEAN]]
      /\ client \in [Socket -> {"connecting", "connected", "disconnected"}]
      /\ app \in [Socket -> {"connecting", "accepted", "disconnected"}]
  BY DEF TypeOK
<1>1. CASE Accept(w, t) \/ SendText(w, t) \/ Close(w, t) \/ Deny(w, t) \/ HeadReturns(w, t)
  <2>1. PICK m \in Message : Call(w, t, m)
    BY <1>1, DenialType DEF Accept, SendText, Close, Deny, HeadReturns, Message
  <2>2. UNCHANGED <<pc, plain, connection, active>>
    BY <1>1 DEF Accept, SendText, Close, Deny, HeadReturns
  <2>3. QED
    BY <1>0, <2>1, <2>2, TypeByCall
<1>2. CASE Receive(w, t)
  <2>1. op' \in [Socket -> [Task -> Op]]
    BY <1>2, OpFacts, Nested DEF Receive, TypeOK, Op
  <2>2. QED
    BY <1>2, <2>1 DEF Receive, TypeOK, Op, connection
<1>3. CASE Received(w, t)
  BY <1>0, <1>3, TypeByEnd DEF Received, connection
<1>4. CASE ReceivedBad(w, t)
  <2>1. CASE app[w] = "disconnected"
    BY <1>0, <1>4, <2>1, TypeByEnd DEF ReceivedBad, connection
  <2>2. CASE app[w] # "disconnected"
    <3>1. "close" \in Message
      BY DEF Message
    <3>2. QED
      BY <1>0, <1>4, <2>2, <3>1, TypeByCall DEF ReceivedBad
  <2>3. QED
    BY <2>1, <2>2
<1>5. CASE Disconnected(w, t)
  BY <1>0, <1>5, TypeByEnd DEF Disconnected
<1>6. CASE Returns(w, t)
  <2>1. app' \in [Socket -> {"connecting", "accepted", "disconnected"}]
    BY <1>0, <1>6 DEF Returns, StateAfter, Message
  <2>2. QED
    BY <1>0, <1>6, <2>1, ResumeType, TypeByEnd DEF Returns
<1>7. CASE Lost(w, t)
  BY <1>0, <1>7, ResumeType, TypeByEnd DEF Lost
<1>8. CASE SendRaises(w, t)
  <2>1. pc' \in [Socket -> Stage] /\ active' \in Int
    BY <1>0, <1>8, PropagateType DEF SendRaises
  <2>2. torn' \in [Socket -> BOOLEAN]
    BY <1>0, <1>8 DEF SendRaises
  <2>3. QED
    BY <1>0, <1>8, <2>1, <2>2, TypeByEnd DEF SendRaises, connection
<1>9. QED
  BY <1>1, <1>2, <1>3, <1>4, <1>5, <1>6, <1>7, <1>8 DEF Calls

LEMMA LeavingType ==
  ASSUME TypeOK, NEW w \in Socket, Leaving(w) PROVE TypeOK'
<1>0. /\ pc \in [Socket -> Stage] /\ active \in Int /\ Main \in Task
      /\ Denial(w) \in Message /\ Ending(w) \in Message
  BY OpFacts, DenialType DEF TypeOK
<1>1. CASE EndpointLeaves(w)
  <2>1. pc' \in [Socket -> Stage]
    BY <1>1, GotoType, StageFacts DEF EndpointLeaves
  <2>2. QED
    BY <1>1, <2>1 DEF TypeOK, EndpointLeaves, connection
<1>2. CASE EndpointRaises(w)
  <2>1. pc' \in [Socket -> Stage]
    BY <1>2, GotoType, StageFacts DEF EndpointRaises
  <2>2. CASE app[w] = "disconnected"
    BY <1>2, <2>1, <2>2 DEF TypeOK, EndpointRaises, connection
  <2>3. CASE app[w] # "disconnected"
    BY <1>0, <1>2, <2>1, <2>3, TypeByCall DEF EndpointRaises
  <2>4. QED
    BY <2>2, <2>3
<1>3. CASE Leave(w)
  <2>1. CASE app[w] = "disconnected"
    <3>1. pc' \in [Socket -> Stage] /\ active' \in Int
      BY <1>3, <2>1, FinishType DEF Leave
    <3>2. QED
      BY <1>3, <2>1, <3>1 DEF TypeOK, Leave, connection
  <2>2. CASE app[w] # "disconnected"
    BY <1>0, <1>3, <2>2, TypeByCall DEF Leave
  <2>3. QED
    BY <2>1, <2>2
<1>4. QED
  BY <1>1, <1>2, <1>3 DEF Leaving

LEMMA CancelType ==
  ASSUME TypeOK, NEW w \in Socket, NEW t \in Task, Cancel(w, t) PROVE TypeOK'
<1>1. pc' \in [Socket -> Stage] /\ active' \in Int
  BY GotoType, FinishType, StageFacts DEF Cancel, TypeOK
<1>2. torn' \in [Socket -> BOOLEAN]
  BY DEF Cancel, TypeOK
<1>3. PICK x \in {"none", "cancelled"} : op' = [op EXCEPT ![w][t] = x]
  BY DEF Cancel
<1>4. /\ client' \in [Socket -> {"connecting", "connected", "disconnected"}]
      /\ app' \in [Socket -> {"connecting", "accepted", "disconnected"}]
  BY DEF Cancel, TypeOK, connection
<1>5. QED
  BY <1>1, <1>2, <1>3, <1>4, TypeByEnd DEF Cancel

LEMMA TypeStep == TypeOK /\ [Next]_vars => TypeOK'
<1> SUFFICES ASSUME TypeOK, [Next]_vars PROVE TypeOK'
  OBVIOUS
<1>1. CASE UNCHANGED vars
  BY <1>1 DEF TypeOK, vars, connection
<1>2. CASE Next
  BY <1>2, HandshakeType, CallsType, LeavingType, CancelType DEF Next
<1>3. QED
  BY <1>1, <1>2

\* Every variable has its type in every reachable state.
THEOREM TypeCorrect == Spec => []TypeOK
BY InitType, TypeStep, PTL DEF Spec

----------------------------------------------------------------------------
\* The gauge.
Runs == {w \in Socket : pc[w] \in Running}

LEMMA RunsIsFinite == IsFiniteSet(Runs) /\ IsFiniteSet(Runs)'
<1>1. Runs \subseteq Socket /\ Runs' \subseteq Socket
  BY DEF Runs
<1>2. QED
  BY <1>1, WebSocketAssumption, FS_Subset

LEMMA GaugeKept ==
  ASSUME GaugeExact, active' = active,
         \A w \in Socket : pc'[w] \in Running <=> pc[w] \in Running
  PROVE  GaugeExact'
BY DEF GaugeExact

\* A step of connection w that stays, as far as running goes, where it is.
LEMMA GaugeStays ==
  ASSUME TypeOK, GaugeExact, active' = active, NEW w \in Socket, NEW s \in Stage,
         Goto(w, s), s \in Running <=> pc[w] \in Running
  PROVE  GaugeExact'
BY GotoType, GaugeKept

LEMMA GaugeGoesDown ==
  ASSUME TypeOK, GaugeExact, NEW w \in Socket, NEW s \in Over, Goto(w, s), GaugeDown(w)
  PROVE  GaugeExact'
<1>1. \A v \in Socket : pc'[v] \in Running <=> (pc[v] \in Running /\ v # w)
  BY GotoType, StageFacts DEF Running, Over
<1>2. CASE pc[w] \in Running
  <2>1. w \in Runs /\ Runs' = Runs \ {w}
    BY <1>1, <1>2 DEF Runs
  <2>2. Cardinality(Runs') = Cardinality(Runs) - 1
    BY <2>1, RunsIsFinite, FS_RemoveElement
  <2>3. active' = active - 1
    BY <1>2 DEF GaugeDown
  <2>4. QED
    BY <2>2, <2>3 DEF GaugeExact, Runs
<1>3. CASE pc[w] \notin Running
  BY <1>1, <1>3, GaugeKept DEF GaugeDown
<1>4. QED
  BY <1>2, <1>3

LEMMA GaugeFinish ==
  ASSUME TypeOK, GaugeExact, NEW w \in Socket, Finish(w)
  PROVE  GaugeExact'
BY GaugeGoesDown DEF Finish, Over

LEMMA GaugePropagate ==
  ASSUME TypeOK, GaugeExact, NEW w \in Socket, Propagate(w)
  PROVE  GaugeExact'
<1>1. CASE /\ active' = active
           /\ \/ pc[w] = "inner" /\ Goto(w, "leave")
              \/ pc[w] = "leave" /\ Goto(w, "last")
              \/ pc[w] = "denial" /\ Goto(w, "outer")
  BY <1>1, GaugeStays, StageFacts DEF Running
<1>2. CASE \E s \in Over : Goto(w, s) /\ GaugeDown(w)
  BY <1>2, GaugeGoesDown
<1>3. QED
  BY <1>1, <1>2 DEF Propagate, Over

LEMMA GaugeResume ==
  ASSUME TypeOK, GaugeExact, NEW w \in Socket, NEW t \in Task, Resume(w, t)
  PROVE  GaugeExact'
<1>1. CASE UNCHANGED <<pc, active>>
  BY <1>1, GaugeKept
<1>2. CASE Goto(w, "leave") /\ pc[w] = "inner" /\ UNCHANGED active
  BY <1>2, GaugeStays, StageFacts DEF Running
<1>3. CASE Finish(w)
  BY <1>3, GaugeFinish
<1>4. QED
  BY <1>1, <1>2, <1>3 DEF Resume, After

LEMMA GaugeStep == TypeOK /\ GaugeExact /\ [Next]_vars => GaugeExact'
<1> SUFFICES ASSUME TypeOK, GaugeExact, [Next]_vars PROVE GaugeExact'
  OBVIOUS
<1>1. CASE UNCHANGED vars
  BY <1>1, GaugeKept DEF vars
<1>2. ASSUME NEW w \in Socket, Handshake(w) PROVE GaugeExact'
  <2>1. CASE Authorize(w)
    <3>1. \A v \in Socket : pc'[v] \in Running <=> (pc[v] \in Running \/ v = w)
      BY <2>1, GotoType, StageFacts DEF Authorize, Running
    <3>2. w \notin Runs /\ Runs' = Runs \cup {w}
      BY <2>1, <3>1 DEF Runs, Authorize, Running
    <3>3. Cardinality(Runs') = Cardinality(Runs) + 1
      BY <3>2, RunsIsFinite, FS_AddElement
    <3>4. QED
      BY <2>1, <3>3 DEF GaugeExact, Runs, Authorize
  <2>2. CASE ~Authorize(w)
    <3>1. /\ active' = active
          /\ pc[w] \in {"idle", "connect", "checks", "authorize"}
          /\ \E s \in {"connect", "checks", "authorize", "outer", "denial"} : Goto(w, s)
      BY <1>2, <2>2 DEF Handshake, Begin, Connect, HandshakeRaises, ChecksPass, Refuse
    <3>2. QED
      BY <3>1, GaugeStays, StageFacts DEF Running
  <2>3. QED
    BY <2>1, <2>2
<1>3. ASSUME NEW w \in Socket, Leaving(w) PROVE GaugeExact'
  <2>1. CASE EndpointLeaves(w) \/ EndpointRaises(w)
    BY <2>1, GaugeStays, StageFacts DEF EndpointLeaves, EndpointRaises, Running
  <2>2. CASE Leave(w)
    BY <2>2, GaugeFinish, GaugeKept DEF Leave
  <2>3. QED
    BY <1>3, <2>1, <2>2 DEF Leaving
<1>4. ASSUME NEW w \in Socket, NEW t \in Task, Calls(w, t) PROVE GaugeExact'
  <2>1. CASE Returns(w, t) \/ Lost(w, t)
    BY <2>1, GaugeResume DEF Returns, Lost
  <2>2. CASE SendRaises(w, t)
    BY <2>2, GaugePropagate, GaugeKept DEF SendRaises
  <2>3. CASE ~(Returns(w, t) \/ Lost(w, t) \/ SendRaises(w, t))
    <3>1. UNCHANGED <<pc, active>>
      BY <1>4, <2>3 DEF Calls, Accept, SendText, Close, Deny, Receive, Received,
         ReceivedBad, Disconnected, HeadReturns
    <3>2. QED
      BY <3>1, GaugeKept
  <2>4. QED
    BY <2>1, <2>2, <2>3
<1>5. ASSUME NEW w \in Socket, NEW t \in Task, Cancel(w, t) PROVE GaugeExact'
  <2>1. CASE UNCHANGED <<pc, active>>
    BY <2>1, GaugeKept
  <2>2. CASE pc[w] \in {"endpoint", "inner"} /\ Goto(w, "leave") /\ UNCHANGED active
    BY <2>2, GaugeStays, StageFacts DEF Running
  <2>3. CASE Finish(w)
    BY <2>3, GaugeFinish
  <2>4. QED
    BY <1>5, <2>1, <2>2, <2>3 DEF Cancel
<1>6. QED
  BY <1>1, <1>2, <1>3, <1>4, <1>5 DEF Next

LEMMA GaugeInit == Init => GaugeExact
<1> SUFFICES ASSUME Init PROVE GaugeExact
  OBVIOUS
<1>1. Runs = {}
  BY DEF Init, Runs, Running
<1>2. QED
  BY <1>1, FS_EmptySet DEF GaugeExact, Runs, Init

\* The gauge of connections is exact, for any number of connections.
THEOREM GaugeCorrect == Spec => []GaugeExact
BY InitType, TypeStep, GaugeInit, GaugeStep, PTL DEF Spec

----------------------------------------------------------------------------
\* Conversations.  An accepted one that can go on:
Open(s) == LegalAccepted(s) /\ s[Len(s)] # "close"

LEMMA LegalStarts ==
  /\ Legal(<<>>) /\ Open(Append(<<>>, "accept")) /\ Legal(Append(<<>>, "accept"))
  /\ Legal(Append(<<>>, "close")) /\ Legal(Append(<<>>, "start"))
  /\ Append(<<>>, "accept") = <<"accept">> /\ Append(<<>>, "start") = <<"start">>
  /\ Legal(<<"start">>) /\ Legal(Append(<<"start">>, "body"))
  /\ Append(<<"start">>, "body") = <<"start", "body">>
<1>1. /\ Append(<<>>, "accept") = <<"accept">> /\ Append(<<>>, "start") = <<"start">>
      /\ Append(<<>>, "close") = <<"close">>
      /\ Append(<<"start">>, "body") = <<"start", "body">>
  <2>1. Append(<<>>, "accept") = <<"accept">>
    OBVIOUS
  <2>2. Append(<<>>, "start") = <<"start">>
    OBVIOUS
  <2>3. Append(<<>>, "close") = <<"close">>
    OBVIOUS
  <2>4. Append(<<"start">>, "body") = <<"start", "body">>
    <3> DEFINE s == Append(<<"start">>, "body")
    <3> DEFINE d == <<"start", "body">>
    <3>1. s \in Seq(Message) /\ Len(s) = 2 /\ s[1] = "start" /\ s[2] = "body"
      BY DEF Message
    <3>2. d \in Seq(Message) /\ Len(d) = 2 /\ d[1] = "start" /\ d[2] = "body"
      BY DEF Message
    <3> HIDE DEF s, d
    <3>3. \A i \in 1..2 : s[i] = d[i]
      <4>1. \A i \in 1..2 : i = 1 \/ i = 2
        OBVIOUS
      <4>2. QED
        BY <3>1, <3>2, <4>1
    <3>4. s = d
      BY <3>1, <3>2, <3>3, SeqEqual
    <3>5. QED
      BY <3>4 DEF s, d
  <2>5. QED
    BY <2>1, <2>2, <2>3, <2>4
<1>2. LegalAccepted(<<"accept">>) /\ Open(<<"accept">>)
  BY DEF LegalAccepted, Open
<1>3. QED
  BY <1>1, <1>2 DEF Legal

LEMMA LegalGoesOn ==
  ASSUME NEW s \in Seq(Message), Open(s)
  PROVE  /\ Legal(s) /\ s # <<>>
         /\ Open(Append(s, "text")) /\ Legal(Append(s, "text"))
         /\ Legal(Append(s, "close"))
<1>1. /\ s # <<>> /\ s[1] = "accept" /\ Len(s) \in Nat \ {0}
      /\ \A i \in 2..Len(s) : s[i] = "text" \/ (s[i] = "close" /\ i = Len(s))
      /\ s[Len(s)] # "close"
  BY DEF Open, LegalAccepted
<1>2. ASSUME NEW m \in {"text", "close"}
      PROVE  LegalAccepted(Append(s, m)) /\ Append(s, m)[Len(Append(s, m))] = m
  <2>1. m \in Message
    BY <1>2 DEF Message
  <2>2. /\ Len(Append(s, m)) = Len(s) + 1 /\ Append(s, m)[Len(s) + 1] = m
        /\ \A i \in 1..Len(s) : Append(s, m)[i] = s[i]
    BY <2>1
  <2>3. Append(s, m) # <<>> /\ Append(s, m)[1] = "accept"
    BY <1>1, <2>1, <2>2
  <2>4. ASSUME NEW i \in 2..(Len(s) + 1)
        PROVE  Append(s, m)[i] = "text" \/ (Append(s, m)[i] = "close" /\ i = Len(s) + 1)
    <3>1. CASE i = Len(s) + 1
      BY <1>2, <2>2, <3>1
    <3>2. CASE i # Len(s) + 1
      <4>1. i \in 2..Len(s) /\ i \in 1..Len(s)
        BY <1>1, <3>2
      <4>2. s[i] = "text" \/ (s[i] = "close" /\ i = Len(s))
        BY <1>1, <4>1
      <4>3. s[i] = "text"
        BY <1>1, <4>2
      <4>4. QED
        BY <2>2, <4>1, <4>3
    <3>3. QED
      BY <3>1, <3>2
  <2>5. QED
    BY <2>2, <2>3, <2>4 DEF LegalAccepted
<1>3. QED
  BY <1>1, <1>2 DEF Legal, Open

----------------------------------------------------------------------------
\* What the state says of the conversation when no answer is under way ...
Told(w) == /\ app[w] = "connecting" => sent[w] = <<>>
           /\ app[w] = "accepted" => Open(sent[w])

\* ... and what is known of it while one is.
Midway(w, t) ==
  /\ op[w][t] = "accept" =>
       app[w] = "connecting" /\ sent[w] = IF taken[w][t] THEN <<"accept">> ELSE <<>>
  /\ op[w][t] = "start" =>
       app[w] = "connecting" /\ sent[w] = IF taken[w][t] THEN <<"start">> ELSE <<>>
  /\ op[w][t] = "body" =>
       app[w] = "connecting" /\ sent[w] = IF taken[w][t] THEN <<"start", "body">> ELSE <<"start">>
  /\ op[w][t] = "close" => taken[w][t] \/ Told(w)

\* Two calls are in their sends at once only with application messages.
Alone(w) ==
  \A t, u \in Task :
    t # u /\ op[w][t] \in Message /\ op[w][u] \in Message =>
      op[w][t] = "text" /\ op[w][u] = "text"

Answering(w) == \E t \in Task : op[w][t] \in Message \ {"text"}

Sound(w) ==
  /\ Legal(sent[w])
  /\ Alone(w)
  /\ Answering(w) \/ Told(w)
  /\ \A t \in Task : Midway(w, t)

\* A task that waits for an event, or sends a message, found the connection
\* accepted, and the state never goes back to "connecting".
Met(w) == \A t \in Task : op[w][t] \in {"receive", "text"} => app[w] # "connecting"

Talk(w) == Met(w) /\ (torn[w] \/ Sound(w))

LEMMA TalkElsewhere ==
  ASSUME NEW w \in Socket, NEW t \in Task, Frame(w, t), NEW v \in Socket \ {w}, Talk(v)
  PROVE  Talk(v)'
BY DEF Frame, Talk, Met, Sound, Alone, Answering, Told, Midway

\* With no clash, a call that begins finds no answer under way.
LEMMA NoClash ==
  ASSUME NEW w \in Socket, NEW t \in Task, NEW m \in Message, ~Clashes(w, t, m),
         op[w][t] \notin Message, Sound(w)
  PROVE  /\ Told(w)
         /\ \A u \in Task \ {t} : op[w][u] \in Message => op[w][u] = "text" /\ m = "text"
BY DEF Clashes, Sound, Answering

LEMMA CallKeepsTalk ==
  ASSUME TypeOK, NEW w \in Socket, NEW t \in Task, NEW m \in Message \ {"body"},
         Call(w, t, m), app' = app, Talk(w), op[w][t] \notin Message,
         m \in {"accept", "start"} => app[w] = "connecting",
         m = "text" => app[w] = "accepted",
         m = "close" => app[w] # "disconnected"
  PROVE  Talk(w)'
<1>0. /\ sent[w] \in Seq(Message) /\ app[w] \in {"connecting", "accepted", "disconnected"}
      /\ taken'[w][t] \in BOOLEAN
  BY CallFacts DEF TypeOK
<1>1. /\ op'[w][t] = m
      /\ sent'[w] = IF taken'[w][t] THEN Append(sent[w], m) ELSE sent[w]
      /\ torn'[w] = (torn[w] \/ Clashes(w, t, m))
      /\ \A u \in Task \ {t} : op'[w][u] = op[w][u] /\ taken'[w][u] = taken[w][u]
  BY CallFacts DEF Frame
<1>2. Met(w)'
  BY <1>0, <1>1 DEF Talk, Met, Message
<1>3. SUFFICES ASSUME ~torn'[w] PROVE Sound(w)'
  BY <1>2 DEF Talk
<1>4. ~Clashes(w, t, m) /\ Sound(w)
  BY <1>1, <1>3 DEF Talk
<1>5. /\ Told(w)
      /\ \A u \in Task \ {t} : op[w][u] \in Message => op[w][u] = "text" /\ m = "text"
  BY <1>4, NoClash
<1>6. Alone(w)'
  BY <1>1, <1>5 DEF Alone
<1>7. \A u \in Task \ {t} : Midway(w, u)'
  BY <1>1, <1>5 DEF Midway, Message
<1>8. CASE m = "text"
  <2>1. Open(sent[w])
    BY <1>5, <1>8 DEF Told
  <2>2. Open(sent'[w]) /\ Legal(sent'[w])
    BY <1>0, <1>1, <1>8, <2>1, LegalGoesOn
  <2>3. Told(w)'
    BY <1>8, <2>2 DEF Told
  <2>4. Midway(w, t)'
    BY <1>1, <1>8 DEF Midway
  <2>5. QED
    BY <1>6, <1>7, <2>2, <2>3, <2>4 DEF Sound
<1>9. CASE m # "text"
  <2>1. Answering(w)'
    BY <1>1, <1>9 DEF Answering
  <2>2. app[w] = "connecting" => sent[w] = <<>>
    BY <1>5 DEF Told
  <2>3. Legal(sent'[w]) /\ Midway(w, t)'
    <3>1. CASE m \in {"accept", "start"}
      BY <1>0, <1>1, <2>2, <3>1, LegalStarts DEF Midway
    <3>2. CASE m = "close"
      <4>1. Legal(sent'[w])
        BY <1>0, <1>1, <1>5, <3>2, LegalStarts, LegalGoesOn DEF Told
      <4>2. taken'[w][t] \/ Told(w)'
        BY <1>1, <1>5 DEF Told
      <4>3. QED
        BY <1>1, <3>2, <4>1, <4>2 DEF Midway
    <3>3. QED
      BY <1>9, <3>1, <3>2 DEF Message
  <2>4. QED
    BY <1>6, <1>7, <2>1, <2>3 DEF Sound
<1>10. QED
  BY <1>8, <1>9

\* The second message of a denial.
LEMMA BodyKeepsTalk ==
  ASSUME TypeOK, NEW w \in Socket, NEW t \in Task, op[w][t] = "start", taken[w][t],
         Call(w, t, "body"), app' = app, Talk(w)
  PROVE  Talk(w)'
<1>0. "body" \in Message /\ "start" \in Message
  BY DEF Message
<1>1. /\ op'[w][t] = "body"
      /\ sent'[w] = IF taken'[w][t] THEN Append(sent[w], "body") ELSE sent[w]
      /\ torn'[w] = (torn[w] \/ Clashes(w, t, "body"))
      /\ \A u \in Task \ {t} : op'[w][u] = op[w][u] /\ taken'[w][u] = taken[w][u]
  BY <1>0, CallFacts DEF Frame
<1>2. Met(w)'
  BY <1>1 DEF Talk, Met
<1>3. SUFFICES ASSUME ~torn'[w] PROVE Sound(w)'
  BY <1>2 DEF Talk
<1>4. Sound(w)
  BY <1>1, <1>3 DEF Talk
<1>5. app[w] = "connecting" /\ sent[w] = <<"start">>
  BY <1>4 DEF Sound, Midway
<1>6. \A u \in Task \ {t} : op[w][u] \notin Message
  BY <1>0, <1>4 DEF Sound, Alone
<1>7. Legal(sent'[w]) /\ Midway(w, t)'
  BY <1>1, <1>5, LegalStarts DEF Midway
<1>8. Alone(w)' /\ Answering(w)'
  BY <1>0, <1>1, <1>6 DEF Alone, Answering
<1>9. \A u \in Task \ {t} : Midway(w, u)'
  BY <1>1, <1>6 DEF Midway, Message
<1>10. QED
  BY <1>7, <1>8, <1>9 DEF Sound

\* A call that ends, or is given up, without changing the state.
LEMMA RestKeepsTalk ==
  ASSUME NEW w \in Socket, NEW t \in Task, Frame(w, t),
         op'[w][t] \in {"none", "cancelled", "receive"}, sent'[w] = sent[w], app'[w] = app[w],
         op'[w][t] = "receive" => app[w] # "connecting",
         torn[w] => torn'[w], op[w][t] \in Message \ {"text"} => torn'[w], Talk(w)
  PROVE  Talk(w)'
<1>1. Met(w)'
  BY DEF Frame, Talk, Met
<1>2. SUFFICES ASSUME ~torn'[w] PROVE Sound(w)'
  BY <1>1 DEF Talk
<1>3. Sound(w) /\ op[w][t] \notin Message \ {"text"} /\ op'[w][t] \notin Message
  BY <1>2 DEF Talk, Message
<1>4. \A u \in Task \ {t} : op'[w][u] = op[w][u] /\ taken'[w][u] = taken[w][u]
  BY DEF Frame
<1>5. Alone(w)' /\ Legal(sent'[w])
  BY <1>3, <1>4 DEF Sound, Alone
<1>6. Answering(w)' \/ Told(w)'
  BY <1>3, <1>4 DEF Sound, Answering, Told
<1>7. Midway(w, t)'
  BY DEF Midway
<1>8. \A u \in Task \ {t} : Midway(w, u)'
  BY <1>3, <1>4 DEF Sound, Midway, Told
<1>9. QED
  BY <1>5, <1>6, <1>7, <1>8 DEF Sound

\* The connection is over for the application.
LEMMA EndKeepsTalk ==
  ASSUME NEW w \in Socket, NEW t \in Task, Frame(w, t),
         op'[w][t] = "none", sent'[w] = sent[w], app'[w] = "disconnected",
         torn'[w] = torn[w], op[w][t] \in Waiting, Talk(w)
  PROVE  Talk(w)'
<1>1. Met(w)'
  BY DEF Talk, Met
<1>2. SUFFICES ASSUME ~torn[w] PROVE Sound(w)'
  BY <1>1 DEF Talk
<1>3. Sound(w) /\ Met(w)
  BY <1>2 DEF Talk
<1>4. \A u \in Task \ {t} : op'[w][u] = op[w][u] /\ taken'[w][u] = taken[w][u]
  BY DEF Frame
<1>5. Alone(w)' /\ Legal(sent'[w]) /\ Told(w)'
  BY <1>3, <1>4, OpFacts DEF Sound, Alone, Told
<1>6. \A u \in Task \ {t} : op[w][u] \notin {"accept", "start", "body"}
  <2>1. CASE op[w][t] \in Message
    BY <1>3, <2>1 DEF Sound, Alone, Message
  <2>2. CASE op[w][t] = "receive"
    BY <1>3, <2>2 DEF Sound, Midway, Met
  <2>3. QED
    BY <2>1, <2>2 DEF Waiting
<1>7. \A u \in Task : Midway(w, u)'
  BY <1>4, <1>5, <1>6 DEF Midway
<1>8. QED
  BY <1>5, <1>7 DEF Sound

\* The server refuses a message it did not take.
LEMMA RefusalKeepsTalk ==
  ASSUME NEW w \in Socket, NEW t \in Task, Frame(w, t), op[w][t] \in Message, ~taken[w][t],
         op'[w][t] = "none", sent'[w] = sent[w], app'[w] = app[w],
         torn'[w] = (torn[w] \/ op[w][t] = "body"), Talk(w)
  PROVE  Talk(w)'
<1>1. Met(w)'
  BY DEF Frame, Talk, Met
<1>2. SUFFICES ASSUME ~torn'[w] PROVE Sound(w)'
  BY <1>1 DEF Talk
<1>3. Sound(w) /\ op[w][t] \in Message \ {"body"}
  BY <1>2 DEF Talk
<1>4. /\ \A u \in Task \ {t} : op'[w][u] = op[w][u] /\ taken'[w][u] = taken[w][u]
      /\ "none" \notin Message
  BY DEF Frame, Message
<1>5. Alone(w)' /\ Legal(sent'[w])
  BY <1>3, <1>4 DEF Sound, Alone
<1>6. CASE op[w][t] = "text"
  <2>1. Answering(w)' \/ Told(w)'
    BY <1>3, <1>4, <1>6 DEF Sound, Answering, Told
  <2>2. \A u \in Task : Midway(w, u)'
    BY <1>3, <1>4 DEF Sound, Midway, Told
  <2>3. QED
    BY <1>5, <2>1, <2>2 DEF Sound
<1>7. CASE op[w][t] # "text"
  <2>1. Told(w)
    BY <1>3, <1>7 DEF Sound, Midway, Told, Message
  <2>2. Told(w)'
    BY <2>1 DEF Told
  <2>3. \A u \in Task : Midway(w, u)'
    BY <1>3, <1>4, <2>2 DEF Sound, Midway
  <2>4. QED
    BY <1>5, <2>2, <2>3 DEF Sound
<1>8. QED
  BY <1>6, <1>7

\* The server has the acceptance, and the application knows.
LEMMA AcceptKeepsTalk ==
  ASSUME NEW w \in Socket, NEW t \in Task, Frame(w, t), op[w][t] = "accept", taken[w][t],
         op'[w][t] = "none", sent'[w] = sent[w], app'[w] = "accepted",
         torn'[w] = torn[w], Talk(w)
  PROVE  Talk(w)'
<1>1. Met(w)'
  BY DEF Talk, Met
<1>2. SUFFICES ASSUME ~torn[w] PROVE Sound(w)'
  BY <1>1 DEF Talk
<1>3. Sound(w)
  BY <1>2 DEF Talk
<1>4. \A u \in Task \ {t} : op'[w][u] = op[w][u] /\ op[w][u] \notin Message
  BY <1>3 DEF Sound, Alone, Frame, Message
<1>5. sent[w] = <<"accept">>
  BY <1>3 DEF Sound, Midway
<1>6. Legal(sent'[w]) /\ Told(w)'
  BY <1>5, LegalStarts DEF Told
<1>7. Alone(w)' /\ \A u \in Task : Midway(w, u)'
  BY <1>4 DEF Alone, Midway, Message
<1>8. QED
  BY <1>6, <1>7 DEF Sound

----------------------------------------------------------------------------
\* Where the framework is, and what that says of the calls.
Entering == {"idle", "connect", "checks", "authorize"}

Place(w) ==
  /\ pc[w] \in Entering => op[w][Main] = "none" /\ app[w] = "connecting"
  /\ pc[w] \notin Running \cup {"left", "raised"} => \A t \in Helper : op[w][t] = "none"
  /\ pc[w] # "endpoint" => op[w][Main] \in {"none", "close", "start", "body"}
  /\ pc[w] \in Over => op[w][Main] = "none"
  /\ pc[w] = "left" => torn[w] \/ app[w] = "disconnected"

Inv == TypeOK /\ \A w \in Socket : Talk(w) /\ Place(w)

\* A step is one of task t on connection w.
Step(w, t) == (t = Main /\ (Handshake(w) \/ Leaving(w))) \/ Calls(w, t) \/ Cancel(w, t)

LEMMA NextIsStep == Next => \E w \in Socket, t \in Task : Step(w, t)
BY OpFacts DEF Next, Step

LEMMA CallIsLocal ==
  ASSUME TypeOK, NEW w \in Socket, NEW t \in Task, NEW m \in Message, Call(w, t, m),
         UNCHANGED connection
  PROVE  Frame(w, t)
BY CallFacts DEF connection

LEMMA RestIsLocal ==
  ASSUME TypeOK, NEW w \in Socket, NEW t \in Task, UNCHANGED <<op, taken, sent, torn, connection>>
  PROVE  Frame(w, t)
BY DEF Frame, connection

LEMMA PcIsLocal ==
  ASSUME TypeOK, NEW w \in Socket, NEW t \in Task, Step(w, t)
  PROVE  \A v \in Socket \ {w} : pc'[v] = pc[v]
<1>1. CASE Handshake(w)
  <2>1. \E s \in Stage : Goto(w, s)
    BY <1>1, StageFacts DEF Handshake, Begin, Connect, HandshakeRaises, ChecksPass, Refuse, Authorize
  <2>2. QED
    BY <2>1, GotoType
<1>2. CASE Leaving(w)
  BY <1>2, GotoType, FinishType, StageFacts DEF Leaving, EndpointLeaves, EndpointRaises, Leave
<1>3. CASE Calls(w, t)
  <2>1. CASE Returns(w, t) \/ Lost(w, t) \/ SendRaises(w, t)
    BY <2>1, GotoType, FinishType, PropagateType, StageFacts
       DEF Returns, Lost, SendRaises, Resume, After
  <2>2. CASE ~(Returns(w, t) \/ Lost(w, t) \/ SendRaises(w, t))
    BY <1>3, <2>2 DEF Calls, Accept, SendText, Close, Deny, Receive, Received,
       ReceivedBad, Disconnected, HeadReturns
  <2>3. QED
    BY <2>1, <2>2
<1>4. CASE Cancel(w, t)
  BY <1>4, GotoType, FinishType, StageFacts DEF Cancel
<1>5. QED
  BY <1>1, <1>2, <1>3, <1>4 DEF Step

LEMMA StepIsLocal ==
  ASSUME TypeOK, NEW w \in Socket, NEW t \in Task, Step(w, t)
  PROVE  Frame(w, t)
<1>0. Denial(w) \in Message /\ Ending(w) \in Message /\ {"accept", "text", "close", "body"} \subseteq Message
  BY DenialType DEF Message
<1>1. CASE t = Main /\ Handshake(w)
  <2>1. CASE Refuse(w)
    BY <1>0, <1>1, <2>1, CallIsLocal DEF Refuse
  <2>2. CASE ~Refuse(w)
    BY <1>1, <2>2 DEF Handshake, Begin, Connect, HandshakeRaises, ChecksPass, Authorize,
       Frame, connection
  <2>3. QED
    BY <2>1, <2>2
<1>2. CASE t = Main /\ Leaving(w)
  BY <1>0, <1>2, CallIsLocal, RestIsLocal DEF Leaving, EndpointLeaves, EndpointRaises, Leave
<1>3. CASE Accept(w, t) \/ SendText(w, t) \/ Close(w, t) \/ Deny(w, t) \/ HeadReturns(w, t)
  BY <1>0, <1>3, CallIsLocal DEF Accept, SendText, Close, Deny, HeadReturns
<1>4. CASE Receive(w, t)
  <2>1. /\ \A u \in Task \ {t} : op'[w][u] = op[w][u]
        /\ \A v \in Socket \ {w} : op'[v] = op[v]
    BY <1>4, OpFacts, Nested DEF Receive, TypeOK, Op
  <2>2. QED
    BY <1>4, <2>1 DEF Receive, Frame, connection
<1>5. CASE Received(w, t)
  BY <1>5, EndFacts DEF Received, connection
<1>6. CASE ReceivedBad(w, t)
  <2>1. CASE app[w] = "disconnected"
    BY <1>6, <2>1, EndFacts DEF ReceivedBad, connection
  <2>2. CASE app[w] # "disconnected"
    BY <1>0, <1>6, <2>2, CallIsLocal DEF ReceivedBad
  <2>3. QED
    BY <2>1, <2>2
<1>7. CASE Disconnected(w, t) \/ Lost(w, t)
  <2>1. \A v \in Socket \ {w} : torn'[v] = torn[v] /\ app'[v] = app[v]
    BY <1>7 DEF Disconnected, Lost, TypeOK
  <2>2. QED
    BY <1>7, <2>1, EndFacts DEF Disconnected, Lost
<1>8. CASE Returns(w, t)
  <2>1. \A v \in Socket \ {w} : torn'[v] = torn[v] /\ app'[v] = app[v]
    BY <1>8 DEF Returns, TypeOK
  <2>2. QED
    BY <1>8, <2>1, EndFacts DEF Returns
<1>9. CASE Cancel(w, t)
  <2>1. \A v \in Socket \ {w} : torn'[v] = torn[v] /\ app'[v] = app[v]
    BY <1>9 DEF Cancel, TypeOK, connection
  <2>2. PICK x \in {"none", "cancelled"} : op' = [op EXCEPT ![w][t] = x]
    BY <1>9 DEF Cancel
  <2>3. QED
    BY <1>9, <2>1, <2>2, EndFacts DEF Cancel
<1>10. CASE SendRaises(w, t)
  <2>1. \A v \in Socket \ {w} : torn'[v] = torn[v] /\ app'[v] = app[v]
    BY <1>10 DEF SendRaises, TypeOK, connection
  <2>2. QED
    BY <1>10, <2>1, EndFacts DEF SendRaises
<1>11. QED
  BY <1>1, <1>2, <1>3, <1>4, <1>5, <1>6, <1>7, <1>8, <1>9, <1>10 DEF Step, Calls

----------------------------------------------------------------------------
\* The conversation of the connection that moves stays sound.
LEMMA DenialKind == \A w \in Socket : Denial(w) \in {"close", "start"}
BY DEF Denial

LEMMA EndingKind ==
  ASSUME TypeOK, NEW w \in Socket, app[w] # "disconnected"
  PROVE  Ending(w) \in {"close", "start"} /\ (Ending(w) = "start" => app[w] = "connecting")
BY DEF TypeOK, Ending, Denial

LEMMA TalkStep ==
  ASSUME Inv, NEW w \in Socket, NEW t \in Task, Step(w, t)
  PROVE  Talk(w)'
<1>0. /\ TypeOK /\ Talk(w) /\ Place(w) /\ Frame(w, t)
      /\ torn[w] \in BOOLEAN
  BY StepIsLocal DEF Inv, TypeOK
<1> {"accept", "text", "close", "start"} \subseteq Message \ {"body"} /\ "none" \notin Message
  BY DEF Message
<1>1. CASE t = Main /\ Handshake(w)
  <2>1. CASE Refuse(w)
    <3>1. op[w][t] \notin Message /\ app[w] = "connecting"
      BY <1>0, <1>1, <2>1 DEF Refuse, Place, Entering
    <3>2. Call(w, t, Denial(w)) /\ app' = app
      BY <1>1, <2>1 DEF Refuse, connection
    <3>3. QED
      BY <1>0, <3>1, <3>2, DenialKind, CallKeepsTalk
  <2>2. CASE ~Refuse(w)
    <3>1. UNCHANGED <<op, taken, sent, torn, app>>
      BY <1>1, <2>2 DEF Handshake, Begin, Connect, HandshakeRaises, ChecksPass, Authorize,
         connection
    <3>2. QED
      BY <1>0, <3>1 DEF Talk, Met, Sound, Alone, Answering, Told, Midway
  <2>3. QED
    BY <2>1, <2>2
<1>2. CASE t = Main /\ Leaving(w)
  <2>1. CASE UNCHANGED <<op, taken, sent, torn, app>>
    BY <1>0, <2>1 DEF Talk, Met, Sound, Alone, Answering, Told, Midway
  <2>2. CASE Call(w, t, Ending(w)) /\ app' = app /\ app[w] # "disconnected" /\ Free(w, t)
    BY <1>0, <2>2, EndingKind, CallKeepsTalk DEF Free
  <2>3. QED
    BY <1>2, <2>1, <2>2 DEF Leaving, EndpointLeaves, EndpointRaises, Leave, connection
<1>3. CASE Accept(w, t) \/ SendText(w, t) \/ Close(w, t) \/ Deny(w, t)
  <2>1. op[w][t] \notin Message /\ app' = app
    BY <1>3 DEF Accept, SendText, Close, Deny, MayCall, Free, connection
  <2>2. CASE Accept(w, t)
    BY <1>0, <2>1, <2>2, CallKeepsTalk DEF Accept
  <2>3. CASE SendText(w, t)
    BY <1>0, <2>1, <2>3, CallKeepsTalk DEF SendText
  <2>4. CASE Close(w, t)
    BY <1>0, <2>1, <2>4, CallKeepsTalk DEF Close
  <2>5. CASE Deny(w, t)
    BY <1>0, <2>1, <2>5, DenialKind, CallKeepsTalk DEF Deny
  <2>6. QED
    BY <1>3, <2>2, <2>3, <2>4, <2>5
<1>4. CASE HeadReturns(w, t)
  BY <1>0, <1>4, BodyKeepsTalk DEF HeadReturns, connection
<1>5. CASE Receive(w, t)
  <2>1. op'[w][t] = "receive" /\ op[w][t] \notin Message
    BY <1>5, OpFacts, Nested DEF Receive, MayCall, Free, Inv, TypeOK, Op
  <2>2. QED
    BY <1>0, <1>5, <2>1, RestKeepsTalk DEF Receive, connection
<1>6. CASE Received(w, t) \/ (ReceivedBad(w, t) /\ app[w] = "disconnected")
  <2>1. op'[w][t] = "none" /\ op[w][t] \notin Message
    BY <1>0, <1>6, EndFacts, OpFacts DEF Received, ReceivedBad
  <2>2. sent' = sent /\ app' = app /\ torn' = torn
    BY <1>6 DEF Received, ReceivedBad, connection
  <2>3. QED
    BY <1>0, <2>1, <2>2, RestKeepsTalk
<1>7. CASE ReceivedBad(w, t) /\ app[w] # "disconnected"
  <2>1. op[w][t] \notin Message /\ app' = app /\ Call(w, t, "close")
    BY <1>7, OpFacts DEF ReceivedBad, connection
  <2>2. QED
    BY <1>0, <1>7, <2>1, CallKeepsTalk
<1>8. CASE Disconnected(w, t) \/ Lost(w, t)
  <2>1. op'[w][t] = "none" /\ op[w][t] \in Waiting
    BY <1>0, <1>8, EndFacts, OpFacts DEF Disconnected, Lost
  <2>2. app'[w] = "disconnected" /\ sent' = sent /\ torn' = torn
    BY <1>0, <1>8 DEF Disconnected, Lost, TypeOK
  <2>3. QED
    BY <1>0, <2>1, <2>2, EndKeepsTalk
<1>9. CASE Returns(w, t)
  <2>1. /\ op'[w][t] = "none" /\ op[w][t] \in Message \ {"start"} /\ taken[w][t]
        /\ sent' = sent /\ torn' = torn /\ app \in [Socket -> {"connecting", "accepted", "disconnected"}]
    BY <1>0, <1>9, EndFacts DEF Returns, TypeOK
  <2>2. CASE op[w][t] = "text"
    BY <1>0, <1>9, <2>1, <2>2, RestKeepsTalk DEF Returns
  <2>3. CASE op[w][t] = "accept"
    <3>1. app'[w] = "accepted"
      BY <1>9, <2>1, <2>3 DEF Returns, StateAfter
    <3>2. QED
      BY <1>0, <2>1, <2>3, <3>1, AcceptKeepsTalk
  <2>4. CASE op[w][t] \in {"close", "body"}
    <3>1. app'[w] = "disconnected"
      BY <1>9, <2>1, <2>4 DEF Returns, StateAfter
    <3>2. QED
      BY <1>0, <2>1, <3>1, EndKeepsTalk, OpFacts
  <2>5. QED
    BY <2>1, <2>2, <2>3, <2>4 DEF Message
<1>10. CASE Cancel(w, t)
  <2>1. PICK x \in {"none", "cancelled"} : op' = [op EXCEPT ![w][t] = x]
    BY <1>10 DEF Cancel
  <2>2. op'[w][t] \in {"none", "cancelled"}
    BY <1>0, <1>10, <2>1, EndFacts DEF Cancel
  <2>3. /\ sent' = sent /\ app' = app
        /\ torn'[w] = (torn[w] \/ op[w][t] \in Message \ {"text"})
    BY <1>0, <1>10 DEF Cancel, connection, TypeOK
  <2>4. QED
    BY <1>0, <2>2, <2>3, RestKeepsTalk
<1>11. CASE SendRaises(w, t)
  <2>1. op'[w][t] = "none" /\ op[w][t] \in Message /\ ~taken[w][t]
    BY <1>0, <1>11, EndFacts DEF SendRaises
  <2>2. sent' = sent /\ app' = app /\ torn'[w] = (torn[w] \/ op[w][t] = "body")
    BY <1>0, <1>11 DEF SendRaises, connection, TypeOK
  <2>3. QED
    BY <1>0, <2>1, <2>2, RefusalKeepsTalk
<1>12. QED
  BY <1>1, <1>2, <1>3, <1>4, <1>5, <1>6, <1>7, <1>8, <1>9, <1>10, <1>11 DEF Step, Calls

----------------------------------------------------------------------------
\* And so does what its place says.
LEMMA PlaceElsewhere ==
  ASSUME NEW w \in Socket, NEW t \in Task, Frame(w, t), NEW v \in Socket \ {w},
         pc'[v] = pc[v], Place(v)
  PROVE  Place(v)'
BY DEF Frame, Place

\* The endpoint's call, or one of the tasks it spawned, moves nothing else.
LEMMA PlaceOfCall ==
  ASSUME NEW w \in Socket, NEW t \in Task, Frame(w, t), Place(w), pc'[w] = pc[w],
         IF t = Main THEN pc[w] = "endpoint" ELSE pc[w] \in Running \cup {"left", "raised"},
         pc[w] = "left" => torn'[w] \/ app'[w] = "disconnected"
  PROVE  Place(w)'
BY OpFacts DEF Frame, Place, Entering, Running, Over

LEMMA PlaceOfResume ==
  ASSUME Inv, NEW w \in Socket, NEW t \in Task, Frame(w, t), Resume(w, t),
         op[w][t] \in Message, op'[w][t] = "none",
         t = Main /\ pc[w] # "endpoint" => app'[w] = "disconnected",
         pc[w] = "left" => torn'[w] \/ app'[w] = "disconnected"
  PROVE  Place(w)'
<1>0. Place(w) /\ TypeOK /\ "none" \notin Message /\ pc[w] \in Stage
  BY DEF Inv, Message, TypeOK
<1>1. CASE t = Main /\ pc[w] # "endpoint"
  <2>1. \A u \in Helper : op'[w][u] = op[w][u]
    BY <1>1, OpFacts DEF Frame
  <2>2. pc[w] \notin Over
    BY <1>0, <1>1 DEF Place
  <2>3. CASE pc[w] = "inner"
    <3>1. pc'[w] = "leave"
      BY <1>0, <1>1, <2>3, GotoType, StageFacts DEF Resume, After
    <3>2. QED
      BY <1>1, <2>1, <3>1 DEF Place, Entering, Running, Over
  <2>4. CASE pc[w] # "inner"
    <3>1. pc'[w] = IF pc[w] \in Running THEN "left" ELSE "ended"
      BY <1>0, <1>1, <2>4, FinishType DEF Resume, After
    <3>2. QED
      BY <1>0, <1>1, <2>1, <2>2, <3>1 DEF Place, Entering, Running, Over
  <2>5. QED
    BY <2>3, <2>4
<1>2. CASE ~(t = Main /\ pc[w] # "endpoint")
  <2>1. pc' = pc
    BY <1>2 DEF Resume
  <2>2. t # Main => pc[w] \in Running \cup {"left", "raised"}
    BY <1>0, OpFacts DEF Place
  <2>3. QED
    BY <1>0, <1>2, <2>1, <2>2, PlaceOfCall
<1>3. QED
  BY <1>1, <1>2

LEMMA PlaceStep ==
  ASSUME Inv, NEW w \in Socket, NEW t \in Task, Step(w, t)
  PROVE  Place(w)'
<1>0. /\ TypeOK /\ Talk(w) /\ Place(w) /\ Frame(w, t)
      /\ pc[w] \in Stage /\ torn[w] \in BOOLEAN
      /\ app \in [Socket -> {"connecting", "accepted", "disconnected"}]
  BY StepIsLocal DEF Inv, TypeOK
<1> Main \in Task /\ Helper = Task \ {Main}
  BY OpFacts
<1>1. CASE t = Main /\ Handshake(w)
  <2>1. \A u \in Helper : op'[w][u] = op[w][u]
    BY <1>0, <1>1 DEF Frame
  <2>2. app' = app
    BY <1>1 DEF Handshake, Begin, Connect, HandshakeRaises, ChecksPass, Refuse, Authorize, connection
  <2>3. CASE Refuse(w)
    <3>1. op'[w][Main] \in {"close", "start"}
      BY <1>0, <2>3, DenialKind, DenialType, CallFacts DEF Refuse
    <3>2. pc'[w] = "denial" /\ pc[w] \in Entering
      BY <1>0, <2>3, GotoType, StageFacts DEF Refuse, Entering
    <3>3. QED
      BY <1>0, <2>1, <3>1, <3>2 DEF Place, Entering, Running, Over
  <2>4. CASE ~Refuse(w)
    <3>1. op' = op /\ torn' = torn
      BY <1>1, <2>4 DEF Handshake, Begin, Connect, HandshakeRaises, ChecksPass, Authorize
    <3>2. pc'[w] \in Entering \cup {"endpoint", "outer"} /\ pc[w] \in Entering
      BY <1>0, <1>1, <2>4, GotoType, StageFacts
         DEF Handshake, Begin, Connect, HandshakeRaises, ChecksPass, Authorize, Entering
    <3>3. QED
      BY <1>0, <2>2, <3>1, <3>2 DEF Place, Entering, Running, Over
  <2>5. QED
    BY <2>3, <2>4
<1>2. CASE t = Main /\ Leaving(w)
  <2>0. Free(w, Main) /\ pc[w] \in {"endpoint", "leave", "last", "outer"} /\ app' = app
    BY <1>2 DEF Leaving, EndpointLeaves, EndpointRaises, Leave, connection
  <2>1. CASE EndpointLeaves(w) \/ (EndpointRaises(w) /\ app[w] = "disconnected")
    <3>1. pc'[w] = "leave" /\ op' = op
      BY <1>0, <2>1, GotoType, StageFacts DEF EndpointLeaves, EndpointRaises
    <3>2. QED
      BY <2>0, <3>1 DEF Place, Free, Entering, Running, Over
  <2>2. CASE EndpointRaises(w) /\ app[w] # "disconnected"
    <3>1. pc'[w] = "inner" /\ op'[w][Main] \in {"close", "start"}
      BY <1>0, <2>2, GotoType, StageFacts, EndingKind, DenialType, CallFacts DEF EndpointRaises
    <3>2. QED
      BY <3>1 DEF Place, Entering, Running, Over
  <2>3. CASE Leave(w) /\ app[w] = "disconnected"
    <3>1. pc'[w] = (IF pc[w] \in Running THEN "left" ELSE "ended") /\ op' = op
      BY <1>0, <2>3, FinishType DEF Leave
    <3>2. QED
      BY <1>0, <2>0, <2>3, <3>1 DEF Place, Free, Entering, Running, Over
  <2>4. CASE Leave(w) /\ app[w] # "disconnected"
    <3>1. /\ pc' = pc /\ pc[w] \in {"leave", "last", "outer"}
          /\ op'[w][Main] \in {"close", "start"}
      BY <1>0, <2>4, EndingKind, DenialType, CallFacts DEF Leave
    <3>2. \A u \in Helper : op'[w][u] = op[w][u]
      BY <1>0, <1>2 DEF Frame
    <3>3. QED
      BY <1>0, <3>1, <3>2 DEF Place, Entering, Running, Over
  <2>5. QED
    BY <1>2, <2>1, <2>2, <2>3, <2>4 DEF Leaving
<1>3. CASE Accept(w, t) \/ SendText(w, t) \/ Close(w, t) \/ Deny(w, t) \/ Receive(w, t)
  <2>1. pc' = pc /\ app' = app /\ MayCall(w, t)
    BY <1>3 DEF Accept, SendText, Close, Deny, Receive, connection
  <2>2. torn[w] => torn'[w]
    BY <1>0, <1>3, CallFacts, DenialType DEF Accept, SendText, Close, Deny, Receive, Message
  <2>3. QED
    BY <1>0, <2>1, <2>2, PlaceOfCall DEF MayCall, Place
<1>4. CASE Received(w, t) \/ ReceivedBad(w, t) \/ Disconnected(w, t)
  <2>1. pc' = pc /\ op[w][t] = "receive" /\ (app' = app \/ app'[w] = "disconnected")
    BY <1>0, <1>4 DEF Received, ReceivedBad, Disconnected, connection
  <2>2. torn[w] => torn'[w]
    BY <1>0, <1>4, CallFacts DEF Received, ReceivedBad, Disconnected, Message
  <2>3. IF t = Main THEN pc[w] = "endpoint" ELSE pc[w] \in Running \cup {"left", "raised"}
    BY <1>0, <2>1 DEF Place
  <2>4. QED
    BY <1>0, <2>1, <2>2, <2>3, PlaceOfCall DEF Place
<1>5. CASE HeadReturns(w, t)
  <2>1. /\ pc' = pc /\ app' = app /\ op[w][t] = "start" /\ op'[w][t] = "body"
        /\ torn[w] => torn'[w]
    BY <1>0, <1>5, CallFacts DEF HeadReturns, connection, Message
  <2>2. CASE t = Main /\ pc[w] # "endpoint"
    BY <1>0, <2>1, <2>2 DEF Place, Frame, Entering, Over, Running
  <2>3. CASE ~(t = Main /\ pc[w] # "endpoint")
    <3>1. t # Main => pc[w] \in Running \cup {"left", "raised"}
      BY <1>0, <2>1 DEF Place
    <3>2. QED
      BY <1>0, <2>1, <2>3, <3>1, PlaceOfCall DEF Place
  <2>4. QED
    BY <2>2, <2>3
<1>6. CASE Lost(w, t)
  <2>1. app'[w] = "disconnected" /\ op[w][t] \in Message
    BY <1>0, <1>6 DEF Lost
  <2>2. op'[w][t] = "none"
    BY <1>0, <1>6, EndFacts DEF Lost
  <2>3. Resume(w, t)
    BY <1>6 DEF Lost
  <2>4. QED
    BY <1>0, <2>1, <2>2, <2>3, PlaceOfResume
<1>7. CASE Returns(w, t)
  <2>0. op'[w][t] = "none" /\ Resume(w, t)
    <3>1. op'[w][t] = "none"
      BY <1>0, <1>7, EndFacts DEF Returns
    <3>2. Resume(w, t)
      BY <1>7 DEF Returns
    <3>3. QED
      BY <3>1, <3>2
  <2>1. /\ op[w][t] \in Message \ {"start"}
        /\ torn' = torn
        /\ app'[w] = IF op[w][t] = "text" THEN app[w] ELSE StateAfter(op[w][t])
    BY <1>0, <1>7 DEF Returns
  <2>2. t = Main /\ pc[w] # "endpoint" => app'[w] = "disconnected"
    BY <1>0, <2>1 DEF Place, StateAfter, Message
  <2>3. pc[w] = "left" => torn'[w] \/ app'[w] = "disconnected"
    <3>1. pc[w] = "left" /\ ~torn[w] => app[w] = "disconnected" /\ op[w][t] # "accept"
      BY <1>0 DEF Place, Talk, Sound, Midway
    <3>2. QED
      BY <2>1, <3>1 DEF StateAfter, Message
  <2>4. QED
    BY <1>0, <2>0, <2>1, <2>2, <2>3, PlaceOfResume
<1>8. CASE Cancel(w, t)
  <2>1. /\ app' = app /\ torn'[w] = (torn[w] \/ op[w][t] \in Message \ {"text"})
    BY <1>0, <1>8 DEF Cancel, connection, TypeOK
  <2>2. CASE t # Main
    <3>1. pc' = pc /\ pc[w] \in Running \cup {"left", "raised"}
      BY <1>0, <1>8, <2>2, OpFacts DEF Cancel, Place
    <3>2. QED
      BY <1>0, <2>1, <2>2, <3>1, PlaceOfCall DEF Place
  <2>3. CASE t = Main
    <3>1. op'[w][Main] = "none" /\ \A u \in Helper : op'[w][u] = op[w][u]
      BY <1>0, <1>8, <2>3, EndFacts DEF Cancel, Frame
    <3>2. CASE pc[w] \in {"endpoint", "inner"}
      <4>1. pc'[w] = "leave"
        BY <1>0, <1>8, <2>3, <3>2, GotoType, StageFacts DEF Cancel
      <4>2. QED
        BY <3>1, <4>1 DEF Place, Entering, Running, Over
    <3>3. CASE pc[w] \notin {"endpoint", "inner"}
      <4>1. pc'[w] = IF pc[w] \in Running THEN "left" ELSE "ended"
        BY <1>0, <1>8, <2>3, <3>3, FinishType DEF Cancel
      <4>2. pc[w] \in {"connect", "authorize"} \/ op[w][Main] \in Waiting
        BY <1>8, <2>3, <3>3 DEF Cancel
      <4>3. pc[w] \notin Over
        BY <1>0, <4>2, OpFacts DEF Place, Over
      <4>4. pc[w] \in Running => torn'[w]
        BY <1>0, <2>1, <2>3, <3>3, <4>2, OpFacts DEF Place, Running, Message
      <4>5. QED
        BY <1>0, <3>1, <4>1, <4>3, <4>4 DEF Place, Entering, Running, Over
    <3>4. QED
      BY <3>2, <3>3
  <2>4. QED
    BY <2>2, <2>3
<1>9. CASE SendRaises(w, t)
  <2>1. op[w][t] \in Message /\ op'[w][t] = "none" /\ app' = app /\ (torn[w] => torn'[w])
    BY <1>0, <1>9, EndFacts DEF SendRaises, connection, TypeOK
  <2>2. CASE t = Main /\ pc[w] # "endpoint"
    <3>1. Propagate(w)
      BY <1>9, <2>2 DEF SendRaises
    <3>2. \A u \in Helper : op'[w][u] = op[w][u]
      BY <1>0, <2>2 DEF Frame
    <3>3. /\ pc[w] \notin Over /\ pc'[w] \in {"leave", "last", "outer", "raised", "ended"}
          /\ pc'[w] \in {"outer", "ended"} <=> pc[w] \notin Running
      BY <1>0, <3>1, PropagateType
    <3>4. QED
      BY <1>0, <2>1, <2>2, <3>2, <3>3 DEF Place, Entering, Running, Over
  <2>3. CASE ~(t = Main /\ pc[w] # "endpoint")
    <3>1. pc' = pc
      BY <1>9, <2>3 DEF SendRaises
    <3>2. t # Main => pc[w] \in Running \cup {"left", "raised"}
      BY <1>0, <2>1, OpFacts DEF Place
    <3>3. QED
      BY <1>0, <2>1, <2>3, <3>1, <3>2, PlaceOfCall DEF Place
  <2>4. QED
    BY <2>2, <2>3
<1>10. QED
  BY <1>1, <1>2, <1>3, <1>4, <1>5, <1>6, <1>7, <1>8, <1>9 DEF Step, Calls

----------------------------------------------------------------------------
LEMMA InvInit == Init => Inv
<1> SUFFICES ASSUME Init PROVE Inv
  OBVIOUS
<1>1. TypeOK
  BY InitType
<1>2. \A w \in Socket, t \in Task : op[w][t] = "none"
  BY DEF Init
<1>3. \A w \in Socket : pc[w] = "idle" /\ app[w] = "connecting" /\ sent[w] = <<>>
  BY DEF Init
<1>4. \A w \in Socket : Sound(w)
  BY <1>2, <1>3, LegalStarts DEF Sound, Alone, Told, Midway, Message
<1>5. \A w \in Socket : Talk(w)
  BY <1>2, <1>4 DEF Talk, Met
<1>6. \A w \in Socket : Place(w)
  BY <1>2, <1>3, OpFacts DEF Place, Over, Running
<1>7. QED
  BY <1>1, <1>5, <1>6 DEF Inv

LEMMA InvStep == Inv /\ [Next]_vars => Inv'
<1> SUFFICES ASSUME Inv, [Next]_vars PROVE Inv'
  OBVIOUS
<1>1. TypeOK'
  BY TypeStep DEF Inv
<1>2. CASE UNCHANGED vars
  BY <1>1, <1>2 DEF Inv, vars, connection, Talk, Met, Sound, Alone, Answering, Told, Midway, Place
<1>3. CASE Next
  <2>1. PICK w \in Socket, t \in Task : Step(w, t)
    BY <1>3, NextIsStep
  <2>2. Talk(w)' /\ Place(w)'
    BY <2>1, TalkStep, PlaceStep
  <2>3. ASSUME NEW v \in Socket \ {w} PROVE Talk(v)' /\ Place(v)'
    BY <2>1, StepIsLocal, PcIsLocal, TalkElsewhere, PlaceElsewhere DEF Inv
  <2>4. QED
    BY <1>1, <2>2, <2>3 DEF Inv
<1>4. QED
  BY <1>2, <1>3

LEMMA Invariance == Spec => []Inv
BY InvInit, InvStep, PTL DEF Spec

\* On any number of connections, used by any number of tasks each, the server
\* gets a legal conversation unless a call was cut in its send or two clashed.
THEOREM ConversationIsLegal == Spec => []ProtocolLegal
<1>1. Inv => ProtocolLegal
  BY DEF Inv, Talk, Sound, ProtocolLegal
<1>2. QED
  BY <1>1, Invariance, PTL

\* The state a WebSocket keeps is the one the server knows, between calls.
THEOREM StateIsTold == Spec => []StateAgrees
<1>1. ASSUME Inv, NEW w \in Socket, ~torn[w], ~InSend(w) PROVE Told(w)
  BY <1>1 DEF Inv, Talk, Sound, Answering, InSend
<1>2. Inv => StateAgrees
  BY <1>1 DEF StateAgrees, Told, Open
<1>3. QED
  BY <1>2, Invariance, PTL

\* However an endpoint ends, its connection is over afterwards.
THEOREM NoneLeftOpen == Spec => []NothingLeftOpen
<1>1. Inv => NothingLeftOpen
  BY DEF Inv, Place, NothingLeftOpen
<1>2. QED
  BY <1>1, Invariance, PTL

\* A connection that is over for the application stays so and is sent nothing.
LEMMA OverStays ==
  ASSUME Inv, NEW w \in Socket, NEW t \in Task, Step(w, t), app[w] = "disconnected", ~torn[w]
  PROVE  app'[w] = "disconnected" /\ sent'[w] = sent[w]
<1>0. /\ TypeOK /\ Sound(w) /\ Place(w)
      /\ app \in [Socket -> {"connecting", "accepted", "disconnected"}]
  BY DEF Inv, Talk, TypeOK
<1>1. pc[w] \notin Entering /\ op[w][t] \notin {"accept", "start", "body"}
  BY <1>0 DEF Place, Sound, Midway
<1>2. CASE t = Main /\ Handshake(w)
  <2>1. Begin(w) \/ Connect(w) \/ ChecksPass(w) \/ Authorize(w) => sent' = sent /\ app' = app
    BY DEF Begin, Connect, ChecksPass, Authorize, connection
  <2>2. ~HandshakeRaises(w) /\ ~Refuse(w)
    BY <1>1 DEF HandshakeRaises, Refuse, Entering
  <2>3. QED
    BY <1>2, <2>1, <2>2 DEF Handshake
<1>3. CASE t = Main /\ Leaving(w)
  BY <1>3 DEF Leaving, EndpointLeaves, EndpointRaises, Leave, connection
<1>4. CASE Calls(w, t)
  <2>1. CASE Returns(w, t)
    BY <1>0, <1>1, <2>1 DEF Returns, StateAfter, Message
  <2>2. CASE Lost(w, t) \/ Disconnected(w, t)
    BY <1>0, <2>2 DEF Lost, Disconnected
  <2>3. CASE ~(Returns(w, t) \/ Lost(w, t) \/ Disconnected(w, t))
    BY <1>1, <1>4, <2>3 DEF Calls, Accept, SendText, Close, Deny, Receive, Received,
       ReceivedBad, HeadReturns, SendRaises, connection
  <2>4. QED
    BY <2>1, <2>2, <2>3
<1>5. CASE Cancel(w, t)
  BY <1>5 DEF Cancel, connection
<1>6. QED
  BY <1>2, <1>3, <1>4, <1>5 DEF Step

\* A connection that is over for the application is never taken up again, nor
\* is it sent anything.
THEOREM OverForGood == Spec => NeverReopened
<1>1. ASSUME Inv, [Next]_vars, NEW w \in Socket, app[w] = "disconnected", ~torn[w]
      PROVE  app'[w] = "disconnected" /\ sent'[w] = sent[w]
  <2>1. CASE UNCHANGED vars
    BY <1>1, <2>1 DEF vars, connection
  <2>2. CASE Next
    <3>1. PICK v \in Socket, t \in Task : Step(v, t)
      BY <2>2, NextIsStep
    <3>2. CASE v = w
      BY <1>1, <3>1, <3>2, OverStays
    <3>3. CASE v # w
      <4>1. Frame(v, t)
        BY <1>1, <3>1, StepIsLocal DEF Inv
      <4>2. QED
        BY <1>1, <3>3, <4>1 DEF Frame
    <3>4. QED
      BY <3>2, <3>3
  <2>3. QED
    BY <1>1, <2>1, <2>2
<1>2. Inv /\ [Next]_vars =>
        [\A w \in Socket :
           app[w] = "disconnected" /\ ~torn[w] =>
             /\ app'[w] = "disconnected"
             /\ sent'[w] = sent[w]]_vars
  BY <1>1
<1>3. QED
  BY <1>2, Invariance, PTL DEF Spec, NeverReopened
=============================================================================
