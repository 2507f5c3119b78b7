----------------------------- MODULE HttpProofs -----------------------------
(* Theorems about Http, for any set of requests, browsers and contents and   *)
(* any number of middlewares and tasks.                                      *)
EXTENDS Http, FiniteSetTheorems, SequenceTheorems, TLAPS

\* The part of TypeOK that needs no other invariant: that the gauge is not
\* negative follows from GaugeExact.
Typed ==
  /\ pc \in [Request -> Stage]
  /\ step \in [Request -> Nat]
  /\ metered \in [Request -> BOOLEAN]
  /\ context \in [Request -> User]
  /\ session \in [Request -> Session]
  /\ response \in [Request -> Response]
  /\ cookie \in [Request -> Data \cup {NoCookie}]
  /\ wire \in [Request -> Seq(Message)]
  /\ attempts \in [Request -> Seq(Message)]
  /\ ran \in [Request -> Seq(Outcome)]
  /\ passed \in [Request -> SUBSET Gate]
  /\ jar \in [Browser -> Data]
  /\ active \in Int
  /\ counted \in Nat
  /\ observed \in [Outcome -> Nat]

USE DEF Goto, control, local, output, shared

\* What the steps below need to know of the type sets, which stay folded.
LEMMA StageFacts ==
  /\ "checks" \in Stage /\ "before" \in Stage /\ "match" \in Stage
  /\ "authorize" \in Stage /\ "limit" \in Stage /\ "endpoint" \in Stage
  /\ "after" \in Stage /\ "error" \in Stage /\ "prepare" \in Stage
  /\ "start" \in Stage /\ "body" \in Stage /\ "done" \in Stage
  /\ "raised" \in Stage /\ "cancelled" \in Stage /\ "background" \in Stage
  /\ "idle" \in Stage
BY DEF Stage, Handling, Sending, Closed

LEMMA ValueFacts ==
  /\ "none" \in User /\ "anonymous" \in User /\ "known" \in User
  /\ "start" \in Message /\ "body" \in Message
  /\ "checks" \in Gate /\ "before" \in Gate /\ "authorized" \in Gate
  /\ "quota" \in Gate
  /\ Plain \in Response
BY HttpAssumption DEF User, Message, Gate, Plain, Response

\* A send keeps the types of what it touches.
LEMMA SendTyped ==
  ASSUME Typed, NEW r \in Request, NEW m \in Message, NEW got \in BOOLEAN, Send(r, m, got)
  PROVE  /\ attempts' \in [Request -> Seq(Message)]
         /\ wire' \in [Request -> Seq(Message)]
         /\ jar' \in [Browser -> Data]
<1> USE DEF Send, Typed
<1>1. attempts' \in [Request -> Seq(Message)]
  OBVIOUS
<1>2. wire' \in [Request -> Seq(Message)]
  OBVIOUS
<1>3. jar' \in [Browser -> Data]
  <2>1. From[r] \in Browser
    BY HttpAssumption
  <2>2. cookie[r] # NoCookie => cookie[r] \in Data
    OBVIOUS
  <2>3. QED
    BY <2>1, <2>2
<1>4. QED
  BY <1>1, <1>2, <1>3

LEMMA TypedStep == ASSUME Typed PROVE [Next]_vars => Typed'
<1> USE StageFacts, ValueFacts DEF Typed
<1>1. CASE UNCHANGED vars
  BY <1>1 DEF vars
<1>2. ASSUME NEW r \in Request, Begin(r) PROVE Typed'
  <2>1. PICK m \in {FALSE, MetricsEnabled} :
          /\ metered' = [metered EXCEPT ![r] = m]
          /\ active' = IF m THEN active + 1 ELSE active
    BY <1>2 DEF Begin
  <2>2. m \in BOOLEAN
    BY HttpAssumption
  <2>3. metered' \in [Request -> BOOLEAN] /\ active' \in Int
    BY <2>1, <2>2
  <2>4. PICK d \in LoadedSession(r) :
          session' = [session EXCEPT ![r] = [data |-> d, modified |-> FALSE]]
    BY <1>2 DEF Begin
  <2>5. [data |-> d, modified |-> FALSE] \in Session
    BY HttpAssumption DEF Session, LoadedSession
  <2>6. session' \in [Request -> Session]
    BY <2>4, <2>5
  <2>7. QED
    BY <1>2, <2>3, <2>6 DEF Begin
<1>3. ASSUME NEW r \in Request, Refuse(r) PROVE Typed'
  BY <1>3 DEF Refuse, Respond, LeaveContext
<1>4. ASSUME NEW r \in Request, PassChecks(r) PROVE Typed'
  BY <1>4 DEF PassChecks
<1>5. ASSUME NEW r \in Request, BeforeNone(r) PROVE Typed'
  BY <1>5 DEF BeforeNone
<1>6. ASSUME NEW r \in Request, BeforeValue(r) PROVE Typed'
  BY <1>6 DEF BeforeValue
<1>7. ASSUME NEW r \in Request, BeforeDone(r) PROVE Typed'
  BY <1>7 DEF BeforeDone
<1>8. ASSUME NEW r \in Request, NoMatch(r) PROVE Typed'
  BY <1>8 DEF NoMatch, Respond, LeaveContext
<1>9. ASSUME NEW r \in Request, Match(r) PROVE Typed'
  BY <1>9 DEF Match
<1>10. ASSUME NEW r \in Request, Deny(r) PROVE Typed'
  BY <1>10 DEF Deny, Respond, LeaveContext
<1>11. ASSUME NEW r \in Request, Authorize(r) PROVE Typed'
  BY <1>11 DEF Authorize
<1>12. ASSUME NEW r \in Request, LimitDenies(r) PROVE Typed'
  BY <1>12 DEF LimitDenies
<1>13. ASSUME NEW r \in Request, LimitAllows(r) PROVE Typed'
  BY <1>13 DEF LimitAllows
<1>14. ASSUME NEW r \in Request, EndpointReturns(r) PROVE Typed'
  BY <1>14 DEF EndpointReturns
<1>15. ASSUME NEW r \in Request, AfterReturns(r) PROVE Typed'
  BY <1>15 DEF AfterReturns
<1>16. ASSUME NEW r \in Request, AfterDone(r) PROVE Typed'
  BY <1>16 DEF AfterDone, Respond, LeaveContext
<1>17. ASSUME NEW r \in Request, Raise(r) PROVE Typed'
  BY <1>17 DEF Raise
<1>18. ASSUME NEW r \in Request, ErrorResponds(r) PROVE Typed'
  BY <1>18 DEF ErrorResponds, Respond, LeaveContext
<1>19. ASSUME NEW r \in Request, ErrorRaises(r) PROVE Typed'
  BY <1>19 DEF ErrorRaises, LeaveContext, LeaveGauge
<1>20. ASSUME NEW r \in Request, Prepare(r) PROVE Typed'
  <2>1. session[r].data \in Data
    BY DEF Session
  <2>2. cookie' \in [Request -> Data \cup {NoCookie}]
    BY <1>20, <2>1 DEF Prepare, SessionCookie
  <2>3. QED
    BY <1>20, <2>2 DEF Prepare
<1>21. ASSUME NEW r \in Request, PrepareFallback(r) PROVE Typed'
  BY <1>21 DEF PrepareFallback
<1>21f. ASSUME NEW r \in Request, FallbackRaises(r) PROVE Typed'
  BY <1>21f DEF FallbackRaises, LeaveGauge
<1>22. ASSUME NEW r \in Request, SendStart(r) PROVE Typed'
  <2>1. Send(r, "start", TRUE)
    BY <1>22 DEF SendStart
  <2>2. QED
    BY <1>22, <2>1, SendTyped DEF SendStart
<1>23. ASSUME NEW r \in Request, SendBody(r) PROVE Typed'
  <2>1. Send(r, "body", TRUE) /\ Finish(r, TRUE)
    BY <1>23 DEF SendBody
  <2>2. pc' \in [Request -> Stage] /\ step' \in [Request -> Nat]
    <3>1. PICK s \in {"background", "done"} : Goto(r, s)
      BY <2>1, Zenon DEF Finish
    <3>2. s \in Stage
      OBVIOUS
    <3>3. QED
      BY <3>1, <3>2
  <2>3. active' \in Int /\ counted' \in Nat
    BY <2>1 DEF Finish, LeaveGauge
  <2>4. QED
    BY <1>23, <2>1, <2>2, <2>3, SendTyped DEF SendBody
<1>24. ASSUME NEW r \in Request, SendFails(r) PROVE Typed'
  <2>1. PICK got \in BOOLEAN : Send(r, pc[r], got)
    BY <1>24 DEF SendFails
  <2>2. Finish(r, FALSE) /\ pc[r] \in Message
    BY <1>24 DEF SendFails, Message
  <2>3. pc' \in [Request -> Stage] /\ step' \in [Request -> Nat]
    <3>1. Goto(r, "done")
      BY <2>2 DEF Finish
    <3>2. QED
      BY <3>1
  <2>4. active' \in Int /\ counted' \in Nat
    BY <2>2 DEF Finish, LeaveGauge
  <2>5. QED
    BY <1>24, <2>1, <2>2, <2>3, <2>4, SendTyped DEF SendFails
<1>25. ASSUME NEW r \in Request, RunTask(r) PROVE Typed'
  <2>1. PICK o \in Outcome :
          /\ ran' = [ran EXCEPT ![r] = Append(@, o)]
          /\ observed' = IF MetricsEnabled THEN [observed EXCEPT ![o] = @ + 1] ELSE observed
    BY <1>25 DEF RunTask
  <2>2. ran' \in [Request -> Seq(Outcome)]
    BY <2>1
  <2>3. observed' \in [Outcome -> Nat]
    BY <2>1
  <2>4. pc' \in [Request -> Stage] /\ step' \in [Request -> Nat] /\ active' \in Int
    <3>1. CASE Len(ran[r]) + 1 = response[r].tasks
      <4>1. Goto(r, "done") /\ LeaveGauge(r)
        BY <1>25, <3>1 DEF RunTask
      <4>2. QED
        BY <4>1 DEF LeaveGauge
    <3>2. CASE Len(ran[r]) + 1 # response[r].tasks
      BY <1>25, <3>2 DEF RunTask
    <3>3. QED
      BY <3>1, <3>2
  <2>5. QED
    BY <1>25, <2>2, <2>3, <2>4 DEF RunTask
<1>26. ASSUME NEW r \in Request, Cancel(r) PROVE Typed'
  <2>1. /\ attempts' \in [Request -> Seq(Message)]
        /\ wire' \in [Request -> Seq(Message)]
        /\ jar' \in [Browser -> Data]
    <3>1. CASE pc[r] \in {"start", "body"}
      <4>1. PICK got \in BOOLEAN : Send(r, pc[r], got)
        BY <1>26, <3>1 DEF Cancel
      <4>2. QED
        BY <3>1, <4>1, SendTyped DEF Message
    <3>2. CASE pc[r] \notin {"start", "body"}
      BY <1>26, <3>2 DEF Cancel
    <3>3. QED
      BY <3>1, <3>2
  <2>2. active' \in Int
    BY <1>26 DEF Cancel, LeaveGauge
  <2>3. QED
    BY <1>26, <2>1, <2>2 DEF Cancel, LeaveContext
<1>27. ASSUME NEW r \in Request, EditSession(r) PROVE Typed'
  <2>1. PICK d \in Data, tracked \in BOOLEAN :
          session' = [session EXCEPT ![r] = [data |-> d, modified |-> @.modified \/ tracked]]
    BY <1>27 DEF EditSession
  <2>2. [data |-> d, modified |-> session[r].modified \/ tracked] \in Session
    BY DEF Session
  <2>3. session' \in [Request -> Session]
    BY <2>1, <2>2
  <2>4. QED
    BY <1>27, <2>3 DEF EditSession
<1>28. QED
  BY <1>1, <1>2, <1>3, <1>4, <1>5, <1>6, <1>7, <1>8, <1>9, <1>10, <1>11, <1>12, <1>13, <1>14, <1>15, <1>16, <1>17, <1>18, <1>19, <1>20, <1>21, <1>21f, <1>22, <1>23, <1>24, <1>25, <1>26, <1>27
     DEF Next, Pipeline
----------------------------------------------------------------------------
\* Most steps neither send anything nor begin or end a request.
Early == Handling \cup {"prepare", "start"}

Quiet(r) ==
  /\ pc[r] \in Early \ {"start"}
  /\ \E s \in Early : pc' = [pc EXCEPT ![r] = s]
  /\ \E resp \in Response : response' = [response EXCEPT ![r] = resp]
  /\ UNCHANGED <<wire, attempts, ran, metered, active>>

LEMMA QuietSteps ==
  ASSUME Typed, NEW r \in Request
  PROVE
    /\ Refuse(r) => Quiet(r)
    /\ PassChecks(r) => Quiet(r)
    /\ BeforeNone(r) => Quiet(r)
    /\ BeforeValue(r) => Quiet(r)
    /\ BeforeDone(r) => Quiet(r)
    /\ NoMatch(r) => Quiet(r)
    /\ Match(r) => Quiet(r)
    /\ Deny(r) => Quiet(r)
    /\ Authorize(r) => Quiet(r)
    /\ LimitDenies(r) => Quiet(r)
    /\ LimitAllows(r) => Quiet(r)
    /\ EndpointReturns(r) => Quiet(r)
    /\ AfterReturns(r) => Quiet(r)
    /\ AfterDone(r) => Quiet(r)
    /\ Raise(r) => Quiet(r)
    /\ ErrorResponds(r) => Quiet(r)
    /\ Prepare(r) => Quiet(r)
    /\ PrepareFallback(r) => Quiet(r)
<1> USE StageFacts, ValueFacts DEF Typed, Quiet, Early, Handling
<1>1. Refuse(r) => Quiet(r)
  BY DEF Refuse, Respond, LeaveContext
<1>2. PassChecks(r) => Quiet(r)
  BY DEF PassChecks
<1>3. BeforeNone(r) => Quiet(r)
  BY DEF BeforeNone
<1>4. BeforeValue(r) => Quiet(r)
  BY DEF BeforeValue
<1>5. BeforeDone(r) => Quiet(r)
  BY DEF BeforeDone
<1>6. NoMatch(r) => Quiet(r)
  BY DEF NoMatch, Respond, LeaveContext
<1>7. Match(r) => Quiet(r)
  BY DEF Match
<1>8. Deny(r) => Quiet(r)
  BY DEF Deny, Respond, LeaveContext
<1>9. Authorize(r) => Quiet(r)
  BY DEF Authorize
<1>10. LimitDenies(r) => Quiet(r)
  BY DEF LimitDenies
<1>11. LimitAllows(r) => Quiet(r)
  BY DEF LimitAllows
<1>12. EndpointReturns(r) => Quiet(r)
  BY DEF EndpointReturns
<1>13. AfterReturns(r) => Quiet(r)
  <2>1. pc[r] = "after" => pc = [pc EXCEPT ![r] = "after"]
    OBVIOUS
  <2>2. QED
    BY <2>1 DEF AfterReturns
<1>14. AfterDone(r) => Quiet(r)
  BY DEF AfterDone, Respond, LeaveContext
<1>15. Raise(r) => Quiet(r)
  BY DEF Raise
<1>16. ErrorResponds(r) => Quiet(r)
  BY DEF ErrorResponds, Respond, LeaveContext
<1>17. Prepare(r) => Quiet(r)
  BY DEF Prepare
<1>18. PrepareFallback(r) => Quiet(r)
  BY DEF PrepareFallback
<1>19. QED
  BY <1>1, <1>2, <1>3, <1>4, <1>5, <1>6, <1>7, <1>8, <1>9, <1>10, <1>11, <1>12, <1>13, <1>14, <1>15, <1>16, <1>17, <1>18

LEMMA ContextStep == ASSUME Typed, ContextScoped PROVE [Next]_vars => ContextScoped'
<1> USE DEF Typed, ContextScoped, Handling
<1>1. CASE UNCHANGED vars
  BY <1>1 DEF vars
<1>2. ASSUME NEW r \in Request, Refuse(r) PROVE ContextScoped'
  BY <1>2 DEF Refuse, Respond, LeaveContext
<1>3. ASSUME NEW r \in Request, PassChecks(r) PROVE ContextScoped'
  BY <1>3 DEF PassChecks
<1>4. ASSUME NEW r \in Request, BeforeNone(r) PROVE ContextScoped'
  BY <1>4 DEF BeforeNone
<1>5. ASSUME NEW r \in Request, BeforeValue(r) PROVE ContextScoped'
  BY <1>5 DEF BeforeValue
<1>6. ASSUME NEW r \in Request, BeforeDone(r) PROVE ContextScoped'
  BY <1>6 DEF BeforeDone
<1>7. ASSUME NEW r \in Request, NoMatch(r) PROVE ContextScoped'
  BY <1>7 DEF NoMatch, Respond, LeaveContext
<1>8. ASSUME NEW r \in Request, Match(r) PROVE ContextScoped'
  BY <1>8 DEF Match
<1>9. ASSUME NEW r \in Request, Deny(r) PROVE ContextScoped'
  BY <1>9 DEF Deny, Respond, LeaveContext
<1>10. ASSUME NEW r \in Request, Authorize(r) PROVE ContextScoped'
  BY <1>10 DEF Authorize
<1>11. ASSUME NEW r \in Request, LimitDenies(r) PROVE ContextScoped'
  BY <1>11 DEF LimitDenies
<1>12. ASSUME NEW r \in Request, LimitAllows(r) PROVE ContextScoped'
  BY <1>12 DEF LimitAllows
<1>13. ASSUME NEW r \in Request, EndpointReturns(r) PROVE ContextScoped'
  BY <1>13 DEF EndpointReturns
<1>14. ASSUME NEW r \in Request, AfterReturns(r) PROVE ContextScoped'
  BY <1>14 DEF AfterReturns
<1>15. ASSUME NEW r \in Request, AfterDone(r) PROVE ContextScoped'
  BY <1>15 DEF AfterDone, Respond, LeaveContext
<1>16. ASSUME NEW r \in Request, Raise(r) PROVE ContextScoped'
  BY <1>16 DEF Raise
<1>17. ASSUME NEW r \in Request, ErrorResponds(r) PROVE ContextScoped'
  BY <1>17 DEF ErrorResponds, Respond, LeaveContext
<1>18. ASSUME NEW r \in Request, Prepare(r) PROVE ContextScoped'
  BY <1>18 DEF Prepare
<1>19. ASSUME NEW r \in Request, PrepareFallback(r) PROVE ContextScoped'
  BY <1>19 DEF PrepareFallback
<1>19f. ASSUME NEW r \in Request, FallbackRaises(r) PROVE ContextScoped'
  BY <1>19f DEF FallbackRaises, LeaveGauge
<1>20. ASSUME NEW r \in Request, Begin(r) PROVE ContextScoped'
  BY <1>20 DEF Begin
<1>21. ASSUME NEW r \in Request, ErrorRaises(r) PROVE ContextScoped'
  BY <1>21 DEF ErrorRaises, LeaveContext, LeaveGauge
<1>22. ASSUME NEW r \in Request, SendStart(r) PROVE ContextScoped'
  BY <1>22 DEF SendStart
<1>23. ASSUME NEW r \in Request, SendBody(r) PROVE ContextScoped'
  BY <1>23 DEF SendBody, Finish
<1>24. ASSUME NEW r \in Request, SendFails(r) PROVE ContextScoped'
  BY <1>24 DEF SendFails, Finish
<1>25. ASSUME NEW r \in Request, RunTask(r) PROVE ContextScoped'
  BY <1>25 DEF RunTask
<1>26. ASSUME NEW r \in Request, Cancel(r) PROVE ContextScoped'
  BY <1>26 DEF Cancel, LeaveContext, Awaiting, UserCode
<1>27. ASSUME NEW r \in Request, EditSession(r) PROVE ContextScoped'
  BY <1>27 DEF EditSession
<1>28. QED
  BY <1>1, <1>2, <1>3, <1>4, <1>5, <1>6, <1>7, <1>8, <1>9, <1>10, <1>11, <1>12, <1>13, <1>14, <1>15, <1>16, <1>17, <1>18, <1>19, <1>19f, <1>20, <1>21, <1>22, <1>23, <1>24, <1>25, <1>26, <1>27
     DEF Next, Pipeline
----------------------------------------------------------------------------
\* What a request has tried, delivered and run, by the place its task is at.
\* NoSecondResponse and BackgroundContract are not inductive by themselves: that
\* a head is tried once needs that nothing was tried before "start".
Shape(r) ==
  /\ pc[r] \in Early \cup {"idle"} => attempts[r] = <<>> /\ wire[r] = <<>>
  /\ pc[r] = "body" => attempts[r] = HeadOnly /\ wire[r] = HeadOnly
  /\ pc[r] = "background" => /\ attempts[r] = Whole /\ wire[r] = Whole
                             /\ Len(ran[r]) < response[r].tasks
  /\ attempts[r] \in {<<>>, HeadOnly, Whole}
  /\ wire[r] \in {<<>>, HeadOnly, Whole}
  /\ pc[r] \in Early \cup {"idle", "body"} => ran[r] = <<>>
  /\ ran[r] # <<>> => /\ wire[r] = Whole
                      /\ Len(ran[r]) <= response[r].tasks
                      /\ pc[r] = "done" => Len(ran[r]) = response[r].tasks

Shaped == \A r \in Request : Shape(r)

\* A step of r leaves every other request alone.
Alone(r) ==
  \A q \in Request \ {r} :
    /\ pc'[q] = pc[q] /\ response'[q] = response[q]
    /\ wire'[q] = wire[q] /\ attempts'[q] = attempts[q] /\ ran'[q] = ran[q]

LEMMA AloneKeepsShape ==
  ASSUME Shaped, NEW r \in Request, Alone(r), Shape(r)'
  PROVE  Shaped'
BY DEF Shaped, Shape, Alone

LEMMA Appends ==
  /\ Append(<<>>, "start") = HeadOnly
  /\ Append(HeadOnly, "body") = Whole
<1> DEFINE s == Append(HeadOnly, "body")
<1> USE DEF HeadOnly, Whole
<1>1. Append(<<>>, "start") = HeadOnly
  OBVIOUS
<1>2. HeadOnly \in Seq(Message) /\ Len(HeadOnly) = 1 /\ HeadOnly[1] = "start"
  BY DEF Message
<1>3. s \in Seq(Message) /\ Len(s) = 2 /\ s[1] = "start" /\ s[2] = "body"
  BY <1>2 DEF Message
<1>4. Whole \in Seq(Message) /\ Len(Whole) = 2 /\ Whole[1] = "start" /\ Whole[2] = "body"
  BY DEF Message
<1>5. \A i \in 1..Len(s) : s[i] = Whole[i]
  <2> HIDE DEF s, Whole
  <2>1. \A i \in 1..2 : i = 1 \/ i = 2
    OBVIOUS
  <2>2. QED
    BY <1>3, <1>4, <2>1
<1>6. s = Whole
  <2> HIDE DEF s, Whole
  <2>1. QED
    BY <1>3, <1>4, <1>5, SeqEqual
<1>7. QED
  BY <1>1, <1>6

LEMMA TasksAreNaturals == \A resp \in Response : resp.tasks \in Nat
BY HttpAssumption DEF Response

LEMMA ShapeStep == ASSUME Typed, Shaped PROVE [Next]_vars => Shaped'
<1> USE DEF Typed, Early, Handling
<1>1. CASE UNCHANGED vars
  BY <1>1 DEF vars, Shaped, Shape
<1>2. ASSUME NEW r \in Request, Quiet(r) PROVE Shaped'
  <2>1. Alone(r)
    BY <1>2 DEF Quiet, Alone
  <2>2. Shape(r)'
    <3>1. wire[r] = <<>> /\ attempts[r] = <<>> /\ ran[r] = <<>>
      BY <1>2 DEF Quiet, Shaped, Shape
    <3>2. wire'[r] = <<>> /\ attempts'[r] = <<>> /\ ran'[r] = <<>>
      BY <1>2, <3>1 DEF Quiet
    <3>3. pc'[r] \in Early
      BY <1>2 DEF Quiet
    <3>4. QED
      BY <3>2, <3>3 DEF Shape
  <2>3. QED
    BY <2>1, <2>2, AloneKeepsShape
<1>3. ASSUME NEW r \in Request, Begin(r) \/ ErrorRaises(r) \/ FallbackRaises(r) PROVE Shaped'
  <2>1. Alone(r)
    BY <1>3 DEF Begin, ErrorRaises, FallbackRaises, LeaveContext, Alone
  <2>2. Shape(r)'
    BY <1>3 DEF Begin, ErrorRaises, FallbackRaises, LeaveContext, Shaped, Shape
  <2>3. QED
    BY <2>1, <2>2, AloneKeepsShape
<1>4. ASSUME NEW r \in Request, SendStart(r) PROVE Shaped'
  <2>1. Alone(r)
    BY <1>4 DEF SendStart, Send, Alone
  <2>2. Shape(r)'
    BY <1>4, Appends DEF SendStart, Send, Shaped, Shape, HeadOnly
  <2>3. QED
    BY <2>1, <2>2, AloneKeepsShape
<1>5. ASSUME NEW r \in Request, SendBody(r) PROVE Shaped'
  <2>1. Alone(r)
    BY <1>5 DEF SendBody, Send, Finish, Alone
  <2>2. Shape(r)'
    BY <1>5, Appends, TasksAreNaturals DEF SendBody, Send, Finish, Shaped, Shape
  <2>3. QED
    BY <2>1, <2>2, AloneKeepsShape
<1>6. ASSUME NEW r \in Request, SendFails(r) PROVE Shaped'
  <2>1. Alone(r)
    BY <1>6 DEF SendFails, Send, Finish, Alone
  <2>2. Shape(r)'
    BY <1>6, Appends DEF SendFails, Send, Finish, Shaped, Shape
  <2>3. QED
    BY <2>1, <2>2, AloneKeepsShape
<1>7. ASSUME NEW r \in Request, RunTask(r) PROVE Shaped'
  <2>1. Alone(r)
    BY <1>7 DEF RunTask, Alone
  <2>2. Shape(r)'
    BY <1>7, TasksAreNaturals DEF RunTask, Shaped, Shape
  <2>3. QED
    BY <2>1, <2>2, AloneKeepsShape
<1>8. ASSUME NEW r \in Request, Cancel(r) PROVE Shaped'
  <2>1. Alone(r)
    BY <1>8 DEF Cancel, Send, LeaveContext, Alone
  <2>2. Shape(r)'
    <3>1. CASE pc[r] \in {"start", "body"}
      <4>1. PICK got \in BOOLEAN : Send(r, pc[r], got)
        BY <1>8, <3>1 DEF Cancel
      <4>2. /\ wire[r] = attempts[r] /\ ran[r] = <<>>
            /\ Append(wire[r], pc[r]) \in {HeadOnly, Whole}
        BY <3>1, Appends DEF Shaped, Shape
      <4>3. attempts'[r] = Append(wire[r], pc[r])
        BY <4>1, <4>2 DEF Send
      <4>4. wire'[r] = Append(wire[r], pc[r]) \/ wire'[r] = wire[r]
        BY <4>1 DEF Send
      <4>5. pc'[r] = "cancelled" /\ ran'[r] = <<>>
        BY <1>8, <4>2 DEF Cancel
      <4>6. wire[r] \in {<<>>, HeadOnly, Whole}
        BY DEF Shaped, Shape
      <4>7. QED
        BY <4>2, <4>3, <4>4, <4>5, <4>6 DEF Shape
    <3>2. CASE pc[r] \notin {"start", "body"}
      BY <1>8, <3>2 DEF Cancel, Awaiting, UserCode, LeaveContext, Shaped, Shape
    <3>3. QED
      BY <3>1, <3>2
  <2>3. QED
    BY <2>1, <2>2, AloneKeepsShape
<1>9. ASSUME NEW r \in Request, EditSession(r) PROVE Shaped'
  BY <1>9 DEF EditSession, Shaped, Shape
<1>10. QED
  BY <1>1, <1>2, <1>3, <1>4, <1>5, <1>6, <1>7, <1>8, <1>9, QuietSteps DEF Next, Pipeline

----------------------------------------------------------------------------
\* The gauge counts the instrumented requests in flight.
Flying == {r \in Request : metered[r] /\ InFlight(r)}

LEMMA FlyingIsFinite == IsFiniteSet(Flying) /\ IsFiniteSet(Flying)'
<1>1. Flying \subseteq Request /\ Flying' \subseteq Request
  BY DEF Flying
<1>2. QED
  BY <1>1, HttpAssumption, FS_Subset

\* A step that begins and ends no request keeps the count.
LEMMA GaugeKept ==
  ASSUME Typed, GaugeExact, metered' = metered, active' = active,
         \A r \in Request : InFlight(r)' <=> InFlight(r)
  PROVE  GaugeExact'
<1>1. Flying' = Flying
  BY DEF Flying
<1>2. QED
  BY <1>1 DEF GaugeExact, Flying

\* A step that ends an instrumented request takes one off it.
LEMMA GaugeLeft ==
  ASSUME Typed, GaugeExact, NEW r \in Request, InFlight(r), metered' = metered,
         NEW s \in Closed, pc' = [pc EXCEPT ![r] = s], LeaveGauge(r)
  PROVE  GaugeExact'
<1> USE DEF Typed, Closed
<1>1. \A q \in Request : InFlight(q)' <=> InFlight(q) /\ q # r
  BY DEF InFlight
<1>2. CASE metered[r]
  <2>1. r \in Flying
    BY <1>2 DEF Flying
  <2>2. Flying' = Flying \ {r}
    BY <1>1 DEF Flying
  <2>3. Cardinality(Flying') = Cardinality(Flying) - 1
    BY <2>1, <2>2, FlyingIsFinite, FS_RemoveElement
  <2>4. active' = active - 1
    BY <1>2 DEF LeaveGauge
  <2>5. QED
    BY <2>3, <2>4 DEF GaugeExact, Flying
<1>3. CASE ~metered[r]
  <2>1. Flying' = Flying
    BY <1>1, <1>3 DEF Flying
  <2>2. QED
    BY <2>1, <1>3 DEF GaugeExact, Flying, LeaveGauge
<1>4. QED
  BY <1>2, <1>3

LEMMA GaugeStep == ASSUME Typed, GaugeExact PROVE [Next]_vars => GaugeExact'
<1> USE DEF Typed
<1>1. CASE UNCHANGED vars
  BY <1>1, GaugeKept DEF vars, InFlight
<1>2. ASSUME NEW r \in Request, Quiet(r) PROVE GaugeExact'
  <2>1. \A q \in Request : InFlight(q)' <=> InFlight(q)
    BY <1>2 DEF Quiet, Early, Handling, InFlight, Closed
  <2>2. QED
    BY <1>2, <2>1, GaugeKept DEF Quiet
<1>3. ASSUME NEW r \in Request, SendStart(r) \/ EditSession(r) PROVE GaugeExact'
  <2>1. \A q \in Request : InFlight(q)' <=> InFlight(q)
    BY <1>3 DEF SendStart, EditSession, InFlight, Closed
  <2>2. QED
    BY <1>3, <2>1, GaugeKept DEF SendStart, EditSession
<1>4. ASSUME NEW r \in Request, Begin(r) PROVE GaugeExact'
  <2>1. PICK m \in {FALSE, MetricsEnabled} :
          /\ metered' = [metered EXCEPT ![r] = m]
          /\ active' = IF m THEN active + 1 ELSE active
    BY <1>4 DEF Begin
  <2>2. \A q \in Request : InFlight(q)' <=> InFlight(q) \/ q = r
    BY <1>4 DEF Begin, InFlight, Closed
  <2>3. r \notin Flying
    BY <1>4 DEF Begin, Flying, InFlight
  <2>4. CASE m
    <3>1. Flying' = Flying \cup {r}
      BY <2>1, <2>2, <2>4 DEF Flying
    <3>2. Cardinality(Flying') = Cardinality(Flying) + 1
      BY <2>3, <3>1, FlyingIsFinite, FS_AddElement
    <3>3. QED
      BY <2>1, <2>4, <3>2 DEF GaugeExact, Flying
  <2>5. CASE ~m
    <3>1. Flying' = Flying
      BY <2>1, <2>2, <2>3, <2>5 DEF Flying
    <3>2. QED
      BY <2>1, <2>5, <3>1 DEF GaugeExact, Flying
  <2>6. QED
    BY <2>4, <2>5
<1>5. ASSUME NEW r \in Request, ErrorRaises(r) \/ FallbackRaises(r) PROVE GaugeExact'
  <2>1. InFlight(r)
    BY <1>5 DEF ErrorRaises, FallbackRaises, InFlight, Closed
  <2>2. QED
    BY <1>5, <2>1, GaugeLeft DEF ErrorRaises, FallbackRaises, Closed
<1>6. ASSUME NEW r \in Request, Cancel(r) PROVE GaugeExact'
  <2>1. InFlight(r)
    BY <1>6 DEF Cancel, Awaiting, UserCode, InFlight, Closed
  <2>2. QED
    BY <1>6, <2>1, GaugeLeft DEF Cancel, Closed
<1>7. ASSUME NEW r \in Request, NEW sent \in BOOLEAN, Finish(r, sent),
             pc[r] \in {"start", "body"}, metered' = metered
      PROVE  GaugeExact'
  <2>1. InFlight(r)
    BY <1>7 DEF InFlight, Closed
  <2>2. CASE pc' = [pc EXCEPT ![r] = "background"] /\ UNCHANGED active
    <3>1. \A q \in Request : InFlight(q)' <=> InFlight(q)
      BY <2>1, <2>2 DEF InFlight, Closed
    <3>2. QED
      BY <1>7, <2>2, <3>1, GaugeKept
  <2>3. CASE pc' = [pc EXCEPT ![r] = "done"] /\ LeaveGauge(r)
    BY <1>7, <2>1, <2>3, GaugeLeft DEF Closed
  <2>4. QED
    BY <1>7, <2>2, <2>3 DEF Finish
<1>8. ASSUME NEW r \in Request, SendBody(r) \/ SendFails(r) PROVE GaugeExact'
  BY <1>7, <1>8 DEF SendBody, SendFails
<1>9. ASSUME NEW r \in Request, RunTask(r) PROVE GaugeExact'
  <2>1. InFlight(r) /\ metered' = metered
    BY <1>9 DEF RunTask, InFlight, Closed
  <2>2. CASE pc' = [pc EXCEPT ![r] = "done"] /\ LeaveGauge(r)
    BY <2>1, <2>2, GaugeLeft DEF Closed
  <2>3. CASE UNCHANGED <<pc, active>>
    BY <2>1, <2>3, GaugeKept DEF InFlight
  <2>4. QED
    BY <1>9, <2>2, <2>3 DEF RunTask
<1>10. QED
  BY <1>1, <1>2, <1>3, <1>4, <1>5, <1>6, <1>8, <1>9, QuietSteps DEF Next, Pipeline
----------------------------------------------------------------------------
\* A cookie is in the response only if the session was edited, and was signed.
CookieEarned ==
  \A r \in Request : cookie[r] # NoCookie =>
    session[r].modified /\ cookie[r] # Unserial /\ pc[r] # "idle"

LEMMA CookieStep == ASSUME Typed, CookieEarned PROVE [Next]_vars => CookieEarned'
<1> USE DEF Typed, CookieEarned
<1>1. CASE UNCHANGED vars
  BY <1>1 DEF vars
<1>2. ASSUME NEW r \in Request, Begin(r) PROVE CookieEarned'
  BY <1>2 DEF Begin
<1>3. ASSUME NEW r \in Request, Quiet(r), UNCHANGED <<session, cookie>> PROVE CookieEarned'
  BY <1>3 DEF Quiet, Early, Handling
<1>4. ASSUME NEW r \in Request, Prepare(r) PROVE CookieEarned'
  BY <1>4 DEF Prepare, SessionCookie
<1>5. ASSUME NEW r \in Request, ErrorRaises(r) \/ FallbackRaises(r) PROVE CookieEarned'
  BY <1>5 DEF ErrorRaises, FallbackRaises
<1>6. ASSUME NEW r \in Request, SendStart(r) \/ SendBody(r) \/ SendFails(r) PROVE CookieEarned'
  <2>1. UNCHANGED <<session, cookie>>
    BY <1>6 DEF SendStart, SendBody, SendFails
  <2>2. \A q \in Request : pc[q] # "idle" => pc'[q] # "idle"
    <3>1. PICK s \in {"body", "background", "done"} : pc' = [pc EXCEPT ![r] = s]
      BY <1>6, Zenon DEF SendStart, SendBody, SendFails, Finish
    <3>2. QED
      BY <3>1
  <2>3. QED
    BY <2>1, <2>2
<1>7. ASSUME NEW r \in Request, RunTask(r) PROVE CookieEarned'
  BY <1>7 DEF RunTask
<1>8. ASSUME NEW r \in Request, Cancel(r) PROVE CookieEarned'
  BY <1>8 DEF Cancel
<1>9. ASSUME NEW r \in Request, EditSession(r) PROVE CookieEarned'
  BY <1>9 DEF EditSession, Session
<1>10. ASSUME NEW r \in Request, Pipeline(r) PROVE CookieEarned'
  <2>1. CASE \/ Refuse(r) \/ PassChecks(r) \/ BeforeNone(r) \/ BeforeValue(r)
             \/ BeforeDone(r) \/ NoMatch(r) \/ Match(r) \/ Deny(r) \/ Authorize(r)
             \/ LimitDenies(r) \/ LimitAllows(r) \/ EndpointReturns(r)
             \/ AfterReturns(r) \/ AfterDone(r) \/ Raise(r) \/ ErrorResponds(r)
             \/ PrepareFallback(r)
    <3>1. UNCHANGED <<session, cookie>>
      BY <2>1 DEF Refuse, PassChecks, BeforeNone, BeforeValue, BeforeDone, NoMatch, Match,
         Deny, Authorize, LimitDenies, LimitAllows, EndpointReturns, AfterReturns,
         AfterDone, Raise, ErrorResponds, PrepareFallback
    <3>2. Quiet(r)
      BY <2>1, QuietSteps
    <3>3. QED
      BY <1>3, <3>1, <3>2
  <2>2. QED
    BY <1>2, <1>4, <1>5, <1>6, <1>7, <1>10, <2>1 DEF Pipeline
<1>11. QED
  BY <1>1, <1>8, <1>9, <1>10 DEF Next

----------------------------------------------------------------------------
(* The gates a request passed are those before the stage it is in.           *)
Gated(r) ==
  /\ pc[r] = "before" => "checks" \in passed[r]
  /\ pc[r] \in {"match", "authorize"} => {"checks", "before"} \subseteq passed[r]
  /\ pc[r] = "limit" => {"checks", "before", "authorized"} \subseteq passed[r]
  /\ pc[r] = "endpoint" => passed[r] = Gate
  /\ "quota" \in passed[r] => {"checks", "before", "authorized"} \subseteq passed[r]

AllGated == \A r \in Request : Gated(r)

\* A step of r that stays where it is, or goes where no gate is asked for.
Ungated(r) ==
  /\ passed' = passed
  /\ \A q \in Request \ {r} : pc'[q] = pc[q]
  /\ pc'[r] = pc[r] \/ pc'[r] \notin {"before", "match", "authorize", "limit", "endpoint"}

LEMMA GateStep == ASSUME Typed, AllGated PROVE [Next]_vars => AllGated'
<1> USE DEF Typed
<1>1. CASE UNCHANGED vars
  BY <1>1 DEF vars, AllGated, Gated
<1>2. ASSUME NEW r \in Request, Ungated(r) PROVE AllGated'
  BY <1>2 DEF Ungated, AllGated, Gated
<1>3. ASSUME NEW r \in Request,
             Begin(r) \/ Refuse(r) \/ BeforeNone(r) \/ BeforeValue(r)
             \/ NoMatch(r) \/ Deny(r) \/ LimitDenies(r) \/ EndpointReturns(r)
             \/ AfterReturns(r) \/ AfterDone(r)
      PROVE  Ungated(r)
  BY <1>3 DEF Begin, Refuse, BeforeNone, BeforeValue, NoMatch, Deny, LimitDenies,
              EndpointReturns, AfterReturns, AfterDone, Respond, Ungated
<1>4. ASSUME NEW r \in Request,
             Raise(r) \/ ErrorResponds(r) \/ ErrorRaises(r) \/ Prepare(r)
             \/ PrepareFallback(r) \/ FallbackRaises(r) \/ EditSession(r)
      PROVE  Ungated(r)
  BY <1>4 DEF Raise, ErrorResponds, ErrorRaises, Prepare, PrepareFallback, FallbackRaises,
              EditSession, Respond, Ungated
<1>5. ASSUME NEW r \in Request,
             SendStart(r) \/ SendBody(r) \/ SendFails(r) \/ RunTask(r) \/ Cancel(r)
      PROVE  Ungated(r)
  BY <1>5 DEF SendStart, SendBody, SendFails, RunTask, Cancel, Finish, Send, Ungated
<1>6. ASSUME NEW r \in Request,
             PassChecks(r) \/ BeforeDone(r) \/ Match(r) \/ Authorize(r) \/ LimitAllows(r)
      PROVE  AllGated'
  <2>1. \A q \in Request \ {r} : pc'[q] = pc[q] /\ passed'[q] = passed[q]
    BY <1>6 DEF PassChecks, BeforeDone, Match, Authorize, LimitAllows
  <2>2. CASE PassChecks(r)
    <3>1. pc'[r] = "before" /\ passed'[r] = passed[r] \cup {"checks"}
      BY <2>2 DEF PassChecks
    <3>2. Gated(r)'
      BY <3>1 DEF Gated, AllGated
    <3> QED
      BY <2>1, <3>2 DEF Gated, AllGated
  <2>3. CASE BeforeDone(r)
    <3>1. pc[r] = "before" /\ pc'[r] = "match" /\ passed'[r] = passed[r] \cup {"before"}
      BY <2>3 DEF BeforeDone
    <3>2. Gated(r)'
      BY <3>1 DEF Gated, AllGated
    <3> QED
      BY <2>1, <3>2 DEF Gated, AllGated
  <2>4. CASE Match(r)
    <3>1. pc[r] = "match" /\ pc'[r] = "authorize" /\ passed'[r] = passed[r]
      BY <2>4 DEF Match
    <3>2. Gated(r)'
      BY <3>1 DEF Gated, AllGated
    <3> QED
      BY <2>1, <3>2 DEF Gated, AllGated
  <2>5. CASE Authorize(r)
    <3>1. /\ pc[r] = "authorize" /\ pc'[r] = "limit"
          /\ passed'[r] = passed[r] \cup {"authorized"}
      BY <2>5 DEF Authorize
    <3>2. Gated(r)'
      BY <3>1 DEF Gated, AllGated
    <3> QED
      BY <2>1, <3>2 DEF Gated, AllGated
  <2>6. CASE LimitAllows(r)
    <3>1. /\ pc[r] = "limit" /\ pc'[r] = "endpoint"
          /\ passed'[r] = passed[r] \cup {"quota"} /\ passed[r] \subseteq Gate
      BY <2>6 DEF LimitAllows
    <3>2. Gated(r)'
      BY <3>1 DEF Gated, AllGated, Gate
    <3> QED
      BY <2>1, <3>2 DEF Gated, AllGated
  <2> QED
    BY <1>6, <2>2, <2>3, <2>4, <2>5, <2>6
<1>7. QED
  BY <1>1, <1>2, <1>3, <1>4, <1>5, <1>6 DEF Next, Pipeline

----------------------------------------------------------------------------
\* The inductive invariant: typing, the context, the shape of the output, the
\* gauge, the cookies and the gates.
Inv == Typed /\ ContextScoped /\ Shaped /\ GaugeExact /\ CookieEarned /\ AllGated

LEMMA InitInv == Init => Inv
<1> SUFFICES ASSUME Init PROVE Inv
  OBVIOUS
<1> USE DEF Init
<1>1. Typed
  BY HttpAssumption, StageFacts, ValueFacts DEF Typed, Session, Outcome
<1>2. ContextScoped
  BY DEF ContextScoped, Handling
<1>3. Shaped
  BY DEF Shaped, Shape, Early, Handling
<1>4. GaugeExact
  <2>1. Flying = {}
    BY DEF Flying
  <2>2. QED
    BY <2>1, FS_EmptySet DEF GaugeExact, Flying
<1>5. CookieEarned
  BY DEF CookieEarned
<1>6. AllGated
  BY DEF AllGated, Gated
<1>7. QED
  BY <1>1, <1>2, <1>3, <1>4, <1>5, <1>6 DEF Inv

LEMMA Invariance == Spec => []Inv
<1>1. Inv /\ [Next]_vars => Inv'
  BY TypedStep, ContextStep, ShapeStep, GaugeStep, CookieStep, GateStep DEF Inv
<1>2. QED
  BY InitInv, <1>1, PTL DEF Spec

\* Every variable keeps its type; the gauge in particular is never negative.
THEOREM TypeCorrect == Spec => []TypeOK
<1>1. Inv => TypeOK
  <2>1. GaugeExact => active \in Nat
    BY FlyingIsFinite, FS_CardinalityType DEF GaugeExact, Flying
  <2>2. QED
    BY <2>1 DEF Inv, Typed, TypeOK
<1>2. QED
  BY <1>1, Invariance, PTL

\* No failure of the application, of the preparation or of the server makes a
\* request try a second response (app.py 222-239).
THEOREM OneResponse == Spec => []NoSecondResponse
<1>1. Inv => NoSecondResponse
  BY DEF Inv, Shaped, Shape, NoSecondResponse
<1>2. QED
  BY <1>1, Invariance, PTL

\* Background tasks run after the whole response was taken, and all of them when
\* the request ends normally (app.py 263-267, background.py 45-62).
THEOREM BackgroundLast == Spec => []BackgroundContract
<1>1. Inv => BackgroundContract
  BY DEF Inv, Shaped, Shape, BackgroundContract
<1>2. QED
  BY <1>1, Invariance, PTL

\* The gauge of active requests counts exactly those in flight (app.py 205, 270).
THEOREM GaugeCorrect == Spec => []GaugeExact
<1>1. Inv => GaugeExact
  BY DEF Inv
<1>2. QED
  BY <1>1, Invariance, PTL

\* No context variable outlives the handling of its request (app.py 217-220).
THEOREM ContextCorrect == Spec => []ContextScoped
<1>1. Inv => ContextScoped
  BY DEF Inv
<1>2. QED
  BY <1>1, Invariance, PTL

\* The endpoint runs and the quota is spent only after every gate before them
\* (app.py 894-961), in whatever way earlier stages failed.
THEOREM EndpointIsGated == Spec => []EndpointGated
<1>1. Inv => EndpointGated
  BY DEF Inv, AllGated, Gated, EndpointGated
<1>2. QED
  BY <1>1, Invariance, PTL

\* A browser's session changes only by the head of a request that edited it
\* (app.py 1051-1077): a slow reader never puts an older session back.
THEOREM SessionsFromEditors == Spec => JarFromEditors
<1> DEFINE Kept == \A b \in Browser :
       jar'[b] # jar[b] =>
         /\ jar'[b] # Unserial
         /\ \E r \in Request : /\ From[r] = b
                              /\ session[r].modified
                              /\ wire'[r] = HeadOnly /\ wire[r] = <<>>
<1>1. ASSUME Inv, NEW r \in Request, NEW m \in Message, NEW got \in BOOLEAN,
             Send(r, m, got), pc[r] = m
      PROVE  Kept
  <2> SUFFICES ASSUME NEW b \in Browser, jar'[b] # jar[b]
               PROVE  /\ jar'[b] # Unserial
                      /\ From[r] = b
                      /\ session[r].modified
                      /\ wire'[r] = HeadOnly /\ wire[r] = <<>>
    OBVIOUS
  <2>1. got /\ m = "start" /\ cookie[r] # NoCookie /\ jar' = [jar EXCEPT ![From[r]] = cookie[r]]
    BY <1>1 DEF Send
  <2>2. From[r] = b /\ jar'[b] = cookie[r]
    BY <2>1 DEF Inv, Typed
  <2>3. session[r].modified /\ cookie[r] # Unserial
    BY <1>1, <2>1, Zenon DEF Inv, CookieEarned
  <2>4. wire[r] = <<>>
    BY <1>1, <2>1 DEF Inv, Shaped, Shape, Early
  <2>5. wire'[r] = HeadOnly
    BY <1>1, <2>1, <2>4, Appends DEF Send, Inv, Typed
  <2>6. QED
    BY <2>2, <2>3, <2>4, <2>5
<1>2. ASSUME Inv, NEW r \in Request, Pipeline(r) PROVE jar' = jar \/ Kept
  <2>1. CASE SendStart(r)
    BY <1>1, <2>1, <1>2 DEF SendStart, Message
  <2>2. CASE SendBody(r)
    BY <1>1, <2>2, <1>2 DEF SendBody, Message
  <2>3. CASE SendFails(r)
    <3>1. PICK got \in BOOLEAN : Send(r, pc[r], got)
      BY <2>3 DEF SendFails
    <3>2. pc[r] \in Message
      BY <2>3 DEF SendFails, Message
    <3>3. QED
      BY <1>1, <1>2, <3>1, <3>2
  <2>4. CASE \/ Begin(r) \/ Refuse(r) \/ PassChecks(r) \/ BeforeNone(r) \/ BeforeValue(r)
             \/ BeforeDone(r) \/ NoMatch(r) \/ Match(r) \/ Deny(r) \/ Authorize(r)
             \/ LimitDenies(r) \/ LimitAllows(r) \/ EndpointReturns(r)
             \/ AfterReturns(r) \/ AfterDone(r) \/ Raise(r) \/ ErrorResponds(r)
             \/ ErrorRaises(r) \/ Prepare(r) \/ PrepareFallback(r) \/ FallbackRaises(r)
             \/ RunTask(r)
    BY <2>4 DEF Begin, Refuse, PassChecks, BeforeNone, BeforeValue, BeforeDone, NoMatch,
       Match, Deny, Authorize, LimitDenies, LimitAllows, EndpointReturns, AfterReturns,
       AfterDone, Raise, ErrorResponds, ErrorRaises, Prepare, PrepareFallback, FallbackRaises,
       RunTask
  <2>5. QED
    BY <1>2, <2>1, <2>2, <2>3, <2>4 DEF Pipeline
<1>3. ASSUME Inv, NEW r \in Request, Cancel(r) PROVE jar' = jar \/ Kept
  <2>1. CASE pc[r] \in {"start", "body"}
    <3>1. PICK got \in BOOLEAN : Send(r, pc[r], got)
      BY <1>3, <2>1 DEF Cancel
    <3>2. QED
      BY <1>1, <1>3, <2>1, <3>1 DEF Message
  <2>2. CASE pc[r] \notin {"start", "body"}
    BY <1>3, <2>2 DEF Cancel
  <2>3. QED
    BY <2>1, <2>2
<1>4. Inv /\ [Next]_vars => [Kept]_vars
  <2>1. ASSUME NEW r \in Request, EditSession(r) PROVE jar' = jar
    BY <2>1 DEF EditSession
  <2>2. jar' = jar => Kept
    OBVIOUS
  <2> HIDE DEF Kept
  <2>3. QED
    BY <1>2, <1>3, <2>1, <2>2 DEF Next
<1>5. QED
  BY <1>4, Invariance, PTL DEF Spec, JarFromEditors
----------------------------------------------------------------------------
\* The refinement: every step of Http is a step of HttpExchange or a stutter.
LEMMA Stutters ==
  ASSUME Typed, UNCHANGED <<wire, ran>>,
         \A r \in Request : ExchangeState'[r] = ExchangeState[r]
  PROVE  UNCHANGED Exchange!vars
<1>1. ExchangeState' = ExchangeState
  BY DEF ExchangeState
<1>2. ExchangeWork' = ExchangeWork
  BY DEF ExchangeWork
<1>3. QED
  BY <1>1, <1>2 DEF Exchange!vars

\* A step that keeps the request open or ends it, and appends at most one
\* message that is due.
LEMMA Emits ==
  ASSUME Typed, NEW r \in Request, pc[r] \notin Closed \cup {"idle"},
         NEW s \in Stage \ {"idle"}, pc' = [pc EXCEPT ![r] = s], ran' = ran,
         \/ wire' = wire
         \/ wire[r] = <<>> /\ wire' = [wire EXCEPT ![r] = HeadOnly]
         \/ wire[r] = HeadOnly /\ wire' = [wire EXCEPT ![r] = Whole]
  PROVE  Exchange!Emit(r)
<1> USE DEF Typed
<1>1. ExchangeState[r] = "open"
  BY DEF ExchangeState
<1>2. \E t \in {"open", "closed"} : ExchangeState' = [ExchangeState EXCEPT ![r] = t]
  <2>1. CASE s \in Closed
    BY <2>1 DEF ExchangeState, Closed
  <2>2. CASE s \notin Closed
    BY <2>2, <1>1 DEF ExchangeState, Closed
  <2>3. QED
    BY <2>1, <2>2
<1>3. ExchangeWork' = ExchangeWork
  BY DEF ExchangeWork
<1>4. Len(<<>>) = 0 /\ Len(HeadOnly) = 1 /\ Len(Whole) = 2
  BY DEF HeadOnly, Whole
<1>5. \E w \in {wire[r], HeadOnly, Whole} :
        /\ w = wire[r] \/ Len(w) = Len(wire[r]) + 1
        /\ wire' = [wire EXCEPT ![r] = w]
  <2>1. CASE wire' = wire
    <3>1. wire' = [wire EXCEPT ![r] = wire[r]]
      BY <2>1
    <3>2. QED
      BY <3>1
  <2>2. CASE wire[r] = <<>> /\ wire' = [wire EXCEPT ![r] = HeadOnly]
    BY <1>4, <2>2
  <2>3. CASE wire[r] = HeadOnly /\ wire' = [wire EXCEPT ![r] = Whole]
    <3>1. Len(wire[r]) = 1
      BY <1>4, <2>3, Zenon
    <3>2. Len(Whole) = Len(wire[r]) + 1
      BY <1>4, <3>1
    <3>3. QED
      BY <2>3, <3>2
  <2>4. QED
    BY <2>1, <2>2, <2>3
<1>6. QED
  BY <1>1, <1>2, <1>3, <1>5 DEF Exchange!Emit, Exchange!HeadOnly, Exchange!Whole, HeadOnly, Whole

\* What a send adds to the wire.
LEMMA SendAppends ==
  ASSUME Inv, NEW r \in Request, NEW got \in BOOLEAN, pc[r] \in {"start", "body"},
         Send(r, pc[r], got)
  PROVE  \/ wire' = wire
         \/ wire[r] = <<>> /\ wire' = [wire EXCEPT ![r] = HeadOnly]
         \/ wire[r] = HeadOnly /\ wire' = [wire EXCEPT ![r] = Whole]
<1>1. CASE pc[r] = "start"
  BY <1>1, Appends DEF Inv, Shaped, Shape, Early, Send
<1>2. CASE pc[r] = "body"
  BY <1>2, Appends DEF Inv, Shaped, Shape, Send
<1>3. QED
  BY <1>1, <1>2

LEMMA ExchangeStep == ASSUME Inv PROVE [Next]_vars => [Exchange!Next]_(Exchange!vars)
<1> USE StageFacts DEF Inv, Typed
<1>1. CASE UNCHANGED vars
  BY <1>1, Stutters DEF vars, ExchangeState
<1>2. ASSUME NEW r \in Request, Quiet(r) PROVE UNCHANGED Exchange!vars
  <2>1. \A q \in Request : ExchangeState'[q] = ExchangeState[q]
    BY <1>2 DEF Quiet, Early, Handling, ExchangeState, Closed
  <2>2. QED
    BY <1>2, <2>1, Stutters DEF Quiet
<1>3. ASSUME NEW r \in Request, EditSession(r) PROVE UNCHANGED Exchange!vars
  BY <1>3, Stutters DEF EditSession, ExchangeState
<1>4. ASSUME NEW r \in Request, Begin(r) PROVE Exchange!Open(r)
  <2>1. ExchangeState[r] = "idle" /\ ExchangeState' = [ExchangeState EXCEPT ![r] = "open"]
    BY <1>4 DEF Begin, ExchangeState, Closed
  <2>2. wire' = wire /\ ExchangeWork' = ExchangeWork
    BY <1>4 DEF Begin, ExchangeWork
  <2>3. QED
    BY <2>1, <2>2 DEF Exchange!Open
<1>5. ASSUME NEW r \in Request, ErrorRaises(r) \/ FallbackRaises(r) PROVE Exchange!Emit(r)
  BY <1>5, Emits DEF ErrorRaises, FallbackRaises, Closed
<1>6. ASSUME NEW r \in Request, SendStart(r) PROVE Exchange!Emit(r)
  <2>1. Send(r, pc[r], TRUE) /\ pc[r] = "start"
    BY <1>6 DEF SendStart
  <2>2. pc' = [pc EXCEPT ![r] = "body"] /\ ran' = ran
    BY <1>6 DEF SendStart
  <2>3. QED
    BY <2>1, <2>2, SendAppends, Emits DEF Closed
<1>7. ASSUME NEW r \in Request, SendBody(r) \/ SendFails(r) PROVE Exchange!Emit(r)
  <2>1. PICK got \in BOOLEAN : Send(r, pc[r], got)
    BY <1>7 DEF SendBody, SendFails
  <2>2. PICK s \in {"background", "done"} : pc' = [pc EXCEPT ![r] = s]
    BY <1>7, Zenon DEF SendBody, SendFails, Finish
  <2>3. pc[r] \in {"start", "body"} /\ ran' = ran
    BY <1>7 DEF SendBody, SendFails
  <2>4. QED
    BY <2>1, <2>2, <2>3, SendAppends, Emits DEF Closed
<1>8. ASSUME NEW r \in Request, Cancel(r) PROVE Exchange!Emit(r)
  <2>1. pc[r] \notin Closed \cup {"idle"} /\ ran' = ran /\ pc' = [pc EXCEPT ![r] = "cancelled"]
    BY <1>8 DEF Cancel, Awaiting, UserCode, Closed
  <2>2. CASE pc[r] \in {"start", "body"}
    <3>1. PICK got \in BOOLEAN : Send(r, pc[r], got)
      BY <1>8, <2>2 DEF Cancel
    <3>2. QED
      BY <2>1, <2>2, <3>1, SendAppends, Emits
  <2>3. CASE pc[r] \notin {"start", "body"}
    <3>1. wire' = wire
      BY <1>8, <2>3 DEF Cancel
    <3>2. QED
      BY <2>1, <3>1, Emits
  <2>4. QED
    BY <2>2, <2>3
<1>9. ASSUME NEW r \in Request, RunTask(r) PROVE Exchange!Work(r)
  <2>1. ExchangeState[r] = "open" /\ wire[r] = Whole /\ wire' = wire
    BY <1>9 DEF RunTask, ExchangeState, Closed, Shaped, Shape
  <2>2. PICK s \in {"background", "done"} : pc' = [pc EXCEPT ![r] = s]
    BY <1>9 DEF RunTask
  <2>3. \E t \in {"open", "closed"} : ExchangeState' = [ExchangeState EXCEPT ![r] = t]
    BY <2>1, <2>2 DEF ExchangeState, Closed
  <2>4. PICK o \in Outcome : ran' = [ran EXCEPT ![r] = Append(@, o)]
    BY <1>9 DEF RunTask
  <2>5. ExchangeWork' = [ExchangeWork EXCEPT ![r] = @ + 1]
    <3>1. Len(Append(ran[r], o)) = Len(ran[r]) + 1
      OBVIOUS
    <3>2. \A q \in Request : ExchangeWork'[q] = IF q = r THEN Len(ran[q]) + 1 ELSE Len(ran[q])
      BY <2>4, <3>1 DEF ExchangeWork
    <3>3. QED
      BY <3>2 DEF ExchangeWork
  <2>6. QED
    BY <2>1, <2>3, <2>5 DEF Exchange!Work, Exchange!Whole, Whole
<1>10. QED
  BY <1>1, <1>2, <1>3, <1>4, <1>5, <1>6, <1>7, <1>8, <1>9, QuietSteps
     DEF Next, Pipeline, Exchange!Next

\* Http implements HttpExchange.
THEOREM Implementation == Spec => ImplementsExchange
<1>1. Init => Exchange!Init
  BY DEF Init, Exchange!Init, ExchangeState, ExchangeWork
<1>2. QED
  BY <1>1, ExchangeStep, Invariance, PTL DEF Spec, ImplementsExchange, Exchange!Spec

----------------------------------------------------------------------------
(* Why a request ends: Answered, which TLC checks, holds because no step     *)
(* brings a request back.  Only the lists of middlewares and tasks are       *)
(* walked in place, and each is walked once.                                 *)

\* The steps r has before it at most, by its place and what is left of the list
\* it walks.
Ahead(r) ==
  CASE pc[r] = "idle"       -> MaxTasks + NAfter + NBefore + 13
    [] pc[r] = "checks"     -> MaxTasks + NAfter + NBefore + 12
    [] pc[r] = "before"     -> MaxTasks + NAfter + 11 + (NBefore - step[r])
    [] pc[r] = "match"      -> MaxTasks + NAfter + 10
    [] pc[r] = "authorize"  -> MaxTasks + NAfter + 9
    [] pc[r] = "limit"      -> MaxTasks + NAfter + 8
    [] pc[r] = "endpoint"   -> MaxTasks + NAfter + 7
    [] pc[r] = "after"      -> MaxTasks + 6 + (NAfter - step[r])
    [] pc[r] = "error"      -> MaxTasks + 5
    [] pc[r] = "prepare"    -> MaxTasks + 4
    [] pc[r] = "start"      -> MaxTasks + 3
    [] pc[r] = "body"       -> MaxTasks + 2
    [] pc[r] = "background" -> (MaxTasks - Len(ran[r])) + 1
    [] OTHER                -> 0

\* A list of middlewares is walked to its end and no further.
Walked(r) ==
  /\ pc[r] = "before" => step[r] <= NBefore
  /\ pc[r] = "after" => step[r] <= NAfter

AllWalked == \A r \in Request : Walked(r)

\* A step of r that changes where r is brings it nearer to its end, and no
\* further than its end, whatever it is that happens.
Nearer(r) == Walked(r)' /\ Ahead(r)' < Ahead(r)

\* The same, place by place.
AheadIs(r) ==
  /\ pc[r] = "idle" => Ahead(r) = MaxTasks + NAfter + NBefore + 13
  /\ pc[r] = "checks" => Ahead(r) = MaxTasks + NAfter + NBefore + 12
  /\ pc[r] = "before" => Ahead(r) = MaxTasks + NAfter + 11 + (NBefore - step[r])
  /\ pc[r] = "match" => Ahead(r) = MaxTasks + NAfter + 10
  /\ pc[r] = "authorize" => Ahead(r) = MaxTasks + NAfter + 9
  /\ pc[r] = "limit" => Ahead(r) = MaxTasks + NAfter + 8
  /\ pc[r] = "endpoint" => Ahead(r) = MaxTasks + NAfter + 7
  /\ pc[r] = "after" => Ahead(r) = MaxTasks + 6 + (NAfter - step[r])
  /\ pc[r] = "error" => Ahead(r) = MaxTasks + 5
  /\ pc[r] = "prepare" => Ahead(r) = MaxTasks + 4
  /\ pc[r] = "start" => Ahead(r) = MaxTasks + 3
  /\ pc[r] = "body" => Ahead(r) = MaxTasks + 2
  /\ pc[r] = "background" => Ahead(r) = (MaxTasks - Len(ran[r])) + 1
  /\ pc[r] \in Closed => Ahead(r) = 0

LEMMA AheadAt == \A r \in Request : AheadIs(r) /\ AheadIs(r)'
<1> SUFFICES ASSUME NEW r \in Request PROVE AheadIs(r) /\ AheadIs(r)'
  OBVIOUS
<1>1. AheadIs(r)
  BY DEF AheadIs, Ahead, Closed
<1>2. AheadIs(r)'
  BY DEF AheadIs, Ahead, Closed
<1> QED
  BY <1>1, <1>2

LEMMA AheadType ==
  ASSUME Typed, Shaped, NEW r \in Request, Walked(r)
  PROVE  /\ Ahead(r) \in 0..(MaxTasks + NAfter + NBefore + 13)
         /\ Ahead(r) = 0 <=> pc[r] \in Closed
<1>a. AheadIs(r)
  BY AheadAt
<1>1. /\ pc[r] \in Stage /\ step[r] \in Nat /\ Len(ran[r]) \in Nat
      /\ MaxTasks \in Nat /\ NAfter \in Nat /\ NBefore \in Nat
  BY HttpAssumption DEF Typed
<1>2. pc[r] = "background" => Len(ran[r]) < MaxTasks
  <2>1. response[r] \in Response
    BY DEF Typed
  <2>2. response[r].tasks \in 0..MaxTasks
    BY <2>1 DEF Response
  <2> QED
    BY <1>1, <2>2 DEF Shaped, Shape
<1>3. CASE pc[r] = "before"
  BY <1>1, <1>3, <1>a DEF AheadIs, Walked, Closed
<1>4. CASE pc[r] = "after"
  BY <1>1, <1>4, <1>a DEF AheadIs, Walked, Closed
<1>5. CASE pc[r] = "background"
  <2>1. Ahead(r) = (MaxTasks - Len(ran[r])) + 1
    BY <1>5, <1>a DEF AheadIs
  <2>2. Ahead(r) \in 1..(MaxTasks + NAfter + NBefore + 13)
    <3>1. \A n \in Nat : n < MaxTasks =>
             (MaxTasks - n) + 1 \in 1..(MaxTasks + NAfter + NBefore + 13)
      BY HttpAssumption
    <3> QED
      BY <1>1, <1>2, <1>5, <2>1, <3>1
  <2> QED
    BY <1>5, <2>2 DEF Closed
<1>6. CASE pc[r] \in Closed
  BY <1>1, <1>6, <1>a DEF AheadIs, Closed
<1>7. CASE pc[r] \in {"idle", "checks", "match", "authorize", "limit", "endpoint",
                      "error", "prepare", "start", "body"}
  BY <1>1, <1>7, <1>a DEF AheadIs, Closed
<1>8. pc[r] \in {"before", "after", "background"} \cup Closed \cup
                {"idle", "checks", "match", "authorize", "limit", "endpoint",
                 "error", "prepare", "start", "body"}
  BY <1>1 DEF Stage, Handling, Sending, Closed
<1> QED
  BY <1>3, <1>4, <1>5, <1>6, <1>7, <1>8

LEMMA StepsCount ==
  ASSUME Typed, Shaped, NEW r \in Request, Walked(r), Pipeline(r) \/ Cancel(r)
  PROVE  Nearer(r)
<1>0. Ahead(r) \in Nat /\ (pc[r] \notin Closed => Ahead(r) # 0)
  BY AheadType, HttpAssumption
<1>1. /\ pc \in [Request -> Stage] /\ step \in [Request -> Nat]
      /\ MaxTasks \in Nat /\ NAfter \in Nat /\ NBefore \in Nat
  BY HttpAssumption DEF Typed
<1>c. CASE Cancel(r)
  <2>1. pc[r] \notin Closed /\ pc'[r] = "cancelled"
    BY <1>1, <1>c DEF Cancel, Awaiting, UserCode, Closed
  <2>2. Ahead(r)' = 0 /\ Walked(r)'
    BY <2>1, AheadAt DEF AheadIs, Walked, Closed
  <2> QED
    BY <1>0, <2>1, <2>2 DEF Nearer
<1>a. AheadIs(r) /\ AheadIs(r)'
  BY AheadAt
<1> USE <1>a DEF AheadIs, Walked, Nearer, Closed
<1>2. CASE Begin(r)
  BY <1>1, <1>2 DEF Begin
<1>3. CASE Refuse(r) \/ NoMatch(r) \/ Deny(r) \/ AfterDone(r)
  BY <1>1, <1>3 DEF Refuse, NoMatch, Deny, AfterDone, Respond
<1>4. CASE PassChecks(r) \/ BeforeNone(r) \/ BeforeValue(r) \/ BeforeDone(r)
  BY <1>1, <1>4 DEF PassChecks, BeforeNone, BeforeValue, BeforeDone
<1>5. CASE Match(r) \/ Authorize(r) \/ LimitDenies(r) \/ LimitAllows(r) \/ EndpointReturns(r)
  BY <1>1, <1>5 DEF Match, Authorize, LimitDenies, LimitAllows, EndpointReturns
<1>6. CASE AfterReturns(r)
  BY <1>1, <1>6 DEF AfterReturns
<1>7. CASE Raise(r)
  <2>1. pc'[r] = "error"
    BY <1>1, <1>7 DEF Raise
  <2>2. Ahead(r)' = MaxTasks + 5 /\ Walked(r)'
    BY <2>1
  <2>3. CASE pc[r] \in {"before", "after"}
    BY <1>1, <2>2, <2>3
  <2>4. CASE pc[r] \in {"checks", "match", "authorize", "limit", "endpoint"}
    BY <1>1, <2>2, <2>4
  <2> QED
    BY <1>7, <2>3, <2>4 DEF Raise, Handling
<1>8. CASE ErrorResponds(r) \/ ErrorRaises(r) \/ FallbackRaises(r)
  BY <1>1, <1>8 DEF ErrorResponds, ErrorRaises, FallbackRaises, Respond
<1>9. CASE Prepare(r) \/ PrepareFallback(r) \/ SendStart(r)
  <2>1. \/ pc[r] = "prepare" /\ pc'[r] = "start"
        \/ pc[r] = "start" /\ pc'[r] = "body"
    <3>1. Prepare(r) \/ PrepareFallback(r) => pc[r] = "prepare" /\ pc'[r] = "start"
      BY <1>1 DEF Prepare, PrepareFallback
    <3>2. SendStart(r) => pc[r] = "start" /\ pc'[r] = "body"
      BY <1>1 DEF SendStart
    <3> QED
      BY <1>9, <3>1, <3>2
  <2> QED
    BY <1>1, <2>1
<1>10. CASE SendBody(r) \/ SendFails(r)
  <2>1. pc[r] \in {"start", "body"} /\ pc'[r] \in {"background", "done"} /\ UNCHANGED ran
    BY <1>1, <1>10 DEF SendBody, SendFails, Finish
  <2>2. pc'[r] = "background" => pc[r] = "body" /\ ran[r] = <<>>
    BY <1>1, <1>10 DEF SendBody, SendFails, Finish, Shaped, Shape
  <2>3. CASE pc'[r] = "done"
    BY <1>1, <2>1, <2>3
  <2>4. CASE pc'[r] = "background"
    <3>1. ran'[r] = <<>> /\ pc[r] = "body"
      BY <2>1, <2>2, <2>4
    <3> QED
      BY <1>1, <2>4, <3>1
  <2> QED
    BY <2>1, <2>3, <2>4
<1>11. CASE RunTask(r)
  <2>1. PICK o \in Outcome : ran' = [ran EXCEPT ![r] = Append(@, o)]
    BY <1>11 DEF RunTask
  <2>2. pc[r] = "background" /\ pc'[r] \in {"background", "done"}
    BY <1>1, <1>11 DEF RunTask
  <2>3. ran[r] \in Seq(Outcome) /\ ran'[r] = Append(ran[r], o)
    BY <2>1 DEF Typed
  <2>4. Len(ran'[r]) = Len(ran[r]) + 1 /\ Len(ran[r]) \in Nat
    BY <2>3
  <2>5. Len(ran[r]) < MaxTasks
    <3>1. response[r] \in Response
      BY DEF Typed
    <3>2. response[r].tasks \in 0..MaxTasks
      BY <3>1 DEF Response
    <3> QED
      BY <1>1, <2>2, <2>4, <3>2 DEF Shaped, Shape
  <2> QED
    BY <1>1, <2>2, <2>4, <2>5
<1> QED
  BY <1>2, <1>3, <1>4, <1>5, <1>6, <1>7, <1>8, <1>9, <1>10, <1>11, <1>c DEF Pipeline

\* The other requests stay where they are.
LEMMA OthersStay ==
  ASSUME Typed, NEW r \in Request, NEW q \in Request \ {r}, Pipeline(r) \/ Cancel(r)
  PROVE  pc'[q] = pc[q] /\ step'[q] = step[q] /\ ran'[q] = ran[q]
<1> USE DEF Typed, Respond
<1>1. CASE Begin(r) \/ Refuse(r) \/ PassChecks(r) \/ BeforeNone(r) \/ BeforeValue(r) \/ BeforeDone(r)
  BY <1>1 DEF Begin, Refuse, PassChecks, BeforeNone, BeforeValue, BeforeDone
<1>2. CASE NoMatch(r) \/ Match(r) \/ Deny(r) \/ Authorize(r) \/ LimitDenies(r) \/ LimitAllows(r)
  BY <1>2 DEF NoMatch, Match, Deny, Authorize, LimitDenies, LimitAllows
<1>3. CASE EndpointReturns(r) \/ AfterReturns(r) \/ AfterDone(r) \/ Raise(r) \/ ErrorResponds(r)
  BY <1>3 DEF EndpointReturns, AfterReturns, AfterDone, Raise, ErrorResponds
<1>4. CASE \/ ErrorRaises(r) \/ Prepare(r) \/ PrepareFallback(r) \/ FallbackRaises(r)
           \/ SendStart(r) \/ Cancel(r)
  BY <1>4 DEF ErrorRaises, Prepare, PrepareFallback, FallbackRaises, SendStart, Cancel
<1>5. CASE SendBody(r) \/ SendFails(r)
  BY <1>5 DEF SendBody, SendFails, Finish
<1>6. CASE RunTask(r)
  BY <1>6 DEF RunTask
<1> QED
  BY <1>1, <1>2, <1>3, <1>4, <1>5, <1>6 DEF Pipeline

LEMMA WalkedInit == Init => AllWalked
BY DEF Init, AllWalked, Walked

\* Each request goes on, or stays.
Ends ==
  \A r \in Request :
    \/ pc'[r] = pc[r] /\ step'[r] = step[r] /\ ran'[r] = ran[r]
    \/ Ahead(r)' < Ahead(r)

LEMMA EndsStep == Inv /\ AllWalked /\ [Next]_vars => AllWalked' /\ Ends
<1> SUFFICES ASSUME Inv, AllWalked, [Next]_vars, NEW q \in Request
             PROVE  /\ Walked(q)'
                    /\ \/ pc'[q] = pc[q] /\ step'[q] = step[q] /\ ran'[q] = ran[q]
                       \/ Ahead(q)' < Ahead(q)
  BY DEF AllWalked, Ends
<1>1. ASSUME NEW r \in Request, Pipeline(r) \/ Cancel(r), q = r
      PROVE  Nearer(q)
  BY <1>1, StepsCount DEF Inv, AllWalked
<1>2. ASSUME NEW r \in Request, Pipeline(r) \/ Cancel(r), q # r
      PROVE  pc'[q] = pc[q] /\ step'[q] = step[q] /\ ran'[q] = ran[q]
  BY <1>2, OthersStay DEF Inv
<1>3. CASE UNCHANGED vars \/ \E r \in Request : EditSession(r)
  BY <1>3 DEF vars, EditSession, AllWalked, Walked
<1> QED
  BY <1>1, <1>2, <1>3 DEF Next, Nearer, AllWalked, Walked

\* A request takes a bounded number of steps, as many as its middlewares and
\* tasks and thirteen: whatever is raised, refused, cancelled or lost, it is
\* never back where it was, and it has none to take exactly when it is over
\* (app.py 184-270, 889-1042).
THEOREM RequestsRunOut ==
  Spec => /\ [](\A r \in Request :
                  /\ Ahead(r) \in 0..(MaxTasks + NAfter + NBefore + 13)
                  /\ Ahead(r) = 0 <=> pc[r] \in Closed)
          /\ [][Ends]_vars
<1>1. Inv /\ AllWalked =>
        \A r \in Request : /\ Ahead(r) \in 0..(MaxTasks + NAfter + NBefore + 13)
                           /\ Ahead(r) = 0 <=> pc[r] \in Closed
  BY AheadType DEF Inv, AllWalked
<1> QED
  BY <1>1, Invariance, WalkedInit, EndsStep, PTL DEF Spec
=============================================================================
