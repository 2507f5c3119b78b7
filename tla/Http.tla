-------------------------------- MODULE Http --------------------------------
(* The life of "http" scopes in flasgo/app.py: _handle_http, the pipeline    *)
(* _dispatch runs the request through, _handle_error, _prepare_response,     *)
(* Response.send and the BackgroundTasks of the response that was sent.      *)
(* Each request is an asyncio task; tasks interleave between awaits and      *)
(* share the metrics and, per browser, the session cookie.  Application code *)
(* (middleware, endpoints, permissions, error handlers, background           *)
(* functions) may return, raise or edit the session; the server may fail a   *)
(* send or cancel the task at any await.  Steps are cut finer than the       *)
(* awaits, which only adds interleavings.                                    *)
EXTENDS Integers, Sequences, FiniteSets

CONSTANTS
  Request,      \* http scopes handled by the process
  Browser,      \* cookie jars
  Data,         \* session contents
  Empty,        \* the empty session, in Data
  Unserial,     \* contents json.dumps refuses, in Data
  MetricsEnabled, \* settings.METRICS_ENABLED
  HeadersSound, \* prepare() accepts the configured security headers
  NBefore,      \* number of before-request middlewares
  NAfter,       \* number of after-request middlewares
  MaxTasks,     \* bound: background tasks attached to a response
  From          \* From[r]: the browser request r comes from

ASSUME HttpAssumption ==
  /\ IsFiniteSet(Request)
  /\ Empty \in Data /\ Unserial \in Data /\ Empty # Unserial
  /\ MetricsEnabled \in BOOLEAN /\ HeadersSound \in BOOLEAN
  /\ NBefore \in Nat /\ NAfter \in Nat /\ MaxTasks \in Nat
  /\ From \in [Request -> Browser]

NoCookie == "no cookie"
ASSUME NoCookieAssumption == NoCookie \notin Data

VARIABLES
  pc,        \* pc[r]: where the task of r is
  step,      \* step[r]: middlewares of the current list already run
  metered,   \* metered[r]: the local `instrument`
  context,   \* context[r]: the user the context variables show, "none" outside a handler
  session,   \* session[r]: [data, modified], the Session of r
  response,  \* response[r]: [tasks, sound], the Response r will send
  cookie,    \* cookie[r]: session contents of the Set-Cookie of the response
  wire,      \* wire[r]: ASGI messages the server took from r
  attempts,  \* attempts[r]: ASGI messages r tried to send
  ran,       \* ran[r]: outcomes of the background tasks of r that ran
  passed,    \* passed[r]: gates of _dispatch r got through
  jar,       \* jar[b]: session contents held by browser b
  active,    \* gauge http_active
  counted,   \* counter http_requests
  observed   \* counter background_tasks, by outcome

control == <<pc, step>>
local == <<metered, context, session, response, cookie, passed>>
output == <<wire, attempts, ran>>
shared == <<jar, active, counted, observed>>
vars == <<control, local, output, shared>>

Handling == {"checks", "before", "match", "authorize", "limit", "endpoint",
             "after", "error"}
Sending == {"prepare", "start", "body"}
Closed == {"done", "raised", "cancelled"}
Stage == {"idle", "background"} \cup Handling \cup Sending \cup Closed

\* Where application code runs, and so where the session may be edited.
UserCode == {"before", "authorize", "endpoint", "after", "error", "background"}
\* Where the task may be suspended, and so cancelled.
Awaiting == UserCode \cup {"start", "body"}

User == {"none", "anonymous", "known"}
Message == {"start", "body"}
Session == [data : Data, modified : BOOLEAN]
Outcome == {"success", "failure"}
Response == [tasks : 0..MaxTasks, sound : BOOLEAN]
\* A response the framework builds itself: as sound as the headers every
\* response is given, which nothing validates when they are configured.
Plain == [tasks |-> 0, sound |-> HeadersSound]
Gate == {"checks", "before", "authorized", "quota"}

----------------------------------------------------------------------------
\* What the pipeline reaches once the request is known not to be for the
\* framework's own pages.
Goto(r, stage) == /\ pc' = [pc EXCEPT ![r] = stage]
                  /\ step' = [step EXCEPT ![r] = 0]

\* Mutant: the context variables are not reset.
LeaveContextForgotten(r) == UNCHANGED context

\* The inner `finally` of _handle_http: the three context variables are reset.
LeaveContext(r) == context' = [context EXCEPT ![r] = "none"]

\* The outer `finally`: http_active.dec() when instrumented.
LeaveGauge(r) == active' = IF metered[r] THEN active - 1 ELSE active

\* A response leaves _dispatch or _handle_error.
Respond(r, resp) ==
  /\ Goto(r, "prepare")
  /\ LeaveContext(r)
  /\ response' = [response EXCEPT ![r] = resp]

Init ==
  /\ pc = [r \in Request |-> "idle"]
  /\ step = [r \in Request |-> 0]
  /\ metered = [r \in Request |-> FALSE]
  /\ context = [r \in Request |-> "none"]
  /\ session = [r \in Request |-> [data |-> Empty, modified |-> FALSE]]
  /\ response = [r \in Request |-> Plain]
  /\ cookie = [r \in Request |-> NoCookie]
  /\ wire = [r \in Request |-> <<>>]
  /\ attempts = [r \in Request |-> <<>>]
  /\ ran = [r \in Request |-> <<>>]
  /\ passed = [r \in Request |-> {}]
  /\ jar = [b \in Browser |-> Empty]
  /\ active = 0
  /\ counted = 0
  /\ observed = [o \in Outcome |-> 0]

\* _load_session: a session cookie that is missing, too old, dated too far ahead
\* or no longer verified by the signer loads as the empty session.
LoadedSession(r) == {jar[From[r]], Empty}

\* _handle_http up to the call of _dispatch.  A request for METRICS_PATH, and
\* every request when metrics are off, is not instrumented.
Begin(r) ==
  /\ pc[r] = "idle"
  /\ Goto(r, "checks")
  /\ \E m \in {FALSE, MetricsEnabled} :
       /\ metered' = [metered EXCEPT ![r] = m]
       /\ active' = IF m THEN active + 1 ELSE active
  /\ \E d \in LoadedSession(r) :
       session' = [session EXCEPT ![r] = [data |-> d, modified |-> FALSE]]
  /\ context' = [context EXCEPT ![r] = "anonymous"]
  /\ UNCHANGED <<response, cookie, passed, output, jar, counted, observed>>

\* Host and CSRF checks: a refusal (400, 403 or 429) is the response, and so
\* are the metrics, documentation and debug stylesheet pages.
Refuse(r) ==
  /\ pc[r] = "checks"
  /\ Respond(r, Plain)
  /\ UNCHANGED <<metered, session, cookie, passed, output, shared>>

\* The metrics page answers every request for METRICS_PATH, so what goes on is
\* instrumented when metrics are on.
PassChecks(r) ==
  /\ pc[r] = "checks"
  /\ metered[r] = MetricsEnabled
  /\ Goto(r, "before")
  /\ passed' = [passed EXCEPT ![r] = @ \cup {"checks"}]
  /\ UNCHANGED <<metered, context, session, response, cookie, output, shared>>

\* The next before-middleware returns None ...
BeforeNone(r) ==
  /\ pc[r] = "before"
  /\ step[r] < NBefore
  /\ step' = [step EXCEPT ![r] = @ + 1]
  /\ UNCHANGED <<pc, local, output, shared>>

\* Mutant: the value of a before-middleware does not stop the pipeline.
BeforeValueFallsThrough(r) ==
  /\ pc[r] = "before"
  /\ step[r] < NBefore
  /\ Goto(r, "match")
  /\ UNCHANGED <<local, output, shared>>

\* ... or a value, which goes straight to the after-middlewares.
BeforeValue(r) ==
  /\ pc[r] = "before"
  /\ step[r] < NBefore
  /\ \E resp \in Response : response' = [response EXCEPT ![r] = resp]
  /\ Goto(r, "after")
  /\ UNCHANGED <<metered, context, session, cookie, passed, output, shared>>

BeforeDone(r) ==
  /\ pc[r] = "before"
  /\ step[r] = NBefore
  /\ Goto(r, "match")
  /\ passed' = [passed EXCEPT ![r] = @ \cup {"before"}]
  /\ UNCHANGED <<metered, context, session, response, cookie, output, shared>>

\* No route: 404 or 405, without the after-middlewares.
NoMatch(r) ==
  /\ pc[r] = "match"
  /\ Respond(r, Plain)
  /\ UNCHANGED <<metered, session, cookie, passed, output, shared>>

Match(r) ==
  /\ pc[r] = "match"
  /\ Goto(r, "authorize")
  /\ UNCHANGED <<local, output, shared>>

\* _authorize_request: 500, 401, 403 or 429, without the after-middlewares.
\* An exception of the backend or of a permission is a denial too.
Deny(r) ==
  /\ pc[r] = "authorize"
  /\ Respond(r, Plain)
  /\ UNCHANGED <<metered, session, cookie, passed, output, shared>>

\* The backend's user replaces the anonymous one; a public route keeps it.
Authorize(r) ==
  /\ pc[r] = "authorize"
  /\ Goto(r, "limit")
  /\ \E u \in {"anonymous", "known"} : context' = [context EXCEPT ![r] = u]
  /\ passed' = [passed EXCEPT ![r] = @ \cup {"authorized"}]
  /\ UNCHANGED <<metered, session, response, cookie, output, shared>>

\* A rule denies: the 429 response goes through the after-middlewares.
LimitDenies(r) ==
  /\ pc[r] = "limit"
  /\ response' = [response EXCEPT ![r] = Plain]
  /\ Goto(r, "after")
  /\ UNCHANGED <<metered, context, session, cookie, passed, output, shared>>

LimitAllows(r) ==
  /\ pc[r] = "limit"
  /\ Goto(r, "endpoint")
  /\ passed' = [passed EXCEPT ![r] = @ \cup {"quota"}]
  /\ UNCHANGED <<metered, context, session, response, cookie, output, shared>>

EndpointReturns(r) ==
  /\ pc[r] = "endpoint"
  /\ \E resp \in Response : response' = [response EXCEPT ![r] = resp]
  /\ Goto(r, "after")
  /\ UNCHANGED <<metered, context, session, cookie, passed, output, shared>>

\* An after-middleware passes the response on, changed or replaced.
AfterReturns(r) ==
  /\ pc[r] = "after"
  /\ step[r] < NAfter
  /\ step' = [step EXCEPT ![r] = @ + 1]
  /\ \E resp \in Response : response' = [response EXCEPT ![r] = resp]
  /\ UNCHANGED <<pc, metered, context, session, cookie, passed, output, shared>>

AfterDone(r) ==
  /\ pc[r] = "after"
  /\ step[r] = NAfter
  /\ Respond(r, response[r])
  /\ UNCHANGED <<metered, session, cookie, passed, output, shared>>

\* Something raises an Exception below _dispatch: a malformed Origin, a
\* middleware, a number too long for int() in a route, an unusable auth
\* identity, a key function, the endpoint or to_response.  The response built
\* so far is dropped.
Raise(r) ==
  /\ pc[r] \in Handling \ {"error"}
  /\ Goto(r, "error")
  /\ response' = [response EXCEPT ![r] = Plain]
  /\ UNCHANGED <<metered, context, session, cookie, passed, output, shared>>

\* _handle_error: the HTTPException, the debug page, the registered handler or
\* the default 500.
ErrorResponds(r) ==
  /\ pc[r] = "error"
  /\ \E resp \in Response : Respond(r, resp)
  /\ UNCHANGED <<metered, session, cookie, passed, output, shared>>

\* Mutant: the gauge is not decremented on this exit.
ErrorRaisesKeepsGauge(r) ==
  /\ pc[r] = "error"
  /\ Goto(r, "raised")
  /\ LeaveContext(r)
  /\ UNCHANGED <<metered, session, response, cookie, passed, output, shared>>

\* The error handler raises: nothing is sent and the server sees the exception.
ErrorRaises(r) ==
  /\ pc[r] = "error"
  /\ Goto(r, "raised")
  /\ LeaveContext(r)
  /\ LeaveGauge(r)
  /\ UNCHANGED <<metered, session, response, cookie, passed, output, jar, counted, observed>>

----------------------------------------------------------------------------
\* Mutant: the session is signed into every response, edited or not.
PrepareAlwaysPersists(r) ==
  /\ pc[r] = "prepare"
  /\ response[r].sound /\ session[r].data # Unserial
  /\ cookie' = [cookie EXCEPT ![r] = session[r].data]
  /\ Goto(r, "start")
  /\ UNCHANGED <<metered, context, session, response, passed, output, shared>>

\* _persist_session: a modified session becomes a Set-Cookie.
SessionCookie(r) == IF session[r].modified THEN session[r].data ELSE NoCookie

\* _prepare_response succeeds.
Prepare(r) ==
  /\ pc[r] = "prepare"
  /\ response[r].sound
  /\ session[r].modified => session[r].data # Unserial
  /\ cookie' = [cookie EXCEPT ![r] = SessionCookie(r)]
  /\ Goto(r, "start")
  /\ UNCHANGED <<metered, context, session, response, passed, output, shared>>

\* _prepare_response raises.
Unprepared(r) == \/ ~response[r].sound
                 \/ session[r].modified /\ session[r].data = Unserial

\* A fresh 500 without cookies or background tasks takes the response's place.
PrepareFallback(r) ==
  /\ pc[r] = "prepare"
  /\ Unprepared(r) /\ HeadersSound
  /\ response' = [response EXCEPT ![r] = Plain]
  /\ Goto(r, "start")
  /\ UNCHANGED <<metered, context, session, cookie, passed, output, shared>>

\* Mutant: the fallback that cannot be prepared is prepared again.
FallbackRaisesRetries(r) ==
  /\ pc[r] = "prepare"
  /\ Unprepared(r) /\ ~HeadersSound
  /\ UNCHANGED vars

\* The fallback is given the same headers and prepared outside of any `try`: it
\* raises as well, nothing is sent and the server sees the exception.
FallbackRaises(r) ==
  /\ pc[r] = "prepare"
  /\ Unprepared(r) /\ ~HeadersSound
  /\ response' = [response EXCEPT ![r] = Plain]
  /\ Goto(r, "raised")
  /\ LeaveGauge(r)
  /\ UNCHANGED <<metered, context, session, cookie, passed, output, jar, counted, observed>>

\* A message is handed to the server; `got`: the server took it.  The browser
\* stores the cookie of the head.
Send(r, message, got) ==
  /\ attempts' = [attempts EXCEPT ![r] = Append(@, message)]
  /\ wire' = IF got THEN [wire EXCEPT ![r] = Append(@, message)] ELSE wire
  /\ jar' = IF got /\ message = "start" /\ cookie[r] # NoCookie
               THEN [jar EXCEPT ![From[r]] = cookie[r]] ELSE jar

SendStart(r) ==
  /\ pc[r] = "start"
  /\ Send(r, "start", TRUE)
  /\ Goto(r, "body")
  /\ UNCHANGED <<local, ran, active, counted, observed>>

\* Mutant: background tasks run whether or not the response was sent.
FinishIgnoresFailure(r, sent) ==
  /\ counted' = IF metered[r] THEN counted + 1 ELSE counted
  /\ IF response[r].tasks > 0
       THEN Goto(r, "background") /\ UNCHANGED active
       ELSE Goto(r, "done") /\ LeaveGauge(r)

\* What follows a send that returned or raised: the request is counted, and
\* the task ends unless it has background tasks to run.
Finish(r, sent) ==
  /\ counted' = IF metered[r] THEN counted + 1 ELSE counted
  /\ IF sent /\ response[r].tasks > 0
       THEN Goto(r, "background") /\ UNCHANGED active
       ELSE Goto(r, "done") /\ LeaveGauge(r)

SendBody(r) ==
  /\ pc[r] = "body"
  /\ Send(r, "body", TRUE)
  /\ Finish(r, TRUE)
  /\ UNCHANGED <<local, ran, observed>>

\* Mutant: after a failed send a 500 response is tried.
SendFailsRetries(r) ==
  /\ pc[r] \in {"start", "body"}
  /\ \E got \in BOOLEAN : Send(r, pc[r], got)
  /\ response' = [response EXCEPT ![r] = Plain]
  /\ Goto(r, "prepare")
  /\ UNCHANGED <<metered, context, session, cookie, passed, ran, active, counted, observed>>

\* send() raises, before or after the server took the message.
SendFails(r) ==
  /\ pc[r] \in {"start", "body"}
  /\ \E got \in BOOLEAN : Send(r, pc[r], got)
  /\ Finish(r, FALSE)
  /\ UNCHANGED <<local, ran, observed>>

\* Mutant: a background task that fails ends the loop.
RunTaskStopsAtFailure(r) ==
  /\ pc[r] = "background"
  /\ \E o \in Outcome :
       /\ ran' = [ran EXCEPT ![r] = Append(@, o)]
       /\ observed' = IF MetricsEnabled THEN [observed EXCEPT ![o] = @ + 1] ELSE observed
       /\ IF o = "failure" \/ Len(ran[r]) + 1 = response[r].tasks
            THEN Goto(r, "done") /\ LeaveGauge(r)
            ELSE UNCHANGED <<control, active>>
  /\ UNCHANGED <<local, wire, attempts, jar, counted>>

\* BackgroundTasks.__call__: the next task returns or raises; either way the
\* observer hears of it and the loop goes on.
RunTask(r) ==
  /\ pc[r] = "background"
  /\ \E o \in Outcome :
       /\ ran' = [ran EXCEPT ![r] = Append(@, o)]
       /\ observed' = IF MetricsEnabled THEN [observed EXCEPT ![o] = @ + 1] ELSE observed
  /\ IF Len(ran[r]) + 1 = response[r].tasks
       THEN Goto(r, "done") /\ LeaveGauge(r)
       ELSE UNCHANGED <<control, active>>
  /\ UNCHANGED <<local, wire, attempts, jar, counted>>

----------------------------------------------------------------------------
\* The server cancels the task: CancelledError is no Exception, so only the
\* `finally` clauses run.  A message being sent may have been taken.
Cancel(r) ==
  /\ pc[r] \in Awaiting
  /\ IF pc[r] \in {"start", "body"}
       THEN \E got \in BOOLEAN : Send(r, pc[r], got)
       ELSE UNCHANGED <<wire, attempts, jar>>
  /\ Goto(r, "cancelled")
  /\ LeaveContext(r)
  /\ LeaveGauge(r)
  /\ UNCHANGED <<metered, session, response, cookie, passed, ran, counted, observed>>

\* Session.__setitem__, pop and clear set the flag; an edit inside a nested
\* value does not.
EditSession(r) ==
  /\ pc[r] \in UserCode
  /\ pc[r] = "before" => step[r] < NBefore
  /\ pc[r] = "after" => step[r] < NAfter
  /\ \E d \in Data, tracked \in BOOLEAN :
       session' = [session EXCEPT ![r] =
                     [data |-> d, modified |-> @.modified \/ tracked]]
  /\ UNCHANGED <<control, metered, context, response, cookie, passed, output, shared>>

\* What the task of r does by itself, without the server's or user's choice to
\* edit or cancel.
Pipeline(r) ==
  \/ Begin(r) \/ Refuse(r) \/ PassChecks(r)
  \/ BeforeNone(r) \/ BeforeValue(r) \/ BeforeDone(r)
  \/ NoMatch(r) \/ Match(r) \/ Deny(r) \/ Authorize(r)
  \/ LimitDenies(r) \/ LimitAllows(r) \/ EndpointReturns(r)
  \/ AfterReturns(r) \/ AfterDone(r)
  \/ Raise(r) \/ ErrorResponds(r) \/ ErrorRaises(r)
  \/ Prepare(r) \/ PrepareFallback(r) \/ FallbackRaises(r)
  \/ SendStart(r) \/ SendBody(r) \/ SendFails(r) \/ RunTask(r)

Next == \E r \in Request : Pipeline(r) \/ Cancel(r) \/ EditSession(r)

Spec == Init /\ [][Next]_vars

\* asyncio runs every ready task; the awaited application code and sends are
\* assumed to return, raise or be cancelled.
Fairness == \A r \in Request : WF_vars(pc[r] # "idle" /\ Pipeline(r))

FairSpec == Spec /\ Fairness

----------------------------------------------------------------------------
HeadOnly == <<"start">>
Whole == <<"start", "body">>
InFlight(r) == pc[r] \notin {"idle"} \cup Closed

\* Every variable has its type.
TypeOK ==
  /\ pc \in [Request -> Stage]
  /\ step \in [Request -> Nat]
  /\ metered \in [Request -> BOOLEAN]
  /\ context \in [Request -> User]
  /\ session \in [Request -> Session]
  /\ response \in [Request -> Response]
  /\ cookie \in [Request -> Data \cup {NoCookie}]
  /\ wire \in [Request -> Seq(Message)]
  /\ attempts \in [Request -> Seq(Message)]
  /\ ran \in [Request -> Seq(Outcome)]
  /\ passed \in [Request -> SUBSET Gate]
  /\ jar \in [Browser -> Data]
  /\ active \in Nat
  /\ counted \in Nat
  /\ observed \in [Outcome -> Nat]

\* A request tries one head and one body after it and nothing else: a failed
\* send, a failed preparation or a cancellation never leads to a second
\* response (app.py 222-239).
NoSecondResponse == \A r \in Request : attempts[r] \in {<<>>, HeadOnly, Whole}

\* Background tasks run only after the whole response was taken, those of the
\* response that was sent only, and one that fails stops none of the others
\* (app.py 263-267, background.py 45-62).
BackgroundContract ==
  \A r \in Request :
    ran[r] # <<>> =>
      /\ wire[r] = Whole
      /\ Len(ran[r]) <= response[r].tasks
      /\ pc[r] = "done" => Len(ran[r]) = response[r].tasks

\* http_active is the number of instrumented requests in flight, on every exit:
\* answered, send failed, error handler raised, cancelled at any await.
GaugeExact == active = Cardinality({r \in Request : metered[r] /\ InFlight(r)})

\* The context variables show a user exactly while the request is being
\* handled: never to background tasks, never after the request.
ContextScoped == \A r \in Request : context[r] # "none" <=> pc[r] \in Handling

\* The endpoint runs, and the rate limit's quota is spent, only after the host
\* and CSRF checks, every before-middleware and the authorization, in whatever
\* way earlier stages failed.
EndpointGated ==
  \A r \in Request :
    /\ pc[r] = "endpoint" => passed[r] = Gate
    /\ "quota" \in passed[r] => {"checks", "before", "authorized"} \subseteq passed[r]

\* A browser's session changes only by the response of a request that edited
\* the session: a reader, however slow, never puts back what it loaded, and
\* contents that cannot be signed never get there.
JarFromEditors ==
  [][\A b \in Browser :
       jar'[b] # jar[b] =>
         /\ jar'[b] # Unserial
         /\ \E r \in Request : /\ From[r] = b
                              /\ session[r].modified
                              /\ wire'[r] = HeadOnly /\ wire[r] = <<>>]_vars

\* Every request that began is over at some time.
Answered == \A r \in Request : InFlight(r) ~> pc[r] \in Closed

\* Http implements the exchange the ASGI server relies on: whatever the
\* application code does, the exchange opens once, sends a head and then a body
\* at most, works in the background only after the body, and stays closed.
ExchangeState == [r \in Request |-> IF pc[r] = "idle" THEN "idle"
                                   ELSE IF pc[r] \in Closed THEN "closed" ELSE "open"]
ExchangeWork == [r \in Request |-> Len(ran[r])]

Exchange == INSTANCE HttpExchange WITH state <- ExchangeState, work <- ExchangeWork

ImplementsExchange == Exchange!Spec
=============================================================================
