# A TLA+ model of flasgo

Flasgo is a small asynchronous web framework: an ASGI application object
(`flasgo/app.py`) that a server such as uvicorn calls once per scope, `http`,
`websocket` or `lifespan`, each call an asyncio task.  Between two awaits a task
runs alone; at an await every other task may run, the server may fail the call
and the task may be cancelled.  What is hard about the framework is what happens
at those awaits, so that is what the modules model: control, failures,
cancellation and shared state in full, and data only as far as a property tells
it apart.

## 1. Inventory

| Component | State | Operations | What makes it correct |
|---|---|---|---|
| HTTP pipeline (`app.py` `_handle_http`, `_dispatch`, `response.py`, `background.py`) | the task's stage, three context variables, the response, metrics shared by all requests | checks, before-middlewares, match, authorize, rate limit, endpoint, after-middlewares, error handler, prepare, send, background tasks | one response per exchange whatever fails; no stage skipped; gauge exact on every exit; context never outlives the handler; background tasks after the response only |
| Sessions (`session.py`, `app.py` 1044-1077) | `Session` of a request, cookie of a browser | load, edit, persist | a cookie changes by a response of a request that edited it, and never to something unsignable |
| Rate limiter (`ratelimit.py`, `app.py` 954-986) | `_buckets`, `_bucket_windows` | `check`, `check_batch`, `_prune` | quotas over sliding windows, also for rules that share a scope; each request counted once; bounded tables; honest Retry-After |
| WebSocket (`websockets.py`, `app.py` 345-461) | two states of a connection, gauge | handshake, accept, send, receive, close, deny, the framework's own closing | a legal conversation; the state agrees with it; nothing left open |
| Lifespan (`app.py` 272-343) | flag and generator shared by all scopes | startup, shutdown | one answer each; exact flag; handler run to its end |
| Security failure throttle (`app.py` 1120-1138) | `_security_failures` | count, prune | a fixed window per client that pruning does not change |
| Request body and form (`request.py` 245-318) | `_body`, `_form`, the server's stream of pieces | `body`, `form`, `text`, `json` | whole, limited, kept once, also with concurrent and cancelled reads |
| Routing and OpenAPI (`routing.py`, `openapi.py`, `app.py` 655-673, 832-845, 1008-1016) | `_routes`, `_openapi_cache`, `_openapi_dirty` | add, match, describe | order of registration decides; `Allow` is honest; the document is fresh |
| Session signer, host, origin and CSRF checks (`security.py`, `session.py`) | the browser's cookies; the clocks of the workers | sign and load with age and skew, admit a request or handshake, issue a token | a session lives as long as it should on every worker; the application's own pages get through and what other pages post does not |
| Authentication (`auth.py`, `app.py` 1079-1118) | none | what a backend returns, made into an answer | a denial whatever it raises; see "Not modelled" |
| Test client (`testing.py`) | the mode, the lifespan's task and queues, a thread with a loop and its queue of coroutines, a cookie jar | enter, request, leave, each with its timeout; `async` likewise in the caller's loop | a context is entered only while its scope is up and leaves nothing behind; every call returns |
| Templates, static files, SSRF guard, logging, debug pages, settings, CLI, server | none of their own, or a cache | input, output and formatting | not modelled |

Interactions.  `_handle_http` drives the pipeline and calls the session,
throttle, limiter, router and body reader; the response it sends carries the
background tasks.  `_handle_websocket` shares the router, the throttle and the
authentication, and hands a `WebSocket` object to the endpoint, whose spawned
tasks may use it too.  Lifespan scopes share one flag and one generator with
each other and nothing with requests.  Metrics are written by all of them.  The
test client plays the server: it starts lifespan scopes of its own in the
application under test, in a thread or in the caller's loop, beside those of any
other server of the same application object.  The browser, outside the
application, keeps what the session and the token issue and brings it back, to
any worker.

## 2. Modules

| Module | Models | State and actions |
|---|---|---|
| `Http` | a request from scope to background tasks | `pc[r]` is the place in `_handle_http` or `_dispatch`; one action per stage and outcome: `Begin`, `Refuse`, `PassChecks`, `Before*`, `Match`, `NoMatch`, `Authorize`, `Deny`, `Limit*`, `Endpoint*`, `After*`, `Raise`, `Error*`, `Prepare*`, `FallbackRaises`, `Send*`, `Finish`, `RunTask`, `Cancel`, `EditSession` |
| `HttpExchange` | what the ASGI server may rely on, abstractly | `Open`, `Emit`, `Work`; `Http!ImplementsExchange` is the refinement |
| `RateLimiter` | the limiter over a running clock | `CheckBatch` and `CheckBatchRaises` (the path of requests), `Check` (the public call), `Tick`; pruning is part of each call |
| `WebSocket` | a connection, the endpoint's task and tasks it spawned | a call is two steps, before and after the await in the server's send (`Accept`/`SendText`/`Close`/`Deny`, then `Returns`, `HeadReturns`, `Lost` or `SendRaises`); `Receive` waits likewise; `Handshake` and `Leaving` are the framework's own steps |
| `Lifespan` | overlapping lifespan scopes | one action per outcome of each await of `_handle_lifespan` |
| `SecurityFailures` | the throttle's table | `Register` with its pruning, `Tick` |
| `FailureWindow` | the throttle, abstractly: a window per client, nothing pruned | `Fail`, `Tick`; `SecurityFailures!ImplementsWindows` is the refinement |
| `RequestBody` | readers of one request's body | `Body`, `Form`, then per piece `Take`, `TakeLast`, `TooBig`, or `Disconnected`, `Cancel`; the client's `Arrive`, `Leave` |
| `Routing` | the route table, its matching, its document | `AddRoute` (`add_route`), `OpenApiSpec` (`openapi_spec`) |
| `TestClient` | the contexts of the test client over `Lifespan`, which it extends | the caller: `Enter`, `Request`, `Leave`, then `Returned` or `GiveUp`, and `Joined`; the loop: `Starts`, `StartAnswered`, `StartFailed`, `Serves`, `Served`, `Stops*`, `StopAnswered`, `StopEnds`, `TimesOut`, `Closed`; the application's task: `Steps` and `Generates`, which are Lifespan's actions where the client's queues let them happen; `Discard`, `Interrupt`; `Serve` for scopes of another server |
| `Gate` | the predicates on Host, Origin, Referer and tokens | no state |
| `Browser` | one browser and the workers of one application | `Send` (cookies go out, the session is loaded, `Gate` decides), `Respond`, `Receive`, `Lose`, `Forget`, `ReadToken`, `Tick` |
| `MC*` | small instances for TLC | values of the constants only |
| `HttpProofs`, `RateLimiterProofs`, `WebSocketProofs`, `TestClientProofs` (also about `Lifespan`), `BrowserProofs`, `SecurityFailuresProofs`, `RequestBodyProofs`, `RoutingProofs` | theorems | section 5 |

Modelling decisions a reader should know:

* **Http.** Steps are cut finer than the awaits, which adds interleavings and
  removes none.  Application code may return, raise, return something
  `to_response` refuses, or edit the session (also inside a nested value, which
  the class does not notice).  A response is how many background tasks it has
  and whether its headers are `sound`, that is, whether `prepare` accepts them.
  Those the framework builds are as sound as the configured headers they are
  given (`HeadersSound`), which nothing validates: where they are not, the
  fallback cannot be prepared either, the request raises into the server
  (`FallbackRaises`) and nothing is sent.
  Checks, authorization and limits are choices in `Http`; the limiter and the
  throttle are modules of their own, because nothing flows back from their
  tables into the pipeline but the outcome.  Each request has a `Response`
  object of its own.
* **RateLimiter.** The lock's body never awaits, so a call is one step.  The
  tables are a function from bucket to the granted times; a history `log` keeps
  all grants, for the properties only.
* **WebSocket.** `torn` records that a call was cancelled inside its send, or
  that calls clashed: the protocol can then be broken by the application and the
  properties say so instead of hiding it.  `websocket_denial` is the run that
  looks at such a moment.  Messages the application sends are bounded by
  `MaxTexts`.  A send ends in one of three ways: the server takes the message,
  the connection is lost (an `OSError`), or the server refuses the message with
  another exception, which leaves the state as it was (`SendRaises`).  Refused
  sends of the framework's own lead from the endpoint's handler through the
  `except` and `finally` clauses (stages "inner", "leave", "last", "outer",
  `Propagate`), each of which tries to end the connection again, and from the
  last of them to the server ("raised").  Bound: the body of a denial is refused
  only on a connection that was not `torn` before.  A server that takes a message
  and raises all the same is left out.
* **Lifespan.** `torn` and `overlapped` record a failed send or cancellation and
  a scope that began while another was on its way; the promises about the flag
  are for scopes one after the other, and the modules let everything happen.
  A scope is sent one startup and, after its answer, one shutdown.
* **TestClient.** What runs between two awaits of a loop is one step, and so are
  the caller's statements up to the next call that blocks; interleavings inside
  such a stretch, which only the interpreter's switching between the two threads
  could make, are not split further.  Putting into an unbounded `asyncio.Queue`
  does not suspend, so an answer is put and the task goes on to its next wait
  (`Between`).  `late` and `interrupted` record that a wait ran out of time or
  that the caller was cancelled; the properties that need it say so.  An endpoint
  and a handler's generator may hang for ever.  A keyboard interrupt in the
  caller and the WebSocket transport are left out.
* **Gate and Browser.** A host name is its labels, an origin a scheme, a name and
  a port, and whatever the parsers refuse is one value, `Malformed`.  All
  workers share the secret key and what they load is signed with it; a token
  that is not is Http's choice of the empty session.  A request arrives when it
  is sent; its response takes as long as it likes or is lost.  Browsers leave
  default ports out of what they send.  Each check has the switch of its setting
  (`EnforceHosts`, `CsrfEnabled`, `CheckOrigin`, `EnforceSocketOrigin`, beside
  `RequireOrigin` and `MissingOrigin`); the run has them all on, the theorems
  hold for either value.  A Host or handshake Origin given twice is `Malformed`
  too, since the code counts those; elsewhere it takes one of the two.  An Origin
  that `urlsplit` refuses with an exception is a `Raise` of `Http` (a 500), and
  is let through by neither.  A trusted suffix that is written with a port
  matches nothing, as in the code, which compares it with a host without one.
* **RequestBody.** A piece is its size; a body is the sequence of the pieces it
  was joined from, so lost, repeated or reordered pieces show.  `torn` records
  overlapping or abandoned reads: an abandoned read has consumed pieces, and a
  later one gets what is left, as in the code.
* **Routing.** A path is its segments; a converter takes one, `path` one or
  more.  The regular expression is modelled by what it accepts: a path is
  accepted when it can be cut into as many runs of segments as the pattern has
  parts, each run taken by its part.  A number of more digits than `int()` takes
  raises where the search has come to: that is a `Raise` of `Http`, and `Paths`
  has no such number.  A document whose build raises is neither kept nor served.

## 3. Runs

| Run | Instance | What it shows |
|---|---|---|
| `http` | two requests of one browser, three session contents (empty, editable, not serializable), one background task each, metrics on, no middlewares, symmetric requests; about a million states | `NoSecondResponse`, `GaugeExact`, `ContextScoped`, `JarFromEditors`, `ImplementsExchange` under every interleaving with failures and cancellations |
| `http_depth` | one request, two middlewares on each side, three background tasks, configured headers that `prepare` refuses unless a response brings its own (`HeadersSound = FALSE`), fair | `BackgroundContract`, `EndpointGated`, and `Answered`: every request ends |
| `rate` | four rules (two with windows 1 and 3 on one scope, one with a custom key that may raise, one alone), three endpoints, two clients, `MaxKeys = 1`, two ticks a second, clock to 3 | `QuotaKept`, `CountedOnce`, `Bounded`, `LostOnlyWhenCrowded`, `RetryHonest` |
| `rate_check` (violation) | the same, with a short rule passed to `check` on the scope of a longer one | finding 1 |
| `websocket` | one connection, its endpoint and two spawned tasks, one text | `ProtocolLegal`, `StateAgrees`, `NothingLeftOpen`, `GaugeExact`, `NeverReopened` |
| `websocket_denial` (violation) | the endpoint alone | finding 2 |
| `test_client` | two scopes of one application, each a server's, a synchronous or an asynchronous context, with and without handler, one request each, fair; some 190 000 states | of the scopes `AnswersInOrder`, `ActiveExact`, `HandlersFinished`, `ScopesEnd`; of the contexts `EnteredMeansUp`, `LeftMeansOver`, `ShutdownAfterRequests`, `CallsReturn`, `ThreadsEnd` |
| `lifespan_active` (violation) | two scopes of a server | finding 3 |
| `browser` | three requests, two under way at once, two workers whose clocks differ by one or three half seconds, against a skew and an age of one second; pages of the application, of its ports, subdomains and trusted partners, and of others; about a million states | `SessionLifetime`, `OwnPageServed`, `OthersRefused` |
| `security_failures` | two clients, limit 2, window 3, pruning from the second entry, clock to 7, counts to 3 | `TwiceTheLimit`, `ImplementsWindows` |
| `request_body` | two tasks, bodies of up to three pieces of size 0 or 1, limit 2, fair | `WholeBody`, `Limited`, `OneBody`, `FormOfBody`, `ReadEnds` |
| `routing` | eight routes with overlapping patterns (literal, string, number and path segments), tables of up to three, paths of up to three segments, empty ones included | `AllowHonest`, `NeverStolen`, `PageFresh` |

The type invariants are proved (section 5) rather than run, those of `Routing`,
`TestClient` and `Browser` as parts of the invariants there; a property of one
module is checked in one run only, but for `QuotaKept`, which fails in the
second.

**Why the bounds are enough.**  In `Http` requests share only the gauge, the
counters and the jar, so two of them show every race between a pair; list
lengths matter at zero, one and more, which the two runs cover between them.
The jar needs two edits and a reader in flight: two requests of one browser.
In `RateLimiter` two windows on one scope, and a table smaller than the number
of buckets, are what makes pruning and eviction interfere; the clock runs past
the longest window but stays within twice of it, so `_prune`'s first rule
(twice the window old) fires for the short windows only.  A clash of two
WebSocket calls needs two tasks besides the endpoint so that a third call can
meet it.  Two lifespan scopes overlap in every way the flag can tell, and two
contexts of a client are enough for the thread of one that was given up to meet
the fields of the next.  In `Browser` one request edits the session, one reads
it, and a third overlaps either; a difference of clocks of one half second is
within the skew and one of three is beyond it, and two ticks a second make the
whole seconds of two workers differ for clocks that differ less.  The
throttle's clock covers two whole windows, which `TwiceTheLimit` needs.  Three
pieces are a first, a middle and a last one, and the limit of 2 is met and
exceeded by one.  Three routes give a first, a later match and a shadowed one.

**Deadlock.**  Off for runs whose system really stops: requests, connections,
scopes and contexts are over, the clock has reached its bound, or nobody reads
any more.  Every other run checks it.

**Fairness and why the code justifies it.**
`Http!FairSpec`: a task that can go on does.  asyncio runs every ready task;
application code and sends are assumed to return, raise or be cancelled at some
time, which the framework cannot enforce and relies on.
`RequestBody!FairSpec`: a task whose receive has something to return gets it
(`WF` of `Receive(t)`); the client owes nothing, not even to leave.
`TestClient!ClientFairSpec`: a block of code that was entered is left, blocking
calls return once their future is done or their timeout has passed, loops run
what is ready and their timers fire, and the task of a scope goes on to its next
await.  Nothing is assumed of the application under test in a thread: neither
its endpoints nor the halves of its handler need ever end, which is what the
timeouts are for.  In an asynchronous context nobody times an endpoint, so there
it is assumed to end.  Scopes of another server are served like those of
`Lifespan`.  `Lifespan!FairSpec` (used by `lifespan_active`) assumes that a scope
that can go on does.  The other specifications have no liveness property and no
fairness.

## 4. Findings

1. `rate_check`, `ratelimit.py:76`: `check` drops the times of a bucket by its own
   rule's window although the bucket is kept for the longest window seen
   (`ratelimit.py:73`, `CHANGELOG.md:50`); with a shorter rule on a shared scope
   the longer rule grants more than its quota.  Requests take `check_batch`,
   which keeps them.
2. `websocket_denial`, `websockets.py:137`: a handshake "may only be denied before
   acceptance" (`websockets.py:198`), but `accept` records the acceptance after
   its await, and the `finally` of `_handle_websocket` denies a connection that
   was cancelled in between.
3. `lifespan_active`, `app.py:294`: the flag stays set when the answer to a
   startup cannot be sent; the next startup is told "Flasgo lifespan is already
   active." (`app.py:285`) though none is.

Met on the way, and not claimed as divergences that a run can show:

* "read timeouts in the built-in dev server" (`README.md:193`) are validated as
  settings (`app.py:858`) and applied nowhere: the read of a body
  (`request.py:256`) waits as long as the client stays.
* A caller that is cancelled inside `__aenter__` leaves the mode "async"
  (`testing.py:127`, `testing.py:146-157`): the client cannot be entered again.
  A context whose asynchronous startup timed out leaves its scope on the way, so
  that the next context of the same application is refused as already active.
* A thread that was given up reads the client's fields again when it gets on
  (`testing.py:226-238`), when they may belong to a later context, whose scope it
  then shuts down: `ShutdownAfterRequests` and `EnteredMeansUp` stop there.
* For HTTP the origin is compared with the host as both are written, for
  WebSocket with default ports filled in (`security.py:207-245`): a client that
  writes the default port in one header only is treated differently by the two.
* A 429 reports the delay of the first rule that denies, not of the longest
  (`app.py:975`), "so clients know when to retry" (`README.md:205`).  `RetryHonest`
  claims of the rule that is reported that it lets the client through by then;
  another one may still deny.
* For two routes with one template and method the OpenAPI document describes the
  later while the earlier answers (`openapi.py:33`).

## 5. Proofs

For every value of the constants that satisfies the modules' assumptions: finite
sets of requests, well-typed functions, positive limits.  Two of `Browser` say
more than that.  `SettingsAssumption` is what is meant by the constants that name
the addresses an application has and the pages it trusts: an address is its own
exactly when a configured pattern covers its host, as a name or as one below it,
and a page that a configured origin names is a trusted one, names being compared
label by label and ports with their defaults; the code compares what is written,
with dots, suffixes and left-out ports, and the theorems say the two agree.
`PagesAssumption` says that browsers leave out the port that is the default.

* **HttpProofs.**  The inductive invariant is `Inv == Typed /\ ContextScoped /\
  Shaped /\ GaugeExact /\ CookieEarned /\ AllGated`.  `NoSecondResponse` is not
  inductive: a request that sends its head is safe only because nothing was tried
  before, so
  `Shape(r)` relates the stage to what has been tried and taken (nothing up to
  `prepare`, a head in `body`, the whole response in `background`) and to the
  tasks that ran.  `CookieEarned` says a response carries a cookie only of a
  session that was edited and can be signed: `JarFromEditors`, a property of
  steps, needs it before the step.  `QuietSteps` shows once which actions leave
  the shape alone, so that the proof has one step per action that does not.
  `GaugeKept` and `GaugeLeft` carry the counting over finite sets.  `AllGated`
  ties every stage to the gates that lie before it, `EndpointGated` speaking of
  the last one only.
  The refinement `Implementation` maps every step to `Open`, `Emit`, `Work` or
  a stutter, using `Inv`.
  `RequestsRunOut` is what can be proved of `Answered`: `Ahead(r)` ranks the
  places a request can be at, counting the middlewares and tasks it has left
  (`Walked` says that they are no more than there are), and every step of a
  request lowers its own rank and no other's.  So a request takes at most
  `NBefore + NAfter + MaxTasks + 13` steps, however errors lead it back to
  `prepare`; that it takes them is fairness.
* **SecurityFailuresProofs.**  `TypeOK` is inductive by itself, with
  `start <= now` as the part that matters; the refinement shows that a dropped
  entry is one whose window is over, so the abstract windows do not see it.  For
  `TwiceTheLimit`, `Spread` says of each client's failures that the last ones, as
  many as the table counts, are the open window's, that the others are no later
  than its start and that all but the limit of those are a window before it: what
  a window's length can hold is the two windows that meet.
* **RateLimiterProofs.**  Every step is a `Call`, a pruning, a shortening of some
  buckets and at most one grant per bucket; `CheckBatch`, its failure and `check`
  are shown to be calls once.  `Kept` says that a bucket is the tail of its log
  and in order of time, from which `CountedOnce` and `Bounded` follow;
  `LostOnlyWhenCrowded` needs that eviction takes the oldest last grants.
  `QuotaKept` is proved for programs that call `check` only with the longest rule
  of a scope (`DirectLongest`), which excludes exactly finding 1: `Counting` says
  that what a bucket dropped is out of the window it had for it (`Over`), that
  its window is the longest of what it holds (`Within`), and that no grant was
  one too many (`WithinQuota`), whatever rules shortened it.  `RetryHonest` rests
  on `Modest`, that a bucket of one rule never counts more than its requests, so
  that the grant the delay waits for is the one that has to go, and on rounding
  up.  `DenialEarned` is the other side of `QuotaKept`: a call denies only when
  the history has the window of one of its rules full, and else counts the
  request for every rule.  It holds of `check_batch` and `check` alike and without
  `DirectLongest`, since a bucket never counts more than its history
  (`CountsGrantsOnly`) and what is dropped only makes it count less.  It has no
  run of its own.  `Min` and `Max` of finite sets are had from the well-foundedness of the
  numbers.
* **TestClientProofs, the scopes.**  `Inv == TypeOK /\ (Quiet => Orderly /\ \A s : Advanced(s)
  /\ Told(s))`: while no send was lost and no scopes overlapped, at most one
  scope is on its way and flag and generator are its own (`Orderly`), the
  generator is where the stage says (`Advanced`) and so are the answers
  (`Told`).  `Calm` steps leave the flags alone and have one proof.  A refinement
  `ClientSpec => Spec` shows that each step of the test client is a step of
  `Lifespan` or a stutter, so that the three promises hold of the scopes it
  drives.
* **TestClientProofs, the contexts.**  `ClientInv` adds three things to the types.  `Sole`
  holds while no scopes overlapped: at most one scope has the flag and the
  generator; unlike `Orderly` this survives cancellations and lost sends, which
  a server's scope may suffer beside the client.  `Exclusive` and `Phase` hold
  while no wait ran out of time: one context at a time is in progress, `_mode` is
  its own, and where the caller is with a context tells what its queue of
  coroutines, its loop, its events and its scope can be.  In particular nothing
  but the shutdown event takes a scope that came up from "running", nobody puts
  it while the caller is inside (`EnteredMeansUp`), and a context is left only
  once its scope is over (`LeftMeansOver`, with `HandlersFinished` for the
  generator).  A step of one context leaves what is said of the others alone
  (`Turn`), so that each action is looked at in its own context only.
  `LineInv`, for `ShutdownAfterRequests`, holds whatever runs out of time: no
  request is behind a stop in the same queue, and while a context that has begun
  is in progress, `_lifespan_task` is its own or that of a context without open
  requests (`TaskInLine`); so only the thread of a context that was left can shut
  down one that still has requests.
* **BrowserProofs.**  `Inv` says that the jar holds the cookie of the last
  response that left or removed one (`Jar`), and that a request which was answered
  carries what its worker left, stamped by that worker's clock (`Sane`).  A
  cookie is stamped and judged in whole seconds of two different clocks:
  `SecondsApart` and `SecondsFurther` bound what rounding and skew can make of
  the time between, whence a session is neither refused as too old or too new
  nor kept beyond its age.
  What the checks let through is proved of the predicates first: `HostsMeant`,
  that the hosts `host_is_allowed` accepts, by the text of the header with its
  trailing dots and suffixes, are those the patterns mean as names (`EndsBelow`:
  a name ends in ".name" exactly when it is below it); `SameCanonical`, that two
  origins compare equal with default ports filled in exactly when scheme, name
  and port agree.  From these, `PassesRight` (what passes is right, for
  `OthersRefused`) and `DuePasses` (what is due passes, for `OwnPageServed`).
  `OneToken` is the part of the state they need: unless requests without a token
  overlapped, at most one of those under way has none, and the page holds the
  browser's token or none.
* **RequestBodyProofs.**  `Inv == TypeOK /\ Undisturbed /\ Kept /\ ReadForForm
  /\ FormOfBody`.  `Undisturbed` says that while nothing is torn, at most one
  task reads and its chunks are exactly the pieces handed out so far; `Kept`
  that a body is kept only once the last piece was handed out, so that no task
  can receive another: this gives `OneBody`, also for torn requests.
  `Limited` speaks of the size of a whole body, a sum over a sequence.  Instead of
  a recursive sum, `Totals(n)` are the functions that run through the totals of
  the first pieces within the limit, and `Counted` says that what a reader has
  counted is where such a function ends: receiving a piece extends it by one
  (`TotalNext`), so that the induction over the pieces is that over the steps.
  That there is only one such function (`OneTotal`, from the well-foundedness of
  the numbers) is what a refused body needs: no total of its pieces is within
  the limit.
* **WebSocketProofs.**  `Inv == TypeOK /\ \A w : Talk(w) /\ Place(w)`.
  `ProtocolLegal` speaks of what was sent, while a step sends what some task
  decided to send an await earlier; so `Talk` says what may be under way beside
  what was sent: nothing but texts overlap (`Alone`), a call in its send fits
  the conversation as it now is (`Midway`), and while none answers, the state
  the application is shown is the one the conversation led to (`Told`).  A send
  that is refused leaves all of this as it was before its call, but for a denial
  cut in its middle, which is `torn`.  `Place` ties
  where the framework is to which calls can still be made.  A torn connection
  keeps only what holds of every call (`Met`).  The gauge is proved apart, as
  the number of handlers that run.  Every property of the run `websocket` is a
  theorem here.

* **RoutingProofs.**  `Inv == RoutesOK /\ DocumentOK`: the table is a sequence of
  routes with normalized methods, HEAD beside GET, and the document that is kept
  is that of the table unless it is marked dirty, which gives `PageFresh`.
  `MatchFinds` says what matching returns: zero exactly when no route takes the
  request, else the first that does; `AllowHonest` follows from it and from the
  normalized methods.  `MatchKept` says that a longer table answers what the
  shorter one answered in the same way, which is `NeverStolen`.  `PageTells`,
  which has no run, relates the document to the matching: what is answered is
  documented, HEAD beside GET aside, and each operation is of the last route that
  has it (see the last of the remarks in section 4).

The theorem about the rate limiter's quota assumes `DirectLongest`; no other
restricts the program further than the assumptions of its module.

Every invariant and action property of the passing runs is a theorem.  Only
model-checked is liveness (`Answered`, `CallsReturn`, `ThreadsEnd`, `ScopesEnd`,
`ReadEnds`), which the prover does not reach.

## 6. Not modelled

* A `Response` object that an application keeps and returns for several requests
  (`response.py:173`): each request of `Http` has one of its own, while in the
  code the cookies of every request that returned it stay in its list.  No
  document says what should happen then.
* A second startup in a lifespan scope, a shutdown before it and unknown events,
  which servers and the test client do not send.
* What a caller of `openapi_spec` may do to the document: it is handed the kept
  dictionary itself (`app.py:835`), and a change to it would be served.
* Values of headers, queries, forms and bodies; decoding in `Request`; the
  rejection of WebSocket scopes.
* Cookies that were forged or damaged (`Http` loads them as the empty session)
  and several secret keys.
* The `float` converter, converters inside a longer segment, numbers too long for
  `int()` and the table of
  WebSocket routes, which is matched like the other.
* Authentication backends, whose results are choices of `Http` and `WebSocket`.
* The test client's WebSocket transport, redirects and encoding of requests.
* Templates, static files, the SSRF guard, logging, debug pages, settings and the
  command line, which are input, output and formatting.

## 7. Plan

Done: the request pipeline with its abstract exchange; WebSocket, lifespan, test
client, throttle, limiter, body, the browser with the checks, and routing; proofs
of every invariant and action property.  Next, in this order:

1. `Http` with a `Response` shared by several requests, and the throttle and
   limiter composed with the pipeline.
2. Step bounds like `RequestsRunOut` for the scopes of `Lifespan` and the
   connections of `WebSocket`.
3. The test client's WebSocket transport; static files with their conditional
   requests.
