------------------------------ MODULE Lifespan ------------------------------
(* "lifespan" scopes: _handle_lifespan of flasgo/app.py.  Every scope has a  *)
(* task of its own; all share the registered async generator function, the   *)
(* flag _lifespan_active and the generator object _lifespan_iterator.  The   *)
(* generator may raise, return or yield again; a send may fail; a task may   *)
(* be cancelled wherever it waits; and scopes may overlap, as when the app   *)
(* is started again while an earlier scope is still being answered.          *)
(* A server sends a scope one startup, and then one shutdown: a second startup *)
(* in a scope, a shutdown before it and other events are not modelled.        *)
EXTENDS Integers, Sequences, FiniteSets

CONSTANTS Scope, NoScope
ASSUME LifespanAssumption == NoScope \notin Scope

VARIABLES
  handler,    \* a lifespan handler is registered
  pc,         \* pc[s]: where the task of scope s is
  gen,        \* gen[s]: the generator s created
  held,       \* held[s]: the generator s awaits in shutdown, by its scope
  active,     \* _lifespan_active
  iterator,   \* _lifespan_iterator, by the scope that created it
  sent,       \* sent[s]: answers the server took
  torn,       \* torn: a send failed, or a task was cancelled
  overlapped  \* a scope began while another was starting, stopping or answered

flags == <<active, iterator>>
history == <<torn, overlapped>>
vars == <<handler, pc, gen, held, flags, sent, history>>

Awaiting == {"starting", "completing", "closing", "refusing",
             "stopping", "stopped", "stopFailed"}
Over == {"done", "raised"}
Stage == {"idle", "running"} \cup Awaiting \cup Over
Answer == {"startup.complete", "startup.failed", "shutdown.complete", "shutdown.failed"}
Generator == {"none", "entered", "yielded", "again", "finished"}

Init ==
  /\ handler \in BOOLEAN
  /\ pc = [s \in Scope |-> "idle"]
  /\ gen = [s \in Scope |-> "none"]
  /\ held = [s \in Scope |-> NoScope]
  /\ active = FALSE
  /\ iterator = NoScope
  /\ sent = [s \in Scope |-> <<>>]
  /\ torn = FALSE
  /\ overlapped = FALSE

----------------------------------------------------------------------------
Goto(s, stage) == pc' = [pc EXCEPT ![s] = stage]

\* The task waits in `send`, which has or has not handed the answer over.
Answering(s, stage, answer) ==
  /\ Goto(s, stage)
  /\ \E got \in BOOLEAN : sent' = IF got THEN [sent EXCEPT ![s] = Append(@, answer)]
                                  ELSE sent
Took(s, answer) == sent[s] # <<>> /\ sent[s][Len(sent[s])] = answer

\* The `finally` of shutdown.
Deactivate == active' = FALSE /\ iterator' = NoScope

\* lifespan.startup while the application counts as started.
RefuseActive(s) ==
  /\ pc[s] = "idle" /\ active
  /\ Answering(s, "refusing", "startup.failed")
  /\ overlapped' = (overlapped \/ \E t \in Scope : pc[t] \in Awaiting)
  /\ UNCHANGED <<handler, gen, held, flags, torn>>

\* lifespan.startup: the generator is created and entered ...
Start(s) ==
  /\ pc[s] = "idle" /\ ~active
  /\ IF handler
       THEN /\ Goto(s, "starting")
            /\ gen' = [gen EXCEPT ![s] = "entered"]
            /\ UNCHANGED <<flags, sent>>
       ELSE /\ Answering(s, "completing", "startup.complete")
            /\ active' = TRUE
            /\ UNCHANGED <<gen, iterator>>
  /\ overlapped' = (overlapped \/ \E t \in Scope : pc[t] \in Awaiting)
  /\ UNCHANGED <<handler, held, torn>>

\* ... and yields: active is set only now.
Yields(s) ==
  /\ pc[s] = "starting"
  /\ gen' = [gen EXCEPT ![s] = "yielded"]
  /\ iterator' = s
  /\ active' = TRUE
  /\ Answering(s, "completing", "startup.complete")
  /\ UNCHANGED <<handler, held, history>>

\* The `except` of startup: whatever generator is stored is closed first.
StartupFails(s) ==
  IF iterator # NoScope
    THEN /\ Goto(s, "closing")
         /\ held' = [held EXCEPT ![s] = iterator]
         /\ UNCHANGED sent
    ELSE Answering(s, "refusing", "startup.failed") /\ UNCHANGED held

\* The generator raises, or returns without yielding.
StartRaises(s) ==
  /\ pc[s] = "starting"
  /\ gen' = [gen EXCEPT ![s] = "finished"]
  /\ StartupFails(s)
  /\ UNCHANGED <<handler, flags, history>>

\* The send of startup.complete raises: taken for a failed startup, and the
\* application stays active.
CompleteFails(s) ==
  /\ pc[s] = "completing"
  /\ StartupFails(s)
  /\ torn' = TRUE
  /\ UNCHANGED <<handler, gen, flags, overlapped>>

\* aclose() returns, or raises out of the handler.
Closes(s) ==
  /\ pc[s] = "closing"
  /\ gen' = [gen EXCEPT ![held[s]] = "finished"]
  /\ iterator' = NoScope
  /\ Answering(s, "refusing", "startup.failed")
  /\ UNCHANGED <<handler, held, active, history>>

CloseRaises(s) ==
  /\ pc[s] = "closing"
  /\ gen' = [gen EXCEPT ![held[s]] = "finished"]
  /\ Goto(s, "raised")
  /\ UNCHANGED <<handler, held, flags, sent, history>>

Completes(s) ==
  /\ pc[s] = "completing" /\ Took(s, "startup.complete")
  /\ Goto(s, "running")
  /\ UNCHANGED <<handler, gen, held, flags, sent, history>>

\* Mutant: the handler waits for another event after a failed startup.
RefusesAndWaits(s) ==
  /\ pc[s] = "refusing" /\ Took(s, "startup.failed")
  /\ Goto(s, "running")
  /\ UNCHANGED <<handler, gen, held, flags, sent, history>>

Refuses(s) ==
  /\ pc[s] = "refusing" /\ Took(s, "startup.failed")
  /\ Goto(s, "done")
  /\ UNCHANGED <<handler, gen, held, flags, sent, history>>

----------------------------------------------------------------------------
\* Mutant: the generator is dropped, not resumed.
ShutdownDrops(s) ==
  /\ pc[s] = "running" /\ active /\ iterator # NoScope
  /\ Deactivate
  /\ Answering(s, "stopped", "shutdown.complete")
  /\ UNCHANGED <<handler, gen, held, history>>

\* lifespan.shutdown: the stored generator is resumed, if there is one.
Shutdown(s) ==
  /\ pc[s] = "running" /\ active /\ iterator # NoScope
  /\ Goto(s, "stopping")
  /\ held' = [held EXCEPT ![s] = iterator]
  /\ UNCHANGED <<handler, gen, flags, sent, history>>

\* Mutant: an application without a handler is not shut down.
ShutdownInactive(s) ==
  /\ pc[s] = "running" /\ ~active
  /\ Deactivate
  /\ Answering(s, "stopped", "shutdown.complete")
  /\ UNCHANGED <<handler, gen, held, history>>

\* No generator to resume, or another scope has deactivated the application.
ShutdownPlain(s) ==
  /\ pc[s] = "running" /\ ~(active /\ iterator # NoScope)
  /\ Deactivate
  /\ Answering(s, "stopped", "shutdown.complete")
  /\ UNCHANGED <<handler, gen, held, history>>

\* The generator ends, as it should.
Stops(s) ==
  /\ pc[s] = "stopping"
  /\ gen' = [gen EXCEPT ![held[s]] = "finished"]
  /\ Deactivate
  /\ Answering(s, "stopped", "shutdown.complete")
  /\ UNCHANGED <<handler, held, history>>

\* It raises, or yields a second time: shutdown.failed.
StopRaises(s) ==
  /\ pc[s] = "stopping" /\ gen[held[s]] \in {"yielded", "again"}
  /\ \E g \in {"finished", "again"} : gen' = [gen EXCEPT ![held[s]] = g]
  /\ Answering(s, "stopFailed", "shutdown.failed")
  /\ UNCHANGED <<handler, held, flags, history>>

\* The send of shutdown.complete raises: shutdown.failed is sent as well.
StoppedFails(s) ==
  /\ pc[s] = "stopped"
  /\ Answering(s, "stopFailed", "shutdown.failed")
  /\ torn' = TRUE
  /\ UNCHANGED <<handler, gen, held, flags, overlapped>>

\* Mutant: without the `finally`.
ShutsDownKeepsFlags(s) ==
  /\ \/ pc[s] = "stopped" /\ Took(s, "shutdown.complete")
     \/ pc[s] = "stopFailed" /\ Took(s, "shutdown.failed")
  /\ Goto(s, "done")
  /\ UNCHANGED <<handler, gen, held, flags, sent, history>>

\* The shutdown is answered; the `finally` deactivates.
ShutsDown(s) ==
  /\ \/ pc[s] = "stopped" /\ Took(s, "shutdown.complete")
     \/ pc[s] = "stopFailed" /\ Took(s, "shutdown.failed")
  /\ Goto(s, "done")
  /\ Deactivate
  /\ UNCHANGED <<handler, gen, held, sent, history>>

----------------------------------------------------------------------------
\* The send of a failure raises out of the handler.
FailureFails(s) ==
  /\ pc[s] \in {"refusing", "stopFailed"}
  /\ Goto(s, "raised")
  /\ IF pc[s] = "stopFailed" THEN Deactivate ELSE UNCHANGED flags
  /\ torn' = TRUE
  /\ UNCHANGED <<handler, gen, held, sent, overlapped>>

\* The task is cancelled: no `except` clause runs, the `finally` of shutdown
\* does.  A generator that was being awaited is cancelled with it.
Cancel(s) ==
  /\ pc[s] \in Awaiting \cup {"running"}
  /\ Goto(s, "raised")
  /\ torn' = TRUE
  /\ gen' = IF pc[s] = "starting" THEN [gen EXCEPT ![s] = "finished"]
            ELSE IF pc[s] \in {"stopping", "closing"}
              THEN [gen EXCEPT ![held[s]] = "finished"]
            ELSE gen
  /\ IF pc[s] \in {"stopping", "stopped", "stopFailed"} THEN Deactivate
     ELSE UNCHANGED flags
  /\ UNCHANGED <<handler, held, sent, overlapped>>

Startup(s) == \/ RefuseActive(s) \/ Start(s) \/ Yields(s) \/ StartRaises(s)
              \/ CompleteFails(s) \/ Closes(s) \/ CloseRaises(s)
              \/ Completes(s) \/ Refuses(s)
Stopping(s) == \/ Shutdown(s) \/ ShutdownPlain(s) \/ Stops(s) \/ StopRaises(s)
               \/ StoppedFails(s) \/ ShutsDown(s)
Progress(s) == Startup(s) \/ Stopping(s) \/ FailureFails(s)

Next == \E s \in Scope : Progress(s) \/ Cancel(s)

Spec == Init /\ [][Next]_vars

\* The server begins every scope and shuts it down, generators come to an end,
\* and a send returns or raises.
FairSpec == Spec /\ \A s \in Scope : WF_vars(Progress(s))

----------------------------------------------------------------------------
InProgress == {s \in Scope : pc[s] \in Awaiting \cup {"running"}}
Quiet == ~torn /\ ~overlapped

TypeOK ==
  /\ handler \in BOOLEAN
  /\ pc \in [Scope -> Stage]
  /\ gen \in [Scope -> Generator]
  /\ held \in [Scope -> Scope \cup {NoScope}]
  /\ active \in BOOLEAN
  /\ iterator \in Scope \cup {NoScope}
  /\ sent \in [Scope -> Seq(Answer)]
  /\ torn \in BOOLEAN /\ overlapped \in BOOLEAN

\* The server gets one answer to a startup and, if it was complete, one to the
\* shutdown, also when the generator fails (app.py 281-341).
AnswersInOrder ==
  Quiet => \A s \in Scope :
    \/ Len(sent[s]) <= 1
         /\ (sent[s] # <<>> => sent[s][1] \in {"startup.complete", "startup.failed"})
    \/ /\ Len(sent[s]) = 2
       /\ sent[s][1] = "startup.complete"
       /\ sent[s][2] \in {"shutdown.complete", "shutdown.failed"}

\* With scopes one after the other, the application is active exactly while one
\* of them is up, and then it holds that scope's generator: a scope refused for
\* being second disturbs nothing, and after a shutdown, failed or not, the
\* application can be started again (app.py 281, 294, 338-340).
ActiveExact ==
  Quiet =>
    /\ active => \E s \in InProgress :
         pc[s] \in {"completing", "running", "stopping", "stopFailed"}
    /\ \A s \in Scope :
         pc[s] \in {"completing", "running", "stopping"} =>
           active /\ iterator = IF handler THEN s ELSE NoScope

\* The shutdown half of every handler that came up has run when its scope is
\* over, unless it yielded twice (app.py 315-321).
HandlersFinished ==
  Quiet => \A s \in Scope : pc[s] \in Over => gen[s] \in {"none", "finished", "again"}

\* "Flasgo lifespan is already active." (app.py 285): it is, whenever a startup
\* is refused for it.
ActiveIsTrue == active => InProgress # {}
=============================================================================
