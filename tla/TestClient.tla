----------------------------- MODULE TestClient -----------------------------
(* The contexts of flasgo.testing.TestClient and the lifespan scopes they    *)
(* start: `with client:` runs the application in a loop of its own, driven   *)
(* by a thread that takes coroutines from a queue and runs each to its end;  *)
(* `async with client:` runs it in the caller's loop.  One caller enters and *)
(* leaves the contexts one after the other; a call that takes too long is    *)
(* given up while the loop goes on with it.  Scopes of a server that runs    *)
(* the same application come and go beside them.                             *)
(* A coroutine's code between two awaits is one step; so are the caller's    *)
(* statements up to the next call that blocks.                               *)
EXTENDS Lifespan

CONSTANT Drives  \* the ways in which the scopes may be driven
ASSUME TestClientAssumption == Drives \subseteq [Scope -> {"served", "sync", "async"}]

VARIABLES
  kind,        \* kind[c]: how scope c is driven
  mode,        \* _mode
  task,        \* _lifespan_task, by its scope
  at,          \* at[c]: where the caller is with context c
  reply,       \* reply[c]: the future of the caller's last call
  work,        \* work[c]: _work_queue
  run,         \* run[c]: the coroutine the loop of c runs, or where it waits
  event,       \* event[c]: the last lifespan event put into c's queue
  read,        \* read[c]: answers taken from c's queue
  late,        \* a wait of the client ran out of time
  interrupted  \* the caller was cancelled inside a call

queues == <<work, event, read>>
marks == <<late, interrupted>>
client == <<kind, mode, task, at, reply, run, queues, marks>>
world == <<vars, client>>

Blocked == {"entering", "requesting", "leaving"}
Inside == {"within", "requesting", "asked"}

ClientInit ==
  /\ Init
  /\ kind \in Drives
  /\ mode = "none"
  /\ task = NoScope
  /\ at = [c \in Scope |-> "out"]
  /\ reply = [c \in Scope |-> "none"]
  /\ work = [c \in Scope |-> <<>>]
  /\ run = [c \in Scope |-> "idle"]
  /\ event = [c \in Scope |-> "none"]
  /\ read = [c \in Scope |-> 0]
  /\ late = FALSE
  /\ interrupted = FALSE

----------------------------------------------------------------------------
(* The caller.                                                             *)

Move(c, stage) == at' = [at EXCEPT ![c] = stage]

\* Mutant: the newest coroutine goes first.
SubmitFirst(c, stage, coroutine) ==
  /\ Move(c, stage)
  /\ work' = [work EXCEPT ![c] = <<coroutine>> \o @]
  /\ reply' = [reply EXCEPT ![c] = "pending"]

\* The call hands a coroutine to the loop and waits for its future.
Submit(c, stage, coroutine) ==
  /\ Move(c, stage)
  /\ work' = [work EXCEPT ![c] = Append(@, coroutine)]
  /\ reply' = [reply EXCEPT ![c] = "pending"]

\* Entering: refused, without effect, unless no context is in progress.
Enter(c) ==
  /\ at[c] = "out" /\ kind[c] # "served" /\ mode = "none"
  /\ mode' = kind[c]
  /\ Submit(c, "entering", "start")
  /\ UNCHANGED <<vars, kind, task, run, event, read, marks>>

Request(c) ==
  /\ at[c] = "within"
  /\ Submit(c, "requesting", "request")
  /\ UNCHANGED <<vars, kind, mode, task, run, event, read, marks>>

Leave(c) ==
  /\ at[c] \in {"within", "asked"}
  /\ Submit(c, "leaving", "stop")
  /\ UNCHANGED <<vars, kind, mode, task, run, event, read, marks>>

\* Mutant: the thread is joined without being told to close.
QuitUnannounced(c) ==
  /\ UNCHANGED work
  /\ IF kind[c] = "sync"
       THEN /\ Move(c, "joining")
            /\ UNCHANGED mode
       ELSE /\ Move(c, "left")
            /\ mode' = "none"

\* The context is given up: the thread is told to close, or the mode is reset.
Quit(c) ==
  IF kind[c] = "sync"
    THEN /\ Move(c, "joining")
         /\ work' = [work EXCEPT ![c] = Append(@, "close")]
         /\ UNCHANGED mode
    ELSE /\ Move(c, "left")
         /\ mode' = "none"
         /\ UNCHANGED work

\* The future has its result: the call returns or raises.
Returned(c) ==
  /\ at[c] \in Blocked /\ reply[c] \in {"ok", "error"}
  /\ CASE at[c] = "entering" /\ reply[c] = "ok" -> Move(c, "within") /\ UNCHANGED <<mode, work>>
       [] at[c] = "requesting" -> Move(c, "asked") /\ UNCHANGED <<mode, work>>
       [] OTHER -> Quit(c)
  /\ UNCHANGED <<vars, kind, task, reply, run, event, read, marks>>

\* Mutant: the future of a request is waited for without a timeout.
GiveUpLifespan(c) ==
  /\ at[c] \in {"entering", "leaving"} /\ kind[c] = "sync" /\ reply[c] = "pending"
  /\ late' = TRUE
  /\ reply' = [reply EXCEPT ![c] = "error"]
  /\ Quit(c)
  /\ UNCHANGED <<vars, kind, task, run, event, read, interrupted>>

\* future.result(timeout=10) gives up.
GiveUp(c) ==
  /\ at[c] \in Blocked /\ kind[c] = "sync" /\ reply[c] = "pending"
  /\ late' = TRUE
  /\ reply' = [reply EXCEPT ![c] = "error"]
  /\ IF at[c] = "requesting" THEN Move(c, "asked") /\ UNCHANGED <<mode, work>>
     ELSE Quit(c)
  /\ UNCHANGED <<vars, kind, task, run, event, read, interrupted>>

\* Mutant: the thread is not joined.
Unjoined(c) ==
  /\ at[c] = "joining"
  /\ Move(c, "left")
  /\ mode' = "none"
  /\ UNCHANGED <<vars, kind, task, reply, run, queues, marks>>

\* join(timeout=5) returns or gives up; the fields are cleared either way.
Joined(c) ==
  /\ at[c] = "joining"
  /\ late' = (late \/ run[c] # "closed")
  /\ Move(c, "left")
  /\ mode' = "none"
  /\ UNCHANGED <<vars, kind, task, reply, run, queues, interrupted>>

----------------------------------------------------------------------------
(* The loop of a context.                                                  *)

\* A task that answers goes on to its next wait before anything else of its
\* loop runs: the queue takes the answer without waiting.
Sending == {"completing", "refusing", "stopped", "stopFailed"}
Between(c) == pc[c] \notin Sending

\* The coroutine ends; its future is read if the caller still waits for it.
Finish(c, coroutine, result) ==
  /\ run' = [run EXCEPT ![c] = "idle"]
  /\ reply' = IF reply[c] = "pending"
                   /\ at[c] = [start |-> "entering", request |-> "requesting", stop |-> "leaving"][coroutine]
              THEN [reply EXCEPT ![c] = result] ELSE reply

Takes(c, item) ==
  /\ run[c] = "idle" /\ work[c] # <<>> /\ Head(work[c]) = item
  /\ work' = [work EXCEPT ![c] = Tail(@)]

Wait(c, stage) == run' = [run EXCEPT ![c] = stage]

Put(s, message) == event' = [event EXCEPT ![s] = message]

\* _start_lifespan: a task for the new scope, and its startup event.
Starts(c) ==
  /\ Takes(c, "start")
  /\ task' = c
  /\ Put(c, "startup")
  /\ Wait(c, "starting")
  /\ UNCHANGED <<vars, kind, mode, at, reply, read, marks>>

Answered(c) == Len(sent[c]) > read[c]
TheAnswer(c) == sent[c][read[c] + 1]
ReadAnswer(c) == read' = [read EXCEPT ![c] = @ + 1]

\* Mutant: any answer to the startup will do.
StartAnsweredAnyhow(c) ==
  /\ run[c] = "starting" /\ Answered(c)
  /\ ReadAnswer(c)
  /\ Finish(c, "start", "ok")
  /\ UNCHANGED <<vars, kind, mode, task, at, work, event, marks>>

StartAnswered(c) ==
  /\ run[c] = "starting" /\ Answered(c)
  /\ ReadAnswer(c)
  /\ IF TheAnswer(c) = "startup.complete" THEN Finish(c, "start", "ok")
     ELSE Wait(c, "failing") /\ UNCHANGED reply
  /\ UNCHANGED <<vars, kind, mode, task, at, work, event, marks>>

IsDone(s) == s # NoScope /\ pc[s] \in Over

\* The failed task is awaited; that of another loop cannot be.
StartFailed(c) ==
  /\ run[c] = "failing" /\ (task = c => IsDone(c))
  /\ Finish(c, "start", "error")
  /\ UNCHANGED <<vars, kind, mode, task, at, queues, marks>>

Serves(c) ==
  /\ Takes(c, "request")
  /\ Wait(c, "serving")
  /\ UNCHANGED <<vars, kind, mode, task, at, reply, event, read, marks>>

Served(c) ==
  /\ run[c] = "serving"
  /\ \E result \in {"ok", "error"} : Finish(c, "request", result)
  /\ UNCHANGED <<vars, kind, mode, task, at, queues, marks>>

\* _stop_lifespan: nothing is left to stop ...
StopsNothing(c) ==
  /\ Takes(c, "stop") /\ (task = NoScope \/ IsDone(task))
  /\ Finish(c, "stop", "ok")
  /\ UNCHANGED <<vars, kind, mode, task, at, event, read, marks>>

\* ... or the task is told to shut down ...
StopsOwn(c) ==
  /\ Takes(c, "stop") /\ task = c /\ ~IsDone(c)
  /\ Put(c, "shutdown")
  /\ Wait(c, "stopping")
  /\ UNCHANGED <<vars, kind, mode, task, at, reply, read, marks>>

\* ... also when it is, by now, that of a later context: an answer that lies
\* in its queue is taken; its loop's futures cannot be awaited.
StopsOther(c) ==
  /\ Takes(c, "stop") /\ task \notin {c, NoScope} /\ ~IsDone(task)
  /\ Put(task, "shutdown")
  /\ IF Answered(task) THEN ReadAnswer(task) ELSE UNCHANGED read
  /\ Finish(c, "stop", "error")
  /\ UNCHANGED <<vars, kind, mode, task, at, marks>>

StopAnswered(c) ==
  /\ run[c] = "stopping" /\ Answered(c)
  /\ ReadAnswer(c)
  /\ Wait(c, "ending")
  /\ UNCHANGED <<vars, kind, mode, task, at, reply, work, event, marks>>

\* The task has ended: the field is cleared, and the answer that was read tells
\* whether the call raises.  The field is read again, and may by now be None or
\* the task of a later context.
StopEnds(c) ==
  /\ run[c] = "ending" /\ (task = c => IsDone(c))
  /\ IF IsDone(task) /\ pc[task] = "done"
       THEN /\ task' = NoScope
            /\ Finish(c, "stop", IF sent[c][read[c]] = "shutdown.complete" THEN "ok" ELSE "error")
       ELSE /\ UNCHANGED task
            /\ Finish(c, "stop", "error")
  /\ UNCHANGED <<vars, kind, mode, at, queues, marks>>

\* A wait for an answer, or for the end of the task, takes more than 5 seconds.
\* A task that was waited for is cancelled with the wait.
TimesOut(c) ==
  /\ run[c] \in {"starting", "stopping", "ending"}
  /\ late' = TRUE
  /\ Finish(c, IF run[c] = "starting" THEN "start" ELSE "stop", "error")
  /\ IF run[c] = "ending" /\ task = c /\ ~IsDone(c) THEN Cancel(c) ELSE UNCHANGED vars
  /\ UNCHANGED <<kind, mode, task, at, queues, interrupted>>

Closed(c) ==
  /\ Takes(c, "close")
  /\ Wait(c, "closed")
  /\ UNCHANGED <<vars, kind, mode, task, at, reply, event, read, marks>>

\* The caller's own task is cancelled in an async context, and the coroutine it
\* awaits with it.  __aenter__ does not reset the mode.
Interrupt(c) ==
  /\ kind[c] = "async" /\ at[c] \in Blocked /\ run[c] # "idle"
  /\ interrupted' = TRUE
  /\ run' = [run EXCEPT ![c] = "idle"]
  /\ reply' = [reply EXCEPT ![c] = "error"]
  /\ Move(c, IF at[c] = "requesting" THEN "asked" ELSE "left")
  /\ mode' = IF at[c] = "leaving" THEN "none" ELSE mode
  /\ IF run[c] \in {"failing", "ending"} /\ task = c /\ ~IsDone(c)
       THEN Cancel(c) ELSE UNCHANGED vars
  /\ UNCHANGED <<kind, task, queues, late>>

----------------------------------------------------------------------------
(* The application's task of a context.                                    *)

\* It runs while its loop does: a thread's loop only runs with a coroutine.
Runs(c) == /\ event[c] # "none"
           /\ kind[c] = "sync" => run[c] \notin {"idle", "closed"}

\* The queue takes every answer at once.
Delivered(c) == pc'[c] # pc[c] /\ pc'[c] \in Sending => sent' # sent

\* Between two events, or until the handler's generator gets on.
Steps(c) ==
  /\ kind[c] # "served" /\ Runs(c)
  /\ \/ RefuseActive(c) \/ Start(c) \/ Completes(c) \/ Refuses(c) \/ ShutsDown(c)
     \/ event[c] = "shutdown" /\ (Shutdown(c) \/ ShutdownPlain(c))
  /\ Delivered(c)
  /\ UNCHANGED client

\* The handler's generator gets on.
Generates(c) ==
  /\ kind[c] # "served" /\ Runs(c)
  /\ Yields(c) \/ StartRaises(c) \/ Closes(c) \/ CloseRaises(c) \/ Stops(c) \/ StopRaises(c)
  /\ Delivered(c)
  /\ UNCHANGED client

\* A task that no loop will run again is collected, and a task left in the
\* caller's loop is cancelled with it.
Discard(c) ==
  /\ Between(c) /\ kind[c] # "served" /\ at[c] = "left" /\ (kind[c] = "sync" => run[c] = "closed")
  /\ Cancel(c)
  /\ UNCHANGED client

Serve(s) == kind[s] = "served" /\ Progress(s) /\ UNCHANGED client
CancelServed(s) == kind[s] = "served" /\ Cancel(s) /\ UNCHANGED client

----------------------------------------------------------------------------
Caller(c) == \/ Enter(c) \/ Request(c) \/ Leave(c)
             \/ Returned(c) \/ GiveUp(c) \/ Joined(c)
Loop(c) == \/ Starts(c) \/ StartAnswered(c) \/ StartFailed(c) \/ Serves(c)
           \/ StopsNothing(c) \/ StopsOwn(c) \/ StopsOther(c)
           \/ StopAnswered(c) \/ StopEnds(c) \/ TimesOut(c) \/ Closed(c)
Tasks(c) == Steps(c) \/ Generates(c) \/ Discard(c) \/ Serve(c) \/ CancelServed(c)

ClientNext == \E c \in Scope :
  \/ Caller(c) \/ Tasks(c)
  \/ Between(c) /\ (Loop(c) \/ Served(c) \/ Interrupt(c))

ClientSpec == ClientInit /\ [][ClientNext]_world

\* A block of code that is entered is left and its calls, threads and timers get
\* on.  Neither an endpoint nor a handler's generator need ever end: only a
\* caller in its own loop waits for the former as long as it takes.
ClientFairSpec ==
  /\ ClientSpec
  /\ \A c \in Scope :
       /\ WF_world(Leave(c) \/ Returned(c) \/ GiveUp(c) \/ Joined(c))
       /\ WF_world(Between(c) /\ Loop(c))
       /\ WF_world(kind[c] = "async" /\ Between(c) /\ Served(c))
       /\ WF_world(Steps(c))
       /\ WF_world(Serve(c))

----------------------------------------------------------------------------
Timely == ~late /\ ~interrupted

\* While a context is entered its scope is up: the startup half of the handler
\* has run, the shutdown half has not, and the application is active; so every
\* request of the context is served by a started application.  Beside a server
\* of the same application, or after a call that ran out of time, another scope
\* may take the flags away (testing.py 201-224).
EnteredMeansUp ==
  Timely /\ ~overlapped =>
    \A c \in Scope : kind[c] # "served" /\ at[c] \in Inside =>
      /\ pc[c] = "running"
      /\ active
      /\ gen[c] = IF handler THEN "yielded" ELSE "none"

\* A context that was left without an error leaves nothing behind: its scope is
\* over, its generator finished and its thread has closed the loop; also one
\* whose startup or shutdown failed is over (testing.py 125-164, 226-238).
LeftMeansOver ==
  Timely /\ ~torn =>
    \A c \in Scope : kind[c] # "served" /\ at[c] = "left" =>
      /\ pc[c] \in Over
      /\ overlapped \/ gen[c] \in {"none", "finished", "again"}
      /\ kind[c] = "sync" => run[c] = "closed"

\* Calls to a loop are run in the order they were made: the shutdown event of a
\* context is not put before its requests have been answered, even those whose
\* caller gave up waiting; unless a thread that was given up acts on a later
\* context (testing.py 166-181, 193-199).
Unanswered(c) == run[c] = "serving" \/ \E i \in 1..Len(work[c]) : work[c][i] = "request"
GivenUp(c) == kind[c] = "sync" /\ at[c] = "left" /\ run[c] # "closed"
ShutdownAfterRequests ==
  [][\A c \in Scope :
       event[c] # "shutdown" /\ event'[c] = "shutdown" /\ Unanswered(c) =>
         \E b \in Scope \ {c} : GivenUp(b)]_world

\* Every call of the client returns or raises, although a handler may hang in
\* its startup and in its shutdown and an endpoint may hang (testing.py 193-199,
\* 219, 234-235).
CallsReturn == \A c \in Scope : at[c] \in Blocked \cup {"joining"} ~> at[c] \in {"within", "asked", "left"}

\* The thread of a context that was left ends, unless an endpoint hangs in it.
ThreadsEnd == \A c \in Scope : <>[](GivenUp(c) => run[c] = "serving")

\* A scope is over at some time, after a failed startup without another event
\* and after its shutdown whatever the generator does, unless its client gave
\* it up (app.py 276-341).
ScopesEnd == \A s \in Scope :
  pc[s] # "idle" ~> pc[s] \in Over \/ (kind[s] # "served" /\ (late \/ interrupted))
=============================================================================
