-------------------------- MODULE TestClientProofs --------------------------
(* The lifespan scopes of an application and its test client's contexts.     *)
(* Part one: what Lifespan promises of scopes that come one after the other  *)
(* and fail in no send, for any number of scopes; and that the scopes of     *)
(* TestClient are scopes of Lifespan, so that they keep the same promises.   *)
(* Part two: that the caller of the test client is inside a context only     *)
(* while its scope is up and that a context leaves nothing behind, for any   *)
(* number of contexts, one after the other, and of scopes of a server beside *)
(* them.  The flag and the generator belong to at most one scope at a time   *)
(* (Sole); one context at a time is in progress (Exclusive); and where its   *)
(* caller is tells where its loop and scope are (Phase).  Then, also when    *)
(* time runs out, that a context is shut down after its requests.            *)
EXTENDS TestClient, TLAPS

----------------------------------------------------------------------------
(* Types                                                                   *)

LEMMA AnsweringType ==
  ASSUME TypeOK, NEW s \in Scope, NEW stage \in Stage, NEW answer \in Answer,
         Answering(s, stage, answer)
  PROVE  /\ pc' \in [Scope -> Stage]
         /\ sent' \in [Scope -> Seq(Answer)]
         /\ pc'[s] = stage
         /\ sent'[s] \in {sent[s], Append(sent[s], answer)}
         /\ \A t \in Scope \ {s} : pc'[t] = pc[t] /\ sent'[t] = sent[t]
<1>1. Append(sent[s], answer) \in Seq(Answer)
  BY DEF TypeOK
<1> QED
  BY <1>1 DEF TypeOK, Answering, Goto

LEMMA StageType ==
  /\ {"idle", "starting", "completing", "running", "closing", "refusing",
      "stopping", "stopped", "stopFailed", "done", "raised"} = Stage
  /\ {"startup.complete", "startup.failed", "shutdown.complete", "shutdown.failed"} = Answer
BY DEF Stage, Awaiting, Over, Answer

LEMMA InitType == Init => TypeOK
<1>1. <<>> \in Seq(Answer)
  OBVIOUS
<1>2. "idle" \in Stage /\ "none" \in Generator
  BY DEF Stage, Generator
<1> QED
  BY <1>1, <1>2 DEF Init, TypeOK

LEMMA StartType ==
  ASSUME TypeOK, NEW s \in Scope,
         \/ RefuseActive(s) \/ Start(s) \/ Yields(s) \/ StartRaises(s) \/ CompleteFails(s)
  PROVE  TypeOK'
<1> USE StageType
<1>1. CASE RefuseActive(s)
  BY <1>1, AnsweringType DEF RefuseActive, TypeOK, flags
<1>2. CASE Start(s)
  <2>1. CASE handler
    BY <1>2, <2>1 DEF Start, Goto, TypeOK, flags, Generator
  <2>2. CASE ~handler
    BY <1>2, <2>2, AnsweringType DEF Start, TypeOK
  <2>3. QED
    BY <2>1, <2>2
<1>3. CASE Yields(s)
  BY <1>3, AnsweringType DEF Yields, TypeOK, history, Generator
<1>4. ASSUME StartupFails(s)
      PROVE  /\ pc' \in [Scope -> Stage] /\ held' \in [Scope -> Scope \cup {NoScope}]
             /\ sent' \in [Scope -> Seq(Answer)]
  <2>1. CASE iterator # NoScope
    BY <1>4, <2>1 DEF StartupFails, Goto, TypeOK
  <2>2. CASE iterator = NoScope
    BY <1>4, <2>2, AnsweringType DEF StartupFails, TypeOK
  <2>3. QED
    BY <2>1, <2>2
<1>5. CASE StartRaises(s)
  BY <1>4, <1>5 DEF StartRaises, TypeOK, flags, history, Generator
<1>6. CASE CompleteFails(s)
  BY <1>4, <1>6 DEF CompleteFails, TypeOK, flags
<1> QED
  BY <1>1, <1>2, <1>3, <1>5, <1>6

LEMMA StopType ==
  ASSUME TypeOK, NEW s \in Scope,
         Stopping(s) \/ FailureFails(s) \/ Cancel(s)
  PROVE  TypeOK'
<1> USE StageType
<1>1. CASE Shutdown(s)
  BY <1>1 DEF Shutdown, Goto, TypeOK, flags, history
<1>2. CASE ShutdownPlain(s)
  BY <1>2, AnsweringType DEF ShutdownPlain, Deactivate, TypeOK, history
<1>3. CASE Stops(s)
  BY <1>3, AnsweringType DEF Stops, Deactivate, TypeOK, history, Generator
<1>4. CASE StopRaises(s)
  <2>1. gen' \in [Scope -> Generator]
    BY <1>4 DEF StopRaises, TypeOK, Generator
  <2>2. pc' \in [Scope -> Stage] /\ sent' \in [Scope -> Seq(Answer)]
    BY <1>4, AnsweringType DEF StopRaises
  <2>3. QED
    BY <1>4, <2>1, <2>2 DEF StopRaises, TypeOK, flags, history
<1>5. CASE StoppedFails(s)
  BY <1>5, AnsweringType DEF StoppedFails, TypeOK, flags
<1>6. CASE ShutsDown(s)
  BY <1>6 DEF ShutsDown, Goto, Deactivate, TypeOK, history
<1>7. CASE FailureFails(s)
  BY <1>7 DEF FailureFails, Goto, Deactivate, TypeOK, flags
<1>8. CASE Cancel(s)
  <2>1. "raised" \in Stage /\ "finished" \in Generator
    BY DEF Generator
  <2>2. pc' \in [Scope -> Stage]
    BY <1>8, <2>1 DEF Cancel, Goto, TypeOK
  <2>3. gen' \in [Scope -> Generator]
    BY <1>8, <2>1 DEF Cancel, TypeOK
  <2>4. active' \in BOOLEAN /\ iterator' \in Scope \cup {NoScope}
    BY <1>8 DEF Cancel, Deactivate, flags, TypeOK
  <2>5. QED
    BY <1>8, <2>2, <2>3, <2>4 DEF Cancel, TypeOK
<1> QED
  BY <1>1, <1>2, <1>3, <1>4, <1>5, <1>6, <1>7, <1>8 DEF Stopping

LEMMA TypeStep == TypeOK /\ [Next]_vars => TypeOK'
<1> SUFFICES ASSUME TypeOK, [Next]_vars PROVE TypeOK'
  OBVIOUS
<1> USE StageType
<1>1. ASSUME NEW s \in Scope, Closes(s) PROVE TypeOK'
  BY <1>1, AnsweringType DEF Closes, TypeOK, history, Generator
<1>2. ASSUME NEW s \in Scope, CloseRaises(s) PROVE TypeOK'
  BY <1>2 DEF CloseRaises, Goto, TypeOK, flags, history, Generator
<1>3. ASSUME NEW s \in Scope, Completes(s) \/ Refuses(s) PROVE TypeOK'
  BY <1>3 DEF Completes, Refuses, Goto, TypeOK, flags, history
<1>4. CASE UNCHANGED vars
  BY <1>4 DEF vars, flags, history, TypeOK
<1> QED
  BY <1>1, <1>2, <1>3, <1>4, StartType, StopType DEF Next, Progress, Startup

\* Every variable keeps its type.
THEOREM TypeCorrect == Spec => []TypeOK
BY InitType, TypeStep, PTL DEF Spec
----------------------------------------------------------------------------
(* Scopes one after the other.                                             *)

\* While the flag is set a scope is up.
Up == {"completing", "running", "stopping", "stopFailed"}

\* From its accepted startup to its last answer a scope is alone.
Lone == Up \cup {"starting", "stopped"}

\* One scope at a time holds the application, and it is the one the flag and the
\* stored generator speak of.
Orderly ==
  /\ active => \E s \in Scope : pc[s] \in Up
  /\ ~active => iterator = NoScope
  /\ \A s, t \in Scope : pc[s] \in Lone /\ pc[t] \in Lone => s = t
  /\ \A s \in Scope : pc[s] \in Up => active /\ iterator = IF handler THEN s ELSE NoScope

\* How far the generator of a scope is.
Advanced(s) ==
  /\ pc[s] # "closing"
  /\ pc[s] = "idle" => gen[s] = "none"
  /\ pc[s] = "starting" => handler
  /\ pc[s] \in {"completing", "running", "stopping"} =>
       gen[s] = IF handler THEN "yielded" ELSE "none"
  /\ pc[s] \in {"refusing", "stopped", "stopFailed"} \cup Over =>
       gen[s] \in {"none", "finished", "again"}
  /\ pc[s] = "stopping" => held[s] = s

\* What the server has been told.
Nothing(s) == Len(sent[s]) = 0
One(s, answer) == Len(sent[s]) = 1 /\ sent[s][1] = answer
Two(s, answer) == /\ Len(sent[s]) = 2
                  /\ sent[s][1] = "startup.complete" /\ sent[s][2] = answer
Told(s) ==
  /\ pc[s] \in {"idle", "starting"} => Nothing(s)
  /\ pc[s] = "completing" => Nothing(s) \/ One(s, "startup.complete")
  /\ pc[s] = "refusing" => Nothing(s) \/ One(s, "startup.failed")
  /\ pc[s] \in {"running", "stopping"} => One(s, "startup.complete")
  /\ pc[s] = "stopped" => One(s, "startup.complete") \/ Two(s, "shutdown.complete")
  /\ pc[s] = "stopFailed" => One(s, "startup.complete") \/ Two(s, "shutdown.failed")
  /\ pc[s] \in Over => \/ One(s, "startup.failed")
                       \/ Two(s, "shutdown.complete") \/ Two(s, "shutdown.failed")

Inv == /\ TypeOK
       /\ Quiet => Orderly /\ \A s \in Scope : Advanced(s) /\ Told(s)

LEMMA InitInv == Init => Inv
<1>1. Init => Orderly
  BY DEF Init, Orderly, Up, Lone
<1>2. Init => \A s \in Scope : Advanced(s) /\ Told(s)
  BY DEF Init, Advanced, Told, Nothing, Over
<1> QED
  BY <1>1, <1>2, InitType DEF Inv

\* The steps a scope takes while no send fails and no task is cancelled; a
\* generator is never closed then, for a failed startup finds none stored.
Calm(s) == \/ RefuseActive(s) \/ Start(s) \/ Yields(s) \/ StartRaises(s)
           \/ Completes(s) \/ Refuses(s) \/ Shutdown(s) \/ ShutdownPlain(s)
           \/ Stops(s) \/ StopRaises(s) \/ ShutsDown(s)

LEMMA QuietSteps ==
  ASSUME TypeOK, [Next]_vars, Quiet'
  PROVE  Quiet
<1>1. TypeOK'
  BY TypeStep
<1> QED
  BY <1>1 DEF Quiet, TypeOK, Next, Progress, Startup, Stopping, vars, history,
     RefuseActive, Start, Yields, StartRaises, CompleteFails, Closes, CloseRaises, Completes,
     Refuses, Shutdown, ShutdownPlain, Stops, StopRaises, StoppedFails, ShutsDown,
     FailureFails, Cancel

LEMMA CalmSteps ==
  ASSUME TypeOK, \A s \in Scope : Advanced(s), Quiet', NEW s \in Scope,
         Progress(s) \/ Cancel(s)
  PROVE  Calm(s)
BY DEF Progress, Startup, Stopping, Quiet, Calm, Advanced, CompleteFails, Closes, CloseRaises,
   StoppedFails, FailureFails, Cancel

----------------------------------------------------------------------------
LEMMA NoneStored ==
  ASSUME TypeOK, Orderly, NEW s \in Scope, pc[s] = "starting"
  PROVE  ~active /\ iterator = NoScope
BY DEF Orderly, Up, Lone

LEMMA RaisesRefuses ==
  ASSUME TypeOK, Orderly, NEW s \in Scope, StartRaises(s)
  PROVE  Answering(s, "refusing", "startup.failed")
BY NoneStored DEF StartRaises, StartupFails

LEMMA OrderlyStep ==
  ASSUME TypeOK, Orderly, \A s \in Scope : Advanced(s), Quiet', NEW s \in Scope, Calm(s)
  PROVE  Orderly'
<1> USE StageType
<1> DEFINE Moves(to) == /\ pc'[s] = to
                        /\ \A t \in Scope \ {s} : pc'[t] = pc[t]
<1>1. CASE RefuseActive(s)
  <2>1. Moves("refusing")
    BY <1>1, AnsweringType DEF RefuseActive
  <2>2. QED
    BY <1>1, <2>1 DEF RefuseActive, Orderly, Up, Lone, flags
<1>2. CASE Start(s)
  <2>1. \A t \in Scope \ {s} : pc[t] \notin Lone
    BY <1>2 DEF Start, Orderly, Up, Lone, Quiet, Awaiting, TypeOK
  <2>2. CASE handler
    <3>1. Moves("starting")
      BY <1>2, <2>2 DEF Start, Goto, TypeOK
    <3>2. QED
      BY <1>2, <2>1, <2>2, <3>1 DEF Start, Orderly, Up, Lone, flags
  <2>3. CASE ~handler
    <3>1. Moves("completing")
      BY <1>2, <2>3, AnsweringType DEF Start
    <3>2. QED
      BY <1>2, <2>1, <2>3, <3>1 DEF Start, Orderly, Up, Lone
  <2>4. QED
    BY <2>2, <2>3
<1>3. CASE Yields(s)
  <2>1. Moves("completing")
    BY <1>3, AnsweringType DEF Yields
  <2>2. handler
    BY <1>3 DEF Yields, Advanced
  <2>3. QED
    BY <1>3, <2>1, <2>2 DEF Yields, Orderly, Up, Lone
<1>4. CASE StartRaises(s)
  <2>1. Moves("refusing")
    BY <1>4, RaisesRefuses, AnsweringType
  <2>2. QED
    BY <1>4, <2>1 DEF StartRaises, Orderly, Up, Lone, flags
<1>5. CASE Completes(s)
  <2>1. Moves("running")
    BY <1>5 DEF Completes, Goto, TypeOK
  <2>2. QED
    BY <1>5, <2>1 DEF Completes, Orderly, Up, Lone, flags
<1>6. CASE Refuses(s)
  <2>1. Moves("done")
    BY <1>6 DEF Refuses, Goto, TypeOK
  <2>2. QED
    BY <1>6, <2>1 DEF Refuses, Orderly, Up, Lone, flags
<1>7. CASE Shutdown(s)
  <2>1. Moves("stopping")
    BY <1>7 DEF Shutdown, Goto, TypeOK
  <2>2. QED
    BY <1>7, <2>1 DEF Shutdown, Orderly, Up, Lone, flags
<1>8. CASE StopRaises(s)
  <2>1. Moves("stopFailed")
    BY <1>8, AnsweringType DEF StopRaises
  <2>2. QED
    BY <1>8, <2>1 DEF StopRaises, Orderly, Up, Lone, flags
<1>9. CASE ShutdownPlain(s) \/ Stops(s) \/ ShutsDown(s)
  <2>1. Moves("stopped") \/ Moves("done")
    BY <1>9, AnsweringType DEF ShutdownPlain, Stops, ShutsDown, Goto, TypeOK
  <2>2. active' = FALSE /\ iterator' = NoScope /\ pc[s] \in Lone
    BY <1>9 DEF ShutdownPlain, Stops, ShutsDown, Deactivate, Up, Lone
  <2>3. QED
    BY <2>1, <2>2 DEF Orderly, Up, Lone
<1> QED
  BY <1>1, <1>2, <1>3, <1>4, <1>5, <1>6, <1>7, <1>8, <1>9 DEF Calm

\* A scope whose turn it is not is where it was.
LEMMA OthersStay ==
  ASSUME TypeOK, Orderly, NEW s \in Scope, Calm(s), NEW t \in Scope \ {s},
         \A u \in Scope : Advanced(u)
  PROVE  pc'[t] = pc[t] /\ gen'[t] = gen[t] /\ held'[t] = held[t] /\ sent'[t] = sent[t]
<1> USE StageType
<1>1. CASE RefuseActive(s) \/ ShutdownPlain(s) \/ Yields(s)
  BY <1>1, AnsweringType DEF RefuseActive, ShutdownPlain, Yields, TypeOK
<1>2. CASE Stops(s) \/ StopRaises(s)
  <2>1. held[s] = s
    BY <1>2 DEF Stops, StopRaises, Advanced
  <2>2. QED
    BY <1>2, <2>1, AnsweringType DEF Stops, StopRaises, TypeOK
<1>3. CASE StartRaises(s)
  <2>1. held' = held
    BY <1>3, NoneStored DEF StartRaises, StartupFails
  <2>2. QED
    BY <1>3, <2>1, RaisesRefuses, AnsweringType DEF StartRaises, TypeOK
<1>4. CASE Start(s)
  BY <1>4, AnsweringType DEF Start, Goto, TypeOK
<1>5. CASE Completes(s) \/ Refuses(s) \/ Shutdown(s) \/ ShutsDown(s)
  BY <1>5 DEF Completes, Refuses, Shutdown, ShutsDown, Goto, TypeOK
<1> QED
  BY <1>1, <1>2, <1>3, <1>4, <1>5 DEF Calm

LEMMA HandlerStays == ASSUME NEW s \in Scope, Calm(s) PROVE handler' = handler
BY DEF Calm, RefuseActive, Start, Yields, StartRaises, Completes, Refuses, Shutdown,
   ShutdownPlain, Stops, StopRaises, ShutsDown

LEMMA AdvancedStep ==
  ASSUME TypeOK, Orderly, \A u \in Scope : Advanced(u), NEW s \in Scope, Calm(s)
  PROVE  \A t \in Scope : Advanced(t)'
<1> USE StageType
<1>1. ASSUME NEW t \in Scope \ {s} PROVE Advanced(t)'
  BY OthersStay, HandlerStays DEF Advanced, Over
<1>2. Advanced(s)
  OBVIOUS
<1>3. Advanced(s)'
  <2>1. CASE RefuseActive(s)
    <3>1. pc'[s] = "refusing" /\ gen'[s] = "none"
      BY <1>2, <2>1, AnsweringType DEF RefuseActive, Advanced
    <3>2. QED
      BY <3>1 DEF Advanced, Over
  <2>2. CASE Start(s)
    <3>1. CASE handler
      <4>1. pc'[s] = "starting" /\ handler'
        BY <2>2, <3>1 DEF Start, Goto, TypeOK
      <4>2. QED
        BY <4>1 DEF Advanced, Over
    <3>2. CASE ~handler
      <4>1. pc'[s] = "completing" /\ gen'[s] = "none" /\ ~handler'
        BY <1>2, <2>2, <3>2, AnsweringType DEF Start, Advanced
      <4>2. QED
        BY <4>1 DEF Advanced, Over
    <3>3. QED
      BY <3>1, <3>2
  <2>3. CASE Yields(s)
    <3>1. pc'[s] = "completing" /\ gen'[s] = "yielded" /\ handler'
      BY <1>2, <2>3, AnsweringType DEF Yields, Advanced, TypeOK
    <3>2. QED
      BY <3>1 DEF Advanced, Over
  <2>4. CASE StartRaises(s)
    <3>1. pc'[s] = "refusing" /\ gen'[s] = "finished"
      BY <2>4, RaisesRefuses, AnsweringType DEF StartRaises, TypeOK
    <3>2. QED
      BY <3>1 DEF Advanced, Over
  <2>5. CASE Completes(s)
    <3>1. pc[s] = "completing" /\ pc'[s] = "running" /\ gen' = gen /\ handler' = handler
      BY <2>5 DEF Completes, Goto, TypeOK
    <3>2. QED
      BY <1>2, <3>1 DEF Advanced, Over
  <2>6. CASE Refuses(s) \/ ShutsDown(s)
    <3>1. /\ pc[s] \in {"refusing", "stopped", "stopFailed"}
          /\ pc'[s] = "done" /\ gen' = gen
      BY <2>6 DEF Refuses, ShutsDown, Goto, TypeOK
    <3>2. QED
      BY <1>2, <3>1 DEF Advanced, Over
  <2>7. CASE Shutdown(s)
    <3>1. iterator = s
      BY <2>7 DEF Shutdown, Orderly, Up
    <3>2. pc'[s] = "stopping" /\ held'[s] = s /\ gen' = gen /\ handler' = handler /\ pc[s] = "running"
      BY <2>7, <3>1 DEF Shutdown, Goto, TypeOK
    <3>3. QED
      BY <1>2, <3>2 DEF Advanced, Over
  <2>8. CASE ShutdownPlain(s)
    <3>1. ~handler
      BY <2>8, LifespanAssumption DEF ShutdownPlain, Orderly, Up
    <3>2. pc'[s] = "stopped" /\ gen'[s] = "none"
      BY <1>2, <2>8, <3>1, AnsweringType DEF ShutdownPlain, Advanced
    <3>3. QED
      BY <3>2 DEF Advanced, Over
  <2>9. CASE Stops(s) \/ StopRaises(s)
    <3>1. held[s] = s
      BY <1>2, <2>9 DEF Stops, StopRaises, Advanced
    <3>2. pc'[s] \in {"stopped", "stopFailed"} /\ gen'[s] \in {"finished", "again"}
      BY <2>9, <3>1, AnsweringType DEF Stops, StopRaises, TypeOK
    <3>3. QED
      BY <3>2 DEF Advanced, Over
  <2> QED
    BY <2>1, <2>2, <2>3, <2>4, <2>5, <2>6, <2>7, <2>8, <2>9 DEF Calm
<1> QED
  BY <1>1, <1>3

----------------------------------------------------------------------------
\* An answer that is taken is the first, or the second after the startup's.
LEMMA ToldNow ==
  ASSUME TypeOK, NEW s \in Scope, NEW answer \in Answer, sent'[s] = Append(sent[s], answer)
  PROVE  /\ Nothing(s) => Len(sent'[s]) = 1 /\ sent'[s][1] = answer
         /\ One(s, "startup.complete") =>
              Len(sent'[s]) = 2 /\ sent'[s][1] = "startup.complete" /\ sent'[s][2] = answer
<1>1. ASSUME NEW q \in Seq(Answer)
      PROVE  /\ Len(q) \in Nat /\ Len(Append(q, answer)) = Len(q) + 1
             /\ Append(q, answer)[Len(q) + 1] = answer
             /\ Len(q) = 1 => Append(q, answer)[1] = q[1]
  OBVIOUS
<1>2. sent[s] \in Seq(Answer)
  BY DEF TypeOK
<1> QED
  BY <1>1, <1>2 DEF Nothing, One

LEMMA ToldStep ==
  ASSUME TypeOK, Orderly, \A u \in Scope : Advanced(u) /\ Told(u), NEW s \in Scope, Calm(s)
  PROVE  \A t \in Scope : Told(t)'
<1> USE StageType
<1>1. ASSUME NEW t \in Scope \ {s} PROVE Told(t)'
  <2>1. Told(t) /\ pc'[t] = pc[t] /\ sent'[t] = sent[t]
    BY OthersStay
  <2>2. QED
    BY <2>1 DEF Told, Nothing, One, Two
<1>2. Told(s) /\ sent[s] \in Seq(Answer)
  BY DEF TypeOK
<1>3. Told(s)'
  <2>1. ASSUME \/ RefuseActive(s) \/ StartRaises(s) \/ Yields(s)
               \/ Start(s) /\ ~handler
        PROVE  Told(s)'
    <3>1. Nothing(s)
      BY <1>2, <2>1 DEF RefuseActive, StartRaises, Yields, Start, Told
    <3>2. \/ /\ pc'[s] = "refusing"
             /\ sent'[s] \in {sent[s], Append(sent[s], "startup.failed")}
          \/ /\ pc'[s] = "completing"
             /\ sent'[s] \in {sent[s], Append(sent[s], "startup.complete")}
      BY <2>1, RaisesRefuses, AnsweringType DEF RefuseActive, Yields, Start
    <3>3. QED
      BY <3>1, <3>2, ToldNow DEF Told, Nothing, One, Over
  <2>2. ASSUME Start(s), handler PROVE Told(s)'
    <3>1. Nothing(s) /\ pc'[s] = "starting" /\ sent' = sent
      BY <1>2, <2>2 DEF Start, Goto, Told, TypeOK
    <3>2. QED
      BY <3>1 DEF Told, Nothing, Over
  <2>3. ASSUME Completes(s) \/ Shutdown(s) PROVE Told(s)'
    <3>1. One(s, "startup.complete")
      BY <1>2, <2>3 DEF Completes, Shutdown, Told, Took, Nothing
    <3>2. pc'[s] \in {"running", "stopping"} /\ sent' = sent
      BY <2>3 DEF Completes, Shutdown, Goto, TypeOK
    <3>3. QED
      BY <3>1, <3>2 DEF Told, One, Over
  <2>4. ASSUME Refuses(s) PROVE Told(s)'
    <3>1. One(s, "startup.failed")
      BY <1>2, <2>4 DEF Refuses, Told, Took, Nothing
    <3>2. pc'[s] = "done" /\ sent' = sent
      BY <2>4 DEF Refuses, Goto, TypeOK
    <3>3. QED
      BY <3>1, <3>2 DEF Told, One, Over
  <2>5. ASSUME ShutdownPlain(s) \/ Stops(s) \/ StopRaises(s) PROVE Told(s)'
    <3>1. One(s, "startup.complete")
      BY <1>2, <2>5 DEF ShutdownPlain, Stops, StopRaises, Told
    <3>2. \/ /\ pc'[s] = "stopped"
             /\ sent'[s] \in {sent[s], Append(sent[s], "shutdown.complete")}
          \/ /\ pc'[s] = "stopFailed"
             /\ sent'[s] \in {sent[s], Append(sent[s], "shutdown.failed")}
      BY <2>5, AnsweringType DEF ShutdownPlain, Stops, StopRaises
    <3>3. QED
      BY <3>1, <3>2, ToldNow DEF Told, One, Two, Over
  <2>6. ASSUME ShutsDown(s) PROVE Told(s)'
    <3>1. Two(s, "shutdown.complete") \/ Two(s, "shutdown.failed")
      BY <1>2, <2>6 DEF ShutsDown, Told, Took, One
    <3>2. pc'[s] = "done" /\ sent' = sent
      BY <2>6 DEF ShutsDown, Goto, TypeOK
    <3>3. QED
      BY <3>1, <3>2 DEF Told, Two, Over
  <2> QED
    BY <2>1, <2>2, <2>3, <2>4, <2>5, <2>6 DEF Calm
<1> QED
  BY <1>1, <1>3

LEMMA InvStep == Inv /\ [Next]_vars => Inv'
<1> SUFFICES ASSUME Inv, [Next]_vars PROVE Inv'
  OBVIOUS
<1>1. TypeOK /\ TypeOK'
  BY TypeStep DEF Inv
<1>2. ASSUME Quiet' PROVE Orderly' /\ \A s \in Scope : Advanced(s)' /\ Told(s)'
  <2>1. Orderly /\ \A s \in Scope : Advanced(s) /\ Told(s)
    BY <1>1, <1>2, QuietSteps DEF Inv
  <2>2. CASE UNCHANGED vars
    BY <2>1, <2>2 DEF vars, flags, history, Orderly, Advanced, Told, Nothing, One, Two
  <2>3. ASSUME NEW s \in Scope, Progress(s) \/ Cancel(s)
        PROVE  Orderly' /\ \A t \in Scope : Advanced(t)' /\ Told(t)'
    <3>1. Calm(s)
      BY <1>1, <1>2, <2>1, <2>3, CalmSteps
    <3>2. QED
      BY <1>1, <1>2, <2>1, <3>1, OrderlyStep, AdvancedStep, ToldStep
  <2>4. QED
    BY <2>2, <2>3 DEF Next
<1>3. QED
  BY <1>1, <1>2 DEF Inv

LEMMA Invariance == Spec => []Inv
BY InitInv, InvStep, PTL DEF Spec

----------------------------------------------------------------------------
LEMMA InvMeans == Inv => TypeOK /\ AnswersInOrder /\ ActiveExact /\ HandlersFinished
<1> SUFFICES ASSUME Inv PROVE AnswersInOrder /\ ActiveExact /\ HandlersFinished
  BY DEF Inv
<1>1. AnswersInOrder
  <2> SUFFICES ASSUME Quiet, NEW s \in Scope
               PROVE  \/ /\ Len(sent[s]) <= 1
                         /\ sent[s] # <<>> =>
                              sent[s][1] \in {"startup.complete", "startup.failed"}
                      \/ /\ Len(sent[s]) = 2
                         /\ sent[s][1] = "startup.complete"
                         /\ sent[s][2] \in {"shutdown.complete", "shutdown.failed"}
    BY DEF AnswersInOrder
  <2>1. Told(s) /\ sent[s] \in Seq(Answer) /\ pc[s] \in Stage
    BY DEF Inv, TypeOK
  <2>2. Nothing(s) => sent[s] = <<>>
    BY <2>1 DEF Nothing
  <2>3. QED
    <3>1. CASE Nothing(s)
      BY <2>2, <3>1 DEF Nothing
    <3>2. CASE One(s, "startup.complete") \/ One(s, "startup.failed")
      BY <3>2 DEF One
    <3>3. CASE Two(s, "shutdown.complete") \/ Two(s, "shutdown.failed")
      BY <3>3 DEF Two
    <3>4. pc[s] # "closing"
      BY DEF Inv, Advanced
    <3>5. QED
      BY <2>1, <3>1, <3>2, <3>3, <3>4 DEF Told, Stage, Awaiting, Over
<1>2. ActiveExact
  BY DEF Inv, ActiveExact, Orderly, Up, InProgress, Awaiting
<1>3. HandlersFinished
  BY DEF Inv, HandlersFinished, Advanced
<1> QED
  BY <1>1, <1>2, <1>3

\* Scopes one after the other are answered once for each event, whether their
\* handler comes up, fails, or stops badly (app.py 281-341).
THEOREM AnswersCorrect == Spec => []AnswersInOrder
BY Invariance, InvMeans, PTL

\* The flag and the stored generator are those of the scope that is up
\* (app.py 281, 293-294, 338-340).
THEOREM ActiveCorrect == Spec => []ActiveExact
BY Invariance, InvMeans, PTL

\* No scope is over before its handler has run to its end (app.py 315-321).
THEOREM HandlersRun == Spec => []HandlersFinished
BY Invariance, InvMeans, PTL

----------------------------------------------------------------------------
(* The scopes of the test client.                                          *)

LEMMA ClientSteps == [ClientNext]_world => [Next]_vars
<1> SUFFICES ASSUME [ClientNext]_world PROVE [Next]_vars
  OBVIOUS
<1>1. CASE UNCHANGED world
  BY <1>1 DEF world
<1>2. ASSUME NEW c \in Scope, Caller(c) PROVE UNCHANGED vars
  BY <1>2 DEF Caller, Enter, Request, Leave, Returned, GiveUp, Joined
<1>3. ASSUME NEW c \in Scope, Loop(c) \/ Served(c) \/ Interrupt(c)
      PROVE  Cancel(c) \/ UNCHANGED vars
  BY <1>3 DEF Loop, Served, Interrupt, Starts, StartAnswered, StartFailed, Serves, StopsNothing,
     StopsOwn, StopsOther, StopAnswered, StopEnds, TimesOut, Closed
<1>4. ASSUME NEW c \in Scope, Tasks(c) PROVE Progress(c) \/ Cancel(c)
  BY <1>4 DEF Tasks, Steps, Generates, Discard, Serve, CancelServed, Progress, Startup, Stopping
<1> QED
  BY <1>1, <1>2, <1>3, <1>4 DEF ClientNext, Next

\* Whatever clients and servers do, the scopes of one application behave as
\* Lifespan allows: what was proved of those holds of these.
THEOREM ClientImplementsLifespan == ClientSpec => Spec
BY ClientSteps, PTL DEF ClientSpec, ClientInit, Spec

\* In particular for the contexts of a client that come one after the other,
\* among themselves and beside a server (testing.py 201-238, app.py 272-343).
THEOREM ClientScopesCorrect ==
  ClientSpec => [](AnswersInOrder /\ ActiveExact /\ HandlersFinished)
BY ClientImplementsLifespan, AnswersCorrect, ActiveCorrect, HandlersRun, PTL

----------------------------------------------------------------------------
(* Scopes that do not overlap, whatever is cancelled or lost.              *)

\* Where a scope has, or is about to have, the flag and the generator.
Owning == {"starting", "completing", "running", "closing", "stopping", "stopped", "stopFailed"}

\* What scope s owns is its own.
Owns(s) ==
  /\ pc[s] \in {"completing", "running", "stopping"} =>
       active /\ iterator = IF handler THEN s ELSE NoScope
  /\ pc[s] = "starting" => ~active /\ handler
  /\ pc[s] \in {"stopping", "closing"} => held[s] = s
  /\ pc[s] = "idle" => gen[s] = "none"
  /\ pc[s] \in {"completing", "running"} => gen[s] = IF handler THEN "yielded" ELSE "none"

Others(s) == \A t \in Scope \ {s} : pc[t] \notin Owning

Sole ==
  /\ \A s \in Scope : pc[s] \in Owning => Others(s)
  /\ \A s \in Scope : Owns(s)
  /\ ~active => iterator = NoScope

LEMMA SoleInit == Init => Sole
BY DEF Init, Sole, Owns, Others, Owning

\* What a step of s leaves as it was for the others.
Apart(s) ==
  /\ handler' = handler
  /\ \A t \in Scope \ {s} : pc'[t] = pc[t] /\ gen'[t] = gen[t] /\ held'[t] = held[t]

\* A step of s keeps what the others own when it leaves the flags alone, or
\* when there is nobody to lose them.
LEMMA Keeps ==
  ASSUME Sole, NEW s \in Scope, Apart(s),
         pc'[s] \in Owning => Others(s),
         (active' = active /\ iterator' = iterator) \/ Others(s),
         ~active' => iterator' = NoScope,
         Owns(s)'
  PROVE  Sole'
<1>1. ASSUME NEW t \in Scope PROVE Owns(t)'
  <2>1. CASE t = s
    BY <2>1
  <2>2. CASE t # s /\ active' = active /\ iterator' = iterator
    BY <2>2 DEF Sole, Owns, Apart
  <2>3. CASE t # s /\ Others(s)
    BY <2>3 DEF Sole, Owns, Apart, Others, Owning
  <2> QED
    BY <2>1, <2>2, <2>3
<1>2. ASSUME NEW t \in Scope, pc'[t] \in Owning PROVE Others(t)'
  <2>1. CASE t = s
    BY <1>2, <2>1 DEF Apart, Others
  <2>2. CASE t # s
    <3>1. pc[t] \in Owning /\ Others(t)
      BY <1>2, <2>2 DEF Apart, Sole
    <3>2. pc'[s] \notin Owning
      BY <2>2, <3>1 DEF Others
    <3> QED
      BY <2>2, <3>1, <3>2 DEF Apart, Others
  <2> QED
    BY <2>1, <2>2
<1> QED
  BY <1>1, <1>2 DEF Sole

\* Nobody else owns anything where s does.
LEMMA Owner ==
  ASSUME Sole, NEW s \in Scope, pc[s] \in Owning
  PROVE  Others(s)
BY DEF Sole

\* The stages as they are listed.
LEMMA Stages ==
  /\ {"starting", "completing", "running", "closing", "stopping", "stopped",
      "stopFailed", "refusing", "idle", "done", "raised"} \subseteq Stage
  /\ {"startup.complete", "startup.failed", "shutdown.complete", "shutdown.failed"} \subseteq Answer
BY DEF Stage, Awaiting, Over, Answer

\* A startup that fails closes its own generator, or has none to close.
LEMMA FailingStartup ==
  ASSUME TypeOK, NEW s \in Scope, StartupFails(s), iterator \in {s, NoScope}
  PROVE  /\ \A t \in Scope \ {s} : pc'[t] = pc[t] /\ held'[t] = held[t]
         /\ \/ pc'[s] = "closing" /\ held'[s] = s
            \/ pc'[s] = "refusing" /\ iterator = NoScope
<1>1. CASE iterator # NoScope
  BY <1>1 DEF StartupFails, Goto, TypeOK
<1>2. CASE iterator = NoScope
  BY <1>2, AnsweringType, Stages DEF StartupFails
<1> QED
  BY <1>1, <1>2

\* No step of a startup takes what another scope owns, as long as none begins
\* beside one that is on its way.
LEMMA SoleStartup ==
  ASSUME TypeOK, Sole, NEW s \in Scope, Startup(s), ~overlapped'
  PROVE  Sole'
<1>1. CASE RefuseActive(s)
  <2>1. /\ Apart(s) /\ pc'[s] = "refusing" /\ UNCHANGED flags
    BY <1>1, AnsweringType, Stages DEF RefuseActive, Apart
  <2>2. Owns(s)' /\ pc'[s] \notin Owning
    BY <2>1 DEF Owns, Owning
  <2> QED
    BY <2>1, <2>2, Keeps DEF flags, Sole
<1>2. CASE Start(s)
  <2>1. Others(s)
    <3>1. ~active /\ \A t \in Scope : pc[t] \notin Awaiting
      BY <1>2 DEF Start
    <3>2. \A t \in Scope : pc[t] # "running"
      BY <3>1 DEF Sole, Owns
    <3> QED
      BY <3>1, <3>2 DEF Others, Owning, Awaiting
  <2>2. gen[s] = "none" /\ iterator = NoScope /\ ~active
    BY <1>2 DEF Start, Sole, Owns
  <2>3. CASE handler
    <3>1. Apart(s) /\ pc'[s] = "starting" /\ UNCHANGED flags
      BY <1>2, <2>3 DEF Start, Goto, Apart, TypeOK
    <3>2. Owns(s)'
      BY <2>2, <2>3, <3>1 DEF Owns, flags, Apart
    <3> QED
      BY <2>1, <2>2, <3>1, <3>2, Keeps DEF flags
  <2>4. CASE ~handler
    <3>1. Apart(s) /\ pc'[s] = "completing" /\ active' = TRUE /\ UNCHANGED <<gen, iterator>>
      BY <1>2, <2>4, AnsweringType, Stages DEF Start, Apart
    <3>2. Owns(s)'
      BY <2>2, <2>4, <3>1 DEF Owns, Apart
    <3> QED
      BY <2>1, <2>2, <3>1, <3>2, Keeps
  <2> QED
    BY <2>3, <2>4
<1>3. CASE Yields(s)
  <2>1. Others(s) /\ handler
    BY <1>3, Owner DEF Yields, Owning, Sole, Owns
  <2>2. /\ Apart(s) /\ pc'[s] = "completing" /\ active' = TRUE
        /\ iterator' = s /\ gen'[s] = "yielded"
    BY <1>3, AnsweringType, Stages DEF Yields, Apart, TypeOK
  <2>3. Owns(s)'
    BY <2>1, <2>2 DEF Owns, Apart
  <2> QED
    BY <2>1, <2>2, <2>3, Keeps
<1>4. CASE StartRaises(s)
  <2>1. iterator = NoScope
    BY <1>4 DEF StartRaises, Sole, Owns
  <2>2. Others(s)
    BY <1>4, Owner DEF StartRaises, Owning
  <2>3. /\ Apart(s) /\ UNCHANGED flags
        /\ (pc'[s] = "closing" /\ held'[s] = s) \/ pc'[s] = "refusing"
    BY <1>4, <2>1, FailingStartup DEF StartRaises, Apart, TypeOK
  <2>4. Owns(s)'
    BY <2>3 DEF Owns
  <2> QED
    BY <2>1, <2>2, <2>3, <2>4, Keeps DEF flags
<1>5. CASE CompleteFails(s)
  <2>1. active /\ iterator \in {s, NoScope}
    BY <1>5 DEF CompleteFails, Sole, Owns
  <2>2. Others(s)
    BY <1>5, Owner DEF CompleteFails, Owning
  <2>3. /\ Apart(s) /\ UNCHANGED flags
        /\ (pc'[s] = "closing" /\ held'[s] = s) \/ pc'[s] = "refusing"
    BY <1>5, <2>1, FailingStartup DEF CompleteFails, Apart
  <2>4. Owns(s)'
    BY <2>3 DEF Owns
  <2> QED
    BY <2>1, <2>2, <2>3, <2>4, Keeps DEF flags
<1>6. CASE Closes(s)
  <2>1. Others(s) /\ held[s] = s
    BY <1>6, Owner DEF Closes, Owning, Sole, Owns
  <2>2. Apart(s) /\ pc'[s] = "refusing" /\ iterator' = NoScope
    BY <1>6, <2>1, AnsweringType, Stages DEF Closes, Apart, TypeOK
  <2>3. Owns(s)'
    BY <2>2 DEF Owns
  <2> QED
    BY <2>1, <2>2, <2>3, Keeps
<1>7. CASE CloseRaises(s)
  <2>1. Others(s) /\ held[s] = s
    BY <1>7, Owner DEF CloseRaises, Owning, Sole, Owns
  <2>2. Apart(s) /\ pc'[s] = "raised" /\ UNCHANGED flags
    BY <1>7, <2>1 DEF CloseRaises, Goto, Apart, TypeOK
  <2>3. Owns(s)'
    BY <2>2 DEF Owns
  <2> QED
    BY <2>1, <2>2, <2>3, Keeps DEF flags, Sole
<1>8. CASE Completes(s)
  <2>1. Others(s) /\ Owns(s)
    BY <1>8, Owner DEF Completes, Owning, Sole
  <2>2. Apart(s) /\ pc'[s] = "running" /\ UNCHANGED <<flags, gen>>
    BY <1>8 DEF Completes, Goto, Apart, TypeOK
  <2>3. Owns(s)'
    BY <1>8, <2>1, <2>2 DEF Completes, Owns, flags, Apart
  <2> QED
    BY <2>1, <2>2, <2>3, Keeps DEF flags, Sole
<1>9. CASE Refuses(s)
  <2>1. Apart(s) /\ pc'[s] = "done" /\ UNCHANGED flags
    BY <1>9 DEF Refuses, Goto, Apart, TypeOK
  <2>2. Owns(s)' /\ pc'[s] \notin Owning
    BY <2>1 DEF Owns, Owning
  <2> QED
    BY <2>1, <2>2, Keeps DEF flags, Sole
<1> QED
  BY <1>1, <1>2, <1>3, <1>4, <1>5, <1>6, <1>7, <1>8, <1>9 DEF Startup

\* Nor does a step of a shutdown, a failed answer or a cancellation.
LEMMA SoleStopping ==
  ASSUME TypeOK, Sole, NEW s \in Scope, Stopping(s)
  PROVE  Sole'
<1>1. Others(s) /\ Owns(s)
  BY Owner DEF Stopping, Shutdown, ShutdownPlain, Stops, StopRaises, StoppedFails,
               ShutsDown, Owning, Sole
<1>2. CASE Shutdown(s)
  <2>1. /\ Apart(s) /\ pc'[s] = "stopping" /\ held'[s] = s
        /\ UNCHANGED flags /\ active /\ iterator = IF handler THEN s ELSE NoScope
    BY <1>1, <1>2 DEF Shutdown, Goto, Apart, Owns, TypeOK
  <2>2. Owns(s)'
    BY <2>1 DEF Owns, flags, Apart
  <2> QED
    BY <1>1, <2>1, <2>2, Keeps DEF flags
<1>3. CASE ShutdownPlain(s)
  <2>1. Apart(s) /\ pc'[s] = "stopped" /\ iterator' = NoScope
    BY <1>3, AnsweringType, Stages DEF ShutdownPlain, Apart, Deactivate
  <2>2. Owns(s)'
    BY <2>1 DEF Owns
  <2> QED
    BY <1>1, <2>1, <2>2, Keeps
<1>4. CASE Stops(s)
  <2>1. Apart(s) /\ pc'[s] = "stopped" /\ iterator' = NoScope
    BY <1>1, <1>4, AnsweringType, Stages DEF Stops, Apart, Deactivate, Owns, TypeOK
  <2>2. Owns(s)'
    BY <2>1 DEF Owns
  <2> QED
    BY <1>1, <2>1, <2>2, Keeps
<1>5. CASE StopRaises(s)
  <2>1. Apart(s) /\ pc'[s] = "stopFailed" /\ UNCHANGED flags
    BY <1>1, <1>5, AnsweringType, Stages DEF StopRaises, Apart, Owns, TypeOK
  <2>2. Owns(s)'
    BY <2>1 DEF Owns
  <2> QED
    BY <1>1, <2>1, <2>2, Keeps DEF flags, Sole
<1>6. CASE StoppedFails(s)
  <2>1. Apart(s) /\ pc'[s] = "stopFailed" /\ UNCHANGED flags
    BY <1>6, AnsweringType, Stages DEF StoppedFails, Apart
  <2>2. Owns(s)'
    BY <2>1 DEF Owns
  <2> QED
    BY <1>1, <2>1, <2>2, Keeps DEF flags, Sole
<1>7. CASE ShutsDown(s)
  <2>1. Apart(s) /\ pc'[s] = "done" /\ iterator' = NoScope
    BY <1>7 DEF ShutsDown, Goto, Deactivate, Apart, TypeOK
  <2>2. Owns(s)'
    BY <2>1 DEF Owns
  <2> QED
    BY <1>1, <2>1, <2>2, Keeps
<1> QED
  BY <1>2, <1>3, <1>4, <1>5, <1>6, <1>7 DEF Stopping

LEMMA SoleEnded ==
  ASSUME TypeOK, Sole, NEW s \in Scope, FailureFails(s) \/ Cancel(s)
  PROVE  Sole'
<1>1. Owns(s) /\ (pc[s] \in Owning => Others(s))
  BY DEF Sole
<1>2. pc'[s] = "raised" /\ Apart(s)
  BY <1>1 DEF FailureFails, Cancel, Goto, Apart, Owns, TypeOK
<1>3. \/ UNCHANGED flags
      \/ pc[s] \in Owning /\ iterator' = NoScope
  BY DEF FailureFails, Cancel, Deactivate, Owning
<1>4. Owns(s)' /\ pc'[s] \notin Owning
  BY <1>2 DEF Owns, Owning
<1> QED
  BY <1>1, <1>2, <1>3, <1>4, Keeps DEF flags, Sole

LEMMA SoleStep ==
  ASSUME TypeOK, Sole, [Next]_vars, ~overlapped'
  PROVE  Sole'
<1>1. CASE UNCHANGED vars
  BY <1>1 DEF Sole, Owns, Others, vars, flags
<1>2. ASSUME NEW s \in Scope, Progress(s) \/ Cancel(s) PROVE Sole'
  BY <1>2, SoleStartup, SoleStopping, SoleEnded DEF Progress
<1> QED
  BY <1>1, <1>2 DEF Next

----------------------------------------------------------------------------
(* The contexts, as long as no wait ran out of time and nobody interrupts. *)

Engaged(c) == at[c] \notin {"out", "left"}

\* One context at a time is in progress, and the mode is its own.
Exclusive == \A c \in Scope : Engaged(c) =>
  /\ kind[c] # "served" /\ mode = kind[c]
  /\ \A d \in Scope \ {c} : ~Engaged(d)

\* The loop of a context has nothing to do, has one call to run, or runs one,
\* or has run it.
Resting(c) == work[c] = <<>> /\ run[c] = "idle"
Calling(c, coroutine) == reply[c] = "pending" /\ work[c] = <<coroutine>> /\ run[c] = "idle"
Running(c, stages) == reply[c] = "pending" /\ work[c] = <<>> /\ run[c] \in stages
Replied(c) == reply[c] \in {"ok", "error"} /\ Resting(c)

\* The scope of a context before its startup event, after it, and once it is up;
\* unless scopes overlapped, when anything may have become of it.
Untouched(c) == overlapped \/
  (event[c] = "none" /\ read[c] = 0 /\ pc[c] = "idle" /\ sent[c] = <<>>)
ComesUp(c) == overlapped \/
  /\ event[c] = "startup" /\ read[c] = 0
  /\ \/ pc[c] \in {"idle", "starting"} /\ sent[c] = <<>>
     \/ pc[c] \in {"completing", "running"} /\ sent[c] = <<"startup.complete">>
     \/ pc[c] \in {"refusing", "done"} /\ sent[c] = <<"startup.failed">>
IsUp(c) == overlapped \/ (event[c] = "startup" /\ pc[c] = "running")
IsOver(c) == pc[c] \in Over

Entering(c) ==
  \/ Calling(c, "start") /\ Untouched(c)
  \/ /\ task = c
     /\ \/ Running(c, {"starting"}) /\ ComesUp(c)
        \/ Running(c, {"failing"})
        \/ Replied(c) /\ IF reply[c] = "ok" THEN IsUp(c) ELSE IsOver(c)

\* From its start to its end the task of the context in progress is the one that
\* is kept.
Within(c) ==
  /\ task = c /\ IsUp(c)
  /\ \/ at[c] \in {"within", "asked"} /\ Resting(c)
     \/ /\ at[c] = "requesting"
        /\ Calling(c, "request") \/ Running(c, {"serving"}) \/ Replied(c)

Leaving(c) ==
  \/ /\ at[c] = "leaving" /\ task = c
     /\ Calling(c, "stop") \/ Running(c, {"stopping", "ending"})
  \/ at[c] = "leaving" /\ Replied(c) /\ IsOver(c)
  \/ /\ at[c] = "joining" /\ kind[c] = "sync" /\ IsOver(c)
     /\ \/ work[c] = <<"close">> /\ run[c] = "idle"
        \/ work[c] = <<>> /\ run[c] = "closed"

\* Where the caller is with a context, where its loop is and where its scope is.
Phase(c) ==
  \/ at[c] = "out" /\ Resting(c) /\ (kind[c] # "served" => Untouched(c))
  \/ /\ kind[c] # "served"
     /\ \/ at[c] = "entering" /\ Entering(c)
        \/ Within(c)
        \/ Leaving(c)
        \/ /\ at[c] = "left" /\ IsOver(c)
           /\ work[c] = <<>> /\ run[c] = IF kind[c] = "sync" THEN "closed" ELSE "idle"

InTurn == Exclusive /\ \A c \in Scope : Phase(c)

Shaped ==
  /\ kind \in [Scope -> {"served", "sync", "async"}]
  /\ DOMAIN at = Scope /\ DOMAIN reply = Scope /\ DOMAIN work = Scope
  /\ DOMAIN run = Scope /\ DOMAIN event = Scope /\ DOMAIN read = Scope

ClientInv ==
  /\ TypeOK
  /\ Shaped
  /\ ~overlapped => Sole
  /\ Timely => InTurn

LEMMA ClientInvInit == ClientInit => ClientInv
<1> SUFFICES ASSUME ClientInit PROVE ClientInv
  OBVIOUS
<1>1. TypeOK /\ Sole
  BY InitType, SoleInit DEF ClientInit
<1>2. Shaped
  BY TestClientAssumption DEF ClientInit, Shaped
<1>3. InTurn
  BY DEF ClientInit, Init, InTurn, Exclusive, Engaged, Phase, Resting, Untouched
<1> QED
  BY <1>1, <1>2, <1>3 DEF ClientInv

LEMMA ShapedStep == Shaped /\ [ClientNext]_world => Shaped'
<1> SUFFICES ASSUME Shaped, [ClientNext]_world PROVE Shaped'
  OBVIOUS
<1>1. CASE UNCHANGED world
  BY <1>1 DEF world, client, queues, Shaped
<1>2. ASSUME NEW c \in Scope, Caller(c) PROVE Shaped'
  BY <1>2 DEF Shaped, Caller, Enter, Request, Leave, Returned, GiveUp, Joined, Move, Submit,
              Quit, queues
<1>3. ASSUME NEW c \in Scope, Starts(c) \/ StartAnswered(c) \/ StartFailed(c) \/ Serves(c)
      PROVE  Shaped'
  BY <1>3 DEF Shaped, Starts, StartAnswered, StartFailed, Serves, Takes, Put, Wait, ReadAnswer,
              Finish, queues
<1>4. ASSUME NEW c \in Scope, StopsNothing(c) \/ StopsOwn(c) \/ StopsOther(c)
      PROVE  Shaped'
  BY <1>4 DEF Shaped, StopsNothing, StopsOwn, StopsOther, Takes, Put, Wait, ReadAnswer,
              Finish, queues
<1>5. ASSUME NEW c \in Scope, StopAnswered(c) \/ StopEnds(c) \/ TimesOut(c) \/ Closed(c)
      PROVE  Shaped'
  BY <1>5 DEF Shaped, StopAnswered, StopEnds, TimesOut, Closed, Takes, Wait, ReadAnswer,
              Finish, queues
<1>6. ASSUME NEW c \in Scope, Served(c) \/ Interrupt(c) \/ Tasks(c)
      PROVE  Shaped'
  BY <1>6 DEF Shaped, Served, Interrupt, Tasks, Steps, Generates, Discard, Serve, CancelServed,
              Move, Finish, queues, client
<1> QED
  BY <1>1, <1>2, <1>3, <1>4, <1>5, <1>6 DEF ClientNext, Loop

----------------------------------------------------------------------------
(* One step.                                                               *)

\* What a step of context c leaves as it was for the others.
Elsewhere(c) ==
  /\ kind' = kind /\ (overlapped => overlapped')
  /\ \A t \in Scope \ {c} :
       /\ at'[t] = at[t] /\ reply'[t] = reply[t] /\ work'[t] = work[t] /\ run'[t] = run[t]
       /\ pc'[t] = pc[t] /\ sent'[t] = sent[t]
       /\ event'[t] = event[t] /\ read'[t] = read[t]

LEMMA Turn ==
  ASSUME Shaped, InTurn, NEW c \in Scope, Elsewhere(c), Phase(c)',
         \/ at'[c] = at[c] /\ mode' = mode
         \/ /\ Engaged(c) \/ (mode = "none" /\ kind[c] # "served")
            /\ Engaged(c)' => mode' = kind[c],
         task' = task \/ Engaged(c)
  PROVE  InTurn'
<1>1. Exclusive'
  <2>1. CASE at'[c] = at[c] /\ mode' = mode
    BY <2>1 DEF InTurn, Exclusive, Engaged, Elsewhere
  <2>2. CASE /\ Engaged(c) \/ (mode = "none" /\ kind[c] # "served")
             /\ Engaged(c)' => mode' = kind[c]
    <3>1. kind[c] # "served"
      BY <2>2 DEF InTurn, Exclusive
    <3>2. \A d \in Scope \ {c} : ~Engaged(d)
      <4>1. CASE Engaged(c)
        BY <4>1 DEF InTurn, Exclusive
      <4>2. CASE mode = "none"
        BY <4>2 DEF InTurn, Exclusive, Shaped
      <4> QED
        BY <2>2, <4>1, <4>2
    <3> QED
      BY <2>2, <3>1, <3>2 DEF Exclusive, Engaged, Elsewhere
  <2> QED
    BY <2>1, <2>2
<1>2. ASSUME NEW t \in Scope \ {c} PROVE Phase(t)'
  <2>1. Phase(t) /\ (Engaged(t) => task' = task)
    BY DEF InTurn, Exclusive
  <2>2. /\ Untouched(t) => Untouched(t)'
        /\ ComesUp(t) => ComesUp(t)'
        /\ IsUp(t) => IsUp(t)'
        /\ IsOver(t) => IsOver(t)'
    BY DEF Elsewhere, Untouched, ComesUp, IsUp, IsOver
  <2>3. /\ kind'[t] = kind[t] /\ at'[t] = at[t] /\ reply'[t] = reply[t]
        /\ work'[t] = work[t] /\ run'[t] = run[t] /\ (Engaged(t) => task' = task)
    BY <2>1 DEF Elsewhere
  <2>4. Entering(t) /\ at[t] = "entering" => Entering(t)'
    BY <2>2, <2>3 DEF Entering, Engaged, Calling, Running, Replied, Resting
  <2>5. Within(t) => Within(t)'
    BY <2>2, <2>3 DEF Within, Engaged, Calling, Running, Replied, Resting
  <2>6. Leaving(t) => Leaving(t)'
    BY <2>2, <2>3 DEF Leaving, Engaged, Calling, Running, Replied, Resting
  <2> QED
    BY <2>1, <2>2, <2>3, <2>4, <2>5, <2>6 DEF Phase, Resting
<1> QED
  BY <1>1, <1>2 DEF InTurn

\* A step that leaves the lifespan alone.
LEMMA Unscoped ==
  ASSUME UNCHANGED vars
  PROVE  UNCHANGED <<pc, sent, overlapped>>
BY DEF vars, history

\* The caller's calls.
LEMMA CallerTurns ==
  ASSUME Shaped, InTurn, NEW c \in Scope, Caller(c), Timely'
  PROVE  InTurn'
<1> USE Unscoped
<1>0. Phase(c)
  BY DEF InTurn
<1>1. CASE Enter(c)
  <2>1. Elsewhere(c) /\ mode = "none" /\ kind[c] # "served" /\ mode' = kind[c]
    BY <1>1 DEF Enter, Submit, Move, Elsewhere, Shaped
  <2>2. Resting(c) /\ Untouched(c)
    BY <1>0, <1>1 DEF Enter, Phase, Within, Leaving
  <2>3. at'[c] = "entering" /\ Calling(c, "start")' /\ Untouched(c)' /\ task' = task
    BY <1>1, <2>2 DEF Enter, Submit, Move, Resting, Calling, Untouched, Shaped
  <2>4. Phase(c)'
    BY <2>1, <2>3 DEF Phase, Entering, Elsewhere
  <2> QED
    BY <2>1, <2>3, <2>4, Turn
<1>2. CASE Request(c)
  <2>1. Elsewhere(c) /\ mode' = mode /\ task' = task
    BY <1>2 DEF Request, Submit, Move, Elsewhere, Shaped
  <2>2. Resting(c) /\ IsUp(c) /\ task = c /\ Engaged(c) /\ kind[c] # "served" /\ mode = kind[c]
    BY <1>0, <1>2 DEF Request, Phase, Within, Leaving, Engaged, InTurn, Exclusive
  <2>3. at'[c] = "requesting" /\ Calling(c, "request")' /\ IsUp(c)'
    BY <1>2, <2>2 DEF Request, Submit, Move, Resting, Calling, IsUp, Shaped
  <2>4. Phase(c)'
    BY <2>1, <2>2, <2>3 DEF Phase, Within, Elsewhere
  <2> QED
    BY <2>1, <2>2, <2>3, <2>4, Turn
<1>3. CASE Leave(c)
  <2>1. Elsewhere(c) /\ mode' = mode /\ task' = task
    BY <1>3 DEF Leave, Submit, Move, Elsewhere, Shaped
  <2>2. Resting(c) /\ task = c /\ Engaged(c) /\ kind[c] # "served" /\ mode = kind[c]
    BY <1>0, <1>3 DEF Leave, Phase, Within, Leaving, Engaged, InTurn, Exclusive
  <2>3. at'[c] = "leaving" /\ Calling(c, "stop")'
    BY <1>3, <2>2 DEF Leave, Submit, Move, Resting, Calling, Shaped
  <2>4. Phase(c)'
    BY <2>1, <2>2, <2>3 DEF Phase, Leaving, Elsewhere
  <2> QED
    BY <2>1, <2>2, <2>3, <2>4, Turn
<1>4. CASE Returned(c)
  <2>1. Replied(c) /\ Engaged(c) /\ kind[c] # "served" /\ mode = kind[c]
    BY <1>0, <1>4 DEF Returned, Blocked, Phase, Entering, Within, Leaving, Calling, Running,
                      Engaged, InTurn, Exclusive
  <2>2. /\ Elsewhere(c) /\ task' = task /\ UNCHANGED <<pc, event, run, reply, overlapped>>
    BY <1>4 DEF Returned, Quit, Move, Elsewhere, Shaped
  <2>3. ASSUME at[c] \in {"entering", "requesting"}, at'[c] \in {"within", "asked"},
               IsUp(c), task = c, UNCHANGED <<mode, work>>
        PROVE  InTurn'
    <3>1. Phase(c)'
      BY <2>1, <2>2, <2>3 DEF Phase, Within, Elsewhere, Replied, Resting, IsUp
    <3> QED
      BY <2>1, <2>2, <2>3, <3>1, Turn
  <2>4. ASSUME Quit(c), IsOver(c) PROVE InTurn'
    <3>1. \/ at'[c] = "joining" /\ work'[c] = <<"close">> /\ mode' = mode
             /\ kind[c] = "sync"
          \/ at'[c] = "left" /\ work'[c] = <<>> /\ kind[c] # "sync"
      BY <2>1, <2>4 DEF Quit, Move, Replied, Resting, Shaped
    <3>2. Phase(c)'
      BY <2>1, <2>2, <2>4, <3>1 DEF Phase, Leaving, Elsewhere, Replied, Resting, IsOver
    <3> QED
      BY <2>1, <2>2, <3>1, <3>2, Turn DEF Engaged
  <2>5. CASE at[c] = "entering"
    <3>1. task = c /\ IF reply[c] = "ok" THEN IsUp(c) ELSE IsOver(c)
      BY <1>0, <2>1, <2>5 DEF Phase, Entering, Within, Leaving, Calling, Running, Replied, Resting
    <3> QED
      BY <1>4, <2>3, <2>4, <2>5, <3>1 DEF Returned, Move, Shaped
  <2>6. CASE at[c] = "requesting"
    <3>1. task = c /\ IsUp(c)
      BY <1>0, <2>6 DEF Phase, Within, Leaving
    <3> QED
      BY <1>4, <2>3, <2>6, <3>1 DEF Returned, Move, Shaped
  <2>7. CASE at[c] = "leaving"
    <3>1. IsOver(c)
      BY <1>0, <2>1, <2>7 DEF Phase, Within, Leaving, Calling, Running, Replied, Resting
    <3> QED
      BY <1>4, <2>4, <2>7, <3>1 DEF Returned
  <2> QED
    BY <1>4, <2>5, <2>6, <2>7 DEF Returned, Blocked
<1>5. CASE GiveUp(c)
  BY <1>5 DEF GiveUp, Timely
<1>6. CASE Joined(c)
  <2>0. run[c] = "closed"
    BY <1>6 DEF Joined, Timely
  <2>1. Elsewhere(c) /\ at'[c] = "left" /\ task' = task /\ run[c] = "closed"
    BY <1>6, <2>0 DEF Joined, Move, Elsewhere, Shaped, queues
  <2>2. work[c] = <<>> /\ Engaged(c) /\ kind[c] = "sync" /\ IsOver(c)
    BY <1>0, <1>6, <2>1 DEF Joined, Phase, Within, Leaving, Engaged
  <2>3. Phase(c)'
    BY <1>6, <2>1, <2>2 DEF Joined, Phase, Elsewhere, queues, IsOver
  <2> QED
    BY <2>1, <2>2, <2>3, Turn DEF Engaged
<1> QED
  BY <1>1, <1>2, <1>3, <1>4, <1>5, <1>6 DEF Caller

\* A coroutine that ends while its caller waits for it is its answer.
LEMMA Finishes ==
  ASSUME Shaped, NEW c \in Scope, reply[c] = "pending", NEW result,
         \/ at[c] = "entering" /\ Finish(c, "start", result)
         \/ at[c] = "requesting" /\ Finish(c, "request", result)
         \/ at[c] = "leaving" /\ Finish(c, "stop", result)
  PROVE  /\ run'[c] = "idle" /\ reply'[c] = result
         /\ \A t \in Scope \ {c} : run'[t] = run[t] /\ reply'[t] = reply[t]
BY DEF Finish, Shaped

\* A coroutine that is taken was the only one.
LEMMA Taken ==
  ASSUME Shaped, NEW c \in Scope, Phase(c),
         NEW item \in {"start", "request", "stop", "close"}, Takes(c, item)
  PROVE  /\ work'[c] = <<>> /\ \A t \in Scope \ {c} : work'[t] = work[t]
         /\ kind[c] # "served"
         /\ item = "close" => at[c] = "joining" /\ kind[c] = "sync" /\ IsOver(c)
         /\ item # "close" => reply[c] = "pending"
         /\ item = "start" => at[c] = "entering" /\ Untouched(c)
         /\ item = "request" => at[c] = "requesting" /\ task = c /\ IsUp(c)
         /\ item = "stop" => at[c] = "leaving" /\ task = c
<1>1. /\ work[c] # <<>> /\ run[c] = "idle" /\ Head(work[c]) = item
      /\ work' = [work EXCEPT ![c] = Tail(@)]
  BY DEF Takes
<1>2. ASSUME NEW coroutine, work[c] = <<coroutine>>
      PROVE  coroutine = item /\ work'[c] = <<>>
  BY <1>1, <1>2 DEF Shaped
<1>3. \A t \in Scope \ {c} : work'[t] = work[t]
  BY <1>1 DEF Shaped
<1>4. kind[c] # "served" /\ (Entering(c) \/ Within(c) \/ Leaving(c))
  BY <1>1 DEF Phase, Resting
<1>5. CASE at[c] = "entering"
  <2>1. Calling(c, "start") /\ Untouched(c)
    BY <1>1, <1>5 DEF Phase, Within, Leaving, Entering, Calling, Running, Replied, Resting
  <2> QED
    BY <1>2, <1>3, <1>4, <1>5, <2>1 DEF Calling
<1>6. CASE at[c] \notin {"entering", "leaving", "joining"}
  <2>1. at[c] = "requesting" /\ Calling(c, "request") /\ task = c /\ IsUp(c)
    BY <1>1, <1>6 DEF Phase, Within, Leaving, Running, Replied, Resting
  <2> QED
    BY <1>2, <1>3, <1>4, <2>1 DEF Calling
<1>7. CASE at[c] = "leaving"
  <2>1. Calling(c, "stop") /\ task = c
    BY <1>1, <1>7 DEF Phase, Within, Leaving, Running, Replied, Resting
  <2> QED
    BY <1>2, <1>3, <1>4, <1>7, <2>1 DEF Calling
<1>8. CASE at[c] = "joining"
  <2>1. work[c] = <<"close">> /\ kind[c] = "sync" /\ IsOver(c)
    BY <1>1, <1>8 DEF Phase, Within, Leaving
  <2> QED
    BY <1>2, <1>3, <1>4, <1>8, <2>1
<1> QED
  BY <1>5, <1>6, <1>7, <1>8

\* The coroutine that starts the scope.
LEMMA StartTurns ==
  ASSUME Shaped, InTurn, NEW c \in Scope, Between(c),
         Starts(c) \/ StartAnswered(c) \/ StartFailed(c)
  PROVE  InTurn'
<1> USE Unscoped
<1>0. Phase(c)
  BY DEF InTurn
<1>1. CASE Starts(c)
  <2>1. /\ at[c] = "entering" /\ Untouched(c) /\ reply[c] = "pending" /\ work'[c] = <<>>
        /\ kind[c] # "served" /\ \A t \in Scope \ {c} : work'[t] = work[t]
    BY <1>0, <1>1, Taken DEF Starts
  <2>2. /\ Elsewhere(c) /\ at' = at /\ mode' = mode /\ task' = c /\ reply' = reply
        /\ run'[c] = "starting" /\ event'[c] = "startup" /\ read' = read
        /\ UNCHANGED <<pc, sent, overlapped>>
    BY <1>1, <2>1 DEF Starts, Wait, Put, Elsewhere, Shaped
  <2>3. Running(c, {"starting"})' /\ ComesUp(c)'
    BY <2>1, <2>2 DEF Running, ComesUp, Untouched
  <2>4. Phase(c)'
    BY <2>1, <2>2, <2>3 DEF Phase, Entering, Elsewhere
  <2> QED
    BY <2>1, <2>2, <2>4, Turn DEF Engaged
<1>2. CASE StartAnswered(c)
  <2>1. /\ at[c] = "entering" /\ reply[c] = "pending" /\ work[c] = <<>> /\ task = c
        /\ kind[c] # "served" /\ ComesUp(c)
    BY <1>0, <1>2 DEF StartAnswered, Phase, Entering, Within, Leaving, Calling, Running, Replied,
                      Resting
  <2>2. /\ UNCHANGED <<kind, at, mode, task, work, event, pc, sent, overlapped>>
        /\ \A t \in Scope \ {c} : read'[t] = read[t]
    BY <1>2 DEF StartAnswered, ReadAnswer, Shaped
  <2>3. CASE TheAnswer(c) = "startup.complete"
    <3>1. /\ run'[c] = "idle" /\ reply'[c] = "ok"
          /\ \A t \in Scope \ {c} : run'[t] = run[t] /\ reply'[t] = reply[t]
      BY <1>2, <2>1, <2>3, Finishes DEF StartAnswered
    <3>2. overlapped \/ pc[c] = "running"
      BY <1>2, <2>1, <2>3 DEF ComesUp, Between, Sending, StartAnswered, Answered, TheAnswer
    <3>3. Replied(c)' /\ IsUp(c)'
      BY <2>1, <2>2, <3>1, <3>2 DEF Replied, Resting, IsUp, ComesUp
    <3>4. Phase(c)' /\ Elsewhere(c)
      BY <2>1, <2>2, <3>1, <3>3 DEF Phase, Entering, Elsewhere
    <3> QED
      BY <2>1, <2>2, <3>4, Turn
  <2>4. CASE TheAnswer(c) # "startup.complete"
    <3>1. reply' = reply /\ run'[c] = "failing" /\ \A t \in Scope \ {c} : run'[t] = run[t]
      BY <1>2, <2>4 DEF StartAnswered, Wait, Shaped
    <3>2. Running(c, {"failing"})'
      BY <2>1, <2>2, <3>1 DEF Running
    <3>3. Phase(c)' /\ Elsewhere(c)
      BY <2>1, <2>2, <3>1, <3>2 DEF Phase, Entering, Elsewhere
    <3> QED
      BY <2>1, <2>2, <3>3, Turn
  <2> QED
    BY <2>3, <2>4
<1>3. CASE StartFailed(c)
  <2>1. /\ at[c] = "entering" /\ reply[c] = "pending" /\ work[c] = <<>> /\ task = c
        /\ kind[c] # "served"
    BY <1>0, <1>3 DEF StartFailed, Phase, Entering, Within, Leaving, Calling, Running, Replied,
                      Resting
  <2>2. UNCHANGED <<kind, at, mode, task, work, event, read, pc, sent, overlapped>>
    BY <1>3 DEF StartFailed, queues
  <2>3. /\ run'[c] = "idle" /\ reply'[c] = "error"
        /\ \A t \in Scope \ {c} : run'[t] = run[t] /\ reply'[t] = reply[t]
    BY <1>3, <2>1, Finishes DEF StartFailed
  <2>4. Replied(c)' /\ IsOver(c)'
    BY <1>3, <2>1, <2>2, <2>3 DEF Replied, Resting, StartFailed, IsDone, IsOver
  <2>5. Phase(c)' /\ Elsewhere(c)
    BY <2>1, <2>2, <2>3, <2>4 DEF Phase, Entering, Elsewhere
  <2> QED
    BY <2>1, <2>2, <2>5, Turn
<1> QED
  BY <1>1, <1>2, <1>3

\* A request of the context.
LEMMA RequestTurns ==
  ASSUME Shaped, InTurn, NEW c \in Scope, Serves(c) \/ Served(c)
  PROVE  InTurn'
<1> USE Unscoped
<1>0. Phase(c)
  BY DEF InTurn
<1>1. CASE Serves(c)
  <2>1. /\ at[c] = "requesting" /\ IsUp(c) /\ task = c /\ reply[c] = "pending"
        /\ work'[c] = <<>> /\ kind[c] # "served" /\ \A t \in Scope \ {c} : work'[t] = work[t]
    BY <1>0, <1>1, Taken DEF Serves
  <2>2. /\ UNCHANGED <<kind, at, mode, task, reply, event, read, pc, sent, overlapped>>
        /\ run'[c] = "serving" /\ \A t \in Scope \ {c} : run'[t] = run[t]
    BY <1>1 DEF Serves, Wait, Shaped
  <2>3. Running(c, {"serving"})' /\ IsUp(c)'
    BY <2>1, <2>2 DEF Running, IsUp
  <2>4. Phase(c)' /\ Elsewhere(c)
    BY <2>1, <2>2, <2>3 DEF Phase, Within, Elsewhere
  <2> QED
    BY <2>1, <2>2, <2>4, Turn
<1>2. CASE Served(c)
  <2>1. /\ at[c] = "requesting" /\ IsUp(c) /\ task = c /\ reply[c] = "pending"
        /\ work[c] = <<>> /\ kind[c] # "served"
    BY <1>0, <1>2 DEF Served, Phase, Entering, Within, Leaving, Calling, Running, Replied, Resting
  <2>2. UNCHANGED <<kind, at, mode, task, work, event, read, pc, sent, overlapped>>
    BY <1>2 DEF Served, queues
  <2>3. /\ run'[c] = "idle" /\ reply'[c] \in {"ok", "error"}
        /\ \A t \in Scope \ {c} : run'[t] = run[t] /\ reply'[t] = reply[t]
    BY <1>2, <2>1, Finishes DEF Served
  <2>4. Replied(c)' /\ IsUp(c)'
    BY <2>1, <2>2, <2>3 DEF Replied, Resting, IsUp
  <2>5. Phase(c)' /\ Elsewhere(c)
    BY <2>1, <2>2, <2>3, <2>4 DEF Phase, Within, Elsewhere
  <2> QED
    BY <2>1, <2>2, <2>5, Turn
<1> QED
  BY <1>1, <1>2

\* The coroutine that stops the scope, and the end of the thread.
LEMMA StopTurns ==
  ASSUME Shaped, InTurn, NEW c \in Scope,
         \/ StopsNothing(c) \/ StopsOwn(c) \/ StopsOther(c)
         \/ StopAnswered(c) \/ StopEnds(c) \/ Closed(c)
  PROVE  InTurn'
<1> USE Unscoped
<1>0. Phase(c)
  BY DEF InTurn
<1>1. ASSUME Takes(c, "stop")
      PROVE  /\ at[c] = "leaving" /\ task = c /\ reply[c] = "pending" /\ work'[c] = <<>>
             /\ kind[c] # "served" /\ \A t \in Scope \ {c} : work'[t] = work[t]
  BY <1>0, <1>1, Taken
<1>2. CASE StopsNothing(c)
  <2>1. c # NoScope
    BY LifespanAssumption
  <2>2. UNCHANGED <<kind, at, mode, task, event, read, pc, sent, overlapped>> /\ IsOver(c)
    BY <1>1, <1>2, <2>1 DEF StopsNothing, IsDone, IsOver
  <2>3. /\ run'[c] = "idle" /\ reply'[c] = "ok"
        /\ \A t \in Scope \ {c} : run'[t] = run[t] /\ reply'[t] = reply[t]
    BY <1>1, <1>2, Finishes DEF StopsNothing
  <2>4. Replied(c)' /\ IsOver(c)'
    BY <1>1, <1>2, <2>2, <2>3 DEF StopsNothing, Replied, Resting, IsOver
  <2>5. Phase(c)' /\ Elsewhere(c)
    BY <1>1, <1>2, <2>2, <2>3, <2>4 DEF StopsNothing, Phase, Leaving, Elsewhere
  <2> QED
    BY <2>2, <2>5, Turn
<1>3. CASE StopsOwn(c)
  <2>1. /\ UNCHANGED <<kind, at, mode, task, reply, read, pc, sent, overlapped>>
        /\ run'[c] = "stopping" /\ \A t \in Scope \ {c} : run'[t] = run[t] /\ event'[t] = event[t]
    BY <1>3 DEF StopsOwn, Put, Wait, Shaped
  <2>2. Running(c, {"stopping", "ending"})'
    BY <1>1, <1>3, <2>1 DEF StopsOwn, Running
  <2>3. Phase(c)' /\ Elsewhere(c)
    BY <1>1, <1>3, <2>1, <2>2 DEF StopsOwn, Phase, Leaving, Elsewhere
  <2> QED
    BY <2>1, <2>3, Turn
<1>4. CASE StopsOther(c)
  BY <1>1, <1>4 DEF StopsOther
<1>5. CASE StopAnswered(c) \/ StopEnds(c)
  <2>1. /\ at[c] = "leaving" /\ reply[c] = "pending" /\ work[c] = <<>> /\ task = c
        /\ kind[c] # "served"
    BY <1>0, <1>5 DEF StopAnswered, StopEnds, Phase, Entering, Within, Leaving, Calling, Running,
                      Replied, Resting
  <2>2. /\ UNCHANGED <<kind, at, mode, work, event, pc, sent, overlapped>>
        /\ \A t \in Scope \ {c} : read'[t] = read[t]
    BY <1>5 DEF StopAnswered, StopEnds, ReadAnswer, queues, Shaped
  <2>3. /\ \A t \in Scope \ {c} : run'[t] = run[t] /\ reply'[t] = reply[t]
        /\ \/ run'[c] = "idle" /\ reply'[c] \in {"ok", "error"} /\ IsOver(c)
           \/ run'[c] = "ending" /\ reply'[c] = "pending" /\ task' = task
    <3>1. CASE StopAnswered(c)
      BY <2>1, <3>1 DEF StopAnswered, Wait, Shaped
    <3>2. CASE StopEnds(c)
      BY <2>1, <3>2, Finishes DEF StopEnds, IsDone, IsOver
    <3> QED
      BY <1>5, <3>1, <3>2
  <2>4. \/ Replied(c)' /\ IsOver(c)'
        \/ Running(c, {"stopping", "ending"})' /\ task' = c
    BY <2>1, <2>2, <2>3 DEF Replied, Resting, Running, IsOver
  <2>5. Phase(c)' /\ Elsewhere(c)
    BY <2>1, <2>2, <2>3, <2>4 DEF Phase, Leaving, Elsewhere
  <2> QED
    BY <2>1, <2>2, <2>5, Turn DEF Engaged
<1>6. CASE Closed(c)
  <2>1. /\ at[c] = "joining" /\ work'[c] = <<>> /\ kind[c] = "sync" /\ IsOver(c)
        /\ \A t \in Scope \ {c} : work'[t] = work[t]
    BY <1>0, <1>6, Taken DEF Closed
  <2>2. /\ UNCHANGED <<kind, at, mode, task, reply, event, read, pc, sent, overlapped>>
        /\ run'[c] = "closed" /\ \A t \in Scope \ {c} : run'[t] = run[t]
    BY <1>6 DEF Closed, Wait, Shaped
  <2>3. Phase(c)' /\ Elsewhere(c)
    BY <2>1, <2>2 DEF Phase, Leaving, Elsewhere, IsOver
  <2> QED
    BY <2>1, <2>2, <2>3, Turn
<1> QED
  BY <1>2, <1>3, <1>4, <1>5, <1>6

\* Waiting in a send, with the answer handed over or not.
LEMMA Sends ==
  ASSUME TypeOK, NEW s \in Scope, NEW stage, NEW answer, Answering(s, stage, answer)
  PROVE  /\ pc'[s] = stage
         /\ sent' = sent \/ sent'[s] = Append(sent[s], answer)
         /\ \A t \in Scope \ {s} : pc'[t] = pc[t] /\ sent'[t] = sent[t]
BY DEF Answering, Goto, TypeOK

\* The task of a scope moves no other one.
LEMMA OwnTask ==
  ASSUME TypeOK, NEW s \in Scope, Progress(s) \/ Cancel(s)
  PROVE  \A t \in Scope \ {s} : pc'[t] = pc[t] /\ sent'[t] = sent[t]
<1>1. ASSUME RefuseActive(s) \/ Start(s) \/ Yields(s) \/ StartRaises(s) \/ CompleteFails(s)
      PROVE  \A t \in Scope \ {s} : pc'[t] = pc[t] /\ sent'[t] = sent[t]
  BY <1>1, Sends DEF RefuseActive, Start, Yields, StartRaises, CompleteFails, StartupFails,
                     Goto, TypeOK
<1>2. ASSUME Closes(s) \/ CloseRaises(s) \/ Completes(s) \/ Refuses(s)
      PROVE  \A t \in Scope \ {s} : pc'[t] = pc[t] /\ sent'[t] = sent[t]
  BY <1>2, Sends DEF Closes, CloseRaises, Completes, Refuses, Goto, TypeOK
<1>3. ASSUME Stopping(s) \/ FailureFails(s) \/ Cancel(s)
      PROVE  \A t \in Scope \ {s} : pc'[t] = pc[t] /\ sent'[t] = sent[t]
  BY <1>3, Sends DEF Stopping, FailureFails, Cancel, Shutdown, ShutdownPlain, Stops, StopRaises,
                     StoppedFails, ShutsDown, Goto, TypeOK
<1> QED
  BY <1>1, <1>2, <1>3 DEF Progress, Startup

\* A scope that has its startup event and nothing else comes up, or is refused
\* and done; and it stays up.
LEMMA TaskTurns ==
  ASSUME TypeOK, Sole, ~overlapped, NEW c \in Scope,
         event[c] = "startup", event' = event, read' = read,
         Steps(c) \/ Generates(c)
  PROVE  /\ ComesUp(c) => ComesUp(c)'
         /\ pc[c] # "running"
<1>0. sent[c] = <<>> => Append(sent[c], "startup.complete") = <<"startup.complete">>
                        /\ Append(sent[c], "startup.failed") = <<"startup.failed">>
  OBVIOUS
<1>1. CASE RefuseActive(c)
  <2>1. pc[c] = "idle" /\ pc'[c] = "refusing" /\ sent' # sent
           => sent'[c] = Append(sent[c], "startup.failed")
    BY <1>1, Sends DEF RefuseActive
  <2>2. pc[c] = "idle" /\ pc'[c] = "refusing" /\ sent' # sent
    BY <1>1, Sends DEF RefuseActive, Steps, Generates, Delivered, Sending
  <2> QED
    BY <1>0, <2>1, <2>2 DEF ComesUp
<1>2. CASE Start(c) /\ handler
  BY <1>2 DEF Start, Goto, ComesUp, TypeOK
<1>3. CASE (Start(c) /\ ~handler) \/ Yields(c)
  <2>1. /\ pc[c] \in {"idle", "starting"} /\ pc'[c] = "completing"
        /\ sent' = sent \/ sent'[c] = Append(sent[c], "startup.complete")
    BY <1>3, Sends DEF Start, Yields
  <2>2. sent' # sent
    BY <2>1 DEF Steps, Generates, Delivered, Sending
  <2> QED
    BY <1>0, <2>1, <2>2 DEF ComesUp
<1>4. CASE StartRaises(c)
  <2>1. iterator = NoScope /\ pc[c] = "starting"
    BY <1>4 DEF StartRaises, Sole, Owns
  <2>2. /\ pc'[c] = "refusing"
        /\ sent' = sent \/ sent'[c] = Append(sent[c], "startup.failed")
    BY <1>4, <2>1, Sends DEF StartRaises, StartupFails
  <2>3. sent' # sent
    BY <2>1, <2>2 DEF Steps, Generates, Delivered, Sending
  <2> QED
    BY <1>0, <2>1, <2>2, <2>3 DEF ComesUp
<1>5. CASE Completes(c) \/ Refuses(c)
  BY <1>5 DEF Completes, Refuses, Goto, ComesUp, TypeOK
<1>6. CASE ShutsDown(c) \/ Closes(c) \/ CloseRaises(c) \/ Stops(c) \/ StopRaises(c)
  BY <1>6 DEF ShutsDown, Closes, CloseRaises, Stops, StopRaises, ComesUp
<1> QED
  BY <1>1, <1>2, <1>3, <1>4, <1>5, <1>6 DEF Steps, Generates

\* What is over stays so.
LEMMA OverStays ==
  ASSUME NEW s \in Scope, Progress(s) \/ Cancel(s)
  PROVE  ~IsOver(s)
BY DEF IsOver, Over, Awaiting, Progress, Startup, Stopping, Cancel, RefuseActive, Start, Yields,
   StartRaises, CompleteFails, Closes, CloseRaises, Completes, Refuses, Shutdown, ShutdownPlain,
   Stops, StopRaises, StoppedFails, ShutsDown, FailureFails

\* Scopes that overlapped did so for ever.
LEMMA OverlappedStays == [Next]_vars => (overlapped => overlapped')
<1> SUFFICES ASSUME [Next]_vars, overlapped PROVE overlapped'
  OBVIOUS
<1>1. ASSUME NEW s \in Scope, Startup(s) PROVE overlapped'
  BY <1>1 DEF Startup, RefuseActive, Start, Yields, StartRaises, CompleteFails, Closes,
              CloseRaises, Completes, Refuses, history
<1>2. ASSUME NEW s \in Scope, Stopping(s) \/ FailureFails(s) \/ Cancel(s) PROVE overlapped'
  BY <1>2 DEF Stopping, FailureFails, Cancel, Shutdown, ShutdownPlain, Stops, StopRaises,
              StoppedFails, ShutsDown, history
<1> QED
  BY <1>1, <1>2 DEF Next, Progress, vars, history

LEMMA TasksTurn ==
  ASSUME TypeOK, ~overlapped => Sole, Shaped, InTurn, NEW c \in Scope, Tasks(c)
  PROVE  InTurn'
<1>0. Phase(c)
  BY DEF InTurn
<1>1. UNCHANGED <<kind, mode, task, at, reply, run, work, event, read>>
  BY DEF Tasks, Steps, Generates, Discard, Serve, CancelServed, client, queues
<1>2. Progress(c) \/ Cancel(c)
  BY DEF Tasks, Steps, Generates, Discard, Serve, CancelServed, Progress, Startup, Stopping
<1>3. ~IsOver(c) /\ (overlapped => overlapped') /\ Elsewhere(c)
  BY <1>1, <1>2, OwnTask, OverStays, OverlappedStays DEF Elsewhere, Next
<1>4. ASSUME overlapped PROVE Phase(c)'
  BY <1>0, <1>1, <1>3, <1>4 DEF Phase, Entering, Within, Leaving, Calling, Running, Replied,
                                Resting, Untouched, ComesUp, IsUp
<1>5. ASSUME kind[c] = "served" PROVE Phase(c)'
  BY <1>0, <1>1, <1>5 DEF Phase, Resting
<1>6. ASSUME Steps(c) \/ Generates(c), ~overlapped PROVE Phase(c)'
  <2>1. event[c] # "none"
    BY <1>6 DEF Steps, Generates, Runs
  <2>2. /\ ComesUp(c) => ComesUp(c)'
        /\ ~IsUp(c)
    BY <1>1, <1>6, TaskTurns DEF ComesUp, IsUp
  <2>3. ~Untouched(c)
    BY <1>6, <2>1 DEF Untouched
  <2> QED
    BY <1>0, <1>1, <1>3, <2>2, <2>3 DEF Phase, Entering, Within, Leaving, Calling, Running,
                                        Replied, Resting
<1>7. ~Discard(c)
  BY <1>0, <1>3 DEF Discard, Phase, Within, Leaving
<1>8. Phase(c)'
  BY <1>4, <1>5, <1>6, <1>7 DEF Tasks, Serve, CancelServed
<1> QED
  BY <1>1, <1>3, <1>8, Turn

LEMMA ClientInvStep == ClientInv /\ [ClientNext]_world => ClientInv'
<1> SUFFICES ASSUME ClientInv, [ClientNext]_world PROVE ClientInv'
  OBVIOUS
<1>1. TypeOK /\ Shaped /\ TypeOK' /\ Shaped'
  BY ClientSteps, TypeStep, ShapedStep DEF ClientInv
<1>2. ~overlapped' => Sole'
  BY ClientSteps, SoleStep, OverlappedStays DEF ClientInv
<1>3. ASSUME Timely' PROVE InTurn'
  <2>1. Timely
    <3>1. CASE UNCHANGED marks
      BY <1>3, <3>1 DEF Timely, marks
    <3>2. ASSUME NEW c \in Scope, GiveUp(c) \/ TimesOut(c) \/ Interrupt(c) PROVE FALSE
      BY <1>3, <3>2 DEF GiveUp, TimesOut, Interrupt, Timely
    <3>3. ASSUME NEW c \in Scope, Joined(c) PROVE Timely
      <4>1. interrupted' = interrupted /\ late' = (late \/ run[c] # "closed")
        BY <3>3 DEF Joined
      <4> QED
        BY <1>3, <4>1, Zenon DEF Timely
    <3> QED
      BY <3>1, <3>2, <3>3 DEF ClientNext, Caller, Loop, Tasks, world, client, Enter, Request,
         Leave, Returned, Starts, StartAnswered, StartFailed, Serves, Served, StopsNothing,
         StopsOwn, StopsOther, StopAnswered, StopEnds, Closed, Steps, Generates, Discard, Serve,
         CancelServed
  <2>2. InTurn /\ (~overlapped => Sole)
    BY <2>1 DEF ClientInv
  <2>3. CASE UNCHANGED world
    <3>1. UNCHANGED <<kind, mode, task, at, reply, run, work, event, read, pc, sent, overlapped>>
      BY <2>3 DEF world, vars, history, client, queues
    <3>2. ASSUME NEW c \in Scope PROVE Phase(c)'
      <4>1. Phase(c)
        BY <2>2 DEF InTurn
      <4> QED
        BY <3>1, <4>1 DEF Phase, Entering, Within, Leaving, Calling, Running, Replied, Resting,
                          Untouched, ComesUp, IsUp, IsOver
    <3> QED
      BY <2>2, <3>1, <3>2 DEF InTurn, Exclusive, Engaged
  <2>4. ASSUME NEW c \in Scope, Caller(c) PROVE InTurn'
    BY <1>1, <1>3, <2>2, <2>4, CallerTurns
  <2>5. ASSUME NEW c \in Scope, Tasks(c) PROVE InTurn'
    BY <1>1, <2>2, <2>5, TasksTurn
  <2>6. ASSUME NEW c \in Scope, Between(c), Loop(c) \/ Served(c) \/ Interrupt(c) PROVE InTurn'
    <3>1. ~TimesOut(c) /\ ~Interrupt(c)
      BY <1>3 DEF TimesOut, Interrupt, Timely
    <3> QED
      BY <1>1, <2>2, <2>6, <3>1, StartTurns, RequestTurns, StopTurns DEF Loop
  <2> QED
    BY <2>3, <2>4, <2>5, <2>6 DEF ClientNext
<1> QED
  BY <1>1, <1>2, <1>3 DEF ClientInv

LEMMA ClientInvariance == ClientSpec => []ClientInv
BY ClientInvInit, ClientInvStep, PTL DEF ClientSpec

\* Whoever is inside a context of the client finds its scope up: the startup half
\* of the handler has run, the shutdown half has not, and the application is
\* active with that scope's generator; for any number of contexts and of other
\* scopes that do not overlap, as long as no wait ran out of time
\* (testing.py 201-224, app.py 281-341).
THEOREM EnteredIsUp == ClientSpec => []EnteredMeansUp
<1>1. ClientInv => EnteredMeansUp
  <2> SUFFICES ASSUME ClientInv, Timely, ~overlapped,
                      NEW c \in Scope, kind[c] # "served", at[c] \in Inside
               PROVE  /\ pc[c] = "running" /\ active
                      /\ gen[c] = IF handler THEN "yielded" ELSE "none"
    BY DEF EnteredMeansUp
  <2>1. Sole /\ Phase(c)
    BY DEF ClientInv, InTurn
  <2>2. pc[c] = "running"
    BY <2>1 DEF Phase, Within, Leaving, IsUp, Inside
  <2> QED
    BY <2>1, <2>2 DEF Sole, Owns
<1> QED
  BY <1>1, ClientInvariance, PTL

\* Whatever the handler does, a context that was left has taken its scope to the
\* end, with the generator, and its thread has closed the loop, unless a wait ran
\* out of time, a send failed or a task was cancelled; for any number of contexts
\* (testing.py 125-164, 226-238).
THEOREM LeftIsOver == ClientSpec => []LeftMeansOver
<1>1. ClientInv /\ HandlersFinished => LeftMeansOver
  <2> SUFFICES ASSUME ClientInv, HandlersFinished, Timely, ~torn,
                      NEW c \in Scope, kind[c] # "served", at[c] = "left"
               PROVE  /\ pc[c] \in Over
                      /\ overlapped \/ gen[c] \in {"none", "finished", "again"}
                      /\ kind[c] = "sync" => run[c] = "closed"
    BY DEF LeftMeansOver
  <2>1. Phase(c)
    BY DEF ClientInv, InTurn
  <2>2. pc[c] \in Over /\ (kind[c] = "sync" => run[c] = "closed")
    BY <2>1 DEF Phase, Within, Leaving, IsOver
  <2> QED
    BY <2>2 DEF HandlersFinished, Quiet
<1> QED
  BY <1>1, ClientInvariance, ClientScopesCorrect, PTL

----------------------------------------------------------------------------
(* Calls in the order they were made, whatever runs out of time.           *)

Item == {"start", "request", "stop", "close"}
Has(c, item) == \E i \in 1..Len(work[c]) : work[c][i] = item

\* What the queue of a context can hold: its start in front, no request after its
\* stop; a caller in its own loop waits for each call.
Line(c) ==
  /\ at[c] = "out" => work[c] = <<>> /\ run[c] = "idle"
  /\ \A i \in 1..Len(work[c]) : work[c][i] = "start" => i = 1
  /\ \A i, j \in 1..Len(work[c]) : i < j /\ work[c][i] = "stop" => work[c][j] # "request"
  /\ Has(c, "stop") => at[c] \in {"leaving", "joining", "left"}
  /\ Has(c, "start") =>
       /\ ~Unanswered(c) /\ ~Has(c, "stop") /\ run[c] = "idle"
       /\ \/ at[c] = "entering" /\ reply[c] = "pending"
          \/ at[c] \in {"joining", "left"}
  /\ kind[c] # "sync" =>
       \/ work[c] = <<>> /\ run[c] = "idle"
       \/ /\ at[c] \in Blocked /\ reply[c] = "pending"
          /\ work[c] = <<>> \/ (Len(work[c]) = 1 /\ run[c] = "idle")

\* A context that has begun has its own task or one without open requests.
Begun(c) == Engaged(c) /\ ~Has(c, "start")
TaskInLine == \A c \in Scope : \A t \in Scope \ {c} :
  Begun(c) /\ task = t => ~Unanswered(t)

LineInv ==
  /\ Shaped
  /\ work \in [Scope -> Seq(Item)]
  /\ Exclusive
  /\ \A c \in Scope : Line(c)
  /\ task \in Scope \cup {NoScope} /\ TaskInLine

LEMMA LineInit == ClientInit => LineInv
<1> SUFFICES ASSUME ClientInit PROVE LineInv
  OBVIOUS
<1>1. Shaped
  BY TestClientAssumption DEF ClientInit, Shaped
<1>2. work \in [Scope -> Seq(Item)]
  <2>1. <<>> \in Seq(Item)
    OBVIOUS
  <2> QED
    BY <2>1 DEF ClientInit
<1> QED
  BY <1>1, <1>2 DEF ClientInit, LineInv, Exclusive, Engaged, Line, Has, TaskInLine, Begun

\* What a step of context c leaves of the others' calls.
Aside(c) ==
  /\ kind' = kind
  /\ \A t \in Scope \ {c} :
       at'[t] = at[t] /\ reply'[t] = reply[t] /\ work'[t] = work[t] /\ run'[t] = run[t]

LEMMA LineStep ==
  ASSUME LineInv, NEW c \in Scope, Aside(c), Shaped', Line(c)',
         work' \in [Scope -> Seq(Item)],
         \/ at'[c] = at[c] /\ mode' = mode
         \/ /\ Engaged(c) \/ (mode = "none" /\ kind[c] # "served")
            /\ Engaged(c)' => mode' = kind[c],
         Begun(c)' => Begun(c) \/ task' \in {c, NoScope},
         Unanswered(c)' => Unanswered(c) \/ Engaged(c),
         \/ task' \in {task, NoScope}
         \/ task' = c /\ ~Unanswered(c)'
  PROVE  LineInv'
<1>0. /\ Shaped /\ Exclusive /\ TaskInLine /\ task' \in Scope \cup {NoScope}
      /\ \A t \in Scope : Line(t)
  BY DEF LineInv
<1>1. Exclusive'
  <2>1. CASE at'[c] = at[c] /\ mode' = mode
    BY <1>0, <2>1 DEF Exclusive, Engaged, Aside
  <2>2. CASE /\ Engaged(c) \/ (mode = "none" /\ kind[c] # "served")
             /\ Engaged(c)' => mode' = kind[c]
    <3>1. kind[c] # "served"
      BY <1>0, <2>2 DEF Exclusive
    <3>2. \A d \in Scope \ {c} : ~Engaged(d)
      <4>1. CASE Engaged(c)
        BY <1>0, <4>1 DEF Exclusive
      <4>2. CASE mode = "none"
        BY <1>0, <4>2 DEF Exclusive, Shaped
      <4> QED
        BY <2>2, <4>1, <4>2
    <3> QED
      BY <2>2, <3>1, <3>2 DEF Exclusive, Engaged, Aside
  <2> QED
    BY <2>1, <2>2
<1>2. ASSUME NEW t \in Scope \ {c}
      PROVE  /\ Line(t)' /\ (Begun(t)' => Begun(t))
             /\ Unanswered(t)' => Unanswered(t)
  <2>1. Line(t) => Line(t)'
    BY DEF Line, Has, Unanswered, Aside
  <2> QED
    BY <1>0, <2>1 DEF Begun, Engaged, Has, Unanswered, Aside
<1>3. ASSUME NEW b \in Scope, NEW t \in Scope \ {b}, Begun(b)', task' = t
      PROVE  ~Unanswered(t)'
  <2>1. NoScope # t
    BY LifespanAssumption
  <2>2. CASE task' # task
    <3>1. t = c /\ ~Unanswered(c)'
      BY <1>3, <2>1, <2>2
    <3> QED
      BY <3>1
  <2>3. CASE task' = task
    <3>1. Begun(b) /\ ~Unanswered(t)
      BY <1>0, <1>2, <1>3, <2>1, <2>3 DEF TaskInLine
    <3>2. ~Engaged(t)
      BY <1>0, <3>1 DEF Exclusive, Begun
    <3>3. CASE t = c
      BY <3>1, <3>2, <3>3
    <3>4. CASE t # c
      BY <1>2, <3>1, <3>4
    <3> QED
      BY <3>3, <3>4
  <2> QED
    BY <2>2, <2>3
<1> QED
  BY <1>0, <1>1, <1>2, <1>3 DEF LineInv, TaskInLine

LEMMA Appended ==
  ASSUME LineInv, NEW c \in Scope, NEW item \in Item,
         work' = [work EXCEPT ![c] = Append(@, item)]
  PROVE  /\ work' \in [Scope -> Seq(Item)]
         /\ Len(work[c]) \in Nat /\ Len(work'[c]) = Len(work[c]) + 1
         /\ \A i \in 1..Len(work[c]) : work'[c][i] = work[c][i]
         /\ work'[c][Len(work[c]) + 1] = item
         /\ \A t \in Scope \ {c} : work'[t] = work[t]
BY DEF LineInv

LEMMA Dequeued ==
  ASSUME LineInv, NEW c \in Scope, NEW item, Takes(c, item)
  PROVE  /\ work' \in [Scope -> Seq(Item)]
         /\ Len(work[c]) \in Nat \ {0} /\ Len(work'[c]) = Len(work[c]) - 1
         /\ work[c][1] = item /\ work[c] # <<>> /\ run[c] = "idle"
         /\ \A i \in 1..Len(work'[c]) : work'[c][i] = work[c][i + 1]
         /\ \A t \in Scope \ {c} : work'[t] = work[t]
BY DEF LineInv, Takes

\* A coroutine is taken: the others move up.
LEMMA TakeLine ==
  ASSUME LineInv, NEW c \in Scope, NEW item, Takes(c, item), at' = at, kind' = kind,
         run'[c] = "idle" \/ reply' = reply
  PROVE  /\ Line(c)' /\ ~Has(c, "start")'
         /\ Has(c, "request")' => Has(c, "request")
         /\ Has(c, "start") => item = "start"
<1>1. Line(c)
  BY DEF LineInv
<1> USE Dequeued
<1>2. ~Has(c, "start")'
  BY <1>1 DEF Line, Has
<1>3. ASSUME NEW other, Has(c, other)' PROVE Has(c, other)
  <2>1. PICK i \in 1..Len(work'[c]) : work'[c][i] = other
    BY <1>3 DEF Has
  <2>2. i + 1 \in 1..Len(work[c]) /\ work[c][i + 1] = other
    BY <2>1
  <2> QED
    BY <2>2 DEF Has
<1>4. Has(c, "start") => item = "start"
  BY <1>1 DEF Line, Has
<1>5. ASSUME NEW i \in 1..Len(work'[c]), NEW j \in 1..Len(work'[c]), i < j, work'[c][i] = "stop"
      PROVE  work'[c][j] # "request"
  <2>1. /\ i + 1 \in 1..Len(work[c]) /\ j + 1 \in 1..Len(work[c]) /\ i + 1 < j + 1
        /\ work[c][i + 1] = "stop" /\ work'[c][j] = work[c][j + 1]
    BY <1>5
  <2>2. work[c][j + 1] # "request"
    BY <1>1, <2>1 DEF Line
  <2> QED
    BY <2>1, <2>2
<1>6. kind[c] # "sync" => work'[c] = <<>> /\ at[c] \in Blocked /\ reply[c] = "pending"
  BY <1>1 DEF Line
<1>7. at[c] # "out"
  BY <1>1 DEF Line
<1>8. \A i \in 1..Len(work'[c]) : work'[c][i] # "start"
  BY <1>2 DEF Has
<1>9. Has(c, "stop")' => at[c] \in {"leaving", "joining", "left"}
  BY <1>1, <1>3 DEF Line
<1>10. Line(c)'
  BY <1>2, <1>5, <1>6, <1>7, <1>8, <1>9 DEF Line
<1> QED
  BY <1>2, <1>3, <1>4, <1>10

\* While a coroutine runs, what waits in the queue is not the start, and nothing
\* waits in a caller's own loop.
LEMMA RunLine ==
  ASSUME LineInv, NEW c \in Scope, run[c] # "idle", work' = work, at' = at, kind' = kind,
         run'[c] = "idle" \/ reply' = reply
  PROVE  /\ Line(c)' /\ ~Has(c, "start")
         /\ kind[c] # "sync" => work[c] = <<>>
<1>1. Line(c)
  BY DEF LineInv
<1>2. /\ ~Has(c, "start") /\ at[c] # "out"
      /\ kind[c] # "sync" => work[c] = <<>> /\ at[c] \in Blocked /\ reply[c] = "pending"
  BY <1>1 DEF Line
<1>3. /\ ~Has(c, "start")'
      /\ \A i \in 1..Len(work[c]) : work[c][i] # "start"
      /\ Has(c, "stop")' => Has(c, "stop")
  BY <1>2 DEF Has
<1> QED
  BY <1>1, <1>2, <1>3 DEF Line

LEMMA AskedAlready ==
  ASSUME LineInv, NEW c \in Scope
  PROVE  /\ Line(c) /\ Shaped /\ work \in [Scope -> Seq(Item)] /\ NoScope \notin Scope
         /\ Engaged(c) => kind[c] # "served" /\ mode = kind[c]
         /\ Unanswered(c) <=> run[c] = "serving" \/ Has(c, "request")
BY LifespanAssumption DEF LineInv, Exclusive, Unanswered, Has

\* The caller's calls.
LEMMA SubmitKeepsLine ==
  ASSUME LineInv, NEW c \in Scope, Shaped', Enter(c) \/ Request(c) \/ Leave(c)
  PROVE  LineInv'
<1> USE AskedAlready
<1>1. CASE Enter(c)
  <2>1. /\ Aside(c) /\ at'[c] = "entering" /\ reply'[c] = "pending" /\ run' = run
        /\ work' = [work EXCEPT ![c] = Append(@, "start")] /\ kind' = kind /\ task' = task
        /\ work[c] = <<>> /\ run[c] = "idle" /\ mode = "none" /\ mode' = kind[c]
        /\ kind[c] # "served"
    BY <1>1 DEF Enter, Submit, Move, Aside, Shaped, Line
  <2>2. work' \in [Scope -> Seq(Item)] /\ Len(work'[c]) = 1 /\ work'[c][1] = "start"
    BY <2>1, Appended DEF Item
  <2>3. Has(c, "start")' /\ ~Has(c, "stop")' /\ ~Unanswered(c)'
    BY <2>1, <2>2 DEF Has, Unanswered
  <2>4. Line(c)'
    BY <2>1, <2>2, <2>3 DEF Line, Blocked
  <2> QED
    BY <2>1, <2>2, <2>3, <2>4, LineStep DEF Begun
<1>2. CASE Request(c) \/ Leave(c)
  <2>1. PICK item \in {"request", "stop"} :
          /\ work' = [work EXCEPT ![c] = Append(@, item)]
          /\ at'[c] = IF item = "request" THEN "requesting" ELSE "leaving"
    BY <1>2 DEF Request, Leave, Submit, Move, Shaped
  <2>2. /\ Aside(c) /\ at[c] \in {"within", "asked"} /\ reply'[c] = "pending"
        /\ UNCHANGED <<kind, mode, task, run>>
    BY <1>2 DEF Request, Leave, Submit, Move, Aside, Shaped
  <2>3. Engaged(c) /\ ~Has(c, "start") /\ ~Has(c, "stop") /\ (kind[c] # "sync" => work[c] = <<>>)
    BY <2>2 DEF Engaged, Line, Blocked
  <2>4. /\ work' \in [Scope -> Seq(Item)]
        /\ Len(work[c]) \in Nat /\ Len(work'[c]) = Len(work[c]) + 1
        /\ \A i \in 1..Len(work[c]) : work'[c][i] = work[c][i]
        /\ work'[c][Len(work[c]) + 1] = item
    BY <2>1, Appended DEF Item
  <2>5. \A i \in 1..Len(work[c]) : work'[c][i] \notin {"start", "stop"}
    BY <2>3, <2>4 DEF Has
  <2>6. ~Has(c, "start")' /\ (Has(c, "stop")' => item = "stop")
    BY <2>4, <2>5 DEF Has
  <2>7. \A i, j \in 1..Len(work'[c]) : i < j => work'[c][i] # "stop"
    BY <2>4, <2>5
  <2>8. kind[c] # "sync" => Len(work'[c]) = 1 /\ run[c] = "idle"
    <3>1. kind[c] # "sync" => run[c] = "idle"
      BY <2>2 DEF Line, Blocked
    <3> QED
      BY <2>3, <2>4, <3>1
  <2>9. Line(c)'
    BY <2>1, <2>2, <2>4, <2>5, <2>6, <2>7, <2>8 DEF Line, Blocked
  <2> QED
    BY <2>1, <2>2, <2>3, <2>4, <2>9, LineStep DEF Begun, Engaged
<1> QED
  BY <1>1, <1>2

\* A call returns, is given up or interrupted, or the thread is joined.
LEMMA ReturnKeepsLine ==
  ASSUME LineInv, NEW c \in Scope, Shaped',
         Returned(c) \/ GiveUp(c) \/ Joined(c) \/ Interrupt(c)
  PROVE  LineInv'
<1> USE AskedAlready
<1>1. ASSUME UNCHANGED <<kind, task, work>>, Aside(c), Engaged(c),
             run'[c] \in {run[c], "idle"},
             \/ /\ at'[c] \in {"within", "asked"} /\ at[c] \in {"entering", "requesting"}
                /\ Has(c, "start") => run[c] # "idle" \/ reply[c] # "pending"
             \/ at'[c] = "left",
             kind[c] # "sync" => work[c] = <<>> /\ run'[c] = "idle",
             Engaged(c)' => mode' = mode
      PROVE  LineInv'
  <2>1. /\ \A item : Has(c, item)' <=> Has(c, item)
        /\ Unanswered(c)' => Unanswered(c)
    BY <1>1 DEF Has, Unanswered
  <2>2. Has(c, "start")' => at'[c] = "left"
    BY <1>1, <2>1 DEF Line
  <2>3. Has(c, "stop")' => at'[c] = "left"
    BY <1>1, <2>1 DEF Line
  <2>4. Line(c)'
    BY <1>1, <2>1, <2>2, <2>3 DEF Line
  <2> QED
    BY <1>1, <2>1, <2>4, LineStep DEF Begun
<1>2. ASSUME Aside(c), Quit(c), at[c] \in {"entering", "leaving"},
             UNCHANGED <<kind, task, run>>,
             kind[c] # "sync" => reply[c] # "pending"
      PROVE  LineInv'
  <2>0. Engaged(c)
    BY <1>2 DEF Engaged
  <2>1. CASE kind[c] = "sync"
    <3>1. /\ work' = [work EXCEPT ![c] = Append(@, "close")] /\ at'[c] = "joining"
          /\ mode' = mode
      BY <1>2, <2>1 DEF Quit, Move, Shaped
    <3>2. /\ work' \in [Scope -> Seq(Item)]
          /\ Len(work[c]) \in Nat /\ Len(work'[c]) = Len(work[c]) + 1
          /\ \A i \in 1..Len(work[c]) : work'[c][i] = work[c][i]
          /\ work'[c][Len(work[c]) + 1] = "close"
      BY <3>1, Appended DEF Item
    <3>3. ASSUME NEW item, item # "close" PROVE Has(c, item)' <=> Has(c, item)
      <4>1. ASSUME NEW i \in 1..Len(work[c]), work[c][i] = item PROVE Has(c, item)'
        <5>1. i \in 1..Len(work'[c]) /\ work'[c][i] = item
          BY <3>2, <4>1
        <5> QED
          BY <5>1 DEF Has
      <4>2. ASSUME NEW i \in 1..Len(work'[c]), work'[c][i] = item PROVE Has(c, item)
        <5>1. i # Len(work[c]) + 1
          BY <3>2, <3>3, <4>2
        <5>2. i \in 1..Len(work[c]) /\ work[c][i] = item
          BY <3>2, <4>2, <5>1
        <5> QED
          BY <5>2 DEF Has
      <4> QED
        BY <4>1, <4>2 DEF Has
    <3>4. ASSUME NEW i \in 1..Len(work'[c]), NEW j \in 1..Len(work'[c]),
                 i < j, work'[c][i] = "stop"
          PROVE  work'[c][j] # "request"
      <4>1. CASE j = Len(work[c]) + 1
        BY <3>2, <4>1
      <4>2. CASE j # Len(work[c]) + 1
        <5>1. i \in 1..Len(work[c]) /\ j \in 1..Len(work[c])
          BY <3>2, <3>4, <4>2
        <5>2. work[c][i] = "stop" /\ work'[c][j] = work[c][j]
          BY <3>2, <3>4, <5>1
        <5>3. work[c][j] # "request"
          BY <3>4, <5>1, <5>2 DEF Line
        <5> QED
          BY <5>2, <5>3
      <4> QED
        BY <4>1, <4>2
    <3>5. ASSUME NEW i \in 1..Len(work'[c]), work'[c][i] = "start" PROVE i = 1
      <4>1. i # Len(work[c]) + 1
        BY <3>2, <3>5
      <4>2. i \in 1..Len(work[c]) /\ work[c][i] = "start"
        BY <3>2, <3>5, <4>1
      <4> QED
        BY <4>2 DEF Line
    <3>6. Unanswered(c)' <=> Unanswered(c)
      BY <1>2, <3>3 DEF Unanswered, Has
    <3>7. Line(c)'
      BY <1>2, <2>1, <3>1, <3>3, <3>4, <3>5, <3>6 DEF Line
    <3> QED
      BY <1>2, <2>0, <3>1, <3>2, <3>3, <3>6, <3>7, LineStep DEF Begun
  <2>2. CASE kind[c] # "sync"
    <3>1. at'[c] = "left" /\ work' = work /\ work[c] = <<>> /\ run[c] = "idle"
      BY <1>2, <2>2 DEF Quit, Move, Shaped, Line
    <3> QED
      BY <1>1, <1>2, <2>0, <3>1 DEF Engaged
  <2> QED
    BY <2>1, <2>2
<1>3. CASE Returned(c)
  <2>1. /\ at[c] \in Blocked /\ reply[c] # "pending" /\ UNCHANGED <<kind, task, run>> /\ Aside(c)
    BY <1>3 DEF Returned, Quit, Move, Aside, Shaped
  <2>2. CASE Quit(c) /\ at[c] # "requesting"
    BY <1>2, <2>1, <2>2 DEF Blocked
  <2>3. CASE ~(Quit(c) /\ at[c] # "requesting")
    <3>1. /\ at'[c] \in {"within", "asked"} /\ at[c] \in {"entering", "requesting"}
          /\ UNCHANGED <<mode, work>>
      BY <1>3, <2>3 DEF Returned, Move, Shaped
    <3>2. kind[c] # "sync" => work[c] = <<>> /\ run[c] = "idle"
      BY <2>1 DEF Line
    <3> QED
      BY <1>1, <2>1, <3>1, <3>2 DEF Engaged
  <2> QED
    BY <2>2, <2>3
<1>4. CASE GiveUp(c)
  <2>1. /\ at[c] \in Blocked /\ kind[c] = "sync" /\ UNCHANGED <<kind, task, run>> /\ Aside(c)
    BY <1>4 DEF GiveUp, Quit, Move, Aside, Shaped
  <2>2. CASE at[c] = "requesting"
    <3>1. at'[c] = "asked" /\ UNCHANGED <<mode, work>> /\ ~Has(c, "start")
      BY <1>4, <2>2 DEF GiveUp, Move, Shaped, Line
    <3> QED
      BY <1>1, <2>1, <2>2, <3>1 DEF Engaged
  <2>3. CASE at[c] # "requesting"
    BY <1>2, <1>4, <2>1, <2>3 DEF GiveUp, Blocked
  <2> QED
    BY <2>2, <2>3
<1>5. CASE Joined(c)
  <2>1. /\ at[c] = "joining" /\ at'[c] = "left" /\ Aside(c)
        /\ UNCHANGED <<kind, task, work, run>>
    BY <1>5 DEF Joined, Move, Aside, Shaped, queues
  <2>2. kind[c] # "sync" => work[c] = <<>> /\ run[c] = "idle"
    BY <2>1 DEF Line, Blocked
  <2> QED
    BY <1>1, <2>1, <2>2 DEF Engaged
<1>6. CASE Interrupt(c)
  <2>1. /\ at[c] \in Blocked /\ run[c] # "idle" /\ run'[c] = "idle" /\ Aside(c)
        /\ UNCHANGED <<kind, task, work>>
        /\ at'[c] = IF at[c] = "requesting" THEN "asked" ELSE "left"
        /\ mode' = IF at[c] = "leaving" THEN "none" ELSE mode
    BY <1>6 DEF Interrupt, Move, Aside, Shaped, queues
  <2>2. kind[c] # "sync" => work[c] = <<>>
    BY <2>1 DEF Line
  <2> QED
    BY <1>1, <2>1, <2>2 DEF Engaged, Blocked
<1> QED
  BY <1>3, <1>4, <1>5, <1>6

\* The loop takes a coroutine, or goes on with the one it runs.
LEMMA LoopKeepsLine ==
  ASSUME LineInv, NEW c \in Scope, Shaped', Loop(c) \/ Served(c)
  PROVE  LineInv'
<1> USE AskedAlready
<1>1. ASSUME NEW item, Takes(c, item), UNCHANGED <<kind, mode, at>>,
             \A t \in Scope \ {c} : reply'[t] = reply[t] /\ run'[t] = run[t],
             run'[c] = "idle" \/ reply' = reply,
             run'[c] = "serving" => item = "request",
             task' = task \/ (item = "start" /\ task' = c),
             item = "start" => task' = c /\ run'[c] # "serving"
      PROVE  LineInv'
  <2>1. /\ Line(c)' /\ (Has(c, "request")' => Has(c, "request"))
        /\ Has(c, "start") => item = "start"
    BY <1>1, TakeLine
  <2>2. work' \in [Scope -> Seq(Item)] /\ Aside(c) /\ Has(c, item)
    BY <1>1, Dequeued DEF Aside, Has
  <2>3. Unanswered(c)' => Unanswered(c)
    BY <1>1, <2>1, <2>2 DEF Unanswered, Has
  <2>4. item = "start" => ~Unanswered(c)
    BY <2>2 DEF Line
  <2>5. Begun(c)' => Begun(c) \/ task' = c
    BY <1>1, <2>1 DEF Begun, Engaged
  <2> QED
    BY <1>1, <2>1, <2>2, <2>3, <2>4, <2>5, LineStep
<1>2. ASSUME run[c] # "idle", UNCHANGED <<kind, mode, at, work>>, run'[c] # "serving",
             \A t \in Scope \ {c} : reply'[t] = reply[t] /\ run'[t] = run[t],
             run'[c] = "idle" \/ reply' = reply,
             task' \in {task, NoScope}
      PROVE  LineInv'
  <2>1. Line(c)' /\ ~Has(c, "start")
    BY <1>2, RunLine
  <2>2. Aside(c) /\ work' \in [Scope -> Seq(Item)] /\ (Unanswered(c)' => Unanswered(c))
    BY <1>2 DEF Aside, Unanswered
  <2>3. Begun(c)' => Begun(c)
    BY <1>2, <2>1 DEF Begun, Engaged
  <2> QED
    BY <1>2, <2>1, <2>2, <2>3, LineStep
<1>3. ASSUME NEW coroutine, NEW result, Finish(c, coroutine, result)
      PROVE  /\ run'[c] = "idle"
             /\ \A t \in Scope \ {c} : reply'[t] = reply[t] /\ run'[t] = run[t]
  BY <1>3 DEF Finish, Shaped
<1>4. ASSUME NEW stage, Wait(c, stage)
      PROVE  run'[c] = stage /\ \A t \in Scope \ {c} : run'[t] = run[t]
  BY <1>4 DEF Wait, Shaped
<1>5. CASE Starts(c)
  BY <1>1, <1>4, <1>5 DEF Starts
<1>6. CASE Serves(c)
  BY <1>1, <1>4, <1>6 DEF Serves
<1>7. CASE StopsNothing(c) \/ StopsOther(c)
  BY <1>1, <1>3, <1>7 DEF StopsNothing, StopsOther
<1>8. CASE StopsOwn(c)
  BY <1>1, <1>4, <1>8 DEF StopsOwn
<1>9. CASE Closed(c)
  BY <1>1, <1>4, <1>9 DEF Closed
<1>10. CASE StartAnswered(c)
  BY <1>2, <1>3, <1>4, <1>10 DEF StartAnswered
<1>11. CASE StartFailed(c)
  BY <1>2, <1>3, <1>11 DEF StartFailed, queues
<1>12. CASE Served(c)
  BY <1>2, <1>3, <1>12 DEF Served, queues
<1>13. CASE StopAnswered(c)
  BY <1>2, <1>4, <1>13 DEF StopAnswered
<1>14. CASE StopEnds(c)
  BY <1>2, <1>3, <1>14 DEF StopEnds, queues
<1>15. CASE TimesOut(c)
  BY <1>2, <1>3, <1>15 DEF TimesOut, queues
<1> QED
  BY <1>5, <1>6, <1>7, <1>8, <1>9, <1>10, <1>11, <1>12, <1>13, <1>14, <1>15 DEF Loop

LEMMA LineInvStep == LineInv /\ [ClientNext]_world => LineInv'
<1> SUFFICES ASSUME LineInv, [ClientNext]_world PROVE LineInv'
  OBVIOUS
<1>1. Shaped'
  BY ShapedStep DEF LineInv
<1>2. ASSUME UNCHANGED client PROVE LineInv'
  <2>1. UNCHANGED <<kind, mode, task, at, reply, run, work>>
    BY <1>2 DEF client, queues
  <2>2. ASSUME NEW t \in Scope
        PROVE  Line(t)' /\ (Begun(t)' => Begun(t)) /\ (Unanswered(t)' => Unanswered(t))
    <3>1. Line(t)
      BY DEF LineInv
    <3> QED
      BY <2>1, <3>1 DEF Line, Has, Unanswered, Begun, Engaged
  <2>3. TaskInLine'
    BY <2>1, <2>2 DEF LineInv, TaskInLine
  <2>4. Exclusive'
    BY <2>1 DEF LineInv, Exclusive, Engaged
  <2> QED
    BY <1>1, <2>1, <2>2, <2>3, <2>4 DEF LineInv
<1>3. ASSUME NEW c \in Scope, Caller(c) \/ Interrupt(c) PROVE LineInv'
  BY <1>1, <1>3, SubmitKeepsLine, ReturnKeepsLine DEF Caller
<1>4. ASSUME NEW c \in Scope, Loop(c) \/ Served(c) PROVE LineInv'
  BY <1>1, <1>4, LoopKeepsLine
<1>5. ASSUME NEW c \in Scope, Tasks(c) PROVE LineInv'
  BY <1>2, <1>5 DEF Tasks, Steps, Generates, Discard, Serve, CancelServed
<1>6. CASE UNCHANGED world
  BY <1>2, <1>6 DEF world
<1> QED
  BY <1>3, <1>4, <1>5, <1>6 DEF ClientNext

\* What the theorem says of a step.
InOrder == \A c \in Scope :
  event[c] # "shutdown" /\ event'[c] = "shutdown" /\ Unanswered(c) =>
    \E b \in Scope \ {c} : GivenUp(b)

\* A stop that meets the task of a context with open requests comes from a
\* context that was left.
LEMMA OnlyGivenUp ==
  ASSUME LineInv, NEW b \in Scope, NEW c \in Scope \ {b}, task = c, Takes(b, "stop"),
         Unanswered(c)
  PROVE  GivenUp(b)
<1>1. work[b] # <<>> /\ run[b] = "idle" /\ Has(b, "stop")
  BY Dequeued DEF Has
<1>2. Line(b)
  BY DEF LineInv
<1>3. ~Has(b, "start")
  BY <1>1, <1>2 DEF Line
<1>4. ~Engaged(b)
  BY <1>3 DEF LineInv, TaskInLine, Begun
<1>5. at[b] = "left"
  BY <1>1, <1>2, <1>4 DEF Line, Engaged
<1>6. kind[b] = "sync"
  BY <1>1, <1>2, <1>5 DEF Line, Blocked
<1> QED
  BY <1>1, <1>5, <1>6 DEF GivenUp

\* A context's own stop comes after its requests.
LEMMA StopComesLast ==
  ASSUME LineInv, NEW c \in Scope, Takes(c, "stop")
  PROVE  ~Unanswered(c)
<1>1. run[c] = "idle" /\ Len(work[c]) \in Nat /\ 1 \in 1..Len(work[c]) /\ work[c][1] = "stop"
  BY Dequeued
<1>2. ASSUME NEW i \in 1..Len(work[c]), work[c][i] = "request" PROVE FALSE
  <2>1. 1 < i
    BY <1>1, <1>2
  <2> QED
    BY <1>1, <1>2, <2>1 DEF LineInv, Line
<1> QED
  BY <1>1, <1>2 DEF Unanswered

LEMMA StepInOrder == LineInv /\ [ClientNext]_world => [InOrder]_world
<1> SUFFICES ASSUME LineInv, ClientNext, NEW c \in Scope,
                    event[c] # "shutdown", event'[c] = "shutdown", Unanswered(c)
             PROVE  \E b \in Scope \ {c} : GivenUp(b)
  BY DEF InOrder
<1>1. PICK b \in Scope : StopsOwn(b) \/ StopsOther(b)
  <2>1. PICK b \in Scope : Caller(b) \/ Tasks(b) \/ Loop(b) \/ Served(b) \/ Interrupt(b)
    BY DEF ClientNext
  <2>2. event' # event
    OBVIOUS
  <2>3. ~Caller(b)
    BY <2>2 DEF Caller, Enter, Request, Leave, Returned, GiveUp, Joined, queues
  <2>4. ~Tasks(b)
    BY <2>2 DEF Tasks, Steps, Generates, Discard, Serve, CancelServed, client, queues
  <2>5. ~Served(b) /\ ~Interrupt(b)
    BY <2>2 DEF Served, Interrupt, queues
  <2>6. ~Starts(b)
    BY DEF Starts, Put, LineInv, Shaped
  <2>7. Starts(b) \/ StopsOwn(b) \/ StopsOther(b)
    BY <2>1, <2>2, <2>3, <2>4, <2>5
    DEF Loop, StartAnswered, StartFailed, Serves, StopsNothing, StopAnswered, StopEnds, TimesOut,
        Closed, queues
  <2> QED
    BY <2>6, <2>7
<1>2. CASE StopsOwn(b)
  <2>1. c = b
    BY <1>2 DEF StopsOwn, Put, LineInv, Shaped
  <2> QED
    BY <1>2, <2>1, StopComesLast DEF StopsOwn
<1>3. CASE StopsOther(b)
  <2>1. c = task /\ c # b
    BY <1>3 DEF StopsOther, Put, LineInv, Shaped
  <2> QED
    BY <1>3, <2>1, OnlyGivenUp DEF StopsOther
<1> QED
  BY <1>1, <1>2, <1>3

\* The shutdown event of a context is put after its requests have been answered,
\* also those whose caller gave up waiting, unless the thread of a context that
\* was left lives on (testing.py 166-181, 193-199).
THEOREM RequestsFirst == ClientSpec => ShutdownAfterRequests
<1>1. ClientSpec => []LineInv
  BY LineInit, LineInvStep, PTL DEF ClientSpec
<1>2. LineInv /\ [ClientNext]_world => [InOrder]_world
  BY StepInOrder
<1> QED
  BY <1>1, <1>2, PTL DEF ClientSpec, ShutdownAfterRequests, InOrder

=============================================================================
