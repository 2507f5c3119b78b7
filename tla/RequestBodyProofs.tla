-------------------------- MODULE RequestBodyProofs --------------------------
(* What every call of body() and form() returns, for any number of tasks,    *)
(* any limit and bodies of any length.                                       *)
EXTENDS RequestBody, SequenceTheorems, WellFoundedInduction, TLAPS

\* The body of n pieces is a sequence of sizes.
LEMMA BodyShape ==
  ASSUME NEW b \in Pieces
  PROVE  /\ b \in Seq(Size) /\ Len(b) \in Nat \ {0}
         /\ DOMAIN b = 1..Len(b)
         /\ \A i \in 1..Len(b) : b[i] \in Nat
<1>1. PICK n \in 1..MaxPieces : b \in [1..n -> Size]
  BY DEF Pieces
<1>2. n \in Nat \ {0}
  BY RequestBodyAssumption
<1>3. b \in Seq(Size)
  BY <1>1, <1>2
<1>4. Len(b) = n
  BY <1>1, <1>2, <1>3
<1> QED
  BY <1>1, <1>2, <1>3, <1>4, RequestBodyAssumption

----------------------------------------------------------------------------
LEMMA InitType == Init => TypeOK
<1> SUFFICES ASSUME Init PROVE TypeOK
  OBVIOUS
<1>1. Len(body) \in Nat /\ Limit \in Nat
  BY BodyShape, RequestBodyAssumption DEF Init
<1>2. <<>> \in Seq(DOMAIN body)
  OBVIOUS
<1>3. /\ pc \in [Task -> Purpose \cup {"idle"}]
      /\ seen \in [Task -> 0..Limit]
  BY <1>1 DEF Init
<1>4. chunks \in [Task -> Seq(DOMAIN body)]
  BY <1>2 DEF Init
<1>5. arrived \in 0..Len(body) /\ at \in 0..arrived
  BY <1>1 DEF Init
<1>6. /\ body \in Pieces /\ kind \in Kind /\ gone \in BOOLEAN /\ torn \in BOOLEAN
      /\ stored \subseteq Seq(DOMAIN body) /\ form \subseteq Seq(DOMAIN body)
  BY DEF Init
<1> QED
  BY <1>3, <1>4, <1>5, <1>6 DEF TypeOK

\* The part of a read that the type invariant speaks about.
LEMMA IdleType ==
  ASSUME TypeOK, NEW t \in Task, Idle(t)
  PROVE  /\ pc' \in [Task -> Purpose \cup {"idle"}]
         /\ chunks' \in [Task -> Seq(DOMAIN body)]
         /\ seen' \in [Task -> 0..Limit]
<1>1. <<>> \in Seq(DOMAIN body) /\ 0 \in 0..Limit
  BY RequestBodyAssumption
<1> QED
  BY <1>1 DEF TypeOK, Idle

LEMMA FormFromType ==
  ASSUME form \subseteq Seq(DOMAIN body), NEW b \in Seq(DOMAIN body), FormFrom(b)
  PROVE  form' \subseteq Seq(DOMAIN body)
BY DEF FormFrom

LEMMA StartType ==
  ASSUME TypeOK, NEW t \in Task, NEW p \in Purpose, StartReading(t, p)
  PROVE  TypeOK'
<1>1. <<>> \in Seq(DOMAIN body) /\ 0 \in 0..Limit
  BY RequestBodyAssumption
<1>2. torn' \in BOOLEAN
  BY DEF StartReading, TypeOK
<1> QED
  BY <1>1, <1>2 DEF TypeOK, StartReading, request, server

LEMMA TypeStep == TypeOK /\ [Next]_vars => TypeOK'
<1> SUFFICES ASSUME TypeOK, [Next]_vars PROVE TypeOK'
  OBVIOUS
<1>b. /\ body \in Seq(Size) /\ Len(body) \in Nat \ {0} /\ DOMAIN body = 1..Len(body)
      /\ \A i \in 1..Len(body) : body[i] \in Nat
  BY BodyShape DEF TypeOK
<1>1. CASE Arrive
  BY <1>1, <1>b DEF TypeOK, Arrive, request, reading
<1>2. CASE Leave
  BY <1>2 DEF TypeOK, Leave, request, reading
<1>3. ASSUME NEW t \in Task, Body(t) PROVE TypeOK'
  BY <1>3, StartType DEF Body, Purpose
<1>4. ASSUME NEW t \in Task, Form(t) PROVE TypeOK'
  <2>1. CASE stored = {}
    BY <1>4, <2>1, StartType DEF Form, Purpose
  <2>2. CASE stored # {}
    <3>1. PICK b \in stored : FormFrom(b)
      BY <1>4, <2>2 DEF Form
    <3>2. form' \subseteq Seq(DOMAIN body)
      BY <3>1, FormFromType DEF TypeOK
    <3> QED
      BY <1>4, <2>2, <3>2 DEF Form, TypeOK, request, server, reading
  <2> QED
    BY <2>1, <2>2
<1>5. ASSUME NEW t \in Task, FormWithoutBody(t) PROVE TypeOK'
  <2>1. <<>> \in Seq(DOMAIN body)
    OBVIOUS
  <2> QED
    BY <1>5, <2>1 DEF FormWithoutBody, TypeOK, request, server, reading
<1>6. ASSUME NEW t \in Task, Take(t) PROVE TypeOK'
  <2>1. at + 1 \in 1..Len(body) /\ at + 1 \in 0..arrived
    BY <1>6, <1>b DEF Take, Receives, TypeOK
  <2>2. SeenNext(t) \in 0..Limit
    BY <1>6, <1>b, <2>1, RequestBodyAssumption DEF Take, SeenNext, TypeOK
  <2>3. Append(chunks[t], at + 1) \in Seq(DOMAIN body)
    BY <1>b, <2>1 DEF TypeOK
  <2> QED
    BY <1>6, <2>1, <2>2, <2>3 DEF Take, TypeOK, request
<1>7. ASSUME NEW t \in Task, TakeLast(t) PROVE TypeOK'
  <2>1. at + 1 \in 1..Len(body) /\ at + 1 \in 0..arrived
    BY <1>7, <1>b DEF TakeLast, Receives, TypeOK
  <2>2. Append(chunks[t], at + 1) \in Seq(DOMAIN body)
    BY <1>b, <2>1 DEF TypeOK
  <2>3. form' \subseteq Seq(DOMAIN body)
    <3>1. CASE pc[t] = "form"
      BY <1>7, <2>2, <3>1, FormFromType DEF TakeLast, TypeOK
    <3>2. CASE pc[t] # "form"
      BY <1>7, <3>2 DEF TakeLast, TypeOK
    <3> QED
      BY <3>1, <3>2
  <2>4. /\ stored' \subseteq Seq(DOMAIN body) /\ at' \in 0..arrived
        /\ UNCHANGED <<body, kind, arrived, gone, torn>>
    BY <1>7, <2>1, <2>2 DEF TakeLast, request
  <2> QED
    BY <1>7, <2>3, <2>4, IdleType DEF TakeLast, TypeOK
<1>8. ASSUME NEW t \in Task, TooBig(t) PROVE TypeOK'
  <2>1. at + 1 \in 0..arrived
    BY <1>8, <1>b DEF TooBig, Receives, TypeOK
  <2> QED
    BY <1>8, <2>1, IdleType DEF TooBig, TypeOK, request
<1>9. ASSUME NEW t \in Task, Disconnected(t) \/ Cancel(t) PROVE TypeOK'
  BY <1>9, IdleType DEF Disconnected, Cancel, TypeOK, request, server
<1>10. CASE UNCHANGED vars
  BY <1>10 DEF TypeOK, vars, request, server, reading
<1> QED
  BY <1>1, <1>2, <1>3, <1>4, <1>5, <1>6, <1>7, <1>8, <1>9, <1>10 DEF Next, Receive

\* Every reachable state is well typed.
THEOREM TypeCorrect == Spec => []TypeOK
BY InitType, TypeStep, PTL DEF Spec

----------------------------------------------------------------------------
\* What is true of the reads of a request between its steps.  The pieces from
\* the first to the n-th:
UpTo(n) == [i \in 1..n |-> i]

\* Undisturbed, one task reads at most, it has all the server handed out, and
\* a body is kept as soon as the last piece is handed out.
Undisturbed ==
  ~torn =>
    /\ \A t, u \in Task : Reading(t) /\ Reading(u) => t = u
    /\ \A t \in Task : Reading(t) => stored = {} /\ chunks[t] = UpTo(at)
    /\ stored = {} /\ (\A t \in Task : ~Reading(t)) => at = 0
    /\ stored # {} => stored = {Whole}

\* Only the task that gets the last piece keeps a body.
Kept == stored = {} \/ (at = Len(body) /\ \E b \in stored : stored = {b})

\* Only a form is read for form().
ReadForForm == \A t \in Task : pc[t] = "form" => kind \in {"form", "malformed"}

\* `seen` of an undisturbed read is the size of what it has, and a body was
\* kept at a total within the limit.
Counted ==
  ~torn =>
    /\ \A t \in Task : Reading(t) => \E total \in Totals(at) : total[at] = seen[t]
    /\ stored # {} => Totals(Len(body)) # {}

Inv == TypeOK /\ Undisturbed /\ Kept /\ ReadForForm /\ FormOfBody

LEMMA InvInit == Init => Inv
<1> SUFFICES ASSUME Init PROVE Inv
  OBVIOUS
<1>1. TypeOK
  BY InitType
<1>2. \A t \in Task : ~Reading(t)
  BY DEF Init, Reading
<1>3. Undisturbed
  BY <1>2 DEF Init, Undisturbed
<1>4. Kept /\ ReadForForm /\ FormOfBody
  BY DEF Init, Kept, ReadForForm, FormOfBody
<1> QED
  BY <1>1, <1>3, <1>4 DEF Inv

----------------------------------------------------------------------------
\* A read that begins.
LEMMA StartStep ==
  ASSUME Inv, NEW t \in Task, NEW p \in Purpose,
         ~Reading(t), stored = {}, p = "form" => kind \in {"form", "malformed"},
         StartReading(t, p)
  PROVE  Undisturbed' /\ Kept' /\ ReadForForm' /\ FormOfBody'
<1>1. /\ UNCHANGED <<body, kind, at, stored, form>>
      /\ pc' = [pc EXCEPT ![t] = p] /\ chunks' = [chunks EXCEPT ![t] = <<>>]
      /\ torn' = (torn \/ \E u \in Task : Reading(u))
  BY DEF StartReading, request, server
<1>2. pc \in [Task -> Purpose \cup {"idle"}] /\ DOMAIN chunks = Task /\ p # "idle"
  BY DEF Inv, TypeOK, Purpose
<1>3. \A u \in Task : Reading(u)' <=> (u = t \/ Reading(u))
  BY <1>1, <1>2 DEF Reading
<1>4. ASSUME ~torn' PROVE /\ at = 0 /\ \A u \in Task : Reading(u)' => u = t
                          /\ chunks'[t] = UpTo(0)
  <2>1. ~torn /\ \A u \in Task : ~Reading(u)
    BY <1>1, <1>4
  <2>2. UpTo(0) = <<>>
    BY DEF UpTo
  <2> QED
    BY <1>1, <1>2, <1>3, <2>1, <2>2 DEF Inv, Undisturbed
<1>5. Undisturbed'
  BY <1>1, <1>3, <1>4 DEF Undisturbed
<1>6. ReadForForm'
  BY <1>1, <1>2 DEF Inv, ReadForForm
<1>7. Kept' /\ FormOfBody'
  BY <1>1 DEF Inv, Kept, FormOfBody, Whole
<1> QED
  BY <1>5, <1>6, <1>7

\* A read that ends without a body.
LEMMA FailStep ==
  ASSUME Inv, NEW t \in Task, Idle(t), torn' = TRUE,
         UNCHANGED <<body, kind, stored, form>>, at' = at \/ stored = {}
  PROVE  Undisturbed' /\ Kept' /\ ReadForForm' /\ FormOfBody'
<1>1. Undisturbed' /\ Kept' /\ FormOfBody'
  BY DEF Inv, Undisturbed, Kept, FormOfBody, Whole
<1>2. ReadForForm'
  BY DEF Inv, TypeOK, Idle, ReadForForm
<1> QED
  BY <1>1, <1>2

\* While pieces are to be handed out no body is kept.
LEMMA NotKept == ASSUME Inv, NEW t \in Task, Receives(t) PROVE stored = {}
<1>1. /\ arrived \in 0..Len(body) /\ at \in 0..arrived /\ Len(body) \in Nat
  BY BodyShape DEF Inv, TypeOK
<1> QED
  BY <1>1 DEF Inv, Kept, Receives

LEMMA UpToNext == ASSUME NEW n \in Nat PROVE Append(UpTo(n), n + 1) = UpTo(n + 1)
<1>1. UpTo(n) \in Seq(Nat) /\ Len(UpTo(n)) = n
  BY DEF UpTo
<1>2. Append(UpTo(n), n + 1) \in Seq(Nat) /\ UpTo(n + 1) \in Seq(Nat)
  BY <1>1 DEF UpTo
<1>3. Len(UpTo(n + 1)) = n + 1 /\ Len(Append(UpTo(n), n + 1)) = n + 1
  BY <1>1 DEF UpTo
<1>4. \A i \in 1..n + 1 : Append(UpTo(n), n + 1)[i] = UpTo(n + 1)[i]
  BY <1>1 DEF UpTo
<1> QED
  BY <1>2, <1>3, <1>4, SeqEqual

LEMMA TakeStep ==
  ASSUME Inv, NEW t \in Task, Take(t)
  PROVE  Undisturbed' /\ Kept' /\ ReadForForm' /\ FormOfBody'
<1>1. /\ UNCHANGED <<body, kind, pc, stored, form, torn>>
      /\ at' = at + 1 /\ chunks' = [chunks EXCEPT ![t] = Append(@, at + 1)]
      /\ Reading(t)
  BY DEF Take, Receives, request
<1>2. stored = {}
  BY NotKept DEF Take
<1>3. DOMAIN chunks = Task /\ at \in Nat
  BY BodyShape DEF Inv, TypeOK
<1>4. \A u \in Task : Reading(u)' <=> Reading(u)
  BY <1>1 DEF Reading
<1>5. ~torn => chunks'[t] = UpTo(at')
  BY <1>1, <1>3, UpToNext DEF Inv, Undisturbed
<1>6. Undisturbed'
  BY <1>1, <1>2, <1>3, <1>4, <1>5 DEF Inv, Undisturbed
<1>7. Kept' /\ ReadForForm' /\ FormOfBody'
  BY <1>1, <1>2 DEF Inv, Kept, ReadForForm, FormOfBody, Whole
<1> QED
  BY <1>6, <1>7

LEMMA TakeLastStep ==
  ASSUME Inv, NEW t \in Task, TakeLast(t)
  PROVE  Undisturbed' /\ Kept' /\ ReadForForm' /\ FormOfBody'
<1> DEFINE b == Append(chunks[t], at + 1)
<1>1. /\ UNCHANGED <<body, kind, torn>> /\ Idle(t) /\ Reading(t)
      /\ at' = at + 1 /\ at + 1 = Len(body) /\ stored' = {b}
      /\ IF pc[t] = "form" THEN FormFrom(b) ELSE UNCHANGED form
  BY DEF TakeLast, Receives, request
<1>2. stored = {}
  BY NotKept DEF TakeLast
<1>3. at \in Nat /\ DOMAIN body = 1..Len(body) /\ pc \in [Task -> Purpose \cup {"idle"}]
  BY BodyShape DEF Inv, TypeOK
<1>4. Whole = UpTo(Len(body)) /\ Whole' = Whole
  BY <1>1, <1>3 DEF Whole, UpTo
<1>5. \A u \in Task : Reading(u)' <=> (u # t /\ Reading(u))
  BY <1>1, <1>3 DEF Idle, Reading
<1>6. ~torn => b = Whole
  BY <1>1, <1>3, <1>4, UpToNext DEF Inv, Undisturbed
<1>7. Undisturbed'
  BY <1>1, <1>4, <1>5, <1>6 DEF Inv, Undisturbed
<1>8. Kept' /\ ReadForForm'
  BY <1>1, <1>3 DEF Inv, Kept, ReadForForm, Idle
<1>9. FormOfBody'
  <2>1. form # {} => kind = "other" /\ form = {<<>>}
    BY <1>2 DEF Inv, FormOfBody
  <2>2. CASE pc[t] # "form"
    BY <1>1, <2>1, <2>2 DEF FormOfBody
  <2>3. CASE pc[t] = "form"
    <3>1. kind \in {"form", "malformed"} /\ form = {}
      BY <2>1, <2>3 DEF Inv, ReadForForm
    <3> QED
      BY <1>1, <1>4, <2>3, <3>1 DEF FormFrom, FormOfBody
  <2> QED
    BY <2>2, <2>3
<1> QED
  BY <1>7, <1>8, <1>9

\* form() with the body at hand.
LEMMA FormStep ==
  ASSUME Inv, NEW t \in Task, Form(t)
  PROVE  Undisturbed' /\ Kept' /\ ReadForForm' /\ FormOfBody'
<1>1. CASE stored = {}
  BY <1>1, StartStep DEF Form, Purpose
<1>2. CASE stored # {}
  <2>1. PICK b \in stored : FormFrom(b)
    BY <1>2 DEF Form
  <2>2. /\ UNCHANGED <<body, kind, at, pc, chunks, stored, torn>>
        /\ form = {} /\ kind \in {"form", "malformed"}
    BY <1>2 DEF Form, request, server, reading
  <2>3. Undisturbed' /\ Kept' /\ ReadForForm'
    BY <2>2 DEF Inv, Undisturbed, Kept, ReadForForm, Reading, Whole
  <2>4. form' = {} \/ (form' = {b} /\ (b = Whole => kind = "form"))
    BY <2>1, <2>2 DEF FormFrom
  <2>5. stored = {b}
    BY <1>2, <2>1 DEF Inv, Kept
  <2>6. FormOfBody'
    BY <2>2, <2>4, <2>5 DEF FormOfBody, Whole
  <2> QED
    BY <2>3, <2>6
<1> QED
  BY <1>1, <1>2

LEMMA InvStep == Inv /\ [Next]_vars => Inv'
<1> SUFFICES ASSUME Inv, [Next]_vars
             PROVE  Undisturbed' /\ Kept' /\ ReadForForm' /\ FormOfBody'
  BY TypeStep DEF Inv
<1>1. CASE Arrive
  BY <1>1 DEF Inv, Arrive, Undisturbed, Kept, ReadForForm, FormOfBody, Reading, Whole, request, reading
<1>2. CASE Leave
  BY <1>2 DEF Inv, Leave, Undisturbed, Kept, ReadForForm, FormOfBody, Reading, Whole, request, reading
<1>3. ASSUME NEW t \in Task, Body(t) PROVE Undisturbed' /\ Kept' /\ ReadForForm' /\ FormOfBody'
  BY <1>3, StartStep DEF Body, Purpose
<1>4. ASSUME NEW t \in Task, FormWithoutBody(t) PROVE Undisturbed' /\ Kept' /\ ReadForForm' /\ FormOfBody'
  BY <1>4 DEF FormWithoutBody, Inv, Undisturbed, Kept, ReadForForm, FormOfBody, Reading, Whole, request, server, reading
<1>5. ASSUME NEW t \in Task, TooBig(t) PROVE Undisturbed' /\ Kept' /\ ReadForForm' /\ FormOfBody'
  <2>1. stored = {}
    BY <1>5, NotKept DEF TooBig
  <2> QED
    BY <1>5, <2>1, FailStep DEF TooBig, request
<1>6. ASSUME NEW t \in Task, Disconnected(t) \/ Cancel(t)
      PROVE  Undisturbed' /\ Kept' /\ ReadForForm' /\ FormOfBody'
  BY <1>6, FailStep DEF Disconnected, Cancel, request, server
<1>7. CASE UNCHANGED vars
  BY <1>7 DEF vars, Inv, Undisturbed, Kept, ReadForForm, FormOfBody, Reading, Whole, request, server, reading
<1> QED
  BY <1>1, <1>2, <1>3, <1>4, <1>5, <1>6, <1>7, FormStep, TakeStep, TakeLastStep DEF Next, Receive

LEMMA InvHolds == Spec => []Inv
BY InvInit, InvStep, PTL DEF Spec

\* As long as no read overlapped another or failed, every call of body()
\* returns exactly what the client sent.
THEOREM BodyIsWhole == Spec => []WholeBody
<1>1. Inv => WholeBody
  BY DEF Inv, Undisturbed, WholeBody
<1> QED
  BY <1>1, InvHolds, PTL

----------------------------------------------------------------------------
\* The total of no pieces, and that of one piece more.
LEMMA NoTotal == \E total \in Totals(0) : total[0] = 0
<1>1. [i \in 0..0 |-> 0] \in Totals(0)
  BY RequestBodyAssumption DEF Totals
<1> QED
  BY <1>1

LEMMA TotalNext ==
  ASSUME NEW n \in Nat, NEW total \in Totals(n), total[n] + body[n + 1] \in 0..Limit
  PROVE  \E next \in Totals(n + 1) : next[n + 1] = total[n] + body[n + 1]
<1> DEFINE next == [i \in 0..n + 1 |-> IF i = n + 1 THEN total[n] + body[n + 1] ELSE total[i]]
<1>1. /\ total \in [0..n -> 0..Limit] /\ total[0] = 0
      /\ \A i \in 1..n : total[i] = total[i - 1] + body[i]
  BY DEF Totals
<1>2. next \in [0..n + 1 -> 0..Limit]
  BY <1>1
<1>3. next[0] = 0 /\ next[n + 1] = total[n] + body[n + 1]
  BY <1>1
<1>4. \A i \in 1..n + 1 : next[i] = next[i - 1] + body[i]
  <2> SUFFICES ASSUME NEW i \in 1..n + 1 PROVE next[i] = next[i - 1] + body[i]
    OBVIOUS
  <2>1. i - 1 \in 0..n + 1 /\ i - 1 # n + 1 /\ i \in 0..n + 1
    OBVIOUS
  <2>2. next[i - 1] = total[i - 1]
    BY <2>1
  <2> QED
    BY <1>1, <2>1, <2>2
<1> QED
  BY <1>2, <1>3, <1>4 DEF Totals

\* Totals speak of the body alone.
LEMMA TotalsSame == ASSUME body' = body PROVE \A n : Totals(n)' = Totals(n)
BY DEF Totals

LEMMA CountedInit == Init => Counted
BY DEF Init, Counted, Reading

\* Steps of the tasks: what a read counts is a total, and stays one.
LEMMA StartCounts ==
  ASSUME Inv, Counted, NEW t \in Task, NEW p \in Purpose, stored = {}, StartReading(t, p)
  PROVE  Counted'
<1>1. /\ UNCHANGED <<body, at, stored>>
      /\ pc' = [pc EXCEPT ![t] = p] /\ seen' = [seen EXCEPT ![t] = 0]
      /\ torn' = (torn \/ \E u \in Task : Reading(u))
  BY DEF StartReading, request, server
<1>2. pc \in [Task -> Purpose \cup {"idle"}] /\ DOMAIN seen = Task
  BY DEF Inv, TypeOK
<1>3. ASSUME ~torn' PROVE at = 0 /\ \A u \in Task : Reading(u)' => u = t
  <2>1. ~torn /\ \A u \in Task : ~Reading(u)
    BY <1>1, <1>3
  <2> QED
    BY <1>1, <1>2, <2>1 DEF Inv, Undisturbed, Reading
<1> QED
  BY <1>1, <1>2, <1>3, NoTotal, TotalsSame DEF Counted

LEMMA TakeCounts ==
  ASSUME Inv, Counted, NEW t \in Task, Take(t)
  PROVE  Counted'
<1>1. /\ UNCHANGED <<body, pc, stored, torn>> /\ Reading(t) /\ at' = at + 1
      /\ seen' = [seen EXCEPT ![t] = seen[t] + body[at + 1]]
      /\ seen[t] + body[at + 1] <= Limit
      /\ at + 1 \in 1..Len(body)
  BY BodyShape DEF Inv, TypeOK, Take, Receives, SeenNext, request
<1>2. at \in Nat /\ DOMAIN seen = Task /\ seen[t] \in 0..Limit /\ body[at + 1] \in Nat
  BY <1>1, BodyShape DEF Inv, TypeOK
<1>3. stored = {}
  BY NotKept DEF Take
<1>4. ASSUME ~torn PROVE \E total \in Totals(at + 1) : total[at + 1] = seen'[t]
  <2>1. PICK total \in Totals(at) : total[at] = seen[t]
    BY <1>1, <1>4 DEF Counted
  <2>2. seen[t] + body[at + 1] \in 0..Limit
    BY <1>1, <1>2, RequestBodyAssumption
  <2> QED
    BY <1>1, <1>2, <2>1, <2>2, TotalNext
<1>5. \A u \in Task : Reading(u)' /\ ~torn => u = t
  BY <1>1 DEF Inv, Undisturbed, Reading
<1> QED
  BY <1>1, <1>3, <1>4, <1>5, TotalsSame DEF Counted

LEMMA TakeLastCounts ==
  ASSUME Inv, Counted, NEW t \in Task, TakeLast(t)
  PROVE  Counted'
<1>1. /\ UNCHANGED <<body, torn>> /\ Idle(t) /\ Reading(t)
      /\ seen[t] + body[at + 1] <= Limit
      /\ at + 1 = Len(body) /\ Len(body) \in Nat \ {0}
  BY BodyShape DEF Inv, TypeOK, TakeLast, Receives, SeenNext, request
<1>2. at \in Nat /\ seen[t] \in 0..Limit /\ body[at + 1] \in Nat
      /\ pc \in [Task -> Purpose \cup {"idle"}]
  <2>1. at \in Nat /\ seen[t] \in 0..Limit /\ pc \in [Task -> Purpose \cup {"idle"}]
    BY DEF Inv, TypeOK
  <2>2. body \in Pieces /\ at + 1 \in 1..Len(body)
    BY <1>1, <2>1 DEF Inv, TypeOK
  <2> QED
    BY <2>1, <2>2, BodyShape
<1>3. ASSUME ~torn PROVE Totals(Len(body)) # {}
  <2>1. PICK total \in Totals(at) : total[at] = seen[t]
    BY <1>1, <1>3 DEF Counted
  <2>2. seen[t] + body[at + 1] \in 0..Limit
    BY <1>1, <1>2, RequestBodyAssumption
  <2> QED
    BY <1>1, <1>2, <2>1, <2>2, TotalNext
<1>4. \A u \in Task : Reading(u)' => u # t /\ Reading(u)
  BY <1>1, <1>2 DEF Idle, Reading
<1>5. ~torn => \A u \in Task : ~Reading(u)'
  BY <1>1, <1>4 DEF Inv, Undisturbed
<1> QED
  BY <1>1, <1>3, <1>5, TotalsSame DEF Counted

\* form() with the body at hand starts no read.
LEMMA FormCounts ==
  ASSUME Inv, Counted, NEW t \in Task, Form(t)
  PROVE  Counted'
<1>1. CASE stored = {}
  BY <1>1, StartCounts DEF Form, Purpose
<1>2. CASE stored # {}
  BY <1>2, TotalsSame DEF Form, Counted, Reading, request, server, reading
<1> QED
  BY <1>1, <1>2

LEMMA CountedStep == Inv /\ Counted /\ [Next]_vars => Counted'
<1> SUFFICES ASSUME Inv, Counted, [Next]_vars PROVE Counted'
  OBVIOUS
<1>1. CASE Arrive \/ Leave \/ UNCHANGED vars
  <2>1. UNCHANGED <<body, at, pc, seen, stored, torn>>
    BY <1>1 DEF Arrive, Leave, vars, request, server, reading
  <2> QED
    BY <2>1, TotalsSame DEF Counted, Reading
<1>2. ASSUME NEW t \in Task, Body(t) PROVE Counted'
  BY <1>2, StartCounts DEF Body, Purpose
<1>3. ASSUME NEW t \in Task, FormWithoutBody(t) PROVE Counted'
  <2>1. UNCHANGED <<body, at, pc, seen, stored, torn>>
    BY <1>3 DEF FormWithoutBody, request, server, reading
  <2> QED
    BY <2>1, TotalsSame DEF Counted, Reading
<1>4. ASSUME NEW t \in Task, TooBig(t) \/ Disconnected(t) \/ Cancel(t) PROVE Counted'
  BY <1>4 DEF TooBig, Disconnected, Cancel, Counted
<1> QED
  BY <1>1, <1>2, <1>3, <1>4, FormCounts, TakeCounts, TakeLastCounts DEF Next, Receive

\* There is one total of the first pieces.
LEMMA OneTotal ==
  ASSUME NEW n \in Nat, NEW total \in Totals(n), NEW more \in Totals(n + 1)
  PROVE  total[n] = more[n]
<1> DEFINE Less == {pair \in Nat \X Nat : pair[1] < pair[2]}
           Differ == {i \in 0..n : total[i] # more[i]}
<1>1. /\ total[0] = 0 /\ \A i \in 1..n : total[i] = total[i - 1] + body[i]
      /\ more[0] = 0 /\ \A i \in 1..n + 1 : more[i] = more[i - 1] + body[i]
  BY DEF Totals
<1>2. IsWellFoundedOn(Less, Nat)
  BY NatLessThanWellFounded, Zenon DEF OpToRel
<1>3. Differ \subseteq Nat
  OBVIOUS
<1>4. ASSUME Differ # {} PROVE FALSE
  <2> HIDE DEF Less, Differ
  <2>1. PICK least \in Differ : \A i \in Differ : ~ (<<i, least>> \in Less)
    BY <1>2, <1>3, <1>4, WFMin
  <2>2. least \in 0..n /\ total[least] # more[least]
    BY DEF Differ
  <2>3. least - 1 \in 0..n /\ least \in 1..n /\ least \in 1..n + 1
    BY <1>1, <2>2
  <2>4. <<least - 1, least>> \in Less
    <3>1. <<least - 1, least>> \in Nat \X Nat /\ <<least - 1, least>>[1] < <<least - 1, least>>[2]
      BY <2>3
    <3> QED
      BY <3>1, Zenon DEF Less
  <2>5. total[least - 1] = more[least - 1]
    BY <2>1, <2>3, <2>4 DEF Differ
  <2> QED
    BY <1>1, <2>2, <2>3, <2>5
<1> QED
  BY <1>4

\* A step that keeps a body, or refuses it, does so by its total.
LEMMA LimitedStep ==
  Inv /\ Counted /\ [Next]_vars =>
    [/\ stored' # {} /\ ~torn' => Totals(Len(body)) # {}
     /\ ~torn /\ torn' /\ at' # at => Totals(at') = {}]_vars
<1> SUFFICES ASSUME Inv, Counted, [Next]_vars
             PROVE  /\ stored' # {} /\ ~torn' => Totals(Len(body)) # {}
                    /\ ~torn /\ torn' /\ at' # at => Totals(at') = {}
  OBVIOUS
<1>1. body' = body
  BY DEF Next, vars, request, server, Arrive, Leave, Body, Form, FormWithoutBody, Receive,
         Take, TakeLast, TooBig, Disconnected, Cancel, StartReading
<1>2. stored' # {} /\ ~torn' => Totals(Len(body)) # {}
  BY <1>1, CountedStep, TotalsSame DEF Counted
<1>3. ASSUME ~torn, torn', at' # at PROVE \E t \in Task : TooBig(t)
  <2>1. ASSUME NEW t \in Task, Body(t) \/ Form(t) \/ FormWithoutBody(t) \/ Disconnected(t) \/ Cancel(t)
        PROVE  at' = at
    BY <2>1 DEF Body, Form, FormWithoutBody, Disconnected, Cancel, StartReading, server
  <2>2. ASSUME NEW t \in Task, Take(t) \/ TakeLast(t) PROVE torn' = torn
    BY <2>2 DEF Take, TakeLast
  <2>3. CASE Arrive \/ Leave \/ UNCHANGED vars
    BY <1>3, <2>3 DEF Arrive, Leave, vars, server
  <2> QED
    BY <1>3, <2>1, <2>2, <2>3 DEF Next, Receive
<1>4. ASSUME ~torn, NEW t \in Task, TooBig(t), NEW more \in Totals(at') PROVE FALSE
  <2>1. Reading(t) /\ at' = at + 1 /\ seen[t] + body[at + 1] > Limit /\ at \in Nat
    BY <1>4 DEF TooBig, Receives, SeenNext, Inv, TypeOK
  <2>2. PICK total \in Totals(at) : total[at] = seen[t]
    BY <1>4, <2>1 DEF Counted
  <2>3. total[at] = more[at]
    BY <1>4, <2>1, OneTotal
  <2>4. more[at + 1] \in 0..Limit /\ more[at + 1] = more[at] + body[at + 1]
    <3>1. more \in [0..at + 1 -> 0..Limit] /\ \A i \in 1..at + 1 : more[i] = more[i - 1] + body[i]
      BY <1>4, <2>1 DEF Totals
    <3>2. at + 1 \in 1..at + 1 /\ at + 1 \in 0..at + 1 /\ (at + 1) - 1 = at
      BY <2>1
    <3>3. more[at + 1] = more[(at + 1) - 1] + body[at + 1]
      BY <3>1, <3>2
    <3> QED
      BY <3>1, <3>2, <3>3
  <2> QED
    BY <2>1, <2>2, <2>3, <2>4, RequestBodyAssumption
<1> QED
  BY <1>2, <1>3, <1>4

\* A read that nothing disturbs keeps no body over the limit and refuses none
\* within it, however the body is cut in pieces.
THEOREM BodyIsLimited == Spec => Limited
BY InvHolds, CountedInit, CountedStep, LimitedStep, PTL DEF Spec, Limited

----------------------------------------------------------------------------
\* The form that is kept is of the body that is kept, whatever overlaps.
THEOREM FormIsOfBody == Spec => []FormOfBody
<1>1. Inv => FormOfBody
  BY DEF Inv
<1> QED
  BY <1>1, InvHolds, PTL

\* A kept body is never replaced: one last piece is handed out, to one task.
LEMMA StoredStep == Inv /\ [Next]_vars => [stored # {} => stored' = stored]_stored
<1> SUFFICES ASSUME Inv, [Next]_vars, stored # {} PROVE stored' = stored
  OBVIOUS
<1>1. \A t \in Task : ~Take(t) /\ ~TakeLast(t) /\ ~TooBig(t)
  BY NotKept DEF Take, TakeLast, TooBig
<1>2. ASSUME NEW t \in Task,
             Body(t) \/ Form(t) \/ FormWithoutBody(t) \/ Disconnected(t) \/ Cancel(t)
      PROVE  stored' = stored
  BY <1>2 DEF Body, Form, FormWithoutBody, Disconnected, Cancel, StartReading
<1>3. CASE Arrive \/ Leave \/ UNCHANGED vars
  BY <1>3 DEF Arrive, Leave, vars
<1> QED
  BY <1>1, <1>2, <1>3 DEF Next, Receive

\* What one call of body() returned is what every later call returns, whatever
\* reads overlap, fail and are tried again.
THEOREM BodyIsOne == Spec => OneBody
BY InvHolds, StoredStep, PTL DEF OneBody, Spec
=============================================================================
