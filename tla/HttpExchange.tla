---------------------------- MODULE HttpExchange ----------------------------
(* What Flasgo promises the ASGI server for one "http" scope, whatever the   *)
(* application code inside it does: an exchange is opened, at most one head  *)
(* and then one body leave it, background work happens only once the body    *)
(* is out, and a closed exchange stays as it is.  Http implements this.      *)
EXTENDS Naturals, Sequences

CONSTANT Request

VARIABLES
  state,   \* state[r] : "idle", "open" or "closed"
  wire,    \* wire[r]  : the ASGI messages delivered for r, in order
  work     \* work[r]  : background tasks of r that have run

vars == <<state, wire, work>>

HeadOnly == <<"start">>
Whole == <<"start", "body">>

Init ==
  /\ state = [r \in Request |-> "idle"]
  /\ wire = [r \in Request |-> <<>>]
  /\ work = [r \in Request |-> 0]

Open(r) ==
  /\ state[r] = "idle"
  /\ state' = [state EXCEPT ![r] = "open"]
  /\ UNCHANGED <<wire, work>>

\* One more message may leave as the exchange goes on or as it closes.
Emit(r) ==
  /\ state[r] = "open"
  /\ \E w \in {wire[r], HeadOnly, Whole}:
       /\ w = wire[r] \/ Len(w) = Len(wire[r]) + 1
       /\ wire' = [wire EXCEPT ![r] = w]
  /\ \E s \in {"open", "closed"} : state' = [state EXCEPT ![r] = s]
  /\ UNCHANGED work

Work(r) ==
  /\ state[r] = "open"
  /\ wire[r] = Whole
  /\ work' = [work EXCEPT ![r] = @ + 1]
  /\ \E s \in {"open", "closed"} : state' = [state EXCEPT ![r] = s]
  /\ UNCHANGED wire

Next == \E r \in Request : Open(r) \/ Emit(r) \/ Work(r)

Spec == Init /\ [][Next]_vars
=============================================================================
