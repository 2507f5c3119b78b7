-------------------------- MODULE SecurityFailures --------------------------
(* _register_security_failure of flasgo/app.py: the table of recent host,    *)
(* CSRF and authorization failures by client IP, which decides between the   *)
(* answer of the failed check and 429.  It has no await: one step each.      *)
EXTENDS Integers, Sequences, FiniteSets

CONSTANTS
  Client,     \* client IPs
  Limit,      \* security_failure_rate_limit; with 0 nothing is registered
  Window,     \* security_failure_window_seconds, in clock ticks
  Threshold,  \* table size from which it is pruned (10_000)
  MaxTime,    \* bound: the clock stops here
  MaxCount    \* bound: failures of a client counted in one window

ASSUME SecurityFailuresAssumption ==
  /\ Limit \in Nat \ {0} /\ Window \in Nat \ {0} /\ Threshold \in Nat
  /\ MaxTime \in Nat /\ MaxCount \in Nat

VARIABLES
  now,        \* time.monotonic()
  failures,   \* _security_failures: client -> start and count of its window
  throttled,  \* throttled[c]: the last failure of c was answered 429
  admitted    \* history: times of the failures of c that were not

vars == <<now, failures, throttled, admitted>>

Init ==
  /\ now = 0
  /\ failures = <<>>
  /\ throttled = [c \in Client |-> FALSE]
  /\ admitted = [c \in Client |-> <<>>]

Tick ==
  /\ now < MaxTime
  /\ now' = now + 1
  /\ UNCHANGED <<failures, throttled, admitted>>

\* Mutant: a big table is emptied.
KeptNone == IF Cardinality(DOMAIN failures) > Threshold THEN {} ELSE DOMAIN failures

\* Clients left in the table by the pruning every call starts with.
Kept ==
  IF Cardinality(DOMAIN failures) > Threshold
    THEN {c \in DOMAIN failures : failures[c].start >= now - Window}
    ELSE DOMAIN failures

\* Mutant: the start follows the clock and the count starts anew each tick.
EntryPerTick(c) ==
  IF c \in Kept /\ failures[c].start = now
    THEN [start |-> now, count |-> failures[c].count + 1]
    ELSE [start |-> now, count |-> 1]

\* The client's entry after the failure: counted in its window, or the first
\* of a new one when there is none or it is over.
Entry(c) ==
  IF c \in Kept /\ now - failures[c].start < Window
    THEN [start |-> failures[c].start, count |-> failures[c].count + 1]
    ELSE [start |-> now, count |-> 1]

Register(c) ==
  /\ Entry(c).count <= MaxCount
  /\ failures' = [k \in Kept \cup {c} |-> IF k = c THEN Entry(c) ELSE failures[k]]
  /\ throttled' = [throttled EXCEPT ![c] = Entry(c).count > Limit]
  /\ admitted' = IF Entry(c).count > Limit THEN admitted
                 ELSE [admitted EXCEPT ![c] = Append(@, now)]
  /\ UNCHANGED now

Next == Tick \/ \E c \in Client : Register(c)

Spec == Init /\ [][Next]_vars

----------------------------------------------------------------------------
Times(c) == DOMAIN admitted[c]

\* Entries count at least the failure that made them, no later than now.
TypeOK ==
  /\ now \in Nat
  /\ DOMAIN failures \subseteq Client
  /\ \A c \in DOMAIN failures :
       /\ failures[c] \in [start : Nat, count : Nat \ {0}]
       /\ failures[c].start <= now
  /\ throttled \in [Client -> BOOLEAN]
  /\ admitted \in [Client -> Seq(Nat)]

\* The windows are fixed, not sliding: between any two moments a window apart a
\* client gets at most twice the limit of failures past the throttle, and never
\* more, wherever its windows and the pruning fall (app.py 1120-1138).
TwiceTheLimit ==
  \A c \in Client : \A i \in Times(c) :
    Cardinality({j \in 1..i : admitted[c][j] > admitted[c][i] - Window}) <= 2 * Limit

\* Pruning is invisible: the table, whatever other clients make of it, throttles
\* exactly the failures a table that forgets nothing would (app.py 1127-1131).
OpenWindow(c) == c \in DOMAIN failures /\ now - failures[c].start < Window

Windows == INSTANCE FailureWindow WITH
  start <- [c \in Client |-> IF OpenWindow(c) THEN failures[c].start ELSE 0],
  count <- [c \in Client |-> IF OpenWindow(c) THEN failures[c].count ELSE 0]

ImplementsWindows == Windows!Spec
=============================================================================
