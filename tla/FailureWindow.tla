---------------------------- MODULE FailureWindow ----------------------------
(* What security-failure throttling promises: a window opens with a client's *)
(* first failure, stays open for Window ticks whatever other clients do, and *)
(* from the Limit-th failure on every further one in it is throttled.        *)
EXTENDS Integers

CONSTANTS Client, Limit, Window

VARIABLES now, start, count, throttled
vars == <<now, start, count, throttled>>

Init ==
  /\ now = 0
  /\ start = [c \in Client |-> 0]
  /\ count = [c \in Client |-> 0]
  /\ throttled = [c \in Client |-> FALSE]

\* Time passes, and the windows that have lasted long enough close.
Tick ==
  LET over == {c \in Client : now + 1 - start[c] >= Window}
  IN  /\ now' = now + 1
      /\ start' = [c \in Client |-> IF c \in over THEN 0 ELSE start[c]]
      /\ count' = [c \in Client |-> IF c \in over THEN 0 ELSE count[c]]
      /\ UNCHANGED throttled

Fail(c) ==
  /\ start' = [start EXCEPT ![c] = IF count[c] = 0 THEN now ELSE @]
  /\ count' = [count EXCEPT ![c] = @ + 1]
  /\ throttled' = [throttled EXCEPT ![c] = count[c] >= Limit]
  /\ UNCHANGED now

Next == Tick \/ \E c \in Client : Fail(c)

Spec == Init /\ [][Next]_vars
=============================================================================
