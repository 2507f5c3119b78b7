----------------------- MODULE SecurityFailuresProofs -----------------------
(* The table of security failures, pruned as it is, implements windows that  *)
(* forget nothing, for any clients, limit, window and pruning threshold.     *)
(* The argument: an entry that is pruned, or expired but still there, stands *)
(* for a closed window, and both are treated alike by the next failure.      *)
EXTENDS SecurityFailures, FiniteSetTheorems, TLAPS

WStart(c) == IF OpenWindow(c) THEN failures[c].start ELSE 0
WCount(c) == IF OpenWindow(c) THEN failures[c].count ELSE 0

\* What pruning leaves is in the table, and only closed windows go.
LEMMA KeptFacts ==
  ASSUME TypeOK
  PROVE  /\ Kept \subseteq DOMAIN failures
         /\ \A c \in Client : OpenWindow(c) => c \in Kept
<1>. DEFINE Pruned == {c \in DOMAIN failures : failures[c].start >= now - Window}
<1>1. Kept = Pruned \/ Kept = DOMAIN failures
  BY DEF Kept
<1>2. \A c \in Client : OpenWindow(c) => c \in Pruned
  BY SecurityFailuresAssumption DEF OpenWindow, TypeOK
<1>3. Pruned \subseteq DOMAIN failures
  OBVIOUS
<1>4. \A c \in Client : OpenWindow(c) => c \in DOMAIN failures
  BY DEF OpenWindow
<1>. QED BY <1>1, <1>2, <1>3, <1>4

\* The new entry extends the open window, or is the first of one opened now.
LEMMA EntryFacts ==
  ASSUME TypeOK, NEW c \in Client
  PROVE  /\ Entry(c) \in [start : Nat, count : Nat \ {0}]
         /\ Entry(c).start <= now
         /\ now - Entry(c).start < Window
         /\ Entry(c).count = WCount(c) + 1
         /\ Entry(c).start = IF WCount(c) = 0 THEN now ELSE WStart(c)
<1>1. CASE OpenWindow(c)
  <2>1. c \in Kept /\ c \in DOMAIN failures /\ now - failures[c].start < Window
    BY <1>1, KeptFacts DEF OpenWindow
  <2>2. Entry(c) = [start |-> failures[c].start, count |-> failures[c].count + 1]
    BY <2>1 DEF Entry
  <2>3. failures[c].start \in Nat /\ failures[c].count \in Nat \ {0} /\ failures[c].start <= now
    BY <2>1 DEF TypeOK
  <2>4. WCount(c) = failures[c].count /\ WStart(c) = failures[c].start
    BY <1>1 DEF WCount, WStart
  <2>. QED BY <2>1, <2>2, <2>3, <2>4
<1>2. CASE ~OpenWindow(c)
  <2>1. Entry(c) = [start |-> now, count |-> 1]
    BY <1>2, KeptFacts DEF OpenWindow, Entry
  <2>2. WCount(c) = 0
    BY <1>2 DEF WCount
  <2>3. now \in Nat
    BY DEF TypeOK
  <2>. QED BY <2>1, <2>2, <2>3, SecurityFailuresAssumption
<1>. QED BY <1>1, <1>2

LEMMA InitTyped == Init => TypeOK
<1>. SUFFICES ASSUME Init PROVE TypeOK
  OBVIOUS
<1>1. DOMAIN failures = {}
  BY DEF Init
<1>2. admitted \in [Client -> Seq(Nat)]
  BY DEF Init
<1>. QED BY <1>1, <1>2 DEF Init, TypeOK

\* A failure changes the entry of its client only.
LEMMA RegisterFacts ==
  ASSUME TypeOK, NEW c \in Client, Register(c)
  PROVE  /\ DOMAIN failures' = Kept \cup {c}
         /\ failures'[c] = Entry(c)
         /\ \A k \in Kept : k # c => failures'[k] = failures[k]
         /\ now' = now
BY DEF Register

LEMMA RegisterTyped ==
  ASSUME TypeOK, NEW c \in Client, Register(c)
  PROVE  TypeOK'
<1>1. DOMAIN failures' \subseteq Client /\ Kept \subseteq DOMAIN failures
  BY RegisterFacts, KeptFacts DEF TypeOK
<1>2. ASSUME NEW k \in DOMAIN failures'
      PROVE  /\ failures'[k] \in [start : Nat, count : Nat \ {0}]
             /\ failures'[k].start <= now'
  <2>1. CASE k = c
    BY <2>1, RegisterFacts, EntryFacts
  <2>2. CASE k # c
    <3>1. DOMAIN failures' = Kept \cup {c}
      BY RegisterFacts
    <3>2. k \in Kept
      BY <1>2, <2>2, <3>1
    <3>3. failures'[k] = failures[k] /\ now' = now
      BY <2>2, <3>2, RegisterFacts
    <3>. QED BY <1>1, <3>2, <3>3 DEF TypeOK
  <2>. QED BY <2>1, <2>2
<1>3. throttled' \in [Client -> BOOLEAN]
  BY EntryFacts DEF Register, TypeOK
<1>4. admitted' \in [Client -> Seq(Nat)]
  <2>1. admitted[c] \in Seq(Nat) /\ now \in Nat
    BY DEF TypeOK
  <2>2. Append(admitted[c], now) \in Seq(Nat)
    BY <2>1
  <2>. QED BY <2>2 DEF Register, TypeOK
<1>. QED BY <1>1, <1>2, <1>3, <1>4, RegisterFacts DEF TypeOK

LEMMA TypeStep == TypeOK /\ [Next]_vars => TypeOK'
<1>. SUFFICES ASSUME TypeOK, [Next]_vars PROVE TypeOK'
  OBVIOUS
<1>1. CASE Tick
  BY <1>1 DEF Tick, TypeOK
<1>2. ASSUME NEW c \in Client, Register(c) PROVE TypeOK'
  BY <1>2, RegisterTyped
<1>3. CASE UNCHANGED vars
  BY <1>3 DEF vars, TypeOK
<1>. QED BY <1>1, <1>2, <1>3 DEF Next

\* Entries of the table are well formed, of known clients, and never ahead of
\* the clock (app.py 1132-1137).
THEOREM TypeCorrect == Spec => []TypeOK
<1>. QED BY InitTyped, TypeStep, PTL DEF Spec

\* A failure is one failure of the abstract windows: the others keep theirs.
LEMMA RegisterWindows ==
  ASSUME TypeOK, NEW c \in Client, Register(c)
  PROVE  /\ \A k \in Client : k # c => WStart(k)' = WStart(k) /\ WCount(k)' = WCount(k)
         /\ WCount(c)' = WCount(c) + 1
         /\ WStart(c)' = IF WCount(c) = 0 THEN now ELSE WStart(c)
<1>1. ASSUME NEW k \in Client, k # c
      PROVE  WStart(k)' = WStart(k) /\ WCount(k)' = WCount(k)
  <2>1. CASE OpenWindow(k)
    <3>1. k \in Kept /\ failures'[k] = failures[k] /\ k \in DOMAIN failures'
      BY <1>1, <2>1, KeptFacts, RegisterFacts
    <3>. QED BY <2>1, <3>1, RegisterFacts DEF OpenWindow, WStart, WCount
  <2>2. CASE ~OpenWindow(k)
    <3>1. ~OpenWindow(k)'
      <4>1. CASE k \in Kept
        BY <1>1, <2>2, <4>1, KeptFacts, RegisterFacts DEF OpenWindow
      <4>2. CASE k \notin Kept
        BY <1>1, <4>2, RegisterFacts DEF OpenWindow
      <4>. QED BY <4>1, <4>2
    <3>. QED BY <2>2, <3>1 DEF WStart, WCount
  <2>. QED BY <2>1, <2>2
<1>2. OpenWindow(c)'
  BY RegisterFacts, EntryFacts DEF OpenWindow
<1>3. WCount(c)' = Entry(c).count /\ WStart(c)' = Entry(c).start
  BY <1>2, RegisterFacts DEF WCount, WStart
<1>. QED BY <1>1, <1>3, EntryFacts

LEMMA CountsAreNaturals ==
  ASSUME TypeOK, NEW c \in Client
  PROVE  WCount(c) \in Nat /\ (OpenWindow(c) <=> WCount(c) # 0)
BY DEF TypeOK, OpenWindow, WCount

LEMMA RegisterImplements ==
  ASSUME TypeOK, NEW c \in Client, Register(c)
  PROVE  Windows!Fail(c)
<1>. DEFINE S == [k \in Client |-> WStart(k)]
            C == [k \in Client |-> WCount(k)]
<1>1. S' = [S EXCEPT ![c] = IF C[c] = 0 THEN now ELSE @]
  BY RegisterWindows
<1>2. C' = [C EXCEPT ![c] = @ + 1]
  BY RegisterWindows
<1>3. throttled' = [throttled EXCEPT ![c] = C[c] >= Limit]
  <2>1. WCount(c) + 1 > Limit <=> WCount(c) >= Limit
    BY CountsAreNaturals, SecurityFailuresAssumption
  <2>2. (Entry(c).count > Limit) = (C[c] >= Limit)
    BY <2>1, EntryFacts
  <2>. QED BY <2>2 DEF Register
<1>4. now' = now
  BY RegisterFacts
<1>. QED BY <1>1, <1>2, <1>3, <1>4 DEF Windows!Fail, WStart, WCount

\* The clock closes exactly the windows that have lasted Window ticks.
LEMMA TickImplements ==
  ASSUME TypeOK, Tick
  PROVE  Windows!Tick
<1>. DEFINE S == [k \in Client |-> WStart(k)]
            C == [k \in Client |-> WCount(k)]
            over == {k \in Client : now + 1 - S[k] >= Window}
<1>1. now' = now + 1 /\ failures' = failures /\ throttled' = throttled /\ now \in Nat
  BY DEF Tick, TypeOK
<1>2. ASSUME NEW k \in Client
      PROVE  /\ WStart(k)' = IF k \in over THEN 0 ELSE S[k]
             /\ WCount(k)' = IF k \in over THEN 0 ELSE C[k]
  <2>1. CASE OpenWindow(k)
    <3>1. k \in DOMAIN failures /\ failures[k].start \in Nat /\ S[k] = failures[k].start
      BY <2>1 DEF OpenWindow, TypeOK, WStart
    <3>2. OpenWindow(k)' <=> k \notin over
      BY <1>1, <3>1, SecurityFailuresAssumption DEF OpenWindow
    <3>. QED BY <1>1, <2>1, <3>1, <3>2 DEF WStart, WCount
  <2>2. CASE ~OpenWindow(k)
    <3>1. ~OpenWindow(k)'
      BY <1>1, <2>2, SecurityFailuresAssumption DEF OpenWindow, TypeOK
    <3>. QED BY <2>2, <3>1 DEF WStart, WCount
  <2>. QED BY <2>1, <2>2
<1>3. S' = [k \in Client |-> IF k \in over THEN 0 ELSE S[k]]
  BY <1>2
<1>4. C' = [k \in Client |-> IF k \in over THEN 0 ELSE C[k]]
  BY <1>2
<1>. QED BY <1>1, <1>3, <1>4 DEF Windows!Tick, WStart, WCount

LEMMA InitImplements == Init => Windows!Init
<1>. SUFFICES ASSUME Init PROVE Windows!Init
  OBVIOUS
<1>1. \A c \in Client : ~OpenWindow(c)
  BY DEF Init, OpenWindow
<1>. QED BY <1>1 DEF Init, Windows!Init

LEMMA StepImplements == TypeOK /\ [Next]_vars => [Windows!Next]_(Windows!vars)
<1>. SUFFICES ASSUME TypeOK, [Next]_vars PROVE [Windows!Next]_(Windows!vars)
  OBVIOUS
<1>1. CASE Tick
  BY <1>1, TickImplements DEF Windows!Next
<1>2. ASSUME NEW c \in Client, Register(c) PROVE Windows!Next
  BY <1>2, RegisterImplements DEF Windows!Next
<1>3. CASE UNCHANGED vars
  BY <1>3 DEF vars, Windows!vars, OpenWindow
<1>. QED BY <1>1, <1>2, <1>3 DEF Next

\* The pruned table throttles exactly what a table that forgets nothing would:
\* every run of it is a run of FailureWindow (app.py 1120-1138).
THEOREM Implementation == Spec => ImplementsWindows
<1>. QED BY TypeCorrect, InitImplements, StepImplements, PTL
         DEF Spec, ImplementsWindows, Windows!Spec

----------------------------------------------------------------------------
(* Twice the limit.  a is what a client had admitted, in order; its window   *)
(* started at s and counts k failures, k = 0 when none is open at time t.    *)
(* The last of a are those of the window; the Limit before them may be of    *)
(* the window before; what is older is a window's length older than s.       *)
Few(k) == IF k < Limit THEN k ELSE Limit

Spread(a, s, k, t) ==
  /\ Few(k) <= Len(a)
  /\ \A j \in 1..Len(a) : a[j] <= t
  /\ k > 0 => /\ s <= t
              /\ \A j \in 1..Len(a) : j <= Len(a) - Few(k) => a[j] <= s
              /\ \A j \in 1..Len(a) : j <= Len(a) - Few(k) - Limit => a[j] <= s - Window
  /\ k = 0 => \A j \in 1..Len(a) : j <= Len(a) - Limit => a[j] <= t - Window

\* The failures up to the i-th that are less than a window older.
Recent(a, i) == {j \in 1..i : a[j] > a[i] - Window}

FewRecent(a) == \A i \in DOMAIN a : Cardinality(Recent(a, i)) <= 2 * Limit

\* An admitted failure is of the open window, or of a new one.
LEMMA AdmittedSpreads ==
  ASSUME NEW a \in Seq(Nat), NEW s \in Nat, NEW k \in Nat, NEW t \in Nat,
         Spread(a, s, k, t), k + 1 <= Limit, k > 0 => t - s < Window
  PROVE  LET s2 == IF k = 0 THEN t ELSE s
         IN  Spread(Append(a, t), s2, k + 1, t)
<1>. DEFINE n == Len(a)
            b == Append(a, t)
            s2 == IF k = 0 THEN t ELSE s
<1>1. /\ n \in Nat /\ Len(b) = n + 1 /\ b[n + 1] = t
      /\ \A j \in 1..n : b[j] = a[j] /\ a[j] \in Nat
  OBVIOUS
<1>2. Limit \in Nat /\ Window \in Nat /\ Few(k) = k /\ Few(k + 1) = k + 1
  BY SecurityFailuresAssumption DEF Few
<1>. HIDE DEF b
<1>3. Few(k + 1) <= Len(b) /\ \A j \in 1..(n + 1) : b[j] <= t
  BY <1>1, <1>2 DEF Spread
<1>4. s2 <= t
  BY DEF Spread
<1>5. ASSUME NEW j \in 1..(n + 1), j <= (n + 1) - (k + 1) PROVE b[j] <= s2
  <2>1. j \in 1..n /\ j <= n - k
    BY <1>1, <1>5
  <2>2. b[j] = a[j]
    BY <1>1, <2>1
  <2>3. a[j] <= s2
    BY <1>2, <2>1 DEF Spread
  <2>. QED BY <2>2, <2>3
<1>6. ASSUME NEW j \in 1..(n + 1), j <= (n + 1) - (k + 1) - Limit
      PROVE  b[j] <= s2 - Window
  <2>1. j \in 1..n /\ j <= n - k - Limit
    BY <1>1, <1>2, <1>6
  <2>2. b[j] = a[j]
    BY <1>1, <2>1
  <2>3. a[j] <= s2 - Window
    BY <1>2, <2>1 DEF Spread
  <2>. QED BY <2>2, <2>3
<1>7. k + 1 > 0 /\ k + 1 # 0 /\ Len(b) = n + 1 /\ Few(k + 1) = k + 1
  BY <1>1, <1>2
<1>. HIDE DEF s2
<1>8. Spread(b, s2, k + 1, t)
  BY <1>3, <1>4, <1>5, <1>6, <1>7 DEF Spread
<1>. QED BY <1>8 DEF b, s2

\* With it no more than twice the limit are less than a window old.
LEMMA AdmittedAreFew ==
  ASSUME NEW b \in Seq(Nat), b # <<>>, NEW s \in Nat, NEW k \in Nat, NEW t \in Nat,
         Spread(b, s, k, t), k > 0, b[Len(b)] = t
  PROVE  Cardinality(Recent(b, Len(b))) <= 2 * Limit
<1>. DEFINE n == Len(b)
            low == n - Few(k) - Limit
<1>1. n \in Nat /\ \A j \in 1..n : b[j] \in Nat
  OBVIOUS
<1>2. Limit \in Nat /\ Window \in Nat /\ Few(k) \in Nat /\ Few(k) <= Limit
  BY SecurityFailuresAssumption DEF Few
<1>3. Recent(b, n) \in SUBSET ((low + 1)..n)
  <2>1. SUFFICES ASSUME NEW j \in 1..n, b[j] > t - Window, ~(j \in (low + 1)..n)
                 PROVE  FALSE
    BY DEF Recent
  <2>2. j <= low
    BY <1>1, <1>2, <2>1
  <2>3. b[j] <= s - Window /\ s <= t
    BY <2>2 DEF Spread
  <2>. QED BY <1>1, <1>2, <2>1, <2>3
<1>4. low \in Int /\ low + 1 <= n + 1 /\ n - (low + 1) + 1 <= 2 * Limit
  <2>1. n \in Nat
    BY <1>1
  <2>. HIDE DEF n
  <2>. QED BY <1>2, <2>1
<1>. HIDE DEF low
<1>5. IsFiniteSet((low + 1)..n) /\ Cardinality((low + 1)..n) <= 2 * Limit
  <2>1. /\ IsFiniteSet((low + 1)..n)
        /\ Cardinality((low + 1)..n) = IF low + 1 > n THEN 0 ELSE n - (low + 1) + 1
    <3>1. low + 1 \in Int /\ n \in Int
      BY <1>1, <1>4
    <3>. HIDE DEF n
    <3>. QED BY <3>1, FS_Interval
  <2>. QED BY <1>1, <1>2, <1>4, <2>1
<1>6. /\ Cardinality(Recent(b, n)) <= Cardinality((low + 1)..n)
      /\ Cardinality(Recent(b, n)) \in Nat /\ Cardinality((low + 1)..n) \in Nat
  BY <1>3, <1>5, FS_Subset, FS_CardinalityType
<1>. QED BY <1>2, <1>5, <1>6

\* Nothing changes for the failures admitted before.
LEMMA AppendKeepsFew ==
  ASSUME NEW a \in Seq(Nat), NEW t \in Nat, FewRecent(a),
         Cardinality(Recent(Append(a, t), Len(Append(a, t)))) <= 2 * Limit
  PROVE  FewRecent(Append(a, t))
<1>. DEFINE b == Append(a, t)
            n == Len(a)
<1>1. /\ n \in Nat /\ Len(b) = n + 1 /\ DOMAIN b = 1..(n + 1) /\ DOMAIN a = 1..n
      /\ \A j \in 1..n : b[j] = a[j]
  OBVIOUS
<1>. HIDE DEF b
<1>2. ASSUME NEW i \in 1..n PROVE Cardinality(Recent(b, i)) <= 2 * Limit
  <2>1. b[i] = a[i] /\ \A j \in 1..i : b[j] = a[j]
    BY <1>1
  <2>2. Recent(b, i) = Recent(a, i)
    BY <2>1 DEF Recent
  <2>. QED BY <1>1, <2>2 DEF FewRecent
<1>. QED BY <1>1, <1>2 DEF FewRecent, b

\* A throttled failure counts, and is not admitted.
LEMMA ThrottledSpreads ==
  ASSUME NEW a \in Seq(Nat), NEW s \in Nat, NEW k \in Nat, NEW t \in Nat,
         Spread(a, s, k, t), k + 1 > Limit
  PROVE  k > 0 /\ Spread(a, s, k + 1, t)
<1>1. Few(k) = Few(k + 1) /\ k > 0
  BY SecurityFailuresAssumption DEF Few
<1>. QED BY <1>1 DEF Spread

\* Time passes, in the window or past its end.
LEMMA LaterSpreads ==
  ASSUME NEW a \in Seq(Nat), NEW s \in Nat, NEW k \in Nat, NEW t \in Nat,
         Spread(a, s, k, t)
  PROVE  /\ Spread(a, s, k, t + 1)
         /\ k > 0 /\ t + 1 - s >= Window => Spread(a, 0, 0, t + 1)
<1>1. Len(a) \in Nat /\ \A j \in 1..Len(a) : a[j] \in Nat
  OBVIOUS
<1>2. /\ Window \in Nat /\ Limit \in Nat /\ Few(k) \in Nat /\ Few(k) <= Limit
      /\ Few(0) = 0
  BY SecurityFailuresAssumption DEF Few
<1>3. Spread(a, s, k, t + 1)
  BY <1>1, <1>2 DEF Spread
<1>4. ASSUME k > 0, t + 1 - s >= Window PROVE Spread(a, 0, 0, t + 1)
  <2>1. ASSUME NEW j \in 1..Len(a), j <= Len(a) - Limit
        PROVE  a[j] <= (t + 1) - Window
    <3>1. j <= Len(a) - Few(k)
      BY <1>1, <1>2, <2>1
    <3>2. a[j] <= s
      BY <1>4, <3>1 DEF Spread
    <3>. QED BY <1>1, <1>2, <1>4, <3>2
  <2>. QED BY <1>1, <1>2, <1>3, <2>1 DEF Spread
<1>. QED BY <1>3, <1>4

AllSpread ==
  \A c \in Client : Spread(admitted[c], WStart(c), WCount(c), now) /\ FewRecent(admitted[c])

LEMMA StartsAreNaturals ==
  ASSUME TypeOK, NEW c \in Client
  PROVE  /\ WStart(c) \in Nat /\ WCount(c) \in Nat
         /\ WCount(c) > 0 => now - WStart(c) < Window
BY DEF TypeOK, OpenWindow, WStart, WCount

LEMMA RegisterSpreads ==
  ASSUME TypeOK, AllSpread, NEW c \in Client, Register(c)
  PROVE  AllSpread'
<1>1. ASSUME NEW k \in Client, k # c
      PROVE  (Spread(admitted[k], WStart(k), WCount(k), now) /\ FewRecent(admitted[k]))'
  <2>1. admitted'[k] = admitted[k]
    BY <1>1 DEF Register, TypeOK
  <2>2. WStart(k)' = WStart(k) /\ WCount(k)' = WCount(k) /\ now' = now
    BY <1>1, RegisterWindows, RegisterFacts
  <2>. QED BY <1>1, <2>1, <2>2 DEF AllSpread, Spread, FewRecent, Recent
<1>2. (Spread(admitted[c], WStart(c), WCount(c), now) /\ FewRecent(admitted[c]))'
  <2>. DEFINE a == admitted[c]
              s == WStart(c)
              k == WCount(c)
  <2>1. /\ a \in Seq(Nat) /\ s \in Nat /\ k \in Nat /\ now \in Nat
        /\ Spread(a, s, k, now) /\ FewRecent(a) /\ (k > 0 => now - s < Window)
    BY StartsAreNaturals DEF AllSpread, TypeOK
  <2>2. /\ WStart(c)' = (IF k = 0 THEN now ELSE s) /\ WCount(c)' = k + 1
        /\ now' = now /\ Entry(c).count = k + 1
    BY RegisterWindows, RegisterFacts, EntryFacts
  <2>3. admitted'[c] = IF k + 1 > Limit THEN a ELSE Append(a, now)
    BY <2>2 DEF Register, TypeOK
  <2>. HIDE DEF a, s, k
  <2>4. CASE k + 1 > Limit
    <3>1. k > 0 /\ Spread(a, s, k + 1, now)
      BY <2>1, <2>4, ThrottledSpreads
    <3>2. admitted'[c] = a /\ WStart(c)' = s
      BY <2>1, <2>2, <2>3, <2>4, <3>1
    <3>. QED BY <2>1, <2>2, <3>1, <3>2 DEF Spread, FewRecent, Recent
  <2>5. CASE ~(k + 1 > Limit)
    <3>. DEFINE b == Append(a, now)
                s2 == IF k = 0 THEN now ELSE s
    <3>1. k + 1 <= Limit
      BY <2>1, <2>5, SecurityFailuresAssumption
    <3>2. Spread(b, s2, k + 1, now)
      BY <2>1, <3>1, AdmittedSpreads
    <3>3. b \in Seq(Nat) /\ b # <<>> /\ b[Len(b)] = now /\ s2 \in Nat /\ k + 1 \in Nat /\ k + 1 > 0
      BY <2>1
    <3>4. admitted'[c] = b /\ WStart(c)' = s2
      BY <2>2, <2>3, <2>5
    <3>5. Cardinality(Recent(b, Len(b))) <= 2 * Limit
      <4>. HIDE DEF b, s2
      <4>. QED BY <2>1, <3>2, <3>3, AdmittedAreFew
    <3>6. FewRecent(b)
      BY <2>1, <3>5, AppendKeepsFew
    <3>. HIDE DEF b, s2
    <3>. QED BY <2>2, <3>2, <3>4, <3>6 DEF Spread, FewRecent, Recent
  <2>. QED BY <2>4, <2>5
<1>. QED BY <1>1, <1>2 DEF AllSpread

\* The clock closes a window or leaves it as it is.
LEMMA TickWindow ==
  ASSUME TypeOK, Tick, NEW c \in Client
  PROVE  \/ WStart(c)' = WStart(c) /\ WCount(c)' = WCount(c)
         \/ /\ WCount(c) > 0 /\ now + 1 - WStart(c) >= Window
            /\ WStart(c)' = 0 /\ WCount(c)' = 0
<1>1. now' = now + 1 /\ failures' = failures /\ now \in Nat /\ Window \in Nat
  BY SecurityFailuresAssumption DEF Tick, TypeOK
<1>2. CASE OpenWindow(c)
  <2>1. /\ c \in DOMAIN failures /\ failures[c].start \in Nat
        /\ failures[c].count \in Nat \ {0} /\ now - failures[c].start < Window
    BY <1>2 DEF OpenWindow, TypeOK
  <2>2. WStart(c) = failures[c].start /\ WCount(c) = failures[c].count
    BY <1>2 DEF WStart, WCount
  <2>3. CASE OpenWindow(c)'
    BY <1>1, <2>2, <2>3 DEF WStart, WCount
  <2>4. CASE ~OpenWindow(c)'
    <3>1. now + 1 - failures[c].start >= Window
      BY <1>1, <2>1, <2>4 DEF OpenWindow
    <3>2. WStart(c)' = 0 /\ WCount(c)' = 0
      BY <2>4 DEF WStart, WCount
    <3>. QED BY <2>1, <2>2, <3>1, <3>2
  <2>. QED BY <2>3, <2>4
<1>3. CASE ~OpenWindow(c)
  <2>1. ~OpenWindow(c)'
    BY <1>1, <1>3 DEF OpenWindow, TypeOK
  <2>. QED BY <1>3, <2>1 DEF WStart, WCount
<1>. QED BY <1>2, <1>3

LEMMA TickSpreads ==
  ASSUME TypeOK, AllSpread, Tick
  PROVE  AllSpread'
<1>1. SUFFICES ASSUME NEW c \in Client
               PROVE  (Spread(admitted[c], WStart(c), WCount(c), now) /\ FewRecent(admitted[c]))'
  BY DEF AllSpread
<1>. DEFINE a == admitted[c]
            s == WStart(c)
            k == WCount(c)
<1>2. /\ a \in Seq(Nat) /\ s \in Nat /\ k \in Nat /\ now \in Nat
      /\ Spread(a, s, k, now) /\ FewRecent(a)
  BY StartsAreNaturals DEF AllSpread, TypeOK
<1>3. now' = now + 1 /\ admitted'[c] = a
  BY DEF Tick
<1>4. \/ WStart(c)' = s /\ WCount(c)' = k
      \/ k > 0 /\ now + 1 - s >= Window /\ WStart(c)' = 0 /\ WCount(c)' = 0
  BY TickWindow
<1>. HIDE DEF a, s, k
<1>5. /\ Spread(a, s, k, now + 1)
      /\ k > 0 /\ now + 1 - s >= Window => Spread(a, 0, 0, now + 1)
  BY <1>2, LaterSpreads
<1>. QED BY <1>2, <1>3, <1>4, <1>5 DEF Spread, FewRecent, Recent

LEMMA InitSpreads == Init => AllSpread
<1>. SUFFICES ASSUME Init, NEW c \in Client
              PROVE  Spread(admitted[c], WStart(c), WCount(c), now) /\ FewRecent(admitted[c])
  BY DEF AllSpread
<1>1. admitted[c] = <<>> /\ WCount(c) = 0
  BY DEF Init, WCount, OpenWindow
<1>. QED BY <1>1, SecurityFailuresAssumption DEF Spread, Few, FewRecent

\* Between any two moments a window apart a client gets at most twice the limit
\* of failures past the throttle (app.py 1120-1138).
THEOREM TwiceTheLimitCorrect == Spec => []TwiceTheLimit
<1>1. Init => TypeOK /\ AllSpread
  BY InitTyped, InitSpreads
<1>2. (TypeOK /\ AllSpread) /\ [Next]_vars => (TypeOK /\ AllSpread)'
  <2>. SUFFICES ASSUME TypeOK, AllSpread, [Next]_vars PROVE AllSpread'
    BY TypeStep
  <2>1. CASE UNCHANGED vars
    BY <2>1 DEF vars, AllSpread, Spread, FewRecent, Recent, WStart, WCount, OpenWindow
  <2>. QED BY <2>1, TickSpreads, RegisterSpreads DEF Next
<1>3. AllSpread => TwiceTheLimit
  BY DEF AllSpread, FewRecent, Recent, TwiceTheLimit, Times
<1>. QED BY <1>1, <1>2, <1>3, PTL DEF Spec
=============================================================================
