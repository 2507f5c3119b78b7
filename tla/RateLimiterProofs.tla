-------------------------- MODULE RateLimiterProofs --------------------------
(* Proofs about RateLimiter for every set of rules, endpoints and clients:   *)
(* bounded tables, what pruning may forget, what a bucket holds, the delays  *)
(* that are told, that no denial is undeserved, and, when `check` is only    *)
(* called with the longest rule of its scope, the quotas.                    *)
EXTENDS RateLimiter, FiniteSetTheorems, WellFoundedInduction, TLAPS

\* The rules a program passes to `check` itself are the longest of their scope.
DirectLongest ==
  \A p \in Direct, q \in Rule : Scope[q] = Scope[p] => Window[q] <= Window[p]

----------------------------------------------------------------------------
\* A set of naturals has a least element, which Min names.
LEMMA MinOfNaturals ==
  ASSUME NEW S \in SUBSET Nat, S # {}
  PROVE  Min(S) \in S /\ \A x \in S : Min(S) <= x
<1> DEFINE Less == {pair \in Nat \X Nat : pair[1] < pair[2]}
<1>1. IsWellFoundedOn(Less, Nat)
  BY NatLessThanWellFounded, Zenon DEF OpToRel
<1> HIDE DEF Less
<1>2. PICK x \in S : \A y \in S : ~ (<<y, x>> \in Less)
  BY <1>1, WFMin
<1>3. ASSUME NEW y \in S PROVE x <= y
  <2>1. y < x => <<y, x>> \in Nat \X Nat /\ <<y, x>>[1] < <<y, x>>[2]
    OBVIOUS
  <2>2. y < x => <<y, x>> \in Less
    BY <2>1, Zenon DEF Less
  <2> QED
    BY <1>2, <2>2
<1> QED
  BY <1>3 DEF Min

\* A finite set of naturals has a greatest element, which Max names.
LEMMA MaxOfNaturals ==
  ASSUME NEW S \in SUBSET Nat, S # {}, IsFiniteSet(S)
  PROVE  Max(S) \in S /\ \A x \in S : x <= Max(S)
<1> DEFINE HasMax(T) == \E x \in T : \A y \in T : x >= y
           Bad == {n \in Nat : \E T \in SUBSET S : /\ IsFiniteSet(T) /\ T # {}
                                                   /\ Cardinality(T) = n
                                                   /\ ~HasMax(T)}
<1>1. Bad = {}
  <2>1. SUFFICES ASSUME Bad # {} PROVE FALSE
    OBVIOUS
  <2>2. PICK n \in Bad : \A m \in Bad : n <= m
    BY <2>1, MinOfNaturals
  <2>3. PICK T \in SUBSET S : /\ IsFiniteSet(T) /\ T # {}
                              /\ Cardinality(T) = n /\ ~HasMax(T)
    BY <2>2
  <2>4. PICK x \in T : TRUE
    BY <2>3
  <2> DEFINE U == T \ {x}
  <2>5. IsFiniteSet(U) /\ Cardinality(U) = n - 1 /\ U \in SUBSET S
    BY <2>3, <2>4, FS_RemoveElement
  <2>6. Cardinality(U) \in Nat
    BY <2>5, FS_CardinalityType
  <2>7. ~(n - 1 \in Bad)
    BY <2>2
  <2>8. CASE U = {}
    <3>1. T = {x}
      BY <2>8, <2>4
    <3> QED
      BY <3>1, <2>3
  <2>9. CASE U # {}
    <3>1. HasMax(U)
      BY <2>5, <2>6, <2>7, <2>9
    <3>2. PICK u \in U : \A y \in U : u >= y
      BY <3>1
    <3>3. x \in Nat /\ u \in Nat /\ \A y \in T : y = x \/ y \in U
      BY <2>3, <2>4
    <3>4. CASE x >= u
      <4>1. \A y \in T : y \in Nat /\ x >= y
        BY <3>2, <3>3, <3>4, <2>3
      <4> QED
        BY <4>1, <2>3, <2>4
    <3>5. CASE ~(x >= u)
      <4>1. \A y \in T : y \in Nat /\ u >= y
        BY <3>2, <3>3, <3>5, <2>3
      <4> QED
        BY <4>1, <2>3
    <3> QED
      BY <3>4, <3>5
  <2> QED
    BY <2>8, <2>9
<1>2. Cardinality(S) \in Nat
  BY FS_CardinalityType
<1>3. HasMax(S)
  BY <1>1, <1>2
<1> QED
  BY <1>3 DEF Max

----------------------------------------------------------------------------
(* One bucket: ts are its times, gs the grants the history has of it.        *)

\* The times are those of the last grants.
Tails(gs, ts) ==
  /\ Len(ts) <= Len(gs)
  /\ \A i \in 1..Len(ts) : ts[i] = gs[Len(gs) - Len(ts) + i].at

\* Grants are in the order they were made, the last no later than t.
InOrder(gs, t) ==
  /\ \A j \in 1..Len(gs) : gs[j].at <= t
  /\ \A i, j \in 1..Len(gs) : i <= j => gs[i].at <= gs[j].at

\* Grants whose time was dropped are out of the window the bucket had for them.
Over(gs, ts, t) ==
  \A j \in 1..(Len(gs) - Len(ts)) : gs[j].at <= t - gs[j].window

\* The bucket's window w is the longest of the grants whose time it holds.
Within(gs, ts, w) ==
  \A j \in 1..Len(gs) : j > Len(gs) - Len(ts) => gs[j].window <= w

\* The grants up to the i-th that rule p counts at the i-th.
CountedBy(gs, i, p) ==
  {j \in 1..i : gs[j].at > gs[i].at - Window[p] /\ gs[j].window >= Window[p]}

WithinQuota(gs) ==
  \A i \in DOMAIN gs : \A p \in gs[i].by :
    Cardinality(CountedBy(gs, i, p)) <= Requests[p]

\* Times are natural numbers.
LEMMA TimesAreNaturals == Time \subseteq Nat /\ Time \subseteq Int
  BY RateLimiterAssumption DEF Time

\* What a grant holds.
LEMMA GrantHolds ==
  ASSUME NEW g \in Grant
  PROVE  g.at \in Time /\ g.at \in Int /\ g.window \in Nat /\ g.by \in SUBSET Rule
<1>1. g.at \in Time /\ g.window \in Nat /\ g.by \in SUBSET Rule
  BY DEF Grant
<1> QED
  BY <1>1, TimesAreNaturals

\* What the popleft loop leaves is what comes after the times past the cutoff.
LEMMA DroppedIsTail ==
  ASSUME NEW ts \in Seq(Time), NEW w \in Nat, now \in Time
  PROVE  \E d \in 0..Len(ts) :
           /\ \A i \in 1..d : ts[i] <= now - w
           /\ Len(Dropped(ts, w)) = Len(ts) - d
           /\ \A i \in 1..(Len(ts) - d) : Dropped(ts, w)[i] = ts[d + i]
           /\ Dropped(ts, w) \in Seq(Time)
<1> DEFINE past == {i \in DOMAIN ts : ts[i] > now - w}
<1>1. /\ Len(ts) \in Nat /\ DOMAIN ts = 1..Len(ts)
      /\ \A i \in 1..Len(ts) : ts[i] \in Int
  <2>1. \A i \in 1..Len(ts) : ts[i] \in Time
    OBVIOUS
  <2>2. Len(ts) \in Nat /\ DOMAIN ts = 1..Len(ts)
    OBVIOUS
  <2>3. \A i \in 1..Len(ts) : ts[i] \in Int
    BY <2>1, TimesAreNaturals
  <2> QED
    BY <2>2, <2>3
<1>2. now \in Int
  BY TimesAreNaturals
<1>3. CASE past = {}
  <2>1. Dropped(ts, w) = <<>>
    BY <1>3 DEF Dropped
  <2>2. \A i \in 1..Len(ts) : ts[i] <= now - w
    BY <1>1, <1>2, <1>3
  <2>3. /\ Len(ts) \in 0..Len(ts)
        /\ Len(Dropped(ts, w)) = Len(ts) - Len(ts)
        /\ 1..(Len(ts) - Len(ts)) = {}
        /\ Dropped(ts, w) \in Seq(Time)
    BY <1>1, <2>1
  <2> QED
    BY <2>2, <2>3
<1>4. CASE past # {}
  <2> DEFINE m == Min(past)
  <2>1. past \in SUBSET Nat
    BY <1>1
  <2>2. m \in past /\ \A x \in past : m <= x
    BY <1>4, <2>1, MinOfNaturals
  <2>3. Dropped(ts, w) = SubSeq(ts, m, Len(ts))
    BY <1>4 DEF Dropped
  <2>4. m \in 1..Len(ts)
    BY <1>1, <2>2
  <2> HIDE DEF m
  <2>5. /\ SubSeq(ts, m, Len(ts)) \in Seq(Time)
        /\ Len(SubSeq(ts, m, Len(ts))) = Len(ts) - (m - 1)
        /\ \A i \in 1..(Len(ts) - (m - 1)) :
             SubSeq(ts, m, Len(ts))[i] = ts[(m - 1) + i]
    BY <1>1, <2>4
  <2>6. \A i \in 1..(m - 1) : ts[i] <= now - w
    BY <1>1, <1>2, <2>2, <2>4
  <2>7. m - 1 \in 0..Len(ts)
    BY <1>1, <2>4
  <2> QED
    BY <2>3, <2>5, <2>6, <2>7
<1> QED
  BY <1>3, <1>4

\* Dropping by a window no shorter than the bucket's keeps all that is promised
\* of a bucket.
LEMMA DroppedKeeps ==
  ASSUME NEW gs \in Seq(Grant), NEW ts \in Seq(Time), NEW w \in Nat,
         now \in Time, Tails(gs, ts)
  PROVE  /\ Dropped(ts, w) \in Seq(Time)
         /\ Tails(gs, Dropped(ts, w))
         /\ Within(gs, ts, w) => Within(gs, Dropped(ts, w), w)
         /\ Within(gs, ts, w) /\ Over(gs, ts, now) => Over(gs, Dropped(ts, w), now)
<1>1. PICK d \in 0..Len(ts) :
           /\ \A i \in 1..d : ts[i] <= now - w
           /\ Len(Dropped(ts, w)) = Len(ts) - d
           /\ \A i \in 1..(Len(ts) - d) : Dropped(ts, w)[i] = ts[d + i]
           /\ Dropped(ts, w) \in Seq(Time)
  BY DroppedIsTail
<1> DEFINE g == Len(gs)
           n == Len(ts)
           us == Dropped(ts, w)
<1>2. /\ g \in Nat /\ n \in Nat /\ n <= g /\ now \in Int
      /\ \A j \in 1..g : gs[j] \in Grant /\ gs[j].at \in Int /\ gs[j].window \in Nat
      /\ \A i \in 1..n : ts[i] \in Int /\ ts[i] = gs[g - n + i].at
  <2>1. Len(gs) \in Nat /\ Len(ts) \in Nat
    OBVIOUS
  <2>2. \A j \in 1..Len(gs) : gs[j] \in Grant
    OBVIOUS
  <2>3. \A j \in 1..Len(gs) : gs[j].at \in Int /\ gs[j].window \in Nat
    BY <2>2, GrantHolds
  <2>4. \A i \in 1..Len(ts) : ts[i] \in Time
    OBVIOUS
  <2> QED
    BY <2>1, <2>2, <2>3, <2>4, TimesAreNaturals DEF Tails
<1>3. /\ us \in Seq(Time) /\ Len(us) = n - d
      /\ \A i \in 1..(n - d) : us[i] = ts[d + i]
  BY <1>1
<1> HIDE DEF us
<1>4. Tails(gs, us)
  <2>1. ASSUME NEW i \in 1..(n - d) PROVE us[i] = gs[g - (n - d) + i].at
    <3>1. d + i \in 1..n /\ g - n + (d + i) = g - (n - d) + i
      BY <1>2
    <3> QED
      BY <1>2, <1>3, <3>1
  <2>2. n - d <= g
    BY <1>2
  <2> QED
    BY <1>3, <2>1, <2>2 DEF Tails
<1>5. Within(gs, ts, w) => Within(gs, us, w)
  BY <1>2, <1>3 DEF Within
<1>6. ASSUME Within(gs, ts, w), Over(gs, ts, now), NEW j \in 1..(g - (n - d))
      PROVE  gs[j].at <= now - gs[j].window
  <2>1. CASE j <= g - n
    BY <1>2, <1>6, <2>1 DEF Over
  <2>2. CASE j > g - n
    <3>1. j - (g - n) \in 1..d /\ j - (g - n) \in 1..n /\ j \in 1..g
      BY <1>2, <2>2
    <3>2. gs[j].at = ts[j - (g - n)]
      BY <1>2, <3>1
    <3>3. gs[j].at <= now - w
      BY <1>1, <3>1, <3>2
    <3>4. gs[j].window <= w
      BY <1>6, <2>2, <3>1 DEF Within
    <3> QED
      BY <1>2, <3>1, <3>3, <3>4
  <2> QED
    BY <1>2, <2>1, <2>2
<1> QED
  BY <1>3, <1>4, <1>5, <1>6 DEF us, Over

\* A bucket that goes because it is stale holds no time still to be counted.
LEMMA StaleIsOver ==
  ASSUME NEW gs \in Seq(Grant), NEW ts \in Seq(Time), NEW w \in Nat,
         now \in Time, Tails(gs, ts), Within(gs, ts, w), Over(gs, ts, now),
         InOrder(gs, now), ts = <<>> \/ Last(ts) < now - 2 * w
  PROVE  Over(gs, <<>>, now)
<1>1. CASE ts = <<>>
  BY <1>1
<1>2. CASE ts # <<>>
  <2> DEFINE g == Len(gs)
             n == Len(ts)
  <2>1. g \in Nat /\ n \in Nat /\ n > 0 /\ n <= g /\ now \in Int
    BY <1>2, TimesAreNaturals DEF Tails
  <2>2. \A j \in 1..g : gs[j] \in Grant
    OBVIOUS
  <2>3. \A j \in 1..g : gs[j].at \in Int /\ gs[j].window \in Nat
    BY <2>2, GrantHolds
  <2>4. n \in 1..n /\ g \in 1..g /\ g - n + n = g
    BY <2>1
  <2>5. ts[n] = gs[g].at
    BY <2>4 DEF Tails
  <2>6. gs[g].at < now - 2 * w
    BY <1>2, <2>5 DEF Last
  <2>7. ASSUME NEW j \in 1..g PROVE gs[j].at <= now - gs[j].window
    <3>1. gs[j].at <= gs[g].at
      BY <2>1, <2>4 DEF InOrder
    <3>2. CASE j <= g - n
      BY <2>1, <3>2 DEF Over
    <3>3. CASE j > g - n
      <4>1. gs[j].window <= w
        BY <2>1, <3>3 DEF Within
      <4> QED
        BY <2>1, <2>3, <2>4, <2>6, <3>1, <4>1
    <3> QED
      BY <2>1, <3>2, <3>3
  <2> QED
    BY <2>1, <2>7 DEF Over
<1> QED
  BY <1>1, <1>2

\* A grant appended to the history and to the bucket keeps the promises.
LEMMA GrantKeeps ==
  ASSUME NEW gs \in Seq(Grant), NEW ts \in Seq(Time), NEW g \in Grant,
         NEW w \in Nat, now \in Time, g.at = now, Tails(gs, ts), InOrder(gs, now)
  PROVE  /\ Append(gs, g) \in Seq(Grant) /\ Append(ts, now) \in Seq(Time)
         /\ Tails(Append(gs, g), Append(ts, now))
         /\ InOrder(Append(gs, g), now)
         /\ Over(gs, ts, now) => Over(Append(gs, g), Append(ts, now), now)
         /\ Within(gs, ts, w) /\ g.window <= w
              => Within(Append(gs, g), Append(ts, now), w)
<1> DEFINE m == Len(gs)
           n == Len(ts)
           hs == Append(gs, g)
           us == Append(ts, now)
<1>1. m \in Nat /\ n \in Nat /\ n <= m /\ now \in Int
  BY TimesAreNaturals DEF Tails
<1>2. /\ hs \in Seq(Grant) /\ Len(hs) = m + 1 /\ hs[m + 1] = g
      /\ \A j \in 1..m : hs[j] = gs[j]
  OBVIOUS
<1>3. /\ us \in Seq(Time) /\ Len(us) = n + 1 /\ us[n + 1] = now
      /\ \A i \in 1..n : us[i] = ts[i]
  OBVIOUS
<1> HIDE DEF hs, us
<1>4. \A j \in 1..m : gs[j] \in Grant
  OBVIOUS
<1>5. \A j \in 1..m : gs[j].at \in Int /\ gs[j].window \in Nat
  BY <1>4, GrantHolds
<1>6. Tails(hs, us)
  <2>1. ASSUME NEW i \in 1..(n + 1)
        PROVE  us[i] = hs[(m + 1) - (n + 1) + i].at
    <3>1. CASE i = n + 1
      BY <1>1, <1>2, <1>3, <3>1
    <3>2. CASE i \in 1..n
      <4>1. (m + 1) - (n + 1) + i = m - n + i /\ m - n + i \in 1..m
        BY <1>1, <3>2
      <4> QED
        BY <1>2, <1>3, <3>2, <4>1 DEF Tails
    <3> QED
      BY <1>1, <3>1, <3>2
  <2> QED
    BY <1>1, <1>2, <1>3, <2>1 DEF Tails
<1>7. InOrder(hs, now)
  <2>1. \A j \in 1..m : gs[j].at <= now
    BY DEF InOrder
  <2>2. ASSUME NEW j \in 1..(m + 1) PROVE hs[j].at <= now
    BY <1>1, <1>2, <2>1
  <2>3. ASSUME NEW i \in 1..(m + 1), NEW j \in 1..(m + 1), i <= j
        PROVE  hs[i].at <= hs[j].at
    <3>1. CASE j = m + 1
      BY <1>2, <2>2, <3>1
    <3>2. CASE j \in 1..m
      BY <1>1, <1>2, <2>3, <3>2 DEF InOrder
    <3> QED
      BY <1>1, <3>1, <3>2
  <2> QED
    BY <1>2, <2>2, <2>3 DEF InOrder
<1>8. Over(gs, ts, now) => Over(hs, us, now)
  <2>1. Len(hs) - Len(us) = m - n /\ \A j \in 1..(m - n) : hs[j] = gs[j]
    BY <1>1, <1>2, <1>3
  <2> QED
    BY <2>1 DEF Over
<1>9. ASSUME Within(gs, ts, w), g.window <= w PROVE Within(hs, us, w)
  <2>1. ASSUME NEW j \in 1..(m + 1), j > (m + 1) - (n + 1)
        PROVE  hs[j].window <= w
    <3>1. CASE j = m + 1
      BY <1>2, <1>9, <3>1
    <3>2. CASE j \in 1..m
      <4>1. gs[j].window <= w
        BY <1>1, <1>9, <2>1, <3>2 DEF Within
      <4> QED
        BY <1>2, <3>2, <4>1
    <3> QED
      BY <1>1, <3>1, <3>2
  <2> QED
    BY <1>2, <1>3, <2>1 DEF Within
<1> QED
  BY <1>2, <1>3, <1>6, <1>7, <1>8, <1>9 DEF hs, us

\* A grant that keeps the rules that agreed below their quotas keeps the quotas.
LEMMA GrantWithinQuota ==
  ASSUME NEW gs \in Seq(Grant), NEW ts \in Seq(Time), NEW g \in Grant,
         now \in Time, g.at = now, Tails(gs, ts), Over(gs, ts, now),
         WithinQuota(gs),
         \A p \in g.by : Cardinality(Recent(ts, p, now)) < Requests[p]
  PROVE  WithinQuota(Append(gs, g))
<1> DEFINE m == Len(gs)
           n == Len(ts)
           hs == Append(gs, g)
<1>1. m \in Nat /\ n \in Nat /\ n <= m /\ now \in Int
  BY TimesAreNaturals DEF Tails
<1>2. /\ hs \in Seq(Grant) /\ Len(hs) = m + 1 /\ hs[m + 1] = g
      /\ DOMAIN hs = 1..(m + 1) /\ DOMAIN gs = 1..m
      /\ \A j \in 1..m : hs[j] = gs[j]
  OBVIOUS
<1> HIDE DEF hs
<1>3. \A j \in 1..m : gs[j] \in Grant
  OBVIOUS
<1>4. \A j \in 1..m : gs[j].at \in Int /\ gs[j].window \in Nat
  BY <1>3, GrantHolds
<1>5. ASSUME NEW i \in 1..m, NEW p \in hs[i].by
      PROVE  Cardinality(CountedBy(hs, i, p)) <= Requests[p]
  <2>1. CountedBy(hs, i, p) = CountedBy(gs, i, p)
    <3>1. \A j \in 1..i : j \in 1..m
      BY <1>1
    <3>2. hs[i] = gs[i] /\ \A j \in 1..i : hs[j] = gs[j]
      BY <1>2, <3>1
    <3> QED
      BY <3>2 DEF CountedBy
  <2> QED
    BY <1>2, <1>5, <2>1 DEF WithinQuota
<1>6. ASSUME NEW p \in g.by
      PROVE  Cardinality(CountedBy(hs, m + 1, p)) <= Requests[p]
  <2> DEFINE recent == Recent(ts, p, now)
             old == CountedBy(hs, m + 1, p) \ {m + 1}
             place == [j \in old |-> j - (m - n)]
  <2>1. p \in Rule /\ Window[p] \in Nat /\ Requests[p] \in Nat
    BY <1>6, GrantHolds, RateLimiterAssumption
  <2>2. /\ IsFiniteSet(recent) /\ Cardinality(recent) \in Nat
        /\ recent \subseteq 1..n
    <3>1. recent \subseteq 1..n
      BY DEF Recent
    <3>2. IsFiniteSet(1..n)
      BY <1>1, FS_Interval
    <3> QED
      BY <3>1, <3>2, FS_Subset, FS_CardinalityType
  <2>3. ASSUME NEW j \in old PROVE j - (m - n) \in recent
    <3>1. /\ j \in 1..m /\ gs[j].at > now - Window[p]
          /\ gs[j].window >= Window[p]
      BY <1>1, <1>2 DEF CountedBy
    <3>2. ~(j \in 1..(m - n))
      BY <1>1, <1>4, <2>1, <3>1 DEF Over
    <3>3. j - (m - n) \in 1..n /\ m - n + (j - (m - n)) = j
      BY <1>1, <3>1, <3>2
    <3>4. ts[j - (m - n)] = gs[j].at
      BY <3>3 DEF Tails
    <3> QED
      BY <3>1, <3>3, <3>4 DEF Recent
  <2>4. place \in Injection(old, recent)
    <3>1. place \in [old -> recent]
      BY <2>3
    <3>2. old \subseteq 1..(m + 1)
      BY DEF CountedBy
    <3>3. \A a, b \in old : place[a] = place[b] => a = b
      BY <1>1, <3>2
    <3> QED
      BY <3>1, <3>3 DEF Injection, IsInjective
  <2> HIDE DEF place, old, recent
  <2>5. IsFiniteSet(old) /\ Cardinality(old) <= Cardinality(recent)
    BY <2>2, <2>4, FS_Injection
  <2>6. Cardinality(old) \in Nat
    BY <2>5, FS_CardinalityType
  <2>7. /\ IsFiniteSet(old \cup {m + 1})
        /\ Cardinality(old \cup {m + 1}) <= Cardinality(old) + 1
    <3>1. m + 1 \notin old
      BY DEF old
    <3>2. /\ IsFiniteSet(old \cup {m + 1})
          /\ Cardinality(old \cup {m + 1}) = Cardinality(old) + 1
      BY <2>5, <3>1, FS_AddElement
    <3> QED
      BY <2>6, <3>2
  <2>8. CountedBy(hs, m + 1, p) \in SUBSET (old \cup {m + 1})
    BY DEF old
  <2>9. /\ Cardinality(CountedBy(hs, m + 1, p)) \in Nat
        /\ Cardinality(CountedBy(hs, m + 1, p)) <= Cardinality(old \cup {m + 1})
    BY <2>7, <2>8, FS_Subset, FS_CardinalityType
  <2>10. Cardinality(recent) < Requests[p]
    BY DEF recent
  <2>11. Cardinality(old \cup {m + 1}) \in Nat
    BY <2>7, FS_CardinalityType
  <2> QED
    BY <2>1, <2>2, <2>5, <2>6, <2>7, <2>9, <2>10, <2>11
<1> QED
  BY <1>1, <1>2, <1>5, <1>6 DEF WithinQuota, hs

----------------------------------------------------------------------------
(* The whole table.                                                          *)

HeldOf(k) == IF k \in DOMAIN buckets THEN buckets[k] ELSE <<>>

\* What holds of any use.
Kept ==
  /\ TypeOK
  /\ IsFiniteSet(DOMAIN buckets)
  /\ \A k \in Key : Tails(log[k], HeldOf(k)) /\ InOrder(log[k], now)

\* What holds besides when `check` is called with the longest rules only.
Longest ==
  \A k \in DOMAIN buckets : \A p \in Direct : k[1] = Scope[p] => windows[k] <= Window[p]

Counting ==
  /\ Longest
  /\ \A k \in DOMAIN buckets : Within(log[k], buckets[k], windows[k])
  /\ \A k \in Key : Over(log[k], HeldOf(k), now) /\ WithinQuota(log[k])

\* Pruning leaves at most max_keys of the buckets there are.
LEMMA PrunedIsSmall ==
  ASSUME TypeOK, IsFiniteSet(DOMAIN buckets), NEW K \in Pruned
  PROVE  /\ K \subseteq DOMAIN buckets /\ K \subseteq Key
         /\ IsFiniteSet(K) /\ Cardinality(K) \in Nat /\ Cardinality(K) <= MaxKeys
<1> DEFINE live == {k \in DOMAIN buckets : ~Stale(k)}
<1>1. IsFiniteSet(live) /\ live \subseteq DOMAIN buckets
  BY FS_Subset
<1>2. \/ K = DOMAIN buckets /\ Cardinality(DOMAIN buckets) <= MaxKeys
      \/ K = live /\ Cardinality(live) <= MaxKeys
      \/ K \in kSubset(MaxKeys, live)
  BY DEF Pruned
<1>3. K \subseteq DOMAIN buckets /\ (K \in kSubset(MaxKeys, live) => Cardinality(K) = MaxKeys)
  BY <1>1, <1>2 DEF kSubset
<1>4. IsFiniteSet(K) /\ Cardinality(K) \in Nat
  BY <1>3, FS_Subset, FS_CardinalityType
<1>5. MaxKeys \in Nat
  BY RateLimiterAssumption
<1>6. Cardinality(K) <= MaxKeys
  BY <1>2, <1>3, <1>4, <1>5
<1> QED
  BY <1>3, <1>4, <1>6 DEF TypeOK

\* After pruning every bucket is as it was, or gone with what the history
\* remembers of it.
LEMMA PruningKeeps ==
  ASSUME Kept, NEW K \in Pruned, NEW k \in Key
  PROVE  /\ Remembered(K)[k] \in Seq(Grant) /\ TimesOf(K, k) \in Seq(Time)
         /\ Tails(Remembered(K)[k], TimesOf(K, k))
         /\ InOrder(Remembered(K)[k], now)
         /\ Counting => /\ Over(Remembered(K)[k], TimesOf(K, k), now)
                        /\ WithinQuota(Remembered(K)[k])
                        /\ k \in K => Within(Remembered(K)[k], TimesOf(K, k), windows[k])
<1>1. K \subseteq DOMAIN buckets
  BY PrunedIsSmall DEF Kept
<1>2. /\ log[k] \in Seq(Grant) /\ Tails(log[k], HeldOf(k)) /\ InOrder(log[k], now)
      /\ now \in Time
      /\ k \in DOMAIN buckets => buckets[k] \in Seq(Time) /\ windows[k] \in Nat
  BY DEF Kept, TypeOK
<1>3. Counting => /\ Over(log[k], HeldOf(k), now) /\ WithinQuota(log[k])
                  /\ k \in DOMAIN buckets => Within(log[k], buckets[k], windows[k])
  BY DEF Counting
<1>4. Remembered(K)[k] =
        IF k \in DOMAIN buckets \ K /\ ~Stale(k) THEN <<>> ELSE log[k]
  BY DEF Remembered
<1>5. Tails(log[k], <<>>) /\ Tails(<<>>, <<>>) /\ InOrder(<<>>, now)
  BY <1>2 DEF Tails, InOrder
<1>6. Over(<<>>, <<>>, now) /\ WithinQuota(<<>>)
  BY DEF Over, WithinQuota
<1>7. CASE k \in K
  BY <1>1, <1>2, <1>3, <1>4, <1>7 DEF TimesOf, HeldOf
<1>8. CASE k \notin DOMAIN buckets
  BY <1>1, <1>2, <1>3, <1>4, <1>8 DEF TimesOf, HeldOf
<1>9. CASE k \in DOMAIN buckets \ K /\ ~Stale(k)
  <2>1. Remembered(K)[k] = <<>> /\ TimesOf(K, k) = <<>>
    BY <1>4, <1>9 DEF TimesOf
  <2> QED
    BY <1>5, <1>6, <1>9, <2>1
<1>10. CASE k \in DOMAIN buckets \ K /\ Stale(k)
  <2>1. Remembered(K)[k] = log[k] /\ TimesOf(K, k) = <<>> /\ HeldOf(k) = buckets[k]
    BY <1>4, <1>10 DEF TimesOf, HeldOf
  <2>2. Counting => Over(log[k], <<>>, now)
    BY <1>2, <1>3, <1>10, <2>1, StaleIsOver DEF Stale
  <2> QED
    BY <1>2, <1>3, <1>5, <1>10, <2>1, <2>2
<1> QED
  BY <1>7, <1>8, <1>9, <1>10

\* The window of a bucket a call looked up: the longest of the one it had and
\* those of the rules.
LEMMA WindowIsLongest ==
  ASSUME TypeOK, NEW K \in SUBSET DOMAIN buckets, NEW S \in SUBSET Rule,
         IsFiniteSet(S), NEW c \in Client, NEW k \in LookedUp(K, S, c)
  PROVE  /\ WindowOf(K, S, c, k) \in Nat \ {0}
         /\ k \in K => windows[k] <= WindowOf(K, S, c, k)
         /\ \A p \in S : Bucket(p, c) = k => Window[p] <= WindowOf(K, S, c, k)
         /\ \/ k \in K /\ WindowOf(K, S, c, k) = windows[k]
            \/ \E p \in S : Bucket(p, c) = k /\ WindowOf(K, S, c, k) = Window[p]
<1> DEFINE T == {q \in S : Bucket(q, c) = k}
           had == IF k \in K THEN windows[k] ELSE 0
           lengths == {Window[p] : p \in T}
           all == {had} \cup lengths
<1>1. had \in Nat /\ (k \in K => had \in Nat \ {0})
  BY DEF TypeOK
<1>2. \A p \in T : Window[p] \in Nat \ {0}
  BY RateLimiterAssumption
<1>3. all \in SUBSET Nat /\ all # {}
  BY <1>1, <1>2
<1>4. IsFiniteSet(all)
  <2>1. IsFiniteSet(T)
    BY FS_Subset
  <2>2. [p \in T |-> Window[p]] \in Surjection(T, lengths)
    BY DEF Surjection
  <2>3. IsFiniteSet(lengths)
    BY <2>1, <2>2, FS_Surjection
  <2> QED
    BY <2>3, FS_AddElement
<1>5. Max(all) \in all /\ \A x \in all : x <= Max(all)
  BY <1>3, <1>4, MaxOfNaturals
<1>6. WindowOf(K, S, c, k) = Max(all)
  BY DEF WindowOf
<1>7. k \notin K => \E p \in T : TRUE
  BY DEF LookedUp
<1> HIDE DEF all, T, had, lengths
<1>8. Max(all) = had \/ \E p \in T : Max(all) = Window[p]
  BY <1>5 DEF all, lengths
<1>9. had <= Max(all) /\ \A p \in T : Window[p] <= Max(all)
  BY <1>5 DEF all, lengths
<1>10. Max(all) \in Nat
  BY <1>3, <1>5
<1>11. Max(all) # 0
  <2>1. CASE k \in K
    BY <1>1, <1>9, <2>1
  <2>2. CASE k \notin K
    BY <1>2, <1>7, <1>9, <2>2
  <2> QED
    BY <2>1, <2>2
<1>12. k \in K => had = windows[k]
  BY DEF had
<1>13. \A p \in S : Bucket(p, c) = k => Window[p] <= Max(all)
  BY <1>9 DEF T
<1>14. CASE k \in K
  BY <1>13, <1>6, <1>8, <1>9, <1>10, <1>11, <1>12, <1>14 DEF T
<1>15. CASE k \notin K
  <2>1. had = 0
    BY <1>15 DEF had
  <2> QED
    BY <1>13, <1>6, <1>8, <1>10, <1>11, <1>15, <2>1 DEF T
<1> QED
  BY <1>14, <1>15

----------------------------------------------------------------------------
(* Every call prunes to K, looks the buckets of the rules S up for client c, *)
(* and leaves every bucket pruned, shortened, or with one grant more.        *)

\* What the call may leave of the times of bucket k: all of them, or what the
\* cutoff with the bucket's window, or with that of a rule given to `check`,
\* leaves.
Shortened(K, S, c, k, us) ==
  \/ us = TimesOf(K, k)
  \/ /\ k \in LookedUp(K, S, c)
     /\ \/ us = Dropped(TimesOf(K, k), WindowOf(K, S, c, k))
        \/ \E p \in Direct : /\ k = Bucket(p, c) /\ p \in S
                             /\ us = Dropped(TimesOf(K, k), Window[p])

\* The bucket k and its history after the call.
Ungranted(K, k, us) == HeldOf(k)' = us /\ log'[k] = Remembered(K)[k]
Granted(K, S, c, k, us) ==
  \E g \in Grant :
    /\ k \in LookedUp(K, S, c) /\ g.at = now /\ g.window = WindowOf(K, S, c, k)
    /\ HeldOf(k)' = Append(us, now) /\ log'[k] = Append(Remembered(K)[k], g)
    /\ \A p \in g.by : Cardinality(Recent(us, p, now)) < Requests[p]
    /\ \E p \in g.by : Bucket(p, c) = k

Touched(K, S, c, k) ==
  \E us : Shortened(K, S, c, k, us)
            /\ (Ungranted(K, k, us) \/ Granted(K, S, c, k, us))

Call(K, S, c, added) ==
  /\ {Bucket(p, c) : p \in S} \subseteq Key
  /\ IsFiniteSet(S) /\ IsFiniteSet({Bucket(p, c) : p \in S})
  /\ Cardinality({Bucket(p, c) : p \in S}) <= added
  /\ now' = now
  /\ windows' = [k \in LookedUp(K, S, c) |-> WindowOf(K, S, c, k)]
  /\ DOMAIN buckets' = LookedUp(K, S, c)
  /\ DOMAIN log' = Key /\ log' = [k \in Key |-> log'[k]]
  /\ \A k \in Key : Touched(K, S, c, k)

\* The lengths of the endpoints' lists of rules, and the one rule of `check`.
Lengths == {1} \cup {Len(Rules[e]) : e \in Endpoint}

\* A list of rules has no more buckets than its length.
LEMMA BucketsOfRules ==
  ASSUME NEW list \in Seq(Rule), NEW c \in Client
  PROVE  /\ Range(list) \in SUBSET Rule /\ IsFiniteSet(Range(list))
         /\ {Bucket(p, c) : p \in Range(list)} \subseteq Key
         /\ IsFiniteSet({Bucket(p, c) : p \in Range(list)})
         /\ Cardinality({Bucket(p, c) : p \in Range(list)}) <= Len(list)
<1> DEFINE S == Range(list)
           B == {Bucket(p, c) : p \in S}
           b == [i \in 1..Len(list) |-> Bucket(list[i], c)]
<1>1. DOMAIN list = 1..Len(list) /\ Len(list) \in Nat /\ list \in [1..Len(list) -> Rule]
  OBVIOUS
<1>2. S \subseteq Rule /\ \A p \in S : \E i \in 1..Len(list) : p = list[i]
  BY <1>1 DEF Range
<1>3. \A i \in 1..Len(list) : list[i] \in S
  BY <1>1 DEF Range
<1>4. IsFiniteSet(1..Len(list)) /\ Cardinality(1..Len(list)) = Len(list)
  BY <1>1, FS_Interval
<1>5. list \in Surjection(1..Len(list), S)
  <2>1. list \in [1..Len(list) -> S]
    BY <1>1, <1>3
  <2> QED
    BY <2>1, <1>2 DEF Surjection
<1>6. IsFiniteSet(S)
  BY <1>4, <1>5, FS_Surjection
<1> HIDE DEF S
<1>7. b \in [1..Len(list) -> B]
  BY <1>3
<1>8. \A k \in B : \E i \in 1..Len(list) : b[i] = k
  BY <1>2
<1>9. b \in Surjection(1..Len(list), B)
  BY <1>7, <1>8 DEF Surjection
<1> HIDE DEF b
<1>10. IsFiniteSet(B) /\ Cardinality(B) <= Cardinality(1..Len(list))
  BY <1>4, <1>9, FS_Surjection
<1>11. B \subseteq Key
  BY <1>2 DEF Key
<1> QED
  BY <1>2, <1>4, <1>6, <1>10, <1>11 DEF S

\* A rule that does not deny counts fewer requests than its quota.
LEMMA BelowQuota ==
  ASSUME NEW us \in Seq(Time), NEW p \in Rule
  PROVE  /\ Cardinality(Recent(us, p, now)) \in Nat
         /\ Cardinality(Recent(us, p, now)) <= Len(us)
         /\ ~Denies(p, us, now) => Cardinality(Recent(us, p, now)) < Requests[p]
<1>1. Recent(us, p, now) \in SUBSET (1..Len(us))
  BY DEF Recent
<1>2. IsFiniteSet(1..Len(us)) /\ Cardinality(1..Len(us)) = Len(us)
  <2>1. Len(us) \in Nat
    OBVIOUS
  <2> QED
    BY <2>1, FS_Interval
<1>3. /\ Cardinality(Recent(us, p, now)) \in Nat
      /\ Cardinality(Recent(us, p, now)) <= Len(us)
  BY <1>1, <1>2, FS_Subset, FS_CardinalityType
<1>4. Requests[p] \in Nat
  BY RateLimiterAssumption
<1> QED
  BY <1>3, <1>4 DEF Denies

\* What is left of the times is times.
LEMMA ShortenedIsTimes ==
  ASSUME Kept, NEW K \in Pruned, NEW S \in SUBSET Rule, IsFiniteSet(S),
         NEW c \in Client, NEW k \in Key, NEW us, Shortened(K, S, c, k, us)
  PROVE  us \in Seq(Time)
<1>1. K \in SUBSET DOMAIN buckets /\ TypeOK /\ now \in Time
  BY PrunedIsSmall DEF Kept, TypeOK
<1>2. TimesOf(K, k) \in Seq(Time)
  BY PruningKeeps
<1>3. k \in LookedUp(K, S, c) => WindowOf(K, S, c, k) \in Nat
  BY <1>1, WindowIsLongest
<1>4. \A p \in Direct : Window[p] \in Nat
  BY RateLimiterAssumption
<1>5. \A w \in Nat : Dropped(TimesOf(K, k), w) \in Seq(Time)
  BY <1>1, <1>2, DroppedIsTail
<1> QED
  BY <1>2, <1>3, <1>4, <1>5 DEF Shortened

\* check_batch is such a call.
LEMMA BatchCalls ==
  ASSUME Kept, NEW e \in Endpoint, NEW c \in Client, CheckBatch(e, c)
  PROVE  \E K \in Pruned : Call(K, Range(Rules[e]), c, Len(Rules[e]))
<1> DEFINE S == Range(Rules[e])
           B == {Bucket(p, c) : p \in S}
           window(K, k) == WindowOf(K, S, c, k)
           times(K, k) == IF k \in B THEN Dropped(TimesOf(K, k), window(K, k))
                                     ELSE TimesOf(K, k)
           allowed(K) == \A p \in S : ~Denies(p, times(K, Bucket(p, c)), now)
           grant(K, k) == [at |-> now, window |-> window(K, k),
                           by |-> {p \in S : Bucket(p, c) = k}]
<1>1. Rules[e] \in Seq(Rule)
  BY RateLimiterAssumption
<1>2. /\ S \in SUBSET Rule /\ IsFiniteSet(S) /\ B \subseteq Key /\ IsFiniteSet(B)
      /\ Cardinality(B) <= Len(Rules[e])
  BY <1>1, BucketsOfRules
<1>3. PICK K \in Pruned :
        /\ windows' = [k \in LookedUp(K, S, c) |-> window(K, k)]
        /\ buckets' = [k \in LookedUp(K, S, c) |->
                         IF allowed(K) THEN Counted(S, c, k, times(K, k))
                                       ELSE times(K, k)]
        /\ log' = [k \in Key |-> IF allowed(K) /\ k \in B
                                   THEN Append(Remembered(K)[k], grant(K, k))
                                   ELSE Remembered(K)[k]]
        /\ now' = now
  BY DEF CheckBatch
<1> HIDE DEF S
<1>4. ASSUME NEW k \in Key PROVE Touched(K, S, c, k)
  <2>1. Shortened(K, S, c, k, times(K, k))
    BY DEF Shortened, LookedUp
  <2>2. k \notin LookedUp(K, S, c) => times(K, k) = <<>>
    BY DEF LookedUp, TimesOf
  <2>3. HeldOf(k)' = IF k \in LookedUp(K, S, c) /\ allowed(K) /\ k \in B
                       THEN Append(times(K, k), now) ELSE times(K, k)
    BY <1>3, <2>2 DEF HeldOf, Counted
  <2>4. k \in B => k \in LookedUp(K, S, c)
    BY DEF LookedUp
  <2>5. CASE allowed(K) /\ k \in B
    <3>1. HeldOf(k)' = Append(times(K, k), now)
      BY <2>3, <2>4, <2>5
    <3>2. log'[k] = Append(Remembered(K)[k], grant(K, k))
      BY <1>3, <2>5
    <3>3. times(K, k) \in Seq(Time)
      BY <1>2, <2>1, ShortenedIsTimes
    <3>4. \A p \in grant(K, k).by : Cardinality(Recent(times(K, k), p, now)) < Requests[p]
      <4>1. ASSUME NEW p \in S, Bucket(p, c) = k
            PROVE  Cardinality(Recent(times(K, k), p, now)) < Requests[p]
        <5>1. ~Denies(p, times(K, k), now)
          BY <2>5, <4>1
        <5>2. p \in Rule
          BY <1>2
        <5> QED
          BY <3>3, <5>1, <5>2, BelowQuota
      <4> QED
        BY <4>1
    <3>5. /\ grant(K, k).at = now /\ grant(K, k).window = window(K, k)
          /\ grant(K, k) \in Grant
      <4>1. now \in Time
        BY DEF Kept, TypeOK
      <4>2. window(K, k) \in Nat
        <5>1. TypeOK /\ K \in SUBSET DOMAIN buckets
          BY PrunedIsSmall DEF Kept
        <5> QED
          BY <1>2, <2>4, <2>5, <5>1, WindowIsLongest
      <4>3. {p \in S : Bucket(p, c) = k} \in SUBSET Rule
        BY <1>2
      <4> HIDE DEF window
      <4> QED
        BY <4>1, <4>2, <4>3 DEF Grant
    <3>6. \E p \in grant(K, k).by : Bucket(p, c) = k
      BY <2>5
    <3> HIDE DEF grant, times, window
    <3>7. Granted(K, S, c, k, times(K, k))
      BY <2>4, <2>5, <3>1, <3>2, <3>4, <3>5, <3>6 DEF Granted, window
    <3> QED
      BY <2>1, <3>7 DEF Touched
  <2>6. CASE ~(allowed(K) /\ k \in B)
    <3>1. HeldOf(k)' = times(K, k)
      BY <2>3, <2>6
    <3>2. log'[k] = Remembered(K)[k]
      BY <1>3, <2>6
    <3> QED
      BY <2>1, <3>1, <3>2 DEF Touched, Ungranted
  <2> QED
    BY <2>5, <2>6
<1>5. DOMAIN buckets' = LookedUp(K, S, c) /\ DOMAIN log' = Key
      /\ log' = [k \in Key |-> log'[k]]
  BY <1>3
<1> QED
  BY <1>2, <1>3, <1>4, <1>5 DEF Call, S

\* check_batch that a key function fails is one too, for the rules before.
LEMMA RaisingBatchCalls ==
  ASSUME Kept, NEW e \in Endpoint, NEW c \in Client, CheckBatchRaises(e, c)
  PROVE  \E K \in Pruned, S \in SUBSET Rule : Call(K, S, c, Len(Rules[e]))
<1>1. PICK K \in Pruned, n \in {i \in DOMAIN Rules[e] : Rules[e][i] \in Custom} :
        LET S == Range(SubSeq(Rules[e], 1, n - 1))
        IN  /\ windows' = [k \in LookedUp(K, S, c) |-> WindowOf(K, S, c, k)]
            /\ buckets' = [k \in LookedUp(K, S, c) |-> TimesOf(K, k)]
            /\ log' = Remembered(K)
            /\ now' = now
  BY DEF CheckBatchRaises
<1> DEFINE before == SubSeq(Rules[e], 1, n - 1)
           S == Range(before)
           B == {Bucket(p, c) : p \in S}
<1>2. Rules[e] \in Seq(Rule)
  BY RateLimiterAssumption
<1>3. before \in Seq(Rule) /\ Len(before) <= Len(Rules[e])
  <2>1. n \in 1..Len(Rules[e]) /\ Len(Rules[e]) \in Nat
    BY <1>2
  <2>2. n - 1 \in Nat /\ n - 1 <= Len(Rules[e])
    BY <2>1
  <2>3. before \in Seq(Rule)
    BY <1>2, <2>1, <2>2
  <2>4. Len(before) = n - 1
    BY <1>2, <2>1, <2>2
  <2> QED
    BY <2>2, <2>3, <2>4
<1> HIDE DEF before
<1>4. /\ S \in SUBSET Rule /\ IsFiniteSet(S) /\ B \subseteq Key /\ IsFiniteSet(B)
      /\ Cardinality(B) <= Len(before)
  BY <1>3, BucketsOfRules
<1>5. Cardinality(B) <= Len(Rules[e])
  <2>1. Cardinality(B) \in Nat /\ Len(before) \in Nat /\ Len(Rules[e]) \in Nat
    BY <1>2, <1>3, <1>4, FS_CardinalityType
  <2> QED
    BY <1>3, <1>4, <2>1
<1>6. /\ windows' = [k \in LookedUp(K, S, c) |-> WindowOf(K, S, c, k)]
      /\ buckets' = [k \in LookedUp(K, S, c) |-> TimesOf(K, k)]
      /\ log' = Remembered(K)
      /\ now' = now
  BY <1>1 DEF before
<1> HIDE DEF S
<1>7. ASSUME NEW k \in Key PROVE Touched(K, S, c, k)
  <2>1. k \notin LookedUp(K, S, c) => TimesOf(K, k) = <<>>
    BY DEF LookedUp, TimesOf
  <2>2. HeldOf(k)' = TimesOf(K, k)
    BY <1>6, <2>1 DEF HeldOf
  <2>3. log'[k] = Remembered(K)[k]
    BY <1>6
  <2> QED
    BY <2>2, <2>3 DEF Touched, Shortened, Ungranted
<1>8. DOMAIN buckets' = LookedUp(K, S, c) /\ DOMAIN log' = Key
      /\ log' = [k \in Key |-> log'[k]]
  BY <1>6 DEF Remembered
<1> QED
  BY <1>4, <1>5, <1>6, <1>7, <1>8 DEF Call

\* check is one with a single rule.
LEMMA CheckCalls ==
  ASSUME Kept, NEW q \in Direct, NEW c \in Client, Check(q, c)
  PROVE  \E K \in Pruned : Call(K, {q}, c, 1)
<1> DEFINE S == {q}
           b == Bucket(q, c)
           window(K, k) == WindowOf(K, S, c, k)
           times(K) == Dropped(TimesOf(K, b), Window[q])
           allowed(K) == Len(times(K)) < Requests[q]
           grant(K) == [at |-> now, window |-> window(K, b), by |-> {q}]
<1>1. PICK K \in Pruned :
        /\ windows' = [k \in LookedUp(K, S, c) |-> window(K, k)]
        /\ buckets' = [k \in LookedUp(K, S, c) |->
                         IF k # b THEN TimesOf(K, k)
                         ELSE IF allowed(K) THEN Append(times(K), now) ELSE times(K)]
        /\ log' = [k \in Key |-> IF allowed(K) /\ k = b
                                   THEN Append(Remembered(K)[k], grant(K))
                                   ELSE Remembered(K)[k]]
        /\ now' = now
  BY DEF Check
<1>2. q \in Rule
  BY RateLimiterAssumption
<1>3. {Bucket(p, c) : p \in S} = {b} /\ b \in Key /\ b \in LookedUp(K, S, c)
  BY <1>2 DEF Key, LookedUp
<1>4. /\ IsFiniteSet(S) /\ IsFiniteSet({Bucket(p, c) : p \in S})
      /\ Cardinality({Bucket(p, c) : p \in S}) <= 1
  <2>1. IsFiniteSet({q}) /\ IsFiniteSet({b}) /\ Cardinality({b}) = 1
    BY FS_Singleton
  <2>2. Cardinality({b}) <= 1
    BY <2>1
  <2> QED
    BY <1>3, <2>1, <2>2
<1>5. S \in SUBSET Rule
  BY <1>2
<1>6. Shortened(K, S, c, b, times(K))
  BY <1>3 DEF Shortened
<1>7. times(K) \in Seq(Time)
  BY <1>3, <1>4, <1>5, <1>6, ShortenedIsTimes
<1> HIDE DEF S
<1>8. ASSUME NEW k \in Key PROVE Touched(K, S, c, k)
  <2>1. CASE k # b
    <3>1. k \notin LookedUp(K, S, c) => TimesOf(K, k) = <<>>
      BY DEF LookedUp, TimesOf
    <3>2. HeldOf(k)' = TimesOf(K, k)
      BY <1>1, <2>1, <3>1 DEF HeldOf
    <3>3. log'[k] = Remembered(K)[k]
      BY <1>1, <2>1
    <3> QED
      BY <3>2, <3>3 DEF Touched, Shortened, Ungranted
  <2>2. CASE k = b /\ ~allowed(K)
    <3>1. HeldOf(k)' = times(K)
      BY <1>1, <1>3, <2>2 DEF HeldOf
    <3>2. log'[k] = Remembered(K)[k]
      BY <1>1, <2>2
    <3> QED
      BY <1>6, <2>2, <3>1, <3>2 DEF Touched, Ungranted
  <2>3. CASE k = b /\ allowed(K)
    <3>1. HeldOf(k)' = Append(times(K), now)
      BY <1>1, <1>3, <2>3 DEF HeldOf
    <3>2. log'[k] = Append(Remembered(K)[k], grant(K))
      BY <1>1, <2>3
    <3>3. Cardinality(Recent(times(K), q, now)) < Requests[q]
      <4>1. /\ Cardinality(Recent(times(K), q, now)) \in Nat
            /\ Cardinality(Recent(times(K), q, now)) <= Len(times(K))
        BY <1>2, <1>7, BelowQuota
      <4>2. Len(times(K)) \in Nat /\ Requests[q] \in Nat /\ Len(times(K)) < Requests[q]
        BY <1>2, <1>7, <2>3, RateLimiterAssumption
      <4> QED
        BY <4>1, <4>2
    <3>4. /\ grant(K).at = now /\ grant(K).window = window(K, k) /\ grant(K).by = {q}
          /\ grant(K) \in Grant
      <4>1. now \in Time
        BY DEF Kept, TypeOK
      <4>2. window(K, b) \in Nat
        <5>1. TypeOK /\ K \in SUBSET DOMAIN buckets
          BY PrunedIsSmall DEF Kept
        <5> QED
          BY <1>3, <1>4, <1>5, <5>1, WindowIsLongest
      <4> HIDE DEF window
      <4> QED
        BY <1>2, <2>3, <4>1, <4>2 DEF Grant
    <3> HIDE DEF grant, times, window
    <3>5. Granted(K, S, c, k, times(K))
      BY <1>3, <2>3, <3>1, <3>2, <3>3, <3>4 DEF Granted, window
    <3> QED
      BY <1>6, <2>3, <3>5 DEF Touched
  <2> QED
    BY <2>1, <2>2, <2>3
<1>9. DOMAIN buckets' = LookedUp(K, S, c) /\ DOMAIN log' = Key
      /\ log' = [k \in Key |-> log'[k]]
  BY <1>1
<1> QED
  BY <1>1, <1>3, <1>4, <1>5, <1>8, <1>9 DEF Call, S

\* Every step is a tick or such a call.
LEMMA StepIsCall ==
  ASSUME Kept, Next
  PROVE  \/ Tick
         \/ \E K \in Pruned, S \in SUBSET Rule, c \in Client, added \in Lengths :
              Call(K, S, c, added)
<1>1. ASSUME NEW e \in Endpoint, NEW c \in Client, CheckBatch(e, c)
      PROVE  \E K \in Pruned, S \in SUBSET Rule, added \in Lengths : Call(K, S, c, added)
  <2>1. Range(Rules[e]) \in SUBSET Rule /\ Len(Rules[e]) \in Lengths
    BY BucketsOfRules, RateLimiterAssumption DEF Lengths
  <2> QED
    BY <1>1, <2>1, BatchCalls
<1>2. ASSUME NEW e \in Endpoint, NEW c \in Client, CheckBatchRaises(e, c)
      PROVE  \E K \in Pruned, S \in SUBSET Rule, added \in Lengths : Call(K, S, c, added)
  BY <1>2, RaisingBatchCalls DEF Lengths
<1>3. ASSUME NEW q \in Direct, NEW c \in Client, Check(q, c)
      PROVE  \E K \in Pruned, S \in SUBSET Rule, added \in Lengths : Call(K, S, c, added)
  <2>1. {q} \in SUBSET Rule /\ 1 \in Lengths
    BY RateLimiterAssumption DEF Lengths
  <2> QED
    BY <1>3, <2>1, CheckCalls
<1> QED
  BY <1>1, <1>2, <1>3 DEF Next

----------------------------------------------------------------------------
\* The parts of a bucket after a call.
LEMMA TouchedKeeps ==
  ASSUME Kept, NEW K \in Pruned, NEW S \in SUBSET Rule, IsFiniteSet(S),
         NEW c \in Client, NEW k \in Key, Touched(K, S, c, k)
  PROVE  /\ HeldOf(k)' \in Seq(Time) /\ log'[k] \in Seq(Grant)
         /\ Tails(log'[k], HeldOf(k)') /\ InOrder(log'[k], now)
<1>1. PICK us : /\ Shortened(K, S, c, k, us)
                /\ Ungranted(K, k, us) \/ Granted(K, S, c, k, us)
  BY DEF Touched
<1> DEFINE gs == Remembered(K)[k]
           ts == TimesOf(K, k)
<1>2. now \in Time /\ TypeOK /\ K \in SUBSET DOMAIN buckets
  BY PrunedIsSmall DEF Kept, TypeOK
<1>3. gs \in Seq(Grant) /\ ts \in Seq(Time) /\ Tails(gs, ts) /\ InOrder(gs, now)
  BY PruningKeeps
<1>4. us \in Seq(Time)
  BY <1>1, ShortenedIsTimes
<1>5. Tails(gs, us)
  <2>1. \A w \in Nat : Tails(gs, Dropped(ts, w))
    BY <1>2, <1>3, DroppedKeeps
  <2>2. k \in LookedUp(K, S, c) => WindowOf(K, S, c, k) \in Nat
    BY <1>2, WindowIsLongest
  <2>3. \A p \in Direct : Window[p] \in Nat
    BY RateLimiterAssumption
  <2> QED
    BY <1>1, <1>3, <2>1, <2>2, <2>3 DEF Shortened
<1> HIDE DEF gs, ts
<1>6. CASE Ungranted(K, k, us)
  BY <1>3, <1>4, <1>5, <1>6 DEF Ungranted, gs
<1>7. CASE Granted(K, S, c, k, us)
  <2>1. PICK g \in Grant : /\ g.at = now
                           /\ HeldOf(k)' = Append(us, now) /\ log'[k] = Append(gs, g)
    BY <1>7 DEF Granted, gs
  <2>2. /\ Append(gs, g) \in Seq(Grant) /\ Append(us, now) \in Seq(Time)
        /\ Tails(Append(gs, g), Append(us, now)) /\ InOrder(Append(gs, g), now)
    <3>1. 0 \in Nat
      OBVIOUS
    <3> QED
      BY <1>2, <1>3, <1>4, <1>5, <2>1, <3>1, GrantKeeps
  <2> QED
    BY <2>1, <2>2
<1> QED
  BY <1>1, <1>6, <1>7

\* Every call keeps the table well-formed and small.
LEMMA CallKeeps ==
  ASSUME Kept, NEW K \in Pruned, NEW S \in SUBSET Rule, NEW c \in Client,
         NEW added \in Nat, Call(K, S, c, added)
  PROVE  Kept' /\ Cardinality(DOMAIN buckets') <= MaxKeys + added
<1> DEFINE B == {Bucket(p, c) : p \in S}
<1>1. /\ K \subseteq Key /\ K \in SUBSET DOMAIN buckets
      /\ IsFiniteSet(K) /\ Cardinality(K) \in Nat /\ Cardinality(K) <= MaxKeys
      /\ TypeOK
  BY PrunedIsSmall DEF Kept
<1>2. /\ B \subseteq Key /\ IsFiniteSet(S) /\ IsFiniteSet(B) /\ Cardinality(B) <= added
      /\ now' = now
      /\ windows' = [k \in LookedUp(K, S, c) |-> WindowOf(K, S, c, k)]
      /\ DOMAIN buckets' = LookedUp(K, S, c) /\ LookedUp(K, S, c) = K \cup B
      /\ log' = [k \in Key |-> log'[k]]
      /\ \A k \in Key : Touched(K, S, c, k)
  BY DEF Call, LookedUp
<1> HIDE DEF B
<1>3. \A k \in Key : /\ HeldOf(k)' \in Seq(Time) /\ log'[k] \in Seq(Grant)
                     /\ Tails(log'[k], HeldOf(k)') /\ InOrder(log'[k], now)
  BY <1>2, TouchedKeeps
<1>4. IsFiniteSet(K \cup B) /\ Cardinality(K \cup B) <= MaxKeys + added
  <2>1. /\ IsFiniteSet(K \cup B)
        /\ Cardinality(K \cup B) = Cardinality(K) + Cardinality(B) - Cardinality(K \cap B)
    BY <1>1, <1>2, FS_Union
  <2>2. IsFiniteSet(K \cap B)
    BY <1>1, FS_Subset
  <2>3. Cardinality(B) \in Nat /\ Cardinality(K \cap B) \in Nat /\ MaxKeys \in Nat
    BY <1>2, <2>2, FS_CardinalityType, RateLimiterAssumption
  <2> QED
    BY <1>1, <1>2, <2>1, <2>3
<1>5. \A k \in LookedUp(K, S, c) : WindowOf(K, S, c, k) \in Nat \ {0}
  BY <1>1, <1>2, WindowIsLongest
<1>6. TypeOK'
  <2>1. \A k \in DOMAIN buckets' : buckets'[k] = HeldOf(k)'
    BY DEF HeldOf
  <2>2. now' \in Time
    BY <1>1, <1>2 DEF TypeOK
  <2>3. log' \in [Key -> Seq(Grant)]
    BY <1>2, <1>3
  <2>4. DOMAIN windows' = DOMAIN buckets' /\ DOMAIN buckets' \subseteq Key
    BY <1>1, <1>2
  <2>5. \A k \in DOMAIN buckets' : buckets'[k] \in Seq(Time)
    BY <1>3, <2>1, <2>4
  <2>6. \A k \in DOMAIN buckets' : windows'[k] \in Nat \ {0}
    BY <1>2, <1>5
  <2> QED
    BY <2>2, <2>3, <2>4, <2>5, <2>6 DEF TypeOK
<1> QED
  BY <1>2, <1>3, <1>4, <1>6 DEF Kept

\* While `check` is called with the longest rules, every call keeps the counts.
LEMMA CallCounts ==
  ASSUME Kept, Counting, DirectLongest, NEW K \in Pruned, NEW S \in SUBSET Rule,
         NEW c \in Client, NEW added \in Nat, Call(K, S, c, added)
  PROVE  Counting'
<1>1. K \in SUBSET DOMAIN buckets /\ TypeOK /\ now \in Time
  BY PrunedIsSmall DEF Kept, TypeOK
<1>2. /\ IsFiniteSet(S) /\ now' = now
      /\ windows' = [k \in LookedUp(K, S, c) |-> WindowOf(K, S, c, k)]
      /\ DOMAIN buckets' = LookedUp(K, S, c)
      /\ \A k \in Key : Touched(K, S, c, k)
  BY DEF Call
<1>3. ASSUME NEW k \in LookedUp(K, S, c), NEW p \in Direct, k[1] = Scope[p]
      PROVE  WindowOf(K, S, c, k) <= Window[p]
  <2>1. \/ k \in K /\ WindowOf(K, S, c, k) = windows[k]
        \/ \E q \in S : Bucket(q, c) = k /\ WindowOf(K, S, c, k) = Window[q]
    BY <1>1, <1>2, WindowIsLongest
  <2>2. CASE k \in K /\ WindowOf(K, S, c, k) = windows[k]
    BY <1>1, <1>3, <2>2 DEF Counting, Longest
  <2>3. ASSUME NEW q \in S, Bucket(q, c) = k, WindowOf(K, S, c, k) = Window[q]
        PROVE  WindowOf(K, S, c, k) <= Window[p]
    <3>1. Scope[q] = Scope[p]
      BY <1>3, <2>3 DEF Bucket
    <3> QED
      BY <2>3, <3>1 DEF DirectLongest
  <2> QED
    BY <2>1, <2>2, <2>3
<1>4. Longest'
  BY <1>2, <1>3 DEF Longest
<1>5. ASSUME NEW k \in Key
      PROVE  /\ Over(log'[k], HeldOf(k)', now) /\ WithinQuota(log'[k])
             /\ k \in LookedUp(K, S, c) => Within(log'[k], HeldOf(k)', WindowOf(K, S, c, k))
  <2>1. PICK us : /\ Shortened(K, S, c, k, us)
                  /\ Ungranted(K, k, us) \/ Granted(K, S, c, k, us)
    BY <1>2 DEF Touched
  <2> DEFINE gs == Remembered(K)[k]
             ts == TimesOf(K, k)
             w == WindowOf(K, S, c, k)
  <2>2. /\ gs \in Seq(Grant) /\ ts \in Seq(Time) /\ Tails(gs, ts) /\ InOrder(gs, now)
        /\ Over(gs, ts, now) /\ WithinQuota(gs)
        /\ k \in K => Within(gs, ts, windows[k])
    BY PruningKeeps
  <2>3. us \in Seq(Time)
    BY <1>2, <2>1, ShortenedIsTimes
  <2>4. k \in LookedUp(K, S, c) =>
          w \in Nat /\ (k \in K => windows[k] <= w /\ windows[k] \in Nat)
    BY <1>1, <1>2, WindowIsLongest DEF TypeOK
  <2> HIDE DEF gs, ts, w
  <2>5. ASSUME k \in LookedUp(K, S, c) PROVE Within(gs, ts, w)
    <3>1. Len(gs) \in Nat /\ \A j \in 1..Len(gs) : gs[j] \in Grant
      BY <2>2
    <3>2. \A j \in 1..Len(gs) : gs[j].window \in Nat
      BY <3>1, GrantHolds
    <3>3. CASE k \in K
      BY <2>2, <2>4, <2>5, <3>2, <3>3 DEF Within
    <3>4. CASE k \notin K
      <4>1. Len(ts) = 0
        BY <3>4 DEF ts, TimesOf
      <4> QED
        BY <3>1, <4>1 DEF Within
    <3> QED
      BY <3>3, <3>4
  <2>6. /\ Tails(gs, us) /\ Over(gs, us, now)
        /\ k \in LookedUp(K, S, c) => Within(gs, us, w)
    <3>1. CASE us = ts
      BY <2>2, <2>5, <3>1
    <3>2. CASE k \in LookedUp(K, S, c) /\ us = Dropped(ts, w)
      BY <1>1, <2>2, <2>4, <2>5, <3>2, DroppedKeeps
    <3>3. ASSUME k \in LookedUp(K, S, c), NEW p \in Direct, k = Bucket(p, c), p \in S,
                 us = Dropped(ts, Window[p])
          PROVE  Tails(gs, us) /\ Over(gs, us, now) /\ Within(gs, us, w)
      <4>1. w <= Window[p] /\ Window[p] <= w
        <5>1. w <= Window[p]
          BY <1>3, <3>3 DEF Bucket, w
        <5>2. Window[p] <= w
          BY <1>1, <1>2, <3>3, WindowIsLongest DEF w
        <5> QED
          BY <5>1, <5>2
      <4>2. w = Window[p]
        BY <2>4, <3>3, <4>1, RateLimiterAssumption
      <4> QED
        BY <1>1, <2>2, <2>4, <2>5, <3>3, <4>2, DroppedKeeps
    <3> QED
      BY <2>1, <3>1, <3>2, <3>3 DEF Shortened, ts, w
  <2>7. CASE Ungranted(K, k, us)
    BY <2>2, <2>6, <2>7 DEF Ungranted, gs, w
  <2>8. CASE Granted(K, S, c, k, us)
    <3>1. PICK g \in Grant :
            /\ k \in LookedUp(K, S, c) /\ g.at = now /\ g.window = w
            /\ HeldOf(k)' = Append(us, now) /\ log'[k] = Append(gs, g)
            /\ \A p \in g.by : Cardinality(Recent(us, p, now)) < Requests[p]
      BY <2>8 DEF Granted, gs, w
    <3>2. w \in Nat /\ g.window <= w
      BY <2>4, <3>1
    <3>3. /\ Over(Append(gs, g), Append(us, now), now)
          /\ Within(Append(gs, g), Append(us, now), w)
      BY <1>1, <2>2, <2>3, <2>6, <3>1, <3>2, GrantKeeps
    <3>4. WithinQuota(Append(gs, g))
      BY <1>1, <2>2, <2>3, <2>6, <3>1, GrantWithinQuota
    <3> QED
      BY <3>1, <3>3, <3>4 DEF w
  <2> QED
    BY <2>1, <2>7, <2>8
<1>6. \A k \in DOMAIN buckets' : k \in Key /\ buckets'[k] = HeldOf(k)'
                                /\ windows'[k] = WindowOf(K, S, c, k)
  <2>1. LookedUp(K, S, c) \subseteq Key
    BY <1>1 DEF LookedUp, Call, TypeOK
  <2> QED
    BY <1>2, <2>1 DEF HeldOf
<1> QED
  BY <1>2, <1>4, <1>5, <1>6 DEF Counting

----------------------------------------------------------------------------
\* The clock alone only lets times run out of their windows.
LEMMA TickKeeps ==
  ASSUME Kept, Tick
  PROVE  Kept' /\ (Counting => Counting')
<1>1. /\ now \in Time /\ now' = now + 1 /\ now < MaxTime
      /\ UNCHANGED <<buckets, windows, log>> /\ TypeOK
  BY DEF Kept, TypeOK, Tick
<1>2. now' \in Time /\ now \in Int /\ now' \in Int /\ now <= now'
  BY <1>1, RateLimiterAssumption DEF Time
<1>3. TypeOK'
  BY <1>1, <1>2 DEF TypeOK
<1>4. ASSUME NEW k \in Key
      PROVE  /\ HeldOf(k)' = HeldOf(k) /\ log'[k] = log[k]
             /\ InOrder(log[k], now')
             /\ Over(log[k], HeldOf(k), now) => Over(log[k], HeldOf(k), now')
  <2>1. log[k] \in Seq(Grant) /\ HeldOf(k) \in Seq(Time)
        /\ Len(HeldOf(k)) \in Nat /\ Len(log[k]) \in Nat
    BY <1>1 DEF TypeOK, HeldOf
  <2>2. \A j \in 1..Len(log[k]) : log[k][j] \in Grant
    BY <2>1
  <2>3. \A j \in 1..Len(log[k]) : log[k][j].at \in Int /\ log[k][j].window \in Nat
    BY <2>2, GrantHolds
  <2>4. HeldOf(k)' = HeldOf(k)
    BY <1>1 DEF HeldOf
  <2>5. InOrder(log[k], now')
    BY <1>2, <2>3 DEF Kept, InOrder
  <2>6. ASSUME Over(log[k], HeldOf(k), now)
        PROVE  Over(log[k], HeldOf(k), now')
    <3>1. ASSUME NEW j \in 1..(Len(log[k]) - Len(HeldOf(k)))
          PROVE  log[k][j].at <= now' - log[k][j].window
      <4>1. j \in 1..Len(log[k])
        BY <2>1
      <4>2. log[k][j].at <= now - log[k][j].window
        BY <2>6 DEF Over
      <4> QED
        BY <1>2, <2>3, <4>1, <4>2
    <3> QED
      BY <3>1 DEF Over
  <2> QED
    BY <1>1, <2>4, <2>5, <2>6
<1>5. Kept'
  BY <1>1, <1>3, <1>4 DEF Kept
<1>6. ASSUME Counting PROVE Counting'
  <2>1. Longest' /\ \A k \in DOMAIN buckets' : Within(log'[k], buckets'[k], windows'[k])
    BY <1>1, <1>6 DEF Counting, Longest
  <2>2. \A k \in Key : Over(log'[k], HeldOf(k)', now') /\ WithinQuota(log'[k])
    BY <1>4, <1>6 DEF Counting
  <2> QED
    BY <2>1, <2>2 DEF Counting
<1> QED
  BY <1>5, <1>6

\* At the start there is nothing to keep or count.
LEMMA InitKeeps ==
  ASSUME Init
  PROVE  Kept /\ Counting /\ Bounded
<1>1. /\ now = 0 /\ buckets = <<>> /\ windows = <<>> /\ DOMAIN buckets = {}
      /\ DOMAIN windows = {} /\ log = [k \in Key |-> <<>>]
  BY DEF Init
<1>2. 0 \in Time
  BY RateLimiterAssumption DEF Time
<1>3. TypeOK
  <2>1. log \in [Key -> Seq(Grant)]
    BY <1>1
  <2> QED
    BY <1>1, <1>2, <2>1 DEF TypeOK
<1>4. IsFiniteSet(DOMAIN buckets) /\ Cardinality(DOMAIN buckets) = 0
  BY <1>1, FS_EmptySet
<1>5. \A k \in Key : log[k] = <<>> /\ HeldOf(k) = <<>>
  BY <1>1 DEF HeldOf
<1>6. Tails(<<>>, <<>>) /\ InOrder(<<>>, now) /\ Over(<<>>, <<>>, now) /\ WithinQuota(<<>>)
  BY DEF Tails, InOrder, Over, WithinQuota
<1>7. Kept
  BY <1>3, <1>4, <1>5, <1>6 DEF Kept
<1>8. Counting
  BY <1>1, <1>5, <1>6 DEF Counting, Longest
<1>9. Bounded
  BY <1>4, RateLimiterAssumption DEF Bounded
<1> QED
  BY <1>7, <1>8, <1>9

\* Each step keeps the invariant, the bound, and, under the assumption, the counts.
LEMMA StepKeeps ==
  ASSUME Kept, Bounded, [Next]_vars
  PROVE  Kept' /\ Bounded' /\ (DirectLongest /\ Counting => Counting')
<1>1. CASE UNCHANGED vars
  <2>1. /\ now' = now /\ buckets' = buckets /\ windows' = windows /\ log' = log
    BY <1>1 DEF vars
  <2>2. \A k : HeldOf(k)' = HeldOf(k)
    BY <2>1 DEF HeldOf
  <2>3. TypeOK'
    BY <2>1 DEF Kept, TypeOK
  <2>4. Kept'
    BY <2>1, <2>2, <2>3 DEF Kept
  <2>5. Bounded'
    BY <2>1 DEF Bounded
  <2>6. Counting => Counting'
    BY <2>1, <2>2 DEF Counting, Longest
  <2> QED
    BY <2>4, <2>5, <2>6
<1>2. CASE Tick
  <2>1. Bounded'
    BY <1>2 DEF Tick, Bounded
  <2> QED
    BY <1>2, <2>1, TickKeeps
<1>3. ASSUME NEW K \in Pruned, NEW S \in SUBSET Rule, NEW c \in Client,
             NEW added \in Lengths, Call(K, S, c, added)
      PROVE  Kept' /\ Bounded' /\ (DirectLongest /\ Counting => Counting')
  <2>1. added \in Nat
    BY RateLimiterAssumption DEF Lengths
  <2>2. Kept' /\ Cardinality(DOMAIN buckets') <= MaxKeys + added
    BY <1>3, <2>1, CallKeeps
  <2>3. Bounded'
    BY <2>2 DEF Bounded, Lengths
  <2>4. DirectLongest /\ Counting => Counting'
    BY <1>3, <2>1, CallCounts
  <2> QED
    BY <2>2, <2>3, <2>4
<1> QED
  BY <1>1, <1>2, <1>3, StepIsCall

LEMMA KeptAlways == Spec => [](Kept /\ Bounded)
<1>1. Init => Kept /\ Bounded
  BY InitKeeps
<1>2. (Kept /\ Bounded) /\ [Next]_vars => (Kept /\ Bounded)'
  BY StepKeeps
<1> QED
  BY <1>1, <1>2, PTL DEF Spec

\* The two dictionaries agree on their keys and hold times and windows.
THEOREM TypeCorrect == Spec => []TypeOK
<1>1. Kept => TypeOK
  BY DEF Kept
<1> QED
  BY <1>1, KeptAlways, PTL

\* The table never exceeds max_keys by more than the rules of one call.
THEOREM BoundedCorrect == Spec => []Bounded
  BY KeptAlways, PTL

\* A sequence that agrees with the end of another is its suffix.
LEMMA EndIsSuffix ==
  ASSUME NEW s \in Seq(Int), NEW t \in Seq(Int), Len(s) <= Len(t),
         \A i \in 1..Len(s) : s[i] = t[Len(t) - Len(s) + i]
  PROVE  IsSuffix(s, t)
<1> DEFINE n == Len(s)
           m == Len(t)
           rs == [i \in 1..n |-> s[(n - i) + 1]]
           rt == [i \in 1..m |-> t[(m - i) + 1]]
<1>1. n \in Nat /\ m \in Nat /\ n <= m
  OBVIOUS
<1>2. rs \in Seq(Int) /\ Len(rs) = n
  <2>1. \A i \in 1..n : (n - i) + 1 \in 1..n
    BY <1>1
  <2> QED
    BY <1>1, <2>1
<1>3. rt \in Seq(Int) /\ Len(rt) = m
  <2>1. \A i \in 1..m : (m - i) + 1 \in 1..m
    BY <1>1
  <2> QED
    BY <1>1, <2>1
<1>4. ASSUME NEW i \in 1..n PROVE rs[i] = rt[i]
  <2>1. (n - i) + 1 \in 1..n /\ m - n + ((n - i) + 1) = (m - i) + 1 /\ i \in 1..m
    BY <1>1
  <2>2. s[(n - i) + 1] = t[(m - i) + 1]
    BY <2>1
  <2> QED
    BY <2>1, <2>2
<1> HIDE DEF rs, rt
<1>5. /\ SubSeq(rs, 1, n) \in Seq(Int) /\ Len(SubSeq(rs, 1, n)) = n
      /\ \A i \in 1..n : SubSeq(rs, 1, n)[i] = rs[i]
  BY <1>1, <1>2
<1>6. /\ SubSeq(rt, 1, n) \in Seq(Int) /\ Len(SubSeq(rt, 1, n)) = n
      /\ \A i \in 1..n : SubSeq(rt, 1, n)[i] = rt[i]
  BY <1>1, <1>3
<1>7. SubSeq(rs, 1, n) = SubSeq(rt, 1, n)
  BY <1>4, <1>5, <1>6
<1> QED
  BY <1>1, <1>2, <1>3, <1>7 DEF IsSuffix, IsPrefix, Reverse, rs, rt

\* A bucket holds the times of the last grants, each once.
THEOREM CountedOnceCorrect == Spec => []CountedOnce
<1>1. ASSUME Kept PROVE CountedOnce
  <2>1. SUFFICES ASSUME NEW k \in DOMAIN buckets
                 PROVE  IsSuffix(buckets[k], [i \in DOMAIN log[k] |-> log[k][i].at])
    BY DEF CountedOnce
  <2> DEFINE gs == log[k]
             ts == buckets[k]
             ats == [i \in DOMAIN gs |-> gs[i].at]
  <2>2. /\ k \in Key /\ gs \in Seq(Grant) /\ ts \in Seq(Time) /\ Tails(gs, ts)
    BY <1>1 DEF Kept, TypeOK, HeldOf
  <2> HIDE DEF gs, ts
  <2>3. DOMAIN gs = 1..Len(gs) /\ Len(gs) \in Nat /\ Len(ts) \in Nat
        /\ \A i \in 1..Len(gs) : gs[i] \in Grant
    BY <2>2
  <2>4. \A i \in 1..Len(gs) : gs[i].at \in Int
    BY <2>3, GrantHolds
  <2>5. ats \in Seq(Int) /\ Len(ats) = Len(gs) /\ \A i \in 1..Len(gs) : ats[i] = gs[i].at
    BY <2>3, <2>4
  <2>6. ts \in Seq(Int)
    <3>1. \A i \in 1..Len(ts) : ts[i] \in Time
      BY <2>2
    <3>2. \A i \in 1..Len(ts) : ts[i] \in Int
      BY <3>1, TimesAreNaturals
    <3>3. ts \in [1..Len(ts) -> Time]
      BY <2>2
    <3>4. ts \in [1..Len(ts) -> Int]
      BY <3>2, <3>3
    <3> QED
      BY <2>3, <3>4
  <2> HIDE DEF ats
  <2>7. Len(ts) <= Len(ats) /\ \A i \in 1..Len(ts) : ts[i] = ats[Len(ats) - Len(ts) + i]
    <3>1. Len(ts) <= Len(gs)
      BY <2>2 DEF Tails
    <3>2. ASSUME NEW i \in 1..Len(ts) PROVE ts[i] = ats[Len(gs) - Len(ts) + i]
      <4>1. Len(gs) - Len(ts) + i \in 1..Len(gs)
        BY <2>3, <3>1
      <4> QED
        BY <2>2, <2>5, <4>1 DEF Tails
    <3> QED
      BY <2>5, <3>1, <3>2
  <2>8. IsSuffix(ts, ats)
    BY <2>5, <2>6, <2>7, EndIsSuffix
  <2> QED
    BY <2>8 DEF ts, ats, gs
<1> QED
  BY <1>1, KeptAlways, PTL

\* A client with requests still to be counted loses them only to max_keys
\* buckets used no earlier.
THEOREM LostOnlyWhenCrowdedCorrect == Spec => LostOnlyWhenCrowded
<1> DEFINE crowd(k) == {g \in DOMAIN buckets \ {k} :
                          /\ buckets[g] # <<>>
                          /\ Last(buckets[g]) >= Last(buckets[k])}
           Crowded == \A k \in DOMAIN buckets \ DOMAIN buckets' :
                     Stale(k) \/ Cardinality(crowd(k)) >= MaxKeys
<1>1. ASSUME Kept, [Next]_vars PROVE Crowded
  <2>1. CASE UNCHANGED vars
    BY <2>1 DEF vars
  <2>2. CASE Tick
    BY <2>2 DEF Tick
  <2>3. ASSUME NEW K \in Pruned, NEW S \in SUBSET Rule, NEW c \in Client,
               NEW added \in Lengths, Call(K, S, c, added),
               NEW k \in DOMAIN buckets, k \notin DOMAIN buckets', ~Stale(k)
        PROVE  Cardinality(crowd(k)) >= MaxKeys
    <3> DEFINE live == {g \in DOMAIN buckets : ~Stale(g)}
    <3>1. k \notin K
      BY <2>3 DEF Call, LookedUp
    <3>2. k \in live
      BY <2>3
    <3>3. /\ K \in kSubset(MaxKeys, live)
          /\ \A j \in K, g \in live \ K : Last(buckets[g]) <= Last(buckets[j])
      BY <2>3, <3>1, <3>2 DEF Pruned
    <3>4. K \subseteq live /\ Cardinality(K) = MaxKeys
      BY <3>3 DEF kSubset
    <3>5. ASSUME NEW g \in K PROVE g \in crowd(k)
      <4>1. g \in DOMAIN buckets /\ g # k /\ buckets[g] # <<>>
        BY <3>1, <3>4 DEF Stale
      <4>2. Last(buckets[k]) <= Last(buckets[g])
        BY <3>1, <3>2, <3>3
      <4>3. buckets[k] # <<>>
        BY <2>3 DEF Stale
      <4>4. Last(buckets[k]) \in Int /\ Last(buckets[g]) \in Int
        <5>1. /\ buckets[k] \in Seq(Time) /\ buckets[g] \in Seq(Time)
          BY <1>1, <4>1 DEF Kept, TypeOK
        <5>2. Last(buckets[k]) \in Time /\ Last(buckets[g]) \in Time
          BY <4>1, <4>3, <5>1 DEF Last
        <5> QED
          BY <5>2, TimesAreNaturals
      <4> QED
        BY <4>1, <4>2, <4>4
    <3>6. K \in SUBSET crowd(k)
      BY <3>5
    <3>7. IsFiniteSet(crowd(k))
      BY <1>1, FS_Subset DEF Kept
    <3> HIDE DEF crowd
    <3>8. Cardinality(K) <= Cardinality(crowd(k)) /\ Cardinality(crowd(k)) \in Nat
      BY <3>6, <3>7, FS_Subset, FS_CardinalityType
    <3> QED
      BY <3>4, <3>8, RateLimiterAssumption
  <2> QED
    BY <1>1, <2>1, <2>2, <2>3, StepIsCall
<1>2. ASSUME Kept, [Next]_vars
      PROVE  [\A k \in DOMAIN buckets \ DOMAIN buckets' :
                \/ Stale(k)
                \/ Cardinality({g \in DOMAIN buckets \ {k} :
                                  /\ buckets[g] # <<>>
                                  /\ Last(buckets[g]) >= Last(buckets[k])}) >= MaxKeys]_vars
  BY <1>1, <1>2
<1>3. Spec => [](Kept /\ Bounded) /\ [][Next]_vars
  BY KeptAlways, PTL DEF Spec
<1> QED
  BY <1>2, <1>3, PTL DEF LostOnlyWhenCrowded

\* When `check` is only called with the longest rule of its scope, no rule
\* grants more than its requests in any of its windows.
THEOREM QuotaKeptCorrect ==
  ASSUME DirectLongest
  PROVE  Spec => []QuotaKept
<1> DEFINE Inv == Kept /\ Bounded /\ Counting
<1>1. Init => Inv
  BY InitKeeps
<1>2. Inv /\ [Next]_vars => Inv'
  BY StepKeeps
<1>3. Inv => QuotaKept
  <2>1. ASSUME Inv, NEW k \in Key, NEW i \in DOMAIN log[k], NEW p \in log[k][i].by
        PROVE  Cardinality({j \in 1..i : /\ log[k][j].at > log[k][i].at - Window[p]
                                         /\ log[k][j].window >= Window[p]}) <= Requests[p]
    BY <2>1 DEF Counting, WithinQuota, CountedBy
  <2> QED
    BY <2>1 DEF QuotaKept
<1> QED
  BY <1>1, <1>2, <1>3, PTL DEF Spec

----------------------------------------------------------------------------
(* Retry-After: a rule that is alone on its bucket never counts more than    *)
(* its quota, so once the oldest it counts is out of its window it allows.   *)

Modest ==
  \A p \in Rule, c \in Client :
    Lone(p) => Cardinality(Recent(HeldOf(Bucket(p, c)), p, now)) <= Requests[p]

\* A later look, or one at what the popleft loop left, counts no more.
LEMMA LaterCountsLess ==
  ASSUME NEW ts \in Seq(Time), NEW p \in Rule, NEW t \in Int, NEW u \in Int, t <= u
  PROVE  /\ Recent(ts, p, u) \in SUBSET Recent(ts, p, t)
         /\ IsFiniteSet(Recent(ts, p, t)) /\ Cardinality(Recent(ts, p, t)) \in Nat
         /\ Cardinality(Recent(ts, p, u)) <= Cardinality(Recent(ts, p, t))
<1>1. Window[p] \in Int
  BY RateLimiterAssumption
<1>2. \A i \in DOMAIN ts : ts[i] \in Time
  OBVIOUS
<1>3. \A i \in DOMAIN ts : ts[i] \in Int
  BY <1>2, TimesAreNaturals
<1>4. Recent(ts, p, u) \in SUBSET Recent(ts, p, t)
  BY <1>1, <1>3 DEF Recent
<1>5. IsFiniteSet(Recent(ts, p, t))
  <2>1. Recent(ts, p, t) \in SUBSET (1..Len(ts))
    BY DEF Recent
  <2>2. IsFiniteSet(1..Len(ts))
    <3>1. 1 \in Int /\ Len(ts) \in Int
      OBVIOUS
    <3> QED
      BY <3>1, FS_Interval
  <2> QED
    BY <2>1, <2>2, FS_Subset
<1> QED
  BY <1>4, <1>5, FS_Subset, FS_CardinalityType

LEMMA DroppedCountsLess ==
  ASSUME NEW ts \in Seq(Time), NEW w \in Nat, NEW p \in Rule, now \in Time
  PROVE  /\ Cardinality(Recent(Dropped(ts, w), p, now)) <= Cardinality(Recent(ts, p, now))
         /\ Cardinality(Recent(Dropped(ts, w), p, now)) \in Nat
<1>1. PICK d \in 0..Len(ts) :
        /\ Len(Dropped(ts, w)) = Len(ts) - d
        /\ \A i \in 1..(Len(ts) - d) : Dropped(ts, w)[i] = ts[d + i]
        /\ Dropped(ts, w) \in Seq(Time)
  BY DroppedIsTail
<1> DEFINE us == Dropped(ts, w)
           from == Recent(us, p, now)
           to == Recent(ts, p, now)
           place == [i \in from |-> d + i]
<1> HIDE DEF us
<1>2. us \in Seq(Time) /\ Len(us) = Len(ts) - d
      /\ \A i \in 1..(Len(ts) - d) : us[i] = ts[d + i]
  BY <1>1 DEF us
<1>3. ASSUME NEW i \in from PROVE d + i \in to
  <2>1. i \in 1..(Len(ts) - d) /\ us[i] > now - Window[p]
    BY <1>2 DEF Recent
  <2>2. d + i \in 1..Len(ts) /\ us[i] = ts[d + i]
    BY <1>2, <2>1
  <2> QED
    BY <2>1, <2>2 DEF Recent
<1>4. from \subseteq Nat
  BY <1>2 DEF Recent
<1>5. place \in Injection(from, to)
  <2>1. place \in [from -> to]
    BY <1>3
  <2>2. \A a, b \in from : place[a] = place[b] => a = b
    BY <1>4
  <2> QED
    BY <2>1, <2>2 DEF Injection, IsInjective
<1>6. IsFiniteSet(to)
  <2>1. now \in Int
    BY TimesAreNaturals
  <2> QED
    BY <2>1, LaterCountsLess
<1> HIDE DEF from, to, place
<1>7. IsFiniteSet(from) /\ Cardinality(from) <= Cardinality(to)
  BY <1>5, <1>6, FS_Injection
<1> QED
  BY <1>7, FS_CardinalityType DEF from, to, us

\* One grant adds one.
LEMMA AppendCountsOne ==
  ASSUME NEW us \in Seq(Time), NEW p \in Rule, now \in Time,
         Cardinality(Recent(us, p, now)) < Requests[p]
  PROVE  Cardinality(Recent(Append(us, now), p, now)) <= Requests[p]
<1> DEFINE n == Len(us)
           old == Recent(us, p, now)
           new == Recent(Append(us, now), p, now)
<1>1. new \in SUBSET (old \cup {n + 1})
  <2>1. /\ n \in Nat /\ DOMAIN Append(us, now) = 1..(n + 1)
        /\ \A i \in 1..n : Append(us, now)[i] = us[i]
    OBVIOUS
  <2> QED
    BY <2>1 DEF Recent
<1>2. IsFiniteSet(old) /\ Cardinality(old) \in Nat
  <2>1. now \in Int
    BY TimesAreNaturals
  <2> QED
    BY <2>1, LaterCountsLess
<1>3. n + 1 \notin old
  BY DEF Recent
<1>4. Requests[p] \in Nat /\ Cardinality(old) < Requests[p]
  BY RateLimiterAssumption
<1> HIDE DEF old, new, n
<1>5. IsFiniteSet(old \cup {n + 1}) /\ Cardinality(old \cup {n + 1}) = Cardinality(old) + 1
  BY <1>2, <1>3, FS_AddElement
<1>6. Cardinality(new) <= Cardinality(old \cup {n + 1}) /\ Cardinality(new) \in Nat
  BY <1>1, <1>5, FS_Subset, FS_CardinalityType
<1> QED
  BY <1>2, <1>4, <1>5, <1>6 DEF new

LEMMA CallKeepsModest ==
  ASSUME Kept, Modest, NEW K \in Pruned, NEW S \in SUBSET Rule, NEW d \in Client,
         NEW added \in Nat, Call(K, S, d, added)
  PROVE  Modest'
<1>1. K \in SUBSET DOMAIN buckets /\ TypeOK /\ now \in Time /\ now \in Int
  BY PrunedIsSmall, TimesAreNaturals DEF Kept, TypeOK
<1>2. /\ IsFiniteSet(S) /\ now' = now /\ \A k \in Key : Touched(K, S, d, k)
  BY DEF Call
<1>3. ASSUME NEW p \in Rule, NEW c \in Client, Lone(p)
      PROVE  Cardinality(Recent(HeldOf(Bucket(p, c))', p, now)) <= Requests[p]
  <2> DEFINE k == Bucket(p, c)
             ts == TimesOf(K, k)
  <2>1. k \in Key
    BY DEF Key
  <2>2. PICK us : /\ Shortened(K, S, d, k, us)
                  /\ Ungranted(K, k, us) \/ Granted(K, S, d, k, us)
    BY <1>2, <2>1 DEF Touched
  <2>3. us \in Seq(Time) /\ ts \in Seq(Time)
    BY <1>2, <2>1, <2>2, ShortenedIsTimes, PruningKeeps
  <2>4. Requests[p] \in Nat
    BY RateLimiterAssumption
  <2>5. Cardinality(Recent(ts, p, now)) <= Requests[p]
        /\ Cardinality(Recent(ts, p, now)) \in Nat
    <3>1. CASE k \in K
      <4>1. ts = HeldOf(k)
        BY <1>1, <3>1 DEF TimesOf, HeldOf
      <4> QED
        BY <1>1, <1>3, <2>3, <4>1, LaterCountsLess DEF Modest
    <3>2. CASE k \notin K
      <4>1. Recent(ts, p, now) = {}
        BY <3>2 DEF TimesOf, Recent
      <4> QED
        BY <2>4, <4>1, FS_EmptySet
    <3> QED
      BY <3>1, <3>2
  <2>6. Cardinality(Recent(us, p, now)) <= Requests[p]
    <3>1. \A w \in Nat : /\ Cardinality(Recent(Dropped(ts, w), p, now))
                              <= Cardinality(Recent(ts, p, now))
                         /\ Cardinality(Recent(Dropped(ts, w), p, now)) \in Nat
      BY <1>1, <2>3, DroppedCountsLess
    <3>2. k \in LookedUp(K, S, d) => WindowOf(K, S, d, k) \in Nat
      BY <1>1, <1>2, WindowIsLongest
    <3>3. \A q \in Direct : Window[q] \in Nat
      BY RateLimiterAssumption
    <3>4. us = ts \/ \E w \in Nat : us = Dropped(ts, w)
      BY <2>2, <3>2, <3>3 DEF Shortened
    <3> HIDE DEF ts
    <3> QED
      BY <2>4, <2>5, <3>1, <3>4
  <2>7. CASE Ungranted(K, k, us)
    BY <2>6, <2>7 DEF Ungranted
  <2>8. CASE Granted(K, S, d, k, us)
    <3>1. PICK g \in Grant :
            /\ HeldOf(k)' = Append(us, now)
            /\ \A q \in g.by : Cardinality(Recent(us, q, now)) < Requests[q]
            /\ \E q \in g.by : Bucket(q, d) = k
      BY <2>8 DEF Granted
    <3>2. PICK q \in g.by : Bucket(q, d) = k
      BY <3>1
    <3>3. q \in Rule
      BY GrantHolds
    <3>4. q = p
      BY <1>3, <3>2, <3>3 DEF Bucket, Lone
    <3> QED
      BY <1>1, <2>3, <3>1, <3>4, AppendCountsOne
  <2> QED
    BY <2>2, <2>7, <2>8
<1> QED
  BY <1>2, <1>3 DEF Modest

LEMMA ModestStep ==
  ASSUME Kept, Modest, [Next]_vars
  PROVE  Modest'
<1>1. CASE UNCHANGED vars
  BY <1>1 DEF vars, Modest, HeldOf
<1>2. CASE Tick
  <2>1. now \in Int /\ now' = now + 1 /\ now' \in Int /\ buckets' = buckets
    BY <1>2, TimesAreNaturals DEF Tick, Kept, TypeOK
  <2>2. ASSUME NEW p \in Rule, NEW c \in Client, Lone(p)
        PROVE  Cardinality(Recent(HeldOf(Bucket(p, c)), p, now')) <= Requests[p]
    <3> DEFINE ts == HeldOf(Bucket(p, c))
    <3>1. ts \in Seq(Time)
      BY DEF HeldOf, Kept, TypeOK
    <3>2. Cardinality(Recent(ts, p, now)) <= Requests[p]
      BY <2>2 DEF Modest
    <3> HIDE DEF ts
    <3>3. /\ Cardinality(Recent(ts, p, now')) <= Cardinality(Recent(ts, p, now))
          /\ Cardinality(Recent(ts, p, now)) \in Nat /\ Cardinality(Recent(ts, p, now')) \in Nat
      BY <2>1, <3>1, LaterCountsLess
    <3>4. Requests[p] \in Nat
      BY RateLimiterAssumption
    <3>5. Cardinality(Recent(ts, p, now')) <= Requests[p]
      BY <3>2, <3>3, <3>4
    <3> QED
      BY <3>5 DEF ts
  <2> QED
    BY <2>1, <2>2 DEF Modest, HeldOf
<1>3. ASSUME NEW K \in Pruned, NEW S \in SUBSET Rule, NEW c \in Client,
             NEW added \in Lengths, Call(K, S, c, added)
      PROVE  Modest'
  <2>1. added \in Nat
    BY RateLimiterAssumption DEF Lengths
  <2> QED
    BY <1>3, <2>1, CallKeepsModest
<1> QED
  BY <1>1, <1>2, <1>3, StepIsCall

\* A number is its whole units and the rest.
LEMMA Divides ==
  ASSUME NEW x \in Int, NEW u \in Nat \ {0}
  PROVE  x = u * (x \div u) + (x % u)
  BY SMTT(20)

\* The rest is less than a unit.
LEMMA Remains ==
  ASSUME NEW x \in Int, NEW u \in Nat \ {0}
  PROVE  x % u \in 0..(u - 1) /\ x \div u \in Int
  BY SMTT(20)

\* Rounding up to whole units.
LEMMA RoundedUp ==
  ASSUME NEW x \in Int, NEW u \in Nat \ {0}
  PROVE  (x + u - 1) \div u \in Int /\ u * ((x + u - 1) \div u) >= x
<1>1. (x + u - 1) = u * ((x + u - 1) \div u) + ((x + u - 1) % u)
  BY Divides
<1>2. (x + u - 1) % u \in 0..(u - 1) /\ (x + u - 1) \div u \in Int
  BY Remains
<1> DEFINE q == (x + u - 1) \div u
           r == (x + u - 1) % u
           uq == u * q
<1>3. uq \in Int
  BY <1>2
<1> HIDE DEF q, r, uq
<1>4. x + u - 1 = uq + r /\ r \in 0..(u - 1)
  BY <1>1, <1>2 DEF uq, q, r
<1>5. uq >= x
  BY <1>3, <1>4
<1> QED
  BY <1>2, <1>5 DEF uq, q

\* The whole seconds told are no shorter than what is left of the window.
LEMMA RetryIsLongEnough ==
  ASSUME NEW t \in Int, NEW p \in Rule, now \in Int, t > now - Window[p],
         NEW later, later = now + PerSecond * SecondsUntilReset(t, p)
  PROVE  later \in Int /\ later >= now /\ t <= later - Window[p]
<1> DEFINE x == t + Window[p] - now
           q == (x + PerSecond - 1) \div PerSecond
           m == SecondsUntilReset(t, p)
<1>1. Window[p] \in Nat /\ PerSecond \in Nat \ {0} /\ x \in Int /\ x > 0
  BY RateLimiterAssumption
<1> HIDE DEF x
<1>2. q \in Int /\ PerSecond * q >= x
  BY <1>1, RoundedUp
<1> HIDE DEF q
<1>3. q \in Nat
  <2>1. q < 0 => PerSecond * q <= 0
    BY <1>1, <1>2
  <2> QED
    BY <1>1, <1>2, <2>1
<1>4. m = Max({1, q})
  BY DEF SecondsUntilReset, q, x
<1>5. {1, q} \in SUBSET Nat /\ {1, q} # {} /\ IsFiniteSet({1, q})
  <2>1. {1} \cup {q} = {1, q}
    OBVIOUS
  <2>2. IsFiniteSet({1} \cup {q})
    BY FS_Singleton, FS_AddElement
  <2>3. IsFiniteSet({1, q})
    BY <2>1, <2>2, Zenon
  <2>4. {1, q} \in SUBSET Nat /\ {1, q} # {}
    BY <1>3
  <2> QED
    BY <2>3, <2>4
<1>6. m \in Nat /\ m >= 1 /\ m >= q
  BY <1>3, <1>4, <1>5, MaxOfNaturals
<1> HIDE DEF m
<1> DEFINE pm == PerSecond * m
           pq == PerSecond * q
<1>7. pm \in Nat /\ pq \in Nat /\ pm >= pq /\ pq >= x
  BY <1>1, <1>2, <1>3, <1>6
<1>8. later = now + pm
  BY DEF m
<1> HIDE DEF pm, pq
<1>9. now + pm \in Int /\ now + pm >= now /\ t <= (now + pm) - Window[p]
  BY <1>1, <1>7 DEF x
<1> QED
  BY <1>8, <1>9

\* The first rule that denies, if it is alone on its bucket, denies no longer
\* after the Retry-After it told (ratelimit.py 299, app.py 973-977).
THEOREM RetryHonestCorrect == Spec => []RetryHonest
<1>1. ASSUME Kept, Modest, NEW e \in Endpoint, NEW c \in Client,
             Denying(e, c, now) # {}, Lone(Rules[e][Min(Denying(e, c, now))])
      PROVE  Min(Denying(e, c, now)) \notin
               Denying(e, c, now + PerSecond * RetryAfter(e, c))
  <2> DEFINE first == Min(Denying(e, c, now))
             p == Rules[e][first]
             ts == HeldOf(Bucket(p, c))
             recent == Recent(ts, p, now)
             m == Min(recent)
  <2>1. first \in Denying(e, c, now)
    <3>1. Denying(e, c, now) \in SUBSET Nat
      BY RateLimiterAssumption DEF Denying
    <3> QED
      BY <1>1, <3>1, MinOfNaturals
  <2>2. first \in DOMAIN Rules[e] /\ p \in Rule /\ Lone(p)
    <3>1. first \in DOMAIN Rules[e]
      BY <2>1 DEF Denying
    <3> HIDE DEF first
    <3> QED
      BY <1>1, <3>1, RateLimiterAssumption DEF first
  <2> HIDE DEF first
  <2>3. \A t : first \in Denying(e, c, t) <=> Denies(p, ts, t)
    BY <2>2 DEF Denying, Held, HeldOf, TimesOf
  <2>4. ts \in Seq(Time) /\ now \in Int
    BY <1>1, TimesAreNaturals DEF HeldOf, Kept, TypeOK
  <2>5. Denies(p, ts, now)
    BY <2>1, <2>3
  <2>6. RetryAfter(e, c) = SecondsUntilReset(ts[m], p)
    BY DEF RetryAfter, Held, HeldOf, TimesOf, first
  <2>7. /\ IsFiniteSet(recent) /\ Cardinality(recent) \in Nat
        /\ Cardinality(recent) <= Requests[p] /\ Requests[p] \in Nat \ {0}
    BY <1>1, <2>2, <2>4, LaterCountsLess, RateLimiterAssumption DEF Modest
  <2>8. recent # {}
    <3>1. Cardinality(recent) >= Requests[p]
      BY <2>5 DEF Denies
    <3> HIDE DEF recent
    <3> QED
      BY <2>7, <3>1, FS_EmptySet
  <2>9. m \in recent
    <3>1. recent \in SUBSET Nat
      BY <2>4 DEF Recent
    <3> QED
      BY <2>8, <3>1, MinOfNaturals
  <2>10. ts[m] \in Int /\ ts[m] > now - Window[p]
    <3>1. m \in DOMAIN ts /\ ts[m] > now - Window[p]
      BY <2>9 DEF Recent
    <3>2. ts[m] \in Time
      BY <2>4, <3>1
    <3> QED
      BY <3>1, <3>2, TimesAreNaturals
  <2> DEFINE t == now + PerSecond * RetryAfter(e, c)
  <2> HIDE DEF m, ts, p
  <2>11. t \in Int /\ t >= now /\ ts[m] <= t - Window[p]
    <3>1. t = now + PerSecond * SecondsUntilReset(ts[m], p)
      BY <2>6
    <3> HIDE DEF t
    <3>2. ts[m] \in Int /\ ts[m] > now - Window[p] /\ p \in Rule /\ now \in Int
      BY <2>2, <2>4, <2>10
    <3> QED
      BY <3>1, <3>2, RetryIsLongEnough
  <2> HIDE DEF t
  <2>12. Recent(ts, p, t) \in SUBSET (recent \ {m})
    <3>1. Recent(ts, p, t) \in SUBSET recent
      BY <2>2, <2>4, <2>11, LaterCountsLess
    <3>2. Window[p] \in Int
      BY <2>2, RateLimiterAssumption
    <3>3. m \notin Recent(ts, p, t)
      BY <2>10, <2>11, <3>2 DEF Recent
    <3> QED
      BY <3>1, <3>3
  <2>13. Cardinality(Recent(ts, p, t)) < Requests[p]
    <3> HIDE DEF recent
    <3>1. IsFiniteSet(recent \ {m}) /\ Cardinality(recent \ {m}) = Cardinality(recent) - 1
      BY <2>7, <2>9, FS_RemoveElement
    <3>2. /\ Cardinality(Recent(ts, p, t)) <= Cardinality(recent \ {m})
          /\ Cardinality(Recent(ts, p, t)) \in Nat
      BY <2>12, <3>1, FS_Subset, FS_CardinalityType
    <3> QED
      BY <2>7, <3>1, <3>2
  <2>14. ~Denies(p, ts, t)
    <3>1. Cardinality(Recent(ts, p, t)) \in Nat
      BY <2>2, <2>4, <2>11, LaterCountsLess
    <3> QED
      BY <2>7, <2>13, <3>1 DEF Denies
  <2> QED
    BY <2>3, <2>14 DEF t, first
<1>2. Kept /\ Modest => RetryHonest
  BY <1>1 DEF RetryHonest
<1>3. Init => Kept /\ Modest
  <2>1. ASSUME Init PROVE Modest
    <3>1. \A p \in Rule, c \in Client : Recent(HeldOf(Bucket(p, c)), p, now) = {}
      BY <2>1 DEF Init, HeldOf, Recent
    <3>2. Cardinality({}) = 0
      BY FS_EmptySet
    <3>3. \A p \in Rule : Cardinality({}) <= Requests[p]
      BY <3>2, RateLimiterAssumption
    <3>4. ASSUME NEW p \in Rule, NEW c \in Client, Lone(p)
          PROVE  Cardinality(Recent(HeldOf(Bucket(p, c)), p, now)) <= Requests[p]
      BY <3>1, <3>3, Zenon
    <3> QED
      BY <3>4 DEF Modest
  <2> QED
    BY <2>1, InitKeeps
<1>4. (Kept /\ Bounded) /\ Modest /\ [Next]_vars => Modest'
  BY ModestStep
<1> QED
  BY <1>2, <1>3, <1>4, KeptAlways, PTL DEF Spec


----------------------------------------------------------------------------
(* No request is denied that was not earned: what other clients do, how      *)
(* their buckets are pruned and what windows they use never deny anyone.     *)

\* The grants rule p counts against a request of c, by the history.
InWindow(p, c) ==
  {i \in DOMAIN log[Bucket(p, c)] : log[Bucket(p, c)][i].at > now - Window[p]}
Full(p, c) == Cardinality(InWindow(p, c)) >= Requests[p]

\* The bucket of p has one grant more, to which p agreed: the history of the
\* others is what it was, or forgotten with a bucket that was pruned.
Served(p, c) ==
  \E old \in {log[Bucket(p, c)], <<>>}, g \in Grant :
    log'[Bucket(p, c)] = Append(old, g) /\ g.at = now /\ p \in g.by

\* A batch of rules lets a request through, counting it for all of them, or the
\* window of one of them is full; and so for a rule given to `check`.
Earned ==
  /\ \A e \in Endpoint, c \in Client :
       CheckBatch(e, c) => \/ \E p \in Range(Rules[e]) : Full(p, c)
                           \/ \A p \in Range(Rules[e]) : Served(p, c)
  /\ \A p \in Direct, c \in Client : Check(p, c) => Full(p, c) \/ Served(p, c)
DenialEarned == [][Earned]_vars

\* A pruned bucket counts no more than the history does.
LEMMA CountsGrantsOnly ==
  ASSUME Kept, NEW K \in Pruned, NEW p \in Rule, NEW c \in Client
  PROVE  /\ Cardinality(Recent(TimesOf(K, Bucket(p, c)), p, now)) \in Nat
         /\ Cardinality(InWindow(p, c)) \in Nat
         /\ Cardinality(Recent(TimesOf(K, Bucket(p, c)), p, now))
              <= Cardinality(InWindow(p, c))
<1> DEFINE b == Bucket(p, c)
           gs == log[b]
           ts == TimesOf(K, b)
           from == Recent(ts, p, now)
           place == [i \in from |-> Len(gs) - Len(ts) + i]
<1>1. b \in Key
  BY DEF Key
<1>2. gs \in Seq(Grant) /\ ts \in Seq(Time) /\ Tails(gs, ts)
  <2>1. gs \in Seq(Grant) /\ Tails(gs, HeldOf(b)) /\ K \subseteq DOMAIN buckets
    BY <1>1, PrunedIsSmall DEF Kept, TypeOK
  <2>2. ts \in Seq(Time)
    BY <1>1, PruningKeeps
  <2>3. CASE b \in K
    BY <2>1, <2>2, <2>3 DEF TimesOf, HeldOf
  <2>4. CASE b \notin K
    <3>1. ts = <<>>
      BY <2>4 DEF TimesOf
    <3> QED
      BY <2>1, <3>1 DEF Tails
  <2> QED
    BY <2>3, <2>4
<1>3. InWindow(p, c) = {i \in DOMAIN gs : gs[i].at > now - Window[p]}
  BY DEF InWindow
<1> HIDE DEF b, gs, ts
<1>4. /\ Len(gs) \in Nat /\ Len(ts) \in Nat /\ Len(ts) <= Len(gs)
      /\ DOMAIN gs = 1..Len(gs) /\ DOMAIN ts = 1..Len(ts)
      /\ \A i \in 1..Len(ts) : ts[i] = gs[Len(gs) - Len(ts) + i].at
  BY <1>2 DEF Tails
<1>5. ASSUME NEW i \in from PROVE Len(gs) - Len(ts) + i \in InWindow(p, c)
  <2>1. i \in 1..Len(ts) /\ ts[i] > now - Window[p]
    BY <1>4 DEF Recent
  <2>2. Len(gs) - Len(ts) + i \in 1..Len(gs)
    BY <1>4, <2>1
  <2> QED
    BY <1>3, <1>4, <2>1, <2>2
<1>6. from \subseteq Nat
  BY <1>4 DEF Recent
<1>7. place \in Injection(from, InWindow(p, c))
  <2>1. place \in [from -> InWindow(p, c)]
    BY <1>5
  <2>2. \A i, j \in from : place[i] = place[j] => i = j
    BY <1>4, <1>6
  <2> QED
    BY <2>1, <2>2 DEF Injection, IsInjective
<1>8. IsFiniteSet(InWindow(p, c))
  <2>1. InWindow(p, c) \in SUBSET (1..Len(gs))
    BY <1>3, <1>4
  <2>2. IsFiniteSet(1..Len(gs))
    BY <1>4, FS_Interval
  <2> QED
    BY <2>1, <2>2, FS_Subset
<1> HIDE DEF from, place
<1>9. IsFiniteSet(from) /\ Cardinality(from) <= Cardinality(InWindow(p, c))
  BY <1>7, <1>8, FS_Injection
<1> QED
  BY <1>8, <1>9, FS_CardinalityType DEF from, ts, b

\* Of times in order, the popleft loop leaves only those past the cutoff.
LEMMA OnlyRecentLeft ==
  ASSUME NEW ts \in Seq(Time), now \in Time, NEW p \in Rule,
         \A i, j \in 1..Len(ts) : i <= j => ts[i] <= ts[j]
  PROVE  Cardinality(Recent(Dropped(ts, Window[p]), p, now))
           = Len(Dropped(ts, Window[p]))
<1> DEFINE w == Window[p]
           past == {i \in DOMAIN ts : ts[i] > now - w}
           us == Dropped(ts, w)
<1>1. /\ Len(ts) \in Nat /\ DOMAIN ts = 1..Len(ts) /\ now \in Int /\ w \in Nat
      /\ \A i \in 1..Len(ts) : ts[i] \in Int
  <2>1. \A i \in 1..Len(ts) : ts[i] \in Time
    OBVIOUS
  <2>2. Len(ts) \in Nat /\ DOMAIN ts = 1..Len(ts)
    OBVIOUS
  <2>3. w \in Nat
    BY RateLimiterAssumption
  <2>4. \A i \in 1..Len(ts) : ts[i] \in Int
    BY <2>1, TimesAreNaturals
  <2> QED
    BY <2>2, <2>3, <2>4, TimesAreNaturals
<1> HIDE DEF w
<1>2. us \in Seq(Time) /\ \A i \in 1..Len(us) : us[i] > now - w
  <2>1. CASE past = {}
    <3>1. us = <<>>
      BY <2>1 DEF Dropped
    <3> QED
      BY <3>1
  <2>2. CASE past # {}
    <3> DEFINE m == Min(past)
    <3>1. past \in SUBSET Nat
      BY <1>1
    <3>2. m \in past
      BY <2>2, <3>1, MinOfNaturals
    <3>3. us = SubSeq(ts, m, Len(ts))
      BY <2>2 DEF Dropped
    <3>4. m \in 1..Len(ts) /\ ts[m] > now - w
      BY <1>1, <3>2
    <3> HIDE DEF m, us
    <3>5. /\ us \in Seq(Time) /\ Len(us) = Len(ts) - (m - 1)
          /\ \A i \in 1..(Len(ts) - (m - 1)) : us[i] = ts[(m - 1) + i]
      BY <1>1, <3>3, <3>4
    <3>6. ASSUME NEW i \in 1..(Len(ts) - (m - 1)) PROVE us[i] > now - w
      <4>1. (m - 1) + i \in 1..Len(ts) /\ m <= (m - 1) + i
        BY <1>1, <3>4
      <4>2. ts[m] <= ts[(m - 1) + i]
        BY <3>4, <4>1
      <4>3. us[i] = ts[(m - 1) + i] /\ ts[(m - 1) + i] \in Int /\ ts[m] \in Int
        BY <1>1, <3>4, <3>5, <4>1
      <4> QED
        BY <1>1, <3>4, <4>2, <4>3
    <3> QED
      BY <3>5, <3>6
  <2> QED
    BY <2>1, <2>2
<1> HIDE DEF us
<1>3. DOMAIN us = 1..Len(us) /\ Len(us) \in Nat
  BY <1>2
<1>4. Recent(us, p, now) = 1..Len(us)
  BY <1>2, <1>3 DEF Recent, w
<1>5. Cardinality(1..Len(us)) = Len(us)
  <2>1. \A n \in Nat : Cardinality(1..n) = n
    <3>1. TAKE n \in Nat
    <3>2. Cardinality(1..n) = IF 1 > n THEN 0 ELSE n - 1 + 1
      BY FS_Interval
    <3> QED
      BY <3>2
  <2> QED
    BY <1>3, <2>1
<1> QED
  BY <1>4, <1>5 DEF us, w

\* check_batch denies only when the window of one of its rules is full.
LEMMA BatchDenialEarned ==
  ASSUME Kept, NEW e \in Endpoint, NEW c \in Client, CheckBatch(e, c),
         \A p \in Range(Rules[e]) : ~Full(p, c)
  PROVE  \A p \in Range(Rules[e]) : Served(p, c)
<1> DEFINE S == Range(Rules[e])
           B == {Bucket(p, c) : p \in S}
           window(K, k) == WindowOf(K, S, c, k)
           times(K, k) == IF k \in B THEN Dropped(TimesOf(K, k), window(K, k))
                                     ELSE TimesOf(K, k)
           allowed(K) == \A p \in S : ~Denies(p, times(K, Bucket(p, c)), now)
           grant(K, k) == [at |-> now, window |-> window(K, k),
                           by |-> {p \in S : Bucket(p, c) = k}]
<1>1. S \in SUBSET Rule /\ IsFiniteSet(S) /\ B \subseteq Key
  BY RateLimiterAssumption, BucketsOfRules
<1>2. PICK K \in Pruned :
        log' = [k \in Key |-> IF allowed(K) /\ k \in B
                                THEN Append(Remembered(K)[k], grant(K, k))
                                ELSE Remembered(K)[k]]
  BY DEF CheckBatch
<1>3. now \in Time /\ TypeOK /\ K \in SUBSET DOMAIN buckets
  BY PrunedIsSmall DEF Kept, TypeOK
<1> HIDE DEF S
<1>4. \A k \in B : k \in LookedUp(K, S, c) /\ window(K, k) \in Nat
  <2>1. \A k \in B : k \in LookedUp(K, S, c)
    BY DEF LookedUp
  <2> QED
    BY <1>1, <1>3, <2>1, WindowIsLongest
<1>5. ASSUME NEW p \in S PROVE ~Denies(p, times(K, Bucket(p, c)), now)
  <2> DEFINE b == Bucket(p, c)
  <2>1. p \in Rule /\ b \in B /\ b \in Key
    BY <1>1
  <2>2. TimesOf(K, b) \in Seq(Time) /\ window(K, b) \in Nat
    BY <1>4, <2>1, PruningKeeps
  <2> HIDE DEF window
  <2>3. times(K, b) = Dropped(TimesOf(K, b), window(K, b))
    BY <2>1
  <2>4. /\ Cardinality(Recent(times(K, b), p, now)) \in Nat
        /\ Cardinality(Recent(times(K, b), p, now))
             <= Cardinality(Recent(TimesOf(K, b), p, now))
    BY <1>3, <2>1, <2>2, <2>3, DroppedCountsLess
  <2>5. /\ Cardinality(Recent(TimesOf(K, b), p, now)) \in Nat
        /\ Cardinality(InWindow(p, c)) \in Nat
        /\ Cardinality(Recent(TimesOf(K, b), p, now)) <= Cardinality(InWindow(p, c))
    BY <2>1, CountsGrantsOnly
  <2>6. Requests[p] \in Nat /\ ~(Cardinality(InWindow(p, c)) >= Requests[p])
    BY <2>1, RateLimiterAssumption DEF Full, S
  <2> HIDE DEF times, b
  <2>7. ~(Cardinality(Recent(times(K, b), p, now)) >= Requests[p])
    BY <2>4, <2>5, <2>6
  <2> QED
    BY <2>7 DEF Denies, b
<1>6. ASSUME NEW p \in S PROVE Served(p, c)
  <2> DEFINE b == Bucket(p, c)
  <2>1. b \in B /\ b \in Key
    BY <1>1
  <2>2. log'[b] = Append(Remembered(K)[b], grant(K, b))
    BY <1>2, <1>5, <2>1
  <2>3. Remembered(K)[b] \in {log[b], <<>>}
    BY <2>1 DEF Remembered
  <2>4. window(K, b) \in Nat /\ {q \in S : Bucket(q, c) = b} \in SUBSET Rule
        /\ p \in {q \in S : Bucket(q, c) = b}
    BY <1>1, <1>4, <2>1
  <2> HIDE DEF window
  <2>5. grant(K, b) \in Grant /\ grant(K, b).at = now /\ p \in grant(K, b).by
    BY <1>3, <2>4 DEF Grant
  <2> HIDE DEF grant
  <2> QED
    BY <2>2, <2>3, <2>5 DEF Served
<1> QED
  BY <1>6 DEF S

\* And `check` when that of its rule is.
LEMMA CheckDenialEarned ==
  ASSUME Kept, NEW p \in Direct, NEW c \in Client, Check(p, c), ~Full(p, c)
  PROVE  Served(p, c)
<1> DEFINE b == Bucket(p, c)
           window(K, k) == WindowOf(K, {p}, c, k)
           times(K) == Dropped(TimesOf(K, b), Window[p])
           grant(K) == [at |-> now, window |-> window(K, b), by |-> {p}]
<1>1. PICK K \in Pruned :
        log' = [k \in Key |-> IF Len(times(K)) < Requests[p] /\ k = b
                                THEN Append(Remembered(K)[k], grant(K))
                                ELSE Remembered(K)[k]]
  BY DEF Check
<1>2. p \in Rule /\ b \in Key
  BY RateLimiterAssumption DEF Key
<1>3. now \in Time /\ TypeOK /\ K \in SUBSET DOMAIN buckets
  BY PrunedIsSmall DEF Kept, TypeOK
<1>4. /\ TimesOf(K, b) \in Seq(Time) /\ Remembered(K)[b] \in Seq(Grant)
      /\ Tails(Remembered(K)[b], TimesOf(K, b)) /\ InOrder(Remembered(K)[b], now)
  BY <1>2, PruningKeeps
<1>5. ASSUME NEW i \in 1..Len(TimesOf(K, b)), NEW j \in 1..Len(TimesOf(K, b)), i <= j
      PROVE  TimesOf(K, b)[i] <= TimesOf(K, b)[j]
  <2> DEFINE gs == Remembered(K)[b]
             ts == TimesOf(K, b)
  <2>1. Len(gs) \in Nat /\ Len(ts) \in Nat /\ Len(ts) <= Len(gs)
    BY <1>4 DEF Tails
  <2>2. /\ Len(gs) - Len(ts) + i \in 1..Len(gs) /\ Len(gs) - Len(ts) + j \in 1..Len(gs)
        /\ Len(gs) - Len(ts) + i <= Len(gs) - Len(ts) + j
    BY <1>5, <2>1
  <2>3. gs[Len(gs) - Len(ts) + i].at <= gs[Len(gs) - Len(ts) + j].at
    BY <1>4, <2>2 DEF InOrder
  <2> QED
    BY <1>4, <2>3 DEF Tails
<1>6. Len(times(K)) = Cardinality(Recent(times(K), p, now))
  BY <1>2, <1>3, <1>4, <1>5, OnlyRecentLeft
<1>7. Len(times(K)) < Requests[p]
  <2>1. Window[p] \in Nat /\ Requests[p] \in Nat
    BY <1>2, RateLimiterAssumption
  <2>2. /\ Cardinality(Recent(times(K), p, now)) \in Nat
        /\ Cardinality(Recent(times(K), p, now))
             <= Cardinality(Recent(TimesOf(K, b), p, now))
    BY <1>2, <1>3, <1>4, <2>1, DroppedCountsLess
  <2>3. /\ Cardinality(Recent(TimesOf(K, b), p, now)) \in Nat
        /\ Cardinality(InWindow(p, c)) \in Nat
        /\ Cardinality(Recent(TimesOf(K, b), p, now)) <= Cardinality(InWindow(p, c))
    BY <1>2, CountsGrantsOnly
  <2>4. ~(Cardinality(InWindow(p, c)) >= Requests[p])
    BY DEF Full
  <2> HIDE DEF times, b
  <2> QED
    BY <1>6, <2>1, <2>2, <2>3, <2>4
<1>8. log'[b] = Append(Remembered(K)[b], grant(K))
  BY <1>1, <1>2, <1>7
<1>9. Remembered(K)[b] \in {log[b], <<>>}
  BY <1>2 DEF Remembered
<1>10. window(K, b) \in Nat
  <2>1. IsFiniteSet({p}) /\ {p} \in SUBSET Rule /\ b \in LookedUp(K, {p}, c)
    BY <1>2, FS_Singleton DEF LookedUp
  <2> QED
    BY <1>3, <2>1, WindowIsLongest
<1> HIDE DEF window
<1>11. grant(K) \in Grant /\ grant(K).at = now /\ p \in grant(K).by
  BY <1>2, <1>3, <1>10 DEF Grant
<1> HIDE DEF grant
<1> QED
  BY <1>8, <1>9, <1>11 DEF Served

\* The limiter denies a request only when, by what was granted, one of the rules
\* it was checked against has its window full; else every rule counts it.
THEOREM DenialEarnedCorrect == Spec => DenialEarned
<1>1. ASSUME Kept PROVE Earned
  BY <1>1, BatchDenialEarned, CheckDenialEarned DEF Earned
<1>2. Kept => [Earned]_vars
  BY <1>1
<1> QED
  BY <1>2, KeptAlways, PTL DEF DenialEarned
=============================================================================
