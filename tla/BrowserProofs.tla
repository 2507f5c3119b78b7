---------------------------- MODULE BrowserProofs ----------------------------
(* Theorems about Browser, for any number of requests and workers: what      *)
(* sessions live through, for any clocks, any age and any skew; and what the *)
(* checks let through, for any settings, however the names are written.      *)
EXTENDS Browser, SequenceTheorems, WellFoundedInduction, TLAPS

----------------------------------------------------------------------------
(* Whole seconds.                                                          *)

\* A number of ticks is its whole seconds and the rest.
LEMMA Divides ==
  ASSUME NEW x \in Nat, NEW u \in Nat \ {0}
  PROVE  /\ x = u * (x \div u) + (x % u)
         /\ x % u \in 0..(u - 1)
         /\ x \div u \in Nat
<1>1. x = u * (x \div u) + (x % u)
  BY SMTT(20)
<1>2. x % u \in 0..(u - 1) /\ x \div u \in Nat
  BY SMTT(20)
<1> QED
  BY <1>1, <1>2

\* Multiplying keeps the order.
LEMMA TimesKeepsOrder ==
  ASSUME NEW a \in Int, NEW b \in Int, NEW u \in Nat, a <= b
  PROVE  u * a <= u * b
<1>1. u * (b - a) >= 0
  BY SMTT(20)
<1>2. u * (b - a) = u * b - u * a
  BY SMTT(20)
<1> QED
  BY <1>1, <1>2, SMTT(20)

\* Ticks that are m seconds apart or less make seconds that are m apart or less.
LEMMA SecondsApart ==
  ASSUME NEW x \in Nat, NEW y \in Nat, NEW m \in Nat, NEW u \in Nat \ {0},
         x <= y + m * u
  PROVE  x \div u <= (y \div u) + m
<1> DEFINE p == x \div u
           q == y \div u
           up == u * p
           uq == u * q
           um == u * m
<1>1. /\ x = up + (x % u) /\ x % u \in 0..(u - 1) /\ p \in Nat
      /\ y = uq + (y % u) /\ y % u \in 0..(u - 1) /\ q \in Nat
  BY Divides
<1>2. m * u = um
  OBVIOUS
<1>3. up \in Nat /\ uq \in Nat /\ um \in Nat
  BY <1>1
<1> HIDE DEF p, q
<1>4. ASSUME p > q + m PROVE FALSE
  <2>1. u * (q + m + 1) <= up
    BY <1>1, <1>4, TimesKeepsOrder
  <2>2. u * (q + m + 1) = uq + um + u
    BY <1>1, SMTT(20)
  <2> HIDE DEF up, uq, um
  <2> QED
    BY <1>1, <1>2, <1>3, <2>1, <2>2
<1> QED
  BY <1>1, <1>4 DEF p, q

\* Ticks that are m seconds apart or more make seconds that are m apart or more.
LEMMA SecondsFurther ==
  ASSUME NEW x \in Nat, NEW y \in Nat, NEW m \in Nat, NEW u \in Nat \ {0},
         y + m * u <= x
  PROVE  (y \div u) + m <= x \div u
<1> DEFINE p == x \div u
           q == y \div u
           up == u * p
           uq == u * q
           um == u * m
<1>1. /\ x = up + (x % u) /\ x % u \in 0..(u - 1) /\ p \in Nat
      /\ y = uq + (y % u) /\ y % u \in 0..(u - 1) /\ q \in Nat
  BY Divides
<1>2. m * u = um
  OBVIOUS
<1>3. up \in Nat /\ uq \in Nat /\ um \in Nat
  BY <1>1
<1> HIDE DEF p, q
<1>4. ASSUME p < q + m PROVE FALSE
  <2>1. u * (p + 1) <= u * (q + m)
    BY <1>1, <1>4, TimesKeepsOrder
  <2>2. u * (p + 1) = up + u /\ u * (q + m) = uq + um
    BY <1>1, SMTT(20)
  <2> HIDE DEF up, uq, um
  <2> QED
    BY <1>1, <1>2, <1>3, <2>1, <2>2
<1> QED
  BY <1>1, <1>4 DEF p, q

----------------------------------------------------------------------------
\* A cookie and what it was made from: the session as a response left it.
Left == [data : Value \cup {Empty}, by : Worker, at : Nat]

\* The cookie c is what a response that left l carries.
Carries(c, l) ==
  \/ c = NoCookie /\ l = NoCookie
  \/ /\ l \in Left /\ l.at <= now
     /\ c = IF l.data = Empty THEN Removal
            ELSE [data |-> l.data, issued |-> Second(l.at + offset[l.by])]

\* A request is new, over, being handled by some worker, or answered.
Sane(r) ==
  \/ req[r] = New
  \/ req[r] = Done
  \/ req[r].stage = "handling" /\ req[r].worker \in Worker
  \/ req[r].stage = "answered" /\ Carries(req[r].session, req[r].left)

\* The jar holds the cookie of the last response that left one, or none.
Jar ==
  \/ session = NoCookie /\ (last = NoCookie \/ (last \in Left /\ last.at <= now))
  \/ session # Removal /\ session # NoCookie /\ Carries(session, last)

Inv ==
  /\ now \in Nat
  /\ offset \in [Worker -> Nat]
  /\ DOMAIN req = Request
  /\ \A r \in Request : Sane(r)
  /\ Jar

\* What is carried now is carried later.
LEMMA CarriedLater ==
  ASSUME NEW c, NEW l, Carries(c, l), now \in Nat, now' \in Nat, now <= now', offset' = offset
  PROVE  Carries(c, l)'
BY DEF Carries, Left, Second

\* What is carried for a left session is a cookie or the removal of one.
LEMMA CarriedCookie ==
  ASSUME NEW l \in Left, NEW c, Carries(c, l), offset \in [Worker -> Nat]
  PROVE  c \in [data : Value, issued : Nat] \cup {Removal} /\ c # NoCookie
<1>1. l # NoCookie
  BY BrowserAssumption DEF Left
<1>2. CASE l.data = Empty
  BY <1>1, <1>2, BrowserAssumption DEF Carries
<1>3. CASE l.data # Empty
  <2>1. l.data \in Value /\ l.at + offset[l.by] \in Nat
    BY <1>3 DEF Left
  <2>2. Second(l.at + offset[l.by]) \in Nat
    BY <2>1, Divides, BrowserAssumption DEF Second
  <2>3. c = [data |-> l.data, issued |-> Second(l.at + offset[l.by])]
    BY <1>1, <1>3 DEF Carries
  <2>4. c \in [data : Value, issued : Nat]
    BY <2>1, <2>2, <2>3
  <2> QED
    BY <2>4, BrowserAssumption
<1> QED
  BY <1>2, <1>3

\* No step puts anything else into the jar or under way.
LEMMA StepKeepsInv == Inv /\ [Next]_vars => Inv'
<1> SUFFICES ASSUME Inv, [Next]_vars PROVE Inv'
  OBVIOUS
<1>1. CASE UNCHANGED vars
  BY <1>1 DEF vars, Inv, Sane, Jar, Carries, Second
<1>2. CASE Tick
  <2>1. now' \in Nat /\ now <= now' /\ UNCHANGED <<offset, session, csrf, held, req, last, doubled>>
    BY <1>2 DEF Tick, Inv
  <2>2. ASSUME NEW r \in Request PROVE Sane(r)'
    BY <2>1, CarriedLater DEF Inv, Sane
  <2>3. Jar'
    <3>1. CASE session = NoCookie
      BY <2>1, <3>1 DEF Inv, Jar, Left
    <3>2. CASE session # NoCookie
      BY <2>1, <3>2, CarriedLater DEF Inv, Jar
    <3> QED
      BY <3>1, <3>2
  <2> QED
    BY <2>1, <2>2, <2>3 DEF Inv
<1>3. CASE ReadToken
  BY <1>3 DEF ReadToken, Inv, Sane, Jar, Carries, Second
<1>4. CASE Forget
  <2>1. last = NoCookie \/ (last \in Left /\ last.at <= now)
    BY DEF Inv, Jar, Carries
  <2>2. \A r \in Request : Sane(r)'
    BY <1>4 DEF Forget, Inv, Sane, Carries, Second
  <2> QED
    BY <1>4, <2>1, <2>2 DEF Forget, Inv, Jar
<1>5. ASSUME NEW r \in Request, NEW w \in Worker, NEW checked \in Checked, Send(r, w, checked)
      PROVE  Inv'
  <2>1. /\ UNCHANGED <<now, offset, session, csrf, held, last>>
        /\ DOMAIN req' = Request
        /\ req'[r].stage = "handling" /\ req'[r].worker = w
        /\ \A q \in Request \ {r} : req'[q] = req[q]
    BY <1>5 DEF Send, Inv
  <2>2. ASSUME NEW q \in Request PROVE Sane(q)'
    BY <2>1 DEF Inv, Sane, Carries, Second
  <2>3. Jar'
    BY <2>1 DEF Inv, Jar, Carries, Second
  <2> QED
    BY <2>1, <2>2, <2>3 DEF Inv
<1>6. ASSUME NEW r \in Request, Respond(r) PROVE Inv'
  <2>1. /\ UNCHANGED <<now, offset, session, csrf, held, last, doubled>>
        /\ DOMAIN req' = Request
        /\ \A q \in Request \ {r} : req'[q] = req[q]
    BY <1>6 DEF Respond, Inv
  <2>2. req[r].stage = "handling" /\ req[r].worker \in Worker
    BY <1>6 DEF Respond, Inv, Sane, New, Done
  <2>3. PICK modified \in {FALSE, req[r].passed} :
          \E data \in IF modified THEN Value \cup {Empty} ELSE {req[r].loaded} :
            req' = [req EXCEPT ![r] =
              [stage |-> "answered", bare |-> @.bare, csrf |-> TokenFor(r),
               session |-> PersistSession(modified, data, @.worker),
               left |-> IF modified THEN [data |-> data, by |-> @.worker, at |-> now] ELSE NoCookie]]
    BY <1>6 DEF Respond
  <2>4. PICK data \in IF modified THEN Value \cup {Empty} ELSE {req[r].loaded} :
          req' = [req EXCEPT ![r] =
            [stage |-> "answered", bare |-> @.bare, csrf |-> TokenFor(r),
             session |-> PersistSession(modified, data, @.worker),
             left |-> IF modified THEN [data |-> data, by |-> @.worker, at |-> now] ELSE NoCookie]]
    BY <2>3
  <2>5. /\ req'[r].stage = "answered"
        /\ req'[r].session = PersistSession(modified, data, req[r].worker)
        /\ req'[r].left = IF modified THEN [data |-> data, by |-> req[r].worker, at |-> now]
                          ELSE NoCookie
    BY <2>4 DEF Inv
  <2>6. Carries(req'[r].session, req'[r].left)
    <3>1. CASE modified
      <4> DEFINE l == [data |-> data, by |-> req[r].worker, at |-> now]
      <4>1. l \in Left /\ l.at = now /\ l.by = req[r].worker /\ l.data = data
        BY <2>2, <2>4, <3>1 DEF Left, Inv
      <4>2. req'[r].left = l
        BY <2>5, <3>1
      <4> HIDE DEF l
      <4> QED
        BY <2>5, <3>1, <4>1, <4>2 DEF PersistSession, Carries, Dumps, Clock, Inv
    <3>2. CASE ~modified
      BY <2>5, <3>2 DEF PersistSession, Carries
    <3> QED
      BY <3>1, <3>2
  <2>7. ASSUME NEW q \in Request PROVE Sane(q)'
    BY <2>1, <2>5, <2>6 DEF Inv, Sane, Carries, Second
  <2>8. Jar'
    BY <2>1 DEF Inv, Jar, Carries, Second
  <2> QED
    BY <2>1, <2>7, <2>8 DEF Inv
<1>7. ASSUME NEW r \in Request, Receive(r) PROVE Inv'
  <2>1. /\ UNCHANGED <<now, offset, held, doubled>>
        /\ DOMAIN req' = Request
        /\ req'[r] = Done /\ \A q \in Request \ {r} : req'[q] = req[q]
    BY <1>7 DEF Receive, Inv
  <2>2. ASSUME NEW q \in Request PROVE Sane(q)'
    BY <2>1 DEF Inv, Sane, Carries, Second
  <2> DEFINE c == req[r].session
             l == req[r].left
  <2>3. Carries(c, l)
    BY <1>7 DEF Receive, Inv, Sane, New, Done
  <2>4. /\ session' = IF c = NoCookie THEN session ELSE IF c = Removal THEN NoCookie ELSE c
        /\ last' = IF l # NoCookie THEN l ELSE last
    BY <1>7, BrowserAssumption DEF Receive
  <2> HIDE DEF c, l
  <2>5. Jar'
    <3>1. CASE c = NoCookie /\ l = NoCookie
      BY <2>1, <2>4, <3>1 DEF Inv, Jar, Carries, Second
    <3>2. CASE l \in Left
      <4>1. l # NoCookie /\ l.at <= now /\ c # NoCookie
        BY <2>3, <3>2, BrowserAssumption, CarriedCookie DEF Carries, Left, Inv
      <4>2. CASE c = Removal
        BY <2>1, <2>4, <3>2, <4>1, <4>2, BrowserAssumption DEF Jar
      <4>3. CASE c # Removal
        BY <2>1, <2>3, <2>4, <4>1, <4>3 DEF Jar, Carries, Second
      <4> QED
        BY <4>2, <4>3
    <3> QED
      BY <2>3, <3>1, <3>2 DEF Carries
  <2> QED
    BY <2>1, <2>2, <2>5 DEF Inv
<1>8. ASSUME NEW r \in Request, Lose(r) PROVE Inv'
  <2>1. /\ UNCHANGED <<now, offset, session, csrf, held, last, doubled>>
        /\ DOMAIN req' = Request
        /\ req'[r] = Done /\ \A q \in Request \ {r} : req'[q] = req[q]
    BY <1>8 DEF Lose, Inv
  <2>2. ASSUME NEW q \in Request PROVE Sane(q)'
    BY <2>1 DEF Inv, Sane, Carries, Second
  <2>3. Jar'
    BY <2>1 DEF Inv, Jar, Carries, Second
  <2> QED
    BY <2>1, <2>2, <2>3 DEF Inv
<1> QED
  BY <1>1, <1>2, <1>3, <1>4, <1>5, <1>6, <1>7, <1>8 DEF Next

\* It holds at the start, when nothing is kept or under way.
LEMMA InitKeepsInv == Init => Inv
BY BrowserAssumption DEF Init, Inv, Sane, Jar, New, Left

----------------------------------------------------------------------------
\* What a worker loads from the jar.
LEMMA LoadsWhatWasLeft ==
  ASSUME Inv, NEW w \in Worker, last # NoCookie, last.data # Empty
  PROVE  LET apart == Apart(w, last.by) IN
         /\ Age + apart <= MaxAge * TicksPerSecond /\ apart <= MaxSkew * TicksPerSecond
              /\ session # NoCookie => Loads(session, w) = last.data
         /\ Age >= (MaxAge + 1) * TicksPerSecond + apart => Loads(session, w) = Empty
         /\ Loads(session, w) \in {Empty, last.data}
<1>1. CASE session = NoCookie
  BY <1>1 DEF Loads
<1>2. CASE session # NoCookie
  <2> DEFINE apart == Apart(w, last.by)
             x == now + offset[w]
             y == last.at + offset[last.by]
             u == TicksPerSecond
  <2>1. /\ last \in Left /\ last.at <= now
        /\ session = [data |-> last.data, issued |-> Second(y)]
    BY <1>2 DEF Inv, Jar, Carries
  <2>2. /\ x \in Nat /\ y \in Nat /\ Age \in Nat /\ apart \in Nat
        /\ x <= y + Age + apart /\ y <= x + apart /\ x + apart >= y + Age
    BY <2>1 DEF Inv, Left, Age, Apart
  <2>3. u \in Nat \ {0} /\ MaxAge \in Nat /\ MaxSkew \in Nat
    BY BrowserAssumption
  <2>4. Clock(w) = x \div u /\ session.issued = y \div u /\ session.data = last.data
    BY <2>1 DEF Clock, Second
  <2>5. x \div u \in Nat /\ y \div u \in Nat
    BY <2>2, <2>3, Divides
  <2>6. MaxAge * u \in Nat /\ MaxSkew * u \in Nat /\ (MaxAge + 1) * u \in Nat
    BY <2>3
  <2> HIDE DEF x, y, u, apart
  <2>7. ASSUME Age + apart <= MaxAge * u, apart <= MaxSkew * u
        PROVE  Loads(session, w) = last.data
    <3>1. x <= y + MaxAge * u /\ y <= x + MaxSkew * u
      BY <2>2, <2>6, <2>7
    <3>2. x \div u <= (y \div u) + MaxAge /\ y \div u <= (x \div u) + MaxSkew
      BY <2>2, <2>3, <3>1, SecondsApart
    <3> QED
      BY <1>2, <2>3, <2>4, <2>5, <3>2 DEF Loads
  <2>8. ASSUME Age >= (MaxAge + 1) * u + apart PROVE Loads(session, w) = Empty
    <3>1. y + (MaxAge + 1) * u <= x
      BY <2>2, <2>6, <2>8
    <3>2. (y \div u) + (MaxAge + 1) <= x \div u
      BY <2>2, <2>3, <3>1, SecondsFurther
    <3> QED
      BY <2>3, <2>4, <2>5, <3>2 DEF Loads
  <2>9. Loads(session, w) \in {Empty, last.data}
    BY <2>4 DEF Loads
  <2> QED
    BY <2>7, <2>8, <2>9 DEF apart, u
<1> QED
  BY <1>1, <1>2

\* What one step loads is what SessionLifetime allows.
Lifetime ==
  \A r \in Request : req[r] = New /\ req'[r] # New =>
       IF last = NoCookie \/ last.data = Empty THEN req'[r].loaded = Empty
       ELSE LET apart == Apart(req'[r].worker, last.by) IN
            /\ Age + apart <= MaxAge * TicksPerSecond /\ apart <= MaxSkew * TicksPerSecond
                 /\ session # NoCookie => req'[r].loaded = last.data
            /\ Age >= (MaxAge + 1) * TicksPerSecond + apart => req'[r].loaded = Empty
            /\ req'[r].loaded \in {Empty, last.data}

\* Only the step that sends a request loads, and it loads from the jar.
LEMMA StepLoads == Inv /\ [Next]_vars => Lifetime
<1> SUFFICES ASSUME Inv, [Next]_vars, NEW r \in Request, req[r] = New, req'[r] # New
             PROVE  IF last = NoCookie \/ last.data = Empty THEN req'[r].loaded = Empty
                    ELSE LET apart == Apart(req'[r].worker, last.by) IN
                      /\ Age + apart <= MaxAge * TicksPerSecond
                           /\ apart <= MaxSkew * TicksPerSecond
                           /\ session # NoCookie => req'[r].loaded = last.data
                      /\ Age >= (MaxAge + 1) * TicksPerSecond + apart => req'[r].loaded = Empty
                      /\ req'[r].loaded \in {Empty, last.data}
  BY DEF Lifetime
<1>1. \E w \in Worker : req'[r].worker = w /\ req'[r].loaded = Loads(session, w)
  <2>1. ASSUME NEW q \in Request, Respond(q) \/ Receive(q) \/ Lose(q) PROVE FALSE
    <3>1. req[q].stage \in {"handling", "answered"} /\ req'[r] # req[r]
      BY <2>1 DEF Respond, Receive, Lose
    <3>2. q = r
      BY <2>1, <3>1 DEF Respond, Receive, Lose, Inv
    <3> QED
      BY <3>1, <3>2 DEF New
  <2>2. PICK q \in Request, w \in Worker, checked \in Checked : Send(q, w, checked)
    BY <2>1 DEF Next, vars, Tick, ReadToken, Forget
  <2>3. q = r
    BY <2>2 DEF Send, Inv
  <2> QED
    BY <2>2, <2>3 DEF Send, Inv
<1>2. PICK w \in Worker : req'[r].worker = w /\ req'[r].loaded = Loads(session, w)
  BY <1>1
<1>3. CASE last = NoCookie \/ last.data = Empty
  <2>1. session = NoCookie
    BY <1>3, BrowserAssumption DEF Inv, Jar, Carries, Left
  <2> QED
    BY <1>2, <1>3, <2>1 DEF Loads
<1>4. CASE ~(last = NoCookie \/ last.data = Empty)
  BY <1>2, <1>4, LoadsWhatWasLeft
<1> QED
  BY <1>3, <1>4

\* Whatever the clocks of the workers say and however responses overlap, get
\* lost or come late, a request loads what the last one to modify the session
\* left, for as long as it should (session.py 70-98, app.py 1044-1077).
THEOREM SessionsLive == Spec => SessionLifetime
<1>1. Spec => []Inv
  BY InitKeepsInv, StepKeepsInv, PTL DEF Spec
<1>2. Inv /\ [Next]_vars => [Lifetime]_vars
  BY StepLoads
<1> QED
  BY <1>1, <1>2, PTL DEF Spec, SessionLifetime, Lifetime

----------------------------------------------------------------------------
(* The checks, of one request.                                             *)

\* EndsWith, with the leading dot of a pattern, is what it is meant to be.
LEMMA EndsBelow ==
  ASSUME NEW name \in Seq(STRING), NEW pattern \in Seq(STRING), pattern # <<>>
  PROVE  EndsWith(name, pattern) <=> Below(name, Tail(pattern))
<1> DEFINE t == Tail(pattern)
           n == Len(name)
           m == Len(t)
<1>1. t \in Seq(STRING) /\ n \in Nat /\ m \in Nat /\ Len(pattern) = m + 1
  OBVIOUS
<1> HIDE DEF t
<1>2. EndsWith(name, pattern) <=> n >= m + 1 /\ IsSuffix(t, name)
  BY <1>1 DEF EndsWith, t
<1>3. ASSUME n >= m + 1
      PROVE  IsSuffix(t, name) <=> SubSeq(name, n - m + 1, n) = t
  <2> DEFINE rt == Reverse(t)
             rn == Reverse(name)
  <2>1. /\ rt \in Seq(STRING) /\ Len(rt) = m /\ rn \in Seq(STRING) /\ Len(rn) = n
        /\ \A i \in 1..m : rt[i] = t[m - i + 1]
        /\ \A i \in 1..n : rn[i] = name[n - i + 1]
    BY <1>1, <1>3 DEF Reverse
  <2>2. IsSuffix(t, name) <=> SubSeq(rt, 1, m) = SubSeq(rn, 1, m)
    BY <1>1, <1>3, <2>1 DEF IsSuffix, IsPrefix
  <2> HIDE DEF rt, rn
  <2>3. /\ Len(SubSeq(rt, 1, m)) = m /\ Len(SubSeq(rn, 1, m)) = m
        /\ SubSeq(rt, 1, m) \in Seq(STRING) /\ SubSeq(rn, 1, m) \in Seq(STRING)
        /\ \A i \in 1..m : SubSeq(rt, 1, m)[i] = rt[i] /\ SubSeq(rn, 1, m)[i] = rn[i]
    BY <1>1, <1>3, <2>1
  <2>4. IsSuffix(t, name) <=> \A i \in 1..m : t[m - i + 1] = name[n - i + 1]
    <3>1. IsSuffix(t, name) <=> \A i \in 1..m : SubSeq(rt, 1, m)[i] = SubSeq(rn, 1, m)[i]
      BY <2>2, <2>3, SeqEqual
    <3>2. \A i \in 1..m : i \in 1..n
      BY <1>1, <1>3
    <3>3. \A i \in 1..m : rt[i] = t[m - i + 1] /\ rn[i] = name[n - i + 1]
      BY <2>1, <3>2
    <3> QED
      BY <2>3, <3>1, <3>3
  <2> DEFINE sub == SubSeq(name, n - m + 1, n)
  <2>5. /\ sub \in Seq(STRING) /\ Len(sub) = m
        /\ \A i \in 1..m : sub[i] = name[n - m + i]
    BY <1>1, <1>3
  <2> HIDE DEF sub
  <2>6. sub = t <=> \A i \in 1..m : t[i] = name[n - m + i]
    BY <1>1, <2>5, SeqEqual
  <2>7. (\A i \in 1..m : t[m - i + 1] = name[n - i + 1]) <=> \A i \in 1..m : t[i] = name[n - m + i]
    <3>1. ASSUME \A i \in 1..m : t[m - i + 1] = name[n - i + 1], NEW i \in 1..m
          PROVE  t[i] = name[n - m + i]
      <4>1. m - i + 1 \in 1..m /\ m - (m - i + 1) + 1 = i /\ n - (m - i + 1) + 1 = n - m + i
        BY <1>1
      <4> QED
        BY <3>1, <4>1
    <3>2. ASSUME \A i \in 1..m : t[i] = name[n - m + i], NEW i \in 1..m
          PROVE  t[m - i + 1] = name[n - i + 1]
      <4>1. m - i + 1 \in 1..m /\ n - m + (m - i + 1) = n - i + 1
        BY <1>1
      <4> QED
        BY <3>2, <4>1
    <3> QED
      BY <3>1, <3>2
  <2> QED
    BY <2>4, <2>6, <2>7 DEF sub
<1>4. ASSUME EndsWith(name, pattern) PROVE Below(name, t)
  <2>1. n - m \in 1..n /\ SubSeq(name, (n - m) + 1, n) = t
    BY <1>1, <1>2, <1>3, <1>4
  <2> QED
    BY <2>1 DEF Below
<1>5. ASSUME NEW cut \in 1..n, SubSeq(name, cut + 1, n) = t
      PROVE  EndsWith(name, pattern)
  <2>1. m = n - cut
    BY <1>1, <1>5
  <2> QED
    BY <1>1, <1>2, <1>3, <1>5, <2>1
<1> QED
  BY <1>4, <1>5 DEF Below, t

\* A bounded set of numbers has a greatest one, which Max names.
LEMMA MaxUpTo ==
  ASSUME NEW n \in Nat, NEW S \in SUBSET (0..n), S # {}
  PROVE  Max(S) \in S /\ \A x \in S : x <= Max(S)
<1> DEFINE Less == {pair \in Nat \X Nat : pair[1] < pair[2]}
           From == {n - x : x \in S}
<1>1. IsWellFoundedOn(Less, Nat)
  BY NatLessThanWellFounded, Zenon DEF OpToRel
<1>2. From \in SUBSET Nat /\ From # {} /\ \A x \in S : x \in Nat /\ n - x \in From
  <2>1. \A x \in S : x \in 0..n /\ x \in Nat /\ n - x \in Nat
    OBVIOUS
  <2> QED
    BY <2>1
<1> HIDE DEF Less
<1>3. PICK least \in From : \A y \in From : ~ (<<y, least>> \in Less)
  BY <1>1, <1>2, WFMin
<1>4. ASSUME NEW y \in From PROVE least <= y
  <2>1. y \in Nat /\ least \in Nat
    BY <1>2
  <2>2. y < least => <<y, least>> \in Nat \X Nat /\ <<y, least>>[1] < <<y, least>>[2]
    BY <2>1
  <2>3. y < least => <<y, least>> \in Less
    BY <2>2, Zenon DEF Less
  <2> QED
    BY <1>3, <2>1, <2>3
<1>5. PICK x \in S : least = n - x
  OBVIOUS
<1>6. ASSUME NEW y \in S PROVE x >= y
  <2>1. n - y \in From /\ x \in Nat /\ y \in Nat
    BY <1>2
  <2> HIDE DEF From
  <2>2. n - x <= n - y
    BY <1>4, <1>5, <2>1
  <2> QED
    BY <2>1, <2>2
<1> QED
  BY <1>6 DEF Max

LEMMA WithoutDotsType ==
  ASSUME NEW name \in Seq(STRING)
  PROVE  WithoutDots(name) \in Seq(STRING)
<1> DEFINE S == {0} \cup {i \in 1..Len(name) : name[i] # ""}
<1>0. Len(name) \in Nat
  OBVIOUS
<1>1. S \in SUBSET (0..Len(name)) /\ S # {}
  <2>1. 0 \in 0..Len(name) /\ \A i \in 1..Len(name) : i \in 0..Len(name)
    BY <1>0
  <2> QED
    BY <2>1
<1>2. Max(S) \in 0..Len(name)
  BY <1>0, <1>1, MaxUpTo
<1> HIDE DEF S
<1>3. SubSeq(name, 1, Max(S)) \in Seq(STRING)
  BY <1>0, <1>2
<1> QED
  BY <1>3 DEF WithoutDots, S

\* The hosts that pass are those the patterns are meant to serve.
LEMMA HostsMeant ==
  ASSUME NEW host \in Authorities \cup {Malformed}
  PROVE  HostIsAllowed(host) <=> \E pattern \in AllowedHosts : Covers(pattern, host)
<1>1. CASE host \in {Absent, Malformed}
  BY <1>1 DEF HostIsAllowed, HostHeaderHostname, Covers
<1>2. CASE host \notin {Absent, Malformed}
  <2> DEFINE name == WithoutDots(host.name)
  <2>1. name \in Seq(STRING) /\ HostHeaderHostname(host) = name
    BY <1>2, WithoutDotsType DEF HostHeaderHostname, Authorities
  <2>2. ASSUME NEW pattern \in AllowedHosts, WithoutDots(pattern) # <<>>
        PROVE  EndsWith(name, WithoutDots(pattern)) <=> Below(name, Tail(WithoutDots(pattern)))
    <3>1. WithoutDots(pattern) \in Seq(STRING)
      BY GateAssumption, WithoutDotsType
    <3> QED
      BY <2>1, <2>2, <3>1, EndsBelow
  <2> HIDE DEF name
  <2>3. HostIsAllowed(host) <=>
          /\ name # <<>>
          /\ \E pattern \in AllowedHosts :
               /\ WithoutDots(pattern) # <<>>
               /\ \/ WithoutDots(pattern) = name
                  \/ IsPattern(WithoutDots(pattern)) /\ EndsWith(name, WithoutDots(pattern))
    BY <2>1 DEF HostIsAllowed
  <2>4. \A pattern \in AllowedHosts :
          Covers(pattern, host) <=>
            /\ WithoutDots(pattern) # <<>> /\ name # <<>>
            /\ \/ name = WithoutDots(pattern)
               \/ /\ Head(WithoutDots(pattern)) = ""
                  /\ Below(name, Tail(WithoutDots(pattern)))
    BY <1>2 DEF Covers, name
  <2> QED
    BY <2>2, <2>3, <2>4 DEF IsPattern
<1> QED
  BY <1>1, <1>2

\* An origin in canonical form.
LEMMA Canonical ==
  ASSUME NEW o \in [scheme : Scheme, authority : Authorities]
  PROVE  /\ o # Malformed /\ o.authority # Malformed
         /\ CanonicalOrigin(o) =
              IF o.scheme \in {"http", "https"}
                THEN [scheme |-> o.scheme,
                      authority |-> [name |-> o.authority.name, port |-> Port(o)]]
                ELSE Malformed
         /\ [scheme |-> o.scheme, authority |-> [name |-> o.authority.name, port |-> Port(o)]]
              # Malformed
<1>1. o # Malformed /\ o.authority # Malformed
  BY GateAssumption
<1>2. /\ o.scheme \in Scheme /\ o.authority \in Authorities
      /\ o = [scheme |-> o.scheme, authority |-> o.authority]
  OBVIOUS
<1>3. /\ o.authority.name \in Seq(STRING) /\ o.authority.port \in Nat
      /\ o.authority = [name |-> o.authority.name, port |-> o.authority.port]
  BY <1>2 DEF Authorities
<1>4. Port(o) \in Nat
  BY <1>3 DEF Port, DefaultPort
<1>5. [name |-> o.authority.name, port |-> Port(o)] \in Authorities
  BY <1>3, <1>4 DEF Authorities
<1>6. [scheme |-> o.scheme, authority |-> [name |-> o.authority.name, port |-> Port(o)]]
        # Malformed
  BY <1>2, <1>5, GateAssumption
<1>7. CASE o.scheme \notin {"http", "https"}
  BY <1>1, <1>6, <1>7 DEF CanonicalOrigin
<1>8. CASE o.scheme \in {"http", "https"} /\ o.authority.port # NoPort
  <2>1. CanonicalOrigin(o) = o /\ Port(o) = o.authority.port
    BY <1>1, <1>8 DEF CanonicalOrigin, Port
  <2> QED
    BY <1>1, <1>2, <1>3, <1>6, <1>8, <2>1
<1>9. CASE o.scheme \in {"http", "https"} /\ o.authority.port = NoPort
  <2> DEFINE d == IF o.scheme = "https" THEN 443 ELSE 80
  <2>1. CanonicalOrigin(o) = [o EXCEPT !.authority.port = d] /\ Port(o) = d
    BY <1>1, <1>9 DEF CanonicalOrigin, Port, DefaultPort
  <2> HIDE DEF d
  <2>2. [o EXCEPT !.authority.port = d] =
          [scheme |-> o.scheme, authority |-> [name |-> o.authority.name, port |-> d]]
    BY <1>2, <1>3
  <2> QED
    BY <1>1, <1>6, <1>9, <2>1, <2>2
<1> QED
  BY <1>7, <1>8, <1>9

\* Two origins with a canonical form have the same one when they are the same.
LEMMA SameCanonical ==
  ASSUME NEW o \in [scheme : Scheme, authority : Authorities],
         NEW q \in [scheme : Scheme, authority : Authorities]
  PROVE  /\ CanonicalOrigin(o) # Malformed /\ CanonicalOrigin(o) = CanonicalOrigin(q)
              => SameOrigin(o, q)
         /\ SameOrigin(o, q) /\ o.scheme \in {"http", "https"}
              => CanonicalOrigin(o) # Malformed /\ CanonicalOrigin(o) = CanonicalOrigin(q)
<1> DEFINE c(x) == [scheme |-> x.scheme,
                    authority |-> [name |-> x.authority.name, port |-> Port(x)]]
<1>1. c(o) = c(q) <=> /\ o.scheme = q.scheme /\ Port(o) = Port(q)
                      /\ o.authority.name = q.authority.name
  <2>1. /\ c(o).scheme = o.scheme /\ c(o).authority.name = o.authority.name
        /\ c(o).authority.port = Port(o)
        /\ c(q).scheme = q.scheme /\ c(q).authority.name = q.authority.name
        /\ c(q).authority.port = Port(q)
    OBVIOUS
  <2> HIDE DEF c
  <2>2. c(o) = c(q) => /\ o.scheme = q.scheme /\ Port(o) = Port(q)
                       /\ o.authority.name = q.authority.name
    BY <2>1
  <2> QED
    BY <2>2 DEF c
<1>2. /\ o # Malformed /\ q.authority # Malformed /\ c(o) # Malformed /\ c(q) # Malformed
      /\ CanonicalOrigin(o) = IF o.scheme \in {"http", "https"} THEN c(o) ELSE Malformed
      /\ CanonicalOrigin(q) = IF q.scheme \in {"http", "https"} THEN c(q) ELSE Malformed
  BY Canonical
<1> HIDE DEF c
<1> QED
  BY <1>1, <1>2 DEF SameOrigin

\* What a request tells is the page it comes from.
LEMMA WireFacts ==
  ASSUME NEW wire \in Wires
  PROVE  /\ wire.page \in Pages /\ wire.address \in Addresses /\ wire.method \in Method
         /\ wire.scheme = wire.address.scheme /\ wire.host = wire.address.authority
         /\ wire.origin = wire.page \/ (wire.origin = Absent /\ wire.method # "socket")
              \/ ~Tells(wire)
         /\ wire.method = "unsafe" =>
              \/ wire.origin = wire.page /\ wire.referer = Absent
              \/ wire.origin = Absent /\ wire.referer \in {wire.page, Absent}
         /\ wire.cookie \in {Absent, "current"}
<1>1. PICK page \in Pages, method \in Method :
        wire \in {[page |-> page, address |-> address, method |-> method,
                   scheme |-> address.scheme, host |-> address.authority,
                   origin |-> said[1], referer |-> said[2], cookie |-> cookie, token |-> token] :
                     address \in Addresses, said \in Says(page, method),
                     cookie \in {Absent, "current"}, token \in {Absent, "current", "former"}}
  BY DEF Wires
<1>2. PICK address \in Addresses, said \in Says(page, method),
           cookie \in {Absent, "current"}, token \in {Absent, "current", "former"} :
        wire = [page |-> page, address |-> address, method |-> method,
                scheme |-> address.scheme, host |-> address.authority,
                origin |-> said[1], referer |-> said[2], cookie |-> cookie, token |-> token]
  BY <1>1
<1>3. /\ wire.page = page /\ wire.address = address /\ wire.method = method
      /\ wire.scheme = address.scheme /\ wire.host = address.authority
      /\ wire.origin = said[1] /\ wire.referer = said[2] /\ wire.cookie = cookie
  BY <1>2
<1>4. \/ said = <<Absent, Absent>>
      \/ method = "unsafe" /\ said \in {<<page, Absent>>, <<Absent, page>>}
      \/ method = "socket" /\ said = <<page, Absent>>
  BY DEF Says, Method
<1>5. \/ wire.origin = Absent /\ wire.referer = Absent
      \/ /\ method = "unsafe"
         /\ \/ wire.origin = page /\ wire.referer = Absent
            \/ wire.origin = Absent /\ wire.referer = page
      \/ method = "socket" /\ wire.origin = page /\ wire.referer = Absent
  BY <1>3, <1>4
<1> QED
  BY <1>3, <1>5 DEF Tells

\* An origin that is not malformed, of a page or of an address, is one.
LEMMA OriginTypes ==
  /\ \A page \in Pages \ {Malformed} : page \in [scheme : Scheme, authority : Authorities]
  /\ \A a \in Addresses :
       /\ a.scheme \in {"http", "https"} /\ a.authority \in Authorities \cup {Malformed}
       /\ a.authority \in Authorities =>
            /\ a \in [scheme : Scheme, authority : Authorities]
            /\ Origin(a.scheme, a.authority) = a
<1>1. ASSUME NEW a \in [scheme : {"http", "https"}, authority : Authorities \cup {Malformed}]
      PROVE  /\ a.scheme \in {"http", "https"} /\ a.authority \in Authorities \cup {Malformed}
             /\ a = [scheme |-> a.scheme, authority |-> a.authority]
  OBVIOUS
<1>2. \A scheme \in {"http", "https"} : \A authority \in Authorities :
        [scheme |-> scheme, authority |-> authority] \in [scheme : Scheme, authority : Authorities]
  BY DEF Scheme
<1>3. Pages \ {Malformed} \subseteq [scheme : Scheme, authority : Authorities]
  BY PagesAssumption
<1>4. Addresses \subseteq [scheme : {"http", "https"}, authority : Authorities \cup {Malformed}]
  BY PagesAssumption
<1> QED
  BY <1>1, <1>2, <1>3, <1>4 DEF Origin

\* An origin that passes for a request is its own or a trusted page's.
LEMMA MatchesRight ==
  ASSUME NEW page \in Pages, NEW a \in Addresses,
         OriginMatchesRequest(page, a.scheme, a.authority)
  PROVE  SameOrigin(page, a) \/ page \in TrustedPages
<1>1. page # Malformed /\ page \in [scheme : Scheme, authority : Authorities]
  BY OriginTypes DEF OriginMatchesRequest
<1>2. CASE a.authority \notin {Absent, Malformed} /\ page = Origin(a.scheme, a.authority)
  <2>1. page = a
    BY <1>2, OriginTypes
  <2> QED
    BY <1>1, <1>2, <2>1 DEF SameOrigin
<1>3. ASSUME NEW trusted \in TrustedOrigins,
             IF trusted.scheme # AnyScheme THEN page = trusted
             ELSE \/ page.authority = trusted.authority
                  \/ /\ IsPattern(trusted.authority.name)
                     /\ trusted.authority.port = NoPort
                     /\ EndsWith(page.authority.name, trusted.authority.name)
      PROVE  page \in TrustedPages
  <2>1. trusted.authority \in Authorities /\ trusted.authority.name # <<>>
    BY GateAssumption
  <2>2. page.authority.name \in Seq(STRING) /\ trusted.authority.name \in Seq(STRING)
    BY <1>1, <2>1 DEF Authorities
  <2>3. CASE trusted.scheme # AnyScheme
    <3>1. SameOrigin(page, trusted)
      BY <1>1, <1>3, <2>1, <2>3, GateAssumption DEF SameOrigin
    <3> QED
      BY <1>1, <2>3, <3>1, SettingsAssumption DEF Trusts
  <2>4. CASE trusted.scheme = AnyScheme
    <3>1. Trusts(trusted, page)
      BY <1>3, <2>1, <2>2, <2>4, EndsBelow DEF Trusts, IsPattern
    <3> QED
      BY <1>1, <3>1, SettingsAssumption
  <2> QED
    BY <2>3, <2>4
<1> QED
  BY <1>2, <1>3 DEF OriginMatchesRequest

\* What passes the checks is right.
LEMMA PassesRight == ASSUME NEW wire \in Wires, Passes(wire) PROVE Right(wire)
<1> DEFINE a == wire.address
           page == wire.page
<1>1. /\ page \in Pages /\ a \in Addresses /\ wire.method \in Method
      /\ wire.scheme = a.scheme /\ wire.host = a.authority
      /\ wire.origin = page \/ (wire.origin = Absent /\ wire.method # "socket") \/ ~Tells(wire)
      /\ wire.method = "unsafe" =>
           \/ wire.origin = page /\ wire.referer = Absent
           \/ wire.origin = Absent /\ wire.referer \in {page, Absent}
      /\ wire.cookie \in {Absent, "current"}
  BY WireFacts
<1>2. a.authority \in Authorities \cup {Malformed}
  BY <1>1, OriginTypes
<1>3. EnforceHosts => a \in OwnAddresses
  BY <1>1, <1>2, HostsMeant, SettingsAssumption DEF Passes
<1>4. wire.method = "unsafe" /\ CsrfEnabled =>
        /\ CheckOrigin => CsrfOriginIsValid(wire)
        /\ wire.cookie = "current" /\ wire.token = "current"
  BY <1>1 DEF Passes, CsrfIsValid
<1> HIDE DEF a, page
<1>5. CASE ~OriginMatters(wire)
  BY <1>3, <1>4, <1>5 DEF Right, a
<1>6. CASE wire.method = "unsafe" /\ CsrfEnabled /\ CheckOrigin
  <2>1. CASE Tells(wire)
    <3>1. OriginMatchesRequest(page, a.scheme, a.authority)
      BY <1>1, <1>4, <1>6, <2>1 DEF Tells, CsrfOriginIsValid
    <3> QED
      BY <1>1, <1>3, <1>4, <1>6, <2>1, <3>1, MatchesRight DEF Right, a, page
  <2>2. CASE ~Tells(wire)
    BY <1>3, <1>4, <1>6, <2>2 DEF Tells, CsrfOriginIsValid, Right, a
  <2> QED
    BY <2>1, <2>2
<1>7. CASE wire.method = "socket" /\ EnforceSocketOrigin
  <2>1. WebsocketOriginIsAllowed(wire)
    BY <1>7 DEF Passes
  <2>2. CASE wire.origin = Absent
    BY <1>3, <1>7, <2>1, <2>2 DEF WebsocketOriginIsAllowed, Right, Tells, a
  <2>3. CASE wire.origin # Absent
    <3>1. wire.origin = page
      BY <1>1, <1>7, <2>3 DEF Tells
    <3>2. /\ CanonicalOrigin(page) # Malformed
          /\ \/ a.authority # Malformed /\ CanonicalOrigin(page) = CanonicalOrigin(Origin(a.scheme, a.authority))
             \/ \E o \in SocketOrigins : CanonicalOrigin(page) = CanonicalOrigin(o)
      BY <1>1, <2>1, <2>3, <3>1 DEF WebsocketOriginIsAllowed
    <3>3. page \in [scheme : Scheme, authority : Authorities] /\ page # Malformed
      BY <1>1, <3>2, OriginTypes DEF CanonicalOrigin
    <3>4. CASE /\ a.authority # Malformed
               /\ CanonicalOrigin(page) = CanonicalOrigin(Origin(a.scheme, a.authority))
      <4>1. a \in [scheme : Scheme, authority : Authorities] /\ Origin(a.scheme, a.authority) = a
        BY <1>1, <1>2, <3>4, OriginTypes
      <4>2. SameOrigin(page, a)
        BY <3>2, <3>3, <3>4, <4>1, SameCanonical
      <4> QED
        BY <1>3, <1>7, <2>3, <4>2 DEF Right, Tells, a, page
    <3>5. ASSUME NEW o \in SocketOrigins, CanonicalOrigin(page) = CanonicalOrigin(o)
          PROVE  page \in SocketPages
      <4>1. SameOrigin(page, o)
        BY <3>2, <3>3, <3>5, SameCanonical, GateAssumption
      <4> QED
        BY <1>1, <3>3, <4>1, SettingsAssumption
    <3> QED
      BY <1>3, <1>7, <2>3, <3>2, <3>4, <3>5 DEF Right, Tells, a, page
  <2> QED
    BY <2>2, <2>3
<1> QED
  BY <1>5, <1>6, <1>7 DEF OriginMatters

\* What is due passes the checks, when the token in the header, if there is one,
\* is the cookie's.
LEMMA DuePasses ==
  ASSUME NEW wire \in Wires, Due(wire), wire.token \in {Absent, wire.cookie}
  PROVE  Passes(wire)
<1> DEFINE a == wire.address
           page == wire.page
<1>1. /\ page \in Pages /\ a \in Addresses /\ wire.method \in Method
      /\ wire.scheme = a.scheme /\ wire.host = a.authority
      /\ wire.origin = page \/ (wire.origin = Absent /\ wire.method # "socket") \/ ~Tells(wire)
      /\ wire.method = "unsafe" =>
           \/ wire.origin = page /\ wire.referer = Absent
           \/ wire.origin = Absent /\ wire.referer \in {page, Absent}
  BY WireFacts
<1>2. HostIsAllowed(a.authority) /\ a.authority \in Authorities
  <2>1. a.authority \in Authorities \cup {Malformed}
    BY <1>1, OriginTypes
  <2>2. \E pattern \in AllowedHosts : Covers(pattern, a.authority)
    BY <1>1, SettingsAssumption DEF Due
  <2> QED
    BY <2>1, <2>2, HostsMeant DEF Covers
<1>3. wire.method # "safe" =>
        /\ SameOrigin(page, a) /\ Tells(wire)
        /\ page # Malformed /\ page \in [scheme : Scheme, authority : Authorities]
        /\ a.scheme \in {"http", "https"} /\ a \in [scheme : Scheme, authority : Authorities]
        /\ Origin(a.scheme, a.authority) = a
  BY <1>1, <1>2, OriginTypes DEF Due, SameOrigin
<1>4. wire.method = "unsafe" => wire.token # Absent /\ wire.token = wire.cookie
  BY DEF Due
<1> HIDE DEF a, page
<1>5. CASE wire.method = "safe"
  BY <1>1, <1>2, <1>5 DEF Passes, CsrfIsValid
<1>6. CASE wire.method = "unsafe"
  <2>1. page = a
    <3>1. page.authority.port = a.authority.port
      <4>1. /\ page.authority.port # DefaultPort(page.scheme)
            /\ a.authority.port # DefaultPort(a.scheme)
        BY <1>1, <1>2, <1>3, <1>6, PagesAssumption, GateAssumption
      <4> QED
        BY <1>3, <1>6, <4>1 DEF SameOrigin, Port
    <3>2. /\ page.authority = [name |-> page.authority.name, port |-> page.authority.port]
          /\ a.authority = [name |-> a.authority.name, port |-> a.authority.port]
          /\ page = [scheme |-> page.scheme, authority |-> page.authority]
          /\ a = [scheme |-> a.scheme, authority |-> a.authority]
      BY <1>3, <1>6 DEF Authorities
    <3> QED
      BY <1>3, <1>6, <3>1, <3>2 DEF SameOrigin
  <2>2. OriginMatchesRequest(page, a.scheme, a.authority)
    BY <1>2, <1>3, <1>6, <2>1, GateAssumption DEF OriginMatchesRequest
  <2>3. CsrfOriginIsValid(wire)
    BY <1>1, <1>3, <1>6, <2>2 DEF CsrfOriginIsValid, Tells
  <2> QED
    BY <1>1, <1>2, <1>4, <1>6, <2>3 DEF Passes, CsrfIsValid
<1>7. CASE wire.method = "socket"
  <2>1. wire.origin # Absent /\ wire.origin = page
    BY <1>1, <1>3, <1>7 DEF Tells
  <2>2. CanonicalOrigin(page) # Malformed /\ CanonicalOrigin(page) = CanonicalOrigin(a)
    BY <1>3, <1>7, SameCanonical DEF SameOrigin
  <2> QED
    BY <1>1, <1>2, <1>3, <1>7, <2>1, <2>2, GateAssumption DEF Passes, WebsocketOriginIsAllowed
<1> QED
  BY <1>1, <1>5, <1>6, <1>7 DEF Method

----------------------------------------------------------------------------
(* The token.                                                              *)

\* Undoubled, one request at a time is under way without a token, before there
\* is one; so there is one token, and the page's is that one.
OneToken ==
  ~doubled =>
    /\ held \in {NoToken, csrf}
    /\ \A r \in UnderWay : req[r].bare =>
         csrf = NoToken /\ \A q \in UnderWay : req[q].bare => q = r
    /\ \A r \in Request : req[r].stage = "answered" =>
         req[r].csrf = IF req[r].bare THEN r ELSE NoToken

Checks ==
  /\ DOMAIN req = Request
  /\ OneToken
  /\ \A r \in Handling : req[r].served /\ req[r].guarded

LEMMA InitKeepsChecks == Init => Checks
BY DEF Init, Checks, OneToken, UnderWay, Handling, New

\* The checks made of a request that is sent.
LEMMA SentIsChecked ==
  ASSUME Checks, NEW r \in Request, NEW w \in Worker, NEW checked \in Checked,
         Send(r, w, checked)
  PROVE  req'[r].served /\ req'[r].guarded
<1>1. PICK wire \in Wires :
        checked = [cookie |-> wire.cookie, token |-> wire.token, socket |-> wire.method = "socket",
                   passed |-> Passes(wire), due |-> Due(wire), right |-> Right(wire)]
  BY DEF Checked
<1>2. /\ checked.cookie = wire.cookie /\ checked.token = wire.token
      /\ checked.passed = Passes(wire) /\ checked.due = Due(wire) /\ checked.right = Right(wire)
  BY <1>1
<1>3. wire.cookie = Cookie /\ wire.token \in {Absent, Token}
  BY <1>2 DEF Send
<1>4. /\ req'[r].served = (checked.due /\ ~doubled => checked.passed)
      /\ req'[r].guarded = (checked.passed => checked.right)
  BY DEF Send, Checks
<1>5. checked.passed => checked.right
  BY <1>2, PassesRight
<1>6. ASSUME checked.due, ~doubled PROVE checked.passed
  <2>1. wire.token \in {Absent, wire.cookie}
    <3>1. held \in {NoToken, csrf}
      BY <1>6 DEF Checks, OneToken
    <3> QED
      BY <1>3, <3>1 DEF Cookie, Token
  <2> QED
    BY <1>2, <1>6, <2>1, DuePasses
<1> QED
  BY <1>4, <1>5, <1>6

\* What a step makes of one request, with the others and the tokens as they are.
LEMMA OtherKeepsChecks ==
  ASSUME Checks, NEW r \in Request, DOMAIN req' = Request,
         \A q \in Request \ {r} : req'[q] = req[q],
         UNCHANGED <<csrf, held, doubled>>,
         \/ req'[r] = Done
         \/ /\ req[r].stage = "handling" /\ req'[r].stage = "answered"
            /\ req'[r].bare = req[r].bare
            /\ req'[r].csrf = IF req[r].bare THEN r ELSE NoToken
  PROVE  Checks'
<1>1. req'[r].stage # "handling"
  BY DEF Done
<1>2. \A q \in Handling' : q \in Handling /\ req'[q] = req[q]
  BY <1>1 DEF Handling
<1>3. \A q \in UnderWay' : q \in UnderWay /\ req'[q].bare = req[q].bare
  BY DEF UnderWay, Done
<1>4. OneToken'
  <2>1. ASSUME ~doubled, NEW q \in Request, req'[q].stage = "answered"
        PROVE  req'[q].csrf = IF req'[q].bare THEN q ELSE NoToken
    BY <2>1 DEF Checks, OneToken, Done
  <2> QED
    BY <1>3, <2>1 DEF Checks, OneToken
<1> QED
  BY <1>2, <1>4 DEF Checks

LEMMA StepKeepsChecks == Checks /\ [Next]_vars => Checks'
<1> SUFFICES ASSUME Checks, [Next]_vars PROVE Checks'
  OBVIOUS
<1>1. CASE UNCHANGED <<csrf, req, doubled>> /\ held' \in {held, csrf}
  BY <1>1 DEF Checks, OneToken, UnderWay, Handling
<1>2. ASSUME NEW r \in Request, NEW w \in Worker, NEW checked \in Checked, Send(r, w, checked)
      PROVE  Checks'
  <2>1. /\ DOMAIN req' = Request /\ \A q \in Request \ {r} : req'[q] = req[q]
        /\ req'[r].stage = "handling" /\ req'[r].bare = Bare(checked)
        /\ doubled' = (doubled \/ (Bare(checked) /\ \E q \in UnderWay : req[q].bare))
        /\ UNCHANGED <<csrf, held>> /\ r \notin UnderWay
    BY <1>2 DEF Send, Checks, UnderWay, New
  <2>2. \A q \in UnderWay' : q = r \/ (q \in UnderWay /\ req'[q] = req[q])
    BY <2>1 DEF UnderWay
  <2>3. ASSUME ~doubled'
        PROVE  /\ \A q \in UnderWay : req[q].bare => csrf = NoToken /\ ~req'[r].bare
                    /\ \A p \in UnderWay : req[p].bare => p = q
               /\ held \in {NoToken, csrf}
               /\ \A q \in Request : req'[q].stage = "answered" =>
                    req'[q].csrf = IF req'[q].bare THEN q ELSE NoToken
    <3>1. ~doubled /\ (Bare(checked) => \A q \in UnderWay : ~req[q].bare)
      BY <2>1, <2>3
    <3>2. /\ held \in {NoToken, csrf}
          /\ \A q \in UnderWay : req[q].bare =>
               csrf = NoToken /\ \A p \in UnderWay : req[p].bare => p = q
          /\ \A q \in Request : req[q].stage = "answered" =>
               req[q].csrf = IF req[q].bare THEN q ELSE NoToken
      BY <3>1 DEF Checks, OneToken
    <3> QED
      BY <2>1, <3>1, <3>2
  <2>4. OneToken'
    <3>1. ASSUME ~doubled', NEW p \in UnderWay', req'[p].bare
          PROVE  csrf = NoToken /\ \A q \in UnderWay' : req'[q].bare => q = p
      <4>1. CASE p = r
        BY <2>1, <2>2, <2>3, <3>1, <4>1 DEF Bare
      <4>2. CASE p # r
        BY <2>2, <2>3, <3>1, <4>2
      <4> QED
        BY <4>1, <4>2
    <3> QED
      BY <2>1, <2>3, <3>1 DEF OneToken
  <2>5. \A q \in Handling' : req'[q].served /\ req'[q].guarded
    BY <1>2, <2>1, SentIsChecked DEF Checks, Handling
  <2> QED
    BY <2>1, <2>4, <2>5 DEF Checks
<1>3. ASSUME NEW r \in Request, Respond(r) PROVE Checks'
  <2>1. /\ DOMAIN req' = Request /\ \A q \in Request \ {r} : req'[q] = req[q]
        /\ UNCHANGED <<csrf, held, doubled>> /\ req[r].stage = "handling"
    BY <1>3 DEF Respond, Checks
  <2>2. \E session_, left :
          req'[r] = [stage |-> "answered", bare |-> req[r].bare, csrf |-> TokenFor(r),
                     session |-> session_, left |-> left]
    BY <1>3 DEF Respond, Checks
  <2>3. /\ req'[r].stage = "answered" /\ req'[r].bare = req[r].bare
        /\ req'[r].csrf = IF req[r].bare THEN r ELSE NoToken
    BY <2>2 DEF TokenFor
  <2> QED
    BY <2>1, <2>3, OtherKeepsChecks
<1>4. ASSUME NEW r \in Request, Receive(r) PROVE Checks'
  <2>1. /\ DOMAIN req' = Request /\ \A q \in Request \ {r} : req'[q] = req[q]
        /\ req'[r] = Done /\ UNCHANGED <<held, doubled>> /\ req[r].stage = "answered"
        /\ csrf' = IF req[r].csrf # NoToken THEN req[r].csrf ELSE csrf
    BY <1>4 DEF Receive, Checks
  <2>2. CASE csrf' = csrf
    BY <2>1, <2>2, OtherKeepsChecks
  <2>3. CASE csrf' # csrf
    <3>1. /\ r \in UnderWay
          /\ \A q \in Handling' : q \in Handling /\ req'[q] = req[q]
          /\ \A q \in UnderWay' : q \in UnderWay /\ q # r /\ req'[q] = req[q]
      BY <2>1 DEF UnderWay, Handling, Done
    <3>2. ASSUME ~doubled
          PROVE  /\ held = NoToken /\ \A q \in UnderWay' : ~req'[q].bare
                 /\ \A q \in Request : req'[q].stage = "answered" =>
                      req'[q].csrf = IF req'[q].bare THEN q ELSE NoToken
      <4>1. req[r].bare /\ csrf = NoToken /\ \A q \in UnderWay : req[q].bare => q = r
        BY <2>1, <2>3, <3>1, <3>2 DEF Checks, OneToken
      <4> QED
        BY <2>1, <3>1, <3>2, <4>1 DEF Checks, OneToken, Done
    <3>3. OneToken'
      BY <2>1, <3>2 DEF OneToken
    <3> QED
      BY <2>1, <3>1, <3>3 DEF Checks
  <2> QED
    BY <2>2, <2>3
<1>5. ASSUME NEW r \in Request, Lose(r) PROVE Checks'
  BY <1>5, OtherKeepsChecks DEF Lose, Checks
<1> QED
  BY <1>1, <1>2, <1>3, <1>4, <1>5 DEF Next, Tick, ReadToken, Forget, vars

LEMMA ChecksHold == Spec => []Checks
BY InitKeepsChecks, StepKeepsChecks, PTL DEF Spec

\* Whatever is allowed and trusted, however requests and responses overlap: the
\* application's own pages are served, unless two requests of the browser were
\* under way at once without a token (security.py 158-183, 207-216, 230-245).
THEOREM OwnPages == Spec => []OwnPageServed
<1>1. Checks => OwnPageServed
  BY DEF Checks, OwnPageServed
<1> QED
  BY <1>1, ChecksHold, PTL

\* Nothing passes the checks but what the settings mean to let through: what is
\* addressed to a host that is served, and is safe or comes from a page of that
\* origin or a trusted one, with a token (security.py 103-115, 174-245).
THEOREM NoOthers == Spec => []OthersRefused
<1>1. Checks => OthersRefused
  BY DEF Checks, OthersRefused
<1> QED
  BY <1>1, ChecksHold, PTL

=============================================================================
