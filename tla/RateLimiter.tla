----------------------------- MODULE RateLimiter -----------------------------
(* flasgo/ratelimit.py: the sliding-window limiter every request for a       *)
(* rate-limited endpoint goes through.  `check` and `check_batch` take an    *)
(* asyncio lock whose body never awaits, so each call is one step; calls of  *)
(* different requests come in any order and the monotonic clock runs between *)
(* them.  A rule without a scope gets a scope of its own, the                *)
(* "<endpoint>:<index>" of app.py.                                           *)
EXTENDS Integers, FiniteSetsExt, SequencesExt

CONSTANTS
  Rule,       \* the RateLimitRule objects attached to endpoints
  Requests,   \* Requests[p]: p.requests
  Window,     \* Window[p]: p.window_seconds, in clock ticks
  Scope,      \* Scope[p]: p.scope, or the endpoint's own
  Custom,     \* rules whose key_func may raise
  KeyFor,     \* KeyFor[p][c]: client key rule p gives a request of c
  Endpoint,   \* rate-limited endpoints
  Rules,      \* Rules[e]: __flasgo_rate_limits__ of e, in order
  Client,     \* kinds of requests the key functions tell apart
  Direct,     \* rules a program passes to `check` itself
  MaxKeys,    \* max_keys
  PerSecond,  \* clock ticks in a second
  MaxTime     \* bound: the clock stops here

ASSUME RateLimiterAssumption ==
  /\ Requests \in [Rule -> Nat \ {0}] /\ Window \in [Rule -> Nat \ {0}]
  /\ DOMAIN Scope = Rule /\ DOMAIN KeyFor = Rule
  /\ Custom \subseteq Rule /\ Direct \subseteq Rule
  /\ Rules \in [Endpoint -> Seq(Rule) \ {<<>>}]
  /\ MaxKeys \in Nat \ {0} /\ PerSecond \in Nat \ {0} /\ MaxTime \in Nat

VARIABLES
  now,      \* time.monotonic()
  buckets,  \* _buckets: bucket key -> times of granted requests
  windows,  \* _bucket_windows: bucket key -> longest window seen
  log       \* history: what was granted on each bucket key

vars == <<now, buckets, windows, log>>

\* The bucket rule p counts a request of c in.
Bucket(p, c) == <<Scope[p], KeyFor[p][c]>>
Key == UNION {{Bucket(p, c) : p \in Rule} : c \in Client}
Time == 0..MaxTime

\* A grant: when, the bucket's window then, and the rules that agreed.
Grant == [at : Time, window : Nat, by : SUBSET Rule]

Init ==
  /\ now = 0
  /\ buckets = <<>>
  /\ windows = <<>>
  /\ log = [k \in Key |-> <<>>]

Tick ==
  /\ now < MaxTime
  /\ now' = now + 1
  /\ UNCHANGED <<buckets, windows, log>>

----------------------------------------------------------------------------
\* What _prune drops for good: buckets that are empty or twice their window old.
Stale(k) ==
  \/ buckets[k] = <<>>
  \/ Last(buckets[k]) < now - 2 * windows[k]

\* Mutant: nothing is trimmed, only stale buckets go.
PrunedOfStaleOnly ==
  IF Cardinality(DOMAIN buckets) <= MaxKeys THEN {DOMAIN buckets}
  ELSE {{k \in DOMAIN buckets : ~Stale(k)}}

\* Mutant: the most recently used buckets are trimmed.
PrunedOfNewest ==
  LET live == {k \in DOMAIN buckets : ~Stale(k)}
  IN  IF Cardinality(DOMAIN buckets) <= MaxKeys THEN {DOMAIN buckets}
      ELSE IF Cardinality(live) <= MaxKeys THEN {live}
      ELSE {K \in kSubset(MaxKeys, live) :
              \A k \in K, g \in live \ K : Last(buckets[k]) <= Last(buckets[g])}

\* The keys that may remain after the `if len(...) > max_keys: _prune` at the
\* head of each call: of the buckets that are not stale, the max_keys last used.
\* Ties are broken by insertion order in the code, either way here.
Pruned ==
  LET live == {k \in DOMAIN buckets : ~Stale(k)}
  IN  IF Cardinality(DOMAIN buckets) <= MaxKeys THEN {DOMAIN buckets}
      ELSE IF Cardinality(live) <= MaxKeys THEN {live}
      ELSE {K \in kSubset(MaxKeys, live) :
              \A k \in K, g \in live \ K : Last(buckets[g]) <= Last(buckets[k])}

\* The history forgets a bucket with requests still to be counted when it goes.
Remembered(K) ==
  [k \in Key |-> IF k \in DOMAIN buckets \ K /\ ~Stale(k) THEN <<>> ELSE log[k]]

\* times after the popleft loop with cutoff now - w: everything from the first
\* time past the cutoff.
Dropped(times, w) ==
  LET past == {i \in DOMAIN times : times[i] > now - w}
  IN  IF past = {} THEN <<>> ELSE SubSeq(times, Min(past), Len(times))

\* Where the times are that rule p counts at time `at` (recent_times), and
\* whether it denies.
Recent(times, p, at) == {i \in DOMAIN times : times[i] > at - Window[p]}
Denies(p, times, at) == Cardinality(Recent(times, p, at)) >= Requests[p]

\* Buckets and windows once the rules of S have looked up theirs for client c,
\* with the buckets of K there before.
LookedUp(K, S, c) == K \cup {Bucket(p, c) : p \in S}
TimesOf(K, k) == IF k \in K THEN buckets[k] ELSE <<>>

\* Mutant: the window of the bucket is the last rule's, not the longest.
LatestWindow(K, S, c, k) ==
  LET seen == {Window[p] : p \in {q \in S : Bucket(q, c) = k}}
  IN  IF seen = {} THEN windows[k] ELSE Min(seen)

WindowOf(K, S, c, k) ==
  Max({IF k \in K THEN windows[k] ELSE 0}
      \cup {Window[p] : p \in {q \in S : Bucket(q, c) = k}})

\* Mutant: every rule appends the time to its bucket.
CountedPerRule(S, c, k, times) ==
  IF k \in {Bucket(p, c) : p \in S}
    THEN times \o [i \in 1..Cardinality({p \in S : Bucket(p, c) = k}) |-> now]
    ELSE times

\* A granted request is appended once to each bucket its rules share.
Counted(S, c, k, times) ==
  IF k \in {Bucket(p, c) : p \in S} THEN Append(times, now) ELSE times

\* check_batch(rules of e, request of c).
CheckBatch(e, c) ==
  \E K \in Pruned :
    LET S == Range(Rules[e])
        keys == LookedUp(K, S, c)
        window(k) == WindowOf(K, S, c, k)
        times(k) == IF k \in {Bucket(p, c) : p \in S}
                      THEN Dropped(TimesOf(K, k), window(k))
                      ELSE TimesOf(K, k)
        allowed == \A p \in S : ~Denies(p, times(Bucket(p, c)), now)
        grant(k) == [at |-> now, window |-> window(k),
                     by |-> {p \in S : Bucket(p, c) = k}]
    IN  /\ windows' = [k \in keys |-> window(k)]
        /\ buckets' = [k \in keys |-> IF allowed THEN Counted(S, c, k, times(k))
                                                ELSE times(k)]
        /\ log' = [k \in Key |->
                     IF allowed /\ k \in {Bucket(p, c) : p \in S}
                       THEN Append(Remembered(K)[k], grant(k))
                       ELSE Remembered(K)[k]]
        /\ UNCHANGED now

\* The key function of the rule at n raises: check_batch leaves with the
\* buckets of the rules before it looked up, and nothing dropped or counted.
CheckBatchRaises(e, c) ==
  \E K \in Pruned : \E n \in {i \in DOMAIN Rules[e] : Rules[e][i] \in Custom} :
    LET S == Range(SubSeq(Rules[e], 1, n - 1))
    IN  /\ windows' = [k \in LookedUp(K, S, c) |-> WindowOf(K, S, c, k)]
        /\ buckets' = [k \in LookedUp(K, S, c) |-> TimesOf(K, k)]
        /\ log' = Remembered(K)
        /\ UNCHANGED now

\* check(rule p, request of c): drops by the window of p, not the bucket's.
Check(p, c) ==
  \E K \in Pruned :
    LET b == Bucket(p, c)
        keys == LookedUp(K, {p}, c)
        window(k) == WindowOf(K, {p}, c, k)
        times == Dropped(TimesOf(K, b), Window[p])
        allowed == Len(times) < Requests[p]
        grant == [at |-> now, window |-> window(b), by |-> {p}]
    IN  /\ windows' = [k \in keys |-> window(k)]
        /\ buckets' = [k \in keys |->
                         IF k # b THEN TimesOf(K, k)
                         ELSE IF allowed THEN Append(times, now) ELSE times]
        /\ log' = [k \in Key |-> IF allowed /\ k = b
                                   THEN Append(Remembered(K)[k], grant)
                                   ELSE Remembered(K)[k]]
        /\ UNCHANGED now

Next ==
  \/ Tick
  \/ \E e \in Endpoint, c \in Client : CheckBatch(e, c) \/ CheckBatchRaises(e, c)
  \/ \E p \in Direct, c \in Client : Check(p, c)

Spec == Init /\ [][Next]_vars

----------------------------------------------------------------------------
\* Mutant: rounded down.
SecondsRoundedDown(t, p) == Max({1, (t + Window[p] - now) \div PerSecond})

\* _seconds_until_reset: rounded up to whole seconds, at least one.
SecondsUntilReset(t, p) ==
  Max({1, (t + Window[p] - now + PerSecond - 1) \div PerSecond})

\* Indices of the rules of e that would deny a request of c at time `at`.
Held(p, c) == TimesOf(DOMAIN buckets, Bucket(p, c))
Denying(e, c, at) ==
  {i \in DOMAIN Rules[e] : Denies(Rules[e][i], Held(Rules[e][i], c), at)}

\* Retry-After of the response: the one of the first rule that denies.
RetryAfter(e, c) ==
  LET p == Rules[e][Min(Denying(e, c, now))]
  IN  SecondsUntilReset(Held(p, c)[Min(Recent(Held(p, c), p, now))], p)

\* No other rule shares a bucket with p.
Lone(p) == \A q \in Rule : Scope[q] = Scope[p] => q = p

----------------------------------------------------------------------------
\* The two dictionaries agree on their keys, and hold what they should.
TypeOK ==
  /\ now \in Time
  /\ DOMAIN buckets \subseteq Key
  /\ DOMAIN windows = DOMAIN buckets
  /\ \A k \in DOMAIN buckets : buckets[k] \in Seq(Time) /\ windows[k] \in Nat \ {0}
  /\ log \in [Key -> Seq(Grant)]

\* No rule grants more than its requests in any window of its length, counting
\* what every rule that shares its scope granted since the bucket has known the
\* window, whatever rules of other lengths drop in between
\* (ratelimit.py 101-197; CHANGELOG.md 50).
QuotaKept ==
  \A k \in Key : \A i \in DOMAIN log[k] : \A p \in log[k][i].by :
    Cardinality({j \in 1..i : /\ log[k][j].at > log[k][i].at - Window[p]
                             /\ log[k][j].window >= Window[p]}) <= Requests[p]

\* A bucket holds the times of the last granted requests, each once: rules that
\* share a bucket count a request together, a request some rule denied or a key
\* function failed for counts nowhere, and only the oldest times are dropped.
CountedOnce ==
  \A k \in DOMAIN buckets :
    IsSuffix(buckets[k], [i \in DOMAIN log[k] |-> log[k][i].at])

\* Memory stays bounded however many clients call: max_keys, and what one call
\* adds after it pruned, one bucket for each of its rules.
Bounded ==
  \E added \in {1} \cup {Len(Rules[e]) : e \in Endpoint} :
    Cardinality(DOMAIN buckets) <= MaxKeys + added

\* A client with requests still to be counted loses them only when max_keys
\* other buckets were used no earlier than its own.
LostOnlyWhenCrowded ==
  [][\A k \in DOMAIN buckets \ DOMAIN buckets' :
       \/ Stale(k)
       \/ Cardinality({g \in DOMAIN buckets \ {k} :
                         /\ buckets[g] # <<>>
                         /\ Last(buckets[g]) >= Last(buckets[k])}) >= MaxKeys]_vars

\* A client that waits for the Retry-After it was told is no longer denied by
\* the rule that told it, the first that denied, if no other rule shares its
\* bucket (ratelimit.py 299, app.py 973-977); a later rule may deny it still.
RetryHonest ==
  \A e \in Endpoint, c \in Client :
    LET first == Min(Denying(e, c, now))
    IN  Denying(e, c, now) # {} /\ Lone(Rules[e][first]) =>
          first \notin Denying(e, c, now + PerSecond * RetryAfter(e, c))
=============================================================================
