-------------------------- MODULE ConnectionProofs ---------------------------
(***************************************************************************)
(* What a connection passes: the token buckets of RateLimiter, for any     *)
(* addresses, buckets, rates, lags and thresholds; and the handshake that   *)
(* sets a session up, for any identities, networks, versions and            *)
(* capabilities.                                                           *)
(***************************************************************************)
EXTENDS RateLimiter, Handshake, TLAPS

TokenBucket == [tokens: Nat, last_refill: Nat]

\* Products distribute, for the solver.
LEMMA Distribute ==
    ASSUME NEW x \in Int, NEW y \in Int, NEW P \in Int
    PROVE  /\ (x + y) * P = x * P + y * P
           /\ (x - y) * P = x * P - y * P
    BY SMT

\* A product grows with its factor.
LEMMA Monotone ==
    ASSUME NEW x \in Int, NEW y \in Int, NEW P \in Nat, x =< y
    PROVE  x * P =< y * P
    BY SMT

\* What the truncated division of refill_at means.
LEMMA Division ==
    ASSUME NEW e \in Nat, NEW P \in Nat, P > 0
    PROVE  /\ e \div P \in Nat
           /\ (e \div P) * P =< e
           /\ e < (e \div P) * P + P
    BY SMT

\* parse_rate_spec yields positive capacities and periods.
LEMMA BucketParameters ==
    ASSUME NEW b \in Buckets
    PROVE  Capacity(b) \in Nat /\ Capacity(b) > 0 /\ Period(b) \in Nat /\ Period(b) > 0
    BY RateAssumption DEF ValidSpec, Capacity, Period, parse_rate_spec

\* A refill at `now` that takes a bucket of capacity C and period P from `tok`
\* tokens and the instant `last` to t and l credits what the clock earned and
\* not more; a bucket that is not full afterwards has less than one token's time
\* outstanding.
Credits(C, P, tok, last, now, t, l) ==
    /\ t \in tok..C
    /\ l \in Nat /\ last =< l
    /\ l = last \/ l =< now
    /\ (t - tok) * P =< l - last
    /\ t = C \/ (t - tok) * P = l - last
    /\ t = C => l >= now
    /\ t < C => l > now - P

\* The clock does not advance: the instant is stale, or no token is due yet.
LEMMA NothingDue ==
    ASSUME NEW C \in Nat, NEW P \in Nat, NEW tok \in 0..C, NEW last \in Nat, NEW now \in Nat,
           P > 0, now =< last \/ (tok < C /\ now - last < P)
    PROVE  Credits(C, P, tok, last, now, tok, last)
<1>1. (tok - tok) * P = 0
  BY SMT
<1> QED
  BY <1>1 DEF Credits

\* A full bucket loses the time that passes: refill_at moves its instant to now.
LEMMA FullForfeits ==
    ASSUME NEW C \in Nat, NEW P \in Nat, NEW last \in Nat, NEW now \in Nat, P > 0, now > last
    PROVE  Credits(C, P, C, last, now, C, now)
<1>1. (C - C) * P = 0
  BY SMT
<1> QED
  BY <1>1 DEF Credits

\* Tokens are due and fit, or fill the bucket.
LEMMA SomeDue ==
    ASSUME NEW C \in Nat, NEW P \in Nat, NEW tok \in 0..C, NEW last \in Nat, NEW now \in Nat,
           P > 0, now > last, tok < C,
           NEW due \in Nat, due * P =< now - last, now - last < due * P + P,
           NEW add \in Nat, add = IF due < C - tok THEN due ELSE C - tok
    PROVE  Credits(C, P, tok, last, now, tok + add,
                   IF now - last > (C - tok) * P THEN now ELSE last + add * P)
<1> DEFINE space == C - tok
           x == space * P
           y == due * P
           z == add * P
<1>1. space \in Nat /\ x \in Nat /\ y \in Nat /\ z \in Nat
  BY SMT
<1>2. (tok + add) - tok = add
  OBVIOUS
<1>3. CASE due < space
  <2>1. add = due /\ (due + 1) * P =< x
    BY <1>1, <1>3, Monotone
  <2>2. z = y /\ y + P =< x
    BY <2>1, SMT
  <2>3. ~(now - last > x)
    BY <2>2, <1>1, SMT
  <2> HIDE DEF x, y, z
  <2>4. Credits(C, P, tok, last, now, tok + add, last + z)
    BY <1>1, <1>2, <1>3, <2>1, <2>2 DEF Credits, z, y
  <2> QED
    BY <2>3, <2>4, Zenon DEF x, z
<1>4. CASE ~(due < space)
  <2>1. add = space /\ x =< y
    BY <1>1, <1>4, Monotone
  <2>2. z = x /\ tok + add = C /\ x =< now - last
    BY <2>1, <1>1, SMT
  <2>3. CASE now - last > x
    <3> HIDE DEF x, y, z
    <3>1. Credits(C, P, tok, last, now, tok + add, now)
      BY <1>1, <1>2, <2>1, <2>2, <2>3 DEF Credits, z
    <3> QED
      BY <3>1, <2>3, Zenon DEF x
  <2>4. CASE ~(now - last > x)
    <3> HIDE DEF x, y, z
    <3>1. Credits(C, P, tok, last, now, tok + add, last + z)
      BY <1>1, <1>2, <2>1, <2>2, <2>4 DEF Credits, z
    <3> QED
      BY <3>1, <2>4, Zenon DEF x, z
  <2> QED
    BY <2>3, <2>4, Zenon
<1> QED
  BY <1>3, <1>4, Zenon

\* refill_at credits what the clock earned.
LEMMA RefillCredits ==
    ASSUME NEW b \in Buckets, NEW k \in TokenBucket, NEW now \in Nat, k.tokens =< Capacity(b)
    PROVE  /\ refill_at(b, k, now) \in TokenBucket
           /\ Credits(Capacity(b), Period(b), k.tokens, k.last_refill, now,
                      refill_at(b, k, now).tokens, refill_at(b, k, now).last_refill)
<1> DEFINE C == Capacity(b)
           P == Period(b)
           r == refill_at(b, k, now)
           space == C - k.tokens
           elapsed == now - k.last_refill
           due == elapsed \div P
           add == IF due < space THEN due ELSE space
<1>1. C \in Nat /\ P \in Nat /\ P > 0 /\ k.tokens \in 0..C /\ k.last_refill \in Nat
  BY BucketParameters DEF TokenBucket
<1>2. r = IF now =< k.last_refill THEN k
          ELSE IF space = 0 THEN [k EXCEPT !.last_refill = now]
          ELSE IF due < 1 THEN k
          ELSE [tokens |-> k.tokens + add,
                last_refill |-> IF elapsed > space * P THEN now ELSE k.last_refill + add * P]
  BY Zenon DEF refill_at
<1> SUFFICES r \in TokenBucket /\ Credits(C, P, k.tokens, k.last_refill, now, r.tokens, r.last_refill)
  BY Zenon
<1> HIDE DEF C, P, r
<1>3. CASE now =< k.last_refill
  BY <1>1, <1>2, <1>3, NothingDue, Zenon
<1>4. CASE now > k.last_refill
  <2>0. elapsed \in Nat /\ ~(now =< k.last_refill)
    BY <1>1, <1>4
  <2>1. due \in Nat /\ due * P =< elapsed /\ elapsed < due * P + P
    <3> HIDE DEF elapsed
    <3> QED BY <2>0, <1>1, Division, Zenon
  <2>2. CASE space = 0
    <3>1. r.tokens = k.tokens /\ r.last_refill = now /\ r \in TokenBucket /\ k.tokens = C
      BY <1>1, <1>2, <2>0, <2>2 DEF TokenBucket
    <3> QED
      BY <3>1, <1>1, <1>4, FullForfeits, Zenon
  <2>3. CASE space # 0 /\ due < 1
    <3>1. r = k
      BY <1>2, <2>0, <2>3, Zenon
    <3>2. due * P = 0
      BY <1>1, <2>1, <2>3, SMT
    <3>3. elapsed < P /\ k.tokens < C
      <4>1. \A z \in Int : z = 0 /\ elapsed < z + P => elapsed < P
        BY <1>1
      <4>2. k.tokens < C
        BY <1>1, <2>3
      <4> HIDE DEF elapsed, due
      <4> QED BY <4>1, <4>2, <3>2, <2>1
    <3> QED
      BY <3>1, <3>3, <1>1, NothingDue, Zenon
  <2>4. CASE space # 0 /\ ~(due < 1)
    <3>1. r = [tokens |-> k.tokens + add,
               last_refill |-> IF elapsed > space * P THEN now ELSE k.last_refill + add * P]
      BY <1>2, <2>0, <2>4, Zenon
    <3>2. add \in Nat /\ k.tokens < C
      BY <1>1, <2>1, <2>4
    <3>3. Credits(C, P, k.tokens, k.last_refill, now, r.tokens, r.last_refill)
      <4> HIDE DEF due
      <4> QED BY <3>1, <3>2, <2>1, <1>1, <1>4, SomeDue, Zenon
    <3>4. r.tokens \in Nat /\ r.last_refill \in Nat
      BY <3>3, <1>1 DEF Credits
    <3> QED
      BY <3>1, <3>3, <3>4, Zenon DEF TokenBucket
  <2> QED
    BY <2>2, <2>3, <2>4, Zenon
<1> QED
  BY <1>1, <1>3, <1>4

(***************************************************************************)
(* The invariant of a bucket.  s[t] is what was taken since t: at most     *)
(* what the burst and the time until last_refill pay for, less the tokens  *)
(* that are left; and for some t, the instant the bucket was full last, at *)
(* least that much.                                                        *)
(***************************************************************************)
Moments == 0..MaxTime

NotMore(b, k, s, T) ==
    \A t \in Moments :
        \/ s[t] = 0
        \/ /\ t =< T
           /\ (s[t] + k.tokens) * Period(b) =< Capacity(b) * Period(b) + (k.last_refill - t) + MaxLag

NotLess(b, k, s, T) ==
    \E t \in 0..T : (s[t] + k.tokens) * Period(b) >= Capacity(b) * Period(b) + (k.last_refill - t)

BucketInv(b, k, s, T) ==
    /\ k \in TokenBucket /\ k.tokens =< Capacity(b) /\ k.last_refill =< T
    /\ NotMore(b, k, s, T) /\ NotLess(b, k, s, T)

Counts == [Moments -> Nat]

\* A refill keeps both bounds.
LEMMA RefillKeeps ==
    ASSUME NEW b \in Buckets, NEW k, NEW s \in Counts, NEW T \in Moments, NEW now \in 0..T,
           BucketInv(b, k, s, T)
    PROVE  BucketInv(b, refill_at(b, k, now), s, T)
<1> DEFINE r == refill_at(b, k, now)
           C == Capacity(b)
           P == Period(b)
           m == C * P
           gained == (r.tokens - k.tokens) * P
<1>1. C \in Nat /\ P \in Nat /\ P > 0 /\ m \in Nat /\ MaxTime \in Nat /\ MaxLag \in Nat
  <2>1. C \in Nat /\ P \in Nat /\ P > 0
    BY BucketParameters, Zenon
  <2>2. m \in Nat
    BY <2>1, SMT
  <2> QED
    BY <2>1, <2>2, RateAssumption, Zenon
<1>2. r \in TokenBucket /\ Credits(C, P, k.tokens, k.last_refill, now, r.tokens, r.last_refill)
  BY RefillCredits, <1>1 DEF BucketInv, Moments
<1> HIDE DEF r, C, P, m
<1>3. k.tokens \in Nat /\ k.last_refill \in Nat /\ r.tokens \in Nat /\ r.last_refill \in Nat
  BY <1>2, Zenon DEF BucketInv, TokenBucket
<1>4. r.tokens =< C /\ r.last_refill =< T
  BY <1>1, <1>2, <1>3 DEF Credits, BucketInv, Moments, C
<1>5. ASSUME NEW n \in Nat
      PROVE  /\ (n + r.tokens) * P \in Int /\ (n + k.tokens) * P \in Int /\ gained \in Int
             /\ (n + r.tokens) * P = (n + k.tokens) * P + gained
  <2>1. n + r.tokens = (n + k.tokens) + (r.tokens - k.tokens)
    BY <1>3
  <2>2. n + k.tokens \in Int /\ r.tokens - k.tokens \in Int /\ P \in Int
    BY <1>3, <1>1
  <2>3. (n + r.tokens) * P = (n + k.tokens) * P + gained
    BY <2>1, <2>2, Distribute
  <2> QED
    BY <2>2, <2>3
<1>6. NotMore(b, r, s, T)
  <2> SUFFICES ASSUME NEW t \in Moments, s[t] # 0
               PROVE  t =< T /\ (s[t] + r.tokens) * P =< m + (r.last_refill - t) + MaxLag
    BY Zenon DEF NotMore, P, C, m
  <2>1. t =< T /\ (s[t] + k.tokens) * P =< m + (k.last_refill - t) + MaxLag
    BY Zenon DEF BucketInv, NotMore, P, C, m
  <2>2. gained =< r.last_refill - k.last_refill
    BY <1>2, Zenon DEF Credits
  <2>3. s[t] \in Nat /\ t \in Nat
    BY DEF Counts, Moments
  <2> HIDE DEF gained
  <2> QED
    BY <1>1, <1>3, <1>5, <2>1, <2>2, <2>3
<1>7. NotLess(b, r, s, T)
  <2>1. CASE r.tokens = C
    <3>1. r.last_refill \in 0..T /\ r.last_refill \in Moments
      BY <1>1, <1>3, <1>4 DEF Moments
    <3>2. s[r.last_refill] \in Nat
      BY <3>1, Zenon DEF Counts
    <3>3. (s[r.last_refill] + r.tokens) * P >= m
      BY <3>2, <2>1, <1>1, Monotone DEF m
    <3> QED
      BY <3>1, <3>3, <1>1, <1>3 DEF NotLess, P, C, m
  <2>2. CASE r.tokens # C
    <3>1. PICK t \in 0..T : (s[t] + k.tokens) * P >= m + (k.last_refill - t)
      BY Zenon DEF BucketInv, NotLess, P, C, m
    <3>2. gained = r.last_refill - k.last_refill
      BY <1>2, <2>2, Zenon DEF Credits
    <3>3. s[t] \in Nat /\ t \in Nat
      BY <1>1 DEF Counts, Moments
    <3>4. (s[t] + r.tokens) * P >= m + (r.last_refill - t)
      <4> HIDE DEF gained
      <4> QED BY <1>1, <1>3, <1>5, <3>1, <3>2, <3>3
    <3> QED
      BY <3>4, Zenon DEF NotLess, P, C, m
  <2> QED
    BY <2>1, <2>2, Zenon
<1> QED
  BY <1>2, <1>4, <1>6, <1>7, Zenon DEF BucketInv, r, C

Instant(T) == {t \in (T - MaxLag)..T : t >= 0}

Counted(s, T) == [t \in Moments |-> IF t =< T THEN s[t] + 1 ELSE s[t]]

\* A token taken from a bucket just refilled moves from the bucket to the
\* account of every interval that is still open.
LEMMA TakeKeeps ==
    ASSUME NEW b \in Buckets, NEW k, NEW s \in Counts, NEW T \in Moments, NEW now \in Instant(T),
           BucketInv(b, k, s, T), NEW r, r = refill_at(b, k, now), r.tokens >= 1
    PROVE  BucketInv(b, take(r), Counted(s, T), T)
<1> DEFINE C == Capacity(b)
           P == Period(b)
           m == C * P
           u == take(r)
           c == Counted(s, T)
<1>1. C \in Nat /\ P \in Nat /\ P > 0 /\ m \in Nat /\ MaxTime \in Nat /\ MaxLag \in Nat
  <2>1. C \in Nat /\ P \in Nat /\ P > 0
    BY BucketParameters, Zenon
  <2>2. m \in Nat
    BY <2>1, SMT
  <2> QED
    BY <2>1, <2>2, RateAssumption, Zenon
<1>2. now \in 0..T /\ now >= T - MaxLag /\ T \in Nat /\ now \in Nat
  BY <1>1 DEF Instant, Moments
<1>3. BucketInv(b, r, s, T)
  BY <1>2, RefillKeeps, Zenon
<1>4. Credits(C, P, k.tokens, k.last_refill, now, r.tokens, r.last_refill)
  BY <1>2, RefillCredits, Zenon DEF BucketInv
<1>5. r.tokens \in Nat /\ r.last_refill \in Nat /\ r.tokens =< C /\ r.last_refill =< T
  BY <1>3, Zenon DEF BucketInv, TokenBucket
<1>6. u \in TokenBucket /\ u.tokens = r.tokens - 1 /\ u.last_refill = r.last_refill
  BY <1>3, <1>5 DEF BucketInv, TokenBucket, take
<1> HIDE DEF C, P, m, u
<1>7. r.tokens * P =< m + (r.last_refill - now)
  <2>1. CASE r.tokens = C
    BY <2>1, <1>1, <1>2, <1>4, <1>5 DEF Credits, m
  <2>2. CASE r.tokens < C
    <3>1. (r.tokens + 1) * P =< m
      BY <2>2, <1>1, <1>5, Monotone DEF m
    <3>2. (r.tokens + 1) * P = r.tokens * P + P
      BY <1>1, <1>5, SMT
    <3>3. r.last_refill > now - P
      BY <2>2, <1>4, Zenon DEF Credits
    <3>4. r.tokens * P \in Int
      BY <1>1, <1>5
    <3> QED
      BY <3>1, <3>2, <3>3, <3>4, <1>1, <1>2, <1>5
  <2> QED
    BY <2>1, <2>2, <1>1, <1>5
<1>8. ASSUME NEW t \in Moments, t =< T
      PROVE  c[t] = s[t] + 1 /\ s[t] \in Nat /\ c[t] + u.tokens = s[t] + r.tokens
  BY <1>5, <1>6, <1>8, SMTT(30) DEF Counted, Counts, Moments
<1>9. NotMore(b, u, c, T)
  <2> SUFFICES ASSUME NEW t \in Moments, c[t] # 0
               PROVE  t =< T /\ (c[t] + u.tokens) * P =< m + (u.last_refill - t) + MaxLag
    BY Zenon DEF NotMore, P, C, m
  <2>1. t =< T
    <3> SUFFICES ASSUME ~(t =< T) PROVE FALSE
      BY Zenon
    <3>1. c[t] = s[t]
      BY Zenon DEF Counted
    <3> QED
      BY <3>1, <1>3, Zenon DEF BucketInv, NotMore
  <2>2. (s[t] + r.tokens) * P =< m + (r.last_refill - t) + MaxLag
    <3>1. CASE s[t] = 0
      <4>1. s[t] + r.tokens = r.tokens /\ r.tokens * P \in Int
        BY <3>1, <1>1, <1>5
      <4>2. t \in Nat
        BY DEF Moments
      <4> QED
        BY <4>1, <4>2, <2>1, <1>1, <1>2, <1>5, <1>7
    <3>2. CASE s[t] # 0
      BY <3>2, <1>3, Zenon DEF BucketInv, NotMore, P, C, m
    <3> QED
      BY <3>1, <3>2, Zenon
  <2> QED
    BY <2>1, <2>2, <1>6, <1>8, Zenon
<1>10. NotLess(b, u, c, T)
  <2>1. PICK t \in 0..T : (s[t] + r.tokens) * P >= m + (r.last_refill - t)
    BY <1>3, Zenon DEF BucketInv, NotLess, P, C, m
  <2>2. t \in Moments /\ t =< T
    BY <1>1, <1>2 DEF Moments
  <2>3. (c[t] + u.tokens) * P >= m + (u.last_refill - t)
    BY <2>1, <2>2, <1>6, <1>8, Zenon
  <2> QED
    BY <2>3, Zenon DEF NotLess, P, C, m
<1> QED
  BY <1>5, <1>6, <1>9, <1>10, <1>1 DEF BucketInv, u, C

\* A new bucket is full; nothing was taken from it.
LEMMA NewKeeps ==
    ASSUME NEW b \in Buckets, NEW s \in Counts, NEW T \in Moments, NEW now \in 0..T,
           \A t \in Moments : s[t] = 0
    PROVE  BucketInv(b, NewBucket(b, now), s, T)
<1> DEFINE k == NewBucket(b, now)
<1>1. k.tokens = Capacity(b) /\ k.last_refill = now /\ k \in TokenBucket
      /\ Capacity(b) \in Nat /\ Period(b) \in Nat /\ now \in Moments
  BY BucketParameters, RateAssumption DEF NewBucket, TokenBucket, Moments
<1>2. NotLess(b, k, s, T)
  <2>1. (s[now] + k.tokens) * Period(b) = Capacity(b) * Period(b)
    BY <1>1
  <2>2. Capacity(b) * Period(b) \in Int
    BY <1>1
  <2> HIDE DEF k
  <2> QED
    BY <2>1, <2>2, <1>1 DEF NotLess, Moments
<1> QED
  BY <1>1, <1>2 DEF BucketInv, NotMore, Moments

\* The clock only opens an interval in which nothing was taken.
LEMMA ClockKeeps ==
    ASSUME NEW b \in Buckets, NEW k, NEW s \in Counts, NEW T \in Moments, BucketInv(b, k, s, T)
    PROVE  BucketInv(b, k, s, T + 1)
<1>1. T \in Nat /\ k.last_refill \in Nat
  BY RateAssumption DEF Moments, BucketInv, TokenBucket
<1>2. NotMore(b, k, s, T + 1)
  BY <1>1 DEF BucketInv, NotMore, Moments
<1>3. NotLess(b, k, s, T + 1)
  BY <1>1 DEF BucketInv, NotLess
<1> QED
  BY <1>1, <1>2, <1>3 DEF BucketInv

(***************************************************************************)
(* The limiter                                                             *)
(***************************************************************************)
OptInstant == Nat \cup {Never}

PeerLimiter == [buckets: [Buckets -> TokenBucket], violation_count: Nat,
                last_violation: OptInstant, banned_until: OptInstant]

\* The buckets of an address agree with its account.
Paid(p, account, T) == \A b \in Buckets : BucketInv(b, p.buckets[b], account[b], T)

\* The counter agrees with the refusals, and the threshold bans.
Earned(p, refusals) ==
    /\ p.violation_count =< Len(refusals)
    /\ p.violation_count >= ban_threshold => p.banned_until # Never

PeerInv(p, account, refusals, T) ==
    /\ p \in PeerLimiter
    /\ p.last_violation \in (0..T) \cup {Never}
    /\ Paid(p, account, T) /\ Earned(p, refusals)

RateInv ==
    /\ time \in Moments
    /\ DOMAIN limiter \subseteq Addrs
    /\ spent \in [Addrs -> [Buckets -> Counts]]
    /\ refused \in [Addrs -> Seq(Nat)]
    /\ \A a \in DOMAIN limiter : PeerInv(limiter[a], spent[a], refused[a], time)
    /\ \A a \in Addrs \ DOMAIN limiter : \A b \in Buckets : \A t \in Moments : spent[a][b][t] = 0

\* The entry a check works on, created if there was none.
LEMMA EntryInv ==
    ASSUME RateInv, NEW a \in Addrs, NEW now \in Instants
    PROVE  PeerInv(peer_entry(a, now), spent[a], refused[a], time)
<1>1. CASE a \in DOMAIN limiter
  BY <1>1, Zenon DEF peer_entry, RateInv
<1>2. CASE a \notin DOMAIN limiter
  <2> DEFINE p == NewPeer(now)
  <2>1. now \in 0..time /\ now \in Nat /\ time \in Moments
    BY RateAssumption DEF Instants, RateInv, Moments
  <2>2. \A b \in Buckets : BucketInv(b, NewBucket(b, now), spent[a][b], time)
    BY <1>2, <2>1, NewKeeps, Zenon DEF RateInv
  <2>3. \A b \in Buckets : NewBucket(b, now) \in TokenBucket
    BY <2>2, Zenon DEF BucketInv
  <2>4. p \in PeerLimiter /\ p.buckets = [b \in Buckets |-> NewBucket(b, now)]
    BY <2>3, Zenon DEF NewPeer, PeerLimiter, OptInstant
  <2>5. Len(refused[a]) \in Nat
    BY DEF RateInv
  <2>6. Earned(p, refused[a])
    BY <2>5, RateAssumption DEF Earned, NewPeer
  <2>7. p.last_violation = Never
    BY Zenon DEF NewPeer
  <2> HIDE DEF p
  <2>8. Paid(p, spent[a], time)
    BY <2>2, <2>4, Zenon DEF Paid
  <2> QED
    BY <1>2, <2>4, <2>6, <2>7, <2>8, Zenon DEF PeerInv, peer_entry, p
<1> QED
  BY <1>1, <1>2, Zenon

\* guard keeps the buckets and clears the counter with an expired ban.
LEMMA GuardKeeps ==
    ASSUME NEW p, NEW account, NEW refusals \in Seq(Nat), NEW T,
           PeerInv(p, account, refusals, T)
    PROVE  PeerInv(guard(p), account, IF p.banned_until = Never THEN refusals ELSE << >>, T)
           /\ guard(p).banned_until = Never /\ guard(p).violation_count < ban_threshold
<1>1. CASE p.banned_until = Never
  BY <1>1, RateAssumption DEF guard, PeerInv, Earned, PeerLimiter
<1>2. CASE p.banned_until # Never
  <2>0. p \in PeerLimiter
    BY Zenon DEF PeerInv
  <2>1. guard(p) = [buckets |-> p.buckets, violation_count |-> 0,
                    last_violation |-> Never, banned_until |-> Never]
    BY <1>2, <2>0, Zenon DEF guard, PeerLimiter
  <2>2. /\ guard(p) \in PeerLimiter /\ guard(p).buckets = p.buckets
        /\ guard(p).violation_count = 0 /\ guard(p).banned_until = Never /\ guard(p).last_violation = Never
    BY <2>0, <2>1 DEF PeerLimiter, OptInstant
  <2>3. Len(<< >>) = 0
    BY Zenon
  <2> QED
    BY <1>2, <2>2, <2>3, RateAssumption DEF PeerInv, Paid, Earned
<1> QED
  BY <1>1, <1>2, Zenon

\* Refilling some buckets of an address keeps its invariant, its violations and its ban.
LEMMA RefillPeerKeeps ==
    ASSUME NEW p, NEW account \in [Buckets -> Counts], NEW refusals, NEW T \in Moments,
           NEW now \in 0..T, NEW S \in SUBSET Buckets, PeerInv(p, account, refusals, T)
    PROVE  /\ PeerInv(Refill(p, S, now), account, refusals, T)
           /\ Refill(p, S, now).violation_count = p.violation_count
           /\ Refill(p, S, now).banned_until = p.banned_until
           /\ Refill(p, S, now).last_violation = p.last_violation
           /\ \A b \in S : Refill(p, S, now).buckets[b] = refill_at(b, p.buckets[b], now)
           /\ \A b \in Buckets \ S : Refill(p, S, now).buckets[b] = p.buckets[b]
<1> DEFINE q == Refill(p, S, now)
           refilled == [b \in Buckets |-> IF b \in S THEN refill_at(b, p.buckets[b], now) ELSE p.buckets[b]]
<1>1. p \in PeerLimiter
  BY Zenon DEF PeerInv
<1>2. q = [buckets |-> refilled, violation_count |-> p.violation_count,
           last_violation |-> p.last_violation, banned_until |-> p.banned_until]
  BY <1>1 DEF Refill, PeerLimiter
<1>3. \A b \in Buckets : BucketInv(b, refilled[b], account[b], T)
  <2> SUFFICES ASSUME NEW b \in Buckets PROVE BucketInv(b, refilled[b], account[b], T)
    BY Zenon
  <2>1. BucketInv(b, p.buckets[b], account[b], T)
    BY Zenon DEF PeerInv, Paid
  <2>2. BucketInv(b, refill_at(b, p.buckets[b], now), account[b], T)
    BY <2>1, RefillKeeps, Zenon
  <2> QED
    BY <2>1, <2>2, Zenon
<1>4. refilled \in [Buckets -> TokenBucket]
  BY <1>3, Zenon DEF BucketInv
<1> HIDE DEF refilled, q
<1>5. q \in PeerLimiter
  BY <1>1, <1>2, <1>4, Zenon DEF PeerLimiter
<1>6. PeerInv(q, account, refusals, T)
  BY <1>2, <1>3, <1>5, Zenon DEF PeerInv, Paid, Earned
<1> QED
  BY <1>2, <1>6 DEF q, refilled

Charge(account, S, T) ==
    [b \in Buckets |-> [t \in 0..MaxTime |->
        IF b \in S /\ t =< T THEN account[b][t] + 1 ELSE account[b][t]]]

\* Taking a token from every charged bucket of an address keeps its invariant, with
\* the admission on its account.
LEMMA TakePeerKeeps ==
    ASSUME NEW p, NEW account \in [Buckets -> Counts], NEW refusals, NEW T \in Moments,
           NEW now \in Instant(T), NEW S \in SUBSET Buckets, PeerInv(p, account, refusals, T),
           Affordable(Refill(p, S, now), S)
    PROVE  /\ PeerInv(Take(Refill(p, S, now), S), Charge(account, S, T), refusals, T)
           /\ Charge(account, S, T) \in [Buckets -> Counts]
<1> DEFINE q == Refill(p, S, now)
           u == Take(q, S)
           left == [b \in Buckets |-> IF b \in S THEN take(q.buckets[b]) ELSE q.buckets[b]]
           charged == Charge(account, S, T)
<1>1. now \in 0..T
  BY RateAssumption DEF Instant, Moments
<1>2. /\ PeerInv(q, account, refusals, T)
      /\ \A b \in S : q.buckets[b] = refill_at(b, p.buckets[b], now)
  BY <1>1, RefillPeerKeeps
<1>3. \A b \in S : q.buckets[b].tokens >= 1
  BY Zenon DEF Affordable
<1> HIDE DEF q
<1>4. q \in PeerLimiter
  BY <1>2, Zenon DEF PeerInv
<1>5. u = [buckets |-> left, violation_count |-> q.violation_count,
           last_violation |-> q.last_violation, banned_until |-> q.banned_until]
  BY <1>4 DEF Take, PeerLimiter
<1>6. \A b \in Buckets : charged[b] = IF b \in S THEN Counted(account[b], T) ELSE account[b]
  <2> SUFFICES ASSUME NEW b \in Buckets
               PROVE  charged[b] = IF b \in S THEN Counted(account[b], T) ELSE account[b]
    BY Zenon
  <2>1. account[b] \in Counts
    BY Zenon
  <2>2. CASE b \in S
    BY <2>2, Zenon DEF Charge, Counted, Moments
  <2>3. CASE b \notin S
    BY <2>1, <2>3, Zenon DEF Charge, Counts, Moments
  <2> QED
    BY <2>2, <2>3, Zenon
<1>7. charged \in [Buckets -> Counts]
  <2>1. \A b \in Buckets : Counted(account[b], T) \in Counts
    <3> SUFFICES ASSUME NEW b \in Buckets, NEW s \in Counts, s = account[b]
                 PROVE  Counted(s, T) \in Counts
      BY Zenon
    <3> QED
      BY DEF Counted, Counts
  <2>2. \A b \in Buckets : charged[b] \in Counts
    BY <1>6, <2>1, Zenon
  <2> QED
    BY <2>2, Zenon DEF Charge
<1>8. \A b \in Buckets : BucketInv(b, left[b], charged[b], T)
  <2> SUFFICES ASSUME NEW b \in Buckets PROVE BucketInv(b, left[b], charged[b], T)
    BY Zenon
  <2>1. CASE b \in S
    <3>1. BucketInv(b, p.buckets[b], account[b], T)
      BY Zenon DEF PeerInv, Paid
    <3>2. BucketInv(b, take(q.buckets[b]), Counted(account[b], T), T)
      BY <1>2, <1>3, <2>1, <3>1, TakeKeeps, Zenon
    <3> QED
      BY <1>6, <2>1, <3>2, Zenon
  <2>2. CASE b \notin S
    BY <1>2, <1>6, <2>2, Zenon DEF PeerInv, Paid
  <2> QED
    BY <2>1, <2>2, Zenon
<1>9. left \in [Buckets -> TokenBucket]
  BY <1>8, Zenon DEF BucketInv
<1> HIDE DEF left, charged, u
<1>10. u \in PeerLimiter
  BY <1>4, <1>5, <1>9, Zenon DEF PeerLimiter
<1>11. PeerInv(u, charged, refusals, T)
  BY <1>2, <1>5, <1>8, <1>10, Zenon DEF PeerInv, Paid, Earned
<1> QED
  BY <1>7, <1>11, Zenon DEF u, q, charged

\* A violation counts one refusal, and the threshold bans.
LEMMA ViolationKeeps ==
    ASSUME NEW p, NEW account, NEW refusals \in Seq(Nat), NEW T \in Moments, NEW now \in 0..T,
           PeerInv(p, account, refusals, T)
    PROVE  PeerInv(record_violation(p, now), account, Append(refusals, now), T)
<1> DEFINE quiet == p.last_violation # Never /\ now - p.last_violation >= ban_window
           count == (IF quiet THEN 0 ELSE p.violation_count) + 1
           until == IF count >= ban_threshold THEN now + ban_duration ELSE p.banned_until
           v == record_violation(p, now)
<1>1. p \in PeerLimiter /\ p.violation_count \in Nat /\ p.banned_until \in OptInstant
      /\ p.violation_count =< Len(refusals)
  BY Zenon DEF PeerInv, PeerLimiter, Earned
<1>2. v = [buckets |-> p.buckets, violation_count |-> count,
           last_violation |-> now, banned_until |-> until]
  <2>1. v = [p EXCEPT !.violation_count = count, !.last_violation = now, !.banned_until = until]
    BY Zenon DEF record_violation
  <2> HIDE DEF v, count, until
  <2> QED
    BY <1>1, <2>1, Zenon DEF PeerLimiter
<1>3. count \in Nat /\ count =< p.violation_count + 1
  BY <1>1
<1> HIDE DEF count
<1>4. until \in OptInstant /\ (count >= ban_threshold => until # Never) /\ now \in Nat
  BY <1>1, RateAssumption DEF OptInstant, Moments
<1>5. Len(Append(refusals, now)) = Len(refusals) + 1 /\ Len(refusals) \in Nat
  BY <1>4
<1> HIDE DEF until, v
<1>6. v \in PeerLimiter
  BY <1>1, <1>2, <1>3, <1>4, Zenon DEF PeerLimiter, OptInstant
<1>7. Earned(v, Append(refusals, now))
  BY <1>1, <1>2, <1>3, <1>4, <1>5 DEF Earned
<1> QED
  BY <1>2, <1>6, <1>7 DEF PeerInv, Paid, v

\* A message is charged to buckets that exist.
LEMMA ChargedBuckets == ASSUME NEW kind PROVE Charged(kind) \in SUBSET Buckets
    BY RateAssumption, Zenon DEF Charged

\* An operation on one address keeps the others' entries and accounts.
LEMMA StoreKeeps ==
    ASSUME RateInv, NEW a \in Addrs, NEW p, NEW account \in [Buckets -> Counts],
           NEW refusals \in Seq(Nat), PeerInv(p, account, refusals, time), Store(a, p),
           spent' = [spent EXCEPT ![a] = account], refused' = [refused EXCEPT ![a] = refusals],
           UNCHANGED time
    PROVE  RateInv'
<1>1. DOMAIN limiter' = DOMAIN limiter \cup {a}
      /\ limiter'[a] = p /\ \A x \in DOMAIN limiter : x # a => limiter'[x] = limiter[x]
  BY Zenon DEF Store
<1>2. spent'[a] = account /\ refused'[a] = refusals
  BY Zenon DEF RateInv
<1>3. \A x \in Addrs : x # a => spent'[x] = spent[x] /\ refused'[x] = refused[x]
  BY Zenon DEF RateInv
<1>4. spent' \in [Addrs -> [Buckets -> Counts]] /\ refused' \in [Addrs -> Seq(Nat)]
  BY Zenon DEF RateInv
<1>5. ASSUME NEW x \in DOMAIN limiter'
      PROVE  PeerInv(limiter'[x], spent'[x], refused'[x], time')
  <2>1. CASE x = a
    BY <1>1, <1>2, <2>1, Zenon
  <2>2. CASE x # a
    BY <1>1, <1>3, <1>5, <2>2, Zenon DEF RateInv
  <2> QED
    BY <2>1, <2>2, Zenon
<1>6. ASSUME NEW x \in Addrs \ DOMAIN limiter'
      PROVE  \A b \in Buckets : \A t \in Moments : spent'[x][b][t] = 0
  BY <1>1, <1>3, <1>6 DEF RateInv
<1>7. time' \in Moments /\ DOMAIN limiter' \subseteq Addrs
  BY <1>1, Zenon DEF RateInv
<1> QED
  BY <1>4, <1>5, <1>6, <1>7, Zenon DEF RateInv

\* The limiter starts without entries.
LEMMA InitRateInv == RateInit => RateInv
<1> SUFFICES ASSUME RateInit PROVE RateInv
  BY Zenon
<1>1. time \in Moments /\ DOMAIN limiter = {} /\ refused \in [Addrs -> Seq(Nat)]
  BY RateAssumption DEF RateInit, Moments
<1>2. [t \in 0..MaxTime |-> 0] \in Counts
  BY Zenon DEF Counts, Moments
<1>3. spent \in [Addrs -> [Buckets -> Counts]]
  BY <1>2, Zenon DEF RateInit
<1>4. \A a \in Addrs : \A b \in Buckets : \A t \in Moments : spent[a][b][t] = 0
  BY Zenon DEF RateInit, Moments
<1> QED
  BY <1>1, <1>3, <1>4, Zenon DEF RateInv

\* The instants a caller may pass.
LEMMA InstantTypes ==
    ASSUME RateInv, NEW now \in Instants
    PROVE  now \in Instant(time) /\ now \in 0..time /\ now \in Nat /\ time \in Moments
    BY RateAssumption DEF Instants, Instant, RateInv, Moments

\* An admitted check keeps the invariant.
LEMMA AdmitKeeps ==
    ASSUME RateInv, NEW a \in Addrs, NEW kind, NEW now \in Instants, Admit(a, kind, now)
    PROVE  RateInv'
<1> DEFINE S == Charged(kind)
           e == peer_entry(a, now)
           g == guard(e)
           u == Take(Refill(g, S, now), S)
<1>1. now \in Instant(time) /\ time \in Moments
  BY InstantTypes, Zenon
<1>2. spent[a] \in [Buckets -> Counts] /\ refused[a] \in Seq(Nat)
  BY Zenon DEF RateInv
<1>3. PeerInv(e, spent[a], refused[a], time)
  BY EntryInv, Zenon
<1>4. Cleared(a, now) \in Seq(Nat) /\ PeerInv(g, spent[a], Cleared(a, now), time)
  <2>1. Cleared(a, now) = IF e.banned_until = Never THEN refused[a] ELSE << >>
    BY Zenon DEF Cleared
  <2> QED
    BY <2>1, <1>2, <1>3, GuardKeeps
<1>5. Affordable(Refill(g, S, now), S) /\ Store(a, u) /\ UNCHANGED time
      /\ spent' = [spent EXCEPT ![a] = Charge(spent[a], S, time)]
      /\ refused' = [refused EXCEPT ![a] = Cleared(a, now)]
  BY Zenon DEF Admit, Charge
<1> HIDE DEF e, g
<1>6. PeerInv(u, Charge(spent[a], S, time), Cleared(a, now), time)
      /\ Charge(spent[a], S, time) \in [Buckets -> Counts]
  BY <1>1, <1>2, <1>4, <1>5, ChargedBuckets, TakePeerKeeps, Zenon
<1> HIDE DEF u, S
<1> QED
  BY <1>4, <1>5, <1>6, StoreKeeps, Zenon

\* A refused check, with its violation and the ban it may bring, keeps the invariant.
LEMMA RefuseKeeps ==
    ASSUME RateInv, NEW a \in Addrs, NEW kind, NEW now \in Instants, Refuse(a, kind, now)
    PROVE  RateInv'
<1> DEFINE S == Charged(kind)
           e == peer_entry(a, now)
           g == guard(e)
           q == Refill(g, S, now)
           v == record_violation(q, now)
           refusals == Append(Cleared(a, now), now)
<1>1. now \in 0..time /\ now \in Nat /\ time \in Moments
  BY InstantTypes, Zenon
<1>2. spent[a] \in [Buckets -> Counts] /\ refused[a] \in Seq(Nat)
  BY Zenon DEF RateInv
<1>3. PeerInv(e, spent[a], refused[a], time)
  BY EntryInv, Zenon
<1>4. Cleared(a, now) \in Seq(Nat) /\ PeerInv(g, spent[a], Cleared(a, now), time)
  <2>1. Cleared(a, now) = IF e.banned_until = Never THEN refused[a] ELSE << >>
    BY Zenon DEF Cleared
  <2> QED
    BY <2>1, <1>2, <1>3, GuardKeeps
<1>5. Store(a, v) /\ UNCHANGED <<time, spent>> /\ refused' = [refused EXCEPT ![a] = refusals]
  BY Zenon DEF Refuse
<1> HIDE DEF e, g
<1>6. PeerInv(q, spent[a], Cleared(a, now), time)
  BY <1>1, <1>2, <1>4, ChargedBuckets, RefillPeerKeeps, Zenon
<1> HIDE DEF q
<1>7. PeerInv(v, spent[a], refusals, time) /\ refusals \in Seq(Nat)
  BY <1>1, <1>4, <1>6, ViolationKeeps
<1>8. spent' = [spent EXCEPT ![a] = spent[a]]
  BY <1>5, Zenon DEF RateInv
<1> HIDE DEF v, refusals
<1> QED
  BY <1>2, <1>5, <1>7, <1>8, StoreKeeps, Zenon

\* A check of a banned address and an explicit ban keep the invariant.
LEMMA BanKeeps ==
    ASSUME RateInv, NEW a \in Addrs, NEW now \in Instants,
           RejectBanned(a, now) \/ ban_at(a, now)
    PROVE  RateInv'
<1> DEFINE e == peer_entry(a, now)
<1>1. now \in Nat /\ ban_duration \in Nat
  BY InstantTypes, RateAssumption, Zenon
<1>2. PeerInv(e, spent[a], refused[a], time)
  BY EntryInv, Zenon
<1>3. spent' = [spent EXCEPT ![a] = spent[a]] /\ refused' = [refused EXCEPT ![a] = refused[a]]
      /\ spent[a] \in [Buckets -> Counts] /\ refused[a] \in Seq(Nat) /\ UNCHANGED time
  BY Zenon DEF RateInv, RejectBanned, ban_at
<1>4. CASE RejectBanned(a, now)
  BY <1>2, <1>3, <1>4, StoreKeeps, Zenon DEF RejectBanned
<1>5. CASE ban_at(a, now)
  <2> DEFINE p == [e EXCEPT !.banned_until = now + ban_duration]
  <2> HIDE DEF e
  <2>1. e \in PeerLimiter
    BY <1>2, Zenon DEF PeerInv
  <2>2. now + ban_duration \in Nat
    BY <1>1
  <2>3. p = [buckets |-> e.buckets, violation_count |-> e.violation_count,
             last_violation |-> e.last_violation, banned_until |-> now + ban_duration]
    BY <2>1 DEF PeerLimiter
  <2> HIDE DEF p
  <2>4. p \in PeerLimiter
    BY <2>1, <2>2, <2>3, Zenon DEF PeerLimiter, OptInstant
  <2>5. p.banned_until # Never
    BY <2>2, <2>3, RateAssumption, Zenon
  <2>6. PeerInv(p, spent[a], refused[a], time)
    BY <1>2, <2>3, <2>4, <2>5, Zenon DEF PeerInv, Paid, Earned
  <2>7. Store(a, p)
    BY <1>5, Zenon DEF ban_at, p, e
  <2> QED
    BY <1>3, <2>6, <2>7, StoreKeeps, Zenon
<1> QED
  BY <1>4, <1>5, Zenon

\* Every operation of the limiter and every step of the clock keeps the invariant.
LEMMA NextRateInv == RateInv /\ [RateNext]_rate_vars => RateInv'
<1> SUFFICES ASSUME RateInv, [RateNext]_rate_vars PROVE RateInv'
  BY Zenon
<1>1. CASE RateClock
  <2>1. time' = time + 1 /\ time' \in Moments /\ time \in Moments /\ UNCHANGED <<limiter, spent, refused>>
    BY <1>1, RateAssumption DEF RateClock, RateInv, Moments
  <2>2. ASSUME NEW a \in DOMAIN limiter
        PROVE  PeerInv(limiter[a], spent[a], refused[a], time + 1)
    <3>1. PeerInv(limiter[a], spent[a], refused[a], time) /\ spent[a] \in [Buckets -> Counts]
      BY Zenon DEF RateInv
    <3>2. Paid(limiter[a], spent[a], time + 1)
      BY <2>1, <3>1, ClockKeeps, Zenon DEF PeerInv, Paid
    <3>3. (0..time) \subseteq (0..time + 1)
      BY <2>1, RateAssumption DEF Moments
    <3> QED
      BY <3>1, <3>2, <3>3, Zenon DEF PeerInv
  <2> QED
    BY <2>1, <2>2 DEF RateInv
<1>2. ASSUME NEW a \in Addrs, NEW now \in Instants,
             RejectBanned(a, now) \/ ban_at(a, now)
      PROVE  RateInv'
  BY <1>2, BanKeeps, Zenon
<1>3. ASSUME NEW a \in Addrs, NEW now \in Instants, NEW kind \in Kinds,
             Admit(a, kind, now) \/ Refuse(a, kind, now)
      PROVE  RateInv'
  BY <1>3, AdmitKeeps, RefuseKeeps, Zenon
<1>4. CASE UNCHANGED rate_vars
  BY <1>4 DEF rate_vars, RateInv, PeerInv, Paid, BucketInv, NotMore, NotLess
<1> QED
  BY <1>1, <1>2, <1>3, <1>4, Zenon DEF RateNext

\* The invariant holds of every behaviour of the limiter.
LEMMA RateInvariant == RateSpec => []RateInv
  BY InitRateInv, NextRateInv, PTL DEF RateSpec

\* The types of the limiter for every instance: no bucket of rate_limiter.rs ever
\* holds more than its capacity or a refill instant ahead of the clock.
THEOREM RateTypes == RateSpec => []RateTypeOK
<1>1. RateInv => RateTypeOK
  <2> SUFFICES ASSUME RateInv PROVE RateTypeOK
    BY Zenon
  <2>1. ASSUME NEW a \in DOMAIN limiter
        PROVE  /\ \A b \in Buckets : /\ limiter[a].buckets[b].tokens \in 0..Capacity(b)
                                     /\ limiter[a].buckets[b].last_refill \in 0..time
               /\ limiter[a].violation_count \in Nat
               /\ limiter[a].last_violation \in (0..time) \cup {Never}
               /\ limiter[a].banned_until \in Nat \cup {Never}
    <3>1. PeerInv(limiter[a], spent[a], refused[a], time)
      BY Zenon DEF RateInv
    <3>2. time \in Nat
      BY RateAssumption DEF RateInv, Moments
    <3>3. ASSUME NEW b \in Buckets
          PROVE  /\ limiter[a].buckets[b].tokens \in 0..Capacity(b)
                 /\ limiter[a].buckets[b].last_refill \in 0..time
      BY <3>1, <3>2, BucketParameters DEF PeerInv, Paid, BucketInv, TokenBucket
    <3>4. /\ limiter[a].violation_count \in Nat
          /\ limiter[a].last_violation \in (0..time) \cup {Never}
          /\ limiter[a].banned_until \in Nat \cup {Never}
      BY <3>1, Zenon DEF PeerInv, PeerLimiter, OptInstant
    <3> QED
      BY <3>3, <3>4, Zenon
  <2>2. time \in 0..MaxTime /\ DOMAIN limiter \subseteq Addrs
        /\ spent \in [Addrs -> [Buckets -> [0..MaxTime -> Nat]]]
    BY Zenon DEF RateInv, Moments, Counts
  <2> QED
    BY <2>1, <2>2, Zenon DEF RateTypeOK
<1> QED
  BY <1>1, RateInvariant, PTL

\* ADR-0023's promise for every rate, lag and schedule of checks: over every
\* interval an address is admitted at most burst plus rate times length.
THEOREM AdmissionWithinRate == RateSpec => []WithinRate
<1>1. RateInv => WithinRate
  <2> SUFFICES ASSUME RateInv, NEW a \in Addrs, NEW b \in Buckets, NEW t \in 0..time
               PROVE  spent[a][b][t] * Period(b) =< Capacity(b) * Period(b) + (time - t) + MaxLag
    BY Zenon DEF WithinRate
  <2> DEFINE n == spent[a][b][t]
             P == Period(b)
             m == Capacity(b) * Period(b)
  <2>1. time \in Nat /\ MaxLag \in Nat /\ t \in Moments /\ t \in Nat /\ t =< time
    BY RateAssumption DEF RateInv, Moments
  <2>2. n \in Nat /\ P \in Nat /\ m \in Nat /\ n * P \in Nat
    <3>1. n \in Nat /\ P \in Nat /\ Capacity(b) \in Nat
      BY <2>1, BucketParameters DEF RateInv, Counts
    <3> QED
      BY <3>1, SMT
  <2>3. CASE n = 0
    BY <2>1, <2>2, <2>3, SMT
  <2>4. CASE n # 0
    <3>1. a \in DOMAIN limiter
      BY <2>1, <2>4, Zenon DEF RateInv
    <3> DEFINE k == limiter[a].buckets[b]
    <3>2. BucketInv(b, k, spent[a][b], time)
      BY <3>1, Zenon DEF RateInv, PeerInv, Paid
    <3>3. k.tokens \in Nat /\ k.last_refill \in Nat /\ k.last_refill =< time
          /\ (n + k.tokens) * P =< m + (k.last_refill - t) + MaxLag
      BY <2>1, <2>4, <3>2, Zenon DEF BucketInv, NotMore, TokenBucket
    <3> HIDE DEF n, P, m, k
    <3>4. n * P =< (n + k.tokens) * P
      BY <2>2, <3>3, Monotone
    <3>5. (n + k.tokens) * P \in Int
      BY <2>2, <3>3
    <3>6. n * P =< m + (time - t) + MaxLag
      BY <2>1, <2>2, <3>3, <3>4, <3>5
    <3> QED
      BY <3>6, Zenon DEF n, P, m
  <2> QED
    BY <2>3, <2>4, Zenon
<1> QED
  BY <1>1, RateInvariant, PTL

\* Whatever bans, refusals and explicit bans interleave, a ban of the limiter is
\* earned by ban_threshold refusals since the last one ended.
THEOREM BansAreEarned == RateSpec => []BansEarned
<1>1. RateInv => BansEarned
  BY Zenon DEF RateInv, PeerInv, Earned, BansEarned
<1> QED
  BY <1>1, RateInvariant, PTL

\* Admitting a message would take bucket b of address a over burst plus rate in
\* the interval since t.
Exceeds(a, b, t) ==
    (spent[a][b][t] + 1) * Period(b) > Capacity(b) * Period(b) + (time - t) - MaxLag

\* A bucket that is empty right after its refill was emptied within its rate.
LEMMA EmptyExceeds ==
    ASSUME RateInv, NEW a \in Addrs, NEW b \in Buckets, NEW now \in Instants, NEW k,
           BucketInv(b, k, spent[a][b], time), refill_at(b, k, now).tokens < 1
    PROVE  \E t \in 0..time : Exceeds(a, b, t)
<1> DEFINE r == refill_at(b, k, now)
           C == Capacity(b)
           P == Period(b)
           m == C * P
<1>1. C \in Nat /\ C > 0 /\ P \in Nat /\ P > 0 /\ m \in Nat /\ MaxLag \in Nat
  <2>1. C \in Nat /\ C > 0 /\ P \in Nat /\ P > 0
    BY BucketParameters, Zenon
  <2> QED
    BY <2>1, RateAssumption, SMT
<1>2. now \in 0..time /\ now >= time - MaxLag /\ time \in Moments /\ time \in Nat /\ now \in Nat
  BY InstantTypes, RateAssumption DEF Instants, Moments
<1>3. spent[a][b] \in Counts
  BY Zenon DEF RateInv
<1>4. BucketInv(b, r, spent[a][b], time)
  BY <1>2, <1>3, RefillKeeps, Zenon
<1>5. Credits(C, P, k.tokens, k.last_refill, now, r.tokens, r.last_refill)
  BY <1>2, RefillCredits, Zenon DEF BucketInv
<1>6. r.tokens = 0 /\ r.last_refill \in Nat
  BY <1>4 DEF BucketInv, TokenBucket
<1>7. r.last_refill > now - P
  BY <1>1, <1>5, <1>6, Zenon DEF Credits
<1>8. PICK t \in 0..time : (spent[a][b][t] + r.tokens) * P >= m + (r.last_refill - t)
  BY <1>4, Zenon DEF BucketInv, NotLess
<1> DEFINE n == spent[a][b][t]
<1>9. n \in Nat /\ t \in Nat
  <2>1. t \in Moments /\ t \in Nat
    BY <1>2, RateAssumption DEF Moments
  <2> QED
    BY <2>1, <1>3, Zenon DEF Counts
<1> HIDE DEF r, C, P, m, n
<1>10. n * P >= m + (r.last_refill - t)
  BY <1>6, <1>8, <1>9 DEF n
<1>11. (n + 1) * P = n * P + P /\ n * P \in Int
  BY <1>1, <1>9, SMT
<1>12. (n + 1) * P > m + (time - t) - MaxLag
  BY <1>1, <1>2, <1>6, <1>7, <1>9, <1>10, <1>11
<1> QED
  BY <1>12, Zenon DEF Exceeds, n, P, m, C

\* No false refusals for any rate and schedule of checks: rate_limiter.rs refuses
\* only what would exceed the burst and the rate of some bucket.
THEOREM RefusalsAreJustified == RateSpec => RefusalsJustified
<1> DEFINE justified(a) == Len(refused'[a]) > Len(refused[a]) =>
                              \E b \in Buckets : \E t \in 0..time : Exceeds(a, b, t)
<1>1. RateInv /\ [RateNext]_rate_vars => [\A a \in Addrs : justified(a)]_rate_vars
  <2> SUFFICES ASSUME RateInv, RateNext, NEW a \in Addrs, Len(refused'[a]) > Len(refused[a])
               PROVE  \E b \in Buckets : \E t \in 0..time : Exceeds(a, b, t)
    BY Zenon
  <2>0. Len(refused[a]) \in Nat /\ Len(<< >>) = 0 /\ refused \in [Addrs -> Seq(Nat)]
    BY DEF RateInv
  <2>1. refused'[a] # refused[a]
    BY <2>0
  <2>2. PICK x \in Addrs, now \in Instants, kind \in Kinds :
             Admit(x, kind, now) \/ Refuse(x, kind, now)
    BY <2>1, ZenonT(30) DEF RateNext, RateClock, RejectBanned, ban_at
  <2>3. ~Admit(x, kind, now)
    <3> SUFFICES ASSUME Admit(x, kind, now) PROVE FALSE
      BY Zenon
    <3>1. refused' = [refused EXCEPT ![x] = Cleared(x, now)]
      BY Zenon DEF Admit
    <3>2. Cleared(x, now) = refused[x] \/ Cleared(x, now) = << >>
      BY Zenon DEF Cleared
    <3> QED
      BY <2>0, <3>1, <3>2
  <2>4. Refuse(x, kind, now)
    BY <2>2, <2>3, Zenon
  <2>5. x = a
    BY <2>0, <2>1, <2>4, Zenon DEF Refuse
  <2> DEFINE S == Charged(kind)
             g == guard(peer_entry(a, now))
  <2>6. PeerInv(peer_entry(a, now), spent[a], refused[a], time)
        /\ spent[a] \in [Buckets -> Counts] /\ refused[a] \in Seq(Nat)
    BY EntryInv, Zenon DEF RateInv
  <2>7. \E refusals : PeerInv(g, spent[a], refusals, time)
    BY <2>6, GuardKeeps, ZenonT(30)
  <2>8. PICK b \in S : ~(Refill(g, S, now).buckets[b].tokens >= 1)
    BY <2>4, <2>5, Zenon DEF Refuse, Affordable
  <2>9. b \in Buckets /\ S \in SUBSET Buckets /\ now \in 0..time /\ time \in Moments
    BY ChargedBuckets, InstantTypes, Zenon
  <2> HIDE DEF g, S
  <2>10. Refill(g, S, now).buckets[b] = refill_at(b, g.buckets[b], now)
    BY <2>6, <2>7, <2>8, <2>9, RefillPeerKeeps, ZenonT(30)
  <2>11. BucketInv(b, g.buckets[b], spent[a][b], time)
    BY <2>7, <2>9, Zenon DEF PeerInv, Paid
  <2>12. refill_at(b, g.buckets[b], now).tokens \in Nat
    BY <2>6, <2>9, <2>11, RefillKeeps, Zenon DEF BucketInv, TokenBucket
  <2>13. refill_at(b, g.buckets[b], now).tokens < 1
    BY <2>8, <2>10, <2>12
  <2> QED
    BY <2>9, <2>11, <2>13, EmptyExceeds, Zenon
<1>2. RateSpec => [][\A a \in Addrs : justified(a)]_rate_vars
  BY <1>1, RateInvariant, PTL DEF RateSpec
<1> QED
  BY <1>2, Zenon DEF RefusalsJustified, Exceeds

(***************************************************************************)
(* The handshake: both sides agree on the session they register.           *)
(***************************************************************************)
\* A side that neither failed nor closed.
Live(r) == hs[r].pc \notin {"failed", "closed"}

\* The messages a side has written and read when it is at a stage.
PutAt(r, pc) ==
    IF r = "initiator"
    THEN CASE pc = "round1" -> 0 [] pc \in {"round2", "round3"} -> 1
           [] pc \in {"admission", "hello"} -> 2 [] OTHER -> 3
    ELSE CASE pc \in {"round1", "round2"} -> 0 [] pc \in {"round3", "admission", "hello"} -> 1
           [] OTHER -> 2
GotAt(r, pc) ==
    IF r = "initiator"
    THEN CASE pc \in {"round1", "round2"} -> 0
           [] pc \in {"round3", "admission", "hello", "await hello"} -> 1 [] OTHER -> 2
    ELSE CASE pc = "round1" -> 0 [] pc \in {"round2", "round3"} -> 1
           [] pc \in {"admission", "hello"} -> 2 [] OTHER -> 3

\* What the n-th message of a side is, as far as the other side relies on it: the
\* second of the initiator and the first of the responder are signed, the last is
\* the HELLO.
SignedBy(m, id) == m.auth # << >> /\ Head(m.auth).signer = id
Sent(o, n, m) ==
    IF o = "initiator"
    THEN (n = 2 => SignedBy(m, who[o].id)) /\ (n = 3 => m = Hello(o))
    ELSE (n = 1 => SignedBy(m, who[o].id)) /\ (n = 2 => m = Hello(o))

\* The round a side is in decides whether it signs and whether it verifies.
RoundsOK(r) ==
    IF r = "initiator"
    THEN /\ hs[r].pc \in {"round1", "round2", "round3", "admission", "hello", "await hello",
                          "registered"}
         /\ hs[r].pc = "round1" => hs[r].writes = 0
         /\ hs[r].pc \in {"round2", "round3"} => hs[r].writes = 1
         /\ hs[r].pc \in {"round1", "round2"} => hs[r].reads = 0
    ELSE /\ hs[r].pc \in {"round1", "round2", "round3", "admission", "hello", "registered"}
         /\ hs[r].pc \in {"round1", "round2"} => hs[r].writes = 0
         /\ hs[r].pc = "round1" => hs[r].reads = 0
         /\ hs[r].pc \in {"round2", "round3"} => hs[r].reads = 1

\* A side past its verification has the identity of the other end.
Unverified(r) == IF r = "initiator" THEN {"round1", "round2"} ELSE {"round1", "round2", "round3"}
Verified(r) ==
    hs[r].pc \notin Unverified(r) =>
        hs[r].peer = who[Other(r)].id /\ who[r].expected \in {NoNode, hs[r].peer}

\* SessionsAgree, for one side.
Agrees(r) ==
    hs[r].pc = "registered" =>
        /\ hs[r].peer = who[Other(r)].id
        /\ who[r].expected \in {NoNode, hs[r].peer}
        /\ hs[r].peer # who[r].id
        /\ who[Other(r)].network = who[r].network /\ who[Other(r)].version >= MIN_PROTO_VERSION
        /\ hs[r].caps = who["initiator"].caps \cap who["responder"].caps

\* A line holds, in order, the messages the other side has written and this side has
\* not read, up to the end of file that follows the other side's end.
Flight(o, got, s) == \A q \in 1..Len(s) : s[q] = Eof \/ Sent(o, got + q, s[q])
InFlight(r) ==
    /\ Live(Other(r)) => Len(line[r]) + GotAt(r, hs[r].pc) = PutAt(Other(r), hs[Other(r)].pc)
    /\ Flight(Other(r), GotAt(r, hs[r].pc), line[r])

\* The invariant, for a side that is still in the handshake or in the session.
SideOK(r) == Live(r) => RoundsOK(r) /\ Verified(r) /\ Agrees(r) /\ InFlight(r)

\* A sequence, of whatever.
Sequence(s) == \E S : s \in Seq(S)
Fields == {"pc", "transcript", "reads", "writes", "peer", "caps", "violation"}
HandshakeShape ==
    /\ DOMAIN hs = Roles /\ DOMAIN line = Roles
    /\ \A r \in Roles : DOMAIN hs[r] = Fields /\ Sequence(line[r])

\* The inductive invariant: the agreement needs the messages in flight, since a side
\* relies on what the other one wrote some steps before.
HandshakeInv == HandshakeShape /\ \A r \in Roles : SideOK(r)

(***************************************************************************)
(* Lines                                                                   *)
(***************************************************************************)
\* The tables count messages.
LEMMA TablesCount ==
    ASSUME NEW r \in Roles, NEW pc
    PROVE  PutAt(r, pc) \in Nat /\ GotAt(r, pc) \in Nat
  BY Zenon DEF PutAt, GotAt, Roles

\* A session has two ends.
LEMMA Ends ==
    ASSUME NEW r \in Roles
    PROVE  Other(r) \in Roles /\ Other(r) # r /\ Other(Other(r)) = r /\ \A u \in Roles : u = r \/ u = Other(r)
  BY Zenon DEF Roles, Other

\* An empty line promises nothing.
LEMMA NothingSent == ASSUME NEW o, NEW got PROVE Sequence(<< >>) /\ Flight(o, got, << >>)
  BY DEF Sequence, Flight

\* A line with one more message at its end.
LEMMA MoreSent ==
    ASSUME NEW o, NEW got \in Nat, NEW s, Sequence(s), NEW m
    PROVE  /\ Len(s) \in Nat /\ Sequence(Append(s, m)) /\ Len(Append(s, m)) = Len(s) + 1
           /\ Flight(o, got, s) /\ (m = Eof \/ Sent(o, got + Len(s) + 1, m))
                  => Flight(o, got, Append(s, m))
<1>1. PICK S : s \in Seq(S)
  BY Zenon DEF Sequence
<1>2. PICK T : T = S \cup {m}
  BY Zenon
<1>3. s \in Seq(T) /\ m \in T
  <2>1. s \in [1..Len(s) -> S] /\ Len(s) \in Nat
    BY <1>1
  <2>2. s \in [1..Len(s) -> T]
    BY <1>2, <2>1, Zenon
  <2>. QED  BY <1>2, <2>1, <2>2
<1>4. /\ Len(s) \in Nat /\ Append(s, m) \in Seq(T) /\ Len(Append(s, m)) = Len(s) + 1
      /\ Append(s, m)[Len(s) + 1] = m /\ \A q \in 1..Len(s) : Append(s, m)[q] = s[q]
  BY <1>3
<1>5. ASSUME Flight(o, got, s), m = Eof \/ Sent(o, got + Len(s) + 1, m), NEW q \in 1..(Len(s) + 1)
      PROVE  Append(s, m)[q] = Eof \/ Sent(o, got + q, Append(s, m)[q])
  <2>1. CASE q = Len(s) + 1
    <3>1. got + q = got + Len(s) + 1
      BY <1>4, <2>1
    <3>. QED  BY <1>4, <1>5, <2>1, <3>1, Zenon
  <2>2. CASE q # Len(s) + 1
    <3>1. q \in 1..Len(s)
      BY <1>4, <2>2
    <3>. QED  BY <1>4, <1>5, <3>1, Zenon DEF Flight
  <2>. QED  BY <2>1, <2>2, Zenon
<1>. QED  BY <1>4, <1>5, Zenon DEF Flight, Sequence

\* The head of a line is the next message of the other side; the rest follows it.
LEMMA OneRead ==
    ASSUME NEW o, NEW got \in Nat, NEW s, Sequence(s), s # << >>, Flight(o, got, s)
    PROVE  /\ Len(s) \in Nat /\ Sequence(Tail(s)) /\ Len(Tail(s)) + 1 = Len(s)
           /\ Flight(o, got + 1, Tail(s)) /\ (Head(s) = Eof \/ Sent(o, got + 1, Head(s)))
<1>1. PICK S : s \in Seq(S)
  BY Zenon DEF Sequence
<1>2. /\ Len(s) \in Nat /\ Len(s) >= 1 /\ Tail(s) \in Seq(S) /\ Len(Tail(s)) + 1 = Len(s)
      /\ Head(s) = s[1] /\ \A q \in 1..Len(Tail(s)) : Tail(s)[q] = s[q + 1]
  BY <1>1
<1>3. Head(s) = Eof \/ Sent(o, got + 1, Head(s))
  BY <1>2 DEF Flight
<1>4. ASSUME NEW q \in 1..Len(Tail(s))
      PROVE  Tail(s)[q] = Eof \/ Sent(o, (got + 1) + q, Tail(s)[q])
  <2>1. q + 1 \in 1..Len(s) /\ got + (q + 1) = (got + 1) + q
    BY <1>2
  <2>. QED  BY <1>2, <2>1, Zenon DEF Flight
<1>. QED  BY <1>2, <1>3, <1>4, Zenon DEF Flight, Sequence

(***************************************************************************)
(* Steps                                                                   *)
(***************************************************************************)
\* A step of one side: its own facts, and what comes to the other, are all that can change.
LEMMA SideStep ==
    ASSUME HandshakeInv, NEW r \in Roles, who' = who, NEW side, DOMAIN side = Fields,
           hs' = [hs EXCEPT ![r] = side], DOMAIN line' = Roles, \A u \in Roles : Sequence(line'[u]),
           SideOK(r)', Live(Other(r)) => InFlight(Other(r))'
    PROVE  HandshakeInv'
<1>. DEFINE o == Other(r)
<1>1. o \in Roles /\ o # r /\ \A u \in Roles : u = r \/ u = o
  BY Ends, Zenon
<1>2. DOMAIN hs = Roles /\ DOMAIN hs[o] = Fields
  BY <1>1, Zenon DEF HandshakeInv, HandshakeShape
<1>. HIDE DEF o
<1>3. DOMAIN hs' = Roles /\ hs'[r] = side /\ hs'[o] = hs[o]
  BY <1>1, <1>2, Zenon
<1>4. HandshakeShape'
  BY <1>1, <1>2, <1>3, Zenon DEF HandshakeShape
<1>5. SideOK(o)'
  <2>1. SideOK(o)
    BY <1>1, Zenon DEF HandshakeInv
  <2>2. Live(o)' = Live(o) /\ RoundsOK(o)' = RoundsOK(o) /\ Verified(o)' = Verified(o) /\ Agrees(o)' = Agrees(o)
    BY <1>3, Zenon DEF Live, RoundsOK, Verified, Agrees
  <2>3. Live(o) => InFlight(o)'
    BY Zenon DEF o
  <2>. QED  BY <2>1, <2>2, <2>3, Zenon DEF SideOK
<1>. QED  BY <1>1, <1>4, <1>5, Zenon DEF HandshakeInv

\* What the invariant says of one side.
LEMMA Shape ==
    ASSUME HandshakeInv, NEW r \in Roles
    PROVE  /\ DOMAIN hs = Roles /\ DOMAIN line = Roles /\ DOMAIN hs[r] = Fields /\ Sequence(line[r])
           /\ SideOK(r)
  BY Zenon DEF HandshakeInv, HandshakeShape

\* What a message must be depends on the identities alone.
LEMMA SameSent ==
    ASSUME who' = who
    PROVE  \A o, n, m : Sent(o, n, m)' = Sent(o, n, m)
  BY DEF Sent, SignedBy, Hello

\* So does what may be on a line.
LEMMA SameFlight ==
    ASSUME who' = who
    PROVE  \A o, got, s : Flight(o, got, s)' = Flight(o, got, s)
  BY SameSent, Zenon DEF Flight

\* A step of a live side changes what it is still to receive and what it has sent.
Receives(r, side, took) ==
    /\ Sequence(took) /\ Flight(Other(r), GotAt(r, side.pc), took)
    /\ Len(took) + GotAt(r, side.pc) = Len(line[r]) + GotAt(r, hs[r].pc)
Sends(r, side, gave) ==
    /\ Sequence(gave)
    /\ Live(Other(r)) =>
          /\ Flight(r, GotAt(Other(r), hs[Other(r)].pc), gave)
          /\ Len(gave) + GotAt(Other(r), hs[Other(r)].pc) = PutAt(r, side.pc)

\* Nothing is read, or the head of the line is.
LEMMA Received ==
    ASSUME HandshakeInv, NEW r \in Roles, Live(r), NEW side
    PROVE  /\ GotAt(r, side.pc) = GotAt(r, hs[r].pc) => Receives(r, side, line[r])
           /\ line[r] # << >> /\ GotAt(r, side.pc) = GotAt(r, hs[r].pc) + 1 => Receives(r, side, Tail(line[r]))
<1>1. Sequence(line[r]) /\ Flight(Other(r), GotAt(r, hs[r].pc), line[r])
  BY Shape, Zenon DEF SideOK, InFlight
<1>2. PICK got : got = GotAt(r, hs[r].pc)
  BY Zenon
<1>3. got \in Nat
  BY <1>2, TablesCount, Zenon
<1>4. GotAt(r, side.pc) = got => Receives(r, side, line[r])
  BY <1>1, <1>2, Zenon DEF Receives
<1>5. ASSUME line[r] # << >>, GotAt(r, side.pc) = got + 1 PROVE Receives(r, side, Tail(line[r]))
  <2>1. PICK rest : rest = Tail(line[r])
    BY Zenon
  <2>2. /\ Sequence(rest) /\ Len(rest) + 1 = Len(line[r])
        /\ Flight(Other(r), got + 1, rest)
    BY <1>1, <1>2, <1>3, <1>5, <2>1, OneRead, Zenon
  <2>3. Len(rest) \in Nat
    BY <2>2 DEF Sequence
  <2>4. Len(rest) + (got + 1) = Len(line[r]) + got
    BY <1>3, <2>2, <2>3
  <2>. QED  BY <1>2, <1>5, <2>1, <2>2, <2>4, Zenon DEF Receives
<1>. QED  BY <1>2, <1>4, <1>5, Zenon

\* Nothing is written, or the next message is.
LEMMA Given ==
    ASSUME HandshakeInv, NEW r \in Roles, Live(r), NEW side, NEW m
    PROVE  /\ PutAt(r, side.pc) = PutAt(r, hs[r].pc) => Sends(r, side, line[Other(r)])
           /\ PutAt(r, side.pc) = PutAt(r, hs[r].pc) + 1 /\ Sent(r, PutAt(r, side.pc), m)
                  => Sends(r, side, Append(line[Other(r)], m))
<1>. DEFINE o == Other(r)
<1>1. o \in Roles /\ Other(o) = r
  BY Ends, Zenon
<1>2. Sequence(line[o]) /\ SideOK(o)
  BY <1>1, Shape, Zenon
<1>3. Live(o) => Flight(r, GotAt(o, hs[o].pc), line[o]) /\ Len(line[o]) + GotAt(o, hs[o].pc) = PutAt(r, hs[r].pc)
  BY <1>1, <1>2, Zenon DEF SideOK, InFlight
<1>4. PICK got : got = GotAt(o, hs[o].pc)
  BY Zenon
<1>5. got \in Nat
  BY <1>1, <1>4, TablesCount, Zenon
<1>6. PutAt(r, side.pc) = PutAt(r, hs[r].pc) => Sends(r, side, line[o])
  BY <1>2, <1>3, Zenon DEF Sends
<1>. HIDE DEF o
<1>7. ASSUME PutAt(r, side.pc) = PutAt(r, hs[r].pc) + 1, Sent(r, PutAt(r, side.pc), m)
      PROVE  Sends(r, side, Append(line[o], m))
  <2>1. /\ Len(line[o]) \in Nat /\ Sequence(Append(line[o], m)) /\ Len(Append(line[o], m)) = Len(line[o]) + 1
        /\ Flight(r, got, line[o]) /\ Sent(r, got + Len(line[o]) + 1, m) => Flight(r, got, Append(line[o], m))
    BY <1>2, <1>5, MoreSent, Zenon
  <2>2. ASSUME Live(o) PROVE Flight(r, got, Append(line[o], m)) /\ Len(Append(line[o], m)) + got = PutAt(r, side.pc)
    <3>1. Flight(r, got, line[o]) /\ Len(line[o]) + got = PutAt(r, hs[r].pc)
      BY <1>3, <1>4, <2>2, Zenon
    <3>2. got + Len(line[o]) + 1 = PutAt(r, side.pc)
      BY <1>5, <1>7, <2>1, <3>1
    <3>. QED  BY <1>5, <1>7, <2>1, <3>1, <3>2
  <2>. QED  BY <1>4, <2>1, <2>2, Zenon DEF Sends, o
<1>. QED  BY <1>6, <1>7, Zenon DEF o

\* A live side reads and writes as the two predicates allow and stays live.
LEMMA Moved ==
    ASSUME HandshakeInv, NEW r \in Roles, who' = who, NEW side, DOMAIN side = Fields,
           hs' = [hs EXCEPT ![r] = side], Live(r), side.pc \notin {"failed", "closed"},
           RoundsOK(r)', Verified(r)', Agrees(r)',
           DOMAIN line' = Roles, Receives(r, side, line'[r]), Sends(r, side, line'[Other(r)])
    PROVE  HandshakeInv'
<1>. DEFINE o == Other(r)
<1>1. o \in Roles /\ o # r /\ Other(o) = r /\ \A u \in Roles : u = r \/ u = o
  BY Ends, Zenon
<1>2. DOMAIN hs = Roles /\ SideOK(r)
  BY Shape, Zenon
<1>. HIDE DEF o
<1>3. hs'[r] = side /\ hs'[o] = hs[o]
  BY <1>1, <1>2, Zenon
<1>4. Live(o)' = Live(o)
  BY <1>3, Zenon DEF Live
<1>5. InFlight(r)'
  <2>1. Live(o) => Len(line[r]) + GotAt(r, hs[r].pc) = PutAt(o, hs[o].pc)
    BY <1>2, Zenon DEF SideOK, InFlight, o
  <2>2. /\ Flight(o, GotAt(r, side.pc), line'[r])
        /\ Len(line'[r]) + GotAt(r, side.pc) = Len(line[r]) + GotAt(r, hs[r].pc)
    BY Zenon DEF Receives, o
  <2>. QED  BY <1>3, <1>4, <2>1, <2>2, SameFlight, Zenon DEF InFlight, o
<1>6. ASSUME Live(o) PROVE InFlight(o)'
  <2>1. /\ Flight(r, GotAt(o, hs[o].pc), line'[o])
        /\ Len(line'[o]) + GotAt(o, hs[o].pc) = PutAt(r, side.pc)
    BY <1>6, Zenon DEF Sends, o
  <2>. QED  BY <1>1, <1>3, <2>1, SameFlight, Zenon DEF InFlight
<1>7. SideOK(r)'
  BY <1>5, Zenon DEF SideOK
<1>8. \A u \in Roles : Sequence(line'[u])
  <2>1. Sequence(line'[r]) /\ Sequence(line'[o])
    BY Zenon DEF Receives, Sends, o
  <2>. QED  BY <1>1, <2>1, Zenon
<1>. QED  BY <1>6, <1>7, <1>8, SideStep, Zenon DEF o

\* A side that ends leaves what it wrote, and an end of file, to the other side.
LEMMA Ended ==
    ASSUME HandshakeInv, NEW r \in Roles, who' = who, NEW side, DOMAIN side = Fields,
           hs' = [hs EXCEPT ![r] = side], Live(r), side.pc \in {"failed", "closed"},
           DOMAIN line' = Roles, line'[r] = << >>, NEW rest, line'[Other(r)] = Append(rest, Eof),
           Sequence(rest), Live(Other(r)) => Flight(r, GotAt(Other(r), hs[Other(r)].pc), rest)
    PROVE  HandshakeInv'
<1>. DEFINE o == Other(r)
<1>1. o \in Roles /\ o # r /\ Other(o) = r
  BY Ends, Zenon
<1>2. DOMAIN hs = Roles
  BY Shape, Zenon
<1>. HIDE DEF o
<1>3. hs'[r] = side /\ hs'[o] = hs[o]
  BY <1>1, <1>2, Zenon
<1>4. ~Live(r)'
  BY <1>3, Zenon DEF Live
<1>5. GotAt(o, hs[o].pc) \in Nat
  BY <1>1, TablesCount, Zenon
<1>6. Sequence(Append(rest, Eof)) /\ Sequence(<< >>)
  BY MoreSent, NothingSent, <1>5, Zenon
<1>7. ASSUME Live(o) PROVE InFlight(o)'
  <2>1. Flight(r, GotAt(o, hs[o].pc), rest)
    BY <1>7, Zenon DEF o
  <2>2. Flight(r, GotAt(o, hs[o].pc), Append(rest, Eof))
    BY <1>5, <2>1, MoreSent, Zenon
  <2>. QED  BY <1>1, <1>3, <1>4, <2>2, SameFlight, Zenon DEF InFlight, o
<1>8. SideOK(r)'
  BY <1>4, Zenon DEF SideOK
<1>9. \A u \in Roles : Sequence(line'[u])
  <2>1. Sequence(line'[r]) /\ Sequence(line'[o])
    BY <1>6, Zenon DEF o
  <2>. QED  BY <2>1, Ends, Zenon DEF o
<1>. QED  BY <1>7, <1>8, <1>9, SideStep, Zenon DEF o

\* WriteRound: the message of a round, signed where the other side verifies.
LEMMA WriteRoundKeeps ==
    ASSUME HandshakeInv, NEW r \in Roles, WriteRound(r)
    PROVE  HandshakeInv'
<1>1. /\ DOMAIN hs = Roles /\ DOMAIN hs[r] = Fields /\ SideOK(r)
  BY Shape, Zenon
<1>2. PICK k \in Writes(r) :
        /\ hs[r].pc = Step(k)
        /\ hs' = [hs EXCEPT ![r] = [Wrote(r, Message(r)) EXCEPT !.pc = Step(k + 1)]]
  BY Zenon DEF WriteRound
<1>3. who' = who /\ line' = [line EXCEPT ![Other(r)] = Append(@, Message(r))]
  BY Zenon DEF WriteRound
<1>4. PICK side : side = [Wrote(r, Message(r)) EXCEPT !.pc = Step(k + 1)]
  BY Zenon
<1>5. /\ DOMAIN side = Fields /\ side.pc = Step(k + 1) /\ side.writes = hs[r].writes + 1
      /\ side.reads = hs[r].reads /\ side.peer = hs[r].peer
  BY <1>1, <1>4, Zenon DEF Wrote, Fields
<1>6. hs' = [hs EXCEPT ![r] = side]
  BY <1>2, <1>4, Zenon
<1>7. hs'[r] = side
  BY <1>1, <1>6, Zenon
<1>8. \/ r = "initiator" /\ hs[r].pc = "round1" /\ side.pc = "round2"
      \/ r = "initiator" /\ hs[r].pc = "round3" /\ side.pc = "admission"
      \/ r = "responder" /\ hs[r].pc = "round2" /\ side.pc = "round3"
  BY <1>2, <1>5 DEF Writes, Step, Roles
<1>9. Live(r) /\ RoundsOK(r) /\ Verified(r) /\ side.pc \notin {"failed", "closed"}
  BY <1>1, <1>8, Zenon DEF Live, SideOK
<1>10. RoundsOK(r)'
  <2>1. CASE r = "initiator" /\ hs[r].pc = "round1" /\ side.pc = "round2"
    <3>1. hs[r].writes = 0 /\ hs[r].reads = 0
      BY <1>9, <2>1, Zenon DEF RoundsOK
    <3>2. side.writes = 1 /\ side.reads = 0
      BY <1>5, <3>1
    <3>. QED  BY <1>7, <2>1, <3>2, Zenon DEF RoundsOK
  <2>2. CASE r = "initiator" /\ hs[r].pc = "round3" /\ side.pc = "admission"
    BY <1>5, <1>7, <1>9, <2>2, Zenon DEF RoundsOK
  <2>3. CASE r = "responder" /\ hs[r].pc = "round2" /\ side.pc = "round3"
    BY <1>5, <1>7, <1>9, <2>3, Zenon DEF RoundsOK
  <2>. QED  BY <1>8, <2>1, <2>2, <2>3, Zenon
<1>11. Verified(r)' /\ Agrees(r)'
  <2>1. Agrees(r)'
    BY <1>7, <1>8, Zenon DEF Agrees
  <2>2. CASE side.pc \in Unverified(r)
    BY <1>7, <2>1, <2>2, Zenon DEF Verified
  <2>3. CASE side.pc \notin Unverified(r)
    <3>1. hs[r].pc \notin Unverified(r)
      BY <1>8, <2>3, Zenon DEF Unverified
    <3>. QED  BY <1>3, <1>5, <1>7, <1>9, <2>1, <3>1, Zenon DEF Verified
  <2>. QED  BY <2>1, <2>2, <2>3, Zenon
<1>12. GotAt(r, side.pc) = GotAt(r, hs[r].pc) /\ PutAt(r, side.pc) = PutAt(r, hs[r].pc) + 1
  <2>1. CASE r = "initiator" /\ hs[r].pc = "round1" /\ side.pc = "round2"
    BY <2>1 DEF GotAt, PutAt
  <2>2. CASE r = "initiator" /\ hs[r].pc = "round3" /\ side.pc = "admission"
    BY <2>2 DEF GotAt, PutAt
  <2>3. CASE r = "responder" /\ hs[r].pc = "round2" /\ side.pc = "round3"
    BY <2>3 DEF GotAt, PutAt
  <2>. QED  BY <1>8, <2>1, <2>2, <2>3, Zenon
<1>13. Sent(r, PutAt(r, side.pc), Message(r))
  <2>1. should_sign(r) => SignedBy(Message(r), who[r].id)
    BY DEF Message, Signature, SignedBy
  <2>2. CASE r = "initiator" /\ hs[r].pc = "round1" /\ side.pc = "round2"
    BY <2>2 DEF Sent, PutAt
  <2>3. CASE r = "initiator" /\ hs[r].pc = "round3" /\ side.pc = "admission"
    BY <1>9, <2>1, <2>3 DEF Sent, PutAt, should_sign, RoundsOK
  <2>4. CASE r = "responder" /\ hs[r].pc = "round2" /\ side.pc = "round3"
    BY <1>9, <2>1, <2>4 DEF Sent, PutAt, should_sign, RoundsOK
  <2>. QED  BY <1>8, <2>2, <2>3, <2>4, Zenon
<1>14. Receives(r, side, line[r]) /\ Sends(r, side, Append(line[Other(r)], Message(r)))
  BY <1>9, <1>12, <1>13, Received, Given, Zenon
<1>15. DOMAIN line' = Roles /\ line'[r] = line[r] /\ line'[Other(r)] = Append(line[Other(r)], Message(r))
  BY <1>3, Ends, Shape, Zenon
<1>. QED  BY <1>3, <1>5, <1>6, <1>9, <1>10, <1>11, <1>14, <1>15, Moved, Zenon

\* What a side may rely on about the message it reads next.
LEMMA NextRead ==
    ASSUME HandshakeInv, NEW r \in Roles, Live(r), line[r] # << >>, Head(line[r]) # Eof
    PROVE  Sent(Other(r), GotAt(r, hs[r].pc) + 1, Head(line[r]))
<1>1. Sequence(line[r]) /\ Flight(Other(r), GotAt(r, hs[r].pc), line[r])
  BY Shape, Zenon DEF SideOK, InFlight
<1>2. GotAt(r, hs[r].pc) \in Nat
  BY TablesCount, Zenon
<1>. QED  BY <1>1, <1>2, OneRead, Zenon

\* Whatever fails closes the socket.
LEMMA FailKeeps ==
    ASSUME HandshakeInv, NEW r \in Roles, Live(r), Fail(r)
    PROVE  HandshakeInv'
<1>1. DOMAIN hs[r] = Fields /\ DOMAIN line = Roles
  BY Shape, Zenon
<1>2. Other(r) \in Roles /\ Other(r) # r
  BY Ends, Zenon
<1>3. PICK side : side = FailedSide(r)
  BY Zenon
<1>4. DOMAIN side = Fields /\ side.pc = "failed"
  BY <1>1, <1>3, Zenon DEF FailedSide, Fields
<1>5. hs' = [hs EXCEPT ![r] = side] /\ who' = who
  BY <1>3, Zenon DEF Fail
<1>6. DOMAIN line' = Roles /\ line'[r] = << >> /\ line'[Other(r)] = Append(line[Other(r)], Eof)
  BY <1>1, <1>2, Zenon DEF Fail, EofTo
<1>7. Sequence(line[Other(r)]) /\ SideOK(Other(r))
  BY <1>2, Shape, Zenon
<1>8. Live(Other(r)) => Flight(r, GotAt(Other(r), hs[Other(r)].pc), line[Other(r)])
  BY <1>7, Ends, Zenon DEF SideOK, InFlight
<1>. QED  BY <1>4, <1>5, <1>6, <1>7, <1>8, Ended, Zenon

\* ReadRound: the message that carries the signature gives the side its peer.
LEMMA ReadRoundKeeps ==
    ASSUME HandshakeInv, NEW r \in Roles, ReadRound(r)
    PROVE  HandshakeInv'
<1>1. /\ DOMAIN hs = Roles /\ DOMAIN hs[r] = Fields /\ SideOK(r)
  BY Shape, Zenon
<1>2. PICK m : m = Head(line[r])
  BY Zenon
<1>3. PICK k \in 1..3 \ Writes(r) :
        /\ hs[r].pc = Step(k)
        /\ \/ /\ ~should_verify(r) \/ verify_peer_identity(r, m)
              /\ hs' = [hs EXCEPT ![r] = [Read(r, m) EXCEPT !.pc = Step(k + 1)]]
              /\ line' = [line EXCEPT ![r] = Tail(@)] /\ UNCHANGED who
           \/ Fail(r)
  BY <1>2, Zenon DEF ReadRound
<1>4. \/ r = "initiator" /\ hs[r].pc = "round2" /\ Step(k + 1) = "round3"
      \/ r = "responder" /\ hs[r].pc = "round1" /\ Step(k + 1) = "round2"
      \/ r = "responder" /\ hs[r].pc = "round3" /\ Step(k + 1) = "admission"
  BY <1>3 DEF Writes, Step, Roles
<1>5. Live(r) /\ RoundsOK(r) /\ Verified(r)
  BY <1>1, <1>4, Zenon DEF Live, SideOK
<1>6. CASE Fail(r)
  BY <1>5, <1>6, FailKeeps, Zenon
<1>7. CASE /\ ~should_verify(r) \/ verify_peer_identity(r, m)
           /\ hs' = [hs EXCEPT ![r] = [Read(r, m) EXCEPT !.pc = Step(k + 1)]]
           /\ line' = [line EXCEPT ![r] = Tail(@)] /\ UNCHANGED who
  <2>1. PICK side : side = [Read(r, m) EXCEPT !.pc = Step(k + 1)]
    BY Zenon
  <2>2. /\ DOMAIN side = Fields /\ side.pc = Step(k + 1) /\ side.writes = hs[r].writes
        /\ side.reads = hs[r].reads + 1
        /\ side.peer = IF should_verify(r) THEN Head(m.auth).signer ELSE hs[r].peer
    BY <1>1, <2>1, Zenon DEF Read, Fields
  <2>30. hs' = [hs EXCEPT ![r] = side]
    BY <1>7, <2>1, Zenon
  <2>3. hs'[r] = side
    BY <1>1, <2>30, Zenon
  <2>4. line[r] # << >> /\ Head(line[r]) # Eof
    BY Zenon DEF ReadRound
  <2>5. Sent(Other(r), GotAt(r, hs[r].pc) + 1, m)
    BY <1>2, <1>5, <2>4, NextRead, Zenon
  <2>6. RoundsOK(r)'
    <3>1. CASE r = "initiator" /\ hs[r].pc = "round2" /\ side.pc = "round3"
      BY <1>5, <2>2, <2>3, <3>1, Zenon DEF RoundsOK
    <3>2. CASE r = "responder" /\ hs[r].pc = "round1" /\ side.pc = "round2"
      BY <1>5, <2>2, <2>3, <3>2 DEF RoundsOK
    <3>3. CASE r = "responder" /\ hs[r].pc = "round3" /\ side.pc = "admission"
      BY <1>5, <2>2, <2>3, <3>3, Zenon DEF RoundsOK
    <3>. QED  BY <1>4, <2>2, <3>1, <3>2, <3>3, Zenon
  <2>7. Verified(r)'
    <3>1. CASE hs[r].pc = "round1"
      BY <1>4, <2>2, <2>3, <3>1, Zenon DEF Verified, Unverified
    <3>2. CASE hs[r].pc \in {"round2", "round3"}
      <4>1. should_verify(r)
        <5>1. CASE r = "initiator"
          BY <1>4, <1>5, <3>2, <5>1, Zenon DEF should_verify, RoundsOK
        <5>2. CASE r # "initiator"
          BY <1>4, <1>5, <3>2, <5>2, Zenon DEF should_verify, RoundsOK
        <5>. QED  BY <5>1, <5>2, Zenon
      <4>2. SignedBy(m, who[Other(r)].id)
        <5>1. CASE r = "initiator" /\ hs[r].pc = "round2"
          <6>1. Sent("responder", 1, m) /\ Other(r) = "responder"
            BY <2>5, <5>1 DEF GotAt, Other
          <6>. QED  BY <6>1, Zenon DEF Sent
        <5>2. CASE r = "responder" /\ hs[r].pc = "round3"
          <6>1. Sent("initiator", 2, m) /\ Other(r) = "initiator"
            BY <2>5, <5>2 DEF GotAt, Other
          <6>. QED  BY <6>1, Zenon DEF Sent
        <5>. QED  BY <1>4, <3>2, <5>1, <5>2, Zenon
      <4>3. side.peer = who[Other(r)].id /\ who[r].expected \in {NoNode, side.peer}
        BY <1>7, <2>2, <4>1, <4>2, Zenon DEF verify_peer_identity, SignedBy
      <4>. QED  BY <1>7, <2>3, <4>3, Zenon DEF Verified
    <3>. QED  BY <1>4, <3>1, <3>2, Zenon
  <2>8. Agrees(r)' /\ side.pc \notin {"failed", "closed"}
    <3>1. side.pc \in {"round2", "round3", "admission"}
      BY <1>4, <2>2, Zenon
    <3>. QED  BY <2>3, <3>1, Zenon DEF Agrees
  <2>9. GotAt(r, side.pc) = GotAt(r, hs[r].pc) + 1 /\ PutAt(r, side.pc) = PutAt(r, hs[r].pc)
    <3>1. CASE r = "initiator" /\ hs[r].pc = "round2" /\ side.pc = "round3"
      BY <3>1 DEF GotAt, PutAt
    <3>2. CASE r = "responder" /\ hs[r].pc = "round1" /\ side.pc = "round2"
      BY <3>2 DEF GotAt, PutAt
    <3>3. CASE r = "responder" /\ hs[r].pc = "round3" /\ side.pc = "admission"
      BY <3>3 DEF GotAt, PutAt
    <3>. QED  BY <1>4, <2>2, <3>1, <3>2, <3>3, Zenon
  <2>10. Receives(r, side, Tail(line[r])) /\ Sends(r, side, line[Other(r)])
    BY <1>5, <2>4, <2>9, Received, Given, Zenon
  <2>11. DOMAIN line' = Roles /\ line'[r] = Tail(line[r]) /\ line'[Other(r)] = line[Other(r)]
    BY <1>7, Ends, Shape, Zenon
  <2>. QED  BY <1>5, <1>7, <2>2, <2>30, <2>6, <2>7, <2>8, <2>10, <2>11, Moved, Zenon
<1>. QED  BY <1>3, <1>6, <1>7, Zenon

\* Concatenating one answer, or none, is appending it or not.
LEMMA Answers ==
    ASSUME NEW s, Sequence(s), NEW m
    PROVE  s \o <<m>> = Append(s, m) /\ s \o << >> = s
<1>1. PICK S : s \in Seq(S)
  BY Zenon DEF Sequence
<1>. QED  BY <1>1

\* Admission: bans and caps once the identity is known.
LEMMA AdmissionKeeps ==
    ASSUME HandshakeInv, NEW r \in Roles, Admission(r)
    PROVE  HandshakeInv'
<1>1. /\ DOMAIN hs = Roles /\ DOMAIN line = Roles /\ DOMAIN hs[r] = Fields /\ SideOK(r)
      /\ \A u \in Roles : Sequence(line[u])
  BY Shape, Zenon DEF HandshakeInv, HandshakeShape
<1>2. hs[r].pc = "admission"
  BY Zenon DEF Admission
<1>3. Live(r)
  BY <1>2, Zenon DEF Live
<1>4. CASE Fail(r)
  BY <1>3, <1>4, FailKeeps, Zenon
<1>5. CASE hs' = [hs EXCEPT ![r].pc = "hello"] /\ UNCHANGED <<who, line>>
  <2>1. PICK side : side = [hs[r] EXCEPT !.pc = "hello"]
    BY Zenon
  <2>2. /\ DOMAIN side = Fields /\ side.pc = "hello" /\ side.writes = hs[r].writes
        /\ side.reads = hs[r].reads /\ side.peer = hs[r].peer
    BY <1>1, <2>1, Zenon DEF Fields
  <2>3. hs' = [hs EXCEPT ![r] = side] /\ who' = who /\ line' = line
    BY <1>5, <2>1, Zenon
  <2>4. hs'[r] = side
    BY <1>1, <2>3, Zenon
  <2>5. RoundsOK(r) /\ Verified(r) /\ InFlight(r)
    BY <1>1, <1>3, Zenon DEF SideOK
  <2>6. RoundsOK(r)' /\ Agrees(r)'
    BY <2>2, <2>4, <2>5, Zenon DEF RoundsOK, Agrees
  <2>7. hs[r].pc \notin Unverified(r)
    BY <1>2, Zenon DEF Unverified
  <2>8. Verified(r)'
    BY <2>2, <2>3, <2>4, <2>5, <2>7, Zenon DEF Verified
  <2>9. GotAt(r, side.pc) = GotAt(r, hs[r].pc) /\ PutAt(r, side.pc) = PutAt(r, hs[r].pc)
    BY <1>2, <2>2, Zenon DEF GotAt, PutAt
  <2>10. Receives(r, side, line[r]) /\ Sends(r, side, line[Other(r)])
    BY <1>3, <2>9, Received, Given, Zenon
  <2>. QED  BY <1>1, <1>3, <2>2, <2>3, <2>6, <2>8, <2>10, Moved, Zenon
<1>. QED  BY <1>4, <1>5, Zenon DEF Admission

\* The stages around the HELLO.
LEMMA HelloStages ==
    /\ GotAt("initiator", "hello") = 1 /\ PutAt("initiator", "hello") = 2
    /\ GotAt("initiator", "await hello") = 1 /\ PutAt("initiator", "await hello") = 3
    /\ GotAt("initiator", "registered") = 2 /\ PutAt("initiator", "registered") = 3
    /\ GotAt("responder", "hello") = 2 /\ PutAt("responder", "hello") = 1
    /\ GotAt("responder", "registered") = 3 /\ PutAt("responder", "registered") = 2
<1>1. GotAt("initiator", "hello") = 1 /\ GotAt("initiator", "await hello") = 1 /\ GotAt("initiator", "registered") = 2
  BY Zenon DEF GotAt
<1>2. PutAt("initiator", "hello") = 2 /\ PutAt("initiator", "await hello") = 3 /\ PutAt("initiator", "registered") = 3
  BY Zenon DEF PutAt
<1>3. GotAt("responder", "hello") = 2 /\ GotAt("responder", "registered") = 3
  BY Zenon DEF GotAt
<1>4. PutAt("responder", "hello") = 1 /\ PutAt("responder", "registered") = 2
  BY Zenon DEF PutAt
<1>. QED  BY <1>1, <1>2, <1>3, <1>4, Zenon

\* WriteHello: the initiator's HELLO is its third message.
LEMMA WriteHelloKeeps ==
    ASSUME HandshakeInv, NEW r \in Roles, WriteHello(r)
    PROVE  HandshakeInv'
<1>1. DOMAIN hs = Roles /\ DOMAIN hs[r] = Fields /\ SideOK(r)
  BY Shape, Zenon
<1>2. r = "initiator" /\ hs[r].pc = "hello" /\ hs' = [hs EXCEPT ![r].pc = "await hello"]
  BY Zenon DEF WriteHello
<1>3. who' = who /\ line' = [line EXCEPT ![Other(r)] = Append(@, Hello(r))]
  BY Zenon DEF WriteHello
<1>4. PICK side : side = [hs[r] EXCEPT !.pc = "await hello"]
  BY Zenon
<1>5. DOMAIN side = Fields /\ side.pc = "await hello" /\ side.peer = hs[r].peer
  BY <1>1, <1>4, Zenon DEF Fields
<1>6. hs' = [hs EXCEPT ![r] = side]
  BY <1>2, <1>4, Zenon
<1>7. hs'[r] = side
  BY <1>1, <1>6, Zenon
<1>8. Live(r)
  BY <1>2, Zenon DEF Live
<1>9. Verified(r)
  BY <1>1, <1>8, Zenon DEF SideOK
<1>10. RoundsOK(r)' /\ Agrees(r)'
  BY <1>2, <1>5, <1>7, Zenon DEF RoundsOK, Agrees
<1>11. Verified(r)'
  <2>1. hs[r].pc \notin Unverified(r)
    BY <1>2, Zenon DEF Unverified
  <2>. QED  BY <1>3, <1>5, <1>7, <1>9, <2>1, Zenon DEF Verified
<1>12. GotAt(r, side.pc) = GotAt(r, hs[r].pc) /\ PutAt(r, side.pc) = PutAt(r, hs[r].pc) + 1
  <2>1. /\ GotAt(r, side.pc) = 1 /\ GotAt(r, hs[r].pc) = 1
        /\ PutAt(r, side.pc) = 3 /\ PutAt(r, hs[r].pc) = 2
    BY <1>2, <1>5, HelloStages, Zenon
  <2>. QED  BY <2>1
<1>13. Sent(r, PutAt(r, side.pc), Hello(r))
  <2>1. PutAt(r, side.pc) = 3
    BY <1>2, <1>5, HelloStages, Zenon
  <2>2. Sent("initiator", 3, Hello("initiator"))
    BY DEF Sent
  <2>. QED  BY <1>2, <2>1, <2>2, Zenon
<1>14. Receives(r, side, line[r]) /\ Sends(r, side, Append(line[Other(r)], Hello(r)))
  BY <1>8, <1>12, <1>13, Received, Given, Zenon
<1>15. DOMAIN line' = Roles /\ line'[r] = line[r] /\ line'[Other(r)] = Append(line[Other(r)], Hello(r))
  BY <1>3, Ends, Shape, Zenon
<1>. QED  BY <1>3, <1>5, <1>6, <1>8, <1>10, <1>11, <1>14, <1>15, Moved, ZenonT(30)

\* TimedOut, ReadEof: the side ends and its socket closes.
LEMMA EndKeeps ==
    ASSUME HandshakeInv, NEW r \in Roles, TimedOut(r) \/ ReadEof(r)
    PROVE  HandshakeInv'
<1>1. DOMAIN hs = Roles /\ DOMAIN line = Roles /\ DOMAIN hs[r] = Fields
  BY Shape, Zenon
<1>2. Live(r)
  <2>1. Reading(r) \/ hs[r].pc = "registered"
    BY Zenon DEF TimedOut, ReadEof
  <2>2. ASSUME NEW k \in 1..3 \ Writes(r) PROVE Step(k) \in {"round1", "round2", "round3"}
    BY DEF Step
  <2>. QED  BY <2>1, <2>2, Zenon DEF Live, Reading
<1>3. CASE TimedOut(r)
  BY <1>2, <1>3, FailKeeps, Zenon DEF TimedOut
<1>4. CASE ReadEof(r)
  <2>1. PICK side : side = IF hs[r].pc = "registered" THEN [hs[r] EXCEPT !.pc = "closed"] ELSE FailedSide(r)
    BY Zenon
  <2>2. DOMAIN side = Fields /\ side.pc \in {"failed", "closed"}
    BY <1>1, <2>1, Zenon DEF FailedSide, Fields
  <2>3. hs' = [hs EXCEPT ![r] = side] /\ who' = who
    BY <1>4, <2>1, Zenon DEF ReadEof
  <2>4. Other(r) \in Roles /\ Other(r) # r /\ Other(Other(r)) = r
    BY Ends, Zenon
  <2>5. DOMAIN line' = Roles /\ line'[r] = << >> /\ line'[Other(r)] = Append(line[Other(r)], Eof)
    BY <1>1, <1>4, <2>4, Zenon DEF ReadEof, EofTo
  <2>6. Sequence(line[Other(r)]) /\ SideOK(Other(r))
    BY <2>4, Shape, Zenon
  <2>7. Live(Other(r)) => Flight(r, GotAt(Other(r), hs[Other(r)].pc), line[Other(r)])
    BY <2>4, <2>6, Zenon DEF SideOK, InFlight
  <2>. QED  BY <1>2, <2>2, <2>3, <2>5, <2>6, <2>7, Ended, Zenon
<1>. QED  BY <1>3, <1>4, Zenon

\* ReadHello: what arrives is the HELLO of the other side, so validate_hello and
\* negotiate_capabilities speak about its network, version and capabilities.
LEMMA HelloRead ==
    ASSUME HandshakeInv, NEW r \in Roles, ReadHello(r)
    PROVE  /\ Live(r) /\ Head(line[r]) = Hello(Other(r))
           /\ hs[r].peer = who[Other(r)].id /\ who[r].expected \in {NoNode, hs[r].peer}
<1>1. /\ line[r] # << >> /\ Head(line[r]) # Eof
      /\ hs[r].pc = IF r = "initiator" THEN "await hello" ELSE "hello"
  BY Zenon DEF ReadHello
<1>2. Live(r) /\ hs[r].pc \notin Unverified(r)
  BY <1>1, Zenon DEF Live, Unverified
<1>3. Verified(r)
  BY <1>2, Shape, Zenon DEF SideOK
<1>4. Sent(Other(r), GotAt(r, hs[r].pc) + 1, Head(line[r]))
  BY <1>1, <1>2, NextRead, Zenon
<1>5. CASE r = "initiator"
  <2>1. Other(r) = "responder" /\ GotAt(r, hs[r].pc) + 1 = 2
    <3>1. hs[r].pc = "await hello"
      BY <1>1, <1>5, Zenon
    <3>2. GotAt(r, hs[r].pc) = 1
      BY <1>5, <3>1, HelloStages, Zenon
    <3>. QED  BY <1>5, <3>2 DEF Other
  <2>. QED  BY <1>2, <1>3, <1>4, <2>1, Zenon DEF Sent, Verified
<1>6. CASE r = "responder"
  <2>1. Other(r) = "initiator" /\ GotAt(r, hs[r].pc) + 1 = 3
    <3>1. hs[r].pc = "hello"
      BY <1>1, <1>6, Zenon
    <3>2. GotAt(r, hs[r].pc) = 2
      BY <1>6, <3>1, HelloStages, Zenon
    <3>. QED  BY <1>6, <3>2 DEF Other
  <2>. QED  BY <1>2, <1>3, <1>4, <2>1, Zenon DEF Sent, Verified
<1>. QED  BY <1>5, <1>6, Zenon DEF Roles

\* ReadHello: the side registers, after its answer if it is the responder, or ends.
LEMMA ReadHelloKeeps ==
    ASSUME HandshakeInv, NEW r \in Roles, ReadHello(r)
    PROVE  HandshakeInv'
<1>. DEFINE o == Other(r)
<1>1. /\ DOMAIN hs = Roles /\ DOMAIN line = Roles /\ DOMAIN hs[r] = Fields
  BY Shape, Zenon
<1>2. o \in Roles /\ o # r /\ Other(o) = r
  BY Ends, Zenon
<1>3. Sequence(line[o]) /\ SideOK(o)
  BY <1>2, Shape, Zenon
<1>4. /\ Live(r) /\ Head(line[r]) = Hello(o) /\ line[r] # << >>
      /\ hs[r].peer = who[o].id /\ who[r].expected \in {NoNode, hs[r].peer}
      /\ hs[r].pc = IF r = "initiator" THEN "await hello" ELSE "hello"
  BY HelloRead, Zenon DEF ReadHello
<1>5. PICK answered : answered = IF r = "responder" THEN <<Hello(r)>> ELSE << >>
  BY Zenon
<1>6. \/ Fail(r)
      \/ /\ validate_hello(r, Hello(o)) /\ MayRegister(r)
         /\ hs' = [hs EXCEPT ![r] = Registered(r, Hello(o))]
         /\ line' = [line EXCEPT ![r] = Tail(@), ![o] = @ \o answered]
         /\ UNCHANGED who
      \/ /\ hs' = [hs EXCEPT ![r].pc = "failed"]
         /\ line' = EofTo(o, [line EXCEPT ![r] = << >>, ![o] = @ \o answered])
         /\ UNCHANGED who
  BY <1>4, <1>5, Zenon DEF ReadHello
<1>7. line[o] \o answered = IF r = "responder" THEN Append(line[o], Hello(r)) ELSE line[o]
  BY <1>3, <1>5, Answers, Zenon
<1>. HIDE DEF o
<1>8. CASE Fail(r)
  BY <1>4, <1>8, FailKeeps, Zenon
<1>9. CASE /\ hs' = [hs EXCEPT ![r].pc = "failed"]
           /\ line' = EofTo(o, [line EXCEPT ![r] = << >>, ![o] = @ \o answered])
           /\ UNCHANGED who
  <2>1. PICK side : side = [hs[r] EXCEPT !.pc = "failed"]
    BY Zenon
  <2>2. DOMAIN side = Fields /\ side.pc = "failed" /\ hs' = [hs EXCEPT ![r] = side] /\ who' = who
    BY <1>1, <1>9, <2>1, Zenon DEF Fields
  <2>3. PICK rest : rest = line[o] \o answered
    BY Zenon
  <2>4. DOMAIN line' = Roles /\ line'[r] = << >> /\ line'[o] = Append(rest, Eof)
    BY <1>1, <1>2, <1>9, <2>3, Zenon DEF EofTo
  <2>5. GotAt(o, hs[o].pc) \in Nat
    BY <1>2, TablesCount, Zenon
  <2>6. Sequence(rest)
    <3>1. Sequence(Append(line[o], Hello(r)))
      BY <1>3, <2>5, MoreSent, Zenon
    <3>. QED  BY <1>3, <1>7, <2>3, <3>1, Zenon
  <2>7. ASSUME Live(o) PROVE Flight(r, GotAt(o, hs[o].pc), rest)
    <3>1. Flight(r, GotAt(o, hs[o].pc), line[o]) /\ Len(line[o]) + GotAt(o, hs[o].pc) = PutAt(r, hs[r].pc)
      BY <1>2, <1>3, <1>4, <2>7, Zenon DEF SideOK, InFlight
    <3>2. CASE r = "responder"
      <4>1. PutAt(r, hs[r].pc) = 1
        BY <1>4, <3>2, HelloStages, Zenon
      <4>2. Len(line[o]) \in Nat
        BY <1>3, <2>5, MoreSent, Zenon
      <4>3. GotAt(o, hs[o].pc) + Len(line[o]) + 1 = 2
        BY <2>5, <3>1, <4>1, <4>2
      <4>4. Sent(r, 2, Hello(r))
        BY <3>2 DEF Sent
      <4>. QED  BY <1>3, <1>7, <2>3, <2>5, <3>1, <3>2, <4>3, <4>4, MoreSent, SMTT(30)
    <3>3. CASE r # "responder"
      BY <1>7, <2>3, <3>1, <3>3, Zenon
    <3>. QED  BY <3>2, <3>3, Zenon
  <2>. QED  BY <1>4, <2>2, <2>4, <2>6, <2>7, Ended, Zenon DEF o
<1>10. CASE /\ validate_hello(r, Hello(o)) /\ MayRegister(r)
            /\ hs' = [hs EXCEPT ![r] = Registered(r, Hello(o))]
            /\ line' = [line EXCEPT ![r] = Tail(@), ![o] = @ \o answered]
            /\ UNCHANGED who
  <2>1. PICK side : side = Registered(r, Hello(o))
    BY Zenon
  <2>2. /\ DOMAIN side = Fields /\ side.pc = "registered" /\ side.peer = hs[r].peer
        /\ side.caps = who[r].caps \cap who[o].caps
    BY <1>1, <2>1, Zenon DEF Fields, Registered, negotiate_capabilities, Hello
  <2>3. hs' = [hs EXCEPT ![r] = side] /\ who' = who
    BY <1>10, <2>1, Zenon
  <2>4. hs'[r] = side
    BY <1>1, <2>3, Zenon
  <2>5. RoundsOK(r)' /\ Verified(r)'
    <3>1. hs'[r].pc = "registered" /\ hs'[r].peer = who'[Other(r)].id /\ who'[r].expected \in {NoNode, hs'[r].peer}
      BY <1>4, <2>2, <2>3, <2>4, Zenon DEF o
    <3>2. Verified(r)'
      BY <3>1, Zenon DEF Verified
    <3>. QED  BY <3>1, <3>2, Zenon DEF RoundsOK
  <2>6. Agrees(r)'
    <3>1. who[o].version >= MIN_PROTO_VERSION /\ who[o].network = who[r].network /\ hs[r].peer # who[r].id
      BY <1>10, Zenon DEF validate_hello, Hello, MayRegister
    <3>2. side.caps = who["initiator"].caps \cap who["responder"].caps
      BY <2>2, Zenon DEF o, Other, Roles
    <3>. QED  BY <1>4, <2>2, <2>3, <2>4, <3>1, <3>2, Zenon DEF Agrees, o
  <2>7. CASE r = "initiator"
    <3>1. DOMAIN line' = Roles /\ line'[r] = Tail(line[r]) /\ line'[o] = line[o]
      <4>1. line[o] \o answered = line[o]
        BY <1>7, <2>7, Zenon
      <4>. QED  BY <1>1, <1>2, <1>10, <4>1, Zenon
    <3>2. GotAt(r, side.pc) = GotAt(r, hs[r].pc) + 1 /\ PutAt(r, side.pc) = PutAt(r, hs[r].pc)
      <4>1. hs[r].pc = "await hello"
        BY <1>4, <2>7, Zenon
      <4>2. /\ GotAt(r, hs[r].pc) = 1 /\ GotAt(r, side.pc) = 2
            /\ PutAt(r, hs[r].pc) = 3 /\ PutAt(r, side.pc) = 3
        BY <2>2, <2>7, <4>1, HelloStages, Zenon
      <4>. QED  BY <4>2
    <3>3. Receives(r, side, Tail(line[r])) /\ Sends(r, side, line[o])
      BY <1>4, <3>2, Received, Given, ZenonT(30) DEF o
    <3>. QED  BY <1>4, <2>2, <2>3, <2>5, <2>6, <3>1, <3>3, Moved, Zenon DEF o
  <2>8. CASE r = "responder"
    <3>1. DOMAIN line' = Roles /\ line'[r] = Tail(line[r]) /\ line'[o] = Append(line[o], Hello(r))
      <4>1. line[o] \o answered = Append(line[o], Hello(r))
        BY <1>7, <2>8, Zenon
      <4>. QED  BY <1>1, <1>2, <1>10, <4>1, Zenon
    <3>2. GotAt(r, side.pc) = GotAt(r, hs[r].pc) + 1 /\ PutAt(r, side.pc) = PutAt(r, hs[r].pc) + 1
      <4>1. hs[r].pc = "hello"
        BY <1>4, <2>8, Zenon
      <4>2. /\ GotAt(r, hs[r].pc) = 2 /\ GotAt(r, side.pc) = 3
            /\ PutAt(r, hs[r].pc) = 1 /\ PutAt(r, side.pc) = 2
        BY <2>2, <2>8, <4>1, HelloStages, Zenon
      <4>. QED  BY <4>2
    <3>3. Sent(r, PutAt(r, side.pc), Hello(r))
      <4>1. PutAt(r, side.pc) = 2
        BY <2>2, <2>8, HelloStages, Zenon
      <4>. QED  BY <2>8, <4>1 DEF Sent
    <3>4. Receives(r, side, Tail(line[r])) /\ Sends(r, side, Append(line[o], Hello(r)))
      BY <1>4, <3>2, <3>3, Received, Given, Zenon DEF o
    <3>. QED  BY <1>4, <2>2, <2>3, <2>5, <2>6, <3>1, <3>4, Moved, Zenon DEF o
  <2>. QED  BY <2>7, <2>8, Zenon DEF Roles
<1>. QED  BY <1>6, <1>8, <1>9, <1>10, Zenon

\* The first state: nothing is written, nothing read.
LEMMA HandshakeStarts == HandshakeInit => HandshakeInv
<1>. SUFFICES ASSUME HandshakeInit PROVE HandshakeInv
  BY Zenon
<1>1. /\ DOMAIN hs = Roles /\ DOMAIN line = Roles
      /\ \A r \in Roles : hs[r] = NewSide /\ line[r] = << >>
  BY Zenon DEF HandshakeInit
<1>2. ASSUME NEW r \in Roles PROVE SideOK(r)
  <2>1. hs[r] = NewSide /\ hs[Other(r)] = NewSide /\ line[r] = << >>
    BY <1>1, Ends, Zenon
  <2>2. hs[r].pc = "round1" /\ hs[r].reads = 0 /\ hs[r].writes = 0 /\ hs[Other(r)].pc = "round1"
    BY <2>1 DEF NewSide
  <2>3. RoundsOK(r) /\ Verified(r) /\ Agrees(r)
    BY <2>2, Zenon DEF RoundsOK, Verified, Unverified, Agrees
  <2>4. GotAt(r, "round1") = 0 /\ PutAt(Other(r), "round1") = 0
    BY Zenon DEF GotAt, PutAt
  <2>5. Flight(Other(r), 0, line[r]) /\ Len(line[r]) = 0
    BY <2>1, NothingSent, Zenon
  <2>. QED  BY <2>2, <2>3, <2>4, <2>5 DEF SideOK, InFlight
<1>3. ASSUME NEW r \in Roles PROVE DOMAIN hs[r] = Fields /\ Sequence(line[r])
  <2>1. DOMAIN NewSide = Fields
    BY Zenon DEF NewSide, Fields
  <2>. QED  BY <1>1, <2>1, NothingSent, Zenon
<1>. QED  BY <1>1, <1>2, <1>3, Zenon DEF HandshakeInv, HandshakeShape

\* Nothing happens.
LEMMA HandshakeStutters == HandshakeInv /\ UNCHANGED handshake_vars => HandshakeInv'
<1>. SUFFICES ASSUME HandshakeInv, UNCHANGED handshake_vars PROVE HandshakeInv'
  BY Zenon
<1>1. who' = who /\ hs' = hs /\ line' = line
  BY Zenon DEF handshake_vars
<1>2. \A o, got, s : Flight(o, got, s)' = Flight(o, got, s)
  BY <1>1 DEF Flight, Sent, Hello
<1>. QED  BY <1>1, <1>2, ZenonT(30) DEF HandshakeInv, HandshakeShape, SideOK, Live, RoundsOK, Verified, Agrees, InFlight

\* Every reachable state of a session's set-up satisfies the invariant.
THEOREM HandshakeInvariant == HandshakeSpec => []HandshakeInv
<1>1. HandshakeInv /\ [HandshakeNext]_handshake_vars => HandshakeInv'
  <2>1. ASSUME HandshakeInv, NEW r \in Roles,
               \/ WriteRound(r) \/ ReadRound(r) \/ Admission(r) \/ WriteHello(r) \/ ReadHello(r)
               \/ TimedOut(r) \/ ReadEof(r)
        PROVE  HandshakeInv'
    BY <2>1, WriteRoundKeeps, ReadRoundKeeps, AdmissionKeeps, WriteHelloKeeps, ReadHelloKeeps, EndKeeps, Zenon
  <2>. QED  BY <2>1, HandshakeStutters, Zenon DEF HandshakeNext
<1>. QED  BY <1>1, HandshakeStarts, PTL DEF HandshakeSpec

\* The two sides of a registered session agree on it: manager.rs files the connection
\* under the identity at the other end, the pinned one if there is a pin and never its
\* own, of the same network and a supported version, with the common capabilities;
\* for any identities, networks, versions and capability sets.
THEOREM SidesAgree == HandshakeSpec => []SessionsAgree
<1>1. HandshakeInv => SessionsAgree
  <2>1. ASSUME HandshakeInv, NEW r \in Roles, hs[r].pc = "registered" PROVE Agrees(r)
    BY <2>1, Zenon DEF HandshakeInv, SideOK, Live
  <2>. QED  BY <2>1, Zenon DEF SessionsAgree, Agrees
<1>. QED  BY <1>1, HandshakeInvariant, PTL

=============================================================================
