----------------------------- MODULE RateLimiter -----------------------------
(***************************************************************************)
(* rate_limiter.rs: lazily refilled token buckets per socket address, the  *)
(* violation counter and the fast-path ban.  Time is counted in ticks;     *)
(* `Ticks` ticks are a second, so that a refill rate of r tokens a second  *)
(* is one token every Ticks \div r ticks and the sub-token remainder the   *)
(* code keeps in last_refill is exact.  A caller reads the clock before it *)
(* takes the map's lock: the instant it passes is up to MaxLag old.        *)
(***************************************************************************)
EXTENDS Integers, Sequences, FiniteSets

CONSTANTS
    Addrs,                                   \* socket addresses
    RateSpecs,                               \* bucket -> <<capacity, window>> of "capacity/window s"
    Kinds,                                   \* message types and classes
    Ticks, MaxTime, MaxLag,
    ban_threshold, ban_window, ban_duration,
    Never                                    \* None of the two Option<Instant>

VARIABLES
    time,
    limiter,        \* RateLimiter::peers, a partial function of Addrs
    spent,          \* history: spent[a][b][t], tokens a took from b since t
    refused         \* history: instants of a's refusals since its counter was cleared

rate_vars == <<time, limiter, spent, refused>>

Buckets == DOMAIN RateSpecs

(***************************************************************************)
(* parse_rate_spec: a bucket must hold and refill at least one token.      *)
(***************************************************************************)
ValidSpec(spec) == spec[2] > 0 /\ spec[1] > 0 /\ spec[1] \div spec[2] > 0

parse_rate_spec(spec) == [capacity |-> spec[1], refill |-> spec[1] \div spec[2]]

Capacity(b) == parse_rate_spec(RateSpecs[b]).capacity
\* Ticks until a bucket earns one token.
Period(b) == Ticks \div parse_rate_spec(RateSpecs[b]).refill

ASSUME RateAssumption ==
    /\ "main" \in Buckets
    /\ \A b \in Buckets : RateSpecs[b] \in Nat \X Nat /\ ValidSpec(RateSpecs[b])
    /\ Never \notin Nat
    /\ Ticks \in Nat /\ \A b \in Buckets : Period(b) > 0 /\ Period(b) * parse_rate_spec(RateSpecs[b]).refill = Ticks
    /\ {MaxLag, MaxTime, ban_window, ban_duration} \subseteq Nat
    /\ ban_threshold \in Nat \ {0}

(***************************************************************************)
(* TokenBucket                                                             *)
(***************************************************************************)
NewBucket(b, now) == [tokens |-> Capacity(b), last_refill |-> now]

\* Mutant: every check restarts the clock of the bucket.
RefillRestartsClock(b, bucket, now) ==
    LET space == Capacity(b) - bucket.tokens
        due == (now - bucket.last_refill) \div Period(b)
    IN  IF now =< bucket.last_refill THEN bucket
        ELSE [tokens |-> bucket.tokens + (IF due < space THEN due ELSE space),
              last_refill |-> now]

\* Mutant: the time a full bucket cannot use is banked.
RefillBanksExcess(b, bucket, now) ==
    LET space == Capacity(b) - bucket.tokens
        due == (now - bucket.last_refill) \div Period(b)
        add == IF due < space THEN due ELSE space
    IN  IF now =< bucket.last_refill \/ due < 1 THEN bucket
        ELSE [tokens |-> bucket.tokens + add,
              last_refill |-> bucket.last_refill + add * Period(b)]

\* Whole tokens are credited, and last_refill advances by the time credited;
\* time a full bucket cannot use is forfeited.
refill_at(b, bucket, now) ==
    LET space == Capacity(b) - bucket.tokens
        elapsed == now - bucket.last_refill
        due == elapsed \div Period(b)
        add == IF due < space THEN due ELSE space
    IN  IF now =< bucket.last_refill THEN bucket
        ELSE IF space = 0 THEN [bucket EXCEPT !.last_refill = now]
        ELSE IF due < 1 THEN bucket
        ELSE [tokens |-> bucket.tokens + add,
              last_refill |-> IF elapsed > space * Period(b) THEN now
                              ELSE bucket.last_refill + add * Period(b)]

take(bucket) == [bucket EXCEPT !.tokens = @ - 1]

(***************************************************************************)
(* PeerRateLimiter                                                         *)
(***************************************************************************)
\* Every message pays the main bucket; INV, BLOCK, TX and the two sync
\* requests also pay their own.
Charged(kind) == {"main"} \cup ({kind} \cap Buckets)

NewPeer(now) == [buckets |-> [b \in Buckets |-> NewBucket(b, now)],
                 violation_count |-> 0, last_violation |-> Never, banned_until |-> Never]

is_banned_at(p, now) == p.banned_until # Never /\ now < p.banned_until

\* guard, past its early return: an expired ban is lifted with its counters.
guard(p) ==
    IF p.banned_until = Never THEN p
    ELSE [p EXCEPT !.banned_until = Never, !.violation_count = 0, !.last_violation = Never]

\* The counter is reset after a quiet window, not by a sliding one.
record_violation(p, now) ==
    LET quiet == p.last_violation # Never /\ now - p.last_violation >= ban_window
        count == (IF quiet THEN 0 ELSE p.violation_count) + 1
    IN  [p EXCEPT !.violation_count = count,
                  !.last_violation = now,
                  !.banned_until = IF count >= ban_threshold THEN now + ban_duration ELSE @]

Refill(p, S, now) ==
    [p EXCEPT !.buckets = [b \in Buckets |-> IF b \in S THEN refill_at(b, @[b], now) ELSE @[b]]]

Affordable(p, S) == \A b \in S : p.buckets[b].tokens >= 1

Take(p, S) == [p EXCEPT !.buckets = [b \in Buckets |-> IF b \in S THEN take(@[b]) ELSE @[b]]]

(***************************************************************************)
(* RateLimiter: entries are created by the first use and never removed.    *)
(***************************************************************************)
peer_entry(a, now) == IF a \in DOMAIN limiter THEN limiter[a] ELSE NewPeer(now)

Store(a, p) == limiter' = [x \in DOMAIN limiter \cup {a} |-> IF x = a THEN p ELSE limiter[x]]

Instants == {t \in (time - MaxLag)..time : t >= 0}

RateInit ==
    /\ time = 0 /\ limiter = << >>
    /\ spent = [a \in Addrs |-> [b \in Buckets |-> [t \in 0..MaxTime |-> 0]]]
    /\ refused = [a \in Addrs |-> << >>]

\* check, check_rate and check_class of an address that is banned.
RejectBanned(a, now) ==
    /\ is_banned_at(peer_entry(a, now), now)
    /\ Store(a, peer_entry(a, now))
    /\ UNCHANGED <<time, spent, refused>>

Cleared(a, now) == IF peer_entry(a, now).banned_until = Never THEN refused[a] ELSE << >>

\* check_rate_at, check_class_at (and check_at, for a kind with no bucket).
Admit(a, kind, now) ==
    LET S == Charged(kind)
        p == Refill(guard(peer_entry(a, now)), S, now)
    IN  /\ ~is_banned_at(peer_entry(a, now), now)
        /\ Affordable(p, S)
        /\ Store(a, Take(p, S))
        /\ spent' = [spent EXCEPT ![a] = [b \in Buckets |-> [t \in 0..MaxTime |->
                        IF b \in S /\ t =< time THEN @[b][t] + 1 ELSE @[b][t]]]]
        /\ refused' = [refused EXCEPT ![a] = Cleared(a, now)]
        /\ UNCHANGED time

Refuse(a, kind, now) ==
    LET S == Charged(kind)
        p == Refill(guard(peer_entry(a, now)), S, now)
    IN  /\ ~is_banned_at(peer_entry(a, now), now)
        /\ ~Affordable(p, S)
        /\ Store(a, record_violation(p, now))
        /\ refused' = [refused EXCEPT ![a] = Append(Cleared(a, now), now)]
        /\ UNCHANGED <<time, spent>>

\* Explicit bans: the sync inbox overflowed.
ban_at(a, now) ==
    /\ Store(a, [peer_entry(a, now) EXCEPT !.banned_until = now + ban_duration])
    /\ UNCHANGED <<time, spent, refused>>

RateClock == time < MaxTime /\ time' = time + 1 /\ UNCHANGED <<limiter, spent, refused>>

RateNext ==
    \/ RateClock
    \/ \E a \in Addrs, now \in Instants :
          \/ RejectBanned(a, now) \/ ban_at(a, now)
          \/ \E kind \in Kinds : Admit(a, kind, now) \/ Refuse(a, kind, now)

RateSpec == RateInit /\ [][RateNext]_rate_vars

(***************************************************************************)
(* Properties                                                              *)
(***************************************************************************)
\* Types; with tokens =< capacity the subtraction in refill_at cannot
\* underflow, and last_refill is never ahead of the clock.
RateTypeOK ==
    /\ time \in 0..MaxTime /\ DOMAIN limiter \subseteq Addrs
    /\ \A a \in DOMAIN limiter :
          /\ \A b \in Buckets : /\ limiter[a].buckets[b].tokens \in 0..Capacity(b)
                                /\ limiter[a].buckets[b].last_refill \in 0..time
          /\ limiter[a].violation_count \in Nat
          /\ limiter[a].last_violation \in (0..time) \cup {Never}
          /\ limiter[a].banned_until \in Nat \cup {Never}
    /\ spent \in [Addrs -> [Buckets -> [0..MaxTime -> Nat]]]

\* ADR-0023's guarantee: whatever the order of checks, over every interval an
\* address gets at most the burst plus the rate times the length of the
\* interval (plus what a stale instant can add), from the main bucket and from
\* each sub-bucket.
WithinRate ==
    \A a \in Addrs, b \in Buckets : \A t \in 0..time :
        spent[a][b][t] * Period(b) =< Capacity(b) * Period(b) + (time - t) + MaxLag

\* No false refusals: a message is refused only when admitting it would take
\* some bucket over its burst plus rate in some interval.  Frequent
\* checks do not starve the refill.
RefusalsJustified ==
    [][\A a \in Addrs : Len(refused'[a]) > Len(refused[a]) =>
          \E b \in Buckets : \E t \in 0..time :
              (spent[a][b][t] + 1) * Period(b)
                  > Capacity(b) * Period(b) + (time - t) - MaxLag]_rate_vars

\* A ban is served and forgotten: the counter never exceeds the refusals since
\* the last ban ended, and at the threshold the address is banned; so a ban
\* takes ban_threshold fresh refusals, unless it was explicit.
BansEarned ==
    \A a \in DOMAIN limiter :
        /\ limiter[a].violation_count =< Len(refused[a])
        /\ limiter[a].violation_count >= ban_threshold => limiter[a].banned_until # Never

==============================================================================
