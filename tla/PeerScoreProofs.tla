--------------------------- MODULE PeerScoreProofs ---------------------------
(***************************************************************************)
(* Proof of the scoring formula's promise: as long as uptime alone keeps a *)
(* peer above the ban threshold, latency never bans a peer.                *)
(***************************************************************************)
EXTENDS PeerProofs

(***************************************************************************)
(* The false-positive guarantee of the scoring formula.                    *)
(***************************************************************************)
\* A quotient is at least k when the dividend is at least k times the divisor.
LEMMA DivAtLeast ==
    ASSUME NEW n \in Nat, NEW d \in Nat \ {0}, NEW k \in Nat, n >= k * d
    PROVE  n \div d >= k
<1>1. n \div d \in Int /\ n < d * (n \div d) + d
  OBVIOUS
<1> DEFINE q == n \div d
<1>2. q \in Int /\ n < d * q + d
  BY <1>1, Zenon
<1> HIDE DEF q
<1>3. ASSUME q < k PROVE FALSE
  <2>1. k - q - 1 \in Nat
    BY <1>2, <1>3
  <2>2. \A m \in Nat : d * (q + 1 + m) = d * q + d + d * m /\ d * m >= 0
    BY <1>2
  <2>3. k = q + 1 + (k - q - 1)
    BY <1>2
  <2>4. d * k = d * q + d + d * (k - q - 1) /\ d * (k - q - 1) >= 0
    BY <2>1, <2>2, <2>3, Zenon
  <2>5. d * k = k * d /\ d * k \in Nat /\ d * q \in Int /\ d * (k - q - 1) \in Nat
    BY <1>2, <2>1
  <2> QED
    BY <1>2, <2>4, <2>5
<1>4. q >= k
  BY <1>2, <1>3
<1> QED
  BY <1>4, Zenon DEF q

\* Min({x, 100}) and Max({x, 1}) clamp.
LEMMA Clamped ==
    ASSUME NEW x \in Nat
    PROVE  /\ Min({x, 100}) \in 0..100
           /\ Max({x, 1}) \in Nat \ {0}
<1>1. Min({x, 100}) = IF x =< 100 THEN x ELSE 100
  <2>1. CASE x =< 100
    BY <2>1 DEF Min
  <2>2. CASE x > 100
    BY <2>2 DEF Min
  <2> QED
    BY <2>1, <2>2
<1>2. Max({x, 1}) = IF x >= 1 THEN x ELSE 1
  <2>1. CASE x >= 1
    BY <2>1 DEF Max
  <2>2. CASE x = 0
    BY <2>2 DEF Max
  <2> QED
    BY <2>1, <2>2
<1> QED
  BY <1>1, <1>2

RecordType == [latency : Nat, invalid : Nat, violation : Nat, uptime : Nat, observed : Nat,
               anchor : Nat, responsive : BOOLEAN, verified : BOOLEAN]

\* uptime_norm is a percentage.
LEMMA UptimeNorm ==
    ASSUME NEW r \in RecordType
    PROVE  uptime_norm(r) \in 0..100
<1>1. CASE r.observed = 0
  BY <1>1 DEF uptime_norm
<1>2. CASE r.observed # 0
  <2>1. r.observed \in Nat \ {0} /\ 100 * r.uptime \in Nat
    BY <1>2 DEF RecordType
  <2>2. (100 * r.uptime) \div r.observed \in Nat
    BY <2>1
  <2> QED
    BY <1>2, <2>2, Clamped, Zenon DEF uptime_norm
<1> QED
  BY <1>1, <1>2, Zenon

\* "(w_uptime)/(w_latency + w_uptime)", the score of the slowest peer that answers in
\* every window, is not below the ban threshold; Config::validate refuses weights
\* that sum to 0.
UptimeBacks ==
    /\ w_latency + w_uptime > 0
    /\ 100 * w_uptime >= temp_ban_threshold * (w_latency + w_uptime)

\* compute_score and decide: no ban without a counter or a silent window.
LEMMA BackedByUptime ==
    ASSUME UptimeBacks, NEW r \in RecordType, r.invalid = 0, r.violation = 0, uptime_norm(r) >= 100
    PROVE  decide(compute_score(r)) \notin {"TempBan", "PersistentBan"}
<1>1. latency_norm(r) \in 0..100
  BY Clamped, Zenon DEF latency_norm, RecordType
<1>2. uptime_norm(r) = 100
  BY UptimeNorm
<1>3. InvalidWeight(r) = 0 /\ ViolationWeight(r) = 0
  <2>1. Max({invalid_full_weight, 1}) \in Nat \ {0} /\ Max({violation_full_weight, 1}) \in Nat \ {0}
    BY Clamped, ScoringAssumption, Zenon
  <2>2. w_invalid * r.invalid = 0 /\ w_violation * r.violation = 0
    BY ScoringAssumption
  <2>3. \A d \in Nat \ {0} : 0 \div d = 0
    OBVIOUS
  <2> QED
    BY <2>1, <2>2, <2>3, Zenon DEF InvalidWeight, ViolationWeight
<1> DEFINE n == w_latency * (100 - latency_norm(r)) + w_uptime * uptime_norm(r)
           d == w_latency + w_uptime
<1>4. d \in Nat \ {0} /\ n \in Nat /\ n >= 100 * w_uptime
  <2>1. w_latency \in Nat /\ w_uptime \in Nat
    BY ScoringAssumption, Zenon
  <2>2. 100 - latency_norm(r) \in Nat
    BY <1>1
  <2>3. w_latency * (100 - latency_norm(r)) \in Nat
    BY <2>1, <2>2
  <2>4. w_uptime * uptime_norm(r) = 100 * w_uptime
    BY <1>2, <2>1
  <2> QED
    BY <2>1, <2>3, <2>4 DEF UptimeBacks
<1>5. n >= temp_ban_threshold * d
  <2>1. temp_ban_threshold * d \in Int /\ 100 * w_uptime \in Int
    BY <1>4, ScoringAssumption
  <2> QED
    BY <1>4, <2>1 DEF UptimeBacks
<1>6. compute_score(r) = Max({(n \div d) - 0 - 0, 0})
  BY <1>3, <1>4 DEF compute_score
<1> HIDE DEF n, d
<1>7. n \div d \in Int /\ n \div d >= temp_ban_threshold
  <2>1. temp_ban_threshold \in Nat
    BY ScoringAssumption
  <2>2. n \div d \in Int
    BY <1>4
  <2>3. n \div d >= temp_ban_threshold
    BY <1>4, <1>5, <2>1, DivAtLeast, Zenon
  <2> QED
    BY <2>2, <2>3, Zenon
<1>8. compute_score(r) >= temp_ban_threshold /\ compute_score(r) \in Nat
  BY <1>6, <1>7, MaxZero, ScoringAssumption
<1> QED
  BY <1>8, ScoringAssumption DEF decide

\* A task whose loop runs, or is about to.
Running(s) == s \in loops \/ sess[s].pc \in {"start", "up"}

\* Records are well formed, in the store and in the file; the identity of a running
\* session has one, and one with a violation when its loop is about to ban it.
KnownOK(s) ==
    /\ Running(s) => sess[s].peer \in DOMAIN peers
    /\ todo[s].then = "ban" => peers[sess[s].peer].violation > 0
RecordsOK(known) == \A p \in DOMAIN known : known[p] \in RecordType
ScoreInv ==
    /\ RecordsOK(peers) /\ \A doc \in {disk} \cup copy : RecordsOK(doc.known)
    /\ \A s \in Sessions : KnownOK(s)

\* What a step does to the records and to the sessions' identities.
RecordsGrow ==
    /\ DOMAIN peers \subseteq DOMAIN peers' /\ RecordsOK(peers')
    /\ \A p \in DOMAIN peers : peers'[p].violation >= peers[p].violation
KnownKept(s) ==
    /\ Running(s)' => \/ sess'[s].peer \in DOMAIN peers'
                      \/ Running(s) /\ sess'[s].peer = sess[s].peer
    /\ todo'[s].then = "ban" => \/ peers'[sess'[s].peer].violation > 0
                                \/ todo[s].then = "ban" /\ sess'[s].peer = sess[s].peer

\* Such a step keeps the invariant of the records.
LEMMA ScoreStep ==
    ASSUME ScoreInv, PeersInv, RecordsGrow, \A doc \in {disk'} \cup copy' : RecordsOK(doc.known),
           \A s \in Sessions : KnownKept(s)
    PROVE  ScoreInv'
<1>1. RecordsOK(peers')
  BY Zenon DEF RecordsGrow
<1>2. ASSUME NEW s \in Sessions PROVE KnownOK(s)'
  <2>1. KnownOK(s) /\ KnownKept(s) /\ StageOK(s)
    BY Zenon DEF ScoreInv, PeersInv, PoolInv, StagesOK
  <2>2. Running(s)' => sess'[s].peer \in DOMAIN peers'
    BY <2>1, Zenon DEF KnownOK, KnownKept, RecordsGrow
  <2>3. ASSUME todo'[s].then = "ban" PROVE peers'[sess'[s].peer].violation > 0
    <3>1. CASE peers'[sess'[s].peer].violation > 0
      BY <3>1, Zenon
    <3>2. CASE todo[s].then = "ban" /\ sess'[s].peer = sess[s].peer
      <4> DEFINE p == sess[s].peer
      <4>1. p \in DOMAIN peers /\ peers[p].violation > 0
        BY <2>1, <3>2, Zenon DEF KnownOK, StageOK, Running
      <4>2. peers'[p].violation >= peers[p].violation /\ p \in DOMAIN peers'
        BY <4>1, Zenon DEF RecordsGrow
      <4>3. peers[p].violation \in Nat /\ peers'[p].violation \in Nat
        <5>1. peers[p] \in RecordType /\ peers'[p] \in RecordType
          BY <4>1, <4>2, <1>1, Zenon DEF ScoreInv, RecordsOK
        <5> QED
          BY <5>1, Zenon DEF RecordType
      <4> QED
        BY <3>2, <4>1, <4>2, <4>3
    <3> QED
      BY <2>1, <2>3, <3>1, <3>2, Zenon DEF KnownKept
  <2> QED
    BY <2>2, <2>3, Zenon DEF KnownOK
<1> QED
  BY <1>1, <1>2, Zenon DEF ScoreInv

\* A step that leaves the records alone.
LEMMA GrowSame ==
    ASSUME ScoreInv, peers' = peers
    PROVE  RecordsGrow
<1>1. \A p \in DOMAIN peers : peers[p].violation \in Nat
  BY Zenon DEF ScoreInv, RecordsOK, RecordType
<1> QED
  BY <1>1 DEF RecordsGrow, ScoreInv

\* A step that replaces or adds one record.
LEMMA GrowOne ==
    ASSUME ScoreInv, NEW p, NEW r \in RecordType,
           DOMAIN peers' = DOMAIN peers \cup {p},
           \A q \in DOMAIN peers' : peers'[q] = IF q = p THEN r ELSE peers[q],
           p \in DOMAIN peers => r.violation >= peers[p].violation
    PROVE  RecordsGrow
<1>1. \A q \in DOMAIN peers : peers[q] \in RecordType /\ peers[q].violation \in Nat
  BY Zenon DEF ScoreInv, RecordsOK, RecordType
<1>2. RecordsOK(peers')
  BY <1>1, Zenon DEF RecordsOK
<1>3. ASSUME NEW q \in DOMAIN peers PROVE peers'[q].violation >= peers[q].violation
  <2>1. CASE q = p
    BY <1>3, <2>1, Zenon
  <2>2. CASE q # p
    BY <1>1, <1>3, <2>2
  <2> QED
    BY <2>1, <2>2, Zenon
<1> QED
  BY <1>2, <1>3, Zenon DEF RecordsGrow

\* Bans that a step adds or replaces, other than the operator's, have a reason.
BansJustified ==
    \A p \in DOMAIN ban_state' :
        (/\ ban_state'[p].reason # "Manual"
         /\ p \notin DOMAIN ban_state \/ ban_state'[p] # ban_state[p]
         /\ p \in DOMAIN peers' /\ peers'[p].invalid + peers'[p].violation = 0)
            => uptime_norm(peers'[p]) < 100

\* A decision on the new record of an identity.
LEMMA DecisionJustified ==
    ASSUME UptimeBacks, NEW p, NEW r \in RecordType, NEW reason, peers'[p] = r,
           ban_state' = apply_decision(ban_state, p, reason, decide(compute_score(r)))
    PROVE  BansJustified
<1> DEFINE decision == decide(compute_score(r))
<1>1. \A q \in DOMAIN ban_state' : q # p => q \in DOMAIN ban_state /\ ban_state'[q] = ban_state[q]
  BY Zenon DEF apply_decision, StoreBan, Put
<1>2. CASE decision \notin {"TempBan", "PersistentBan"}
  BY <1>2, Zenon DEF apply_decision, BansJustified
<1>3. CASE decision \in {"TempBan", "PersistentBan"}
  <2>1. r.invalid \in Nat /\ r.violation \in Nat /\ uptime_norm(r) \in 0..100
    BY UptimeNorm, Zenon DEF RecordType
  <2>2. ASSUME r.invalid + r.violation = 0 PROVE uptime_norm(r) < 100
    <3>1. r.invalid = 0 /\ r.violation = 0
      BY <2>1, <2>2
    <3>2. ~(uptime_norm(r) >= 100)
      BY <1>3, <3>1, BackedByUptime, Zenon
    <3> QED
      BY <2>1, <3>2
  <2> QED
    BY <1>1, <2>2, Zenon DEF BansJustified
<1> QED
  BY <1>2, <1>3, Zenon

\* The updates of a record's fields.
LEMMA Updated ==
    ASSUME NEW r \in RecordType, NEW u \in Nat
    PROVE  /\ [r EXCEPT !.invalid = u] \in RecordType
           /\ [r EXCEPT !.invalid = u].violation = r.violation
           /\ [r EXCEPT !.violation = u] \in RecordType
           /\ [r EXCEPT !.violation = u].violation = u
           /\ [r EXCEPT !.latency = u] \in RecordType
           /\ [r EXCEPT !.latency = u].violation = r.violation
           /\ [r EXCEPT !.responsive = TRUE] \in RecordType
           /\ [r EXCEPT !.responsive = TRUE].violation = r.violation
BY Zenon DEF RecordType

\* note_message and the counters keep a record a record.
LEMMA CountedRecord ==
    ASSUME NEW r \in RecordType, NEW counter \in {"invalid", "violation"}
    PROVE  LET n == note_message([r EXCEPT ![counter] = @ + 1])
           IN  /\ n \in RecordType /\ n.violation >= r.violation
               /\ counter = "violation" => n.violation > 0
<1> DEFINE m == [r EXCEPT ![counter] = @ + 1]
<1>1. r.invalid + 1 \in Nat /\ r.violation + 1 \in Nat /\ r.violation \in Nat
  BY DEF RecordType
<1>2. /\ m \in RecordType
      /\ m.violation = IF counter = "violation" THEN r.violation + 1 ELSE r.violation
  <2>1. CASE counter = "invalid"
    <3> DEFINE u == r.invalid + 1
    <3>1. m = [r EXCEPT !.invalid = u] /\ u \in Nat
      BY <1>1, <2>1, Zenon
    <3> HIDE DEF m, u
    <3> QED
      BY <2>1, <3>1, Updated, Zenon
  <2>2. CASE counter = "violation"
    <3> DEFINE u == r.violation + 1
    <3>1. m = [r EXCEPT !.violation = u] /\ u \in Nat
      BY <1>1, <2>2, Zenon
    <3> HIDE DEF m, u
    <3>2. m \in RecordType /\ m.violation = u
      BY <3>1, Updated, Zenon
    <3> QED
      BY <2>2, <3>2, Zenon DEF u
  <2> QED
    BY <2>1, <2>2, Zenon
<1> HIDE DEF m
<1>3. note_message(m) \in RecordType /\ note_message(m).violation = m.violation
  BY <1>2, Updated, Zenon DEF note_message
<1>4. /\ note_message(m) \in RecordType /\ note_message(m).violation >= r.violation
      /\ counter = "violation" => note_message(m).violation > 0
  BY <1>1, <1>2, <1>3
<1> QED
  BY <1>4, Zenon DEF m

\* accrue_uptime keeps a record a record and its counters as they are.
LEMMA AccruedRecord ==
    ASSUME NEW r \in RecordType, NEW t \in Nat
    PROVE  accrue_uptime(r, t) \in RecordType /\ accrue_uptime(r, t).violation = r.violation
<1>1. r.uptime \in Nat /\ r.observed \in Nat /\ r.anchor \in Nat
  BY Zenon DEF RecordType
<1>2. CASE t - r.anchor =< 0
  BY <1>2, Zenon DEF accrue_uptime
<1>3. CASE t - r.anchor > 0
  <2> DEFINE u == IF r.responsive THEN r.uptime + (t - r.anchor) ELSE r.uptime
             o == r.observed + (t - r.anchor)
  <2>1. u \in Nat /\ o \in Nat
    BY <1>1, <1>3
  <2>2. accrue_uptime(r, t)
          = [r EXCEPT !.observed = o, !.uptime = u, !.anchor = t, !.responsive = FALSE]
    BY <1>1, <1>3 DEF accrue_uptime
  <2> HIDE DEF o, u
  <2> QED
    BY <2>1, <2>2, Zenon DEF RecordType
<1> QED
  BY <1>1, <1>2, <1>3

\* What is to be shown of every step but a restart.
ScoreGoal == ScoreInv' /\ (UptimeBacks => BansJustified)

\* An event of a known identity.
LEMMA ObserveScores ==
    ASSUME ScoreInv, PeersInv, NEW a \in Actors, NEW p \in DOMAIN peers, NEW r \in RecordType,
           NEW reason, NEW then, Observe(a, p, r, reason, then),
           r.violation >= peers[p].violation,
           (a \in Sessions /\ then = "ban") => sess[a].peer = p /\ r.violation > 0
    PROVE  ScoreGoal
<1> DEFINE decision == decide(compute_score(r))
<1>1. /\ peers' = [peers EXCEPT ![p] = r]
      /\ ban_state' = apply_decision(ban_state, p, reason, decision)
      /\ todo' = [todo EXCEPT ![a] = Outcome(p, decision, then)]
      /\ UNCHANGED <<loops, sess, disk, copy>>
  BY Zenon DEF Observe, net, file
<1>2. peers'[p] = r
  BY <1>1, Zenon
<1>3. UptimeBacks => BansJustified
  BY <1>1, <1>2, DecisionJustified, Zenon
<1>4. RecordsGrow
  BY <1>1, GrowOne
<1>5. ASSUME NEW s \in Sessions PROVE KnownKept(s)
  <2>1. Running(s)' => Running(s) /\ sess'[s].peer = sess[s].peer
    BY <1>1, Zenon DEF Running
  <2>2. todo \in [Actors -> TodoType] /\ s \in Actors
    BY Zenon DEF PeersInv, PoolInv, TablesOK, Actors
  <2>3. CASE s = a
    <3>1. todo'[s].then = then
      BY <1>1, <2>2, <2>3, Zenon DEF Outcome
    <3> QED
      BY <1>1, <1>2, <2>1, <2>3, <3>1, Zenon DEF KnownKept
  <2>4. CASE s # a
    <3>1. todo'[s] = todo[s] /\ sess' = sess
      BY <1>1, <2>2, <2>4, Zenon
    <3> QED
      BY <2>1, <3>1, Zenon DEF KnownKept
  <2> QED
    BY <2>3, <2>4, Zenon
<1>6. \A doc \in {disk'} \cup copy' : RecordsOK(doc.known)
  BY <1>1, Zenon DEF ScoreInv
<1> QED
  BY <1>3, <1>4, <1>5, <1>6, ScoreStep, Zenon DEF ScoreGoal

\* A step that changes no record and adds no ban.
LEMMA QuietScores ==
    ASSUME ScoreInv, PeersInv, peers' = peers, \A doc \in {disk'} \cup copy' : RecordsOK(doc.known),
           \A s \in Sessions : KnownKept(s),
           \A q \in DOMAIN ban_state' : q \in DOMAIN ban_state /\ ban_state'[q] = ban_state[q]
    PROVE  ScoreGoal
BY GrowSame, ScoreStep, Zenon DEF ScoreGoal, BansJustified

\* A counter of an identity goes up; nobody without a record has a loop.
LEMMA EventScores ==
    ASSUME ScoreInv, PeersInv, NEW a \in Actors, NEW p, NEW counter \in {"invalid", "violation"},
           NEW reason, NEW then, record_event(a, p, counter, reason, then),
           a \in Sessions => sess[a].peer = p /\ Running(a) /\ counter = "violation"
    PROVE  ScoreGoal
<1>1. CASE p \in DOMAIN peers
  <2> DEFINE r == note_message([peers[p] EXCEPT ![counter] = @ + 1])
  <2>1. peers[p] \in RecordType
    BY <1>1, Zenon DEF ScoreInv, RecordsOK
  <2>2. /\ r \in RecordType /\ r.violation >= peers[p].violation
        /\ counter = "violation" => r.violation > 0
    BY <2>1, CountedRecord, Zenon
  <2>3. Observe(a, p, r, reason, then)
    BY <1>1, Zenon DEF record_event
  <2> HIDE DEF r
  <2> QED
    BY <1>1, <2>2, <2>3, ObserveScores, Zenon
<1>2. CASE p \notin DOMAIN peers
  <2>1. a \notin Sessions
    BY <1>2, Zenon DEF ScoreInv, KnownOK
  <2>2. /\ todo' = [todo EXCEPT ![a].then = then]
        /\ UNCHANGED <<peers, ban_state, sess, loops, disk, copy>>
    BY <1>2, Zenon DEF record_event, store, net, file
  <2>3. todo \in [Actors -> TodoType]
    BY Zenon DEF PeersInv, PoolInv, TablesOK
  <2>4. ASSUME NEW s \in Sessions PROVE KnownKept(s)
    <3>1. todo'[s] = todo[s]
      BY <2>1, <2>2, <2>3, Zenon DEF Actors
    <3> QED
      BY <2>2, <3>1, Zenon DEF KnownKept, Running
  <2>5. \A doc \in {disk'} \cup copy' : RecordsOK(doc.known)
    BY <2>2, Zenon DEF ScoreInv
  <2> QED
    BY <2>2, <2>4, <2>5, QuietScores, Zenon
<1> QED
  BY <1>1, <1>2, Zenon

\* An explicit ban: the operator's, or of an identity with a violation.
LEMMA BanScores ==
    ASSUME ScoreInv, PeersInv, NEW a \in Actors, NEW p, NEW reason, NEW duration, NEW persistent,
           NEW then, then # "ban", BanPeer(a, p, reason, duration, persistent, then),
           reason = "Manual" \/ (p \in DOMAIN peers /\ peers[p].violation > 0)
    PROVE  ScoreGoal
<1>1. /\ ban_state' = StoreBan(ban_state, p, reason, duration, persistent)
      /\ todo' = [todo EXCEPT ![a] = [drop |-> {p}, save |-> persistent, then |-> then]]
      /\ UNCHANGED <<peers, sess, loops, disk, copy>>
  BY Zenon DEF BanPeer, net, file
<1>2. ASSUME NEW s \in Sessions PROVE KnownKept(s)
  <2>1. todo \in [Actors -> TodoType] /\ s \in Actors
    BY Zenon DEF PeersInv, PoolInv, TablesOK, Actors
  <2>2. todo'[s].then = "ban" => todo[s].then = "ban"
    BY <1>1, <2>1, Zenon
  <2> QED
    BY <1>1, <2>2, Zenon DEF KnownKept, Running
<1>3. /\ \A q \in DOMAIN ban_state' : q # p => q \in DOMAIN ban_state /\ ban_state'[q] = ban_state[q]
      /\ ban_state'[p].reason = reason
  BY <1>1, Zenon DEF StoreBan, Put
<1>4. BansJustified
  <2>1. CASE reason = "Manual"
    BY <1>3, <2>1, Zenon DEF BansJustified
  <2>2. CASE p \in DOMAIN peers /\ peers[p].violation > 0
    <3>1. peers[p].invalid \in Nat /\ peers[p].violation \in Nat
      BY <2>2, Zenon DEF ScoreInv, RecordsOK, RecordType
    <3>2. peers'[p].invalid + peers'[p].violation # 0
      BY <1>1, <2>2, <3>1
    <3> QED
      BY <1>3, <3>2, Zenon DEF BansJustified
  <2> QED
    BY <2>1, <2>2, Zenon
<1>5. \A doc \in {disk'} \cup copy' : RecordsOK(doc.known)
  BY <1>1, Zenon DEF ScoreInv
<1> QED
  BY <1>1, <1>2, <1>4, <1>5, GrowSame, ScoreStep, Zenon DEF ScoreGoal

\* A tick accrues uptime and decides on every record that is not banned.
LEMMA TickScores ==
    ASSUME ScoreInv, PeersInv, tick_at
    PROVE  ScoreGoal
<1> DEFINE minted == {p \in Rescored : TickDecision(p) \in {"TempBan", "PersistentBan"}}
<1>1. /\ peers' = [p \in DOMAIN peers |-> accrue_uptime(peers[p], now)]
      /\ \A p \in DOMAIN ban_state' :
            p \in minted \/ (p \in DOMAIN ban_state /\ ban_state'[p] = ban_state[p])
      /\ UNCHANGED <<sess, loops, disk, copy>>
  BY Zenon DEF tick_at, net, file
<1>2. PICK save : todo' = [todo EXCEPT ![ticker] = [drop |-> minted, save |-> save, then |-> "none"]]
  BY Zenon DEF tick_at
<1>3. ASSUME NEW p \in DOMAIN peers
      PROVE  /\ accrue_uptime(peers[p], now) \in RecordType
             /\ accrue_uptime(peers[p], now).violation = peers[p].violation
             /\ peers[p].violation \in Nat
  <2>1. peers[p] \in RecordType /\ now \in Nat
    BY Zenon DEF ScoreInv, RecordsOK, PeersInv, StoreInv, StoreOK
  <2>2. peers[p].violation \in Nat
    BY <2>1, Zenon DEF RecordType
  <2> QED
    BY <2>1, <2>2, AccruedRecord, Zenon
<1>4. RecordsGrow
  BY <1>1, <1>3 DEF RecordsGrow, RecordsOK
<1>5. ASSUME NEW s \in Sessions PROVE KnownKept(s)
  <2>1. ticker \notin Nat /\ Sessions \subseteq Nat
    BY PeersAssumption DEF ticker
  <2>2. todo \in [Actors -> TodoType] /\ s \in Actors
    BY Zenon DEF PeersInv, PoolInv, TablesOK, Actors
  <2>3. todo'[s] = todo[s]
    BY <1>2, <2>1, <2>2, Zenon
  <2> QED
    BY <1>1, <2>3, Zenon DEF KnownKept, Running
<1>6. ASSUME UptimeBacks PROVE BansJustified
  <2> SUFFICES ASSUME NEW p \in minted, peers'[p].invalid + peers'[p].violation = 0
               PROVE  uptime_norm(peers'[p]) < 100
    BY <1>1, Zenon DEF BansJustified
  <2> DEFINE r == peers'[p]
  <2>1. p \in DOMAIN peers /\ r = accrue_uptime(peers[p], now)
    BY <1>1, Zenon DEF Rescored
  <2>2. r \in RecordType /\ decide(compute_score(r)) \in {"TempBan", "PersistentBan"}
    BY <1>3, <2>1, Zenon DEF TickDecision
  <2> HIDE DEF r
  <2>3. r.invalid \in Nat /\ r.violation \in Nat /\ uptime_norm(r) \in 0..100
    BY <2>2, UptimeNorm, Zenon DEF RecordType
  <2>4. r.invalid = 0 /\ r.violation = 0
    BY <2>3 DEF r
  <2>5. ~(uptime_norm(r) >= 100)
    BY <1>6, <2>2, <2>4, BackedByUptime, Zenon
  <2>6. uptime_norm(r) < 100
    BY <2>3, <2>5
  <2> QED
    BY <2>6, Zenon DEF r
<1>7. \A doc \in {disk'} \cup copy' : RecordsOK(doc.known)
  BY <1>1, Zenon DEF ScoreInv
<1> QED
  BY <1>4, <1>5, <1>6, <1>7, ScoreStep, Zenon DEF ScoreGoal

\* add_peer: a record, with no less violations than before.
LEMMA AddedRecord ==
    ASSUME ScoreInv, PeersInv, NEW p, NEW verified \in BOOLEAN
    PROVE  LET known == add_peer(peers, p, verified)
           IN  /\ DOMAIN known = DOMAIN peers \cup {p}
               /\ \A q \in DOMAIN known : q # p => known[q] = peers[q]
               /\ known[p] \in RecordType
               /\ p \in DOMAIN peers => known[p].violation = peers[p].violation
<1> DEFINE known == add_peer(peers, p, verified)
<1>1. CASE p \in DOMAIN peers
  <2>1. known = [peers EXCEPT ![p].verified = @ \/ verified, ![p].responsive = @ \/ verified]
    BY <1>1, Zenon DEF add_peer
  <2>2. peers[p] \in RecordType
    BY <1>1, Zenon DEF ScoreInv, RecordsOK
  <2> DEFINE b == peers[p].verified \/ verified
             c == peers[p].responsive \/ verified
  <2>3. b \in BOOLEAN /\ c \in BOOLEAN
    BY Zenon
  <2>4. /\ DOMAIN known = DOMAIN peers /\ \A q \in DOMAIN peers : q # p => known[q] = peers[q]
        /\ known[p] = [peers[p] EXCEPT !.verified = b, !.responsive = c]
    BY <1>1, <2>1, <2>2, Zenon DEF RecordType
  <2> HIDE DEF b, c, known
  <2>5. known[p] \in RecordType /\ known[p].violation = peers[p].violation
    BY <2>2, <2>3, <2>4, Zenon DEF RecordType
  <2>6. /\ DOMAIN known = DOMAIN peers \cup {p}
        /\ \A q \in DOMAIN known : q # p => known[q] = peers[q]
    BY <1>1, <2>4, Zenon
  <2> QED
    BY <2>5, <2>6, Zenon DEF known
<1>2. CASE p \notin DOMAIN peers
  <2>1. now \in Nat
    BY Zenon DEF PeersInv, StoreInv, StoreOK
  <2>2. NewRecord(verified) \in RecordType
    BY <2>1, Zenon DEF NewRecord, RecordType
  <2> QED
    BY <1>2, <2>2, Zenon DEF add_peer, Put
<1> QED
  BY <1>1, <1>2, Zenon

\* Steps of a session's task that leave the records alone.
LEMMA TaskScores ==
    ASSUME ScoreInv, PeersInv, NEW s \in Sessions, UNCHANGED <<store, todo, file>>,
           sess' = [sess EXCEPT ![s] = sess'[s]],
           \/ loops' = loops /\ s \notin loops
              /\ sess'[s].pc \in {"idle", "handshake", "hello", "insert", "record"}
           \/ StartLoop(s)
    PROVE  ScoreGoal
<1>1. /\ UNCHANGED <<peers, ban_state, disk, copy>> /\ sess \in [Sessions -> SessionType]
      /\ StageOK(s) /\ KnownOK(s)
  BY Zenon DEF store, file, PeersInv, PoolInv, TablesOK, StagesOK, ScoreInv
<1>2. \A t \in Sessions : t # s => sess'[t] = sess[t]
  BY <1>1, Zenon
<1>3. ASSUME NEW t \in Sessions PROVE KnownKept(t)
  <2>1. CASE /\ loops' = loops /\ s \notin loops
             /\ sess'[s].pc \in {"idle", "handshake", "hello", "insert", "record"}
    <3>1. CASE t = s
      BY <1>1, <2>1, <3>1, Zenon DEF KnownKept, Running, StageOK
    <3>2. CASE t # s
      BY <1>1, <1>2, <2>1, <3>2, Zenon DEF KnownKept, Running
    <3> QED
      BY <3>1, <3>2, Zenon
  <2>2. CASE StartLoop(s)
    <3> DEFINE p == sess[s].peer
               d == IF sess[s].out THEN pool[p] ELSE s
    <3>1. /\ sess[s].pc = "start" /\ loops' = IF d \in half THEN loops \cup {d} ELSE loops
          /\ s \in loops' => sess' = [sess EXCEPT ![s].pc = "up", ![s].out = FALSE]
          /\ s \notin loops' => sess' = [sess EXCEPT ![s] = Idle]
      BY <2>2, Zenon DEF StartLoop, End
    <3>2. p \in DOMAIN peers /\ p \in Peers
      BY <1>1, <3>1, Zenon DEF KnownOK, Running, StageOK
    <3>3. d \in half => d \in Sessions /\ sess[d].peer = p
      <4>1. CASE ~sess[s].out
        BY <4>1, Zenon
      <4>2. CASE sess[s].out /\ pool[p] \in half
        <5>1. pool[p] \in Sessions /\ NoSession \notin Sessions /\ p \in Connected
          BY <3>2, <4>2, PeersAssumption, Zenon DEF PeersInv, PoolInv, TablesOK, Connected
        <5> QED
          BY <4>2, <5>1, Zenon DEF PeersInv, PoolInv, NoZombies
      <4> QED
        BY <4>1, <4>2, Zenon
    <3>4. s \in loops' => sess'[s].peer = p
      BY <1>1, <3>1, ZenonT(30) DEF SessionType
    <3>5. s \notin loops' => sess'[s].pc = "idle"
      BY <1>1, <3>1 DEF Idle
    <3> HIDE DEF d
    <3>6. CASE t = s
      <4>1. CASE s \in loops'
        BY <1>1, <3>2, <3>4, <3>6, <4>1, Zenon DEF KnownKept
      <4>2. CASE s \notin loops'
        <5>1. s \notin loops
          BY <3>1, <4>2, Zenon
        <5> QED
          BY <1>1, <3>5, <3>6, <4>2, <5>1, Zenon DEF KnownKept, Running, StageOK
      <4> QED
        BY <4>1, <4>2, Zenon
    <3>7. CASE t # s
      BY <1>1, <1>2, <3>1, <3>2, <3>3, <3>7, Zenon DEF KnownKept, Running
    <3> QED
      BY <3>6, <3>7, Zenon
  <2> QED
    BY <2>1, <2>2, Zenon
<1>4. \A doc \in {disk'} \cup copy' : RecordsOK(doc.known)
  BY <1>1, Zenon DEF ScoreInv
<1> QED
  BY <1>1, <1>3, <1>4, QuietScores, Zenon

\* The steps of TaskScores, by name.
LEMMA AdmissionScores ==
    ASSUME ScoreInv, PeersInv, NEW s \in Sessions,
           \/ \E p \in limits.peers, r \in Ranges :
                 (\E pinned \in BOOLEAN : Dial(s, p, r, pinned)) \/ accept_inbound(s, p, r)
           \/ Authenticated(s) \/ HelloFailedOut(s) \/ HelloDone(s) \/ Insert(s) \/ StartLoop(s)
    PROVE  ScoreGoal
<1>1. sess \in [Sessions -> SessionType]
  BY Zenon DEF PeersInv, PoolInv, TablesOK
<1>2. CASE \E p \in limits.peers, r \in Ranges :
              (\E pinned \in BOOLEAN : Dial(s, p, r, pinned)) \/ accept_inbound(s, p, r)
  <2>1. PICK p, r, out :
          sess' = [sess EXCEPT ![s] = [pc |-> "handshake", peer |-> p, range |-> r, out |-> out]]
    BY <1>2, ZenonT(30) DEF Dial, accept_inbound
  <2>2. s \notin loops /\ UNCHANGED <<store, loops, todo, file>>
    BY <1>2, ZenonT(30) DEF Dial, accept_inbound, Available, Unused
  <2>3. sess' = [sess EXCEPT ![s] = sess'[s]] /\ sess'[s].pc = "handshake"
    BY <1>1, <2>1, Zenon
  <2> QED
    BY <2>2, <2>3, TaskScores, Zenon
<1>3. CASE Authenticated(s) \/ HelloFailedOut(s) \/ HelloDone(s) \/ Insert(s)
  <2>1. /\ sess[s].pc \in {"handshake", "hello", "insert"}
        /\ UNCHANGED <<store, loops, todo, file>>
        /\ \/ sess' = [sess EXCEPT ![s] = Idle]
           \/ \E pc \in {"hello", "insert", "record"} : sess' = [sess EXCEPT ![s].pc = pc]
    BY <1>3, Zenon DEF Authenticated, HelloFailedOut, HelloDone, Insert, Go, End
  <2>2. s \notin loops
    BY <2>1, NotRegistered, Zenon DEF PeersInv
  <2>3. /\ sess' = [sess EXCEPT ![s] = sess'[s]]
        /\ sess'[s].pc \in {"idle", "handshake", "hello", "insert", "record"}
    BY <1>1, <2>1 DEF Idle, SessionType
  <2> QED
    BY <2>1, <2>2, <2>3, TaskScores, Zenon
<1>4. CASE StartLoop(s)
  <2>1. UNCHANGED <<store, todo, file>> /\ sess' = [sess EXCEPT ![s] = sess'[s]]
    BY <1>1, <1>4, Zenon DEF StartLoop, End
  <2> QED
    BY <1>4, <2>1, TaskScores, Zenon
<1> QED
  BY <1>2, <1>3, <1>4, Zenon

\* An identity becomes known, or is seen verified.
LEMMA AddScores ==
    ASSUME ScoreInv, PeersInv, NEW p, NEW verified \in BOOLEAN,
           peers' = add_peer(peers, p, verified), UNCHANGED <<ban_state, loops, todo, disk, copy>>,
           \A s \in Sessions : /\ sess'[s].peer = sess[s].peer
                               /\ Running(s)' => Running(s) \/ sess[s].peer = p
    PROVE  ScoreGoal
<1> DEFINE r == peers'[p]
<1>1. /\ DOMAIN peers' = DOMAIN peers \cup {p} /\ r \in RecordType
      /\ \A q \in DOMAIN peers' : q # p => peers'[q] = peers[q]
      /\ p \in DOMAIN peers => r.violation = peers[p].violation
  BY AddedRecord, Zenon
<1>2. p \in DOMAIN peers => r.violation >= peers[p].violation
  <2>1. p \in DOMAIN peers => peers[p].violation \in Nat
    BY Zenon DEF ScoreInv, RecordsOK, RecordType
  <2> QED
    BY <1>1, <2>1
<1>3. \A q \in DOMAIN peers' : peers'[q] = IF q = p THEN r ELSE peers[q]
  BY <1>1, Zenon
<1> HIDE DEF r
<1>4. RecordsGrow
  BY <1>1, <1>2, <1>3, GrowOne, Zenon
<1>5. \A s \in Sessions : KnownKept(s)
  BY <1>1, Zenon DEF KnownKept
<1>6. \A doc \in {disk'} \cup copy' : RecordsOK(doc.known)
  BY Zenon DEF ScoreInv
<1> QED
  BY <1>4, <1>5, <1>6, ScoreStep, Zenon DEF ScoreGoal, BansJustified

\* A rejected HELLO counts as a violation, so its ban has a counter.
LEMMA HelloRejectedScores ==
    ASSUME ScoreInv, PeersInv, NEW s \in Sessions, HelloRejected(s)
    PROVE  ScoreGoal
<1> DEFINE p == sess[s].peer
           known == add_peer(peers, p, FALSE)
           r == note_message([known[p] EXCEPT !["violation"] = @ + 1])
           decision == decide(compute_score(r))
<1>1. /\ sess[s].pc = "hello" /\ peers' = [known EXCEPT ![p] = r]
      /\ ban_state' = apply_decision(ban_state, p, "ProtocolViolation", decision)
      /\ todo' = [todo EXCEPT ![s] = Outcome(p, decision, "none")]
      /\ sess' = [sess EXCEPT ![s] = Idle]
      /\ UNCHANGED <<loops, disk, copy>>
  BY Zenon DEF HelloRejected, file
<1>2. /\ DOMAIN known = DOMAIN peers \cup {p} /\ known[p] \in RecordType
      /\ \A q \in DOMAIN known : q # p => known[q] = peers[q]
      /\ p \in DOMAIN peers => known[p].violation = peers[p].violation
  BY AddedRecord, Zenon
<1> HIDE DEF known
<1>3. r \in RecordType /\ r.violation >= known[p].violation
  BY <1>2, CountedRecord, Zenon
<1> HIDE DEF r
<1>4. /\ DOMAIN peers' = DOMAIN peers \cup {p} /\ peers'[p] = r
      /\ \A q \in DOMAIN peers' : peers'[q] = IF q = p THEN r ELSE peers[q]
  BY <1>1, <1>2, Zenon
<1>5. RecordsGrow
  BY <1>2, <1>3, <1>4, GrowOne, Zenon
<1>6. UptimeBacks => BansJustified
  BY <1>1, <1>3, <1>4, DecisionJustified, Zenon
<1>7. s \notin loops
  BY <1>1, NotRegistered, Zenon DEF PeersInv
<1>8. ASSUME NEW t \in Sessions PROVE KnownKept(t)
  <2>1. sess \in [Sessions -> SessionType] /\ todo \in [Actors -> TodoType] /\ t \in Actors
    BY Zenon DEF PeersInv, PoolInv, TablesOK, Actors
  <2>2. CASE t = s
    <3>1. sess'[t].pc = "idle" /\ todo'[t].then = "none"
      BY <1>1, <2>1, <2>2, Zenon DEF Idle, Outcome
    <3> QED
      BY <1>1, <1>7, <2>2, <3>1, Zenon DEF KnownKept, Running
  <2>3. CASE t # s
    <3>1. sess'[t] = sess[t] /\ todo'[t] = todo[t]
      BY <1>1, <2>1, <2>3, Zenon
    <3> QED
      BY <1>1, <3>1, Zenon DEF KnownKept, Running
  <2> QED
    BY <2>2, <2>3, Zenon
<1>9. \A doc \in {disk'} \cup copy' : RecordsOK(doc.known)
  BY <1>1, Zenon DEF ScoreInv
<1> QED
  BY <1>5, <1>6, <1>8, <1>9, ScoreStep, Zenon DEF ScoreGoal

\* The steps of a session that change the store.
LEMMA SessionScores ==
    ASSUME ScoreInv, PeersInv, NEW s \in Sessions,
           \/ HelloRejected(s) \/ RecordPeer(s) \/ RateLimitBan(s) \/ LoopExit(s)
           \/ RateExceeded(s) \/ MalformedGossip(s) \/ MalformedRequest(s) \/ RateBanned(s)
    PROVE  ScoreGoal
<1>1. /\ s \in Actors /\ todo \in [Actors -> TodoType] /\ sess \in [Sessions -> SessionType]
      /\ StageOK(s) /\ KnownOK(s)
  BY Zenon DEF Actors, PeersInv, PoolInv, TablesOK, StagesOK, ScoreInv
<1>2. CASE HelloRejected(s)
  BY <1>2, HelloRejectedScores, Zenon
<1>3. CASE RecordPeer(s)
  <2>1. /\ UNCHANGED <<ban_state, loops, todo, disk, copy>>
        /\ sess' = [sess EXCEPT ![s].pc = "start"]
        /\ peers' = add_peer(peers, sess[s].peer, TRUE)
    BY <1>3, Zenon DEF RecordPeer, Go, file
  <2>2. ASSUME NEW t \in Sessions
        PROVE  sess'[t].peer = sess[t].peer /\ (Running(t)' => Running(t) \/ t = s)
    BY <1>1, <2>1, Zenon DEF SessionType, Running
  <2>3. \A t \in Sessions : /\ sess'[t].peer = sess[t].peer
                            /\ Running(t)' => Running(t) \/ sess[t].peer = sess[s].peer
    BY <2>2, Zenon
  <2> QED
    BY <2>1, <2>3, AddScores, ZenonT(30)
<1>4. CASE RateLimitBan(s)
  <2>1. todo[s].then = "ban" /\ BanPeer(s, sess[s].peer, "RateLimit", rate_ban_duration, TRUE, "exit")
    BY <1>4, Zenon DEF RateLimitBan
  <2>2. sess[s].peer \in DOMAIN peers /\ peers[sess[s].peer].violation > 0
    BY <1>1, <2>1, Zenon DEF StageOK, KnownOK, Running
  <2> QED
    BY <1>1, <2>1, <2>2, BanScores, Zenon
<1>5. CASE LoopExit(s)
  <2>1. /\ UNCHANGED <<peers, ban_state, disk, copy>> /\ loops' = loops \ {s}
        /\ todo' = [todo EXCEPT ![s] = Done]
        /\ IF sess[s].pc = "up" THEN sess' = [sess EXCEPT ![s] = Idle] ELSE sess' = sess
    BY <1>5, Zenon DEF LoopExit, End, store, file
  <2>2. ASSUME NEW t \in Sessions PROVE KnownKept(t)
    <3>1. CASE t = s
      <4>1. todo'[s].then # "ban"
        BY <1>1, <2>1, Zenon DEF Done
      <4>2. Running(s)' => sess'[s] = sess[s] /\ Running(s)
        BY <1>1, <2>1 DEF Running, Idle
      <4> QED
        BY <3>1, <4>1, <4>2, Zenon DEF KnownKept
    <3>2. CASE t # s
      <4>1. sess'[t] = sess[t] /\ todo'[t] = todo[t] /\ t \in Actors
        BY <1>1, <2>1, <3>2, Zenon DEF Actors
      <4> QED
        BY <2>1, <4>1, Zenon DEF KnownKept, Running
    <3> QED
      BY <3>1, <3>2, Zenon
  <2>3. \A doc \in {disk'} \cup copy' : RecordsOK(doc.known)
    BY <2>1, Zenon DEF ScoreInv
  <2> QED
    BY <2>1, <2>2, <2>3, QuietScores, Zenon
<1>6. ASSUME NEW reason, NEW then, Violation(s, reason, then) PROVE ScoreGoal
  <2>1. s \in loops /\ record_event(s, sess[s].peer, "violation", reason, then)
    BY <1>6, Zenon DEF Violation
  <2>2. Running(s)
    BY <2>1, Zenon DEF Running
  <2> QED
    BY <1>1, <2>1, <2>2, EventScores, Zenon
<1> QED
  BY <1>2, <1>3, <1>4, <1>5, <1>6, Zenon DEF RateExceeded, MalformedGossip, MalformedRequest, RateBanned

\* The public operations, Node::add_peer, the owed work and the clock.
LEMMA OperatorScores ==
    ASSUME ScoreInv, PeersInv, Operator \/ Clock \/ \E a \in Actors : Finish(a)
    PROVE  ScoreGoal
<1>1. /\ operator \in Actors /\ todo \in [Actors -> TodoType] /\ operator \notin Sessions
      /\ \A s \in Sessions : s \in Actors
  <2>1. operator \notin Nat
    BY DEF operator
  <2> QED
    BY <2>1, PeersAssumption, Zenon DEF Actors, PeersInv, PoolInv, TablesOK
<1>2. ASSUME UNCHANGED <<peers, sess, loops>>, \A s \in Sessions : todo'[s].then = todo[s].then,
             \A doc \in {disk'} \cup copy' : RecordsOK(doc.known),
             \A q \in DOMAIN ban_state' : q \in DOMAIN ban_state /\ ban_state'[q] = ban_state[q]
      PROVE  ScoreGoal
  <2>1. \A s \in Sessions : KnownKept(s)
    BY <1>2, Zenon DEF KnownKept, Running
  <2> QED
    BY <1>2, <2>1, QuietScores, Zenon
<1>3. ASSUME NEW p, unban_peer(p) PROVE ScoreGoal
  <2>1. /\ ban_state' = Drop(ban_state, {p}) /\ todo' = [todo EXCEPT ![operator].save = TRUE]
        /\ UNCHANGED <<peers, sess, loops, disk, copy>>
    BY <1>3, Zenon DEF unban_peer, net, file
  <2>2. \A s \in Sessions : todo'[s].then = todo[s].then
    BY <1>1, <2>1, Zenon
  <2>3. \A q \in DOMAIN ban_state' : q \in DOMAIN ban_state /\ ban_state'[q] = ban_state[q]
    BY <2>1, Zenon DEF Drop
  <2>4. \A doc \in {disk'} \cup copy' : RecordsOK(doc.known)
    BY <2>1, Zenon DEF ScoreInv
  <2> QED
    BY <1>2, <2>1, <2>2, <2>3, <2>4, Zenon
<1>4. ASSUME NEW p, learn_addrs(p) PROVE ScoreGoal
  <2>1. /\ peers' = add_peer(peers, p, FALSE)
        /\ UNCHANGED <<ban_state, sess, loops, todo, disk, copy>>
    BY <1>4, Zenon DEF learn_addrs, net, file
  <2>2. \A s \in Sessions : sess'[s].peer = sess[s].peer /\ (Running(s)' => Running(s))
    BY <2>1, Zenon DEF Running
  <2> QED
    BY <2>1, <2>2, AddScores, Zenon
<1>5. ASSUME NEW p, record_invalid_block(p) PROVE ScoreGoal
  BY <1>1, <1>5, EventScores, Zenon DEF record_invalid_block
<1>6. ASSUME NEW p, NEW d, NEW persistent, ban_peer(p, d, persistent) PROVE ScoreGoal
  BY <1>1, <1>6, BanScores, Zenon DEF ban_peer
<1>7. ASSUME NEW p, NEW m \in Samples, record_latency(p, m) PROVE ScoreGoal
  <2> DEFINE u == (9 * peers[p].latency + m) \div 10
             r == note_message([peers[p] EXCEPT !.latency = u])
  <2>1. p \in DOMAIN peers /\ peers[p] \in RecordType /\ m \in Nat
    BY <1>7, PeersAssumption, Zenon DEF record_latency, ScoreInv, RecordsOK
  <2>2. Observe(operator, p, r, dominant_reason(r), "none")
    BY <1>7, Zenon DEF record_latency, record_latency_sample
  <2>3. u \in Nat /\ peers[p].violation \in Nat
    <3>1. 9 * peers[p].latency + m \in Nat /\ peers[p].violation \in Nat
      BY <2>1 DEF RecordType
    <3> QED
      BY <3>1
  <2> HIDE DEF u
  <2> DEFINE l == [peers[p] EXCEPT !.latency = u]
  <2>4. l \in RecordType /\ l.violation = peers[p].violation
    BY <2>1, <2>3, Updated, Zenon
  <2> HIDE DEF l
  <2>5. note_message(l) \in RecordType /\ note_message(l).violation = l.violation
    BY <2>4, Updated, Zenon DEF note_message
  <2>6. r \in RecordType /\ r.violation >= peers[p].violation
    BY <2>3, <2>4, <2>5 DEF l
  <2> HIDE DEF r
  <2> QED
    BY <1>1, <2>1, <2>2, <2>6, ObserveScores, Zenon
<1>8. CASE NodeAddPeerRead
  <2>1. UNCHANGED <<peers, ban_state, sess, loops, todo, disk>> /\ copy' = {disk}
    BY <1>8, Zenon DEF NodeAddPeerRead, store, net
  <2>2. \A doc \in {disk'} \cup copy' : RecordsOK(doc.known)
    BY <2>1, Zenon DEF ScoreInv
  <2> QED
    BY <1>2, <2>1, <2>2, Zenon
<1>9. CASE NodeAddPeerWrite
  <2>1. /\ UNCHANGED <<peers, ban_state, sess, loops, todo>> /\ copy' = {}
        /\ \E doc \in copy : disk' = doc
    BY <1>9, Zenon DEF NodeAddPeerWrite, store, net
  <2>2. \A doc \in {disk'} \cup copy' : RecordsOK(doc.known)
    BY <2>1, Zenon DEF ScoreInv
  <2> QED
    BY <1>2, <2>1, <2>2, Zenon
<1>10. CASE Clock
  <2>1. UNCHANGED <<peers, ban_state, sess, loops, todo, disk, copy>>
    BY <1>10, Zenon DEF Clock, store, net, file
  <2>2. \A doc \in {disk'} \cup copy' : RecordsOK(doc.known)
    BY <2>1, Zenon DEF ScoreInv
  <2> QED
    BY <1>2, <2>1, <2>2, Zenon
<1>11. ASSUME NEW a \in Actors, Finish(a) PROVE ScoreGoal
  <2>1. UNCHANGED <<peers, ban_state, sess, loops, copy>> /\ (disk' = disk \/ disk' = save_to_network_json)
    BY <1>11, Zenon DEF Finish, FinishDrop, persist, store, net, file
  <2>2. \A s \in Sessions : todo'[s].then = todo[s].then
    BY <1>1, <1>11 DEF Finish, FinishDrop, persist, TodoType
  <2>3. \A doc \in {disk'} \cup copy' : RecordsOK(doc.known)
    BY <2>1 DEF ScoreInv, save_to_network_json
  <2> QED
    BY <1>2, <2>1, <2>2, <2>3, Zenon
<1> QED
  BY <1>3, <1>4, <1>5, <1>6, <1>7, <1>8, <1>9, <1>10, <1>11, Zenon DEF Operator

\* A start: windows begin again, nothing runs.
LEMMA RestartScores ==
    ASSUME ScoreInv, PeersInv, NEW doc \in {disk, EmptyDoc}, Restart(doc)
    PROVE  ScoreInv' /\ crashes' # crashes
<1>1. DOMAIN << >> = {}
  OBVIOUS
<1>2. RecordsOK(doc.known)
  BY <1>1 DEF ScoreInv, RecordsOK, EmptyDoc
<1>3. /\ peers' = [p \in DOMAIN doc.known |->
                      [doc.known[p] EXCEPT !.anchor = now, !.responsive = FALSE]]
      /\ sess' = [s \in Sessions |-> Idle] /\ loops' = {} /\ todo' = [a \in Actors |-> Done]
      /\ disk' = doc /\ copy' = {} /\ crashes' = crashes + 1
  BY Zenon DEF Restart, load_from_network_json
<1>4. now \in Nat /\ crashes \in Nat
  BY Zenon DEF PeersInv, StoreInv, StoreOK
<1>5. RecordsOK(peers')
  <2> SUFFICES ASSUME NEW p \in DOMAIN doc.known
               PROVE  [doc.known[p] EXCEPT !.anchor = now, !.responsive = FALSE] \in RecordType
    BY <1>3, Zenon DEF RecordsOK
  <2>1. doc.known[p] \in RecordType
    BY <1>2, Zenon DEF RecordsOK
  <2> QED
    BY <1>4, <2>1, Zenon DEF RecordType
<1>6. \A s \in Sessions : KnownOK(s)'
  BY <1>3, Zenon DEF KnownOK, Running, Idle, Done, Actors
<1>7. \A d \in {disk'} \cup copy' : RecordsOK(d.known)
  BY <1>2, <1>3, Zenon
<1>8. crashes' # crashes
  <2>1. crashes' = crashes + 1
    BY Zenon DEF Restart
  <2> QED
    BY <1>4, <2>1
<1> QED
  BY <1>5, <1>6, <1>7, <1>8, Zenon DEF ScoreInv

\* Every step keeps the records well formed, and bans with a reason.
LEMMA ScoresStep ==
    ASSUME ScoreInv, PeersInv, [PeersNext]_peers_vars
    PROVE  ScoreInv' /\ ((UptimeBacks /\ crashes' = crashes) => BansJustified)
<1>1. CASE UNCHANGED peers_vars
  <2>1. /\ UNCHANGED <<peers, ban_state, sess, loops, todo, disk, copy>>
    BY <1>1, Zenon DEF peers_vars
  <2>2. \A s \in Sessions : KnownKept(s)
    BY <2>1, Zenon DEF KnownKept, Running
  <2>3. \A doc \in {disk'} \cup copy' : RecordsOK(doc.known)
    BY <2>1, Zenon DEF ScoreInv
  <2> QED
    BY <2>1, <2>2, <2>3, QuietScores, Zenon DEF ScoreGoal
<1>2. CASE tick_at
  BY <1>2, TickScores, Zenon DEF ScoreGoal
<1>3. CASE Operator \/ Clock \/ \E a \in Actors : Finish(a)
  BY <1>3, OperatorScores, Zenon DEF ScoreGoal
<1>4. ASSUME NEW s \in Sessions, Session(s) PROVE ScoreGoal
  BY <1>4, AdmissionScores, SessionScores, Zenon DEF Session
<1>5. ASSUME NEW doc \in {disk, EmptyDoc}, Restart(doc) PROVE ScoreInv' /\ crashes' # crashes
  BY <1>5, RestartScores, Zenon
<1> QED
  BY <1>1, <1>2, <1>3, <1>4, <1>5, Zenon DEF PeersNext, ScoreGoal

\* There are no records when the process first starts.
LEMMA ScoresStart == PeersInit => ScoreInv
<1>1. DOMAIN << >> = {}
  OBVIOUS
<1> QED
  BY <1>1 DEF PeersInit, ScoreInv, RecordsOK, EmptyDoc, KnownOK, Running, Idle, Done, Actors

\* compute_score: with weights that let uptime back a slow peer, as the defaults do,
\* only the operator bans a peer that answered in every window and whose counters
\* are 0; neither latency nor the rate limiter does.
THEOREM LatencyAloneNeverBans ==
    ASSUME UptimeBacks
    PROVE  PeersSpec => ResponsiveNeverBanned
<1> DEFINE Act ==
      \A p \in DOMAIN ban_state' :
          (/\ ban_state'[p].reason # "Manual" /\ crashes' = crashes
           /\ (p \notin DOMAIN ban_state \/ ban_state'[p] # ban_state[p])
           /\ p \in DOMAIN peers' /\ peers'[p].invalid + peers'[p].violation = 0)
              => uptime_norm(peers'[p]) < 100
<1>1. ScoreInv /\ PeersInv /\ [PeersNext]_peers_vars => ScoreInv'
  BY ScoresStep, Zenon
<1>2. ScoreInv /\ PeersInv /\ [PeersNext]_peers_vars => [Act]_peers_vars
  BY ScoresStep, Zenon DEF BansJustified
<1>3. PeersSpec => [][Act]_peers_vars
  BY <1>1, <1>2, ScoresStart, PeersInvariant, PTL DEF PeersSpec
<1> QED
  BY <1>3, Zenon DEF ResponsiveNeverBanned
==============================================================================
