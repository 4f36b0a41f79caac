------------------------------- MODULE Scoring -------------------------------
(***************************************************************************)
(* peer/scoring.rs: the weighted score of a peer record and the ladder of  *)
(* decisions on it.  Scores, norms and weights are percentages: the f32    *)
(* arithmetic with its SCORE_EPSILON (a score exactly on a threshold falls *)
(* into the milder band) is exact integer arithmetic with strict           *)
(* comparisons.  A record is a record of counters: latency (EWMA, ms),     *)
(* invalid, violation, uptime and observed (seconds), anchor, responsive,  *)
(* verified.                                                               *)
(***************************************************************************)
EXTENDS Integers, FiniteSetsExt

CONSTANTS
    w_latency, w_uptime,                         \* grading weights
    w_invalid, invalid_full_weight,              \* penalty weights
    w_violation, violation_full_weight,
    warn_threshold, temp_ban_threshold, persistent_ban_threshold,
    temp_ban_duration, persistent_ban_duration

ASSUME ScoringAssumption ==
    /\ {w_latency, w_uptime, w_invalid, w_violation, invalid_full_weight,
        violation_full_weight, temp_ban_duration, persistent_ban_duration} \subseteq Nat
    /\ {warn_threshold, temp_ban_threshold, persistent_ban_threshold} \subseteq 0..100
    /\ persistent_ban_threshold =< temp_ban_threshold /\ temp_ban_threshold =< warn_threshold

latency_norm(r) == Min({r.latency, 100})

uptime_norm(r) ==
    IF r.observed = 0 THEN 100 ELSE Min({(100 * r.uptime) \div r.observed, 100})

InvalidWeight(r) == (w_invalid * r.invalid) \div Max({invalid_full_weight, 1})
ViolationWeight(r) == (w_violation * r.violation) \div Max({violation_full_weight, 1})

\* Mutant: uptime does not back the quality of a slow peer.
ScoreByLatency(r) ==
    Max({100 - latency_norm(r) - InvalidWeight(r) - ViolationWeight(r), 0})

\* The grading part can only lower the score to 0; the counters are unclamped.
compute_score(r) ==
    LET grading_max == w_latency + w_uptime
        quality == IF grading_max > 0
                   THEN (w_latency * (100 - latency_norm(r)) + w_uptime * uptime_norm(r))
                            \div grading_max
                   ELSE 0
    IN  Max({quality - InvalidWeight(r) - ViolationWeight(r), 0})

decide(score) ==
    IF score < persistent_ban_threshold THEN "PersistentBan"
    ELSE IF score < temp_ban_threshold THEN "TempBan"
    ELSE IF score < warn_threshold THEN "Warn"
    ELSE "NoAction"

BanDuration(decision) ==
    IF decision = "PersistentBan" THEN persistent_ban_duration ELSE temp_ban_duration

record_latency_sample(r, sample) == [r EXCEPT !.latency = (9 * r.latency + sample) \div 10]

note_message(r) == [r EXCEPT !.responsive = TRUE]

\* A window counts as responsive when a message arrived in it.
accrue_uptime(r, now) ==
    LET elapsed == now - r.anchor
    IN  IF elapsed =< 0 THEN r
        ELSE [r EXCEPT !.observed = @ + elapsed,
                       !.uptime = IF r.responsive THEN @ + elapsed ELSE @,
                       !.anchor = now,
                       !.responsive = FALSE]

dominant_reason(r) ==
    IF r.invalid > 0 /\ InvalidWeight(r) >= ViolationWeight(r)
    THEN "InvalidBlocks" ELSE "ProtocolViolation"
=============================================================================
