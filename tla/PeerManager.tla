----------------------------- MODULE PeerManager -----------------------------
(***************************************************************************)
(* peer/manager.rs with peer/store.rs and peer/pool.rs: admission of       *)
(* inbound and outbound sessions, the ban ladder, the periodic tick and    *)
(* network.json.  Every critical section of the store lock or of the pool  *)
(* lock is one step; the effects a handler runs after it released the      *)
(* store (drop the session, rewrite the file) are later steps of the same  *)
(* actor, held in todo.                                                    *)
(*                                                                         *)
(* Not modelled: addresses other than their range, reasons' wording, the   *)
(* score and last_seen stamps a record stores (nothing reads them).        *)
(***************************************************************************)
EXTENDS Scoring, FiniteSets

CONSTANTS
    Peers, Sessions, Ranges,   \* identities, connection tasks, /24 or /64 blocks
    Limits,                    \* configurations: max_connections and max_per_ip_range, with
                               \* the bounds of the model for each: identities and
                               \* tasks that appear, time, events, crashes, rewrites
    Samples,                   \* latency samples, ms
    BanLengths,                \* durations of explicit bans
    rate_ban_duration,         \* of the ban a Ban verdict of the rate limiter asks for
    MaxLatency,                \* no latency sample above this EWMA
    NoPeer, NoRange, NoSession

ASSUME PeersAssumption ==
    /\ IsFiniteSet(Peers) /\ Sessions \subseteq Nat
    /\ NoSession \notin Sessions /\ NoPeer \notin Peers /\ NoRange \notin Ranges
    /\ \A l \in Limits : /\ {l.max_connections, l.max_per_ip_range} \subseteq Nat
                         /\ l.peers \subseteq Peers
    /\ Samples \cup BanLengths \subseteq Nat /\ rate_ban_duration \in Nat

VARIABLES
    now, limits,
    peers, ban_state,          \* PeerStore: partial functions of Peers
    pool,                      \* ConnectionPool: identity -> session
    sess,                      \* the task that establishes a session
    half, loops,               \* sessions whose read half is parked / whose loop runs
    todo,                      \* what an actor still does outside the store lock
    disk, copy,                \* network.json; the copy Node::add_peer rewrites
    raced, overwritten,        \* history: see BannedStayOut and DurableBans
    events, crashes            \* how often the bounded actions happened

peers_vars == <<now, limits, peers, ban_state, pool, sess, half, loops, todo, disk, copy,
          raced, overwritten, events, crashes>>
bounded == <<events, crashes>>
store == <<peers, ban_state>>
net == <<pool, sess, half, loops>>
file == <<disk, copy, overwritten>>

ticker == -1     \* the maintenance task
operator == -2   \* callers of the public operations
Actors == Sessions \cup {ticker, operator}
Idle == [pc |-> "idle", peer |-> NoPeer, range |-> NoRange, out |-> FALSE]
Done == [drop |-> {}, save |-> FALSE, then |-> "none"]
EmptyDoc == [known |-> << >>, banned |-> << >>]
Free(a) == todo[a] = Done

is_banned(p) == p \in DOMAIN ban_state
Connected == {p \in Peers : pool[p] # NoSession}
count_by_ip_range(r) == Cardinality({p \in Connected : sess[pool[p]].range = r})
check_admission(r) ==
    /\ Cardinality(Connected) < limits.max_connections
    /\ count_by_ip_range(r) < limits.max_per_ip_range

Drop(f, S) == [x \in DOMAIN f \ S |-> f[x]]
Put(f, k, v) == [x \in DOMAIN f \cup {k} |-> IF x = k THEN v ELSE f[x]]

Count == events < limits.events /\ events' = events + 1 /\ UNCHANGED crashes

PeersInit ==
    /\ now = 0 /\ limits \in Limits
    /\ peers = << >> /\ ban_state = << >>
    /\ pool = [p \in Peers |-> NoSession]
    /\ sess = [s \in Sessions |-> Idle] /\ half = {} /\ loops = {}
    /\ todo = [a \in Actors |-> Done]
    /\ disk = EmptyDoc /\ copy = {}
    /\ raced = {} /\ overwritten = FALSE /\ events = 0 /\ crashes = 0

(***************************************************************************)
(* The store                                                               *)
(***************************************************************************)
NewRecord(verified) ==
    [latency |-> 0, invalid |-> 0, violation |-> 0, uptime |-> 0, observed |-> 0,
     anchor |-> now, responsive |-> verified, verified |-> verified]

\* `verified` is sticky; a verified sighting makes the window responsive.
add_peer(ps, p, verified) ==
    IF p \in DOMAIN ps
    THEN [ps EXCEPT ![p].verified = @ \/ verified, ![p].responsive = @ \/ verified]
    ELSE Put(ps, p, NewRecord(verified))

\* A new ban replaces the one in force.
StoreBan(bans, p, reason, duration, persistent) ==
    Put(bans, p, [until |-> now + duration, reason |-> reason, persistent |-> persistent])

apply_decision(bans, p, reason, decision) ==
    IF decision \in {"TempBan", "PersistentBan"}
    THEN StoreBan(bans, p, reason, BanDuration(decision), decision = "PersistentBan")
    ELSE bans

\* What finish_decision has to do once the store is unlocked.
Outcome(p, decision, then) ==
    [drop |-> IF decision \in {"TempBan", "PersistentBan"} THEN {p} ELSE {},
     save |-> decision = "PersistentBan",
     then |-> then]

\* Registrations that passed the ban check and did not reach the pool yet.
InWindow(S) == {s \in Sessions : sess[s].pc = "insert" /\ sess[s].peer \in S}

\* One observed event: new record r of p, decision on it, ban.
Observe(a, p, r, reason, then) ==
    LET decision == decide(compute_score(r))
    IN  /\ peers' = [peers EXCEPT ![p] = r]
        /\ ban_state' = apply_decision(ban_state, p, reason, decision)
        /\ todo' = [todo EXCEPT ![a] = Outcome(p, decision, then)]
        /\ raced' = raced \cup InWindow(Outcome(p, decision, then).drop)
        /\ UNCHANGED <<now, limits, net, file>>

\* An event of an unknown peer is ignored.
record_event(a, p, counter, reason, then) ==
    \/ /\ p \in DOMAIN peers
       /\ Observe(a, p, note_message([peers[p] EXCEPT ![counter] = @ + 1]), reason, then)
    \/ /\ p \notin DOMAIN peers
       /\ todo' = [todo EXCEPT ![a].then = then]
       /\ UNCHANGED <<now, limits, store, net, file, raced>>

record_latency(p, sample) ==
    /\ Free(operator) /\ Count
    /\ p \in DOMAIN peers /\ peers[p].latency =< MaxLatency
    /\ LET r == note_message(record_latency_sample(peers[p], sample))
       IN  Observe(operator, p, r, dominant_reason(r), "none")

record_invalid_block(p) == /\ Free(operator) /\ Count
                           /\ record_event(operator, p, "invalid", "InvalidBlocks", "none")

\* Explicit bans: the operator's, and the rate limiter's (see RateLimitBan).
BanPeer(a, p, reason, duration, persistent, then) ==
    /\ ban_state' = StoreBan(ban_state, p, reason, duration, persistent)
    /\ todo' = [todo EXCEPT ![a] = [drop |-> {p}, save |-> persistent, then |-> then]]
    /\ raced' = raced \cup InWindow({p})
    /\ UNCHANGED <<now, limits, peers, net, file>>

ban_peer(p, duration, persistent) ==
    Free(operator) /\ Count /\ BanPeer(operator, p, "Manual", duration, persistent, "none")

unban_peer(p) ==
    /\ Free(operator) /\ is_banned(p) /\ Count
    /\ ban_state' = Drop(ban_state, {p})
    /\ todo' = [todo EXCEPT ![operator].save = TRUE]
    /\ UNCHANGED <<now, limits, peers, net, file, raced>>

\* ADDR gossip: dialable entries become unverified records.
learn_addrs(p) ==
    /\ Free(operator) /\ p \notin DOMAIN peers /\ Count
    /\ peers' = add_peer(peers, p, FALSE)
    /\ UNCHANGED <<now, limits, ban_state, net, todo, file, raced>>

(***************************************************************************)
(* tick_at: expire bans, accrue uptime of every record, re-score the ones  *)
(* neither banned nor just reinstated.                                     *)
(***************************************************************************)

Expired == {p \in DOMAIN ban_state : ban_state[p].until < now}

Rescored == {p \in DOMAIN peers : ~is_banned(p)}

TickDecision(p) == decide(compute_score(accrue_uptime(peers[p], now)))

tick_at ==
    LET accrued == [p \in DOMAIN peers |-> accrue_uptime(peers[p], now)]
        minted == {p \in Rescored : TickDecision(p) \in {"TempBan", "PersistentBan"}}
        new == [p \in minted |->
                   [until |-> now + BanDuration(TickDecision(p)),
                    reason |-> dominant_reason(accrued[p]),
                    persistent |-> TickDecision(p) = "PersistentBan"]]
    IN  /\ Free(ticker)
        /\ peers' = accrued
        /\ ban_state' = [p \in minted \cup (DOMAIN ban_state \ Expired) |->
                             IF p \in minted THEN new[p] ELSE ban_state[p]]
        /\ todo' = [todo EXCEPT ![ticker] =
               [drop |-> minted,
                save |-> Expired # {} \/ \E p \in minted : new[p].persistent,
                then |-> "none"]]
        /\ raced' = raced \cup InWindow(minted)
        /\ UNCHANGED <<now, limits, net, file, bounded>>

(***************************************************************************)
(* After the store lock: disconnect_peer, then persist.                    *)
(***************************************************************************)
disconnect_peer(p) == pool' = [pool EXCEPT ![p] = NoSession]

FinishDrop(a) ==
    \E p \in todo[a].drop :
        /\ disconnect_peer(p)
        /\ todo' = [todo EXCEPT ![a].drop = @ \ {p}]
        /\ UNCHANGED <<now, limits, store, sess, half, loops, file, raced, bounded>>

\* Active bans are written with the time they have left, temporary ones too.
save_to_network_json ==
    [known |-> peers,
     banned |-> [p \in DOMAIN ban_state |->
                    [left |-> Max({ban_state[p].until - now, 0}),
                     reason |-> ban_state[p].reason,
                     persistent |-> ban_state[p].persistent]]]

persist(a) ==
    /\ todo[a].drop = {} /\ todo[a].save
    /\ disk' = save_to_network_json
    /\ overwritten' = FALSE
    /\ todo' = [todo EXCEPT ![a].save = FALSE]
    /\ UNCHANGED <<now, limits, store, net, copy, raced, bounded>>

\* Node::add_peer reads network.json, appends to `peers` and writes it back.
NodeAddPeerRead ==
    /\ limits.rewrites /\ copy = {} /\ copy' = {disk} /\ Count
    /\ UNCHANGED <<now, limits, store, net, todo, disk, overwritten, raced>>

NodeAddPeerWrite ==
    /\ \E doc \in copy : disk' = doc /\ overwritten' = (overwritten \/ doc # disk)
    /\ copy' = {}
    /\ UNCHANGED <<now, limits, store, net, todo, raced, bounded>>

(***************************************************************************)
(* Sessions: connect_to_peer, accept_inbound, register_connection.         *)
(***************************************************************************)
Go(s, pc) == sess' = [sess EXCEPT ![s].pc = pc]
End(s) == sess' = [sess EXCEPT ![s] = Idle] /\ raced' = raced \ {s}

Unused(s) == sess[s] = Idle /\ s \notin loops /\ Free(s) /\ \A p \in Peers : pool[p] # s
\* Tasks are numbered; a new one takes the first number not in use.
Available(s) == s \in limits.sessions /\ Unused(s) /\ \A t \in Sessions : t < s => ~Unused(t)

\* The dial loop dials one peer at a time; a peer from the store is pinned.
Dial(s, p, r, pinned) ==
    /\ Available(s) /\ \A t \in Sessions : ~sess[t].out
    /\ pinned => p \in DOMAIN peers /\ p \notin Connected /\ ~is_banned(p)
    /\ check_admission(r)
    /\ sess' = [sess EXCEPT ![s] = [pc |-> "handshake", peer |-> p, range |-> r, out |-> TRUE]]
    /\ UNCHANGED <<now, limits, store, pool, half, loops, todo, file, raced, bounded>>

accept_inbound(s, p, r) ==
    /\ Available(s) /\ check_admission(r)
    /\ sess' = [sess EXCEPT ![s] = [pc |-> "handshake", peer |-> p, range |-> r, out |-> FALSE]]
    /\ UNCHANGED <<now, limits, store, pool, half, loops, todo, file, raced, bounded>>

\* The Noise handshake ends: the identity is known and checked again.
Authenticated(s) ==
    /\ sess[s].pc = "handshake"
    /\ \/ ~is_banned(sess[s].peer) /\ check_admission(sess[s].range) /\ Go(s, "hello") /\ UNCHANGED raced
       \/ End(s)
    /\ UNCHANGED <<now, limits, store, pool, half, loops, todo, file, bounded>>

\* A failed HELLO of an inbound session is a protocol violation of the identity.
HelloRejected(s) ==
    /\ sess[s].pc = "hello" /\ ~sess[s].out /\ Count
    /\ LET p == sess[s].peer
           known == add_peer(peers, p, FALSE)
           r == note_message([known[p] EXCEPT !.violation = @ + 1])
           decision == decide(compute_score(r))
       IN  /\ peers' = [known EXCEPT ![p] = r]
           /\ ban_state' = apply_decision(ban_state, p, "ProtocolViolation", decision)
           /\ todo' = [todo EXCEPT ![s] = Outcome(p, decision, "none")]
           /\ raced' = (raced \ {s}) \cup InWindow(Outcome(p, decision, "none").drop)
    /\ sess' = [sess EXCEPT ![s] = Idle]
    /\ UNCHANGED <<now, limits, pool, half, loops, file>>

HelloFailedOut(s) ==
    /\ sess[s].pc = "hello" /\ sess[s].out /\ End(s)
    /\ UNCHANGED <<now, limits, store, pool, half, loops, todo, file, bounded>>

\* Mutant: register_connection relies on the check made after the handshake.
HelloDoneUnchecked(s) ==
    /\ sess[s].pc = "hello" /\ Go(s, "insert")
    /\ UNCHANGED <<now, limits, store, pool, half, loops, todo, file, raced, bounded>>

\* register_connection, up to its ban check.
HelloDone(s) ==
    /\ sess[s].pc = "hello"
    /\ IF is_banned(sess[s].peer) THEN End(s) ELSE Go(s, "insert") /\ UNCHANGED raced
    /\ UNCHANGED <<now, limits, store, pool, half, loops, todo, file, bounded>>

\* Mutant: the caps are only checked on admission.
CanRegisterUncapped(s) == pool[sess[s].peer] = NoSession

\* register_connection under the pool lock; add_connection refuses duplicates.
CanRegister(s) ==
    /\ Cardinality(Connected) < limits.max_connections
    /\ pool[sess[s].peer] = NoSession
    /\ count_by_ip_range(sess[s].range) < limits.max_per_ip_range

Insert(s) ==
    /\ sess[s].pc = "insert"
    /\ IF CanRegister(s)
       THEN /\ pool' = [pool EXCEPT ![sess[s].peer] = s]
            /\ half' = half \cup {s}
            /\ Go(s, "record") /\ UNCHANGED raced
       ELSE End(s) /\ UNCHANGED <<pool, half>>
    /\ UNCHANGED <<now, limits, store, loops, todo, file, bounded>>

RecordPeer(s) ==
    /\ sess[s].pc = "record"
    /\ peers' = add_peer(peers, sess[s].peer, TRUE)
    /\ Go(s, "start")
    /\ UNCHANGED <<now, limits, ban_state, pool, half, loops, todo, file, raced, bounded>>

\* The accept task runs its own connection, the dial loop the registered one;
\* whoever takes the parked read half drives it.
StartLoop(s) ==
    LET t == IF sess[s].out THEN pool[sess[s].peer] ELSE s
    IN  /\ sess[s].pc = "start"
        /\ half' = half \ {s, t}
        /\ loops' = IF t \in half THEN loops \cup {t} ELSE loops
        /\ IF s \in loops'
           THEN /\ sess' = [sess EXCEPT ![s].pc = "up", ![s].out = FALSE]
                /\ UNCHANGED raced
           ELSE End(s)
        /\ UNCHANGED <<now, limits, store, pool, todo, file, bounded>>

(***************************************************************************)
(* The connection loop, as far as it touches the peer manager: what the    *)
(* rate limiter says of a frame, and frames that do not parse.             *)
(***************************************************************************)
Violation(s, reason, then) ==
    /\ s \in loops /\ Free(s) /\ Count
    /\ record_event(s, sess[s].peer, "violation", reason, then)

\* An Exceeded verdict drops the frame, a malformed gossip message is dropped.
RateExceeded(s) == Violation(s, "RateLimit", "none")
MalformedGossip(s) == Violation(s, "ProtocolViolation", "none")
\* A malformed request ends the loop; a Ban verdict also bans explicitly.
MalformedRequest(s) == Violation(s, "ProtocolViolation", "exit")
RateBanned(s) == Violation(s, "RateLimit", "ban")

RateLimitBan(s) ==
    /\ todo[s].drop = {} /\ ~todo[s].save /\ todo[s].then = "ban"
    /\ BanPeer(s, sess[s].peer, "RateLimit", rate_ban_duration, TRUE, "exit")
    /\ UNCHANGED bounded

\* Mutant: the loop leaves its session in the pool.
LoopExitRegistered(s) ==
    /\ s \in loops
    /\ todo[s].drop = {} /\ ~todo[s].save /\ todo[s].then # "ban"
    /\ loops' = loops \ {s}
    /\ todo' = [todo EXCEPT ![s] = Done]
    /\ IF sess[s].pc = "up" THEN End(s) ELSE UNCHANGED <<sess, raced>>
    /\ UNCHANGED <<now, limits, store, pool, half, file, bounded>>

\* run_connection ends: EOF, read error or a verdict; it unregisters by identity.
LoopExit(s) ==
    /\ s \in loops
    /\ todo[s].drop = {} /\ ~todo[s].save /\ todo[s].then # "ban"
    /\ disconnect_peer(sess[s].peer)
    /\ loops' = loops \ {s}
    /\ todo' = [todo EXCEPT ![s] = Done]
    /\ IF sess[s].pc = "up" THEN End(s) ELSE UNCHANGED <<sess, raced>>
    /\ UNCHANGED <<now, limits, store, half, file, bounded>>

(***************************************************************************)
(* Time and restarts.                                                      *)
(***************************************************************************)
Clock == /\ now < limits.time /\ now' = now + 1
         /\ UNCHANGED <<limits, store, net, todo, file, raced, bounded>>

\* Mutant: the time left is taken for the instant the ban ends.
LoadAbsolute(doc) ==
    /\ peers' = [p \in DOMAIN doc.known |->
                    [doc.known[p] EXCEPT !.anchor = now, !.responsive = FALSE]]
    /\ ban_state' = [p \in {q \in DOMAIN doc.banned : doc.banned[q].left > 0} |->
                        [until |-> doc.banned[p].left,
                         reason |-> doc.banned[p].reason,
                         persistent |-> doc.banned[p].persistent]]

\* PeerManager::new: counters and bans come back, windows start again; a ban
\* with no time left is dropped.
load_from_network_json(doc) ==
    /\ peers' = [p \in DOMAIN doc.known |->
                    [doc.known[p] EXCEPT !.anchor = now, !.responsive = FALSE]]
    /\ ban_state' = [p \in {q \in DOMAIN doc.banned : doc.banned[q].left > 0} |->
                        [until |-> now + doc.banned[p].left,
                         reason |-> doc.banned[p].reason,
                         persistent |-> doc.banned[p].persistent]]

\* A crash inside a write leaves a file that does not parse; startup replaces
\* it with a fresh document.
Restart(doc) ==
    /\ crashes < limits.crashes /\ crashes' = crashes + 1 /\ UNCHANGED events
    /\ doc = disk \/ (doc = EmptyDoc /\ \E a \in Actors : todo[a].drop = {} /\ todo[a].save)
    /\ disk' = doc /\ copy' = {} /\ UNCHANGED overwritten
    /\ load_from_network_json(doc)
    /\ pool' = [p \in Peers |-> NoSession]
    /\ sess' = [s \in Sessions |-> Idle] /\ half' = {} /\ loops' = {}
    /\ todo' = [a \in Actors |-> Done] /\ raced' = {}
    /\ UNCHANGED <<now, limits>>

Session(s) ==
    \/ \E p \in limits.peers, r \in Ranges :
          (\E pinned \in BOOLEAN : Dial(s, p, r, pinned)) \/ accept_inbound(s, p, r)
    \/ Authenticated(s) \/ HelloRejected(s) \/ HelloFailedOut(s) \/ HelloDone(s)
    \/ Insert(s) \/ RecordPeer(s) \/ StartLoop(s)
    \/ RateExceeded(s) \/ MalformedGossip(s) \/ MalformedRequest(s) \/ RateBanned(s)
    \/ RateLimitBan(s) \/ LoopExit(s)

Operator ==
    \/ \E p \in limits.peers : unban_peer(p) \/ learn_addrs(p) \/ record_invalid_block(p)
    \/ \E p \in limits.peers, d \in BanLengths, persistent \in BOOLEAN : ban_peer(p, d, persistent)
    \/ \E p \in limits.peers, m \in Samples : record_latency(p, m)
    \/ NodeAddPeerRead \/ NodeAddPeerWrite

Finish(a) == FinishDrop(a) \/ persist(a)

PeersNext ==
    \/ Clock \/ tick_at \/ Operator
    \/ \E s \in Sessions : Session(s)
    \/ \E a \in Actors : Finish(a)
    \/ \E doc \in {disk, EmptyDoc} : Restart(doc)

\* The runtime keeps time, polls the tick task and resumes actors that
\* still have to drop a session or write the file.
PeersFairness == WF_peers_vars(Clock) /\ WF_peers_vars(tick_at) /\ WF_peers_vars(\E a \in Actors : Finish(a))

PeersSpec == PeersInit /\ [][PeersNext]_peers_vars /\ PeersFairness
(***************************************************************************)
(* Properties                                                              *)
(***************************************************************************)
Record == [latency : Nat, invalid : 0..limits.events, violation : 0..limits.events, uptime : Nat,
           observed : Nat, anchor : 0..limits.time, responsive : BOOLEAN, verified : BOOLEAN]
Reasons == {"InvalidBlocks", "ProtocolViolation", "RateLimit", "Manual"}
Ban == [until : Nat, reason : Reasons, persistent : BOOLEAN]

\* Store, pool, tasks and file hold what the Rust types allow.
PeersTypeOK ==
    /\ now \in 0..limits.time /\ limits \in Limits /\ events \in 0..limits.events /\ crashes \in 0..limits.crashes
    /\ DOMAIN peers \subseteq Peers /\ \A p \in DOMAIN peers : peers[p] \in Record
    /\ DOMAIN ban_state \subseteq Peers /\ \A p \in DOMAIN ban_state : ban_state[p] \in Ban
    /\ pool \in [Peers -> Sessions \cup {NoSession}]
    /\ \A s \in Sessions :
           sess[s].pc \in {"idle", "handshake", "hello", "insert", "record", "start", "up"}
    /\ half \subseteq Sessions /\ loops \subseteq Sessions /\ raced \subseteq Sessions
    /\ \A a \in Actors : todo[a] \in [drop : SUBSET Peers, save : BOOLEAN,
                                      then : {"none", "ban", "exit"}]

\* check_admission runs long before register_connection inserts, and handshakes
\* run concurrently; the caps on all sessions and on one range hold regardless.
PoolWithinCaps ==
    /\ Cardinality(Connected) =< limits.max_connections
    /\ \A r \in Ranges : count_by_ip_range(r) =< limits.max_per_ip_range

\* A banned identity is in the pool only between the ban and the drop its
\* author owes, or when the ban fell between register_connection's ban check
\* and its insertion (raced).
BannedStayOut ==
    \A p \in Connected :
        is_banned(p) => pool[p] \in raced \/ \E a \in Actors : p \in todo[a].drop

\* Every registered session is about to be driven or is driven by a loop, so it
\* leaves the pool when its socket ends.
NoZombies ==
    \A p \in Connected :
        LET s == pool[p]
        IN  sess[s].peer = p /\ (s \in loops \/ (s \in half /\ sess[s].pc \in {"record", "start"}))

Saved == ~overwritten /\ \A a \in Actors : ~todo[a].save

\* With no write owed, network.json lists every persistent ban in force and no
\* ban that was lifted, unless Node::add_peer wrote an older copy back.
DurableBans ==
    Saved =>
        /\ \A p \in DOMAIN ban_state : ban_state[p].persistent => p \in DOMAIN disk.banned
        /\ \A p \in DOMAIN disk.banned : disk.banned[p].left > 0 => is_banned(p)

\* A restart from an intact file neither loses nor shortens a persistent ban.
RestartKeepsBans ==
    [][(crashes' > crashes /\ Saved /\ disk' = disk) =>
          \A p \in DOMAIN ban_state :
              (ban_state[p].persistent /\ ban_state[p].until > now) =>
                  p \in DOMAIN ban_state' /\ ban_state'[p].until >= ban_state[p].until]_peers_vars

\* A tick lifts exactly the bans that ran out and leaves the others as they
\* are: an active ban is served, not re-armed, and expiry lasts one window.
TickServesBans ==
    [][tick_at =>
          \A p \in DOMAIN ban_state :
              IF ban_state[p].until < now THEN p \notin DOMAIN ban_state'
              ELSE p \in DOMAIN ban_state' /\ ban_state'[p] = ban_state[p]]_peers_vars

\* The false-positive guarantee of the scoring formula: latency alone never
\* bans a peer that answered in every window.
ResponsiveNeverBanned ==
    [][\A p \in DOMAIN ban_state' :
          (/\ ban_state'[p].reason # "Manual" /\ crashes' = crashes
           /\ (p \notin DOMAIN ban_state \/ ban_state'[p] # ban_state[p])
           /\ p \in DOMAIN peers' /\ peers'[p].invalid + peers'[p].violation = 0)
              => uptime_norm(peers'[p]) < 100]_peers_vars

=============================================================================
