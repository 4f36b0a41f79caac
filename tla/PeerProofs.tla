----------------------------- MODULE PeerProofs -----------------------------
(***************************************************************************)
(* Proofs about the peer manager, for any number of identities and tasks:  *)
(* what every operation keeps of the pool's caps, of who drives a          *)
(* registered session, of how a banned identity leaves, of network.json    *)
(* and of the bans; the inductive invariant of the peer manager and the    *)
(* theorems it gives.                                                      *)
(***************************************************************************)
EXTENDS PeerManager, FiniteSetTheorems, TLAPS

Stages == {"idle", "handshake", "hello", "insert", "record", "start", "up"}
SessionType == [pc : Stages, peer : Peers \cup {NoPeer}, range : Ranges \cup {NoRange},
                out : BOOLEAN]
TodoType == [drop : SUBSET Peers, save : BOOLEAN, then : {"none", "ban", "exit"}]

TablesOK ==
    /\ limits \in Limits
    /\ pool \in [Peers -> Sessions \cup {NoSession}]
    /\ sess \in [Sessions -> SessionType]
    /\ half \subseteq Sessions /\ loops \subseteq Sessions /\ raced \subseteq Sessions
    /\ todo \in [Actors -> TodoType]

\* What the stage of a session's task says of the rest: its identity is known, it is
\* parked or driven only once registered, it owes nothing before it is, and a ban
\* it overlooked was noted; only a loop may still have to ban its peer.
StageOK(s) ==
    /\ sess[s].pc # "idle" => sess[s].peer \in Peers
    /\ s \in half => sess[s].pc \in {"record", "start"}
    /\ s \in loops => sess[s].pc \in {"record", "start", "up"}
    /\ sess[s].pc \in {"handshake", "hello", "insert"} => Free(s)
    /\ (sess[s].pc = "insert" /\ is_banned(sess[s].peer)) => s \in raced
    /\ todo[s].then = "ban" => s \in loops

StagesOK == \A s \in Sessions : StageOK(s)

PoolInv == TablesOK /\ StagesOK /\ NoZombies /\ BannedStayOut /\ PoolWithinCaps

\* The pool's counts are finite and do not grow when sessions only leave it and
\* the ones that stay keep their range.
LEMMA CapsKept ==
    ASSUME TablesOK, PoolWithinCaps, limits' = limits, pool' \in [Peers -> Sessions \cup {NoSession}],
           \A p \in Peers : pool'[p] # NoSession =>
               pool'[p] = pool[p] /\ sess'[pool[p]].range = sess[pool[p]].range
    PROVE  PoolWithinCaps'
<1>1. Connected' \subseteq Connected /\ IsFiniteSet(Connected)
  <2>1. Connected' \subseteq Connected
    BY Zenon DEF Connected
  <2>2. IsFiniteSet(Connected)
    BY PeersAssumption, FS_Subset, Zenon DEF Connected
  <2> QED
    BY <2>1, <2>2, Zenon
<1>2. Cardinality(Connected') =< Cardinality(Connected)
  BY <1>1, FS_Subset, Zenon
<1>3. Cardinality(Connected) \in Nat /\ Cardinality(Connected') \in Nat
  BY <1>1, FS_Subset, FS_CardinalityType, Zenon
<1>4. limits.max_connections \in Nat /\ limits.max_per_ip_range \in Nat
  BY PeersAssumption, Zenon DEF TablesOK
<1>5. ASSUME NEW r \in Ranges
      PROVE  count_by_ip_range(r)' =< limits.max_per_ip_range
  <2> DEFINE Of == {p \in Connected : sess[pool[p]].range = r}
  <2>1. Of' \subseteq Of
    BY <1>1, Zenon DEF Connected
  <2>2. IsFiniteSet(Of)
    BY <1>1, FS_Subset, Zenon
  <2> HIDE DEF Of
  <2>3. Cardinality(Of') =< Cardinality(Of) /\ Cardinality(Of) \in Nat /\ Cardinality(Of') \in Nat
    BY <2>1, <2>2, FS_Subset, FS_CardinalityType, Zenon
  <2>4. Cardinality(Of) =< limits.max_per_ip_range
    BY Zenon DEF PoolWithinCaps, count_by_ip_range, Of
  <2>5. Cardinality(Of') =< limits.max_per_ip_range
    BY <2>3, <2>4, <1>4
  <2> QED
    BY <2>5, Zenon DEF count_by_ip_range, Of
<1>6. Cardinality(Connected') =< limits.max_connections
  BY <1>2, <1>3, <1>4 DEF PoolWithinCaps
<1> QED
  BY <1>5, <1>6, Zenon DEF PoolWithinCaps

\* A step of the store alone: actor a bans at most D and owes the drop of all of it,
\* and what it owed before; sessions that overlook such a ban are noted.
LEMMA StoreStep ==
    ASSUME PoolInv, UNCHANGED <<limits, net>>, NEW a \in Actors, NEW D \in SUBSET Peers,
           NEW t \in TodoType, todo' = [todo EXCEPT ![a] = t],
           todo[a].drop \cup D \subseteq t.drop,
           DOMAIN ban_state' \subseteq DOMAIN ban_state \cup D,
           raced' = raced \cup InWindow(D),
           a \in Sessions => \/ t = todo[a]
                            \/ /\ sess[a].pc \notin {"handshake", "hello", "insert"}
                               /\ t.then = "ban" => a \in loops
    PROVE  PoolInv'
<1> USE DEF PoolInv, net
<1>1. TablesOK'
  BY Zenon DEF TablesOK, InWindow
<1>2. StagesOK'
  <2> SUFFICES ASSUME NEW s \in Sessions PROVE StageOK(s)'
    BY Zenon DEF StagesOK
  <2>1. s \in Actors /\ todo \in [Actors -> TodoType]
    BY Zenon DEF Actors, TablesOK
  <2>2. StageOK(s)
    BY Zenon DEF StagesOK
  <2>3. sess[s].pc \in {"handshake", "hello", "insert"} => Free(s)'
    BY <2>1, <2>2, Zenon DEF StageOK, Free
  <2>4. (sess[s].pc = "insert" /\ is_banned(sess[s].peer)') => s \in raced'
    BY <2>2, Zenon DEF StageOK, is_banned, InWindow
  <2>5. todo'[s].then = "ban" => s \in loops
    BY <2>1, <2>2, Zenon DEF StageOK
  <2> QED
    BY <2>2, <2>3, <2>4, <2>5, Zenon DEF StageOK
<1>3. NoZombies'
  BY Zenon DEF NoZombies, Connected
<1>4. BannedStayOut'
  <2> SUFFICES ASSUME NEW p \in Connected', is_banned(p)'
               PROVE  pool[p] \in raced' \/ \E b \in Actors : p \in todo'[b].drop
    BY Zenon DEF BannedStayOut
  <2>1. p \in Connected /\ todo \in [Actors -> TodoType]
    BY Zenon DEF Connected, TablesOK
  <2>2. CASE p \in D
    BY <2>1, <2>2, Zenon
  <2>3. CASE p \notin D
    <3>1. is_banned(p)
      BY <2>3, Zenon DEF is_banned
    <3>2. pool[p] \in raced \/ \E b \in Actors : p \in todo[b].drop
      BY <2>1, <3>1, Zenon DEF BannedStayOut
    <3> QED
      BY <2>1, <3>2, Zenon
  <2> QED
    BY <2>2, <2>3, Zenon
<1>5. PoolWithinCaps'
  BY CapsKept, Zenon DEF TablesOK
<1> QED
  BY <1>1, <1>2, <1>3, <1>4, <1>5, Zenon

\* A decision bans exactly whom finish_decision has to drop.
LEMMA DecisionDomain ==
    ASSUME NEW bans, NEW p, NEW reason, NEW decision, NEW then
    PROVE  DOMAIN apply_decision(bans, p, reason, decision)
               = DOMAIN bans \cup Outcome(p, decision, then).drop
BY Zenon DEF apply_decision, Outcome, StoreBan, Put

\* An observed event of a known identity, by an actor that owes nothing.
LEMMA ObserveKeeps ==
    ASSUME PoolInv, NEW a \in Actors, NEW p \in Peers, NEW r, NEW reason,
           NEW then \in {"none", "ban", "exit"}, Free(a), Observe(a, p, r, reason, then),
           a \in Sessions => /\ sess[a].pc \notin {"handshake", "hello", "insert"}
                             /\ then = "ban" => a \in loops
    PROVE  PoolInv'
<1> DEFINE decision == decide(compute_score(r))
           t == Outcome(p, decision, then)
<1>1. /\ ban_state' = apply_decision(ban_state, p, reason, decision)
      /\ todo' = [todo EXCEPT ![a] = t]
      /\ raced' = raced \cup InWindow(t.drop)
      /\ UNCHANGED <<limits, net>>
  BY Zenon DEF Observe
<1> HIDE DEF decision
<1>2. t \in TodoType /\ t.drop \in SUBSET Peers /\ t.then = then
  BY Zenon DEF TodoType, Outcome
<1>3. DOMAIN ban_state' = DOMAIN ban_state \cup t.drop
  BY <1>1, DecisionDomain, SMTT(30)
<1>4. todo[a].drop = {}
  BY DEF Free, Done
<1> HIDE DEF t
<1> QED
  BY <1>1, <1>2, <1>3, <1>4, StoreStep, Zenon

\* record_event: a known identity is observed, an unknown one ignored.
LEMMA EventKeeps ==
    ASSUME PoolInv, NEW a \in Actors, NEW p \in Peers, NEW counter, NEW reason,
           NEW then \in {"none", "ban", "exit"}, Free(a), record_event(a, p, counter, reason, then),
           a \in Sessions => /\ sess[a].pc \notin {"handshake", "hello", "insert"}
                             /\ then = "ban" => a \in loops
    PROVE  PoolInv'
<1>1. CASE p \in DOMAIN peers
           /\ Observe(a, p, note_message([peers[p] EXCEPT ![counter] = @ + 1]), reason, then)
  BY <1>1, ObserveKeeps, Zenon
<1>2. CASE todo' = [todo EXCEPT ![a].then = then]
           /\ UNCHANGED <<now, limits, store, net, file, raced>>
  <2> DEFINE t == [todo[a] EXCEPT !.then = then]
  <2>1. todo[a] \in TodoType /\ todo \in [Actors -> TodoType]
    BY Zenon DEF PoolInv, TablesOK
  <2>2. t \in TodoType /\ t.drop = todo[a].drop /\ t.then = then
    BY <2>1, Zenon DEF TodoType
  <2>3. todo' = [todo EXCEPT ![a] = t]
    BY <1>2, <2>1, Zenon
  <2>4. raced' = raced \cup InWindow({}) /\ DOMAIN ban_state' = DOMAIN ban_state
    BY <1>2, Zenon DEF InWindow, store
  <2>5. UNCHANGED <<limits, net>>
    BY <1>2, Zenon
  <2>6. todo[a].drop \cup {} \subseteq t.drop /\ DOMAIN ban_state' \subseteq DOMAIN ban_state \cup {}
    BY <2>2, <2>4, Zenon
  <2> HIDE DEF t
  <2> QED
    BY <2>2, <2>3, <2>4, <2>5, <2>6, StoreStep, Zenon
<1> QED
  BY <1>1, <1>2, Zenon DEF record_event

\* An explicit ban, by an actor that has no drop left to do.
LEMMA BanKeeps ==
    ASSUME PoolInv, NEW a \in Actors, NEW p \in Peers, NEW reason, NEW duration,
           NEW persistent \in BOOLEAN, NEW then \in {"none", "exit"}, todo[a].drop = {},
           BanPeer(a, p, reason, duration, persistent, then),
           a \in Sessions => sess[a].pc \notin {"handshake", "hello", "insert"}
    PROVE  PoolInv'
<1> DEFINE t == [drop |-> {p}, save |-> persistent, then |-> then]
<1>1. t \in TodoType /\ todo[a].drop \cup {p} \subseteq t.drop /\ t.then # "ban"
  BY Zenon DEF TodoType
<1>2. DOMAIN ban_state' \subseteq DOMAIN ban_state \cup {p}
  BY Zenon DEF BanPeer, StoreBan, Put
<1>3. /\ todo' = [todo EXCEPT ![a] = t] /\ raced' = raced \cup InWindow({p})
      /\ UNCHANGED <<limits, net>>
  BY Zenon DEF BanPeer
<1> HIDE DEF t
<1> QED
  BY <1>1, <1>2, <1>3, StoreStep, Zenon

\* A step that bans nobody and leaves the actors' debts, but for a save of actor a.
LEMMA QuietStep ==
    ASSUME PoolInv, UNCHANGED <<limits, net, raced>>, NEW a \in Actors, NEW save \in BOOLEAN,
           todo' = [todo EXCEPT ![a].save = save] \/ todo' = todo,
           DOMAIN ban_state' \subseteq DOMAIN ban_state,
           a \in Sessions => ~Free(a)
    PROVE  PoolInv'
<1> DEFINE t == IF todo' = todo THEN todo[a] ELSE [todo[a] EXCEPT !.save = save]
<1>1. todo[a] \in TodoType /\ todo \in [Actors -> TodoType]
  BY Zenon DEF PoolInv, TablesOK
<1>2. t \in TodoType /\ t.drop = todo[a].drop /\ t.then = todo[a].then
  BY <1>1, Zenon DEF TodoType
<1>3. todo' = [todo EXCEPT ![a] = t]
  BY <1>1, Zenon
<1>4. raced' = raced \cup InWindow({})
  BY Zenon DEF InWindow
<1>5. todo[a].drop \cup {} \subseteq t.drop /\ DOMAIN ban_state' \subseteq DOMAIN ban_state \cup {}
  BY <1>2, Zenon
<1>6. a \in Sessions => /\ sess[a].pc \notin {"handshake", "hello", "insert"}
                        /\ t.then = "ban" => a \in loops
  BY <1>2, Zenon DEF PoolInv, StagesOK, StageOK
<1> HIDE DEF t
<1> QED
  BY <1>2, <1>3, <1>4, <1>5, <1>6, StoreStep, Zenon

\* The tick bans only identities that were not banned, and drops all of them.
LEMMA TickKeeps ==
    ASSUME PoolInv, tick_at, DOMAIN peers \subseteq Peers
    PROVE  PoolInv'
<1> DEFINE minted == {p \in Rescored : TickDecision(p) \in {"TempBan", "PersistentBan"}}
<1>1. minted \in SUBSET Peers
  BY Zenon DEF Rescored
<1>2. PICK save \in BOOLEAN : todo' = [todo EXCEPT ![ticker] = [drop |-> minted, save |-> save, then |-> "none"]]
  BY Zenon DEF tick_at
<1>3. DOMAIN ban_state' \subseteq DOMAIN ban_state \cup minted
  BY Zenon DEF tick_at
<1>4. raced' = raced \cup InWindow(minted) /\ UNCHANGED <<limits, net>>
  BY Zenon DEF tick_at
<1>5. ticker \in Actors /\ ticker \notin Sessions /\ todo[ticker].drop = {}
  BY PeersAssumption DEF tick_at, Free, Done, Actors, ticker
<1> HIDE DEF minted
<1> DEFINE t == [drop |-> minted, save |-> save, then |-> "none"]
<1>6. t \in TodoType /\ todo[ticker].drop \cup minted \subseteq t.drop
  BY <1>1, <1>5, Zenon DEF TodoType
<1>7. todo' = [todo EXCEPT ![ticker] = t]
  BY <1>2, Zenon
<1> HIDE DEF t
<1> QED
  BY <1>1, <1>3, <1>4, <1>5, <1>6, <1>7, StoreStep, Zenon

(***************************************************************************)
(* Steps of the tasks that establish sessions.                             *)
(***************************************************************************)
\* Only the task of session s moves: s is not registered and takes any value that
\* fits its stage, or it is and keeps its identity and range.
LEMMA TaskStep ==
    ASSUME PoolInv, NEW s \in Sessions, NEW v \in SessionType, sess' = [sess EXCEPT ![s] = v],
           UNCHANGED <<limits, pool, half, loops, todo>>, DOMAIN ban_state' = DOMAIN ban_state,
           \/ raced' = raced
           \/ raced' = raced \ {s} /\ v.pc = "idle" /\ \A p \in Peers : pool[p] # s,
           \/ \A p \in Peers : pool[p] # s
           \/ v.peer = sess[s].peer /\ v.range = sess[s].range /\ v.pc \in {"record", "start"},
           StageOK(s)'
    PROVE  PoolInv'
<1> USE DEF PoolInv
<1>1. /\ sess \in [Sessions -> SessionType] /\ NoSession \notin Sessions
      /\ pool \in [Peers -> Sessions \cup {NoSession}] /\ raced \subseteq Sessions
  BY PeersAssumption, Zenon DEF TablesOK
<1>2. TablesOK'
  BY <1>1, Zenon DEF TablesOK
<1>3. StagesOK'
  <2> SUFFICES ASSUME NEW u \in Sessions, u # s PROVE StageOK(u)'
    BY Zenon DEF StagesOK
  <2>1. StageOK(u) /\ sess'[u] = sess[u]
    BY <1>1, Zenon DEF StagesOK
  <2> QED
    BY <2>1, Zenon DEF StageOK, is_banned, Free
<1>4. NoZombies'
  <2> SUFFICES ASSUME NEW p \in Peers, pool[p] # NoSession
               PROVE  /\ sess'[pool[p]].peer = p
                      /\ \/ pool[p] \in loops
                         \/ pool[p] \in half /\ sess'[pool[p]].pc \in {"record", "start"}
    BY Zenon DEF NoZombies, Connected
  <2>1. /\ sess[pool[p]].peer = p
        /\ pool[p] \in loops \/ (pool[p] \in half /\ sess[pool[p]].pc \in {"record", "start"})
    BY Zenon DEF NoZombies, Connected
  <2>2. CASE pool[p] = s
    BY <1>1, <2>1, <2>2, Zenon
  <2>3. CASE pool[p] # s
    <3>1. sess'[pool[p]] = sess[pool[p]]
      BY <1>1, <2>3, Zenon
    <3> QED
      BY <2>1, <3>1, Zenon
  <2> QED
    BY <2>2, <2>3, Zenon
<1>5. BannedStayOut'
  BY Zenon DEF BannedStayOut, Connected, is_banned
<1>6. PoolWithinCaps'
  <2>1. ASSUME NEW p \in Peers, pool[p] # NoSession
        PROVE  sess'[pool[p]].range = sess[pool[p]].range
    BY <1>1, <2>1, Zenon
  <2> QED
    BY <1>1, <2>1, CapsKept, Zenon
<1> QED
  BY <1>2, <1>3, <1>4, <1>5, <1>6, Zenon

\* A session whose task is not past registration, or never was, is not in the pool.
LEMMA NotRegistered ==
    ASSUME PoolInv, NEW s \in Sessions, sess[s].pc \in {"idle", "handshake", "hello", "insert"}
    PROVE  /\ \A p \in Peers : pool[p] # s
           /\ s \notin half /\ s \notin loops
<1>1. NoSession \notin Sessions /\ StageOK(s)
  BY PeersAssumption, Zenon DEF PoolInv, StagesOK
<1>2. s \notin half /\ s \notin loops
  BY <1>1, Zenon DEF StageOK
<1>3. ASSUME NEW p \in Peers, pool[p] = s PROVE FALSE
  <2>1. s \in loops \/ s \in half
    BY <1>1, <1>3, Zenon DEF PoolInv, NoZombies, Connected
  <2> QED
    BY <1>2, <2>1, Zenon
<1> QED
  BY <1>2, <1>3, Zenon

\* A task that is not past registration ends.
LEMMA EndKeeps ==
    ASSUME PoolInv, NEW s \in Sessions, sess[s].pc \in {"handshake", "hello", "insert"}, End(s),
           UNCHANGED <<limits, store, pool, half, loops, todo>>
    PROVE  PoolInv'
<1>1. Idle \in SessionType /\ Idle.pc = "idle"
  BY Zenon DEF Idle, SessionType, Stages
<1>2. (\A p \in Peers : pool[p] # s) /\ s \notin half /\ s \notin loops
  BY NotRegistered, Zenon
<1>3. sess' = [sess EXCEPT ![s] = Idle] /\ raced' = raced \ {s}
  BY Zenon DEF End
<1>4. sess'[s] = Idle /\ todo[s].then # "ban"
  BY <1>2, <1>3, Zenon DEF PoolInv, TablesOK, StagesOK, StageOK
<1>5. StageOK(s)'
  BY <1>1, <1>2, <1>4, Zenon DEF StageOK
<1>6. DOMAIN ban_state' = DOMAIN ban_state
  BY Zenon DEF store
<1> HIDE DEF Idle
<1> QED
  BY <1>1, <1>2, <1>3, <1>5, <1>6, TaskStep, Zenon

\* A task moves on to stage pc.
LEMMA GoKeeps ==
    ASSUME PoolInv, NEW s \in Sessions, NEW pc \in Stages, Go(s, pc),
           UNCHANGED <<limits, ban_state, pool, half, loops, todo, raced>>,
           \/ sess[s].pc = "handshake" /\ pc = "hello"
           \/ sess[s].pc = "hello" /\ pc = "insert" /\ ~is_banned(sess[s].peer)
           \/ sess[s].pc = "record" /\ pc = "start"
    PROVE  PoolInv'
<1> DEFINE v == [sess[s] EXCEPT !.pc = pc]
<1>1. sess \in [Sessions -> SessionType] /\ sess[s] \in SessionType
  BY Zenon DEF PoolInv, TablesOK
<1>2. /\ v \in SessionType /\ v.peer = sess[s].peer /\ v.range = sess[s].range /\ v.pc = pc
      /\ sess' = [sess EXCEPT ![s] = v] /\ sess'[s] = v
  BY <1>1, Zenon DEF Go, SessionType
<1>3. StageOK(s)
  BY Zenon DEF PoolInv, StagesOK
<1>4. StageOK(s)'
  BY <1>2, <1>3, Zenon DEF StageOK, is_banned, Free
<1>5. (\A p \in Peers : pool[p] # s) \/ pc = "start"
  BY NotRegistered, Zenon
<1> HIDE DEF v
<1> QED
  BY <1>2, <1>4, <1>5, TaskStep, Zenon

\* A new task, of a dial or of an accepted socket.
LEMMA NewTaskKeeps ==
    ASSUME PoolInv, NEW s \in Sessions, NEW p \in Peers, NEW r \in Ranges, NEW out \in BOOLEAN,
           Unused(s), UNCHANGED <<limits, store, pool, half, loops, todo, raced>>,
           sess' = [sess EXCEPT ![s] = [pc |-> "handshake", peer |-> p, range |-> r, out |-> out]]
    PROVE  PoolInv'
<1> DEFINE v == [pc |-> "handshake", peer |-> p, range |-> r, out |-> out]
<1>1. v \in SessionType /\ v.pc = "handshake" /\ v.peer = p
  BY Zenon DEF SessionType, Stages
<1>2. sess[s].pc = "idle" /\ Free(s) /\ s \in Actors /\ todo[s].then # "ban"
  BY DEF Unused, Idle, Free, Done, Actors
<1>3. (\A q \in Peers : pool[q] # s) /\ s \notin half /\ s \notin loops
  BY <1>2, NotRegistered, Zenon
<1>4. sess' = [sess EXCEPT ![s] = v] /\ sess'[s] = v
  BY Zenon DEF PoolInv, TablesOK
<1>5. StageOK(s)'
  BY <1>1, <1>2, <1>3, <1>4, Zenon DEF StageOK, Free
<1>6. DOMAIN ban_state' = DOMAIN ban_state
  BY Zenon DEF store
<1> HIDE DEF v
<1> QED
  BY <1>1, <1>3, <1>4, <1>5, <1>6, TaskStep, Zenon

\* A session that is registered is in the pool under its identity, and the pool had
\* room for it; a refused one ends.
LEMMA InsertKeeps ==
    ASSUME PoolInv, NEW s \in Sessions, Insert(s)
    PROVE  PoolInv'
<1>1. sess[s].pc = "insert" /\ UNCHANGED <<limits, store, loops, todo>>
  BY Zenon DEF Insert
<1>2. CASE ~CanRegister(s)
  BY <1>1, <1>2, EndKeeps, Zenon DEF Insert
<1>3. CASE CanRegister(s)
  <2> DEFINE p == sess[s].peer
             v == [sess[s] EXCEPT !.pc = "record"]
  <2>0. /\ sess \in [Sessions -> SessionType] /\ sess[s] \in SessionType
        /\ pool \in [Peers -> Sessions \cup {NoSession}] /\ NoSession \notin Sessions
        /\ limits \in Limits /\ StageOK(s) /\ p \in Peers
    BY <1>1, PeersAssumption, Zenon DEF PoolInv, TablesOK, StagesOK, StageOK
  <2>1. /\ pool' = [pool EXCEPT ![p] = s] /\ half' = half \cup {s} /\ raced' = raced
        /\ sess' = [sess EXCEPT ![s].pc = "record"] /\ pool[p] = NoSession
    BY <1>3, Zenon DEF Insert, Go, CanRegister
  <2>2. /\ v \in SessionType /\ v.pc = "record" /\ v.peer = p /\ v.range = sess[s].range
        /\ sess' = [sess EXCEPT ![s] = v]
    BY <2>0, <2>1, Zenon DEF SessionType, Stages
  <2>3. (\A q \in Peers : pool[q] # s) /\ s \notin loops
    BY <1>1, NotRegistered, Zenon
  <2> HIDE DEF v, p
  <2>4. TablesOK'
    BY <1>1, <2>0, <2>1, <2>2 DEF PoolInv, TablesOK
  <2>5. StagesOK'
    <3> SUFFICES ASSUME NEW u \in Sessions PROVE StageOK(u)'
      BY Zenon DEF StagesOK
    <3>1. CASE u = s
      BY <1>1, <2>0, <2>1, <2>2, <2>3, <3>1, Zenon DEF StageOK
    <3>2. CASE u # s
      <4>1. StageOK(u) /\ sess'[u] = sess[u]
        BY <2>0, <2>2, <3>2, Zenon DEF PoolInv, StagesOK
      <4> QED
        BY <1>1, <2>1, <3>2, <4>1, Zenon DEF StageOK, is_banned, Free, store
    <3> QED
      BY <3>1, <3>2, Zenon
  <2>6. NoZombies'
    <3> SUFFICES ASSUME NEW q \in Peers, pool'[q] # NoSession
                 PROVE  /\ sess'[pool'[q]].peer = q
                        /\ \/ pool'[q] \in loops
                           \/ pool'[q] \in half' /\ sess'[pool'[q]].pc \in {"record", "start"}
      BY <1>1, Zenon DEF NoZombies, Connected
    <3>1. CASE q = p
      BY <2>0, <2>1, <2>2, <3>1, Zenon
    <3>2. CASE q # p
      <4>1. pool'[q] = pool[q] /\ pool[q] \in Sessions /\ pool[q] # s
        BY <2>0, <2>1, <2>3, <3>2, Zenon
      <4>2. sess'[pool[q]] = sess[pool[q]]
        BY <2>0, <2>2, <4>1, Zenon
      <4> QED
        BY <2>1, <4>1, <4>2 DEF PoolInv, NoZombies, Connected
    <3> QED
      BY <3>1, <3>2, Zenon
  <2>7. BannedStayOut'
    <3> SUFFICES ASSUME NEW q \in Peers, pool'[q] # NoSession, is_banned(q)
                 PROVE  pool'[q] \in raced \/ \E a \in Actors : q \in todo[a].drop
      BY <1>1, <2>1, Zenon DEF BannedStayOut, Connected, is_banned, store
    <3>1. CASE q = p
      BY <1>1, <2>0, <2>1, <3>1, Zenon DEF StageOK, p
    <3>2. CASE q # p
      BY <2>0, <2>1, <3>2, Zenon DEF PoolInv, BannedStayOut, Connected
    <3> QED
      BY <3>1, <3>2, Zenon
  <2>8. PoolWithinCaps'
    <3>1. Connected' = Connected \cup {p} /\ p \notin Connected
      BY <2>0, <2>1, Zenon DEF Connected
    <3>2. IsFiniteSet(Connected)
      BY PeersAssumption, FS_Subset, Zenon DEF Connected
    <3>3. /\ Cardinality(Connected') = Cardinality(Connected) + 1
          /\ Cardinality(Connected) \in Nat
      BY <3>1, <3>2, FS_AddElement, FS_CardinalityType, Zenon
    <3>4. Cardinality(Connected) < limits.max_connections
      BY <1>3, Zenon DEF CanRegister
    <3>5. limits.max_connections \in Nat /\ limits.max_per_ip_range \in Nat
      BY <2>0, PeersAssumption, Zenon
    <3>6. ASSUME NEW r \in Ranges
          PROVE  count_by_ip_range(r)' =< limits.max_per_ip_range
      <4> DEFINE Of == {q \in Connected : sess[pool[q]].range = r}
      <4>1. \A q \in Connected : pool'[q] = pool[q] /\ sess'[pool'[q]].range = sess[pool[q]].range
        BY <2>0, <2>1, <2>2, <2>3, <3>1, Zenon DEF Connected
      <4>2. pool'[p] = s /\ sess'[s].range = sess[s].range
        BY <2>0, <2>1, <2>2, Zenon
      <4>3. Of' = IF sess[s].range = r THEN Of \cup {p} ELSE Of
        BY <3>1, <4>1, <4>2, Zenon
      <4>4. IsFiniteSet(Of) /\ p \notin Of
        BY <3>1, <3>2, FS_Subset, Zenon
      <4>5. sess[s].range = r => Cardinality(Of) < limits.max_per_ip_range
        BY <1>3, Zenon DEF CanRegister, count_by_ip_range
      <4>6. Cardinality(Of) =< limits.max_per_ip_range
        BY Zenon DEF PoolInv, PoolWithinCaps, count_by_ip_range
      <4> HIDE DEF Of
      <4>7. Cardinality(Of \cup {p}) = Cardinality(Of) + 1 /\ Cardinality(Of) \in Nat
        BY <4>4, FS_AddElement, FS_CardinalityType, Zenon
      <4>8. Cardinality(Of') =< limits.max_per_ip_range
        BY <3>5, <4>3, <4>5, <4>6, <4>7
      <4> QED
        BY <4>8, Zenon DEF count_by_ip_range, Of
    <3> QED
      BY <1>1, <3>3, <3>4, <3>5, <3>6 DEF PoolWithinCaps
  <2> QED
    BY <2>4, <2>5, <2>6, <2>7, <2>8, Zenon DEF PoolInv
<1> QED
  BY <1>2, <1>3, Zenon

\* Only the pool, the loops and the debts of actors shrink: one identity p leaves the
\* pool, and its drop is no longer owed by anyone who owed it.
LEMMA DropKeeps ==
    ASSUME PoolInv, NEW a \in Actors, FinishDrop(a)
    PROVE  PoolInv'
<1>1. PICK p \in todo[a].drop :
        /\ pool' = [pool EXCEPT ![p] = NoSession]
        /\ todo' = [todo EXCEPT ![a].drop = @ \ {p}]
        /\ UNCHANGED <<limits, ban_state, sess, half, loops, raced>>
  BY Zenon DEF FinishDrop, disconnect_peer, store
<1>2. /\ todo \in [Actors -> TodoType] /\ pool \in [Peers -> Sessions \cup {NoSession}]
      /\ todo[a] \in TodoType /\ p \in Peers
  BY Zenon DEF PoolInv, TablesOK, TodoType
<1> DEFINE t == [todo[a] EXCEPT !.drop = @ \ {p}]
<1>3. /\ t \in TodoType /\ t.drop = todo[a].drop \ {p} /\ t.then = todo[a].then
      /\ todo' = [todo EXCEPT ![a] = t]
  BY <1>1, <1>2, Zenon DEF TodoType
<1> HIDE DEF t
<1>4. TablesOK'
  BY <1>1, <1>2, <1>3, Zenon DEF PoolInv, TablesOK
<1>5. StagesOK'
  <2> SUFFICES ASSUME NEW s \in Sessions PROVE StageOK(s)'
    BY Zenon DEF StagesOK
  <2>1. StageOK(s) /\ s \in Actors
    BY Zenon DEF PoolInv, StagesOK, Actors
  <2>2. Free(s) => Free(s)'
    <3>1. Free(s) => s # a
      BY <1>1 DEF Free, Done
    <3>2. s # a => todo'[s] = todo[s]
      BY <1>2, <1>3, <2>1, Zenon
    <3>3. Done' = Done
      BY Zenon DEF Done
    <3> QED
      BY <3>1, <3>2, <3>3, Zenon DEF Free
  <2>3. todo'[s].then = todo[s].then
    BY <1>2, <1>3, <2>1, Zenon
  <2> QED
    BY <1>1, <2>1, <2>2, <2>3, Zenon DEF StageOK, is_banned
<1>6. \A q \in Peers : pool'[q] # NoSession => pool'[q] = pool[q] /\ q # p
  BY <1>1, <1>2, Zenon
<1>7. NoZombies'
  BY <1>1, <1>6 DEF PoolInv, NoZombies, Connected
<1>8. BannedStayOut'
  <2> SUFFICES ASSUME NEW q \in Peers, pool'[q] # NoSession, is_banned(q)
               PROVE  pool[q] \in raced \/ \E b \in Actors : q \in todo'[b].drop
    BY <1>1, <1>6 DEF BannedStayOut, Connected, is_banned
  <2>1. pool[q] \in raced \/ \E b \in Actors : q \in todo[b].drop
    BY <1>6, Zenon DEF PoolInv, BannedStayOut, Connected
  <2> QED
    BY <1>2, <1>3, <1>6, <2>1, Zenon
<1>9. PoolWithinCaps'
  BY <1>1, <1>4, <1>6, CapsKept, Zenon DEF PoolInv, TablesOK
<1> QED
  BY <1>4, <1>5, <1>7, <1>8, <1>9, Zenon DEF PoolInv

\* A loop that ends takes its session out of the pool, by identity.
LEMMA LoopExitKeeps ==
    ASSUME PoolInv, NEW s \in Sessions, LoopExit(s)
    PROVE  PoolInv'
<1> DEFINE p == sess[s].peer
<1>1. /\ s \in loops /\ todo[s].drop = {} /\ pool' = [pool EXCEPT ![p] = NoSession]
      /\ loops' = loops \ {s} /\ todo' = [todo EXCEPT ![s] = Done]
      /\ UNCHANGED <<limits, ban_state, half>>
      /\ IF sess[s].pc = "up" THEN End(s) ELSE UNCHANGED <<sess, raced>>
  BY Zenon DEF LoopExit, disconnect_peer, store
<1>2. /\ todo \in [Actors -> TodoType] /\ pool \in [Peers -> Sessions \cup {NoSession}]
      /\ sess \in [Sessions -> SessionType] /\ Done \in TodoType /\ Idle \in SessionType
      /\ NoSession \notin Sessions /\ s \in Actors
  BY PeersAssumption, Zenon DEF PoolInv, TablesOK, Done, Idle, TodoType, SessionType, Stages, Actors
<1>3. StageOK(s) /\ p \in Peers
  BY <1>1, Zenon DEF PoolInv, StagesOK, StageOK
<1>4. \A q \in Peers : pool'[q] # NoSession => pool'[q] = pool[q] /\ q # p /\ pool[q] # s
  <2>1. \A q \in Peers : pool'[q] # NoSession => pool'[q] = pool[q] /\ q # p
    BY <1>1, <1>2, <1>3, Zenon
  <2>2. \A q \in Peers : pool[q] = s => q = p
    BY <1>2, Zenon DEF PoolInv, NoZombies, Connected
  <2> QED
    BY <2>1, <2>2, Zenon
<1>5. \A u \in Sessions : u # s => sess'[u] = sess[u] /\ (u \in raced' <=> u \in raced)
  BY <1>1, <1>2, Zenon DEF End
<1>6. sess'[s] \in SessionType /\ raced' \subseteq Sessions /\ sess' \in [Sessions -> SessionType]
  BY <1>1, <1>2, ZenonT(30) DEF End, PoolInv, TablesOK
<1> HIDE DEF p
<1>7. TablesOK'
  BY <1>1, <1>2, <1>3, <1>6, Zenon DEF PoolInv, TablesOK
<1>8. StagesOK'
  <2> SUFFICES ASSUME NEW u \in Sessions PROVE StageOK(u)'
    BY Zenon DEF StagesOK
  <2>1. CASE u = s
    <3>1. CASE sess[s].pc = "up"
      <4>1. sess'[s] = Idle /\ s \notin half
        BY <1>1, <1>2, <1>3, <3>1, Zenon DEF End, StageOK
      <4> QED
        BY <1>1, <1>2, <2>1, <4>1 DEF StageOK, Idle, Done
    <3>2. CASE sess[s].pc # "up"
      BY <1>1, <1>2, <1>3, <2>1, <3>2, ZenonT(30) DEF StageOK, Done, Free, is_banned
    <3> QED
      BY <3>1, <3>2, Zenon
  <2>2. CASE u # s
    <3>1. StageOK(u) /\ u \in Actors /\ todo'[u] = todo[u]
      BY <1>1, <1>2, <2>2, Zenon DEF PoolInv, StagesOK, Actors
    <3> QED
      BY <1>1, <1>5, <2>2, <3>1, ZenonT(30) DEF StageOK, is_banned, Free
  <2> QED
    BY <2>1, <2>2, Zenon
<1>9. NoZombies'
  <2> SUFFICES ASSUME NEW q \in Peers, pool'[q] # NoSession
               PROVE  /\ sess'[pool[q]].peer = q
                      /\ \/ pool[q] \in loops'
                         \/ pool[q] \in half /\ sess'[pool[q]].pc \in {"record", "start"}
    BY <1>1, <1>4 DEF NoZombies, Connected
  <2>1. pool[q] \in Sessions /\ pool[q] # s /\ pool[q] # NoSession
    BY <1>2, <1>4, Zenon
  <2>2. sess'[pool[q]] = sess[pool[q]]
    BY <1>5, <2>1, Zenon
  <2> QED
    BY <1>1, <2>1, <2>2, Zenon DEF PoolInv, NoZombies, Connected
<1>10. BannedStayOut'
  <2> SUFFICES ASSUME NEW q \in Peers, pool'[q] # NoSession, is_banned(q)
               PROVE  pool[q] \in raced' \/ \E b \in Actors : q \in todo'[b].drop
    BY <1>1, <1>4, Zenon DEF BannedStayOut, Connected, is_banned
  <2>1. pool[q] \in raced \/ \E b \in Actors : q \in todo[b].drop
    BY <1>4, Zenon DEF PoolInv, BannedStayOut, Connected
  <2>2. pool[q] \in Sessions /\ pool[q] # s
    BY <1>2, <1>4, Zenon
  <2> QED
    BY <1>1, <1>2, <1>5, <2>1, <2>2, Zenon
<1>11. PoolWithinCaps'
  <2>1. ASSUME NEW q \in Peers, pool'[q] # NoSession
        PROVE  pool'[q] = pool[q] /\ sess'[pool[q]].range = sess[pool[q]].range
    <3>1. pool'[q] = pool[q] /\ pool[q] \in Sessions /\ pool[q] # s
      BY <1>2, <1>4, <2>1, Zenon
    <3> QED
      BY <1>5, <3>1, Zenon
  <2> QED
    BY <1>1, <1>7, <2>1, CapsKept, ZenonT(30) DEF PoolInv, TablesOK
<1> QED
  BY <1>7, <1>8, <1>9, <1>10, <1>11, Zenon DEF PoolInv

\* Whoever starts a loop takes a parked read half; a registered session whose task
\* starts is driven afterwards, by itself or already by another task.
LEMMA StartKeeps ==
    ASSUME PoolInv, NEW s \in Sessions, StartLoop(s)
    PROVE  PoolInv'
<1> DEFINE p == sess[s].peer
           t == IF sess[s].out THEN pool[p] ELSE s
<1>1. /\ sess[s].pc = "start" /\ half' = half \ {s, t}
      /\ loops' = IF t \in half THEN loops \cup {t} ELSE loops
      /\ s \in loops' => /\ sess' = [sess EXCEPT ![s].pc = "up", ![s].out = FALSE]
                         /\ raced' = raced
      /\ s \notin loops' => sess' = [sess EXCEPT ![s] = Idle] /\ raced' = raced \ {s}
      /\ UNCHANGED <<limits, ban_state, pool, todo>>
  BY Zenon DEF StartLoop, End, store
<1>2. /\ todo \in [Actors -> TodoType] /\ pool \in [Peers -> Sessions \cup {NoSession}]
      /\ sess \in [Sessions -> SessionType] /\ sess[s] \in SessionType /\ Idle \in SessionType
      /\ NoSession \notin Sessions /\ half \subseteq Sessions /\ loops \subseteq Sessions
      /\ StageOK(s) /\ p \in Peers
  BY <1>1, PeersAssumption, Zenon DEF PoolInv, TablesOK, StagesOK, StageOK, Idle, SessionType, Stages
<1>3. ASSUME NEW q \in Peers, pool[q] = s
      PROVE  s \in loops' /\ q = p
  <2>1. q = p /\ (s \in loops \/ s \in half)
    BY <1>2, <1>3, Zenon DEF PoolInv, NoZombies, Connected
  <2>2. t = s
    BY <1>3, <2>1, Zenon
  <2> QED
    BY <1>1, <2>1, <2>2, Zenon
<1> DEFINE v == IF s \in loops' THEN [sess[s] EXCEPT !.pc = "up", !.out = FALSE] ELSE Idle
<1>4. /\ v \in SessionType /\ sess' = [sess EXCEPT ![s] = v]
      /\ s \in loops' => v.pc = "up" /\ v.peer = p /\ v.range = sess[s].range
      /\ s \notin loops' => v.pc = "idle"
  <2>1. CASE s \in loops'
    <3>1. sess' = [sess EXCEPT ![s] = [sess[s] EXCEPT !.pc = "up", !.out = FALSE]]
      BY <1>1, <1>2, <2>1, Zenon
    <3> QED
      BY <1>2, <2>1, <3>1, Zenon DEF SessionType, Stages
  <2>2. CASE s \notin loops'
    BY <1>1, <1>2, <2>2, Zenon DEF Idle
  <2> QED
    BY <2>1, <2>2, Zenon
<1> HIDE DEF v, t, p
<1>5. raced' \subseteq raced /\ \A u \in raced : u # s \/ s \in loops' => u \in raced'
  BY <1>1, Zenon
<1>6. \A u \in Sessions : u # s => sess'[u] = sess[u]
  BY <1>2, <1>4, Zenon
<1>7. TablesOK'
  BY <1>1, <1>2, <1>4, <1>5, ZenonT(30) DEF PoolInv, TablesOK
<1>8. StagesOK'
  <2> SUFFICES ASSUME NEW u \in Sessions PROVE StageOK(u)'
    BY Zenon DEF StagesOK
  <2>1. CASE u = s
    <3>1. sess'[u] = v /\ u \notin half' /\ (todo[u].then = "ban" => u \in loops')
      BY <1>1, <1>2, <1>4, <2>1, Zenon DEF StageOK
    <3> QED
      BY <1>1, <1>2, <1>4, <2>1, <3>1, Zenon DEF StageOK
  <2>2. CASE u # s
    <3>1. StageOK(u) /\ sess'[u] = sess[u]
      BY <1>6, <2>2, Zenon DEF PoolInv, StagesOK
    <3>2. /\ u \in half' => u \in half
          /\ u \in loops' => u \in loops \/ u \in half
          /\ u \in loops => u \in loops'
          /\ u \in raced => u \in raced'
      BY <1>1, <1>5, <2>2, Zenon
    <3> QED
      BY <1>1, <3>1, <3>2, Zenon DEF StageOK, is_banned, Free
  <2> QED
    BY <2>1, <2>2, Zenon
<1>9. NoZombies'
  <2> SUFFICES ASSUME NEW q \in Peers, pool[q] # NoSession
               PROVE  /\ sess'[pool[q]].peer = q
                      /\ \/ pool[q] \in loops'
                         \/ pool[q] \in half' /\ sess'[pool[q]].pc \in {"record", "start"}
    BY <1>1, Zenon DEF NoZombies, Connected
  <2>1. CASE pool[q] = s
    BY <1>2, <1>3, <1>4, <2>1, Zenon
  <2>2. CASE pool[q] # s
    <3>1. sess'[pool[q]] = sess[pool[q]]
      BY <1>2, <1>6, <2>2, Zenon
    <3>2. sess[pool[q]].peer = q /\ (\/ pool[q] \in loops
                                     \/ pool[q] \in half /\ sess[pool[q]].pc \in {"record", "start"})
      BY Zenon DEF PoolInv, NoZombies, Connected
    <3>3. pool[q] \in loops => pool[q] \in loops'
      BY <1>1, Zenon
    <3>4. pool[q] \in half => pool[q] \in loops' \/ pool[q] \in half'
      BY <1>1, <2>2, Zenon
    <3> QED
      BY <3>1, <3>2, <3>3, <3>4, Zenon
  <2> QED
    BY <2>1, <2>2, Zenon
<1>10. BannedStayOut'
  <2> SUFFICES ASSUME NEW q \in Peers, pool[q] # NoSession, is_banned(q)
               PROVE  pool[q] \in raced' \/ \E b \in Actors : q \in todo[b].drop
    BY <1>1, Zenon DEF BannedStayOut, Connected, is_banned
  <2>1. pool[q] \in raced \/ \E b \in Actors : q \in todo[b].drop
    BY Zenon DEF PoolInv, BannedStayOut, Connected
  <2>2. pool[q] # s \/ s \in loops'
    BY <1>3, Zenon
  <2> QED
    BY <1>5, <2>1, <2>2, Zenon
<1>11. PoolWithinCaps'
  <2>1. ASSUME NEW q \in Peers, pool[q] # NoSession
        PROVE  sess'[pool[q]].range = sess[pool[q]].range
    <3>1. CASE pool[q] = s
      BY <1>2, <1>3, <1>4, <3>1, Zenon
    <3>2. CASE pool[q] # s
      BY <1>2, <1>6, <2>1, <3>2, Zenon
    <3> QED
      BY <3>1, <3>2, Zenon
  <2> QED
    BY <1>1, <1>2, <2>1, CapsKept, Zenon DEF PoolInv
<1> QED
  BY <1>7, <1>8, <1>9, <1>10, <1>11, Zenon DEF PoolInv

\* A refused HELLO bans or not, ends the task and owes the drop of the identity.
LEMMA HelloRejectedKeeps ==
    ASSUME PoolInv, NEW s \in Sessions, HelloRejected(s)
    PROVE  PoolInv'
<1> DEFINE p == sess[s].peer
<1>1. PICK decision :
        /\ sess[s].pc = "hello"
        /\ ban_state' = apply_decision(ban_state, p, "ProtocolViolation", decision)
        /\ todo' = [todo EXCEPT ![s] = Outcome(p, decision, "none")]
        /\ raced' = (raced \ {s}) \cup InWindow(Outcome(p, decision, "none").drop)
        /\ sess' = [sess EXCEPT ![s] = Idle]
        /\ UNCHANGED <<limits, pool, half, loops>>
  BY Zenon DEF HelloRejected
<1> DEFINE t == Outcome(p, decision, "none")
           D == t.drop
<1>2. /\ todo \in [Actors -> TodoType] /\ pool \in [Peers -> Sessions \cup {NoSession}]
      /\ sess \in [Sessions -> SessionType] /\ Idle \in SessionType /\ Idle.pc = "idle"
      /\ NoSession \notin Sessions /\ s \in Actors /\ raced \subseteq Sessions
      /\ StageOK(s) /\ p \in Peers
  BY <1>1, PeersAssumption, Zenon DEF PoolInv, TablesOK, StagesOK, StageOK, Idle, SessionType, Stages, Actors
<1>3. (\A q \in Peers : pool[q] # s) /\ s \notin half /\ s \notin loops
  BY <1>1, NotRegistered, Zenon
<1>4. todo[s].drop = {}
  <2>1. todo[s] = Done
    BY <1>1, <1>2, Zenon DEF StageOK, Free
  <2> QED
    BY <2>1 DEF Done
<1>5. t \in TodoType /\ D \subseteq Peers /\ t.then = "none"
  BY <1>2, Zenon DEF Outcome, TodoType
<1>6. DOMAIN ban_state' = DOMAIN ban_state \cup D
  BY <1>1, DecisionDomain
<1>7. todo' = [todo EXCEPT ![s] = t] /\ raced' = (raced \ {s}) \cup InWindow(D)
  BY <1>1, Zenon
<1> HIDE DEF t
<1>8. TablesOK'
  BY <1>1, <1>2, <1>5, <1>7, ZenonT(30) DEF PoolInv, TablesOK, InWindow
<1>9. StagesOK'
  <2> SUFFICES ASSUME NEW u \in Sessions PROVE StageOK(u)'
    BY Zenon DEF StagesOK
  <2>1. CASE u = s
    BY <1>1, <1>2, <1>3, <1>5, <1>7, <2>1, Zenon DEF StageOK
  <2>2. CASE u # s
    <3>1. StageOK(u) /\ sess'[u] = sess[u] /\ u \in Actors /\ todo'[u] = todo[u]
      BY <1>1, <1>2, <1>7, <2>2, Zenon DEF PoolInv, StagesOK, Actors
    <3>2. (sess[u].pc = "insert" /\ is_banned(sess[u].peer)') => u \in raced'
      BY <1>6, <1>7, <2>2, <3>1, Zenon DEF StageOK, is_banned, InWindow
    <3> QED
      BY <1>1, <3>1, <3>2, Zenon DEF StageOK, Free
  <2> QED
    BY <2>1, <2>2, Zenon
<1>10. ASSUME NEW q \in Peers, pool[q] # NoSession
       PROVE  pool[q] \in Sessions /\ pool[q] # s /\ sess'[pool[q]] = sess[pool[q]]
  BY <1>1, <1>2, <1>3, <1>10, Zenon
<1>11. NoZombies'
  <2> SUFFICES ASSUME NEW q \in Peers, pool[q] # NoSession
               PROVE  /\ sess'[pool[q]].peer = q
                      /\ \/ pool[q] \in loops
                         \/ pool[q] \in half /\ sess'[pool[q]].pc \in {"record", "start"}
    BY <1>1, Zenon DEF NoZombies, Connected
  <2> QED
    BY <1>10, Zenon DEF PoolInv, NoZombies, Connected
<1>12. BannedStayOut'
  <2> SUFFICES ASSUME NEW q \in Peers, pool[q] # NoSession, is_banned(q)'
               PROVE  pool[q] \in raced' \/ \E b \in Actors : q \in todo'[b].drop
    BY <1>1, Zenon DEF BannedStayOut, Connected
  <2>1. CASE q \in D
    BY <1>2, <1>7, <2>1, Zenon
  <2>2. CASE q \notin D
    <3>1. pool[q] \in raced \/ \E b \in Actors : q \in todo[b].drop
      BY <1>6, <2>2, Zenon DEF PoolInv, BannedStayOut, Connected, is_banned
    <3>2. ASSUME NEW b \in Actors, q \in todo[b].drop PROVE todo'[b] = todo[b]
      BY <1>2, <1>4, <1>7, <3>2, Zenon
    <3> QED
      BY <1>7, <1>10, <3>1, <3>2, Zenon
  <2> QED
    BY <2>1, <2>2, Zenon
<1>13. PoolWithinCaps'
  <2>1. \A q \in Peers : pool[q] # NoSession => sess'[pool[q]].range = sess[pool[q]].range
    BY <1>10, Zenon
  <2> QED
    BY <1>1, <1>2, <2>1, CapsKept, Zenon DEF PoolInv
<1> QED
  BY <1>8, <1>9, <1>11, <1>12, <1>13, Zenon DEF PoolInv

\* The process starts with an empty pool and no tasks, also after a crash.
Fresh ==
    /\ limits \in Limits /\ pool = [p \in Peers |-> NoSession]
    /\ sess = [s \in Sessions |-> Idle] /\ half = {} /\ loops = {}
    /\ todo = [a \in Actors |-> Done] /\ raced = {}

\* Such a process has the invariant of the pool.
LEMMA FreshPool == Fresh => PoolInv
<1> SUFFICES ASSUME Fresh PROVE PoolInv
  BY Zenon
<1> USE DEF Fresh
<1>1. Idle \in SessionType /\ Idle.pc = "idle" /\ Done \in TodoType /\ Done.then # "ban"
  BY Zenon DEF Idle, Done, SessionType, Stages, TodoType
<1>2. TablesOK
  BY <1>1, Zenon DEF TablesOK
<1>3. StagesOK
  BY <1>1, Zenon DEF StagesOK, StageOK, Actors
<1>4. Connected = {}
  BY Zenon DEF Connected
<1>5. NoZombies /\ BannedStayOut
  BY <1>4, Zenon DEF NoZombies, BannedStayOut
<1>6. Cardinality(Connected) = 0 /\ \A r \in Ranges : count_by_ip_range(r) = 0
  <2>1. \A r \in Ranges : {p \in Connected : sess[pool[p]].range = r} = {}
    BY <1>4, Zenon
  <2> QED
    BY <1>4, <2>1, FS_EmptySet, Zenon DEF count_by_ip_range
<1>7. PoolWithinCaps
  BY <1>6, PeersAssumption DEF PoolWithinCaps
<1> QED
  BY <1>2, <1>3, <1>5, <1>7, Zenon DEF PoolInv

\* ... and so has the process after a restart.
LEMMA FreshPoolNext == Fresh' => PoolInv'
BY FreshPool, PTL

(***************************************************************************)
(* The store and network.json.                                             *)
(***************************************************************************)
BanOK(ban) == ban.until \in Nat /\ ban.persistent \in BOOLEAN
DocOK(doc) ==
    /\ DOMAIN doc.known \subseteq Peers
    /\ \A p \in DOMAIN doc.banned :
          doc.banned[p].left \in Nat /\ doc.banned[p].persistent \in BOOLEAN

StoreOK ==
    /\ now \in Nat /\ crashes \in Nat
    /\ DOMAIN peers \subseteq Peers
    /\ \A p \in DOMAIN ban_state : BanOK(ban_state[p])
    /\ \A doc \in {disk} \cup copy : DocOK(doc)

\* With no write owed, the file has every persistent ban with at least the time it
\* still has to run, and lists nobody whose ban was lifted.
FileOK ==
    Saved =>
        /\ \A p \in DOMAIN ban_state :
              ban_state[p].persistent =>
                  p \in DOMAIN disk.banned /\ ban_state[p].until =< now + disk.banned[p].left
        /\ \A p \in DOMAIN disk.banned : disk.banned[p].left > 0 => is_banned(p)

StoreInv == StoreOK /\ FileOK

\* The bans after a step are those before it, but for temporary new ones.
BansKept ==
    /\ DOMAIN ban_state \subseteq DOMAIN ban_state'
    /\ \A p \in DOMAIN ban_state' :
          ban_state'[p].persistent => p \in DOMAIN ban_state /\ ban_state'[p] = ban_state[p]

\* A step that leaves the file alone: actor a owes a write afterwards, or it did not
\* owe one and no ban that the file must know of came or went.
LEMMA FileStep ==
    ASSUME StoreInv, todo \in [Actors -> TodoType], NEW a \in Actors, NEW t \in TodoType,
           todo' = [todo EXCEPT ![a] = t], UNCHANGED <<disk, overwritten>>,
           now' \in Nat, now' >= now,
           t.save \/ (~todo[a].save /\ BansKept)
    PROVE  FileOK'
<1> SUFFICES ASSUME Saved'
             PROVE  /\ \A p \in DOMAIN ban_state' :
                          ban_state'[p].persistent =>
                              /\ p \in DOMAIN disk.banned
                              /\ ban_state'[p].until =< now' + disk.banned[p].left
                    /\ \A p \in DOMAIN disk.banned : disk.banned[p].left > 0 => is_banned(p)'
  BY Zenon DEF FileOK
<1>1. ~t.save /\ ~overwritten
  BY Zenon DEF Saved
<1>2. BansKept /\ ~todo[a].save
  BY <1>1, Zenon
<1>3. \A b \in Actors : ~todo[b].save
  BY <1>2, Zenon DEF Saved
<1>4. Saved
  BY <1>1, <1>3, Zenon DEF Saved
<1>5. /\ \A p \in DOMAIN ban_state :
            ban_state[p].persistent =>
                p \in DOMAIN disk.banned /\ ban_state[p].until =< now + disk.banned[p].left
      /\ \A p \in DOMAIN disk.banned : disk.banned[p].left > 0 => is_banned(p)
  BY <1>4, Zenon DEF StoreInv, FileOK
<1>6. ASSUME NEW p \in DOMAIN ban_state', ban_state'[p].persistent
      PROVE  p \in DOMAIN disk.banned /\ ban_state'[p].until =< now' + disk.banned[p].left
  <2>1. p \in DOMAIN ban_state /\ ban_state'[p] = ban_state[p]
    BY <1>2, <1>6, Zenon DEF BansKept
  <2>2. p \in DOMAIN disk.banned /\ ban_state[p].until =< now + disk.banned[p].left
    BY <1>5, <1>6, <2>1, Zenon
  <2>3. ban_state[p].until \in Nat /\ disk.banned[p].left \in Nat /\ now \in Nat
    BY <2>1, <2>2, Zenon DEF StoreInv, StoreOK, BanOK, DocOK
  <2> QED
    BY <2>1, <2>2, <2>3
<1> QED
  BY <1>2, <1>5, <1>6, Zenon DEF BansKept, is_banned

\* The step of an actor that changes neither the bans nor what it owes the file.
LEMMA FileQuiet ==
    ASSUME StoreInv, UNCHANGED <<ban_state, disk, overwritten>>, now' \in Nat, now' >= now,
           \A a \in Actors : todo'[a].save = todo[a].save
    PROVE  FileOK'
<1> SUFFICES ASSUME Saved'
             PROVE  /\ \A p \in DOMAIN ban_state :
                          ban_state[p].persistent =>
                              /\ p \in DOMAIN disk.banned
                              /\ ban_state[p].until =< now' + disk.banned[p].left
                    /\ \A p \in DOMAIN disk.banned : disk.banned[p].left > 0 => is_banned(p)
  BY Zenon DEF FileOK, is_banned
<1>1. Saved
  BY Zenon DEF Saved
<1>2. ASSUME NEW p \in DOMAIN ban_state, ban_state[p].persistent
      PROVE  p \in DOMAIN disk.banned /\ ban_state[p].until =< now' + disk.banned[p].left
  <2>1. p \in DOMAIN disk.banned /\ ban_state[p].until =< now + disk.banned[p].left
    BY <1>1, <1>2, Zenon DEF StoreInv, FileOK
  <2>2. ban_state[p].until \in Nat /\ disk.banned[p].left \in Nat /\ now \in Nat
    BY <1>2, <2>1, Zenon DEF StoreInv, StoreOK, BanOK, DocOK
  <2> QED
    BY <2>1, <2>2
<1> QED
  BY <1>1, <1>2, Zenon DEF StoreInv, FileOK

\* A ban that is put into the store is well formed and leaves the others alone.
LEMMA StoreBanOK ==
    ASSUME StoreOK, NEW p, NEW reason, NEW duration \in Nat, NEW persistent \in BOOLEAN,
           ban_state' = StoreBan(ban_state, p, reason, duration, persistent)
    PROVE  /\ \A q \in DOMAIN ban_state' : BanOK(ban_state'[q])
           /\ ~persistent => BansKept
<1>1. now + duration \in Nat
  BY DEF StoreOK
<1> DEFINE ban == [until |-> now + duration, reason |-> reason, persistent |-> persistent]
<1>2. BanOK(ban) /\ ban.persistent = persistent
  BY <1>1, Zenon DEF BanOK
<1>3. /\ DOMAIN ban_state' = DOMAIN ban_state \cup {p}
      /\ \A q \in DOMAIN ban_state' : ban_state'[q] = IF q = p THEN ban ELSE ban_state[q]
  BY Zenon DEF StoreBan, Put
<1> HIDE DEF ban
<1> QED
  BY <1>2, <1>3, Zenon DEF StoreOK, BansKept

\* A decision: a persistent ban owes a write, a temporary one keeps the others.
LEMMA DecisionOK ==
    ASSUME StoreOK, NEW p, NEW reason, NEW decision, NEW then,
           ban_state' = apply_decision(ban_state, p, reason, decision)
    PROVE  /\ \A q \in DOMAIN ban_state' : BanOK(ban_state'[q])
           /\ Outcome(p, decision, then).save \/ BansKept
<1>1. CASE decision \in {"TempBan", "PersistentBan"}
  <2>1. BanDuration(decision) \in Nat
    BY ScoringAssumption, Zenon DEF BanDuration
  <2>2. ban_state' = StoreBan(ban_state, p, reason, BanDuration(decision), decision = "PersistentBan")
    BY <1>1, Zenon DEF apply_decision
  <2>3. CASE decision = "PersistentBan"
    <3>1. ban_state' = StoreBan(ban_state, p, reason, BanDuration(decision), TRUE)
      BY <2>2, <2>3, Zenon
    <3> QED
      BY <2>1, <2>3, <3>1, StoreBanOK, Zenon DEF Outcome
  <2>4. CASE decision # "PersistentBan"
    <3>1. ban_state' = StoreBan(ban_state, p, reason, BanDuration(decision), FALSE)
      BY <2>2, <2>4, Zenon
    <3> QED
      BY <2>1, <3>1, StoreBanOK, Zenon
  <2> QED
    BY <2>3, <2>4, Zenon
<1>2. CASE decision \notin {"TempBan", "PersistentBan"}
  BY <1>2, Zenon DEF apply_decision, StoreOK, BansKept
<1> QED
  BY <1>1, <1>2, Zenon

\* Max({x, 0}) is what saturating_sub leaves.
LEMMA MaxZero ==
    ASSUME NEW x \in Int
    PROVE  Max({x, 0}) \in Nat /\ Max({x, 0}) >= x
<1>1. CASE x >= 0
  <2>1. x \in {x, 0} /\ \A y \in {x, 0} : x >= y
    BY <1>1
  <2>2. Max({x, 0}) = x
    BY <2>1 DEF Max
  <2> QED
    BY <1>1, <2>2
<1>2. CASE x < 0
  <2>1. Max({x, 0}) = 0
    BY <1>2 DEF Max
  <2> QED
    BY <1>2, <2>1
<1> QED
  BY <1>1, <1>2

\* A record of a known or a new identity is the record of an identity.
LEMMA AddPeerDomain ==
    ASSUME NEW ps, DOMAIN ps \subseteq Peers, NEW p \in Peers, NEW verified
    PROVE  DOMAIN add_peer(ps, p, verified) \subseteq Peers
BY Zenon DEF add_peer, Put

\* An event of an identity, by an actor that owes nothing.
LEMMA ObserveStores ==
    ASSUME StoreInv, todo \in [Actors -> TodoType], NEW a \in Actors, NEW p \in Peers, NEW r,
           NEW reason, NEW then \in {"none", "ban", "exit"}, Free(a),
           Observe(a, p, r, reason, then), UNCHANGED crashes
    PROVE  StoreInv'
<1> DEFINE decision == decide(compute_score(r))
           t == Outcome(p, decision, then)
<1>1. /\ ban_state' = apply_decision(ban_state, p, reason, decision)
      /\ todo' = [todo EXCEPT ![a] = t] /\ DOMAIN peers' = DOMAIN peers
      /\ UNCHANGED <<now, disk, copy, overwritten>>
  BY Zenon DEF Observe, file
<1> HIDE DEF decision
<1>2. (\A q \in DOMAIN ban_state' : BanOK(ban_state'[q])) /\ (t.save \/ BansKept)
  BY <1>1, DecisionOK, Zenon DEF StoreInv
<1>3. t \in TodoType /\ ~todo[a].save
  BY DEF TodoType, Outcome, Free, Done
<1> HIDE DEF t
<1>4. StoreOK'
  BY <1>1, <1>2, Zenon DEF StoreInv, StoreOK, DocOK
<1>5. now' \in Nat /\ now' >= now
  BY <1>1 DEF StoreInv, StoreOK
<1>6. FileOK'
  BY <1>1, <1>2, <1>3, <1>5, FileStep, Zenon
<1> QED
  BY <1>4, <1>6, Zenon DEF StoreInv

\* record_event, by an actor that owes nothing.
LEMMA EventStores ==
    ASSUME StoreInv, todo \in [Actors -> TodoType], NEW a \in Actors, NEW p \in Peers, NEW counter,
           NEW reason, NEW then \in {"none", "ban", "exit"}, Free(a),
           record_event(a, p, counter, reason, then), UNCHANGED crashes
    PROVE  StoreInv'
<1>1. CASE p \in DOMAIN peers
           /\ Observe(a, p, note_message([peers[p] EXCEPT ![counter] = @ + 1]), reason, then)
  BY <1>1, ObserveStores, Zenon
<1>2. CASE todo' = [todo EXCEPT ![a].then = then]
           /\ UNCHANGED <<now, limits, store, net, file, raced>>
  <2>1. UNCHANGED <<now, peers, ban_state, disk, copy, overwritten>>
    BY <1>2, Zenon DEF store, file
  <2>2. now' \in Nat /\ now' >= now
    BY <2>1 DEF StoreInv, StoreOK
  <2>3. \A b \in Actors : todo'[b].save = todo[b].save
    BY <1>2, Zenon DEF TodoType
  <2>4. FileOK'
    BY <2>1, <2>2, <2>3, FileQuiet, Zenon
  <2>5. StoreOK'
    BY <2>1, Zenon DEF StoreInv, StoreOK, DocOK, BanOK
  <2> QED
    BY <2>4, <2>5, Zenon DEF StoreInv
<1> QED
  BY <1>1, <1>2, Zenon DEF record_event

\* An explicit ban, by an actor that owes no write.
LEMMA BanStores ==
    ASSUME StoreInv, todo \in [Actors -> TodoType], NEW a \in Actors, NEW p \in Peers, NEW reason,
           NEW duration \in Nat, NEW persistent \in BOOLEAN, NEW then \in {"none", "exit"},
           ~todo[a].save, BanPeer(a, p, reason, duration, persistent, then), UNCHANGED crashes
    PROVE  StoreInv'
<1> DEFINE t == [drop |-> {p}, save |-> persistent, then |-> then]
<1>1. /\ ban_state' = StoreBan(ban_state, p, reason, duration, persistent)
      /\ todo' = [todo EXCEPT ![a] = t]
      /\ UNCHANGED <<now, peers, disk, copy, overwritten>>
  BY Zenon DEF BanPeer, file
<1>2. (\A q \in DOMAIN ban_state' : BanOK(ban_state'[q])) /\ (t.save \/ BansKept)
  BY <1>1, StoreBanOK, Zenon DEF StoreInv
<1>3. t \in TodoType
  BY Zenon DEF TodoType
<1> HIDE DEF t
<1>4. StoreOK'
  BY <1>1, <1>2, Zenon DEF StoreInv, StoreOK, DocOK
<1>5. now' \in Nat /\ now' >= now
  BY <1>1 DEF StoreInv, StoreOK
<1>6. FileOK'
  BY <1>1, <1>2, <1>3, <1>5, FileStep, Zenon
<1> QED
  BY <1>4, <1>6, Zenon DEF StoreInv

\* A tick owes a write when it lifted a ban or minted a persistent one.
LEMMA TickStores ==
    ASSUME StoreInv, todo \in [Actors -> TodoType], tick_at
    PROVE  StoreInv'
<1> DEFINE minted == {p \in Rescored : TickDecision(p) \in {"TempBan", "PersistentBan"}}
           until(p) == now + BanDuration(TickDecision(p))
<1>1. PICK save \in BOOLEAN :
        /\ todo' = [todo EXCEPT ![ticker] = [drop |-> minted, save |-> save, then |-> "none"]]
        /\ ~save => Expired = {} /\ \A p \in minted : TickDecision(p) # "PersistentBan"
  BY Zenon DEF tick_at
<1>2. /\ DOMAIN ban_state' = minted \cup (DOMAIN ban_state \ Expired)
      /\ \A p \in DOMAIN ban_state' :
            IF p \in minted
            THEN /\ ban_state'[p].until = until(p)
                 /\ ban_state'[p].persistent = (TickDecision(p) = "PersistentBan")
            ELSE ban_state'[p] = ban_state[p]
  BY Zenon DEF tick_at
<1>3. minted \subseteq Peers /\ minted \subseteq DOMAIN peers /\ minted \cap DOMAIN ban_state = {}
  BY Zenon DEF Rescored, is_banned, StoreInv, StoreOK
<1>4. \A p \in minted : until(p) \in Nat
  <2>1. \A p \in minted : BanDuration(TickDecision(p)) \in Nat
    BY ScoringAssumption, Zenon DEF BanDuration
  <2> QED
    BY <2>1 DEF StoreInv, StoreOK
<1>5. /\ UNCHANGED <<now, disk, copy, overwritten, crashes>> /\ DOMAIN peers' = DOMAIN peers
      /\ Free(ticker)
  BY Zenon DEF tick_at, file, bounded
<1> HIDE DEF minted, until
<1>6. \A p \in DOMAIN ban_state' : BanOK(ban_state'[p])
  BY <1>2, <1>4, Zenon DEF StoreInv, StoreOK, BanOK
<1>7. ~save => BansKept
  BY <1>1, <1>2, <1>3, Zenon DEF BansKept
<1>8. ticker \in Actors /\ ~todo[ticker].save
  BY <1>5 DEF Actors, Free, Done
<1> DEFINE t == [drop |-> minted, save |-> save, then |-> "none"]
<1>9. t \in TodoType /\ t.save = save /\ todo' = [todo EXCEPT ![ticker] = t]
  BY <1>1, <1>3, Zenon DEF TodoType
<1> HIDE DEF t
<1>10. now' \in Nat /\ now' >= now
  BY <1>5 DEF StoreInv, StoreOK
<1>11. FileOK'
  BY <1>5, <1>7, <1>8, <1>9, <1>10, FileStep, Zenon
<1>12. StoreOK'
  BY <1>5, <1>6, Zenon DEF StoreInv, StoreOK, DocOK
<1> QED
  BY <1>11, <1>12, Zenon DEF StoreInv

\* A step that touches neither the bans, the file nor what is owed to it.
LEMMA StoreQuiet ==
    ASSUME StoreInv, UNCHANGED <<ban_state, disk, copy, overwritten, crashes>>,
           now' \in Nat, now' >= now, DOMAIN peers' \subseteq Peers,
           \A a \in Actors : todo'[a].save = todo[a].save
    PROVE  StoreInv'
<1>1. FileOK'
  BY FileQuiet, Zenon
<1>2. StoreOK'
  BY Zenon DEF StoreInv, StoreOK, DocOK, BanOK
<1> QED
  BY <1>1, <1>2, Zenon DEF StoreInv

\* The steps of a session's task before its loop runs leave the store alone.
LEMMA TaskStores ==
    ASSUME StoreInv, UNCHANGED <<now, store, todo, file, crashes>>
    PROVE  StoreInv'
<1>1. now' \in Nat /\ now' >= now /\ DOMAIN peers' \subseteq Peers
  BY DEF StoreInv, StoreOK, store
<1> QED
  BY <1>1, StoreQuiet, Zenon DEF store, file

\* Dropping a session leaves the owed write owed.
LEMMA DropStores ==
    ASSUME StoreInv, todo \in [Actors -> TodoType], NEW a \in Actors, FinishDrop(a)
    PROVE  StoreInv'
<1>1. UNCHANGED <<now, peers, ban_state, disk, copy, overwritten, crashes>>
  BY Zenon DEF FinishDrop, store, file, bounded
<1>2. now' \in Nat /\ now' >= now /\ DOMAIN peers' \subseteq Peers
  BY <1>1 DEF StoreInv, StoreOK
<1>3. \A b \in Actors : todo'[b].save = todo[b].save
  BY DEF FinishDrop, TodoType
<1> QED
  BY <1>1, <1>2, <1>3, StoreQuiet, Zenon

\* The end of a loop: it owed no write and owes none.
LEMMA LoopExitStores ==
    ASSUME StoreInv, todo \in [Actors -> TodoType], NEW s \in Sessions, LoopExit(s)
    PROVE  StoreInv'
<1>1. UNCHANGED <<now, peers, ban_state, disk, copy, overwritten, crashes>>
  BY Zenon DEF LoopExit, store, file, bounded
<1>2. now' \in Nat /\ now' >= now /\ DOMAIN peers' \subseteq Peers
  BY <1>1 DEF StoreInv, StoreOK
<1>3. \A b \in Actors : todo'[b].save = todo[b].save
  <2>1. s \in Actors /\ todo[s].save \in BOOLEAN /\ ~todo[s].save
    BY Zenon DEF LoopExit, Actors, TodoType
  <2>2. todo' = [todo EXCEPT ![s] = Done] /\ Done.save = FALSE
    BY Zenon DEF LoopExit, Done
  <2> QED
    BY <2>1, <2>2, Zenon
<1> QED
  BY <1>1, <1>2, <1>3, StoreQuiet, Zenon

\* A rejected HELLO: the identity becomes known, and the violation may ban it.
LEMMA HelloRejectedStores ==
    ASSUME StoreInv, PoolInv, NEW s \in Sessions, HelloRejected(s)
    PROVE  StoreInv'
<1> DEFINE p == sess[s].peer
<1>1. PICK decision :
        /\ sess[s].pc = "hello"
        /\ ban_state' = apply_decision(ban_state, p, "ProtocolViolation", decision)
        /\ todo' = [todo EXCEPT ![s] = Outcome(p, decision, "none")]
  BY Zenon DEF HelloRejected
<1>2. /\ UNCHANGED <<now, disk, copy, overwritten, crashes>>
      /\ DOMAIN peers' = DOMAIN add_peer(peers, p, FALSE)
  BY Zenon DEF HelloRejected, Count, file
<1> DEFINE t == Outcome(p, decision, "none")
<1>3. StageOK(s) /\ s \in Actors /\ todo \in [Actors -> TodoType]
  BY Zenon DEF PoolInv, StagesOK, TablesOK, Actors
<1>4. p \in Peers /\ ~todo[s].save
  BY <1>1, <1>3 DEF StageOK, Free, Done
<1>5. DOMAIN peers' \subseteq Peers
  BY <1>2, <1>4, AddPeerDomain, Zenon DEF StoreInv, StoreOK
<1>6. (\A q \in DOMAIN ban_state' : BanOK(ban_state'[q])) /\ (t.save \/ BansKept)
  BY <1>1, DecisionOK, Zenon DEF StoreInv
<1>7. t \in TodoType
  BY <1>4, Zenon DEF TodoType, Outcome
<1> HIDE DEF t
<1>8. now' \in Nat /\ now' >= now
  BY <1>2 DEF StoreInv, StoreOK
<1>9. todo' = [todo EXCEPT ![s] = t]
  BY <1>1, Zenon DEF t
<1>10. FileOK'
  BY <1>2, <1>3, <1>4, <1>6, <1>7, <1>8, <1>9, FileStep, Zenon
<1>11. StoreOK'
  BY <1>2, <1>5, <1>6, Zenon DEF StoreInv, StoreOK, DocOK
<1> QED
  BY <1>10, <1>11, Zenon DEF StoreInv

\* A rewrite of the file brings it up to the store.
LEMMA PersistStores ==
    ASSUME StoreInv, NEW a \in Actors, persist(a)
    PROVE  StoreInv'
<1>1. /\ disk' = save_to_network_json
      /\ UNCHANGED <<now, peers, ban_state, copy, crashes>>
  BY Zenon DEF persist, store, bounded
<1>2. /\ DOMAIN disk'.known = DOMAIN peers /\ DOMAIN disk'.banned = DOMAIN ban_state
      /\ \A p \in DOMAIN ban_state :
            /\ disk'.banned[p].left = Max({ban_state[p].until - now, 0})
            /\ disk'.banned[p].persistent = ban_state[p].persistent
  BY <1>1, Zenon DEF save_to_network_json
<1>3. ASSUME NEW p \in DOMAIN ban_state
      PROVE  disk'.banned[p].left \in Nat /\ ban_state[p].until =< now + disk'.banned[p].left
  <2>1. ban_state[p].until \in Nat /\ now \in Nat
    BY Zenon DEF StoreInv, StoreOK, BanOK
  <2>2. ban_state[p].until - now \in Int
    BY <2>1
  <2>3. disk'.banned[p].left \in Nat /\ disk'.banned[p].left >= ban_state[p].until - now
    BY <1>2, <2>2, MaxZero, Zenon
  <2> QED
    BY <2>1, <2>3
<1>4. DocOK(disk')
  BY <1>2, <1>3, Zenon DEF DocOK, StoreInv, StoreOK, BanOK
<1>5. StoreOK'
  BY <1>1, <1>4, Zenon DEF StoreInv, StoreOK, DocOK, BanOK
<1>6. FileOK'
  BY <1>1, <1>2, <1>3, Zenon DEF FileOK, is_banned
<1> QED
  BY <1>5, <1>6, Zenon DEF StoreInv

\* An older copy of the file that is written back is noted.
LEMMA RewriteStores ==
    ASSUME StoreInv, NodeAddPeerWrite
    PROVE  StoreInv'
<1>1. /\ \E doc \in copy : disk' = doc /\ overwritten' = (overwritten \/ doc # disk)
      /\ copy' = {} /\ UNCHANGED <<now, peers, ban_state, todo, crashes>>
  BY Zenon DEF NodeAddPeerWrite, store, bounded
<1>2. StoreOK'
  BY <1>1, Zenon DEF StoreInv, StoreOK, DocOK, BanOK
<1>3. CASE overwritten'
  BY <1>2, <1>3, Zenon DEF StoreInv, FileOK, Saved
<1>4. CASE ~overwritten'
  <2>1. disk' = disk /\ ~overwritten
    BY <1>1, <1>4, ZenonT(30)
  <2> QED
    BY <1>1, <1>2, <1>4, <2>1, Zenon DEF StoreInv, FileOK, Saved, is_banned
<1> QED
  BY <1>3, <1>4, Zenon

\* The store that a start loads is the one the file describes.
LEMMA RestartStores ==
    ASSUME StoreInv, NEW doc \in {disk, EmptyDoc}, Restart(doc)
    PROVE  StoreInv'
<1>1. DOMAIN << >> = {}
  OBVIOUS
<1>2. DocOK(EmptyDoc)
  BY <1>1, Zenon DEF DocOK, EmptyDoc
<1>3. DocOK(doc)
  BY <1>2, Zenon DEF StoreInv, StoreOK
<1>4. /\ DOMAIN peers' = DOMAIN doc.known
      /\ DOMAIN ban_state' = {q \in DOMAIN doc.banned : doc.banned[q].left > 0}
      /\ \A p \in DOMAIN ban_state' : /\ ban_state'[p].until = now + doc.banned[p].left
                                      /\ ban_state'[p].persistent = doc.banned[p].persistent
      /\ disk' = doc /\ copy' = {} /\ now' = now /\ crashes' = crashes + 1
  BY Zenon DEF Restart, load_from_network_json
<1>5. \A p \in DOMAIN ban_state' : ban_state'[p].until \in Nat
  BY <1>3, <1>4 DEF DocOK, StoreInv, StoreOK
<1>6. FileOK'
  <2>1. \A p \in DOMAIN ban_state' :
          p \in DOMAIN doc.banned /\ ban_state'[p].until =< now + doc.banned[p].left
    BY <1>4, <1>5
  <2> QED
    BY <1>4, <2>1, Zenon DEF FileOK, is_banned
<1> QED
  BY <1>3, <1>4, <1>5, <1>6 DEF StoreInv, StoreOK, DocOK, BanOK

(***************************************************************************)
(* The inductive invariant and the theorems.                               *)
(***************************************************************************)
PeersInv == StoreInv /\ PoolInv

\* The steps that open a session, up to its registration.
LEMMA AdmissionKeeps ==
    ASSUME PeersInv, NEW s \in Sessions,
           \/ \E p \in limits.peers, r \in Ranges :
                 (\E pinned \in BOOLEAN : Dial(s, p, r, pinned)) \/ accept_inbound(s, p, r)
           \/ Authenticated(s) \/ HelloFailedOut(s) \/ HelloDone(s) \/ Insert(s) \/ StartLoop(s)
    PROVE  PeersInv'
<1> USE DEF PeersInv
<1>1. CASE \E p \in limits.peers, r \in Ranges :
              (\E pinned \in BOOLEAN : Dial(s, p, r, pinned)) \/ accept_inbound(s, p, r)
  <2>1. PICK p \in limits.peers, r \in Ranges, out \in BOOLEAN :
          sess' = [sess EXCEPT ![s] = [pc |-> "handshake", peer |-> p, range |-> r, out |-> out]]
    BY <1>1, ZenonT(30) DEF Dial, accept_inbound
  <2>2. /\ Unused(s)
        /\ UNCHANGED <<now, limits, store, pool, half, loops, todo, file, raced, bounded>>
    BY <1>1, Zenon DEF Dial, accept_inbound, Available
  <2>3. limits \in Limits /\ limits.peers \subseteq Peers
    BY PeersAssumption, ZenonT(30) DEF PoolInv, TablesOK
  <2>4. PoolInv'
    BY <2>1, <2>2, <2>3, NewTaskKeeps, ZenonT(30)
  <2>5. StoreInv'
    BY <2>2, TaskStores, Zenon DEF bounded
  <2> QED
    BY <2>4, <2>5, Zenon
<1>2. CASE Authenticated(s)
  <2>1. UNCHANGED <<now, limits, store, pool, half, loops, todo, file, bounded>>
        /\ sess[s].pc = "handshake"
    BY <1>2, Zenon DEF Authenticated
  <2>2. CASE Go(s, "hello") /\ UNCHANGED raced
    <3>1. "hello" \in Stages /\ ban_state' = ban_state
      BY <2>1, Zenon DEF Stages, store
    <3> QED
      BY <2>1, <2>2, <3>1, GoKeeps, TaskStores, Zenon DEF bounded
  <2>3. CASE End(s)
    BY <2>1, <2>3, EndKeeps, TaskStores, Zenon DEF bounded
  <2> QED
    BY <1>2, <2>2, <2>3, Zenon DEF Authenticated
<1>3. CASE HelloFailedOut(s)
  BY <1>3, EndKeeps, TaskStores, Zenon DEF HelloFailedOut, bounded
<1>4. CASE HelloDone(s)
  <2>1. UNCHANGED <<now, limits, store, pool, half, loops, todo, file, bounded>>
        /\ sess[s].pc = "hello"
    BY <1>4, Zenon DEF HelloDone
  <2>2. CASE ~is_banned(sess[s].peer) /\ Go(s, "insert") /\ UNCHANGED raced
    <3>1. "insert" \in Stages /\ ban_state' = ban_state
      BY <2>1, ZenonT(30) DEF Stages, store
    <3> QED
      BY <2>1, <2>2, <3>1, GoKeeps, TaskStores, Zenon DEF bounded
  <2>3. CASE End(s)
    BY <2>1, <2>3, EndKeeps, TaskStores, ZenonT(30) DEF bounded
  <2> QED
    BY <1>4, <2>2, <2>3, Zenon DEF HelloDone
<1>5. CASE Insert(s)
  BY <1>5, InsertKeeps, TaskStores, Zenon DEF Insert, bounded
<1>6. CASE StartLoop(s)
  <2>1. UNCHANGED <<now, store, todo, file, bounded>>
    BY <1>6, Zenon DEF StartLoop
  <2> QED
    BY <1>6, <2>1, StartKeeps, TaskStores, Zenon DEF bounded
<1> QED
  BY <1>1, <1>2, <1>3, <1>4, <1>5, <1>6, Zenon

\* The steps of a session that change the store.
LEMMA SessionKeeps ==
    ASSUME PeersInv, NEW s \in Sessions,
           \/ HelloRejected(s) \/ RecordPeer(s) \/ RateLimitBan(s) \/ LoopExit(s)
           \/ RateExceeded(s) \/ MalformedGossip(s) \/ MalformedRequest(s) \/ RateBanned(s)
    PROVE  PeersInv'
<1> USE DEF PeersInv
<1>1. s \in Actors /\ todo \in [Actors -> TodoType] /\ StageOK(s)
  BY Zenon DEF Actors, PoolInv, TablesOK, StagesOK
<1>2. CASE HelloRejected(s)
  BY <1>2, HelloRejectedKeeps, HelloRejectedStores, Zenon
<1>3. CASE RecordPeer(s)
  <2>1. /\ UNCHANGED <<now, limits, ban_state, pool, half, loops, todo, file, raced, bounded>>
        /\ sess[s].pc = "record" /\ Go(s, "start") /\ "start" \in Stages
        /\ peers' = add_peer(peers, sess[s].peer, TRUE)
    BY <1>3, ZenonT(30) DEF RecordPeer, Stages
  <2>2. PoolInv'
    BY <2>1, GoKeeps, ZenonT(30)
  <2>3. sess[s].peer \in Peers
    BY <1>1, <2>1, ZenonT(30) DEF StageOK
  <2>4. now' \in Nat /\ now' >= now /\ DOMAIN peers \subseteq Peers
    BY <2>1 DEF StoreInv, StoreOK
  <2>6. DOMAIN peers' \subseteq Peers
    BY <2>1, <2>3, <2>4, AddPeerDomain, Zenon
  <2>5. StoreInv'
    BY <2>1, <2>4, <2>6, StoreQuiet, Zenon DEF file, bounded
  <2> QED
    BY <2>2, <2>5, Zenon
<1>4. ASSUME s \in loops
      PROVE  sess[s].peer \in Peers /\ sess[s].pc \notin {"handshake", "hello", "insert"}
  BY <1>1, <1>4, ZenonT(30) DEF StageOK
<1>5. CASE RateLimitBan(s)
  <2>1. /\ todo[s].drop = {} /\ ~todo[s].save /\ todo[s].then = "ban"
        /\ BanPeer(s, sess[s].peer, "RateLimit", rate_ban_duration, TRUE, "exit")
        /\ UNCHANGED crashes
    BY <1>5, Zenon DEF RateLimitBan, bounded
  <2>2. s \in loops
    BY <1>1, <2>1, Zenon DEF StageOK
  <2>3. rate_ban_duration \in Nat
    BY PeersAssumption, Zenon
  <2>4. PoolInv'
    BY <1>1, <1>4, <2>1, <2>2, BanKeeps, Zenon
  <2>5. StoreInv'
    BY <1>1, <1>4, <2>1, <2>2, <2>3, BanStores, Zenon
  <2> QED
    BY <2>4, <2>5, Zenon
<1>6. CASE LoopExit(s)
  BY <1>1, <1>6, LoopExitKeeps, LoopExitStores, Zenon
<1>7. ASSUME NEW reason, NEW then \in {"none", "ban", "exit"}, Violation(s, reason, then)
      PROVE  PeersInv'
  <2>1. /\ s \in loops /\ Free(s) /\ UNCHANGED crashes
        /\ record_event(s, sess[s].peer, "violation", reason, then)
    BY <1>7, Zenon DEF Violation, Count
  <2>2. PoolInv'
    BY <1>1, <1>4, <2>1, EventKeeps, Zenon
  <2>3. StoreInv'
    BY <1>1, <1>4, <2>1, EventStores, Zenon
  <2> QED
    BY <2>2, <2>3, Zenon
<1>8. CASE RateExceeded(s) \/ MalformedGossip(s) \/ MalformedRequest(s) \/ RateBanned(s)
  BY <1>7, <1>8, Zenon DEF RateExceeded, MalformedGossip, MalformedRequest, RateBanned
<1> QED
  BY <1>2, <1>3, <1>5, <1>6, <1>8, Zenon

\* The public operations and Node::add_peer.
LEMMA OperatorKeeps ==
    ASSUME PeersInv, Operator
    PROVE  PeersInv'
<1> USE DEF PeersInv
<1>1. /\ operator \in Actors /\ todo \in [Actors -> TodoType] /\ operator \notin Sessions
      /\ limits.peers \subseteq Peers
  <2>1. operator \notin Nat
    BY DEF operator
  <2> QED
    BY <2>1, PeersAssumption, Zenon DEF Actors, PoolInv, TablesOK
<1>2. ASSUME NEW p \in limits.peers, unban_peer(p) PROVE PeersInv'
  <2>1. /\ Free(operator) /\ ban_state' = Drop(ban_state, {p})
        /\ todo' = [todo EXCEPT ![operator].save = TRUE]
        /\ UNCHANGED <<now, limits, peers, net, disk, copy, overwritten, raced, crashes>>
    BY <1>2, Zenon DEF unban_peer, Count, file
  <2>2. DOMAIN ban_state' \subseteq DOMAIN ban_state
        /\ \A q \in DOMAIN ban_state' : ban_state'[q] = ban_state[q]
    BY <2>1, Zenon DEF Drop
  <2>3. PoolInv'
    BY <1>1, <2>1, <2>2, QuietStep, Zenon
  <2> DEFINE t == [todo[operator] EXCEPT !.save = TRUE]
  <2>4. t \in TodoType /\ t.save /\ todo' = [todo EXCEPT ![operator] = t]
    BY <1>1, <2>1, Zenon DEF TodoType
  <2> HIDE DEF t
  <2>5. now' \in Nat /\ now' >= now
    BY <2>1 DEF StoreInv, StoreOK
  <2>6. FileOK'
    BY <1>1, <2>1, <2>4, <2>5, FileStep, Zenon
  <2>7. StoreOK'
    BY <2>1, <2>2, Zenon DEF StoreInv, StoreOK, DocOK, BanOK
  <2> QED
    BY <2>3, <2>6, <2>7, Zenon DEF StoreInv
<1>3. ASSUME NEW p \in limits.peers, learn_addrs(p) PROVE PeersInv'
  <2>1. /\ peers' = add_peer(peers, p, FALSE)
        /\ UNCHANGED <<now, limits, ban_state, net, todo, disk, copy, overwritten, raced, crashes>>
    BY <1>3, Zenon DEF learn_addrs, Count, file
  <2>2. now' \in Nat /\ now' >= now /\ DOMAIN peers \subseteq Peers
    BY <2>1 DEF StoreInv, StoreOK
  <2>5. DOMAIN peers' \subseteq Peers
    BY <1>1, <2>1, <2>2, AddPeerDomain, Zenon
  <2>3. StoreInv'
    BY <2>1, <2>2, <2>5, StoreQuiet, Zenon
  <2>4. PoolInv'
    BY <1>1, <2>1, QuietStep, Zenon
  <2> QED
    BY <2>3, <2>4, Zenon
<1>4. ASSUME NEW p \in limits.peers, record_invalid_block(p) PROVE PeersInv'
  <2>1. /\ Free(operator) /\ UNCHANGED crashes
        /\ record_event(operator, p, "invalid", "InvalidBlocks", "none")
    BY <1>4, Zenon DEF record_invalid_block, Count
  <2> QED
    BY <1>1, <2>1, EventKeeps, EventStores, Zenon
<1>5. ASSUME NEW p \in limits.peers, NEW d \in BanLengths, NEW persistent \in BOOLEAN,
             ban_peer(p, d, persistent)
      PROVE  PeersInv'
  <2>1. /\ Free(operator) /\ UNCHANGED crashes
        /\ BanPeer(operator, p, "Manual", d, persistent, "none")
    BY <1>5, Zenon DEF ban_peer, Count
  <2>2. d \in Nat /\ todo[operator].drop = {} /\ ~todo[operator].save
    BY <2>1, PeersAssumption DEF Free, Done
  <2>3. PoolInv'
    BY <1>1, <2>1, <2>2, BanKeeps, ZenonT(30)
  <2>4. StoreInv'
    BY <1>1, <2>1, <2>2, BanStores, Zenon
  <2> QED
    BY <2>3, <2>4, Zenon
<1>6. ASSUME NEW p \in limits.peers, NEW m \in Samples, record_latency(p, m) PROVE PeersInv'
  <2>1. PICK r, reason : Free(operator) /\ UNCHANGED crashes
                         /\ Observe(operator, p, r, reason, "none")
    BY <1>6, Zenon DEF record_latency, Count
  <2>2. PoolInv'
    BY <1>1, <2>1, ObserveKeeps, Zenon
  <2>3. StoreInv'
    BY <1>1, <2>1, ObserveStores, Zenon
  <2> QED
    BY <2>2, <2>3, Zenon
<1>7. CASE NodeAddPeerRead
  <2>1. /\ UNCHANGED <<now, limits, peers, ban_state, net, todo, disk, overwritten, raced, crashes>>
        /\ copy' = {disk}
    BY <1>7, Zenon DEF NodeAddPeerRead, store, Count
  <2>2. PoolInv'
    BY <1>1, <2>1, QuietStep, Zenon
  <2>3. StoreInv'
    BY <2>1, Zenon DEF StoreInv, StoreOK, FileOK, Saved, DocOK, BanOK, is_banned
  <2> QED
    BY <2>2, <2>3, Zenon
<1>8. CASE NodeAddPeerWrite
  <2>1. UNCHANGED <<limits, ban_state, net, todo, raced>>
    BY <1>8, Zenon DEF NodeAddPeerWrite, store
  <2>2. PoolInv'
    BY <1>1, <2>1, QuietStep, Zenon
  <2> QED
    BY <1>8, <2>2, RewriteStores, Zenon
<1> QED
  BY <1>2, <1>3, <1>4, <1>5, <1>6, <1>7, <1>8, Zenon DEF Operator

\* An actor finishes what it owes after it released the store.
LEMMA FinishKeeps ==
    ASSUME PeersInv, NEW a \in Actors, Finish(a)
    PROVE  PeersInv'
<1> USE DEF PeersInv
<1>1. todo \in [Actors -> TodoType]
  BY Zenon DEF PoolInv, TablesOK
<1>2. CASE FinishDrop(a)
  BY <1>1, <1>2, DropKeeps, DropStores, Zenon
<1>3. CASE persist(a)
  <2>1. /\ todo' = [todo EXCEPT ![a].save = FALSE] /\ todo[a].save
        /\ UNCHANGED <<limits, ban_state, net, raced>>
    BY <1>3, Zenon DEF persist, store
  <2>2. ~Free(a)
    BY <2>1 DEF Free, Done
  <2>3. PoolInv'
    BY <2>1, <2>2, QuietStep, Zenon
  <2> QED
    BY <1>3, <2>3, PersistStores, Zenon
<1> QED
  BY <1>2, <1>3, Zenon DEF Finish

\* Every step keeps the invariant.
LEMMA PeersStep ==
    ASSUME PeersInv, [PeersNext]_peers_vars
    PROVE  PeersInv'
<1> USE DEF PeersInv
<1>1. ticker \in Actors /\ todo \in [Actors -> TodoType] /\ ticker \notin Sessions
  <2>1. ticker \notin Nat
    BY DEF ticker
  <2> QED
    BY <2>1, PeersAssumption, Zenon DEF Actors, PoolInv, TablesOK
<1>2. CASE UNCHANGED peers_vars
  <2>1. UNCHANGED <<now, limits, peers, ban_state, net, todo, disk, copy, overwritten, raced, crashes>>
    BY <1>2, Zenon DEF peers_vars, net
  <2>2. now' \in Nat /\ now' >= now /\ DOMAIN peers' \subseteq Peers
    BY <2>1 DEF StoreInv, StoreOK
  <2> QED
    BY <1>1, <2>1, <2>2, QuietStep, StoreQuiet, Zenon
<1>3. CASE Clock
  <2>1. /\ UNCHANGED <<limits, peers, ban_state, net, todo, disk, copy, overwritten, raced, crashes>>
        /\ now' = now + 1
    BY <1>3, Zenon DEF Clock, store, file, bounded
  <2>2. now' \in Nat /\ now' >= now /\ DOMAIN peers' \subseteq Peers
    BY <2>1 DEF StoreInv, StoreOK
  <2> QED
    BY <1>1, <2>1, <2>2, QuietStep, StoreQuiet, Zenon
<1>4. CASE tick_at
  <2>1. DOMAIN peers \subseteq Peers
    BY Zenon DEF StoreInv, StoreOK
  <2> QED
    BY <1>1, <1>4, <2>1, TickKeeps, TickStores, Zenon
<1>5. CASE Operator
  BY <1>5, OperatorKeeps, Zenon
<1>6. ASSUME NEW s \in Sessions, Session(s) PROVE PeersInv'
  BY <1>6, AdmissionKeeps, SessionKeeps, Zenon DEF Session
<1>7. ASSUME NEW a \in Actors, Finish(a) PROVE PeersInv'
  BY <1>7, FinishKeeps, Zenon
<1>8. ASSUME NEW doc \in {disk, EmptyDoc}, Restart(doc) PROVE PeersInv'
  <2>1. Fresh'
    BY <1>8, Zenon DEF Restart, PoolInv, TablesOK, Fresh
  <2>2. PoolInv'
    BY <2>1, FreshPoolNext, Zenon
  <2> QED
    BY <1>8, <2>2, RestartStores, Zenon
<1> QED
  BY <1>2, <1>3, <1>4, <1>5, <1>6, <1>7, <1>8, Zenon DEF PeersNext

\* The invariant holds when the process first starts.
LEMMA PeersStart == PeersInit => PeersInv
<1> SUFFICES ASSUME PeersInit PROVE PeersInv
  BY Zenon
<1>1. PoolInv
  BY FreshPool, Zenon DEF PeersInit, Fresh
<1>2. DOMAIN << >> = {}
  OBVIOUS
<1>3. StoreInv
  BY <1>2 DEF PeersInit, StoreInv, StoreOK, FileOK, DocOK, EmptyDoc, is_banned
<1> QED
  BY <1>1, <1>3, Zenon DEF PeersInv

\* The store, the pool, the tasks and the file agree at all times.
THEOREM PeersInvariant == PeersSpec => []PeersInv
BY PeersStart, PeersStep, PTL DEF PeersSpec

\* register_connection: however many handshakes run at once, the pool holds no
\* more sessions than max_connections, and max_per_ip_range of any range.
THEOREM PoolStaysWithinCaps == PeersSpec => []PoolWithinCaps
<1>1. PeersInv => PoolWithinCaps
  BY Zenon DEF PeersInv, PoolInv
<1> QED
  BY <1>1, PeersInvariant, PTL

\* Whoever is in the pool is driven by a connection loop or about to be.
THEOREM SessionsAreDriven == PeersSpec => []NoZombies
<1>1. PeersInv => NoZombies
  BY Zenon DEF PeersInv, PoolInv
<1> QED
  BY <1>1, PeersInvariant, PTL

\* finish_decision, ban_peer and tick_at: a banned identity is in the pool only until its
\* ban's author drops it, or through the window of register_connection.
THEOREM BannedAreDropped == PeersSpec => []BannedStayOut
<1>1. PeersInv => BannedStayOut
  BY Zenon DEF PeersInv, PoolInv
<1> QED
  BY <1>1, PeersInvariant, PTL

\* save_to_network_json: with no write owed the file and the bans in force agree.
THEOREM BansReachTheFile == PeersSpec => []DurableBans
<1>1. PeersInv => DurableBans
  BY Zenon DEF PeersInv, StoreInv, FileOK, DurableBans
<1> QED
  BY <1>1, PeersInvariant, PTL

\* PeerManager::new: starting from an intact file keeps every persistent ban at least
\* as long as it had to run.
THEOREM RestartsKeepBans == PeersSpec => RestartKeepsBans
<1> DEFINE Kept ==
      (crashes' > crashes /\ Saved /\ disk' = disk) =>
          \A p \in DOMAIN ban_state :
              (ban_state[p].persistent /\ ban_state[p].until > now) =>
                  p \in DOMAIN ban_state' /\ ban_state'[p].until >= ban_state[p].until
<1>1. ASSUME PeersInv, [PeersNext]_peers_vars PROVE Kept
  <2> SUFFICES ASSUME crashes' > crashes, Saved, disk' = disk, NEW p \in DOMAIN ban_state,
                      ban_state[p].persistent, ban_state[p].until > now
               PROVE  p \in DOMAIN ban_state' /\ ban_state'[p].until >= ban_state[p].until
    BY Zenon
  <2>1. crashes' # crashes
    BY <1>1 DEF PeersInv, StoreInv, StoreOK
  <2>2. ~UNCHANGED peers_vars /\ ~Clock /\ ~tick_at
    BY <2>1, Zenon DEF peers_vars, Clock, tick_at, bounded
  <2>3. ~Operator
    BY <2>1, Zenon DEF Operator, unban_peer, learn_addrs, record_invalid_block, ban_peer, record_latency,
                NodeAddPeerRead, NodeAddPeerWrite, Count, bounded
  <2>4. \A s \in Sessions : ~Session(s)
    BY <2>1, ZenonT(30) DEF Session, Dial, accept_inbound, Authenticated, HelloRejected, HelloFailedOut,
                HelloDone, Insert, RecordPeer, StartLoop, RateExceeded, MalformedGossip,
                MalformedRequest, RateBanned, Violation, RateLimitBan, LoopExit, Count, bounded
  <2>5. \A a \in Actors : ~Finish(a)
    BY <2>1, Zenon DEF Finish, FinishDrop, persist, bounded
  <2>6. PICK doc \in {disk, EmptyDoc} : Restart(doc)
    BY <1>1, <2>2, <2>3, <2>4, <2>5, Zenon DEF PeersNext
  <2>7. doc = disk
    BY <2>6, Zenon DEF Restart
  <2>8. /\ p \in DOMAIN disk.banned /\ ban_state[p].until =< now + disk.banned[p].left
        /\ ban_state[p].until \in Nat /\ now \in Nat /\ disk.banned[p].left \in Nat
    <3>1. p \in DOMAIN disk.banned /\ ban_state[p].until =< now + disk.banned[p].left
      BY <1>1, Zenon DEF PeersInv, StoreInv, FileOK
    <3> QED
      BY <1>1, <3>1, Zenon DEF PeersInv, StoreInv, StoreOK, BanOK, DocOK
  <2>9. disk.banned[p].left > 0
    BY <2>8
  <2> QED
    BY <2>6, <2>7, <2>8, <2>9, Zenon DEF Restart, load_from_network_json
<1>2. PeersInv /\ [PeersNext]_peers_vars => [Kept]_peers_vars
  BY <1>1, Zenon
<1>3. PeersSpec => [][Kept]_peers_vars
  BY <1>2, PeersInvariant, PTL DEF PeersSpec
<1> QED
  BY <1>3, Zenon DEF RestartKeepsBans

\* tick_at lifts exactly the bans whose time is over and leaves the others alone.
THEOREM TicksServeBans == PeersSpec => TickServesBans
<1> DEFINE Served ==
      tick_at =>
          \A p \in DOMAIN ban_state :
              IF ban_state[p].until < now THEN p \notin DOMAIN ban_state'
              ELSE p \in DOMAIN ban_state' /\ ban_state'[p] = ban_state[p]
<1>1. Served
  <2> SUFFICES ASSUME tick_at, NEW p \in DOMAIN ban_state
               PROVE  IF ban_state[p].until < now THEN p \notin DOMAIN ban_state'
                      ELSE p \in DOMAIN ban_state' /\ ban_state'[p] = ban_state[p]
    BY Zenon
  <2> DEFINE minted == {q \in Rescored : TickDecision(q) \in {"TempBan", "PersistentBan"}}
  <2>1. p \notin minted
    BY Zenon DEF Rescored, is_banned
  <2>2. /\ DOMAIN ban_state' = minted \cup (DOMAIN ban_state \ Expired)
        /\ \A q \in DOMAIN ban_state' : q \notin minted => ban_state'[q] = ban_state[q]
    BY Zenon DEF tick_at
  <2> QED
    BY <2>1, <2>2, Zenon DEF Expired
<1>2. PeersSpec => [][Served]_peers_vars
  BY <1>1, PTL DEF PeersSpec
<1> QED
  BY <1>2, Zenon DEF TickServesBans
==============================================================================
