-------------------------------- MODULE Relay --------------------------------
(***************************************************************************)
(* Two nodes that relay transactions and blocks to each other: the         *)
(* connection loop (peer/connection_loop.rs) with gossip/broadcast.rs,     *)
(* gossip/compact_blocks.rs and gossip/erlay, the node's announcer         *)
(* (lib.rs), and as much of the engine and the mempool as relay sees.      *)
(*                                                                         *)
(* A session is a pair of ordered streams, which is what module Channel    *)
(* promises; a refused write ends it (module Session).  A frame is         *)
(* dispatched in one step; sends of the dispatch are part of it.  What the *)
(* rate limiter decides about a frame is a choice, bounded by the          *)
(* scenario.  A scenario fixes where transactions and blocks originate and *)
(* which faults may happen.                                                *)
(***************************************************************************)
EXTENDS Integers, Sequences, SequencesExt, FiniteSets, FiniteSetsExt

CONSTANTS
    Nodes, Txs, Blocks, Root,
    Parent, Body,              \* of a block: its predecessor; its transactions after the coinbase
    ShortId,                   \* siphash of a transaction id; collisions are possible
    Scenarios,
    KNOWN_SET_CAP, INBOX_CAP,
    INITIAL_SKETCH_CAPACITY, MAX_SKETCH_CAPACITY, CAPACITY_GROW_FAILURES, new_tx_trigger

VARIABLES
    scn,                       \* the scenario
    mempool, replaced, chain,  \* per node: pending, evicted by replacement, chain (a sequence)
    up, wire,                  \* the session; wire[n]: frames on their way to n
    known,                     \* GossipState: what the peer of n is known to have
    recon,                     \* ReconciliationState
    pending_compact,           \* compact blocks that wait for BLOCK_TXN
    inbox, seen,               \* the engine's lane and its seen-set
    events,                    \* NodeEvents the announcer has not handled
    lost, cut, failed          \* history: a frame or message was dropped; the session
                               \* was cut; a compact block could not be rebuilt

relay_vars == <<scn, mempool, replaced, chain, up, wire, known, recon, pending_compact, inbox, seen,
          events, lost, cut, failed>>
local == <<mempool, replaced, chain>>

Peer(n) == CHOOSE m \in Nodes : m # n
TxItem(t) == <<"tx", t>>
BlockItem(b) == <<"block", b>>

\* The transactions of b; the coinbase is named after its block.
BlockTxs(b) == <<b>> \o Body[b]
ChainTxs(n) == UNION {ToSet(Body[b]) : b \in ToSet(chain[n])}
tip(n) == IF chain[n] = << >> THEN Root ELSE Last(chain[n])

Have(n, item) ==
    IF item[1] = "tx" THEN item[2] \in mempool[n] ELSE item[2] \in ToSet(chain[n])

NewPeerRecord == [capacity |-> INITIAL_SKETCH_CAPACITY, failures |-> 0]

RelayInit ==
    /\ scn \in Scenarios
    /\ mempool = [n \in Nodes |-> {}] /\ replaced = [n \in Nodes |-> {}]
    /\ chain = [n \in Nodes |-> << >>]
    /\ up = FALSE /\ wire = [n \in Nodes |-> << >>]
    /\ known = [n \in Nodes |-> {}]
    /\ recon = [n \in Nodes |-> [known_set |-> {}, new |-> 0, elapsed |-> "erlay" \in scn.caps,
                                 peer |-> NewPeerRecord]]
    /\ pending_compact = [n \in Nodes |-> {}]
    /\ inbox = [n \in Nodes |-> << >>] /\ seen = [n \in Nodes |-> {}]
    /\ events = [n \in Nodes |-> << >>]
    /\ lost = FALSE /\ cut = FALSE /\ failed = FALSE

(***************************************************************************)
(* Sending, and the known-set                                              *)
(***************************************************************************)
\* send_to_peer of each message in turn.
Send(n, msgs, w) == [w EXCEPT ![Peer(n)] = @ \o msgs]

mark_known(item, K) == (IF Cardinality(K) >= KNOWN_SET_CAP THEN {} ELSE K) \cup {item}
MarkAll(items, K) == FoldSet(mark_known, K, items)

Inv(items) == [tag |-> "INV", items |-> items]
InvOf(items) == IF items = {} THEN << >> ELSE <<Inv(items)>>

(***************************************************************************)
(* Mempool, engine and announcer, as relay sees them                       *)
(***************************************************************************)
Acceptable(n, t) == t \notin mempool[n] \cup replaced[n] \cup ChainTxs(n)

\* A transaction enters the pool and TxAccepted is published.
AcceptTx(n, t) ==
    /\ mempool' = [mempool EXCEPT ![n] = @ \cup {t}]
    /\ events' = [events EXCEPT ![n] = Append(@, TxItem(t))]
    /\ UNCHANGED <<replaced, chain>>

\* A block extends the chain, its transactions leave the pool.
AcceptBlock(n, b) ==
    /\ chain' = [chain EXCEPT ![n] = Append(@, b)]
    /\ mempool' = [mempool EXCEPT ![n] = @ \ ToSet(Body[b])]
    /\ events' = [events EXCEPT ![n] = Append(@, BlockItem(b))]
    /\ UNCHANGED replaced

\* The mining worker applies the user's transactions and mines blocks.
Submit(n, t) ==
    /\ <<n, t>> \in scn.submit /\ Acceptable(n, t) /\ AcceptTx(n, t)
    /\ UNCHANGED <<scn, up, wire, known, recon, pending_compact, inbox, seen, lost, cut, failed>>

Mine(n, b) ==
    /\ <<n, b>> \in scn.mine /\ Parent[b] = tip(n) /\ ToSet(Body[b]) \subseteq mempool[n]
    /\ AcceptBlock(n, b)
    /\ UNCHANGED <<scn, up, wire, known, recon, pending_compact, inbox, seen, lost, cut, failed>>

\* A replacement with a higher feerate evicts t.
Replace(n, t) ==
    /\ <<n, t>> \in scn.replace /\ t \in mempool[n]
    /\ mempool' = [mempool EXCEPT ![n] = @ \ {t}]
    /\ replaced' = [replaced EXCEPT ![n] = @ \cup {t}]
    /\ UNCHANGED <<scn, chain, up, wire, known, recon, pending_compact, inbox, seen, events, lost, cut, failed>>

\* sync_engine::process of the next message.
Engine(n) ==
    /\ inbox[n] # << >> /\ inbox' = [inbox EXCEPT ![n] = Tail(@)]
    /\ LET m == Head(inbox[n])
       IN  \/ m.kind = "tx" /\ Acceptable(n, m.id) /\ AcceptTx(n, m.id)
           \/ m.kind = "tx" /\ ~Acceptable(n, m.id) /\ UNCHANGED <<local, events>>
           \/ m.kind = "block" /\ Parent[m.id] = tip(n) /\ AcceptBlock(n, m.id)
           \/ m.kind = "block" /\ Parent[m.id] # tip(n) /\ UNCHANGED <<local, events>>
    /\ UNCHANGED <<scn, up, wire, known, recon, pending_compact, seen, lost, cut, failed>>

\* note_new_tx: the trigger counts transactions that are new to the set.
note_new_tx(r, t) ==
    [r EXCEPT !.known_set = @ \cup {t},
              !.new = IF t \in r.known_set THEN @ ELSE Min({@ + 1, new_tx_trigger})]

CompactOf(b) == [tag |-> "COMPACT_BLOCK", block |-> b]

\* announce_new_block: known is marked once the frame left; without a session
\* nobody is told.
announce_new_block(n, b) ==
    LET msgs == IF ~up \/ BlockItem(b) \in known[n] THEN << >>
                ELSE IF "compact" \in scn.caps THEN <<CompactOf(b)>>
                ELSE <<Inv({BlockItem(b)})>>
    IN  /\ wire' = Send(n, msgs, wire)
        /\ known' = [known EXCEPT ![n] = IF msgs = << >> THEN @ ELSE mark_known(BlockItem(b), @)]
        /\ cut' = (cut \/ ~up)
        /\ UNCHANGED <<recon, lost>>

\* Mutant: the reconciliation set is fed by the network only.
AnnounceTxUnnoted(n, t) ==
    LET msgs == IF ~up \/ TxItem(t) \in known[n] THEN << >> ELSE <<Inv({TxItem(t)})>>
    IN  /\ wire' = Send(n, msgs, wire)
        /\ UNCHANGED <<known, cut, recon, lost>>

announce_new_tx(n, t) ==
    LET msgs == IF ~up \/ TxItem(t) \in known[n] THEN << >> ELSE <<Inv({TxItem(t)})>>
    IN  /\ recon' = [recon EXCEPT ![n] = note_new_tx(@, t)]
        /\ wire' = Send(n, msgs, wire)
        /\ UNCHANGED <<known, cut, lost>>

Announcer(n) ==
    /\ events[n] # << >> /\ events' = [events EXCEPT ![n] = Tail(@)]
    /\ LET e == Head(events[n])
       IN  \/ e[1] = "block" /\ announce_new_block(n, e[2])
           \/ e[1] = "tx" /\ announce_new_tx(n, e[2])
    /\ UNCHANGED <<scn, local, up, pending_compact, inbox, seen, failed>>

(***************************************************************************)
(* INV, GET_DATA, TX, BLOCKS, NOTFOUND                                     *)
(***************************************************************************)
Frame(n) == Head(wire[n])
Rest(n) == [wire EXCEPT ![n] = Tail(@)]

\* Inbox::push_inbound: duplicates and messages for a full lane are dropped.
Fresh(n, m) == <<m.kind, m.id>> \notin seen[n]
Queued(n, m) == Fresh(n, m) /\ Len(inbox[n]) < INBOX_CAP
Push(n, m) ==
    /\ inbox' = IF Queued(n, m) THEN [inbox EXCEPT ![n] = Append(@, m)] ELSE inbox
    /\ seen' = IF Queued(n, m) THEN [seen EXCEPT ![n] = @ \cup {<<m.kind, m.id>>}] ELSE seen
    /\ lost' = (lost \/ (Fresh(n, m) /\ ~Queued(n, m)))

\* A dispatch whose only effects are known-set and frames to the peer.
Respond(n, msgs, K) ==
    /\ wire' = Send(n, msgs, Rest(n))
    /\ known' = [known EXCEPT ![n] = K]
    /\ UNCHANGED <<recon, pending_compact, inbox, seen, lost, failed>>

handle_inv(n) ==
    LET f == Frame(n)
        missing == {i \in f.items : ~Have(n, i)}
    IN  /\ f.tag = "INV"
        /\ Respond(n, IF missing = {} THEN << >> ELSE <<[tag |-> "GET_DATA", items |-> missing]>>,
                   MarkAll(f.items, known[n]))

DataOf(item) ==
    IF item[1] = "tx" THEN [tag |-> "TX", id |-> item[2]] ELSE [tag |-> "BLOCKS", id |-> item[2]]

handle_get_data(n) ==
    LET f == Frame(n)
        found == {i \in f.items : Have(n, i)}
        data == [k \in 1..Cardinality(found) |-> DataOf(SetToSeq(found)[k])]
        rest == IF found = f.items THEN << >>
                ELSE <<[tag |-> "NOTFOUND", items |-> f.items \ found]>>
    IN  /\ f.tag = "GET_DATA"
        /\ Respond(n, data \o rest, MarkAll(found, known[n]))

handle_not_found(n) == Frame(n).tag = "NOTFOUND" /\ Respond(n, << >>, known[n])

handle_tx(n) ==
    LET m == [kind |-> "tx", id |-> Frame(n).id]
    IN  /\ Frame(n).tag = "TX"
        /\ Push(n, m)
        /\ recon' = IF Queued(n, m) THEN [recon EXCEPT ![n] = note_new_tx(@, m.id)] ELSE recon
        /\ wire' = Rest(n)
        /\ UNCHANGED <<known, pending_compact, failed>>

handle_block(n) ==
    /\ Frame(n).tag = "BLOCKS"
    /\ Push(n, [kind |-> "block", id |-> Frame(n).id, txs |-> BlockTxs(Frame(n).id)])
    /\ wire' = Rest(n)
    /\ UNCHANGED <<known, recon, pending_compact, failed>>

(***************************************************************************)
(* Compact blocks.  The message of b carries its header (with tx_root),    *)
(* one short id per transaction and the coinbase.                          *)
(***************************************************************************)
Slots(b) == 1..Len(BlockTxs(b))
prefilled_idx == {1}

\* What may fill slot i: the prefilled coinbase, a transaction the peer sent,
\* or a pending one with the same short id.
find_mempool_tx_by_short_id(n, b, i) == {t \in mempool[n] : ShortId[t] = ShortId[BlockTxs(b)[i]]}
Candidates(n, b, given, i) ==
    IF i \in prefilled_idx THEN {b}
    ELSE IF i \in DOMAIN given THEN {given[i]}
    ELSE find_mempool_tx_by_short_id(n, b, i)

missing_indices(n, b, given) == {i \in Slots(b) : Candidates(n, b, given, i) = {}}

Fillings(n, b, given) ==
    {f \in [Slots(b) -> Txs \cup {b}] : \A i \in Slots(b) : f[i] \in Candidates(n, b, given, i)}

\* The merkle root of the transactions is the header's.
assemble_and_verify(b, txs) == txs = BlockTxs(b)

\* A block is rebuilt, or the peer is charged with a violation; nothing else
\* is asked for.
Rebuilt(n, b, txs) ==
    IF assemble_and_verify(b, txs)
    THEN Push(n, [kind |-> "block", id |-> b, txs |-> txs]) /\ UNCHANGED failed
    ELSE failed' = TRUE /\ UNCHANGED <<inbox, seen, lost>>

fill_up(n) ==
    LET b == Frame(n).block
        missing == missing_indices(n, b, << >>)
        request == <<[tag |-> "GET_BLOCK_TXN", block |-> b, idx |-> missing]>>
    IN  /\ Frame(n).tag = "COMPACT_BLOCK"
        /\ \/ /\ missing = {}
              /\ \E txs \in Fillings(n, b, << >>) : Rebuilt(n, b, txs)
              /\ wire' = Rest(n) /\ UNCHANGED pending_compact
           \/ /\ missing # {}
              /\ pending_compact' = [pending_compact EXCEPT
                     ![n] = {p \in @ : p.block # b} \cup {[block |-> b, idx |-> missing]}]
              /\ wire' = Send(n, request, Rest(n))
              /\ UNCHANGED <<inbox, seen, lost, failed>>
        /\ UNCHANGED <<known, recon>>

handle_get_block_txn(n) ==
    LET f == Frame(n)
        answer == IF f.block \in ToSet(chain[n]) /\ f.idx \subseteq Slots(f.block)
                  THEN <<[tag |-> "BLOCK_TXN", block |-> f.block,
                          txs |-> [i \in f.idx |-> BlockTxs(f.block)[i]]]>>
                  ELSE << >>
    IN  f.tag = "GET_BLOCK_TXN" /\ Respond(n, answer, known[n])

\* The mempool is consulted again for the slots that were found before.
apply_block_txn(n) ==
    LET f == Frame(n)
        b == f.block
        waiting == {p \in pending_compact[n] : p.block = b}
    IN  /\ f.tag = "BLOCK_TXN"
        /\ pending_compact' = [pending_compact EXCEPT ![n] = @ \ waiting]
        /\ \/ waiting = {} /\ UNCHANGED <<inbox, seen, lost, failed>>
           \/ \E p \in waiting :
                 LET ok == /\ p.idx = DOMAIN f.txs /\ missing_indices(n, b, f.txs) = {}
                           /\ \A i \in p.idx : ShortId[f.txs[i]] = ShortId[BlockTxs(b)[i]]
                 IN  \/ ok /\ \E txs \in Fillings(n, b, f.txs) : Rebuilt(n, b, txs)
                     \/ ~ok /\ failed' = TRUE /\ UNCHANGED <<inbox, seen, lost>>
        /\ wire' = Rest(n)
        /\ UNCHANGED <<known, recon>>

(***************************************************************************)
(* Erlay: an envelope lists the known set; decoding fails when the         *)
(* difference exceeds the smaller capacity.                                *)
(***************************************************************************)
create_sketch(r) == [elements |-> r.known_set, capacity |-> r.peer.capacity]

xor(A, B) == (A \ B) \cup (B \ A)
decodable(local_sketch, remote) ==
    Cardinality(xor(local_sketch.elements, remote.elements))
        =< Min({local_sketch.capacity, remote.capacity})

\* Success shrinks the capacity toward the difference and stamps the trigger;
\* repeated failure doubles it.
Reconciled(r, difference) ==
    [r EXCEPT !.peer = [capacity |-> Min({r.peer.capacity,
                                          Max({2 * Cardinality(difference), INITIAL_SKETCH_CAPACITY})}),
                        failures |-> 0],
              !.new = 0, !.elapsed = FALSE]

Mismatched(r) ==
    IF r.peer.failures + 1 >= CAPACITY_GROW_FAILURES
    THEN [r EXCEPT !.peer = [capacity |-> Min({2 * r.peer.capacity, MAX_SKETCH_CAPACITY}), failures |-> 0]]
    ELSE [r EXCEPT !.peer.failures = @ + 1]

\* The whole mempool, except what the peer is known to have.
fallback_full_relay(n) == InvOf({TxItem(t) : t \in mempool[n]} \ known[n])

handle_erlay_reconcile(n) ==
    LET f == Frame(n)
        mine == create_sketch(recon[n])
        ok == decodable(mine, f.sketch)
        exclusive == mine.elements \ f.sketch.elements
        announced == IF ok THEN InvOf({TxItem(t) : t \in exclusive} \ known[n])
                     ELSE fallback_full_relay(n)
        reply == IF f.respond THEN <<[tag |-> "ERLAY_RECONCILE", respond |-> FALSE, sketch |-> mine]>>
                 ELSE << >>
    IN  /\ f.tag = "ERLAY_RECONCILE"
        /\ recon' = [recon EXCEPT ![n] =
               IF ok THEN Reconciled(@, xor(mine.elements, f.sketch.elements)) ELSE Mismatched(@)]
        /\ wire' = Send(n, announced \o reply, Rest(n))
        /\ UNCHANGED <<known, pending_compact, inbox, seen, lost, failed>>

due_at(r) == r.new >= new_tx_trigger \/ r.elapsed

\* The trigger is stamped when the sketch is sent.
maybe_start_reconciliation(n) ==
    LET msg == <<[tag |-> "ERLAY_RECONCILE", respond |-> TRUE, sketch |-> create_sketch(recon[n])]>>
    IN  /\ up /\ "erlay" \in scn.caps /\ due_at(recon[n])
        /\ recon' = [recon EXCEPT ![n].new = 0, ![n].elapsed = FALSE]
        /\ wire' = Send(n, msg, wire)
        /\ UNCHANGED <<scn, local, up, known, pending_compact, inbox, seen, events, lost, cut, failed>>

\* The interval outlasts a round: no frame is on its way when it has elapsed.
Elapse(n) ==
    /\ "erlay" \in scn.caps /\ ~recon[n].elapsed /\ \A m \in Nodes : wire[m] = << >>
    /\ recon' = [recon EXCEPT ![n].elapsed = TRUE]
    /\ UNCHANGED <<scn, local, up, wire, known, pending_compact, inbox, seen, events, lost, cut, failed>>

(***************************************************************************)
(* Sessions                                                                *)
(***************************************************************************)
\* dispatch_frame and dispatch_gossip of the next frame.
Dispatch(n) ==
    /\ wire[n] # << >>
    /\ \/ handle_inv(n) \/ handle_get_data(n) \/ handle_not_found(n)
       \/ handle_tx(n) \/ handle_block(n)
       \/ fill_up(n) \/ handle_get_block_txn(n) \/ apply_block_txn(n)
       \/ handle_erlay_reconcile(n)
    /\ UNCHANGED <<scn, local, up, events, cut>>

\* The rate limiter refuses the frame.
Exceeded(n) ==
    /\ scn.drops /\ wire[n] # << >> /\ wire' = Rest(n) /\ lost' = TRUE
    /\ UNCHANGED <<scn, local, up, known, recon, pending_compact, inbox, seen, events, cut, failed>>

Connect ==
    /\ ~up /\ up' = TRUE
    /\ UNCHANGED <<scn, local, wire, known, recon, pending_compact, inbox, seen, events, lost, cut, failed>>

\* Both loops end: what was on the way is gone, the per-peer state is forgotten.
Disconnect ==
    /\ up /\ scn.cuts /\ ~cut /\ up' = FALSE /\ cut' = TRUE
    /\ wire' = [n \in Nodes |-> << >>]
    /\ known' = [n \in Nodes |-> {}]
    /\ recon' = [n \in Nodes |-> [recon[n] EXCEPT !.peer = NewPeerRecord]]
    /\ pending_compact' = [n \in Nodes |-> {}]
    /\ UNCHANGED <<scn, local, inbox, seen, events, lost, failed>>

RelayNext ==
    \/ Connect \/ Disconnect
    \/ \E n \in Nodes :
          \/ Dispatch(n) \/ Exceeded(n) \/ Engine(n) \/ Announcer(n)
          \/ maybe_start_reconciliation(n) \/ Elapse(n)
          \/ \E t \in Txs : Submit(n, t) \/ Replace(n, t)
          \/ \E b \in Blocks : Mine(n, b)

\* The loops, the engine, the announcer and the clock keep running, and the
\* dial loop reconnects.
RelayFairness ==
    /\ WF_relay_vars(Connect)
    /\ \A n \in Nodes : /\ WF_relay_vars(Dispatch(n)) /\ WF_relay_vars(Engine(n)) /\ WF_relay_vars(Announcer(n))
                        /\ WF_relay_vars(maybe_start_reconciliation(n)) /\ WF_relay_vars(Elapse(n))

RelaySpec == RelayInit /\ [][RelayNext]_relay_vars /\ RelayFairness

(***************************************************************************)
(* Properties                                                              *)
(***************************************************************************)
Items == {TxItem(t) : t \in Txs} \cup {BlockItem(b) : b \in Blocks}

\* The state is well formed and every buffer keeps its bound.
RelayTypeOK ==
    /\ \A n \in Nodes :
          /\ mempool[n] \subseteq Txs /\ replaced[n] \subseteq Txs /\ chain[n] \in Seq(Blocks)
          /\ Len(inbox[n]) =< INBOX_CAP
          /\ known[n] \subseteq Items /\ Cardinality(known[n]) =< KNOWN_SET_CAP
          /\ recon[n].known_set \subseteq Txs /\ recon[n].new \in 0..new_tx_trigger
          /\ recon[n].peer.capacity \in INITIAL_SKETCH_CAPACITY..MAX_SKETCH_CAPACITY
          /\ recon[n].peer.failures \in 0..CAPACITY_GROW_FAILURES - 1
    /\ up \in BOOLEAN /\ (~up => \A n \in Nodes : wire[n] = << >>)

\* The node has the item, had it, or queued it for the engine.
HadTx(n, t) == t \in mempool[n] \cup replaced[n] \cup ChainTxs(n) \/ TxItem(t) \in seen[n]
HadBlock(n, b) == b \in ToSet(chain[n]) \/ BlockItem(b) \in seen[n]

\* Frames on the way, in either direction, that will bring the item.
Carries(f, item) ==
    \/ f.tag \in {"INV", "GET_DATA"} /\ item \in f.items
    \/ f.tag \in {"TX", "BLOCKS"} /\ DataOf(item) = f
    \/ f.tag \in {"COMPACT_BLOCK", "GET_BLOCK_TXN", "BLOCK_TXN"} /\ item = BlockItem(f.block)

\* The known-set suppresses announcements, so it must be true: while no frame
\* was refused and no compact block failed, what n believes its peer to have,
\* the peer has or is about to get.
KnownIsTrue ==
    (~lost /\ ~failed) =>
        \A n \in Nodes : \A item \in known[n] :
            \/ item[1] = "tx" /\ HadTx(Peer(n), item[2])
            \/ item[1] = "block" /\ HadBlock(Peer(n), item[2])
            \/ \E m \in Nodes : \E f \in ToSet(wire[m]) : Carries(f, item)

\* A block rebuilt from short ids is the block that was announced, whatever
\* collides and whatever the mempool did in between.
RebuiltExactly ==
    \A n \in Nodes : \A m \in ToSet(inbox[n]) : m.kind = "block" => m.txs = BlockTxs(m.id)

\* Blocks reach the engine in chain order, so that none is refused as an orphan:
\* the parent is applied or queued before.  Only a compact block that needed a
\* second round trip may be overtaken by its successor.
BlocksInOrder ==
    (~lost /\ ~cut /\ ~failed) =>
        \A n \in Nodes : \A i \in DOMAIN inbox[n] :
            LET parent == Parent[inbox[n][i].id]
            IN  inbox[n][i].kind = "block" =>
                   \/ parent \in {Root} \cup ToSet(chain[n])
                   \/ \E j \in 1..i - 1 : BlockItem(parent) = <<inbox[n][j].kind, inbox[n][j].id>>
                   \/ "compact" \in scn.caps /\ (\/ BlockItem(parent) \in seen[n]
                                                 \/ \E p \in pending_compact[n] : p.block = parent)

\* No transaction is skipped by a round, decoded or not: after handling a
\* sketch, every pending transaction the sketch lacks is known to the peer, is
\* announced, or is about to be announced by the announcer.
RoundCoversDifference ==
    [][\A n \in Nodes :
          (/\ wire[n] # << >> /\ Frame(n).tag = "ERLAY_RECONCILE"
           /\ wire'[n] = Tail(wire[n]) /\ ~lost' /\ up')
          => \A t \in mempool[n] \ Frame(n).sketch.elements :
                \/ TxItem(t) \in known[n] \/ TxItem(t) \in ToSet(events[n])
                \/ \E f \in ToSet(wire'[Peer(n)]) : f.tag = "INV" /\ TxItem(t) \in f.items]_relay_vars

\* Relay converges.  Unless frames are refused, a transaction that stays pending at
\* one node reaches the other, although INVs die with a session: Erlay announces them
\* again.  With a session that stays up, a block reaches the other node, as BLOCKS or
\* as a compact block, in one round trip or two, unless rebuilding failed.
GossipSpreads ==
    /\ \A n \in Nodes, t \in Txs :
          (t \in mempool[n] /\ "erlay" \in scn.caps)
              ~> (HadTx(Peer(n), t) \/ t \notin mempool[n] \/ lost)
    /\ \A n \in Nodes, b \in Blocks :
          (b \in ToSet(chain[n])) ~> (HadBlock(Peer(n), b) \/ lost \/ cut \/ failed)
==============================================================================
