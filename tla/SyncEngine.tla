----------------------------- MODULE SyncEngine -----------------------------
(***************************************************************************)
(* The inbox of the network layer and its single consumer, sync_engine.rs. *)
(*                                                                         *)
(* Producers (connection tasks and the sync ticker) reserve a message's    *)
(* key in the seen-set, try to send it into a bounded lane and give the    *)
(* key back when that fails; other producers come in between, because the  *)
(* seen-set is locked for each step on its own.  The engine takes one      *)
(* message at a time and reads the chain before and after its write; the   *)
(* mining worker writes to the chain without it.                           *)
(*                                                                         *)
(* The chain is represented by its tip: blocks form a tree, a block is its *)
(* hash, and Parent gives the ancestry a hash commits to.  The headers     *)
(* lane has no producer in the repository and stays empty.                 *)
(***************************************************************************)
EXTENDS ForkChoice, Integers, FiniteSets

CONSTANTS
    Message,              \* records of kind and id (block, tip or txid)
    NoMessage,
    Connection,           \* connection tasks: blocks and transactions of a peer
    Puller,               \* tasks that run sync rounds: candidate chains
    Block,                \* hashes, as numbers
    Root,                 \* the genesis block
    Parent,               \* function from blocks to blocks
    MinerBlock,           \* blocks the mining worker may find
    BLOCKS_INBOX_CAP,
    SEEN_CAP

Producer == Connection \cup Puller

ASSUME EngineConstants ==
    /\ Root \in Block /\ Block \subseteq Nat
    /\ Parent \in [Block \ {Root} -> Block]
    /\ \A b \in Block \ {Root} : Parent[b] < b
    /\ MinerBlock \subseteq Block \ {Root}
    /\ BLOCKS_INBOX_CAP \in Nat /\ SEEN_CAP \in Nat
    /\ \A m \in Message :
          \/ m.kind \in {"block", "candidate"} /\ m.id \in Block \ {Root}
          \/ m.kind = "tx"
    /\ NoMessage \notin Message

VARIABLES
    seen,        \* SeenCache::keys; a message stands for its key
    blocks,      \* the lane of blocks, transactions and candidates
    producer,    \* per producer: the step of enqueue it is at, and its message
    banned,      \* connections whose peer was banned for a full inbox
    tip,         \* tip of the node's chain
    engine,      \* the step of the engine, its message and what it has read
    shutdown,    \* the shared flag
    applied,     \* BlockApplied events: pairs of height and hash
    reorged,     \* BlockReorged events: pairs of old and new tip
    handled,     \* messages processed so far (history)
    forks,       \* changes of tip that abandoned the older one (history)
    cleared,     \* the seen-set was cleared on overflow (history)
    raced        \* a block was mined while the engine was at work (history)

events == <<applied, reorged>>
vars == <<seen, blocks, producer, banned, tip, engine, shutdown, events,
          handled, forks, cleared, raced>>

-----------------------------------------------------------------------------
(* The chain, as the facade shows it *)

\* Blocks from genesis to b.
Ancestry[b \in Block] ==
    IF b = Root THEN {Root} ELSE {b} \cup Ancestry[Parent[b]]

chain_len(b) == Cardinality(Ancestry[b])
chain_contains_block(b, hash) == hash \in Ancestry[b]

\* Below the first retarget, with timestamps that grow with the height.
Info(b) ==
    [total_work |-> chain_len(b), tip_timestamp |-> chain_len(b), tip_hash |-> b]

\* What add_block and adopt_candidate decide about a valid block or chain.
Accepts(m) ==
    IF m.kind = "block" THEN Parent[m.id] = tip ELSE is_better(Info(m.id), Info(tip))

-----------------------------------------------------------------------------
(* The inbox *)

Idle == [pc |-> "idle", msg |-> NoMessage]

\* The engine at the top of its loop; what it read for a message is local.
AtHead == [pc |-> "head", msg |-> NoMessage, old_tip |-> Root, height |-> 0]

Init ==
    /\ seen = {} /\ blocks = <<>>
    /\ producer = [p \in Producer |-> Idle]
    /\ banned = {}
    /\ tip = Root
    /\ engine = AtHead
    /\ shutdown = FALSE
    /\ applied = {} /\ reorged = {}
    /\ handled = {} /\ forks = {} /\ cleared = FALSE /\ raced = FALSE

\* Mutant: the key is not looked up.
MutantReserveAlways(m) == seen' = seen \cup {m} /\ UNCHANGED cleared

\* SeenCache::reserve of an absent key.
reserve(m) ==
    /\ m \notin seen
    /\ IF Cardinality(seen) >= SEEN_CAP
       THEN seen' = {m} /\ cleared' = TRUE
       ELSE seen' = seen \cup {m} /\ UNCHANGED cleared

\* enqueue up to the send.  A duplicate is dropped, which changes nothing.  The
\* next frame of a banned peer closes its connection instead.
Reserve(p, m) ==
    /\ producer[p].pc = "idle" /\ p \notin banned
    /\ p \in Puller <=> m.kind = "candidate"
    /\ reserve(m)
    /\ producer' = [producer EXCEPT ![p] = [pc |-> "send", msg |-> m]]
    /\ UNCHANGED <<blocks, banned, tip, engine, shutdown, events, handled, forks, raced>>

\* Mutant: the key of a message that met a full lane is kept.
MutantSendKeepsKey(p) ==
    /\ producer[p].pc = "send"
    /\ IF Len(blocks) < BLOCKS_INBOX_CAP /\ engine.pc # "stopped"
       THEN blocks' = Append(blocks, producer[p].msg)
       ELSE UNCHANGED blocks
    /\ producer' = [producer EXCEPT ![p] = Idle]
    /\ UNCHANGED <<seen, banned, tip, engine, shutdown, events, handled, forks, cleared, raced>>

\* try_send: into the lane, or back with Full or Closed.  push_inbound bans
\* the peer behind a full lane, push does not.
Send(p) ==
    /\ producer[p].pc = "send"
    /\ IF engine.pc # "stopped" /\ Len(blocks) < BLOCKS_INBOX_CAP
       THEN /\ blocks' = Append(blocks, producer[p].msg)
            /\ producer' = [producer EXCEPT ![p] = Idle]
            /\ UNCHANGED banned
       ELSE /\ producer' = [producer EXCEPT ![p].pc = "release"]
            /\ banned' = IF engine.pc # "stopped" /\ p \in Connection
                         THEN banned \cup {p} ELSE banned
            /\ UNCHANGED blocks
    /\ UNCHANGED <<seen, tip, engine, shutdown, events, handled, forks, cleared, raced>>

\* SeenCache::release.
Release(p) ==
    /\ producer[p].pc = "release"
    /\ seen' = seen \ {producer[p].msg}
    /\ producer' = [producer EXCEPT ![p] = Idle]
    /\ UNCHANGED <<blocks, banned, tip, engine, shutdown, events, handled, forks, cleared, raced>>

-----------------------------------------------------------------------------
(* The engine *)

inboxAndMiner == <<seen, producer, banned, shutdown, cleared, raced>>

\* Mutant: the flag is obeyed once the lane is drained.
MutantDrainFirst ==
    /\ engine.pc = "head"
    /\ engine' = [engine EXCEPT !.pc = IF shutdown /\ blocks = <<>> THEN "stopped" ELSE "wait"]
    /\ UNCHANGED <<inboxAndMiner, blocks, tip, events, handled, forks>>

\* Top of the loop: the flag is looked at before every wait.
CheckFlag ==
    /\ engine.pc = "head"
    /\ engine' = [engine EXCEPT !.pc = IF shutdown THEN "stopped" ELSE "wait"]
    /\ UNCHANGED <<inboxAndMiner, blocks, tip, events, handled, forks>>

\* A wait that ends with a message: apply_tx is one call, a block or a
\* candidate is preceded by a look at the tip.
Take ==
    /\ engine.pc = "wait" /\ blocks # <<>>
    /\ LET m == Head(blocks) IN
       IF m.kind = "tx"
       THEN /\ handled' = handled \cup {m}
            /\ engine' = AtHead
       ELSE /\ engine' = [engine EXCEPT !.pc = "apply", !.msg = m, !.old_tip = tip]
            /\ UNCHANGED handled
    /\ blocks' = Tail(blocks)
    /\ UNCHANGED <<inboxAndMiner, tip, events, forks>>

\* A wait that ends with the tick, which only fires when no message is there.
Tick ==
    /\ engine.pc = "wait" /\ blocks = <<>>
    /\ engine' = AtHead
    /\ UNCHANGED <<inboxAndMiner, blocks, tip, events, handled, forks>>

\* add_block or adopt_candidate under the write lock.  What is rejected is
\* done with: the candidates sync rounds queue carry no transactions to salvage.
Apply ==
    /\ engine.pc = "apply"
    /\ IF Accepts(engine.msg)
       THEN /\ tip' = engine.msg.id
            /\ forks' = IF chain_contains_block(tip', tip)
                        THEN forks ELSE forks \cup {<<tip, tip'>>}
            /\ engine' = [engine EXCEPT !.pc = "height"]
            /\ UNCHANGED handled
       ELSE /\ engine' = AtHead
            /\ handled' = handled \cup {engine.msg}
            /\ UNCHANGED <<tip, forks>>
    /\ UNCHANGED <<inboxAndMiner, blocks, events>>

\* announce, the first read.
ReadHeight ==
    /\ engine.pc = "height"
    /\ engine' = [engine EXCEPT !.pc = "publish", !.height = chain_len(tip) - 1]
    /\ UNCHANGED <<inboxAndMiner, blocks, tip, events, handled, forks>>

\* Mutant: the tip is compared with itself.
MutantPublishNoReorg ==
    /\ engine.pc = "publish"
    /\ applied' = applied \cup {<<engine.height, tip>>}
    /\ engine' = AtHead
    /\ handled' = handled \cup {engine.msg}
    /\ UNCHANGED <<inboxAndMiner, blocks, tip, reorged, forks>>

\* announce, the rest.  The two reads of the chain are one step: a mined
\* block extends the chain, so what it contains it still contains.
Publish ==
    /\ engine.pc = "publish"
    /\ reorged' = IF chain_contains_block(tip, engine.old_tip)
                  THEN reorged ELSE reorged \cup {<<engine.old_tip, tip>>}
    /\ applied' = applied \cup {<<engine.height, tip>>}
    /\ engine' = AtHead
    /\ handled' = handled \cup {engine.msg}
    /\ UNCHANGED <<inboxAndMiner, blocks, tip, forks>>

EngineStep == CheckFlag \/ Take \/ Tick \/ Apply \/ ReadHeight \/ Publish

-----------------------------------------------------------------------------
(* Around the engine *)

\* The mining worker commits a block on the tip.  Its own BlockApplied names
\* this block and its index and is not recorded here.
Mine(b) ==
    /\ Parent[b] = tip
    /\ tip' = b
    /\ raced' = (raced \/ engine.pc \in {"apply", "height", "publish"})
    /\ UNCHANGED <<seen, blocks, producer, banned, engine, shutdown, events,
                   handled, forks, cleared>>

\* The ban runs out and the peer is connected again.
BanExpires(p) ==
    /\ p \in banned /\ producer[p].pc = "idle"
    /\ banned' = banned \ {p}
    /\ UNCHANGED <<seen, blocks, producer, tip, engine, shutdown, events,
                   handled, forks, cleared, raced>>

\* The flag that dropping the node sets.  Producers look at it too, some time
\* later; here they may go on for ever.
Shutdown ==
    /\ ~shutdown
    /\ shutdown' = TRUE
    /\ UNCHANGED <<seen, blocks, producer, banned, tip, engine, events,
                   handled, forks, cleared, raced>>

Next ==
    \/ \E p \in Producer : (\E m \in Message : Reserve(p, m)) \/ Send(p) \/ Release(p)
    \/ \E p \in Connection : BanExpires(p)
    \/ EngineStep
    \/ \E b \in MinerBlock : Mine(b)
    \/ Shutdown

\* The runtime goes on polling the engine's task, which always has a step to
\* take until it stops: weak fairness of EngineStep.
Fairness == []<>(engine.pc = "stopped") \/ []<><<EngineStep>>_vars

Spec == Init /\ [][Next]_vars
FairSpec == Spec /\ Fairness

-----------------------------------------------------------------------------
(* Properties *)

AtRest == engine.pc \in {"head", "wait", "stopped"}

\* Every variable has its type, and the lane is within its capacity.
TypeOK ==
    /\ seen \subseteq Message /\ handled \subseteq Message
    /\ blocks \in Seq(Message) /\ Len(blocks) <= BLOCKS_INBOX_CAP
    /\ producer \in [Producer -> [pc: {"idle", "send", "release"},
                                  msg: Message \cup {NoMessage}]]
    /\ banned \subseteq Connection
    /\ tip \in Block
    /\ engine \in [pc: {"head", "wait", "apply", "height", "publish", "stopped"},
                   msg: Message \cup {NoMessage}, old_tip: Block, height: Nat]
    /\ applied \subseteq Nat \X Block
    /\ reorged \subseteq Block \X Block /\ forks \subseteq Block \X Block
    /\ {shutdown, cleared, raced} \subseteq BOOLEAN

\* A key in the seen-set belongs to a message that some producer still holds,
\* that is queued, in work or handled: a message dropped at a full or closed
\* lane is welcome when it is offered again.
SeenKeysBacked ==
    \A k \in seen :
       \/ k \in handled \cup Range(blocks) \cup {engine.msg}
       \/ \E p \in Producer : producer[p].pc # "idle" /\ producer[p].msg = k

\* Until the seen-set overflows, no message is queued while an equal one is
\* queued, in work or done: every message is processed at most once, with any
\* number of producers between reserve and send.
ProcessedOnce ==
    ~cleared =>
       /\ Cardinality(Range(blocks)) = Len(blocks)
       /\ Range(blocks) \cap (handled \cup {engine.msg}) = {}
       /\ engine.msg \notin handled

\* Between messages, unless the mining worker came between the reads of one,
\* BlockReorged was published for exactly the changes of tip that abandoned
\* the old one, every BlockApplied names a block with its own height, and the
\* tip the engine wrote last was announced.
AnnouncementsTrue ==
    AtRest /\ ~raced =>
       /\ reorged = forks
       /\ \A e \in applied : e[1] = chain_len(e[2]) - 1
       /\ tip \in {Root} \cup MinerBlock \cup {e[2] : e \in applied}

\* The same without regard to the mining worker: a change of tip through a fork is
\* reported.
ForksReported == AtRest => forks \subseteq reorged

\* While messages are queued the engine goes on taking them (the lane is
\* first in, first out) unless it stops, and it stops after a shutdown whatever the
\* producers go on sending.
EngineProgress ==
    /\ []<>(blocks = <<>> \/ engine.pc = "stopped") \/ []<><<Take>>_vars
    /\ shutdown ~> engine.pc = "stopped"

=============================================================================
