----------------------------- MODULE HeadersSync -----------------------------
(***************************************************************************)
(* Headers-first sync (crates/strangecoin-net/src/sync.rs) of one node     *)
(* against one peer, with the sync task of lib.rs and the engine that      *)
(* adopts what it enqueues.                                                *)
(*                                                                         *)
(* A round plans against a snapshot of the local chain while the local     *)
(* chain, the peer's chain and the inbox go on changing.  A request and    *)
(* its response are one step: nothing of the round happens in between, and *)
(* the peer answers from the chain it has then.  Blocks form a tree fixed  *)
(* by the constants; a chain is a sequence of blocks from a genesis.       *)
(***************************************************************************)
EXTENDS ForkChoice, FiniteSets, SequencesExt

CONSTANTS
    Chains,             \* of a block: the chain that ends with it
    TotalWork,          \* of a block: cumulative_work_headers of its chain
    Timestamp,          \* of a block
    Defect,             \* of a block: "none", "pow" (header invalid) or "body"
    GenesisBlock, Remotes,    \* the local genesis; the chains the peer may start with
    MAX_HEADERS_BATCH, MAX_BLOCKS_BATCH,
    SYNC_INBOX_CAP, MaxTimeouts

VARIABLES
    chain, remote,      \* the local chain and the peer's
    round,              \* the sync task: pc and its local variables
    inbox,              \* candidates for the engine, each with its snapshot
    timeouts, stop      \* bound on failed exchanges; the shutdown flag

headers_vars == <<chain, remote, round, inbox, timeouts, stop>>

Block == DOMAIN Chains
index(b) == Len(Chains[b]) - 1
parent(b) == Chains[b][index(b)]

\* chain_info of a chain of the tree.
chain_info(c) ==
    [total_work |-> TotalWork[Last(c)], tip_timestamp |-> Timestamp[Last(c)], tip_hash |-> Last(c)]
Better(c, d) == is_better(chain_info(c), chain_info(d))

IdleRound == [pc |-> "idle"]

HeadersInit ==
    /\ chain = <<GenesisBlock>> /\ remote \in Remotes
    /\ round = IdleRound /\ inbox = << >>
    /\ timeouts = 0 /\ stop = FALSE

(***************************************************************************)
(* The header cache and the plan                                           *)
(***************************************************************************)
validate_header_pow(b) == Defect[b] # "pow"

\* How many headers of the batch are accepted: ingestion stops at the first
\* one without proof of work or without its parent.
ingest(batch, cache, local) ==
    LET linked(i) ==
            IF i > 1 THEN index(batch[i]) > 0 /\ parent(batch[i]) = batch[i - 1]
            ELSE index(batch[i]) = 0 \/ parent(batch[i]) \in cache \cup ToSet(local)
    IN  Max({k \in 0..Len(batch) : \A i \in 1..k : validate_header_pow(batch[i]) /\ linked(i)})

max_index(cache) == Max({index(b) : b \in cache})

tips(cache) == {b \in cache : \A c \in cache : index(c) = 0 \/ parent(c) # b}

\* The tips whose ancestry is in the cache and starts at the local genesis.
candidates(local, cache) ==
    {b \in tips(cache) : ToSet(Chains[b]) \subseteq cache /\ Chains[b][1] = local[1]}

best_of(branches) ==
    CHOOSE b \in branches : \A c \in branches \ {b} : Better(Chains[b], Chains[c])

\* Blocks of the longest prefix two chains share.
Shared(c, d) ==
    Max({k \in 0..Min({Len(c), Len(d)}) : \A i \in 1..k : c[i] = d[i]})

\* Mutant: the taller chain wins.
PlanByHeight(local, best) ==
    IF Len(Chains[best]) =< Len(local) THEN << >>
    ELSE SubSeq(Chains[best], Shared(Chains[best], local) + 1, Len(Chains[best]))

\* The headers to download, none when the best branch does not beat the local chain.
plan_best_branch(local, best) ==
    IF ~Better(Chains[best], local) THEN << >>
    ELSE SubSeq(Chains[best], Shared(Chains[best], local) + 1, Len(Chains[best]))

(***************************************************************************)
(* The round                                                               *)
(***************************************************************************)
headers_from_height(c, from) ==
    SubSeq(c, from + 1, Min({Len(c), from + MAX_HEADERS_BATCH}))

blocks_by_hashes(c, hashes) == SelectSeq(hashes, LAMBDA b : b \in ToSet(c))

\* sync_blockchain: the round takes its snapshot.
StartRound ==
    /\ ~stop /\ round.pc = "idle"
    /\ round' = [pc |-> "headers", local |-> chain, cache |-> {}, from |-> 0]
    /\ UNCHANGED <<chain, remote, inbox, timeouts, stop>>

\* Phase 1: one batch of headers; the phase ends with a short or a partly
\* accepted batch and fails when nothing of it is accepted.
GetHeaders ==
    /\ ~stop /\ round.pc = "headers"
    /\ \E batch \in {headers_from_height(remote, round.from)} :
       \E accepted \in {ingest(batch, round.cache, round.local)} :
       \E cache \in {round.cache \cup ToSet(SubSeq(batch, 1, accepted))} :
          \/ batch = << >> /\ round' = [round EXCEPT !.pc = "plan"]
          \/ batch # << >> /\ accepted = 0 /\ round' = IdleRound
          \/ /\ accepted > 0
             /\ round' = [round EXCEPT !.cache = cache, !.from = max_index(cache) + 1,
                              !.pc = IF MAX_HEADERS_BATCH = Len(batch) /\ accepted = Len(batch)
                                     THEN "headers" ELSE "plan"]
    /\ UNCHANGED <<chain, remote, inbox, timeouts, stop>>

\* Phase 2: fork choice over the headers.
Plan ==
    /\ round.pc = "plan"
    /\ \E branches \in {candidates(round.local, round.cache)} :
          \/ branches = {} /\ round' = IdleRound
          \/ /\ branches # {}
             /\ \E plan \in {plan_best_branch(round.local, best_of(branches))} :
                   round' = IF plan = << >> THEN IdleRound
                            ELSE [pc |-> "bodies", local |-> round.local, plan |-> plan,
                                  asked |-> 0, blocks |-> << >>]
    /\ UNCHANGED <<chain, remote, inbox, timeouts, stop>>

Assembled(r, blocks) == SubSeq(r.local, 1, Len(Chains[r.plan[1]]) - 1) \o blocks

\* The candidate goes to the engine; a full inbox drops it.
Enqueued(r, blocks) ==
    IF Len(inbox) < SYNC_INBOX_CAP
    THEN Append(inbox, [chain |-> Assembled(r, blocks), base |-> r.local]) ELSE inbox

\* Mutant: what came is enough.
GetBlocksUncounted ==
    /\ ~stop /\ round.pc = "bodies"
    /\ LET chunk == SubSeq(round.plan, round.asked + 1,
                           Min({Len(round.plan), round.asked + MAX_BLOCKS_BATCH}))
           blocks == round.blocks \o blocks_by_hashes(remote, chunk)
           asked == round.asked + Len(chunk)
       IN  \/ /\ asked < Len(round.plan)
              /\ round' = [round EXCEPT !.asked = asked, !.blocks = blocks] /\ UNCHANGED inbox
           \/ /\ asked = Len(round.plan)
              /\ inbox' = Enqueued(round, blocks) /\ round' = IdleRound
    /\ UNCHANGED <<chain, remote, timeouts, stop>>

\* One batch of bodies; the candidate is complete after the last, or the round
\* fails because the peer no longer had some of them.
GetBlocks ==
    /\ ~stop /\ round.pc = "bodies"
    /\ LET chunk == SubSeq(round.plan, round.asked + 1,
                           Min({Len(round.plan), round.asked + MAX_BLOCKS_BATCH}))
           blocks == round.blocks \o blocks_by_hashes(remote, chunk)
           asked == round.asked + Len(chunk)
       IN  \/ /\ asked < Len(round.plan)
              /\ round' = [round EXCEPT !.asked = asked, !.blocks = blocks] /\ UNCHANGED inbox
           \/ /\ asked = Len(round.plan) /\ Len(blocks) = Len(round.plan)
              /\ inbox' = Enqueued(round, blocks) /\ round' = IdleRound
           \/ /\ asked = Len(round.plan) /\ Len(blocks) # Len(round.plan)
              /\ round' = IdleRound /\ UNCHANGED inbox
    /\ UNCHANGED <<chain, remote, timeouts, stop>>

\* The connect, a read or a write fails or times out.
IoTimeout ==
    /\ round.pc # "idle" /\ timeouts < MaxTimeouts
    /\ timeouts' = timeouts + 1 /\ round' = IdleRound
    /\ UNCHANGED <<chain, remote, inbox, stop>>

\* The flag is seen before the next exchange.
Shutdown == ~stop /\ stop' = TRUE /\ UNCHANGED <<chain, remote, round, inbox, timeouts>>
ShutdownSeen ==
    /\ stop /\ round.pc # "idle" /\ round' = IdleRound
    /\ UNCHANGED <<chain, remote, inbox, timeouts, stop>>

(***************************************************************************)
(* The chains                                                              *)
(***************************************************************************)
Valid(c) == c = Chains[Last(c)] /\ \A i \in DOMAIN c : Defect[c[i]] = "none"

\* adopt_candidate: fork choice against the chain as it is now, then validation.
adopt_candidate(c) == Better(c, chain) /\ Valid(c)

Adopt ==
    /\ inbox # << >> /\ inbox' = Tail(inbox)
    /\ chain' = IF adopt_candidate(Head(inbox).chain) THEN Head(inbox).chain ELSE chain
    /\ UNCHANGED <<remote, round, timeouts, stop>>

\* Mining, gossip and other peers move either chain to a better one.
LocalAdvances(b) ==
    /\ Chains[b][1] = chain[1] /\ Valid(Chains[b]) /\ Better(Chains[b], chain)
    /\ chain' = Chains[b]
    /\ UNCHANGED <<remote, round, inbox, timeouts, stop>>

RemoteAdvances(b) ==
    /\ Chains[b][1] = remote[1] /\ Better(Chains[b], remote) /\ remote' = Chains[b]
    /\ UNCHANGED <<chain, round, inbox, timeouts, stop>>

HeadersNext ==
    \/ StartRound \/ GetHeaders \/ Plan \/ GetBlocks \/ IoTimeout \/ Shutdown \/ ShutdownSeen \/ Adopt
    \/ \E b \in Block : LocalAdvances(b) \/ RemoteAdvances(b)

\* The sync task is rescheduled every second, exchanges end, the engine drains.
HeadersFairness ==
    /\ WF_headers_vars(StartRound \/ GetHeaders \/ Plan \/ GetBlocks \/ ShutdownSeen)
    /\ WF_headers_vars(Adopt)

HeadersSpec == HeadersInit /\ [][HeadersNext]_headers_vars /\ HeadersFairness

(***************************************************************************)
(* Properties                                                              *)
(***************************************************************************)
\* The chains are paths of the tree and a round holds what its phase needs.
HeadersTypeOK ==
    /\ chain = Chains[Last(chain)] /\ remote = Chains[Last(remote)]
    /\ round.pc \in {"idle", "headers", "plan", "bodies"}
    /\ round.pc \in {"headers", "plan"} => round.cache \subseteq Block /\ round.from =< Len(remote)
    /\ round.pc = "bodies" => Len(round.blocks) =< round.asked /\ round.asked < Len(round.plan)
    /\ Len(inbox) =< SYNC_INBOX_CAP

\* Whatever the peer's chain did between the exchanges, a candidate is a linked
\* chain from the local genesis whose headers carry proof of work, and it beats
\* the chain the round planned against.
CandidatesSound ==
    \A i \in DOMAIN inbox :
        LET c == inbox[i].chain
        IN  /\ c[1] = inbox[i].base[1] /\ c = Chains[Last(c)]
            /\ \A k \in DOMAIN c : validate_header_pow(c[k])
            /\ Better(c, inbox[i].base)

\* No body is requested that the snapshot has.
OnlyMissingRequested ==
    round.pc = "bodies" => ToSet(round.plan) \cap ToSet(round.local) = {}

\* A candidate that was planned against an older chain never takes the node
\* back: the local chain changes for a better valid one only.
NeverBackwards == [][chain' # chain => Better(chain', chain) /\ Valid(chain')]_headers_vars

\* Sync converges: when a block of the peer's chain heads a valid chain better
\* than the local one, the node ends up with one at least as good, although
\* rounds fail, candidates are dropped, both chains move and the peer's headers
\* stop being valid further up.  A body that fails validation is the exception:
\* the branch is refused as a whole.
SyncConverges ==
    \A b \in {c \in Block : Valid(Chains[c])} :
        (b \in ToSet(remote) /\ Chains[b][1] = GenesisBlock /\ Better(Chains[b], chain))
        ~> (stop \/ ~Better(Chains[b], chain) \/ b \notin ToSet(remote)
            \/ \E i \in DOMAIN remote : Defect[remote[i]] = "body")
==============================================================================
