----------------------------- MODULE Durability -----------------------------
(***************************************************************************)
(* The nodes of Network with a database: save_state, crashes and           *)
(* open_blockchain.  The nodes in DbNodes were opened on a LevelDB database *)
(* that holds the genesis chain and its balances; the others never die.    *)
(*                                                                         *)
(* save_state holds the chain's lock but is not one write: it puts each    *)
(* pending transaction whose key sender:nonce is absent, then the chain,   *)
(* then the balances.  saving says what the next put is.  add_block and    *)
(* adopt_candidate release the lock before they call save_state, so other  *)
(* operations and crashes may come in between; mine_block does not.        *)
(***************************************************************************)
EXTENDS Network

CONSTANTS
    DbNodes,           \* nodes that crash and restart from their database
    MaxCrashes         \* bound on crashes

ASSUME CrashBounds == DbNodes \subseteq Nodes /\ MaxCrashes \in Nat

VARIABLES
    disk,      \* the database: transaction keys, "chain" and "balances"
    saving,    \* per node: the next put of save_state, "idle" or "down"
    saved,     \* per node: the chain of the last save_state that completed
    torn,      \* nodes with a torn database (died between the puts of chain
               \* and balances), and nodes that run on one (history)
    crashes

dvars == <<node, chains, now, disk, saving, saved, torn, crashes>>

DurableInit ==
    /\ Init
    /\ disk = [n \in DbNodes |-> [txs |-> {}, chain |-> node[n].chain,
                                     balances |-> node[n].balances]]
    /\ saving = [n \in Nodes |-> "idle"]
    /\ saved = [n \in DbNodes |-> node[n].chain]
    /\ torn = [disk |-> {}, memory |-> {}]
    /\ crashes = 0

\* Operations of a node need its lock; what a node that never dies saves is not
\* looked at.
LockFree(n) == saving[n] = "idle"

Receive(n) ==
    /\ LockFree(n)
    /\ \/ \E tx \in Transaction : ApplyTx(n, tx)
       \/ \E chain \in chains : AddBlock(n, chain)
    /\ UNCHANGED <<disk, saving, saved, torn, crashes>>

\* Adoption installs the balances it rebuilt from the candidate.
Adopt(n, chain) ==
    /\ LockFree(n)
    /\ AdoptCandidate(n, chain)
    /\ torn' = [torn EXCEPT !.memory = @ \ {n}]
    /\ UNCHANGED <<disk, saving, saved, crashes>>

\* mine_block calls save_state before it releases the lock.
Mine(n) ==
    /\ LockFree(n)
    /\ MineBlock(n)
    /\ saving' = IF n \in DbNodes THEN [saving EXCEPT ![n] = "txs"] ELSE saving
    /\ UNCHANGED <<disk, saved, torn, crashes>>

\* The caller of add_block or adopt_candidate takes the lock again to save.
StartSave(n) ==
    /\ LockFree(n)
    /\ n \in DbNodes
    /\ node[n].chain # saved[n]
    /\ saving' = [saving EXCEPT ![n] = "txs"]
    /\ UNCHANGED <<node, chains, now, disk, saved, torn, crashes>>

Key(tx) == <<tx.from, tx.nonce>>
Unsaved(n) ==
    {tx \in node[n].pool.txs : \A t \in disk[n].txs : Key(t) # Key(tx)}

PutTx(n) ==
    /\ saving[n] = "txs"
    /\ \E tx \in Unsaved(n) : disk' = [disk EXCEPT ![n].txs = @ \cup {tx}]
    /\ UNCHANGED <<node, chains, now, saving, saved, torn, crashes>>

PutChain(n) ==
    /\ saving[n] = "txs"
    /\ Unsaved(n) = {}
    /\ disk' = [disk EXCEPT ![n].chain = node[n].chain]
    /\ saving' = [saving EXCEPT ![n] = "balances"]
    /\ UNCHANGED <<node, chains, now, saved, torn, crashes>>

\* Mutant: the balances are not written.
MutantBalancesNotPut(n) ==
    /\ saving[n] = "balances"
    /\ saving' = [saving EXCEPT ![n] = "idle"]
    /\ saved' = [saved EXCEPT ![n] = node[n].chain]
    /\ UNCHANGED <<node, chains, now, disk, torn, crashes>>

\* The remaining puts and the flush: contract storage and difficulty, which do
\* not change here, follow the balances.
PutBalances(n) ==
    /\ saving[n] = "balances"
    /\ disk' = [disk EXCEPT ![n].balances = node[n].balances]
    /\ saving' = [saving EXCEPT ![n] = "idle"]
    /\ saved' = [saved EXCEPT ![n] = node[n].chain]
    /\ torn' = IF n \in torn.memory THEN torn ELSE [torn EXCEPT !.disk = @ \ {n}]
    /\ UNCHANGED <<node, chains, now, crashes>>

Crash(n) ==
    /\ n \in DbNodes
    /\ crashes < MaxCrashes
    /\ saving[n] # "down"
    /\ saving' = [saving EXCEPT ![n] = "down"]
    /\ torn' = IF saving[n] = "balances"
               THEN [torn EXCEPT !.disk = @ \cup {n}] ELSE torn
    /\ crashes' = crashes + 1
    /\ UNCHANGED <<node, chains, now, disk, saved>>

\* Keys come back in the order of the database, sorted by sender and nonce (as
\* text, which is the numeric order for one-digit nonces); every transaction
\* is offered to the pool with a default (empty) account.
LoadedOrders(n) ==
    {order \in orders(disk[n].txs) :
        \A i, j \in DOMAIN order :
            (i < j /\ order[i].from = order[j].from) =>
                order[i].nonce < order[j].nonce}

\* Mutant: a restart begins with genesis again.
MutantRestartFresh(n) ==
    /\ saving[n] = "down"
    /\ node' = [node EXCEPT ![n] = create_genesis_block]
    /\ saving' = [saving EXCEPT ![n] = "txs"]
    /\ UNCHANGED <<chains, now, disk, saved, torn, crashes>>

\* open_blockchain: pool, chain and balances are loaded as they are, without
\* a replay of the chain, and saved again.
Restart(n) ==
    /\ saving[n] = "down"
    /\ \E order \in LoadedOrders(n) :
          node' = [node EXCEPT ![n] =
             [chain |-> disk[n].chain,
              balances |-> disk[n].balances,
              pool |-> fold(LAMBDA p, tx : insert(p, tx, EmptyAccount),
                                EmptyPool, order)]]
    /\ saving' = [saving EXCEPT ![n] = "txs"]
    /\ torn' = [torn EXCEPT !.memory =
                   IF n \in torn.disk THEN @ \cup {n} ELSE @ \ {n}]
    /\ UNCHANGED <<chains, now, disk, saved, crashes>>

Clock == Tick /\ UNCHANGED <<disk, saving, saved, torn, crashes>>

DurableNext ==
    \/ \E n \in Nodes :
          \/ Receive(n) \/ Mine(n) \/ StartSave(n)
          \/ \E chain \in chains : Adopt(n, chain)
          \/ PutTx(n) \/ PutChain(n) \/ PutBalances(n)
          \/ Crash(n) \/ Restart(n)
    \/ Clock

DurableSpec == DurableInit /\ [][DurableNext]_dvars

CanAdopt(n) ==
    LockFree(n) /\ \E m \in Nodes : ShouldAdopt(node[n], node[m].chain, now)

\* save_state runs to its end, a dead node is started again, and sync rounds
\* are repeated by every node with every peer (the ticker of run_async), so a
\* chain that a node keeps offering is eventually tried.  This is weak fairness
\* with the enabling conditions spelled out.
DurableFairness ==
    \A n \in Nodes :
        /\ \/ []<>(saving[n] = "idle")
           \/ []<><<PutTx(n) \/ PutChain(n) \/ PutBalances(n) \/ Restart(n)>>_dvars
        /\ \/ []<>(~CanAdopt(n))
           \/ []<><<\E m \in Nodes : Adopt(n, node[m].chain)>>_dvars

DurableFairSpec == DurableSpec /\ DurableFairness

-----------------------------------------------------------------------------
\* saving is a known phase, and only a node of DbNodes saves or is down.
DurableTypeOK ==
    /\ saving \in [Nodes -> {"idle", "txs", "balances", "down"}]
    /\ \A n \in Nodes \ DbNodes : saving[n] = "idle"
    /\ torn \in [disk: SUBSET DbNodes, memory: SUBSET DbNodes]
    /\ crashes \in 0 .. MaxCrashes

\* A running node has the balances its chain yields, through any mixture of
\* commits, saves, crashes and restarts.  Only a crash between the puts of the
\* chain and of the balances can break this, and a reorganisation that is saved
\* repairs it.
RunningCacheMatchesChain ==
    \A n \in Nodes \ torn.memory :
        saving[n] # "down" => Yields(node[n].chain, node[n].balances)

\* docs/stage0/INVARIANTS_ENFORCED.md, invariant 1: "All validity derived from
\* chain; `balances` is cache only": the same without the exception.
BalancesAreCacheOnly ==
    \A n \in Nodes :
        saving[n] # "down" => Yields(node[n].chain, node[n].balances)

\* What a completed save_state wrote is never lost: the chain a restart would
\* load is the last saved one or one that beat it, through any number of
\* interleaved commits, unfinished saves and crashes.
SavedChainSurvives ==
    \A n \in DbNodes :
        \/ disk[n].chain = saved[n]
        \/ is_better(chain_info(disk[n].chain), chain_info(saved[n]))

\* Once a node has seen the better of two chains it stays with it, the order
\* of fork choice is total, and crashes are repaired: if nodes are restarted
\* and sync rounds go on, all nodes run again and end up with one chain, unless
\* one of them works on a torn database.
RecoveredConvergence ==
    <>[](torn.memory = {} =>
             \A n, m \in Nodes :
                 saving[n] # "down" /\ node[n].chain = node[m].chain)

=============================================================================
