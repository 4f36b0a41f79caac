------------------------------ MODULE Network ------------------------------
(***************************************************************************)
(* Several nodes that run the code of Node: transactions are handed to any *)
(* node at any time and any number of times, each node mines its own pool, *)
(* and what one node mined reaches the others late, repeatedly, in any     *)
(* order or never, as a block (add_block) or as a whole chain              *)
(* (adopt_candidate, the end of a sync round; the chain may be a snapshot  *)
(* that its owner has meanwhile left).  Every chain in the system was      *)
(* mined by a node that follows the code.                                  *)
(***************************************************************************)
EXTENDS Node

CONSTANTS
    Nodes,
    FreshNodes,   \* nodes that open_blockchain started on an empty database
    MaxHeight,    \* bound on the height of the chains
    MaxBlocks,    \* bound on the number of blocks ever mined
    MaxTime       \* bound on the clock

ASSUME NetworkBounds ==
    /\ MaxHeight \in Nat /\ MaxBlocks \in Nat /\ MaxTime \in Nat
    /\ FreshNodes \subseteq Nodes

VARIABLES
    node,     \* the Blockchain of each node
    chains,   \* every chain a node had at its tip after mining, ever
    now       \* the clock of all nodes

vars == <<node, chains, now>>

Init ==
    /\ node = [n \in Nodes |-> IF n \in FreshNodes
                               THEN install_fresh_genesis
                               ELSE create_genesis_block]
    /\ chains = {}
    /\ now = 1

\* apply_tx: a wallet or a gossip message brings tx to node n.
ApplyTx(n, tx) ==
    /\ node' = [node EXCEPT ![n] = add_transaction(@, tx)]
    /\ node' # node
    /\ UNCHANGED <<chains, now>>

\* mine_block holds the write lock from the selection of the transactions to
\* the commit.  Each mined block has a hash of its own.
MineBlock(n) ==
    /\ node[n].pool.txs # {}
    /\ Len(node[n].chain) <= MaxHeight
    /\ Cardinality(chains) < MaxBlocks
    /\ \E txs \in get_pending(node[n].pool),
          miner \in MinerAddresses(node[n]),
          hash \in (2 .. MaxBlocks + 1) \ {last(c).hash : c \in chains} :
         LET block == NewBlock(node[n], txs, miner, hash, now)
         IN  /\ Mineable(node[n], block)
             /\ CommitResult(node[n], block, now).ok
             /\ node' = [node EXCEPT ![n] = commit_block(@, block, now)]
             /\ chains' = chains \cup {Append(node[n].chain, block)}
    /\ UNCHANGED now

\* add_block: the tip of some chain arrives at n.
AddBlock(n, chain) ==
    /\ CommitResult(node[n], last(chain), now).ok
    /\ node' = [node EXCEPT ![n] = commit_block(@, last(chain), now)]
    /\ UNCHANGED <<chains, now>>

\* adopt_candidate: a sync round of n ends with some chain.
AdoptCandidate(n, chain) ==
    /\ ShouldAdopt(node[n], chain, now)
    /\ \E order \in orders(node[n].pool.txs) :
          node' = [node EXCEPT ![n] = try_adopt_candidate(@, chain, order, now)]
    /\ UNCHANGED <<chains, now>>

Tick == now < MaxTime /\ now' = now + 1 /\ UNCHANGED <<node, chains>>

Next ==
    \/ \E n \in Nodes :
          \/ \E tx \in Transaction : ApplyTx(n, tx)
          \/ MineBlock(n)
          \/ \E chain \in chains : AddBlock(n, chain) \/ AdoptCandidate(n, chain)
    \/ Tick

Spec == Init /\ [][Next]_vars

-----------------------------------------------------------------------------
\* Chains consist of linked blocks and pools and caches have their types.
TypeOK ==
    /\ \A n \in Nodes :
          /\ Head(node[n].chain) = GenesisBlock
          /\ \A i \in 2 .. Len(node[n].chain) :
                /\ node[n].chain[i].index = i - 1
                /\ node[n].chain[i].previous_hash = node[n].chain[i - 1].hash
          /\ node[n].balances \in [Addr -> [balance: 0 .. BalanceMax, nonce: Nat]]
          /\ node[n].pool \in Pools
    /\ now \in 1 .. MaxTime

\* The chain passes validation and its blocks lead to the state.
Yields(chain, state) ==
    LET result == rebuild_from_chain(chain, now)
    IN  result.ok /\ result.state = state

\* The state cache is a cache: whatever mixture of mined blocks, received
\* blocks and reorganisations a node went through, its balances are the ones
\* reconstruction from its chain yields, and the chain passes validation.
CacheMatchesChain == \A n \in Nodes : Yields(node[n].chain, node[n].balances)

\* A block mined on some tip is accepted by every node on that tip: two nodes
\* with equal chains agree on the state root, the reward and the transactions,
\* although their pools and their histories differ.
TipBlocksAccepted ==
    \A n \in Nodes, chain \in chains :
        node[n].chain = SubSeq(chain, 1, Len(chain) - 1) => CommitResult(node[n], last(chain), now).ok

\* A node leaves its chain only for one that wins fork choice against it:
\* neither a late block nor a stale snapshot ever sets a node back.
ChainsOnlyImprove ==
    [][ \A n \in Nodes :
          node'[n].chain # node[n].chain =>
              is_better(chain_info(node'[n].chain), chain_info(node[n].chain)) ]_vars

\* The maps of every pool agree through commits of foreign blocks and through
\* the rebuilding of the pool in a reorganisation.
PoolsConsistent == \A n \in Nodes : Consistent(node[n].pool)

\* docs/spec/consensus.tla, NoDoubleSpend: "No two transfers from the same
\* sender reuse a nonce anywhere in the chain".
NoDoubleSpend ==
    \A n \in Nodes :
        \A i, j \in 2 .. Len(node[n].chain) :
            i < j => \A t \in BlockTxs(node[n].chain[i]),
                        u \in BlockTxs(node[n].chain[j]) :
                          ~(t.from = u.from /\ t.nonce = u.nonce)

\* docs/stage0/INVARIANTS_ENFORCED.md, invariant 1: "All validity derived from
\* chain; `balances` is cache only".  The chain a node works on must pass the
\* validation every other node puts it through.
ValidityDerivedFromChain ==
    \A n \in Nodes : rebuild_from_chain(node[n].chain, now).ok

=============================================================================
