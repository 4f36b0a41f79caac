-------------------------------- MODULE Node --------------------------------
(***************************************************************************)
(* The chain of one node and what it does to it, src/blockchain: a node is *)
(* a record of chain, state cache (balances) and mempool (pool), and each  *)
(* operator is a method of Blockchain run under the facade's write lock.   *)
(*                                                                         *)
(* A block carries the header fields the rules look at.  hash is the       *)
(* proof-of-work hash: unique per block, and ordered, because the last     *)
(* tie-break of fork choice compares hashes.  state_root is the committed  *)
(* state itself, since the Merkle root is a commitment to it.  The chains  *)
(* stay below the first retarget height, where all targets are equal and   *)
(* cumulative work is the number of blocks.                                *)
(***************************************************************************)
EXTENDS Ledger, Mempool, ForkChoice

CONSTANTS
    holder,            \* receiver of the genesis allocation
    minerAddr,         \* the address "miner", used when the cache is empty
    GenesisAmount,
    BlockCapacity,     \* argument of get_pending in mine_block (1000)
    MAX_FUTURE_TIME

ASSUME NodeConstants ==
    /\ holder \in Addr /\ minerAddr \in Addr /\ Sender \subseteq Addr
    /\ GenesisAmount \in Nat /\ GenesisAmount <= BalanceMax
    /\ BlockCapacity \in Nat \ {0}
    /\ MAX_FUTURE_TIME \in Nat

NoHash == 0

coinbase(to, amount) ==
    [is_coinbase |-> TRUE, from |-> to, to |-> to, amount |-> amount,
     signed |-> TRUE, chain_id |-> ChainId]

GenesisBlock ==
    [index |-> 0, previous_hash |-> NoHash, hash |-> 1, timestamp |-> 0,
     transactions |-> <<coinbase(holder, GenesisAmount)>>,
     state_root |-> EmptyState]

-----------------------------------------------------------------------------
(* Validation *)

MEDIAN_TIME_WINDOW == 11

\* Median of the last MEDIAN_TIME_WINDOW timestamps: the sort picks the one
\* with times.len() / 2 elements before it, which is the least that more than
\* that many do not exceed.
median_time_past(chain) ==
    LET window == Max({1, Len(chain) - MEDIAN_TIME_WINDOW + 1}) .. Len(chain)
        AtMost(t) == Cardinality({i \in window : chain[i].timestamp <= t})
    IN  Min({t \in {chain[i].timestamp : i \in window} :
                AtMost(t) > Cardinality(window) \div 2})

validate_position(block, chain) ==
    IF block.index = 0
    THEN chain = <<>> /\ block.previous_hash = NoHash
    ELSE /\ chain # <<>>
         /\ block.index = Len(chain)
         /\ block.previous_hash = last(chain).hash

validate_timestamp(block, chain, now) ==
    block.index = 0 \/ /\ block.timestamp > median_time_past(chain)
                       /\ block.timestamp <= now + MAX_FUTURE_TIME

ValidHeader(block, chain, now) ==
    /\ validate_position(block, chain)
    /\ validate_timestamp(block, chain, now)
    /\ \A i \in DOMAIN block.transactions :
          /\ verify_transaction(block.transactions[i])
          /\ block.transactions[i].chain_id = ChainId

\* The block against its parent state: header rules, state transition, and
\* the committed state root (genesis may leave it zero).
validate_and_apply(parent_state, block, chain, now) ==
    IF ~ValidHeader(block, chain, now) THEN Fail(parent_state)
    ELSE LET result == apply_block(parent_state, block)
         IN  IF result.ok /\ block.index > 0 /\ block.state_root # result.state
             THEN Fail(parent_state)
             ELSE result

rebuild_from_chain(chain, now) ==
    fold(LAMBDA r, block :
                IF r.ok
                THEN validate_and_apply(r.state, block,
                                        SubSeq(chain, 1, block.index), now)
                ELSE r,
             Ok(EmptyState), chain)

-----------------------------------------------------------------------------
(* Opening a chain *)

\* create_genesis_block (open_local): the genesis block is applied.
create_genesis_block ==
    [chain |-> <<GenesisBlock>>,
     balances |-> apply_block(EmptyState, GenesisBlock).state,
     pool |-> EmptyPool]

\* install_fresh_genesis (open_blockchain on an empty database): transactions
\* of the sender "genesis", which the allocation is, are not credited.
install_fresh_genesis ==
    [chain |-> <<GenesisBlock>>, balances |-> EmptyState, pool |-> EmptyPool]

-----------------------------------------------------------------------------
(* Transactions, blocks and mining *)

add_transaction(node, tx) ==
    [node EXCEPT !.pool = insert(@, tx, node.balances[tx.from])]

BlockTxs(block) ==
    {block.transactions[i] : i \in DOMAIN block.transactions \ Coinbases(block)}

ChainTxs(chain) == UNION {BlockTxs(chain[i]) : i \in 2 .. Len(chain)}

CommitResult(node, block, now) ==
    validate_and_apply(node.balances, block, node.chain, now)

\* Mutant: the cache does not take the new state.
MutantCommitStaleCache(node, block, now) ==
    [chain |-> Append(node.chain, block),
     balances |-> node.balances,
     pool |-> remove(node.pool, BlockTxs(block))]

\* commit_block of a block that validates: the cache takes the new state, and
\* exactly the transactions of the block leave the pool.
commit_block(node, block, now) ==
    [chain |-> Append(node.chain, block),
     balances |-> CommitResult(node, block, now).state,
     pool |-> remove(node.pool, BlockTxs(block))]

\* get_pending takes the first BlockCapacity transactions of a HashMap: any
\* of them, in any order.
get_pending(pool) ==
    LET count == Min({BlockCapacity, Cardinality(pool.txs)})
    IN  UNION {orders(S) : S \in kSubset(count, pool.txs)}

\* Keys of the cache; mine_block pays the first one.
MinerAddresses(node) ==
    LET keys == {a \in Addr : node.balances[a] # EmptyAccount}
    IN  IF keys = {} THEN {minerAddr} ELSE keys

\* The header mine_block_inner seals: its state root is what applying the
\* selected transactions to the cache yields.
NewBlock(node, txs, miner, hash, now) ==
    LET height == Len(node.chain)
        reward == block_reward_at_height(height, total_supply(node.balances))
        body == <<coinbase(miner, reward)>> \o txs
        draft == [index |-> height, transactions |-> body]
    IN  [index |-> height, previous_hash |-> last(node.chain).hash,
         hash |-> hash,
         timestamp |-> Max({now, median_time_past(node.chain) + 1}),
         transactions |-> body,
         state_root |-> apply_block(node.balances, draft).state]

\* mine_block_inner gives up when the transactions do not apply to the cache.
Mineable(node, block) ==
    apply_block(node.balances,
                [index |-> block.index, transactions |-> block.transactions]).ok

-----------------------------------------------------------------------------
(* Fork choice and adoption *)

chain_info(chain) ==
    [total_work |-> Len(chain), tip_timestamp |-> last(chain).timestamp,
     tip_hash |-> last(chain).hash]

\* Mutant: a candidate of equal work is adopted.
MutantAdoptEqualWork(node, candidate, now) ==
    /\ Len(candidate) > 1
    /\ Len(candidate) >= Len(node.chain)
    /\ candidate # node.chain
    /\ rebuild_from_chain(candidate, now).ok

ShouldAdopt(node, candidate, now) ==
    /\ Len(candidate) > 1
    /\ is_better(chain_info(candidate), chain_info(node.chain))
    /\ rebuild_from_chain(candidate, now).ok

\* The new pool: the local transactions, in HashMap order, offered to an
\* empty pool against the rebuilt accounts; what the candidate confirms is
\* skipped and what insert refuses is dropped.
MergedPool(order, candidate, rebuilt) ==
    fold(LAMBDA merged, tx :
                IF tx \in ChainTxs(candidate) THEN merged
                ELSE insert(merged, tx, rebuilt[tx.from]),
             EmptyPool, order)

try_adopt_candidate(node, candidate, order, now) ==
    LET rebuilt == rebuild_from_chain(candidate, now).state
    IN  [chain |-> candidate, balances |-> rebuilt,
         pool |-> MergedPool(order, candidate, rebuilt)]

=============================================================================
