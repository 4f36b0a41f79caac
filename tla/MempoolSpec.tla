---------------------------- MODULE MempoolSpec ----------------------------
(***************************************************************************)
(* One node's pool over time: wallets and peers insert transactions, and   *)
(* every committed block moves the accounts of the senders and takes the   *)
(* block's own transactions out of the pool.                               *)
(*                                                                         *)
(* Two kinds of block reach a pool.  One the node mined itself holds       *)
(* transactions of the pool; which of them, and in which order, is the     *)
(* iteration order of a HashMap.  One a peer mined may hold others.        *)
(***************************************************************************)
EXTENDS Mempool

CONSTANTS
    Balance,          \* balances an account may have
    BlockCapacity     \* transactions a mined block takes from the pool (1000)

ASSUME BalanceAssumption == Balance \subseteq Nat
ASSUME BlockCapacityAssumption == BlockCapacity \in Nat \ {0}

VARIABLES
    pool,       \* the Mempool of the node
    account,    \* the sender's account in the state cache: nonce and balance
    mined,      \* nonces of each sender in the chain (history)
    alone       \* no block of a peer was committed so far (history)

vars == <<pool, account, mined, alone>>

Account == [nonce: Nat, balance: Balance]

Init ==
    /\ pool = EmptyPool
    /\ account \in [Sender -> [nonce: {0}, balance: Balance]]
    /\ mined = [s \in Sender |-> {}]
    /\ alone = TRUE

\* add_transaction on a transaction that opens a new slot.
InsertNew(tx) ==
    /\ CanAccept(pool, tx, account[tx.from])
    /\ pool' = insert(pool, tx, account[tx.from])
    /\ UNCHANGED <<account, mined, alone>>

\* add_transaction on a transaction that replaces a pending one (RBF).
InsertReplacement(tx) ==
    /\ CanReplace(pool, tx, account[tx.from])
    /\ pool' = insert(pool, tx, account[tx.from])
    /\ UNCHANGED <<account, mined, alone>>

\* commit_block: the state machine counts the transactions of each sender
\* into the account nonce and moves balances (here: to any value), then the
\* txids of the block leave the pool.
CommitBlock(block_txs) ==
    /\ \E b \in [Sender -> Balance] :
          account' = [s \in Sender |->
             [nonce |-> account[s].nonce
                          + Cardinality({t \in block_txs : t.from = s}),
              balance |-> b[s]]]
    /\ pool' = remove(pool, block_txs)
    /\ mined' = [s \in Sender |->
                   mined[s] \cup {t.nonce : t \in {u \in block_txs : u.from = s}}]

\* mine_block: get_pending(1000) takes any BlockCapacity pending transactions.
CommitOwnBlock ==
    \E block_txs \in SUBSET pool.txs :
        /\ block_txs # {}
        /\ Cardinality(block_txs) <= BlockCapacity
        /\ CommitBlock(block_txs)
        /\ UNCHANGED alone

\* add_block: a block of a peer; validate_and_apply verifies signatures and
\* networks.  Account nonces are capped below U64Max.
CommitPeerBlock ==
    \E block_txs \in SUBSET {t \in Transaction :
                                verify_transaction(t) /\ t.chain_id = ChainId} :
        /\ IsFiniteSet(block_txs) /\ Cardinality(block_txs) <= BlockCapacity
        /\ \A s \in Sender : account[s].nonce + BlockCapacity <= U64Max
        /\ CommitBlock(block_txs)
        /\ alone' = FALSE

Insert == \E tx \in Transaction : InsertNew(tx) \/ InsertReplacement(tx)

Next == Insert \/ CommitOwnBlock \/ CommitPeerBlock

Spec == Init /\ [][Next]_vars

-----------------------------------------------------------------------------
\* The state stays within its types: what the fields of Mempool can hold.
TypeOK ==
    /\ pool \in Pools
    /\ account \in [Sender -> Account]
    /\ mined \in [Sender -> SUBSET Nonce]
    /\ alone \in BOOLEAN

\* The three maps of the pool agree at every moment: a slot holds a pending
\* transaction of that sender and nonce, every pending transaction is in its
\* slot, and exactly the pending transactions have a generation.  insert
\* relies on it ("mempool invariant: by_sender entry must be in txs"), and it
\* has to survive replacements that evict a tail of slots and blocks that
\* take transactions out of the middle.
IndexConsistent == Consistent(pool)

\* The pool never exceeds MAX_PENDING_TXS although the replacement path does
\* not look at the capacity, and no pending transaction is a replacement
\* beyond MAX_RBF_REPLACEMENTS.
WithinLimits ==
    /\ Cardinality(pool.txs) <= MAX_PENDING_TXS
    /\ \A t \in Transaction :
          pool.generations[t] <= MAX_RBF_REPLACEMENTS

PendingNonces(s) == {n \in Nonce : pool.by_sender[s][n] # NoTx}

\* As long as a node mines alone, the nonces of a sender in the chain and in the
\* pool are disjoint and together are 1 .. account.nonce + pending: no nonce
\* is used twice and none is skipped, although a block takes pending
\* transactions in any order and block application checks no nonce.  This is
\* why insert may count pending slots instead of looking at them.
NoncesContiguous ==
    alone => \A s \in Sender :
        /\ mined[s] \cap PendingNonces(s) = {}
        /\ Cardinality(mined[s]) = account[s].nonce
        /\ mined[s] \cup PendingNonces(s)
              = 1 .. account[s].nonce + Cardinality(PendingNonces(s))

\* An insert evicts only transactions of the inserting sender, from the nonce
\* of the new transaction on (at the largest nonce the range wraps), and only
\* when it puts a smaller (higher feerate) transaction into the slot of one of
\* them.  Whatever blocks came in between, no other sender loses anything.
EvictionJustified ==
    [][ (account' = account /\ mined' = mined) =>
          \A old \in pool.txs \ pool'.txs :
              \E new \in pool'.txs \ pool.txs :
                  /\ old.from = new.from
                  /\ old.nonce >= new.nonce \/ new.nonce = U64Max
                  /\ \E c \in pool.txs \ pool'.txs :
                        /\ c.from = new.from
                        /\ c.nonce = new.nonce
                        /\ new.len < c.len ]_vars

=============================================================================
