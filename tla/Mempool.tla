------------------------------- MODULE Mempool -------------------------------
(***************************************************************************)
(* The pool of pending transactions, src/mempool/mod.rs, as operators on a *)
(* pool value.  A transaction is identified with its txid: the txid is a   *)
(* commitment to the canonical bytes, so two transactions with one txid    *)
(* are equal.                                                              *)
(*                                                                         *)
(*   txs          the keys of HashMap<TxId, Transaction>                   *)
(*   by_sender    HashMap<String, BTreeMap<u64, TxId>>; a sender without   *)
(*                an entry is a sender whose every slot is NoTx            *)
(*   generations  HashMap<TxId, u32>; an absent key is NoGeneration        *)
(*                                                                         *)
(* Every operator takes the pool and the arguments of the Rust method and  *)
(* yields what the method leaves behind, so that the modules of the node   *)
(* can call the same code in a block commit, a reorganisation or a reload. *)
(***************************************************************************)
EXTENDS Integers, FiniteSets, FiniteSetsExt

CONSTANTS
    Sender,                \* addresses that own an account
    Transaction,           \* every transaction a wallet may hand to the node
    NoTx,                  \* an unused nonce slot
    ChainId,               \* the network of this node
    U64Max,                \* u64::MAX
    MAX_PENDING_TXS,       \* capacity of the pool
    MAX_RBF_REPLACEMENTS   \* length limit of a chain of replacements

Nonce == 0 .. U64Max

\* What insert reads of a transaction: sender, nonce, value and fee, the
\* length of the signed encoding, whether the signature recovers the sender
\* and the network the transaction was signed for.
ASSUME TransactionFields ==
    \A tx \in Transaction :
        /\ tx.from \in Sender /\ tx.nonce \in Nonce
        /\ tx.amount \in 0 .. U64Max /\ tx.fee \in 0 .. U64Max
        /\ tx.len \in Nat \ {0} /\ tx.signed \in BOOLEAN
ASSUME NoTxIsNoTransaction == NoTx \notin Transaction
ASSUME U64MaxAssumption == U64Max \in Nat \ {0}
ASSUME PoolLimits ==
    MAX_PENDING_TXS \in Nat \ {0} /\ MAX_RBF_REPLACEMENTS \in Nat

Slots == [Nonce -> Transaction \cup {NoTx}]

NoGeneration == -1

Pools ==
    [txs: SUBSET Transaction,
     by_sender: [Sender -> Slots],
     generations: [Transaction -> Nat \cup {NoGeneration}]]

\* Release builds wrap u64 additions (Cargo.toml sets no overflow-checks).
Wrap64(n) == n % (U64Max + 1)
Required(tx) == Wrap64(tx.amount + tx.fee)

EmptyPool ==
    [txs |-> {},
     by_sender |-> [s \in Sender |-> [n \in Nonce |-> NoTx]],
     generations |-> [t \in Transaction |-> NoGeneration]]

RBF_BPS_DENOMINATOR == 10000
RBF_MIN_DELTA_BPS == 3000

\* The replacement pays a feerate (here 1/length) higher by the minimum delta.
feerate_bump_ok(old, new) ==
    old.len * RBF_BPS_DENOMINATOR
        >= new.len * (RBF_BPS_DENOMINATOR + RBF_MIN_DELTA_BPS)

\* The pending transaction in the slot of tx and all later ones of its sender
\* (the lower end of the range wraps).
find_replaceable(pool, tx) ==
    LET slots == pool.by_sender[tx.from]
    IN  IF slots[tx.nonce] = NoTx
        THEN {}
        ELSE {slots[n] : n \in {tx.nonce} \cup {m \in Nonce :
                                     m >= Wrap64(tx.nonce + 1)}} \ {NoTx}

\* The slots of a sender that remain once the excluded transactions are gone.
RemainingSlots(pool, s, excluded) ==
    {n \in Nonce : pool.by_sender[s][n] \notin excluded \cup {NoTx}}

PendingSpent(pool, s, excluded) ==
    Wrap64(MapThenSumSet(LAMBDA n : Required(pool.by_sender[s][n]),
                         {n \in RemainingSlots(pool, s, excluded) :
                              pool.by_sender[s][n] \in pool.txs}))

\* Mutant: gaps are accepted.
MutantNonceGaps(tx_nonce, account_nonce) == tx_nonce > account_nonce

\* core consensus::validate_nonce; saturation and checked_add make the sum
\* fail exactly when account_nonce + 1 does not fit a u64.
validate_nonce(tx_nonce, account_nonce) == tx_nonce = account_nonce + 1

SaturatingSub(a, b) == IF a > b THEN a - b ELSE 0

validate_against_pool(pool, tx, account, excluded) ==
    /\ validate_nonce(tx.nonce,
           account.nonce + Cardinality(RemainingSlots(pool, tx.from, excluded)))
    /\ Required(tx)
         <= SaturatingSub(account.balance, PendingSpent(pool, tx.from, excluded))

store(pool, tx, generation) ==
    [txs |-> pool.txs \cup {tx},
     by_sender |-> [pool.by_sender EXCEPT ![tx.from][tx.nonce] = tx],
     generations |-> [pool.generations EXCEPT ![tx] = generation]]

\* Mutant: the sender's slot is not freed.
MutantRemoveKeepsSlot(pool, ids) ==
    [txs |-> pool.txs \ ids,
     by_sender |-> pool.by_sender,
     generations |->
        [t \in Transaction |->
            IF t \in ids THEN NoGeneration ELSE pool.generations[t]]]

\* Mempool::remove called on each of ids.  Each call frees the slot of the
\* sender and nonce of the transaction it takes out of txs.
remove(pool, ids) ==
    [txs |-> pool.txs \ ids,
     by_sender |->
        [s \in Sender |-> [n \in Nonce |->
            IF \E t \in ids \cap pool.txs : t.from = s /\ t.nonce = n
            THEN NoTx ELSE pool.by_sender[s][n]]],
     generations |->
        [t \in Transaction |->
            IF t \in ids THEN NoGeneration ELSE pool.generations[t]]]

verify_transaction(tx) == tx.signed

\* The checks insert makes before it looks at conflicts.
Admissible(pool, tx) ==
    /\ tx \notin pool.txs
    /\ verify_transaction(tx)
    /\ tx.chain_id = ChainId

CanAccept(pool, tx, account) ==
    /\ Admissible(pool, tx)
    /\ find_replaceable(pool, tx) = {}
    /\ Cardinality(pool.txs) < MAX_PENDING_TXS
    /\ validate_against_pool(pool, tx, account, {})

Conflict(pool, tx) == pool.by_sender[tx.from][tx.nonce]

NextGeneration(pool, tx) ==
    1 + (IF pool.generations[Conflict(pool, tx)] # NoGeneration
         THEN pool.generations[Conflict(pool, tx)] ELSE 0)

CanReplace(pool, tx, account) ==
    /\ Admissible(pool, tx)
    /\ find_replaceable(pool, tx) # {}
    /\ feerate_bump_ok(Conflict(pool, tx), tx)
    /\ NextGeneration(pool, tx) <= MAX_RBF_REPLACEMENTS
    /\ validate_against_pool(pool, tx, account, find_replaceable(pool, tx))

Accepted(pool, tx) == store(pool, tx, 0)

Replaced(pool, tx) ==
    store(remove(pool, find_replaceable(pool, tx)), tx,
          NextGeneration(pool, tx))

\* Mempool::insert: the pool after the call; a refused transaction leaves it.
insert(pool, tx, account) ==
    IF CanAccept(pool, tx, account) THEN Accepted(pool, tx)
    ELSE IF CanReplace(pool, tx, account) THEN Replaced(pool, tx)
    ELSE pool

-----------------------------------------------------------------------------
\* The three maps agree: a slot holds a pending transaction of that sender
\* and nonce, every pending transaction is in its slot, and exactly the
\* pending transactions have a generation.
Consistent(pool) ==
    /\ \A s \in Sender, n \in Nonce :
          pool.by_sender[s][n] # NoTx =>
              /\ pool.by_sender[s][n] \in pool.txs
              /\ pool.by_sender[s][n].from = s
              /\ pool.by_sender[s][n].nonce = n
    /\ \A t \in pool.txs : pool.by_sender[t.from][t.nonce] = t
    /\ \A t \in Transaction :
          t \in pool.txs <=> pool.generations[t] # NoGeneration

=============================================================================
