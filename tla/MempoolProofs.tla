--------------------------- MODULE MempoolProofs ---------------------------
(***************************************************************************)
(* The invariants of MempoolSpec for every set of senders, every set of    *)
(* transactions and every value of the limits.                             *)
(***************************************************************************)
EXTENDS MempoolSpec, FiniteSetTheorems, TLAPS

\* store keeps the fields in their types: what insert writes on acceptance.
LEMMA StoreType ==
    ASSUME NEW p \in Pools, NEW tx \in Transaction, NEW g \in Nat
    PROVE  store(p, tx, g) \in Pools
  BY TransactionFields, Zenon DEF store, Pools, Slots

\* remove keeps the fields in their types, whatever ids it is given.
LEMMA RemoveType ==
    ASSUME NEW p \in Pools, NEW ids
    PROVE  remove(p, ids) \in Pools
  BY ZenonT(30) DEF remove, Pools, Slots, NoGeneration

\* Storing into a free slot keeps the three maps of the pool in agreement.
LEMMA StoreConsistent ==
    ASSUME NEW p \in Pools, NEW tx \in Transaction, NEW g \in Nat,
           Consistent(p), p.by_sender[tx.from][tx.nonce] = NoTx
    PROVE  Consistent(store(p, tx, g))
  <1> DEFINE q == store(p, tx, g)
  <1>1. tx.from \in Sender /\ tx.nonce \in Nonce /\ tx # NoTx
    BY TransactionFields, NoTxIsNoTransaction, Zenon
  <1>2. /\ q.txs = p.txs \cup {tx}
        /\ q.generations = [p.generations EXCEPT ![tx] = g]
        /\ \A s \in Sender, n \in Nonce :
              q.by_sender[s][n] = IF s = tx.from /\ n = tx.nonce
                                  THEN tx ELSE p.by_sender[s][n]
    BY <1>1, Zenon DEF store, Pools, Slots
  <1>3. ASSUME NEW s \in Sender, NEW n \in Nonce, q.by_sender[s][n] # NoTx
        PROVE  /\ q.by_sender[s][n] \in q.txs
               /\ q.by_sender[s][n].from = s
               /\ q.by_sender[s][n].nonce = n
    BY <1>2, <1>3 DEF Consistent
  <1>4. ASSUME NEW t \in q.txs
        PROVE  q.by_sender[t.from][t.nonce] = t
    <2>1. t \in Transaction /\ t.from \in Sender /\ t.nonce \in Nonce
      BY <1>2, TransactionFields, Zenon DEF Pools
    <2>2. CASE t = tx
      BY <2>1, <2>2, <1>2, Zenon
    <2>3. CASE t # tx
      <3>1. p.by_sender[t.from][t.nonce] = t /\ t # NoTx
        BY <1>2, <2>1, <2>3, NoTxIsNoTransaction, Zenon DEF Consistent
      <3>2. ~(t.from = tx.from /\ t.nonce = tx.nonce)
        BY <3>1, Zenon
      <3> QED BY <3>1, <3>2, <2>1, <1>2, ZenonT(30)
    <2> QED BY <2>2, <2>3, Zenon
  <1>5. ASSUME NEW t \in Transaction
        PROVE  t \in q.txs <=> q.generations[t] # NoGeneration
    <2>1. q.generations[t] = IF t = tx THEN g ELSE p.generations[t]
      BY <1>2, Zenon DEF Pools
    <2> QED BY <2>1, <1>2 DEF Consistent, NoGeneration
  <1> HIDE DEF q
  <1>6. Consistent(q)
    BY <1>3, <1>4, <1>5, Zenon DEF Consistent
  <1> QED BY <1>6, Zenon DEF q

\* remove frees exactly the slots of the transactions it takes out, so the
\* maps agree after any set of removals: an RBF eviction or a committed block.
LEMMA RemoveConsistent ==
    ASSUME NEW p \in Pools, NEW ids, Consistent(p)
    PROVE  Consistent(remove(p, ids))
  <1> DEFINE q == remove(p, ids)
             Freed(s, n) == \E t \in ids \cap p.txs : t.from = s /\ t.nonce = n
  <1>1. /\ q.txs = p.txs \ ids
        /\ \A s \in Sender, n \in Nonce :
              q.by_sender[s][n] = IF Freed(s, n) THEN NoTx ELSE p.by_sender[s][n]
        /\ \A t \in Transaction :
              q.generations[t] = IF t \in ids THEN NoGeneration ELSE p.generations[t]
    BY Zenon DEF remove
  <1>2. ASSUME NEW s \in Sender, NEW n \in Nonce, q.by_sender[s][n] # NoTx
        PROVE  /\ q.by_sender[s][n] \in q.txs
               /\ q.by_sender[s][n].from = s
               /\ q.by_sender[s][n].nonce = n
    <2>1. ~Freed(s, n) /\ q.by_sender[s][n] = p.by_sender[s][n]
      BY <1>1, <1>2
    <2>2. /\ p.by_sender[s][n] \in p.txs
          /\ p.by_sender[s][n].from = s /\ p.by_sender[s][n].nonce = n
      BY <2>1, <1>2 DEF Consistent
    <2>3. p.by_sender[s][n] \notin ids
      BY <2>1, <2>2, Zenon
    <2> QED BY <1>1, <2>1, <2>2, <2>3, Zenon
  <1>3. ASSUME NEW t \in q.txs
        PROVE  q.by_sender[t.from][t.nonce] = t
    <2>1. t \in p.txs /\ t \notin ids /\ t.from \in Sender /\ t.nonce \in Nonce
      BY <1>1, TransactionFields, Zenon DEF Pools
    <2>2. ~Freed(t.from, t.nonce)
      BY <2>1 DEF Consistent
    <2> QED BY <1>1, <2>1, <2>2 DEF Consistent
  <1>4. ASSUME NEW t \in Transaction
        PROVE  t \in q.txs <=> q.generations[t] # NoGeneration
    BY <1>1, Zenon DEF Consistent
  <1> HIDE DEF q
  <1>5. Consistent(q)
    BY <1>2, <1>3, <1>4, Zenon DEF Consistent
  <1> QED BY <1>5, Zenon DEF q

\* The transactions a replacement evicts are pending, include the conflicting
\* one, and their removal frees the slot of the new transaction.
LEMMA ReplaceableFacts ==
    ASSUME NEW p \in Pools, NEW tx \in Transaction, Consistent(p),
           find_replaceable(p, tx) # {}
    PROVE  /\ p.by_sender[tx.from][tx.nonce] # NoTx
           /\ Conflict(p, tx) \in find_replaceable(p, tx) \cap p.txs
           /\ Conflict(p, tx).from = tx.from /\ Conflict(p, tx).nonce = tx.nonce
           /\ find_replaceable(p, tx) \subseteq p.txs
           /\ remove(p, find_replaceable(p, tx)).by_sender[tx.from][tx.nonce] = NoTx
  <1> DEFINE evicted == find_replaceable(p, tx)
             conflict == p.by_sender[tx.from][tx.nonce]
  <1>1. tx.from \in Sender /\ tx.nonce \in Nonce
    BY TransactionFields, Zenon
  <1>2. conflict # NoTx
    BY Zenon DEF find_replaceable
  <1>3. evicted = {p.by_sender[tx.from][n] : n \in {tx.nonce} \cup {m \in Nonce :
                                     m >= Wrap64(tx.nonce + 1)}} \ {NoTx}
    BY <1>2, Zenon DEF find_replaceable
  <1>4. conflict \in evicted
    BY <1>2, <1>3, Zenon
  <1>5. evicted \subseteq p.txs
    BY <1>1, <1>3 DEF Consistent
  <1>6. conflict.from = tx.from /\ conflict.nonce = tx.nonce
    BY <1>1, <1>2 DEF Consistent
  <1>7. remove(p, evicted).by_sender[tx.from][tx.nonce] = NoTx
    BY <1>1, <1>4, <1>5, <1>6, Zenon DEF remove
  <1> QED BY <1>2, <1>4, <1>5, <1>6, <1>7, Zenon DEF Conflict

\* The generation of a replacement is a u32 above zero.
LEMMA GenerationType ==
    ASSUME NEW p \in Pools, NEW tx \in Transaction,
           Conflict(p, tx) \in Transaction
    PROVE  NextGeneration(p, tx) \in Nat
  BY DEF NextGeneration, Pools, NoGeneration

\* Accepting a transaction that conflicts with nothing.
LEMMA AcceptedFacts ==
    ASSUME NEW p \in Pools, NEW tx \in Transaction, NEW acct,
           Consistent(p), CanAccept(p, tx, acct)
    PROVE  /\ insert(p, tx, acct) = Accepted(p, tx)
           /\ Accepted(p, tx) \in Pools
           /\ Consistent(Accepted(p, tx))
           /\ Accepted(p, tx).txs = p.txs \cup {tx}
           /\ p.by_sender[tx.from][tx.nonce] = NoTx
  <1>1. p.by_sender[tx.from][tx.nonce] = NoTx
    <2> SUFFICES ASSUME p.by_sender[tx.from][tx.nonce] # NoTx PROVE FALSE
      BY Zenon
    <2>1. p.by_sender[tx.from][tx.nonce] \in find_replaceable(p, tx)
      BY Zenon DEF find_replaceable
    <2> QED BY <2>1, Zenon DEF CanAccept
  <1>2. Accepted(p, tx) \in Pools
    BY StoreType, Zenon DEF Accepted
  <1>3. Consistent(Accepted(p, tx))
    BY <1>1, StoreConsistent, Zenon DEF Accepted
  <1> QED BY <1>1, <1>2, <1>3, Zenon DEF insert, Accepted, store

\* Replacing a pending transaction (RBF).
LEMMA ReplacedFacts ==
    ASSUME NEW p \in Pools, NEW tx \in Transaction, NEW acct,
           Consistent(p), CanReplace(p, tx, acct)
    PROVE  /\ insert(p, tx, acct) = Replaced(p, tx)
           /\ Replaced(p, tx) \in Pools
           /\ Consistent(Replaced(p, tx))
           /\ Replaced(p, tx).txs = (p.txs \ find_replaceable(p, tx)) \cup {tx}
           /\ NextGeneration(p, tx) \in Nat
  <1> DEFINE evicted == find_replaceable(p, tx)
             rest == remove(p, evicted)
  <1>1. /\ Conflict(p, tx) \in evicted \cap p.txs
        /\ rest.by_sender[tx.from][tx.nonce] = NoTx
    BY ReplaceableFacts, Zenon DEF CanReplace
  <1>2. NextGeneration(p, tx) \in Nat
    BY <1>1, GenerationType, Zenon DEF Pools
  <1>3. rest \in Pools /\ Consistent(rest)
    BY RemoveType, RemoveConsistent, Zenon
  <1> HIDE DEF rest
  <1>4. Replaced(p, tx) = store(rest, tx, NextGeneration(p, tx))
    BY Zenon DEF Replaced, rest
  <1>5. Replaced(p, tx) \in Pools /\ Consistent(Replaced(p, tx))
    BY <1>1, <1>2, <1>3, <1>4, StoreType, StoreConsistent, Zenon
  <1>6. ~CanAccept(p, tx, acct)
    BY Zenon DEF CanAccept, CanReplace
  <1>7. Replaced(p, tx).txs = (p.txs \ evicted) \cup {tx}
    BY <1>4 DEF store, rest, remove
  <1> QED BY <1>2, <1>5, <1>6, <1>7, Zenon DEF insert

-----------------------------------------------------------------------------
\* The inductive invariant: the types, the agreement of the maps, and a pool
\* that is a finite set (so that its length is a number).
PoolInv == TypeOK /\ IndexConsistent /\ IsFiniteSet(pool.txs)

\* A node starts with an empty pool, whose maps agree.
LEMMA InitPoolInv == Init => PoolInv
  <1> SUFFICES ASSUME Init PROVE PoolInv
    BY Zenon
  <1>1. pool.txs = {} /\ EmptyPool \in Pools
    BY Zenon DEF Init, EmptyPool, Pools, Slots
  <1>2. IndexConsistent
    BY Zenon DEF Init, EmptyPool, IndexConsistent, Consistent, NoGeneration
  <1>3. account \in [Sender -> Account] /\ mined \in [Sender -> SUBSET Nonce]
    BY DEF Init, Account
  <1> QED BY <1>1, <1>2, <1>3, FS_EmptySet, Zenon DEF PoolInv, TypeOK, Init

\* A committed block counts its transactions into the accounts and takes them
\* out of the pool; types and agreement survive any finite block.
LEMMA CommitPoolInv ==
    ASSUME PoolInv, NEW block_txs \in SUBSET Transaction, IsFiniteSet(block_txs),
           CommitBlock(block_txs), alone' \in BOOLEAN
    PROVE  PoolInv'
  <1>1. pool' \in Pools /\ Consistent(pool') /\ pool'.txs = pool.txs \ block_txs
    BY RemoveType, RemoveConsistent, ZenonT(60)
       DEF CommitBlock, PoolInv, TypeOK, IndexConsistent, remove
  <1>2. IsFiniteSet(pool'.txs)
    BY <1>1, FS_Difference, Zenon DEF PoolInv
  <1>3. account' \in [Sender -> Account]
    <2>1. ASSUME NEW s \in Sender
          PROVE  account[s].nonce + Cardinality({t \in block_txs : t.from = s}) \in Nat
      <3>1. IsFiniteSet({t \in block_txs : t.from = s})
        BY FS_Subset, Zenon
      <3>2. Cardinality({t \in block_txs : t.from = s}) \in Nat
        BY <3>1, FS_CardinalityType, Zenon
      <3> QED BY <3>2 DEF PoolInv, TypeOK, Account
    <2> QED BY <2>1 DEF CommitBlock, Account
  <1>4. mined' \in [Sender -> SUBSET Nonce]
    BY TransactionFields DEF CommitBlock, PoolInv, TypeOK
  <1> QED BY <1>1, <1>2, <1>3, <1>4, Zenon DEF PoolInv, TypeOK, IndexConsistent

\* Every step of the pool, one case per action.
LEMMA NextPoolInv == PoolInv /\ [Next]_vars => PoolInv'
  <1> SUFFICES ASSUME PoolInv, [Next]_vars PROVE PoolInv'
    BY Zenon
  <1>0. pool \in Pools /\ Consistent(pool) /\ IsFiniteSet(pool.txs)
    BY Zenon DEF PoolInv, TypeOK, IndexConsistent
  <1>1. ASSUME NEW tx \in Transaction, InsertNew(tx) PROVE PoolInv'
    <2>1. /\ pool' \in Pools /\ Consistent(pool')
          /\ pool'.txs = pool.txs \cup {tx}
      BY <1>0, <1>1, AcceptedFacts, Zenon DEF InsertNew
    <2>2. IsFiniteSet(pool'.txs)
      BY <1>0, <2>1, FS_AddElement, Zenon
    <2> QED BY <1>1, <2>1, <2>2, Zenon DEF InsertNew, PoolInv, TypeOK, IndexConsistent
  <1>2. ASSUME NEW tx \in Transaction, InsertReplacement(tx) PROVE PoolInv'
    <2>1. /\ pool' \in Pools /\ Consistent(pool')
          /\ pool'.txs = (pool.txs \ find_replaceable(pool, tx)) \cup {tx}
      BY <1>0, <1>2, ReplacedFacts, Zenon DEF InsertReplacement
    <2>2. IsFiniteSet(pool'.txs)
      BY <1>0, <2>1, FS_AddElement, FS_Difference, Zenon
    <2> QED BY <1>2, <2>1, <2>2, Zenon DEF InsertReplacement, PoolInv, TypeOK, IndexConsistent
  <1>3. CASE CommitOwnBlock
    <2>1. PICK block_txs \in SUBSET pool.txs : CommitBlock(block_txs) /\ UNCHANGED alone
      BY <1>3, Zenon DEF CommitOwnBlock
    <2>2. alone' \in BOOLEAN
      BY <2>1, Zenon DEF PoolInv, TypeOK
    <2>3. block_txs \in SUBSET Transaction /\ IsFiniteSet(block_txs)
      BY <1>0, FS_Subset, Zenon DEF Pools
    <2> QED BY <2>1, <2>2, <2>3, CommitPoolInv, Zenon
  <1>4. CASE CommitPeerBlock
    <2>1. PICK block_txs \in SUBSET Transaction :
             IsFiniteSet(block_txs) /\ CommitBlock(block_txs) /\ alone' = FALSE
      BY <1>4, Zenon DEF CommitPeerBlock
    <2> QED BY <2>1, CommitPoolInv, Zenon
  <1>5. CASE UNCHANGED vars
    BY <1>5, Zenon DEF vars, PoolInv, TypeOK, IndexConsistent
  <1> QED BY <1>1, <1>2, <1>3, <1>4, <1>5, Zenon DEF Next, Insert

\* Types of the pool, the accounts and the history.
THEOREM PoolTypeCorrect == Spec => []TypeOK
  <1>1. PoolInv => TypeOK
    BY Zenon DEF PoolInv
  <1> QED BY <1>1, InitPoolInv, NextPoolInv, PTL DEF Spec

\* The by_sender index, the transactions and the generations agree forever:
\* the `expect` in insert cannot panic.
THEOREM PoolIndexCorrect == Spec => []IndexConsistent
  <1>1. PoolInv => IndexConsistent
    BY Zenon DEF PoolInv
  <1> QED BY <1>1, InitPoolInv, NextPoolInv, PTL DEF Spec

-----------------------------------------------------------------------------
\* A replacement evicts at least the conflicting transaction, so the path that
\* does not test MAX_PENDING_TXS cannot exceed it.
LEMMA NextWithinLimits == PoolInv /\ WithinLimits /\ [Next]_vars => WithinLimits'
  <1> SUFFICES ASSUME PoolInv, WithinLimits, [Next]_vars PROVE WithinLimits'
    BY Zenon
  <1>0. /\ pool \in Pools /\ Consistent(pool) /\ IsFiniteSet(pool.txs)
        /\ Cardinality(pool.txs) \in Nat
        /\ MAX_PENDING_TXS \in Nat \ {0} /\ MAX_RBF_REPLACEMENTS \in Nat
    BY PoolLimits, FS_CardinalityType, Zenon DEF PoolInv, TypeOK, IndexConsistent
  <1>1. ASSUME NEW tx \in Transaction, InsertNew(tx) PROVE WithinLimits'
    <2>1. /\ pool' = Accepted(pool, tx) /\ pool'.txs = pool.txs \cup {tx}
          /\ Cardinality(pool.txs) < MAX_PENDING_TXS
      BY <1>0, <1>1, AcceptedFacts, Zenon DEF InsertNew, CanAccept
    <2>2. Cardinality(pool'.txs) <= MAX_PENDING_TXS
      BY <1>0, <2>1, FS_AddElement
    <2>3. pool'.generations = [pool.generations EXCEPT ![tx] = 0]
      BY <2>1, Zenon DEF Accepted, store
    <2> QED BY <1>0, <2>2, <2>3 DEF WithinLimits, Pools
  <1>2. ASSUME NEW tx \in Transaction, InsertReplacement(tx) PROVE WithinLimits'
    <2> DEFINE evicted == find_replaceable(pool, tx)
               rest == pool.txs \ evicted
    <2>1. /\ pool' = Replaced(pool, tx) /\ pool'.txs = rest \cup {tx}
          /\ NextGeneration(pool, tx) \in Nat
          /\ NextGeneration(pool, tx) <= MAX_RBF_REPLACEMENTS
      BY <1>0, <1>2, ReplacedFacts, Zenon DEF InsertReplacement, CanReplace
    <2>2. Conflict(pool, tx) \in pool.txs /\ Conflict(pool, tx) \in evicted
      BY <1>0, <1>2, ReplaceableFacts, Zenon DEF InsertReplacement, CanReplace
    <2> HIDE DEF evicted
    <2>3. /\ IsFiniteSet(pool.txs \ {Conflict(pool, tx)})
          /\ Cardinality(pool.txs \ {Conflict(pool, tx)}) = Cardinality(pool.txs) - 1
      BY <1>0, <2>2, FS_RemoveElement, Zenon
    <2>4. rest \in SUBSET (pool.txs \ {Conflict(pool, tx)})
      BY <2>2, Zenon
    <2>5. /\ IsFiniteSet(rest) /\ Cardinality(rest) \in Nat
          /\ Cardinality(rest) <= Cardinality(pool.txs) - 1
      BY <2>3, <2>4, FS_Subset, FS_CardinalityType
    <2> HIDE DEF rest
    <2>6. /\ IsFiniteSet(rest \cup {tx})
          /\ Cardinality(rest \cup {tx}) =
                IF tx \in rest THEN Cardinality(rest) ELSE Cardinality(rest) + 1
      BY <2>5, FS_AddElement, Zenon
    <2>7. /\ Cardinality(pool'.txs) \in Nat
          /\ Cardinality(pool'.txs) <= Cardinality(rest) + 1
      BY <2>1, <2>5, <2>6
    <2>8. Cardinality(pool'.txs) <= MAX_PENDING_TXS
      BY <1>0, <2>5, <2>7 DEF WithinLimits
    <2>9. \A t \in Transaction :
             pool'.generations[t] \in {pool.generations[t], NoGeneration,
                                       NextGeneration(pool, tx)}
      BY <1>0, <2>1, Zenon DEF Replaced, store, remove, Pools
    <2> QED BY <1>0, <2>1, <2>8, <2>9 DEF WithinLimits, NoGeneration
  <1>3. ASSUME NEW block_txs \in SUBSET Transaction, CommitBlock(block_txs)
        PROVE  WithinLimits'
    <2>1. /\ pool'.txs \in SUBSET pool.txs
          /\ \A t \in Transaction :
                pool'.generations[t] \in {pool.generations[t], NoGeneration}
      BY <1>3, Zenon DEF CommitBlock, remove
    <2>2. Cardinality(pool'.txs) \in Nat /\ Cardinality(pool'.txs) <= Cardinality(pool.txs)
      BY <1>0, <2>1, FS_Subset, FS_CardinalityType, Zenon
    <2> QED BY <1>0, <2>1, <2>2 DEF WithinLimits, NoGeneration
  <1>4. CASE UNCHANGED vars
    BY <1>4, Zenon DEF vars, WithinLimits
  <1>5. CASE CommitOwnBlock
    BY <1>0, <1>3, <1>5, Zenon DEF CommitOwnBlock, Pools
  <1>6. CASE CommitPeerBlock
    BY <1>3, <1>6, Zenon DEF CommitPeerBlock
  <1> QED BY <1>1, <1>2, <1>4, <1>5, <1>6, Zenon DEF Next, Insert

\* The pool stays within MAX_PENDING_TXS and MAX_RBF_REPLACEMENTS.
THEOREM PoolWithinLimits == Spec => []WithinLimits
  <1>1. Init => WithinLimits
    BY FS_EmptySet, PoolLimits DEF Init, EmptyPool, WithinLimits, NoGeneration
  <1> QED BY <1>1, InitPoolInv, NextPoolInv, NextWithinLimits, PTL DEF Spec

-----------------------------------------------------------------------------
\* Confirmed nonces M, pending nonces P and account nonce a of one sender:
\* what NoncesContiguous says of them.
Contiguous(M, P, a) ==
    M \cap P = {} /\ Cardinality(M) = a /\ M \cup P = 1 .. a + Cardinality(P)

\* Sets of nonces are finite.
LEMMA NonceSetFinite ==
    ASSUME NEW S \in SUBSET Nonce
    PROVE  IsFiniteSet(S) /\ Cardinality(S) \in Nat
  <1>1. IsFiniteSet(Nonce)
    BY U64MaxAssumption, FS_Interval DEF Nonce
  <1> QED BY <1>1, FS_Subset, FS_CardinalityType, Zenon

\* The size of a union of disjoint finite sets.
LEMMA DisjointUnion ==
    ASSUME NEW S, NEW T, IsFiniteSet(S), IsFiniteSet(T), S \cap T = {}
    PROVE  Cardinality(S \cup T) = Cardinality(S) + Cardinality(T)
  <1>1. Cardinality(S \cup T) =
           Cardinality(S) + Cardinality(T) - Cardinality(S \cap T)
    BY FS_Union, Zenon
  <1>2. /\ Cardinality(S \cap T) = 0
        /\ Cardinality(S) \in Nat /\ Cardinality(T) \in Nat
    BY FS_EmptySet, FS_CardinalityType, Zenon
  <1> QED BY <1>1, <1>2

\* insert of a fresh transaction: the nonce it demands is the next one.
LEMMA ExtendContiguous ==
    ASSUME NEW M \in SUBSET Nonce, NEW P \in SUBSET Nonce, NEW a \in Nat,
           Contiguous(M, P, a), NEW n \in Nonce, n = a + Cardinality(P) + 1
    PROVE  Contiguous(M, P \cup {n}, a)
  <1>1. IsFiniteSet(P) /\ Cardinality(P) \in Nat
    BY NonceSetFinite, Zenon
  <1>2. n \notin M \cup P
    BY <1>1 DEF Contiguous
  <1>3. Cardinality(P \cup {n}) = Cardinality(P) + 1
    BY <1>1, <1>2, FS_AddElement, Zenon
  <1>4. M \cup (P \cup {n}) = 1 .. a + (Cardinality(P) + 1)
    BY <1>1 DEF Contiguous
  <1> QED BY <1>2, <1>3, <1>4, ZenonT(30) DEF Contiguous

\* insert of a replacement at nonce n: what remains below n, counted, shows
\* that nothing above n is confirmed.
LEMMA TrimContiguous ==
    ASSUME NEW M \in SUBSET Nonce, NEW P \in SUBSET Nonce, NEW a \in Nat,
           Contiguous(M, P, a), NEW n \in P, NEW R \in SUBSET P, n \notin R,
           n = a + Cardinality(R) + 1, 1 .. n - 1 \subseteq M \cup R
    PROVE  Contiguous(M, R \cup {n}, a)
  <1>1. /\ IsFiniteSet(M) /\ IsFiniteSet(R) /\ IsFiniteSet(M \cup R)
        /\ Cardinality(R) \in Nat
    BY NonceSetFinite, Zenon
  <1>2. n \in Nat \ {0}
    BY <1>1
  <1>3. M \cap R = {} /\ n \notin M
    BY Zenon DEF Contiguous
  <1>4. Cardinality(M \cup R) = n - 1
    BY <1>1, <1>3, DisjointUnion DEF Contiguous
  <1>5. Cardinality(1 .. n - 1) = n - 1
    <2>1. 1 \in Int /\ n - 1 \in Int
      BY <1>2
    <2>2. Cardinality(1 .. n - 1) = IF 1 > n - 1 THEN 0 ELSE (n - 1) - 1 + 1
      BY <2>1, FS_Interval, Zenon
    <2> QED BY <1>2, <2>2
  <1>6. M \cup R = 1 .. n - 1
    BY <1>1, <1>4, <1>5, FS_Subset, Zenon
  <1>7. Cardinality(R \cup {n}) = Cardinality(R) + 1
    BY <1>1, FS_AddElement, Zenon
  <1>8. M \cup (R \cup {n}) = 1 .. n
    BY <1>2, <1>6
  <1> QED BY <1>1, <1>3, <1>7, <1>8 DEF Contiguous

\* A block moves pending nonces to the confirmed ones.
LEMMA MoveContiguous ==
    ASSUME NEW M \in SUBSET Nonce, NEW P \in SUBSET Nonce, NEW a \in Nat,
           Contiguous(M, P, a), NEW N \in SUBSET P
    PROVE  Contiguous(M \cup N, P \ N, a + Cardinality(N))
  <1>1. /\ IsFiniteSet(M) /\ IsFiniteSet(P) /\ IsFiniteSet(N)
        /\ Cardinality(P) \in Nat /\ Cardinality(N) \in Nat
    BY NonceSetFinite, Zenon
  <1>2. M \cap N = {} /\ P \cap N = N
    BY Zenon DEF Contiguous
  <1>3. Cardinality(M \cup N) = a + Cardinality(N)
    BY <1>1, <1>2, DisjointUnion, Zenon DEF Contiguous
  <1>4. Cardinality(P \ N) = Cardinality(P) - Cardinality(N)
    BY <1>1, <1>2, FS_Difference, Zenon
  <1>5. (M \cup N) \cup (P \ N) = M \cup P /\ (M \cup N) \cap (P \ N) = {}
    BY Zenon DEF Contiguous
  <1>6. (a + Cardinality(N)) + Cardinality(P \ N) = a + Cardinality(P)
    BY <1>1, <1>4
  <1> QED BY <1>3, <1>5, <1>6, Zenon DEF Contiguous

-----------------------------------------------------------------------------
\* Together with the pool invariant, contiguity is inductive; the lemmas are
\* about a node that still mines alone.
LocalInv == PoolInv /\ NoncesContiguous /\ alone

\* What the invariant says of one sender, in the terms of the lemmas above.
LEMMA ContiguousOf ==
    ASSUME LocalInv, NEW s \in Sender
    PROVE  /\ Contiguous(mined[s], PendingNonces(s), account[s].nonce)
           /\ mined[s] \in SUBSET Nonce /\ PendingNonces(s) \in SUBSET Nonce
           /\ account[s].nonce \in Nat
  BY Zenon DEF LocalInv, PoolInv, TypeOK, Account, NoncesContiguous, Contiguous,
         PendingNonces

\* A replacement that passes the nonce check evicts no slot below its own:
\* not even at the largest nonce, where the lower end of the range wraps to
\* zero, for then the conflicting slot is the sender's only one.
LEMMA NothingBelowEvicted ==
    ASSUME LocalInv, NEW tx \in Transaction,
           CanReplace(pool, tx, account[tx.from]),
           NEW k \in PendingNonces(tx.from), k < tx.nonce
    PROVE  pool.by_sender[tx.from][k] \notin find_replaceable(pool, tx)
  <1> DEFINE s == tx.from
             n == tx.nonce
             a == account[s].nonce
             M == mined[s]
             P == PendingNonces(s)
             slots == pool.by_sender[s]
             evicted == find_replaceable(pool, tx)
             R == RemainingSlots(pool, s, evicted)
  <1>1. /\ s \in Sender /\ n \in Nonce /\ pool \in Pools /\ Consistent(pool)
        /\ U64Max \in Nat
    BY TransactionFields, U64MaxAssumption, Zenon DEF LocalInv, PoolInv, TypeOK, IndexConsistent
  <1>2. /\ Contiguous(M, P, a) /\ M \in SUBSET Nonce /\ P \in SUBSET Nonce
        /\ a \in Nat
    BY <1>1, ContiguousOf, Zenon
  <1>3. slots[n] # NoTx /\ n \in P
    BY <1>1, ReplaceableFacts, Zenon DEF CanReplace, PendingNonces
  <1>4. evicted = {slots[m] : m \in {n} \cup {j \in Nonce : j >= Wrap64(n + 1)}} \ {NoTx}
    BY <1>3, Zenon DEF find_replaceable
  <1>5. n = a + Cardinality(R) + 1
    BY Zenon DEF CanReplace, validate_against_pool, validate_nonce
  <1>6. CASE n < U64Max
    <2>1. Wrap64(n + 1) = n + 1
      BY <1>1, <1>6 DEF Wrap64, Nonce
    <2> SUFFICES ASSUME slots[k] \in evicted PROVE FALSE
      BY Zenon
    <2>2. PICK m \in {n} \cup {j \in Nonce : j >= n + 1} :
             slots[k] = slots[m] /\ slots[m] # NoTx
      BY <1>4, <2>1, Zenon
    <2>3. slots[k].nonce = k /\ slots[m].nonce = m
      BY <1>1, <1>2, <2>2 DEF Consistent
    <2> QED BY <1>1, <1>2, <2>2, <2>3 DEF Nonce
  <1>7. CASE n = U64Max
    <2>1. Wrap64(n + 1) = 0
      BY <1>1, <1>7 DEF Wrap64
    <2>2. R = {}
      BY <1>1, <1>4, <2>1 DEF RemainingSlots, Nonce
    <2>3. n = a + 1
      BY <1>2, <1>5, <2>2, FS_EmptySet
    <2>4. IsFiniteSet(P) /\ Cardinality(P) \in Nat
      BY <1>2, NonceSetFinite, Zenon
    <2>5. n \in 1 .. a + Cardinality(P) /\ a + Cardinality(P) \in M \cup P
      BY <1>2, <1>3, <2>3, <2>4 DEF Contiguous
    <2>6. Cardinality(P) <= 1
      BY <1>1, <1>2, <1>7, <2>3, <2>4, <2>5 DEF Nonce
    <2>7. IsFiniteSet(P \ {n}) /\ Cardinality(P \ {n}) = Cardinality(P) - 1
      BY <1>3, <2>4, FS_RemoveElement, Zenon
    <2>8. Cardinality(P \ {n}) = 0
      BY <2>4, <2>6, <2>7, FS_CardinalityType
    <2>9. P \ {n} = {}
      BY <2>7, <2>8, FS_EmptySet, Zenon
    <2> QED BY <1>1, <2>9 DEF Nonce
  <1> QED BY <1>1, <1>6, <1>7 DEF Nonce

\* A fresh transaction takes the nonce after all confirmed and pending ones.
LEMMA InsertNewContiguous ==
    ASSUME LocalInv, NEW tx \in Transaction, InsertNew(tx)
    PROVE  NoncesContiguous'
  <1>1. /\ tx.from \in Sender /\ tx.nonce \in Nonce /\ tx # NoTx
        /\ pool \in Pools /\ Consistent(pool)
    BY TransactionFields, NoTxIsNoTransaction, Zenon
       DEF LocalInv, PoolInv, TypeOK, IndexConsistent
  <1>2. pool' = Accepted(pool, tx)
    BY <1>1, AcceptedFacts, Zenon DEF InsertNew
  <1>3. \A s \in Sender, n \in Nonce :
           pool'.by_sender[s][n] = IF s = tx.from /\ n = tx.nonce
                                   THEN tx ELSE pool.by_sender[s][n]
    BY <1>1, <1>2, Zenon DEF Accepted, store, Pools, Slots
  <1>4. tx.nonce = account[tx.from].nonce + Cardinality(PendingNonces(tx.from)) + 1
    <2>1. RemainingSlots(pool, tx.from, {}) = PendingNonces(tx.from)
      BY Zenon DEF RemainingSlots, PendingNonces
    <2> QED BY <2>1, Zenon DEF InsertNew, CanAccept, validate_against_pool, validate_nonce
  <1>5. ASSUME NEW s \in Sender
        PROVE  Contiguous(mined'[s], PendingNonces(s)', account'[s].nonce)
    <2>1. mined'[s] = mined[s] /\ account'[s] = account[s]
      BY Zenon DEF InsertNew
    <2>2. CASE s = tx.from
      <3>1. PendingNonces(s)' = PendingNonces(s) \cup {tx.nonce}
        BY <1>1, <1>3, <2>2 DEF PendingNonces
      <3> QED BY <1>1, <1>4, <2>1, <2>2, <3>1, ContiguousOf, ExtendContiguous
    <2>3. CASE s # tx.from
      <3>1. PendingNonces(s)' = PendingNonces(s)
        BY <1>3, <2>3, Zenon DEF PendingNonces
      <3> QED BY <2>1, <3>1, ContiguousOf, Zenon
    <2> QED BY <2>2, <2>3, Zenon
  <1> QED BY <1>5, Zenon DEF NoncesContiguous, Contiguous

\* A replacement keeps the slots below its own and drops those above.
LEMMA InsertReplacementContiguous ==
    ASSUME LocalInv, NEW tx \in Transaction, InsertReplacement(tx)
    PROVE  NoncesContiguous'
  <1> DEFINE n == tx.nonce
             a == account[tx.from].nonce
             M == mined[tx.from]
             P == PendingNonces(tx.from)
             evicted == find_replaceable(pool, tx)
             R == RemainingSlots(pool, tx.from, evicted)
  <1>1. /\ tx.from \in Sender /\ n \in Nonce /\ tx # NoTx
        /\ pool \in Pools /\ Consistent(pool)
        /\ CanReplace(pool, tx, account[tx.from])
    BY TransactionFields, NoTxIsNoTransaction, Zenon
       DEF LocalInv, PoolInv, TypeOK, IndexConsistent, InsertReplacement
  <1>2. pool' = Replaced(pool, tx)
    BY <1>1, ReplacedFacts, Zenon DEF InsertReplacement
  <1>3. /\ evicted \subseteq pool.txs /\ n \in P
        /\ pool.by_sender[tx.from][n] \in evicted
    BY <1>1, ReplaceableFacts, ZenonT(30) DEF CanReplace, PendingNonces, Conflict
  <1>4. \A t \in evicted : t.from = tx.from
    BY <1>1, <1>3 DEF find_replaceable, Consistent
  <1>5. \A s \in Sender, m \in Nonce :
           pool'.by_sender[s][m] =
              IF s = tx.from /\ m = n THEN tx
              ELSE IF \E t \in evicted \cap pool.txs : t.from = s /\ t.nonce = m
              THEN NoTx ELSE pool.by_sender[s][m]
    BY <1>1, <1>2, Zenon DEF Replaced, store, remove
  <1>6. PendingNonces(tx.from)' = R \cup {n}
    <2>1. ASSUME NEW m \in Nonce, pool.by_sender[tx.from][m] # NoTx
          PROVE  (\E t \in evicted \cap pool.txs : t.from = tx.from /\ t.nonce = m)
                   <=> pool.by_sender[tx.from][m] \in evicted
      BY <1>1, <1>3, <2>1 DEF Consistent
    <2>2. \A m \in Nonce :
             pool'.by_sender[tx.from][m] # NoTx <=>
                m = n \/ pool.by_sender[tx.from][m] \notin evicted \cup {NoTx}
      BY <1>1, <1>5, <2>1
    <2> QED BY <1>1, <2>2, Zenon DEF PendingNonces, RemainingSlots
  <1>7. \A s \in Sender : s # tx.from => PendingNonces(s)' = PendingNonces(s)
    BY <1>4, <1>5 DEF PendingNonces
  <1>8. n = a + Cardinality(R) + 1
    BY <1>1, Zenon DEF CanReplace, validate_against_pool, validate_nonce
  <1>9. R \in SUBSET P /\ n \notin R
    BY <1>3, Zenon DEF RemainingSlots, PendingNonces
  <1>10. 1 .. n - 1 \subseteq M \cup R
    <2> SUFFICES ASSUME NEW k \in 1 .. n - 1, k \in P PROVE k \in R
      <3>1. P \in SUBSET Nonce /\ Contiguous(M, P, a) /\ a \in Nat
        BY <1>1, ContiguousOf, Zenon
      <3>2. Cardinality(P) \in Nat
        BY <3>1, NonceSetFinite, Zenon
      <3>3. 1 .. n - 1 \subseteq M \cup P
        BY <1>3, <3>1, <3>2 DEF Contiguous
      <3> QED BY <3>3, Zenon
    <2>1. k < n
      BY <1>1, U64MaxAssumption DEF Nonce
    <2>2. pool.by_sender[tx.from][k] \notin evicted
      BY <1>1, <2>1, NothingBelowEvicted, Zenon
    <2> QED BY <2>2, Zenon DEF PendingNonces, RemainingSlots
  <1>11. Contiguous(M, R \cup {n}, a)
    <2>1. /\ P \in SUBSET Nonce /\ M \in SUBSET Nonce
          /\ Contiguous(M, P, a) /\ a \in Nat
      BY <1>1, ContiguousOf, Zenon
    <2> HIDE DEF n, a, M, P, R
    <2> QED BY <1>3, <1>8, <1>9, <1>10, <2>1, TrimContiguous, Zenon
  <1>12. ASSUME NEW s \in Sender
         PROVE  Contiguous(mined'[s], PendingNonces(s)', account'[s].nonce)
    <2>1. mined'[s] = mined[s] /\ account'[s] = account[s]
      BY Zenon DEF InsertReplacement
    <2> QED BY <1>6, <1>7, <1>11, <2>1, ContiguousOf, Zenon
  <1> QED BY <1>12, Zenon DEF NoncesContiguous, Contiguous

\* The transactions a mined block takes from the pool occupy distinct pending
\* slots, so there are as many of them as nonces they confirm.
LEMMA BlockNonces ==
    ASSUME LocalInv, NEW block_txs \in SUBSET pool.txs, NEW s \in Sender
    PROVE  LET own == {t \in block_txs : t.from = s}
               nonces == {t.nonce : t \in own}
           IN  nonces \subseteq PendingNonces(s) /\ Cardinality(nonces) = Cardinality(own)
  <1> DEFINE own == {t \in block_txs : t.from = s}
             nonces == {t.nonce : t \in own}
             f == [t \in own |-> t.nonce]
  <1>1. /\ pool \in Pools /\ Consistent(pool) /\ IsFiniteSet(pool.txs)
        /\ own \subseteq Transaction /\ own \in SUBSET pool.txs
    BY Zenon DEF LocalInv, PoolInv, TypeOK, IndexConsistent, Pools
  <1>2. \A t \in own : t.nonce \in Nonce /\ pool.by_sender[s][t.nonce] = t /\ t # NoTx
    BY <1>1, TransactionFields, NoTxIsNoTransaction DEF Consistent
  <1>3. nonces \subseteq PendingNonces(s)
    BY <1>2, Zenon DEF PendingNonces
  <1>4. f \in Surjection(own, nonces) /\ f \in Injection(own, nonces)
    BY <1>2 DEF Surjection, Injection, IsInjective
  <1>5. IsFiniteSet(own)
    BY <1>1, FS_Subset, Zenon
  <1> HIDE DEF own, nonces, f
  <1>6. Cardinality(nonces) = Cardinality(own)
    BY <1>4, <1>5, FS_Surjection, Zenon
  <1> QED BY <1>3, <1>6, Zenon DEF own, nonces

\* A mined block moves nonces from the pool to the chain and counts them.
LEMMA CommitOwnContiguous ==
    ASSUME LocalInv, NEW block_txs \in SUBSET pool.txs, CommitBlock(block_txs)
    PROVE  NoncesContiguous'
  <1>1. ASSUME NEW s \in Sender
        PROVE  Contiguous(mined'[s], PendingNonces(s)', account'[s].nonce)
    <2> DEFINE own == {t \in block_txs : t.from = s}
               nonces == {t.nonce : t \in own}
    <2>1. nonces \in SUBSET PendingNonces(s) /\ Cardinality(nonces) = Cardinality(own)
      BY BlockNonces, Zenon
    <2>2. /\ mined'[s] = mined[s] \cup nonces
          /\ account'[s].nonce = account[s].nonce + Cardinality(own)
      BY DEF CommitBlock
    <2>3. \A n \in Nonce :
             pool'.by_sender[s][n] = IF n \in nonces THEN NoTx ELSE pool.by_sender[s][n]
      BY Zenon DEF CommitBlock, remove
    <2>4. PendingNonces(s)' = PendingNonces(s) \ nonces
      BY <2>3, Zenon DEF PendingNonces
    <2> HIDE DEF own, nonces
    <2> QED BY <2>1, <2>2, <2>4, ContiguousOf, MoveContiguous
  <1> QED BY <1>1, Zenon DEF NoncesContiguous, Contiguous

\* Every step keeps the nonces contiguous; a block of a peer ends the promise.
LEMMA NextContiguous ==
    PoolInv /\ NoncesContiguous /\ [Next]_vars => NoncesContiguous'
  <1> SUFFICES ASSUME PoolInv, NoncesContiguous, [Next]_vars, alone'
               PROVE  NoncesContiguous'
    BY Zenon DEF NoncesContiguous
  <1>1. ~CommitPeerBlock
    BY Zenon DEF CommitPeerBlock
  <1>2. LocalInv
    BY <1>1, Zenon DEF LocalInv, Next, Insert, InsertNew, InsertReplacement,
                CommitOwnBlock, vars
  <1>3. ASSUME Insert PROVE NoncesContiguous'
    BY <1>2, <1>3, InsertNewContiguous, InsertReplacementContiguous, Zenon DEF Insert
  <1>4. ASSUME CommitOwnBlock PROVE NoncesContiguous'
    BY <1>2, <1>4, CommitOwnContiguous, Zenon DEF CommitOwnBlock
  <1>5. ASSUME UNCHANGED vars PROVE NoncesContiguous'
    BY <1>5, Zenon DEF vars, NoncesContiguous, PendingNonces
  <1> QED BY <1>1, <1>3, <1>4, <1>5, Zenon DEF Next

\* No nonce is confirmed or pending yet.
LEMMA InitContiguous == Init => NoncesContiguous
  <1> SUFFICES ASSUME Init PROVE NoncesContiguous
    BY Zenon
  <1>1. ASSUME NEW s \in Sender
        PROVE  mined[s] = {} /\ PendingNonces(s) = {} /\ account[s].nonce = 0
    BY Zenon DEF Init, EmptyPool, PendingNonces
  <1>2. Cardinality({}) = 0 /\ 1 .. 0 + 0 = {}
    BY FS_EmptySet
  <1>3. ASSUME NEW s \in Sender
        PROVE  /\ mined[s] \cap PendingNonces(s) = {}
               /\ Cardinality(mined[s]) = account[s].nonce
               /\ mined[s] \cup PendingNonces(s)
                     = 1 .. account[s].nonce + Cardinality(PendingNonces(s))
    BY <1>1, <1>2, ZenonT(60)
  <1> QED BY <1>3, Zenon DEF NoncesContiguous

\* As long as a node mines alone, every sender's confirmed and pending nonces
\* are 1 .. k without gap or repetition, for any order in which blocks take
\* transactions and any sequence of replacements.
THEOREM LocalNoncesContiguous == Spec => []NoncesContiguous
  BY InitPoolInv, NextPoolInv, InitContiguous, NextContiguous, PTL DEF Spec

-----------------------------------------------------------------------------
\* What EvictionJustified demands of one step.
EvictionStep ==
    (account' = account /\ mined' = mined) =>
        \A old \in pool.txs \ pool'.txs :
            \E new \in pool'.txs \ pool.txs :
                /\ old.from = new.from
                /\ old.nonce >= new.nonce \/ new.nonce = U64Max
                /\ \E c \in pool.txs \ pool'.txs :
                      /\ c.from = new.from
                      /\ c.nonce = new.nonce
                      /\ new.len < c.len

\* The evicted transactions are the conflicting one and later ones, and the
\* fee bump rule makes the new transaction shorter than the conflicting one.
LEMMA ReplacementJustified ==
    ASSUME PoolInv, NEW tx \in Transaction, InsertReplacement(tx)
    PROVE  EvictionStep
  <1> DEFINE evicted == find_replaceable(pool, tx)
             c == Conflict(pool, tx)
  <1>1. /\ tx.from \in Sender /\ tx.nonce \in Nonce /\ U64Max \in Nat
        /\ pool \in Pools /\ Consistent(pool)
        /\ CanReplace(pool, tx, account[tx.from])
    BY TransactionFields, U64MaxAssumption, Zenon
       DEF PoolInv, TypeOK, IndexConsistent, InsertReplacement
  <1>2. pool'.txs = (pool.txs \ evicted) \cup {tx} /\ tx \notin pool.txs
    BY <1>1, ReplacedFacts, Zenon DEF InsertReplacement, CanReplace, Admissible
  <1>3. /\ c \in evicted /\ c \in pool.txs /\ evicted \subseteq pool.txs
        /\ c.from = tx.from /\ c.nonce = tx.nonce
    BY <1>1, ReplaceableFacts, Zenon DEF CanReplace
  <1>4. tx.len < c.len
    <2>1. tx.len \in Nat \ {0} /\ c.len \in Nat \ {0}
      BY <1>1, <1>3, TransactionFields, ZenonT(30) DEF Pools
    <2>2. c.len * 10000 >= tx.len * 13000
      BY <1>1 DEF CanReplace, feerate_bump_ok, RBF_BPS_DENOMINATOR, RBF_MIN_DELTA_BPS
    <2> QED BY <2>1, <2>2
  <1>5. ASSUME NEW old \in pool.txs \ pool'.txs, tx.nonce # U64Max
        PROVE  old.nonce >= tx.nonce
    <2>1. Wrap64(tx.nonce + 1) = tx.nonce + 1
      BY <1>1, <1>5 DEF Wrap64, Nonce
    <2>2. old \in evicted
      BY <1>2, Zenon
    <2>3. PICK k \in {tx.nonce} \cup {m \in Nonce : m >= tx.nonce + 1} :
             old = pool.by_sender[tx.from][k] /\ old # NoTx
      BY <2>1, <2>2, Zenon DEF find_replaceable
    <2>4. old.nonce = k
      BY <1>1, <2>3 DEF Consistent
    <2> QED BY <1>1, <2>3, <2>4 DEF Nonce
  <1>6. ASSUME NEW old \in pool.txs \ pool'.txs PROVE old.from = tx.from
    <2>1. old \in evicted
      BY <1>2, Zenon
    <2>2. PICK k \in Nonce : old = pool.by_sender[tx.from][k] /\ old # NoTx
      BY <1>1, <2>1, Zenon DEF find_replaceable
    <2> QED BY <1>1, <2>2, Zenon DEF Consistent
  <1> HIDE DEF evicted, c
  <1>7. c \in pool.txs \ pool'.txs /\ tx \in pool'.txs \ pool.txs
    BY <1>2, <1>3, Zenon
  <1> QED BY <1>3, <1>4, <1>5, <1>6, <1>7, Zenon DEF EvictionStep

\* A block that takes transactions out of the pool moves an account nonce.
LEMMA CommitMovesAccount ==
    ASSUME PoolInv, NEW block_txs \in SUBSET Transaction, IsFiniteSet(block_txs),
           CommitBlock(block_txs)
    PROVE  EvictionStep
  <1> SUFFICES ASSUME NEW t \in pool.txs \ pool'.txs PROVE account' # account
    BY Zenon DEF EvictionStep
  <1> DEFINE s == t.from
             own == {u \in block_txs : u.from = s}
  <1>1. t \in block_txs /\ s \in Sender
    BY TransactionFields, Zenon DEF CommitBlock, remove
  <1>2. IsFiniteSet(own) /\ t \in own
    BY <1>1, FS_Subset, Zenon
  <1>3. account'[s].nonce = account[s].nonce + Cardinality(own)
    BY <1>1 DEF CommitBlock
  <1> HIDE DEF own
  <1>4. Cardinality(own) \in Nat /\ Cardinality(own) # 0
    BY <1>2, FS_CardinalityType, FS_EmptySet, Zenon
  <1>5. account[s].nonce \in Nat
    BY <1>1, Zenon DEF PoolInv, TypeOK, Account
  <1> HIDE DEF s
  <1>6. account'[s].nonce # account[s].nonce
    BY <1>3, <1>4, <1>5
  <1> QED BY <1>6, Zenon

\* Only a fee bump by the same sender drops a pending transaction.
THEOREM PoolEvictionJustified == Spec => EvictionJustified
  <1>1. ASSUME PoolInv, [Next]_vars PROVE [EvictionStep]_vars
    <2>1. ASSUME NEW tx \in Transaction, InsertNew(tx) PROVE EvictionStep
      <3>1. pool \in Pools /\ Consistent(pool)
        BY <1>1, Zenon DEF PoolInv, TypeOK, IndexConsistent
      <3>2. pool'.txs = pool.txs \cup {tx}
        BY <2>1, <3>1, AcceptedFacts, ZenonT(30) DEF InsertNew
      <3> QED BY <3>2, Zenon DEF EvictionStep
    <2>2. ASSUME NEW tx \in Transaction, InsertReplacement(tx) PROVE EvictionStep
      BY <1>1, <2>2, ReplacementJustified, Zenon
    <2>3. CASE CommitOwnBlock
      <3>1. PICK block_txs \in SUBSET pool.txs : CommitBlock(block_txs)
        BY <2>3, Zenon DEF CommitOwnBlock
      <3>2. block_txs \in SUBSET Transaction /\ IsFiniteSet(block_txs)
        BY <1>1, FS_Subset, Zenon DEF PoolInv, TypeOK, Pools
      <3> QED BY <1>1, <3>1, <3>2, CommitMovesAccount, Zenon
    <2>4. CASE CommitPeerBlock
      <3>1. PICK block_txs \in SUBSET Transaction :
               IsFiniteSet(block_txs) /\ CommitBlock(block_txs)
        BY <2>4, Zenon DEF CommitPeerBlock
      <3> QED BY <1>1, <3>1, CommitMovesAccount, Zenon
    <2> QED BY <1>1, <2>1, <2>2, <2>3, <2>4, Zenon DEF Next, Insert
  <1>2. EvictionJustified <=> [][EvictionStep]_vars
    BY PTL DEF EvictionJustified, EvictionStep
  <1> QED BY <1>1, <1>2, InitPoolInv, NextPoolInv, PTL DEF Spec

=============================================================================
