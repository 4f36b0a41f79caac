----------------------------- MODULE ChainProofs -----------------------------
(***************************************************************************)
(* Proofs about Network and Durability, for any number of nodes, blocks,   *)
(* transactions and crashes.                                               *)
(***************************************************************************)
EXTENDS Durability, FiniteSetTheorems, TLAPS

-----------------------------------------------------------------------------
(* Induction: a set of naturals has a least element. *)

\* The least-number principle, from the well-foundedness of the naturals.
LEMMA LeastOf ==
  ASSUME NEW T \in SUBSET Nat, T # {}
  PROVE  \E x \in T : \A y \in T : x <= y
<1> DEFINE R == {ss \in Nat \X Nat : ss[1] < ss[2]}
<1>1. IsWellFoundedOn(R, Nat)
  BY NatLessThanWellFounded, Zenon DEF OpToRel
<1>2. \E x \in T : \A y \in T : ~(<<y, x>> \in R)
  <2> HIDE DEF R
  <2> QED BY WFMin, <1>1, Zenon
<1>3. PICK x \in T : \A y \in T : ~(<<y, x>> \in R)
  BY <1>2, Zenon
<1>4. \A y \in T : ~(y < x)
  BY <1>3, Zenon DEF R
<1> QED BY <1>4

\* Induction over the naturals for a set: what holds 0 and with every number
\* its successor holds every number.
LEMMA Inductive ==
  ASSUME NEW S, 0 \in S, \A k \in Nat : k \in S => k + 1 \in S
  PROVE  Nat \subseteq S
<1> DEFINE T == {k \in Nat : k \notin S}
<1> SUFFICES ASSUME T # {} PROVE FALSE
  BY Zenon
<1>1. PICK k \in T : \A y \in T : k <= y
  BY LeastOf, Zenon
<1>2. k # 0 /\ k - 1 \in Nat /\ k - 1 \notin T
  BY <1>1
<1> QED BY <1>2

-----------------------------------------------------------------------------
(* Reconstruction of a chain, block by block *)

\* What rebuild_from_chain does with one block.
ReplayStep(chain, time, r, block) ==
    IF r.ok THEN validate_and_apply(r.state, block,
                                    SubSeq(chain, 1, block.index), time)
            ELSE r

\* The function the fold of rebuild_from_chain recurses with.
IsReplay(g, chain, n, time) ==
    g = [s \in SUBSET (1 .. n) |->
            IF s = {} THEN Ok(EmptyState)
            ELSE ReplayStep(chain, time, g[s \ {Max(s)}], chain[Max(s)])]

\* The greatest element of a set below a number it contains.
LEMMA MaxIsTop ==
  ASSUME NEW n \in Nat, NEW s \in SUBSET (1 .. n), n \in s
  PROVE  Max(s) = n /\ s \ {Max(s)} \in SUBSET (1 .. (n - 1)) /\ s # {}
<1>1. n \in s /\ \A y \in s : n >= y
  OBVIOUS
<1>2. \A x \in s : (\A y \in s : x >= y) => x = n
  OBVIOUS
<1>3. Max(s) = n
  BY <1>1, <1>2, Zenon DEF Max
<1> QED BY <1>3

\* The fold is well defined: such a function exists.
LEMMA ReplayExists ==
  ASSUME NEW chain, NEW time
  PROVE  \A n \in Nat : \E g : IsReplay(g, chain, n, time)
<1> DEFINE S == {n \in Nat : \E g : IsReplay(g, chain, n, time)}
           Step(r, block) == ReplayStep(chain, time, r, block)
           Base == Ok(EmptyState)
<1>1. 0 \in S
  <2> DEFINE g == [s \in SUBSET (1 .. 0) |-> Base]
  <2>1. \A s \in SUBSET (1 .. 0) : s = {}
    OBVIOUS
  <2>2. IsReplay(g, chain, 0, time)
    <3> HIDE DEF Base
    <3> QED BY <2>1, Zenon DEF IsReplay, Base
  <2> QED BY <2>2, Zenon
<1>2. ASSUME NEW n \in Nat, n \in S PROVE n + 1 \in S
  <2>1. PICK g : IsReplay(g, chain, n, time)
    BY <1>2, Zenon
  <2> DEFINE h == [s \in SUBSET (1 .. n + 1) |->
                     IF n + 1 \in s THEN Step(g[s \ {n + 1}], chain[n + 1])
                     ELSE g[s]]
  <2>2. ASSUME NEW s \in SUBSET (1 .. n + 1)
        PROVE  h[s] = IF s = {} THEN Base ELSE Step(h[s \ {Max(s)}], chain[Max(s)])
    <3>1. CASE n + 1 \in s
      <4>1. Max(s) = n + 1 /\ s \ {Max(s)} \in SUBSET (1 .. n) /\ s # {}
        BY <3>1, MaxIsTop, n + 1 \in Nat, (n + 1) - 1 = n, Zenon
      <4>2. s \ {n + 1} \in SUBSET (1 .. n + 1) /\ n + 1 \notin s \ {n + 1}
        BY <4>1, Zenon
      <4>3. h[s \ {n + 1}] = g[s \ {n + 1}]
        BY <4>2, Zenon
      <4>4. h[s] = Step(g[s \ {n + 1}], chain[n + 1])
        BY <3>1, Zenon
      <4> HIDE DEF h, Step, Base
      <4> QED BY <4>1, <4>3, <4>4, Zenon
    <3>2. CASE n + 1 \notin s
      <4>1. s \in SUBSET (1 .. n)
        BY <3>2
      <4>2. h[s] = g[s]
        BY <3>2, Zenon
      <4>3. g[s] = IF s = {} THEN Base ELSE Step(g[s \ {Max(s)}], chain[Max(s)])
        BY <2>1, <4>1, Zenon DEF IsReplay
      <4>4. s \ {Max(s)} \in SUBSET (1 .. n + 1) /\ n + 1 \notin s \ {Max(s)}
        BY <3>2, Zenon
      <4>5. h[s \ {Max(s)}] = g[s \ {Max(s)}]
        BY <4>4, Zenon
      <4> HIDE DEF h, Step, Base
      <4> QED BY <4>2, <4>3, <4>5, Zenon
    <3> QED BY <3>1, <3>2, Zenon
  <2>3. h = [s \in SUBSET (1 .. n + 1) |-> h[s]]
    BY Zenon
  <2>4. h = [s \in SUBSET (1 .. n + 1) |->
               IF s = {} THEN Base ELSE Step(h[s \ {Max(s)}], chain[Max(s)])]
    <3> HIDE DEF h, Step, Base
    <3> QED BY <2>2, <2>3, Zenon
  <2>5. IsReplay(h, chain, n + 1, time)
    <3> HIDE DEF h
    <3> QED BY <2>4, Zenon DEF IsReplay
  <2> QED BY <2>5
<1>3. Nat \subseteq S
  <2> HIDE DEF S
  <2> QED BY <1>1, <1>2, Inductive, Zenon
<1> QED BY <1>3, Zenon

\* The first n blocks of two chains are the same, and so are the chains these
\* blocks are validated on.
SameBlocks(c, d, n) ==
    \A i \in 1 .. n : /\ c[i] = d[i]
                      /\ SubSeq(c, 1, c[i].index) = SubSeq(d, 1, c[i].index)

\* Two reconstructions agree on the blocks their chains share.
LEMMA ReplayAgrees ==
  ASSUME NEW c, NEW d, NEW g, NEW h, NEW time,
         NEW n \in Nat, NEW m \in Nat, n <= m,
         IsReplay(g, c, n, time), IsReplay(h, d, m, time), SameBlocks(c, d, n)
  PROVE  g[1 .. n] = h[1 .. n]
<1> DEFINE S == {k \in Nat : k <= n => \A s \in SUBSET (1 .. k) : g[s] = h[s]}
<1>1. ASSUME NEW s \in SUBSET (1 .. n)
      PROVE  /\ g[s] = IF s = {} THEN Ok(EmptyState)
                       ELSE ReplayStep(c, time, g[s \ {Max(s)}], c[Max(s)])
             /\ h[s] = IF s = {} THEN Ok(EmptyState)
                       ELSE ReplayStep(d, time, h[s \ {Max(s)}], d[Max(s)])
  <2>1. s \in SUBSET (1 .. m)
    OBVIOUS
  <2> QED BY <2>1, Zenon DEF IsReplay
<1>2. 0 \in S
  <2>1. \A s \in SUBSET (1 .. 0) : s = {}
    OBVIOUS
  <2>2. \A s \in SUBSET (1 .. 0) : g[s] = h[s]
    BY <2>1, <1>1, {} \in SUBSET (1 .. n), Zenon
  <2> QED BY <2>2, Zenon
<1>3. ASSUME NEW k \in Nat, k \in S PROVE k + 1 \in S
  <2> SUFFICES ASSUME k + 1 <= n, NEW s \in SUBSET (1 .. k + 1)
               PROVE  g[s] = h[s]
    OBVIOUS
  <2>1. \A t \in SUBSET (1 .. k) : g[t] = h[t]
    BY <1>3
  <2>2. CASE k + 1 \notin s
    BY <2>1, <2>2, s \in SUBSET (1 .. k), Zenon
  <2>3. CASE k + 1 \in s
    <3>1. Max(s) = k + 1 /\ s \ {Max(s)} \in SUBSET (1 .. k) /\ s # {}
      BY <2>3, MaxIsTop, k + 1 \in Nat, (k + 1) - 1 = k, Zenon
    <3>2. g[s \ {Max(s)}] = h[s \ {Max(s)}]
      BY <2>1, <3>1, Zenon
    <3>3. s \in SUBSET (1 .. n) /\ k + 1 \in 1 .. n
      OBVIOUS
    <3>4. ReplayStep(c, time, g[s \ {Max(s)}], c[Max(s)])
            = ReplayStep(d, time, h[s \ {Max(s)}], d[Max(s)])
      BY <3>1, <3>2, <3>3, Zenon DEF ReplayStep, SameBlocks
    <3> QED BY <1>1, <3>1, <3>3, <3>4, Zenon
  <2> QED BY <2>2, <2>3, Zenon
<1>4. n \in S
  <2>1. Nat \subseteq S
    <3> HIDE DEF S
    <3> QED BY <1>2, <1>3, Inductive, Zenon
  <2> QED BY <2>1, Zenon
<1> QED BY <1>4

\* Its values at the prefixes of the chain.
LEMMA ReplayPrefix ==
  ASSUME NEW g, NEW chain, NEW n \in Nat, NEW time, IsReplay(g, chain, n, time)
  PROVE  /\ g[1 .. 0] = Ok(EmptyState)
         /\ \A k \in 1 .. n :
              g[1 .. k] = ReplayStep(chain, time, g[1 .. (k - 1)], chain[k])
<1>1. \A s \in SUBSET (1 .. n) :
        g[s] = IF s = {} THEN Ok(EmptyState)
               ELSE ReplayStep(chain, time, g[s \ {Max(s)}], chain[Max(s)])
  BY Zenon DEF IsReplay
<1>2. 1 .. 0 = {} /\ {} \in SUBSET (1 .. n)
  OBVIOUS
<1>3. ASSUME NEW k \in 1 .. n
      PROVE  g[1 .. k] = ReplayStep(chain, time, g[1 .. (k - 1)], chain[k])
  <2>1. 1 .. k \in SUBSET (1 .. k) /\ k \in 1 .. k /\ k \in Nat /\ 1 .. k \in SUBSET (1 .. n)
    OBVIOUS
  <2>2. Max(1 .. k) = k /\ 1 .. k # {}
    BY <2>1, MaxIsTop, Zenon
  <2>3. (1 .. k) \ {k} = 1 .. (k - 1)
    OBVIOUS
  <2>4. g[1 .. k] = ReplayStep(chain, time, g[(1 .. k) \ {k}], chain[k])
    BY <1>1, <2>1, <2>2, Zenon
  <2> QED BY <2>3, <2>4, Zenon
<1> QED BY <1>1, <1>2, <1>3, Zenon

\* rebuild_from_chain is the value of that function at the whole chain.
LEMMA RebuildIsReplay ==
  ASSUME NEW chain, NEW n \in Nat, DOMAIN chain = 1 .. n, NEW time
  PROVE  \E g : IsReplay(g, chain, n, time) /\ rebuild_from_chain(chain, time) = g[1 .. n]
<1> DEFINE h == CHOOSE g : g = [s \in SUBSET (1 .. n) |->
                 IF s = {} THEN Ok(EmptyState)
                 ELSE ReplayStep(chain, time, g[s \ {Max(s)}], chain[Max(s)])]
<1>1. rebuild_from_chain(chain, time) = h[1 .. n]
  BY Zenon DEF rebuild_from_chain, fold, MapThenFoldSet, ReplayStep
<1>2. \E g : IsReplay(g, chain, n, time)
  BY ReplayExists, Zenon
<1>3. IsReplay(h, chain, n, time)
  BY <1>2, Zenon DEF IsReplay
<1> QED BY <1>1, <1>3, Zenon

\* A chain with one block more: the block is validated and applied on what
\* the chain below it yields.
LEMMA RebuildAppend ==
  ASSUME NEW B, NEW chain \in Seq(B), NEW block \in B, NEW time,
         \A i \in 1 .. Len(chain) : chain[i].index \in 0 .. Len(chain),
         block.index = Len(chain),
         rebuild_from_chain(chain, time).ok
  PROVE  rebuild_from_chain(Append(chain, block), time)
           = validate_and_apply(rebuild_from_chain(chain, time).state, block, chain, time)
<1> DEFINE n == Len(chain)
           longer == Append(chain, block)
<1>1. /\ n \in Nat /\ n + 1 \in Nat /\ n <= n + 1 /\ DOMAIN chain = 1 .. n
      /\ longer \in Seq(B) /\ DOMAIN longer = 1 .. n + 1 /\ longer[n + 1] = block
      /\ \A i \in 1 .. n : longer[i] = chain[i]
      /\ \A k \in 0 .. n : SubSeq(longer, 1, k) = SubSeq(chain, 1, k)
      /\ SubSeq(longer, 1, n) = chain
  OBVIOUS
<1> HIDE DEF n, longer
<1>2. PICK g : IsReplay(g, chain, n, time) /\ rebuild_from_chain(chain, time) = g[1 .. n]
  BY <1>1, RebuildIsReplay
<1>3. PICK h : /\ IsReplay(h, longer, n + 1, time)
               /\ rebuild_from_chain(longer, time) = h[1 .. n + 1]
  BY <1>1, RebuildIsReplay
<1>4. g[1 .. n] = h[1 .. n]
  <2>1. SameBlocks(chain, longer, n)
    BY <1>1, Zenon DEF n, SameBlocks
  <2>2. n \in Nat /\ n + 1 \in Nat /\ n <= n + 1
    BY <1>1, Zenon
  <2>3. IsReplay(g, chain, n, time) /\ IsReplay(h, longer, n + 1, time)
    BY <1>2, <1>3, Zenon
  <2> QED BY <2>1, <2>2, <2>3, ReplayAgrees, ZenonT(30)
<1>5. h[1 .. n + 1] = ReplayStep(longer, time, h[1 .. n], block)
  <2>1. n + 1 \in 1 .. n + 1 /\ (n + 1) - 1 = n
    BY <1>1
  <2> QED BY <1>1, <1>3, <2>1, ReplayPrefix
<1>6. ReplayStep(longer, time, rebuild_from_chain(chain, time), block)
        = validate_and_apply(rebuild_from_chain(chain, time).state, block, chain, time)
  BY <1>1, Zenon DEF ReplayStep, n
<1> QED BY <1>2, <1>3, <1>4, <1>5, <1>6, Zenon DEF longer

\* A block that validates at some time also validates later, to the same
\* state.
LEMMA ValidLater ==
  ASSUME NEW s, NEW block, NEW chain, NEW t1 \in Nat, NEW t2 \in Nat, t1 <= t2,
         block.timestamp \in Nat,
         validate_and_apply(s, block, chain, t1).ok
  PROVE  validate_and_apply(s, block, chain, t2) = validate_and_apply(s, block, chain, t1)
<1>1. ValidHeader(block, chain, t1)
  <2>1. CASE ~ValidHeader(block, chain, t1)
    <3>1. validate_and_apply(s, block, chain, t1) = Fail(s)
      BY <2>1, Zenon DEF validate_and_apply
    <3>2. Fail(s).ok = FALSE
      BY Zenon DEF Fail
    <3> QED BY <3>1, <3>2, Zenon
  <2> QED BY <2>1, Zenon
<1>2. validate_timestamp(block, chain, t2)
  <2>1. validate_timestamp(block, chain, t1)
    BY <1>1, Zenon DEF ValidHeader
  <2>2. block.timestamp <= t1 + MAX_FUTURE_TIME => block.timestamp <= t2 + MAX_FUTURE_TIME
    BY NodeConstants
  <2> QED BY <2>1, <2>2, Zenon DEF validate_timestamp
<1>3. ValidHeader(block, chain, t2)
  BY <1>1, <1>2, Zenon DEF ValidHeader
<1> QED BY <1>1, <1>3, Zenon DEF validate_and_apply

\* A chain that passes validation passes it later as well, to the same state.
LEMMA RebuildLater ==
  ASSUME NEW chain, NEW n \in Nat, DOMAIN chain = 1 .. n,
         \A i \in 1 .. n : chain[i].timestamp \in Nat,
         NEW t1 \in Nat, NEW t2 \in Nat, t1 <= t2,
         rebuild_from_chain(chain, t1).ok
  PROVE  rebuild_from_chain(chain, t2) = rebuild_from_chain(chain, t1)
<1>1. PICK g : IsReplay(g, chain, n, t1) /\ rebuild_from_chain(chain, t1) = g[1 .. n]
  BY RebuildIsReplay, ZenonT(30)
<1>2. PICK h : IsReplay(h, chain, n, t2) /\ rebuild_from_chain(chain, t2) = h[1 .. n]
  BY RebuildIsReplay, ZenonT(30)
<1> DEFINE S == {k \in Nat : (k <= n /\ g[1 .. k].ok) => h[1 .. k] = g[1 .. k]}
<1>3. 0 \in S
  BY <1>1, <1>2, ReplayPrefix, Zenon
<1>4. ASSUME NEW k \in Nat, k \in S PROVE k + 1 \in S
  <2> SUFFICES ASSUME k + 1 <= n, g[1 .. k + 1].ok
               PROVE  h[1 .. k + 1] = g[1 .. k + 1]
    OBVIOUS
  <2>1. k + 1 \in 1 .. n /\ (k + 1) - 1 = k /\ k <= n
    OBVIOUS
  <2> DEFINE below == SubSeq(chain, 1, chain[k + 1].index)
  <2>2. /\ g[1 .. k + 1] = ReplayStep(chain, t1, g[1 .. k], chain[k + 1])
        /\ h[1 .. k + 1] = ReplayStep(chain, t2, h[1 .. k], chain[k + 1])
    <3>1. \A j \in 1 .. n : /\ g[1 .. j] = ReplayStep(chain, t1, g[1 .. (j - 1)], chain[j])
                            /\ h[1 .. j] = ReplayStep(chain, t2, h[1 .. (j - 1)], chain[j])
      BY <1>1, <1>2, ReplayPrefix, SMTT(30)
    <3> QED BY <2>1, <3>1, Zenon
  <2>3. g[1 .. k].ok
    BY <2>2, Zenon DEF ReplayStep
  <2>4. h[1 .. k] = g[1 .. k]
    BY <1>4, <2>1, <2>3, Zenon
  <2>5. g[1 .. k + 1] = validate_and_apply(g[1 .. k].state, chain[k + 1], below, t1)
    BY <2>2, <2>3, Zenon DEF ReplayStep
  <2>6. h[1 .. k + 1] = validate_and_apply(g[1 .. k].state, chain[k + 1], below, t2)
    BY <2>2, <2>3, <2>4, Zenon DEF ReplayStep
  <2>7. chain[k + 1].timestamp \in Nat
    BY <2>1, Zenon
  <2> HIDE DEF below
  <2> QED BY <2>5, <2>6, <2>7, ValidLater
<1>5. n \in S
  <2>1. Nat \subseteq S
    <3> HIDE DEF S
    <3> QED BY <1>3, <1>4, Inductive, Zenon
  <2> QED BY <2>1, Zenon
<1> QED BY <1>1, <1>2, <1>5

\* The chain of the genesis block passes validation, to its own state.
LEMMA RebuildGenesis ==
  ASSUME NEW time
  PROVE  /\ rebuild_from_chain(<<GenesisBlock>>, time).ok
         /\ rebuild_from_chain(<<GenesisBlock>>, time).state
              = apply_block(EmptyState, GenesisBlock).state
<1> DEFINE chain == <<GenesisBlock>>
           tx == coinbase(holder, GenesisAmount)
           Step(r, t) == IF r.ok THEN credit(r.state, t.to, t.amount) ELSE r
           F == [s \in SUBSET {1} |-> IF s = {} THEN Ok(EmptyState)
                                      ELSE Step(Ok(EmptyState), tx)]
           f == CHOOSE g : g = [s \in SUBSET {1} |->
                  IF s = {} THEN Ok(EmptyState)
                  ELSE Step(g[s \ {Max(s)}], GenesisBlock.transactions[Max(s)])]
<1>1. /\ GenesisBlock.index = 0 /\ GenesisBlock.previous_hash = NoHash
      /\ GenesisBlock.transactions[1] = tx
      /\ DOMAIN GenesisBlock.transactions = {1}
      /\ tx.signed = TRUE /\ tx.chain_id = ChainId /\ tx.to = holder
      /\ tx.amount = GenesisAmount
  <2>1. GenesisBlock.transactions = <<tx>>
    BY Zenon DEF GenesisBlock
  <2>2. DOMAIN <<tx>> = {1} /\ <<tx>>[1] = tx
    <3> HIDE DEF tx
    <3> QED OBVIOUS
  <2>3. tx.signed = TRUE /\ tx.chain_id = ChainId /\ tx.to = holder /\ tx.amount = GenesisAmount
    BY Zenon DEF coinbase
  <2>4. GenesisBlock.index = 0 /\ GenesisBlock.previous_hash = NoHash
    BY Zenon DEF GenesisBlock
  <2> QED BY <2>1, <2>2, <2>3, <2>4, Zenon
<1>2. apply_block(EmptyState, GenesisBlock) = f[{1}]
  BY <1>1, Zenon DEF apply_block, apply_genesis, fold, MapThenFoldSet
<1>3. \A s \in SUBSET {1} : s # {} => s = {1} /\ Max(s) = 1 /\ s \ {Max(s)} = {}
  <2>1. Max({1}) = 1
    <3>1. 1 \in {1} /\ {1} \in SUBSET (1 .. 1) /\ 1 \in Nat
      OBVIOUS
    <3> QED BY <3>1, MaxIsTop, Zenon
  <2>2. \A s \in SUBSET {1} : s # {} => s = {1}
    BY Zenon
  <2>3. {1} \ {1} = {}
    BY Zenon
  <2> QED BY <2>1, <2>2, <2>3, Zenon
<1> HIDE DEF tx, Step
<1>4. F = [s \in SUBSET {1} |->
            IF s = {} THEN Ok(EmptyState)
            ELSE Step(F[s \ {Max(s)}], GenesisBlock.transactions[Max(s)])]
  <2>1. \A s \in SUBSET {1} :
          F[s] = IF s = {} THEN Ok(EmptyState)
                 ELSE Step(F[s \ {Max(s)}], GenesisBlock.transactions[Max(s)])
    BY <1>1, <1>3, Zenon
  <2> HIDE DEF F
  <2>2. F = [s \in SUBSET {1} |-> F[s]]
    BY Zenon DEF F
  <2> QED BY <2>1, <2>2, Zenon
<1>5. f = [s \in SUBSET {1} |->
            IF s = {} THEN Ok(EmptyState)
            ELSE Step(f[s \ {Max(s)}], GenesisBlock.transactions[Max(s)])]
  <2> HIDE DEF F
  <2> QED BY <1>4, Zenon
<1>6. f[{1}] = Step(Ok(EmptyState), tx)
  <2> HIDE DEF f
  <2>1. \A s \in SUBSET {1} :
          f[s] = IF s = {} THEN Ok(EmptyState)
                 ELSE Step(f[s \ {Max(s)}], GenesisBlock.transactions[Max(s)])
    BY <1>5, Zenon
  <2>2. f[{}] = Ok(EmptyState)
    BY <2>1, {} \in SUBSET {1}, Zenon
  <2>3. {1} \in SUBSET {1} /\ {1} # {}
    BY Zenon
  <2>4. f[{1}] = Step(f[{1} \ {Max({1})}], GenesisBlock.transactions[Max({1})])
    BY <2>1, <2>3, Zenon
  <2> QED BY <1>1, <1>3, <2>2, <2>3, <2>4, Zenon
<1>7. Step(Ok(EmptyState), tx).ok
  <2>1. EmptyState[holder].balance + GenesisAmount <= BalanceMax
    BY NodeConstants DEF EmptyState, EmptyAccount
  <2>2. Ok(EmptyState).ok = TRUE /\ Ok(EmptyState).state = EmptyState
    BY Zenon DEF Ok
  <2>3. Step(Ok(EmptyState), tx) = credit(EmptyState, holder, GenesisAmount)
    BY <1>1, <2>2, Zenon DEF Step
  <2>4. credit(EmptyState, holder, GenesisAmount).ok = TRUE
    <3>1. ~(EmptyState[holder].balance + GenesisAmount > BalanceMax)
      BY <2>1, NodeConstants, EmissionConstants DEF EmptyState, EmptyAccount
    <3> QED BY <3>1, Zenon DEF credit, Ok
  <2> QED BY <2>3, <2>4, Zenon
<1>8. ValidHeader(GenesisBlock, <<>>, time)
  <2>1. validate_position(GenesisBlock, <<>>) /\ validate_timestamp(GenesisBlock, <<>>, time)
    BY <1>1, Zenon DEF validate_position, validate_timestamp
  <2>2. \A i \in DOMAIN GenesisBlock.transactions :
           /\ verify_transaction(GenesisBlock.transactions[i])
           /\ GenesisBlock.transactions[i].chain_id = ChainId
    BY <1>1, Zenon DEF verify_transaction
  <2> QED BY <2>1, <2>2, Zenon DEF ValidHeader
<1>9. validate_and_apply(EmptyState, GenesisBlock, <<>>, time)
        = apply_block(EmptyState, GenesisBlock)
  BY <1>1, <1>8 DEF validate_and_apply
<1>10. rebuild_from_chain(chain, time) = validate_and_apply(EmptyState, GenesisBlock, <<>>, time)
  <2>1. DOMAIN chain = 1 .. 1 /\ chain[1] = GenesisBlock /\ SubSeq(chain, 1, 0) = <<>>
    OBVIOUS
  <2> HIDE DEF chain
  <2>2. PICK g : IsReplay(g, chain, 1, time) /\ rebuild_from_chain(chain, time) = g[1 .. 1]
    BY <2>1, RebuildIsReplay, Zenon
  <2>3. g[1 .. 1] = ReplayStep(chain, time, g[1 .. 0], GenesisBlock) /\ g[1 .. 0] = Ok(EmptyState)
    <3>1. 1 \in 1 .. 1 /\ 1 - 1 = 0 /\ 1 \in Nat
      OBVIOUS
    <3>2. \A n \in Nat : IsReplay(g, chain, n, time) =>
             /\ g[1 .. 0] = Ok(EmptyState)
             /\ \A k \in 1 .. n :
                  g[1 .. k] = ReplayStep(chain, time, g[1 .. (k - 1)], chain[k])
      BY ReplayPrefix
    <3> QED BY <2>1, <2>2, <3>1, <3>2, Zenon
  <2>4. Ok(EmptyState).ok = TRUE /\ Ok(EmptyState).state = EmptyState
    BY Zenon DEF Ok
  <2> QED BY <1>1, <2>1, <2>2, <2>3, <2>4, Zenon DEF ReplayStep
<1> QED BY <1>2, <1>6, <1>7, <1>9, <1>10, Zenon

-----------------------------------------------------------------------------
(* Chains and the order of fork choice *)

\* A chain: not empty, its blocks numbered, times and hashes natural numbers.
ChainOK(c) ==
    /\ \E B : c \in Seq(B)
    /\ c # <<>>
    /\ \A i \in 1 .. Len(c) :
          c[i].index = i - 1 /\ c[i].timestamp \in Nat /\ c[i].hash \in Nat

\* The facts about a chain the proofs use.
LEMMA ChainFacts ==
  ASSUME NEW c, ChainOK(c)
  PROVE  /\ Len(c) \in Nat \ {0} /\ DOMAIN c = 1 .. Len(c)
         /\ \A i \in 1 .. Len(c) : c[i].timestamp \in Nat /\ c[i].index \in 0 .. Len(c)
         /\ last(c).timestamp \in Nat /\ last(c).hash \in Nat
         /\ chain_info(c) \in ChainInfo
<1>1. PICK B : c \in Seq(B)
  BY Zenon DEF ChainOK
<1>2. Len(c) \in Nat \ {0} /\ DOMAIN c = 1 .. Len(c)
  BY <1>1 DEF ChainOK
<1>3. last(c).timestamp \in Nat /\ last(c).hash \in Nat
  BY <1>2 DEF ChainOK, last
<1>4. chain_info(c) \in ChainInfo
  BY <1>2, <1>3, Zenon DEF chain_info, ChainInfo
<1> QED BY <1>2, <1>3, <1>4 DEF ChainOK

\* One block more.
LEMMA AppendOK ==
  ASSUME NEW c, ChainOK(c), NEW b,
         b.index = Len(c), b.timestamp \in Nat, b.hash \in Nat
  PROVE  ChainOK(Append(c, b)) /\ Len(Append(c, b)) = Len(c) + 1
<1>1. PICK B : c \in Seq(B)
  BY Zenon DEF ChainOK
<1>2. c \in Seq(B \cup {b})
  BY <1>1
<1>3. /\ Append(c, b) \in Seq(B \cup {b}) /\ Len(Append(c, b)) = Len(c) + 1
      /\ Len(c) \in Nat /\ Append(c, b)[Len(c) + 1] = b
      /\ \A i \in 1 .. Len(c) : Append(c, b)[i] = c[i]
  BY <1>2
<1>4. ASSUME NEW i \in 1 .. Len(c) + 1
      PROVE  LET x == Append(c, b)[i]
             IN  x.index = i - 1 /\ x.timestamp \in Nat /\ x.hash \in Nat
  <2>1. CASE i = Len(c) + 1
    BY <1>3, <2>1
  <2>2. CASE i \in 1 .. Len(c)
    BY <1>3, <2>2, Zenon DEF ChainOK
  <2> QED BY <1>3, <2>1, <2>2
<1>5. Append(c, b) # <<>>
  BY <1>3
<1> QED BY <1>3, <1>4, <1>5, Zenon DEF ChainOK

\* The order of fork choice.
BetterOrSame(c, d) == c = d \/ is_better(chain_info(c), chain_info(d))

\* It is transitive.
LEMMA BetterTransitive ==
  ASSUME NEW c, NEW d, NEW e, ChainOK(c), ChainOK(d), ChainOK(e),
         BetterOrSame(c, d), BetterOrSame(d, e)
  PROVE  BetterOrSame(c, e)
<1>1. ASSUME NEW x \in ChainInfo, NEW y \in ChainInfo, NEW z \in ChainInfo,
             is_better(x, y), is_better(y, z)
      PROVE  is_better(x, z)
  BY <1>1 DEF is_better, ChainInfo
<1> QED BY <1>1, ChainFacts, Zenon DEF BetterOrSame

\* A chain that grew is better.
LEMMA LongerIsBetter ==
  ASSUME NEW c, NEW d, ChainOK(c), Len(d) = Len(c) + 1
  PROVE  is_better(chain_info(d), chain_info(c))
<1>1. chain_info(d).total_work = Len(d) /\ chain_info(c).total_work = Len(c)
  BY Zenon DEF chain_info
<1>2. Len(d) > Len(c)
  BY ChainFacts
<1> QED BY <1>1, <1>2, Zenon DEF is_better

\* The greater of two numbers.
LEMMA MaxOfTwo ==
  ASSUME NEW a \in Int, NEW b \in Int
  PROVE  Max({a, b}) = IF a >= b THEN a ELSE b
<1> DEFINE m == IF a >= b THEN a ELSE b
<1>1. m \in {a, b} /\ \A y \in {a, b} : m >= y
  OBVIOUS
<1>2. \A x \in {a, b} : (\A y \in {a, b} : x >= y) => x = m
  OBVIOUS
<1> QED BY <1>1, <1>2, Zenon DEF Max

\* The median of the last timestamps is the timestamp of a block: a natural
\* number.
LEMMA MedianIsTime ==
  ASSUME NEW c, ChainOK(c)
  PROVE  median_time_past(c) \in Nat
<1> DEFINE n == Len(c)
           a == Max({1, n - MEDIAN_TIME_WINDOW + 1})
           w == a .. n
           AtMost(t) == Cardinality({i \in w : c[i].timestamp <= t})
           G == {t \in {c[i].timestamp : i \in w} : AtMost(t) > Cardinality(w) \div 2}
<1>1. n \in Nat \ {0} /\ \A i \in 1 .. n : c[i].timestamp \in Nat
  BY ChainFacts, Zenon
<1> HIDE DEF n
<1>2. a \in 1 .. n
  <2>1. n - MEDIAN_TIME_WINDOW + 1 \in Int /\ n - MEDIAN_TIME_WINDOW + 1 <= n
    BY <1>1 DEF MEDIAN_TIME_WINDOW
  <2> QED BY <1>1, <2>1, MaxOfTwo
<1> HIDE DEF a
<1>3. \E j \in w : \A i \in w : c[i].timestamp <= c[j].timestamp
  <2> DEFINE S == {k \in Nat : a + k <= n =>
                     \E j \in a .. a + k : \A i \in a .. a + k :
                        c[i].timestamp <= c[j].timestamp}
  <2>1. 0 \in S
    <3>1. a \in a .. a + 0 /\ \A i \in a .. a + 0 : i = a
      BY <1>2
    <3>2. c[a].timestamp <= c[a].timestamp
      BY <1>1, <1>2
    <3> QED BY <3>1, <3>2, Zenon
  <2>2. ASSUME NEW k \in Nat, k \in S PROVE k + 1 \in S
    <3> SUFFICES ASSUME a + (k + 1) <= n
                 PROVE  \E j \in a .. a + (k + 1) : \A i \in a .. a + (k + 1) :
                           c[i].timestamp <= c[j].timestamp
      OBVIOUS
    <3>1. PICK j \in a .. a + k : \A i \in a .. a + k : c[i].timestamp <= c[j].timestamp
      BY <1>1, <1>2, <2>2
    <3>2. /\ j \in 1 .. n /\ a + (k + 1) \in 1 .. n /\ j \in a .. a + (k + 1)
          /\ a + (k + 1) \in a .. a + (k + 1)
          /\ \A i \in a .. a + (k + 1) : i \in 1 .. n /\ (i \in a .. a + k \/ i = a + (k + 1))
      BY <1>1, <1>2
    <3>3. CASE c[a + (k + 1)].timestamp <= c[j].timestamp
      BY <3>1, <3>2, <3>3, Zenon
    <3>4. CASE ~(c[a + (k + 1)].timestamp <= c[j].timestamp)
      <4>1. \A i \in a .. a + (k + 1) : c[i].timestamp <= c[a + (k + 1)].timestamp
        BY <1>1, <3>1, <3>2, <3>4
      <4> QED BY <3>2, <4>1, Zenon
    <3> QED BY <3>3, <3>4, Zenon
  <2>3. Nat \subseteq S
    <3> HIDE DEF S
    <3> QED BY <2>1, <2>2, Inductive, Zenon
  <2>4. n - a \in S /\ a + (n - a) = n
    BY <1>1, <1>2, <2>3
  <2> QED BY <1>1, <2>4
<1>4. PICK j \in w : \A i \in w : c[i].timestamp <= c[j].timestamp
  BY <1>3, Zenon
<1>5. {i \in w : c[i].timestamp <= c[j].timestamp} = w
  BY <1>4, Zenon
<1>6. Cardinality(w) \in Nat /\ Cardinality(w) > Cardinality(w) \div 2
  <2>1. Cardinality(w) \in Nat \ {0}
    <3>1. a \in Int /\ n \in Int /\ ~(a > n)
      BY <1>1, <1>2
    <3>2. Cardinality(a .. n) = n - a + 1
      BY <3>1, FS_Interval, Zenon
    <3> QED BY <1>1, <1>2, <3>2
  <2> HIDE DEF w
  <2> QED BY <2>1
<1>7. c[j].timestamp \in G
  BY <1>4, <1>5, <1>6, Zenon
<1>8. G \in SUBSET Nat
  BY <1>1, <1>2
<1>9. Min(G) \in G
  <2> HIDE DEF G
  <2>1. PICK x \in G : \A y \in G : x <= y
    BY <1>7, <1>8, LeastOf, Zenon
  <2> QED BY <2>1, Zenon DEF Min
<1>10. median_time_past(c) = Min(G)
  BY Zenon DEF median_time_past, n, a
<1> QED BY <1>8, <1>9, <1>10, Zenon

-----------------------------------------------------------------------------
(* What the operations of a node do to its chain and its cache *)

\* A node, or its database, has a chain and balances.
NodeOK(r) == "chain" \in DOMAIN r /\ "balances" \in DOMAIN r /\ ChainOK(r.chain)

\* Its balances are the ones its chain yields.
Faithful(r, time) ==
    /\ rebuild_from_chain(r.chain, time).ok
    /\ rebuild_from_chain(r.chain, time).state = r.balances

\* add_transaction: chain and cache stay.
LEMMA AddTransaction ==
  ASSUME NEW r, NodeOK(r), NEW tx
  PROVE  LET new == add_transaction(r, tx)
         IN  NodeOK(new) /\ new.chain = r.chain /\ new.balances = r.balances
<1> DEFINE p == insert(r.pool, tx, r.balances[tx.from])
<1>1. add_transaction(r, tx) = [r EXCEPT !.pool = p]
  BY Zenon DEF add_transaction
<1> HIDE DEF p
<1>2. /\ [r EXCEPT !.pool = p].chain = r.chain
      /\ [r EXCEPT !.pool = p].balances = r.balances
      /\ DOMAIN [r EXCEPT !.pool = p] = DOMAIN r
  BY Zenon DEF NodeOK
<1> QED BY <1>1, <1>2, Zenon DEF NodeOK

\* commit_block of a block that validates: the chain is longer by the block,
\* and a cache that matched the chain matches it again.
LEMMA CommitBlock ==
  ASSUME NEW r, NodeOK(r), NEW b, NEW time \in Nat,
         b.timestamp \in Nat, b.hash \in Nat, CommitResult(r, b, time).ok
  PROVE  LET new == commit_block(r, b, time)
         IN  /\ NodeOK(new) /\ new.chain = Append(r.chain, b)
             /\ is_better(chain_info(new.chain), chain_info(r.chain))
             /\ Faithful(r, time) => Faithful(new, time)
<1> DEFINE new == commit_block(r, b, time)
<1>1. /\ new.chain = Append(r.chain, b)
      /\ new.balances = CommitResult(r, b, time).state
      /\ "chain" \in DOMAIN new /\ "balances" \in DOMAIN new
  BY Zenon DEF commit_block
<1> HIDE DEF new
<1>2. ChainOK(r.chain)
  BY Zenon DEF NodeOK
<1>3. b.index = Len(r.chain)
  <2>1. ValidHeader(b, r.chain, time)
    <3>1. CASE ~ValidHeader(b, r.chain, time)
      <4>1. CommitResult(r, b, time) = Fail(r.balances)
        BY <3>1, Zenon DEF CommitResult, validate_and_apply
      <4>2. Fail(r.balances).ok = FALSE
        BY Zenon DEF Fail
      <4> QED BY <4>1, <4>2, Zenon
    <3> QED BY <3>1, Zenon
  <2>2. validate_position(b, r.chain) /\ r.chain # <<>>
    BY <1>2, <2>1, Zenon DEF ValidHeader, ChainOK
  <2> QED BY <2>2, Zenon DEF validate_position
<1>4. ChainOK(Append(r.chain, b)) /\ Len(Append(r.chain, b)) = Len(r.chain) + 1
  BY <1>2, <1>3, AppendOK, Zenon
<1>5. is_better(chain_info(Append(r.chain, b)), chain_info(r.chain))
  BY <1>2, <1>4, LongerIsBetter, Zenon
<1>6. ASSUME Faithful(r, time) PROVE Faithful(new, time)
  <2>1. PICK B : r.chain \in Seq(B)
    BY <1>2, Zenon DEF ChainOK
  <2>2. r.chain \in Seq(B \cup {b})
    BY <2>1
  <2>3. \A i \in 1 .. Len(r.chain) : r.chain[i].index \in 0 .. Len(r.chain)
    BY <1>2, ChainFacts, Zenon
  <2>4. rebuild_from_chain(r.chain, time).ok
    BY <1>6, Zenon DEF Faithful
  <2>5. rebuild_from_chain(Append(r.chain, b), time)
          = validate_and_apply(rebuild_from_chain(r.chain, time).state, b, r.chain, time)
    BY <1>3, <2>2, <2>3, <2>4, RebuildAppend, b \in B \cup {b}, ZenonT(30)
  <2> QED BY <1>1, <1>6, <2>5, Zenon DEF Faithful, CommitResult
<1> QED BY <1>1, <1>4, <1>5, <1>6, Zenon DEF NodeOK, new

\* try_adopt_candidate of a chain that is to be adopted: it beats the old one,
\* and the cache is the one it yields.
LEMMA AdoptChain ==
  ASSUME NEW r, NEW c, ChainOK(c), NEW order, NEW time, ShouldAdopt(r, c, time)
  PROVE  LET new == try_adopt_candidate(r, c, order, time)
         IN  /\ NodeOK(new) /\ new.chain = c
             /\ is_better(chain_info(new.chain), chain_info(r.chain))
             /\ Faithful(new, time)
<1> DEFINE new == try_adopt_candidate(r, c, order, time)
<1>1. /\ new.chain = c /\ new.balances = rebuild_from_chain(c, time).state
      /\ "chain" \in DOMAIN new /\ "balances" \in DOMAIN new
  BY Zenon DEF try_adopt_candidate
<1> HIDE DEF new
<1>2. is_better(chain_info(c), chain_info(r.chain)) /\ rebuild_from_chain(c, time).ok
  BY Zenon DEF ShouldAdopt
<1> QED BY <1>1, <1>2, Zenon DEF NodeOK, Faithful, new

-----------------------------------------------------------------------------
(* The steps of Network *)

\* Every chain of a node and every chain mined is a chain.
ChainsInv ==
    /\ DOMAIN node = Nodes
    /\ \A n \in Nodes : NodeOK(node[n])
    /\ \A c \in chains : ChainOK(c)
    /\ now \in Nat

\* Node n becomes r, and the others stay.
Becomes(n, r) ==
    /\ DOMAIN node' = Nodes /\ node'[n] = r
    /\ \A m \in Nodes \ {n} : node'[m] = node[m]
    /\ NodeOK(r)
    /\ now' = now

\* One entry of node is replaced.
LEMMA Replaced1 ==
  ASSUME ChainsInv, NEW n \in Nodes, NEW r, NodeOK(r), now' = now,
         node' = [node EXCEPT ![n] = r]
  PROVE  Becomes(n, r)
BY Zenon DEF ChainsInv, Becomes

\* A transaction leaves chain and cache.
LEMMA TxStep ==
  ASSUME ChainsInv, NEW n \in Nodes, NEW tx, ApplyTx(n, tx)
  PROVE  /\ \E r : Becomes(n, r) /\ r.chain = node[n].chain /\ r.balances = node[n].balances
         /\ chains' = chains
<1> DEFINE r == add_transaction(node[n], tx)
<1>1. node' = [node EXCEPT ![n] = r] /\ chains' = chains /\ now' = now
  BY Zenon DEF ApplyTx
<1>2. NodeOK(r) /\ r.chain = node[n].chain /\ r.balances = node[n].balances
  BY AddTransaction, Zenon DEF ChainsInv
<1> HIDE DEF r
<1>3. Becomes(n, r)
  BY <1>1, <1>2, Replaced1, Zenon
<1> QED BY <1>1, <1>2, <1>3, Zenon

\* A block that is committed makes the chain better and keeps the cache
\* faithful.
Commits(n, r) ==
    /\ Becomes(n, r)
    /\ is_better(chain_info(r.chain), chain_info(node[n].chain))
    /\ Faithful(node[n], now) => Faithful(r, now)

\* A mined block is committed, and its chain is the new one.
LEMMA MineStep ==
  ASSUME ChainsInv, NEW n \in Nodes, MineBlock(n)
  PROVE  \E r : Commits(n, r) /\ chains' = chains \cup {r.chain}
<1>1. PICK txs \in get_pending(node[n].pool), miner \in MinerAddresses(node[n]),
           hash \in (2 .. MaxBlocks + 1) \ {last(c).hash : c \in chains} :
         LET block == NewBlock(node[n], txs, miner, hash, now)
         IN  /\ CommitResult(node[n], block, now).ok
             /\ node' = [node EXCEPT ![n] = commit_block(@, block, now)]
             /\ chains' = chains \cup {Append(node[n].chain, block)}
  BY Zenon DEF MineBlock
<1>2. now' = now
  BY Zenon DEF MineBlock
<1> DEFINE block == NewBlock(node[n], txs, miner, hash, now)
           r == commit_block(node[n], block, now)
<1>3. block.hash \in Nat /\ block.timestamp \in Nat
  <2>1. block.hash = hash /\ block.timestamp = Max({now, median_time_past(node[n].chain) + 1})
    BY Zenon DEF NewBlock
  <2>2. hash \in Nat
    BY NetworkBounds
  <2>3. median_time_past(node[n].chain) \in Nat /\ now \in Nat
    BY MedianIsTime, Zenon DEF ChainsInv, NodeOK
  <2>4. Max({now, median_time_past(node[n].chain) + 1}) \in Nat
    BY <2>3, MaxOfTwo
  <2> HIDE DEF block
  <2> QED BY <2>1, <2>2, <2>4, Zenon
<1>4. /\ CommitResult(node[n], block, now).ok
      /\ node' = [node EXCEPT ![n] = r]
      /\ chains' = chains \cup {Append(node[n].chain, block)}
  BY <1>1, Zenon
<1> HIDE DEF block
<1>5. /\ NodeOK(r) /\ r.chain = Append(node[n].chain, block)
      /\ is_better(chain_info(r.chain), chain_info(node[n].chain))
      /\ Faithful(node[n], now) => Faithful(r, now)
  BY <1>3, <1>4, CommitBlock, Zenon DEF ChainsInv
<1> HIDE DEF r
<1>6. Becomes(n, r)
  BY <1>2, <1>4, <1>5, Replaced1, Zenon
<1> QED BY <1>4, <1>5, <1>6, Zenon DEF Commits

\* So is a block that arrives.
LEMMA BlockStep ==
  ASSUME ChainsInv, NEW n \in Nodes, NEW c \in chains, AddBlock(n, c)
  PROVE  (\E r : Commits(n, r)) /\ chains' = chains
<1> DEFINE r == commit_block(node[n], last(c), now)
<1>1. /\ CommitResult(node[n], last(c), now).ok
      /\ node' = [node EXCEPT ![n] = r] /\ chains' = chains /\ now' = now
  BY Zenon DEF AddBlock
<1>2. last(c).timestamp \in Nat /\ last(c).hash \in Nat
  BY ChainFacts, Zenon DEF ChainsInv
<1>3. /\ NodeOK(r)
      /\ is_better(chain_info(r.chain), chain_info(node[n].chain))
      /\ Faithful(node[n], now) => Faithful(r, now)
  BY <1>1, <1>2, CommitBlock, Zenon DEF ChainsInv
<1> HIDE DEF r
<1>4. Becomes(n, r)
  BY <1>1, <1>3, Replaced1, Zenon
<1> QED BY <1>1, <1>3, <1>4, Zenon DEF Commits

\* A chain that is adopted is better, and the cache is faithful to it.
LEMMA AdoptStep ==
  ASSUME ChainsInv, NEW n \in Nodes, NEW c \in chains, AdoptCandidate(n, c)
  PROVE  (\E r : Commits(n, r) /\ Faithful(r, now)) /\ chains' = chains
<1>1. PICK order : node' = [node EXCEPT ![n] = try_adopt_candidate(@, c, order, now)]
  BY Zenon DEF AdoptCandidate
<1>2. ShouldAdopt(node[n], c, now) /\ chains' = chains /\ now' = now
  BY Zenon DEF AdoptCandidate
<1> DEFINE r == try_adopt_candidate(node[n], c, order, now)
<1>3. node' = [node EXCEPT ![n] = r]
  BY <1>1, Zenon
<1>4. /\ NodeOK(r) /\ Faithful(r, now)
      /\ is_better(chain_info(r.chain), chain_info(node[n].chain))
  BY <1>2, AdoptChain, Zenon DEF ChainsInv
<1> HIDE DEF r
<1>5. Becomes(n, r)
  BY <1>2, <1>3, <1>4, Replaced1, Zenon
<1> QED BY <1>2, <1>4, <1>5, Zenon DEF Commits

-----------------------------------------------------------------------------
(* Network: chains only improve, and caches match chains *)

\* A step of one node keeps the shape of all chains.
LEMMA BecomesKeeps ==
  ASSUME ChainsInv, NEW n \in Nodes, NEW r, Becomes(n, r),
         chains' = chains \/ chains' = chains \cup {r.chain}
  PROVE  ChainsInv'
BY Zenon DEF ChainsInv, Becomes, NodeOK

\* What a step of Network is: a node's chain and cache stay, or a node gets a
\* better chain, or time passes.
LEMMA NetworkSteps ==
  ASSUME ChainsInv, Next
  PROVE  \/ \E n \in Nodes : \E r :
              /\ Becomes(n, r) /\ chains' = chains
              /\ r.chain = node[n].chain /\ r.balances = node[n].balances
         \/ \E n \in Nodes : \E r :
              Commits(n, r) /\ (chains' = chains \/ chains' = chains \cup {r.chain})
         \/ node' = node /\ chains' = chains /\ now' = now + 1
<1>1. CASE Tick
  BY <1>1, Zenon DEF Tick
<1>2. CASE \E n \in Nodes, tx \in Transaction : ApplyTx(n, tx)
  BY <1>2, TxStep, Zenon
<1>3. CASE \E n \in Nodes : MineBlock(n)
  BY <1>3, MineStep, Zenon
<1>4. CASE \E n \in Nodes, c \in chains : AddBlock(n, c)
  BY <1>4, BlockStep, Zenon
<1>5. CASE \E n \in Nodes, c \in chains : AdoptCandidate(n, c)
  BY <1>5, AdoptStep, Zenon
<1> QED BY <1>1, <1>2, <1>3, <1>4, <1>5, ZenonT(30) DEF Next

\* The genesis chain.
LEMMA GenesisOK ==
  /\ ChainOK(<<GenesisBlock>>)
  /\ NodeOK(create_genesis_block) /\ NodeOK(install_fresh_genesis)
  /\ create_genesis_block.chain = <<GenesisBlock>>
  /\ create_genesis_block.balances = apply_block(EmptyState, GenesisBlock).state
<1>1. GenesisBlock.index = 0 /\ GenesisBlock.timestamp = 0 /\ GenesisBlock.hash = 1
  BY Zenon DEF GenesisBlock
<1>2. ChainOK(<<GenesisBlock>>)
  <2> DEFINE c == <<GenesisBlock>>
  <2>1. c \in Seq({GenesisBlock}) /\ c # <<>> /\ Len(c) = 1 /\ c[1] = GenesisBlock
    OBVIOUS
  <2> HIDE DEF c
  <2>2. \A i \in 1 .. Len(c) : i = 1
    BY <2>1
  <2>3. 0 \in Nat /\ 1 \in Nat /\ 0 = 1 - 1
    OBVIOUS
  <2> QED BY <1>1, <2>1, <2>2, <2>3, Zenon DEF ChainOK, c
<1>3. /\ create_genesis_block.chain = <<GenesisBlock>>
      /\ create_genesis_block.balances = apply_block(EmptyState, GenesisBlock).state
      /\ install_fresh_genesis.chain = <<GenesisBlock>>
      /\ "chain" \in DOMAIN create_genesis_block /\ "balances" \in DOMAIN create_genesis_block
      /\ "chain" \in DOMAIN install_fresh_genesis /\ "balances" \in DOMAIN install_fresh_genesis
  BY Zenon DEF create_genesis_block, install_fresh_genesis
<1> QED BY <1>2, <1>3, Zenon DEF NodeOK

\* At the start every node has the genesis chain, and a node that was not
\* opened on an empty database has the balances it yields.
LEMMA NetworkStarts ==
  ASSUME Init
  PROVE  /\ ChainsInv /\ chains = {}
         /\ \A n \in Nodes \ FreshNodes : Faithful(node[n], now)
<1>1. /\ DOMAIN node = Nodes /\ chains = {} /\ now = 1
      /\ \A n \in Nodes : node[n] = IF n \in FreshNodes THEN install_fresh_genesis
                                    ELSE create_genesis_block
  BY Zenon DEF Init
<1>2. \A n \in Nodes : NodeOK(node[n])
  BY <1>1, GenesisOK, Zenon
<1>3. Faithful(create_genesis_block, now)
  BY GenesisOK, RebuildGenesis, Zenon DEF Faithful
<1>4. \A n \in Nodes \ FreshNodes : node[n] = create_genesis_block
  BY <1>1, Zenon
<1>5. \A n \in Nodes \ FreshNodes : Faithful(node[n], now)
  BY <1>3, <1>4, Zenon
<1>6. now \in Nat
  BY <1>1, Zenon
<1> QED BY <1>1, <1>2, <1>5, <1>6, Zenon DEF ChainsInv

\* Every chain in the system stays a chain.
THEOREM ChainsAreChains == Spec => []ChainsInv
<1>1. Init => ChainsInv
  BY NetworkStarts, Zenon
<1>2. ChainsInv /\ [Next]_vars => ChainsInv'
  <2> SUFFICES ASSUME ChainsInv, [Next]_vars PROVE ChainsInv'
    BY Zenon
  <2>1. CASE UNCHANGED vars
    BY <2>1, Zenon DEF vars, ChainsInv, NodeOK
  <2>2. CASE Next
    <3>1. CASE node' = node /\ chains' = chains /\ now' = now + 1
      BY <3>1 DEF ChainsInv, NodeOK
    <3>2. CASE \E n \in Nodes : \E r :
             Becomes(n, r) /\ (chains' = chains \/ chains' = chains \cup {r.chain})
      BY <3>2, BecomesKeeps, Zenon
    <3> QED BY <2>2, <3>1, <3>2, NetworkSteps, Zenon DEF Commits
  <2> QED BY <2>1, <2>2, Zenon
<1> QED BY <1>1, <1>2, PTL DEF Spec

\* A node leaves its chain only for one that wins fork choice: add_block and
\* mine_block make it longer, adopt_candidate compares before it replaces.
THEOREM ChainsImprove == Spec => ChainsOnlyImprove
<1> DEFINE Improves == \A n \in Nodes :
              node'[n].chain # node[n].chain =>
                  is_better(chain_info(node'[n].chain), chain_info(node[n].chain))
<1>1. ChainsInv /\ [Next]_vars => [Improves]_vars
  <2> SUFFICES ASSUME ChainsInv, Next PROVE Improves
    BY Zenon
  <2>1. CASE node' = node
    BY <2>1, Zenon
  <2>2. ASSUME NEW n \in Nodes, NEW r, Becomes(n, r),
               \/ r.chain = node[n].chain
               \/ is_better(chain_info(r.chain), chain_info(node[n].chain))
        PROVE  Improves
    BY <2>2, Zenon DEF Becomes
  <2> QED BY <2>1, <2>2, NetworkSteps, Zenon DEF Commits
<1> QED BY <1>1, ChainsAreChains, PTL DEF Spec, ChainsOnlyImprove

\* Every cache is the state of its node's chain, and every chain that was
\* mined passes validation.
ReplayInv ==
    /\ \A n \in Nodes : Faithful(node[n], now)
    /\ \A c \in chains : rebuild_from_chain(c, now).ok

\* Time does not undo it: what validates now validates later.
LEMMA FaithfulLater ==
  ASSUME NEW r, ChainOK(r.chain), NEW t1 \in Nat, NEW t2 \in Nat, t1 <= t2, Faithful(r, t1)
  PROVE  Faithful(r, t2)
<1>1. /\ Len(r.chain) \in Nat /\ DOMAIN r.chain = 1 .. Len(r.chain)
      /\ \A i \in 1 .. Len(r.chain) : r.chain[i].timestamp \in Nat
  BY ChainFacts, Zenon
<1>2. rebuild_from_chain(r.chain, t2) = rebuild_from_chain(r.chain, t1)
  BY <1>1, RebuildLater, Zenon DEF Faithful
<1> QED BY <1>2, Zenon DEF Faithful

\* When no node was opened on an empty database, caches match chains.
THEOREM CachesMatchChains ==
  ASSUME FreshNodes = {}
  PROVE  Spec => []ReplayInv
<1>1. Init => ReplayInv
  BY NetworkStarts, Zenon DEF ReplayInv
<1>2. ChainsInv /\ ReplayInv /\ [Next]_vars => ReplayInv'
  <2> SUFFICES ASSUME ChainsInv, ReplayInv, [Next]_vars PROVE ReplayInv'
    BY Zenon
  <2>1. CASE UNCHANGED vars
    BY <2>1, Zenon DEF vars, ReplayInv, Faithful
  <2>2. CASE Next
    <3>1. CASE node' = node /\ chains' = chains /\ now' = now + 1
      <4>1. now \in Nat /\ now + 1 \in Nat /\ now <= now + 1
        BY DEF ChainsInv
      <4>2. \A n \in Nodes : Faithful(node[n], now + 1)
        BY <4>1, FaithfulLater, Zenon DEF ChainsInv, ReplayInv, NodeOK
      <4>3. ASSUME NEW c \in chains PROVE rebuild_from_chain(c, now + 1).ok
        <5>1. /\ Len(c) \in Nat /\ DOMAIN c = 1 .. Len(c)
              /\ \A i \in 1 .. Len(c) : c[i].timestamp \in Nat
          BY ChainFacts, Zenon DEF ChainsInv
        <5>2. rebuild_from_chain(c, now + 1) = rebuild_from_chain(c, now)
          BY <4>1, <5>1, RebuildLater, Zenon DEF ReplayInv
        <5> QED BY <5>2, Zenon DEF ReplayInv
      <4> QED BY <3>1, <4>2, <4>3, Zenon DEF ReplayInv, Faithful
    <3>2. ASSUME NEW n \in Nodes, NEW r, Becomes(n, r), Faithful(r, now),
                 chains' = chains \/ chains' = chains \cup {r.chain}
          PROVE  ReplayInv'
      <4>1. now' = now /\ node'[n] = r /\ \A m \in Nodes \ {n} : node'[m] = node[m]
        BY <3>2, Zenon DEF Becomes
      <4>2. \A m \in Nodes : Faithful(node'[m], now')
        BY <3>2, <4>1, Zenon DEF ReplayInv
      <4>3. \A c \in chains' : rebuild_from_chain(c, now').ok
        BY <3>2, <4>1, Zenon DEF ReplayInv, Faithful
      <4> QED BY <4>2, <4>3, Zenon DEF ReplayInv, Faithful
    <3>3. ASSUME NEW n \in Nodes, NEW r, r.chain = node[n].chain, r.balances = node[n].balances
          PROVE  Faithful(r, now)
      BY <3>3, Zenon DEF ReplayInv, Faithful
    <3> QED BY <2>2, <3>1, <3>2, <3>3, NetworkSteps, Zenon DEF Commits, ReplayInv
  <2> QED BY <2>1, <2>2, Zenon
<1> QED BY <1>1, <1>2, ChainsAreChains, PTL DEF Spec

\* A block mined on some tip is accepted by every node on that tip.
THEOREM TipsAreAccepted ==
  ASSUME FreshNodes = {}
  PROVE  Spec => []TipBlocksAccepted
<1>1. ChainsInv /\ ReplayInv => TipBlocksAccepted
  <2> SUFFICES ASSUME ChainsInv, ReplayInv, NEW n \in Nodes, NEW c \in chains,
                      node[n].chain = SubSeq(c, 1, Len(c) - 1)
               PROVE  CommitResult(node[n], last(c), now).ok
    BY Zenon DEF TipBlocksAccepted
  <2> DEFINE f == node[n].chain
             b == last(c)
  <2>1. PICK B : c \in Seq(B)
    BY Zenon DEF ChainsInv, ChainOK
  <2>2. c # <<>> /\ ChainOK(c) /\ ChainOK(f) /\ f = SubSeq(c, 1, Len(c) - 1) /\ b = c[Len(c)]
    BY Zenon DEF ChainsInv, ChainOK, NodeOK, last
  <2>3. f \in Seq(B) /\ b \in B /\ c = Append(f, b) /\ Len(f) = Len(c) - 1 /\ Len(c) \in Nat \ {0}
    <3> HIDE DEF f, b
    <3>1. Len(c) \in Nat \ {0} /\ b \in B
      BY <2>1, <2>2
    <3>2. /\ f \in Seq(B) /\ Len(f) = Len(c) - 1
          /\ \A i \in 1 .. Len(c) - 1 : f[i] = c[i]
      <4>1. ASSUME NEW k \in 0 .. Len(c)
            PROVE  /\ SubSeq(c, 1, k) \in Seq(B) /\ Len(SubSeq(c, 1, k)) = k
                   /\ \A i \in 1 .. k : SubSeq(c, 1, k)[i] = c[i]
        BY <2>1
      <4>2. Len(c) - 1 \in 0 .. Len(c)
        BY <3>1
      <4> QED BY <2>2, <4>1, <4>2, Zenon
    <3>3. /\ Append(f, b) \in Seq(B) /\ Len(Append(f, b)) = Len(c)
          /\ \A i \in 1 .. Len(c) : Append(f, b)[i] = c[i]
      BY <2>2, <3>1, <3>2, SMTT(30)
    <3>4. c = Append(f, b)
      BY <2>1, <3>3, SMTT(30)
    <3> QED BY <3>1, <3>2, <3>4, Zenon
  <2>4. b.index = Len(f)
    BY <2>2, <2>3 DEF ChainOK
  <2>5. \A i \in 1 .. Len(f) : f[i].index \in 0 .. Len(f)
    BY <2>2, ChainFacts, Zenon
  <2>6. rebuild_from_chain(f, now).ok /\ rebuild_from_chain(f, now).state = node[n].balances
    BY Zenon DEF ReplayInv, Faithful
  <2>7. rebuild_from_chain(Append(f, b), now)
          = validate_and_apply(rebuild_from_chain(f, now).state, b, f, now)
    <3> HIDE DEF f, b
    <3> QED BY <2>3, <2>4, <2>5, <2>6, RebuildAppend, Zenon
  <2>8. rebuild_from_chain(c, now).ok
    BY Zenon DEF ReplayInv
  <2> QED BY <2>3, <2>6, <2>7, <2>8, Zenon DEF CommitResult
<1> QED BY <1>1, ChainsAreChains, CachesMatchChains, PTL

-----------------------------------------------------------------------------
(* Durability: what was saved survives *)

\* The database of a node and the chain it saved last are in order, and what
\* the node runs on is at least as good as what it would load: a running node
\* started from its database and improved since, and between the puts of
\* chain and balances the database has the chain of the node.
StoredOK(n) ==
    /\ "txs" \in DOMAIN disk[n] /\ NodeOK(disk[n]) /\ ChainOK(saved[n])
    /\ BetterOrSame(disk[n].chain, saved[n])
    /\ saving[n] # "down" => BetterOrSame(node[n].chain, disk[n].chain)
    /\ saving[n] = "balances" => disk[n].chain = node[n].chain

\* The databases, the saved chains and the phases are functions of the nodes,
\* and a node without a database neither saves nor dies.
StoreShape ==
    /\ DOMAIN disk = DbNodes /\ DOMAIN saved = DbNodes /\ DOMAIN saving = Nodes
    /\ \A n \in Nodes \ DbNodes : saving[n] = "idle"

\* The steps of a node with the lock: the chain stays or gets better.
LEMMA LockedSteps ==
  ASSUME ChainsInv, NEW n \in Nodes,
         Receive(n) \/ Mine(n) \/ \E c \in chains : Adopt(n, c)
  PROVE  \E r : /\ Becomes(n, r)
                /\ \/ r.chain = node[n].chain /\ r.balances = node[n].balances
                   \/ Commits(n, r)
                /\ chains' = chains \/ chains' = chains \cup {r.chain}
                /\ saving[n] = "idle" /\ disk' = disk /\ saved' = saved
                /\ saving' = saving \/ (n \in DbNodes /\ saving' = [saving EXCEPT ![n] = "txs"])
<1>1. CASE Receive(n)
  <2>1. saving[n] = "idle" /\ disk' = disk /\ saved' = saved /\ saving' = saving
    BY <1>1, Zenon DEF Receive, LockFree
  <2>2. CASE \E tx \in Transaction : ApplyTx(n, tx)
    BY <2>1, <2>2, TxStep, Zenon
  <2>3. CASE \E c \in chains : AddBlock(n, c)
    BY <2>1, <2>3, BlockStep, Zenon DEF Commits
  <2> QED BY <1>1, <2>2, <2>3, Zenon DEF Receive
<1>2. CASE Mine(n)
  <2>1. /\ saving[n] = "idle" /\ disk' = disk /\ saved' = saved
        /\ saving' = saving \/ (n \in DbNodes /\ saving' = [saving EXCEPT ![n] = "txs"])
    BY <1>2, Zenon DEF Mine, LockFree
  <2>2. MineBlock(n)
    BY <1>2, Zenon DEF Mine
  <2> QED BY <2>1, <2>2, MineStep, Zenon DEF Commits
<1>3. CASE \E c \in chains : Adopt(n, c)
  <2>1. PICK c \in chains : Adopt(n, c)
    BY <1>3, Zenon
  <2>2. saving[n] = "idle" /\ disk' = disk /\ saved' = saved /\ saving' = saving
    BY <2>1, Zenon DEF Adopt, LockFree
  <2>3. AdoptCandidate(n, c)
    BY <2>1, Zenon DEF Adopt
  <2> QED BY <2>2, <2>3, AdoptStep, Zenon DEF Commits
<1> QED BY <1>1, <1>2, <1>3, Zenon

\* What a node holds is replaced by something at least as good, under the lock.
LEMMA LockedKeeps ==
  ASSUME ChainsInv, StoreShape, \A m \in DbNodes : StoredOK(m), NEW n \in Nodes,
         Receive(n) \/ Mine(n) \/ \E c \in chains : Adopt(n, c)
  PROVE  ChainsInv' /\ StoreShape' /\ \A m \in DbNodes : StoredOK(m)'
<1>1. PICK r : /\ Becomes(n, r)
               /\ \/ r.chain = node[n].chain /\ r.balances = node[n].balances
                  \/ Commits(n, r)
               /\ chains' = chains \/ chains' = chains \cup {r.chain}
               /\ saving[n] = "idle" /\ disk' = disk /\ saved' = saved
               /\ saving' = saving \/ (n \in DbNodes /\ saving' = [saving EXCEPT ![n] = "txs"])
  BY LockedSteps, Zenon
<1>2. ChainsInv'
  BY <1>1, BecomesKeeps, Zenon
<1>3. StoreShape'
  BY <1>1, Zenon DEF StoreShape
<1>4. /\ DOMAIN saving' = Nodes /\ \A m \in Nodes \ {n} : saving'[m] = saving[m]
      /\ saving'[n] \in {"idle", "txs"}
  BY <1>1, Zenon DEF StoreShape
<1>5. BetterOrSame(r.chain, node[n].chain)
  BY <1>1, Zenon DEF BetterOrSame, Commits
<1>6. /\ node'[n] = r /\ \A m \in Nodes \ {n} : node'[m] = node[m]
      /\ ChainOK(r.chain) /\ ChainOK(node[n].chain)
  BY <1>1, Zenon DEF Becomes, NodeOK, ChainsInv
<1>7. ASSUME NEW m \in DbNodes PROVE StoredOK(m)'
  <2>1. StoredOK(m) /\ m \in Nodes
    BY CrashBounds, Zenon
  <2>2. CASE m # n
    <3>1. node'[m] = node[m] /\ saving'[m] = saving[m] /\ disk' = disk /\ saved' = saved
      BY <1>1, <1>4, <1>6, <2>1, <2>2, ZenonT(30)
    <3> QED BY <2>1, <3>1, Zenon DEF StoredOK, NodeOK, BetterOrSame, chain_info
  <2>3. CASE m = n
    <3>1. BetterOrSame(node[n].chain, disk[n].chain) /\ ChainOK(disk[n].chain)
      BY <1>1, <2>1, <2>3, Zenon DEF StoredOK, NodeOK
    <3>2. BetterOrSame(r.chain, disk[n].chain)
      BY <1>5, <1>6, <3>1, BetterTransitive, Zenon
    <3>3. saving'[n] # "balances"
      BY <1>4, Zenon
    <3> QED BY <1>1, <1>6, <2>1, <2>3, <3>2, <3>3, ZenonT(30) DEF StoredOK
  <2> QED BY <2>2, <2>3, Zenon
<1> QED BY <1>2, <1>3, <1>7, Zenon

\* All nodes.
StoredInv == ChainsInv /\ StoreShape /\ \A n \in DbNodes : StoredOK(n)

\* Only nodes with a database save or are down.
LEMMA SaverHasDisk ==
  ASSUME StoreShape, NEW n \in Nodes, saving[n] # "idle"
  PROVE  n \in DbNodes
BY Zenon DEF StoreShape

\* The steps of save_state, crashes and restarts change one node: what they do
\* to its entries is enough.
LEMMA OneNode ==
  ASSUME StoredInv, NEW n \in DbNodes, chains' = chains, now' = now,
         DOMAIN node' = Nodes, DOMAIN disk' = DbNodes, DOMAIN saved' = DbNodes,
         DOMAIN saving' = Nodes,
         \A m \in Nodes \ {n} : node'[m] = node[m] /\ saving'[m] = saving[m],
         \A m \in DbNodes \ {n} : disk'[m] = disk[m] /\ saved'[m] = saved[m],
         NodeOK(node'[n]), StoredOK(n)'
  PROVE  StoredInv'
<1>1. n \in Nodes
  BY CrashBounds, Zenon
<1>2. ChainsInv'
  BY Zenon DEF StoredInv, ChainsInv, NodeOK
<1>3. StoreShape'
  BY Zenon DEF StoredInv, StoreShape
<1>4. ASSUME NEW m \in DbNodes PROVE StoredOK(m)'
  <2>1. CASE m = n
    BY <2>1, Zenon
  <2>2. CASE m # n
    <3>1. /\ StoredOK(m) /\ node'[m] = node[m] /\ saving'[m] = saving[m]
          /\ disk'[m] = disk[m] /\ saved'[m] = saved[m]
      BY <2>2, CrashBounds, Zenon DEF StoredInv
    <3> QED BY <3>1, Zenon DEF StoredOK, NodeOK, BetterOrSame, chain_info
  <2> QED BY <2>1, <2>2, Zenon
<1> QED BY <1>2, <1>3, <1>4, Zenon DEF StoredInv

\* The facts about one node that every step starts from.
LEMMA StoredFacts ==
  ASSUME StoredInv, NEW n \in DbNodes
  PROVE  /\ n \in Nodes /\ NodeOK(node[n]) /\ StoredOK(n)
         /\ DOMAIN node = Nodes /\ DOMAIN saving = Nodes
         /\ DOMAIN disk = DbNodes /\ DOMAIN saved = DbNodes
         /\ "txs" \in DOMAIN disk[n] /\ "chain" \in DOMAIN disk[n]
         /\ "balances" \in DOMAIN disk[n]
BY CrashBounds, Zenon DEF StoredInv, ChainsInv, StoreShape, StoredOK, NodeOK

\* save_state begins.
LEMMA StartSaveKeeps ==
  ASSUME StoredInv, NEW n \in Nodes, StartSave(n)
  PROVE  StoredInv'
<1>1. /\ n \in DbNodes /\ saving[n] = "idle" /\ saving' = [saving EXCEPT ![n] = "txs"]
      /\ node' = node /\ chains' = chains /\ now' = now /\ disk' = disk /\ saved' = saved
  BY Zenon DEF StartSave, LockFree
<1>2. NodeOK(node[n]) /\ StoredOK(n) /\ DOMAIN saving = Nodes
  BY <1>1, StoredFacts, Zenon
<1>3. saving'[n] = "txs" /\ \A m \in Nodes \ {n} : saving'[m] = saving[m]
  BY <1>1, <1>2, Zenon
<1>4. StoredOK(n)'
  BY <1>1, <1>2, <1>3, ZenonT(30) DEF StoredOK, NodeOK, BetterOrSame, chain_info
<1> QED BY <1>1, <1>2, <1>3, <1>4, StoredFacts, OneNode, Zenon

\* A transaction is put.
LEMMA PutTxKeeps ==
  ASSUME StoredInv, NEW n \in Nodes, PutTx(n)
  PROVE  StoredInv'
<1>1. PICK tx : disk' = [disk EXCEPT ![n].txs = @ \cup {tx}]
  BY Zenon DEF PutTx
<1>2. /\ saving[n] = "txs" /\ saving' = saving
      /\ node' = node /\ chains' = chains /\ now' = now /\ saved' = saved
  BY Zenon DEF PutTx
<1>3. n \in DbNodes
  BY <1>2, SaverHasDisk, Zenon DEF StoredInv
<1>4. StoredOK(n)
  BY <1>3, StoredFacts, Zenon
<1>5. /\ DOMAIN disk' = DbNodes /\ DOMAIN disk'[n] = DOMAIN disk[n]
      /\ disk'[n].chain = disk[n].chain
      /\ \A m \in DbNodes \ {n} : disk'[m] = disk[m]
  BY <1>1, <1>3, StoredFacts, Zenon
<1>6. StoredOK(n)'
  BY <1>2, <1>4, <1>5, Zenon DEF StoredOK, NodeOK, BetterOrSame, chain_info
<1> QED BY <1>2, <1>3, <1>5, <1>6, StoredFacts, OneNode, Zenon

\* The chain is put: it is at least as good as the one it overwrites.
LEMMA PutChainKeeps ==
  ASSUME StoredInv, NEW n \in Nodes, PutChain(n)
  PROVE  StoredInv'
<1>1. /\ saving[n] = "txs" /\ saving' = [saving EXCEPT ![n] = "balances"]
      /\ disk' = [disk EXCEPT ![n].chain = node[n].chain]
      /\ node' = node /\ chains' = chains /\ now' = now /\ saved' = saved
  BY Zenon DEF PutChain
<1>2. n \in DbNodes
  BY <1>1, SaverHasDisk, Zenon DEF StoredInv
<1>3. StoredOK(n) /\ NodeOK(node[n])
  BY <1>2, StoredFacts, Zenon
<1>4. /\ DOMAIN disk' = DbNodes /\ DOMAIN disk'[n] = DOMAIN disk[n]
      /\ disk'[n].chain = node[n].chain
      /\ \A m \in DbNodes \ {n} : disk'[m] = disk[m]
  BY <1>1, <1>2, StoredFacts, Zenon
<1>5. saving'[n] = "balances" /\ \A m \in Nodes \ {n} : saving'[m] = saving[m]
  BY <1>1, <1>2, StoredFacts, Zenon
<1>6. BetterOrSame(node[n].chain, saved[n])
  <2>1. BetterOrSame(node[n].chain, disk[n].chain)
    BY <1>1, <1>3, Zenon DEF StoredOK
  <2> QED BY <1>3, <2>1, BetterTransitive, Zenon DEF StoredOK, NodeOK
<1>7. StoredOK(n)'
  <2>1. NodeOK(disk'[n]) /\ "txs" \in DOMAIN disk'[n] /\ ChainOK(saved[n])
    BY <1>3, <1>4, Zenon DEF StoredOK, NodeOK
  <2>2. BetterOrSame(disk'[n].chain, saved[n]) /\ BetterOrSame(node[n].chain, disk'[n].chain)
    BY <1>4, <1>6, Zenon DEF BetterOrSame
  <2> QED BY <1>1, <1>4, <1>5, <2>1, <2>2, ZenonT(30) DEF StoredOK
<1> QED BY <1>1, <1>2, <1>3, <1>4, <1>5, <1>7, StoredFacts, OneNode, ZenonT(30)

\* The balances are put, and the save is complete.
LEMMA PutBalancesKeeps ==
  ASSUME StoredInv, NEW n \in Nodes, PutBalances(n)
  PROVE  StoredInv'
<1>1. /\ saving[n] = "balances" /\ saving' = [saving EXCEPT ![n] = "idle"]
      /\ disk' = [disk EXCEPT ![n].balances = node[n].balances]
      /\ saved' = [saved EXCEPT ![n] = node[n].chain]
      /\ node' = node /\ chains' = chains /\ now' = now
  BY Zenon DEF PutBalances
<1>2. n \in DbNodes
  BY <1>1, SaverHasDisk, Zenon DEF StoredInv
<1>3. StoredOK(n) /\ NodeOK(node[n]) /\ disk[n].chain = node[n].chain
  BY <1>1, <1>2, StoredFacts, Zenon DEF StoredOK
<1>4. /\ DOMAIN disk' = DbNodes /\ DOMAIN disk'[n] = DOMAIN disk[n]
      /\ disk'[n].chain = disk[n].chain
      /\ \A m \in DbNodes \ {n} : disk'[m] = disk[m]
  BY <1>1, <1>2, StoredFacts, Zenon
<1>5. /\ DOMAIN saving' = Nodes /\ saving'[n] = "idle"
      /\ \A m \in Nodes \ {n} : saving'[m] = saving[m]
      /\ DOMAIN saved' = DbNodes /\ saved'[n] = node[n].chain
      /\ \A m \in DbNodes \ {n} : saved'[m] = saved[m]
  BY <1>1, <1>2, StoredFacts, Zenon
<1>6. StoredOK(n)'
  <2>1. NodeOK(disk'[n]) /\ "txs" \in DOMAIN disk'[n] /\ ChainOK(saved'[n])
    BY <1>3, <1>4, <1>5, Zenon DEF StoredOK, NodeOK
  <2>2. BetterOrSame(disk'[n].chain, saved'[n]) /\ BetterOrSame(node[n].chain, disk'[n].chain)
    BY <1>3, <1>4, <1>5, Zenon DEF BetterOrSame
  <2> QED BY <1>1, <1>5, <2>1, <2>2, Zenon DEF StoredOK
<1> QED BY <1>1, <1>2, <1>3, <1>4, <1>5, <1>6, StoredFacts, OneNode, ZenonT(30)

\* A node dies: its database stays.
LEMMA CrashKeeps ==
  ASSUME StoredInv, NEW n \in Nodes, Crash(n)
  PROVE  StoredInv'
<1>1. /\ n \in DbNodes /\ saving' = [saving EXCEPT ![n] = "down"]
      /\ node' = node /\ chains' = chains /\ now' = now /\ disk' = disk /\ saved' = saved
  BY Zenon DEF Crash
<1>2. StoredOK(n) /\ NodeOK(node[n])
  BY <1>1, StoredFacts, Zenon
<1>3. /\ DOMAIN saving' = Nodes /\ saving'[n] = "down"
      /\ \A m \in Nodes \ {n} : saving'[m] = saving[m]
  BY <1>1, StoredFacts, Zenon
<1>4. StoredOK(n)'
  BY <1>1, <1>2, <1>3, ZenonT(30) DEF StoredOK, NodeOK, BetterOrSame, chain_info
<1> QED BY <1>1, <1>2, <1>3, <1>4, StoredFacts, OneNode, Zenon

\* open_blockchain: the node runs on the chain and the balances of its database.
LEMMA Restarted ==
  ASSUME StoredInv, NEW n \in Nodes, Restart(n)
  PROVE  /\ n \in DbNodes /\ saving[n] = "down"
         /\ DOMAIN saving' = Nodes /\ saving'[n] = "txs"
         /\ \A m \in Nodes \ {n} : saving'[m] = saving[m] /\ node'[m] = node[m]
         /\ DOMAIN node' = Nodes /\ NodeOK(node'[n])
         /\ node'[n].chain = disk[n].chain /\ node'[n].balances = disk[n].balances
         /\ chains' = chains /\ now' = now /\ disk' = disk /\ saved' = saved
<1>1. /\ saving[n] = "down" /\ saving' = [saving EXCEPT ![n] = "txs"]
      /\ chains' = chains /\ now' = now /\ disk' = disk /\ saved' = saved
  BY Zenon DEF Restart
<1>2. n \in DbNodes
  BY <1>1, SaverHasDisk, Zenon DEF StoredInv
<1>3. \E pool : node' = [node EXCEPT ![n] = [chain |-> disk[n].chain,
                                            balances |-> disk[n].balances, pool |-> pool]]
  BY Zenon DEF Restart
<1>4. PICK pool : node' = [node EXCEPT ![n] = [chain |-> disk[n].chain,
                                            balances |-> disk[n].balances, pool |-> pool]]
  BY <1>3, Zenon
<1>5. /\ DOMAIN node' = Nodes /\ \A m \in Nodes \ {n} : node'[m] = node[m]
      /\ node'[n] = [chain |-> disk[n].chain, balances |-> disk[n].balances, pool |-> pool]
  BY <1>2, <1>4, StoredFacts, Zenon
<1>6. /\ node'[n].chain = disk[n].chain /\ node'[n].balances = disk[n].balances
      /\ "chain" \in DOMAIN node'[n] /\ "balances" \in DOMAIN node'[n]
  <2>1. PICK one, c, b : one = node'[n] /\ c = disk[n].chain /\ b = disk[n].balances
    BY Zenon
  <2>2. one = [chain |-> c, balances |-> b, pool |-> pool]
    BY <1>5, <2>1, Zenon
  <2>3. one.chain = c /\ one.balances = b /\ "chain" \in DOMAIN one /\ "balances" \in DOMAIN one
    BY <2>2, Zenon
  <2> QED  BY <2>1, <2>3, Zenon
<1>7. ChainOK(disk[n].chain)
  BY <1>2, StoredFacts, Zenon DEF StoredOK, NodeOK
<1>8. NodeOK(node'[n])
  BY <1>6, <1>7, Zenon DEF NodeOK
<1> QED BY <1>1, <1>2, <1>5, <1>6, <1>8, StoredFacts, ZenonT(30)

\* A restart loads the chain of the database.
LEMMA RestartKeeps ==
  ASSUME StoredInv, NEW n \in Nodes, Restart(n)
  PROVE  StoredInv'
<1>1. /\ n \in DbNodes /\ saving[n] = "down"
      /\ DOMAIN saving' = Nodes /\ saving'[n] = "txs"
      /\ \A m \in Nodes \ {n} : saving'[m] = saving[m] /\ node'[m] = node[m]
      /\ DOMAIN node' = Nodes /\ NodeOK(node'[n])
      /\ node'[n].chain = disk[n].chain
      /\ chains' = chains /\ now' = now /\ disk' = disk /\ saved' = saved
  BY Restarted, Zenon
<1>2. StoredOK(n)
  BY <1>1, StoredFacts, Zenon
<1>3. StoredOK(n)'
  BY <1>1, <1>2, Zenon DEF StoredOK, NodeOK, BetterOrSame, chain_info
<1> QED BY <1>1, <1>3, StoredFacts, OneNode, Zenon

\* The invariant of the databases.
THEOREM StoredInvariant == DurableSpec => []StoredInv
<1>1. DurableInit => StoredInv
  <2> SUFFICES ASSUME DurableInit PROVE StoredInv
    BY Zenon
  <2>1. /\ Init /\ saving = [n \in Nodes |-> "idle"]
        /\ disk = [n \in DbNodes |-> [txs |-> {}, chain |-> node[n].chain,
                                      balances |-> node[n].balances]]
        /\ saved = [n \in DbNodes |-> node[n].chain]
    BY Zenon DEF DurableInit
  <2>2. ChainsInv
    BY <2>1, NetworkStarts, Zenon
  <2>3. StoreShape
    BY <2>1, Zenon DEF StoreShape
  <2>4. ASSUME NEW n \in DbNodes PROVE StoredOK(n)
    <3>1. /\ saving[n] = "idle" /\ saved[n] = node[n].chain
          /\ disk[n] = [txs |-> {}, chain |-> node[n].chain, balances |-> node[n].balances]
      BY <2>1, CrashBounds, Zenon
    <3>2. /\ disk[n].chain = node[n].chain /\ "txs" \in DOMAIN disk[n]
          /\ "chain" \in DOMAIN disk[n] /\ "balances" \in DOMAIN disk[n]
      BY <3>1
    <3>3. ChainOK(node[n].chain)
      BY <2>2, CrashBounds, Zenon DEF ChainsInv, NodeOK
    <3> QED BY <3>1, <3>2, <3>3, ZenonT(30) DEF StoredOK, NodeOK, BetterOrSame
  <2> QED BY <2>2, <2>3, <2>4, Zenon DEF StoredInv
<1>2. StoredInv /\ [DurableNext]_dvars => StoredInv'
  <2> SUFFICES ASSUME StoredInv, [DurableNext]_dvars PROVE StoredInv'
    BY Zenon
  <2>1. CASE UNCHANGED dvars
    BY <2>1, Zenon DEF dvars, StoredInv, ChainsInv, StoreShape, StoredOK, NodeOK, BetterOrSame, chain_info
  <2>2. ASSUME NEW n \in Nodes,
               Receive(n) \/ Mine(n) \/ \E c \in chains : Adopt(n, c)
        PROVE  StoredInv'
    BY <2>2, LockedKeeps, Zenon DEF StoredInv
  <2>3. CASE Clock
    <3>1. /\ node' = node /\ chains' = chains /\ now' = now + 1 /\ disk' = disk
          /\ saving' = saving /\ saved' = saved
      BY <2>3, Zenon DEF Clock, Tick
    <3>2. now' \in Nat
      BY <3>1 DEF StoredInv, ChainsInv
    <3> QED BY <3>1, <3>2, Zenon DEF StoredInv, ChainsInv, StoreShape, StoredOK, NodeOK,
                              BetterOrSame, chain_info
  <2> QED BY <2>1, <2>2, <2>3, StartSaveKeeps, PutTxKeeps, PutChainKeeps, PutBalancesKeeps,
             CrashKeeps, RestartKeeps, ZenonT(30) DEF DurableNext
<1> QED BY <1>1, <1>2, PTL DEF DurableSpec

\* What a completed save_state wrote is never lost: the chain a restart would
\* load is the last saved one or one that beat it.
THEOREM SavedChainsSurvive == DurableSpec => []SavedChainSurvives
<1>1. StoredInv => SavedChainSurvives
  BY Zenon DEF StoredInv, StoredOK, BetterOrSame, SavedChainSurvives
<1> QED BY <1>1, StoredInvariant, PTL

-----------------------------------------------------------------------------
(* Durability: a cache matches its chain unless the database was torn *)

\* A running node that does not run on a torn database has the balances its
\* chain yields; so has a database that is not torn, except between the puts
\* of chain and balances; and who runs on a torn database has one.
TornInv ==
    /\ "disk" \in DOMAIN torn /\ "memory" \in DOMAIN torn
    /\ torn.memory \subseteq torn.disk
    /\ \A n \in Nodes \ torn.memory : saving[n] # "down" => Faithful(node[n], now)
    /\ \A n \in DbNodes \ torn.disk : saving[n] # "balances" => Faithful(disk[n], now)

\* Commits and mined blocks keep a faithful cache, an adopted chain makes one.
LEMMA LockedFaithful ==
  ASSUME StoredInv, TornInv, NEW n \in Nodes,
         Receive(n) \/ Mine(n) \/ \E c \in chains : Adopt(n, c)
  PROVE  TornInv'
<1>1. ChainsInv /\ DOMAIN saving = Nodes
  BY Zenon DEF StoredInv, StoreShape
<1>2. PICK r : /\ Becomes(n, r)
               /\ \/ r.chain = node[n].chain /\ r.balances = node[n].balances
                  \/ Commits(n, r)
               /\ saving[n] = "idle" /\ disk' = disk
               /\ saving' = saving \/ (n \in DbNodes /\ saving' = [saving EXCEPT ![n] = "txs"])
  BY <1>1, LockedSteps, Zenon
<1>3. /\ now' = now /\ node'[n] = r /\ \A m \in Nodes \ {n} : node'[m] = node[m]
      /\ saving'[n] \in {"idle", "txs"}
      /\ \A m \in Nodes \ {n} : saving'[m] = saving[m]
  BY <1>1, <1>2, Zenon DEF Becomes
<1>4. Faithful(node[n], now) => Faithful(r, now)
  BY <1>2, Zenon DEF Commits, Faithful
<1>5. \A m \in DbNodes \ torn.disk : saving'[m] # "balances" => Faithful(disk'[m], now')
  <2>1. \A m \in DbNodes \ torn.disk : saving'[m] # "balances" => saving[m] # "balances"
    BY <1>2, <1>3, CrashBounds, ZenonT(30)
  <2> QED BY <1>2, <1>3, <2>1, Zenon DEF TornInv
<1>6. CASE torn' = torn
  <2>1. \A m \in Nodes \ torn.memory : saving'[m] # "down" => Faithful(node'[m], now')
    BY <1>2, <1>3, <1>4, ZenonT(30) DEF TornInv
  <2> QED BY <1>5, <1>6, <2>1, ZenonT(30) DEF TornInv, Faithful
<1>7. CASE \E c \in chains : Adopt(n, c)
  <2>1. PICK c \in chains : AdoptCandidate(n, c)
    BY <1>7, Zenon DEF Adopt
  <2>2. Faithful(node'[n], now)
    <3>1. PICK q : Becomes(n, q) /\ Faithful(q, now)
      BY <1>1, <2>1, AdoptStep, Zenon DEF Commits
    <3> QED BY <3>1, Zenon DEF Becomes
  <2>3. torn' = [torn EXCEPT !.memory = @ \ {n}]
    BY <1>7, Zenon DEF Adopt
  <2>4. /\ torn'.disk = torn.disk /\ torn'.memory = torn.memory \ {n}
        /\ "disk" \in DOMAIN torn' /\ "memory" \in DOMAIN torn'
    BY <2>3, Zenon DEF TornInv
  <2>5. \A m \in Nodes \ torn'.memory : saving'[m] # "down" => Faithful(node'[m], now')
    BY <1>3, <2>2, <2>4, Zenon DEF TornInv
  <2> QED BY <1>5, <2>4, <2>5, Zenon DEF TornInv, Faithful
<1>8. Receive(n) \/ Mine(n) => torn' = torn
  BY Zenon DEF Receive, Mine
<1> QED BY <1>6, <1>7, <1>8, Zenon

\* The puts, crashes and restarts of one node.
LEMMA OneNodeFaithful ==
  ASSUME TornInv, NEW n \in DbNodes, now' = now,
         \A m \in Nodes \ {n} : node'[m] = node[m] /\ saving'[m] = saving[m],
         \A m \in DbNodes \ {n} : disk'[m] = disk[m],
         "disk" \in DOMAIN torn', "memory" \in DOMAIN torn',
         torn'.memory \subseteq torn'.disk,
         torn'.memory \ {n} = torn.memory \ {n}, torn'.disk \ {n} = torn.disk \ {n},
         n \notin torn'.memory /\ saving'[n] # "down" => Faithful(node'[n], now),
         n \notin torn'.disk /\ saving'[n] # "balances" => Faithful(disk'[n], now)
  PROVE  TornInv'
<1>1. ASSUME NEW m \in Nodes \ torn'.memory, saving'[m] # "down"
      PROVE  Faithful(node'[m], now')
  <2>1. CASE m = n
    BY <1>1, <2>1, Zenon
  <2>2. CASE m # n
    BY <1>1, <2>2, Zenon DEF TornInv
  <2> QED BY <2>1, <2>2, Zenon
<1>2. ASSUME NEW m \in DbNodes \ torn'.disk, saving'[m] # "balances"
      PROVE  Faithful(disk'[m], now')
  <2>1. CASE m = n
    BY <1>2, <2>1, Zenon
  <2>2. CASE m # n
    BY <1>2, <2>2, CrashBounds, Zenon DEF TornInv
  <2> QED BY <2>1, <2>2, Zenon
<1> QED BY <1>1, <1>2, ZenonT(30) DEF TornInv, Faithful

\* The steps of save_state before the balances.
LEMMA SavingFaithful ==
  ASSUME StoredInv, TornInv, NEW n \in Nodes, StartSave(n) \/ PutTx(n) \/ PutChain(n)
  PROVE  TornInv'
<1>1. /\ saving[n] \in {"idle", "txs"} /\ torn' = torn /\ now' = now /\ node' = node
      /\ n \in DbNodes
  BY SaverHasDisk, Zenon DEF StartSave, PutTx, PutChain, LockFree, StoredInv
<1>2. DOMAIN saving = Nodes /\ DOMAIN disk = DbNodes
  BY Zenon DEF StoredInv, StoreShape
<1>3. \A m \in Nodes \ {n} : saving'[m] = saving[m]
  BY <1>2, Zenon DEF StartSave, PutTx, PutChain
<1>4. \A m \in DbNodes \ {n} : disk'[m] = disk[m]
  BY <1>2, Zenon DEF StartSave, PutTx, PutChain
<1>5. \/ saving'[n] = "balances"
      \/ saving'[n] = "txs" /\ disk'[n].chain = disk[n].chain
                            /\ disk'[n].balances = disk[n].balances
  <2>1. CASE StartSave(n)
    BY <1>1, <1>2, <2>1, Zenon DEF StartSave
  <2>2. CASE PutTx(n)
    <3>1. PICK tx : disk' = [disk EXCEPT ![n].txs = @ \cup {tx}]
      BY <2>2, Zenon DEF PutTx
    <3>2. saving[n] = "txs" /\ saving' = saving
      BY <2>2, Zenon DEF PutTx
    <3> QED BY <1>1, <3>1, <3>2, StoredFacts, ZenonT(30)
  <2>3. CASE PutChain(n)
    BY <1>1, <1>2, <2>3, Zenon DEF PutChain
  <2> QED BY <2>1, <2>2, <2>3, Zenon
<1>6. n \notin torn.memory => Faithful(node[n], now)
  BY <1>1, Zenon DEF TornInv
<1>7. n \notin torn.disk /\ saving'[n] # "balances" => Faithful(disk'[n], now)
  <2>1. n \notin torn.disk => Faithful(disk[n], now)
    BY <1>1, Zenon DEF TornInv
  <2> QED BY <1>5, <2>1, Zenon DEF Faithful
<1>8. "disk" \in DOMAIN torn /\ "memory" \in DOMAIN torn /\ torn.memory \subseteq torn.disk
  BY Zenon DEF TornInv
<1> QED BY <1>1, <1>3, <1>4, <1>6, <1>7, <1>8, OneNodeFaithful, ZenonT(30)

\* The balances go with the chain that was put before them.
LEMMA BalancesFaithful ==
  ASSUME StoredInv, TornInv, NEW n \in Nodes, PutBalances(n)
  PROVE  TornInv'
<1>1. /\ saving[n] = "balances" /\ saving' = [saving EXCEPT ![n] = "idle"]
      /\ disk' = [disk EXCEPT ![n].balances = node[n].balances]
      /\ torn' = IF n \in torn.memory THEN torn ELSE [torn EXCEPT !.disk = @ \ {n}]
      /\ node' = node /\ now' = now
  BY Zenon DEF PutBalances
<1>2. n \in DbNodes
  BY <1>1, SaverHasDisk, Zenon DEF StoredInv
<1>3. /\ \A m \in Nodes \ {n} : saving'[m] = saving[m]
      /\ \A m \in DbNodes \ {n} : disk'[m] = disk[m]
      /\ disk'[n].chain = disk[n].chain /\ disk'[n].balances = node[n].balances
  BY <1>1, <1>2, StoredFacts, Zenon
<1>4. disk[n].chain = node[n].chain
  BY <1>1, <1>2, StoredFacts, Zenon DEF StoredOK
<1>5. n \notin torn.memory => Faithful(node[n], now) /\ Faithful(disk'[n], now)
  BY <1>1, <1>3, <1>4 DEF TornInv, Faithful
<1>6. /\ "disk" \in DOMAIN torn' /\ "memory" \in DOMAIN torn' /\ torn'.memory = torn.memory
      /\ torn'.disk = IF n \in torn.memory THEN torn.disk ELSE torn.disk \ {n}
  BY <1>1, Zenon DEF TornInv
<1>7. torn.memory \subseteq torn.disk
  BY Zenon DEF TornInv
<1>8. /\ torn'.memory \subseteq torn'.disk /\ torn'.disk \ {n} = torn.disk \ {n}
      /\ n \notin torn'.disk => n \notin torn.memory
  BY <1>6, <1>7, Zenon
<1> QED BY <1>1, <1>2, <1>3, <1>5, <1>6, <1>8, OneNodeFaithful, ZenonT(30)

\* A crash between the puts tears the database, any other leaves it as it was.
LEMMA CrashFaithful ==
  ASSUME StoredInv, TornInv, NEW n \in Nodes, Crash(n)
  PROVE  TornInv'
<1>1. /\ n \in DbNodes /\ saving[n] # "down" /\ saving' = [saving EXCEPT ![n] = "down"]
      /\ torn' = IF saving[n] = "balances" THEN [torn EXCEPT !.disk = @ \cup {n}] ELSE torn
      /\ disk' = disk /\ node' = node /\ now' = now
  BY Zenon DEF Crash
<1>2. saving'[n] = "down" /\ \A m \in Nodes \ {n} : saving'[m] = saving[m]
  BY <1>1, StoredFacts, Zenon
<1>3. /\ "disk" \in DOMAIN torn' /\ "memory" \in DOMAIN torn' /\ torn'.memory = torn.memory
      /\ torn'.disk = IF saving[n] = "balances" THEN torn.disk \cup {n} ELSE torn.disk
  BY <1>1, Zenon DEF TornInv
<1>4. torn.memory \subseteq torn.disk
  BY Zenon DEF TornInv
<1>5. torn'.memory \subseteq torn'.disk /\ torn'.disk \ {n} = torn.disk \ {n}
  BY <1>3, <1>4, Zenon
<1>6. n \notin torn'.disk => Faithful(disk[n], now)
  BY <1>1, <1>3, Zenon DEF TornInv
<1> QED BY <1>1, <1>2, <1>3, <1>5, <1>6, OneNodeFaithful, Zenon

\* A restart runs on what the database holds.
LEMMA RestartFaithful ==
  ASSUME StoredInv, TornInv, NEW n \in Nodes, Restart(n)
  PROVE  TornInv'
<1>1. /\ n \in DbNodes /\ saving[n] = "down" /\ saving'[n] = "txs"
      /\ \A m \in Nodes \ {n} : saving'[m] = saving[m] /\ node'[m] = node[m]
      /\ node'[n].chain = disk[n].chain /\ node'[n].balances = disk[n].balances
      /\ now' = now /\ disk' = disk
  BY Restarted, Zenon
<1>2. torn' = [torn EXCEPT !.memory = IF n \in torn.disk THEN @ \cup {n} ELSE @ \ {n}]
  BY Zenon DEF Restart
<1>3. /\ "disk" \in DOMAIN torn' /\ "memory" \in DOMAIN torn' /\ torn'.disk = torn.disk
      /\ torn'.memory = IF n \in torn.disk THEN torn.memory \cup {n} ELSE torn.memory \ {n}
  BY <1>2, Zenon DEF TornInv
<1>4. torn.memory \subseteq torn.disk
  BY Zenon DEF TornInv
<1>5. /\ torn'.memory \subseteq torn'.disk /\ torn'.memory \ {n} = torn.memory \ {n}
      /\ n \notin torn'.memory => n \notin torn.disk
  BY <1>3, <1>4, Zenon
<1>6. n \notin torn.disk => Faithful(disk[n], now) /\ Faithful(node'[n], now)
  BY <1>1, ZenonT(30) DEF TornInv, Faithful
<1> QED BY <1>1, <1>3, <1>5, <1>6, OneNodeFaithful, Zenon

\* The invariant, when no node was opened on an empty database.
THEOREM TornInvariant ==
  ASSUME FreshNodes = {}
  PROVE  DurableSpec => []TornInv
<1>1. DurableInit => TornInv
  <2> SUFFICES ASSUME DurableInit PROVE TornInv
    BY Zenon
  <2>1. /\ Init /\ torn = [disk |-> {}, memory |-> {}]
        /\ disk = [n \in DbNodes |-> [txs |-> {}, chain |-> node[n].chain,
                                      balances |-> node[n].balances]]
    BY Zenon DEF DurableInit
  <2>2. \A n \in Nodes : Faithful(node[n], now)
    BY <2>1, NetworkStarts, Zenon
  <2>3. \A n \in DbNodes : disk[n].chain = node[n].chain /\ disk[n].balances = node[n].balances
    BY <2>1, Zenon
  <2>4. \A n \in DbNodes : Faithful(disk[n], now)
    BY <2>2, <2>3, CrashBounds, Zenon DEF Faithful
  <2>5. "disk" \in DOMAIN torn /\ "memory" \in DOMAIN torn /\ torn.memory = {}
    BY <2>1, Zenon
  <2> QED BY <2>2, <2>4, <2>5, Zenon DEF TornInv
<1>2. StoredInv /\ TornInv /\ [DurableNext]_dvars => TornInv'
  <2> SUFFICES ASSUME StoredInv, TornInv, [DurableNext]_dvars PROVE TornInv'
    BY Zenon
  <2>1. CASE UNCHANGED dvars
    BY <2>1, Zenon DEF dvars, TornInv, Faithful
  <2>2. CASE Clock
    <3>1. /\ node' = node /\ now' = now + 1 /\ disk' = disk /\ saving' = saving /\ torn' = torn
      BY <2>2, Zenon DEF Clock, Tick
    <3>2. now \in Nat /\ now + 1 \in Nat /\ now <= now + 1
      BY DEF StoredInv, ChainsInv
    <3>3. \A n \in Nodes : Faithful(node[n], now) => Faithful(node[n], now + 1)
      BY <3>2, FaithfulLater, Zenon DEF StoredInv, ChainsInv, NodeOK
    <3>4. \A n \in DbNodes : Faithful(disk[n], now) => Faithful(disk[n], now + 1)
      BY <3>2, FaithfulLater, Zenon DEF StoredInv, StoredOK, NodeOK
    <3> QED BY <3>1, <3>3, <3>4, Zenon DEF TornInv, Faithful
  <2>3. ASSUME NEW n \in Nodes,
               Receive(n) \/ Mine(n) \/ \E c \in chains : Adopt(n, c)
        PROVE  TornInv'
    BY <2>3, LockedFaithful, Zenon
  <2>4. ASSUME NEW n \in Nodes, StartSave(n) \/ PutTx(n) \/ PutChain(n)
        PROVE  TornInv'
    BY <2>4, SavingFaithful, Zenon
  <2> QED BY <2>1, <2>2, <2>3, <2>4, BalancesFaithful, CrashFaithful, RestartFaithful,
             ZenonT(30) DEF DurableNext
<1> QED BY <1>1, <1>2, StoredInvariant, PTL DEF DurableSpec

\* A running node has the balances its chain yields, through any mixture of
\* commits, reorganisations, saves, crashes and restarts, unless it runs on a
\* database that a crash tore.
THEOREM RunningCachesMatch ==
  ASSUME FreshNodes = {}
  PROVE  DurableSpec => []RunningCacheMatchesChain
<1>1. TornInv => RunningCacheMatchesChain
  BY Zenon DEF TornInv, Faithful, RunningCacheMatchesChain, Yields
<1> QED BY <1>1, TornInvariant, PTL

=============================================================================
