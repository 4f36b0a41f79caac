------------------------------- MODULE Ledger -------------------------------
(***************************************************************************)
(* The state machine of blocks: apply_block and unapply_block of the core  *)
(* crate (state/inner.rs) and the emission schedule they consult           *)
(* (economics/emission.rs), for transfer transactions.                     *)
(*                                                                         *)
(* A state is a function from addresses to accounts.  The code drops empty *)
(* accounts and reads a missing one as empty; here every address has an    *)
(* account and the dropped ones are EmptyAccount.                          *)
(*                                                                         *)
(* A call either fails or yields a state: results are records with a flag, *)
(* and the code's `?` is the test of the flag in the fold over the block.  *)
(***************************************************************************)
EXTENDS Integers, Lists

CONSTANTS
    Addr,              \* addresses
    BalanceMax,        \* u64::MAX for balances
    Regtest,           \* chain_id = CHAIN_ID_REGTEST
    INITIAL_REWARD,    \* subsidy of the first halving period
    HALVING_INTERVAL,  \* blocks per halving period
    TAIL_RATE_NUMERATOR,
    TAIL_RATE_DIVISOR  \* TAIL_RATE_DENOMINATOR * BLOCKS_PER_YEAR

ASSUME EmissionConstants ==
    /\ INITIAL_REWARD \in Nat
    /\ HALVING_INTERVAL \in Nat \ {0}
    /\ TAIL_RATE_NUMERATOR \in Nat
    /\ TAIL_RATE_DIVISOR \in Nat \ {0}
    /\ Regtest \in BOOLEAN
    /\ BalanceMax \in Nat

EmptyAccount == [balance |-> 0, nonce |-> 0]
EmptyState == [a \in Addr |-> EmptyAccount]

Ok(s) == [ok |-> TRUE, state |-> s]
Fail(s) == [ok |-> FALSE, state |-> s]

total_supply(s) == FoldFunction(LAMBDA acc, sum : acc.balance + sum, 0, s)

-----------------------------------------------------------------------------
(* Emission *)

halving_schedule(height) ==
    IF height \div HALVING_INTERVAL >= 64
    THEN 0
    ELSE INITIAL_REWARD \div (2 ^ (height \div HALVING_INTERVAL))

calculate_tail_reward(supply) ==
    (supply * TAIL_RATE_NUMERATOR) \div TAIL_RATE_DIVISOR

block_reward_at_height(height, supply) ==
    IF Regtest
    THEN 0
    ELSE Max({halving_schedule(height), calculate_tail_reward(supply)})

-----------------------------------------------------------------------------
(* Applying a block *)

credit(s, a, amount) ==
    IF s[a].balance + amount > BalanceMax
    THEN Fail(s)
    ELSE Ok([s EXCEPT ![a].balance = @ + amount])

debit(s, a, amount) ==
    IF s[a].balance < amount
    THEN Fail(s)
    ELSE Ok([s EXCEPT ![a].balance = @ - amount])

\* Mutant: both accounts are read before either is written, so a transfer to
\* oneself mints.
MutantTransferReadsEarly(result, tx) ==
    IF ~result.ok THEN result
    ELSE LET s == result.state
         IN  IF s[tx.from].balance < tx.amount \/ s[tx.to].balance + tx.amount > BalanceMax
             THEN Fail(s)
             ELSE Ok([s EXCEPT ![tx.from] = [balance |-> @.balance - tx.amount,
                                             nonce |-> @.nonce + 1],
                               ![tx.to].balance = s[tx.to].balance + tx.amount])

\* deduct_sender, credit_receiver, increment_nonce.  The fee is not charged
\* and the nonce of the transaction is not looked at.
apply_transfer(result, tx) ==
    IF ~result.ok THEN result
    ELSE LET deducted == debit(result.state, tx.from, tx.amount)
             credited == credit(deducted.state, tx.to, tx.amount)
         IN  IF ~deducted.ok THEN deducted
             ELSE IF ~credited.ok THEN credited
             ELSE Ok([credited.state EXCEPT ![tx.from].nonce = @ + 1])

Coinbases(b) == {i \in DOMAIN b.transactions : b.transactions[i].is_coinbase}

IsTransfer(tx) == ~tx.is_coinbase

apply_genesis(s, b) ==
    fold(LAMBDA r, tx : IF r.ok THEN credit(r.state, tx.to, tx.amount) ELSE r,
             Ok(s), b.transactions)

\* The first coinbase may mint up to the reward and is credited before the
\* transfers wherever it stands in the block; further coinbases are skipped.
apply_non_genesis(s, b) ==
    IF Coinbases(b) = {} THEN Fail(s)
    ELSE LET coinbase == b.transactions[Min(Coinbases(b))]
         IN  IF coinbase.amount > block_reward_at_height(b.index, total_supply(s))
             THEN Fail(s)
             ELSE fold(apply_transfer,
                           credit(s, coinbase.to, coinbase.amount),
                           SelectSeq(b.transactions, IsTransfer))

apply_block(s, b) ==
    IF b.index = 0 THEN apply_genesis(s, b) ELSE apply_non_genesis(s, b)

-----------------------------------------------------------------------------
(* Reversing a block *)

\* decrement_nonce, debit_receiver, credit_sender; every coinbase is debited.
unapply_tx(result, tx) ==
    IF ~result.ok THEN result
    ELSE IF tx.is_coinbase THEN debit(result.state, tx.to, tx.amount)
    ELSE LET restored == [result.state EXCEPT ![tx.from].nonce = @ - 1]
             debited == debit(restored, tx.to, tx.amount)
         IN  IF ~debited.ok THEN debited
             ELSE credit(debited.state, tx.from, tx.amount)

unapply_genesis(s, b) ==
    fold(LAMBDA r, tx : IF r.ok THEN debit(r.state, tx.to, tx.amount) ELSE r,
             Ok(s), rev(b.transactions))

\* Mutant: transactions are reversed first to last.
MutantUnapplyInOrder(s, b) == fold(unapply_tx, Ok(s), b.transactions)

unapply_non_genesis(s, b) ==
    fold(unapply_tx, Ok(s), rev(b.transactions))

unapply_block(s, b) ==
    IF b.index = 0 THEN unapply_genesis(s, b) ELSE unapply_non_genesis(s, b)

=============================================================================
