---------------------------- MODULE LedgerReplay ----------------------------
(***************************************************************************)
(* The state machine driven forwards and backwards: blocks are applied on  *)
(* the tip and the tip is reversed, as a reorganisation does.  A block is  *)
(* offered whenever it is well formed; apply_block decides.                *)
(***************************************************************************)
EXTENDS Ledger, SequencesExt

CONSTANTS
    BlockBody,      \* transaction lists of the blocks that are offered
    GenesisBody,    \* transaction list of the genesis block
    MaxHeight       \* bound on the chain

ASSUME MaxHeightAssumption == MaxHeight \in Nat

VARIABLES
    state,     \* State::balances
    applied    \* the applied blocks with the state each one was applied to

ledger_vars == <<state, applied>>

LedgerInit == state = EmptyState /\ applied = <<>>

\* apply_block on the tip.
Apply(body) ==
    LET block == [index |-> Len(applied), transactions |-> body]
        result == apply_block(state, block)
    IN  /\ Len(applied) <= MaxHeight
        /\ (body = GenesisBody) <=> (applied = <<>>)
        /\ result.ok
        /\ state' = result.state
        /\ applied' = Append(applied, [block |-> block, before |-> state])

\* unapply_block of the tip.
Unapply ==
    /\ applied # <<>>
    /\ LET result == unapply_block(state, Last(applied).block)
       IN  result.ok /\ state' = result.state
    /\ applied' = Front(applied)

LedgerNext == (\E body \in BlockBody \cup {GenesisBody} : Apply(body)) \/ Unapply

LedgerSpec == LedgerInit /\ [][LedgerNext]_ledger_vars

-----------------------------------------------------------------------------
\* Balances and nonces stay natural numbers within their width.
LedgerTypeOK ==
    /\ state \in [Addr -> [balance: 0 .. BalanceMax, nonce: Nat]]
    /\ Len(applied) <= MaxHeight + 1

\* Reversing the tip always succeeds and gives back, account by account, the
\* state the tip was applied to: unapply_block is the inverse of apply_block
\* on every chain of blocks as mine_block builds them (one coinbase, in front),
\* so a rollback of any depth is exact.
RoundTrip ==
    applied # <<>> =>
        unapply_block(state, Last(applied).block) = Ok(Last(applied).before)

Minted(b) ==
    IF b.index = 0
    THEN FoldLeft(LAMBDA sum, tx : sum + tx.amount, 0, b.transactions)
    ELSE b.transactions[Min(Coinbases(b))].amount

\* All coins in the state were minted by a coinbase of the chain, no coin was
\* lost, and no block minted more than the emission schedule allows at its
\* height and supply; whatever transfers (to self, to the miner, of a reward
\* minted in the same block) the blocks contain.
SupplyAccounted ==
    /\ total_supply(state)
         = FoldLeft(LAMBDA sum, a : sum + Minted(a.block), 0, applied)
    /\ \A i \in DOMAIN applied :
          applied[i].block.index > 0 =>
              Minted(applied[i].block)
                <= block_reward_at_height(applied[i].block.index,
                                          total_supply(applied[i].before))

\* The nonce of an account is the number of its transfers in the chain.
NonceCountsTransfers ==
    \A a \in Addr :
        state[a].nonce =
            FoldLeft(LAMBDA n, x :
                        n + Len(SelectSeq(x.block.transactions,
                                 LAMBDA tx : x.block.index > 0 /\ IsTransfer(tx) /\ tx.from = a)),
                     0, applied)

=============================================================================
