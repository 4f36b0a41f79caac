------------------------------ MODULE Witness ------------------------------
(***************************************************************************)
(* Stateless verification (state/witness.rs): whoever knows only the state *)
(* root of the parent checks a block from a witness, the accounts the      *)
(* block touches with their Merkle proofs.  A full node applies blocks on  *)
(* its tip and seals each one with the root of the state it leads to.  The *)
(* order in which the accounts of a witness are visited is the iteration   *)
(* order of a HashMap.                                                     *)
(***************************************************************************)
EXTENDS LedgerReplay, Merkle

CONSTANT WitnessBody    \* transaction lists of the blocks that are sealed

VARIABLES
    accounts,    \* State::balances of the full node
    sealed       \* its last block, and the state that block was applied to

witness_vars == <<accounts, sealed>>

collect_touched_addresses(block) ==
    UNION {IF tx.is_coinbase THEN {tx.to} ELSE {tx.from, tx.to} :
              tx \in Range(block.transactions)}

build_witness(pre_state, block) ==
    LET trie == build_trie(pre_state)
    IN  [pre_state_root |-> compute_root(pre_state),
         proofs |-> [a \in collect_touched_addresses(block) |->
                        [account |-> pre_state[a],
                         proof |-> prove(trie, a, pre_state[a]).proof]]]

\* The state that holds the accounts of the witness and no other.
reconstructed(witness) ==
    [a \in Addr |-> IF a \in DOMAIN witness.proofs
                    THEN witness.proofs[a].account ELSE EmptyAccount]

ZERO_ROOT == [zero |-> TRUE]

\* The proofs, the coverage, the transition and the commitment, in turn.
verify_block_stateless(parent_state_root, block, witness, order) ==
    LET post == apply_block(reconstructed(witness), block)
        updates == [i \in DOMAIN order |->
                      [address |-> order[i],
                       pre |-> witness.proofs[order[i]].account,
                       proof |-> witness.proofs[order[i]].proof,
                       post |-> post.state[order[i]]]]
        computed == root_after_updates(parent_state_root, updates)
    IN  /\ witness.pre_state_root = parent_state_root
        /\ \A a \in DOMAIN witness.proofs :
              verify_proof(parent_state_root, a, witness.proofs[a].account,
                           witness.proofs[a].proof)
        /\ collect_touched_addresses(block) \subseteq DOMAIN witness.proofs
        /\ post.ok
        /\ computed.ok
        /\ \/ block.index = 0 /\ block.state_root = ZERO_ROOT
           \/ block.state_root = computed.root

WitnessInit ==
    /\ accounts = EmptyState
    /\ sealed = [block |-> [index |-> -1, transactions |-> <<>>], before |-> EmptyState]

SealBlock(body) ==
    LET block == [index |-> sealed.block.index + 1, transactions |-> body]
        result == apply_block(accounts, block)
    IN  /\ block.index <= MaxHeight
        /\ (body = GenesisBody) <=> (block.index = 0)
        /\ result.ok
        /\ accounts' = result.state
        /\ sealed' = [block |-> block, before |-> accounts]

WitnessNext == \E body \in WitnessBody \cup {GenesisBody} : SealBlock(body)

-----------------------------------------------------------------------------
Sealed(block, root) ==
    [index |-> block.index, transactions |-> block.transactions, state_root |-> root]

\* The reward a verifier computes rests on the supply of the witness accounts.
RewardCovered(witness, block) ==
    block.index = 0 \/
    block.transactions[Min(Coinbases(block))].amount
        <= block_reward_at_height(block.index, total_supply(reconstructed(witness)))

\* prove gives a proof for the account in the state, absent accounts included,
\* and for no other, and that proof verifies that account and no other one,
\* whatever tree the blocks built around it.
ProofsExact ==
    sealed.block.index >= 0 =>
    LET trie == build_trie(accounts)
        root == compute_root(accounts)
        claims == {accounts[a] : a \in Addr} \cup {sealed.before[a] : a \in Addr}
                  \cup {EmptyAccount}
    IN  \A a \in Addr, claim \in claims :
            /\ prove(trie, a, claim).ok <=> claim = accounts[a]
            /\ verify_proof(root, a, claim, prove(trie, a, accounts[a]).proof)
                  <=> claim = accounts[a]

\* A verifier with a witness agrees with the full node: it accepts every block
\* the node applied, in whatever order it visits the accounts (paths of
\* touched leaves overlap and are recomputed one after the other), and with
\* another post-state root or without one of the accounts it rejects it.  The
\* exception is a coinbase above the reward on the supply of the witness:
\* the tail reward depends on accounts the witness does not hold.
StatelessAgrees ==
    sealed.block.index >= 0 =>
        LET block == sealed.block
            parent == compute_root(sealed.before)
            root == compute_root(accounts)
            witness == build_witness(sealed.before, block)
            touched == DOMAIN witness.proofs
            Verify(header_root, w, order) ==
                verify_block_stateless(parent, Sealed(block, header_root), w, order)
        IN  /\ \A order \in SetToSeqs(touched) :
                  /\ Verify(root, witness, order) <=> RewardCovered(witness, block)
                  /\ root # parent => ~Verify(parent, witness, order)
            /\ \A a \in touched :
                  ~Verify(root, [witness EXCEPT !.proofs = Restrict(@, touched \ {a})],
                          SetToSeq(touched \ {a}))

=============================================================================
