------------------------------- MODULE Merkle -------------------------------
(***************************************************************************)
(* The sparse Merkle tree that commits to the accounts                     *)
(* (state/sparse_merkle.rs), with DEPTH levels instead of 256.             *)
(*                                                                         *)
(* Hashes are free terms: equal hashes have equal preimages.  The leaf of  *)
(* an account holds the key and the account, an inner node its children.   *)
(* A slice of the sorted leaves whose keys share a prefix is the function  *)
(* from these keys to the leaves: partition_point splits it by the next    *)
(* bit.  Keys are sequences of bits, a path prefix is a prefix of a key.   *)
(***************************************************************************)
EXTENDS Integers, Sequences, SequencesExt

CONSTANTS
    DEPTH,       \* levels of the tree
    KeyHash      \* the key of each address: blake3 of its text, as bits

ASSUME KeyAssumption ==
    /\ DEPTH \in Nat \ {0}
    /\ \A a \in DOMAIN KeyHash : KeyHash[a] \in [1 .. DEPTH -> {0, 1}]
    /\ IsInjective(KeyHash)

EMPTY_HASH == [empty |-> TRUE]
hash_pair(left, right) == [left |-> left, right |-> right]
account_leaf_hash(key, account) == [key |-> key, account |-> account]

is_empty(account) == account.balance = 0 /\ account.nonce = 0

leaf_hash_for(key, account) ==
    IF is_empty(account) THEN EMPTY_HASH ELSE account_leaf_hash(key, account)

\* Bits are counted from 0, as in the code.
bit_at(key, bit) == key[bit + 1]
path_prefix(key, depth) == SubSeq(key, 1, depth)

sibling_path(key, level) == Append(path_prefix(key, level), 1 - bit_at(key, level))

\* The table of empty subtrees, filled from the leaves up.
empty_subtree[depth \in 0 .. DEPTH] ==
    IF depth = DEPTH THEN EMPTY_HASH
    ELSE hash_pair(empty_subtree[depth + 1], empty_subtree[depth + 1])

Half(sorted, bit, value) ==
    Restrict(sorted, {k \in DOMAIN sorted : bit_at(k, bit) = value})

RECURSIVE hash_range(_, _)
hash_range(sorted, bit) ==
    IF DOMAIN sorted = {} THEN empty_subtree[bit]
    ELSE IF bit = DEPTH THEN sorted[CHOOSE k \in DOMAIN sorted : TRUE]
    ELSE hash_pair(hash_range(Half(sorted, bit, 0), bit + 1),
                   hash_range(Half(sorted, bit, 1), bit + 1))

RECURSIVE collect_siblings(_, _, _)
collect_siblings(sorted, key, bit) ==
    IF bit = DEPTH THEN <<>>
    ELSE <<hash_range(Half(sorted, bit, 1 - bit_at(key, bit)), bit + 1)>>
         \o collect_siblings(Half(sorted, bit, bit_at(key, bit)), key, bit + 1)

-----------------------------------------------------------------------------
(* The trie: insert leaves empty accounts out. *)

build_trie(accounts) ==
    LET present == {a \in DOMAIN accounts : ~is_empty(accounts[a])}
    IN  [k \in {KeyHash[a] : a \in present} |->
            LET a == CHOOSE x \in present : KeyHash[x] = k
            IN  account_leaf_hash(k, accounts[a])]

compute_root(accounts) == hash_range(build_trie(accounts), 0)

\* The claimed account must be the one in the trie, an empty one absent.
prove(trie, a, account) ==
    [ok |-> IF is_empty(account)
            THEN KeyHash[a] \notin DOMAIN trie
            ELSE KeyHash[a] \in DOMAIN trie /\
                 trie[KeyHash[a]] = account_leaf_hash(KeyHash[a], account),
     proof |-> collect_siblings(trie, KeyHash[a], 0)]

\* One step of the climb from a leaf: proof[i + 1] is the sibling at level i.
Climb(key, proof, acc, i) ==
    IF bit_at(key, i) = 0 THEN hash_pair(acc, proof[i + 1])
    ELSE hash_pair(proof[i + 1], acc)

Upwards == [i \in 1 .. DEPTH |-> DEPTH - i]

verify_proof(root, a, account, proof) ==
    /\ Len(proof) = DEPTH
    /\ FoldLeft(LAMBDA acc, i : Climb(KeyHash[a], proof, acc, i),
                leaf_hash_for(KeyHash[a], account), Upwards) = root

-----------------------------------------------------------------------------
(* root_after_updates: the root after some leaves are replaced, computed   *)
(* from the old root and the proofs of these leaves.  nodes maps a level   *)
(* and a path prefix of that length to a hash.                             *)

\* A later insert replaces an earlier one.
SeedNodes(nodes, u) ==
    LET key == KeyHash[u.address]
        frontier == {<<level + 1, sibling_path(key, level)>> : level \in 0 .. DEPTH - 1}
    IN  [p \in frontier |-> u.proof[p[1]]]
        @@ (<<DEPTH, key>> :> leaf_hash_for(key, u.pre))
        @@ nodes

WritePost(nodes, u) ==
    (<<DEPTH, KeyHash[u.address]>> :> leaf_hash_for(KeyHash[u.address], u.post)) @@ nodes

\* The children must be known: the code fails otherwise, here TLC would.
Recompute(nodes, u) ==
    LET key == KeyHash[u.address]
        Child(ns, level, bit) == ns[<<level + 1, Append(path_prefix(key, level), bit)>>]
    IN  FoldLeft(LAMBDA ns, level :
                    (<<level, path_prefix(key, level)>> :>
                        hash_pair(Child(ns, level, 0), Child(ns, level, 1))) @@ ns,
                 nodes, Upwards)

\* Mutant: the written leaves are hashed into their own paths one by one.
RootAfterLastUpdate(pre_root, updates) ==
    IF updates = <<>> THEN [ok |-> TRUE, root |-> pre_root]
    ELSE LET u == Last(updates)
         IN  [ok |-> \A i \in DOMAIN updates :
                        verify_proof(pre_root, updates[i].address, updates[i].pre,
                                     updates[i].proof),
              root |-> Recompute(WritePost(SeedNodes(<<>>, u), u), u)[<<0, <<>>>>]]

root_after_updates(pre_root, updates) ==
    IF updates = <<>> THEN [ok |-> TRUE, root |-> pre_root]
    ELSE IF \E i \in DOMAIN updates :
               ~verify_proof(pre_root, updates[i].address, updates[i].pre, updates[i].proof)
    THEN [ok |-> FALSE, root |-> pre_root]
    ELSE LET seeded == FoldLeft(SeedNodes, <<>>, updates)
             written == FoldLeft(WritePost, seeded, updates)
         IN  [ok |-> TRUE, root |-> FoldLeft(Recompute, written, updates)[<<0, <<>>>>]]

=============================================================================
