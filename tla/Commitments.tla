---------------------------- MODULE Commitments ----------------------------
(***************************************************************************)
(* The two other tries of state/sparse_merkle.rs: the receipts of a block, *)
(* by txid, and the storage of a contract, by slot key.  A key is its own  *)
(* path.  The leaf tags keep account, receipt and storage leaves apart;    *)
(* here the fields of the records do.  The machine draws a block's         *)
(* receipts, in which a txid may occur twice, and two storages.            *)
(***************************************************************************)
EXTENDS Merkle

CONSTANTS
    TxIds, SlotKeys,     \* keys
    Outcomes, Words,   \* what a receipt or a slot holds
    MaxReceipts        \* bound on a block

VARIABLES receipts, storages

commitment_vars == <<receipts, storages>>

receipt_leaf_hash(r) == [receipt |-> r]

storage_leaf_hash(key, value) == [slot |-> key, value |-> value]

\* Mutant: a later receipt replaces an earlier one.
LastWins(list) ==
    [k \in {r.txid : r \in Range(list)} |->
        receipt_leaf_hash(list[Max({i \in DOMAIN list : list[i].txid = k})])]

\* Of the receipts with one txid the first is committed.
ReceiptLeaves(list) ==
    [k \in {r.txid : r \in Range(list)} |->
        receipt_leaf_hash(list[Min({i \in DOMAIN list : list[i].txid = k})])]

receipts_subroot(list) == hash_range(ReceiptLeaves(list), 0)

prove_receipt(list, txid) ==
    [ok |-> \E r \in Range(list) : r.txid = txid,
     proof |-> collect_siblings(ReceiptLeaves(list), txid, 0)]

verify_receipt_proof(root, r, proof) ==
    /\ Len(proof) = DEPTH
    /\ FoldLeft(LAMBDA acc, i : Climb(r.txid, proof, acc, i), receipt_leaf_hash(r), Upwards)
         = root

ZERO_STORAGE == [zero_storage |-> TRUE]

contract_storage_root(entries) ==
    IF DOMAIN entries = {} THEN ZERO_STORAGE
    ELSE hash_range([k \in DOMAIN entries |-> storage_leaf_hash(k, entries[k])], 0)

Storage == UNION {[keys -> Words] : keys \in SUBSET SlotKeys}

Empty == [k \in {} |-> 0]

CommitmentsInit ==
    \/ /\ receipts \in BoundedSeq([txid: TxIds, outcome: Outcomes], MaxReceipts)
       /\ storages = <<Empty, Empty>>
    \/ receipts = <<>> /\ storages \in Storage \X Storage

CommitmentsRest == receipts = <<>> /\ storages = <<>>

-----------------------------------------------------------------------------
\* The roots bind what they commit to.  A proof for a txid of the block verifies the
\* first receipt with that txid and no other receipt, wherever duplicates stand, and
\* an unknown txid has none; the root of a contract's storage tells any two storages
\* apart, an empty one and one with the same values in other slots included.
CommitmentsBinding ==
    LET First(k) == receipts[Min({i \in DOMAIN receipts : receipts[i].txid = k})]
    IN  storages # <<>> =>
            /\ \A k \in TxIds :
                  LET proven == prove_receipt(receipts, k)
                  IN  /\ proven.ok <=> \E r \in Range(receipts) : r.txid = k
                      /\ proven.ok => \A r \in [txid: TxIds, outcome: Outcomes] :
                            verify_receipt_proof(receipts_subroot(receipts), r, proven.proof)
                                <=> r = First(k)
            /\ contract_storage_root(storages[1]) = contract_storage_root(storages[2])
                  <=> storages[1] = storages[2]

=============================================================================
