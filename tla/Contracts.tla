----------------------------- MODULE Contracts -----------------------------
(***************************************************************************)
(* Deployments and contract calls: apply_create, apply_call and their      *)
(* reversal in the core crate (state/inner.rs), the call frames of the     *)
(* wasmi executor (vm-wasm: run_frame, nested_call, storage_write) and the *)
(* code registry the block executor seeds it with.                         *)
(*                                                                         *)
(* Contract code is arbitrary: a running frame may take any step that a    *)
(* host function offers, return or trap, within its fuel.  Fuel is spent   *)
(* by host calls only; an instruction that runs out is a trap.  Balances   *)
(* never come near u64::MAX, so additions do not overflow here (Ledger has *)
(* the width and the plain transfers).  The coinbase of every block is the *)
(* zero one of regtest.  An absent slot is None, and a storage root is     *)
(* what it commits to.                                                     *)
(***************************************************************************)
EXTENDS Integers, Sequences, FiniteSets, SequencesExt

CONSTANTS
    Users,            \* externally owned addresses
    Precompiles,      \* reserved addresses
    Keys,             \* storage slots
    Lengths,          \* sizes of the values written: a value is its size
    Amounts,          \* amounts transferred, endowments and call values
    Mentioned,        \* addresses that transactions and contracts name
    Endowed,          \* balances before the first block
    NonReentrant,     \* contract addresses whose entry is flagged non_reentrant
    GasLimits,        \* gas limits of deployments and calls
    MaxGas,           \* bound on their sum along the chain
    MAX_CALL_DEPTH,
    MAX_STORAGE_PER_CONTRACT,
    MaxTxs,           \* bound on the transactions of the chain
    MaxContractBlocks         \* bound on the blocks of the chain

\* derive_contract_address: one address for each creator and nonce.
derive_contract_address(creator, nonce) == <<creator, nonce>>

Address == Users \cup Precompiles \cup (Users \X (0 .. MaxTxs))
None == 0
EmptyStorage == [k \in Keys |-> None]
NoAccount == [balance |-> 0, nonce |-> 0, is_contract |-> FALSE, storage_root |-> EmptyStorage]
NoEntries == [x \in {} |-> {}]

VARIABLES
    state,       \* the State of the tip: balances, storage, receipts, undo
    chain,       \* the applied blocks, each with the state before it
    body,        \* transactions of the block being applied, in order
    new_state,   \* apply_block's working copy
    tx_before,   \* history: the working copy before the current transaction
    executor,    \* addresses the block's executor has code for
    frames,      \* the call frames of the current transaction, outermost first
    lossy        \* history: a deployment replaced an account that held coins, or
                 \* a failed transaction was reversed after its receipt was gone

contracts_vars == <<state, chain, body, new_state, tx_before, executor, frames, lossy>>

ContractsInit ==
    /\ state = [balances |-> [a \in Address |->
                    [NoAccount EXCEPT !.balance = IF a \in Users THEN Endowed ELSE 0]],
                storage |-> [a \in Address |-> EmptyStorage],
                receipts |-> NoEntries,
                storage_undo |-> NoEntries,
                value_transfers_undo |-> NoEntries]
    /\ new_state = state /\ tx_before = state
    /\ chain = <<>> /\ body = <<>> /\ frames = <<>>
    /\ executor = {} /\ lossy = FALSE

-----------------------------------------------------------------------------
(* Undo records: maps keyed by transaction *)

\* HashMap's insert and remove.
Insert(f, x, y) == [z \in DOMAIN f \cup {x} |-> IF z = x THEN y ELSE f[z]]
Without(f, x) == [z \in DOMAIN f \ {x} |-> f[z]]

\* One move of value; a self-move nets to zero.
Move(s, t) == [s EXCEPT !.balances[t.from].balance = @ - t.amount,
                        !.balances[t.to].balance = @ + t.amount]

Reversed(t) == [from |-> t.to, to |-> t.from, amount |-> t.amount]

\* Every move in turn, unless a payer cannot cover one: StateOverflow.
MoveAll(s, transfers) ==
    FoldLeft(LAMBDA r, t : IF r.ok /\ r.state.balances[t.from].balance >= t.amount
                           THEN [r EXCEPT !.state = Move(@, t)]
                           ELSE [r EXCEPT !.ok = FALSE],
             [ok |-> TRUE, state |-> s], transfers)

commit_value_transfers(s, txid, transfers) ==
    LET moved == MoveAll(s, transfers)
    IN  IF transfers = <<>> THEN moved
        ELSE [moved EXCEPT !.state.value_transfers_undo = Insert(@, txid, transfers)]

\* Mutant: the moves are reversed in the order they were committed.
ReverseInCommitOrder(s, transfers) ==
    MoveAll(s, [i \in DOMAIN transfers |-> Reversed(transfers[i])])

reverse_value_transfers(s, transfers) ==
    MoveAll(s, [i \in DOMAIN transfers |-> Reversed(Reverse(transfers)[i])])

\* The scopes of an overlay that are flushed: those of contract accounts.
Flushed(s, overlay) ==
    {a \in Address : s.balances[a].is_contract /\ \E k \in Keys : overlay[a][k] # None}

flush_storage_writes(s, overlay, txid) ==
    LET touched == Flushed(s, overlay)
        merged == [a \in Address |-> [k \in Keys |->
                      IF a \in touched /\ overlay[a][k] # None THEN overlay[a][k]
                                                               ELSE s.storage[a][k]]]
        undo == {<<a, k, s.storage[a][k]>> :
                    <<a, k>> \in {x \in touched \X Keys : overlay[x[1]][x[2]] # None}}
    IN  [s EXCEPT !.storage = merged,
                  !.balances = [a \in Address |-> IF a \in touched
                                               THEN [@[a] EXCEPT !.storage_root = merged[a]]
                                               ELSE @[a]],
                  !.storage_undo = IF undo = {} THEN @ ELSE Insert(@, txid, undo)]

unapply_call_storage(s, txid) ==
    IF txid \notin DOMAIN s.storage_undo THEN s
    ELSE LET undo == s.storage_undo[txid]
             restored == [a \in Address |-> [k \in Keys |->
                             IF \E u \in undo : u[1] = a /\ u[2] = k
                             THEN (CHOOSE u \in undo : u[1] = a /\ u[2] = k)[3]
                             ELSE s.storage[a][k]]]
             touched == {u[1] : u \in undo}
         IN  [s EXCEPT !.storage = restored,
                       !.balances = [a \in Address |->
                           IF a \in touched /\ @[a].is_contract
                           THEN [@[a] EXCEPT !.storage_root = restored[a]] ELSE @[a]],
                       !.storage_undo = Without(@, txid)]

-----------------------------------------------------------------------------
(* Applying the transactions of a block *)

\* The registry at the tip, rebuilt from the deployments of the chain.  It
\* uses the nonce written in the transaction, which the mempool wants to be
\* one more than the account's; apply_create uses the account's.
codes_from_chain(blocks) ==
    UNION {{derive_contract_address(tx.from, tx.nonce) :
               tx \in {t \in Range(blocks[i].transactions) : t.kind = "Create"}} :
           i \in DOMAIN blocks}

Account(s, a) == s.balances[a]
NonceOf(s, a) == s.balances[a].nonce

\* validate_nonce of the mempool: what a pending transaction carries.
Tx(kind, from, to, value, gas_limit) ==
    [kind |-> kind, from |-> from, to |-> to, value |-> value, gas_limit |-> gas_limit,
     nonce |-> NonceOf(new_state, from) + 1]

\* The transactions of the chain and of the open block.
Applied == FoldLeft(LAMBDA txs, b : txs \o b.transactions, <<>>, chain) \o body
GasOf(txs) == FoldLeft(LAMBDA n, tx : n + tx.gas_limit, 0, txs)

\* The next transaction of the block; the first one opens the block, with a
\* fresh executor seeded from the registry.  Lossy histories end there.
NextTx(tx) ==
    /\ ~lossy
    /\ frames = <<>> /\ Len(Applied) < MaxTxs /\ Len(chain) < MaxContractBlocks
    /\ GasOf(Applied) + tx.gas_limit <= MaxGas
    /\ body' = Append(body, tx)
    /\ tx_before' = new_state
    /\ UNCHANGED <<state, chain>>

\* An error of a transaction rejects the block: the working copy is dropped.
RejectBlock ==
    /\ body' = <<>> /\ frames' = <<>> /\ executor' = {}
    /\ new_state' = state /\ tx_before' = state
    /\ UNCHANGED <<state, chain, lossy>>

Receipt(s, txid, status) == [s EXCEPT !.receipts = Insert(@, txid, status)]

\* apply_block clears the receipts of the block before.
Opened == IF body = <<>> THEN [new_state EXCEPT !.receipts = NoEntries] ELSE new_state
Seeded == IF body = <<>> THEN codes_from_chain(chain) ELSE executor

IncrementNonce(s, a) == [s EXCEPT !.balances[a].nonce = @ + 1]

Balances(s) == [a \in Address |-> s.balances[a].balance]

\* The outermost frame.  A call has its value moved before the code runs,
\* a constructor finds its endowment credited.
EntryFrame(callee, s, gas, trail) ==
    [callee |-> callee, storage_address |-> callee, read_only |-> FALSE,
     fuel |-> gas, limit |-> gas,
     overlay |-> [a \in Address |-> EmptyStorage],
     accounts |-> Balances(s), logs |-> 0, entry |-> <<>>, transfers |-> trail]

\* apply_create up to the constructor: refused when a contract is there or
\* the endowment is not covered.
Create(from, endowment, gas) ==
    LET address == derive_contract_address(from, NonceOf(new_state, from))
        tx == Tx("Create", from, address, endowment, gas)
        installed == [IncrementNonce(Opened, from) EXCEPT !.balances[address] =
                         [balance |-> endowment, nonce |-> 1, is_contract |-> TRUE,
                          storage_root |-> EmptyStorage]]
    IN  /\ ~Account(new_state, address).is_contract
        /\ Account(new_state, from).balance >= endowment
        /\ NextTx(tx)
        /\ new_state' = installed
        /\ executor' = Seeded \cup {address}
        /\ frames' = <<EntryFrame(address, installed, gas, <<>>)>>
        /\ lossy' = (lossy \/ Account(new_state, address).balance > 0)

\* apply_call of an address that is no contract: a transfer.
CallAccount(from, to, value) ==
    LET tx == Tx("Call", from, to, value, 0)
        trail == IF value > 0 THEN <<[from |-> from, to |-> to, amount |-> value]>> ELSE <<>>
        moved == commit_value_transfers(IncrementNonce(Opened, from), tx, trail)
    IN  /\ ~Account(new_state, to).is_contract
        /\ Account(new_state, from).balance >= value
        /\ NextTx(tx)
        /\ new_state' = Receipt(moved.state, tx, "Success")
        /\ executor' = Seeded
        /\ UNCHANGED <<frames, lossy>>

\* apply_call of a contract the executor has no code for: NoCode, a failed
\* receipt.
CallWithoutCode(from, to, value) ==
    LET tx == Tx("Call", from, to, value, 0)
    IN  /\ Account(new_state, to).is_contract /\ to \notin Seeded
        /\ Account(new_state, from).balance >= value
        /\ NextTx(tx)
        /\ new_state' = Receipt(IncrementNonce(Opened, from), tx, "Failed")
        /\ executor' = Seeded
        /\ UNCHANGED <<frames, lossy>>

\* apply_call of a contract, up to its first instruction.
CallContract(from, to, value, gas) ==
    LET tx == Tx("Call", from, to, value, gas)
        called == IncrementNonce(Opened, from)
        trail == IF value > 0 THEN <<[from |-> from, to |-> to, amount |-> value]>> ELSE <<>>
    IN  /\ Account(new_state, to).is_contract /\ to \in Seeded
        /\ Account(new_state, from).balance >= value
        /\ NextTx(tx)
        /\ new_state' = called
        /\ executor' = Seeded
        /\ frames' = <<EntryFrame(to, MoveAll(called, trail).state, gas, trail)>>
        /\ UNCHANGED lossy

\* A transaction its sender cannot pay rejects the block.
Unaffordable(from, value) ==
    /\ frames = <<>> /\ body # <<>>
    /\ Account(new_state, from).balance < value
    /\ RejectBlock

\* So does a deployment of code the engine cannot decode (register_code).
UndecodableCode ==
    /\ frames = <<>> /\ body # <<>>
    /\ RejectBlock

-----------------------------------------------------------------------------
(* The end of a transaction *)

Current == Last(body)

\* What a failed outermost frame leaves: a failed receipt and, for a
\* deployment, no account.
Failed(s, tx) ==
    Receipt(IF tx.kind = "Create" THEN [s EXCEPT !.balances[tx.to] = NoAccount] ELSE s,
            tx, "Failed")

\* A successful call commits its moves, then its writes.
CommitCall(s, tx, frame) ==
    LET moved == commit_value_transfers(s, tx, frame.transfers)
    IN  [moved EXCEPT !.state = Receipt(flush_storage_writes(@, frame.overlay, tx), tx, "Success")]

\* Mutant: the endowment stays with the sender too.
CommitCreateKeepsEndowment(s, tx, frame) ==
    LET moved == commit_value_transfers(flush_storage_writes(s, frame.overlay, tx),
                                        tx, frame.transfers)
    IN  [moved EXCEPT !.state = Receipt(@, tx, "Success")]

\* A successful constructor commits its writes, the sender is debited and the
\* constructor's moves follow.
CommitCreate(s, tx, frame) ==
    LET flushed == flush_storage_writes(s, frame.overlay, tx)
        debited == [flushed EXCEPT !.balances[tx.from].balance = @ - tx.value]
        moved == commit_value_transfers(debited, tx, frame.transfers)
    IN  [moved EXCEPT !.ok = @ /\ Account(flushed, tx.from).balance >= tx.value,
                      !.state = Receipt(@, tx, "Success")]

Committed ==
    IF Current.kind = "Create" THEN CommitCreate(new_state, Current, Last(frames))
                               ELSE CommitCall(new_state, Current, Last(frames))

\* The outermost frame returns.
TransactionSucceeds ==
    /\ Len(frames) = 1
    /\ IF Committed.ok
       THEN /\ new_state' = Committed.state
            /\ frames' = <<>>
            /\ UNCHANGED <<state, chain, body, tx_before, executor, lossy>>
       ELSE RejectBlock

Abort ==
    /\ new_state' = Failed(new_state, Current)
    /\ frames' = <<>>
    /\ UNCHANGED <<state, chain, body, tx_before, executor, lossy>>

\* The outermost frame traps, runs out of fuel or is reverted.
TransactionFails == Len(frames) = 1 /\ Abort

\* commit_block: the registry grows by the block's deployments.
EndBlock ==
    /\ body # <<>> /\ frames = <<>>
    /\ state' = new_state
    /\ chain' = Append(chain, [transactions |-> body, before |-> state,
                               receipts |-> new_state.receipts])
    /\ body' = <<>> /\ executor' = {}
    /\ tx_before' = new_state
    /\ UNCHANGED <<new_state, frames, lossy>>

-----------------------------------------------------------------------------
(* The steps of the running frame *)

Running == Last(frames)
Keep == UNCHANGED <<state, chain, body, new_state, tx_before, executor, lossy>>

\* The running frame with some of its host state changed, one unit of fuel
\* charged before the host function does anything.
Continue(frame) == frames' = [frames EXCEPT ![Len(frames)] = frame] /\ Keep
Charged == [Running EXCEPT !.fuel = @ - 1]

SizeOf(storage) == FoldFunction(+, 0, storage)

\* Persisted and staged values together, the replaced staged one excepted.
WithinStorageCap(address, overlay, key, length) ==
    SizeOf(new_state.storage[address]) + SizeOf([overlay[address] EXCEPT ![key] = length])
        <= MAX_STORAGE_PER_CONTRACT

storage_write(key, length) ==
    /\ frames # <<>> /\ Running.fuel > 0 /\ ~Running.read_only
    /\ WithinStorageCap(Running.storage_address, Running.overlay, key, length)
    /\ Continue([Charged EXCEPT !.overlay[Running.storage_address][key] = length])

\* Host functions that only read: storage, calldata, block, fuel, hashes.
host_read == frames # <<>> /\ Running.fuel > 0 /\ Continue(Charged)

emit_log ==
    /\ frames # <<>> /\ Running.fuel > 0 /\ ~Running.read_only
    /\ Continue([Charged EXCEPT !.logs = @ + 1])

\* Any trap of a nested frame, a refused host call among them: the parent
\* sees a failed child and has lost the fuel it gave it.
ChildFails ==
    /\ Len(frames) > 1
    /\ frames' = [Front(frames) EXCEPT ![Len(frames) - 1].fuel = @ - Running.limit]
    /\ Keep

\* Mutant: the parent does not see the moves of its grandchildren.
MergeDropsTransfers(parent, child) ==
    [parent EXCEPT !.overlay = child.overlay, !.accounts = child.accounts,
                   !.logs = @ + child.logs, !.fuel = @ - (child.limit - child.fuel),
                   !.transfers = @ \o child.entry]

\* What a parent takes over from a child that succeeded.
Merge(parent, child) ==
    [parent EXCEPT !.overlay = child.overlay, !.accounts = child.accounts,
                   !.logs = @ + child.logs, !.fuel = @ - (child.limit - child.fuel),
                   !.transfers = @ \o child.entry \o child.transfers]

ChildReturns ==
    /\ Len(frames) > 1
    /\ frames' = Append(Front(Front(frames)), Merge(frames[Len(frames) - 1], Running))
    /\ Keep

\* transfer_value on the accounts a frame sees.
transfer_value(accounts, from, to, amount) ==
    [accounts EXCEPT ![from] = @ - amount, ![to] = @ + amount]

ReadOnlyChild(kind, parent) == parent.read_only \/ kind = "StaticCall"

\* The child frame of a nested call, its value already moved in its view.
Child(kind, to, value) ==
    LET payer == Running.storage_address
        moves == kind = "Call" /\ value > 0
    IN  [callee |-> to,
         storage_address |-> IF kind = "DelegateCall" THEN payer ELSE to,
         read_only |-> ReadOnlyChild(kind, Running),
         fuel |-> Charged.fuel, limit |-> Charged.fuel,
         overlay |-> Running.overlay,
         accounts |-> IF moves THEN transfer_value(Running.accounts, payer, to, value)
                               ELSE Running.accounts,
         logs |-> 0,
         entry |-> IF moves THEN <<[from |-> payer, to |-> to, amount |-> value]>> ELSE <<>>,
         transfers |-> <<>>]

CanCall(kind, value) ==
    frames # <<>> /\ Running.fuel > 0 /\ (kind # "Call" => value = 0)

TooDeep == Len(frames) > MAX_CALL_DEPTH
Reentrant(to) == to \in NonReentrant /\ \E i \in DOMAIN frames : frames[i].callee = to

\* The depth and reentrancy gates abort the whole transaction.
CallRefused(kind, to, value) ==
    /\ CanCall(kind, value)
    /\ TooDeep \/ Reentrant(to)
    /\ Abort

CallAdmitted(kind, to, value) == CanCall(kind, value) /\ ~TooDeep /\ ~Reentrant(to)

Covered(value) == Running.accounts[Running.storage_address] >= value

\* The payer cannot cover the value: a failed child, all fuel burnt.
CallNotCovered(kind, to, value) ==
    /\ CallAdmitted(kind, to, value) /\ ~Covered(value)
    /\ Continue([Running EXCEPT !.fuel = 0])

\* An address without code takes the value and succeeds for nothing.
CallPlain(kind, to, value) ==
    /\ CallAdmitted(kind, to, value) /\ Covered(value)
    /\ to \notin executor \cup Precompiles
    /\ Continue(Merge(Charged, Child(kind, to, value)))

\* A precompile succeeds for its declared gas, reverts for that gas (not
\* implemented) or for the whole budget (invalid input, not enough gas).
CallPrecompile(kind, to, value, outcome) ==
    /\ CallAdmitted(kind, to, value) /\ Covered(value)
    /\ to \in Precompiles
    /\ CASE outcome = "ok" ->
              /\ Charged.fuel > 0
              /\ Continue(Merge(Charged, [Child(kind, to, value) EXCEPT !.fuel = @ - 1]))
         [] outcome = "not_implemented" ->
              Continue([Charged EXCEPT !.fuel = IF @ > 0 THEN @ - 1 ELSE 0])
         [] outcome = "invalid_input" -> Continue([Charged EXCEPT !.fuel = 0])

\* A contract runs in a frame of its own.
CallFrame(kind, to, value) ==
    /\ CallAdmitted(kind, to, value) /\ Covered(value)
    /\ to \in executor
    /\ frames' = Append([frames EXCEPT ![Len(frames)] = Charged], Child(kind, to, value))
    /\ Keep

-----------------------------------------------------------------------------
(* Reversing the tip *)

\* The outcome of a transaction as the receipts tell it; a missing receipt
\* counts as a success.
Succeeded(s, tx) == tx \in DOMAIN s.receipts => s.receipts[tx] = "Success"

DecrementNonce(s, a) == [s EXCEPT !.balances[a].nonce = @ - 1]
ForgetMoves(s, tx) == [s EXCEPT !.value_transfers_undo = Without(@, tx)]

\* The recorded moves, else what the transaction itself says.
MovesOf(s, tx, otherwise) ==
    IF tx \in DOMAIN s.value_transfers_undo THEN s.value_transfers_undo[tx] ELSE otherwise

EntryOf(tx) ==
    IF tx.value > 0 THEN <<[from |-> tx.from, to |-> tx.to, amount |-> tx.value]>> ELSE <<>>

unapply_call(s, tx) ==
    LET moved == IF Succeeded(s, tx)
                 THEN reverse_value_transfers(DecrementNonce(s, tx.from),
                                              MovesOf(s, tx, EntryOf(tx)))
                 ELSE [ok |-> TRUE, state |-> DecrementNonce(s, tx.from)]
        forgotten == IF Succeeded(s, tx) THEN ForgetMoves(moved.state, tx) ELSE moved.state
    IN  [moved EXCEPT !.state = unapply_call_storage(forgotten, tx)]

unapply_create(s, tx) ==
    LET stored == unapply_call_storage(s, tx)
        moved == IF Succeeded(s, tx) THEN reverse_value_transfers(stored, MovesOf(s, tx, <<>>))
                                     ELSE [ok |-> TRUE, state |-> stored]
        refund == IF Succeeded(s, tx) THEN tx.value ELSE 0
    IN  [moved EXCEPT !.state =
            DecrementNonce([ForgetMoves(@, tx) EXCEPT
                               !.balances[tx.from].balance = @ + refund,
                               !.balances[tx.to] = NoAccount,
                               !.storage[tx.to] = EmptyStorage],
                           tx.from)]

unapply_contract_tx(s, tx) ==
    IF tx.kind = "Create" THEN unapply_create(s, tx) ELSE unapply_call(s, tx)

\* unapply_contract_block: last transaction first, then the receipts are cleared.
unapply_contract_block(s, block) ==
    LET result == FoldLeft(LAMBDA r, tx : IF r.ok THEN unapply_contract_tx(r.state, tx) ELSE r,
                           [ok |-> TRUE, state |-> s], Reverse(block.transactions))
    IN  [result EXCEPT !.state.receipts = NoEntries]

\* Every transaction of the tip that failed has its receipt.
Reversible(block) ==
    \A tx \in Range(block.transactions) :
        block.receipts[tx] = "Failed" => tx \in DOMAIN state.receipts

Unapply ==
    /\ chain # <<>> /\ body = <<>>
    /\ LET result == unapply_contract_block(state, Last(chain))
       IN  result.ok /\ state' = result.state /\ new_state' = result.state
                     /\ tx_before' = result.state
    /\ chain' = Front(chain)
    /\ lossy' = (lossy \/ ~Reversible(Last(chain)))
    /\ UNCHANGED <<body, executor, frames>>

-----------------------------------------------------------------------------
ApplyNext ==
    \E from \in Users :
        \/ UndecodableCode
        \/ \E value \in Amounts : Unaffordable(from, value)
        \/ \E value \in Amounts \cup {0}, gas \in GasLimits : Create(from, value, gas)
        \/ \E to \in Mentioned \ Precompiles, value \in Amounts \cup {0} :
              \/ CallAccount(from, to, value) \/ CallWithoutCode(from, to, value)
              \/ \E gas \in GasLimits : CallContract(from, to, value, gas)

FrameNext ==
    \/ \E key \in Keys, length \in Lengths : storage_write(key, length)
    \/ host_read \/ emit_log
    \/ ChildFails \/ ChildReturns \/ TransactionSucceeds \/ TransactionFails
    \/ \E kind \in {"Call", "DelegateCall", "StaticCall"}, to \in Mentioned, value \in Amounts \cup {0} :
          \/ CallRefused(kind, to, value) \/ CallNotCovered(kind, to, value)
          \/ CallPlain(kind, to, value) \/ CallFrame(kind, to, value)
          \/ \E outcome \in {"ok", "not_implemented", "invalid_input"} :
                CallPrecompile(kind, to, value, outcome)

ContractsNext == ApplyNext \/ FrameNext \/ EndBlock \/ Unapply

ContractsSpec == ContractsInit /\ [][ContractsNext]_contracts_vars

-----------------------------------------------------------------------------
\* Amounts, fuel and value sizes stay natural numbers within their bounds.
ContractsTypeOK ==
    /\ \A s \in {state, new_state} :
          /\ s.balances \in [Address -> [balance : Nat, nonce : 0 .. MaxTxs, is_contract : BOOLEAN,
                                      storage_root : [Keys -> Lengths \cup {None}]]]
          /\ s.storage \in [Address -> [Keys -> Lengths \cup {None}]]
    /\ \A i \in DOMAIN frames :
          /\ frames[i].fuel \in 0 .. frames[i].limit
          /\ frames[i].limit \in 0 .. MaxGas
          /\ frames[i].accounts \in [Address -> Nat]

\* All moves the frames have settled so far, in commit order.
Trail == FlattenSeq([i \in DOMAIN frames |-> frames[i].entry \o frames[i].transfers])

\* The balances contract code sees are at every moment those that committing
\* the audit trail to the state will produce: no move is lost, doubled or out
\* of order when frames nest, fail and merge, and the commit of a successful
\* transaction never finds a payer short (which would reject the block).
TrailExplainsView ==
    frames # <<>> =>
        LET moved == MoveAll(new_state, Trail)
        IN  moved.ok /\ Balances(moved.state) = Running.accounts

\* Below a static call nothing is written and no log emitted, however deep
\* and by whatever kind of call the code goes on.
ReadOnlyFramesWriteNothing ==
    \A i \in DOMAIN frames :
        frames[i].read_only =>
            /\ frames[i].overlay = frames[i - 1].overlay
            /\ frames[i].logs = 0

\* A transaction that fails costs its sender a nonce and changes nothing
\* else, whatever its frames had done; so does a deployment, unless its
\* address held coins.
FailedLeavesNoTrace ==
    [][(/\ frames # <<>> /\ frames' = <<>> /\ body' # <<>> /\ ~lossy
        /\ new_state'.receipts[Current] = "Failed") =>
           /\ new_state'.balances = IncrementNonce(tx_before, Current.from).balances
           /\ new_state'.storage = tx_before.storage]_contracts_vars

\* Deployments, calls, nested transfers and reversals create and destroy no
\* coin, unless a deployment replaced an account that held some or a failed
\* transaction was reversed without its receipt.
SupplyKept ==
    ~lossy /\ frames = <<>> =>
        FoldFunction(+, 0, Balances(new_state)) = Endowed * Cardinality(Users)

\* Every account commits to exactly the storage its contract has, and only
\* contracts have storage: after flushes, failures and reversals alike.
RootsCommitStorage ==
    \A s \in {state, new_state}, a \in Address :
        /\ s.balances[a].storage_root = s.storage[a]
        /\ ~s.balances[a].is_contract => s.storage[a] = EmptyStorage

\* No contract ever stores more than the cap, though the cap is checked write
\* by write against the storage before the transaction.
StorageWithinCap ==
    \A a \in Address : SizeOf(new_state.storage[a]) <= MAX_STORAGE_PER_CONTRACT

\* Reversing the tip succeeds and restores balances, nonces, accounts and
\* storage exactly, block after block, as long as failed transactions of the
\* tip still have their receipts and no deployment replaced coins.
ContractRoundTrip ==
    (chain # <<>> /\ body = <<>> /\ ~lossy /\ Reversible(Last(chain))) =>
        LET result == unapply_contract_block(state, Last(chain))
        IN  /\ result.ok
            /\ result.state.balances = Last(chain).before.balances
            /\ result.state.storage = Last(chain).before.storage

\* The registry the next block's executor is seeded from has code for every
\* contract of the state.
CodeForEveryContract ==
    \A a \in Address : state.balances[a].is_contract => a \in codes_from_chain(chain)

=============================================================================
