------------------------------ MODULE NodeTasks ------------------------------
(***************************************************************************)
(* The process around the node: run_async with its signal handlers, the    *)
(* sync task, the server tasks, the mining worker and the wallet window    *)
(* (src/lib.rs, src/gui/mod.rs).                                           *)
(*                                                                         *)
(* There are two shutdown flags.  run_async's is stored by the signal      *)
(* handlers and by the drop of every Node that shares it (the sync task's  *)
(* and the window's); the sync task, the headless loop and the miner poll  *)
(* it.  Node::new's own flag is stored when run_async's node is dropped;   *)
(* the server tasks poll that one.                                         *)
(*                                                                         *)
(* The miner runs on the blocking pool and holds the facade's write lock   *)
(* while it searches, so whatever reads the ledger waits for it.  A wallet *)
(* transfer is its nonce.                                                  *)
(***************************************************************************)
EXTENDS Integers, Sequences, FiniteSets

CONSTANTS
    MAX_ATTEMPTS,      \* tries to lock mining_status
    MaxTransfers,      \* bound: transfers the window makes
    MaxDisturbances    \* bound: peers' blocks with a pending transfer, and times
                       \* the system clock is set back

VARIABLES
    run,         \* run_async: with or without window, and how far it is
    flags,       \* the two shutdown flags
    sig,         \* the signal and its handler
    sync_task,   \* the task that pulls chains every second
    server,      \* the tasks of start_server
    desk,        \* the window: stage of the frame, mining_status, status_rx
    tasks,       \* mining_tx: transfers handed to the worker
    worker,      \* mining_worker_loop and its blocking closure
    wallet,      \* the wallet's nonce in the cache, its transfers in the pool
    disturbances

tasks_vars == <<run, flags, sig, sync_task, server, desk, tasks, worker, wallet, disturbances>>

NoTask == [id |-> 0, nonce |-> 0]
IdleWorker == [stage |-> "idle", task |-> NoTask, block |-> FALSE, attempts |-> 0,
               late |-> FALSE, gave_up |-> FALSE]

TasksInit ==
    /\ run \in [gui: BOOLEAN, stage: {"serving"}]
    /\ flags = [run |-> FALSE, node |-> FALSE]
    /\ sig = "none" /\ sync_task = "waiting" /\ server = "running"
    /\ desk = [pc |-> "drain", status |-> "Idle", rx |-> 0, messages |-> << >>, sends |-> 0,
               nonce |-> 0]
    /\ tasks = << >> /\ worker = IdleWorker
    /\ wallet = [nonce |-> 0, pending |-> {}]
    /\ disturbances = 0

Alive == run.stage # "exited"
\* The runtime runs async tasks until it is dropped.
Scheduled == run.stage \in {"serving", "closed", "returned"}
\* The facade's lock is held through the proof-of-work search.
FacadeFree == worker.stage # "searching"

(* The window *)

\* WalletApp::update up to the panel: the messages of the latest task; the one
\* about a mined block resets mining_status.
FrameDrain ==
    /\ run.gui /\ run.stage = "serving" /\ desk.pc = "drain"
    /\ desk' = [desk EXCEPT !.pc = "draw", !.messages = << >>,
                            !.status = IF \E i \in DOMAIN desk.messages : desk.messages[i] = "sent"
                                       THEN "Idle" ELSE @]
    /\ UNCHANGED <<run, flags, sig, sync_task, server, tasks, worker, wallet, disturbances>>

\* The panel shows the pool's length and the balance: it waits for the facade.
FrameDraw ==
    /\ run.gui /\ run.stage = "serving" /\ desk.pc = "draw" /\ FacadeFree
    /\ desk' = [desk EXCEPT !.pc = "drain"]
    /\ UNCHANGED <<run, flags, sig, sync_task, server, tasks, worker, wallet, disturbances>>

\* Mempool::insert for a transfer of the wallet: the next nonce, its slot free
\* (an equal length never pays the replacement's bump).
MayInsert(n) == n = wallet.nonce + Cardinality(wallet.pending) + 1

\* Mutant: the result of apply_tx is ignored.
ClickSendUnchecked ==
    /\ run.gui /\ run.stage = "serving" /\ desk.pc = "draw" /\ FacadeFree
    /\ desk.status # "Mining" /\ desk.sends < MaxTransfers
    /\ LET n == wallet.nonce + 1
       IN  IF MayInsert(n)
           THEN /\ wallet' = [wallet EXCEPT !.pending = @ \cup {n}]
                /\ desk' = [desk EXCEPT !.pc = "queue", !.sends = @ + 1, !.nonce = n]
           ELSE /\ desk' = [desk EXCEPT !.pc = "queue", !.sends = @ + 1, !.nonce = n]
                /\ UNCHANGED wallet
    /\ UNCHANGED <<run, flags, sig, sync_task, server, tasks, worker, disturbances>>

\* The send button, absent while mining: nonce of the cache + 1, then apply_tx.
\* A refused transfer ends the frame.
ClickSend ==
    /\ run.gui /\ run.stage = "serving" /\ desk.pc = "draw" /\ FacadeFree
    /\ desk.status # "Mining" /\ desk.sends < MaxTransfers
    /\ LET n == wallet.nonce + 1
       IN  IF MayInsert(n)
           THEN /\ wallet' = [wallet EXCEPT !.pending = @ \cup {n}]
                /\ desk' = [desk EXCEPT !.pc = "queue", !.sends = @ + 1, !.nonce = n]
           ELSE /\ desk' = [desk EXCEPT !.pc = "drain", !.sends = @ + 1]
                /\ UNCHANGED wallet
    /\ UNCHANGED <<run, flags, sig, sync_task, server, tasks, worker, disturbances>>

\* New channels, status Mining, the task; when the worker is gone the send fails
\* and the status is reset.
QueueTask ==
    /\ run.gui /\ run.stage = "serving" /\ desk.pc = "queue"
    /\ IF worker.stage = "dead"
       THEN /\ desk' = [desk EXCEPT !.pc = "drain", !.status = "Idle", !.rx = 0, !.messages = << >>]
            /\ UNCHANGED tasks
       ELSE /\ desk' = [desk EXCEPT !.pc = "drain", !.status = "Mining", !.rx = desk.sends,
                                    !.messages = << >>]
            /\ tasks' = Append(tasks, [id |-> desk.sends, nonce |-> desk.nonce])
    /\ UNCHANGED <<run, flags, sig, sync_task, server, worker, wallet, disturbances>>

\* Between two frames the user closes the window: run_native returns, the app
\* and with it its Node are dropped.
CloseWindow ==
    /\ run.gui /\ run.stage = "serving" /\ desk.pc = "drain"
    /\ run' = [run EXCEPT !.stage = "closed"]
    /\ flags' = [flags EXCEPT !.run = TRUE]
    /\ UNCHANGED <<sig, sync_task, server, desk, tasks, worker, wallet, disturbances>>

(* The mining worker *)

Delivered(message) ==
    IF desk.rx = worker.task.id THEN Append(desk.messages, message) ELSE desk.messages

\* The next task; when the window is gone and the queue empty the loop ends.
TakeTask ==
    /\ Scheduled /\ worker.stage = "idle"
    /\ IF tasks # << >>
       THEN /\ worker' = [IdleWorker EXCEPT !.stage = "apply", !.task = Head(tasks)]
            /\ tasks' = Tail(tasks)
       ELSE /\ run.gui /\ run.stage # "serving"
            /\ worker' = [worker EXCEPT !.stage = "ended"]
            /\ UNCHANGED tasks
    /\ UNCHANGED <<run, flags, sig, sync_task, server, desk, wallet, disturbances>>

\* spawn_blocking: apply_tx once more (the window already did), then mine_block
\* whether it was accepted or not.
WorkerApplies ==
    /\ Alive /\ worker.stage = "apply"
    /\ worker' = [worker EXCEPT !.stage = "lock"]
    /\ wallet' = IF MayInsert(worker.task.nonce)
                 THEN [wallet EXCEPT !.pending = @ \cup {worker.task.nonce}] ELSE wallet
    /\ UNCHANGED <<run, flags, sig, sync_task, server, desk, tasks, disturbances>>

\* mine_block takes the lock.  The pool may hold others' transactions, and may
\* not apply to the state (a contract transaction): then there is no search.
StartSearch ==
    /\ Alive /\ worker.stage = "lock"
    /\ \E stage \in {"searching", "searched"} : worker' = [worker EXCEPT !.stage = stage]
    /\ UNCHANGED <<run, flags, sig, sync_task, server, desk, tasks, wallet, disturbances>>

\* The search finds a hash; the block is committed.
SearchFinds ==
    /\ Alive /\ worker.stage = "searching"
    /\ worker' = [worker EXCEPT !.stage = "searched", !.block = TRUE]
    /\ wallet' = [nonce |-> wallet.nonce + Cardinality(wallet.pending), pending |-> {}]
    /\ UNCHANGED <<run, flags, sig, sync_task, server, desk, tasks, disturbances>>

\* Mutant: the search polls a flag that only a signal stores.
SearchStopsOnSignal ==
    /\ Alive /\ worker.stage = "searching" /\ sig = "handled"
    /\ worker' = [worker EXCEPT !.stage = "searched"]
    /\ UNCHANGED <<run, flags, sig, sync_task, server, desk, tasks, wallet, disturbances>>

\* The search looks at the flag before every hash.
SearchStops ==
    /\ Alive /\ worker.stage = "searching" /\ flags.run
    /\ worker' = [worker EXCEPT !.stage = "searched"]
    /\ UNCHANGED <<run, flags, sig, sync_task, server, desk, tasks, wallet, disturbances>>

\* A clock set back makes duration_since fail and its unwrap end the task; the
\* receiver and the tasks in it go with it.
WorkerPanics ==
    /\ Scheduled /\ worker.late /\ worker.stage \in {"searched", "round"}
    /\ worker' = [worker EXCEPT !.stage = "dead"]
    /\ tasks' = << >>
    /\ UNCHANGED <<run, flags, sig, sync_task, server, desk, wallet, disturbances>>

\* The closure returned: a mined block is reported and followed by a sync round.
Mined ==
    /\ Scheduled /\ ~worker.late /\ worker.stage = "searched"
    /\ worker' = [worker EXCEPT !.stage = IF worker.block THEN "round" ELSE "status"]
    /\ desk' = IF worker.block THEN [desk EXCEPT !.messages = Delivered("sent")] ELSE desk
    /\ UNCHANGED <<run, flags, sig, sync_task, server, tasks, wallet, disturbances>>

\* The round's temporary Node carries a flag of its own, which its drop stores.
PostMineRound ==
    /\ Scheduled /\ ~worker.late /\ worker.stage = "round"
    /\ worker' = [worker EXCEPT !.stage = "status"]
    /\ UNCHANGED <<run, flags, sig, sync_task, server, desk, tasks, wallet, disturbances>>

\* Mutant: only a mined block is written to mining_status.
StatusOnSuccess ==
    /\ Scheduled /\ worker.stage = "status"
    /\ worker' = [worker EXCEPT !.stage = "idle"]
    /\ desk' = IF worker.block THEN [desk EXCEPT !.status = "Completed"] ELSE desk
    /\ UNCHANGED <<run, flags, sig, sync_task, server, tasks, wallet, disturbances>>

\* try_lock on mining_status succeeds.
WriteStatus ==
    /\ Scheduled /\ worker.stage = "status"
    /\ worker' = [worker EXCEPT !.stage = "idle"]
    /\ desk' = IF worker.block THEN [desk EXCEPT !.status = "Completed"]
               ELSE [desk EXCEPT !.status = "Failed", !.messages = Delivered("failed")]
    /\ UNCHANGED <<run, flags, sig, sync_task, server, tasks, wallet, disturbances>>

\* The window holds the lock; after the last attempt the worker gives up.
StatusBusy ==
    /\ Scheduled /\ worker.stage = "status" /\ run.gui /\ run.stage = "serving"
    /\ LET given_up == worker.attempts + 1 = MAX_ATTEMPTS
       IN  /\ worker' = [worker EXCEPT !.attempts = @ + 1, !.gave_up = given_up,
                                       !.stage = IF given_up THEN "idle" ELSE @]
           /\ desk' = IF given_up THEN [desk EXCEPT !.messages = Delivered("error")] ELSE desk
    /\ UNCHANGED <<run, flags, sig, sync_task, server, tasks, wallet, disturbances>>

(* The sync task, the server tasks and the engine *)

\* A tick: the flag first, then, every tenth time, a round (here the rounds are
\* the ticks that matter).  The end of the task drops its Node.
SyncTick ==
    /\ Scheduled /\ sync_task = "waiting"
    /\ sync_task' = IF flags.run THEN "stopped" ELSE "syncing"
    /\ UNCHANGED <<run, flags, sig, server, desk, tasks, worker, wallet, disturbances>>

\* The round reads the ledger.  With the clock set back its unwrap ends the
\* task, and the drop of the task's Node stores the flag.
SyncRound ==
    /\ Scheduled /\ sync_task \in {"syncing", "late"} /\ FacadeFree
    /\ sync_task' = IF sync_task = "late" THEN "panicked" ELSE "waiting"
    /\ flags' = [flags EXCEPT !.run = @ \/ sync_task = "late"]
    /\ UNCHANGED <<run, sig, server, desk, tasks, worker, wallet, disturbances>>

\* Accept, dial, peer tick, announcer and engine poll Node::new's flag.
ServerPolls ==
    /\ Scheduled /\ server = "running" /\ flags.node
    /\ server' = "stopped"
    /\ UNCHANGED <<run, flags, sig, sync_task, desk, tasks, worker, wallet, disturbances>>

\* The engine, or the window with a snapshot from sync_rx, adopts a block of a
\* peer that holds the wallet's pending transfer.
PeerBlock ==
    /\ Scheduled /\ server = "running" /\ FacadeFree /\ wallet.pending # {} /\ disturbances < MaxDisturbances
    /\ wallet' = [nonce |-> wallet.nonce + Cardinality(wallet.pending), pending |-> {}]
    /\ disturbances' = disturbances + 1
    /\ UNCHANGED <<run, flags, sig, sync_task, server, desk, tasks, worker>>

(* Signals and the end of the process *)

\* The user interrupts the process.
Interrupt ==
    /\ Alive /\ sig = "none"
    /\ sig' = "raised"
    /\ UNCHANGED <<run, flags, sync_task, server, desk, tasks, worker, wallet, disturbances>>

\* Either handler: the async task, or the ctrlc thread, which needs no runtime.
HandleSignal ==
    /\ Alive /\ sig = "raised"
    /\ sig' = "handled"
    /\ flags' = [flags EXCEPT !.run = TRUE]
    /\ UNCHANGED <<run, sync_task, server, desk, tasks, worker, wallet, disturbances>>

\* SHUTDOWN_TIMEOUT after the signal the handler ends the process.
ForceExit ==
    /\ Alive /\ sig = "handled"
    /\ run' = [run EXCEPT !.stage = "exited"]
    /\ UNCHANGED <<flags, sig, sync_task, server, desk, tasks, worker, wallet, disturbances>>

\* gui::run returned, or the headless loop saw the flag: run_async returns and
\* drops its node, which stores its flag and aborts the sync task.
RunReturns ==
    /\ \/ run.gui /\ run.stage = "closed"
       \/ ~run.gui /\ run.stage = "serving" /\ flags.run
    /\ run' = [run EXCEPT !.stage = "returned"]
    /\ flags' = [run |-> TRUE, node |-> TRUE]
    /\ sync_task' = IF sync_task = "panicked" THEN sync_task ELSE "stopped"
    /\ UNCHANGED <<sig, server, desk, tasks, worker, wallet, disturbances>>

InClosure == worker.stage \in {"apply", "lock", "searching"}

\* main drops the runtime: async tasks end where they wait, the blocking pool is
\* waited for.
RuntimeDrops ==
    /\ run.stage = "returned"
    /\ run' = [run EXCEPT !.stage = "dropping"]
    /\ server' = "stopped" /\ tasks' = << >>
    /\ worker' = IF InClosure THEN worker ELSE [worker EXCEPT !.stage = "ended"]
    /\ UNCHANGED <<flags, sig, sync_task, desk, wallet, disturbances>>

Exit ==
    /\ run.stage = "dropping" /\ ~InClosure
    /\ run' = [run EXCEPT !.stage = "exited"]
    /\ UNCHANGED <<flags, sig, sync_task, server, desk, tasks, worker, wallet, disturbances>>

\* The system clock is set back below the start of what is being timed.
ClockSetBack ==
    /\ Alive /\ disturbances < MaxDisturbances
    /\ disturbances' = disturbances + 1
    /\ sync_task' = IF sync_task = "syncing" THEN "late" ELSE sync_task
    /\ worker' = [worker EXCEPT !.late = InClosure \/ worker.stage \in {"searched", "round"}]
    /\ UNCHANGED <<run, flags, sig, server, desk, tasks, wallet>>

TasksNext ==
    \/ FrameDrain \/ FrameDraw \/ ClickSend \/ QueueTask \/ CloseWindow
    \/ TakeTask \/ WorkerApplies \/ StartSearch \/ SearchFinds \/ SearchStops
    \/ WorkerPanics \/ Mined \/ PostMineRound \/ WriteStatus \/ StatusBusy
    \/ SyncTick \/ SyncRound \/ ServerPolls \/ PeerBlock
    \/ Interrupt \/ HandleSignal \/ ForceExit \/ RunReturns \/ RuntimeDrops \/ Exit
    \/ ClockSetBack

\* The window's frame loop, the worker with its closure, the signal handlers and
\* main each run what they have to do next.  Nothing bounds a proof-of-work
\* search: SearchFinds is not fair.
TasksFairness ==
    /\ WF_tasks_vars(FrameDrain \/ FrameDraw \/ QueueTask)
    /\ WF_tasks_vars(\/ TakeTask \/ WorkerApplies \/ StartSearch \/ SearchStops \/ WorkerPanics
                     \/ Mined \/ PostMineRound \/ WriteStatus \/ StatusBusy)
    /\ WF_tasks_vars(HandleSignal \/ ForceExit)
    /\ WF_tasks_vars(RunReturns \/ RuntimeDrops \/ Exit)

TasksSpec == TasksInit /\ [][TasksNext]_tasks_vars /\ TasksFairness

(* Properties *)

\* Every variable keeps its type.
TasksTypeOK ==
    /\ run \in [gui: BOOLEAN, stage: {"serving", "closed", "returned", "dropping", "exited"}]
    /\ flags \in [run: BOOLEAN, node: BOOLEAN]
    /\ sig \in {"none", "raised", "handled"}
    /\ sync_task \in {"waiting", "syncing", "late", "stopped", "panicked"}
    /\ server \in {"running", "stopped"}
    /\ desk.pc \in {"drain", "draw", "queue"} /\ desk.status \in {"Idle", "Mining", "Completed", "Failed"}
    /\ desk.rx \in 0 .. desk.sends /\ desk.sends \in 0 .. MaxTransfers
    /\ \A i \in DOMAIN desk.messages : desk.messages[i] \in {"sent", "failed", "error"}
    /\ worker.stage \in {"idle", "apply", "lock", "searching", "searched", "round", "status", "dead", "ended"}
    /\ worker.attempts \in 0 .. MAX_ATTEMPTS
    /\ wallet.nonce \in 0 .. MaxTransfers /\ wallet.pending \subseteq 1 .. MaxTransfers
    /\ disturbances \in 0 .. MaxDisturbances

\* run_async's flag, which stops mining and sync for good, is stored only on a
\* signal, when the window closes, or by the Node of a sync task that panicked;
\* the drop of the Node a mined block syncs with never trips it.  The server's
\* own flag is stored only once run_async is over.
FlagsJustified ==
    /\ flags.run => \/ sig = "handled" \/ sync_task = "panicked"
                    \/ run.gui /\ run.stage # "serving"
    /\ flags.node => run.stage # "serving" /\ run.stage # "closed"

\* The transfers handed to the worker and not settled are in the pool or in the
\* chain, each once: no race of the window, the worker and adopted blocks makes
\* it mine for a transfer the ledger refused, or for one twice.
TransfersQueuedOnce ==
    LET handed == IF InClosure THEN <<worker.task>> \o tasks ELSE tasks
    IN  /\ \A i \in DOMAIN handed :
               handed[i].nonce \in wallet.pending \cup 1 .. wallet.nonce
        /\ \A i, j \in DOMAIN handed : i # j => handed[i].nonce # handed[j].nonce

\* Unless a search goes on for ever, the window's "mining" state ends: with a
\* block, a failure or a reset; the exceptions are a worker that found the
\* status locked MAX_ATTEMPTS times, one that panicked, and the end of the run.
SendAnswered ==
    []<>(worker.stage # "searching") =>
        (desk.status = "Mining" ~> \/ desk.status # "Mining" \/ worker.gave_up
                                   \/ worker.stage = "dead" \/ run.stage # "serving")

\* The process ends after a signal, with or without a window, and once the
\* window is closed, even if the worker is in a search that never finds a hash.
ProcessEnds == (run.stage = "closed" \/ sig = "raised") ~> run.stage = "exited"
==============================================================================
