------------------------------ MODULE MCProcess ------------------------------
(***************************************************************************)
(* The tasks of a running node, each machine on a small instance: relay    *)
(* between two nodes (every scenario exercises one mechanism with its      *)
(* faults), the tasks of run_async, and the event bus.  They share no      *)
(* state; a behaviour runs the one that `machine` names, the others rest   *)
(* where they have nothing to do.                                          *)
(***************************************************************************)
EXTENDS Relay, NodeTasks, EventBus

CONSTANTS n1, n2, t1, t2, b1, b2

VARIABLE machine

all == <<machine, relay_vars, tasks_vars, bus_vars>>

MCParent == [b \in {b1, b2} |-> IF b = b1 THEN Root ELSE b1]
MCBody == [b \in {b1, b2} |-> IF b = b1 THEN <<t1, t2>> ELSE << >>]
MCShortId == [t \in {t1, t2} |-> 1]      \* the two collide

Quiet == [submit |-> {}, mine |-> {}, replace |-> {}, caps |-> {}, drops |-> FALSE, cuts |-> FALSE]

MCScenarios ==
    { [Quiet EXCEPT !.submit = {<<n1, t1>>, <<n2, t1>>}, !.caps = {"erlay"}, !.cuts = TRUE],
      [Quiet EXCEPT !.submit = {<<n1, t1>>, <<n1, t2>>}, !.caps = {"erlay"}],
      [Quiet EXCEPT !.submit = {<<n1, t1>>, <<n2, t2>>}, !.replace = {<<n1, t1>>}, !.drops = TRUE],
      [Quiet EXCEPT !.submit = {<<n1, t1>>, <<n1, t2>>}, !.mine = {<<n1, b1>>, <<n1, b2>>}],
      [Quiet EXCEPT !.submit = {<<n1, t1>>, <<n1, t2>>}, !.mine = {<<n1, b1>>, <<n1, b2>>},
                    !.replace = {<<n2, t1>>}, !.caps = {"compact"}] }

RelayQuiet ==
    /\ scn = Quiet /\ up = TRUE /\ wire = [n \in Nodes |-> << >>]
    /\ mempool = [n \in Nodes |-> {}] /\ replaced = [n \in Nodes |-> {}]
    /\ chain = [n \in Nodes |-> << >>] /\ known = [n \in Nodes |-> {}]
    /\ recon = [n \in Nodes |-> [known_set |-> {}, new |-> 0, elapsed |-> FALSE,
                                 peer |-> NewPeerRecord]]
    /\ pending_compact = [n \in Nodes |-> {}]
    /\ inbox = [n \in Nodes |-> << >>] /\ seen = [n \in Nodes |-> {}]
    /\ events = [n \in Nodes |-> << >>]
    /\ lost = FALSE /\ cut = FALSE /\ failed = FALSE

ProcessExited ==
    /\ run = [gui |-> FALSE, stage |-> "exited"] /\ flags = [run |-> TRUE, node |-> TRUE]
    /\ sig = "handled" /\ sync_task = "stopped" /\ server = "stopped"
    /\ desk = [pc |-> "drain", status |-> "Idle", rx |-> 0, messages |-> << >>, sends |-> 0, nonce |-> 0]
    /\ tasks = << >> /\ worker = [IdleWorker EXCEPT !.stage = "ended"]
    /\ wallet = [nonce |-> 0, pending |-> {}] /\ disturbances = 0

BusDropped ==
    /\ bus = [open |-> FALSE, senders |-> {}] /\ published = 0
    /\ queue = [s \in Subscribers |-> << >>]
    /\ bridge = [s \in Bridged |-> [state |-> "none", sending |-> << >>, channel |-> << >>]]
    /\ reader = [s \in Subscribers |-> [state |-> "absent", from |-> 0, got |-> << >>]]

ProcessInit ==
    /\ machine \in {"relay", "tasks", "bus"}
    /\ IF machine = "relay" THEN RelayInit ELSE RelayQuiet
    /\ IF machine = "tasks" THEN TasksInit ELSE ProcessExited
    /\ IF machine = "bus" THEN BusInit ELSE BusDropped

ProcessNext ==
    /\ UNCHANGED machine
    /\ \/ machine = "relay" /\ RelayNext /\ UNCHANGED <<tasks_vars, bus_vars>>
       \/ machine = "tasks" /\ TasksNext /\ UNCHANGED <<relay_vars, bus_vars>>
       \/ machine = "bus" /\ BusNext /\ UNCHANGED <<relay_vars, tasks_vars>>

\* The fairness of each machine; one at rest has no fair action to take.
ProcessSpec ==
    ProcessInit /\ [][ProcessNext]_all /\ RelayFairness /\ TasksFairness /\ BusFairness
==============================================================================
