------------------------------- MODULE EventBus -------------------------------
(***************************************************************************)
(* EventBus (src/events.rs): publishers send to an unbounded crossbeam     *)
(* queue per subscriber; subscribe_async pumps such a queue, on a blocking *)
(* thread, into a bounded tokio channel.  Events are numbered in the order *)
(* they are published.                                                     *)
(***************************************************************************)
EXTENDS Integers, Sequences

CONSTANTS
    Direct,          \* subscribers through subscribe
    Bridged,         \* subscribers through subscribe_async
    Capacity,        \* capacity of the bounded channel
    MaxEvents        \* bound: events published

Subscribers == Direct \cup Bridged

VARIABLES
    bus,         \* the EventBus and its list of senders
    published,   \* number of events published
    queue,       \* per subscriber: its crossbeam queue
    bridge,      \* per bridged subscriber: the pump and the bounded channel
    reader       \* per subscriber: the consumer and what it has received

bus_vars == <<bus, published, queue, bridge, reader>>

BusInit ==
    /\ bus = [open |-> TRUE, senders |-> {}] /\ published = 0
    /\ queue = [s \in Subscribers |-> << >>]
    /\ bridge = [s \in Bridged |-> [state |-> "none", sending |-> << >>, channel |-> << >>]]
    /\ reader = [s \in Subscribers |-> [state |-> "absent", from |-> 0, got |-> << >>]]

\* subscribe, and for a bridged subscriber the blocking task of subscribe_async.
Subscribe(s) ==
    /\ bus.open /\ reader[s].state = "absent"
    /\ bus' = [bus EXCEPT !.senders = @ \cup {s}]
    /\ reader' = [reader EXCEPT ![s] = [state |-> "reading", from |-> published, got |-> << >>]]
    /\ bridge' = IF s \in Bridged THEN [bridge EXCEPT ![s].state = "polling"] ELSE bridge
    /\ UNCHANGED <<published, queue>>

\* The receiving end of the crossbeam queue is gone.
Disconnected(s) == IF s \in Bridged THEN bridge[s].state = "ended" ELSE reader[s].state = "dropped"

\* publish: try_send to each, keeping the senders that are connected.
Publish ==
    /\ bus.open /\ published < MaxEvents
    /\ published' = published + 1
    /\ LET kept == {s \in bus.senders : ~Disconnected(s)}
       IN  /\ bus' = [bus EXCEPT !.senders = kept]
           /\ queue' = [s \in Subscribers |-> IF s \in kept THEN Append(queue[s], published') ELSE queue[s]]
    /\ UNCHANGED <<bridge, reader>>

\* recv_timeout yields an event; with none it polls again.
BridgeTake(s) ==
    /\ bridge[s].state = "polling" /\ queue[s] # << >>
    /\ bridge' = [bridge EXCEPT ![s].state = "sending", ![s].sending = <<Head(queue[s])>>]
    /\ queue' = [queue EXCEPT ![s] = Tail(@)]
    /\ UNCHANGED <<bus, published, reader>>

\* Mutant: an event that finds the channel full is discarded.
BridgeTrySend(s) ==
    /\ bridge[s].state = "sending" /\ reader[s].state = "reading"
    /\ bridge' = [bridge EXCEPT ![s] = [state |-> "polling", sending |-> << >>,
                                        channel |-> IF Len(@.channel) < Capacity
                                                    THEN @.channel \o @.sending ELSE @.channel]]
    /\ UNCHANGED <<bus, published, queue, reader>>

\* blocking_send waits for room.
BridgeSend(s) ==
    /\ bridge[s].state = "sending" /\ reader[s].state = "reading"
    /\ Len(bridge[s].channel) < Capacity
    /\ bridge' = [bridge EXCEPT ![s] = [state |-> "polling", sending |-> << >>,
                                        channel |-> @.channel \o @.sending]]
    /\ UNCHANGED <<bus, published, queue, reader>>

\* The pump ends when its send fails, and when the bus is dropped and the queue
\* drained.
BridgeEnds(s) ==
    /\ \/ bridge[s].state = "sending" /\ reader[s].state = "dropped"
       \/ bridge[s].state = "polling" /\ queue[s] = << >> /\ ~bus.open
    /\ bridge' = [bridge EXCEPT ![s].state = "ended", ![s].sending = << >>]
    /\ UNCHANGED <<bus, published, queue, reader>>

\* The consumer receives the next event.
Consume(s) ==
    /\ reader[s].state = "reading"
    /\ LET source == IF s \in Bridged THEN bridge[s].channel ELSE queue[s]
       IN  /\ source # << >>
           /\ reader' = [reader EXCEPT ![s].got = Append(@, Head(source))]
           /\ IF s \in Bridged
              THEN bridge' = [bridge EXCEPT ![s].channel = Tail(@)] /\ UNCHANGED queue
              ELSE queue' = [queue EXCEPT ![s] = Tail(@)] /\ UNCHANGED bridge
    /\ UNCHANGED <<bus, published>>

\* The consumer's task ends (shutdown) and drops its receiver.
DropReceiver(s) ==
    /\ reader[s].state = "reading"
    /\ reader' = [reader EXCEPT ![s].state = "dropped"]
    /\ UNCHANGED <<bus, published, queue, bridge>>

\* The last Arc of the bus is dropped.
DropBus ==
    /\ bus.open
    /\ bus' = [open |-> FALSE, senders |-> {}]
    /\ UNCHANGED <<published, queue, bridge, reader>>

BusNext ==
    \/ Publish \/ DropBus
    \/ \E s \in Subscribers : Subscribe(s) \/ Consume(s) \/ DropReceiver(s)
    \/ \E s \in Bridged : BridgeTake(s) \/ BridgeSend(s) \/ BridgeEnds(s)

\* The blocking pool runs the pumps; a consumer that is alive keeps receiving.
BusFairness ==
    /\ \A s \in Subscribers : WF_bus_vars(Consume(s))
    /\ \A s \in Bridged : WF_bus_vars(BridgeTake(s) \/ BridgeSend(s) \/ BridgeEnds(s))

BusSpec == BusInit /\ [][BusNext]_bus_vars /\ BusFairness

\* Every variable keeps its type; the channel stays within its capacity.
BusTypeOK ==
    /\ bus.open \in BOOLEAN /\ bus.senders \subseteq Subscribers /\ published \in 0 .. MaxEvents
    /\ \A s \in Subscribers : reader[s].state \in {"absent", "reading", "dropped"}
    /\ \A s \in Bridged :
           /\ bridge[s].state \in {"none", "polling", "sending", "ended"}
           /\ Len(bridge[s].sending) = (IF bridge[s].state = "sending" THEN 1 ELSE 0)
           /\ Len(bridge[s].channel) <= Capacity

\* A subscriber gets the events published since it subscribed, each once and in
\* order, whatever is dropped around it: what it received and what is on its way
\* is all of them, across the queue, the pump and the bounded channel.
EventsInOrder ==
    \A s \in Subscribers : reader[s].state = "reading" =>
        LET piped == IF s \in Bridged THEN bridge[s].channel \o bridge[s].sending ELSE << >>
            all_of == reader[s].got \o piped \o queue[s]
        IN  all_of = [i \in 1 .. published - reader[s].from |-> reader[s].from + i]

\* A pump ends once the bus is dropped, so that the runtime's blocking pool can
\* be joined, even one that waits for room in its channel.
PumpsEnd ==
    \A s \in Bridged : (~bus.open /\ reader[s].state # "absent") ~> bridge[s].state = "ended"
===============================================================================
