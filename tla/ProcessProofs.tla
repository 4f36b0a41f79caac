---------------------------- MODULE ProcessProofs ----------------------------
(***************************************************************************)
(* Proofs about the node process: the order of events through EventBus, the*)
(* shutdown flags of NodeTasks, and the transfers the wallet queues.       *)
(***************************************************************************)
EXTENDS EventBus, NodeTasks, FiniteSetTheorems, SequenceTheorems, TLAPS

(***************************************************************************)
(* The order of events, for any subscribers, any capacity of the bounded   *)
(* channels and any number of events.                                      *)
(***************************************************************************)
\* What the pump of a subscriber has taken off the queue and not delivered.
Piped(s) == IF s \in Bridged THEN bridge[s].channel \o bridge[s].sending ELSE << >>

\* The events from + 1 .. from + n.
Numbered(from, n) == [i \in 1 .. n |-> from + i]

ReaderType == [state: {"absent", "reading", "dropped"}, from: Nat, got: Seq(Nat)]
BridgeType == [state: {"none", "polling", "sending", "ended"},
               sending: Seq(Nat), channel: Seq(Nat)]

\* Why order is kept: an open bus still holds the sender of a subscriber that
\* reads, whose pump is at work; one that has not subscribed starts empty.
SubscriberInv(s) ==
    /\ reader[s] \in ReaderType /\ queue[s] \in Seq(Nat)
    /\ s \in Bridged => /\ bridge[s] \in BridgeType
                        /\ bridge[s].state # "sending" => bridge[s].sending = << >>
    /\ reader[s].state = "absent" =>
          /\ queue[s] = << >> /\ s \notin bus.senders
          /\ s \in Bridged => bridge[s].state = "none" /\ bridge[s].channel = << >>
    /\ reader[s].state = "reading" =>
          /\ reader[s].from <= published
          /\ reader[s].got \o Piped(s) \o queue[s] = Numbered(reader[s].from, published - reader[s].from)
    /\ reader[s].state = "reading" /\ bus.open =>
          s \in bus.senders /\ (s \in Bridged => bridge[s].state \in {"polling", "sending"})

BusInv ==
    /\ published \in Nat /\ bus \in [open: BOOLEAN, senders: SUBSET Subscribers]
    /\ queue = [s \in Subscribers |-> queue[s]] /\ bridge = [s \in Bridged |-> bridge[s]]
    /\ reader = [s \in Subscribers |-> reader[s]]
    /\ \A s \in Subscribers : SubscriberInv(s)

\* Concatenation of sequences of events is associative.
LEMMA Associative ==
    ASSUME NEW s \in Seq(Nat), NEW t \in Seq(Nat), NEW u \in Seq(Nat)
    PROVE  (s \o t) \o u = s \o (t \o u)
  BY SMTT(30)

\* An event that moves from the front of one sequence to the end of the one before
\* it stays where it was in the whole.
LEMMA Handover ==
    ASSUME NEW s \in Seq(Nat), NEW t \in Seq(Nat), t # << >>
    PROVE  /\ Head(t) \in Nat /\ Tail(t) \in Seq(Nat) /\ <<Head(t)>> \o Tail(t) = t
           /\ Append(s, Head(t)) \o Tail(t) = s \o t
<1>1. /\ Head(t) \in Nat /\ Tail(t) \in Seq(Nat) /\ Len(Tail(t)) = Len(t) - 1 /\ Len(t) \in Nat \ {0}
      /\ \A i \in 1 .. Len(t) - 1 : Tail(t)[i] = t[i + 1] /\ Head(t) = t[1]
  OBVIOUS
<1>2. <<Head(t)>> \in Seq(Nat) /\ Len(<<Head(t)>>) = 1 /\ <<Head(t)>>[1] = Head(t)
  BY <1>1
<1>3. <<Head(t)>> \o Tail(t) = t
  <2>1. /\ <<Head(t)>> \o Tail(t) \in Seq(Nat) /\ Len(<<Head(t)>> \o Tail(t)) = Len(t)
        /\ \A i \in 1 .. Len(t) : (<<Head(t)>> \o Tail(t))[i] =
                                     IF i <= 1 THEN <<Head(t)>>[i] ELSE Tail(t)[i - 1]
    BY <1>1, <1>2, ConcatProperties
  <2>2. \A i \in 1 .. Len(t) : (<<Head(t)>> \o Tail(t))[i] = t[i]
    <3> SUFFICES ASSUME NEW i \in 1 .. Len(t) PROVE (<<Head(t)>> \o Tail(t))[i] = t[i]
      BY Zenon
    <3>1. CASE i = 1
      BY <1>1, <1>2, <2>1, <3>1
    <3>2. CASE i # 1
      <4>1. i - 1 \in 1 .. Len(t) - 1 /\ ~(i <= 1) /\ (i - 1) + 1 = i
        BY <1>1, <3>2
      <4> QED
        BY <1>1, <2>1, <4>1, Zenon
    <3> QED
      BY <3>1, <3>2, Zenon
  <2> QED
    BY <2>1, <2>2, SeqEqual, Zenon
<1>4. Append(s, Head(t)) = s \o <<Head(t)>>
  BY <1>1, AppendIsConcat, Zenon
<1>5. (s \o <<Head(t)>>) \o Tail(t) = s \o (<<Head(t)>> \o Tail(t))
  <2> DEFINE h == <<Head(t)>>
  <2>1. h \in Seq(Nat) /\ Tail(t) \in Seq(Nat)
    BY <1>1, <1>2, Zenon
  <2> HIDE DEF h
  <2>2. (s \o h) \o Tail(t) = s \o (h \o Tail(t))
    BY <2>1, Associative, Zenon
  <2> QED
    BY <2>2, Zenon DEF h
<1> QED
  BY <1>1, <1>3, <1>4, <1>5, Zenon

\* The pump takes an event off the queue.
LEMMA TakenKeepsOrder ==
    ASSUME NEW g \in Seq(Nat), NEW c \in Seq(Nat), NEW q \in Seq(Nat), q # << >>
    PROVE  (g \o (c \o <<Head(q)>>)) \o Tail(q) = (g \o (c \o << >>)) \o q
<1> DEFINE h == <<Head(q)>>
           r == Tail(q)
<1>1. h \in Seq(Nat) /\ r \in Seq(Nat) /\ h \o r = q
  BY Handover
<1> HIDE DEF h, r
<1>2. c \o h \in Seq(Nat) /\ c \o << >> = c
  BY <1>1, ConcatProperties
<1>3. (g \o (c \o h)) \o r = g \o ((c \o h) \o r)
  <2> DEFINE d == c \o h
  <2>1. d \in Seq(Nat) /\ r \in Seq(Nat)
    BY <1>1, <1>2, Zenon
  <2> HIDE DEF d
  <2>2. (g \o d) \o r = g \o (d \o r)
    BY <2>1, Associative, ZenonT(30)
  <2> QED
    BY <2>2, Zenon DEF d
<1>4. (c \o h) \o r = c \o (h \o r)
  BY <1>1, Associative, ZenonT(30)
<1>5. (g \o c) \o q = g \o (c \o q)
  BY Associative, Zenon
<1> QED
  BY <1>1, <1>2, <1>3, <1>4, <1>5, Zenon DEF h, r

\* The pump delivers it to the channel.
LEMMA SentKeepsOrder ==
    ASSUME NEW c \in Seq(Nat), NEW x \in Seq(Nat)
    PROVE  (c \o x) \o << >> = c \o x
<1>1. c \o x \in Seq(Nat)
  BY ConcatProperties, Zenon
<1> DEFINE d == c \o x
<1> HIDE DEF d
<1>2. d \o << >> = d
  BY <1>1 DEF d
<1> QED
  BY <1>2, Zenon DEF d

\* The consumer receives from the channel; and from the queue, with nothing between.
LEMMA ReceivedKeepsOrder ==
    ASSUME NEW g \in Seq(Nat), NEW c \in Seq(Nat), NEW x \in Seq(Nat), c # << >>
    PROVE  /\ Append(g, Head(c)) \o (Tail(c) \o x) = g \o (c \o x)
           /\ (Append(g, Head(c)) \o << >>) \o Tail(c) = (g \o << >>) \o c
<1> DEFINE a == Append(g, Head(c))
           r == Tail(c)
<1>1. a \in Seq(Nat) /\ r \in Seq(Nat) /\ a \o r = g \o c
  <2>1. Head(c) \in Nat /\ r \in Seq(Nat) /\ a \o r = g \o c
    BY Handover, Zenon
  <2> QED
    BY <2>1, AppendProperties, Zenon
<1> HIDE DEF a, r
<1>2. (a \o r) \o x = a \o (r \o x)
  BY <1>1, Associative, ZenonT(30)
<1>3. (g \o c) \o x = g \o (c \o x)
  BY Associative, Zenon
<1>4. a \o << >> = a /\ g \o << >> = g
  BY <1>1
<1> QED
  BY <1>1, <1>2, <1>3, <1>4, Zenon DEF a, r

\* The next event lengthens the numbering by one.
LEMMA NumberedNext ==
    ASSUME NEW from \in Nat, NEW n \in Nat
    PROVE  Append(Numbered(from, n), from + n + 1) = Numbered(from, n + 1)
<1>1. /\ Numbered(from, n) \in Seq(Nat) /\ Len(Numbered(from, n)) = n
      /\ Numbered(from, n + 1) \in Seq(Nat) /\ Len(Numbered(from, n + 1)) = n + 1
  BY DEF Numbered
<1>2. Append(Numbered(from, n), from + n + 1) \in Seq(Nat)
      /\ Len(Append(Numbered(from, n), from + n + 1)) = n + 1
      /\ \A i \in 1 .. n : Append(Numbered(from, n), from + n + 1)[i] = Numbered(from, n)[i]
      /\ Append(Numbered(from, n), from + n + 1)[n + 1] = from + n + 1
  BY <1>1, AppendProperties
<1>3. \A i \in 1 .. n + 1 : Append(Numbered(from, n), from + n + 1)[i] = Numbered(from, n + 1)[i]
  <2> SUFFICES ASSUME NEW i \in 1 .. n + 1
               PROVE  Append(Numbered(from, n), from + n + 1)[i] = from + i
    BY Zenon DEF Numbered
  <2>1. CASE i = n + 1
    BY <1>2, <2>1
  <2>2. CASE i # n + 1
    <3>1. i \in 1 .. n
      BY <2>2
    <3> QED
      BY <1>2, <3>1, Zenon DEF Numbered
  <2> QED
    BY <2>1, <2>2, Zenon
<1> QED
  BY <1>1, <1>2, <1>3, SeqEqual, Zenon

\* A subscriber a step does not touch keeps its invariant, also when the bus goes.
LEMMA OthersKeep ==
    ASSUME NEW s \in Subscribers, SubscriberInv(s), published' = published,
           reader'[s] = reader[s], queue'[s] = queue[s], s \in Bridged => bridge'[s] = bridge[s],
           s \in bus'.senders => s \in bus.senders,
           bus'.open => bus.open /\ (s \in bus.senders => s \in bus'.senders)
    PROVE  SubscriberInv(s)'
<1>1. Piped(s)' = Piped(s)
  BY Zenon DEF Piped
<1> QED
  BY <1>1, Zenon DEF SubscriberInv

\* BusInit has no subscriber yet.
LEMMA InitBusInv == BusInit => BusInv
<1> SUFFICES ASSUME BusInit PROVE BusInv
  BY Zenon
<1>1. ASSUME NEW s \in Subscribers PROVE SubscriberInv(s)
  BY <1>1 DEF BusInit, SubscriberInv, ReaderType, BridgeType
<1> QED
  BY <1>1, Zenon DEF BusInit, BusInv

\* A subscriber starts after the events published so far.
LEMMA SubscribeKeeps ==
    ASSUME BusInv, NEW s \in Subscribers, Subscribe(s)
    PROVE  BusInv'
<1>1. /\ bus' = [open |-> TRUE, senders |-> bus.senders \cup {s}]
      /\ published' = published /\ published \in Nat /\ queue' = queue
      /\ bus.open /\ reader[s].state = "absent" /\ SubscriberInv(s)
  BY Zenon DEF BusInv, Subscribe
<1>2. /\ reader' = [t \in Subscribers |-> reader'[t]]
      /\ reader'[s] = [state |-> "reading", from |-> published, got |-> << >>]
      /\ \A t \in Subscribers : t # s => reader'[t] = reader[t]
  BY Zenon DEF BusInv, Subscribe
<1>3. /\ bridge' = [t \in Bridged |-> bridge'[t]]
      /\ \A t \in Bridged : t # s => bridge'[t] = bridge[t]
      /\ s \in Bridged => bridge'[s] = [bridge[s] EXCEPT !.state = "polling"]
  BY Zenon DEF BusInv, Subscribe
<1>4. SubscriberInv(s)'
  <2>1. reader'[s] \in ReaderType /\ queue'[s] = << >> /\ reader'[s].from = published
        /\ reader'[s].got = << >> /\ reader'[s].state = "reading"
    BY <1>1, <1>2 DEF SubscriberInv, ReaderType
  <2>2. s \in Bridged => /\ bridge'[s] \in BridgeType /\ bridge'[s].state = "polling"
                         /\ bridge'[s].sending = << >> /\ bridge'[s].channel = << >>
    BY <1>1, <1>3, ZenonT(30) DEF SubscriberInv, BridgeType
  <2>3. Piped(s)' = << >>
    BY <2>2 DEF Piped
  <2>4. reader'[s].got \o Piped(s)' \o queue'[s] = << >>
    BY <2>1, <2>3
  <2>5. Numbered(published, published - published) = << >>
    BY <1>1 DEF Numbered
  <2> QED
    BY <1>1, <2>1, <2>2, <2>4, <2>5, SMTT(30) DEF SubscriberInv
<1>5. ASSUME NEW t \in Subscribers, t # s PROVE SubscriberInv(t)'
  BY <1>1, <1>2, <1>3, <1>5, OthersKeep, Zenon DEF BusInv
<1> QED
  BY <1>1, <1>2, <1>3, <1>4, <1>5, Zenon DEF BusInv

\* An open bus reaches every subscriber that reads.
LEMMA PublishKeeps ==
    ASSUME BusInv, Publish
    PROVE  BusInv'
<1> DEFINE kept == {s \in bus.senders : ~Disconnected(s)}
<1>1. /\ bus' = [open |-> TRUE, senders |-> kept] /\ bus.open /\ kept \subseteq bus.senders
      /\ published' = published + 1 /\ published \in Nat
      /\ bus.senders \subseteq Subscribers /\ UNCHANGED <<bridge, reader>>
      /\ queue' = [s \in Subscribers |-> IF s \in kept THEN Append(queue[s], published + 1) ELSE queue[s]]
  BY Zenon DEF BusInv, Publish
<1>2. ASSUME NEW s \in Subscribers PROVE SubscriberInv(s)'
  <2>0. SubscriberInv(s)
    BY ZenonT(30) DEF BusInv
  <2>1. Piped(s)' = Piped(s) /\ Piped(s) \in Seq(Nat)
    BY <1>1, <2>0, SMTT(30) DEF Piped, SubscriberInv, BridgeType
  <2>2. queue'[s] \in Seq(Nat)
    BY <1>1, <2>0 DEF SubscriberInv
  <2>3. CASE reader[s].state # "reading"
    BY <1>1, <2>0, <2>2, <2>3, Zenon DEF SubscriberInv
  <2>4. CASE reader[s].state = "reading"
    <3> DEFINE before == reader[s].got \o Piped(s)
               from == reader[s].from
    <3>1. s \in kept
      BY <1>1, <2>0, <2>4, Zenon DEF SubscriberInv, Disconnected
    <3>2. queue'[s] = Append(queue[s], published + 1)
      BY <1>1, <3>1, Zenon
    <3>3. reader[s].got \in Seq(Nat) /\ from \in Nat /\ queue[s] \in Seq(Nat) /\ from <= published
      BY <2>0, <2>4, Zenon DEF SubscriberInv, ReaderType
    <3>4. before \in Seq(Nat) /\ before \o queue[s] = Numbered(from, published - from)
      <4>1. before \in Seq(Nat)
        BY <2>1, <3>3, ConcatProperties, Zenon
      <4> QED
        BY <2>0, <2>4, <4>1, Zenon DEF SubscriberInv
    <3> HIDE DEF before, from
    <3>5. published - from \in Nat /\ from + (published - from) + 1 = published + 1
          /\ (published - from) + 1 = published + 1 - from
      BY <1>1, <3>3
    <3>6. before \o Append(queue[s], published + 1) = Append(before \o queue[s], published + 1)
      <4>1. published + 1 \in Nat /\ <<published + 1>> \in Seq(Nat)
        BY <1>1
      <4>2. /\ Append(queue[s], published + 1) = queue[s] \o <<published + 1>>
            /\ Append(before \o queue[s], published + 1) = (before \o queue[s]) \o <<published + 1>>
        BY <3>3, <3>4, <4>1, AppendIsConcat, ConcatProperties, ZenonT(30)
      <4> DEFINE e == <<published + 1>>
      <4> HIDE DEF e
      <4>3. (before \o queue[s]) \o e = before \o (queue[s] \o e)
        <5>1. e \in Seq(Nat)
          BY <4>1, Zenon DEF e
        <5> QED
          BY <3>3, <3>4, <5>1, Associative, Zenon
      <4> QED
        BY <4>2, <4>3, Zenon DEF e
    <3>7. before \o queue'[s] = Numbered(from, published + 1 - from)
      BY <3>2, <3>3, <3>4, <3>5, <3>6, NumberedNext, Zenon
    <3>8. (reader[s].got \o Piped(s) \o queue[s])' = Numbered(reader'[s].from, published' - reader'[s].from)
      <4>1. (reader[s].got)' = reader[s].got /\ reader'[s].from = from
            /\ (reader[s].got \o Piped(s) \o queue[s])' = before \o queue'[s]
        BY <1>1, <2>1, ZenonT(30) DEF before, from
      <4>2. published' - reader'[s].from = published + 1 - from
        <5>1. published' = published + 1
          BY <1>1, Zenon
        <5>2. reader'[s].from = from
          BY <4>1, Zenon
        <5>3. published \in Nat /\ from \in Nat
          BY <1>1, <3>3, Zenon
        <5> QED
          BY <5>1, <5>2, <5>3
      <4> QED
        BY <3>7, <4>1, <4>2, Zenon
    <3>9. reader'[s].from <= published'
      BY <1>1, <3>3 DEF from
    <3> QED
      BY <1>1, <2>0, <2>2, <2>4, <3>1, <3>8, <3>9, Zenon DEF SubscriberInv
  <2> QED
    BY <2>3, <2>4, Zenon
<1> QED
  BY <1>1, <1>2 DEF BusInv

\* A step of one pump or consumer: it keeps the whole of what its subscriber received
\* and has on its way, unless the subscriber no longer reads.
LEMMA OneMoves ==
    ASSUME BusInv, NEW s \in Subscribers, UNCHANGED <<bus, published>>,
           queue' = [t \in Subscribers |-> queue'[t]], bridge' = [t \in Bridged |-> bridge'[t]],
           reader' = [t \in Subscribers |-> reader'[t]],
           \A t \in Subscribers : t # s => reader'[t] = reader[t] /\ queue'[t] = queue[t],
           \A t \in Bridged : t # s => bridge'[t] = bridge[t],
           SubscriberInv(s)'
    PROVE  BusInv'
<1>1. ASSUME NEW t \in Subscribers, t # s PROVE SubscriberInv(t)'
  BY <1>1, OthersKeep, Zenon DEF BusInv
<1> QED
  BY <1>1, Zenon DEF BusInv

\* All a subscriber received and has on its way.
Whole(s) == reader[s].got \o Piped(s) \o queue[s]

\* A subscriber of whom no event is lost, doubled or overtaken keeps its invariant.
LEMMA WholeKept ==
    ASSUME NEW s \in Subscribers, SubscriberInv(s), UNCHANGED <<bus, published>>,
           reader'[s] \in ReaderType, reader[s].state # "absent", queue'[s] \in Seq(Nat),
           reader'[s].state = reader[s].state, reader'[s].from = reader[s].from,
           s \in Bridged => /\ bridge'[s] \in BridgeType
                            /\ bridge'[s].state # "sending" => bridge'[s].sending = << >>
                            /\ \/ bridge'[s].state \in {"polling", "sending"} \/ ~bus.open
                               \/ reader[s].state # "reading",
           reader[s].state = "reading" => Whole(s)' = Whole(s)
    PROVE  SubscriberInv(s)'
<1>1. reader[s].state = "reading" => Whole(s) = Numbered(reader[s].from, published - reader[s].from)
  BY Zenon DEF SubscriberInv, Whole
<1>2. reader'[s].state = "reading" => Whole(s)' = Numbered(reader'[s].from, published' - reader'[s].from)
  BY <1>1, Zenon
<1>3. reader'[s].state = "reading" => reader'[s].from <= published'
  BY Zenon DEF SubscriberInv
<1>4. reader'[s].state = "reading" /\ bus'.open =>
         s \in bus'.senders /\ (s \in Bridged => bridge'[s].state \in {"polling", "sending"})
  BY Zenon DEF SubscriberInv
<1>5. reader'[s].state # "absent"
  BY Zenon
<1> QED
  BY <1>2, <1>3, <1>4, <1>5, Zenon DEF SubscriberInv, Whole

\* recv_timeout moves an event from the queue to the pump.
LEMMA BridgeTakeKeeps ==
    ASSUME BusInv, NEW s \in Bridged, BridgeTake(s)
    PROVE  BusInv'
<1>0. s \in Subscribers /\ SubscriberInv(s)
  BY Zenon DEF BusInv, Subscribers
<1>1. /\ UNCHANGED <<bus, published, reader>> /\ bridge[s].state = "polling" /\ queue[s] # << >>
      /\ queue' = [t \in Subscribers |-> queue'[t]] /\ bridge' = [t \in Bridged |-> bridge'[t]]
      /\ \A t \in Subscribers : t # s => queue'[t] = queue[t]
      /\ \A t \in Bridged : t # s => bridge'[t] = bridge[t]
      /\ queue'[s] = Tail(queue[s])
  BY <1>0, Zenon DEF BridgeTake, BusInv
<1>2. /\ bridge'[s] = [state |-> "sending", sending |-> <<Head(queue[s])>>, channel |-> bridge[s].channel]
      /\ bridge[s].sending = << >> /\ bridge[s].channel \in Seq(Nat) /\ queue[s] \in Seq(Nat)
  BY <1>0, <1>1, Zenon DEF BridgeTake, BusInv, SubscriberInv, BridgeType
<1>3. <<Head(queue[s])>> \in Seq(Nat) /\ Tail(queue[s]) \in Seq(Nat)
  BY <1>1, <1>2, Handover
<1>4. /\ bridge'[s].channel = bridge[s].channel /\ bridge'[s].sending = <<Head(queue[s])>>
      /\ bridge'[s].state = "sending" /\ bridge'[s] \in BridgeType
  BY <1>2, <1>3 DEF BridgeType
<1>5. Piped(s) = bridge[s].channel \o << >> /\ Piped(s)' = bridge[s].channel \o <<Head(queue[s])>>
  BY <1>2, <1>4, Zenon DEF Piped
<1>6. reader[s].got \in Seq(Nat)
  BY <1>0, Zenon DEF SubscriberInv, ReaderType
<1>7. reader[s].got \o Piped(s)' \o queue'[s] = reader[s].got \o Piped(s) \o queue[s]
  <2>1. (reader[s].got \o (bridge[s].channel \o <<Head(queue[s])>>)) \o Tail(queue[s])
        = (reader[s].got \o (bridge[s].channel \o << >>)) \o queue[s]
    BY <1>1, <1>2, <1>6, TakenKeepsOrder, Zenon
  <2> QED
    BY <1>1, <1>5, <2>1, Zenon
<1>8. SubscriberInv(s)'
  <2>1. queue'[s] \in Seq(Nat) /\ reader'[s] = reader[s] /\ reader[s] \in ReaderType
    BY <1>0, <1>1, <1>3, Zenon DEF SubscriberInv
  <2>2. reader[s].state # "absent"
    BY <1>0, <1>1, Zenon DEF SubscriberInv
  <2>3. Whole(s)' = Whole(s)
    BY <1>7, <2>1, Zenon DEF Whole
  <2> QED
    BY <1>0, <1>1, <1>4, <2>1, <2>2, <2>3, WholeKept, Zenon
<1> QED
  BY <1>0, <1>1, <1>8, OneMoves, Zenon DEF BusInv

\* blocking_send moves it on to the channel.
LEMMA BridgeSendKeeps ==
    ASSUME BusInv, NEW s \in Bridged, BridgeSend(s)
    PROVE  BusInv'
<1>0. s \in Subscribers /\ SubscriberInv(s)
  BY Zenon DEF BusInv, Subscribers
<1>1. /\ UNCHANGED <<bus, published, reader, queue>> /\ reader[s].state = "reading"
      /\ bridge' = [t \in Bridged |-> bridge'[t]]
      /\ \A t \in Bridged : t # s => bridge'[t] = bridge[t]
      /\ bridge'[s] = [state |-> "polling", sending |-> << >>,
                       channel |-> bridge[s].channel \o bridge[s].sending]
  BY <1>0, Zenon DEF BridgeSend, BusInv
<1>2. bridge[s].channel \in Seq(Nat) /\ bridge[s].sending \in Seq(Nat) /\ reader[s] \in ReaderType
      /\ queue[s] \in Seq(Nat)
  BY <1>0, Zenon DEF SubscriberInv, BridgeType
<1>3. /\ bridge'[s].channel = bridge[s].channel \o bridge[s].sending /\ bridge'[s].sending = << >>
      /\ bridge'[s].state = "polling"
  <2> DEFINE d == bridge[s].channel \o bridge[s].sending
  <2>1. bridge'[s] = [state |-> "polling", sending |-> << >>, channel |-> d]
    BY <1>1, Zenon
  <2> HIDE DEF d
  <2>2. bridge'[s].channel = d /\ bridge'[s].sending = << >> /\ bridge'[s].state = "polling"
    BY <2>1
  <2> QED
    BY <2>2, Zenon DEF d
<1>4. bridge'[s] \in BridgeType
  <2>1. bridge[s].channel \o bridge[s].sending \in Seq(Nat) /\ << >> \in Seq(Nat)
    BY <1>2, ConcatProperties
  <2> QED
    BY <1>1, <2>1 DEF BridgeType
<1>5. Piped(s)' = Piped(s)
  <2>1. (bridge[s].channel \o bridge[s].sending) \o << >> = bridge[s].channel \o bridge[s].sending
    BY <1>2, SentKeepsOrder, Zenon
  <2> QED
    BY <1>3, <2>1, Zenon DEF Piped
<1>6. Whole(s)' = Whole(s)
  BY <1>1, <1>5, Zenon DEF Whole
<1>7. SubscriberInv(s)'
  BY <1>0, <1>1, <1>2, <1>3, <1>4, <1>6, WholeKept, Zenon
<1> QED
  BY <1>0, <1>1, <1>7, OneMoves, Zenon DEF BusInv

\* A pump that ends leaves nothing of a subscriber that reads.
LEMMA BridgeEndsKeeps ==
    ASSUME BusInv, NEW s \in Bridged, BridgeEnds(s)
    PROVE  BusInv'
<1>0. s \in Subscribers /\ SubscriberInv(s)
  BY Zenon DEF BusInv, Subscribers
<1>1. /\ UNCHANGED <<bus, published, reader, queue>> /\ bridge[s] \in BridgeType
      /\ bridge' = [t \in Bridged |-> bridge'[t]]
      /\ \A t \in Bridged : t # s => bridge'[t] = bridge[t]
      /\ reader[s] \in ReaderType /\ queue[s] \in Seq(Nat)
  BY <1>0, Zenon DEF BridgeEnds, BusInv, SubscriberInv
<1>2. bridge'[s] = [state |-> "ended", sending |-> << >>, channel |-> bridge[s].channel]
  BY <1>0, <1>1, Zenon DEF BridgeEnds, BusInv, BridgeType
<1>3. /\ bridge'[s].channel = bridge[s].channel /\ bridge'[s].sending = << >>
      /\ bridge'[s].state = "ended" /\ bridge'[s] \in BridgeType
  BY <1>1, <1>2 DEF BridgeType
<1>4. reader[s].state # "absent"
  BY <1>0, Zenon DEF BridgeEnds, SubscriberInv
<1>5. reader[s].state = "reading" => bridge[s].sending = << >> /\ ~bus.open
  BY <1>0, Zenon DEF BridgeEnds, SubscriberInv
<1>6. reader[s].state = "reading" => Whole(s)' = Whole(s)
  <2>1. reader[s].state = "reading" => Piped(s)' = Piped(s)
    BY <1>3, <1>5, Zenon DEF Piped
  <2> QED
    BY <1>1, <2>1, Zenon DEF Whole
<1>7. SubscriberInv(s)'
  BY <1>0, <1>1, <1>3, <1>4, <1>5, <1>6, WholeKept, Zenon
<1> QED
  BY <1>0, <1>1, <1>7, OneMoves, Zenon DEF BusInv

\* The consumer receives what is first in its channel, or in its queue.
LEMMA ConsumeKeeps ==
    ASSUME BusInv, NEW s \in Subscribers, Consume(s)
    PROVE  BusInv'
<1>0. SubscriberInv(s) /\ reader[s].state = "reading" /\ UNCHANGED <<bus, published>>
  BY Zenon DEF BusInv, Consume
<1>1. /\ reader[s] \in ReaderType /\ reader[s].got \in Seq(Nat) /\ queue[s] \in Seq(Nat)
      /\ \A t \in Subscribers : t # s => reader'[t] = reader[t]
      /\ reader' = [t \in Subscribers |-> reader'[t]]
  BY <1>0, Zenon DEF BusInv, SubscriberInv, ReaderType, Consume
<1>2. CASE s \in Bridged
  <2>1. /\ queue' = queue /\ bridge[s].channel # << >> /\ bridge[s] \in BridgeType
        /\ bridge' = [bridge EXCEPT ![s].channel = Tail(@)]
        /\ reader' = [reader EXCEPT ![s].got = Append(@, Head(bridge[s].channel))]
    BY <1>0, <1>2, Zenon DEF Consume, SubscriberInv
  <2>2. /\ bridge[s].channel \in Seq(Nat) /\ bridge[s].sending \in Seq(Nat)
        /\ Head(bridge[s].channel) \in Nat /\ Tail(bridge[s].channel) \in Seq(Nat)
    BY <2>1, HeadTailProperties, Zenon DEF BridgeType
  <2>3. /\ reader'[s] = [state |-> "reading", from |-> reader[s].from,
                         got |-> Append(reader[s].got, Head(bridge[s].channel))]
        /\ bridge'[s] = [state |-> bridge[s].state, sending |-> bridge[s].sending,
                         channel |-> Tail(bridge[s].channel)]
        /\ bridge' = [t \in Bridged |-> bridge'[t]]
        /\ \A t \in Bridged : t # s => bridge'[t] = bridge[t]
    BY <1>0, <1>1, <1>2, <2>1, Zenon DEF BusInv, ReaderType, BridgeType
  <2>4. Append(reader[s].got, Head(bridge[s].channel)) \in Seq(Nat)
    BY <1>1, <2>2, AppendProperties, Zenon
  <2>5. /\ reader'[s] \in ReaderType /\ reader'[s].state = "reading"
        /\ reader'[s].from = reader[s].from
        /\ reader'[s].got = Append(reader[s].got, Head(bridge[s].channel))
    BY <1>1, <2>3, <2>4 DEF ReaderType
  <2>6. /\ bridge'[s] \in BridgeType /\ bridge'[s].state = bridge[s].state
        /\ bridge'[s].sending = bridge[s].sending /\ bridge'[s].channel = Tail(bridge[s].channel)
    <3> DEFINE r == Tail(bridge[s].channel)
               x == bridge[s].sending
               st == bridge[s].state
    <3>1. r \in Seq(Nat) /\ x \in Seq(Nat) /\ st \in {"none", "polling", "sending", "ended"}
          /\ bridge'[s] = [state |-> st, sending |-> x, channel |-> r]
      BY <2>1, <2>2, <2>3, Zenon DEF BridgeType
    <3> HIDE DEF r, x, st
    <3>2. bridge'[s] \in BridgeType /\ bridge'[s].state = st /\ bridge'[s].sending = x /\ bridge'[s].channel = r
      BY <3>1 DEF BridgeType
    <3> QED
      BY <3>2, Zenon DEF r, x, st
  <2>7. Whole(s)' = Whole(s)
    <3>1. Append(reader[s].got, Head(bridge[s].channel)) \o (Tail(bridge[s].channel) \o bridge[s].sending)
          = reader[s].got \o (bridge[s].channel \o bridge[s].sending)
      <4> DEFINE g == reader[s].got
                 c == bridge[s].channel
                 x == bridge[s].sending
      <4>1. g \in Seq(Nat) /\ c \in Seq(Nat) /\ x \in Seq(Nat) /\ c # << >>
        BY <1>1, <2>1, <2>2, Zenon
      <4> HIDE DEF g, c, x
      <4>2. Append(g, Head(c)) \o (Tail(c) \o x) = g \o (c \o x)
        BY <4>1, ReceivedKeepsOrder, ZenonT(30)
      <4> QED
        BY <4>2, Zenon DEF g, c, x
    <3>2. reader'[s].got \o Piped(s)' = reader[s].got \o Piped(s)
      BY <1>2, <2>5, <2>6, <3>1, Zenon DEF Piped
    <3> QED
      BY <2>1, <3>2, Zenon DEF Whole
  <2>8. SubscriberInv(s)'
    <3>1. /\ bridge'[s].state # "sending" => bridge'[s].sending = << >>
          /\ bridge'[s].state \in {"polling", "sending"} \/ ~bus.open
      BY <1>0, <1>2, <2>6, Zenon DEF SubscriberInv
    <3> QED
      BY <1>0, <1>1, <2>1, <2>5, <2>6, <2>7, <3>1, WholeKept, Zenon
  <2> QED
    BY <1>0, <1>1, <2>1, <2>3, <2>8, OneMoves, ZenonT(30) DEF BusInv
<1>3. CASE s \notin Bridged
  <2>1. /\ bridge' = bridge /\ queue[s] # << >> /\ queue' = [queue EXCEPT ![s] = Tail(@)]
        /\ reader' = [reader EXCEPT ![s].got = Append(@, Head(queue[s]))]
    BY <1>3, Zenon DEF Consume
  <2>2. Head(queue[s]) \in Nat /\ Tail(queue[s]) \in Seq(Nat)
    BY <1>1, <2>1, HeadTailProperties, Zenon
  <2>3. /\ reader'[s] = [state |-> "reading", from |-> reader[s].from,
                         got |-> Append(reader[s].got, Head(queue[s]))]
        /\ queue'[s] = Tail(queue[s]) /\ queue' = [t \in Subscribers |-> queue'[t]]
        /\ \A t \in Subscribers : t # s => queue'[t] = queue[t]
    BY <1>0, <1>1, <2>1, Zenon DEF BusInv, ReaderType
  <2>4. Append(reader[s].got, Head(queue[s])) \in Seq(Nat)
    BY <1>1, <2>2, AppendProperties, Zenon
  <2>5. /\ reader'[s] \in ReaderType /\ reader'[s].state = "reading"
        /\ reader'[s].from = reader[s].from
        /\ reader'[s].got = Append(reader[s].got, Head(queue[s]))
    BY <1>1, <2>3, <2>4 DEF ReaderType
  <2>6. Whole(s)' = Whole(s)
    <3>1. (Append(reader[s].got, Head(queue[s])) \o << >>) \o Tail(queue[s])
          = (reader[s].got \o << >>) \o queue[s]
      BY <1>1, <2>1, ReceivedKeepsOrder, Zenon
    <3>2. Piped(s) = << >> /\ Piped(s)' = << >>
      BY <1>3, Zenon DEF Piped
    <3> QED
      BY <2>3, <2>5, <3>1, <3>2, Zenon DEF Whole
  <2>7. SubscriberInv(s)'
    BY <1>0, <1>1, <1>3, <2>2, <2>3, <2>5, <2>6, WholeKept, Zenon
  <2> QED
    BY <1>0, <1>1, <2>1, <2>3, <2>7, OneMoves, Zenon DEF BusInv
<1> QED
  BY <1>2, <1>3, Zenon

\* A receiver that is dropped no longer reads.
LEMMA DropReceiverKeeps ==
    ASSUME BusInv, NEW s \in Subscribers, DropReceiver(s)
    PROVE  BusInv'
<1>0. SubscriberInv(s) /\ UNCHANGED <<bus, published, queue, bridge>>
  BY Zenon DEF BusInv, DropReceiver
<1>1. /\ reader[s] \in ReaderType /\ reader' = [t \in Subscribers |-> reader'[t]]
      /\ reader'[s] = [reader[s] EXCEPT !.state = "dropped"]
      /\ \A t \in Subscribers : t # s => reader'[t] = reader[t]
  BY <1>0, Zenon DEF BusInv, SubscriberInv, DropReceiver
<1>2. reader'[s] \in ReaderType /\ reader'[s].state = "dropped"
  BY <1>1, Zenon DEF ReaderType
<1>3. SubscriberInv(s)'
  BY <1>0, <1>2, Zenon DEF SubscriberInv
<1> QED
  BY <1>0, <1>1, <1>3, OneMoves, Zenon DEF BusInv

\* Every step of the bus, its pumps and its consumers keeps the invariant.
LEMMA NextBusInv == BusInv /\ [BusNext]_bus_vars => BusInv'
<1> SUFFICES ASSUME BusInv, [BusNext]_bus_vars PROVE BusInv'
  BY Zenon
<1>1. CASE DropBus
  <2>1. /\ bus' = [open |-> FALSE, senders |-> {}] /\ UNCHANGED <<published, queue, bridge, reader>>
    BY <1>1, Zenon DEF DropBus
  <2>2. ASSUME NEW s \in Subscribers PROVE SubscriberInv(s)'
    BY <2>1, <2>2, OthersKeep, Zenon DEF BusInv
  <2> QED
    BY <2>1, <2>2, Zenon DEF BusInv
<1>2. CASE UNCHANGED bus_vars
  <2>1. ASSUME NEW s \in Subscribers PROVE SubscriberInv(s)'
    BY <1>2, <2>1, OthersKeep, Zenon DEF BusInv, bus_vars
  <2> QED
    BY <1>2, <2>1, Zenon DEF BusInv, bus_vars
<1> QED
  BY <1>1, <1>2, PublishKeeps, SubscribeKeeps, ConsumeKeeps, DropReceiverKeeps,
     BridgeTakeKeeps, BridgeSendKeeps, BridgeEndsKeeps, Zenon DEF BusNext

\* Whoever subscribes to the bus, directly or through a pump with a channel of any
\* capacity, has received or will receive every event published since, once and in
\* order, whatever consumers, pumps and the bus itself are dropped meanwhile.
THEOREM EventsKeepOrder == BusSpec => []EventsInOrder
<1>1. BusInv => EventsInOrder
  <2> SUFFICES ASSUME BusInv, NEW s \in Subscribers, reader[s].state = "reading"
               PROVE  reader[s].got \o Piped(s) \o queue[s]
                      = Numbered(reader[s].from, published - reader[s].from)
    BY Zenon DEF EventsInOrder, Piped, Numbered
  <2> QED
    BY Zenon DEF BusInv, SubscriberInv
<1> QED
  BY <1>1, InitBusInv, NextBusInv, PTL DEF BusSpec

Stages == {"serving", "closed", "returned", "dropping", "exited"}

(***************************************************************************)
(* The shutdown flags, for any number of transfers, attempts and           *)
(* disturbances.                                                           *)
(***************************************************************************)

FlagsInv ==
    /\ run \in [gui: BOOLEAN, stage: Stages]
    /\ flags \in [run: BOOLEAN, node: BOOLEAN]
    /\ FlagsJustified

\* Nothing is flagged when run_async starts.
LEMMA InitFlags == TasksInit => FlagsInv
  BY DEF TasksInit, FlagsInv, FlagsJustified, Stages

\* A step that leaves run_async and the flags alone, and neither undoes a handled
\* signal nor revives a panicked sync task.
LEMMA FlagsStay ==
    ASSUME FlagsInv, UNCHANGED <<run, flags>>,
           sig = "handled" => sig' = "handled", sync_task = "panicked" => sync_task' = "panicked"
    PROVE  FlagsInv'
  BY Zenon DEF FlagsInv, FlagsJustified

\* Every step of the process stores the flags for a reason and keeps the reason.
LEMMA NextFlags == FlagsInv /\ [TasksNext]_tasks_vars => FlagsInv'
<1> SUFFICES ASSUME FlagsInv, [TasksNext]_tasks_vars PROVE FlagsInv'
  BY Zenon
<1>0. /\ run \in [gui: BOOLEAN, stage: Stages] /\ flags \in [run: BOOLEAN, node: BOOLEAN]
      /\ flags.run => \/ sig = "handled" \/ sync_task = "panicked"
                      \/ run.gui /\ run.stage # "serving"
      /\ flags.node => run.stage # "serving" /\ run.stage # "closed"
  BY Zenon DEF FlagsInv, FlagsJustified
<1>1. CASE FrameDrain \/ FrameDraw \/ ClickSend \/ QueueTask
  BY <1>1, FlagsStay, Zenon DEF FrameDrain, FrameDraw, ClickSend, QueueTask
<1>2. CASE TakeTask \/ WorkerApplies \/ StartSearch \/ SearchFinds \/ SearchStops
  BY <1>2, FlagsStay, Zenon DEF TakeTask, WorkerApplies, StartSearch, SearchFinds, SearchStops
<1>3. CASE WorkerPanics \/ Mined \/ PostMineRound \/ WriteStatus \/ StatusBusy
  BY <1>3, FlagsStay, Zenon DEF WorkerPanics, Mined, PostMineRound, WriteStatus, StatusBusy
<1>4. CASE SyncTick \/ ServerPolls \/ PeerBlock \/ Interrupt \/ ClockSetBack
  BY <1>4, FlagsStay, Zenon DEF SyncTick, ServerPolls, PeerBlock, Interrupt, ClockSetBack
<1>5. CASE CloseWindow
  <2>1. run' = [gui |-> TRUE, stage |-> "closed"] /\ flags' = [run |-> TRUE, node |-> FALSE]
    BY <1>0, <1>5, Zenon DEF CloseWindow
  <2> QED
    BY <2>1, Zenon DEF FlagsInv, FlagsJustified, Stages
<1>6. CASE SyncRound
  <2>1. /\ run' = run /\ sig' = sig /\ flags'.node = flags.node /\ flags' \in [run: BOOLEAN, node: BOOLEAN]
        /\ flags'.run => (flags.run \/ sync_task' = "panicked")
        /\ sync_task # "panicked"
    BY <1>0, <1>6, Zenon DEF SyncRound
  <2> QED
    BY <1>0, <2>1, Zenon DEF FlagsInv, FlagsJustified
<1>7. CASE HandleSignal
  <2>1. run' = run /\ sig' = "handled" /\ flags' = [run |-> TRUE, node |-> flags.node]
    BY <1>0, <1>7, Zenon DEF HandleSignal
  <2> QED
    BY <1>0, <2>1, Zenon DEF FlagsInv, FlagsJustified
<1>8. CASE ForceExit \/ RuntimeDrops \/ Exit
  <2>1. /\ flags' = flags /\ sig' = sig /\ sync_task' = sync_task
        /\ run' \in [gui: BOOLEAN, stage: Stages]
        /\ run'.gui = run.gui /\ run'.stage \in {"dropping", "exited"}
    BY <1>0, <1>8, Zenon DEF ForceExit, RuntimeDrops, Exit, Stages
  <2> QED
    BY <1>0, <2>1, Zenon DEF FlagsInv, FlagsJustified
<1>9. CASE RunReturns
  <2>1. /\ flags' = [run |-> TRUE, node |-> TRUE] /\ sig' = sig
        /\ run' = [gui |-> run.gui, stage |-> "returned"]
        /\ run.gui \/ (flags.run /\ run.stage = "serving")
        /\ sync_task = "panicked" => sync_task' = "panicked"
    BY <1>0, <1>9, Zenon DEF RunReturns
  <2> QED
    BY <1>0, <2>1, Zenon DEF FlagsInv, FlagsJustified, Stages
<1>10. CASE UNCHANGED tasks_vars
  BY <1>10, FlagsStay, Zenon DEF tasks_vars
<1> QED
  BY <1>1, <1>2, <1>3, <1>4, <1>5, <1>6, <1>7, <1>8, <1>9, <1>10, ZenonT(30) DEF TasksNext

\* run_async's flag is stored only on a signal, when the window is closed or by the Node
\* of a sync task that panicked, and Node::new's only once run_async is over, in every
\* interleaving of window, worker, sync task, signal handlers and main.
THEOREM FlagsHaveReasons == TasksSpec => []FlagsJustified
<1>1. FlagsInv => FlagsJustified
  BY Zenon DEF FlagsInv
<1> QED
  BY <1>1, InitFlags, NextFlags, PTL DEF TasksSpec

(***************************************************************************)
(* The wallet's transfers.                                                 *)
(***************************************************************************)

TransferType == [id: Nat, nonce: Nat]

\* The transfers settled in the chain or waiting in the pool.
Known == wallet.pending \cup 1 .. wallet.nonce

\* The wallet has at most the transfer with its next nonce in the pool; what was
\* handed to the worker, and what the window is about to hand over, is known to the
\* ledger and all different.
TransfersInv ==
    /\ wallet \in [nonce: Nat, pending: SUBSET Nat] /\ wallet.pending \in {{}, {wallet.nonce + 1}}
    /\ tasks \in Seq(TransferType) /\ worker.task \in TransferType
    /\ DOMAIN worker = {"stage", "task", "block", "attempts", "late", "gave_up"}
    /\ desk.nonce \in Nat /\ desk.sends \in Nat
    /\ DOMAIN desk = {"pc", "status", "rx", "messages", "sends", "nonce"}
    /\ \A i \in 1 .. Len(tasks) : tasks[i].nonce \in Known
    /\ \A i, j \in 1 .. Len(tasks) : i # j => tasks[i].nonce # tasks[j].nonce
    /\ InClosure => /\ worker.task.nonce \in Known
                    /\ \A i \in 1 .. Len(tasks) : tasks[i].nonce # worker.task.nonce
    /\ desk.pc = "queue" =>
          /\ desk.nonce \in Known
          /\ \A i \in 1 .. Len(tasks) : tasks[i].nonce # desk.nonce
          /\ InClosure => worker.task.nonce # desk.nonce

\* No transfer yet.
LEMMA InitTransfers == TasksInit => TransfersInv
  BY DEF TasksInit, TransfersInv, TransferType, IdleWorker, NoTask, InClosure, Known

\* The ledger takes the next nonce, and only that.
LEMMA NextNonceOnly ==
    ASSUME TransfersInv, NEW n \in Nat
    PROVE  MayInsert(n) <=> n = wallet.nonce + (IF wallet.pending = {} THEN 1 ELSE 2)
<1>1. Cardinality({}) = 0 /\ Cardinality({wallet.nonce + 1}) = 1
  BY FS_EmptySet, FS_Singleton, Zenon
<1>2. wallet.nonce \in Nat /\ wallet.pending \in {{}, {wallet.nonce + 1}}
  BY Zenon DEF TransfersInv
<1> QED
  BY <1>1, <1>2 DEF MayInsert

\* Steps that hand nothing over and leave the ledger alone; the worker may leave its
\* closure.
LEMMA TransfersStay ==
    ASSUME TransfersInv, UNCHANGED <<wallet, tasks>>,
           DOMAIN desk' = DOMAIN desk, desk'.nonce = desk.nonce, desk'.sends = desk.sends,
           desk'.pc = "queue" => desk.pc = "queue",
           DOMAIN worker' = DOMAIN worker, worker'.task = worker.task, InClosure' => InClosure
    PROVE  TransfersInv'
  BY ZenonT(30) DEF TransfersInv, Known

\* A block with the pending transfer settles it.
LEMMA SettledKeeps ==
    ASSUME TransfersInv, UNCHANGED <<tasks, desk>>,
           wallet' = [nonce |-> wallet.nonce + Cardinality(wallet.pending), pending |-> {}],
           DOMAIN worker' = DOMAIN worker, worker'.task = worker.task, InClosure' => InClosure
    PROVE  TransfersInv'
<1>1. /\ Cardinality({}) = 0 /\ Cardinality({wallet.nonce + 1}) = 1
  BY FS_EmptySet, FS_Singleton, Zenon
<1>2. wallet.nonce \in Nat /\ wallet.pending \in {{}, {wallet.nonce + 1}}
  BY Zenon DEF TransfersInv
<1>3. wallet'.nonce \in Nat /\ wallet'.pending = {} /\ wallet' \in [nonce: Nat, pending: SUBSET Nat]
  BY <1>1, <1>2, SMTT(30)
<1>4. Known \subseteq Known'
  <2>1. CASE wallet.pending = {}
    BY <1>1, <1>2, <2>1 DEF Known
  <2>2. CASE wallet.pending = {wallet.nonce + 1}
    BY <1>1, <1>2, <2>2 DEF Known
  <2> QED
    BY <1>2, <2>1, <2>2, Zenon
<1>5. \A i \in 1 .. Len(tasks) : tasks[i].nonce \in Nat
  <2>1. tasks \in Seq(TransferType)
    BY Zenon DEF TransfersInv
  <2>2. \A i \in 1 .. Len(tasks) : tasks[i] \in TransferType
    BY <2>1
  <2> QED
    BY <2>2, Zenon DEF TransferType
<1> QED
  BY <1>3, <1>4, <1>5, ZenonT(30) DEF TransfersInv

\* The send button: the ledger accepts the transfer only when none is pending, so its
\* nonce is new to the worker.
LEMMA ClickSendKeeps ==
    ASSUME TransfersInv, ClickSend
    PROVE  TransfersInv'
<1> DEFINE n == wallet.nonce + 1
<1>0. /\ wallet.nonce \in Nat /\ n \in Nat /\ wallet.pending \in {{}, {n}}
      /\ DOMAIN desk = {"pc", "status", "rx", "messages", "sends", "nonce"} /\ desk.sends \in Nat
      /\ wallet = [nonce |-> wallet.nonce, pending |-> wallet.pending]
  BY DEF TransfersInv
<1>1. UNCHANGED <<tasks, worker>>
  BY Zenon DEF ClickSend
<1>2. CASE MayInsert(n)
  <2>1. wallet.pending = {}
    BY <1>0, <1>2, NextNonceOnly
  <2>2. /\ wallet' = [wallet EXCEPT !.pending = @ \cup {n}]
        /\ desk' = [desk EXCEPT !.pc = "queue", !.sends = @ + 1, !.nonce = n]
    BY <1>2, Zenon DEF ClickSend
  <2>3. wallet' = [nonce |-> wallet.nonce, pending |-> {n}]
    BY <1>0, <2>1, <2>2, Zenon
  <2>4. /\ DOMAIN desk' = DOMAIN desk /\ desk'.sends = desk.sends + 1 /\ desk'.nonce = n
    BY <1>0, <2>2, Zenon
  <2>5. Known = 1 .. wallet.nonce
    BY <2>1, Zenon DEF Known
  <2>6. n \notin 1 .. wallet.nonce
    BY <1>0
  <2>7. Known' = {n} \cup 1 .. wallet.nonce
    BY <2>3, Zenon DEF Known
  <2>8. /\ \A i \in 1 .. Len(tasks) : tasks[i].nonce # n /\ tasks'[i].nonce \in Known'
        /\ InClosure => worker.task.nonce # n /\ worker'.task.nonce \in Known'
    BY <1>1, <2>5, <2>6, <2>7, SMTT(30) DEF TransfersInv
  <2> QED
    BY <1>0, <1>1, <2>3, <2>4, <2>7, <2>8, SMTT(30) DEF TransfersInv, InClosure
<1>3. CASE ~MayInsert(n)
  <2>1. desk' = [desk EXCEPT !.pc = "drain", !.sends = @ + 1] /\ wallet' = wallet
    BY <1>3, Zenon DEF ClickSend
  <2>2. DOMAIN desk' = DOMAIN desk /\ desk'.sends = desk.sends + 1 /\ desk'.nonce = desk.nonce
        /\ desk'.pc = "drain"
    BY <1>0, <2>1, Zenon
  <2> QED
    BY <1>0, <1>1, <2>1, <2>2 DEF TransfersInv, InClosure, Known
<1> QED
  BY <1>2, <1>3, Zenon

\* The window hands its transfer over.
LEMMA QueueTaskKeeps ==
    ASSUME TransfersInv, QueueTask
    PROVE  TransfersInv'
<1>0. /\ DOMAIN desk = {"pc", "status", "rx", "messages", "sends", "nonce"}
      /\ desk.nonce \in Nat /\ desk.sends \in Nat /\ tasks \in Seq(TransferType)
      /\ desk.pc = "queue" /\ UNCHANGED <<worker, wallet>>
  BY Zenon DEF TransfersInv, QueueTask
<1>1. /\ DOMAIN desk' = DOMAIN desk /\ desk'.sends = desk.sends /\ desk'.nonce = desk.nonce
      /\ desk'.pc = "drain"
  BY <1>0, Zenon DEF QueueTask
<1>2. CASE tasks' = tasks
  BY <1>0, <1>1, <1>2, TransfersStay, Zenon DEF InClosure
<1>3. CASE tasks' = Append(tasks, [id |-> desk.sends, nonce |-> desk.nonce])
  <2>1. /\ tasks' \in Seq(TransferType) /\ Len(tasks') = Len(tasks) + 1 /\ Len(tasks) \in Nat
        /\ \A i \in 1 .. Len(tasks) : tasks'[i] = tasks[i]
        /\ tasks'[Len(tasks) + 1] = [id |-> desk.sends, nonce |-> desk.nonce]
    <3>1. [id |-> desk.sends, nonce |-> desk.nonce] \in TransferType
      BY <1>0, Zenon DEF TransferType
    <3> QED
      BY <1>0, <1>3, <3>1, AppendProperties
  <2>2. tasks'[Len(tasks) + 1].nonce = desk.nonce
    BY <2>1
  <2>3. \A i \in 1 .. Len(tasks') : i = Len(tasks) + 1 \/ i \in 1 .. Len(tasks)
    BY <2>1
  <2>4. \A i \in 1 .. Len(tasks') : tasks'[i].nonce \in Known'
    BY <1>0, <2>1, <2>2, <2>3, Zenon DEF TransfersInv, Known
  <2>5. \A i, j \in 1 .. Len(tasks') : i # j => tasks'[i].nonce # tasks'[j].nonce
    BY <1>0, <2>1, <2>2, <2>3, ZenonT(30) DEF TransfersInv
  <2>6. InClosure' => /\ worker'.task.nonce \in Known'
                      /\ \A i \in 1 .. Len(tasks') : tasks'[i].nonce # worker'.task.nonce
    BY <1>0, <2>1, <2>2, <2>3, Zenon DEF TransfersInv, Known, InClosure
  <2> QED
    BY <1>0, <1>1, <2>1, <2>4, <2>5, <2>6, Zenon DEF TransfersInv
<1> QED
  BY <1>2, <1>3, Zenon DEF QueueTask

\* What taking the first element leaves of a sequence.
LEMMA FirstAndRest ==
    ASSUME NEW S, NEW s \in Seq(S), s # << >>
    PROVE  /\ Head(s) \in S /\ Tail(s) \in Seq(S) /\ Head(s) = s[1] /\ Len(s) \in Nat \ {0}
           /\ Len(Tail(s)) = Len(s) - 1 /\ \A i \in 1 .. Len(s) - 1 : Tail(s)[i] = s[i + 1]
  OBVIOUS

\* The worker takes the oldest transfer.
LEMMA TakeTaskKeeps ==
    ASSUME TransfersInv, TakeTask
    PROVE  TransfersInv'
<1>0. /\ DOMAIN worker = {"stage", "task", "block", "attempts", "late", "gave_up"}
      /\ tasks \in Seq(TransferType) /\ UNCHANGED <<desk, wallet>> /\ worker.stage = "idle"
  BY Zenon DEF TransfersInv, TakeTask
<1>1. CASE tasks # << >>
  <2>1. worker' = [IdleWorker EXCEPT !.stage = "apply", !.task = Head(tasks)] /\ tasks' = Tail(tasks)
    BY <1>1, Zenon DEF TakeTask
  <2>2. DOMAIN worker' = DOMAIN worker /\ worker'.task = Head(tasks) /\ worker'.stage = "apply"
    BY <1>0, <2>1, Zenon DEF IdleWorker
  <2>3. /\ Head(tasks) \in TransferType /\ tasks' \in Seq(TransferType)
        /\ Head(tasks) = tasks[1] /\ Len(tasks) \in Nat \ {0} /\ Len(tasks') = Len(tasks) - 1
        /\ \A i \in 1 .. Len(tasks) - 1 : tasks'[i] = tasks[i + 1]
    BY <1>0, <1>1, <2>1, FirstAndRest, Zenon
  <2>4. \A i \in 1 .. Len(tasks') : i + 1 \in 1 .. Len(tasks) /\ i + 1 # 1 /\ tasks'[i] = tasks[i + 1]
    BY <2>3
  <2>5. 1 \in 1 .. Len(tasks) /\ \A i, j \in 1 .. Len(tasks') : i # j => i + 1 # j + 1
    BY <2>3
  <2>9. /\ \A i \in 1 .. Len(tasks) : tasks[i].nonce \in Known /\ Known' = Known
        /\ \A i, j \in 1 .. Len(tasks) : i # j => tasks[i].nonce # tasks[j].nonce
    BY <1>0, Zenon DEF TransfersInv, Known
  <2>6. /\ \A i \in 1 .. Len(tasks') : tasks'[i].nonce \in Known'
        /\ \A i, j \in 1 .. Len(tasks') : i # j => tasks'[i].nonce # tasks'[j].nonce
    <3>1. ASSUME NEW i \in 1 .. Len(tasks') PROVE tasks'[i].nonce \in Known'
      BY <2>4, <2>9, <3>1, Zenon
    <3>2. ASSUME NEW i \in 1 .. Len(tasks'), NEW j \in 1 .. Len(tasks'), i # j
          PROVE  tasks'[i].nonce # tasks'[j].nonce
      <4>1. i + 1 # j + 1 /\ i + 1 \in 1 .. Len(tasks) /\ j + 1 \in 1 .. Len(tasks)
        BY <2>4, <2>5, <3>2, Zenon
      <4>2. tasks[i + 1].nonce # tasks[j + 1].nonce
        BY <2>9, <4>1, Zenon
      <4> QED
        BY <2>4, <4>2, Zenon
    <3> QED
      BY <3>1, <3>2, Zenon
  <2>7. /\ worker'.task.nonce \in Known'
        /\ \A i \in 1 .. Len(tasks') : tasks'[i].nonce # worker'.task.nonce
    <3>1. worker'.task.nonce = tasks[1].nonce
      BY <2>2, <2>3, Zenon
    <3>2. ASSUME NEW i \in 1 .. Len(tasks') PROVE tasks'[i].nonce # tasks[1].nonce
      <4>1. tasks[i + 1].nonce # tasks[1].nonce
        BY <2>4, <2>5, <2>9, Zenon
      <4> QED
        BY <2>4, <4>1, Zenon
    <3> QED
      BY <2>5, <2>9, <3>1, <3>2, Zenon
  <2>8. desk.pc = "queue" => /\ desk.nonce \in Known' /\ worker'.task.nonce # desk.nonce
                             /\ \A i \in 1 .. Len(tasks') : tasks'[i].nonce # desk.nonce
    BY <1>0, <2>2, <2>3, <2>4, <2>5, SMTT(30) DEF TransfersInv, Known
  <2> QED
    BY <1>0, <2>2, <2>3, <2>6, <2>7, <2>8, ZenonT(30) DEF TransfersInv
<1>2. CASE tasks = << >>
  <2>1. worker' = [worker EXCEPT !.stage = "ended"] /\ tasks' = tasks
    BY <1>2, Zenon DEF TakeTask
  <2>2. DOMAIN worker' = DOMAIN worker /\ worker'.task = worker.task /\ worker'.stage = "ended"
    BY <1>0, <2>1, Zenon
  <2> QED
    BY <1>0, <2>1, <2>2, TransfersStay, Zenon DEF InClosure
<1> QED
  BY <1>1, <1>2, Zenon

\* The worker's own apply_tx inserts nothing: what it was handed is already known.
LEMMA WorkerAppliesKeeps ==
    ASSUME TransfersInv, WorkerApplies
    PROVE  TransfersInv'
<1>0. /\ wallet.nonce \in Nat /\ wallet.pending \in {{}, {wallet.nonce + 1}}
      /\ DOMAIN worker = {"stage", "task", "block", "attempts", "late", "gave_up"}
      /\ worker.task \in TransferType
  BY Zenon DEF TransfersInv
<1>1. /\ InClosure /\ worker.task.nonce \in Known /\ worker.task.nonce \in Nat
      /\ worker' = [worker EXCEPT !.stage = "lock"] /\ UNCHANGED <<desk, tasks>>
  BY <1>0, Zenon DEF TransfersInv, WorkerApplies, InClosure, TransferType
<1>2. ~MayInsert(worker.task.nonce)
  BY <1>0, <1>1, NextNonceOnly DEF Known
<1>3. wallet' = wallet
  BY <1>2, Zenon DEF WorkerApplies
<1>4. DOMAIN worker' = DOMAIN worker /\ worker'.task = worker.task
  BY <1>0, <1>1, Zenon
<1> QED
  BY <1>1, <1>3, <1>4, TransfersStay, Zenon

\* The queue dies with the worker or the runtime.
LEMMA QueueDropped ==
    ASSUME TransfersInv, tasks' = << >>, UNCHANGED <<wallet, desk>>,
           DOMAIN worker' = DOMAIN worker, worker'.task = worker.task, InClosure' => InClosure
    PROVE  TransfersInv'
<1>1. Len(tasks') = 0 /\ tasks' \in Seq(TransferType) /\ 1 .. 0 = {}
  OBVIOUS
<1> QED
  BY <1>1, Zenon DEF TransfersInv, Known

\* Every step of the process keeps the transfers' invariant.
LEMMA NextTransfers == TransfersInv /\ [TasksNext]_tasks_vars => TransfersInv'
<1> SUFFICES ASSUME TransfersInv, [TasksNext]_tasks_vars PROVE TransfersInv'
  BY Zenon
<1>0. /\ DOMAIN worker = {"stage", "task", "block", "attempts", "late", "gave_up"}
      /\ DOMAIN desk = {"pc", "status", "rx", "messages", "sends", "nonce"}
  BY Zenon DEF TransfersInv
<1>1. CASE FrameDrain \/ FrameDraw
  <2>1. /\ DOMAIN desk' = DOMAIN desk /\ desk'.nonce = desk.nonce /\ desk'.sends = desk.sends
        /\ desk'.pc # "queue" /\ UNCHANGED <<wallet, tasks, worker>>
    BY <1>0, <1>1, Zenon DEF FrameDrain, FrameDraw
  <2> QED
    BY <2>1, TransfersStay, Zenon DEF InClosure
<1>2. CASE StartSearch \/ SearchStops
  <2>1. /\ DOMAIN worker' = DOMAIN worker /\ worker'.task = worker.task /\ InClosure
        /\ UNCHANGED <<wallet, tasks, desk>>
    BY <1>0, <1>2, Zenon DEF StartSearch, SearchStops, InClosure
  <2> QED
    BY <2>1, TransfersStay, Zenon
<1>3. CASE SearchFinds \/ PeerBlock
  <2>1. /\ DOMAIN worker' = DOMAIN worker /\ worker'.task = worker.task /\ (InClosure' => InClosure)
        /\ UNCHANGED <<tasks, desk>>
        /\ wallet' = [nonce |-> wallet.nonce + Cardinality(wallet.pending), pending |-> {}]
    BY <1>0, <1>3, Zenon DEF SearchFinds, PeerBlock, InClosure
  <2> QED
    BY <2>1, SettledKeeps, Zenon
<1>4. CASE WorkerPanics \/ RuntimeDrops
  <2>1. /\ DOMAIN worker' = DOMAIN worker /\ worker'.task = worker.task /\ (InClosure' => InClosure)
        /\ tasks' = << >> /\ UNCHANGED <<wallet, desk>>
    BY <1>0, <1>4, Zenon DEF WorkerPanics, RuntimeDrops, InClosure
  <2> QED
    BY <2>1, QueueDropped, Zenon
<1>5. CASE Mined \/ PostMineRound \/ WriteStatus \/ StatusBusy
  <2>1. /\ DOMAIN worker' = DOMAIN worker /\ worker'.task = worker.task /\ ~InClosure'
        /\ UNCHANGED <<wallet, tasks>>
    BY <1>0, <1>5, ZenonT(30) DEF Mined, PostMineRound, WriteStatus, StatusBusy, InClosure
  <2>2. /\ DOMAIN desk' = DOMAIN desk /\ desk'.nonce = desk.nonce /\ desk'.sends = desk.sends
        /\ desk'.pc = desk.pc
    BY <1>0, <1>5, ZenonT(30) DEF Mined, PostMineRound, WriteStatus, StatusBusy
  <2> QED
    BY <2>1, <2>2, TransfersStay, Zenon
<1>6. CASE CloseWindow \/ SyncTick \/ SyncRound \/ ServerPolls \/ Interrupt \/ HandleSignal
           \/ ForceExit \/ RunReturns \/ Exit \/ UNCHANGED tasks_vars
  <2>1. UNCHANGED <<wallet, tasks, desk, worker>>
    BY <1>6, Zenon DEF CloseWindow, SyncTick, SyncRound, ServerPolls, Interrupt, HandleSignal,
                ForceExit, RunReturns, Exit, tasks_vars
  <2> QED
    BY <2>1, TransfersStay, Zenon DEF InClosure
<1>7. CASE ClockSetBack
  <2>1. /\ DOMAIN worker' = DOMAIN worker /\ worker'.task = worker.task /\ worker'.stage = worker.stage
        /\ UNCHANGED <<wallet, tasks, desk>>
    BY <1>0, <1>7, Zenon DEF ClockSetBack
  <2> QED
    BY <2>1, TransfersStay, Zenon DEF InClosure
<1> QED
  BY <1>1, <1>2, <1>3, <1>4, <1>5, <1>6, <1>7, ClickSendKeeps, QueueTaskKeeps, TakeTaskKeeps,
     WorkerAppliesKeeps, ZenonT(30) DEF TasksNext

\* Whatever the window, the worker, peers' blocks, panics and the end of the process do
\* in between, what the worker is handed is a transfer the ledger accepted, and never
\* the same one twice.
THEOREM TransfersHandedOnce == TasksSpec => []TransfersQueuedOnce
<1>1. TransfersInv => TransfersQueuedOnce
  <2> SUFFICES ASSUME TransfersInv PROVE TransfersQueuedOnce
    BY Zenon
  <2>0. /\ tasks \in Seq(TransferType) /\ worker.task \in TransferType
        /\ \A i \in 1 .. Len(tasks) : tasks[i].nonce \in Known
        /\ \A i, j \in 1 .. Len(tasks) : i # j => tasks[i].nonce # tasks[j].nonce
    BY Zenon DEF TransfersInv
  <2>1. CASE ~InClosure
    <3>1. DOMAIN tasks = 1 .. Len(tasks)
      BY <2>0
    <3> QED
      BY <2>0, <2>1, <3>1, Zenon DEF TransfersQueuedOnce, Known
  <2>2. CASE InClosure
    <3> DEFINE handed == <<worker.task>> \o tasks
    <3>1. /\ <<worker.task>> \in Seq(TransferType) /\ Len(<<worker.task>>) = 1
          /\ <<worker.task>>[1] = worker.task /\ Len(tasks) \in Nat
      BY <2>0, SMTT(30)
    <3>2. /\ DOMAIN handed = 1 .. 1 + Len(tasks)
          /\ \A i \in 1 .. 1 + Len(tasks) :
                handed[i] = IF i <= 1 THEN <<worker.task>>[i] ELSE tasks[i - 1]
      BY <2>0, <3>1, ConcatProperties
    <3>3. /\ worker.task.nonce \in Known
          /\ \A i \in 1 .. Len(tasks) : tasks[i].nonce # worker.task.nonce
      BY <2>2, Zenon DEF TransfersInv
    <3> HIDE DEF handed
    <3>4. \A i \in DOMAIN handed : \/ i = 1 /\ handed[i].nonce = worker.task.nonce
                                   \/ i - 1 \in 1 .. Len(tasks) /\ handed[i].nonce = tasks[i - 1].nonce
      BY <3>1, <3>2
    <3>5. \A i \in DOMAIN handed : handed[i].nonce \in Known
      BY <2>0, <3>3, <3>4, Zenon
    <3>6. ASSUME NEW i \in DOMAIN handed, NEW j \in DOMAIN handed, i # j
          PROVE  handed[i].nonce # handed[j].nonce
      <4>1. i \in Nat /\ j \in Nat /\ i - 1 # j - 1
        BY <3>1, <3>2, <3>6
      <4> QED
        BY <2>0, <3>3, <3>4, <3>6, <4>1, ZenonT(30)
    <3> QED
      BY <2>2, <3>5, <3>6, Zenon DEF handed, TransfersQueuedOnce, Known
  <2> QED
    BY <2>1, <2>2, Zenon
<1> QED
  BY <1>1, InitTransfers, NextTransfers, PTL DEF TasksSpec
==============================================================================
