-------------------------- MODULE SyncEngineProofs --------------------------
(***************************************************************************)
(* Proofs about fork choice and about the sync engine that applies it.     *)
(***************************************************************************)
EXTENDS SyncEngine, TipSelection, FiniteSetTheorems, TLAPS

(***************************************************************************)
(* Fork choice is a strict total order, and nodes that apply it offer by   *)
(* offer agree, for any set of nodes and any set of candidate chains.      *)
(***************************************************************************)
\* is_better is irreflexive and transitive: no cycle of adoptions.
LEMMA BetterStrict ==
    ASSUME NEW a \in ChainInfo, NEW b \in ChainInfo, NEW c \in ChainInfo
    PROVE  /\ ~is_better(a, a)
           /\ is_better(a, b) /\ is_better(b, c) => is_better(a, c)
  BY DEF is_better, ChainInfo

\* Of two different chains one wins: the last tie-break decides.
LEMMA BetterTotal ==
    ASSUME NEW a \in ChainInfo, NEW b \in ChainInfo,
           ~is_better(a, b), ~is_better(b, a)
    PROVE  a = b
  <1>1. /\ a.total_work = b.total_work
        /\ a.tip_timestamp = b.tip_timestamp
        /\ a.tip_hash = b.tip_hash
    BY DEF is_better, ChainInfo
  <1> QED BY <1>1 DEF ChainInfo

\* An offer adds one chain to the chains a node has seen.
LEMMA SeenOffer ==
    ASSUME TipTypeOK, NEW n \in Node, NEW c \in Candidate, Offer(n, c), NEW m \in Node
    PROVE  Seen(m)' = IF m = n THEN Seen(m) \cup {c} ELSE Seen(m)
  <1>1. CASE m = n
    <2>1. offered[n] \in Seq(Candidate) /\ offered'[n] = Append(offered[n], c)
      BY Zenon DEF TipTypeOK, Offer
    <2>2. /\ Len(offered'[n]) = Len(offered[n]) + 1 /\ Len(offered[n]) \in Nat
          /\ offered'[n][Len(offered[n]) + 1] = c
          /\ \A i \in 1 .. Len(offered[n]) : offered'[n][i] = offered[n][i]
      BY <2>1
    <2> QED BY <1>1, <2>2, SMTT(30) DEF Seen
  <1>2. CASE m # n
    BY <1>2, Zenon DEF Seen, Offer, TipTypeOK
  <1> QED BY <1>1, <1>2, Zenon

\* The inductive invariant.
TipInv == TipTypeOK /\ BestOfSeen

\* Every node starts on the one chain it has seen.
LEMMA InitTipInv == TipInit => TipInv
  <1> SUFFICES ASSUME TipInit PROVE TipInv
    BY Zenon
  <1>1. TipTypeOK
    BY CandidateAssumption DEF TipInit, TipTypeOK
  <1>2. \A n \in Node : Seen(n) = {Genesis}
    BY DEF TipInit, Seen
  <1>3. ~is_better(Genesis, Genesis)
    BY CandidateAssumption, BetterStrict, Zenon
  <1> QED BY <1>1, <1>2, <1>3, Zenon DEF TipInit, TipInv, BestOfSeen

\* A chain that beats the best so far beats everything seen so far.
LEMMA NextTipInv == TipInv /\ [TipNext]_tip_vars => TipInv'
  <1> SUFFICES ASSUME TipInv, [TipNext]_tip_vars PROVE TipInv'
    BY Zenon
  <1>1. ASSUME NEW n \in Node, NEW c \in Candidate, Offer(n, c) PROVE TipInv'
    <2>1. TipTypeOK'
      BY <1>1 DEF TipInv, TipTypeOK, Offer, Choose
    <2>2. ASSUME NEW m \in Node
          PROVE  /\ best'[m] \in Seen(m)'
                 /\ \A x \in Seen(m)' : ~is_better(x, best'[m])
      <3>1. /\ best[m] \in Seen(m) /\ \A x \in Seen(m) : ~is_better(x, best[m])
            /\ best[m] \in ChainInfo /\ c \in ChainInfo /\ Seen(m) \subseteq ChainInfo
        BY CandidateAssumption DEF TipInv, BestOfSeen, TipTypeOK, Seen
      <3>2. Seen(m)' = IF m = n THEN Seen(m) \cup {c} ELSE Seen(m)
        BY <1>1, SeenOffer, Zenon DEF TipInv
      <3>3. best'[m] = IF m = n THEN Choose(best[m], c) ELSE best[m]
        BY <1>1, Zenon DEF Offer, TipInv, TipTypeOK
      <3>4. CASE m # n
        BY <3>1, <3>2, <3>3, <3>4, Zenon
      <3>5. CASE m = n /\ is_better(c, best[m])
        <4>1. best'[m] = c /\ Seen(m)' = Seen(m) \cup {c}
          BY <3>2, <3>3, <3>5, Zenon DEF Choose
        <4>2. \A x \in Seen(m) : ~is_better(x, c)
          BY <3>1, <3>5, BetterStrict, Zenon
        <4>3. ~is_better(c, c)
          BY <3>1, BetterStrict, Zenon
        <4> QED BY <4>1, <4>2, <4>3, Zenon
      <3>6. CASE m = n /\ ~is_better(c, best[m])
        BY <3>1, <3>2, <3>3, <3>6, Zenon DEF Choose
      <3> QED BY <3>4, <3>5, <3>6, Zenon
    <2> QED BY <2>1, <2>2, Zenon DEF TipInv, BestOfSeen
  <1>2. CASE UNCHANGED tip_vars
    BY <1>2, Zenon DEF tip_vars, TipInv, TipTypeOK, BestOfSeen, Seen
  <1> QED BY <1>1, <1>2, Zenon DEF TipNext

\* Types of tips and offers.
THEOREM TipTypeCorrect == TipSpec => []TipTypeOK
  <1>1. TipInv => TipTypeOK
    BY Zenon DEF TipInv
  <1> QED BY <1>1, InitTipInv, NextTipInv, PTL DEF TipSpec

\* A node is on the best chain it was ever offered.
THEOREM TipIsBest == TipSpec => []BestOfSeen
  <1>1. TipInv => BestOfSeen
    BY Zenon DEF TipInv
  <1> QED BY <1>1, InitTipInv, NextTipInv, PTL DEF TipSpec

\* Fork choice is deterministic: the tip depends on the set of chains a node
\* was offered and not on order or repetition.
THEOREM TipDeterministic == TipSpec => []SameCandidatesSameTip
  <1>1. TipInv => SameCandidatesSameTip
    <2> SUFFICES ASSUME TipInv, NEW n \in Node, NEW m \in Node, Seen(n) = Seen(m)
                 PROVE  best[n] = best[m]
      BY Zenon DEF SameCandidatesSameTip
    <2>1. ~is_better(best[n], best[m]) /\ ~is_better(best[m], best[n])
      BY Zenon DEF TipInv, BestOfSeen
    <2>2. best[n] \in ChainInfo /\ best[m] \in ChainInfo
      BY CandidateAssumption, Zenon DEF TipInv, TipTypeOK
    <2> QED BY <2>1, <2>2, BetterTotal, Zenon
  <1> QED BY <1>1, InitTipInv, NextTipInv, PTL DEF TipSpec

(***************************************************************************)
(* The inbox of SyncEngine, for any producers, messages, capacities and    *)
(* tree of blocks.                                                         *)
(***************************************************************************)
Carried == Message \cup {NoMessage}

Busy(p) == producer[p].pc # "idle"

\* The state of producers and engine, as far as the inbox depends on it.
InboxType ==
    /\ seen \subseteq Message /\ handled \subseteq Message /\ blocks \in Seq(Message)
    /\ producer \in [Producer -> [pc: {"idle", "send", "release"}, msg: Carried]]
    /\ \A p \in Producer : Busy(p) => producer[p].msg \in Message
    /\ DOMAIN engine = {"pc", "msg", "old_tip", "height"}
    /\ engine.msg \in Carried
    /\ engine.pc \in {"head", "wait", "apply", "height", "publish", "stopped"}
    /\ AtRest <=> engine.msg = NoMessage

\* A message leaves the lane by its head.
LEMMA RangeOfTail ==
    ASSUME NEW s \in Seq(Message), s # <<>>
    PROVE  /\ Head(s) \in Message /\ Tail(s) \in Seq(Message)
           /\ Range(s) = {Head(s)} \cup Range(Tail(s))
<1>1. Head(s) \in Message /\ Tail(s) \in Seq(Message) /\ Len(Tail(s)) = Len(s) - 1 /\ Len(s) \in Nat \ {0}
      /\ Head(s) = s[1] /\ \A i \in 1..Len(s) - 1 : Tail(s)[i] = s[i + 1]
  OBVIOUS
<1>2. DOMAIN s = 1..Len(s) /\ DOMAIN Tail(s) = 1..Len(s) - 1
  BY <1>1
<1>3. ASSUME NEW x \in Range(s) PROVE x \in {Head(s)} \cup Range(Tail(s))
  <2>1. PICK i \in 1..Len(s) : x = s[i]
    BY <1>2, <1>3, Zenon DEF Range
  <2>2. CASE i = 1
    BY <1>1, <2>1, <2>2, Zenon
  <2>3. CASE i # 1
    <3>1. i - 1 \in 1..Len(s) - 1 /\ Tail(s)[i - 1] = x
      BY <1>1, <2>1, <2>3
    <3> QED
      BY <1>2, <3>1, Zenon DEF Range
  <2> QED
    BY <2>2, <2>3, Zenon
<1>4. ASSUME NEW x \in {Head(s)} \cup Range(Tail(s)) PROVE x \in Range(s)
  <2>1. CASE x = Head(s)
    BY <1>1, <1>2, <2>1 DEF Range
  <2>2. CASE x \in Range(Tail(s))
    <3>1. PICK i \in 1..Len(s) - 1 : x = Tail(s)[i]
      BY <1>2, <2>2, Zenon DEF Range
    <3>2. i + 1 \in 1..Len(s) /\ s[i + 1] = x
      BY <1>1, <3>1
    <3> QED
      BY <1>2, <3>2, Zenon DEF Range
  <2> QED
    BY <1>4, <2>1, <2>2, Zenon
<1> QED
  BY <1>1, <1>3, <1>4, Zenon

\* A message enters the lane at its end.
LEMMA RangeOfAppend ==
    ASSUME NEW s \in Seq(Message), NEW m \in Message
    PROVE  Append(s, m) \in Seq(Message) /\ Range(Append(s, m)) = Range(s) \cup {m}
<1>1. /\ Append(s, m) \in Seq(Message) /\ Len(s) \in Nat
      /\ DOMAIN Append(s, m) = 1..Len(s) + 1 /\ DOMAIN s = 1..Len(s)
      /\ Append(s, m)[Len(s) + 1] = m /\ \A i \in 1..Len(s) : Append(s, m)[i] = s[i]
  OBVIOUS
<1>2. \A i \in 1..Len(s) + 1 : i = Len(s) + 1 \/ i \in 1..Len(s)
  BY <1>1
<1>3. (1..Len(s)) \subseteq (1..Len(s) + 1) /\ Len(s) + 1 \in 1..Len(s) + 1
  BY <1>1
<1> QED
  BY <1>1, <1>2, <1>3, Zenon DEF Range

\* The inbox starts empty and the engine at the top of its loop.
LEMMA InitInbox == Init => InboxType /\ SeenKeysBacked
  BY EngineConstants DEF Init, InboxType, SeenKeysBacked, Carried, Idle, AtHead, AtRest, Busy

\* No message is queued twice.
Distinct(s) == \A i, j \in 1..Len(s) : i # j => s[i] # s[j]

\* While the seen-set is whole it holds the key of every message on its way or
\* done, and a message is in one place only.
Tracked ==
    ~cleared =>
       /\ \A p \in Producer : Busy(p) =>
             /\ producer[p].msg \in seen
             /\ producer[p].msg \notin Range(blocks) \cup handled \cup {engine.msg}
             /\ \A q \in Producer : Busy(q) /\ q # p => producer[q].msg # producer[p].msg
       /\ Range(blocks) \cup handled \subseteq seen
       /\ engine.msg # NoMessage => engine.msg \in seen
       /\ Distinct(blocks)
       /\ Range(blocks) \cap (handled \cup {engine.msg}) = {}
       /\ engine.msg \notin handled

InboxInv == InboxType /\ SeenKeysBacked /\ Tracked

\* And nothing is tracked yet.
LEMMA InitInboxInv == Init => InboxInv
<1> SUFFICES ASSUME Init PROVE InboxInv
  BY Zenon
<1>1. Range(blocks) = {} /\ Distinct(blocks)
  BY DEF Init, Range, Distinct
<1>2. Tracked
  BY <1>1, Zenon DEF Init, Tracked, Busy, Idle, AtHead
<1> QED
  BY <1>2, InitInbox, Zenon DEF InboxInv

\* Steps that do not touch the inbox.
LEMMA ElsewhereKeeps ==
    ASSUME InboxInv, UNCHANGED <<seen, blocks, producer, engine, handled, cleared>>
    PROVE  InboxInv'
  BY ZenonT(30) DEF InboxInv, InboxType, SeenKeysBacked, Tracked, Busy, AtRest, Distinct

\* SeenCache::reserve: the producer holds a message nobody else had, or the set is cleared.
LEMMA ReserveKeeps ==
    ASSUME InboxInv, NEW p \in Producer, NEW m \in Message, Reserve(p, m)
    PROVE  InboxInv'
<1>1. /\ ~Busy(p) /\ m \notin seen
      /\ producer' = [producer EXCEPT ![p] = [pc |-> "send", msg |-> m]]
      /\ UNCHANGED <<blocks, engine, handled>>
  BY Zenon DEF Reserve, reserve, Busy
<1>2. producer \in [Producer -> [pc: {"idle", "send", "release"}, msg: Carried]]
  BY Zenon DEF InboxInv, InboxType
<1>3. /\ producer'[p].pc = "send" /\ producer'[p].msg = m
      /\ \A q \in Producer : q # p => producer'[q] = producer[q]
      /\ producer' \in [Producer -> [pc: {"idle", "send", "release"}, msg: Carried]]
  BY <1>1, <1>2, Zenon DEF Carried
<1>4. seen' = {m} \/ (seen' = seen \cup {m} /\ cleared' = cleared)
  BY Zenon DEF Reserve, reserve
<1>5. seen' = {m} => cleared' \/ (seen' = seen \cup {m} /\ cleared' = cleared)
  BY Zenon DEF Reserve, reserve
<1>6. InboxType'
  <2>1. \A q \in Producer : Busy(q)' => producer'[q].msg \in Message
    BY <1>3, Zenon DEF InboxInv, InboxType, Busy
  <2>2. seen' \subseteq Message
    BY <1>4, Zenon DEF InboxInv, InboxType
  <2> QED
    BY <1>1, <1>3, <2>1, <2>2, Zenon DEF InboxInv, InboxType, AtRest
<1>7. SeenKeysBacked'
  <2> SUFFICES ASSUME NEW k \in seen'
               PROVE  \/ k \in handled \cup Range(blocks) \cup {engine.msg}
                      \/ \E q \in Producer : producer'[q].pc # "idle" /\ producer'[q].msg = k
    BY <1>1, Zenon DEF SeenKeysBacked
  <2>1. CASE k = m
    BY <1>3, <2>1, Zenon
  <2>2. CASE k # m
    <3>1. k \in seen
      BY <1>4, <2>2
    <3>2. CASE \E q \in Producer : producer[q].pc # "idle" /\ producer[q].msg = k
      BY <1>1, <1>3, <3>2, Zenon DEF Busy
    <3> QED
      BY <3>1, <3>2, Zenon DEF InboxInv, SeenKeysBacked
  <2> QED
    BY <2>1, <2>2, Zenon
<1>8. Tracked'
  <2> SUFFICES ASSUME ~cleared'
               PROVE  Tracked'
    BY Zenon DEF Tracked
  <2>1. seen' = seen \cup {m} /\ ~cleared
    BY <1>4, <1>5
  <2>2. m \notin Range(blocks) \cup handled \cup {engine.msg}
    BY <1>1, <2>1, EngineConstants, Zenon DEF InboxInv, Tracked
  <2>3. \A q \in Producer : q # p => (Busy(q)' <=> Busy(q))
    BY <1>3, Zenon DEF Busy
  <2>4. \A q \in Producer : Busy(q) => producer[q].msg # m
    BY <1>1, <2>1, Zenon DEF InboxInv, Tracked
  <2>5. ASSUME NEW q \in Producer, Busy(q)'
        PROVE  /\ producer'[q].msg \in seen'
               /\ producer'[q].msg \notin Range(blocks) \cup handled \cup {engine.msg}
               /\ \A r \in Producer : Busy(r)' /\ r # q => producer'[r].msg # producer'[q].msg
    <3>1. CASE q = p
      BY <1>3, <2>1, <2>2, <2>3, <2>4, <3>1, Zenon
    <3>2. CASE q # p
      BY <1>3, <2>1, <2>3, <2>4, <2>5, <3>2, Zenon DEF InboxInv, Tracked
    <3> QED
      BY <3>1, <3>2, Zenon
  <2> QED
    BY <1>1, <2>1, <2>5, Zenon DEF InboxInv, Tracked, Distinct
<1> QED
  BY <1>6, <1>7, <1>8, Zenon DEF InboxInv

\* A message that is not queued may be queued.
LEMMA DistinctAppend ==
    ASSUME NEW s \in Seq(Message), NEW m \in Message, Distinct(s), m \notin Range(s)
    PROVE  Distinct(Append(s, m))
<1>1. /\ Len(s) \in Nat /\ DOMAIN s = 1..Len(s) /\ Len(Append(s, m)) = Len(s) + 1
      /\ Append(s, m)[Len(s) + 1] = m /\ \A i \in 1..Len(s) : Append(s, m)[i] = s[i]
  OBVIOUS
<1>2. \A i \in 1..Len(s) : s[i] # m
  BY <1>1, Zenon DEF Range
<1>3. \A i \in 1..Len(s) + 1 : i = Len(s) + 1 \/ i \in 1..Len(s)
  BY <1>1
<1> QED
  BY <1>1, <1>2, <1>3, Zenon DEF Distinct

\* A message taken off the lane is not in it any more.
LEMMA DistinctTail ==
    ASSUME NEW s \in Seq(Message), s # <<>>, Distinct(s)
    PROVE  Distinct(Tail(s)) /\ Head(s) \notin Range(Tail(s))
<1>1. /\ Len(s) \in Nat \ {0} /\ Len(Tail(s)) = Len(s) - 1 /\ Head(s) = s[1]
      /\ DOMAIN Tail(s) = 1..Len(s) - 1 /\ \A i \in 1..Len(s) - 1 : Tail(s)[i] = s[i + 1]
  OBVIOUS
<1>2. \A i \in 1..Len(s) - 1 : i + 1 \in 1..Len(s) /\ i + 1 # 1 /\ 1 \in 1..Len(s)
  BY <1>1
<1>3. Distinct(Tail(s))
  <2> SUFFICES ASSUME NEW i \in 1..Len(s) - 1, NEW j \in 1..Len(s) - 1, i # j
               PROVE  Tail(s)[i] # Tail(s)[j]
    BY <1>1, Zenon DEF Distinct
  <2>1. i + 1 # j + 1
    BY <1>1
  <2> QED
    BY <1>1, <1>2, <2>1, ZenonT(30) DEF Distinct
<1>4. Head(s) \notin Range(Tail(s))
  BY <1>1, <1>2 DEF Distinct, Range
<1> QED
  BY <1>3, <1>4, Zenon

\* try_send: the message passes to the lane, or the producer keeps it to release its key.
LEMMA SendKeeps ==
    ASSUME InboxInv, NEW p \in Producer, Send(p)
    PROVE  InboxInv'
<1> DEFINE m == producer[p].msg
<1>0. producer \in [Producer -> [pc: {"idle", "send", "release"}, msg: Carried]]
  BY Zenon DEF InboxInv, InboxType
<1>1. Busy(p) /\ m \in Message /\ UNCHANGED <<seen, engine, handled, cleared>>
  BY Zenon DEF Send, Busy, InboxInv, InboxType
<1>2. CASE blocks' = blocks
  <2>1. producer' = [producer EXCEPT ![p].pc = "release"]
    <3>1. blocks \in Seq(Message)
      BY Zenon DEF InboxInv, InboxType
    <3>2. Append(blocks, m) # blocks
      <4>1. Len(Append(blocks, m)) = Len(blocks) + 1 /\ Len(blocks) \in Nat
        BY <1>1, <3>1
      <4> QED
        BY <4>1
    <3> QED
      BY <1>2, <3>2, Zenon DEF Send
  <2>2. /\ producer' \in [Producer -> [pc: {"idle", "send", "release"}, msg: Carried]]
        /\ \A q \in Producer : (Busy(q)' <=> Busy(q)) /\ producer'[q].msg = producer[q].msg
    BY <1>0, <1>1, <2>1, Zenon DEF Busy
  <2>3. InboxType'
    BY <1>1, <1>2, <2>2, Zenon DEF InboxInv, InboxType, AtRest
  <2>4. SeenKeysBacked'
    BY <1>1, <1>2, <2>2, Zenon DEF InboxInv, SeenKeysBacked, Busy
  <2>5. Tracked'
    BY <1>1, <1>2, <2>2, Zenon DEF InboxInv, Tracked, Distinct
  <2> QED
    BY <2>3, <2>4, <2>5, Zenon DEF InboxInv
<1>3. CASE blocks' # blocks
  <2>1. blocks' = Append(blocks, m) /\ producer' = [producer EXCEPT ![p] = Idle]
    BY <1>3, Zenon DEF Send
  <2>2. blocks' \in Seq(Message) /\ Range(blocks') = Range(blocks) \cup {m}
    BY <1>1, <2>1, RangeOfAppend, Zenon DEF InboxInv, InboxType
  <2>3. /\ producer' \in [Producer -> [pc: {"idle", "send", "release"}, msg: Carried]]
        /\ ~Busy(p)'
        /\ \A q \in Producer : q # p => producer'[q] = producer[q] /\ (Busy(q)' <=> Busy(q))
    BY <1>0, <2>1, Zenon DEF Idle, Carried, Busy
  <2>4. InboxType'
    BY <1>1, <2>2, <2>3, Zenon DEF InboxInv, InboxType, AtRest
  <2>5. SeenKeysBacked'
    <3> SUFFICES ASSUME NEW k \in seen
                 PROVE  \/ k \in handled \cup Range(blocks') \cup {engine.msg}
                        \/ \E q \in Producer : producer'[q].pc # "idle" /\ producer'[q].msg = k
      BY <1>1, Zenon DEF SeenKeysBacked
    <3>1. CASE k \in handled \cup Range(blocks) \cup {engine.msg}
      BY <2>2, <3>1, Zenon
    <3>2. CASE \E q \in Producer : producer[q].pc # "idle" /\ producer[q].msg = k
      BY <2>2, <2>3, <3>2, Zenon
    <3> QED
      BY <3>1, <3>2, Zenon DEF InboxInv, SeenKeysBacked
  <2>6. Tracked'
    <3> SUFFICES ASSUME ~cleared PROVE Tracked'
      BY <1>1, Zenon DEF Tracked
    <3>1. m \in seen /\ m \notin Range(blocks) \cup handled \cup {engine.msg}
          /\ \A q \in Producer : Busy(q) /\ q # p => producer[q].msg # m
      BY <1>1, Zenon DEF InboxInv, Tracked
    <3>2. Distinct(blocks')
      BY <1>1, <2>1, <3>1, DistinctAppend, Zenon DEF InboxInv, InboxType, Tracked
    <3> QED
      BY <1>1, <2>2, <2>3, <3>1, <3>2, ZenonT(30) DEF InboxInv, Tracked
  <2> QED
    BY <2>4, <2>5, <2>6, Zenon DEF InboxInv
<1> QED
  BY <1>2, <1>3, Zenon

\* SeenCache::release: the key goes with the message, which is nowhere else.
LEMMA ReleaseKeeps ==
    ASSUME InboxInv, NEW p \in Producer, Release(p)
    PROVE  InboxInv'
<1> DEFINE m == producer[p].msg
<1>0. producer \in [Producer -> [pc: {"idle", "send", "release"}, msg: Carried]]
  BY Zenon DEF InboxInv, InboxType
<1>1. Busy(p) /\ seen' = seen \ {m} /\ producer' = [producer EXCEPT ![p] = Idle]
      /\ UNCHANGED <<blocks, engine, handled, cleared>>
  BY Zenon DEF Release, Busy
<1>2. /\ producer' \in [Producer -> [pc: {"idle", "send", "release"}, msg: Carried]]
      /\ ~Busy(p)'
      /\ \A q \in Producer : q # p => producer'[q] = producer[q] /\ (Busy(q)' <=> Busy(q))
  BY <1>0, <1>1, Zenon DEF Idle, Carried, Busy
<1>3. InboxType'
  BY <1>1, <1>2, Zenon DEF InboxInv, InboxType, AtRest
<1>4. SeenKeysBacked'
  <2> SUFFICES ASSUME NEW k \in seen, k # m
               PROVE  \/ k \in handled \cup Range(blocks) \cup {engine.msg}
                      \/ \E q \in Producer : producer'[q].pc # "idle" /\ producer'[q].msg = k
    BY <1>1, Zenon DEF SeenKeysBacked
  <2>1. CASE \E q \in Producer : producer[q].pc # "idle" /\ producer[q].msg = k
    BY <1>2, <2>1, Zenon
  <2> QED
    BY <2>1, Zenon DEF InboxInv, SeenKeysBacked
<1>5. Tracked'
  <2> SUFFICES ASSUME ~cleared PROVE Tracked'
    BY <1>1, Zenon DEF Tracked
  <2>1. m \notin Range(blocks) \cup handled \cup {engine.msg}
        /\ \A q \in Producer : Busy(q) /\ q # p => producer[q].msg # m
    BY <1>1, Zenon DEF InboxInv, Tracked
  <2> QED
    BY <1>1, <1>2, <2>1, ZenonT(30) DEF InboxInv, Tracked, Distinct
<1> QED
  BY <1>3, <1>4, <1>5, Zenon DEF InboxInv

\* What every step of the engine leaves: its record has its fields, and it holds a
\* message exactly between Take and the end of the message's processing.
EngineTyped ==
    /\ DOMAIN engine = {"pc", "msg", "old_tip", "height"}
    /\ engine.msg \in Carried
    /\ engine.pc \in {"head", "wait", "apply", "height", "publish", "stopped"}
    /\ AtRest <=> engine.msg = NoMessage

\* A step of the engine that moves no message.
LEMMA EngineStays ==
    ASSUME InboxInv, EngineTyped', engine'.msg = engine.msg,
           UNCHANGED <<seen, blocks, producer, handled, cleared>>
    PROVE  InboxInv'
<1>1. InboxType'
  BY Zenon DEF InboxInv, InboxType, EngineTyped, Busy
<1>2. SeenKeysBacked'
  BY Zenon DEF InboxInv, SeenKeysBacked
<1>3. Tracked'
  BY Zenon DEF InboxInv, Tracked, Busy, Distinct
<1> QED
  BY <1>1, <1>2, <1>3, Zenon DEF InboxInv

\* The engine starts on the message at the head of the lane.
LEMMA EngineTakes ==
    ASSUME InboxInv, EngineTyped', blocks # <<>>, AtRest,
           blocks' = Tail(blocks), engine'.msg = Head(blocks),
           UNCHANGED <<seen, producer, handled, cleared>>
    PROVE  InboxInv'
<1>0. blocks \in Seq(Message) /\ engine.msg = NoMessage
  BY Zenon DEF InboxInv, InboxType
<1>1. /\ Head(blocks) \in Message /\ blocks' \in Seq(Message)
      /\ Range(blocks) = {Head(blocks)} \cup Range(blocks')
  BY <1>0, RangeOfTail, Zenon
<1>2. InboxType'
  BY <1>1, Zenon DEF InboxInv, InboxType, EngineTyped, Busy
<1>3. SeenKeysBacked'
  BY <1>0, <1>1, EngineConstants DEF InboxInv, InboxType, SeenKeysBacked
<1>4. Tracked'
  <2> SUFFICES ASSUME ~cleared PROVE Tracked'
    BY Zenon DEF Tracked
  <2>1. Distinct(blocks') /\ Head(blocks) \notin Range(blocks')
    BY <1>0, DistinctTail, Zenon DEF InboxInv, Tracked
  <2> QED
    BY <1>0, <1>1, <2>1, Zenon DEF InboxInv, Tracked, Busy
<1> QED
  BY <1>2, <1>3, <1>4, Zenon DEF InboxInv

\* A transaction is handled in the step that takes it off the lane.
LEMMA EngineHandlesAtOnce ==
    ASSUME InboxInv, EngineTyped', blocks # <<>>, AtRest,
           blocks' = Tail(blocks), engine'.msg = NoMessage, handled' = handled \cup {Head(blocks)},
           UNCHANGED <<seen, producer, cleared>>
    PROVE  InboxInv'
<1>0. blocks \in Seq(Message) /\ engine.msg = NoMessage /\ handled \subseteq Message
  BY Zenon DEF InboxInv, InboxType
<1>1. /\ Head(blocks) \in Message /\ blocks' \in Seq(Message)
      /\ Range(blocks) = {Head(blocks)} \cup Range(blocks')
  BY <1>0, RangeOfTail, Zenon
<1>2. InboxType'
  BY <1>0, <1>1, Zenon DEF InboxInv, InboxType, EngineTyped, Busy
<1>3. SeenKeysBacked'
  BY <1>0, <1>1, Zenon DEF InboxInv, SeenKeysBacked
<1>4. Tracked'
  <2> SUFFICES ASSUME ~cleared PROVE Tracked'
    BY Zenon DEF Tracked
  <2>1. Distinct(blocks') /\ Head(blocks) \notin Range(blocks')
    BY <1>0, DistinctTail, Zenon DEF InboxInv, Tracked
  <2> QED
    BY <1>0, <1>1, <2>1, EngineConstants, Zenon DEF InboxInv, Tracked, Busy
<1> QED
  BY <1>2, <1>3, <1>4, Zenon DEF InboxInv

\* The engine is done with the message it holds.
LEMMA EngineHandles ==
    ASSUME InboxInv, EngineTyped', ~AtRest,
           engine'.msg = NoMessage, handled' = handled \cup {engine.msg},
           UNCHANGED <<seen, blocks, producer, cleared>>
    PROVE  InboxInv'
<1>0. /\ blocks \in Seq(Message) /\ engine.msg \in Message /\ handled \subseteq Message
      /\ \A p \in Producer : Busy(p) => producer[p].msg \in Message
  BY Zenon DEF InboxInv, InboxType, Carried
<1>1. NoMessage \notin Range(blocks)
  BY <1>0, EngineConstants DEF Range
<1>2. InboxType'
  BY <1>0, Zenon DEF InboxInv, InboxType, EngineTyped, Busy
<1>3. SeenKeysBacked'
  BY Zenon DEF InboxInv, SeenKeysBacked
<1>4. Tracked'
  BY <1>0, <1>1, EngineConstants, Zenon DEF InboxInv, Tracked, Busy, Distinct
<1> QED
  BY <1>2, <1>3, <1>4, Zenon DEF InboxInv

\* The engine at the top of its loop is typed.
LEMMA HeadTyped == ASSUME engine' = AtHead PROVE EngineTyped' /\ engine'.msg = NoMessage
  BY Zenon DEF AtHead, EngineTyped, AtRest, Carried

\* Every step of the engine is one of these four.
LEMMA EngineStepKeeps ==
    ASSUME InboxInv, EngineStep
    PROVE  InboxInv'
<1>0. /\ DOMAIN engine = {"pc", "msg", "old_tip", "height"} /\ engine.msg \in Carried
      /\ engine.pc \in {"head", "wait", "apply", "height", "publish", "stopped"}
      /\ AtRest <=> engine.msg = NoMessage
  BY Zenon DEF InboxInv, InboxType
<1>1. CASE CheckFlag
  <2>1. DOMAIN engine' = DOMAIN engine /\ engine'.msg = engine.msg /\ engine'.pc \in {"wait", "stopped"}
    BY <1>0, <1>1, Zenon DEF CheckFlag
  <2>2. EngineTyped'
    BY <1>0, <1>1, <2>1, Zenon DEF EngineTyped, AtRest, CheckFlag
  <2> QED
    BY <1>1, <2>1, <2>2, EngineStays, Zenon DEF CheckFlag, inboxAndMiner
<1>2. CASE Take
  <2>1. AtRest /\ blocks # <<>> /\ blocks' = Tail(blocks) /\ UNCHANGED <<seen, producer, cleared>>
    BY <1>2, Zenon DEF Take, AtRest, inboxAndMiner
  <2>2. CASE Head(blocks).kind = "tx"
    <3>1. engine' = AtHead /\ handled' = handled \cup {Head(blocks)}
      BY <1>2, <2>2, Zenon DEF Take
    <3> QED
      BY <2>1, <3>1, HeadTyped, EngineHandlesAtOnce, Zenon
  <2>3. CASE Head(blocks).kind # "tx"
    <3>1. /\ engine' = [engine EXCEPT !.pc = "apply", !.msg = Head(blocks), !.old_tip = tip]
          /\ handled' = handled
      BY <1>2, <2>3, Zenon DEF Take
    <3>2. DOMAIN engine' = DOMAIN engine /\ engine'.msg = Head(blocks) /\ engine'.pc = "apply"
      BY <1>0, <3>1, Zenon
    <3>3. Head(blocks) \in Message
      BY <2>1, RangeOfTail, Zenon DEF InboxInv, InboxType
    <3>4. EngineTyped'
      BY <1>0, <3>2, <3>3, EngineConstants, Zenon DEF EngineTyped, AtRest, Carried
    <3> QED
      BY <2>1, <3>1, <3>2, <3>4, EngineTakes, Zenon
  <2> QED
    BY <2>2, <2>3, Zenon
<1>3. CASE Tick
  <2>1. engine.msg = NoMessage
    BY <1>0, <1>3, Zenon DEF Tick, AtRest
  <2> QED
    BY <1>3, <2>1, HeadTyped, EngineStays, Zenon DEF Tick, inboxAndMiner
<1>4. CASE Apply
  <2>1. ~AtRest /\ UNCHANGED <<seen, blocks, producer, cleared>>
    BY <1>4, Zenon DEF Apply, AtRest, inboxAndMiner
  <2>2. CASE Accepts(engine.msg)
    <3>1. engine' = [engine EXCEPT !.pc = "height"] /\ handled' = handled
      BY <1>4, <2>2, Zenon DEF Apply
    <3>2. DOMAIN engine' = DOMAIN engine /\ engine'.msg = engine.msg /\ engine'.pc = "height"
      BY <1>0, <3>1, Zenon
    <3>3. EngineTyped'
      BY <1>0, <2>1, <3>2, Zenon DEF EngineTyped, AtRest
    <3> QED
      BY <2>1, <3>1, <3>2, <3>3, EngineStays, Zenon
  <2>3. CASE ~Accepts(engine.msg)
    <3>1. engine' = AtHead /\ handled' = handled \cup {engine.msg}
      BY <1>4, <2>3, Zenon DEF Apply
    <3> QED
      BY <2>1, <3>1, HeadTyped, EngineHandles, Zenon
  <2> QED
    BY <2>2, <2>3, Zenon
<1>5. CASE ReadHeight
  <2>1. DOMAIN engine' = DOMAIN engine /\ engine'.msg = engine.msg /\ engine'.pc = "publish"
    BY <1>0, <1>5, Zenon DEF ReadHeight
  <2>2. EngineTyped'
    BY <1>0, <1>5, <2>1, Zenon DEF EngineTyped, AtRest, ReadHeight
  <2> QED
    BY <1>5, <2>1, <2>2, EngineStays, Zenon DEF ReadHeight, inboxAndMiner
<1>6. CASE Publish
  <2>1. ~AtRest
    BY <1>6, Zenon DEF Publish, AtRest
  <2> QED
    BY <1>6, <2>1, HeadTyped, EngineHandles, Zenon DEF Publish, inboxAndMiner
<1> QED
  BY <1>1, <1>2, <1>3, <1>4, <1>5, <1>6, Zenon DEF EngineStep

\* Every step of producers, engine, mining worker and node keeps the invariant.
LEMMA NextInboxInv == InboxInv /\ [Next]_vars => InboxInv'
<1> SUFFICES ASSUME InboxInv, [Next]_vars PROVE InboxInv'
  BY Zenon
<1>1. CASE \E p \in Producer : (\E m \in Message : Reserve(p, m)) \/ Send(p) \/ Release(p)
  BY <1>1, ReserveKeeps, SendKeeps, ReleaseKeeps, Zenon
<1>2. CASE \E p \in Connection : BanExpires(p)
  BY <1>2, ElsewhereKeeps, Zenon DEF BanExpires
<1>3. CASE EngineStep
  BY <1>3, EngineStepKeeps, Zenon
<1>4. CASE \E b \in MinerBlock : Mine(b)
  BY <1>4, ElsewhereKeeps, Zenon DEF Mine
<1>5. CASE Shutdown
  BY <1>5, ElsewhereKeeps, Zenon DEF Shutdown
<1>6. CASE UNCHANGED vars
  BY <1>6, ElsewhereKeeps, Zenon DEF vars
<1> QED
  BY <1>1, <1>2, <1>3, <1>4, <1>5, <1>6, Zenon DEF Next

\* The invariant holds of every behaviour of the inbox and its engine.
LEMMA InboxInvariant == Spec => []InboxInv
  BY InitInboxInv, NextInboxInv, PTL DEF Spec

\* As many messages as places.
LEMMA DistinctCounts ==
    ASSUME NEW s \in Seq(Message), Distinct(s)
    PROVE  Cardinality(Range(s)) = Len(s)
<1>1. Len(s) \in Nat /\ DOMAIN s = 1..Len(s)
  OBVIOUS
<1>2. s \in Bijection(1..Len(s), Range(s))
  BY <1>1 DEF Distinct, Range, Bijection, Injection, Surjection, IsInjective
<1>3. ExistsBijection(1..Len(s), Range(s))
  BY <1>2, Zenon DEF ExistsBijection
<1> QED
  BY <1>1, <1>3, FS_CountingElements, Zenon

\* A message dropped at a full or closed lane, or refused by the engine's end, leaves no
\* key behind: whatever the seen-set holds is held by a producer, queued, in work or
\* handled, for any number of producers between reserve, try_send and release.
THEOREM KeysAreBacked == Spec => []SeenKeysBacked
<1>1. InboxInv => SeenKeysBacked
  BY Zenon DEF InboxInv
<1> QED
  BY <1>1, InboxInvariant, PTL

\* Until SeenCache clears itself on overflow, the engine processes no message twice,
\* for any capacities, messages and producers.
THEOREM MessagesProcessedOnce == Spec => []ProcessedOnce
<1>1. InboxInv => ProcessedOnce
  <2> SUFFICES ASSUME InboxInv, ~cleared PROVE ProcessedOnce
    BY Zenon DEF ProcessedOnce
  <2>1. Cardinality(Range(blocks)) = Len(blocks)
    BY DistinctCounts, Zenon DEF InboxInv, InboxType, Tracked
  <2> QED
    BY <2>1, Zenon DEF InboxInv, Tracked, ProcessedOnce
<1> QED
  BY <1>1, InboxInvariant, PTL

(***************************************************************************)
(* What the engine announces.                                              *)
(***************************************************************************)
\* The change of tip the engine made and has not reported yet.
Unreported ==
    IF engine.pc \in {"height", "publish"} /\ ~chain_contains_block(tip, engine.old_tip)
    THEN {<<engine.old_tip, tip>>} ELSE {}

\* Unless a block was mined between the engine's reads of one message: it applies to the
\* tip it saw, owes the report of at most the change it made, and its height is the
\* tip's; whatever else is the tip was announced or mined.
ReportsInv ==
    ~raced =>
       /\ engine.pc = "apply" => engine.old_tip = tip
       /\ engine.pc = "publish" => engine.height = chain_len(tip) - 1
       /\ forks = reorged \cup Unreported
       /\ \A e \in applied : e[1] = chain_len(e[2]) - 1
       /\ engine.pc \notin {"height", "publish"} =>
             tip \in {Root} \cup MinerBlock \cup {e[2] : e \in applied}

\* No step of a producer or of the node disturbs the reports.
LEMMA ReportsElsewhere ==
    ASSUME ReportsInv, UNCHANGED <<tip, engine, applied, reorged, forks, raced>>
    PROVE  ReportsInv'
BY Zenon DEF ReportsInv, Unreported

\* The mining worker: between messages its block becomes the tip, otherwise it is noted.
LEMMA MineReports ==
    ASSUME InboxInv, ReportsInv, NEW b \in MinerBlock, Mine(b)
    PROVE  ReportsInv'
<1> SUFFICES ASSUME ~raced' PROVE ReportsInv'
  BY Zenon DEF ReportsInv
<1>1. /\ ~raced /\ engine.pc \notin {"apply", "height", "publish"} /\ tip' = b
      /\ UNCHANGED <<engine, applied, reorged, forks>>
  BY Zenon DEF Mine, events
<1> QED
  BY <1>1, Zenon DEF ReportsInv, Unreported

\* The steps of the engine.
LEMMA EngineReports ==
    ASSUME InboxInv, ReportsInv, EngineStep
    PROVE  ReportsInv'
<1> SUFFICES ASSUME ~raced' PROVE ReportsInv'
  BY Zenon DEF ReportsInv
<1>0. /\ ~raced /\ DOMAIN engine = {"pc", "msg", "old_tip", "height"}
      /\ engine.pc \in {"head", "wait", "apply", "height", "publish", "stopped"}
  BY DEF InboxInv, InboxType, EngineStep, CheckFlag, Take, Tick, Apply, ReadHeight, Publish, inboxAndMiner
<1>1. CASE CheckFlag \/ Tick
  <2>1. /\ engine.pc \in {"head", "wait"} /\ engine'.pc \in {"head", "wait", "stopped"}
        /\ UNCHANGED <<tip, applied, reorged, forks>>
    BY <1>0, <1>1 DEF CheckFlag, Tick, AtHead, events
  <2> QED
    BY <1>0, <2>1, Zenon DEF ReportsInv, Unreported
<1>2. CASE Take
  <2>1. /\ engine.pc = "wait" /\ UNCHANGED <<tip, applied, reorged, forks>>
        /\ \/ engine' = AtHead
           \/ engine' = [engine EXCEPT !.pc = "apply", !.msg = Head(blocks), !.old_tip = tip]
    BY <1>2, Zenon DEF Take, events
  <2>2. engine'.pc = "head" \/ (engine'.pc = "apply" /\ engine'.old_tip = tip)
    <3>1. CASE engine' = AtHead
      BY <3>1, Zenon DEF AtHead
    <3>2. CASE engine' = [engine EXCEPT !.pc = "apply", !.msg = Head(blocks), !.old_tip = tip]
      BY <1>0, <3>2, Zenon
    <3> QED
      BY <2>1, <3>1, <3>2, Zenon
  <2> QED
    BY <1>0, <2>1, <2>2, Zenon DEF ReportsInv, Unreported
<1>3. CASE Apply
  <2>1. engine.pc = "apply" /\ UNCHANGED <<applied, reorged>>
    BY <1>3, Zenon DEF Apply, events
  <2>2. CASE Accepts(engine.msg)
    <3>1. /\ forks' = IF chain_contains_block(tip', tip) THEN forks ELSE forks \cup {<<tip, tip'>>}
          /\ engine' = [engine EXCEPT !.pc = "height"]
      BY <1>3, <2>2, Zenon DEF Apply
    <3>2. engine'.pc = "height" /\ engine'.old_tip = tip
      BY <1>0, <2>1, <3>1, Zenon DEF ReportsInv
    <3>3. forks = reorged
      BY <1>0, <2>1, Zenon DEF ReportsInv, Unreported
    <3>4. forks' = reorged' \cup Unreported'
      BY <2>1, <3>1, <3>2, <3>3, Zenon DEF Unreported, chain_contains_block
    <3> QED
      BY <1>0, <2>1, <3>2, <3>4, Zenon DEF ReportsInv
  <2>3. CASE ~Accepts(engine.msg)
    <3>1. UNCHANGED <<tip, forks>> /\ engine'.pc = "head"
      BY <1>3, <2>3 DEF Apply, AtHead
    <3> QED
      BY <1>0, <2>1, <3>1, Zenon DEF ReportsInv, Unreported
  <2> QED
    BY <2>2, <2>3, Zenon
<1>4. CASE ReadHeight
  <2>1. /\ engine.pc = "height" /\ UNCHANGED <<tip, applied, reorged, forks>>
        /\ engine' = [engine EXCEPT !.pc = "publish", !.height = chain_len(tip) - 1]
    BY <1>4, Zenon DEF ReadHeight, events
  <2>2. /\ engine'.pc = "publish" /\ engine'.height = chain_len(tip) - 1
        /\ engine'.old_tip = engine.old_tip
    BY <1>0, <2>1, Zenon
  <2>3. Unreported' = Unreported
    BY <2>1, <2>2, Zenon DEF Unreported, chain_contains_block
  <2> QED
    BY <1>0, <2>1, <2>2, <2>3, Zenon DEF ReportsInv
<1>5. CASE Publish
  <2>1. /\ engine.pc = "publish" /\ UNCHANGED <<tip, forks>> /\ engine'.pc = "head"
        /\ reorged' = IF chain_contains_block(tip, engine.old_tip)
                      THEN reorged ELSE reorged \cup {<<engine.old_tip, tip>>}
        /\ applied' = applied \cup {<<engine.height, tip>>}
    BY <1>5, Zenon DEF Publish, AtHead
  <2>2. forks' = reorged' \cup Unreported'
    BY <1>0, <2>1, Zenon DEF ReportsInv, Unreported
  <2>3. engine.height = chain_len(tip) - 1
    BY <1>0, <2>1, Zenon DEF ReportsInv
  <2>4. \A e \in applied' : e[1] = chain_len(e[2]) - 1
    BY <1>0, <2>1, <2>3 DEF ReportsInv
  <2>5. tip' \in {e[2] : e \in applied'}
    <3> DEFINE e == <<engine.height, tip>>
    <3>1. e \in applied' /\ e[2] = tip'
      BY <2>1, Zenon
    <3> HIDE DEF e
    <3> QED
      BY <3>1, Zenon
  <2> QED
    BY <2>1, <2>2, <2>4, <2>5, Zenon DEF ReportsInv
<1> QED
  BY <1>1, <1>2, <1>3, <1>4, <1>5, Zenon DEF EngineStep

\* The engine's announcements tell the truth, whatever blocks and chains arrive, as
\* long as the mining worker does not come between the reads of one message.
THEOREM AnnouncementsAreTrue == Spec => []AnnouncementsTrue
<1>1. Init => ReportsInv
  BY DEF Init, ReportsInv, Unreported, AtHead
<1>2. InboxInv /\ ReportsInv /\ [Next]_vars => ReportsInv'
  <2> SUFFICES ASSUME InboxInv, ReportsInv, [Next]_vars PROVE ReportsInv'
    BY Zenon
  <2>1. CASE \E p \in Producer : (\E m \in Message : Reserve(p, m)) \/ Send(p) \/ Release(p)
    BY <2>1, ReportsElsewhere, Zenon DEF Reserve, Send, Release, events
  <2>2. CASE \E p \in Connection : BanExpires(p)
    BY <2>2, ReportsElsewhere, Zenon DEF BanExpires, events
  <2>3. CASE EngineStep
    BY <2>3, EngineReports, Zenon
  <2>4. CASE \E b \in MinerBlock : Mine(b)
    BY <2>4, MineReports, Zenon
  <2>5. CASE Shutdown
    BY <2>5, ReportsElsewhere, Zenon DEF Shutdown, events
  <2>6. CASE UNCHANGED vars
    BY <2>6, ReportsElsewhere, Zenon DEF vars, events
  <2> QED
    BY <2>1, <2>2, <2>3, <2>4, <2>5, <2>6, Zenon DEF Next
<1>3. ReportsInv => AnnouncementsTrue
  BY Zenon DEF ReportsInv, Unreported, AnnouncementsTrue, AtRest
<1>4. Spec => []ReportsInv
  BY <1>1, <1>2, InboxInvariant, PTL DEF Spec
<1> QED
  BY <1>3, <1>4, PTL
==============================================================================
