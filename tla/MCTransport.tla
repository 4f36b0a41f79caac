----------------------------- MODULE MCTransport -----------------------------
(***************************************************************************)
(* The transport's machines, each on a small instance: the handshake, an   *)
(* established session and headers-first sync.  They share no state; a     *)
(* behaviour runs the one that `machine` names, the others rest in a final *)
(* state.                                                                  *)
(***************************************************************************)
EXTENDS HeadersSync, Session, Handshake

CONSTANTS alice, bob, carol

VARIABLE machine

all == <<machine, headers_vars, session_vars, handshake_vars>>

\* Payload 2 takes two Noise parts.
MCParts == <<1, 2>>

\* A tree with two branches and a foreign genesis (7).  The longer branch ends in
\* a header without proof of work (4), the heavier one in a bad body (8).
MCChains == << <<1>>, <<1, 2>>, <<1, 2, 3>>, <<1, 2, 3, 4>>, <<1, 5>>, <<1, 5, 6>>, <<7>>, <<1, 5, 6, 8>> >>
MCTotalWork == <<1, 2, 3, 4, 2, 4, 9, 6>>
MCTimestamp == <<1, 2, 3, 4, 2, 3, 1, 4>>
MCDefect == [b \in 1..8 |-> IF b = 4 THEN "pow" ELSE IF b = 8 THEN "body" ELSE "none"]
MCRemotes == {<<1>>, <<7>>}

SyncStopped ==
    /\ chain = <<GenesisBlock>> /\ remote = <<GenesisBlock>> /\ round = IdleRound
    /\ inbox = << >> /\ timeouts = 0 /\ stop = TRUE

HandshakeOver ==
    /\ who = [r \in Roles |-> [id |-> IF r = "initiator" THEN alice ELSE bob, expected |-> NoNode,
                               network |-> 1, version |-> MIN_PROTO_VERSION, caps |-> {}]]
    /\ hs = [r \in Roles |-> [NewSide EXCEPT !.pc = "failed"]]
    /\ line = [r \in Roles |-> << >>]

Init ==
    /\ machine \in {"sync", "session", "handshake"}
    /\ IF machine = "sync" THEN HeadersInit ELSE SyncStopped
    /\ SessionInit /\ (machine # "session" => ~rx.open)
    \* Identities are interchangeable: alice dials.
    /\ IF machine = "handshake" THEN HandshakeInit /\ who["initiator"].id = alice ELSE HandshakeOver

Next ==
    /\ UNCHANGED machine
    /\ \/ machine = "sync" /\ HeadersNext /\ UNCHANGED <<session_vars, handshake_vars>>
       \/ machine = "session" /\ SessionNext /\ UNCHANGED <<headers_vars, handshake_vars>>
       \/ machine = "handshake" /\ HandshakeNext /\ UNCHANGED <<headers_vars, session_vars>>

\* The fairness of each machine; one at rest has no fair action to take.
MCSpec == Init /\ [][Next]_all /\ HeadersFairness /\ SessionFairness /\ HandshakeFairness
==============================================================================
