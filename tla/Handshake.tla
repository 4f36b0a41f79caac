------------------------------ MODULE Handshake ------------------------------
(***************************************************************************)
(* One session from the TCP connect to registration: the Noise XX rounds   *)
(* with signed identities (noise/handshake.rs, noise/auth.rs), the HELLO   *)
(* exchange (protocol/hello.rs) and the two drivers in peer/manager.rs.    *)
(*                                                                         *)
(* Cryptography is symbolic: the handshake hash is the transcript of the   *)
(* messages so far, a signature is a record of the signer and what was     *)
(* signed.  Reads may time out.  Whatever fails closes the socket, and the *)
(* other side reads an end of file after what is on its way.               *)
(***************************************************************************)
EXTENDS Naturals, Sequences

CONSTANTS
    Identities,         \* node ids
    NoNode,             \* no expectation, no peer yet
    Capabilities,       \* capability bits
    NetworkIds, Versions, MIN_PROTO_VERSION

Roles == {"initiator", "responder"}
Other(r) == IF r = "initiator" THEN "responder" ELSE "initiator"

VARIABLES
    who,      \* per role: identity, network, version, capabilities
    hs,       \* per role: NoiseHandshake and the driver's progress
    line      \* per role: messages on their way to it

handshake_vars == <<who, hs, line>>

NewSide == [pc |-> "round1", transcript |-> << >>, reads |-> 0, writes |-> 0,
            peer |-> NoNode, caps |-> {}, violation |-> FALSE]

\* The dialer may pin the identity it learned for the address; the node that
\* answers may be another one, or the dialer itself.
HandshakeInit ==
    /\ who \in [Roles -> [id : Identities, expected : Identities \cup {NoNode},
                          network : NetworkIds, version : Versions, caps : SUBSET Capabilities]]
    /\ who["responder"].expected = NoNode
    /\ who["initiator"].expected # who["initiator"].id
    /\ hs = [r \in Roles |-> NewSide]
    /\ line = [r \in Roles |-> << >>]

(***************************************************************************)
(* NoiseHandshake                                                          *)
(***************************************************************************)
should_sign(r) == hs[r].writes = IF r = "initiator" THEN 1 ELSE 0

should_verify(r) == hs[r].reads = IF r = "initiator" THEN 0 ELSE 1

Signature(r) == [signer |-> who[r].id, over |-> hs[r].transcript]

\* write_message: the auth blob signs the hash as it stood before the message.
Message(r) ==
    [round |-> Len(hs[r].transcript) + 1, auth |-> IF should_sign(r) THEN <<Signature(r)>> ELSE << >>]

\* Mutant: any identity with a valid signature will do.
VerifySignatureOnly(r, m) == m.auth # << >> /\ Head(m.auth).over = hs[r].transcript

\* verify_peer_identity, against the hash before the message and the pin.
verify_peer_identity(r, m) ==
    /\ m.auth # << >> /\ Head(m.auth).over = hs[r].transcript
    /\ who[r].expected \in {NoNode, Head(m.auth).signer}

Wrote(r, m) == [hs[r] EXCEPT !.transcript = Append(@, m), !.writes = @ + 1]
Read(r, m) ==
    [hs[r] EXCEPT !.transcript = Append(@, m), !.reads = @ + 1,
                  !.peer = IF should_verify(r) THEN Head(m.auth).signer ELSE @]

is_finished(side) == Len(side.transcript) = 3

Eof == [round |-> 0, auth |-> << >>]

\* Mutant: the socket is kept.
KeepsSocket(r, l) == l

\* The socket closes; the other side will read an end of file.
EofTo(r, l) == [l EXCEPT ![r] = Append(@, Eof)]
\* A responder that does not get a valid HELLO, for whatever reason, files an
\* unverified record of the peer and a protocol violation against it.
FailedSide(r) ==
    [hs[r] EXCEPT !.pc = "failed", !.violation = (r = "responder" /\ hs[r].pc = "hello")]
Fail(r) ==
    /\ hs' = [hs EXCEPT ![r] = FailedSide(r)]
    /\ line' = EofTo(Other(r), [line EXCEPT ![r] = << >>])
    /\ UNCHANGED who

(***************************************************************************)
(* drive_initiator_handshake, drive_responder_handshake                    *)
(***************************************************************************)
\* What a side does in each of its rounds, and what comes next.
Writes(r) == {k \in 1..3 : (k = 2) = (r = "responder")}
Step(k) == <<"round1", "round2", "round3", "admission">>[k]

WriteRound(r) ==
    /\ \E k \in Writes(r) :
          /\ hs[r].pc = Step(k)
          /\ hs' = [hs EXCEPT ![r] = [Wrote(r, Message(r)) EXCEPT !.pc = Step(k + 1)]]
    /\ line' = [line EXCEPT ![Other(r)] = Append(@, Message(r))]
    /\ UNCHANGED who

ReadRound(r) ==
    /\ line[r] # << >> /\ Head(line[r]) # Eof
    /\ \E k \in 1..3 \ Writes(r) :
          LET m == Head(line[r])
              ok == ~should_verify(r) \/ verify_peer_identity(r, m)
          IN  /\ hs[r].pc = Step(k)
              /\ \/ /\ ok
                    /\ hs' = [hs EXCEPT ![r] = [Read(r, m) EXCEPT !.pc = Step(k + 1)]]
                    /\ line' = [line EXCEPT ![r] = Tail(@)] /\ UNCHANGED who
                 \/ ~ok /\ Fail(r)

(***************************************************************************)
(* HELLO: the initiator writes first                                       *)
(***************************************************************************)
Hello(r) == [version |-> who[r].version, network |-> who[r].network, caps |-> who[r].caps]

validate_hello(r, hello) ==
    hello.version >= MIN_PROTO_VERSION /\ hello.network = who[r].network

negotiate_capabilities(mine, theirs) == mine \cap theirs

\* into_transport needs a finished handshake and an authenticated peer.
into_transport(r) == is_finished(hs[r]) /\ hs[r].peer # NoNode

\* With the identity known, bans and caps are checked again before any HELLO.
Admission(r) ==
    /\ hs[r].pc = "admission" /\ into_transport(r)
    /\ \/ hs' = [hs EXCEPT ![r].pc = "hello"] /\ UNCHANGED <<who, line>>
       \/ Fail(r)

WriteHello(r) ==
    /\ r = "initiator" /\ hs[r].pc = "hello"
    /\ hs' = [hs EXCEPT ![r].pc = "await hello"]
    /\ line' = [line EXCEPT ![Other(r)] = Append(@, Hello(r))]
    /\ UNCHANGED who

Registered(r, hello) ==
    [hs[r] EXCEPT !.caps = negotiate_capabilities(who[r].caps, hello.caps), !.pc = "registered"]

\* register_connection refuses the node itself, and may refuse for a ban or a
\* full pool that came up meanwhile.
MayRegister(r) == hs[r].peer # who[r].id

\* The responder answers a valid HELLO with its own before it registers.
ReadHello(r) ==
    /\ hs[r].pc = IF r = "initiator" THEN "await hello" ELSE "hello"
    /\ line[r] # << >> /\ Head(line[r]) # Eof
    /\ LET hello == Head(line[r])
           answered == IF r = "responder" THEN <<Hello(r)>> ELSE << >>
       IN  \/ ~validate_hello(r, hello) /\ Fail(r)
           \/ /\ validate_hello(r, hello) /\ MayRegister(r)
              /\ hs' = [hs EXCEPT ![r] = Registered(r, hello)]
              /\ line' = [line EXCEPT ![r] = Tail(@), ![Other(r)] = @ \o answered]
              /\ UNCHANGED who
           \/ /\ validate_hello(r, hello)
              /\ hs' = [hs EXCEPT ![r].pc = "failed"]
              /\ line' = EofTo(Other(r), [line EXCEPT ![r] = << >>, ![Other(r)] = @ \o answered])
              /\ UNCHANGED who

(***************************************************************************)
(* Ends                                                                    *)
(***************************************************************************)
Reading(r) ==
    \/ \E k \in 1..3 \ Writes(r) : hs[r].pc = Step(k)
    \/ hs[r].pc = IF r = "initiator" THEN "await hello" ELSE "hello"

\* IO_TIMEOUT of a read: nothing has come.
TimedOut(r) == Reading(r) /\ line[r] = << >> /\ Fail(r)

\* An end of file fails the handshake or ends the connection loop.
ReadEof(r) ==
    /\ Reading(r) \/ hs[r].pc = "registered"
    /\ line[r] # << >> /\ Head(line[r]) = Eof
    /\ hs' = [hs EXCEPT ![r] = IF @.pc = "registered" THEN [@ EXCEPT !.pc = "closed"] ELSE FailedSide(r)]
    /\ line' = EofTo(Other(r), [line EXCEPT ![r] = << >>])
    /\ UNCHANGED who

HandshakeNext ==
    \E r \in Roles :
        \/ WriteRound(r) \/ ReadRound(r) \/ Admission(r) \/ WriteHello(r) \/ ReadHello(r)
        \/ TimedOut(r) \/ ReadEof(r)

\* Tasks run, bytes on the line arrive, and a read of a silent line times out.
HandshakeFairness ==
    \A r \in Roles : /\ WF_handshake_vars(\/ WriteRound(r) \/ ReadRound(r) \/ Admission(r)
                                           \/ WriteHello(r) \/ ReadHello(r))
                     /\ WF_handshake_vars(ReadEof(r)) /\ WF_handshake_vars(TimedOut(r))

HandshakeSpec == HandshakeInit /\ [][HandshakeNext]_handshake_vars /\ HandshakeFairness

(***************************************************************************)
(* Properties                                                              *)
(***************************************************************************)
\* The counters follow the transcript, and no transport exists without a
\* finished handshake and an authenticated peer.
HandshakeTypeOK ==
    \A r \in Roles :
        /\ hs[r].reads + hs[r].writes = Len(hs[r].transcript)
        /\ hs[r].peer \in Identities \cup {NoNode} /\ hs[r].caps \subseteq Capabilities
        /\ hs[r].pc \in {"admission", "hello", "await hello", "registered"} => into_transport(r)

\* Both sides of a session agree on it: each files it under the identity at the other
\* end, which is the one it pinned if it pinned one and never its own; the peer is of
\* the same network and of a supported version; both speak the same capabilities.
SessionsAgree ==
    \A r \in Roles : hs[r].pc = "registered" =>
        /\ hs[r].peer = who[Other(r)].id
        /\ who[r].expected \in {NoNode, hs[r].peer}
        /\ hs[r].peer # who[r].id
        /\ who[Other(r)].network = who[r].network /\ who[Other(r)].version >= MIN_PROTO_VERSION
        /\ hs[r].caps = who["initiator"].caps \cap who["responder"].caps

\* No session stays half open: both sides register, or both end.
NoHalfOpenSession ==
    <>[](\/ \A r \in Roles : hs[r].pc = "registered"
         \/ \A r \in Roles : hs[r].pc \in {"failed", "closed"})

==============================================================================
