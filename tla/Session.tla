------------------------------- MODULE Session -------------------------------
(***************************************************************************)
(* One direction of a registered session: Connection::send_payload         *)
(* (peer/pool.rs), encrypt_frame and decrypt_frame (protocol.rs), the      *)
(* nonce discipline of NoiseTransport (noise/transport.rs) and the read    *)
(* side of run_connection (peer/connection_loop.rs).                       *)
(*                                                                         *)
(* A frame is a length cell and one cell per Noise part; the socket holds  *)
(* a bounded number of cells.  The select! of the connection loop makes a  *)
(* new read future in every iteration, so a tick of the shutdown interval  *)
(* drops the future with whatever it has consumed, and restarts its clock. *)
(***************************************************************************)
EXTENDS Naturals, Sequences

CONSTANTS
    Senders,             \* tasks that send on this connection
    Parts,               \* payload -> number of Noise parts
    MaxSends,            \* bound: payloads sent in a behaviour
    SocketCapacity,      \* cells the socket takes before WouldBlock
    SHUTDOWN_POLL, FIRST_READ_TIMEOUT, IDLE_READ_TIMEOUT

Messages == DOMAIN Parts

\* A payload, the empty one included, takes at least one part.
ASSUME SessionAssumption ==
    /\ SHUTDOWN_POLL > 0 /\ SocketCapacity > 0
    /\ Parts \in [Messages -> Nat \ {0}]

VARIABLES
    tx,           \* sending end: frame being written per sender, send_nonce, the payloads
                  \* encrypted and the nonce each began with
    socket,       \* cells on their way
    rx,           \* reading end: the read future, recv_nonce, payloads dispatched
    since_tick,   \* time since the shutdown interval last fired
    faults        \* what has gone wrong so far

session_vars == <<tx, socket, rx, since_tick, faults>>

LengthCell(n) == [kind |-> "len", n |-> n]
PartCell(nonce) == [kind |-> "part", n |-> nonce]
Torn == [kind |-> "torn", n |-> 0]      \* what is left of a cell read in part

\* The loop does not start when the read half was claimed before.
SessionInit ==
    /\ tx = [frame |-> [s \in Senders |-> << >>], send_nonce |-> 0,
             sent |-> << >>, starts |-> << >>]
    /\ socket = << >>
    /\ \E open \in BOOLEAN :
          rx = [buf |-> << >>, age |-> 0, first_frame |-> TRUE, recv_nonce |-> 0,
                delivered |-> << >>, open |-> open]
    /\ since_tick = 0 /\ faults = IF rx.open THEN {} ELSE {"stopped"}

(***************************************************************************)
(* send_payload                                                            *)
(***************************************************************************)
encrypt_frame(m) ==
    <<LengthCell(Parts[m])>> \o [i \in 1..Parts[m] |-> PartCell(tx.send_nonce + i - 1)]

\* Mutant: the transport lock is only held for the encryption.
LockFreeAlways == TRUE

\* The transport lock is held from the encryption to the end of the write loop.
TransportFree == \A s \in Senders : tx.frame[s] = << >>

Encrypt(s, m) ==
    /\ tx.frame[s] = << >> /\ TransportFree /\ Len(tx.sent) < MaxSends
    /\ tx' = [tx EXCEPT !.frame[s] = encrypt_frame(m), !.send_nonce = @ + Parts[m],
                        !.sent = Append(@, m), !.starts = Append(@, tx.send_nonce)]
    /\ UNCHANGED <<socket, rx, since_tick, faults>>

\* Mutant: a short write counts as success.
TryWriteOnce(s) ==
    /\ tx.frame[s] # << >> /\ rx.open /\ Len(socket) < SocketCapacity
    /\ socket' = Append(socket, Head(tx.frame[s]))
    /\ tx' = [tx EXCEPT !.frame[s] = << >>]
    /\ UNCHANGED <<rx, since_tick, faults>>

\* try_write takes what fits.  WouldBlock, or a closed socket, is an error: the
\* rest of the frame is dropped, its nonces are spent.
TryWrite(s) ==
    /\ tx.frame[s] # << >>
    /\ IF rx.open /\ Len(socket) < SocketCapacity
       THEN /\ socket' = Append(socket, Head(tx.frame[s]))
            /\ tx' = [tx EXCEPT !.frame[s] = Tail(@)]
            /\ UNCHANGED faults
       ELSE /\ tx' = [tx EXCEPT !.frame[s] = << >>]
            /\ faults' = faults \cup {"refused"} /\ UNCHANGED socket
    /\ UNCHANGED <<rx, since_tick>>

(***************************************************************************)
(* The connection loop                                                     *)
(***************************************************************************)
read_budget == IF rx.first_frame THEN FIRST_READ_TIMEOUT ELSE IDLE_READ_TIMEOUT

\* biased: a tick that is due is taken first.
Polled == rx.open /\ since_tick < SHUTDOWN_POLL

\* decrypt_frame: each part must carry exactly the next nonce; a cell that is not
\* a part (a frame cut short, a misread length) does not authenticate.
Decrypts(cells) ==
    /\ cells[1].kind = "len"
    /\ \A i \in DOMAIN Tail(cells) : Tail(cells)[i] = PartCell(rx.recv_nonce + i - 1)

\* The payload a good frame carries: the one whose first part has that nonce.
PayloadAt(nonce) == tx.sent[CHOOSE i \in DOMAIN tx.sent : tx.starts[i] = nonce]

CloseSession == [rx EXCEPT !.open = FALSE, !.first_frame = FALSE, !.buf = << >>]

\* A whole frame was read: dispatch it, or end the session.
FrameRead(cells) ==
    IF Decrypts(cells)
    THEN [rx EXCEPT !.buf = << >>, !.age = 0, !.first_frame = FALSE,
                    !.recv_nonce = cells[Len(cells)].n + 1,
                    !.delivered = Append(@, PayloadAt(cells[2].n))]
    ELSE CloseSession

Wanted(cells) == 1 + IF cells[1].kind = "len" THEN cells[1].n ELSE 1

\* read_length_prefixed_async.  The nonce of a part starts with four zero bytes:
\* read as a length it is 0, too short for a frame.
ReadCell ==
    /\ Polled /\ socket # << >>
    /\ socket' = Tail(socket)
    /\ LET cells == Append(rx.buf, Head(socket))
       IN  rx' = IF cells[1].kind = "part" THEN CloseSession
                 ELSE IF Len(cells) < Wanted(cells) THEN [rx EXCEPT !.buf = cells]
                 ELSE FrameRead(cells)
    /\ UNCHANGED <<tx, since_tick, faults>>

\* The tick drops the read future: the cells it consumed are gone, and so is the
\* part of the next cell it had begun to read.
Tick(torn) ==
    /\ rx.open /\ since_tick = SHUTDOWN_POLL
    /\ torn => socket # << >>
    /\ since_tick' = 0
    /\ rx' = [rx EXCEPT !.buf = << >>, !.age = 0]
    /\ socket' = IF torn THEN <<Torn>> \o Tail(socket) ELSE socket
    /\ faults' = IF torn \/ rx.buf # << >> THEN faults \cup {"cancelled"} ELSE faults
    /\ UNCHANGED tx

\* The loop ends when the read times out or when it finds the shutdown flag set.
LoopEnds(shutdown) ==
    /\ rx.open
    /\ shutdown \/ (Polled /\ socket = << >> /\ rx.age >= read_budget)
    /\ rx' = CloseSession
    /\ faults' = faults \cup {"stopped"}
    /\ UNCHANGED <<tx, socket, since_tick>>

TimePasses ==
    /\ Polled
    /\ since_tick' = since_tick + 1 /\ rx' = [rx EXCEPT !.age = @ + 1]
    /\ UNCHANGED <<tx, socket, faults>>

SessionNext ==
    \/ \E s \in Senders : (\E m \in Messages : Encrypt(s, m)) \/ TryWrite(s)
    \/ ReadCell \/ TimePasses
    \/ \E torn \in BOOLEAN : Tick(torn)
    \/ \E shutdown \in BOOLEAN : LoopEnds(shutdown)

\* Senders finish their write loops, time passes, due ticks are taken, and every
\* new read future is polled once before the next tick.
SessionFairness ==
    /\ \A s \in Senders : WF_session_vars(TryWrite(s))
    /\ WF_session_vars(TimePasses) /\ WF_session_vars(\E torn \in BOOLEAN : Tick(torn))
    /\ SF_session_vars(ReadCell) /\ SF_session_vars(LoopEnds(FALSE))

SessionSpec == SessionInit /\ [][SessionNext]_session_vars /\ SessionFairness

(***************************************************************************)
(* Properties                                                              *)
(***************************************************************************)
\* The nonce that payload i begins with, or will begin with when it is the next one.
StartNonce(i) == IF i > Len(tx.sent) THEN tx.send_nonce ELSE tx.starts[i]

\* Nonces are counted on both sides as parts, the socket keeps to its capacity and
\* the read future to its budget.
SessionTypeOK ==
    /\ \A i \in DOMAIN tx.sent : StartNonce(i + 1) = tx.starts[i] + Parts[tx.sent[i]]
    /\ rx.recv_nonce = StartNonce(Len(rx.delivered) + 1)
    /\ Len(socket) <= SocketCapacity
    /\ since_tick \in 0..SHUTDOWN_POLL /\ rx.age <= SHUTDOWN_POLL

Promise == INSTANCE Channel WITH
    Payloads <- Messages, sent <- tx.sent, delivered <- rx.delivered,
    open <- rx.open, fault <- faults # {}

\* The session keeps the channel's promise (refinement): whatever senders
\* interleave and whatever is refused or dropped half way, payloads are dispatched
\* in encryption order without gap or repetition, and the session only ends after
\* a refused write, a read dropped half way, a timeout or a shutdown.
KeepsChannelPromise == Promise!ChannelSpec

\* As long as nothing goes wrong, every payload encrypted is dispatched.
PayloadsArrive ==
    \A n \in 1..MaxSends :
        Len(tx.sent) >= n ~> (Len(rx.delivered) >= n \/ faults # {})

==============================================================================
