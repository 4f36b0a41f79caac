---------------------------- MODULE SessionProofs ----------------------------
(***************************************************************************)
(* Proofs about one direction of a session, for any payloads, senders, parts*)
(* per payload and capacity of the socket: the session implements Channel. *)
(***************************************************************************)
EXTENDS Session, SequenceTheorems, TLAPS

(***************************************************************************)
(* The inductive invariant                                                 *)
(***************************************************************************)
Cell == [kind : {"part", "torn"}, n : Nat] \cup [kind : {"len"}, n : Nat \ {0}]

\* The records of the two ends.
Reader == [buf : Seq(Cell), age : Nat, first_frame : BOOLEAN, recv_nonce : Nat,
           delivered : Seq(Messages), open : BOOLEAN]
SessionType ==
    /\ tx \in [frame : [Senders -> Seq(Cell)], send_nonce : Nat, sent : Seq(Messages),
               starts : Seq(Nat)]
    /\ socket \in Seq(Cell) /\ rx \in Reader

\* Every payload owns the nonces from its start to the start of the next one.
Owned(sent, starts, next) ==
    /\ Len(starts) = Len(sent)
    /\ \A i \in 1..Len(sent) :
          starts[i] + Parts[sent[i]] = IF i = Len(sent) THEN next ELSE starts[i + 1]
    /\ \A i \in 1..Len(sent) : starts[i] + Parts[sent[i]] =< next
    /\ \A i, j \in 1..Len(sent) : i < j => starts[i] + Parts[sent[i]] =< starts[j]

\* The nonce the reader expects after D payloads.
Expects(sent, starts, next, D) == IF D = Len(sent) THEN next ELSE starts[D + 1]

\* The reader expects the first nonce of the first payload it has not dispatched,
\* and the read future holds the beginning of a frame.
ReaderOK ==
    /\ Len(rx.delivered) =< Len(tx.sent)
    /\ rx.recv_nonce = Expects(tx.sent, tx.starts, tx.send_nonce, Len(rx.delivered))
    /\ rx.buf # << >> => rx.buf[1].kind # "part" /\ Len(rx.buf) < Wanted(rx.buf)
    /\ ~rx.open => faults # {}

\* The unwritten rest of the frame whose sender holds the transport lock.
Pending(f) ==
    \/ f = << >> /\ \A s \in Senders : tx.frame[s] = << >>
    \/ \E s \in Senders : tx.frame[s] = f /\ \A t \in Senders \ {s} : tx.frame[t] = << >>

\* A part that comes right after a length is the first one of a payload with
\* that length, whatever was lost before and after.
Linked(w, sent, starts) ==
    \A q \in 1..(Len(w) - 1) :
        w[q].kind = "len" /\ w[q + 1].kind = "part" =>
            \E j \in 1..Len(sent) : w[q].n = Parts[sent[j]] /\ w[q + 1].n = starts[j]

\* Cell i of the frame of a payload that begins with nonce start.
CellOf(m, start, i) == IF i = 0 THEN LengthCell(Parts[m]) ELSE PartCell(start + i - 1)

\* Of the cells w that follow the first `past` ones of the session, each is the one
\* that was encrypted for its place.
Placed(w, sent, starts, past) ==
    \A j \in 1..Len(sent) : \A i \in 0..Parts[sent[j]] : \A q \in 1..Len(w) :
        past + q = starts[j] + j + i => w[q] = CellOf(sent[j], starts[j], i)

\* The stream from the reader to the end of the frame being written.  Without a
\* fault it is exactly what was encrypted and not dispatched.
InRow(a, b, c) == (a \o b) \o c
Stream(f) == InRow(rx.buf, socket, f)
Dispatched == rx.recv_nonce + Len(rx.delivered)
StreamOK ==
    \E f \in {<< >>} \cup {tx.frame[s] : s \in Senders} :
        /\ Pending(f) /\ Linked(Stream(f), tx.sent, tx.starts)
        /\ faults = {} => /\ Dispatched + Len(Stream(f)) = tx.send_nonce + Len(tx.sent)
                          /\ Placed(Stream(f), tx.sent, tx.starts, Dispatched)

SessionInv == SessionType /\ Owned(tx.sent, tx.starts, tx.send_nonce) /\ ReaderOK /\ StreamOK

(***************************************************************************)
(* Sequences of cells                                                      *)
(***************************************************************************)
\* Of two, and of three sequences in a row.
LEMMA Joined ==
    ASSUME NEW a \in Seq(Cell), NEW b \in Seq(Cell)
    PROVE  /\ a \o b \in Seq(Cell) /\ Len(a \o b) = Len(a) + Len(b)
           /\ \A q \in 1..Len(a) : (a \o b)[q] = a[q]
           /\ \A q \in 1..Len(b) : (a \o b)[Len(a) + q] = b[q]
  BY ConcatProperties

\* ... and of three, as the stream is put together.
LEMMA Row ==
    \A a, b, c \in Seq(Cell) :
        /\ InRow(a, b, c) \in Seq(Cell) /\ Len(InRow(a, b, c)) = Len(a) + Len(b) + Len(c)
        /\ \A q \in 1..Len(a) : InRow(a, b, c)[q] = a[q]
        /\ \A q \in 1..Len(b) : InRow(a, b, c)[Len(a) + q] = b[q]
        /\ \A q \in 1..Len(c) : InRow(a, b, c)[Len(a) + Len(b) + q] = c[q]
<1>. TAKE a, b, c \in Seq(Cell)
<1>1. PICK d : d = a \o b
  BY Zenon
<1>2. /\ d \in Seq(Cell) /\ Len(d) = Len(a) + Len(b)
      /\ \A q \in 1..Len(a) : d[q] = a[q]
      /\ \A q \in 1..Len(b) : d[Len(a) + q] = b[q]
  BY <1>1, Joined, ZenonT(30)
<1>3. /\ d \o c \in Seq(Cell) /\ Len(d \o c) = Len(d) + Len(c)
      /\ \A q \in 1..Len(d) : (d \o c)[q] = d[q]
      /\ \A q \in 1..Len(c) : (d \o c)[Len(d) + q] = c[q]
  BY <1>2, Joined, Zenon
<1>4. \A q \in 1..Len(a) : q \in 1..Len(d)
  BY <1>2
<1>5. \A q \in 1..Len(b) : Len(a) + q \in 1..Len(d)
  BY <1>2
<1>6. InRow(a, b, c) = d \o c
  BY <1>1, Zenon DEF InRow
<1>. QED  BY <1>2, <1>3, <1>4, <1>5, <1>6, Zenon

\* Facts of arithmetic.
LEMMA Ahead ==
    ASSUME NEW x \in Nat, NEW p \in Nat \ {0}, NEW y \in Nat, x + p =< y
    PROVE  x < y
  OBVIOUS

\* ... about the place of a cell in a frame.
LEMMA Within ==
    ASSUME NEW x \in Nat, NEW p \in Nat, NEW j \in Nat, NEW i \in Nat, NEW next \in Nat,
           NEW n \in Nat, x + p =< next, j =< n, i =< p
    PROVE  x + j + i =< next + n
  OBVIOUS

\* A payload takes at least one part.
LEMMA SomeParts ==
    ASSUME NEW sent \in Seq(Messages), NEW i \in 1..Len(sent)
    PROVE  Parts[sent[i]] \in Nat \ {0}
<1>1. sent[i] \in Messages
  OBVIOUS
<1>. QED  BY <1>1, SessionAssumption, Zenon

\* The head of a sequence may belong to the one before it.
LEMMA HeadMoves ==
    ASSUME NEW a \in Seq(Cell), NEW b \in Seq(Cell), b # << >>
    PROVE  /\ Append(a, Head(b)) \in Seq(Cell) /\ Tail(b) \in Seq(Cell) /\ Head(b) \in Cell
           /\ Append(a, Head(b)) \o Tail(b) = a \o b
  OBVIOUS

\* A cell read, or written, keeps its place in the stream.
LEMMA ReadMoves ==
    ASSUME NEW a \in Seq(Cell), NEW b \in Seq(Cell), NEW c \in Seq(Cell), b # << >>
    PROVE  (Append(a, Head(b)) \o Tail(b)) \o c = (a \o b) \o c
  BY HeadMoves, Zenon

\* try_write moves a cell from the frame to the socket.
LEMMA WriteMoves ==
    ASSUME NEW a \in Seq(Cell), NEW b \in Seq(Cell), NEW c \in Seq(Cell), c # << >>
    PROVE  (a \o Append(b, Head(c))) \o Tail(c) = (a \o b) \o c
<1>1. a \o b \in Seq(Cell) /\ a \o Append(b, Head(c)) = Append(a \o b, Head(c))
  OBVIOUS
<1>. QED  BY <1>1, HeadMoves, Zenon

(***************************************************************************)
(* Encryption                                                              *)
(***************************************************************************)
\* The nonces of the next payload are the next ones.
LEMMA OwnedGrows ==
    ASSUME NEW sent \in Seq(Messages), NEW starts \in Seq(Nat), NEW next \in Nat,
           NEW m \in Messages, Owned(sent, starts, next)
    PROVE  Owned(Append(sent, m), Append(starts, next), next + Parts[m])
<1>1. Parts[m] \in Nat \ {0} /\ \A i \in 1..Len(sent) : Parts[sent[i]] \in Nat \ {0}
  BY SessionAssumption
<1>2. Len(starts) = Len(sent)
  BY Zenon DEF Owned
<1>3. /\ Len(Append(sent, m)) = Len(sent) + 1 /\ Len(Append(starts, next)) = Len(sent) + 1
      /\ \A i \in 1..Len(sent) : Append(sent, m)[i] = sent[i] /\ Append(starts, next)[i] = starts[i]
      /\ Append(sent, m)[Len(sent) + 1] = m /\ Append(starts, next)[Len(sent) + 1] = next
  BY <1>2
<1>. DEFINE S == Append(sent, m)
            T == Append(starts, next)
            n == Len(sent)
<1>4. \A i \in 1..n : starts[i] \in Nat /\ starts[i] + Parts[sent[i]] =< next
  BY <1>2 DEF Owned
<1>. HIDE DEF S, T
<1>5. \A i \in 1..(n + 1) : T[i] + Parts[S[i]] = IF i = n + 1 THEN next + Parts[m] ELSE T[i + 1]
  <2>. TAKE i \in 1..(n + 1)
  <2>1. CASE i = n + 1
    BY <1>3, <2>1, Zenon DEF S, T
  <2>2. CASE i = n
    <3>1. T[i + 1] = next /\ T[i] = starts[i] /\ S[i] = sent[i] /\ i \in 1..n
      BY <1>3, <2>2 DEF S, T
    <3>2. starts[i] + Parts[sent[i]] = next
      BY <2>2, <3>1, Zenon DEF Owned
    <3>. QED  BY <2>2, <3>1, <3>2
  <2>3. CASE i < n
    <3>1. T[i + 1] = starts[i + 1] /\ T[i] = starts[i] /\ S[i] = sent[i] /\ i \in 1..n
      BY <1>3, <2>3 DEF S, T
    <3>2. starts[i] + Parts[sent[i]] = starts[i + 1]
      BY <2>3, <3>1 DEF Owned
    <3>. QED  BY <2>3, <3>1, <3>2
  <2>. QED  BY <2>1, <2>2, <2>3
<1>6. \A i \in 1..(n + 1) : T[i] + Parts[S[i]] =< next + Parts[m]
  BY <1>1, <1>3, <1>4, SMTT(30) DEF S, T
<1>7. \A i, j \in 1..(n + 1) : i < j => T[i] + Parts[S[i]] =< T[j]
  <2>. SUFFICES ASSUME NEW i \in 1..(n + 1), NEW j \in 1..(n + 1), i < j
                PROVE  T[i] + Parts[S[i]] =< T[j]
    BY Zenon
  <2>1. i \in 1..n /\ T[i] = starts[i] /\ S[i] = sent[i]
    BY <1>3 DEF S, T
  <2>2. CASE j = n + 1
    BY <1>3, <1>4, <2>1, <2>2, Zenon DEF T
  <2>3. CASE j # n + 1
    <3>1. j \in 1..n /\ T[j] = starts[j]
      BY <1>3, <2>3, SMTT(30) DEF T
    <3>. QED  BY <2>1, <3>1, Zenon DEF Owned
  <2>. QED  BY <2>2, <2>3, Zenon
<1>. QED  BY <1>3, <1>5, <1>6, <1>7, Zenon DEF Owned, S, T

\* A frame is a length and parts with consecutive nonces.
Frame(m, next) == <<LengthCell(Parts[m])>> \o [i \in 1..Parts[m] |-> PartCell(next + i - 1)]

\* The cells of a frame, by their place.
LEMMA FrameCells ==
    ASSUME NEW m \in Messages, NEW next \in Nat
    PROVE  /\ Frame(m, next) \in Seq(Cell) /\ Len(Frame(m, next)) = Parts[m] + 1
           /\ \A i \in 0..Parts[m] : Frame(m, next)[i + 1] = CellOf(m, next, i)
<1>1. Parts[m] \in Nat \ {0}
  BY SessionAssumption, Zenon
<1>. DEFINE a == <<LengthCell(Parts[m])>>
            b == [i \in 1..Parts[m] |-> PartCell(next + i - 1)]
<1>2. a \in Seq(Cell) /\ Len(a) = 1 /\ a[1] = LengthCell(Parts[m])
  BY <1>1 DEF Cell, LengthCell
<1>3. b \in Seq(Cell) /\ Len(b) = Parts[m] /\ \A i \in 1..Parts[m] : b[i] = PartCell(next + i - 1)
  BY <1>1 DEF Cell, PartCell
<1>. HIDE DEF a, b
<1>4. /\ a \o b \in Seq(Cell) /\ Len(a \o b) = Len(a) + Len(b)
      /\ \A i \in 1..(Len(a) + Len(b)) : (a \o b)[i] = IF i =< Len(a) THEN a[i] ELSE b[i - Len(a)]
  BY <1>2, <1>3, ConcatProperties, Zenon
<1>5. Frame(m, next) = a \o b
  BY Zenon DEF Frame, a, b
<1>. QED  BY <1>1, <1>2, <1>3, <1>4, <1>5 DEF CellOf

\* A new frame continues the stream.
LEMMA LinkedGrows ==
    ASSUME NEW w \in Seq(Cell), NEW sent \in Seq(Messages), NEW starts \in Seq(Nat),
           NEW next \in Nat, NEW m \in Messages, Len(starts) = Len(sent),
           Linked(w, sent, starts)
    PROVE  Linked(w \o Frame(m, next), Append(sent, m), Append(starts, next))
<1>. DEFINE F == Frame(m, next)
            v == w \o F
            S == Append(sent, m)
            T == Append(starts, next)
            n == Len(sent)
            k == Len(w)
            p == Parts[m]
<1>1. p \in Nat \ {0} /\ F \in Seq(Cell) /\ Len(F) = p + 1
  BY SessionAssumption, FrameCells, Zenon
<1>2. \A i \in 0..p : F[i + 1] = CellOf(m, next, i)
  BY FrameCells, Zenon
<1>. HIDE DEF F
<1>3. v \in Seq(Cell) /\ Len(v) = k + Len(F)
  BY <1>1, Joined, Zenon
<1>4. (\A q \in 1..k : v[q] = w[q]) /\ \A q \in 1..Len(F) : v[k + q] = F[q]
  BY <1>1, Joined, Zenon
<1>5. Len(S) = n + 1 /\ Len(T) = n + 1 /\ n \in Nat /\ k \in Nat
  OBVIOUS
<1>6. /\ S[n + 1] = m /\ T[n + 1] = next
      /\ \A i \in 1..n : S[i] = sent[i] /\ T[i] = starts[i]
  OBVIOUS
<1>7. Len(v) = k + p + 1
  BY <1>1, <1>3, <1>5
<1>. HIDE DEF v, S, T, n, k, p
<1>. SUFFICES ASSUME NEW q \in 1..(Len(v) - 1), v[q].kind = "len", v[q + 1].kind = "part"
              PROVE  \E j \in 1..Len(S) : v[q].n = Parts[S[j]] /\ v[q + 1].n = T[j]
  BY Zenon DEF Linked, v, S, T, F
<1>8. CASE q < k
  <2>1. q \in 1..k /\ q + 1 \in 1..k /\ q \in 1..(k - 1)
    BY <1>5, <1>7, <1>8
  <2>2. v[q] = w[q] /\ v[q + 1] = w[q + 1]
    BY <1>4, <2>1, Zenon
  <2>3. PICK j \in 1..n : w[q].n = Parts[sent[j]] /\ w[q + 1].n = starts[j]
    BY <2>1, <2>2, Zenon DEF Linked, n, k
  <2>4. j \in 1..Len(S) /\ S[j] = sent[j] /\ T[j] = starts[j]
    BY <1>5, <1>6, SMTT(30)
  <2>. QED  BY <2>2, <2>3, <2>4, Zenon
<1>9. CASE q = k
  <2>1. 1 \in 1..Len(F) /\ 0 \in 0..p /\ q + 1 = k + 1
    BY <1>1, <1>9
  <2>2. v[k + 1] = F[0 + 1] /\ F[0 + 1] = CellOf(m, next, 0)
    BY <1>2, <1>4, <2>1
  <2>. QED  BY <2>1, <2>2 DEF CellOf, LengthCell
<1>10. CASE q > k
  <2>. DEFINE i == q - k - 1
  <2>1. /\ i \in 0..p /\ i + 1 \in 0..p /\ i + 1 \in 1..Len(F) /\ (i + 1) + 1 \in 1..Len(F)
        /\ q = k + (i + 1) /\ q + 1 = k + ((i + 1) + 1)
    BY <1>1, <1>5, <1>7, <1>10
  <2>. HIDE DEF i
  <2>2. v[q] = CellOf(m, next, i) /\ v[q + 1] = CellOf(m, next, i + 1)
    BY <1>2, <1>4, <2>1, Zenon
  <2>3. i = 0
    BY <2>1, <2>2 DEF CellOf, PartCell
  <2>4. v[q].n = Parts[S[n + 1]] /\ v[q + 1].n = T[n + 1]
    <3>1. v[q] = LengthCell(p) /\ v[q + 1] = PartCell(next)
      BY <2>2, <2>3 DEF CellOf, p
    <3>. QED  BY <1>6, <3>1 DEF PartCell, LengthCell, p
  <2>. QED  BY <1>5, <2>4
<1>. QED  BY <1>5, <1>7, <1>8, <1>9, <1>10

\* ... and puts its cells in their places.
LEMMA PlacedGrows ==
    ASSUME NEW w \in Seq(Cell), NEW sent \in Seq(Messages), NEW starts \in Seq(Nat),
           NEW next \in Nat, NEW m \in Messages, NEW past \in Nat, Owned(sent, starts, next),
           past + Len(w) = next + Len(sent), Placed(w, sent, starts, past)
    PROVE  Placed(w \o Frame(m, next), Append(sent, m), Append(starts, next), past)
<1>. DEFINE F == Frame(m, next)
            v == w \o F
            S == Append(sent, m)
            T == Append(starts, next)
            n == Len(sent)
            k == Len(w)
            p == Parts[m]
<1>1. p \in Nat \ {0} /\ F \in Seq(Cell) /\ Len(F) = p + 1
  BY SessionAssumption, FrameCells, Zenon
<1>2. \A i \in 0..p : F[i + 1] = CellOf(m, next, i)
  BY FrameCells, Zenon
<1>. HIDE DEF F
<1>3. v \in Seq(Cell) /\ Len(v) = k + Len(F)
  BY <1>1, Joined, Zenon
<1>4. (\A q \in 1..k : v[q] = w[q]) /\ \A q \in 1..Len(F) : v[k + q] = F[q]
  BY <1>1, Joined, Zenon
<1>5. Len(starts) = n /\ n \in Nat /\ k \in Nat
  BY DEF Owned
<1>6. Len(S) = n + 1 /\ Len(T) = n + 1
  BY <1>5
<1>7. /\ S[n + 1] = m /\ T[n + 1] = next
      /\ \A i \in 1..n : S[i] = sent[i] /\ T[i] = starts[i]
  BY <1>5
<1>8. Len(v) = k + p + 1 /\ past + k = next + n
  BY <1>1, <1>3, <1>5
<1>9. \A j \in 1..n : starts[j] \in Nat /\ Parts[sent[j]] \in Nat /\ starts[j] + Parts[sent[j]] =< next
  BY <1>5, SomeParts, SMTT(30) DEF Owned
<1>10. \A j \in 1..n : \A i \in 0..Parts[sent[j]] : \A q \in 1..k :
          past + q = starts[j] + j + i => w[q] = CellOf(sent[j], starts[j], i)
  BY Zenon DEF Placed
<1>. HIDE DEF v, S, T, n, k, p
<1>. SUFFICES ASSUME NEW j \in 1..(n + 1), NEW i \in 0..Parts[S[j]], NEW q \in 1..Len(v),
                     past + q = T[j] + j + i
              PROVE  v[q] = CellOf(S[j], T[j], i)
  BY <1>6, Zenon DEF Placed, v, S, T, F
<1>11. CASE j = n + 1
  <2>1. i \in 0..p /\ T[j] = next /\ S[j] = m
    BY <1>7, <1>11, Zenon DEF p
  <2>2. i + 1 \in 1..Len(F) /\ q = k + (i + 1)
    BY <1>1, <1>5, <1>8, <1>11, <2>1
  <2>3. v[q] = CellOf(m, next, i)
    BY <1>2, <1>4, <2>1, <2>2, Zenon
  <2>. QED  BY <2>1, <2>3, Zenon
<1>12. CASE j # n + 1
  <2>1. j \in 1..n
    BY <1>5, <1>12
  <2>2. S[j] = sent[j] /\ T[j] = starts[j]
    BY <1>7, <2>1, Zenon
  <2>3. starts[j] \in Nat /\ Parts[sent[j]] \in Nat /\ starts[j] + Parts[sent[j]] =< next
    BY <1>9, <2>1, Zenon
  <2>4. i \in 0..Parts[sent[j]] /\ past + q = starts[j] + j + i
    BY <2>2, Zenon
  <2>5. q \in 1..k
    <3>1. i \in Nat /\ i =< Parts[sent[j]] /\ q \in Nat /\ q >= 1
      BY <2>3, <2>4, <1>1, <1>5, <1>8
    <3>2. j =< n /\ j \in Nat /\ past + q = starts[j] + j + i
      BY <1>5, <2>1, <2>4
    <3>3. starts[j] + j + i =< next + n
      BY <1>5, <2>3, <3>1, <3>2, Within, Zenon
    <3>4. past + q =< next + n
      BY <3>2, <3>3, Zenon
    <3>. QED  BY <1>5, <1>8, <3>1, <3>4, SMTT(30)
  <2>6. w[q] = CellOf(sent[j], starts[j], i)
    BY <1>10, <2>1, <2>4, <2>5, Zenon
  <2>. QED  BY <1>4, <2>2, <2>5, <2>6, Zenon
<1>. QED  BY <1>11, <1>12, Zenon

(***************************************************************************)
(* Reading                                                                 *)
(***************************************************************************)
\* What is left when cells are taken off either end, or the first one is torn,
\* is still linked.
LEMMA LinkedPart ==
    ASSUME NEW w \in Seq(Cell), NEW v \in Seq(Cell), NEW sent, NEW starts, NEW k \in Nat,
           Len(v) + k =< Len(w), \A q \in 1..Len(v) : v[q] = w[q + k] \/ v[q].kind = "torn",
           Linked(w, sent, starts)
    PROVE  Linked(v, sent, starts)
<1>. SUFFICES ASSUME NEW q \in 1..(Len(v) - 1), v[q].kind = "len", v[q + 1].kind = "part"
              PROVE  \E j \in 1..Len(sent) : v[q].n = Parts[sent[j]] /\ v[q + 1].n = starts[j]
  BY Zenon DEF Linked
<1>1. v[q] = w[q + k] /\ v[q + 1] = w[(q + k) + 1] /\ q + k \in 1..(Len(w) - 1)
  <2>1. v[q] = w[q + k] /\ q + k \in 1..(Len(w) - 1)
    OBVIOUS
  <2>2. q + 1 \in 1..Len(v) /\ (q + 1) + k = (q + k) + 1
    OBVIOUS
  <2>3. v[q + 1] = w[(q + 1) + k]
    BY <2>2, Zenon
  <2>. QED  BY <2>1, <2>2, <2>3, Zenon
<1>. QED  BY <1>1, Zenon DEF Linked

\* What is behind the first cells keeps its place.
LEMMA PlacedSuffix ==
    ASSUME NEW w \in Seq(Cell), NEW v \in Seq(Cell), NEW sent \in Seq(Messages),
           NEW starts \in Seq(Nat), NEW past \in Nat, NEW k \in Nat, Len(sent) = Len(starts),
           Len(v) + k = Len(w), \A q \in 1..Len(v) : v[q] = w[q + k],
           Placed(w, sent, starts, past)
    PROVE  Placed(v, sent, starts, past + k)
<1>1. \A j \in 1..Len(sent) : starts[j] \in Nat /\ Parts[sent[j]] \in Nat
  BY SomeParts
<1>. SUFFICES ASSUME NEW j \in 1..Len(sent), NEW i \in 0..Parts[sent[j]], NEW q \in 1..Len(v),
                     past + k + q = starts[j] + j + i
              PROVE  v[q] = CellOf(sent[j], starts[j], i)
  BY Zenon DEF Placed
<1>2. starts[j] \in Nat /\ Parts[sent[j]] \in Nat
  BY <1>1, Zenon
<1>3. q + k \in 1..Len(w) /\ past + (q + k) = starts[j] + j + i
  BY <1>2
<1>4. w[q + k] = CellOf(sent[j], starts[j], i)
  BY <1>3, Zenon DEF Placed
<1>. QED  BY <1>4, Zenon

\* Without a fault the stream begins with the frame of the next payload.
InSync(w, sent, starts, next, D, R) ==
    /\ w \in Seq(Cell) /\ sent \in Seq(Messages) /\ starts \in Seq(Nat) /\ next \in Nat
    /\ D \in 0..Len(sent) /\ R = Expects(sent, starts, next, D) /\ Owned(sent, starts, next)
    /\ R + D + Len(w) = next + Len(sent) /\ Placed(w, sent, starts, R + D)

\* Without a fault the first cells of the stream are the next frame, in order.
LEMMA InOrder ==
    ASSUME NEW w, NEW sent, NEW starts, NEW next, NEW D, NEW R,
           InSync(w, sent, starts, next, D, R), w # << >>
    PROVE  /\ D < Len(sent) /\ w[1] = LengthCell(Parts[sent[D + 1]])
           /\ \A i \in 1..Parts[sent[D + 1]] : i + 1 =< Len(w) => w[i + 1] = PartCell(R + i - 1)
<1>1. /\ w \in Seq(Cell) /\ sent \in Seq(Messages) /\ starts \in Seq(Nat) /\ next \in Nat
      /\ D \in 0..Len(sent)
  BY Zenon DEF InSync
<1>2. D < Len(sent)
  <2>1. CASE D = Len(sent)
    <3>1. next + D + Len(w) = next + Len(sent) /\ Len(w) \in Nat /\ Len(w) > 0
      BY <1>1, <2>1 DEF InSync, Expects
    <3>. QED  BY <1>1, <2>1, <3>1
  <2>. QED  BY <1>1, <2>1
<1>3. D + 1 \in 1..Len(sent) /\ starts[D + 1] \in Nat /\ Parts[sent[D + 1]] \in Nat \ {0}
  <2>1. D + 1 \in 1..Len(sent) /\ Len(starts) = Len(sent)
    BY <1>1, <1>2 DEF InSync, Owned
  <2>. QED  BY <1>1, <2>1, SomeParts
<1>. DEFINE e == starts[D + 1]
            p == Parts[sent[D + 1]]
            k == Len(w)
<1>4. R = e
  BY <1>1, <1>2 DEF InSync, Expects
<1>5. \A i \in 0..p : i + 1 =< k => w[i + 1] = CellOf(sent[D + 1], e, i)
  <2>1. \A i \in 0..p : \A q \in 1..k :
            (e + D) + q = e + (D + 1) + i => w[q] = CellOf(sent[D + 1], e, i)
    BY <1>3, <1>4, Zenon DEF InSync, Placed
  <2>2. e \in Nat /\ D \in Nat /\ p \in Nat /\ k \in Nat
    BY <1>1, <1>3
  <2>. HIDE DEF e, p, k
  <2>3. \A i \in 0..p : i + 1 =< k => i + 1 \in 1..k /\ (e + D) + (i + 1) = e + (D + 1) + i
    BY <2>2
  <2>. QED  BY <2>1, <2>3, Zenon
<1>6. w[0 + 1] = CellOf(sent[D + 1], e, 0)
  <2>1. k \in Nat /\ 0 + 1 =< k
    BY <1>1
  <2>. QED  BY <1>3, <1>5, <2>1
<1>. QED  BY <1>2, <1>3, <1>4, <1>5, <1>6 DEF CellOf

\* With or without faults: when the expected nonce follows a length, both belong to
\* the next payload.
OnStream(w, sent, starts, next, D, R) ==
    /\ w \in Seq(Cell) /\ sent \in Seq(Messages) /\ starts \in Seq(Nat) /\ next \in Nat
    /\ D \in 0..Len(sent) /\ R = Expects(sent, starts, next, D) /\ Owned(sent, starts, next)
    /\ Linked(w, sent, starts)

\* A length and the part it is linked to open the frame the reader expects.
LEMMA NextFrame ==
    ASSUME NEW w, NEW sent, NEW starts, NEW next, NEW D, NEW R,
           OnStream(w, sent, starts, next, D, R), Len(w) >= 2, w[1].kind = "len", w[2] = PartCell(R)
    PROVE  /\ D < Len(sent) /\ w[1].n = Parts[sent[D + 1]]
           /\ (CHOOSE i \in DOMAIN sent : starts[i] = R) = D + 1
<1>. w \in Seq(Cell) /\ sent \in Seq(Messages) /\ starts \in Seq(Nat) /\ next \in Nat /\ D \in 0..Len(sent)
  BY Zenon DEF OnStream
<1>. Owned(sent, starts, next)
  BY Zenon DEF OnStream
<1>1. 1 \in 1..(Len(w) - 1) /\ w[1].kind = "len" /\ w[1 + 1].kind = "part"
  BY DEF PartCell
<1>2. PICK j \in 1..Len(sent) : w[1].n = Parts[sent[j]] /\ w[1 + 1].n = starts[j]
  BY <1>1, Zenon DEF OnStream, Linked
<1>3. starts[j] = R /\ R = Expects(sent, starts, next, D)
  BY <1>2 DEF PartCell, OnStream
<1>4. \A i \in 1..Len(sent) : starts[i] \in Nat /\ Parts[sent[i]] \in Nat \ {0}
  <2>1. Len(starts) = Len(sent)
    BY Zenon DEF Owned
  <2>. QED  BY <2>1, SomeParts, SMTT(30)
<1>5. starts[j] < next /\ \A a, b \in 1..Len(sent) : a < b => starts[a] < starts[b]
  <2>1. starts[j] + Parts[sent[j]] =< next
    BY Zenon DEF Owned
  <2>2. \A a, b \in 1..Len(sent) : a < b => starts[a] + Parts[sent[a]] =< starts[b]
    BY Zenon DEF Owned
  <2>3. starts[j] < next
    BY <1>4, <2>1, Ahead, Zenon
  <2>4. \A a, b \in 1..Len(sent) : a < b => starts[a] < starts[b]
    <3>. SUFFICES ASSUME NEW a \in 1..Len(sent), NEW b \in 1..Len(sent), a < b
                  PROVE  starts[a] < starts[b]
      BY Zenon
    <3>1. starts[a] + Parts[sent[a]] =< starts[b]
      BY <2>2, Zenon
    <3>2. starts[a] \in Nat /\ starts[b] \in Nat /\ Parts[sent[a]] \in Nat \ {0}
      BY <1>4, Zenon
    <3>. QED  BY <3>1, <3>2, Ahead, Zenon
  <2>. QED  BY <2>3, <2>4, Zenon
<1>6. D < Len(sent)
  BY <1>3, <1>4, <1>5 DEF Expects
<1>7. D + 1 \in 1..Len(sent) /\ R = starts[D + 1]
  BY <1>3, <1>6 DEF Expects
<1>8. \A i \in 1..Len(sent) : starts[i] = starts[D + 1] => i = D + 1
  <2>. SUFFICES ASSUME NEW i \in 1..Len(sent), starts[i] = starts[D + 1], i # D + 1
                PROVE  FALSE
    BY Zenon
  <2>1. CASE i < D + 1
    BY <1>4, <1>5, <1>7, <2>1
  <2>2. CASE i > D + 1
    BY <1>4, <1>5, <1>7, <2>2
  <2>. QED  BY <2>1, <2>2, <1>7
<1>9. DOMAIN sent = 1..Len(sent)
  OBVIOUS
<1>. QED  BY <1>2, <1>3, <1>6, <1>7, <1>8, <1>9, Zenon

(***************************************************************************)
(* The steps                                                               *)
(***************************************************************************)
LEMMA SessionStarts == SessionInit => SessionInv
<1>. SUFFICES ASSUME SessionInit PROVE SessionInv
  BY Zenon
<1>1. /\ tx = [frame |-> [s \in Senders |-> << >>], send_nonce |-> 0, sent |-> << >>, starts |-> << >>]
      /\ socket = << >> /\ rx.buf = << >> /\ rx.recv_nonce = 0 /\ rx.delivered = << >>
      /\ ~rx.open => faults # {}
  BY DEF SessionInit
<1>2. SessionType
  <2>1. rx \in Reader
    <3>1. << >> \in Seq(Cell) /\ << >> \in Seq(Messages)
      OBVIOUS
    <3>2. PICK open \in BOOLEAN : rx = [buf |-> << >>, age |-> 0, first_frame |-> TRUE, recv_nonce |-> 0,
                                        delivered |-> << >>, open |-> open]
      BY Zenon DEF SessionInit
    <3>. QED  BY <3>1, <3>2, Zenon DEF Reader
  <2>. QED  BY <1>1, <2>1 DEF SessionType
<1>3. Owned(tx.sent, tx.starts, tx.send_nonce)
  BY <1>1 DEF Owned
<1>4. ReaderOK
  BY <1>1 DEF ReaderOK, Expects
<1>5. StreamOK
  <2>1. Pending(<< >>)
    BY <1>1, Zenon DEF Pending
  <2>2. Len(Stream(<< >>)) = 0 /\ Dispatched = 0
    BY <1>1 DEF Stream, InRow, Dispatched
  <2>3. Linked(Stream(<< >>), tx.sent, tx.starts) /\ Placed(Stream(<< >>), tx.sent, tx.starts, Dispatched)
    BY <2>2 DEF Linked, Placed
  <2>4. tx.send_nonce + Len(tx.sent) = 0
    BY <1>1
  <2>. QED  BY <2>1, <2>2, <2>3, <2>4 DEF StreamOK
<1>. QED  BY <1>2, <1>3, <1>4, <1>5, Zenon DEF SessionInv

\* What the invariant says of the frame being written.
LEMMA PendingFrame ==
    ASSUME SessionInv
    PROVE  \E f \in Seq(Cell) :
              /\ Pending(f) /\ Linked(Stream(f), tx.sent, tx.starts)
              /\ faults = {} => /\ Dispatched + Len(Stream(f)) = tx.send_nonce + Len(tx.sent)
                                /\ Placed(Stream(f), tx.sent, tx.starts, Dispatched)
<1>1. PICK f \in {<< >>} \cup {tx.frame[s] : s \in Senders} :
              /\ Pending(f) /\ Linked(Stream(f), tx.sent, tx.starts)
              /\ faults = {} => /\ Dispatched + Len(Stream(f)) = tx.send_nonce + Len(tx.sent)
                                /\ Placed(Stream(f), tx.sent, tx.starts, Dispatched)
  BY Zenon DEF SessionInv, StreamOK
<1>2. f \in Seq(Cell)
  <2>1. tx.frame \in [Senders -> Seq(Cell)]
    BY Zenon DEF SessionInv, SessionType
  <2>2. CASE f = << >>
    BY <2>2
  <2>3. CASE f # << >>
    <3>1. PICK s \in Senders : f = tx.frame[s]
      BY <2>3, Zenon
    <3>. QED  BY <2>1, <3>1, Zenon
  <2>. QED  BY <2>2, <2>3, Zenon
<1>. QED  BY <1>1, <1>2, Zenon

\* Which frame it is.
LEMMA PendingIs ==
    ASSUME NEW f, Pending(f), NEW s \in Senders
    PROVE  /\ f # << >> \/ tx.frame[s] = << >>
           /\ tx.frame[s] # << >> => tx.frame[s] = f /\ \A t \in Senders \ {s} : tx.frame[t] = << >>
           /\ f \in {<< >>} \cup {tx.frame[t] : t \in Senders}
  BY Zenon DEF Pending

\* Encrypt puts a frame at the end of the stream.
LEMMA EncryptStep ==
    ASSUME SessionInv, NEW s \in Senders, NEW m \in Messages, Encrypt(s, m)
    PROVE  SessionInv'
<1>. DEFINE sent == tx.sent
            starts == tx.starts
            next == tx.send_nonce
<1>1. PICK F : F = Frame(m, next)
  BY Zenon
<1>2. SessionType /\ Owned(sent, starts, next) /\ ReaderOK
  BY Zenon DEF SessionInv
<1>3. /\ sent \in Seq(Messages) /\ starts \in Seq(Nat) /\ next \in Nat /\ tx.frame \in [Senders -> Seq(Cell)]
      /\ rx.buf \in Seq(Cell) /\ socket \in Seq(Cell) /\ rx.recv_nonce \in Nat /\ rx.delivered \in Seq(Messages)
  BY <1>2, Zenon DEF SessionType, Reader
<1>4. Parts[m] \in Nat \ {0} /\ F \in Seq(Cell) /\ Len(F) = Parts[m] + 1
  BY <1>1, <1>3, SessionAssumption, FrameCells, Zenon
<1>5. tx' = [frame |-> [tx.frame EXCEPT ![s] = F], send_nonce |-> next + Parts[m],
             sent |-> Append(sent, m), starts |-> Append(starts, next)]
      /\ rx' = rx /\ socket' = socket /\ faults' = faults
  BY <1>1, <1>2, Zenon DEF Encrypt, SessionType, encrypt_frame, Frame
<1>6. \A t \in Senders : tx.frame[t] = << >>
  BY Zenon DEF Encrypt, TransportFree
<1>7. tx'.frame = [tx.frame EXCEPT ![s] = F] /\ tx'.frame \in [Senders -> Seq(Cell)]
  BY <1>3, <1>4, <1>5, Zenon
<1>8. SessionType'
  <2>1. Append(sent, m) \in Seq(Messages) /\ Append(starts, next) \in Seq(Nat) /\ next + Parts[m] \in Nat
    BY <1>3, <1>4
  <2>. QED  BY <1>2, <1>5, <1>7, <2>1, Zenon DEF SessionType
<1>9. Owned(tx.sent, tx.starts, tx.send_nonce)'
  BY <1>2, <1>3, <1>5, OwnedGrows, Zenon
<1>10. ReaderOK'
  <2>1. Len(sent') = Len(sent) + 1 /\ Len(starts) = Len(sent)
    BY <1>2, <1>3, <1>5 DEF Owned
  <2>2. Len(rx.delivered) \in 0..Len(sent)
    BY <1>2, <1>3 DEF ReaderOK
  <2>3. Expects(sent', starts', next', Len(rx.delivered)) = Expects(sent, starts, next, Len(rx.delivered))
    <3>1. CASE Len(rx.delivered) = Len(sent)
      <4>1. starts'[Len(sent) + 1] = next
        BY <1>3, <1>5, <2>1, SMTT(30)
      <4>. QED  BY <1>5, <2>1, <2>2, <3>1, <4>1 DEF Expects
    <3>2. CASE Len(rx.delivered) # Len(sent)
      <4>1. Len(rx.delivered) + 1 \in 1..Len(starts)
        BY <2>1, <2>2, <3>2
      <4>2. starts'[Len(rx.delivered) + 1] = starts[Len(rx.delivered) + 1]
        BY <1>3, <1>5, <4>1
      <4>. QED  BY <2>1, <2>2, <3>2, <4>2 DEF Expects
    <3>. QED  BY <3>1, <3>2, Zenon
  <2>. QED  BY <1>2, <1>5, <2>1, <2>2, <2>3 DEF ReaderOK, Wanted
<1>11. StreamOK'
  <2>1. PICK f \in Seq(Cell) :
              /\ Pending(f) /\ Linked(Stream(f), sent, starts)
              /\ faults = {} => /\ Dispatched + Len(Stream(f)) = next + Len(sent)
                                /\ Placed(Stream(f), sent, starts, Dispatched)
    BY PendingFrame, Zenon
  <2>2. f = << >>
    BY <1>6, <2>1, Zenon DEF Pending
  <2>. DEFINE w == rx.buf \o socket
  <2>3. w \in Seq(Cell) /\ Stream(f) = w /\ Stream(F)' = w \o F
    <3>1. w \in Seq(Cell)
      BY <1>3, Joined, Zenon
    <3>2. Stream(f) = w
      BY <2>2, <3>1, ConcatEmptySeq, Zenon DEF Stream, InRow
    <3>3. Stream(F)' = w \o F
      BY <1>5, Zenon DEF Stream, InRow
    <3>. QED  BY <3>1, <3>2, <3>3, Zenon
  <2>. HIDE DEF w
  <2>4. Pending(F)' /\ F \in {tx.frame[t] : t \in Senders}'
    <3>1. tx'.frame[s] = F /\ \A t \in Senders \ {s} : tx'.frame[t] = << >>
      BY <1>3, <1>7, <1>6, Zenon
    <3>2. Pending(F)'
      BY <3>1, Zenon DEF Pending
    <3>. QED  BY <3>1, <3>2, Zenon
  <2>5. Linked(w \o F, sent', starts')
    <3>1. Len(starts) = Len(sent)
      BY <1>2, Zenon DEF Owned
    <3>. QED  BY <1>3, <1>5, <2>1, <2>3, <3>1, LinkedGrows, <1>1, Zenon
  <2>6. ASSUME faults = {}
        PROVE  Dispatched' + Len(w \o F) = (next + Len(sent))' /\ Placed(w \o F, sent', starts', Dispatched')
    <3>1. Dispatched' = Dispatched /\ Dispatched \in Nat
      BY <1>3, <1>5, SMTT(30) DEF Dispatched
    <3>2. Placed(w, sent, starts, Dispatched)
      BY <2>1, <2>3, <2>6, Zenon
    <3>7. Dispatched + Len(w) = next + Len(sent)
      BY <2>1, <2>3, <2>6, Zenon
    <3>3. Placed(w \o F, sent', starts', Dispatched)
      BY <1>2, <1>3, <1>5, <2>3, <3>1, <3>2, <3>7, PlacedGrows, <1>1, Zenon
    <3>4. Len(w \o F) = Len(w) + Parts[m] + 1
      <4>1. Len(w \o F) = Len(w) + Len(F)
        BY <1>4, <2>3, Joined, Zenon
      <4>2. Len(w) \in Nat
        BY <2>3
      <4>. QED  BY <1>4, <4>1, <4>2
    <3>5. Len(sent') = Len(sent) + 1 /\ next' = next + Parts[m]
      BY <1>3, <1>5
    <3>6. Dispatched' + Len(w \o F) = next' + Len(sent')
      <4>. DEFINE d == Dispatched
                  l == Len(w)
                  x == next
                  n == Len(sent)
                  p == Parts[m]
      <4>0. l \in Nat /\ n \in Nat
        BY <1>3, <2>3, SMTT(30)
      <4>1. l \in Nat /\ n \in Nat /\ x \in Nat /\ p \in Nat /\ d \in Nat /\ d + l = x + n
        BY <1>3, <1>4, <3>1, <3>7, <4>0, Zenon
      <4>. HIDE DEF d, l, x, n, p
      <4>2. d + (l + p + 1) = (x + p) + (n + 1)
        BY <4>1
      <4>3. Dispatched' = d /\ Len(w \o F) = l + p + 1 /\ next' = x + p /\ Len(sent') = n + 1
        BY <3>1, <3>4, <3>5, Zenon DEF d, l, x, n, p
      <4>. QED  BY <4>2, <4>3, Zenon
    <3>. QED  BY <3>1, <3>3, <3>6, Zenon
  <2>. QED  BY <1>5, <2>3, <2>4, <2>5, <2>6, Zenon DEF StreamOK
<1>. QED  BY <1>8, <1>9, <1>10, <1>11, Zenon DEF SessionInv

\* Steps of the reader that leave the stream as it is.
LEMMA StreamKept ==
    ASSUME SessionInv, tx' = tx, faults' = faults, rx' \in Reader, socket' \in Seq(Cell),
           rx'.recv_nonce = rx.recv_nonce, rx'.delivered = rx.delivered, rx'.open = rx.open,
           rx'.buf \o socket' = rx.buf \o socket,
           rx'.buf # << >> => rx'.buf[1].kind # "part" /\ Len(rx'.buf) < Wanted(rx'.buf)
    PROVE  SessionInv'
<1>1. SessionType'
  BY Zenon DEF SessionInv, SessionType
<1>2. Owned(tx.sent, tx.starts, tx.send_nonce)'
  BY Zenon DEF SessionInv
<1>3. ReaderOK'
  BY Zenon DEF SessionInv, ReaderOK, Wanted
<1>4. StreamOK'
  <2>1. \A f : Stream(f)' = Stream(f) /\ Pending(f)' = Pending(f)
    BY Zenon DEF Stream, InRow, Pending
  <2>2. Dispatched' = Dispatched
    BY Zenon DEF Dispatched
  <2>. QED  BY <2>1, <2>2, Zenon DEF SessionInv, StreamOK
<1>. QED  BY <1>1, <1>2, <1>3, <1>4, Zenon DEF SessionInv

\* Steps that drop what the read future holds, and perhaps more.
LEMMA CellsLost ==
    ASSUME SessionInv, tx' = tx, faults' # {}, rx' \in Reader, socket' \in Seq(Cell),
           rx'.recv_nonce = rx.recv_nonce, rx'.delivered = rx.delivered, rx'.buf = << >>,
           NEW k \in Nat, Len(socket') + k = Len(socket),
           \A q \in 1..Len(socket') : socket'[q] = socket[q + k] \/ socket'[q].kind = "torn"
    PROVE  SessionInv'
<1>1. SessionType'
  BY Zenon DEF SessionInv, SessionType
<1>2. Owned(tx.sent, tx.starts, tx.send_nonce)'
  BY Zenon DEF SessionInv
<1>3. ReaderOK'
  BY Zenon DEF SessionInv, ReaderOK
<1>4. PICK f \in Seq(Cell) : Pending(f) /\ Linked(Stream(f), tx.sent, tx.starts)
  BY PendingFrame, Zenon
<1>5. PICK buf, old, new : buf = rx.buf /\ old = socket /\ new = socket'
  BY Zenon
<1>6. buf \in Seq(Cell) /\ old \in Seq(Cell) /\ new \in Seq(Cell)
  BY <1>5, Zenon DEF SessionInv, SessionType, Reader
<1>. DEFINE w == InRow(buf, old, f)
            v == InRow(<< >>, new, f)
            n == Len(buf) + k
<1>7. /\ w \in Seq(Cell) /\ Len(w) = Len(buf) + Len(old) + Len(f)
      /\ \A q \in 1..Len(old) : w[Len(buf) + q] = old[q]
      /\ \A q \in 1..Len(f) : w[Len(buf) + Len(old) + q] = f[q]
  <2>1. w \in Seq(Cell) /\ Len(w) = Len(buf) + Len(old) + Len(f)
    BY <1>6, Row
  <2>2. \A q \in 1..Len(old) : w[Len(buf) + q] = old[q]
    BY <1>6, Row, SMTT(30)
  <2>3. \A q \in 1..Len(f) : w[Len(buf) + Len(old) + q] = f[q]
    BY <1>6, Row, SMTT(30)
  <2>. QED  BY <2>1, <2>2, <2>3, Zenon
<1>8. << >> \o new = new
  BY <1>6, ConcatEmptySeq, Zenon
<1>9. /\ v \in Seq(Cell) /\ Len(v) = Len(new) + Len(f)
      /\ \A q \in 1..Len(new) : v[q] = new[q]
      /\ \A q \in 1..Len(f) : v[Len(new) + q] = f[q]
  <2>1. v = new \o f
    BY <1>8, Zenon DEF InRow
  <2>. HIDE DEF v
  <2>. QED  BY <1>6, <2>1, Joined
<1>. HIDE DEF w, v
<1>10. \A q \in 1..Len(v) : v[q] = w[q + n] \/ v[q].kind = "torn"
  <2>. TAKE q \in 1..Len(v)
  <2>1. Len(new) + k = Len(old) /\ Len(new) \in Nat /\ Len(f) \in Nat /\ Len(buf) \in Nat /\ Len(old) \in Nat
    BY <1>5, <1>6
  <2>2. CASE q =< Len(new)
    <3>1. v[q] = new[q] /\ (new[q] = old[q + k] \/ new[q].kind = "torn")
      BY <1>5, <1>9, <2>1, <2>2, SMTT(30)
    <3>2. q + k \in 1..Len(old) /\ q + n = Len(buf) + (q + k)
      BY <2>1, <2>2
    <3>3. w[q + n] = old[q + k]
      BY <1>7, <3>2, Zenon
    <3>. QED  BY <3>1, <3>3, Zenon
  <2>3. CASE q > Len(new)
    <3>1. q - Len(new) \in 1..Len(f) /\ q = Len(new) + (q - Len(new))
      BY <1>9, <2>1, <2>3
    <3>2. v[q] = f[q - Len(new)]
      BY <1>9, <3>1, Zenon
    <3>3. q + n = Len(buf) + Len(old) + (q - Len(new))
      <4>. DEFINE a == Len(buf)
                  b == Len(old)
                  c == Len(new)
      <4>1. q \in Nat /\ a \in Nat /\ b \in Nat /\ c \in Nat /\ c + k = b
        BY <1>9, <2>1
      <4>. HIDE DEF a, b, c
      <4>2. q + (a + k) = a + b + (q - c)
        BY <4>1
      <4>. QED  BY <4>2, Zenon DEF a, b, c
    <3>4. w[q + n] = f[q - Len(new)]
      BY <1>7, <3>1, <3>3, Zenon
    <3>. QED  BY <3>2, <3>4, Zenon
  <2>. QED  BY <1>9, <2>1, <2>2, <2>3
<1>11. n \in Nat /\ Len(v) + n =< Len(w)
  <2>1. Len(new) + k = Len(old) /\ Len(new) \in Nat /\ Len(f) \in Nat /\ Len(buf) \in Nat /\ Len(old) \in Nat
    BY <1>5, <1>6
  <2>2. Len(v) = Len(new) + Len(f) /\ Len(w) = Len(buf) + Len(old) + Len(f)
    BY <1>7, <1>9, Zenon
  <2>. QED  BY <2>1, <2>2
<1>12. Linked(v, tx.sent, tx.starts)
  <2>1. Stream(f) = w
    BY <1>5, Zenon DEF Stream, w
  <2>. QED  BY <1>4, <1>7, <1>9, <1>10, <1>11, <2>1, LinkedPart, Zenon
<1>13. Stream(f)' = v
  BY <1>5, Zenon DEF Stream, v
<1>14. Pending(f)' /\ f \in {<< >>} \cup {tx'.frame[s] : s \in Senders}
  BY <1>4, Zenon DEF Pending
<1>15. StreamOK'
  BY <1>12, <1>13, <1>14, Zenon DEF StreamOK
<1>. QED  BY <1>1, <1>2, <1>3, <1>15, Zenon DEF SessionInv

\* What is written leaves the frame for the socket; a refused write drops the rest.
LEMMA TryWriteStep ==
    ASSUME SessionInv, NEW s \in Senders, TryWrite(s)
    PROVE  SessionInv'
<1>1. PICK g, buf, old : g = tx.frame[s] /\ buf = rx.buf /\ old = socket
  BY Zenon
<1>2. /\ g \in Seq(Cell) /\ buf \in Seq(Cell) /\ old \in Seq(Cell) /\ g # << >> /\ rx' = rx
      /\ tx.frame \in [Senders -> Seq(Cell)]
  BY <1>1, Zenon DEF SessionInv, SessionType, Reader, TryWrite
<1>3. PICK f \in Seq(Cell) :
              /\ Pending(f) /\ Linked(Stream(f), tx.sent, tx.starts)
              /\ faults = {} => /\ Dispatched + Len(Stream(f)) = tx.send_nonce + Len(tx.sent)
                                /\ Placed(Stream(f), tx.sent, tx.starts, Dispatched)
  BY PendingFrame, Zenon
<1>4. f = g /\ \A t \in Senders \ {s} : tx.frame[t] = << >>
  BY <1>1, <1>2, <1>3, PendingIs, Zenon
<1>5. ASSUME NEW h \in Seq(Cell), tx' = [tx EXCEPT !.frame[s] = h], socket' \in Seq(Cell),
             faults' = faults \/ faults' # {}, Linked(InRow(buf, socket', h), tx.sent, tx.starts),
             faults' = {} => InRow(buf, socket', h) = InRow(buf, old, g)
      PROVE  SessionInv'
  <2>1. /\ tx'.sent = tx.sent /\ tx'.starts = tx.starts /\ tx'.send_nonce = tx.send_nonce
        /\ tx'.frame = [tx.frame EXCEPT ![s] = h]
    BY <1>5, Zenon DEF SessionInv, SessionType
  <2>2. tx'.frame \in [Senders -> Seq(Cell)] /\ tx'.frame[s] = h /\ \A t \in Senders \ {s} : tx'.frame[t] = << >>
    BY <1>2, <1>4, <1>5, <2>1
  <2>3. SessionType'
    <3>1. tx' \in [frame : [Senders -> Seq(Cell)], send_nonce : Nat, sent : Seq(Messages), starts : Seq(Nat)]
      BY <1>2, <1>5, Zenon DEF SessionInv, SessionType
    <3>. QED  BY <1>2, <1>5, <3>1, Zenon DEF SessionInv, SessionType
  <2>4. Owned(tx.sent, tx.starts, tx.send_nonce)'
    BY <2>1, Zenon DEF SessionInv
  <2>5. ReaderOK'
    BY <1>2, <1>5, <2>1, Zenon DEF SessionInv, ReaderOK, Wanted
  <2>6. Pending(h)' /\ h \in {<< >>} \cup {tx'.frame[t] : t \in Senders}
    BY <2>2, Zenon DEF Pending
  <2>7. Stream(h)' = InRow(buf, socket', h) /\ Stream(f) = InRow(buf, old, g)
    BY <1>1, <1>2, <1>4, Zenon DEF Stream
  <2>8. Dispatched' = Dispatched
    BY <1>2, Zenon DEF Dispatched
  <2>9. StreamOK'
    <3>1. Linked(Stream(h), tx.sent, tx.starts)'
      BY <1>5, <2>1, <2>7, Zenon
    <3>2. ASSUME faults' = {}
          PROVE  (Dispatched + Len(Stream(h)) = tx.send_nonce + Len(tx.sent)
                  /\ Placed(Stream(h), tx.sent, tx.starts, Dispatched))'
      <4>1. faults = {} /\ Stream(h)' = Stream(f)
        BY <1>5, <2>7, <3>2, Zenon
      <4>. QED  BY <1>3, <2>1, <2>8, <4>1, Zenon
    <3>. QED  BY <2>6, <3>1, <3>2, Zenon DEF StreamOK
  <2>. QED  BY <2>3, <2>4, <2>5, <2>9, Zenon DEF SessionInv
<1>6. CASE rx.open /\ Len(socket) < SocketCapacity
  <2>1. /\ tx' = [tx EXCEPT !.frame[s] = Tail(g)] /\ socket' = Append(old, Head(g)) /\ faults' = faults
    BY <1>1, <1>6, Zenon DEF TryWrite
  <2>2. Tail(g) \in Seq(Cell) /\ Append(old, Head(g)) \in Seq(Cell)
    BY <1>2, HeadMoves, Zenon
  <2>3. InRow(buf, socket', Tail(g)) = InRow(buf, old, g)
    BY <1>2, <2>1, WriteMoves, ZenonT(30) DEF InRow
  <2>4. Linked(InRow(buf, old, g), tx.sent, tx.starts)
    BY <1>1, <1>3, <1>4, Zenon DEF Stream
  <2>. QED  BY <1>5, <2>1, <2>2, <2>3, <2>4, Zenon
<1>7. CASE ~(rx.open /\ Len(socket) < SocketCapacity)
  <2>1. /\ tx' = [tx EXCEPT !.frame[s] = << >>] /\ socket' = old /\ faults' # {}
    BY <1>1, <1>7, Zenon DEF TryWrite
  <2>2. Linked(InRow(buf, old, << >>), tx.sent, tx.starts)
    <3>. DEFINE w == InRow(buf, old, g)
                v == InRow(buf, old, << >>)
    <3>1. w \in Seq(Cell) /\ v \in Seq(Cell) /\ v = buf \o old
      BY <1>2, Row, Joined, ConcatEmptySeq DEF InRow
    <3>2. Linked(w, tx.sent, tx.starts)
      BY <1>1, <1>3, <1>4, Zenon DEF Stream
    <3>3. w = v \o g
      BY <3>1, Zenon DEF InRow
    <3>. HIDE DEF w, v
    <3>4. Len(w) = Len(v) + Len(g) /\ \A q \in 1..Len(v) : w[q] = v[q]
      BY <1>2, <3>1, <3>3, Joined
    <3>5. Len(v) + 0 =< Len(w) /\ \A q \in 1..Len(v) : v[q] = w[q + 0]
      BY <1>2, <3>1, <3>4
    <3>6. Linked(v, tx.sent, tx.starts)
      BY <3>1, <3>2, <3>5, LinkedPart, Zenon
    <3>. QED  BY <3>6, Zenon DEF v
  <2>3. << >> \in Seq(Cell) /\ socket' \in Seq(Cell) /\ Linked(InRow(buf, socket', << >>), tx.sent, tx.starts)
    BY <1>2, <2>1, <2>2
  <2>4. faults' = faults \/ faults' # {}
    BY <2>1, Zenon
  <2>. QED  BY <1>5, <2>1, <2>3, <2>4, Zenon
<1>. QED  BY <1>6, <1>7, Zenon

\* What the read future holds with the next cell.
Cells == Append(rx.buf, Head(socket))

\* They are the first ones of the stream.
LEMMA StreamBegins ==
    ASSUME SessionInv, socket # << >>, NEW f \in Seq(Cell)
    PROVE  /\ Cells \in Seq(Cell) /\ Len(Cells) >= 1
           /\ Stream(f) \in Seq(Cell) /\ Len(Cells) =< Len(Stream(f))
           /\ \A q \in 1..Len(Cells) : Stream(f)[q] = Cells[q]
<1>1. rx.buf \in Seq(Cell) /\ socket \in Seq(Cell)
  BY Zenon DEF SessionInv, SessionType, Reader
<1>2. PICK cells \in Seq(Cell) : cells = Cells /\ Len(cells) >= 1
  <2>1. Cells \in Seq(Cell) /\ Len(Cells) >= 1
    BY <1>1, HeadMoves DEF Cells
  <2>. QED  BY <2>1, Zenon
<1>3. PICK rest \in Seq(Cell) : Stream(f) = InRow(cells, rest, f)
  <2>1. Tail(socket) \in Seq(Cell) /\ Stream(f) = InRow(cells, Tail(socket), f)
    BY <1>1, <1>2, HeadMoves, ReadMoves, ZenonT(30) DEF Stream, InRow, Cells
  <2>. QED  BY <2>1, Zenon
<1>4. InRow(cells, rest, f) \in Seq(Cell) /\ Len(InRow(cells, rest, f)) = Len(cells) + Len(rest) + Len(f)
  BY Row, Zenon
<1>5. \A q \in 1..Len(cells) : InRow(cells, rest, f)[q] = cells[q]
  BY Row, Zenon
<1>6. Len(cells) \in Nat /\ Len(rest) \in Nat /\ Len(f) \in Nat
  OBVIOUS
<1>7. Len(cells) =< Len(InRow(cells, rest, f))
  BY <1>4, <1>6
<1>. QED  BY <1>2, <1>3, <1>4, <1>5, <1>7, Zenon

\* Without a fault the cells of the read future are the first ones of the frame of
\* the next payload.
LEMMA CellsInOrder ==
    ASSUME SessionInv, faults = {}, socket # << >>
    PROVE  \E p \in Nat \ {0} :
              /\ Cells[1] = LengthCell(p)
              /\ \A i \in 1..p : i + 1 =< Len(Cells) => Cells[i + 1] = PartCell(rx.recv_nonce + i - 1)
<1>. DEFINE sent == tx.sent
            starts == tx.starts
            next == tx.send_nonce
            D == Len(rx.delivered)
            R == rx.recv_nonce
<1>1. PICK f \in Seq(Cell) :
              /\ Dispatched + Len(Stream(f)) = next + Len(sent)
              /\ Placed(Stream(f), sent, starts, Dispatched)
  BY PendingFrame, Zenon
<1>2. PICK w : w = Stream(f)
  BY Zenon
<1>3. /\ sent \in Seq(Messages) /\ starts \in Seq(Nat) /\ next \in Nat /\ R \in Nat
      /\ rx.buf \in Seq(Cell) /\ socket \in Seq(Cell) /\ rx.delivered \in Seq(Messages)
      /\ Owned(sent, starts, next)
  BY Zenon DEF SessionInv, SessionType, Reader
<1>4. D \in 0..Len(sent) /\ R = Expects(sent, starts, next, D)
  BY <1>3 DEF SessionInv, ReaderOK
<1>5. PICK cells \in Seq(Cell) : cells = Cells
  BY StreamBegins, Zenon
<1>6. /\ w \in Seq(Cell) /\ Len(cells) =< Len(w) /\ Len(cells) \in Nat /\ Len(cells) >= 1
      /\ \A q \in 1..Len(cells) : w[q] = cells[q]
  BY <1>2, <1>5, StreamBegins
<1>7. w # << >>
  BY <1>6
<1>. HIDE DEF sent, starts, next, D, R
<1>8. Dispatched = R + D
  BY Zenon DEF Dispatched, R, D
<1>9. R + D + Len(w) = next + Len(sent) /\ Placed(w, sent, starts, R + D)
  BY <1>1, <1>2, <1>8, Zenon
<1>10. /\ D < Len(sent) /\ w[1] = LengthCell(Parts[sent[D + 1]])
       /\ \A i \in 1..Parts[sent[D + 1]] : i + 1 =< Len(w) => w[i + 1] = PartCell(R + i - 1)
  <2>1. InSync(w, sent, starts, next, D, R)
    BY <1>3, <1>4, <1>6, <1>9, Zenon DEF InSync
  <2>2. D < Len(sent) /\ w[1] = LengthCell(Parts[sent[D + 1]])
    BY <1>7, <2>1, InOrder
  <2>3. \A i \in 1..Parts[sent[D + 1]] : i + 1 =< Len(w) => w[i + 1] = PartCell(R + i - 1)
    BY <1>7, <2>1, InOrder
  <2>. QED  BY <2>2, <2>3, Zenon
<1>11. PICK p \in Nat \ {0} : p = Parts[sent[D + 1]]
  <2>1. D + 1 \in 1..Len(sent)
    BY <1>3, <1>4, <1>10
  <2>. QED  BY <1>3, <2>1, SomeParts, Zenon
<1>12. cells[1] = LengthCell(p)
  BY <1>6, <1>10, <1>11
<1>13. \A i \in 1..p : i + 1 =< Len(cells) => cells[i + 1] = PartCell(R + i - 1)
  <2>. SUFFICES ASSUME NEW i \in 1..p, i + 1 =< Len(cells)
                PROVE  cells[i + 1] = PartCell(R + i - 1)
    BY Zenon
  <2>1. i + 1 \in 1..Len(cells) /\ i + 1 =< Len(w)
    BY <1>6
  <2>. QED  BY <1>6, <1>10, <1>11, <2>1, Zenon
<1>. QED  BY <1>5, <1>11, <1>12, <1>13, Zenon DEF R

\* A read future never holds more than it asked for.
LEMMA CellsWanted ==
    ASSUME SessionInv, socket # << >>, Cells[1].kind # "part", ~(Len(Cells) < Wanted(Cells))
    PROVE  Len(Cells) = Wanted(Cells) /\ Len(Cells) >= 2
<1>1. PICK cells : cells = Cells
  BY Zenon
<1>2. rx.buf \in Seq(Cell) /\ socket \in Seq(Cell) /\ Head(socket) \in Cell
  BY HeadMoves, Zenon DEF SessionInv, SessionType, Reader
<1>3. cells \in Seq(Cell) /\ Len(cells) = Len(rx.buf) + 1 /\ Len(rx.buf) \in Nat
  BY <1>1, <1>2 DEF Cells
<1>4. cells[1] \in Cell
  BY <1>3
<1>5. Wanted(cells) \in Nat /\ Wanted(cells) >= 2
  BY <1>4 DEF Wanted, Cell
<1>6. rx.buf # << >>
  BY <1>1, <1>2, <1>3, <1>5
<1>7. cells[1] = rx.buf[1]
  BY <1>1, <1>2, <1>6 DEF Cells
<1>8. Len(rx.buf) < Wanted(rx.buf) /\ Wanted(rx.buf) = Wanted(cells)
  BY <1>6, <1>7, Zenon DEF SessionInv, ReaderOK, Wanted
<1>. QED  BY <1>1, <1>3, <1>5, <1>8

\* The read future after a frame of p parts was dispatched.
Dispatch(p, m) ==
    [rx EXCEPT !.buf = << >>, !.age = 0, !.first_frame = FALSE,
               !.recv_nonce = rx.recv_nonce + p, !.delivered = Append(@, m)]

\* The step that dispatches the next payload, of p parts.
Dispatches(p) ==
    /\ Len(rx.delivered) < Len(tx.sent) /\ p = Parts[tx.sent[Len(rx.delivered) + 1]]
    /\ Len(Cells) = p + 1 /\ rx' = Dispatch(p, tx.sent[Len(rx.delivered) + 1])

\* What reading a cell comes to: the frame is not complete, or the session ends, which
\* takes a fault, or the next payload is dispatched.
LEMMA ReadCellIs ==
    ASSUME SessionInv, ReadCell
    PROVE  \/ rx' = [rx EXCEPT !.buf = Cells] /\ Cells[1].kind # "part" /\ Len(Cells) < Wanted(Cells)
           \/ faults # {} /\ rx' = CloseSession
           \/ \E p \in Nat \ {0} : Dispatches(p)
<1>. DEFINE sent == tx.sent
            starts == tx.starts
            next == tx.send_nonce
            D == Len(rx.delivered)
            R == rx.recv_nonce
<1>1. /\ socket # << >>
      /\ rx' = IF Cells[1].kind = "part" THEN CloseSession
               ELSE IF Len(Cells) < Wanted(Cells) THEN [rx EXCEPT !.buf = Cells] ELSE FrameRead(Cells)
  BY Zenon DEF ReadCell, Cells
<1>2. CASE Cells[1].kind = "part"
  <2>1. faults # {}
    <3>. SUFFICES ASSUME faults = {} PROVE FALSE
      BY Zenon
    <3>1. PICK p \in Nat \ {0} : Cells[1] = LengthCell(p)
      BY <1>1, CellsInOrder, Zenon
    <3>. QED  BY <1>2, <3>1 DEF LengthCell
  <2>. QED  BY <1>1, <1>2, <2>1, Zenon
<1>3. CASE Cells[1].kind # "part" /\ Len(Cells) < Wanted(Cells)
  BY <1>1, <1>3, Zenon
<1>4. CASE Cells[1].kind # "part" /\ ~(Len(Cells) < Wanted(Cells))
  <2>1. Len(Cells) = Wanted(Cells) /\ Len(Cells) >= 2 /\ rx' = FrameRead(Cells)
    BY <1>1, <1>4, CellsWanted, Zenon
  <2>2. PICK f \in Seq(Cell) : Linked(Stream(f), sent, starts)
    BY PendingFrame, Zenon
  <2>3. PICK cells \in Seq(Cell) : cells = Cells
    BY <1>1, <2>2, StreamBegins, Zenon
  <2>4. /\ Len(cells) \in Nat /\ Len(cells) >= 2 /\ Len(Tail(cells)) = Len(cells) - 1
        /\ DOMAIN Tail(cells) = 1..(Len(cells) - 1)
        /\ \A i \in 1..(Len(cells) - 1) : Tail(cells)[i] = cells[i + 1]
    BY <2>1, <2>3
  <2>5. CASE ~Decrypts(Cells)
    <3>1. SUFFICES ASSUME faults = {} PROVE FALSE
      BY <2>1, <2>5, Zenon DEF FrameRead
    <3>2. PICK p \in Nat \ {0} :
              /\ cells[1] = LengthCell(p)
              /\ \A i \in 1..p : i + 1 =< Len(cells) => cells[i + 1] = PartCell(R + i - 1)
      BY <1>1, <2>3, <3>1, CellsInOrder, Zenon
    <3>3. Len(cells) = 1 + p
      BY <2>1, <2>3, <3>2 DEF Wanted, LengthCell
    <3>4. \A i \in DOMAIN Tail(cells) : Tail(cells)[i] = PartCell(R + i - 1)
      BY <2>4, <3>2, <3>3
    <3>5. Decrypts(cells)
      BY <3>2, <3>4 DEF Decrypts, LengthCell
    <3>. QED  BY <2>3, <2>5, <3>5, Zenon
  <2>6. CASE Decrypts(Cells)
    <3>1. cells[1].kind = "len" /\ \A i \in 1..(Len(cells) - 1) : cells[i + 1] = PartCell(R + i - 1)
      BY <2>3, <2>4, <2>6, Zenon DEF Decrypts
    <3>2. R \in Nat
      BY Zenon DEF SessionInv, SessionType, Reader
    <3>3. cells[2] = PartCell(R)
      <4>1. 1 \in 1..(Len(cells) - 1) /\ R + 1 - 1 = R /\ 1 + 1 = 2
        BY <2>4, <3>2
      <4>. QED  BY <3>1, <4>1, Zenon
    <3>4. PICK w : w = Stream(f)
      BY Zenon
    <3>5. w \in Seq(Cell) /\ Len(w) >= 2 /\ w[1] = cells[1] /\ w[2] = cells[2]
      BY <1>1, <2>3, <2>4, <3>4, StreamBegins, SMTT(30)
    <3>6. OnStream(w, sent, starts, next, D, R)
      BY <2>2, <3>4, <3>5 DEF SessionInv, SessionType, Reader, ReaderOK, OnStream
    <3>7. D < Len(sent) /\ w[1].n = Parts[sent[D + 1]]
      BY <3>1, <3>3, <3>5, <3>6, NextFrame, SMTT(30)
    <3>8. (CHOOSE i \in DOMAIN sent : starts[i] = R) = D + 1
      BY <3>1, <3>3, <3>5, <3>6, NextFrame, SMTT(30)
    <3>9. PICK p \in Nat \ {0} : p = Parts[sent[D + 1]]
      <4>1. sent \in Seq(Messages) /\ D \in Nat /\ D + 1 \in 1..Len(sent)
        BY <3>7, SMTT(30) DEF SessionInv, SessionType, Reader
      <4>. QED  BY <4>1, SomeParts, Zenon
    <3>10. Len(cells) = p + 1
      <4>1. cells[1].n = p
        BY <3>5, <3>7, <3>9, Zenon
      <4>2. Len(cells) = Wanted(cells)
        BY <2>1, <2>3, Zenon
      <4>. QED  BY <3>1, <4>1, <4>2 DEF Wanted
    <3>11. cells[Len(cells)].n + 1 = R + p
      <4>1. p \in 1..(Len(cells) - 1) /\ Len(cells) = p + 1
        BY <2>4, <3>10
      <4>2. cells[Len(cells)] = PartCell(R + p - 1)
        BY <3>1, <4>1, Zenon
      <4>. QED  BY <3>2, <4>2 DEF PartCell
    <3>12. PayloadAt(cells[2].n) = sent[D + 1]
      <4>1. cells[2].n = R
        BY <3>3 DEF PartCell
      <4>2. PayloadAt(R) = sent[D + 1]
        BY <3>8, Zenon DEF PayloadAt
      <4>. QED  BY <4>1, <4>2, Zenon
    <3>13. rx' = Dispatch(p, sent[D + 1])
      BY <2>1, <2>3, <2>6, <3>11, <3>12, Zenon DEF FrameRead, Dispatch
    <3>. QED  BY <2>3, <3>7, <3>9, <3>10, <3>13, Zenon DEF Dispatches
  <2>. QED  BY <2>5, <2>6, Zenon
<1>. QED  BY <1>2, <1>3, <1>4, Zenon

\* The stream without its first sequence.
LEMMA Behind ==
    ASSUME NEW a \in Seq(Cell), NEW b \in Seq(Cell), NEW c \in Seq(Cell)
    PROVE  /\ InRow(a, b, c) \in Seq(Cell) /\ InRow(<< >>, b, c) \in Seq(Cell)
           /\ Len(InRow(<< >>, b, c)) + Len(a) = Len(InRow(a, b, c))
           /\ \A q \in 1..Len(InRow(<< >>, b, c)) : InRow(<< >>, b, c)[q] = InRow(a, b, c)[q + Len(a)]
<1>1. PICK d : d = b \o c
  BY Zenon
<1>2. d \in Seq(Cell)
  BY <1>1, Joined, Zenon
<1>3. InRow(<< >>, b, c) = d
  BY <1>1, ConcatEmptySeq, Zenon DEF InRow
<1>4. InRow(a, b, c) = a \o d
  BY <1>1, ConcatAssociative, SMTT(30) DEF InRow
<1>5. /\ a \o d \in Seq(Cell) /\ Len(a \o d) = Len(a) + Len(d)
      /\ \A q \in 1..Len(d) : (a \o d)[Len(a) + q] = d[q]
  BY <1>2, Joined, Zenon
<1>6. Len(a) \in Nat /\ Len(d) \in Nat /\ \A q \in 1..Len(d) : q + Len(a) = Len(a) + q
  BY <1>2
<1>. QED  BY <1>2, <1>3, <1>4, <1>5, <1>6

\* The reader's record after its updates.
LEMMA AfterClose ==
    ASSUME NEW r \in Reader, NEW open \in BOOLEAN, NEW first \in BOOLEAN, NEW b \in Seq(Cell)
    PROVE  LET u == [r EXCEPT !.open = open, !.first_frame = first, !.buf = b]
           IN  u \in Reader /\ u.buf = b /\ u.recv_nonce = r.recv_nonce /\ u.delivered = r.delivered
  BY Zenon DEF Reader

\* Dispatching a payload takes its frame off the stream.
LEMMA DispatchStep ==
    ASSUME SessionInv, socket # << >>, socket' = Tail(socket), tx' = tx, faults' = faults,
           NEW p \in Nat \ {0}, Dispatches(p)
    PROVE  SessionInv'
<1>. DEFINE sent == tx.sent
            starts == tx.starts
            next == tx.send_nonce
            D == Len(rx.delivered)
            R == rx.recv_nonce
<1>1. /\ sent \in Seq(Messages) /\ starts \in Seq(Nat) /\ next \in Nat /\ R \in Nat
      /\ rx.buf \in Seq(Cell) /\ socket \in Seq(Cell) /\ rx.delivered \in Seq(Messages) /\ D \in Nat
      /\ rx \in Reader
  BY DEF SessionInv, SessionType, Reader
<1>2. Owned(sent, starts, next) /\ R = Expects(sent, starts, next, D)
  BY Zenon DEF SessionInv, ReaderOK
<1>3. D + 1 \in 1..Len(sent) /\ sent[D + 1] \in Messages
  BY <1>1 DEF Dispatches
<1>4. /\ rx' \in Reader /\ rx'.buf = << >> /\ rx'.recv_nonce = R + p
      /\ rx'.delivered = Append(rx.delivered, sent[D + 1]) /\ rx'.open = rx.open
  <2>1. /\ << >> \in Seq(Cell) /\ 0 \in Nat /\ FALSE \in BOOLEAN /\ R + p \in Nat
        /\ Append(rx.delivered, sent[D + 1]) \in Seq(Messages)
    BY <1>1, <1>3, SMTT(30)
  <2>2. rx' = [rx EXCEPT !.buf = << >>, !.age = 0, !.first_frame = FALSE, !.recv_nonce = R + p,
                         !.delivered = Append(rx.delivered, sent[D + 1])]
    BY Zenon DEF Dispatches, Dispatch
  <2>3. rx \in Reader
    BY <1>1, Zenon
  <2>. DEFINE d == Append(rx.delivered, sent[D + 1])
              n == R + p
              b == << >>
  <2>4. b \in Seq(Cell) /\ n \in Nat /\ d \in Seq(Messages)
    BY <2>1, Zenon
  <2>5. \E first \in BOOLEAN :
           rx' = [rx EXCEPT !.buf = b, !.age = 0, !.first_frame = first, !.recv_nonce = n, !.delivered = d]
    <3>1. rx' = [rx EXCEPT !.buf = b, !.age = 0, !.first_frame = FALSE, !.recv_nonce = n, !.delivered = d]
      BY <2>2, Zenon
    <3>. HIDE DEF b, n, d
    <3>. QED  BY <2>1, <3>1, Zenon
  <2>6. rx' \in Reader /\ rx'.buf = b /\ rx'.recv_nonce = n /\ rx'.delivered = d /\ rx'.open = rx.open
    <3>1. PICK first \in BOOLEAN :
            rx' = [rx EXCEPT !.buf = b, !.age = 0, !.first_frame = first, !.recv_nonce = n, !.delivered = d]
      BY <2>5, Zenon
    <3>. HIDE DEF b, n, d
    <3>. QED  BY <2>3, <2>4, <3>1, Zenon DEF Reader
  <2>. QED  BY <2>6, Zenon
<1>5. Len(rx'.delivered) = D + 1
  <2>1. rx'.delivered = Append(rx.delivered, sent[D + 1])
    BY <1>4, Zenon
  <2>2. Len(Append(rx.delivered, sent[D + 1])) = D + 1
    BY <1>1, <1>3
  <2>. QED  BY <2>1, <2>2, Zenon
<1>6. Tail(socket) \in Seq(Cell)
  BY <1>1
<1>7. SessionType'
  BY <1>4, <1>6, Zenon DEF SessionInv, SessionType
<1>8. Owned(tx.sent, tx.starts, tx.send_nonce)'
  BY <1>2, Zenon
<1>9. ReaderOK'
  <2>1. R = starts[D + 1]
    BY <1>1, <1>2 DEF Expects, Dispatches
  <2>2. starts[D + 1] + p = IF D + 1 = Len(sent) THEN next ELSE starts[(D + 1) + 1]
    BY <1>3, Zenon DEF SessionInv, Owned, Dispatches
  <2>3. R + p = Expects(sent, starts, next, D + 1)
    BY <2>1, <2>2, Zenon DEF Expects
  <2>4. D + 1 =< Len(sent) /\ (~rx'.open => faults # {})
    BY <1>3, <1>4 DEF SessionInv, ReaderOK
  <2>. QED  BY <1>4, <1>5, <2>3, <2>4, ZenonT(30) DEF ReaderOK
<1>10. StreamOK'
  <2>1. PICK f \in Seq(Cell) :
              /\ Pending(f) /\ Linked(Stream(f), sent, starts)
              /\ faults = {} => /\ Dispatched + Len(Stream(f)) = next + Len(sent)
                                /\ Placed(Stream(f), sent, starts, Dispatched)
    BY PendingFrame, Zenon
  <2>2. PICK cells, rest, w, v : /\ cells = Cells /\ rest = Tail(socket)
                                 /\ w = InRow(cells, rest, f) /\ v = InRow(<< >>, rest, f)
    BY Zenon
  <2>3. cells \in Seq(Cell) /\ rest \in Seq(Cell) /\ Len(cells) = p + 1
    BY <1>6, <2>2, StreamBegins, Zenon DEF Dispatches
  <2>4. Stream(f) = w /\ Stream(f)' = v
    BY <1>1, <1>4, <2>2, ReadMoves, Zenon DEF Stream, InRow, Cells
  <2>5. /\ w \in Seq(Cell) /\ v \in Seq(Cell) /\ Len(v) + (p + 1) = Len(w)
        /\ \A q \in 1..Len(v) : v[q] = w[q + (p + 1)]
    <3>1. /\ InRow(cells, rest, f) \in Seq(Cell) /\ InRow(<< >>, rest, f) \in Seq(Cell)
          /\ Len(InRow(<< >>, rest, f)) + Len(cells) = Len(InRow(cells, rest, f))
      BY <2>3, Behind, Zenon
    <3>2. \A q \in 1..Len(InRow(<< >>, rest, f)) :
             InRow(<< >>, rest, f)[q] = InRow(cells, rest, f)[q + Len(cells)]
      BY <2>3, Behind, Zenon
    <3>. QED  BY <2>2, <2>3, <3>1, <3>2, Zenon
  <2>6. Linked(v, sent, starts)
    <3>1. Len(v) + (p + 1) =< Len(w) /\ p + 1 \in Nat
      <4>1. Len(w) \in Nat /\ Len(v) + (p + 1) = Len(w)
        BY <2>5
      <4>. QED  BY <4>1
    <3>. QED  BY <2>1, <2>4, <2>5, <3>1, LinkedPart, Zenon
  <2>7. Dispatched \in Nat /\ Dispatched' = Dispatched + (p + 1)
    <3>1. Dispatched = R + D /\ Dispatched' = (R + p) + (D + 1)
      BY <1>4, <1>5, Zenon DEF Dispatched
    <3>2. R \in Nat /\ D \in Nat
      BY <1>1, Zenon
    <3>. HIDE DEF R, D
    <3>. QED  BY <3>1, <3>2
  <2>8. ASSUME faults = {}
        PROVE  Dispatched' + Len(v) = next + Len(sent) /\ Placed(v, sent, starts, Dispatched')
    <3>1. Placed(w, sent, starts, Dispatched) /\ Len(sent) = Len(starts) /\ p + 1 \in Nat
      BY <1>2, <2>1, <2>4, <2>8 DEF Owned
    <3>2. Placed(v, sent, starts, Dispatched + (p + 1))
      BY <1>1, <2>5, <2>7, <3>1, PlacedSuffix, Zenon
    <3>3. Dispatched + Len(w) = next + Len(sent)
      BY <2>1, <2>4, <2>8, Zenon
    <3>4. Dispatched' + Len(v) = Dispatched + Len(w)
      <4>1. Len(v) \in Nat /\ Len(v) + (p + 1) = Len(w)
        BY <2>5
      <4>. QED  BY <2>7, <4>1, SMTT(30)
    <3>. QED  BY <2>7, <3>2, <3>3, <3>4, ZenonT(30)
  <2>9. Pending(f)' /\ f \in {<< >>} \cup {tx'.frame[s] : s \in Senders}
    BY <2>1, Zenon DEF Pending
  <2>. QED  BY <2>4, <2>6, <2>8, <2>9, Zenon DEF StreamOK
<1>. QED  BY <1>7, <1>8, <1>9, <1>10, Zenon DEF SessionInv

\* ReadCell keeps the invariant in each of its cases.
LEMMA ReadCellStep ==
    ASSUME SessionInv, ReadCell
    PROVE  SessionInv'
<1>1. socket # << >> /\ socket' = Tail(socket) /\ tx' = tx /\ faults' = faults
  BY Zenon DEF ReadCell
<1>2. rx \in Reader /\ rx.buf \in Seq(Cell) /\ socket \in Seq(Cell)
  BY Zenon DEF SessionInv, SessionType, Reader
<1>3. Tail(socket) \in Seq(Cell) /\ Cells \in Seq(Cell) /\ Cells \o Tail(socket) = rx.buf \o socket
  BY <1>1, <1>2, HeadMoves, Zenon DEF Cells
<1>4. CASE rx' = [rx EXCEPT !.buf = Cells] /\ Cells[1].kind # "part" /\ Len(Cells) < Wanted(Cells)
  <2>1. /\ rx' \in Reader /\ rx'.buf = Cells /\ rx'.recv_nonce = rx.recv_nonce
        /\ rx'.delivered = rx.delivered /\ rx'.open = rx.open
    BY <1>2, <1>3, <1>4, Zenon DEF Reader
  <2>. QED  BY <1>1, <1>3, <1>4, <2>1, StreamKept, Zenon
<1>5. CASE faults # {} /\ rx' = CloseSession
  <2>1. /\ rx' \in Reader /\ rx'.buf = << >> /\ rx'.recv_nonce = rx.recv_nonce
        /\ rx'.delivered = rx.delivered
    <3>1. << >> \in Seq(Cell) /\ FALSE \in BOOLEAN
      OBVIOUS
    <3>. QED  BY <1>2, <1>5, <3>1, AfterClose, Zenon DEF CloseSession
  <2>2. Len(socket') + 1 = Len(socket) /\ \A q \in 1..Len(socket') : socket'[q] = socket[q + 1]
    BY <1>1, <1>2
  <2>. QED  BY <1>1, <1>3, <1>5, <2>1, <2>2, CellsLost, Zenon
<1>6. CASE \E p \in Nat \ {0} : Dispatches(p)
  BY <1>1, <1>6, DispatchStep, Zenon
<1>. QED  BY <1>4, <1>5, <1>6, ReadCellIs, Zenon

\* The tick drops the read future, and perhaps the cell it had begun.
LEMMA TickStep ==
    ASSUME SessionInv, NEW torn \in BOOLEAN, Tick(torn)
    PROVE  SessionInv'
<1>1. rx \in Reader /\ rx.buf \in Seq(Cell) /\ socket \in Seq(Cell)
  BY Zenon DEF SessionInv, SessionType, Reader
<1>2. /\ rx' = [rx EXCEPT !.buf = << >>, !.age = 0] /\ tx' = tx
      /\ socket' = IF torn THEN <<Torn>> \o Tail(socket) ELSE socket
      /\ torn => socket # << >>
      /\ faults' = IF torn \/ rx.buf # << >> THEN faults \cup {"cancelled"} ELSE faults
  BY Zenon DEF Tick
<1>3. /\ rx' \in Reader /\ rx'.buf = << >> /\ rx'.recv_nonce = rx.recv_nonce
      /\ rx'.delivered = rx.delivered /\ rx'.open = rx.open
  <2>1. << >> \in Seq(Cell) /\ rx' = [rx EXCEPT !.buf = << >>, !.age = 0]
    BY <1>2
  <2>. QED  BY <1>1, <2>1, Zenon DEF Reader
<1>4. CASE torn
  <2>1. PICK rest \in Seq(Cell) : rest = Tail(socket)
    <3>1. socket # << >>
      BY <1>2, <1>4, Zenon
    <3>2. Tail(socket) \in Seq(Cell)
      BY <1>1, <3>1
    <3>. QED  BY <3>2, Zenon
  <2>2. Len(rest) + 1 = Len(socket) /\ \A q \in 1..Len(rest) : rest[q] = socket[q + 1]
    BY <1>1, <1>2, <1>4, <2>1
  <2>3. PICK t \in Cell : t = Torn
    BY Zenon DEF Torn, Cell
  <2>4. t.kind = "torn"
    BY <2>3, Zenon DEF Torn
  <2>5. PICK v \in Seq(Cell) : v = <<t>> \o rest
    <3>1. <<t>> \in Seq(Cell)
      BY <2>3
    <3>. QED  BY <3>1, Joined, Zenon
  <2>6. v[1] = t /\ Len(v) = 1 + Len(rest) /\ \A q \in 1..Len(rest) : v[q + 1] = rest[q]
    BY <2>5
  <2>7. socket' = v /\ faults' # {}
    BY <1>2, <1>4, <2>1, <2>3, <2>5, Zenon
  <2>8. Len(v) + 0 = Len(socket)
    BY <1>1, <2>2, <2>6
  <2>9. \A q \in 1..Len(v) : v[q] = socket[q + 0] \/ v[q].kind = "torn"
    <3>. SUFFICES ASSUME NEW q \in 1..Len(v) PROVE v[q] = socket[q] \/ v[q].kind = "torn"
      BY <1>1
    <3>1. CASE q = 1
      BY <2>4, <2>6, <3>1, Zenon
    <3>2. CASE q # 1
      <4>1. q - 1 \in 1..Len(rest) /\ (q - 1) + 1 = q
        BY <2>6, <3>2
      <4>. QED  BY <2>2, <2>6, <4>1, Zenon
    <3>. QED  BY <3>1, <3>2, Zenon
  <2>. QED  BY <1>2, <1>3, <2>7, <2>8, <2>9, CellsLost, Zenon
<1>5. CASE ~torn /\ rx.buf # << >>
  <2>1. socket' = socket /\ faults' # {}
    BY <1>2, <1>5, Zenon
  <2>2. Len(socket) + 0 = Len(socket) /\ \A q \in 1..Len(socket) : socket[q] = socket[q + 0]
    BY <1>1
  <2>. QED  BY <1>1, <1>2, <1>3, <2>1, <2>2, CellsLost, Zenon
<1>6. CASE ~torn /\ rx.buf = << >>
  <2>1. socket' = socket /\ faults' = faults /\ rx'.buf \o socket' = rx.buf \o socket
    BY <1>2, <1>3, <1>6, Zenon
  <2>. QED  BY <1>1, <1>2, <1>3, <2>1, StreamKept, Zenon
<1>. QED  BY <1>4, <1>5, <1>6, Zenon

\* The end of the loop loses what the read future holds.
LEMMA LoopEndsStep ==
    ASSUME SessionInv, NEW shutdown \in BOOLEAN, LoopEnds(shutdown)
    PROVE  SessionInv'
<1>1. rx \in Reader /\ rx.buf \in Seq(Cell) /\ socket \in Seq(Cell)
  BY Zenon DEF SessionInv, SessionType, Reader
<1>2. rx' = CloseSession /\ tx' = tx /\ socket' = socket /\ faults' # {}
  BY Zenon DEF LoopEnds
<1>3. /\ rx' \in Reader /\ rx'.buf = << >> /\ rx'.recv_nonce = rx.recv_nonce
      /\ rx'.delivered = rx.delivered
  <2>1. << >> \in Seq(Cell) /\ FALSE \in BOOLEAN
    OBVIOUS
  <2>. QED  BY <1>1, <1>2, <2>1, AfterClose, Zenon DEF CloseSession
<1>4. Len(socket) + 0 = Len(socket) /\ \A q \in 1..Len(socket) : socket[q] = socket[q + 0]
  BY <1>1
<1>. QED  BY <1>1, <1>2, <1>3, <1>4, CellsLost, Zenon

\* Time only ages the read future.
LEMMA TimePassesStep ==
    ASSUME SessionInv, TimePasses
    PROVE  SessionInv'
<1>1. rx \in Reader /\ rx.buf \in Seq(Cell) /\ socket \in Seq(Cell)
  BY Zenon DEF SessionInv, SessionType, Reader
<1>2. rx' = [rx EXCEPT !.age = @ + 1] /\ tx' = tx /\ socket' = socket /\ faults' = faults
  BY Zenon DEF TimePasses
<1>3. /\ rx' \in Reader /\ rx'.buf = rx.buf /\ rx'.recv_nonce = rx.recv_nonce
      /\ rx'.delivered = rx.delivered /\ rx'.open = rx.open
  BY <1>1, <1>2, SMTT(30) DEF Reader
<1>4. rx.buf # << >> => rx.buf[1].kind # "part" /\ Len(rx.buf) < Wanted(rx.buf)
  BY Zenon DEF SessionInv, ReaderOK
<1>. QED  BY <1>1, <1>2, <1>3, <1>4, StreamKept, Zenon

\* Every step keeps the invariant.
LEMMA SessionStep ==
    ASSUME SessionInv, [SessionNext]_session_vars
    PROVE  SessionInv'
<1>1. CASE \E s \in Senders, m \in Messages : Encrypt(s, m)
  BY <1>1, EncryptStep, Zenon
<1>2. CASE \E s \in Senders : TryWrite(s)
  BY <1>2, TryWriteStep, Zenon
<1>3. CASE ReadCell
  BY <1>3, ReadCellStep, Zenon
<1>4. CASE \E torn \in BOOLEAN : Tick(torn)
  BY <1>4, TickStep, Zenon
<1>5. CASE \E shutdown \in BOOLEAN : LoopEnds(shutdown)
  BY <1>5, LoopEndsStep, Zenon
<1>6. CASE TimePasses
  BY <1>6, TimePassesStep, Zenon
<1>7. CASE UNCHANGED session_vars
  <2>1. tx' = tx /\ socket' = socket /\ rx' = rx /\ faults' = faults
    BY <1>7, Zenon DEF session_vars
  <2>. QED
    BY <2>1, Zenon DEF SessionInv, SessionType, ReaderOK, StreamOK, Stream, Pending, Dispatched, Wanted
<1>. QED  BY <1>1, <1>2, <1>3, <1>4, <1>5, <1>6, <1>7, Zenon DEF SessionNext

\* The invariant holds in every state of a session.
THEOREM SessionInvariant == SessionSpec => []SessionInv
<1>. QED  BY SessionStarts, SessionStep, PTL DEF SessionSpec

(***************************************************************************)
(* The refinement                                                          *)
(***************************************************************************)
LEMMA ChannelStarts == SessionInit => Promise!ChannelInit
<1>. SUFFICES ASSUME SessionInit PROVE Promise!ChannelInit
  BY Zenon
<1>1. tx.sent = << >>
  BY Zenon DEF SessionInit
<1>2. rx.delivered = << >> /\ rx.open \in BOOLEAN
  BY DEF SessionInit
<1>3. (faults # {}) = ~rx.open
  BY <1>2, Zenon DEF SessionInit
<1>. QED  BY <1>1, <1>2, <1>3, Zenon DEF Promise!ChannelInit

\* Every step of the session is one of the channel, or changes nothing it shows.
LEMMA ChannelStep ==
    ASSUME SessionInv, [SessionNext]_session_vars
    PROVE  [Promise!ChannelNext]_(Promise!channel_vars)
<1>1. rx \in Reader /\ tx.sent \in Seq(Messages)
  BY Zenon DEF SessionInv, SessionType
<1>2. ASSUME NEW s \in Senders, NEW m \in Messages, Encrypt(s, m)
      PROVE  Promise!Send(m)
  <2>1. rx' = rx /\ faults' = faults /\ tx'.sent = Append(tx.sent, m)
    BY <1>2, Zenon DEF Encrypt, SessionInv, SessionType
  <2>. QED  BY <2>1, Zenon DEF Promise!Send
<1>3. ASSUME NEW s \in Senders, TryWrite(s)
      PROVE  Promise!GoesWrong \/ UNCHANGED Promise!channel_vars
  <2>1. rx' = rx /\ tx'.sent = tx.sent /\ (faults' = faults \/ faults' # {})
    BY <1>3, Zenon DEF TryWrite, SessionInv, SessionType
  <2>. QED  BY <2>1, Zenon DEF Promise!GoesWrong, Promise!channel_vars
<1>4. CASE ReadCell
  <2>1. tx' = tx /\ faults' = faults /\ rx.open
    BY <1>4, Zenon DEF ReadCell, Polled
  <2>2. CASE rx' = [rx EXCEPT !.buf = Cells]
    <3>1. rx'.delivered = rx.delivered /\ rx'.open = rx.open
      BY <1>1, <2>2, Zenon DEF Reader
    <3>. QED  BY <2>1, <3>1, Zenon DEF Promise!channel_vars
  <2>3. CASE faults # {} /\ rx' = CloseSession
    <3>1. rx'.delivered = rx.delivered /\ rx'.open = FALSE
      BY <1>1, <2>3, Zenon DEF Reader, CloseSession
    <3>. QED  BY <2>1, <2>3, <3>1, Zenon DEF Promise!ChannelNext, Promise!End
  <2>4. CASE \E p \in Nat \ {0} : Dispatches(p)
    <3>1. /\ Len(rx.delivered) < Len(tx.sent) /\ rx'.open = rx.open
          /\ rx'.delivered = Append(rx.delivered, tx.sent[Len(rx.delivered) + 1])
      BY <1>1, <2>4, Zenon DEF Reader, Dispatches, Dispatch
    <3>. QED  BY <2>1, <3>1, Zenon DEF Promise!ChannelNext, Promise!Deliver
  <2>. QED  BY <1>4, <2>2, <2>3, <2>4, ReadCellIs, Zenon
<1>5. ASSUME NEW torn \in BOOLEAN, Tick(torn)
      PROVE  Promise!GoesWrong \/ UNCHANGED Promise!channel_vars
  <2>1. tx' = tx /\ rx' = [rx EXCEPT !.buf = << >>, !.age = 0] /\ (faults' = faults \/ faults' # {})
    BY <1>5, Zenon DEF Tick
  <2>2. rx'.delivered = rx.delivered /\ rx'.open = rx.open
    BY <1>1, <2>1, Zenon DEF Reader
  <2>. QED  BY <2>1, <2>2, Zenon DEF Promise!GoesWrong, Promise!channel_vars
<1>6. ASSUME NEW shutdown \in BOOLEAN, LoopEnds(shutdown)
      PROVE  Promise!End
  <2>1. tx' = tx /\ rx' = CloseSession /\ faults' # {} /\ rx.open
    BY <1>6, Zenon DEF LoopEnds
  <2>2. rx'.delivered = rx.delivered /\ rx'.open = FALSE
    BY <1>1, <2>1, Zenon DEF Reader, CloseSession
  <2>. QED  BY <2>1, <2>2, Zenon DEF Promise!End
<1>7. CASE TimePasses
  <2>1. tx' = tx /\ faults' = faults /\ rx' = [rx EXCEPT !.age = @ + 1]
    BY <1>7, Zenon DEF TimePasses
  <2>2. rx'.delivered = rx.delivered /\ rx'.open = rx.open
    BY <1>1, <2>1, Zenon DEF Reader
  <2>. QED  BY <2>1, <2>2, Zenon DEF Promise!channel_vars
<1>8. CASE UNCHANGED session_vars
  BY <1>8, Zenon DEF session_vars, Promise!channel_vars
<1>. QED  BY <1>2, <1>3, <1>4, <1>5, <1>6, <1>7, <1>8, Zenon DEF SessionNext, Promise!ChannelNext

\* KeepsChannelPromise, for any payloads, senders and socket capacity: send_payload,
\* decrypt_frame and the connection loop dispatch payloads in encryption order, and a
\* session only ends after a fault.
THEOREM SessionKeepsPromise == SessionSpec => KeepsChannelPromise
<1>. QED
  BY SessionInvariant, ChannelStarts, ChannelStep, PTL
     DEF SessionSpec, KeepsChannelPromise, Promise!ChannelSpec

=============================================================================
