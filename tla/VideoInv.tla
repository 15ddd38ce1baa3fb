------------------------------ MODULE VideoInv -----------------------------
(***************************************************************************)
(* The inductive invariants behind OneOwnerPerBuffer, FramesInOrder and    *)
(* FramesWhole, and what the refinement of VideoStream needs beside them.  *)
(***************************************************************************)
EXTENDS VideoProps

-----------------------------------------------------------------------------
(* Buffers.  A frame is known by its producer and number, and a producer   *)
(* numbers its frames upwards: a new one is in no one's hands yet.         *)

Used(f) == f.from \in Producer /\ f.num <= made[f.from]

RelayInv ==
  /\ RelayOwns
  /\ \A f \in heap : Used(f)
  /\ \A p \in Holding : held[p].from = p
  /\ clientPc = "Sending" \/ (current = NoFrame /\ toSend = <<>>)

BuffersInv == RelayInv /\ NextOwns

-----------------------------------------------------------------------------
(* Framing                                                                 *)

Proper(u) ==
  \/ u.kind = "beat"
  \/ u.kind = "header" /\ u.frame \in Frame /\ u.left = Pieces
  \/ u.kind = "piece" /\ u.frame \in Frame /\ u.left \in 1 .. Pieces

\* What a header or a piece announces; Complete if it announces nothing.
Complete(u) == u.kind = "beat" \/ (u.kind = "piece" /\ u.left = 1)

Announces(u) == Piece(u.frame, IF u.kind = "header" THEN Pieces ELSE u.left - 1)

Follows(u, v) == IF Complete(u) THEN v.kind # "piece" ELSE v = Announces(u)

Framed(s) ==
  /\ \A i \in DOMAIN s : Proper(s[i])
  /\ \A i \in DOMAIN s : i > 1 => Follows(s[i - 1], s[i])

\* A framed stream whose first piece is the one expected, if any is, and which
\* ends with a frame if its client has not left it.
Wellformed(s, attached, midFrame, expected) ==
  /\ Framed(s)
  /\ s # <<>> => IF midFrame THEN s[1] = expected ELSE s[1].kind # "piece"
  /\ attached => IF s = <<>> THEN ~midFrame ELSE Complete(s[Len(s)])

\* What the server reads, and will read, from c: with what the client has
\* yet to write, if that is where it writes.
Incoming(c) == conn[c].data \o (IF clientOn = c THEN toSend ELSE <<>>)

MidFrame(c) == c = "accepted" /\ serverPc \in {"Body", "Drain"}

FramedSide(c) ==
  /\ Wellformed(Incoming(c), clientOn = c, MidFrame(c), Expected)
  /\ clientOn = c => conn[c].end = "open"

FramingInv ==
  /\ \A c \in Side : FramedSide(c)
  /\ serverPc = "Accepting" => conn["accepted"] = NoConn
  /\ serverPc \in {"Body", "Drain"} =>
       rx.frame \in Frame /\ rx.left \in 1 .. Pieces /\ rx.whole
  /\ clientPc = "Sending" \/ toSend = <<>>
  /\ AllWhole

-----------------------------------------------------------------------------
(* Order.  The places of a frame from next's output back to its producer:  *)
(* passed on, being read, in a connection, being written, queued, held.    *)

Passed == {delivered[i].frame : i \in DOMAIN delivered} \cap Frame

Place == <<Passed,
           IF serverPc = "Body" THEN {rx.frame} \cap Frame ELSE {},
           Frames(conn["accepted"].data),
           Frames(conn["backlog"].data),
           Frames(toSend),
           Elements(outQueue),
           {held[p] : p \in Holding}>>

Ordered(places) ==
  \A i, j \in 1 .. 7 :
    i < j => \A f \in places[i], g \in places[j] : Earlier(f, g)

InSequence(s) == \A i, j \in Headers(s) : i < j => Earlier(s[i].frame, s[j].frame)

\* No step but that of a producer puts a frame on its way.
NothingNew == UnderWay' \subseteq UnderWay

\* A producer's frames are older the closer they are to next's output, and
\* the same is true within each place.
OrderInv ==
  /\ Ordered(Place)
  /\ \A i \in 1 .. 7 : \A f \in Place[i] : f \in Frame /\ Used(f)
  /\ FramesInOrder
  /\ \A c \in Side : InSequence(conn[c].data)
  /\ Headers(toSend) \subseteq {1}
  /\ \A i, j \in DOMAIN outQueue : i < j => Earlier(outQueue[i], outQueue[j])
  /\ clientOn = "accepted" => conn["backlog"] = NoConn

\* What is read and is no frame is known not to be whole.
JunkInv ==
  serverPc = "Body" => rx.frame \in Frame \/ (rx.frame = Garbage /\ ~rx.whole)
=============================================================================
