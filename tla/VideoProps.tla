---------------------------- MODULE VideoProps -----------------------------
(***************************************************************************)
(* What a video hop must do.                                               *)
(***************************************************************************)
EXTENDS VideoHop

Elements(s) == {s[i] : i \in DOMAIN s}

Holding == {p \in Producer : held[p] # NoFrame}

\* The frame buffers some variable of the relay points to.
Owned == {held[p] : p \in Holding} \cup Elements(outQueue) \cup ({current} \ {NoFrame})

RelayOwns ==
  /\ heap = Owned
  /\ \A p \in Holding : held[p] # current /\ held[p] \notin Elements(outQueue)
  /\ \A p, q \in Holding : held[p] = held[q] => p = q
  /\ current \notin Elements(outQueue)
  /\ \A i, j \in DOMAIN outQueue : outQueue[i] = outQueue[j] => i = j

NextOwns == nextHeap = IF serverPc = "Body" THEN {rx.frame} ELSE {}

\* Whatever fails in whatever order, every buffer of the relay has one owner
\* (a producer, the queue or the client task) and every buffer of next is
\* the one being filled: none leaks, is freed twice or is used by two tasks.
OneOwnerPerBuffer == RelayOwns /\ NextOwns

AllWhole ==
  \A i \in DOMAIN delivered : delivered[i].whole /\ delivered[i].frame \in Frame

\* What next passes on is what the relay was given, payload and all: a frame
\* cut short by a fault is dropped, and what follows it is never taken for
\* its rest; unless a receive timeout has fallen inside a drain on a live
\* connection (see StaysFramed).
FramesWhole == drainStalls = 0 => AllWhole

Earlier(f, g) == f.from = g.from => f.num < g.num

\* However often the connection is lost, replaced by one in the backlog and
\* made again, next passes on no frame of a producer twice, and none after a
\* newer one: what an abandoned connection still holds never comes in behind
\* what the one after it carries.
FramesInOrder ==
  \A i, j \in DOMAIN delivered :
    /\ i < j
    /\ delivered[i].frame \in Frame /\ delivered[j].frame \in Frame
    => Earlier(delivered[i].frame, delivered[j].frame)

Headers(s) == {i \in DOMAIN s : s[i].kind = "header"}
Frames(s) == {s[i].frame : i \in Headers(s)}

\* What next is reading, what it has yet to read, what the client has not
\* begun to write, what is queued and what a producer holds.
UnderWay ==
  (IF serverPc = "Body" THEN {rx.frame} \cap Frame ELSE {})
    \cup Frames(conn["accepted"].data) \cup Frames(conn["backlog"].data)
    \cup Frames(toSend) \cup Elements(outQueue) \cup {held[p] : p \in Holding}

\* A hop loses frames, and does nothing worse: see VideoStream.  What it has
\* passed on is what the stream has, item by item.
Stream == INSTANCE VideoStream WITH
  Junk <- {Garbage},
  transit <- UnderWay,
  passed <- delivered,
  framed <- drainStalls = 0

ImplementsStream == Stream!Spec

-----------------------------------------------------------------------------
(* Liveness, under FairSpec                                                *)

\* config.h on kVideoRecvTimeoutMs: whichever board resets or whatever breaks,
\* next finds out that the old connection is dead, the client finds out that
\* its own is, and the hop is up again without anyone resetting a board.
HopRecovers == <>[](clientOn = "accepted")

\* No buffer is held for ever: neither a dead connection nor a full queue
\* wedges the tasks that wait on them.
BuffersComeBack ==
  \A p \in Producer : \A k \in 1 .. MaxFrames[p] :
    LET f == [from |-> p, num |-> k] IN f \in heap ~> f \notin heap

-----------------------------------------------------------------------------
(* What the comment on the drain loop of serverTask says: the payload is   *)
(* drained "to stay framed".                                               *)

StaysFramed ==
  (serverPc = "Header" /\ conn["accepted"].data # <<>>) => Arriving.kind # "piece"
=============================================================================
