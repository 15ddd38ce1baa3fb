------------------------------ MODULE VideoHop -----------------------------
(***************************************************************************)
(* One hop of the video daisy chain (main/video_relay.cpp): the client     *)
(* task of a relay, its next's server task, and TCP between them.          *)
(*                                                                         *)
(* Two tasks of the relay produce frames (the SPI task those of its own    *)
(* LuckFox, its own server task those of prev); both wait up to 50 ms for  *)
(* room in g_outQueue.  The client task takes them out, or a heartbeat     *)
(* when there are none, and writes them to its socket piece by piece; the  *)
(* server task of next reads them off the connection it has accepted.      *)
(* Connections break, stall or fall silent and both boards reset; the      *)
(* number of such faults is bounded, their moment is not.                  *)
(*                                                                         *)
(* Buffers are named by the frame they hold.  A definition named           *)
(* F...Mutant is F with a plausible bug: the specification does not use it. *)
(***************************************************************************)
EXTENDS Integers, Sequences

CONSTANTS
  Producer,        \* the tasks that call enqueueOrDrop() on the relay
  QueueDepth,      \* kVideoQueueDepth
  Pieces,          \* pieces the payload of a frame is sent and read in
  Window,          \* pieces a connection holds: socket buffers, both ends
  MaxFrames,       \* bound: frames of each producer
  MaxFaults,       \* bound: broken or stalled connections and resets
  MaxDrainStalls   \* bound: receive timeouts inside a drain on a live link

ASSUME VideoAssumption ==
  /\ QueueDepth \in Nat \ {0}
  /\ Pieces \in Nat \ {0}
  /\ Window \in Nat \ {0}
  /\ MaxFrames \in [Producer -> Nat]
  /\ MaxFaults \in Nat
  /\ MaxDrainStalls \in Nat

Frame == [from : Producer, num : Nat \ {0}]
NoFrame == [from |-> "none", num |-> 0]
Garbage == [from |-> "garbage", num |-> 0]   \* a header that nobody sent
AnyFrame == Frame \cup {NoFrame, Garbage}

\* What travels: a FrameHeader, one piece of a payload (left: it and those
\* after it), or a heartbeat header.
Header(f) == [kind |-> "header", frame |-> f, left |-> Pieces]
Piece(f, k) == [kind |-> "piece", frame |-> f, left |-> k]
Beat == [kind |-> "beat", frame |-> NoFrame, left |-> 0]

Unit == [kind : {"header", "piece", "beat"},
         frame : Frame \cup {NoFrame},
         left : 0 .. Pieces]

UnitsOf(f) ==
  [i \in 1 .. Pieces + 1 |-> IF i = 1 THEN Header(f) ELSE Piece(f, Pieces + 2 - i)]

\* A connection as the server's side sees it: what is still to be read, and
\* whether its client is there, has closed it, or has gone without a FIN.
Conn == [data : Seq(Unit), end : {"open", "fin", "silent", "none"}]
NoConn == [data |-> <<>>, end |-> "none"]
Fresh == [data |-> <<>>, end |-> "open"]
Side == {"accepted", "backlog"}   \* listen(listenSock, 1)

NoRx == [frame |-> NoFrame, left |-> 0, whole |-> TRUE]

VARIABLES
  \* the relay
  held,        \* the frame each producer is waiting to queue
  outQueue,    \* g_outQueue
  clientPc,    \* where clientTask is: Connecting, Waiting, Sending
  current,     \* the frame it is sending
  toSend,      \* the pieces it has still to write
  heap,        \* frame buffers allocated
  \* TCP
  conn,        \* the connection accepted by next, and the one in its backlog
  clientOn,    \* which of them the client's socket is: or lost, or none
  \* next
  serverPc,    \* where serverTask is: Accepting, Header, Body, Drain
  rx,          \* the frame it is reading; whole: all of it that frame's
  nextHeap,    \* frame buffers allocated
  \* history
  made,        \* frames of each producer so far
  delivered,   \* frames passed on by next, with their rx.whole
  faults,
  drainStalls

client == <<clientPc, current, toSend>>
relay == <<held, outQueue, client, heap>>
tcp == <<conn, clientOn>>
server == <<serverPc, rx, nextHeap>>
history == <<made, delivered, faults, drainStalls>>
vars == <<relay, tcp, server, history>>

TypeOK ==
  /\ held \in [Producer -> Frame \cup {NoFrame}]
  /\ outQueue \in Seq(Frame) /\ Len(outQueue) <= QueueDepth
  /\ clientPc \in {"Connecting", "Waiting", "Sending"}
  /\ current \in Frame \cup {NoFrame}
  /\ toSend \in Seq(Unit)
  /\ heap \subseteq Frame
  /\ conn \in [Side -> Conn]
  /\ clientOn \in Side \cup {"lost", "none"}
  /\ serverPc \in {"Accepting", "Header", "Body", "Drain"}
  /\ rx \in [frame : AnyFrame, left : 0 .. Pieces, whole : BOOLEAN]
  /\ nextHeap \subseteq AnyFrame
  /\ made \in [Producer -> Nat]
  /\ delivered \in Seq([frame : AnyFrame, whole : BOOLEAN])
  /\ faults \in Nat
  /\ drainStalls \in Nat

Init ==
  /\ held = [p \in Producer |-> NoFrame]
  /\ outQueue = <<>>
  /\ clientPc = "Connecting" /\ current = NoFrame /\ toSend = <<>>
  /\ heap = {}
  /\ conn = [c \in Side |-> NoConn] /\ clientOn = "none"
  /\ serverPc = "Accepting" /\ rx = NoRx /\ nextHeap = {}
  /\ made = [p \in Producer |-> 0]
  /\ delivered = <<>>
  /\ faults = 0 /\ drainStalls = 0

Fault == faults < MaxFaults /\ faults' = faults + 1

-----------------------------------------------------------------------------
(* enqueueOrDrop() on the relay                                            *)

\* A producer has a frame in a buffer of its own.
Produce(p) ==
  LET f == [from |-> p, num |-> made[p] + 1]
  IN  /\ held[p] = NoFrame /\ made[p] < MaxFrames[p]
      /\ made' = [made EXCEPT ![p] = @ + 1]
      /\ held' = [held EXCEPT ![p] = f]
      /\ heap' = heap \cup {f}
      /\ UNCHANGED <<outQueue, client, tcp, server, delivered, faults, drainStalls>>

\* One frame too many.
EnqueueMutant(p) ==
  /\ held[p] # NoFrame /\ Len(outQueue) <= QueueDepth
  /\ outQueue' = Append(outQueue, held[p])
  /\ held' = [held EXCEPT ![p] = NoFrame]
  /\ UNCHANGED <<client, heap, tcp, server, history>>

Enqueue(p) ==
  /\ held[p] # NoFrame /\ Len(outQueue) < QueueDepth
  /\ outQueue' = Append(outQueue, held[p])
  /\ held' = [held EXCEPT ![p] = NoFrame]
  /\ UNCHANGED <<client, heap, tcp, server, history>>

\* A dropped frame not freed.
DropFullMutant(p) ==
  /\ held[p] # NoFrame /\ Len(outQueue) = QueueDepth
  /\ held' = [held EXCEPT ![p] = NoFrame]
  /\ UNCHANGED <<outQueue, client, heap, tcp, server, history>>

\* The 50 ms are over and the queue is still full.
DropFull(p) ==
  /\ held[p] # NoFrame /\ Len(outQueue) = QueueDepth
  /\ held' = [held EXCEPT ![p] = NoFrame]
  /\ heap' = heap \ {held[p]}
  /\ UNCHANGED <<outQueue, client, tcp, server, history>>

-----------------------------------------------------------------------------
(* clientTask                                                              *)

\* Otherwise connectWithTimeout() fails, and is tried again.
Connect ==
  /\ clientPc = "Connecting" /\ conn["backlog"] = NoConn
  /\ clientPc' = "Waiting"
  /\ conn' = [conn EXCEPT !["backlog"] = Fresh]
  /\ clientOn' = "backlog"
  /\ UNCHANGED <<held, outQueue, current, toSend, heap, server, history>>

\* Looked at, not taken out.
TakeFrameMutant ==
  /\ clientPc = "Waiting" /\ outQueue # <<>>
  /\ clientPc' = "Sending"
  /\ current' = Head(outQueue)
  /\ toSend' = UnitsOf(Head(outQueue))
  /\ UNCHANGED <<held, outQueue, heap, tcp, server, history>>

TakeFrame ==
  /\ clientPc = "Waiting" /\ outQueue # <<>>
  /\ clientPc' = "Sending"
  /\ current' = Head(outQueue)
  /\ toSend' = UnitsOf(Head(outQueue))
  /\ outQueue' = Tail(outQueue)
  /\ UNCHANGED <<held, heap, tcp, server, history>>

\* kVideoHeartbeatMs without a frame.
TakeNothing ==
  /\ clientPc = "Waiting" /\ outQueue = <<>>
  /\ clientPc' = "Sending"
  /\ toSend' = <<Beat>>
  /\ UNCHANGED <<held, outQueue, current, heap, tcp, server, history>>

\* send() takes the next piece: into the connection, or, until TCP has
\* noticed that the other end is gone, into a buffer nobody will read.
Write ==
  /\ clientPc = "Sending" /\ toSend # <<>>
  /\ toSend' = Tail(toSend)
  /\ \/ /\ clientOn \in Side /\ Len(conn[clientOn].data) < Window
        /\ conn' = [conn EXCEPT ![clientOn].data = Append(@, Head(toSend))]
     \/ /\ clientOn = "lost"
        /\ UNCHANGED conn
  /\ UNCHANGED <<held, outQueue, clientPc, current, heap, clientOn, server, history>>

\* sendAll() has returned true.
Sent ==
  /\ clientPc = "Sending" /\ toSend = <<>>
  /\ clientPc' = "Waiting"
  /\ heap' = heap \ {current}
  /\ current' = NoFrame
  /\ UNCHANGED <<held, outQueue, toSend, tcp, server, history>>

\* The connection kept after a failed frame, which is what linkOk is for.
AbandonMutant ==
  /\ clientPc' = "Waiting"
  /\ current' = NoFrame /\ toSend' = <<>>
  /\ heap' = heap \ {current}
  /\ UNCHANGED <<conn, clientOn>>

\* linkOk = false: the frame is freed and the socket closed; what it has
\* taken will still be delivered, and then a FIN.
Abandon ==
  /\ clientPc' = "Connecting"
  /\ current' = NoFrame /\ toSend' = <<>>
  /\ heap' = heap \ {current}
  /\ conn' = IF clientOn \in Side
             THEN [conn EXCEPT ![clientOn].end = "fin"]
             ELSE conn
  /\ clientOn' = "none"

\* send() fails: the other end is gone, or, after 5 s, there is still no room
\* because next has not accepted the connection while it waits for a dead one.
WriteFails ==
  /\ clientPc = "Sending" /\ toSend # <<>>
  /\ \/ clientOn = "lost"
     \/ /\ clientOn = "backlog" /\ conn["accepted"].end = "silent"
        /\ Len(conn["backlog"].data) = Window
  /\ Abandon
  /\ UNCHANGED <<held, outQueue, server, history>>

\* send() fails after 5 s without radio.
WriteStalls ==
  /\ clientPc = "Sending" /\ toSend # <<>> /\ clientOn \in Side
  /\ Fault
  /\ Abandon
  /\ UNCHANGED <<held, outQueue, server, made, delivered, drainStalls>>

-----------------------------------------------------------------------------
(* serverTask                                                              *)

AfterAccept(side) == IF side = "backlog" THEN "accepted" ELSE side

Accept ==
  /\ serverPc = "Accepting" /\ conn["backlog"] # NoConn
  /\ serverPc' = "Header"
  /\ conn' = [accepted |-> conn["backlog"], backlog |-> NoConn]
  /\ clientOn' = AfterAccept(clientOn)
  /\ UNCHANGED <<relay, rx, nextHeap, history>>

Arriving == Head(conn["accepted"].data)

\* recv() has taken the next piece.
Read ==
  /\ conn["accepted"].data # <<>>
  /\ conn' = [conn EXCEPT !["accepted"].data = Tail(@)]
  /\ UNCHANGED clientOn

\* close(client)
HangUp ==
  /\ serverPc' = "Accepting"
  /\ rx' = NoRx
  /\ conn' = [conn EXCEPT !["accepted"] = NoConn]
  /\ clientOn' = IF clientOn = "accepted" THEN "lost" ELSE clientOn

\* A header has been read and its length is good: the buffer can be had or
\* not.
Begin(f, left, whole) ==
  /\ rx' = [frame |-> f, left |-> left, whole |-> whole]
  /\ \/ serverPc' = "Body" /\ nextHeap' = nextHeap \cup {f}
     \/ serverPc' = "Drain" /\ UNCHANGED nextHeap

ReadHeader ==
  /\ serverPc = "Header"
  /\ Read /\ Arriving.kind = "header"
  /\ Begin(Arriving.frame, Arriving.left, TRUE)
  /\ UNCHANGED <<relay, history>>

ReadBeat ==
  /\ serverPc = "Header"
  /\ Read /\ Arriving.kind = "beat"
  /\ UNCHANGED <<relay, server, history>>

\* A piece of a payload read as a header: it may look like any.  (What is
\* read is taken to end where a piece ends.)
Misread ==
  /\ serverPc = "Header"
  /\ conn["accepted"].data # <<>> /\ Arriving.kind = "piece"
  /\ \/ HangUp /\ UNCHANGED nextHeap
     \/ Read /\ UNCHANGED server
     \/ Read /\ \E left \in 1 .. Pieces : Begin(Garbage, left, FALSE)
  /\ UNCHANGED <<relay, history>>

Expected == Piece(rx.frame, rx.left)

\* recvAll(client, data, ...), and enqueueOrDrop() with the last piece: the
\* buffer goes to next's queue or uplink, which frees it.
ReadBody ==
  LET whole == rx.whole /\ Arriving = Expected
  IN  /\ serverPc = "Body"
      /\ Read
      /\ IF rx.left > 1
         THEN /\ rx' = [rx EXCEPT !.left = @ - 1, !.whole = whole]
              /\ UNCHANGED <<serverPc, nextHeap, delivered>>
         ELSE /\ rx' = NoRx
              /\ serverPc' = "Header"
              /\ nextHeap' = nextHeap \ {rx.frame}
              /\ delivered' = Append(delivered, [frame |-> rx.frame, whole |-> whole])
      /\ UNCHANGED <<relay, made, faults, drainStalls>>

ReadDrain ==
  /\ serverPc = "Drain"
  /\ Read
  /\ IF rx.left > 1
     THEN rx' = [rx EXCEPT !.left = @ - 1] /\ UNCHANGED serverPc
     ELSE rx' = NoRx /\ serverPc' = "Header"
  /\ UNCHANGED <<relay, nextHeap, history>>

\* The buffer of a frame cut short not freed.
GiveUpMutant ==
  \/ /\ serverPc \in {"Header", "Body"}
     /\ HangUp
     /\ UNCHANGED nextHeap
  \/ /\ serverPc = "Drain"
     /\ serverPc' = "Header" /\ rx' = NoRx
     /\ UNCHANGED <<tcp, nextHeap>>

\* recv() has returned no more than 0.  Inside a drain that ends the inner
\* loop only.
GiveUp ==
  \/ /\ serverPc \in {"Header", "Body"}
     /\ HangUp
     /\ nextHeap' = nextHeap \ {rx.frame}
  \/ /\ serverPc = "Drain"
     /\ serverPc' = "Header" /\ rx' = NoRx
     /\ UNCHANGED <<tcp, nextHeap>>

\* No receive timeout: a connection without a FIN is waited on for ever.
ReadFailsMutant ==
  /\ serverPc # "Accepting" /\ conn["accepted"].data = <<>>
  /\ conn["accepted"].end = "fin"
  /\ GiveUp
  /\ UNCHANGED <<relay, history>>

\* The end of the stream, or kVideoRecvTimeoutMs of silence.
ReadFails ==
  /\ serverPc # "Accepting" /\ conn["accepted"].data = <<>>
  /\ conn["accepted"].end \in {"fin", "silent"}
  /\ GiveUp
  /\ UNCHANGED <<relay, history>>

\* kVideoRecvTimeoutMs of silence on a connection that is not dead: the radio
\* was down, and the client has not given up yet.
ReadStalls ==
  /\ serverPc # "Accepting" /\ conn["accepted"] = Fresh
  /\ Fault
  /\ IF serverPc = "Drain"
     THEN drainStalls < MaxDrainStalls /\ drainStalls' = drainStalls + 1
     ELSE UNCHANGED drainStalls
  /\ GiveUp
  /\ UNCHANGED <<relay, made, delivered>>

-----------------------------------------------------------------------------
(* Faults                                                                  *)

\* What is under way is lost from some byte on; the server sees a reset of
\* the connection, or nothing more.
CutAt(c, k, end) == [data |-> SubSeq(conn[c].data, 1, k), end |-> end]

Break(c) ==
  /\ conn[c] # NoConn
  /\ Fault
  /\ \E k \in 0 .. Len(conn[c].data), end \in {"fin", "silent"} :
       conn' = [conn EXCEPT ![c] = CutAt(c, k, end)]
  /\ clientOn' = IF clientOn = c THEN "lost" ELSE clientOn
  /\ UNCHANGED <<relay, server, made, delivered, drainStalls>>

\* The relay resets: its connection, if it has one, falls silent.
ResetRelay ==
  /\ Fault
  /\ held' = [p \in Producer |-> NoFrame]
  /\ outQueue' = <<>>
  /\ clientPc' = "Connecting" /\ current' = NoFrame /\ toSend' = <<>>
  /\ heap' = {}
  /\ IF clientOn \in Side
     THEN \E k \in 0 .. Len(conn[clientOn].data) :
            conn' = [conn EXCEPT ![clientOn] = CutAt(clientOn, k, "silent")]
     ELSE UNCHANGED conn
  /\ clientOn' = "none"
  /\ UNCHANGED <<server, made, delivered, drainStalls>>

ResetNext ==
  /\ Fault
  /\ serverPc' = "Accepting" /\ rx' = NoRx /\ nextHeap' = {}
  /\ conn' = [c \in Side |-> NoConn]
  /\ clientOn' = IF clientOn \in Side THEN "lost" ELSE clientOn
  /\ UNCHANGED <<relay, made, delivered, drainStalls>>

-----------------------------------------------------------------------------
ServerReads == ReadHeader \/ ReadBeat \/ Misread \/ ReadBody \/ ReadDrain \/ ReadFails

Next ==
  \/ \E p \in Producer : Produce(p) \/ Enqueue(p) \/ DropFull(p)
  \/ Connect \/ TakeFrame \/ TakeNothing \/ Write \/ Sent
  \/ WriteFails \/ WriteStalls
  \/ Accept \/ ServerReads \/ ReadStalls
  \/ \E c \in Side : Break(c)
  \/ ResetRelay \/ ResetNext

Spec == Init /\ [][Next]_vars

\* Every task runs.  TCP notices in the end that the other end is gone, even
\* if it takes several writes.
Fairness ==
  /\ \A p \in Producer : WF_vars(Enqueue(p) \/ DropFull(p))
  /\ WF_vars(Connect) /\ WF_vars(TakeFrame) /\ WF_vars(TakeNothing)
  /\ WF_vars(Write) /\ WF_vars(Sent) /\ SF_vars(WriteFails)
  /\ WF_vars(Accept) /\ WF_vars(ServerReads)

FairSpec == Spec /\ Fairness
=============================================================================
