----------------------------- MODULE ChainNode -----------------------------
(***************************************************************************)
(* The ESP-NOW status chain (main/chain_node.cpp on top of                 *)
(* main/espnow_transport.cpp): nodes 0 .. ChainSize-1, one board each,     *)
(* running the same firmware.  Every node originates readings of its own;  *)
(* a relay queues them with whatever it receives from prev and passes them *)
(* to next, one at a time, stop-and-wait; node 0 (the Gateway) hands each  *)
(* reading to gateway_uplink::flush().                                     *)
(*                                                                         *)
(* One step is one call of a handler by espnow::poll(), or one pass of     *)
(* the rest of chain_node::loop(): both run on the main task, so nothing   *)
(* interleaves inside them.  The nodes run concurrently, the radio loses   *)
(* packets, and any board may reset at any moment.                         *)
(*                                                                         *)
(* Time is abstracted: a timer of loop() may be due at any pass (module    *)
(* LoopTimers has the clock).  A StatusPacket is identified by the reading *)
(* it carries, numbered without bound; SeqOf is the 16-bit field the wire  *)
(* carries, and the handlers compare nothing else.                         *)
(*                                                                         *)
(* A definition named F...Mutant is F with a plausible bug: the            *)
(* specification does not use it.                                         *)
(***************************************************************************)
EXTENDS Integers, Sequences

CONSTANTS
  ChainSize,    \* g_chainSize, the provisioned number of nodes
  QueueDepth,   \* kStatusQueueDepth
  RxDepth,      \* kRxQueueDepth: packets a link buffers before it drops
  SeqMod,       \* 2^16: StatusPacket::seq is a uint16_t
  Absent,       \* positions whose board is never powered
  MaxReadings,  \* bound: readings each node originates after a boot
  MaxDropRun,   \* bound: readings in a row a node loses to a full queue
  MaxBoots      \* bound: resets of each board

Node == 0 .. ChainSize - 1
Gateway == 0
Relay == Node \ {Gateway}

ASSUME ChainAssumption ==
  /\ ChainSize \in Nat \ {0}
  /\ QueueDepth \in Nat \ {0}
  /\ RxDepth \in Nat \ {0}
  /\ SeqMod \in Nat \ {0}
  /\ Absent \subseteq Node
  /\ MaxReadings \in [Node -> Nat]
  /\ MaxDropRun \in Nat
  /\ MaxBoots \in [Node -> Nat]

\* (id + 1) % chainSize and (id + chainSize - 1) % chainSize
NextId(n) == IF n = ChainSize - 1 THEN 0 ELSE n + 1
PrevId(n) == IF n = 0 THEN ChainSize - 1 ELSE n - 1

Packet == [origin : Node, boot : Nat, num : Nat]
NoPacket == [origin |-> -1, boot |-> 0, num |-> 0]

\* (origin_node_id, seq): all that the dedup test and the ACK test look at.
SeqOf(p) == p.num % SeqMod
AckOf(p) == [origin |-> p.origin, seq |-> SeqOf(p)]
Ack == [origin : Node, seq : 0 .. SeqMod - 1]

VARIABLES
  \* RAM of each node
  state,         \* g_state
  nextKnown,     \* g_nextKnown
  prevKnown,     \* g_prevKnown
  outQueue,      \* g_outQueue
  pending,       \* g_pending
  lastAccepted,  \* g_hasAcceptedAny, g_lastAcceptedOrigin, g_lastAcceptedSeq
  localSeq,      \* g_localSeq, before it is reduced to 16 bits
  \* the radio and the receivers' RX queues
  statusLink,    \* StatusPackets on their way from n to NextId(n)
  ackLink,       \* AckPackets on their way from NextId(n) to n
  \* history
  flushed,       \* readings handed to gateway_uplink::flush(), in order
  boots,         \* resets of n so far
  dropRun,       \* own readings in a row that found the queue full
  dropped        \* own readings that found the queue full

ram == <<state, nextKnown, prevKnown, outQueue, pending, lastAccepted, localSeq>>
history == <<flushed, boots, dropRun, dropped>>
vars == <<ram, statusLink, ackLink, history>>

TypeOK ==
  /\ state \in [Node -> {"Discovering", "Idle", "Forwarding"}]
  /\ nextKnown \in [Node -> BOOLEAN]
  /\ prevKnown \in [Node -> BOOLEAN]
  /\ outQueue \in [Node -> Seq(Packet)]
  /\ \A n \in Node : Len(outQueue[n]) <= QueueDepth
  /\ pending \in [Node -> Packet \cup {NoPacket}]
  /\ lastAccepted \in [Node -> Packet \cup {NoPacket}]
  /\ localSeq \in [Node -> Nat]
  /\ statusLink \in [Node -> Seq(Packet)]
  /\ ackLink \in [Node -> Seq(Ack)]
  /\ flushed \in Seq(Packet)
  /\ boots \in [Node -> Nat]
  /\ dropRun \in [Node -> Nat]
  /\ dropped \in SUBSET Packet

Init ==
  /\ state = [n \in Node |-> "Discovering"]
  /\ nextKnown = [n \in Node |-> FALSE]
  /\ prevKnown = [n \in Node |-> FALSE]
  /\ outQueue = [n \in Node |-> <<>>]
  /\ pending = [n \in Node |-> NoPacket]
  /\ lastAccepted = [n \in Node |-> NoPacket]
  /\ localSeq = [n \in Node |-> 0]
  /\ statusLink = [n \in Node |-> <<>>]
  /\ ackLink = [n \in Node |-> <<>>]
  /\ flushed = <<>>
  /\ boots = [n \in Node |-> 0]
  /\ dropRun = [n \in Node |-> 0]
  /\ dropped = {}

-----------------------------------------------------------------------------
(* espnow_transport: fire-and-forget send into a bounded RX queue          *)

Sent(link, msg) == IF Len(link) < RxDepth THEN Append(link, msg) ELSE link

SendAck(n, p) ==
  ackLink' = [ackLink EXCEPT ![PrevId(n)] = Sent(@, AckOf(p))]

\* A frame is lost on the air, or by a full RX queue.
LoseStatus(n) ==
  /\ statusLink[n] # <<>>
  /\ statusLink' = [statusLink EXCEPT ![n] = Tail(@)]
  /\ UNCHANGED <<ram, ackLink, history>>

LoseAck(n) ==
  /\ ackLink[n] # <<>>
  /\ ackLink' = [ackLink EXCEPT ![n] = Tail(@)]
  /\ UNCHANGED <<ram, statusLink, history>>

-----------------------------------------------------------------------------
(* The FreeRTOS queue between the handlers and loop()                      *)

HasRoomMutant(n) == Len(outQueue[n]) <= QueueDepth  \* one too many

HasRoom(n) == Len(outQueue[n]) < QueueDepth

-----------------------------------------------------------------------------
(* Discovery.  A HELLO carries nothing but its sender's identity and is    *)
(* broadcast for ever, so n may hear one from m at any time.               *)

\* Completion tested only as prev is learned: too late if next comes last.
HandleHelloMutant(n, m) ==
  LET next == nextKnown[n] \/ m = NextId(n)
  IN  /\ n # m
      /\ nextKnown' = [nextKnown EXCEPT ![n] = next]
      /\ prevKnown' = [prevKnown EXCEPT ![n] = @ \/ m = PrevId(n)]
      /\ state' = IF /\ state[n] = "Discovering"
                     /\ m = PrevId(n) /\ ~prevKnown[n]
                     /\ n = Gateway \/ next
                  THEN [state EXCEPT ![n] = "Idle"]
                  ELSE state
      /\ UNCHANGED <<outQueue, pending, lastAccepted, localSeq,
                     statusLink, ackLink, history>>

HandleHello(n, m) ==
  LET next == nextKnown[n] \/ m = NextId(n)
      prev == prevKnown[n] \/ m = PrevId(n)
  IN  /\ n # m
      /\ nextKnown' = [nextKnown EXCEPT ![n] = next]
      /\ prevKnown' = [prevKnown EXCEPT ![n] = prev]
      /\ state' = IF state[n] = "Discovering" /\ prev /\ (n = Gateway \/ next)
                  THEN [state EXCEPT ![n] = "Idle"]
                  ELSE state
      /\ UNCHANGED <<outQueue, pending, lastAccepted, localSeq,
                     statusLink, ackLink, history>>

-----------------------------------------------------------------------------
(* handleStatus: n takes the next StatusPacket of its link from prev       *)

Arriving(n) == Head(statusLink[PrevId(n)])

\* The dedup key without the origin.
IsDuplicateMutant(n) ==
  /\ lastAccepted[n] # NoPacket
  /\ SeqOf(Arriving(n)) = SeqOf(lastAccepted[n])

IsDuplicate(n) ==
  /\ lastAccepted[n] # NoPacket
  /\ Arriving(n).origin = lastAccepted[n].origin
  /\ SeqOf(Arriving(n)) = SeqOf(lastAccepted[n])

TakeStatus(n) ==
  /\ statusLink[PrevId(n)] # <<>>
  /\ statusLink' = [statusLink EXCEPT ![PrevId(n)] = Tail(@)]

\* Its sender is not (yet) known to be prev.
IgnoreStatus(n) ==
  /\ TakeStatus(n)
  /\ ~prevKnown[n]
  /\ UNCHANGED <<ram, ackLink, history>>

\* A duplicate dropped without the ACK that prev has missed.
ReAckDuplicateMutant(n) ==
  /\ TakeStatus(n)
  /\ prevKnown[n] /\ IsDuplicate(n)
  /\ UNCHANGED <<ram, ackLink, history>>

ReAckDuplicate(n) ==
  /\ TakeStatus(n)
  /\ prevKnown[n] /\ IsDuplicate(n)
  /\ SendAck(n, Arriving(n))
  /\ UNCHANGED <<ram, history>>

\* The dedup key not recorded.
SinkStatusMutant(n) ==
  /\ TakeStatus(n)
  /\ prevKnown[n] /\ ~IsDuplicate(n) /\ n = Gateway
  /\ flushed' = Append(flushed, Arriving(n))
  /\ SendAck(n, Arriving(n))
  /\ UNCHANGED <<ram, boots, dropRun, dropped>>

\* The Gateway always has room.
SinkStatus(n) ==
  /\ TakeStatus(n)
  /\ prevKnown[n] /\ ~IsDuplicate(n) /\ n = Gateway
  /\ lastAccepted' = [lastAccepted EXCEPT ![n] = Arriving(n)]
  /\ flushed' = Append(flushed, Arriving(n))
  /\ SendAck(n, Arriving(n))
  /\ UNCHANGED <<state, nextKnown, prevKnown, outQueue, pending, localSeq,
                 boots, dropRun, dropped>>

QueueStatus(n) ==
  /\ TakeStatus(n)
  /\ prevKnown[n] /\ ~IsDuplicate(n) /\ n # Gateway
  /\ HasRoom(n)
  /\ outQueue' = [outQueue EXCEPT ![n] = Append(@, Arriving(n))]
  /\ lastAccepted' = [lastAccepted EXCEPT ![n] = Arriving(n)]
  /\ SendAck(n, Arriving(n))
  /\ UNCHANGED <<state, nextKnown, prevKnown, pending, localSeq, history>>

\* An ACK for what there was no room for.
RefuseStatusMutant(n) ==
  /\ TakeStatus(n)
  /\ prevKnown[n] /\ ~IsDuplicate(n) /\ n # Gateway
  /\ ~HasRoom(n)
  /\ SendAck(n, Arriving(n))
  /\ UNCHANGED <<ram, history>>

\* Backpressure: no room, no ACK; prev will retransmit.
RefuseStatus(n) ==
  /\ TakeStatus(n)
  /\ prevKnown[n] /\ ~IsDuplicate(n) /\ n # Gateway
  /\ ~HasRoom(n)
  /\ UNCHANGED <<ram, ackLink, history>>

HandleStatus(n) ==
  \/ IgnoreStatus(n)
  \/ ReAckDuplicate(n)
  \/ SinkStatus(n)
  \/ QueueStatus(n)
  \/ RefuseStatus(n)

-----------------------------------------------------------------------------
(* handleAck: n takes the next AckPacket of its link from next             *)

\* Any ACK taken for the one awaited.
HandleAckMutant(n) ==
  /\ ackLink[n] # <<>>
  /\ ackLink' = [ackLink EXCEPT ![n] = Tail(@)]
  /\ state' = IF state[n] = "Forwarding"
              THEN [state EXCEPT ![n] = "Idle"]
              ELSE state
  /\ UNCHANGED <<nextKnown, prevKnown, outQueue, pending, lastAccepted, localSeq,
                 statusLink, history>>

HandleAck(n) ==
  /\ ackLink[n] # <<>>
  /\ ackLink' = [ackLink EXCEPT ![n] = Tail(@)]
  /\ state' = IF state[n] = "Forwarding" /\ Head(ackLink[n]) = AckOf(pending[n])
              THEN [state EXCEPT ![n] = "Idle"]
              ELSE state
  /\ UNCHANGED <<nextKnown, prevKnown, outQueue, pending, lastAccepted, localSeq,
                 statusLink, history>>

-----------------------------------------------------------------------------
(* loop(), after espnow::poll(): the origination timer, then the ACK timer *)
(* or the next packet of the queue                                         *)

Reading(n) == [origin |-> n, boot |-> boots[n], num |-> localSeq[n]]

\* The queue once this pass has put its own reading in, if it has one.
QueueAfter(n, localDue) ==
  IF localDue /\ HasRoom(n) THEN Append(outQueue[n], Reading(n)) ELSE outQueue[n]

\* A relay's own reading, dropped (and counted) when the queue is full.
Originate(n, localDue) ==
  IF localDue
  THEN /\ localSeq[n] < MaxReadings[n]
       /\ HasRoom(n) \/ dropRun[n] < MaxDropRun
       /\ localSeq' = [localSeq EXCEPT ![n] = @ + 1]
       /\ dropRun' = [dropRun EXCEPT ![n] = IF HasRoom(n) THEN 0 ELSE @ + 1]
       /\ dropped' = IF HasRoom(n) THEN dropped ELSE dropped \cup {Reading(n)}
  ELSE UNCHANGED <<localSeq, dropRun, dropped>>

\* The Gateway: a reading of its own goes straight to the uplink.
LoopGateway(n) ==
  /\ n = Gateway /\ state[n] # "Discovering"
  /\ localSeq[n] < MaxReadings[n]
  /\ localSeq' = [localSeq EXCEPT ![n] = @ + 1]
  /\ flushed' = Append(flushed, Reading(n))
  /\ UNCHANGED <<state, nextKnown, prevKnown, outQueue, pending, lastAccepted,
                 statusLink, ackLink, boots, dropRun, dropped>>

BeginForwarding(n, p) ==
  /\ pending' = [pending EXCEPT ![n] = p]
  /\ state' = [state EXCEPT ![n] = "Forwarding"]
  /\ statusLink' = [statusLink EXCEPT ![n] = Sent(@, p)]

\* The packets take turns: at each deadline the next one in the queue is sent.
LoopForwardingTurnsMutant(n, localDue, ackDue) ==
  /\ n # Gateway /\ state[n] = "Forwarding"
  /\ IF ackDue /\ QueueAfter(n, localDue) # <<>>
     THEN /\ BeginForwarding(n, Head(QueueAfter(n, localDue)))
          /\ outQueue' = [outQueue EXCEPT ![n] =
                            Append(Tail(QueueAfter(n, localDue)), pending[n])]
     ELSE /\ outQueue' = [outQueue EXCEPT ![n] = QueueAfter(n, localDue)]
          /\ UNCHANGED <<state, pending, statusLink>>
  /\ Originate(n, localDue)
  /\ UNCHANGED <<nextKnown, prevKnown, lastAccepted, ackLink, flushed, boots>>

\* The slot given up, not the packet sent again, once the deadline has passed.
LoopForwardingMutant(n, localDue, ackDue) ==
  /\ n # Gateway /\ state[n] = "Forwarding"
  /\ Originate(n, localDue)
  /\ outQueue' = [outQueue EXCEPT ![n] = QueueAfter(n, localDue)]
  /\ state' = IF ackDue THEN [state EXCEPT ![n] = "Idle"] ELSE state
  /\ UNCHANGED <<nextKnown, prevKnown, pending, lastAccepted,
                 statusLink, ackLink, flushed, boots>>

\* A packet is waiting for its ACK: retransmit it if the deadline has passed.
LoopForwarding(n, localDue, ackDue) ==
  /\ n # Gateway /\ state[n] = "Forwarding"
  /\ Originate(n, localDue)
  /\ outQueue' = [outQueue EXCEPT ![n] = QueueAfter(n, localDue)]
  /\ statusLink' = IF ackDue
                   THEN [statusLink EXCEPT ![n] = Sent(@, pending[n])]
                   ELSE statusLink
  /\ UNCHANGED <<state, nextKnown, prevKnown, pending, lastAccepted,
                 ackLink, flushed, boots>>

\* The slot is free and the queue is not empty.
LoopIdle(n, localDue) ==
  /\ n # Gateway /\ state[n] = "Idle"
  /\ QueueAfter(n, localDue) # <<>>
  /\ Originate(n, localDue)
  /\ BeginForwarding(n, Head(QueueAfter(n, localDue)))
  /\ outQueue' = [outQueue EXCEPT ![n] = Tail(QueueAfter(n, localDue))]
  /\ UNCHANGED <<nextKnown, prevKnown, lastAccepted, ackLink, flushed, boots>>

Loop(n) ==
  \/ LoopGateway(n)
  \/ \E localDue, ackDue \in BOOLEAN : LoopForwarding(n, localDue, ackDue)
  \/ \E localDue \in BOOLEAN : LoopIdle(n, localDue)

-----------------------------------------------------------------------------
(* A board resets: chain_node::init() runs again on zeroed RAM, and what   *)
(* its RX queue held is gone.                                              *)

Reboot(n) ==
  /\ boots[n] < MaxBoots[n]
  /\ boots' = [boots EXCEPT ![n] = @ + 1]
  /\ state' = [state EXCEPT ![n] = "Discovering"]
  /\ nextKnown' = [nextKnown EXCEPT ![n] = FALSE]
  /\ prevKnown' = [prevKnown EXCEPT ![n] = FALSE]
  /\ outQueue' = [outQueue EXCEPT ![n] = <<>>]
  /\ pending' = [pending EXCEPT ![n] = NoPacket]
  /\ lastAccepted' = [lastAccepted EXCEPT ![n] = NoPacket]
  /\ localSeq' = [localSeq EXCEPT ![n] = 0]
  /\ statusLink' = [statusLink EXCEPT ![PrevId(n)] = <<>>]
  /\ ackLink' = [ackLink EXCEPT ![n] = <<>>]
  /\ dropRun' = [dropRun EXCEPT ![n] = 0]
  /\ UNCHANGED <<flushed, dropped>>

-----------------------------------------------------------------------------
Powered == Node \ Absent

Next ==
  \/ \E n, m \in Powered : HandleHello(n, m)
  \/ \E n \in Powered :
       \/ HandleStatus(n)
       \/ HandleAck(n)
       \/ Loop(n)
       \/ Reboot(n)
       \/ LoseStatus(n)
       \/ LoseAck(n)

Spec == Init /\ [][Next]_vars

(* The main task calls loop() every 10 ms, and the ACK timer of a waiting  *)
(* packet expires again and again; a HELLO is broadcast at least every     *)
(* 5 s.  Neither link loses every packet for ever.                         *)
Fairness ==
  /\ \A n, m \in Powered : WF_vars(HandleHello(n, m))
  /\ \A n \in Powered :
       /\ WF_vars(LoopGateway(n))
       /\ WF_vars(LoopForwarding(n, FALSE, TRUE))
       /\ WF_vars(\E localDue \in BOOLEAN : LoopIdle(n, localDue))
       /\ SF_vars(HandleStatus(n))
       /\ SF_vars(HandleAck(n))

FairSpec == Spec /\ Fairness
=============================================================================
