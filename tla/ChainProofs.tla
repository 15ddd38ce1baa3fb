---------------------------- MODULE ChainProofs ----------------------------
(* Theorems about the status chain, for every value of its constants.      *)
EXTENDS ChainInv, SequenceTheorems, FiniteSetTheorems, TLAPS

-----------------------------------------------------------------------------
(* The ring                                                                *)

LEMMA RingFacts ==
  ASSUME NEW n \in Node
  PROVE  /\ NextId(n) \in Node /\ PrevId(n) \in Node
         /\ NextId(PrevId(n)) = n /\ PrevId(NextId(n)) = n
         /\ Gateway \in Node
BY ChainAssumption DEF Node, NextId, PrevId, Gateway

LEMMA SentType ==
  ASSUME NEW S, NEW link \in Seq(S), NEW msg \in S
  PROVE  Sent(link, msg) \in Seq(S)
BY DEF Sent

LEMMA AckOfType ==
  ASSUME NEW p \in Packet
  PROVE  AckOf(p) \in Ack
BY ChainAssumption DEF AckOf, Ack, SeqOf, Packet

LEMMA HeadTail ==
  ASSUME NEW S, NEW s \in Seq(S), s # <<>>
  PROVE  /\ Head(s) \in S /\ Tail(s) \in Seq(S)
         /\ Len(Tail(s)) = Len(s) - 1
OBVIOUS

-----------------------------------------------------------------------------
(* Type correctness                                                        *)

\* A node that waits for an ACK has a packet to send again.
TypeInv ==
  /\ TypeOK
  /\ \A n \in Node : state[n] = "Forwarding" => pending[n] \in Packet

LEMMA InitType == Init => TypeInv
BY ChainAssumption DEF Init, TypeOK, TypeInv, NoPacket

LEMMA TypeHello ==
  ASSUME TypeInv, NEW n \in Powered, NEW m \in Powered, HandleHello(n, m)
  PROVE  TypeInv'
BY DEF TypeOK, TypeInv, HandleHello, history, Powered

LEMMA TypeStatus ==
  ASSUME TypeInv, NEW n \in Powered, HandleStatus(n)
  PROVE  TypeInv'
<1> n \in Node
  BY DEF Powered
<1>1. /\ PrevId(n) \in Node
      /\ statusLink[PrevId(n)] \in Seq(Packet)
      /\ statusLink[PrevId(n)] # <<>>
      /\ statusLink' = [statusLink EXCEPT ![PrevId(n)] = Tail(@)]
  BY RingFacts DEF TypeOK, TypeInv, HandleStatus, IgnoreStatus, ReAckDuplicate, SinkStatus,
     QueueStatus, RefuseStatus, TakeStatus
<1>2. /\ Arriving(n) \in Packet
      /\ statusLink' \in [Node -> Seq(Packet)]
  BY <1>1, HeadTail DEF TypeOK, TypeInv, Arriving
<1>3. ASSUME SendAck(n, Arriving(n)) PROVE ackLink' \in [Node -> Seq(Ack)]
  BY <1>1, <1>2, <1>3, SentType, AckOfType DEF TypeOK, TypeInv, SendAck
<1>4. CASE IgnoreStatus(n) \/ RefuseStatus(n)
  BY <1>2, <1>4 DEF TypeOK, TypeInv, IgnoreStatus, RefuseStatus, ram, history
<1>5. CASE ReAckDuplicate(n)
  BY <1>2, <1>3, <1>5 DEF TypeOK, TypeInv, ReAckDuplicate, ram, history
<1>6. CASE SinkStatus(n)
  BY <1>2, <1>3, <1>6 DEF TypeOK, TypeInv, SinkStatus
<1>7. CASE QueueStatus(n)
  <2>1. /\ outQueue' = [outQueue EXCEPT ![n] = Append(@, Arriving(n))]
        /\ lastAccepted' = [lastAccepted EXCEPT ![n] = Arriving(n)]
        /\ Len(outQueue[n]) < QueueDepth
        /\ UNCHANGED <<state, nextKnown, prevKnown, pending, localSeq, history>>
    BY <1>7 DEF QueueStatus, HasRoom
  <2>2. /\ Append(outQueue[n], Arriving(n)) \in Seq(Packet)
        /\ Len(Append(outQueue[n], Arriving(n))) <= QueueDepth
    BY <1>2, <2>1, ChainAssumption DEF TypeOK, TypeInv
  <2>3. /\ outQueue' \in [Node -> Seq(Packet)]
        /\ \A k \in Node : Len(outQueue'[k]) <= QueueDepth
        /\ lastAccepted' \in [Node -> Packet \cup {NoPacket}]
    BY <1>2, <2>1, <2>2 DEF TypeOK, TypeInv
  <2>4. ackLink' \in [Node -> Seq(Ack)]
    BY <1>3, <1>7 DEF QueueStatus
  <2> QED
    BY <1>2, <2>1, <2>3, <2>4 DEF TypeOK, TypeInv, history
<1> QED
  BY <1>4, <1>5, <1>6, <1>7 DEF HandleStatus

LEMMA TypeAck ==
  ASSUME TypeInv, NEW n \in Powered, HandleAck(n)
  PROVE  TypeInv'
BY HeadTail DEF TypeOK, TypeInv, HandleAck, history, Powered

LEMMA TypeLose ==
  ASSUME TypeInv, NEW n \in Powered, LoseStatus(n) \/ LoseAck(n)
  PROVE  TypeInv'
<1> n \in Node
  BY DEF Powered
<1>1. CASE LoseStatus(n)
  <2>1. Tail(statusLink[n]) \in Seq(Packet)
    BY <1>1, HeadTail DEF TypeOK, TypeInv, LoseStatus
  <2> QED
    BY <1>1, <2>1 DEF TypeOK, TypeInv, LoseStatus, ram, history
<1>2. CASE LoseAck(n)
  <2>1. Tail(ackLink[n]) \in Seq(Ack)
    BY <1>2, HeadTail DEF TypeOK, TypeInv, LoseAck
  <2> QED
    BY <1>2, <2>1 DEF TypeOK, TypeInv, LoseAck, ram, history
<1> QED
  BY <1>1, <1>2

LEMMA TypeReboot ==
  ASSUME TypeInv, NEW n \in Powered, Reboot(n)
  PROVE  TypeInv'
<1> n \in Node /\ PrevId(n) \in Node
  BY RingFacts DEF Powered
<1>1. /\ outQueue' = [outQueue EXCEPT ![n] = <<>>]
      /\ statusLink' = [statusLink EXCEPT ![PrevId(n)] = <<>>]
      /\ ackLink' = [ackLink EXCEPT ![n] = <<>>]
  BY DEF Reboot
<1>2. /\ outQueue' \in [Node -> Seq(Packet)]
      /\ \A k \in Node : Len(outQueue'[k]) <= QueueDepth
      /\ statusLink' \in [Node -> Seq(Packet)]
      /\ ackLink' \in [Node -> Seq(Ack)]
  <2>1. /\ outQueue \in [Node -> Seq(Packet)]
        /\ statusLink \in [Node -> Seq(Packet)] /\ ackLink \in [Node -> Seq(Ack)]
        /\ \A k \in Node : Len(outQueue[k]) <= QueueDepth
    BY DEF TypeOK, TypeInv
  <2>2. outQueue' \in [Node -> Seq(Packet)]
    BY <1>1, <2>1
  <2>3. \A k \in Node : Len(outQueue'[k]) <= QueueDepth
    <3>1. \A k \in Node : outQueue'[k] = outQueue[k] \/ outQueue'[k] = <<>>
      BY <1>1, <2>1
    <3>2. Len(<<>>) = 0 /\ 0 <= QueueDepth
      BY ChainAssumption
    <3> QED
      BY <2>1, <3>1, <3>2
  <2>4. statusLink' \in [Node -> Seq(Packet)]
    BY <1>1, <2>1
  <2>5. ackLink' \in [Node -> Seq(Ack)]
    BY <1>1, <2>1
  <2> QED
    BY <2>2, <2>3, <2>4, <2>5
<1>3. /\ state' \in [Node -> {"Discovering", "Idle", "Forwarding"}]
      /\ \A k \in Node : state'[k] = "Forwarding" => k # n /\ state[k] = "Forwarding"
      /\ nextKnown' \in [Node -> BOOLEAN] /\ prevKnown' \in [Node -> BOOLEAN]
  BY DEF TypeOK, TypeInv, Reboot
<1>4. /\ pending' \in [Node -> Packet \cup {NoPacket}]
      /\ \A k \in Node \ {n} : pending'[k] = pending[k]
      /\ lastAccepted' \in [Node -> Packet \cup {NoPacket}]
  BY DEF TypeOK, TypeInv, Reboot
<1>5. /\ localSeq' \in [Node -> Nat] /\ dropRun' \in [Node -> Nat] /\ boots' \in [Node -> Nat]
      /\ UNCHANGED <<flushed, dropped>>
  <2>1. /\ boots' = [boots EXCEPT ![n] = @ + 1]
        /\ localSeq' = [localSeq EXCEPT ![n] = 0] /\ dropRun' = [dropRun EXCEPT ![n] = 0]
        /\ UNCHANGED <<flushed, dropped>>
    BY DEF Reboot
  <2>2. boots \in [Node -> Nat] /\ localSeq \in [Node -> Nat] /\ dropRun \in [Node -> Nat]
    BY DEF TypeOK, TypeInv
  <2> QED
    BY <2>1, <2>2
<1>6. TypeOK'
  BY <1>2, <1>3, <1>4, <1>5 DEF TypeOK, TypeInv
<1> QED
  BY <1>3, <1>4, <1>6 DEF TypeInv

LEMMA TypeOriginate ==
  ASSUME TypeInv, NEW n \in Node, NEW localDue \in BOOLEAN, Originate(n, localDue)
  PROVE  /\ Reading(n) \in Packet
         /\ QueueAfter(n, localDue) \in Seq(Packet)
         /\ Len(QueueAfter(n, localDue)) <= QueueDepth
         /\ localSeq' \in [Node -> Nat]
         /\ dropRun' \in [Node -> Nat]
         /\ dropped' \in SUBSET Packet
<1>1. Reading(n) \in Packet
  BY DEF TypeOK, TypeInv, Reading, Packet
<1>2. /\ QueueAfter(n, localDue) \in Seq(Packet)
      /\ Len(QueueAfter(n, localDue)) <= QueueDepth
  BY <1>1, ChainAssumption DEF TypeOK, TypeInv, QueueAfter, HasRoom
<1>3. /\ localSeq' \in [Node -> Nat]
      /\ dropRun' \in [Node -> Nat]
      /\ dropped' \in SUBSET Packet
  <2>1. CASE localDue = TRUE
    <3>1. /\ localSeq' = [localSeq EXCEPT ![n] = @ + 1]
          /\ dropRun' = [dropRun EXCEPT ![n] = IF HasRoom(n) THEN 0 ELSE @ + 1]
          /\ dropped' = dropped \/ dropped' = dropped \cup {Reading(n)}
      BY <2>1 DEF Originate
    <3> QED
      BY <1>1, <3>1 DEF TypeOK, TypeInv, HasRoom
  <2>2. CASE localDue = FALSE
    BY <2>2 DEF TypeOK, TypeInv, Originate
  <2> QED
    BY <2>1, <2>2
<1> QED
  BY <1>1, <1>2, <1>3

LEMMA TypeLoop ==
  ASSUME TypeInv, NEW n \in Powered, Loop(n)
  PROVE  TypeInv'
<1> n \in Node
  BY DEF Powered
<1>1. CASE LoopGateway(n)
  <2>1. Reading(n) \in Packet
    BY DEF TypeOK, TypeInv, Reading, Packet
  <2> QED
    BY <1>1, <2>1 DEF TypeOK, TypeInv, LoopGateway
<1>2. ASSUME NEW localDue \in BOOLEAN, NEW ackDue \in BOOLEAN,
             LoopForwarding(n, localDue, ackDue)
      PROVE  TypeInv'
  <2>1. /\ QueueAfter(n, localDue) \in Seq(Packet)
        /\ Len(QueueAfter(n, localDue)) <= QueueDepth
        /\ localSeq' \in [Node -> Nat]
        /\ dropRun' \in [Node -> Nat]
        /\ dropped' \in SUBSET Packet
    BY <1>2, TypeOriginate DEF LoopForwarding
  <2>2. outQueue' \in [Node -> Seq(Packet)] /\ \A k \in Node : Len(outQueue'[k]) <= QueueDepth
    BY <1>2, <2>1 DEF TypeOK, TypeInv, LoopForwarding
  <2>3. statusLink' \in [Node -> Seq(Packet)]
    BY <1>2, <2>1, SentType DEF TypeOK, TypeInv, LoopForwarding
  <2> QED
    BY <1>2, <2>1, <2>2, <2>3 DEF TypeOK, TypeInv, LoopForwarding
<1>3. ASSUME NEW localDue \in BOOLEAN, LoopIdle(n, localDue)
      PROVE  TypeInv'
  <2> DEFINE q == QueueAfter(n, localDue)
  <2>1. /\ q \in Seq(Packet) /\ Len(q) <= QueueDepth /\ q # <<>>
        /\ localSeq' \in [Node -> Nat]
        /\ dropRun' \in [Node -> Nat]
        /\ dropped' \in SUBSET Packet
    BY <1>3, TypeOriginate DEF LoopIdle
  <2>2. /\ Head(q) \in Packet /\ Tail(q) \in Seq(Packet)
        /\ Len(Tail(q)) <= QueueDepth
    BY <2>1, HeadTail, ChainAssumption
  <2>3. /\ pending' = [pending EXCEPT ![n] = Head(q)]
        /\ statusLink' = [statusLink EXCEPT ![n] = Sent(@, Head(q))]
        /\ outQueue' = [outQueue EXCEPT ![n] = Tail(q)]
        /\ state' = [state EXCEPT ![n] = "Forwarding"]
        /\ UNCHANGED <<nextKnown, prevKnown, lastAccepted, ackLink, flushed, boots>>
    BY <1>3 DEF LoopIdle, BeginForwarding
  <2>4. Sent(statusLink[n], Head(q)) \in Seq(Packet)
    BY <2>2, SentType DEF TypeOK, TypeInv
  <2> HIDE DEF q
  <2> QED
    BY <2>1, <2>2, <2>3, <2>4 DEF TypeOK, TypeInv
<1> QED
  BY <1>1, <1>2, <1>3 DEF Loop

LEMMA TypeStep ==
  ASSUME TypeInv, [Next]_vars
  PROVE  TypeInv'
<1>1. CASE UNCHANGED vars
  BY <1>1 DEF TypeOK, TypeInv, vars, ram, history
<1>2. CASE Next
  BY <1>2, TypeHello, TypeStatus, TypeAck, TypeLoop, TypeReboot, TypeLose DEF Next
<1> QED
  BY <1>1, <1>2

\* Every node's RAM, the two links of every hop and the history have their
\* types whatever is lost and whatever resets; in particular the FreeRTOS
\* queue never holds more than kStatusQueueDepth packets, although two
\* handlers of loop() and handleStatus() fill it.
THEOREM TypeCorrect == Spec => []TypeOK
<1>1. Init => TypeInv
  BY InitType
<1>2. TypeInv /\ [Next]_vars => TypeInv'
  BY TypeStep
<1>3. TypeInv => TypeOK
  BY DEF TypeInv
<1> QED
  BY <1>1, <1>2, <1>3, PTL DEF Spec

-----------------------------------------------------------------------------
(* Sequence numbers                                                        *)

\* Two readings of one node fewer than SeqMod apart differ on the wire.
LEMMA ModGap ==
  ASSUME NEW m \in Nat \ {0}, NEW a \in Nat, NEW b \in Nat, a < b, b - a < m
  PROVE  a % m # b % m
<1>1. /\ a = m * (a \div m) + (a % m) /\ a \div m \in Int
      /\ b = m * (b \div m) + (b % m) /\ b \div m \in Int
  BY SMT
<1> DEFINE qa == a \div m
           qb == b \div m
<1> SUFFICES ASSUME a % m = b % m PROVE FALSE
  OBVIOUS
<1>2. b - a = m * (qb - qa) /\ qa \in Int /\ qb \in Int
  BY <1>1
<1> HIDE DEF qa, qb
<1>3. CASE qb - qa <= 0
  BY <1>2, <1>3
<1>4. CASE qb - qa >= 1
  BY <1>2, <1>4
<1> QED
  BY <1>2, <1>3, <1>4

LEMMA FollowsDiffers ==
  ASSUME NEW a \in Packet, NEW b \in Packet, Follows(a, b)
  PROVE  AckOf(a) # AckOf(b)
<1>1. CASE a.origin # b.origin
  BY <1>1 DEF AckOf
<1>2. CASE a.origin = b.origin
  <2>1. a.num \in Nat /\ b.num \in Nat /\ a.num < b.num /\ b.num - a.num < SeqMod
    BY <1>2 DEF Follows, Packet
  <2>2. a.num % SeqMod # b.num % SeqMod
    BY <2>1, ModGap, ChainAssumption
  <2> QED
    BY <2>2 DEF AckOf, SeqOf
<1> QED
  BY <1>1, <1>2

LEMMA NoPacketIsNone == NoPacket \notin Packet
BY DEF NoPacket, Packet, Node

-----------------------------------------------------------------------------
(* What the steps of the protocol do to one hop                            *)

\* Losing or reading the first packet of a link.
LEMMA HopLoseStatus ==
  ASSUME NEW last, NEW p, NEW status \in Seq(Packet), NEW acks \in Seq(Ack),
         NEW waiting \in BOOLEAN,
         Hop(last, p, status, acks, waiting), status # <<>>
  PROVE  Hop(last, p, Tail(status), acks, waiting)
<1>1. \A k \in DOMAIN Tail(status) : k + 1 \in DOMAIN status /\ Tail(status)[k] = status[k + 1]
  OBVIOUS
<1>2. DOMAIN Tail(status) \subseteq Nat
  OBVIOUS
<1> QED
  BY <1>1, <1>2 DEF Hop, Unused, Accepted, Outstanding

LEMMA HopLoseAck ==
  ASSUME NEW last, NEW p, NEW status \in Seq(Packet), NEW acks \in Seq(Ack),
         NEW waiting \in BOOLEAN,
         Hop(last, p, status, acks, waiting), acks # <<>>
  PROVE  Hop(last, p, status, Tail(acks), waiting)
<1>1. \A k \in DOMAIN Tail(acks) : k + 1 \in DOMAIN acks /\ Tail(acks)[k] = acks[k + 1]
  OBVIOUS
<1>2. DOMAIN Tail(acks) \subseteq Nat
  OBVIOUS
<1> QED
  BY <1>1, <1>2 DEF Hop, Unused, Accepted, Outstanding

\* handleAck() at the sender.
LEMMA HopAck ==
  ASSUME NEW last \in Packet \cup {NoPacket}, NEW p \in Packet \cup {NoPacket},
         NEW status \in Seq(Packet), NEW acks \in Seq(Ack), NEW waiting \in BOOLEAN,
         Hop(last, p, status, acks, waiting), acks # <<>>
  PROVE  Hop(last, p, status, Tail(acks), waiting /\ Head(acks) # AckOf(p))
<1>1. /\ \A k \in DOMAIN Tail(acks) : k + 1 \in DOMAIN acks /\ Tail(acks)[k] = acks[k + 1]
      /\ DOMAIN Tail(acks) \subseteq Nat \ {0}
      /\ 1 \in DOMAIN acks /\ Head(acks) = acks[1]
  OBVIOUS
<1>2. CASE p = NoPacket
  BY <1>2 DEF Hop, Unused
<1>3. CASE p # NoPacket /\ Accepted(last, p, status, acks, waiting)
  <2>1. waiting /\ Head(acks) = AckOf(p) =>
          \A k \in DOMAIN Tail(acks) : Tail(acks)[k] = AckOf(p)
    BY <1>1, <1>3 DEF Accepted
  <2>2. Accepted(last, p, status, Tail(acks), waiting /\ Head(acks) # AckOf(p))
    BY <1>1, <1>3, <2>1 DEF Accepted
  <2> QED
    BY <1>3, <2>2 DEF Hop
<1>4. CASE p # NoPacket /\ Outstanding(last, p, status, acks, waiting)
  <2>1. last \in Packet /\ p \in Packet /\ Follows(last, p) /\ Head(acks) = AckOf(last)
    BY <1>1, <1>4 DEF Outstanding
  <2>2. Head(acks) # AckOf(p)
    BY <2>1, FollowsDiffers
  <2> QED
    BY <1>1, <1>4, <2>2 DEF Hop, Outstanding
<1> QED
  BY <1>2, <1>3, <1>4 DEF Hop

\* beginForwarding() on a free slot.
LEMMA HopNext ==
  ASSUME NEW last \in Packet \cup {NoPacket}, NEW p \in Packet \cup {NoPacket},
         NEW q \in Packet,
         NEW status \in Seq(Packet), NEW acks \in Seq(Ack),
         Hop(last, p, status, acks, FALSE), p # NoPacket => Follows(p, q)
  PROVE  Hop(last, q, Sent(status, q), acks, TRUE)
<1>1. CASE p = NoPacket
  <2>1. last = NoPacket /\ status = <<>> /\ acks = <<>>
    BY <1>1 DEF Hop, Unused
  <2>2. \A k \in DOMAIN Sent(status, q) : Sent(status, q)[k] = q
    <3>1. Len(status) = 0
      BY <2>1
    <3>2. Len(Append(status, q)) = 1 /\ Append(status, q)[1] = q
      BY <3>1
    <3> QED
      BY <3>1, <3>2 DEF Sent
  <2>3. last # q /\ q # NoPacket /\ DOMAIN acks = {}
    BY <2>1, NoPacketIsNone
  <2>4. Outstanding(last, q, Sent(status, q), acks, TRUE)
    BY <2>1, <2>2, <2>3 DEF Outstanding
  <2> QED
    BY <2>3, <2>4 DEF Hop
<1>2. CASE p # NoPacket
  <2>1. /\ last = p
        /\ \A k \in DOMAIN status : status[k] = p
        /\ \A k \in DOMAIN acks : acks[k] = AckOf(p)
    BY <1>2 DEF Hop, Accepted, Outstanding
  <2>2. p # q
    BY <1>2, FollowsDiffers
  <2>3. /\ \A k \in DOMAIN Sent(status, q) : Sent(status, q)[k] \in {last, q}
        /\ \A k, l \in DOMAIN Sent(status, q) :
             k < l /\ Sent(status, q)[k] = q => Sent(status, q)[l] = q
    BY <2>1, <2>2 DEF Sent
  <2> QED
    BY <1>2, <2>1, <2>2, <2>3, NoPacketIsNone DEF Hop, Outstanding
<1> QED
  BY <1>1, <1>2

\* A retransmission.
LEMMA HopResend ==
  ASSUME NEW last \in Packet \cup {NoPacket}, NEW p \in Packet,
         NEW status \in Seq(Packet), NEW acks \in Seq(Ack),
         Hop(last, p, status, acks, TRUE)
  PROVE  Hop(last, p, Sent(status, p), acks, TRUE)
BY NoPacketIsNone DEF Hop, Accepted, Outstanding, Unused, Sent

\* Whether the receiver takes the first packet for a duplicate.
Same(last, a) == last # NoPacket /\ a.origin = last.origin /\ SeqOf(a) = SeqOf(last)

\* ... which it is just when it is the packet it accepted last.
LEMMA HopArrives ==
  ASSUME NEW last \in Packet \cup {NoPacket}, NEW p \in Packet \cup {NoPacket},
         NEW status \in Seq(Packet), NEW acks \in Seq(Ack), NEW waiting \in BOOLEAN,
         Hop(last, p, status, acks, waiting), status # <<>>
  PROVE  /\ Same(last, Head(status)) => Head(status) = last
         /\ ~Same(last, Head(status)) => /\ Head(status) = p
                                         /\ p # NoPacket
                                         /\ Outstanding(last, p, status, acks, waiting)
<1>1. /\ 1 \in DOMAIN status /\ Head(status) = status[1] /\ Head(status) \in Packet
      /\ p # NoPacket
  BY DEF Hop, Unused
<1>2. CASE Accepted(last, p, status, acks, waiting)
  BY <1>1, <1>2 DEF Accepted, Same
<1>3. CASE Outstanding(last, p, status, acks, waiting)
  <2>1. Head(status) = last \/ Head(status) = p
    BY <1>1, <1>3 DEF Outstanding
  <2>2. ASSUME Head(status) = p PROVE ~Same(last, Head(status))
    <3>1. CASE last = NoPacket
      BY <3>1 DEF Same
    <3>2. CASE last # NoPacket
      <4>1. AckOf(last) # AckOf(p)
        BY <1>1, <1>3, <3>2, FollowsDiffers DEF Outstanding
      <4> QED
        BY <2>2, <4>1 DEF Same, AckOf
    <3> QED
      BY <3>1, <3>2
  <2>3. ASSUME Head(status) = last PROVE Same(last, Head(status))
    BY <1>1, <2>3, NoPacketIsNone DEF Same
  <2> QED
    BY <1>1, <1>3, <2>1, <2>2, <2>3
<1> QED
  BY <1>1, <1>2, <1>3 DEF Hop

LEMMA HopArrivesNew ==
  ASSUME NEW last \in Packet \cup {NoPacket}, NEW p \in Packet \cup {NoPacket},
         NEW status \in Seq(Packet), NEW acks \in Seq(Ack), NEW waiting \in BOOLEAN,
         Hop(last, p, status, acks, waiting), status # <<>>,
         ~Same(last, Head(status))
  PROVE  /\ p \in Packet /\ Head(status) = p
         /\ Outstanding(last, p, status, acks, waiting)
BY HopArrives

\* A duplicate is taken from the link and ACKed again.
LEMMA HopReAck ==
  ASSUME NEW last \in Packet \cup {NoPacket}, NEW p \in Packet \cup {NoPacket},
         NEW status \in Seq(Packet), NEW acks \in Seq(Ack), NEW waiting \in BOOLEAN,
         Hop(last, p, status, acks, waiting), status # <<>>,
         Same(last, Head(status))
  PROVE  Hop(last, p, Tail(status), Sent(acks, AckOf(Head(status))), waiting)
<1> DEFINE sent == Sent(acks, AckOf(last))
<1>1. Head(status) = last /\ last # NoPacket /\ p # NoPacket
  BY HopArrives DEF Same, Hop, Unused
<1>2. Hop(last, p, Tail(status), acks, waiting)
  BY HopLoseStatus
<1>3. \A k \in DOMAIN sent : \/ k \in DOMAIN acks /\ sent[k] = acks[k]
                             \/ /\ sent[k] = AckOf(last)
                                /\ \A l \in DOMAIN acks : l < k
                                /\ \A l \in DOMAIN sent : l <= k
  BY DEF Sent
<1>4. DOMAIN sent \subseteq Nat /\ DOMAIN acks \subseteq Nat
  BY DEF Sent
<1> HIDE DEF sent
<1>5. CASE Accepted(last, p, Tail(status), acks, waiting)
  <2>1. \A k, l \in DOMAIN sent :
          k < l /\ sent[k] = AckOf(p) => sent[l] = AckOf(p)
    BY <1>3, <1>4, <1>5 DEF Accepted
  <2>2. ~waiting => \A k \in DOMAIN sent : sent[k] = AckOf(p)
    BY <1>3, <1>5 DEF Accepted
  <2>3. Hop(last, p, Tail(status), sent, waiting)
    BY <1>1, <1>5, <2>1, <2>2 DEF Hop, Accepted
  <2> QED
    BY <1>1, <2>3 DEF sent
<1>6. CASE Outstanding(last, p, Tail(status), acks, waiting)
  <2>1. Hop(last, p, Tail(status), sent, waiting)
    BY <1>1, <1>3, <1>6 DEF Hop, Outstanding
  <2> QED
    BY <1>1, <2>1 DEF sent
<1> QED
  BY <1>1, <1>2, <1>5, <1>6 DEF Hop

\* A new packet is taken from the link, accepted and ACKed.
LEMMA HopAccept ==
  ASSUME NEW last \in Packet \cup {NoPacket}, NEW p \in Packet \cup {NoPacket},
         NEW status \in Seq(Packet), NEW acks \in Seq(Ack), NEW waiting \in BOOLEAN,
         Hop(last, p, status, acks, waiting), status # <<>>,
         ~Same(last, Head(status))
  PROVE  Hop(p, p, Tail(status), Sent(acks, AckOf(p)), waiting)
<1> DEFINE sent == Sent(acks, AckOf(p))
<1>1. p \in Packet /\ Head(status) = p /\ Outstanding(last, p, status, acks, waiting)
  BY HopArrives
<1>2. \A k \in DOMAIN acks : acks[k] # AckOf(p)
  BY <1>1, FollowsDiffers DEF Outstanding
<1>3. \A k \in DOMAIN sent : \/ k \in DOMAIN acks /\ sent[k] = acks[k]
                             \/ sent[k] = AckOf(p) /\ \A l \in DOMAIN sent : l <= k
  BY DEF Sent
<1>4. \A k, l \in DOMAIN sent : k < l /\ sent[k] = AckOf(p) => sent[l] = AckOf(p)
  <2>1. DOMAIN sent \subseteq Nat
    BY DEF Sent
  <2> HIDE DEF sent
  <2> QED
    BY <1>2, <1>3, <2>1
<1>5. \A k \in DOMAIN Tail(status) : Tail(status)[k] = p
  <2>1. /\ \A k \in DOMAIN Tail(status) : k + 1 \in DOMAIN status /\ 1 < k + 1
                                         /\ Tail(status)[k] = status[k + 1]
        /\ 1 \in DOMAIN status /\ Head(status) = status[1]
    OBVIOUS
  <2> QED
    BY <1>1, <2>1 DEF Outstanding
<1> QED
  BY <1>1, <1>4, <1>5, NoPacketIsNone DEF Hop, Accepted, Outstanding

-----------------------------------------------------------------------------
(* What the steps do to the line of packets of one relay                   *)

LEMMA AppendIs ==
  ASSUME NEW S, NEW q \in Seq(S), NEW x \in S
  PROVE  /\ Append(q, x) \in Seq(S)
         /\ Len(Append(q, x)) = Len(q) + 1
         /\ Append(q, x)[Len(q) + 1] = x
         /\ \A k \in 1 .. Len(q) : Append(q, x)[k] = q[k]
<1>1. Append(q, x) \in Seq(S) /\ Len(Append(q, x)) = Len(q) + 1
  OBVIOUS
<1>2. Append(q, x)[Len(q) + 1] = x
  OBVIOUS
<1>3. \A k \in 1 .. Len(q) : Append(q, x)[k] = q[k]
  OBVIOUS
<1> QED
  BY <1>1, <1>2, <1>3, Zenon

\* The line when x joins it: its first and last elements, and the others.
LEMMA AppendFacts ==
  ASSUME NEW S, NEW q \in Seq(S), NEW x \in S, NEW q2 \in Seq(S),
         Len(q2) = Len(q) + 1, q2[Len(q) + 1] = x,
         \A k \in 1 .. Len(q) : q2[k] = q[k]
  PROVE  /\ q2 # <<>> /\ q2[Len(q2)] = x
         /\ \A k \in DOMAIN q2 : \/ k \in DOMAIN q /\ q2[k] = q[k]
                                 \/ k = Len(q) + 1 /\ q2[k] = x
         /\ q # <<>> => q2[1] = q[1] /\ Len(q) \in DOMAIN q /\ q2[Len(q)] = q[Len(q)]
         /\ q = <<>> => q2[1] = x
         /\ DOMAIN q = 1 .. Len(q) /\ Len(q) \in Nat
<1>1. /\ Len(q) \in Nat /\ DOMAIN q = 1 .. Len(q) /\ DOMAIN q2 = 1 .. Len(q) + 1
      /\ q = <<>> <=> Len(q) = 0
      /\ q2 # <<>>
  OBVIOUS
<1>2. \A k \in DOMAIN q2 : \/ k \in DOMAIN q /\ q2[k] = q[k]
                           \/ k = Len(q) + 1 /\ q2[k] = x
  BY <1>1
<1>3. q # <<>> => q2[1] = q[1] /\ Len(q) \in DOMAIN q /\ q2[Len(q)] = q[Len(q)]
  BY <1>1
<1>4. q2[Len(q2)] = x
  OBVIOUS
<1>5. q = <<>> => q2[1] = x
  <2>1. q = <<>> => Len(q) + 1 = 1
    BY <1>1
  <2> QED
    BY <2>1
<1>6. q2 # <<>> /\ DOMAIN q = 1 .. Len(q) /\ Len(q) \in Nat
  BY <1>1
<1> QED
  BY <1>2, <1>3, <1>4, <1>5, <1>6, Zenon

LEMMA TailIs ==
  ASSUME NEW S, NEW q \in Seq(S), q # <<>>
  PROVE  /\ Tail(q) \in Seq(S)
         /\ Len(Tail(q)) = Len(q) - 1
         /\ \A k \in 1 .. Len(q) - 1 : Tail(q)[k] = q[k + 1]
         /\ Head(q) = q[1]
<1>1. Tail(q) \in Seq(S) /\ Len(Tail(q)) = Len(q) - 1 /\ Head(q) = q[1]
  OBVIOUS
<1>2. \A k \in 1 .. Len(q) - 1 : Tail(q)[k] = q[k + 1]
  OBVIOUS
<1> QED
  BY <1>1, <1>2, Zenon

LEMMA TailFacts ==
  ASSUME NEW S, NEW q \in Seq(S), q # <<>>, NEW t \in Seq(S),
         Len(t) = Len(q) - 1,
         \A k \in 1 .. Len(q) - 1 : t[k] = q[k + 1]
  PROVE  /\ 1 \in DOMAIN q
         /\ \A k \in DOMAIN t : k \in Nat /\ k + 1 \in DOMAIN q /\ t[k] = q[k + 1]
         /\ t # <<>> => t[Len(t)] = q[Len(q)] /\ t[1] = q[2] /\ 2 \in DOMAIN q
         /\ t = <<>> => q[1] = q[Len(q)]
<1>1. /\ Len(q) \in Nat \ {0} /\ DOMAIN q = 1 .. Len(q) /\ DOMAIN t = 1 .. Len(q) - 1
      /\ t = <<>> <=> Len(q) = 1
  OBVIOUS
<1>2. \A k \in DOMAIN t : k \in Nat /\ k + 1 \in DOMAIN q /\ t[k] = q[k + 1]
  BY <1>1
<1>3. ASSUME t # <<>> PROVE t[Len(t)] = q[Len(q)] /\ t[1] = q[2] /\ 2 \in DOMAIN q
  <2>1. Len(q) - 1 \in 1 .. Len(q) - 1 /\ 1 \in 1 .. Len(q) - 1 /\ Len(q) - 1 + 1 = Len(q)
    BY <1>1, <1>3
  <2> QED
    BY <1>1, <2>1
<1> QED
  BY <1>1, <1>2, <1>3

\* A packet from upstream is queued.
LEMMA LineAccept ==
  ASSUME NEW n \in Nat, NEW p \in Packet \cup {NoPacket}, NEW q \in Seq(Packet),
         NEW run \in Nat, NEW seq \in Nat, NEW last \in Packet \cup {NoPacket},
         NEW new \in Packet,
         Line(n, p, q, run, seq, last),
         InLine(n, new), new.origin # n,
         last # NoPacket => Follows(last, new)
  PROVE  Line(n, p, Append(q, new), run, seq, new)
<1> DEFINE q2 == Append(q, new)
<1>0. /\ q2 \in Seq(Packet) /\ Len(q2) = Len(q) + 1 /\ q2[Len(q) + 1] = new
      /\ \A k \in 1 .. Len(q) : q2[k] = q[k]
  <2>1. /\ Append(q, new) \in Seq(Packet)
        /\ Len(Append(q, new)) = Len(q) + 1
        /\ Append(q, new)[Len(q) + 1] = new
        /\ \A k \in 1 .. Len(q) : Append(q, new)[k] = q[k]
    BY AppendIs
  <2> QED
    BY <2>1, Zenon
<1> HIDE DEF q2
<1>1. /\ q2 # <<>> /\ Len(q2) = Len(q) + 1 /\ q2[Len(q2)] = new
      /\ \A k \in DOMAIN q2 : \/ k \in DOMAIN q /\ q2[k] = q[k]
                              \/ k = Len(q) + 1 /\ q2[k] = new
      /\ q # <<>> => q2[1] = q[1] /\ Len(q) \in DOMAIN q /\ q2[Len(q)] = q[Len(q)]
      /\ q = <<>> => q2[1] = new
      /\ DOMAIN q = 1 .. Len(q) /\ Len(q) \in Nat
  BY <1>0, AppendFacts
<1>2. q # <<>> => Follows(q[Len(q)], new)
  <2>1. CASE q # <<>> /\ q[Len(q)].origin = n
    BY <2>1 DEF Follows
  <2>2. CASE q # <<>> /\ q[Len(q)].origin # n
    BY <1>1, <2>2, NoPacketIsNone DEF Line, EndsWith
  <2> QED
    BY <2>1, <2>2
<1>3. p # NoPacket /\ q = <<>> => Follows(p, new)
  BY NoPacketIsNone DEF Line, EndsWith, Follows
<1>4. EndsWith(n, new, run, seq, new)
  BY DEF EndsWith
<1>5. \A k \in DOMAIN q2 : InLine(n, q2[k])
  BY <1>1 DEF Line
<1>6. \A k \in DOMAIN q2 : k + 1 \in DOMAIN q2 => Follows(q2[k], q2[k + 1])
  <2> SUFFICES ASSUME NEW k \in DOMAIN q2, k + 1 \in DOMAIN q2
               PROVE  Follows(q2[k], q2[k + 1])
    OBVIOUS
  <2>1. CASE k + 1 \in DOMAIN q
    BY <1>1, <2>1 DEF Line
  <2>2. CASE k + 1 = Len(q) + 1
    BY <1>1, <1>2, <2>2
  <2> QED
    BY <1>1, <2>1, <2>2
<1>7. Line(n, p, q2, run, seq, new)
  BY <1>1, <1>3, <1>4, <1>5, <1>6 DEF Line
<1> QED
  BY <1>7 DEF q2

\* The node's own reading is queued.
LEMMA LineOwn ==
  ASSUME NoResetAssumption,
         NEW n \in Nat \ {0}, NEW p \in Packet \cup {NoPacket}, NEW q \in Seq(Packet),
         NEW run \in Nat, NEW seq \in Nat, NEW last \in Packet \cup {NoPacket},
         NEW new \in Packet,
         Line(n, p, q, run, seq, last),
         new.origin = n, new.num = seq
  PROVE  Line(n, p, Append(q, new), 0, seq + 1, last)
<1> DEFINE q2 == Append(q, new)
<1>0. /\ q2 \in Seq(Packet) /\ Len(q2) = Len(q) + 1 /\ q2[Len(q) + 1] = new
      /\ \A k \in 1 .. Len(q) : q2[k] = q[k]
  <2>1. /\ Append(q, new) \in Seq(Packet)
        /\ Len(Append(q, new)) = Len(q) + 1
        /\ Append(q, new)[Len(q) + 1] = new
        /\ \A k \in 1 .. Len(q) : Append(q, new)[k] = q[k]
    BY AppendIs
  <2> QED
    BY <2>1, Zenon
<1> HIDE DEF q2
<1>1. /\ q2 # <<>> /\ Len(q2) = Len(q) + 1 /\ q2[Len(q2)] = new
      /\ \A k \in DOMAIN q2 : \/ k \in DOMAIN q /\ q2[k] = q[k]
                              \/ k = Len(q) + 1 /\ q2[k] = new
      /\ q # <<>> => q2[1] = q[1] /\ Len(q) \in DOMAIN q /\ q2[Len(q)] = q[Len(q)]
      /\ q = <<>> => q2[1] = new
      /\ DOMAIN q = 1 .. Len(q) /\ Len(q) \in Nat
  BY <1>0, AppendFacts
<1>2. ASSUME NEW a \in Packet, EndsWith(n, a, run, seq, last)
      PROVE  Follows(a, new)
  <2>1. CASE a.origin = n
    <3>1. a.num \in Nat /\ a.num + 1 + run = seq
      BY <1>2, <2>1 DEF EndsWith, Packet
    <3>2. run <= MaxDropRun /\ MaxDropRun \in Nat /\ SeqMod \in Nat /\ MaxDropRun + 1 < SeqMod
      BY ChainAssumption DEF Line, NoResetAssumption
    <3> QED
      BY <3>1, <3>2 DEF Follows
  <2>2. CASE a.origin # n
    BY <2>2 DEF Follows
  <2> QED
    BY <2>1, <2>2
<1>3. q # <<>> => Follows(q[Len(q)], new)
  BY <1>1, <1>2 DEF Line
<1>4. p # NoPacket /\ q = <<>> => Follows(p, new)
  BY <1>2 DEF Line
<1>5. EndsWith(n, new, 0, seq + 1, last) /\ InLine(n, new) /\ 0 <= MaxDropRun
  BY ChainAssumption DEF EndsWith, InLine
<1>6. \A k \in DOMAIN q2 : InLine(n, q2[k])
  BY <1>1, <1>5 DEF Line
<1>7. \A k \in DOMAIN q2 : k + 1 \in DOMAIN q2 => Follows(q2[k], q2[k + 1])
  <2> SUFFICES ASSUME NEW k \in DOMAIN q2, k + 1 \in DOMAIN q2
               PROVE  Follows(q2[k], q2[k + 1])
    OBVIOUS
  <2>1. CASE k + 1 \in DOMAIN q
    BY <1>1, <2>1 DEF Line
  <2>2. CASE k + 1 = Len(q) + 1
    BY <1>1, <1>3, <2>2
  <2> QED
    BY <1>1, <2>1, <2>2
<1>8. Line(n, p, q2, 0, seq + 1, last)
  BY <1>1, <1>4, <1>5, <1>6, <1>7 DEF Line
<1> QED
  BY <1>8 DEF q2

\* The node's own reading is dropped.
LEMMA LineDrop ==
  ASSUME NEW n \in Nat, NEW p \in Packet \cup {NoPacket}, NEW q \in Seq(Packet),
         NEW run \in Nat, NEW seq \in Nat, NEW last \in Packet \cup {NoPacket},
         Line(n, p, q, run, seq, last), q # <<>>, run < MaxDropRun
  PROVE  Line(n, p, q, run + 1, seq + 1, last)
<1>1. q[Len(q)] \in Packet
  OBVIOUS
<1>2. EndsWith(n, q[Len(q)], run + 1, seq + 1, last)
  <2>1. EndsWith(n, q[Len(q)], run, seq, last) /\ q[Len(q)].num \in Nat
    BY <1>1 DEF Line, Packet
  <2> QED
    BY <2>1 DEF EndsWith
<1>3. run + 1 <= MaxDropRun
  BY ChainAssumption
<1> QED
  BY <1>2, <1>3 DEF Line

\* The head of the queue becomes the packet being sent.
LEMMA LineShift ==
  ASSUME NEW n \in Nat, NEW p \in Packet \cup {NoPacket}, NEW q \in Seq(Packet),
         NEW run \in Nat, NEW seq \in Nat, NEW last \in Packet \cup {NoPacket},
         Line(n, p, q, run, seq, last), q # <<>>
  PROVE  /\ Line(n, Head(q), Tail(q), run, seq, last)
         /\ p # NoPacket => Follows(p, Head(q))
<1> DEFINE t == Tail(q)
<1>0. /\ t \in Seq(Packet) /\ Len(t) = Len(q) - 1
      /\ \A k \in 1 .. Len(q) - 1 : t[k] = q[k + 1]
      /\ Head(q) = q[1]
  BY TailIs, Zenon
<1> HIDE DEF t
<1>1. /\ Head(q) = q[1] /\ 1 \in DOMAIN q
      /\ \A k \in DOMAIN t : k \in Nat /\ k + 1 \in DOMAIN q /\ t[k] = q[k + 1]
      /\ t # <<>> => /\ t[Len(t)] = q[Len(q)] /\ t[1] = q[2] /\ 2 \in DOMAIN q
      /\ t = <<>> => q[1] = q[Len(q)]
  BY <1>0, TailFacts
<1>2. Line(n, q[1], t, run, seq, last)
  BY <1>1 DEF Line
<1> QED
  BY <1>1, <1>2 DEF t, Line

LEMMA RelayFacts ==
  ASSUME NEW i \in Relay
  PROVE  i \in Node /\ i \in Nat \ {0} /\ NextId(i) \in Node /\ PrevId(i) = i - 1
BY ChainAssumption DEF Relay, Node, Gateway, NextId, PrevId

\* One pass of loop(), with or without a reading of the node's own.
LEMMA LineOriginate ==
  ASSUME NoResetAssumption, TypeInv, NEW n \in Relay, LineInv(n),
         NEW localDue \in BOOLEAN, Originate(n, localDue)
  PROVE  Line(n, pending[n], QueueAfter(n, localDue), dropRun'[n], localSeq'[n],
              lastAccepted[n])
<1>1. /\ n \in Node /\ n \in Nat \ {0}
      /\ pending[n] \in Packet \cup {NoPacket}
      /\ lastAccepted[n] \in Packet \cup {NoPacket}
      /\ outQueue[n] \in Seq(Packet)
      /\ dropRun[n] \in Nat /\ localSeq[n] \in Nat
  BY RelayFacts DEF TypeInv, TypeOK
<1>2. Line(n, pending[n], outQueue[n], dropRun[n], localSeq[n], lastAccepted[n])
  BY DEF LineInv
<1>3. CASE localDue = TRUE /\ HasRoom(n)
  <2>1. /\ dropRun'[n] = 0 /\ localSeq'[n] = localSeq[n] + 1
        /\ QueueAfter(n, localDue) = Append(outQueue[n], Reading(n))
    BY <1>1, <1>3 DEF Originate, QueueAfter, TypeInv, TypeOK
  <2>2. Reading(n) \in Packet /\ Reading(n).origin = n /\ Reading(n).num = localSeq[n]
    BY <1>1 DEF Reading, Packet, TypeInv, TypeOK
  <2>3. Line(n, pending[n], Append(outQueue[n], Reading(n)), 0, localSeq[n] + 1,
             lastAccepted[n])
    BY <1>1, <1>2, <2>2, LineOwn
  <2> QED
    BY <2>1, <2>3
<1>4. CASE localDue = TRUE /\ ~HasRoom(n)
  <2>1. /\ dropRun'[n] = dropRun[n] + 1 /\ localSeq'[n] = localSeq[n] + 1
        /\ QueueAfter(n, localDue) = outQueue[n]
        /\ dropRun[n] < MaxDropRun
    BY <1>1, <1>4 DEF Originate, QueueAfter, TypeInv, TypeOK
  <2>2. outQueue[n] # <<>>
    BY <1>1, <1>4, ChainAssumption DEF HasRoom
  <2>3. Line(n, pending[n], outQueue[n], dropRun[n] + 1, localSeq[n] + 1, lastAccepted[n])
    BY <1>1, <1>2, <2>1, <2>2, LineDrop
  <2> QED
    BY <2>1, <2>3
<1>5. CASE localDue = FALSE
  BY <1>2, <1>5 DEF Originate, QueueAfter
<1> QED
  BY <1>3, <1>4, <1>5

-----------------------------------------------------------------------------
(* What a step leaves alone stays as it was                                *)

LEMMA HopKept ==
  ASSUME NEW i \in Relay, HopInv(i),
         lastAccepted'[NextId(i)] = lastAccepted[NextId(i)],
         pending'[i] = pending[i], statusLink'[i] = statusLink[i],
         ackLink'[i] = ackLink[i],
         (state'[i] = "Forwarding") = (state[i] = "Forwarding")
  PROVE  HopInv(i)'
BY DEF HopInv

LEMMA LineKept ==
  ASSUME NEW i \in Relay, LineInv(i),
         pending'[i] = pending[i], outQueue'[i] = outQueue[i],
         dropRun'[i] = dropRun[i], localSeq'[i] = localSeq[i],
         lastAccepted'[i] = lastAccepted[i]
  PROVE  LineInv(i)'
BY DEF LineInv

\* Different nodes have different next ones.
LEMMA NextInjective ==
  ASSUME NEW i \in Node, NEW j \in Node, NextId(i) = NextId(j)
  PROVE  i = j
BY ChainAssumption DEF Node, NextId

\* The hop a relay sends on, as values of their types.
LEMMA HopOf ==
  ASSUME TypeInv, NEW i \in Relay
  PROVE  /\ lastAccepted[NextId(i)] \in Packet \cup {NoPacket}
         /\ pending[i] \in Packet \cup {NoPacket}
         /\ statusLink[i] \in Seq(Packet)
         /\ ackLink[i] \in Seq(Ack)
BY RelayFacts DEF TypeInv, TypeOK
-----------------------------------------------------------------------------
(* Every step preserves the invariant                                      *)

LEMMA InvInit == Init => StopAndWaitInv
<1> SUFFICES ASSUME Init PROVE StopAndWaitInv
  OBVIOUS
<1>1. statusLink[Gateway] = <<>>
  BY RingFacts, ChainAssumption DEF Init, Node, Gateway
<1>2. ASSUME NEW n \in Relay PROVE HopInv(n) /\ LineInv(n)
  <2>1. /\ lastAccepted[NextId(n)] = NoPacket /\ pending[n] = NoPacket
        /\ statusLink[n] = <<>> /\ ackLink[n] = <<>> /\ outQueue[n] = <<>>
        /\ state[n] # "Forwarding" /\ dropRun[n] = 0
    BY RelayFacts DEF Init
  <2> QED
    BY <2>1, ChainAssumption DEF HopInv, Hop, Unused, LineInv, Line
<1> QED
  BY <1>1, <1>2 DEF StopAndWaitInv

LEMMA InvHello ==
  ASSUME TypeInv, StopAndWaitInv, NEW n \in Node, NEW m \in Node, HandleHello(n, m)
  PROVE  StopAndWaitInv'
<1>1. /\ UNCHANGED <<outQueue, pending, lastAccepted, localSeq, statusLink, ackLink, dropRun>>
      /\ \A i \in Node : (state'[i] = "Forwarding") = (state[i] = "Forwarding")
  BY DEF HandleHello, history, TypeInv, TypeOK
<1>2. ASSUME NEW i \in Relay PROVE HopInv(i)' /\ LineInv(i)'
  BY <1>1, <1>2, RelayFacts, HopKept, LineKept DEF StopAndWaitInv
<1> QED
  BY <1>1, <1>2 DEF StopAndWaitInv

\* Whoever is sent a StatusPacket is sent it by a relay.
LEMMA StatusFromRelay ==
  ASSUME TypeInv, StopAndWaitInv, NEW n \in Node, TakeStatus(n)
  PROVE  /\ PrevId(n) \in Relay
         /\ \A i \in Relay : i # PrevId(n) =>
              NextId(i) # n /\ statusLink'[i] = statusLink[i]
         /\ statusLink'[PrevId(n)] = Tail(statusLink[PrevId(n)])
         /\ statusLink'[Gateway] = <<>>
         /\ Hop(lastAccepted[n], pending[PrevId(n)], statusLink[PrevId(n)],
                ackLink[PrevId(n)], state[PrevId(n)] = "Forwarding")
<1>1. PrevId(n) \in Relay
  BY RingFacts DEF StopAndWaitInv, TakeStatus, Relay
<1>2. \A i \in Relay : i # PrevId(n) => NextId(i) # n
  BY RingFacts, RelayFacts
<1>3. statusLink' = [statusLink EXCEPT ![PrevId(n)] = Tail(@)]
  BY DEF TakeStatus
<1>4. /\ \A i \in Relay : i # PrevId(n) => statusLink'[i] = statusLink[i]
      /\ statusLink'[PrevId(n)] = Tail(statusLink[PrevId(n)])
      /\ statusLink'[Gateway] = <<>>
  BY <1>1, <1>3, RingFacts, RelayFacts DEF StopAndWaitInv, TypeInv, TypeOK, Relay
<1>5. Hop(lastAccepted[n], pending[PrevId(n)], statusLink[PrevId(n)],
          ackLink[PrevId(n)], state[PrevId(n)] = "Forwarding")
  BY <1>1, RingFacts DEF StopAndWaitInv, HopInv
<1> QED
  BY <1>1, <1>2, <1>4, <1>5

\* The two ways of handleStatus() that answer nothing.
LEMMA InvDropped ==
  ASSUME TypeInv, StopAndWaitInv, NEW n \in Node, TakeStatus(n),
         UNCHANGED <<ram, ackLink, history>>
  PROVE  StopAndWaitInv'
<1> DEFINE m == PrevId(n)
<1>1. /\ UNCHANGED <<outQueue, pending, lastAccepted, localSeq, ackLink, dropRun, state>>
      /\ m \in Relay /\ statusLink[m] # <<>> /\ NextId(m) = n
  BY StatusFromRelay, RingFacts DEF ram, history, TakeStatus
<1>2. Hop(lastAccepted[n], pending[m], Tail(statusLink[m]), ackLink[m],
          state[m] = "Forwarding")
  BY <1>1, StatusFromRelay, HopOf, HopLoseStatus
<1>3. HopInv(m)'
  BY <1>1, <1>2, StatusFromRelay DEF HopInv
<1>4. ASSUME NEW i \in Relay, i # m PROVE HopInv(i)'
  BY <1>1, <1>4, StatusFromRelay, HopKept DEF StopAndWaitInv
<1>5. ASSUME NEW i \in Relay PROVE LineInv(i)'
  BY <1>1, <1>5, LineKept DEF StopAndWaitInv
<1> QED
  BY <1>3, <1>4, <1>5, StatusFromRelay DEF StopAndWaitInv

\* What an ACK of a packet from m = PrevId(n) does to the links of the hops.
LEMMA AckSent ==
  ASSUME TypeInv, NEW n \in Node, NEW p, SendAck(n, p)
  PROVE  /\ ackLink'[PrevId(n)] = Sent(ackLink[PrevId(n)], AckOf(p))
         /\ \A i \in Relay : i # PrevId(n) => ackLink'[i] = ackLink[i]
BY RingFacts, RelayFacts DEF SendAck, TypeInv, TypeOK

LEMMA InvReAck ==
  ASSUME TypeInv, StopAndWaitInv, NEW n \in Node, ReAckDuplicate(n)
  PROVE  StopAndWaitInv'
<1> DEFINE m == PrevId(n)
<1>1. /\ UNCHANGED <<outQueue, pending, lastAccepted, localSeq, dropRun, state>>
      /\ TakeStatus(n) /\ SendAck(n, Arriving(n))
      /\ m \in Relay /\ statusLink[m] # <<>> /\ NextId(m) = n
      /\ Same(lastAccepted[n], Head(statusLink[m]))
  BY StatusFromRelay, RingFacts
     DEF ReAckDuplicate, ram, history, TakeStatus, IsDuplicate, Arriving, Same
<1>2. Hop(lastAccepted[n], pending[m], Tail(statusLink[m]),
          Sent(ackLink[m], AckOf(Head(statusLink[m]))), state[m] = "Forwarding")
  BY <1>1, StatusFromRelay, HopOf, HopReAck
<1>3. HopInv(m)'
  BY <1>1, <1>2, StatusFromRelay, AckSent DEF HopInv, Arriving
<1>4. ASSUME NEW i \in Relay, i # m PROVE HopInv(i)'
  BY <1>1, <1>4, StatusFromRelay, AckSent, HopKept DEF StopAndWaitInv
<1>5. ASSUME NEW i \in Relay PROVE LineInv(i)'
  BY <1>1, <1>5, LineKept DEF StopAndWaitInv
<1> QED
  BY <1>1, <1>3, <1>4, <1>5, StatusFromRelay DEF StopAndWaitInv

\* The hops when n accepts a packet: what SinkStatus and QueueStatus share.
LEMMA HopsAccept ==
  ASSUME TypeInv, StopAndWaitInv, NEW n \in Node,
         TakeStatus(n), ~IsDuplicate(n), SendAck(n, Arriving(n)),
         lastAccepted' = [lastAccepted EXCEPT ![n] = Arriving(n)],
         UNCHANGED <<state, pending>>
  PROVE  /\ \A i \in Relay : HopInv(i)'
         /\ statusLink'[Gateway] = <<>>
         /\ PrevId(n) \in Relay
         /\ Arriving(n) \in Packet /\ Arriving(n) = pending[PrevId(n)]
         /\ lastAccepted[n] # NoPacket => Follows(lastAccepted[n], Arriving(n))
<1> DEFINE m == PrevId(n)
<1>1. /\ m \in Relay /\ statusLink[m] # <<>> /\ NextId(m) = n
      /\ ~Same(lastAccepted[n], Head(statusLink[m]))
  BY StatusFromRelay, RingFacts DEF TakeStatus, IsDuplicate, Arriving, Same
<1>2. /\ lastAccepted[n] \in Packet \cup {NoPacket}
      /\ pending[m] \in Packet \cup {NoPacket}
      /\ statusLink[m] \in Seq(Packet) /\ ackLink[m] \in Seq(Ack)
      /\ Hop(lastAccepted[n], pending[m], statusLink[m], ackLink[m],
             state[m] = "Forwarding")
  BY <1>1, HopOf, StatusFromRelay
<1>3. /\ Arriving(n) = pending[m] /\ pending[m] \in Packet
      /\ Outstanding(lastAccepted[n], pending[m], statusLink[m], ackLink[m],
                     state[m] = "Forwarding")
  <2>1. /\ pending[m] \in Packet /\ Head(statusLink[m]) = pending[m]
        /\ Outstanding(lastAccepted[n], pending[m], statusLink[m], ackLink[m],
                       state[m] = "Forwarding")
    BY <1>1, <1>2, HopArrivesNew
  <2> QED
    BY <2>1 DEF Arriving
<1>4. Hop(pending[m], pending[m], Tail(statusLink[m]),
          Sent(ackLink[m], AckOf(pending[m])), state[m] = "Forwarding")
  BY <1>1, <1>2, HopAccept
<1>5. /\ lastAccepted'[n] = pending[m]
      /\ \A i \in Relay : i # m => lastAccepted'[NextId(i)] = lastAccepted[NextId(i)]
  BY <1>3, StatusFromRelay, RelayFacts DEF TypeInv, TypeOK
<1>6. HopInv(m)'
  BY <1>1, <1>3, <1>4, <1>5, StatusFromRelay, AckSent DEF HopInv
<1>7. ASSUME NEW i \in Relay, i # m PROVE HopInv(i)'
  BY <1>5, <1>7, StatusFromRelay, AckSent, HopKept DEF StopAndWaitInv
<1> QED
  BY <1>1, <1>3, <1>6, <1>7, StatusFromRelay DEF Outstanding

LEMMA InvSink ==
  ASSUME TypeInv, StopAndWaitInv, NEW n \in Node, SinkStatus(n)
  PROVE  StopAndWaitInv'
<1>1. (\A i \in Relay : HopInv(i)') /\ statusLink'[Gateway] = <<>>
  BY HopsAccept DEF SinkStatus
<1>2. ASSUME NEW i \in Relay PROVE LineInv(i)'
  <2>1. lastAccepted'[i] = lastAccepted[i]
    BY <1>2, RelayFacts DEF SinkStatus, Relay, TypeInv, TypeOK
  <2> QED
    BY <1>2, <2>1, LineKept DEF SinkStatus, StopAndWaitInv
<1> QED
  BY <1>1, <1>2 DEF StopAndWaitInv

LEMMA InvQueue ==
  ASSUME TypeInv, StopAndWaitInv, NEW n \in Node, QueueStatus(n)
  PROVE  StopAndWaitInv'
<1> DEFINE new == Arriving(n)
<1>1. /\ \A i \in Relay : HopInv(i)'
      /\ statusLink'[Gateway] = <<>>
      /\ PrevId(n) \in Relay
      /\ new \in Packet /\ new = pending[PrevId(n)]
      /\ lastAccepted[n] # NoPacket => Follows(lastAccepted[n], new)
  BY HopsAccept DEF QueueStatus
<1>2. n \in Relay
  BY DEF QueueStatus, Relay
<1>3. /\ outQueue' = [outQueue EXCEPT ![n] = Append(@, new)]
      /\ lastAccepted' = [lastAccepted EXCEPT ![n] = new]
      /\ UNCHANGED <<pending, localSeq, dropRun>>
  BY DEF QueueStatus, history
<1> HIDE DEF new
<1>4. LineInv(n)'
  <2>1. InLine(PrevId(n), new)
    BY <1>1, NoPacketIsNone DEF StopAndWaitInv, LineInv, Line
  <2>2. InLine(n, new) /\ new.origin # n
    BY <1>1, <1>2, <2>1, RelayFacts DEF InLine, Packet, Node
  <2>3. Line(n, pending[n], Append(outQueue[n], new), dropRun[n], localSeq[n], new)
    <3>1. Line(n, pending[n], outQueue[n], dropRun[n], localSeq[n], lastAccepted[n])
      BY <1>2 DEF StopAndWaitInv, LineInv
    <3>2. /\ n \in Nat /\ pending[n] \in Packet \cup {NoPacket}
          /\ outQueue[n] \in Seq(Packet) /\ dropRun[n] \in Nat /\ localSeq[n] \in Nat
          /\ lastAccepted[n] \in Packet \cup {NoPacket}
      BY <1>2, RelayFacts DEF TypeInv, TypeOK
    <3> QED
      BY <1>1, <2>2, <3>1, <3>2, LineAccept
  <2>4. /\ outQueue'[n] = Append(outQueue[n], new) /\ lastAccepted'[n] = new
        /\ pending'[n] = pending[n] /\ dropRun'[n] = dropRun[n] /\ localSeq'[n] = localSeq[n]
    BY <1>3 DEF TypeInv, TypeOK
  <2> QED
    BY <2>3, <2>4 DEF LineInv
<1>5. ASSUME NEW i \in Relay, i # n PROVE LineInv(i)'
  <2>1. lastAccepted'[i] = lastAccepted[i] /\ outQueue'[i] = outQueue[i]
    BY <1>3, <1>5, RelayFacts DEF TypeInv, TypeOK
  <2> QED
    BY <1>3, <1>5, <2>1, LineKept DEF StopAndWaitInv
<1> QED
  BY <1>1, <1>4, <1>5 DEF StopAndWaitInv

LEMMA InvStatus ==
  ASSUME TypeInv, StopAndWaitInv, NEW n \in Node, HandleStatus(n)
  PROVE  StopAndWaitInv'
BY InvDropped, InvReAck, InvSink, InvQueue
   DEF HandleStatus, IgnoreStatus, RefuseStatus

LEMMA InvAck ==
  ASSUME TypeInv, StopAndWaitInv, NEW n \in Node, HandleAck(n)
  PROVE  StopAndWaitInv'
<1>1. /\ ackLink[n] # <<>>
      /\ ackLink' = [ackLink EXCEPT ![n] = Tail(@)]
      /\ UNCHANGED <<outQueue, pending, lastAccepted, localSeq, statusLink, dropRun>>
      /\ \A i \in Node : i # n => (state'[i] = "Forwarding") = (state[i] = "Forwarding")
      /\ (state'[n] = "Forwarding")
           = (state[n] = "Forwarding" /\ Head(ackLink[n]) # AckOf(pending[n]))
  BY DEF HandleAck, history, TypeInv, TypeOK
<1>2. ASSUME NEW i \in Relay PROVE HopInv(i)'
  <2>1. CASE i # n
    BY <1>1, <1>2, <2>1, RelayFacts, HopKept DEF StopAndWaitInv, TypeInv, TypeOK
  <2>2. CASE i = n
    <3>1. Hop(lastAccepted[NextId(n)], pending[n], statusLink[n], ackLink[n],
              state[n] = "Forwarding")
      BY <1>2, <2>2 DEF StopAndWaitInv, HopInv
    <3>2. Hop(lastAccepted[NextId(n)], pending[n], statusLink[n], Tail(ackLink[n]),
              state[n] = "Forwarding" /\ Head(ackLink[n]) # AckOf(pending[n]))
      <4> DEFINE w == state[n] = "Forwarding"
      <4>1. /\ w \in BOOLEAN /\ ackLink[n] # <<>>
            /\ Hop(lastAccepted[NextId(n)], pending[n], statusLink[n], ackLink[n], w)
        BY <1>1, <3>1
      <4>2. Hop(lastAccepted[NextId(n)], pending[n], statusLink[n], Tail(ackLink[n]),
                w /\ Head(ackLink[n]) # AckOf(pending[n]))
        <5> HIDE DEF w
        <5> QED
          BY <1>2, <2>2, <4>1, HopOf, HopAck
      <4> QED
        BY <4>2
    <3>3. ackLink'[n] = Tail(ackLink[n])
      BY <1>1 DEF TypeInv, TypeOK
    <3> QED
      BY <1>1, <2>2, <3>2, <3>3 DEF HopInv
  <2> QED
    BY <2>1, <2>2
<1>3. ASSUME NEW i \in Relay PROVE LineInv(i)'
  BY <1>1, <1>3, LineKept DEF StopAndWaitInv
<1> QED
  BY <1>1, <1>2, <1>3 DEF StopAndWaitInv

LEMMA InvLose ==
  ASSUME TypeInv, StopAndWaitInv, NEW n \in Node, LoseStatus(n) \/ LoseAck(n)
  PROVE  StopAndWaitInv'
<1>1. /\ UNCHANGED <<outQueue, pending, lastAccepted, localSeq, dropRun, state>>
      /\ \A i \in Node : i # n => ackLink'[i] = ackLink[i] /\ statusLink'[i] = statusLink[i]
      /\ \/ /\ statusLink[n] # <<>> /\ statusLink'[n] = Tail(statusLink[n])
            /\ ackLink' = ackLink
         \/ /\ ackLink[n] # <<>> /\ ackLink'[n] = Tail(ackLink[n])
            /\ statusLink' = statusLink
  BY DEF LoseStatus, LoseAck, ram, history, TypeInv, TypeOK
<1>2. statusLink'[Gateway] = <<>>
  BY <1>1, RingFacts DEF StopAndWaitInv
<1>3. ASSUME NEW i \in Relay PROVE HopInv(i)'
  <2>1. CASE i # n
    BY <1>1, <1>3, <2>1, RelayFacts, HopKept DEF StopAndWaitInv
  <2>2. CASE i = n
    <3>1. Hop(lastAccepted[NextId(n)], pending[n], statusLink[n], ackLink[n],
              state[n] = "Forwarding")
      BY <1>3, <2>2 DEF StopAndWaitInv, HopInv
    <3>2. Hop(lastAccepted[NextId(n)], pending[n], statusLink'[n], ackLink'[n],
              state[n] = "Forwarding")
      BY <1>1, <1>3, <2>2, <3>1, HopOf, HopLoseStatus, HopLoseAck
    <3> QED
      BY <1>1, <2>2, <3>2 DEF HopInv
  <2> QED
    BY <2>1, <2>2
<1>4. ASSUME NEW i \in Relay PROVE LineInv(i)'
  BY <1>1, <1>4, LineKept DEF StopAndWaitInv
<1> QED
  BY <1>2, <1>3, <1>4 DEF StopAndWaitInv

LEMMA InvLoopGateway ==
  ASSUME TypeInv, StopAndWaitInv, NEW n \in Node, LoopGateway(n)
  PROVE  StopAndWaitInv'
<1>1. /\ UNCHANGED <<state, outQueue, pending, lastAccepted, statusLink, ackLink, dropRun>>
      /\ \A i \in Relay : localSeq'[i] = localSeq[i]
  BY RelayFacts DEF LoopGateway, Relay, TypeInv, TypeOK
<1> QED
  BY <1>1, HopKept, LineKept DEF StopAndWaitInv

LEMMA InvLoopForwarding ==
  ASSUME NoResetAssumption, TypeInv, StopAndWaitInv, NEW n \in Node,
         NEW localDue \in BOOLEAN, NEW ackDue \in BOOLEAN,
         LoopForwarding(n, localDue, ackDue)
  PROVE  StopAndWaitInv'
<1>1. /\ n \in Relay /\ state[n] = "Forwarding" /\ pending[n] \in Packet
      /\ Originate(n, localDue)
      /\ UNCHANGED <<state, pending, lastAccepted, ackLink>>
      /\ outQueue' = [outQueue EXCEPT ![n] = QueueAfter(n, localDue)]
      /\ statusLink' = statusLink
           \/ statusLink' = [statusLink EXCEPT ![n] = Sent(@, pending[n])]
  BY DEF LoopForwarding, Relay, TypeInv
<1>2. \A i \in Node : i # n => /\ outQueue'[i] = outQueue[i] /\ statusLink'[i] = statusLink[i]
                               /\ localSeq'[i] = localSeq[i] /\ dropRun'[i] = dropRun[i]
  BY <1>1 DEF Originate, TypeInv, TypeOK
<1>3. statusLink'[Gateway] = <<>>
  BY <1>1, <1>2, RingFacts DEF StopAndWaitInv, Relay
<1>4. HopInv(n)'
  <2>1. Hop(lastAccepted[NextId(n)], pending[n], statusLink[n], ackLink[n], TRUE)
    BY <1>1 DEF StopAndWaitInv, HopInv
  <2>2. Hop(lastAccepted[NextId(n)], pending[n], Sent(statusLink[n], pending[n]),
            ackLink[n], TRUE)
    BY <1>1, <2>1, HopOf, HopResend
  <2>3. statusLink'[n] = statusLink[n] \/ statusLink'[n] = Sent(statusLink[n], pending[n])
    BY <1>1 DEF TypeInv, TypeOK
  <2> QED
    BY <1>1, <2>1, <2>2, <2>3 DEF HopInv
<1>5. LineInv(n)'
  <2>1. Line(n, pending[n], QueueAfter(n, localDue), dropRun'[n], localSeq'[n],
             lastAccepted[n])
    BY <1>1, LineOriginate DEF StopAndWaitInv
  <2>2. outQueue'[n] = QueueAfter(n, localDue)
    BY <1>1 DEF TypeInv, TypeOK
  <2> QED
    BY <1>1, <2>1, <2>2 DEF LineInv
<1>6. ASSUME NEW i \in Relay, i # n PROVE HopInv(i)' /\ LineInv(i)'
  BY <1>1, <1>2, <1>6, RelayFacts, HopKept, LineKept DEF StopAndWaitInv
<1> QED
  BY <1>3, <1>4, <1>5, <1>6 DEF StopAndWaitInv

LEMMA InvLoopIdle ==
  ASSUME NoResetAssumption, TypeInv, StopAndWaitInv, NEW n \in Node,
         NEW localDue \in BOOLEAN, LoopIdle(n, localDue)
  PROVE  StopAndWaitInv'
<1> DEFINE q == QueueAfter(n, localDue)
<1>1. /\ n \in Relay /\ state[n] # "Forwarding" /\ q # <<>>
      /\ Originate(n, localDue)
      /\ pending' = [pending EXCEPT ![n] = Head(q)]
      /\ statusLink' = [statusLink EXCEPT ![n] = Sent(@, Head(q))]
      /\ outQueue' = [outQueue EXCEPT ![n] = Tail(q)]
      /\ state' = [state EXCEPT ![n] = "Forwarding"]
      /\ UNCHANGED <<lastAccepted, ackLink>>
  BY DEF LoopIdle, BeginForwarding, Relay
<1>2. /\ n \in Node /\ n \in Nat /\ q \in Seq(Packet)
      /\ pending[n] \in Packet \cup {NoPacket}
      /\ lastAccepted[n] \in Packet \cup {NoPacket}
      /\ dropRun'[n] \in Nat /\ localSeq'[n] \in Nat
  BY <1>1, RelayFacts, TypeOriginate DEF TypeInv, TypeOK
<1>3. Line(n, pending[n], q, dropRun'[n], localSeq'[n], lastAccepted[n])
  BY <1>1, LineOriginate DEF StopAndWaitInv
<1> HIDE DEF q
<1>4. Head(q) \in Packet /\ Tail(q) \in Seq(Packet)
  BY <1>1, <1>2, HeadTail
<1>5. /\ Line(n, Head(q), Tail(q), dropRun'[n], localSeq'[n], lastAccepted[n])
      /\ pending[n] # NoPacket => Follows(pending[n], Head(q))
  BY <1>1, <1>2, <1>3, LineShift
<1>6. /\ pending'[n] = Head(q) /\ outQueue'[n] = Tail(q)
      /\ statusLink'[n] = Sent(statusLink[n], Head(q)) /\ state'[n] = "Forwarding"
      /\ \A i \in Node : i # n => /\ outQueue'[i] = outQueue[i] /\ statusLink'[i] = statusLink[i]
                                  /\ pending'[i] = pending[i] /\ state'[i] = state[i]
                                  /\ localSeq'[i] = localSeq[i] /\ dropRun'[i] = dropRun[i]
  BY <1>1, <1>2 DEF Originate, TypeInv, TypeOK
<1>7. statusLink'[Gateway] = <<>>
  BY <1>1, <1>6, RingFacts DEF StopAndWaitInv, Relay
<1>8. HopInv(n)'
  <2>1. Hop(lastAccepted[NextId(n)], pending[n], statusLink[n], ackLink[n], FALSE)
    BY <1>1 DEF StopAndWaitInv, HopInv
  <2>2. Hop(lastAccepted[NextId(n)], Head(q), Sent(statusLink[n], Head(q)), ackLink[n], TRUE)
    BY <1>1, <1>4, <1>5, <2>1, HopOf, HopNext
  <2> QED
    BY <1>1, <1>6, <2>2 DEF HopInv
<1>9. LineInv(n)'
  BY <1>1, <1>5, <1>6 DEF LineInv
<1>10. ASSUME NEW i \in Relay, i # n PROVE HopInv(i)' /\ LineInv(i)'
  BY <1>1, <1>6, <1>10, RelayFacts, HopKept, LineKept DEF StopAndWaitInv
<1> QED
  BY <1>7, <1>8, <1>9, <1>10 DEF StopAndWaitInv

LEMMA InvStutter ==
  ASSUME TypeInv, StopAndWaitInv, UNCHANGED vars
  PROVE  StopAndWaitInv'
BY HopKept, LineKept DEF StopAndWaitInv, vars, ram, history

LEMMA InvStep ==
  ASSUME NoResetAssumption, TypeInv, StopAndWaitInv, [Next]_vars
  PROVE  StopAndWaitInv'
<1>1. CASE UNCHANGED vars
  BY <1>1, InvStutter
<1>2. ASSUME NEW n \in Powered, NEW m \in Powered, HandleHello(n, m) PROVE StopAndWaitInv'
  BY <1>2, InvHello DEF Powered
<1>3. ASSUME NEW n \in Powered, HandleStatus(n) PROVE StopAndWaitInv'
  BY <1>3, InvStatus DEF Powered
<1>4. ASSUME NEW n \in Powered, HandleAck(n) PROVE StopAndWaitInv'
  BY <1>4, InvAck DEF Powered
<1>5. ASSUME NEW n \in Powered, Loop(n) PROVE StopAndWaitInv'
  BY <1>5, InvLoopGateway, InvLoopForwarding, InvLoopIdle DEF Powered, Loop
<1>6. ASSUME NEW n \in Powered, Reboot(n) PROVE StopAndWaitInv'
  BY <1>6 DEF Reboot, NoResetAssumption, Powered, TypeInv, TypeOK
<1>7. ASSUME NEW n \in Powered, LoseStatus(n) \/ LoseAck(n) PROVE StopAndWaitInv'
  BY <1>7, InvLose DEF Powered
<1> QED
  BY <1>1, <1>2, <1>3, <1>4, <1>5, <1>6, <1>7 DEF Next

-----------------------------------------------------------------------------
(* The theorem                                                             *)

LEMMA InvImpliesFreed ==
  ASSUME StopAndWaitInv
  PROVE  SlotFreedOnlyIfAccepted
BY DEF StopAndWaitInv, HopInv, Hop, Unused, Accepted, Outstanding,
       SlotFreedOnlyIfAccepted, Arrived

\* In a chain of any length whose boards do not reset, with queues of any
\* depth, any losses on the links and any schedule of the nodes, the
\* stop-and-wait slot of a relay is never freed (handleAck) before its packet
\* has been accepted by the next node (handleStatus), as long as a node does
\* not lose so many readings in a row that its sequence numbers come round.
THEOREM SlotFreedCorrect ==
  ASSUME NoResetAssumption
  PROVE  Spec => []SlotFreedOnlyIfAccepted
<1>1. Init => TypeInv /\ StopAndWaitInv
  BY InitType, InvInit
<1>2. TypeInv /\ StopAndWaitInv /\ [Next]_vars => TypeInv' /\ StopAndWaitInv'
  BY TypeStep, InvStep
<1>3. StopAndWaitInv => SlotFreedOnlyIfAccepted
  BY InvImpliesFreed
<1> QED
  BY <1>1, <1>2, <1>3, PTL DEF Spec

-----------------------------------------------------------------------------
(* Order, whatever resets                                                  *)

LEMMA OrderTail ==
  ASSUME NEW s \in Seq(Packet), s # <<>>
  PROVE  /\ Head(s) \in Readings(s) /\ Readings(Tail(s)) \subseteq Readings(s)
         /\ Readings(s) \subseteq {Head(s)} \cup Readings(Tail(s))
         /\ InOrder(s) => InOrder(Tail(s)) /\ Ahead({Head(s)}, Readings(Tail(s)))
<1>1. /\ Head(s) = s[1] /\ 1 \in DOMAIN s
      /\ \A k \in DOMAIN Tail(s) : /\ k + 1 \in DOMAIN s /\ Tail(s)[k] = s[k + 1]
                                   /\ k \in Nat /\ k >= 1
      /\ \A k \in DOMAIN s : k = 1 \/ (k - 1 \in DOMAIN Tail(s) /\ Tail(s)[k - 1] = s[k])
  BY TailIs
<1>2. Head(s) \in Readings(s) /\ Readings(Tail(s)) \subseteq Readings(s)
  BY <1>1 DEF Readings
<1>3. Readings(s) \subseteq {Head(s)} \cup Readings(Tail(s))
  <2> SUFFICES ASSUME NEW k \in DOMAIN s
               PROVE  s[k] = Head(s) \/ s[k] \in Readings(Tail(s))
    BY DEF Readings
  <2>1. CASE k = 1
    BY <1>1, <2>1
  <2>2. CASE k - 1 \in DOMAIN Tail(s) /\ Tail(s)[k - 1] = s[k]
    BY <2>2 DEF Readings
  <2> QED
    BY <1>1, <2>1, <2>2
<1>4. ASSUME InOrder(s) PROVE InOrder(Tail(s)) /\ Ahead({Head(s)}, Readings(Tail(s)))
  <2>1. \A i, j \in DOMAIN s : i < j => AtOrBefore(s[i], s[j])
    BY <1>4 DEF InOrder
  <2>2. ASSUME NEW i \in DOMAIN Tail(s), NEW j \in DOMAIN Tail(s), i < j
        PROVE  AtOrBefore(Tail(s)[i], Tail(s)[j])
    <3>1. i + 1 < j + 1 /\ i + 1 \in DOMAIN s /\ j + 1 \in DOMAIN s
      BY <1>1, <2>2
    <3>2. AtOrBefore(s[i + 1], s[j + 1])
      BY <2>1, <3>1
    <3> QED
      BY <1>1, <3>2
  <2>3. ASSUME NEW j \in DOMAIN Tail(s) PROVE AtOrBefore(Head(s), Tail(s)[j])
    <3>1. 1 < j + 1 /\ j + 1 \in DOMAIN s
      BY <1>1
    <3>2. AtOrBefore(s[1], s[j + 1])
      BY <1>1, <2>1, <3>1
    <3> QED
      BY <1>1, <3>2
  <2> QED
    BY <2>2, <2>3 DEF InOrder, Ahead, Readings
<1> QED
  BY <1>2, <1>3, <1>4

LEMMA OrderAppend ==
  ASSUME NEW s \in Seq(Packet), NEW x \in Packet
  PROVE  /\ Readings(Append(s, x)) = Readings(s) \cup {x}
         /\ InOrder(s) /\ Ahead(Readings(s), {x}) => InOrder(Append(s, x))
<1> DEFINE a == Append(s, x)
<1>1. /\ Len(s) \in Nat /\ DOMAIN s = 1 .. Len(s) /\ DOMAIN a = 1 .. Len(s) + 1
      /\ a[Len(s) + 1] = x /\ \A k \in DOMAIN s : a[k] = s[k]
  BY AppendIs
<1> HIDE DEF a
<1>2. Readings(a) = Readings(s) \cup {x}
  <2>1. Readings(a) \subseteq Readings(s) \cup {x}
    BY <1>1 DEF Readings
  <2>2. Readings(s) \subseteq Readings(a)
    BY <1>1 DEF Readings
  <2>3. x \in Readings(a)
    BY <1>1 DEF Readings
  <2> QED
    BY <2>1, <2>2, <2>3
<1>3. ASSUME InOrder(s), Ahead(Readings(s), {x}) PROVE InOrder(a)
  <2> SUFFICES ASSUME NEW i \in DOMAIN a, NEW j \in DOMAIN a, i < j
               PROVE  AtOrBefore(a[i], a[j])
    BY DEF InOrder
  <2>1. i \in DOMAIN s /\ a[i] = s[i]
    BY <1>1
  <2>2. CASE j \in DOMAIN s
    BY <1>1, <1>3, <2>1, <2>2 DEF InOrder
  <2>3. CASE j \notin DOMAIN s
    <3>1. a[j] = x
      BY <1>1, <2>3
    <3> QED
      BY <1>3, <2>1, <3>1 DEF Ahead, Readings
  <2> QED
    BY <2>2, <2>3
<1> QED
  BY <1>2, <1>3 DEF a

LEMMA OrderSent ==
  ASSUME NEW s \in Seq(Packet), NEW x \in Packet
  PROVE  /\ Readings(Sent(s, x)) \subseteq Readings(s) \cup {x}
         /\ InOrder(s) /\ Ahead(Readings(s), {x}) => InOrder(Sent(s, x))
<1>1. Sent(s, x) = s \/ Sent(s, x) = Append(s, x)
  BY DEF Sent
<1> QED
  BY <1>1, OrderAppend

-----------------------------------------------------------------------------
LEMMA OrderTypes ==
  ASSUME TypeInv, NEW n \in Node
  PROVE  /\ statusLink[n] \in Seq(Packet) /\ outQueue[n] \in Seq(Packet)
         /\ Slot(n) \subseteq Packet /\ flushed \in Seq(Packet)
         /\ boots[n] \in Nat /\ localSeq[n] \in Nat
         /\ Carried(n) \subseteq Packet /\ Readings(flushed) \subseteq Packet
<1>1. /\ statusLink[n] \in Seq(Packet) /\ outQueue[n] \in Seq(Packet)
      /\ Slot(n) \subseteq Packet /\ flushed \in Seq(Packet)
      /\ boots[n] \in Nat /\ localSeq[n] \in Nat
  BY DEF TypeInv, TypeOK, Slot
<1>2. \A s \in Seq(Packet) : Readings(s) \subseteq Packet
  BY DEF Readings
<1> QED
  BY <1>1, <1>2 DEF Carried

\* A step in which only n gets new packets, X, in their place in the order.
LEMMA OrderNew ==
  ASSUME TypeInv, OrderInv, NEW n \in Relay, NEW X,
         statusLink'[Gateway] = <<>>, flushed' = flushed,
         \A p \in Packet : Produced(p) => Produced(p)',
         \A k \in Relay : OwnOrder(k)',
         \A k \in Relay : k # n => Carried(k)' \subseteq Carried(k),
         Carried(n)' \subseteq Carried(n) \cup X,
         Ahead(Readings(flushed), X),
         \A k \in Relay : n < k => Ahead(Carried(k), X),
         \A k \in Relay : k < n => Ahead(X, Carried(k)'),
         \A x \in X : InLine(n, x) /\ Produced(x)'
  PROVE  OrderInv'
<1>1. InOrder(flushed)' /\ \A p \in Readings(flushed)' : Produced(p)'
  <2>1. Readings(flushed) \subseteq Packet
    BY DEF TypeInv, TypeOK, Readings
  <2> QED
    BY <2>1 DEF OrderInv, InOrder, Readings
<1>2. ASSUME NEW k \in Relay PROVE Ahead(Readings(flushed), Carried(k)')
  BY DEF OrderInv, Ahead
<1>3. ASSUME NEW k \in Relay, NEW m \in Relay, m < k PROVE Ahead(Carried(k)', Carried(m)')
  <2>1. Ahead(Carried(k), Carried(m))
    BY <1>3 DEF OrderInv
  <2>2. CASE k = n
    <3>1. m # n
      BY <1>3, <2>2, RelayFacts
    <3> QED
      BY <1>3, <2>1, <2>2, <3>1 DEF Ahead
  <2>3. CASE m = n
    <3>1. k # n
      BY <1>3, <2>3, RelayFacts
    <3> QED
      BY <1>3, <2>1, <2>3, <3>1 DEF Ahead
  <2>4. CASE k # n /\ m # n
    BY <2>1, <2>4 DEF Ahead
  <2> QED
    BY <2>2, <2>3, <2>4
<1>4. ASSUME NEW k \in Relay, NEW p \in Carried(k)' PROVE InLine(k, p) /\ Produced(p)'
  <2>1. Carried(k) \subseteq Packet
    BY RelayFacts, OrderTypes
  <2> QED
    BY <2>1 DEF OrderInv
<1> QED
  BY <1>1, <1>2, <1>3, <1>4 DEF OrderInv, Ahead

\* A step after which nothing new is anywhere.
LEMMA OrderShrinks ==
  ASSUME TypeInv, OrderInv, statusLink'[Gateway] = <<>>, flushed' = flushed,
         \A p \in Packet : Produced(p) => Produced(p)',
         \A k \in Relay : OwnOrder(k)' /\ Carried(k)' \subseteq Carried(k)
  PROVE  OrderInv'
<1>1. InOrder(flushed)' /\ \A p \in Readings(flushed)' : Produced(p)'
  <2>1. Readings(flushed) \subseteq Packet
    BY DEF TypeInv, TypeOK, Readings
  <2> QED
    BY <2>1 DEF OrderInv, InOrder, Readings
<1>2. ASSUME NEW k \in Relay PROVE Ahead(Readings(flushed), Carried(k)')
  BY DEF OrderInv, Ahead
<1>3. ASSUME NEW k \in Relay, NEW m \in Relay, m < k PROVE Ahead(Carried(k)', Carried(m)')
  <2>1. Ahead(Carried(k), Carried(m))
    BY <1>3 DEF OrderInv
  <2> QED
    BY <2>1 DEF Ahead
<1>4. ASSUME NEW k \in Relay, NEW p \in Carried(k)' PROVE InLine(k, p) /\ Produced(p)'
  <2>1. Carried(k) \subseteq Packet
    BY RelayFacts, OrderTypes
  <2> QED
    BY <2>1 DEF OrderInv
<1> QED
  BY <1>1, <1>2, <1>3, <1>4 DEF OrderInv, Ahead

LEMMA OrderSame ==
  ASSUME TypeInv, OrderInv, UNCHANGED <<statusLink, pending, outQueue, flushed, boots, localSeq>>
  PROVE  OrderInv'
<1>1. \A p : Produced(p)' <=> Produced(p)
  BY DEF Produced
<1>2. \A k \in Relay : (OwnOrder(k)' <=> OwnOrder(k)) /\ Carried(k)' = Carried(k)
  BY DEF OwnOrder, Carried, Slot
<1> QED
  BY <1>1, <1>2, OrderShrinks DEF OrderInv

\* A frame leaves its link, and nothing else happens.
LEMMA OrderLoses ==
  ASSUME TypeInv, OrderInv, NEW m \in Node, statusLink[m] # <<>>,
         statusLink' = [statusLink EXCEPT ![m] = Tail(@)],
         UNCHANGED <<pending, outQueue, flushed, boots, localSeq>>
  PROVE  OrderInv'
<1>1. m # Gateway /\ m \in Relay /\ Gateway \in Node
  BY ChainAssumption DEF OrderInv, Relay, Node, Gateway
<1>2. /\ statusLink'[m] = Tail(statusLink[m]) /\ statusLink[m] \in Seq(Packet)
      /\ \A k \in Node : k # m => statusLink'[k] = statusLink[k]
  BY DEF TypeInv, TypeOK
<1>3. \A p : Produced(p)' <=> Produced(p)
  BY DEF Produced
<1>4. ASSUME NEW k \in Relay PROVE OwnOrder(k)' /\ Carried(k)' \subseteq Carried(k)
  <2>0. k \in Node /\ OwnOrder(k) /\ Slot(k)' = Slot(k)
    BY DEF OrderInv, Relay, Slot
  <2>1. CASE k = m
    <3>1. /\ Readings(statusLink'[k]) \subseteq Readings(statusLink[k])
          /\ InOrder(statusLink'[k])
      BY <1>2, <2>0, <2>1, OrderTail DEF OwnOrder
    <3> QED
      BY <2>0, <3>1 DEF OwnOrder, Carried, Ahead
  <2>2. CASE k # m
    BY <1>2, <2>0, <2>2 DEF OwnOrder, Carried
  <2> QED
    BY <2>1, <2>2
<1>5. statusLink'[Gateway] = <<>>
  BY <1>1, <1>2 DEF OrderInv
<1> QED
  BY <1>3, <1>4, <1>5, OrderShrinks

\* What a node takes from its prev comes behind all it has, and ahead of what
\* its prev still has.
LEMMA OrderTakes ==
  ASSUME TypeInv, OrderInv, NEW n \in Node, TakeStatus(n)
  PROVE  /\ PrevId(n) \in Relay /\ Arriving(n) \in Packet
         /\ n # Gateway => n \in Relay /\ PrevId(n) < n
         /\ Arriving(n) \in Carried(PrevId(n))
         /\ statusLink'[PrevId(n)] = Tail(statusLink[PrevId(n)])
         /\ \A k \in Node : k # PrevId(n) => statusLink'[k] = statusLink[k]
         /\ Readings(statusLink[PrevId(n)])' \subseteq Readings(statusLink[PrevId(n)])
         /\ InOrder(statusLink[PrevId(n)])'
         /\ Ahead({Arriving(n)}, Readings(statusLink[PrevId(n)])')
         /\ Ahead({Arriving(n)}, Slot(PrevId(n)) \cup Readings(outQueue[PrevId(n)]))
<1> DEFINE m == PrevId(n)
<1>1. m \in Node /\ statusLink[m] # <<>> /\ statusLink[m] \in Seq(Packet)
      /\ statusLink' = [statusLink EXCEPT ![m] = Tail(@)]
  BY RingFacts DEF TakeStatus, TypeInv, TypeOK
<1>2. m \in Relay
  BY <1>1 DEF OrderInv, Relay
<1>3. n # Gateway => n \in Relay /\ m < n
  BY RelayFacts DEF Relay
<1>4. /\ statusLink'[m] = Tail(statusLink[m])
      /\ \A k \in Node : k # m => statusLink'[k] = statusLink[k]
  BY <1>1 DEF TypeInv, TypeOK
<1>5. OwnOrder(m) /\ Arriving(n) = Head(statusLink[m])
  BY <1>2 DEF OrderInv, Arriving
<1> HIDE DEF m
<1>6. Arriving(n) \in Readings(statusLink[m]) /\ Arriving(n) \in Packet
  BY <1>1, <1>5, OrderTail, HeadTail
<1>7. /\ Readings(statusLink'[m]) \subseteq Readings(statusLink[m])
      /\ InOrder(statusLink'[m]) /\ Ahead({Arriving(n)}, Readings(statusLink'[m]))
  BY <1>1, <1>4, <1>5, OrderTail DEF OwnOrder
<1>8. Ahead({Arriving(n)}, Slot(m) \cup Readings(outQueue[m]))
  BY <1>5, <1>6 DEF OwnOrder, Ahead
<1> QED
  BY <1>2, <1>3, <1>4, <1>6, <1>7, <1>8 DEF m, Carried

LEMMA OrderHello ==
  ASSUME TypeInv, OrderInv, NEW n \in Powered, NEW m \in Powered, HandleHello(n, m)
  PROVE  OrderInv'
BY OrderSame DEF HandleHello, history

LEMMA OrderAck ==
  ASSUME TypeInv, OrderInv, NEW n \in Powered, HandleAck(n)
  PROVE  OrderInv'
BY OrderSame DEF HandleAck, history

LEMMA OrderLost ==
  ASSUME TypeInv, OrderInv, NEW n \in Powered, LoseStatus(n) \/ LoseAck(n)
  PROVE  OrderInv'
<1>1. CASE LoseStatus(n)
  BY <1>1, OrderLoses DEF LoseStatus, Powered, ram, history
<1>2. CASE LoseAck(n)
  BY <1>2, OrderSame DEF LoseAck, ram, history
<1> QED
  BY <1>1, <1>2

\* A packet that changes nothing at its receiver.
LEMMA OrderUnused ==
  ASSUME TypeInv, OrderInv, NEW n \in Node,
         IgnoreStatus(n) \/ ReAckDuplicate(n) \/ RefuseStatus(n)
  PROVE  OrderInv'
<1>1. TakeStatus(n) /\ UNCHANGED <<ram, history>>
  BY DEF IgnoreStatus, ReAckDuplicate, RefuseStatus
<1> QED
  BY <1>1, RingFacts, OrderLoses DEF TakeStatus, ram, history

\* What a node has not taken itself keeps its order.
LEMMA OrderKept ==
  ASSUME OrderInv, NEW k \in Relay,
         statusLink'[k] = statusLink[k], pending'[k] = pending[k], outQueue'[k] = outQueue[k]
  PROVE  OwnOrder(k)' /\ Carried(k)' = Carried(k)
BY DEF OrderInv, OwnOrder, Carried, Slot

\* prev, once its packet is taken.
LEMMA OrderTaken ==
  ASSUME TypeInv, OrderInv, NEW n \in Node, TakeStatus(n), n # PrevId(n),
         pending' = pending, outQueue'[PrevId(n)] = outQueue[PrevId(n)]
  PROVE  /\ OwnOrder(PrevId(n))' /\ Carried(PrevId(n))' \subseteq Carried(PrevId(n))
         /\ Ahead({Arriving(n)}, Carried(PrevId(n))')
<1> DEFINE m == PrevId(n)
<1>1. /\ m \in Relay /\ Readings(statusLink[m])' \subseteq Readings(statusLink[m])
      /\ InOrder(statusLink[m])'
      /\ Ahead({Arriving(n)}, Readings(statusLink[m])')
      /\ Ahead({Arriving(n)}, Slot(m) \cup Readings(outQueue[m]))
  BY OrderTakes
<1>2. outQueue'[m] = outQueue[m] /\ Slot(m)' = Slot(m)
  BY DEF Slot
<1>3. OwnOrder(m)
  BY <1>1 DEF OrderInv
<1> HIDE DEF m
<1>4. OwnOrder(m)'
  BY <1>1, <1>2, <1>3 DEF OwnOrder, Ahead
<1>5. Carried(m)' \subseteq Carried(m) /\ Ahead({Arriving(n)}, Carried(m)')
  BY <1>1, <1>2 DEF Carried, Ahead
<1> QED
  BY <1>4, <1>5 DEF m

LEMMA OrderQueue ==
  ASSUME TypeInv, OrderInv, NEW n \in Node, QueueStatus(n)
  PROVE  OrderInv'
<1> DEFINE m == PrevId(n)
           x == Arriving(n)
<1>1. /\ TakeStatus(n) /\ n # Gateway
      /\ outQueue' = [outQueue EXCEPT ![n] = Append(@, x)]
      /\ UNCHANGED <<pending, flushed, boots, localSeq>>
  BY DEF QueueStatus, history
<1>2. /\ m \in Relay /\ x \in Packet /\ n \in Relay /\ m < n /\ x \in Carried(m)
      /\ \A k \in Node : k # m => statusLink'[k] = statusLink[k]
  BY <1>1, OrderTakes
<1>3. n \in Node /\ m \in Node /\ n # m /\ m # Gateway /\ n \in Int /\ m \in Int /\ m = n - 1
  BY <1>2, RelayFacts DEF Relay
<1>4. /\ outQueue'[n] = Append(outQueue[n], x)
      /\ \A k \in Node : k # n => outQueue'[k] = outQueue[k]
  BY <1>1, <1>3 DEF TypeInv, TypeOK
<1>5. /\ OwnOrder(m)' /\ Carried(m)' \subseteq Carried(m)
      /\ Ahead({x}, Carried(m)')
  BY <1>1, <1>3, <1>4, OrderTaken
<1> HIDE DEF m, x
<1>6. \A p : Produced(p)' <=> Produced(p)
  BY <1>1 DEF Produced
<1>7. Ahead(Carried(n), {x})
  BY <1>2 DEF OrderInv, Ahead
<1>8. OwnOrder(n)' /\ Carried(n)' \subseteq Carried(n) \cup {x}
  <2>1. statusLink'[n] = statusLink[n] /\ Slot(n)' = Slot(n) /\ OwnOrder(n)
    BY <1>1, <1>2, <1>3 DEF OrderInv, Slot
  <2>2. /\ Readings(outQueue'[n]) = Readings(outQueue[n]) \cup {x}
        /\ InOrder(outQueue'[n])
    <3>1. outQueue[n] \in Seq(Packet)
      BY <1>3, OrderTypes
    <3>2. InOrder(outQueue[n]) /\ Ahead(Readings(outQueue[n]), {x})
      BY <1>7, <2>1 DEF OwnOrder, Carried, Ahead
    <3> QED
      BY <1>2, <1>4, <3>1, <3>2, OrderAppend
  <2>3. Ahead(Readings(statusLink[n]) \cup Slot(n), {x})
    BY <1>7 DEF Carried, Ahead
  <2>4. OwnOrder(n)'
    BY <2>1, <2>2, <2>3 DEF OwnOrder, Ahead
  <2>5. Carried(n)' \subseteq Carried(n) \cup {x}
    BY <2>1, <2>2 DEF Carried
  <2> QED
    BY <2>4, <2>5
<1>9. ASSUME NEW k \in Relay, k # n PROVE OwnOrder(k)' /\ Carried(k)' \subseteq Carried(k)
  <2>1. CASE k = m
    BY <1>5, <2>1
  <2>2. CASE k # m
    <3>1. k \in Node
      BY RelayFacts
    <3> QED
      BY <1>1, <1>2, <1>4, <1>9, <2>2, <3>1, OrderKept
  <2> QED
    BY <2>1, <2>2
<1>10. statusLink'[Gateway] = <<>>
  BY <1>2, <1>3, RingFacts DEF OrderInv
<1>11. Ahead(Readings(flushed), {x}) /\ InLine(n, x) /\ Produced(x)
  <2>1. Ahead(Readings(flushed), Carried(m)) /\ InLine(m, x) /\ Produced(x)
    BY <1>2 DEF OrderInv
  <2>2. InLine(n, x)
    BY <1>2, <1>3, <2>1 DEF InLine, Packet, Node
  <2> QED
    BY <1>2, <2>1, <2>2 DEF Ahead
<1>12. ASSUME NEW k \in Relay, n < k PROVE Ahead(Carried(k), {x})
  <2>1. m < k
    BY <1>3, <1>12, RelayFacts
  <2>2. Ahead(Carried(k), Carried(m))
    BY <1>2, <2>1 DEF OrderInv
  <2> QED
    BY <1>2, <2>2 DEF Ahead
<1>13. ASSUME NEW k \in Relay, k < n PROVE Ahead({x}, Carried(k)')
  <2>1. CASE k = m
    BY <1>5, <2>1
  <2>2. CASE k # m
    <3>1. k < m /\ k # n
      BY <1>3, <1>13, <2>2, RelayFacts
    <3>2. Ahead(Carried(m), Carried(k))
      BY <1>2, <3>1 DEF OrderInv
    <3>3. Carried(k)' \subseteq Carried(k)
      BY <1>9, <3>1
    <3> QED
      BY <1>2, <3>2, <3>3 DEF Ahead
  <2> QED
    BY <2>1, <2>2
<1>14. /\ \A k \in Relay : OwnOrder(k)'
       /\ \A k \in Relay : k # n => Carried(k)' \subseteq Carried(k)
  BY <1>8, <1>9
<1>15. flushed' = flushed /\ \A p \in Packet : Produced(p) => Produced(p)'
  BY <1>1, <1>6
<1>16. \A y \in {x} : InLine(n, y) /\ Produced(y)'
  BY <1>6, <1>11
<1> DEFINE X == {x}
<1>17. /\ Carried(n)' \subseteq Carried(n) \cup X
       /\ Ahead(Readings(flushed), X)
       /\ \A k \in Relay : n < k => Ahead(Carried(k), X)
       /\ \A k \in Relay : k < n => Ahead(X, Carried(k)')
       /\ \A y \in X : InLine(n, y) /\ Produced(y)'
  BY <1>8, <1>11, <1>12, <1>13, <1>16
<1> HIDE DEF X
<1> QED
  BY <1>2, <1>10, <1>14, <1>15, <1>17, OrderNew
-----------------------------------------------------------------------------
LEMMA OrderSink ==
  ASSUME TypeInv, OrderInv, NEW n \in Node, SinkStatus(n)
  PROVE  OrderInv'
<1> DEFINE m == PrevId(n)
           x == Arriving(n)
<1>1. /\ TakeStatus(n) /\ n = Gateway
      /\ flushed' = Append(flushed, x)
      /\ UNCHANGED <<outQueue, pending, boots, localSeq>>
  BY DEF SinkStatus
<1>2. /\ m \in Relay /\ x \in Packet /\ x \in Carried(m)
      /\ \A k \in Node : k # m => statusLink'[k] = statusLink[k]
  BY <1>1, OrderTakes
<1>3. n # m /\ m # Gateway /\ m \in Node /\ Gateway \in Node
  BY <1>1, <1>2, RingFacts DEF Relay
<1>4. OwnOrder(m)' /\ Carried(m)' \subseteq Carried(m) /\ Ahead({x}, Carried(m)')
  BY <1>1, <1>3, OrderTaken
<1>5. m = ChainSize - 1 /\ \A k \in Relay : k = m \/ k < m
  BY <1>1, <1>2, <1>3, ChainAssumption DEF PrevId, Gateway, Relay, Node
<1> HIDE DEF m, x
<1>6. \A p : Produced(p)' <=> Produced(p)
  BY <1>1 DEF Produced
<1>7. flushed \in Seq(Packet) /\ Readings(flushed) \subseteq Packet
  BY <1>3, OrderTypes
<1>8. Ahead(Readings(flushed), {x}) /\ Produced(x)
  BY <1>2 DEF OrderInv, Ahead
<1>9. InOrder(flushed)' /\ Readings(flushed)' = Readings(flushed) \cup {x}
  <2>1. /\ Readings(Append(flushed, x)) = Readings(flushed) \cup {x}
        /\ InOrder(Append(flushed, x))
    BY <1>2, <1>7, <1>8, OrderAppend DEF OrderInv
  <2> QED
    BY <1>1, <2>1
<1>10. ASSUME NEW k \in Relay PROVE OwnOrder(k)' /\ Carried(k)' \subseteq Carried(k)
  <2>1. CASE k = m
    BY <1>4, <2>1
  <2>2. CASE k # m
    BY <1>1, <1>2, <2>2, RelayFacts, OrderKept
  <2> QED
    BY <2>1, <2>2
<1>11. ASSUME NEW k \in Relay PROVE Ahead(Readings(flushed)', Carried(k)')
  <2>1. Ahead(Readings(flushed), Carried(k)')
    BY <1>10 DEF OrderInv, Ahead
  <2>2. Ahead({x}, Carried(k)')
    <3>1. CASE k = m
      BY <1>4, <3>1
    <3>2. CASE k # m
      <4>1. Ahead(Carried(m), Carried(k))
        BY <1>2, <1>5, <3>2 DEF OrderInv
      <4> QED
        BY <1>2, <1>10, <4>1 DEF Ahead
    <3> QED
      BY <3>1, <3>2
  <2> QED
    BY <1>9, <2>1, <2>2 DEF Ahead
<1>12. ASSUME NEW k \in Relay, NEW i \in Relay, i < k PROVE Ahead(Carried(k)', Carried(i)')
  <2>1. Ahead(Carried(k), Carried(i))
    BY <1>12 DEF OrderInv
  <2> QED
    BY <1>10, <2>1 DEF Ahead
<1>13. ASSUME NEW k \in Relay, NEW p \in Carried(k)' PROVE InLine(k, p) /\ Produced(p)'
  <2>1. p \in Carried(k)
    BY <1>10, <1>13
  <2> QED
    BY <1>6, <2>1 DEF OrderInv
<1>14. statusLink'[Gateway] = <<>>
  BY <1>2, <1>3 DEF OrderInv
<1>15. \A p \in Readings(flushed)' : Produced(p)'
  BY <1>6, <1>8, <1>9 DEF OrderInv
<1> QED
  BY <1>9, <1>10, <1>11, <1>12, <1>13, <1>14, <1>15 DEF OrderInv

LEMMA OrderStatus ==
  ASSUME TypeInv, OrderInv, NEW n \in Powered, HandleStatus(n)
  PROVE  OrderInv'
BY OrderUnused, OrderSink, OrderQueue DEF HandleStatus, Powered

-----------------------------------------------------------------------------
\* A reading comes after all that its node has produced.
LEMMA OrderReading ==
  ASSUME TypeInv, NEW n \in Node, NEW p \in Packet, Produced(p)
  PROVE  AtOrBefore(p, Reading(n))
BY DEF Produced, AtOrBefore, Before, Reading

\* One more reading, or none.
LEMMA OrderCounts ==
  ASSUME TypeInv, NEW n \in Node, boots' = boots,
         localSeq' = localSeq \/ localSeq' = [localSeq EXCEPT ![n] = @ + 1]
  PROVE  /\ \A p \in Packet : Produced(p) => Produced(p)'
         /\ localSeq' = [localSeq EXCEPT ![n] = @ + 1] =>
              \A x \in {Reading(n)} : Produced(x)'
<1>1. ASSUME NEW p \in Packet, Produced(p) PROVE Produced(p)'
  <2>1. p.origin \in Node /\ p.num \in Nat
    BY DEF Packet
  <2>2. localSeq'[p.origin] = localSeq[p.origin] \/ localSeq'[p.origin] = localSeq[p.origin] + 1
    BY <2>1 DEF TypeInv, TypeOK
  <2>3. localSeq[p.origin] \in Nat
    BY <2>1, OrderTypes
  <2> QED
    BY <1>1, <2>1, <2>2, <2>3 DEF Produced
<1>2. ASSUME localSeq' = [localSeq EXCEPT ![n] = @ + 1], NEW x \in {Reading(n)}
      PROVE  Produced(x)'
  <2>1. localSeq'[n] = localSeq[n] + 1 /\ localSeq[n] \in Nat
    BY <1>2 DEF TypeInv, TypeOK
  <2> QED
    BY <2>1 DEF Produced, Reading
<1> QED
  BY <1>1, <1>2
LEMMA OrderGateway ==
  ASSUME TypeInv, OrderInv, NEW n \in Node, LoopGateway(n)
  PROVE  OrderInv'
<1> SUFFICES ASSUME NEW x, x = Reading(n) PROVE OrderInv'
  OBVIOUS
<1>1. /\ n = Gateway /\ flushed' = Append(flushed, x)
      /\ localSeq' = [localSeq EXCEPT ![n] = @ + 1]
      /\ UNCHANGED <<statusLink, outQueue, pending, boots>>
  BY DEF LoopGateway
<1>2. x \in Packet /\ x.origin = Gateway
  BY <1>1 DEF TypeInv, TypeOK, Packet, Reading
<1>3. \A p \in Packet : Produced(p) => AtOrBefore(p, x)
  BY OrderReading
<1>4. (\A p \in Packet : Produced(p) => Produced(p)') /\ Produced(x)'
  <2>1. \A y \in {Reading(n)} : Produced(y)'
    BY <1>1, OrderCounts
  <2>2. \A p \in Packet : Produced(p) => Produced(p)'
    BY <1>1, OrderCounts
  <2> QED
    BY <2>1, <2>2
<1>5. flushed \in Seq(Packet) /\ Readings(flushed) \subseteq Packet
  BY OrderTypes
<1>6. InOrder(flushed)' /\ Readings(flushed)' = Readings(flushed) \cup {x}
  <2>1. Ahead(Readings(flushed), {x})
    BY <1>3, <1>5 DEF OrderInv, Ahead
  <2>2. /\ Readings(Append(flushed, x)) = Readings(flushed) \cup {x}
        /\ InOrder(Append(flushed, x))
    BY <1>2, <1>5, <2>1, OrderAppend DEF OrderInv
  <2> QED
    BY <1>1, <2>2
<1>7. \A k \in Relay : OwnOrder(k)' /\ Carried(k)' = Carried(k)
  BY <1>1, OrderKept
<1>8. ASSUME NEW k \in Relay PROVE Ahead(Readings(flushed)', Carried(k)')
  <2>1. ASSUME NEW p \in Carried(k) PROVE AtOrBefore(x, p)
    <3>1. InLine(k, p)
      BY <2>1 DEF OrderInv
    <3> QED
      BY <1>2, <3>1 DEF InLine, AtOrBefore, Gateway
  <2>2. Ahead(Readings(flushed), Carried(k))
    BY DEF OrderInv
  <2> QED
    BY <1>6, <1>7, <2>1, <2>2 DEF Ahead
<1>9. \A k, i \in Relay : i < k => Ahead(Carried(k)', Carried(i)')
  BY <1>7 DEF OrderInv
<1>10. ASSUME NEW k \in Relay, NEW p \in Carried(k)' PROVE InLine(k, p) /\ Produced(p)'
  <2>1. Carried(k) \subseteq Packet /\ p \in Carried(k)
    BY <1>7, <1>10, RelayFacts, OrderTypes
  <2> QED
    BY <1>4, <2>1 DEF OrderInv
<1>11. \A p \in Readings(flushed)' : Produced(p)'
  BY <1>4, <1>5, <1>6 DEF OrderInv
<1>12. statusLink'[Gateway] = <<>>
  BY <1>1 DEF OrderInv
<1> QED
  BY <1>6, <1>7, <1>8, <1>9, <1>10, <1>11, <1>12 DEF OrderInv

\* The reading a pass puts in its node's queue, if it puts one.
Queued(n, localDue) == IF localDue /\ HasRoom(n) THEN {Reading(n)} ELSE {}

\* The queue of a pass is in order, behind the link and the slot; its new
\* reading is in its place among what all nodes have.
LEMMA OrderPass ==
  ASSUME TypeInv, OrderInv, NEW n \in Relay, NEW localDue \in BOOLEAN,
         Originate(n, localDue), boots' = boots
  PROVE  /\ QueueAfter(n, localDue) \in Seq(Packet)
         /\ Readings(QueueAfter(n, localDue)) =
              Readings(outQueue[n]) \cup Queued(n, localDue)
         /\ InOrder(QueueAfter(n, localDue))
         /\ Ahead(Readings(statusLink[n]) \cup Slot(n), Readings(QueueAfter(n, localDue)))
         /\ \A p \in Packet : Produced(p) => Produced(p)'
         /\ Ahead(Readings(flushed), Queued(n, localDue))
         /\ \A k \in Relay : n < k => Ahead(Carried(k), Queued(n, localDue))
         /\ \A k \in Relay : k < n => Ahead(Queued(n, localDue), Carried(k))
         /\ \A x \in Queued(n, localDue) : InLine(n, x) /\ Produced(x)'
<1> DEFINE q == QueueAfter(n, localDue)
           X == Queued(n, localDue)
<1>1. n \in Node /\ n \in Nat \ {0}
  BY RelayFacts
<1>2. /\ outQueue[n] \in Seq(Packet) /\ statusLink[n] \in Seq(Packet)
      /\ Carried(n) \subseteq Packet
  BY <1>1, OrderTypes
<1>3. X = {} \/ X = {Reading(n)}
  BY DEF Queued
<1>4. Reading(n) \in Packet /\ Reading(n).origin = n
  BY <1>1 DEF TypeInv, TypeOK, Packet, Reading
<1>5. localSeq' = localSeq \/ localSeq' = [localSeq EXCEPT ![n] = @ + 1]
  BY DEF Originate
<1>6. X # {} => localSeq' = [localSeq EXCEPT ![n] = @ + 1]
  BY DEF Queued, Originate
<1>7. \A p \in Packet : Produced(p) => Produced(p)'
  BY <1>1, <1>5, OrderCounts
<1>8. \A x \in X : InLine(n, x) /\ Produced(x)'
  <2>1. X # {} => \A x \in {Reading(n)} : Produced(x)'
    BY <1>1, <1>6, OrderCounts
  <2>2. InLine(n, Reading(n))
    BY <1>1, <1>4 DEF InLine
  <2> QED
    BY <1>3, <2>1, <2>2
<1>9. \A p \in Packet : Produced(p) => AtOrBefore(p, Reading(n))
  BY <1>1, OrderReading
<1>10. Ahead(Readings(flushed), X)
  <2>1. Readings(flushed) \subseteq Packet
    BY <1>1, OrderTypes
  <2> QED
    BY <1>3, <1>9, <2>1 DEF OrderInv, Ahead
<1>11. ASSUME NEW k \in Relay PROVE Ahead(Carried(k), X)
  <2>1. Carried(k) \subseteq Packet /\ \A p \in Carried(k) : Produced(p)
    BY RelayFacts, OrderTypes DEF OrderInv
  <2> QED
    BY <1>3, <1>9, <2>1 DEF Ahead
<1>12. ASSUME NEW k \in Relay, k < n PROVE Ahead(X, Carried(k))
  <2>1. ASSUME NEW p \in Carried(k) PROVE AtOrBefore(Reading(n), p)
    <3>1. InLine(k, p) /\ p \in Packet
      BY <2>1, RelayFacts, OrderTypes DEF OrderInv
    <3>2. p.origin # n
      BY <1>1, <1>12, <3>1, RelayFacts DEF InLine, Packet, Node
    <3> QED
      BY <1>4, <3>2 DEF AtOrBefore
  <2> QED
    BY <1>3, <2>1 DEF Ahead
<1>13. /\ q \in Seq(Packet) /\ Readings(q) = Readings(outQueue[n]) \cup X
       /\ InOrder(q)
  <2>1. OwnOrder(n) /\ Ahead(Readings(outQueue[n]), X)
    BY <1>11 DEF OrderInv, Ahead, Carried
  <2>2. CASE localDue /\ HasRoom(n)
    <3>1. q = Append(outQueue[n], Reading(n)) /\ X = {Reading(n)}
      BY <2>2 DEF QueueAfter, Queued
    <3>2. Append(outQueue[n], Reading(n)) \in Seq(Packet)
      BY <1>2, <1>4
    <3> HIDE DEF q, X
    <3> QED
      BY <1>2, <1>4, <2>1, <3>1, <3>2, OrderAppend DEF OwnOrder
  <2>3. CASE ~(localDue /\ HasRoom(n))
    <3>1. q = outQueue[n] /\ X = {}
      BY <2>3 DEF QueueAfter, Queued
    <3> HIDE DEF q, X
    <3> QED
      BY <1>2, <2>1, <3>1 DEF OwnOrder
  <2> QED
    BY <2>2, <2>3
<1>14. Ahead(Readings(statusLink[n]) \cup Slot(n), Readings(q))
  <2>1. OwnOrder(n)
    BY DEF OrderInv
  <2>2. Ahead(Readings(statusLink[n]) \cup Slot(n), X)
    BY <1>11 DEF Ahead, Carried
  <2> HIDE DEF q, X
  <2> QED
    BY <1>13, <2>1, <2>2 DEF OwnOrder, Ahead
<1> HIDE DEF q, X
<1>15. \A k \in Relay : n < k => Ahead(Carried(k), X)
  BY <1>11
<1>16. \A k \in Relay : k < n => Ahead(X, Carried(k))
  BY <1>12
<1> QED
  BY <1>7, <1>8, <1>10, <1>13, <1>14, <1>15, <1>16 DEF q, X
LEMMA OrderSends ==
  ASSUME TypeInv, OrderInv, NEW n \in Relay, NEW localDue \in BOOLEAN,
         Originate(n, localDue), boots' = boots, flushed' = flushed,
         \A k \in Node : k # n => /\ statusLink'[k] = statusLink[k]
                                  /\ outQueue'[k] = outQueue[k]
                                  /\ pending'[k] = pending[k],
         OwnOrder(n)', Carried(n)' \subseteq Carried(n) \cup Queued(n, localDue)
  PROVE  OrderInv'
<1> DEFINE X == Queued(n, localDue)
<1>1. ASSUME NEW k \in Relay, k # n PROVE OwnOrder(k)' /\ Carried(k)' = Carried(k)
  BY <1>1, RelayFacts, OrderKept
<1>2. /\ \A p \in Packet : Produced(p) => Produced(p)'
      /\ Ahead(Readings(flushed), X)
      /\ \A k \in Relay : n < k => Ahead(Carried(k), X)
      /\ \A k \in Relay : k < n => Ahead(X, Carried(k))
      /\ \A x \in X : InLine(n, x) /\ Produced(x)'
  BY OrderPass
<1> HIDE DEF X
<1>3. ASSUME NEW k \in Relay, k < n PROVE Ahead(X, Carried(k)')
  <2>1. k # n
    BY <1>3, RelayFacts
  <2> QED
    BY <1>1, <1>2, <1>3, <2>1
<1>4. statusLink'[Gateway] = <<>>
  BY ChainAssumption, RingFacts, RelayFacts DEF OrderInv, Relay
<1>5. /\ \A k \in Relay : OwnOrder(k)'
      /\ \A k \in Relay : k # n => Carried(k)' \subseteq Carried(k)
  BY <1>1
<1>6. Carried(n)' \subseteq Carried(n) \cup X
  BY DEF X
<1> QED
  BY <1>2, <1>3, <1>4, <1>5, <1>6, OrderNew

LEMMA OrderForwarding ==
  ASSUME TypeInv, OrderInv, NEW n \in Node,
         NEW localDue \in BOOLEAN, NEW ackDue \in BOOLEAN,
         LoopForwarding(n, localDue, ackDue)
  PROVE  OrderInv'
<1> DEFINE q == QueueAfter(n, localDue)
           p == pending[n]
<1>1. /\ n \in Relay /\ p \in Packet /\ Originate(n, localDue)
      /\ UNCHANGED <<pending, flushed, boots>>
      /\ outQueue' = [outQueue EXCEPT ![n] = q]
      /\ statusLink' = statusLink \/ statusLink' = [statusLink EXCEPT ![n] = Sent(@, p)]
  BY DEF LoopForwarding, Relay, TypeInv
<1>2. /\ Readings(q) = Readings(outQueue[n]) \cup Queued(n, localDue) /\ InOrder(q)
      /\ Ahead(Readings(statusLink[n]) \cup Slot(n), Readings(q))
  BY <1>1, OrderPass
<1> HIDE DEF q
<1>3. /\ outQueue'[n] = q
      /\ statusLink'[n] = statusLink[n] \/ statusLink'[n] = Sent(statusLink[n], p)
      /\ \A k \in Node : k # n => /\ statusLink'[k] = statusLink[k]
                                  /\ outQueue'[k] = outQueue[k]
                                  /\ pending'[k] = pending[k]
  BY <1>1 DEF TypeInv, TypeOK
<1>4. Slot(n) = {p} /\ Slot(n)' = {p}
  BY <1>1, NoPacketIsNone DEF Slot
<1> HIDE DEF p
<1>5. /\ OwnOrder(n) /\ statusLink[n] \in Seq(Packet)
      /\ Ahead(Readings(statusLink[n]), {p})
  BY <1>1, <1>4, OrderTypes DEF OrderInv, OwnOrder, Ahead
<1>6. InOrder(statusLink'[n]) /\ Readings(statusLink'[n]) \subseteq Readings(statusLink[n]) \cup {p}
  BY <1>1, <1>3, <1>5, OrderSent DEF OwnOrder
<1>7. AtOrBefore(p, p)
  BY DEF AtOrBefore
<1>8. OwnOrder(n)'
  BY <1>2, <1>3, <1>4, <1>5, <1>6, <1>7 DEF OwnOrder, Ahead
<1>9. Carried(n)' \subseteq Carried(n) \cup Queued(n, localDue)
  BY <1>2, <1>3, <1>4, <1>6 DEF Carried
<1>10. boots' = boots /\ flushed' = flushed
  BY <1>1
<1> QED
  BY <1>1, <1>3, <1>8, <1>9, <1>10, OrderSends

LEMMA OrderIdle ==
  ASSUME TypeInv, OrderInv, NEW n \in Node, NEW localDue \in BOOLEAN,
         LoopIdle(n, localDue)
  PROVE  OrderInv'
<1> DEFINE q == QueueAfter(n, localDue)
           p == Head(q)
<1>1. /\ n \in Relay /\ Originate(n, localDue) /\ q # <<>>
      /\ pending' = [pending EXCEPT ![n] = p]
      /\ statusLink' = [statusLink EXCEPT ![n] = Sent(@, p)]
      /\ outQueue' = [outQueue EXCEPT ![n] = Tail(q)]
  BY DEF LoopIdle, BeginForwarding, Relay
<1>2. boots' = boots /\ flushed' = flushed
  BY DEF LoopIdle
<1>3. /\ q \in Seq(Packet)
      /\ Readings(q) = Readings(outQueue[n]) \cup Queued(n, localDue) /\ InOrder(q)
      /\ Ahead(Readings(statusLink[n]) \cup Slot(n), Readings(q))
  BY <1>1, <1>2, OrderPass
<1> HIDE DEF q
<1>4. /\ p \in Readings(q) /\ p \in Packet /\ Readings(Tail(q)) \subseteq Readings(q)
      /\ InOrder(Tail(q)) /\ Ahead({p}, Readings(Tail(q)))
  BY <1>1, <1>3, HeadTail, OrderTail
<1> HIDE DEF p
<1>5. /\ outQueue'[n] = Tail(q) /\ pending'[n] = p
      /\ statusLink'[n] = Sent(statusLink[n], p)
      /\ \A k \in Node : k # n => /\ statusLink'[k] = statusLink[k]
                                  /\ outQueue'[k] = outQueue[k]
                                  /\ pending'[k] = pending[k]
  BY <1>1 DEF TypeInv, TypeOK
<1>6. Slot(n)' = {p}
  BY <1>4, <1>5, NoPacketIsNone DEF Slot
<1>7. /\ OwnOrder(n) /\ statusLink[n] \in Seq(Packet)
      /\ Ahead(Readings(statusLink[n]), {p})
  BY <1>1, <1>3, <1>4, OrderTypes DEF OrderInv, Ahead
<1>8. InOrder(statusLink'[n]) /\ Readings(statusLink'[n]) \subseteq Readings(statusLink[n]) \cup {p}
  BY <1>4, <1>5, <1>7, OrderSent DEF OwnOrder
<1>9. AtOrBefore(p, p)
  BY DEF AtOrBefore
<1>10. OwnOrder(n)'
  BY <1>3, <1>4, <1>5, <1>6, <1>8, <1>9 DEF OwnOrder, Ahead
<1>11. Carried(n)' \subseteq Carried(n) \cup Queued(n, localDue)
  BY <1>3, <1>4, <1>5, <1>6, <1>8 DEF Carried
<1> QED
  BY <1>1, <1>2, <1>5, <1>10, <1>11, OrderSends

\* A reset numbers the readings of a later boot: all there were come before.
LEMMA OrderReboot ==
  ASSUME TypeInv, OrderInv, NEW n \in Node, Reboot(n)
  PROVE  OrderInv'
<1> DEFINE m == PrevId(n)
<1>1. /\ m \in Node /\ Gateway \in Node
      /\ outQueue'[n] = <<>> /\ pending'[n] = NoPacket
      /\ statusLink'[m] = <<>>
      /\ \A k \in Node : k # n => outQueue'[k] = outQueue[k] /\ pending'[k] = pending[k]
      /\ \A k \in Node : k # m => statusLink'[k] = statusLink[k]
  BY RingFacts DEF Reboot, TypeInv, TypeOK
<1> HIDE DEF m
<1>2. flushed' = flushed
  BY DEF Reboot
<1>3. ASSUME NEW p \in Packet, Produced(p) PROVE Produced(p)'
  <2>1. /\ p.origin \in Node /\ p.boot \in Nat
        /\ boots[p.origin] \in Nat
    BY OrderTypes DEF Packet
  <2>2. /\ p.origin = n => boots'[p.origin] = boots[p.origin] + 1
        /\ p.origin # n => /\ boots'[p.origin] = boots[p.origin]
                           /\ localSeq'[p.origin] = localSeq[p.origin]
    BY <2>1 DEF Reboot, TypeInv, TypeOK
  <2> QED
    BY <1>3, <2>1, <2>2 DEF Produced
<1>4. Readings(<<>>) = {} /\ InOrder(<<>>)
  BY DEF Readings, InOrder
<1>5. ASSUME NEW k \in Relay PROVE OwnOrder(k)' /\ Carried(k)' \subseteq Carried(k)
  <2>1. k \in Node /\ OwnOrder(k)
    BY RelayFacts DEF OrderInv
  <2>2. /\ outQueue'[k] = outQueue[k] \/ outQueue'[k] = <<>>
        /\ statusLink'[k] = statusLink[k] \/ statusLink'[k] = <<>>
        /\ Slot(k)' \subseteq Slot(k)
    BY <1>1, <2>1 DEF Slot
  <2>3. /\ Readings(outQueue'[k]) \subseteq Readings(outQueue[k]) /\ InOrder(outQueue'[k])
        /\ Readings(statusLink'[k]) \subseteq Readings(statusLink[k]) /\ InOrder(statusLink'[k])
    BY <1>4, <2>1, <2>2 DEF OwnOrder
  <2> QED
    BY <2>1, <2>2, <2>3 DEF OwnOrder, Carried, Ahead
<1>6. statusLink'[Gateway] = <<>>
  BY <1>1 DEF OrderInv
<1> QED
  BY <1>2, <1>3, <1>5, <1>6, OrderShrinks

LEMMA OrderInit == Init => OrderInv
<1> SUFFICES ASSUME Init PROVE OrderInv
  OBVIOUS
<1>1. Readings(<<>>) = {} /\ InOrder(<<>>)
  BY DEF Readings, InOrder
<1>2. ASSUME NEW k \in Relay PROVE OwnOrder(k) /\ Carried(k) = {}
  BY <1>1, RelayFacts DEF Init, OwnOrder, Carried, Slot, Ahead
<1>3. statusLink[Gateway] = <<>> /\ flushed = <<>>
  BY ChainAssumption DEF Init, Node, Gateway
<1> QED
  BY <1>1, <1>2, <1>3 DEF OrderInv, Ahead

LEMMA OrderStep ==
  ASSUME TypeInv, OrderInv, [Next]_vars
  PROVE  OrderInv'
<1>1. CASE UNCHANGED vars
  BY <1>1, OrderSame DEF vars, ram, history
<1>2. ASSUME NEW n \in Powered, NEW m \in Powered, HandleHello(n, m) PROVE OrderInv'
  BY <1>2, OrderHello
<1>3. ASSUME NEW n \in Powered, HandleStatus(n) PROVE OrderInv'
  BY <1>3, OrderStatus
<1>4. ASSUME NEW n \in Powered, HandleAck(n) PROVE OrderInv'
  BY <1>4, OrderAck
<1>5. ASSUME NEW n \in Powered, Loop(n) PROVE OrderInv'
  BY <1>5, OrderGateway, OrderForwarding, OrderIdle DEF Powered, Loop
<1>6. ASSUME NEW n \in Powered, Reboot(n) PROVE OrderInv'
  BY <1>6, OrderReboot DEF Powered
<1>7. ASSUME NEW n \in Powered, LoseStatus(n) \/ LoseAck(n) PROVE OrderInv'
  BY <1>7, OrderLost
<1> QED
  BY <1>1, <1>2, <1>3, <1>4, <1>5, <1>6, <1>7 DEF Next

\* Whatever is lost and whichever boards reset, however often, no reading
\* reaches gateway_uplink::flush() after a newer one of the same node: neither
\* a retransmission by loop() nor a key handleStatus() has forgotten lets an
\* old reading overtake, so the backend's last value of a lane never goes
\* back. The sequence numbers play no part: only the queues' order does.
THEOREM NeverGoesBackCorrect == Spec => []NeverGoesBack
<1>1. Init => TypeInv /\ OrderInv
  BY InitType, OrderInit
<1>2. TypeInv /\ OrderInv /\ [Next]_vars => TypeInv' /\ OrderInv'
  BY TypeStep, OrderStep
<1>3. OrderInv => NeverGoesBack
  BY DEF OrderInv, NeverGoesBack
<1> QED
  BY <1>1, <1>2, <1>3, PTL DEF Spec

-----------------------------------------------------------------------------
(* Repetitions: counting *)

LEMMA NodeFinite == IsFiniteSet(Node)
BY FS_Interval, ChainAssumption DEF Node

LEMMA FiniteTags ==
  ASSUME NEW C, \A n \in Node : IsFiniteSet(C[n])
  PROVE  IsFiniteSet(Tagged(C))
<1> DEFINE T == {{n} \X C[n] : n \in Node}
           f == [n \in Node |-> {n} \X C[n]]
<1>1. f \in Surjection(Node, T)
  BY DEF Surjection
<1>2. IsFiniteSet(T)
  BY <1>1, NodeFinite, FS_Surjection
<1>3. \A S \in T : IsFiniteSet(S)
  <2> TAKE S \in T
  <2>1. PICK n \in Node : S = {n} \X C[n]
    OBVIOUS
  <2>2. IsFiniteSet({n}) /\ IsFiniteSet(C[n])
    BY FS_Singleton
  <2> QED
    BY <2>1, <2>2, FS_Product
<1> HIDE DEF T
<1>4. IsFiniteSet(UNION T)
  BY <1>2, <1>3, FS_UNION
<1> QED
  BY <1>4 DEF T, Tagged

\* What belongs to one node is exchanged for something else.
LEMMA TagsChange ==
  ASSUME NEW C, NEW D, NEW k \in Node,
         \A n \in Node : IsFiniteSet(C[n]), IsFiniteSet(D[k]),
         \A n \in Node : n # k => D[n] = C[n]
  PROVE  /\ Cardinality(Tagged(D)) + Cardinality(C[k]) = Cardinality(Tagged(C)) + Cardinality(D[k])
         /\ Cardinality(Tagged(C)) \in Nat /\ Cardinality(Tagged(D)) \in Nat
         /\ Cardinality(C[k]) \in Nat /\ Cardinality(D[k]) \in Nat
<1> DEFINE R == UNION {{n} \X C[n] : n \in Node \ {k}}
<1>1. Tagged(C) = R \cup ({k} \X C[k]) /\ R \cap ({k} \X C[k]) = {}
  BY DEF Tagged
<1>2. Tagged(D) = R \cup ({k} \X D[k]) /\ R \cap ({k} \X D[k]) = {}
  BY DEF Tagged
<1>3. \A n \in Node : IsFiniteSet(D[n])
  OBVIOUS
<1>4. IsFiniteSet(Tagged(C)) /\ IsFiniteSet(Tagged(D))
  BY <1>3, FiniteTags
<1> HIDE DEF R
<1>5. IsFiniteSet(R)
  BY <1>1, <1>4, FS_Subset
<1>6. \A S : IsFiniteSet(S) =>
        /\ IsFiniteSet({k} \X S) /\ Cardinality({k} \X S) = Cardinality(S)
        /\ Cardinality(S) \in Nat
  <2> TAKE S
  <2> HAVE IsFiniteSet(S)
  <2>1. IsFiniteSet({k}) /\ Cardinality({k}) = 1
    BY FS_Singleton
  <2>2. IsFiniteSet({k} \X S) /\ Cardinality({k} \X S) = 1 * Cardinality(S)
    BY <2>1, FS_Product
  <2>3. Cardinality(S) \in Nat
    BY FS_CardinalityType
  <2> QED
    BY <2>2, <2>3
<1>7. \A S : IsFiniteSet(S) /\ R \cap ({k} \X S) = {} =>
        Cardinality(R \cup ({k} \X S)) = Cardinality(R) + Cardinality(S)
  <2> TAKE S
  <2> HAVE IsFiniteSet(S) /\ R \cap ({k} \X S) = {}
  <2>1. Cardinality(R \cup ({k} \X S)) = Cardinality(R) + Cardinality({k} \X S) - Cardinality({})
    BY <1>5, <1>6, FS_Union
  <2>2. Cardinality({}) = 0 /\ Cardinality(R) \in Nat /\ Cardinality({k} \X S) = Cardinality(S)
    BY <1>5, <1>6, FS_EmptySet, FS_CardinalityType
  <2>3. Cardinality(S) \in Nat
    BY <1>6
  <2> QED
    BY <2>1, <2>2, <2>3
<1>8. /\ Cardinality(Tagged(C)) = Cardinality(R) + Cardinality(C[k])
      /\ Cardinality(Tagged(D)) = Cardinality(R) + Cardinality(D[k])
  BY <1>1, <1>2, <1>7
<1>9. Cardinality(R) \in Nat /\ Cardinality(C[k]) \in Nat /\ Cardinality(D[k]) \in Nat
  BY <1>5, FS_CardinalityType
<1> QED
  BY <1>8, <1>9

LEMMA NoTags ==
  ASSUME NEW C, \A n \in Node : C[n] = {}
  PROVE  Cardinality(Tagged(C)) = 0
<1>1. Tagged(C) = {}
  BY DEF Tagged
<1> QED
  BY <1>1, FS_EmptySet

LEMMA SameTags ==
  ASSUME NEW C, NEW D, \A n \in Node : C[n] = D[n]
  PROVE  Tagged(C) = Tagged(D)
BY DEF Tagged

-----------------------------------------------------------------------------
(* Repetitions: streams as values *)

LEMMA StartsFinite ==
  ASSUME NEW s \in Seq(Packet), NEW last, NEW r
  PROVE  /\ Starts(last, s, r) \subseteq 1 .. Len(s) /\ Len(s) \in Nat
         /\ IsFiniteSet(Starts(last, s, r)) /\ Cardinality(Starts(last, s, r)) \in Nat
<1>1. Starts(last, s, r) \subseteq 1 .. Len(s) /\ Len(s) \in Nat
  BY DEF Starts
<1>2. IsFiniteSet(1 .. Len(s))
  BY <1>1, FS_Interval
<1>3. IsFiniteSet(Starts(last, s, r))
  BY <1>1, <1>2, FS_Subset
<1> QED
  BY <1>1, <1>3, FS_CardinalityType

\* t is s without the packet at k.
Without(s, k, t) ==
  /\ k \in 1 .. Len(s) /\ Len(t) = Len(s) - 1
  /\ \A i \in 1 .. k - 1 : t[i] = s[i]
  /\ \A i \in k .. Len(s) - 1 : t[i] = s[i + 1]

LEMMA StartsWithout ==
  ASSUME NEW s \in Seq(Packet), NEW t \in Seq(Packet), NEW k, Without(s, k, t), NEW last, NEW r
  PROVE  Cardinality(Starts(last, t, r)) <= Cardinality(Starts(last, s, r))
<1> DEFINE S == Starts(last, s, r)
           T == Starts(last, t, r)
           to(i) == IF i < k \/ (i = k /\ s[k] = r) THEN i ELSE i + 1
           f == [i \in T |-> to(i)]
<1>1. /\ Len(s) \in Nat /\ k \in 1 .. Len(s) /\ Len(t) = Len(s) - 1
      /\ DOMAIN s = 1 .. Len(s) /\ DOMAIN t = 1 .. Len(s) - 1
  BY DEF Without
<1>2. \A i \in T : i \in 1 .. Len(s) - 1 /\ t[i] = r /\ (IF i = 1 THEN last ELSE t[i - 1]) # r
  BY <1>1 DEF Starts
<1>3. ASSUME NEW i \in T PROVE to(i) \in S
  <2>1. CASE i < k
    <3>1. t[i] = s[i] /\ (i # 1 => t[i - 1] = s[i - 1])
      BY <1>1, <1>2, <2>1 DEF Without
    <3> QED
      BY <1>1, <1>2, <2>1, <3>1 DEF Starts
  <2>2. CASE i = k /\ s[k] = r
    <3>1. i # 1 => t[i - 1] = s[i - 1]
      BY <1>1, <1>2, <2>2 DEF Without
    <3> QED
      BY <1>1, <1>2, <2>2, <3>1 DEF Starts
  <2>3. CASE i = k /\ s[k] # r
    <3>1. t[i] = s[i + 1] /\ i + 1 # 1 /\ s[i + 1 - 1] # r
      BY <1>1, <1>2, <2>3 DEF Without
    <3> QED
      BY <1>1, <1>2, <2>3, <3>1 DEF Starts
  <2>4. CASE i > k
    <3>1. t[i] = s[i + 1] /\ i # 1 /\ t[i - 1] = s[i + 1 - 1] /\ i + 1 # 1
      BY <1>1, <1>2, <2>4 DEF Without
    <3> QED
      BY <1>1, <1>2, <2>4, <3>1 DEF Starts
  <2> QED
    BY <1>1, <1>2, <2>1, <2>2, <2>3, <2>4
<1>4. \A i, j \in T : to(i) = to(j) => i = j
  BY <1>1, <1>2
<1> HIDE DEF S, T
<1>5. f \in [T -> S] /\ \A i, j \in T : f[i] = f[j] => i = j
  <2>1. \A i \in T : f[i] = to(i)
    OBVIOUS
  <2> QED
    BY <1>3, <1>4, <2>1
<1> HIDE DEF f, to
<1>6. f \in Injection(T, S)
  BY <1>5 DEF Injection, IsInjective
<1>7. IsFiniteSet(S)
  BY StartsFinite DEF S
<1> QED
  BY <1>6, <1>7, FS_Injection DEF S, T

\* t is s with the packet at k sent twice.
Twice(s, k, t) ==
  /\ k \in 1 .. Len(s) /\ Len(t) = Len(s) + 1
  /\ \A i \in 1 .. k : t[i] = s[i]
  /\ \A i \in k + 1 .. Len(s) + 1 : t[i] = s[i - 1]

LEMMA StartsTwice ==
  ASSUME NEW s \in Seq(Packet), NEW t \in Seq(Packet), NEW k, Twice(s, k, t), NEW last, NEW r
  PROVE  Cardinality(Starts(last, t, r)) <= Cardinality(Starts(last, s, r))
<1> DEFINE S == Starts(last, s, r)
           T == Starts(last, t, r)
           to(i) == IF i <= k THEN i ELSE i - 1
           f == [i \in T |-> to(i)]
<1>1. /\ Len(s) \in Nat /\ k \in 1 .. Len(s) /\ Len(t) = Len(s) + 1
      /\ DOMAIN s = 1 .. Len(s) /\ DOMAIN t = 1 .. Len(s) + 1
  BY DEF Twice
<1>2. \A i \in T : i \in 1 .. Len(s) + 1 /\ t[i] = r /\ (IF i = 1 THEN last ELSE t[i - 1]) # r
  BY <1>1 DEF Starts
<1>3. \A i \in T : i # k + 1
  <2> SUFFICES ASSUME NEW i \in T, i = k + 1 PROVE FALSE
    OBVIOUS
  <2>1. i - 1 = k /\ i # 1 /\ k \in 1 .. k /\ i \in k + 1 .. Len(s) + 1
    BY <1>1
  <2>2. t[i] = s[i - 1] /\ t[k] = s[k]
    BY <2>1 DEF Twice
  <2>3. t[i] = r /\ (IF i = 1 THEN last ELSE t[i - 1]) # r
    BY <1>2
  <2> HIDE DEF T
  <2> QED
    BY <2>1, <2>2, <2>3
<1>4. ASSUME NEW i \in T PROVE to(i) \in S
  <2>1. CASE i <= k
    <3>1. t[i] = s[i] /\ (i # 1 => t[i - 1] = s[i - 1])
      BY <1>1, <1>2, <2>1 DEF Twice
    <3> QED
      BY <1>1, <1>2, <2>1, <3>1 DEF Starts
  <2>2. CASE i > k + 1
    <3>1. t[i] = s[i - 1] /\ i # 1 /\ i - 1 # 1 /\ t[i - 1] = s[i - 1 - 1]
      BY <1>1, <1>2, <2>2 DEF Twice
    <3> QED
      BY <1>1, <1>2, <2>2, <3>1 DEF Starts
  <2> QED
    BY <1>1, <1>2, <1>3, <2>1, <2>2
<1>5. \A i, j \in T : to(i) = to(j) => i = j
  BY <1>1, <1>2, <1>3
<1> HIDE DEF S, T
<1>6. f \in [T -> S] /\ \A i, j \in T : f[i] = f[j] => i = j
  <2>1. \A i \in T : f[i] = to(i)
    OBVIOUS
  <2> QED
    BY <1>4, <1>5, <2>1
<1> HIDE DEF f, to
<1>7. f \in Injection(T, S)
  BY <1>6 DEF Injection, IsInjective
<1>8. IsFiniteSet(S)
  BY StartsFinite DEF S
<1> QED
  BY <1>7, <1>8, FS_Injection DEF S, T

\* The head of s is accepted: one copy fewer, if it is one of r.
LEMMA StartsAccepted ==
  ASSUME NEW s \in Seq(Packet), s # <<>>, NEW last, last # Head(s), NEW r
  PROVE  Cardinality(Starts(Head(s), Tail(s), r)) + (IF Head(s) = r THEN 1 ELSE 0)
           <= Cardinality(Starts(last, s, r))
<1> DEFINE h == Head(s)
           t == Tail(s)
           S == Starts(last, s, r)
           T == Starts(h, t, r)
           f == [i \in T |-> i + 1]
<1>1. /\ Len(s) \in Nat \ {0} /\ DOMAIN s = 1 .. Len(s) /\ DOMAIN t = 1 .. Len(s) - 1
      /\ t \in Seq(Packet) /\ h = s[1]
      /\ \A i \in 1 .. Len(s) - 1 : t[i] = s[i + 1]
  OBVIOUS
<1> HIDE DEF h, t
<1>2. \A i \in T : /\ i \in 1 .. Len(s) - 1 /\ i + 1 \in S /\ i + 1 # 1
  <2> TAKE i \in T
  <2>1. i \in 1 .. Len(s) - 1 /\ t[i] = r /\ (IF i = 1 THEN h ELSE t[i - 1]) # r
    BY <1>1 DEF Starts
  <2>2. s[i + 1] = r /\ s[i + 1 - 1] # r /\ i + 1 # 1 /\ i + 1 \in DOMAIN s
    BY <1>1, <2>1
  <2> QED
    BY <2>1, <2>2 DEF Starts
<1>3. h = r => 1 \in S
  BY <1>1 DEF Starts, h
<1>4. IsFiniteSet(S) /\ Cardinality(S) \in Nat /\ IsFiniteSet(T) /\ Cardinality(T) \in Nat
  BY <1>1, StartsFinite
<1> HIDE DEF S, T
<1>5. f \in Injection(T, S \ {1})
  <2>1. \A i \in T : f[i] = i + 1 /\ i \in Nat
    BY <1>2
  <2>2. f \in [T -> S \ {1}] /\ \A i, j \in T : f[i] = f[j] => i = j
    BY <1>2, <2>1
  <2> QED
    BY <2>2 DEF Injection, IsInjective
<1> HIDE DEF f
<1>6. /\ IsFiniteSet(S \ {1})
      /\ Cardinality(S \ {1}) = IF 1 \in S THEN Cardinality(S) - 1 ELSE Cardinality(S)
  BY <1>4, FS_RemoveElement
<1>7. Cardinality(T) <= Cardinality(S \ {1})
  BY <1>5, <1>6, FS_Injection
<1>8. Cardinality(T) + (IF h = r THEN 1 ELSE 0) <= Cardinality(S)
  BY <1>3, <1>4, <1>6, <1>7
<1> QED
  BY <1>8 DEF h, t, S, T

LEMMA StartsAppend ==
  ASSUME NEW s \in Seq(Packet), NEW x \in Packet, NEW last, NEW r
  PROVE  Cardinality(Starts(last, Append(s, x), r))
           <= Cardinality(Starts(last, s, r)) + (IF x = r THEN 1 ELSE 0)
<1> DEFINE t == Append(s, x)
           S == Starts(last, s, r)
           T == Starts(last, t, r)
           n == Len(s) + 1
<1>1. /\ Len(s) \in Nat /\ DOMAIN s = 1 .. Len(s) /\ DOMAIN t = 1 .. n /\ t \in Seq(Packet)
      /\ \A i \in 1 .. Len(s) : t[i] = s[i]
      /\ t[n] = x
  OBVIOUS
<1> HIDE DEF t
<1>2. ASSUME NEW i \in T PROVE i \in S \/ (i = n /\ x = r)
  <2>1. i \in 1 .. n /\ t[i] = r /\ (IF i = 1 THEN last ELSE t[i - 1]) # r
    BY <1>1 DEF Starts
  <2>2. CASE i = n
    BY <1>1, <2>1, <2>2
  <2>3. CASE i # n
    <3>1. i \in 1 .. Len(s) /\ t[i] = s[i] /\ (i # 1 => t[i - 1] = s[i - 1])
      BY <1>1, <2>1, <2>3
    <3> QED
      BY <1>1, <2>1, <3>1 DEF Starts
  <2> QED
    BY <2>2, <2>3
<1>3. IsFiniteSet(S) /\ Cardinality(S) \in Nat
  BY StartsFinite
<1> HIDE DEF S, T
<1>4. CASE x = r
  <2>1. T \in SUBSET (S \cup {n})
    BY <1>2
  <2> DEFINE c == Cardinality(S)
  <2>0. IsFiniteSet(S \cup {n}) /\ Cardinality(S \cup {n}) = IF n \in S THEN c ELSE c + 1
    BY <1>3, FS_AddElement
  <2>2. IsFiniteSet(S \cup {n}) /\ Cardinality(S \cup {n}) <= c + 1
    <3>1. c \in Nat
      BY <1>3
    <3> HIDE DEF c
    <3> QED
      BY <2>0, <3>1
  <2>3. Cardinality(T) <= Cardinality(S \cup {n}) /\ Cardinality(T) \in Nat
    BY <2>1, <2>2, FS_Subset, FS_CardinalityType
  <2>4. Cardinality(S \cup {n}) \in Nat
    BY <2>2, FS_CardinalityType
  <2>5. Cardinality(T) <= Cardinality(S) + 1
    BY <1>3, <2>2, <2>3, <2>4
  <2> QED
    BY <1>4, <2>5 DEF S, T, t
<1>5. CASE x # r
  <2>1. T \in SUBSET S
    BY <1>2, <1>5
  <2>2. Cardinality(T) <= Cardinality(S)
    BY <1>3, <2>1, FS_Subset
  <2> QED
    BY <1>3, <1>5, <2>2 DEF S, T, t
<1> QED
  BY <1>4, <1>5

LEMMA StartsPrefix ==
  ASSUME NEW s \in Seq(Packet), NEW t \in Seq(Packet), Len(t) <= Len(s),
         \A i \in 1 .. Len(t) : t[i] = s[i], NEW last, NEW r
  PROVE  Cardinality(Starts(last, t, r)) <= Cardinality(Starts(last, s, r))
<1>1. /\ Len(s) \in Nat /\ DOMAIN s = 1 .. Len(s)
      /\ Len(t) \in Nat /\ DOMAIN t = 1 .. Len(t)
  OBVIOUS
<1>2. Starts(last, t, r) \in SUBSET Starts(last, s, r)
  BY <1>1 DEF Starts
<1> QED
  BY <1>2, StartsFinite, FS_Subset

\* t is the end of s, and next has forgotten what it accepted last: one copy
\* more at most.
LEMMA StartsAfresh ==
  ASSUME NEW s \in Seq(Packet), NEW t \in Seq(Packet), NEW k \in Nat, Len(s) = Len(t) + k,
         \A i \in 1 .. Len(t) : t[i] = s[i + k], NEW last, NEW new, NEW r
  PROVE  Cardinality(Starts(new, t, r)) <= Cardinality(Starts(last, s, r)) + 1
<1> DEFINE S == Starts(last, s, r)
           T == Starts(new, t, r)
           f == [i \in T \ {1} |-> i + k]
<1>1. /\ DOMAIN s = 1 .. Len(s) /\ Len(t) \in Nat /\ DOMAIN t = 1 .. Len(t)
  OBVIOUS
<1>2. \A i \in T \ {1} : i \in Nat /\ i + k \in S
  <2> TAKE i \in T \ {1}
  <2>1. i \in 1 .. Len(t) /\ i # 1 /\ t[i] = r /\ t[i - 1] # r
    BY <1>1 DEF Starts
  <2>2. s[i + k] = r /\ s[i + k - 1] # r /\ i + k # 1 /\ i + k \in DOMAIN s
    <3>1. t[i] = s[i + k] /\ t[i - 1] = s[i - 1 + k] /\ i - 1 + k = i + k - 1
      BY <1>1, <2>1
    <3> QED
      BY <1>1, <2>1, <3>1
  <2> QED
    BY <2>1, <2>2 DEF Starts
<1>3. IsFiniteSet(S) /\ Cardinality(S) \in Nat /\ IsFiniteSet(T) /\ Cardinality(T) \in Nat
  BY StartsFinite
<1> HIDE DEF S, T
<1>4. f \in Injection(T \ {1}, S)
  <2>1. \A i \in T \ {1} : f[i] = i + k
    OBVIOUS
  <2>2. f \in [T \ {1} -> S] /\ \A i, j \in T \ {1} : f[i] = f[j] => i = j
    BY <1>2, <2>1
  <2> QED
    BY <2>2 DEF Injection, IsInjective
<1> HIDE DEF f
<1>5. Cardinality(T \ {1}) <= Cardinality(S)
  BY <1>3, <1>4, FS_Injection
<1>6. Cardinality(T \ {1}) = IF 1 \in T THEN Cardinality(T) - 1 ELSE Cardinality(T)
  BY <1>3, FS_RemoveElement
<1>7. Cardinality(T) <= Cardinality(S) + 1
  BY <1>3, <1>5, <1>6
<1> QED
  BY <1>7 DEF S, T

-----------------------------------------------------------------------------
(* Repetitions: a link, a slot and a queue in a row *)

\* A link, a slot and a queue in a row.
Row(l, m, q) == l \o m \o q

\* What the packet at i is.
RowAt(l, m, q, i) ==
  IF i <= Len(l) THEN l[i]
  ELSE IF i <= Len(l) + Len(m) THEN m[i - Len(l)] ELSE q[i - Len(l) - Len(m)]

IsRow(w, l, m, q) ==
  /\ w \in Seq(Packet)
  /\ Len(l) \in Nat /\ Len(m) \in Nat /\ Len(q) \in Nat
  /\ Len(w) = Len(l) + Len(m) + Len(q)
  /\ \A i \in 1 .. Len(w) : w[i] = RowAt(l, m, q, i)

LEMMA RowFacts ==
  ASSUME NEW l \in Seq(Packet), NEW m \in Seq(Packet), NEW q \in Seq(Packet)
  PROVE  IsRow(Row(l, m, q), l, m, q)
<1> DEFINE h == l \o m
           w == h \o q
<1>1. /\ h \in Seq(Packet) /\ w \in Seq(Packet)
      /\ Len(l) \in Nat /\ Len(m) \in Nat /\ Len(q) \in Nat
      /\ Len(h) = Len(l) + Len(m) /\ Len(w) = Len(l) + Len(m) + Len(q)
  OBVIOUS
<1>2. \A i \in 1 .. Len(h) : h[i] = IF i <= Len(l) THEN l[i] ELSE m[i - Len(l)]
  BY <1>1, ConcatProperties
<1> HIDE DEF h
<1>3. \A i \in 1 .. Len(w) : w[i] = IF i <= Len(h) THEN h[i] ELSE q[i - Len(h)]
  BY <1>1, ConcatProperties
<1> HIDE DEF w
<1>4. ASSUME NEW i \in 1 .. Len(w) PROVE w[i] = RowAt(l, m, q, i)
  <2>1. CASE i <= Len(h)
    <3>1. i \in 1 .. Len(h) /\ w[i] = h[i]
      BY <1>1, <1>3, <2>1
    <3>2. w[i] = IF i <= Len(l) THEN l[i] ELSE m[i - Len(l)]
      BY <1>2, <3>1
    <3> QED
      BY <1>1, <2>1, <3>2 DEF RowAt
  <2>2. CASE i > Len(h)
    <3>1. w[i] = q[i - Len(h)] /\ i - Len(h) = i - Len(l) - Len(m) /\ ~(i <= Len(l))
      BY <1>1, <1>3, <2>2
    <3> QED
      BY <1>1, <2>2, <3>1 DEF RowAt
  <2> QED
    BY <1>1, <2>1, <2>2
<1>5. w = Row(l, m, q)
  BY DEF w, h, Row
<1> QED
  BY <1>1, <1>4, <1>5 DEF IsRow

LEMMA RowType ==
  ASSUME NEW l \in Seq(Packet), NEW m \in Seq(Packet), NEW q \in Seq(Packet)
  PROVE  Row(l, m, q) \in Seq(Packet)
BY RowFacts DEF IsRow

\* Its packets are those of its parts.
LEMMA RowParts ==
  ASSUME NEW l \in Seq(Packet), NEW m \in Seq(Packet), NEW q \in Seq(Packet), NEW S,
         \A j \in DOMAIN l : l[j] \in S,
         \A j \in DOMAIN m : m[j] \in S,
         \A j \in DOMAIN q : q[j] \in S,
         NEW i \in DOMAIN Row(l, m, q)
  PROVE  Row(l, m, q)[i] \in S
<1> DEFINE w == Row(l, m, q)
<1>1. IsRow(w, l, m, q) /\ w \in Seq(Packet)
  BY RowFacts DEF IsRow
<1>2. i \in DOMAIN w
  OBVIOUS
<1> HIDE DEF w
<1>3. /\ Len(l) \in Nat /\ Len(m) \in Nat /\ Len(q) \in Nat
      /\ Len(w) = Len(l) + Len(m) + Len(q) /\ i \in 1 .. Len(w)
  BY <1>1, <1>2 DEF IsRow
<1>4. w[i] = RowAt(l, m, q, i)
  BY <1>1, <1>3 DEF IsRow
<1>5. CASE i <= Len(l)
  <2>1. i \in DOMAIN l /\ w[i] = l[i]
    BY <1>3, <1>4, <1>5 DEF RowAt
  <2> QED
    BY <2>1 DEF w
<1>6. CASE ~(i <= Len(l)) /\ i <= Len(l) + Len(m)
  <2>1. i - Len(l) \in DOMAIN m /\ w[i] = m[i - Len(l)]
    BY <1>3, <1>4, <1>6 DEF RowAt
  <2> QED
    BY <2>1 DEF w
<1>7. CASE ~(i <= Len(l)) /\ ~(i <= Len(l) + Len(m))
  <2>1. i - Len(l) - Len(m) \in DOMAIN q /\ w[i] = q[i - Len(l) - Len(m)]
    BY <1>3, <1>4, <1>7 DEF RowAt
  <2> QED
    BY <2>1 DEF w
<1> QED
  BY <1>3, <1>5, <1>6, <1>7

\* What is left of it when the slot and the queue are lost,
Begins(l, w) == Len(l) <= Len(w) /\ \A i \in 1 .. Len(l) : l[i] = w[i]

LEMMA RowPrefix ==
  ASSUME NEW l \in Seq(Packet), NEW m \in Seq(Packet), NEW q \in Seq(Packet)
  PROVE  Begins(l, Row(l, m, q))
<1> DEFINE w == Row(l, m, q)
<1>1. IsRow(w, l, m, q)
  BY RowFacts
<1> HIDE DEF w
<1>2. Len(l) \in Nat /\ Len(m) \in Nat /\ Len(q) \in Nat /\ Len(w) = Len(l) + Len(m) + Len(q)
  BY <1>1 DEF IsRow
<1>3. ASSUME NEW i \in 1 .. Len(l) PROVE l[i] = w[i]
  <2>1. i \in 1 .. Len(w) /\ i <= Len(l)
    BY <1>2
  <2> QED
    BY <1>1, <2>1 DEF IsRow, RowAt
<1> QED
  BY <1>2, <1>3 DEF w, Begins

\* and when the link is.
LEMMA RowSuffix ==
  ASSUME NEW l \in Seq(Packet), NEW m \in Seq(Packet), NEW q \in Seq(Packet)
  PROVE  /\ Len(l) \in Nat /\ Len(Row(l, m, q)) = Len(Row(<<>>, m, q)) + Len(l)
         /\ \A i \in 1 .. Len(Row(<<>>, m, q)) : Row(<<>>, m, q)[i] = Row(l, m, q)[i + Len(l)]
<1> DEFINE e == <<>>
           w == Row(l, m, q)
           v == Row(e, m, q)
<1>1. e \in Seq(Packet) /\ Len(e) = 0
  OBVIOUS
<1>2. IsRow(w, l, m, q) /\ IsRow(v, e, m, q)
  BY <1>1, RowFacts
<1> HIDE DEF w, v, e
<1>3. /\ Len(l) \in Nat /\ Len(m) \in Nat /\ Len(q) \in Nat
      /\ Len(w) = Len(l) + Len(m) + Len(q) /\ Len(v) = Len(m) + Len(q)
  BY <1>1, <1>2 DEF IsRow
<1>4. ASSUME NEW i \in 1 .. Len(v) PROVE v[i] = w[i + Len(l)]
  <2>1. /\ i + Len(l) \in 1 .. Len(w)
        /\ ~(i <= Len(e)) /\ ~(i + Len(l) <= Len(l))
        /\ i <= Len(e) + Len(m) <=> i + Len(l) <= Len(l) + Len(m)
        /\ i - Len(e) = i + Len(l) - Len(l)
        /\ i - Len(e) - Len(m) = i + Len(l) - Len(l) - Len(m)
    BY <1>1, <1>3
  <2>2. v[i] = RowAt(e, m, q, i) /\ w[i + Len(l)] = RowAt(l, m, q, i + Len(l))
    BY <1>2, <2>1 DEF IsRow
  <2>3. CASE i <= Len(e) + Len(m)
    <3>1. v[i] = m[i - Len(e)] /\ w[i + Len(l)] = m[i + Len(l) - Len(l)]
      BY <2>1, <2>2, <2>3 DEF RowAt
    <3> QED
      BY <2>1, <3>1
  <2>4. CASE ~(i <= Len(e) + Len(m))
    <3>1. /\ v[i] = q[i - Len(e) - Len(m)]
          /\ w[i + Len(l)] = q[i + Len(l) - Len(l) - Len(m)]
      BY <2>1, <2>2, <2>4 DEF RowAt
    <3> QED
      BY <2>1, <3>1
  <2> QED
    BY <2>3, <2>4
<1>5. Len(w) = Len(v) + Len(l)
  BY <1>3
<1> QED
  BY <1>3, <1>4, <1>5 DEF w, v, e

\* Its first packet is taken.
LEMMA RowTail ==
  ASSUME NEW l \in Seq(Packet), NEW m \in Seq(Packet), NEW q \in Seq(Packet), l # <<>>
  PROVE  /\ Row(l, m, q) # <<>> /\ Head(Row(l, m, q)) = Head(l)
         /\ Tail(Row(l, m, q)) = Row(Tail(l), m, q)
         /\ Without(Row(l, m, q), 1, Row(Tail(l), m, q))
<1> DEFINE w == Row(l, m, q)
           v == Row(Tail(l), m, q)
           t == Tail(l)
           h == Head(l)
<1>1. /\ t \in Seq(Packet) /\ Len(t) = Len(l) - 1 /\ Len(l) \in Nat \ {0}
      /\ \A i \in 1 .. Len(l) - 1 : t[i] = l[i + 1]
      /\ h = l[1]
  OBVIOUS
<1>2. IsRow(w, l, m, q) /\ IsRow(v, t, m, q)
  BY <1>1, RowFacts
<1> HIDE DEF w, v, t, h
<1>3. /\ w \in Seq(Packet) /\ v \in Seq(Packet) /\ Len(m) \in Nat /\ Len(q) \in Nat
      /\ Len(w) = Len(l) + Len(m) + Len(q) /\ Len(v) = Len(t) + Len(m) + Len(q)
  BY <1>2 DEF IsRow
<1>4. ASSUME NEW i \in 1 .. Len(v) PROVE v[i] = w[i + 1]
  <2>1. v[i] = RowAt(t, m, q, i)
    BY <1>2 DEF IsRow
  <2>2. w[i + 1] = RowAt(l, m, q, i + 1)
    <3>1. i + 1 \in 1 .. Len(w)
      BY <1>1, <1>3
    <3> QED
      BY <1>2, <3>1 DEF IsRow
  <2>3. /\ i + 1 <= Len(l) <=> i <= Len(t)
        /\ i + 1 <= Len(l) + Len(m) <=> i <= Len(t) + Len(m)
        /\ i + 1 - Len(l) = i - Len(t) /\ i + 1 - Len(l) - Len(m) = i - Len(t) - Len(m)
    BY <1>1, <1>3
  <2>4. CASE i <= Len(t)
    <3>1. t[i] = l[i + 1]
      BY <1>1, <2>4
    <3> QED
      BY <2>1, <2>2, <2>3, <2>4, <3>1 DEF RowAt
  <2>5. CASE ~(i <= Len(t)) /\ i <= Len(t) + Len(m)
    <3>1. v[i] = m[i - Len(t)] /\ w[i + 1] = m[i + 1 - Len(l)]
      BY <2>1, <2>2, <2>3, <2>5 DEF RowAt
    <3> QED
      BY <2>3, <3>1
  <2>6. CASE ~(i <= Len(t)) /\ ~(i <= Len(t) + Len(m))
    <3>1. v[i] = q[i - Len(t) - Len(m)] /\ w[i + 1] = q[i + 1 - Len(l) - Len(m)]
      BY <2>1, <2>2, <2>3, <2>6 DEF RowAt
    <3> QED
      BY <2>3, <3>1
  <2> QED
    BY <2>4, <2>5, <2>6
<1>5. Len(w) \in Nat \ {0} /\ Len(v) = Len(w) - 1
  BY <1>1, <1>3
<1>6. w # <<>> /\ Head(w) = w[1] /\ w[1] = l[1]
  <2>1. w # <<>> /\ Head(w) = w[1] /\ 1 \in 1 .. Len(w) /\ 1 <= Len(l)
    BY <1>1, <1>3, <1>5
  <2> QED
    BY <1>2, <2>1 DEF IsRow, RowAt
<1>7. Tail(w) = v
  <2>1. /\ Tail(w) \in Seq(Packet) /\ Len(Tail(w)) = Len(w) - 1
        /\ \A i \in 1 .. Len(w) - 1 : Tail(w)[i] = w[i + 1]
    BY <1>3, <1>6
  <2> QED
    BY <1>3, <1>4, <1>5, <2>1, SeqEqual
<1>8. Without(w, 1, v)
  BY <1>4, <1>5 DEF Without
<1> QED
  BY <1>1, <1>6, <1>7, <1>8 DEF w, v, t, h

\* The slot is given up.
LEMMA RowFreed ==
  ASSUME NEW l \in Seq(Packet), NEW p \in Packet, NEW q \in Seq(Packet)
  PROVE  Without(Row(l, <<p>>, q), Len(l) + 1, Row(l, <<>>, q))
<1> DEFINE w == Row(l, <<p>>, q)
           v == Row(l, <<>>, q)
           m == <<p>>
           e == <<>>
<1>1. m \in Seq(Packet) /\ Len(m) = 1 /\ e \in Seq(Packet) /\ Len(e) = 0
  OBVIOUS
<1>2. IsRow(w, l, m, q) /\ IsRow(v, l, e, q)
  BY <1>1, RowFacts
<1> HIDE DEF w, v, m, e
<1>3. /\ Len(l) \in Nat /\ Len(q) \in Nat
      /\ Len(w) = Len(l) + 1 + Len(q) /\ Len(v) = Len(l) + Len(q)
  BY <1>1, <1>2 DEF IsRow
<1>4. ASSUME NEW i \in 1 .. Len(l) PROVE v[i] = w[i]
  <2>1. i \in 1 .. Len(w) /\ i \in 1 .. Len(v) /\ i <= Len(l)
    BY <1>3
  <2> QED
    BY <1>2, <2>1 DEF IsRow, RowAt
<1>5. ASSUME NEW i \in Len(l) + 1 .. Len(w) - 1 PROVE v[i] = w[i + 1]
  <2>1. /\ i \in 1 .. Len(v) /\ i + 1 \in 1 .. Len(w)
        /\ ~(i <= Len(l)) /\ ~(i <= Len(l) + Len(e))
        /\ ~(i + 1 <= Len(l)) /\ ~(i + 1 <= Len(l) + Len(m))
        /\ i - Len(l) - Len(e) = i + 1 - Len(l) - Len(m)
    BY <1>1, <1>3
  <2>2. v[i] = RowAt(l, e, q, i) /\ w[i + 1] = RowAt(l, m, q, i + 1)
    BY <1>2, <2>1 DEF IsRow
  <2>3. v[i] = q[i - Len(l) - Len(e)] /\ w[i + 1] = q[i + 1 - Len(l) - Len(m)]
    BY <2>1, <2>2 DEF RowAt
  <2> QED
    BY <2>1, <2>3
<1>6. Len(l) + 1 - 1 = Len(l) /\ Len(l) + 1 \in 1 .. Len(w) /\ Len(v) = Len(w) - 1
  BY <1>3
<1> QED
  BY <1>4, <1>5, <1>6 DEF Without, w, v

\* One more packet in the queue.
LEMMA RowAppend ==
  ASSUME NEW l \in Seq(Packet), NEW m \in Seq(Packet), NEW q \in Seq(Packet), NEW x \in Packet
  PROVE  Row(l, m, Append(q, x)) = Append(Row(l, m, q), x)
<1> DEFINE h == l \o m
<1>1. h \in Seq(Packet)
  OBVIOUS
<1> HIDE DEF h
<1>2. h \o Append(q, x) \in Seq(Packet) /\ Append(h \o q, x) \in Seq(Packet)
  BY <1>1
<1>3. Len(h \o Append(q, x)) = Len(Append(h \o q, x))
  BY <1>1
<1>4. \A i \in 1 .. Len(h \o Append(q, x)) : (h \o Append(q, x))[i] = Append(h \o q, x)[i]
  BY <1>1
<1>5. h \o Append(q, x) = Append(h \o q, x)
  BY <1>2, <1>3, <1>4, SeqEqual
<1> QED
  BY <1>5 DEF h, Row

\* The head of the queue moves into the slot.
LEMMA RowBegin ==
  ASSUME NEW l \in Seq(Packet), NEW q \in Seq(Packet), q # <<>>
  PROVE  Row(l, <<Head(q)>>, Tail(q)) = Row(l, <<>>, q)
<1> DEFINE m == <<Head(q)>>
           t == Tail(q)
           e == <<>>
           w == Row(l, m, t)
           v == Row(l, e, q)
<1>1. /\ m \in Seq(Packet) /\ Len(m) = 1 /\ m[1] = q[1]
      /\ t \in Seq(Packet) /\ Len(t) = Len(q) - 1 /\ Len(q) \in Nat \ {0}
      /\ \A i \in 1 .. Len(q) - 1 : t[i] = q[i + 1]
      /\ e \in Seq(Packet) /\ Len(e) = 0
  OBVIOUS
<1> HIDE DEF m, t, e
<1>2. IsRow(w, l, m, t) /\ IsRow(v, l, e, q)
  BY <1>1, RowFacts
<1> HIDE DEF w, v
<1>3. /\ w \in Seq(Packet) /\ v \in Seq(Packet) /\ Len(l) \in Nat
      /\ Len(w) = Len(l) + Len(q) /\ Len(v) = Len(l) + Len(q)
  BY <1>1, <1>2 DEF IsRow
<1>4. ASSUME NEW i \in 1 .. Len(v) PROVE w[i] = v[i]
  <2>1. w[i] = RowAt(l, m, t, i) /\ v[i] = RowAt(l, e, q, i)
    BY <1>2, <1>3 DEF IsRow
  <2>2. CASE i <= Len(l)
    BY <2>1, <2>2 DEF RowAt
  <2>3. CASE i = Len(l) + 1
    <3>1. /\ ~(i <= Len(l)) /\ i <= Len(l) + Len(m) /\ ~(i <= Len(l) + Len(e))
          /\ i - Len(l) = 1 /\ i - Len(l) - Len(e) = 1
      BY <1>1, <1>3, <2>3
    <3> QED
      BY <1>1, <2>1, <3>1 DEF RowAt
  <2>4. CASE i > Len(l) + 1
    <3> DEFINE j == i - Len(l) - 1
    <3>1. /\ ~(i <= Len(l)) /\ ~(i <= Len(l) + Len(m)) /\ ~(i <= Len(l) + Len(e))
          /\ i - Len(l) - Len(m) = j /\ i - Len(l) - Len(e) = j + 1
          /\ j \in 1 .. Len(q) - 1
      BY <1>1, <1>3, <2>4
    <3> HIDE DEF j
    <3>2. w[i] = t[j] /\ v[i] = q[j + 1]
      BY <2>1, <3>1 DEF RowAt
    <3> QED
      BY <1>1, <3>1, <3>2
  <2> QED
    BY <1>3, <2>2, <2>3, <2>4
<1>5. w = v
  BY <1>3, <1>4, SeqEqual
<1> QED
  BY <1>5 DEF m, t, e, w, v

\* The packet in the slot is sent (again).
LEMMA RowSent ==
  ASSUME NEW l \in Seq(Packet), NEW p \in Packet, NEW q \in Seq(Packet)
  PROVE  \/ Row(Sent(l, p), <<p>>, q) = Row(l, <<p>>, q)
         \/ Twice(Row(l, <<p>>, q), Len(l) + 1, Row(Sent(l, p), <<p>>, q))
<1>1. CASE Sent(l, p) = l
  BY <1>1
<1>2. CASE Sent(l, p) = Append(l, p)
  <2> DEFINE m == <<p>>
             k == Append(l, p)
             w == Row(l, m, q)
             v == Row(k, m, q)
  <2>1. /\ m \in Seq(Packet) /\ Len(m) = 1 /\ m[1] = p
        /\ k \in Seq(Packet) /\ Len(k) = Len(l) + 1 /\ k[Len(l) + 1] = p
        /\ \A i \in 1 .. Len(l) : k[i] = l[i]
    OBVIOUS
  <2> HIDE DEF m, k
  <2>2. IsRow(w, l, m, q) /\ IsRow(v, k, m, q)
    BY <2>1, RowFacts
  <2> HIDE DEF w, v
  <2>3. /\ Len(l) \in Nat /\ Len(q) \in Nat
        /\ Len(w) = Len(l) + 1 + Len(q) /\ Len(v) = Len(l) + 1 + 1 + Len(q)
    BY <2>1, <2>2 DEF IsRow
  <2>4. w[Len(l) + 1] = p
    <3>1. /\ Len(l) + 1 \in 1 .. Len(w) /\ ~(Len(l) + 1 <= Len(l))
          /\ Len(l) + 1 <= Len(l) + Len(m) /\ Len(l) + 1 - Len(l) = 1
      BY <2>1, <2>3
    <3>2. w[Len(l) + 1] = RowAt(l, m, q, Len(l) + 1)
      BY <2>2, <3>1 DEF IsRow
    <3> QED
      BY <2>1, <3>1, <3>2 DEF RowAt
  <2>5. ASSUME NEW i \in 1 .. Len(l) + 1 PROVE v[i] = w[i]
    <3>1. i \in 1 .. Len(v) /\ i \in 1 .. Len(w) /\ i <= Len(k)
      BY <2>1, <2>3
    <3>2. v[i] = k[i] /\ w[i] = RowAt(l, m, q, i)
      BY <2>2, <3>1 DEF IsRow, RowAt
    <3>3. CASE i = Len(l) + 1
      BY <2>1, <2>4, <3>2, <3>3
    <3>4. CASE i # Len(l) + 1
      <4>1. i <= Len(l) /\ i \in 1 .. Len(l)
        BY <2>3, <3>4
      <4> QED
        BY <2>1, <3>2, <4>1 DEF RowAt
    <3> QED
      BY <3>3, <3>4
  <2>6. ASSUME NEW i \in Len(l) + 1 + 1 .. Len(w) + 1 PROVE v[i] = w[i - 1]
    <3>1. /\ i \in 1 .. Len(v) /\ i - 1 \in 1 .. Len(w)
          /\ ~(i <= Len(k)) /\ ~(i - 1 <= Len(l))
          /\ i <= Len(k) + Len(m) <=> i - 1 <= Len(l) + Len(m)
          /\ i - Len(k) = i - 1 - Len(l) /\ i - Len(k) - Len(m) = i - 1 - Len(l) - Len(m)
      BY <2>1, <2>3
    <3>2. v[i] = RowAt(k, m, q, i) /\ w[i - 1] = RowAt(l, m, q, i - 1)
      BY <2>2, <3>1 DEF IsRow
    <3>3. CASE i <= Len(k) + Len(m)
      <4>1. v[i] = m[i - Len(k)] /\ w[i - 1] = m[i - 1 - Len(l)]
        BY <3>1, <3>2, <3>3 DEF RowAt
      <4> QED
        BY <3>1, <4>1
    <3>4. CASE ~(i <= Len(k) + Len(m))
      <4>1. v[i] = q[i - Len(k) - Len(m)] /\ w[i - 1] = q[i - 1 - Len(l) - Len(m)]
        BY <3>1, <3>2, <3>4 DEF RowAt
      <4> QED
        BY <3>1, <4>1
    <3> QED
      BY <3>3, <3>4
  <2>7. Len(l) + 1 \in 1 .. Len(w) /\ Len(v) = Len(w) + 1
    BY <2>3
  <2>8. Twice(w, Len(l) + 1, v)
    BY <2>5, <2>6, <2>7 DEF Twice
  <2> QED
    BY <1>2, <2>8 DEF w, v, m, k
<1> QED
  BY <1>1, <1>2 DEF Sent

-----------------------------------------------------------------------------
(* Repetitions: what there is of a reading at each node *)

LEMMA TagsOne ==
  ASSUME NEW C, NEW D, NEW k \in Node, NEW d \in Nat,
         \A n \in Node : IsFiniteSet(C[n]) /\ IsFiniteSet(D[n]),
         \A n \in Node : n # k => D[n] = C[n],
         Cardinality(D[k]) <= Cardinality(C[k]) + d
  PROVE  Cardinality(Tagged(D)) <= Cardinality(Tagged(C)) + d
<1>1. /\ Cardinality(Tagged(D)) + Cardinality(C[k]) = Cardinality(Tagged(C)) + Cardinality(D[k])
      /\ Cardinality(Tagged(C)) \in Nat /\ Cardinality(Tagged(D)) \in Nat
      /\ Cardinality(C[k]) \in Nat /\ Cardinality(D[k]) \in Nat
  BY TagsChange
<1> QED
  BY <1>1

LEMMA TagsTwo ==
  ASSUME NEW C, NEW D, NEW k \in Node, NEW m \in Node, k # m, NEW d \in Nat,
         \A n \in Node : IsFiniteSet(C[n]) /\ IsFiniteSet(D[n]),
         \A n \in Node : n # k /\ n # m => D[n] = C[n],
         Cardinality(D[k]) + Cardinality(D[m]) <= Cardinality(C[k]) + Cardinality(C[m]) + d
  PROVE  Cardinality(Tagged(D)) <= Cardinality(Tagged(C)) + d
<1> DEFINE E == [n \in Node |-> IF n = k THEN D[n] ELSE C[n]]
<1>1. /\ E[k] = D[k] /\ E[m] = C[m]
      /\ \A n \in Node : IsFiniteSet(E[n])
      /\ \A n \in Node : n # k => E[n] = C[n]
      /\ \A n \in Node : n # m => D[n] = E[n]
  OBVIOUS
<1> HIDE DEF E
<1>2. /\ Cardinality(Tagged(E)) + Cardinality(C[k]) = Cardinality(Tagged(C)) + Cardinality(E[k])
      /\ Cardinality(Tagged(C)) \in Nat /\ Cardinality(Tagged(E)) \in Nat
      /\ Cardinality(C[k]) \in Nat /\ Cardinality(E[k]) \in Nat
  BY <1>1, TagsChange
<1>3. /\ Cardinality(Tagged(D)) + Cardinality(E[m]) = Cardinality(Tagged(E)) + Cardinality(D[m])
      /\ Cardinality(Tagged(D)) \in Nat
      /\ Cardinality(E[m]) \in Nat /\ Cardinality(D[m]) \in Nat
  BY <1>1, TagsChange
<1> QED
  BY <1>1, <1>2, <1>3

\* What n has in its slot.
Mid(n) == IF state[n] = "Forwarding" THEN <<pending[n]>> ELSE <<>>

LEMMA WayTypes ==
  ASSUME TypeInv, NEW n \in Node
  PROVE  /\ statusLink[n] \in Seq(Packet) /\ Mid(n) \in Seq(Packet) /\ outQueue[n] \in Seq(Packet)
         /\ OnTheWay(n) = Row(statusLink[n], Mid(n), outQueue[n])
         /\ OnTheWay(n) \in Seq(Packet) /\ flushed \in Seq(Packet)
<1>1. /\ statusLink[n] \in Seq(Packet) /\ outQueue[n] \in Seq(Packet) /\ flushed \in Seq(Packet)
      /\ state[n] = "Forwarding" => pending[n] \in Packet
  BY DEF TypeInv, TypeOK
<1>2. Mid(n) \in Seq(Packet)
  BY <1>1 DEF Mid
<1>3. OnTheWay(n) = Row(statusLink[n], Mid(n), outQueue[n])
  BY DEF OnTheWay, Mid, Row
<1> QED
  BY <1>1, <1>2, <1>3, RowType

LEMMA WayTypesNext ==
  ASSUME TypeInv', NEW n \in Node
  PROVE  OnTheWay(n)' \in Seq(Packet) /\ flushed' \in Seq(Packet)
<1>1. /\ statusLink'[n] \in Seq(Packet) /\ outQueue'[n] \in Seq(Packet) /\ flushed' \in Seq(Packet)
      /\ state'[n] = "Forwarding" => pending'[n] \in Packet
  BY DEF TypeInv, TypeOK
<1>2. Mid(n)' \in Seq(Packet)
  BY <1>1 DEF Mid
<1>3. OnTheWay(n)' = Row(statusLink'[n], Mid(n)', outQueue'[n])
  BY DEF OnTheWay, Mid, Row
<1> QED
  BY <1>1, <1>2, <1>3, RowType

LEMMA TimesFinite ==
  ASSUME NEW s \in Seq(Packet), NEW r
  PROVE  /\ IsFiniteSet({i \in DOMAIN s : s[i] = r})
         /\ Cardinality({i \in DOMAIN s : s[i] = r}) \in Nat
<1>1. {i \in DOMAIN s : s[i] = r} \in SUBSET (1 .. Len(s)) /\ IsFiniteSet(1 .. Len(s))
  BY FS_Interval
<1>2. IsFiniteSet({i \in DOMAIN s : s[i] = r})
  BY <1>1, FS_Subset
<1> QED
  BY <1>2, FS_CardinalityType

LEMMA TimesAppend ==
  ASSUME NEW s \in Seq(Packet), NEW x \in Packet, NEW r
  PROVE  Cardinality({i \in DOMAIN Append(s, x) : Append(s, x)[i] = r})
           <= Cardinality({i \in DOMAIN s : s[i] = r}) + (IF x = r THEN 1 ELSE 0)
<1> DEFINE S == {i \in DOMAIN s : s[i] = r}
           T == {i \in DOMAIN Append(s, x) : Append(s, x)[i] = r}
           n == Len(s) + 1
           c == Cardinality(S)
<1>1. IsFiniteSet(S) /\ c \in Nat
  BY TimesFinite
<1>2. \A i \in T : i \in S \/ (i = n /\ x = r)
  BY AppendIs
<1> HIDE DEF S, T
<1>3. CASE x = r
  <2>1. T \in SUBSET (S \cup {n})
    BY <1>2
  <2>2. IsFiniteSet(S \cup {n}) /\ Cardinality(S \cup {n}) = IF n \in S THEN c ELSE c + 1
    BY <1>1, FS_AddElement
  <2>3. Cardinality(T) <= Cardinality(S \cup {n}) /\ Cardinality(T) \in Nat
    BY <2>1, <2>2, FS_Subset, FS_CardinalityType
  <2> HIDE DEF c
  <2>4. Cardinality(T) <= c + 1
    BY <1>1, <2>2, <2>3
  <2> QED
    BY <1>3, <2>4 DEF S, T, c
<1>4. CASE x # r
  <2>1. T \in SUBSET S
    BY <1>2, <1>4
  <2>2. Cardinality(T) <= c
    BY <1>1, <2>1, FS_Subset
  <2> HIDE DEF c
  <2>3. Cardinality(T) <= c + 0
    BY <1>1, <2>2
  <2> QED
    BY <1>4, <2>3 DEF S, T, c
<1> QED
  BY <1>3, <1>4

LEMMA Ends == Gateway \in Node /\ Relay \subseteq Node /\ \A n \in Relay : n # Gateway
BY ChainAssumption DEF Relay, Node, Gateway

LEMMA CopiesAre ==
  ASSUME TypeInv, NEW r
  PROVE  /\ \A n \in Node : IsFiniteSet(Copies(r)[n]) /\ Cardinality(Copies(r)[n]) \in Nat
         /\ Copies(r)[Gateway] = {i \in DOMAIN flushed : flushed[i] = r}
         /\ \A n \in Relay : Copies(r)[n] = Starts(lastAccepted[NextId(n)], OnTheWay(n), r)
<1>1. /\ Copies(r)[Gateway] = {i \in DOMAIN flushed : flushed[i] = r}
      /\ \A n \in Relay : Copies(r)[n] = Starts(lastAccepted[NextId(n)], OnTheWay(n), r)
  BY Ends DEF Copies
<1>2. ASSUME NEW n \in Node PROVE IsFiniteSet(Copies(r)[n]) /\ Cardinality(Copies(r)[n]) \in Nat
  <2>1. CASE n = Gateway
    <3>1. flushed \in Seq(Packet)
      BY WayTypes
    <3> QED
      BY <1>1, <2>1, <3>1, TimesFinite
  <2>2. CASE n # Gateway
    <3>1. n \in Relay /\ OnTheWay(n) \in Seq(Packet)
      BY <2>2, WayTypes DEF Relay
    <3> QED
      BY <1>1, <3>1, StartsFinite
  <2> QED
    BY <2>1, <2>2
<1> QED
  BY <1>1, <1>2

LEMMA CopiesNext ==
  ASSUME TypeInv', NEW r
  PROVE  /\ \A n \in Node : IsFiniteSet(Copies(r)'[n]) /\ Cardinality(Copies(r)'[n]) \in Nat
         /\ Copies(r)'[Gateway] = {i \in DOMAIN flushed' : flushed'[i] = r}
         /\ \A n \in Relay : Copies(r)'[n] = Starts(lastAccepted'[NextId(n)], OnTheWay(n)', r)
<1>1. /\ Copies(r)'[Gateway] = {i \in DOMAIN flushed' : flushed'[i] = r}
      /\ \A n \in Relay : Copies(r)'[n] = Starts(lastAccepted'[NextId(n)], OnTheWay(n)', r)
  BY Ends DEF Copies
<1>2. ASSUME NEW n \in Node PROVE IsFiniteSet(Copies(r)'[n]) /\ Cardinality(Copies(r)'[n]) \in Nat
  <2>1. CASE n = Gateway
    <3>1. flushed' \in Seq(Packet)
      BY WayTypesNext
    <3> QED
      BY <1>1, <2>1, <3>1, TimesFinite
  <2>2. CASE n # Gateway
    <3>1. n \in Relay /\ OnTheWay(n)' \in Seq(Packet)
      BY <2>2, WayTypesNext DEF Relay
    <3> QED
      BY <1>1, <3>1, StartsFinite
  <2> QED
    BY <2>1, <2>2
<1> QED
  BY <1>1, <1>2

\* There are at most d copies more of r.
Grows(r, d) == Cardinality(Tagged(Copies(r))') <= Cardinality(Tagged(Copies(r))) + d

\* A step that changes what is on its way from k only.
LEMMA WayGrows ==
  ASSUME TypeInv, TypeInv', NEW r, NEW k \in Relay, NEW d \in Nat, flushed' = flushed,
         \A n \in Relay : /\ lastAccepted'[NextId(n)] = lastAccepted[NextId(n)]
                          /\ n # k => OnTheWay(n)' = OnTheWay(n),
         Cardinality(Starts(lastAccepted[NextId(k)], OnTheWay(k)', r))
           <= Cardinality(Starts(lastAccepted[NextId(k)], OnTheWay(k), r)) + d
  PROVE  Grows(r, d)
<1> DEFINE C == Copies(r)
           D == Copies(r)'
<1>1. \A n \in Node : IsFiniteSet(C[n]) /\ IsFiniteSet(D[n])
  BY CopiesAre, CopiesNext
<1>2. ASSUME NEW n \in Node, n # k PROVE D[n] = C[n]
  <2>1. CASE n = Gateway
    <3>1. /\ C[Gateway] = {i \in DOMAIN flushed : flushed[i] = r}
          /\ D[Gateway] = {i \in DOMAIN flushed' : flushed'[i] = r}
      BY CopiesAre, CopiesNext
    <3> HIDE DEF C, D
    <3> QED
      BY <2>1, <3>1
  <2>2. CASE n # Gateway
    BY <1>2, <2>2, CopiesAre, CopiesNext DEF Relay
  <2> QED
    BY <2>1, <2>2
<1>3. Cardinality(D[k]) <= Cardinality(C[k]) + d
  BY CopiesAre, CopiesNext
<1>4. k \in Node
  BY RelayFacts
<1>5. Tagged(D) = Tagged(Copies(r))'
  BY DEF Tagged
<1> HIDE DEF C, D
<1>6. Cardinality(Tagged(D)) <= Cardinality(Tagged(C)) + d
  BY <1>1, <1>2, <1>3, <1>4, TagsOne
<1> QED
  BY <1>5, <1>6 DEF Grows, C, D

\* A step that changes nothing on the way.
LEMMA WaySame ==
  ASSUME TypeInv, TypeInv', NEW r, flushed' = flushed,
         \A n \in Relay : /\ lastAccepted'[NextId(n)] = lastAccepted[NextId(n)]
                          /\ OnTheWay(n)' = OnTheWay(n)
  PROVE  Tagged(Copies(r))' = Tagged(Copies(r))
<1> DEFINE C == Copies(r)
           D == Copies(r)'
<1>2. ASSUME NEW n \in Node PROVE C[n] = D[n]
  <2>1. CASE n = Gateway
    <3>1. /\ C[Gateway] = {i \in DOMAIN flushed : flushed[i] = r}
          /\ D[Gateway] = {i \in DOMAIN flushed' : flushed'[i] = r}
      BY CopiesAre, CopiesNext
    <3> HIDE DEF C, D
    <3> QED
      BY <2>1, <3>1
  <2>2. CASE n # Gateway
    BY <2>2, CopiesAre, CopiesNext DEF Relay
  <2> QED
    BY <2>1, <2>2
<1>5. Tagged(D) = Tagged(Copies(r))'
  BY DEF Tagged
<1> HIDE DEF C, D
<1>6. Tagged(C) = Tagged(D)
  BY <1>2, SameTags
<1> QED
  BY <1>5, <1>6 DEF C, D

LEMMA CountsAre ==
  ASSUME TypeInv, TypeInv', NEW r
  PROVE  Cardinality(Tagged(Copies(r))) \in Nat /\ Cardinality(Tagged(Copies(r))') \in Nat
<1> DEFINE C == Copies(r)
           D == Copies(r)'
<1>1. \A n \in Node : IsFiniteSet(C[n]) /\ IsFiniteSet(D[n])
  BY CopiesAre, CopiesNext
<1>5. Tagged(D) = Tagged(Copies(r))'
  BY DEF Tagged
<1> HIDE DEF C, D
<1>2. IsFiniteSet(Tagged(C)) /\ IsFiniteSet(Tagged(D))
  BY <1>1, FiniteTags
<1> QED
  BY <1>2, <1>5, FS_CardinalityType DEF C, D

LEMMA WaySent ==
  ASSUME NEW l \in Seq(Packet), NEW p \in Packet, NEW q \in Seq(Packet), NEW last, NEW r
  PROVE  Cardinality(Starts(last, Row(Sent(l, p), <<p>>, q), r))
           <= Cardinality(Starts(last, Row(l, <<p>>, q), r))
<1> DEFINE w == Row(l, <<p>>, q)
           v == Row(Sent(l, p), <<p>>, q)
<1>1. <<p>> \in Seq(Packet) /\ Sent(l, p) \in Seq(Packet)
  BY SentType
<1>2. w \in Seq(Packet) /\ v \in Seq(Packet)
  BY <1>1, RowType
<1>3. v = w \/ Twice(w, Len(l) + 1, v)
  BY RowSent
<1> HIDE DEF w, v
<1>4. Cardinality(Starts(last, v, r)) <= Cardinality(Starts(last, w, r))
  <2>1. CASE v = w
    BY <1>2, <2>1, StartsFinite
  <2>2. CASE Twice(w, Len(l) + 1, v)
    BY <1>2, <2>2, StartsTwice
  <2> QED
    BY <1>3, <2>1, <2>2
<1> QED
  BY <1>4 DEF w, v

LEMMA WayOriginates ==
  ASSUME TypeInv, NEW n \in Node, NEW localDue \in BOOLEAN,
         NEW l \in Seq(Packet), NEW m \in Seq(Packet), NEW last, NEW r
  PROVE  /\ QueueAfter(n, localDue) \in Seq(Packet)
         /\ Cardinality(Starts(last, Row(l, m, QueueAfter(n, localDue)), r))
              <= Cardinality(Starts(last, Row(l, m, outQueue[n]), r))
                   + (IF Reading(n) = r THEN 1 ELSE 0)
<1> SUFFICES ASSUME NEW x, x = Reading(n), NEW q, q = outQueue[n]
             PROVE  /\ QueueAfter(n, localDue) \in Seq(Packet)
                    /\ Cardinality(Starts(last, Row(l, m, QueueAfter(n, localDue)), r))
                         <= Cardinality(Starts(last, Row(l, m, q), r)) + (IF x = r THEN 1 ELSE 0)
  OBVIOUS
<1>1. q \in Seq(Packet) /\ x \in Packet
  BY DEF TypeInv, TypeOK, Reading, Packet
<1>2. QueueAfter(n, localDue) = q \/ QueueAfter(n, localDue) = Append(q, x)
  BY DEF QueueAfter
<1> DEFINE w == Row(l, m, q)
<1>3. w \in Seq(Packet) /\ Row(l, m, Append(q, x)) = Append(w, x)
  <2>1. w \in Seq(Packet)
    BY <1>1, RowType
  <2>2. Row(l, m, Append(q, x)) = Append(Row(l, m, q), x)
    BY <1>1, RowAppend, ZenonT(20)
  <2> QED
    BY <2>1, <2>2
<1> HIDE DEF w
<1>4. Cardinality(Starts(last, w, r)) \in Nat
  BY <1>3, StartsFinite
<1>5. Cardinality(Starts(last, Append(w, x), r))
        <= Cardinality(Starts(last, w, r)) + (IF x = r THEN 1 ELSE 0)
  BY <1>1, <1>3, StartsAppend
<1>6. CASE QueueAfter(n, localDue) = q
  BY <1>1, <1>4, <1>6 DEF w
<1>7. CASE QueueAfter(n, localDue) = Append(q, x)
  <2>1. Append(q, x) \in Seq(Packet)
    BY <1>1
  <2> QED
    BY <1>3, <1>5, <1>7, <2>1 DEF w
<1> QED
  BY <1>2, <1>6, <1>7

\* What is on its way is carried.
LEMMA WayCarried ==
  ASSUME TypeInv, NEW n \in Node, NEW i \in DOMAIN OnTheWay(n)
  PROVE  OnTheWay(n)[i] \in Carried(n)
<1> DEFINE l == statusLink[n]
           m == Mid(n)
           q == outQueue[n]
           w == OnTheWay(n)
<1>1. /\ l \in Seq(Packet) /\ m \in Seq(Packet) /\ q \in Seq(Packet) /\ w = Row(l, m, q)
  BY WayTypes
<1>2. \A j \in DOMAIN m : m[j] \in Slot(n)
  <2>1. state[n] = "Forwarding" => pending[n] \in Slot(n)
    BY NoPacketIsNone DEF TypeInv, Slot
  <2> QED
    BY <2>1 DEF Mid
<1>3. /\ \A j \in DOMAIN l : l[j] \in Carried(n)
      /\ \A j \in DOMAIN m : m[j] \in Carried(n)
      /\ \A j \in DOMAIN q : q[j] \in Carried(n)
  BY <1>2 DEF Carried, Readings
<1> HIDE DEF l, m, q, w
<1>4. i \in DOMAIN w
  BY DEF w
<1>5. i \in DOMAIN Row(l, m, q)
  BY <1>1, <1>4
<1>6. w[i] \in Carried(n)
  BY <1>1, <1>3, <1>5, RowParts
<1> QED
  BY <1>6 DEF w

\* There is nothing yet of a reading that has not been produced.
LEMMA NoneBefore ==
  ASSUME TypeInv, OrderInv, NEW n \in Node
  PROVE  Cardinality(Tagged(Copies(Reading(n)))) = 0
<1> SUFFICES ASSUME NEW x, x = Reading(n)
             PROVE  Cardinality(Tagged(Copies(x))) = 0
  OBVIOUS
<1>1. ~Produced(x)
  BY DEF TypeInv, TypeOK, Produced, Reading
<1>2. ASSUME NEW k \in Node PROVE Copies(x)[k] = {}
  <2>1. CASE k = Gateway
    <3>1. \A i \in DOMAIN flushed : flushed[i] # x
      BY <1>1 DEF OrderInv, Readings
    <3> QED
      BY <2>1, <3>1, CopiesAre
  <2>2. CASE k # Gateway
    <3>1. k \in Relay
      BY <2>2 DEF Relay
    <3>2. \A i \in DOMAIN OnTheWay(k) : OnTheWay(k)[i] # x
      BY <1>1, <3>1, WayCarried DEF OrderInv
    <3> QED
      BY <3>1, <3>2, CopiesAre DEF Starts
  <2> QED
    BY <2>1, <2>2
<1> QED
  BY <1>2, NoTags

-----------------------------------------------------------------------------
(* Repetitions: what the steps do *)

\* A packet leaves its link and changes nothing at its receiver.
LEMMA RepeatsLoses ==
  ASSUME TypeInv, TypeInv', OrderInv, NEW r, NEW k \in Node, statusLink[k] # <<>>,
         statusLink' = [statusLink EXCEPT ![k] = Tail(@)], UNCHANGED <<ram, flushed>>
  PROVE  Grows(r, 0)
<1>1. /\ k \in Relay
      /\ statusLink'[k] = Tail(statusLink[k])
      /\ \A n \in Node : n # k => statusLink'[n] = statusLink[n]
      /\ \A n \in Node : Mid(n)' = Mid(n) /\ outQueue'[n] = outQueue[n]
      /\ lastAccepted' = lastAccepted
  BY DEF OrderInv, Relay, TypeInv, TypeOK, ram, Mid
<1>2. \A n \in Relay : n # k => OnTheWay(n)' = OnTheWay(n)
  <2> TAKE n \in Relay
  <2> HAVE n # k
  <2>1. state'[n] = state[n] /\ pending'[n] = pending[n]
    BY DEF ram
  <2> QED
    BY <1>1, <2>1, Ends DEF OnTheWay
<1> DEFINE l == statusLink[k]
           m == Mid(k)
           q == outQueue[k]
           v == OnTheWay(k)'
<1>3. /\ l \in Seq(Packet) /\ m \in Seq(Packet) /\ q \in Seq(Packet)
      /\ OnTheWay(k) = Row(l, m, q) /\ OnTheWay(k) \in Seq(Packet)
      /\ v \in Seq(Packet)
  BY WayTypes, WayTypesNext
<1>4. v = Row(Tail(l), m, q)
  BY <1>1 DEF OnTheWay, Mid, Row
<1> HIDE DEF m, q, v
<1>5. Without(OnTheWay(k), 1, v)
  BY <1>3, <1>4, RowTail
<1> DEFINE w == OnTheWay(k)
           last == lastAccepted[NextId(k)]
<1>8. w \in Seq(Packet) /\ Without(w, 1, v)
  BY <1>3, <1>5
<1> HIDE DEF w, last
<1>6. Cardinality(Starts(last, v, r)) <= Cardinality(Starts(last, w, r))
  BY <1>3, <1>8, StartsWithout
<1>7. Cardinality(Starts(last, v, r)) <= Cardinality(Starts(last, w, r)) + 0
  BY <1>3, <1>6, <1>8, StartsFinite
<1> QED
  BY <1>1, <1>2, <1>7, WayGrows DEF v, w, last

LEMMA RepeatsHello ==
  ASSUME TypeInv, TypeInv', NEW r, NEW n \in Node, NEW m \in Node, HandleHello(n, m)
  PROVE  Grows(r, 0)
<1>1. UNCHANGED <<statusLink, pending, outQueue, lastAccepted, flushed>>
  BY DEF HandleHello, history
<1>2. \A k \in Node : (state'[k] = "Forwarding") <=> (state[k] = "Forwarding")
  BY DEF HandleHello, TypeInv, TypeOK
<1>3. \A k \in Relay : OnTheWay(k)' = OnTheWay(k)
  BY <1>1, <1>2, Ends DEF OnTheWay
<1>4. Tagged(Copies(r))' = Tagged(Copies(r))
  BY <1>1, <1>3, WaySame
<1> QED
  BY <1>4, CountsAre DEF Grows

\* The slot is given up, or not.
LEMMA RepeatsAck ==
  ASSUME TypeInv, TypeInv', NEW r, NEW k \in Node, HandleAck(k)
  PROVE  Grows(r, 0)
<1>1. UNCHANGED <<statusLink, pending, outQueue, lastAccepted, flushed>>
  BY DEF HandleAck, history
<1>2. /\ \A n \in Node : n # k => state'[n] = state[n]
      /\ state'[k] = state[k] \/ (state[k] = "Forwarding" /\ state'[k] = "Idle")
  BY DEF HandleAck, TypeInv, TypeOK
<1>3. \A n \in Relay : n # k \/ state'[n] = state[n] => OnTheWay(n)' = OnTheWay(n)
  BY <1>1, <1>2, Ends DEF OnTheWay
<1>4. CASE k = Gateway \/ state'[k] = state[k]
  <2>1. Tagged(Copies(r))' = Tagged(Copies(r))
    BY <1>1, <1>3, <1>4, Ends, WaySame
  <2> QED
    BY <2>1, CountsAre DEF Grows
<1>5. CASE k # Gateway /\ state[k] = "Forwarding" /\ state'[k] = "Idle"
  <2>1. k \in Relay
    BY <1>5 DEF Relay
  <2> DEFINE l == statusLink[k]
             p == pending[k]
             q == outQueue[k]
             w == OnTheWay(k)
             v == OnTheWay(k)'
             last == lastAccepted[NextId(k)]
  <2>2. /\ l \in Seq(Packet) /\ q \in Seq(Packet) /\ p \in Packet
        /\ w \in Seq(Packet) /\ v \in Seq(Packet)
    BY <1>5, WayTypes, WayTypesNext DEF TypeInv
  <2>3. w = Row(l, <<p>>, q) /\ v = Row(l, <<>>, q)
    BY <1>1, <1>5 DEF OnTheWay, Row
  <2> HIDE DEF l, p, q, w, v, last
  <2>4. Without(w, Len(l) + 1, v)
    BY <2>2, <2>3, RowFreed
  <2>5. Cardinality(Starts(last, v, r)) <= Cardinality(Starts(last, w, r))
    BY <2>2, <2>4, StartsWithout
  <2>6. Cardinality(Starts(last, v, r)) <= Cardinality(Starts(last, w, r)) + 0
    BY <2>2, <2>5, StartsFinite
  <2> QED
    BY <1>1, <1>3, <2>1, <2>6, WayGrows DEF v, w, last
<1> QED
  BY <1>2, <1>4, <1>5

\* A packet is accepted: what its receiver gains, its sender's way loses.
LEMMA WayAccepted ==
  ASSUME TypeInv, TypeInv', OrderInv, NEW r, NEW n \in Node, TakeStatus(n),
         prevKnown[n], ~IsDuplicate(n), n # PrevId(n),
         lastAccepted' = [lastAccepted EXCEPT ![n] = Arriving(n)],
         UNCHANGED <<state, pending>>, outQueue'[PrevId(n)] = outQueue[PrevId(n)]
  PROVE  /\ PrevId(n) \in Relay /\ NextId(PrevId(n)) = n
         /\ \A k \in Relay : k # PrevId(n) => lastAccepted'[NextId(k)] = lastAccepted[NextId(k)]
         /\ Cardinality(Starts(lastAccepted'[NextId(PrevId(n))], OnTheWay(PrevId(n))', r))
              + (IF Arriving(n) = r THEN 1 ELSE 0)
              <= Cardinality(Starts(lastAccepted[NextId(PrevId(n))], OnTheWay(PrevId(n)), r))
<1> DEFINE k == PrevId(n)
           x == Arriving(n)
           l == statusLink[k]
           m == Mid(k)
           q == outQueue[k]
           w == OnTheWay(k)
           v == OnTheWay(k)'
           last == lastAccepted[n]
<1>1. k \in Relay /\ k \in Node /\ NextId(k) = n /\ statusLink'[k] = Tail(l) /\ l # <<>>
      /\ x = Head(l)
  BY RingFacts, OrderTakes DEF TakeStatus, Arriving
<1>2. lastAccepted'[n] = x /\ \A j \in Node : j # n => lastAccepted'[j] = lastAccepted[j]
  BY DEF TypeInv, TypeOK
<1>3. \A j \in Relay : j # k => NextId(j) # n
  BY RingFacts, RelayFacts
<1>4. last # x
  <2>1. last \in Packet \cup {NoPacket} /\ x \in Packet
    BY OrderTakes DEF TypeInv, TypeOK
  <2>2. x # NoPacket
    BY <2>1, NoPacketIsNone
  <2> QED
    BY <2>2 DEF IsDuplicate
<1>5. /\ l \in Seq(Packet) /\ m \in Seq(Packet) /\ q \in Seq(Packet)
      /\ w = Row(l, m, q) /\ w \in Seq(Packet) /\ v \in Seq(Packet)
  BY <1>1, WayTypes, WayTypesNext
<1>6. v = Row(Tail(l), m, q)
  BY <1>1 DEF OnTheWay, Mid, Row
<1>7. \A j \in Relay : NextId(j) \in Node
  BY RelayFacts
<1>8. \A j \in Relay : j # k => lastAccepted'[NextId(j)] = lastAccepted[NextId(j)]
  BY <1>2, <1>3, <1>7
<1> HIDE DEF k, x, l, m, q, w, v, last
<1>9. w # <<>> /\ Head(w) = x /\ Tail(w) = v
  <2>1. /\ Row(l, m, q) # <<>> /\ Head(Row(l, m, q)) = Head(l)
        /\ Tail(Row(l, m, q)) = Row(Tail(l), m, q)
    <3>1. l \in Seq(Packet) /\ m \in Seq(Packet) /\ q \in Seq(Packet) /\ l # <<>>
      BY <1>1, <1>5
    <3> QED
      BY <3>1, RowTail
  <2>2. w = Row(l, m, q) /\ x = Head(l)
    BY <1>1, <1>5
  <2> QED
    BY <1>6, <2>1, <2>2
<1>10. Cardinality(Starts(x, v, r)) + (IF x = r THEN 1 ELSE 0) <= Cardinality(Starts(last, w, r))
  BY <1>4, <1>5, <1>9, StartsAccepted
<1>11. lastAccepted'[NextId(k)] = x /\ lastAccepted[NextId(k)] = last
  BY <1>1, <1>2 DEF last
<1>12. Cardinality(Starts(lastAccepted'[NextId(k)], v, r)) + (IF x = r THEN 1 ELSE 0)
         <= Cardinality(Starts(lastAccepted[NextId(k)], w, r))
  BY <1>10, <1>11
<1> QED
  BY <1>1, <1>8, <1>12 DEF k, x, v, w

LEMMA RepeatsSink ==
  ASSUME TypeInv, TypeInv', OrderInv, NEW r, NEW n \in Node, SinkStatus(n)
  PROVE  Grows(r, 0)
<1> DEFINE k == PrevId(n)
           x == Arriving(n)
           C == Copies(r)
           D == Copies(r)'
<1>1. /\ TakeStatus(n) /\ prevKnown[n] /\ ~IsDuplicate(n) /\ n = Gateway
      /\ lastAccepted' = [lastAccepted EXCEPT ![n] = x]
      /\ flushed' = Append(flushed, x)
      /\ UNCHANGED <<state, pending, outQueue>>
  BY DEF SinkStatus
<1>2. k \in Relay /\ x \in Packet /\ \A j \in Node : j # k => statusLink'[j] = statusLink[j]
  BY <1>1, OrderTakes
<1>3. n # k
  BY <1>1, <1>2, Ends
<1>4. /\ \A j \in Relay : j # k => lastAccepted'[NextId(j)] = lastAccepted[NextId(j)]
      /\ Cardinality(Starts(lastAccepted'[NextId(k)], OnTheWay(k)', r))
           + (IF x = r THEN 1 ELSE 0)
           <= Cardinality(Starts(lastAccepted[NextId(k)], OnTheWay(k), r))
  BY <1>1, <1>3, WayAccepted
<1> HIDE DEF k, x
<1>5. \A j \in Relay : j # k => OnTheWay(j)' = OnTheWay(j)
  BY <1>1, <1>2, Ends DEF OnTheWay
<1>6. /\ \A j \in Node : IsFiniteSet(C[j]) /\ IsFiniteSet(D[j])
      /\ \A j \in Node : Cardinality(C[j]) \in Nat /\ Cardinality(D[j]) \in Nat
  BY CopiesAre, CopiesNext
<1>7. ASSUME NEW j \in Node, j # Gateway, j # k PROVE D[j] = C[j]
  <2>1. j \in Relay
    BY <1>7 DEF Relay
  <2> QED
    BY <1>4, <1>5, <1>7, <2>1, CopiesAre, CopiesNext
<1>8. Cardinality(D[Gateway]) <= Cardinality(C[Gateway]) + (IF x = r THEN 1 ELSE 0)
  <2>1. /\ C[Gateway] = {i \in DOMAIN flushed : flushed[i] = r}
        /\ D[Gateway] = {i \in DOMAIN flushed' : flushed'[i] = r}
    BY CopiesAre, CopiesNext
  <2>2. flushed \in Seq(Packet)
    BY <1>2, Ends, WayTypes
  <2>3. Cardinality({i \in DOMAIN Append(flushed, x) : Append(flushed, x)[i] = r})
          <= Cardinality({i \in DOMAIN flushed : flushed[i] = r}) + (IF x = r THEN 1 ELSE 0)
    BY <1>2, <2>2, TimesAppend
  <2> HIDE DEF C, D
  <2> QED
    BY <1>1, <2>1, <2>3
<1>9. Cardinality(D[k]) + (IF x = r THEN 1 ELSE 0) <= Cardinality(C[k])
  BY <1>2, <1>4, CopiesAre, CopiesNext
<1>10. Tagged(D) = Tagged(Copies(r))'
  BY DEF Tagged
<1> HIDE DEF C, D
<1>11. k \in Node /\ Gateway \in Node /\ Gateway # k
  BY <1>2, Ends
<1>12. Cardinality(D[Gateway]) + Cardinality(D[k])
         <= Cardinality(C[Gateway]) + Cardinality(C[k]) + 0
  BY <1>6, <1>8, <1>9, <1>11
<1>13. Cardinality(Tagged(D)) <= Cardinality(Tagged(C)) + 0
  BY <1>6, <1>7, <1>11, <1>12, TagsTwo
<1> QED
  BY <1>10, <1>13 DEF Grows, C, D

LEMMA RepeatsQueue ==
  ASSUME TypeInv, TypeInv', OrderInv, NEW r, NEW n \in Node, QueueStatus(n)
  PROVE  Grows(r, 0)
<1> DEFINE k == PrevId(n)
           x == Arriving(n)
           C == Copies(r)
           D == Copies(r)'
<1>1. /\ TakeStatus(n) /\ prevKnown[n] /\ ~IsDuplicate(n) /\ n # Gateway
      /\ lastAccepted' = [lastAccepted EXCEPT ![n] = x]
      /\ outQueue' = [outQueue EXCEPT ![n] = Append(@, x)]
      /\ UNCHANGED <<state, pending, flushed>>
  BY DEF QueueStatus, history
<1>2. /\ k \in Relay /\ n \in Relay /\ k < n /\ x \in Packet
      /\ \A j \in Node : j # k => statusLink'[j] = statusLink[j]
  BY <1>1, OrderTakes
<1>3. k \in Node /\ n # k /\ outQueue'[n] = Append(outQueue[n], x)
      /\ \A j \in Node : j # n => outQueue'[j] = outQueue[j]
  <2> HIDE DEF k, x
  <2>1. k \in Node /\ n # k
    BY <1>2, RelayFacts
  <2>2. outQueue \in [Node -> Seq(Packet)]
    BY DEF TypeInv, TypeOK
  <2> QED
    BY <1>1, <2>1, <2>2
<1>4. /\ \A j \in Relay : j # k => lastAccepted'[NextId(j)] = lastAccepted[NextId(j)]
      /\ Cardinality(Starts(lastAccepted'[NextId(k)], OnTheWay(k)', r))
           + (IF x = r THEN 1 ELSE 0)
           <= Cardinality(Starts(lastAccepted[NextId(k)], OnTheWay(k), r))
  BY <1>1, <1>3, WayAccepted
<1> HIDE DEF k, x
<1>5. \A j \in Relay : j # k /\ j # n => OnTheWay(j)' = OnTheWay(j)
  BY <1>1, <1>2, <1>3, Ends DEF OnTheWay
<1>6. /\ \A j \in Node : IsFiniteSet(C[j]) /\ IsFiniteSet(D[j])
      /\ \A j \in Node : Cardinality(C[j]) \in Nat /\ Cardinality(D[j]) \in Nat
  BY CopiesAre, CopiesNext
<1>7. ASSUME NEW j \in Node, j # k, j # n PROVE D[j] = C[j]
  <2>1. CASE j = Gateway
    <3>1. /\ C[Gateway] = {i \in DOMAIN flushed : flushed[i] = r}
          /\ D[Gateway] = {i \in DOMAIN flushed' : flushed'[i] = r}
      BY CopiesAre, CopiesNext
    <3> HIDE DEF C, D
    <3> QED
      BY <1>1, <2>1, <3>1
  <2>2. CASE j # Gateway
    <3>1. j \in Relay
      BY <2>2 DEF Relay
    <3> QED
      BY <1>4, <1>5, <1>7, <3>1, CopiesAre, CopiesNext
  <2> QED
    BY <2>1, <2>2
<1>8. Cardinality(D[n]) <= Cardinality(C[n]) + (IF x = r THEN 1 ELSE 0)
  <2> DEFINE last == lastAccepted[NextId(n)]
             l == statusLink[n]
             m == Mid(n)
             q == outQueue[n]
             w == OnTheWay(n)
             v == OnTheWay(n)'
  <2>1. C[n] = Starts(last, w, r) /\ D[n] = Starts(last, v, r)
    BY <1>2, <1>3, <1>4, CopiesAre, CopiesNext
  <2>2. /\ l \in Seq(Packet) /\ m \in Seq(Packet) /\ q \in Seq(Packet)
        /\ w = Row(l, m, q) /\ w \in Seq(Packet)
    BY WayTypes
  <2>3. v = Row(l, m, Append(q, x))
    BY <1>1, <1>2, <1>3 DEF OnTheWay, Mid, Row
  <2> HIDE DEF w, v, l, m, q, last, C, D
  <2>4. v = Append(w, x)
    <3>1. x \in Packet
      BY <1>2
    <3>2. l \in Seq(Packet) /\ m \in Seq(Packet) /\ q \in Seq(Packet)
      BY <2>2
    <3>3. Row(l, m, Append(q, x)) = Append(Row(l, m, q), x)
      BY <3>1, <3>2, RowAppend, ZenonT(20)
    <3> QED
      BY <2>2, <2>3, <3>3
  <2>5. Cardinality(Starts(last, Append(w, x), r))
          <= Cardinality(Starts(last, w, r)) + (IF x = r THEN 1 ELSE 0)
    BY <1>2, <2>2, StartsAppend
  <2> QED
    BY <2>1, <2>4, <2>5
<1>9. Cardinality(D[k]) + (IF x = r THEN 1 ELSE 0) <= Cardinality(C[k])
  BY <1>2, <1>4, CopiesAre, CopiesNext
<1>10. Tagged(D) = Tagged(Copies(r))'
  BY DEF Tagged
<1> HIDE DEF C, D
<1>12. Cardinality(D[n]) + Cardinality(D[k]) <= Cardinality(C[n]) + Cardinality(C[k]) + 0
  BY <1>3, <1>6, <1>8, <1>9
<1>13. Cardinality(Tagged(D)) <= Cardinality(Tagged(C)) + 0
  BY <1>3, <1>6, <1>7, <1>12, TagsTwo
<1> QED
  BY <1>10, <1>13 DEF Grows, C, D

LEMMA RepeatsGateway ==
  ASSUME TypeInv, TypeInv', NEW r, NEW n \in Node, LoopGateway(n)
  PROVE  Grows(r, IF Reading(n) = r THEN 1 ELSE 0)
<1> SUFFICES ASSUME NEW x, x = Reading(n)
             PROVE  Grows(r, IF x = r THEN 1 ELSE 0)
  OBVIOUS
<1> DEFINE C == Copies(r)
           D == Copies(r)'
<1>1. /\ n = Gateway /\ flushed' = Append(flushed, x) /\ x \in Packet
      /\ UNCHANGED <<state, pending, outQueue, statusLink, lastAccepted>>
  BY DEF LoopGateway, TypeInv, TypeOK, Reading, Packet
<1>2. \A j \in Relay : OnTheWay(j)' = OnTheWay(j)
  BY <1>1 DEF OnTheWay
<1>6. \A j \in Node : IsFiniteSet(C[j]) /\ IsFiniteSet(D[j])
  BY CopiesAre, CopiesNext
<1>7. ASSUME NEW j \in Node, j # Gateway PROVE D[j] = C[j]
  <2>1. j \in Relay
    BY <1>7 DEF Relay
  <2> QED
    BY <1>1, <1>2, <1>7, <2>1, CopiesAre, CopiesNext
<1>8. Cardinality(D[Gateway]) <= Cardinality(C[Gateway]) + (IF x = r THEN 1 ELSE 0)
  <2>1. /\ C[Gateway] = {i \in DOMAIN flushed : flushed[i] = r}
        /\ D[Gateway] = {i \in DOMAIN flushed' : flushed'[i] = r}
    BY CopiesAre, CopiesNext
  <2>2. flushed \in Seq(Packet)
    BY WayTypes
  <2>3. Cardinality({i \in DOMAIN Append(flushed, x) : Append(flushed, x)[i] = r})
          <= Cardinality({i \in DOMAIN flushed : flushed[i] = r}) + (IF x = r THEN 1 ELSE 0)
    BY <1>1, <2>2, TimesAppend
  <2> HIDE DEF C, D
  <2> QED
    BY <1>1, <2>1, <2>3
<1>10. Tagged(D) = Tagged(Copies(r))'
  BY DEF Tagged
<1> DEFINE d == IF x = r THEN 1 ELSE 0
<1>11. d \in Nat /\ Gateway \in Node
  BY Ends
<1> HIDE DEF C, D
<1>12. Cardinality(D[Gateway]) <= Cardinality(C[Gateway]) + d
  BY <1>8
<1> HIDE DEF d
<1>13. Cardinality(Tagged(D)) <= Cardinality(Tagged(C)) + d
  BY <1>6, <1>7, <1>11, <1>12, TagsOne
<1> QED
  BY <1>10, <1>13 DEF Grows, C, D, d

\* A pass of loop() while a packet waits for its ACK.
LEMMA RepeatsForwarding ==
  ASSUME TypeInv, TypeInv', NEW r, NEW n \in Node,
         NEW localDue \in BOOLEAN, NEW ackDue \in BOOLEAN, LoopForwarding(n, localDue, ackDue)
  PROVE  Grows(r, IF Reading(n) = r THEN 1 ELSE 0)
<1> DEFINE d == IF Reading(n) = r THEN 1 ELSE 0
           l == statusLink[n]
           p == pending[n]
           a == QueueAfter(n, localDue)
           w == OnTheWay(n)
           v == OnTheWay(n)'
           k == statusLink'[n]
           last == lastAccepted[NextId(n)]
<1>1. /\ n \in Relay /\ state[n] = "Forwarding"
      /\ outQueue' = [outQueue EXCEPT ![n] = a]
      /\ UNCHANGED <<state, pending, lastAccepted, flushed>>
  BY DEF LoopForwarding, Relay
<1>2. k = l \/ k = Sent(l, p)
  BY DEF LoopForwarding, TypeInv, TypeOK
<1>3. \A j \in Relay : j # n => statusLink'[j] = statusLink[j] /\ outQueue'[j] = outQueue[j]
  BY <1>1, Ends DEF LoopForwarding, TypeInv, TypeOK
<1>4. \A j \in Relay : j # n => OnTheWay(j)' = OnTheWay(j)
  BY <1>1, <1>3, Ends DEF OnTheWay
<1>5. /\ l \in Seq(Packet) /\ outQueue[n] \in Seq(Packet) /\ p \in Packet
      /\ w \in Seq(Packet) /\ v \in Seq(Packet)
  BY <1>1, WayTypes, WayTypesNext DEF TypeInv
<1>6. outQueue'[n] = a
  BY <1>1 DEF TypeInv, TypeOK
<1>7. w = Row(l, <<p>>, outQueue[n]) /\ v = Row(k, <<p>>, a)
  BY <1>1, <1>6 DEF OnTheWay, Row
<1>8. <<p>> \in Seq(Packet)
  BY <1>5
<1>9. /\ a \in Seq(Packet)
      /\ Cardinality(Starts(last, Row(l, <<p>>, a), r))
           <= Cardinality(Starts(last, Row(l, <<p>>, outQueue[n]), r)) + d
  BY <1>5, <1>8, WayOriginates
<1> HIDE DEF l, p, a, w, v, k, last
<1>10. Cardinality(Starts(last, Row(Sent(l, p), <<p>>, a), r))
         <= Cardinality(Starts(last, Row(l, <<p>>, a), r))
  BY <1>5, <1>9, WaySent
<1>11. /\ Row(l, <<p>>, a) \in Seq(Packet) /\ Row(Sent(l, p), <<p>>, a) \in Seq(Packet)
  BY <1>5, <1>8, <1>9, RowType, SentType
<1>12. /\ Cardinality(Starts(last, Row(l, <<p>>, a), r)) \in Nat
       /\ Cardinality(Starts(last, Row(Sent(l, p), <<p>>, a), r)) \in Nat
       /\ Cardinality(Starts(last, w, r)) \in Nat
  BY <1>5, <1>11, StartsFinite
<1>13. d \in Nat
  OBVIOUS
<1> HIDE DEF d
<1>14. Cardinality(Starts(last, v, r)) <= Cardinality(Starts(last, w, r)) + d
  <2>1. CASE k = l
    BY <1>7, <1>9, <2>1
  <2>2. CASE k = Sent(l, p)
    <3>1. Cardinality(Starts(last, v, r)) <= Cardinality(Starts(last, Row(l, <<p>>, a), r))
      BY <1>7, <1>10, <2>2
    <3>2. Cardinality(Starts(last, Row(l, <<p>>, a), r)) <= Cardinality(Starts(last, w, r)) + d
      BY <1>7, <1>9
    <3>3. Cardinality(Starts(last, v, r)) \in Nat
      BY <1>5, StartsFinite
    <3> QED
      BY <1>12, <1>13, <3>1, <3>2, <3>3
  <2> QED
    BY <1>2, <2>1, <2>2
<1> QED
  BY <1>1, <1>4, <1>13, <1>14, WayGrows DEF v, w, last, d

\* A pass of loop() that begins to send the head of the queue.
LEMMA RepeatsIdle ==
  ASSUME TypeInv, TypeInv', NEW r, NEW n \in Node,
         NEW localDue \in BOOLEAN, LoopIdle(n, localDue)
  PROVE  Grows(r, IF Reading(n) = r THEN 1 ELSE 0)
<1> DEFINE d == IF Reading(n) = r THEN 1 ELSE 0
           l == statusLink[n]
           a == QueueAfter(n, localDue)
           p == Head(a)
           t == Tail(a)
           w == OnTheWay(n)
           v == OnTheWay(n)'
           last == lastAccepted[NextId(n)]
<1>1. /\ n \in Relay /\ state[n] = "Idle" /\ a # <<>>
      /\ outQueue' = [outQueue EXCEPT ![n] = t]
      /\ pending' = [pending EXCEPT ![n] = p]
      /\ state' = [state EXCEPT ![n] = "Forwarding"]
      /\ statusLink' = [statusLink EXCEPT ![n] = Sent(@, p)]
      /\ UNCHANGED <<lastAccepted, flushed>>
  BY DEF LoopIdle, BeginForwarding, Relay
<1>2. /\ statusLink'[n] = Sent(l, p) /\ outQueue'[n] = t /\ pending'[n] = p
      /\ state'[n] = "Forwarding"
  BY <1>1 DEF TypeInv, TypeOK
<1>3. \A j \in Node : j # n => /\ statusLink'[j] = statusLink[j] /\ outQueue'[j] = outQueue[j]
                               /\ pending'[j] = pending[j] /\ state'[j] = state[j]
  BY <1>1 DEF TypeInv, TypeOK
<1>4. \A j \in Relay : j # n => OnTheWay(j)' = OnTheWay(j)
  BY <1>3, Ends DEF OnTheWay
<1>5. /\ l \in Seq(Packet) /\ outQueue[n] \in Seq(Packet)
      /\ w \in Seq(Packet) /\ v \in Seq(Packet)
  BY WayTypes, WayTypesNext
<1>7. w = Row(l, <<>>, outQueue[n]) /\ v = Row(Sent(l, p), <<p>>, t)
  BY <1>1, <1>2 DEF OnTheWay, Row
<1>8. <<>> \in Seq(Packet)
  OBVIOUS
<1>9. /\ a \in Seq(Packet)
      /\ Cardinality(Starts(last, Row(l, <<>>, a), r))
           <= Cardinality(Starts(last, Row(l, <<>>, outQueue[n]), r)) + d
  BY <1>5, <1>8, WayOriginates
<1> HIDE DEF a
<1>10. p \in Packet /\ t \in Seq(Packet) /\ Row(l, <<p>>, t) = Row(l, <<>>, a)
  BY <1>1, <1>5, <1>9, HeadTail, RowBegin
<1> HIDE DEF l, p, t, w, v, last
<1>11. Cardinality(Starts(last, Row(Sent(l, p), <<p>>, t), r))
         <= Cardinality(Starts(last, Row(l, <<p>>, t), r))
  BY <1>5, <1>10, WaySent
<1>12. Row(l, <<p>>, t) \in Seq(Packet)
  <2>1. <<p>> \in Seq(Packet)
    BY <1>10
  <2> QED
    BY <1>5, <1>10, <2>1, RowType
<1>13. /\ Cardinality(Starts(last, Row(l, <<p>>, t), r)) \in Nat
       /\ Cardinality(Starts(last, v, r)) \in Nat
       /\ Cardinality(Starts(last, w, r)) \in Nat
  BY <1>5, <1>12, StartsFinite
<1>14. d \in Nat
  OBVIOUS
<1> HIDE DEF d
<1>15. Cardinality(Starts(last, v, r)) <= Cardinality(Starts(last, w, r)) + d
  <2>1. Cardinality(Starts(last, v, r)) <= Cardinality(Starts(last, Row(l, <<p>>, t), r))
    BY <1>7, <1>11
  <2>2. Cardinality(Starts(last, Row(l, <<p>>, t), r)) <= Cardinality(Starts(last, w, r)) + d
    BY <1>7, <1>9, <1>10
  <2> QED
    BY <1>13, <1>14, <2>1, <2>2
<1> QED
  BY <1>1, <1>4, <1>14, <1>15, WayGrows DEF v, w, last, d

-----------------------------------------------------------------------------
(* Repetitions: resets *)

\* The resets of n that count for r, once n has reset b times.
ResetsAt(r, b) == [n \in Node |-> IF n = Gateway \/ n > r.origin THEN 1 .. b[n] ELSE {}]

LEMMA ResetsFinite ==
  ASSUME NEW r, NEW b \in [Node -> Nat]
  PROVE  /\ \A n \in Node : IsFiniteSet(ResetsAt(r, b)[n])
         /\ Cardinality(Tagged(ResetsAt(r, b))) \in Nat
<1>1. ASSUME NEW n \in Node PROVE IsFiniteSet(ResetsAt(r, b)[n])
  <2>1. IsFiniteSet(1 .. b[n])
    BY FS_Interval
  <2>2. IsFiniteSet({})
    BY FS_EmptySet
  <2> QED
    BY <2>1, <2>2 DEF ResetsAt
<1>2. IsFiniteSet(Tagged(ResetsAt(r, b)))
  BY <1>1, FiniteTags
<1> QED
  BY <1>1, <1>2, FS_CardinalityType

LEMMA ResetsSame ==
  ASSUME TypeInv, NEW r, boots' = boots
  PROVE  ResetsBelow(r)' = ResetsBelow(r) /\ ResetsBelow(r) \in Nat
<1>1. ResetsBelow(r) = Cardinality(Tagged(ResetsAt(r, boots)))
  BY DEF ResetsBelow, ResetsAt
<1>2. ResetsBelow(r)' = ResetsBelow(r)
  BY DEF ResetsBelow, Tagged
<1> QED
  BY <1>1, <1>2, ResetsFinite DEF TypeInv, TypeOK

\* A reset of n counts for r if n is the Gateway, or comes after r's producer.
LEMMA ResetsMore ==
  ASSUME TypeInv, NEW r, NEW n \in Node, boots' = [boots EXCEPT ![n] = @ + 1]
  PROVE  /\ ResetsBelow(r) \in Nat /\ ResetsBelow(r)' \in Nat
         /\ ResetsBelow(r)' = ResetsBelow(r) + (IF n = Gateway \/ n > r.origin THEN 1 ELSE 0)
<1> DEFINE b == boots
           e == boots'
           C == ResetsAt(r, b)
           D == ResetsAt(r, e)
<1>1. b \in [Node -> Nat] /\ e \in [Node -> Nat] /\ e[n] = b[n] + 1
      /\ \A k \in Node : k # n => e[k] = b[k]
  BY DEF TypeInv, TypeOK
<1>2. ResetsBelow(r) = Cardinality(Tagged(C)) /\ ResetsBelow(r)' = Cardinality(Tagged(D))
  BY DEF ResetsBelow, ResetsAt, Tagged
<1> HIDE DEF b, e
<1>3. /\ \A k \in Node : IsFiniteSet(C[k]) /\ IsFiniteSet(D[k])
      /\ Cardinality(Tagged(C)) \in Nat /\ Cardinality(Tagged(D)) \in Nat
  BY <1>1, ResetsFinite
<1>4. \A k \in Node : k # n => D[k] = C[k]
  BY <1>1 DEF ResetsAt
<1>5. Cardinality(D[n]) = Cardinality(C[n]) + (IF n = Gateway \/ n > r.origin THEN 1 ELSE 0)
      /\ Cardinality(C[n]) \in Nat
  <2>1. CASE n = Gateway \/ n > r.origin
    <3>1. C[n] = 1 .. b[n] /\ D[n] = 1 .. e[n] /\ b[n] \in Nat /\ e[n] \in Nat
      BY <1>1, <2>1 DEF ResetsAt
    <3> HIDE DEF C, D
    <3>2. \A i \in Nat : Cardinality(1 .. i) = i
      <4> TAKE i \in Nat
      <4>1. Cardinality(1 .. i) = IF 1 > i THEN 0 ELSE i - 1 + 1
        BY FS_Interval
      <4> QED
        BY <4>1
    <3>3. Cardinality(C[n]) = b[n] /\ Cardinality(D[n]) = e[n]
      BY <3>1, <3>2
    <3> QED
      BY <1>1, <2>1, <3>1, <3>3
  <2>2. CASE ~(n = Gateway \/ n > r.origin)
    <3>1. C[n] = {} /\ D[n] = {}
      BY <2>2 DEF ResetsAt
    <3> HIDE DEF C, D
    <3>2. Cardinality({}) = 0
      BY FS_EmptySet
    <3> QED
      BY <2>2, <3>1, <3>2
  <2> QED
    BY <2>1, <2>2
<1> HIDE DEF C, D
<1>6. Cardinality(Tagged(D)) + Cardinality(C[n]) = Cardinality(Tagged(C)) + Cardinality(D[n])
  BY <1>3, <1>4, TagsChange
<1> DEFINE d == IF n = Gateway \/ n > r.origin THEN 1 ELSE 0
<1>7. d \in Nat
  OBVIOUS
<1>8. Cardinality(D[n]) = Cardinality(C[n]) + d /\ Cardinality(C[n]) \in Nat
  BY <1>5
<1> HIDE DEF d
<1>9. Cardinality(Tagged(D)) = Cardinality(Tagged(C)) + d
  BY <1>3, <1>6, <1>7, <1>8
<1> QED
  BY <1>2, <1>3, <1>9 DEF d

\* The board n loses what it was about to send, and what was on its way to it;
\* a packet that prev still has may be accepted again.
LEMMA RepeatsReboot ==
  ASSUME TypeInv, TypeInv', OrderInv, NEW r \in Packet, NEW n \in Node, Reboot(n)
  PROVE  Grows(r, IF n = Gateway \/ n > r.origin THEN 1 ELSE 0)
<1> DEFINE d == IF n = Gateway \/ n > r.origin THEN 1 ELSE 0
           k == PrevId(n)
           C == Copies(r)
           D == Copies(r)'
<1>1. /\ state' = [state EXCEPT ![n] = "Discovering"]
      /\ outQueue' = [outQueue EXCEPT ![n] = <<>>]
      /\ lastAccepted' = [lastAccepted EXCEPT ![n] = NoPacket]
      /\ statusLink' = [statusLink EXCEPT ![k] = <<>>]
      /\ pending' = [pending EXCEPT ![n] = NoPacket]
      /\ flushed' = flushed
  BY DEF Reboot
<1>2. k \in Node /\ NextId(k) = n /\ \A j \in Node : NextId(j) = n => j = k
  BY RingFacts
<1>3. d \in Nat
  OBVIOUS
<1>4. /\ \A j \in Node : IsFiniteSet(C[j]) /\ IsFiniteSet(D[j])
      /\ \A j \in Node : Cardinality(C[j]) \in Nat /\ Cardinality(D[j]) \in Nat
  BY CopiesAre, CopiesNext
<1>5. D[Gateway] = C[Gateway]
  <2>1. /\ C[Gateway] = {i \in DOMAIN flushed : flushed[i] = r}
        /\ D[Gateway] = {i \in DOMAIN flushed' : flushed'[i] = r}
    BY CopiesAre, CopiesNext
  <2> HIDE DEF C, D
  <2> QED
    BY <1>1, <2>1
<1>6. \A j \in Relay : j # k => lastAccepted'[NextId(j)] = lastAccepted[NextId(j)]
  BY <1>1, <1>2, RelayFacts DEF TypeInv, TypeOK
<1>7. ASSUME NEW j \in Node, j # k, j # n PROVE D[j] = C[j]
  <2>1. CASE j # Gateway
    <3>1. j \in Relay
      BY <2>1 DEF Relay
    <3>2. OnTheWay(j)' = OnTheWay(j)
      BY <1>1, <1>7 DEF OnTheWay, TypeInv, TypeOK
    <3> QED
      BY <1>6, <1>7, <3>1, <3>2, CopiesAre, CopiesNext
  <2> QED
    BY <1>5, <2>1
<1>8. n # k => Cardinality(D[n]) <= Cardinality(C[n])
  <2> SUFFICES ASSUME n # k PROVE Cardinality(D[n]) <= Cardinality(C[n])
    OBVIOUS
  <2>1. CASE n = Gateway
    BY <1>4, <1>5, <2>1
  <2>2. CASE n # Gateway
    <3>1. n \in Relay
      BY <2>2 DEF Relay
    <3> DEFINE last == lastAccepted[NextId(n)]
               l == statusLink[n]
               m == Mid(n)
               q == outQueue[n]
               w == OnTheWay(n)
               v == OnTheWay(n)'
    <3>2. /\ l \in Seq(Packet) /\ m \in Seq(Packet) /\ q \in Seq(Packet)
          /\ w = Row(l, m, q) /\ w \in Seq(Packet) /\ v \in Seq(Packet)
      BY WayTypes, WayTypesNext
    <3>3. statusLink'[n] = l /\ state'[n] = "Discovering" /\ outQueue'[n] = <<>>
      BY <1>1 DEF TypeInv, TypeOK
    <3>4. v = Row(l, <<>>, <<>>)
      BY <3>3 DEF OnTheWay, Row
    <3>5. C[n] = Starts(last, w, r) /\ D[n] = Starts(last, v, r)
      BY <1>6, <3>1, CopiesAre, CopiesNext
    <3> HIDE DEF l, m, q, w, v, last, C, D
    <3>6. v = l
      BY <3>2, <3>4, ConcatEmptySeq DEF Row
    <3>7. Len(l) <= Len(w) /\ \A i \in 1 .. Len(l) : l[i] = w[i]
      <4>1. Begins(l, Row(l, m, q))
        BY <3>2, RowPrefix
      <4> QED
        BY <3>2, <4>1 DEF Begins
    <3>8. Cardinality(Starts(last, l, r)) <= Cardinality(Starts(last, w, r))
      BY <3>2, <3>7, StartsPrefix
    <3> QED
      BY <3>5, <3>6, <3>8
  <2> QED
    BY <2>1, <2>2
<1>9. CASE k = Gateway
  <2>1. \A j \in Node : j # n => D[j] = C[j]
    BY <1>5, <1>7, <1>9
  <2>2. Cardinality(D[n]) <= Cardinality(C[n]) + d
    <3>1. CASE n = k
      BY <1>3, <1>4, <1>5, <1>9, <3>1
    <3>2. CASE n # k
      BY <1>3, <1>4, <1>8, <3>2
    <3> QED
      BY <3>1, <3>2
  <2>3. Tagged(D) = Tagged(Copies(r))'
    BY DEF Tagged
  <2> HIDE DEF C, D, d
  <2>4. Cardinality(Tagged(D)) <= Cardinality(Tagged(C)) + d
    BY <1>3, <1>4, <2>1, <2>2, TagsOne
  <2> QED
    BY <2>3, <2>4 DEF Grows, C, D, d
<1>10. CASE k # Gateway
  <2>1. k \in Relay /\ n # k
    <3>1. k \in Relay
      BY <1>2, <1>10 DEF Relay
    <3>2. CASE n = Gateway
      BY <1>10, <3>1, <3>2
    <3>3. CASE n # Gateway
      <4>1. n \in Relay
        BY <3>3 DEF Relay
      <4>2. k = n - 1 /\ n \in Nat
        BY <4>1, RelayFacts
      <4> HIDE DEF k
      <4> QED
        BY <3>1, <4>2
    <3> QED
      BY <3>2, <3>3
  <2>2. Cardinality(D[k]) <= Cardinality(C[k]) + d
    <3> DEFINE last == lastAccepted[NextId(k)]
               l == statusLink[k]
               m == Mid(k)
               q == outQueue[k]
               w == OnTheWay(k)
               v == OnTheWay(k)'
               e == <<>>
    <3>1. /\ l \in Seq(Packet) /\ m \in Seq(Packet) /\ q \in Seq(Packet)
          /\ w = Row(l, m, q) /\ w \in Seq(Packet) /\ v \in Seq(Packet)
      BY <1>2, WayTypes, WayTypesNext
    <3>2. lastAccepted'[n] = NoPacket
      BY <1>1 DEF TypeInv, TypeOK
    <3>3. C[k] = Starts(last, w, r) /\ D[k] = Starts(NoPacket, v, r)
      BY <1>2, <2>1, <3>2, CopiesAre, CopiesNext
    <3>4. v = Row(e, m, q)
      BY <1>1, <1>2, <2>1 DEF OnTheWay, Mid, Row, TypeInv, TypeOK
    <3>5. \A i \in DOMAIN w : w[i] \in Carried(k)
      BY <1>2, WayCarried
    <3> HIDE DEF C, D, l, m, q, w, v, e, last
    <3>7. /\ Len(l) \in Nat /\ Len(Row(l, m, q)) = Len(Row(e, m, q)) + Len(l)
          /\ \A i \in 1 .. Len(Row(e, m, q)) : Row(e, m, q)[i] = Row(l, m, q)[i + Len(l)]
      BY <3>1, RowSuffix DEF e
    <3>8. Len(w) = Len(v) + Len(l)
      BY <3>1, <3>4, <3>7
    <3>10. \A i \in 1 .. Len(v) : v[i] = w[i + Len(l)]
      BY <3>1, <3>4, <3>7
    <3>11. Cardinality(Starts(NoPacket, v, r)) <= Cardinality(Starts(last, w, r)) + 1
      BY <3>1, <3>7, <3>8, <3>10, StartsAfresh
    <3>12. CASE n = Gateway \/ n > r.origin
      <4>1. d = 1
        BY <3>12
      <4> HIDE DEF d
      <4> QED
        BY <3>3, <3>11, <4>1
    <3>13. CASE ~(n = Gateway \/ n > r.origin)
      <4>1. \A x \in Carried(k) : x.origin <= k
        BY <2>1 DEF OrderInv, InLine
      <4>2. n \in Relay /\ k = n - 1
        BY <3>13, RelayFacts DEF Relay
      <4>3. r.origin \in Int /\ n \in Int
        BY DEF Packet, Node
      <4>4. r \notin Carried(k)
        <5> HIDE DEF k
        <5> QED
          BY <3>13, <4>1, <4>2, <4>3
      <4>5. \A i \in DOMAIN v : v[i] # r
        <5> TAKE i \in DOMAIN v
        <5>1. i \in 1 .. Len(v) /\ i + Len(l) \in DOMAIN w
          BY <3>1, <3>7, <3>8
        <5> QED
          BY <3>5, <3>10, <4>4, <5>1
      <4>6. D[k] = {}
        BY <3>3, <4>5 DEF Starts
      <4>7. Cardinality(D[k]) = 0
        BY <4>6, FS_EmptySet
      <4> QED
        BY <1>2, <1>3, <1>4, <4>7
    <3> QED
      BY <3>12, <3>13
  <2>3. Tagged(D) = Tagged(Copies(r))'
    BY DEF Tagged
  <2> HIDE DEF C, D, d, k
  <2>4. Cardinality(D[k]) + Cardinality(D[n]) <= Cardinality(C[k]) + Cardinality(C[n]) + d
    BY <1>2, <1>3, <1>4, <1>8, <2>1, <2>2
  <2>5. Cardinality(Tagged(D)) <= Cardinality(Tagged(C)) + d
    BY <1>2, <1>3, <1>4, <1>7, <2>1, <2>4, TagsTwo
  <2> QED
    BY <2>3, <2>5 DEF Grows, C, D, d
<1> QED
  BY <1>9, <1>10

\* A new reading is the first of its copies.
LEMMA RepeatsNew ==
  ASSUME TypeInv, TypeInv', OrderInv, RepeatsInv, NEW r \in Packet, NEW n \in Node,
         Grows(r, IF Reading(n) = r THEN 1 ELSE 0), boots' = boots
  PROVE  Cardinality(Tagged(Copies(r))') <= 1 + ResetsBelow(r)'
<1>1. Cardinality(Tagged(Copies(r))) \in Nat /\ Cardinality(Tagged(Copies(r))') \in Nat
  BY CountsAre
<1>2. ResetsBelow(r)' = ResetsBelow(r) /\ ResetsBelow(r) \in Nat
  BY ResetsSame
<1>3. CASE Reading(n) = r
  <2>1. Cardinality(Tagged(Copies(r))) = 0
    BY <1>3, NoneBefore
  <2>2. Cardinality(Tagged(Copies(r))') <= Cardinality(Tagged(Copies(r))) + 1
    BY <1>3 DEF Grows
  <2> QED
    BY <1>1, <1>2, <2>1, <2>2
<1>4. CASE Reading(n) # r
  <2>1. Cardinality(Tagged(Copies(r))') <= Cardinality(Tagged(Copies(r))) + 0
    BY <1>4 DEF Grows
  <2>2. Cardinality(Tagged(Copies(r))) <= 1 + ResetsBelow(r)
    BY DEF RepeatsInv
  <2> QED
    BY <1>1, <1>2, <2>1, <2>2
<1> QED
  BY <1>3, <1>4

LEMMA RepeatsKept ==
  ASSUME TypeInv, TypeInv', RepeatsInv, NEW r \in Packet, Grows(r, 0), boots' = boots
  PROVE  Cardinality(Tagged(Copies(r))') <= 1 + ResetsBelow(r)'
<1>1. Cardinality(Tagged(Copies(r))) \in Nat /\ Cardinality(Tagged(Copies(r))') \in Nat
  BY CountsAre
<1>2. ResetsBelow(r)' = ResetsBelow(r) /\ ResetsBelow(r) \in Nat
  BY ResetsSame
<1>3. Cardinality(Tagged(Copies(r))') <= Cardinality(Tagged(Copies(r))) + 0
  BY DEF Grows
<1>4. Cardinality(Tagged(Copies(r))) <= 1 + ResetsBelow(r)
  BY DEF RepeatsInv
<1> QED
  BY <1>1, <1>2, <1>3, <1>4

LEMMA RepeatsStep ==
  ASSUME TypeInv, TypeInv', OrderInv, RepeatsInv, [Next]_vars
  PROVE  RepeatsInv'
<1> SUFFICES ASSUME NEW r \in Packet
             PROVE  Cardinality(Tagged(Copies(r))') <= 1 + ResetsBelow(r)'
  BY DEF RepeatsInv
<1>0. Powered \subseteq Node
  BY DEF Powered
<1>1. CASE UNCHANGED vars
  <2>1. UNCHANGED <<state, statusLink, pending, outQueue, lastAccepted, flushed, boots>>
    BY <1>1 DEF vars, ram, history
  <2>2. \A n \in Relay : OnTheWay(n)' = OnTheWay(n)
    BY <2>1 DEF OnTheWay
  <2>3. Tagged(Copies(r))' = Tagged(Copies(r))
    BY <2>1, <2>2, WaySame
  <2>4. Grows(r, 0)
    BY <2>3, CountsAre DEF Grows
  <2> QED
    BY <2>1, <2>4, RepeatsKept
<1>2. ASSUME NEW n \in Node, NEW m \in Node, HandleHello(n, m)
      PROVE  Cardinality(Tagged(Copies(r))') <= 1 + ResetsBelow(r)'
  BY <1>2, RepeatsHello, RepeatsKept DEF HandleHello, history
<1>3. ASSUME NEW n \in Node, HandleStatus(n)
      PROVE  Cardinality(Tagged(Copies(r))') <= 1 + ResetsBelow(r)'
  <2>1. CASE IgnoreStatus(n) \/ ReAckDuplicate(n) \/ RefuseStatus(n)
    <3>1. TakeStatus(n) /\ UNCHANGED <<ram, history>>
      BY <2>1 DEF IgnoreStatus, ReAckDuplicate, RefuseStatus
    <3>2. PrevId(n) \in Node
      BY RingFacts
    <3>3. Grows(r, 0)
      BY <3>1, <3>2, RepeatsLoses DEF TakeStatus, history
    <3> QED
      BY <3>1, <3>3, RepeatsKept DEF history
  <2>2. CASE SinkStatus(n)
    BY <2>2, RepeatsSink, RepeatsKept DEF SinkStatus
  <2>3. CASE QueueStatus(n)
    BY <2>3, RepeatsQueue, RepeatsKept DEF QueueStatus, history
  <2> QED
    BY <1>3, <2>1, <2>2, <2>3 DEF HandleStatus
<1>4. ASSUME NEW n \in Node, HandleAck(n)
      PROVE  Cardinality(Tagged(Copies(r))') <= 1 + ResetsBelow(r)'
  BY <1>4, RepeatsAck, RepeatsKept DEF HandleAck, history
<1>5. ASSUME NEW n \in Node, Loop(n)
      PROVE  Cardinality(Tagged(Copies(r))') <= 1 + ResetsBelow(r)'
  <2>1. CASE LoopGateway(n)
    BY <2>1, RepeatsGateway, RepeatsNew DEF LoopGateway
  <2>2. ASSUME NEW localDue \in BOOLEAN, NEW ackDue \in BOOLEAN,
               LoopForwarding(n, localDue, ackDue)
        PROVE  Cardinality(Tagged(Copies(r))') <= 1 + ResetsBelow(r)'
    BY <2>2, RepeatsForwarding, RepeatsNew DEF LoopForwarding
  <2>3. ASSUME NEW localDue \in BOOLEAN, LoopIdle(n, localDue)
        PROVE  Cardinality(Tagged(Copies(r))') <= 1 + ResetsBelow(r)'
    BY <2>3, RepeatsIdle, RepeatsNew DEF LoopIdle
  <2> QED
    BY <1>5, <2>1, <2>2, <2>3 DEF Loop
<1>6. ASSUME NEW n \in Node, Reboot(n)
      PROVE  Cardinality(Tagged(Copies(r))') <= 1 + ResetsBelow(r)'
  <2> DEFINE d == IF n = Gateway \/ n > r.origin THEN 1 ELSE 0
             c == Cardinality(Tagged(Copies(r)))
             e == Cardinality(Tagged(Copies(r))')
  <2>1. c \in Nat /\ e \in Nat
    BY CountsAre
  <2>2. e <= c + d
    BY <1>6, RepeatsReboot DEF Grows
  <2>3. /\ ResetsBelow(r) \in Nat /\ ResetsBelow(r)' \in Nat
        /\ ResetsBelow(r)' = ResetsBelow(r) + d
    BY <1>6, ResetsMore DEF Reboot
  <2>4. c <= 1 + ResetsBelow(r)
    BY DEF RepeatsInv
  <2>5. d \in Nat
    OBVIOUS
  <2> HIDE DEF c, d
  <2>6. e <= 1 + ResetsBelow(r)'
    <3> HIDE DEF e
    <3> QED
      BY <2>1, <2>2, <2>3, <2>4, <2>5
  <2> QED
    BY <2>6
<1>7. ASSUME NEW n \in Node, LoseStatus(n) \/ LoseAck(n)
      PROVE  Cardinality(Tagged(Copies(r))') <= 1 + ResetsBelow(r)'
  <2>1. CASE LoseStatus(n)
    <3>1. Grows(r, 0)
      BY <2>1, RepeatsLoses DEF LoseStatus, history
    <3> QED
      BY <2>1, <3>1, RepeatsKept DEF LoseStatus, history
  <2>2. CASE LoseAck(n)
    <3>1. UNCHANGED <<state, statusLink, pending, outQueue, lastAccepted, flushed, boots>>
      BY <2>2 DEF LoseAck, ram, history
    <3>2. \A k \in Relay : OnTheWay(k)' = OnTheWay(k)
      BY <3>1 DEF OnTheWay
    <3>3. Tagged(Copies(r))' = Tagged(Copies(r))
      BY <3>1, <3>2, WaySame
    <3>4. Grows(r, 0)
      BY <3>3, CountsAre DEF Grows
    <3> QED
      BY <3>1, <3>4, RepeatsKept
  <2> QED
    BY <1>7, <2>1, <2>2
<1> QED
  BY <1>0, <1>1, <1>2, <1>3, <1>4, <1>5, <1>6, <1>7 DEF Next

LEMMA RepeatsInit == Init => RepeatsInv
<1> SUFFICES ASSUME Init, NEW r \in Packet
             PROVE  Cardinality(Tagged(Copies(r))) <= 1 + ResetsBelow(r)
  BY DEF RepeatsInv
<1>1. TypeInv
  BY InitType
<1>2. ASSUME NEW n \in Node PROVE Copies(r)[n] = {}
  <2>1. CASE n = Gateway
    BY <1>1, <2>1, CopiesAre DEF Init
  <2>2. CASE n # Gateway
    <3>1. n \in Relay
      BY <2>2 DEF Relay
    <3>2. OnTheWay(n) = Row(<<>>, <<>>, <<>>)
      BY DEF Init, OnTheWay, Row
    <3>3. OnTheWay(n) = <<>>
      <4>1. <<>> \in Seq(Packet)
        OBVIOUS
      <4> QED
        BY <3>2, <4>1, ConcatEmptySeq DEF Row
    <3> QED
      BY <1>1, <3>1, <3>3, CopiesAre DEF Starts
  <2> QED
    BY <2>1, <2>2
<1>3. Cardinality(Tagged(Copies(r))) = 0
  BY <1>2, NoTags
<1>4. ResetsBelow(r) \in Nat
  <2>1. ResetsBelow(r) = Cardinality(Tagged(ResetsAt(r, boots)))
    BY DEF ResetsBelow, ResetsAt
  <2> QED
    BY <1>1, <2>1, ResetsFinite DEF TypeInv, TypeOK
<1> QED
  BY <1>3, <1>4

LEMMA RepeatsImplies ==
  ASSUME TypeInv, RepeatsInv
  PROVE  RepeatsNeedResets
<1> SUFFICES ASSUME NEW i \in DOMAIN flushed, NEW r, r = flushed[i]
             PROVE  Cardinality({j \in DOMAIN flushed : flushed[j] = r}) <= 1 + ResetsBelow(r)
  BY DEF RepeatsNeedResets
<1> DEFINE C == Copies(r)
           S == {j \in DOMAIN flushed : flushed[j] = r}
<1>1. r \in Packet /\ Gateway \in Node
  BY Ends DEF TypeInv, TypeOK
<1>2. /\ \A n \in Node : IsFiniteSet(C[n])
      /\ C[Gateway] = S
  BY CopiesAre
<1>3. Cardinality(Tagged(C)) <= 1 + ResetsBelow(r)
  BY <1>1 DEF RepeatsInv
<1>4. ResetsBelow(r) \in Nat
  <2>1. ResetsBelow(r) = Cardinality(Tagged(ResetsAt(r, boots)))
    BY DEF ResetsBelow, ResetsAt
  <2> QED
    BY <2>1, ResetsFinite DEF TypeInv, TypeOK
<1> HIDE DEF C, S
<1> DEFINE D == [n \in Node |-> IF n = Gateway THEN {} ELSE C[n]]
<1>5. /\ D[Gateway] = {} /\ IsFiniteSet({}) /\ Cardinality({}) = 0
      /\ \A n \in Node : n # Gateway => D[n] = C[n]
  BY <1>1, FS_EmptySet
<1> HIDE DEF D
<1>6. /\ Cardinality(Tagged(D)) + Cardinality(C[Gateway])
           = Cardinality(Tagged(C)) + Cardinality(D[Gateway])
      /\ Cardinality(Tagged(C)) \in Nat /\ Cardinality(Tagged(D)) \in Nat
      /\ Cardinality(C[Gateway]) \in Nat
  BY <1>1, <1>2, <1>5, TagsChange
<1>7. Cardinality(S) <= 1 + ResetsBelow(r)
  BY <1>2, <1>3, <1>4, <1>5, <1>6
<1> QED
  BY <1>7 DEF S

\* However the radio loses packets and ACKs and whatever boards reset, a reading
\* that gateway_uplink::flush() is given again has cost a reset of a node that it
\* passes: retransmission alone never makes one.
THEOREM RepeatsCorrect == Spec => []RepeatsNeedResets
<1> DEFINE Inv == TypeInv /\ OrderInv /\ RepeatsInv
<1>1. Init => Inv
  BY InitType, OrderInit, RepeatsInit
<1>2. Inv /\ [Next]_vars => Inv'
  BY TypeStep, OrderStep, RepeatsStep
<1>3. Inv => RepeatsNeedResets
  BY RepeatsImplies
<1> QED
  BY <1>1, <1>2, <1>3, PTL DEF Spec
=============================================================================
