------------------------ MODULE ChainPipelineProofs ------------------------
(* While no board resets the chain implements ChainPipeline, and therefore *)
(* loses and repeats nothing, for every chain length, queue depth and      *)
(* pattern of loss.                                                        *)
EXTENDS ChainProofs

-----------------------------------------------------------------------------
(* The refinement: lines of packets as buffers of the pipeline             *)

LEMMA PushFacts ==
  ASSUME NEW S, NEW p \in S, NEW q \in Seq(S)
  PROVE  /\ <<p>> \o q \in Seq(S) /\ <<p>> \o q # <<>>
         /\ Len(<<p>> \o q) = Len(q) + 1
         /\ Head(<<p>> \o q) = p /\ Tail(<<p>> \o q) = q
<1>1. <<p>> \in Seq(S) /\ Len(<<p>>) = 1 /\ <<p>>[1] = p
  OBVIOUS
<1>2. <<p>> \o q \in Seq(S) /\ Len(<<p>> \o q) = Len(q) + 1
  BY <1>1
<1>3. (<<p>> \o q)[1] = p /\ \A k \in 1 .. Len(q) : (<<p>> \o q)[k + 1] = q[k]
  BY <1>1
<1> DEFINE s == <<p>> \o q
<1> HIDE DEF s
<1>4. s # <<>> /\ Head(s) = p
  BY <1>2, <1>3 DEF s
<1>5. Tail(s) = q
  <2>1. Tail(s) \in Seq(S) /\ Len(Tail(s)) = Len(q)
        /\ \A k \in 1 .. Len(q) : Tail(s)[k] = s[k + 1]
    BY <1>2, <1>4, TailIs DEF s
  <2>2. \A k \in 1 .. Len(q) : Tail(s)[k] = q[k]
    BY <1>3, <2>1 DEF s
  <2> QED
    BY <2>1, <2>2
<1> QED
  BY <1>2, <1>4, <1>5 DEF s

LEMMA PushAppend ==
  ASSUME NEW S, NEW p \in S, NEW q \in Seq(S), NEW x \in S
  PROVE  <<p>> \o Append(q, x) = Append(<<p>> \o q, x)
OBVIOUS

LEMMA PushHead ==
  ASSUME NEW S, NEW q \in Seq(S), q # <<>>
  PROVE  <<Head(q)>> \o Tail(q) = q
OBVIOUS

Busy(n) == state[n] = "Forwarding" /\ ~Arrived(n)

LEMMA HeldIdle ==
  ASSUME TypeInv, NEW n \in Node, ~Busy(n)
  PROVE  Held(n) = outQueue[n]
BY DEF Held, Busy, TypeInv, TypeOK

LEMMA HeldBusy ==
  ASSUME TypeInv, NEW n \in Node, Busy(n)
  PROVE  /\ pending[n] \in Packet /\ Held(n) = <<pending[n]>> \o outQueue[n]
         /\ Held(n) # <<>> /\ Len(Held(n)) = Len(outQueue[n]) + 1
         /\ Head(Held(n)) = pending[n] /\ Tail(Held(n)) = outQueue[n]
<1>1. pending[n] \in Packet /\ outQueue[n] \in Seq(Packet)
  BY DEF Busy, TypeInv, TypeOK
<1>2. Held(n) = <<pending[n]>> \o outQueue[n]
  BY DEF Held, Busy
<1> QED
  BY <1>1, <1>2, PushFacts

LEMMA HeldType ==
  ASSUME TypeInv, NEW n \in Node
  PROVE  /\ Held(n) \in Seq(Packet)
         /\ Len(Held(n)) = Len(outQueue[n]) \/ Len(Held(n)) = Len(outQueue[n]) + 1
         /\ Len(outQueue[n]) \in Nat /\ Len(outQueue[n]) <= QueueDepth
<1>1. outQueue[n] \in Seq(Packet) /\ Len(outQueue[n]) \in Nat /\ Len(outQueue[n]) <= QueueDepth
  BY DEF TypeInv, TypeOK
<1>2. CASE Busy(n)
  <2>1. /\ pending[n] \in Packet /\ Held(n) = <<pending[n]>> \o outQueue[n]
        /\ Len(Held(n)) = Len(outQueue[n]) + 1
    BY <1>2, HeldBusy
  <2>2. <<pending[n]>> \o outQueue[n] \in Seq(Packet)
    BY <1>1, <2>1, PushFacts
  <2> QED
    BY <1>1, <2>1, <2>2
<1>3. CASE ~Busy(n)
  BY <1>1, <1>3, HeldIdle
<1> QED
  BY <1>2, <1>3

LEMMA HeldRoom ==
  ASSUME TypeInv, NEW n \in Node
  PROVE  /\ HasRoom(n) => Len(Held(n)) <= QueueDepth
         /\ ~HasRoom(n) => Len(Held(n)) >= QueueDepth
<1> DEFINE h == Len(Held(n))
           q == Len(outQueue[n])
<1>1. q \in Nat /\ q <= QueueDepth /\ QueueDepth \in Nat /\ (h = q \/ h = q + 1)
  BY HeldType, ChainAssumption
<1>2. HasRoom(n) <=> q < QueueDepth
  BY DEF HasRoom
<1> HIDE DEF h, q
<1>3. (q < QueueDepth => h <= QueueDepth) /\ (~(q < QueueDepth) => h >= QueueDepth)
  BY <1>1
<1> QED
  BY <1>2, <1>3 DEF h

\* What is kept of a node's line keeps its buffer.
LEMMA HeldKept ==
  ASSUME NEW n \in Node,
         (state'[n] = "Forwarding") = (state[n] = "Forwarding"),
         pending'[n] = pending[n], outQueue'[n] = outQueue[n],
         lastAccepted'[NextId(n)] = lastAccepted[NextId(n)]
  PROVE  Held(n)' = Held(n)
BY DEF Held, Arrived

-----------------------------------------------------------------------------
(* The actions of the pipeline, of the buffers as Held gives them          *)

LEMMA PipeNames ==
  /\ Pipeline!Node = Node /\ Pipeline!Gateway = Gateway /\ Pipeline!Relay = Relay
  /\ \A n \in Node : Pipeline!NextOf(n) = NextId(n)
BY DEF Pipeline!Node, Pipeline!Gateway, Pipeline!Relay, Pipeline!NextOf, NextId,
       Node, Gateway, Relay

buffers == [n \in Node |-> Held(n)]

LEMMA PipeSame ==
  ASSUME \A n \in Node : Held(n)' = Held(n), UNCHANGED <<flushed, localSeq>>
  PROVE  UNCHANGED Pipeline!pipe
BY DEF Pipeline!pipe

LEMMA PipeProduce ==
  ASSUME NEW n \in Relay,
         localSeq' = [localSeq EXCEPT ![n] = @ + 1], flushed' = flushed,
         \A i \in Node : i # n => Held(i)' = Held(i),
         \/ /\ Len(Held(n)) <= QueueDepth
            /\ Held(n)' = Append(Held(n), [origin |-> n, boot |-> 0, num |-> localSeq[n]])
         \/ /\ Len(Held(n)) >= QueueDepth
            /\ Held(n)' = Held(n)
  PROVE  Pipeline!Originate(n) \/ Pipeline!Discard(n)
<1>1. n \in Node /\ n # Gateway
  BY DEF Relay
<1>2. buffers' = [i \in Node |-> Held(i)']
  BY DEF buffers
<1>3. Pipeline!Produce(n) /\ buffers[n] = Held(n)
  BY <1>1 DEF Pipeline!Produce, buffers
<1>4. CASE /\ Len(Held(n)) <= QueueDepth
           /\ Held(n)' = Append(Held(n), [origin |-> n, boot |-> 0, num |-> localSeq[n]])
  <2>1. buffers' = [buffers EXCEPT ![n] = Append(@, Pipeline!New(n))]
    BY <1>1, <1>2, <1>4 DEF Pipeline!New, buffers
  <2> QED
    BY <1>1, <1>3, <1>4, <2>1, PipeNames DEF Pipeline!Originate, buffers
<1>5. CASE Len(Held(n)) >= QueueDepth /\ Held(n)' = Held(n)
  <2>1. buffers' = buffers
    BY <1>1, <1>2, <1>5 DEF buffers
  <2> QED
    BY <1>1, <1>3, <1>5, <2>1, PipeNames DEF Pipeline!Discard, buffers
<1> QED
  BY <1>4, <1>5

LEMMA PipeTake ==
  ASSUME NEW m \in Relay, Held(m) # <<>>,
         Held(m)' = Tail(Held(m)), localSeq' = localSeq,
         \A i \in Node : i # m /\ i # NextId(m) => Held(i)' = Held(i),
         \/ /\ NextId(m) # Gateway /\ flushed' = flushed
            /\ Len(Held(NextId(m))) <= QueueDepth
            /\ Held(NextId(m))' = Append(Held(NextId(m)), Head(Held(m)))
         \/ /\ NextId(m) = Gateway
            /\ Held(NextId(m))' = Held(NextId(m))
            /\ flushed' = Append(flushed, Head(Held(m)))
  PROVE  Pipeline!Move(m) \/ Pipeline!Deliver(m)
<1>1. m \in Node /\ m # Gateway /\ NextId(m) \in Node /\ NextId(m) # m
  BY RelayFacts DEF Relay, Node, NextId, Gateway
<1>2. buffers' = [i \in Node |-> Held(i)']
  BY DEF buffers
<1>3. buffers[m] = Held(m) /\ buffers[NextId(m)] = Held(NextId(m))
  BY <1>1 DEF buffers
<1>4. CASE /\ NextId(m) # Gateway /\ flushed' = flushed
           /\ Len(Held(NextId(m))) <= QueueDepth
           /\ Held(NextId(m))' = Append(Held(NextId(m)), Head(Held(m)))
  <2>1. buffers' = [buffers EXCEPT ![m] = Tail(@), ![NextId(m)] = Append(@, Head(buffers[m]))]
    BY <1>1, <1>2, <1>3, <1>4 DEF buffers
  <2> QED
    BY <1>1, <1>3, <1>4, <2>1, PipeNames DEF Pipeline!Move, buffers
<1>5. CASE /\ NextId(m) = Gateway
           /\ Held(NextId(m))' = Held(NextId(m))
           /\ flushed' = Append(flushed, Head(Held(m)))
  <2>1. buffers' = [buffers EXCEPT ![m] = Tail(@)]
    BY <1>1, <1>2, <1>3, <1>5 DEF buffers
  <2> QED
    BY <1>1, <1>3, <1>5, <2>1, PipeNames DEF Pipeline!Deliver, buffers
<1> QED
  BY <1>4, <1>5

-----------------------------------------------------------------------------
(* Every step of the chain is one of the pipeline, or none                 *)

PipeStep == Pipeline!Next \/ UNCHANGED Pipeline!pipe

LEMMA PipeProduceStep ==
  ASSUME NEW n \in Relay, Pipeline!Originate(n) \/ Pipeline!Discard(n)
  PROVE  PipeStep
BY PipeNames DEF PipeStep, Pipeline!Next

LEMMA PipeTakeStep ==
  ASSUME NEW n \in Relay, Pipeline!Move(n) \/ Pipeline!Deliver(n)
  PROVE  PipeStep
BY PipeNames DEF PipeStep, Pipeline!Next

\* The Gateway sends nothing, and no board has reset.
QuietInv == state[Gateway] # "Forwarding" /\ boots = [n \in Node |-> 0]

SimulationInv == TypeInv /\ StopAndWaitInv /\ QuietInv

\* A step that leaves all slots, queues and dedup keys alone.
LEMMA SimSame ==
  ASSUME UNCHANGED <<outQueue, pending, lastAccepted, localSeq, flushed>>,
         \A i \in Node : (state'[i] = "Forwarding") = (state[i] = "Forwarding")
  PROVE  PipeStep
BY HeldKept, PipeSame DEF PipeStep

LEMMA SimHello ==
  ASSUME TypeInv, NEW n \in Node, NEW m \in Node, HandleHello(n, m)
  PROVE  PipeStep
<1>1. \A i \in Node : (state'[i] = "Forwarding") = (state[i] = "Forwarding")
  BY DEF HandleHello, TypeInv, TypeOK
<1> QED
  BY <1>1, SimSame DEF HandleHello, history

\* What the receiver accepts is the packet its prev is responsible for.
LEMMA AcceptedIsHeld ==
  ASSUME TypeInv, StopAndWaitInv, NEW n \in Node,
         TakeStatus(n), ~IsDuplicate(n), SendAck(n, Arriving(n)),
         lastAccepted' = [lastAccepted EXCEPT ![n] = Arriving(n)],
         UNCHANGED <<state, pending>>,
         outQueue'[PrevId(n)] = outQueue[PrevId(n)]
  PROVE  /\ PrevId(n) \in Relay /\ Held(PrevId(n)) # <<>>
         /\ Arriving(n) = Head(Held(PrevId(n)))
         /\ Held(PrevId(n))' = Tail(Held(PrevId(n)))
<1> DEFINE m == PrevId(n)
<1>1. m \in Relay /\ m \in Node /\ NextId(m) = n /\ Arriving(n) = pending[m]
  BY HopsAccept, RingFacts
<1>2. /\ statusLink[m] # <<>> /\ ~Same(lastAccepted[n], Head(statusLink[m]))
      /\ lastAccepted[n] \in Packet \cup {NoPacket}
      /\ pending[m] \in Packet \cup {NoPacket}
      /\ statusLink[m] \in Seq(Packet) /\ ackLink[m] \in Seq(Ack)
      /\ Hop(lastAccepted[n], pending[m], statusLink[m], ackLink[m],
             state[m] = "Forwarding")
  BY <1>1, HopOf, StatusFromRelay DEF TakeStatus, IsDuplicate, Arriving, Same
<1>3. Outstanding(lastAccepted[n], pending[m], statusLink[m], ackLink[m],
                  state[m] = "Forwarding")
  BY <1>2, HopArrivesNew
<1>4. Busy(m)
  BY <1>1, <1>3 DEF Outstanding, Busy, Arrived
<1>5. /\ Held(m) # <<>> /\ Head(Held(m)) = pending[m] /\ Tail(Held(m)) = outQueue[m]
  BY <1>1, <1>4, HeldBusy
<1>6. Held(m)' = <<>> \o outQueue[m]
  BY <1>1 DEF Held, Arrived, TypeInv, TypeOK
<1>7. <<>> \o outQueue[m] = outQueue[m]
  BY <1>1 DEF TypeInv, TypeOK
<1> QED
  BY <1>1, <1>5, <1>6, <1>7

LEMMA SimSink ==
  ASSUME TypeInv, StopAndWaitInv, NEW n \in Node, SinkStatus(n)
  PROVE  PipeStep
<1> DEFINE m == PrevId(n)
<1>1. /\ TakeStatus(n) /\ ~IsDuplicate(n) /\ n = Gateway /\ SendAck(n, Arriving(n))
      /\ lastAccepted' = [lastAccepted EXCEPT ![n] = Arriving(n)]
      /\ flushed' = Append(flushed, Arriving(n))
      /\ UNCHANGED <<state, outQueue, pending, localSeq>>
  BY DEF SinkStatus
<1>2. /\ m \in Relay /\ Held(m) # <<>> /\ Arriving(n) = Head(Held(m))
      /\ Held(m)' = Tail(Held(m)) /\ NextId(m) = n
  BY <1>1, AcceptedIsHeld, RingFacts
<1>3. ASSUME NEW i \in Node, i # m PROVE Held(i)' = Held(i)
  <2>1. NextId(i) # n
    BY <1>3, RingFacts
  <2>2. lastAccepted'[NextId(i)] = lastAccepted[NextId(i)]
    BY <1>1, <1>3, <2>1, RingFacts DEF TypeInv, TypeOK
  <2> QED
    BY <1>1, <1>3, <2>2, HeldKept
<1>4. n # m
  BY <1>1, <1>2 DEF Relay
<1>5. Pipeline!Move(m) \/ Pipeline!Deliver(m)
  BY <1>1, <1>2, <1>3, <1>4, PipeTake
<1> QED
  BY <1>2, <1>5, PipeTakeStep

LEMMA SimQueue ==
  ASSUME TypeInv, StopAndWaitInv, NEW n \in Node, QueueStatus(n)
  PROVE  PipeStep
<1> DEFINE m == PrevId(n)
<1>1. /\ TakeStatus(n) /\ ~IsDuplicate(n) /\ n # Gateway /\ SendAck(n, Arriving(n))
      /\ HasRoom(n)
      /\ outQueue' = [outQueue EXCEPT ![n] = Append(@, Arriving(n))]
      /\ lastAccepted' = [lastAccepted EXCEPT ![n] = Arriving(n)]
      /\ UNCHANGED <<state, pending, localSeq, flushed>>
  BY DEF QueueStatus, history
<1>2. m \in Relay /\ m \in Node /\ NextId(m) = n /\ Arriving(n) \in Packet
  BY <1>1, HopsAccept, RingFacts
<1>3. n # m /\ NextId(n) # n
  BY <1>1, <1>2, ChainAssumption DEF Node, NextId, PrevId, Relay, Gateway
<1>4. outQueue'[n] = Append(outQueue[n], Arriving(n))
      /\ \A i \in Node : i # n => outQueue'[i] = outQueue[i]
  BY <1>1 DEF TypeInv, TypeOK
<1>5. /\ Held(m) # <<>> /\ Arriving(n) = Head(Held(m)) /\ Held(m)' = Tail(Held(m))
  BY <1>1, <1>2, <1>3, <1>4, AcceptedIsHeld
<1>6. \A i \in Node : NextId(i) # n => lastAccepted'[NextId(i)] = lastAccepted[NextId(i)]
  BY <1>1, RingFacts DEF TypeInv, TypeOK
<1>7. ASSUME NEW i \in Node, i # m, i # n PROVE Held(i)' = Held(i)
  <2>1. NextId(i) # n
    BY <1>7, RingFacts
  <2> QED
    BY <1>1, <1>4, <1>6, <1>7, <2>1, HeldKept
<1>8. Held(n)' = Append(Held(n), Arriving(n))
  <2>1. outQueue[n] \in Seq(Packet) /\ Append(outQueue[n], Arriving(n)) \in Seq(Packet)
    BY <1>2 DEF TypeInv, TypeOK
  <2>2. CASE Busy(n)
    <3>1. Held(n)' = <<pending[n]>> \o Append(outQueue[n], Arriving(n))
      BY <1>1, <1>3, <1>4, <1>6, <2>2 DEF Held, Arrived, Busy
    <3>2. pending[n] \in Packet /\ Held(n) = <<pending[n]>> \o outQueue[n]
      BY <2>2, HeldBusy
    <3> QED
      BY <1>2, <2>1, <3>1, <3>2, PushAppend
  <2>3. CASE ~Busy(n)
    <3>1. Held(n)' = <<>> \o Append(outQueue[n], Arriving(n))
      BY <1>1, <1>3, <1>4, <1>6, <2>3 DEF Held, Arrived, Busy
    <3>2. <<>> \o Append(outQueue[n], Arriving(n)) = Append(outQueue[n], Arriving(n))
      BY <2>1
    <3> QED
      BY <2>3, <3>1, <3>2, HeldIdle
  <2> QED
    BY <2>2, <2>3
<1>9. Len(Held(n)) <= QueueDepth
  BY <1>1, HeldRoom
<1>10. Pipeline!Move(m) \/ Pipeline!Deliver(m)
  BY <1>1, <1>2, <1>5, <1>7, <1>8, <1>9, PipeTake
<1> QED
  BY <1>2, <1>10, PipeTakeStep

\* The slot is freed only when there is nothing left in it to be held.
LEMMA SimAck ==
  ASSUME TypeInv, StopAndWaitInv, QuietInv, NEW n \in Node, HandleAck(n)
  PROVE  PipeStep
<1>1. /\ UNCHANGED <<outQueue, pending, lastAccepted, localSeq, flushed>>
      /\ \A i \in Node : i # n => (state'[i] = "Forwarding") = (state[i] = "Forwarding")
      /\ state'[n] = "Forwarding" => state[n] = "Forwarding"
  BY DEF HandleAck, history, TypeInv, TypeOK
<1>2. CASE (state'[n] = "Forwarding") = (state[n] = "Forwarding")
  BY <1>1, <1>2, SimSame
<1>3. CASE state'[n] # "Forwarding" /\ state[n] = "Forwarding"
  <2>1. n \in Relay
    BY <1>3 DEF QuietInv, Relay
  <2>2. Arrived(n)'
    <3>1. HopInv(n)'
      BY <2>1, InvAck DEF StopAndWaitInv
    <3> QED
      BY <1>3, <3>1 DEF HopInv, Hop, Unused, Accepted, Outstanding, Arrived
  <2>3. Arrived(n)
    BY <1>1, <2>2 DEF Arrived
  <2>4. Held(n)' = Held(n)
    BY <1>1, <1>3, <2>2, <2>3 DEF Held
  <2>5. \A i \in Node : Held(i)' = Held(i)
    BY <1>1, <2>4, HeldKept
  <2> QED
    BY <1>1, <2>5, PipeSame DEF PipeStep
<1> QED
  BY <1>1, <1>2, <1>3

LEMMA SimLoopGateway ==
  ASSUME TypeInv, QuietInv, NEW n \in Node, LoopGateway(n)
  PROVE  PipeStep
<1>1. /\ n = Gateway
      /\ localSeq' = [localSeq EXCEPT ![Gateway] = @ + 1]
      /\ flushed' = Append(flushed, Reading(Gateway))
      /\ UNCHANGED <<state, outQueue, pending, lastAccepted>>
  BY DEF LoopGateway
<1>2. \A i \in Node : Held(i)' = Held(i)
  BY <1>1, HeldKept
<1>3. Reading(Gateway) = [origin |-> Gateway, boot |-> 0, num |-> localSeq[Gateway]]
  BY <1>1 DEF Reading, QuietInv
<1>4. Pipeline!OriginateAtGateway
  BY <1>1, <1>2, <1>3, PipeNames
     DEF Pipeline!OriginateAtGateway, Pipeline!Produce, Pipeline!New
<1> QED
  BY <1>4 DEF PipeStep, Pipeline!Next

\* What a pass of loop() that may produce a reading does to what is held.
HoldsAfter(n, localDue) ==
  /\ n \in Relay /\ Originate(n, localDue) /\ flushed' = flushed
  /\ \A i \in Node : i # n => Held(i)' = Held(i)
  /\ QueueAfter(n, localDue) = outQueue[n] => Held(n)' = Held(n)
  /\ HasRoom(n) /\ localDue = TRUE => Held(n)' = Append(Held(n), Reading(n))

\* A pass of loop() that adds to the end of what n holds what QueueAfter adds
\* to its queue.
LEMMA SimOriginate ==
  ASSUME TypeInv, QuietInv, NEW n \in Relay, NEW localDue \in BOOLEAN,
         HoldsAfter(n, localDue)
  PROVE  PipeStep
<1>0. /\ Originate(n, localDue) /\ flushed' = flushed
      /\ \A i \in Node : i # n => Held(i)' = Held(i)
      /\ QueueAfter(n, localDue) = outQueue[n] => Held(n)' = Held(n)
      /\ HasRoom(n) /\ localDue = TRUE => Held(n)' = Append(Held(n), Reading(n))
  BY DEF HoldsAfter
<1>1. n \in Node /\ Reading(n) = [origin |-> n, boot |-> 0, num |-> localSeq[n]]
  BY RelayFacts DEF Reading, QuietInv
<1>2. CASE localDue = FALSE
  <2>1. localSeq' = localSeq /\ Held(n)' = Held(n)
    BY <1>0, <1>2 DEF Originate, QueueAfter
  <2> QED
    BY <1>0, <2>1, PipeSame DEF PipeStep
<1>3. CASE localDue = TRUE /\ HasRoom(n)
  <2>1. localSeq' = [localSeq EXCEPT ![n] = @ + 1]
    BY <1>0, <1>3 DEF Originate
  <2>2. Held(n)' = Append(Held(n), [origin |-> n, boot |-> 0, num |-> localSeq[n]])
        /\ Len(Held(n)) <= QueueDepth
    BY <1>0, <1>1, <1>3, HeldRoom
  <2> QED
    BY <1>0, <2>1, <2>2, PipeProduce, PipeProduceStep
<1>4. CASE localDue = TRUE /\ ~HasRoom(n)
  <2>1. localSeq' = [localSeq EXCEPT ![n] = @ + 1] /\ Held(n)' = Held(n)
    BY <1>0, <1>4 DEF Originate, QueueAfter
  <2>2. Len(Held(n)) >= QueueDepth
    BY <1>1, <1>4, HeldRoom
  <2> QED
    BY <1>0, <2>1, <2>2, PipeProduce, PipeProduceStep
<1> QED
  BY <1>2, <1>3, <1>4

LEMMA LoopForwardingHolds ==
  ASSUME TypeInv, QuietInv, NEW n \in Node, NEW localDue \in BOOLEAN, NEW ackDue \in BOOLEAN,
         LoopForwarding(n, localDue, ackDue)
  PROVE  HoldsAfter(n, localDue)
<1>1. /\ n \in Relay /\ Originate(n, localDue)
      /\ outQueue' = [outQueue EXCEPT ![n] = QueueAfter(n, localDue)]
      /\ UNCHANGED <<state, pending, lastAccepted, flushed>>
  BY DEF LoopForwarding, Relay
<1>2. outQueue'[n] = QueueAfter(n, localDue) /\ \A i \in Node : i # n => outQueue'[i] = outQueue[i]
  BY <1>1 DEF TypeInv, TypeOK
<1>3. \A i \in Node : i # n => Held(i)' = Held(i)
  BY <1>1, <1>2, HeldKept
<1>4. QueueAfter(n, localDue) = outQueue[n] => Held(n)' = Held(n)
  BY <1>1, <1>2, HeldKept
<1>5. ASSUME HasRoom(n), localDue = TRUE PROVE Held(n)' = Append(Held(n), Reading(n))
  <2>1. Reading(n) \in Packet
    BY <1>1, TypeOriginate
  <2>1a. outQueue[n] \in Seq(Packet)
    BY DEF TypeInv, TypeOK
  <2>1b. Append(outQueue[n], Reading(n)) \in Seq(Packet)
    BY <2>1, <2>1a
  <2>2. outQueue'[n] = Append(outQueue[n], Reading(n))
    BY <1>2, <1>5 DEF QueueAfter
  <2>3. CASE Busy(n)
    <3>1. Held(n)' = <<pending[n]>> \o Append(outQueue[n], Reading(n))
      BY <1>1, <2>2, <2>3 DEF Held, Arrived, Busy
    <3>2. pending[n] \in Packet /\ Held(n) = <<pending[n]>> \o outQueue[n]
      BY <2>3, HeldBusy
    <3> QED
      BY <2>1, <2>1a, <3>1, <3>2, PushAppend
  <2>4. CASE ~Busy(n)
    <3>1. Held(n)' = <<>> \o Append(outQueue[n], Reading(n))
      BY <1>1, <2>2, <2>4 DEF Held, Arrived, Busy
    <3>2. <<>> \o Append(outQueue[n], Reading(n)) = Append(outQueue[n], Reading(n))
      BY <2>1b
    <3> QED
      BY <2>4, <3>1, <3>2, HeldIdle
  <2> QED
    BY <2>3, <2>4
<1> QED
  BY <1>1, <1>3, <1>4, <1>5 DEF HoldsAfter

\* The head of the queue goes into the slot: it has not arrived there yet,
\* because it can be told from the packet before it.
LEMMA LoopIdleHolds ==
  ASSUME NoResetAssumption, TypeInv, StopAndWaitInv, QuietInv, NEW n \in Node,
         NEW localDue \in BOOLEAN, LoopIdle(n, localDue)
  PROVE  HoldsAfter(n, localDue)
<1> DEFINE q == QueueAfter(n, localDue)
<1>1. /\ n \in Relay /\ state[n] # "Forwarding" /\ q # <<>>
      /\ Originate(n, localDue)
      /\ pending' = [pending EXCEPT ![n] = Head(q)]
      /\ outQueue' = [outQueue EXCEPT ![n] = Tail(q)]
      /\ state' = [state EXCEPT ![n] = "Forwarding"]
      /\ UNCHANGED <<lastAccepted, flushed>>
  BY DEF LoopIdle, BeginForwarding, Relay
<1>2. /\ q \in Seq(Packet) /\ n \in Nat
      /\ pending[n] \in Packet \cup {NoPacket}
      /\ lastAccepted[n] \in Packet \cup {NoPacket}
      /\ dropRun'[n] \in Nat /\ localSeq'[n] \in Nat
  BY <1>1, RelayFacts, TypeOriginate DEF TypeInv, TypeOK
<1>3. Line(n, pending[n], q, dropRun'[n], localSeq'[n], lastAccepted[n])
  BY <1>1, LineOriginate DEF StopAndWaitInv
<1>4. Held(n) = outQueue[n]
  BY <1>1, HeldIdle DEF Busy
<1>5. HasRoom(n) /\ localDue = TRUE => q = Append(outQueue[n], Reading(n))
  BY DEF QueueAfter
<1> HIDE DEF q
<1>6. Head(q) \in Packet /\ Tail(q) \in Seq(Packet) /\ <<Head(q)>> \o Tail(q) = q
  BY <1>1, <1>2, HeadTail, PushHead
<1>7. pending[n] # NoPacket => Follows(pending[n], Head(q))
  BY <1>1, <1>2, <1>3, LineShift
<1>8. lastAccepted[NextId(n)] # Head(q)
  <2>1. Hop(lastAccepted[NextId(n)], pending[n], statusLink[n], ackLink[n], FALSE)
    BY <1>1 DEF StopAndWaitInv, HopInv
  <2>2. lastAccepted[NextId(n)] = pending[n]
    BY <2>1 DEF Hop, Unused, Accepted, Outstanding
  <2>3. pending[n] \in Packet => pending[n] # Head(q)
    BY <1>6, <1>7, NoPacketIsNone, FollowsDiffers
  <2> QED
    BY <1>2, <1>6, <2>2, <2>3, NoPacketIsNone
<1>9. /\ pending'[n] = Head(q) /\ outQueue'[n] = Tail(q) /\ state'[n] = "Forwarding"
      /\ \A i \in Node : i # n => /\ outQueue'[i] = outQueue[i] /\ pending'[i] = pending[i]
                                  /\ state'[i] = state[i]
  BY <1>1, RelayFacts DEF TypeInv, TypeOK
<1>10. Held(n)' = q
  <2>1. ~Arrived(n)'
    BY <1>1, <1>8, <1>9 DEF Arrived
  <2> QED
    BY <1>6, <1>9, <2>1 DEF Held
<1>11. \A i \in Node : i # n => Held(i)' = Held(i)
  BY <1>1, <1>9, HeldKept
<1>12. QueueAfter(n, localDue) = outQueue[n] => Held(n)' = Held(n)
  BY <1>4, <1>10 DEF q
<1>13. HasRoom(n) /\ localDue = TRUE => Held(n)' = Append(Held(n), Reading(n))
  BY <1>4, <1>5, <1>10
<1> QED
  BY <1>1, <1>11, <1>12, <1>13 DEF HoldsAfter

LEMMA SimStatus ==
  ASSUME TypeInv, StopAndWaitInv, NEW n \in Node, HandleStatus(n)
  PROVE  PipeStep
<1>1. CASE IgnoreStatus(n) \/ ReAckDuplicate(n) \/ RefuseStatus(n)
  BY <1>1, SimSame DEF IgnoreStatus, ReAckDuplicate, RefuseStatus, ram, history
<1>2. CASE SinkStatus(n)
  BY <1>2, SimSink
<1>3. CASE QueueStatus(n)
  BY <1>3, SimQueue
<1> QED
  BY <1>1, <1>2, <1>3 DEF HandleStatus

LEMMA SimLoop ==
  ASSUME NoResetAssumption, TypeInv, StopAndWaitInv, QuietInv, NEW n \in Node, Loop(n)
  PROVE  PipeStep
<1>1. CASE LoopGateway(n)
  BY <1>1, SimLoopGateway
<1>2. ASSUME NEW localDue \in BOOLEAN, NEW ackDue \in BOOLEAN,
             LoopForwarding(n, localDue, ackDue)
      PROVE  PipeStep
  BY <1>2, LoopForwardingHolds, SimOriginate DEF HoldsAfter
<1>3. ASSUME NEW localDue \in BOOLEAN, LoopIdle(n, localDue)
      PROVE  PipeStep
  BY <1>3, LoopIdleHolds, SimOriginate DEF HoldsAfter
<1> QED
  BY <1>1, <1>2, <1>3 DEF Loop

LEMMA NoReboot ==
  ASSUME NoResetAssumption, TypeInv, NEW n \in Node
  PROVE  ~Reboot(n)
<1>1. boots[n] \in Nat /\ MaxBoots[n] = 0
  BY DEF NoResetAssumption, TypeInv, TypeOK
<1> QED
  BY <1>1 DEF Reboot

LEMMA SimStep ==
  ASSUME NoResetAssumption, SimulationInv, [Next]_vars
  PROVE  PipeStep
<1> TypeInv /\ StopAndWaitInv /\ QuietInv
  BY DEF SimulationInv
<1>1. CASE UNCHANGED vars
  BY <1>1, SimSame DEF vars, ram, history
<1>2. ASSUME NEW n \in Powered, NEW m \in Powered, HandleHello(n, m)
      PROVE  PipeStep
  BY <1>2, SimHello DEF Powered
<1>3. ASSUME NEW n \in Powered, LoseStatus(n) \/ LoseAck(n)
      PROVE  PipeStep
  BY <1>3, SimSame DEF LoseStatus, LoseAck, ram, history
<1>4. ASSUME NEW n \in Powered, HandleStatus(n) \/ HandleAck(n) \/ Loop(n) \/ Reboot(n)
      PROVE  PipeStep
  BY <1>4, SimStatus, SimAck, SimLoop, NoReboot DEF Powered
<1> QED
  BY <1>1, <1>2, <1>3, <1>4 DEF Next

\* Only BeginForwarding makes a node wait, and the Gateway never calls it.
LEMMA QuietStep ==
  ASSUME NoResetAssumption, TypeInv, QuietInv, [Next]_vars
  PROVE  QuietInv'
<1> Gateway \in Node
  BY ChainAssumption DEF Node, Gateway
<1>1. CASE UNCHANGED vars
  BY <1>1 DEF vars, ram, history, QuietInv
<1>2. ASSUME NEW n \in Powered, NEW m \in Powered, HandleHello(n, m)
      PROVE  QuietInv'
  BY <1>2 DEF HandleHello, history, QuietInv, TypeInv, TypeOK
<1>3. ASSUME NEW n \in Powered, LoseStatus(n) \/ LoseAck(n)
      PROVE  QuietInv'
  BY <1>3 DEF LoseStatus, LoseAck, ram, history, QuietInv
<1>4. ASSUME NEW n \in Powered, HandleStatus(n)
      PROVE  QuietInv'
  BY <1>4 DEF HandleStatus, IgnoreStatus, ReAckDuplicate, SinkStatus, QueueStatus,
              RefuseStatus, ram, history, QuietInv
<1>5. ASSUME NEW n \in Powered, HandleAck(n)
      PROVE  QuietInv'
  BY <1>5 DEF HandleAck, history, QuietInv, TypeInv, TypeOK
<1>6. ASSUME NEW n \in Powered, Loop(n)
      PROVE  QuietInv'
  BY <1>6 DEF Loop, LoopGateway, LoopForwarding, LoopIdle, BeginForwarding, QuietInv,
              TypeInv, TypeOK
<1>7. ASSUME NEW n \in Powered
      PROVE  ~Reboot(n)
  BY NoReboot DEF Powered
<1> QED
  BY <1>1, <1>2, <1>3, <1>4, <1>5, <1>6, <1>7 DEF Next

LEMMA SimInit ==
  ASSUME Init
  PROVE  QuietInv /\ Pipeline!Init
<1>1. QuietInv
  BY RingFacts, ChainAssumption DEF Init, QuietInv, Node, Gateway
<1>2. \A n \in Node : Held(n) = <<>>
  BY DEF Init, Held
<1> QED
  BY <1>1, <1>2, PipeNames DEF Init, Pipeline!Init

-----------------------------------------------------------------------------
(* Packets that move between lines                                         *)

Somewhere(P, L, r) == \E a \in P : \E k \in DOMAIN L[a] : L[a][k] = r

\* No packet is at two places.
Distinct(P, L) ==
  \A a, b \in P : \A k \in DOMAIN L[a], l \in DOMAIN L[b] :
    L[a][k] = L[b][l] => a = b /\ k = l

\* The head of line a goes to the end of line b; x joins line b.
MovedOn(L, a, b) == [L EXCEPT ![a] = Tail(L[a]), ![b] = Append(L[b], Head(L[a]))]

Joined(L, b, x) == [L EXCEPT ![b] = Append(L[b], x)]

LEMMA AppendedAt ==
  ASSUME NEW S, NEW s \in Seq(S), NEW x \in S
  PROVE  /\ Append(s, x) \in Seq(S) /\ DOMAIN Append(s, x) = 1 .. Len(s) + 1
         /\ DOMAIN s = 1 .. Len(s) /\ Len(s) \in Nat
         /\ Append(s, x)[Len(s) + 1] = x
         /\ \A k \in DOMAIN s : Append(s, x)[k] = s[k]
OBVIOUS

LEMMA MovedPacket ==
  ASSUME NEW S, NEW P, NEW L \in [P -> Seq(S)], NEW a \in P, NEW b \in P, a # b,
         L[a] # <<>>
  PROVE  /\ Distinct(P, L) => Distinct(P, MovedOn(L, a, b))
         /\ \A r : Somewhere(P, MovedOn(L, a, b), r) <=> Somewhere(P, L, r)
<1> DEFINE M == MovedOn(L, a, b)
<1>1. /\ L[a] \in Seq(S) /\ L[b] \in Seq(S) /\ Head(L[a]) = L[a][1]
      /\ 1 \in DOMAIN L[a] /\ L[a][1] \in S
  OBVIOUS
<1>2. /\ M[a] = Tail(L[a]) /\ M[b] = Append(L[b], L[a][1])
      /\ \A c \in P : c # a /\ c # b => M[c] = L[c]
  BY <1>1 DEF MovedOn
<1> HIDE DEF M
<1>3. /\ \A k \in DOMAIN M[a] : k + 1 \in DOMAIN L[a] /\ M[a][k] = L[a][k + 1]
                                /\ k \in Nat /\ k >= 1
      /\ \A k \in DOMAIN L[a] : k = 1 \/ (k - 1 \in DOMAIN M[a] /\ M[a][k - 1] = L[a][k])
  BY <1>1, <1>2, TailIs
<1> DEFINE e == Len(L[b]) + 1
<1>4. /\ e \in DOMAIN M[b] /\ M[b][e] = L[a][1] /\ e \notin DOMAIN L[b]
      /\ \A k \in DOMAIN M[b] : k = e \/ (k \in DOMAIN L[b] /\ M[b][k] = L[b][k])
      /\ \A k \in DOMAIN L[b] : k \in DOMAIN M[b] /\ M[b][k] = L[b][k]
  BY <1>1, <1>2, AppendedAt
<1> HIDE DEF e
<1>5. ASSUME NEW c \in P, NEW k \in DOMAIN M[c]
      PROVE  \/ c = a /\ k + 1 \in DOMAIN L[a] /\ M[c][k] = L[a][k + 1] /\ k \in Nat /\ k >= 1
             \/ c = b /\ k = e /\ M[c][k] = L[a][1]
             \/ /\ c # a /\ k \in DOMAIN L[c] /\ M[c][k] = L[c][k]
  BY <1>2, <1>3, <1>4, <1>5
<1>6. ASSUME Distinct(P, L) PROVE Distinct(P, M)
  <2> SUFFICES ASSUME NEW c \in P, NEW d \in P, NEW k \in DOMAIN M[c], NEW l \in DOMAIN M[d],
                      M[c][k] = M[d][l]
               PROVE  c = d /\ k = l
    BY DEF Distinct
  <2>1. \A x, y \in P : \A i \in DOMAIN L[x], j \in DOMAIN L[y] : L[x][i] = L[y][j] => x = y /\ i = j
    BY <1>6 DEF Distinct
  <2>2. CASE c = a /\ k + 1 \in DOMAIN L[a] /\ M[c][k] = L[a][k + 1] /\ k \in Nat /\ k >= 1
    <3>1. CASE d = a /\ l + 1 \in DOMAIN L[a] /\ M[d][l] = L[a][l + 1] /\ l \in Nat /\ l >= 1
      <4>0. L[a][k + 1] = L[a][l + 1] /\ k + 1 \in DOMAIN L[a] /\ l + 1 \in DOMAIN L[a]
        BY <2>2, <3>1
      <4>1. k + 1 = l + 1
        BY <2>1, <4>0
      <4> QED
        BY <2>2, <3>1, <4>1
    <3>2. CASE d = b /\ l = e /\ M[d][l] = L[a][1]
      <4>0. L[a][k + 1] = L[a][1]
        BY <2>2, <3>2
      <4>1. k + 1 = 1
        BY <1>1, <2>1, <2>2, <4>0
      <4> QED
        BY <2>2, <4>1
    <3>3. CASE d # a /\ l \in DOMAIN L[d] /\ M[d][l] = L[d][l]
      <4>1. L[a][k + 1] = L[d][l] /\ d # a
        BY <2>2, <3>3
      <4>2. FALSE
        BY <2>1, <2>2, <3>3, <4>1
      <4> QED
        BY <4>2
    <3> QED
      BY <1>5, <3>1, <3>2, <3>3
  <2>3. CASE c = b /\ k = e /\ M[c][k] = L[a][1]
    <3>1. CASE d = a /\ l + 1 \in DOMAIN L[a] /\ M[d][l] = L[a][l + 1] /\ l \in Nat /\ l >= 1
      <4>0. L[a][1] = L[a][l + 1]
        BY <2>3, <3>1
      <4>1. l + 1 = 1
        BY <1>1, <2>1, <3>1, <4>0
      <4> QED
        BY <3>1, <4>1
    <3>2. CASE d = b /\ l = e /\ M[d][l] = L[a][1]
      BY <2>3, <3>2
    <3>3. CASE d # a /\ l \in DOMAIN L[d] /\ M[d][l] = L[d][l]
      <4>1. L[a][1] = L[d][l] /\ d # a
        BY <2>3, <3>3
      <4>2. FALSE
        BY <1>1, <2>1, <3>3, <4>1
      <4> QED
        BY <4>2
    <3> QED
      BY <1>5, <3>1, <3>2, <3>3
  <2>4. CASE c # a /\ k \in DOMAIN L[c] /\ M[c][k] = L[c][k]
    <3>1. CASE d = a /\ l + 1 \in DOMAIN L[a] /\ M[d][l] = L[a][l + 1] /\ l \in Nat /\ l >= 1
      <4>1. L[c][k] = L[a][l + 1] /\ c # a
        BY <2>4, <3>1
      <4>2. FALSE
        BY <2>1, <2>4, <3>1, <4>1
      <4> QED
        BY <4>2
    <3>2. CASE d = b /\ l = e /\ M[d][l] = L[a][1]
      <4>1. L[c][k] = L[a][1] /\ c # a
        BY <2>4, <3>2
      <4>2. FALSE
        BY <1>1, <2>1, <2>4, <4>1
      <4> QED
        BY <4>2
    <3>3. CASE d # a /\ l \in DOMAIN L[d] /\ M[d][l] = L[d][l]
      <4>1. L[c][k] = L[d][l]
        BY <2>4, <3>3
      <4> QED
        BY <2>1, <2>4, <3>3, <4>1
    <3> QED
      BY <1>5, <3>1, <3>2, <3>3
  <2> QED
    BY <1>5, <2>2, <2>3, <2>4
<1>7. ASSUME NEW r, Somewhere(P, M, r) PROVE Somewhere(P, L, r)
  <2>1. PICK c \in P : \E k \in DOMAIN M[c] : M[c][k] = r
    BY <1>7 DEF Somewhere
  <2>2. PICK k \in DOMAIN M[c] : M[c][k] = r
    BY <2>1
  <2> QED
    BY <1>1, <1>5, <2>2 DEF Somewhere
<1>8. ASSUME NEW r, Somewhere(P, L, r) PROVE Somewhere(P, M, r)
  <2>1. PICK c \in P : \E k \in DOMAIN L[c] : L[c][k] = r
    BY <1>8 DEF Somewhere
  <2>2. PICK k \in DOMAIN L[c] : L[c][k] = r
    BY <2>1
  <2>3. CASE c = a /\ k = 1
    BY <1>4, <2>2, <2>3 DEF Somewhere
  <2>4. CASE c = a /\ k # 1
    <3>1. k - 1 \in DOMAIN M[a] /\ M[a][k - 1] = r
      BY <1>3, <2>2, <2>4
    <3> QED
      BY <3>1 DEF Somewhere
  <2>5. CASE c = b
    BY <1>4, <2>2, <2>5 DEF Somewhere
  <2>6. CASE c # a /\ c # b
    BY <1>2, <2>2, <2>6 DEF Somewhere
  <2> QED
    BY <2>3, <2>4, <2>5, <2>6
<1> QED
  BY <1>6, <1>7, <1>8 DEF M

LEMMA AddedPacket ==
  ASSUME NEW S, NEW P, NEW L \in [P -> Seq(S)], NEW b \in P, NEW x \in S,
         ~Somewhere(P, L, x)
  PROVE  /\ Distinct(P, L) => Distinct(P, Joined(L, b, x))
         /\ \A r : Somewhere(P, Joined(L, b, x), r) <=> Somewhere(P, L, r) \/ r = x
<1> DEFINE M == Joined(L, b, x)
<1>1. /\ M[b] = Append(L[b], x) /\ L[b] \in Seq(S)
      /\ \A c \in P : c # b => M[c] = L[c]
  BY DEF Joined
<1> HIDE DEF M
<1> DEFINE e == Len(L[b]) + 1
<1>2. /\ e \in DOMAIN M[b] /\ M[b][e] = x /\ e \notin DOMAIN L[b]
      /\ \A k \in DOMAIN M[b] : k = e \/ (k \in DOMAIN L[b] /\ M[b][k] = L[b][k])
      /\ \A k \in DOMAIN L[b] : k \in DOMAIN M[b] /\ M[b][k] = L[b][k]
  BY <1>1, AppendedAt
<1> HIDE DEF e
<1>3. ASSUME NEW c \in P, NEW k \in DOMAIN M[c]
      PROVE  \/ c = b /\ k = e /\ M[c][k] = x
             \/ k \in DOMAIN L[c] /\ M[c][k] = L[c][k] /\ M[c][k] # x
  <2>1. (c = b /\ k = e /\ M[c][k] = x) \/ (k \in DOMAIN L[c] /\ M[c][k] = L[c][k])
    BY <1>1, <1>2, <1>3
  <2>2. k \in DOMAIN L[c] => L[c][k] # x
    BY DEF Somewhere
  <2> QED
    BY <2>1, <2>2
<1>4. ASSUME Distinct(P, L) PROVE Distinct(P, M)
  BY <1>3, <1>4 DEF Distinct
<1>5. ASSUME NEW c \in P, NEW k \in DOMAIN L[c]
      PROVE  k \in DOMAIN M[c] /\ M[c][k] = L[c][k]
  BY <1>1, <1>2, <1>5
<1>6. ASSUME NEW r PROVE Somewhere(P, M, r) <=> Somewhere(P, L, r) \/ r = x
  BY <1>2, <1>3, <1>5 DEF Somewhere
<1> QED
  BY <1>4, <1>6 DEF M

-----------------------------------------------------------------------------
(* The chain as lines that packets move along                              *)

\* The last place is the backend.
Place == 0 .. ChainSize

Lines == [a \in Place |-> IF a = ChainSize THEN flushed ELSE Held(a)]

\* Every packet is in one place, was produced before, and has not been
\* forgotten; nothing moves past the Gateway.
FlowInv ==
  /\ Distinct(Place, Lines)
  /\ \A a \in Place : \A k \in DOMAIN Lines[a] :
       Lines[a][k].num < localSeq[Lines[a][k].origin]
  /\ Held(Gateway) = <<>>
  /\ \A n \in Relay : \A r \in Own(n) \ dropped : Somewhere(Place, Lines, r)

LEMMA PlaceFacts ==
  /\ Node \subseteq Place /\ ChainSize \in Place /\ ChainSize \notin Node
  /\ Place = Node \cup {ChainSize} /\ Gateway \in Node
BY ChainAssumption DEF Place, Node, Gateway

LEMMA LinesType ==
  ASSUME TypeInv
  PROVE  Lines \in [Place -> Seq(Packet)]
BY PlaceFacts, HeldType DEF Lines, TypeInv, TypeOK

FlowMove ==
  /\ \E a \in Relay, b \in Place :
       /\ a # b /\ b # Gateway /\ Lines[a] # <<>>
       /\ Lines' = MovedOn(Lines, a, b)
  /\ localSeq' = localSeq

FlowAdd(n, b) ==
  /\ Lines' = Joined(Lines, b, [origin |-> n, boot |-> 0, num |-> localSeq[n]])
  /\ localSeq' = [localSeq EXCEPT ![n] = @ + 1]

FlowDrop(n) ==
  /\ Lines' = Lines
  /\ localSeq' = [localSeq EXCEPT ![n] = @ + 1]
  /\ [origin |-> n, boot |-> 0, num |-> localSeq[n]] \in dropped'

LEMMA FlowMoveStep ==
  ASSUME TypeInv, FlowInv, FlowMove, dropped \subseteq dropped'
  PROVE  FlowInv'
<1>1. PICK a \in Relay, b \in Place :
        /\ a # b /\ b # Gateway /\ Lines[a] # <<>>
        /\ Lines' = MovedOn(Lines, a, b)
  BY DEF FlowMove
<1>2. localSeq' = localSeq /\ a \in Place /\ a # Gateway
  BY PlaceFacts DEF FlowMove, Relay
<1>3. Lines \in [Place -> Seq(Packet)]
  BY LinesType
<1>4. /\ Distinct(Place, Lines) => Distinct(Place, Lines')
      /\ \A r : Somewhere(Place, Lines', r) <=> Somewhere(Place, Lines, r)
  BY <1>1, <1>2, <1>3, MovedPacket
<1>5. Distinct(Place, Lines)'
  BY <1>4 DEF FlowInv, Distinct
<1>6. \A c \in Place : \A k \in DOMAIN Lines'[c] :
        Lines'[c][k].num < localSeq'[Lines'[c][k].origin]
  <2> SUFFICES ASSUME NEW c \in Place, NEW k \in DOMAIN Lines'[c]
               PROVE  Lines'[c][k].num < localSeq[Lines'[c][k].origin]
    BY <1>2
  <2>1. Somewhere(Place, Lines, Lines'[c][k])
    BY <1>4 DEF Somewhere
  <2> QED
    BY <2>1 DEF Somewhere, FlowInv
<1>7. Held(Gateway)' = <<>>
  <2>1. Lines'[Gateway] = Lines[Gateway]
    BY <1>1, <1>2, <1>3, PlaceFacts DEF MovedOn
  <2>2. Lines[Gateway] = Held(Gateway) /\ Lines'[Gateway] = Held(Gateway)'
    BY PlaceFacts DEF Lines
  <2> QED
    BY <2>1, <2>2 DEF FlowInv
<1>8. ASSUME NEW n \in Relay, NEW r \in Own(n)' \ dropped'
      PROVE  Somewhere(Place, Lines', r)
  BY <1>2, <1>4, <1>8 DEF FlowInv, Own
<1> QED
  BY <1>5, <1>6, <1>7, <1>8 DEF FlowInv, Somewhere

LEMMA FlowAddStep ==
  ASSUME TypeInv, FlowInv, NEW n \in Node, NEW b \in Place, FlowAdd(n, b), b # Gateway,
         dropped \subseteq dropped'
  PROVE  FlowInv'
<1> DEFINE x == [origin |-> n, boot |-> 0, num |-> localSeq[n]]
<1>1. Lines' = Joined(Lines, b, x) /\ x \in Packet
  BY DEF FlowAdd, Packet, TypeInv, TypeOK
<1>2. /\ Lines \in [Place -> Seq(Packet)] /\ localSeq \in [Node -> Nat]
      /\ localSeq' = [localSeq EXCEPT ![n] = @ + 1]
  BY LinesType DEF FlowAdd, TypeInv, TypeOK
<1>3. /\ x.origin = n /\ x.num = localSeq[n] /\ localSeq[n] \in Nat
      /\ localSeq'[n] = localSeq[n] + 1
      /\ \A m \in Node : m # n => localSeq'[m] = localSeq[m]
  BY <1>2
<1>4. \A p : p \in Own(n)' => p \in Own(n) \/ p = x
  BY <1>3 DEF Own
<1> HIDE DEF x
<1>5. ASSUME NEW p, Somewhere(Place, Lines, p)
      PROVE  p \in Packet /\ p.num < localSeq[p.origin]
  BY <1>2, <1>5 DEF Somewhere, FlowInv
<1>6. ~Somewhere(Place, Lines, x)
  BY <1>3, <1>5
<1>7. /\ Distinct(Place, Lines) => Distinct(Place, Lines')
      /\ \A r : Somewhere(Place, Lines', r) <=> Somewhere(Place, Lines, r) \/ r = x
  BY <1>1, <1>2, <1>6, AddedPacket
<1>8. Distinct(Place, Lines)'
  BY <1>7 DEF FlowInv, Distinct
<1>9. ASSUME NEW c \in Place, NEW k \in DOMAIN Lines'[c]
      PROVE  Lines'[c][k].num < localSeq'[Lines'[c][k].origin]
  <2> DEFINE p == Lines'[c][k]
  <2>1. Somewhere(Place, Lines', p)
    BY DEF Somewhere
  <2> HIDE DEF p
  <2>2. CASE p = x
    BY <1>3, <2>2 DEF p
  <2>3. CASE Somewhere(Place, Lines, p)
    <3>1. /\ p.origin \in Node /\ p.num \in Nat /\ localSeq[p.origin] \in Nat
          /\ p.num < localSeq[p.origin]
      BY <1>2, <1>5, <2>3 DEF Packet
    <3>2. p.num < localSeq'[p.origin]
      BY <1>3, <3>1
    <3> QED
      BY <3>2 DEF p
  <2> QED
    BY <1>7, <2>1, <2>2, <2>3
<1>10. Held(Gateway)' = <<>>
  <2>1. Lines'[Gateway] = Lines[Gateway]
    BY <1>1, <1>2, PlaceFacts DEF Joined
  <2>2. Lines[Gateway] = Held(Gateway) /\ Lines'[Gateway] = Held(Gateway)'
    BY PlaceFacts DEF Lines
  <2> QED
    BY <2>1, <2>2 DEF FlowInv
<1>11. ASSUME NEW m \in Relay, NEW r \in Own(m)' \ dropped'
       PROVE  Somewhere(Place, Lines', r)
  <2>1. m \in Node
    BY DEF Relay
  <2>2. CASE r = x
    BY <1>7, <2>2
  <2>3. CASE r # x
    <3>1. r \in Own(m)
      BY <1>3, <1>4, <2>1, <2>3, <1>11 DEF Own
    <3> QED
      BY <1>7, <1>11, <3>1 DEF FlowInv
  <2> QED
    BY <2>2, <2>3
<1> QED
  BY <1>8, <1>9, <1>10, <1>11 DEF FlowInv, Somewhere

LEMMA FlowDropStep ==
  ASSUME TypeInv, FlowInv, NEW n \in Relay, FlowDrop(n), dropped \subseteq dropped'
  PROVE  FlowInv'
<1> DEFINE x == [origin |-> n, boot |-> 0, num |-> localSeq[n]]
<1>1. n \in Node /\ Lines' = Lines /\ x \in dropped'
  BY DEF FlowDrop, Relay
<1>2. /\ Lines \in [Place -> Seq(Packet)] /\ localSeq \in [Node -> Nat]
      /\ localSeq' = [localSeq EXCEPT ![n] = @ + 1]
  BY LinesType DEF FlowDrop, TypeInv, TypeOK
<1>3. /\ localSeq[n] \in Nat /\ localSeq'[n] = localSeq[n] + 1
      /\ \A m \in Node : m # n => localSeq'[m] = localSeq[m]
  BY <1>1, <1>2
<1>4. \A p : p \in Own(n)' => p \in Own(n) \/ p = x
  BY <1>3 DEF Own
<1> HIDE DEF x
<1>5. Distinct(Place, Lines)'
  BY <1>1 DEF FlowInv, Distinct
<1>6. ASSUME NEW c \in Place, NEW k \in DOMAIN Lines'[c]
      PROVE  Lines'[c][k].num < localSeq'[Lines'[c][k].origin]
  <2>1. Lines[c][k] \in Packet /\ Lines[c][k].num < localSeq[Lines[c][k].origin]
    BY <1>1, <1>2, <1>6 DEF FlowInv
  <2>2. Lines[c][k].origin \in Node /\ Lines[c][k].num \in Nat
        /\ localSeq[Lines[c][k].origin] \in Nat
    BY <1>2, <2>1 DEF Packet
  <2> QED
    BY <1>1, <1>3, <2>1, <2>2
<1>7. Held(Gateway)' = <<>>
  <2>1. Lines[Gateway] = Held(Gateway) /\ Lines'[Gateway] = Held(Gateway)'
    BY PlaceFacts DEF Lines
  <2> QED
    BY <1>1, <2>1 DEF FlowInv
<1>8. ASSUME NEW m \in Relay, NEW r \in Own(m)' \ dropped'
      PROVE  Somewhere(Place, Lines', r)
  <2>1. m \in Node /\ r # x
    BY <1>1, <1>8 DEF Relay
  <2>2. r \in Own(m)
    BY <1>3, <1>4, <2>1, <1>8 DEF Own
  <2> QED
    BY <1>1, <1>8, <2>2 DEF FlowInv
<1> QED
  BY <1>5, <1>6, <1>7, <1>8 DEF FlowInv, Somewhere

LEMMA FlowSameStep ==
  ASSUME FlowInv, Lines' = Lines, localSeq' = localSeq, dropped \subseteq dropped'
  PROVE  FlowInv'
<1>1. Lines[Gateway] = Held(Gateway) /\ Lines'[Gateway] = Held(Gateway)'
  BY PlaceFacts DEF Lines
<1>2. \A n \in Relay : Own(n)' = Own(n)
  BY DEF Own
<1> QED
  BY <1>1, <1>2 DEF FlowInv, Distinct, Somewhere

-----------------------------------------------------------------------------
(* Every step of the chain is one of the lines                             *)

\* Only a full queue loses a reading, and loop() counts it.
LEMMA DropCounted ==
  ASSUME NoResetAssumption, SimulationInv, [Next]_vars, NEW n \in Relay,
         localSeq'[n] # localSeq[n], Held(n)' = Held(n)
  PROVE  Reading(n) \in dropped'
<1> TypeInv /\ StopAndWaitInv /\ QuietInv
  BY DEF SimulationInv
<1>1. ASSUME NEW localDue \in BOOLEAN, NEW i \in Node, HoldsAfter(i, localDue)
      PROVE  Reading(n) \in dropped'
  <2>1. Originate(i, localDue)
    BY <1>1 DEF HoldsAfter
  <2>2. localDue = TRUE /\ n = i
    <3>1. localDue = TRUE
      BY <1>1, <2>1 DEF Originate
    <3>2. localSeq' = [localSeq EXCEPT ![i] = @ + 1]
      BY <2>1, <3>1 DEF Originate
    <3>3. n \in Node /\ localSeq \in [Node -> Nat]
      BY DEF Relay, TypeInv, TypeOK
    <3> QED
      BY <3>1, <3>2, <3>3
  <2>3. CASE HasRoom(n)
    <3>1. Held(n) = Append(Held(n), Reading(n))
      BY <1>1, <2>2, <2>3 DEF HoldsAfter
    <3>2. Held(n) \in Seq(Packet) /\ Reading(n) \in Packet
      BY <2>1, <2>2, HeldType, TypeOriginate DEF Relay
    <3> QED
      BY <3>1, <3>2, AppendedAt
  <2>4. CASE ~HasRoom(n)
    BY <2>1, <2>2, <2>4 DEF Originate
  <2> QED
    BY <2>3, <2>4
<1>2. ASSUME NEW i \in Powered, Loop(i)
      PROVE  Reading(n) \in dropped'
  <2>1. i \in Node
    BY DEF Powered
  <2>2. CASE LoopGateway(i)
    BY <2>2 DEF LoopGateway, Relay, TypeInv, TypeOK
  <2>3. ASSUME NEW localDue \in BOOLEAN, NEW ackDue \in BOOLEAN,
               LoopForwarding(i, localDue, ackDue)
        PROVE  Reading(n) \in dropped'
    BY <1>1, <2>1, <2>3, LoopForwardingHolds
  <2>4. ASSUME NEW localDue \in BOOLEAN, LoopIdle(i, localDue)
        PROVE  Reading(n) \in dropped'
    BY <1>1, <2>1, <2>4, LoopIdleHolds
  <2> QED
    BY <1>2, <2>2, <2>3, <2>4 DEF Loop
<1>3. \E i \in Powered : Loop(i)
  <2>1. \A i \in Powered : ~Reboot(i)
    BY NoReboot DEF Powered
  <2>2. localSeq' # localSeq
    OBVIOUS
  <2> QED
    BY <2>1, <2>2
       DEF Next, HandleHello, HandleStatus, IgnoreStatus, ReAckDuplicate, SinkStatus,
           QueueStatus, RefuseStatus, HandleAck, LoseStatus, LoseAck, vars, ram, history
<1> QED
  BY <1>2, <1>3

LEMMA DroppedStays ==
  ASSUME [Next]_vars
  PROVE  dropped \subseteq dropped'
BY DEF Next, HandleHello, HandleStatus, IgnoreStatus, ReAckDuplicate, SinkStatus,
       QueueStatus, RefuseStatus, HandleAck, LoseStatus, LoseAck, vars, ram, history,
       Loop, LoopGateway, LoopForwarding, LoopIdle, Originate, Reboot

LEMMA FlowStep ==
  ASSUME NoResetAssumption, SimulationInv, FlowInv, [Next]_vars
  PROVE  FlowInv'
<1> TypeInv /\ QuietInv /\ dropped \subseteq dropped'
  BY DroppedStays DEF SimulationInv
<1>1. /\ Lines = [a \in Place |-> IF a = ChainSize THEN flushed ELSE Held(a)]
      /\ Lines' = [a \in Place |-> IF a = ChainSize THEN flushed' ELSE Held(a)']
      /\ \A a \in Node : Lines[a] = Held(a) /\ a \in Place /\ a # ChainSize
      /\ Lines[ChainSize] = flushed
  BY PlaceFacts DEF Lines
<1>2. CASE UNCHANGED Pipeline!pipe
  <2>1. /\ [n \in Node |-> Held(n)'] = [n \in Node |-> Held(n)]
        /\ flushed' = flushed /\ localSeq' = localSeq
    BY <1>2 DEF Pipeline!pipe
  <2>2. \A n \in Node : Held(n)' = Held(n)
    BY <2>1
  <2>3. Lines' = Lines
    BY <1>1, <2>1, <2>2, PlaceFacts
  <2> QED
    BY <2>1, <2>3, FlowSameStep
<1>3. CASE Pipeline!OriginateAtGateway
  <2>1. /\ [n \in Node |-> Held(n)'] = [n \in Node |-> Held(n)]
        /\ flushed' = Append(flushed, [origin |-> Gateway, boot |-> 0, num |-> localSeq[Gateway]])
        /\ localSeq' = [localSeq EXCEPT ![Gateway] = @ + 1]
    BY <1>3, PipeNames DEF Pipeline!OriginateAtGateway, Pipeline!Produce, Pipeline!New
  <2>2. \A n \in Node : Held(n)' = Held(n)
    BY <2>1
  <2>3. FlowAdd(Gateway, ChainSize)
    BY <1>1, <2>1, <2>2, PlaceFacts DEF FlowAdd, Joined
  <2> QED
    BY <2>3, PlaceFacts, FlowAddStep
<1>4. ASSUME NEW n \in Relay, Pipeline!Originate(n)
      PROVE  FlowInv'
  <2>0. n \in Node /\ n # Gateway
    BY DEF Relay
  <2>1. /\ [i \in Node |-> Held(i)'] =
             [[i \in Node |-> Held(i)] EXCEPT ![n] =
                Append(@, [origin |-> n, boot |-> 0, num |-> localSeq[n]])]
        /\ flushed' = flushed
        /\ localSeq' = [localSeq EXCEPT ![n] = @ + 1]
    BY <1>4 DEF Pipeline!Originate, Pipeline!Produce, Pipeline!New
  <2>2. /\ Held(n)' = Append(Held(n), [origin |-> n, boot |-> 0, num |-> localSeq[n]])
        /\ \A i \in Node : i # n => Held(i)' = Held(i)
    BY <2>0, <2>1
  <2>3. FlowAdd(n, n)
    BY <1>1, <2>0, <2>1, <2>2, PlaceFacts DEF FlowAdd, Joined
  <2> QED
    BY <1>1, <2>0, <2>3, FlowAddStep
<1>5. ASSUME NEW n \in Relay, Pipeline!Discard(n)
      PROVE  FlowInv'
  <2>0. n \in Node
    BY DEF Relay
  <2>1. /\ [i \in Node |-> Held(i)'] = [i \in Node |-> Held(i)]
        /\ flushed' = flushed
        /\ localSeq' = [localSeq EXCEPT ![n] = @ + 1]
    BY <1>5 DEF Pipeline!Discard, Pipeline!Produce
  <2>2. \A i \in Node : Held(i)' = Held(i)
    BY <2>1
  <2>3. localSeq'[n] # localSeq[n]
    BY <2>0, <2>1 DEF TypeInv, TypeOK
  <2>4. Reading(n) \in dropped'
    BY <2>0, <2>2, <2>3, DropCounted
  <2>5. Reading(n) = [origin |-> n, boot |-> 0, num |-> localSeq[n]]
    BY <2>0 DEF Reading, QuietInv
  <2>6. FlowDrop(n)
    BY <1>1, <2>1, <2>2, <2>4, <2>5, PlaceFacts DEF FlowDrop
  <2> QED
    BY <2>6, FlowDropStep
<1>6. ASSUME NEW n \in Relay, Pipeline!Move(n)
      PROVE  FlowInv'
  <2>0. /\ n \in Node /\ NextId(n) \in Node /\ NextId(n) # n /\ NextId(n) # Gateway
        /\ Held(n) # <<>>
    BY <1>6, PipeNames, RelayFacts, RingFacts DEF Pipeline!Move, Relay, Node, NextId, Gateway
  <2>1. /\ [i \in Node |-> Held(i)'] =
             [[i \in Node |-> Held(i)] EXCEPT
                ![n] = Tail(@), ![NextId(n)] = Append(@, Head([i \in Node |-> Held(i)][n]))]
        /\ flushed' = flushed /\ localSeq' = localSeq
    BY <1>6, <2>0, PipeNames DEF Pipeline!Move
  <2>2. /\ Held(n)' = Tail(Held(n))
        /\ Held(NextId(n))' = Append(Held(NextId(n)), Head(Held(n)))
        /\ \A i \in Node : i # n /\ i # NextId(n) => Held(i)' = Held(i)
    BY <2>0, <2>1
  <2>3. Lines' = MovedOn(Lines, n, NextId(n))
    BY <1>1, <2>0, <2>1, <2>2, PlaceFacts DEF MovedOn
  <2>4. FlowMove
    BY <1>1, <2>0, <2>1, <2>3 DEF FlowMove
  <2> QED
    BY <2>4, FlowMoveStep
<1>7. ASSUME NEW n \in Relay, Pipeline!Deliver(n)
      PROVE  FlowInv'
  <2>0. n \in Node /\ Held(n) # <<>>
    BY <1>7 DEF Pipeline!Deliver, Relay
  <2>1. /\ [i \in Node |-> Held(i)'] = [[i \in Node |-> Held(i)] EXCEPT ![n] = Tail(@)]
        /\ flushed' = Append(flushed, Head([i \in Node |-> Held(i)][n]))
        /\ localSeq' = localSeq
    BY <1>7 DEF Pipeline!Deliver
  <2>2. /\ Held(n)' = Tail(Held(n)) /\ flushed' = Append(flushed, Head(Held(n)))
        /\ \A i \in Node : i # n => Held(i)' = Held(i)
    BY <2>0, <2>1
  <2>3. Lines' = MovedOn(Lines, n, ChainSize)
    BY <1>1, <2>0, <2>1, <2>2, PlaceFacts DEF MovedOn
  <2>4. FlowMove
    BY <1>1, <2>0, <2>1, <2>3, PlaceFacts DEF FlowMove
  <2> QED
    BY <2>4, FlowMoveStep
<1> QED
  BY <1>2, <1>3, <1>4, <1>5, <1>6, <1>7, SimStep, PipeNames DEF PipeStep, Pipeline!Next

LEMMA FlowInit ==
  ASSUME NoResetAssumption, Init
  PROVE  FlowInv
<1>1. \A a \in Place : Lines[a] = <<>>
  BY PlaceFacts DEF Lines, Init, Held
<1>2. \A n \in Relay : Own(n) = {}
  BY DEF Own, Init, Relay
<1>3. Held(Gateway) = <<>>
  BY PlaceFacts DEF Init, Held
<1> QED
  BY <1>1, <1>2, <1>3 DEF FlowInv, Distinct

LEMMA OnceFollows ==
  ASSUME TypeInv, FlowInv
  PROVE  FlushedOnce
<1>1. Lines[ChainSize] = flushed /\ ChainSize \in Place
  BY PlaceFacts DEF Lines
<1> QED
  BY <1>1 DEF FlowInv, Distinct, FlushedOnce

LEMMA NothingLostFollows ==
  ASSUME TypeInv, FlowInv
  PROVE  NothingLostOnTheWay
<1> SUFFICES ASSUME NEW n \in Relay, NEW r \in Own(n) \ dropped
             PROVE  \/ /\ r \in Readings(flushed)
                       /\ \A m \in Relay : r \notin Readings(Held(m))
                    \/ /\ r \notin Readings(flushed)
                       /\ \E m \in Relay : /\ r \in Readings(Held(m))
                                           /\ \A k \in Relay : r \in Readings(Held(k)) => k = m
  BY DEF NothingLostOnTheWay
<1>1. /\ Lines[ChainSize] = flushed /\ ChainSize \in Place
      /\ \A m \in Relay : Lines[m] = Held(m) /\ m \in Place /\ m # ChainSize
  BY PlaceFacts DEF Lines, Relay
<1>2. \A a, b \in Place : r \in Readings(Lines[a]) /\ r \in Readings(Lines[b]) => a = b
  BY DEF FlowInv, Distinct, Readings
<1>3. PICK a \in Place : r \in Readings(Lines[a])
  BY DEF FlowInv, Somewhere, Readings
<1>4. CASE a = ChainSize
  BY <1>1, <1>2, <1>3, <1>4
<1>5. CASE a # ChainSize
  <2>1. a # Gateway
    <3>1. Lines[Gateway] = <<>>
      BY PlaceFacts DEF FlowInv, Lines
    <3> QED
      BY <1>3, <3>1 DEF Readings
  <2>2. a \in Relay
    BY <1>5, <2>1, PlaceFacts DEF Relay
  <2> QED
    BY <1>1, <1>2, <1>3, <1>5, <2>2
<1> QED
  BY <1>4, <1>5

\* While no board resets the chain is a row of bounded FIFO buffers: whatever
\* the radio loses and however often loop() retransmits, a reading accepted by
\* handleStatus() leaves the buffer of the node before at that very moment,
\* behind all readings before it, and is flushed by the Gateway exactly once.
THEOREM PipelineCorrect ==
  ASSUME NoResetAssumption
  PROVE  Spec => ImplementsPipeline
<1>1. Init => SimulationInv /\ Pipeline!Init
  BY InitType, InvInit, SimInit DEF SimulationInv
<1>2. SimulationInv /\ [Next]_vars => SimulationInv'
  BY TypeStep, InvStep, QuietStep DEF SimulationInv
<1>3. SimulationInv /\ [Next]_vars => [Pipeline!Next]_Pipeline!pipe
  BY SimStep DEF PipeStep
<1> QED
  BY <1>1, <1>2, <1>3, PTL DEF Spec, ImplementsPipeline, Pipeline!Spec

\* handleStatus() and loop() together flush no reading twice, for any number of
\* lost packets, lost ACKs and retransmissions.
THEOREM FlushedOnceCorrect ==
  ASSUME NoResetAssumption
  PROVE  Spec => []FlushedOnce
<1>1. Init => SimulationInv /\ FlowInv
  BY InitType, InvInit, SimInit, FlowInit DEF SimulationInv
<1>2. SimulationInv /\ FlowInv /\ [Next]_vars => SimulationInv' /\ FlowInv'
  BY TypeStep, InvStep, QuietStep, FlowStep DEF SimulationInv
<1>3. SimulationInv /\ FlowInv => FlushedOnce
  BY OnceFollows DEF SimulationInv
<1> QED
  BY <1>1, <1>2, <1>3, PTL DEF Spec

\* A reading that loop() has put in its queue is with exactly one relay until
\* the Gateway has flushed it: handleAck() gives it up when, and not before,
\* the next node has it.
THEOREM NothingLostCorrect ==
  ASSUME NoResetAssumption
  PROVE  Spec => []NothingLostOnTheWay
<1>1. Init => SimulationInv /\ FlowInv
  BY InitType, InvInit, SimInit, FlowInit DEF SimulationInv
<1>2. SimulationInv /\ FlowInv /\ [Next]_vars => SimulationInv' /\ FlowInv'
  BY TypeStep, InvStep, QuietStep, FlowStep DEF SimulationInv
<1>3. SimulationInv /\ FlowInv => NothingLostOnTheWay
  BY NothingLostFollows DEF SimulationInv
<1> QED
  BY <1>1, <1>2, <1>3, PTL DEF Spec
=============================================================================
