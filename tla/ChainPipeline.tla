--------------------------- MODULE ChainPipeline ---------------------------
(***************************************************************************)
(* What the status chain promises while no board resets: a row of bounded  *)
(* FIFO buffers.  A reading enters the buffer of the node that produced    *)
(* it, moves one buffer closer to the Gateway at a time, in one step,      *)
(* behind everything that was there before it, and leaves at the Gateway   *)
(* exactly once.  Only its producer can lose it, and only when its buffer  *)
(* is full.  Radio, retransmissions, ACKs and discovery do not appear.     *)
(***************************************************************************)
EXTENDS Integers, Sequences

CONSTANTS
  Size,       \* number of nodes
  Depth       \* readings a node keeps behind the one it is sending

Node == 0 .. Size - 1
Gateway == 0
Relay == Node \ {Gateway}
NextOf(n) == IF n = Size - 1 THEN 0 ELSE n + 1

Reading == [origin : Node, boot : {0}, num : Nat]

VARIABLES
  buffer,     \* readings each node is responsible for, oldest first
  delivered,  \* readings the Gateway has passed on, in order
  produced    \* number of readings each node has produced

pipe == <<buffer, delivered, produced>>

Init ==
  /\ buffer = [n \in Node |-> <<>>]
  /\ delivered = <<>>
  /\ produced = [n \in Node |-> 0]

New(n) == [origin |-> n, boot |-> 0, num |-> produced[n]]

Produce(n) == produced' = [produced EXCEPT ![n] = @ + 1]

Originate(n) ==
  /\ n # Gateway /\ Len(buffer[n]) <= Depth
  /\ Produce(n)
  /\ buffer' = [buffer EXCEPT ![n] = Append(@, New(n))]
  /\ UNCHANGED delivered

\* The buffer is full (or the reading being sent has just left it).
Discard(n) ==
  /\ n # Gateway /\ Len(buffer[n]) >= Depth
  /\ Produce(n)
  /\ UNCHANGED <<buffer, delivered>>

OriginateAtGateway ==
  /\ Produce(Gateway)
  /\ delivered' = Append(delivered, New(Gateway))
  /\ UNCHANGED buffer

Move(n) ==
  /\ n # Gateway /\ NextOf(n) # Gateway
  /\ buffer[n] # <<>> /\ Len(buffer[NextOf(n)]) <= Depth
  /\ buffer' = [buffer EXCEPT ![n] = Tail(@),
                              ![NextOf(n)] = Append(@, Head(buffer[n]))]
  /\ UNCHANGED <<delivered, produced>>

Deliver(n) ==
  /\ n # Gateway /\ NextOf(n) = Gateway
  /\ buffer[n] # <<>>
  /\ buffer' = [buffer EXCEPT ![n] = Tail(@)]
  /\ delivered' = Append(delivered, Head(buffer[n]))
  /\ UNCHANGED produced

Next ==
  \/ OriginateAtGateway
  \/ \E n \in Relay : Originate(n) \/ Discard(n) \/ Move(n) \/ Deliver(n)

Spec == Init /\ [][Next]_pipe
=============================================================================
