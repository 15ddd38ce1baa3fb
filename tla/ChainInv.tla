------------------------------ MODULE ChainInv -----------------------------
(***************************************************************************)
(* The inductive invariants behind the theorems about the chain.  That of  *)
(* a chain in which no board resets, StopAndWaitInv, has two halves: what  *)
(* the two links of a hop may hold, and why no two neighbours in a node's  *)
(* line of packets can be mistaken for each other by (origin, seq).        *)
(* OrderInv and RepeatsInv are about any chain: nothing older is behind    *)
(* anything newer, and what there is of a reading is paid for by resets.   *)
(***************************************************************************)
EXTENDS ChainProps

\* The proofs need no reset, and that fewer than SeqMod - 1 readings in a row
\* are lost to a full queue: with 2^16 sequence numbers and a reading every
\* 2 s, that is 36 hours of a hop that moves nothing.
NoResetAssumption ==
  /\ MaxBoots = [n \in Node |-> 0]
  /\ MaxDropRun + 1 < SeqMod

-----------------------------------------------------------------------------
(* One hop: p is what a relay sent last (or NoPacket), last is what its    *)
(* next accepted last, status and acks are the two links between them, and *)
(* waiting says whether the relay is in state Forwarding.                  *)

\* b is sent after a, with nothing between them, and cannot pass for it.
Follows(a, b) ==
  a.origin = b.origin => a.num < b.num /\ b.num - a.num < SeqMod

Unused(last, status, acks, waiting) ==
  last = NoPacket /\ status = <<>> /\ acks = <<>> /\ ~waiting

\* p has been accepted: only copies of it are left, and behind the first ACK
\* for it only ACKs for it; no other ACK is left once the relay has its ACK.
Accepted(last, p, status, acks, waiting) ==
  /\ last = p
  /\ \A k \in DOMAIN status : status[k] = p
  /\ \A k, l \in DOMAIN acks :
       k < l /\ acks[k] = AckOf(p) => acks[l] = AckOf(p)
  /\ ~waiting => \A k \in DOMAIN acks : acks[k] = AckOf(p)

\* p has not been accepted: copies of the packet before it, then copies of
\* it, and no ACK but for the packet before it.
Outstanding(last, p, status, acks, waiting) ==
  /\ waiting
  /\ last # p
  /\ last # NoPacket => Follows(last, p)
  /\ \A k \in DOMAIN status : status[k] \in {last, p}
  /\ \A k, l \in DOMAIN status : k < l /\ status[k] = p => status[l] = p
  /\ \A k \in DOMAIN acks : last # NoPacket /\ acks[k] = AckOf(last)

Hop(last, p, status, acks, waiting) ==
  \/ p = NoPacket /\ Unused(last, status, acks, waiting)
  \/ p # NoPacket /\ Accepted(last, p, status, acks, waiting)
  \/ p # NoPacket /\ Outstanding(last, p, status, acks, waiting)

HopInv(n) ==
  Hop(lastAccepted[NextId(n)], pending[n], statusLink[n], ackLink[n],
      state[n] = "Forwarding")

-----------------------------------------------------------------------------
(* The line of packets of relay n: p, the one it sent last, then its queue *)
(* q; run, seq and last are its dropRun, localSeq and lastAccepted.        *)

\* Only nodes 1 .. n can have produced what n sends.
InLine(n, p) == 1 <= p.origin /\ p.origin <= n

\* The last packet of the line is n's last reading that was not dropped, or
\* the last packet n has accepted.
EndsWith(n, p, run, seq, last) ==
  /\ p.origin = n => p.num + 1 + run = seq
  /\ p.origin # n => p = last

Line(n, p, q, run, seq, last) ==
  /\ run <= MaxDropRun
  /\ \A k \in DOMAIN q : InLine(n, q[k])
  /\ \A k \in DOMAIN q : k + 1 \in DOMAIN q => Follows(q[k], q[k + 1])
  /\ q # <<>> => EndsWith(n, q[Len(q)], run, seq, last)
  /\ p # NoPacket =>
       /\ InLine(n, p)
       /\ q # <<>> => Follows(p, q[1])
       /\ q = <<>> => EndsWith(n, p, run, seq, last)

LineInv(n) ==
  Line(n, pending[n], outQueue[n], dropRun[n], localSeq[n], lastAccepted[n])

-----------------------------------------------------------------------------
\* Nothing is on its way from the Gateway to node 1, and of every relay the
\* hop and the line are as above: what makes SlotFreedOnlyIfAccepted hold,
\* strengthened until every step preserves it.
StopAndWaitInv ==
  /\ statusLink[Gateway] = <<>>
  /\ \A n \in Relay : HopInv(n) /\ LineInv(n)

-----------------------------------------------------------------------------
(* The order of what is under way, whatever resets                         *)

\* Every p is at or before every q of its origin.
Ahead(P, Q) == \A p \in P, q \in Q : AtOrBefore(p, q)

Slot(n) == {pending[n]} \ {NoPacket}

\* What is on its way from n, or waiting there.
Carried(n) == Readings(statusLink[n]) \cup Slot(n) \cup Readings(outQueue[n])

Produced(p) ==
  \/ p.boot < boots[p.origin]
  \/ p.boot = boots[p.origin] /\ p.num < localSeq[p.origin]

\* From next backwards: the link, the slot, the queue.
OwnOrder(n) ==
  /\ InOrder(statusLink[n]) /\ InOrder(outQueue[n])
  /\ Ahead(Readings(statusLink[n]), Slot(n) \cup Readings(outQueue[n]))
  /\ Ahead(Slot(n), Readings(outQueue[n]))

\* What the backend has comes before what is on its way, and what is closer to
\* the Gateway before what is farther from it.
OrderInv ==
  /\ statusLink[Gateway] = <<>>
  /\ InOrder(flushed)
  /\ \A p \in Readings(flushed) : Produced(p)
  /\ \A n \in Relay : OwnOrder(n)
  /\ \A n \in Relay : Ahead(Readings(flushed), Carried(n))
  /\ \A n, m \in Relay : m < n => Ahead(Carried(n), Carried(m))
  /\ \A n \in Relay : \A p \in Carried(n) : InLine(n, p) /\ Produced(p)

-----------------------------------------------------------------------------
(* How often a reading can still be accepted, whatever resets              *)

\* What n sends, in the order in which its next will see it.
OnTheWay(n) ==
  statusLink[n] \o (IF state[n] = "Forwarding" THEN <<pending[n]>> ELSE <<>>) \o outQueue[n]

\* The copies of r in s that are not right behind another one, or behind last.
Starts(last, s, r) ==
  {i \in DOMAIN s : s[i] = r /\ (IF i = 1 THEN last ELSE s[i - 1]) # r}

\* The times r has been flushed, and those it can still be accepted by the next
\* of each relay: once for each run of copies, but for what next has already.
Copies(r) ==
  [n \in Node |->
    IF n = Gateway THEN {i \in DOMAIN flushed : flushed[i] = r}
                   ELSE Starts(lastAccepted[NextId(n)], OnTheWay(n), r)]

\* Only a reset that makes r's next forget it adds to the copies of r.
RepeatsInv == \A r \in Packet : Cardinality(Tagged(Copies(r))) <= 1 + ResetsBelow(r)
=============================================================================
