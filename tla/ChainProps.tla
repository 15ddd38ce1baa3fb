----------------------------- MODULE ChainProps ----------------------------
(***************************************************************************)
(* What the status chain of ChainNode must do.  The first part holds while *)
(* no board resets (MaxBoots = 0), the second whatever resets.             *)
(***************************************************************************)
EXTENDS ChainNode, FiniteSets

Readings(s) == {s[i] : i \in DOMAIN s}

-----------------------------------------------------------------------------
(* No board resets                                                         *)

Arrived(n) == lastAccepted[NextId(n)] = pending[n]

\* The readings n is responsible for: the one it is sending, until NextId(n)
\* has accepted it, then its queue.
Held(n) ==
  (IF state[n] = "Forwarding" /\ ~Arrived(n) THEN <<pending[n]>> ELSE <<>>)
    \o outQueue[n]

\* handleAck() frees the slot only for a packet next has queued or flushed,
\* and a packet still unaccepted keeps the slot: a stale ACK, of an earlier
\* packet or of an earlier transmission, never passes for the one awaited.
SlotFreedOnlyIfAccepted ==
  \A n \in Relay : state[n] # "Forwarding" => Arrived(n)

\* The dedup of handleStatus() and the stop-and-wait of loop(): however often
\* packets and ACKs are lost and retransmitted, no reading reaches
\* gateway_uplink::flush() twice.
FlushedOnce ==
  \A i, j \in DOMAIN flushed : flushed[i] = flushed[j] => i = j

Own(n) == [origin : {n}, boot : {0}, num : 0 .. localSeq[n] - 1]

\* A reading a relay has produced and not dropped for want of room is with
\* exactly one relay, or flushed: never nowhere and never at two.
NothingLostOnTheWay ==
  \A n \in Relay : \A r \in Own(n) \ dropped :
    \/ /\ r \in Readings(flushed)
       /\ \A m \in Relay : r \notin Readings(Held(m))
    \/ /\ r \notin Readings(flushed)
       /\ \E m \in Relay : /\ r \in Readings(Held(m))
                           /\ \A k \in Relay : r \in Readings(Held(k)) => k = m

\* The chain implements a row of FIFO buffers.
Pipeline == INSTANCE ChainPipeline WITH
  Size <- ChainSize,
  Depth <- QueueDepth,
  buffer <- [n \in Node |-> Held(n)],
  delivered <- flushed,
  produced <- localSeq

ImplementsPipeline == Pipeline!Spec

-----------------------------------------------------------------------------
(* Boards reset                                                            *)

Before(p, q) == p.boot < q.boot \/ (p.boot = q.boot /\ p.num < q.num)

AtOrBefore(p, q) == p.origin = q.origin => (p = q \/ Before(p, q))

InOrder(s) == \A i, j \in DOMAIN s : i < j => AtOrBefore(s[i], s[j])

\* Whatever resets, an older reading of a lane never overtakes a newer one:
\* the backend, which keeps the last reading of each lane, never goes back.
\* (A reading may be repeated: a relay that resets has forgotten the dedup
\* key, and accepts the retransmission of what it had accepted before.)
NeverGoesBack == InOrder(flushed)

\* What belongs to each node, with the node it belongs to.
Tagged(C) == UNION {{n} \X C[n] : n \in Node}

\* Resets between r's producer and the backend.
ResetsBelow(r) ==
  Cardinality(Tagged([n \in Node |->
    IF n = Gateway \/ n > r.origin THEN 1 .. boots[n] ELSE {}]))

\* Each repetition costs a reset: retransmission alone never makes one.
RepeatsNeedResets ==
  \A i \in DOMAIN flushed :
    Cardinality({j \in DOMAIN flushed : flushed[j] = flushed[i]})
      <= 1 + ResetsBelow(flushed[i])

-----------------------------------------------------------------------------
(* Liveness, under FairSpec                                                *)

\* Lost packets, lost ACKs, a full queue downstream and resets: no relay
\* waits for one ACK for ever.
SlotIsFreed ==
  \A n \in Relay : [](state[n] = "Forwarding" => <>(state[n] # "Forwarding"))

\* Every reading a relay has put in its queue is flushed in the end, unless
\* some board has reset in the meantime.
EveryReadingArrives ==
  \A n \in Relay : \A k \in 0 .. MaxReadings[n] - 1 :
    LET r == [origin |-> n, boot |-> 0, num |-> k]
    IN  (localSeq[n] > k /\ r \notin dropped) ~> (r \in Readings(flushed) \/ \E m \in Node : boots[m] > 0)

\* A board that has reset finds its neighbours again, without any of them
\* being reset too.
DiscoveryCompletes == \A n \in Node : <>[](state[n] # "Discovering")

-----------------------------------------------------------------------------
(* What the comments and the documents say, and the code does not do       *)

\* "we already processed (queued/flushed) this content once": what
\* handleStatus() re-ACKs without processing is the packet it accepted last.
\* Not so once its origin has reset: its readings are numbered from 0 again,
\* and the (origin, seq) of a new one can be that of the last one accepted.
DuplicateWasProcessed ==
  [][\A n \in Node : ReAckDuplicate(n) => Arriving(n) = lastAccepted[n]]_vars
=============================================================================
