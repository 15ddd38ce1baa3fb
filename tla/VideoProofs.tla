---------------------------- MODULE VideoProofs ----------------------------
(* Theorems about a video hop, for every value of the constants. *)
EXTENDS VideoInv, SequenceTheorems, TLAPS

LEMMA UnitTypes ==
  ASSUME NEW f \in Frame
  PROVE  /\ Header(f) \in Unit
         /\ \A k \in 0 .. Pieces : Piece(f, k) \in Unit
         /\ Beat \in Unit
         /\ UnitsOf(f) \in Seq(Unit)
         /\ Len(UnitsOf(f)) = Pieces + 1
         /\ \A i \in 1 .. Pieces + 1 :
              UnitsOf(f)[i] = IF i = 1 THEN Header(f) ELSE Piece(f, Pieces + 2 - i)
  <1>1. Pieces \in Nat \ {0}
    BY VideoAssumption
  <1>2. /\ Header(f) \in Unit
        /\ \A k \in 0 .. Pieces : Piece(f, k) \in Unit
        /\ Beat \in Unit
    BY <1>1 DEF Header, Piece, Beat, Unit
  <1>3. \A i \in 1 .. Pieces + 1 :
          (IF i = 1 THEN Header(f) ELSE Piece(f, Pieces + 2 - i)) \in Unit
    <2> TAKE i \in 1 .. Pieces + 1
    <2>1. CASE i = 1
      BY <2>1, <1>2
    <2>2. CASE i # 1
      <3>1. Pieces + 2 - i \in 0 .. Pieces
        BY <2>2, <1>1
      <3> QED BY <3>1, <2>2, <1>2
    <2> QED BY <2>1, <2>2
  <1>4. UnitsOf(f) \in [1 .. Pieces + 1 -> Unit]
    BY <1>3 DEF UnitsOf
  <1>5. UnitsOf(f) \in Seq(Unit) /\ Len(UnitsOf(f)) = Pieces + 1
    BY <1>4, <1>1
  <1> QED BY <1>2, <1>5 DEF UnitsOf

LEMMA BeatType == <<Beat>> \in Seq(Unit)
  <1>1. Beat \in Unit
    BY VideoAssumption DEF Beat, Unit
  <1> QED BY <1>1

\* What can become of a connection leaves it a connection.
LEMMA ConnTypes ==
  /\ Fresh \in Conn
  /\ NoConn \in Conn
  /\ \A c \in Conn : /\ c.data \in Seq(Unit)
                     /\ c.data # <<>> => /\ Head(c.data) \in Unit
                                         /\ Tail(c.data) \in Seq(Unit)
                     /\ \A u \in Unit : Append(c.data, u) \in Seq(Unit)
                     /\ \A k \in 0 .. Len(c.data) : SubSeq(c.data, 1, k) \in Seq(Unit)
  BY DEF Fresh, Conn, NoConn

\* ... and leaves the rest as it is.
LEMMA ConnUpdates ==
  ASSUME TypeOK, NEW c \in Side
  PROVE  /\ \A d \in Seq(Unit) : [conn EXCEPT ![c].data = d] \in [Side -> Conn]
         /\ \A e \in {"open", "fin", "silent", "none"} :
              [conn EXCEPT ![c].end = e] \in [Side -> Conn]
         /\ \A r \in Conn : [conn EXCEPT ![c] = r] \in [Side -> Conn]
         /\ conn[c] \in Conn
  BY DEF TypeOK, Conn

USE DEF Side

LEMMA TypeInit == Init => TypeOK
  BY VideoAssumption DEF Init, TypeOK, NoConn, Conn, NoRx, AnyFrame

LEMMA TypeStep ==
  ASSUME TypeOK, [Next]_vars
  PROVE  TypeOK'
  <1> USE VideoAssumption
  <1>1. ASSUME NEW p \in Producer, Produce(p)
        PROVE  TypeOK'
    <2> DEFINE f == [from |-> p, num |-> made[p] + 1]
    <2>1. f \in Frame
      BY DEF TypeOK, Frame
    <2> HIDE DEF f
    <2> QED BY <1>1, <2>1 DEF Produce, TypeOK, client, tcp, server, f
  <1>2. ASSUME NEW p \in Producer, Enqueue(p)
        PROVE  TypeOK'
    BY <1>2 DEF Enqueue, TypeOK, client, tcp, server, history
  <1>3. ASSUME NEW p \in Producer, DropFull(p)
        PROVE  TypeOK'
    BY <1>3 DEF DropFull, TypeOK, client, tcp, server, history
  <1>4. ASSUME Connect PROVE TypeOK'
    BY <1>4, ConnTypes DEF Connect, TypeOK, server, history
  <1>5. ASSUME TakeFrame PROVE TypeOK'
    <2>1. Head(outQueue) \in Frame /\ Tail(outQueue) \in Seq(Frame)
          /\ Len(Tail(outQueue)) <= QueueDepth
      BY <1>5 DEF TakeFrame, TypeOK
    <2> QED BY <1>5, <2>1, UnitTypes DEF TakeFrame, TypeOK, tcp, server, history
  <1>6. ASSUME TakeNothing PROVE TypeOK'
    BY <1>6, BeatType DEF TakeNothing, TypeOK, tcp, server, history
  <1>7. ASSUME Write PROVE TypeOK'
    <2>1. Head(toSend) \in Unit /\ Tail(toSend) \in Seq(Unit)
      BY <1>7 DEF Write, TypeOK
    <2>2. conn' \in [Side -> Conn]
      <3>1. CASE clientOn \in Side
                 /\ conn' = [conn EXCEPT ![clientOn].data = Append(@, Head(toSend))]
        <4>1. Append(conn[clientOn].data, Head(toSend)) \in Seq(Unit)
          BY <2>1, <3>1, ConnTypes, ConnUpdates
        <4> QED BY <4>1, <3>1, ConnUpdates
      <3>2. CASE UNCHANGED conn
        BY <3>2 DEF TypeOK
      <3> QED BY <1>7, <3>1, <3>2 DEF Write
    <2> QED BY <1>7, <2>1, <2>2 DEF Write, TypeOK, server, history
  <1>8. ASSUME Sent PROVE TypeOK'
    BY <1>8 DEF Sent, TypeOK, tcp, server, history
  <1>9. ASSUME Abandon, UNCHANGED <<held, outQueue, server, made, delivered, drainStalls>>,
               faults' \in Nat
        PROVE  TypeOK'
    <2>1. conn' \in [Side -> Conn]
      BY <1>9, ConnUpdates DEF Abandon, TypeOK
    <2> QED BY <1>9, <2>1 DEF Abandon, TypeOK, server
  <1>10. ASSUME WriteFails \/ WriteStalls PROVE TypeOK'
    BY <1>9, <1>10 DEF WriteFails, WriteStalls, Fault, history, TypeOK
  <1>11. ASSUME Accept PROVE TypeOK'
    <2>1. conn' \in [Side -> Conn]
      BY <1>11, ConnTypes, ConnUpdates DEF Accept
    <2> QED BY <1>11, <2>1 DEF Accept, AfterAccept, TypeOK, relay, client, history
  <1>12. ASSUME Read PROVE conn' \in [Side -> Conn] /\ Arriving \in Unit
    <2>1. conn["accepted"].data # <<>>
          /\ conn' = [conn EXCEPT !["accepted"].data = Tail(@)]
      BY <1>12 DEF Read
    <2>2. Arriving \in Unit /\ Tail(conn["accepted"].data) \in Seq(Unit)
      BY <2>1, ConnTypes, ConnUpdates DEF Arriving
    <2> QED BY <2>1, <2>2, ConnUpdates
  <1>13. ASSUME HangUp
         PROVE  /\ conn' \in [Side -> Conn]
                /\ clientOn' \in Side \cup {"lost", "none"}
                /\ rx' \in [frame : AnyFrame, left : 0 .. Pieces, whole : BOOLEAN]
    <2>1. conn' \in [Side -> Conn]
      BY <1>13, ConnTypes, ConnUpdates DEF HangUp
    <2> QED BY <1>13, <2>1 DEF HangUp, TypeOK, NoRx, AnyFrame
  <1>14. ASSUME NEW f \in AnyFrame, NEW left \in 0 .. Pieces, NEW whole \in BOOLEAN,
                Read, Begin(f, left, whole), UNCHANGED <<relay, history>>
         PROVE  TypeOK'
    BY <1>14, <1>12 DEF Begin, Read, TypeOK, relay, client, history
  <1>15. ASSUME ReadHeader PROVE TypeOK'
    <2>1. Arriving.frame \in AnyFrame /\ Arriving.left \in 0 .. Pieces
      BY <1>15, <1>12 DEF ReadHeader, Unit, AnyFrame
    <2> QED BY <1>15, <1>14, <2>1 DEF ReadHeader
  <1>16. ASSUME ReadBeat PROVE TypeOK'
    BY <1>16, <1>12 DEF ReadBeat, Read, TypeOK, relay, client, server, history
  <1>17. ASSUME Misread PROVE TypeOK'
    <2>1. CASE HangUp /\ UNCHANGED nextHeap
      BY <1>17, <2>1, <1>13 DEF Misread, HangUp, TypeOK, relay, client, history
    <2>2. CASE Read /\ UNCHANGED server
      BY <1>17, <2>2, <1>12 DEF Misread, Read, TypeOK, relay, client, server, history
    <2>3. CASE Read /\ \E left \in 1 .. Pieces : Begin(Garbage, left, FALSE)
      <3>1. PICK left \in 1 .. Pieces : Begin(Garbage, left, FALSE)
        BY <2>3
      <3>2. Garbage \in AnyFrame /\ left \in 0 .. Pieces /\ FALSE \in BOOLEAN
        BY DEF AnyFrame
      <3>3. Read /\ UNCHANGED <<relay, history>>
        BY <1>17, <2>3 DEF Misread
      <3> QED BY <3>1, <3>2, <3>3, <1>14
    <2> QED BY <1>17, <2>1, <2>2, <2>3 DEF Misread
  <1>rx. /\ NoRx \in [frame : AnyFrame, left : 0 .. Pieces, whole : BOOLEAN]
         /\ \A b \in BOOLEAN :
              rx.left > 1 => [rx EXCEPT !.left = @ - 1, !.whole = b]
                               \in [frame : AnyFrame, left : 0 .. Pieces, whole : BOOLEAN]
    <2>1. Pieces \in Nat
      OBVIOUS
    <2>2. NoRx \in [frame : AnyFrame, left : 0 .. Pieces, whole : BOOLEAN]
      BY <2>1 DEF NoRx, AnyFrame
    <2>3. ASSUME NEW b \in BOOLEAN, rx.left > 1
          PROVE  [rx EXCEPT !.left = @ - 1, !.whole = b]
                   \in [frame : AnyFrame, left : 0 .. Pieces, whole : BOOLEAN]
      <3>1. rx.left - 1 \in 0 .. Pieces
        BY <2>1, <2>3 DEF TypeOK
      <3> QED BY <2>3, <3>1 DEF TypeOK
    <2> QED BY <2>2, <2>3
  <1>18. ASSUME ReadBody PROVE TypeOK'
    <2> DEFINE whole == rx.whole /\ Arriving = Expected
    <2>1. whole \in BOOLEAN
      BY DEF TypeOK
    <2> HIDE DEF whole
    <2>2. [frame |-> rx.frame, whole |-> whole] \in [frame : AnyFrame, whole : BOOLEAN]
      BY <2>1 DEF TypeOK
    <2>3. CASE rx.left > 1
      <3>1. rx' = [rx EXCEPT !.left = @ - 1, !.whole = whole]
        BY <1>18, <2>3 DEF ReadBody, whole
      <3>2. rx' \in [frame : AnyFrame, left : 0 .. Pieces, whole : BOOLEAN]
        BY <2>1, <2>3, <3>1, <1>rx
      <3> QED BY <1>18, <1>12, <2>3, <3>2 DEF ReadBody, Read, TypeOK, relay, client
    <2>4. CASE ~(rx.left > 1)
      <3>1. delivered' = Append(delivered, [frame |-> rx.frame, whole |-> whole])
            /\ rx' = NoRx /\ serverPc' = "Header" /\ nextHeap' = nextHeap \ {rx.frame}
        BY <1>18, <2>4 DEF ReadBody, whole
      <3>2. delivered' \in Seq([frame : AnyFrame, whole : BOOLEAN])
        BY <2>2, <3>1 DEF TypeOK
      <3> QED BY <1>18, <1>12, <1>rx, <3>1, <3>2 DEF ReadBody, Read, TypeOK, relay, client
    <2> QED BY <2>3, <2>4
  <1>19. ASSUME ReadDrain PROVE TypeOK'
    <2>1. rx' \in [frame : AnyFrame, left : 0 .. Pieces, whole : BOOLEAN]
      <3>1. rx.whole \in BOOLEAN
        BY DEF TypeOK
      <3>2. CASE rx.left > 1 /\ rx' = [rx EXCEPT !.left = @ - 1]
        <4>1. rx' = [rx EXCEPT !.left = @ - 1, !.whole = rx.whole]
          BY <3>2 DEF TypeOK
        <4> QED BY <3>1, <3>2, <4>1, <1>rx
      <3> QED BY <1>19, <1>rx, <3>2 DEF ReadDrain
    <2> QED BY <1>19, <1>12, <2>1 DEF ReadDrain, Read, TypeOK, relay, client, history
  <1>20. ASSUME GiveUp, UNCHANGED <<relay, made, delivered>>,
                faults' \in Nat, drainStalls' \in Nat
         PROVE  TypeOK'
    <2>1. CASE serverPc \in {"Header", "Body"} /\ HangUp /\ nextHeap' = nextHeap \ {rx.frame}
      BY <1>20, <1>13, <2>1 DEF HangUp, TypeOK, relay, client
    <2>2. CASE serverPc' = "Header" /\ rx' = NoRx /\ UNCHANGED <<tcp, nextHeap>>
      BY <1>20, <2>2 DEF TypeOK, relay, client, tcp, NoRx, AnyFrame
    <2> QED BY <1>20, <2>1, <2>2 DEF GiveUp
  <1>21. ASSUME ReadFails \/ ReadStalls PROVE TypeOK'
    <2>1. GiveUp /\ UNCHANGED <<relay, made, delivered>>
      BY <1>21 DEF ReadFails, ReadStalls, history
    <2>2. faults' \in Nat /\ drainStalls' \in Nat
      BY <1>21 DEF ReadFails, ReadStalls, Fault, TypeOK, history
    <2> QED BY <1>20, <2>1, <2>2
  <1>22. \A c \in Side, k \in Nat, e \in {"fin", "silent"} :
           k <= Len(conn[c].data) =>
             [conn EXCEPT ![c] = CutAt(c, k, e)] \in [Side -> Conn]
    <2> TAKE c \in Side, k \in Nat, e \in {"fin", "silent"}
    <2> HAVE k <= Len(conn[c].data)
    <2>1. SubSeq(conn[c].data, 1, k) \in Seq(Unit)
      BY ConnTypes, ConnUpdates
    <2>2. CutAt(c, k, e) \in Conn
      BY <2>1 DEF CutAt, Conn
    <2> QED BY <2>2, ConnUpdates
  <1>23. ASSUME NEW c \in Side, Break(c) PROVE TypeOK'
    <2>1. conn' \in [Side -> Conn]
      BY <1>22, <1>23 DEF Break
    <2> QED BY <1>23, <2>1 DEF Break, Fault, TypeOK, relay, client, server
  <1>24. ASSUME ResetRelay PROVE TypeOK'
    <2>1. conn' \in [Side -> Conn]
      BY <1>22, <1>24 DEF ResetRelay, TypeOK
    <2> QED BY <1>24, <2>1 DEF ResetRelay, Fault, TypeOK, server
  <1>25. ASSUME ResetNext PROVE TypeOK'
    BY <1>25, ConnTypes DEF ResetNext, Fault, TypeOK, relay, client, NoRx, AnyFrame
  <1>26. ASSUME UNCHANGED vars PROVE TypeOK'
    BY <1>26 DEF TypeOK, vars, relay, client, tcp, server, history
  <1> QED
    BY <1>1, <1>2, <1>3, <1>4, <1>5, <1>6, <1>7, <1>8, <1>10, <1>11, <1>15, <1>16,
       <1>17, <1>18, <1>19, <1>21, <1>23, <1>24, <1>25, <1>26 DEF Next, ServerReads

\* Every variable keeps its type, whatever fails: in particular the queue of
\* frames never holds more than kVideoQueueDepth.
THEOREM TypeCorrect == Spec => []TypeOK
  <1>1. TypeOK /\ [Next]_vars => TypeOK'
    BY TypeStep
  <1> QED
    BY <1>1, TypeInit, PTL DEF Spec

-----------------------------------------------------------------------------
(* Buffers *)

LEMMA ElementsOfAppend ==
  ASSUME NEW S, NEW s \in Seq(S), NEW e \in S
  PROVE  /\ Elements(Append(s, e)) = Elements(s) \cup {e}
         /\ (e \notin Elements(s) /\ \A i, j \in DOMAIN s : s[i] = s[j] => i = j)
              => \A i, j \in DOMAIN Append(s, e) :
                   Append(s, e)[i] = Append(s, e)[j] => i = j
  <1> DEFINE t == Append(s, e)
  <1>1. /\ t \in Seq(S) /\ DOMAIN t = 1 .. Len(s) + 1 /\ DOMAIN s = 1 .. Len(s)
        /\ Len(s) \in Nat
        /\ \A i \in 1 .. Len(s) : t[i] = s[i]
        /\ t[Len(s) + 1] = e
    OBVIOUS
  <1> HIDE DEF t
  <1>2. Elements(t) = Elements(s) \cup {e}
    BY <1>1 DEF Elements
  <1>3. ASSUME e \notin Elements(s), \A i, j \in DOMAIN s : s[i] = s[j] => i = j,
               NEW i \in DOMAIN t, NEW j \in DOMAIN t, t[i] = t[j]
        PROVE  i = j
    BY <1>1, <1>3 DEF Elements
  <1> QED BY <1>2, <1>3 DEF t

LEMMA ElementsOfTail ==
  ASSUME NEW S, NEW s \in Seq(S), s # <<>>,
         \A i, j \in DOMAIN s : s[i] = s[j] => i = j
  PROVE  /\ Head(s) \in Elements(s)
         /\ Elements(Tail(s)) = Elements(s) \ {Head(s)}
         /\ \A i, j \in DOMAIN Tail(s) : Tail(s)[i] = Tail(s)[j] => i = j
  <1> DEFINE t == Tail(s)
             h == Head(s)
  <1>1. /\ t \in Seq(S) /\ DOMAIN t = 1 .. Len(s) - 1 /\ DOMAIN s = 1 .. Len(s)
        /\ Len(s) \in Nat \ {0}
        /\ \A i \in 1 .. Len(s) - 1 : t[i] = s[i + 1]
        /\ h = s[1]
    OBVIOUS
  <1> HIDE DEF t, h
  <1>2. h \in Elements(s)
    BY <1>1 DEF Elements
  <1>3. Elements(t) \subseteq Elements(s) \ {h}
    <2> SUFFICES ASSUME NEW i \in DOMAIN t PROVE t[i] \in Elements(s) /\ t[i] # h
      BY DEF Elements
    <2>1. i + 1 \in DOMAIN s /\ 1 \in DOMAIN s /\ i + 1 # 1 /\ t[i] = s[i + 1]
      BY <1>1
    <2> QED BY <1>1, <2>1 DEF Elements
  <1>4. ASSUME NEW i \in DOMAIN s, s[i] # h PROVE s[i] \in Elements(t)
    <2>1. i - 1 \in DOMAIN t /\ t[i - 1] = s[i]
      BY <1>1, <1>4
    <2> QED BY <2>1 DEF Elements
  <1>5. Elements(s) \ {h} \subseteq Elements(t)
    BY <1>4 DEF Elements
  <1>6. ASSUME NEW i \in DOMAIN t, NEW j \in DOMAIN t, t[i] = t[j] PROVE i = j
    <2>1. i + 1 \in DOMAIN s /\ j + 1 \in DOMAIN s /\ s[i + 1] = s[j + 1]
      BY <1>1, <1>6
    <2>2. i + 1 = j + 1
      BY <2>1
    <2> QED BY <1>1, <2>2
  <1> QED BY <1>2, <1>3, <1>5, <1>6 DEF t, h

\* A buffer in someone's hands is allocated.
LEMMA RelayFacts ==
  ASSUME TypeOK, RelayInv
  PROVE  /\ Elements(outQueue) \subseteq heap
         /\ NoFrame \notin heap
         /\ \A p \in Producer : held[p] # NoFrame => held[p] \in heap
         /\ current # NoFrame => current \in heap
  <1>1. heap = Owned
    BY DEF RelayInv, RelayOwns
  <1>2. NoFrame \notin Frame
    BY DEF NoFrame, Frame
  <1>3. NoFrame \notin heap
    BY <1>2 DEF TypeOK
  <1>4. Elements(outQueue) \subseteq heap
    BY <1>1 DEF Owned
  <1>5. \A p \in Producer : held[p] # NoFrame => held[p] \in heap
    BY <1>1 DEF Owned, Holding
  <1>6. current # NoFrame => current \in heap
    BY <1>1 DEF Owned
  <1> QED BY <1>3, <1>4, <1>5, <1>6

LEMMA RelayProduce ==
  ASSUME TypeOK, RelayInv, NEW p \in Producer, Produce(p)
  PROVE  RelayInv'
  <1> DEFINE f == [from |-> p, num |-> made[p] + 1]
  <1>1. f \in Frame /\ f # NoFrame /\ f.from = p /\ f.num = made[p] + 1 /\ made[p] \in Nat
    BY DEF Frame, NoFrame, TypeOK
  <1>2. f \notin heap
    BY <1>1 DEF RelayInv, Used
  <1> HIDE DEF f
  <1>3. /\ held' = [held EXCEPT ![p] = f] /\ held[p] = NoFrame
        /\ heap' = heap \cup {f} /\ made' = [made EXCEPT ![p] = @ + 1]
        /\ UNCHANGED <<outQueue, clientPc, current, toSend>>
    BY DEF Produce, f, client
  <1>4. Holding' = Holding \cup {p}
    BY <1>1, <1>3 DEF Holding, TypeOK
  <1>5. \A q \in Producer : held'[q] = IF q = p THEN f ELSE held[q]
    BY <1>3 DEF TypeOK
  <1>6. Owned' = Owned \cup {f}
    BY <1>1, <1>3, <1>4, <1>5 DEF Owned, Holding, Elements
  <1>7. \A q \in Holding' : held'[q].from = q
    BY <1>1, <1>4, <1>5 DEF RelayInv, Holding
  <1>8. \A g \in heap' : Used(g)'
    <2> SUFFICES ASSUME NEW g \in heap' PROVE g.from \in Producer /\ g.num <= made'[g.from]
      BY DEF Used
    <2>1. CASE g = f
      BY <2>1, <1>1, <1>3 DEF TypeOK
    <2>2. CASE g \in heap
      <3>1. g.from \in Producer /\ g.num <= made[g.from] /\ g.num \in Nat
        BY <2>2 DEF RelayInv, Used, TypeOK, Frame
      <3> QED BY <3>1, <1>3 DEF TypeOK
    <2> QED BY <2>1, <2>2, <1>3
  <1>9. \A q \in Holding' : held'[q] # current' /\ held'[q] \notin Elements(outQueue')
    <2> SUFFICES ASSUME NEW q \in Holding'
                 PROVE  held'[q] # current /\ held'[q] \notin Elements(outQueue)
      BY <1>3
    <2>1. CASE q = p
      BY <2>1, <1>1, <1>2, <1>5, RelayFacts DEF Holding
    <2>2. CASE q # p
      BY <2>2, <1>4, <1>5 DEF RelayInv, RelayOwns, Holding
    <2> QED BY <2>1, <2>2
  <1>10. \A q, r \in Holding' : held'[q] = held'[r] => q = r
    BY <1>7
  <1>11. RelayOwns'
    BY <1>3, <1>6, <1>9, <1>10 DEF RelayInv, RelayOwns, Elements
  <1> QED BY <1>3, <1>7, <1>8, <1>11 DEF RelayInv

\* A producer lets go of its frame: to the queue, or to nobody.
LEMMA RelayEnqueue ==
  ASSUME TypeOK, RelayInv, NEW p \in Producer, Enqueue(p) \/ DropFull(p)
  PROVE  RelayInv'
  <1> DEFINE f == held[p]
  <1>1. /\ f \in Frame /\ f # NoFrame /\ p \in Holding
        /\ held' = [held EXCEPT ![p] = NoFrame]
        /\ UNCHANGED <<clientPc, current, toSend, made>>
    BY DEF Enqueue, DropFull, TypeOK, Holding, client, history
  <1>2. f \notin Elements(outQueue) /\ f # current
    BY <1>1 DEF RelayInv, RelayOwns
  <1>3. \A q \in Holding : q # p => held[q] # f
    BY <1>1 DEF RelayInv, RelayOwns
  <1> HIDE DEF f
  <1>4. Holding' = Holding \ {p} /\ \A q \in Producer : q # p => held'[q] = held[q]
    BY <1>1 DEF Holding, TypeOK
  <1>5. \A q \in Holding' : held'[q].from = q
    BY <1>4 DEF RelayInv, Holding
  <1>6. CASE Enqueue(p)
    <2>1. outQueue' = Append(outQueue, f) /\ heap' = heap
      BY <1>6 DEF Enqueue, f
    <2>2. /\ Elements(outQueue') = Elements(outQueue) \cup {f}
          /\ \A i, j \in DOMAIN outQueue' : outQueue'[i] = outQueue'[j] => i = j
      BY <1>1, <1>2, <2>1, ElementsOfAppend DEF RelayInv, RelayOwns, TypeOK
    <2>3. Owned' = Owned
      BY <1>1, <1>4, <2>2 DEF Owned, Holding, Elements, f
    <2>4. RelayOwns'
      BY <1>1, <1>2, <1>3, <1>4, <1>5, <2>1, <2>2, <2>3 DEF RelayInv, RelayOwns, Holding, Elements
    <2> QED BY <1>1, <1>5, <2>1, <2>4 DEF RelayInv, Used
  <1>7. CASE DropFull(p)
    <2>1. outQueue' = outQueue /\ heap' = heap \ {f}
      BY <1>7 DEF DropFull, f
    <2>2. Owned' = Owned \ {f}
      BY <1>1, <1>2, <1>3, <1>4, <2>1 DEF Owned, Holding, Elements, f
    <2>3. RelayOwns'
      BY <1>1, <1>4, <1>5, <2>1, <2>2 DEF RelayInv, RelayOwns, Holding, Elements
    <2> QED BY <1>1, <1>5, <2>1, <2>3 DEF RelayInv, Used
  <1> QED BY <1>6, <1>7

LEMMA RelayTakeFrame ==
  ASSUME TypeOK, RelayInv, TakeFrame
  PROVE  RelayInv'
  <1> DEFINE f == Head(outQueue)
  <1>1. /\ current = NoFrame /\ f \in Frame /\ current' = f
        /\ outQueue' = Tail(outQueue) /\ clientPc' = "Sending"
        /\ UNCHANGED <<held, heap, made>>
    BY DEF TakeFrame, RelayInv, TypeOK, history
  <1>2. /\ f \in Elements(outQueue)
        /\ Elements(outQueue') = Elements(outQueue) \ {f}
        /\ \A i, j \in DOMAIN outQueue' : outQueue'[i] = outQueue'[j] => i = j
    BY <1>1, ElementsOfTail DEF TakeFrame, RelayInv, RelayOwns, TypeOK
  <1>3. f # NoFrame
    BY <1>1 DEF Frame, NoFrame
  <1> HIDE DEF f
  <1>4. Holding' = Holding
    BY <1>1 DEF Holding
  <1>5. Owned' = Owned
    <2>1. Owned = {held[p] : p \in Holding} \cup Elements(outQueue)
      BY <1>1 DEF Owned
    <2>2. Owned' = {held[p] : p \in Holding} \cup Elements(outQueue') \cup {f}
      BY <1>1, <1>3, <1>4 DEF Owned, Elements
    <2> QED BY <2>1, <2>2, <1>2
  <1>6. RelayOwns'
    <2>1. (heap = Owned)'
      BY <1>1, <1>5 DEF RelayInv, RelayOwns
    <2>2. \A p \in Holding : held[p] # f /\ held[p] \notin Elements(outQueue)
      BY <1>2 DEF RelayInv, RelayOwns
    <2>3. (\A p \in Holding : held[p] # current /\ held[p] \notin Elements(outQueue))'
      BY <1>1, <1>2, <1>4, <2>2
    <2>4. (current \notin Elements(outQueue))'
      BY <1>1, <1>2
    <2> QED BY <1>1, <1>2, <1>4, <2>1, <2>3, <2>4 DEF RelayInv, RelayOwns
  <1> QED BY <1>1, <1>4, <1>6 DEF RelayInv, Used

\* The frame being sent is freed, sent or not.
LEMMA RelayFree ==
  ASSUME TypeOK, RelayInv, heap' = heap \ {current}, current' = NoFrame, toSend' = <<>>,
         UNCHANGED <<held, outQueue, made>>
  PROVE  RelayInv'
  <1>1. Holding' = Holding /\ Elements(outQueue)' = Elements(outQueue)
    BY DEF Holding, Elements
  <1>2. /\ heap = Owned
        /\ \A p \in Holding : held[p] # current
        /\ current \notin Elements(outQueue)
    BY DEF RelayInv, RelayOwns
  <1>3. Owned' = Owned \ {current}
    BY <1>1, <1>2 DEF Owned, Holding
  <1>4. NoFrame \notin Elements(outQueue)
    BY RelayFacts
  <1>5. \A p \in Holding : held[p] # NoFrame
    BY DEF Holding
  <1>6. heap' = Owned'
    BY <1>2, <1>3
  <1>7. RelayOwns'
    BY <1>1, <1>2, <1>4, <1>5, <1>6 DEF RelayInv, RelayOwns
  <1> QED BY <1>1, <1>7 DEF RelayInv, Used

LEMMA RelayReset ==
  ASSUME TypeOK, RelayInv, ResetRelay
  PROVE  RelayInv'
  <1>1. Holding' = {} /\ Elements(outQueue)' = {} /\ current' = NoFrame /\ heap' = {}
    BY DEF ResetRelay, Holding, Elements
  <1>2. Owned' = {}
    BY <1>1 DEF Owned
  <1> QED BY <1>1, <1>2 DEF RelayInv, RelayOwns, ResetRelay

LEMMA RelayStutter ==
  ASSUME RelayInv, UNCHANGED <<held, outQueue, current, heap, made>>,
         clientPc' = "Sending" \/ (current' = NoFrame /\ toSend' = <<>>)
  PROVE  RelayInv'
  <1>1. Holding' = Holding /\ Owned' = Owned /\ Elements(outQueue)' = Elements(outQueue)
    BY DEF Holding, Owned, Elements
  <1> QED BY <1>1 DEF RelayInv, RelayOwns, Used

LEMMA RelayStep ==
  ASSUME TypeOK, RelayInv, [Next]_vars
  PROVE  RelayInv'
  <1>1. ASSUME NEW p \in Producer, Produce(p) \/ Enqueue(p) \/ DropFull(p)
        PROVE  RelayInv'
    BY <1>1, RelayProduce, RelayEnqueue
  <1>2. CASE TakeFrame
    BY <1>2, RelayTakeFrame
  <1>3. CASE Connect \/ TakeNothing \/ Write
    BY <1>3, RelayStutter DEF RelayInv, Connect, TakeNothing, Write, history
  <1>4. CASE Sent \/ WriteFails \/ WriteStalls
    BY <1>4, RelayFree DEF Sent, WriteFails, WriteStalls, Abandon, history
  <1>5. CASE ResetRelay
    BY <1>5, RelayReset
  <1>6. ASSUME UNCHANGED <<relay, made>> PROVE RelayInv'
    BY <1>6, RelayStutter DEF RelayInv, relay, client
  <1>7. CASE Accept \/ ServerReads \/ ReadStalls \/ ResetNext \/ (\E c \in Side : Break(c))
    BY <1>6, <1>7 DEF Accept, ServerReads, ReadHeader, ReadBeat, Misread, ReadBody, ReadDrain,
                      ReadFails, ReadStalls, ResetNext, Break, history
  <1>8. CASE UNCHANGED vars
    BY <1>6, <1>8 DEF vars, history
  <1> QED BY <1>1, <1>2, <1>3, <1>4, <1>5, <1>7, <1>8 DEF Next

LEMMA NextOwnsStep ==
  ASSUME TypeOK, NextOwns, [Next]_vars
  PROVE  NextOwns'
  <1>1. CASE ReadHeader
    BY <1>1 DEF ReadHeader, Begin, NextOwns
  <1>2. CASE Misread
    BY <1>2 DEF Misread, HangUp, Begin, NextOwns, server
  <1>3. CASE ReadBody
    BY <1>3 DEF ReadBody, NextOwns, TypeOK
  <1>4. CASE ReadDrain \/ ResetNext
    BY <1>4 DEF ReadDrain, ResetNext, NextOwns
  <1>5. CASE ReadFails \/ ReadStalls
    BY <1>5 DEF ReadFails, ReadStalls, GiveUp, HangUp, NextOwns
  <1>6. CASE Accept
    BY <1>6 DEF Accept, NextOwns
  <1>7. ASSUME UNCHANGED server PROVE NextOwns'
    BY <1>7 DEF server, NextOwns
  <1>8. ASSUME NEW p \in Producer, Produce(p) \/ Enqueue(p) \/ DropFull(p)
        PROVE  NextOwns'
    BY <1>7, <1>8 DEF Produce, Enqueue, DropFull
  <1>9. CASE \/ Connect \/ TakeFrame \/ TakeNothing \/ Write \/ Sent \/ WriteFails
             \/ WriteStalls \/ ReadBeat \/ ResetRelay \/ (\E c \in Side : Break(c))
             \/ UNCHANGED vars
    BY <1>7, <1>9 DEF Connect, TakeFrame, TakeNothing, Write, Sent, WriteFails, WriteStalls,
                      ReadBeat, ResetRelay, Break, vars
  <1> QED BY <1>1, <1>2, <1>3, <1>4, <1>5, <1>6, <1>8, <1>9 DEF Next, ServerReads

\* Every frame buffer of the relay has one owner and every one of next is the
\* one being filled, through any sequence of faults: no leak, no double free.
THEOREM OneOwnerCorrect == Spec => []OneOwnerPerBuffer
  <1>1. Init => TypeOK /\ BuffersInv
    <2>1. Init => Holding = {} /\ Elements(outQueue) = {} /\ Owned = {}
      BY DEF Init, Holding, Elements, Owned
    <2> QED BY <2>1, TypeInit DEF Init, BuffersInv, RelayInv, RelayOwns, NextOwns
  <1>2. TypeOK /\ BuffersInv /\ [Next]_vars => (TypeOK /\ BuffersInv)'
    BY TypeStep, RelayStep, NextOwnsStep DEF BuffersInv
  <1>3. BuffersInv => OneOwnerPerBuffer
    BY DEF BuffersInv, RelayInv, OneOwnerPerBuffer
  <1> QED
    BY <1>1, <1>2, <1>3, PTL DEF Spec

-----------------------------------------------------------------------------
(* Order: streams and places as values *)

LEMMA FramesOfNothing ==
  /\ Headers(<<>>) = {} /\ Frames(<<>>) = {} /\ InSequence(<<>>)
  /\ Headers(<<Beat>>) = {} /\ Frames(<<Beat>>) = {}
  <1>1. Headers(<<>>) = {}
    BY DEF Headers
  <1>2. Headers(<<Beat>>) = {}
    <2>1. DOMAIN <<Beat>> = {1} /\ <<Beat>>[1] = Beat
      OBVIOUS
    <2> QED BY <2>1 DEF Headers, Beat
  <1> QED BY <1>1, <1>2 DEF Frames, InSequence

LEMMA FramesOfUnits ==
  ASSUME NEW f \in Frame
  PROVE  Headers(UnitsOf(f)) = {1} /\ Frames(UnitsOf(f)) = {f}
  <1>1. /\ DOMAIN UnitsOf(f) = 1 .. Pieces + 1 /\ Pieces \in Nat \ {0}
        /\ \A i \in 1 .. Pieces + 1 :
             UnitsOf(f)[i] = IF i = 1 THEN Header(f) ELSE Piece(f, Pieces + 2 - i)
    BY UnitTypes, VideoAssumption DEF UnitsOf
  <1>2. /\ \A i \in 1 .. Pieces + 1 : UnitsOf(f)[i].kind = "header" <=> i = 1
        /\ UnitsOf(f)[1].frame = f
    BY <1>1 DEF Header, Piece
  <1>3. Headers(UnitsOf(f)) = {1}
    BY <1>1, <1>2 DEF Headers
  <1> QED BY <1>2, <1>3 DEF Frames

LEMMA FramesOfAppend ==
  ASSUME NEW s \in Seq(Unit), NEW u \in Unit
  PROVE  /\ Frames(Append(s, u)) \subseteq Frames(s) \cup {u.frame}
         /\ u.kind # "header" => Frames(Append(s, u)) \subseteq Frames(s)
         /\ InSequence(s) /\ (u.kind = "header" => \A f \in Frames(s) : Earlier(f, u.frame))
              => InSequence(Append(s, u))
  <1> DEFINE t == Append(s, u)
             n == Len(s)
  <1>1. /\ n \in Nat /\ DOMAIN s = 1 .. n /\ DOMAIN t = 1 .. n + 1
        /\ \A i \in 1 .. n : t[i] = s[i]
        /\ t[n + 1] = u
    OBVIOUS
  <1> HIDE DEF t, n
  <1>2. \A i \in Headers(t) : \/ i \in Headers(s) /\ t[i] = s[i]
                              \/ i = n + 1 /\ t[i] = u /\ u.kind = "header"
    BY <1>1 DEF Headers
  <1>3. /\ Frames(t) \subseteq Frames(s) \cup {u.frame}
        /\ u.kind # "header" => Frames(t) \subseteq Frames(s)
    BY <1>2 DEF Frames
  <1>4. ASSUME InSequence(s), u.kind = "header" => \A f \in Frames(s) : Earlier(f, u.frame),
               NEW i \in Headers(t), NEW j \in Headers(t), i < j
        PROVE  Earlier(t[i].frame, t[j].frame)
    <2>1. i \in Headers(s) /\ t[i] = s[i]
      <3>1. i \in 1 .. n + 1 /\ j \in 1 .. n + 1
        BY <1>1 DEF Headers
      <3>2. i # n + 1
        BY <1>1, <1>4, <3>1
      <3> QED BY <1>2, <3>2
    <2>2. CASE j \in Headers(s) /\ t[j] = s[j]
      BY <1>4, <2>1, <2>2 DEF InSequence
    <2>3. CASE t[j] = u /\ u.kind = "header"
      BY <1>4, <2>1, <2>3 DEF Frames
    <2> QED BY <1>2, <2>2, <2>3
  <1> QED BY <1>3, <1>4 DEF t, InSequence

LEMMA FramesOfTail ==
  ASSUME NEW s \in Seq(Unit), s # <<>>
  PROVE  /\ Frames(Tail(s)) \subseteq Frames(s)
         /\ InSequence(s) => InSequence(Tail(s))
         /\ Head(s).kind = "header" =>
              /\ Head(s).frame \in Frames(s)
              /\ InSequence(s) => \A f \in Frames(Tail(s)) : Earlier(Head(s).frame, f)
         /\ Headers(s) \subseteq {1} => Headers(Tail(s)) = {}
  <1> DEFINE t == Tail(s)
             h == Head(s)
  <1>1. /\ Len(s) \in Nat \ {0} /\ DOMAIN s = 1 .. Len(s) /\ DOMAIN t = 1 .. Len(s) - 1
        /\ \A i \in 1 .. Len(s) - 1 : t[i] = s[i + 1]
        /\ h = s[1]
    OBVIOUS
  <1> HIDE DEF t, h
  <1>2. \A i \in Headers(t) : /\ i \in Nat \ {0} /\ i + 1 \in Headers(s)
                              /\ t[i] = s[i + 1]
    BY <1>1 DEF Headers
  <1>3. Frames(t) \subseteq Frames(s)
    BY <1>2 DEF Frames
  <1>4. InSequence(s) => InSequence(t)
    <2> SUFFICES ASSUME InSequence(s), NEW i \in Headers(t), NEW j \in Headers(t), i < j
                 PROVE  Earlier(t[i].frame, t[j].frame)
      BY DEF InSequence
    <2>1. i + 1 < j + 1
      BY <1>2
    <2>2. Earlier(s[i + 1].frame, s[j + 1].frame)
      BY <1>2, <2>1 DEF InSequence
    <2> QED BY <1>2, <2>2
  <1>5. ASSUME h.kind = "header"
        PROVE  /\ h.frame \in Frames(s)
               /\ InSequence(s) => \A f \in Frames(t) : Earlier(h.frame, f)
    <2>1. 1 \in Headers(s)
      BY <1>1, <1>5 DEF Headers
    <2>2. h.frame \in Frames(s)
      BY <1>1, <2>1 DEF Frames
    <2>3. ASSUME InSequence(s), NEW i \in Headers(t) PROVE Earlier(h.frame, t[i].frame)
      <3>1. 1 < i + 1
        BY <1>2
      <3>2. Earlier(s[1].frame, s[i + 1].frame)
        BY <1>2, <2>1, <2>3, <3>1 DEF InSequence
      <3> QED BY <1>1, <1>2, <3>2
    <2> QED BY <2>2, <2>3 DEF Frames
  <1>6. Headers(s) \subseteq {1} => Headers(t) = {}
    BY <1>2
  <1> QED BY <1>3, <1>4, <1>5, <1>6 DEF t, h

LEMMA FramesOfPrefix ==
  ASSUME NEW s \in Seq(Unit), NEW k \in 0 .. Len(s)
  PROVE  /\ Frames(SubSeq(s, 1, k)) \subseteq Frames(s)
         /\ InSequence(s) => InSequence(SubSeq(s, 1, k))
  <1> DEFINE t == SubSeq(s, 1, k)
  <1>1. /\ Len(s) \in Nat /\ DOMAIN s = 1 .. Len(s) /\ DOMAIN t = 1 .. k
        /\ \A i \in 1 .. k : t[i] = s[i]
    OBVIOUS
  <1> HIDE DEF t
  <1>2. \A i \in Headers(t) : i \in Headers(s) /\ t[i] = s[i]
    BY <1>1 DEF Headers
  <1> QED BY <1>2 DEF t, Frames, InSequence

LEMMA OrderedShrunk ==
  ASSUME NEW P, NEW Q, Ordered(P), \A j \in 1 .. 7 : Q[j] \subseteq P[j]
  PROVE  Ordered(Q)
  BY DEF Ordered

\* f goes from place m to place k, and is the oldest at m.
LEMMA OrderedMoved ==
  ASSUME NEW P, NEW Q, Ordered(P), NEW k \in 1 .. 7, NEW m \in 1 .. 7, k < m, NEW f \in P[m],
         \A j \in 1 .. 7 : j # k => Q[j] \subseteq P[j],
         Q[k] \subseteq P[k] \cup {f},
         \A g \in Q[m] : Earlier(f, g),
         \A j \in 1 .. 7 : k < j /\ j < m => Q[j] = {}
  PROVE  Ordered(Q)
  <1> SUFFICES ASSUME NEW i \in 1 .. 7, NEW j \in 1 .. 7, i < j, NEW a \in Q[i], NEW b \in Q[j]
               PROVE  Earlier(a, b)
    BY DEF Ordered
  <1>1. CASE a \in P[i] /\ b \in P[j]
    BY <1>1 DEF Ordered
  <1>2. CASE i = k /\ a = f
    <2>1. j # k /\ b \in P[j] /\ ~(j < m)
      BY <1>2
    <2>2. CASE j = m
      BY <1>2, <2>2
    <2>3. CASE m < j
      BY <1>2, <2>1, <2>3 DEF Ordered
    <2> QED BY <2>1, <2>2, <2>3
  <1>3. CASE j = k /\ b = f
    <2>1. i # k /\ a \in P[i] /\ i < m
      BY <1>3
    <2> QED BY <1>3, <2>1 DEF Ordered
  <1> QED BY <1>1, <1>2, <1>3

-----------------------------------------------------------------------------
(* Order: the places of a state *)

LEMMA PlaceIs ==
  /\ Place[1] = Passed
  /\ Place[2] = IF serverPc = "Body" THEN {rx.frame} \cap Frame ELSE {}
  /\ Place[3] = Frames(conn["accepted"].data)
  /\ Place[4] = Frames(conn["backlog"].data)
  /\ Place[5] = Frames(toSend)
  /\ Place[6] = Elements(outQueue)
  /\ Place[7] = {held[p] : p \in Holding}
  /\ \A j \in 1 .. 7 : j = 1 \/ j = 2 \/ j = 3 \/ j = 4 \/ j = 5 \/ j = 6 \/ j = 7
  BY DEF Place

LEMMA PlaceWillBe ==
  /\ Place'[1] = Passed'
  /\ Place'[2] = IF serverPc' = "Body" THEN {rx'.frame} \cap Frame ELSE {}
  /\ Place'[3] = Frames(conn'["accepted"].data)
  /\ Place'[4] = Frames(conn'["backlog"].data)
  /\ Place'[5] = Frames(toSend')
  /\ Place'[6] = Elements(outQueue')
  /\ Place'[7] = {held'[p] : p \in Holding'}
  BY DEF Place

LEMMA UnderWayIs ==
  /\ \A f : f \in UnderWay <=> \E j \in 2 .. 7 : f \in Place[j]
  /\ \A f : f \in UnderWay' <=> \E j \in 2 .. 7 : f \in Place'[j]
  <1>1. \A P : \A f : (\E j \in 2 .. 7 : f \in P[j]) <=>
                        f \in P[2] \cup P[3] \cup P[4] \cup P[5] \cup P[6] \cup P[7]
    <2> TAKE P
    <2>1. \A j \in 2 .. 7 : j = 2 \/ j = 3 \/ j = 4 \/ j = 5 \/ j = 6 \/ j = 7
      OBVIOUS
    <2> QED BY <2>1
  <1>2. UnderWay = Place[2] \cup Place[3] \cup Place[4] \cup Place[5] \cup Place[6] \cup Place[7]
    BY PlaceIs DEF UnderWay
  <1>3. UnderWay' = Place'[2] \cup Place'[3] \cup Place'[4] \cup Place'[5] \cup Place'[6] \cup Place'[7]
    BY PlaceWillBe DEF UnderWay
  <1> HIDE DEF Place
  <1> QED BY <1>1, <1>2, <1>3

\* A step in which no place gets a frame.
LEMMA OrderShrinks ==
  ASSUME OrderInv, made' = made, delivered' = delivered,
         serverPc' = "Body" =>
           \/ rx'.frame \notin Frame
           \/ serverPc = "Body" /\ rx'.frame = rx.frame,
         \A c \in Side : /\ Frames(conn'[c].data) \subseteq Frames(conn[c].data)
                         /\ InSequence(conn'[c].data),
         Frames(toSend') \subseteq Frames(toSend), Headers(toSend') \subseteq {1},
         outQueue' = outQueue \/ outQueue' = <<>>,
         \A p \in Producer : held'[p] = held[p] \/ held'[p] = NoFrame,
         clientOn' = "accepted" => conn'["backlog"] = NoConn
  PROVE  OrderInv' /\ NothingNew
  <1>1. \A j \in 1 .. 7 : Place'[j] \subseteq Place[j]
    <2>1. Place'[1] = Place[1]
      BY PlaceIs, PlaceWillBe DEF Passed
    <2>2. Place'[2] \subseteq Place[2]
      BY PlaceIs, PlaceWillBe
    <2>3. Place'[3] \subseteq Place[3] /\ Place'[4] \subseteq Place[4]
      BY PlaceIs, PlaceWillBe
    <2>4. Place'[5] \subseteq Place[5]
      BY PlaceIs, PlaceWillBe
    <2>5. Place'[6] \subseteq Place[6]
      <3>1. Elements(<<>>) = {}
        BY DEF Elements
      <3> QED BY <3>1, PlaceIs, PlaceWillBe
    <2>6. Place'[7] \subseteq Place[7]
      <3>1. {held'[p] : p \in Holding'} \subseteq {held[p] : p \in Holding}
        BY DEF Holding
      <3> QED BY <3>1, PlaceIs, PlaceWillBe
    <2> HIDE DEF Place
    <2> QED BY <2>1, <2>2, <2>3, <2>4, <2>5, <2>6, PlaceIs
  <1>2. Ordered(Place)'
    BY <1>1, OrderedShrunk DEF OrderInv
  <1>3. \A i \in 1 .. 7 : \A f \in Place'[i] : f \in Frame /\ Used(f)'
    BY <1>1 DEF OrderInv, Used
  <1>4. FramesInOrder'
    BY DEF OrderInv, FramesInOrder
  <1>5. \A i, j \in DOMAIN outQueue' : i < j => Earlier(outQueue'[i], outQueue'[j])
    BY DEF OrderInv
  <1>6. NothingNew
    <2> HIDE DEF Place
    <2> QED BY <1>1, UnderWayIs DEF NothingNew
  <1> QED BY <1>2, <1>3, <1>4, <1>5, <1>6 DEF OrderInv

\* What a move leaves to be shown.
LEMMA OrderMoves ==
  ASSUME OrderInv, made' = made, NEW k \in 1 .. 7, NEW m \in 1 .. 7, k < m, NEW f \in Place[m],
         \A j \in 1 .. 7 : j # k => Place'[j] \subseteq Place[j],
         Place'[k] \subseteq Place[k] \cup {f},
         \A g \in Place'[m] : Earlier(f, g),
         \A j \in 1 .. 7 : k < j /\ j < m => Place'[j] = {}
  PROVE  /\ Ordered(Place)'
         /\ \A i \in 1 .. 7 : \A g \in Place'[i] : g \in Frame /\ Used(g)'
         /\ NothingNew
  <1>1. Ordered(Place')
    BY OrderedMoved DEF OrderInv
  <1>2. \A g : Used(g)' <=> Used(g)
    BY DEF Used
  <1>3. \A i \in 1 .. 7 : \A g \in Place[i] : g \in Frame /\ Used(g)
    BY DEF OrderInv
  <1>4. ASSUME NEW i \in 1 .. 7, NEW g \in Place'[i] PROVE g \in Frame /\ Used(g)'
    <2>1. g \in Place[i] \/ g = f
      BY <1>4
    <2> QED BY <1>2, <1>3, <2>1
  <1>5. NothingNew
    <2>1. \A j \in 2 .. 7 : \A g \in Place'[j] : g \in Place[j] \/ g = f
      OBVIOUS
    <2>2. m \in 2 .. 7
      OBVIOUS
    <2> HIDE DEF Place
    <2> QED BY <2>1, <2>2, UnderWayIs DEF NothingNew
  <1> QED BY <1>1, <1>4, <1>5

-----------------------------------------------------------------------------
(* Order: the relay *)

LEMMA OrderProduce ==
  ASSUME TypeOK, OrderInv, NEW p \in Producer, Produce(p)
  PROVE  OrderInv'
  <1> SUFFICES ASSUME NEW f, f = [from |-> p, num |-> made[p] + 1] PROVE OrderInv'
    OBVIOUS
  <1>1. /\ made' = [made EXCEPT ![p] = @ + 1] /\ held' = [held EXCEPT ![p] = f]
        /\ UNCHANGED <<outQueue, toSend, conn, clientOn, serverPc, rx, delivered>>
    BY DEF Produce, client, tcp, server
  <1>2. f \in Frame /\ f.from = p /\ f.num = made[p] + 1 /\ made[p] \in Nat
    BY DEF TypeOK, Frame
  <1>3. /\ \A q \in Producer : made'[q] = IF q = p THEN made[p] + 1 ELSE made[q]
        /\ \A q \in Producer : held'[q] = IF q = p THEN f ELSE held[q]
        /\ \A q \in Producer : made[q] \in Nat
    BY <1>1 DEF TypeOK
  <1>4. \A g \in Frame : Used(g) => Used(g)' /\ Earlier(g, f)
    BY <1>2, <1>3 DEF Used, Earlier, Frame
  <1>5. Used(f)'
    BY <1>2, <1>3 DEF Used
  <1>6. /\ \A j \in 1 .. 7 : j # 7 => Place'[j] = Place[j]
        /\ Place'[7] \subseteq Place[7] \cup {f}
    <2>1. {held'[q] : q \in Holding'} \subseteq {held[q] : q \in Holding} \cup {f}
      BY <1>3 DEF Holding
    <2>2. Passed' = Passed
      BY <1>1 DEF Passed
    <2> QED BY <1>1, <2>1, <2>2, PlaceIs, PlaceWillBe
  <1>7. \A i \in 1 .. 7 : \A g \in Place[i] : g \in Frame /\ Used(g)
    BY DEF OrderInv
  <1>8. \A i \in 1 .. 7 : \A g \in Place'[i] : g \in Frame /\ Used(g)'
    <2> SUFFICES ASSUME NEW i \in 1 .. 7, NEW g \in Place'[i] PROVE g \in Frame /\ Used(g)'
      OBVIOUS
    <2>1. g \in Place[i] \/ g = f
      BY <1>6
    <2> QED BY <1>2, <1>4, <1>5, <1>7, <2>1
  <1>9. Ordered(Place')
    <2> SUFFICES ASSUME NEW i \in 1 .. 7, NEW j \in 1 .. 7, i < j,
                        NEW a \in Place'[i], NEW b \in Place'[j]
                 PROVE  Earlier(a, b)
      BY DEF Ordered
    <2>1. i # 7 /\ a \in Place[i]
      BY <1>6
    <2>2. CASE b \in Place[j]
      BY <2>1, <2>2 DEF OrderInv, Ordered
    <2>3. CASE b = f
      BY <1>4, <1>7, <2>1, <2>3
    <2> QED BY <1>6, <2>2, <2>3
  <1>10. /\ FramesInOrder' /\ (\A c \in Side : InSequence(conn'[c].data))
         /\ Headers(toSend') \subseteq {1}
         /\ \A i, j \in DOMAIN outQueue' : i < j => Earlier(outQueue'[i], outQueue'[j])
         /\ clientOn' = "accepted" => conn'["backlog"] = NoConn
    BY <1>1 DEF OrderInv, FramesInOrder
  <1> QED BY <1>8, <1>9, <1>10 DEF OrderInv

LEMMA OrderEnqueue ==
  ASSUME TypeOK, RelayInv, OrderInv, NEW p \in Producer, Enqueue(p)
  PROVE  OrderInv' /\ NothingNew
  <1> DEFINE f == held[p]
  <1>1. /\ p \in Holding /\ outQueue' = Append(outQueue, f)
        /\ held' = [held EXCEPT ![p] = NoFrame]
        /\ UNCHANGED <<made, toSend, conn, clientOn, serverPc, rx, delivered>>
    BY DEF Enqueue, client, tcp, server, history, Holding
  <1>2. f \in Frame /\ f.from = p /\ outQueue \in Seq(Frame)
    BY <1>1 DEF TypeOK, RelayInv, Holding
  <1>3. f \in Place[7]
    BY <1>1, PlaceIs
  <1> HIDE DEF f
  <1>4. \A q \in Holding' : q # p /\ q \in Holding /\ held'[q] = held[q] /\ held[q].from = q
    BY <1>1 DEF Holding, RelayInv, TypeOK
  <1>5. Elements(outQueue') = Elements(outQueue) \cup {f}
    BY <1>1, <1>2, ElementsOfAppend
  <1>6. /\ \A j \in 1 .. 7 : j # 6 => Place'[j] \subseteq Place[j]
        /\ Place'[6] \subseteq Place[6] \cup {f}
        /\ \A g \in Place'[7] : Earlier(f, g)
    <2>1. {held'[q] : q \in Holding'} \subseteq {held[q] : q \in Holding}
      BY <1>4
    <2>2. Passed' = Passed
      BY <1>1 DEF Passed
    <2>3. \A g \in {held'[q] : q \in Holding'} : Earlier(f, g)
      BY <1>2, <1>4 DEF Earlier
    <2> QED BY <1>1, <1>5, <2>1, <2>2, <2>3, PlaceIs, PlaceWillBe
  <1>7. /\ Ordered(Place)'
        /\ \A i \in 1 .. 7 : \A g \in Place'[i] : g \in Frame /\ Used(g)'
        /\ NothingNew
    <2>1. made' = made /\ 6 \in 1 .. 7 /\ 7 \in 1 .. 7 /\ 6 < 7
          /\ \A j \in 1 .. 7 : 6 < j /\ j < 7 => Place'[j] = {}
      BY <1>1
    <2> HIDE DEF Place
    <2> QED BY <1>3, <1>6, <2>1, OrderMoves
  <1>8. ASSUME NEW i \in DOMAIN outQueue', NEW j \in DOMAIN outQueue', i < j
        PROVE  Earlier(outQueue'[i], outQueue'[j])
    <2> DEFINE n == Len(outQueue)
    <2>1. /\ n \in Nat /\ DOMAIN outQueue' = 1 .. n + 1 /\ DOMAIN outQueue = 1 .. n
          /\ \A k \in 1 .. n : outQueue'[k] = outQueue[k]
          /\ outQueue'[n + 1] = f
      BY <1>1, <1>2
    <2>2. i \in 1 .. n
      BY <1>8, <2>1
    <2>3. CASE j \in 1 .. n
      BY <1>8, <2>1, <2>2, <2>3 DEF OrderInv
    <2>4. CASE j = n + 1
      <3>1. outQueue[i] \in Place[6]
        BY <2>1, <2>2, PlaceIs DEF Elements
      <3> QED BY <1>3, <2>1, <2>2, <2>4, <3>1 DEF OrderInv, Ordered
    <2> QED BY <2>1, <2>3, <2>4
  <1>9. /\ FramesInOrder' /\ (\A c \in Side : InSequence(conn'[c].data))
        /\ Headers(toSend') \subseteq {1}
        /\ clientOn' = "accepted" => conn'["backlog"] = NoConn
    BY <1>1 DEF OrderInv, FramesInOrder
  <1> QED BY <1>7, <1>8, <1>9 DEF OrderInv

LEMMA OrderTakeFrame ==
  ASSUME TypeOK, RelayInv, OrderInv, TakeFrame
  PROVE  OrderInv' /\ NothingNew
  <1> DEFINE f == Head(outQueue)
  <1>1. /\ outQueue # <<>> /\ outQueue \in Seq(Frame) /\ outQueue' = Tail(outQueue)
        /\ toSend' = UnitsOf(f)
        /\ UNCHANGED <<made, held, conn, clientOn, serverPc, rx, delivered>>
    BY DEF TakeFrame, tcp, server, history, TypeOK
  <1>2. /\ f \in Frame /\ DOMAIN outQueue = 1 .. Len(outQueue) /\ Len(outQueue) \in Nat \ {0}
        /\ f = outQueue[1] /\ DOMAIN outQueue' = 1 .. Len(outQueue) - 1
        /\ \A i \in 1 .. Len(outQueue) - 1 : outQueue'[i] = outQueue[i + 1]
    BY <1>1
  <1> HIDE DEF f
  <1>3. /\ f \in Elements(outQueue) /\ Elements(outQueue') \subseteq Elements(outQueue)
        /\ \A g \in Elements(outQueue') : Earlier(f, g)
        /\ \A i, j \in DOMAIN outQueue' : i < j => Earlier(outQueue'[i], outQueue'[j])
    <2>1. \A i, j \in DOMAIN outQueue : i < j => Earlier(outQueue[i], outQueue[j])
      BY DEF OrderInv
    <2>2. f \in Elements(outQueue)
      BY <1>2 DEF Elements
    <2>3. \A i \in DOMAIN outQueue' : /\ 1 < i + 1 /\ i + 1 \in DOMAIN outQueue
                                      /\ 1 \in DOMAIN outQueue
                                      /\ outQueue'[i] = outQueue[i + 1] /\ i \in Nat
      BY <1>2
    <2>4. \A i \in DOMAIN outQueue' : /\ outQueue'[i] \in Elements(outQueue)
                                      /\ Earlier(f, outQueue'[i])
      <3> TAKE i \in DOMAIN outQueue'
      <3>1. Earlier(outQueue[1], outQueue[i + 1])
        BY <2>1, <2>3
      <3> QED BY <1>2, <2>3, <3>1 DEF Elements
    <2>5. ASSUME NEW i \in DOMAIN outQueue', NEW j \in DOMAIN outQueue', i < j
          PROVE  Earlier(outQueue'[i], outQueue'[j])
      <3>1. i + 1 < j + 1
        BY <2>3, <2>5
      <3>2. Earlier(outQueue[i + 1], outQueue[j + 1])
        BY <2>1, <2>3, <3>1
      <3> QED BY <2>3, <3>2
    <2> QED BY <2>2, <2>4, <2>5 DEF Elements
  <1>4. Headers(toSend') = {1} /\ Frames(toSend') = {f}
    BY <1>1, <1>2, FramesOfUnits
  <1>5. /\ \A j \in 1 .. 7 : j # 5 => Place'[j] \subseteq Place[j]
        /\ Place'[5] \subseteq Place[5] \cup {f}
        /\ \A g \in Place'[6] : Earlier(f, g)
        /\ f \in Place[6]
    <2>1. Passed' = Passed /\ {held'[q] : q \in Holding'} = {held[q] : q \in Holding}
      BY <1>1 DEF Passed, Holding
    <2> QED BY <1>1, <1>3, <1>4, <2>1, PlaceIs, PlaceWillBe
  <1>6. /\ Ordered(Place)'
        /\ \A i \in 1 .. 7 : \A g \in Place'[i] : g \in Frame /\ Used(g)'
        /\ NothingNew
    <2>1. made' = made /\ 5 \in 1 .. 7 /\ 6 \in 1 .. 7 /\ 5 < 6
          /\ \A j \in 1 .. 7 : 5 < j /\ j < 6 => Place'[j] = {}
      BY <1>1
    <2> HIDE DEF Place
    <2> QED BY <1>5, <2>1, OrderMoves
  <1>7. /\ FramesInOrder' /\ (\A c \in Side : InSequence(conn'[c].data))
        /\ clientOn' = "accepted" => conn'["backlog"] = NoConn
    BY <1>1 DEF OrderInv, FramesInOrder
  <1> QED BY <1>3, <1>4, <1>6, <1>7 DEF OrderInv

\* A connection is what it was, or holds less, or is another one's remains.
LEMMA OrderIdle ==
  ASSUME OrderInv, made' = made, delivered' = delivered,
         UNCHANGED <<serverPc, rx>>,
         \A c \in Side : conn'[c].data = conn[c].data \/ conn'[c].data = <<>>,
         Frames(toSend') \subseteq Frames(toSend), Headers(toSend') \subseteq {1},
         outQueue' = outQueue \/ outQueue' = <<>>,
         \A p \in Producer : held'[p] = held[p] \/ held'[p] = NoFrame,
         clientOn' = "accepted" => conn'["backlog"] = NoConn
  PROVE  OrderInv' /\ NothingNew
  <1>1. \A c \in Side : /\ Frames(conn'[c].data) \subseteq Frames(conn[c].data)
                        /\ InSequence(conn'[c].data)
    BY FramesOfNothing DEF OrderInv
  <1> QED BY <1>1, OrderShrinks

LEMMA OrderWaits ==
  ASSUME TypeOK, OrderInv,
         (\E p \in Producer : DropFull(p)) \/ Connect \/ TakeNothing \/ Sent \/ UNCHANGED vars
  PROVE  OrderInv' /\ NothingNew
  <1>1. ASSUME NEW p \in Producer, DropFull(p) PROVE OrderInv' /\ NothingNew
    <2>1. \A q \in Producer : held'[q] = held[q] \/ held'[q] = NoFrame
      BY <1>1 DEF DropFull, TypeOK
    <2> QED BY <1>1, <2>1, OrderIdle DEF DropFull, client, tcp, server, history, OrderInv
  <1>2. CASE Connect
    <2>1. conn'["backlog"].data = <<>> /\ conn'["accepted"] = conn["accepted"]
      BY <1>2 DEF Connect, Fresh, TypeOK
    <2> QED BY <1>2, <2>1, OrderIdle DEF Connect, server, history, OrderInv
  <1>3. CASE TakeNothing
    BY <1>3, FramesOfNothing, OrderIdle DEF TakeNothing, tcp, server, history, OrderInv
  <1>4. CASE Sent
    BY <1>4, OrderIdle DEF Sent, tcp, server, history, OrderInv
  <1>5. CASE UNCHANGED vars
    BY <1>5, OrderIdle DEF vars, relay, client, tcp, server, history, OrderInv
  <1> QED BY <1>1, <1>2, <1>3, <1>4, <1>5

LEMMA OrderAbandon ==
  ASSUME TypeOK, OrderInv, Abandon, UNCHANGED <<held, outQueue, serverPc, rx, made, delivered>>
  PROVE  OrderInv' /\ NothingNew
  <1>1. \A c \in Side : conn'[c].data = conn[c].data
    BY DEF Abandon, TypeOK, Conn
  <1> QED BY <1>1, FramesOfNothing, OrderIdle DEF Abandon
\* What the client writes comes behind all that is under way on its connection.
LEMMA OrderWrite ==
  ASSUME TypeOK, OrderInv, Write
  PROVE  OrderInv' /\ NothingNew
  <1> DEFINE u == Head(toSend)
  <1>1. /\ toSend # <<>> /\ toSend \in Seq(Unit) /\ u \in Unit /\ toSend' = Tail(toSend)
        /\ UNCHANGED <<held, outQueue, made, delivered, clientOn, serverPc, rx>>
    BY DEF Write, TypeOK, server, history
  <1>2. /\ Frames(toSend') \subseteq Frames(toSend) /\ Headers(toSend') = {}
        /\ u.kind = "header" => u.frame \in Frames(toSend)
    BY <1>1, FramesOfTail DEF OrderInv
  <1>3. Frames(toSend') = {}
    BY <1>2 DEF Frames
  <1> HIDE DEF u
  <1>4. CASE conn' = conn
    BY <1>1, <1>2, <1>4, OrderIdle DEF OrderInv
  <1>5. ASSUME NEW c \in Side, clientOn = c,
               conn' = [conn EXCEPT ![c].data = Append(@, u)]
        PROVE  OrderInv' /\ NothingNew
    <2> DEFINE d == conn[c].data
    <2>1. /\ conn'[c].data = Append(d, u) /\ d \in Seq(Unit)
          /\ conn'[c].end = conn[c].end
          /\ \A b \in Side : b # c => conn'[b] = conn[b]
      BY <1>5 DEF TypeOK, Conn
    <2>2. /\ Frames(Append(d, u)) \subseteq Frames(d) \cup {u.frame}
          /\ u.kind # "header" => Frames(Append(d, u)) \subseteq Frames(d)
          /\ (u.kind = "header" => \A f \in Frames(d) : Earlier(f, u.frame))
               => InSequence(Append(d, u))
      BY <1>1, <2>1, FramesOfAppend DEF OrderInv
    <2> HIDE DEF d
    <2>3. clientOn' = "accepted" => conn'["backlog"] = NoConn
      BY <1>1, <1>5, <2>1 DEF OrderInv
    <2>4. CASE u.kind # "header"
      <3>1. \A b \in Side : /\ Frames(conn'[b].data) \subseteq Frames(conn[b].data)
                            /\ InSequence(conn'[b].data)
        BY <2>1, <2>2, <2>4 DEF d, OrderInv
      <3> QED BY <1>1, <1>2, <2>3, <3>1, OrderShrinks
    <2>5. CASE u.kind = "header"
      <3> DEFINE k == IF c = "accepted" THEN 3 ELSE 4
      <3>1. /\ k \in 1 .. 7 /\ k < 5 /\ Place[k] = Frames(d) /\ u.frame \in Place[5]
        BY <1>2, <2>5, PlaceIs DEF d
      <3>2. \A f \in Frames(d) : Earlier(f, u.frame)
        <4> HIDE DEF Place, k
        <4> QED BY <3>1 DEF OrderInv, Ordered
      <3>3. \A b \in Side : InSequence(conn'[b].data)
        BY <2>1, <2>2, <3>2 DEF d, OrderInv
      <3>4. /\ \A j \in 1 .. 7 : j # k => Place'[j] \subseteq Place[j]
            /\ Place'[k] \subseteq Place[k] \cup {u.frame}
            /\ \A g \in Place'[5] : Earlier(u.frame, g)
        <4>1. Passed' = Passed /\ {held'[q] : q \in Holding'} = {held[q] : q \in Holding}
          BY <1>1 DEF Passed, Holding
        <4>2. Place'[5] = {} /\ Place'[1] = Place[1] /\ Place'[2] = Place[2]
              /\ Place'[6] = Place[6] /\ Place'[7] = Place[7]
          BY <1>1, <1>3, <4>1, PlaceIs, PlaceWillBe
        <4>3. CASE c = "accepted"
          <5>1. Place'[3] \subseteq Place[3] \cup {u.frame} /\ Place'[4] = Place[4] /\ k = 3
            BY <2>1, <2>2, <4>3, PlaceIs, PlaceWillBe DEF d
          <5> HIDE DEF Place
          <5> QED BY <4>2, <5>1, PlaceIs
        <4>4. CASE c = "backlog"
          <5>1. Place'[4] \subseteq Place[4] \cup {u.frame} /\ Place'[3] = Place[3] /\ k = 4
            BY <2>1, <2>2, <4>4, PlaceIs, PlaceWillBe DEF d
          <5> HIDE DEF Place
          <5> QED BY <4>2, <5>1, PlaceIs
        <4> QED BY <4>3, <4>4
      <3>5. \A j \in 1 .. 7 : k < j /\ j < 5 => Place'[j] = {}
        <4>1. c = "accepted" => conn'["backlog"].data = <<>>
          BY <1>1, <1>5, <2>3 DEF NoConn
        <4>2. c = "accepted" => Place'[4] = {}
          BY <4>1, FramesOfNothing, PlaceWillBe
        <4> QED BY <4>2
      <3>6. /\ Ordered(Place)'
            /\ \A i \in 1 .. 7 : \A g \in Place'[i] : g \in Frame /\ Used(g)'
            /\ NothingNew
        <4>1. made' = made /\ 5 \in 1 .. 7
          BY <1>1
        <4> HIDE DEF Place, k
        <4> QED BY <3>1, <3>4, <3>5, <4>1, OrderMoves
      <3>7. /\ FramesInOrder'
            /\ \A i, j \in DOMAIN outQueue' : i < j => Earlier(outQueue'[i], outQueue'[j])
        BY <1>1 DEF OrderInv, FramesInOrder
      <3> QED BY <1>2, <2>3, <3>3, <3>6, <3>7 DEF OrderInv
    <2> QED BY <2>4, <2>5
  <1>6. \/ conn' = conn
        \/ \E c \in Side : clientOn = c /\ conn' = [conn EXCEPT ![c].data = Append(@, u)]
    BY DEF Write, u
  <1> QED BY <1>4, <1>5, <1>6

-----------------------------------------------------------------------------
(* Order: next *)

LEMMA OrderAccept ==
  ASSUME TypeOK, OrderInv, Accept
  PROVE  OrderInv' /\ NothingNew
  <1>1. /\ serverPc' = "Header" /\ conn'["accepted"] = conn["backlog"]
        /\ conn'["backlog"] = NoConn
        /\ UNCHANGED <<held, outQueue, toSend, made, delivered>>
    BY DEF Accept, relay, client, history
  <1>2. Frames(conn'["backlog"].data) = {} /\ InSequence(conn'["backlog"].data)
    BY <1>1, FramesOfNothing DEF NoConn
  <1>3. /\ \A j \in 1 .. 7 : j # 3 => Place'[j] \subseteq Place[j]
        /\ Place'[3] = Place[4] /\ Place'[4] = {}
    <2>1. Passed' = Passed /\ {held'[q] : q \in Holding'} = {held[q] : q \in Holding}
      BY <1>1 DEF Passed, Holding
    <2> QED BY <1>1, <1>2, <2>1, PlaceIs, PlaceWillBe
  <1>4. Ordered(Place')
    <2> SUFFICES ASSUME NEW i \in 1 .. 7, NEW j \in 1 .. 7, i < j,
                        NEW a \in Place'[i], NEW b \in Place'[j]
                 PROVE  Earlier(a, b)
      BY DEF Ordered
    <2> HIDE DEF Place
    <2>0. Ordered(Place)
      BY DEF OrderInv
    <2>1. CASE i = 3
      <3>1. a \in Place[4] /\ b \in Place[j] /\ 4 < j
        BY <1>3, <2>1
      <3> QED BY <2>0, <3>1 DEF Ordered
    <2>2. CASE j = 3
      <3>1. a \in Place[i] /\ b \in Place[4] /\ i < 4
        BY <1>3, <2>2
      <3> QED BY <2>0, <3>1 DEF Ordered
    <2>3. CASE i # 3 /\ j # 3
      BY <1>3, <2>0, <2>3 DEF Ordered
    <2> QED BY <2>1, <2>2, <2>3
  <1>5. \A i \in 1 .. 7 : \A g \in Place'[i] : g \in Frame /\ Used(g)'
    <2>1. \A g : Used(g)' <=> Used(g)
      BY <1>1 DEF Used
    <2> HIDE DEF Place
    <2> QED BY <1>3, <2>1 DEF OrderInv
  <1>6. /\ FramesInOrder' /\ (\A c \in Side : InSequence(conn'[c].data))
        /\ Headers(toSend') \subseteq {1}
        /\ \A i, j \in DOMAIN outQueue' : i < j => Earlier(outQueue'[i], outQueue'[j])
    BY <1>1, <1>2 DEF OrderInv, FramesInOrder
  <1>7. NothingNew
    <2>1. 2 .. 7 \subseteq 1 .. 7 /\ 3 \in 2 .. 7 /\ 4 \in 2 .. 7
      OBVIOUS
    <2> HIDE DEF Place
    <2> QED BY <1>3, <2>1, UnderWayIs DEF NothingNew
  <1> QED BY <1>1, <1>4, <1>5, <1>6, <1>7 DEF OrderInv

\* What a read leaves on the connections, and what it has taken.
LEMMA OrderRead ==
  ASSUME TypeOK, OrderInv, Read
  PROVE  /\ \A c \in Side : /\ Frames(conn'[c].data) \subseteq Frames(conn[c].data)
                            /\ InSequence(conn'[c].data)
         /\ conn'["backlog"] = conn["backlog"] /\ clientOn' = clientOn
         /\ clientOn' = "accepted" => conn'["backlog"] = NoConn
         /\ Arriving.kind = "header" =>
              /\ Arriving.frame \in Place[3]
              /\ \A g \in Place'[3] : Earlier(Arriving.frame, g)
  <1> DEFINE d == conn["accepted"].data
  <1>1. /\ d \in Seq(Unit) /\ d # <<>> /\ Arriving = Head(d) /\ InSequence(d)
        /\ clientOn' = clientOn
    BY DEF TypeOK, Conn, Read, Arriving, OrderInv
  <1>2. conn'["accepted"].data = Tail(d) /\ conn'["backlog"] = conn["backlog"]
    <2> DEFINE r == Tail(d)
    <2>1. conn' = [conn EXCEPT !["accepted"].data = r]
      BY DEF Read
    <2> HIDE DEF r
    <2>2. conn'["accepted"].data = r /\ conn'["backlog"] = conn["backlog"]
      BY <2>1 DEF TypeOK, Conn
    <2> QED BY <2>2 DEF r
  <1>3. Place[3] = Frames(d) /\ Place'[3] = Frames(Tail(d))
    BY <1>2, PlaceIs, PlaceWillBe
  <1> HIDE DEF d
  <1>4. /\ Frames(Tail(d)) \subseteq Frames(d) /\ InSequence(Tail(d))
        /\ Head(d).kind = "header" =>
             /\ Head(d).frame \in Frames(d)
             /\ \A f \in Frames(Tail(d)) : Earlier(Head(d).frame, f)
    BY <1>1, FramesOfTail
  <1>5. \A c \in Side : /\ Frames(conn'[c].data) \subseteq Frames(conn[c].data)
                        /\ InSequence(conn'[c].data)
    BY <1>2, <1>4 DEF d, OrderInv
  <1> QED BY <1>1, <1>2, <1>3, <1>4, <1>5 DEF OrderInv

LEMMA OrderReadHeader ==
  ASSUME TypeOK, OrderInv, ReadHeader
  PROVE  OrderInv' /\ NothingNew
  <1> DEFINE f == Arriving.frame
  <1>1. /\ serverPc = "Header" /\ Read /\ Arriving.kind = "header"
        /\ UNCHANGED <<held, outQueue, toSend, made, delivered>>
        /\ rx'.frame = f
    BY DEF ReadHeader, Begin, relay, client, history
  <1>2. /\ \A c \in Side : /\ Frames(conn'[c].data) \subseteq Frames(conn[c].data)
                           /\ InSequence(conn'[c].data)
        /\ clientOn' = "accepted" => conn'["backlog"] = NoConn
        /\ f \in Place[3] /\ \A g \in Place'[3] : Earlier(f, g)
    BY <1>1, OrderRead
  <1> HIDE DEF f
  <1>3. CASE serverPc' # "Body"
    BY <1>1, <1>2, <1>3, OrderShrinks DEF OrderInv
  <1>4. CASE serverPc' = "Body"
    <2>1. /\ \A j \in 1 .. 7 : j # 2 => Place'[j] \subseteq Place[j]
          /\ Place'[2] \subseteq Place[2] \cup {f}
      <3>1. Passed' = Passed /\ {held'[q] : q \in Holding'} = {held[q] : q \in Holding}
        BY <1>1 DEF Passed, Holding
      <3> QED BY <1>1, <1>2, <1>4, <3>1, PlaceIs, PlaceWillBe
    <2>2. /\ Ordered(Place)'
          /\ \A i \in 1 .. 7 : \A g \in Place'[i] : g \in Frame /\ Used(g)'
          /\ NothingNew
      <3>1. made' = made /\ 2 \in 1 .. 7 /\ 3 \in 1 .. 7 /\ 2 < 3
            /\ \A j \in 1 .. 7 : 2 < j /\ j < 3 => Place'[j] = {}
        BY <1>1
      <3> HIDE DEF Place
      <3> QED BY <1>2, <2>1, <3>1, OrderMoves
    <2>3. /\ FramesInOrder' /\ Headers(toSend') \subseteq {1}
          /\ \A i, j \in DOMAIN outQueue' : i < j => Earlier(outQueue'[i], outQueue'[j])
      BY <1>1 DEF OrderInv, FramesInOrder
    <2> QED BY <1>2, <2>2, <2>3 DEF OrderInv
  <1> QED BY <1>3, <1>4

\* A read that passes nothing on and begins no frame.
LEMMA OrderReadOn ==
  ASSUME TypeOK, OrderInv, Read, UNCHANGED relay, made' = made, delivered' = delivered,
         serverPc' = "Body" =>
           \/ rx'.frame \notin Frame
           \/ serverPc = "Body" /\ rx'.frame = rx.frame
  PROVE  OrderInv' /\ NothingNew
  <1>1. UNCHANGED <<held, outQueue, toSend>>
    BY DEF relay, client
  <1> QED BY <1>1, OrderRead, OrderShrinks DEF OrderInv

LEMMA OrderReadBody ==
  ASSUME TypeOK, OrderInv, ReadBody
  PROVE  OrderInv' /\ NothingNew
  <1>1. /\ serverPc = "Body" /\ Read /\ UNCHANGED relay /\ made' = made
        /\ UNCHANGED <<held, outQueue, toSend>>
    BY DEF ReadBody, relay, client
  <1>2. CASE rx.left > 1
    <2>1. delivered' = delivered /\ rx'.frame = rx.frame
      BY <1>2 DEF ReadBody, TypeOK
    <2> QED BY <1>1, <2>1, OrderReadOn
  <1>3. CASE ~(rx.left > 1)
    <2> DEFINE f == rx.frame
    <2>1. PICK w : delivered' = Append(delivered, [frame |-> f, whole |-> w])
      BY <1>3 DEF ReadBody
    <2>2. serverPc' = "Header"
      BY <1>3 DEF ReadBody
    <2> DEFINE n == Len(delivered)
    <2>3. /\ n \in Nat /\ DOMAIN delivered = 1 .. n /\ DOMAIN delivered' = 1 .. n + 1
          /\ \A i \in 1 .. n : delivered'[i] = delivered[i]
          /\ delivered'[n + 1].frame = f
      BY <2>1 DEF TypeOK
    <2>4. Place[2] = {f} \cap Frame
      BY <1>1, PlaceIs
    <2> HIDE DEF f, n
    <2>5. Passed' \subseteq Passed \cup ({f} \cap Frame)
      BY <2>3 DEF Passed
    <2>6. /\ \A c \in Side : /\ Frames(conn'[c].data) \subseteq Frames(conn[c].data)
                             /\ InSequence(conn'[c].data)
          /\ clientOn' = "accepted" => conn'["backlog"] = NoConn
      BY <1>1, OrderRead
    <2>7. /\ \A j \in 1 .. 7 : j # 1 => Place'[j] \subseteq Place[j]
          /\ Place'[1] \subseteq Place[1] \cup ({f} \cap Frame)
          /\ Place'[2] = {}
      <3>1. {held'[q] : q \in Holding'} = {held[q] : q \in Holding}
        BY <1>1 DEF Holding
      <3> QED BY <1>1, <2>2, <2>5, <2>6, <3>1, PlaceIs, PlaceWillBe
    <2>8. /\ Ordered(Place)'
          /\ \A i \in 1 .. 7 : \A g \in Place'[i] : g \in Frame /\ Used(g)'
          /\ NothingNew
      <3>1. CASE f \in Frame
        <4>1. f \in Place[2] /\ 1 \in 1 .. 7 /\ 2 \in 1 .. 7 /\ 1 < 2
              /\ (\A j \in 1 .. 7 : 1 < j /\ j < 2 => Place'[j] = {})
              /\ Place'[1] \subseteq Place[1] \cup {f}
              /\ \A g \in Place'[2] : Earlier(f, g)
          BY <2>4, <2>7, <3>1
        <4> HIDE DEF Place
        <4> QED BY <1>1, <2>7, <4>1, OrderMoves
      <3>2. CASE f \notin Frame
        <4>1. \A j \in 1 .. 7 : Place'[j] \subseteq Place[j]
          BY <2>7, <3>2
        <4>2. \A g : Used(g)' <=> Used(g)
          BY <1>1 DEF Used
        <4>3. NothingNew
          <5>1. 2 .. 7 \subseteq 1 .. 7
            OBVIOUS
          <5> HIDE DEF Place
          <5> QED BY <4>1, <5>1, UnderWayIs DEF NothingNew
        <4> HIDE DEF Place
        <4> QED BY <4>1, <4>2, <4>3, OrderedShrunk DEF OrderInv
      <3> QED BY <3>1, <3>2
    <2>9. FramesInOrder'
      <3> SUFFICES ASSUME NEW i \in DOMAIN delivered', NEW j \in DOMAIN delivered', i < j,
                          delivered'[i].frame \in Frame, delivered'[j].frame \in Frame
                   PROVE  Earlier(delivered'[i].frame, delivered'[j].frame)
        BY DEF FramesInOrder
      <3>1. i \in 1 .. n /\ delivered'[i] = delivered[i]
        BY <2>3
      <3>2. CASE j \in 1 .. n
        BY <2>3, <3>1, <3>2 DEF OrderInv, FramesInOrder
      <3>3. CASE j = n + 1
        <4>1. delivered[i].frame \in Place[1] /\ f \in Place[2]
          BY <2>3, <2>4, <3>1, <3>3, PlaceIs DEF Passed
        <4> HIDE DEF Place
        <4>2. Earlier(delivered[i].frame, f)
          BY <4>1 DEF OrderInv, Ordered
        <4> QED BY <2>3, <3>1, <3>3, <4>2
      <3> QED BY <2>3, <3>2, <3>3
    <2>10. /\ Headers(toSend') \subseteq {1}
           /\ \A i, j \in DOMAIN outQueue' : i < j => Earlier(outQueue'[i], outQueue'[j])
      BY <1>1 DEF OrderInv
    <2> QED BY <2>6, <2>8, <2>9, <2>10 DEF OrderInv
  <1> QED BY <1>2, <1>3

LEMMA OrderHangUp ==
  ASSUME TypeOK, OrderInv, HangUp, UNCHANGED relay, made' = made, delivered' = delivered
  PROVE  OrderInv' /\ NothingNew
  <1>1. /\ conn'["accepted"] = NoConn /\ conn'["backlog"] = conn["backlog"]
        /\ clientOn' # "accepted" /\ serverPc' # "Body"
    BY DEF HangUp, TypeOK
  <1>2. \A c \in Side : /\ Frames(conn'[c].data) \subseteq Frames(conn[c].data)
                        /\ InSequence(conn'[c].data)
    BY <1>1, FramesOfNothing DEF OrderInv, NoConn
  <1>3. UNCHANGED <<held, outQueue, toSend>>
    BY DEF relay, client
  <1> QED BY <1>1, <1>2, <1>3, OrderShrinks DEF OrderInv

LEMMA OrderGiveUp ==
  ASSUME TypeOK, OrderInv, GiveUp, UNCHANGED relay, made' = made, delivered' = delivered
  PROVE  OrderInv' /\ NothingNew
  <1>1. CASE HangUp
    BY <1>1, OrderHangUp
  <1>2. CASE serverPc' = "Header" /\ UNCHANGED tcp
    BY <1>2, OrderShrinks DEF OrderInv, relay, client, tcp
  <1> QED BY <1>1, <1>2 DEF GiveUp

LEMMA OrderServer ==
  ASSUME TypeOK, OrderInv, ServerReads \/ ReadStalls
  PROVE  OrderInv' /\ NothingNew
  <1>1. CASE ReadHeader
    BY <1>1, OrderReadHeader
  <1>2. CASE ReadBody
    BY <1>2, OrderReadBody
  <1>3. CASE ReadBeat
    BY <1>3, OrderReadOn DEF ReadBeat, server, history
  <1>4. CASE ReadDrain
    BY <1>4, OrderReadOn DEF ReadDrain, history
  <1>5. CASE Misread
    <2>1. UNCHANGED relay /\ made' = made /\ delivered' = delivered
      BY <1>5 DEF Misread, history
    <2>2. CASE HangUp
      BY <2>1, <2>2, OrderHangUp
    <2>3. CASE Read /\ UNCHANGED server
      BY <2>1, <2>3, OrderReadOn DEF server
    <2>4. CASE Read /\ \E left \in 1 .. Pieces : Begin(Garbage, left, FALSE)
      <3>1. Garbage \notin Frame
        BY DEF Garbage, Frame
      <3>2. rx'.frame = Garbage
        BY <2>4 DEF Begin
      <3> QED BY <2>1, <2>4, <3>1, <3>2, OrderReadOn
    <2> QED BY <1>5, <2>2, <2>3, <2>4 DEF Misread
  <1>6. CASE ReadFails
    BY <1>6, OrderGiveUp DEF ReadFails, history
  <1>7. CASE ReadStalls
    BY <1>7, OrderGiveUp DEF ReadStalls
  <1> QED BY <1>1, <1>2, <1>3, <1>4, <1>5, <1>6, <1>7 DEF ServerReads

-----------------------------------------------------------------------------
(* Order: faults *)

\* A connection that loses the end of what it holds.
LEMMA OrderCut ==
  ASSUME TypeOK, OrderInv, NEW c \in Side, NEW k \in 0 .. Len(conn[c].data), NEW end,
         conn' = [conn EXCEPT ![c] = CutAt(c, k, end)],
         clientOn' # "accepted" \/ (clientOn' = clientOn /\ c = "accepted"),
         made' = made, delivered' = delivered, UNCHANGED <<serverPc, rx>>,
         toSend' = toSend \/ toSend' = <<>>,
         outQueue' = outQueue \/ outQueue' = <<>>,
         \A p \in Producer : held'[p] = held[p] \/ held'[p] = NoFrame
  PROVE  OrderInv' /\ NothingNew
  <1> DEFINE d == conn[c].data
  <1>1. /\ conn'[c].data = SubSeq(d, 1, k) /\ d \in Seq(Unit)
        /\ \A b \in Side : b # c => conn'[b] = conn[b]
    BY DEF CutAt, TypeOK, Conn
  <1>2. /\ Frames(SubSeq(d, 1, k)) \subseteq Frames(d)
        /\ InSequence(d) => InSequence(SubSeq(d, 1, k))
    BY <1>1, FramesOfPrefix
  <1>3. \A b \in Side : /\ Frames(conn'[b].data) \subseteq Frames(conn[b].data)
                        /\ InSequence(conn'[b].data)
    BY <1>1, <1>2 DEF OrderInv
  <1>4. clientOn' = "accepted" => conn'["backlog"] = NoConn
    BY <1>1 DEF OrderInv
  <1>5. Frames(toSend') \subseteq Frames(toSend) /\ Headers(toSend') \subseteq {1}
    BY FramesOfNothing DEF OrderInv
  <1> QED BY <1>3, <1>4, <1>5, OrderShrinks

LEMMA OrderBreak ==
  ASSUME TypeOK, OrderInv, NEW c \in Side, Break(c)
  PROVE  OrderInv' /\ NothingNew
  <1>1. PICK k \in 0 .. Len(conn[c].data), end \in {"fin", "silent"} :
          conn' = [conn EXCEPT ![c] = CutAt(c, k, end)]
    BY DEF Break
  <1>2. /\ clientOn' = IF clientOn = c THEN "lost" ELSE clientOn
        /\ UNCHANGED <<held, outQueue, toSend, serverPc, rx, made, delivered>>
    BY DEF Break, relay, client, server
  <1>3. clientOn # "accepted" \/ c = "accepted"
    BY DEF Break, OrderInv
  <1>4. clientOn' # "accepted" \/ (clientOn' = clientOn /\ c = "accepted")
    BY <1>2, <1>3
  <1> QED BY <1>1, <1>2, <1>4, OrderCut

LEMMA OrderReset ==
  ASSUME TypeOK, OrderInv, ResetRelay \/ ResetNext
  PROVE  OrderInv' /\ NothingNew
  <1>1. CASE ResetRelay
    <2>1. /\ outQueue' = <<>> /\ toSend' = <<>> /\ clientOn' = "none"
          /\ \A p \in Producer : held'[p] = NoFrame
          /\ UNCHANGED <<serverPc, rx, made, delivered>>
      BY <1>1 DEF ResetRelay, server
    <2>2. CASE clientOn \in Side
      <3>1. PICK k \in 0 .. Len(conn[clientOn].data) :
              conn' = [conn EXCEPT ![clientOn] = CutAt(clientOn, k, "silent")]
        BY <1>1, <2>2 DEF ResetRelay
      <3> QED BY <2>1, <2>2, <3>1, OrderCut
    <2>3. CASE clientOn \notin Side
      <3>1. conn' = conn
        BY <1>1, <2>3 DEF ResetRelay
      <3> QED BY <2>1, <3>1, FramesOfNothing, OrderIdle
    <2> QED BY <2>2, <2>3
  <1>2. CASE ResetNext
    <2>1. /\ serverPc' = "Accepting" /\ conn' = [c \in Side |-> NoConn]
          /\ UNCHANGED <<held, outQueue, toSend, made, delivered>>
      BY <1>2 DEF ResetNext, relay, client
    <2>2. \A c \in Side : conn'[c] = NoConn
      BY <2>1
    <2>3. \A c \in Side : /\ Frames(conn'[c].data) \subseteq Frames(conn[c].data)
                          /\ InSequence(conn'[c].data)
      BY <2>2, FramesOfNothing DEF NoConn
    <2> QED BY <2>1, <2>2, <2>3, OrderShrinks DEF OrderInv
  <1> QED BY <1>1, <1>2

LEMMA OrderInit == Init => OrderInv
  <1> SUFFICES ASSUME Init PROVE OrderInv
    OBVIOUS
  <1>1. Elements(<<>>) = {} /\ Holding = {} /\ Passed = {}
    BY DEF Init, Elements, Holding, Passed
  <1>2. \A c \in Side : conn[c].data = <<>>
    BY DEF Init, NoConn
  <1>3. \A j \in 1 .. 7 : Place[j] = {}
    BY <1>1, <1>2, FramesOfNothing, PlaceIs DEF Init
  <1>4. Ordered(Place)
    BY <1>3 DEF Ordered
  <1>5. FramesInOrder /\ Headers(toSend) \subseteq {1} /\ clientOn # "accepted"
        /\ \A i, j \in DOMAIN outQueue : i < j => Earlier(outQueue[i], outQueue[j])
    BY FramesOfNothing DEF Init, FramesInOrder
  <1> QED BY <1>2, <1>3, <1>4, <1>5, FramesOfNothing DEF OrderInv

LEMMA OrderStep ==
  ASSUME TypeOK, RelayInv, OrderInv, [Next]_vars
  PROVE  OrderInv' /\ (NothingNew \/ \E p \in Producer : Produce(p))
  <1>1. ASSUME NEW p \in Producer, Produce(p)
        PROVE  OrderInv'
    BY <1>1, OrderProduce
  <1>2. ASSUME NEW p \in Producer, Enqueue(p) \/ DropFull(p)
        PROVE  OrderInv' /\ NothingNew
    BY <1>2, OrderEnqueue, OrderWaits
  <1>3. CASE Connect \/ TakeNothing \/ Sent \/ UNCHANGED vars
    BY <1>3, OrderWaits
  <1>4. CASE TakeFrame \/ Write
    BY <1>4, OrderTakeFrame, OrderWrite
  <1>5. CASE WriteFails \/ WriteStalls
    BY <1>5, OrderAbandon DEF WriteFails, WriteStalls, server, history
  <1>6. CASE Accept \/ ServerReads \/ ReadStalls
    BY <1>6, OrderAccept, OrderServer
  <1>7. ASSUME NEW c \in Side, Break(c) PROVE OrderInv' /\ NothingNew
    BY <1>7, OrderBreak
  <1>8. CASE ResetRelay \/ ResetNext
    BY <1>8, OrderReset
  <1> QED BY <1>1, <1>2, <1>3, <1>4, <1>5, <1>6, <1>7, <1>8 DEF Next

\* serverTask passes on no frame of a producer twice and none after a newer
\* one, however often the connection is lost, closed by either end or replaced
\* by the one waiting in the backlog, and whichever board resets: a frame
\* clientTask has given up is freed and never sent again, and serverTask is
\* done with one connection before it accepts the next.
THEOREM FramesInOrderCorrect == Spec => []FramesInOrder
  <1>1. Init => TypeOK /\ BuffersInv /\ OrderInv
    <2>1. Init => BuffersInv
      <3>1. Init => Holding = {} /\ Elements(outQueue) = {} /\ Owned = {}
        BY DEF Init, Holding, Elements, Owned
      <3> QED BY <3>1 DEF Init, BuffersInv, RelayInv, RelayOwns, NextOwns
    <2> QED BY <2>1, TypeInit, OrderInit
  <1>2. TypeOK /\ BuffersInv /\ OrderInv /\ [Next]_vars => (TypeOK /\ BuffersInv /\ OrderInv)'
    BY TypeStep, RelayStep, NextOwnsStep, OrderStep DEF BuffersInv
  <1>3. OrderInv => FramesInOrder
    BY DEF OrderInv
  <1> QED
    BY <1>1, <1>2, <1>3, PTL DEF Spec
=============================================================================
