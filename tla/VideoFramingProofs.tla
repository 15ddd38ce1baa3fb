------------------------- MODULE VideoFramingProofs ------------------------
(* The framing of a video hop and the stream it implements, for every value *)
(* of the constants.                                                        *)
EXTENDS VideoProofs

-----------------------------------------------------------------------------
(* Streams as values *)

LEMMA FramedTail ==
  ASSUME NEW s \in Seq(Unit), s # <<>>, Framed(s)
  PROVE  /\ Proper(s[1])
         /\ Framed(Tail(s))
         /\ Tail(s) # <<>> => /\ Follows(s[1], Tail(s)[1])
                              /\ Tail(s)[Len(Tail(s))] = s[Len(s)]
         /\ Tail(s) = <<>> => s[Len(s)] = s[1]
  <1> DEFINE t == Tail(s)
  <1>1. /\ Len(s) \in Nat \ {0} /\ Len(t) = Len(s) - 1
        /\ DOMAIN s = 1 .. Len(s) /\ DOMAIN t = 1 .. Len(t)
        /\ \A i \in 1 .. Len(t) : t[i] = s[i + 1]
    OBVIOUS
  <1>0. t = <<>> <=> Len(t) = 0
    BY HeadTailProperties, EmptySeq
  <1> HIDE DEF t
  <1>2. Proper(s[1])
    BY <1>1 DEF Framed
  <1>3. ASSUME NEW i \in DOMAIN t PROVE Proper(t[i])
    <2>1. i + 1 \in DOMAIN s /\ t[i] = s[i + 1]
      BY <1>1
    <2> QED BY <2>1 DEF Framed
  <1>4. ASSUME NEW i \in DOMAIN t PROVE Follows(s[i], t[i])
    <2>1. i + 1 \in DOMAIN s /\ i + 1 > 1 /\ t[i] = s[i + 1] /\ (i + 1) - 1 = i
      BY <1>1
    <2>2. Follows(s[(i + 1) - 1], s[i + 1])
      BY <2>1 DEF Framed
    <2> QED BY <2>1, <2>2
  <1>5. ASSUME NEW i \in DOMAIN t, i > 1 PROVE Follows(t[i - 1], t[i])
    <2>1. i - 1 \in 1 .. Len(t) /\ t[i - 1] = s[(i - 1) + 1] /\ (i - 1) + 1 = i
      BY <1>1, <1>5
    <2> QED BY <2>1, <1>4
  <1>6. Framed(t)
    BY <1>3, <1>5 DEF Framed
  <1>7. t # <<>> => Follows(s[1], t[1]) /\ t[Len(t)] = s[Len(s)]
    BY <1>0, <1>1, <1>4
  <1>8. t = <<>> => s[Len(s)] = s[1]
    BY <1>0, <1>1
  <1> QED BY <1>2, <1>6, <1>7, <1>8 DEF t

LEMMA FramedPrefix ==
  ASSUME NEW s \in Seq(Unit), Framed(s), NEW k \in 0 .. Len(s)
  PROVE  /\ Framed(SubSeq(s, 1, k))
         /\ SubSeq(s, 1, k) # <<>> => s # <<>> /\ SubSeq(s, 1, k)[1] = s[1]
  <1> DEFINE t == SubSeq(s, 1, k)
  <1>1. /\ Len(s) \in Nat /\ Len(t) = k
        /\ DOMAIN s = 1 .. Len(s) /\ DOMAIN t = 1 .. k
        /\ \A i \in 1 .. k : t[i] = s[i]
        /\ t = <<>> <=> k = 0
        /\ s = <<>> <=> Len(s) = 0
    OBVIOUS
  <1> HIDE DEF t
  <1>2. Framed(t)
    <2>1. ASSUME NEW i \in DOMAIN t PROVE Proper(t[i])
      BY <1>1 DEF Framed
    <2>2. ASSUME NEW i \in DOMAIN t, i > 1 PROVE Follows(t[i - 1], t[i])
      <3>1. i - 1 \in 1 .. k /\ i \in DOMAIN s
        BY <1>1, <2>2
      <3> QED BY <1>1, <2>2, <3>1 DEF Framed
    <2> QED BY <2>1, <2>2 DEF Framed
  <1>3. t # <<>> => s # <<>> /\ t[1] = s[1]
    BY <1>1
  <1> QED BY <1>2, <1>3 DEF t

LEMMA FramedConcat ==
  ASSUME NEW s \in Seq(Unit), NEW t \in Seq(Unit), Framed(s), Framed(t), t # <<>>,
         s # <<>> => Follows(s[Len(s)], t[1])
  PROVE  /\ Framed(s \o t)
         /\ s \o t # <<>>
         /\ (s \o t)[Len(s \o t)] = t[Len(t)]
         /\ (s \o t)[1] = IF s = <<>> THEN t[1] ELSE s[1]
  <1> DEFINE u == s \o t
  <1>1. /\ Len(s) \in Nat /\ Len(t) \in Nat \ {0} /\ Len(u) = Len(s) + Len(t)
        /\ DOMAIN s = 1 .. Len(s) /\ DOMAIN t = 1 .. Len(t) /\ DOMAIN u = 1 .. Len(u)
        /\ \A i \in 1 .. Len(s) : u[i] = s[i]
        /\ \A i \in Len(s) + 1 .. Len(u) : u[i] = t[i - Len(s)]
        /\ u # <<>>
        /\ s = <<>> <=> Len(s) = 0
    OBVIOUS
  <1> HIDE DEF u
  <1>2. ASSUME NEW i \in DOMAIN u PROVE Proper(u[i])
    <2>1. CASE i \in 1 .. Len(s)
      BY <1>1, <2>1 DEF Framed
    <2>2. CASE i \in Len(s) + 1 .. Len(u)
      <3>1. i - Len(s) \in DOMAIN t
        BY <1>1, <2>2
      <3> QED BY <1>1, <2>2, <3>1 DEF Framed
    <2> QED BY <1>1, <2>1, <2>2
  <1>3. ASSUME NEW i \in DOMAIN u, i > 1 PROVE Follows(u[i - 1], u[i])
    <2>1. CASE i \in 1 .. Len(s)
      <3>1. i - 1 \in 1 .. Len(s)
        BY <1>1, <1>3, <2>1
      <3> QED BY <1>1, <1>3, <2>1, <3>1 DEF Framed
    <2>2. CASE i = Len(s) + 1
      <3>1. u[i] = t[1] /\ u[i - 1] = s[Len(s)] /\ s # <<>>
        BY <1>1, <1>3, <2>2
      <3> QED BY <3>1
    <2>3. CASE i \in Len(s) + 2 .. Len(u)
      <3> DEFINE j == i - Len(s)
      <3>1. j \in DOMAIN t /\ j > 1 /\ u[i] = t[j] /\ u[i - 1] = t[j - 1]
        BY <1>1, <2>3
      <3> HIDE DEF j
      <3> QED BY <3>1 DEF Framed
    <2> QED BY <1>1, <2>1, <2>2, <2>3
  <1>4. Framed(u)
    BY <1>2, <1>3 DEF Framed
  <1>5. u[Len(u)] = t[Len(t)] /\ u[1] = IF s = <<>> THEN t[1] ELSE s[1]
    BY <1>1
  <1> QED BY <1>1, <1>4, <1>5 DEF u

\* What the client sends at a time is framed, complete, and starts with a header.
LEMMA FramedUnits ==
  ASSUME NEW t, t = <<Beat>> \/ \E f \in Frame : t = UnitsOf(f)
  PROVE  /\ t \in Seq(Unit) /\ Framed(t) /\ t # <<>>
         /\ t[1].kind # "piece" /\ Complete(t[Len(t)])
  <1>1. CASE t = <<Beat>>
    <2>1. DOMAIN t = {1} /\ Len(t) = 1 /\ t[1] = Beat
      BY <1>1
    <2> QED BY <1>1, <2>1, BeatType DEF Framed, Proper, Complete, Beat
  <1>2. ASSUME NEW f \in Frame, t = UnitsOf(f)
        PROVE  /\ t \in Seq(Unit) /\ Framed(t) /\ t # <<>>
               /\ t[1].kind # "piece" /\ Complete(t[Len(t)])
    <2>1. /\ t \in Seq(Unit) /\ Len(t) = Pieces + 1 /\ DOMAIN t = 1 .. Pieces + 1
          /\ Pieces \in Nat \ {0}
          /\ \A i \in 1 .. Pieces + 1 :
               t[i] = IF i = 1 THEN Header(f) ELSE Piece(f, Pieces + 2 - i)
      BY <1>2, UnitTypes, VideoAssumption
    <2>2. t[1] = Header(f) /\ t[Len(t)] = Piece(f, 1) /\ t # <<>>
      <3>1. Pieces + 2 - (Pieces + 1) = 1 /\ Pieces + 1 # 1 /\ 1 \in 1 .. Pieces + 1
            /\ Pieces + 1 \in 1 .. Pieces + 1
        BY <2>1
      <3>2. t[1] = Header(f)
        BY <2>1, <3>1
      <3>3. t[Pieces + 1] = Piece(f, 1)
        BY <2>1, <3>1
      <3> QED BY <2>1, <3>2, <3>3
    <2>3. ASSUME NEW i \in DOMAIN t PROVE Proper(t[i])
      <3>1. CASE i = 1
        BY <3>1, <2>2 DEF Proper, Header
      <3>2. CASE i # 1
        <4>1. t[i] = Piece(f, Pieces + 2 - i) /\ Pieces + 2 - i \in 1 .. Pieces
          BY <2>1, <3>2
        <4> QED BY <4>1 DEF Proper, Piece
      <3> QED BY <3>1, <3>2
    <2>4. ASSUME NEW i \in DOMAIN t, i > 1 PROVE Follows(t[i - 1], t[i])
      <3>1. t[i] = Piece(f, Pieces + 2 - i) /\ i \in 2 .. Pieces + 1
        BY <2>1, <2>4
      <3>2. CASE i = 2
        <4>1. t[i - 1] = Header(f) /\ t[i] = Piece(f, Pieces)
          BY <3>1, <3>2, <2>1, <2>2
        <4> QED BY <4>1 DEF Follows, Complete, Announces, Header
      <3>3. CASE i # 2
        <4>1. i - 1 \in 1 .. Pieces + 1 /\ i - 1 # 1 /\ Pieces + 2 - (i - 1) = Pieces + 3 - i
              /\ Pieces + 3 - i # 1 /\ (Pieces + 3 - i) - 1 = Pieces + 2 - i
          BY <3>1, <3>3, <2>1
        <4>2. t[i - 1] = Piece(f, Pieces + 3 - i)
          BY <4>1, <2>1
        <4> QED BY <3>1, <4>1, <4>2 DEF Follows, Complete, Announces, Piece
      <3> QED BY <3>2, <3>3
    <2>5. Framed(t)
      BY <2>3, <2>4 DEF Framed
    <2> QED BY <2>1, <2>2, <2>5 DEF Header, Piece, Complete
  <1> QED BY <1>1, <1>2

-----------------------------------------------------------------------------
(* What happens to a well-formed stream *)

LEMMA NothingWellformed ==
  ASSUME NEW on \in BOOLEAN, NEW e
  PROVE  Wellformed(<<>>, on, FALSE, e)
  BY DEF Wellformed, Framed

\* Its end is lost, and its client with it.
LEMMA CutWellformed ==
  ASSUME NEW s \in Seq(Unit), NEW on, NEW mid \in BOOLEAN, NEW e,
         Wellformed(s, on, mid, e), NEW k \in 0 .. Len(s)
  PROVE  Wellformed(SubSeq(s, 1, k), FALSE, mid, e)
  BY FramedPrefix DEF Wellformed

\* The client, between two frames, begins to send.
LEMMA ExtendWellformed ==
  ASSUME NEW s \in Seq(Unit), NEW mid \in BOOLEAN, NEW e,
         Wellformed(s, TRUE, mid, e),
         NEW t, t = <<Beat>> \/ \E f \in Frame : t = UnitsOf(f)
  PROVE  Wellformed(s \o t, TRUE, mid, e)
  <1>1. /\ t \in Seq(Unit) /\ Framed(t) /\ t # <<>>
        /\ t[1].kind # "piece" /\ Complete(t[Len(t)])
    BY FramedUnits
  <1>2. Framed(s) /\ (s # <<>> => Follows(s[Len(s)], t[1]))
    BY <1>1 DEF Wellformed, Follows
  <1>3. /\ Framed(s \o t) /\ s \o t # <<>>
        /\ (s \o t)[Len(s \o t)] = t[Len(t)]
        /\ (s \o t)[1] = IF s = <<>> THEN t[1] ELSE s[1]
    BY <1>1, <1>2, FramedConcat
  <1>4. IF mid THEN (s \o t)[1] = e ELSE (s \o t)[1].kind # "piece"
    BY <1>1, <1>3 DEF Wellformed
  <1> QED BY <1>1, <1>3, <1>4 DEF Wellformed

\* The server, between two frames, takes the next piece: no payload.
LEMMA ReadWellformed ==
  ASSUME NEW s \in Seq(Unit), s # <<>>, NEW on \in BOOLEAN, NEW e, NEW d,
         Wellformed(s, on, FALSE, e)
  PROVE  /\ s[1].kind # "piece"
         /\ s[1].kind = "beat" => Wellformed(Tail(s), on, FALSE, d)
         /\ s[1].kind = "header" => /\ s[1].frame \in Frame /\ s[1].left = Pieces
                                    /\ Wellformed(Tail(s), on, TRUE, Piece(s[1].frame, Pieces))
  <1>1. /\ s[1].kind # "piece" /\ Framed(s)
        /\ on => Complete(s[Len(s)])
    BY DEF Wellformed
  <1>2. /\ Proper(s[1]) /\ Framed(Tail(s))
        /\ Tail(s) # <<>> => /\ Follows(s[1], Tail(s)[1])
                             /\ Tail(s)[Len(Tail(s))] = s[Len(s)]
        /\ Tail(s) = <<>> => s[Len(s)] = s[1]
    BY <1>1, FramedTail
  <1>3. CASE s[1].kind = "beat"
    <2>1. Tail(s) # <<>> => Tail(s)[1].kind # "piece"
      BY <1>2, <1>3 DEF Follows, Complete
    <2> QED BY <1>1, <1>2, <1>3, <2>1 DEF Wellformed
  <1>4. CASE s[1].kind = "header"
    <2>1. s[1].frame \in Frame /\ s[1].left = Pieces /\ ~Complete(s[1])
      BY <1>2, <1>4 DEF Proper, Complete
    <2>2. Tail(s) # <<>> => Tail(s)[1] = Piece(s[1].frame, Pieces)
      BY <1>2, <1>4, <2>1 DEF Follows, Announces
    <2>3. on => Tail(s) # <<>>
      BY <1>1, <1>2, <2>1
    <2> QED BY <1>1, <1>2, <1>4, <2>1, <2>2, <2>3 DEF Wellformed
  <1> QED BY <1>1, <1>3, <1>4

\* The server, inside a frame, takes the next piece: the one it expects.
LEMMA ReadPieceWellformed ==
  ASSUME NEW s \in Seq(Unit), s # <<>>, NEW on \in BOOLEAN,
         NEW f \in Frame, NEW k \in 1 .. Pieces, NEW d,
         Wellformed(s, on, TRUE, Piece(f, k))
  PROVE  /\ s[1] = Piece(f, k)
         /\ k > 1 => Wellformed(Tail(s), on, TRUE, Piece(f, k - 1))
         /\ k = 1 => Wellformed(Tail(s), on, FALSE, d)
  <1>1. /\ s[1] = Piece(f, k) /\ Framed(s)
        /\ on => Complete(s[Len(s)])
    BY DEF Wellformed
  <1>2. /\ Framed(Tail(s))
        /\ Tail(s) # <<>> => /\ Follows(s[1], Tail(s)[1])
                             /\ Tail(s)[Len(Tail(s))] = s[Len(s)]
        /\ Tail(s) = <<>> => s[Len(s)] = s[1]
    BY <1>1, FramedTail
  <1>3. CASE k > 1
    <2>1. ~Complete(s[1]) /\ Announces(s[1]) = Piece(f, k - 1)
      BY <1>1, <1>3 DEF Complete, Announces, Piece
    <2>2. Tail(s) # <<>> => Tail(s)[1] = Piece(f, k - 1)
      BY <1>2, <2>1 DEF Follows
    <2>3. on => Tail(s) # <<>>
      BY <1>1, <1>2, <2>1
    <2> QED BY <1>1, <1>2, <1>3, <2>2, <2>3 DEF Wellformed
  <1>4. CASE k = 1
    <2>1. Tail(s) # <<>> => Tail(s)[1].kind # "piece"
      BY <1>1, <1>2, <1>4 DEF Follows, Complete, Piece
    <2> QED BY <1>1, <1>2, <1>4, <2>1 DEF Wellformed
  <1> QED BY <1>1, <1>3, <1>4

-----------------------------------------------------------------------------
(* What a step does to what the server will read *)

USE DEF Side

LEMMA ConcatFacts ==
  ASSUME NEW d \in Seq(Unit), NEW t \in Seq(Unit)
  PROVE  /\ d \o <<>> = d /\ <<>> \o d = d
         /\ d \o t \in Seq(Unit)
         /\ d # <<>> => /\ d \o t # <<>> /\ (d \o t)[1] = Head(d)
                        /\ Tail(d \o t) = Tail(d) \o t
         /\ t # <<>> => Append(d, Head(t)) \o Tail(t) = d \o t
         /\ \A k \in 0 .. Len(d) : /\ k \in 0 .. Len(d \o t)
                                   /\ SubSeq(d, 1, k) = SubSeq(d \o t, 1, k)
  <1>1. d \o <<>> = d /\ <<>> \o d = d
    OBVIOUS
  <1>2. d \o t \in Seq(Unit)
    OBVIOUS
  <1>3. ASSUME d # <<>>
        PROVE  /\ d \o t # <<>> /\ (d \o t)[1] = Head(d)
               /\ Tail(d \o t) = Tail(d) \o t
    BY <1>3
  <1>4. ASSUME t # <<>>
        PROVE  Append(d, Head(t)) \o Tail(t) = d \o t
    BY <1>4
  <1>5. ASSUME NEW k \in 0 .. Len(d)
        PROVE  /\ k \in 0 .. Len(d \o t)
               /\ SubSeq(d, 1, k) = SubSeq(d \o t, 1, k)
    OBVIOUS
  <1> QED BY <1>1, <1>2, <1>3, <1>4, <1>5

LEMMA IncomingType ==
  ASSUME TypeOK, NEW c \in Side
  PROVE  /\ Incoming(c) \in Seq(Unit)
         /\ conn[c].data \in Seq(Unit) /\ toSend \in Seq(Unit)
         /\ clientOn = c => Incoming(c) = conn[c].data \o toSend
         /\ clientOn # c => Incoming(c) = conn[c].data
  <1>1. conn[c].data \in Seq(Unit) /\ toSend \in Seq(Unit)
    BY DEF TypeOK, Conn
  <1> QED BY <1>1, ConcatFacts DEF Incoming

\* Between two frames nothing is expected.
LEMMA NothingExpected ==
  ASSUME NEW s, NEW on, NEW e, NEW d, Wellformed(s, on, FALSE, e)
  PROVE  Wellformed(s, on, FALSE, d)
  BY DEF Wellformed

LEMMA FramingInit == Init => FramingInv
  <1> SUFFICES ASSUME Init PROVE FramingInv
    OBVIOUS
  <1>1. ASSUME NEW c \in Side PROVE FramedSide(c)
    <2>1. Incoming(c) = <<>> /\ ~MidFrame(c) /\ clientOn # c
      BY DEF Init, Incoming, MidFrame, NoConn
    <2> QED BY <2>1 DEF FramedSide, Wellformed, Framed
  <1>2. AllWhole
    BY DEF Init, AllWhole
  <1> QED BY <1>1, <1>2 DEF Init, FramingInv

\* A step of the producers, and of the client between two frames.
LEMMA IdleFraming ==
  ASSUME FramingInv, UNCHANGED <<conn, clientOn, toSend, serverPc, rx, delivered>>,
         clientPc' = "Sending" \/ UNCHANGED clientPc \/ toSend = <<>>
  PROVE  FramingInv'
  <1>1. AllWhole'
    BY DEF FramingInv, AllWhole
  <1>2. ASSUME NEW c \in Side PROVE FramedSide(c)'
    BY DEF FramingInv, FramedSide, Incoming, MidFrame, Expected
  <1> QED BY <1>1, <1>2 DEF FramingInv

LEMMA ConnectFraming ==
  ASSUME TypeOK, FramingInv, Connect
  PROVE  FramingInv'
  <1> USE DEF Connect, server, history
  <1>1. FramedSide("backlog")'
    <2>1. Incoming("backlog")' = <<>> \o toSend
      BY DEF TypeOK, Incoming, Fresh
    <2>2. toSend = <<>>
      BY DEF FramingInv
    <2>3. conn'["backlog"].end = "open"
      BY DEF TypeOK, Fresh
    <2>4. Incoming("backlog")' = <<>> /\ ~MidFrame("backlog")'
      BY <2>1, <2>2, ConcatFacts DEF MidFrame
    <2> QED BY <2>3, <2>4 DEF FramedSide, Wellformed, Framed
  <1>2. FramedSide("accepted")'
    <2>1. toSend = <<>> /\ clientOn' # "accepted" /\ conn'["accepted"] = conn["accepted"]
      BY DEF FramingInv, TypeOK
    <2>2. Incoming("accepted")' = Incoming("accepted")
      BY <2>1, IncomingType, ConcatFacts DEF Incoming
    <2> QED BY <2>1, <2>2 DEF FramingInv, FramedSide, Wellformed, MidFrame, Expected
  <1>3. AllWhole'
    BY DEF FramingInv, AllWhole
  <1> QED BY <1>1, <1>2, <1>3 DEF FramingInv, TypeOK

\* The client begins with t.
LEMMA TakeFraming ==
  ASSUME TypeOK, FramingInv, clientPc = "Waiting",
         toSend' = <<Beat>> \/ \E f \in Frame : toSend' = UnitsOf(f),
         clientPc' = "Sending",
         UNCHANGED <<conn, clientOn, serverPc, rx, delivered>>
  PROVE  FramingInv'
  <1>1. ASSUME NEW c \in Side PROVE FramedSide(c)'
    <2>1. CASE clientOn # c
      BY <2>1 DEF FramingInv, FramedSide, Incoming, MidFrame, Expected
    <2>2. CASE clientOn = c
      <3>1. toSend = <<>> /\ Incoming(c) = conn[c].data /\ Incoming(c) \in Seq(Unit)
        BY <2>2, IncomingType, ConcatFacts DEF FramingInv
      <3>2. Incoming(c)' = Incoming(c) \o toSend'
        BY <2>2, <3>1 DEF Incoming
      <3>3. Wellformed(Incoming(c), TRUE, MidFrame(c), Expected)
        BY <2>2 DEF FramingInv, FramedSide
      <3>4. Wellformed(Incoming(c) \o toSend', TRUE, MidFrame(c), Expected)
        <4>1. MidFrame(c) \in BOOLEAN
          BY DEF MidFrame
        <4> QED BY <3>1, <3>3, <4>1, ExtendWellformed
      <3> QED BY <2>2, <3>2, <3>4 DEF FramingInv, FramedSide, MidFrame, Expected
    <2> QED BY <2>1, <2>2
  <1>2. AllWhole'
    BY DEF FramingInv, AllWhole
  <1> QED BY <1>1, <1>2 DEF FramingInv

LEMMA WriteFraming ==
  ASSUME TypeOK, FramingInv, Write
  PROVE  FramingInv'
  <1> USE DEF Write, server, history
  <1>1. ASSUME NEW c \in Side
        PROVE  Incoming(c)' = Incoming(c) /\ conn'[c].end = conn[c].end
    <2>1. CASE clientOn # c
      <3>1. conn'[c] = conn[c] /\ clientOn' # c
        BY <2>1 DEF TypeOK
      <3> QED BY <2>1, <3>1 DEF Incoming
    <2>2. CASE clientOn = c
      <3> DEFINE d == Append(conn[c].data, Head(toSend))
      <3>0. conn' = [conn EXCEPT ![c].data = d]
        BY <2>2
      <3> HIDE DEF d
      <3>1. conn'[c].data = d /\ conn'[c].end = conn[c].end
        BY <3>0 DEF TypeOK, Conn
      <3>2. Incoming(c) = conn[c].data \o toSend
            /\ Incoming(c)' = d \o Tail(toSend)
        BY <2>2, <3>1 DEF Incoming
      <3>3. conn[c].data \in Seq(Unit) /\ toSend \in Seq(Unit) /\ toSend # <<>>
        BY DEF TypeOK, Conn
      <3>4. Append(conn[c].data, Head(toSend)) \o Tail(toSend) = conn[c].data \o toSend
        BY <3>3, ConcatFacts
      <3> QED BY <3>1, <3>2, <3>4 DEF d
    <2> QED BY <2>1, <2>2
  <1>2. ASSUME NEW c \in Side PROVE FramedSide(c)'
    BY <1>1 DEF FramingInv, FramedSide, MidFrame, Expected
  <1>3. conn["accepted"] = NoConn => conn'["accepted"] = NoConn
    BY DEF FramingInv, FramedSide, TypeOK, NoConn
  <1>4. AllWhole'
    BY DEF FramingInv, AllWhole
  <1> QED BY <1>2, <1>3, <1>4 DEF FramingInv

\* The end of a connection's data is lost, or none of it; its client is not,
\* or no longer, there.
LEMMA CutSide ==
  ASSUME TypeOK, NEW c \in Side, FramedSide(c),
         NEW k \in 0 .. Len(conn[c].data), conn'[c].data = SubSeq(conn[c].data, 1, k),
         clientOn' # c, UNCHANGED <<serverPc, rx>>
  PROVE  FramedSide(c)'
  <1> DEFINE t == IF clientOn = c THEN toSend ELSE <<>>
  <1>1. /\ conn[c].data \in Seq(Unit) /\ t \in Seq(Unit)
        /\ Incoming(c) = conn[c].data \o t /\ Incoming(c) \in Seq(Unit)
    BY IncomingType DEF Incoming
  <1> HIDE DEF t
  <1>2. k \in 0 .. Len(Incoming(c)) /\ SubSeq(conn[c].data, 1, k) = SubSeq(Incoming(c), 1, k)
    BY <1>1, ConcatFacts
  <1>3. SubSeq(Incoming(c), 1, k) \in Seq(Unit)
    BY <1>1, <1>2
  <1>4. Incoming(c)' = SubSeq(Incoming(c), 1, k)
    BY <1>2, <1>3, ConcatFacts DEF Incoming
  <1>5. Wellformed(SubSeq(Incoming(c), 1, k), FALSE, MidFrame(c), Expected)
    <2>1. MidFrame(c) \in BOOLEAN
      BY DEF MidFrame
    <2> QED BY <1>1, <1>2, <2>1, CutWellformed DEF FramedSide
  <1>6. MidFrame(c)' = MidFrame(c) /\ Expected' = Expected
    BY DEF MidFrame, Expected
  <1> QED BY <1>4, <1>5, <1>6 DEF FramedSide, Wellformed

LEMMA SameSide ==
  ASSUME NEW c \in Side, FramedSide(c), conn'[c] = conn[c], UNCHANGED <<toSend, serverPc, rx>>,
         clientOn' = c <=> clientOn = c
  PROVE  FramedSide(c)'
  BY DEF FramedSide, Incoming, MidFrame, Expected

LEMMA EmptySide ==
  ASSUME NEW c \in Side, conn'[c].data = <<>>, clientOn' # c, ~MidFrame(c)'
  PROVE  FramedSide(c)'
  <1>1. Incoming(c)' = <<>>
    BY ConcatFacts DEF Incoming
  <1> QED BY <1>1 DEF FramedSide, Wellformed, Framed

LEMMA WholeConn ==
  ASSUME TypeOK, NEW c \in Side
  PROVE  /\ Len(conn[c].data) \in 0 .. Len(conn[c].data)
         /\ SubSeq(conn[c].data, 1, Len(conn[c].data)) = conn[c].data
  <1>1. conn[c].data \in Seq(Unit)
    BY DEF TypeOK, Conn
  <1> QED BY <1>1

LEMMA AbandonFraming ==
  ASSUME TypeOK, FramingInv, Abandon, UNCHANGED <<serverPc, rx, delivered>>
  PROVE  FramingInv'
  <1>1. ASSUME NEW c \in Side PROVE conn'[c].data = conn[c].data /\ clientOn' # c
    BY DEF Abandon, TypeOK, Conn
  <1>2. ASSUME NEW c \in Side PROVE FramedSide(c)'
    BY <1>1, WholeConn, CutSide DEF FramingInv
  <1>3. conn["accepted"] = NoConn => conn'["accepted"] = NoConn
    BY DEF FramingInv, FramedSide, Abandon, TypeOK, NoConn
  <1>4. AllWhole'
    BY DEF FramingInv, AllWhole
  <1> QED BY <1>2, <1>3, <1>4 DEF FramingInv, Abandon

LEMMA AcceptFraming ==
  ASSUME TypeOK, FramingInv, Accept
  PROVE  FramingInv'
  <1> USE DEF Accept, relay, client, history
  <1>1. clientOn # "accepted"
    BY DEF FramingInv, FramedSide, NoConn
  <1>2. FramedSide("backlog")'
    BY EmptySide DEF MidFrame, AfterAccept, NoConn, TypeOK
  <1>3. FramedSide("accepted")'
    <2>1. clientOn' = "accepted" <=> clientOn = "backlog"
      BY <1>1 DEF AfterAccept
    <2>2. Incoming("accepted")' = Incoming("backlog") /\ conn'["accepted"] = conn["backlog"]
      BY <2>1 DEF Incoming
    <2>3. FramedSide("backlog") /\ ~MidFrame("backlog") /\ ~MidFrame("accepted")'
      BY DEF FramingInv, MidFrame
    <2> QED BY <2>1, <2>2, <2>3 DEF FramedSide, Wellformed
  <1>4. AllWhole'
    BY DEF FramingInv, AllWhole
  <1> QED BY <1>2, <1>3, <1>4 DEF FramingInv

LEMMA BreakFraming ==
  ASSUME TypeOK, FramingInv, NEW c \in Side, Break(c)
  PROVE  FramingInv'
  <1> USE DEF Break, CutAt, relay, client, server
  <1>1. FramedSide(c)'
    <2>1. PICK k \in 0 .. Len(conn[c].data) : conn'[c].data = SubSeq(conn[c].data, 1, k)
      BY DEF TypeOK
    <2> QED BY <2>1, CutSide DEF FramingInv
  <1>2. ASSUME NEW o \in Side, o # c PROVE FramedSide(o)'
    <2>1. conn'[o] = conn[o] /\ (clientOn' = o <=> clientOn = o)
      BY <1>2 DEF TypeOK
    <2> QED BY <2>1, SameSide DEF FramingInv
  <1>3. serverPc = "Accepting" => conn'["accepted"] = NoConn
    BY DEF FramingInv, TypeOK
  <1>4. AllWhole'
    BY DEF FramingInv, AllWhole
  <1> QED BY <1>1, <1>2, <1>3, <1>4 DEF FramingInv

LEMMA ResetRelayFraming ==
  ASSUME TypeOK, FramingInv, ResetRelay
  PROVE  FramingInv'
  <1> USE DEF ResetRelay, CutAt, server
  <1>1. ASSUME NEW c \in Side PROVE FramedSide(c)'
    <2>1. CASE clientOn = c
      <3>1. PICK k \in 0 .. Len(conn[c].data) : conn'[c].data = SubSeq(conn[c].data, 1, k)
        BY <2>1 DEF TypeOK
      <3> QED BY <3>1, CutSide DEF FramingInv
    <2>2. CASE clientOn # c
      <3>1. conn'[c] = conn[c]
        BY <2>2 DEF TypeOK
      <3> QED BY <3>1, WholeConn, CutSide DEF FramingInv
    <2> QED BY <2>1, <2>2
  <1>2. serverPc = "Accepting" => conn'["accepted"] = NoConn
    BY DEF FramingInv, FramedSide, TypeOK, NoConn
  <1>3. AllWhole'
    BY DEF FramingInv, AllWhole
  <1> QED BY <1>1, <1>2, <1>3 DEF FramingInv

LEMMA ResetNextFraming ==
  ASSUME FramingInv, ResetNext
  PROVE  FramingInv'
  <1> USE DEF ResetNext, relay, client
  <1>1. ASSUME NEW c \in Side PROVE FramedSide(c)'
    BY EmptySide DEF MidFrame, NoConn
  <1>2. AllWhole'
    BY DEF FramingInv, AllWhole
  <1> QED BY <1>1, <1>2 DEF FramingInv

-----------------------------------------------------------------------------
(* serverTask *)

LEMMA HangUpFraming ==
  ASSUME TypeOK, FramingInv, HangUp, UNCHANGED <<relay, delivered>>
  PROVE  FramingInv'
  <1> USE DEF HangUp, relay, client
  <1>1. FramedSide("accepted")'
    BY EmptySide DEF MidFrame, NoConn, TypeOK
  <1>2. FramedSide("backlog")'
    <2>1. conn'["backlog"] = conn["backlog"] /\ (clientOn' = "backlog" <=> clientOn = "backlog")
      BY DEF TypeOK
    <2>2. ~MidFrame("backlog") /\ ~MidFrame("backlog")'
      BY DEF MidFrame
    <2>3. Incoming("backlog")' = Incoming("backlog")
      BY <2>1 DEF Incoming
    <2> QED BY <2>1, <2>2, <2>3 DEF FramingInv, FramedSide, Wellformed
  <1>3. AllWhole'
    BY DEF FramingInv, AllWhole
  <1> QED BY <1>1, <1>2, <1>3 DEF FramingInv, TypeOK

\* What a read does; serverPc and rx aside.
LEMMA ReadTakesOne ==
  ASSUME TypeOK, FramingInv, Read, UNCHANGED relay
  PROVE  LET s == Incoming("accepted")
         IN  /\ s \in Seq(Unit) /\ s # <<>> /\ s[1] = Arriving
             /\ Incoming("accepted")' = Tail(s)
             /\ Wellformed(s, clientOn = "accepted", MidFrame("accepted"), Expected)
             /\ clientOn' = clientOn
             /\ conn'["accepted"].end = conn["accepted"].end
             /\ FramedSide("backlog")'
             /\ serverPc # "Accepting"
  <1> DEFINE s == Incoming("accepted")
  <1> DEFINE t == IF clientOn = "accepted" THEN toSend ELSE <<>>
  <1> DEFINE d == conn["accepted"].data
  <1>1. d \in Seq(Unit) /\ t \in Seq(Unit) /\ s = d \o t /\ d # <<>> /\ clientOn' = clientOn
    BY IncomingType DEF Incoming, Read
  <1>2. /\ conn'["accepted"].data = Tail(d)
        /\ conn'["accepted"].end = conn["accepted"].end
        /\ conn'["backlog"] = conn["backlog"]
    <2> DEFINE r == Tail(d)
    <2>1. conn' = [conn EXCEPT !["accepted"].data = r]
      BY DEF Read
    <2> HIDE DEF r
    <2>2. /\ conn'["accepted"].data = r
          /\ conn'["accepted"].end = conn["accepted"].end
          /\ conn'["backlog"] = conn["backlog"]
      BY <2>1 DEF TypeOK, Conn
    <2> QED BY <2>2 DEF r
  <1>3. s \in Seq(Unit) /\ s # <<>> /\ s[1] = Arriving /\ Tail(s) = Tail(d) \o t
    <2> HIDE DEF d, t, s
    <2>1. s \in Seq(Unit) /\ s # <<>> /\ s[1] = Head(d) /\ Tail(s) = Tail(d) \o t
      BY <1>1, ConcatFacts
    <2> QED BY <2>1 DEF Arriving, d
  <1>4. Incoming("accepted")' = Tail(d) \o t
    BY <1>1, <1>2 DEF Incoming, relay, client
  <1>5. FramedSide("backlog")'
    <2>1. Incoming("backlog")' = Incoming("backlog")
      BY <1>1, <1>2 DEF Incoming, relay, client
    <2>2. ~MidFrame("backlog") /\ ~MidFrame("backlog")'
      BY DEF MidFrame
    <2> QED BY <1>1, <1>2, <2>1, <2>2 DEF FramingInv, FramedSide, Wellformed
  <1>6. serverPc # "Accepting"
    BY DEF FramingInv, Read, NoConn
  <1>7. Wellformed(s, clientOn = "accepted", MidFrame("accepted"), Expected)
    BY DEF FramingInv, FramedSide
  <1> HIDE DEF s, d, t
  <1> QED BY <1>1, <1>2, <1>3, <1>4, <1>5, <1>6, <1>7 DEF s

\* What is left to show after a read.
LEMMA AfterRead ==
  ASSUME TypeOK, FramingInv, Read, UNCHANGED relay, AllWhole',
         serverPc' \in {"Header", "Body", "Drain"},
         serverPc' \in {"Body", "Drain"} =>
           rx'.frame \in Frame /\ rx'.left \in 1 .. Pieces /\ rx'.whole,
         Wellformed(Tail(Incoming("accepted")), clientOn = "accepted",
                    MidFrame("accepted")', Expected')
  PROVE  FramingInv'
  <1>1. /\ Incoming("accepted")' = Tail(Incoming("accepted"))
        /\ clientOn' = clientOn
        /\ conn'["accepted"].end = conn["accepted"].end
        /\ FramedSide("backlog")'
    BY ReadTakesOne
  <1>2. FramedSide("accepted")'
    BY <1>1 DEF FramingInv, FramedSide
  <1> QED BY <1>1, <1>2 DEF FramingInv, relay, client

LEMMA BetweenFrames ==
  ASSUME TypeOK, FramingInv, Read, UNCHANGED relay, serverPc = "Header"
  PROVE  LET s == Incoming("accepted")
         IN  /\ Arriving.kind # "piece"
             /\ Arriving.kind = "beat" =>
                  Wellformed(Tail(s), clientOn = "accepted", FALSE, Expected)
             /\ Arriving.kind = "header" =>
                  /\ Arriving.frame \in Frame /\ Arriving.left = Pieces
                  /\ Wellformed(Tail(s), clientOn = "accepted", TRUE,
                                Piece(Arriving.frame, Pieces))
  <1> DEFINE s == Incoming("accepted")
  <1>1. s \in Seq(Unit) /\ s # <<>> /\ s[1] = Arriving
        /\ Wellformed(s, clientOn = "accepted", MidFrame("accepted"), Expected)
    BY ReadTakesOne
  <1>2. ~MidFrame("accepted")
    BY DEF MidFrame
  <1> HIDE DEF s
  <1>3. Wellformed(s, clientOn = "accepted", FALSE, Expected)
    BY <1>1, <1>2 DEF Wellformed
  <1>4. (clientOn = "accepted") \in BOOLEAN
    OBVIOUS
  <1> QED BY <1>1, <1>3, <1>4, ReadWellformed DEF s

LEMMA InsideFrame ==
  ASSUME TypeOK, FramingInv, Read, UNCHANGED relay, serverPc \in {"Body", "Drain"}
  PROVE  LET s == Incoming("accepted")
         IN  /\ rx.frame \in Frame /\ rx.left \in 1 .. Pieces /\ rx.whole
             /\ Arriving = Expected
             /\ rx.left > 1 => Wellformed(Tail(s), clientOn = "accepted", TRUE,
                                          Piece(rx.frame, rx.left - 1))
             /\ rx.left = 1 =>
                  \A e : Wellformed(Tail(s), clientOn = "accepted", FALSE, e)
  <1> DEFINE s == Incoming("accepted")
  <1>1. s \in Seq(Unit) /\ s # <<>> /\ s[1] = Arriving
        /\ Wellformed(s, clientOn = "accepted", MidFrame("accepted"), Expected)
    BY ReadTakesOne
  <1>2. MidFrame("accepted")
    BY DEF MidFrame
  <1>3. rx.frame \in Frame /\ rx.left \in 1 .. Pieces /\ rx.whole
    BY DEF FramingInv
  <1> HIDE DEF s
  <1>4. Wellformed(s, clientOn = "accepted", TRUE, Piece(rx.frame, rx.left))
    BY <1>1, <1>2 DEF Wellformed, Expected
  <1>5. (clientOn = "accepted") \in BOOLEAN
    OBVIOUS
  <1>6. /\ s[1] = Piece(rx.frame, rx.left)
        /\ rx.left > 1 => Wellformed(Tail(s), clientOn = "accepted", TRUE,
                                     Piece(rx.frame, rx.left - 1))
        /\ rx.left = 1 => \A e : Wellformed(Tail(s), clientOn = "accepted", FALSE, e)
    BY <1>1, <1>3, <1>4, <1>5, ReadPieceWellformed
  <1> QED BY <1>1, <1>3, <1>6 DEF s, Expected

LEMMA ReadHeaderFraming ==
  ASSUME TypeOK, FramingInv, ReadHeader \/ ReadBeat \/ Misread
  PROVE  FramingInv'
  <1>1. AllWhole'
    BY DEF FramingInv, AllWhole, ReadHeader, ReadBeat, Misread, history
  <1>2. CASE ReadHeader
    <2>1. /\ Arriving.frame \in Frame /\ Arriving.left = Pieces
          /\ Wellformed(Tail(Incoming("accepted")), clientOn = "accepted", TRUE,
                        Piece(Arriving.frame, Pieces))
      BY <1>2, BetweenFrames DEF ReadHeader
    <2>2. /\ rx' = [frame |-> Arriving.frame, left |-> Arriving.left, whole |-> TRUE]
          /\ serverPc' \in {"Body", "Drain"}
      BY <1>2 DEF ReadHeader, Begin
    <2>3. /\ rx'.frame = Arriving.frame /\ rx'.left = Arriving.left /\ rx'.whole
          /\ Expected' = Piece(Arriving.frame, Pieces)
          /\ MidFrame("accepted")'
      BY <2>1, <2>2 DEF Expected, MidFrame
    <2>4. Wellformed(Tail(Incoming("accepted")), clientOn = "accepted",
                     MidFrame("accepted")', Expected')
      BY <2>1, <2>3 DEF Wellformed
    <2>5. rx'.left \in 1 .. Pieces
      BY <2>1, <2>3, VideoAssumption
    <2>6. Read /\ UNCHANGED relay
      BY <1>2 DEF ReadHeader
    <2> QED BY <1>1, <2>1, <2>2, <2>3, <2>4, <2>5, <2>6, AfterRead
  <1>3. CASE ReadBeat
    <2>1. Wellformed(Tail(Incoming("accepted")), clientOn = "accepted", FALSE, Expected)
      BY <1>3, BetweenFrames DEF ReadBeat
    <2>2. serverPc' = "Header" /\ Expected' = Expected /\ ~MidFrame("accepted")'
      BY <1>3 DEF ReadBeat, server, Expected, MidFrame
    <2>3. Wellformed(Tail(Incoming("accepted")), clientOn = "accepted",
                     MidFrame("accepted")', Expected')
      BY <2>1, <2>2 DEF Wellformed
    <2> QED BY <1>1, <1>3, <2>2, <2>3, AfterRead DEF ReadBeat
  <1>4. CASE Misread
    <2>1. CASE HangUp
      BY <1>4, <2>1, HangUpFraming DEF Misread, history
    <2>2. CASE Read
      BY <1>4, <2>2, BetweenFrames DEF Misread
    <2> QED BY <1>4, <2>1, <2>2 DEF Misread
  <1> QED BY <1>2, <1>3, <1>4

LEMMA ReadRestFraming ==
  ASSUME TypeOK, FramingInv, ReadBody \/ ReadDrain
  PROVE  FramingInv'
  <1>1. Read /\ UNCHANGED relay /\ serverPc \in {"Body", "Drain"}
    BY DEF ReadBody, ReadDrain
  <1>2. /\ rx.frame \in Frame /\ rx.left \in 1 .. Pieces /\ rx.whole
        /\ Arriving = Expected
        /\ rx.left > 1 => Wellformed(Tail(Incoming("accepted")), clientOn = "accepted", TRUE,
                                     Piece(rx.frame, rx.left - 1))
        /\ rx.left = 1 =>
             \A e : Wellformed(Tail(Incoming("accepted")), clientOn = "accepted", FALSE, e)
    BY <1>1, InsideFrame
  <1>3. AllWhole'
    <2>1. CASE UNCHANGED delivered
      BY <2>1 DEF FramingInv, AllWhole
    <2>2. CASE delivered' = Append(delivered, [frame |-> rx.frame, whole |-> TRUE])
      <3> DEFINE r == [frame |-> rx.frame, whole |-> TRUE]
      <3>1. r \in [frame : AnyFrame, whole : BOOLEAN] /\ r.frame \in Frame /\ r.whole
        BY <1>2 DEF AnyFrame
      <3> HIDE DEF r
      <3>2. delivered' = Append(delivered, r)
        BY <2>2 DEF r
      <3>3. ASSUME NEW i \in DOMAIN delivered'
            PROVE  delivered'[i] = r \/ (i \in DOMAIN delivered /\ delivered'[i] = delivered[i])
        BY <3>1, <3>2 DEF TypeOK
      <3> QED BY <3>1, <3>3 DEF FramingInv, AllWhole
    <2>3. ReadDrain => UNCHANGED delivered
      BY DEF ReadDrain, history
    <2>4. ReadBody => \/ UNCHANGED delivered
                      \/ delivered' = Append(delivered, [frame |-> rx.frame, whole |-> TRUE])
      BY <1>2 DEF ReadBody
    <2> QED BY <2>1, <2>2, <2>3, <2>4
  <1>4. CASE rx.left > 1
    <2>1. /\ rx'.frame = rx.frame /\ rx'.left = rx.left - 1 /\ rx'.whole
          /\ serverPc' = serverPc
      <3>1. CASE ReadBody
        <4>1. rx' = [rx EXCEPT !.left = rx.left - 1, !.whole = TRUE] /\ serverPc' = serverPc
          BY <1>2, <1>4, <3>1 DEF ReadBody
        <4> QED BY <4>1 DEF TypeOK
      <3>2. CASE ReadDrain
        <4>1. rx' = [rx EXCEPT !.left = rx.left - 1] /\ serverPc' = serverPc
          BY <1>4, <3>2 DEF ReadDrain
        <4> QED BY <1>2, <4>1 DEF TypeOK
      <3> QED BY <3>1, <3>2
    <2>2. MidFrame("accepted")' /\ Expected' = Piece(rx.frame, rx.left - 1)
      BY <1>1, <2>1 DEF MidFrame, Expected
    <2>3. Wellformed(Tail(Incoming("accepted")), clientOn = "accepted",
                     MidFrame("accepted")', Expected')
      BY <1>2, <1>4, <2>2 DEF Wellformed
    <2>4. rx'.left \in 1 .. Pieces
      BY <1>2, <1>4, <2>1, VideoAssumption
    <2> QED BY <1>1, <1>2, <1>3, <2>1, <2>3, <2>4, AfterRead
  <1>5. CASE ~(rx.left > 1)
    <2>1. rx.left = 1 /\ serverPc' = "Header"
      BY <1>2, <1>5, VideoAssumption DEF ReadBody, ReadDrain
    <2>2. ~MidFrame("accepted")'
      BY <2>1 DEF MidFrame
    <2>3. Wellformed(Tail(Incoming("accepted")), clientOn = "accepted",
                     MidFrame("accepted")', Expected')
      BY <1>2, <2>1, <2>2 DEF Wellformed
    <2> QED BY <1>1, <1>3, <2>1, <2>3, AfterRead
  <1> QED BY <1>4, <1>5

\* recv() fails inside a drain only after all the connection will ever bring.
LEMMA GiveUpFraming ==
  ASSUME TypeOK, FramingInv, GiveUp, UNCHANGED <<relay, delivered>>,
         serverPc = "Drain" => Incoming("accepted") = <<>> /\ clientOn # "accepted"
  PROVE  FramingInv'
  <1>1. CASE HangUp
    BY <1>1, HangUpFraming
  <1>2. CASE ~HangUp
    <2>1. /\ serverPc = "Drain" /\ serverPc' = "Header"
          /\ conn' = conn /\ clientOn' = clientOn /\ toSend' = toSend /\ clientPc' = clientPc
      BY <1>2 DEF GiveUp, tcp, relay, client
    <2>2. FramedSide("accepted")'
      <3>1. Incoming("accepted")' = <<>> /\ clientOn' # "accepted" /\ ~MidFrame("accepted")'
        BY <2>1 DEF Incoming, MidFrame
      <3> QED BY <3>1 DEF FramedSide, Wellformed, Framed
    <2>3. FramedSide("backlog")'
      <3>1. /\ Incoming("backlog")' = Incoming("backlog")
            /\ ~MidFrame("backlog") /\ ~MidFrame("backlog")'
        BY <2>1 DEF Incoming, MidFrame
      <3> QED BY <2>1, <3>1 DEF FramingInv, FramedSide, Wellformed
    <2>4. AllWhole'
      BY DEF FramingInv, AllWhole
    <2> QED BY <2>1, <2>2, <2>3, <2>4 DEF FramingInv
  <1> QED BY <1>1, <1>2

LEMMA ReadFailsFraming ==
  ASSUME TypeOK, FramingInv, ReadFails
  PROVE  FramingInv'
  <1>1. Incoming("accepted") = <<>> /\ clientOn # "accepted"
    <2>1. clientOn # "accepted" /\ conn["accepted"].data = <<>>
      BY DEF ReadFails, FramingInv, FramedSide
    <2> QED BY <2>1, IncomingType
  <1> QED BY <1>1, GiveUpFraming DEF ReadFails, history

LEMMA ReadStallsFraming ==
  ASSUME TypeOK, FramingInv, ReadStalls, drainStalls' = 0
  PROVE  FramingInv'
  <1>1. serverPc # "Drain"
    BY DEF ReadStalls, TypeOK
  <1> QED BY <1>1, GiveUpFraming DEF ReadStalls

-----------------------------------------------------------------------------
LEMMA FramingStep ==
  ASSUME TypeOK, FramingInv, [Next]_vars, drainStalls' = 0
  PROVE  FramingInv'
  <1>1. ASSUME NEW p \in Producer, Produce(p) \/ Enqueue(p) \/ DropFull(p)
        PROVE  FramingInv'
    BY <1>1, IdleFraming DEF Produce, Enqueue, DropFull, client, tcp, server, history
  <1>2. CASE Connect
    BY <1>2, ConnectFraming
  <1>3. CASE TakeFrame
    <2>1. Head(outQueue) \in Frame
      BY <1>3 DEF TakeFrame, TypeOK
    <2> QED BY <1>3, <2>1, TakeFraming DEF TakeFrame, tcp, server, history
  <1>4. CASE TakeNothing
    BY <1>4, TakeFraming DEF TakeNothing, tcp, server, history
  <1>5. CASE Write
    BY <1>5, WriteFraming
  <1>6. CASE Sent
    BY <1>6, IdleFraming DEF Sent, tcp, server, history
  <1>7. CASE WriteFails \/ WriteStalls
    BY <1>7, AbandonFraming DEF WriteFails, WriteStalls, server, history
  <1>8. CASE Accept
    BY <1>8, AcceptFraming
  <1>9. CASE ServerReads
    BY <1>9, ReadHeaderFraming, ReadRestFraming, ReadFailsFraming DEF ServerReads
  <1>10. CASE ReadStalls
    BY <1>10, ReadStallsFraming
  <1>11. ASSUME NEW c \in Side, Break(c)
         PROVE  FramingInv'
    BY <1>11, BreakFraming
  <1>12. CASE ResetRelay
    BY <1>12, ResetRelayFraming
  <1>13. CASE ResetNext
    BY <1>13, ResetNextFraming
  <1>14. CASE UNCHANGED vars
    BY <1>14, IdleFraming DEF vars, relay, client, tcp, server, history
  <1> QED BY <1>1, <1>2, <1>3, <1>4, <1>5, <1>6, <1>7, <1>8, <1>9, <1>10, <1>11,
             <1>12, <1>13, <1>14 DEF Next

\* Drain stalls are counted upwards.
LEMMA DrainStallsStep ==
  ASSUME TypeOK, [Next]_vars, drainStalls' = 0
  PROVE  drainStalls = 0
  <1>1. CASE ReadStalls
    BY <1>1 DEF ReadStalls, TypeOK
  <1>2. CASE ~ReadStalls
    BY <1>2 DEF Next, vars, ServerReads, Produce, Enqueue, DropFull, Connect, TakeFrame,
                TakeNothing, Write, Sent, WriteFails, WriteStalls, Accept, ReadHeader, ReadBeat,
                Misread, ReadBody, ReadDrain, ReadFails, Break, ResetRelay, ResetNext, history
  <1> QED BY <1>1, <1>2

\* What next passes on is what the relay was given, payload and all, whatever
\* breaks, stalls or resets, in whatever order and however often, up to the
\* first receive timeout inside a drain on a live connection (the one case in
\* which serverTask does not stay framed).
THEOREM FramesWholeCorrect == Spec => []FramesWhole
  <1> DEFINE Inv == drainStalls = 0 => FramingInv
  <1>1. Init => Inv
    BY FramingInit
  <1>2. TypeOK /\ Inv /\ [Next]_vars => Inv'
    BY FramingStep, DrainStallsStep
  <1>3. Inv => FramesWhole
    BY DEF FramingInv, FramesWhole
  <1>4. Spec => []TypeOK
    BY TypeCorrect
  <1> QED BY <1>1, <1>2, <1>3, <1>4, PTL DEF Spec

-----------------------------------------------------------------------------
(* The stream a hop implements *)

LEMMA JunkStep ==
  ASSUME TypeOK, OrderInv, JunkInv, [Next]_vars
  PROVE  JunkInv'
  <1>1. CASE ReadHeader
    <2>1. rx'.frame = Arriving.frame /\ Arriving.frame \in Place[3]
      BY <1>1, OrderRead DEF ReadHeader, Begin
    <2>2. Arriving.frame \in Frame
      BY <2>1 DEF OrderInv
    <2> QED BY <2>1, <2>2 DEF JunkInv
  <1>2. CASE Misread
    <2>1. CASE HangUp
      BY <2>1 DEF HangUp, JunkInv
    <2>2. CASE UNCHANGED server
      BY <2>2 DEF server, JunkInv
    <2>3. CASE \E left \in 1 .. Pieces : Begin(Garbage, left, FALSE)
      BY <2>3 DEF Begin, JunkInv
    <2> QED BY <1>2, <2>1, <2>2, <2>3 DEF Misread
  <1>3. CASE ReadBody
    <2>1. CASE rx.left > 1
      <3>1. PICK w \in BOOLEAN : w = (rx.whole /\ Arriving = Expected)
        BY DEF TypeOK
      <3>2. rx' = [rx EXCEPT !.left = @ - 1, !.whole = w] /\ serverPc = "Body"
        BY <1>3, <2>1, <3>1 DEF ReadBody
      <3>3. rx'.frame = rx.frame /\ rx'.whole = w
        BY <3>2 DEF TypeOK
      <3> QED BY <3>1, <3>2, <3>3 DEF JunkInv
    <2>2. CASE ~(rx.left > 1)
      BY <1>3, <2>2 DEF ReadBody, JunkInv
    <2> QED BY <2>1, <2>2
  <1>4. CASE ReadDrain
    BY <1>4 DEF ReadDrain, JunkInv
  <1>5. CASE ReadFails \/ ReadStalls
    BY <1>5 DEF ReadFails, ReadStalls, GiveUp, HangUp, JunkInv
  <1>6. CASE Accept \/ ResetNext
    BY <1>6 DEF Accept, ResetNext, JunkInv
  <1>7. CASE ReadBeat \/ UNCHANGED vars
    BY <1>7 DEF ReadBeat, vars, server, JunkInv
  <1>8. CASE \/ \E p \in Producer : Produce(p) \/ Enqueue(p) \/ DropFull(p)
             \/ Connect \/ TakeFrame \/ TakeNothing \/ Write \/ Sent
             \/ WriteFails \/ WriteStalls \/ ResetRelay \/ \E c \in Side : Break(c)
    BY <1>8 DEF Produce, Enqueue, DropFull, Connect, TakeFrame, TakeNothing, Write, Sent,
                WriteFails, WriteStalls, ResetRelay, Break, server, JunkInv
  <1> QED BY <1>1, <1>2, <1>3, <1>4, <1>5, <1>6, <1>7, <1>8 DEF Next, ServerReads

\* Only the last piece of a frame makes next pass anything on, and only a
\* receive timeout inside a drain makes it lose its place.
LEMMA NothingPassed ==
  ASSUME TypeOK, [Next]_vars, ~(ReadBody /\ ~(rx.left > 1)),
         ~\E p \in Producer : Produce(p)
  PROVE  made' = made /\ delivered' = delivered /\ (drainStalls' = 0 => drainStalls = 0)
  <1>1. made' = made /\ delivered' = delivered
    BY DEF Next, vars, ServerReads, Enqueue, DropFull, Connect, TakeFrame, TakeNothing, Write,
           Sent, WriteFails, WriteStalls, Accept, ReadHeader, ReadBeat, Misread, ReadBody,
           ReadDrain, ReadFails, ReadStalls, Break, ResetRelay, ResetNext, history
  <1> QED BY <1>1, DrainStallsStep

LEMMA StreamMakes ==
  ASSUME TypeOK, NEW p \in Producer, Produce(p)
  PROVE  Stream!Make(p)
  <1> SUFFICES ASSUME NEW f, f = [from |-> p, num |-> made[p] + 1] PROVE Stream!Make(p)
    OBVIOUS
  <1>1. /\ held[p] = NoFrame
        /\ made' = [made EXCEPT ![p] = @ + 1] /\ held' = [held EXCEPT ![p] = f]
        /\ UNCHANGED <<outQueue, toSend, conn, serverPc, rx, delivered, drainStalls>>
    BY DEF Produce, client, tcp, server
  <1>2. f # NoFrame
    BY DEF TypeOK, NoFrame
  <1>3. \A q \in Producer : held'[q] = IF q = p THEN f ELSE held[q]
    BY <1>1 DEF TypeOK
  <1>4. {held'[q] : q \in Holding'} = {held[q] : q \in Holding} \cup {f}
    BY <1>1, <1>2, <1>3 DEF Holding
  <1>5. UnderWay' = UnderWay \cup {f}
    BY <1>1, <1>4 DEF UnderWay
  <1> QED BY <1>1, <1>5 DEF Stream!Make

LEMMA StreamLoses ==
  ASSUME NothingNew, made' = made, delivered' = delivered, drainStalls' = 0 => drainStalls = 0
  PROVE  Stream!Lose
  BY DEF NothingNew, Stream!Lose

\* A frame is complete: it is the oldest of its producer under way.
LEMMA StreamPasses ==
  ASSUME TypeOK, OrderInv, OrderInv', NothingNew, JunkInv, FramesWhole',
         ReadBody, ~(rx.left > 1)
  PROVE  \/ \E f \in UnderWay, whole \in BOOLEAN : Stream!Pass(f, whole)
         \/ Stream!PassJunk(Garbage)
  <1> DEFINE f == rx.frame
  <1>1. /\ serverPc = "Body" /\ made' = made /\ drainStalls' = drainStalls
    BY DEF ReadBody
  <1>2. PICK w \in BOOLEAN : /\ delivered' = Append(delivered, [frame |-> f, whole |-> w])
                             /\ w => rx.whole
    <2>1. (rx.whole /\ Arriving = Expected) \in BOOLEAN
      BY DEF TypeOK
    <2> QED BY <2>1 DEF ReadBody
  <1>3. /\ Len(delivered') = Len(delivered) + 1 /\ Len(delivered) \in Nat
        /\ DOMAIN delivered' = 1 .. Len(delivered')
        /\ delivered'[Len(delivered')] = [frame |-> f, whole |-> w]
    BY <1>2 DEF TypeOK
  <1>4. Len(delivered') \in DOMAIN delivered'
    BY <1>3
  <1>5. drainStalls = 0 => w /\ f \in Frame
    BY <1>1, <1>3, <1>4 DEF FramesWhole, AllWhole
  <1> HIDE DEF f
  <1>6. CASE f \in Frame
    <2>1. f \in Place[2] /\ \A g \in Place[2] : g = f
      BY <1>1, <1>6, PlaceIs DEF f
    <2>2. f \in Place'[1]
      <3>1. f \in {delivered'[i].frame : i \in DOMAIN delivered'}
        BY <1>3, <1>4
      <3> QED BY <1>6, <3>1, PlaceWillBe DEF Passed
    <2>3. f.num \in Nat
      BY <1>6 DEF Frame
    <2>4. \A g \in UnderWay : g.from = f.from => f.num <= g.num
      <3> SUFFICES ASSUME NEW g \in UnderWay, g.from = f.from PROVE f.num <= g.num
        OBVIOUS
      <3>1. PICK j \in 2 .. 7 : g \in Place[j]
        BY UnderWayIs
      <3>2. CASE j = 2
        BY <2>1, <2>3, <3>1, <3>2
      <3>3. CASE j # 2
        <4>1. 2 \in 1 .. 7 /\ j \in 1 .. 7 /\ 2 < j
          BY <3>3
        <4> HIDE DEF Place
        <4>2. Earlier(f, g) /\ g \in Frame
          BY <2>1, <3>1, <4>1 DEF OrderInv, Ordered
        <4> QED BY <2>3, <4>2 DEF Earlier, Frame
      <3> QED BY <3>2, <3>3
    <2>5. f \notin UnderWay'
      <3> SUFFICES ASSUME f \in UnderWay' PROVE FALSE
        OBVIOUS
      <3>1. PICK j \in 2 .. 7 : f \in Place'[j]
        BY UnderWayIs
      <3>2. 1 \in 1 .. 7 /\ j \in 1 .. 7 /\ 1 < j
        OBVIOUS
      <3>3. Ordered(Place')
        BY DEF OrderInv
      <3> HIDE DEF Place
      <3>4. Earlier(f, f)
        BY <2>2, <3>1, <3>2, <3>3 DEF Ordered
      <3> QED BY <2>3, <3>4 DEF Earlier
    <2>6. UnderWay' \in SUBSET (UnderWay \ {f})
      BY <2>5 DEF NothingNew
    <2>7. f \in UnderWay
      <3>1. 2 \in 2 .. 7
        OBVIOUS
      <3> HIDE DEF Place
      <3> QED BY <2>1, <3>1, UnderWayIs
    <2>8. Stream!Pass(f, w)
      BY <1>1, <1>2, <1>5, <2>4, <2>6 DEF Stream!Pass
    <2> QED BY <2>7, <2>8
  <1>7. CASE f \notin Frame
    <2>1. f = Garbage /\ ~w /\ drainStalls # 0
      BY <1>1, <1>2, <1>5, <1>7 DEF JunkInv, f
    <2>2. delivered' = Append(delivered, [frame |-> Garbage, whole |-> FALSE])
      BY <1>2, <2>1
    <2>3. Stream!PassJunk(Garbage)
      BY <1>1, <2>1, <2>2 DEF NothingNew, Stream!PassJunk
    <2> QED BY <2>3
  <1> QED BY <1>6, <1>7

LEMMA StreamStep ==
  ASSUME TypeOK, RelayInv, OrderInv, JunkInv, FramesWhole', [Next]_vars
  PROVE  Stream!Next
  <1>1. OrderInv' /\ (NothingNew \/ \E p \in Producer : Produce(p))
    BY OrderStep
  <1>2. CASE \E p \in Producer : Produce(p)
    BY <1>2, StreamMakes DEF Stream!Next
  <1>3. CASE NothingNew /\ ReadBody /\ ~(rx.left > 1)
    BY <1>1, <1>3, StreamPasses DEF Stream!Next
  <1>4. CASE /\ NothingNew
             /\ ~(ReadBody /\ ~(rx.left > 1)) /\ ~\E p \in Producer : Produce(p)
    BY <1>4, NothingPassed, StreamLoses DEF Stream!Next
  <1> QED BY <1>1, <1>2, <1>3, <1>4

\* A hop passes on what producers have made: each frame once, a producer's in
\* order and, until serverTask has lost its place in the stream, all of them
\* whole and nothing else.  Some may be missing; that is all connections,
\* queues, refused allocations and resets of either board can do.
THEOREM StreamCorrect == Spec => ImplementsStream
  <1>1. Init => TypeOK /\ BuffersInv /\ OrderInv /\ JunkInv
    <2>1. Init => BuffersInv
      <3>1. Init => Holding = {} /\ Elements(outQueue) = {} /\ Owned = {}
        BY DEF Init, Holding, Elements, Owned
      <3> QED BY <3>1 DEF Init, BuffersInv, RelayInv, RelayOwns, NextOwns
    <2> QED BY <2>1, TypeInit, OrderInit DEF Init, JunkInv
  <1>2. TypeOK /\ BuffersInv /\ OrderInv /\ JunkInv /\ [Next]_vars
          => (TypeOK /\ BuffersInv /\ OrderInv /\ JunkInv)'
    BY TypeStep, RelayStep, NextOwnsStep, OrderStep, JunkStep DEF BuffersInv
  <1>3. Init => Stream!Init
    <2>1. Init => UnderWay = {}
      <3>1. Init => Holding = {} /\ Elements(outQueue) = {}
        BY DEF Init, Holding, Elements
      <3>2. Init => \A c \in Side : conn[c].data = <<>>
        BY DEF Init, NoConn
      <3> QED BY <3>1, <3>2, FramesOfNothing DEF Init, UnderWay, Side
    <2> QED BY <2>1 DEF Init, Stream!Init
  <1>4. TypeOK /\ BuffersInv /\ OrderInv /\ JunkInv /\ FramesWhole' /\ [Next]_vars => Stream!Next
    BY StreamStep DEF BuffersInv
  <1>5. Spec => []FramesWhole
    BY FramesWholeCorrect
  <1> QED
    BY <1>1, <1>2, <1>3, <1>4, <1>5, PTL DEF Spec, ImplementsStream, Stream!Spec
=============================================================================
