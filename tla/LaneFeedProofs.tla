--------------------------- MODULE LaneFeedProofs --------------------------
(***************************************************************************)
(* Theorems about the SPI link and the lane cache behind it, for any lanes, *)
(* readings and images and any number of faults.  WrongOncePerFault is not  *)
(* inductive: what makes it so is SlipInv, which counts the item a          *)
(* receiver out of step is about to spoil.                                  *)
(***************************************************************************)
EXTENDS LaneFeed, TLAPS

Expected == Payload(rx.item, rx.got + 1)

\* The receiver is in the middle of an item that will be handed on, and what
\* it has got, or comes next, is not that item's.
Slipped == rx.pc \in {"Status", "Body"} /\ ~(rx.whole /\ luckfox = Expected)

SlipInv ==
  /\ wrong <= faults
  /\ Slipped => wrong + 1 <= faults

-----------------------------------------------------------------------------
(* Items and transactions                                                  *)

LEMMA ItemType ==
  ASSUME NEW i \in Item
  PROVE  /\ i \in AnyItem /\ i.chunks \in 1 .. MaxChunks /\ i # Nothing
         /\ i.kind \in {"status", "frame"}
  BY SpiAssumption DEF Item, Reading, Picture, AnyItem, Nothing, Lane, NotALane

LEMMA ForgedType ==
  ASSUME NEW i \in Forged
  PROVE  /\ i \in AnyItem /\ i.chunks \in 1 .. MaxChunks
         /\ i.kind \in {"status", "frame"}
  BY SpiAssumption DEF Forged, AnyItem, Lane, NotALane

LEMMA NothingType == Nothing \in AnyItem /\ Nothing \notin Item
  BY SpiAssumption, ItemType DEF Nothing, AnyItem, NotALane

LEMMA WaitingType ==
  Waiting \in [pc : {"Header", "Status", "Body", "Drain", "Callback"}, item : AnyItem,
               got : 0 .. MaxChunks, whole : BOOLEAN]
  BY NothingType, SpiAssumption DEF Waiting

\* A transaction that LuckFox sends is one of an item, within its length.
LEMMA SendingItem ==
  ASSUME SpiTypeOK, luckfox # Idle
  PROVE  /\ luckfox = [item |-> luckfox.item, part |-> luckfox.part]
         /\ luckfox.item \in Item /\ luckfox.item.chunks \in 1 .. MaxChunks
         /\ luckfox.part \in 0 .. luckfox.item.chunks
  <1>1. PICK i \in Item, k \in 0 .. MaxChunks : luckfox = [item |-> i, part |-> k]
    BY DEF SpiTypeOK, LuckfoxType, RxType
  <1>2. luckfox.item = i /\ luckfox.part = k
    BY <1>1
  <1>3. i.chunks \in 1 .. MaxChunks
    BY ItemType
  <1>4. luckfox.part <= luckfox.item.chunks
    BY DEF SpiTypeOK, LuckfoxType, RxType
  <1> QED BY <1>1, <1>2, <1>3, <1>4, SpiAssumption

LEMMA IdleFacts == Idle.part = 0 /\ Idle.item = Nothing /\ Nothing.chunks = 0
  BY DEF Idle, Header, Nothing

LEMMA SentType ==
  ASSUME SpiTypeOK, Sent
  PROVE  LuckfoxType'
  <1>1. /\ luckfox = [item |-> luckfox.item, part |-> luckfox.part]
        /\ luckfox.item \in Item /\ luckfox.item.chunks \in 1 .. MaxChunks
        /\ luckfox.part \in 0 .. luckfox.item.chunks
    BY SendingItem DEF Sent
  <1>2. CASE luckfox.part = luckfox.item.chunks
    BY <1>2, IdleFacts DEF Sent, LuckfoxType
  <1>3. CASE luckfox.part # luckfox.item.chunks
    <2>1. luckfox' = [item |-> luckfox.item, part |-> luckfox.part + 1]
      BY <1>1, <1>3 DEF Sent
    <2>2. luckfox.part + 1 \in 0 .. MaxChunks /\ luckfox.part + 1 <= luckfox.item.chunks
      BY <1>1, <1>3, SpiAssumption
    <2> QED BY <1>1, <2>1, <2>2 DEF LuckfoxType
  <1> QED BY <1>2, <1>3

LEMMA StartType ==
  ASSUME NEW i \in AnyItem, i.chunks \in 1 .. MaxChunks, NEW whole \in BOOLEAN, Start(i, whole)
  PROVE  RxType' /\ rx'.pc \in {"Status", "Body", "Drain"}
  <1>1. PICK pc \in {"Status", "Body", "Drain"} :
          rx' = [pc |-> pc, item |-> i, got |-> 0, whole |-> whole]
    BY DEF Start
  <1>2. /\ rx'.pc = pc /\ rx'.item = i /\ rx'.got = 0
        /\ rx' \in [pc : {"Header", "Status", "Body", "Drain", "Callback"}, item : AnyItem,
                    got : 0 .. MaxChunks, whole : BOOLEAN]
    BY <1>1, SpiAssumption
  <1> QED BY <1>2, SpiAssumption DEF RxType

LEMMA WaitingFacts == Waiting.pc = "Header"
  BY DEF Waiting

LEMMA WaitsType == ASSUME rx' = Waiting PROVE RxType'
  BY WaitingType, WaitingFacts DEF RxType

\* One more transaction of a payload that is not complete with it.
LEMMA MoreType ==
  ASSUME SpiTypeOK, rx.pc \in {"Body", "Drain"}, rx.got + 1 < rx.item.chunks,
         NEW w \in BOOLEAN, rx' = [rx EXCEPT !.got = @ + 1, !.whole = w]
  PROVE  RxType'
  <1>1. /\ rx.pc \in {"Header", "Status", "Body", "Drain", "Callback"} /\ rx.item \in AnyItem
        /\ rx.got \in 0 .. MaxChunks
    BY DEF SpiTypeOK, RxType
  <1>2. rx' = [pc |-> rx.pc, item |-> rx.item, got |-> rx.got + 1, whole |-> w]
    BY DEF SpiTypeOK, RxType
  <1>3. rx.item.chunks \in 0 .. MaxChunks
    BY <1>1 DEF AnyItem
  <1>4. rx.got + 1 \in 0 .. MaxChunks
    BY <1>1, <1>3, SpiAssumption
  <1>5. rx' \in [pc : {"Header", "Status", "Body", "Drain", "Callback"}, item : AnyItem,
                 got : 0 .. MaxChunks, whole : BOOLEAN]
    BY <1>1, <1>2, <1>4
  <1>6. rx'.got < rx'.item.chunks
    BY <1>2
  <1>7. rx'.pc # "Status"
    BY <1>2
  <1> QED BY <1>5, <1>6, <1>7 DEF RxType

LEMMA WholeType == ASSUME SpiTypeOK, NEW t PROVE StillWhole(t) \in BOOLEAN
  BY DEF StillWhole, SamePayload, SpiTypeOK

LEMMA HandOnType == ASSUME SpiTypeOK, NEW w \in BOOLEAN, HandOn(w) PROVE wrong' \in Nat
  BY DEF HandOn, SpiTypeOK

\* A transaction, or noise.
Transaction(t) == (t = luckfox /\ luckfox # Idle) \/ t = Noise

LEMMA TransactionType ==
  ASSUME SpiTypeOK, NEW t, Transaction(t)
  PROVE  t.item \in AnyItem
  <1>1. CASE t = luckfox /\ luckfox # Idle
    BY <1>1, SendingItem, ItemType
  <1>2. CASE t = Noise
    BY <1>2, NothingType DEF Noise, Payload
  <1> QED BY <1>1, <1>2 DEF Transaction

LEMMA TakeType ==
  ASSUME SpiTypeOK, NEW t, Transaction(t), Take(t)
  PROVE  RxType' /\ wrong' \in Nat
  <1>1. CASE TakeHeader(t)
    <2>1. wrong' \in Nat
      BY <1>1 DEF TakeHeader, SpiTypeOK
    <2>2. CASE t.item \in Item /\ t.part = 0
      <3>1. t.item \in AnyItem /\ t.item.chunks \in 1 .. MaxChunks
        BY <2>2, ItemType
      <3> QED BY <1>1, <2>1, <2>2, <3>1, StartType DEF TakeHeader
    <2>3. CASE ~(t.item \in Item /\ t.part = 0)
      <3>1. rx' = rx
        BY <1>1, <2>3 DEF TakeHeader
      <3> QED BY <2>1, <3>1 DEF SpiTypeOK, RxType
    <2> QED BY <2>2, <2>3
  <1>2. CASE TakeStatus(t)
    <2>1. wrong' \in Nat
      BY <1>2, WholeType, HandOnType DEF TakeStatus
    <2> DEFINE content == IF t.item.kind = "status" /\ t.part = 1 THEN t.item.content ELSE Junk
    <2>2. content \in Value \cup Image \cup {Junk}
      BY TransactionType DEF AnyItem
    <2>3. rx' = [rx EXCEPT !.pc = "Callback", !.item.content = content]
      BY <1>2 DEF TakeStatus
    <2> HIDE DEF content
    <2>4. rx.item \in AnyItem
      BY DEF SpiTypeOK, LuckfoxType, RxType
    <2> DEFINE item == [rx.item EXCEPT !.content = content]
    <2>a. rx' = [rx EXCEPT !.pc = "Callback", !.item = item]
      BY <2>3
    <2>5. item \in AnyItem
      BY <2>2, <2>4 DEF AnyItem
    <2> HIDE DEF item
    <2>6. rx' = [pc |-> "Callback", item |-> item, got |-> rx.got, whole |-> rx.whole]
      BY <2>a DEF SpiTypeOK, RxType
    <2>7. rx' \in [pc : {"Header", "Status", "Body", "Drain", "Callback"}, item : AnyItem,
                   got : 0 .. MaxChunks, whole : BOOLEAN]
      BY <2>5, <2>6 DEF SpiTypeOK, LuckfoxType, RxType
    <2>8. rx'.pc = "Callback"
      BY <2>6
    <2> QED BY <2>1, <2>7, <2>8 DEF RxType
  <1>3. CASE TakeChunk(t)
    <2>1. CASE rx.got + 1 < rx.item.chunks
      <3>1. rx' = [rx EXCEPT !.got = @ + 1, !.whole = StillWhole(t)] /\ wrong' = wrong
        BY <1>3, <2>1 DEF TakeChunk
      <3>2. rx.pc = "Body"
        BY <1>3 DEF TakeChunk
      <3>3. RxType'
        BY <2>1, <3>1, <3>2, WholeType, MoreType
      <3> QED BY <3>1, <3>3 DEF SpiTypeOK
    <2>2. CASE ~(rx.got + 1 < rx.item.chunks)
      <3>1. rx' = Waiting /\ HandOn(StillWhole(t))
        BY <1>3, <2>2 DEF TakeChunk
      <3> QED BY <3>1, WaitsType, WholeType, HandOnType
    <2> QED BY <2>1, <2>2
  <1>4. CASE TakeDrained(t)
    <2>1. wrong' \in Nat
      BY <1>4 DEF TakeDrained, SpiTypeOK
    <2>2. CASE rx.got + 1 < rx.item.chunks
      <3>1. rx' = [rx EXCEPT !.got = @ + 1, !.whole = StillWhole(t)]
        BY <1>4, <2>2 DEF TakeDrained
      <3>2. RxType'
        BY <1>4, <2>2, <3>1, WholeType, MoreType DEF TakeDrained
      <3> QED BY <2>1, <3>2
    <2>3. CASE ~(rx.got + 1 < rx.item.chunks)
      BY <1>4, <2>1, <2>3, WaitsType DEF TakeDrained
    <2> QED BY <2>2, <2>3
  <1> QED BY <1>1, <1>2, <1>3, <1>4 DEF Take

-----------------------------------------------------------------------------
(* SpiTypeOK                                                               *)

LEMMA SpiTypeInit == SpiInit => SpiTypeOK
  <1> SUFFICES ASSUME SpiInit PROVE SpiTypeOK
    OBVIOUS
  <1>1. LuckfoxType
    BY IdleFacts DEF SpiInit, LuckfoxType
  <1>2. RxType
    BY WaitingType, WaitingFacts DEF SpiInit, RxType
  <1>3. faults \in 0 .. MaxFaults /\ wrong \in Nat
    BY SpiAssumption DEF SpiInit
  <1> QED BY <1>1, <1>2, <1>3 DEF SpiTypeOK

LEMMA FaultType == ASSUME SpiTypeOK, Fault PROVE faults' = faults + 1 /\ faults' \in 0 .. MaxFaults
  BY SpiAssumption DEF Fault, SpiTypeOK

LEMMA SpiTypeStep ==
  ASSUME SpiTypeOK, [SpiNext]_spi
  PROVE  SpiTypeOK'
  <1> USE DEF SpiTypeOK, LuckfoxType, RxType
  <1>b. ASSUME luckfox' = luckfox PROVE LuckfoxType'
    BY <1>b DEF LuckfoxType
  <1>c. ASSUME rx' = rx PROVE RxType'
    BY <1>c DEF RxType
  <1>1. ASSUME NEW i \in Item, Begin(i) PROVE SpiTypeOK'
    <2>1. luckfox' = [item |-> i, part |-> 0] /\ i.chunks \in 1 .. MaxChunks
      BY <1>1, ItemType DEF Begin, Header
    <2>2. LuckfoxType'
      BY <2>1, SpiAssumption DEF LuckfoxType
    <2> QED BY <1>1, <1>c, <2>2 DEF Begin
  <1>2. CASE Abort
    <2>1. LuckfoxType'
      BY <1>2, IdleFacts DEF Abort, LuckfoxType
    <2> QED BY <1>2, <1>c, <2>1, FaultType DEF Abort
  <1>3. CASE Transact
    <2>1. Sent /\ Take(luckfox) /\ faults' = faults
      BY <1>3 DEF Transact
    <2>2. Transaction(luckfox)
      BY <2>1 DEF Sent, Transaction
    <2>3. LuckfoxType'
      BY <2>1, SentType
    <2>4. RxType' /\ wrong' \in Nat
      BY <2>1, <2>2, TakeType
    <2> QED BY <2>1, <2>3, <2>4
  <1>4. CASE Miss
    BY <1>4, <1>c, SentType, FaultType DEF Miss
  <1>5. CASE Phantom
    BY <1>5, <1>b, FaultType, TakeType DEF Phantom, Transaction
  <1>6. CASE Misread
    <2>1. LuckfoxType'
      BY <1>6, <1>b, SentType DEF Misread
    <2>2. PICK i \in Forged : Start(i, FALSE)
      BY <1>6 DEF Misread
    <2>3. RxType'
      BY <2>2, ForgedType, StartType
    <2> QED BY <1>6, <2>1, <2>3, FaultType DEF Misread
  <1>7. CASE TransactionFails
    BY <1>7, <1>b, WaitsType, FaultType DEF TransactionFails
  <1>8. CASE Return
    BY <1>8, <1>b, WaitsType DEF Return
  <1>9. CASE ResetReceiver
    BY <1>9, <1>b, WaitsType, FaultType DEF ResetReceiver
  <1>10. CASE UNCHANGED spi
    BY <1>10, <1>b, <1>c DEF spi
  <1> QED BY <1>1, <1>2, <1>3, <1>4, <1>5, <1>6, <1>7, <1>8, <1>9, <1>10 DEF SpiNext

\* The state of the SPI link is always of its type: LuckFox never goes past
\* the last transaction of an item, and receiverTask never collects more of a
\* payload than its header announced.
THEOREM SpiTypeCorrect == SpiSpec => []SpiTypeOK
  <1>1. SpiInit => SpiTypeOK
    BY SpiTypeInit
  <1>2. SpiTypeOK /\ [SpiNext]_spi => SpiTypeOK'
    BY SpiTypeStep
  <1> QED BY <1>1, <1>2, PTL DEF SpiSpec

-----------------------------------------------------------------------------
(* WrongOncePerFault                                                       *)

LEMMA ExpectedFacts ==
  ASSUME SpiTypeOK, luckfox = Expected
  PROVE  /\ luckfox.item = rx.item /\ luckfox.part = rx.got + 1 /\ luckfox # Idle
         /\ StillWhole(luckfox) = rx.whole
  <1>1. luckfox.item = rx.item /\ luckfox.part = rx.got + 1
    BY DEF Expected, Payload
  <1>2. luckfox.part # 0
    BY <1>1 DEF SpiTypeOK, RxType
  <1>3. luckfox # Idle
    BY <1>2, IdleFacts
  <1>4. StillWhole(luckfox) <=> rx.whole
    BY DEF StillWhole, SamePayload, Expected
  <1>5. StillWhole(luckfox) \in BOOLEAN /\ rx.whole \in BOOLEAN
    BY WholeType DEF SpiTypeOK, RxType
  <1> QED BY <1>1, <1>3, <1>4, <1>5

\* A fault pays for whatever slips with it.
LEMMA FaultSlip ==
  ASSUME SpiTypeOK, SlipInv, Fault, wrong' = wrong
  PROVE  SlipInv'
  BY DEF SlipInv, Fault, SpiTypeOK

\* Nothing that waits for a header has slipped.
LEMMA WaitsSlip ==
  ASSUME SpiTypeOK, SlipInv, rx'.pc \notin {"Status", "Body"}, wrong' = wrong,
         faults' \in Nat, faults <= faults'
  PROVE  SlipInv'
  BY DEF SlipInv, Slipped, SpiTypeOK

\* What is handed on was wrong only if it had slipped.
LEMMA HandOnSlip ==
  ASSUME SpiTypeOK, SlipInv, rx.pc \in {"Status", "Body"}, NEW t, HandOn(StillWhole(t)),
         rx'.pc \notin {"Status", "Body"},
         \/ t = luckfox /\ faults' = faults
         \/ faults' = faults + 1
  PROVE  SlipInv'
  <1>1. wrong' \in {wrong, wrong + 1}
    BY DEF HandOn
  <1>2. wrong \in Nat /\ faults \in Nat /\ wrong <= faults
    BY DEF SlipInv, SpiTypeOK
  <1>3. ASSUME wrong' <= faults' PROVE SlipInv'
    BY <1>3 DEF SlipInv, Slipped
  <1>4. CASE faults' = faults + 1
    BY <1>1, <1>2, <1>3, <1>4
  <1>5. CASE t = luckfox /\ faults' = faults
    <2>1. CASE rx.whole /\ luckfox = Expected
      <3>1. wrong' = wrong
        BY <1>5, <2>1, ExpectedFacts DEF HandOn
      <3> QED BY <1>2, <1>3, <1>5, <3>1
    <2>2. CASE ~(rx.whole /\ luckfox = Expected)
      <3>1. wrong + 1 <= faults
        BY <2>2 DEF SlipInv, Slipped
      <3> QED BY <1>1, <1>2, <1>3, <1>5, <3>1
    <2> QED BY <2>1, <2>2
  <1> QED BY <1>4, <1>5

\* Both sides go on to the next transaction together.
LEMMA TransactSlip ==
  ASSUME SpiTypeOK, SlipInv, Transact
  PROVE  SlipInv'
  <1>1. Sent /\ Take(luckfox) /\ faults' = faults
    BY DEF Transact
  <1>2. /\ luckfox = [item |-> luckfox.item, part |-> luckfox.part]
        /\ luckfox.item \in Item /\ luckfox.item.chunks \in 1 .. MaxChunks
        /\ luckfox.part \in 0 .. luckfox.item.chunks
    BY <1>1, SendingItem DEF Sent
  <1>3. CASE TakeHeader(luckfox)
    <2>1. wrong' = wrong
      BY <1>3 DEF TakeHeader
    <2>2. CASE luckfox.part = 0
      <3>1. Start(luckfox.item, TRUE)
        BY <1>2, <1>3, <2>2 DEF TakeHeader
      <3>2. rx'.item = luckfox.item /\ rx'.got = 0 /\ rx'.whole = TRUE
        BY <3>1 DEF Start
      <3>3. luckfox' = [item |-> luckfox.item, part |-> 1]
        BY <1>1, <1>2, <2>2 DEF Sent
      <3>4. rx'.whole /\ luckfox' = Expected'
        BY <3>2, <3>3 DEF Expected, Payload
      <3> QED BY <1>1, <2>1, <3>4 DEF SlipInv, Slipped
    <2>3. CASE luckfox.part # 0
      <3>1. rx' = rx /\ rx.pc = "Header"
        BY <1>3, <2>3 DEF TakeHeader
      <3> QED BY <1>1, <2>1, <3>1, WaitsSlip DEF SpiTypeOK
    <2> QED BY <2>2, <2>3
  <1>4. CASE TakeStatus(luckfox)
    <2>1. rx'.pc = "Callback"
      BY <1>4 DEF TakeStatus, SpiTypeOK, RxType
    <2> QED BY <1>1, <1>4, <2>1, HandOnSlip DEF TakeStatus
  <1>5. CASE TakeChunk(luckfox)
    <2>1. CASE rx.got + 1 < rx.item.chunks
      <3>1. wrong' = wrong /\ rx' = [rx EXCEPT !.got = @ + 1, !.whole = StillWhole(luckfox)]
        BY <1>5, <2>1 DEF TakeChunk
      <3>2. CASE rx.whole /\ luckfox = Expected
        <4>1. StillWhole(luckfox) /\ luckfox.item = rx.item /\ luckfox.part = rx.got + 1
          BY <3>2, ExpectedFacts
        <4>2. luckfox' = [item |-> luckfox.item, part |-> luckfox.part + 1]
          BY <1>1, <1>2, <2>1, <4>1 DEF Sent
        <4>3. rx'.item = rx.item /\ rx'.got = rx.got + 1 /\ rx'.whole = StillWhole(luckfox)
          BY <3>1 DEF SpiTypeOK, RxType
        <4>4. rx'.whole /\ luckfox' = Expected'
          BY <4>1, <4>2, <4>3 DEF Expected, Payload
        <4> QED BY <1>1, <3>1, <4>4 DEF SlipInv, Slipped
      <3>3. CASE ~(rx.whole /\ luckfox = Expected)
        <4>1. wrong + 1 <= faults
          BY <1>5, <3>3 DEF SlipInv, Slipped, TakeChunk
        <4> QED BY <1>1, <3>1, <4>1 DEF SlipInv, Slipped
      <3> QED BY <3>2, <3>3
    <2>2. CASE ~(rx.got + 1 < rx.item.chunks)
      <3>1. HandOn(StillWhole(luckfox)) /\ rx'.pc = "Header" /\ rx.pc = "Body"
        BY <1>5, <2>2, WaitingFacts DEF TakeChunk
      <3> QED BY <1>1, <3>1, HandOnSlip
    <2> QED BY <2>1, <2>2
  <1>6. CASE TakeDrained(luckfox)
    <2>1. wrong' = wrong /\ rx'.pc \notin {"Status", "Body"}
      BY <1>6, WaitingFacts DEF TakeDrained, SpiTypeOK, RxType
    <2> QED BY <1>1, <2>1, WaitsSlip DEF SpiTypeOK
  <1> QED BY <1>1, <1>3, <1>4, <1>5, <1>6 DEF Take

LEMMA PhantomSlip ==
  ASSUME SpiTypeOK, SlipInv, Phantom
  PROVE  SlipInv'
  <1>1. Fault /\ Take(Noise) /\ faults' = faults + 1
    BY FaultType DEF Phantom
  <1>2. CASE wrong' = wrong
    BY <1>1, <1>2, FaultSlip
  <1>3. CASE TakeStatus(Noise)
    <2>1. rx'.pc = "Callback"
      BY <1>3 DEF TakeStatus, SpiTypeOK, RxType
    <2> QED BY <1>1, <1>3, <2>1, HandOnSlip DEF TakeStatus
  <1>4. CASE TakeChunk(Noise) /\ wrong' # wrong
    <2>1. HandOn(StillWhole(Noise)) /\ rx' = Waiting /\ rx.pc = "Body"
      BY <1>4 DEF TakeChunk
    <2> QED BY <1>1, <2>1, HandOnSlip, WaitingFacts
  <1> QED BY <1>1, <1>2, <1>3, <1>4 DEF Take, TakeHeader, TakeDrained

LEMMA SlipStep ==
  ASSUME SpiTypeOK, SlipInv, [SpiNext]_spi
  PROVE  SlipInv'
  <1>1. ASSUME NEW i \in Item, Begin(i) PROVE SlipInv'
    <2>1. rx.pc \in {"Status", "Body"} => wrong + 1 <= faults
      BY <1>1, ExpectedFacts DEF Begin, SlipInv, Slipped
    <2> QED BY <1>1, <2>1 DEF Begin, SlipInv, Slipped
  <1>2. CASE Abort
    BY <1>2, FaultSlip DEF Abort
  <1>3. CASE Transact
    BY <1>3, TransactSlip
  <1>4. CASE Miss
    BY <1>4, FaultSlip DEF Miss
  <1>5. CASE Phantom
    BY <1>5, PhantomSlip
  <1>6. CASE Misread
    BY <1>6, FaultSlip DEF Misread
  <1>7. CASE TransactionFails
    BY <1>7, FaultSlip DEF TransactionFails
  <1>8. CASE Return
    BY <1>8, WaitsSlip, WaitingFacts DEF Return, SpiTypeOK
  <1>9. CASE ResetReceiver
    BY <1>9, FaultSlip DEF ResetReceiver
  <1>10. CASE UNCHANGED spi
    BY <1>10 DEF spi, SlipInv, Slipped, Expected
  <1> QED BY <1>1, <1>2, <1>3, <1>4, <1>5, <1>6, <1>7, <1>8, <1>9, <1>10 DEF SpiNext

\* A receiver without any check on what it collects hands on at most one item
\* that nobody sent for each fault of the link, however long the items and
\* wherever the fault falls: having slipped once, it is in step again, or
\* skips transactions, from the end of that item on.
THEOREM SpiWrongOncePerFault == SpiSpec => []WrongOncePerFault
  <1>1. SpiInit => SlipInv
    BY WaitingFacts DEF SpiInit, SlipInv, Slipped
  <1>2. SpiTypeOK /\ SlipInv /\ [SpiNext]_spi => SlipInv'
    BY SlipStep
  <1>3. SlipInv => WrongOncePerFault
    BY DEF SlipInv, WrongOncePerFault
  <1>4. SpiSpec => []SpiTypeOK
    BY SpiTypeCorrect
  <1> QED BY <1>1, <1>2, <1>3, <1>4, PTL DEF SpiSpec

-----------------------------------------------------------------------------
(* The composition with the lane cache                                     *)

LEMMA FeedStepIsSpiStep == [Next]_vars => [SpiNext]_spi
  BY DEF Next, vars, spi, SpiNext, SpiAlone, IgnoreStatus, StoreOccupied, StorePlate,
         ReadOccupied, Originate, Reset

\* The two tasks of LaneFeed do to the SPI link what LuckfoxSpi says, or
\* nothing: setLaneStatus() returns as one callback, whatever runs between
\* its stores.
THEOREM FeedImplementsSpi == Spec => SpiSpec
  <1>1. Init => SpiInit
    BY DEF Init
  <1>2. [Next]_vars => [SpiNext]_spi
    BY FeedStepIsSpiStep
  <1> QED BY <1>1, <1>2, PTL DEF Spec, SpiSpec

\* So a fault of the link costs the chain one wrong reading at most.
THEOREM WrongOncePerFaultCorrect == Spec => []WrongOncePerFault
  BY FeedImplementsSpi, SpiWrongOncePerFault, PTL

\* The cache holds readings, the rotation stays on lanes, and between the two
\* stores of setLaneStatus() the SPI task is in its callback.
FeedType ==
  /\ TypeOK
  /\ stored => rx.pc = "Callback" /\ rx.item.stream \in Lane
  /\ rx.pc = "Callback" => rx.item.content \in Cached

LEMMA StoreType ==
  ASSUME NEW f \in [Lane -> Cached], NEW l, NEW v \in Cached
  PROVE  [f EXCEPT ![l] = v] \in [Lane -> Cached]
  OBVIOUS

LEMMA NextStreamType == ASSUME localStream \in Lane PROVE NextStream \in Lane
  BY SpiAssumption DEF Lane, NextStream

\* What a callback is given for a reading: one LuckFox has sent, or junk.
LEMMA StatusContent ==
  ASSUME SpiTypeOK, NEW t, Transaction(t), TakeStatus(t)
  PROVE  rx'.item.content \in Cached
  <1>1. rx'.item.content = IF t.item.kind = "status" /\ t.part = 1 THEN t.item.content ELSE Junk
    BY DEF TakeStatus, SpiTypeOK, RxType, AnyItem
  <1>2. ASSUME t.item.kind = "status" PROVE t.item.content \in Cached
    <2>1. t.item \in Item
      BY <1>2, SendingItem DEF Transaction, Noise, Payload, Nothing
    <2> QED BY <1>2, <2>1 DEF Item, Reading, Picture, Cached
  <1> QED BY <1>1, <1>2 DEF Cached

LEMMA CallbackBegins ==
  ASSUME SpiTypeOK, SpiNext, rx'.pc = "Callback", rx' # rx
  PROVE  \E t : Transaction(t) /\ TakeStatus(t)
  <1>1. ASSUME NEW t, Transaction(t), Take(t) PROVE TakeStatus(t)
    <2>1. ~TakeHeader(t)
      BY DEF TakeHeader, Start
    <2>2. ~TakeChunk(t) /\ ~TakeDrained(t)
      BY WaitingFacts DEF TakeChunk, TakeDrained, SpiTypeOK, RxType
    <2> QED BY <1>1, <2>1, <2>2 DEF Take
  <1>2. CASE Transact
    BY <1>1, <1>2 DEF Transact, Sent, Transaction
  <1>3. CASE Phantom
    BY <1>1, <1>3 DEF Phantom, Transaction
  <1>4. ~(Misread \/ TransactionFails \/ Return \/ ResetReceiver)
    BY WaitingFacts DEF Misread, Start, TransactionFails, Return, ResetReceiver
  <1>5. ~(Abort \/ Miss \/ \E i \in Item : Begin(i))
    BY DEF Abort, Miss, Begin
  <1> QED BY <1>2, <1>3, <1>4, <1>5 DEF SpiNext

LEMMA FeedInit == Init => FeedType
  <1> SUFFICES ASSUME Init PROVE FeedType
    OBVIOUS
  <1>1. SpiTypeOK
    BY SpiTypeInit DEF Init
  <1>2. 0 \in Lane /\ Vacant \in Cached
    BY SpiAssumption, ReadingAssumption DEF Lane, Cached
  <1>3. TypeOK
    BY <1>1, <1>2 DEF Init, Boot, TypeOK
  <1>4. ~stored /\ rx.pc = "Header"
    BY WaitingFacts DEF Init, Boot, SpiInit
  <1> QED BY <1>3, <1>4 DEF FeedType

\* In a callback, the receiver takes nothing.
LEMMA CallbackStays ==
  ASSUME SpiTypeOK, SpiAlone, rx.pc = "Callback"
  PROVE  rx' = rx
  <1>1. ASSUME NEW t PROVE ~Take(t)
    BY DEF Take, TakeHeader, TakeStatus, TakeChunk, TakeDrained
  <1>2. ~Transact /\ ~Phantom
    BY <1>1 DEF Transact, Phantom
  <1>3. ~Misread /\ ~TransactionFails
    BY DEF Misread, TransactionFails
  <1>4. CASE (\E i \in Item : Begin(i)) \/ Abort \/ Miss
    BY <1>4 DEF Begin, Abort, Miss
  <1> QED BY <1>2, <1>3, <1>4 DEF SpiAlone

LEMMA FeedStep ==
  ASSUME FeedType, [Next]_vars
  PROVE  FeedType'
  <1>1. SpiTypeOK /\ SpiTypeOK'
    BY FeedStepIsSpiStep, SpiTypeStep DEF FeedType, TypeOK
  <1>2. CASE SpiAlone
    <2>1. UNCHANGED <<occupied, plate, stored, localStream, packet>>
      BY <1>2 DEF SpiAlone, cache, main
    <2>2. TypeOK'
      BY <1>1, <2>1 DEF FeedType, TypeOK
    <2>3. CASE rx' = rx
      BY <2>1, <2>2, <2>3 DEF FeedType
    <2>4. CASE rx' # rx
      <3>1. SpiNext
        BY <1>2 DEF SpiAlone, SpiNext
      <3>2. rx'.pc = "Callback" => rx'.item.content \in Cached
        BY <1>1, <2>4, <3>1, CallbackBegins, StatusContent
      <3>3. ~stored
        BY <1>1, <1>2, <2>4, CallbackStays DEF FeedType
      <3> QED BY <2>1, <2>2, <3>2, <3>3 DEF FeedType
    <2> QED BY <2>3, <2>4
  <1>3. CASE IgnoreStatus
    <2>1. UNCHANGED <<occupied, plate, stored, localStream, packet>> /\ rx' = Waiting
      BY <1>3 DEF IgnoreStatus, Return, cache, main
    <2>2. ~stored
      BY <1>3 DEF IgnoreStatus, FeedType
    <2>3. TypeOK'
      BY <1>1, <2>1 DEF FeedType, TypeOK
    <2> QED BY <2>1, <2>2, <2>3, WaitingFacts DEF FeedType
  <1>4. CASE StoreOccupied
    <2>1. rx' = rx /\ rx.pc = "Callback" /\ rx.item.stream \in Lane /\ stored'
      BY <1>4 DEF StoreOccupied, spi
    <2>2. UNCHANGED <<plate, localStream, packet>>
      BY <1>4 DEF StoreOccupied, main
    <2>3. occupied' \in [Lane -> Cached]
      BY <1>4, <2>1, StoreType DEF StoreOccupied, FeedType, TypeOK
    <2>4. stored' \in BOOLEAN
      BY <1>4 DEF StoreOccupied
    <2>5. TypeOK'
      BY <1>1, <2>2, <2>3, <2>4 DEF FeedType, TypeOK
    <2> QED BY <2>1, <2>5 DEF FeedType
  <1>5. CASE StorePlate
    <2>1. rx' = Waiting /\ ~stored' /\ UNCHANGED <<occupied, localStream, packet>>
      BY <1>5 DEF StorePlate, Return, main
    <2>2. plate' \in [Lane -> Cached]
      BY <1>5, StoreType DEF StorePlate, FeedType, TypeOK
    <2>3. stored' \in BOOLEAN
      BY <1>5 DEF StorePlate
    <2>4. TypeOK'
      BY <1>1, <2>1, <2>2, <2>3 DEF FeedType, TypeOK
    <2> QED BY <2>1, <2>4, WaitingFacts DEF FeedType
  <1>6. CASE ReadOccupied
    <2>1. UNCHANGED <<rx, occupied, plate, stored, localStream>>
      BY <1>6 DEF ReadOccupied, spi, cache
    <2>2. packet' \in Cached
      BY <1>6 DEF ReadOccupied, FeedType, TypeOK
    <2>3. TypeOK'
      BY <1>1, <2>1, <2>2 DEF FeedType, TypeOK
    <2> QED BY <2>1, <2>3 DEF FeedType
  <1>7. CASE Originate
    <2>1. UNCHANGED <<rx, occupied, plate, stored>> /\ packet' = None
      BY <1>7 DEF Originate, spi, cache
    <2>2. localStream' \in Lane
      BY <1>7, NextStreamType DEF Originate, FeedType, TypeOK
    <2>3. TypeOK'
      BY <1>1, <2>1, <2>2 DEF FeedType, TypeOK
    <2> QED BY <2>1, <2>3 DEF FeedType
  <1>8. CASE Reset
    <2>1. 0 \in Lane /\ Vacant \in Cached
      BY SpiAssumption, ReadingAssumption DEF Lane, Cached
    <2>2. rx' = Waiting /\ ~stored' /\ localStream' = 0 /\ packet' = None
      BY <1>8 DEF Reset, ResetReceiver
    <2>3. occupied' \in [Lane -> Cached] /\ plate' \in [Lane -> Cached]
      BY <1>8, <2>1 DEF Reset
    <2>4. stored' \in BOOLEAN
      BY <1>8 DEF Reset
    <2>5. TypeOK'
      BY <1>1, <2>1, <2>2, <2>3, <2>4 DEF TypeOK
    <2> QED BY <2>2, <2>5, WaitingFacts DEF FeedType
  <1>9. CASE UNCHANGED vars
    <2>1. UNCHANGED <<rx, occupied, plate, stored, localStream, packet>>
      BY <1>9 DEF vars, spi, cache, main
    <2>2. TypeOK'
      BY <1>1, <2>1 DEF FeedType, TypeOK
    <2> QED BY <2>1, <2>2 DEF FeedType
  <1> QED BY <1>2, <1>3, <1>4, <1>5, <1>6, <1>7, <1>8, <1>9 DEF Next

\* The chain is given readings LuckFox can have sent, or junk, and only for
\* lanes the node has: no store of setLaneStatus() and no read of
\* readLocalStatus() is outside the arrays.
THEOREM TypeCorrect == Spec => []TypeOK
  <1>1. FeedType => TypeOK
    BY DEF FeedType
  <1> QED BY <1>1, FeedInit, FeedStep, PTL DEF Spec
=============================================================================
