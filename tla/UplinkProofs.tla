---------------------------- MODULE UplinkProofs ----------------------------
(* Theorems about the Ethernet side of the Gateway, for every number of    *)
(* producers, queue depth and clock size.                                  *)
EXTENDS GatewayUplink, FiniteSetTheorems, TLAPS

-----------------------------------------------------------------------------
(* How the number of producers at a step of flushVideo() changes *)

\* The producers at a step of flushVideo()
LEMMA InIsNat ==
  ASSUME NEW pc
  PROVE  /\ IsFiniteSet({q \in Producer : handing[q] \in {pc}})
         /\ In({pc}) \in Nat
  <1>1. {q \in Producer : handing[q] \in {pc}} \subseteq Producer
    OBVIOUS
  <1> QED BY <1>1, UplinkAssumption, FS_Subset, FS_CardinalityType DEF In

\* A producer that goes from one step to another is one fewer at the first and
\* one more at the second.
LEMMA ProducerMoves ==
  ASSUME TypeOK, NEW p \in Producer, NEW to \in {"No", "Queueing", "Counting"},
         handing' = [handing EXCEPT ![p] = to],
         NEW pc \in {"Queueing", "Counting"}
  PROVE  In({pc})' = IF handing[p] = pc /\ to # pc THEN In({pc}) - 1
                     ELSE IF handing[p] # pc /\ to = pc THEN In({pc}) + 1
                     ELSE In({pc})
  <1> DEFINE S == {q \in Producer : handing[q] \in {pc}}
             T == {q \in Producer : handing'[q] \in {pc}}
  <1>1. /\ handing'[p] = to
        /\ \A q \in Producer \ {p} : handing'[q] = handing[q]
    BY DEF TypeOK
  <1>2. /\ handing[p] = pc /\ to # pc => p \in S /\ T = S \ {p}
        /\ handing[p] # pc /\ to = pc => p \notin S /\ T = S \cup {p}
        /\ handing[p] = pc /\ to = pc => T = S
        /\ handing[p] # pc /\ to # pc => T = S
    BY <1>1
  <1>3. IsFiniteSet(S)
    BY InIsNat
  <1>4. In({pc}) = Cardinality(S) /\ In({pc})' = Cardinality(T)
    BY DEF In
  <1> HIDE DEF S, T
  <1>5. /\ p \in S => Cardinality(S \ {p}) = Cardinality(S) - 1
        /\ p \notin S => Cardinality(S \cup {p}) = Cardinality(S) + 1
    BY <1>3, FS_AddElement, FS_RemoveElement
  <1> QED BY <1>2, <1>4, <1>5

\* A producer at a step is counted there.
LEMMA ProducerCounted ==
  ASSUME NEW p \in Producer, NEW pc, handing[p] = pc
  PROVE  In({pc}) > 0
  <1> DEFINE S == {q \in Producer : handing[q] \in {pc}}
  <1>1. p \in S
    OBVIOUS
  <1>2. In({pc}) = Cardinality(S)
    BY DEF In
  <1>3. IsFiniteSet(S) /\ In({pc}) \in Nat
    BY InIsNat
  <1> HIDE DEF S
  <1>4. Cardinality(S) # 0
    BY <1>1, <1>3, FS_EmptySet
  <1> QED BY <1>2, <1>3, <1>4

-----------------------------------------------------------------------------
(* Types and items *)

\* What a counter can be.
LEMMA CountUp ==
  ASSUME TypeOK
  PROVE  /\ [status EXCEPT !.queued = @ + 1] \in Counters
         /\ [status EXCEPT !.sent = @ + 1] \in Counters
         /\ [status EXCEPT !.dropped = @ + 1] \in Counters
         /\ status.queued \in Nat /\ status.sent \in Nat /\ status.dropped \in Nat
         /\ [video EXCEPT !.queued = @ + 1] \in Counters
         /\ [video EXCEPT !.sent = @ + 1] \in Counters
         /\ [video EXCEPT !.dropped = @ + 1] \in Counters
         /\ video.queued \in Nat /\ video.sent \in Nat /\ video.dropped \in Nat
  BY DEF TypeOK, Counters

LEMMA ItemsInit == Init => TypeOK /\ EveryItemAccounted
  <1> SUFFICES ASSUME Init PROVE TypeOK /\ EveryItemAccounted
    OBVIOUS
  <1>1. TypeOK
    <2>1. status \in Counters /\ video \in Counters
      BY DEF Init, Counters, NoneYet
    <2>2. handing \in [Producer -> {"No", "Queueing", "Counting"}]
      BY DEF Init
    <2>3. 0 \in 0 .. StatusDepth /\ 0 \in 0 .. VideoDepth /\ 0 \in 0 .. ClockMod - 1
      BY UplinkAssumption
    <2> QED BY <2>1, <2>2, <2>3 DEF Init, TypeOK
  <1>2. ASSUME NEW pc \in {"Queueing", "Counting"} PROVE In({pc}) = 0
    <2>1. {q \in Producer : handing[q] \in {pc}} = {}
      BY DEF Init
    <2> QED BY <2>1, FS_EmptySet DEF In
  <1>3. In({"Queueing"}) = 0 /\ In({"Counting"}) = 0
    BY <1>2
  <1>4. InHand(statusTask) = 0 /\ InHand(videoTask) = 0
    BY DEF Init, InHand
  <1> QED BY <1>1, <1>3, <1>4 DEF Init, EveryItemAccounted, NoneYet

\* The uplink owns a buffer whenever a task has a frame in its hands.
LEMMA BufferInHand ==
  ASSUME TypeOK, EveryItemAccounted,
         \/ videoTask \in {"Holding", "Sending"}
         \/ \E p \in Producer : handing[p] = "Queueing"
  PROVE  buffers - 1 \in Nat
  <1>0. In({"Queueing"}) \in Nat
    BY InIsNat
  <1>1. In({"Queueing"}) \in Nat /\ videoQueue \in Nat /\ InHand(videoTask) \in Nat
    BY <1>0, UplinkAssumption DEF TypeOK, InHand
  <1>2. CASE videoTask \in {"Holding", "Sending"}
    <2>1. InHand(videoTask) = 1
      BY <1>2 DEF InHand
    <2> QED BY <1>1, <2>1 DEF TypeOK, EveryItemAccounted
  <1>3. CASE \E p \in Producer : handing[p] = "Queueing"
    <2>1. In({"Queueing"}) > 0
      BY <1>3, ProducerCounted
    <2> QED BY <1>1, <2>1 DEF TypeOK, EveryItemAccounted
  <1> QED BY <1>2, <1>3

LEMMA TypeNext ==
  TypeOK /\ EveryItemAccounted /\ [Next]_vars => TypeOK'
  <1> SUFFICES ASSUME TypeOK, EveryItemAccounted, [Next]_vars PROVE TypeOK'
    OBVIOUS
  <1> USE UplinkAssumption, CountUp DEF TypeOK
  <1>1. CASE LinkChanges
    BY <1>1 DEF LinkChanges, sent, statusSide, videoSide, watchdog, restarts
  <1>2. CASE Flush
    <2>1. statusQueue' \in 0 .. StatusDepth
      BY <1>2 DEF Flush, HasRoom
    <2>2. status' \in Counters
      BY <1>2 DEF Flush
    <2>3. readings' \in Nat
      BY <1>2 DEF Flush
    <2>4. fresh' \in BOOLEAN
      <3>1. fresh' = TRUE \/ fresh' = fresh
        BY <1>2 DEF Flush
      <3> QED BY <3>1
    <2> QED BY <1>2, <2>1, <2>2, <2>3, <2>4 DEF Flush, link, sent, videoSide, watchdog, restarts
  <1>3. CASE TakeReading
    BY <1>3 DEF TakeReading, link, sent, videoSide, watchdog, restarts
  <1>4. CASE CheckLinkForReading
    BY <1>4 DEF CheckLinkForReading, link, sent, videoSide, watchdog, restarts
  <1>5. CASE SendReading
    <2>1. status' \in Counters
      BY <1>5 DEF SendReading
    <2>2. /\ sentSince' = TRUE \/ sentSince' = sentSince
          /\ sentAfter' = TRUE \/ sentAfter' = sentAfter
      BY <1>5 DEF SendReading, SendCounted, sent
    <2>3. sentSince' \in BOOLEAN /\ sentAfter' \in BOOLEAN
      BY <2>2
    <2> QED BY <1>5, <2>1, <2>3 DEF SendReading, link, sent, videoSide, watchdog, restarts
  <1>6. ASSUME NEW p \in Producer, FlushVideo(p) PROVE TypeOK'
    BY <1>6 DEF FlushVideo, link, sent, statusSide, watchdog, restarts
  <1>7. ASSUME NEW p \in Producer, QueueFrame(p) PROVE TypeOK'
    <2>1. buffers - 1 \in Nat
      BY <1>7, BufferInHand DEF QueueFrame
    <2> QED BY <1>7, <2>1 DEF QueueFrame, HasRoom, link, sent, statusSide, watchdog, restarts
  <1>8. ASSUME NEW p \in Producer, CountFrame(p) PROVE TypeOK'
    BY <1>8 DEF CountFrame, link, sent, statusSide, watchdog, restarts
  <1>9. CASE TakeFrame
    BY <1>9 DEF TakeFrame, link, sent, statusSide, watchdog, restarts
  <1>10. CASE CheckLinkForFrame
    <2>1. buffers - 1 \in Nat
      BY <1>10, BufferInHand DEF CheckLinkForFrame
    <2> QED BY <1>10, <2>1 DEF CheckLinkForFrame, link, sent, statusSide, watchdog, restarts
  <1>11. CASE SendFrame
    <2>1. buffers - 1 \in Nat
      BY <1>11, BufferInHand DEF SendFrame
    <2>2. video' \in Counters
      BY <1>11 DEF SendFrame
    <2>3. /\ sentSince' = TRUE \/ sentSince' = sentSince
          /\ sentAfter' = TRUE \/ sentAfter' = sentAfter
      BY <1>11 DEF SendFrame, SendCounted, sent
    <2>4. sentSince' \in BOOLEAN /\ sentAfter' \in BOOLEAN
      BY <2>3
    <2> QED BY <1>11, <2>1, <2>2, <2>4 DEF SendFrame, link, sent, statusSide, watchdog, restarts
  <1>12. CASE BeginLog
    <2>1. now' \in Nat /\ quiet' \in Nat /\ logs' \in Nat
      BY <1>12 DEF BeginLog
    <2>2. sentTotal' \in Nat /\ stuck' \in Nat /\ stalled' \in Nat
      BY <1>12 DEF BeginLog
    <2> QED BY <1>12, <2>1, <2>2 DEF BeginLog, link, sent, statusSide, videoSide, restarts
  <1>13. CASE SumSent
    BY <1>13 DEF SumSent, link, sent, statusSide, videoSide, restarts
  <1>14. CASE Decide
    <2>1. Ms(now) \in 0 .. ClockMod - 1
      BY DEF Ms
    <2>2. QueuedTotal \in Nat
      BY CountUp DEF QueuedTotal
    <2>3. StuckNow \in Nat
      BY DEF StuckNow
    <2>4. /\ stuck' \in Nat /\ stalled' \in Nat /\ sentTotal' \in Nat
          /\ lastSent' \in Nat /\ lastQueued' \in Nat
      BY <1>14, <2>2, <2>3 DEF Decide
    <2>5. lastRestart' \in 0 .. ClockMod - 1 /\ restartedAt' \in Nat \cup {Never}
      BY <1>14, <2>1 DEF Decide, restarts
    <2>6. logPc' \in {"Idle", "Restarting"} /\ fresh' = FALSE
      BY <1>14 DEF Decide
    <2> QED BY <1>14, <2>4, <2>5, <2>6 DEF Decide, link, sent, statusSide, videoSide
  <1>15. CASE Restart
    BY <1>15 DEF Restart, link, sent, statusSide, videoSide, restarts
  <1>16. CASE UNCHANGED vars
    BY <1>16 DEF vars, link, sent, statusSide, videoSide, watchdog, restarts
  <1> QED
    BY <1>1, <1>2, <1>3, <1>4, <1>5, <1>6, <1>7, <1>8, <1>9, <1>10, <1>11, <1>12,
       <1>13, <1>14, <1>15, <1>16 DEF Next

\* The two halves of EveryItemAccounted
ReadingsAccounted ==
  /\ readings = status.sent + status.dropped + statusQueue + InHand(statusTask)
  /\ status.sent + statusQueue + InHand(statusTask) <= status.queued

FramesAccounted ==
  /\ frames = video.sent + video.dropped + buffers
  /\ buffers = In({"Queueing"}) + videoQueue + InHand(videoTask)
  /\ video.sent + videoQueue + InHand(videoTask) <= video.queued + In({"Counting"})

\* A step of a producer or of the video task
FrameStep ==
  \/ \E p \in Producer : FlushVideo(p) \/ QueueFrame(p) \/ CountFrame(p)
  \/ TakeFrame \/ CheckLinkForFrame \/ SendFrame

LEMMA ReadingsNext ==
  TypeOK /\ ReadingsAccounted /\ [Next]_vars => ReadingsAccounted'
  <1> SUFFICES ASSUME TypeOK, ReadingsAccounted, [Next]_vars PROVE ReadingsAccounted'
    OBVIOUS
  <1>0. /\ readings \in Nat /\ statusQueue \in Nat
        /\ status.queued \in Nat /\ status.sent \in Nat /\ status.dropped \in Nat
    BY UplinkAssumption, CountUp DEF TypeOK
  <1>1. CASE Flush
    <2>1. CASE HasRoom(statusQueue, StatusDepth)
      <3>1. /\ readings' = readings + 1 /\ statusQueue' = statusQueue + 1
            /\ status'.queued = status.queued + 1
            /\ status'.sent = status.sent /\ status'.dropped = status.dropped
            /\ statusTask' = statusTask
        BY <1>1, <2>1 DEF Flush, TypeOK, Counters
      <3> QED BY <1>0, <3>1 DEF ReadingsAccounted, InHand
    <2>2. CASE ~HasRoom(statusQueue, StatusDepth)
      <3>1. /\ readings' = readings + 1 /\ statusQueue' = statusQueue
            /\ status'.queued = status.queued /\ status'.sent = status.sent
            /\ status'.dropped = status.dropped + 1
            /\ statusTask' = statusTask
        BY <1>1, <2>2 DEF Flush, TypeOK, Counters
      <3> QED BY <1>0, <3>1 DEF ReadingsAccounted, InHand
    <2> QED BY <2>1, <2>2
  <1>2. CASE TakeReading
    BY <1>0, <1>2 DEF TakeReading, ReadingsAccounted, InHand
  <1>3. CASE CheckLinkForReading
    <2>1. CASE linkUp
      BY <1>0, <1>3, <2>1 DEF CheckLinkForReading, ReadingsAccounted, InHand
    <2>2. CASE ~linkUp
      <3>1. /\ status'.queued = status.queued /\ status'.sent = status.sent
            /\ status'.dropped = status.dropped + 1
        BY <1>3, <2>2 DEF CheckLinkForReading, TypeOK, Counters
      <3> QED BY <1>0, <1>3, <2>2, <3>1 DEF CheckLinkForReading, ReadingsAccounted, InHand
    <2> QED BY <2>1, <2>2
  <1>4. CASE SendReading
    <2>1. /\ status'.queued = status.queued
          /\ \/ status'.sent = status.sent + 1 /\ status'.dropped = status.dropped
             \/ status'.sent = status.sent /\ status'.dropped = status.dropped + 1
      BY <1>4 DEF SendReading, TypeOK, Counters
    <2> QED BY <1>0, <1>4, <2>1 DEF SendReading, ReadingsAccounted, InHand
  <1>5. CASE UNCHANGED statusSide
    BY <1>5 DEF statusSide, ReadingsAccounted, InHand
  <1>6. FrameStep => UNCHANGED statusSide
    BY DEF FrameStep, FlushVideo, QueueFrame, CountFrame, TakeFrame, CheckLinkForFrame, SendFrame
  <1>7. LinkChanges \/ BeginLog \/ SumSent \/ Decide \/ Restart
          => UNCHANGED statusSide
    BY DEF LinkChanges, BeginLog, SumSent, Decide, Restart
  <1>8. UNCHANGED vars => UNCHANGED statusSide
    BY DEF vars
  <1> QED BY <1>1, <1>2, <1>3, <1>4, <1>5, <1>6, <1>7, <1>8 DEF Next, FrameStep

LEMMA FramesNext ==
  TypeOK /\ FramesAccounted /\ [Next]_vars => FramesAccounted'
  <1> SUFFICES ASSUME TypeOK, FramesAccounted, [Next]_vars PROVE FramesAccounted'
    OBVIOUS
  <1> DEFINE Q == In({"Queueing"})
             C == In({"Counting"})
  <1>0. /\ frames \in Nat /\ videoQueue \in Nat /\ buffers \in Nat
        /\ video.queued \in Nat /\ video.sent \in Nat /\ video.dropped \in Nat
    BY UplinkAssumption, CountUp DEF TypeOK
  <1>q. Q \in Nat
    BY InIsNat
  <1>c. C \in Nat
    BY InIsNat
  <1>n. handing' = handing => Q' = Q /\ C' = C
    BY DEF In
  <1>f. /\ frames = video.sent + video.dropped + buffers
        /\ buffers = Q + videoQueue + InHand(videoTask)
        /\ video.sent + videoQueue + InHand(videoTask) <= video.queued + C
    BY DEF FramesAccounted
  <1>g. ASSUME /\ frames' = video'.sent + video'.dropped + buffers'
               /\ buffers' = Q' + videoQueue' + InHand(videoTask')
               /\ video'.sent + videoQueue' + InHand(videoTask') <= video'.queued + C'
        PROVE  FramesAccounted'
    BY <1>g DEF FramesAccounted
  <1>h. ASSUME NEW p \in Producer, NEW to \in {"No", "Queueing", "Counting"},
               handing' = [handing EXCEPT ![p] = to]
        PROVE  /\ Q' = IF handing[p] = "Queueing" /\ to # "Queueing" THEN Q - 1
                       ELSE IF handing[p] # "Queueing" /\ to = "Queueing" THEN Q + 1 ELSE Q
               /\ C' = IF handing[p] = "Counting" /\ to # "Counting" THEN C - 1
                       ELSE IF handing[p] # "Counting" /\ to = "Counting" THEN C + 1 ELSE C
    BY <1>h, ProducerMoves
  <1> HIDE DEF Q, C
  <1>1. ASSUME NEW p \in Producer, FlushVideo(p) PROVE FramesAccounted'
    <2>1. CASE linkUp
      <3>1. Q' = Q + 1 /\ C' = C
        BY <1>1, <2>1, <1>h DEF FlushVideo
      <3> QED BY <1>0, <1>q, <1>c, <1>f, <1>g, <1>1, <2>1, <3>1 DEF FlushVideo, InHand
    <2>2. CASE ~linkUp
      <3>1. /\ video'.queued = video.queued /\ video'.sent = video.sent
            /\ video'.dropped = video.dropped + 1
        BY <1>1, <2>2 DEF FlushVideo, TypeOK, Counters
      <3> QED BY <1>0, <1>q, <1>c, <1>n, <1>f, <1>g, <1>1, <2>2, <3>1 DEF FlushVideo, InHand
    <2> QED BY <2>1, <2>2
  <1>2. ASSUME NEW p \in Producer, QueueFrame(p) PROVE FramesAccounted'
    <2>1. CASE HasRoom(videoQueue, VideoDepth)
      <3>1. Q' = Q - 1 /\ C' = C + 1
        BY <1>2, <2>1, <1>h DEF QueueFrame
      <3> QED BY <1>0, <1>q, <1>c, <1>f, <1>g, <1>2, <2>1, <3>1 DEF QueueFrame, InHand
    <2>2. CASE ~HasRoom(videoQueue, VideoDepth)
      <3>1. Q' = Q - 1 /\ C' = C
        BY <1>2, <2>2, <1>h DEF QueueFrame
      <3>2. /\ video'.queued = video.queued /\ video'.sent = video.sent
            /\ video'.dropped = video.dropped + 1
        BY <1>2, <2>2 DEF QueueFrame, TypeOK, Counters
      <3>3. /\ frames' = frames /\ videoQueue' = videoQueue /\ videoTask' = videoTask
            /\ buffers' = buffers - 1
        BY <1>2, <2>2 DEF QueueFrame
      <3>4. InHand(videoTask) \in Nat
        BY DEF InHand
      <3> HIDE DEF InHand
      <3> QED BY <1>0, <1>q, <1>c, <1>f, <1>g, <3>1, <3>2, <3>3, <3>4
    <2> QED BY <2>1, <2>2
  <1>3. ASSUME NEW p \in Producer, CountFrame(p) PROVE FramesAccounted'
    <2>1. Q' = Q /\ C' = C - 1
      BY <1>3, <1>h DEF CountFrame
    <2>2. /\ video'.queued = video.queued + 1 /\ video'.sent = video.sent
          /\ video'.dropped = video.dropped
      BY <1>3 DEF CountFrame, TypeOK, Counters
    <2> QED BY <1>0, <1>q, <1>c, <1>f, <1>g, <1>3, <2>1, <2>2 DEF CountFrame, InHand
  <1>4. CASE TakeFrame
    BY <1>0, <1>q, <1>c, <1>n, <1>f, <1>g, <1>4 DEF TakeFrame, InHand
  <1>5. CASE CheckLinkForFrame
    <2>1. CASE linkUp
      BY <1>0, <1>q, <1>c, <1>n, <1>f, <1>g, <1>5, <2>1 DEF CheckLinkForFrame, InHand
    <2>2. CASE ~linkUp
      <3>1. /\ video'.queued = video.queued /\ video'.sent = video.sent
            /\ video'.dropped = video.dropped + 1
        BY <1>5, <2>2 DEF CheckLinkForFrame, TypeOK, Counters
      <3> QED BY <1>0, <1>q, <1>c, <1>n, <1>f, <1>g, <1>5, <2>2, <3>1
              DEF CheckLinkForFrame, InHand
    <2> QED BY <2>1, <2>2
  <1>6. CASE SendFrame
    <2>1. /\ video'.queued = video.queued
          /\ \/ video'.sent = video.sent + 1 /\ video'.dropped = video.dropped
             \/ video'.sent = video.sent /\ video'.dropped = video.dropped + 1
      BY <1>6 DEF SendFrame, TypeOK, Counters
    <2> QED BY <1>0, <1>q, <1>c, <1>n, <1>f, <1>g, <1>6, <2>1 DEF SendFrame, InHand
  <1>7. CASE UNCHANGED videoSide
    BY <1>f, <1>g, <1>n, <1>7 DEF videoSide
  <1>8. \/ LinkChanges \/ BeginLog \/ SumSent \/ Decide \/ Restart
        \/ Flush \/ TakeReading \/ CheckLinkForReading \/ SendReading
        => UNCHANGED videoSide
    BY DEF LinkChanges, BeginLog, SumSent, Decide, Restart, Flush, TakeReading,
           CheckLinkForReading, SendReading
  <1>9. UNCHANGED vars => UNCHANGED videoSide
    BY DEF vars
  <1> QED BY <1>1, <1>2, <1>3, <1>4, <1>5, <1>6, <1>7, <1>8, <1>9 DEF Next

LEMMA ItemsInductive ==
  TypeOK /\ EveryItemAccounted /\ [Next]_vars => (TypeOK /\ EveryItemAccounted)'
  <1>1. EveryItemAccounted <=> ReadingsAccounted /\ FramesAccounted
    BY DEF EveryItemAccounted, ReadingsAccounted, FramesAccounted
  <1>2. EveryItemAccounted' <=> ReadingsAccounted' /\ FramesAccounted'
    BY DEF EveryItemAccounted, ReadingsAccounted, FramesAccounted
  <1> QED BY <1>1, <1>2, TypeNext, ReadingsNext, FramesNext

\* Every counter, queue length and clock stays in its range: no queue holds more
\* than its depth, and free() is not called more often than a buffer is given
\* to the uplink.
THEOREM TypeCorrect == Spec => []TypeOK
  BY ItemsInit, ItemsInductive, PTL DEF Spec

\* Every reading flush() is given and every frame flushVideo() is given is sent,
\* dropped, or in exactly one place, whatever the link does meanwhile.
THEOREM ItemsCorrect == Spec => []EveryItemAccounted
  BY ItemsInit, ItemsInductive, PTL DEF Spec

-----------------------------------------------------------------------------
(* Restarts *)

\* A multiple of a positive number is at least as large as a smaller one.
LEMMA Multiples ==
  ASSUME NEW m \in Nat \ {0}, NEW a \in Int, NEW b \in Int, a < b
  PROVE  m * a + m <= m * b
  <1>1. PICK d \in Nat : b = a + 1 + d
    <2>1. b - a - 1 \in Nat /\ b = a + 1 + (b - a - 1)
      OBVIOUS
    <2> QED BY <2>1
  <1>2. m * b = m * a + m + m * d
    BY <1>1
  <1>3. m * d >= 0 /\ m * d \in Int /\ m * a \in Int
    OBVIOUS
  <1> QED BY <1>2, <1>3

\* Unsigned subtraction from a stamp: what it gives is not more than the time
\* that has gone by, however often the clock has wrapped.
LEMMA ElapsedAtMost ==
  ASSUME NEW t \in Nat, NEW s \in Nat, s <= t
  PROVE  Ms(t - Ms(s)) <= t - s
  <1> DEFINE q == s \div ClockMod
             r == s % ClockMod
             x == t - r
             k == x \div ClockMod
             e == x % ClockMod
  <1>0. ClockMod \in Nat \ {0}
    BY UplinkAssumption
  <1>1. q \in Int /\ r \in 0 .. ClockMod - 1 /\ s = ClockMod * q + r
    BY <1>0
  <1>2. x \in Int
    BY <1>1
  <1>3. k \in Int /\ e \in 0 .. ClockMod - 1 /\ x = ClockMod * k + e
    BY <1>0, <1>2
  <1>4. Ms(t - Ms(s)) = e
    BY DEF Ms
  <1>5. x = (t - s) + ClockMod * q
    BY <1>0, <1>1
  <1> HIDE DEF q, r, x, k, e
  <1>6. ClockMod * q \in Int /\ ClockMod * k \in Int
    BY <1>0, <1>1, <1>3
  <1>7. CASE k < q
    <2>1. ClockMod * k + ClockMod <= ClockMod * q
      BY <1>0, <1>1, <1>3, <1>7, Multiples
    <2> QED BY <1>0, <1>3, <1>4, <1>5, <1>6, <2>1
  <1>8. CASE k = q
    BY <1>3, <1>4, <1>5, <1>6, <1>8
  <1>9. CASE q < k
    <2>1. ClockMod * q + ClockMod <= ClockMod * k
      BY <1>0, <1>1, <1>3, <1>9, Multiples
    <2> QED BY <1>0, <1>3, <1>4, <1>5, <1>6, <2>1
  <1> QED BY <1>1, <1>3, <1>7, <1>8, <1>9

\* g_lastRestartMs is the time of the last restart on the clock, or 0.
RestartStamped ==
  \/ restartedAt = Never /\ lastRestart = 0
  \/ restartedAt \in Nat /\ restartedAt <= now /\ lastRestart = Ms(restartedAt)

LEMMA StampedInit == Init => RestartStamped
  BY DEF Init, RestartStamped

LEMMA StampedNext ==
  TypeOK /\ RestartStamped /\ [Next]_vars => RestartStamped'
  <1> SUFFICES ASSUME TypeOK, RestartStamped, [Next]_vars PROVE RestartStamped'
    OBVIOUS
  <1>0. now \in Nat
    BY DEF TypeOK
  <1>1. CASE BeginLog
    <2>1. now' \in Nat /\ now <= now' /\ UNCHANGED restarts
      BY <1>0, <1>1, UplinkAssumption DEF BeginLog
    <2> QED BY <1>0, <2>1 DEF RestartStamped, restarts
  <1>2. CASE Decide
    <2>1. CASE Due /\ RestartAllowed
      BY <1>0, <1>2, <2>1 DEF Decide, RestartStamped
    <2>2. CASE ~(Due /\ RestartAllowed)
      BY <1>2, <2>2 DEF Decide, RestartStamped, restarts
    <2> QED BY <2>1, <2>2
  <1>3. CASE UNCHANGED <<now, restarts>>
    BY <1>3 DEF RestartStamped, restarts
  <1>4. FrameStep \/ LinkChanges \/ Flush \/ TakeReading \/ CheckLinkForReading \/ SendReading
          => UNCHANGED <<now, restarts>>
    BY DEF FrameStep, FlushVideo, QueueFrame, CountFrame, TakeFrame, CheckLinkForFrame, SendFrame,
           LinkChanges, Flush, TakeReading, CheckLinkForReading, SendReading, watchdog
  <1>5. SumSent \/ Restart \/ UNCHANGED vars => UNCHANGED <<now, restarts>>
    BY DEF SumSent, Restart, vars, watchdog
  <1> QED BY <1>1, <1>2, <1>3, <1>4, <1>5 DEF Next, FrameStep

\* Only Decide begins a restart.
LEMMA OnlyDecideRestarts ==
  ASSUME [Next]_vars, logPc # "Restarting", logPc' = "Restarting"
  PROVE  Decide /\ Due /\ RestartAllowed
  <1>1. CASE Decide
    BY <1>1 DEF Decide
  <1>2. FrameStep \/ LinkChanges \/ Flush \/ TakeReading \/ CheckLinkForReading \/ SendReading
          => UNCHANGED logPc
    BY DEF FrameStep, FlushVideo, QueueFrame, CountFrame, TakeFrame, CheckLinkForFrame, SendFrame,
           LinkChanges, Flush, TakeReading, CheckLinkForReading, SendReading, watchdog
  <1>3. UNCHANGED vars => UNCHANGED logPc
    BY DEF vars, watchdog
  <1>4. BeginLog \/ SumSent \/ Restart => logPc' # "Restarting"
    BY DEF BeginLog, SumSent, Restart
  <1> QED BY <1>1, <1>2, <1>3, <1>4 DEF Next, FrameStep

\* kEthRestartMinIntervalMs lies between two restarts of the link, however often
\* the clock wraps, unless the first was at clock 0.
THEOREM RestartsSpacedCorrect == Spec => RestartsSpaced
  <1>1. ASSUME TypeOK, RestartStamped, [Next]_vars
        PROVE  (logPc # "Restarting" /\ logPc' = "Restarting" /\ restartedAt # Never) =>
                 (now - restartedAt >= MinInterval \/ Ms(restartedAt) = 0)
    <2> SUFFICES ASSUME logPc # "Restarting", logPc' = "Restarting", restartedAt # Never,
                        Ms(restartedAt) # 0
                 PROVE  now - restartedAt >= MinInterval
      OBVIOUS
    <2>1. restartedAt \in Nat /\ restartedAt <= now /\ lastRestart = Ms(restartedAt)
      BY <1>1 DEF RestartStamped
    <2>2. Ms(now - lastRestart) >= MinInterval
      BY <1>1, <2>1, OnlyDecideRestarts DEF RestartAllowed
    <2>3. Ms(now - lastRestart) <= now - restartedAt
      BY <1>1, <2>1, ElapsedAtMost DEF TypeOK
    <2>4. Ms(now - lastRestart) \in Int /\ now \in Int /\ MinInterval \in Int
      BY <1>1, UplinkAssumption DEF TypeOK, Ms
    <2> QED BY <2>1, <2>2, <2>3, <2>4
  <1> QED
    BY <1>1, ItemsInit, ItemsInductive, StampedInit, StampedNext, PTL DEF Spec, RestartsSpaced

-----------------------------------------------------------------------------
(* The watchdog *)

SentTotal == status.sent + video.sent

\* What the other tasks do to what the watchdog knows: counters only grow.
WorkStep ==
  /\ UNCHANGED <<logPc, sentTotal, stuck, lastSent, lastQueued, restarts, now, quiet, stalled>>
  /\ \/ status'.sent = status.sent /\ video'.sent = video.sent /\ UNCHANGED sent
     \/ /\ SendCounted
        /\ \/ status'.sent = status.sent + 1 /\ video'.sent = video.sent
           \/ status'.sent = status.sent /\ video'.sent = video.sent + 1
  /\ \/ QueuedTotal' = QueuedTotal /\ fresh' = fresh
     \/ QueuedTotal' = QueuedTotal + 1 /\ fresh' = TRUE

LEMMA OnlyWork ==
  ASSUME TypeOK, [Next]_vars, ~BeginLog, ~SumSent, ~Decide, ~Restart
  PROVE  WorkStep
  <1>0. /\ status.queued \in Nat /\ video.queued \in Nat
        /\ status.sent \in Nat /\ video.sent \in Nat
    BY DEF TypeOK, Counters
  <1>1. CASE LinkChanges \/ TakeReading \/ TakeFrame \/ UNCHANGED vars
    BY <1>1 DEF LinkChanges, TakeReading, TakeFrame, WorkStep, QueuedTotal, statusSide, videoSide,
                watchdog, vars
  <1>2. CASE Flush
    BY <1>0, <1>2 DEF Flush, WorkStep, QueuedTotal, videoSide, watchdog, TypeOK, Counters
  <1>3. CASE CheckLinkForReading
    BY <1>0, <1>3 DEF CheckLinkForReading, WorkStep, QueuedTotal, videoSide, watchdog,
                      TypeOK, Counters
  <1>4. CASE SendReading
    BY <1>0, <1>4 DEF SendReading, WorkStep, QueuedTotal, videoSide, watchdog,
                      TypeOK, Counters
  <1>5. ASSUME NEW p \in Producer, FlushVideo(p) \/ QueueFrame(p) \/ CountFrame(p)
        PROVE  WorkStep
    <2>1. CASE FlushVideo(p)
      BY <1>0, <2>1 DEF FlushVideo, WorkStep, QueuedTotal, statusSide, watchdog,
                        TypeOK, Counters
    <2>2. CASE QueueFrame(p)
      BY <1>0, <2>2 DEF QueueFrame, WorkStep, QueuedTotal, statusSide, watchdog,
                        TypeOK, Counters
    <2>3. CASE CountFrame(p)
      <3>1. /\ video' = [video EXCEPT !.queued = @ + 1] /\ status' = status
            /\ UNCHANGED <<watchdog, sent>> /\ fresh' = TRUE
        BY <2>3 DEF CountFrame, statusSide
      <3>2. /\ video'.sent = video.sent /\ video'.queued = video.queued + 1
            /\ status'.sent = status.sent /\ status'.queued = status.queued
        BY <3>1 DEF TypeOK, Counters
      <3>3. QueuedTotal' = QueuedTotal + 1
        BY <1>0, <3>2 DEF QueuedTotal
      <3> QED BY <3>1, <3>2, <3>3 DEF WorkStep, watchdog
    <2> QED BY <1>5, <2>1, <2>2, <2>3
  <1>6. CASE CheckLinkForFrame
    BY <1>0, <1>6 DEF CheckLinkForFrame, WorkStep, QueuedTotal, statusSide, watchdog,
                      TypeOK, Counters
  <1>7. CASE SendFrame
    BY <1>0, <1>7 DEF SendFrame, WorkStep, QueuedTotal, statusSide, watchdog,
                      TypeOK, Counters
  <1> QED BY <1>1, <1>2, <1>3, <1>4, <1>5, <1>6, <1>7 DEF Next

\* As many intervals as g_stuckIntervals counts were quiet, but for one: what is
\* sent between the two reads of logStats() is not counted twice.
PatientInv ==
  /\ lastSent <= SentTotal
  /\ logPc \in {"Idle", "Restarting"} =>
       /\ stuck <= quiet + 1
       /\ stuck > 0 /\ sentSince => lastSent < SentTotal
  /\ logPc = "Summing" =>
       /\ sentTotal <= status.sent /\ lastSent <= sentTotal + video.sent
       /\ sentSince => sentTotal < status.sent \/ lastSent < sentTotal + video.sent
       /\ stuck <= quiet \/ lastSent < sentTotal + video.sent
  /\ logPc = "Deciding" =>
       /\ sentTotal <= SentTotal
       /\ sentSince /\ sentTotal = lastSent => sentTotal < SentTotal
       /\ stuck <= quiet \/ lastSent < sentTotal
  /\ logPc = "Restarting" => quiet + 1 >= StuckIntervals

LEMMA WatchdogTypes ==
  ASSUME TypeOK
  PROVE  /\ status.sent \in Nat /\ video.sent \in Nat /\ SentTotal \in Nat
         /\ QueuedTotal \in Nat /\ StuckIntervals \in Nat /\ StuckIntervals > 0
         /\ sentTotal \in Nat /\ stuck \in Nat /\ lastSent \in Nat /\ lastQueued \in Nat
         /\ quiet \in Nat /\ stalled \in Nat /\ now \in Nat
         /\ logPc \in {"Idle", "Summing", "Deciding", "Restarting"}
  BY UplinkAssumption DEF TypeOK, Counters, SentTotal, QueuedTotal

LEMMA PatientStep ==
  ASSUME TypeOK, PatientInv, [Next]_vars
  PROVE  PatientInv'
  <1> USE WatchdogTypes
  <1>1. CASE BeginLog
    <2>1. status' = status /\ video' = video /\ lastSent' = lastSent /\ sentSince' = FALSE
          /\ logPc = "Idle"
      BY <1>1 DEF BeginLog, statusSide, videoSide
    <2>2. CASE linkUp
      <3>1. sentTotal' = status.sent /\ logPc' = "Summing" /\ stuck' = stuck
        BY <1>1, <2>2 DEF BeginLog
      <3>2. CASE sentSince
        <4>1. quiet' = 0
          BY <1>1, <3>2 DEF BeginLog
        <4> QED BY <2>1, <3>1, <3>2, <4>1 DEF PatientInv, SentTotal
      <3>3. CASE ~sentSince
        <4>1. quiet' = quiet + 1
          BY <1>1, <3>3 DEF BeginLog
        <4> QED BY <2>1, <3>1, <4>1 DEF PatientInv, SentTotal
      <3> QED BY <3>2, <3>3
    <2>3. CASE ~linkUp
      <3>1. stuck' = 0 /\ logPc' = "Idle"
        BY <1>1, <2>1, <2>3 DEF BeginLog
      <3>2. quiet' = 0 \/ quiet' = quiet + 1
        BY <1>1 DEF BeginLog
      <3>3. 0 <= quiet' + 1
        BY <3>2
      <3>4. lastSent' <= SentTotal'
        BY <2>1 DEF PatientInv, SentTotal
      <3> QED BY <3>1, <3>3, <3>4 DEF PatientInv
    <2> QED BY <2>2, <2>3
  <1>2. CASE SumSent
    BY <1>2 DEF SumSent, sent, PatientInv, SentTotal, statusSide, videoSide
  <1>3. CASE Decide
    <2>1. /\ status' = status /\ video' = video /\ lastSent' = sentTotal /\ logPc = "Deciding"
          /\ quiet' = quiet /\ sentSince' = sentSince
      BY <1>3 DEF Decide, statusSide, videoSide
    <2>2. StuckNow = 0 \/ (StuckNow = stuck + 1 /\ sentTotal = lastSent)
      BY DEF StuckNow
    <2>3. CASE Due /\ RestartAllowed
      <3>1. stuck' = 0 /\ logPc' = "Restarting" /\ StuckNow >= StuckIntervals
        BY <1>3, <2>3 DEF Decide, Due
      <3> QED BY <2>1, <2>2, <3>1 DEF PatientInv, SentTotal
    <2>4. CASE ~(Due /\ RestartAllowed)
      <3>1. stuck' = StuckNow /\ logPc' = "Idle"
        BY <1>3, <2>4 DEF Decide
      <3> QED BY <2>1, <2>2, <3>1 DEF PatientInv, SentTotal
    <2> QED BY <2>3, <2>4
  <1>4. CASE Restart
    BY <1>4 DEF Restart, PatientInv, SentTotal, statusSide, videoSide, sent
  <1>5. CASE WorkStep
    <2>1. UNCHANGED <<logPc, sentTotal, stuck, lastSent, quiet>>
      BY <1>5 DEF WorkStep
    <2>2. CASE status'.sent = status.sent /\ video'.sent = video.sent /\ UNCHANGED sent
      <3>1. sentSince' = sentSince
        BY <2>2 DEF sent
      <3> QED BY <2>1, <2>2, <3>1 DEF PatientInv, SentTotal
    <2>3. CASE status'.sent = status.sent + 1 /\ video'.sent = video.sent
      BY <2>1, <2>3 DEF PatientInv, SentTotal
    <2>4. CASE status'.sent = status.sent /\ video'.sent = video.sent + 1
      BY <2>1, <2>4 DEF PatientInv, SentTotal
    <2> QED BY <1>5, <2>2, <2>3, <2>4 DEF WorkStep
  <1> QED BY <1>1, <1>2, <1>3, <1>4, <1>5, OnlyWork

LEMMA PatientInit ==
  ASSUME Init
  PROVE  PatientInv
  BY UplinkAssumption DEF Init, PatientInv, SentTotal, NoneYet

\* logStats() restarts a driver only after kEthStuckIntervals intervals without
\* anything sent, one of which may have been the one it was counting in.
THEOREM PatientCorrect == Spec => []WatchdogPatient
  <1>1. PatientInv => WatchdogPatient
    BY DEF PatientInv, WatchdogPatient
  <1> QED
    BY <1>1, ItemsInit, ItemsInductive, PatientInit, PatientStep, PTL DEF Spec

\* What makes the watchdog prompt: when nothing was counted as sent between two
\* calls, or during the second, both have seen the whole total; only a call after
\* one that found the link down, or that missed a send while it added up, does not.
PromptInv ==
  /\ lastQueued <= QueuedTotal
  /\ fresh => lastQueued < QueuedTotal
  /\ stalled <= stuck + 1
  /\ stalled > 0 /\ ~sentAfter => lastSent = SentTotal
  /\ logPc = "Summing" /\ ~sentAfter => sentTotal = status.sent
  /\ logPc = "Deciding" /\ ~sentAfter => sentTotal = SentTotal
  /\ logPc = "Restarting" => stalled = 0
  /\ WatchdogPrompt

LEMMA PromptInit ==
  ASSUME Init
  PROVE  PromptInv
  BY UplinkAssumption DEF Init, PromptInv, SentTotal, QueuedTotal, NoneYet, WatchdogPrompt

\* Unsigned subtraction from a stamp is subtraction of times.
LEMMA ElapsedMod ==
  ASSUME NEW t \in Nat, NEW s \in Nat
  PROVE  Ms(t - Ms(s)) = Ms(t - s)
  <1> DEFINE q == s \div ClockMod
             r == s % ClockMod
             x == t - r
             y == t - s
             k == x \div ClockMod
             e == x % ClockMod
             l == y \div ClockMod
             f == y % ClockMod
  <1>0. ClockMod \in Nat \ {0}
    BY UplinkAssumption
  <1>1. q \in Int /\ r \in 0 .. ClockMod - 1 /\ s = ClockMod * q + r
    BY <1>0
  <1>2. x \in Int /\ y \in Int
    BY <1>1
  <1>3. /\ k \in Int /\ e \in 0 .. ClockMod - 1 /\ x = ClockMod * k + e
        /\ l \in Int /\ f \in 0 .. ClockMod - 1 /\ y = ClockMod * l + f
    BY <1>0, <1>2
  <1>4. Ms(t - Ms(s)) = e /\ Ms(t - s) = f
    BY DEF Ms
  <1>5. x = y + ClockMod * q
    BY <1>0, <1>1
  <1> HIDE DEF q, r, x, y, k, e, l, f
  <1>6. /\ ClockMod * q \in Int /\ ClockMod * k \in Int /\ ClockMod * l \in Int
        /\ l + q \in Int /\ ClockMod * (l + q) = ClockMod * l + ClockMod * q
    BY <1>0, <1>1, <1>3
  <1>7. CASE k < l + q
    <2>1. ClockMod * k + ClockMod <= ClockMod * (l + q)
      BY <1>0, <1>3, <1>6, <1>7, Multiples
    <2> QED BY <1>0, <1>2, <1>3, <1>5, <1>6, <2>1
  <1>8. CASE l + q < k
    <2>1. ClockMod * (l + q) + ClockMod <= ClockMod * k
      BY <1>0, <1>3, <1>6, <1>8, Multiples
    <2> QED BY <1>0, <1>2, <1>3, <1>5, <1>6, <2>1
  <1>9. CASE k = l + q
    BY <1>2, <1>3, <1>4, <1>5, <1>6, <1>9
  <1>10. k < l + q \/ l + q < k \/ k = l + q
    BY <1>1, <1>3, <1>6
  <1> QED BY <1>7, <1>8, <1>9, <1>10

LEMMA PromptDecide ==
  ASSUME TypeOK, RestartStamped, PromptInv, Decide
  PROVE  PromptInv'
  <1> USE WatchdogTypes
  <1>1. /\ status' = status /\ video' = video /\ lastSent' = sentTotal /\ logPc = "Deciding"
        /\ lastQueued' = QueuedTotal /\ fresh' = FALSE /\ sentAfter' = FALSE /\ now' = now
    BY DEF Decide, statusSide, videoSide
  <1>2. QueuedTotal' = QueuedTotal /\ SentTotal' = SentTotal
    BY <1>1 DEF QueuedTotal, SentTotal
  <1>3. lastQueued' <= QueuedTotal' /\ (fresh' => lastQueued' < QueuedTotal')
    BY <1>1, <1>2
  <1>4. CASE Due /\ RestartAllowed
    <2>1. logPc' = "Restarting" /\ stuck' = 0 /\ stalled' = 0
      BY <1>4 DEF Decide
    <2> QED BY <1>3, <2>1 DEF PromptInv, WatchdogPrompt
  <1>5. CASE ~(Due /\ RestartAllowed)
    <2>1. /\ stuck' = StuckNow /\ logPc' = "Idle" /\ UNCHANGED restarts
          /\ stalled' = IF fresh /\ ~sentAfter THEN stalled + 1 ELSE 0
      BY <1>5 DEF Decide
    <2>2. StuckNow \in Nat /\ stalled' \in Nat
      BY <2>1 DEF StuckNow
    <2>3. ASSUME stalled' > 0
          PROVE  sentTotal = SentTotal /\ stalled' <= StuckNow + 1
      <3>1. fresh /\ ~sentAfter /\ stalled' = stalled + 1
        BY <2>1, <2>3
      <3>2. sentTotal = SentTotal /\ lastQueued < QueuedTotal /\ stalled <= stuck + 1
        BY <1>1, <3>1 DEF PromptInv
      <3>3. CASE stalled = 0
        BY <2>2, <3>1, <3>2, <3>3
      <3>4. CASE stalled > 0
        <4>1. lastSent = SentTotal
          BY <3>1, <3>4 DEF PromptInv
        <4>2. StuckNow = stuck + 1
          BY <3>2, <4>1 DEF StuckNow
        <4> QED BY <3>1, <3>2, <4>2
      <3> QED BY <3>3, <3>4
    <2>4. stalled' <= stuck' + 1 /\ (stalled' > 0 /\ ~sentAfter' => lastSent' = SentTotal')
      BY <1>1, <1>2, <2>1, <2>2, <2>3
    <2>5. ASSUME stalled' > StuckIntervals PROVE RestartRecent'
      <3>1. StuckNow >= StuckIntervals
        BY <2>2, <2>3, <2>5
      <3>2. lastRestart # 0 /\ ~(Ms(now - lastRestart) >= MinInterval)
        BY <1>5, <3>1 DEF Due, RestartAllowed
      <3>3. restartedAt \in Nat /\ restartedAt # Never /\ lastRestart = Ms(restartedAt)
        BY <3>2 DEF RestartStamped, Never
      <3>4. Ms(now - lastRestart) = Ms(now - restartedAt)
        BY <3>3, ElapsedMod
      <3>5. Ms(now - lastRestart) \in Int /\ MinInterval \in Int
        BY <3>3, UplinkAssumption, ElapsedMod DEF Ms, TypeOK
      <3>6. Ms(now - restartedAt) < MinInterval
        BY <3>2, <3>4, <3>5
      <3> QED BY <1>1, <2>1, <3>3, <3>6 DEF RestartRecent, restarts
    <2>6. WatchdogPrompt'
      BY <2>2, <2>5 DEF WatchdogPrompt
    <2> QED BY <1>3, <2>1, <2>4, <2>6 DEF PromptInv
  <1> QED BY <1>4, <1>5

LEMMA PromptStep ==
  ASSUME TypeOK, RestartStamped, PromptInv, [Next]_vars
  PROVE  PromptInv'
  <1> USE WatchdogTypes
  <1>1. CASE BeginLog
    <2>1. /\ status' = status /\ video' = video /\ lastSent' = lastSent /\ lastQueued' = lastQueued
          /\ logPc = "Idle"
      BY <1>1 DEF BeginLog, statusSide, videoSide
    <2>2. QueuedTotal' = QueuedTotal /\ SentTotal' = SentTotal
      BY <2>1 DEF QueuedTotal, SentTotal
    <2>3. CASE linkUp
      <3>1. /\ sentTotal' = status.sent /\ logPc' = "Summing" /\ stuck' = stuck
            /\ stalled' = stalled /\ fresh' = fresh /\ sentAfter' = sentAfter
        BY <1>1, <2>3 DEF BeginLog
      <3> QED BY <2>1, <2>2, <3>1 DEF PromptInv, WatchdogPrompt
    <2>4. CASE ~linkUp
      <3>1. stalled' = 0 /\ stuck' = 0 /\ fresh' = FALSE /\ logPc' = "Idle"
        BY <1>1, <2>1, <2>4 DEF BeginLog
      <3> QED BY <2>1, <2>2, <3>1 DEF PromptInv, WatchdogPrompt
    <2> QED BY <2>3, <2>4
  <1>2. CASE SumSent
    <2>1. /\ status' = status /\ video' = video /\ lastSent' = lastSent /\ lastQueued' = lastQueued
          /\ logPc = "Summing" /\ logPc' = "Deciding" /\ stuck' = stuck /\ stalled' = stalled
          /\ fresh' = fresh /\ sentAfter' = sentAfter /\ sentTotal' = sentTotal + video.sent
      BY <1>2 DEF SumSent, statusSide, videoSide, sent
    <2>2. QueuedTotal' = QueuedTotal /\ SentTotal' = SentTotal
      BY <2>1 DEF QueuedTotal, SentTotal
    <2>3. ~sentAfter => sentTotal' = SentTotal
      BY <2>1 DEF PromptInv, SentTotal
    <2> QED BY <2>1, <2>2, <2>3 DEF PromptInv, WatchdogPrompt
  <1>3. CASE Decide
    BY <1>3, PromptDecide
  <1>4. CASE Restart
    <2>1. /\ status' = status /\ video' = video /\ lastSent' = lastSent /\ lastQueued' = lastQueued
          /\ logPc' = "Idle" /\ stalled' = stalled /\ stuck' = stuck /\ fresh' = fresh
          /\ sentAfter' = sentAfter /\ logPc = "Restarting"
      BY <1>4 DEF Restart, statusSide, videoSide, sent
    <2>2. QueuedTotal' = QueuedTotal /\ SentTotal' = SentTotal
      BY <2>1 DEF QueuedTotal, SentTotal
    <2> QED BY <2>1, <2>2 DEF PromptInv, WatchdogPrompt
  <1>5. CASE WorkStep
    <2>1. UNCHANGED <<logPc, sentTotal, stuck, lastSent, lastQueued, restartedAt, now, stalled>>
      BY <1>5 DEF WorkStep, restarts
    <2>2. lastQueued' <= QueuedTotal' /\ (fresh' => lastQueued' < QueuedTotal')
      BY <1>5, <2>1 DEF WorkStep, PromptInv
    <2>3. WatchdogPrompt' /\ stalled' <= stuck' + 1 /\ (logPc' = "Restarting" => stalled' = 0)
      BY <2>1 DEF PromptInv, WatchdogPrompt, RestartRecent
    <2>4. CASE status'.sent = status.sent /\ video'.sent = video.sent /\ UNCHANGED sent
      <3>1. sentAfter' = sentAfter /\ SentTotal' = SentTotal
        BY <2>4 DEF sent, SentTotal
      <3> QED BY <2>1, <2>2, <2>3, <2>4, <3>1 DEF PromptInv
    <2>5. CASE SendCounted
      <3>1. sentAfter' = TRUE
        BY <2>5 DEF SendCounted
      <3> QED BY <2>2, <2>3, <3>1 DEF PromptInv
    <2> QED BY <1>5, <2>4, <2>5 DEF WorkStep
  <1> QED BY <1>1, <1>2, <1>3, <1>4, <1>5, OnlyWork

\* With new work before each call and nothing counted as sent since the one before,
\* logStats() restarts the driver after kEthStuckIntervals + 1 calls at the latest,
\* unless it has restarted it a short while ago.
THEOREM PromptCorrect == Spec => []WatchdogPrompt
  <1>1. PromptInv => WatchdogPrompt
    BY DEF PromptInv
  <1> QED
    BY <1>1, ItemsInit, ItemsInductive, StampedInit, StampedNext, PromptInit, PromptStep, PTL
       DEF Spec
=============================================================================
