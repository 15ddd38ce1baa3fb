---------------------------- MODULE TimerProofs ----------------------------
(***************************************************************************)
(* Theorems about the timers of loop(), for any clock, intervals and gaps   *)
(* between passes.  They need the connection between a stamp, which wraps,  *)
(* and the instant it stands for, and what an unsigned difference of stamps *)
(* is worth (the first part).                                               *)
(***************************************************************************)
EXTENDS LoopTimers, TLAPS

-----------------------------------------------------------------------------
(* Arithmetic of the clock                                                 *)

LEMMA ClockPositive == ClockMod \in Nat /\ ClockMod > 0
  BY TimerAssumption

\* A multiple of a positive number exceeds a smaller one by the number.
LEMMA Multiples ==
  ASSUME NEW m \in Nat, m > 0, NEW a \in Int, NEW b \in Int, a < b
  PROVE  m * a + m <= m * b
  <1>1. PICK d \in Nat : b = a + 1 + d
    <2>1. b - a - 1 \in Nat /\ b = a + 1 + (b - a - 1)
      OBVIOUS
    <2> QED BY <2>1
  <1>2. m * b = m * a + m + m * d
    BY <1>1
  <1>3. m * d >= 0 /\ m * d \in Int /\ m * a \in Int
    OBVIOUS
  <1> QED BY <1>2, <1>3

\* A number is its remainder and a multiple of the modulus ...
LEMMA Division ==
  ASSUME NEW x \in Int
  PROVE  x % ClockMod \in Stamp /\ Turns(x) \in Int /\ x = ClockMod * Turns(x) + (x % ClockMod)
  <1> DEFINE q == x \div ClockMod
             r == x % ClockMod
  <1>1. q \in Int /\ r \in 0 .. ClockMod - 1 /\ x = ClockMod * q + r
    BY ClockPositive
  <1> QED BY <1>1 DEF Stamp, Turns

\* ... and there is only one such number.
LEMMA Remainder ==
  ASSUME NEW x \in Int, NEW q \in Int, NEW r \in Stamp, x = ClockMod * q + r
  PROVE  x % ClockMod = r
  <1> DEFINE e == x % ClockMod
             k == Turns(x)
  <1>1. k \in Int /\ x = ClockMod * k + e
    BY ClockPositive, Division
  <1>2. e \in 0 .. ClockMod - 1 /\ r \in 0 .. ClockMod - 1
    BY Division DEF Stamp
  <1> HIDE DEF e, k
  <1>3. ClockMod * k \in Int /\ ClockMod * q \in Int
    BY <1>1, ClockPositive
  <1>4. ~(k < q)
    <2> SUFFICES ASSUME k < q PROVE FALSE
      OBVIOUS
    <2>1. ClockMod * k + ClockMod <= ClockMod * q
      BY <1>1, ClockPositive, Multiples
    <2> QED BY <1>1, <1>2, <1>3, <2>1, ClockPositive
  <1>5. ~(q < k)
    <2> SUFFICES ASSUME q < k PROVE FALSE
      OBVIOUS
    <2>1. ClockMod * q + ClockMod <= ClockMod * k
      BY <1>1, ClockPositive, Multiples
    <2> QED BY <1>1, <1>2, <1>3, <2>1, ClockPositive
  <1>6. k = q
    BY <1>1, <1>4, <1>5
  <1>7. e = r
    BY <1>1, <1>2, <1>3, <1>6
  <1> QED BY <1>7 DEF e

LEMMA StampType == ASSUME NEW t \in Nat PROVE Ms(t) \in Stamp
  BY Division DEF Ms

LEMMA ElapsedType == ASSUME NEW t \in Nat, NEW l \in Stamp PROVE Elapsed(t, l) \in Stamp
  <1>1. Ms(t) - l \in Int
    BY StampType, ClockPositive DEF Stamp
  <1> QED BY <1>1, Division DEF Elapsed

\* What is equal up to whole turns of the clock is equal to the code.
LEMMA ElapsedFrom ==
  ASSUME NEW t \in Nat, NEW l \in Stamp, NEW k \in Int, NEW d \in Stamp,
         t - l = ClockMod * k + d
  PROVE  Elapsed(t, l) = d
  <1> DEFINE j == Turns(t)
  <1>1. j \in Int /\ t = ClockMod * j + Ms(t)
    BY ClockPositive, Division DEF Ms
  <1> HIDE DEF j
  <1>2. Ms(t) \in Int /\ l \in Int /\ d \in Int
    BY StampType, ClockPositive DEF Stamp
  <1>3. ClockMod * (k - j) = ClockMod * k - ClockMod * j
        /\ ClockMod * k \in Int /\ ClockMod * j \in Int
    BY <1>1, ClockPositive
  <1>4. Ms(t) - l = ClockMod * (k - j) + d
    BY <1>1, <1>2, <1>3
  <1>5. (Ms(t) - l) % ClockMod = d
    BY <1>1, <1>2, <1>4, Remainder
  <1> QED BY <1>5 DEF Elapsed

\* Less than a turn of the clock is measured as it is.
LEMMA ElapsedExact ==
  ASSUME NEW t \in Nat, NEW a \in Nat, a <= t, t - a < ClockMod
  PROVE  Elapsed(t, Ms(a)) = t - a
  <1> DEFINE j == Turns(a)
  <1>1. j \in Int /\ a = ClockMod * j + Ms(a)
    BY ClockPositive, Division DEF Ms
  <1> HIDE DEF j
  <1>2. Ms(a) \in Stamp /\ Ms(a) \in Int /\ t - a \in Stamp
    BY StampType, ClockPositive DEF Stamp
  <1>3. ClockMod * j \in Int
    BY <1>1, ClockPositive
  <1>4. t - Ms(a) = ClockMod * j + (t - a)
    BY <1>1, <1>2, <1>3
  <1> QED BY <1>1, <1>2, <1>4, ElapsedFrom

\* More than a turn never looks longer than it is.
LEMMA ElapsedAtMost ==
  ASSUME NEW t \in Nat, NEW a \in Nat, a <= t
  PROVE  Elapsed(t, Ms(a)) <= t - a
  <1> DEFINE r == (t - a) % ClockMod
             j == Turns(a)
             k == Turns(t - a)
  <1>1. j \in Int /\ a = ClockMod * j + Ms(a)
    BY ClockPositive, Division DEF Ms
  <1>2. k \in Int /\ t - a = ClockMod * k + r
    BY ClockPositive, Division
  <1>3. r \in Stamp /\ r \in 0 .. ClockMod - 1
    BY Division DEF Stamp
  <1> HIDE DEF r, j, k
  <1>4. Ms(a) \in Stamp /\ Ms(a) \in Int
    BY StampType, ClockPositive DEF Stamp
  <1>5. ClockMod * (k + j) = ClockMod * k + ClockMod * j
        /\ ClockMod * k \in Int /\ ClockMod * j \in Int
    BY <1>1, <1>2, ClockPositive
  <1>6. t - Ms(a) = ClockMod * (k + j) + r
    BY <1>1, <1>2, <1>3, <1>4, <1>5
  <1>7. Elapsed(t, Ms(a)) = r
    BY <1>1, <1>2, <1>3, <1>4, <1>6, ElapsedFrom
  <1>8. r <= t - a
    <2>1. CASE k < 0
      <3>1. ClockMod * k + ClockMod <= ClockMod * 0
        BY <1>2, <2>1, ClockPositive, Multiples
      <3> QED BY <1>2, <1>3, <1>5, <3>1, ClockPositive
    <2>2. CASE k >= 0
      <3>1. ClockMod * k >= 0
        BY <1>2, <2>2, ClockPositive
      <3> QED BY <1>2, <1>3, <1>5, <3>1
    <2> QED BY <1>2, <2>1, <2>2
  <1> QED BY <1>7, <1>8

\* From one pass to the next the difference grows by the time between them,
\* until it wraps.
LEMMA ElapsedGrows ==
  ASSUME NEW t \in Nat, NEW l \in Stamp, NEW g \in Nat, Elapsed(t, l) + g < ClockMod
  PROVE  Elapsed(t + g, l) = Elapsed(t, l) + g
  <1> DEFINE e == Elapsed(t, l)
             j == Turns(t)
             k == Turns(Ms(t) - l)
  <1>1. j \in Int /\ t = ClockMod * j + Ms(t)
    BY ClockPositive, Division DEF Ms
  <1>2. Ms(t) \in Int /\ l \in Int
    BY StampType, ClockPositive DEF Stamp
  <1>3. k \in Int /\ Ms(t) - l = ClockMod * k + e
    BY <1>2, ClockPositive, Division DEF Elapsed
  <1>4. e \in Int /\ e >= 0 /\ e + g < ClockMod
    BY ElapsedType, ClockPositive DEF Stamp
  <1> HIDE DEF e, j, k
  <1>5. ClockMod * (j + k) = ClockMod * j + ClockMod * k
        /\ ClockMod * k \in Int /\ ClockMod * j \in Int
    BY <1>1, <1>3, ClockPositive
  <1>6. (t + g) - l = ClockMod * (j + k) + (e + g)
    BY <1>1, <1>2, <1>3, <1>4, <1>5
  <1>7. e + g \in Stamp /\ t + g \in Nat
    BY <1>4, ClockPositive DEF Stamp
  <1>8. Elapsed(t + g, l) = e + g
    BY <1>1, <1>3, <1>6, <1>7, ElapsedFrom
  <1> QED BY <1>8 DEF e

\* Within the first turn of the clock a stamp is the time.
LEMMA MsSmall == ASSUME NEW t \in Nat, t < ClockMod PROVE Ms(t) = t
  <1>1. t \in Stamp /\ t = ClockMod * 0 + t
    BY ClockPositive DEF Stamp
  <1> QED BY <1>1, Remainder DEF Ms

\* Within a turn of the clock stamps compare as the instants do; across turns
\* only one answer can be wrong.
LEMMA StampOrder ==
  ASSUME NEW t \in Nat, NEW d \in Nat
  PROVE  /\ Turns(t) <= Turns(d) /\ Ms(t) < Ms(d) => t < d
         /\ Turns(t) >= Turns(d) /\ Ms(t) >= Ms(d) => t >= d
  <1> DEFINE j == Turns(t)
             k == Turns(d)
             a == Ms(t)
             b == Ms(d)
  <1>1. j \in Int /\ k \in Int /\ t = ClockMod * j + a /\ d = ClockMod * k + b
    BY Division DEF Ms
  <1>2. a \in Int /\ 0 <= a /\ a < ClockMod /\ b \in Int /\ 0 <= b /\ b < ClockMod
    BY StampType, ClockPositive DEF Stamp
  <1> HIDE DEF j, k, a, b
  <1>3. ClockMod * j \in Int /\ ClockMod * k \in Int
    BY <1>1, ClockPositive
  <1>4. j < k => ClockMod * j + ClockMod <= ClockMod * k
    BY <1>1, ClockPositive, Multiples
  <1>5. k < j => ClockMod * k + ClockMod <= ClockMod * j
    BY <1>1, ClockPositive, Multiples
  <1>6. j <= k /\ a < b => t < d
    BY <1>1, <1>2, <1>3, <1>4, ClockPositive
  <1>7. j >= k /\ a >= b => t >= d
    BY <1>1, <1>2, <1>3, <1>5, ClockPositive
  <1> QED BY <1>6, <1>7 DEF j, k, a, b

-----------------------------------------------------------------------------
(* A pass of the loop                                                      *)

\* Stamps are those of instants that are over.
StampsInv ==
  /\ helloAt <= now /\ lastHello = Ms(helloAt)
  /\ localAt <= now /\ lastLocal = Ms(localAt)
  /\ readyAt <= now /\ sentAt <= now

\* A board that has been discovering for more than a turn of the clock may take
\* its last reading for a recent one, but then counts on from there: what the
\* code measures is never behind the time since discovery ended.
LocalInv ==
  IF state = "Discovering"
  THEN readyAt = now
  ELSE \/ now - localAt < LocalInterval
       \/ /\ now - readyAt <= Elapsed(now, lastLocal)
          /\ Elapsed(now, lastLocal) < LocalInterval

DeadlineInv ==
  state = "Forwarding" => ackDeadline = Ms(sentAt + AckTimeout)

TimerInv == TypeOK /\ StampsInv /\ HelloOnTime /\ LocalInv /\ DeadlineInv

LEMMA ZeroStamp == 0 \in Stamp /\ Ms(0) = 0
  BY ClockPositive, MsSmall DEF Stamp

LEMMA HelloGapFacts ==
  ASSUME NEW s
  PROVE  /\ HelloGap(s) \in Nat /\ HelloGap(s) > 0
         /\ HelloInterval <= HelloGap(s) /\ HelloGap(s) <= HelloIdleInterval
  BY TimerAssumption DEF HelloGap

LEMMA TimerInit == Init => TimerInv
  <1> SUFFICES ASSUME Init PROVE TimerInv
    OBVIOUS
  <1>1. TypeOK
    BY ZeroStamp DEF Init, TypeOK, States
  <1>2. StampsInv
    BY ZeroStamp DEF Init, StampsInv
  <1>3. HelloOnTime
    BY HelloGapFacts DEF Init, HelloOnTime
  <1>4. LocalInv /\ DeadlineInv
    BY DEF Init, LocalInv, DeadlineInv
  <1> QED BY <1>1, <1>2, <1>3, <1>4 DEF TimerInv

\* The states a pass may begin and end in.
LEMMA PassStates ==
  ASSUME TypeOK, NEW s \in Polled(state), NEW t \in Nat, Pass(s, t)
  PROVE  /\ s \in States
         /\ s = "Discovering" => state = "Discovering"
         /\ s = "Forwarding" => state = "Forwarding"
         /\ state' = s \/ (s = "Idle" /\ state' = "Forwarding")
  <1>1. /\ s \in States
        /\ s = "Discovering" => state = "Discovering"
        /\ s = "Forwarding" => state = "Forwarding"
    BY DEF TypeOK, States, Polled
  <1>2. state' = s \/ (s = "Idle" /\ state' = "Forwarding")
    BY DEF Pass, AckTimer
  <1> QED BY <1>1, <1>2

LEMMA PassType ==
  ASSUME TypeOK, NEW s \in Polled(state), NEW t \in Nat, Pass(s, t)
  PROVE  TypeOK'
  <1>1. now' \in Nat /\ state' \in States /\ readyAt' \in Nat
    BY PassStates DEF Pass, TypeOK, States
  <1>2. lastHello' \in Stamp /\ helloAt' \in Nat
    BY StampType DEF Pass, TypeOK, HelloTimer
  <1>3. lastLocal' \in Stamp /\ localAt' \in Nat
    BY StampType DEF Pass, TypeOK, LocalTimer
  <1>4. Ms(t + AckTimeout) \in Stamp
    BY StampType, TimerAssumption
  <1>5. ackDeadline' \in Stamp /\ sentAt' \in Nat
    BY <1>4 DEF Pass, TypeOK, AckTimer, Send
  <1> QED BY <1>1, <1>2, <1>3, <1>5 DEF TypeOK

LEMMA PassStamps ==
  ASSUME TypeOK, StampsInv, NEW s, NEW t \in Nat, now <= t, Pass(s, t)
  PROVE  StampsInv'
  <1>1. now' = t /\ readyAt' <= t
    BY DEF Pass, StampsInv, TypeOK
  <1>2. helloAt' <= t /\ lastHello' = Ms(helloAt')
    <2>1. CASE lastHello' = Ms(t) /\ helloAt' = t
      BY <2>1
    <2>2. CASE UNCHANGED <<lastHello, helloAt>>
      BY <2>2 DEF StampsInv, TypeOK
    <2> QED BY <2>1, <2>2 DEF Pass, HelloTimer
  <1>3. localAt' <= t /\ lastLocal' = Ms(localAt')
    <2>1. CASE lastLocal' = Ms(t) /\ localAt' = t
      BY <2>1
    <2>2. CASE UNCHANGED <<lastLocal, localAt>>
      BY <2>2 DEF StampsInv, TypeOK
    <2> QED BY <2>1, <2>2 DEF Pass, LocalTimer
  <1>4. sentAt' <= t
    BY DEF Pass, AckTimer, Send, StampsInv, TypeOK
  <1>5. Ms(helloAt)' = Ms(helloAt') /\ Ms(localAt)' = Ms(localAt')
    BY DEF Ms
  <1> QED BY <1>1, <1>2, <1>3, <1>4, <1>5 DEF StampsInv

\* The HELLO timer measures the time since the last HELLO exactly: it has
\* never been long enough ago for the difference to wrap.
LEMMA PassHello ==
  ASSUME TypeOK, StampsInv, HelloOnTime,
         NEW s \in Polled(state), NEW gap \in 1 .. MaxGap, Pass(s, now + gap)
  PROVE  HelloOnTime'
  <1> DEFINE t == now + gap
  <1>1. gap \in Nat /\ gap <= MaxGap /\ now \in Nat /\ helloAt \in Nat /\ MaxGap \in Nat
    BY TimerAssumption DEF TypeOK
  <1>2. t \in Nat /\ helloAt <= t /\ t - helloAt < ClockMod
    BY <1>1, HelloGapFacts, TimerAssumption DEF StampsInv, HelloOnTime
  <1>3. Elapsed(t, lastHello) = t - helloAt
    BY <1>1, <1>2, ElapsedExact DEF StampsInv
  <1>4. HelloGap(state)' = HelloGap(s)
    BY <1>2, PassStates DEF HelloGap
  <1>5. now' = t /\ HelloTimer(s, t)
    BY DEF Pass
  <1> HIDE DEF t
  <1>6. CASE helloAt' = t
    BY <1>2, <1>4, <1>5, <1>6, HelloGapFacts DEF HelloOnTime
  <1>7. CASE helloAt' = helloAt /\ ~(Elapsed(t, lastHello) >= HelloGap(s))
    BY <1>1, <1>2, <1>3, <1>4, <1>5, <1>7, HelloGapFacts DEF HelloOnTime
  <1> QED BY <1>5, <1>6, <1>7 DEF HelloTimer

LEMMA PassLocal ==
  ASSUME TypeOK, StampsInv, LocalInv,
         NEW s \in Polled(state), NEW gap \in 1 .. MaxGap, Pass(s, now + gap)
  PROVE  LocalInv'
  <1> DEFINE t == now + gap
  <1>1. gap \in Nat /\ gap <= MaxGap /\ now \in Nat /\ MaxGap \in Nat /\ t \in Nat
    BY TimerAssumption DEF TypeOK
  <1>2. localAt \in Nat /\ readyAt \in Nat /\ lastLocal \in Stamp /\ localAt <= t /\ readyAt <= t
    BY <1>1 DEF TypeOK, StampsInv
  <1>3. LocalInterval \in Nat /\ LocalInterval > 0 /\ LocalInterval + MaxGap < ClockMod
        /\ ClockMod \in Nat
    BY TimerAssumption
  <1>4. now' = t /\ LocalTimer(s, t) /\ readyAt' = IF state = "Discovering" THEN t ELSE readyAt
    BY DEF Pass
  <1>5. Elapsed(now, lastLocal)' = Elapsed(t, lastLocal')
    BY <1>4 DEF Elapsed, Ms
  <1>6. Elapsed(t, lastLocal) \in Nat
    BY <1>1, <1>2, <1>3, ElapsedType DEF Stamp
  <1>7. CASE s = "Discovering"
    <2>1. state = "Discovering" /\ state' = "Discovering"
      BY <1>1, <1>7, PassStates
    <2> QED BY <1>4, <2>1 DEF LocalInv
  <1>8. CASE s # "Discovering" /\ LocalDue(s, t)
    <2>1. localAt' = t /\ state' # "Discovering"
      BY <1>1, <1>4, <1>8, PassStates DEF LocalTimer
    <2> QED BY <1>1, <1>3, <1>4, <2>1 DEF LocalInv
  <1>9. CASE s # "Discovering" /\ ~LocalDue(s, t)
    <2>1. UNCHANGED <<lastLocal, localAt>> /\ state' # "Discovering"
      BY <1>1, <1>4, <1>9, PassStates DEF LocalTimer
    <2>2. Elapsed(t, lastLocal) < LocalInterval
      BY <1>3, <1>6, <1>9 DEF LocalDue
    <2>3. CASE state = "Discovering"
      BY <1>1, <1>4, <1>5, <1>6, <2>1, <2>2, <2>3 DEF LocalInv
    <2>4. CASE state # "Discovering" /\ now - localAt < LocalInterval
      <3>1. Elapsed(t, lastLocal) = t - localAt
        BY <1>1, <1>2, <1>3, <2>4, ElapsedExact DEF StampsInv
      <3> QED BY <1>4, <2>1, <2>2, <3>1 DEF LocalInv
    <2>5. CASE /\ state # "Discovering"
               /\ now - readyAt <= Elapsed(now, lastLocal)
               /\ Elapsed(now, lastLocal) < LocalInterval
      <3>1. Elapsed(now, lastLocal) \in Nat
        BY <1>1, <1>2, <1>3, ElapsedType DEF Stamp
      <3>2. Elapsed(t, lastLocal) = Elapsed(now, lastLocal) + gap
        BY <1>1, <1>2, <1>3, <2>5, <3>1, ElapsedGrows
      <3>3. t - readyAt <= Elapsed(t, lastLocal)
        BY <1>1, <1>2, <2>5, <3>1, <3>2
      <3> QED BY <1>4, <1>5, <2>1, <2>2, <2>5, <3>3 DEF LocalInv
    <2> QED BY <2>3, <2>4, <2>5 DEF LocalInv
  <1> QED BY <1>7, <1>8, <1>9

LEMMA PassDeadline ==
  ASSUME TypeOK, DeadlineInv, NEW s \in Polled(state), NEW t \in Nat, Pass(s, t)
  PROVE  DeadlineInv'
  <1> SUFFICES ASSUME state' = "Forwarding"
               PROVE  ackDeadline' = Ms(sentAt' + AckTimeout)
    BY DEF DeadlineInv, Ms
  <1>1. AckTimer(s, t)
    BY DEF Pass
  <1>2. CASE Send(t)
    BY <1>2 DEF Send
  <1>3. CASE UNCHANGED <<ackDeadline, sentAt>> /\ state' = s
    BY <1>3, PassStates DEF DeadlineInv
  <1> QED BY <1>1, <1>2, <1>3 DEF AckTimer

LEMMA TimerStep == TimerInv /\ [Next]_vars => TimerInv'
  <1> SUFFICES ASSUME TimerInv, [Next]_vars PROVE TimerInv'
    OBVIOUS
  <1>1. ASSUME NEW gap \in 1 .. MaxGap, NEW s \in Polled(state), Pass(s, now + gap)
        PROVE  TimerInv'
    <2>1. TypeOK /\ StampsInv /\ HelloOnTime /\ LocalInv /\ DeadlineInv
      BY DEF TimerInv
    <2>2. now + gap \in Nat /\ now <= now + gap
      BY <2>1 DEF TypeOK
    <2>3. TypeOK' /\ StampsInv'
      BY <1>1, <2>1, <2>2, PassType, PassStamps
    <2>4. HelloOnTime' /\ LocalInv'
      BY <1>1, <2>1, PassHello, PassLocal
    <2>5. DeadlineInv'
      BY <1>1, <2>1, <2>2, PassDeadline
    <2> QED BY <2>3, <2>4, <2>5 DEF TimerInv
  <1>2. CASE UNCHANGED vars
    BY <1>2 DEF TimerInv, TypeOK, StampsInv, HelloOnTime, HelloGap, LocalInv, DeadlineInv,
                Elapsed, Ms, vars
  <1> QED BY <1>1, <1>2 DEF Next

-----------------------------------------------------------------------------
LEMMA TimerInvariant == Spec => []TimerInv
  BY TimerInit, TimerStep, PTL DEF Spec

\* The variables keep their types: no stamp leaves its 32 bits.
THEOREM TypeCorrect == Spec => []TypeOK
  <1>1. TimerInv => TypeOK
    BY DEF TimerInv
  <1> QED BY <1>1, TimerInvariant, PTL

\* However often the clock wraps, a board that is up is heard: loop() lets no
\* HELLO interval go by.
THEOREM HelloOnTimeCorrect == Spec => []HelloOnTime
  <1>1. TimerInv => HelloOnTime
    BY DEF TimerInv
  <1> QED BY <1>1, TimerInvariant, PTL

\* ... and lanes are read, however long discovery has taken.
THEOREM LocalOnTimeCorrect == Spec => []LocalOnTime
  <1>1. TimerInv => LocalOnTime
    <2> SUFFICES ASSUME TimerInv PROVE LocalOnTime
      OBVIOUS
    <2>1. now \in Nat /\ readyAt \in Nat /\ LocalInterval \in Nat /\ LocalInterval > 0
      BY TimerAssumption DEF TimerInv, TypeOK
    <2>2. Elapsed(now, lastLocal) \in Int
      BY <2>1, ElapsedType, ClockPositive DEF TimerInv, TypeOK, Stamp
    <2> QED BY <2>1, <2>2 DEF TimerInv, LocalInv, LocalOnTime
  <1> QED BY <1>1, TimerInvariant, PTL

\* Neither timer fires early.
THEOREM NeverEarlyCorrect == Spec => NeverEarly
  <1>1. TimerInv /\ [Next]_vars =>
          [/\ helloAt' # helloAt => helloAt' - helloAt >= HelloInterval
           /\ localAt' # localAt => localAt' - localAt >= LocalInterval]_vars
    <2> SUFFICES ASSUME TimerInv, NEW gap \in 1 .. MaxGap, NEW s \in Polled(state),
                        Pass(s, now + gap)
                 PROVE  /\ helloAt' # helloAt => helloAt' - helloAt >= HelloInterval
                        /\ localAt' # localAt => localAt' - localAt >= LocalInterval
      BY DEF Next
    <2> DEFINE t == now + gap
    <2>1. t \in Nat /\ helloAt \in Nat /\ localAt \in Nat /\ helloAt <= t /\ localAt <= t
          /\ HelloInterval \in Nat /\ LocalInterval \in Nat
      BY TimerAssumption DEF TimerInv, TypeOK, StampsInv
    <2>2. Elapsed(t, lastHello) <= t - helloAt /\ Elapsed(t, lastLocal) <= t - localAt
      BY <2>1, ElapsedAtMost DEF TimerInv, StampsInv
    <2>3. Elapsed(t, lastHello) \in Int /\ Elapsed(t, lastLocal) \in Int
      BY <2>1, ElapsedType, ClockPositive DEF TimerInv, TypeOK, Stamp
    <2>4. HelloTimer(s, t) /\ LocalTimer(s, t)
      BY DEF Pass
    <2> HIDE DEF t
    <2>5. helloAt' # helloAt => helloAt' - helloAt >= HelloInterval
      BY <2>1, <2>2, <2>3, <2>4, HelloGapFacts DEF HelloTimer
    <2>6. localAt' # localAt => localAt' - localAt >= LocalInterval
      BY <2>1, <2>2, <2>3, <2>4 DEF LocalTimer, LocalDue
    <2> QED BY <2>5, <2>6
  <1> QED BY <1>1, TimerInvariant, PTL DEF Spec, NeverEarly

\* In every turn of the clock the ACK timer is as punctual: late only for a
\* wrap between its deadline and the pass, early only for one between the
\* transmission and its deadline.
THEOREM AckTimerCorrect == Spec => AckTimerWithinTurn
  <1> DEFINE NotLate ==
               (state' = "Forwarding" /\ Turns(now') <= Turns(sentAt + AckTimeout))
                 => now' - sentAt' < AckTimeout
             NotEarly ==
               (/\ state = "Forwarding" /\ Pass("Forwarding", now') /\ sentAt' # sentAt
                /\ Turns(now') >= Turns(sentAt + AckTimeout))
                 => sentAt' - sentAt >= AckTimeout
  <1>1. TimerInv /\ [Next]_vars => [NotLate /\ NotEarly]_vars
    <2> SUFFICES ASSUME TimerInv, NEW gap \in 1 .. MaxGap, NEW s \in Polled(state),
                        Pass(s, now + gap)
                 PROVE  NotLate /\ NotEarly
      BY DEF Next
    <2> DEFINE t == now + gap
               d == sentAt + AckTimeout
    <2>1. /\ TypeOK /\ t \in Nat /\ now' = t /\ AckTimer(s, t)
          /\ sentAt \in Nat /\ AckTimeout \in Nat /\ AckTimeout > 0 /\ d \in Nat
      BY TimerAssumption DEF TimerInv, TypeOK, Pass
    <2>2. Ms(t) \in Int /\ Ms(d) \in Int
      BY <2>1, StampType, ClockPositive DEF Stamp
    <2>3. state = "Forwarding" => ackDeadline = Ms(d)
      BY DEF TimerInv, DeadlineInv
    <2>4. s = "Forwarding" => state = "Forwarding"
      BY <2>1, PassStates
    <2>5. /\ Turns(t) <= Turns(d) /\ Ms(t) < Ms(d) => t < d
          /\ Turns(t) >= Turns(d) /\ Ms(t) >= Ms(d) => t >= d
      BY <2>1, StampOrder
    <2> HIDE DEF t
    <2>6. ASSUME state' = "Forwarding", Turns(now') <= Turns(d)
          PROVE  now' - sentAt' < AckTimeout
      <3>1. CASE Send(t)
        BY <2>1, <3>1 DEF Send
      <3>2. CASE s = "Forwarding" /\ ~AckDue(t) /\ sentAt' = sentAt
        <4>1. Ms(t) < Ms(d)
          BY <2>2, <2>3, <2>4, <3>2 DEF AckDue
        <4>2. t < sentAt + AckTimeout
          BY <2>1, <2>5, <2>6, <4>1
        <4> QED BY <2>1, <3>2, <4>2
      <3> QED BY <2>1, <2>6, <3>1, <3>2 DEF AckTimer
    <2>7. ASSUME state = "Forwarding", Pass("Forwarding", now'), sentAt' # sentAt,
                 Turns(now') >= Turns(d)
          PROVE  sentAt' - sentAt >= AckTimeout
      <3>1. AckTimer("Forwarding", t)
        BY <2>1, <2>7 DEF Pass
      <3>2. AckDue(t) /\ sentAt' = t
        BY <2>7, <3>1 DEF AckTimer, Send
      <3>3. Ms(t) >= Ms(d)
        BY <2>3, <2>7, <3>2 DEF AckDue
      <3>4. t >= sentAt + AckTimeout
        BY <2>1, <2>5, <2>7, <3>3
      <3> QED BY <2>1, <3>2, <3>4
    <2> QED BY <2>6, <2>7
  <1> QED BY <1>1, TimerInvariant, PTL DEF Spec, AckTimerWithinTurn
=============================================================================
