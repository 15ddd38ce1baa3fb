----------------------------- MODULE LoopTimers ----------------------------
(***************************************************************************)
(* The timers of chain_node::loop() on one relay: nowMs() is a uint32_t    *)
(* count of milliseconds that wraps to 0 every 49.7 days.  The HELLO and   *)
(* origination timers compare an elapsed time, now - last; the ACK timer   *)
(* compares a point in time, now >= deadline.                              *)
(*                                                                         *)
(* A step is one pass of the main task's loop, at most MaxGap ticks after  *)
(* the pass before: what espnow::poll() did to the state, then the timers. *)
(* helloAt, localAt, sentAt and readyAt are history, in time that does not *)
(* wrap.                                                                   *)
(***************************************************************************)
EXTENDS Integers

CONSTANTS
  ClockMod,       \* 2^32
  HelloInterval,  \* kHelloIntervalMs, while discovering
  HelloIdleInterval,
  LocalInterval,  \* kStatusLocalIntervalMs
  AckTimeout,     \* kAckTimeoutMs
  MaxGap,         \* bound: ticks from one pass to the next
  Horizon         \* bound: ticks modelled

ASSUME TimerAssumption ==
  /\ HelloInterval \in Nat \ {0}
  /\ HelloIdleInterval \in Nat
  /\ HelloInterval <= HelloIdleInterval
  /\ LocalInterval \in Nat \ {0}
  /\ AckTimeout \in Nat \ {0}
  /\ MaxGap \in Nat \ {0}
  /\ Horizon \in Nat
  /\ ClockMod \in Nat
  /\ HelloIdleInterval + MaxGap < ClockMod
  /\ LocalInterval + MaxGap < ClockMod

VARIABLES
  now,          \* time since the board started
  state,        \* g_state
  lastHello,    \* g_lastHelloMs
  lastLocal,    \* g_lastLocalMs
  ackDeadline,  \* g_ackDeadlineMs
  helloAt,      \* the last HELLO
  localAt,      \* the last reading
  sentAt,       \* the last transmission to next
  readyAt       \* the pass that ended discovery, or the last one

vars == <<now, state, lastHello, lastLocal, ackDeadline,
          helloAt, localAt, sentAt, readyAt>>

States == {"Discovering", "Idle", "Forwarding"}
Stamp == 0 .. ClockMod - 1

TypeOK ==
  /\ now \in Nat
  /\ state \in States
  /\ lastHello \in Stamp
  /\ lastLocal \in Stamp
  /\ ackDeadline \in Stamp
  /\ helloAt \in Nat
  /\ localAt \in Nat
  /\ sentAt \in Nat
  /\ readyAt \in Nat

\* F...Mutant is F with a plausible bug; the specification does not use it.
MsMutant(t) == t  \* a 64-bit count put into 32 bits

\* nowMs() and uint32_t subtraction
Ms(t) == t % ClockMod
Elapsed(t, last) == (Ms(t) - last) % ClockMod

\* init() broadcasts the first HELLO as the board starts.
Init ==
  /\ now = 0
  /\ state = "Discovering"
  /\ lastHello = 0 /\ lastLocal = 0 /\ ackDeadline = 0
  /\ helloAt = 0 /\ localAt = 0 /\ sentAt = 0 /\ readyAt = 0

\* What the packets handled by poll() may do to the state.
Polled(s) == CASE s = "Discovering" -> {"Discovering", "Idle"}
               [] s = "Forwarding"  -> {"Forwarding", "Idle"}
               [] OTHER             -> {s}

HelloGap(s) == IF s = "Discovering" THEN HelloInterval ELSE HelloIdleInterval

\* The comparison the ACK timer makes.
HelloTimerMutant(s, t) ==
  IF Ms(t) >= Ms(lastHello + HelloGap(s))
  THEN lastHello' = Ms(t) /\ helloAt' = t
  ELSE UNCHANGED <<lastHello, helloAt>>

HelloTimer(s, t) ==
  IF Elapsed(t, lastHello) >= HelloGap(s)
  THEN lastHello' = Ms(t) /\ helloAt' = t
  ELSE UNCHANGED <<lastHello, helloAt>>

LocalDueMutant(s, t) ==
  s # "Discovering" /\ Ms(t) >= Ms(lastLocal + LocalInterval)

LocalDue(s, t) == s # "Discovering" /\ Elapsed(t, lastLocal) >= LocalInterval

LocalTimer(s, t) ==
  IF LocalDue(s, t)
  THEN lastLocal' = Ms(t) /\ localAt' = t
  ELSE UNCHANGED <<lastLocal, localAt>>

AckDueMutant(t) == Ms(t) > ackDeadline

AckDue(t) == Ms(t) >= ackDeadline

\* beginForwarding(), or a retransmission
Send(t) ==
  /\ ackDeadline' = Ms(t + AckTimeout)
  /\ sentAt' = t

\* A packet is taken from the queue if there is one: the reading just
\* originated, or one that was there already.
AckTimer(s, t) ==
  \/ /\ s = "Forwarding" /\ AckDue(t)
     /\ Send(t)
     /\ state' = s
  \/ /\ s = "Forwarding" /\ ~AckDue(t)
     /\ state' = s
     /\ UNCHANGED <<ackDeadline, sentAt>>
  \/ /\ s = "Idle"
     /\ Send(t)
     /\ state' = "Forwarding"
  \/ /\ s = "Discovering" \/ (s = "Idle" /\ ~LocalDue(s, t))
     /\ state' = s
     /\ UNCHANGED <<ackDeadline, sentAt>>

\* poll() leaves the state at s; the pass is at time t.
Pass(s, t) ==
  /\ now' = t
  /\ HelloTimer(s, t)
  /\ LocalTimer(s, t)
  /\ AckTimer(s, t)
  /\ readyAt' = IF state = "Discovering" THEN t ELSE readyAt

Next ==
  \E gap \in 1 .. MaxGap : \E s \in Polled(state) :
    /\ now + gap <= Horizon
    /\ Pass(s, now + gap)

Spec == Init /\ [][Next]_vars

-----------------------------------------------------------------------------
\* However often the clock wraps, a board that is up is heard: after every
\* pass less than a HELLO interval has gone by since the last broadcast (the
\* slow one, once neighbours are known).
HelloOnTime ==
  now - helloAt < HelloGap(state)

\* ... and lanes are read: a node that has left discovery never lets
\* LocalInterval go by without a reading.
LocalOnTime ==
  now - localAt < LocalInterval \/ now - readyAt < LocalInterval

\* Neither timer fires early, wrap or no wrap: a wrapped difference never
\* looks longer than it is.
NeverEarly ==
  [][/\ helloAt' # helloAt => helloAt' - helloAt >= HelloInterval
     /\ localAt' # localAt => localAt' - localAt >= LocalInterval]_vars

Turns(t) == t \div ClockMod

\* Through every turn of the clock the ACK timer retransmits at the first pass
\* kAckTimeoutMs after a transmission and not before: it is late only for a
\* wrap between its deadline and the pass, early only for one between the
\* transmission and its deadline.
AckTimerWithinTurn ==
  [][/\ (state' = "Forwarding" /\ Turns(now') <= Turns(sentAt + AckTimeout))
          => now' - sentAt' < AckTimeout
     /\ (/\ state = "Forwarding" /\ Pass("Forwarding", now') /\ sentAt' # sentAt
         /\ Turns(now') >= Turns(sentAt + AckTimeout))
          => sentAt' - sentAt >= AckTimeout]_vars

\* config.h: "wait for downstream ACK before retransmit" for kAckTimeoutMs,
\* and loop(): "Keep retrying at the same cadence".  Not so when the clock
\* wraps between a deadline and the pass that would have seen it: the
\* deadline is then 49.7 days away.
RetransmitOnTime ==
  state = "Forwarding" => now - sentAt < AckTimeout
=============================================================================
