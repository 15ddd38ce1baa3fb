--------------------------- MODULE GatewayUplink ---------------------------
(***************************************************************************)
(* The Ethernet side of the Gateway (main/gateway_uplink.cpp): two queues, *)
(* the two tasks that empty them, the link flag, and the watchdog in       *)
(* logStats() that restarts the Ethernet driver when nothing gets out.     *)
(*                                                                         *)
(* Five tasks touch this state: the main task (flush, logStats), the two   *)
(* that hand video frames in (flushVideo), and the two uplink tasks; the   *)
(* event task sets the link flag.  Readings and frames are only counted,   *)
(* and "sent" is what the code takes for sent: flushOne() has had its       *)
(* connection and written all of the line, send() has taken every datagram *)
(* of a frame, wherever these went from there.                             *)
(* A definition named F...Mutant is F with a plausible bug: the            *)
(* specification does not use it.                                          *)
(***************************************************************************)
EXTENDS Integers, FiniteSets

CONSTANTS
  Producer,        \* the tasks that call flushVideo()
  StatusDepth,     \* kStatusUplinkQueueDepth
  VideoDepth,      \* kVideoUplinkQueueDepth
  StuckIntervals,  \* kEthStuckIntervals
  MinInterval,     \* kEthRestartMinIntervalMs, in ticks
  LogGaps,         \* ticks from one logStats() to the next
  ClockMod,        \* 2^32
  MaxReadings,     \* bound: readings handed to flush()
  MaxFrames,       \* bound: frames handed to flushVideo()
  MaxLogs,         \* bound: calls of logStats()
  MaxEvents        \* bound: times the link changes

ASSUME UplinkAssumption ==
  /\ IsFiniteSet(Producer)
  /\ StatusDepth \in Nat \ {0} /\ VideoDepth \in Nat \ {0}
  /\ StuckIntervals \in Nat \ {0}
  /\ MinInterval \in Nat /\ ClockMod \in Nat /\ MinInterval < ClockMod
  /\ LogGaps \subseteq Nat \ {0}
  /\ MaxReadings \in Nat /\ MaxFrames \in Nat
  /\ MaxLogs \in Nat /\ MaxEvents \in Nat

Never == -1

VARIABLES
  linkUp,         \* g_linkUp
  events,         \* changes of it so far
  \* readings
  readings,       \* handed to flush() so far
  statusQueue,    \* the length of g_statusQueue
  statusTask,     \* where statusUplinkTask is
  status,         \* g_stQueued, g_stSent, g_stDropped
  \* frames
  frames,         \* handed to flushVideo() so far
  handing,        \* where each producer is in flushVideo()
  videoQueue,     \* the length of g_videoQueue
  videoTask,      \* where videoUplinkTask is
  video,          \* g_vidQueued, g_vidSent, g_vidDropped
  buffers,        \* frame buffers allocated
  \* logStats()
  logPc,          \* where it is, Idle between two calls
  sentTotal,      \* its local variable
  stuck,          \* g_stuckIntervals
  lastSent, lastQueued, lastRestart,  \* g_last...
  now,            \* ticks since boot, not wrapped
  \* history
  logs,           \* calls of logStats()
  quiet,          \* intervals in a row in which nothing was sent
  stalled,        \* calls in a row that found new work, and nothing counted as
                  \* sent since the call before
  restartedAt,    \* when the driver was restarted last
  sentSince,      \* something counted as sent since the last call began
  sentAfter,      \* ... since the last call decided
  fresh           \* new work: something counted as queued since the last call

link == <<linkUp, events>>
statusSide == <<readings, statusQueue, statusTask, status>>
videoSide == <<frames, handing, videoQueue, videoTask, video, buffers>>
restarts == <<lastRestart, restartedAt>>
watchdog == <<logPc, sentTotal, stuck, lastSent, lastQueued, restarts, now, logs, quiet, stalled>>
sent == <<sentSince, sentAfter>>
vars == <<link, statusSide, videoSide, watchdog, sent, fresh>>

Counters == [queued : Nat, sent : Nat, dropped : Nat]
NoneYet == [queued |-> 0, sent |-> 0, dropped |-> 0]

TypeOK ==
  /\ linkUp \in BOOLEAN /\ events \in Nat
  /\ readings \in Nat
  /\ statusQueue \in 0 .. StatusDepth
  /\ statusTask \in {"Waiting", "Holding", "Sending"}
  /\ status \in Counters
  /\ frames \in Nat
  /\ handing \in [Producer -> {"No", "Queueing", "Counting"}]
  /\ videoQueue \in 0 .. VideoDepth
  /\ videoTask \in {"Waiting", "Holding", "Sending", "Gone"}
  /\ video \in Counters
  /\ buffers \in Nat
  /\ logPc \in {"Idle", "Summing", "Deciding", "Restarting"}
  /\ sentTotal \in Nat /\ stuck \in Nat /\ lastSent \in Nat /\ lastQueued \in Nat
  /\ lastRestart \in 0 .. ClockMod - 1
  /\ now \in Nat /\ logs \in Nat /\ quiet \in Nat /\ stalled \in Nat
  /\ restartedAt \in Nat \cup {Never}
  /\ sentSince \in BOOLEAN /\ sentAfter \in BOOLEAN /\ fresh \in BOOLEAN

Init ==
  /\ linkUp = FALSE /\ events = 0
  /\ readings = 0 /\ statusQueue = 0 /\ statusTask = "Waiting" /\ status = NoneYet
  /\ frames = 0 /\ handing = [p \in Producer |-> "No"]
  /\ videoQueue = 0 /\ video = NoneYet /\ buffers = 0
  /\ videoTask \in {"Waiting", "Gone"}   \* without a socket it ends
  /\ logPc = "Idle" /\ sentTotal = 0 /\ stuck = 0 /\ lastSent = 0 /\ lastQueued = 0
  /\ lastRestart = 0 /\ restartedAt = Never
  /\ now = 0 /\ logs = 0 /\ quiet = 0 /\ stalled = 0
  /\ sentSince = FALSE /\ sentAfter = FALSE /\ fresh = FALSE

Ms(t) == t % ClockMod

-----------------------------------------------------------------------------
(* The link *)

\* ethEventHandler()
LinkChanges ==
  /\ events < MaxEvents
  /\ events' = events + 1
  /\ linkUp' = ~linkUp
  /\ UNCHANGED <<statusSide, videoSide, watchdog, sent, fresh>>

-----------------------------------------------------------------------------
(* Readings *)

\* Room for one too many.
HasRoomMutant(length, depth) == length <= depth

\* xQueueSend() without a wait.
HasRoom(length, depth) == length < depth

\* flush(), called by chain_node::loop() on the main task, which is also the
\* only one that reads g_stQueued.
Flush ==
  /\ logPc = "Idle" /\ readings < MaxReadings
  /\ readings' = readings + 1
  /\ IF HasRoom(statusQueue, StatusDepth)
     THEN /\ statusQueue' = statusQueue + 1
          /\ status' = [status EXCEPT !.queued = @ + 1]
          /\ fresh' = TRUE
     ELSE /\ status' = [status EXCEPT !.dropped = @ + 1]
          /\ UNCHANGED <<statusQueue, fresh>>
  /\ UNCHANGED <<link, statusTask, videoSide, watchdog, sent>>

TakeReading ==
  /\ statusTask = "Waiting" /\ statusQueue > 0
  /\ statusQueue' = statusQueue - 1
  /\ statusTask' = "Holding"
  /\ UNCHANGED <<link, readings, status, videoSide, watchdog, sent, fresh>>

\* What it does with one depends on the link.
CheckLinkForReading ==
  /\ statusTask = "Holding"
  /\ IF linkUp
     THEN statusTask' = "Sending" /\ UNCHANGED status
     ELSE statusTask' = "Waiting" /\ status' = [status EXCEPT !.dropped = @ + 1]
  /\ UNCHANGED <<link, readings, statusQueue, videoSide, watchdog, sent, fresh>>

SendCounted == sentSince' = TRUE /\ sentAfter' = TRUE

\* flushOne(): a connection, one line, and all of it written or not.
SendReading ==
  /\ statusTask = "Sending"
  /\ statusTask' = "Waiting"
  /\ \/ status' = [status EXCEPT !.sent = @ + 1] /\ SendCounted
     \/ status' = [status EXCEPT !.dropped = @ + 1] /\ UNCHANGED sent
  /\ UNCHANGED <<link, readings, statusQueue, videoSide, watchdog, fresh>>

-----------------------------------------------------------------------------
(* Frames *)

\* flushVideo() with a buffer of its caller's, as far as its look at the link.
FlushVideo(p) ==
  /\ handing[p] = "No" /\ frames < MaxFrames
  /\ frames' = frames + 1
  /\ IF linkUp
     THEN /\ handing' = [handing EXCEPT ![p] = "Queueing"]
          /\ buffers' = buffers + 1
          /\ UNCHANGED video
     ELSE /\ video' = [video EXCEPT !.dropped = @ + 1]
          /\ UNCHANGED <<handing, buffers>>
  /\ UNCHANGED <<link, statusSide, videoQueue, videoTask, watchdog, sent, fresh>>

QueueFrame(p) ==
  /\ handing[p] = "Queueing"
  /\ IF HasRoom(videoQueue, VideoDepth)
     THEN /\ handing' = [handing EXCEPT ![p] = "Counting"]
          /\ videoQueue' = videoQueue + 1
          /\ UNCHANGED <<video, buffers>>
     ELSE /\ handing' = [handing EXCEPT ![p] = "No"]
          /\ video' = [video EXCEPT !.dropped = @ + 1]
          /\ buffers' = buffers - 1
          /\ UNCHANGED videoQueue
  /\ UNCHANGED <<link, statusSide, frames, videoTask, watchdog, sent, fresh>>

CountFrame(p) ==
  /\ handing[p] = "Counting"
  /\ handing' = [handing EXCEPT ![p] = "No"]
  /\ video' = [video EXCEPT !.queued = @ + 1]
  /\ fresh' = TRUE
  /\ UNCHANGED <<link, statusSide, frames, videoQueue, videoTask, buffers, watchdog, sent>>

TakeFrame ==
  /\ videoTask = "Waiting" /\ videoQueue > 0
  /\ videoTask' = "Holding"
  /\ videoQueue' = videoQueue - 1
  /\ UNCHANGED <<link, statusSide, frames, handing, video, buffers, watchdog, sent, fresh>>

\* A frame dropped for want of a link not freed.
CheckLinkForFrameMutant ==
  /\ videoTask = "Holding"
  /\ IF linkUp
     THEN videoTask' = "Sending" /\ UNCHANGED video
     ELSE videoTask' = "Waiting" /\ video' = [video EXCEPT !.dropped = @ + 1]
  /\ UNCHANGED <<link, statusSide, frames, handing, videoQueue, buffers, watchdog, sent, fresh>>

CheckLinkForFrame ==
  /\ videoTask = "Holding"
  /\ IF linkUp
     THEN videoTask' = "Sending" /\ UNCHANGED <<video, buffers>>
     ELSE /\ videoTask' = "Waiting"
          /\ video' = [video EXCEPT !.dropped = @ + 1]
          /\ buffers' = buffers - 1
  /\ UNCHANGED <<link, statusSide, frames, handing, videoQueue, watchdog, sent, fresh>>

\* send() has taken every datagram, which is no promise that one leaves the
\* board, or one send() has failed.
SendFrame ==
  /\ videoTask = "Sending"
  /\ videoTask' = "Waiting"
  /\ buffers' = buffers - 1
  /\ \/ video' = [video EXCEPT !.sent = @ + 1] /\ SendCounted
     \/ video' = [video EXCEPT !.dropped = @ + 1] /\ UNCHANGED sent
  /\ UNCHANGED <<link, statusSide, frames, handing, videoQueue, watchdog, fresh>>

-----------------------------------------------------------------------------
(* logStats(), called by the main loop.  The totals it compares are sums of *)
(* counters that other tasks increment while it reads them.                 *)

BeginLog ==
  /\ logPc = "Idle" /\ logs < MaxLogs
  /\ logs' = logs + 1
  /\ \E gap \in LogGaps : now' = now + gap
  /\ quiet' = IF sentSince THEN 0 ELSE quiet + 1
  /\ sentSince' = FALSE
  /\ IF linkUp
     THEN /\ sentTotal' = status.sent
          /\ logPc' = "Summing"
          /\ UNCHANGED <<stuck, stalled, sentAfter, fresh>>
     ELSE /\ stuck' = 0 /\ stalled' = 0 /\ sentAfter' = FALSE /\ fresh' = FALSE
          /\ UNCHANGED <<sentTotal, logPc>>
  /\ UNCHANGED <<link, statusSide, videoSide, lastSent, lastQueued, restarts>>

SumSent ==
  /\ logPc = "Summing"
  /\ sentTotal' = sentTotal + video.sent
  /\ logPc' = "Deciding"
  /\ UNCHANGED <<link, statusSide, videoSide, stuck, lastSent, lastQueued, restarts, now, logs,
                 quiet, stalled, sent, fresh>>

QueuedTotal == status.queued + video.queued

\* No reset when something has been sent.
StuckNowMutant ==
  IF QueuedTotal # lastQueued /\ sentTotal = lastSent THEN stuck + 1 ELSE stuck

\* g_stuckIntervals after its update.
StuckNow == IF QueuedTotal # lastQueued /\ sentTotal = lastSent THEN stuck + 1 ELSE 0

\* One interval too late.
DueMutant == StuckNow > StuckIntervals

Due == StuckNow >= StuckIntervals

\* A clock behind the last restart taken for one long after it.
RestartAllowedMutant ==
  lastRestart = 0 \/ Ms(now) < lastRestart \/ Ms(now) - lastRestart >= MinInterval

RestartAllowed == lastRestart = 0 \/ Ms(now - lastRestart) >= MinInterval

Decide ==
  /\ logPc = "Deciding"
  /\ lastSent' = sentTotal /\ lastQueued' = QueuedTotal /\ sentTotal' = 0
  /\ sentAfter' = FALSE /\ fresh' = FALSE
  /\ IF Due /\ RestartAllowed
     THEN /\ lastRestart' = Ms(now) /\ restartedAt' = now
          /\ stuck' = 0 /\ stalled' = 0
          /\ logPc' = "Restarting"
     ELSE /\ stuck' = StuckNow
          /\ stalled' = IF fresh /\ ~sentAfter THEN stalled + 1 ELSE 0
          /\ logPc' = "Idle"
          /\ UNCHANGED restarts
  /\ UNCHANGED <<link, statusSide, videoSide, now, logs, quiet, sentSince>>

\* esp_eth_stop(), 200 ms, esp_eth_start(), while the other tasks go on.
Restart ==
  /\ logPc = "Restarting"
  /\ logPc' = "Idle"
  /\ UNCHANGED <<link, statusSide, videoSide, sentTotal, stuck, lastSent, lastQueued,
                 restarts, now, logs, quiet, stalled, sent, fresh>>

-----------------------------------------------------------------------------
Next ==
  \/ LinkChanges
  \/ Flush \/ TakeReading \/ CheckLinkForReading \/ SendReading
  \/ \E p \in Producer : FlushVideo(p) \/ QueueFrame(p) \/ CountFrame(p)
  \/ TakeFrame \/ CheckLinkForFrame \/ SendFrame
  \/ BeginLog \/ SumSent \/ Decide \/ Restart

Spec == Init /\ [][Next]_vars

-----------------------------------------------------------------------------
In(pcs) == Cardinality({p \in Producer : handing[p] \in pcs})

InHand(task) == IF task \in {"Holding", "Sending"} THEN 1 ELSE 0

\* Nothing is counted twice or forgotten, and no buffer leaks or is freed
\* twice: whatever the link does between the moments at which flushVideo() and
\* the uplink tasks look at it, each reading and each frame handed in is sent,
\* dropped, or in exactly one place.  A frame can have been sent before it is
\* counted as queued, but no more of them than producers about to count.
EveryItemAccounted ==
  /\ readings = status.sent + status.dropped + statusQueue + InHand(statusTask)
  /\ frames = video.sent + video.dropped + buffers
  /\ buffers = In({"Queueing"}) + videoQueue + InHand(videoTask)
  /\ status.sent + statusQueue + InHand(statusTask) <= status.queued
  /\ video.sent + videoQueue + InHand(videoTask) <= video.queued + In({"Counting"})

\* The watchdog does not restart a driver that works: before a restart nothing
\* was sent for as many intervals as the log line says, but for the one in
\* which logStats() itself was reading the counters.
WatchdogPatient ==
  logPc = "Restarting" => quiet + 1 >= StuckIntervals

RestartRecent == restartedAt # Never /\ Ms(now - restartedAt) < MinInterval

\* It does restart one that has stopped, as far as the code can tell: with the
\* link up, new work before each call and nothing counted as sent since the call
\* before, StuckIntervals + 1 calls at most go by, unless a restart is recent
\* (on a clock that wraps).
WatchdogPrompt ==
  logPc = "Idle" => stalled <= StuckIntervals \/ RestartRecent

\* Restarts are at least kEthRestartMinIntervalMs apart, also across a wrap of
\* the clock, unless the first of them was when the clock was 0, which
\* g_lastRestartMs takes for no restart.
RestartsSpaced ==
  [][(logPc # "Restarting" /\ logPc' = "Restarting" /\ restartedAt # Never) =>
       (now - restartedAt >= MinInterval \/ Ms(restartedAt) = 0)]_vars
=============================================================================
