----------------------------- MODULE NoiseLoop -----------------------------
(***************************************************************************)
(* The header loop of receiverTask() (main/luckfox_spi.cpp) in time, with  *)
(* no LuckFox attached: spi_slave_transmit() completes back to back        *)
(* without a master, and after a run of such transactions the task pauses  *)
(* with vTaskDelay(), which counts ticks of the FreeRTOS clock.  The       *)
(* repository's sdkconfig.defaults leaves CONFIG_FREERTOS_HZ alone.        *)
(***************************************************************************)
EXTENDS Integers

CONSTANTS
  TickRate,         \* CONFIG_FREERTOS_HZ, 100 where nothing else is said
  RunLimit,         \* the 100 transactions without a header
  PauseMs,          \* the 5 ms between them
  FailPauseMs,      \* the 10 ms after one that failed
  TransactionTimes, \* milliseconds a transaction may take
  Horizon           \* bound: milliseconds modelled

VARIABLES
  now,        \* milliseconds since boot
  noSyncRun,  \* transactions in a row without a header
  doneAt,     \* when the last of them completed
  startAt     \* when the next was, or will be, given to the driver

vars == <<now, noSyncRun, doneAt, startAt>>

Init == now = 0 /\ noSyncRun = 0 /\ doneAt = 0 /\ startAt = 0

TickMs == 1000 \div TickRate

\* pdMS_TO_TICKS()
MsToTicks(ms) == (ms * TickRate) \div 1000

\* vTaskDelay(): until that many ticks have come; none is no wait at all.
DelayFrom(t, ticks) == IF ticks = 0 THEN t ELSE (t \div TickMs + ticks) * TickMs

Transact(isHeader) ==
  \E d \in TransactionTimes :
    LET t == startAt + d
        run == IF isHeader THEN 0 ELSE noSyncRun + 1
    IN  /\ t <= Horizon
        /\ now' = t /\ doneAt' = t
        /\ noSyncRun' = run
        /\ startAt' = IF run > RunLimit THEN DelayFrom(t, MsToTicks(PauseMs)) ELSE t

\* transactOnce() is false: nothing is counted, and the task waits.
TransactionFails ==
  \E d \in TransactionTimes :
    LET t == startAt + d
    IN  /\ t <= Horizon
        /\ now' = t /\ doneAt' = t
        /\ startAt' = DelayFrom(t, MsToTicks(FailPauseMs))
        /\ UNCHANGED noSyncRun

Next == (\E isHeader \in BOOLEAN : Transact(isHeader)) \/ TransactionFails

Spec == Init /\ [][Next]_vars

\* What the comment on this loop says: after such a run the task pauses 5 ms
\* between transactions (give or take the tick it begins in).
PausesInNoise == noSyncRun > RunLimit => startAt - doneAt >= PauseMs - TickMs /\ startAt > doneAt
=============================================================================
