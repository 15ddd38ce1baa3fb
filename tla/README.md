# ESP32-S3-RAP: TLA+ models, model checking and proofs

The firmware in `src/` runs on a row of ESP32-S3 boards in a parking lot.
Each board (a *node*) watches a few lanes through a LuckFox camera computer,
sends one small reading per lane over an ESP-NOW chain and video frames over a
WiFi daisy chain; node 0, the *Gateway*, passes both on to a backend over
Ethernet. This directory holds TLA+ models of that system, the TLC runs that
check them on small instances, and theorems about them that TLAPS has checked.
Line numbers refer to the sources at the commit in `src/`.

## 1. The system's parts

| part | source | state | operations | talks to |
|---|---|---|---|---|
| status chain | `main/chain_node.cpp` | `g_state` (Discovering, Idle, Forwarding), neighbours' MACs, FIFO `g_outQueue` of 8 packets, the slot `g_pending`, the dedup key `g_lastAccepted*`, `g_localSeq`, three timestamps, the lane cache | `init`, `handleHello`, `handleStatus`, `handleAck`, `loop`, `setLaneStatus` | neighbours by packets; `gateway_uplink::flush`; written to by the SPI task |
| ESP-NOW transport | `main/espnow_transport.cpp` | RX queue of 16 frames, peer table | `send`, `onDataRecv` (WiFi task), `poll` (main task) | radio; calls the handlers of the chain |
| video relay | `main/video_relay.cpp` | queue of 12 frame pointers, one TCP connection to next, one from prev | `serverTask`, `clientTask`, `onLuckfoxFrame` | TCP to next; `gateway_uplink::flushVideo`; called by the SPI task |
| gateway uplink | `main/gateway_uplink.cpp` | `g_linkUp`, status queue (32), video queue (12), counters, watchdog | `flush`, `flushVideo`, two tasks, link events, `logStats` (watchdog) | backend over TCP and UDP |
| LuckFox SPI receiver | `main/luckfox_spi.cpp` | position in header/payload, scratch buffer | `receiverTask` | LuckFox (SPI master); callbacks into video relay and chain |
| provisioning | `main/provisioning.cpp` | two NVS keys | `loadOrProvision` | console |
| boot, main loop | `main/main.cpp` | - | calls everything above; `chain_node::loop` every 10 ms, `logStats` every 10 s | |

A packet's way: LuckFox -> SPI task -> lane cache -> (main task, every 2 s)
`StatusPacket` -> `g_outQueue` -> slot -> radio -> next's RX queue -> its
`handleStatus` -> its `g_outQueue` ... -> Gateway -> `flush` -> uplink task.
Acknowledgements go one hop back; nothing else travels from the Gateway
towards node 1.

What makes each part hard, and what would make it correct:

* **Status chain.** N boards run concurrently; packets and ACKs are lost; a
  receiver whose queue is full refuses silently; the only memory of what has
  been received is one `(origin, seq)` pair that a reset clears; sequence
  numbers are 16 bits and restart at 0. Correct: no packet acknowledged unless
  its next is responsible for it, nothing lost or repeated between two boards
  that stay up, order kept, no hop stuck for ever, discovery completing.
* **Timers.** A 32-bit millisecond clock that wraps. Correct: no interval
  shorter or longer than configured, across a wrap.
* **Video relay.** Two tasks and a callback share a queue of heap buffers;
  connections break, time out or go silent; the byte stream must stay framed.
  Correct: every buffer freed exactly once, frames whole, in order, at most
  once, a hop that recovers after either end resets.
* **Gateway uplink.** Four tasks share queues, counters and a link flag.
  Correct: `flush` never waits, every item is sent or counted as dropped once,
  the watchdog restarts a driver when its counters stand still and only then.
* **SPI receiver.** Transactions can be missed. Correct: back in step within a
  frame; the lane cache read while it is written.
* **Provisioning.** Power can fail between two writes. Correct: a board never
  runs with half an identity.

`PROJECT.json` lists the hazards behind these lines, each at its line.

## 2. Plan

The status chain came first (the readings are what the system is for, and the
protocol that carries them is its least obvious part), then a hop of the video
chain, the Ethernet side of the Gateway, what feeds the chain, and provisioning.

1. *done* `ChainNode`, `ChainPipeline`, `ChainProps`, `LoopTimers`; runs
   `chain_lossy`, `chain_reset`, `chain_live`, `timers` and two violations;
   theorems `TypeCorrect`, `SlotFreedCorrect`, `PipelineCorrect`,
   `FlushedOnceCorrect`, `NothingLostCorrect`, `NeverGoesBackCorrect`,
   `RepeatsCorrect`, and the five of `TimerProofs`.
2. *done* `VideoHop`, `VideoStream`, `VideoProps`, `VideoInv`; runs `video`,
   `video_drain`; theorems `TypeCorrect`, `OneOwnerCorrect`, `FramesInOrderCorrect`,
   `FramesWholeCorrect`, `StreamCorrect`.
3. *done* `GatewayUplink`: both queues, both tasks, link events and the watchdog,
   with the counters as the code updates them; run `uplink`; theorems
   `TypeCorrect`, `ItemsCorrect`, `PatientCorrect`, `PromptCorrect`,
   `RestartsSpacedCorrect`.
4. *done* `LuckfoxSpi`, `LaneFeed`, `NoiseLoop`: the receiver with missed, false and
   failed transactions, the lane cache written by one task and read by another, the
   pause in noise; runs `lane_feed`, `noise_pause`; theorems
   `WrongOncePerFaultCorrect`, `FeedImplementsSpi`, `TypeCorrect`.
5. *done* `Provision`: NVS writes with power lost in between; run `provision`;
   theorems `RunsAsToldCorrect`, `SavedIsFinalCorrect`, `TypeCorrect`.
6. *left* `ChainNode`'s Gateway composed with `GatewayUplink`'s status queue. The
   Gateway acknowledges a reading whatever `flush` did with it, so beyond
   `ChainNode`'s `flushed` a reading is, while the Gateway runs, sent or dropped
   (`EveryItemAccounted`) and nobody sends it again; the composition would say no
   more than the two say apart.

Every invariant and every action property that a run checks is the statement of a
theorem, and so are both refinements; what is left to TLC alone is liveness.

No module that is proved about uses a RECURSIVE operator.

## 3. Modules

| module | what it is |
|---|---|
| `ChainNode` | the status chain: all boards, all links |
| `ChainPipeline` | what it promises while no board resets: a row of bounded FIFO buffers |
| `ChainProps` | its properties, and the refinement mapping to `ChainPipeline` |
| `ChainInv` | its inductive invariants |
| `ChainProofs` | types, the stop-and-wait of one hop, and, whatever resets, the order of readings and how often they are repeated: theorems and their proofs |
| `ChainPipelineProofs` | the refinement of `ChainPipeline`, nothing lost, nothing repeated: theorems and their proofs |
| `MCChain` + `MCChain*.cfg` | small instances |
| `LoopTimers` + `MCTimers.cfg`, `MCAckWrap.cfg` | the timers of `loop()` on the wrapping clock |
| `TimerProofs` | theorems about them and their proofs |
| `VideoHop` | one hop of the video chain: relay, TCP, next |
| `VideoStream` | what it promises: frames lost, or passed on whole and in order |
| `VideoProps` | its properties, and the refinement mapping to `VideoStream` |
| `VideoInv` | its inductive invariants |
| `VideoProofs` | types, buffers, and the order of frames: theorems and their proofs |
| `VideoFramingProofs` | whole frames, and the refinement of `VideoStream`: theorems and their proofs |
| `MCVideo` + `MCVideo*.cfg` | small instances |
| `GatewayUplink` | the Gateway's queues, uplink tasks and watchdog, with their properties |
| `UplinkProofs` | theorems and their proofs |
| `MCUplink` + `MCUplink.cfg` | a small instance |
| `LuckfoxSpi` | the SPI link from LuckFox: the receiver and its faults |
| `LaneFeed` | the receiver with the lane cache behind it and the task that reads it |
| `LaneFeedProofs` | theorems about both and their proofs |
| `MCLaneFeed` + `MCLaneFeed.cfg` | a small instance |
| `NoiseLoop` + `MCNoise.cfg` | the pause of the header loop, on the clock of FreeRTOS |
| `Provision` | how a board gets its identity |
| `ProvisionProofs` | theorems and their proofs |
| `MCProvision` + `MCProvision.cfg` | a small instance |

A definition named `F...Mutant` is `F` with a plausible bug. No specification
uses it; it documents what the property named with it in `PROJECT.json` is able
to catch.

### ChainNode

One variable per variable of `chain_node.cpp`, as a function of the node:
`state`, `nextKnown`, `prevKnown`, `outQueue`, `pending`, `lastAccepted` (the
three `g_lastAccepted*`/`g_hasAcceptedAny` variables), `localSeq`. Between n and
`NextId(n)` there are two FIFO links, `statusLink[n]` and `ackLink[n]` (back),
each a radio channel and the part of the RX queue its frames occupy: at most
`RxDepth` frames, a frame is dropped when there is no room (`onDataRecv`) and
may be lost at any time. `flushed`, `boots`, `dropRun` and `dropped` are
history.

| action | code |
|---|---|
| `HandleHello(n, m)` | `handleHello`. A HELLO carries only an identity and is broadcast for ever, so n may hear one from m at any time; no link is needed for them |
| `IgnoreStatus`, `ReAckDuplicate`, `SinkStatus`, `QueueStatus`, `RefuseStatus` | the five ways through `handleStatus` |
| `HandleAck` | `handleAck`. A board's MAC is known once its HELLO has been heard, so an ACK for a Forwarding node always comes from a known next |
| `LoopGateway`, `LoopForwarding`, `LoopIdle` | `loop()` after `poll()`: the origination timer, then, in the same step, the ACK timer or the next packet of the queue. Whether a timer is due is a parameter |
| `Reboot` | a reset: `init()` on zeroed RAM, RX queue gone, frames already on the air to others are not |
| `LoseStatus`, `LoseAck` | loss |

Handlers and `loop()` run on the main task, so each is one step; only
`onDataRecv` runs elsewhere, and it only appends to a FreeRTOS queue.

Packets are numbered without bound and remember the boot they were produced
in; the handlers compare only `SeqOf`, `num % SeqMod`, so that two different
packets can look alike on the wire exactly when they do in the firmware.
Payload (lane, occupancy, plate) is not represented: the protocol never looks at
it.

### ChainPipeline and the refinement

The buffer of node n is what n is *responsible for* (`Held(n)`): its slot, as
long as its next has not accepted the packet in it, then its queue. The step
that moves a reading from one buffer to the next is the one in which the
receiver accepts it, not the one in which the sender learns of it; losses,
retransmissions, ACKs, duplicates and discovery are stuttering. A node may lose
only a reading of its own, and only with `QueueDepth` readings in its buffer.

### LoopTimers

A step is one pass of the main loop, 1 .. `MaxGap` ticks after the one before.
`lastHello`, `lastLocal` and `ackDeadline` are the 32-bit stamps (mod
`ClockMod`), `helloAt`, `localAt`, `sentAt`, `readyAt` the same instants in time
that does not wrap.

### VideoHop

The producers of a relay (`onLuckfoxFrame` on the SPI task, `serverTask` on its
own), its `clientTask`, a TCP connection or two, and the `serverTask` of its next.
A frame buffer is known by the frame in it; `heap` and `nextHeap` are the buffers
allocated, `held`, `outQueue`, `current` and `rx` the variables that point to them.

| action | code |
|---|---|
| `Produce`, `Enqueue`, `DropFull` | a frame in a buffer; `enqueueOrDrop`: room within 50 ms, or the buffer is freed |
| `Connect` | `connectWithTimeout` succeeds; its failures change nothing, and are its delay |
| `TakeFrame`, `TakeNothing` | `xQueueReceive` in `clientTask`: a frame, or `kVideoHeartbeatMs` without one |
| `Write`, `Sent` | `sendAll` piece by piece; the buffer freed after it |
| `WriteFails`, `WriteStalls` | `send()` fails: the other end is gone, no room for 5 s, no radio for 5 s; `linkOk = false` |
| `Accept` | `accept` and the `SO_RCVTIMEO` set on the socket |
| `ReadHeader`, `ReadBeat`, `Misread` | a header read: of a frame (the buffer can be allocated or not), a heartbeat, or bytes that are no header |
| `ReadBody`, `ReadDrain` | a piece of a payload, kept or drained; with the last one the frame is passed on |
| `ReadFails`, `ReadStalls` | `recv()` fails: the end of the stream or of a dead connection, or 7 s of silence on a live one |
| `Break`, `ResetRelay`, `ResetNext` | the connection is lost from some byte on; a board resets |

*The connection.* next has one connection it has accepted and one in its backlog
(`listen(..., 1)`): a client whose old connection died without a FIN connects
again while next is still waiting on the dead one, and writes into the backlog.
`conn[c]` is what next can still read and how the connection ends, `clientOn` says
which of the two the relay's socket is; "lost" is a socket whose other end no
longer exists. A connection holds `Window` pieces, so that writing can block.

*Granularity.* What is written and read is a header or a piece of a payload; TCP
cuts a stream anywhere, but `recvAll` and `sendAll` make each of these all or
nothing, so a cut inside a piece is a cut before it. The exception is a header read
where a payload is: `Misread` lets it be anything, and end where a piece ends.

### VideoStream

The frames under way are a set, from which any may be lost at any time (`Lose`). What
next passes on is a sequence, and each step adds one item to it: the oldest frame of
its producer that is still under way (`Pass`), which then is under way no more, so
that nothing is repeated, overtaken or invented. It is whole as long as `framed`, the
place in the stream, has not been lost; only after that may anything else be passed
on, and it is never whole (`PassJunk`).

`VideoProps` maps to it what is in any of the places between a producer and next's
output (`UnderWay`), `delivered`, and `drainStalls = 0`.

### GatewayUplink

What is in a reading or a frame is not represented, only how many there are and
where: `statusQueue` and `videoQueue` are lengths, `statusTask` and `videoTask` say
whether a task is waiting on its queue, holds an item, or is sending it; `handing[p]`
where producer p is in `flushVideo`. `status` and `video` are the counters the code
keeps, `buffers` the frame buffers that the uplink owns.

| action | code |
|---|---|
| `Flush` | `flush`: `xQueueSend` without a wait, then a counter. One step: it runs on the main task, and so does `logStats`, the only reader of `g_stQueued` |
| `TakeReading`, `CheckLinkForReading`, `SendReading` | `statusUplinkTask`: the queue, the link, `flushOne` |
| `FlushVideo`, `QueueFrame`, `CountFrame` | `flushVideo`: the link, the queue, the counter. Three steps, because the uplink task can take and send the frame between the last two |
| `TakeFrame`, `CheckLinkForFrame`, `SendFrame` | `videoUplinkTask`: the queue, the link, all datagrams of a frame (sent, or one has failed), `free` |
| `BeginLog`, `SumSent`, `Decide` | `logStats`: its two reads of counters that other tasks increment meanwhile, then the rest |
| `Restart` | `esp_eth_stop`, 200 ms, `esp_eth_start`, while the other tasks go on |
| `LinkChanges` | `ethEventHandler`, at any time |

`now` is the time without wraps and `Ms(now)` the 32-bit clock the code reads. When
there is no driver (`g_ethHandle` is null) the link never comes up, which is one of
the behaviours. Any send may succeed or fail at any time. "Sent" is what the code takes
for sent: for a reading a connection and all of its line written, for a frame
`send() >= 0` on a UDP socket for each datagram (`gateway_uplink.cpp:272`), which lwIP
returns also when nothing leaves the board. Whether the peer gets anything is
therefore not in the model, as it is not in the counters.

### LuckfoxSpi

`luckfox` is the transaction LuckFox sends next (`part` 0 of an item is its header),
`rx` is `receiverTask`: where in its loop it is (`pc`), `hdr` (`item`), how many
transactions of the payload it has, and, as history, whether these were the right
ones (`whole`). Pixels and readings are model values; a payload is as long in
transactions as it is on the wire, and a transaction says nothing of what it
belongs to.

| action | code |
|---|---|
| `Transact` | a transaction LuckFox sends and `transactOnce` receives, and what the loop does with it: `TakeHeader` (107-144), `TakeStatus` (149-163), `TakeChunk` (181-206), `TakeDrained` (169-179) |
| `Start` | a good header: a status, or a frame with or without a buffer for it |
| `Return` | `g_onStatus` has returned. `g_onFrame` may wait 50 ms, in which transactions are missed; that is `Miss` |
| `Miss`, `Phantom`, `Misread`, `TransactionFails` | nobody waiting for a transaction; one that nobody sent; bytes that look like a header; `spi_slave_transmit` fails |
| `Abort` | LuckFox gives up in the middle of an item (external) |
| `ResetReceiver` | the board resets; LuckFox does not notice |

A reading is copied out of whatever the transaction was (`TakeStatus`): no check on
it exists but its length, so what it holds may be `Junk`. `wrong` counts readings and
frames that are handed on and that nobody sent.

### LaneFeed

Adds `g_laneOccupied` and `g_lanePlate`, which `setLaneStatus` writes on the SPI task,
one store after the other (`StoreOccupied`, `StorePlate`; `IgnoreStatus` for a lane
that does not exist), and the main task reading one lane per interval, also in two
steps (`ReadOccupied`, `Originate`), with no lock between them. Both fields hold the
same reading when they are whole, so a packet whose two differ is a torn one.
`chain_node.h:25` calls a torn read "at worst one stale tick": what it gives is a
packet with half of each reading, and a misread one may be no reading at all;
`LaneSettles` says that the next packets of that lane put it right.

### NoiseLoop

The header loop (`luckfox_spi.cpp:97-133`), with transactions that fail, on a clock of
milliseconds, with `vTaskDelay` and `pdMS_TO_TICKS` as FreeRTOS defines them, for any tick rate.

### Provision

`flash` is what a restart finds, `nvs` what the firmware has written, which reaches
flash at any time but in order (`Persist`, external), at the latest in
`nvs_commit`. `Load` is the check at boot, `ReadLine` the one at the console
(`parseSetId`), `SetId`, `SetSize`, `Commit` and `Restart` the four calls that
follow. `PowerLoss` may come between any two, and is also what an `ESP_ERROR_CHECK`
that fails comes to. `Erase` is `idf.py erase-flash`, or `nvs_flash_erase` in
`app_main`.

## 4. Runs

| run | instance | shows |
|---|---|---|
| `chain_lossy` | 3 nodes, queue 1, links of 2, 3 sequence numbers, node 1 makes 4 readings and node 2 one, no resets | `SlotFreedOnlyIfAccepted`, `FlushedOnce`, `NothingLostOnTheWay`, and that every behaviour is one of `ChainPipeline` |
| `chain_reset` | 3 nodes, links of 1, node 1 makes 2 readings per boot, each board resets once | `NeverGoesBack`, `RepeatsNeedResets` |
| `chain_live` | 3 nodes, one reading each, node 2 resets once, with fairness | `SlotIsFreed`, `EveryReadingArrives`, `DiscoveryCompletes` |
| `timers` | clock of 16 ticks, HELLO 3/9, reading 6, ACK 4, passes 1-2 ticks apart, 40 ticks | `HelloOnTime`, `LocalOnTime`, `NeverEarly`, `AckTimerWithinTurn` |
| `chain_new_reading` | as `chain_reset` | violates `DuplicateWasProcessed` |
| `ack_wrap` | as `timers` | violates `RetransmitOnTime` |
| `video` | producers with 2 and 1 frames, queue 1, frames of a header and 2 pieces, window 2, 2 faults, of which 1 may be a stalled drain, with fairness | `OneOwnerPerBuffer`, `FramesWhole`, `FramesInOrder`, `HopRecovers`, `BuffersComeBack`, and that every behaviour is one of `VideoStream` |
| `video_drain` | window 2, 1 fault, which may be a stalled drain | violates `StaysFramed` |
| `uplink` | two producers, 2 frames, 2 readings, queues of 1, 4 calls of `logStats` 1 or 2 ticks apart, 2 link events, a clock of 4 ticks, 2 intervals to a restart, 3 ticks between restarts | `EveryItemAccounted`, `WatchdogPatient`, `WatchdogPrompt`, `RestartsSpaced` |
| `lane_feed` | 2 lanes, 2 readings, a frame of 2 transactions, 3 faults, with fairness | `WrongOncePerFault`, `SelfHeals`, `LaneSettles` |
| `noise_pause` | the tick rate of ESP-IDF, 100 per second | violates `PausesInNoise` |
| `provision` | up to 4 nodes, numbers -1 .. 5 typed, power lost 3 times, flash erased once, with fairness | `RunsAsTold`, `SavedIsFinal`, `EventuallyRuns` |

Why the bounds are enough. Three nodes give one relay that only sends, one that
receives, queues and sends, and the Gateway; a fourth would add a second middle
relay. With a queue of 1 full queues, refusals and drops happen at once, and a
link of 2 holds an old and a new packet, or an old and a new ACK, together. Node
1 makes more readings than there are sequence numbers, so numbers are reused
while copies are on the way. `SeqMod = 3` with `MaxDropRun = 1` is the sharpest
pair: the proofs need `MaxDropRun + 1 < SeqMod`, and with `SeqMod = 2` TLC
finds a reading that is taken for a duplicate. With two readings per boot and a
reset of every board, losses, repetitions and reuse of sequence numbers all
occur in `chain_reset`. The timer run wraps the clock twice and has both HELLO
intervals longer than a pass and shorter than a wrap, as on the boards.

`MaxReadings`, `MaxDropRun`, `MaxBoots`, `RxDepth` and `Horizon` are bounds of the
models. The chain runs check deadlock: HELLOs never stop. `timers` and `ack_wrap`
end at `Horizon`, so they do not.

In the video runs a queue of 1 with three frames is full, and drops, while one
frame is being sent. A window of 2 pieces is shorter than a frame, so that writing
blocks in the middle of one and every cut leaves a part of it behind. Two faults are
enough to break a connection and to lose the one in the backlog as well, or to reset
either board in the middle of recovering. Two producers, one with two frames, are
what order and repetition per producer need. `MaxFrames`, `MaxFaults`,
`MaxDrainStalls` and `Window` are bounds. The video runs check deadlock: heartbeats
never stop.

In `uplink` both producers can be at any step of `flushVideo` while the task is at
any of its own and the link goes down and up again; with queues of 1 both are full.
Four calls of `logStats` wrap the clock and make room for two restarts and a recovery
in between; two readings and two frames are work for each interval. The producers are
interchangeable, which the run uses as a symmetry (it checks no liveness).
`MaxFrames`, `MaxReadings`, `MaxLogs` and `MaxEvents` are bounds, at which every
behaviour ends, so the run does not check deadlock.

In `lane_feed` the frame has two transactions, so that it can lose its first, its
last or both, and be followed by a reading, whose two transactions then finish it.
Three faults are two slips and a reset, or a slip while the receiver is already
slipping. `MaxFaults` is the only bound; LuckFox never stops, so deadlock is checked.
In `provision` three losses interrupt the first line, the second and the boot after
it; the typed numbers are every good one and one on either side. `MaxLosses` and
`MaxErasures` are bounds; a board that runs has no step left, so the run does not
check deadlock.

The properties of the watchdog are as sharp as the code allows. `logStats` adds up
counters while other tasks increment them, so an item may count for the interval
before or the one after it, and after a call with the link down the kept total is an
old one: `WatchdogPatient` and `WatchdogPrompt` allow one interval for that, and TLC
violates them without it. `RestartsSpaced` makes an exception of a
restart at clock 0: `g_lastRestartMs == 0` also means "never".

### Fairness

`FairSpec` assumes, for powered boards: HELLOs are heard (weak fairness; they
are broadcast every 0.5 or 5 s for ever); the main task runs and the ACK timer of
a waiting packet expires again and again (weak fairness of `LoopForwarding(n,
FALSE, TRUE)`, `LoopIdle`, `LoopGateway`: `main.cpp:78` loops every 10 ms); neither
direction of a hop loses every packet for ever (strong fairness of
`HandleStatus` and `HandleAck`). Own readings are not fair: they are made, or
not.

`EveryReadingArrives` rests on `MaxReadings`: producers stop in the end. A relay
whose own readings always took the place an ACK frees could refuse prev for
ever; in the field a reading is made every 2 s and a refused packet is sent
again every 300 ms, so that does not happen, but untimed fairness cannot say so.

`FairSpec` of `VideoHop` assumes that every task runs (weak fairness of its
actions) and that TCP finds out in the end that the other end is gone, or that a
full window stays full (strong fairness of `WriteFails`: several writes may succeed
before that). A timeout on a live connection (`WriteStalls`, `ReadStalls`) is a
fault, bounded and not fair: the heartbeat every 2 s keeps the 7 s receive timeout
from firing while the radio works. Producing frames is not fair.

`FairSpec` of `LaneFeed` assumes that both tasks run and that LuckFox always has
something to send (weak fairness of `Begin` and `Transact`), which is what
`spi_sender.py` is said to do; faults are bounded and not fair. `LaneSettles` assumes
in its own premise that the lane is reported again and again. `FairSpec` of
`Provision` assumes that the board executes and that the operator types a good line
whenever it asks.

### What the violation runs show

* `DuplicateWasProcessed` (`chain_node.cpp:171`): `g_localSeq` is not kept over
  a reset, so a board's first new readings can carry the `(origin, seq)` its
  next accepted last from it before. They are ACKed as duplicates and lost,
  at most one reading for each reset.
* `RetransmitOnTime` (`chain_node.cpp:310`): the ACK deadline is compared as a
  point in time. If the clock wraps (every 49.7 days) after a deadline was set
  just below 2^32 and before the first pass that would have seen it, the slot
  waits 49.7 days for its retransmission unless the ACK arrives. The other way
  round, a packet sent in the last 300 ms before a wrap is sent again at every pass
  until the clock has wrapped. `AckTimerWithinTurn` says that nothing else goes wrong.
* `StaysFramed` (`video_relay.cpp:266`): when `recvAll` fails inside the drain of a
  frame that got no buffer, the `break` leaves only the inner loop, and the
  connection is read on from the middle of that payload. If the connection is
  dead the next header read fails too, which is why `HopRecovers` still holds; if
  it was only slow, payload is taken for a header.
* `PausesInNoise` (`luckfox_spi.cpp:131`): `pdMS_TO_TICKS(5)` is 0 at the tick rate
  of 100 that ESP-IDF has and nothing here changes, so the pause "5 ms between them"
  that line 118 speaks of is none. With `TickRate = 1000` TLC finds no violation.

Two consequences a reader should know, which no run shows as a violation. The
watchdog adds readings and frames (`gateway_uplink.cpp:467`). Its comment (461-464)
and `docs/network/topology.md:188` are about a W5500 from which nothing reaches the
peer any more. Frames go out over UDP and count as sent when the stack has taken them,
so a Gateway that still passes frames on may see its sum grow in every interval and
never restart the driver, while each reading fails over TCP. `WatchdogPrompt` holds
because its premise is the code's: nothing *counted* as sent. It does not say that a
driver that gets nothing out is restarted.

And a board without power keeps both its neighbours in discovery, where they
originate nothing and relay nothing (`chain_node.cpp:282`).

## 5. Theorems

`ChainProofs!TypeCorrect`: `Spec => []TypeOK`, for every chain size, depth and
number of resets. The inductive invariant adds to `TypeOK` that a Forwarding
node has a packet in its slot (otherwise a retransmission would put
`NoPacket` on the link). `TypeOK` includes that the queue never holds more than
`QueueDepth` packets.

`ChainProofs!SlotFreedCorrect`: `Spec => []SlotFreedOnlyIfAccepted` under
`NoResetAssumption`: no board resets, and a node does not lose `SeqMod - 1`
readings in a row to a full queue (with 2^16 numbers and a reading every 2 s,
36 hours without progress). Both are needed: the first is what
`chain_new_reading` violates, the second what TLC finds with `SeqMod = 2`.

The property says nothing about what is on the links, so it is not inductive.
`ChainInv` strengthens it in two halves:

* *The hop* (`HopInv`). Nothing has been sent yet (`Unused`); or the packet in
  the slot has been accepted (`Accepted`): all copies on the link are of it, and
  behind the first ACK for it there are only ACKs for it; or it has not
  (`Outstanding`): the sender is waiting, copies of the previous packet come
  before copies of this one, and all ACKs are for the previous packet.
* *The line* (`LineInv`). The packets of a relay, slot then queue, are such that
  no two neighbours can be mistaken for each other by `(origin, seq)`: this is
  what makes "an ACK for the previous packet" different from "an ACK for this
  one". To survive a new reading it also says that the last packet of the line is
  the node's last reading that was not dropped, or the last packet accepted;
  and that only nodes 1 .. n produce what n sends, so what n accepts is not its
  own.

Both halves are predicates on values (`Hop`, `Line`), with one lemma for each
thing a step can do to them (`HopAck`, `HopAccept`, `LineOwn`, ...); a second
layer of lemmas, one per action, lifts them to the state. TLC confirms that
`StopAndWaitInv` holds in the instance of `chain_lossy`.

`ChainPipelineProofs!PipelineCorrect`: `Spec => ImplementsPipeline`, under the same
assumption. The refinement mapping gives a relay's packet to whoever is responsible
for it (`Held`): the slot counts until the next node has accepted the packet, not
until the relay knows. `StopAndWaitInv` is what makes it work: the packet
`handleStatus` accepts is the head of what its prev holds (`AcceptedIsHeld`), so
`SinkStatus` and `QueueStatus` are `Deliver` and `Move`; when `handleAck` frees the slot,
nothing is left in it (`SimAck`); and a packet that enters the slot has not arrived
already, being different from the one before it (`LoopIdleHolds`). A pass of `loop()`
is `Originate`, `Discard` or nothing, everything else a stutter. `SimulationInv` adds
only that the Gateway never waits and that no board has reset (`QuietInv`).

`ChainPipelineProofs!FlushedOnceCorrect`, `NothingLostCorrect`: `Spec => []FlushedOnce`
and `Spec => []NothingLostOnTheWay`, again under `NoResetAssumption`. They are proved of
the pipeline's steps rather than the chain's: what is left of a step is a packet that
goes from the head of one line to the end of another (`MovedPacket`), or a new one
that joins a line (`AddedPacket`). `FlowInv` says that no packet is at two places, all
were produced before, and all of a relay's that are not counted as dropped are
somewhere; `DropCounted` goes back to `loop()` for the last.

`ChainProofs!NeverGoesBackCorrect`: `Spec => []NeverGoesBack`, with no assumption on
resets, losses or sequence numbers. A reset makes a relay forget what it has accepted,
so that it can accept a retransmission again; what it cannot do is get ahead of
anything. `OrderInv` says so of the whole chain: seen from the backend, what is
flushed, then the link, the slot and the queue of node `ChainSize - 1`, then those of
the one before it, and so on down to node 1, contain the readings of each origin from
oldest to newest (`Ahead`), repetitions allowed. A new reading is newer than all its
node has ever produced (`OrderReading`: a reset starts a new boot) and nothing nearer
the origin can hold one of its kind (`InLine`), so it is in its place wherever it is
put; a packet that moves is the head of one place and goes to the end of the next
(`OrderTakes`); and resets and losses only take away (`OrderShrinks`). This is why the
slot must be emptied before the queue is read: the mutant in which packets take turns
breaks it at once. TLC confirms `OrderInv` in the instance of `chain_reset`.

`ChainProofs!RepeatsCorrect`: `Spec => []RepeatsNeedResets`, likewise for any chain.
Each repetition of a reading at the backend costs a reset between its producer and it. The
invariant, `RepeatsInv`, counts the copies there are of a reading r: those flushed, and
at each relay the *starts*, the places in its link, slot and queue (one after the other,
`OnTheWay`) where r stands and the packet before it, or at the front what the next node
has accepted last, is another. A run of equal packets is one copy, because the next
node accepts only the first of it. So

* a packet lost, refused, taken for a duplicate or freed by its ACK never adds a
  start, wherever it was (`StartsWithout`), and neither does sending the slot again,
  which puts a packet beside its equal (`StartsTwice`, `WaySent`);
* accepting the head of a link takes one start from its sender, and gives one at most
  to the receiver's queue, or to what is flushed (`StartsAccepted`, `StartsAppend`);
* a new reading is the only one of its kind (`NoneBefore`, from `OrderInv`);
* a reset of n takes away what n holds, and makes it forget what it has accepted, so
  that what its prev has on the way may start with one copy more (`StartsAfresh`). prev
  carries only readings of origins up to its own (`InLine`), so for others nothing is
  added, and for these `ResetsBelow` counts the reset.

Resets and copies are counted as the cardinality of a set of pairs of a node and what
belongs to it (`Tagged`): a sum over nodes would be a fold, about which nothing can be
proved by induction here. A step changes the sets of one node or two, and `TagsOne` and
`TagsTwo` say what that does to the whole. TLC confirms `RepeatsInv` in the instance
of `chain_reset`.

`TimerProofs`: `TypeCorrect`, `HelloOnTimeCorrect`, `LocalOnTimeCorrect`,
`NeverEarlyCorrect`, `AckTimerCorrect`, for every width of the clock, interval and
`MaxGap` that satisfy `TimerAssumption` (an interval and a gap are less than a turn of
the clock). The invariant `TimerInv` ties each stamp to the instant it stands for
(`StampsInv`, `DeadlineInv`). Three lemmas say what an unsigned difference is worth:
within a turn it is exact (`ElapsedExact`), it is never more than what has gone by
(`ElapsedAtMost`), and until it wraps it grows by the time between passes
(`ElapsedGrows`). The last is for `LocalInv`: while a node is still looking for its
neighbours `g_lastLocalMs` stays as it is, perhaps for longer than a turn, so what is
known of the first reading after discovery is only that it comes within an interval
of the end of discovery. For the ACK timer, which compares stamps, `StampOrder` says
that within a turn stamps are ordered as instants are, and across turns only one of the
two answers can be wrong; hence the two premises of `AckTimerWithinTurn`.

`VideoProofs!TypeCorrect`, `VideoProofs!OneOwnerCorrect`: `Spec => []TypeOK` and
`Spec => []OneOwnerPerBuffer`, for all producers, depths, frame sizes and numbers of
faults, from `VideoAssumption` alone. A new buffer must not be one that is in use;
`BuffersInv` therefore adds that a producer numbers its frames upwards (`Used`) and
holds only its own. `NextOwns` is inductive by itself.

`VideoProofs!FramesInOrderCorrect`: `Spec => []FramesInOrder`. Between next's output and
a producer there are seven places (`Place`): passed on, being read, the connection
next has accepted, the one in its backlog, being written, queued, held by the
producer. `OrderInv` says that a producer's frames are older the nearer they are to
next's output, between places (`Ordered`) and inside each (`InSequence`). A frame only
ever goes from one place to a later one with nothing of its producer between them
(`OrderMoves`), and every fault only takes frames away (`OrderShrinks`). The step that
needs more is `Write`: a frame written to the accepted connection passes the backlog
by, so the invariant adds that the backlog is empty while the relay's socket is
the accepted connection. It is why one client with one socket at a time is enough
for order: what is left in a connection the relay has given up is older than all it
will ever write.

`VideoFramingProofs!FramesWholeCorrect`: `Spec => []FramesWhole`, where `FramesWhole`
makes an exception of frames after a stalled drain.
Whether a frame will be whole depends on all that is still to be read, so
`FramingInv` speaks of `Incoming(c)`: the data of a connection *and what its client
has yet to write*. It is `Wellformed`: each unit follows from the one before it,
the first is the one the server expects in the state it is in, and it ends with a
complete frame while its client is there. Including `toSend` makes `Write` a
stutter for this invariant, and a client that gives up in mid-frame (`Abandon`), a
cut and a reset all the same thing, a prefix. Each way the stream changes is a lemma
about sequences (`CutWellformed`, `ExtendWellformed`, `ReadWellformed`,
`ReadPieceWellformed`), and one lemma per action applies it.

`VideoFramingProofs!StreamCorrect`: `Spec => ImplementsStream`, every behaviour of a hop
is one of `VideoStream`. It is `FramesInOrderCorrect` and `FramesWholeCorrect` put
together, and says more: a frame is passed on only while it is under way, and one
that is lost does not come back. Every step but that of a producer leaves nothing under
way that was not before (`NothingNew`, proved with the lemmas on order); the frame
whose last piece is read is the oldest of its producer by `OrderInv`, and `OrderInv` of
the next state says that it is gone; `FramesWhole` of the next state says that it is
whole. `JunkInv` adds that what is read and is no frame is known not to be whole,
which is what `PassJunk` asks.

`UplinkProofs!TypeCorrect`, `UplinkProofs!ItemsCorrect`: `Spec => []TypeOK` and
`Spec => []EveryItemAccounted`, from `UplinkAssumption`. The two are inductive only
together: that a buffer can be freed (`buffers - 1` is not negative) follows from
the equation for `buffers`. One lemma, `ProducerMoves`, says how the number of
producers at a step changes.

`UplinkProofs!RestartsSpacedCorrect`: `Spec => RestartsSpaced`. The invariant,
`RestartStamped`, is that `g_lastRestartMs` is the time of the last restart taken
modulo the clock; `ElapsedAtMost` shows that an unsigned difference of stamps is
never more than the time that has gone by, however often the clock has wrapped.

`UplinkProofs!PatientCorrect`, `PromptCorrect`: `Spec => []WatchdogPatient` and
`Spec => []WatchdogPrompt`. `PatientInv` follows the two counters through the reads of
`logStats`: what is sent after its read of the one and before its read of the other
(phases `Summing`, `Deciding`) is counted in this interval or in the next, never in
both, so `stuck` is ahead of the quiet intervals by one at most. `PromptInv` says that
where nothing was counted as sent since the call before, the total `logStats` adds up
is the whole total, and where that call was such a one too, the total it kept; so
`stuck` is behind the stalled calls by one at most. `RestartStamped` and `ElapsedMod`
then leave a recent restart as the one reason not to act.

`LaneFeedProofs!WrongOncePerFaultCorrect`: `Spec => []WrongOncePerFault`, through
`FeedImplementsSpi` (`Spec => SpiSpec`) from the same property of the receiver alone.
`wrong <= faults` is not inductive: an item that will be wrong is not yet counted
while it is being collected. `SlipInv` adds that a receiver in the middle of an item
that is out of step (`Slipped`) has a fault still to spend. What makes it inductive
is that a header is only recognised where LuckFox has one (`TransactSlip`), so a
receiver that has handed on one wrong item skips what is left and starts in step.
`TypeCorrect` needs, beyond `TypeOK`, that between its two stores `setLaneStatus` still
has the lane it was called with (`FeedType`).

`ProvisionProofs!RunsAsToldCorrect`, `SavedIsFinalCorrect`, `TypeCorrect`: from
`ProvisionAssumption` (`kUnprovisioned` is no valid number). The invariant is
`KeysInOrder`: `chain_size` is written second, so while it is missing the board asks
again, and once it is in flash `node_id` is there from the same line. With the writes
swapped this would fail: an id from an earlier, interrupted line would be found with
it. `ParsedIsValid` is why a saved line is never asked for again.

Only model-checked: the liveness properties, `SlotIsFreed`, `EveryReadingArrives`,
`DiscoveryCompletes`, `HopRecovers`, `BuffersComeBack`, `SelfHeals`, `LaneSettles` and
`EventuallyRuns`. They rest on fairness and ENABLED, which the provers do not reach.

## 6. What is not modelled

* Of the SPI receiver: the set-up of the slave, cached and DMA memory, the lengths of
  transactions LuckFox cuts short. Of provisioning: a line that `fgets` returns in
  parts, and values in NVS that this firmware did not write.
* Of the gateway uplink: the set-up of the W5500, IP events, the JSON line and the
  cutting of a frame into datagrams, what becomes of a datagram `send` has taken, the
  receive counters, counters that wrap.
* Of the video relay: the set-up of the SoftAP and the station (a board that has not
  joined next's network is one whose `Connect` has not happened yet; losing the
  network is `Break`), the self-test producer (off in production), statistics. What
  next does with a frame it passes on is its own hop's `Produce`, or the uplink's
  `flushVideo`.
* The MAC of a neighbour is learned once per boot (`chain_node.cpp:141`), so a
  board that is *replaced* is not heard until its neighbours reset. In
  `ChainNode` a position keeps its board.
* Boards provisioned with different chain sizes, which `handleHello` ignores.
* Counters and log lines, the self-test mode (`kChainSelfTest`, off in
  production), pins, addresses and driver configuration.
* ESP-IDF, FreeRTOS, lwIP, LuckFox and the backend: outside the repository. A
  FreeRTOS queue is modelled as the bounded FIFO its callers rely on.
