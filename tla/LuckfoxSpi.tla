---------------------------- MODULE LuckfoxSpi -----------------------------
(***************************************************************************)
(* The SPI link from a node's LuckFox (main/luckfox_spi.cpp): LuckFox is   *)
(* the master and sends a header transaction and then those of the         *)
(* payload; receiverTask() takes them one at a time, and knows a header    *)
(* only by its magic number.  There is no length, number or checksum on a  *)
(* payload transaction, and nothing travels back.                          *)
(*                                                                         *)
(* A transaction is missed when the task is not waiting for it (in a       *)
(* callback, in a delay, before its next call), LuckFox gives up and       *)
(* begins again, the driver reports a failure, the lines float: all these  *)
(* are faults, and bounded.  LuckFox is not part of the repository.        *)
(*                                                                         *)
(* A definition named F...Mutant is F with a plausible bug: the            *)
(* specification does not use it.                                          *)
(***************************************************************************)
EXTENDS Integers

CONSTANTS
  Streams,     \* kVideoStreamsPerNode
  Value,       \* what a lane reading says: occupied and plate
  Image,       \* video frames and plate crops
  Chunks,      \* transactions the payload of each takes
  MaxChunks,   \* those of kVideoMaxFrameBytes
  MaxFaults    \* bound: faults of the link, and resets

ASSUME SpiAssumption ==
  /\ Streams \in Nat \ {0}
  /\ MaxChunks \in Nat \ {0}
  /\ Chunks \in [Image -> 1 .. MaxChunks]
  /\ Image \cap Value = {}
  /\ MaxFaults \in Nat

Lane == 0 .. Streams - 1
NotALane == Streams    \* stands for every stream_id that is none
Junk == "junk"         \* bytes that are no reading

ASSUME JunkAssumption == Junk \notin Value /\ Junk \notin Image

\* What LuckFox sends: LaneStatusWire, always one transaction, and images.
Reading == [kind : {"status"}, stream : Lane, content : Value, chunks : {1}]
Picture == {[kind |-> "frame", stream |-> NotALane, content |-> i, chunks |-> Chunks[i]] :
              i \in Image}
Item == Reading \cup Picture

\* What the receiver may take something else for: a header it accepts.
Forged == [kind : {"status"}, stream : Lane \cup {NotALane}, content : {Junk}, chunks : {1}]
            \cup [kind : {"frame"}, stream : {NotALane}, content : {Junk}, chunks : 1 .. MaxChunks]

Nothing == [kind |-> "none", stream |-> NotALane, content |-> Junk, chunks |-> 0]

AnyItem == [kind : {"status", "frame", "none"}, stream : Lane \cup {NotALane},
            content : Value \cup Image \cup {Junk}, chunks : 0 .. MaxChunks]

\* A transaction: the header of an item (part 0) or one of its payload.
Header(i) == [item |-> i, part |-> 0]
Payload(i, k) == [item |-> i, part |-> k]
Noise == Payload(Nothing, 1)

\* A payload transaction says what is in it, not what it belongs to.
SamePayload(t, u) == t.part = u.part /\ t.item.content = u.item.content

Idle == Header(Nothing)

VARIABLES
  luckfox,    \* the transaction LuckFox sends next
  rx,         \* receiverTask: where it is, hdr, transactions received of its
              \* payload, and whether all of them were what they should be
  faults,
  wrong       \* history: readings and frames handed on that nobody sent

spi == <<luckfox, rx, faults, wrong>>

Waiting == [pc |-> "Header", item |-> Nothing, got |-> 0, whole |-> TRUE]

LuckfoxType ==
  /\ luckfox \in {Idle} \cup {[item |-> i, part |-> k] : i \in Item, k \in 0 .. MaxChunks}
  /\ luckfox.part <= luckfox.item.chunks

RxType ==
  /\ rx \in [pc : {"Header", "Status", "Body", "Drain", "Callback"}, item : AnyItem,
             got : 0 .. MaxChunks, whole : BOOLEAN]
  /\ rx.pc \in {"Body", "Drain"} => rx.got < rx.item.chunks
  /\ rx.pc = "Status" => rx.got = 0

SpiTypeOK == LuckfoxType /\ RxType /\ faults \in 0 .. MaxFaults /\ wrong \in Nat

SpiInit == luckfox = Idle /\ rx = Waiting /\ faults = 0 /\ wrong = 0

Fault == faults < MaxFaults /\ faults' = faults + 1

-----------------------------------------------------------------------------
(* LuckFox                                                                 *)

Begin(i) ==
  /\ luckfox = Idle
  /\ luckfox' = Header(i)
  /\ UNCHANGED <<rx, faults, wrong>>

\* On to its next transaction.
Sent ==
  /\ luckfox # Idle
  /\ luckfox' = IF luckfox.part = luckfox.item.chunks
                THEN Idle
                ELSE [luckfox EXCEPT !.part = @ + 1]

\* A timeout: it will begin again, with the same item or another.
Abort ==
  /\ luckfox # Idle
  /\ Fault
  /\ luckfox' = Idle
  /\ UNCHANGED <<rx, wrong>>

-----------------------------------------------------------------------------
(* receiverTask: what one transaction does                                 *)

\* No draining: the payload of a frame without a buffer left to the header
\* loop.
StartMutant(i, whole) ==
  \E pc \in IF i.kind = "status" THEN {"Status"} ELSE {"Body", "Header"} :
    rx' = [pc |-> pc, item |-> i, got |-> 0, whole |-> whole]

\* A header with a good length.  There may be no buffer for a frame, whose
\* payload is then drained.
Start(i, whole) ==
  \E pc \in IF i.kind = "status" THEN {"Status"} ELSE {"Body", "Drain"} :
    rx' = [pc |-> pc, item |-> i, got |-> 0, whole |-> whole]

\* Any transaction taken for a header, whatever is in it.
TakeHeaderMutant(t) ==
  /\ rx.pc = "Header"
  /\ IF t.item \in Item THEN Start(t.item, t.part = 0) ELSE UNCHANGED rx
  /\ UNCHANGED wrong

\* The loop that waits for a header: any other transaction is skipped.
TakeHeader(t) ==
  /\ rx.pc = "Header"
  /\ IF t.item \in Item /\ t.part = 0 THEN Start(t.item, TRUE) ELSE UNCHANGED rx
  /\ UNCHANGED wrong

StillWhole(t) == rx.whole /\ SamePayload(t, Payload(rx.item, rx.got + 1))

HandOn(whole) == wrong' = IF whole THEN wrong ELSE wrong + 1

\* Whatever arrives is read as a LaneStatusWire and given to g_onStatus.
TakeStatus(t) ==
  /\ rx.pc = "Status"
  /\ rx' = [rx EXCEPT !.pc = "Callback",
                      !.item.content = IF t.item.kind = "status" /\ t.part = 1
                                       THEN t.item.content ELSE Junk]
  /\ HandOn(StillWhole(t))

\* One chunk of a frame, and g_onFrame() with the last.
TakeChunk(t) ==
  /\ rx.pc = "Body"
  /\ IF rx.got + 1 < rx.item.chunks
     THEN /\ rx' = [rx EXCEPT !.got = @ + 1, !.whole = StillWhole(t)]
          /\ UNCHANGED wrong
     ELSE /\ rx' = Waiting
          /\ HandOn(StillWhole(t))

TakeDrained(t) ==
  /\ rx.pc = "Drain"
  /\ rx' = IF rx.got + 1 < rx.item.chunks
           THEN [rx EXCEPT !.got = @ + 1, !.whole = StillWhole(t)]
           ELSE Waiting
  /\ UNCHANGED wrong

Take(t) == TakeHeader(t) \/ TakeStatus(t) \/ TakeChunk(t) \/ TakeDrained(t)

-----------------------------------------------------------------------------
(* The link                                                                *)

Transact ==
  /\ Sent
  /\ Take(luckfox)
  /\ UNCHANGED faults

Miss ==
  /\ Sent
  /\ Fault
  /\ UNCHANGED <<rx, wrong>>

\* The lines float, and the driver completes a transaction nobody sent.
Phantom ==
  /\ Fault
  /\ Take(Noise)
  /\ UNCHANGED luckfox

\* Payload or noise with the magic number where a header has it, and a length
\* that will do.
Misread ==
  /\ rx.pc = "Header"
  /\ Fault
  /\ \/ luckfox.part > 0 /\ Sent
     \/ UNCHANGED luckfox
  /\ \E i \in Forged : Start(i, FALSE)
  /\ UNCHANGED wrong

\* spi_slave_transmit() fails: what was being received is dropped.
TransactionFails ==
  /\ rx.pc \in {"Status", "Body", "Drain"}
  /\ Fault
  /\ rx' = Waiting
  /\ UNCHANGED <<luckfox, wrong>>

\* The callback for a reading has returned.
Return ==
  /\ rx.pc = "Callback"
  /\ rx' = Waiting
  /\ UNCHANGED <<luckfox, faults, wrong>>

\* The board restarts.
ResetReceiver ==
  /\ Fault
  /\ rx' = Waiting
  /\ UNCHANGED <<luckfox, wrong>>

SpiNext ==
  \/ \E i \in Item : Begin(i)
  \/ Abort \/ Transact \/ Miss \/ Phantom \/ Misread \/ TransactionFails
  \/ Return \/ ResetReceiver

SpiSpec == SpiInit /\ [][SpiNext]_spi

-----------------------------------------------------------------------------
\* Without any check on what it collects, one fault spoils one item at most:
\* a payload that has slipped is handed on once, and what follows it is
\* skipped up to the next header.
WrongOncePerFault == wrong <= faults

\* The receiver expects what LuckFox sends next.
InStep ==
  IF rx.pc \in {"Header", "Callback"}
  THEN luckfox.part = 0
  ELSE luckfox = Payload(rx.item, rx.got + 1)

\* "this self-heals": after the last fault the receiver finds a header again
\* and is never out of step any more, whether it has memory for the frames
\* or not.
SelfHeals == <>[]InStep
=============================================================================
