----------------------------- MODULE LaneFeed ------------------------------
(***************************************************************************)
(* From LuckFox to the chain: the SPI task puts each lane reading in a     *)
(* cache (setLaneStatus() in main/chain_node.cpp, its callback) and the    *)
(* main task takes one lane at a time out of it for the packets the node   *)
(* originates (readLocalStatus(), called by loop()).  There is no lock:    *)
(* either task may be between its two accesses when the other runs.        *)
(***************************************************************************)
EXTENDS LuckfoxSpi

CONSTANT Vacant   \* the reading of every lane at boot

None == "none"

ASSUME ReadingAssumption == Vacant \in Value /\ None \notin Value

Cached == Value \cup {Junk}

VARIABLES
  occupied,       \* g_laneOccupied
  plate,          \* g_lanePlate
  stored,         \* setLaneStatus() has written the first and not the second
  localStream,    \* g_localStream
  packet          \* what loop() has read so far: pkt.occupied, or nothing

cache == <<occupied, plate>>
main == <<localStream, packet>>
vars == <<spi, cache, stored, main>>

TypeOK ==
  /\ SpiTypeOK
  /\ occupied \in [Lane -> Cached] /\ plate \in [Lane -> Cached]
  /\ stored \in BOOLEAN
  /\ localStream \in Lane
  /\ packet \in Cached \cup {None}

Boot ==
  /\ occupied = [l \in Lane |-> Vacant] /\ plate = [l \in Lane |-> Vacant]
  /\ stored = FALSE
  /\ localStream = 0 /\ packet = None

Init == SpiInit /\ Boot

-----------------------------------------------------------------------------
(* setLaneStatus(), on the SPI task                                        *)

\* A stream_id that is no lane.
IgnoreStatus ==
  /\ rx.item.stream \notin Lane
  /\ Return
  /\ UNCHANGED <<cache, stored, main>>

StoreOccupied ==
  /\ rx.pc = "Callback" /\ ~stored /\ rx.item.stream \in Lane
  /\ occupied' = [occupied EXCEPT ![rx.item.stream] = rx.item.content]
  /\ stored' = TRUE
  /\ UNCHANGED <<spi, plate, main>>

StorePlate ==
  /\ stored
  /\ plate' = [plate EXCEPT ![rx.item.stream] = rx.item.content]
  /\ stored' = FALSE
  /\ Return
  /\ UNCHANGED <<occupied, main>>

-----------------------------------------------------------------------------
(* loop(), on the main task, each time kStatusLocalIntervalMs are over     *)

ReadOccupied ==
  /\ packet = None
  /\ packet' = occupied[localStream]
  /\ UNCHANGED <<spi, cache, stored, localStream>>

\* The last lane never reached.
NextStreamMutant == (localStream + 1) % (Streams - 1)

\* Past the last lane.
NextStreamPastMutant == localStream + 1

NextStream == (localStream + 1) % Streams

\* The packet goes to the chain with plate[localStream] in it.
Originate ==
  /\ packet # None
  /\ packet' = None
  /\ localStream' = NextStream
  /\ UNCHANGED <<spi, cache, stored>>

-----------------------------------------------------------------------------
Reset ==
  /\ ResetReceiver
  /\ occupied' = [l \in Lane |-> Vacant] /\ plate' = [l \in Lane |-> Vacant]
  /\ stored' = FALSE
  /\ localStream' = 0 /\ packet' = None

SpiAlone ==
  /\ \/ \E i \in Item : Begin(i)
     \/ Abort \/ Transact \/ Miss \/ Phantom \/ Misread \/ TransactionFails
  /\ UNCHANGED <<cache, stored, main>>

Next ==
  \/ SpiAlone
  \/ IgnoreStatus \/ StoreOccupied \/ StorePlate
  \/ ReadOccupied \/ Originate
  \/ Reset

Spec == Init /\ [][Next]_vars

\* Both tasks run, and LuckFox always has something to send.
Fairness ==
  /\ WF_vars(IgnoreStatus) /\ WF_vars(StoreOccupied) /\ WF_vars(StorePlate)
  /\ WF_vars(ReadOccupied) /\ WF_vars(Originate)
  /\ WF_vars((\E i \in Item : Begin(i)) /\ UNCHANGED <<cache, stored, main>>)
  /\ WF_vars(Transact /\ UNCHANGED <<cache, stored, main>>)

FairSpec == Spec /\ Fairness

-----------------------------------------------------------------------------
Reports(l, v) == \E i \in Reading : i.stream = l /\ i.content = v /\ Begin(i)

\* LuckFox reports v for lane l again and again, and nothing else any more.
SteadyReports(l, v) ==
  /\ []<><<Reports(l, v)>>_vars
  /\ <>[][\A w \in Value \ {v} : ~Reports(l, w)]_vars

Carries(v) == packet = v /\ plate[localStream] = v

\* Whatever was lost, torn or misread before: a lane whose reading no longer
\* changes is the lane the chain reports in the end, both fields of it, and
\* it is reported again and again.  A packet with half an old and half a new
\* reading, or with what was no reading at all, is put right.
LaneSettles ==
  \A l \in Lane, v \in Value :
    SteadyReports(l, v) =>
      /\ []<><<Originate /\ localStream = l>>_vars
      /\ <>[][Originate /\ localStream = l => Carries(v)]_vars
=============================================================================
