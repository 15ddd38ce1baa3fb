---------------------------- MODULE VideoStream ----------------------------
(***************************************************************************)
(* What a video hop promises to each producer of frames: it may lose any   *)
(* of them, and passes on the others whole, once and in order, and nothing *)
(* else.  Nothing is promised about the order of frames of different       *)
(* producers, nor about what a frame holds once the place in the stream    *)
(* has been lost; a producer's frames stay in order even then.             *)
(***************************************************************************)
EXTENDS Integers, Sequences

CONSTANTS Producer, Junk

VARIABLES
  made,      \* frames of each producer so far
  transit,   \* those still on their way
  passed,    \* what has been passed on, in order
  framed     \* the place in the stream has not been lost

vars == <<made, transit, passed, framed>>

Init ==
  /\ made = [p \in Producer |-> 0]
  /\ transit = {}
  /\ passed = <<>>
  /\ framed = TRUE

Make(p) ==
  /\ made' = [made EXCEPT ![p] = @ + 1]
  /\ transit' = transit \cup {[from |-> p, num |-> made[p] + 1]}
  /\ UNCHANGED <<passed, framed>>

\* Any number of frames at once (a reset, or a broken connection), and with
\* them perhaps the place in the stream.
Lose ==
  /\ transit' \in SUBSET transit
  /\ framed' \in {framed, FALSE}
  /\ UNCHANGED <<made, passed>>

\* The oldest frame of its producer that is not lost.
Pass(f, whole) ==
  /\ \A g \in transit : g.from = f.from => f.num <= g.num
  /\ framed => whole
  /\ passed' = Append(passed, [frame |-> f, whole |-> whole])
  /\ transit' \in SUBSET (transit \ {f})
  /\ UNCHANGED <<made, framed>>

PassJunk(junk) ==
  /\ ~framed
  /\ passed' = Append(passed, [frame |-> junk, whole |-> FALSE])
  /\ transit' \in SUBSET transit
  /\ UNCHANGED <<made, framed>>

Next ==
  \/ \E p \in Producer : Make(p)
  \/ Lose
  \/ \E f \in transit, whole \in BOOLEAN : Pass(f, whole)
  \/ \E junk \in Junk : PassJunk(junk)

Spec == Init /\ [][Next]_vars
=============================================================================
