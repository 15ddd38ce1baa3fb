----------------------------- MODULE MCLaneFeed ----------------------------
(* A small instance of the feed of lane readings. *)
EXTENDS LaneFeed

MCChunks == [i \in Image |-> IF i = "still" THEN 1 ELSE 2]
=============================================================================
