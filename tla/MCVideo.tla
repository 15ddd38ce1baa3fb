------------------------------ MODULE MCVideo ------------------------------
(* Small instances of a video hop. *)
EXTENDS VideoInv

\* The SPI task makes two frames, so that one can be lost or overtaken by the
\* other; prev sends one.
MCFrames == [p \in Producer |-> IF p = "luckfox" THEN 2 ELSE 1]
=============================================================================
