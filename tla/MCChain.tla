------------------------------ MODULE MCChain ------------------------------
(* Small instances of the status chain. *)
EXTENDS ChainInv

\* The readings of node 1 take every hop and use every sequence number.
MCReadings == [n \in Node |-> CASE n = 0 -> 0 [] n = 1 -> 4 [] OTHER -> 1]

\* Two readings of node 1 suffice to lose, repeat and reorder them.
MCReadingsReset == [n \in Node |-> CASE n = 0 -> 0 [] n = 1 -> 2 [] OTHER -> 1]

MCOneReading == [n \in Node |-> 1]

NoResets == [n \in Node |-> 0]
EachResetsOnce == [n \in Node |-> 1]

\* The relay with a relay on one side and the Gateway on the other.
MiddleResetsOnce == [n \in Node |-> IF n = 2 THEN 1 ELSE 0]
=============================================================================
