------------------------------ MODULE MCUplink -----------------------------
(* A small instance of the uplink.  Its producers are interchangeable. *)
EXTENDS GatewayUplink, TLC

Symmetry == Permutations(Producer)
=============================================================================
