---------------------------- MODULE MCProvision ----------------------------
(* A small instance of provisioning. *)
EXTENDS Provision

\* Good numbers for four nodes, and one too small and too large.
MCTyped == -1 .. 5
=============================================================================
