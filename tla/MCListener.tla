----------------------------- MODULE MCListener -----------------------------
(* Instances of Listener for TLC. *)
EXTENDS Listener
=============================================================================
