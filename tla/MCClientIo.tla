----------------------------- MODULE MCClientIo -----------------------------
(* Model values for ClientIo. *)
EXTENDS ClientIo

CONSTANTS s1, w1, w2, b1
=============================================================================
