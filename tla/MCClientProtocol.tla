--------------------------- MODULE MCClientProtocol ---------------------------
(* Model values for ClientProtocol. *)
EXTENDS ClientProtocol

CONSTANTS u1, u2, u3, r1, r2
=============================================================================
