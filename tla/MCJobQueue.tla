----------------------------- MODULE MCJobQueue -----------------------------
(* Model values for JobQueue. *)
EXTENDS JobQueue
=============================================================================
