------------------------------ MODULE MCSession ------------------------------
(* Session for TLC: the threads of Apps are interchangeable. *)
EXTENDS Session, TLC

Symmetry == Permutations(Apps)
=============================================================================
