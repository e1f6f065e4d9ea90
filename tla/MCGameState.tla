----------------------------- MODULE MCGameState -----------------------------
(***************************************************************************)
(* GameState for TLC. The sets of sessions, accounts, names and rooms are  *)
(* symmetric.                                                              *)
(***************************************************************************)
EXTENDS GameState, TLC

Symmetry ==
    Permutations(Sessions) \cup Permutations(Ids) \cup Permutations(Names)
        \cup Permutations(Rooms)
=============================================================================
