---------------------------- MODULE MCBroadcast ----------------------------
(* Instances of Broadcast for TLC. *)
EXTENDS Broadcast, TLC

\* Sessions that send are alike, those that do not are alike, and so are rooms.
Symmetry == Permutations(Senders) \cup Permutations(Sessions \ Senders)
            \cup Permutations(Rooms)
=============================================================================
