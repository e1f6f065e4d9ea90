------------------------------ MODULE Presence ------------------------------
(***************************************************************************)
(* What the game server promises about an account: it is created once, is  *)
(* logged in by one client at a time, is in at most one room, enters a     *)
(* room only with a place left, and leaves its room before it logs out.    *)
(* Sessions, maps and locks do not appear here; module GameState           *)
(* implements this specification.                                          *)
(***************************************************************************)
EXTENDS Naturals, FiniteSets

CONSTANTS Ids, Rooms, RoomSize

VARIABLE presence   \* presence[id]: "unknown", "offline", "lobby" or a room

Init == presence = [id \in Ids |-> "unknown"]

Move(id, from, to) ==
    /\ presence[id] = from
    /\ presence' = [presence EXCEPT ![id] = to]

Create(id) == Move(id, "unknown", "lobby")
LogIn(id)  == Move(id, "offline", "lobby")
LogOut(id) == Move(id, "lobby", "offline")

Enter(id, r) ==
    /\ Cardinality({i \in Ids : presence[i] = r}) < RoomSize
    /\ Move(id, "lobby", r)

Leave(id, r) == Move(id, r, "lobby")

Next ==
    \E id \in Ids :
        \/ Create(id) \/ LogIn(id) \/ LogOut(id)
        \/ \E r \in Rooms : Enter(id, r) \/ Leave(id, r)

Spec == Init /\ [][Next]_presence
=============================================================================
