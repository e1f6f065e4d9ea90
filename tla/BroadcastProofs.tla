--------------------------- MODULE BroadcastProofs ---------------------------
(***************************************************************************)
(* Proofs about Broadcast for any sets of sessions, senders and rooms: a   *)
(* chat reaches everyone who is a receiver throughout it and nobody who    *)
(* never is.                                                               *)
(*                                                                         *)
(* The invariant speaks of one chat at a time (ChatInv): its constant      *)
(* receivers are always among those still to visit, the one being sent to  *)
(* and those reached, and what it has collected were receivers once.  A    *)
(* step that is not the chat's own preserves it because it changes neither *)
(* the sender's room nor, while the filter runs, the account map.          *)
(***************************************************************************)
EXTENDS Broadcast, TLAPS

Types ==
    /\ link \in [Sessions -> {"free", "connected", "closing", "ended"}]
    /\ inMap \subseteq Sessions
    /\ room \in [Sessions -> Rooms \cup {None}]
    /\ pc \in [Sessions -> {"idle", "collect", "visit", "push", "ack"}]
    /\ kind \in [Sessions -> {"normal", "all", None}]
    /\ todo \in [Sessions -> SUBSET Sessions] /\ chosen \in [Sessions -> SUBSET Sessions]
    /\ target \in [Sessions -> Sessions \cup {None}]
    /\ got \in [Sessions -> SUBSET Sessions]
    /\ steady \in [Sessions -> SUBSET Sessions] /\ ever \in [Sessions -> SUBSET Sessions]
    /\ DOMAIN count = Sessions

\* The chat of u is consistent with what it has observed.
ChatInv(u) ==
    /\ pc[u] = "idle" => got[u] = {} /\ chosen[u] = {}
    /\ pc[u] # "idle" => steady[u] \subseteq Receivers(u) /\ Receivers(u) \subseteq ever[u]
    /\ pc[u] # "idle" /\ kind[u] = "normal" => room[u] # None
    /\ pc[u] = "collect" => /\ lock = u /\ kind[u] = "normal"
                            /\ todo[u] \subseteq inMap
                            /\ steady[u] \subseteq todo[u] \cup chosen[u]
    /\ pc[u] = "visit" => steady[u] \subseteq todo[u] \cup got[u]
    /\ pc[u] = "push" => /\ target[u] \in ever[u]
                         /\ steady[u] \subseteq todo[u] \cup got[u] \cup {target[u]}
    /\ pc[u] = "ack" => steady[u] \subseteq got[u]
    /\ pc[u] \in {"visit", "push"} /\ kind[u] # "all" => todo[u] \subseteq ever[u]
    /\ got[u] \subseteq ever[u] /\ chosen[u] \subseteq ever[u]

IndInv == Types /\ \A u \in Sessions : ChatInv(u)

-----------------------------------------------------------------------------

\* The observation of one chat.
LEMMA Observed ==
  ASSUME Observe, NEW u \in Sessions
  PROVE  /\ steady'[u] = IF pc'[u] = "idle" THEN {}
                         ELSE IF pc[u] = "idle" THEN Receivers(u)'
                         ELSE steady[u] \cap Receivers(u)'
         /\ ever'[u] = IF pc'[u] = "idle" THEN {} ELSE ever[u] \cup Receivers(u)'
  BY DEF Observe

\* Only sessions are observed.
LEMMA ObservedType ==
  ASSUME Types, Observe
  PROVE  /\ steady' \in [Sessions -> SUBSET Sessions]
         /\ ever' \in [Sessions -> SUBSET Sessions]
  BY DEF Types, Observe, Receivers

\* A step that leaves a chat and its sender's room alone, and the account map
\* while the chat holds the lock, keeps it consistent.
LEMMA OtherStep ==
  ASSUME NEW u \in Sessions, ChatInv(u), Observe,
         pc'[u] = pc[u], kind'[u] = kind[u], todo'[u] = todo[u], chosen'[u] = chosen[u],
         target'[u] = target[u], got'[u] = got[u],
         pc[u] # "idle" => room'[u] = room[u],
         pc[u] = "collect" => lock' = lock /\ inMap' = inMap
  PROVE  ChatInv(u)'
<1>1. CASE pc[u] = "idle"
  BY <1>1 DEF ChatInv
<1>2. CASE pc[u] # "idle"
  <2>1. steady'[u] = steady[u] \cap Receivers(u)' /\ ever'[u] = ever[u] \cup Receivers(u)'
    BY <1>2, Observed, Zenon
  <2> DEFINE R == Receivers(u)'
  <2>2. steady'[u] \subseteq R /\ R \subseteq ever'[u] /\ ever[u] \subseteq ever'[u]
        /\ steady'[u] \subseteq steady[u]
    BY <2>1
  <2> HIDE DEF R
  <2>3. (steady[u] \subseteq Receivers(u) /\ Receivers(u) \subseteq ever[u])'
    BY <2>2 DEF R
  <2> QED BY <1>2, <2>2, <2>3 DEF ChatInv
<1> QED BY <1>1, <1>2

\* The first state satisfies the invariant.
LEMMA InitInd == Init => IndInv
  BY BroadcastAssumption DEF Init, IndInv, Types, ChatInv

\* The jobs of a session other than its chat.
LEMMA JobInd ==
  ASSUME IndInv, Observe, NEW s \in Sessions, Job(s)
  PROVE  IndInv'
<1> USE DEF IndInv
<1>1. Types'
  <2>1. /\ link' \in [Sessions -> {"free", "connected", "closing", "ended"}]
        /\ inMap' \subseteq Sessions /\ room' \in [Sessions -> Rooms \cup {None}]
    BY DEF Types, Job, Connect, Login, ExitRoom, Logout, Disconnect, Erase, EnterRoom
  <2>2. UNCHANGED chatVars
    BY DEF Job, Connect, Login, ExitRoom, Logout, Disconnect, Erase, EnterRoom
  <2> QED BY <2>1, <2>2, ObservedType DEF Types, chatVars
<1>2. ASSUME NEW u \in Sessions PROVE ChatInv(u)'
  <2>1. /\ UNCHANGED chatVars
        /\ pc[u] # "idle" => room'[u] = room[u]
        /\ lock # None => inMap' = inMap
        /\ lock' = lock
    BY DEF Types, Job, Connect, Login, ExitRoom, Logout, Disconnect, Erase, EnterRoom, Idle
  <2>2. pc[u] = "collect" => lock # None
    BY BroadcastAssumption DEF ChatInv
  <2>3. ChatInv(u) OBVIOUS
  <2> HIDE DEF IndInv
  <2> QED BY <2>1, <2>2, <2>3, OtherStep DEF chatVars
<1> QED BY <1>1, <1>2

\* A step of the chat of s leaves the other chats alone.
LEMMA OtherChats ==
  ASSUME IndInv, Observe, NEW s \in Sessions, Chat(s), NEW u \in Sessions \ {s}
  PROVE  ChatInv(u)'
<1>1. /\ pc'[u] = pc[u] /\ kind'[u] = kind[u] /\ todo'[u] = todo[u]
      /\ chosen'[u] = chosen[u] /\ target'[u] = target[u] /\ got'[u] = got[u]
      /\ room' = room /\ inMap' = inMap
  BY DEF IndInv, Types, Chat, NormalChat, Collect, Collected, AllChat, Skip, Visit, Push,
         Visited, AckChat, userVars
<1>2. pc[u] = "collect" => lock' = lock
  BY BroadcastAssumption
  DEF IndInv, ChatInv, Chat, NormalChat, Collect, Collected, AllChat, Skip, Visit, Push,
      Visited, AckChat
<1>3. ChatInv(u) BY DEF IndInv
<1> QED BY <1>1, <1>2, <1>3, OtherStep

\* A step of a chat keeps the types.
LEMMA ChatTypes ==
  ASSUME IndInv, Observe, NEW s \in Sessions, Chat(s)
  PROVE  Types'
<1>1. /\ link' \in [Sessions -> {"free", "connected", "closing", "ended"}]
      /\ inMap' = inMap /\ room' = room
  BY DEF IndInv, Types, Chat, NormalChat, Collect, Collected, AllChat, Skip, Visit, Push,
         Visited, AckChat, userVars
<1>2. /\ pc' \in [Sessions -> {"idle", "collect", "visit", "push", "ack"}]
      /\ kind' \in [Sessions -> {"normal", "all", None}]
      /\ target' \in [Sessions -> Sessions \cup {None}]
      /\ DOMAIN count' = Sessions
  BY DEF IndInv, Types, Chat, NormalChat, Collect, Collected, AllChat, Skip, Visit, Push,
         Visited, AckChat
<1>3. /\ todo' \in [Sessions -> SUBSET Sessions] /\ chosen' \in [Sessions -> SUBSET Sessions]
      /\ got' \in [Sessions -> SUBSET Sessions]
  <2>1. CASE NormalChat(s) BY <2>1 DEF IndInv, Types, NormalChat
  <2>2. CASE Collected(s) BY <2>2 DEF IndInv, Types, Collected
  <2>3. CASE AllChat(s) BY <2>3 DEF IndInv, Types, AllChat
  <2>4. CASE Push(s)
    <3>1. pc[s] = "push" => target[s] \in Sessions
      BY DEF IndInv, Types, ChatInv
    <3> QED BY <2>4, <3>1 DEF IndInv, Types, Push
  <2>5. CASE Visited(s) BY <2>5 DEF IndInv, Types, Visited
  <2>6. CASE AckChat(s) BY <2>6 DEF IndInv, Types, AckChat
  <2>7. CASE \E t \in Sessions : Collect(s, t) BY <2>7 DEF IndInv, Types, Collect
  <2>8. CASE \E t \in Sessions : Skip(s, t) BY <2>8 DEF IndInv, Types, Skip, Continue
  <2>9. CASE \E t \in Sessions : Visit(s, t) BY <2>9 DEF IndInv, Types, Visit
  <2> QED BY <2>1, <2>2, <2>3, <2>4, <2>5, <2>6, <2>7, <2>8, <2>9 DEF Chat
<1> QED BY <1>1, <1>2, <1>3, ObservedType DEF IndInv, Types

\* A step of a chat keeps it consistent with what it has observed.
LEMMA OwnChat ==
  ASSUME IndInv, Observe, NEW s \in Sessions, Chat(s)
  PROVE  ChatInv(s)'
<1> DEFINE R == Receivers(s)'
<1>1. /\ pc'[s] = "idle" => steady'[s] = {} /\ ever'[s] = {}
      /\ pc'[s] # "idle" => /\ steady'[s] \subseteq R /\ R \subseteq ever'[s]
                            /\ ever[s] \subseteq ever'[s]
                            /\ pc[s] # "idle" => steady'[s] \subseteq steady[s]
  BY Observed, Zenon
<1>2. (pc[s] # "idle" => steady[s] \subseteq Receivers(s) /\ Receivers(s) \subseteq ever[s])'
  BY <1>1
<1> USE DEF IndInv
<1>3. CASE NormalChat(s)
  <2>1. R \subseteq inMap
    BY <1>3 DEF NormalChat, Types, Receivers, userVars
  <2> HIDE DEF R
  <2> QED BY <1>1, <1>2, <1>3, <2>1 DEF NormalChat, Types, ChatInv, userVars
<1>4. CASE \E t \in Sessions : Collect(s, t)
  <2> PICK t \in Sessions : Collect(s, t) BY <1>4
  <2>1. NormalReceiver(s, t) => t \in Receivers(s)
    BY DEF Collect, Types, ChatInv, Receivers, AllReceiver, NormalReceiver
  <2>2. ~NormalReceiver(s, t) => t \notin Receivers(s)
    BY DEF Collect, Types, ChatInv, Receivers, AllReceiver, NormalReceiver
  <2> HIDE DEF R
  <2> QED BY <1>1, <1>2, <2>1, <2>2 DEF Collect, Types, ChatInv, userVars
<1>5. CASE Collected(s)
  <2> HIDE DEF R
  <2> QED BY <1>1, <1>2, <1>5 DEF Collected, Types, ChatInv, userVars
<1>6. CASE AllChat(s)
  <2>1. R \subseteq todo'[s]
    BY <1>6 DEF AllChat, Types, Receivers, AllReceiver, userVars
  <2> HIDE DEF R
  <2> QED BY <1>1, <1>2, <1>6, <2>1, BroadcastAssumption DEF AllChat, Types, ChatInv, userVars
<1>7. CASE \E t \in Sessions : Skip(s, t)
  <2> PICK t \in Sessions : Skip(s, t) BY <1>7
  <2>1. t \notin Receivers(s) BY DEF Skip, Receivers
  <2> HIDE DEF R
  <2> QED BY <1>1, <1>2, <2>1 DEF Skip, Continue, Types, ChatInv, userVars
<1>8. CASE \E t \in Sessions : Visit(s, t)
  <2> PICK t \in Sessions : Visit(s, t) BY <1>8
  <2>1. t \in ever[s]
    <3>1. CASE kind[s] = "all"
      <4>1. t \in Receivers(s) BY <3>1 DEF Visit, Receivers
      <4> QED BY <4>1 DEF Visit, ChatInv
    <3>2. CASE kind[s] # "all" BY <3>2 DEF Visit, ChatInv
    <3> QED BY <3>1, <3>2
  <2> HIDE DEF R
  <2> QED BY <1>1, <1>2, <2>1 DEF Visit, Types, ChatInv, userVars
<1>9. CASE Push(s)
  <2>1. target[s] \in R => target[s] \in got'[s]
    BY <1>9 DEF Push, Types, Receivers, AllReceiver
  <2>2. got'[s] \subseteq got[s] \cup {target[s]} /\ got[s] \subseteq got'[s]
    BY <1>9 DEF Push, Types
  <2> HIDE DEF R
  <2> QED BY <1>1, <1>2, <1>9, <2>1, <2>2 DEF Push, Types, ChatInv
<1>10. CASE Visited(s)
  <2> HIDE DEF R
  <2> QED BY <1>1, <1>2, <1>10 DEF Visited, Types, ChatInv, userVars
<1>11. CASE AckChat(s)
  <2> HIDE DEF R
  <2> QED BY <1>1, <1>2, <1>11 DEF AckChat, Types, ChatInv, userVars
<1> QED BY <1>3, <1>4, <1>5, <1>6, <1>7, <1>8, <1>9, <1>10, <1>11 DEF Chat

\* When nothing but the observation changes, the invariant stays.
LEMMA QuietInd == IndInv /\ AllEnded /\ Observe => IndInv'
<1> SUFFICES ASSUME IndInv, AllEnded, Observe PROVE IndInv' OBVIOUS
<1>1. UNCHANGED <<userVars, lock, chatVars>> BY DEF AllEnded
<1>2. Types' BY <1>1, ObservedType DEF IndInv, Types, userVars, chatVars
<1>3. ASSUME NEW u \in Sessions PROVE ChatInv(u)'
  <2>1. ChatInv(u) BY DEF IndInv
  <2> QED BY <1>1, <2>1, OtherStep DEF userVars, chatVars
<1> QED BY <1>2, <1>3 DEF IndInv

\* Every step preserves the invariant.
LEMMA NextInd == IndInv /\ [Next]_vars => IndInv'
<1> SUFFICES ASSUME IndInv, [Next]_vars PROVE IndInv' OBVIOUS
<1>1. CASE AllEnded /\ Observe BY <1>1, QuietInd
<1>2. CASE (\E s \in Sessions : Job(s)) /\ Observe BY <1>2, JobInd
<1>3. CASE (\E s \in Senders : Chat(s)) /\ Observe
  <2> PICK s \in Senders : Chat(s) BY <1>3
  <2>1. s \in Sessions BY BroadcastAssumption
  <2>2. Types' BY <1>3, <2>1, ChatTypes
  <2>3. \A u \in Sessions : ChatInv(u)'
    BY <1>3, <2>1, OwnChat, OtherChats
  <2> QED BY <2>2, <2>3 DEF IndInv
<1>4. CASE UNCHANGED vars
  <2>1. Types' BY <1>4 DEF IndInv, Types, vars, userVars, chatVars
  <2>2. \A u \in Sessions : ChatInv(u)'
    BY <1>4 DEF IndInv, ChatInv, Receivers, AllReceiver, vars, userVars, chatVars
  <2> QED BY <2>1, <2>2 DEF IndInv
<1> QED BY <1>1, <1>2, <1>3, <1>4 DEF Next

\* The invariant holds in every reachable state.
LEMMA Inductive == Spec => []IndInv
  BY InitInd, NextInd, PTL DEF Spec

\* Everyone who is a receiver during a whole chat gets its message.
THEOREM ChatReaches == Spec => []ReceiversReached
<1>1. IndInv => ReceiversReached BY DEF IndInv, ChatInv, ReceiversReached
<1> QED BY <1>1, Inductive, PTL

\* Nobody gets a chat without being a receiver at some moment of it.
THEOREM ChatStaysInside == Spec => []NoStranger
<1>1. IndInv => NoStranger BY DEF IndInv, ChatInv, NoStranger
<1> QED BY <1>1, Inductive, PTL
=============================================================================
