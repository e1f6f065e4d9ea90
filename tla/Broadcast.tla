------------------------------ MODULE Broadcast ------------------------------
(***************************************************************************)
(* The delivery loops of REQ_CHAT: SessionManager::normal_chat and         *)
(* all_chat.  GameState treats a chat as one step; here every look at a    *)
(* session and every send is a step of its own, between which the other    *)
(* sessions connect, log in, change rooms, disconnect and are cleaned up.  *)
(*                                                                         *)
(* normal_chat filters the account map under the manager's lock and sends  *)
(* after it; all_chat copies the session set under the lock and looks at   *)
(* each session without it.  A session runs one job at a time (module      *)
(* JobQueue), so its own room and login do not change while it chats.      *)
(***************************************************************************)
EXTENDS Integers, FiniteSets

CONSTANTS Sessions, Rooms,
          Senders,      \* the sessions whose clients send chats
          None          \* no room, session or chat

ASSUME BroadcastAssumption ==
    /\ Senders \subseteq Sessions /\ IsFiniteSet(Sessions)
    /\ None \notin Sessions /\ None \notin Rooms

VARIABLES
    link,       \* "free", "connected", "closing" or "ended"
    inMap,      \* the session is in _account_sessions
    room,       \* _enter_room_id
    lock,       \* the session whose handler holds the manager's lock
    \* the running REQ_CHAT of a session
    pc, kind,   \* its next statement; "normal" or "all"
    todo,       \* the sessions its loop has still to visit
    chosen,     \* the receivers normal_chat has collected
    target,     \* the session it is sending to
    count,      \* the target_count of its ACK
    \* observation of a running chat
    got,        \* the sessions whose send queue took the message
    steady,     \* the sessions that were receivers since the chat began
    ever        \* the sessions that were receivers at some moment of the chat

userVars == <<link, inMap, room>>
chatVars == <<pc, kind, todo, chosen, target, count, got>>
vars == <<userVars, lock, chatVars, steady, ever>>

TypeOK ==
    /\ link \in [Sessions -> {"free", "connected", "closing", "ended"}]
    /\ inMap \subseteq Sessions
    /\ room \in [Sessions -> Rooms \cup {None}]
    /\ lock \in Sessions \cup {None}
    /\ pc \in [Sessions -> {"idle", "collect", "visit", "push", "ack"}]
    /\ kind \in [Sessions -> {"normal", "all", None}]
    /\ todo \in [Sessions -> SUBSET Sessions] /\ chosen \in [Sessions -> SUBSET Sessions]
    /\ target \in [Sessions -> Sessions \cup {None}]
    /\ count \in [Sessions -> 0..Cardinality(Sessions)]
    /\ got \in [Sessions -> SUBSET Sessions]
    /\ steady \in [Sessions -> SUBSET Sessions] /\ ever \in [Sessions -> SUBSET Sessions]

Init ==
    /\ link = [s \in Sessions |-> "free"] /\ inMap = {}
    /\ room = [s \in Sessions |-> None] /\ lock = None
    /\ pc = [s \in Sessions |-> "idle"] /\ kind = [s \in Sessions |-> None]
    /\ todo = [s \in Sessions |-> {}] /\ chosen = [s \in Sessions |-> {}]
    /\ target = [s \in Sessions |-> None] /\ count = [s \in Sessions |-> 0]
    /\ got = [s \in Sessions |-> {}]
    /\ steady = [s \in Sessions |-> {}] /\ ever = [s \in Sessions |-> {}]

-----------------------------------------------------------------------------
(* The other jobs of a session: they run while it does not chat *)

\* A job of a connected session that has no chat running.
Idle(s) == pc[s] = "idle" /\ link[s] = "connected"

Connect(s) ==
    /\ link[s] = "free" /\ lock = None
    /\ link' = [link EXCEPT ![s] = "connected"]
    /\ UNCHANGED <<inMap, room, lock, chatVars>>

\* REQ_LOGIN adds the session to the account map.
Login(s) ==
    /\ Idle(s) /\ s \notin inMap /\ lock = None
    /\ inMap' = inMap \cup {s}
    /\ UNCHANGED <<link, room, lock, chatVars>>

EnterRoom(s, r) ==
    /\ Idle(s) /\ s \in inMap /\ room[s] = None
    /\ room' = [room EXCEPT ![s] = r]
    /\ UNCHANGED <<link, inMap, lock, chatVars>>

ExitRoom(s) ==
    /\ pc[s] = "idle" /\ room[s] # None
    /\ room' = [room EXCEPT ![s] = None]
    /\ UNCHANGED <<link, inMap, lock, chatVars>>

\* REQ_LOGOUT and the cleanup leave the room first.
Logout(s) ==
    /\ pc[s] = "idle" /\ s \in inMap /\ room[s] = None /\ lock = None
    /\ inMap' = inMap \ {s}
    /\ UNCHANGED <<link, room, lock, chatVars>>

\* Any cause, at any time.
Disconnect(s) ==
    /\ link[s] = "connected"
    /\ link' = [link EXCEPT ![s] = "closing"]
    /\ UNCHANGED <<inMap, room, lock, chatVars>>

Erase(s) ==
    /\ pc[s] = "idle" /\ link[s] = "closing" /\ s \notin inMap /\ lock = None
    /\ link' = [link EXCEPT ![s] = "ended"]
    /\ UNCHANGED <<inMap, room, lock, chatVars>>

-----------------------------------------------------------------------------
(* normal_chat *)

\* The handler's checks and the head of normal_chat: the lock is taken.
NormalChat(s) ==
    /\ Idle(s) /\ s \in inMap /\ room[s] # None /\ lock = None
    /\ lock' = s
    /\ pc' = [pc EXCEPT ![s] = "collect"]
    /\ kind' = [kind EXCEPT ![s] = "normal"]
    /\ todo' = [todo EXCEPT ![s] = inMap]
    /\ UNCHANGED <<userVars, chosen, target, count, got>>

NormalReceiverAnywhere(s, t) == link[t] = "connected" /\ room[t] # None   \* Mutant

NormalReceiver(s, t) == link[t] = "connected" /\ room[t] = room[s]

\* One entry of the account map, under the lock.
Collect(s, t) ==
    /\ pc[s] = "collect" /\ t \in todo[s]
    /\ todo' = [todo EXCEPT ![s] = @ \ {t}]
    /\ chosen' = [chosen EXCEPT ![s] = IF NormalReceiver(s, t) THEN @ \cup {t} ELSE @]
    /\ UNCHANGED <<userVars, lock, pc, kind, target, count, got>>

\* The lock is released; the receivers are visited.
Collected(s) ==
    /\ pc[s] = "collect" /\ todo[s] = {}
    /\ lock' = None
    /\ pc' = [pc EXCEPT ![s] = "visit"]
    /\ todo' = [todo EXCEPT ![s] = chosen[s]]
    /\ UNCHANGED <<userVars, kind, chosen, target, count, got>>

-----------------------------------------------------------------------------
(* all_chat *)

\* The copy of the session set under the lock; the sender need not be in a room.
AllChat(s) ==
    /\ Idle(s) /\ s \in inMap /\ lock = None
    /\ pc' = [pc EXCEPT ![s] = "visit"]
    /\ kind' = [kind EXCEPT ![s] = "all"]
    /\ todo' = [todo EXCEPT ![s] = {t \in Sessions : link[t] \in {"connected", "closing"}}]
    /\ UNCHANGED <<userVars, lock, chosen, target, count, got>>

AllReceiver(t) == link[t] = "connected" /\ room[t] # None

BreakLoop(s, t) == {}   \* Mutant: break for continue

\* What is left after a session that is no receiver.
Continue(s, t) == todo[s] \ {t}

Skip(s, t) ==
    /\ pc[s] = "visit" /\ t \in todo[s]
    /\ kind[s] = "all" /\ ~AllReceiver(t)
    /\ todo' = [todo EXCEPT ![s] = Continue(s, t)]
    /\ UNCHANGED <<userVars, lock, pc, kind, chosen, target, count, got>>

-----------------------------------------------------------------------------
(* The sends of both *)

Visit(s, t) ==
    /\ pc[s] = "visit" /\ t \in todo[s]
    /\ kind[s] = "all" => AllReceiver(t)
    /\ todo' = [todo EXCEPT ![s] = @ \ {t}]
    /\ target' = [target EXCEPT ![s] = t]
    /\ pc' = [pc EXCEPT ![s] = "push"]
    /\ UNCHANGED <<userVars, lock, kind, chosen, count, got>>

\* Session::send queues the message, drops it when the session is disconnected
\* by now, or disconnects the session when its queue is full; it is counted in
\* every case.
Push(s) ==
    /\ pc[s] = "push"
    /\ \/ /\ link[target[s]] = "connected"
          /\ got' = [got EXCEPT ![s] = @ \cup {target[s]}]
          /\ UNCHANGED link
       \/ /\ link[target[s]] = "connected"
          /\ link' = [link EXCEPT ![target[s]] = "closing"]
          /\ UNCHANGED got
       \/ /\ link[target[s]] # "connected"
          /\ UNCHANGED <<link, got>>
    /\ count' = [count EXCEPT ![s] = @ + 1]
    /\ target' = [target EXCEPT ![s] = None]
    /\ pc' = [pc EXCEPT ![s] = "visit"]
    /\ UNCHANGED <<inMap, room, lock, kind, todo, chosen>>

Visited(s) ==
    /\ pc[s] = "visit" /\ todo[s] = {}
    /\ pc' = [pc EXCEPT ![s] = "ack"]
    /\ UNCHANGED <<userVars, lock, kind, todo, chosen, target, count, got>>

\* SEND_PACKET(ack_chat) and the end of the handler, whose count is local.
AckChat(s) ==
    /\ pc[s] = "ack"
    /\ pc' = [pc EXCEPT ![s] = "idle"]
    /\ kind' = [kind EXCEPT ![s] = None]
    /\ chosen' = [chosen EXCEPT ![s] = {}]
    /\ count' = [count EXCEPT ![s] = 0]
    /\ got' = [got EXCEPT ![s] = {}]
    /\ UNCHANGED <<userVars, lock, todo, target>>

-----------------------------------------------------------------------------

\* The sessions a chat is meant for: connected and in a room, for a normal chat
\* in the sender's room and in the account map.
Receivers(s) ==
    {t \in Sessions : /\ AllReceiver(t)
                      /\ kind[s] = "normal" => t \in inMap /\ room[t] = room[s]}

\* What the chat of each session has seen of its receivers so far.
Observe ==
    /\ steady' = [s \in Sessions |->
           IF pc'[s] = "idle" THEN {}
           ELSE IF pc[s] = "idle" THEN Receivers(s)' ELSE steady[s] \cap Receivers(s)']
    /\ ever' = [s \in Sessions |->
           IF pc'[s] = "idle" THEN {} ELSE ever[s] \cup Receivers(s)']

Job(s) ==
    \/ Connect(s) \/ Login(s) \/ ExitRoom(s) \/ Logout(s) \/ Disconnect(s) \/ Erase(s)
    \/ \E r \in Rooms : EnterRoom(s, r)

Chat(s) ==
    \/ NormalChat(s) \/ Collected(s) \/ AllChat(s) \/ Push(s) \/ Visited(s) \/ AckChat(s)
    \/ \E t \in Sessions : Collect(s, t) \/ Skip(s, t) \/ Visit(s, t)

\* Every connection has come and gone.
AllEnded ==
    /\ \A s \in Sessions : link[s] = "ended"
    /\ UNCHANGED <<userVars, lock, chatVars>>

Next ==
    /\ AllEnded \/ (\E s \in Sessions : Job(s)) \/ (\E s \in Senders : Chat(s))
    /\ Observe

Spec == Init /\ [][Next]_vars

-----------------------------------------------------------------------------
(* Properties *)

\* When the ACK is built, every session that was a receiver during the whole
\* chat has the message in its send queue, the sender included: the snapshot
\* misses nobody and no concurrent departure ends the loop early.
ReceiversReached == \A s \in Sessions : pc[s] = "ack" => steady[s] \subseteq got[s]

\* A chat reaches nobody who was not a receiver at some moment of it: a room's
\* chat does not leak into another room, although the sends follow the filter.
NoStranger == \A s \in Sessions : got[s] \subseteq ever[s]
=============================================================================
