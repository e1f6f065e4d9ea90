------------------------------ MODULE GameState ------------------------------
(***************************************************************************)
(* The shared state of the game server and the packet handlers that change *)
(* it: Login (accounts and who is logged in), RoomManager and Room,        *)
(* SessionManager (the session set, the account and the name map).         *)
(*                                                                         *)
(* The jobs of one session run one at a time (module JobQueue), so a       *)
(* session is in at most one handler, at the statement pc[s]; handlers of  *)
(* different sessions interleave, and a disconnect may come at any time    *)
(* (module Session), which queues the cleanup after the running handler.   *)
(* A step is one critical section of Login, of a Room or of SessionManager *)
(* together with the session's own fields, which only its jobs touch; the  *)
(* room id, read by other sessions, is stored in a step of its own.        *)
(*                                                                         *)
(* Requests that are refused for the form of their text (empty or too long *)
(* id, name or message) change nothing and are left out.                   *)
(***************************************************************************)
EXTENDS Integers, FiniteSets

CONSTANTS Sessions,     \* GameSession objects
          Ids,          \* login ids; the account number stands for the id
          Names,        \* user names
          Rooms,        \* room ids
          MaxSessions,  \* session_max_count
          RoomSize,     \* _room_size
          None          \* no session, account, name or room

ASSUME GameStateAssumption ==
    /\ IsFiniteSet(Sessions) /\ IsFiniteSet(Ids)
    /\ MaxSessions \in Nat \ {0} /\ RoomSize \in Nat \ {0}
    /\ None \notin Sessions \cup Ids \cup Names \cup Rooms
    /\ Rooms \cap {"unknown", "offline", "lobby"} = {}

VARIABLES
    \* Login
    userName,         \* userName[id]: the name of the account, None: no account
    loginList,        \* _login_list
    \* Room
    roomList,         \* roomList[r][id]: the session of account id in room r
    roomCount,        \* roomCount[r]: _room_cur_count
    \* SessionManager
    sessions, sessionCount, accountSessions, nameSessions,
    \* GameSession
    link,             \* "free", "joining", "connected" or "closing"
    isLogin, account, name, room,
    \* the running handler of a session
    pc, arg,          \* its next statement and the request's argument
    result            \* the result in the ACK being sent

loginVars   == <<userName, loginList>>
roomVars    == <<roomList, roomCount>>
managerVars == <<sessions, sessionCount, accountSessions, nameSessions>>
userVars    == <<isLogin, account, name>>
vars == <<loginVars, roomVars, managerVars, link, userVars, room, pc, arg, result>>

Labels == {"idle", "ack", "liAccount", "liName",
           "loRoom", "loLogout", "loAccount", "loName", "enSet", "exSet", "whisper",
           "clRoom", "clLogin", "clAccount", "clName", "clErase"}

TypeOK ==
    /\ userName \in [Ids -> Names \cup {None}] /\ loginList \subseteq Ids
    /\ roomList \in [Rooms -> [Ids -> Sessions \cup {None}]]
    /\ roomCount \in [Rooms -> 0..RoomSize]
    /\ sessions \subseteq Sessions /\ sessionCount \in Int
    /\ accountSessions \in [Ids -> Sessions \cup {None}]
    /\ nameSessions \in [Names -> Sessions \cup {None}]
    /\ link \in [Sessions -> {"free", "joining", "connected", "closing"}]
    /\ isLogin \in [Sessions -> BOOLEAN]
    /\ account \in [Sessions -> Ids \cup {None}]
    /\ name \in [Sessions -> Names \cup {None}]
    /\ room \in [Sessions -> Rooms \cup {None}]
    /\ pc \in [Sessions -> Labels]
    /\ arg \in [Sessions -> Ids \cup Names \cup Rooms \cup {None}]
    /\ result \in [Sessions -> {"none", "ok", "empty", "fail", "notTarget"}]

Init ==
    /\ userName = [id \in Ids |-> None] /\ loginList = {}
    /\ roomList = [r \in Rooms |-> [id \in Ids |-> None]]
    /\ roomCount = [r \in Rooms |-> 0]
    /\ sessions = {} /\ sessionCount = 0
    /\ accountSessions = [id \in Ids |-> None] /\ nameSessions = [n \in Names |-> None]
    /\ link = [s \in Sessions |-> "free"]
    /\ isLogin = [s \in Sessions |-> FALSE]
    /\ account = [s \in Sessions |-> None] /\ name = [s \in Sessions |-> None]
    /\ room = [s \in Sessions |-> None]
    /\ pc = [s \in Sessions |-> "idle"] /\ arg = [s \in Sessions |-> None]
    /\ result = [s \in Sessions |-> "none"]

-----------------------------------------------------------------------------
(* Control of a handler *)

Step(s, from, to) ==
    /\ pc[s] = from
    /\ pc' = [pc EXCEPT ![s] = to]
    /\ UNCHANGED <<arg, result>>

\* A packet job starts; it is skipped when the session is not connected.
Begins(s) == pc[s] = "idle" /\ link[s] = "connected"

Goto(s, to, a) ==
    /\ pc' = [pc EXCEPT ![s] = to]
    /\ arg' = [arg EXCEPT ![s] = a]
    /\ UNCHANGED result

Ack(s, res) ==
    /\ pc' = [pc EXCEPT ![s] = "ack"]
    /\ result' = [result EXCEPT ![s] = res]
    /\ UNCHANGED arg

\* SEND_PACKET and the end of the handler.
EndHandler(s) ==
    /\ pc[s] = "ack"
    /\ pc' = [pc EXCEPT ![s] = "idle"]
    /\ arg' = [arg EXCEPT ![s] = None]
    /\ result' = [result EXCEPT ![s] = "none"]
    /\ UNCHANGED <<loginVars, roomVars, managerVars, link, userVars, room>>

-----------------------------------------------------------------------------
(* Connections: SessionManager::add_session, process_connect, disconnect *)

\* No shared_ptr to the session is left in the shared maps: the object is a
\* new one.
Unreferenced(s) ==
    /\ s \notin sessions
    /\ \A id \in Ids : accountSessions[id] # s /\ \A r \in Rooms : roomList[r][id] # s
    /\ \A n \in Names : nameSessions[n] # s

OneTooMany == sessionCount <= MaxSessions   \* Mutant

HasPlace == sessionCount < MaxSessions

AddSession(s) ==
    /\ link[s] = "free" /\ Unreferenced(s)
    /\ HasPlace
    /\ sessions' = sessions \cup {s}
    /\ sessionCount' = sessionCount + 1
    /\ link' = [link EXCEPT ![s] = "joining"]
    /\ UNCHANGED <<loginVars, roomVars, accountSessions, nameSessions, userVars, room,
                   pc, arg, result>>

ProcessConnect(s) ==
    /\ link[s] = "joining"
    /\ link' = [link EXCEPT ![s] = "connected"]
    /\ UNCHANGED <<loginVars, roomVars, managerVars, userVars, room, pc, arg, result>>

\* The peer, the heartbeat or a send error ends the connection at any time.
Disconnect(s) ==
    /\ link[s] = "connected"
    /\ link' = [link EXCEPT ![s] = "closing"]
    /\ UNCHANGED <<loginVars, roomVars, managerVars, userVars, room, pc, arg, result>>

\* A handler finds the wrong login state (a login when logged in, anything else
\* when not) and disconnects the session.
Refuse(s) ==
    /\ Begins(s)
    /\ link' = [link EXCEPT ![s] = "closing"]
    /\ UNCHANGED <<loginVars, roomVars, managerVars, userVars, room, pc, arg, result>>

-----------------------------------------------------------------------------
(* REQ_LOGIN, REQ_BOT_LOGIN *)

\* Login::create_account: the id and the name are new.
CreateAccount(id, n) ==
    /\ userName[id] = None /\ \A i \in Ids : userName[i] # n
    /\ userName' = [userName EXCEPT ![id] = n]
    /\ loginList' = loginList \cup {id}

AnyAccount(id) == userName[id] # None   \* Mutant

MayLogin(id) == userName[id] # None /\ id \notin loginList

\* Login::login with the right password.
LoginAccount(id) ==
    /\ MayLogin(id)
    /\ loginList' = loginList \cup {id}
    /\ UNCHANGED userName

LoginSucceeds(s, id) ==
    /\ Begins(s) /\ ~isLogin[s]
    /\ LoginAccount(id) \/ \E n \in Names : CreateAccount(id, n)
    /\ isLogin' = [isLogin EXCEPT ![s] = TRUE]
    /\ account' = [account EXCEPT ![s] = id]
    /\ name' = [name EXCEPT ![s] = userName'[id]]
    /\ Goto(s, "liAccount", None)
    /\ UNCHANGED <<roomVars, managerVars, link, room>>

\* No such account, a wrong password, already logged in, a taken id or name.
LoginFails(s) ==
    /\ Begins(s) /\ ~isLogin[s]
    /\ Ack(s, "fail")
    /\ UNCHANGED <<loginVars, roomVars, managerVars, link, userVars, room>>

HandleLogin(s) == (\E id \in Ids : LoginSucceeds(s, id)) \/ LoginFails(s)

\* The handler of the load-test clients does the same.
HandleBotLogin(s) == HandleLogin(s)

\* SessionManager's maps are written with operator[]: the newer session wins.
Registered(map, k, s) == [map EXCEPT ![k] = s]

AddAccountSession(s) ==
    /\ Step(s, "liAccount", "liName")
    /\ accountSessions' = Registered(accountSessions, account[s], s)
    /\ UNCHANGED <<loginVars, roomVars, sessions, sessionCount, nameSessions,
                   link, userVars, room>>

AddNameSession(s) ==
    /\ pc[s] = "liName"
    /\ nameSessions' = Registered(nameSessions, name[s], s)
    /\ Ack(s, "ok")
    /\ UNCHANGED <<loginVars, roomVars, sessions, sessionCount, accountSessions,
                   link, userVars, room>>

-----------------------------------------------------------------------------
(* Rooms: REQ_ENTER_ROOM, REQ_EXIT_ROOM, REQ_GET_ROOM_INFO *)

RoomFull(r) == RoomSize <= roomCount[r]

\* Room::enter_user and Room::exit_user succeed.
EnterUser(r, id, s) ==
    /\ ~RoomFull(r) /\ roomList[r][id] = None
    /\ roomList' = [roomList EXCEPT ![r][id] = s]
    /\ roomCount' = [roomCount EXCEPT ![r] = @ + 1]

InRoom(r, id) == r # None /\ roomList[r][id] # None

ExitUser(r, id) ==
    IF InRoom(r, id)
    THEN /\ roomList' = [roomList EXCEPT ![r][id] = None]
         /\ roomCount' = [roomCount EXCEPT ![r] = @ - 1]
    ELSE UNCHANGED roomVars

Anywhere(s) == TRUE   \* Mutant

InNoRoom(s) == room[s] = None

EnterRoom(s, r) ==
    /\ Begins(s) /\ isLogin[s] /\ InNoRoom(s)
    /\ EnterUser(r, account[s], s)
    /\ Goto(s, "enSet", r)
    /\ UNCHANGED <<loginVars, managerVars, link, userVars, room>>

\* The session is in a room, or the room does not exist or refuses.
EnterRoomFails(s) ==
    /\ Begins(s) /\ isLogin[s]
    /\ Ack(s, "fail")
    /\ UNCHANGED <<loginVars, roomVars, managerVars, link, userVars, room>>

SetRoomId(s) ==
    /\ pc[s] = "enSet"
    /\ room' = [room EXCEPT ![s] = arg[s]]
    /\ Ack(s, "ok")
    /\ UNCHANGED <<loginVars, roomVars, managerVars, link, userVars>>

ExitRoom(s) ==
    /\ Begins(s) /\ isLogin[s]
    /\ ExitUser(room[s], account[s])
    /\ IF InRoom(room[s], account[s]) THEN Goto(s, "exSet", None) ELSE Ack(s, "fail")
    /\ UNCHANGED <<loginVars, managerVars, link, userVars, room>>

ClearRoomId(s) ==
    /\ pc[s] = "exSet"
    /\ room' = [room EXCEPT ![s] = None]
    /\ Ack(s, "ok")
    /\ UNCHANGED <<loginVars, roomVars, managerVars, link, userVars>>

GetRoomInfo(s) ==
    /\ Begins(s) /\ isLogin[s]
    /\ Ack(s, "ok")
    /\ UNCHANGED <<loginVars, roomVars, managerVars, link, userVars, room>>

-----------------------------------------------------------------------------
(* REQ_LOGOUT, and the first statements of the cleanup *)

\* The room is left before the account can be logged in again.
LeaveRoomFirst(s, leaving, left) ==
    /\ ExitUser(room[s], account[s])
    /\ Goto(s, IF room[s] # None THEN leaving ELSE left, None)
    /\ UNCHANGED <<loginVars, managerVars, link, userVars, room>>

RoomLeft(s, leaving, left) ==
    /\ Step(s, leaving, left)
    /\ room' = [room EXCEPT ![s] = None]
    /\ UNCHANGED <<loginVars, roomVars, managerVars, link, userVars>>

Whoever(map, k, s) == k # None   \* Mutant

\* Only the session that is registered releases a registration.
Owns(map, k, s) == k # None /\ map[k] = s

Released(map, k, s) == IF Owns(map, k, s) THEN [map EXCEPT ![k] = None] ELSE map

\* release_logout_session and release_name_session.
ReleaseAccount(s, from, to) ==
    /\ Step(s, from, to)
    /\ accountSessions' = Released(accountSessions, account[s], s)
    /\ UNCHANGED <<loginVars, roomVars, sessions, sessionCount, nameSessions,
                   link, userVars, room>>

ReleaseName(s) ==
    /\ nameSessions' = Released(nameSessions, name[s], s)
    /\ UNCHANGED <<loginVars, roomVars, sessions, sessionCount, accountSessions, link, room>>

LogoutStart(s) ==
    /\ Begins(s) /\ isLogin[s]
    /\ LeaveRoomFirst(s, "loRoom", "loLogout")

LogoutRoom(s) == RoomLeft(s, "loRoom", "loLogout")

\* GLogin->logout; when the account is not in the login list the ACK fails.
LogoutAccount(s) ==
    /\ pc[s] = "loLogout"
    /\ loginList' = loginList \ {account[s]}
    /\ IF account[s] \in loginList THEN Goto(s, "loAccount", None) ELSE Ack(s, "fail")
    /\ UNCHANGED <<userName, roomVars, managerVars, link, userVars, room>>

LogoutReleaseAccount(s) == ReleaseAccount(s, "loAccount", "loName")

LogoutEnd(s) ==
    /\ pc[s] = "loName"
    /\ ReleaseName(s)
    /\ isLogin' = [isLogin EXCEPT ![s] = FALSE]
    /\ account' = [account EXCEPT ![s] = None]
    /\ name' = [name EXCEPT ![s] = None]
    /\ Ack(s, "ok")

-----------------------------------------------------------------------------
(* REQ_CHAT: room chat and whisper *)

\* normal_chat: the receivers come from the account map, not from the Room.
ChatTargets(r) ==
    {t \in {accountSessions[id] : id \in Ids} \ {None} :
        link[t] = "connected" /\ room[t] = r}

NormalChat(s, r) ==
    /\ Begins(s) /\ isLogin[s]
    /\ Ack(s, IF room[s] # r THEN "fail" ELSE IF ChatTargets(r) = {} THEN "empty" ELSE "ok")
    /\ UNCHANGED <<loginVars, roomVars, managerVars, link, userVars, room>>

\* is_whisper_target_find
WhisperFind(s, n) ==
    /\ Begins(s) /\ isLogin[s]
    /\ IF nameSessions[n] = None THEN Ack(s, "notTarget") ELSE Goto(s, "whisper", n)
    /\ UNCHANGED <<loginVars, roomVars, managerVars, link, userVars, room>>

\* whisper_chat looks the name up again; its count goes into a successful ACK.
WhisperChat(s) ==
    /\ pc[s] = "whisper"
    /\ LET t == nameSessions[arg[s]] IN
        Ack(s, IF t = None \/ link[t] # "connected" THEN "empty" ELSE "ok")
    /\ UNCHANGED <<loginVars, roomVars, managerVars, link, userVars, room>>

-----------------------------------------------------------------------------
(* The cleanup job of a closed connection *)

LogoutFirst(s) == Goto(s, "clLogin", None)   \* Mutant
                  /\ UNCHANGED <<loginVars, roomVars, managerVars, link, userVars, room>>

LeaveRoomOnDisconnect(s) == LeaveRoomFirst(s, "clRoom", "clLogin")

CleanupStart(s) ==
    /\ pc[s] = "idle" /\ link[s] = "closing"
    /\ LeaveRoomOnDisconnect(s)

CleanupRoom(s) == RoomLeft(s, "clRoom", "clLogin")

\* GLogin->logout when _is_login was set.
LoggedOut(s) == IF isLogin[s] THEN loginList \ {account[s]} ELSE loginList

CleanupLogin(s) ==
    /\ Step(s, "clLogin", "clAccount")
    /\ loginList' = LoggedOut(s)
    /\ isLogin' = [isLogin EXCEPT ![s] = FALSE]
    /\ UNCHANGED <<userName, roomVars, managerVars, link, account, name, room>>

CleanupReleaseAccount(s) == ReleaseAccount(s, "clAccount", "clName")

CleanupName(s) == ReleaseName(s)

CleanupReleaseName(s) ==
    /\ Step(s, "clName", "clErase")
    /\ CleanupName(s)
    /\ UNCHANGED userVars

\* The session leaves the session set; its fields are reset and it is gone.
CleanupErase(s) ==
    /\ Step(s, "clErase", "idle")
    /\ sessions' = sessions \ {s}
    /\ sessionCount' = IF s \in sessions THEN sessionCount - 1 ELSE sessionCount
    /\ account' = [account EXCEPT ![s] = None]
    /\ name' = [name EXCEPT ![s] = None]
    /\ room' = [room EXCEPT ![s] = None]
    /\ link' = [link EXCEPT ![s] = "free"]
    /\ UNCHANGED <<loginVars, roomVars, accountSessions, nameSessions, isLogin>>

-----------------------------------------------------------------------------
(* The next-state relation *)

Request(s) ==
    \/ HandleLogin(s) \/ HandleBotLogin(s) \/ LogoutStart(s)
    \/ \E r \in Rooms : EnterRoom(s, r) \/ NormalChat(s, r)
    \/ EnterRoomFails(s) \/ ExitRoom(s) \/ GetRoomInfo(s)
    \/ \E n \in Names : WhisperFind(s, n)
    \/ Refuse(s)

Continue(s) ==
    \/ EndHandler(s)
    \/ AddAccountSession(s) \/ AddNameSession(s)
    \/ SetRoomId(s) \/ ClearRoomId(s)
    \/ LogoutRoom(s) \/ LogoutAccount(s) \/ LogoutReleaseAccount(s) \/ LogoutEnd(s)
    \/ WhisperChat(s)
    \/ CleanupStart(s) \/ CleanupRoom(s) \/ CleanupLogin(s)
    \/ CleanupReleaseAccount(s) \/ CleanupReleaseName(s) \/ CleanupErase(s)

Next ==
    \E s \in Sessions :
        AddSession(s) \/ ProcessConnect(s) \/ Disconnect(s) \/ Request(s) \/ Continue(s)

Spec == Init /\ [][Next]_vars

-----------------------------------------------------------------------------
(* Properties *)

\* s is logged in as id, from Login's answer until Login::logout.
Holds(s, id) ==
    isLogin[s] /\ account[s] = id /\ pc[s] \notin {"loAccount", "loName"}

\* An account in _login_list is held by exactly one session, and one that is not
\* in it by none: Login::login refuses the second login (Login.cpp:47), and every
\* way a session ends, whatever it interrupts, gives the account back once.
LoginExclusive ==
    \A id \in Ids :
        Cardinality({s \in Sessions : Holds(s, id)}) = IF id \in loginList THEN 1 ELSE 0

\* The rooms and the sessions agree: a room lists exactly the sessions whose room
\* id names it, apart from the one statement between the two updates, only while
\* they hold their account, and counts them. So an account that logs in again
\* never finds its former session in a room (GameSession.cpp:23).
RoomConsistent ==
    /\ \A r \in Rooms : roomCount[r] = Cardinality({id \in Ids : roomList[r][id] # None})
    /\ \A r \in Rooms, id \in Ids : LET s == roomList[r][id] IN
        s # None => Holds(s, id) /\ (room[s] = r \/ (pc[s] = "enSet" /\ arg[s] = r))
    /\ \A s \in Sessions :
        room[s] # None /\ pc[s] \notin {"exSet", "loRoom", "clRoom"}
            => roomList[room[s]][account[s]] = s

\* Once the login handler has registered it, the holder of an account is the
\* session both maps of SessionManager lead to, even though the cleanup of a former
\* session of the same account may run after the login (SessionManager.cpp:79).
HolderRegistered ==
    \A s \in Sessions : Holds(s, account[s]) /\ pc[s] # "liAccount" =>
        /\ accountSessions[account[s]] = s
        /\ pc[s] # "liName" => nameSessions[name[s]] = s

\* A session whose cleanup has run is in no map, no room and not in the session
\* set, and no map leads to a session with another account or name.
NoStaleReference ==
    /\ \A s \in Sessions : link[s] = "free" => Unreferenced(s)
    /\ \A id \in Ids : accountSessions[id] # None => account[accountSessions[id]] = id
    /\ \A n \in Names : nameSessions[n] # None => name[nameSessions[n]] = n

\* The account and the name map lead to every session they should lead to and to
\* no other, whichever session of an account registers or releases last.
MapsConsistent == HolderRegistered /\ NoStaleReference

\* _session_count is the number of sessions that were admitted and not cleaned up,
\* and never exceeds the limit add_session checks (SessionManager.cpp:21).
CapacityRespected ==
    /\ sessions = {s \in Sessions : link[s] # "free"}
    /\ sessionCount = Cardinality(sessions) /\ sessionCount <= MaxSessions

\* Room chat selects its receivers from the account map, yet reaches exactly the
\* connected members of the Room, apart from those entering or leaving it.
ChatReachesRoom ==
    \A r \in Rooms, s \in Sessions :
        LET member == account[s] # None /\ roomList[r][account[s]] = s IN
        /\ member /\ link[s] = "connected" /\ pc[s] # "enSet" => s \in ChatTargets(r)
        /\ s \in ChatTargets(r) => member \/ pc[s] \in {"exSet", "loRoom"}

\* What the server promises about each account, seen through its data structures.
Accounts == INSTANCE Presence WITH presence <-
    [id \in Ids |->
        IF userName[id] = None THEN "unknown"
        ELSE IF id \notin loginList THEN "offline"
        ELSE IF \E r \in Rooms : roomList[r][id] # None
             THEN CHOOSE r \in Rooms : roomList[r][id] # None
             ELSE "lobby"]

\* Every step of the handlers changes the presence of at most one account, in one
\* of the ways module Presence allows.
ImplementsPresence == Accounts!Spec

\* docs/packet-flow.md: a whisper whose target is not found is answered with
\* CHAT_ERROR_NOT_TARGET. Handle_REQ_CHAT decides with a first lookup and sends
\* with a second one.
WhisperAnswer ==
    [][\A s \in Sessions :
        pc[s] = "whisper" /\ pc'[s] = "ack" /\ nameSessions[arg[s]] = None
            => result'[s] = "notTarget"]_vars
=============================================================================
