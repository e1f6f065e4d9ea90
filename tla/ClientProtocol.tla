---------------------------- MODULE ClientProtocol ----------------------------
(***************************************************************************)
(* What a test client's session believes about itself and what the server  *)
(* holds about it: the login and room requests of TestSession, the         *)
(* handlers of the answers in ClientPacketHandler, and the server's answer *)
(* to each request.                                                        *)
(*                                                                         *)
(* A critical section of _send_lock is one step.  User threads call the    *)
(* session's operations, thread "io" handles received packets one at a     *)
(* time.  The two directions of the connection are channels of whole       *)
(* packets (module Framing).  The server runs a session's handlers one at  *)
(* a time (module JobQueue), so a request is answered in one step; what    *)
(* other clients do shows as a refusal for reasons of their own.           *)
(***************************************************************************)
EXTENDS Sequences, FiniteSets, Naturals

CONSTANTS Users,    \* threads that call the session
          Rooms,
          None

ASSUME ClientProtocolAssumption ==
    IsFiniteSet(Users) /\ "io" \notin Users /\ None \notin Rooms

VARIABLES
    manual,        \* GClientMode = MANUAL: one user, who waits for the login
    \* TestSession
    conn,          \* _is_connect
    isLogin, room, \* _is_login and _account_idx; _room_id
    loginPending, roomRequest,
    \* its threads
    pc, arg,       \* next statement; the request or the received packet
    \* the connection
    toServer, toClient,
    \* the server's GameSession
    srvOpen, srvLogin, srvRoom

clientVars  == <<conn, isLogin, room, loginPending, roomRequest>>
threadVars  == <<pc, arg>>
serverVars  == <<srvOpen, srvLogin, srvRoom>>
vars == <<manual, clientVars, threadVars, toServer, toClient, serverVars>>

Threads == Users \cup {"io"}
Logins  == {"login", "botCreate", "botLogin"}

Packet(type, result, r) == [type |-> type, result |-> result, room |-> r]
NoPacket == Packet("none", "none", None)

Packets == [type : Logins \cup {"bot", "enter", "exit", "logout", "full", "none"},
            result : {"none", "ok", "hasAccount", "fail"}, room : Rooms \cup {None}]

UserLabels == {"idle", "sendLogin", "undoLogin", "sendEnter", "undoEnter", "sendExit", "undoExit",
               "waitLogin", "waitEnd", "stopped"}

\* The thread that handles packets never waits for one.
IoLabels == {"idle", "handle", "retry", "drop", "sendLogin", "undoLogin"}

TypeOK ==
    /\ manual \in BOOLEAN /\ conn \in BOOLEAN /\ isLogin \in BOOLEAN /\ room \in Rooms \cup {None}
    /\ loginPending \in BOOLEAN /\ roomRequest \in {"none", "enter", "exit"}
    /\ \A u \in Users : pc[u] \in UserLabels
    /\ pc["io"] \in IoLabels /\ DOMAIN pc = Threads /\ arg \in [Threads -> Packets]
    /\ toServer \in Seq(Packets) /\ toClient \in Seq(Packets)
    /\ srvOpen \in BOOLEAN /\ srvLogin \in BOOLEAN /\ srvRoom \in Rooms \cup {None}

\* The client is connected and has started to receive; a full server has sent
\* ACK_SERVER_FULL and closed.  In a load test any number of threads may call the
\* session, whose lock is there for that (main gives it one bot thread); the
\* session of a manual client has one thread, with its login timeout and /q.
Init ==
    /\ conn = TRUE /\ isLogin = FALSE /\ room = None
    /\ loginPending = FALSE /\ roomRequest = "none"
    /\ \/ manual = FALSE /\ pc = [t \in Threads |-> "idle"]
       \/ /\ manual = TRUE
          /\ \E u \in Users :
                 pc = [t \in Threads |-> IF t \in {u, "io"} THEN "idle" ELSE "stopped"]
    /\ arg = [t \in Threads |-> NoPacket]
    /\ toServer = <<>>
    /\ srvLogin = FALSE /\ srvRoom = None
    /\ \/ srvOpen = TRUE /\ toClient = <<>>
       \/ srvOpen = FALSE /\ toClient = <<Packet("full", "none", None)>>

Goto(t, to, a) ==
    /\ pc' = [pc EXCEPT ![t] = to]
    /\ arg' = [arg EXCEPT ![t] = a]

-----------------------------------------------------------------------------
(* The critical sections of TestSession *)

\* disconnect: the first one resets the session's state.
Disconnect ==
    /\ conn' = FALSE /\ isLogin' = FALSE /\ room' = None
    /\ loginPending' = FALSE /\ roomRequest' = "none"

MayLoginTwice == conn /\ ~isLogin   \* Mutant: a pending login does not stop another

MayBeginLogin == conn /\ ~isLogin /\ ~loginPending

BeginLogin(t, type) ==
    IF MayBeginLogin
    THEN /\ loginPending' = TRUE
         /\ Goto(t, "sendLogin", Packet(type, "none", None))
         /\ UNCHANGED <<conn, isLogin, room, roomRequest>>
    ELSE Goto(t, "idle", NoPacket) /\ UNCHANGED clientVars

LoginAfter(success) == IF conn THEN success ELSE isLogin

CompleteLogin(success) ==
    /\ isLogin' = LoginAfter(success)
    /\ loginPending' = FALSE
    /\ UNCHANGED <<conn, room, roomRequest>>

EnterOnly(success, r) == IF conn /\ success /\ room = None THEN r ELSE room   \* Mutant

RoomAfter(success, r) == IF conn /\ success THEN r ELSE room

KeptOnFailure(success) == IF success THEN "none" ELSE roomRequest   \* Mutant

RequestAfter(success) == "none"

\* complete_enter_room and complete_exit_room: an answer no request waits for is
\* ignored.
CompleteRoom(request, success, r) ==
    /\ IF roomRequest = request
       THEN room' = RoomAfter(success, r) /\ roomRequest' = RequestAfter(success)
       ELSE UNCHANGED <<room, roomRequest>>
    /\ UNCHANGED <<conn, isLogin, loginPending>>

-----------------------------------------------------------------------------
(* The user threads *)

\* login of the manual client, test_login of a bot.
Login(u) ==
    /\ pc[u] = "idle"
    /\ BeginLogin(u, IF manual THEN "login" ELSE "botCreate")
    /\ UNCHANGED <<toServer, toClient, serverVars, manual>>

SendEnterRoom(u, r) ==
    /\ pc[u] = "idle"
    /\ conn /\ isLogin /\ room = None /\ roomRequest = "none"
    /\ roomRequest' = "enter"
    /\ Goto(u, "sendEnter", Packet("enter", "none", r))
    /\ UNCHANGED <<conn, isLogin, room, loginPending, toServer, toClient, serverVars, manual>>

SendExitRoom(u) ==
    /\ pc[u] = "idle"
    /\ conn /\ isLogin /\ room # None /\ roomRequest = "none"
    /\ roomRequest' = "exit"
    /\ Goto(u, "sendExit", Packet("exit", "none", None))
    /\ UNCHANGED <<conn, isLogin, room, loginPending, toServer, toClient, serverVars, manual>>

\* Where a thread goes on when its packet was queued, and when it was not.
Sent(from) == IF from = "sendLogin" /\ manual THEN "waitLogin" ELSE "idle"

Unsent(from) == CASE from = "sendLogin" -> "undoLogin"
                  [] from = "sendEnter" -> "undoEnter"
                  [] from = "sendExit"  -> "undoExit"

\* send of the packet a thread has prepared.  When register_send fails, send returns
\* false as well, but has disconnected before: nothing is left to take back, and the
\* packet is lost like any other of a lost connection.
SendPacket(t) ==
    /\ pc[t] \in {"sendLogin", "sendEnter", "sendExit"}
    /\ toServer' = IF conn THEN Append(toServer, arg[t]) ELSE toServer
    /\ Goto(t, IF conn THEN Sent(pc[t]) ELSE Unsent(pc[t]), NoPacket)
    /\ UNCHANGED <<clientVars, toClient, serverVars, manual>>

\* The request is taken back.
Undo(t) ==
    /\ \/ pc[t] = "undoLogin" /\ CompleteLogin(FALSE)
       \/ pc[t] = "undoEnter" /\ CompleteRoom("enter", FALSE, None)
       \/ pc[t] = "undoExit"  /\ CompleteRoom("exit", FALSE, None)
    /\ Goto(t, "idle", NoPacket)
    /\ UNCHANGED <<toServer, toClient, serverVars, manual>>

\* wait_for_login comes back; on a timeout the client disconnects.
LoginAnswered(u) ==
    /\ pc[u] = "waitLogin" /\ (~loginPending \/ ~conn)
    /\ Goto(u, "idle", NoPacket)
    /\ UNCHANGED <<clientVars, toServer, toClient, serverVars, manual>>

LoginTimeout(u) ==
    /\ pc[u] = "waitLogin" /\ loginPending /\ conn
    /\ Disconnect
    /\ Goto(u, "idle", NoPacket)
    /\ UNCHANGED <<toServer, toClient, serverVars, manual>>

\* The condition of the command loop.
TakesCommands == conn /\ isLogin

\* /q: logout, then wait_for_disconnect.
Logout(u) ==
    /\ manual /\ pc[u] = "idle" /\ TakesCommands
    /\ toServer' = Append(toServer, Packet("logout", "none", None))
    /\ Goto(u, "waitEnd", NoPacket)
    /\ UNCHANGED <<clientVars, toClient, serverVars, manual>>

\* ClientServer::stop, after the wait or without one.
Stop(u) ==
    /\ pc[u] \in {"idle", "waitEnd"}
    /\ Disconnect
    /\ Goto(u, "stopped", NoPacket)
    /\ UNCHANGED <<toServer, toClient, serverVars, manual>>

-----------------------------------------------------------------------------
(* The thread that handles received packets *)

\* process_recv looks at the connection, then handles the packet.
TakePacket ==
    /\ pc["io"] = "idle" /\ conn /\ toClient # <<>>
    /\ Goto("io", "handle", Head(toClient))
    /\ toClient' = Tail(toClient)
    /\ UNCHANGED <<clientVars, toServer, serverVars, manual>>

\* ACK_LOGIN and ACK_BOT_LOGIN: a bot whose account exists logs in to it, and
\* one that is refused disconnects.
HandleLogin ==
    LET p == arg["io"] IN
    /\ pc["io"] = "handle" /\ p.type \in {"login", "bot"}
    /\ CompleteLogin(p.result = "ok")
    /\ Goto("io", CASE p.type = "login" \/ p.result = "ok" -> "idle"
                    [] p.type = "bot" /\ p.result = "hasAccount" -> "retry"
                    [] p.type = "bot" /\ p.result = "fail" -> "drop", NoPacket)
    /\ UNCHANGED <<toServer, toClient, serverVars, manual>>

RetryLogin ==
    /\ pc["io"] = "retry"
    /\ BeginLogin("io", "botLogin")
    /\ UNCHANGED <<toServer, toClient, serverVars, manual>>

HandleRoom ==
    LET p == arg["io"] IN
    /\ pc["io"] = "handle" /\ p.type \in {"enter", "exit"}
    /\ CompleteRoom(p.type, p.result = "ok", p.room)
    /\ Goto("io", "idle", NoPacket)
    /\ UNCHANGED <<toServer, toClient, serverVars, manual>>

\* ACK_LOGOUT and ACK_SERVER_FULL end the connection, the latter after it has
\* cleared the login outside the lock.
HandleEnd ==
    /\ pc["io"] = "handle" /\ arg["io"].type \in {"logout", "full"}
    /\ isLogin' = (isLogin /\ arg["io"].type # "full")
    /\ Goto("io", "drop", NoPacket)
    /\ UNCHANGED <<conn, room, loginPending, roomRequest, toServer, toClient, serverVars, manual>>

Drop ==
    /\ pc["io"] = "drop"
    /\ Disconnect
    /\ Goto("io", "idle", NoPacket)
    /\ UNCHANGED <<toServer, toClient, serverVars, manual>>

\* The receive completes with zero bytes or an error: the server has closed.
\* Packets still on the way may be lost.
PeerClosed ==
    /\ pc["io"] = "idle" /\ conn /\ ~srvOpen
    /\ Disconnect
    /\ toClient' = <<>>
    /\ UNCHANGED <<threadVars, toServer, serverVars, manual>>

-----------------------------------------------------------------------------
(* The server's side of the session *)

Answer(type, result, r) == toClient' = Append(toClient, Packet(type, result, r))

\* Handle_REQ_LOGIN and Handle_REQ_BOT_LOGIN.  A session that is logged in is
\* disconnected.  Texts of a bad size get no answer; TestSession::login checks the
\* same sizes and never sends one.
SrvLogin(p) ==
    /\ p.type \in Logins
    /\ srvOpen' = ~srvLogin
    /\ IF srvLogin
       THEN UNCHANGED <<srvLogin, toClient>>
       ELSE \E result \in {"ok", "fail"} \cup IF p.type = "botCreate" THEN {"hasAccount"} ELSE {} :
                /\ srvLogin' = (result = "ok")
                /\ Answer(IF p.type = "login" THEN "login" ELSE "bot", result, None)
    /\ UNCHANGED srvRoom

\* Handle_REQ_ENTER_ROOM and Handle_REQ_EXIT_ROOM.  A session that is not logged
\* in is disconnected.
SrvRoom(p) ==
    /\ p.type \in {"enter", "exit"}
    /\ srvOpen' = srvLogin
    /\ IF ~srvLogin
       THEN UNCHANGED <<srvRoom, toClient>>
       ELSE \E ok \in BOOLEAN :
                /\ p.type = "enter" /\ srvRoom # None => ~ok
                /\ p.type = "exit" => (ok <=> srvRoom # None)
                /\ srvRoom' = IF ok THEN p.room ELSE srvRoom
                /\ Answer(p.type, IF ok THEN "ok" ELSE "fail", IF ok THEN p.room ELSE None)
    /\ UNCHANGED srvLogin

\* Handle_REQ_LOGOUT.
SrvLogout(p) ==
    /\ p.type = "logout"
    /\ srvOpen' = srvLogin
    /\ srvLogin' = FALSE /\ srvRoom' = None
    /\ IF srvLogin THEN Answer("logout", "ok", None) ELSE UNCHANGED toClient

SrvHandle ==
    /\ srvOpen /\ toServer # <<>>
    /\ SrvLogin(Head(toServer)) \/ SrvRoom(Head(toServer)) \/ SrvLogout(Head(toServer))
    /\ toServer' = Tail(toServer)
    /\ UNCHANGED <<clientVars, threadVars, manual>>

\* The heartbeat, an error or the server's shutdown ends the session; its cleanup
\* leaves the room and logs out.
SrvEnd ==
    /\ srvOpen
    /\ srvOpen' = FALSE /\ srvLogin' = FALSE /\ srvRoom' = None
    /\ toServer' = <<>>
    /\ UNCHANGED <<clientVars, threadVars, toClient, manual>>

-----------------------------------------------------------------------------

\* What a user thread has begun.
Proceed(u) == SendPacket(u) \/ Undo(u) \/ LoginAnswered(u)

User(u) ==
    \/ Proceed(u) \/ Login(u) \/ LoginTimeout(u) \/ SendExitRoom(u) \/ Logout(u) \/ Stop(u)
    \/ \E r \in Rooms : SendEnterRoom(u, r)

Io ==
    \/ TakePacket \/ HandleLogin \/ RetryLogin \/ HandleRoom \/ HandleEnd \/ Drop
    \/ SendPacket("io") \/ Undo("io") \/ PeerClosed

Ended ==
    /\ ~conn /\ ~srvOpen /\ pc["io"] = "idle" /\ \A u \in Users : pc[u] = "stopped"
    /\ UNCHANGED vars

Next == (\E u \in Users : User(u)) \/ Io \/ SrvHandle \/ SrvEnd \/ Ended

Spec == Init /\ [][Next]_vars

\* Every thread goes on with what it has begun, and the server answers.
Fairness ==
    /\ WF_vars(Io) /\ WF_vars(SrvHandle)
    /\ \A u \in Users : WF_vars(Proceed(u))

FairSpec == Spec /\ Fairness

-----------------------------------------------------------------------------
(* Properties *)

Pending(seq, types) == Cardinality({i \in DOMAIN seq : seq[i].type \in types})

RoomTypes == {"enter", "exit"}

\* However many threads ask for rooms, one request at most is anywhere between
\* its thread, the server and the handler of its answer, and while the session
\* lives it is the one _room_request names.
OneRoomRequest ==
    LET waiting == Pending(toServer, RoomTypes) + Pending(toClient, RoomTypes)
                   + Cardinality({t \in Threads : arg[t].type \in RoomTypes})
    IN  waiting <= 1 /\ (conn /\ srvOpen => (waiting = 1 <=> roomRequest # "none"))

\* With no request on the way, client and server agree on the room.
RoomAgrees ==
    conn /\ srvOpen /\ srvLogin /\ isLogin /\ roomRequest = "none" => room = srvRoom

\* The server holds a login only for a client that knows of it or waits for the
\* answer.
LoginKnown == conn /\ srvOpen /\ srvLogin => isLogin \/ loginPending

\* The server never finds this client's request out of place (a login of a
\* session that is logged in, a room request of one that is not), which it
\* answers by ending the connection.
NeverRefused ==
    srvOpen /\ toServer # <<>> => (srvLogin <=> Head(toServer).type \notin Logins)

\* A closed session is logged out and in no room, also when an answer that was
\* already taken off the connection is handled afterwards.
ClosedIsOut == ~conn => ~isLogin /\ room = None /\ roomRequest = "none"

\* What the client's session says of itself is what the server holds, in whatever
\* order its threads' requests, the answers and the end of the connection come.
StateAgrees == RoomAgrees /\ LoginKnown /\ ClosedIsOut

\* No thread of the client makes a request at a wrong time.
RequestsInPlace == OneRoomRequest /\ NeverRefused

\* Every login and every room request comes to an end.
RequestsEnd ==
    /\ loginPending ~> ~loginPending
    /\ roomRequest # "none" ~> roomRequest = "none"
=============================================================================
