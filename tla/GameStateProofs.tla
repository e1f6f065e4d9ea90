--------------------------- MODULE GameStateProofs ---------------------------
(***************************************************************************)
(* Proofs about GameState, for any sets of sessions, accounts, names and   *)
(* rooms and any limits: the invariants of the run game_state, and that    *)
(* the handlers implement Presence.                                        *)
(*                                                                         *)
(* None of the invariants is inductive alone: who holds an account rests   *)
(* on what the statement a handler is at says about its session            *)
(* (SessionInv), the maps rest on who holds the account and on names being *)
(* unique, and the rooms on both.  IInv is their conjunction.              *)
(*                                                                         *)
(* A step changes the fields of one session s.  The frame lemmas carry     *)
(* each conjunct over for the other sessions, so that a step only has to   *)
(* show it for s.  Most steps only move a handler on (QuietStep).          *)
(*                                                                         *)
(* The invariant gives the refinement: an account is listed by at most one *)
(* room, and only while it is logged in, so its presence is determined by  *)
(* its own entries.  Every step leaves the entries of all accounts alone   *)
(* or moves one account as Presence allows.                                *)
(***************************************************************************)
EXTENDS GameState, FiniteSetTheorems, TLAPS

\* Statements of the cleanup; between the exit from a room and the reset of the
\* room id; of a logged-in session; after the cleanup's logout; with no room.
InCleanup == {"clRoom", "clLogin", "clAccount", "clName", "clErase"}
Leaving   == {"exSet", "loRoom", "clRoom"}
NeedLogin == {"liAccount", "liName", "loRoom", "loLogout", "loAccount", "loName",
              "enSet", "exSet", "whisper"}
LoggedOff == {"clAccount", "clName", "clErase"}
NoRoom    == {"liAccount", "liName", "enSet", "loLogout", "loAccount", "loName",
              "clLogin", "clAccount", "clName", "clErase"}

\* What the statement a handler is at says about its session.
HandlerOK(s) ==
    /\ pc[s] \in NeedLogin => isLogin[s]
    /\ pc[s] \in LoggedOff => ~isLogin[s]
    /\ pc[s] \in InCleanup => link[s] = "closing"
    /\ pc[s] \in Leaving => room[s] # None
    /\ pc[s] \in NoRoom => room[s] = None
    /\ pc[s] = "enSet" => arg[s] \in Rooms
    /\ room[s] # None => isLogin[s]
    /\ link[s] \in {"free", "joining"} => pc[s] = "idle" /\ account[s] = None

\* A session has an account from its login to the end of its cleanup, and the
\* account's name.
AccountOK(s) ==
    /\ isLogin[s] => account[s] # None
    /\ account[s] # None => isLogin[s] \/ pc[s] \in LoggedOff
    /\ account[s] # None => name[s] = userName[account[s]] /\ name[s] # None
    /\ account[s] = None => name[s] = None

SessionInv == \A s \in Sessions : HandlerOK(s) /\ AccountOK(s)

NamesUnique == \A i, j \in Ids : userName[i] = userName[j] /\ userName[i] # None => i = j

\* LoginExclusive without the cardinality.
LoginInv ==
    /\ \A s \in Sessions, id \in Ids : Holds(s, id) => id \in loginList
    /\ \A id \in loginList : \E s \in Sessions : Holds(s, id)
    /\ \A s, t \in Sessions, id \in Ids : Holds(s, id) /\ Holds(t, id) => s = t

\* A session that a room lists holds the account and has not begun to leave.
MemberOK(s, r, id) ==
    roomList[r][id] = s =>
        /\ Holds(s, id) /\ pc[s] \notin Leaving
        /\ room[s] = r \/ (pc[s] = "enSet" /\ arg[s] = r)

\* A room lists the sessions that have its room id and those that are entering.
RoomIdOK(s) ==
    /\ room[s] # None /\ pc[s] \notin Leaving => roomList[room[s]][account[s]] = s
    /\ pc[s] = "enSet" => roomList[arg[s]][account[s]] = s

RoomInv ==
    /\ \A s \in Sessions, r \in Rooms, id \in Ids : MemberOK(s, r, id)
    /\ \A s \in Sessions : RoomIdOK(s)

Listed(r) == {id \in Ids : roomList[r][id] # None}

CountInv == \A r \in Rooms : roomCount[r] = Cardinality(Listed(r))

\* HolderRegistered for one session, and no map leads to a session past its release.
RegisteredOK(s) ==
    Holds(s, account[s]) /\ pc[s] # "liAccount" =>
        /\ accountSessions[account[s]] = s
        /\ pc[s] # "liName" => nameSessions[name[s]] = s

AccountEntryOK(s, id) ==
    accountSessions[id] = s => account[s] = id /\ pc[s] \notin {"loName", "clName", "clErase"}

NameEntryOK(s, n) == nameSessions[n] = s => name[s] = n /\ pc[s] # "clErase"

MapInv ==
    /\ \A s \in Sessions : RegisteredOK(s)
    /\ \A s \in Sessions, id \in Ids : AccountEntryOK(s, id)
    /\ \A s \in Sessions, n \in Names : NameEntryOK(s, n)

IInv == TypeOK /\ SessionInv /\ NamesUnique /\ LoginInv /\ RoomInv /\ CountInv /\ MapInv
        /\ CapacityRespected

-----------------------------------------------------------------------------
(* What a step of session s keeps for the other sessions *)

\* A step of session s changes no field of session t.
Kept(t) ==
    /\ pc'[t] = pc[t] /\ arg'[t] = arg[t] /\ link'[t] = link[t] /\ room'[t] = room[t]
    /\ isLogin'[t] = isLogin[t] /\ account'[t] = account[t] /\ name'[t] = name[t]

OthersKept(s) == \A t \in Sessions \ {s} : Kept(t)

\* The other sessions keep what their statement and their account say.
LEMMA SessionFrame ==
    ASSUME IInv, NEW s \in Sessions, OthersKept(s), HandlerOK(s)', AccountOK(s)',
           \A t \in Sessions \ {s} : account[t] # None =>
               userName'[account[t]] = userName[account[t]]
    PROVE  SessionInv'
<1> SUFFICES ASSUME NEW t \in Sessions, t # s PROVE HandlerOK(t)' /\ AccountOK(t)'
  BY Zenon DEF SessionInv
<1>1. Kept(t)
  BY Zenon DEF OthersKept
<1>2. HandlerOK(t) /\ AccountOK(t)
  BY Zenon DEF IInv, SessionInv
<1>3. HandlerOK(t)'
  BY <1>1, <1>2, Zenon DEF Kept, HandlerOK
<1>4. AccountOK(t)'
  BY <1>1, <1>2, Zenon DEF Kept, AccountOK
<1>5. QED
  BY <1>3, <1>4, Zenon

\* The login list agrees with the sessions while no session gets or loses an account.
LEMMA LoginFrame ==
    ASSUME IInv, NEW s \in Sessions, OthersKept(s), loginList' = loginList,
           \A id \in Ids : Holds(s, id)' <=> Holds(s, id)
    PROVE  LoginInv'
<1>1. \A t \in Sessions, id \in Ids : Holds(t, id)' <=> Holds(t, id)
  BY DEF OthersKept, Kept, Holds
<1>2. loginList \subseteq Ids
  BY Zenon DEF IInv, TypeOK
<1>3. QED
  BY <1>1, <1>2, Zenon DEF IInv, LoginInv

\* The rooms agree with the other sessions while they do not change.
LEMMA RoomFrame ==
    ASSUME IInv, NEW s \in Sessions, OthersKept(s), roomList' = roomList, RoomIdOK(s)',
           \A r \in Rooms, id \in Ids : MemberOK(s, r, id)'
    PROVE  RoomInv'
<1> SUFFICES ASSUME NEW t \in Sessions, t # s, NEW r \in Rooms, NEW id \in Ids
             PROVE  MemberOK(t, r, id)'
  <2>1. ASSUME NEW t \in Sessions, t # s PROVE RoomIdOK(t)'
    <3>1. Kept(t) /\ RoomIdOK(t)
      BY <2>1, Zenon DEF OthersKept, IInv, RoomInv
    <3>2. QED
      BY <3>1, Zenon DEF Kept, RoomIdOK
  <2>2. QED
    BY <2>1, Zenon DEF RoomInv
<1>1. Kept(t) /\ MemberOK(t, r, id)
  BY Zenon DEF OthersKept, IInv, RoomInv
<1>2. QED
  BY <1>1, Zenon DEF Kept, MemberOK, Holds

\* The maps agree with the other sessions while they lead to no session they did
\* not lead to, and still lead to the sessions that hold an account.
LEMMA MapFrame ==
    ASSUME IInv, NEW s \in Sessions, OthersKept(s), RegisteredOK(s)',
           \A id \in Ids : AccountEntryOK(s, id)', \A n \in Names : NameEntryOK(s, n)',
           \A t \in Sessions \ {s} :
              /\ \A id \in Ids : accountSessions'[id] = t => accountSessions[id] = t
              /\ \A n \in Names : nameSessions'[n] = t => nameSessions[n] = t
              /\ Holds(t, account[t]) =>
                    /\ accountSessions[account[t]] = t => accountSessions'[account[t]] = t
                    /\ nameSessions[name[t]] = t => nameSessions'[name[t]] = t
    PROVE  MapInv'
<1>1. ASSUME NEW t \in Sessions, t # s
      PROVE  /\ RegisteredOK(t)'
             /\ \A id \in Ids : AccountEntryOK(t, id)'
             /\ \A n \in Names : NameEntryOK(t, n)'
  <2>1. Kept(t) /\ RegisteredOK(t)
    BY <1>1, Zenon DEF OthersKept, IInv, MapInv
  <2>2. /\ \A id \in Ids : AccountEntryOK(t, id)
        /\ \A n \in Names : NameEntryOK(t, n)
    BY Zenon DEF IInv, MapInv
  <2>3. RegisteredOK(t)'
    <3>1. Holds(t, account[t]) =>
            /\ accountSessions[account[t]] = t => accountSessions'[account[t]] = t
            /\ nameSessions[name[t]] = t => nameSessions'[name[t]] = t
      BY <1>1, Zenon
    <3>2. (Holds(t, account[t]))' <=> Holds(t, account[t])
      BY <2>1, Zenon DEF Kept, Holds
    <3>3. QED
      BY <2>1, <3>1, <3>2, Zenon DEF Kept, RegisteredOK
  <2>4. \A id \in Ids : AccountEntryOK(t, id)'
    BY <1>1, <2>1, <2>2 DEF Kept, AccountEntryOK
  <2>5. \A n \in Names : NameEntryOK(t, n)'
    BY <1>1, <2>1, <2>2, Zenon DEF Kept, NameEntryOK
  <2>6. QED
    BY <2>3, <2>4, <2>5, Zenon
<1>2. QED
  BY <1>1, Zenon DEF MapInv

\* The session set stays as it is while no session comes or goes.
LEMMA CapacityFrame ==
    ASSUME IInv, NEW s \in Sessions, OthersKept(s), UNCHANGED <<sessions, sessionCount>>,
           link'[s] = "free" <=> link[s] = "free"
    PROVE  CapacityRespected'
<1>1. {t \in Sessions : link'[t] # "free"} = {t \in Sessions : link[t] # "free"}
  BY Zenon DEF OthersKept, Kept
<1>2. QED
  BY <1>1, Zenon DEF IInv, CapacityRespected

-----------------------------------------------------------------------------
(* Steps that several actions share *)

QuietLabels == {"idle", "ack", "whisper", "loLogout", "clLogin"}

\* A handler moves on, or the connection changes, and nothing else does.
LEMMA QuietStep ==
    ASSUME IInv, TypeOK', NEW s \in Sessions, OthersKept(s), HandlerOK(s)',
           UNCHANGED <<loginVars, roomVars, managerVars>>,
           link'[s] = "free" <=> link[s] = "free",
           isLogin'[s] = isLogin[s], account'[s] = account[s], name'[s] = name[s],
           room'[s] = room[s],
           \/ pc'[s] = pc[s] /\ arg'[s] = arg[s]
           \/ pc[s] \in QuietLabels /\ pc'[s] \in QuietLabels
    PROVE  IInv'
<1>1. /\ AccountOK(s) /\ RoomIdOK(s) /\ RegisteredOK(s)
      /\ \A r \in Rooms, id \in Ids : MemberOK(s, r, id)
      /\ \A id \in Ids : AccountEntryOK(s, id)
      /\ \A n \in Names : NameEntryOK(s, n)
  BY Zenon DEF IInv, SessionInv, RoomInv, MapInv
<1>2. /\ userName' = userName /\ loginList' = loginList /\ roomList' = roomList
      /\ roomCount' = roomCount /\ sessions' = sessions /\ sessionCount' = sessionCount
      /\ accountSessions' = accountSessions /\ nameSessions' = nameSessions
  BY Zenon DEF loginVars, roomVars, managerVars
<1>3. SessionInv'
  <2>1. AccountOK(s)'
    BY <1>1, <1>2, Zenon DEF AccountOK, LoggedOff, QuietLabels
  <2>2. QED
    BY <1>2, <2>1, SessionFrame, Zenon
<1>4. NamesUnique'
  BY <1>2, Zenon DEF IInv, NamesUnique
<1>5. \A id \in Ids : Holds(s, id)' <=> Holds(s, id)
  BY Zenon DEF Holds, QuietLabels
<1>6. LoginInv'
  BY <1>2, <1>5, LoginFrame, Zenon
<1>7. RoomInv'
  <2>1. RoomIdOK(s)'
    BY <1>1, <1>2, Zenon DEF RoomIdOK, Leaving, QuietLabels
  <2>2. ASSUME NEW r \in Rooms, NEW id \in Ids PROVE MemberOK(s, r, id)'
    <3>1. MemberOK(s, r, id) /\ (Holds(s, id)' <=> Holds(s, id))
      BY <1>1, <1>5, Zenon
    <3>2. QED
      BY <1>2, <3>1, Zenon DEF MemberOK, Leaving, QuietLabels
  <2>3. QED
    BY <1>2, <2>1, <2>2, RoomFrame, Zenon
<1>8. CountInv'
  BY <1>2, Zenon DEF IInv, CountInv, Listed
<1>9. MapInv'
  <2>1. RegisteredOK(s)'
    BY <1>1, <1>2, Zenon DEF RegisteredOK, Holds, QuietLabels
  <2>2. \A id \in Ids : AccountEntryOK(s, id)'
    BY <1>1, <1>2, Zenon DEF AccountEntryOK, QuietLabels
  <2>3. \A n \in Names : NameEntryOK(s, n)'
    BY <1>1, <1>2, Zenon DEF NameEntryOK, QuietLabels
  <2>4. QED
    BY <1>2, <2>1, <2>2, <2>3, MapFrame, Zenon
<1>10. CapacityRespected'
  BY <1>2, CapacityFrame, Zenon
<1>11. QED
  BY <1>3, <1>4, <1>6, <1>7, <1>8, <1>9, <1>10, Zenon DEF IInv

\* A connection comes up or ends, and nothing else changes.
LEMMA LinkStep ==
    ASSUME IInv, NEW s \in Sessions, NEW l \in {"connected", "closing"},
           link[s] \in {"joining", "connected"}, link' = [link EXCEPT ![s] = l],
           UNCHANGED <<loginVars, roomVars, managerVars, userVars, room, pc, arg, result>>
    PROVE  IInv'
<1>1. TypeOK'
  BY Zenon DEF IInv, TypeOK, loginVars, roomVars, managerVars, userVars
<1>2. /\ OthersKept(s) /\ link'[s] = l /\ pc'[s] = pc[s] /\ arg'[s] = arg[s] /\ room'[s] = room[s]
      /\ isLogin'[s] = isLogin[s] /\ account'[s] = account[s] /\ name'[s] = name[s]
  BY Zenon DEF OthersKept, Kept, IInv, TypeOK, userVars
<1>3. HandlerOK(s)
  BY Zenon DEF IInv, SessionInv
<1>4. HandlerOK(s)'
  BY <1>2, <1>3, Zenon DEF HandlerOK, InCleanup
<1>5. QED
  BY <1>1, <1>2, <1>4, QuietStep, Zenon

\* A request, or the second half of a whisper, is answered and changes nothing.
LEMMA AckStep ==
    ASSUME IInv, NEW s \in Sessions, NEW res \in {"ok", "empty", "fail", "notTarget"},
           pc[s] \in {"idle", "whisper"}, link[s] \in {"connected", "closing"}, Ack(s, res),
           UNCHANGED <<loginVars, roomVars, managerVars, link, userVars, room>>
    PROVE  IInv'
<1>1. TypeOK'
  BY Zenon DEF Ack, IInv, TypeOK, Labels, loginVars, roomVars, managerVars, userVars
<1>2. /\ OthersKept(s) /\ link'[s] = link[s] /\ pc'[s] = "ack" /\ room'[s] = room[s]
      /\ isLogin'[s] = isLogin[s] /\ account'[s] = account[s] /\ name'[s] = name[s]
  BY Zenon DEF Ack, OthersKept, Kept, IInv, TypeOK, userVars
<1>3. HandlerOK(s)
  BY Zenon DEF IInv, SessionInv
<1>4. HandlerOK(s)'
  BY <1>2, <1>3, Zenon DEF HandlerOK, InCleanup, Leaving, NeedLogin, LoggedOff, NoRoom
<1>5. pc[s] \in QuietLabels /\ pc'[s] \in QuietLabels
  BY <1>2, Zenon DEF QuietLabels
<1>6. QED
  BY <1>1, <1>2, <1>4, <1>5, QuietStep, Zenon

\* A handler goes on to a statement that neither enters nor leaves a room.
LEMMA GotoStep ==
    ASSUME IInv, NEW s \in Sessions, NEW to \in QuietLabels, NEW a \in Names \cup {None},
           pc[s] = "idle", Goto(s, to, a), link[s] \in {"connected", "closing"},
           to \in NeedLogin => isLogin[s], to \in NoRoom => room[s] = None,
           to \in InCleanup => link[s] = "closing",
           UNCHANGED <<loginVars, roomVars, managerVars, link, userVars, room>>
    PROVE  IInv'
<1>0. to \in Labels
  BY Zenon DEF QuietLabels, Labels
<1>1. TypeOK'
  BY <1>0, Zenon DEF Goto, IInv, TypeOK, loginVars, roomVars, managerVars, userVars
<1>2. /\ OthersKept(s) /\ link'[s] = link[s] /\ pc'[s] = to /\ room'[s] = room[s]
      /\ isLogin'[s] = isLogin[s] /\ account'[s] = account[s] /\ name'[s] = name[s]
  BY Zenon DEF Goto, OthersKept, Kept, IInv, TypeOK, userVars
<1>3. HandlerOK(s)
  BY Zenon DEF IInv, SessionInv
<1>4. to \notin Leaving \cup LoggedOff \cup {"enSet"}
  BY Zenon DEF QuietLabels, Leaving, LoggedOff
<1>5. HandlerOK(s)'
  BY <1>2, <1>3, <1>4, Zenon DEF HandlerOK
<1>6. pc[s] \in QuietLabels /\ pc'[s] \in QuietLabels
  BY <1>2, Zenon DEF QuietLabels
<1>7. QED
  BY <1>1, <1>2, <1>5, <1>6, QuietStep, Zenon

-----------------------------------------------------------------------------
(* Rooms *)

\* An account leaves a room: the count stays right and positive.
LEMMA ExitCount ==
    ASSUME IInv, NEW r \in Rooms, NEW id \in Ids, roomList[r][id] # None, ExitUser(r, id)
    PROVE  CountInv' /\ roomCount' \in [Rooms -> 0..RoomSize]
<1>1. roomList' = [roomList EXCEPT ![r][id] = None] /\ roomCount' = [roomCount EXCEPT ![r] = @ - 1]
  BY GameStateAssumption, Zenon DEF ExitUser, InRoom
<1>2. IsFiniteSet(Listed(r)) /\ id \in Listed(r)
  BY FS_Subset, GameStateAssumption, Zenon DEF Listed
<1>3. Listed(r)' = Listed(r) \ {id}
  BY <1>1, Zenon DEF Listed, IInv, TypeOK
<1>4. Cardinality(Listed(r)') = Cardinality(Listed(r)) - 1 /\ Cardinality(Listed(r)') \in Nat
  <2>1. Cardinality(Listed(r) \ {id}) = Cardinality(Listed(r)) - 1
    BY <1>2, FS_RemoveElement, Zenon
  <2>2. Cardinality(Listed(r) \ {id}) \in Nat
    BY <1>2, FS_RemoveElement, FS_CardinalityType, Zenon
  <2>3. QED
    BY <1>3, <2>1, <2>2, Zenon
<1>5. \A q \in Rooms \ {r} : Listed(q)' = Listed(q)
  BY <1>1, Zenon DEF Listed, IInv, TypeOK
<1>6. /\ roomCount'[r] = roomCount[r] - 1 /\ \A q \in Rooms \ {r} : roomCount'[q] = roomCount[q]
      /\ roomCount[r] \in 0..RoomSize
  BY <1>1, Zenon DEF IInv, TypeOK
<1>7. CountInv'
  BY <1>4, <1>5, <1>6, Zenon DEF IInv, CountInv
<1>8. roomCount[r] - 1 \in 0..RoomSize
  BY <1>4, <1>6, GameStateAssumption DEF IInv, CountInv
<1>9. QED
  BY <1>1, <1>7, <1>8, Zenon DEF IInv, TypeOK

\* An account takes one of the places of a room.
LEMMA EnterCount ==
    ASSUME IInv, NEW r \in Rooms, NEW id \in Ids, NEW s \in Sessions, EnterUser(r, id, s)
    PROVE  CountInv' /\ roomCount' \in [Rooms -> 0..RoomSize]
<1>1. /\ roomList' = [roomList EXCEPT ![r][id] = s] /\ roomCount' = [roomCount EXCEPT ![r] = @ + 1]
      /\ roomList[r][id] = None /\ roomCount[r] < RoomSize /\ s # None
  BY GameStateAssumption DEF EnterUser, RoomFull, IInv, TypeOK
<1>2. IsFiniteSet(Listed(r)) /\ id \notin Listed(r)
  BY <1>1, FS_Subset, GameStateAssumption, Zenon DEF Listed
<1>3. Listed(r)' = Listed(r) \cup {id}
  BY <1>1, Zenon DEF Listed, IInv, TypeOK
<1>4. Cardinality(Listed(r)') = Cardinality(Listed(r)) + 1
  <2>1. Cardinality(Listed(r) \cup {id}) = Cardinality(Listed(r)) + 1
    BY <1>2, FS_AddElement, Zenon
  <2>2. QED
    BY <1>3, <2>1, Zenon
<1>5. \A q \in Rooms \ {r} : Listed(q)' = Listed(q)
  BY <1>1, Zenon DEF Listed, IInv, TypeOK
<1>6. /\ roomCount'[r] = roomCount[r] + 1 /\ \A q \in Rooms \ {r} : roomCount'[q] = roomCount[q]
      /\ roomCount[r] \in 0..RoomSize
  BY <1>1, Zenon DEF IInv, TypeOK
<1>7. CountInv'
  BY <1>4, <1>5, <1>6, Zenon DEF IInv, CountInv
<1>8. roomCount[r] + 1 \in 0..RoomSize
  BY <1>1, <1>6, GameStateAssumption
<1>9. QED
  BY <1>1, <1>7, <1>8, Zenon DEF IInv, TypeOK

\* A room that changes for the account of session s only agrees with the other
\* sessions: none of them holds that account.
LEMMA OtherRooms ==
    ASSUME IInv, NEW s \in Sessions, NEW r \in Rooms, NEW v \in {s, None},
           account[s] \in Ids, Holds(s, account[s]), OthersKept(s),
           roomList' = [roomList EXCEPT ![r][account[s]] = v], RoomIdOK(s)',
           \A q \in Rooms, id \in Ids : MemberOK(s, q, id)'
    PROVE  RoomInv'
<1>1. \A q \in Rooms, id \in Ids :
          roomList'[q][id] = IF q = r /\ id = account[s] THEN v ELSE roomList[q][id]
  BY Zenon DEF IInv, TypeOK
<1>2. ASSUME NEW t \in Sessions, t # s PROVE RoomIdOK(t)'
  <2>1. Kept(t) /\ RoomIdOK(t) /\ HandlerOK(t) /\ AccountOK(t)
    BY <1>2, Zenon DEF OthersKept, IInv, RoomInv, SessionInv
  <2>2. account[t] = account[s] => ~Holds(t, account[t])
    BY <1>2, Zenon DEF IInv, LoginInv
  <2>3. /\ account[t] # None => account[t] \in Ids
        /\ room[t] # None => room[t] \in Rooms
    BY Zenon DEF IInv, TypeOK
  <2>4. room[t] # None \/ pc[t] = "enSet" => Holds(t, account[t])
    BY <2>1, Zenon DEF HandlerOK, NeedLogin, NoRoom, Holds
  <2>5. isLogin[t] => account[t] # None
    BY <2>1, Zenon DEF AccountOK
  <2>6. pc[t] = "enSet" => arg[t] \in Rooms
    BY <2>1, Zenon DEF HandlerOK
  <2>7. ASSUME room[t] # None \/ pc[t] = "enSet", NEW q \in Rooms
        PROVE  roomList'[q][account[t]] = roomList[q][account[t]]
    <3>1. Holds(t, account[t]) /\ account[t] # account[s]
      BY <2>2, <2>4, <2>7, Zenon
    <3>2. account[t] \in Ids
      BY <2>3, <2>5, <3>1, Zenon DEF Holds
    <3>3. QED
      BY <1>1, <3>1, <3>2
  <2>8. room[t] # None => roomList'[room[t]][account[t]] = roomList[room[t]][account[t]]
    BY <2>3, <2>7, Zenon
  <2>9. pc[t] = "enSet" => roomList'[arg[t]][account[t]] = roomList[arg[t]][account[t]]
    BY <2>6, <2>7, Zenon
  <2>10. QED
    BY <2>1, <2>8, <2>9, Zenon DEF Kept, RoomIdOK
<1>3. ASSUME NEW t \in Sessions, t # s, NEW q \in Rooms, NEW id \in Ids
      PROVE  MemberOK(t, q, id)'
  <2>1. Kept(t) /\ MemberOK(t, q, id)
    BY <1>3, Zenon DEF OthersKept, IInv, RoomInv
  <2>2. roomList'[q][id] = t => roomList[q][id] = t
    BY <1>1, <1>3, GameStateAssumption
  <2>3. QED
    BY <2>1, <2>2, Zenon DEF Kept, MemberOK, Holds
<1>4. QED
  BY <1>2, <1>3, Zenon DEF RoomInv

\* The first step out of a room: the Room forgets the account, the session still
\* has the room id.
LEMMA LeaveStep ==
    ASSUME IInv, NEW s \in Sessions, NEW to \in Leaving, pc[s] = "idle", room[s] # None,
           to = "clRoom" => link[s] = "closing", ExitUser(room[s], account[s]),
           Goto(s, to, None), UNCHANGED <<loginVars, managerVars, link, userVars, room>>
    PROVE  IInv'
<1>1. /\ HandlerOK(s) /\ AccountOK(s) /\ RoomIdOK(s) /\ RegisteredOK(s)
      /\ \A r \in Rooms, id \in Ids : MemberOK(s, r, id)
      /\ \A id \in Ids : AccountEntryOK(s, id)
      /\ \A n \in Names : NameEntryOK(s, n)
  BY Zenon DEF IInv, SessionInv, RoomInv, MapInv
<1>2. isLogin[s] /\ account[s] # None /\ roomList[room[s]][account[s]] = s /\ Holds(s, account[s])
  BY <1>1, Zenon DEF HandlerOK, AccountOK, RoomIdOK, Holds, Leaving
<1>3. room[s] \in Rooms /\ account[s] \in Ids
  BY <1>2, Zenon DEF IInv, TypeOK
<1>4. /\ roomList' = [roomList EXCEPT ![room[s]][account[s]] = None]
      /\ CountInv' /\ roomCount' \in [Rooms -> 0..RoomSize]
  <2>1. roomList[room[s]][account[s]] # None
    BY <1>2, GameStateAssumption, Zenon
  <2>2. QED
    BY <1>3, <2>1, ExitCount, Zenon DEF ExitUser, InRoom
<1>5. /\ userName' = userName /\ loginList' = loginList
      /\ sessions' = sessions /\ sessionCount' = sessionCount
      /\ accountSessions' = accountSessions /\ nameSessions' = nameSessions
  BY Zenon DEF loginVars, managerVars
<1>6. to \in Labels /\ to \notin {"loAccount", "loName", "liAccount", "liName", "clName", "clErase",
                                   "enSet"}
  BY Zenon DEF Leaving, Labels
<1>7. TypeOK'
  <2>1. roomList' \in [Rooms -> [Ids -> Sessions \cup {None}]]
    BY <1>3, <1>4, Zenon DEF IInv, TypeOK
  <2>2. QED
    BY <1>4, <1>5, <1>6, <2>1, Zenon DEF Goto, IInv, TypeOK, userVars
<1>8. /\ OthersKept(s) /\ link'[s] = link[s] /\ pc'[s] = to /\ room'[s] = room[s]
      /\ isLogin'[s] = isLogin[s] /\ account'[s] = account[s] /\ name'[s] = name[s]
  BY Zenon DEF Goto, OthersKept, Kept, IInv, TypeOK, userVars
<1>9. SessionInv'
  <2>1. HandlerOK(s)'
    BY <1>1, <1>2, <1>8, Zenon DEF HandlerOK, InCleanup, Leaving, NeedLogin, LoggedOff, NoRoom
  <2>2. AccountOK(s)'
    BY <1>1, <1>2, <1>5, <1>8, Zenon DEF AccountOK
  <2>3. QED
    BY <1>5, <1>8, <2>1, <2>2, SessionFrame, Zenon
<1>10. \A id \in Ids : Holds(s, id)' <=> Holds(s, id)
  BY <1>6, <1>8, Zenon DEF Holds
<1>11. NamesUnique' /\ LoginInv'
  <2>1. NamesUnique'
    BY <1>5, Zenon DEF IInv, NamesUnique
  <2>2. QED
    BY <1>5, <1>8, <1>10, <2>1, LoginFrame, Zenon
<1>12. RoomInv'
  <2>1. RoomIdOK(s)'
    BY <1>6, <1>8, Zenon DEF RoomIdOK
  <2>2. ASSUME NEW r \in Rooms, NEW id \in Ids PROVE MemberOK(s, r, id)'
    <3>1. roomList'[r][id] # s
      <4>1. CASE r = room[s] /\ id = account[s]
        BY <1>3, <1>4, <4>1, GameStateAssumption, Zenon DEF IInv, TypeOK
      <4>2. CASE ~(r = room[s] /\ id = account[s])
        <5>1. roomList'[r][id] = roomList[r][id]
          BY <1>3, <1>4, <4>2, Zenon DEF IInv, TypeOK
        <5>2. MemberOK(s, r, id)
          BY <1>1, Zenon
        <5>3. QED
          BY <4>2, <5>1, <5>2, Zenon DEF MemberOK, Holds
      <4>3. QED
        BY <4>1, <4>2, Zenon
    <3>2. QED
      BY <3>1, Zenon DEF MemberOK
  <2>3. QED
    BY <1>2, <1>3, <1>4, <1>8, <2>1, <2>2, OtherRooms, Zenon
<1>13. MapInv'
  <2>1. RegisteredOK(s)'
    BY <1>1, <1>2, <1>5, <1>8, Zenon DEF RegisteredOK
  <2>2. \A id \in Ids : AccountEntryOK(s, id)'
    BY <1>1, <1>5, <1>6, <1>8, Zenon DEF AccountEntryOK
  <2>3. \A n \in Names : NameEntryOK(s, n)'
    BY <1>1, <1>5, <1>6, <1>8, Zenon DEF NameEntryOK
  <2>4. QED
    BY <1>5, <1>8, <2>1, <2>2, <2>3, MapFrame, Zenon
<1>14. CapacityRespected'
  BY <1>5, <1>8, CapacityFrame, Zenon
<1>15. QED
  BY <1>4, <1>7, <1>9, <1>11, <1>12, <1>13, <1>14, Zenon DEF IInv

\* Room::enter_user takes the session of an account that is in no room.
LEMMA EnterRoomStep ==
    ASSUME IInv, NEW s \in Sessions, NEW r \in Rooms, EnterRoom(s, r)
    PROVE  IInv'
<1>0. /\ pc[s] = "idle" /\ link[s] = "connected" /\ isLogin[s] /\ room[s] = None
      /\ EnterUser(r, account[s], s) /\ Goto(s, "enSet", r)
      /\ UNCHANGED <<loginVars, managerVars, link, userVars, room>>
  BY Zenon DEF EnterRoom, Begins, InNoRoom
<1>1. /\ HandlerOK(s) /\ AccountOK(s) /\ RegisteredOK(s)
      /\ \A q \in Rooms, id \in Ids : MemberOK(s, q, id)
      /\ \A id \in Ids : AccountEntryOK(s, id)
      /\ \A n \in Names : NameEntryOK(s, n)
  BY Zenon DEF IInv, SessionInv, RoomInv, MapInv
<1>2. account[s] # None /\ Holds(s, account[s])
  BY <1>0, <1>1, Zenon DEF AccountOK, Holds
<1>3. account[s] \in Ids /\ s # None
  BY <1>2, GameStateAssumption, Zenon DEF IInv, TypeOK
<1>4. /\ roomList' = [roomList EXCEPT ![r][account[s]] = s]
      /\ CountInv' /\ roomCount' \in [Rooms -> 0..RoomSize]
  BY <1>0, <1>3, EnterCount, Zenon DEF EnterUser
<1>5. /\ userName' = userName /\ loginList' = loginList
      /\ sessions' = sessions /\ sessionCount' = sessionCount
      /\ accountSessions' = accountSessions /\ nameSessions' = nameSessions
  BY <1>0, Zenon DEF loginVars, managerVars
<1>7. TypeOK'
  <2>1. roomList' \in [Rooms -> [Ids -> Sessions \cup {None}]]
    BY <1>3, <1>4, Zenon DEF IInv, TypeOK
  <2>2. "enSet" \in Labels
    BY Zenon DEF Labels
  <2>3. QED
    BY <1>0, <1>4, <1>5, <2>1, <2>2, Zenon DEF Goto, IInv, TypeOK, userVars
<1>8. /\ OthersKept(s) /\ link'[s] = link[s] /\ pc'[s] = "enSet" /\ arg'[s] = r /\ room'[s] = None
      /\ isLogin'[s] = isLogin[s] /\ account'[s] = account[s] /\ name'[s] = name[s]
  BY <1>0, Zenon DEF Goto, OthersKept, Kept, IInv, TypeOK, userVars
<1>9. SessionInv'
  <2>1. HandlerOK(s)'
    BY <1>0, <1>1, <1>2, <1>8, Zenon DEF HandlerOK, InCleanup, Leaving, NeedLogin, LoggedOff, NoRoom
  <2>2. AccountOK(s)'
    BY <1>0, <1>1, <1>2, <1>5, <1>8, Zenon DEF AccountOK
  <2>3. QED
    BY <1>5, <1>8, <2>1, <2>2, SessionFrame, Zenon
<1>10. \A id \in Ids : Holds(s, id)' <=> Holds(s, id)
  BY <1>0, <1>8, Zenon DEF Holds
<1>11. NamesUnique' /\ LoginInv'
  <2>1. NamesUnique'
    BY <1>5, Zenon DEF IInv, NamesUnique
  <2>2. QED
    BY <1>5, <1>8, <1>10, <2>1, LoginFrame, Zenon
<1>12. RoomInv'
  <2>1. roomList'[r][account[s]] = s
    BY <1>3, <1>4, Zenon DEF IInv, TypeOK
  <2>2. RoomIdOK(s)'
    BY <1>8, <2>1, Zenon DEF RoomIdOK
  <2>3. ASSUME NEW q \in Rooms, NEW id \in Ids PROVE MemberOK(s, q, id)'
    <3>1. CASE q = r /\ id = account[s]
      BY <1>2, <1>8, <1>10, <3>1, Zenon DEF MemberOK, Leaving
    <3>2. CASE ~(q = r /\ id = account[s])
      <4>1. roomList'[q][id] = roomList[q][id]
        BY <1>3, <1>4, <3>2, Zenon DEF IInv, TypeOK
      <4>2. MemberOK(s, q, id) /\ q # None
        BY <1>1, GameStateAssumption, Zenon
      <4>3. roomList'[q][id] # s
        BY <1>0, <4>1, <4>2, Zenon DEF MemberOK
      <4>4. QED
        BY <4>3, Zenon DEF MemberOK
    <3>3. QED
      BY <3>1, <3>2, Zenon
  <2>4. QED
    BY <1>2, <1>3, <1>4, <1>8, <2>2, <2>3, OtherRooms, Zenon
<1>13. MapInv'
  <2>1. RegisteredOK(s)'
    BY <1>0, <1>1, <1>2, <1>5, <1>8, Zenon DEF RegisteredOK
  <2>2. \A id \in Ids : AccountEntryOK(s, id)'
    BY <1>1, <1>5, <1>8, Zenon DEF AccountEntryOK
  <2>3. \A n \in Names : NameEntryOK(s, n)'
    BY <1>1, <1>5, <1>8, Zenon DEF NameEntryOK
  <2>4. QED
    BY <1>5, <1>8, <2>1, <2>2, <2>3, MapFrame, Zenon
<1>14. CapacityRespected'
  BY <1>5, <1>8, CapacityFrame, Zenon
<1>15. QED
  BY <1>4, <1>7, <1>9, <1>11, <1>12, <1>13, <1>14, Zenon DEF IInv

\* The session that a Room has taken gets the room id.
LEMMA SetRoomIdStep ==
    ASSUME IInv, NEW s \in Sessions, SetRoomId(s)
    PROVE  IInv'
<1>0. /\ pc[s] = "enSet" /\ room' = [room EXCEPT ![s] = arg[s]] /\ Ack(s, "ok")
      /\ UNCHANGED <<loginVars, roomVars, managerVars, link, userVars>>
  BY Zenon DEF SetRoomId
<1>1. /\ HandlerOK(s) /\ AccountOK(s) /\ RegisteredOK(s) /\ RoomIdOK(s)
      /\ \A q \in Rooms, id \in Ids : MemberOK(s, q, id)
      /\ \A id \in Ids : AccountEntryOK(s, id)
      /\ \A n \in Names : NameEntryOK(s, n)
  BY Zenon DEF IInv, SessionInv, RoomInv, MapInv
<1>2. /\ isLogin[s] /\ room[s] = None /\ arg[s] \in Rooms /\ arg[s] # None
      /\ roomList[arg[s]][account[s]] = s
  BY <1>0, <1>1, GameStateAssumption, Zenon DEF HandlerOK, RoomIdOK, NoRoom, NeedLogin
<1>3. /\ userName' = userName /\ loginList' = loginList /\ roomList' = roomList
      /\ roomCount' = roomCount /\ sessions' = sessions /\ sessionCount' = sessionCount
      /\ accountSessions' = accountSessions /\ nameSessions' = nameSessions
  BY <1>0, Zenon DEF loginVars, roomVars, managerVars
<1>4. TypeOK'
  <2>1. "ack" \in Labels
    BY Zenon DEF Labels
  <2>2. QED
    BY <1>0, <1>2, <1>3, <2>1, Zenon DEF Ack, IInv, TypeOK, userVars
<1>5. /\ OthersKept(s) /\ link'[s] = link[s] /\ pc'[s] = "ack" /\ room'[s] = arg[s]
      /\ isLogin'[s] = isLogin[s] /\ account'[s] = account[s] /\ name'[s] = name[s]
  BY <1>0, Zenon DEF Ack, OthersKept, Kept, IInv, TypeOK, userVars
<1>6. SessionInv'
  <2>1. HandlerOK(s)'
    BY <1>0, <1>1, <1>2, <1>5, Zenon DEF HandlerOK, InCleanup, Leaving, NeedLogin, LoggedOff, NoRoom
  <2>2. AccountOK(s)'
    BY <1>1, <1>2, <1>3, <1>5, Zenon DEF AccountOK
  <2>3. QED
    BY <1>3, <1>5, <2>1, <2>2, SessionFrame, Zenon
<1>7. \A id \in Ids : Holds(s, id)' <=> Holds(s, id)
  BY <1>0, <1>5, Zenon DEF Holds
<1>8. NamesUnique' /\ LoginInv' /\ CountInv' /\ CapacityRespected'
  <2>1. NamesUnique' /\ CountInv'
    BY <1>3, Zenon DEF IInv, NamesUnique, CountInv, Listed
  <2>2. LoginInv' /\ CapacityRespected'
    BY <1>3, <1>5, <1>7, LoginFrame, CapacityFrame, Zenon
  <2>3. QED
    BY <2>1, <2>2, Zenon
<1>9. RoomInv'
  <2>1. RoomIdOK(s)'
    BY <1>2, <1>3, <1>5, Zenon DEF RoomIdOK
  <2>2. ASSUME NEW q \in Rooms, NEW id \in Ids PROVE MemberOK(s, q, id)'
    <3>1. MemberOK(s, q, id) /\ (Holds(s, id)' <=> Holds(s, id)) /\ q # None
      BY <1>1, <1>7, GameStateAssumption, Zenon
    <3>2. QED
      BY <1>2, <1>3, <1>5, <3>1, Zenon DEF MemberOK, Leaving
  <2>3. QED
    BY <1>3, <1>5, <2>1, <2>2, RoomFrame, Zenon
<1>10. MapInv'
  <2>1. RegisteredOK(s)'
    BY <1>0, <1>1, <1>3, <1>5, Zenon DEF RegisteredOK, Holds
  <2>2. \A id \in Ids : AccountEntryOK(s, id)'
    BY <1>1, <1>3, <1>5, Zenon DEF AccountEntryOK
  <2>3. \A n \in Names : NameEntryOK(s, n)'
    BY <1>1, <1>3, <1>5, Zenon DEF NameEntryOK
  <2>4. QED
    BY <1>3, <1>5, <2>1, <2>2, <2>3, MapFrame, Zenon
<1>11. QED
  BY <1>4, <1>6, <1>8, <1>9, <1>10, Zenon DEF IInv

-----------------------------------------------------------------------------
(* Registrations and logouts: steps of a session that no room lists *)

\* What such a step has to show beyond its own session: the login list and the maps.
LEMMA RoomlessStep ==
    ASSUME IInv, TypeOK', NEW s \in Sessions, OthersKept(s), HandlerOK(s)', AccountOK(s)',
           room[s] = None \/ pc[s] \in Leaving, pc[s] # "enSet",
           room'[s] = None, pc'[s] # "enSet", link'[s] = "free" <=> link[s] = "free",
           UNCHANGED <<userName, roomVars, sessions, sessionCount>>, LoginInv', MapInv'
    PROVE  IInv'
<1>1. /\ userName' = userName /\ roomList' = roomList /\ roomCount' = roomCount
      /\ sessions' = sessions /\ sessionCount' = sessionCount
  BY Zenon DEF roomVars
<1>2. SessionInv'
  BY <1>1, SessionFrame, Zenon
<1>3. NamesUnique' /\ CountInv'
  BY <1>1, Zenon DEF IInv, NamesUnique, CountInv, Listed
<1>4. RoomInv'
  <2>1. RoomIdOK(s)'
    BY Zenon DEF RoomIdOK
  <2>2. ASSUME NEW r \in Rooms, NEW id \in Ids PROVE MemberOK(s, r, id)'
    <3>1. MemberOK(s, r, id) /\ r # None
      BY GameStateAssumption, Zenon DEF IInv, RoomInv
    <3>2. roomList[r][id] # s
      BY <3>1, Zenon DEF MemberOK
    <3>3. QED
      BY <1>1, <3>2, Zenon DEF MemberOK
  <2>3. QED
    BY <1>1, <2>1, <2>2, RoomFrame, Zenon
<1>5. CapacityRespected'
  BY <1>1, CapacityFrame, Zenon
<1>6. QED
  BY <1>2, <1>3, <1>4, <1>5, Zenon DEF IInv

\* The second step out of a room.
LEMMA RoomLeftStep ==
    ASSUME IInv, TypeOK', NEW s \in Sessions, NEW to \in {"ack", "loLogout", "clLogin"},
           pc[s] \in Leaving, pc' = [pc EXCEPT ![s] = to], room' = [room EXCEPT ![s] = None],
           to = "loLogout" => pc[s] = "loRoom", to = "clLogin" => pc[s] = "clRoom", arg' = arg,
           UNCHANGED <<loginVars, roomVars, managerVars, link, userVars>>
    PROVE  IInv'
<1>1. /\ HandlerOK(s) /\ AccountOK(s) /\ RegisteredOK(s)
      /\ \A id \in Ids : AccountEntryOK(s, id)
      /\ \A n \in Names : NameEntryOK(s, n)
  BY Zenon DEF IInv, SessionInv, MapInv
<1>2. /\ OthersKept(s) /\ link'[s] = link[s] /\ pc'[s] = to /\ room'[s] = None
      /\ isLogin'[s] = isLogin[s] /\ account'[s] = account[s] /\ name'[s] = name[s]
  BY Zenon DEF OthersKept, Kept, IInv, TypeOK, userVars
<1>3. /\ userName' = userName /\ loginList' = loginList
      /\ sessions' = sessions /\ sessionCount' = sessionCount
      /\ accountSessions' = accountSessions /\ nameSessions' = nameSessions
  BY Zenon DEF loginVars, managerVars
<1>4. pc[s] \notin {"enSet", "loAccount", "loName", "liAccount", "liName"}
  BY Zenon DEF Leaving
<1>5. HandlerOK(s)'
  BY <1>1, <1>2, Zenon DEF HandlerOK, InCleanup, Leaving, NeedLogin, LoggedOff, NoRoom
<1>6. AccountOK(s)'
  BY <1>1, <1>2, <1>3, Zenon DEF AccountOK, LoggedOff, Leaving
<1>7. \A id \in Ids : Holds(s, id)' <=> Holds(s, id)
  BY <1>2, <1>4, Zenon DEF Holds
<1>8. LoginInv'
  BY <1>2, <1>3, <1>7, LoginFrame, Zenon
<1>9. MapInv'
  <2>1. RegisteredOK(s)'
    BY <1>1, <1>2, <1>3, <1>4, Zenon DEF RegisteredOK, Holds
  <2>2. \A id \in Ids : AccountEntryOK(s, id)'
    BY <1>1, <1>2, <1>3, Zenon DEF AccountEntryOK
  <2>3. \A n \in Names : NameEntryOK(s, n)'
    BY <1>1, <1>2, <1>3, Zenon DEF NameEntryOK
  <2>4. QED
    BY <1>2, <1>3, <2>1, <2>2, <2>3, MapFrame, Zenon
<1>10. QED
  BY <1>2, <1>3, <1>4, <1>5, <1>6, <1>8, <1>9, RoomlessStep, Zenon

\* release_logout_session and release_name_session take out the session's own
\* entry, and no other session's.
LEMMA ReleasedOwn ==
    ASSUME NEW K, NEW map \in [K -> Sessions \cup {None}], NEW s \in Sessions,
           NEW k \in K \cup {None}, None \notin K, \A i \in K : map[i] = s => k = i
    PROVE  /\ Released(map, k, s) \in [K -> Sessions \cup {None}]
           /\ \A i \in K : Released(map, k, s)[i] # s
           /\ \A i \in K, t \in Sessions \ {s} : Released(map, k, s)[i] = t <=> map[i] = t
<1>1. s # None /\ \A t \in Sessions : t # None
  BY GameStateAssumption, Zenon
<1>2. CASE Owns(map, k, s)
  <2>1. k \in K /\ map[k] = s /\ Released(map, k, s) = [map EXCEPT ![k] = None]
    BY <1>2, Zenon DEF Owns, Released
  <2>2. QED
    BY <1>1, <2>1, Zenon
<1>3. CASE ~Owns(map, k, s)
  <2>1. Released(map, k, s) = map /\ \A i \in K : map[i] # s
    BY <1>3, Zenon DEF Owns, Released
  <2>2. QED
    BY <2>1, Zenon
<1>4. QED
  BY <1>2, <1>3, Zenon

\* release_logout_session, of a logout or of a cleanup.
LEMMA ReleaseAccountStep ==
    ASSUME IInv, NEW s \in Sessions, NEW from, NEW to, ReleaseAccount(s, from, to),
           \/ from = "loAccount" /\ to = "loName"
           \/ from = "clAccount" /\ to = "clName"
    PROVE  IInv'
<1>0. /\ pc[s] = from /\ pc' = [pc EXCEPT ![s] = to] /\ UNCHANGED <<arg, result>>
      /\ accountSessions' = Released(accountSessions, account[s], s)
      /\ UNCHANGED <<loginVars, roomVars, sessions, sessionCount, nameSessions, link, userVars,
                     room>>
  BY Zenon DEF ReleaseAccount, Step
<1>1. /\ HandlerOK(s) /\ AccountOK(s) /\ RegisteredOK(s)
      /\ \A id \in Ids : AccountEntryOK(s, id)
      /\ \A n \in Names : NameEntryOK(s, n)
  BY Zenon DEF IInv, SessionInv, MapInv
<1>2. /\ OthersKept(s) /\ link'[s] = link[s] /\ pc'[s] = to /\ room'[s] = room[s]
      /\ isLogin'[s] = isLogin[s] /\ account'[s] = account[s] /\ name'[s] = name[s]
  BY <1>0, Zenon DEF OthersKept, Kept, IInv, TypeOK, userVars
<1>3. /\ userName' = userName /\ loginList' = loginList /\ nameSessions' = nameSessions
      /\ sessions' = sessions /\ sessionCount' = sessionCount
  BY <1>0, Zenon DEF loginVars
<1>4. /\ accountSessions' \in [Ids -> Sessions \cup {None}]
      /\ \A id \in Ids : accountSessions'[id] # s
      /\ \A id \in Ids, t \in Sessions \ {s} : accountSessions'[id] = t <=> accountSessions[id] = t
  <2>1. accountSessions \in [Ids -> Sessions \cup {None}] /\ account[s] \in Ids \cup {None}
    BY Zenon DEF IInv, TypeOK
  <2>2. \A id \in Ids : accountSessions[id] = s => account[s] = id
    BY <1>1, Zenon DEF AccountEntryOK
  <2>3. None \notin Ids
    BY GameStateAssumption, Zenon
  <2>4. /\ Released(accountSessions, account[s], s) \in [Ids -> Sessions \cup {None}]
        /\ \A id \in Ids : Released(accountSessions, account[s], s)[id] # s
        /\ \A id \in Ids, t \in Sessions \ {s} :
              Released(accountSessions, account[s], s)[id] = t <=> accountSessions[id] = t
    BY <2>1, <2>2, <2>3, ReleasedOwn
  <2>5. QED
    BY <1>0, <2>4, Zenon
<1>5. TypeOK'
  <2>1. to \in Labels
    BY Zenon DEF Labels
  <2>2. QED
    BY <1>0, <1>3, <1>4, <2>1, Zenon DEF IInv, TypeOK, roomVars, userVars
<1>6. HandlerOK(s)' /\ room[s] = None /\ room'[s] = None
  BY <1>0, <1>1, <1>2, Zenon DEF HandlerOK, InCleanup, Leaving, NeedLogin, LoggedOff, NoRoom
<1>7. AccountOK(s)'
  BY <1>0, <1>1, <1>2, <1>3, Zenon DEF AccountOK, LoggedOff
<1>8. /\ ~Holds(s, account[s]) /\ ~Holds(s, account[s])'
      /\ \A id \in Ids : Holds(s, id)' <=> Holds(s, id)
  BY <1>0, <1>1, <1>2, Zenon DEF HandlerOK, LoggedOff, Holds
<1>9. LoginInv'
  BY <1>2, <1>3, <1>8, LoginFrame, Zenon
<1>10. MapInv'
  <2>1. RegisteredOK(s)'
    BY <1>8, Zenon DEF RegisteredOK
  <2>2. \A id \in Ids : AccountEntryOK(s, id)'
    BY <1>4, Zenon DEF AccountEntryOK
  <2>3. \A n \in Names : NameEntryOK(s, n)'
    BY <1>0, <1>1, <1>2, <1>3, Zenon DEF NameEntryOK
  <2>4. ASSUME NEW t \in Sessions \ {s}
        PROVE  /\ \A id \in Ids : accountSessions'[id] = t => accountSessions[id] = t
               /\ Holds(t, account[t]) =>
                    (accountSessions[account[t]] = t => accountSessions'[account[t]] = t)
    <3>1. Holds(t, account[t]) => account[t] \in Ids
      BY DEF IInv, SessionInv, AccountOK, TypeOK, Holds
    <3>2. QED
      BY <1>4, <3>1, Zenon
  <2>5. QED
    BY <1>2, <1>3, <2>1, <2>2, <2>3, <2>4, MapFrame, Zenon
<1>11. QED
  BY <1>0, <1>2, <1>3, <1>5, <1>6, <1>7, <1>9, <1>10, RoomlessStep, Zenon

\* add_account_session registers the session of the account.
LEMMA AddAccountSessionStep ==
    ASSUME IInv, NEW s \in Sessions, AddAccountSession(s)
    PROVE  IInv'
<1>0. /\ pc[s] = "liAccount" /\ pc' = [pc EXCEPT ![s] = "liName"] /\ UNCHANGED <<arg, result>>
      /\ accountSessions' = [accountSessions EXCEPT ![account[s]] = s]
      /\ UNCHANGED <<loginVars, roomVars, sessions, sessionCount, nameSessions, link, userVars,
                     room>>
  BY Zenon DEF AddAccountSession, Step, Registered
<1>1. /\ HandlerOK(s) /\ AccountOK(s)
      /\ \A id \in Ids : AccountEntryOK(s, id)
      /\ \A n \in Names : NameEntryOK(s, n)
  BY Zenon DEF IInv, SessionInv, MapInv
<1>2. isLogin[s] /\ room[s] = None /\ account[s] # None /\ Holds(s, account[s])
  BY <1>0, <1>1, Zenon DEF HandlerOK, AccountOK, NeedLogin, NoRoom, Holds
<1>3. /\ OthersKept(s) /\ link'[s] = link[s] /\ pc'[s] = "liName" /\ room'[s] = room[s]
      /\ isLogin'[s] = isLogin[s] /\ account'[s] = account[s] /\ name'[s] = name[s]
  BY <1>0, Zenon DEF OthersKept, Kept, IInv, TypeOK, userVars
<1>4. /\ userName' = userName /\ loginList' = loginList /\ nameSessions' = nameSessions
      /\ sessions' = sessions /\ sessionCount' = sessionCount
  BY <1>0, Zenon DEF loginVars
<1>5. /\ account[s] \in Ids /\ accountSessions' \in [Ids -> Sessions \cup {None}]
      /\ accountSessions'[account[s]] = s
      /\ \A id \in Ids \ {account[s]} : accountSessions'[id] = accountSessions[id]
  BY <1>0, <1>2, Zenon DEF IInv, TypeOK
<1>6. TypeOK'
  <2>1. "liName" \in Labels
    BY Zenon DEF Labels
  <2>2. QED
    BY <1>0, <1>4, <1>5, <2>1, Zenon DEF IInv, TypeOK, roomVars, userVars
<1>7. HandlerOK(s)'
  BY <1>0, <1>1, <1>2, <1>3, Zenon DEF HandlerOK, InCleanup, Leaving, NeedLogin, LoggedOff, NoRoom
<1>8. AccountOK(s)'
  BY <1>1, <1>2, <1>3, <1>4, Zenon DEF AccountOK
<1>9. LoginInv'
  <2>1. \A id \in Ids : Holds(s, id)' <=> Holds(s, id)
    BY <1>0, <1>3, Zenon DEF Holds
  <2>2. QED
    BY <1>3, <1>4, <2>1, LoginFrame, Zenon
<1>10. MapInv'
  <2>1. RegisteredOK(s)'
    BY <1>3, <1>5, Zenon DEF RegisteredOK
  <2>2. \A id \in Ids : AccountEntryOK(s, id)'
    BY <1>0, <1>1, <1>3, <1>5, Zenon DEF AccountEntryOK
  <2>3. \A n \in Names : NameEntryOK(s, n)'
    BY <1>0, <1>1, <1>3, <1>4, Zenon DEF NameEntryOK
  <2>4. ASSUME NEW t \in Sessions \ {s}
        PROVE  /\ \A id \in Ids : accountSessions'[id] = t => accountSessions[id] = t
               /\ Holds(t, account[t]) =>
                    (accountSessions[account[t]] = t => accountSessions'[account[t]] = t)
    <3>1. Holds(t, account[t]) => account[t] \in Ids
      BY Zenon DEF IInv, SessionInv, AccountOK, TypeOK, Holds
    <3>2. Holds(t, account[t]) => account[t] # account[s]
      BY <1>2, <1>5, Zenon DEF IInv, LoginInv
    <3>3. QED
      BY <1>5, <3>1, <3>2, Zenon
  <2>5. QED
    BY <1>3, <1>4, <2>1, <2>2, <2>3, <2>4, MapFrame, Zenon
<1>11. QED
  BY <1>0, <1>2, <1>3, <1>4, <1>6, <1>7, <1>8, <1>9, <1>10, RoomlessStep, Zenon

\* add_name_session registers the session of the name.
LEMMA AddNameSessionStep ==
    ASSUME IInv, NEW s \in Sessions, AddNameSession(s)
    PROVE  IInv'
<1>0. /\ pc[s] = "liName" /\ pc' = [pc EXCEPT ![s] = "ack"] /\ UNCHANGED arg
      /\ result' = [result EXCEPT ![s] = "ok"]
      /\ nameSessions' = [nameSessions EXCEPT ![name[s]] = s]
      /\ UNCHANGED <<loginVars, roomVars, sessions, sessionCount, accountSessions, link, userVars,
                     room>>
  BY Zenon DEF AddNameSession, Ack, Registered
<1>1. /\ HandlerOK(s) /\ AccountOK(s) /\ RegisteredOK(s)
      /\ \A id \in Ids : AccountEntryOK(s, id)
      /\ \A n \in Names : NameEntryOK(s, n)
  BY Zenon DEF IInv, SessionInv, MapInv
<1>2. /\ isLogin[s] /\ room[s] = None /\ account[s] # None /\ Holds(s, account[s])
      /\ name[s] = userName[account[s]] /\ name[s] # None
  BY <1>0, <1>1, Zenon DEF HandlerOK, AccountOK, NeedLogin, NoRoom, Holds
<1>3. /\ OthersKept(s) /\ link'[s] = link[s] /\ pc'[s] = "ack" /\ room'[s] = room[s]
      /\ isLogin'[s] = isLogin[s] /\ account'[s] = account[s] /\ name'[s] = name[s]
  BY <1>0, Zenon DEF OthersKept, Kept, IInv, TypeOK, userVars
<1>4. /\ userName' = userName /\ loginList' = loginList /\ accountSessions' = accountSessions
      /\ sessions' = sessions /\ sessionCount' = sessionCount
  BY <1>0, Zenon DEF loginVars
<1>5. /\ account[s] \in Ids /\ name[s] \in Names
      /\ nameSessions' \in [Names -> Sessions \cup {None}]
      /\ nameSessions'[name[s]] = s
      /\ \A n \in Names \ {name[s]} : nameSessions'[n] = nameSessions[n]
  BY <1>0, <1>2, Zenon DEF IInv, TypeOK
<1>6. TypeOK'
  <2>1. "ack" \in Labels
    BY Zenon DEF Labels
  <2>2. QED
    BY <1>0, <1>4, <1>5, <2>1, Zenon DEF IInv, TypeOK, roomVars, userVars
<1>7. HandlerOK(s)'
  BY <1>0, <1>1, <1>2, <1>3, Zenon DEF HandlerOK, InCleanup, Leaving, NeedLogin, LoggedOff, NoRoom
<1>8. AccountOK(s)'
  BY <1>1, <1>2, <1>3, <1>4, Zenon DEF AccountOK
<1>9. LoginInv'
  <2>1. \A id \in Ids : Holds(s, id)' <=> Holds(s, id)
    BY <1>0, <1>3, Zenon DEF Holds
  <2>2. QED
    BY <1>3, <1>4, <2>1, LoginFrame, Zenon
<1>10. MapInv'
  <2>1. RegisteredOK(s)'
    BY <1>0, <1>1, <1>2, <1>3, <1>4, <1>5, Zenon DEF RegisteredOK
  <2>2. \A id \in Ids : AccountEntryOK(s, id)'
    BY <1>1, <1>3, <1>4, Zenon DEF AccountEntryOK
  <2>3. \A n \in Names : NameEntryOK(s, n)'
    BY <1>1, <1>3, <1>5, Zenon DEF NameEntryOK
  <2>4. ASSUME NEW t \in Sessions \ {s}
        PROVE  /\ \A n \in Names : nameSessions'[n] = t => nameSessions[n] = t
               /\ Holds(t, account[t]) =>
                    (nameSessions[name[t]] = t => nameSessions'[name[t]] = t)
    <3>1. ASSUME Holds(t, account[t]) PROVE name[t] \in Names /\ name[t] # name[s]
      <4>1. AccountOK(t) /\ isLogin[t]
        BY <3>1, Zenon DEF IInv, SessionInv, Holds
      <4>2. account[t] # None /\ name[t] = userName[account[t]] /\ name[t] # None
        BY <4>1, Zenon DEF AccountOK
      <4>3. account[t] \in Ids /\ name[t] \in Names
        BY <4>2, Zenon DEF IInv, TypeOK
      <4>4. account[t] # account[s]
        BY <1>2, <1>5, <3>1, Zenon DEF IInv, LoginInv
      <4>5. QED
        BY <1>2, <1>5, <4>2, <4>3, <4>4 DEF IInv, NamesUnique
    <3>2. QED
      BY <1>5, <3>1, Zenon
  <2>5. QED
    BY <1>3, <1>4, <2>1, <2>2, <2>3, <2>4, MapFrame, Zenon
<1>11. QED
  BY <1>0, <1>2, <1>3, <1>4, <1>6, <1>7, <1>8, <1>9, <1>10, RoomlessStep, Zenon

\* Login::logout gives back the account that the session holds.
LEMMA LogoutFrame ==
    ASSUME IInv, NEW s \in Sessions, OthersKept(s), account[s] \in Ids, Holds(s, account[s]),
           loginList' = loginList \ {account[s]}, \A id \in Ids : ~Holds(s, id)'
    PROVE  LoginInv'
<1>1. \A t \in Sessions \ {s}, id \in Ids : Holds(t, id)' <=> Holds(t, id)
  BY Zenon DEF OthersKept, Kept, Holds
<1>2. ASSUME NEW t \in Sessions, NEW id \in Ids, Holds(t, id)' PROVE id \in loginList'
  <2>1. t # s /\ Holds(t, id)
    BY <1>1, <1>2, Zenon
  <2>2. id \in loginList /\ id # account[s]
    BY <2>1, Zenon DEF IInv, LoginInv
  <2>3. QED
    BY <2>2, Zenon
<1>3. ASSUME NEW id \in loginList' PROVE \E t \in Sessions : Holds(t, id)'
  <2>1. id \in loginList /\ id # account[s] /\ id \in Ids
    BY Zenon DEF IInv, TypeOK
  <2>2. PICK t \in Sessions : Holds(t, id)
    BY <2>1, Zenon DEF IInv, LoginInv
  <2>3. t # s
    BY <2>1, <2>2, Zenon DEF Holds
  <2>4. QED
    BY <1>1, <2>1, <2>2, <2>3, Zenon
<1>4. ASSUME NEW t \in Sessions, NEW u \in Sessions, NEW id \in Ids, Holds(t, id)', Holds(u, id)'
      PROVE  t = u
  <2>1. t # s /\ u # s
    BY <1>4, Zenon
  <2>2. Holds(t, id) /\ Holds(u, id)
    BY <1>1, <1>4, <2>1, Zenon
  <2>3. QED
    BY <2>2, Zenon DEF IInv, LoginInv
<1>5. QED
  BY <1>2, <1>3, <1>4, Zenon DEF LoginInv

\* Login::logout of a REQ_LOGOUT.
LEMMA LogoutAccountStep ==
    ASSUME IInv, NEW s \in Sessions, LogoutAccount(s)
    PROVE  IInv'
<1>1. /\ pc[s] = "loLogout" /\ HandlerOK(s) /\ AccountOK(s) /\ RegisteredOK(s)
      /\ \A id \in Ids : AccountEntryOK(s, id)
      /\ \A n \in Names : NameEntryOK(s, n)
  BY Zenon DEF LogoutAccount, IInv, SessionInv, MapInv
<1>2. isLogin[s] /\ room[s] = None /\ account[s] # None /\ Holds(s, account[s])
  BY <1>1, Zenon DEF HandlerOK, AccountOK, NeedLogin, NoRoom, Holds
<1>3. account[s] \in Ids /\ account[s] \in loginList
  BY <1>2, Zenon DEF IInv, TypeOK, LoginInv
<1>4. /\ Goto(s, "loAccount", None) /\ loginList' = loginList \ {account[s]}
      /\ UNCHANGED <<userName, roomVars, managerVars, link, userVars, room>>
  BY <1>3, Zenon DEF LogoutAccount
<1>5. /\ OthersKept(s) /\ link'[s] = link[s] /\ pc'[s] = "loAccount" /\ room'[s] = room[s]
      /\ isLogin'[s] = isLogin[s] /\ account'[s] = account[s] /\ name'[s] = name[s]
  BY <1>4, Zenon DEF Goto, OthersKept, Kept, IInv, TypeOK, userVars
<1>6. /\ userName' = userName /\ sessions' = sessions /\ sessionCount' = sessionCount
      /\ accountSessions' = accountSessions /\ nameSessions' = nameSessions
  BY <1>4, Zenon DEF managerVars
<1>7. TypeOK'
  <2>1. "loAccount" \in Labels
    BY Zenon DEF Labels
  <2>2. QED
    BY <1>4, <1>6, <2>1, Zenon DEF Goto, IInv, TypeOK, roomVars, userVars
<1>8. HandlerOK(s)'
  BY <1>1, <1>2, <1>5, Zenon DEF HandlerOK, InCleanup, Leaving, NeedLogin, LoggedOff, NoRoom
<1>9. AccountOK(s)'
  BY <1>1, <1>2, <1>5, <1>6, Zenon DEF AccountOK
<1>10. LoginInv'
  <2>1. \A id \in Ids : ~Holds(s, id)'
    BY <1>5, Zenon DEF Holds
  <2>2. QED
    BY <1>2, <1>3, <1>4, <1>5, <2>1, LogoutFrame, Zenon
<1>11. MapInv'
  <2>1. RegisteredOK(s)'
    BY <1>5, Zenon DEF RegisteredOK, Holds
  <2>2. \A id \in Ids : AccountEntryOK(s, id)'
    BY <1>1, <1>5, <1>6, Zenon DEF AccountEntryOK
  <2>3. \A n \in Names : NameEntryOK(s, n)'
    BY <1>1, <1>5, <1>6, Zenon DEF NameEntryOK
  <2>4. QED
    BY <1>5, <1>6, <2>1, <2>2, <2>3, MapFrame, Zenon
<1>12. QED
  BY <1>1, <1>2, <1>4, <1>5, <1>6, <1>7, <1>8, <1>9, <1>10, <1>11, RoomlessStep, Zenon

\* The cleanup logs the account out when the session was logged in.
LEMMA CleanupLoginStep ==
    ASSUME IInv, NEW s \in Sessions, CleanupLogin(s)
    PROVE  IInv'
<1>0. /\ pc[s] = "clLogin" /\ pc' = [pc EXCEPT ![s] = "clAccount"] /\ UNCHANGED <<arg, result>>
      /\ loginList' = LoggedOut(s) /\ isLogin' = [isLogin EXCEPT ![s] = FALSE]
      /\ UNCHANGED <<userName, roomVars, managerVars, link, account, name, room>>
  BY Zenon DEF CleanupLogin, Step
<1>1. /\ HandlerOK(s) /\ AccountOK(s)
      /\ \A id \in Ids : AccountEntryOK(s, id)
      /\ \A n \in Names : NameEntryOK(s, n)
  BY Zenon DEF IInv, SessionInv, MapInv
<1>2. room[s] = None /\ link[s] = "closing" /\ (isLogin[s] => account[s] # None)
  BY <1>0, <1>1, Zenon DEF HandlerOK, AccountOK, InCleanup, NoRoom
<1>3. /\ OthersKept(s) /\ link'[s] = link[s] /\ pc'[s] = "clAccount" /\ room'[s] = room[s]
      /\ ~isLogin'[s] /\ account'[s] = account[s] /\ name'[s] = name[s]
  BY <1>0, Zenon DEF OthersKept, Kept, IInv, TypeOK
<1>4. /\ userName' = userName /\ sessions' = sessions /\ sessionCount' = sessionCount
      /\ accountSessions' = accountSessions /\ nameSessions' = nameSessions
  BY <1>0, Zenon DEF managerVars
<1>5. loginList' \subseteq Ids
  BY <1>0, Zenon DEF LoggedOut, IInv, TypeOK
<1>6. TypeOK'
  <2>1. "clAccount" \in Labels
    BY Zenon DEF Labels
  <2>2. isLogin' \in [Sessions -> BOOLEAN]
    BY <1>0, Zenon DEF IInv, TypeOK
  <2>3. QED
    BY <1>0, <1>4, <1>5, <2>1, <2>2, Zenon DEF IInv, TypeOK, roomVars
<1>7. HandlerOK(s)'
  BY <1>0, <1>1, <1>2, <1>3, Zenon DEF HandlerOK, InCleanup, Leaving, NeedLogin, LoggedOff, NoRoom
<1>8. AccountOK(s)'
  BY <1>1, <1>3, <1>4, Zenon DEF AccountOK, LoggedOff
<1>9. LoginInv'
  <2>1. \A id \in Ids : ~Holds(s, id)'
    BY <1>3, Zenon DEF Holds
  <2>2. CASE isLogin[s]
    <3>1. account[s] \in Ids /\ Holds(s, account[s])
      BY <1>0, <1>2, <2>2, Zenon DEF Holds, IInv, TypeOK
    <3>2. QED
      BY <1>0, <1>3, <2>1, <2>2, <3>1, LogoutFrame, Zenon DEF LoggedOut
  <2>3. CASE ~isLogin[s]
    <3>1. \A id \in Ids : Holds(s, id)' <=> Holds(s, id)
      BY <2>1, <2>3, Zenon DEF Holds
    <3>2. QED
      BY <1>0, <1>3, <2>3, <3>1, LoginFrame, Zenon DEF LoggedOut
  <2>4. QED
    BY <2>2, <2>3, Zenon
<1>10. MapInv'
  <2>1. RegisteredOK(s)'
    BY <1>3, Zenon DEF RegisteredOK, Holds
  <2>2. \A id \in Ids : AccountEntryOK(s, id)'
    BY <1>1, <1>3, <1>4, Zenon DEF AccountEntryOK
  <2>3. \A n \in Names : NameEntryOK(s, n)'
    BY <1>1, <1>3, <1>4, Zenon DEF NameEntryOK
  <2>4. QED
    BY <1>3, <1>4, <2>1, <2>2, <2>3, MapFrame, Zenon
<1>11. QED
  BY <1>0, <1>2, <1>3, <1>4, <1>6, <1>7, <1>8, <1>9, <1>10, RoomlessStep, Zenon

\* release_name_session takes out the session's own entry only.
LEMMA ReleasedName ==
    ASSUME IInv, NEW s \in Sessions, nameSessions' = Released(nameSessions, name[s], s)
    PROVE  /\ nameSessions' \in [Names -> Sessions \cup {None}]
           /\ \A n \in Names : nameSessions'[n] # s
           /\ \A t \in Sessions \ {s} :
                /\ \A n \in Names : nameSessions'[n] = t => nameSessions[n] = t
                /\ Holds(t, account[t]) =>
                      (nameSessions[name[t]] = t => nameSessions'[name[t]] = t)
<1>1. nameSessions \in [Names -> Sessions \cup {None}] /\ name[s] \in Names \cup {None}
  BY Zenon DEF IInv, TypeOK
<1>2. \A n \in Names : nameSessions[n] = s => name[s] = n
  BY Zenon DEF IInv, MapInv, NameEntryOK
<1>3. None \notin Names
  BY GameStateAssumption, Zenon
<1>4. /\ Released(nameSessions, name[s], s) \in [Names -> Sessions \cup {None}]
      /\ \A n \in Names : Released(nameSessions, name[s], s)[n] # s
      /\ \A n \in Names, t \in Sessions \ {s} :
            Released(nameSessions, name[s], s)[n] = t <=> nameSessions[n] = t
  BY <1>1, <1>2, <1>3, ReleasedOwn
<1>5. ASSUME NEW t \in Sessions, Holds(t, account[t]) PROVE name[t] \in Names
  <2>1. AccountOK(t) /\ isLogin[t]
    BY <1>5, Zenon DEF IInv, SessionInv, Holds
  <2>2. name[t] # None
    BY <2>1, Zenon DEF AccountOK
  <2>3. QED
    BY <2>2, Zenon DEF IInv, TypeOK
<1>6. QED
  BY <1>4, <1>5, Zenon

\* The end of a logout: the name is released and the session has no account.
LEMMA LogoutEndStep ==
    ASSUME IInv, NEW s \in Sessions, LogoutEnd(s)
    PROVE  IInv'
<1>0. /\ pc[s] = "loName" /\ pc' = [pc EXCEPT ![s] = "ack"] /\ UNCHANGED arg
      /\ result' = [result EXCEPT ![s] = "ok"]
      /\ nameSessions' = Released(nameSessions, name[s], s)
      /\ isLogin' = [isLogin EXCEPT ![s] = FALSE] /\ account' = [account EXCEPT ![s] = None]
      /\ name' = [name EXCEPT ![s] = None]
      /\ UNCHANGED <<loginVars, roomVars, sessions, sessionCount, accountSessions, link, room>>
  BY Zenon DEF LogoutEnd, ReleaseName, Ack
<1>1. /\ HandlerOK(s) /\ AccountOK(s)
      /\ \A id \in Ids : AccountEntryOK(s, id)
      /\ \A n \in Names : NameEntryOK(s, n)
  BY Zenon DEF IInv, SessionInv, MapInv
<1>2. room[s] = None
  BY <1>0, <1>1, Zenon DEF HandlerOK, NoRoom
<1>3. /\ OthersKept(s) /\ link'[s] = link[s] /\ pc'[s] = "ack" /\ room'[s] = room[s]
      /\ ~isLogin'[s] /\ account'[s] = None /\ name'[s] = None
  BY <1>0, Zenon DEF OthersKept, Kept, IInv, TypeOK
<1>4. /\ userName' = userName /\ loginList' = loginList /\ accountSessions' = accountSessions
      /\ sessions' = sessions /\ sessionCount' = sessionCount
  BY <1>0, Zenon DEF loginVars
<1>5. /\ nameSessions' \in [Names -> Sessions \cup {None}]
      /\ \A n \in Names : nameSessions'[n] # s
      /\ \A t \in Sessions \ {s} :
           /\ \A n \in Names : nameSessions'[n] = t => nameSessions[n] = t
           /\ Holds(t, account[t]) => (nameSessions[name[t]] = t => nameSessions'[name[t]] = t)
  BY <1>0, ReleasedName, Zenon
<1>6. TypeOK'
  <2>1. "ack" \in Labels
    BY Zenon DEF Labels
  <2>2. isLogin' \in [Sessions -> BOOLEAN]
    BY <1>0, Zenon DEF IInv, TypeOK
  <2>3. QED
    BY <1>0, <1>4, <1>5, <2>1, <2>2, Zenon DEF IInv, TypeOK, roomVars
<1>7. HandlerOK(s)'
  BY <1>0, <1>1, <1>2, <1>3, Zenon DEF HandlerOK, InCleanup, Leaving, NeedLogin, LoggedOff, NoRoom
<1>8. AccountOK(s)'
  BY <1>3, Zenon DEF AccountOK
<1>9. LoginInv'
  <2>1. \A id \in Ids : Holds(s, id)' <=> Holds(s, id)
    BY <1>0, <1>3, Zenon DEF Holds
  <2>2. QED
    BY <1>3, <1>4, <2>1, LoginFrame, Zenon
<1>10. MapInv'
  <2>1. RegisteredOK(s)'
    BY <1>3, Zenon DEF RegisteredOK, Holds
  <2>2. \A id \in Ids : AccountEntryOK(s, id)'
    BY <1>0, <1>1, <1>4, Zenon DEF AccountEntryOK
  <2>3. \A n \in Names : NameEntryOK(s, n)'
    BY <1>5, Zenon DEF NameEntryOK
  <2>4. QED
    BY <1>3, <1>4, <1>5, <2>1, <2>2, <2>3, MapFrame, Zenon
<1>11. QED
  BY <1>0, <1>2, <1>3, <1>4, <1>6, <1>7, <1>8, <1>9, <1>10, RoomlessStep, Zenon

\* The cleanup releases the name.
LEMMA CleanupReleaseNameStep ==
    ASSUME IInv, NEW s \in Sessions, CleanupReleaseName(s)
    PROVE  IInv'
<1>0. /\ pc[s] = "clName" /\ pc' = [pc EXCEPT ![s] = "clErase"] /\ UNCHANGED <<arg, result>>
      /\ nameSessions' = Released(nameSessions, name[s], s)
      /\ UNCHANGED <<loginVars, roomVars, sessions, sessionCount, accountSessions, link, room,
                     userVars>>
  BY Zenon DEF CleanupReleaseName, CleanupName, ReleaseName, Step
<1>1. /\ HandlerOK(s) /\ AccountOK(s)
      /\ \A id \in Ids : AccountEntryOK(s, id)
      /\ \A n \in Names : NameEntryOK(s, n)
  BY Zenon DEF IInv, SessionInv, MapInv
<1>2. room[s] = None /\ link[s] = "closing" /\ ~isLogin[s]
  BY <1>0, <1>1, Zenon DEF HandlerOK, InCleanup, NoRoom, LoggedOff
<1>3. /\ OthersKept(s) /\ link'[s] = link[s] /\ pc'[s] = "clErase" /\ room'[s] = room[s]
      /\ isLogin'[s] = isLogin[s] /\ account'[s] = account[s] /\ name'[s] = name[s]
  BY <1>0, Zenon DEF OthersKept, Kept, IInv, TypeOK, userVars
<1>4. /\ userName' = userName /\ loginList' = loginList /\ accountSessions' = accountSessions
      /\ sessions' = sessions /\ sessionCount' = sessionCount
  BY <1>0, Zenon DEF loginVars
<1>5. /\ nameSessions' \in [Names -> Sessions \cup {None}]
      /\ \A n \in Names : nameSessions'[n] # s
      /\ \A t \in Sessions \ {s} :
           /\ \A n \in Names : nameSessions'[n] = t => nameSessions[n] = t
           /\ Holds(t, account[t]) => (nameSessions[name[t]] = t => nameSessions'[name[t]] = t)
  BY <1>0, ReleasedName, Zenon
<1>6. TypeOK'
  <2>1. "clErase" \in Labels
    BY Zenon DEF Labels
  <2>2. QED
    BY <1>0, <1>4, <1>5, <2>1, Zenon DEF IInv, TypeOK, roomVars, userVars
<1>7. HandlerOK(s)'
  BY <1>0, <1>1, <1>2, <1>3, Zenon DEF HandlerOK, InCleanup, Leaving, NeedLogin, LoggedOff, NoRoom
<1>8. AccountOK(s)'
  BY <1>0, <1>1, <1>3, <1>4, Zenon DEF AccountOK, LoggedOff
<1>9. LoginInv'
  <2>1. \A id \in Ids : Holds(s, id)' <=> Holds(s, id)
    BY <1>2, <1>3, Zenon DEF Holds
  <2>2. QED
    BY <1>3, <1>4, <2>1, LoginFrame, Zenon
<1>10. MapInv'
  <2>1. RegisteredOK(s)'
    BY <1>2, <1>3, Zenon DEF RegisteredOK, Holds
  <2>2. \A id \in Ids : AccountEntryOK(s, id)'
    BY <1>0, <1>1, <1>4, Zenon DEF AccountEntryOK
  <2>3. \A n \in Names : NameEntryOK(s, n)'
    BY <1>5, Zenon DEF NameEntryOK
  <2>4. QED
    BY <1>3, <1>4, <1>5, <2>1, <2>2, <2>3, MapFrame, Zenon
<1>11. QED
  BY <1>0, <1>2, <1>3, <1>4, <1>6, <1>7, <1>8, <1>9, <1>10, RoomlessStep, Zenon

-----------------------------------------------------------------------------
(* A session comes, logs in, and goes *)

\* SessionManager::add_session admits a session.
LEMMA AddSessionStep ==
    ASSUME IInv, NEW s \in Sessions, AddSession(s)
    PROVE  IInv'
<1>0. /\ link[s] = "free" /\ HasPlace /\ link' = [link EXCEPT ![s] = "joining"]
      /\ sessions' = sessions \cup {s} /\ sessionCount' = sessionCount + 1
      /\ UNCHANGED <<loginVars, roomVars, accountSessions, nameSessions, userVars, room, pc, arg,
                     result>>
  BY Zenon DEF AddSession
<1>1. HandlerOK(s) /\ AccountOK(s)
  BY Zenon DEF IInv, SessionInv
<1>2. /\ OthersKept(s) /\ link'[s] = "joining" /\ pc'[s] = pc[s] /\ arg'[s] = arg[s]
      /\ room'[s] = room[s]
      /\ isLogin'[s] = isLogin[s] /\ account'[s] = account[s] /\ name'[s] = name[s]
  BY <1>0, Zenon DEF OthersKept, Kept, IInv, TypeOK, userVars
<1>3. /\ userName' = userName /\ loginList' = loginList /\ roomList' = roomList
      /\ roomCount' = roomCount
      /\ accountSessions' = accountSessions /\ nameSessions' = nameSessions
  BY <1>0, Zenon DEF loginVars, roomVars
<1>4. TypeOK'
  BY <1>0, <1>3 DEF IInv, TypeOK, userVars
<1>5. HandlerOK(s)'
  BY <1>0, <1>1, <1>2, Zenon DEF HandlerOK, InCleanup, Leaving, NeedLogin, LoggedOff, NoRoom
<1>6. AccountOK(s)'
  BY <1>1, <1>2, <1>3, Zenon DEF AccountOK
<1>7. \A id \in Ids : Holds(s, id)' <=> Holds(s, id)
  BY <1>2, Zenon DEF Holds
<1>8. SessionInv' /\ NamesUnique' /\ LoginInv' /\ CountInv'
  <2>1. SessionInv' /\ LoginInv'
    BY <1>2, <1>3, <1>5, <1>6, <1>7, SessionFrame, LoginFrame, Zenon
  <2>2. NamesUnique' /\ CountInv'
    BY <1>3, Zenon DEF IInv, NamesUnique, CountInv, Listed
  <2>3. QED
    BY <2>1, <2>2, Zenon
<1>9. RoomInv'
  <2>1. RoomIdOK(s)'
    BY <1>2, <1>3, Zenon DEF IInv, RoomInv, RoomIdOK
  <2>2. ASSUME NEW r \in Rooms, NEW id \in Ids PROVE MemberOK(s, r, id)'
    <3>1. MemberOK(s, r, id)
      BY Zenon DEF IInv, RoomInv
    <3>2. QED
      BY <1>2, <1>3, <1>7, <3>1, Zenon DEF MemberOK
  <2>3. QED
    BY <1>2, <1>3, <2>1, <2>2, RoomFrame, Zenon
<1>10. MapInv'
  <2>1. RegisteredOK(s)'
    BY <1>2, <1>3, Zenon DEF IInv, MapInv, RegisteredOK, Holds
  <2>2. \A id \in Ids : AccountEntryOK(s, id)'
    BY <1>2, <1>3, Zenon DEF IInv, MapInv, AccountEntryOK
  <2>3. \A n \in Names : NameEntryOK(s, n)'
    BY <1>2, <1>3, Zenon DEF IInv, MapInv, NameEntryOK
  <2>4. QED
    BY <1>2, <1>3, <2>1, <2>2, <2>3, MapFrame, Zenon
<1>11. CapacityRespected'
  <2>1. sessions = {t \in Sessions : link[t] # "free"} /\ sessionCount = Cardinality(sessions)
    BY Zenon DEF IInv, CapacityRespected
  <2>2. IsFiniteSet(sessions) /\ s \notin sessions
    BY <1>0, <2>1, FS_Subset, GameStateAssumption, Zenon
  <2>3. Cardinality(sessions \cup {s}) = Cardinality(sessions) + 1
    BY <2>2, FS_AddElement, Zenon
  <2>4. sessions' = {t \in Sessions : link'[t] # "free"}
    BY <1>0, <1>2, <2>1, Zenon DEF OthersKept, Kept
  <2>5. sessionCount + 1 <= MaxSessions
    BY <1>0, GameStateAssumption DEF HasPlace, IInv, TypeOK
  <2>6. QED
    BY <1>0, <2>1, <2>3, <2>4, <2>5, Zenon DEF CapacityRespected
<1>12. QED
  BY <1>4, <1>8, <1>9, <1>10, <1>11, Zenon DEF IInv

\* The cleanup ends: the session leaves the session set and is gone.
LEMMA CleanupEraseStep ==
    ASSUME IInv, NEW s \in Sessions, CleanupErase(s)
    PROVE  IInv'
<1>0. /\ pc[s] = "clErase" /\ pc' = [pc EXCEPT ![s] = "idle"] /\ UNCHANGED <<arg, result>>
      /\ sessions' = sessions \ {s}
      /\ sessionCount' = IF s \in sessions THEN sessionCount - 1 ELSE sessionCount
      /\ account' = [account EXCEPT ![s] = None] /\ name' = [name EXCEPT ![s] = None]
      /\ room' = [room EXCEPT ![s] = None] /\ link' = [link EXCEPT ![s] = "free"]
      /\ UNCHANGED <<loginVars, roomVars, accountSessions, nameSessions, isLogin>>
  BY Zenon DEF CleanupErase, Step
<1>1. /\ HandlerOK(s) /\ \A id \in Ids : AccountEntryOK(s, id)
      /\ \A n \in Names : NameEntryOK(s, n)
  BY Zenon DEF IInv, SessionInv, MapInv
<1>2. room[s] = None /\ link[s] = "closing" /\ ~isLogin[s]
  BY <1>0, <1>1, Zenon DEF HandlerOK, InCleanup, NoRoom, LoggedOff
<1>3. /\ OthersKept(s) /\ link'[s] = "free" /\ pc'[s] = "idle" /\ room'[s] = None
      /\ isLogin'[s] = isLogin[s] /\ account'[s] = None /\ name'[s] = None
  BY <1>0, Zenon DEF OthersKept, Kept, IInv, TypeOK
<1>4. /\ userName' = userName /\ loginList' = loginList /\ roomList' = roomList
      /\ roomCount' = roomCount
      /\ accountSessions' = accountSessions /\ nameSessions' = nameSessions
  BY <1>0, Zenon DEF loginVars, roomVars
<1>5. TypeOK'
  <2>1. "idle" \in Labels
    BY Zenon DEF Labels
  <2>2. sessions' \subseteq Sessions /\ sessionCount' \in Int
    BY <1>0 DEF IInv, TypeOK
  <2>3. QED
    BY <1>0, <1>4, <2>1, <2>2, Zenon DEF IInv, TypeOK
<1>6. HandlerOK(s)'
  BY <1>2, <1>3, Zenon DEF HandlerOK, InCleanup, Leaving, NeedLogin, LoggedOff, NoRoom
<1>7. AccountOK(s)'
  BY <1>2, <1>3, Zenon DEF AccountOK
<1>8. \A id \in Ids : ~Holds(s, id) /\ ~Holds(s, id)'
  BY <1>2, <1>3, Zenon DEF Holds
<1>9. SessionInv' /\ NamesUnique' /\ LoginInv' /\ CountInv'
  <2>1. SessionInv' /\ LoginInv'
    BY <1>3, <1>4, <1>6, <1>7, <1>8, SessionFrame, LoginFrame, Zenon
  <2>2. NamesUnique' /\ CountInv'
    BY <1>4, Zenon DEF IInv, NamesUnique, CountInv, Listed
  <2>3. QED
    BY <2>1, <2>2, Zenon
<1>10. RoomInv'
  <2>1. RoomIdOK(s)'
    BY <1>3, Zenon DEF RoomIdOK
  <2>2. ASSUME NEW r \in Rooms, NEW id \in Ids PROVE MemberOK(s, r, id)'
    <3>1. MemberOK(s, r, id)
      BY Zenon DEF IInv, RoomInv
    <3>2. QED
      BY <1>4, <1>8, <3>1, Zenon DEF MemberOK
  <2>3. QED
    BY <1>3, <1>4, <2>1, <2>2, RoomFrame, Zenon
<1>11. MapInv'
  <2>1. RegisteredOK(s)'
    BY <1>2, <1>3, Zenon DEF RegisteredOK, Holds
  <2>2. \A id \in Ids : AccountEntryOK(s, id)'
    BY <1>0, <1>1, <1>4, Zenon DEF AccountEntryOK
  <2>3. \A n \in Names : NameEntryOK(s, n)'
    BY <1>0, <1>1, <1>4, Zenon DEF NameEntryOK
  <2>4. QED
    BY <1>3, <1>4, <2>1, <2>2, <2>3, MapFrame, Zenon
<1>12. CapacityRespected'
  <2>1. /\ sessions = {t \in Sessions : link[t] # "free"} /\ sessionCount = Cardinality(sessions)
        /\ sessionCount <= MaxSessions
    BY Zenon DEF IInv, CapacityRespected
  <2>2. IsFiniteSet(sessions) /\ s \in sessions
    BY <1>2, <2>1, FS_Subset, GameStateAssumption, Zenon
  <2>3. Cardinality(sessions \ {s}) = Cardinality(sessions) - 1
    BY <2>2, FS_RemoveElement, Zenon
  <2>4. sessions' = {t \in Sessions : link'[t] # "free"}
    BY <1>0, <1>3, <2>1, Zenon DEF OthersKept, Kept
  <2>5. sessionCount \in Int /\ MaxSessions \in Int
    BY GameStateAssumption DEF IInv, TypeOK
  <2>6. QED
    BY <1>0, <2>1, <2>2, <2>3, <2>4, <2>5 DEF CapacityRespected
<1>13. QED
  BY <1>5, <1>9, <1>10, <1>11, <1>12, Zenon DEF IInv

\* Login::login or Login::create_account succeeds: the account was not in the login
\* list, now it is, and its name is its own.
LEMMA AccountEffect ==
    ASSUME IInv, NEW id \in Ids, LoginAccount(id) \/ \E n \in Names : CreateAccount(id, n)
    PROVE  /\ id \notin loginList /\ loginList' = loginList \cup {id}
           /\ userName' \in [Ids -> Names \cup {None}] /\ userName'[id] # None
           /\ \A i \in Ids \ {id} : userName'[i] = userName[i] /\ userName'[i] # userName'[id]
           /\ userName[id] = None \/ userName'[id] = userName[id]
<1>1. CASE LoginAccount(id)
  BY <1>1, Zenon DEF LoginAccount, MayLogin, IInv, TypeOK, NamesUnique
<1>2. ASSUME NEW n \in Names, CreateAccount(id, n)
      PROVE  /\ id \notin loginList /\ loginList' = loginList \cup {id}
             /\ userName' \in [Ids -> Names \cup {None}] /\ userName'[id] # None
             /\ \A i \in Ids \ {id} : userName'[i] = userName[i] /\ userName'[i] # userName'[id]
             /\ userName[id] = None
  <2>1. /\ userName[id] = None /\ \A i \in Ids : userName[i] # n
        /\ userName' = [userName EXCEPT ![id] = n] /\ loginList' = loginList \cup {id}
    BY <1>2, Zenon DEF CreateAccount
  <2>2. ASSUME id \in loginList PROVE FALSE
    <3>1. PICK t \in Sessions : Holds(t, id)
      BY <2>2, Zenon DEF IInv, LoginInv
    <3>2. AccountOK(t) /\ isLogin[t] /\ account[t] = id
      BY <3>1, Zenon DEF IInv, SessionInv, Holds
    <3>3. QED
      BY <2>1, <3>2, Zenon DEF AccountOK
  <2>3. n # None
    BY GameStateAssumption, Zenon
  <2>4. userName \in [Ids -> Names \cup {None}]
    BY Zenon DEF IInv, TypeOK
  <2>5. QED
    BY <2>1, <2>2, <2>3, <2>4, Zenon
<1>3. QED
  BY <1>1, <1>2, Zenon

\* Login::login or Login::create_account succeeds for a session.
LEMMA LoginSucceedsStep ==
    ASSUME IInv, NEW s \in Sessions, NEW id \in Ids, LoginSucceeds(s, id)
    PROVE  IInv'
<1>0. /\ pc[s] = "idle" /\ link[s] = "connected" /\ ~isLogin[s]
      /\ pc' = [pc EXCEPT ![s] = "liAccount"] /\ arg' = [arg EXCEPT ![s] = None] /\ UNCHANGED result
      /\ isLogin' = [isLogin EXCEPT ![s] = TRUE] /\ account' = [account EXCEPT ![s] = id]
      /\ name' = [name EXCEPT ![s] = userName'[id]]
      /\ UNCHANGED <<roomVars, managerVars, link, room>>
  BY Zenon DEF LoginSucceeds, Begins, Goto
<1>1. /\ HandlerOK(s) /\ AccountOK(s) /\ \A i \in Ids : AccountEntryOK(s, i)
      /\ \A n \in Names : NameEntryOK(s, n)
  BY Zenon DEF IInv, SessionInv, MapInv
<1>2. /\ id \notin loginList /\ loginList' = loginList \cup {id}
      /\ userName' \in [Ids -> Names \cup {None}] /\ userName'[id] # None
      /\ \A i \in Ids \ {id} : userName'[i] = userName[i] /\ userName'[i] # userName'[id]
      /\ userName[id] = None \/ userName'[id] = userName[id]
  <2>1. LoginAccount(id) \/ \E n \in Names : CreateAccount(id, n)
    BY Zenon DEF LoginSucceeds
  <2>2. QED
    BY <2>1, AccountEffect, Zenon
<1>3. account[s] = None /\ name[s] = None /\ room[s] = None
  BY <1>0, <1>1, Zenon DEF HandlerOK, AccountOK, LoggedOff
<1>4. userName'[id] \in Names /\ id # None
  BY <1>2, GameStateAssumption, Zenon
<1>5. /\ OthersKept(s) /\ link'[s] = link[s] /\ pc'[s] = "liAccount" /\ room'[s] = None
      /\ isLogin'[s] /\ account'[s] = id /\ name'[s] = userName'[id]
  BY <1>0, <1>3, Zenon DEF OthersKept, Kept, IInv, TypeOK
<1>6. /\ roomList' = roomList /\ roomCount' = roomCount
      /\ sessions' = sessions /\ sessionCount' = sessionCount
      /\ accountSessions' = accountSessions /\ nameSessions' = nameSessions
  BY <1>0, Zenon DEF roomVars, managerVars
<1>7. TypeOK'
  <2>1. "liAccount" \in Labels /\ loginList' \subseteq Ids
    BY <1>2, Zenon DEF Labels, IInv, TypeOK
  <2>2. isLogin' \in [Sessions -> BOOLEAN]
    BY <1>0, Zenon DEF IInv, TypeOK
  <2>3. QED
    BY <1>0, <1>2, <1>4, <1>6, <2>1, <2>2, Zenon DEF IInv, TypeOK
<1>8. SessionInv'
  <2>1. HandlerOK(s)'
    BY <1>0, <1>5, Zenon DEF HandlerOK, InCleanup, Leaving, NeedLogin, LoggedOff, NoRoom
  <2>2. AccountOK(s)'
    BY <1>2, <1>4, <1>5, Zenon DEF AccountOK
  <2>3. ASSUME NEW t \in Sessions \ {s}, account[t] # None
        PROVE  userName'[account[t]] = userName[account[t]]
    <3>1. account[t] \in Ids /\ AccountOK(t)
      BY <2>3, Zenon DEF IInv, TypeOK, SessionInv
    <3>2. userName[account[t]] # None
      BY <2>3, <3>1, Zenon DEF AccountOK
    <3>3. QED
      BY <1>2, <3>1, <3>2, Zenon
  <2>4. QED
    BY <1>5, <2>1, <2>2, <2>3, SessionFrame, Zenon
<1>9. NamesUnique' /\ CountInv' /\ CapacityRespected'
  <2>1. NamesUnique'
    BY <1>2, Zenon DEF IInv, NamesUnique
  <2>2. CountInv'
    BY <1>6, Zenon DEF IInv, CountInv, Listed
  <2>3. QED
    BY <1>5, <1>6, <2>1, <2>2, CapacityFrame, Zenon
<1>10. LoginInv'
  <2>1. \A t \in Sessions \ {s}, i \in Ids : Holds(t, i)' <=> Holds(t, i)
    BY <1>5, Zenon DEF OthersKept, Kept, Holds
  <2>2. \A i \in Ids : (Holds(s, i)' <=> i = id) /\ ~Holds(s, i)
    BY <1>0, <1>5, Zenon DEF Holds
  <2>3. \A t \in Sessions : ~Holds(t, id)
    BY <1>2, Zenon DEF IInv, LoginInv
  <2>4. loginList \subseteq Ids
    BY Zenon DEF IInv, TypeOK
  <2>5. QED
    BY <1>2, <2>1, <2>2, <2>3, <2>4 DEF IInv, LoginInv
<1>11. RoomInv'
  <2>1. RoomIdOK(s)'
    BY <1>5, Zenon DEF RoomIdOK
  <2>2. ASSUME NEW r \in Rooms, NEW i \in Ids PROVE MemberOK(s, r, i)'
    <3>1. MemberOK(s, r, i)
      BY Zenon DEF IInv, RoomInv
    <3>2. QED
      BY <1>0, <1>6, <3>1, Zenon DEF MemberOK, Holds
  <2>3. QED
    BY <1>5, <1>6, <2>1, <2>2, RoomFrame, Zenon
<1>12. MapInv'
  <2>1. RegisteredOK(s)'
    BY <1>5, Zenon DEF RegisteredOK
  <2>2. \A i \in Ids : AccountEntryOK(s, i)'
    BY <1>1, <1>3, <1>6, GameStateAssumption, Zenon DEF AccountEntryOK
  <2>3. \A n \in Names : NameEntryOK(s, n)'
    BY <1>1, <1>3, <1>6, GameStateAssumption, Zenon DEF NameEntryOK
  <2>4. QED
    BY <1>5, <1>6, <2>1, <2>2, <2>3, MapFrame, Zenon
<1>13. QED
  BY <1>7, <1>8, <1>9, <1>10, <1>11, <1>12, Zenon DEF IInv

-----------------------------------------------------------------------------
(* Every step keeps the invariant *)

\* The server starts with no account, no session and empty rooms.
LEMMA InitInv == Init => IInv
<1> SUFFICES ASSUME Init PROVE IInv
  BY Zenon
<1>1. TypeOK
  BY GameStateAssumption DEF Init, TypeOK, Labels
<1>2. SessionInv
  <2> SUFFICES ASSUME NEW s \in Sessions PROVE HandlerOK(s) /\ AccountOK(s)
    BY Zenon DEF SessionInv
  <2>1. /\ pc[s] = "idle" /\ ~isLogin[s] /\ account[s] = None /\ name[s] = None
        /\ room[s] = None
    BY Zenon DEF Init
  <2>2. QED
    BY <2>1, Zenon DEF HandlerOK, AccountOK, InCleanup, Leaving, NeedLogin, LoggedOff, NoRoom
<1>3. NamesUnique /\ LoginInv
  BY Zenon DEF Init, NamesUnique, LoginInv, Holds
<1>4. RoomInv
  BY GameStateAssumption, Zenon DEF Init, RoomInv, MemberOK, RoomIdOK
<1>5. MapInv
  BY GameStateAssumption, Zenon DEF Init, MapInv, RegisteredOK, AccountEntryOK, NameEntryOK, Holds
<1>6. CountInv
  <2>1. \A r \in Rooms : Listed(r) = {} /\ roomCount[r] = 0
    BY Zenon DEF Init, Listed
  <2>2. QED
    BY <2>1, FS_EmptySet, Zenon DEF CountInv
<1>7. CapacityRespected
  <2>1. sessions = {} /\ sessionCount = 0 /\ \A s \in Sessions : link[s] = "free"
    BY Zenon DEF Init
  <2>2. QED
    BY <2>1, FS_EmptySet, GameStateAssumption DEF CapacityRespected
<1>8. QED
  BY <1>1, <1>2, <1>3, <1>4, <1>5, <1>6, <1>7, Zenon DEF IInv

\* A step that changes no variable keeps the invariant.
LEMMA Stutter ==
    ASSUME IInv, UNCHANGED vars
    PROVE  IInv'
<1>1. TypeOK'
  BY Zenon DEF vars, loginVars, roomVars, managerVars, userVars, IInv, TypeOK
<1>2. /\ userName' = userName /\ loginList' = loginList /\ roomList' = roomList
      /\ roomCount' = roomCount /\ sessions' = sessions /\ sessionCount' = sessionCount
      /\ accountSessions' = accountSessions /\ nameSessions' = nameSessions
      /\ link' = link /\ isLogin' = isLogin /\ account' = account /\ name' = name
      /\ room' = room /\ pc' = pc /\ arg' = arg
  BY Zenon DEF vars, loginVars, roomVars, managerVars, userVars
<1>3. SessionInv' /\ NamesUnique'
  BY <1>2, Zenon DEF IInv, SessionInv, HandlerOK, AccountOK, NamesUnique
<1>4. LoginInv' /\ CountInv' /\ CapacityRespected'
  BY <1>2 DEF IInv, LoginInv, Holds, CountInv, Listed, CapacityRespected
<1>5. RoomInv'
  BY <1>2 DEF IInv, RoomInv, MemberOK, RoomIdOK, Holds
<1>6. MapInv'
  BY <1>2, Zenon DEF IInv, MapInv, RegisteredOK, AccountEntryOK, NameEntryOK, Holds
<1>7. QED
  BY <1>1, <1>3, <1>4, <1>5, <1>6, Zenon DEF IInv

\* A room is left at the start of a logout or a cleanup, or there is none to leave.
LEMMA LeaveRoomFirstStep ==
    ASSUME IInv, NEW s \in Sessions, NEW leaving, NEW left, pc[s] = "idle",
           LeaveRoomFirst(s, leaving, left), link[s] \in {"connected", "closing"},
           \/ leaving = "loRoom" /\ left = "loLogout" /\ isLogin[s]
           \/ leaving = "clRoom" /\ left = "clLogin" /\ link[s] = "closing"
    PROVE  IInv'
<1>1. /\ ExitUser(room[s], account[s])
      /\ Goto(s, IF room[s] # None THEN leaving ELSE left, None)
      /\ UNCHANGED <<loginVars, managerVars, link, userVars, room>>
  BY Zenon DEF LeaveRoomFirst
<1>2. CASE room[s] # None
  <2>1. Goto(s, leaving, None) /\ leaving \in Leaving
    BY <1>1, <1>2, Zenon DEF Leaving
  <2>2. QED
    BY <1>1, <1>2, <2>1, LeaveStep, Zenon
<1>3. CASE room[s] = None
  <2>1. Goto(s, left, None) /\ UNCHANGED roomVars
    BY <1>1, <1>3, Zenon DEF ExitUser, InRoom
  <2>2. left \in QuietLabels /\ left \notin NeedLogin \ {"loLogout"}
        /\ left \notin InCleanup \ {"clLogin"}
    BY Zenon DEF QuietLabels, NeedLogin, InCleanup
  <2>3. left = "loLogout" => left \notin InCleanup
    BY Zenon DEF InCleanup
  <2>4. left = "clLogin" => left \notin NeedLogin
    BY Zenon DEF NeedLogin
  <2>5. UNCHANGED <<loginVars, roomVars, managerVars, link, userVars, room>>
    BY <1>1, <2>1, Zenon
  <2>6. QED
    BY <1>3, <2>1, <2>2, <2>3, <2>4, <2>5, GotoStep, Zenon
<1>4. QED
  BY <1>2, <1>3, Zenon

\* A room is left on request; a session in no room gets a failure.
LEMMA ExitRoomStep ==
    ASSUME IInv, NEW s \in Sessions, ExitRoom(s)
    PROVE  IInv'
<1>1. /\ pc[s] = "idle" /\ link[s] = "connected" /\ ExitUser(room[s], account[s])
      /\ IF InRoom(room[s], account[s]) THEN Goto(s, "exSet", None) ELSE Ack(s, "fail")
      /\ UNCHANGED <<loginVars, managerVars, link, userVars, room>>
  BY Zenon DEF ExitRoom, Begins
<1>2. CASE room[s] = None
  <2>1. Ack(s, "fail") /\ UNCHANGED roomVars
    BY <1>1, <1>2, Zenon DEF ExitUser, InRoom
  <2>2. QED
    BY <1>1, <2>1, AckStep, Zenon
<1>3. CASE room[s] # None
  <2>1. RoomIdOK(s) /\ pc[s] \notin Leaving
    BY <1>1, Zenon DEF IInv, RoomInv, Leaving
  <2>2. InRoom(room[s], account[s])
    BY <1>3, <2>1, GameStateAssumption, Zenon DEF RoomIdOK, InRoom
  <2>3. QED
    BY <1>1, <1>3, <2>2, LeaveStep, Zenon DEF Leaving
<1>4. QED
  BY <1>2, <1>3, Zenon

\* The answer is sent and the handler ends.
LEMMA EndHandlerStep ==
    ASSUME IInv, NEW s \in Sessions, EndHandler(s)
    PROVE  IInv'
<1>1. /\ pc[s] = "ack" /\ pc' = [pc EXCEPT ![s] = "idle"] /\ arg' = [arg EXCEPT ![s] = None]
      /\ result' = [result EXCEPT ![s] = "none"]
      /\ UNCHANGED <<loginVars, roomVars, managerVars, link, userVars, room>>
  BY Zenon DEF EndHandler
<1>2. TypeOK'
  BY <1>1, Zenon DEF IInv, TypeOK, Labels, loginVars, roomVars, managerVars, userVars
<1>3. /\ OthersKept(s) /\ link'[s] = link[s] /\ pc'[s] = "idle" /\ room'[s] = room[s]
      /\ isLogin'[s] = isLogin[s] /\ account'[s] = account[s] /\ name'[s] = name[s]
  BY <1>1, Zenon DEF OthersKept, Kept, IInv, TypeOK, userVars
<1>4. HandlerOK(s)
  BY Zenon DEF IInv, SessionInv
<1>5. HandlerOK(s)'
  BY <1>1, <1>3, <1>4, Zenon DEF HandlerOK, InCleanup, Leaving, NeedLogin, LoggedOff, NoRoom
<1>6. pc[s] \in QuietLabels /\ pc'[s] \in QuietLabels
  BY <1>1, <1>3, Zenon DEF QuietLabels
<1>7. QED
  BY <1>1, <1>2, <1>3, <1>5, <1>6, QuietStep, Zenon

\* The room id is reset after the room was left: by the exit, the logout, the cleanup.
LEMMA ClearStep ==
    ASSUME IInv, NEW s \in Sessions, ClearRoomId(s) \/ LogoutRoom(s) \/ CleanupRoom(s)
    PROVE  IInv'
<1>1. PICK to \in {"ack", "loLogout", "clLogin"} :
        /\ pc[s] \in {"exSet", "loRoom", "clRoom"}
        /\ pc' = [pc EXCEPT ![s] = to] /\ room' = [room EXCEPT ![s] = None]
        /\ to = "loLogout" => pc[s] = "loRoom"
        /\ to = "clLogin" => pc[s] = "clRoom"
        /\ result' = result \/ result' = [result EXCEPT ![s] = "ok"]
        /\ arg' = arg /\ UNCHANGED <<loginVars, roomVars, managerVars, link, userVars>>
  <2>1. CASE ClearRoomId(s)
    BY <2>1, Zenon DEF ClearRoomId, Ack
  <2>2. CASE LogoutRoom(s)
    BY <2>2, Zenon DEF LogoutRoom, RoomLeft, Step
  <2>3. CASE CleanupRoom(s)
    BY <2>3, Zenon DEF CleanupRoom, RoomLeft, Step
  <2>4. QED
    BY <2>1, <2>2, <2>3, Zenon
<1>2. to \in Labels
  BY Zenon DEF Labels
<1>3. TypeOK'
  BY <1>1, <1>2, Zenon DEF IInv, TypeOK, loginVars, roomVars, managerVars, userVars
<1>4. QED
  BY <1>1, <1>3, RoomLeftStep, Zenon DEF Leaving

\* The two halves of a whisper.
LEMMA WhisperStep ==
    ASSUME IInv, NEW s \in Sessions, WhisperChat(s) \/ \E n \in Names : WhisperFind(s, n)
    PROVE  IInv'
<1>1. CASE WhisperChat(s)
  <2>1. HandlerOK(s) /\ link[s] \in {"free", "joining", "connected", "closing"}
    BY Zenon DEF IInv, TypeOK, SessionInv
  <2>2. pc[s] = "whisper" /\ (Ack(s, "empty") \/ Ack(s, "ok"))
        /\ UNCHANGED <<loginVars, roomVars, managerVars, link, userVars, room>>
    BY <1>1, Zenon DEF WhisperChat
  <2>3. link[s] \in {"connected", "closing"}
    BY <2>1, <2>2, Zenon DEF HandlerOK
  <2>4. QED
    BY <2>2, <2>3, AckStep, Zenon
<1>2. ASSUME NEW n \in Names, WhisperFind(s, n) PROVE IInv'
  <2>1. /\ pc[s] = "idle" /\ link[s] = "connected" /\ isLogin[s]
        /\ Ack(s, "notTarget") \/ Goto(s, "whisper", n)
        /\ UNCHANGED <<loginVars, roomVars, managerVars, link, userVars, room>>
    BY <1>2, Zenon DEF WhisperFind, Begins
  <2>2. "whisper" \in QuietLabels /\ "whisper" \notin NoRoom \cup InCleanup
    BY Zenon DEF QuietLabels, NoRoom, InCleanup
  <2>3. CASE Ack(s, "notTarget")
    BY <2>1, <2>3, AckStep, Zenon
  <2>4. CASE Goto(s, "whisper", n)
    BY <2>1, <2>2, <2>4, GotoStep, Zenon
  <2>5. QED
    BY <2>1, <2>3, <2>4, Zenon
<1>3. QED
  BY <1>1, <1>2, Zenon

\* A request starts a handler, or is refused.
LEMMA RequestStep ==
    ASSUME IInv, NEW s \in Sessions, Request(s)
    PROVE  IInv'
<1>1. CASE HandleLogin(s) \/ HandleBotLogin(s)
  <2>1. CASE LoginFails(s)
    BY <2>1, AckStep, Zenon DEF LoginFails, Begins
  <2>2. QED
    BY <1>1, <2>1, LoginSucceedsStep, Zenon DEF HandleLogin, HandleBotLogin
<1>2. CASE LogoutStart(s)
  BY <1>2, LeaveRoomFirstStep, Zenon DEF LogoutStart, Begins
<1>3. ASSUME NEW r \in Rooms, EnterRoom(s, r) PROVE IInv'
  BY <1>3, EnterRoomStep, Zenon
<1>4. ASSUME NEW r \in Rooms, NormalChat(s, r) PROVE IInv'
  <2>1. /\ pc[s] = "idle" /\ link[s] = "connected"
        /\ Ack(s, "fail") \/ Ack(s, "empty") \/ Ack(s, "ok")
        /\ UNCHANGED <<loginVars, roomVars, managerVars, link, userVars, room>>
    BY <1>4, Zenon DEF NormalChat, Begins
  <2>2. QED
    BY <2>1, AckStep, Zenon
<1>5. CASE EnterRoomFails(s) \/ GetRoomInfo(s)
  BY <1>5, AckStep, Zenon DEF EnterRoomFails, GetRoomInfo, Begins
<1>6. CASE ExitRoom(s) \/ \E n \in Names : WhisperFind(s, n)
  BY <1>6, ExitRoomStep, WhisperStep, Zenon
<1>7. CASE Refuse(s)
  BY <1>7, LinkStep, Zenon DEF Refuse, Begins
<1>8. QED
  BY <1>1, <1>2, <1>3, <1>4, <1>5, <1>6, <1>7, Zenon DEF Request

\* A running handler, or the cleanup, takes its next statement.
LEMMA ContinueStep ==
    ASSUME IInv, NEW s \in Sessions, Continue(s)
    PROVE  IInv'
<1>1. CASE EndHandler(s) \/ ClearRoomId(s) \/ LogoutRoom(s) \/ CleanupRoom(s) \/ WhisperChat(s)
  BY <1>1, EndHandlerStep, ClearStep, WhisperStep, Zenon
<1>2. CASE AddAccountSession(s) \/ AddNameSession(s) \/ SetRoomId(s)
  BY <1>2, AddAccountSessionStep, AddNameSessionStep, SetRoomIdStep, Zenon
<1>3. CASE LogoutAccount(s) \/ LogoutEnd(s)
  BY <1>3, LogoutAccountStep, LogoutEndStep, Zenon
<1>4. CASE LogoutReleaseAccount(s) \/ CleanupReleaseAccount(s)
  BY <1>4, ReleaseAccountStep, Zenon DEF LogoutReleaseAccount, CleanupReleaseAccount
<1>5. CASE CleanupStart(s)
  BY <1>5, LeaveRoomFirstStep, Zenon DEF CleanupStart, LeaveRoomOnDisconnect
<1>6. CASE CleanupLogin(s) \/ CleanupReleaseName(s) \/ CleanupErase(s)
  BY <1>6, CleanupLoginStep, CleanupReleaseNameStep, CleanupEraseStep, Zenon
<1>7. QED
  BY <1>1, <1>2, <1>3, <1>4, <1>5, <1>6, Zenon DEF Continue

\* Every step of the server keeps the invariant.
LEMMA NextStep ==
    ASSUME IInv, [Next]_vars
    PROVE  IInv'
<1>1. CASE UNCHANGED vars
  BY <1>1, Stutter, Zenon
<1>2. ASSUME NEW s \in Sessions, ProcessConnect(s) \/ Disconnect(s) PROVE IInv'
  BY <1>2, LinkStep, Zenon DEF ProcessConnect, Disconnect
<1>3. QED
  BY <1>1, <1>2, AddSessionStep, RequestStep, ContinueStep, Zenon DEF Next

\* The invariant holds in every state of every behaviour of the server.
LEMMA Invariance == Spec => []IInv
<1>1. Init => IInv
  BY InitInv, Zenon
<1>2. IInv /\ [Next]_vars => IInv'
  BY NextStep, Zenon
<1>3. QED
  BY <1>1, <1>2, PTL DEF Spec

-----------------------------------------------------------------------------
(* The invariants of the run *)

\* The shared maps, the rooms and the sessions' fields keep their types.
THEOREM TypeCorrect == Spec => []TypeOK
<1>1. IInv => TypeOK
  BY Zenon DEF IInv
<1>2. QED
  BY <1>1, Invariance, PTL

\* An account is held by exactly one session while _login_list has it and by none
\* otherwise (Login::login, logout and every way a session ends).
THEOREM AccountsExclusive == Spec => []LoginExclusive
<1>1. IInv => LoginExclusive
  <2> SUFFICES ASSUME IInv, NEW id \in Ids
               PROVE  Cardinality({s \in Sessions : Holds(s, id)})
                          = IF id \in loginList THEN 1 ELSE 0
    BY Zenon DEF LoginExclusive
  <2>1. CASE id \in loginList
    <3>1. PICK s \in Sessions : Holds(s, id)
      BY <2>1, Zenon DEF IInv, LoginInv
    <3>2. {t \in Sessions : Holds(t, id)} = {s}
      BY <3>1 DEF IInv, LoginInv
    <3>3. QED
      BY <2>1, <3>2, FS_Singleton, Zenon
  <2>2. CASE id \notin loginList
    <3>1. {t \in Sessions : Holds(t, id)} = {}
      BY <2>2, Zenon DEF IInv, LoginInv
    <3>2. QED
      BY <2>2, <3>1, FS_EmptySet, Zenon
  <2>3. QED
    BY <2>1, <2>2, Zenon
<1>2. QED
  BY <1>1, Invariance, PTL

\* The rooms list and count exactly the sessions whose room id names them, up to
\* the one statement between the two updates (Room, GameSession).
THEOREM RoomsConsistent == Spec => []RoomConsistent
<1>1. IInv => RoomConsistent
  <2> SUFFICES ASSUME IInv PROVE RoomConsistent
    BY Zenon
  <2>1. \A r \in Rooms : roomCount[r] = Cardinality({id \in Ids : roomList[r][id] # None})
    BY Zenon DEF IInv, CountInv, Listed
  <2>2. ASSUME NEW r \in Rooms, NEW id \in Ids, roomList[r][id] # None
        PROVE  LET s == roomList[r][id] IN
               Holds(s, id) /\ (room[s] = r \/ (pc[s] = "enSet" /\ arg[s] = r))
    <3>1. PICK s \in Sessions : roomList[r][id] = s
      BY <2>2 DEF IInv, TypeOK
    <3>2. MemberOK(s, r, id)
      BY Zenon DEF IInv, RoomInv
    <3>3. QED
      BY <3>1, <3>2, Zenon DEF MemberOK
  <2>3. \A s \in Sessions : room[s] # None /\ pc[s] \notin {"exSet", "loRoom", "clRoom"}
                            => roomList[room[s]][account[s]] = s
    BY Zenon DEF IInv, RoomInv, RoomIdOK, Leaving
  <2>4. QED
    BY <2>1, <2>2, <2>3, Zenon DEF RoomConsistent
<1>2. QED
  BY <1>1, Invariance, PTL

\* The maps of SessionManager lead to the session that holds the account and never
\* to one that is gone (add_account_session, release_logout_session).
THEOREM MapsLeadToHolders == Spec => []MapsConsistent
<1>1. IInv => MapsConsistent
  <2> SUFFICES ASSUME IInv PROVE HolderRegistered /\ NoStaleReference
    BY Zenon DEF MapsConsistent
  <2>1. HolderRegistered
    BY Zenon DEF IInv, MapInv, RegisteredOK, HolderRegistered
  <2>2. ASSUME NEW s \in Sessions, link[s] = "free" PROVE Unreferenced(s)
    <3>1. HandlerOK(s) /\ AccountOK(s)
      BY Zenon DEF IInv, SessionInv
    <3>2. account[s] = None /\ name[s] = None /\ ~isLogin[s]
      BY <2>2, <3>1, Zenon DEF HandlerOK, AccountOK
    <3>3. s \notin sessions
      BY <2>2, Zenon DEF IInv, CapacityRespected
    <3>4. \A id \in Ids : accountSessions[id] # s
      BY <3>2, GameStateAssumption, Zenon DEF IInv, MapInv, AccountEntryOK
    <3>5. \A id \in Ids, r \in Rooms : roomList[r][id] # s
      BY <3>2 DEF IInv, RoomInv, MemberOK, Holds
    <3>6. \A n \in Names : nameSessions[n] # s
      BY <3>2, GameStateAssumption, Zenon DEF IInv, MapInv, NameEntryOK
    <3>7. QED
      BY <3>3, <3>4, <3>5, <3>6, Zenon DEF Unreferenced
  <2>3. \A id \in Ids : accountSessions[id] # None => account[accountSessions[id]] = id
    BY DEF IInv, TypeOK, MapInv, AccountEntryOK
  <2>4. \A n \in Names : nameSessions[n] # None => name[nameSessions[n]] = n
    BY DEF IInv, TypeOK, MapInv, NameEntryOK
  <2>5. QED
    BY <2>1, <2>2, <2>3, <2>4, Zenon DEF NoStaleReference
<1>2. QED
  BY <1>1, Invariance, PTL

\* The session count is exact and within the limit add_session checks.
THEOREM CapacityKept == Spec => []CapacityRespected
<1>1. IInv => CapacityRespected
  BY Zenon DEF IInv
<1>2. QED
  BY <1>1, Invariance, PTL

\* normal_chat selects its receivers from the account map and the sessions' room
\* ids, yet they are the connected members of the Room, apart from those entering
\* or leaving it.
THEOREM ChatReachesMembers == Spec => []ChatReachesRoom
<1>1. IInv => ChatReachesRoom
  <2> DEFINE member(s, r) == account[s] # None /\ roomList[r][account[s]] = s
  <2> SUFFICES ASSUME IInv, NEW r \in Rooms, NEW s \in Sessions
               PROVE  /\ member(s, r) /\ link[s] = "connected" /\ pc[s] # "enSet"
                            => s \in ChatTargets(r)
                      /\ s \in ChatTargets(r) => member(s, r) \/ pc[s] \in {"exSet", "loRoom"}
    BY Zenon DEF ChatReachesRoom
  <2>0. HandlerOK(s) /\ AccountOK(s) /\ RoomIdOK(s) /\ RegisteredOK(s)
    BY Zenon DEF IInv, SessionInv, RoomInv, MapInv
  <2>1. ASSUME member(s, r), link[s] = "connected", pc[s] # "enSet" PROVE s \in ChatTargets(r)
    <3>1. account[s] \in Ids /\ s # None /\ r # None
      BY <2>1, GameStateAssumption, Zenon DEF IInv, TypeOK
    <3>2. MemberOK(s, r, account[s])
      BY <3>1, Zenon DEF IInv, RoomInv
    <3>3. Holds(s, account[s]) /\ room[s] = r
      BY <2>1, <3>2, Zenon DEF MemberOK
    <3>4. accountSessions[account[s]] = s
      BY <2>0, <3>1, <3>3, Zenon DEF HandlerOK, RegisteredOK, NoRoom
    <3>5. QED
      BY <2>1, <3>1, <3>3, <3>4, Zenon DEF ChatTargets
  <2>2. ASSUME s \in ChatTargets(r) PROVE member(s, r) \/ pc[s] \in {"exSet", "loRoom"}
    <3>1. room[s] = r /\ link[s] = "connected" /\ r # None
      BY <2>2, GameStateAssumption, Zenon DEF ChatTargets
    <3>2. account[s] # None /\ pc[s] # "clRoom"
      BY <2>0, <3>1, Zenon DEF HandlerOK, AccountOK, InCleanup
    <3>3. QED
      BY <2>0, <3>1, <3>2, Zenon DEF RoomIdOK, Leaving
  <2>3. QED
    BY <2>1, <2>2, Zenon
<1>2. QED
  BY <1>1, Invariance, PTL

-----------------------------------------------------------------------------
(* The refinement of Presence *)

\* The presence of an account, as GameState maps it.
PresenceOf(id) ==
    IF userName[id] = None THEN "unknown"
    ELSE IF id \notin loginList THEN "offline"
    ELSE IF \E r \in Rooms : roomList[r][id] # None
         THEN CHOOSE r \in Rooms : roomList[r][id] # None
         ELSE "lobby"

PresenceMap == [id \in Ids |-> PresenceOf(id)]

-----------------------------------------------------------------------------
(* The presence of an account depends on its own entries only *)

\* A room that lists an account lists the session that holds it, and that session
\* has the room's id or is entering the room.
LEMMA ListedHolder ==
    ASSUME IInv, NEW id \in Ids, NEW r \in Rooms, roomList[r][id] # None
    PROVE  \E s \in Sessions :
             /\ Holds(s, id)
             /\ room[s] = r \/ (pc[s] = "enSet" /\ arg[s] = r)
<1>1. PICK s \in Sessions : roomList[r][id] = s
  BY DEF IInv, TypeOK
<1>2. MemberOK(s, r, id)
  BY Zenon DEF IInv, RoomInv
<1>3. QED
  BY <1>1, <1>2, Zenon DEF MemberOK

\* A session that holds an account has the account in the login list, with a name.
LEMMA HolderKnown ==
    ASSUME IInv, NEW s \in Sessions, NEW id \in Ids, Holds(s, id)
    PROVE  id \in loginList /\ userName[id] # None
<1>1. id \in loginList
  BY Zenon DEF IInv, LoginInv
<1>2. AccountOK(s) /\ account[s] = id
  BY Zenon DEF IInv, SessionInv, Holds
<1>3. QED
  BY <1>1, <1>2, GameStateAssumption, Zenon DEF AccountOK

\* The account of a session that has no room id and is not entering is in no room.
LEMMA InNoList ==
    ASSUME IInv, NEW s \in Sessions, NEW id \in Ids, Holds(s, id), room[s] = None,
           pc[s] # "enSet", NEW r \in Rooms
    PROVE  roomList[r][id] = None
<1> SUFFICES ASSUME roomList[r][id] # None PROVE FALSE
  BY Zenon
<1>1. PICK t \in Sessions : Holds(t, id) /\ (room[t] = r \/ (pc[t] = "enSet" /\ arg[t] = r))
  BY ListedHolder, Zenon
<1>2. t = s
  BY <1>1, Zenon DEF IInv, LoginInv
<1>3. r # None
  BY GameStateAssumption, Zenon
<1>4. QED
  BY <1>1, <1>2, <1>3, Zenon

\* An account that a room lists is logged in, and no other room lists it.
LEMMA PresentInRoom ==
    ASSUME IInv, NEW id \in Ids, NEW r \in Rooms, roomList[r][id] # None
    PROVE  /\ PresenceOf(id) = r /\ id \in loginList /\ userName[id] # None
           /\ \A q \in Rooms \ {r} : roomList[q][id] = None
<1>1. PICK s \in Sessions : Holds(s, id) /\ (room[s] = r \/ (pc[s] = "enSet" /\ arg[s] = r))
  BY ListedHolder, Zenon
<1>2. id \in loginList /\ userName[id] # None
  BY <1>1, HolderKnown, Zenon
<1>3. \A q \in Rooms \ {r} : roomList[q][id] = None
  <2> SUFFICES ASSUME NEW q \in Rooms, roomList[q][id] # None PROVE q = r
    BY Zenon
  <2>1. PICK t \in Sessions : Holds(t, id) /\ (room[t] = q \/ (pc[t] = "enSet" /\ arg[t] = q))
    BY ListedHolder, Zenon
  <2>2. t = s
    BY <1>1, <2>1, Zenon DEF IInv, LoginInv
  <2>3. HandlerOK(s) /\ r # None /\ q # None
    BY GameStateAssumption, Zenon DEF IInv, SessionInv
  <2>4. pc[s] = "enSet" => room[s] = None
    BY <2>3, Zenon DEF HandlerOK, NoRoom
  <2>5. QED
    BY <1>1, <2>1, <2>2, <2>3, <2>4, Zenon
<1>4. (CHOOSE q \in Rooms : roomList[q][id] # None) = r
  BY <1>3, Zenon
<1>5. QED
  BY <1>2, <1>3, <1>4, Zenon DEF PresenceOf

\* The account of a session in no room is in the lobby.
LEMMA PresentInLobby ==
    ASSUME IInv, NEW s \in Sessions, NEW id \in Ids, Holds(s, id), room[s] = None,
           pc[s] # "enSet"
    PROVE  PresenceOf(id) = "lobby" /\ \A r \in Rooms : roomList[r][id] = None
<1>1. id \in loginList /\ userName[id] # None
  BY HolderKnown, Zenon
<1>2. \A r \in Rooms : roomList[r][id] = None
  BY InNoList, Zenon
<1>3. QED
  BY <1>1, <1>2, Zenon DEF PresenceOf

\* An account whose entries do not change keeps its presence.
LEMMA PresenceKept ==
    ASSUME IInv, NEW id \in Ids, userName'[id] = userName[id],
           id \in loginList' <=> id \in loginList,
           \A r \in Rooms : roomList'[r][id] = roomList[r][id]
    PROVE  PresenceOf(id)' = PresenceOf(id)
<1>1. CASE \E r \in Rooms : roomList[r][id] # None
  <2>1. PICK r \in Rooms : roomList[r][id] # None
    BY <1>1, Zenon
  <2>2. /\ PresenceOf(id) = r /\ id \in loginList /\ userName[id] # None
        /\ \A q \in Rooms \ {r} : roomList[q][id] = None
    BY <2>1, PresentInRoom, Zenon
  <2>3. (CHOOSE q \in Rooms : roomList'[q][id] # None) = r
    BY <2>1, <2>2, Zenon
  <2>4. QED
    BY <2>1, <2>2, <2>3, Zenon DEF PresenceOf
<1>2. CASE \A r \in Rooms : roomList[r][id] = None
  BY <1>2, Zenon DEF PresenceOf
<1>3. QED
  BY <1>1, <1>2, Zenon

\* A step that leaves the accounts, the login list and the rooms alone is a
\* stuttering step of Presence.
LEMMA PresenceStutters ==
    ASSUME IInv, UNCHANGED <<userName, loginList, roomList>>
    PROVE  UNCHANGED PresenceMap
<1>1. \A id \in Ids : PresenceOf(id)' = PresenceOf(id)
  BY PresenceKept, Zenon
<1>2. QED
  BY <1>1, Zenon DEF PresenceMap

\* A step that changes the presence of one account is a move of Presence.
LEMMA PresenceMoves ==
    ASSUME NEW id \in Ids, NEW from, NEW to,
           PresenceOf(id) = from, PresenceOf(id)' = to,
           \A i \in Ids \ {id} : PresenceOf(i)' = PresenceOf(i)
    PROVE  Accounts!Move(id, from, to)
<1>1. PresenceMap[id] = from /\ PresenceMap' = [PresenceMap EXCEPT ![id] = to]
  BY Zenon DEF PresenceMap
<1>2. QED
  BY <1>1, Zenon DEF Accounts!Move, PresenceMap, PresenceOf

-----------------------------------------------------------------------------
(* The steps that change the presence of an account *)

\* Login::create_account and Login::login bring an account into the lobby.
LEMMA LoginRefines ==
    ASSUME IInv, NEW s \in Sessions, NEW id \in Ids, LoginSucceeds(s, id)
    PROVE  Accounts!Create(id) \/ Accounts!LogIn(id)
<1>1. roomList' = roomList /\ (LoginAccount(id) \/ \E n \in Names : CreateAccount(id, n))
  BY Zenon DEF LoginSucceeds, roomVars
<1>2. /\ id \notin loginList /\ loginList' = loginList \cup {id}
      /\ userName'[id] # None /\ \A i \in Ids \ {id} : userName'[i] = userName[i]
  BY <1>1, AccountEffect, Zenon
<1>3. \A r \in Rooms : roomList[r][id] = None
  BY <1>2, PresentInRoom, Zenon
<1>4. PresenceOf(id) \in {"unknown", "offline"}
  BY <1>2, Zenon DEF PresenceOf
<1>5. PresenceOf(id)' = "lobby"
  BY <1>1, <1>2, <1>3, Zenon DEF PresenceOf
<1>6. \A i \in Ids \ {id} : PresenceOf(i)' = PresenceOf(i)
  BY <1>1, <1>2, PresenceKept, Zenon
<1>7. Accounts!Move(id, "unknown", "lobby") \/ Accounts!Move(id, "offline", "lobby")
  BY <1>4, <1>5, <1>6, PresenceMoves, Zenon
<1>8. QED
  BY <1>7, Zenon DEF Accounts!Create, Accounts!LogIn

\* The accounts present in a room are the ones the room lists.
LEMMA PresentAreListed ==
    ASSUME IInv, NEW r \in Rooms
    PROVE  {i \in Ids : PresenceMap[i] = r} = Listed(r)
<1>1. ASSUME NEW i \in Ids, roomList[r][i] = None PROVE PresenceOf(i) # r
  <2>1. CASE \E q \in Rooms : roomList[q][i] # None
    <3>1. PICK q \in Rooms : roomList[q][i] # None
      BY <2>1, Zenon
    <3>2. PresenceOf(i) = q /\ q # r
      BY <1>1, <3>1, PresentInRoom, Zenon
    <3>3. QED
      BY <3>2, Zenon
  <2>2. CASE \A q \in Rooms : roomList[q][i] = None
    <3>1. PresenceOf(i) \in {"unknown", "offline", "lobby"}
      BY <2>2, Zenon DEF PresenceOf
    <3>2. QED
      BY <3>1, GameStateAssumption, Zenon
  <2>3. QED
    BY <2>1, <2>2, Zenon
<1>2. ASSUME NEW i \in Ids, roomList[r][i] # None PROVE PresenceOf(i) = r
  BY <1>2, PresentInRoom, Zenon
<1>3. \A i \in Ids : PresenceMap[i] = r <=> roomList[r][i] # None
  BY <1>1, <1>2, Zenon DEF PresenceMap
<1>4. QED
  BY <1>3, Zenon DEF Listed

\* Room::enter_user takes an account from the lobby into a room with a place left.
LEMMA EnterRefines ==
    ASSUME IInv, NEW s \in Sessions, NEW r \in Rooms, EnterRoom(s, r)
    PROVE  \E id \in Ids : Accounts!Enter(id, r)
<1>1. /\ pc[s] = "idle" /\ isLogin[s] /\ room[s] = None
      /\ userName' = userName /\ loginList' = loginList
      /\ EnterUser(r, account[s], s)
  BY Zenon DEF EnterRoom, Begins, InNoRoom, loginVars
<1>2. AccountOK(s) /\ account[s] \in Ids \cup {None}
  BY Zenon DEF IInv, SessionInv, TypeOK
<1>3. PICK id \in Ids : id = account[s]
  BY <1>1, <1>2, Zenon DEF AccountOK
<1>4. Holds(s, id)
  BY <1>1, <1>3, Zenon DEF Holds
<1>5. PresenceOf(id) = "lobby" /\ \A q \in Rooms : roomList[q][id] = None
  BY <1>1, <1>4, PresentInLobby, Zenon
<1>6. id \in loginList /\ userName[id] # None
  BY <1>4, HolderKnown, Zenon
<1>7. roomList' = [roomList EXCEPT ![r][id] = s] /\ roomCount[r] < RoomSize
  BY <1>1, <1>3, GameStateAssumption DEF EnterUser, RoomFull, IInv, TypeOK
<1>8. /\ \A q \in Rooms \ {r} : roomList'[q][id] = None
      /\ roomList'[r][id] # None
      /\ \A q \in Rooms, i \in Ids \ {id} : roomList'[q][i] = roomList[q][i]
  BY <1>5, <1>7, GameStateAssumption, Zenon DEF IInv, TypeOK
<1>9. PresenceOf(id)' = r
  <2>1. (CHOOSE q \in Rooms : roomList'[q][id] # None) = r
    BY <1>8, Zenon
  <2>2. QED
    BY <1>1, <1>6, <1>8, <2>1, Zenon DEF PresenceOf
<1>10. \A i \in Ids \ {id} : PresenceOf(i)' = PresenceOf(i)
  BY <1>1, <1>8, PresenceKept, Zenon
<1>11. Accounts!Move(id, "lobby", r)
  BY <1>5, <1>9, <1>10, PresenceMoves, Zenon
<1>12. Cardinality({i \in Ids : PresenceMap[i] = r}) < RoomSize
  <2>1. roomCount[r] = Cardinality(Listed(r))
    BY Zenon DEF IInv, CountInv
  <2>2. QED
    BY <1>7, <2>1, PresentAreListed, Zenon
<1>13. ASSUME NEW S PROVE Accounts!Cardinality(S) = Cardinality(S)
  BY Zenon DEF Cardinality, Accounts!Cardinality
<1>14. Accounts!Cardinality({i \in Ids : PresenceMap[i] = r}) < RoomSize
  BY <1>12, <1>13, Zenon
<1>15. Accounts!Enter(id, r)
  BY <1>11, <1>14, Zenon DEF Accounts!Enter, PresenceMap, PresenceOf
<1>16. QED
  BY <1>15, Zenon

\* Room::exit_user brings the account of a session back into the lobby, before
\* anything else of a logout or a cleanup.
LEMMA ExitRefines ==
    ASSUME IInv, NEW s \in Sessions, pc[s] = "idle", UNCHANGED loginVars,
           ExitUser(room[s], account[s])
    PROVE  Accounts!Next \/ UNCHANGED PresenceMap
<1>0. userName' = userName /\ loginList' = loginList
  BY Zenon DEF loginVars
<1>1. CASE room[s] = None
  <2>1. roomList' = roomList
    BY <1>1, Zenon DEF ExitUser, InRoom, roomVars
  <2>2. QED
    BY <1>0, <2>1, PresenceStutters, Zenon
<1>2. CASE room[s] # None
  <2>1. /\ HandlerOK(s) /\ AccountOK(s) /\ RoomIdOK(s)
        /\ account[s] \in Ids \cup {None} /\ room[s] \in Rooms \cup {None}
    BY Zenon DEF IInv, SessionInv, RoomInv, TypeOK
  <2>2. PICK r \in Rooms, id \in Ids : r = room[s] /\ id = account[s]
    BY <1>2, <2>1, Zenon DEF HandlerOK, AccountOK
  <2>3. roomList[r][id] = s /\ s # None /\ r # None
    BY <1>2, <2>1, <2>2, GameStateAssumption, Zenon DEF RoomIdOK, Leaving
  <2>4. roomList' = [roomList EXCEPT ![r][id] = None]
    BY <2>2, <2>3, Zenon DEF ExitUser, InRoom
  <2>5. /\ PresenceOf(id) = r /\ id \in loginList /\ userName[id] # None
        /\ \A q \in Rooms \ {r} : roomList[q][id] = None
    BY <2>3, PresentInRoom, Zenon
  <2>6. /\ \A q \in Rooms : roomList'[q][id] = None
        /\ \A q \in Rooms, i \in Ids \ {id} : roomList'[q][i] = roomList[q][i]
    BY <2>4, <2>5, Zenon DEF IInv, TypeOK
  <2>7. PresenceOf(id)' = "lobby"
    BY <1>0, <2>5, <2>6, Zenon DEF PresenceOf
  <2>8. \A i \in Ids \ {id} : PresenceOf(i)' = PresenceOf(i)
    BY <1>0, <2>6, PresenceKept, Zenon
  <2>9. Accounts!Move(id, r, "lobby")
    BY <2>5, <2>7, <2>8, PresenceMoves, Zenon
  <2>10. Accounts!Leave(id, r)
    BY <2>9, Zenon DEF Accounts!Leave
  <2>11. QED
    BY <2>10, Zenon DEF Accounts!Next
<1>3. QED
  BY <1>1, <1>2, Zenon

\* Login::logout takes the account of a session that is in no room offline.
LEMMA LogoutRefines ==
    ASSUME IInv, NEW s \in Sessions, isLogin[s], pc[s] \in {"loLogout", "clLogin"},
           userName' = userName, roomList' = roomList,
           loginList' = loginList \ {account[s]}
    PROVE  Accounts!Next
<1>1. HandlerOK(s) /\ AccountOK(s) /\ account[s] \in Ids \cup {None}
  BY Zenon DEF IInv, SessionInv, TypeOK
<1>2. PICK id \in Ids : id = account[s]
  BY <1>1, Zenon DEF AccountOK
<1>3. Holds(s, id) /\ room[s] = None
  BY <1>1, <1>2, Zenon DEF Holds, HandlerOK, NoRoom
<1>4. PresenceOf(id) = "lobby"
  BY <1>3, PresentInLobby, Zenon
<1>5. userName[id] # None
  BY <1>3, HolderKnown, Zenon
<1>6. PresenceOf(id)' = "offline"
  BY <1>2, <1>5, Zenon DEF PresenceOf
<1>7. \A i \in Ids \ {id} : PresenceOf(i)' = PresenceOf(i)
  BY <1>2, PresenceKept, Zenon
<1>8. Accounts!Move(id, "lobby", "offline")
  BY <1>4, <1>6, <1>7, PresenceMoves, Zenon
<1>9. Accounts!LogOut(id)
  BY <1>8, Zenon DEF Accounts!LogOut
<1>10. QED
  BY <1>9, Zenon DEF Accounts!Next

-----------------------------------------------------------------------------
(* Every step is a step of Presence or leaves the presence of all alone *)

\* The first statement of a packet handler.
LEMMA RequestRefines ==
    ASSUME IInv, NEW s \in Sessions, Request(s)
    PROVE  Accounts!Next \/ UNCHANGED PresenceMap
<1>1. CASE HandleLogin(s) \/ HandleBotLogin(s)
  <2>1. ASSUME NEW id \in Ids, LoginSucceeds(s, id) PROVE Accounts!Next
    <3>1. Accounts!Create(id) \/ Accounts!LogIn(id)
      BY <2>1, LoginRefines, Zenon
    <3>2. QED
      BY <3>1, Zenon DEF Accounts!Next
  <2>2. CASE LoginFails(s)
    BY <2>2, PresenceStutters, Zenon DEF LoginFails, loginVars, roomVars
  <2>3. QED
    BY <1>1, <2>1, <2>2, Zenon DEF HandleLogin, HandleBotLogin
<1>2. CASE LogoutStart(s)
  BY <1>2, ExitRefines, Zenon DEF LogoutStart, LeaveRoomFirst, Begins
<1>3. ASSUME NEW r \in Rooms, EnterRoom(s, r) PROVE Accounts!Next
  <2>1. PICK id \in Ids : Accounts!Enter(id, r)
    BY <1>3, EnterRefines, Zenon
  <2>2. QED
    BY <2>1, Zenon DEF Accounts!Next
<1>4. CASE ExitRoom(s)
  BY <1>4, ExitRefines, Zenon DEF ExitRoom, Begins
<1>5. ASSUME \/ \E r \in Rooms : NormalChat(s, r)
             \/ \E n \in Names : WhisperFind(s, n)
             \/ EnterRoomFails(s) \/ GetRoomInfo(s) \/ Refuse(s)
      PROVE  UNCHANGED PresenceMap
  <2>1. UNCHANGED <<loginVars, roomVars>>
    BY <1>5, Zenon DEF NormalChat, WhisperFind, EnterRoomFails, GetRoomInfo, Refuse
  <2>2. QED
    BY <2>1, PresenceStutters, Zenon DEF loginVars, roomVars
<1>6. QED
  BY <1>1, <1>2, <1>3, <1>4, <1>5, Zenon DEF Request

\* The later statements of the handlers and the cleanup of a closed connection.
LEMMA ContinueRefines ==
    ASSUME IInv, NEW s \in Sessions, Continue(s)
    PROVE  Accounts!Next \/ UNCHANGED PresenceMap
<1>1. CASE CleanupStart(s)
  BY <1>1, ExitRefines, Zenon DEF CleanupStart, LeaveRoomOnDisconnect, LeaveRoomFirst
<1>2. CASE LogoutAccount(s)
  <2>1. HandlerOK(s) /\ pc[s] = "loLogout" /\ userName' = userName /\ roomList' = roomList
        /\ loginList' = loginList \ {account[s]}
    BY <1>2, Zenon DEF LogoutAccount, roomVars, IInv, SessionInv
  <2>2. isLogin[s]
    BY <2>1, Zenon DEF HandlerOK, NeedLogin
  <2>3. QED
    BY <2>1, <2>2, LogoutRefines, Zenon
<1>3. CASE CleanupLogin(s)
  <2>1. /\ pc[s] = "clLogin" /\ userName' = userName /\ roomList' = roomList
        /\ loginList' = IF isLogin[s] THEN loginList \ {account[s]} ELSE loginList
    BY <1>3, Zenon DEF CleanupLogin, LoggedOut, Step, roomVars
  <2>2. CASE isLogin[s]
    BY <2>1, <2>2, LogoutRefines, Zenon
  <2>3. CASE ~isLogin[s]
    BY <2>1, <2>3, PresenceStutters, Zenon
  <2>4. QED
    BY <2>2, <2>3, Zenon
<1>4. ASSUME \/ EndHandler(s) \/ AddAccountSession(s) \/ AddNameSession(s) \/ WhisperChat(s)
             \/ SetRoomId(s) \/ ClearRoomId(s) \/ LogoutRoom(s) \/ CleanupRoom(s)
             \/ LogoutReleaseAccount(s) \/ CleanupReleaseAccount(s)
             \/ LogoutEnd(s) \/ CleanupReleaseName(s) \/ CleanupErase(s)
      PROVE  UNCHANGED PresenceMap
  <2>1. CASE EndHandler(s) \/ AddAccountSession(s) \/ AddNameSession(s) \/ WhisperChat(s)
    BY <2>1, PresenceStutters, Zenon
    DEF EndHandler, AddAccountSession, AddNameSession, WhisperChat, loginVars, roomVars
  <2>2. CASE SetRoomId(s) \/ ClearRoomId(s) \/ LogoutRoom(s) \/ CleanupRoom(s)
    BY <2>2, PresenceStutters, Zenon
    DEF SetRoomId, ClearRoomId, LogoutRoom, CleanupRoom, RoomLeft, loginVars, roomVars
  <2>3. CASE LogoutReleaseAccount(s) \/ CleanupReleaseAccount(s)
    BY <2>3, PresenceStutters, Zenon
    DEF LogoutReleaseAccount, CleanupReleaseAccount, ReleaseAccount, loginVars, roomVars
  <2>4. CASE LogoutEnd(s) \/ CleanupReleaseName(s) \/ CleanupErase(s)
    BY <2>4, PresenceStutters, Zenon
    DEF LogoutEnd, CleanupReleaseName, CleanupName, ReleaseName, CleanupErase, loginVars,
        roomVars
  <2>5. QED
    BY <1>4, <2>1, <2>2, <2>3, <2>4, Zenon
<1>5. QED
  BY <1>1, <1>2, <1>3, <1>4, Zenon DEF Continue

\* Every step of the server.
LEMMA StepRefines ==
    ASSUME IInv, [Next]_vars
    PROVE  Accounts!Next \/ UNCHANGED PresenceMap
<1>1. ASSUME NEW s \in Sessions, AddSession(s) \/ ProcessConnect(s) \/ Disconnect(s)
      PROVE  UNCHANGED PresenceMap
  BY <1>1, PresenceStutters, Zenon DEF AddSession, ProcessConnect, Disconnect, loginVars, roomVars
<1>2. CASE UNCHANGED vars
  BY <1>2, PresenceStutters, Zenon DEF vars, loginVars, roomVars
<1>3. QED
  BY <1>1, <1>2, RequestRefines, ContinueRefines, Zenon DEF Next

\* The handlers implement Presence: whatever other sessions do between the
\* statements of a login, a room change, a logout or a cleanup, each step changes
\* the presence of at most one account, and only as Presence allows.
THEOREM PresenceImplemented == Spec => ImplementsPresence
<1>1. Init => Accounts!Init
  <2> SUFFICES ASSUME Init PROVE PresenceMap = [id \in Ids |-> "unknown"]
    BY Zenon DEF Accounts!Init, PresenceMap, PresenceOf
  <2>1. QED
    BY Zenon DEF Init, PresenceMap, PresenceOf
<1>2. IInv /\ [Next]_vars => [Accounts!Next]_PresenceMap
  BY StepRefines, Zenon
<1>3. QED
  BY <1>1, <1>2, Invariance, PTL
  DEF Spec, ImplementsPresence, Accounts!Spec, PresenceMap, PresenceOf
=============================================================================
