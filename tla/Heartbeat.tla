------------------------------ MODULE Heartbeat ------------------------------
(***************************************************************************)
(* The heartbeat: the background thread of main calls                      *)
(* SessionManager::check_heartbeat about every 5 s.  It copies the session *)
(* set under the lock and then, without it, pings every connected session  *)
(* (GameSession::send_ping) or, if the last ping is unanswered, compares   *)
(* its age with PONG_TIMEOUT_MS and disconnects.  The client answers a     *)
(* ping with REQ_CONNECT_PONG, whose handler runs on a worker.             *)
(*                                                                         *)
(* Time is GetTickCount64 in an arbitrary unit.  What the code cannot      *)
(* promise is a parameter: how long one round of checks takes, how late    *)
(* the thread wakes up, how long a healthy client and the network take.    *)
(* Tick lets time pass only as far as those parameters allow.              *)
(***************************************************************************)
EXTENDS Integers

CONSTANTS Sessions,
          Responsive,   \* sessions whose client answers every ping in time
          Period,       \* the 5000 ms of background_stop.wait
          PongTimeout,  \* PONG_TIMEOUT_MS
          Loop,         \* the longest round of checks, from its sampled tick
          Late,         \* the longest delay of a wake-up
          Delay         \* from a ping's send to the end of its pong's handler

\* The timeout leaves room for a healthy answer: 15 s is more than a round and
\* a round trip.
ASSUME HeartbeatAssumption ==
    /\ Responsive \subseteq Sessions
    /\ Period \in Nat /\ PongTimeout \in Nat /\ Loop \in Nat /\ Late \in Nat
    /\ Delay \in Nat
    /\ Delay + Loop <= PongTimeout

VARIABLES
    now,        \* GetTickCount64()
    \* the heartbeat thread
    pc,         \* its next statement
    hbNow,      \* the tick handed to check_heartbeat
    snapshot,   \* the sessions still to check
    cur,        \* the session being checked
    wakeAt,     \* when its wait ends
    \* sessions
    link,       \* "free", "joining", "connected", "closing" or "ended"
    waiting,    \* _waiting_pong
    lastPing,   \* _last_ping_tick
    \* clients
    pings,      \* pings sent and not answered
    pongs,      \* pongs sent and not handled
    sentAt,     \* when the last ping was sent
    aliveAt,    \* when the session connected or its last pong was handled
    cut         \* sessions disconnected for a timeout

hbVars     == <<pc, hbNow, snapshot, cur, wakeAt>>
clientVars == <<pings, pongs, sentAt, aliveAt>>
vars == <<now, hbVars, link, waiting, lastPing, clientVars, cut>>

\* One ping at most is under way: a session is not pinged while it waits.
TypeOK ==
    /\ now \in Nat /\ hbNow \in Nat /\ wakeAt \in Nat
    /\ pc \in {"wait", "snapshot", "next", "expiry", "mark", "send"}
    /\ snapshot \subseteq Sessions /\ cur \in Sessions
    /\ link \in [Sessions -> {"free", "joining", "connected", "closing", "ended"}]
    /\ waiting \in [Sessions -> BOOLEAN]
    /\ lastPing \in [Sessions -> Nat] /\ sentAt \in [Sessions -> Nat]
    /\ aliveAt \in [Sessions -> Nat]
    /\ pings \in [Sessions -> 0..1] /\ pongs \in [Sessions -> 0..1]
    /\ cut \subseteq Sessions

Init ==
    /\ now = 0 /\ pc = "wait" /\ hbNow = 0 /\ wakeAt = 0
    /\ snapshot = {} /\ cur \in Sessions
    /\ link = [x \in Sessions |-> "free"]
    /\ waiting = [x \in Sessions |-> FALSE]
    /\ lastPing = [x \in Sessions |-> 0] /\ sentAt = [x \in Sessions |-> 0]
    /\ aliveAt = [x \in Sessions |-> 0]
    /\ pings = [x \in Sessions |-> 0] /\ pongs = [x \in Sessions |-> 0]
    /\ cut = {}

-----------------------------------------------------------------------------
(* The heartbeat thread *)

\* The do-while of main: the wait ends and the tick is sampled.
Wake ==
    /\ pc = "wait" /\ now >= wakeAt
    /\ pc' = "snapshot"
    /\ hbNow' = now
    /\ UNCHANGED <<now, snapshot, cur, wakeAt, link, waiting, lastPing, clientVars, cut>>

\* The copy of _sessions under the lock.  A session is in the set from
\* add_session until its cleanup erases it.
Snapshot ==
    /\ pc = "snapshot"
    /\ snapshot' = {x \in Sessions : link[x] \in {"joining", "connected", "closing"}}
    /\ pc' = "next"
    /\ UNCHANGED <<now, hbNow, cur, wakeAt, link, waiting, lastPing, clientVars, cut>>

SendFirst == <<"send", "mark">>   \* Mutant: the ping is sent before the flag is set

\* The order of the statements of send_ping.
PingSteps == <<"mark", "send">>

AfterPing(step) == IF step = PingSteps[1] THEN PingSteps[2] ELSE "next"

\* The head of the loop: the session is skipped, checked or pinged.
CheckNext(x) ==
    /\ pc = "next" /\ x \in snapshot
    /\ snapshot' = snapshot \ {x}
    /\ cur' = x
    /\ pc' = IF link[x] # "connected" THEN "next"
             ELSE IF waiting[x] THEN "expiry" ELSE PingSteps[1]
    /\ UNCHANGED <<now, hbNow, wakeAt, link, waiting, lastPing, clientVars, cut>>

Expired(x) == hbNow - lastPing[x] > PongTimeout

\* The age of the unanswered ping; Session::disconnect has an effect only while
\* the session is connected.
Expiry ==
    /\ pc = "expiry"
    /\ IF Expired(cur) /\ link[cur] = "connected"
       THEN /\ link' = [link EXCEPT ![cur] = "closing"]
            /\ cut' = cut \cup {cur}
       ELSE UNCHANGED <<link, cut>>
    /\ pc' = "next"
    /\ UNCHANGED <<now, hbNow, snapshot, cur, wakeAt, waiting, lastPing, clientVars>>

MarkSent(x) == UNCHANGED waiting   \* Mutant: set_waiting_pong is missing

MarkWaiting(x) == waiting' = [waiting EXCEPT ![x] = TRUE]

\* send_ping: the two stores before the packet is built.
MarkPing ==
    /\ pc = "mark"
    /\ lastPing' = [lastPing EXCEPT ![cur] = hbNow]
    /\ MarkWaiting(cur)
    /\ pc' = AfterPing("mark")
    /\ UNCHANGED <<now, hbNow, snapshot, cur, wakeAt, link, clientVars, cut>>

\* send_ping: the send, which does nothing once the session is disconnected.
SendPing ==
    /\ pc = "send"
    /\ IF link[cur] = "connected"
       THEN /\ pings' = [pings EXCEPT ![cur] = @ + 1]
            /\ sentAt' = [sentAt EXCEPT ![cur] = now]
       ELSE UNCHANGED <<pings, sentAt>>
    /\ pc' = AfterPing("send")
    /\ UNCHANGED <<now, hbNow, snapshot, cur, wakeAt, link, waiting, lastPing, pongs,
                   aliveAt, cut>>

\* The round is over and the next wait begins.
EndRound ==
    /\ pc = "next" /\ snapshot = {}
    /\ pc' = "wait"
    /\ wakeAt' = now + Period
    /\ UNCHANGED <<now, hbNow, snapshot, cur, link, waiting, lastPing, clientVars, cut>>

-----------------------------------------------------------------------------
(* Sessions and clients *)

\* SessionManager::add_session, then Session::set_process_connect.
AddSession(x) ==
    /\ link[x] = "free"
    /\ link' = [link EXCEPT ![x] = "joining"]
    /\ UNCHANGED <<now, hbVars, waiting, lastPing, clientVars, cut>>

ProcessConnect(x) ==
    /\ link[x] = "joining"
    /\ link' = [link EXCEPT ![x] = "connected"]
    /\ aliveAt' = [aliveAt EXCEPT ![x] = now]
    /\ UNCHANGED <<now, hbVars, waiting, lastPing, pings, pongs, sentAt, cut>>

\* Anything else that ends the connection.
Disconnect(x) ==
    /\ link[x] = "connected"
    /\ link' = [link EXCEPT ![x] = "closing"]
    /\ UNCHANGED <<now, hbVars, waiting, lastPing, clientVars, cut>>

\* SessionManager::release_session at the end of the cleanup.
Release(x) ==
    /\ link[x] = "closing"
    /\ link' = [link EXCEPT ![x] = "ended"]
    /\ UNCHANGED <<now, hbVars, waiting, lastPing, clientVars, cut>>

\* The client answers ACK_SEND_CONNECT_PING.
Answer(x) ==
    /\ pings[x] > 0 /\ link[x] = "connected"
    /\ pings' = [pings EXCEPT ![x] = @ - 1]
    /\ pongs' = [pongs EXCEPT ![x] = @ + 1]
    /\ UNCHANGED <<now, hbVars, link, waiting, lastPing, sentAt, aliveAt, cut>>

\* Handle_REQ_CONNECT_PONG, in a job that is skipped once the session is
\* disconnected.
HandlePong(x) ==
    /\ pongs[x] > 0 /\ link[x] = "connected"
    /\ pongs' = [pongs EXCEPT ![x] = @ - 1]
    /\ waiting' = [waiting EXCEPT ![x] = FALSE]
    /\ aliveAt' = [aliveAt EXCEPT ![x] = now]
    /\ UNCHANGED <<now, hbVars, link, lastPing, pings, sentAt, cut>>

-----------------------------------------------------------------------------
(* Time *)

AnswerDue(x) == x \in Responsive /\ link[x] = "connected" /\ pings[x] + pongs[x] > 0

\* Time passes up to the nearest deadline of a round, a wake-up or an answer.
Tick ==
    /\ pc = "wait" => now < wakeAt + Late
    /\ pc # "wait" => now < hbNow + Loop
    /\ \A x \in Sessions : AnswerDue(x) => now < sentAt[x] + Delay
    /\ now' = now + 1
    /\ UNCHANGED <<hbVars, link, waiting, lastPing, clientVars, cut>>

Round ==
    \/ Wake \/ Snapshot \/ Expiry \/ MarkPing \/ SendPing \/ EndRound
    \/ \E x \in Sessions : CheckNext(x)

Client(x) ==
    \/ AddSession(x) \/ ProcessConnect(x) \/ Disconnect(x) \/ Release(x)
    \/ Answer(x) \/ HandlePong(x)

Next == Round \/ (\E x \in Sessions : Client(x)) \/ Tick

Spec == Init /\ [][Next]_vars

-----------------------------------------------------------------------------
(* Properties *)

\* check_heartbeat never disconnects a session whose client answers in time,
\* whatever order the pong's handler and the round of checks run in.
NoFalseTimeout == cut \cap Responsive = {}

\* Outside send_ping, the flag of a connected session says exactly whether a
\* ping or its pong is under way: no answer is lost and none comes too many.
FlagMatchesPing ==
    \A x \in Sessions :
        link[x] = "connected" /\ ~(pc \in {"mark", "send"} /\ cur = x)
            => /\ pings[x] + pongs[x] \in 0..1
               /\ waiting[x] <=> pings[x] + pongs[x] = 1

\* The ticks sampled by two successive rounds are at most this far apart.
Gap == Loop + Period + Late

\* A session does not stay connected for longer than this without an answer:
\* one gap to its first ping, the timeout, one gap to the round that notices
\* and that round.
SilenceBound ==
    \A x \in Sessions :
        link[x] = "connected" => now - aliveAt[x] <= 2 * Gap + PongTimeout + Loop
=============================================================================
