------------------------------- MODULE ClientIo -------------------------------
(***************************************************************************)
(* The sessions of the test client and the ClientServer that runs them:    *)
(* one completion port, worker threads, a send and a receive per session,  *)
(* the bots that send, and the shutdown in stop.                           *)
(*                                                                         *)
(* Everything a TestSession does with its socket, send queue and SendEvent *)
(* it does under one mutex, so a critical section of _send_lock is a step; *)
(* begin_io and finish_io are part of the section or a step of their own.  *)
(* A packet counts as Pieces units of data, and a partial send leaves some *)
(* of the units of its event.                                              *)
(***************************************************************************)
EXTENDS Naturals, FiniteSets

CONSTANTS Sessions,   \* TestSession objects
          Workers,    \* worker threads
          Bots,       \* threads that send
          Pieces,     \* units of data in a packet
          MaxSends    \* packets the bots and handlers send on a session

ASSUME ClientIoAssumption ==
    /\ IsFiniteSet(Sessions) /\ IsFiniteSet(Workers) /\ IsFiniteSet(Bots)
    /\ Workers # {}
    /\ "none" \notin Sessions /\ "main" \notin Workers \cup Bots /\ Workers \cap Bots = {}
    /\ Pieces \in Nat \ {0} /\ MaxSends \in Nat

VARIABLES
    \* TestSession
    conn,            \* "new", "open" or "closed"
    queue, event,    \* units in _send_queue and in _send_event
    registered,      \* _is_send_register
    pending,         \* _pending_io
    sendOp, recvOp,  \* the system's operation: "none", "posted" or its result
    dropped,         \* data of the session was thrown away
    sends,           \* packets sent by bots and handlers
    \* ClientServer and main
    served,          \* _sessions
    todo, active,    \* sessions main has to start, and those the bots use
    running,         \* LoadControl::running
    waits,           \* sessions stop has still to close or to wait for
    nulls,           \* null completions in the port
    \* the threads: next statement, its session, where the call returns to
    pc, at, ret

sessionVars == <<conn, queue, event, registered, pending, sendOp, recvOp, dropped, sends>>
serverVars  == <<served, todo, active, running, waits, nulls>>
vars == <<sessionVars, serverVars, pc, at, ret>>

Threads == Workers \cup Bots \cup {"main"}
NoSession == "none"

Results == {"data", "part", "zero"}   \* all or some of the data, or none

\* The calls a thread may be in, and the rest of each kind of thread.
Calls == {"regSend", "regRecv", "disc"}
Callbacks == {"sent", "sentPart", "sentZero", "received", "receivedZero", "packets", "finish"}
MainSteps == {"next", "register", "login", "run", "joinBots", "stop", "close", "wait", "post",
              "join", "clear", "done"}

TypeOK ==
    /\ conn \in [Sessions -> {"new", "open", "closed"}]
    /\ queue \in [Sessions -> Nat] /\ event \in [Sessions -> Nat]
    /\ registered \in [Sessions -> BOOLEAN]
    /\ pending \in [Sessions -> 0..(2 + Cardinality(Workers))]
    /\ sendOp \in [Sessions -> Results \cup {"none", "posted"}]
    /\ recvOp \in [Sessions -> {"none", "posted", "data", "zero"}]
    /\ dropped \in [Sessions -> BOOLEAN] /\ sends \in [Sessions -> 0..MaxSends]
    /\ served \subseteq Sessions /\ todo \subseteq Sessions /\ active \subseteq Sessions
    /\ running \in BOOLEAN /\ waits \subseteq Sessions /\ nulls \in 0..Cardinality(Workers)
    /\ \A w \in Workers : pc[w] \in Calls \cup Callbacks \cup {"idle", "exited"}
    /\ \A b \in Bots : pc[b] \in {"idle", "regSend", "disc", "exited"}
    /\ pc["main"] \in Calls \cup MainSteps

Init ==
    /\ conn = [s \in Sessions |-> "new"]
    /\ queue = [s \in Sessions |-> 0] /\ event = [s \in Sessions |-> 0]
    /\ registered = [s \in Sessions |-> FALSE] /\ pending = [s \in Sessions |-> 0]
    /\ sendOp = [s \in Sessions |-> "none"] /\ recvOp = [s \in Sessions |-> "none"]
    /\ dropped = [s \in Sessions |-> FALSE] /\ sends = [s \in Sessions |-> 0]
    /\ served = {} /\ todo = Sessions /\ active = {} /\ running = TRUE
    /\ waits = {} /\ nulls = 0
    /\ pc = [t \in Threads |-> IF t = "main" THEN "next" ELSE "idle"]
    /\ at = [t \in Threads |-> NoSession] /\ ret = [t \in Threads |-> "idle"]

Goto(t, to) == pc' = [pc EXCEPT ![t] = to] /\ UNCHANGED <<at, ret>>

\* A call on session s that returns to back.
Call(t, to, s, back) ==
    /\ pc' = [pc EXCEPT ![t] = to]
    /\ at' = [at EXCEPT ![t] = s]
    /\ ret' = [ret EXCEPT ![t] = back]

-----------------------------------------------------------------------------
(* TestSession's critical sections; t is the thread, s its session *)

AlwaysStarts(s) == TRUE   \* Mutant: the flag is not looked at

StartsSend(s) == ~registered[s]

MayQueue(s) == conn[s] = "open"

\* send: the packet is queued, and the one that finds no send registered goes on
\* to register_send.
Send(t, s, back) ==
    IF MayQueue(s)
    THEN /\ queue' = [queue EXCEPT ![s] = @ + Pieces]
         /\ registered' = [registered EXCEPT ![s] = TRUE]
         /\ Call(t, IF StartsSend(s) THEN "regSend" ELSE back, s, back)
         /\ UNCHANGED <<conn, event, pending, sendOp, recvOp, dropped>>
    ELSE /\ Call(t, back, s, back)
         /\ UNCHANGED <<conn, queue, event, registered, pending, sendOp, recvOp, dropped>>

GivenBack(s) == FALSE   \* Mutant: the flag is given back before the disconnect

\* A failed WSASend keeps the flag until the disconnect.
FlagAfterFailure(s) == registered[s]

CountedAnyway(ok) == 1   \* Mutant: finish_io is missing when the call fails

\* begin_io before the call, finish_io when it fails at once.
PendingAfterPost(ok) == IF ok THEN 1 ELSE 0

\* register_send on a session that has ended.
RegisterSendClosed(t) ==
    LET s == at[t] IN
    /\ pc[t] = "regSend" /\ conn[s] # "open"
    /\ event' = [event EXCEPT ![s] = 0]
    /\ registered' = [registered EXCEPT ![s] = FALSE]
    /\ Goto(t, ret[t])
    /\ UNCHANGED <<conn, queue, pending, sendOp, recvOp, dropped, sends, serverVars>>

\* The queue moves into the event unless a partial send is to be continued; an
\* empty event is not sent.
RegisterSend(t) ==
    LET s    == at[t]
        data == IF event[s] > 0 THEN event[s] ELSE queue[s]
    IN  /\ pc[t] = "regSend" /\ conn[s] = "open"
        /\ queue' = [queue EXCEPT ![s] = IF event[s] > 0 THEN @ ELSE 0]
        /\ \E ok \in BOOLEAN :
            /\ data = 0 => ok
            /\ event' = [event EXCEPT ![s] = IF ok THEN data ELSE 0]
            /\ sendOp' = [sendOp EXCEPT ![s] = IF ok /\ data > 0 THEN "posted" ELSE @]
            /\ pending' = [pending EXCEPT ![s] = @ + IF data > 0 THEN PendingAfterPost(ok) ELSE 0]
            /\ registered' = [registered EXCEPT ![s] =
                                 IF ok THEN data > 0 ELSE FlagAfterFailure(s)]
            /\ dropped' = [dropped EXCEPT ![s] = @ \/ ~ok]
            /\ Goto(t, IF ok THEN ret[t] ELSE "disc")
        /\ UNCHANGED <<conn, recvOp, sends, serverVars>>

\* register_recv; a call that fails disconnects.  Main goes on with the login
\* only when the receive was posted.
RegisterRecv(t) ==
    LET s == at[t] IN
    /\ pc[t] = "regRecv"
    /\ \E ok \in BOOLEAN :
        /\ conn[s] # "open" => ok
        /\ LET posts == ok /\ conn[s] = "open" IN
            /\ recvOp' = [recvOp EXCEPT ![s] = IF posts THEN "posted" ELSE @]
            /\ pending' = [pending EXCEPT ![s] = @ + IF posts THEN 1 ELSE 0]
            /\ Goto(t, IF ~ok THEN "disc" ELSE IF t = "main" /\ posts THEN "login" ELSE ret[t])
    /\ UNCHANGED <<conn, queue, event, registered, sendOp, dropped, sends, serverVars>>

\* disconnect: the first one closes the socket and drops the queue.  The buffers
\* of a send under way stay in the event until it completes.
Disconnect(s) ==
    IF conn[s] = "open"
    THEN /\ conn' = [conn EXCEPT ![s] = "closed"]
         /\ registered' = [registered EXCEPT ![s] = FALSE]
         /\ dropped' = [dropped EXCEPT ![s] = @ \/ queue[s] > 0]
         /\ queue' = [queue EXCEPT ![s] = 0]
    ELSE UNCHANGED <<conn, registered, dropped, queue>>

CallDisconnect(t) ==
    /\ pc[t] = "disc"
    /\ Disconnect(at[t])
    /\ Goto(t, ret[t])
    /\ UNCHANGED <<event, pending, sendOp, recvOp, sends, serverVars>>

-----------------------------------------------------------------------------
(* The completion callbacks *)

\* dispatch_once: the completion of a send or of a receive.
DispatchSend(t, s) ==
    /\ pc[t] = "idle" /\ sendOp[s] \in Results
    /\ Call(t, CASE sendOp[s] = "data" -> "sent"
                 [] sendOp[s] = "part" -> "sentPart"
                 [] sendOp[s] = "zero" -> "sentZero", s, "finish")
    /\ sendOp' = [sendOp EXCEPT ![s] = "none"]
    /\ UNCHANGED <<conn, queue, event, registered, pending, recvOp, dropped, sends, serverVars>>

DispatchRecv(t, s) ==
    /\ pc[t] = "idle" /\ recvOp[s] \in Results
    /\ Call(t, IF recvOp[s] = "data" THEN "received" ELSE "receivedZero", s, "finish")
    /\ recvOp' = [recvOp EXCEPT ![s] = "none"]
    /\ UNCHANGED <<conn, queue, event, registered, pending, sendOp, dropped, sends, serverVars>>

\* process_send on a session that has ended.
ProcessSendClosed(t) ==
    LET s == at[t] IN
    /\ pc[t] \in {"sent", "sentPart", "sentZero"} /\ conn[s] # "open"
    /\ event' = [event EXCEPT ![s] = 0]
    /\ registered' = [registered EXCEPT ![s] = FALSE]
    /\ Goto(t, "finish")
    /\ UNCHANGED <<conn, queue, pending, sendOp, recvOp, dropped, sends, serverVars>>

\* Nothing was sent: the session ends.
ProcessSendZero(t) ==
    LET s == at[t] IN
    /\ pc[t] = "sentZero" /\ conn[s] = "open"
    /\ event' = [event EXCEPT ![s] = 0]
    /\ dropped' = [dropped EXCEPT ![s] = TRUE]
    /\ Goto(t, "disc")
    /\ UNCHANGED <<conn, queue, registered, pending, sendOp, recvOp, sends, serverVars>>

ProcessSendPart(t) ==
    LET s == at[t] IN
    /\ pc[t] = "sentPart" /\ conn[s] = "open"
    /\ \E rest \in 1..(event[s] - 1) : event' = [event EXCEPT ![s] = rest]
    /\ Goto(t, "regSend")
    /\ UNCHANGED <<conn, queue, registered, pending, sendOp, recvOp, dropped, sends, serverVars>>

\* The whole event was sent: the flag goes back unless more was queued.
NothingQueued(s) == queue[s] = 0

ProcessSend(t) ==
    LET s == at[t] IN
    /\ pc[t] = "sent" /\ conn[s] = "open"
    /\ event' = [event EXCEPT ![s] = 0]
    /\ registered' = [registered EXCEPT ![s] = ~NothingQueued(s)]
    /\ Goto(t, IF NothingQueued(s) THEN "finish" ELSE "regSend")
    /\ UNCHANGED <<conn, queue, pending, sendOp, recvOp, dropped, sends, serverVars>>

\* process_recv looks at the connection without the mutex.
ProcessRecv(t) ==
    /\ pc[t] \in {"received", "receivedZero"}
    /\ Goto(t, IF conn[at[t]] # "open" THEN "finish"
               ELSE IF pc[t] = "received" THEN "packets" ELSE "disc")
    /\ UNCHANGED <<sessionVars, serverVars>>

\* A packet whose handler sends: a ping, or a login that is tried again.
HandleAndSend(t) ==
    LET s == at[t] IN
    /\ pc[t] = "packets" /\ sends[s] < MaxSends
    /\ sends' = [sends EXCEPT ![s] = @ + 1]
    /\ Send(t, s, "packets")
    /\ UNCHANGED serverVars

\* A packet that ends the session: a logout, a refused login, a full server, or
\* one that is malformed, which skips the rest of process_recv.
HandleAndEnd(t, back) ==
    /\ pc[t] = "packets" /\ conn[at[t]] = "open"
    /\ Call(t, "disc", at[t], back)
    /\ UNCHANGED <<sessionVars, serverVars>>

\* The rest of the data is kept, and the next receive is posted.
EndPackets(t) ==
    /\ pc[t] = "packets"
    /\ Call(t, "regRecv", at[t], "finish")
    /\ UNCHANGED <<sessionVars, serverVars>>

\* finish_io, at the end of dispatch.
FinishIo(t) ==
    /\ pc[t] = "finish"
    /\ pending' = [pending EXCEPT ![at[t]] = @ - 1]
    /\ Call(t, "idle", NoSession, "idle")
    /\ UNCHANGED <<conn, queue, event, registered, sendOp, recvOp, dropped, sends, serverVars>>

\* The null completion of stop.
WorkerExits(w) ==
    /\ pc[w] = "idle" /\ nulls > 0
    /\ nulls' = nulls - 1
    /\ Goto(w, "exited")
    /\ UNCHANGED <<sessionVars, served, todo, active, running, waits>>

\* The system completes an operation; one of several units may be partial.
CompleteSend(s) ==
    /\ sendOp[s] = "posted"
    /\ \E r \in Results : /\ r = "part" => event[s] > 1
                          /\ sendOp' = [sendOp EXCEPT ![s] = r]
    /\ UNCHANGED <<conn, queue, event, registered, pending, recvOp, dropped, sends,
                   serverVars, pc, at, ret>>

CompleteRecv(s) ==
    /\ recvOp[s] = "posted"
    /\ \E r \in {"data", "zero"} : recvOp' = [recvOp EXCEPT ![s] = r]
    /\ UNCHANGED <<conn, queue, event, registered, pending, sendOp, dropped, sends,
                   serverVars, pc, at, ret>>

-----------------------------------------------------------------------------
(* The bots *)

BotSends(b, s) ==
    /\ pc[b] = "idle" /\ pc["main"] \in {"run", "joinBots"} /\ running
    /\ s \in active /\ sends[s] < MaxSends
    /\ sends' = [sends EXCEPT ![s] = @ + 1]
    /\ Send(b, s, "idle")
    /\ UNCHANGED serverVars

BotExits(b) ==
    /\ pc[b] = "idle" /\ ~running
    /\ Goto(b, "exited")
    /\ UNCHANGED <<sessionVars, serverVars>>

-----------------------------------------------------------------------------
(* The main thread *)

\* connect; a session that does not connect is left out.
Connect(s) ==
    /\ pc["main"] = "next" /\ s \in todo
    /\ todo' = todo \ {s}
    /\ \/ /\ conn' = [conn EXCEPT ![s] = "open"]
          /\ Call("main", "register", s, "next")
       \/ UNCHANGED <<conn, pc, at, ret>>
    /\ UNCHANGED <<queue, event, registered, pending, sendOp, recvOp, dropped, sends,
                   served, active, running, waits, nulls>>

\* register_socket, and the first half of start.
RegisterSocket ==
    /\ pc["main"] = "register"
    /\ \/ served' = served \cup {at["main"]} /\ Goto("main", "regRecv")
       \/ served' = served /\ Goto("main", "disc")
    /\ UNCHANGED <<sessionVars, todo, active, running, waits, nulls>>

\* test_login, and the session joins those of the bots.
TestLogin ==
    /\ pc["main"] = "login"
    /\ active' = active \cup {at["main"]}
    /\ Send("main", at["main"], "next")
    /\ UNCHANGED <<sends, served, todo, running, waits, nulls>>

MainGoes(from, to) ==
    /\ pc["main"] = from
    /\ Goto("main", to)
    /\ UNCHANGED sessionVars

AllStarted ==
    /\ MainGoes("next", "run") /\ todo = {}
    /\ UNCHANGED serverVars

\* The user's /q, or the end of the input.
Quit ==
    /\ MainGoes("run", "joinBots")
    /\ running' = FALSE
    /\ UNCHANGED <<served, todo, active, waits, nulls>>

JoinBots ==
    /\ MainGoes("joinBots", "close") /\ \A b \in Bots : pc[b] = "exited"
    /\ waits' = served
    /\ UNCHANGED <<served, todo, active, running, nulls>>

\* stop disconnects every session.
CloseSession(s) ==
    /\ pc["main"] = "close" /\ s \in waits
    /\ Disconnect(s)
    /\ waits' = waits \ {s}
    /\ UNCHANGED <<event, pending, sendOp, recvOp, sends, served, todo, active, running, nulls,
                   pc, at, ret>>

AllClosed ==
    /\ MainGoes("close", "wait") /\ waits = {}
    /\ waits' = served
    /\ UNCHANGED <<served, todo, active, running, nulls>>

NotAwaited(s) == TRUE   \* Mutant

IoCompleted(s) == pending[s] = 0

\* wait_for_io.
WaitForIo(s) ==
    /\ pc["main"] = "wait" /\ s \in waits /\ IoCompleted(s)
    /\ waits' = waits \ {s}
    /\ UNCHANGED <<sessionVars, served, todo, active, running, nulls, pc, at, ret>>

\* One null completion for every worker.
PostNulls ==
    /\ MainGoes("wait", "join") /\ waits = {}
    /\ nulls' = Cardinality(Workers)
    /\ UNCHANGED <<served, todo, active, running, waits>>

\* The workers are joined and the sessions released.
JoinWorkers ==
    /\ MainGoes("join", "done") /\ \A w \in Workers : pc[w] = "exited"
    /\ served' = {} /\ active' = {}
    /\ UNCHANGED <<todo, running, waits, nulls>>

-----------------------------------------------------------------------------

Session(t) ==
    RegisterSendClosed(t) \/ RegisterSend(t) \/ RegisterRecv(t) \/ CallDisconnect(t)

Callback(t) ==
    \/ \E s \in Sessions : DispatchSend(t, s) \/ DispatchRecv(t, s)
    \/ ProcessSendClosed(t) \/ ProcessSendZero(t) \/ ProcessSendPart(t) \/ ProcessSend(t)
    \/ ProcessRecv(t) \/ HandleAndSend(t) \/ EndPackets(t) \/ FinishIo(t)
    \/ \E back \in {"packets", "finish"} : HandleAndEnd(t, back)

Main ==
    \/ \E s \in Sessions : Connect(s) \/ CloseSession(s) \/ WaitForIo(s)
    \/ RegisterSocket \/ TestLogin \/ AllStarted \/ JoinBots \/ AllClosed
    \/ PostNulls \/ JoinWorkers

Exited == pc["main"] = "done" /\ UNCHANGED vars

Next ==
    \/ \E t \in Threads : Session(t)
    \/ \E w \in Workers : Callback(w) \/ WorkerExits(w)
    \/ \E b \in Bots : BotExits(b) \/ \E s \in Sessions : BotSends(b, s)
    \/ \E s \in Sessions : CompleteSend(s) \/ CompleteRecv(s)
    \/ Main \/ Quit \/ Exited

Spec == Init /\ [][Next]_vars

\* Every thread runs, a send ends one way or the other, and the receive of a
\* closed socket completes.  The port is a FIFO queue, so a completion is taken
\* however many others come.  Nobody has to send, to answer or to quit.
Fairness ==
    /\ \A t \in Threads : WF_vars(Session(t))
    /\ \A w \in Workers : WF_vars(Callback(w)) /\ WF_vars(WorkerExits(w))
    /\ \A b \in Bots : WF_vars(BotExits(b))
    /\ \A s \in Sessions : /\ SF_vars(\E w \in Workers : DispatchSend(w, s))
                           /\ SF_vars(\E w \in Workers : DispatchRecv(w, s))
                           /\ WF_vars(CompleteSend(s))
                           /\ WF_vars(conn[s] = "closed" /\ CompleteRecv(s))
    /\ WF_vars(Main)

FairSpec == Spec /\ Fairness

-----------------------------------------------------------------------------
(* Properties *)

InSendCallback == {"sent", "sentPart", "sentZero", "regSend"}
InCallback(s) == {t \in Workers :
                    at[t] = s /\ (pc[t] \in Callbacks \/ ret[t] \in {"finish", "packets"})}
OneIf(b) == IF b THEN 1 ELSE 0

\* _send_event has one user at a time: the send under way, the callback of the
\* one that completed, or the thread that registers the next (TestSession::send,
\* register_send and process_send).
SingleSender ==
    \A s \in Sessions :
        OneIf(sendOp[s] # "none")
            + Cardinality({t \in Threads : at[t] = s /\ pc[t] \in InSendCallback}) <= 1

\* The buffers of a send under way are kept until its completion is handled,
\* disconnect by any thread included (TestSession::disconnect).
BuffersKept == \A s \in Sessions : sendOp[s] # "none" => event[s] > 0

\* _pending_io counts the operations the system holds and the callbacks that
\* have not ended, so that wait_for_io cannot return too early or never.
PendingExact ==
    \A s \in Sessions :
        pending[s] = OneIf(sendOp[s] # "none") + OneIf(recvOp[s] # "none")
                        + Cardinality(InCallback(s))

\* Once stop has waited for every session no operation is left, no thread is in a
\* callback and the workers' sessions may be released (ClientServer::stop,
\* ~TestSession's assertion).
QuietAfterWait ==
    pc["main"] \in {"join", "done"} =>
        \A s \in Sessions : /\ pending[s] = 0 /\ InCallback(s) = {}
                            /\ sendOp[s] = "none" /\ recvOp[s] = "none"

\* A send that races with disconnect leaves nothing behind: a closed session has
\* no queued data, and at the end no session holds buffers (TestSession::send).
NothingLeft ==
    \A s \in Sessions : /\ conn[s] = "closed" => queue[s] = 0
                        /\ pc["main"] = "done" => event[s] = 0

\* The send event and its buffers belong to one send from registration to the
\* end of its completion.
SendEventSafe == SingleSender /\ BuffersKept

\* What stop waits for is all that is under way, and nothing remains after it.
IoAccounted == PendingExact /\ QuietAfterWait /\ NothingLeft

\* The server never sees a stream with a hole: after data was thrown away, by a
\* failed send or by disconnect, nothing more is sent (TestSession::register_send
\* keeps the flag until the disconnect).
NoSendAfterLoss ==
    [][\A s \in Sessions :
        dropped[s] => ~(sendOp[s] # "posted" /\ sendOp'[s] = "posted")]_vars

\* stop ends: every session's operations complete and every worker is joined
\* (ClientServer::stop).
StopEnds == ~running ~> pc["main"] = "done"

\* Queued data does not wait for another packet: it is handed to the system or
\* dropped with the session (TestSession::process_send).
QueueDrains == \A s \in Sessions : queue[s] > 0 ~> queue[s] = 0

\* The client's threads never wait for each other forever, nor data for a packet
\* that may not come.
WorkEnds == StopEnds /\ QueueDrains
=============================================================================
