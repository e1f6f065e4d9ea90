------------------------------ MODULE Session ------------------------------
(***************************************************************************)
(* One Session of ServerCore from its accept to the end of its shutdown:   *)
(* the single-flight send pipeline, the receive loop, disconnect, the      *)
(* cleanup job and begin_shutdown / wait_for_shutdown.                     *)
(*                                                                         *)
(* Every call the session makes on itself is a tail call, so a thread is   *)
(* described by the label of the next statement it executes, pc[a], and    *)
(* returns to the label After(a) of its caller.  A step is one access to   *)
(* an atomic or one critical section; _io_lock and the WRITE_LOCK of the   *)
(* session are modelled because they are held across such accesses, while  *)
(* _logic_lock and _completion_lock never are.                             *)
(*                                                                         *)
(* The kernel is external: it accepts or refuses a request, and completes  *)
(* an accepted one once, with data, with part of the data, or with an      *)
(* error, which IocpCore::dispatch turns into a transfer of 0 bytes.       *)
(***************************************************************************)
EXTENDS Integers, Sequences, FiniteSets

CONSTANTS Apps,       \* threads that run jobs of other sessions or heartbeat
          MaxSends,   \* bound: messages pushed to _send_queue
          MaxRecvs,   \* bound: packets received
          MaxQueue,   \* MAX_SEND_QUEUE_SIZE
          MsgLen,     \* length of a message, in units of a partial send
          Outcomes,   \* what becomes of the accept: "accept", "reject", "cancel"
          Spare       \* second workers: subset of {"recv2", "send2"}

ASSUME SessionAssumption ==
    /\ IsFiniteSet(Apps)
    /\ MaxSends \in Nat /\ MaxRecvs \in Nat
    /\ MaxQueue \in Nat \ {0} /\ MsgLen \in Nat \ {0}
    /\ Outcomes \subseteq {"accept", "reject", "cancel"}
    /\ Spare \subseteq {"recv2", "send2"}
    /\ Apps \cap {"acceptor", "recv", "send", "disc", "logic", "closer", "none",
                  "recv2", "send2"} = {}

Events   == {"recv", "send", "disc"}     \* also the workers that complete them
Workers  == Events \cup Spare            \* a spare one works when the first is busy
Actors   == Workers \cup {"acceptor", "logic", "closer"} \cup Apps
NoActor  == "none"

VARIABLES
    isConnect, wasConnected, isDisconnect, shutdownStarted, closeAfterSend,
    isSendRegister,                  \* the atomic flags of Session
    ioLock, writeLock,               \* the holder of each lock, or NoActor
    sendQueue,                       \* _send_queue: message numbers
    batch, offset,                   \* _send_event: unsent buffers, bytes done
    owner,                           \* owner[e]: the event holds the session
    posted,                          \* posted[e]: requests the kernel holds
    pendingIo,                       \* _pending_io
    jobQueue, pendingJobs, logicStopped, cleanupDone,
    registered,                      \* in SessionManager: "no", "yes", "gone"
    connects, disconnects,           \* GServerStats.connect, .disconnect
    pc,                              \* pc[a]: the next statement of thread a
    sent,                            \* bytes of the send completion in hand
    socketOpen,                      \* neither closed nor disconnected
    pushed, received,                \* messages pushed, packets received
    wire,                            \* history: units the kernel took, in order
    sendFailed,                      \* history: a send failed
    cleanups, lateHandlers           \* history: cleanups, handlers after one

flags    == <<isConnect, wasConnected, isDisconnect, shutdownStarted,
              closeAfterSend, isSendRegister>>
locks    == <<ioLock, writeLock>>
sendVars == <<sendQueue, batch, offset, sent>>
ioVars   == <<owner, posted, pendingIo, socketOpen>>
jobVars  == <<jobQueue, pendingJobs, logicStopped, cleanupDone>>
world    == <<registered, connects, disconnects>>
history  == <<pushed, received, wire, sendFailed, cleanups, lateHandlers>>
vars     == <<flags, locks, sendVars, ioVars, jobVars, world, pc, history>>

Labels ==
    {"idle", "done",
     "was", "conn", "rejectFlag", "rejectSet",                \* accept
     "send", "sendLock", "sendFlag",                          \* send
     "rs", "rsDrain", "rsPost",                               \* register_send
     "dc", "rd", "pd", "pdClear", "pdQueue",                  \* disconnect
     "rr", "prData", "prZero", "parse", "parsed",             \* receive
     "ps", "psEmpty", "discDone", "finish",                   \* completions
     "packet", "handler", "cleanup", "cleanupDone", "jobEnd", \* jobs
     "bsClose", "waitIo", "waitJobs", "clear", "closed"}      \* shutdown

TypeOK ==
    /\ isConnect \in BOOLEAN /\ wasConnected \in BOOLEAN /\ isDisconnect \in BOOLEAN
    /\ shutdownStarted \in BOOLEAN /\ closeAfterSend \in BOOLEAN
    /\ isSendRegister \in BOOLEAN
    /\ ioLock \in Actors \cup {NoActor} /\ writeLock \in Actors \cup {NoActor}
    /\ sendQueue \in Seq(Nat) /\ Len(sendQueue) <= MaxQueue
    /\ batch \in Seq(Nat) /\ offset \in 0..(MsgLen - 1) /\ sent \in Nat
    /\ owner \in [Events -> BOOLEAN] /\ posted \in [Events -> Nat]
    /\ pendingIo \in Nat /\ socketOpen \in BOOLEAN
    /\ jobQueue \in Seq({"packet", "cleanup"}) /\ pendingJobs \in Nat
    /\ logicStopped \in BOOLEAN /\ cleanupDone \in BOOLEAN
    /\ registered \in {"no", "yes", "gone"}
    /\ connects \in Nat /\ disconnects \in Nat
    /\ pc \in [Actors -> Labels]
    /\ pushed \in 0..MaxSends /\ received \in 0..MaxRecvs
    /\ wire \in Seq(Nat) /\ sendFailed \in BOOLEAN
    /\ cleanups \in Nat /\ lateHandlers \in Nat

Init ==
    /\ isConnect = FALSE /\ wasConnected = FALSE /\ isDisconnect = FALSE
    /\ shutdownStarted = FALSE /\ closeAfterSend = FALSE /\ isSendRegister = FALSE
    /\ ioLock = NoActor /\ writeLock = NoActor
    /\ sendQueue = <<>> /\ batch = <<>> /\ offset = 0 /\ sent = 0
    /\ owner = [e \in Events |-> FALSE] /\ posted = [e \in Events |-> 0]
    /\ pendingIo = 0 /\ socketOpen = TRUE
    /\ jobQueue = <<>> /\ pendingJobs = 0 /\ logicStopped = FALSE /\ cleanupDone = FALSE
    /\ registered = "no" /\ connects = 0 /\ disconnects = 0
    /\ pc = [a \in Actors |-> "idle"]
    /\ pushed = 0 /\ received = 0 /\ wire = <<>> /\ sendFailed = FALSE
    /\ cleanups = 0 /\ lateHandlers = 0

-----------------------------------------------------------------------------
(* Control *)

\* Where a thread continues when the session's code returns to its caller:
\* IocpCore::dispatch calls finish_io, a job ends, begin_shutdown is followed
\* by wait_for_shutdown.
After(a) ==
    CASE a \in Workers    -> "finish"
      [] a = "logic"      -> "jobEnd"
      [] a = "closer"     -> "waitIo"
      [] a = "acceptor"   -> "done"
      [] a \in Apps       -> "idle"

At(a, l)    == pc[a] = l
Goto(a, l)  == pc' = [pc EXCEPT ![a] = l]
Return(a)   == Goto(a, After(a))

-----------------------------------------------------------------------------
(* Accept: Listener::process_accept, SessionManager::add_session,
   process_connect and reject_connection *)

\* The listener calls on_connected or reject_connection, or drops the session.
\* Service::close_service runs only after the listener has stopped.
Accept(o) ==
    /\ At("acceptor", "idle") /\ At("closer", "idle")
    /\ registered' = IF o = "accept" THEN "yes" ELSE registered
    /\ Goto("acceptor", CASE o = "accept" -> "was"
                          [] o = "reject" -> "rejectFlag"
                          [] o = "cancel" -> "done")
    /\ UNCHANGED <<flags, locks, sendVars, ioVars, jobVars, connects, disconnects,
                   history>>

ProcessConnect ==
    \/ /\ At("acceptor", "was") /\ wasConnected' = TRUE /\ Goto("acceptor", "conn")
       /\ UNCHANGED <<isConnect, connects>>
    \/ /\ At("acceptor", "conn") /\ isConnect' = TRUE /\ Goto("acceptor", "rr")
       /\ connects' = connects + 1 /\ UNCHANGED wasConnected

Connect ==
    /\ ProcessConnect
    /\ UNCHANGED <<isDisconnect, shutdownStarted, closeAfterSend, isSendRegister,
                   locks, sendVars, ioVars, jobVars, registered, disconnects, history>>

RejectFlag ==
    /\ At("acceptor", "rejectFlag")
    /\ isConnect' = TRUE
    /\ Goto("acceptor", IF isConnect THEN "done" ELSE "rejectSet")
    /\ UNCHANGED <<wasConnected, isDisconnect, shutdownStarted, closeAfterSend,
                   isSendRegister, locks, sendVars, ioVars, jobVars, world, history>>

\* GameSession always builds the notice, so the branch without one is not taken.
RejectSet ==
    /\ At("acceptor", "rejectSet")
    /\ wasConnected' = TRUE /\ closeAfterSend' = TRUE
    /\ connects' = connects + 1
    /\ Goto("acceptor", "send")
    /\ UNCHANGED <<isConnect, isDisconnect, shutdownStarted, isSendRegister, locks,
                   sendVars, ioVars, jobVars, registered, disconnects, history>>

-----------------------------------------------------------------------------
(* Session::send *)

\* The calls to send that have not reached the queue yet count for the bound.
MaySend ==
    pushed + Cardinality({a \in Actors : pc[a] \in {"send", "sendLock"}}) < MaxSends

Send(a) ==
    /\ At(a, "send")
    /\ IF isConnect THEN Goto(a, "sendLock") ELSE Return(a)
    /\ UNCHANGED <<flags, locks, sendVars, ioVars, jobVars, world, history>>

QueueFull == Len(sendQueue) >= MaxQueue

\* Under WRITE_LOCK: the second check, the limit and the push.
SendLock(a) ==
    /\ At(a, "sendLock") /\ writeLock = NoActor
    /\ \/ /\ ~isConnect
          /\ Return(a)
          /\ UNCHANGED <<writeLock, sendQueue, pushed>>
       \/ /\ isConnect /\ QueueFull
          /\ Goto(a, "dc")
          /\ UNCHANGED <<writeLock, sendQueue, pushed>>
       \/ /\ isConnect /\ ~QueueFull
          /\ sendQueue' = Append(sendQueue, pushed + 1)
          /\ pushed' = pushed + 1
          /\ writeLock' = a
          /\ Goto(a, "sendFlag")
    /\ UNCHANGED <<flags, ioLock, batch, offset, sent, ioVars, jobVars, world,
                   received, wire, sendFailed, cleanups, lateHandlers>>

AlwaysRegister(a) == "rs"   \* Mutant: the value of the exchange is ignored
FirstRegisters(a) == IF isSendRegister THEN After(a) ELSE "rs"

\* _is_send_register.exchange(true), still under WRITE_LOCK.
SendFlag(a) ==
    /\ At(a, "sendFlag")
    /\ isSendRegister' = TRUE
    /\ writeLock' = NoActor
    /\ Goto(a, FirstRegisters(a))
    /\ UNCHANGED <<isConnect, wasConnected, isDisconnect, shutdownStarted,
                   closeAfterSend, ioLock, sendVars, ioVars, jobVars, world, history>>

-----------------------------------------------------------------------------
(* Session::register_send *)

RegisterSend(a) ==
    /\ At(a, "rs") /\ ioLock = NoActor
    /\ IF shutdownStarted \/ ~isConnect
       THEN Return(a) /\ UNCHANGED <<ioLock, owner>>
       ELSE /\ ioLock' = a
            /\ owner' = [owner EXCEPT !["send"] = TRUE]
            /\ Goto(a, "rsDrain")
    /\ UNCHANGED <<flags, writeLock, sendVars, posted, pendingIo, socketOpen, jobVars,
                   world, history>>

\* A batch that was sent in part is resumed; otherwise the queue is drained.
Drained == IF batch = <<>> THEN sendQueue ELSE batch

\* The code leaves the lock of the queue before it deals with a drain that found
\* nothing.  The two are one step here: the holder of the flag finds a message.
RsDrain(a) ==
    /\ At(a, "rsDrain") /\ (batch = <<>> => writeLock = NoActor)
    /\ batch' = Drained
    /\ sendQueue' = IF batch = <<>> THEN <<>> ELSE sendQueue
    /\ IF Drained = <<>>
       THEN /\ owner' = [owner EXCEPT !["send"] = FALSE]
            /\ isSendRegister' = FALSE
            /\ ioLock' = NoActor
            /\ IF closeAfterSend THEN Goto(a, "dc") ELSE Return(a)
       ELSE /\ Goto(a, "rsPost")
            /\ UNCHANGED <<owner, isSendRegister, ioLock>>
    /\ UNCHANGED <<isConnect, wasConnected, isDisconnect, shutdownStarted,
                   closeAfterSend, writeLock, offset, sent, posted, pendingIo,
                   socketOpen, jobVars, world, history>>

RsPostOk(a) ==
    /\ At(a, "rsPost")
    /\ posted' = [posted EXCEPT !["send"] = @ + 1]
    /\ pendingIo' = pendingIo + 1
    /\ ioLock' = NoActor
    /\ Return(a)
    /\ UNCHANGED <<flags, writeLock, sendVars, owner, socketOpen, jobVars, world,
                   history>>

IoNotFinished == pendingIo' = pendingIo + 1   \* Mutant: finish_io is forgotten
IoFinishedAtOnce == UNCHANGED pendingIo

FailureLogged(a) == After(a)   \* Mutant: a failed WSASend is only logged
FailureEnds(a) == "dc"

\* WSASend fails at once: begin_io and finish_io cancel out.
RsPostFail(a) ==
    /\ At(a, "rsPost")
    /\ owner' = [owner EXCEPT !["send"] = FALSE]
    /\ batch' = <<>> /\ offset' = 0
    /\ isSendRegister' = FALSE
    /\ ioLock' = NoActor
    /\ sendFailed' = TRUE
    /\ IoFinishedAtOnce
    /\ Goto(a, FailureEnds(a))
    /\ UNCHANGED <<isConnect, wasConnected, isDisconnect, shutdownStarted,
                   closeAfterSend, writeLock, sendQueue, sent, posted, socketOpen, jobVars, world, pushed, received, wire, cleanups,
                   lateHandlers>>

-----------------------------------------------------------------------------
(* Session::disconnect, register_disconnect and process_disconnect *)

\* _is_connect.exchange(false): one caller wins.
Disconnect(a) ==
    /\ At(a, "dc")
    /\ isConnect' = FALSE
    /\ IF isConnect THEN Goto(a, "rd") ELSE Return(a)
    /\ UNCHANGED <<wasConnected, isDisconnect, shutdownStarted, closeAfterSend,
                   isSendRegister, locks, sendVars, ioVars, jobVars, world, history>>

NoCleanup(a) == After(a)   \* Mutant: a refused DisconnectEx is ignored
CleanupAtOnce(a) == "pd"

\* DisconnectEx is accepted, or refused, or not even tried after a shutdown.
RegisterDisconnect(a) ==
    /\ At(a, "rd") /\ ioLock = NoActor
    /\ \/ /\ ~shutdownStarted
          /\ owner' = [owner EXCEPT !["disc"] = TRUE]
          /\ posted' = [posted EXCEPT !["disc"] = @ + 1]
          /\ pendingIo' = pendingIo + 1
          /\ Return(a)
       \/ /\ Goto(a, CleanupAtOnce(a))
          /\ UNCHANGED <<owner, posted, pendingIo>>
    /\ UNCHANGED <<flags, locks, sendVars, socketOpen, jobVars, world, history>>

FirstCleans(a) == IF isDisconnect THEN After(a) ELSE "pdClear"

\* _is_disconnect.exchange(true): the cleanup is queued once.
ProcessDisconnect(a) ==
    /\ At(a, "pd")
    /\ isDisconnect' = TRUE
    /\ Goto(a, FirstCleans(a))
    /\ UNCHANGED <<isConnect, wasConnected, shutdownStarted, closeAfterSend,
                   isSendRegister, locks, sendVars, ioVars, jobVars, world, history>>

\* Mutant: process_disconnect releases the owner of _disconnect_event.
OwnerReleased == owner' = [owner EXCEPT !["disc"] = FALSE]
OwnerKept == UNCHANGED owner

PdClear(a) ==
    /\ At(a, "pdClear")
    /\ isConnect' = FALSE /\ isSendRegister' = FALSE
    /\ OwnerKept
    /\ Goto(a, "pdQueue")
    /\ UNCHANGED <<wasConnected, isDisconnect, shutdownStarted, closeAfterSend, locks,
                   sendVars, posted, pendingIo, socketOpen, jobVars, world, history>>

\* queue_logic: refuses a packet job after logic has stopped, never a cleanup.
QueueLogic(job) ==
    /\ IF logicStopped /\ job # "cleanup"
       THEN UNCHANGED <<jobQueue, pendingJobs>>
       ELSE jobQueue' = Append(jobQueue, job) /\ pendingJobs' = pendingJobs + 1
    /\ UNCHANGED <<logicStopped, cleanupDone>>

PdQueue(a) ==
    /\ At(a, "pdQueue")
    /\ QueueLogic("cleanup")
    /\ Return(a)
    /\ UNCHANGED <<flags, locks, sendVars, ioVars, world, history>>

-----------------------------------------------------------------------------
(* Completions: IocpCore::dispatch and Session::dispatch *)

\* The workers are interchangeable: the spare one takes a completion of e only
\* while the first is still in the callback of an earlier one.
EventOf(w) ==
    CASE w = "recv2" -> "recv" [] w = "send2" -> "send" [] w \in Events -> w

MayTake(w, e) == EventOf(w) = e /\ At(w, "idle") /\ (w \in Spare => ~At(e, "idle"))

\* A worker takes the completion of e; without an owner it is dropped and
\* finish_io is never called for it.
Complete(e, handler) ==
    /\ posted[e] > 0
    /\ \E w \in Workers : /\ MayTake(w, e)
                          /\ IF owner[e] THEN Goto(w, handler) ELSE UNCHANGED pc
    /\ posted' = [posted EXCEPT ![e] = @ - 1]

CompleteRecv(handler) ==
    /\ Complete("recv", handler)
    /\ handler = "prData" => socketOpen
    /\ UNCHANGED <<flags, locks, sendVars, owner, pendingIo, socketOpen, jobVars, world,
                   history>>

Remaining == Len(batch) * MsgLen - offset

\* Unit i of what is left of the batch: the units of message m are numbered
\* (m - 1) * MsgLen + 1 .. m * MsgLen.
Unit(i) ==
    LET k == offset + i - 1
    IN  (batch[(k \div MsgLen) + 1] - 1) * MsgLen + (k % MsgLen) + 1

\* The kernel has sent n units; n = 0 is a failed completion.
CompleteSend(n) ==
    /\ Complete("send", "ps")
    /\ n <= Remaining /\ (n > 0 => socketOpen)
    /\ sent' = n
    /\ wire' = wire \o [i \in 1..n |-> Unit(i)]
    /\ sendFailed' = (sendFailed \/ n = 0)
    /\ UNCHANGED <<flags, locks, sendQueue, batch, offset, owner, pendingIo, socketOpen,
                   jobVars, world, pushed, received, cleanups, lateHandlers>>

CompleteDisc ==
    /\ Complete("disc", "discDone")
    /\ socketOpen' = FALSE
    /\ UNCHANGED <<flags, locks, sendVars, owner, pendingIo, jobVars, world, history>>

DiscDone ==
    /\ At("disc", "discDone")
    /\ owner' = [owner EXCEPT !["disc"] = FALSE]
    /\ Goto("disc", "pd")
    /\ UNCHANGED <<flags, locks, sendVars, posted, pendingIo, socketOpen, jobVars,
                   world, history>>

\* finish_io, after the callback has returned.
FinishIo(w) ==
    /\ At(w, "finish")
    /\ pendingIo' = pendingIo - 1
    /\ Goto(w, "idle")
    /\ UNCHANGED <<flags, locks, sendVars, owner, posted, socketOpen, jobVars, world,
                   history>>

-----------------------------------------------------------------------------
(* Session::process_send *)

\* Mutant: the position inside a message is forgotten.
ConsumeSentBytesNoOffset(n) ==
    /\ batch' = SubSeq(batch, ((offset + n) \div MsgLen) + 1, Len(batch))
    /\ offset' = 0

\* SendEvent::consume_sent_bytes: whole messages leave the batch, the rest of
\* the units move the offset into the first message that is left.
ConsumeSentBytes(n) ==
    /\ batch' = SubSeq(batch, ((offset + n) \div MsgLen) + 1, Len(batch))
    /\ offset' = (offset + n) % MsgLen

\* Mutants: a rejected session is closed after the first completion; never.
ClosesEarly(rest) ==
    IF closeAfterSend THEN "dc" ELSE IF rest # <<>> THEN "rs" ELSE "psEmpty"
KeepsOpen(rest) == IF rest # <<>> THEN "rs" ELSE "psEmpty"

\* Resume a partial send, else close a rejected session, else look for more.
AfterSend(rest) ==
    IF rest # <<>> THEN "rs" ELSE IF closeAfterSend THEN "dc" ELSE "psEmpty"

ProcessSend(w) ==
    /\ At(w, "ps")
    /\ owner' = [owner EXCEPT !["send"] = FALSE]
    /\ sent' = 0
    /\ \/ /\ ~isConnect
          /\ batch' = <<>> /\ offset' = 0
          /\ Return(w)
          /\ UNCHANGED isSendRegister
       \/ /\ isConnect /\ sent = 0
          /\ batch' = <<>> /\ offset' = 0
          /\ isSendRegister' = FALSE
          /\ Goto(w, "dc")
       \/ /\ isConnect /\ sent > 0
          /\ ConsumeSentBytes(sent)
          /\ isSendRegister' = (isSendRegister /\ ~(batch' = <<>> /\ closeAfterSend))
          /\ Goto(w, AfterSend(batch'))
    /\ UNCHANGED <<isConnect, wasConnected, isDisconnect, shutdownStarted,
                   closeAfterSend, locks, sendQueue, posted, pendingIo, socketOpen,
                   jobVars, world, history>>

QueueIgnored == TRUE   \* Mutant: the queue is not looked at
NothingQueued == sendQueue = <<>>

\* Under WRITE_LOCK: give the flag back only if nothing was pushed meanwhile.
PsEmpty(w) ==
    /\ At(w, "psEmpty") /\ writeLock = NoActor
    /\ IF NothingQueued
       THEN isSendRegister' = FALSE /\ Return(w)
       ELSE Goto(w, "rs") /\ UNCHANGED isSendRegister
    /\ UNCHANGED <<isConnect, wasConnected, isDisconnect, shutdownStarted,
                   closeAfterSend, locks, sendVars, ioVars, jobVars, world, history>>

-----------------------------------------------------------------------------
(* Session::register_recv, process_recv and on_recv *)

LogOnly(a) == After(a)   \* Mutant: a failed WSARecv is only logged
HandleError(a) == "dc"

RegisterRecv(a) ==
    /\ At(a, "rr") /\ ioLock = NoActor
    /\ \/ /\ shutdownStarted \/ ~isConnect
          /\ Return(a)
          /\ UNCHANGED <<owner, posted, pendingIo>>
       \/ /\ ~shutdownStarted /\ isConnect                   \* WSARecv accepts
          /\ owner' = [owner EXCEPT !["recv"] = TRUE]
          /\ posted' = [posted EXCEPT !["recv"] = @ + 1]
          /\ pendingIo' = pendingIo + 1
          /\ Return(a)
       \/ /\ ~shutdownStarted /\ isConnect                   \* handle_error
          /\ Goto(a, HandleError(a))
          /\ UNCHANGED <<owner, posted, pendingIo>>
    /\ UNCHANGED <<flags, locks, sendVars, socketOpen, jobVars, world, history>>

ProcessRecv(w) ==
    /\ pc[w] \in {"prData", "prZero"}
    /\ owner' = [owner EXCEPT !["recv"] = FALSE]
    /\ Goto(w, IF ~isConnect THEN After(w)
                    ELSE IF At(w, "prZero") THEN "dc" ELSE "parse")
    /\ UNCHANGED <<flags, locks, sendVars, posted, pendingIo, socketOpen, jobVars,
                   world, history>>

\* A complete packet: posted to the job queue, or refused by HandlePacket.
OnRecvPacket(w, valid) ==
    /\ At(w, "parse") /\ received < MaxRecvs
    /\ received' = received + 1
    /\ IF valid THEN QueueLogic("packet") ELSE UNCHANGED jobVars
    /\ Goto(w, "parsed")
    /\ UNCHANGED <<flags, locks, sendVars, ioVars, world, pushed, wire, sendFailed,
                   cleanups, lateHandlers>>

\* No complete packet is left, or the header is invalid, or the connection
\* ended while a packet was handled.
OnRecvEnd(w, next) ==
    /\ \/ At(w, "parse") /\ next \in {"rr", "dc"}
       \/ At(w, "parsed") /\ next = IF isConnect THEN "parse" ELSE "rr"
    /\ Goto(w, next)
    /\ UNCHANGED <<flags, locks, sendVars, ioVars, jobVars, world, history>>

-----------------------------------------------------------------------------
(* Jobs of the session's queue, one at a time *)

StartJob ==
    /\ At("logic", "idle") /\ jobQueue # <<>>
    /\ Goto("logic", Head(jobQueue))
    /\ jobQueue' = Tail(jobQueue)
    /\ UNCHANGED <<flags, locks, sendVars, ioVars, pendingJobs, logicStopped,
                   cleanupDone, world, history>>

AlwaysHandle == TRUE   \* Mutant: the job does not look at the connection
StillConnected == isConnect

\* ServerPacketHandler::HandlePacket: the job skips a session that is gone.
PacketJob ==
    /\ At("logic", "packet")
    /\ Goto("logic", IF StillConnected THEN "handler" ELSE "jobEnd")
    /\ lateHandlers' = lateHandlers + IF StillConnected /\ cleanups > 0 THEN 1 ELSE 0
    /\ UNCHANGED <<flags, locks, sendVars, ioVars, jobVars, world, pushed, received,
                   wire, sendFailed, cleanups>>

\* A handler answers, disconnects the session, or does neither.
Handler(next) ==
    /\ At("logic", "handler")
    /\ next = "send" => MaySend
    /\ Goto("logic", next)
    /\ UNCHANGED <<flags, locks, sendVars, ioVars, jobVars, world, history>>

\* on_disconnect of a session that was connected, on_disconnected, resets.
CleanupJob ==
    /\ At("logic", "cleanup")
    /\ disconnects' = disconnects + IF wasConnected THEN 1 ELSE 0
    /\ registered' = IF registered = "yes" THEN "gone" ELSE registered
    /\ cleanups' = cleanups + 1
    /\ Goto("logic", "cleanupDone")
    /\ UNCHANGED <<flags, locks, sendVars, ioVars, jobVars, connects, pushed, received,
                   wire, sendFailed, lateHandlers>>

CleanupDone ==
    /\ At("logic", "cleanupDone")
    /\ cleanupDone' = TRUE
    /\ Goto("logic", "jobEnd")
    /\ UNCHANGED <<flags, locks, sendVars, ioVars, jobQueue, pendingJobs, logicStopped,
                   world, history>>

JobEnd ==
    /\ At("logic", "jobEnd")
    /\ pendingJobs' = pendingJobs - 1
    /\ Goto("logic", "idle")
    /\ UNCHANGED <<flags, locks, sendVars, ioVars, jobQueue, logicStopped, cleanupDone,
                   world, history>>

-----------------------------------------------------------------------------
(* Other threads: the chats of other sessions (all_chat, normal_chat, whisper_chat)
   and check_heartbeat hold the session from a look at SessionManager *)

AppCall(a, next) ==
    /\ a \in Apps /\ At(a, "idle") /\ registered # "no"
    /\ next = "send" => MaySend
    /\ Goto(a, next)
    /\ UNCHANGED <<flags, locks, sendVars, ioVars, jobVars, world, history>>

-----------------------------------------------------------------------------
(* Session::begin_shutdown and wait_for_shutdown, from Service::close_service *)

\* ServerService::close_service has closed the listener and waited for its
\* callbacks, so no thread is inside process_connect or reject_connection.
ListenerQuiet == pc["acceptor"] \in {"idle", "done"}

BeginShutdown ==
    /\ At("closer", "idle") /\ ListenerQuiet /\ ioLock = NoActor
    /\ shutdownStarted' = TRUE /\ logicStopped' = TRUE
    /\ ioLock' = "closer"
    /\ Goto("closer", "bsClose")
    /\ UNCHANGED <<isConnect, wasConnected, isDisconnect, closeAfterSend,
                   isSendRegister, writeLock, sendVars, ioVars, jobQueue, pendingJobs,
                   cleanupDone, world, history>>

BsClose ==
    /\ At("closer", "bsClose")
    /\ isConnect' = FALSE
    /\ socketOpen' = FALSE
    /\ ioLock' = NoActor
    /\ Goto("closer", "pd")
    /\ UNCHANGED <<wasConnected, isDisconnect, shutdownStarted, closeAfterSend,
                   isSendRegister, writeLock, sendVars, owner, posted, pendingIo,
                   jobVars, world, history>>

\* wait_for_io: the last finish_io signals it.
WaitIo ==
    /\ At("closer", "waitIo") /\ pendingIo = 0
    /\ Goto("closer", "waitJobs")
    /\ UNCHANGED <<flags, locks, sendVars, ioVars, jobVars, world, history>>

NoPendingJobs == pendingJobs = 0   \* Mutant: the cleanup is not awaited
LogicCompleted == cleanupDone /\ pendingJobs = 0

WaitJobs ==
    /\ At("closer", "waitJobs") /\ LogicCompleted
    /\ Goto("closer", "clear")
    /\ UNCHANGED <<flags, locks, sendVars, ioVars, jobVars, world, history>>

ClearSends ==
    /\ At("closer", "clear") /\ writeLock = NoActor
    /\ sendQueue' = <<>> /\ batch' = <<>> /\ offset' = 0
    /\ Goto("closer", "closed")
    /\ UNCHANGED <<flags, locks, sent, ioVars, jobVars, world, history>>

-----------------------------------------------------------------------------
AcceptStep == Connect \/ RejectFlag \/ RejectSet

SendStep(a) ==
    \/ Send(a) \/ SendLock(a) \/ SendFlag(a)
    \/ RegisterSend(a) \/ RsDrain(a) \/ RsPostOk(a) \/ RsPostFail(a)

DisconnectStep(a) ==
    \/ Disconnect(a) \/ RegisterDisconnect(a) \/ ProcessDisconnect(a)
    \/ PdClear(a) \/ PdQueue(a)

RecvStep(w) ==
    \/ ProcessRecv(w)
    \/ \E valid \in BOOLEAN : OnRecvPacket(w, valid)
    \/ \E next \in {"rr", "dc", "parse"} : OnRecvEnd(w, next)

CompletionStep(w) ==
    \/ EventOf(w) = "recv" /\ RecvStep(w)
    \/ EventOf(w) = "send" /\ (ProcessSend(w) \/ PsEmpty(w))
    \/ w = "disc" /\ DiscDone
    \/ FinishIo(w)

JobStep ==
    \/ PacketJob \/ CleanupJob \/ CleanupDone \/ JobEnd
    \/ \E next \in {"send", "dc", "jobEnd"} : Handler(next)

ShutdownStep == BsClose \/ WaitIo \/ WaitJobs \/ ClearSends

\* A thread inside the session's code goes on, or the next job starts.
Run(a) ==
    \/ /\ pc[a] \notin {"idle", "done", "closed"}
       /\ \/ SendStep(a) \/ DisconnectStep(a) \/ RegisterRecv(a)
          \/ a = "acceptor" /\ AcceptStep
          \/ a \in Workers /\ CompletionStep(a)
          \/ a = "logic" /\ JobStep
          \/ a = "closer" /\ ShutdownStep
    \/ a = "logic" /\ StartJob

Kernel ==
    \/ \E handler \in {"prData", "prZero"} : CompleteRecv(handler)
    \/ \E n \in 0..(MaxSends * MsgLen) : CompleteSend(n)
    \/ CompleteDisc

Call ==
    \/ \E o \in Outcomes : Accept(o)
    \/ \E a \in Apps, next \in {"send", "dc"} : AppCall(a, next)
    \/ BeginShutdown

\* The session is shut down and no thread is in its code any more.
Terminated ==
    /\ At("closer", "closed")
    /\ \A a \in Actors \ {"closer"} : pc[a] \in {"idle", "done"}
    /\ UNCHANGED vars

Next == (\E a \in Actors : Run(a)) \/ Kernel \/ Call \/ Terminated

(***************************************************************************)
(* Threads keep running; the kernel completes DisconnectEx, and completes  *)
(* the other requests once the socket is closed or disconnected.           *)
(***************************************************************************)
Fairness ==
    /\ \A a \in Actors : WF_vars(Run(a))
    /\ WF_vars(CompleteDisc)
    /\ WF_vars(~socketOpen /\ CompleteRecv("prZero"))
    /\ WF_vars(~socketOpen /\ CompleteSend(0))

Spec == Init /\ [][Next]_vars
FairSpec == Spec /\ Fairness

-----------------------------------------------------------------------------
(* Safety *)

(***************************************************************************)
(* The one SendEvent of a session has at most one user: the kernel, the    *)
(* completion callback, or the thread inside register_send.  Otherwise its *)
(* buffers would be cleared or refilled under a pending WSASend.           *)
(***************************************************************************)
SendEventExclusive ==
    posted["send"] + Cardinality({a \in Actors : pc[a] \in {"rsDrain", "rsPost"}})
                   + Cardinality({a \in Workers : pc[a] \in {"ps", "psEmpty"}}) <= 1

(***************************************************************************)
(* _pending_io counts the requests in the kernel and the callbacks running *)
(* and a request the kernel holds keeps the session alive through its      *)
(* event's owner: without one IocpCore::dispatch drops the completion and  *)
(* wait_for_io never returns.                                              *)
(***************************************************************************)
IoAccounted ==
    /\ pendingIo = posted["recv"] + posted["send"] + posted["disc"]
                       + Cardinality({w \in Workers : pc[w] # "idle"})
    /\ \A e \in Events : posted[e] > 0 => owner[e]

(***************************************************************************)
(* wait_for_shutdown returns only when nothing of the session can run or   *)
(* be written by the kernel any more: no request, no callback, no job, no  *)
(* message; the cleanup has run, the session is not connected again, and   *)
(* its connection is counted in both statistics.  It stays so whatever     *)
(* late callers of send and disconnect do.                                 *)
(***************************************************************************)
QuietAfterShutdown ==
    At("closer", "closed") =>
        /\ \A e \in Events : posted[e] = 0
        /\ \A w \in Workers : pc[w] = "idle"
        /\ jobQueue = <<>> /\ pc["logic"] = "idle"
        /\ sendQueue = <<>> /\ batch = <<>>
        /\ cleanups = 1 /\ registered # "yes"
        /\ ~isConnect /\ connects = disconnects

(***************************************************************************)
(* The doc's "Disconnect Duplicate Guard": the cleanup is queued and run   *)
(* once, and no packet handler runs after it.  A handler that did would    *)
(* log a session in, or into a room, that nobody cleans up again.          *)
(***************************************************************************)
CleanupLast ==
    /\ cleanups + Cardinality({i \in 1..Len(jobQueue) : jobQueue[i] = "cleanup"})
                + Cardinality({a \in {"logic"} : pc[a] = "cleanup"}) <= 1
    /\ lateHandlers = 0

(***************************************************************************)
(* A session that is connected always receives: a WSARecv is pending, or a *)
(* thread is about to issue one or to disconnect.  Otherwise it would keep *)
(* its login and its place for ever (comment in Session::handle_error).    *)
(***************************************************************************)
RecvArmed ==
    isConnect /\ ~closeAfterSend =>
        \/ posted["recv"] = 1
        \/ \E w \in Workers : /\ EventOf(w) = "recv"
                               /\ pc[w] \in {"prData", "prZero", "parse", "parsed", "rr", "dc"}
        \/ pc["acceptor"] \in {"rr", "dc", "rejectSet"}

(***************************************************************************)
(* A message in the queue of a connected session always has a thread or a  *)
(* completion that will send it, or that is about to disconnect: no lost   *)
(* wake-up between send and process_send.                                  *)
(***************************************************************************)
SendArmed ==
    isConnect /\ sendQueue # <<>> =>
        \/ posted["send"] = 1
        \/ \E a \in Actors : pc[a] \in {"ps", "psEmpty", "sendFlag", "rs", "rsDrain", "rsPost", "dc"}

(***************************************************************************)
(* The peer reads the pushed messages in order, no unit twice, and without *)
(* a gap as long as no send has failed.                                    *)
(***************************************************************************)
StreamIntact ==
    /\ \A i, j \in 1..Len(wire) : i < j => wire[i] < wire[j]
    /\ ~sendFailed => \A i \in 1..Len(wire) : wire[i] = i

(***************************************************************************)
(* After a send has failed the thread that noticed is on its way to        *)
(* disconnect until the session is disconnected: later messages may follow *)
(* a hole only in that gap, since register_send and process_send give the  *)
(* send flag back before they call disconnect.                             *)
(***************************************************************************)
FailureDisconnects ==
    sendFailed /\ isConnect =>
        \E a \in Actors : At(a, "dc") \/ (At(a, "ps") /\ sent = 0)

-----------------------------------------------------------------------------
(* Action properties *)

(***************************************************************************)
(* A rejected session is disconnected only when the whole notice is sent,  *)
(* or a send failed, or the server shuts down.                             *)
(***************************************************************************)
NoticeBeforeClose ==
    [][closeAfterSend /\ isConnect /\ ~isConnect' =>
           Len(wire) = MsgLen \/ sendFailed \/ shutdownStarted]_vars

-----------------------------------------------------------------------------
(* Liveness *)

\* begin_shutdown leads to the return of wait_for_shutdown.
ShutdownCompletes == shutdownStarted ~> At("closer", "closed")

\* Whoever wins the exchange in disconnect, the cleanup runs to its end.
DisconnectCleansUp == (\E a \in Actors : pc[a] \in {"rd", "pd"}) ~> cleanupDone

\* The kernel does not hold a send for ever: the peer reads, or its connection
\* breaks.
SendsComplete == []<>(posted["send"] = 0)

\* A pushed message then reaches the kernel entirely, or the session disconnects.
MessagesLeave ==
    SendsComplete => \A m \in 1..MaxSends :
        pushed >= m ~> (\E i \in 1..Len(wire) : wire[i] = m * MsgLen) \/ ~isConnect

\* A rejected connection is then closed and cleaned up.
RejectedIsClosed == SendsComplete => (closeAfterSend ~> cleanupDone)
=============================================================================
