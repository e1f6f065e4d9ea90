--------------------------- MODULE SessionProofs ---------------------------
(***************************************************************************)
(* Proofs about Session, for any set of other threads, any queue length,   *)
(* message length and number of messages, with or without second workers:  *)
(* the invariants of the runs session_safety and session_shutdown but the  *)
(* content of the stream.                                                  *)
(*                                                                         *)
(* Three events, three tokens.  Each of the send, receive and disconnect   *)
(* events has one user: the kernel, or one thread at a label that uses it  *)
(* (Token).  What makes the token of the send event unique is the flag     *)
(* _is_send_register, but only while the session is connected: a           *)
(* disconnect resets the flag under threads that still hold it, and they   *)
(* are stopped by the connection flag instead (FlagInv, EndInv).  The      *)
(* connection flag is set only while nothing else of the session runs      *)
(* (YoungInv), so that it never comes back.  The cleanup is a token too,   *)
(* which moves from thread to queue to job (CleanupInv).                   *)
(***************************************************************************)
EXTENDS Session, TLAPS

\* Most leaves are first-order reasoning; those with arithmetic or functions name
\* the SMT solver.
USE ZenonT(30)

\* The labels at which a thread uses the SendEvent; those inside the lock of
\* register_send; those that own _is_send_register of a connected session.
Posting  == {"rsDrain", "rsPost"}
Hold     == Posting \cup {"ps", "psEmpty"}
FlagHeld == Hold \cup {"rs"}

\* The labels from the completion of a receive to the next one; from the exchange
\* in disconnect to the cleanup job; those of them that use the DisconnectEvent;
\* those that queue the cleanup.
Receiving == {"rr", "prData", "prZero", "parse", "parsed"}
Ending    == {"rd", "pd", "pdClear", "pdQueue", "discDone"}
DiscUse   == {"rd", "discDone"}
Cleaning  == {"pdClear", "pdQueue"}

TypeInv ==
    /\ isConnect \in BOOLEAN /\ wasConnected \in BOOLEAN /\ isDisconnect \in BOOLEAN
    /\ shutdownStarted \in BOOLEAN /\ closeAfterSend \in BOOLEAN
    /\ isSendRegister \in BOOLEAN /\ sendFailed \in BOOLEAN /\ cleanupDone \in BOOLEAN
    /\ owner \in [Events -> BOOLEAN] /\ posted \in [Events -> Nat] /\ sent \in Nat
    /\ pendingIo \in Int /\ pendingJobs \in Int
    /\ jobQueue \in Seq({"packet", "cleanup"})
    /\ connects \in Nat /\ disconnects \in Nat /\ cleanups \in Nat
    /\ pc \in [Actors -> Labels]

\* The event e has one user: the kernel, which needs the event's owner, or one
\* thread at a label of L.
Token(e, L) ==
    /\ posted[e] <= 1
    /\ posted[e] > 0 => owner[e] /\ \A a \in Actors : pc[a] \notin L
    /\ \A a, b \in Actors : pc[a] \in L /\ pc[b] \in L => a = b

\* Inside register_send a thread holds _io_lock, so no shutdown has begun.
PostingInv == \A a \in Actors : pc[a] \in Posting =>
                  ioLock = a /\ owner["send"] /\ ~shutdownStarted

\* While the session is connected the flag is set exactly while there is a sender.
FlagInv == isConnect =>
    /\ \A a \in Actors : pc[a] \in FlagHeld => isSendRegister
    /\ \A a, b \in Actors : pc[a] \in FlagHeld /\ pc[b] \in FlagHeld => a = b
    /\ posted["send"] > 0 => isSendRegister /\ \A a \in Actors : pc[a] \notin FlagHeld
    /\ isSendRegister => posted["send"] > 0 \/ \E a \in Actors : pc[a] \in FlagHeld

\* A queued message has the flag set, or a thread about to set it or to disconnect.
QueueInv == isConnect /\ sendQueue # <<>> =>
    isSendRegister \/ \E a \in Actors : pc[a] \in {"sendFlag", "dc"}

SendInv == Token("send", Hold) /\ PostingInv /\ FlagInv /\ QueueInv /\ FailureDisconnects

RecvInv == Token("recv", Receiving) /\ RecvArmed

\* Once a thread has begun to end the connection it is not connected again.
EndInv == isConnect => /\ ~isDisconnect /\ posted["disc"] = 0
                       /\ \A a \in Actors : pc[a] \notin Ending

DiscInv == Token("disc", DiscUse) /\ EndInv

CleanupAt(i) == i \in 1..Len(jobQueue) /\ jobQueue[i] = "cleanup"

\* The cleanup is in one place: with the thread that queues it, in the queue, in
\* the running job, or done.
CleanupInv ==
    /\ ~isDisconnect => /\ \A a \in Actors : pc[a] \notin Cleaning
                        /\ \A i \in Nat : ~CleanupAt(i)
                        /\ pc["logic"] # "cleanup" /\ cleanups = 0
    /\ \A a, b \in Actors : pc[a] \in Cleaning /\ pc[b] \in Cleaning => a = b
    /\ \A a \in Actors : pc[a] \in Cleaning =>
           (\A i \in Nat : ~CleanupAt(i)) /\ pc["logic"] # "cleanup" /\ cleanups = 0
    /\ \A i, j \in Nat : CleanupAt(i) /\ CleanupAt(j) => i = j
    /\ \A i \in Nat : CleanupAt(i) => pc["logic"] # "cleanup" /\ cleanups = 0
    /\ pc["logic"] = "cleanup" => cleanups = 0
    /\ pc["logic"] = "cleanupDone" \/ cleanupDone => cleanups > 0
    /\ cleanups <= 1 /\ lateHandlers = 0

JobInv == pendingJobs = Len(jobQueue) + IF pc["logic"] = "idle" THEN 0 ELSE 1

\* The workers in a callback.
Working(w) == IF w \in Workers /\ pc[w] # "idle" THEN 1 ELSE 0
Callbacks == Working("recv") + Working("send") + Working("disc")
                 + Working("recv2") + Working("send2")

CountInv == pendingIo = posted["recv"] + posted["send"] + posted["disc"] + Callbacks

\* Before the accept is settled nothing of the session runs but threads that find
\* it in SessionManager, and those see no connection.
YoungLabels == {"was", "conn", "rejectFlag", "rejectSet"}
Young == pc["acceptor"] \in YoungLabels \/ (pc["acceptor"] = "idle" /\ pc["closer"] = "idle")

YoungInv ==
    /\ Young =>
          /\ isConnect <=> pc["acceptor"] = "rejectSet"
          /\ ~isSendRegister /\ ~isDisconnect /\ ~sendFailed
          /\ sendQueue = <<>> /\ jobQueue = <<>>
          /\ \A e \in Events : posted[e] = 0
          /\ \A a \in Actors \ {"acceptor"} :
                 pc[a] = "idle" \/ (a \in Apps /\ registered # "no" /\ pc[a] \in {"send", "dc"})
    /\ pc["acceptor"] \in {"idle", "rejectFlag", "rejectSet"} => registered = "no"
    /\ pc["acceptor"] \in {"idle", "was", "rejectFlag", "rejectSet"} => ~wasConnected
    /\ pc["acceptor"] = "conn" => wasConnected

CloserInv ==
    /\ shutdownStarted <=> pc["closer"] # "idle"
    /\ pc["closer"] # "idle" => pc["acceptor"] \in {"idle", "done"}
    /\ pc["closer"] = "bsClose" => ioLock = "closer"
    /\ pc["closer"] \notin {"idle", "bsClose"} => ~isConnect

\* What wait_for_shutdown has waited for stays so.
ShutInv ==
    /\ pc["closer"] \in {"waitJobs", "clear", "closed"} => pendingIo = 0
    /\ pc["closer"] \in {"clear", "closed"} => pendingJobs = 0 /\ cleanupDone
    /\ pc["closer"] = "closed" => sendQueue = <<>> /\ batch = <<>>

StatInv ==
    /\ connects = IF wasConnected /\ pc["acceptor"] # "conn" THEN 1 ELSE 0
    /\ disconnects = IF wasConnected /\ cleanups > 0 THEN 1 ELSE 0
    /\ cleanups > 0 => registered # "yes"

PhaseInv == YoungInv /\ CloserInv /\ ShutInv /\ StatInv

IInv == /\ TypeInv /\ SendInv /\ RecvInv /\ DiscInv
        /\ CleanupInv /\ JobInv /\ CountInv /\ PhaseInv

-----------------------------------------------------------------------------
(* Threads and labels *)

Resting == {"finish", "jobEnd", "waitIo", "done", "idle"}

\* The named threads are distinct and none of them is one of Apps.
LEMMA ActorFacts ==
    /\ Workers \subseteq Actors /\ Apps \subseteq Actors /\ Events \subseteq Workers
    /\ "acceptor" \in Actors /\ "logic" \in Actors /\ "closer" \in Actors
    /\ "acceptor" \notin Workers /\ "logic" \notin Workers /\ "closer" \notin Workers
    /\ "acceptor" \notin Apps /\ "logic" \notin Apps /\ "closer" \notin Apps
    /\ \A w \in Workers : w \notin Apps
    /\ NoActor \notin Actors
  BY SessionAssumption, SMTT(30) DEF Workers, Actors, Events, NoActor

\* Every thread is one of the five kinds After distinguishes.
LEMMA AfterFacts ==
    ASSUME NEW a \in Actors
    PROVE  /\ After(a) \in Resting /\ After(a) \in Labels
           /\ a \in Workers => After(a) = "finish"
           /\ a = "logic" => After(a) = "jobEnd"
           /\ a = "closer" => After(a) = "waitIo"
           /\ a = "acceptor" => After(a) = "done"
           /\ a \in Apps => After(a) = "idle"
  BY ActorFacts, SMTT(30) DEF After, Actors, Resting, Labels

\* A resting label is none of those the invariants speak of.
LEMMA RestingFacts ==
    ASSUME NEW l \in Resting
    PROVE  /\ l \notin FlagHeld /\ l \notin Hold /\ l \notin Posting /\ l \notin Receiving
           /\ l \notin Ending /\ l \notin DiscUse /\ l \notin Cleaning /\ l \notin YoungLabels
           /\ l \notin {"sendFlag", "dc", "ps", "cleanup", "cleanupDone", "bsClose",
                        "waitJobs", "clear", "closed"}
  BY SMTT(30)
  DEF Resting, FlagHeld, Hold, Posting, Receiving, Ending, DiscUse, Cleaning, YoungLabels

\* A step of thread a moves no other thread.
Stay(a) == \A b \in Actors \ {a} : pc'[b] = pc[b]

\* A thread goes on to a statement of the session's code.
LEMMA GotoFacts ==
    ASSUME TypeInv, NEW a \in Actors, NEW l \in Labels, Goto(a, l)
    PROVE  pc'[a] = l /\ Stay(a) /\ pc' \in [Actors -> Labels]
  BY SMTT(30) DEF TypeInv, Goto, Stay

-----------------------------------------------------------------------------
(* Tokens *)

\* The user of an event stays, or leaves it, while the kernel's part is unchanged.
LEMMA TokenFrame ==
    ASSUME NEW e \in Events, NEW L, Token(e, L), NEW a \in Actors, Stay(a),
           posted'[e] = posted[e], posted[e] > 0 => owner'[e] = owner[e],
           pc'[a] \in L => pc[a] \in L
    PROVE  Token(e, L)'
<1>1. \A b \in Actors : pc'[b] \in L => pc[b] \in L
  BY DEF Stay
<1>2. posted'[e] <= 1
  BY DEF Token
<1>3. posted'[e] > 0 => owner'[e] /\ \A b \in Actors : pc'[b] \notin L
  BY <1>1 DEF Token
<1>4. \A b, c \in Actors : pc'[b] \in L /\ pc'[c] \in L => b = c
  BY <1>1 DEF Token
<1>5. QED
  BY <1>2, <1>3, <1>4 DEF Token

\* The user hands the event to the kernel.
LEMMA TokenPost ==
    ASSUME TypeInv, NEW e \in Events, NEW L, Token(e, L), NEW a \in Actors, Stay(a),
           pc[a] \in L, pc'[a] \notin L, posted'[e] = posted[e] + 1, owner'[e]
    PROVE  Token(e, L)' /\ posted[e] = 0 /\ posted'[e] = 1
<1>1. \A b \in Actors : pc'[b] \notin L
  BY DEF Stay, Token
<1>2. ~(posted[e] > 0)
  BY DEF Token
<1>3. posted[e] \in Nat
  BY DEF TypeInv
<1>4. posted[e] = 0 /\ posted'[e] = 1 /\ posted'[e] <= 1
  BY <1>2, <1>3, SMTT(30)
<1>5. QED
  BY <1>1, <1>4 DEF Token

\* The kernel hands the event to the thread that takes the completion.
LEMMA TokenTake ==
    ASSUME TypeInv, NEW e \in Events, NEW L, Token(e, L), NEW a \in Actors, Stay(a),
           posted[e] > 0, posted'[e] = posted[e] - 1
    PROVE  Token(e, L)' /\ posted[e] = 1 /\ posted'[e] = 0
<1>1. posted[e] \in Nat /\ posted[e] <= 1
  BY DEF TypeInv, Token
<1>2. posted[e] = 1 /\ posted'[e] = 0 /\ posted'[e] <= 1 /\ ~(posted'[e] > 0)
  BY <1>1, SMTT(30)
<1>3. \A b \in Actors : pc[b] \notin L
  BY DEF Token
<1>4. \A b, c \in Actors : pc'[b] \in L /\ pc'[c] \in L => b = c
  BY <1>3 DEF Stay
<1>5. QED
  BY <1>2, <1>4 DEF Token

\* A thread takes up an event that nobody uses.
LEMMA TokenEnter ==
    ASSUME NEW e \in Events, NEW L, NEW a \in Actors, Stay(a),
           \A b \in Actors : pc[b] \notin L, posted[e] = 0, posted'[e] = posted[e]
    PROVE  Token(e, L)'
<1>1. posted'[e] <= 1 /\ ~(posted'[e] > 0)
  BY SMTT(30)
<1>2. \A b, c \in Actors : pc'[b] \in L /\ pc'[c] \in L => b = c
  BY DEF Stay
<1>3. QED
  BY <1>1, <1>2 DEF Token

-----------------------------------------------------------------------------
(* What a step of thread a keeps *)

\* The thread inside register_send keeps the lock and the owner.
LEMMA PostingFrame ==
    ASSUME PostingInv, NEW a \in Actors, Stay(a), pc'[a] \notin Posting,
           \A b \in Actors \ {a} : pc[b] \in Posting =>
               /\ ioLock' = ioLock /\ owner'["send"] = owner["send"]
               /\ shutdownStarted' = shutdownStarted
    PROVE  PostingInv'
  BY DEF PostingInv, Stay

\* The flag stays with its holder.
LEMMA FlagFrame ==
    ASSUME FlagInv, NEW a \in Actors, Stay(a),
           isConnect' => isConnect /\ isSendRegister' = isSendRegister,
           posted'["send"] = posted["send"],
           isConnect' => (pc'[a] \in FlagHeld <=> pc[a] \in FlagHeld)
    PROVE  FlagInv'
<1> SUFFICES ASSUME isConnect' PROVE FlagInv'
  BY DEF FlagInv
<1>1. \A b \in Actors : pc'[b] \in FlagHeld <=> pc[b] \in FlagHeld
  BY DEF Stay
<1>2. QED
  BY <1>1 DEF FlagInv

\* A queued message keeps its sender.
LEMMA QueueFrame ==
    ASSUME QueueInv, NEW a \in Actors, Stay(a),
           isConnect' => isConnect /\ (isSendRegister => isSendRegister'),
           sendQueue' = sendQueue, pc[a] # "sendFlag", pc[a] = "dc" => ~isConnect'
    PROVE  QueueInv'
<1> SUFFICES ASSUME isConnect', sendQueue # <<>>, ~isSendRegister' PROVE QueueInv'
  BY DEF QueueInv
<1>1. PICK b \in Actors : pc[b] \in {"sendFlag", "dc"}
  BY DEF QueueInv
<1>2. b # a
  BY <1>1
<1>3. pc'[b] = pc[b]
  BY <1>2 DEF Stay
<1>4. QED
  BY <1>1, <1>3 DEF QueueInv

\* The thread that noticed a failed send is still there.
LEMMA FailFrame ==
    ASSUME FailureDisconnects, NEW a \in Actors, Stay(a), isConnect' => isConnect,
           sendFailed' = sendFailed, sent' = sent \/ \A b \in Actors : pc[b] # "ps",
           pc[a] # "ps", pc[a] = "dc" => ~isConnect'
    PROVE  FailureDisconnects'
<1> SUFFICES ASSUME sendFailed, isConnect' PROVE FailureDisconnects'
  BY DEF FailureDisconnects
<1>1. PICK b \in Actors : pc[b] = "dc" \/ (pc[b] = "ps" /\ sent = 0)
  BY DEF FailureDisconnects, At
<1>2. b # a
  BY <1>1
<1>3. pc'[b] = pc[b]
  BY <1>2 DEF Stay
<1>4. QED
  BY <1>1, <1>3 DEF FailureDisconnects, At

\* The send pipeline, by a step that neither takes nor gives up the flag.
LEMMA SendFrame ==
    ASSUME SendInv, NEW a \in Actors, Stay(a),
           isConnect' => isConnect /\ isSendRegister' = isSendRegister,
           UNCHANGED <<ioLock, shutdownStarted, sendQueue, sendFailed, sent>>,
           posted'["send"] = posted["send"], owner'["send"] = owner["send"],
           pc'[a] \notin Posting, pc'[a] \in Hold => pc[a] \in Hold,
           isConnect' => (pc'[a] \in FlagHeld <=> pc[a] \in FlagHeld),
           pc[a] \notin {"ps", "sendFlag"}, pc[a] = "dc" => ~isConnect'
    PROVE  SendInv'
<1>1. Token("send", Hold)'
  BY TokenFrame DEF SendInv, Events
<1>2. PostingInv'
  BY PostingFrame DEF SendInv
<1>3. FlagInv'
  BY FlagFrame DEF SendInv
<1>4. QueueInv'
  BY QueueFrame, SMTT(30) DEF SendInv
<1>5. FailureDisconnects'
  BY FailFrame DEF SendInv
<1>6. QED
  BY <1>1, <1>2, <1>3, <1>4, <1>5 DEF SendInv

\* The receive loop.
LEMMA RecvFrame ==
    ASSUME RecvInv, NEW a \in Actors, Stay(a),
           isConnect' => isConnect, closeAfterSend => closeAfterSend',
           posted'["recv"] = posted["recv"], owner'["recv"] = owner["recv"],
           pc'[a] \in Receiving => pc[a] \in Receiving,
           isConnect' /\ pc[a] \in Receiving => pc'[a] \in Receiving \cup {"dc"},
           a = "acceptor" /\ isConnect' /\ pc[a] = "rr" => pc'[a] = "dc",
           pc[a] = "dc" => ~isConnect', pc[a] # "rejectSet"
    PROVE  RecvInv'
<1>1. Token("recv", Receiving)'
  BY TokenFrame DEF RecvInv, Events
<1>2. RecvArmed'
  <2> SUFFICES ASSUME isConnect', ~closeAfterSend' PROVE RecvArmed'
    BY DEF RecvArmed
  <2>0. \A b \in Actors :
            /\ pc[b] \in Receiving \cup {"dc"} => pc'[b] \in Receiving \cup {"dc"}
            /\ pc[b] = "rejectSet" => pc'[b] = "rejectSet"
    BY DEF Stay
  <2>1. CASE posted["recv"] = 1
    BY <2>1 DEF RecvArmed
  <2>2. CASE \E w \in Workers : EventOf(w) = "recv" /\ pc[w] \in Receiving \cup {"dc"}
    <3>1. PICK w \in Workers : EventOf(w) = "recv" /\ pc[w] \in Receiving \cup {"dc"}
      BY <2>2
    <3>2. pc'[w] \in {"prData", "prZero", "parse", "parsed", "rr", "dc"}
      BY <2>0, <3>1, ActorFacts DEF Receiving
    <3>3. QED
      BY <3>1, <3>2 DEF RecvArmed
  <2>3. CASE pc["acceptor"] \in {"rr", "dc", "rejectSet"}
    <3>1. CASE pc["acceptor"] = "rejectSet"
      BY <2>0, <3>1, ActorFacts DEF RecvArmed
    <3>2. CASE pc["acceptor"] \in {"rr", "dc"} /\ a # "acceptor"
      <4>1. pc'["acceptor"] = pc["acceptor"]
        BY <3>2, ActorFacts DEF Stay
      <4>2. QED
        BY <3>2, <4>1 DEF RecvArmed
    <3>3. CASE pc["acceptor"] \in {"rr", "dc"} /\ a = "acceptor"
      BY <3>3 DEF RecvArmed
    <3>4. QED
      BY <2>3, <3>1, <3>2, <3>3
  <2>4. QED
    BY <2>1, <2>2, <2>3 DEF RecvInv, RecvArmed, Receiving
<1>3. QED
  BY <1>1, <1>2 DEF RecvInv

\* The disconnect event and the end of the connection.
LEMMA DiscFrame ==
    ASSUME DiscInv, NEW a \in Actors, Stay(a),
           isConnect' => isConnect, isDisconnect' => isDisconnect \/ ~isConnect',
           posted'["disc"] = posted["disc"], owner'["disc"] = owner["disc"],
           pc'[a] \in DiscUse => pc[a] \in DiscUse,
           isConnect' /\ pc'[a] \in Ending => pc[a] \in Ending
    PROVE  DiscInv'
<1>1. Token("disc", DiscUse)'
  BY TokenFrame DEF DiscInv, Events
<1>2. EndInv'
  BY DEF DiscInv, EndInv, Stay
<1>3. QED
  BY <1>1, <1>2 DEF DiscInv

\* No cleanup is where none was.
LEMMA CleanupLess ==
    ASSUME CleanupInv, NEW a \in Actors, Stay(a), isDisconnect => isDisconnect',
           UNCHANGED <<cleanups, cleanupDone, lateHandlers>>,
           \A i \in Nat : CleanupAt(i)' => CleanupAt(i),
           pc'[a] \in Cleaning => pc[a] \in Cleaning,
           a = "logic" => pc'[a] \notin {"cleanup", "cleanupDone"}
    PROVE  CleanupInv'
<1>1. \A b \in Actors : pc'[b] \in Cleaning => pc[b] \in Cleaning
  BY DEF Stay
<1>2. /\ pc'["logic"] = "cleanup" => pc["logic"] = "cleanup"
      /\ pc'["logic"] = "cleanupDone" => pc["logic"] = "cleanupDone"
  BY ActorFacts DEF Stay
<1>3. /\ ~isDisconnect' => /\ \A b \in Actors : pc'[b] \notin Cleaning
                           /\ \A i \in Nat : ~CleanupAt(i)'
                           /\ pc'["logic"] # "cleanup" /\ cleanups' = 0
      /\ \A b, c \in Actors : pc'[b] \in Cleaning /\ pc'[c] \in Cleaning => b = c
  BY <1>1, <1>2 DEF CleanupInv
<1>4. /\ \A b \in Actors : pc'[b] \in Cleaning =>
           (\A i \in Nat : ~CleanupAt(i)') /\ pc'["logic"] # "cleanup" /\ cleanups' = 0
      /\ \A i, j \in Nat : CleanupAt(i)' /\ CleanupAt(j)' => i = j
      /\ \A i \in Nat : CleanupAt(i)' => pc'["logic"] # "cleanup" /\ cleanups' = 0
  BY <1>1, <1>2 DEF CleanupInv
<1>5. /\ pc'["logic"] = "cleanup" => cleanups' = 0
      /\ pc'["logic"] = "cleanupDone" \/ cleanupDone' => cleanups' > 0
      /\ cleanups' <= 1 /\ lateHandlers' = 0
  BY <1>2 DEF CleanupInv
<1>6. QED
  BY <1>3, <1>4, <1>5 DEF CleanupInv

\* The cleanup stays where it is.
LEMMA CleanupFrame ==
    ASSUME CleanupInv, NEW a \in Actors, Stay(a), isDisconnect => isDisconnect',
           UNCHANGED <<jobQueue, cleanups, cleanupDone, lateHandlers>>,
           pc'[a] \in Cleaning => pc[a] \in Cleaning,
           a = "logic" => pc'[a] \notin {"cleanup", "cleanupDone"}
    PROVE  CleanupInv'
<1>1. \A i \in Nat : CleanupAt(i)' => CleanupAt(i)
  BY DEF CleanupAt
<1>2. QED
  BY <1>1, CleanupLess

\* The count of jobs.
LEMMA JobFrame ==
    ASSUME JobInv, NEW a \in Actors, Stay(a), UNCHANGED <<jobQueue, pendingJobs>>,
           a = "logic" => (pc'[a] = "idle" <=> pc[a] = "idle")
    PROVE  JobInv'
<1>1. pc'["logic"] = "idle" <=> pc["logic"] = "idle"
  BY ActorFacts DEF Stay
<1>2. QED
  BY <1>1 DEF JobInv

\* The count of requests and callbacks.
LEMMA CountFrame ==
    ASSUME CountInv, NEW a \in Actors, Stay(a), UNCHANGED <<posted, pendingIo>>,
           a \in Workers => (pc'[a] = "idle" <=> pc[a] = "idle")
    PROVE  CountInv'
<1>1. \A w : Working(w)' = Working(w)
  BY ActorFacts DEF Stay, Working
<1>2. Callbacks' = Callbacks
  BY <1>1 DEF Callbacks
<1>3. QED
  BY <1>2 DEF CountInv

\* Once the accept is settled it stays settled.
LEMMA YoungFrame ==
    ASSUME YoungInv, NEW a \in Actors, Stay(a), ~Young, UNCHANGED wasConnected,
           registered' = registered \/ pc["acceptor"] # "idle",
           a = "acceptor" => pc'[a] \notin YoungLabels \cup {"idle"},
           a = "closer" => pc'[a] # "idle"
    PROVE  YoungInv'
<1>1. pc["acceptor"] \notin YoungLabels /\ pc'["acceptor"] \notin YoungLabels
  BY ActorFacts DEF Young, Stay
<1>2. pc'["acceptor"] = "idle" => pc["acceptor"] = "idle"
  BY ActorFacts DEF Stay
<1>3. pc'["closer"] = "idle" => pc["closer"] = "idle"
  BY ActorFacts DEF Stay
<1>4. ~Young'
  BY <1>1, <1>2, <1>3 DEF Young
<1>5. QED
  BY <1>1, <1>2, <1>4 DEF YoungInv, YoungLabels

\* The shutdown and its lock.
LEMMA CloserFrame ==
    ASSUME CloserInv, NEW a \in Actors, Stay(a), isConnect' => isConnect,
           UNCHANGED shutdownStarted, ioLock' = ioLock \/ pc["closer"] # "bsClose",
           a = "closer" => pc[a] \notin {"idle", "bsClose"} /\ pc'[a] \notin {"idle", "bsClose"},
           a = "acceptor" => pc[a] \notin {"idle", "done"}
    PROVE  CloserInv'
<1>1. CASE a = "closer"
  <2>1. pc'["acceptor"] = pc["acceptor"]
    BY <1>1, ActorFacts DEF Stay
  <2>2. QED
    BY <1>1, <2>1 DEF CloserInv
<1>2. CASE a # "closer"
  <2>1. pc'["closer"] = pc["closer"]
    BY <1>2, ActorFacts DEF Stay
  <2>2. pc["closer"] # "idle" => pc'["acceptor"] \in {"idle", "done"}
    BY ActorFacts DEF Stay, CloserInv
  <2>3. QED
    BY <2>1, <2>2 DEF CloserInv
<1>3. QED
  BY <1>1, <1>2

\* What the shutdown has waited for.
LEMMA ShutFrame ==
    ASSUME ShutInv, NEW a \in Actors, Stay(a),
           UNCHANGED <<pendingIo, pendingJobs, cleanupDone, sendQueue, batch>>,
           a = "closer" => pc'[a] \notin {"waitJobs", "clear", "closed"}
    PROVE  ShutInv'
<1>1. pc'["closer"] \in {"waitJobs", "clear", "closed"} => pc'["closer"] = pc["closer"]
  BY ActorFacts DEF Stay
<1>2. QED
  BY <1>1 DEF ShutInv

\* A step of another thread while the shutdown has not waited for anything yet.
LEMMA ShutEarly ==
    ASSUME NEW a \in Actors \ {"closer"}, Stay(a),
           pc["closer"] \notin {"waitJobs", "clear", "closed"}
    PROVE  ShutInv'
<1>1. pc'["closer"] \notin {"waitJobs", "clear", "closed"}
  BY ActorFacts DEF Stay
<1>2. QED
  BY <1>1 DEF ShutInv

\* The statistics and the registration.
LEMMA StatFrame ==
    ASSUME StatInv, NEW a \in Actors, Stay(a),
           UNCHANGED <<connects, disconnects, wasConnected, cleanups, registered>>,
           a = "acceptor" => pc[a] # "conn" /\ pc'[a] # "conn"
    PROVE  StatInv'
<1>1. pc'["acceptor"] # "conn" <=> pc["acceptor"] # "conn"
  BY ActorFacts DEF Stay
<1>2. QED
  BY <1>1 DEF StatInv

-----------------------------------------------------------------------------
(* Who can be where *)

\* Only threads that found the session in SessionManager run while it is young.
LEMMA NotYoung ==
    ASSUME IInv, NEW a \in Actors, pc[a] \notin YoungLabels \cup {"idle"},
           a \in Apps => pc[a] \notin {"send", "dc"} \/ isConnect
    PROVE  ~Young
<1> SUFFICES ASSUME Young PROVE FALSE
  BY SMTT(30)
<1>1. a # "acceptor"
  BY DEF Young, YoungLabels
<1>2. a \in Apps /\ registered # "no" /\ pc[a] \in {"send", "dc"}
  BY <1>1 DEF IInv, PhaseInv, YoungInv
<1>3. isConnect /\ pc["acceptor"] = "rejectSet"
  BY <1>2 DEF IInv, PhaseInv, YoungInv
<1>4. registered = "no"
  BY <1>3 DEF IInv, PhaseInv, YoungInv
<1>5. QED
  BY <1>2, <1>4

\* Between begin_shutdown and the close of the socket the closer holds _io_lock.
LEMMA LockedOut ==
    ASSUME IInv, isConnect, ioLock = NoActor
    PROVE  ~shutdownStarted
<1>1. pc["closer"] # "bsClose"
  BY ActorFacts DEF IInv, PhaseInv, CloserInv
<1>2. QED
  BY <1>1 DEF IInv, PhaseInv, CloserInv

\* The workers that complete requests.
LEMMA WorkerNames == \A w \in Workers : w \in {"recv", "send", "disc", "recv2", "send2"}
  BY SessionAssumption DEF Workers, Events

\* A worker enters or leaves a callback.
LEMMA CallbackStep ==
    ASSUME NEW w \in Workers, NEW d \in Int,
           \A v : v # w => Working(v)' = Working(v), Working(w)' = Working(w) + d
    PROVE  Callbacks' = Callbacks + d
<1>1. \A v : Working(v) \in Int /\ Working(v)' \in Int
  BY SMTT(30) DEF Working
<1>2. w \in {"recv", "send", "disc", "recv2", "send2"}
  BY WorkerNames
<1>3. CASE w = "recv"
  <2>1. /\ Working("recv")' = Working("recv") + d /\ Working("send")' = Working("send")
        /\ Working("disc")' = Working("disc") /\ Working("recv2")' = Working("recv2")
        /\ Working("send2")' = Working("send2")
    BY <1>3
  <2>2. QED
    BY <1>1, <2>1, SMTT(30) DEF Callbacks
<1>4. CASE w = "send"
  <2>1. /\ Working("send")' = Working("send") + d /\ Working("recv")' = Working("recv")
        /\ Working("disc")' = Working("disc") /\ Working("recv2")' = Working("recv2")
        /\ Working("send2")' = Working("send2")
    BY <1>4
  <2>2. QED
    BY <1>1, <2>1, SMTT(30) DEF Callbacks
<1>5. CASE w = "disc"
  <2>1. /\ Working("disc")' = Working("disc") + d /\ Working("recv")' = Working("recv")
        /\ Working("send")' = Working("send") /\ Working("recv2")' = Working("recv2")
        /\ Working("send2")' = Working("send2")
    BY <1>5
  <2>2. QED
    BY <1>1, <2>1, SMTT(30) DEF Callbacks
<1>6. CASE w = "recv2"
  <2>1. /\ Working("recv2")' = Working("recv2") + d /\ Working("recv")' = Working("recv")
        /\ Working("send")' = Working("send") /\ Working("disc")' = Working("disc")
        /\ Working("send2")' = Working("send2")
    BY <1>6
  <2>2. QED
    BY <1>1, <2>1, SMTT(30) DEF Callbacks
<1>7. CASE w = "send2"
  <2>1. /\ Working("send2")' = Working("send2") + d /\ Working("recv")' = Working("recv")
        /\ Working("send")' = Working("send") /\ Working("disc")' = Working("disc")
        /\ Working("recv2")' = Working("recv2")
    BY <1>7
  <2>2. QED
    BY <1>1, <2>1, SMTT(30) DEF Callbacks
<1>8. QED
  BY <1>2, <1>3, <1>4, <1>5, <1>6, <1>7

\* A worker in a callback, and a request of the kernel, are counted.
LEMMA IoPending ==
    ASSUME IInv
    PROVE  /\ Callbacks \in Nat
           /\ pendingIo \in Nat
           /\ \A w \in Workers : pc[w] # "idle" => pendingIo > 0
           /\ \A e \in Events : posted[e] > 0 => pendingIo > 0
<1>1. \A w : Working(w) = 0 \/ Working(w) = 1
  BY DEF Working
<1>2. /\ Callbacks \in Nat
      /\ \A w \in {"recv", "send", "disc", "recv2", "send2"} : Working(w) = 1 => Callbacks > 0
  BY <1>1, SMTT(30) DEF Callbacks
<1>3. posted["recv"] \in Nat /\ posted["send"] \in Nat /\ posted["disc"] \in Nat
  BY DEF IInv, TypeInv, Events
<1>4. pendingIo = posted["recv"] + posted["send"] + posted["disc"] + Callbacks
  BY DEF IInv, CountInv
<1>5. /\ pendingIo \in Nat
      /\ Callbacks > 0 => pendingIo > 0
      /\ posted["recv"] > 0 \/ posted["send"] > 0 \/ posted["disc"] > 0 => pendingIo > 0
  BY <1>2, <1>3, <1>4, SMTT(30)
<1>6. ASSUME NEW w \in Workers, pc[w] # "idle" PROVE pendingIo > 0
  <2>1. Working(w) = 1
    BY <1>6 DEF Working
  <2>2. QED
    BY <1>2, <1>5, <2>1, WorkerNames
<1>7. \A e \in Events : posted[e] > 0 => pendingIo > 0
  BY <1>5 DEF Events
<1>8. QED
  BY <1>2, <1>5, <1>6, <1>7

\* A request is counted when it is posted.
LEMMA CountPost ==
    ASSUME IInv, NEW a \in Actors, Stay(a), NEW e \in Events,
           posted' = [posted EXCEPT ![e] = @ + 1], pendingIo' = pendingIo + 1,
           a \in Workers => (pc'[a] = "idle" <=> pc[a] = "idle")
    PROVE  CountInv'
<1>1. Callbacks' = Callbacks
  <2>1. \A w : Working(w)' = Working(w)
    BY ActorFacts DEF Stay, Working
  <2>2. QED
    BY <2>1 DEF Callbacks
<1>2. Callbacks \in Nat
  BY IoPending
<1>3. posted["recv"] \in Nat /\ posted["send"] \in Nat /\ posted["disc"] \in Nat
  BY DEF IInv, TypeInv, Events
<1>4. posted'["recv"] + posted'["send"] + posted'["disc"]
         = posted["recv"] + posted["send"] + posted["disc"] + 1
  BY <1>3, SMTT(30) DEF IInv, TypeInv, Events
<1>5. pendingIo = posted["recv"] + posted["send"] + posted["disc"] + Callbacks
  BY DEF IInv, CountInv
<1>6. /\ posted'["recv"] \in Nat /\ posted'["send"] \in Nat /\ posted'["disc"] \in Nat
  BY <1>3, SMTT(30) DEF IInv, TypeInv, Events
<1>7. pendingIo' = posted'["recv"] + posted'["send"] + posted'["disc"] + Callbacks
  BY <1>2, <1>3, <1>4, <1>5, <1>6, SMTT(30)
<1>8. QED
  BY <1>1, <1>7 DEF CountInv

\* A completion moves from the kernel to the worker that takes it.
LEMMA CountTake ==
    ASSUME IInv, NEW w \in Workers, Stay(w), NEW e \in Events,
           posted' = [posted EXCEPT ![e] = @ - 1], pendingIo' = pendingIo,
           pc[w] = "idle", pc'[w] # "idle"
    PROVE  CountInv'
<1>1. (\A v : v # w => Working(v)' = Working(v)) /\ Working(w) = 0 /\ Working(w)' = 1
  BY ActorFacts DEF Stay, Working
<1>2. Callbacks \in Nat
  BY IoPending
<1>3. Callbacks' = Callbacks + 1
  <2>1. 1 \in Int /\ 1 = 0 + 1
    BY SMTT(30)
  <2>2. Working(w)' = Working(w) + 1
    BY <1>1, <2>1
  <2>3. QED
    BY <1>1, <2>1, <2>2, CallbackStep
<1>4. posted["recv"] \in Nat /\ posted["send"] \in Nat /\ posted["disc"] \in Nat
  BY DEF IInv, TypeInv, Events
<1>5. /\ posted'["recv"] + posted'["send"] + posted'["disc"]
           = posted["recv"] + posted["send"] + posted["disc"] - 1
      /\ posted'["recv"] \in Int /\ posted'["send"] \in Int /\ posted'["disc"] \in Int
  BY <1>4, SMTT(30) DEF IInv, TypeInv, Events
<1>6. pendingIo = posted["recv"] + posted["send"] + posted["disc"] + Callbacks
  BY DEF IInv, CountInv
<1>7. pendingIo' = posted'["recv"] + posted'["send"] + posted'["disc"] + Callbacks'
  BY <1>2, <1>3, <1>4, <1>5, <1>6, SMTT(30)
<1>8. QED
  BY <1>7 DEF CountInv

\* finish_io takes the callback off the count.
LEMMA CountFinish ==
    ASSUME IInv, NEW w \in Workers, Stay(w), posted' = posted, pendingIo' = pendingIo - 1,
           pc[w] # "idle", pc'[w] = "idle"
    PROVE  CountInv'
<1>1. (\A v : v # w => Working(v)' = Working(v)) /\ Working(w) = 1 /\ Working(w)' = 0
  BY ActorFacts DEF Stay, Working
<1>2. Callbacks \in Nat
  BY IoPending
<1>3. Callbacks' = Callbacks + (0 - 1)
  <2>1. (0 - 1) \in Int /\ 0 = 1 + (0 - 1)
    BY SMTT(30)
  <2>2. Working(w)' = Working(w) + (0 - 1)
    BY <1>1, <2>1
  <2>3. QED
    BY <1>1, <2>1, <2>2, CallbackStep
<1>4. posted["recv"] \in Nat /\ posted["send"] \in Nat /\ posted["disc"] \in Nat
  BY DEF IInv, TypeInv, Events
<1>5. pendingIo = posted["recv"] + posted["send"] + posted["disc"] + Callbacks
  BY DEF IInv, CountInv
<1>6. pendingIo' = posted["recv"] + posted["send"] + posted["disc"] + Callbacks'
  BY <1>2, <1>3, <1>4, <1>5, SMTT(30)
<1>7. QED
  BY <1>6 DEF CountInv


-----------------------------------------------------------------------------
(* Steps inside the session's code *)

\* Thread a goes on to label l; neither is a label of the accept, of the start or
\* the end of the shutdown, or of the cleanup.
Inside(a, l) ==
    /\ pc[a] \notin YoungLabels /\ l \notin Cleaning
    /\ a \notin Apps => pc[a] \notin {"idle", "done"}
    /\ a = "logic" => l \notin {"idle", "cleanup", "cleanupDone"}
    /\ a \in Workers => l # "idle"
    /\ a = "acceptor" => l \notin YoungLabels \cup {"idle"}
    /\ a = "closer" => pc[a] # "bsClose" /\ l \notin {"idle", "bsClose"}

\* Such a step touches neither the jobs nor the phase of the session.
LEMMA InsideStep ==
    ASSUME IInv, NEW a \in Actors, NEW l \in Labels, pc'[a] = l, Stay(a), ~Young, Inside(a, l),
           isConnect' => isConnect, isDisconnect' = isDisconnect,
           ioLock' = ioLock \/ pc["closer"] # "bsClose",
           UNCHANGED <<wasConnected, shutdownStarted, registered, connects, disconnects,
                       jobQueue, pendingJobs, cleanupDone, cleanups, lateHandlers>>
    PROVE  /\ CleanupInv' /\ JobInv' /\ YoungInv' /\ CloserInv' /\ StatInv'
           /\ a \in Workers => (pc'[a] = "idle" <=> pc[a] = "idle")
<1>1. CleanupInv'
  BY CleanupFrame DEF IInv, Inside
<1>2. JobInv'
  BY JobFrame, ActorFacts DEF IInv, Inside
<1>3. YoungInv'
  BY YoungFrame DEF IInv, PhaseInv, Inside
<1>4. CloserInv'
  BY CloserFrame, ActorFacts DEF IInv, PhaseInv, Inside
<1>5. StatInv'
  BY StatFrame DEF IInv, PhaseInv, Inside, YoungLabels
<1>6. QED
  BY <1>1, <1>2, <1>3, <1>4, <1>5, ActorFacts DEF Inside

SameAll == UNCHANGED <<flags, ioLock, sendQueue, batch, sent, owner, posted, pendingIo,
                       jobQueue, pendingJobs, cleanupDone, world, sendFailed, cleanups,
                       lateHandlers>>

\* Thread a may go on to label l without the session's state changing.
Allowed(a, l) ==
    /\ Inside(a, l) /\ l \notin Posting /\ pc[a] \notin {"ps", "sendFlag"}
    /\ pc[a] = "dc" => ~isConnect
    /\ l \in Hold => pc[a] \in Hold
    /\ isConnect => (l \in FlagHeld <=> pc[a] \in FlagHeld)
    /\ l \in Receiving => pc[a] \in Receiving
    /\ isConnect /\ pc[a] \in Receiving => l \in Receiving \cup {"dc"}
    /\ a = "acceptor" /\ isConnect /\ pc[a] = "rr" => l = "dc"
    /\ l \in DiscUse => pc[a] \in DiscUse
    /\ l \in Ending => pc[a] \in Ending
    /\ a = "closer" => l \notin {"waitJobs", "clear", "closed"}

\* Such a step keeps the invariant.
LEMMA PureMove ==
    ASSUME IInv, NEW a \in Actors, NEW l \in Labels, Goto(a, l), SameAll, ~Young, Allowed(a, l)
    PROVE  IInv'
<1>1. pc'[a] = l /\ Stay(a) /\ pc' \in [Actors -> Labels]
  BY GotoFacts DEF IInv
<1> USE <1>1
<1>2. /\ isConnect' = isConnect /\ wasConnected' = wasConnected
      /\ isDisconnect' = isDisconnect /\ shutdownStarted' = shutdownStarted
      /\ closeAfterSend' = closeAfterSend /\ isSendRegister' = isSendRegister
      /\ ioLock' = ioLock /\ sendQueue' = sendQueue /\ batch' = batch /\ sent' = sent
      /\ owner' = owner /\ posted' = posted /\ pendingIo' = pendingIo
      /\ jobQueue' = jobQueue /\ pendingJobs' = pendingJobs /\ cleanupDone' = cleanupDone
      /\ registered' = registered /\ connects' = connects /\ disconnects' = disconnects
      /\ sendFailed' = sendFailed /\ cleanups' = cleanups /\ lateHandlers' = lateHandlers
  BY DEF SameAll, flags, world
<1> USE <1>2
<1>3. TypeInv'
  BY DEF IInv, TypeInv
<1>4. SendInv'
  BY SendFrame DEF IInv, Allowed
<1>5. RecvInv'
  BY RecvFrame DEF IInv, Allowed, Inside, YoungLabels
<1>6. DiscInv'
  BY DiscFrame DEF IInv, Allowed
<1>7. /\ CleanupInv' /\ JobInv' /\ YoungInv' /\ CloserInv' /\ StatInv'
      /\ a \in Workers => (pc'[a] = "idle" <=> pc[a] = "idle")
  BY InsideStep DEF Allowed
<1>8. CountInv'
  BY <1>7, CountFrame DEF IInv
<1>9. ShutInv'
  BY ShutFrame DEF IInv, PhaseInv, Allowed
<1>10. QED
  BY <1>3, <1>4, <1>5, <1>6, <1>7, <1>8, <1>9 DEF IInv, PhaseInv

\* Threads that find the session before it is connected come and go.
LEMMA YoungMove ==
    ASSUME IInv, NEW a \in Apps, NEW l \in {"idle", "send", "dc"}, Goto(a, l), SameAll, Young,
           pc[a] \in {"idle", "send", "dc"}, registered # "no"
    PROVE  IInv'
<1>0. a \in Actors /\ a # "acceptor" /\ a # "closer" /\ a # "logic" /\ a \notin Workers
      /\ l \in Labels
  BY ActorFacts DEF Labels
<1> USE <1>0
<1>1. pc'[a] = l /\ Stay(a) /\ pc' \in [Actors -> Labels]
  BY GotoFacts DEF IInv
<1> USE <1>1
<1>2. /\ isConnect' = isConnect /\ wasConnected' = wasConnected
      /\ isDisconnect' = isDisconnect /\ shutdownStarted' = shutdownStarted
      /\ closeAfterSend' = closeAfterSend /\ isSendRegister' = isSendRegister
      /\ ioLock' = ioLock /\ sendQueue' = sendQueue /\ batch' = batch /\ sent' = sent
      /\ owner' = owner /\ posted' = posted /\ pendingIo' = pendingIo
      /\ jobQueue' = jobQueue /\ pendingJobs' = pendingJobs /\ cleanupDone' = cleanupDone
      /\ registered' = registered /\ connects' = connects /\ disconnects' = disconnects
      /\ sendFailed' = sendFailed /\ cleanups' = cleanups /\ lateHandlers' = lateHandlers
  BY DEF SameAll, flags, world
<1> USE <1>2
<1>3. TypeInv'
  BY DEF IInv, TypeInv
<1>a. ~isConnect
  BY DEF IInv, PhaseInv, YoungInv
<1>b. /\ l \notin FlagHeld /\ l \notin Hold /\ l \notin Posting /\ l \notin Receiving
      /\ l \notin Ending /\ l \notin DiscUse /\ l \notin Cleaning
  BY DEF FlagHeld, Hold, Posting, Receiving, Ending, DiscUse, Cleaning
<1>4. SendInv'
  BY <1>a, <1>b, SendFrame DEF IInv
<1>5. RecvInv'
  BY <1>a, <1>b, RecvFrame DEF IInv
<1>6. DiscInv'
  BY <1>a, <1>b, DiscFrame DEF IInv
<1>7. CleanupInv'
  BY <1>b, CleanupFrame DEF IInv
<1>8. JobInv'
  BY JobFrame DEF IInv
<1>9. CountInv'
  BY CountFrame DEF IInv
<1>10. PhaseInv'
  <2>1. YoungInv'
    <3>1. pc'["acceptor"] = pc["acceptor"] /\ pc'["closer"] = pc["closer"]
      BY ActorFacts DEF Stay
    <3>2. Young'
      BY <3>1 DEF Young
    <3>3. \A b \in Actors \ {"acceptor"} :
             pc'[b] = "idle" \/ (b \in Apps /\ registered' # "no" /\ pc'[b] \in {"send", "dc"})
      BY DEF IInv, PhaseInv, YoungInv, Stay
    <3>4. QED
      BY <3>1, <3>2, <3>3 DEF IInv, PhaseInv, YoungInv
  <2>2. CloserInv'
    BY CloserFrame DEF IInv, PhaseInv
  <2>3. ShutInv'
    BY ShutFrame DEF IInv, PhaseInv
  <2>4. StatInv'
    BY StatFrame DEF IInv, PhaseInv
  <2>5. QED
    BY <2>1, <2>2, <2>3, <2>4 DEF PhaseInv
<1>11. QED
  BY <1>3, <1>4, <1>5, <1>6, <1>7, <1>8, <1>9, <1>10 DEF IInv

-----------------------------------------------------------------------------
(* Session::send and register_send *)

\* send finds the session connected, or returns.
LEMMA SendAction ==
    ASSUME IInv, NEW a \in Actors, Send(a)
    PROVE  IInv'
<1>1. SameAll /\ pc[a] = "send"
  BY DEF Send, At, SameAll, flags, locks, sendVars, ioVars, jobVars, world, history
<1>a. After(a) \in Labels /\ "sendLock" \in Labels
  BY AfterFacts DEF Labels
<1> USE <1>1
<1>2. PICK l \in Labels : Goto(a, l) /\ IF isConnect THEN l = "sendLock" ELSE l = After(a)
  BY <1>a DEF Send, Return
<1>3. CASE Young
  <2>1. a \in Apps /\ ~isConnect
    BY <1>3, NotYoung DEF YoungLabels
  <2>2. l = "idle" /\ a # "acceptor"
    BY <1>2, <2>1, AfterFacts, ActorFacts
  <2>3. registered # "no"
    BY <1>3, <2>2 DEF IInv, PhaseInv, YoungInv
  <2>4. QED
    BY <1>2, <1>3, <2>1, <2>2, <2>3, YoungMove
<1>4. CASE ~Young
  <2>1. Allowed(a, l)
    BY <1>2, AfterFacts, ActorFacts, RestingFacts
    DEF Allowed, Inside, FlagHeld, Hold, Posting, Receiving, Ending, DiscUse, Cleaning, YoungLabels
  <2>2. QED
    BY <1>2, <1>4, <2>1, PureMove
<1>5. QED
  BY <1>3, <1>4

\* The second check under WRITE_LOCK, the limit, and the push.
LEMMA SendLockAction ==
    ASSUME IInv, NEW a \in Actors, SendLock(a)
    PROVE  IInv'
<1>1. pc[a] = "sendLock" /\ ~Young
  BY NotYoung DEF SendLock, At, YoungLabels
<1> USE <1>1
<1>2. CASE sendQueue' = sendQueue /\ Goto(a, "dc")
  <2>1. SameAll
    BY <1>2
    DEF SendLock, SameAll, flags, locks, sendVars, ioVars, jobVars, world, history
  <2>2. Allowed(a, "dc") /\ "dc" \in Labels
    BY DEF Allowed, Inside, FlagHeld, Hold, Posting, Receiving, Ending, DiscUse, Cleaning,
        YoungLabels, Labels
  <2>3. QED
    BY <1>2, <2>1, <2>2, PureMove
<1>3. CASE sendQueue' = sendQueue /\ Return(a)
  <2>1. SameAll
    BY <1>3
    DEF SendLock, SameAll, flags, locks, sendVars, ioVars, jobVars, world, history
  <2>2. Allowed(a, After(a)) /\ After(a) \in Labels
    BY AfterFacts, ActorFacts, RestingFacts
    DEF Allowed, Inside, FlagHeld, Hold, Posting, Receiving, Ending, DiscUse, Cleaning, YoungLabels
  <2>3. QED
    BY <1>3, <2>1, <2>2, PureMove DEF Return
<1>4. CASE isConnect /\ Goto(a, "sendFlag")
  <2>1. /\ isConnect' = isConnect /\ wasConnected' = wasConnected
        /\ isDisconnect' = isDisconnect /\ shutdownStarted' = shutdownStarted
        /\ closeAfterSend' = closeAfterSend /\ isSendRegister' = isSendRegister
        /\ ioLock' = ioLock /\ batch' = batch /\ sent' = sent
        /\ owner' = owner /\ posted' = posted /\ pendingIo' = pendingIo
        /\ jobQueue' = jobQueue /\ pendingJobs' = pendingJobs /\ cleanupDone' = cleanupDone
        /\ registered' = registered /\ connects' = connects /\ disconnects' = disconnects
        /\ sendFailed' = sendFailed /\ cleanups' = cleanups /\ lateHandlers' = lateHandlers
    BY DEF SendLock, flags, ioVars, jobVars, world
  <2> USE <2>1
  <2>2. pc'[a] = "sendFlag" /\ Stay(a) /\ pc' \in [Actors -> Labels] /\ "sendFlag" \in Labels
    BY <1>4, GotoFacts DEF IInv, Labels
  <2> USE <2>2
  <2>3. TypeInv'
    BY DEF IInv, TypeInv
  <2>4. SendInv'
    <3>0. /\ "sendFlag" \notin FlagHeld /\ "sendFlag" \notin Hold /\ "sendFlag" \notin Posting
          /\ pc[a] \notin FlagHeld /\ pc[a] \notin Hold
      BY DEF FlagHeld, Hold, Posting
    <3>1. Token("send", Hold)'
      BY <3>0, TokenFrame DEF IInv, SendInv, Events
    <3>2. PostingInv'
      BY <3>0, PostingFrame DEF IInv, SendInv
    <3>3. FlagInv'
      BY <3>0, FlagFrame DEF IInv, SendInv
    <3>4. QueueInv'
      BY DEF QueueInv
    <3>5. FailureDisconnects'
      BY FailFrame DEF IInv, SendInv
    <3>6. QED
      BY <3>1, <3>2, <3>3, <3>4, <3>5 DEF SendInv
  <2>5. RecvInv'
    BY RecvFrame DEF IInv, Receiving
  <2>6. DiscInv'
    BY DiscFrame DEF IInv, DiscUse, Ending
  <2>7. Inside(a, "sendFlag")
    BY DEF Inside, YoungLabels, Cleaning
  <2>8. /\ CleanupInv' /\ JobInv' /\ YoungInv' /\ CloserInv' /\ StatInv'
        /\ a \in Workers => (pc'[a] = "idle" <=> pc[a] = "idle")
    BY <2>7, InsideStep
  <2>9. CountInv'
    BY <2>8, CountFrame DEF IInv
  <2>10. ShutInv'
    <3>1. pc["closer"] \in {"idle", "bsClose"}
      BY <1>4 DEF IInv, PhaseInv, CloserInv
    <3>2. a # "closer"
      BY <3>1
    <3>3. QED
      BY <3>1, <3>2, ShutEarly
  <2>11. QED
    BY <2>3, <2>4, <2>5, <2>6, <2>8, <2>9, <2>10 DEF IInv, PhaseInv
<1>5. QED
  BY <1>2, <1>3, <1>4 DEF SendLock

\* The exchange of the flag makes the first sender, and only it, register.
LEMMA SendFlagAction ==
    ASSUME IInv, NEW a \in Actors, SendFlag(a)
    PROVE  IInv'
<1>1. pc[a] = "sendFlag" /\ ~Young
  BY NotYoung DEF SendFlag, At, YoungLabels
<1>a. After(a) \in Labels /\ "rs" \in Labels
  BY AfterFacts DEF Labels
<1> USE <1>1
<1>2. PICK l \in Labels : Goto(a, l) /\ IF isSendRegister THEN l = After(a) ELSE l = "rs"
  BY <1>a DEF SendFlag, FirstRegisters
<1>3. /\ isConnect' = isConnect /\ wasConnected' = wasConnected
      /\ isDisconnect' = isDisconnect /\ shutdownStarted' = shutdownStarted
      /\ closeAfterSend' = closeAfterSend /\ isSendRegister'
      /\ ioLock' = ioLock /\ batch' = batch /\ sent' = sent /\ sendQueue' = sendQueue
      /\ owner' = owner /\ posted' = posted /\ pendingIo' = pendingIo
      /\ jobQueue' = jobQueue /\ pendingJobs' = pendingJobs /\ cleanupDone' = cleanupDone
      /\ registered' = registered /\ connects' = connects /\ disconnects' = disconnects
      /\ sendFailed' = sendFailed /\ cleanups' = cleanups /\ lateHandlers' = lateHandlers
  BY DEF SendFlag, sendVars, ioVars, jobVars, world, history
<1> USE <1>3
<1>4. pc'[a] = l /\ Stay(a) /\ pc' \in [Actors -> Labels]
  BY <1>2, GotoFacts DEF IInv
<1> USE <1>4
<1>5. TypeInv'
  BY DEF IInv, TypeInv, SendFlag
<1>6. /\ l \notin Hold /\ l \notin Posting /\ l \notin Receiving /\ l \notin Ending
      /\ l \notin DiscUse /\ l \notin {"waitJobs", "clear", "closed"}
      /\ l = "rs" \/ l \notin FlagHeld
  BY <1>2, AfterFacts, RestingFacts DEF FlagHeld, Hold, Posting, Receiving, Ending, DiscUse
<1> USE <1>6
<1>7. SendInv'
  <2>1. Token("send", Hold)'
    BY TokenFrame DEF IInv, SendInv, Events
  <2>2. PostingInv'
    BY PostingFrame DEF IInv, SendInv
  <2>3. FlagInv'
    <3> SUFFICES ASSUME isConnect PROVE FlagInv'
      BY DEF FlagInv
    <3>1. CASE isSendRegister
      <4>1. l \notin FlagHeld /\ pc[a] \notin FlagHeld
        BY <1>2, <3>1, AfterFacts, RestingFacts DEF FlagHeld, Hold, Posting
      <4>2. \A b \in Actors : pc'[b] \in FlagHeld <=> pc[b] \in FlagHeld
        BY <4>1 DEF Stay
      <4>3. QED
        BY <3>1, <4>2 DEF IInv, SendInv, FlagInv
    <3>2. CASE ~isSendRegister
      <4>1. ~(posted["send"] > 0) /\ \A b \in Actors : pc[b] \notin FlagHeld
        BY <3>2 DEF IInv, SendInv, FlagInv
      <4>2. pc'[a] \in FlagHeld /\ \A b \in Actors \ {a} : pc'[b] \notin FlagHeld
        BY <1>2, <3>2, <4>1 DEF Stay, FlagHeld
      <4>3. QED
        BY <4>1, <4>2 DEF FlagInv
    <3>3. QED
      BY <3>1, <3>2
  <2>4. QueueInv'
    BY DEF QueueInv
  <2>5. FailureDisconnects'
    BY FailFrame DEF IInv, SendInv
  <2>6. QED
    BY <2>1, <2>2, <2>3, <2>4, <2>5 DEF SendInv
<1>8. RecvInv'
  BY RecvFrame DEF IInv, Receiving
<1>9. DiscInv'
  BY DiscFrame DEF IInv
<1>10. Inside(a, l)
  BY <1>2, AfterFacts, ActorFacts, RestingFacts DEF Inside, YoungLabels, Cleaning
<1>11. /\ CleanupInv' /\ JobInv' /\ YoungInv' /\ CloserInv' /\ StatInv'
       /\ a \in Workers => (pc'[a] = "idle" <=> pc[a] = "idle")
  BY <1>10, InsideStep
<1>12. CountInv'
  BY <1>11, CountFrame DEF IInv
<1>13. ShutInv'
  BY ShutFrame DEF IInv, PhaseInv
<1>14. QED
  BY <1>5, <1>7, <1>8, <1>9, <1>11, <1>12, <1>13 DEF IInv, PhaseInv

\* The flag's holder takes _io_lock, or finds the connection gone.
LEMMA RegisterSendAction ==
    ASSUME IInv, NEW a \in Actors, RegisterSend(a)
    PROVE  IInv'
<1>1. pc[a] = "rs" /\ ioLock = NoActor /\ ~Young
  BY NotYoung DEF RegisterSend, At, YoungLabels
<1> USE <1>1
<1>2. CASE shutdownStarted \/ ~isConnect
  <2>1. ~isConnect
    BY <1>2, LockedOut
  <2>2. SameAll /\ Goto(a, After(a))
    BY <1>2
    DEF RegisterSend, Return, SameAll, flags, sendVars, jobVars, world, history
  <2>3. Allowed(a, After(a)) /\ After(a) \in Labels
    BY <2>1, AfterFacts, ActorFacts, RestingFacts
    DEF Allowed, Inside, Receiving, Cleaning, YoungLabels
  <2>4. QED
    BY <2>2, <2>3, PureMove
<1>3. CASE ~shutdownStarted /\ isConnect
  <2>1. /\ isConnect' = isConnect /\ wasConnected' = wasConnected
        /\ isDisconnect' = isDisconnect /\ shutdownStarted' = shutdownStarted
        /\ closeAfterSend' = closeAfterSend /\ isSendRegister' = isSendRegister
        /\ ioLock' = a /\ batch' = batch /\ sent' = sent /\ sendQueue' = sendQueue
        /\ posted' = posted /\ pendingIo' = pendingIo
        /\ jobQueue' = jobQueue /\ pendingJobs' = pendingJobs /\ cleanupDone' = cleanupDone
        /\ registered' = registered /\ connects' = connects /\ disconnects' = disconnects
        /\ sendFailed' = sendFailed /\ cleanups' = cleanups /\ lateHandlers' = lateHandlers
    BY <1>3 DEF RegisterSend, flags, sendVars, jobVars, world, history
  <2> USE <2>1
  <2>2. /\ owner' \in [Events -> BOOLEAN] /\ owner'["send"]
        /\ owner'["recv"] = owner["recv"] /\ owner'["disc"] = owner["disc"]
    BY <1>3 DEF RegisterSend, IInv, TypeInv, Events
  <2>3. pc'[a] = "rsDrain" /\ Stay(a) /\ pc' \in [Actors -> Labels] /\ "rsDrain" \in Labels
    BY <1>3, GotoFacts DEF RegisterSend, IInv, Labels
  <2> USE <2>3
  <2>4. TypeInv'
    BY <2>2 DEF IInv, TypeInv
  <2>5. /\ ~(posted["send"] > 0) /\ \A b \in Actors : pc[b] \in FlagHeld => b = a
        /\ pc[a] \in FlagHeld /\ pc[a] \notin Hold
    BY <1>3 DEF IInv, SendInv, FlagInv, FlagHeld, Hold, Posting
  <2>6. SendInv'
    <3>1. \A b \in Actors : pc[b] \notin Hold
      BY <2>5 DEF FlagHeld
    <3>2. Token("send", Hold)'
      <4>1. posted["send"] \in Nat
        BY DEF IInv, TypeInv, Events
      <4>2. posted["send"] = 0
        BY <2>5, <4>1, SMTT(30)
      <4>3. QED
        BY <3>1, <4>2, TokenEnter DEF Events
    <3>3. PostingInv'
      BY <1>3, <2>2, <3>1 DEF PostingInv, Stay, Hold
    <3>4. FlagInv'
      BY <2>5, FlagFrame DEF IInv, SendInv, FlagHeld, Hold, Posting
    <3>5. QueueInv'
      BY QueueFrame, SMTT(30) DEF IInv, SendInv
    <3>6. FailureDisconnects'
      BY FailFrame DEF IInv, SendInv
    <3>7. QED
      BY <3>2, <3>3, <3>4, <3>5, <3>6 DEF SendInv
  <2>7. RecvInv'
    BY <2>2, RecvFrame DEF IInv, Receiving
  <2>8. DiscInv'
    BY <2>2, DiscFrame DEF IInv, DiscUse, Ending
  <2>9. Inside(a, "rsDrain")
    BY DEF Inside, YoungLabels, Cleaning
  <2>10. pc["closer"] # "bsClose"
    BY <1>3 DEF IInv, PhaseInv, CloserInv
  <2>11. /\ CleanupInv' /\ JobInv' /\ YoungInv' /\ CloserInv' /\ StatInv'
         /\ a \in Workers => (pc'[a] = "idle" <=> pc[a] = "idle")
    BY <2>9, <2>10, InsideStep
  <2>12. CountInv'
    BY <2>11, CountFrame DEF IInv
  <2>13. ShutInv'
    BY ShutFrame DEF IInv, PhaseInv, RegisterSend
  <2>14. QED
    BY <2>4, <2>6, <2>7, <2>8, <2>11, <2>12, <2>13 DEF IInv, PhaseInv
<1>4. QED
  BY <1>2, <1>3

\* What holds for the thread inside register_send.
LEMMA PostingFacts ==
    ASSUME IInv, NEW a \in Actors, pc[a] \in Posting
    PROVE  /\ ioLock = a /\ owner["send"] /\ ~shutdownStarted /\ ~Young
           /\ pc["closer"] = "idle" /\ a # "closer"
           /\ posted["send"] = 0 /\ \A b \in Actors \ {a} : pc[b] \notin Hold
           /\ isConnect => isSendRegister /\ \A b \in Actors \ {a} : pc[b] \notin FlagHeld
<1>1. ioLock = a /\ owner["send"] /\ ~shutdownStarted
  BY DEF IInv, SendInv, PostingInv
<1>2. pc["closer"] = "idle"
  BY <1>1 DEF IInv, PhaseInv, CloserInv
<1>3. a # "closer"
  BY <1>2 DEF Posting
<1>4. ~Young
  BY NotYoung DEF Posting, YoungLabels
<1>5. ~(posted["send"] > 0) /\ \A b \in Actors \ {a} : pc[b] \notin Hold
  BY DEF IInv, SendInv, Token, Hold
<1>6. posted["send"] \in Nat
  BY DEF IInv, TypeInv, Events
<1>7. posted["send"] = 0
  BY <1>5, <1>6, SMTT(30)
<1>8. isConnect => isSendRegister /\ \A b \in Actors \ {a} : pc[b] \notin FlagHeld
  BY DEF IInv, SendInv, FlagInv, FlagHeld, Hold
<1>9. QED
  BY <1>1, <1>2, <1>3, <1>4, <1>5, <1>7, <1>8

\* The holder of the flag gives up the event and the flag.
LEMMA FlagReleased ==
    ASSUME FlagInv, NEW a \in Actors, Stay(a), ~isSendRegister', ~(posted'["send"] > 0),
           isConnect' => isConnect, pc[a] \in FlagHeld, pc'[a] \notin FlagHeld
    PROVE  FlagInv'
<1> SUFFICES ASSUME isConnect' PROVE FlagInv'
  BY DEF FlagInv
<1>1. \A b \in Actors : pc'[b] \notin FlagHeld
  BY DEF FlagInv, Stay
<1>2. QED
  BY <1>1 DEF FlagInv

\* The queue, or what is left of the last batch, is taken over; with nothing to send
\* the flag is given back.
LEMMA RsDrainAction ==
    ASSUME IInv, NEW a \in Actors, RsDrain(a)
    PROVE  IInv'
<1>0. pc[a] = "rsDrain" /\ pc[a] \in Posting /\ pc[a] \in Hold /\ pc[a] \in FlagHeld
  BY DEF RsDrain, At, Posting, Hold, FlagHeld
<1> USE <1>0
<1>1. /\ ioLock = a /\ owner["send"] /\ ~shutdownStarted /\ ~Young
      /\ pc["closer"] = "idle" /\ a # "closer"
      /\ posted["send"] = 0 /\ \A b \in Actors \ {a} : pc[b] \notin Hold
      /\ isConnect => isSendRegister /\ \A b \in Actors \ {a} : pc[b] \notin FlagHeld
  BY PostingFacts
<1> USE <1>1
<1>2. /\ isConnect' = isConnect /\ wasConnected' = wasConnected
      /\ isDisconnect' = isDisconnect /\ shutdownStarted' = shutdownStarted
      /\ closeAfterSend' = closeAfterSend /\ sent' = sent
      /\ posted' = posted /\ pendingIo' = pendingIo
      /\ jobQueue' = jobQueue /\ pendingJobs' = pendingJobs /\ cleanupDone' = cleanupDone
      /\ registered' = registered /\ connects' = connects /\ disconnects' = disconnects
      /\ sendFailed' = sendFailed /\ cleanups' = cleanups /\ lateHandlers' = lateHandlers
  BY DEF RsDrain, jobVars, world, history
<1> USE <1>2
<1>3. ASSUME NEW l \in Labels, Goto(a, l), l \in {"rsPost", "dc", After(a)},
             owner' \in [Events -> BOOLEAN], owner'["recv"] = owner["recv"],
             owner'["disc"] = owner["disc"], isSendRegister' \in BOOLEAN, SendInv'
      PROVE  IInv'
  <2>1. pc'[a] = l /\ Stay(a) /\ pc' \in [Actors -> Labels]
    BY <1>3, GotoFacts DEF IInv
  <2> USE <2>1
  <2>2. TypeInv'
    BY <1>3 DEF IInv, TypeInv
  <2>3. l \notin Receiving /\ l \notin DiscUse /\ l \notin Ending
    BY <1>3, AfterFacts, RestingFacts DEF Receiving, DiscUse, Ending
  <2>4. RecvInv'
    BY <1>3, <2>3, RecvFrame DEF IInv, Receiving
  <2>5. DiscInv'
    BY <1>3, <2>3, DiscFrame DEF IInv
  <2>6. Inside(a, l)
    BY <1>3, AfterFacts, ActorFacts, RestingFacts
    DEF Inside, YoungLabels, Cleaning
  <2>7. /\ CleanupInv' /\ JobInv' /\ YoungInv' /\ CloserInv' /\ StatInv'
        /\ a \in Workers => (pc'[a] = "idle" <=> pc[a] = "idle")
    BY <2>6, InsideStep
  <2>8. CountInv'
    BY <2>7, CountFrame DEF IInv
  <2>9. ShutInv'
    BY ShutEarly
  <2>10. QED
    BY <1>3, <2>2, <2>4, <2>5, <2>7, <2>8, <2>9 DEF IInv, PhaseInv
<1>4. CASE Drained = <<>>
  <2>1. /\ isSendRegister' = FALSE /\ owner' = [owner EXCEPT !["send"] = FALSE]
        /\ sendQueue' = <<>> /\ (Goto(a, "dc") \/ Goto(a, After(a)))
    BY <1>4 DEF RsDrain, Drained, Return
  <2> USE <2>1
  <2>2. PICK l \in Labels : Goto(a, l) /\ l \in {"dc", After(a)}
    <3>1. "dc" \in Labels /\ After(a) \in Labels
      BY AfterFacts DEF Labels
    <3>2. QED
      BY <3>1
  <2>3. /\ owner' \in [Events -> BOOLEAN] /\ owner'["recv"] = owner["recv"]
        /\ owner'["disc"] = owner["disc"]
    BY DEF IInv, TypeInv, Events
  <2>4. pc'[a] = l /\ Stay(a) /\ l \notin FlagHeld /\ l \notin Hold /\ l \notin Posting
    BY <2>2, GotoFacts, AfterFacts, RestingFacts DEF IInv, FlagHeld, Hold, Posting
  <2>5. ~(posted["send"] > 0)
    BY DEF IInv, SendInv, Token
  <2>6. Token("send", Hold)'
    BY <2>4, <2>5, TokenFrame DEF IInv, SendInv, Events
  <2>7. PostingInv'
    BY <2>4, PostingFrame DEF IInv, SendInv, Hold
  <2>8. FlagInv'
    BY <2>4, <2>5, FlagReleased DEF IInv, SendInv
  <2>9. QueueInv'
    BY DEF QueueInv
  <2>10. FailureDisconnects'
    BY <2>4, FailFrame DEF IInv, SendInv
  <2>11. QED
    BY <1>3, <2>2, <2>3, <2>6, <2>7, <2>8, <2>9, <2>10 DEF SendInv
<1>5. CASE Drained # <<>>
  <2>1. /\ isSendRegister' = isSendRegister /\ owner' = owner /\ ioLock' = ioLock
        /\ Goto(a, "rsPost")
    BY <1>5 DEF RsDrain
  <2> USE <2>1
  <2>2. pc'[a] = "rsPost" /\ Stay(a) /\ "rsPost" \in Labels
    BY GotoFacts DEF IInv, Labels
  <2> USE <2>2
  <2>3. Token("send", Hold)'
    BY TokenFrame DEF IInv, SendInv, Events
  <2>4. PostingInv'
    BY DEF PostingInv, Stay, Hold
  <2>5. FlagInv'
    BY FlagFrame DEF IInv, SendInv, FlagHeld, Hold, Posting
  <2>6. QueueInv'
    BY SMTT(30) DEF QueueInv
  <2>7. FailureDisconnects'
    BY FailFrame DEF IInv, SendInv
  <2>8. isSendRegister' \in BOOLEAN /\ owner' \in [Events -> BOOLEAN]
    BY DEF IInv, TypeInv
  <2>9. QED
    BY <1>3, <2>3, <2>4, <2>5, <2>6, <2>7, <2>8 DEF SendInv
<1>6. QED
  BY <1>4, <1>5

\* WSASend accepts the batch: the event is the kernel's.
LEMMA RsPostOkAction ==
    ASSUME IInv, NEW a \in Actors, RsPostOk(a)
    PROVE  IInv'
<1>0. pc[a] = "rsPost" /\ pc[a] \in Posting /\ pc[a] \in Hold /\ pc[a] \in FlagHeld
  BY DEF RsPostOk, At, Posting, Hold, FlagHeld
<1> USE <1>0
<1>1. /\ ioLock = a /\ owner["send"] /\ ~shutdownStarted /\ ~Young
      /\ pc["closer"] = "idle" /\ a # "closer"
      /\ posted["send"] = 0 /\ \A b \in Actors \ {a} : pc[b] \notin Hold
      /\ isConnect => isSendRegister /\ \A b \in Actors \ {a} : pc[b] \notin FlagHeld
  BY PostingFacts
<1> USE <1>1
<1>2. /\ isConnect' = isConnect /\ wasConnected' = wasConnected
      /\ isDisconnect' = isDisconnect /\ shutdownStarted' = shutdownStarted
      /\ closeAfterSend' = closeAfterSend /\ isSendRegister' = isSendRegister
      /\ batch' = batch /\ sent' = sent /\ sendQueue' = sendQueue
      /\ owner' = owner /\ posted' = [posted EXCEPT !["send"] = @ + 1]
      /\ pendingIo' = pendingIo + 1
      /\ jobQueue' = jobQueue /\ pendingJobs' = pendingJobs /\ cleanupDone' = cleanupDone
      /\ registered' = registered /\ connects' = connects /\ disconnects' = disconnects
      /\ sendFailed' = sendFailed /\ cleanups' = cleanups /\ lateHandlers' = lateHandlers
      /\ Goto(a, After(a))
  BY DEF RsPostOk, Return, flags, sendVars, jobVars, world, history
<1> USE <1>2
<1>3. /\ pc'[a] = After(a) /\ Stay(a) /\ pc' \in [Actors -> Labels]
      /\ After(a) \in Labels /\ After(a) \in Resting
  BY GotoFacts, AfterFacts DEF IInv
<1> USE <1>3
<1>4. /\ posted' \in [Events -> Nat] /\ posted'["send"] = posted["send"] + 1
      /\ posted'["recv"] = posted["recv"] /\ posted'["disc"] = posted["disc"]
  BY SMTT(30) DEF IInv, TypeInv, Events
<1> USE <1>4
<1>5. pendingIo' \in Int
  BY SMTT(30) DEF IInv, TypeInv
<1>6. TypeInv'
  BY <1>5 DEF IInv, TypeInv
<1>7. /\ After(a) \notin Hold /\ After(a) \notin FlagHeld /\ After(a) \notin Posting
      /\ After(a) \notin Receiving /\ After(a) \notin DiscUse /\ After(a) \notin Ending
  BY RestingFacts
<1> USE <1>7
<1>8. SendInv'
  <2>1. Token("send", Hold)'
    BY TokenPost DEF IInv, SendInv, Events
  <2>2. PostingInv'
    BY PostingFrame DEF IInv, SendInv, Hold
  <2>3. FlagInv'
    <3>1. posted'["send"] > 0
      BY SMTT(30)
    <3>2. isConnect' => isSendRegister'
      BY SMTT(30)
    <3>3. isConnect' => \A b \in Actors : pc'[b] \notin FlagHeld
      BY DEF Stay
    <3>4. QED
      BY <3>1, <3>2, <3>3 DEF FlagInv
  <2>4. QueueInv'
    BY SMTT(30) DEF QueueInv
  <2>5. FailureDisconnects'
    BY FailFrame DEF IInv, SendInv
  <2>6. QED
    BY <2>1, <2>2, <2>3, <2>4, <2>5 DEF SendInv
<1>9. RecvInv'
  BY RecvFrame DEF IInv, Receiving
<1>10. DiscInv'
  BY DiscFrame DEF IInv
<1>11. Inside(a, After(a))
  BY AfterFacts, ActorFacts, RestingFacts
  DEF Inside, YoungLabels, Cleaning
<1>12. /\ CleanupInv' /\ JobInv' /\ YoungInv' /\ CloserInv' /\ StatInv'
       /\ a \in Workers => (pc'[a] = "idle" <=> pc[a] = "idle")
  BY <1>11, InsideStep
<1>13. CountInv'
  BY <1>12, CountPost DEF Events
<1>14. ShutInv'
  BY ShutEarly
<1>15. QED
  BY <1>6, <1>8, <1>9, <1>10, <1>12, <1>13, <1>14 DEF IInv, PhaseInv

\* WSASend fails: the flag is given back and the session is disconnected.
LEMMA RsPostFailAction ==
    ASSUME IInv, NEW a \in Actors, RsPostFail(a)
    PROVE  IInv'
<1>0. pc[a] = "rsPost" /\ pc[a] \in Posting /\ pc[a] \in Hold /\ pc[a] \in FlagHeld
  BY DEF RsPostFail, At, Posting, Hold, FlagHeld
<1> USE <1>0
<1>1. /\ ioLock = a /\ owner["send"] /\ ~shutdownStarted /\ ~Young
      /\ pc["closer"] = "idle" /\ a # "closer"
      /\ posted["send"] = 0 /\ \A b \in Actors \ {a} : pc[b] \notin Hold
      /\ isConnect => isSendRegister /\ \A b \in Actors \ {a} : pc[b] \notin FlagHeld
  BY PostingFacts
<1>2. /\ isConnect' = isConnect /\ wasConnected' = wasConnected
      /\ isDisconnect' = isDisconnect /\ shutdownStarted' = shutdownStarted
      /\ closeAfterSend' = closeAfterSend /\ isSendRegister' = FALSE
      /\ sent' = sent /\ sendQueue' = sendQueue
      /\ owner' = [owner EXCEPT !["send"] = FALSE] /\ posted' = posted
      /\ pendingIo' = pendingIo
      /\ jobQueue' = jobQueue /\ pendingJobs' = pendingJobs /\ cleanupDone' = cleanupDone
      /\ registered' = registered /\ connects' = connects /\ disconnects' = disconnects
      /\ sendFailed' = TRUE /\ cleanups' = cleanups /\ lateHandlers' = lateHandlers
      /\ Goto(a, "dc")
  BY DEF RsPostFail, IoFinishedAtOnce, FailureEnds, jobVars, world
<1> USE <1>2
<1>3. pc'[a] = "dc" /\ Stay(a) /\ pc' \in [Actors -> Labels] /\ "dc" \in Labels
  <2>1. "dc" \in Labels
    BY DEF Labels
  <2>2. QED
    BY <2>1, GotoFacts DEF IInv
<1> USE <1>3
<1>4. /\ owner' \in [Events -> BOOLEAN]
      /\ owner'["recv"] = owner["recv"] /\ owner'["disc"] = owner["disc"]
  BY DEF IInv, TypeInv, Events
<1>5. TypeInv'
  BY <1>4 DEF IInv, TypeInv
<1>6. /\ "dc" \notin Hold /\ "dc" \notin FlagHeld /\ "dc" \notin Posting
      /\ "dc" \notin Receiving /\ "dc" \notin DiscUse /\ "dc" \notin Ending
  BY DEF Hold, FlagHeld, Posting, Receiving, DiscUse, Ending
<1> USE <1>6
<1>7. SendInv'
  <2>1. ~(posted["send"] > 0)
    BY DEF IInv, SendInv, Token
  <2>2. Token("send", Hold)'
    BY <2>1, TokenFrame DEF IInv, SendInv, Events
  <2>3. PostingInv'
    BY <1>1, PostingFrame DEF IInv, SendInv, Hold
  <2>4. FlagInv'
    BY <2>1, FlagReleased DEF IInv, SendInv
  <2>5. QueueInv'
    BY DEF QueueInv
  <2>6. FailureDisconnects'
    BY DEF FailureDisconnects, At
  <2>7. QED
    BY <2>2, <2>3, <2>4, <2>5, <2>6 DEF SendInv
<1>8. RecvInv'
  BY <1>4, RecvFrame DEF IInv, Receiving
<1>9. DiscInv'
  BY <1>4, DiscFrame DEF IInv
<1>10. Inside(a, "dc")
  BY <1>1 DEF Inside, YoungLabels, Cleaning
<1>11. /\ CleanupInv' /\ JobInv' /\ YoungInv' /\ CloserInv' /\ StatInv'
       /\ a \in Workers => (pc'[a] = "idle" <=> pc[a] = "idle")
  BY <1>1, <1>10, InsideStep
<1>12. CountInv'
  BY <1>11, CountFrame DEF IInv
<1>13. ShutInv'
  BY <1>1, ShutEarly
<1>14. QED
  BY <1>5, <1>7, <1>8, <1>9, <1>11, <1>12, <1>13 DEF IInv, PhaseInv

-----------------------------------------------------------------------------
(* disconnect, register_disconnect and process_disconnect *)

\* One caller of disconnect wins the exchange; the others return.
LEMMA DisconnectAction ==
    ASSUME IInv, NEW a \in Actors, Disconnect(a)
    PROVE  IInv'
<1>1. /\ pc[a] = "dc" /\ isConnect' = FALSE /\ wasConnected' = wasConnected
      /\ isDisconnect' = isDisconnect /\ shutdownStarted' = shutdownStarted
      /\ closeAfterSend' = closeAfterSend /\ isSendRegister' = isSendRegister
      /\ ioLock' = ioLock /\ sendQueue' = sendQueue /\ batch' = batch /\ sent' = sent
      /\ owner' = owner /\ posted' = posted /\ pendingIo' = pendingIo
      /\ jobQueue' = jobQueue /\ pendingJobs' = pendingJobs /\ cleanupDone' = cleanupDone
      /\ registered' = registered /\ connects' = connects /\ disconnects' = disconnects
      /\ sendFailed' = sendFailed /\ cleanups' = cleanups /\ lateHandlers' = lateHandlers
  BY DEF Disconnect, At, locks, sendVars, ioVars, jobVars, world, history
<1> USE <1>1
<1>2. CASE ~isConnect
  <2>1. isConnect' = isConnect
    BY <1>2 DEF IInv, TypeInv
  <2>2. SameAll /\ Goto(a, After(a)) /\ After(a) \in Labels
    BY <1>2, <2>1, AfterFacts DEF Disconnect, Return, SameAll, flags, world
  <2>3. CASE Young
    <3>1. a \in Apps /\ registered # "no"
      BY <2>3 DEF IInv, PhaseInv, YoungInv, Young, YoungLabels
    <3>2. After(a) = "idle"
      BY <3>1, AfterFacts
    <3>3. QED
      BY <2>2, <2>3, <3>1, <3>2, YoungMove
  <2>4. CASE ~Young
    <3>1. Allowed(a, After(a))
      BY <1>2, AfterFacts, ActorFacts, RestingFacts
      DEF Allowed, Inside, Receiving, YoungLabels
    <3>2. QED
      BY <2>2, <2>4, <3>1, PureMove
  <2>5. QED
    BY <2>3, <2>4
<1>3. CASE isConnect
  <2>1. ~Young
    BY <1>3, NotYoung DEF YoungLabels
  <2>2. pc'[a] = "rd" /\ Stay(a) /\ pc' \in [Actors -> Labels] /\ "rd" \in Labels
    <3>1. "rd" \in Labels
      BY DEF Labels
    <3>2. QED
      BY <1>3, <3>1, GotoFacts DEF Disconnect, IInv
  <2> USE <2>2
  <2>3. TypeInv'
    BY DEF IInv, TypeInv
  <2>4. "rd" \notin Hold /\ "rd" \notin Posting /\ "rd" \notin Receiving
    BY DEF Hold, Posting, Receiving
  <2>5. SendInv'
    BY <2>4, SendFrame DEF IInv
  <2>6. RecvInv'
    BY <2>4, RecvFrame DEF IInv
  <2>7. DiscInv'
    <3>1. posted["disc"] = 0 /\ \A b \in Actors : pc[b] \notin DiscUse
      BY <1>3 DEF IInv, DiscInv, EndInv, Ending, DiscUse
    <3>2. Token("disc", DiscUse)'
      BY <3>1, TokenEnter DEF Events
    <3>3. QED
      BY <3>2 DEF DiscInv, EndInv
  <2>8. Inside(a, "rd")
    BY DEF Inside, YoungLabels, Cleaning
  <2>9. /\ CleanupInv' /\ JobInv' /\ YoungInv' /\ CloserInv' /\ StatInv'
        /\ a \in Workers => (pc'[a] = "idle" <=> pc[a] = "idle")
    BY <2>1, <2>8, InsideStep
  <2>10. CountInv'
    BY <2>9, CountFrame DEF IInv
  <2>11. ShutInv'
    BY ShutFrame DEF IInv, PhaseInv
  <2>12. QED
    BY <2>3, <2>5, <2>6, <2>7, <2>9, <2>10, <2>11 DEF IInv, PhaseInv
<1>4. QED
  BY <1>2, <1>3

\* A thread that ends the connection runs in a session that is settled and not
\* connected.
LEMMA EndingFacts ==
    ASSUME IInv, NEW a \in Actors, pc[a] \in Ending
    PROVE  ~isConnect /\ ~Young
<1>1. ~isConnect
  BY DEF IInv, DiscInv, EndInv
<1>2. ~Young
  BY NotYoung DEF Ending, YoungLabels
<1>3. QED
  BY <1>1, <1>2, SMTT(30)

\* DisconnectEx is accepted and the event is the kernel's, or the cleanup is next.
LEMMA RegisterDisconnectAction ==
    ASSUME IInv, NEW a \in Actors, RegisterDisconnect(a)
    PROVE  IInv'
<1>1. pc[a] = "rd" /\ pc[a] \in Ending /\ pc[a] \in DiscUse
  BY DEF RegisterDisconnect, At, Ending, DiscUse
<1> USE <1>1
<1>2. ~isConnect /\ ~Young
  BY EndingFacts
<1> USE <1>2
<1>3. /\ isConnect' = isConnect /\ wasConnected' = wasConnected
      /\ isDisconnect' = isDisconnect /\ shutdownStarted' = shutdownStarted
      /\ closeAfterSend' = closeAfterSend /\ isSendRegister' = isSendRegister
      /\ ioLock' = ioLock /\ sendQueue' = sendQueue /\ batch' = batch /\ sent' = sent
      /\ jobQueue' = jobQueue /\ pendingJobs' = pendingJobs /\ cleanupDone' = cleanupDone
      /\ registered' = registered /\ connects' = connects /\ disconnects' = disconnects
      /\ sendFailed' = sendFailed /\ cleanups' = cleanups /\ lateHandlers' = lateHandlers
  BY DEF RegisterDisconnect, flags, locks, sendVars, jobVars, world, history
<1> USE <1>3
<1>4. CASE ~shutdownStarted /\ owner' = [owner EXCEPT !["disc"] = TRUE]
             /\ posted' = [posted EXCEPT !["disc"] = @ + 1]
             /\ pendingIo' = pendingIo + 1 /\ Return(a)
  <2>1. /\ pc'[a] = After(a) /\ Stay(a) /\ pc' \in [Actors -> Labels]
        /\ After(a) \in Labels /\ After(a) \in Resting
    BY <1>4, GotoFacts, AfterFacts DEF IInv, Return
  <2> USE <2>1
  <2>2. /\ posted' \in [Events -> Nat] /\ posted'["disc"] = posted["disc"] + 1
        /\ posted'["recv"] = posted["recv"] /\ posted'["send"] = posted["send"]
        /\ pendingIo' \in Int
    BY <1>4, SMTT(30) DEF IInv, TypeInv, Events
  <2>3. /\ owner' \in [Events -> BOOLEAN] /\ owner'["disc"]
        /\ owner'["recv"] = owner["recv"] /\ owner'["send"] = owner["send"]
    BY <1>4 DEF IInv, TypeInv, Events
  <2>4. TypeInv'
    BY <2>2, <2>3 DEF IInv, TypeInv
  <2>5. /\ After(a) \notin Hold /\ After(a) \notin FlagHeld /\ After(a) \notin Posting
        /\ After(a) \notin Receiving /\ After(a) \notin DiscUse /\ After(a) \notin Ending
    BY RestingFacts
  <2>6. SendInv'
    BY <2>2, <2>3, <2>5, SendFrame DEF IInv
  <2>7. RecvInv'
    BY <2>2, <2>3, <2>5, RecvFrame DEF IInv
  <2>8. DiscInv'
    <3>1. Token("disc", DiscUse)'
      BY <2>2, <2>3, <2>5, TokenPost DEF IInv, DiscInv, Events
    <3>2. QED
      BY <3>1 DEF DiscInv, EndInv
  <2>9. Inside(a, After(a))
    BY AfterFacts, ActorFacts, RestingFacts DEF Inside, YoungLabels
  <2>10. /\ CleanupInv' /\ JobInv' /\ YoungInv' /\ CloserInv' /\ StatInv'
         /\ a \in Workers => (pc'[a] = "idle" <=> pc[a] = "idle")
    BY <2>9, InsideStep
  <2>11. CountInv'
    BY <1>4, <2>10, CountPost DEF Events
  <2>12. pc["closer"] = "idle" /\ a # "closer"
    BY <1>4 DEF IInv, PhaseInv, CloserInv
  <2>13. ShutInv'
    BY <2>12, ShutEarly
  <2>14. QED
    BY <2>4, <2>6, <2>7, <2>8, <2>10, <2>11, <2>13 DEF IInv, PhaseInv
<1>5. CASE Goto(a, "pd") /\ UNCHANGED <<owner, posted, pendingIo>>
  <2>1. SameAll
    BY <1>5 DEF SameAll, flags, world
  <2>2. Allowed(a, "pd") /\ "pd" \in Labels
    BY DEF Allowed, Inside, Posting, Hold, FlagHeld, Receiving, DiscUse, Cleaning,
        YoungLabels, Labels
  <2>3. QED
    BY <1>5, <2>1, <2>2, PureMove
<1>6. QED
  BY <1>4, <1>5 DEF RegisterDisconnect, CleanupAtOnce

\* The first caller of process_disconnect gets the cleanup.
LEMMA ProcessDisconnectAction ==
    ASSUME IInv, NEW a \in Actors, ProcessDisconnect(a)
    PROVE  IInv'
<1>1. pc[a] = "pd" /\ pc[a] \in Ending
  BY DEF ProcessDisconnect, At, Ending
<1> USE <1>1
<1>2. ~isConnect /\ ~Young
  BY EndingFacts
<1> USE <1>2
<1>3. /\ isConnect' = isConnect /\ wasConnected' = wasConnected
      /\ isDisconnect' = TRUE /\ shutdownStarted' = shutdownStarted
      /\ closeAfterSend' = closeAfterSend /\ isSendRegister' = isSendRegister
      /\ ioLock' = ioLock /\ sendQueue' = sendQueue /\ batch' = batch /\ sent' = sent
      /\ owner' = owner /\ posted' = posted /\ pendingIo' = pendingIo
      /\ jobQueue' = jobQueue /\ pendingJobs' = pendingJobs /\ cleanupDone' = cleanupDone
      /\ registered' = registered /\ connects' = connects /\ disconnects' = disconnects
      /\ sendFailed' = sendFailed /\ cleanups' = cleanups /\ lateHandlers' = lateHandlers
  BY DEF ProcessDisconnect, locks, sendVars, ioVars, jobVars, world, history
<1> USE <1>3
<1>4. CASE isDisconnect
  <2>1. isDisconnect' = isDisconnect
    BY <1>4 DEF IInv, TypeInv
  <2>2. SameAll /\ Goto(a, After(a)) /\ After(a) \in Labels
    BY <1>4, <2>1, AfterFacts DEF ProcessDisconnect, FirstCleans, SameAll, flags, world
  <2>3. Allowed(a, After(a))
    BY AfterFacts, ActorFacts, RestingFacts
    DEF Allowed, Inside, YoungLabels
  <2>4. QED
    BY <2>2, <2>3, PureMove
<1>5. CASE ~isDisconnect
  <2>1. pc'[a] = "pdClear" /\ Stay(a) /\ pc' \in [Actors -> Labels]
    <3>1. "pdClear" \in Labels
      BY DEF Labels
    <3>2. QED
      BY <1>5, <3>1, GotoFacts DEF ProcessDisconnect, FirstCleans, IInv
  <2> USE <2>1
  <2>2. TypeInv'
    BY DEF IInv, TypeInv
  <2>3. "pdClear" \notin Hold /\ "pdClear" \notin Posting /\ "pdClear" \notin Receiving
        /\ "pdClear" \notin DiscUse
    BY DEF Hold, Posting, Receiving, DiscUse
  <2>4. SendInv'
    BY <2>3, SendFrame DEF IInv
  <2>5. RecvInv'
    BY <2>3, RecvFrame DEF IInv
  <2>6. DiscInv'
    BY <2>3, DiscFrame DEF IInv
  <2>7. CleanupInv'
    <3>1. /\ \A b \in Actors : pc[b] \notin Cleaning
          /\ \A i \in Nat : ~CleanupAt(i)
          /\ pc["logic"] # "cleanup" /\ cleanups = 0
      BY <1>5 DEF IInv, CleanupInv
    <3>2. /\ \A b, c \in Actors : pc'[b] \in Cleaning /\ pc'[c] \in Cleaning => b = c
          /\ pc'["logic"] # "cleanup"
          /\ pc'["logic"] = "cleanupDone" => pc["logic"] = "cleanupDone"
      BY <3>1, ActorFacts DEF Stay
    <3>3. \A i \in Nat : ~CleanupAt(i)'
      BY <3>1 DEF CleanupAt
    <3>4. /\ cleanups' = 0 /\ cleanups' <= 1 /\ lateHandlers' = 0
          /\ pc'["logic"] = "cleanupDone" \/ cleanupDone' => cleanups' > 0
      BY <3>1, <3>2 DEF IInv, CleanupInv
    <3>5. QED
      BY <3>2, <3>3, <3>4 DEF CleanupInv
  <2>8. JobInv'
    BY JobFrame DEF IInv
  <2>9. CountInv'
    BY CountFrame DEF IInv
  <2>10. YoungInv'
    BY YoungFrame DEF IInv, PhaseInv, YoungLabels
  <2>11. CloserInv'
    BY CloserFrame DEF IInv, PhaseInv
  <2>12. ShutInv'
    BY ShutFrame DEF IInv, PhaseInv
  <2>13. StatInv'
    BY StatFrame DEF IInv, PhaseInv
  <2>14. QED
    BY <2>2, <2>4, <2>5, <2>6, <2>7, <2>8, <2>9, <2>10, <2>11, <2>12, <2>13
    DEF IInv, PhaseInv
<1>6. QED
  BY <1>4, <1>5

\* process_disconnect resets the flags of a session that is not connected.
LEMMA PdClearAction ==
    ASSUME IInv, NEW a \in Actors, PdClear(a)
    PROVE  IInv'
<1>1. pc[a] = "pdClear" /\ pc[a] \in Ending /\ pc[a] \in Cleaning
  BY DEF PdClear, At, Ending, Cleaning
<1> USE <1>1
<1>2. ~isConnect /\ ~Young
  BY EndingFacts
<1>3. /\ isConnect' = FALSE /\ wasConnected' = wasConnected
      /\ isDisconnect' = isDisconnect /\ shutdownStarted' = shutdownStarted
      /\ closeAfterSend' = closeAfterSend /\ isSendRegister' = FALSE
      /\ ioLock' = ioLock /\ sendQueue' = sendQueue /\ batch' = batch /\ sent' = sent
      /\ owner' = owner /\ posted' = posted /\ pendingIo' = pendingIo
      /\ jobQueue' = jobQueue /\ pendingJobs' = pendingJobs /\ cleanupDone' = cleanupDone
      /\ registered' = registered /\ connects' = connects /\ disconnects' = disconnects
      /\ sendFailed' = sendFailed /\ cleanups' = cleanups /\ lateHandlers' = lateHandlers
  BY DEF PdClear, OwnerKept, locks, sendVars, jobVars, world, history
<1> USE <1>3
<1>4. pc'[a] = "pdQueue" /\ Stay(a) /\ pc' \in [Actors -> Labels]
  <2>1. "pdQueue" \in Labels
    BY DEF Labels
  <2>2. QED
    BY <2>1, GotoFacts DEF PdClear, IInv
<1> USE <1>4
<1>5. TypeInv'
  BY DEF IInv, TypeInv
<1>6. "pdQueue" \notin Hold /\ "pdQueue" \notin Posting /\ "pdQueue" \notin Receiving
      /\ "pdQueue" \notin DiscUse
  BY DEF Hold, Posting, Receiving, DiscUse
<1>7. SendInv'
  BY <1>6, SendFrame DEF IInv
<1>8. RecvInv'
  BY <1>6, RecvFrame DEF IInv
<1>9. DiscInv'
  BY <1>6, DiscFrame DEF IInv
<1>10. CleanupInv'
  BY CleanupFrame DEF IInv
<1>11. JobInv'
  BY JobFrame DEF IInv
<1>12. CountInv'
  BY CountFrame DEF IInv
<1>13. YoungInv'
  BY <1>2, YoungFrame DEF IInv, PhaseInv, YoungLabels
<1>14. CloserInv'
  BY CloserFrame DEF IInv, PhaseInv
<1>15. ShutInv'
  BY ShutFrame DEF IInv, PhaseInv
<1>16. StatInv'
  BY StatFrame DEF IInv, PhaseInv
<1>17. QED
  BY <1>5, <1>7, <1>8, <1>9, <1>10, <1>11, <1>12, <1>13, <1>14, <1>15, <1>16
  DEF IInv, PhaseInv

\* A job at the end of the queue.
LEMMA AppendFacts ==
    ASSUME TypeInv, NEW job \in {"packet", "cleanup"}, jobQueue' = Append(jobQueue, job)
    PROVE  /\ jobQueue' \in Seq({"packet", "cleanup"})
           /\ Len(jobQueue) \in Nat /\ Len(jobQueue') = Len(jobQueue) + 1
           /\ \A i \in Nat : CleanupAt(i)' =>
                  CleanupAt(i) \/ (i = Len(jobQueue) + 1 /\ job = "cleanup")
<1>1. jobQueue \in Seq({"packet", "cleanup"}) /\ Len(jobQueue) \in Nat
  BY SMTT(30) DEF TypeInv
<1> USE <1>1
<1>2. Len(jobQueue') = Len(jobQueue) + 1 /\ jobQueue' \in Seq({"packet", "cleanup"})
  BY SMTT(30)
<1>3. ASSUME NEW i \in Nat, CleanupAt(i)'
      PROVE  CleanupAt(i) \/ (i = Len(jobQueue) + 1 /\ job = "cleanup")
  <2>1. i \in 1..(Len(jobQueue) + 1) /\ jobQueue'[i] = "cleanup"
    BY <1>2, <1>3 DEF CleanupAt
  <2>2. CASE i \in 1..Len(jobQueue)
    BY <2>1, <2>2, SMTT(30) DEF CleanupAt
  <2>3. CASE i = Len(jobQueue) + 1
    BY <2>1, <2>3, SMTT(30)
  <2>4. QED
    BY <2>1, <2>2, <2>3, SMTT(30)
<1>4. QED
  BY <1>2, <1>3

\* The cleanup job is queued, once.
LEMMA PdQueueAction ==
    ASSUME IInv, NEW a \in Actors, PdQueue(a)
    PROVE  IInv'
<1>1. pc[a] = "pdQueue" /\ pc[a] \in Ending /\ pc[a] \in Cleaning
  BY DEF PdQueue, At, Ending, Cleaning
<1> USE <1>1
<1>2. ~isConnect /\ ~Young
  BY EndingFacts
<1> USE <1>2
<1>3. /\ isConnect' = isConnect /\ wasConnected' = wasConnected
      /\ isDisconnect' = isDisconnect /\ shutdownStarted' = shutdownStarted
      /\ closeAfterSend' = closeAfterSend /\ isSendRegister' = isSendRegister
      /\ ioLock' = ioLock /\ sendQueue' = sendQueue /\ batch' = batch /\ sent' = sent
      /\ owner' = owner /\ posted' = posted /\ pendingIo' = pendingIo
      /\ jobQueue' = Append(jobQueue, "cleanup") /\ pendingJobs' = pendingJobs + 1
      /\ cleanupDone' = cleanupDone
      /\ registered' = registered /\ connects' = connects /\ disconnects' = disconnects
      /\ sendFailed' = sendFailed /\ cleanups' = cleanups /\ lateHandlers' = lateHandlers
  BY DEF PdQueue, QueueLogic, flags, locks, sendVars, ioVars, world, history
<1> USE <1>3
<1>4. /\ pc'[a] = After(a) /\ Stay(a) /\ pc' \in [Actors -> Labels]
      /\ After(a) \in Labels /\ After(a) \in Resting
  BY GotoFacts, AfterFacts DEF PdQueue, Return, IInv
<1> USE <1>4
<1>5. /\ jobQueue' \in Seq({"packet", "cleanup"})
      /\ Len(jobQueue) \in Nat /\ Len(jobQueue') = Len(jobQueue) + 1
      /\ \A i \in Nat : CleanupAt(i)' => CleanupAt(i) \/ i = Len(jobQueue) + 1
  BY AppendFacts DEF IInv
<1>6. pendingJobs' \in Int
  BY SMTT(30) DEF IInv, TypeInv
<1>7. TypeInv'
  BY <1>5, <1>6 DEF IInv, TypeInv
<1>8. /\ After(a) \notin Hold /\ After(a) \notin FlagHeld /\ After(a) \notin Posting
      /\ After(a) \notin Receiving /\ After(a) \notin DiscUse /\ After(a) \notin Ending
      /\ After(a) \notin Cleaning /\ After(a) \notin YoungLabels
      /\ After(a) \notin {"cleanup", "cleanupDone", "bsClose", "waitJobs", "clear", "closed"}
  BY RestingFacts
<1> USE <1>8
<1>9. SendInv'
  BY SendFrame DEF IInv
<1>10. RecvInv'
  BY RecvFrame DEF IInv
<1>11. DiscInv'
  BY DiscFrame DEF IInv
<1>12. /\ \A i \in Nat : ~CleanupAt(i)
       /\ pc["logic"] # "cleanup" /\ cleanups = 0 /\ ~cleanupDone
       /\ isDisconnect
       /\ \A b \in Actors \ {a} : pc[b] \notin Cleaning
  <2>1. /\ \A i \in Nat : ~CleanupAt(i)
        /\ pc["logic"] # "cleanup" /\ cleanups = 0 /\ isDisconnect
        /\ \A b \in Actors \ {a} : pc[b] \notin Cleaning
        /\ cleanupDone => cleanups > 0
    BY DEF IInv, CleanupInv
  <2>2. ~(0 > 0)
    BY SMTT(30)
  <2>3. QED
    BY <2>1, <2>2
<1> USE <1>12
<1>13. CleanupInv'
  <2>1. \A b \in Actors : pc'[b] \notin Cleaning
    BY DEF Stay
  <2>2. /\ pc'["logic"] # "cleanup"
        /\ pc'["logic"] = "cleanupDone" => pc["logic"] = "cleanupDone"
    BY ActorFacts DEF Stay
  <2>3. \A i, j \in Nat : CleanupAt(i)' /\ CleanupAt(j)' => i = j
    BY <1>5
  <2>4. /\ cleanups' = 0 /\ cleanups' <= 1 /\ lateHandlers' = 0
        /\ pc'["logic"] = "cleanupDone" \/ cleanupDone' => cleanups' > 0
    BY <2>2 DEF IInv, CleanupInv
  <2>5. QED
    BY <2>1, <2>2, <2>3, <2>4 DEF CleanupInv
<1>14. JobInv'
  <2>1. pc'["logic"] = "idle" <=> pc["logic"] = "idle"
    <3>1. a = "logic" => After(a) = "jobEnd"
      BY AfterFacts
    <3>2. QED
      BY <3>1, ActorFacts DEF Stay
  <2>2. pendingJobs = Len(jobQueue) + IF pc["logic"] = "idle" THEN 0 ELSE 1
    BY DEF IInv, JobInv
  <2>3. QED
    BY <1>5, <2>1, <2>2, SMTT(30) DEF JobInv
<1>15. CountInv'
  <2>1. a \in Workers => After(a) # "idle"
    BY AfterFacts
  <2>2. QED
    BY <2>1, CountFrame DEF IInv
<1>16. YoungInv'
  <2>1. (a = "acceptor" => After(a) = "done") /\ (a = "closer" => After(a) = "waitIo")
    BY AfterFacts
  <2>2. QED
    BY <2>1, YoungFrame DEF IInv, PhaseInv
<1>17. CloserInv'
  <2>1. a = "closer" => After(a) = "waitIo"
    BY AfterFacts
  <2>2. QED
    BY <2>1, CloserFrame DEF IInv, PhaseInv
<1>18. ShutInv'
  <2>1. pc["closer"] \notin {"clear", "closed"}
    BY DEF IInv, PhaseInv, ShutInv
  <2>2. pc'["closer"] \in {"waitJobs", "clear", "closed"} => pc'["closer"] = pc["closer"]
    BY ActorFacts DEF Stay
  <2>3. QED
    BY <2>1, <2>2 DEF IInv, PhaseInv, ShutInv
<1>19. StatInv'
  <2>1. a = "acceptor" => After(a) = "done"
    BY AfterFacts
  <2>2. QED
    BY <2>1, StatFrame DEF IInv, PhaseInv
<1>20. QED
  BY <1>7, <1>9, <1>10, <1>11, <1>13, <1>14, <1>15, <1>16, <1>17, <1>18, <1>19
  DEF IInv, PhaseInv

-----------------------------------------------------------------------------
(* Completions *)

\* The event the kernel returns has its owner, so a worker enters the callback.
LEMMA TakeFacts ==
    ASSUME IInv, NEW e \in Events, NEW L, Token(e, L), NEW h, Complete(e, h)
    PROVE  /\ posted[e] > 0 /\ ~Young /\ \A a \in Actors : pc[a] \notin L
           /\ posted' = [posted EXCEPT ![e] = @ - 1]
           /\ \E w \in Workers : EventOf(w) = e /\ pc[w] = "idle" /\ Goto(w, h)
<1>1. posted[e] > 0 /\ owner[e] /\ \A a \in Actors : pc[a] \notin L
  BY DEF Complete, Token
<1>2. ~Young
  <2>1. posted[e] # 0
    BY <1>1, SMTT(30)
  <2>2. QED
    BY <2>1 DEF IInv, PhaseInv, YoungInv
<1>3. \E w \in Workers : EventOf(w) = e /\ pc[w] = "idle" /\ Goto(w, h)
  BY <1>1 DEF Complete, MayTake, At
<1>4. QED
  BY <1>1, <1>2, <1>3 DEF Complete

\* A worker that enters a callback touches neither the jobs nor the phase.
LEMMA TakeStep ==
    ASSUME IInv, NEW w \in Workers, NEW e \in Events, Stay(w), ~Young,
           pc[w] = "idle", pc'[w] # "idle", pc'[w] \notin Cleaning,
           posted' = [posted EXCEPT ![e] = @ - 1],
           UNCHANGED <<isConnect, isDisconnect, wasConnected, shutdownStarted, ioLock,
                       sendQueue, batch, pendingIo, jobQueue, pendingJobs, cleanupDone,
                       registered, connects, disconnects, cleanups, lateHandlers>>,
           TypeInv', SendInv', RecvInv', DiscInv'
    PROVE  IInv'
<1>1. w \in Actors /\ w # "logic" /\ w # "closer" /\ w # "acceptor"
  BY ActorFacts
<1> USE <1>1
<1>2. CleanupInv'
  BY CleanupFrame DEF IInv
<1>3. JobInv'
  BY JobFrame DEF IInv
<1>4. CountInv'
  BY CountTake
<1>5. YoungInv'
  BY YoungFrame DEF IInv, PhaseInv
<1>6. CloserInv'
  BY CloserFrame DEF IInv, PhaseInv
<1>7. ShutInv'
  BY ShutFrame DEF IInv, PhaseInv
<1>8. StatInv'
  BY StatFrame DEF IInv, PhaseInv
<1>9. QED
  BY <1>2, <1>3, <1>4, <1>5, <1>6, <1>7, <1>8 DEF IInv, PhaseInv

\* One request less of event e, and none of another event.
LEMMA PostedFacts ==
    ASSUME TypeInv, NEW e \in Events, posted[e] > 0, posted' = [posted EXCEPT ![e] = @ - 1]
    PROVE  /\ posted' \in [Events -> Nat] /\ posted'[e] = posted[e] - 1
           /\ \A d \in Events : d # e => posted'[d] = posted[d]
<1>1. posted \in [Events -> Nat] /\ posted[e] \in Nat
  BY DEF TypeInv
<1>2. posted[e] - 1 \in Nat
  BY <1>1, SMTT(30)
<1>3. QED
  BY <1>1, <1>2

\* A receive completes, with data or without.
LEMMA CompleteRecvAction ==
    ASSUME IInv, NEW h \in {"prData", "prZero"}, CompleteRecv(h)
    PROVE  IInv'
<1>1. /\ isConnect' = isConnect /\ wasConnected' = wasConnected
      /\ isDisconnect' = isDisconnect /\ shutdownStarted' = shutdownStarted
      /\ closeAfterSend' = closeAfterSend /\ isSendRegister' = isSendRegister
      /\ ioLock' = ioLock /\ sendQueue' = sendQueue /\ batch' = batch /\ sent' = sent
      /\ owner' = owner /\ pendingIo' = pendingIo
      /\ jobQueue' = jobQueue /\ pendingJobs' = pendingJobs /\ cleanupDone' = cleanupDone
      /\ registered' = registered /\ connects' = connects /\ disconnects' = disconnects
      /\ sendFailed' = sendFailed /\ cleanups' = cleanups /\ lateHandlers' = lateHandlers
      /\ Complete("recv", h)
  BY DEF CompleteRecv, flags, locks, sendVars, jobVars, world, history
<1> USE <1>1
<1>2. "recv" \in Events /\ Token("recv", Receiving)
  BY DEF Events, IInv, RecvInv
<1> USE <1>2
<1>3. /\ posted["recv"] > 0 /\ ~Young /\ \A b \in Actors : pc[b] \notin Receiving
      /\ posted' = [posted EXCEPT !["recv"] = @ - 1]
  BY TakeFacts
<1>4. PICK w \in Workers : EventOf(w) = "recv" /\ pc[w] = "idle" /\ Goto(w, h)
  BY TakeFacts
<1>5. w \in Actors /\ h \in Labels
  BY ActorFacts DEF Labels
<1>6. pc'[w] = h /\ Stay(w) /\ pc' \in [Actors -> Labels]
  BY <1>4, <1>5, GotoFacts DEF IInv
<1> USE <1>6
<1>7. /\ posted' \in [Events -> Nat] /\ posted'["recv"] = posted["recv"] - 1
      /\ posted'["send"] = posted["send"] /\ posted'["disc"] = posted["disc"]
  BY <1>3, PostedFacts DEF IInv, Events
<1>8. TypeInv'
  BY <1>7 DEF IInv, TypeInv
<1>9. /\ h \notin FlagHeld /\ h \notin Hold /\ h \notin Posting /\ h \notin Cleaning
      /\ h \notin Ending /\ h \notin DiscUse /\ h # "idle"
      /\ "idle" \notin FlagHeld
  BY DEF FlagHeld, Hold, Posting, Cleaning, Ending, DiscUse
<1>10. SendInv'
  BY <1>4, <1>5, <1>7, <1>9, SendFrame DEF IInv
<1>11. RecvInv'
  <2>1. Token("recv", Receiving)'
    BY <1>3, <1>5, <1>7, TokenTake DEF IInv
  <2>2. RecvArmed'
    BY <1>4 DEF RecvArmed
  <2>3. QED
    BY <2>1, <2>2 DEF RecvInv
<1>12. DiscInv'
  BY <1>5, <1>7, <1>9, DiscFrame DEF IInv
<1>13. QED
  BY <1>3, <1>4, <1>8, <1>9, <1>10, <1>11, <1>12, TakeStep

\* A send completes: the callback takes over the event and the flag.
LEMMA CompleteSendAction ==
    ASSUME IInv, NEW n \in Nat, CompleteSend(n)
    PROVE  IInv'
<1>1. /\ isConnect' = isConnect /\ wasConnected' = wasConnected
      /\ isDisconnect' = isDisconnect /\ shutdownStarted' = shutdownStarted
      /\ closeAfterSend' = closeAfterSend /\ isSendRegister' = isSendRegister
      /\ ioLock' = ioLock /\ sendQueue' = sendQueue /\ batch' = batch /\ sent' = n
      /\ owner' = owner /\ pendingIo' = pendingIo
      /\ jobQueue' = jobQueue /\ pendingJobs' = pendingJobs /\ cleanupDone' = cleanupDone
      /\ registered' = registered /\ connects' = connects /\ disconnects' = disconnects
      /\ sendFailed' = (sendFailed \/ n = 0)
      /\ cleanups' = cleanups /\ lateHandlers' = lateHandlers
      /\ Complete("send", "ps")
  BY DEF CompleteSend, flags, locks, jobVars, world
<1> USE <1>1
<1>2. "send" \in Events /\ Token("send", Hold)
  BY DEF Events, IInv, SendInv
<1> USE <1>2
<1>3. /\ posted["send"] > 0 /\ ~Young /\ \A b \in Actors : pc[b] \notin Hold
      /\ posted' = [posted EXCEPT !["send"] = @ - 1]
  BY TakeFacts
<1> USE <1>3
<1>4. PICK w \in Workers : pc[w] = "idle" /\ Goto(w, "ps")
  BY TakeFacts
<1>5. w \in Actors /\ "ps" \in Labels
  BY ActorFacts DEF Labels
<1> USE <1>5
<1>6. pc'[w] = "ps" /\ Stay(w) /\ pc' \in [Actors -> Labels]
  BY <1>4, GotoFacts DEF IInv
<1> USE <1>6
<1>7. /\ posted' \in [Events -> Nat] /\ posted'["send"] = posted["send"] - 1
      /\ posted'["recv"] = posted["recv"] /\ posted'["disc"] = posted["disc"]
  BY PostedFacts DEF IInv, Events
<1>8. sendFailed' \in BOOLEAN
  OBVIOUS
<1>9. TypeInv'
  BY <1>7, <1>8 DEF IInv, TypeInv
<1>10. /\ "ps" \in FlagHeld /\ "ps" \notin Posting /\ "ps" \notin Cleaning /\ "ps" \notin Receiving
       /\ "ps" \notin Ending /\ "ps" \notin DiscUse
       /\ "ps" \in Hold /\ "idle" \notin Receiving
  BY DEF FlagHeld, Hold, Posting, Cleaning, Ending, DiscUse, Receiving
<1> USE <1>10
<1>11. SendInv'
  <2>1. Token("send", Hold)' /\ posted'["send"] = 0
    BY <1>7, TokenTake DEF IInv
  <2>2. PostingInv'
    BY PostingFrame DEF IInv, SendInv
  <2>3. FlagInv'
    <3>1. ~(posted'["send"] > 0)
      BY <2>1, SMTT(30)
    <3>2. SUFFICES ASSUME isConnect'
                   PROVE  /\ isSendRegister'
                          /\ \A a \in Actors : pc'[a] \in FlagHeld => a = w
      BY <3>1 DEF FlagInv
    <3>3. isSendRegister /\ \A a \in Actors : pc[a] \notin FlagHeld
      BY <3>2 DEF IInv, SendInv, FlagInv
    <3>4. isSendRegister'
      BY <3>3, SMTT(30)
    <3>5. QED
      BY <3>3, <3>4 DEF Stay
  <2>4. QueueInv'
    BY <1>4, QueueFrame, SMTT(30) DEF IInv, SendInv
  <2>5. FailureDisconnects'
    <3>1. SUFFICES ASSUME sendFailed', isConnect', n # 0
                   PROVE  \E a \in Actors : pc'[a] = "dc"
      BY DEF FailureDisconnects, At
    <3>2. sendFailed /\ isConnect
      BY <3>1
    <3>3. \E a \in Actors : pc[a] = "dc"
      BY <3>2 DEF IInv, SendInv, FailureDisconnects, At, Hold
    <3>4. QED
      BY <1>4, <3>3 DEF Stay
  <2>6. QED
    BY <2>1, <2>2, <2>3, <2>4, <2>5 DEF SendInv
<1>12. RecvInv'
  BY <1>4, <1>7, RecvFrame DEF IInv
<1>13. DiscInv'
  BY <1>7, DiscFrame DEF IInv
<1>14. QED
  BY <1>4, <1>9, <1>11, <1>12, <1>13, TakeStep

\* DisconnectEx completes.
LEMMA CompleteDiscAction ==
    ASSUME IInv, CompleteDisc
    PROVE  IInv'
<1>1. /\ isConnect' = isConnect /\ wasConnected' = wasConnected
      /\ isDisconnect' = isDisconnect /\ shutdownStarted' = shutdownStarted
      /\ closeAfterSend' = closeAfterSend /\ isSendRegister' = isSendRegister
      /\ ioLock' = ioLock /\ sendQueue' = sendQueue /\ batch' = batch /\ sent' = sent
      /\ owner' = owner /\ pendingIo' = pendingIo
      /\ jobQueue' = jobQueue /\ pendingJobs' = pendingJobs /\ cleanupDone' = cleanupDone
      /\ registered' = registered /\ connects' = connects /\ disconnects' = disconnects
      /\ sendFailed' = sendFailed /\ cleanups' = cleanups /\ lateHandlers' = lateHandlers
      /\ Complete("disc", "discDone")
  BY DEF CompleteDisc, flags, locks, sendVars, jobVars, world, history
<1> USE <1>1
<1>2. "disc" \in Events /\ Token("disc", DiscUse)
  BY DEF Events, IInv, DiscInv
<1> USE <1>2
<1>3. /\ posted["disc"] > 0 /\ ~Young
      /\ posted' = [posted EXCEPT !["disc"] = @ - 1]
  BY TakeFacts
<1>4. PICK w \in Workers : pc[w] = "idle" /\ Goto(w, "discDone")
  BY TakeFacts
<1>5. w \in Actors /\ "discDone" \in Labels
  BY ActorFacts DEF Labels
<1>6. pc'[w] = "discDone" /\ Stay(w) /\ pc' \in [Actors -> Labels]
  BY <1>4, <1>5, GotoFacts DEF IInv
<1> USE <1>6
<1>7. /\ posted' \in [Events -> Nat] /\ posted'["disc"] = posted["disc"] - 1
      /\ posted'["recv"] = posted["recv"] /\ posted'["send"] = posted["send"]
  BY <1>3, PostedFacts DEF IInv, Events
<1>8. TypeInv'
  BY <1>7 DEF IInv, TypeInv
<1>9. /\ "discDone" \notin FlagHeld /\ "discDone" \notin Hold /\ "discDone" \notin Posting
      /\ "discDone" \notin Cleaning /\ "discDone" \notin Receiving
      /\ "idle" \notin FlagHeld /\ "idle" \notin Receiving
  BY DEF FlagHeld, Hold, Posting, Cleaning, Receiving
<1>10. SendInv'
  BY <1>4, <1>5, <1>7, <1>9, SendFrame DEF IInv
<1>11. RecvInv'
  BY <1>4, <1>5, <1>7, <1>9, RecvFrame DEF IInv
<1>12. DiscInv'
  <2>1. Token("disc", DiscUse)'
    BY <1>3, <1>5, <1>7, TokenTake DEF IInv
  <2>2. ~isConnect
    <3>1. posted["disc"] # 0
      BY <1>3, SMTT(30)
    <3>2. QED
      BY <3>1 DEF IInv, DiscInv, EndInv
  <2>3. QED
    BY <2>1, <2>2 DEF DiscInv, EndInv
<1>13. QED
  BY <1>3, <1>4, <1>8, <1>9, <1>10, <1>11, <1>12, TakeStep

\* The owner of the disconnect event is released and the cleanup is next.
LEMMA DiscDoneAction ==
    ASSUME IInv, DiscDone
    PROVE  IInv'
<1>1. /\ "disc" \in Actors /\ "disc" \in Workers /\ "disc" \notin Apps
      /\ pc["disc"] = "discDone" /\ pc["disc"] \in Ending /\ pc["disc"] \in DiscUse
  BY ActorFacts DEF DiscDone, At, Ending, DiscUse, Events
<1> USE <1>1
<1>2. ~isConnect /\ ~Young
  BY EndingFacts
<1>3. /\ isConnect' = isConnect /\ wasConnected' = wasConnected
      /\ isDisconnect' = isDisconnect /\ shutdownStarted' = shutdownStarted
      /\ closeAfterSend' = closeAfterSend /\ isSendRegister' = isSendRegister
      /\ ioLock' = ioLock /\ sendQueue' = sendQueue /\ batch' = batch /\ sent' = sent
      /\ posted' = posted /\ pendingIo' = pendingIo
      /\ jobQueue' = jobQueue /\ pendingJobs' = pendingJobs /\ cleanupDone' = cleanupDone
      /\ registered' = registered /\ connects' = connects /\ disconnects' = disconnects
      /\ sendFailed' = sendFailed /\ cleanups' = cleanups /\ lateHandlers' = lateHandlers
  BY DEF DiscDone, flags, locks, sendVars, jobVars, world, history
<1> USE <1>3
<1>4. /\ owner' \in [Events -> BOOLEAN]
      /\ owner'["recv"] = owner["recv"] /\ owner'["send"] = owner["send"]
  BY DEF DiscDone, IInv, TypeInv, Events
<1>5. pc'["disc"] = "pd" /\ Stay("disc") /\ pc' \in [Actors -> Labels] /\ "pd" \in Labels
  <2>1. "pd" \in Labels
    BY DEF Labels
  <2>2. QED
    BY <2>1, GotoFacts DEF DiscDone, IInv
<1> USE <1>5
<1>6. TypeInv'
  BY <1>4 DEF IInv, TypeInv
<1>7. "pd" \notin Hold /\ "pd" \notin Posting /\ "pd" \notin Receiving /\ "pd" \notin DiscUse
  BY DEF Hold, Posting, Receiving, DiscUse
<1>8. SendInv'
  BY <1>2, <1>4, <1>7, SendFrame DEF IInv
<1>9. RecvInv'
  BY <1>2, <1>4, <1>7, RecvFrame DEF IInv
<1>10. DiscInv'
  <2>1. ~(posted["disc"] > 0)
    BY DEF IInv, DiscInv, Token
  <2>2. Token("disc", DiscUse)'
    BY <1>7, <2>1, TokenFrame DEF IInv, DiscInv, Events
  <2>3. QED
    BY <1>2, <2>2 DEF DiscInv, EndInv
<1>11. Inside("disc", "pd")
  BY ActorFacts DEF Inside, YoungLabels, Cleaning
<1>12. /\ CleanupInv' /\ JobInv' /\ YoungInv' /\ CloserInv' /\ StatInv'
       /\ "disc" \in Workers => (pc'["disc"] = "idle" <=> pc["disc"] = "idle")
  BY <1>2, <1>11, InsideStep
<1>13. CountInv'
  BY <1>12, CountFrame DEF IInv
<1>14. ShutInv'
  BY ShutFrame DEF IInv, PhaseInv
<1>15. QED
  BY <1>6, <1>8, <1>9, <1>10, <1>12, <1>13, <1>14 DEF IInv, PhaseInv

\* While a worker is in a callback the shutdown waits.
LEMMA BusyFacts ==
    ASSUME IInv, NEW w \in Workers, pc[w] # "idle"
    PROVE  /\ w \in Actors /\ w \notin Apps
           /\ w # "logic" /\ w # "closer" /\ w # "acceptor"
           /\ pc["closer"] \notin {"waitJobs", "clear", "closed"} /\ ~Young
<1>1. w \in Actors /\ w \notin Apps /\ w # "logic" /\ w # "closer" /\ w # "acceptor"
  BY ActorFacts
<1>2. pendingIo # 0
  <2>1. pendingIo > 0
    BY IoPending
  <2>2. QED
    BY <2>1, SMTT(30)
<1>3. pc["closer"] \notin {"waitJobs", "clear", "closed"}
  BY <1>2 DEF IInv, PhaseInv, ShutInv
<1>4. ~Young
  BY <1>1 DEF IInv, PhaseInv, YoungInv
<1>5. QED
  BY <1>1, <1>3, <1>4

\* The callback returns and finish_io takes it off the count.
LEMMA FinishIoAction ==
    ASSUME IInv, NEW w \in Workers, FinishIo(w)
    PROVE  IInv'
<1>1. pc[w] = "finish"
  BY DEF FinishIo, At
<1> USE <1>1
<1>2. /\ w \in Actors /\ w # "logic" /\ w # "closer" /\ w # "acceptor"
      /\ pc["closer"] \notin {"waitJobs", "clear", "closed"} /\ ~Young
  BY BusyFacts
<1> USE <1>2
<1>3. /\ isConnect' = isConnect /\ wasConnected' = wasConnected
      /\ isDisconnect' = isDisconnect /\ shutdownStarted' = shutdownStarted
      /\ closeAfterSend' = closeAfterSend /\ isSendRegister' = isSendRegister
      /\ ioLock' = ioLock /\ sendQueue' = sendQueue /\ batch' = batch /\ sent' = sent
      /\ owner' = owner /\ posted' = posted /\ pendingIo' = pendingIo - 1
      /\ jobQueue' = jobQueue /\ pendingJobs' = pendingJobs /\ cleanupDone' = cleanupDone
      /\ registered' = registered /\ connects' = connects /\ disconnects' = disconnects
      /\ sendFailed' = sendFailed /\ cleanups' = cleanups /\ lateHandlers' = lateHandlers
  BY DEF FinishIo, flags, locks, sendVars, jobVars, world, history
<1> USE <1>3
<1>4. pc'[w] = "idle" /\ Stay(w) /\ pc' \in [Actors -> Labels]
  <2>1. "idle" \in Labels
    BY DEF Labels
  <2>2. QED
    BY <2>1, GotoFacts DEF FinishIo, IInv
<1> USE <1>4
<1>5. pendingIo' \in Int
  BY SMTT(30) DEF IInv, TypeInv
<1>6. TypeInv'
  BY <1>5 DEF IInv, TypeInv
<1>7. \A l \in {"finish", "idle"} :
         /\ l \notin Hold /\ l \notin FlagHeld /\ l \notin Posting /\ l \notin Receiving
         /\ l \notin DiscUse /\ l \notin Ending /\ l \notin Cleaning
  BY RestingFacts DEF Resting
<1>8. SendInv'
  BY <1>7, SendFrame DEF IInv
<1>9. RecvInv'
  BY <1>7, RecvFrame DEF IInv
<1>10. DiscInv'
  BY <1>7, DiscFrame DEF IInv
<1>11. CleanupInv'
  BY <1>7, CleanupFrame DEF IInv
<1>12. JobInv'
  BY JobFrame DEF IInv
<1>13. CountInv'
  BY CountFinish
<1>14. YoungInv'
  BY YoungFrame DEF IInv, PhaseInv
<1>15. CloserInv'
  BY CloserFrame DEF IInv, PhaseInv
<1>16. ShutInv'
  BY ShutEarly
<1>17. StatInv'
  BY StatFrame DEF IInv, PhaseInv
<1>18. QED
  BY <1>6, <1>8, <1>9, <1>10, <1>11, <1>12, <1>13, <1>14, <1>15, <1>16, <1>17
  DEF IInv, PhaseInv

-----------------------------------------------------------------------------
(* process_send *)

\* The callback releases the event; it goes on with the rest of the batch, or looks
\* for more messages, or disconnects.
LEMMA ProcessSendAction ==
    ASSUME IInv, NEW w \in Workers, ProcessSend(w)
    PROVE  IInv'
<1>1. pc[w] = "ps" /\ pc[w] \in Hold /\ pc[w] \in FlagHeld
  BY DEF ProcessSend, At, Hold, FlagHeld
<1> USE <1>1
<1>2. /\ w \in Actors /\ w \notin Apps
      /\ w # "logic" /\ w # "closer" /\ w # "acceptor"
      /\ pc["closer"] \notin {"waitJobs", "clear", "closed"} /\ ~Young
  BY BusyFacts
<1> USE <1>2
<1>3. /\ isConnect' = isConnect /\ wasConnected' = wasConnected
      /\ isDisconnect' = isDisconnect /\ shutdownStarted' = shutdownStarted
      /\ closeAfterSend' = closeAfterSend
      /\ ioLock' = ioLock /\ sendQueue' = sendQueue /\ sent' = 0
      /\ owner' = [owner EXCEPT !["send"] = FALSE]
      /\ posted' = posted /\ pendingIo' = pendingIo
      /\ jobQueue' = jobQueue /\ pendingJobs' = pendingJobs /\ cleanupDone' = cleanupDone
      /\ registered' = registered /\ connects' = connects /\ disconnects' = disconnects
      /\ sendFailed' = sendFailed /\ cleanups' = cleanups /\ lateHandlers' = lateHandlers
  BY DEF ProcessSend, locks, jobVars, world, history
<1> USE <1>3
<1>4. /\ owner' \in [Events -> BOOLEAN]
      /\ owner'["recv"] = owner["recv"] /\ owner'["disc"] = owner["disc"]
  BY DEF IInv, TypeInv, Events
<1>5. ~(posted["send"] > 0) /\ \A b \in Actors \ {w} : pc[b] \notin Hold
  BY DEF IInv, SendInv, Token
<1>6. ASSUME NEW l \in Labels, Goto(w, l), l \in {After(w), "dc", "rs", "psEmpty"},
             isSendRegister' \in BOOLEAN, FlagInv', QueueInv', FailureDisconnects'
      PROVE  IInv'
  <2>1. pc'[w] = l /\ Stay(w) /\ pc' \in [Actors -> Labels]
    BY <1>6, GotoFacts DEF IInv
  <2> USE <2>1
  <2>2. 0 \in Nat
    BY SMTT(30)
  <2>3. TypeInv'
    BY <1>4, <1>6, <2>2 DEF IInv, TypeInv
  <2>4. /\ l \notin Posting /\ l \notin Receiving /\ l \notin DiscUse /\ l \notin Ending
    BY <1>6, AfterFacts, RestingFacts DEF Posting, Receiving, DiscUse, Ending
  <2>5. SendInv'
    <3>1. Token("send", Hold)'
      BY <1>5, TokenFrame DEF IInv, SendInv, Events
    <3>2. PostingInv'
      BY <1>5, <2>4, PostingFrame DEF IInv, SendInv, Hold
    <3>3. QED
      BY <1>6, <3>1, <3>2 DEF SendInv
  <2>6. RecvInv'
    BY <1>4, <2>4, RecvFrame DEF IInv, Receiving
  <2>7. DiscInv'
    BY <1>4, <2>4, DiscFrame DEF IInv
  <2>8. Inside(w, l)
    BY <1>6, AfterFacts, RestingFacts DEF Inside, YoungLabels, Cleaning
  <2>9. /\ CleanupInv' /\ JobInv' /\ YoungInv' /\ CloserInv' /\ StatInv'
        /\ w \in Workers => (pc'[w] = "idle" <=> pc[w] = "idle")
    BY <2>8, InsideStep
  <2>10. CountInv'
    BY <2>9, CountFrame DEF IInv
  <2>11. ShutInv'
    BY ShutEarly
  <2>12. QED
    BY <2>3, <2>5, <2>6, <2>7, <2>9, <2>10, <2>11 DEF IInv, PhaseInv
<1>7. ASSUME ~isSendRegister', Goto(w, "dc"), isSendRegister' \in BOOLEAN
      PROVE  IInv'
  <2>1. "dc" \in Labels /\ "dc" \notin FlagHeld
    BY DEF Labels, FlagHeld, Hold, Posting
  <2>2. pc'[w] = "dc" /\ Stay(w)
    BY <1>7, <2>1, GotoFacts DEF IInv
  <2>3. FlagInv'
    BY <1>5, <1>7, <2>1, <2>2, FlagReleased DEF IInv, SendInv
  <2>4. QueueInv' /\ FailureDisconnects'
    BY <2>2 DEF QueueInv, FailureDisconnects, At
  <2>5. QED
    BY <1>6, <1>7, <2>1, <2>3, <2>4
<1>8. CASE ~isConnect /\ Return(w) /\ UNCHANGED isSendRegister
  <2>1. After(w) \in Labels
    BY AfterFacts
  <2>2. FlagInv' /\ QueueInv' /\ FailureDisconnects'
    BY <1>8 DEF FlagInv, QueueInv, FailureDisconnects
  <2>3. isSendRegister' \in BOOLEAN
    BY <1>8 DEF IInv, TypeInv
  <2>4. QED
    BY <1>6, <1>8, <2>1, <2>2, <2>3 DEF Return
<1>9. CASE isConnect /\ sent = 0 /\ isSendRegister' = FALSE /\ Goto(w, "dc")
  BY <1>7, <1>9
<1>10. CASE /\ isConnect /\ sent > 0
            /\ isSendRegister' = (isSendRegister /\ ~(batch' = <<>> /\ closeAfterSend))
            /\ Goto(w, AfterSend(batch'))
  <2>1. isSendRegister' \in BOOLEAN /\ isSendRegister
    <3>1. isSendRegister
      BY <1>10 DEF IInv, SendInv, FlagInv
    <3>2. QED
      BY <1>10, <3>1
  <2>2. CASE batch' = <<>> /\ closeAfterSend
    BY <1>7, <1>10, <2>1, <2>2 DEF AfterSend
  <2>3. CASE ~(batch' = <<>> /\ closeAfterSend)
    <3>1. PICK l \in Labels : Goto(w, l) /\ l \in {"rs", "psEmpty"}
      <4>1. "rs" \in Labels /\ "psEmpty" \in Labels
        BY DEF Labels
      <4>2. QED
        BY <1>10, <2>3, <4>1 DEF AfterSend
    <3>2. pc'[w] = l /\ Stay(w) /\ l \in FlagHeld
      BY <3>1, GotoFacts DEF IInv, FlagHeld, Hold
    <3>3. isSendRegister' = TRUE /\ isSendRegister' = isSendRegister
      <4>1. isSendRegister \in BOOLEAN
        BY DEF IInv, TypeInv
      <4>2. QED
        BY <1>10, <2>1, <2>3, <4>1
    <3>4. FlagInv'
      BY <3>2, <3>3, FlagFrame DEF IInv, SendInv
    <3>5. QueueInv'
      BY <3>3 DEF QueueInv
    <3>6. FailureDisconnects'
      <4>1. SUFFICES ASSUME sendFailed', isConnect' PROVE \E b \in Actors : pc'[b] = "dc"
        BY DEF FailureDisconnects, At
      <4>2. sendFailed /\ isConnect
        BY <4>1
      <4>3. sent # 0
        BY <1>10, SMTT(30)
      <4>4. \E b \in Actors : pc[b] = "dc"
        BY <4>2, <4>3 DEF IInv, SendInv, FailureDisconnects, At
      <4>5. QED
        BY <3>2, <4>4 DEF Stay
    <3>7. QED
      BY <1>6, <2>1, <3>1, <3>4, <3>5, <3>6
  <2>4. QED
    BY <2>2, <2>3
<1>11. QED
  BY <1>8, <1>9, <1>10 DEF ProcessSend

\* The flag is given back only while the queue is empty.
LEMMA PsEmptyAction ==
    ASSUME IInv, NEW w \in Workers, PsEmpty(w)
    PROVE  IInv'
<1>1. pc[w] = "psEmpty" /\ pc[w] \in Hold /\ pc[w] \in FlagHeld
  BY DEF PsEmpty, At, Hold, FlagHeld
<1> USE <1>1
<1>2. /\ w \in Actors /\ w \notin Apps
      /\ w # "logic" /\ w # "closer" /\ w # "acceptor"
      /\ pc["closer"] \notin {"waitJobs", "clear", "closed"} /\ ~Young
  BY BusyFacts
<1> USE <1>2
<1>3. /\ isConnect' = isConnect /\ wasConnected' = wasConnected
      /\ isDisconnect' = isDisconnect /\ shutdownStarted' = shutdownStarted
      /\ closeAfterSend' = closeAfterSend
      /\ ioLock' = ioLock /\ sendQueue' = sendQueue /\ batch' = batch /\ sent' = sent
      /\ owner' = owner /\ posted' = posted /\ pendingIo' = pendingIo
      /\ jobQueue' = jobQueue /\ pendingJobs' = pendingJobs /\ cleanupDone' = cleanupDone
      /\ registered' = registered /\ connects' = connects /\ disconnects' = disconnects
      /\ sendFailed' = sendFailed /\ cleanups' = cleanups /\ lateHandlers' = lateHandlers
  BY DEF PsEmpty, locks, sendVars, ioVars, jobVars, world, history
<1> USE <1>3
<1>4. CASE sendQueue # <<>>
  <2>1. SameAll /\ Goto(w, "rs")
    BY <1>4 DEF PsEmpty, NothingQueued, SameAll, flags, world
  <2>2. Allowed(w, "rs") /\ "rs" \in Labels
    BY DEF Allowed, Inside, Posting, Hold, FlagHeld, Receiving, DiscUse, Ending, Cleaning,
        YoungLabels, Labels
  <2>3. QED
    BY <2>1, <2>2, PureMove
<1>5. CASE sendQueue = <<>>
  <2>1. /\ isSendRegister' = FALSE /\ pc'[w] = After(w) /\ Stay(w) /\ pc' \in [Actors -> Labels]
        /\ After(w) \in Labels /\ After(w) \in Resting
    BY <1>5, GotoFacts, AfterFacts DEF PsEmpty, NothingQueued, Return, IInv
  <2> USE <2>1
  <2>2. TypeInv'
    BY DEF IInv, TypeInv
  <2>3. /\ After(w) \notin Hold /\ After(w) \notin FlagHeld /\ After(w) \notin Posting
        /\ After(w) \notin Receiving /\ After(w) \notin DiscUse /\ After(w) \notin Ending
    BY RestingFacts
  <2> USE <2>3
  <2>4. SendInv'
    <3>1. ~(posted["send"] > 0)
      BY DEF IInv, SendInv, Token
    <3>2. Token("send", Hold)'
      BY TokenFrame DEF IInv, SendInv, Events
    <3>3. PostingInv'
      BY PostingFrame DEF IInv, SendInv
    <3>4. FlagInv'
      BY <3>1, FlagReleased DEF IInv, SendInv
    <3>5. QueueInv'
      BY <1>5 DEF QueueInv
    <3>6. FailureDisconnects'
      BY FailFrame DEF IInv, SendInv
    <3>7. QED
      BY <3>2, <3>3, <3>4, <3>5, <3>6 DEF SendInv
  <2>5. RecvInv'
    BY RecvFrame DEF IInv, Receiving
  <2>6. DiscInv'
    BY DiscFrame DEF IInv
  <2>7. Inside(w, After(w))
    BY AfterFacts, RestingFacts DEF Inside, YoungLabels
  <2>8. /\ CleanupInv' /\ JobInv' /\ YoungInv' /\ CloserInv' /\ StatInv'
        /\ w \in Workers => (pc'[w] = "idle" <=> pc[w] = "idle")
    BY <2>7, InsideStep
  <2>9. CountInv'
    BY <2>8, CountFrame DEF IInv
  <2>10. ShutInv'
    BY ShutEarly
  <2>11. QED
    BY <2>2, <2>4, <2>5, <2>6, <2>8, <2>9, <2>10 DEF IInv, PhaseInv
<1>6. QED
  BY <1>4, <1>5

-----------------------------------------------------------------------------
(* register_recv, process_recv and on_recv *)

\* WSARecv is issued, or the thread disconnects, or the connection is gone.
LEMMA RegisterRecvAction ==
    ASSUME IInv, NEW a \in Actors, RegisterRecv(a)
    PROVE  IInv'
<1>1. pc[a] = "rr" /\ pc[a] \in Receiving /\ ioLock = NoActor /\ ~Young
  BY NotYoung DEF RegisterRecv, At, YoungLabels, Receiving
<1> USE <1>1
<1>2. /\ isConnect' = isConnect /\ wasConnected' = wasConnected
      /\ isDisconnect' = isDisconnect /\ shutdownStarted' = shutdownStarted
      /\ closeAfterSend' = closeAfterSend /\ isSendRegister' = isSendRegister
      /\ ioLock' = ioLock /\ sendQueue' = sendQueue /\ batch' = batch /\ sent' = sent
      /\ jobQueue' = jobQueue /\ pendingJobs' = pendingJobs /\ cleanupDone' = cleanupDone
      /\ registered' = registered /\ connects' = connects /\ disconnects' = disconnects
      /\ sendFailed' = sendFailed /\ cleanups' = cleanups /\ lateHandlers' = lateHandlers
  BY DEF RegisterRecv, flags, locks, sendVars, jobVars, world, history
<1> USE <1>2
<1>3. CASE (shutdownStarted \/ ~isConnect) /\ Return(a) /\ UNCHANGED <<owner, posted, pendingIo>>
  <2>1. ~isConnect
    BY <1>3, LockedOut
  <2>2. SameAll /\ Goto(a, After(a)) /\ After(a) \in Labels
    BY <1>3, AfterFacts DEF Return, SameAll, flags, world
  <2>3. Allowed(a, After(a))
    BY <2>1, AfterFacts, ActorFacts, RestingFacts DEF Allowed, Inside, YoungLabels
  <2>4. QED
    BY <2>2, <2>3, PureMove
<1>4. CASE Goto(a, "dc") /\ UNCHANGED <<owner, posted, pendingIo>>
  <2>1. SameAll
    BY <1>4 DEF SameAll, flags, world
  <2>2. Allowed(a, "dc") /\ "dc" \in Labels
    BY DEF Allowed, Inside, Posting, Hold, FlagHeld, Receiving, DiscUse, Ending, Cleaning,
        YoungLabels, Labels
  <2>3. QED
    BY <1>4, <2>1, <2>2, PureMove
<1>5. CASE ~shutdownStarted /\ owner' = [owner EXCEPT !["recv"] = TRUE]
             /\ posted' = [posted EXCEPT !["recv"] = @ + 1]
             /\ pendingIo' = pendingIo + 1 /\ Return(a)
  <2>1. /\ pc'[a] = After(a) /\ Stay(a) /\ pc' \in [Actors -> Labels]
        /\ After(a) \in Labels /\ After(a) \in Resting
    BY <1>5, GotoFacts, AfterFacts DEF IInv, Return
  <2> USE <2>1
  <2>2. /\ posted' \in [Events -> Nat] /\ posted'["recv"] = posted["recv"] + 1
        /\ posted'["disc"] = posted["disc"] /\ posted'["send"] = posted["send"]
        /\ pendingIo' \in Int
    BY <1>5, SMTT(30) DEF IInv, TypeInv, Events
  <2>3. /\ owner' \in [Events -> BOOLEAN] /\ owner'["recv"]
        /\ owner'["disc"] = owner["disc"] /\ owner'["send"] = owner["send"]
    BY <1>5 DEF IInv, TypeInv, Events
  <2>4. TypeInv'
    BY <2>2, <2>3 DEF IInv, TypeInv
  <2>5. /\ After(a) \notin Hold /\ After(a) \notin FlagHeld /\ After(a) \notin Posting
        /\ After(a) \notin Receiving /\ After(a) \notin DiscUse /\ After(a) \notin Ending
        /\ "rr" \notin FlagHeld
    BY RestingFacts DEF FlagHeld, Hold, Posting
  <2>6. SendInv'
    BY <2>2, <2>3, <2>5, SendFrame DEF IInv
  <2>7. RecvInv'
    <3>1. Token("recv", Receiving)' /\ posted'["recv"] = 1
      BY <2>2, <2>3, <2>5, TokenPost DEF IInv, RecvInv, Events
    <3>2. QED
      BY <3>1 DEF RecvInv, RecvArmed
  <2>8. DiscInv'
    BY <2>2, <2>3, <2>5, DiscFrame DEF IInv
  <2>9. Inside(a, After(a))
    BY AfterFacts, ActorFacts, RestingFacts DEF Inside, YoungLabels
  <2>10. /\ CleanupInv' /\ JobInv' /\ YoungInv' /\ CloserInv' /\ StatInv'
         /\ a \in Workers => (pc'[a] = "idle" <=> pc[a] = "idle")
    BY <2>9, InsideStep
  <2>11. CountInv'
    BY <1>5, <2>10, CountPost DEF Events
  <2>12. pc["closer"] = "idle" /\ a # "closer"
    BY <1>5 DEF IInv, PhaseInv, CloserInv
  <2>13. ShutInv'
    BY <2>12, ShutEarly
  <2>14. QED
    BY <2>4, <2>6, <2>7, <2>8, <2>10, <2>11, <2>13 DEF IInv, PhaseInv
<1>6. QED
  BY <1>3, <1>4, <1>5 DEF RegisterRecv, HandleError

\* The callback of a receive releases the event and goes on to parse, or disconnects.
LEMMA ProcessRecvAction ==
    ASSUME IInv, NEW w \in Workers, EventOf(w) = "recv", ProcessRecv(w)
    PROVE  IInv'
<1>1. pc[w] \in {"prData", "prZero"} /\ pc[w] \in Receiving
  BY DEF ProcessRecv, Receiving
<1> USE <1>1
<1>2. /\ w \in Actors /\ w \notin Apps
      /\ w # "logic" /\ w # "closer" /\ w # "acceptor"
      /\ pc["closer"] \notin {"waitJobs", "clear", "closed"} /\ ~Young
  BY BusyFacts
<1> USE <1>2
<1>3. /\ isConnect' = isConnect /\ wasConnected' = wasConnected
      /\ isDisconnect' = isDisconnect /\ shutdownStarted' = shutdownStarted
      /\ closeAfterSend' = closeAfterSend /\ isSendRegister' = isSendRegister
      /\ ioLock' = ioLock /\ sendQueue' = sendQueue /\ batch' = batch /\ sent' = sent
      /\ owner' = [owner EXCEPT !["recv"] = FALSE] /\ posted' = posted
      /\ pendingIo' = pendingIo
      /\ jobQueue' = jobQueue /\ pendingJobs' = pendingJobs /\ cleanupDone' = cleanupDone
      /\ registered' = registered /\ connects' = connects /\ disconnects' = disconnects
      /\ sendFailed' = sendFailed /\ cleanups' = cleanups /\ lateHandlers' = lateHandlers
  BY DEF ProcessRecv, flags, locks, sendVars, jobVars, world, history
<1> USE <1>3
<1>4. PICK l \in Labels : /\ Goto(w, l) /\ l \in {After(w), "dc", "parse"}
                          /\ isConnect => l \in {"dc", "parse"}
  <2>1. After(w) \in Labels /\ "dc" \in Labels /\ "parse" \in Labels
    BY AfterFacts DEF Labels
  <2>2. QED
    BY <2>1 DEF ProcessRecv
<1>5. pc'[w] = l /\ Stay(w) /\ pc' \in [Actors -> Labels]
  BY <1>4, GotoFacts DEF IInv
<1> USE <1>5
<1>6. /\ owner' \in [Events -> BOOLEAN]
      /\ owner'["send"] = owner["send"] /\ owner'["disc"] = owner["disc"]
  BY DEF IInv, TypeInv, Events
<1>7. TypeInv'
  BY <1>6 DEF IInv, TypeInv
<1>8. /\ l \notin Hold /\ l \notin FlagHeld /\ l \notin Posting
      /\ l \notin DiscUse /\ l \notin Ending /\ pc[w] \notin FlagHeld
  BY <1>4, AfterFacts, RestingFacts
  DEF Hold, FlagHeld, Posting, DiscUse, Ending
<1>9. SendInv'
  BY <1>6, <1>8, SendFrame DEF IInv
<1>10. RecvInv'
  <2>1. ~(posted["recv"] > 0)
    BY DEF IInv, RecvInv, Token
  <2>2. Token("recv", Receiving)'
    BY <2>1, TokenFrame DEF IInv, RecvInv, Events
  <2>3. RecvArmed'
    BY <1>4 DEF RecvArmed
  <2>4. QED
    BY <2>2, <2>3 DEF RecvInv
<1>11. DiscInv'
  BY <1>6, <1>8, DiscFrame DEF IInv
<1>12. Inside(w, l)
  BY <1>4, AfterFacts, RestingFacts DEF Inside, YoungLabels, Cleaning
<1>13. /\ CleanupInv' /\ JobInv' /\ YoungInv' /\ CloserInv' /\ StatInv'
       /\ w \in Workers => (pc'[w] = "idle" <=> pc[w] = "idle")
  BY <1>12, InsideStep
<1>14. CountInv'
  BY <1>13, CountFrame DEF IInv
<1>15. ShutInv'
  BY ShutEarly
<1>16. QED
  BY <1>7, <1>9, <1>10, <1>11, <1>13, <1>14, <1>15 DEF IInv, PhaseInv

\* A packet is queued for the handlers, or refused.
LEMMA OnRecvPacketAction ==
    ASSUME IInv, NEW w \in Workers, NEW valid \in BOOLEAN, OnRecvPacket(w, valid)
    PROVE  IInv'
<1>1. pc[w] = "parse" /\ pc[w] \in Receiving /\ "parsed" \in Receiving /\ Goto(w, "parsed")
  BY DEF OnRecvPacket, At, Receiving
<1> USE <1>1
<1>2. /\ w \in Actors /\ w \notin Apps
      /\ w # "logic" /\ w # "closer" /\ w # "acceptor"
      /\ pc["closer"] \notin {"waitJobs", "clear", "closed"} /\ ~Young
  BY BusyFacts
<1> USE <1>2
<1>3. /\ isConnect' = isConnect /\ wasConnected' = wasConnected
      /\ isDisconnect' = isDisconnect /\ shutdownStarted' = shutdownStarted
      /\ closeAfterSend' = closeAfterSend /\ isSendRegister' = isSendRegister
      /\ ioLock' = ioLock /\ sendQueue' = sendQueue /\ batch' = batch /\ sent' = sent
      /\ owner' = owner /\ posted' = posted /\ pendingIo' = pendingIo
      /\ registered' = registered /\ connects' = connects /\ disconnects' = disconnects
      /\ sendFailed' = sendFailed /\ cleanups' = cleanups /\ lateHandlers' = lateHandlers
  BY DEF OnRecvPacket, flags, locks, sendVars, ioVars, world
<1> USE <1>3
<1>4. /\ cleanupDone' = cleanupDone
      /\ \/ jobQueue' = jobQueue /\ pendingJobs' = pendingJobs
         \/ jobQueue' = Append(jobQueue, "packet") /\ pendingJobs' = pendingJobs + 1
  BY DEF OnRecvPacket, QueueLogic, jobVars
<1>5. "parsed" \in Labels
  BY DEF Labels
<1>6. /\ "parsed" \notin Hold /\ "parsed" \notin FlagHeld /\ "parsed" \notin Posting
      /\ "parsed" \notin DiscUse /\ "parsed" \notin Ending /\ pc[w] \notin FlagHeld
      /\ "parsed" \notin Cleaning
  BY DEF Hold, FlagHeld, Posting, DiscUse, Ending, Cleaning
<1>7. CASE jobQueue' = jobQueue /\ pendingJobs' = pendingJobs
  <2>1. SameAll
    BY <1>4, <1>7 DEF SameAll, flags, world
  <2>2. Allowed(w, "parsed")
    BY <1>6 DEF Allowed, Inside, YoungLabels
  <2>3. QED
    BY <1>5, <2>1, <2>2, PureMove
<1>8. CASE jobQueue' = Append(jobQueue, "packet") /\ pendingJobs' = pendingJobs + 1
  <2>1. pc'[w] = "parsed" /\ Stay(w) /\ pc' \in [Actors -> Labels]
    BY <1>5, GotoFacts DEF IInv
  <2> USE <2>1
  <2>2. /\ jobQueue' \in Seq({"packet", "cleanup"})
        /\ Len(jobQueue) \in Nat /\ Len(jobQueue') = Len(jobQueue) + 1
        /\ \A i \in Nat : CleanupAt(i)' => CleanupAt(i)
    BY <1>8, AppendFacts DEF IInv
  <2>3. pendingJobs' \in Int
    BY <1>8, SMTT(30) DEF IInv, TypeInv
  <2>4. TypeInv'
    BY <1>4, <2>2, <2>3 DEF IInv, TypeInv
  <2>5. SendInv'
    BY <1>6, SendFrame DEF IInv
  <2>6. RecvInv'
    BY RecvFrame DEF IInv
  <2>7. DiscInv'
    BY <1>6, DiscFrame DEF IInv
  <2>8. CleanupInv'
    BY <1>4, <1>6, <2>2, CleanupLess DEF IInv
  <2>9. JobInv'
    <3>1. pc'["logic"] = pc["logic"]
      BY ActorFacts DEF Stay
    <3>2. pendingJobs = Len(jobQueue) + IF pc["logic"] = "idle" THEN 0 ELSE 1
      BY DEF IInv, JobInv
    <3>3. QED
      BY <1>8, <2>2, <3>1, <3>2, SMTT(30) DEF JobInv
  <2>10. CountInv'
    BY CountFrame DEF IInv
  <2>11. YoungInv'
    BY YoungFrame DEF IInv, PhaseInv
  <2>12. CloserInv'
    BY CloserFrame DEF IInv, PhaseInv
  <2>13. ShutInv'
    BY ShutEarly
  <2>14. StatInv'
    BY StatFrame DEF IInv, PhaseInv
  <2>15. QED
    BY <2>4, <2>5, <2>6, <2>7, <2>8, <2>9, <2>10, <2>11, <2>12, <2>13, <2>14
    DEF IInv, PhaseInv
<1>9. QED
  BY <1>4, <1>7, <1>8

\* on_recv ends, and the thread receives again or disconnects.
LEMMA OnRecvEndAction ==
    ASSUME IInv, NEW w \in Workers, NEW l \in {"rr", "dc", "parse"}, OnRecvEnd(w, l)
    PROVE  IInv'
<1>1. pc[w] \in {"parse", "parsed"} /\ pc[w] \in Receiving /\ Goto(w, l)
  BY DEF OnRecvEnd, At, Receiving
<1>2. /\ w \in Actors /\ w \notin Apps
      /\ w # "logic" /\ w # "closer" /\ w # "acceptor" /\ ~Young
  BY <1>1, BusyFacts
<1>3. SameAll
  BY DEF OnRecvEnd, SameAll, flags, locks, sendVars, ioVars, jobVars, world, history
<1>4. l \in Labels
  BY DEF Labels
<1>5. Allowed(w, l)
  BY <1>1, <1>2
  DEF Allowed, Inside, Posting, Hold, FlagHeld, Receiving, DiscUse, Ending, Cleaning, YoungLabels
<1>6. QED
  BY <1>1, <1>2, <1>3, <1>4, <1>5, PureMove

-----------------------------------------------------------------------------
(* Jobs *)

\* The first job leaves the queue.
LEMMA TailFacts ==
    ASSUME TypeInv, jobQueue # <<>>, jobQueue' = Tail(jobQueue)
    PROVE  /\ Head(jobQueue) \in {"packet", "cleanup"}
           /\ jobQueue' \in Seq({"packet", "cleanup"})
           /\ Len(jobQueue) \in Nat /\ Len(jobQueue') = Len(jobQueue) - 1
           /\ Len(jobQueue') \in Nat
           /\ \A i \in Nat : CleanupAt(i)' => CleanupAt(i + 1) /\ i # 0
           /\ Head(jobQueue) = "cleanup" => CleanupAt(1)
<1>1. jobQueue \in Seq({"packet", "cleanup"}) /\ Len(jobQueue) \in Nat
  BY SMTT(30) DEF TypeInv
<1> USE <1>1
<1>2. Head(jobQueue) \in {"packet", "cleanup"} /\ Head(jobQueue) = jobQueue[1]
  BY SMTT(30)
<1>3. jobQueue' \in Seq({"packet", "cleanup"}) /\ Len(jobQueue') = Len(jobQueue) - 1
  BY SMTT(30)
<1>4. Len(jobQueue') \in Nat
  BY <1>3, SMTT(30)
<1>5. ASSUME NEW i \in Nat, CleanupAt(i)' PROVE CleanupAt(i + 1) /\ i # 0
  <2>1. i \in 1..Len(jobQueue') /\ jobQueue'[i] = "cleanup"
    BY <1>5 DEF CleanupAt
  <2>2. i \in 1..(Len(jobQueue) - 1)
    BY <1>3, <2>1
  <2>3. jobQueue'[i] = jobQueue[i + 1]
    BY <2>2, SMTT(30)
  <2>4. i + 1 \in 1..Len(jobQueue) /\ i # 0
    BY <2>2, SMTT(30)
  <2>5. QED
    BY <2>1, <2>3, <2>4 DEF CleanupAt
<1>6. Head(jobQueue) = "cleanup" => CleanupAt(1)
  <2>1. 1 \in 1..Len(jobQueue)
    BY SMTT(30)
  <2>2. QED
    BY <1>2, <2>1 DEF CleanupAt
<1>7. QED
  BY <1>2, <1>3, <1>4, <1>5, <1>6

\* The next job of the session starts.
LEMMA StartJobAction ==
    ASSUME IInv, StartJob
    PROVE  IInv'
<1>1. /\ pc["logic"] = "idle" /\ jobQueue # <<>> /\ Goto("logic", Head(jobQueue))
      /\ jobQueue' = Tail(jobQueue)
  BY DEF StartJob, At
<1> USE <1>1
<1>2. /\ "logic" \in Actors /\ "logic" \notin Workers /\ "logic" \notin Apps
      /\ "logic" # "acceptor" /\ "logic" # "closer" /\ ~Young
  BY ActorFacts DEF IInv, PhaseInv, YoungInv
<1> USE <1>2
<1>3. /\ isConnect' = isConnect /\ wasConnected' = wasConnected
      /\ isDisconnect' = isDisconnect /\ shutdownStarted' = shutdownStarted
      /\ closeAfterSend' = closeAfterSend /\ isSendRegister' = isSendRegister
      /\ ioLock' = ioLock /\ sendQueue' = sendQueue /\ batch' = batch /\ sent' = sent
      /\ owner' = owner /\ posted' = posted /\ pendingIo' = pendingIo
      /\ pendingJobs' = pendingJobs /\ cleanupDone' = cleanupDone
      /\ registered' = registered /\ connects' = connects /\ disconnects' = disconnects
      /\ sendFailed' = sendFailed /\ cleanups' = cleanups /\ lateHandlers' = lateHandlers
  BY DEF StartJob, flags, locks, sendVars, ioVars, world, history
<1> USE <1>3
<1>4. /\ Head(jobQueue) \in {"packet", "cleanup"}
      /\ jobQueue' \in Seq({"packet", "cleanup"})
      /\ Len(jobQueue) \in Nat /\ Len(jobQueue') = Len(jobQueue) - 1 /\ Len(jobQueue') \in Nat
      /\ \A i \in Nat : CleanupAt(i)' => CleanupAt(i + 1) /\ i # 0
      /\ Head(jobQueue) = "cleanup" => CleanupAt(1)
  BY TailFacts DEF IInv
<1> USE <1>4
<1>5. PICK l \in Labels : l = Head(jobQueue) /\ l \in {"packet", "cleanup"}
  BY DEF Labels
<1>6. pc'["logic"] = l /\ Stay("logic") /\ pc' \in [Actors -> Labels]
  BY <1>5, GotoFacts DEF IInv
<1> USE <1>6
<1>7. TypeInv'
  BY DEF IInv, TypeInv
<1>8. /\ l \notin Hold /\ l \notin FlagHeld /\ l \notin Posting /\ l \notin Receiving
      /\ l \notin DiscUse /\ l \notin Ending /\ l \notin Cleaning /\ l # "idle"
      /\ "idle" \notin FlagHeld /\ "idle" \notin Receiving
  BY <1>5 DEF Hold, FlagHeld, Posting, Receiving, DiscUse, Ending, Cleaning
<1> USE <1>8
<1>9. SendInv'
  BY SendFrame DEF IInv
<1>10. RecvInv'
  BY RecvFrame DEF IInv
<1>11. DiscInv'
  BY DiscFrame DEF IInv
<1>12. CleanupInv'
  <2>1. \A b \in Actors : pc'[b] \in Cleaning => pc[b] \in Cleaning
    BY DEF Stay
  <2>2. \A i \in Nat : i + 1 \in Nat
    BY SMTT(30)
  <2>3. \A i, j \in Nat : i + 1 = j + 1 => i = j
    BY SMTT(30)
  <2>4. \A i \in Nat : i + 1 = 1 => i = 0
    BY SMTT(30)
  <2>5. 1 \in Nat
    BY SMTT(30)
  <2>6. /\ cleanups' <= 1 /\ lateHandlers' = 0 /\ (cleanupDone' => cleanups' > 0)
        /\ pc'["logic"] # "cleanupDone"
    BY <1>5 DEF IInv, CleanupInv
  <2>7. CASE l = "cleanup"
    <3>1. CleanupAt(1)
      BY <1>5, <2>7
    <3>2. /\ isDisconnect /\ cleanups = 0 /\ \A b \in Actors : pc[b] \notin Cleaning
          /\ \A i \in Nat : CleanupAt(i) => i = 1
      BY <2>5, <3>1 DEF IInv, CleanupInv
    <3>3. \A i \in Nat : ~CleanupAt(i)'
      BY <2>2, <2>4, <3>2
    <3>4. isDisconnect' /\ cleanups' = 0 /\ \A b \in Actors : pc'[b] \notin Cleaning
      BY <2>1, <3>2
    <3>5. QED
      BY <2>6, <3>3, <3>4 DEF CleanupInv
  <2>8. CASE l = "packet"
    <3>1. pc'["logic"] # "cleanup"
      BY <2>8
    <3>2. ~isDisconnect' => /\ \A b \in Actors : pc'[b] \notin Cleaning
                            /\ \A i \in Nat : ~CleanupAt(i)'
                            /\ cleanups' = 0
      BY <2>1, <2>2 DEF IInv, CleanupInv
    <3>3. /\ \A b, c \in Actors : pc'[b] \in Cleaning /\ pc'[c] \in Cleaning => b = c
          /\ \A b \in Actors : pc'[b] \in Cleaning =>
                 (\A i \in Nat : ~CleanupAt(i)') /\ cleanups' = 0
      BY <2>1, <2>2 DEF IInv, CleanupInv
    <3>4. /\ \A i, j \in Nat : CleanupAt(i)' /\ CleanupAt(j)' => i = j
          /\ \A i \in Nat : CleanupAt(i)' => cleanups' = 0
      BY <2>2, <2>3 DEF IInv, CleanupInv
    <3>5. QED
      BY <2>6, <3>1, <3>2, <3>3, <3>4 DEF CleanupInv
  <2>9. QED
    BY <1>5, <2>7, <2>8
<1>13. JobInv'
  <2>1. pendingJobs = Len(jobQueue) + 0
    BY DEF IInv, JobInv
  <2>2. pendingJobs' = Len(jobQueue') + 1
    BY <2>1, SMTT(30)
  <2>3. QED
    BY <2>2 DEF JobInv
<1>14. CountInv'
  BY CountFrame DEF IInv
<1>15. YoungInv'
  BY YoungFrame DEF IInv, PhaseInv
<1>16. CloserInv'
  BY CloserFrame DEF IInv, PhaseInv
<1>17. ShutInv'
  BY ShutFrame DEF IInv, PhaseInv
<1>18. StatInv'
  BY StatFrame DEF IInv, PhaseInv
<1>19. QED
  BY <1>7, <1>9, <1>10, <1>11, <1>12, <1>13, <1>14, <1>15, <1>16, <1>17, <1>18
  DEF IInv, PhaseInv

\* The logic thread in a job, in a session that is settled.
LEMMA LogicFacts ==
    ASSUME IInv, pc["logic"] # "idle"
    PROVE  /\ "logic" \in Actors /\ "logic" \notin Workers /\ "logic" \notin Apps
           /\ "logic" # "acceptor" /\ "logic" # "closer" /\ ~Young
  BY ActorFacts DEF IInv, PhaseInv, YoungInv

\* A packet job of a connected session runs its handler; there is no cleanup yet.
LEMMA PacketJobAction ==
    ASSUME IInv, PacketJob
    PROVE  IInv'
<1>1. pc["logic"] = "packet" /\ Goto("logic", IF isConnect THEN "handler" ELSE "jobEnd")
  BY DEF PacketJob, At, StillConnected
<1>2. /\ "logic" \in Actors /\ "logic" \notin Workers /\ "logic" \notin Apps
      /\ "logic" # "acceptor" /\ "logic" # "closer" /\ ~Young
  BY <1>1, LogicFacts
<1>3. ~(isConnect /\ cleanups > 0)
  <2>1. isConnect => cleanups = 0
    BY DEF IInv, DiscInv, EndInv, CleanupInv
  <2>2. ~(0 > 0)
    BY SMTT(30)
  <2>3. QED
    BY <2>1, <2>2
<1>4. lateHandlers' = lateHandlers
  <2>1. lateHandlers' = lateHandlers + 0
    BY <1>3 DEF PacketJob, StillConnected
  <2>2. lateHandlers = 0
    BY DEF IInv, CleanupInv
  <2>3. QED
    BY <2>1, <2>2, SMTT(30)
<1>5. SameAll
  BY <1>4 DEF PacketJob, SameAll, flags, locks, sendVars, ioVars, jobVars, world
<1>6. PICK l \in Labels : Goto("logic", l) /\ l \in {"handler", "jobEnd"}
  <2>1. "handler" \in Labels /\ "jobEnd" \in Labels
    BY DEF Labels
  <2>2. QED
    BY <1>1, <2>1
<1>7. Allowed("logic", l)
  BY <1>1, <1>2, <1>6
  DEF Allowed, Inside, Posting, Hold, FlagHeld, Receiving, DiscUse, Ending, Cleaning, YoungLabels
<1>8. QED
  BY <1>2, <1>5, <1>6, <1>7, PureMove

\* A handler answers, disconnects, or does neither.
LEMMA HandlerAction ==
    ASSUME IInv, NEW l \in {"send", "dc", "jobEnd"}, Handler(l)
    PROVE  IInv'
<1>1. pc["logic"] = "handler" /\ Goto("logic", l)
  BY DEF Handler, At
<1>2. /\ "logic" \in Actors /\ "logic" \notin Workers /\ "logic" \notin Apps
      /\ "logic" # "acceptor" /\ "logic" # "closer" /\ ~Young
  BY <1>1, LogicFacts
<1>3. SameAll
  BY DEF Handler, SameAll, flags, locks, sendVars, ioVars, jobVars, world, history
<1>4. l \in Labels
  BY DEF Labels
<1>5. Allowed("logic", l)
  BY <1>1, <1>2
  DEF Allowed, Inside, Posting, Hold, FlagHeld, Receiving, DiscUse, Ending, Cleaning, YoungLabels
<1>6. QED
  BY <1>1, <1>2, <1>3, <1>4, <1>5, PureMove

\* The cleanup runs.
LEMMA CleanupJobAction ==
    ASSUME IInv, CleanupJob
    PROVE  IInv'
<1>1. pc["logic"] = "cleanup" /\ Goto("logic", "cleanupDone")
  BY DEF CleanupJob, At
<1> USE <1>1
<1>2. /\ "logic" \in Actors /\ "logic" \notin Workers /\ "logic" \notin Apps
      /\ "logic" # "acceptor" /\ "logic" # "closer" /\ ~Young
  BY LogicFacts
<1> USE <1>2
<1>3. /\ isConnect' = isConnect /\ wasConnected' = wasConnected
      /\ isDisconnect' = isDisconnect /\ shutdownStarted' = shutdownStarted
      /\ closeAfterSend' = closeAfterSend /\ isSendRegister' = isSendRegister
      /\ ioLock' = ioLock /\ sendQueue' = sendQueue /\ batch' = batch /\ sent' = sent
      /\ owner' = owner /\ posted' = posted /\ pendingIo' = pendingIo
      /\ jobQueue' = jobQueue /\ pendingJobs' = pendingJobs /\ cleanupDone' = cleanupDone
      /\ registered' = (IF registered = "yes" THEN "gone" ELSE registered)
      /\ connects' = connects
      /\ disconnects' = disconnects + (IF wasConnected THEN 1 ELSE 0)
      /\ sendFailed' = sendFailed /\ cleanups' = cleanups + 1 /\ lateHandlers' = lateHandlers
  BY DEF CleanupJob, flags, locks, sendVars, ioVars, jobVars
<1> USE <1>3
<1>4. pc'["logic"] = "cleanupDone" /\ Stay("logic") /\ pc' \in [Actors -> Labels]
  <2>1. "cleanupDone" \in Labels
    BY DEF Labels
  <2>2. QED
    BY <2>1, GotoFacts DEF IInv
<1> USE <1>4
<1>5. /\ isDisconnect /\ cleanups = 0
      /\ \A b \in Actors : pc[b] \notin Cleaning
      /\ \A i \in Nat : ~CleanupAt(i)
  BY DEF IInv, CleanupInv
<1> USE <1>5
<1>6. cleanups' = 1 /\ disconnects' \in Nat
  BY SMTT(30) DEF IInv, TypeInv
<1>7. cleanups' \in Nat /\ cleanups' > 0 /\ cleanups' <= 1
  BY <1>6, SMTT(30)
<1>8. TypeInv'
  BY <1>6, <1>7 DEF IInv, TypeInv
<1>9. \A l \in {"cleanup", "cleanupDone"} :
        /\ l \notin Hold /\ l \notin FlagHeld /\ l \notin Posting /\ l \notin Receiving
        /\ l \notin DiscUse /\ l \notin Ending /\ l \notin Cleaning
  BY DEF Hold, FlagHeld, Posting, Receiving, DiscUse, Ending, Cleaning
<1>10. SendInv'
  BY <1>9, SendFrame DEF IInv
<1>11. RecvInv'
  BY <1>9, RecvFrame DEF IInv
<1>12. DiscInv'
  BY <1>9, DiscFrame DEF IInv
<1>13. CleanupInv'
  <2>1. \A b \in Actors : pc'[b] \notin Cleaning
    BY <1>9 DEF Stay
  <2>2. \A i \in Nat : ~CleanupAt(i)'
    BY DEF CleanupAt
  <2>3. isDisconnect' /\ lateHandlers' = 0 /\ pc'["logic"] # "cleanup"
    BY DEF IInv, CleanupInv
  <2>4. QED
    BY <1>7, <2>1, <2>2, <2>3 DEF CleanupInv
<1>14. JobInv'
  BY JobFrame DEF IInv
<1>15. CountInv'
  BY CountFrame DEF IInv
<1>16. YoungInv'
  <2>1. registered' = registered \/ pc["acceptor"] # "idle"
    BY DEF IInv, PhaseInv, YoungInv
  <2>2. QED
    BY <2>1, YoungFrame DEF IInv, PhaseInv
<1>17. CloserInv'
  BY CloserFrame DEF IInv, PhaseInv
<1>18. ShutInv'
  BY ShutFrame DEF IInv, PhaseInv
<1>19. StatInv'
  <2>1. pc'["acceptor"] = pc["acceptor"]
    BY ActorFacts DEF Stay
  <2>2. disconnects = 0
    <3>1. disconnects = IF wasConnected /\ cleanups > 0 THEN 1 ELSE 0
      BY DEF IInv, PhaseInv, StatInv
    <3>2. ~(cleanups > 0)
      BY SMTT(30)
    <3>3. QED
      BY <3>1, <3>2
  <2>3. disconnects' = IF wasConnected' /\ cleanups' > 0 THEN 1 ELSE 0
    <3>1. disconnects' = IF wasConnected THEN 1 ELSE 0
      BY <2>2, SMTT(30)
    <3>2. QED
      BY <1>7, <3>1
  <2>4. registered' # "yes"
    OBVIOUS
  <2>5. connects' = IF wasConnected' /\ pc'["acceptor"] # "conn" THEN 1 ELSE 0
    BY <2>1 DEF IInv, PhaseInv, StatInv
  <2>6. QED
    BY <2>3, <2>4, <2>5 DEF StatInv
<1>20. QED
  BY <1>8, <1>10, <1>11, <1>12, <1>13, <1>14, <1>15, <1>16, <1>17, <1>18, <1>19
  DEF IInv, PhaseInv

\* The cleanup is reported to wait_for_shutdown.
LEMMA CleanupDoneAction ==
    ASSUME IInv, CleanupDone
    PROVE  IInv'
<1>1. pc["logic"] = "cleanupDone" /\ Goto("logic", "jobEnd")
  BY DEF CleanupDone, At
<1> USE <1>1
<1>2. /\ "logic" \in Actors /\ "logic" \notin Workers /\ "logic" \notin Apps
      /\ "logic" # "acceptor" /\ "logic" # "closer" /\ ~Young
  BY LogicFacts
<1> USE <1>2
<1>3. /\ isConnect' = isConnect /\ wasConnected' = wasConnected
      /\ isDisconnect' = isDisconnect /\ shutdownStarted' = shutdownStarted
      /\ closeAfterSend' = closeAfterSend /\ isSendRegister' = isSendRegister
      /\ ioLock' = ioLock /\ sendQueue' = sendQueue /\ batch' = batch /\ sent' = sent
      /\ owner' = owner /\ posted' = posted /\ pendingIo' = pendingIo
      /\ jobQueue' = jobQueue /\ pendingJobs' = pendingJobs /\ cleanupDone' = TRUE
      /\ registered' = registered /\ connects' = connects /\ disconnects' = disconnects
      /\ sendFailed' = sendFailed /\ cleanups' = cleanups /\ lateHandlers' = lateHandlers
  BY DEF CleanupDone, flags, locks, sendVars, ioVars, world, history
<1> USE <1>3
<1>4. pc'["logic"] = "jobEnd" /\ Stay("logic") /\ pc' \in [Actors -> Labels]
  <2>1. "jobEnd" \in Labels
    BY DEF Labels
  <2>2. QED
    BY <2>1, GotoFacts DEF IInv
<1> USE <1>4
<1>5. TypeInv'
  BY DEF IInv, TypeInv
<1>6. \A l \in {"cleanupDone", "jobEnd"} :
        /\ l \notin Hold /\ l \notin FlagHeld /\ l \notin Posting /\ l \notin Receiving
        /\ l \notin DiscUse /\ l \notin Ending /\ l \notin Cleaning
  BY DEF Hold, FlagHeld, Posting, Receiving, DiscUse, Ending, Cleaning
<1>7. SendInv'
  BY <1>6, SendFrame DEF IInv
<1>8. RecvInv'
  BY <1>6, RecvFrame DEF IInv
<1>9. DiscInv'
  BY <1>6, DiscFrame DEF IInv
<1>10. CleanupInv'
  <2>1. \A b \in Actors : pc'[b] \in Cleaning => pc[b] \in Cleaning
    BY <1>6 DEF Stay
  <2>2. pc'["logic"] # "cleanup" /\ pc'["logic"] # "cleanupDone"
    OBVIOUS
  <2>3. \A i \in Nat : CleanupAt(i)' => CleanupAt(i)
    BY DEF CleanupAt
  <2>4. /\ ~isDisconnect' => /\ \A b \in Actors : pc'[b] \notin Cleaning
                             /\ \A i \in Nat : ~CleanupAt(i)' /\ cleanups' = 0
        /\ \A b, c \in Actors : pc'[b] \in Cleaning /\ pc'[c] \in Cleaning => b = c
    BY <2>1, <2>3 DEF IInv, CleanupInv
  <2>5. /\ \A b \in Actors : pc'[b] \in Cleaning => (\A i \in Nat : ~CleanupAt(i)') /\ cleanups' = 0
        /\ \A i, j \in Nat : CleanupAt(i)' /\ CleanupAt(j)' => i = j
        /\ \A i \in Nat : CleanupAt(i)' => cleanups' = 0
    BY <2>1, <2>3 DEF IInv, CleanupInv
  <2>6. cleanups' > 0 /\ cleanups' <= 1 /\ lateHandlers' = 0
    BY DEF IInv, CleanupInv
  <2>7. ~(0 > 0)
    BY SMTT(30)
  <2>8. cleanups' # 0
    BY <2>6, <2>7
  <2>9. QED
    BY <2>2, <2>4, <2>5, <2>6, <2>8 DEF CleanupInv
<1>11. JobInv'
  BY JobFrame DEF IInv
<1>12. CountInv'
  BY CountFrame DEF IInv
<1>13. YoungInv'
  BY YoungFrame DEF IInv, PhaseInv
<1>14. CloserInv'
  BY CloserFrame DEF IInv, PhaseInv
<1>15. ShutInv'
  <2>1. pc'["closer"] = pc["closer"]
    BY ActorFacts DEF Stay
  <2>2. QED
    BY <2>1 DEF IInv, PhaseInv, ShutInv
<1>16. StatInv'
  BY StatFrame DEF IInv, PhaseInv
<1>17. QED
  BY <1>5, <1>7, <1>8, <1>9, <1>10, <1>11, <1>12, <1>13, <1>14, <1>15, <1>16
  DEF IInv, PhaseInv

\* A job ends; while it ran the shutdown was waiting.
LEMMA JobEndAction ==
    ASSUME IInv, JobEnd
    PROVE  IInv'
<1>1. pc["logic"] = "jobEnd" /\ Goto("logic", "idle")
  BY DEF JobEnd, At
<1> USE <1>1
<1>2. /\ "logic" \in Actors /\ "logic" \notin Workers /\ "logic" \notin Apps
      /\ "logic" # "acceptor" /\ "logic" # "closer" /\ ~Young
  BY LogicFacts
<1> USE <1>2
<1>3. /\ isConnect' = isConnect /\ wasConnected' = wasConnected
      /\ isDisconnect' = isDisconnect /\ shutdownStarted' = shutdownStarted
      /\ closeAfterSend' = closeAfterSend /\ isSendRegister' = isSendRegister
      /\ ioLock' = ioLock /\ sendQueue' = sendQueue /\ batch' = batch /\ sent' = sent
      /\ owner' = owner /\ posted' = posted /\ pendingIo' = pendingIo
      /\ jobQueue' = jobQueue /\ pendingJobs' = pendingJobs - 1 /\ cleanupDone' = cleanupDone
      /\ registered' = registered /\ connects' = connects /\ disconnects' = disconnects
      /\ sendFailed' = sendFailed /\ cleanups' = cleanups /\ lateHandlers' = lateHandlers
  BY DEF JobEnd, flags, locks, sendVars, ioVars, world, history
<1> USE <1>3
<1>4. pc'["logic"] = "idle" /\ Stay("logic") /\ pc' \in [Actors -> Labels]
  <2>1. "idle" \in Labels
    BY DEF Labels
  <2>2. QED
    BY <2>1, GotoFacts DEF IInv
<1> USE <1>4
<1>5. /\ Len(jobQueue) \in Nat /\ pendingJobs = Len(jobQueue) + 1
  <2>1. Len(jobQueue) \in Nat
    BY SMTT(30) DEF IInv, TypeInv
  <2>2. pendingJobs = Len(jobQueue) + 1
    BY DEF IInv, JobInv
  <2>3. QED
    BY <2>1, <2>2, SMTT(30)
<1>6. pendingJobs' \in Int /\ pendingJobs # 0 /\ pendingJobs' = Len(jobQueue) + 0
  BY <1>5, SMTT(30)
<1>7. TypeInv'
  BY <1>6 DEF IInv, TypeInv
<1>8. \A l \in {"idle", "jobEnd"} :
        /\ l \notin Hold /\ l \notin FlagHeld /\ l \notin Posting /\ l \notin Receiving
        /\ l \notin DiscUse /\ l \notin Ending /\ l \notin Cleaning
  BY RestingFacts DEF Resting
<1>9. SendInv'
  BY <1>8, SendFrame DEF IInv
<1>10. RecvInv'
  BY <1>8, RecvFrame DEF IInv
<1>11. DiscInv'
  BY <1>8, DiscFrame DEF IInv
<1>12. CleanupInv'
  BY <1>8, CleanupFrame DEF IInv
<1>13. JobInv'
  BY <1>6 DEF JobInv
<1>14. CountInv'
  BY CountFrame DEF IInv
<1>15. YoungInv'
  BY YoungFrame DEF IInv, PhaseInv
<1>16. CloserInv'
  BY CloserFrame DEF IInv, PhaseInv
<1>17. ShutInv'
  <2>1. pc'["closer"] = pc["closer"]
    BY ActorFacts DEF Stay
  <2>2. pc["closer"] \notin {"clear", "closed"}
    BY <1>6 DEF IInv, PhaseInv, ShutInv
  <2>3. QED
    BY <2>1, <2>2 DEF IInv, PhaseInv, ShutInv
<1>18. StatInv'
  BY StatFrame DEF IInv, PhaseInv
<1>19. QED
  BY <1>7, <1>9, <1>10, <1>11, <1>12, <1>13, <1>14, <1>15, <1>16, <1>17, <1>18
  DEF IInv, PhaseInv

\* A thread that finds the session in SessionManager sends to it or ends it.
LEMMA AppCallAction ==
    ASSUME IInv, NEW a \in Apps, NEW l \in {"send", "dc"}, AppCall(a, l)
    PROVE  IInv'
<1>1. pc[a] = "idle" /\ registered # "no" /\ Goto(a, l)
  BY DEF AppCall, At
<1>2. /\ a \in Actors /\ a # "acceptor" /\ a # "closer" /\ a # "logic" /\ a \notin Workers
      /\ l \in Labels
  BY ActorFacts DEF Labels
<1>3. SameAll
  BY DEF AppCall, SameAll, flags, locks, sendVars, ioVars, jobVars, world, history
<1>4. CASE Young
  BY <1>1, <1>3, <1>4, YoungMove
<1>5. CASE ~Young
  <2>1. Allowed(a, l)
    BY <1>1, <1>2
    DEF Allowed, Inside, Posting, Hold, FlagHeld, Receiving, DiscUse, Ending, Cleaning, YoungLabels
  <2>2. QED
    BY <1>1, <1>2, <1>3, <1>5, <2>1, PureMove
<1>6. QED
  BY <1>4, <1>5

-----------------------------------------------------------------------------
(* begin_shutdown and wait_for_shutdown *)

\* The shutdown begins under _io_lock, so no thread is inside register_send.
LEMMA BeginShutdownAction ==
    ASSUME IInv, BeginShutdown
    PROVE  IInv'
<1>1. /\ pc["closer"] = "idle" /\ pc["acceptor"] \in {"idle", "done"} /\ ioLock = NoActor
      /\ Goto("closer", "bsClose")
  BY DEF BeginShutdown, At, ListenerQuiet
<1> USE <1>1
<1>2. /\ "closer" \in Actors /\ "closer" \notin Workers /\ "closer" \notin Apps
      /\ "closer" # "acceptor" /\ "closer" # "logic"
  BY ActorFacts
<1> USE <1>2
<1>3. /\ isConnect' = isConnect /\ wasConnected' = wasConnected
      /\ isDisconnect' = isDisconnect /\ shutdownStarted' = TRUE
      /\ closeAfterSend' = closeAfterSend /\ isSendRegister' = isSendRegister
      /\ ioLock' = "closer" /\ sendQueue' = sendQueue /\ batch' = batch /\ sent' = sent
      /\ owner' = owner /\ posted' = posted /\ pendingIo' = pendingIo
      /\ jobQueue' = jobQueue /\ pendingJobs' = pendingJobs /\ cleanupDone' = cleanupDone
      /\ registered' = registered /\ connects' = connects /\ disconnects' = disconnects
      /\ sendFailed' = sendFailed /\ cleanups' = cleanups /\ lateHandlers' = lateHandlers
  BY DEF BeginShutdown, sendVars, ioVars, world, history
<1> USE <1>3
<1>4. pc'["closer"] = "bsClose" /\ Stay("closer") /\ pc' \in [Actors -> Labels]
  <2>1. "bsClose" \in Labels
    BY DEF Labels
  <2>2. QED
    BY <2>1, GotoFacts DEF IInv
<1> USE <1>4
<1>5. TypeInv'
  BY DEF IInv, TypeInv
<1>6. \A l \in {"idle", "bsClose"} :
        /\ l \notin Hold /\ l \notin FlagHeld /\ l \notin Posting /\ l \notin Receiving
        /\ l \notin DiscUse /\ l \notin Ending /\ l \notin Cleaning
  BY DEF Hold, FlagHeld, Posting, Receiving, DiscUse, Ending, Cleaning
<1> USE <1>6
<1>7. SendInv'
  <2>1. Token("send", Hold)'
    BY TokenFrame DEF IInv, SendInv, Events
  <2>2. PostingInv'
    <3>1. \A b \in Actors : pc[b] \notin Posting
      BY ActorFacts DEF IInv, SendInv, PostingInv
    <3>2. QED
      BY <3>1, PostingFrame DEF IInv, SendInv
  <2>3. FlagInv'
    BY FlagFrame DEF IInv, SendInv
  <2>4. QueueInv'
    BY QueueFrame, SMTT(30) DEF IInv, SendInv
  <2>5. FailureDisconnects'
    BY FailFrame DEF IInv, SendInv
  <2>6. QED
    BY <2>1, <2>2, <2>3, <2>4, <2>5 DEF SendInv
<1>8. RecvInv'
  BY RecvFrame DEF IInv
<1>9. DiscInv'
  BY DiscFrame DEF IInv
<1>10. CleanupInv'
  BY CleanupFrame DEF IInv
<1>11. JobInv'
  BY JobFrame DEF IInv
<1>12. CountInv'
  BY CountFrame DEF IInv
<1>13. pc'["acceptor"] = pc["acceptor"]
  BY ActorFacts DEF Stay
<1>14. YoungInv'
  <2>1. ~Young'
    BY <1>13 DEF Young, YoungLabels
  <2>2. QED
    BY <1>13, <2>1 DEF IInv, PhaseInv, YoungInv
<1>15. CloserInv'
  BY <1>13 DEF CloserInv
<1>16. ShutInv'
  BY DEF ShutInv
<1>17. StatInv'
  BY StatFrame DEF IInv, PhaseInv
<1>18. QED
  BY <1>5, <1>7, <1>8, <1>9, <1>10, <1>11, <1>12, <1>14, <1>15, <1>16, <1>17
  DEF IInv, PhaseInv

\* The closer past the beginning, in a session that is settled.
LEMMA CloserFacts ==
    ASSUME IInv, pc["closer"] # "idle"
    PROVE  /\ "closer" \in Actors /\ "closer" \notin Workers /\ "closer" \notin Apps
           /\ "closer" # "acceptor" /\ "closer" # "logic" /\ ~Young
  BY ActorFacts DEF IInv, PhaseInv, YoungInv

\* The connection flag is reset and the socket closed.
LEMMA BsCloseAction ==
    ASSUME IInv, BsClose
    PROVE  IInv'
<1>1. pc["closer"] = "bsClose" /\ Goto("closer", "pd")
  BY DEF BsClose, At
<1> USE <1>1
<1>2. /\ "closer" \in Actors /\ "closer" \notin Workers /\ "closer" \notin Apps
      /\ "closer" # "acceptor" /\ "closer" # "logic" /\ ~Young
  BY CloserFacts
<1> USE <1>2
<1>3. /\ isConnect' = FALSE /\ wasConnected' = wasConnected
      /\ isDisconnect' = isDisconnect /\ shutdownStarted' = shutdownStarted
      /\ closeAfterSend' = closeAfterSend /\ isSendRegister' = isSendRegister
      /\ sendQueue' = sendQueue /\ batch' = batch /\ sent' = sent
      /\ owner' = owner /\ posted' = posted /\ pendingIo' = pendingIo
      /\ jobQueue' = jobQueue /\ pendingJobs' = pendingJobs /\ cleanupDone' = cleanupDone
      /\ registered' = registered /\ connects' = connects /\ disconnects' = disconnects
      /\ sendFailed' = sendFailed /\ cleanups' = cleanups /\ lateHandlers' = lateHandlers
  BY DEF BsClose, sendVars, jobVars, world, history
<1> USE <1>3
<1>4. pc'["closer"] = "pd" /\ Stay("closer") /\ pc' \in [Actors -> Labels]
  <2>1. "pd" \in Labels
    BY DEF Labels
  <2>2. QED
    BY <2>1, GotoFacts DEF IInv
<1> USE <1>4
<1>5. TypeInv'
  BY DEF IInv, TypeInv
<1>6. /\ "pd" \notin Hold /\ "pd" \notin Posting /\ "pd" \notin Receiving
      /\ "pd" \notin DiscUse /\ "pd" \notin Cleaning
  BY DEF Hold, Posting, Receiving, DiscUse, Cleaning
<1> USE <1>6
<1>7. SendInv'
  <2>1. Token("send", Hold)'
    BY TokenFrame DEF IInv, SendInv, Events
  <2>2. PostingInv'
    <3>1. shutdownStarted
      BY DEF IInv, PhaseInv, CloserInv
    <3>2. \A b \in Actors : pc[b] \notin Posting
      BY <3>1 DEF IInv, SendInv, PostingInv
    <3>3. QED
      BY <3>2, PostingFrame DEF IInv, SendInv
  <2>3. FlagInv' /\ QueueInv' /\ FailureDisconnects'
    BY DEF FlagInv, QueueInv, FailureDisconnects
  <2>4. QED
    BY <2>1, <2>2, <2>3 DEF SendInv
<1>8. RecvInv'
  BY RecvFrame DEF IInv
<1>9. DiscInv'
  BY DiscFrame DEF IInv
<1>10. CleanupInv'
  BY CleanupFrame DEF IInv
<1>11. JobInv'
  BY JobFrame DEF IInv
<1>12. CountInv'
  BY CountFrame DEF IInv
<1>13. YoungInv'
  BY YoungFrame DEF IInv, PhaseInv
<1>14. CloserInv'
  <2>1. pc'["acceptor"] = pc["acceptor"]
    BY ActorFacts DEF Stay
  <2>2. shutdownStarted /\ pc["acceptor"] \in {"idle", "done"}
    BY DEF IInv, PhaseInv, CloserInv
  <2>3. QED
    BY <2>1, <2>2 DEF CloserInv
<1>15. ShutInv'
  BY DEF ShutInv
<1>16. StatInv'
  BY StatFrame DEF IInv, PhaseInv
<1>17. QED
  BY <1>5, <1>7, <1>8, <1>9, <1>10, <1>11, <1>12, <1>13, <1>14, <1>15, <1>16
  DEF IInv, PhaseInv

\* The closer waits: it goes on when what it waits for holds.
LEMMA WaitStep ==
    ASSUME IInv, NEW l \in {"waitJobs", "clear", "closed"}, Goto("closer", l),
           pc["closer"] \in {"waitIo", "waitJobs", "clear"},
           UNCHANGED <<flags, ioLock, sent, owner, posted, pendingIo, jobQueue, pendingJobs,
                       cleanupDone, world, sendFailed, cleanups, lateHandlers>>,
           ShutInv'
    PROVE  IInv'
<1>1. ~isConnect
  BY DEF IInv, PhaseInv, CloserInv
<1>2. /\ "closer" \in Actors /\ "closer" \notin Workers /\ "closer" \notin Apps
      /\ "closer" # "acceptor" /\ "closer" # "logic" /\ ~Young
  BY CloserFacts
<1> USE <1>2
<1>3. /\ isConnect' = isConnect /\ wasConnected' = wasConnected
      /\ isDisconnect' = isDisconnect /\ shutdownStarted' = shutdownStarted
      /\ closeAfterSend' = closeAfterSend /\ isSendRegister' = isSendRegister
      /\ registered' = registered /\ connects' = connects /\ disconnects' = disconnects
  BY DEF flags, world
<1> USE <1>3
<1>4. pc'["closer"] = l /\ Stay("closer") /\ pc' \in [Actors -> Labels] /\ l \in Labels
  <2>1. l \in Labels
    BY DEF Labels
  <2>2. QED
    BY <2>1, GotoFacts DEF IInv
<1> USE <1>4
<1>5. TypeInv'
  BY DEF IInv, TypeInv
<1>6. /\ l \notin Hold /\ l \notin Posting /\ l \notin Receiving
      /\ l \notin DiscUse /\ l \notin Ending /\ l \notin Cleaning
  BY DEF Hold, Posting, Receiving, DiscUse, Ending, Cleaning
<1> USE <1>6
<1>7. SendInv'
  <2>1. Token("send", Hold)'
    BY TokenFrame DEF IInv, SendInv, Events
  <2>2. PostingInv'
    BY PostingFrame DEF IInv, SendInv
  <2>3. FlagInv' /\ QueueInv' /\ FailureDisconnects'
    BY <1>1 DEF FlagInv, QueueInv, FailureDisconnects
  <2>4. QED
    BY <2>1, <2>2, <2>3 DEF SendInv
<1>8. RecvInv'
  BY <1>1, RecvFrame DEF IInv
<1>9. DiscInv'
  BY DiscFrame DEF IInv
<1>10. Inside("closer", l)
  BY DEF Inside, YoungLabels
<1>11. /\ CleanupInv' /\ JobInv' /\ YoungInv' /\ CloserInv' /\ StatInv'
  BY <1>10, InsideStep
<1>12. CountInv'
  BY CountFrame DEF IInv
<1>13. QED
  BY <1>5, <1>7, <1>8, <1>9, <1>11, <1>12 DEF IInv, PhaseInv

\* wait_for_io returns when the last request and callback is gone.
LEMMA WaitIoAction ==
    ASSUME IInv, WaitIo
    PROVE  IInv'
<1>1. /\ pc["closer"] = "waitIo" /\ pendingIo = 0 /\ Goto("closer", "waitJobs")
      /\ UNCHANGED <<flags, ioLock, sendQueue, batch, sent, owner, posted, pendingIo,
                     jobQueue, pendingJobs, cleanupDone, world, sendFailed, cleanups,
                     lateHandlers>>
  BY DEF WaitIo, At, locks, sendVars, ioVars, jobVars, history
<1>2. pc'["closer"] = "waitJobs"
  BY <1>1, GotoFacts, ActorFacts DEF IInv, Labels
<1>3. ShutInv'
  BY <1>1, <1>2 DEF ShutInv
<1>4. QED
  BY <1>1, <1>3, WaitStep

\* wait_for_shutdown returns from waiting for the jobs after the cleanup.
LEMMA WaitJobsAction ==
    ASSUME IInv, WaitJobs
    PROVE  IInv'
<1>1. /\ pc["closer"] = "waitJobs" /\ cleanupDone /\ pendingJobs = 0 /\ Goto("closer", "clear")
      /\ UNCHANGED <<flags, ioLock, sendQueue, batch, sent, owner, posted, pendingIo,
                     jobQueue, pendingJobs, cleanupDone, world, sendFailed, cleanups,
                     lateHandlers>>
  BY DEF WaitJobs, At, LogicCompleted, locks, sendVars, ioVars, jobVars, history
<1>2. pc'["closer"] = "clear"
  BY <1>1, GotoFacts, ActorFacts DEF IInv, Labels
<1>3. cleanupDone' /\ pendingJobs' = 0 /\ pendingIo' = 0
  BY <1>1 DEF IInv, PhaseInv, ShutInv
<1>4. ShutInv'
  BY <1>2, <1>3 DEF ShutInv
<1>5. QED
  BY <1>1, <1>4, WaitStep

\* The messages that were not sent are dropped.
LEMMA ClearSendsAction ==
    ASSUME IInv, ClearSends
    PROVE  IInv'
<1>1. /\ pc["closer"] = "clear" /\ Goto("closer", "closed") /\ sendQueue' = <<>> /\ batch' = <<>>
      /\ UNCHANGED <<flags, ioLock, sent, owner, posted, pendingIo,
                     jobQueue, pendingJobs, cleanupDone, world, sendFailed, cleanups,
                     lateHandlers>>
  BY DEF ClearSends, At, locks, ioVars, jobVars, history
<1>2. cleanupDone' /\ pendingJobs' = 0 /\ pendingIo' = 0
  BY <1>1 DEF IInv, PhaseInv, ShutInv
<1>3. ShutInv'
  BY <1>1, <1>2 DEF ShutInv
<1>4. QED
  BY <1>1, <1>3, WaitStep

-----------------------------------------------------------------------------
(* Accept *)

\* A young session is quiet.
LEMMA YoungFacts ==
    ASSUME IInv, Young
    PROVE  /\ "acceptor" \in Actors /\ "acceptor" \notin Workers /\ "acceptor" \notin Apps
           /\ "acceptor" # "closer" /\ "acceptor" # "logic"
           /\ pc["closer"] = "idle" /\ ~shutdownStarted
           /\ cleanups = 0 /\ disconnects = 0
           /\ ~isSendRegister /\ ~isDisconnect /\ ~sendFailed /\ sendQueue = <<>>
           /\ posted["recv"] = 0 /\ posted["send"] = 0 /\ posted["disc"] = 0
           /\ \A b \in Actors : /\ pc[b] \notin FlagHeld /\ pc[b] \notin Hold
                                /\ pc[b] \notin Posting /\ pc[b] \notin Receiving
                                /\ pc[b] \notin DiscUse /\ pc[b] \notin Ending
                                /\ pc[b] \notin Cleaning
<1>1. /\ "acceptor" \in Actors /\ "acceptor" \notin Workers /\ "acceptor" \notin Apps
      /\ "acceptor" # "closer" /\ "acceptor" # "logic"
  BY ActorFacts
<1>2. pc["closer"] = "idle" /\ ~shutdownStarted
  BY DEF IInv, PhaseInv, CloserInv, Young, YoungLabels
<1>3. /\ ~isSendRegister /\ ~isDisconnect /\ ~sendFailed /\ sendQueue = <<>>
      /\ posted["recv"] = 0 /\ posted["send"] = 0 /\ posted["disc"] = 0
  BY DEF IInv, PhaseInv, YoungInv, Events
<1>4. cleanups = 0
  BY <1>3 DEF IInv, CleanupInv
<1>5. disconnects = 0
  <2>1. ~(cleanups > 0)
    BY <1>4, SMTT(30)
  <2>2. QED
    BY <2>1 DEF IInv, PhaseInv, StatInv
<1>6. \A b \in Actors : pc[b] \in YoungLabels \cup {"idle", "send", "dc"}
  BY DEF IInv, PhaseInv, YoungInv, Young
<1>7. \A l \in YoungLabels \cup {"idle", "send", "dc"} :
         /\ l \notin FlagHeld /\ l \notin Hold /\ l \notin Posting /\ l \notin Receiving
         /\ l \notin DiscUse /\ l \notin Ending /\ l \notin Cleaning
  BY SMTT(30) DEF YoungLabels, FlagHeld, Hold, Posting, Receiving, DiscUse, Ending, Cleaning
<1>8. QED
  BY <1>1, <1>2, <1>3, <1>4, <1>5, <1>6, <1>7

\* The acceptor goes on and may connect the session.
LEMMA YoungStep ==
    ASSUME IInv, Young, NEW l \in {"was", "conn", "rejectFlag", "rejectSet", "rr", "send", "done"},
           Goto("acceptor", l), isConnect' \in BOOLEAN, wasConnected' \in BOOLEAN,
           closeAfterSend' \in BOOLEAN, connects' \in Nat,
           UNCHANGED <<isDisconnect, shutdownStarted, isSendRegister, ioLock, sendQueue, batch,
                       sent, owner, posted, pendingIo, jobQueue, pendingJobs, cleanupDone,
                       disconnects, sendFailed, cleanups, lateHandlers>>,
           RecvArmed', YoungInv', StatInv'
    PROVE  IInv'
<1>1. /\ "acceptor" \in Actors /\ "acceptor" \notin Workers /\ "acceptor" \notin Apps
      /\ "acceptor" # "closer" /\ "acceptor" # "logic"
      /\ pc["closer"] = "idle" /\ ~shutdownStarted
      /\ ~isSendRegister /\ ~isDisconnect /\ ~sendFailed /\ sendQueue = <<>>
      /\ posted["recv"] = 0 /\ posted["send"] = 0 /\ posted["disc"] = 0
      /\ \A b \in Actors : /\ pc[b] \notin FlagHeld /\ pc[b] \notin Hold
                           /\ pc[b] \notin Posting /\ pc[b] \notin Receiving
                           /\ pc[b] \notin DiscUse /\ pc[b] \notin Ending
  BY YoungFacts
<1> USE <1>1
<1>2. pc'["acceptor"] = l /\ Stay("acceptor") /\ pc' \in [Actors -> Labels]
  <2>1. l \in Labels
    BY SMTT(30) DEF Labels
  <2>2. QED
    BY <2>1, GotoFacts DEF IInv
<1> USE <1>2
<1>3. /\ l \notin FlagHeld /\ l \notin Hold /\ l \notin Posting
      /\ l \notin DiscUse /\ l \notin Ending /\ l \notin Cleaning
  BY SMTT(30) DEF FlagHeld, Hold, Posting, DiscUse, Ending, Cleaning
<1>4. TypeInv'
  BY DEF IInv, TypeInv
<1>5. \A b \in Actors : /\ pc'[b] \notin FlagHeld /\ pc'[b] \notin Posting
                        /\ pc'[b] \notin Ending
  BY <1>3 DEF Stay
<1>6. SendInv'
  <2>1. Token("send", Hold)'
    BY TokenEnter DEF Events
  <2>2. PostingInv'
    BY <1>5 DEF PostingInv
  <2>3. FlagInv'
    <3>1. ~(posted'["send"] > 0)
      BY SMTT(30)
    <3>2. ~isSendRegister'
      BY SMTT(30)
    <3>3. QED
      BY <1>5, <3>1, <3>2 DEF FlagInv
  <2>4. QueueInv' /\ FailureDisconnects'
    BY DEF QueueInv, FailureDisconnects
  <2>5. QED
    BY <2>1, <2>2, <2>3, <2>4 DEF SendInv
<1>7. RecvInv'
  <2>1. Token("recv", Receiving)'
    BY TokenEnter DEF Events
  <2>2. QED
    BY <2>1 DEF RecvInv
<1>8. DiscInv'
  <2>1. Token("disc", DiscUse)'
    BY TokenEnter DEF Events
  <2>2. QED
    BY <1>5, <2>1 DEF DiscInv, EndInv
<1>9. CleanupInv'
  BY <1>3, CleanupFrame DEF IInv
<1>10. JobInv'
  BY JobFrame DEF IInv
<1>11. CountInv'
  BY CountFrame DEF IInv
<1>12. CloserInv'
  <2>1. pc'["closer"] = "idle"
    BY ActorFacts DEF Stay
  <2>2. QED
    BY <2>1 DEF CloserInv
<1>13. ShutInv'
  BY ShutEarly
<1>14. QED
  BY <1>4, <1>6, <1>7, <1>8, <1>9, <1>10, <1>11, <1>12, <1>13 DEF IInv, PhaseInv

\* The listener hands the session over, rejects it, or drops it.
LEMMA AcceptAction ==
    ASSUME IInv, NEW o \in Outcomes, Accept(o)
    PROVE  IInv'
<1>1. /\ pc["acceptor"] = "idle" /\ Young
      /\ registered' = (IF o = "accept" THEN "yes" ELSE registered)
      /\ UNCHANGED <<isConnect, wasConnected, closeAfterSend, isDisconnect, shutdownStarted,
                     isSendRegister, ioLock, sendQueue, batch, sent, owner, posted, pendingIo,
                     jobQueue, pendingJobs, cleanupDone, connects, disconnects, sendFailed,
                     cleanups, lateHandlers>>
  BY DEF Accept, At, Young, flags, locks, sendVars, ioVars, jobVars, history
<1> USE <1>1
<1>2. PICK l \in {"was", "rejectFlag", "done"} :
         Goto("acceptor", l) /\ (l = "was" \/ registered' = registered)
  <2>1. o \in {"accept", "reject", "cancel"}
    BY SessionAssumption, SMTT(30)
  <2>2. CASE o = "accept"
    BY <2>2, SMTT(30) DEF Accept
  <2>3. CASE o = "reject"
    BY <2>3, SMTT(30) DEF Accept
  <2>4. CASE o = "cancel"
    BY <2>4, SMTT(30) DEF Accept
  <2>5. QED
    BY <2>1, <2>2, <2>3, <2>4
<1>3. /\ "acceptor" \in Actors /\ cleanups = 0 /\ pc["closer"] = "idle"
      /\ ~isSendRegister /\ ~isDisconnect /\ ~sendFailed /\ sendQueue = <<>>
  BY YoungFacts
<1>4. pc'["acceptor"] = l /\ Stay("acceptor")
  <2>1. l \in Labels
    BY SMTT(30) DEF Labels
  <2>2. QED
    BY <1>2, <1>3, <2>1, GotoFacts DEF IInv
<1>5. /\ ~isConnect /\ ~wasConnected /\ registered = "no" /\ jobQueue = <<>>
      /\ \A e \in Events : posted[e] = 0
      /\ \A b \in Actors \ {"acceptor"} : pc[b] = "idle"
  BY DEF IInv, PhaseInv, YoungInv
<1> USE <1>5
<1>6. RecvArmed'
  BY DEF RecvArmed
<1>7. YoungInv'
  <2>1. \A b \in Actors \ {"acceptor"} : pc'[b] = "idle"
    BY <1>4 DEF Stay
  <2>2. l # "rejectSet" /\ l # "idle" /\ l # "conn" /\ (l = "rejectFlag" => registered' = "no")
    BY <1>2
  <2>3. QED
    BY <1>3, <1>4, <2>1, <2>2 DEF YoungInv
<1>8. StatInv'
  <2>1. ~(cleanups > 0)
    BY <1>3, SMTT(30)
  <2>2. QED
    BY <2>1 DEF IInv, PhaseInv, StatInv
<1>9. /\ isConnect' \in BOOLEAN /\ wasConnected' \in BOOLEAN
      /\ closeAfterSend' \in BOOLEAN /\ connects' \in Nat
  BY DEF IInv, TypeInv
<1>10. QED
  BY <1>2, <1>6, <1>7, <1>8, <1>9, YoungStep

\* process_connect: the session becomes visible, then connected.
LEMMA ConnectAction ==
    ASSUME IInv, Connect
    PROVE  IInv'
<1>1. /\ Young /\ pc["acceptor"] \in {"was", "conn"}
      /\ UNCHANGED <<closeAfterSend, isDisconnect, shutdownStarted,
                     isSendRegister, ioLock, sendQueue, batch, sent, owner, posted, pendingIo,
                     jobQueue, pendingJobs, cleanupDone, registered, disconnects, sendFailed,
                     cleanups, lateHandlers>>
  BY DEF Connect, ProcessConnect, At, Young, YoungLabels, locks, sendVars, ioVars, jobVars, history
<1> USE <1>1
<1>2. /\ "acceptor" \in Actors /\ cleanups = 0 /\ disconnects = 0
      /\ ~isSendRegister /\ ~isDisconnect /\ ~sendFailed /\ sendQueue = <<>>
  BY YoungFacts
<1> USE <1>2
<1>3. ~(cleanups > 0)
  BY SMTT(30)
<1>4. closeAfterSend' \in BOOLEAN
  BY DEF IInv, TypeInv
<1>5. ~isConnect
  BY DEF IInv, PhaseInv, YoungInv
<1>6. registered # "yes" \/ ~(cleanups > 0)
  BY <1>3, SMTT(30)
<1>7. CASE /\ pc["acceptor"] = "was" /\ wasConnected' = TRUE /\ Goto("acceptor", "conn")
           /\ UNCHANGED <<isConnect, connects>>
  <2>1. pc'["acceptor"] = "conn" /\ Stay("acceptor")
    BY <1>7, GotoFacts DEF IInv, Labels
  <2>2. RecvArmed'
    BY <1>5, <1>7 DEF RecvArmed
  <2>3. YoungInv'
    <3>1. /\ jobQueue = <<>> /\ \A e \in Events : posted[e] = 0
          /\ \A b \in Actors \ {"acceptor"} :
                 pc[b] = "idle" \/ (b \in Apps /\ registered # "no" /\ pc[b] \in {"send", "dc"})
      BY DEF IInv, PhaseInv, YoungInv
    <3>2. \A b \in Actors \ {"acceptor"} :
              pc'[b] = "idle" \/ (b \in Apps /\ registered' # "no" /\ pc'[b] \in {"send", "dc"})
      BY <2>1, <3>1 DEF Stay
    <3>3. QED
      BY <1>5, <1>7, <2>1, <3>1, <3>2 DEF YoungInv
  <2>4. StatInv'
    <3>1. connects = 0
      BY <1>7 DEF IInv, PhaseInv, StatInv, YoungInv
    <3>2. QED
      BY <1>3, <1>7, <2>1, <3>1 DEF StatInv
  <2>5. isConnect' \in BOOLEAN /\ connects' \in Nat /\ wasConnected' \in BOOLEAN
    BY <1>7 DEF IInv, TypeInv
  <2>6. QED
    BY <1>4, <1>7, <2>2, <2>3, <2>4, <2>5, YoungStep
<1>8. CASE /\ pc["acceptor"] = "conn" /\ isConnect' = TRUE /\ Goto("acceptor", "rr")
           /\ connects' = connects + 1 /\ UNCHANGED wasConnected
  <2>1. pc'["acceptor"] = "rr" /\ Stay("acceptor")
    BY <1>8, GotoFacts DEF IInv, Labels
  <2>2. RecvArmed'
    BY <2>1 DEF RecvArmed
  <2>3. YoungInv'
    BY <2>1 DEF YoungInv, Young, YoungLabels
  <2>4. connects = 0 /\ wasConnected
    BY <1>8 DEF IInv, PhaseInv, StatInv, YoungInv
  <2>5. connects' = 1 /\ connects' \in Nat
    BY <1>8, <2>4, SMTT(30)
  <2>6. StatInv'
    BY <1>3, <1>8, <2>1, <2>4, <2>5 DEF StatInv
  <2>7. isConnect' \in BOOLEAN /\ wasConnected' \in BOOLEAN
    BY <1>8 DEF IInv, TypeInv
  <2>8. QED
    BY <1>4, <1>8, <2>2, <2>3, <2>5, <2>6, <2>7, YoungStep
<1>9. QED
  BY <1>7, <1>8 DEF Connect, ProcessConnect, At

\* reject_connection connects the session for the notice.
LEMMA RejectFlagAction ==
    ASSUME IInv, RejectFlag
    PROVE  IInv'
<1>1. /\ Young /\ pc["acceptor"] = "rejectFlag" /\ isConnect' = TRUE
      /\ Goto("acceptor", IF isConnect THEN "done" ELSE "rejectSet")
      /\ UNCHANGED <<wasConnected, closeAfterSend, isDisconnect, shutdownStarted,
                     isSendRegister, ioLock, sendQueue, batch, sent, owner, posted, pendingIo,
                     jobQueue, pendingJobs, cleanupDone, registered, connects, disconnects,
                     sendFailed, cleanups, lateHandlers>>
  BY DEF RejectFlag, At, Young, YoungLabels, locks, sendVars, ioVars, jobVars, world, history
<1> USE <1>1
<1>2. /\ "acceptor" \in Actors /\ cleanups = 0 /\ disconnects = 0
      /\ ~isSendRegister /\ ~isDisconnect /\ ~sendFailed /\ sendQueue = <<>>
  BY YoungFacts
<1>3. /\ ~isConnect /\ ~wasConnected /\ registered = "no"
      /\ jobQueue = <<>> /\ \A e \in Events : posted[e] = 0
      /\ \A b \in Actors \ {"acceptor"} : pc[b] = "idle"
  BY DEF IInv, PhaseInv, YoungInv
<1>4. Goto("acceptor", "rejectSet") /\ "rejectSet" \in Labels
  BY <1>3 DEF Labels
<1>5. pc'["acceptor"] = "rejectSet" /\ Stay("acceptor")
  BY <1>2, <1>4, GotoFacts DEF IInv
<1>6. RecvArmed'
  BY <1>5 DEF RecvArmed
<1>7. YoungInv'
  <2>1. \A b \in Actors \ {"acceptor"} : pc'[b] = "idle"
    BY <1>3, <1>5 DEF Stay
  <2>2. QED
    BY <1>2, <1>3, <1>5, <2>1 DEF YoungInv
<1>8. StatInv'
  BY <1>3, <1>5 DEF IInv, PhaseInv, StatInv
<1>9. /\ isConnect' \in BOOLEAN /\ wasConnected' \in BOOLEAN
      /\ closeAfterSend' \in BOOLEAN /\ connects' \in Nat
  BY DEF IInv, TypeInv
<1>10. QED
  BY <1>4, <1>6, <1>7, <1>8, <1>9, YoungStep

\* reject_connection marks the session to be closed after the notice.
LEMMA RejectSetAction ==
    ASSUME IInv, RejectSet
    PROVE  IInv'
<1>1. /\ Young /\ pc["acceptor"] = "rejectSet" /\ wasConnected' = TRUE /\ closeAfterSend' = TRUE
      /\ connects' = connects + 1 /\ Goto("acceptor", "send")
      /\ UNCHANGED <<isConnect, isDisconnect, shutdownStarted,
                     isSendRegister, ioLock, sendQueue, batch, sent, owner, posted, pendingIo,
                     jobQueue, pendingJobs, cleanupDone, registered, disconnects,
                     sendFailed, cleanups, lateHandlers>>
  BY DEF RejectSet, At, Young, YoungLabels, locks, sendVars, ioVars, jobVars, history
<1> USE <1>1
<1>2. "acceptor" \in Actors /\ cleanups = 0 /\ disconnects = 0
  BY YoungFacts
<1>3. ~(cleanups > 0)
  BY <1>2, SMTT(30)
<1>4. connects = 0
  BY DEF IInv, PhaseInv, YoungInv, StatInv
<1>5. connects' = 1 /\ connects' \in Nat
  BY <1>4, SMTT(30)
<1>6. pc'["acceptor"] = "send" /\ Stay("acceptor")
  <2>1. "send" \in Labels
    BY DEF Labels
  <2>2. QED
    BY <1>2, <2>1, GotoFacts DEF IInv
<1>7. RecvArmed'
  BY DEF RecvArmed
<1>8. YoungInv'
  BY <1>6 DEF YoungInv, Young, YoungLabels
<1>9. StatInv'
  BY <1>2, <1>3, <1>5, <1>6 DEF StatInv
<1>10. isConnect' \in BOOLEAN /\ wasConnected' \in BOOLEAN /\ closeAfterSend' \in BOOLEAN
  BY DEF IInv, TypeInv
<1>11. QED
  BY <1>5, <1>7, <1>8, <1>9, <1>10, YoungStep

-----------------------------------------------------------------------------
(* The inductive invariant *)

\* A session just constructed: no thread in its code, nothing requested or queued.
LEMMA InitInv == Init => IInv
<1> SUFFICES ASSUME Init PROVE IInv
  BY SMTT(30)
<1>1. /\ ~isConnect /\ ~wasConnected /\ ~isDisconnect /\ ~shutdownStarted /\ ~isSendRegister
      /\ ~sendFailed /\ ~cleanupDone /\ sendQueue = <<>> /\ jobQueue = <<>>
      /\ pendingIo = 0 /\ pendingJobs = 0 /\ connects = 0 /\ disconnects = 0 /\ cleanups = 0
      /\ lateHandlers = 0 /\ registered = "no"
  BY DEF Init
<1> USE <1>1
<1>2. /\ \A e \in Events : posted[e] = 0
      /\ \A a \in Actors : pc[a] = "idle"
  BY SMTT(30) DEF Init
<1>3. /\ posted["recv"] = 0 /\ posted["send"] = 0 /\ posted["disc"] = 0
      /\ pc["acceptor"] = "idle" /\ pc["closer"] = "idle" /\ pc["logic"] = "idle"
  BY <1>2, ActorFacts DEF Events
<1> USE <1>3
<1>4. TypeInv
  <2>1. /\ owner \in [Events -> BOOLEAN] /\ posted \in [Events -> Nat]
        /\ pc \in [Actors -> Labels]
    BY SMTT(30) DEF Init, Labels
  <2>2. jobQueue \in Seq({"packet", "cleanup"}) /\ 0 \in Nat /\ 0 \in Int
    BY SMTT(30)
  <2>3. QED
    BY <2>1, <2>2 DEF Init, TypeInv
<1>5. "idle" \in Resting
  BY DEF Resting
<1>6. \A a \in Actors : /\ pc[a] \notin FlagHeld /\ pc[a] \notin Hold /\ pc[a] \notin Posting
                        /\ pc[a] \notin Receiving /\ pc[a] \notin DiscUse
                        /\ pc[a] \notin Cleaning
  BY <1>2, <1>5, RestingFacts
<1>7. 0 <= 1 /\ ~(0 > 0)
  BY SMTT(30)
<1> USE <1>7
<1>8. SendInv
  BY <1>6
  DEF SendInv, Token, PostingInv, FlagInv, QueueInv, FailureDisconnects
<1>9. RecvInv
  BY <1>6 DEF RecvInv, Token, RecvArmed
<1>10. DiscInv
  BY <1>6 DEF DiscInv, Token, EndInv
<1>11. CleanupInv
  <2>1. \A i \in Nat : ~CleanupAt(i)
    BY SMTT(30) DEF CleanupAt
  <2>2. QED
    BY <1>6, <2>1 DEF CleanupInv
<1>12. JobInv
  BY SMTT(30) DEF JobInv
<1>13. CountInv
  <2>1. \A w : Working(w) = 0
    BY <1>2, ActorFacts DEF Working
  <2>2. QED
    BY <2>1, SMTT(30) DEF CountInv, Callbacks
<1>14. YoungInv
  BY <1>2 DEF YoungInv
<1>15. CloserInv /\ ShutInv
  BY DEF CloserInv, ShutInv
<1>16. StatInv
  BY DEF StatInv
<1>17. QED
  BY <1>4, <1>8, <1>9, <1>10, <1>11, <1>12, <1>13, <1>14, <1>15, <1>16
  DEF IInv, PhaseInv

\* A stuttering step.
LEMMA Stutter ==
    ASSUME IInv, UNCHANGED vars
    PROVE  IInv'
<1>1. /\ UNCHANGED <<isConnect, wasConnected, isDisconnect, shutdownStarted, closeAfterSend,
                     isSendRegister, ioLock, sendQueue, batch, sent, owner, posted, pendingIo,
                     jobQueue, pendingJobs, cleanupDone, registered, connects, disconnects,
                     sendFailed, cleanups, lateHandlers>>
      /\ pc' = pc
  BY DEF vars, flags, locks, sendVars, ioVars, jobVars, world, history
<1> USE <1>1
<1>2. TypeInv'
  BY SMTT(30) DEF IInv, TypeInv
<1>3. SendInv'
  BY SMTT(30) DEF IInv, SendInv, Token, PostingInv, FlagInv, QueueInv, FailureDisconnects, At
<1>4. RecvInv'
  BY SMTT(30) DEF IInv, RecvInv, Token, RecvArmed
<1>5. DiscInv'
  BY SMTT(30) DEF IInv, DiscInv, Token, EndInv
<1>6. CleanupInv'
  BY SMTT(30) DEF IInv, CleanupInv, CleanupAt
<1>7. JobInv' /\ CountInv'
  BY SMTT(30) DEF IInv, JobInv, CountInv, Callbacks, Working
<1>8. YoungInv'
  BY SMTT(30) DEF IInv, PhaseInv, YoungInv, Young
<1>9. CloserInv' /\ ShutInv' /\ StatInv'
  BY SMTT(30) DEF IInv, PhaseInv, CloserInv, ShutInv, StatInv
<1>10. QED
  BY <1>2, <1>3, <1>4, <1>5, <1>6, <1>7, <1>8, <1>9 DEF IInv, PhaseInv

\* The steps of a thread inside the session's code.
LEMMA RunInv ==
    ASSUME IInv, NEW a \in Actors, Run(a)
    PROVE  IInv'
<1>1. CASE SendStep(a)
  BY <1>1, SendAction, SendLockAction, SendFlagAction, RegisterSendAction, RsDrainAction,
     RsPostOkAction, RsPostFailAction DEF SendStep
<1>2. CASE DisconnectStep(a)
  BY <1>2, DisconnectAction, RegisterDisconnectAction, ProcessDisconnectAction, PdClearAction,
     PdQueueAction DEF DisconnectStep
<1>3. CASE AcceptStep
  BY <1>3, ConnectAction, RejectFlagAction, RejectSetAction DEF AcceptStep
<1>4. CASE a \in Workers /\ CompletionStep(a)
  <2>1. CASE EventOf(a) = "recv" /\ RecvStep(a)
    BY <1>4, <2>1, ProcessRecvAction, OnRecvPacketAction, OnRecvEndAction DEF RecvStep
  <2>2. QED
    BY <1>4, <2>1, ProcessSendAction, PsEmptyAction, DiscDoneAction, FinishIoAction
    DEF CompletionStep
<1>5. CASE JobStep
  BY <1>5, PacketJobAction, CleanupJobAction, CleanupDoneAction, JobEndAction, HandlerAction
  DEF JobStep
<1>6. CASE ShutdownStep
  BY <1>6, BsCloseAction, WaitIoAction, WaitJobsAction, ClearSendsAction DEF ShutdownStep
<1>7. QED
  BY <1>1, <1>2, <1>3, <1>4, <1>5, <1>6, RegisterRecvAction, StartJobAction DEF Run

\* Every step keeps the invariant.
LEMMA NextInv == IInv /\ [Next]_vars => IInv'
<1> SUFFICES ASSUME IInv, [Next]_vars PROVE IInv'
  BY SMTT(30)
<1>1. CASE \E a \in Actors : Run(a)
  BY <1>1, RunInv
<1>2. CASE Kernel
  <2>1. CASE \E n \in 0..(MaxSends * MsgLen) : CompleteSend(n)
    <3>1. PICK n \in 0..(MaxSends * MsgLen) : CompleteSend(n)
      BY <2>1
    <3>2. MaxSends * MsgLen \in Nat
      BY SessionAssumption, SMTT(30)
    <3>3. n \in Nat
      BY <3>2, SMTT(30)
    <3>4. QED
      BY <3>1, <3>3, CompleteSendAction
  <2>2. QED
    BY <1>2, <2>1, CompleteRecvAction, CompleteDiscAction DEF Kernel
<1>3. CASE Call
  BY <1>3, AcceptAction, AppCallAction, BeginShutdownAction DEF Call
<1>4. CASE UNCHANGED vars
  BY <1>4, Stutter
<1>5. QED
  BY <1>1, <1>2, <1>3, <1>4 DEF Next, Terminated

\* The invariant of a session, for every number of threads and messages.
THEOREM SessionInvariant == Spec => []IInv
  BY InitInv, NextInv, PTL DEF Spec

-----------------------------------------------------------------------------
(* What it gives *)

\* No lost wake-up between send and process_send: a message in the queue of a
\* connected session has a thread or a completion that will send it.
THEOREM QueuedIsSent == Spec => []SendArmed
<1>1. IInv => SendArmed
  <2> SUFFICES ASSUME IInv, isConnect, sendQueue # <<>>
               PROVE  \/ posted["send"] = 1
                      \/ \E a \in Actors : pc[a] \in FlagHeld \cup {"sendFlag", "dc"}
    BY SMTT(30) DEF SendArmed, FlagHeld, Hold, Posting
  <2>1. isSendRegister => posted["send"] > 0 \/ \E a \in Actors : pc[a] \in FlagHeld
    BY DEF IInv, SendInv, FlagInv
  <2>2. isSendRegister \/ \E a \in Actors : pc[a] \in {"sendFlag", "dc"}
    BY DEF IInv, SendInv, QueueInv
  <2>3. posted["send"] <= 1 /\ posted["send"] \in Nat
    BY DEF IInv, SendInv, TypeInv, Token, Events
  <2>4. posted["send"] > 0 => posted["send"] = 1
    BY <2>3, SMTT(30)
  <2>5. QED
    BY <2>1, <2>2, <2>4
<1>2. QED
  BY <1>1, SessionInvariant, PTL

\* A connected session always has a receive pending, or a thread that is about to
\* issue one or to disconnect.
THEOREM ReceiveStaysArmed == Spec => []RecvArmed
<1>1. IInv => RecvArmed
  BY DEF IInv, RecvInv
<1>2. QED
  BY <1>1, SessionInvariant, PTL

\* After a failed send the thread that noticed is on its way to disconnect.
THEOREM FailedSendDisconnects == Spec => []FailureDisconnects
<1>1. IInv => FailureDisconnects
  BY DEF IInv, SendInv
<1>2. QED
  BY <1>1, SessionInvariant, PTL

\* When wait_for_shutdown has returned nothing of the session can run or be written
\* by the kernel, whatever late callers of send and disconnect do.
THEOREM ShutdownLeavesQuiet == Spec => []QuietAfterShutdown
<1>1. IInv => QuietAfterShutdown
  <2> SUFFICES ASSUME IInv, pc["closer"] = "closed"
               PROVE  /\ \A e \in Events : posted[e] = 0
                      /\ \A w \in Workers : pc[w] = "idle"
                      /\ jobQueue = <<>> /\ pc["logic"] = "idle"
                      /\ sendQueue = <<>> /\ batch = <<>>
                      /\ cleanups = 1 /\ registered # "yes"
                      /\ ~isConnect /\ connects = disconnects
    BY DEF QuietAfterShutdown, At
  <2>1. pendingIo = 0 /\ pendingJobs = 0 /\ cleanupDone /\ sendQueue = <<>> /\ batch = <<>>
    BY DEF IInv, PhaseInv, ShutInv
  <2>2. ~(pendingIo > 0)
    BY <2>1, SMTT(30)
  <2>3. \A w \in Workers : pc[w] = "idle"
    BY <2>2, IoPending
  <2>4. \A e \in Events : posted[e] = 0
    <3> SUFFICES ASSUME NEW e \in Events PROVE posted[e] = 0
      BY SMTT(30)
    <3>1. ~(posted[e] > 0) /\ posted[e] \in Nat
      BY <2>2, IoPending DEF IInv, TypeInv
    <3>2. QED
      BY <3>1, SMTT(30)
  <2>5. Len(jobQueue) = 0 /\ pc["logic"] = "idle"
    BY <2>1, SMTT(30) DEF IInv, TypeInv, JobInv
  <2>6. jobQueue = <<>>
    BY <2>5, SMTT(30) DEF IInv, TypeInv
  <2>7. cleanups > 0 /\ cleanups = 1
    <3>1. cleanups > 0 /\ cleanups <= 1 /\ cleanups \in Nat
      BY <2>1 DEF IInv, TypeInv, CleanupInv
    <3>2. QED
      BY <3>1, SMTT(30)
  <2>8. ~isConnect /\ pc["acceptor"] \in {"idle", "done"}
    BY DEF IInv, PhaseInv, CloserInv
  <2>9. registered # "yes" /\ connects = disconnects
    <3>1. pc["acceptor"] # "conn"
      BY <2>8
    <3>2. QED
      BY <2>7, <3>1 DEF IInv, PhaseInv, StatInv
  <2>10. QED
    BY <2>1, <2>3, <2>4, <2>5, <2>6, <2>7, <2>8, <2>9
<1>2. QED
  BY <1>1, SessionInvariant, PTL

-----------------------------------------------------------------------------
(* What is counted with Cardinality *)

\* The definition of Cardinality in FiniteSets.  The theorems on finite sets are
\* needed from here on only, and come with a FiniteSets of their own; through Size
\* they apply to the sets Session counts.
Size(S) ==
    LET CS[T \in SUBSET S] == IF T = {} THEN 0 ELSE 1 + CS[T \ {CHOOSE x : x \in T}]
    IN  CS[S]

\* Size is the Cardinality of Session.
LEMMA CardinalityIsSize ==
    ASSUME NEW S
    PROVE  Cardinality(S) = Size(S)
  BY DEF Cardinality, Size

LOCAL INSTANCE FiniteSetTheorems

\* Size is the Cardinality of the theorems.
LEMMA SizeOf ==
    ASSUME NEW S
    PROVE  Cardinality(S) = Size(S)
  BY DEF Cardinality, Size

\* A set of at most one member.
LEMMA AtMostOne ==
    ASSUME NEW S, \A x, y \in S : x = y
    PROVE  /\ S = {} => Size(S) = 0
           /\ S # {} => Size(S) = 1
<1>1. S = {} => Size(S) = 0
  BY FS_EmptySet, SizeOf
<1>2. ASSUME S # {} PROVE Size(S) = 1
  <2>1. PICK x \in S : TRUE
    BY <1>2
  <2>2. S = {x}
    BY <2>1
  <2>3. QED
    BY <2>2, FS_Singleton, SizeOf
<1>3. QED
  BY <1>1, <1>2

\* The one SendEvent has at most one user: the kernel, the completion callback or
\* the thread inside register_send, also while a disconnect resets the send flag.
THEOREM SendEventHasOneUser == Spec => []SendEventExclusive
<1>1. IInv => SendEventExclusive
  <2> SUFFICES ASSUME IInv PROVE SendEventExclusive
    BY SMTT(30)
  <2> DEFINE R == {a \in Actors : pc[a] \in {"rsDrain", "rsPost"}}
             C == {a \in Workers : pc[a] \in {"ps", "psEmpty"}}
  <2>1. Token("send", Hold) /\ posted["send"] \in Nat
    BY DEF IInv, SendInv, TypeInv, Events
  <2> USE <2>1
  <2>2. \A a \in R \cup C : a \in Actors /\ pc[a] \in Hold
    BY ActorFacts DEF Hold, Posting
  <2>3. \A a, b \in R \cup C : a = b
    BY <2>2 DEF Token
  <2>4. \A a \in R : a \notin C
    BY SMTT(30) DEF R, C
  <2> HIDE DEF R, C
  <2>5. /\ R = {} => Size(R) = 0
        /\ R # {} => Size(R) = 1
        /\ C = {} => Size(C) = 0
        /\ C # {} => Size(C) = 1
    <3>1. (\A a, b \in R : a = b) /\ (\A a, b \in C : a = b)
      BY <2>3
    <3>2. QED
      BY <3>1, AtMostOne
  <2>6. R = {} \/ C = {}
    <3>1. ASSUME NEW a \in R, NEW c \in C PROVE FALSE
      <4>1. a \in R \cup C /\ c \in R \cup C /\ a \notin C
        BY <2>4
      <4>2. a = c
        BY <2>3, <4>1
      <4>3. QED
        BY <4>1, <4>2
    <3>2. QED
      BY <3>1
  <2>7. R \cup C # {} => posted["send"] = 0
    <3>1. R \cup C # {} => ~(posted["send"] > 0)
      BY <2>2 DEF Token
    <3>2. QED
      BY <3>1, SMTT(30)
  <2>8. posted["send"] <= 1
    BY DEF Token
  <2>9. posted["send"] + Size(R) + Size(C) <= 1
    <3>1. CASE R = {} /\ C = {}
      BY <2>5, <2>8, <3>1, SMTT(30)
    <3>2. CASE R # {} /\ C = {}
      BY <2>5, <2>7, <3>2, SMTT(30)
    <3>3. CASE R = {} /\ C # {}
      BY <2>5, <2>7, <3>3, SMTT(30)
    <3>4. QED
      BY <2>6, <3>1, <3>2, <3>3
  <2>10. QED
    BY <2>9, CardinalityIsSize DEF SendEventExclusive, R, C
<1>2. QED
  BY <1>1, SessionInvariant, PTL

\* One more candidate for the set S.
LEMMA OneMore ==
    ASSUME NEW S, NEW T, NEW x, x \notin T, IsFiniteSet(S \cap T)
    PROVE  /\ IsFiniteSet(S \cap (T \cup {x}))
           /\ x \in S => Size(S \cap (T \cup {x})) = Size(S \cap T) + 1
           /\ x \notin S => Size(S \cap (T \cup {x})) = Size(S \cap T)
<1>1. CASE x \in S
  <2>1. S \cap (T \cup {x}) = (S \cap T) \cup {x} /\ x \notin S \cap T
    BY <1>1
  <2>2. QED
    BY <1>1, <2>1, FS_AddElement, SizeOf
<1>2. CASE x \notin S
  <2>1. S \cap (T \cup {x}) = S \cap T
    BY <1>2
  <2>2. QED
    BY <1>2, <2>1
<1>3. QED
  BY <1>1, <1>2

\* Callbacks is the number of workers in a callback.
LEMMA CallbacksCounted == Size({w \in Workers : pc[w] # "idle"}) = Callbacks
<1> DEFINE S == {w \in Workers : pc[w] # "idle"}
           T1 == {} \cup {"recv"}
           T2 == T1 \cup {"send"}
           T3 == T2 \cup {"disc"}
           T4 == T3 \cup {"recv2"}
           T5 == T4 \cup {"send2"}
<1>1. /\ "send" \notin T1 /\ "disc" \notin T2 /\ "recv2" \notin T3 /\ "send2" \notin T4
      /\ "recv" \notin {}
  BY SMTT(30)
<1>2. S \cap T5 = S /\ S \cap {} = {}
  BY WorkerNames
<1>3. \A w : (w \in S => Working(w) = 1) /\ (w \notin S => Working(w) = 0)
  BY DEF Working
<1> HIDE DEF S
<1>4. IsFiniteSet({}) /\ Size({}) = 0
  BY FS_EmptySet, SizeOf
<1>5. Size(S \cap T1) = Working("recv") /\ IsFiniteSet(S \cap T1)
  <2> HIDE DEF T1
  <2>1. /\ IsFiniteSet(S \cap T1)
        /\ "recv" \in S => Size(S \cap T1) = Size(S \cap {}) + 1
        /\ "recv" \notin S => Size(S \cap T1) = Size(S \cap {})
    BY <1>1, <1>2, <1>4, OneMore DEF T1
  <2>2. QED
    BY <1>2, <1>3, <1>4, <2>1, SMTT(30)
<1>6. Size(S \cap T2) = Working("recv") + Working("send") /\ IsFiniteSet(S \cap T2)
  <2> HIDE DEF T1
  <2>1. /\ IsFiniteSet(S \cap T2)
        /\ "send" \in S => Size(S \cap T2) = Size(S \cap T1) + 1
        /\ "send" \notin S => Size(S \cap T2) = Size(S \cap T1)
    BY <1>1, <1>5, OneMore
  <2> HIDE DEF T2
  <2>2. QED
    BY <1>3, <1>5, <2>1, SMTT(30)
<1>7. Size(S \cap T3) = Working("recv") + Working("send") + Working("disc") /\ IsFiniteSet(S \cap T3)
  <2> HIDE DEF T2
  <2>1. /\ IsFiniteSet(S \cap T3)
        /\ "disc" \in S => Size(S \cap T3) = Size(S \cap T2) + 1
        /\ "disc" \notin S => Size(S \cap T3) = Size(S \cap T2)
    BY <1>1, <1>6, OneMore
  <2> HIDE DEF T3
  <2>2. QED
    BY <1>3, <1>6, <2>1, SMTT(30)
<1>8. /\ Size(S \cap T4) = Working("recv") + Working("send") + Working("disc") + Working("recv2")
      /\ IsFiniteSet(S \cap T4)
  <2> HIDE DEF T3
  <2>1. /\ IsFiniteSet(S \cap T4)
        /\ "recv2" \in S => Size(S \cap T4) = Size(S \cap T3) + 1
        /\ "recv2" \notin S => Size(S \cap T4) = Size(S \cap T3)
    BY <1>1, <1>7, OneMore
  <2> HIDE DEF T4
  <2>2. QED
    BY <1>3, <1>7, <2>1, SMTT(30)
<1>9. Size(S \cap T5) = Callbacks
  <2> HIDE DEF T4
  <2>1. /\ "send2" \in S => Size(S \cap T5) = Size(S \cap T4) + 1
        /\ "send2" \notin S => Size(S \cap T5) = Size(S \cap T4)
    BY <1>1, <1>8, OneMore
  <2> HIDE DEF T5
  <2>2. QED
    BY <1>3, <1>8, <2>1, SMTT(30) DEF Callbacks
<1>10. QED
  BY <1>2, <1>9 DEF S

\* _pending_io counts the requests in the kernel and the callbacks running, and a
\* request the kernel holds has its event's owner.
THEOREM PendingIoCounts == Spec => []IoAccounted
<1>1. IInv => IoAccounted
  <2> SUFFICES ASSUME IInv PROVE IoAccounted
    BY SMTT(30)
  <2>1. \A e \in Events : posted[e] > 0 => owner[e]
    BY DEF IInv, SendInv, RecvInv, DiscInv, Token, Events
  <2>2. pendingIo = posted["recv"] + posted["send"] + posted["disc"]
                       + Size({w \in Workers : pc[w] # "idle"})
    BY CallbacksCounted DEF IInv, CountInv
  <2>3. QED
    BY <2>1, <2>2, CardinalityIsSize DEF IoAccounted
<1>2. QED
  BY <1>1, SessionInvariant, PTL

\* The exchange in process_disconnect: the cleanup is queued and run once, and no
\* packet handler runs after it.
THEOREM CleanupRunsOnceAndLast == Spec => []CleanupLast
<1>1. IInv => CleanupLast
  <2> SUFFICES ASSUME IInv PROVE CleanupLast
    BY SMTT(30)
  <2> DEFINE Q == {i \in 1..Len(jobQueue) : jobQueue[i] = "cleanup"}
             J == {a \in {"logic"} : pc[a] = "cleanup"}
  <2>1. CleanupInv /\ cleanups \in Nat /\ Len(jobQueue) \in Nat
    BY SMTT(30) DEF IInv, TypeInv
  <2> USE <2>1
  <2>2. \A i \in Q : i \in Nat /\ CleanupAt(i)
    BY SMTT(30) DEF CleanupAt
  <2>3. (\A i, j \in Q : i = j) /\ (\A a, b \in J : a = b)
    BY <2>2 DEF CleanupInv
  <2>4. /\ Q = {} => Size(Q) = 0
        /\ Q # {} => Size(Q) = 1
        /\ J = {} => Size(J) = 0
        /\ J # {} => Size(J) = 1
    BY <2>3, AtMostOne
  <2>5. /\ Q # {} => J = {} /\ cleanups = 0
        /\ J # {} => cleanups = 0
    BY <2>2 DEF CleanupInv
  <2>6. cleanups <= 1 /\ lateHandlers = 0
    BY DEF CleanupInv
  <2> HIDE DEF Q, J
  <2>7. cleanups + Size(Q) + Size(J) <= 1
    <3>1. CASE Q = {} /\ J = {}
      BY <2>4, <2>6, <3>1, SMTT(30)
    <3>2. CASE Q # {}
      BY <2>4, <2>5, <3>2, SMTT(30)
    <3>3. CASE Q = {} /\ J # {}
      BY <2>4, <2>5, <3>3, SMTT(30)
    <3>4. QED
      BY <3>1, <3>2, <3>3
  <2>8. QED
    BY <2>6, <2>7, CardinalityIsSize DEF CleanupLast, Q, J
<1>2. QED
  BY <1>1, SessionInvariant, PTL

=============================================================================
