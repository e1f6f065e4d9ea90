---------------------------- MODULE ClientIoProofs ----------------------------
(***************************************************************************)
(* Proofs about ClientIo, for any number of sessions, workers, bots and    *)
(* packets: SendEventSafe, IoAccounted and NoSendAfterLoss.                *)
(*                                                                         *)
(* The SendEvent of a session has one user, who holds _is_send_register    *)
(* while the session is open (SenderOK); the next receive is posted by the *)
(* one thread that handles the last (ReceiverOK).  So _pending_io counts   *)
(* the two operations and the workers in a callback (CountOK).  A session  *)
(* outside _sessions has none of these (ServedOK) and an open one is still *)
(* to be closed by stop (OpenOK), which makes the count stay 0 once        *)
(* wait_for_io has seen it.                                                *)
(***************************************************************************)
EXTENDS ClientIo, FiniteSetTheorems, TLAPS

\* Most leaves are first-order reasoning; those with arithmetic name the SMT solver.
USE ZenonT(30)

-----------------------------------------------------------------------------
(* The inductive invariant *)

\* The thread uses the session's SendEvent.
Using(t, s) == at[t] = s /\ pc[t] \in InSendCallback
Unused(s) == sendOp[s] = "none" /\ \A t \in Threads : ~Using(t, s)

\* The thread handles what the last receive brought, and has to post the next.
Receiving(t, s) ==
    /\ at[t] = s
    /\ \/ pc[t] \in {"received", "receivedZero", "packets", "regRecv"}
       \/ pc[t] \in {"regSend", "disc"} /\ ret[t] = "packets"

\* The workers in a callback of the session.
Serving(s) == {w \in Workers : at[w] = s}

\* main connects the session, or has registered it and starts it.
Joining(s)  == at["main"] = s /\ pc["main"] \in {"register", "disc"}
Starting(s) == at["main"] = s /\ pc["main"] \in {"regRecv", "login"}

InitSteps == Calls \cup {"next", "register", "login"}
Waiting == {"wait", "join", "done"}

Labels == Calls \cup Callbacks \cup MainSteps \cup {"idle", "exited"}

\* TypeOK with the threads' locals and no bound on the counts.
Types ==
    /\ conn \in [Sessions -> {"new", "open", "closed"}]
    /\ queue \in [Sessions -> Nat] /\ event \in [Sessions -> Nat]
    /\ registered \in [Sessions -> BOOLEAN]
    /\ pending \in [Sessions -> Nat]
    /\ sendOp \in [Sessions -> Results \cup {"none", "posted"}]
    /\ recvOp \in [Sessions -> {"none", "posted", "data", "zero"}]
    /\ dropped \in [Sessions -> BOOLEAN] /\ sends \in [Sessions -> 0..MaxSends]
    /\ served \subseteq Sessions /\ todo \subseteq Sessions /\ active \subseteq Sessions
    /\ running \in BOOLEAN /\ waits \subseteq Sessions /\ nulls \in 0..Cardinality(Workers)
    /\ pc \in [Threads -> Labels] /\ at \in [Threads -> Sessions \cup {NoSession}]
    /\ ret \in [Threads -> {"idle", "next", "finish", "packets"}]

\* A worker's session and the statement its call returns to.
WorkerOK(w) ==
    /\ pc[w] \in Calls \cup Callbacks \cup {"idle", "exited"}
    /\ IF pc[w] \in {"idle", "exited"}
       THEN at[w] = NoSession
       ELSE at[w] \in Sessions /\ conn[at[w]] # "new" /\ ret[w] \in {"finish", "packets"}
    /\ pc[w] \in {"sent", "sentPart", "sentZero", "regRecv"} => ret[w] = "finish"

BotOK(b) ==
    /\ pc[b] \in {"idle", "regSend", "disc", "exited"} /\ ret[b] = "idle"
    /\ pc[b] \in {"regSend", "disc"} => at[b] \in Sessions /\ conn[at[b]] # "new"

MainOK ==
    /\ pc["main"] \in Calls \cup MainSteps
    /\ pc["main"] \in Calls \cup {"register", "login"} =>
           at["main"] \in Sessions /\ conn[at["main"]] # "new" /\ ret["main"] = "next"

ThreadInv ==
    /\ \A w \in Workers : WorkerOK(w)
    /\ \A b \in Bots : BotOK(b)
    /\ MainOK

\* The SendEvent has one user, who holds the flag; its data belongs to that user.
SenderOK(s) ==
    /\ \A t, u \in Threads : Using(t, s) /\ Using(u, s) => t = u
    /\ sendOp[s] # "none" => event[s] > 0 /\ \A t \in Threads : ~Using(t, s)
    /\ Unused(s) => event[s] = 0
    /\ conn[s] = "open" /\ ~Unused(s) => registered[s] /\ ~dropped[s]
    /\ conn[s] = "open" /\ dropped[s] => registered[s]
    /\ conn[s] = "closed" => queue[s] = 0

\* The receive is with the system or with one thread.
ReceiverOK(s) ==
    /\ \A t, u \in Threads : Receiving(t, s) /\ Receiving(u, s) => t = u
    /\ recvOp[s] # "none" => \A t \in Threads : ~Receiving(t, s)

\* A session that has not connected is as it was created.
NewOK(s) ==
    /\ s \in todo => conn[s] = "new"
    /\ conn[s] = "new" =>
           s \notin served /\ Unused(s) /\ recvOp[s] = "none" /\ ~dropped[s]

\* A session that is not registered has no operation and no thread.
ServedOK(s) ==
    \/ s \in served \/ pc["main"] = "done"
    \/ /\ Unused(s) /\ recvOp[s] = "none" /\ s \notin active
       /\ (\A w \in Workers : at[w] # s) /\ ~Starting(s)

\* An open session is one stop has still to close.
OpenOK(s) ==
    conn[s] = "open" =>
        /\ s \in served \/ Joining(s)
        /\ pc["main"] \notin Waiting
        /\ pc["main"] = "close" => s \in waits

\* What _pending_io counts.
Operations(s) == OneIf(sendOp[s] # "none") + OneIf(recvOp[s] # "none")

\* The count, and what stop has waited for.
CountOK(s) ==
    /\ pending[s] = Operations(s) + Cardinality(Serving(s))
    /\ pc["main"] \in Waiting /\ s \notin waits => pending[s] = 0

SessionOK(s) == /\ SenderOK(s) /\ ReceiverOK(s) /\ NewOK(s) /\ ServedOK(s) /\ OpenOK(s)
                /\ CountOK(s)

\* A session registers once, and the bots have ended before stop.
PhaseInv ==
    /\ pc["main"] = "register" => at["main"] \notin served
    /\ pc["main"] \in {"close"} \cup Waiting => \A b \in Bots : pc[b] = "exited"
    /\ pc["main"] \in {"join", "done"} => waits = {}

IInv == Types /\ ThreadInv /\ PhaseInv /\ \A s \in Sessions : SessionOK(s)

-----------------------------------------------------------------------------
(* Threads, sets and counts *)

\* The kinds of threads and the null value.
LEMMA Basics ==
    /\ "main" \in Threads /\ Workers \subseteq Threads /\ Bots \subseteq Threads
    /\ "main" \notin Workers /\ "main" \notin Bots /\ \A w \in Workers : w \notin Bots
    /\ \A t \in Threads : t = "main" \/ t \in Workers \/ t \in Bots
    /\ NoSession \notin Sessions
  BY ClientIoAssumption DEF Threads, NoSession

\* The sizes of two finite sets that differ at most in one element.
LEMMA CardStep ==
    ASSUME NEW S, NEW R, IsFiniteSet(S), IsFiniteSet(R), NEW a,
           \A x : x # a => (x \in R <=> x \in S)
    PROVE  /\ Cardinality(S) \in Nat /\ Cardinality(R) \in Nat
           /\ Cardinality(R) = Cardinality(S) + OneIf(a \in R) - OneIf(a \in S)
<1>1. Cardinality(S) \in Nat /\ Cardinality(R) \in Nat
  BY FS_CardinalityType
<1>2. CASE a \in R /\ a \notin S
  <2>1. R = S \cup {a}
    BY <1>2
  <2>2. Cardinality(R) = Cardinality(S) + 1
    BY <1>2, <2>1, FS_AddElement
  <2>3. QED
    BY <1>1, <1>2, <2>2, SMT DEF OneIf
<1>3. CASE a \notin R /\ a \in S
  <2>1. R = S \ {a}
    BY <1>3
  <2>2. Cardinality(R) = Cardinality(S) - 1
    BY <1>3, <2>1, FS_RemoveElement
  <2>3. QED
    BY <1>1, <1>3, <2>2, SMT DEF OneIf
<1>4. CASE a \in R <=> a \in S
  <2>1. R = S
    BY <1>4, SMT
  <2>2. QED
    BY <1>1, <1>4, <2>1, SMT DEF OneIf
<1>5. QED
  BY <1>2, <1>3, <1>4

\* The counted workers are finitely many.
LEMMA Finite ==
    ASSUME NEW s
    PROVE  /\ IsFiniteSet(Serving(s)) /\ IsFiniteSet(Serving(s)')
           /\ Cardinality(Serving(s)) \in Nat
           /\ Cardinality(Serving(s)) <= Cardinality(Workers)
<1>1. Serving(s) \subseteq Workers /\ Serving(s)' \subseteq Workers
  BY DEF Serving
<1>2. QED
  BY <1>1, FS_Subset, FS_CardinalityType, ClientIoAssumption

-----------------------------------------------------------------------------
(* What a step of thread t on session s keeps *)

\* A step of t moves no other thread.
Stay(t) == \A u \in Threads \ {t} : /\ pc'[u] = pc[u] /\ at'[u] = at[u]
                                    /\ ret'[u] = ret[u]

\* A step leaves the session as it is.
Kept(r) ==
    /\ conn'[r] = conn[r] /\ queue'[r] = queue[r] /\ event'[r] = event[r]
    /\ registered'[r] = registered[r] /\ pending'[r] = pending[r]
    /\ sendOp'[r] = sendOp[r] /\ recvOp'[r] = recvOp[r] /\ dropped'[r] = dropped[r]

\* A step concerns no session but s.
Only(s) ==
    \A r \in Sessions \ {s} : /\ Kept(r) /\ (r \in served' <=> r \in served)
                              /\ (r \in active' <=> r \in active)
                              /\ (r \in todo' <=> r \in todo)

\* No thread begins or ends its work on r.
SameThreads(r) ==
    /\ \A u \in Threads : (Using(u, r)' <=> Using(u, r)) /\ (Receiving(u, r)' <=> Receiving(u, r))
    /\ \A w \in Workers : at'[w] = r <=> at[w] = r

\* The thread works on s alone, and is not main in its stop.
WorksOn(t, s) ==
    /\ at'[t] \in {s, NoSession}
    /\ at[t] \in {s, NoSession} \/ (t \notin Workers /\ pc[t] \in {"idle", "next"})
    /\ t = "main" => pc[t] \in InitSteps /\ pc'[t] \in InitSteps

\* main stays in its phase.
SamePhase ==
    /\ pc'["main"] \in Waiting <=> pc["main"] \in Waiting
    /\ pc'["main"] = "close" <=> pc["main"] = "close"
    /\ pc'["main"] = "done" <=> pc["main"] = "done"
    /\ pc'["main"] \in {"join", "done"} <=> pc["main"] \in {"join", "done"}

\* A thread other than main, and main while it starts sessions, change no phase.
LEMMA PhaseKept ==
    ASSUME NEW t \in Threads, Stay(t),
           t = "main" => pc[t] \in InitSteps /\ pc'[t] \in InitSteps
    PROVE  SamePhase
<1>1. CASE t = "main"
  <2>1. \A x \in InitSteps : x \notin Waiting /\ x # "close"
    BY DEF InitSteps, Waiting, Calls
  <2>2. QED
    BY <1>1, <2>1 DEF SamePhase, Waiting
<1>2. CASE t # "main"
  BY <1>2, Basics DEF Stay, SamePhase
<1>3. QED
  BY <1>1, <1>2

\* A session that neither a step nor its thread touches.
LEMMA Untouched ==
    ASSUME NEW r \in Sessions, SenderOK(r), ReceiverOK(r), NewOK(r), Kept(r), SameThreads(r),
           r \in served' => r \in served, r \in todo' => r \in todo
    PROVE  /\ SenderOK(r)' /\ ReceiverOK(r)' /\ NewOK(r)'
           /\ (Unused(r)' <=> Unused(r)) /\ Serving(r)' = Serving(r)
           /\ Operations(r)' = Operations(r)
<1>1. \A u \in Threads : (Using(u, r)' <=> Using(u, r)) /\ (Receiving(u, r)' <=> Receiving(u, r))
  BY DEF SameThreads
<1>2. /\ conn'[r] = conn[r] /\ queue'[r] = queue[r] /\ event'[r] = event[r]
      /\ registered'[r] = registered[r] /\ sendOp'[r] = sendOp[r] /\ recvOp'[r] = recvOp[r]
      /\ dropped'[r] = dropped[r]
  BY DEF Kept
<1>3. Unused(r)' <=> Unused(r)
  BY <1>1, <1>2 DEF Unused
<1>4. Serving(r)' = Serving(r)
  BY DEF Serving, SameThreads
<1>5. Operations(r)' = Operations(r)
  BY <1>2 DEF Operations
<1>6. SenderOK(r)'
  BY <1>1, <1>2, <1>3 DEF SenderOK
<1>7. ReceiverOK(r)'
  BY <1>1, <1>2 DEF ReceiverOK
<1>8. NewOK(r)'
  BY <1>2, <1>3 DEF NewOK
<1>9. QED
  BY <1>3, <1>4, <1>5, <1>6, <1>7, <1>8

\* It keeps its invariant while main stays in its phase.
LEMMA Bystander ==
    ASSUME NEW r \in Sessions, SessionOK(r), Kept(r), SameThreads(r), SamePhase,
           Joining(r)' <=> Joining(r), Starting(r)' <=> Starting(r),
           r \in served' <=> r \in served, r \in active' <=> r \in active,
           r \in todo' <=> r \in todo, r \in waits' <=> r \in waits
    PROVE  SessionOK(r)'
<1>1. /\ SenderOK(r)' /\ ReceiverOK(r)' /\ NewOK(r)'
      /\ (Unused(r)' <=> Unused(r)) /\ Serving(r)' = Serving(r)
      /\ Operations(r)' = Operations(r)
  BY Untouched DEF SessionOK
<1>2. conn'[r] = conn[r] /\ pending'[r] = pending[r] /\ recvOp'[r] = recvOp[r]
  BY DEF Kept
<1>3. ServedOK(r)'
  BY <1>1, <1>2 DEF SessionOK, ServedOK, SamePhase, SameThreads
<1>4. OpenOK(r)'
  BY <1>2 DEF SessionOK, OpenOK, SamePhase
<1>5. CountOK(r)'
  BY <1>1, <1>2 DEF SessionOK, CountOK, SamePhase
<1>6. QED
  BY <1>1, <1>3, <1>4, <1>5 DEF SessionOK

\* The other sessions keep their state.
LEMMA Elsewhere ==
    ASSUME NEW t \in Threads, NEW s \in Sessions, Stay(t), Only(s), WorksOn(t, s), SamePhase,
           waits' = waits, NEW r \in Sessions, r # s, SessionOK(r)
    PROVE  SessionOK(r)'
<1>1. at'[t] # r /\ (at[t] # r \/ (t \notin Workers /\ pc[t] \in {"idle", "next"}))
  <2>1. r # NoSession
    BY Basics
  <2>2. QED
    BY <2>1 DEF WorksOn
<1>2. \A u \in Threads : Using(u, r)' <=> Using(u, r)
  BY <1>1 DEF Using, Stay, InSendCallback
<1>3. \A u \in Threads : Receiving(u, r)' <=> Receiving(u, r)
  BY <1>1 DEF Receiving, Stay
<1>4. \A w \in Workers : at'[w] = r <=> at[w] = r
  BY <1>1, Basics DEF Stay
<1>5. (Joining(r)' <=> Joining(r)) /\ (Starting(r)' <=> Starting(r))
  BY <1>1, Basics DEF Joining, Starting, Stay
<1>6. /\ Kept(r) /\ (r \in served' <=> r \in served) /\ (r \in active' <=> r \in active)
      /\ (r \in todo' <=> r \in todo)
  BY DEF Only
<1>7. SameThreads(r)
  BY <1>2, <1>3, <1>4 DEF SameThreads
<1>8. QED
  BY <1>5, <1>6, <1>7, Bystander

\* A connected session stays one.
Connected == \A r \in Sessions : conn[r] # "new" => conn'[r] # "new"

\* The other threads keep what they rely on.
LEMMA ThreadStep ==
    ASSUME ThreadInv, NEW t \in Threads, Stay(t), Connected,
           t \in Workers => WorkerOK(t)', t \in Bots => BotOK(t)', t = "main" => MainOK'
    PROVE  ThreadInv'
<1>1. ASSUME NEW w \in Workers, w # t PROVE WorkerOK(w)'
  <2>1. WorkerOK(w) /\ pc'[w] = pc[w] /\ at'[w] = at[w] /\ ret'[w] = ret[w]
    BY <1>1, Basics DEF ThreadInv, Stay
  <2>2. QED
    BY <2>1 DEF WorkerOK, Connected
<1>2. ASSUME NEW b \in Bots, b # t PROVE BotOK(b)'
  <2>1. BotOK(b) /\ pc'[b] = pc[b] /\ at'[b] = at[b] /\ ret'[b] = ret[b]
    BY <1>2, Basics DEF ThreadInv, Stay
  <2>2. QED
    BY <2>1 DEF BotOK, Connected
<1>3. CASE t # "main"
  <2>1. /\ pc'["main"] = pc["main"] /\ at'["main"] = at["main"]
        /\ ret'["main"] = ret["main"]
    BY <1>3, Basics DEF Stay
  <2>2. MainOK'
    BY <2>1 DEF ThreadInv, MainOK, Connected
  <2>3. QED
    BY <1>1, <1>2, <2>2 DEF ThreadInv
<1>4. QED
  BY <1>1, <1>2, <1>3 DEF ThreadInv

\* A bot that runs, a worker or main while it starts sessions change no phase.
LEMMA PhaseStep ==
    ASSUME PhaseInv, NEW t \in Threads, Stay(t), SamePhase, waits' = waits,
           t \in Bots => pc[t] # "exited",
           pc'["main"] = "register" => at'["main"] \notin served'
    PROVE  PhaseInv'
<1>1. pc["main"] \in {"close"} \cup Waiting => \A b \in Bots : pc'[b] = "exited"
  BY Basics DEF PhaseInv, Stay
<1>2. QED
  BY <1>1 DEF PhaseInv, SamePhase

\* A step of a thread is safe if it is so for the thread and its session.
LEMMA Framed ==
    ASSUME IInv, NEW t \in Threads, NEW s \in Sessions, Stay(t), Only(s), WorksOn(t, s),
           Connected, waits' = waits, Types',
           t \in Workers => WorkerOK(t)', t \in Bots => BotOK(t)' /\ pc[t] # "exited",
           t = "main" => MainOK', pc'["main"] = "register" => at'["main"] \notin served',
           SenderOK(s)', ReceiverOK(s)', NewOK(s)', ServedOK(s)', OpenOK(s)', CountOK(s)'
    PROVE  IInv'
<1>1. SamePhase
  BY PhaseKept DEF WorksOn
<1>2. ThreadInv' /\ PhaseInv'
  BY <1>1, ThreadStep, PhaseStep DEF IInv
<1>3. SessionOK(s)'
  BY DEF SessionOK
<1>4. \A r \in Sessions : SessionOK(r)'
  BY <1>1, <1>3, Elsewhere DEF IInv
<1>5. QED
  BY <1>2, <1>4 DEF IInv

\* The same for a step that registers no session.
LEMMA Step ==
    ASSUME IInv, NEW t \in Threads, NEW s \in Sessions, Stay(t), Only(s), WorksOn(t, s),
           Connected, waits' = waits, Types',
           t \in Workers => WorkerOK(t)', t \in Bots => BotOK(t)' /\ pc[t] # "exited",
           t = "main" => MainOK' /\ pc'[t] # "register", served' = served,
           SenderOK(s)', ReceiverOK(s)', NewOK(s)', ServedOK(s)', OpenOK(s)', CountOK(s)'
    PROVE  IInv'
<1>1. pc'["main"] = "register" => at'["main"] \notin served'
  BY Basics DEF IInv, PhaseInv, Stay
<1>2. QED
  BY <1>1, Framed

-----------------------------------------------------------------------------
(* What a step keeps of its own session *)

\* A step that leaves the send side alone, or queues a packet behind the flag.
LEMMA SenderSame ==
    ASSUME NEW t \in Threads, NEW s \in Sessions, SenderOK(s), Stay(t),
           Using(t, s)' <=> Using(t, s), sendOp'[s] = "none" <=> sendOp[s] = "none",
           event'[s] = event[s], dropped'[s] = dropped[s], conn'[s] = conn[s],
           registered[s] => registered'[s],
           queue'[s] = queue[s] \/ conn[s] = "open"
    PROVE  SenderOK(s)'
<1>1. \A u \in Threads : Using(u, s)' <=> Using(u, s)
  BY DEF Using, Stay
<1>2. Unused(s)' <=> Unused(s)
  BY <1>1 DEF Unused
<1>3. QED
  BY <1>1, <1>2 DEF SenderOK

\* disconnect leaves the event to its user.
LEMMA SenderDisconnect ==
    ASSUME NEW t \in Threads, NEW s \in Sessions, SenderOK(s), Stay(t),
           Using(t, s)' <=> Using(t, s), sendOp'[s] = sendOp[s], event'[s] = event[s],
           conn'[s] = "closed", queue'[s] = 0
    PROVE  SenderOK(s)'
<1>1. \A u \in Threads : Using(u, s)' <=> Using(u, s)
  BY DEF Using, Stay
<1>2. Unused(s)' <=> Unused(s)
  BY <1>1 DEF Unused
<1>3. QED
  BY <1>1, <1>2 DEF SenderOK

\* A step of the only thread that uses the event, or begins to use it.
LEMMA UserStep ==
    ASSUME NEW t \in Threads, NEW s \in Sessions, Stay(t),
           \A u \in Threads \ {t} : ~Using(u, s),
           Using(t, s)' => sendOp'[s] = "none",
           sendOp'[s] # "none" => event'[s] > 0,
           ~Using(t, s)' /\ sendOp'[s] = "none" => event'[s] = 0,
           conn'[s] = "open" /\ (Using(t, s)' \/ sendOp'[s] # "none") =>
               registered'[s] /\ ~dropped'[s],
           conn'[s] = "open" /\ dropped'[s] => registered'[s],
           conn'[s] = "closed" => queue'[s] = 0
    PROVE  SenderOK(s)'
<1>1. \A u \in Threads \ {t} : ~Using(u, s)'
  BY DEF Using, Stay
<1>2. Unused(s)' <=> sendOp'[s] = "none" /\ ~Using(t, s)'
  BY <1>1 DEF Unused
<1>3. QED
  BY <1>1, <1>2 DEF SenderOK

\* The user of the event is alone with it.
LEMMA UserAlone ==
    ASSUME NEW t \in Threads, NEW s \in Sessions, SenderOK(s), Using(t, s)
    PROVE  /\ \A u \in Threads \ {t} : ~Using(u, s)
           /\ sendOp[s] = "none" /\ ~Unused(s)
           /\ conn[s] = "open" => registered[s] /\ ~dropped[s]
           /\ conn[s] = "closed" => queue[s] = 0
<1>1. sendOp[s] = "none"
  BY DEF SenderOK
<1>2. ~Unused(s)
  BY DEF Unused
<1>3. QED
  BY <1>1, <1>2 DEF SenderOK

\* The receive stays where it is, goes from its thread to the system, or ends.
LEMMA ReceiverStep ==
    ASSUME NEW t \in Threads, NEW s \in Sessions, ReceiverOK(s), Stay(t),
           Receiving(t, s)' => Receiving(t, s),
           recvOp'[s] # "none" =>
               recvOp[s] # "none" \/ (Receiving(t, s) /\ ~Receiving(t, s)')
    PROVE  ReceiverOK(s)'
<1>1. \A u \in Threads \ {t} : Receiving(u, s)' <=> Receiving(u, s)
  BY DEF Receiving, Stay
<1>2. \A u \in Threads : Receiving(u, s)' => Receiving(u, s)
  BY <1>1
<1>3. \A u, v \in Threads : Receiving(u, s)' /\ Receiving(v, s)' => u = v
  BY <1>2 DEF ReceiverOK
<1>4. ASSUME recvOp'[s] # "none", NEW u \in Threads PROVE ~Receiving(u, s)'
  <2>1. CASE recvOp[s] # "none"
    BY <1>2, <2>1 DEF ReceiverOK
  <2>2. CASE Receiving(t, s) /\ ~Receiving(t, s)'
    BY <1>2, <2>2 DEF ReceiverOK
  <2>3. QED
    BY <1>4, <2>1, <2>2
<1>5. QED
  BY <1>3, <1>4 DEF ReceiverOK

\* A session with a thread or an operation is registered.
LEMMA ServedNow ==
    ASSUME NEW s \in Sessions, ServedOK(s),
           ~Unused(s) \/ recvOp[s] # "none" \/ s \in active \/ Starting(s)
               \/ \E w \in Workers : at[w] = s
    PROVE  s \in served \/ pc["main"] = "done"
  BY DEF ServedOK

\* It stays so.
LEMMA ServedStays ==
    ASSUME NEW s \in Sessions, s \in served \/ pc["main"] = "done",
           s \in served => s \in served', SamePhase
    PROVE  ServedOK(s)'
  BY DEF ServedOK, SamePhase

\* An open session stays registered.
LEMMA OpenStep ==
    ASSUME NEW s \in Sessions, OpenOK(s), SamePhase, waits' = waits,
           conn'[s] = "open" => conn[s] = "open", s \in served => s \in served',
           conn'[s] = "open" /\ Joining(s) => s \in served' \/ Joining(s)'
    PROVE  OpenOK(s)'
  BY DEF OpenOK, SamePhase

\* A connected session is not new.
LEMMA NewStep ==
    ASSUME NEW s \in Sessions, NewOK(s), conn[s] # "new", conn'[s] # "new",
           s \in todo' => s \in todo
    PROVE  NewOK(s)'
  BY DEF NewOK

\* Neither an operation nor a callback begins or ends.
LEMMA CountSame ==
    ASSUME NEW t \in Threads, NEW s \in Sessions, CountOK(s), Stay(t), SamePhase,
           waits' = waits, t \in Workers => (at'[t] = s <=> at[t] = s),
           sendOp'[s] = "none" <=> sendOp[s] = "none",
           recvOp'[s] = "none" <=> recvOp[s] = "none", pending'[s] = pending[s]
    PROVE  CountOK(s)'
<1>1. Serving(s)' = Serving(s)
  BY Basics DEF Serving, Stay
<1>2. Operations(s)' = Operations(s)
  BY DEF Operations, OneIf
<1>3. QED
  BY <1>1, <1>2 DEF CountOK, SamePhase

\* An operation of an open session is posted.
LEMMA CountPost ==
    ASSUME NEW t \in Threads, NEW s \in Sessions, CountOK(s), OpenOK(s), Stay(t), SamePhase,
           waits' = waits, t \in Workers => (at'[t] = s <=> at[t] = s),
           conn[s] = "open", pending[s] \in Nat, pending'[s] = pending[s] + 1,
           \/ /\ sendOp[s] = "none" /\ sendOp'[s] # "none" /\ recvOp'[s] = recvOp[s]
           \/ /\ recvOp[s] = "none" /\ recvOp'[s] # "none" /\ sendOp'[s] = sendOp[s]
    PROVE  CountOK(s)'
<1>1. Serving(s)' = Serving(s)
  BY Basics DEF Serving, Stay
<1>2. Operations(s) \in Nat /\ Operations(s)' = Operations(s) + 1
  BY SMT DEF Operations, OneIf
<1>3. Cardinality(Serving(s)) \in Nat
  BY Finite
<1>4. pending'[s] = Operations(s)' + Cardinality(Serving(s)')
  <2>1. pending[s] = Operations(s) + Cardinality(Serving(s))
    BY DEF CountOK
  <2>2. QED
    BY <1>1, <1>2, <1>3, <2>1, SMT
<1>5. pc'["main"] \notin Waiting
  BY DEF OpenOK, SamePhase
<1>6. QED
  BY <1>4, <1>5 DEF CountOK

\* A worker takes the completion of an operation, or ends its callback.
LEMMA CountWorker ==
    ASSUME NEW t \in Workers, NEW s \in Sessions, CountOK(s), Stay(t), SamePhase,
           waits' = waits, pending[s] \in Nat,
           \/ /\ at[t] # s /\ at'[t] = s /\ pending'[s] = pending[s]
              /\ \/ sendOp[s] # "none" /\ sendOp'[s] = "none" /\ recvOp'[s] = recvOp[s]
                 \/ recvOp[s] # "none" /\ recvOp'[s] = "none" /\ sendOp'[s] = sendOp[s]
           \/ /\ at[t] = s /\ at'[t] # s /\ pending'[s] = pending[s] - 1
              /\ sendOp'[s] = sendOp[s] /\ recvOp'[s] = recvOp[s]
    PROVE  CountOK(s)' /\ pending'[s] \in Nat
<1>1. \A x : x # t => (x \in Serving(s)' <=> x \in Serving(s))
  BY Basics DEF Serving, Stay
<1>2. /\ t \in Serving(s)' <=> at'[t] = s
      /\ t \in Serving(s) <=> at[t] = s
  BY DEF Serving
<1>3. /\ Cardinality(Serving(s)) \in Nat /\ Cardinality(Serving(s)') \in Nat
      /\ Cardinality(Serving(s)') = Cardinality(Serving(s))
             + OneIf(t \in Serving(s)') - OneIf(t \in Serving(s))
  BY <1>1, Finite, CardStep
<1>4. pending[s] = Operations(s) + Cardinality(Serving(s))
  BY DEF CountOK
<1>5. CASE at[t] # s
  <2>1. Operations(s) \in Nat /\ Operations(s)' \in Nat /\ Operations(s)' = Operations(s) - 1
    BY <1>5, SMT DEF Operations, OneIf
  <2>2. Cardinality(Serving(s)') = Cardinality(Serving(s)) + 1
    BY <1>2, <1>3, <1>5, SMT DEF OneIf
  <2>3. pending'[s] = pending[s]
    BY <1>5
  <2>4. pending'[s] = Operations(s)' + Cardinality(Serving(s)')
    BY <1>3, <1>4, <2>1, <2>2, <2>3, SMT
  <2>5. QED
    BY <2>3, <2>4 DEF CountOK, SamePhase
<1>6. CASE at[t] = s
  <2>1. Operations(s) \in Nat /\ Operations(s)' = Operations(s)
    BY <1>6, SMT DEF Operations, OneIf
  <2>2. Cardinality(Serving(s)') = Cardinality(Serving(s)) - 1
    BY <1>2, <1>3, <1>6, SMT DEF OneIf
  <2>3. pending'[s] = pending[s] - 1
    BY <1>6
  <2>4. pending'[s] = Operations(s)' + Cardinality(Serving(s)')
    BY <1>3, <1>4, <2>1, <2>2, <2>3, SMT
  <2>5. pending[s] # 0 /\ pending'[s] \in Nat
    BY <1>3, <1>4, <2>1, <2>2, <2>3, <2>4, SMT
  <2>6. QED
    BY <2>4, <2>5 DEF CountOK, SamePhase
<1>7. QED
  BY <1>5, <1>6

\* Where a thread inside a call or a callback is.
LEMMA AtOf ==
    ASSUME IInv, NEW t \in Threads, pc[t] \in Calls \cup Callbacks
    PROVE  /\ at[t] \in Sessions /\ conn[at[t]] # "new" /\ SessionOK(at[t])
           /\ t \in Workers => ret[t] \in {"finish", "packets"}
           /\ t \in Bots => ret[t] = "idle" /\ pc[t] # "exited"
           /\ t = "main" => ret[t] = "next"
<1>1. pc[t] \notin {"idle", "exited"}
  BY DEF Calls, Callbacks
<1>2. CASE t \in Workers
  <2>1. WorkerOK(t)
    BY <1>2 DEF IInv, ThreadInv
  <2>2. QED
    BY <1>1, <1>2, <2>1, Basics DEF IInv, WorkerOK
<1>3. CASE t \in Bots
  <2>1. BotOK(t)
    BY <1>3 DEF IInv, ThreadInv
  <2>2. pc[t] \in {"regSend", "disc"}
    BY <1>1, <2>1 DEF BotOK
  <2>3. QED
    BY <1>1, <1>3, <2>1, <2>2, Basics DEF IInv, BotOK
<1>4. CASE t = "main"
  <2>1. MainOK
    BY DEF IInv, ThreadInv
  <2>2. pc[t] \in Calls
    BY <1>4, <2>1 DEF MainOK, MainSteps, Callbacks, Calls
  <2>3. QED
    BY <1>4, <2>1, <2>2, Basics DEF IInv, MainOK
<1>5. QED
  BY <1>2, <1>3, <1>4, Basics

\* An assignment to one element.
LEMMA Put ==
    ASSUME NEW S, NEW T, NEW f \in [S -> T], NEW s \in S, NEW v \in T, NEW g,
           g = [f EXCEPT ![s] = v]
    PROVE  g \in [S -> T] /\ g[s] = v /\ \A r \in S \ {s} : g[r] = f[r]
  OBVIOUS

\* Counting.
LEMMA Numbers ==
    /\ 0 \in Nat /\ ~(0 > 0)
    /\ \A n \in Nat : /\ n = 0 \/ n > 0
                      /\ (n > 0) \in BOOLEAN
                      /\ n + 0 = n /\ n + 1 \in Nat
  BY SMT

\* A packet more in the queue, a null completion less in the port.
LEMMA Amounts ==
    /\ \A n \in Nat : n + Pieces \in Nat
    /\ \A n \in 0..MaxSends : n < MaxSends => n + 1 \in 0..MaxSends
    /\ 0 \in 0..MaxSends /\ 0 \in 0..Cardinality(Workers)
    /\ Cardinality(Workers) \in 0..Cardinality(Workers)
    /\ \A n \in 0..Cardinality(Workers) : n > 0 => n - 1 \in 0..Cardinality(Workers)
<1>1. Cardinality(Workers) \in Nat
  BY FS_CardinalityType, ClientIoAssumption
<1>2. Pieces \in Nat /\ MaxSends \in Nat
  BY ClientIoAssumption
<1>3. \A n \in Nat : n + Pieces \in Nat
  BY <1>2, SMT
<1>4. 0 \in 0..MaxSends /\ \A n \in 0..MaxSends : n < MaxSends => n + 1 \in 0..MaxSends
  BY <1>2, SMT
<1>5. PICK c : c = Cardinality(Workers)
  OBVIOUS
<1>6. 0 \in 0..c /\ c \in 0..c /\ \A n \in 0..c : n > 0 => n - 1 \in 0..c
  BY <1>1, <1>5, SMT
<1>7. QED
  BY <1>3, <1>4, <1>5, <1>6

\* The terms of a sum, and two that cannot both be there.
LEMMA Sums ==
    /\ 0 # 1 /\ 0 + 0 <= 1 /\ 1 + 0 <= 1 /\ 0 + 1 <= 1
    /\ \A a, b \in {0, 1}, c, n \in Nat :
          /\ 0 = a + b + c => a = 0 /\ b = 0 /\ c = 0
          /\ c <= n => a + b + c \in 0..(2 + n)
  BY SMT

\* What a partial send leaves is a number.
LEMMA PartNat ==
    ASSUME NEW n \in Nat, NEW rest \in 1..(n - 1)
    PROVE  rest \in Nat
  BY SMT

\* disconnect touches its session alone.
LEMMA DisconnectElse ==
    ASSUME Types, NEW s \in Sessions, Disconnect(s)
    PROVE  /\ \A r \in Sessions \ {s} :
                  /\ conn'[r] = conn[r] /\ queue'[r] = queue[r]
                  /\ registered'[r] = registered[r] /\ dropped'[r] = dropped[r]
           /\ conn' \in [Sessions -> {"new", "open", "closed"}] /\ queue' \in [Sessions -> Nat]
           /\ registered' \in [Sessions -> BOOLEAN] /\ dropped' \in [Sessions -> BOOLEAN]
<1>1. CASE conn[s] = "open"
  <2>1. /\ conn' = [conn EXCEPT ![s] = "closed"]
        /\ registered' = [registered EXCEPT ![s] = FALSE]
        /\ dropped' = [dropped EXCEPT ![s] = dropped[s] \/ queue[s] > 0]
        /\ queue' = [queue EXCEPT ![s] = 0]
    BY <1>1 DEF Disconnect
  <2>2. /\ conn' \in [Sessions -> {"new", "open", "closed"}]
        /\ \A r \in Sessions \ {s} : conn'[r] = conn[r]
    BY <2>1, Put DEF Types
  <2>3. /\ registered' \in [Sessions -> BOOLEAN]
        /\ \A r \in Sessions \ {s} : registered'[r] = registered[r]
    BY <2>1, Put DEF Types
  <2>4. /\ dropped' \in [Sessions -> BOOLEAN]
        /\ \A r \in Sessions \ {s} : dropped'[r] = dropped[r]
    <3>1. PICK x : x = (dropped[s] \/ queue[s] > 0)
      OBVIOUS
    <3>2. x \in BOOLEAN /\ dropped \in [Sessions -> BOOLEAN]
      BY <3>1 DEF Types
    <3>3. dropped' = [dropped EXCEPT ![s] = x]
      BY <2>1, <3>1
    <3>4. QED
      BY <3>2, <3>3, Put
  <2>5. /\ queue' \in [Sessions -> Nat]
        /\ \A r \in Sessions \ {s} : queue'[r] = queue[r]
    BY <2>1, Numbers, Put DEF Types
  <2>6. QED
    BY <2>2, <2>3, <2>4, <2>5
<1>2. CASE conn[s] # "open"
  BY <1>2 DEF Disconnect, Types
<1>3. QED
  BY <1>1, <1>2

-----------------------------------------------------------------------------
(* TestSession's calls *)

\* register_send on a session that has ended.
LEMMA RegisterSendClosedInv ==
    ASSUME IInv, NEW t \in Threads, RegisterSendClosed(t)
    PROVE  IInv'
<1>0. PICK s : s = at[t]
  OBVIOUS
<1>1. /\ pc[t] = "regSend" /\ conn[s] # "open" /\ Types
      /\ event' = [event EXCEPT ![s] = 0]
      /\ registered' = [registered EXCEPT ![s] = FALSE]
      /\ pc' = [pc EXCEPT ![t] = ret[t]]
      /\ UNCHANGED <<at, ret, conn, queue, pending, sendOp, recvOp, dropped, sends, served,
                     todo, active, running, waits, nulls>>
  BY <1>0 DEF RegisterSendClosed, Goto, serverVars, IInv
<1>2. /\ s \in Sessions /\ conn[s] # "new" /\ SessionOK(s) /\ at[t] = s
      /\ t \in Workers => ret[t] \in {"finish", "packets"}
      /\ t \in Bots => ret[t] = "idle" /\ pc[t] # "exited"
      /\ t = "main" => ret[t] = "next"
  BY <1>0, <1>1, AtOf DEF Calls
<1>3. pc'[t] = ret[t] /\ at'[t] = s /\ ret'[t] = ret[t] /\ event'[s] = 0
  BY <1>1, <1>2 DEF Types
<1>4. Stay(t) /\ Only(s) /\ Connected
  BY <1>1, <1>2 DEF Stay, Only, Kept, Connected, Types
<1>5. WorksOn(t, s) /\ SamePhase
  <2>1. WorksOn(t, s)
    BY <1>1, <1>2, <1>3 DEF WorksOn, InitSteps, Calls
  <2>2. QED
    BY <1>4, <2>1, PhaseKept DEF WorksOn
<1>6. Using(t, s) /\ ~Using(t, s)' /\ (Receiving(t, s)' => Receiving(t, s))
  BY <1>1, <1>2, <1>3, Basics DEF Using, Receiving, InSendCallback
<1>7. SenderOK(s)'
  BY <1>1, <1>2, <1>3, <1>4, <1>6, UserAlone, UserStep DEF SessionOK
<1>8. ReceiverOK(s)' /\ NewOK(s)'
  BY <1>1, <1>2, <1>4, <1>6, ReceiverStep, NewStep DEF SessionOK
<1>9. ServedOK(s)'
  <2>1. s \in served \/ pc["main"] = "done"
    BY <1>2, <1>6, UserAlone, ServedNow DEF SessionOK
  <2>2. QED
    BY <1>1, <1>2, <1>5, <2>1, ServedStays
<1>10. OpenOK(s)'
  BY <1>1 DEF OpenOK
<1>11. CountOK(s)'
  BY <1>1, <1>2, <1>3, <1>4, <1>5, CountSame DEF SessionOK
<1>12. /\ t \in Workers => WorkerOK(t)'
       /\ t \in Bots => BotOK(t)'
       /\ t = "main" => MainOK' /\ pc'[t] # "register"
  BY <1>1, <1>2, <1>3 DEF WorkerOK, BotOK, MainOK, Calls, Callbacks, MainSteps
<1>13. Types'
  BY <1>1, <1>2, Basics DEF Types, Labels, Callbacks, MainSteps
<1>14. QED
  BY <1>1, <1>2, <1>4, <1>5, <1>7, <1>8, <1>9, <1>10, <1>11, <1>12, <1>13, Step

\* What register_send does to the session.
SendOutcome(t, s) ==
    \/ /\ event'[s] = 0 /\ sendOp'[s] = "none" /\ pending'[s] = pending[s]
       /\ ~dropped'[s] /\ pc'[t] = ret[t]
    \/ /\ event'[s] > 0 /\ sendOp'[s] = "posted" /\ pending'[s] = pending[s] + 1
       /\ registered'[s] /\ ~dropped'[s] /\ pc'[t] = ret[t]
    \/ /\ event'[s] = 0 /\ sendOp'[s] = "none" /\ pending'[s] = pending[s]
       /\ registered'[s] /\ pc'[t] = "disc"

\* register_send on an open session: nothing to send, a send posted, or a failure.
LEMMA RegisterSendInv ==
    ASSUME IInv, NEW t \in Threads, RegisterSend(t)
    PROVE  IInv'
<1>0. PICK s, d : s = at[t] /\ d = IF event[s] > 0 THEN event[s] ELSE queue[s]
  OBVIOUS
<1>1. /\ pc[t] = "regSend" /\ conn[s] = "open" /\ Types
      /\ queue' = [queue EXCEPT ![s] = IF event[s] > 0 THEN @ ELSE 0]
      /\ UNCHANGED <<at, ret, conn, recvOp, sends, served, todo, active, running, waits, nulls>>
  BY <1>0 DEF RegisterSend, Goto, serverVars, IInv
<1>2. PICK ok \in BOOLEAN :
        /\ d = 0 => ok
        /\ event' = [event EXCEPT ![s] = IF ok THEN d ELSE 0]
        /\ sendOp' = [sendOp EXCEPT ![s] = IF ok /\ d > 0 THEN "posted" ELSE @]
        /\ pending' = [pending EXCEPT ![s] = @ + IF d > 0 THEN PendingAfterPost(ok) ELSE 0]
        /\ registered' = [registered EXCEPT ![s] = IF ok THEN d > 0 ELSE FlagAfterFailure(s)]
        /\ dropped' = [dropped EXCEPT ![s] = @ \/ ~ok]
        /\ pc' = [pc EXCEPT ![t] = IF ok THEN ret[t] ELSE "disc"]
  BY <1>0 DEF RegisterSend, Goto
<1>3. /\ s \in Sessions /\ conn[s] # "new" /\ SessionOK(s) /\ at[t] = s
      /\ t \in Workers => ret[t] \in {"finish", "packets"}
      /\ t \in Bots => ret[t] = "idle" /\ pc[t] # "exited"
      /\ t = "main" => ret[t] = "next"
  BY <1>0, <1>1, AtOf DEF Calls
<1>4. Using(t, s)
  BY <1>1, <1>3 DEF Using, InSendCallback
<1>5. /\ sendOp[s] = "none" /\ registered[s] /\ ~dropped[s] /\ ~Unused(s)
      /\ \A u \in Threads \ {t} : ~Using(u, s)
  BY <1>1, <1>3, <1>4, UserAlone DEF SessionOK
<1>6. at'[t] = s /\ ret'[t] = ret[t] /\ pending[s] \in Nat /\ d \in Nat
  BY <1>0, <1>1, <1>3 DEF Types
<1>7. /\ queue' \in [Sessions -> Nat] /\ event' \in [Sessions -> Nat]
      /\ sendOp' \in [Sessions -> Results \cup {"none", "posted"}]
      /\ registered' \in [Sessions -> BOOLEAN] /\ dropped' \in [Sessions -> BOOLEAN]
      /\ pending' \in [Sessions -> Nat]
      /\ event'[s] = (IF ok THEN d ELSE 0)
      /\ sendOp'[s] = (IF ok /\ d > 0 THEN "posted" ELSE "none")
      /\ registered'[s] = (IF ok THEN d > 0 ELSE registered[s])
      /\ dropped'[s] = (dropped[s] \/ ~ok)
      /\ pending'[s] = pending[s] + (IF d > 0 THEN PendingAfterPost(ok) ELSE 0)
      /\ \A r \in Sessions \ {s} :
            /\ queue'[r] = queue[r] /\ event'[r] = event[r] /\ sendOp'[r] = sendOp[r]
            /\ registered'[r] = registered[r] /\ dropped'[r] = dropped[r]
            /\ pending'[r] = pending[r]
  <2>1. PICK q, e, o, g, x, p :
          /\ q = (IF event[s] > 0 THEN queue[s] ELSE 0) /\ e = (IF ok THEN d ELSE 0)
          /\ o = (IF ok /\ d > 0 THEN "posted" ELSE sendOp[s])
          /\ g = (IF ok THEN d > 0 ELSE registered[s]) /\ x = (dropped[s] \/ ~ok)
          /\ p = pending[s] + (IF d > 0 THEN PendingAfterPost(ok) ELSE 0)
    OBVIOUS
  <2>2. /\ queue' = [queue EXCEPT ![s] = q] /\ event' = [event EXCEPT ![s] = e]
        /\ sendOp' = [sendOp EXCEPT ![s] = o] /\ registered' = [registered EXCEPT ![s] = g]
        /\ dropped' = [dropped EXCEPT ![s] = x] /\ pending' = [pending EXCEPT ![s] = p]
    BY <1>1, <1>2, <2>1 DEF FlagAfterFailure
  <2>3. /\ queue \in [Sessions -> Nat] /\ event \in [Sessions -> Nat]
        /\ sendOp \in [Sessions -> Results \cup {"none", "posted"}]
        /\ registered \in [Sessions -> BOOLEAN] /\ dropped \in [Sessions -> BOOLEAN]
        /\ pending \in [Sessions -> Nat]
    BY <1>1 DEF Types
  <2>4. q \in Nat /\ e \in Nat /\ p \in Nat
    <3>1. queue[s] \in Nat
      BY <1>3, <2>3
    <3>2. QED
      BY <1>6, <2>1, <3>1, Numbers DEF PendingAfterPost
  <2>5. o \in Results \cup {"none", "posted"} /\ g \in BOOLEAN /\ x \in BOOLEAN
    <3>1. o \in {"none", "posted"}
      BY <1>5, <2>1
    <3>2. CASE ok
      <4>1. (g <=> d > 0) /\ g \in BOOLEAN
        <5>1. g = (d > 0)
          BY <2>1, <3>2
        <5>2. (d > 0) \in BOOLEAN
          BY <1>6, Numbers
        <5>3. QED
          BY <5>1, <5>2
      <4>2. QED
        BY <2>1, <3>1, <3>2, <4>1
    <3>3. CASE ~ok
      BY <1>3, <2>1, <2>3, <3>1, <3>3
    <3>4. QED
      BY <3>2, <3>3
  <2>6. /\ queue' \in [Sessions -> Nat]
        /\ \A r \in Sessions \ {s} : queue'[r] = queue[r]
    BY <1>3, <2>2, <2>3, <2>4, Put
  <2>7. /\ event' \in [Sessions -> Nat] /\ event'[s] = e
        /\ \A r \in Sessions \ {s} : event'[r] = event[r]
    BY <1>3, <2>2, <2>3, <2>4, Put
  <2>8. /\ sendOp' \in [Sessions -> Results \cup {"none", "posted"}] /\ sendOp'[s] = o
        /\ \A r \in Sessions \ {s} : sendOp'[r] = sendOp[r]
    BY <1>3, <2>2, <2>3, <2>5, Put
  <2>9. /\ registered' \in [Sessions -> BOOLEAN] /\ registered'[s] = g
        /\ \A r \in Sessions \ {s} : registered'[r] = registered[r]
    BY <1>3, <2>2, <2>3, <2>5, Put
  <2>10. /\ dropped' \in [Sessions -> BOOLEAN] /\ dropped'[s] = x
         /\ \A r \in Sessions \ {s} : dropped'[r] = dropped[r]
    BY <1>3, <2>2, <2>3, <2>5, Put
  <2>11. /\ pending' \in [Sessions -> Nat] /\ pending'[s] = p
         /\ \A r \in Sessions \ {s} : pending'[r] = pending[r]
    BY <1>3, <2>2, <2>3, <2>4, Put
  <2>12. QED
    BY <1>5, <2>1, <2>6, <2>7, <2>8, <2>9, <2>10, <2>11
<1>70. pc'[t] = IF ok THEN ret[t] ELSE "disc"
  BY <1>1, <1>2 DEF Types
<1>71. SendOutcome(t, s)
  <2>1. /\ d = 0 \/ d > 0
        /\ ~(0 > 0) /\ pending[s] + 0 = pending[s]
    BY <1>6, Numbers
  <2>2. d = 0 => ok
    BY <1>2
  <2>3. CASE d = 0
    BY <1>5, <1>7, <1>70, <2>1, <2>2, <2>3 DEF SendOutcome
  <2>4. CASE d > 0 /\ ok
    BY <1>5, <1>7, <1>70, <2>4 DEF SendOutcome, PendingAfterPost
  <2>5. CASE d > 0 /\ ~ok
    BY <1>5, <1>7, <1>70, <2>1, <2>5 DEF SendOutcome, PendingAfterPost
  <2>6. QED
    BY <2>1, <2>2, <2>3, <2>4, <2>5
<1>8. Stay(t) /\ Only(s) /\ Connected
  <2>1. Stay(t) /\ Connected
    BY <1>1, <1>2, <1>3 DEF Stay, Connected, Types
  <2>2. QED
    BY <1>1, <1>7, <2>1 DEF Only, Kept
<1>9. WorksOn(t, s) /\ SamePhase
  <2>1. WorksOn(t, s)
    BY <1>1, <1>3, <1>6, <1>71 DEF WorksOn, InitSteps, Calls, SendOutcome
  <2>2. QED
    BY <1>8, <2>1, PhaseKept DEF WorksOn
<1>10. ~Using(t, s)' /\ (Receiving(t, s)' => Receiving(t, s))
  BY <1>1, <1>3, <1>6, <1>71, Basics DEF Using, Receiving, InSendCallback, SendOutcome
<1>11. SenderOK(s)'
  <2>1. /\ Using(t, s)' => sendOp'[s] = "none"
        /\ sendOp'[s] # "none" => event'[s] > 0 /\ registered'[s] /\ ~dropped'[s]
        /\ sendOp'[s] = "none" => event'[s] = 0
        /\ dropped'[s] => registered'[s]
        /\ conn'[s] = "open"
    BY <1>1, <1>71, <1>10 DEF SendOutcome
  <2>2. conn'[s] # "closed"
    BY <2>1
  <2>3. QED
    BY <1>3, <1>5, <1>8, <1>10, <2>1, <2>2, UserStep
<1>12. ReceiverOK(s)' /\ NewOK(s)'
  BY <1>1, <1>3, <1>8, <1>10, ReceiverStep, NewStep DEF SessionOK
<1>13. s \in served
  BY <1>1, <1>3, <1>5, ServedNow DEF SessionOK, OpenOK, Waiting
<1>14. ServedOK(s)' /\ OpenOK(s)'
  BY <1>1, <1>3, <1>9, <1>13, ServedStays, OpenStep DEF SessionOK
<1>15. CountOK(s)'
  <2>1. CASE sendOp'[s] = "none"
    BY <1>1, <1>3, <1>5, <1>6, <1>71, <1>8, <1>9, <2>1, CountSame DEF SessionOK, SendOutcome
  <2>2. CASE sendOp'[s] # "none"
    BY <1>1, <1>3, <1>5, <1>6, <1>71, <1>8, <1>9, <2>2, CountPost DEF SessionOK, SendOutcome
  <2>3. QED
    BY <2>1, <2>2
<1>16. /\ t \in Workers => WorkerOK(t)'
       /\ t \in Bots => BotOK(t)'
       /\ t = "main" => MainOK' /\ pc'[t] # "register"
  BY <1>1, <1>3, <1>6, <1>71
     DEF WorkerOK, BotOK, MainOK, Calls, Callbacks, MainSteps, SendOutcome
<1>17. Types'
  <2>1. pc' \in [Threads -> Labels]
    BY <1>1, <1>2, <1>3, Basics DEF Types, Labels, Calls, Callbacks, MainSteps
  <2>2. QED
    BY <1>1, <1>7, <2>1 DEF Types
<1>18. QED
  BY <1>1, <1>3, <1>8, <1>9, <1>11, <1>12, <1>14, <1>15, <1>16, <1>17, Step

\* What register_recv does to the session.
RecvOutcome(t, s) ==
    \/ /\ recvOp'[s] = recvOp[s] /\ pending'[s] = pending[s]
       /\ pc'[t] = ret[t] /\ conn[s] # "open"
    \/ /\ recvOp'[s] = "posted" /\ pending'[s] = pending[s] + 1 /\ conn[s] = "open"
       /\ pc'[t] = IF t = "main" THEN "login" ELSE ret[t]
    \/ /\ recvOp'[s] = recvOp[s] /\ pending'[s] = pending[s]
       /\ pc'[t] = "disc"

\* register_recv: the session has ended, a receive posted, or a failure.
LEMMA RegisterRecvInv ==
    ASSUME IInv, NEW t \in Threads, RegisterRecv(t)
    PROVE  IInv'
<1>0. PICK s : s = at[t]
  OBVIOUS
<1>1. /\ pc[t] = "regRecv" /\ Types
      /\ UNCHANGED <<at, ret, conn, queue, event, registered, sendOp, dropped, sends, served,
                     todo, active, running, waits, nulls>>
  BY <1>0 DEF RegisterRecv, Goto, serverVars, IInv
<1>2. PICK ok \in BOOLEAN, posts \in BOOLEAN :
        /\ conn[s] # "open" => ok
        /\ posts <=> ok /\ conn[s] = "open"
        /\ recvOp' = [recvOp EXCEPT ![s] = IF posts THEN "posted" ELSE @]
        /\ pending' = [pending EXCEPT ![s] = @ + IF posts THEN 1 ELSE 0]
        /\ pc' = [pc EXCEPT ![t] = IF ~ok THEN "disc"
                                   ELSE IF t = "main" /\ posts THEN "login" ELSE ret[t]]
  BY <1>0 DEF RegisterRecv, Goto
<1>3. /\ s \in Sessions /\ conn[s] # "new" /\ SessionOK(s) /\ at[t] = s
      /\ t \in Workers => ret[t] \in {"finish", "packets"}
      /\ t \in Bots => pc[t] # "exited"
      /\ t = "main" => ret[t] = "next"
  BY <1>0, <1>1, AtOf DEF Calls
<1>4. /\ t \notin Bots /\ (t \in Workers => ret[t] = "finish")
      /\ t \in Workers \/ t = "main"
  BY <1>1, Basics DEF IInv, ThreadInv, BotOK, WorkerOK
<1>5. Receiving(t, s) /\ recvOp[s] = "none"
  BY <1>1, <1>3 DEF SessionOK, ReceiverOK, Receiving
<1>6. at'[t] = s /\ ret'[t] = ret[t] /\ pending[s] \in Nat
  BY <1>1, <1>3 DEF Types
<1>7. RecvOutcome(t, s)
  <2>1. /\ recvOp'[s] = (IF posts THEN "posted" ELSE recvOp[s])
        /\ pending'[s] = pending[s] + (IF posts THEN 1 ELSE 0)
        /\ pc'[t] = IF ~ok THEN "disc"
                    ELSE IF t = "main" /\ posts THEN "login" ELSE ret[t]
    BY <1>1, <1>2, <1>3 DEF Types
  <2>2. (conn[s] # "open" => ok) /\ (posts <=> ok /\ conn[s] = "open")
    BY <1>2
  <2>3. pending[s] + 0 = pending[s]
    BY <1>6, Numbers
  <2>4. CASE ~ok
    BY <2>1, <2>2, <2>3, <2>4 DEF RecvOutcome
  <2>5. CASE ok /\ posts
    BY <2>1, <2>2, <2>5 DEF RecvOutcome
  <2>6. CASE ok /\ ~posts
    BY <2>1, <2>2, <2>3, <2>6 DEF RecvOutcome
  <2>7. QED
    BY <2>4, <2>5, <2>6
<1>8. Stay(t) /\ Only(s) /\ Connected
  BY <1>1, <1>2, <1>3 DEF Stay, Only, Kept, Connected, Types
<1>9. WorksOn(t, s) /\ SamePhase
  <2>1. WorksOn(t, s)
    BY <1>1, <1>3, <1>6, <1>7 DEF WorksOn, InitSteps, Calls, RecvOutcome
  <2>2. QED
    BY <1>8, <2>1, PhaseKept DEF WorksOn
<1>10. ~Using(t, s)' /\ ~Using(t, s) /\ ~Receiving(t, s)'
  <2>1. pc'[t] \in {"finish", "next", "login", "disc"} /\ ret[t] \in {"finish", "next"}
    BY <1>3, <1>4, <1>7 DEF RecvOutcome
  <2>2. QED
    BY <1>1, <1>6, <2>1 DEF Using, Receiving, InSendCallback
<1>11. SenderOK(s)'
  BY <1>1, <1>3, <1>8, <1>10, SenderSame DEF SessionOK
<1>12. ReceiverOK(s)' /\ NewOK(s)'
  BY <1>1, <1>3, <1>5, <1>8, <1>10, ReceiverStep, NewStep DEF SessionOK
<1>13. s \in served \/ pc["main"] = "done"
  <2>1. Starting(s) \/ \E w \in Workers : at[w] = s
    BY <1>1, <1>3, <1>4 DEF Starting
  <2>2. QED
    BY <1>3, <2>1, ServedNow DEF SessionOK
<1>14. ServedOK(s)' /\ OpenOK(s)'
  <2>1. conn[s] = "open" => s \in served
    BY <1>3, <1>13 DEF SessionOK, OpenOK, Waiting
  <2>2. QED
    BY <1>1, <1>3, <1>9, <1>13, <2>1, ServedStays, OpenStep DEF SessionOK
<1>15. CountOK(s)'
  <2>1. CASE recvOp'[s] = "none"
    BY <1>1, <1>3, <1>5, <1>6, <1>7, <1>8, <1>9, <2>1, CountSame DEF SessionOK, RecvOutcome
  <2>2. CASE recvOp'[s] # "none"
    BY <1>1, <1>3, <1>5, <1>6, <1>7, <1>8, <1>9, <2>2, CountPost DEF SessionOK, RecvOutcome
  <2>3. QED
    BY <2>1, <2>2
<1>16. /\ t \in Workers => WorkerOK(t)'
       /\ t = "main" => MainOK' /\ pc'[t] # "register"
  BY <1>1, <1>3, <1>4, <1>6, <1>7
     DEF WorkerOK, MainOK, Calls, Callbacks, MainSteps, RecvOutcome
<1>17. Types'
  <2>1. pending' \in [Sessions -> Nat]
    <3>1. pending[s] + (IF posts THEN 1 ELSE 0) \in Nat
      BY <1>6, Numbers
    <3>2. QED
      BY <1>1, <1>2, <1>3, <3>1, Put DEF Types
  <2>2. recvOp' \in [Sessions -> {"none", "posted", "data", "zero"}]
    BY <1>1, <1>2, <1>3, <1>5, Put DEF Types
  <2>3. pc' \in [Threads -> Labels]
    BY <1>1, <1>2, <1>3, <1>4 DEF Types, Labels, Calls, Callbacks, MainSteps
  <2>4. QED
    BY <1>1, <2>1, <2>2, <2>3 DEF Types
<1>18. QED
  BY <1>1, <1>3, <1>4, <1>8, <1>9, <1>11, <1>12, <1>14, <1>15, <1>16, <1>17, Step

\* disconnect called by a thread.
LEMMA CallDisconnectInv ==
    ASSUME IInv, NEW t \in Threads, CallDisconnect(t)
    PROVE  IInv'
<1>0. PICK s : s = at[t]
  OBVIOUS
<1>1. /\ pc[t] = "disc" /\ Types /\ Disconnect(s)
      /\ pc' = [pc EXCEPT ![t] = ret[t]]
      /\ UNCHANGED <<at, ret, event, pending, sendOp, recvOp, sends, served, todo, active,
                     running, waits, nulls>>
  BY <1>0 DEF CallDisconnect, Goto, serverVars, IInv
<1>2. /\ s \in Sessions /\ conn[s] # "new" /\ SessionOK(s) /\ at[t] = s
      /\ t \in Workers => ret[t] \in {"finish", "packets"}
      /\ t \in Bots => ret[t] = "idle" /\ pc[t] # "exited"
      /\ t = "main" => ret[t] = "next"
  BY <1>0, <1>1, AtOf DEF Calls
<1>3. pc'[t] = ret[t] /\ at'[t] = s /\ ret'[t] = ret[t]
  BY <1>1, <1>2 DEF Types
<1>4. conn'[s] = "closed" /\ queue'[s] = 0
  <2>1. CASE conn[s] = "open"
    BY <1>1, <1>2, <2>1 DEF Disconnect, Types
  <2>2. CASE conn[s] = "closed"
    BY <1>1, <1>2, <2>2 DEF Disconnect, SessionOK, SenderOK
  <2>3. QED
    BY <1>1, <1>2, <2>1, <2>2 DEF Types
<1>5. /\ \A r \in Sessions \ {s} : /\ conn'[r] = conn[r] /\ queue'[r] = queue[r]
                                   /\ registered'[r] = registered[r] /\ dropped'[r] = dropped[r]
      /\ conn' \in [Sessions -> {"new", "open", "closed"}] /\ queue' \in [Sessions -> Nat]
      /\ registered' \in [Sessions -> BOOLEAN] /\ dropped' \in [Sessions -> BOOLEAN]
  BY <1>1, <1>2, DisconnectElse
<1>6. Stay(t) /\ Only(s) /\ Connected
  BY <1>1, <1>2, <1>4, <1>5 DEF Stay, Only, Kept, Connected, Types
<1>7. WorksOn(t, s) /\ SamePhase
  <2>1. WorksOn(t, s)
    BY <1>1, <1>2, <1>3 DEF WorksOn, InitSteps, Calls
  <2>2. QED
    BY <1>6, <2>1, PhaseKept DEF WorksOn
<1>8. ~Using(t, s)' /\ ~Using(t, s) /\ (Receiving(t, s)' => Receiving(t, s))
  BY <1>1, <1>2, <1>3, Basics DEF Using, Receiving, InSendCallback
<1>9. SenderOK(s)'
  BY <1>1, <1>2, <1>4, <1>6, <1>8, SenderDisconnect DEF SessionOK
<1>10. ReceiverOK(s)' /\ NewOK(s)'
  BY <1>1, <1>2, <1>4, <1>6, <1>8, ReceiverStep, NewStep DEF SessionOK
<1>11. ServedOK(s)'
  <2>1. CASE s \in served \/ pc["main"] = "done"
    BY <1>1, <1>2, <1>7, <2>1, ServedStays
  <2>2. CASE ~(s \in served \/ pc["main"] = "done")
    <3>1. /\ Unused(s) /\ recvOp[s] = "none" /\ s \notin active
          /\ (\A w \in Workers : at[w] # s) /\ ~Starting(s)
      BY <1>2, <2>2 DEF SessionOK, ServedOK
    <3>2. Unused(s)'
      BY <1>1, <1>6, <1>8, <3>1 DEF Unused, Using, Stay
    <3>3. ~Starting(s)'
      BY <1>2, <1>3, <1>6, <3>1, Basics DEF Starting, Stay
    <3>4. QED
      BY <1>1, <3>1, <3>2, <3>3 DEF ServedOK
  <2>3. QED
    BY <2>1, <2>2
<1>12. OpenOK(s)'
  BY <1>4 DEF OpenOK
<1>13. CountOK(s)'
  BY <1>1, <1>2, <1>3, <1>6, <1>7, CountSame DEF SessionOK
<1>14. /\ t \in Workers => WorkerOK(t)'
       /\ t \in Bots => BotOK(t)'
       /\ t = "main" => MainOK' /\ pc'[t] # "register"
  BY <1>1, <1>2, <1>3, <1>4 DEF WorkerOK, BotOK, MainOK, Calls, Callbacks, MainSteps
<1>15. Types'
  BY <1>1, <1>2, <1>5, Basics DEF Types, Labels, Callbacks, MainSteps
<1>16. QED
  BY <1>1, <1>2, <1>6, <1>7, <1>9, <1>10, <1>11, <1>12, <1>13, <1>14, <1>15, Step

-----------------------------------------------------------------------------
(* The callbacks *)

\* A worker that waits for a completion is at no session.
LEMMA IdleWorker ==
    ASSUME IInv, NEW w \in Workers, pc[w] = "idle", NEW s \in Sessions
    PROVE  /\ w \in Threads /\ w \notin Bots /\ w # "main"
           /\ at[w] = NoSession /\ at[w] # s /\ SessionOK(s) /\ pending[s] \in Nat
<1>1. WorkerOK(w) /\ SessionOK(s)
  BY DEF IInv, ThreadInv
<1>2. at[w] = NoSession
  BY <1>1 DEF WorkerOK
<1>3. pending[s] \in Nat
  BY DEF IInv, Types
<1>4. QED
  BY <1>1, <1>2, <1>3, Basics

\* A worker takes the completion of a send.
LEMMA DispatchSendInv ==
    ASSUME IInv, NEW w \in Workers, NEW s \in Sessions, DispatchSend(w, s)
    PROVE  IInv'
<1>1. PICK to \in {"sent", "sentPart", "sentZero"} :
        /\ pc[w] = "idle" /\ sendOp[s] \in Results /\ Types
        /\ pc' = [pc EXCEPT ![w] = to] /\ at' = [at EXCEPT ![w] = s]
        /\ ret' = [ret EXCEPT ![w] = "finish"] /\ sendOp' = [sendOp EXCEPT ![s] = "none"]
        /\ UNCHANGED <<conn, queue, event, registered, pending, recvOp, dropped, sends, served,
                       todo, active, running, waits, nulls>>
  BY DEF DispatchSend, Call, Results, serverVars, IInv
<1>2. /\ w \in Threads /\ w \notin Bots /\ w # "main" /\ SessionOK(s) /\ at[w] = NoSession
      /\ at[w] # s /\ sendOp[s] # "none" /\ ~Unused(s) /\ pending[s] \in Nat
  <2>1. sendOp[s] # "none"
    BY <1>1 DEF Results
  <2>2. QED
    BY <1>1, <2>1, IdleWorker DEF Unused
<1>3. pc'[w] = to /\ at'[w] = s /\ ret'[w] = "finish" /\ sendOp'[s] = "none"
  BY <1>1, <1>2 DEF Types
<1>4. conn[s] # "new"
  BY <1>2 DEF SessionOK, NewOK
<1>5. Stay(w) /\ Only(s) /\ Connected
  BY <1>1, <1>2 DEF Stay, Only, Kept, Connected, Types
<1>6. WorksOn(w, s) /\ SamePhase
  BY <1>2, <1>3, <1>5, PhaseKept DEF WorksOn
<1>7. Using(w, s)' /\ ~Receiving(w, s)'
  BY <1>1, <1>3 DEF Using, Receiving, InSendCallback
<1>8. SenderOK(s)'
  <2>1. \A u \in Threads : ~Using(u, s)
    BY <1>2 DEF SessionOK, SenderOK
  <2>2. /\ conn[s] = "open" => registered[s] /\ ~dropped[s]
        /\ conn[s] = "closed" => queue[s] = 0
    <3>1. SenderOK(s)
      BY <1>2 DEF SessionOK
    <3>2. conn[s] = "open" => registered[s] /\ ~dropped[s]
      BY <1>2, <3>1 DEF SenderOK
    <3>3. conn[s] = "closed" => queue[s] = 0
      BY <3>1 DEF SenderOK
    <3>4. QED
      BY <3>2, <3>3
  <2>3. QED
    BY <1>1, <1>2, <1>3, <1>5, <1>7, <2>1, <2>2, UserStep
<1>9. ReceiverOK(s)' /\ NewOK(s)'
  BY <1>1, <1>2, <1>4, <1>5, <1>7, ReceiverStep, NewStep DEF SessionOK
<1>10. s \in served \/ pc["main"] = "done"
  BY <1>2, ServedNow DEF SessionOK
<1>11. ServedOK(s)' /\ OpenOK(s)'
  <2>1. Joining(s)' <=> Joining(s)
    BY <1>2, <1>5, Basics DEF Joining, Stay
  <2>2. QED
    BY <1>1, <1>2, <1>6, <1>10, <2>1, ServedStays, OpenStep DEF SessionOK
<1>12. CountOK(s)'
  BY <1>1, <1>2, <1>3, <1>5, <1>6, CountWorker DEF SessionOK
<1>13. WorkerOK(w)'
  BY <1>1, <1>3, <1>4 DEF WorkerOK, Callbacks
<1>14. Types'
  BY <1>1, <1>2 DEF Types, Labels, Callbacks
<1>15. QED
  BY <1>1, <1>2, <1>5, <1>6, <1>8, <1>9, <1>11, <1>12, <1>13, <1>14, Step

\* A worker takes the completion of a receive.
LEMMA DispatchRecvInv ==
    ASSUME IInv, NEW w \in Workers, NEW s \in Sessions, DispatchRecv(w, s)
    PROVE  IInv'
<1>1. PICK to \in {"received", "receivedZero"} :
        /\ pc[w] = "idle" /\ recvOp[s] \in Results /\ Types
        /\ pc' = [pc EXCEPT ![w] = to] /\ at' = [at EXCEPT ![w] = s]
        /\ ret' = [ret EXCEPT ![w] = "finish"] /\ recvOp' = [recvOp EXCEPT ![s] = "none"]
        /\ UNCHANGED <<conn, queue, event, registered, pending, sendOp, dropped, sends, served,
                       todo, active, running, waits, nulls>>
  BY DEF DispatchRecv, Call, serverVars, IInv
<1>2. /\ w \in Threads /\ w \notin Bots /\ w # "main" /\ SessionOK(s) /\ at[w] = NoSession
      /\ at[w] # s /\ recvOp[s] # "none" /\ pending[s] \in Nat
  <2>1. recvOp[s] # "none"
    BY <1>1 DEF Results
  <2>2. QED
    BY <1>1, <2>1, IdleWorker
<1>3. pc'[w] = to /\ at'[w] = s /\ ret'[w] = "finish" /\ recvOp'[s] = "none"
  BY <1>1, <1>2 DEF Types
<1>4. s \in served \/ pc["main"] = "done"
  BY <1>2, ServedNow DEF SessionOK
<1>5. conn[s] # "new"
  BY <1>2 DEF SessionOK, NewOK
<1>6. Stay(w) /\ Only(s) /\ Connected
  BY <1>1, <1>2 DEF Stay, Only, Kept, Connected, Types
<1>7. WorksOn(w, s) /\ SamePhase
  BY <1>2, <1>3, <1>6, PhaseKept DEF WorksOn
<1>8. ~Using(w, s)' /\ ~Using(w, s)
  BY <1>1, <1>2, <1>3 DEF Using, InSendCallback
<1>9. SenderOK(s)'
  BY <1>1, <1>2, <1>6, <1>8, SenderSame DEF SessionOK
<1>10. ReceiverOK(s)'
  <2>1. \A u \in Threads : ~Receiving(u, s)
    BY <1>2 DEF SessionOK, ReceiverOK
  <2>2. \A u \in Threads \ {w} : ~Receiving(u, s)'
    BY <1>6, <2>1 DEF Receiving, Stay
  <2>3. QED
    BY <1>3, <2>2 DEF ReceiverOK
<1>11. NewOK(s)'
  BY <1>1, <1>2, <1>5, NewStep DEF SessionOK
<1>12. ServedOK(s)' /\ OpenOK(s)'
  <2>1. Joining(s)' <=> Joining(s)
    BY <1>2, <1>6, Basics DEF Joining, Stay
  <2>2. QED
    BY <1>1, <1>2, <1>4, <1>7, <2>1, ServedStays, OpenStep DEF SessionOK
<1>13. CountOK(s)'
  BY <1>1, <1>2, <1>3, <1>6, <1>7, CountWorker DEF SessionOK
<1>14. WorkerOK(w)'
  BY <1>1, <1>3, <1>5 DEF WorkerOK, Callbacks
<1>15. Types'
  BY <1>1, <1>2 DEF Types, Labels, Callbacks
<1>16. QED
  BY <1>1, <1>2, <1>6, <1>7, <1>9, <1>10, <1>11, <1>12, <1>13, <1>14, <1>15, Step

\* process_send: the callback keeps the event, with the flag, or leaves it empty.
LEMMA ProcessStep ==
    ASSUME IInv, NEW w \in Workers, NEW s, s = at[w],
           pc[w] \in {"sent", "sentPart", "sentZero"},
           NEW to \in {"finish", "disc", "regSend"}, pc' = [pc EXCEPT ![w] = to],
           UNCHANGED <<at, ret, conn, queue, pending, sendOp, recvOp, sends, serverVars>>,
           event' \in [Sessions -> Nat], registered' \in [Sessions -> BOOLEAN],
           dropped' \in [Sessions -> BOOLEAN],
           \A r \in Sessions \ {s} : /\ event'[r] = event[r] /\ dropped'[r] = dropped[r]
                                     /\ registered'[r] = registered[r],
           to # "regSend" => event'[s] = 0,
           conn[s] = "open" /\ to = "regSend" => registered'[s] /\ ~dropped'[s],
           conn[s] = "open" /\ dropped'[s] => registered'[s]
    PROVE  IInv'
<1>1. Types /\ UNCHANGED <<served, todo, active, running, waits, nulls>>
  BY DEF IInv, serverVars
<1>2. /\ w \in Threads /\ w \notin Bots /\ w # "main" /\ at[w] = s
      /\ s \in Sessions /\ conn[s] # "new" /\ SessionOK(s) /\ ret[w] = "finish"
  <2>1. w \in Threads /\ w \notin Bots /\ w # "main"
    BY Basics
  <2>2. ret[w] = "finish"
    BY DEF IInv, ThreadInv, WorkerOK
  <2>3. QED
    BY <2>1, <2>2, AtOf DEF Callbacks
<1>3. pc'[w] = to /\ at'[w] = s /\ ret'[w] = "finish"
  BY <1>1, <1>2 DEF Types
<1>4. Stay(w) /\ Only(s) /\ Connected
  BY <1>1, <1>2 DEF Stay, Only, Kept, Connected, Types
<1>5. WorksOn(w, s) /\ SamePhase
  BY <1>2, <1>3, <1>4, PhaseKept DEF WorksOn
<1>6. Using(w, s) /\ (Using(w, s)' <=> to = "regSend") /\ ~Receiving(w, s)'
  BY <1>2, <1>3 DEF Using, Receiving, InSendCallback
<1>7. /\ sendOp[s] = "none" /\ ~Unused(s) /\ (conn[s] = "closed" => queue[s] = 0)
      /\ \A u \in Threads \ {w} : ~Using(u, s)
  BY <1>2, <1>6, UserAlone DEF SessionOK
<1>8. SenderOK(s)'
  BY <1>2, <1>4, <1>6, <1>7, UserStep
<1>9. ReceiverOK(s)' /\ NewOK(s)'
  BY <1>1, <1>2, <1>4, <1>6, ReceiverStep, NewStep DEF SessionOK
<1>10. s \in served \/ pc["main"] = "done"
  BY <1>2, <1>7, ServedNow DEF SessionOK
<1>11. ServedOK(s)' /\ OpenOK(s)'
  <2>1. Joining(s)' <=> Joining(s)
    BY <1>2, <1>4, Basics DEF Joining, Stay
  <2>2. QED
    BY <1>1, <1>2, <1>5, <1>10, <2>1, ServedStays, OpenStep DEF SessionOK
<1>12. CountOK(s)'
  BY <1>1, <1>2, <1>3, <1>4, <1>5, CountSame DEF SessionOK
<1>13. WorkerOK(w)'
  BY <1>2, <1>3 DEF WorkerOK, Callbacks, Calls
<1>14. Types'
  BY <1>1, <1>2 DEF Types, Labels, Callbacks, Calls
<1>15. QED
  BY <1>1, <1>2, <1>4, <1>5, <1>8, <1>9, <1>11, <1>12, <1>13, <1>14, Step

\* The four cases of process_send.
LEMMA ProcessSendInv ==
    ASSUME IInv, NEW w \in Workers,
           ProcessSendClosed(w) \/ ProcessSendZero(w) \/ ProcessSendPart(w) \/ ProcessSend(w)
    PROVE  IInv'
<1>0. PICK s : s = at[w]
  OBVIOUS
<1>1. pc[w] \in {"sent", "sentPart", "sentZero"} /\ Types /\ w \in Threads
  BY Basics DEF IInv, ProcessSendClosed, ProcessSendZero, ProcessSendPart, ProcessSend
<1>2. s \in Sessions /\ SessionOK(s) /\ Using(w, s)
  BY <1>0, <1>1, AtOf DEF Callbacks, Using, InSendCallback
<1>3. conn[s] = "open" => registered[s] /\ ~dropped[s]
  BY <1>1, <1>2, UserAlone DEF SessionOK
<1>4. /\ event \in [Sessions -> Nat] /\ registered \in [Sessions -> BOOLEAN]
      /\ dropped \in [Sessions -> BOOLEAN] /\ 0 \in Nat
  BY <1>1, Numbers DEF Types
<1>5. CASE ProcessSendClosed(w)
  <2>1. /\ conn[s] # "open" /\ event' = [event EXCEPT ![s] = 0] /\ dropped' = dropped
        /\ registered' = [registered EXCEPT ![s] = FALSE] /\ pc' = [pc EXCEPT ![w] = "finish"]
        /\ UNCHANGED <<at, ret, conn, queue, pending, sendOp, recvOp, sends, serverVars>>
    BY <1>0, <1>5 DEF ProcessSendClosed, Goto
  <2>2. /\ event' \in [Sessions -> Nat] /\ event'[s] = 0
        /\ \A r \in Sessions \ {s} : event'[r] = event[r]
    BY <1>2, <1>4, <2>1, Put
  <2>3. /\ registered' \in [Sessions -> BOOLEAN]
        /\ \A r \in Sessions \ {s} : registered'[r] = registered[r]
    BY <1>2, <1>4, <2>1, Put
  <2>4. QED
    BY <1>0, <1>1, <1>4, <2>1, <2>2, <2>3, ProcessStep
<1>6. CASE ProcessSendZero(w)
  <2>1. /\ event' = [event EXCEPT ![s] = 0] /\ registered' = registered
        /\ dropped' = [dropped EXCEPT ![s] = TRUE] /\ pc' = [pc EXCEPT ![w] = "disc"]
        /\ UNCHANGED <<at, ret, conn, queue, pending, sendOp, recvOp, sends, serverVars>>
    BY <1>0, <1>6 DEF ProcessSendZero, Goto
  <2>2. /\ event' \in [Sessions -> Nat] /\ event'[s] = 0
        /\ \A r \in Sessions \ {s} : event'[r] = event[r]
    BY <1>2, <1>4, <2>1, Put
  <2>3. /\ dropped' \in [Sessions -> BOOLEAN]
        /\ \A r \in Sessions \ {s} : dropped'[r] = dropped[r]
    BY <1>2, <1>4, <2>1, Put
  <2>4. QED
    BY <1>0, <1>1, <1>3, <1>4, <2>1, <2>2, <2>3, ProcessStep
<1>7. CASE ProcessSendPart(w)
  <2>1. PICK rest \in 1..(event[s] - 1) : event' = [event EXCEPT ![s] = rest]
    BY <1>0, <1>7 DEF ProcessSendPart
  <2>2. /\ registered' = registered /\ dropped' = dropped
        /\ pc' = [pc EXCEPT ![w] = "regSend"]
        /\ UNCHANGED <<at, ret, conn, queue, pending, sendOp, recvOp, sends, serverVars>>
    BY <1>0, <1>7 DEF ProcessSendPart, Goto
  <2>3. rest \in Nat
    BY <1>2, <1>4, <2>1, PartNat
  <2>4. /\ event' \in [Sessions -> Nat]
        /\ \A r \in Sessions \ {s} : event'[r] = event[r]
    BY <1>2, <1>4, <2>1, <2>3, Put
  <2>5. QED
    BY <1>0, <1>1, <1>3, <1>4, <2>2, <2>4, ProcessStep
<1>8. CASE ProcessSend(w)
  <2>1. /\ event' = [event EXCEPT ![s] = 0] /\ dropped' = dropped
        /\ registered' = [registered EXCEPT ![s] = ~NothingQueued(s)] /\ conn[s] = "open"
        /\ pc' = [pc EXCEPT ![w] = IF NothingQueued(s) THEN "finish" ELSE "regSend"]
        /\ UNCHANGED <<at, ret, conn, queue, pending, sendOp, recvOp, sends, serverVars>>
    BY <1>0, <1>8 DEF ProcessSend, Goto
  <2>2. /\ event' \in [Sessions -> Nat] /\ event'[s] = 0
        /\ \A r \in Sessions \ {s} : event'[r] = event[r]
    BY <1>2, <1>4, <2>1, Put
  <2>3. /\ registered' \in [Sessions -> BOOLEAN] /\ registered'[s] = ~NothingQueued(s)
        /\ \A r \in Sessions \ {s} : registered'[r] = registered[r]
    <3>1. (~NothingQueued(s)) \in BOOLEAN
      BY DEF NothingQueued
    <3>2. QED
      BY <1>2, <1>4, <2>1, <3>1, Put
  <2>4. CASE NothingQueued(s)
    BY <1>0, <1>1, <1>3, <1>4, <2>1, <2>2, <2>3, <2>4, ProcessStep
  <2>5. CASE ~NothingQueued(s)
    BY <1>0, <1>1, <1>3, <1>4, <2>1, <2>2, <2>3, <2>5, ProcessStep
  <2>6. QED
    BY <2>4, <2>5
<1>9. QED
  BY <1>5, <1>6, <1>7, <1>8

\* process_recv goes on in its packets without touching the session.
LEMMA LocalStep ==
    ASSUME IInv, NEW w \in Workers, NEW s, s = at[w],
           pc[w] \in {"received", "receivedZero", "packets"},
           NEW to \in {"finish", "packets", "disc", "regRecv"}, pc' = [pc EXCEPT ![w] = to],
           at'[w] = s, ret'[w] \in {"finish", "packets"}, to = "regRecv" => ret'[w] = "finish",
           at' \in [Threads -> Sessions \cup {NoSession}],
           ret' \in [Threads -> {"idle", "next", "finish", "packets"}],
           \A u \in Threads \ {w} : at'[u] = at[u] /\ ret'[u] = ret[u],
           UNCHANGED <<sessionVars, serverVars>>
    PROVE  IInv'
<1>1. /\ Types
      /\ UNCHANGED <<conn, queue, event, registered, pending, sendOp, recvOp, dropped, sends,
                     served, todo, active, running, waits, nulls>>
  BY DEF IInv, sessionVars, serverVars
<1>2. /\ w \in Threads /\ w \notin Bots /\ w # "main" /\ at[w] = s
      /\ s \in Sessions /\ conn[s] # "new" /\ SessionOK(s)
  <2>1. w \in Threads /\ w \notin Bots /\ w # "main"
    BY Basics
  <2>2. QED
    BY <2>1, AtOf DEF Callbacks
<1>3. pc'[w] = to
  BY <1>1, <1>2 DEF Types
<1>4. Stay(w) /\ Only(s) /\ Connected
  BY <1>1, <1>2 DEF Stay, Only, Kept, Connected, Types
<1>5. WorksOn(w, s) /\ SamePhase
  BY <1>2, <1>3, <1>4, PhaseKept DEF WorksOn
<1>6. ~Using(w, s) /\ ~Using(w, s)' /\ Receiving(w, s)
  BY <1>2, <1>3 DEF Using, Receiving, InSendCallback
<1>7. SenderOK(s)'
  BY <1>1, <1>2, <1>4, <1>6, SenderSame DEF SessionOK
<1>8. ReceiverOK(s)' /\ NewOK(s)'
  BY <1>1, <1>2, <1>4, <1>6, ReceiverStep, NewStep DEF SessionOK
<1>9. s \in served \/ pc["main"] = "done"
  BY <1>2, ServedNow DEF SessionOK
<1>10. ServedOK(s)' /\ OpenOK(s)'
  <2>1. Joining(s)' <=> Joining(s)
    BY <1>2, <1>4, Basics DEF Joining, Stay
  <2>2. QED
    BY <1>1, <1>2, <1>5, <1>9, <2>1, ServedStays, OpenStep DEF SessionOK
<1>11. CountOK(s)'
  BY <1>1, <1>2, <1>4, <1>5, CountSame DEF SessionOK
<1>12. WorkerOK(w)'
  BY <1>1, <1>2, <1>3 DEF WorkerOK, Callbacks, Calls
<1>13. Types'
  BY <1>1, <1>2 DEF Types, Labels, Callbacks, Calls
<1>14. QED
  BY <1>1, <1>2, <1>4, <1>5, <1>7, <1>8, <1>10, <1>11, <1>12, <1>13, Step

\* process_recv, a packet that ends the session, and the end of the packets.
LEMMA ProcessRecvInv ==
    ASSUME IInv, NEW w \in Workers, NEW back \in {"packets", "finish"},
           ProcessRecv(w) \/ HandleAndEnd(w, back) \/ EndPackets(w)
    PROVE  IInv'
<1>0. PICK s : s = at[w]
  OBVIOUS
<1>1. /\ Types /\ w \in Threads /\ pc[w] \in {"received", "receivedZero", "packets"}
      /\ UNCHANGED <<sessionVars, serverVars>>
  BY Basics DEF IInv, ProcessRecv, HandleAndEnd, EndPackets
<1>2. /\ s \in Sessions /\ ret[w] \in {"finish", "packets"}
  BY <1>0, <1>1, AtOf DEF Callbacks
<1>3. /\ at \in [Threads -> Sessions \cup {NoSession}]
      /\ ret \in [Threads -> {"idle", "next", "finish", "packets"}]
  BY <1>1 DEF Types
<1>4. CASE ProcessRecv(w)
  <2>1. UNCHANGED <<at, ret>>
    BY <1>4 DEF ProcessRecv, Goto
  <2>2. PICK to \in {"finish", "packets", "disc"} : pc' = [pc EXCEPT ![w] = to]
    BY <1>4 DEF ProcessRecv, Goto
  <2>3. QED
    BY <1>0, <1>1, <1>2, <1>3, <2>1, <2>2, LocalStep
<1>5. CASE HandleAndEnd(w, back) \/ EndPackets(w)
  <2>1. PICK to \in {"disc", "regRecv"}, b \in {"packets", "finish"} :
           /\ pc' = [pc EXCEPT ![w] = to] /\ at' = [at EXCEPT ![w] = s]
           /\ ret' = [ret EXCEPT ![w] = b] /\ (to = "regRecv" => b = "finish")
    BY <1>0, <1>5 DEF HandleAndEnd, EndPackets, Call
  <2>2. /\ at' \in [Threads -> Sessions \cup {NoSession}] /\ at'[w] = s
        /\ \A u \in Threads \ {w} : at'[u] = at[u]
    BY <1>1, <1>2, <1>3, <2>1, Put
  <2>3. /\ ret' \in [Threads -> {"idle", "next", "finish", "packets"}] /\ ret'[w] = b
        /\ \A u \in Threads \ {w} : ret'[u] = ret[u]
    BY <1>1, <1>3, <2>1, Put
  <2>4. QED
    BY <1>0, <1>1, <2>1, <2>2, <2>3, LocalStep
<1>6. QED
  BY <1>4, <1>5

\* finish_io: the worker leaves the session.
LEMMA FinishIoInv ==
    ASSUME IInv, NEW w \in Workers, FinishIo(w)
    PROVE  IInv'
<1>0. PICK s : s = at[w]
  OBVIOUS
<1>1. /\ pc[w] = "finish" /\ Types
      /\ pending' = [pending EXCEPT ![s] = pending[s] - 1]
      /\ pc' = [pc EXCEPT ![w] = "idle"] /\ at' = [at EXCEPT ![w] = NoSession]
      /\ ret' = [ret EXCEPT ![w] = "idle"]
      /\ UNCHANGED <<conn, queue, event, registered, sendOp, recvOp, dropped, sends, served,
                     todo, active, running, waits, nulls>>
  BY <1>0 DEF FinishIo, Call, serverVars, IInv
<1>2. /\ w \in Threads /\ w \notin Bots /\ w # "main" /\ at[w] = s
      /\ s \in Sessions /\ conn[s] # "new" /\ SessionOK(s) /\ s # NoSession
  <2>1. w \in Threads /\ w \notin Bots /\ w # "main"
    BY Basics
  <2>2. s \in Sessions /\ conn[s] # "new" /\ SessionOK(s)
    BY <1>0, <1>1, <2>1, AtOf DEF Callbacks
  <2>3. QED
    BY <1>0, <2>1, <2>2, Basics
<1>3. /\ pc'[w] = "idle" /\ at'[w] = NoSession /\ pending[s] \in Nat
      /\ pending'[s] = pending[s] - 1
  BY <1>1, <1>2 DEF Types
<1>4. Stay(w) /\ Only(s) /\ Connected
  BY <1>1, <1>2 DEF Stay, Only, Kept, Connected, Types
<1>5. WorksOn(w, s) /\ SamePhase
  BY <1>2, <1>3, <1>4, PhaseKept DEF WorksOn
<1>6. ~Using(w, s) /\ ~Using(w, s)' /\ ~Receiving(w, s)'
  BY <1>1, <1>2, <1>3 DEF Using, Receiving, InSendCallback
<1>7. SenderOK(s)'
  BY <1>1, <1>2, <1>4, <1>6, SenderSame DEF SessionOK
<1>8. ReceiverOK(s)' /\ NewOK(s)'
  BY <1>1, <1>2, <1>4, <1>6, ReceiverStep, NewStep DEF SessionOK
<1>9. s \in served \/ pc["main"] = "done"
  BY <1>2, ServedNow DEF SessionOK
<1>10. ServedOK(s)' /\ OpenOK(s)'
  <2>1. Joining(s)' <=> Joining(s)
    BY <1>2, <1>4, Basics DEF Joining, Stay
  <2>2. QED
    BY <1>1, <1>2, <1>5, <1>9, <2>1, ServedStays, OpenStep DEF SessionOK
<1>11. CountOK(s)' /\ pending'[s] \in Nat
  BY <1>1, <1>2, <1>3, <1>4, <1>5, CountWorker DEF SessionOK
<1>12. WorkerOK(w)'
  BY <1>3 DEF WorkerOK
<1>13. Types'
  <2>1. pending' \in [Sessions -> Nat]
    BY <1>1, <1>2, <1>3, <1>11, Put DEF Types
  <2>2. QED
    BY <1>1, <1>2, <2>1 DEF Types, Labels
<1>14. QED
  BY <1>1, <1>2, <1>4, <1>5, <1>7, <1>8, <1>10, <1>11, <1>12, <1>13, Step

-----------------------------------------------------------------------------
(* send, by a handler, a bot or main *)

\* send: the packet joins the queue behind the flag, takes the flag, or is
\* refused by a session that has ended.
LEMMA SendInv ==
    ASSUME IInv, NEW t \in Threads, NEW s \in Sessions, NEW back, Send(t, s, back),
           conn[s] # "new", s \in served \/ pc["main"] = "done",
           \/ t \in Workers /\ pc[t] = "packets" /\ at[t] = s /\ back = "packets"
           \/ t \in Bots /\ pc[t] = "idle" /\ back = "idle"
           \/ t = "main" /\ pc[t] = "login" /\ at[t] = s /\ back = "next",
           sends' \in [Sessions -> 0..MaxSends],
           active' = active \/ active' = active \cup {s},
           UNCHANGED <<served, todo, running, waits, nulls>>
    PROVE  IInv'
<1>1. Types /\ SessionOK(s)
  BY DEF IInv
<1>2. PICK to : to = IF MayQueue(s) /\ StartsSend(s) THEN "regSend" ELSE back
  OBVIOUS
<1>3. /\ pc' = [pc EXCEPT ![t] = to] /\ at' = [at EXCEPT ![t] = s]
      /\ ret' = [ret EXCEPT ![t] = back]
      /\ UNCHANGED <<conn, event, pending, sendOp, recvOp, dropped>>
  BY <1>2 DEF Send, Call
<1>4. pc'[t] = to /\ at'[t] = s /\ ret'[t] = back
  BY <1>1, <1>3 DEF Types
<1>5. /\ queue' \in [Sessions -> Nat] /\ registered' \in [Sessions -> BOOLEAN]
      /\ \A r \in Sessions \ {s} : queue'[r] = queue[r] /\ registered'[r] = registered[r]
      /\ conn[s] = "open" => registered'[s]
      /\ conn[s] # "open" => queue'[s] = queue[s] /\ registered'[s] = registered[s]
  <2>0. queue \in [Sessions -> Nat] /\ registered \in [Sessions -> BOOLEAN]
    BY <1>1 DEF Types
  <2>1. CASE conn[s] = "open"
    <3>1. PICK q : q = queue[s] + Pieces
      OBVIOUS
    <3>2. /\ queue' = [queue EXCEPT ![s] = q] /\ registered' = [registered EXCEPT ![s] = TRUE]
      BY <2>1, <3>1 DEF Send, MayQueue
    <3>3. q \in Nat
      BY <2>0, <3>1, Amounts
    <3>4. queue' \in [Sessions -> Nat] /\ \A r \in Sessions \ {s} : queue'[r] = queue[r]
      BY <2>0, <3>2, <3>3, Put
    <3>5. /\ registered' \in [Sessions -> BOOLEAN] /\ registered'[s]
          /\ \A r \in Sessions \ {s} : registered'[r] = registered[r]
      BY <2>0, <3>2, Put
    <3>6. QED
      BY <2>1, <3>4, <3>5
  <2>2. CASE conn[s] # "open"
    <3>1. UNCHANGED <<queue, registered>>
      BY <2>2 DEF Send, MayQueue
    <3>2. QED
      BY <2>0, <2>2, <3>1
  <2>3. QED
    BY <2>1, <2>2
<1>6. Stay(t) /\ Connected
  BY <1>1, <1>3 DEF Stay, Connected, Types
<1>7. Only(s)
  BY <1>3, <1>5 DEF Only, Kept
<1>8. to \in {"regSend", back}
  BY <1>2
<1>9. WorksOn(t, s) /\ SamePhase
  <2>1. WorksOn(t, s)
    BY <1>4, <1>8, Basics DEF WorksOn, InitSteps, Calls
  <2>2. QED
    BY <1>6, <2>1, PhaseKept DEF WorksOn
<1>10. ~Using(t, s) /\ (Using(t, s)' <=> to = "regSend")
  BY <1>4, <1>8 DEF Using, InSendCallback
<1>11. Receiving(t, s)' => Receiving(t, s)
  BY <1>4, <1>8 DEF Receiving
<1>12. SenderOK(s)'
  <2>1. CASE to = "regSend"
    <3>1. conn[s] = "open" /\ ~registered[s]
      BY <1>2, <2>1 DEF MayQueue, StartsSend
    <3>2. Unused(s) /\ ~dropped[s]
      BY <1>1, <3>1 DEF SessionOK, SenderOK
    <3>3. sendOp[s] = "none" /\ \A u \in Threads : ~Using(u, s)
      BY <3>2 DEF Unused
    <3>4. conn'[s] # "closed"
      BY <1>3, <3>1
    <3>5. QED
      BY <1>3, <1>5, <1>6, <1>10, <2>1, <3>1, <3>2, <3>3, <3>4, UserStep
  <2>2. CASE to # "regSend"
    BY <1>1, <1>3, <1>5, <1>6, <1>10, <2>2, SenderSame DEF SessionOK
  <2>3. QED
    BY <2>1, <2>2
<1>13. ReceiverOK(s)' /\ NewOK(s)'
  BY <1>1, <1>3, <1>6, <1>11, ReceiverStep, NewStep DEF SessionOK
<1>14. ServedOK(s)' /\ OpenOK(s)'
  <2>1. conn[s] = "open" => s \in served'
    BY <1>1 DEF SessionOK, OpenOK, Waiting
  <2>2. QED
    BY <1>1, <1>3, <1>9, <2>1, ServedStays, OpenStep DEF SessionOK
<1>15. CountOK(s)'
  <2>1. t \in Workers => at[t] = s
    BY Basics
  <2>2. QED
    BY <1>1, <1>3, <1>4, <1>6, <1>9, <2>1, CountSame DEF SessionOK
<1>16. /\ t \in Workers => WorkerOK(t)'
       /\ t \in Bots => BotOK(t)' /\ pc[t] # "exited"
       /\ t = "main" => MainOK' /\ pc'[t] # "register"
  BY <1>3, <1>4, <1>8, Basics DEF WorkerOK, BotOK, MainOK, Calls, Callbacks, MainSteps
<1>17. Types'
  <2>1. back \in {"packets", "idle", "next"} /\ to \in {"regSend", "packets", "idle", "next"}
    BY <1>8
  <2>2. to \in Labels
    BY <2>1 DEF Labels, Calls, Callbacks, MainSteps
  <2>3. /\ pc' \in [Threads -> Labels] /\ at' \in [Threads -> Sessions \cup {NoSession}]
        /\ ret' \in [Threads -> {"idle", "next", "finish", "packets"}]
    BY <1>1, <1>3, <2>1, <2>2 DEF Types
  <2>4. active' \subseteq Sessions
    BY <1>1 DEF Types
  <2>5. QED
    BY <1>1, <1>3, <1>5, <2>3, <2>4 DEF Types
<1>18. QED
  BY <1>3, <1>6, <1>7, <1>9, <1>12, <1>13, <1>14, <1>15, <1>16, <1>17, Step

\* A packet whose handler sends.
LEMMA HandleAndSendInv ==
    ASSUME IInv, NEW w \in Workers, HandleAndSend(w)
    PROVE  IInv'
<1>0. PICK s : s = at[w]
  OBVIOUS
<1>1. /\ pc[w] = "packets" /\ Send(w, s, "packets") /\ Types /\ w \in Threads
      /\ sends[s] < MaxSends /\ sends' = [sends EXCEPT ![s] = sends[s] + 1]
      /\ UNCHANGED <<served, todo, active, running, waits, nulls>>
  BY <1>0, Basics DEF HandleAndSend, serverVars, IInv
<1>2. s \in Sessions /\ conn[s] # "new" /\ SessionOK(s)
  BY <1>0, <1>1, AtOf DEF Callbacks
<1>3. s \in served \/ pc["main"] = "done"
  BY <1>0, <1>2, ServedNow DEF SessionOK
<1>4. sends' \in [Sessions -> 0..MaxSends]
  <2>1. sends \in [Sessions -> 0..MaxSends]
    BY <1>1 DEF Types
  <2>2. sends[s] + 1 \in 0..MaxSends
    BY <1>1, <1>2, <2>1, Amounts
  <2>3. QED
    BY <1>1, <1>2, <2>1, <2>2, Put
<1>5. QED
  BY <1>0, <1>1, <1>2, <1>3, <1>4, SendInv

\* A bot sends on a session that main has started.
LEMMA BotSendsInv ==
    ASSUME IInv, NEW b \in Bots, NEW s \in Sessions, BotSends(b, s)
    PROVE  IInv'
<1>1. /\ pc[b] = "idle" /\ pc["main"] \in {"run", "joinBots"} /\ s \in active
      /\ Send(b, s, "idle") /\ Types /\ b \in Threads /\ SessionOK(s)
      /\ sends[s] < MaxSends /\ sends' = [sends EXCEPT ![s] = sends[s] + 1]
      /\ UNCHANGED <<served, todo, active, running, waits, nulls>>
  BY Basics DEF BotSends, serverVars, IInv
<1>2. s \in served
  BY <1>1, ServedNow DEF SessionOK
<1>3. conn[s] # "new"
  BY <1>1, <1>2 DEF SessionOK, NewOK
<1>4. sends' \in [Sessions -> 0..MaxSends]
  <2>1. sends \in [Sessions -> 0..MaxSends]
    BY <1>1 DEF Types
  <2>2. sends[s] + 1 \in 0..MaxSends
    BY <1>1, <2>1, Amounts
  <2>3. QED
    BY <1>1, <2>1, <2>2, Put
<1>5. QED
  BY <1>1, <1>2, <1>3, <1>4, SendInv

\* test_login on the session that main has registered.
LEMMA TestLoginInv ==
    ASSUME IInv, TestLogin
    PROVE  IInv'
<1>0. PICK s : s = at["main"]
  OBVIOUS
<1>1. /\ pc["main"] = "login" /\ Send("main", s, "next") /\ Types /\ MainOK
      /\ active' = active \cup {s} /\ UNCHANGED <<sends, served, todo, running, waits, nulls>>
  BY <1>0 DEF TestLogin, IInv, ThreadInv
<1>2. s \in Sessions /\ conn[s] # "new"
  BY <1>0, <1>1 DEF MainOK
<1>3. s \in served
  <2>1. ServedOK(s) /\ Starting(s)
    BY <1>0, <1>1, <1>2 DEF IInv, SessionOK, Starting
  <2>2. QED
    BY <1>1, <1>2, <2>1, ServedNow
<1>4. sends' \in [Sessions -> 0..MaxSends] /\ "main" \in Threads
  BY <1>1, Basics DEF Types
<1>5. QED
  BY <1>0, <1>1, <1>2, <1>3, <1>4, SendInv

-----------------------------------------------------------------------------
(* Threads that end, and steps of no thread *)

\* A worker or a bot ends.
LEMMA Leaves ==
    ASSUME IInv, NEW t \in Threads, t # "main", pc[t] = "idle",
           pc' = [pc EXCEPT ![t] = "exited"], UNCHANGED <<at, ret, sessionVars>>,
           UNCHANGED <<served, todo, active, running, waits>>,
           nulls' \in 0..Cardinality(Workers)
    PROVE  IInv'
<1>1. /\ Types /\ pc["main"] = pc'["main"]
      /\ UNCHANGED <<conn, queue, event, registered, pending, sendOp, recvOp, dropped, sends>>
  BY Basics DEF IInv, sessionVars, Types
<1>2. pc'[t] = "exited"
  BY <1>1 DEF Types
<1>3. Stay(t) /\ Connected
  BY <1>1 DEF Stay, Connected, Types
<1>4. SamePhase
  BY <1>3, PhaseKept
<1>5. /\ t \in Workers => WorkerOK(t)'
      /\ t \in Bots => BotOK(t)' /\ pc[t] # "exited"
  BY <1>1, <1>2 DEF IInv, ThreadInv, WorkerOK, BotOK
<1>6. ThreadInv'
  BY <1>3, <1>5, ThreadStep DEF IInv
<1>7. PhaseInv'
  <2>1. pc'["main"] = "register" => at'["main"] \notin served'
    BY <1>1 DEF IInv, PhaseInv
  <2>2. QED
    BY <1>3, <1>4, <1>5, <2>1, PhaseStep DEF IInv
<1>8. ASSUME NEW r \in Sessions PROVE SessionOK(r)'
  <2>1. Kept(r)
    BY <1>1 DEF Kept
  <2>2. \A u \in Threads : (Using(u, r)' <=> Using(u, r)) /\ (Receiving(u, r)' <=> Receiving(u, r))
    BY <1>2, <1>3 DEF Using, Receiving, Stay, InSendCallback
  <2>3. SameThreads(r) /\ (Joining(r)' <=> Joining(r)) /\ (Starting(r)' <=> Starting(r))
    BY <1>1, <2>2 DEF SameThreads, Joining, Starting
  <2>4. QED
    BY <1>4, <2>1, <2>3, Bystander DEF IInv
<1>9. Types'
  BY <1>1 DEF Types, Labels
<1>10. QED
  BY <1>6, <1>7, <1>8, <1>9 DEF IInv

\* A worker that takes a null completion, and a bot told to end.
LEMMA ExitsInv ==
    ASSUME IInv, NEW t \in Threads,
           (t \in Workers /\ WorkerExits(t)) \/ (t \in Bots /\ BotExits(t))
    PROVE  IInv'
<1>1. Types /\ t # "main"
  BY Basics DEF IInv
<1>2. CASE t \in Workers /\ WorkerExits(t)
  <2>1. nulls \in 0..Cardinality(Workers) /\ nulls > 0 /\ nulls' = nulls - 1
    BY <1>1, <1>2 DEF WorkerExits, Types
  <2>2. nulls' \in 0..Cardinality(Workers)
    BY <2>1, Amounts
  <2>3. QED
    BY <1>1, <1>2, <2>2, Leaves DEF WorkerExits, Goto
<1>3. CASE t \in Bots /\ BotExits(t)
  <2>1. nulls' \in 0..Cardinality(Workers)
    BY <1>1, <1>3 DEF BotExits, Types, serverVars
  <2>2. QED
    BY <1>1, <1>3, <2>1, Leaves DEF BotExits, Goto, serverVars
<1>4. QED
  BY <1>2, <1>3

\* A step in which no thread moves.
LEMMA Rest ==
    ASSUME IInv, NEW s \in Sessions, UNCHANGED <<pc, at, ret, served>>, Only(s), Connected,
           \A r \in Sessions \ {s} : r \in waits' <=> r \in waits,
           waits' \subseteq waits, Types',
           SenderOK(s)', ReceiverOK(s)', NewOK(s)', ServedOK(s)', OpenOK(s)', CountOK(s)'
    PROVE  IInv'
<1>1. Stay("main") /\ SamePhase /\ "main" \in Threads
  BY Basics DEF Stay, SamePhase
<1>2. MainOK'
  BY DEF IInv, ThreadInv, MainOK, Connected
<1>3. ThreadInv'
  BY <1>1, <1>2, Basics, ThreadStep DEF IInv
<1>4. PhaseInv'
  BY DEF IInv, PhaseInv
<1>5. SessionOK(s)'
  BY DEF SessionOK
<1>6. ASSUME NEW r \in Sessions, r # s PROVE SessionOK(r)'
  <2>1. SameThreads(r) /\ (Joining(r)' <=> Joining(r)) /\ (Starting(r)' <=> Starting(r))
    BY DEF SameThreads, Using, Receiving, Joining, Starting
  <2>2. /\ Kept(r) /\ (r \in served' <=> r \in served) /\ (r \in active' <=> r \in active)
        /\ (r \in todo' <=> r \in todo) /\ (r \in waits' <=> r \in waits) /\ SessionOK(r)
    BY <1>6 DEF Only, IInv
  <2>3. QED
    BY <1>1, <2>1, <2>2, Bystander
<1>7. QED
  BY <1>3, <1>4, <1>5, <1>6 DEF IInv

\* The session's own facts when nothing but the result of an operation changes.
LEMMA RestSame ==
    ASSUME IInv, NEW s \in Sessions, Types', Only(s),
           UNCHANGED <<pc, at, ret, conn, queue, event, registered, pending, dropped, served,
                       todo, active, waits>>,
           sendOp'[s] = "none" <=> sendOp[s] = "none", recvOp'[s] = "none" <=> recvOp[s] = "none"
    PROVE  IInv'
<1>1. Stay("main") /\ SamePhase /\ "main" \in Threads /\ SessionOK(s) /\ Connected
  BY Basics DEF Stay, SamePhase, IInv, Connected
<1>2. /\ \A u \in Threads : (Using(u, s)' <=> Using(u, s)) /\ (Receiving(u, s)' <=> Receiving(u, s))
      /\ (Joining(s)' <=> Joining(s)) /\ (Starting(s)' <=> Starting(s))
  BY DEF Using, Receiving, Joining, Starting
<1>3. Unused(s)' <=> Unused(s)
  BY <1>2 DEF Unused
<1>4. SenderOK(s)'
  BY <1>1, <1>2, SenderSame DEF SessionOK
<1>5. ReceiverOK(s)'
  BY <1>1, <1>2 DEF SessionOK, ReceiverOK
<1>6. NewOK(s)' /\ ServedOK(s)' /\ OpenOK(s)'
  BY <1>1, <1>2, <1>3 DEF SessionOK, NewOK, ServedOK, OpenOK
<1>7. CountOK(s)'
  BY <1>1, Basics, CountSame DEF SessionOK
<1>8. QED
  BY <1>1, <1>4, <1>5, <1>6, <1>7, Rest

\* The system completes an operation.
LEMMA CompleteInv ==
    ASSUME IInv, NEW s \in Sessions, CompleteSend(s) \/ CompleteRecv(s)
    PROVE  IInv'
<1>1. Types
  BY DEF IInv
<1>2. CASE CompleteSend(s)
  <2>1. PICK r \in Results : sendOp' = [sendOp EXCEPT ![s] = r]
    BY <1>2 DEF CompleteSend
  <2>2. /\ sendOp[s] = "posted"
        /\ UNCHANGED <<conn, queue, event, registered, pending, recvOp, dropped, sends, pc, at,
                       ret, served, todo, active, running, waits, nulls>>
    BY <1>2 DEF CompleteSend, serverVars
  <2>3. /\ sendOp' \in [Sessions -> Results \cup {"none", "posted"}] /\ sendOp'[s] = r
        /\ \A q \in Sessions \ {s} : sendOp'[q] = sendOp[q]
    BY <1>1, <2>1 DEF Types
  <2>4. sendOp'[s] # "none" /\ sendOp[s] # "none"
    BY <2>2, <2>3 DEF Results
  <2>5. Only(s) /\ Types'
    BY <1>1, <2>2, <2>3 DEF Only, Kept, Types
  <2>6. QED
    BY <2>2, <2>4, <2>5, RestSame
<1>3. CASE CompleteRecv(s)
  <2>1. PICK r \in {"data", "zero"} : recvOp' = [recvOp EXCEPT ![s] = r]
    BY <1>3 DEF CompleteRecv
  <2>2. /\ recvOp[s] = "posted"
        /\ UNCHANGED <<conn, queue, event, registered, pending, sendOp, dropped, sends, pc, at,
                       ret, served, todo, active, running, waits, nulls>>
    BY <1>3 DEF CompleteRecv, serverVars
  <2>3. /\ recvOp' \in [Sessions -> {"none", "posted", "data", "zero"}] /\ recvOp'[s] = r
        /\ \A q \in Sessions \ {s} : recvOp'[q] = recvOp[q]
    BY <1>1, <2>1 DEF Types
  <2>4. recvOp'[s] # "none" /\ recvOp[s] # "none"
    BY <2>2, <2>3
  <2>5. Only(s) /\ Types'
    BY <1>1, <2>2, <2>3 DEF Only, Kept, Types
  <2>6. QED
    BY <2>2, <2>4, <2>5, RestSame
<1>4. QED
  BY <1>2, <1>3

-----------------------------------------------------------------------------
(* The main thread *)

\* connect succeeds or the session is left out.
LEMMA ConnectInv ==
    ASSUME IInv, NEW s \in Sessions, Connect(s)
    PROVE  IInv'
<1>1. /\ pc["main"] = "next" /\ s \in todo /\ todo' = todo \ {s} /\ Types
      /\ UNCHANGED <<queue, event, registered, pending, sendOp, recvOp, dropped, sends,
                     served, active, running, waits, nulls>>
  BY DEF Connect, IInv
<1>2. /\ SessionOK(s) /\ conn[s] = "new" /\ s \notin served /\ Unused(s) /\ recvOp[s] = "none"
      /\ ~dropped[s] /\ "main" \in Threads
  BY <1>1, Basics DEF IInv, SessionOK, NewOK
<1>3. /\ event[s] = 0 /\ sendOp[s] = "none" /\ \A u \in Threads : ~Using(u, s)
  BY <1>2 DEF SessionOK, SenderOK, Unused
<1>4. /\ s \notin active /\ (\A w \in Workers : at[w] # s)
  BY <1>1, <1>2 DEF SessionOK, ServedOK
<1>5. CASE UNCHANGED <<conn, pc, at, ret>>
  <2>1. Only(s) /\ Connected /\ Types'
    BY <1>1, <1>5 DEF Only, Kept, Connected, Types
  <2>2. /\ \A u \in Threads : (Using(u, s)' <=> Using(u, s)) /\ (Receiving(u, s)' <=> Receiving(u, s))
        /\ (Joining(s)' <=> Joining(s)) /\ (Starting(s)' <=> Starting(s))
    BY <1>5 DEF Using, Receiving, Joining, Starting
  <2>3. Unused(s)' <=> Unused(s)
    BY <1>1, <2>2 DEF Unused
  <2>4. Stay("main") /\ SamePhase
    BY <1>5 DEF Stay, SamePhase
  <2>5. SenderOK(s)'
    BY <1>1, <1>2, <1>5, <2>2, <2>4, SenderSame DEF SessionOK
  <2>6. ReceiverOK(s)'
    BY <1>1, <1>2, <2>2 DEF SessionOK, ReceiverOK
  <2>7. NewOK(s)' /\ ServedOK(s)' /\ OpenOK(s)'
    BY <1>1, <1>2, <1>4, <1>5, <2>2, <2>3 DEF SessionOK, NewOK, ServedOK, OpenOK
  <2>8. CountOK(s)'
    BY <1>1, <1>2, <1>5, <2>4, Basics, CountSame DEF SessionOK
  <2>9. QED
    BY <1>1, <1>5, <2>1, <2>5, <2>6, <2>7, <2>8, Rest
<1>6. CASE conn' = [conn EXCEPT ![s] = "open"] /\ Call("main", "register", s, "next")
  <2>1. /\ pc' = [pc EXCEPT !["main"] = "register"] /\ at' = [at EXCEPT !["main"] = s]
        /\ ret' = [ret EXCEPT !["main"] = "next"] /\ conn' = [conn EXCEPT ![s] = "open"]
    BY <1>6 DEF Call
  <2>2. /\ pc'["main"] = "register" /\ at'["main"] = s /\ ret'["main"] = "next"
        /\ conn'[s] = "open"
    BY <1>1, <1>2, <2>1 DEF Types
  <2>3. Stay("main") /\ Only(s) /\ Connected
    BY <1>1, <1>2, <2>1 DEF Stay, Only, Kept, Connected, Types
  <2>4. WorksOn("main", s) /\ SamePhase
    <3>1. WorksOn("main", s)
      BY <1>1, <2>2, Basics DEF WorksOn, InitSteps
    <3>2. QED
      BY <1>2, <2>3, <3>1, PhaseKept DEF WorksOn
  <2>5. ~Using("main", s)' /\ ~Receiving("main", s)' /\ Joining(s)' /\ ~Starting(s)'
    BY <2>2 DEF Using, Receiving, Joining, Starting, InSendCallback
  <2>6. SenderOK(s)'
    <3>1. conn'[s] # "closed" /\ sendOp'[s] = "none" /\ event'[s] = 0 /\ ~dropped'[s]
      BY <1>1, <1>2, <1>3, <2>2
    <3>2. QED
      BY <1>2, <1>3, <2>3, <2>5, <3>1, UserStep
  <2>7. ReceiverOK(s)'
    BY <1>1, <1>2, <2>3, <2>5, ReceiverStep DEF SessionOK
  <2>8. NewOK(s)'
    BY <1>1, <2>2 DEF NewOK
  <2>9. ServedOK(s)'
    <3>1. Unused(s)'
      BY <1>1, <1>3, <2>3, <2>5 DEF Unused, Using, Stay
    <3>2. \A w \in Workers : at'[w] # s
      BY <1>4, <2>3, Basics DEF Stay
    <3>3. QED
      BY <1>1, <1>2, <1>4, <2>5, <3>1, <3>2 DEF ServedOK
  <2>10. OpenOK(s)'
    BY <2>2, <2>5 DEF OpenOK, Waiting
  <2>11. CountOK(s)'
    BY <1>1, <1>2, <2>3, <2>4, Basics, CountSame DEF SessionOK
  <2>12. MainOK'
    BY <2>2 DEF MainOK, MainSteps
  <2>13. Types'
    BY <1>1, <1>2, <2>1 DEF Types, Labels, MainSteps
  <2>14. QED
    BY <1>1, <1>2, <2>2, <2>3, <2>4, <2>6, <2>7, <2>8, <2>9, <2>10, <2>11, <2>12, <2>13,
       Basics, Framed
<1>7. QED
  BY <1>5, <1>6 DEF Connect

\* register_socket takes the session into _sessions, or it is disconnected.
LEMMA RegisterSocketInv ==
    ASSUME IInv, RegisterSocket
    PROVE  IInv'
<1>0. PICK s : s = at["main"]
  OBVIOUS
<1>1. /\ pc["main"] = "register" /\ Types /\ "main" \in Threads
      /\ UNCHANGED <<at, ret, conn, queue, event, registered, pending, sendOp, recvOp, dropped,
                     sends, todo, active, running, waits, nulls>>
  BY Basics DEF RegisterSocket, Goto, sessionVars, IInv
<1>2. PICK to \in {"regRecv", "disc"} :
        /\ pc' = [pc EXCEPT !["main"] = to]
        /\ to = "regRecv" => served' = served \cup {s}
        /\ to = "disc" => served' = served
  BY <1>0 DEF RegisterSocket, Goto
<1>3. /\ s \in Sessions /\ conn[s] # "new" /\ SessionOK(s) /\ ret["main"] = "next"
      /\ s \notin served /\ at["main"] = s
  BY <1>0, <1>1 DEF IInv, ThreadInv, MainOK, PhaseInv
<1>4. /\ Unused(s) /\ recvOp[s] = "none" /\ s \notin active /\ \A w \in Workers : at[w] # s
  BY <1>1, <1>3 DEF SessionOK, ServedOK
<1>5. pc'["main"] = to /\ at'["main"] = s /\ pc'["main"] # "register"
  BY <1>1, <1>2, <1>3 DEF Types
<1>6. Stay("main") /\ Only(s) /\ Connected
  <2>1. Stay("main") /\ Connected
    BY <1>1, <1>2, <1>3 DEF Stay, Connected, Types
  <2>2. \A r \in Sessions \ {s} : r \in served' <=> r \in served
    BY <1>2
  <2>3. QED
    BY <1>1, <2>1, <2>2 DEF Only, Kept
<1>7. WorksOn("main", s) /\ SamePhase
  <2>1. WorksOn("main", s)
    BY <1>1, <1>2, <1>3, <1>5, Basics DEF WorksOn, InitSteps, Calls
  <2>2. QED
    BY <1>1, <1>6, <2>1, PhaseKept DEF WorksOn
<1>8. ~Using("main", s) /\ ~Using("main", s)'
  BY <1>1, <1>2, <1>5 DEF Using, InSendCallback
<1>9. SenderOK(s)' /\ NewOK(s)'
  BY <1>1, <1>3, <1>6, <1>8, SenderSame, NewStep DEF SessionOK
<1>10. ReceiverOK(s)'
  <2>1. \A b \in Bots : ~Receiving(b, s)'
    <3>1. \A b \in Bots : /\ pc'[b] = pc[b] /\ at'[b] = at[b] /\ ret'[b] = ret[b]
                          /\ BotOK(b)
      BY <1>6, Basics DEF Stay, IInv, ThreadInv
    <3>2. QED
      BY <3>1 DEF BotOK, Receiving
  <2>2. \A w \in Workers : ~Receiving(w, s)'
    BY <1>1, <1>4 DEF Receiving
  <2>3. QED
    BY <1>1, <1>4, <2>1, <2>2, Basics DEF ReceiverOK
<1>11. ServedOK(s)' /\ OpenOK(s)'
  <2>1. CASE to = "regRecv"
    <3>1. s \in served'
      BY <1>2, <2>1
    <3>2. QED
      BY <1>1, <1>3, <1>5, <2>1, <3>1 DEF ServedOK, OpenOK, Waiting
  <2>2. CASE to = "disc"
    <3>1. Unused(s)'
      BY <1>1, <1>4, <1>6, <1>8 DEF Unused, Using, Stay
    <3>2. Joining(s)' /\ ~Starting(s)'
      BY <1>5, <2>2 DEF Joining, Starting
    <3>3. QED
      BY <1>1, <1>4, <1>5, <2>2, <3>1, <3>2 DEF ServedOK, OpenOK, Waiting
  <2>3. QED
    BY <2>1, <2>2
<1>12. CountOK(s)'
  BY <1>1, <1>3, <1>6, <1>7, Basics, CountSame DEF SessionOK
<1>13. MainOK'
  BY <1>1, <1>2, <1>3, <1>5 DEF MainOK, Calls
<1>14. Types'
  <2>1. served' \subseteq Sessions
    BY <1>1, <1>2, <1>3 DEF Types
  <2>2. QED
    BY <1>1, <1>2, <2>1 DEF Types, Labels, Calls
<1>15. QED
  BY <1>1, <1>3, <1>5, <1>6, <1>7, <1>9, <1>10, <1>11, <1>12, <1>13, <1>14, Basics, Framed

-----------------------------------------------------------------------------
(* stop *)

\* stop disconnects a session.
LEMMA CloseSessionInv ==
    ASSUME IInv, NEW s \in Sessions, CloseSession(s)
    PROVE  IInv'
<1>1. /\ pc["main"] = "close" /\ Disconnect(s) /\ waits' = waits \ {s} /\ Types
      /\ UNCHANGED <<event, pending, sendOp, recvOp, sends, served, todo, active, running, nulls,
                     pc, at, ret>>
  BY DEF CloseSession, IInv
<1>2. SessionOK(s) /\ "main" \in Threads /\ Stay("main")
  BY <1>1, Basics DEF IInv, Stay
<1>3. /\ \A r \in Sessions \ {s} : /\ conn'[r] = conn[r] /\ queue'[r] = queue[r]
                                   /\ registered'[r] = registered[r] /\ dropped'[r] = dropped[r]
      /\ conn' \in [Sessions -> {"new", "open", "closed"}] /\ queue' \in [Sessions -> Nat]
      /\ registered' \in [Sessions -> BOOLEAN] /\ dropped' \in [Sessions -> BOOLEAN]
  BY <1>1, DisconnectElse
<1>4. /\ \A u \in Threads : (Using(u, s)' <=> Using(u, s)) /\ (Receiving(u, s)' <=> Receiving(u, s))
      /\ (Joining(s)' <=> Joining(s)) /\ (Starting(s)' <=> Starting(s))
  BY <1>1 DEF Using, Receiving, Joining, Starting
<1>5. Unused(s)' <=> Unused(s)
  BY <1>1, <1>4 DEF Unused
<1>6. \/ conn[s] = "open" /\ conn'[s] = "closed" /\ queue'[s] = 0
      \/ conn[s] # "open" /\ UNCHANGED <<conn, registered, dropped, queue>>
  BY <1>1 DEF Disconnect, Types
<1>7. SenderOK(s)'
  <2>1. CASE conn[s] = "open"
    BY <1>1, <1>2, <1>4, <1>6, <2>1, SenderDisconnect DEF SessionOK
  <2>2. CASE conn[s] # "open"
    BY <1>1, <1>2, <1>4, <1>6, <2>2, SenderSame DEF SessionOK
  <2>3. QED
    BY <2>1, <2>2
<1>8. ReceiverOK(s)'
  BY <1>1, <1>2, <1>4 DEF SessionOK, ReceiverOK
<1>9. NewOK(s)'
  <2>1. CASE conn[s] = "open"
    BY <1>1, <1>2, <1>6, <2>1, NewStep DEF SessionOK
  <2>2. CASE conn[s] # "open"
    BY <1>1, <1>2, <1>5, <1>6, <2>2 DEF SessionOK, NewOK
  <2>3. QED
    BY <2>1, <2>2
<1>10. ServedOK(s)'
  BY <1>1, <1>2, <1>4, <1>5 DEF SessionOK, ServedOK
<1>11. OpenOK(s)'
  BY <1>6 DEF OpenOK
<1>12. CountOK(s)'
  BY <1>1, <1>2 DEF SessionOK, CountOK, Operations, Serving, Waiting
<1>13. Only(s) /\ Connected
  <2>1. Only(s)
    BY <1>1, <1>3 DEF Only, Kept
  <2>2. Connected
    BY <1>3, <1>6 DEF Connected
  <2>3. QED
    BY <2>1, <2>2
<1>14. waits' \subseteq waits /\ \A r \in Sessions \ {s} : r \in waits' <=> r \in waits
  BY <1>1
<1>15. Types'
  BY <1>1, <1>3, <1>14 DEF Types
<1>16. QED
  BY <1>1, <1>7, <1>8, <1>9, <1>10, <1>11, <1>12, <1>13, <1>14, <1>15, Rest

\* wait_for_io returns when the session's count is 0.
LEMMA WaitForIoInv ==
    ASSUME IInv, NEW s \in Sessions, WaitForIo(s)
    PROVE  IInv'
<1>1. /\ pc["main"] = "wait" /\ pending[s] = 0 /\ waits' = waits \ {s} /\ Types
      /\ UNCHANGED <<conn, queue, event, registered, pending, sendOp, recvOp, dropped, sends,
                     served, todo, active, running, nulls, pc, at, ret>>
  BY DEF WaitForIo, IoCompleted, sessionVars, IInv
<1>2. SessionOK(s)
  BY DEF IInv
<1>3. Kept(s) /\ SameThreads(s) /\ (Joining(s)' <=> Joining(s)) /\ (Starting(s)' <=> Starting(s))
  BY <1>1 DEF Kept, SameThreads, Using, Receiving, Joining, Starting
<1>4. /\ SenderOK(s)' /\ ReceiverOK(s)' /\ NewOK(s)'
      /\ (Unused(s)' <=> Unused(s)) /\ Serving(s)' = Serving(s)
      /\ Operations(s)' = Operations(s)
  BY <1>1, <1>2, <1>3, Untouched DEF SessionOK
<1>5. ServedOK(s)'
  BY <1>1, <1>2, <1>3, <1>4 DEF SessionOK, ServedOK
<1>6. OpenOK(s)'
  BY <1>1, <1>2, <1>3 DEF SessionOK, OpenOK, Waiting
<1>7. CountOK(s)'
  BY <1>1, <1>2, <1>4 DEF SessionOK, CountOK
<1>8. waits' \subseteq waits /\ \A r \in Sessions \ {s} : r \in waits' <=> r \in waits
  BY <1>1
<1>9. Only(s) /\ Connected /\ Types'
  BY <1>1, <1>8 DEF Only, Kept, Connected, Types
<1>10. QED
  BY <1>1, <1>4, <1>5, <1>6, <1>7, <1>8, <1>9, Rest

\* An unregistered session has nothing under way.
LEMMA NothingUnderWay ==
    ASSUME NEW s \in Sessions, CountOK(s), ServedOK(s), s \notin served, pc["main"] # "done"
    PROVE  pending[s] = 0
<1>1. sendOp[s] = "none" /\ recvOp[s] = "none" /\ \A w \in Workers : at[w] # s
  BY DEF ServedOK, Unused
<1>2. Serving(s) = {}
  BY <1>1 DEF Serving
<1>3. Cardinality(Serving(s)) = 0
  BY <1>2, FS_EmptySet
<1>4. Operations(s) = 0 + 0
  BY <1>1 DEF Operations, OneIf
<1>5. Operations(s) = 0
  BY <1>4, Numbers
<1>6. QED
  BY <1>3, <1>5, Numbers DEF CountOK

\* The steps of main from one phase to the next, and the sessions that stop has
\* still to close or to wait for.
Moves ==
    \/ pc["main"] = "next" /\ pc'["main"] = "run" /\ waits' = waits
    \/ pc["main"] = "run" /\ pc'["main"] = "joinBots" /\ waits' = waits
    \/ /\ pc["main"] = "joinBots" /\ pc'["main"] = "close" /\ waits' = served
       /\ \A b \in Bots : pc[b] = "exited"
    \/ pc["main"] = "close" /\ pc'["main"] = "wait" /\ waits = {} /\ waits' = served
    \/ pc["main"] = "wait" /\ pc'["main"] = "join" /\ waits = {} /\ waits' = waits
    \/ pc["main"] = "join" /\ pc'["main"] = "done" /\ waits' = waits

\* The next phase of main finds each session as it has to be.
LEMMA MovesSession ==
    ASSUME IInv, Moves, Stay("main"), UNCHANGED <<at, todo, sessionVars>>, served' \subseteq served,
           pc'["main"] # "done" => UNCHANGED <<served, active>>, NEW r \in Sessions
    PROVE  SessionOK(r)'
<1>1. SessionOK(r) /\ PhaseInv
  BY DEF IInv
<1>2. UNCHANGED <<conn, queue, event, registered, pending, sendOp, recvOp, dropped>>
  BY DEF sessionVars
<1>3. /\ pc["main"] \in {"next", "run", "joinBots", "close", "wait", "join"}
      /\ pc'["main"] \in {"run", "joinBots", "close", "wait", "join", "done"}
  BY DEF Moves
<1>4. ~Joining(r) /\ ~Starting(r)'
  BY <1>3 DEF Joining, Starting
<1>5. /\ ~Using("main", r) /\ ~Using("main", r)'
      /\ ~Receiving("main", r) /\ ~Receiving("main", r)'
  BY <1>3 DEF Using, Receiving, InSendCallback
<1>6. SameThreads(r)
  <2>1. \A u \in Threads : (Using(u, r)' <=> Using(u, r)) /\ (Receiving(u, r)' <=> Receiving(u, r))
    BY <1>5 DEF Using, Receiving, Stay
  <2>2. QED
    BY <2>1 DEF SameThreads
<1>7. /\ SenderOK(r)' /\ ReceiverOK(r)' /\ NewOK(r)'
      /\ (Unused(r)' <=> Unused(r)) /\ Serving(r)' = Serving(r)
      /\ Operations(r)' = Operations(r)
  BY <1>1, <1>2, <1>6, Untouched DEF SessionOK, Kept
<1>8. pending[r] = Operations(r) + Cardinality(Serving(r))
  BY <1>1 DEF SessionOK, CountOK
<1>9. ServedOK(r)'
  <2>1. CASE pc'["main"] = "done"
    BY <2>1 DEF ServedOK
  <2>2. CASE pc'["main"] # "done"
    BY <1>1, <1>2, <1>3, <1>4, <1>7, <2>2 DEF SessionOK, ServedOK
  <2>3. QED
    BY <2>1, <2>2
<1>10. conn[r] = "open" => /\ r \in served /\ pc["main"] \notin Waiting
                           /\ pc["main"] = "close" => r \in waits
  BY <1>1, <1>4 DEF SessionOK, OpenOK
<1>11. OpenOK(r)'
  BY <1>2, <1>10 DEF Moves, OpenOK, Waiting
<1>12. pc'["main"] \in Waiting /\ r \notin waits' => pending[r] = 0
  <2>1. CASE pc["main"] = "close"
    <3>1. waits' = served
      BY <2>1 DEF Moves
    <3>2. QED
      BY <1>1, <2>1, <3>1, NothingUnderWay DEF SessionOK
  <2>2. CASE pc["main"] \in {"wait", "join"}
    <3>1. pc["main"] \in Waiting /\ waits' = waits
      BY <2>2 DEF Moves, Waiting
    <3>2. QED
      BY <1>1, <3>1 DEF SessionOK, CountOK
  <2>3. CASE pc["main"] \in {"next", "run", "joinBots"}
    BY <2>3 DEF Moves, Waiting
  <2>4. QED
    BY <1>3, <2>1, <2>2, <2>3
<1>13. CountOK(r)'
  BY <1>2, <1>7, <1>8, <1>12 DEF CountOK
<1>14. QED
  BY <1>7, <1>9, <1>11, <1>13 DEF SessionOK

\* The next phase of main keeps the invariant.
LEMMA MovesInv ==
    ASSUME IInv, Moves, Stay("main"), UNCHANGED <<at, ret, todo, sessionVars>>, served' \subseteq served,
           pc'["main"] # "done" => UNCHANGED <<served, active>>, Types'
    PROVE  IInv'
<1>1. /\ pc["main"] \in {"next", "run", "joinBots", "close", "wait", "join"}
      /\ pc'["main"] \in {"run", "joinBots", "close", "wait", "join", "done"}
  BY DEF Moves
<1>2. MainOK' /\ Connected
  BY <1>1 DEF MainOK, Connected, MainSteps, Calls, sessionVars
<1>3. ThreadInv'
  BY <1>2, Basics, ThreadStep DEF IInv
<1>4. PhaseInv'
  <2>1. PhaseInv
    BY DEF IInv
  <2>2. \A b \in Bots : pc'[b] = pc[b]
    BY Basics DEF Stay
  <2>3. pc'["main"] \in {"close"} \cup Waiting => \A b \in Bots : pc'[b] = "exited"
    BY <2>1, <2>2 DEF Moves, PhaseInv, Waiting
  <2>4. pc'["main"] \in {"join", "done"} => waits' = {}
    BY <2>1 DEF Moves, PhaseInv
  <2>5. QED
    BY <1>1, <2>3, <2>4 DEF PhaseInv
<1>5. \A r \in Sessions : SessionOK(r)'
  BY MovesSession
<1>6. QED
  BY <1>3, <1>4, <1>5 DEF IInv

\* The steps of main.
LEMMA PhasesInv ==
    ASSUME IInv, AllStarted \/ Quit \/ JoinBots \/ AllClosed \/ PostNulls \/ JoinWorkers
    PROVE  IInv'
<1>1. Types /\ "main" \in Threads
  BY Basics DEF IInv
<1>2. PICK to \in {"run", "joinBots", "close", "wait", "join", "done"} :
        pc' = [pc EXCEPT !["main"] = to]
  BY DEF AllStarted, Quit, JoinBots, AllClosed, PostNulls, JoinWorkers, MainGoes, Goto
<1>3. UNCHANGED <<at, ret, sessionVars, todo>>
  BY DEF AllStarted, Quit, JoinBots, AllClosed, PostNulls, JoinWorkers, MainGoes, Goto, serverVars
<1>4. pc'["main"] = to /\ Stay("main")
  BY <1>1, <1>2, <1>3 DEF Types, Stay
<1>5. /\ served' = served \/ (served' = {} /\ active' = {})
      /\ active' = active \/ active' = {}
      /\ waits' = waits \/ waits' = served
      /\ running' = running \/ running' = FALSE
      /\ nulls' = nulls \/ nulls' = Cardinality(Workers)
  BY DEF AllStarted, Quit, JoinBots, AllClosed, PostNulls, JoinWorkers, serverVars
<1>6. Moves /\ (to # "done" => UNCHANGED <<served, active>>)
  <2>1. \A a, b \in {"run", "joinBots", "close", "wait", "join", "done"} :
           [pc EXCEPT !["main"] = a] = [pc EXCEPT !["main"] = b] => a = b
    BY <1>1 DEF Types
  <2>2. CASE AllStarted
    <3>1. /\ pc' = [pc EXCEPT !["main"] = "run"] /\ pc["main"] = "next"
          /\ UNCHANGED <<served, active, waits>>
      BY <2>2 DEF AllStarted, MainGoes, Goto, serverVars
    <3>2. QED
      BY <1>2, <1>4, <2>1, <3>1 DEF Moves
  <2>3. CASE Quit
    <3>1. /\ pc' = [pc EXCEPT !["main"] = "joinBots"] /\ pc["main"] = "run"
          /\ UNCHANGED <<served, active, waits>>
      BY <2>3 DEF Quit, MainGoes, Goto
    <3>2. QED
      BY <1>2, <1>4, <2>1, <3>1 DEF Moves
  <2>4. CASE JoinBots
    <3>1. /\ pc' = [pc EXCEPT !["main"] = "close"] /\ pc["main"] = "joinBots"
          /\ UNCHANGED <<served, active>> /\ waits' = served
          /\ \A b \in Bots : pc[b] = "exited"
      BY <2>4 DEF JoinBots, MainGoes, Goto
    <3>2. QED
      BY <1>2, <1>4, <2>1, <3>1 DEF Moves
  <2>5. CASE AllClosed
    <3>1. /\ pc' = [pc EXCEPT !["main"] = "wait"] /\ pc["main"] = "close"
          /\ UNCHANGED <<served, active>> /\ waits = {} /\ waits' = served
      BY <2>5 DEF AllClosed, MainGoes, Goto
    <3>2. QED
      BY <1>2, <1>4, <2>1, <3>1 DEF Moves
  <2>6. CASE PostNulls
    <3>1. /\ pc' = [pc EXCEPT !["main"] = "join"] /\ pc["main"] = "wait"
          /\ UNCHANGED <<served, active, waits>> /\ waits = {}
      BY <2>6 DEF PostNulls, MainGoes, Goto
    <3>2. QED
      BY <1>2, <1>4, <2>1, <3>1 DEF Moves
  <2>7. CASE JoinWorkers
    <3>1. /\ pc' = [pc EXCEPT !["main"] = "done"] /\ pc["main"] = "join" /\ waits' = waits
      BY <2>7 DEF JoinWorkers, MainGoes, Goto
    <3>2. QED
      BY <1>2, <1>4, <2>1, <3>1 DEF Moves
  <2>8. QED
    BY <2>2, <2>3, <2>4, <2>5, <2>6, <2>7
<1>7. served' \subseteq served /\ active' \subseteq Sessions /\ waits' \subseteq Sessions
  BY <1>1, <1>5 DEF Types
<1>8. Types'
  <2>1. nulls' \in 0..Cardinality(Workers) /\ running' \in BOOLEAN
    BY <1>1, <1>5, Amounts DEF Types
  <2>2. pc' \in [Threads -> Labels]
    BY <1>1, <1>2 DEF Types, Labels, MainSteps
  <2>3. served' \subseteq Sessions
    BY <1>1, <1>7 DEF Types
  <2>4. QED
    BY <1>1, <1>3, <1>7, <2>1, <2>2, <2>3 DEF Types, sessionVars
<1>9. QED
  BY <1>3, <1>4, <1>6, <1>7, <1>8, MovesInv

-----------------------------------------------------------------------------
(* The invariant *)

\* The initial state: no session has connected.
LEMMA InitInv ==
    ASSUME Init
    PROVE  IInv
<1>1. /\ conn = [s \in Sessions |-> "new"] /\ queue = [s \in Sessions |-> 0]
      /\ event = [s \in Sessions |-> 0] /\ registered = [s \in Sessions |-> FALSE]
      /\ pending = [s \in Sessions |-> 0] /\ sendOp = [s \in Sessions |-> "none"]
      /\ recvOp = [s \in Sessions |-> "none"] /\ dropped = [s \in Sessions |-> FALSE]
      /\ sends = [s \in Sessions |-> 0] /\ served = {} /\ todo = Sessions /\ active = {}
      /\ running = TRUE /\ waits = {} /\ nulls = 0
      /\ pc = [t \in Threads |-> IF t = "main" THEN "next" ELSE "idle"]
      /\ at = [t \in Threads |-> NoSession] /\ ret = [t \in Threads |-> "idle"]
  BY DEF Init
<1>2. /\ pc["main"] = "next" /\ \A t \in Threads \ {"main"} : pc[t] = "idle"
      /\ \A t \in Threads : /\ at[t] = NoSession /\ ret[t] = "idle"
                            /\ pc[t] \in {"next", "idle"}
  BY <1>1, Basics
<1>3. Types
  <2>1. 0 \in Nat /\ 0 \in 0..MaxSends /\ 0 \in 0..Cardinality(Workers)
    BY Numbers, Amounts
  <2>2. \A t \in Threads : (IF t = "main" THEN "next" ELSE "idle") \in Labels
    BY DEF Labels, MainSteps
  <2>3. QED
    BY <1>1, <2>1, <2>2 DEF Types
<1>4. ThreadInv
  <2>1. \A w \in Workers : WorkerOK(w)
    BY <1>2, Basics DEF WorkerOK
  <2>2. \A b \in Bots : BotOK(b)
    BY <1>2, Basics DEF BotOK
  <2>3. MainOK
    BY <1>2 DEF MainOK, MainSteps, Calls
  <2>4. QED
    BY <2>1, <2>2, <2>3 DEF ThreadInv
<1>5. PhaseInv
  BY <1>2 DEF PhaseInv, Waiting
<1>6. ASSUME NEW s \in Sessions PROVE SessionOK(s)
  <2>1. /\ conn[s] = "new" /\ event[s] = 0 /\ pending[s] = 0 /\ sendOp[s] = "none"
        /\ recvOp[s] = "none" /\ ~dropped[s] /\ s \notin served /\ s \notin active
    BY <1>1
  <2>2. \A t \in Threads : at[t] # s /\ ~Using(t, s) /\ ~Receiving(t, s)
    BY <1>2, Basics DEF Using, Receiving
  <2>3. Unused(s) /\ ~Starting(s)
    BY <1>2, <2>1, <2>2 DEF Unused, Starting
  <2>4. SenderOK(s) /\ ReceiverOK(s) /\ NewOK(s)
    BY <2>1, <2>2, <2>3 DEF SenderOK, ReceiverOK, NewOK
  <2>5. ServedOK(s) /\ OpenOK(s)
    BY <2>1, <2>2, <2>3, Basics DEF ServedOK, OpenOK
  <2>6. Serving(s) = {}
    BY <2>2, Basics DEF Serving
  <2>7. Cardinality(Serving(s)) = 0
    BY <2>6, FS_EmptySet
  <2>8. Operations(s) = 0 + 0
    BY <2>1 DEF Operations, OneIf
  <2>9. pending[s] = Operations(s) + Cardinality(Serving(s))
    BY <2>1, <2>7, <2>8, Numbers
  <2>10. CountOK(s)
    BY <2>1, <2>9 DEF CountOK
  <2>11. QED
    BY <2>4, <2>5, <2>10 DEF SessionOK
<1>7. QED
  BY <1>3, <1>4, <1>5, <1>6 DEF IInv

\* A step that changes nothing keeps the invariant.
LEMMA StutterInv ==
    ASSUME IInv, UNCHANGED vars
    PROVE  IInv'
<1>1. /\ UNCHANGED <<conn, queue, event, registered, pending, sendOp, recvOp, dropped, sends>>
      /\ UNCHANGED <<served, todo, active, running, waits, nulls, pc, at, ret>>
  BY DEF vars, sessionVars, serverVars
<1>2. Types' /\ PhaseInv'
  BY <1>1 DEF IInv, Types, PhaseInv
<1>3. Stay("main") /\ SamePhase /\ Connected
  BY <1>1 DEF Stay, SamePhase, Connected
<1>4. MainOK'
  BY <1>1 DEF IInv, ThreadInv, MainOK
<1>5. ThreadInv'
  BY <1>3, <1>4, Basics, ThreadStep DEF IInv
<1>6. ASSUME NEW r \in Sessions PROVE SessionOK(r)'
  <2>1. /\ Kept(r) /\ SameThreads(r)
        /\ (Joining(r)' <=> Joining(r)) /\ (Starting(r)' <=> Starting(r))
    BY <1>1 DEF Kept, SameThreads, Using, Receiving, Joining, Starting
  <2>2. QED
    BY <1>1, <1>3, <2>1, Bystander DEF IInv
<1>7. QED
  BY <1>2, <1>5, <1>6 DEF IInv

\* Every step keeps the invariant.
LEMMA NextInv ==
    ASSUME IInv, [Next]_vars
    PROVE  IInv'
<1>1. ASSUME NEW t \in Threads, Session(t) PROVE IInv'
  BY <1>1, RegisterSendClosedInv, RegisterSendInv, RegisterRecvInv, CallDisconnectInv DEF Session
<1>2. ASSUME NEW w \in Workers, Callback(w) PROVE IInv'
  <2>1. CASE \E s \in Sessions : DispatchSend(w, s) \/ DispatchRecv(w, s)
    BY <2>1, DispatchSendInv, DispatchRecvInv
  <2>2. CASE ProcessSendClosed(w) \/ ProcessSendZero(w) \/ ProcessSendPart(w) \/ ProcessSend(w)
    BY <2>2, ProcessSendInv
  <2>3. CASE ProcessRecv(w) \/ EndPackets(w)
    BY <2>3, ProcessRecvInv
  <2>4. CASE \E back \in {"packets", "finish"} : HandleAndEnd(w, back)
    BY <2>4, ProcessRecvInv
  <2>5. CASE HandleAndSend(w)
    BY <2>5, HandleAndSendInv
  <2>6. CASE FinishIo(w)
    BY <2>6, FinishIoInv
  <2>7. QED
    BY <1>2, <2>1, <2>2, <2>3, <2>4, <2>5, <2>6 DEF Callback
<1>3. ASSUME NEW w \in Workers, WorkerExits(w) PROVE IInv'
  BY <1>3, Basics, ExitsInv
<1>4. ASSUME NEW b \in Bots, BotExits(b) PROVE IInv'
  BY <1>4, Basics, ExitsInv
<1>5. ASSUME NEW b \in Bots, NEW s \in Sessions, BotSends(b, s) PROVE IInv'
  BY <1>5, BotSendsInv
<1>6. ASSUME NEW s \in Sessions, CompleteSend(s) \/ CompleteRecv(s) PROVE IInv'
  BY <1>6, CompleteInv
<1>7. CASE Main
  <2>1. CASE \E s \in Sessions : Connect(s) \/ CloseSession(s) \/ WaitForIo(s)
    BY <2>1, ConnectInv, CloseSessionInv, WaitForIoInv
  <2>2. CASE AllStarted \/ JoinBots \/ AllClosed \/ PostNulls \/ JoinWorkers
    BY <2>2, PhasesInv
  <2>3. QED
    BY <1>7, <2>1, <2>2, RegisterSocketInv, TestLoginInv DEF Main
<1>8. CASE Quit
  BY <1>8, PhasesInv
<1>9. CASE UNCHANGED vars
  BY <1>9, StutterInv
<1>10. QED
  BY <1>1, <1>2, <1>3, <1>4, <1>5, <1>6, <1>7, <1>8, <1>9 DEF Next, Exited

\* The inductive invariant of the client's sessions and of stop.
THEOREM Invariant == Spec => []IInv
<1>1. Init => IInv
  BY InitInv
<1>2. IInv /\ [Next]_vars => IInv'
  BY NextInv
<1>3. QED
  BY <1>1, <1>2, PTL DEF Spec

-----------------------------------------------------------------------------
(* What it shows *)

\* The workers of a session are those in its callbacks.
LEMMA CallbackWorkers ==
    ASSUME IInv, NEW s \in Sessions
    PROVE  InCallback(s) = Serving(s)
<1>1. s # NoSession
  BY Basics
<1>2. ASSUME NEW w \in Workers, at[w] = s PROVE ret[w] \in {"finish", "packets"}
  BY <1>1, <1>2 DEF IInv, ThreadInv, WorkerOK
<1>3. QED
  BY <1>2 DEF InCallback, Serving

\* A count of 0 leaves nothing of what it counts.
LEMMA CountZero ==
    ASSUME NEW s \in Sessions, CountOK(s), pending[s] = 0
    PROVE  sendOp[s] = "none" /\ recvOp[s] = "none" /\ Serving(s) = {}
<1>1. PICK a, b, c : /\ a = OneIf(sendOp[s] # "none") /\ b = OneIf(recvOp[s] # "none")
                     /\ c = Cardinality(Serving(s))
  OBVIOUS
<1>2. c \in Nat
  BY <1>1, Finite
<1>3. a \in {0, 1} /\ b \in {0, 1}
  BY <1>1 DEF OneIf
<1>4. 0 = a + b + c
  BY <1>1 DEF CountOK, Operations
<1>5. a = 0 /\ b = 0 /\ c = 0 /\ 0 # 1
  BY <1>2, <1>3, <1>4, Sums
<1>6. sendOp[s] = "none" /\ recvOp[s] = "none"
  BY <1>1, <1>5 DEF OneIf
<1>7. QED
  BY <1>1, <1>5, <1>6, Finite, FS_EmptySet

\* The SendEvent has one user at a time and keeps the buffers of a send under way,
\* whatever threads send, complete or disconnect (TestSession::send, register_send,
\* process_send and disconnect).
THEOREM SendEventOwned == Spec => []SendEventSafe
<1>1. ASSUME IInv PROVE SendEventSafe
  <2>1. BuffersKept
    BY <1>1 DEF IInv, SessionOK, SenderOK, BuffersKept
  <2>2. ASSUME NEW s \in Sessions
        PROVE  OneIf(sendOp[s] # "none")
                 + Cardinality({t \in Threads : at[t] = s /\ pc[t] \in InSendCallback}) <= 1
    <3>1. PICK U : U = {t \in Threads : at[t] = s /\ pc[t] \in InSendCallback}
      OBVIOUS
    <3>2. /\ \A t, u \in U : t = u
          /\ sendOp[s] # "none" => U = {}
      BY <1>1, <3>1 DEF IInv, SessionOK, SenderOK, Using
    <3>3. U = {} \/ \E t : U = {t}
      <4>1. ASSUME NEW t \in U PROVE U = {t}
        BY <3>2
      <4>2. QED
        BY <4>1
    <3>4. Cardinality(U) = 0 \/ (Cardinality(U) = 1 /\ sendOp[s] = "none")
      BY <3>2, <3>3, FS_EmptySet, FS_Singleton
    <3>5. 0 + 0 <= 1 /\ 1 + 0 <= 1 /\ 0 + 1 <= 1
      BY Sums
    <3>6. QED
      BY <3>1, <3>4, <3>5 DEF OneIf
  <2>3. QED
    BY <2>1, <2>2 DEF SendEventSafe, SingleSender
<1>2. QED
  BY <1>1, Invariant, PTL

\* _pending_io is exact, nothing is under way once stop has waited, and no session
\* is left with data or buffers (TestSession::begin_io, finish_io and wait_for_io,
\* ClientServer::stop).
THEOREM StopIsQuiet == Spec => []IoAccounted
<1>1. ASSUME IInv PROVE IoAccounted
  <2>1. PendingExact
    BY <1>1, CallbackWorkers DEF IInv, SessionOK, CountOK, Operations, PendingExact
  <2>2. ASSUME pc["main"] \in {"join", "done"}, NEW s \in Sessions
        PROVE  /\ pending[s] = 0 /\ InCallback(s) = {}
               /\ sendOp[s] = "none" /\ recvOp[s] = "none"
    <3>1. CountOK(s) /\ waits = {}
      BY <1>1, <2>2 DEF IInv, SessionOK, PhaseInv
    <3>2. pending[s] = 0
      BY <2>2, <3>1 DEF CountOK, Waiting
    <3>3. QED
      BY <1>1, <3>1, <3>2, CountZero, CallbackWorkers
  <2>3. ASSUME pc["main"] = "done", NEW s \in Sessions PROVE event[s] = 0
    <3>1. sendOp[s] = "none" /\ \A w \in Workers : at[w] # s
      <4>1. CountOK(s) /\ pending[s] = 0
        BY <1>1, <2>2, <2>3 DEF IInv, SessionOK
      <4>2. QED
        BY <4>1, CountZero DEF Serving
    <3>2. \A b \in Bots : pc[b] = "exited"
      BY <1>1, <2>3 DEF IInv, PhaseInv, Waiting
    <3>3. \A t \in Threads : ~Using(t, s)
      BY <2>3, <3>1, <3>2, Basics DEF Using, InSendCallback
    <3>4. QED
      BY <1>1, <3>1, <3>3 DEF IInv, SessionOK, SenderOK, Unused
  <2>4. NothingLeft
    BY <1>1, <2>3 DEF NothingLeft, IInv, SessionOK, SenderOK
  <2>5. QED
    BY <2>1, <2>2, <2>4 DEF IoAccounted, QuietAfterWait
<1>2. QED
  BY <1>1, Invariant, PTL

\* The counters and the threads' statements stay in their ranges: _pending_io
\* never exceeds the two operations and one callback for every worker.
THEOREM TypeCorrect == Spec => []TypeOK
<1>1. ASSUME IInv PROVE TypeOK
  <2>1. Types /\ ThreadInv
    BY <1>1 DEF IInv
  <2>2. ASSUME NEW s \in Sessions PROVE pending[s] \in 0..(2 + Cardinality(Workers))
    <3>1. PICK a, b, c, n : /\ a = OneIf(sendOp[s] # "none") /\ b = OneIf(recvOp[s] # "none")
                            /\ c = Cardinality(Serving(s)) /\ n = Cardinality(Workers)
      OBVIOUS
    <3>2. c \in Nat /\ c <= n /\ n \in Nat
      BY <3>1, Finite, FS_CardinalityType, ClientIoAssumption
    <3>3. a \in {0, 1} /\ b \in {0, 1}
      BY <3>1 DEF OneIf
    <3>4. pending[s] = a + b + c
      BY <1>1, <3>1 DEF IInv, SessionOK, CountOK, Operations
    <3>5. a + b + c \in 0..(2 + n)
      BY <3>2, <3>3, Sums
    <3>6. QED
      BY <3>1, <3>4, <3>5
  <2>3. pending \in [Sessions -> 0..(2 + Cardinality(Workers))]
    BY <2>1, <2>2 DEF Types
  <2>4. /\ \A w \in Workers : pc[w] \in Calls \cup Callbacks \cup {"idle", "exited"}
        /\ \A b \in Bots : pc[b] \in {"idle", "regSend", "disc", "exited"}
        /\ pc["main"] \in Calls \cup MainSteps
    BY <2>1 DEF ThreadInv, WorkerOK, BotOK, MainOK
  <2>5. QED
    BY <2>1, <2>3, <2>4 DEF Types, TypeOK
<1>2. QED
  BY <1>1, Invariant, PTL

\* A send is posted by register_send alone.
LEMMA PostedBy ==
    ASSUME IInv, Next, NEW s \in Sessions, sendOp[s] # "posted", sendOp'[s] = "posted"
    PROVE  \E t \in Threads : RegisterSend(t) /\ at[t] = s
<1>1. Types
  BY DEF IInv
<1>2. sendOp' # sendOp
  OBVIOUS
<1>3. ASSUME NEW t \in Threads, Session(t) PROVE RegisterSend(t) /\ at[t] = s
  <2>1. RegisterSend(t)
    BY <1>2, <1>3 DEF Session, RegisterSendClosed, RegisterRecv, CallDisconnect
  <2>2. PICK o, r : r = at[t] /\ sendOp' = [sendOp EXCEPT ![r] = o]
    BY <2>1 DEF RegisterSend
  <2>3. s = r
    BY <1>1, <2>2 DEF Types
  <2>4. QED
    BY <2>1, <2>2, <2>3
<1>4. ASSUME NEW r \in Sessions, NEW o, o # "posted", sendOp' = [sendOp EXCEPT ![r] = o]
      PROVE  FALSE
  BY <1>1, <1>4 DEF Types
<1>5. ASSUME NEW w \in Workers, Callback(w) PROVE FALSE
  <2>1. CASE \E r \in Sessions : DispatchSend(w, r)
    BY <1>4, <2>1 DEF DispatchSend
  <2>2. CASE \E r \in Sessions : DispatchRecv(w, r)
    BY <1>2, <2>2 DEF DispatchRecv
  <2>3. CASE ProcessSendClosed(w) \/ ProcessSendZero(w) \/ ProcessSendPart(w) \/ ProcessSend(w)
    BY <1>2, <2>3 DEF ProcessSendClosed, ProcessSendZero, ProcessSendPart, ProcessSend
  <2>4. CASE ProcessRecv(w) \/ EndPackets(w) \/ FinishIo(w)
    BY <1>2, <2>4 DEF ProcessRecv, EndPackets, FinishIo, sessionVars
  <2>5. CASE \E back \in {"packets", "finish"} : HandleAndEnd(w, back)
    BY <1>2, <2>5 DEF HandleAndEnd, sessionVars
  <2>6. CASE HandleAndSend(w)
    BY <1>2, <2>6 DEF HandleAndSend, Send
  <2>7. QED
    BY <1>5, <2>1, <2>2, <2>3, <2>4, <2>5, <2>6 DEF Callback
<1>6. ASSUME NEW w \in Workers, WorkerExits(w) PROVE FALSE
  BY <1>2, <1>6 DEF WorkerExits, sessionVars
<1>7. ASSUME NEW b \in Bots, BotExits(b) PROVE FALSE
  BY <1>2, <1>7 DEF BotExits, sessionVars
<1>8. ASSUME NEW b \in Bots, NEW r \in Sessions, BotSends(b, r) PROVE FALSE
  BY <1>2, <1>8 DEF BotSends, Send
<1>9. ASSUME NEW r \in Sessions, CompleteSend(r) \/ CompleteRecv(r) PROVE FALSE
  <2>1. CASE CompleteSend(r)
    <3>1. PICK o \in Results : sendOp' = [sendOp EXCEPT ![r] = o]
      BY <2>1 DEF CompleteSend
    <3>2. o # "posted"
      BY DEF Results
    <3>3. QED
      BY <1>4, <3>1, <3>2
  <2>2. CASE CompleteRecv(r)
    BY <1>2, <2>2 DEF CompleteRecv
  <2>3. QED
    BY <1>9, <2>1, <2>2
<1>10. CASE Main \/ Quit
  <2>1. CASE \E r \in Sessions : Connect(r) \/ CloseSession(r) \/ WaitForIo(r)
    BY <1>2, <2>1 DEF Connect, CloseSession, WaitForIo, sessionVars
  <2>2. CASE RegisterSocket
    BY <1>2, <2>2 DEF RegisterSocket, sessionVars
  <2>3. CASE TestLogin
    BY <1>2, <2>3 DEF TestLogin, Send
  <2>4. CASE AllStarted \/ Quit \/ JoinBots \/ AllClosed \/ PostNulls \/ JoinWorkers
    BY <1>2, <2>4 DEF AllStarted, Quit, JoinBots, AllClosed, PostNulls, JoinWorkers, MainGoes,
                      sessionVars
  <2>5. QED
    BY <1>10, <2>1, <2>2, <2>3, <2>4 DEF Main
<1>11. CASE Exited
  BY <1>2, <1>11 DEF Exited, vars, sessionVars
<1>12. QED
  BY <1>3, <1>5, <1>6, <1>7, <1>8, <1>9, <1>10, <1>11 DEF Next

\* Once data of a session was thrown away no send is posted: the flag keeps every
\* sender out until the disconnect (TestSession::register_send, process_send).
THEOREM NoHoleInStream == Spec => NoSendAfterLoss
<1>1. ASSUME IInv, [Next]_vars
      PROVE  [\A s \in Sessions :
                 dropped[s] => ~(sendOp[s] # "posted" /\ sendOp'[s] = "posted")]_vars
  <2>1. ASSUME NEW s \in Sessions, dropped[s], sendOp[s] # "posted", sendOp'[s] = "posted", Next
        PROVE  FALSE
    <3>1. PICK t \in Threads : RegisterSend(t) /\ at[t] = s
      BY <1>1, <2>1, PostedBy
    <3>2. Using(t, s) /\ conn[s] = "open" /\ SenderOK(s)
      BY <1>1, <3>1 DEF RegisterSend, Using, InSendCallback, IInv, SessionOK
    <3>3. QED
      BY <2>1, <3>2, UserAlone
  <2>2. QED
    BY <1>1, <2>1
<1>2. QED
  BY <1>1, Invariant, PTL DEF Spec, NoSendAfterLoss
=============================================================================
