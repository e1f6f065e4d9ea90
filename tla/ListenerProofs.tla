--------------------------- MODULE ListenerProofs ---------------------------
(***************************************************************************)
(* Proofs about Listener, for any number of slots, workers, background     *)
(* threads and sessions: SlotPlaced, NoUseAfterDestroy and                 *)
(* NoHandOverAfterShutdown.                                                *)
(*                                                                         *)
(* A slot is a token: a request of the kernel, a timer item, a queued      *)
(* retry or one thread (SlotInv).  The event refers to a session and to    *)
(* the listener exactly while the request or its callback exists           *)
(* (OwnerInv), so _pending_io counts the owned events and the callbacks    *)
(* that have given the event back (CountInv).  That close_service finds no *)
(* session between accept and hand-over, and that ~Listener runs after the *)
(* last user, both follow from that count being 0 when wait_for_io returns *)
(* and staying 0 (PhaseInv).                                               *)
(***************************************************************************)
EXTENDS Listener, FiniteSetTheorems, TLAPS

\* Most leaves are first-order reasoning; those with arithmetic or functions name
\* the SMT solver.
USE ZenonT(30)

\* Requests, timer items and queued retries of a slot; a thread is not among them.
Accounted(s) == posted[s] + timer[s] + queued[s]

\* A slot is in one place, and until the stop a started slot is in some place.
SlotOK(s) ==
    /\ Accounted(s) <= 1
    /\ \A t \in Threads : slot[t] = s => Accounted(s) = 0 /\ s \notin toStart
    /\ \A t, u \in Threads : slot[t] = s /\ slot[u] = s => t = u
    /\ s \in toStart => Accounted(s) = 0
    /\ ~acceptStopped /\ s \notin toStart \cup abandoned =>
           Accounted(s) = 1 \/ \E t \in Threads : slot[t] = s

SlotInv == \A s \in Slots : SlotOK(s)

\* What the statement of a thread says of its slot and of its session.
ThreadOK(t) ==
    /\ slot[t] \in Slots <=> pc[t] \in {"accept", "connect", "register", "post"}
    /\ held[t] \in Sessions <=> pc[t] \in {"connect", "post"}
    /\ pc[t] = "post" => lock = t /\ ~acceptStopped /\ slotSession[slot[t]] = held[t]

\* main itself only runs register_accept, and only in ServerService::start.
MainOK ==
    /\ pc["main"] \in {"idle", "register", "post", "return"}
    /\ pc["main"] # "idle" => mainPc = "start" /\ toStart # Slots

RetryOK == retrying \in Workers => pc[retrying] \in {"register", "post", "return"}

ThreadInv == (\A t \in Threads : ThreadOK(t)) /\ MainOK /\ RetryOK

\* The event is with the kernel, with its callback or about to be posted.
InUse(s) == posted[s] > 0 \/ \E t \in Threads : slot[t] = s /\ pc[t] \in {"post", "accept"}

OwnerOK(s) ==
    /\ slotOwner[s] <=> InUse(s)
    /\ slotSession[s] \in Sessions <=> InUse(s)

OwnerInv == \A s \in Slots : OwnerOK(s)

Owned == {s \in Slots : slotOwner[s]}

\* Workers whose completion has given the event back and is not finished.
IsCompleting(w) ==
    \/ pc[w] \in {"connect", "finish"}
    \/ pc[w] \in {"register", "post"} /\ retrying # w

Completing == {w \in Workers : IsCompleting(w)}

CountInv == pendingIo = Cardinality(Owned) + Cardinality(Completing)

\* A session that is not handed over is with an event or with a callback.
NewInv ==
    \A x \in Sessions : sess[x] = "new" =>
        \/ \E s \in Slots : slotSession[s] = x
        \/ \E t \in Threads : pc[t] = "connect" /\ held[t] = x

Before   == {"start", "run", "join", "closeSocket"}
Released == {"stopWorkers", "joinWorkers", "clear", "exit"}

\* What main has done at each of its statements.
PhaseInv ==
    /\ acceptStopped <=> mainPc \notin Before
    /\ mainPc \notin Before \cup {"waitIo"} => pendingIo = 0
    /\ serviceHolds <=> mainPc \notin Released
    /\ mainPc \in {"start", "joinWorkers", "clear", "exit"} => ~running
    /\ mainPc = "start" => \A w \in Workers : pc[w] = "idle"
    /\ mainPc \in {"clear", "exit"} => Users = {}
    /\ mainPc = "exit" => \A s \in Slots : timer[s] = 0

\* What close_service has done to the sessions.
SessionPhase ==
    /\ mainPc \in Before \cup {"waitIo", "collect"} =>
           snapshot = {} /\ begun = {} /\ \A x \in Sessions : sess[x] # "quiet"
    /\ mainPc = "start" => \A x \in Sessions : sess[x] # "up"
    /\ mainPc \in {"begin", "wait"} => \A x \in Sessions : sess[x] # "free" => x \in snapshot
    /\ mainPc \in {"reset"} \cup Released => \A x \in Sessions : sess[x] = "free"

\* ~Listener has run exactly when nothing refers to the listener.
DestroyInv ==
    destroyed <=> ~serviceHolds /\ (\A s \in Slots : ~slotOwner[s]) /\ Users = {}

IInv == /\ TypeOK /\ SlotInv /\ ThreadInv /\ OwnerInv /\ CountInv /\ NewInv
        /\ PhaseInv /\ SessionPhase /\ DestroyInv

-----------------------------------------------------------------------------
(* Sets and counts *)

OneIf(b) == IF b THEN 1 ELSE 0

\* The sizes of two finite sets that differ at most in one element.
LEMMA CardStep ==
    ASSUME NEW S, NEW R, IsFiniteSet(S), IsFiniteSet(R), NEW a,
           \A x : x # a => (x \in R <=> x \in S)
    PROVE  /\ Cardinality(S) \in Nat /\ Cardinality(R) \in Nat
           /\ Cardinality(R) = Cardinality(S) + OneIf(a \in R) - OneIf(a \in S)
<1>1. Cardinality(S) \in Nat /\ Cardinality(R) \in Nat
  BY FS_CardinalityType
<1> USE <1>1
<1>2. CASE a \in R /\ a \notin S
  <2>1. R = S \cup {a}
    BY <1>2
  <2>2. QED
    BY <1>2, <2>1, FS_AddElement, SMTT(30) DEF OneIf
<1>3. CASE a \notin R /\ a \in S
  <2>1. R = S \ {a}
    BY <1>3
  <2>2. Cardinality(R) = Cardinality(S) - 1
    BY <1>3, <2>1, FS_RemoveElement
  <2>3. QED
    BY <1>3, <2>2, SMTT(30) DEF OneIf
<1>4. CASE a \in R <=> a \in S
  <2>1. R = S
    BY <1>4, SMTT(30)
  <2>2. QED
    BY <1>4, <2>1, SMTT(30) DEF OneIf
<1>5. QED
  BY <1>2, <1>3, <1>4

\* The threads and the null value.
LEMMA Basics ==
    /\ "main" \in Threads /\ Workers \subseteq Threads /\ "main" \notin Workers
    /\ \A t \in Threads : t # "main" => t \in Workers
    /\ Nobody \notin Slots /\ Nobody \notin Sessions /\ Nobody \notin Threads
  BY ListenerAssumption DEF Threads

\* The counted sets are finite.
LEMMA Finite ==
    /\ IsFiniteSet(Owned) /\ IsFiniteSet(Owned')
    /\ IsFiniteSet(Completing) /\ IsFiniteSet(Completing')
<1>1. Owned \subseteq Slots /\ Owned' \subseteq Slots
  BY DEF Owned
<1>2. Completing \subseteq Workers /\ Completing' \subseteq Workers
  BY DEF Completing
<1>3. QED
  BY <1>1, <1>2, FS_Subset, ListenerAssumption

-----------------------------------------------------------------------------
(* What a step of thread t on slot s keeps *)

\* A step of t moves no other thread.
Stay(t) == \A u \in Threads \ {t} : /\ pc'[u] = pc[u] /\ slot'[u] = slot[u]
                                    /\ held'[u] = held[u]

\* A step of t concerns no slot but s.
OnlySlot(t, s) ==
    /\ slot[t] \in {s, Nobody} /\ slot'[t] \in {s, Nobody}
    /\ \A r \in Slots \ {s} :
          /\ posted'[r] = posted[r] /\ timer'[r] = timer[r] /\ queued'[r] = queued[r]
          /\ slotOwner'[r] = slotOwner[r] /\ slotSession'[r] = slotSession[r]
          /\ r \in toStart' <=> r \in toStart
          /\ r \in abandoned' <=> r \in abandoned

\* A slot is with thread t, or t takes it from its only place.
Takes(t, s) == slot[t] = s \/ Accounted(s) = 1 \/ s \in toStart

\* A slot with no accept and no job queued is with the timer or nowhere.
LEMMA EmptyPlace ==
    ASSUME NEW s, posted'[s] = 0, queued'[s] = 0
    PROVE  /\ ~(posted'[s] > 0)
           /\ timer'[s] = 0 => Accounted(s)' = 0 /\ Accounted(s)' <= 1
           /\ timer'[s] = 1 => Accounted(s)' = 1 /\ Accounted(s)' <= 1
  BY SMT DEF Accounted

\* An assignment of the value a slot has changes nothing.
LEMMA SameAt ==
    ASSUME NEW S, NEW f \in [Slots -> S], NEW s \in Slots, NEW v, f[s] = v
    PROVE  [f EXCEPT ![s] = v] = f
  BY SMT

\* register_accept leaves its slot to the timer once.
LEMMA TimerSet ==
    ASSUME timer \in [Slots -> Nat], NEW s \in Slots, timer[s] = 0,
           timer' = [timer EXCEPT ![s] = @ + 1]
    PROVE  /\ timer' \in [Slots -> Nat] /\ timer'[s] = 1
           /\ \A r \in Slots \ {s} : timer'[r] = timer[r]
  BY SMT

\* The slot a thread takes is with no other thread.
LEMMA TakenAlone ==
    ASSUME SlotInv, NEW t \in Threads, NEW s \in Slots, Takes(t, s)
    PROVE  \A u \in Threads \ {t} : slot[u] # s
<1>1. SlotOK(s)
  BY DEF SlotInv
<1>2. QED
  BY <1>1, SMTT(30) DEF SlotOK, Takes

\* A slot changes its place.
LEMMA SlotStep ==
    ASSUME SlotInv, NEW t \in Threads, NEW s \in Slots, Stay(t), OnlySlot(t, s),
           Takes(t, s), acceptStopped' = acceptStopped,
           s \notin toStart', Accounted(s)' <= 1,
           slot'[t] = s => Accounted(s)' = 0,
           acceptStopped \/ s \in abandoned' \/ slot'[t] = s \/ Accounted(s)' = 1
    PROVE  SlotInv'
<1>1. \A u \in Threads \ {t} : slot[u] # s /\ slot'[u] # s
  BY TakenAlone, SMTT(30) DEF Stay
<1>2. SlotOK(s)'
  BY <1>1 DEF SlotOK
<1>3. ASSUME NEW r \in Slots, r # s PROVE SlotOK(r)'
  <2>1. SlotOK(r)
    BY DEF SlotInv
  <2>2. Accounted(r)' = Accounted(r)
    BY <1>3 DEF Accounted, OnlySlot
  <2>3. \A u \in Threads : slot'[u] = r <=> slot[u] = r
    BY <1>3, Basics, SMTT(30) DEF OnlySlot, Stay
  <2>4. (r \in toStart' <=> r \in toStart) /\ (r \in abandoned' <=> r \in abandoned)
    BY <1>3 DEF OnlySlot
  <2>5. QED
    BY <2>1, <2>2, <2>3, <2>4 DEF SlotOK
<1>4. QED
  BY <1>2, <1>3 DEF SlotInv

\* A step that moves no slot.
LEMMA SlotSame ==
    ASSUME SlotInv, UNCHANGED <<posted, timer, queued, slot, toStart, abandoned>>,
           acceptStopped => acceptStopped'
    PROVE  SlotInv'
  BY DEF SlotInv, SlotOK, Accounted

\* The statements of the other threads keep their meaning.
LEMMA ThreadStep ==
    ASSUME ThreadInv, NEW t \in Threads, Stay(t), ThreadOK(t)', MainOK', RetryOK',
           \A u \in Threads \ {t} : pc[u] = "post" =>
               /\ lock' = lock /\ acceptStopped' = acceptStopped
               /\ slotSession'[slot[u]] = slotSession[slot[u]]
    PROVE  ThreadInv'
<1>1. ASSUME NEW u \in Threads, u # t PROVE ThreadOK(u)'
  <2>1. ThreadOK(u)
    BY DEF ThreadInv
  <2>2. pc'[u] = pc[u] /\ slot'[u] = slot[u] /\ held'[u] = held[u]
    BY <1>1 DEF Stay
  <2>3. QED
    BY <1>1, <2>1, <2>2 DEF ThreadOK
<1>2. QED
  BY <1>1 DEF ThreadInv

\* main keeps its statement, or goes on inside register_accept.
LEMMA MainStep ==
    ASSUME MainOK, NEW t \in Threads, Stay(t), mainPc' = mainPc, toStart' = toStart,
           t = "main" => pc[t] # "idle" /\ pc'[t] \in {"register", "post", "return"}
    PROVE  MainOK'
  BY Basics DEF MainOK, Stay

\* The worker that runs a retry job stays in it.
LEMMA RetryStep ==
    ASSUME RetryOK, NEW t \in Threads, Stay(t), retrying' = retrying,
           retrying = t => pc'[t] \in {"register", "post", "return"}
    PROVE  RetryOK'
  BY Basics DEF RetryOK, Stay

\* The references of the event s change, those of the others do not.
LEMMA OwnerStep ==
    ASSUME SlotInv, OwnerInv, NEW t \in Threads, NEW s \in Slots, Stay(t), OnlySlot(t, s),
           Takes(t, s),
           slotOwner'[s] <=> posted'[s] > 0 \/ (slot'[t] = s /\ pc'[t] \in {"post", "accept"}),
           slotSession'[s] \in Sessions <=>
               posted'[s] > 0 \/ (slot'[t] = s /\ pc'[t] \in {"post", "accept"})
    PROVE  OwnerInv'
<1>1. \A u \in Threads \ {t} : slot'[u] # s
  BY TakenAlone, SMTT(30) DEF Stay
<1>2. OwnerOK(s)'
  BY <1>1 DEF OwnerOK, InUse
<1>3. ASSUME NEW r \in Slots, r # s PROVE OwnerOK(r)'
  <2>1. OwnerOK(r)
    BY DEF OwnerInv
  <2>2. slot[t] # r /\ slot'[t] # r
    BY <1>3, Basics, SMTT(30) DEF OnlySlot
  <2>3. InUse(r)' <=> InUse(r)
    BY <1>3, <2>2 DEF InUse, Stay, OnlySlot
  <2>4. slotOwner'[r] = slotOwner[r] /\ slotSession'[r] = slotSession[r]
    BY <1>3 DEF OnlySlot
  <2>5. QED
    BY <2>1, <2>3, <2>4 DEF OwnerOK
<1>4. QED
  BY <1>2, <1>3 DEF OwnerInv

\* The count follows the event s and the callback of t.
LEMMA CountStep ==
    ASSUME CountInv, NEW t \in Threads, NEW s \in Slots, Stay(t),
           \A r \in Slots \ {s} : slotOwner'[r] = slotOwner[r],
           \A w \in Workers \ {t} : retrying' = w <=> retrying = w,
           pendingIo' = pendingIo + OneIf(slotOwner'[s]) - OneIf(slotOwner[s])
                        + OneIf(t \in Workers /\ IsCompleting(t)')
                        - OneIf(t \in Workers /\ IsCompleting(t))
    PROVE  CountInv' /\ pendingIo' \in Nat
<1>1. \A x : x # s => (x \in Owned' <=> x \in Owned)
  BY DEF Owned
<1>2. \A x : x # t => (x \in Completing' <=> x \in Completing)
  BY Basics DEF Completing, IsCompleting, Stay
<1>3. /\ Cardinality(Owned) \in Nat /\ Cardinality(Owned') \in Nat
      /\ Cardinality(Owned') = Cardinality(Owned) + OneIf(s \in Owned') - OneIf(s \in Owned)
  BY <1>1, Finite, CardStep
<1>4. /\ Cardinality(Completing) \in Nat /\ Cardinality(Completing') \in Nat
      /\ Cardinality(Completing') = Cardinality(Completing)
             + OneIf(t \in Completing') - OneIf(t \in Completing)
  BY <1>2, Finite, CardStep
<1>5. /\ s \in Owned' <=> slotOwner'[s]
      /\ s \in Owned <=> slotOwner[s]
      /\ t \in Completing' <=> t \in Workers /\ IsCompleting(t)'
      /\ t \in Completing <=> t \in Workers /\ IsCompleting(t)
  BY DEF Owned, Completing
<1>6. /\ Cardinality(Owned)' = Cardinality(Owned')
      /\ Cardinality(Completing)' = Cardinality(Completing')
  OBVIOUS
<1>7. QED
  BY <1>3, <1>4, <1>5, <1>6, SMTT(30) DEF CountInv, OneIf

\* The event s gives its reference back, and the count follows.
LEMMA CountGiveBack ==
    ASSUME CountInv, NEW t \in Threads, NEW s \in Slots, Stay(t), pendingIo \in Nat,
           \A r \in Slots \ {s} : slotOwner'[r] = slotOwner[r],
           \A w \in Workers \ {t} : retrying' = w <=> retrying = w,
           slotOwner[s], ~slotOwner'[s], pendingIo' = pendingIo - 1,
           t \in Workers => (IsCompleting(t)' <=> IsCompleting(t))
    PROVE  CountInv' /\ pendingIo' \in Nat
<1>1. pendingIo' = pendingIo + OneIf(slotOwner'[s]) - OneIf(slotOwner[s])
                   + OneIf(t \in Workers /\ IsCompleting(t)')
                   - OneIf(t \in Workers /\ IsCompleting(t))
  BY SMT DEF OneIf
<1>2. QED
  BY <1>1, CountStep

\* The callback of t takes over the reference of the event s.
LEMMA CountCallback ==
    ASSUME CountInv, NEW t \in Threads, NEW s \in Slots, Stay(t), pendingIo \in Nat,
           \A r \in Slots \ {s} : slotOwner'[r] = slotOwner[r],
           \A w \in Workers \ {t} : retrying' = w <=> retrying = w,
           slotOwner[s], ~slotOwner'[s], pendingIo' = pendingIo, t \in Workers,
           IsCompleting(t)', ~IsCompleting(t)
    PROVE  CountInv' /\ pendingIo' \in Nat
<1>1. pendingIo' = pendingIo + OneIf(slotOwner'[s]) - OneIf(slotOwner[s])
                   + OneIf(t \in Workers /\ IsCompleting(t)')
                   - OneIf(t \in Workers /\ IsCompleting(t))
  BY SMT DEF OneIf
<1>2. QED
  BY <1>1, CountStep

\* The count follows the callback of t while the events are left alone.
LEMMA CountThread ==
    ASSUME CountInv, NEW t \in Threads, Stay(t), slotOwner' = slotOwner,
           \A w \in Workers \ {t} : retrying' = w <=> retrying = w,
           pendingIo' = pendingIo + OneIf(t \in Workers /\ IsCompleting(t)')
                        - OneIf(t \in Workers /\ IsCompleting(t))
    PROVE  CountInv' /\ pendingIo' \in Nat
<1>1. \A x : x # t => (x \in Completing' <=> x \in Completing)
  BY Basics DEF Completing, IsCompleting, Stay
<1>2. /\ Cardinality(Completing) \in Nat /\ Cardinality(Completing') \in Nat
      /\ Cardinality(Completing') = Cardinality(Completing)
             + OneIf(t \in Completing') - OneIf(t \in Completing)
  BY <1>1, Finite, CardStep
<1>3. /\ t \in Completing' <=> t \in Workers /\ IsCompleting(t)'
      /\ t \in Completing <=> t \in Workers /\ IsCompleting(t)
  BY DEF Completing
<1>4. Owned' = Owned /\ Cardinality(Owned) \in Nat
  BY Finite, FS_CardinalityType DEF Owned
<1>5. QED
  BY <1>2, <1>3, <1>4, SMTT(30) DEF CountInv, OneIf

\* Neither the events nor the callback of t change, and the count does not.
LEMMA CountSame ==
    ASSUME CountInv, NEW t \in Threads, Stay(t), slotOwner' = slotOwner, pendingIo \in Nat,
           \A w \in Workers \ {t} : retrying' = w <=> retrying = w,
           pendingIo' = pendingIo,
           t \in Workers => (IsCompleting(t)' <=> IsCompleting(t))
    PROVE  CountInv' /\ pendingIo' \in Nat
<1>1. pendingIo' = pendingIo + OneIf(t \in Workers /\ IsCompleting(t)')
                   - OneIf(t \in Workers /\ IsCompleting(t))
  BY SMT DEF OneIf
<1>2. QED
  BY <1>1, CountThread

\* A step that changes no event and moves no thread to or from its use.
LEMMA OwnerSame ==
    ASSUME OwnerInv, NEW t \in Threads, Stay(t),
           UNCHANGED <<slotOwner, slotSession, posted>>,
           slot'[t] = slot[t] \/ pc[t] \notin {"post", "accept"},
           pc'[t] \in {"post", "accept"} <=> pc[t] \in {"post", "accept"}
    PROVE  OwnerInv'
<1>1. \A u \in Threads, s \in Slots :
          (slot'[u] = s /\ pc'[u] \in {"post", "accept"})
              <=> (slot[u] = s /\ pc[u] \in {"post", "accept"})
  BY DEF Stay
<1>2. QED
  BY <1>1, SMTT(30) DEF OwnerInv, OwnerOK, InUse

\* A step of a thread that may run: it is in the listener's code, a running worker,
\* or main in ServerService::start.
MayAct(t) == t \in Users \/ (running /\ t \in Workers) \/ (mainPc = "start" /\ t = "main")

\* Only running threads act, so what main has waited for stays so.
LEMMA PhaseStep ==
    ASSUME PhaseInv, NEW t \in Threads, Stay(t), MayAct(t),
           UNCHANGED <<mainPc, acceptStopped, serviceHolds, running>>,
           pendingIo \in Nat, pendingIo' \in Nat, acceptStopped => pendingIo' <= pendingIo
    PROVE  PhaseInv'
<1>1. mainPc \notin {"clear", "exit"}
  BY DEF PhaseInv, MayAct
<1>2. mainPc = "start" => t = "main"
  BY Basics DEF PhaseInv, MayAct, Users, At
<1>3. mainPc = "start" => \A w \in Workers : pc'[w] = "idle"
  BY <1>2, Basics DEF PhaseInv, Stay
<1>4. mainPc \notin Before \cup {"waitIo"} => pendingIo' = 0
  BY SMTT(30) DEF PhaseInv
<1>5. QED
  BY <1>1, <1>3, <1>4 DEF PhaseInv

\* The same for a step that leaves the count alone.
LEMMA PhaseSame ==
    ASSUME PhaseInv, NEW t \in Threads, Stay(t), MayAct(t), pendingIo \in Nat,
           UNCHANGED <<mainPc, acceptStopped, serviceHolds, running, pendingIo>>
    PROVE  PhaseInv'
<1>1. pendingIo' \in Nat /\ pendingIo' <= pendingIo
  BY SMT
<1>2. QED
  BY <1>1, PhaseStep

\* A session is only given up.
LEMMA SessionFrame ==
    ASSUME SessionPhase, UNCHANGED <<mainPc, snapshot, begun>>,
           \A x \in Sessions : sess'[x] = sess[x] \/ sess'[x] = "free"
    PROVE  SessionPhase'
  BY DEF SessionPhase

\* A session that is not handed over stays where it is.
LEMMA NewFrame ==
    ASSUME NewInv, NEW t \in Threads, Stay(t), slotSession' = slotSession,
           pc[t] # "connect", \A x \in Sessions : sess'[x] = "new" => sess[x] = "new"
    PROVE  NewInv'
  BY SMTT(30) DEF NewInv, Stay

\* The session of the event s is given up with it.
LEMMA NewDispose ==
    ASSUME NewInv, NEW t \in Threads, Stay(t), NEW s \in Slots, pc[t] # "connect",
           \A r \in Slots \ {s} : slotSession'[r] = slotSession[r],
           \A y \in Sessions : sess'[y] = "new" => y # slotSession[s] /\ sess[y] = "new"
    PROVE  NewInv'
<1> SUFFICES ASSUME NEW y \in Sessions, sess'[y] = "new"
             PROVE  \/ \E r \in Slots : slotSession'[r] = y
                    \/ \E u \in Threads : pc'[u] = "connect" /\ held'[u] = y
  BY DEF NewInv
<1>1. sess[y] = "new" /\ y # slotSession[s]
  OBVIOUS
<1>2. CASE \E r \in Slots : slotSession[r] = y
  BY <1>1, <1>2
<1>3. CASE \E u \in Threads : pc[u] = "connect" /\ held[u] = y
  BY <1>3 DEF Stay
<1>4. QED
  BY <1>1, <1>2, <1>3 DEF NewInv

\* The session of the event s goes to the callback.
LEMMA NewConnect ==
    ASSUME NewInv, NEW t \in Threads, Stay(t), NEW s \in Slots, pc[t] # "connect",
           \A r \in Slots \ {s} : slotSession'[r] = slotSession[r],
           sess' = sess, pc'[t] = "connect", held'[t] = slotSession[s]
    PROVE  NewInv'
<1> SUFFICES ASSUME NEW y \in Sessions, sess[y] = "new"
             PROVE  \/ \E r \in Slots : slotSession'[r] = y
                    \/ \E u \in Threads : pc'[u] = "connect" /\ held'[u] = y
  BY DEF NewInv
<1>1. CASE \E r \in Slots : slotSession[r] = y
  BY <1>1
<1>2. CASE \E u \in Threads : pc[u] = "connect" /\ held[u] = y
  BY <1>2 DEF Stay
<1>3. QED
  BY <1>1, <1>2 DEF NewInv

\* A thread inside the listener's code keeps the listener.
LEMMA DestroyStep ==
    ASSUME DestroyInv, NEW t \in Threads, t \in Users,
           pc'[t] \notin {"idle", "exited"}, destroyed' = destroyed
    PROVE  DestroyInv'
<1>1. ~destroyed
  BY DEF DestroyInv
<1>2. t \in Users'
  BY DEF Users, At
<1>3. QED
  BY <1>1, <1>2 DEF DestroyInv

\* What the invariant says of the slot of a thread.
LEMMA SlotOf ==
    ASSUME IInv, NEW t \in Threads, pc[t] \in {"accept", "connect", "register", "post"}
    PROVE  /\ slot[t] \in Slots /\ slot[t] \notin toStart /\ Takes(t, slot[t])
           /\ posted[slot[t]] = 0 /\ timer[slot[t]] = 0 /\ queued[slot[t]] = 0
           /\ slotOwner[slot[t]] <=> pc[t] \in {"post", "accept"}
           /\ slotSession[slot[t]] \in Sessions <=> pc[t] \in {"post", "accept"}
           /\ t \in Users
<1>1. slot[t] \in Slots
  BY DEF IInv, ThreadInv, ThreadOK
<1> USE <1>1
<1>2. SlotOK(slot[t]) /\ OwnerOK(slot[t])
  BY DEF IInv, SlotInv, OwnerInv
<1>3. Accounted(slot[t]) = 0 /\ slot[t] \notin toStart
  BY <1>2 DEF SlotOK
<1>4. /\ posted[slot[t]] \in Nat /\ timer[slot[t]] \in Nat /\ queued[slot[t]] \in Nat
  BY DEF IInv, TypeOK
<1>5. posted[slot[t]] = 0 /\ timer[slot[t]] = 0 /\ queued[slot[t]] = 0
  BY <1>3, <1>4, SMTT(30) DEF Accounted
<1>6. Takes(t, slot[t])
  BY DEF Takes
<1>7. \A u \in Threads \ {t} : slot[u] # slot[t]
  BY <1>6, TakenAlone DEF IInv
<1>8. InUse(slot[t]) <=> pc[t] \in {"post", "accept"}
  BY <1>5, <1>7, SMTT(30) DEF InUse
<1>9. t \in Users
  BY DEF Users, At
<1>10. QED
  BY <1>2, <1>3, <1>5, <1>6, <1>8, <1>9 DEF OwnerOK

\* What the invariant says of the session of a thread.
LEMMA SessionOf ==
    ASSUME IInv, NEW t \in Threads
    PROVE  /\ held[t] \in Sessions <=> pc[t] \in {"connect", "post"}
           /\ pc[t] = "post" => lock = t /\ ~acceptStopped /\ slotSession[slot[t]] = held[t]
           /\ pc[t] \in {"accept", "connect", "finish"} => t \in Workers
           /\ t = "main" => pc[t] \in {"idle", "register", "post", "return"}
           /\ pc[t] = "post" => \A u \in Threads \ {t} : pc[u] # "post"
           /\ lock = Nobody => \A u \in Threads : pc[u] # "post"
<1>1. \A u \in Threads : ThreadOK(u)
  BY DEF IInv, ThreadInv
<1>2. pc["main"] \in {"idle", "register", "post", "return"}
  BY DEF IInv, ThreadInv, MainOK
<1>3. QED
  BY <1>1, <1>2, Basics, SMTT(30) DEF ThreadOK

-----------------------------------------------------------------------------
(* Listener::register_accept *)

\* The label after register_accept tells whether a completion has to be finished.
LEMMA AfterFacts ==
    ASSUME NEW t \in Threads
    PROVE  /\ AfterRegister(t) \in {"finish", "return"}
           /\ AfterRegister(t) = "finish" <=> t \in Workers /\ retrying # t
  BY DEF AfterRegister

\* A new session and the listener are put into the event, and the request counted.
LEMMA CreateSessionInv ==
    ASSUME IInv, NEW t \in Threads, RegisterAccept(t), ~acceptStopped,
           NEW x \in Sessions, CreateSession(t, x)
    PROVE  IInv'
<1>0. PICK s : s = slot[t]
  OBVIOUS
<1>1. /\ pc[t] = "register" /\ lock = Nobody /\ sess[x] = "free" /\ TypeOK
      /\ sess' = [sess EXCEPT ![x] = "new"]
      /\ slotSession' = [slotSession EXCEPT ![s] = x]
      /\ slotOwner' = [slotOwner EXCEPT ![s] = TRUE]
      /\ held' = [held EXCEPT ![t] = x] /\ pc' = [pc EXCEPT ![t] = "post"]
      /\ pendingIo' = pendingIo + 1 /\ lock' = t
      /\ UNCHANGED <<timer, slot, acceptStopped, posted, queued, retrying, abandoned,
                     destroyed, closing, snapshot, begun, mainVars, bg>>
  BY <1>0 DEF RegisterAccept, CreateSession, Goto, At, IInv
<1> USE <1>1
<1>2. /\ s \in Slots /\ s \notin toStart /\ Takes(t, s) /\ ~slotOwner[s]
      /\ slotSession[s] \notin Sessions /\ t \in Users
      /\ posted[s] = 0 /\ timer[s] = 0 /\ queued[s] = 0
  BY <1>0, SlotOf
<1> USE <1>2
<1>3. slot[t] = s /\ slot'[t] = s /\ pc'[t] = "post" /\ held'[t] = x
  BY <1>0 DEF TypeOK
<1> USE <1>3
<1>4. Stay(t)
  BY DEF Stay, TypeOK
<1> USE <1>4
<1>5. OnlySlot(t, s)
  BY DEF OnlySlot, TypeOK, mainVars
<1> USE <1>5
<1>6. slotOwner'[s] /\ slotSession'[s] = x
  BY DEF TypeOK
<1> USE <1>6
<1>7. SlotInv'
  <2>1. Accounted(s)' = 0 /\ Accounted(s)' <= 1
    <3>1. posted'[s] = 0 /\ queued'[s] = 0 /\ timer'[s] = 0
      OBVIOUS
    <3>2. QED
      BY <3>1, EmptyPlace
  <2>2. acceptStopped' = acceptStopped /\ s \notin toStart'
    BY DEF mainVars
  <2>3. QED
    BY <2>1, <2>2, SlotStep DEF IInv
<1>8. OwnerInv'
  BY OwnerStep DEF IInv
<1>9. ThreadInv'
  <2>1. ThreadOK(t)'
    BY DEF ThreadOK
  <2>2. MainOK'
    BY MainStep DEF IInv, ThreadInv, mainVars
  <2>3. RetryOK'
    BY RetryStep DEF IInv, ThreadInv
  <2>4. \A u \in Threads : pc[u] # "post"
    BY SessionOf
  <2>5. QED
    BY <2>1, <2>2, <2>3, <2>4, ThreadStep DEF IInv
<1>10. CountInv' /\ pendingIo' \in Nat
  <2>1. IsCompleting(t)' <=> IsCompleting(t)
    BY DEF IsCompleting
  <2>2. \A r \in Slots \ {s} : slotOwner'[r] = slotOwner[r]
    BY DEF OnlySlot
  <2>3. pendingIo' = pendingIo + OneIf(slotOwner'[s]) - OneIf(slotOwner[s])
                        + OneIf(t \in Workers /\ IsCompleting(t)')
                        - OneIf(t \in Workers /\ IsCompleting(t))
    BY <2>1, SMTT(30) DEF OneIf, TypeOK
  <2>4. QED
    BY <2>2, <2>3, CountStep DEF IInv
<1> USE <1>10
<1>11. NewInv'
  <2>1. \A y \in Sessions : sess'[y] = "new" => y = x \/ sess[y] = "new"
    BY DEF TypeOK
  <2>2. \A r \in Slots : slotSession[r] \in Sessions => slotSession'[r] = slotSession[r]
    BY DEF TypeOK
  <2>3. \A u \in Threads : pc[u] = "connect" => pc'[u] = "connect" /\ held'[u] = held[u]
    BY DEF Stay
  <2>4. QED
    BY <2>1, <2>2, <2>3, SMTT(30) DEF NewInv, IInv
<1>12. PhaseInv'
  <2>1. MayAct(t)
    BY DEF MayAct
  <2>2. QED
    BY <2>1, PhaseStep DEF IInv, TypeOK, mainVars
<1>13. SessionPhase'
  <2>1. mainPc \in Before /\ mainPc' = mainPc
    BY DEF IInv, PhaseInv, mainVars
  <2>2. \A y \in Sessions : sess'[y] = sess[y] \/ sess'[y] = "new"
    BY DEF TypeOK
  <2>3. QED
    BY <2>1, <2>2, SMTT(30) DEF IInv, SessionPhase, Before, Released
<1>14. DestroyInv'
  BY DestroyStep DEF IInv
<1>15. TypeOK'
  BY Basics DEF TypeOK, mainVars, ThreadLabels, SessionStates
<1>16. QED
  BY <1>7, <1>8, <1>9, <1>11, <1>12, <1>13, <1>14, <1>15 DEF IInv

\* The session cannot be created: the slot is left to the timer.
LEMMA CreateFailsInv ==
    ASSUME IInv, NEW t \in Threads, RegisterAccept(t), ~acceptStopped, CreateFails(t)
    PROVE  IInv'
<1>0. PICK s : s = slot[t]
  OBVIOUS
<1>1. /\ pc[t] = "register" /\ lock = Nobody /\ TypeOK
      /\ slotSession' = [slotSession EXCEPT ![s] = Nobody]
      /\ slotOwner' = [slotOwner EXCEPT ![s] = FALSE]
      /\ timer' = [timer EXCEPT ![s] = @ + 1]
      /\ pc' = [pc EXCEPT ![t] = AfterRegister(t)]
      /\ slot' = [slot EXCEPT ![t] = Nobody] /\ held' = [held EXCEPT ![t] = Nobody]
      /\ UNCHANGED <<lock, pendingIo, sess, acceptStopped, posted, queued, retrying,
                     abandoned, destroyed, closing, snapshot, begun, mainVars, bg>>
  BY <1>0 DEF RegisterAccept, CreateFails, Reserve, Leave, Goto, At, IInv
<1> USE <1>1
<1>2. /\ s \in Slots /\ s \notin toStart /\ Takes(t, s) /\ ~slotOwner[s]
      /\ slotSession[s] \notin Sessions /\ t \in Users
      /\ posted[s] = 0 /\ timer[s] = 0 /\ queued[s] = 0
  BY <1>0, SlotOf
<1> USE <1>2
<1>3. /\ slot[t] = s /\ slot'[t] = Nobody /\ held'[t] = Nobody
      /\ pc'[t] = AfterRegister(t) /\ pc'[t] \in {"finish", "return"}
      /\ pc'[t] = "finish" <=> t \in Workers /\ retrying # t
  BY <1>0, AfterFacts DEF TypeOK
<1> USE <1>3
<1>4. Stay(t)
  BY DEF Stay, TypeOK
<1> USE <1>4
<1>t. /\ timer' \in [Slots -> Nat] /\ timer'[s] = 1
      /\ \A r \in Slots \ {s} : timer'[r] = timer[r]
  BY TimerSet DEF TypeOK
<1> USE <1>t
<1>5. OnlySlot(t, s)
  BY DEF OnlySlot, TypeOK, mainVars
<1>6. ~slotOwner'[s] /\ slotSession'[s] = Nobody /\ timer'[s] = 1 /\ slotSession' = slotSession
  <2>1. slotSession[s] = Nobody
    BY DEF TypeOK
  <2>2. QED
    BY <2>1, SameAt DEF TypeOK
<1> USE <1>6
<1>7. SlotInv'
  <2>1. Accounted(s)' = 1 /\ Accounted(s)' <= 1
    <3>1. posted'[s] = 0 /\ queued'[s] = 0 /\ timer'[s] = 1
      OBVIOUS
    <3>2. QED
      BY <3>1, EmptyPlace
  <2>2. acceptStopped' = acceptStopped /\ s \notin toStart'
    BY DEF mainVars
  <2>3. QED
    BY <1>5, <2>1, <2>2, Basics, SlotStep DEF IInv
<1>8. OwnerInv'
  <2>1. posted'[s] = 0 /\ queued'[s] = 0
    OBVIOUS
  <2>2. ~(posted'[s] > 0)
    BY <2>1, EmptyPlace
  <2>3. QED
    BY <1>5, <2>2, Basics, OwnerStep DEF IInv
<1>9. ThreadInv'
  <2>1. ThreadOK(t)'
    BY Basics DEF ThreadOK
  <2>2. MainOK'
    BY Basics, MainStep DEF IInv, ThreadInv, mainVars
  <2>3. RetryOK'
    BY Basics, RetryStep DEF IInv, ThreadInv, RetryOK
  <2>4. \A u \in Threads : pc[u] # "post"
    BY SessionOf
  <2>5. QED
    BY <2>1, <2>2, <2>3, <2>4, ThreadStep DEF IInv
<1>10. CountInv' /\ pendingIo' \in Nat
  <2>1. t \in Workers => (IsCompleting(t)' <=> IsCompleting(t))
    BY DEF IsCompleting
  <2>2. slotOwner' = slotOwner
    BY SMTT(30) DEF TypeOK
  <2>3. pendingIo \in Nat /\ pendingIo' = pendingIo
    BY DEF TypeOK
  <2>4. QED
    BY <2>1, <2>2, <2>3, CountSame DEF IInv
<1> USE <1>10
<1>11. NewInv'
  BY NewFrame DEF IInv
<1>12. PhaseInv'
  <2>1. MayAct(t)
    BY DEF MayAct
  <2>2. QED
    BY <2>1, PhaseSame DEF IInv, TypeOK, mainVars
<1>13. SessionPhase'
  BY SessionFrame DEF IInv, mainVars
<1>14. DestroyInv'
  BY DestroyStep DEF IInv
<1>15. TypeOK'
  BY Basics DEF TypeOK, mainVars, ThreadLabels
<1>16. QED
  BY <1>7, <1>8, <1>9, <1>11, <1>12, <1>13, <1>14, <1>15 DEF IInv

\* The listener has stopped: register_accept leaves the slot alone.
LEMMA RegisterStoppedInv ==
    ASSUME IInv, NEW t \in Threads, RegisterAccept(t), acceptStopped, RegisterStopped(t)
    PROVE  IInv'
<1>0. PICK s : s = slot[t]
  OBVIOUS
<1>1. /\ pc[t] = "register" /\ lock = Nobody /\ TypeOK
      /\ pc' = [pc EXCEPT ![t] = AfterRegister(t)]
      /\ slot' = [slot EXCEPT ![t] = Nobody] /\ held' = [held EXCEPT ![t] = Nobody]
      /\ UNCHANGED <<lock, slotSession, slotOwner, timer, pendingIo, sess, acceptStopped,
                     posted, queued, retrying, abandoned, destroyed, closing, snapshot,
                     begun, mainVars, bg>>
  BY <1>0 DEF RegisterAccept, RegisterStopped, Leave, Goto, At, IInv
<1> USE <1>1
<1>2. /\ s \in Slots /\ s \notin toStart /\ Takes(t, s) /\ t \in Users
      /\ posted[s] = 0 /\ timer[s] = 0 /\ queued[s] = 0
  BY <1>0, SlotOf
<1> USE <1>2
<1>3. /\ slot[t] = s /\ slot'[t] = Nobody /\ held'[t] = Nobody
      /\ pc'[t] = AfterRegister(t) /\ pc'[t] \in {"finish", "return"}
      /\ pc'[t] = "finish" <=> t \in Workers /\ retrying # t
  BY <1>0, AfterFacts DEF TypeOK
<1> USE <1>3
<1>4. Stay(t)
  BY DEF Stay, TypeOK
<1> USE <1>4
<1>5. OnlySlot(t, s)
  BY DEF OnlySlot, TypeOK, mainVars
<1>7. SlotInv'
  <2>1. Accounted(s)' = 0 /\ Accounted(s)' <= 1
    <3>1. posted'[s] = 0 /\ queued'[s] = 0 /\ timer'[s] = 0
      OBVIOUS
    <3>2. QED
      BY <3>1, EmptyPlace
  <2>2. acceptStopped' = acceptStopped /\ s \notin toStart'
    BY DEF mainVars
  <2>3. QED
    BY <1>5, <2>1, <2>2, Basics, SlotStep DEF IInv
<1>8. OwnerInv'
  BY OwnerSame DEF IInv
<1>9. ThreadInv'
  <2>1. ThreadOK(t)'
    BY Basics DEF ThreadOK
  <2>2. MainOK'
    BY Basics, MainStep DEF IInv, ThreadInv, mainVars
  <2>3. RetryOK'
    BY Basics, RetryStep DEF IInv, ThreadInv, RetryOK
  <2>4. \A u \in Threads : pc[u] # "post"
    BY SessionOf
  <2>5. QED
    BY <2>1, <2>2, <2>3, <2>4, ThreadStep DEF IInv
<1>10. CountInv' /\ pendingIo' \in Nat
  <2>1. t \in Workers => (IsCompleting(t)' <=> IsCompleting(t))
    BY DEF IsCompleting
  <2>3. pendingIo \in Nat /\ pendingIo' = pendingIo
    BY DEF TypeOK
  <2>4. QED
    BY <2>1, <2>3, CountSame DEF IInv
<1>11. NewInv'
  BY NewFrame DEF IInv
<1>12. PhaseInv'
  <2>1. MayAct(t)
    BY DEF MayAct
  <2>2. QED
    BY <1>10, <2>1, PhaseSame DEF IInv, TypeOK, mainVars
<1>13. SessionPhase'
  BY SessionFrame DEF IInv, mainVars
<1>14. DestroyInv'
  BY DestroyStep DEF IInv
<1>15. TypeOK'
  BY Basics DEF TypeOK, mainVars, ThreadLabels
<1>16. QED
  BY <1>7, <1>8, <1>9, <1>10, <1>11, <1>12, <1>13, <1>14, <1>15 DEF IInv

\* register_accept up to AcceptEx.
LEMMA RegisterAcceptInv ==
    ASSUME IInv, NEW t \in Threads, RegisterAccept(t)
    PROVE  IInv'
<1>1. CASE acceptStopped /\ RegisterStopped(t)
  BY <1>1, RegisterStoppedInv
<1>2. CASE ~acceptStopped /\ \E x \in Sessions : CreateSession(t, x)
  BY <1>2, CreateSessionInv
<1>3. CASE ~acceptStopped /\ CreateFails(t)
  BY <1>3, CreateFailsInv
<1>4. QED
  BY <1>1, <1>2, <1>3 DEF RegisterAccept

\* AcceptEx is pending: the kernel has the event.
LEMMA AcceptExPendingInv ==
    ASSUME IInv, NEW t \in Threads, PostAccept(t), AcceptExPending(t)
    PROVE  IInv'
<1>0. PICK s : s = slot[t]
  OBVIOUS
<1>1. /\ pc[t] = "post" /\ TypeOK /\ lock' = Nobody
      /\ posted' = [posted EXCEPT ![s] = @ + 1]
      /\ pc' = [pc EXCEPT ![t] = AfterRegister(t)]
      /\ slot' = [slot EXCEPT ![t] = Nobody] /\ held' = [held EXCEPT ![t] = Nobody]
      /\ UNCHANGED <<slotSession, slotOwner, pendingIo, timer, abandoned, sess,
                     acceptStopped, queued, retrying, destroyed, closing, snapshot,
                     begun, mainVars, bg>>
  BY <1>0 DEF PostAccept, AcceptExPending, Leave, Goto, At, IInv
<1> USE <1>1
<1>2. /\ s \in Slots /\ s \notin toStart /\ Takes(t, s) /\ t \in Users /\ t \in Threads
      /\ posted[s] = 0 /\ timer[s] = 0 /\ queued[s] = 0
      /\ slotOwner[s] /\ slotSession[s] \in Sessions
  BY <1>0, SlotOf, SessionOf, Basics
<1> USE <1>2
<1>3. /\ slot[t] = s /\ slot'[t] = Nobody /\ held'[t] = Nobody
      /\ pc'[t] = AfterRegister(t) /\ pc'[t] \in {"finish", "return"}
      /\ pc'[t] = "finish" <=> t \in Workers /\ retrying # t
  BY <1>0, AfterFacts DEF TypeOK
<1> USE <1>3
<1>4. Stay(t)
  BY DEF Stay, TypeOK
<1> USE <1>4
<1>5. OnlySlot(t, s)
  BY DEF OnlySlot, TypeOK, mainVars
<1> USE <1>5
<1>6. posted'[s] = 1 /\ slotOwner'[s] = slotOwner[s] /\ slotSession'[s] = slotSession[s]
  BY SMTT(30) DEF TypeOK
<1> USE <1>6
<1>7. SlotInv'
  <2>1. Accounted(s)' = 1
    BY SMTT(30) DEF Accounted
  <2>2. acceptStopped' = acceptStopped /\ s \notin toStart'
    BY DEF mainVars
  <2>3. /\ Accounted(s)' <= 1 /\ (slot'[t] = s => Accounted(s)' = 0)
        /\ acceptStopped \/ s \in abandoned' \/ slot'[t] = s \/ Accounted(s)' = 1
    BY <2>1, Basics, SMTT(30)
  <2>4. QED
    BY <2>2, <2>3, SlotStep DEF IInv
<1>8. OwnerInv'
  <2>1. /\ slotOwner'[s] <=> posted'[s] > 0 \/ (slot'[t] = s /\ pc'[t] \in {"post", "accept"})
        /\ slotSession'[s] \in Sessions <=>
               posted'[s] > 0 \/ (slot'[t] = s /\ pc'[t] \in {"post", "accept"})
    BY Basics, SMTT(30)
  <2>2. QED
    BY <2>1, OwnerStep DEF IInv
<1>9. ThreadInv'
  <2>1. ThreadOK(t)'
    BY Basics DEF ThreadOK
  <2>2. MainOK'
    BY Basics, MainStep DEF IInv, ThreadInv, mainVars
  <2>3. RetryOK'
    BY Basics, RetryStep DEF IInv, ThreadInv, RetryOK
  <2>4. \A u \in Threads \ {t} : pc[u] # "post"
    BY SessionOf
  <2>5. QED
    BY <2>1, <2>2, <2>3, <2>4, ThreadStep DEF IInv
<1>10. CountInv' /\ pendingIo' \in Nat
  <2>1. t \in Workers => (IsCompleting(t)' <=> IsCompleting(t))
    BY DEF IsCompleting
  <2>2. \A r \in Slots \ {s} : slotOwner'[r] = slotOwner[r]
    BY DEF OnlySlot
  <2>3. pendingIo' = pendingIo + OneIf(slotOwner'[s]) - OneIf(slotOwner[s])
                        + OneIf(t \in Workers /\ IsCompleting(t)')
                        - OneIf(t \in Workers /\ IsCompleting(t))
    BY <2>1, SMTT(30) DEF OneIf, TypeOK
  <2>4. QED
    BY <2>2, <2>3, CountStep DEF IInv
<1> USE <1>10
<1>11. NewInv'
  BY NewFrame DEF IInv
<1>12. PhaseInv'
  <2>1. MayAct(t)
    BY DEF MayAct
  <2>2. /\ UNCHANGED <<mainPc, acceptStopped, serviceHolds, running>>
        /\ pendingIo \in Nat /\ pendingIo' <= pendingIo
    BY SMTT(30) DEF TypeOK, mainVars
  <2>3. QED
    BY <2>1, <2>2, PhaseStep DEF IInv
<1>13. SessionPhase'
  <2>1. \A y \in Sessions : sess'[y] = sess[y] \/ sess'[y] = "free"
    OBVIOUS
  <2>2. QED
    BY <2>1, SessionFrame DEF IInv, mainVars
<1>14. DestroyInv'
  <2>1. pc'[t] \notin {"idle", "exited"} /\ destroyed' = destroyed
    OBVIOUS
  <2>2. QED
    BY <2>1, DestroyStep DEF IInv
<1>15. TypeOK'
  BY Basics, SMTT(30) DEF TypeOK, mainVars, ThreadLabels, SessionStates
<1>16. QED
  BY <1>7, <1>8, <1>9, <1>11, <1>12, <1>13, <1>14, <1>15 DEF IInv

\* AcceptEx fails for a reason that may pass: everything is given back and the slot
\* left to the timer.
LEMMA AcceptExRetryInv ==
    ASSUME IInv, NEW t \in Threads, PostAccept(t), AcceptExFails(t),
           Reserve(slot[t]), UNCHANGED abandoned
    PROVE  IInv'
<1>0. PICK s : s = slot[t]
  OBVIOUS
<1>1. /\ pc[t] = "post" /\ TypeOK /\ lock' = Nobody
      /\ slotSession' = [slotSession EXCEPT ![s] = Nobody]
      /\ slotOwner' = [slotOwner EXCEPT ![s] = FALSE]
      /\ sess' = [y \in Sessions |-> IF y = held[t] THEN "free" ELSE sess[y]]
      /\ timer' = [timer EXCEPT ![s] = @ + 1] /\ abandoned' = abandoned
      /\ pendingIo' = pendingIo - 1
      /\ pc' = [pc EXCEPT ![t] = AfterRegister(t)]
      /\ slot' = [slot EXCEPT ![t] = Nobody] /\ held' = [held EXCEPT ![t] = Nobody]
      /\ UNCHANGED <<posted, acceptStopped, queued, retrying, destroyed, closing, snapshot,
                     begun, mainVars, bg>>
  BY <1>0 DEF PostAccept, AcceptExFails, Dispose, Reserve, Leave, Goto, At, IInv
<1> USE <1>1
<1>2. /\ s \in Slots /\ s \notin toStart /\ Takes(t, s) /\ t \in Users /\ t \in Threads
      /\ posted[s] = 0 /\ timer[s] = 0 /\ queued[s] = 0
      /\ slotOwner[s] /\ slotSession[s] \in Sessions /\ slotSession[s] = held[t]
      /\ s # Nobody
  BY <1>0, SlotOf, SessionOf, Basics
<1> USE <1>2
<1>3. /\ slot[t] = s /\ slot'[t] = Nobody /\ held'[t] = Nobody
      /\ pc'[t] = AfterRegister(t) /\ pc'[t] \in {"finish", "return"}
      /\ pc'[t] = "finish" <=> t \in Workers /\ retrying # t
  BY <1>0, AfterFacts DEF TypeOK
<1> USE <1>3
<1>4. Stay(t)
  BY DEF Stay, TypeOK
<1> USE <1>4
<1>t. /\ timer' \in [Slots -> Nat] /\ timer'[s] = 1
      /\ \A r \in Slots \ {s} : timer'[r] = timer[r]
  BY TimerSet DEF TypeOK
<1> USE <1>t
<1>5. OnlySlot(t, s)
  BY DEF OnlySlot, TypeOK, mainVars
<1> USE <1>5
<1>6. /\ ~slotOwner'[s] /\ slotSession'[s] = Nobody /\ timer'[s] = 1
      /\ \A y \in Sessions : sess'[y] = IF y = slotSession[s] THEN "free" ELSE sess[y]
  BY DEF TypeOK
<1> USE <1>6
<1>7. SlotInv'
  <2>1. Accounted(s)' = 1 /\ Accounted(s)' <= 1
    <3>1. posted'[s] = 0 /\ queued'[s] = 0 /\ timer'[s] = 1
      OBVIOUS
    <3>2. QED
      BY <3>1, EmptyPlace
  <2>2. acceptStopped' = acceptStopped /\ s \notin toStart'
    BY DEF mainVars
  <2>3. /\ Accounted(s)' <= 1 /\ (slot'[t] = s => Accounted(s)' = 0)
        /\ acceptStopped \/ s \in abandoned' \/ slot'[t] = s \/ Accounted(s)' = 1
    <3>1. slot'[t] # s
      OBVIOUS
    <3>2. QED
      BY <2>1, <3>1
  <2>4. QED
    BY <2>2, <2>3, SlotStep DEF IInv
<1>8. OwnerInv'
  <2>1. /\ slotOwner'[s] <=> posted'[s] > 0 \/ (slot'[t] = s /\ pc'[t] \in {"post", "accept"})
        /\ slotSession'[s] \in Sessions <=>
               posted'[s] > 0 \/ (slot'[t] = s /\ pc'[t] \in {"post", "accept"})
    <3>1. posted'[s] = 0 /\ queued'[s] = 0
      OBVIOUS
    <3>2. ~(posted'[s] > 0)
      BY <3>1, EmptyPlace
    <3>3. QED
      BY <3>2, Basics
  <2>2. QED
    BY <2>1, OwnerStep DEF IInv
<1>9. ThreadInv'
  <2>1. ThreadOK(t)'
    BY Basics DEF ThreadOK
  <2>2. MainOK'
    BY Basics, MainStep DEF IInv, ThreadInv, mainVars
  <2>3. RetryOK'
    BY Basics, RetryStep DEF IInv, ThreadInv, RetryOK
  <2>4. \A u \in Threads \ {t} : pc[u] # "post"
    BY SessionOf
  <2>5. QED
    BY <2>1, <2>2, <2>3, <2>4, ThreadStep DEF IInv
<1>10. CountInv' /\ pendingIo' \in Nat
  <2>1. t \in Workers => (IsCompleting(t)' <=> IsCompleting(t))
    BY DEF IsCompleting
  <2>2. \A r \in Slots \ {s} : slotOwner'[r] = slotOwner[r]
    BY DEF OnlySlot
  <2>3. pendingIo \in Nat
    BY DEF TypeOK
  <2>4. QED
    BY <2>1, <2>2, <2>3, CountGiveBack DEF IInv
<1> USE <1>10
<1>11. NewInv'
  <2>1. \A y \in Sessions : sess'[y] = "new" => y # slotSession[s] /\ sess[y] = "new"
    OBVIOUS
  <2>2. \A r \in Slots \ {s} : slotSession'[r] = slotSession[r]
    BY DEF OnlySlot
  <2>3. pc[t] # "connect"
    OBVIOUS
  <2>4. QED
    BY <2>1, <2>2, <2>3, NewDispose, SMTT(30) DEF IInv
<1>12. PhaseInv'
  <2>1. MayAct(t)
    BY DEF MayAct
  <2>2. /\ UNCHANGED <<mainPc, acceptStopped, serviceHolds, running>>
        /\ pendingIo \in Nat /\ pendingIo' <= pendingIo
    BY SMTT(30) DEF TypeOK, mainVars
  <2>3. QED
    BY <2>1, <2>2, PhaseStep DEF IInv
<1>13. SessionPhase'
  <2>1. \A y \in Sessions : sess'[y] = sess[y] \/ sess'[y] = "free"
    OBVIOUS
  <2>2. QED
    BY <2>1, SessionFrame DEF IInv, mainVars
<1>14. DestroyInv'
  <2>1. pc'[t] \notin {"idle", "exited"} /\ destroyed' = destroyed
    OBVIOUS
  <2>2. QED
    BY <2>1, DestroyStep DEF IInv
<1>15. TypeOK'
  BY Basics DEF TypeOK, mainVars, ThreadLabels, SessionStates
<1>16. QED
  BY <1>7, <1>8, <1>9, <1>11, <1>12, <1>13, <1>14, <1>15 DEF IInv

\* AcceptEx fails for good: everything is given back and the slot abandoned.
LEMMA AcceptExAbandonInv ==
    ASSUME IInv, NEW t \in Threads, PostAccept(t), AcceptExFails(t),
           abandoned' = abandoned \cup {slot[t]}, UNCHANGED timer
    PROVE  IInv'
<1>0. PICK s : s = slot[t]
  OBVIOUS
<1>1. /\ pc[t] = "post" /\ TypeOK /\ lock' = Nobody
      /\ slotSession' = [slotSession EXCEPT ![s] = Nobody]
      /\ slotOwner' = [slotOwner EXCEPT ![s] = FALSE]
      /\ sess' = [y \in Sessions |-> IF y = held[t] THEN "free" ELSE sess[y]]
      /\ timer' = timer /\ abandoned' = abandoned \cup {s}
      /\ pendingIo' = pendingIo - 1
      /\ pc' = [pc EXCEPT ![t] = AfterRegister(t)]
      /\ slot' = [slot EXCEPT ![t] = Nobody] /\ held' = [held EXCEPT ![t] = Nobody]
      /\ UNCHANGED <<posted, acceptStopped, queued, retrying, destroyed, closing, snapshot,
                     begun, mainVars, bg>>
  BY <1>0 DEF PostAccept, AcceptExFails, Dispose, Reserve, Leave, Goto, At, IInv
<1> USE <1>1
<1>2. /\ s \in Slots /\ s \notin toStart /\ Takes(t, s) /\ t \in Users /\ t \in Threads
      /\ posted[s] = 0 /\ timer[s] = 0 /\ queued[s] = 0
      /\ slotOwner[s] /\ slotSession[s] \in Sessions /\ slotSession[s] = held[t]
  BY <1>0, SlotOf, SessionOf, Basics
<1> USE <1>2
<1>3. /\ slot[t] = s /\ slot'[t] = Nobody /\ held'[t] = Nobody
      /\ pc'[t] = AfterRegister(t) /\ pc'[t] \in {"finish", "return"}
      /\ pc'[t] = "finish" <=> t \in Workers /\ retrying # t
  BY <1>0, AfterFacts DEF TypeOK
<1> USE <1>3
<1>4. Stay(t)
  BY DEF Stay, TypeOK
<1> USE <1>4
<1>5. OnlySlot(t, s)
  BY DEF OnlySlot, TypeOK, mainVars
<1> USE <1>5
<1>6. /\ ~slotOwner'[s] /\ slotSession'[s] = Nobody /\ s \in abandoned'
      /\ \A y \in Sessions : sess'[y] = IF y = slotSession[s] THEN "free" ELSE sess[y]
  BY DEF TypeOK
<1> USE <1>6
<1>7. SlotInv'
  <2>1. Accounted(s)' = 0 /\ Accounted(s)' <= 1
    <3>1. posted'[s] = 0 /\ queued'[s] = 0 /\ timer'[s] = 0
      OBVIOUS
    <3>2. QED
      BY <3>1, EmptyPlace
  <2>2. acceptStopped' = acceptStopped /\ s \notin toStart'
    BY DEF mainVars
  <2>3. /\ Accounted(s)' <= 1 /\ (slot'[t] = s => Accounted(s)' = 0)
        /\ acceptStopped \/ s \in abandoned' \/ slot'[t] = s \/ Accounted(s)' = 1
    BY <2>1, Basics
  <2>4. QED
    BY <2>2, <2>3, SlotStep DEF IInv
<1>8. OwnerInv'
  <2>1. /\ slotOwner'[s] <=> posted'[s] > 0 \/ (slot'[t] = s /\ pc'[t] \in {"post", "accept"})
        /\ slotSession'[s] \in Sessions <=>
               posted'[s] > 0 \/ (slot'[t] = s /\ pc'[t] \in {"post", "accept"})
    <3>1. posted'[s] = 0 /\ queued'[s] = 0
      OBVIOUS
    <3>2. ~(posted'[s] > 0)
      BY <3>1, EmptyPlace
    <3>3. QED
      BY <3>2, Basics
  <2>2. QED
    BY <2>1, OwnerStep DEF IInv
<1>9. ThreadInv'
  <2>1. ThreadOK(t)'
    BY Basics DEF ThreadOK
  <2>2. MainOK'
    BY Basics, MainStep DEF IInv, ThreadInv, mainVars
  <2>3. RetryOK'
    BY Basics, RetryStep DEF IInv, ThreadInv, RetryOK
  <2>4. \A u \in Threads \ {t} : pc[u] # "post"
    BY SessionOf
  <2>5. QED
    BY <2>1, <2>2, <2>3, <2>4, ThreadStep DEF IInv
<1>10. CountInv' /\ pendingIo' \in Nat
  <2>1. t \in Workers => (IsCompleting(t)' <=> IsCompleting(t))
    BY DEF IsCompleting
  <2>2. \A r \in Slots \ {s} : slotOwner'[r] = slotOwner[r]
    BY DEF OnlySlot
  <2>3. pendingIo \in Nat
    BY DEF TypeOK
  <2>4. QED
    BY <2>1, <2>2, <2>3, CountGiveBack DEF IInv
<1> USE <1>10
<1>11. NewInv'
  <2>1. \A y \in Sessions : sess'[y] = "new" => y # slotSession[s] /\ sess[y] = "new"
    OBVIOUS
  <2>2. \A r \in Slots \ {s} : slotSession'[r] = slotSession[r]
    BY DEF OnlySlot
  <2>3. pc[t] # "connect"
    OBVIOUS
  <2>4. QED
    BY <2>1, <2>2, <2>3, NewDispose, SMTT(30) DEF IInv
<1>12. PhaseInv'
  <2>1. MayAct(t)
    BY DEF MayAct
  <2>2. /\ UNCHANGED <<mainPc, acceptStopped, serviceHolds, running>>
        /\ pendingIo \in Nat /\ pendingIo' <= pendingIo
    BY SMTT(30) DEF TypeOK, mainVars
  <2>3. QED
    BY <2>1, <2>2, PhaseStep DEF IInv
<1>13. SessionPhase'
  <2>1. \A y \in Sessions : sess'[y] = sess[y] \/ sess'[y] = "free"
    OBVIOUS
  <2>2. QED
    BY <2>1, SessionFrame DEF IInv, mainVars
<1>14. DestroyInv'
  <2>1. pc'[t] \notin {"idle", "exited"} /\ destroyed' = destroyed
    OBVIOUS
  <2>2. QED
    BY <2>1, DestroyStep DEF IInv
<1>15. TypeOK'
  BY Basics DEF TypeOK, mainVars, ThreadLabels, SessionStates
<1>16. QED
  BY <1>7, <1>8, <1>9, <1>11, <1>12, <1>13, <1>14, <1>15 DEF IInv

\* The rest of register_accept.
LEMMA PostAcceptInv ==
    ASSUME IInv, NEW t \in Threads, PostAccept(t)
    PROVE  IInv'
<1>1. CASE AcceptExPending(t)
  BY <1>1, AcceptExPendingInv
<1>2. CASE AcceptExFails(t)
  BY <1>2, AcceptExRetryInv, AcceptExAbandonInv DEF AcceptExFails
<1>3. QED
  BY <1>1, <1>2 DEF PostAccept

-----------------------------------------------------------------------------
(* The completion *)

\* The branch of process_accept for a listener that has stopped.
AcceptStopped(w) ==
    /\ acceptStopped /\ Dispose(slotSession[slot[w]]) /\ Leave(w, "finish")
    /\ UNCHANGED timer

\* The listener has stopped: the accepted session is given up.
LEMMA ProcessStoppedInv ==
    ASSUME IInv, NEW w \in Threads, ProcessAccept(w), AcceptStopped(w)
    PROVE  IInv'
<1>0. PICK s : s = slot[w]
  OBVIOUS
<1>1. /\ pc[w] = "accept" /\ lock = Nobody /\ TypeOK
      /\ slotSession' = [slotSession EXCEPT ![s] = Nobody]
      /\ slotOwner' = [slotOwner EXCEPT ![s] = FALSE]
      /\ sess' = [y \in Sessions |-> IF y = slotSession[s] THEN "free" ELSE sess[y]]
      /\ acceptStopped /\ timer' = timer
      /\ pc' = [pc EXCEPT ![w] = "finish"]
      /\ slot' = [slot EXCEPT ![w] = Nobody] /\ held' = [held EXCEPT ![w] = Nobody]
      /\ UNCHANGED <<acceptStopped, lock, posted, pendingIo, queued, retrying,
                     abandoned, destroyed, closing, snapshot, begun, mainVars, bg>>
  BY <1>0 DEF ProcessAccept, AcceptFailed, AcceptStopped, Dispose, Reserve, Leave,
              Goto, At, IInv
<1>2. /\ s \in Slots /\ s \notin toStart /\ Takes(w, s) /\ w \in Users /\ w \in Threads
      /\ posted[s] = 0 /\ timer[s] = 0 /\ queued[s] = 0
      /\ slotOwner[s] /\ slotSession[s] \in Sessions /\ w \in Workers
  BY <1>0, <1>1, SlotOf, SessionOf, Basics
<1>3. /\ slot[w] = s /\ slot'[w] = Nobody /\ held'[w] = Nobody /\ pc'[w] = "finish"
  BY <1>0, <1>1 DEF TypeOK
<1>4. Stay(w)
  BY <1>1, <1>2 DEF Stay, TypeOK
<1>5. OnlySlot(w, s)
  BY <1>1, <1>3 DEF OnlySlot, TypeOK, mainVars
<1>6. /\ ~slotOwner'[s] /\ slotSession'[s] = Nobody
      /\ \A y \in Sessions : sess'[y] = IF y = slotSession[s] THEN "free" ELSE sess[y]
  BY <1>1, <1>2 DEF TypeOK
<1>7. SlotInv'
  <2>1. Accounted(s)' = 0 /\ Accounted(s)' <= 1
    <3>1. posted'[s] = 0 /\ queued'[s] = 0 /\ timer'[s] = 0
      BY <1>1, <1>2, <1>6
    <3>2. QED
      BY <3>1, EmptyPlace
  <2>2. acceptStopped' = acceptStopped /\ s \notin toStart'
    BY <1>1, <1>2 DEF mainVars
  <2>3. /\ Accounted(s)' <= 1 /\ (slot'[w] = s => Accounted(s)' = 0)
        /\ acceptStopped \/ s \in abandoned' \/ slot'[w] = s \/ Accounted(s)' = 1
    BY <1>1, <1>2, <1>3, <2>1, Basics
  <2>4. QED
    BY <1>2, <1>4, <1>5, <2>2, <2>3, SlotStep DEF IInv
<1>8. OwnerInv'
  <2>1. /\ slotOwner'[s] <=> posted'[s] > 0 \/ (slot'[w] = s /\ pc'[w] \in {"post", "accept"})
        /\ slotSession'[s] \in Sessions <=>
               posted'[s] > 0 \/ (slot'[w] = s /\ pc'[w] \in {"post", "accept"})
    <3>1. posted'[s] = 0 /\ queued'[s] = 0
      BY <1>1, <1>2
    <3>2. ~(posted'[s] > 0)
      BY <3>1, EmptyPlace
    <3>3. QED
      BY <1>2, <1>3, <1>6, <3>2, Basics
  <2>2. QED
    BY <1>2, <1>4, <1>5, <2>1, OwnerStep DEF IInv
<1>9. ThreadInv'
  <2>1. ThreadOK(w)'
    BY <1>3, Basics DEF ThreadOK
  <2>2. MainOK'
    BY <1>1, <1>2, <1>3, <1>4, Basics, MainStep DEF IInv, ThreadInv, mainVars
  <2>3. RetryOK'
    BY <1>1, <1>2, <1>3, <1>4, Basics, RetryStep DEF IInv, ThreadInv, RetryOK
  <2>4. \A u \in Threads \ {w} : pc[u] # "post"
    BY <1>1, <1>2, SessionOf
  <2>5. QED
    BY <1>2, <1>4, <2>1, <2>2, <2>3, <2>4, ThreadStep DEF IInv
<1>10. CountInv' /\ pendingIo' \in Nat
  <2>1. IsCompleting(w)' /\ ~IsCompleting(w)
    BY <1>1, <1>3 DEF IsCompleting
  <2>2. \A r \in Slots \ {s} : slotOwner'[r] = slotOwner[r]
    BY <1>5 DEF OnlySlot
  <2>3. pendingIo \in Nat /\ pendingIo' = pendingIo /\ retrying' = retrying
    BY <1>1 DEF TypeOK
  <2>4. QED
    BY <1>2, <1>4, <1>6, <2>1, <2>2, <2>3, CountCallback DEF IInv
<1>11. NewInv'
  <2>1. \A y \in Sessions : sess'[y] = "new" => y # slotSession[s] /\ sess[y] = "new"
    BY <1>6
  <2>2. \A r \in Slots \ {s} : slotSession'[r] = slotSession[r]
    BY <1>5 DEF OnlySlot
  <2>3. pc[w] # "connect"
    BY <1>1
  <2>4. QED
    BY <1>2, <1>4, <2>1, <2>2, <2>3, NewDispose DEF IInv
<1>12. PhaseInv'
  <2>1. MayAct(w)
    BY <1>2 DEF MayAct
  <2>2. /\ UNCHANGED <<mainPc, acceptStopped, serviceHolds, running, pendingIo>>
        /\ pendingIo \in Nat
    BY <1>1 DEF TypeOK, mainVars
  <2>3. QED
    BY <1>2, <1>4, <2>1, <2>2, PhaseSame DEF IInv
<1>13. SessionPhase'
  <2>1. \A y \in Sessions : sess'[y] = sess[y] \/ sess'[y] = "free"
    BY <1>1, <1>6
  <2>2. QED
    BY <1>1, <2>1, SessionFrame DEF IInv, mainVars
<1>14. DestroyInv'
  <2>1. pc'[w] \notin {"idle", "exited"} /\ destroyed' = destroyed
    BY <1>1, <1>3
  <2>2. QED
    BY <1>2, <2>1, DestroyStep DEF IInv
<1>15. TypeOK'
  BY <1>1, <1>2, <1>3, <1>10, Basics DEF TypeOK, mainVars, ThreadLabels, SessionStates
<1>16. QED
  BY <1>7, <1>8, <1>9, <1>10, <1>11, <1>12, <1>13, <1>14, <1>15 DEF IInv

\* The accept has failed: the session is given up and the slot left to the timer.
LEMMA ProcessFailedInv ==
    ASSUME IInv, NEW w \in Threads, ProcessAccept(w), AcceptFailed(w)
    PROVE  IInv'
<1>0. PICK s : s = slot[w]
  OBVIOUS
<1>1. /\ pc[w] = "accept" /\ lock = Nobody /\ TypeOK
      /\ slotSession' = [slotSession EXCEPT ![s] = Nobody]
      /\ slotOwner' = [slotOwner EXCEPT ![s] = FALSE]
      /\ sess' = [y \in Sessions |-> IF y = slotSession[s] THEN "free" ELSE sess[y]]
      /\ ~acceptStopped /\ timer' = [timer EXCEPT ![s] = @ + 1]
      /\ pc' = [pc EXCEPT ![w] = "finish"]
      /\ slot' = [slot EXCEPT ![w] = Nobody] /\ held' = [held EXCEPT ![w] = Nobody]
      /\ UNCHANGED <<acceptStopped, lock, posted, pendingIo, queued, retrying,
                     abandoned, destroyed, closing, snapshot, begun, mainVars, bg>>
  BY <1>0 DEF ProcessAccept, AcceptFailed, AcceptStopped, Dispose, Reserve, Leave,
              Goto, At, IInv
<1>2. /\ s \in Slots /\ s \notin toStart /\ Takes(w, s) /\ w \in Users /\ w \in Threads
      /\ posted[s] = 0 /\ timer[s] = 0 /\ queued[s] = 0
      /\ slotOwner[s] /\ slotSession[s] \in Sessions /\ w \in Workers
  BY <1>0, <1>1, SlotOf, SessionOf, Basics
<1>3. /\ slot[w] = s /\ slot'[w] = Nobody /\ held'[w] = Nobody /\ pc'[w] = "finish"
  BY <1>0, <1>1 DEF TypeOK
<1>4. Stay(w)
  BY <1>1, <1>2 DEF Stay, TypeOK
<1>5. OnlySlot(w, s)
  BY <1>1, <1>3 DEF OnlySlot, TypeOK, mainVars
<1>t. timer' \in [Slots -> Nat] /\ timer'[s] = 1
  BY <1>1, <1>2, TimerSet DEF TypeOK
<1>6. /\ ~slotOwner'[s] /\ slotSession'[s] = Nobody /\ timer'[s] = 1
      /\ \A y \in Sessions : sess'[y] = IF y = slotSession[s] THEN "free" ELSE sess[y]
  BY <1>1, <1>2, <1>t DEF TypeOK
<1>7. SlotInv'
  <2>1. Accounted(s)' = 1 /\ Accounted(s)' <= 1
    <3>1. posted'[s] = 0 /\ queued'[s] = 0 /\ timer'[s] = 1
      BY <1>1, <1>2, <1>6
    <3>2. QED
      BY <3>1, EmptyPlace
  <2>2. acceptStopped' = acceptStopped /\ s \notin toStart'
    BY <1>1, <1>2 DEF mainVars
  <2>3. /\ Accounted(s)' <= 1 /\ (slot'[w] = s => Accounted(s)' = 0)
        /\ acceptStopped \/ s \in abandoned' \/ slot'[w] = s \/ Accounted(s)' = 1
    BY <1>1, <1>2, <1>3, <2>1, Basics
  <2>4. QED
    BY <1>2, <1>4, <1>5, <2>2, <2>3, SlotStep DEF IInv
<1>8. OwnerInv'
  <2>1. /\ slotOwner'[s] <=> posted'[s] > 0 \/ (slot'[w] = s /\ pc'[w] \in {"post", "accept"})
        /\ slotSession'[s] \in Sessions <=>
               posted'[s] > 0 \/ (slot'[w] = s /\ pc'[w] \in {"post", "accept"})
    <3>1. posted'[s] = 0 /\ queued'[s] = 0
      BY <1>1, <1>2
    <3>2. ~(posted'[s] > 0)
      BY <3>1, EmptyPlace
    <3>3. QED
      BY <1>2, <1>3, <1>6, <3>2, Basics
  <2>2. QED
    BY <1>2, <1>4, <1>5, <2>1, OwnerStep DEF IInv
<1>9. ThreadInv'
  <2>1. ThreadOK(w)'
    BY <1>3, Basics DEF ThreadOK
  <2>2. MainOK'
    BY <1>1, <1>2, <1>3, <1>4, Basics, MainStep DEF IInv, ThreadInv, mainVars
  <2>3. RetryOK'
    BY <1>1, <1>2, <1>3, <1>4, Basics, RetryStep DEF IInv, ThreadInv, RetryOK
  <2>4. \A u \in Threads \ {w} : pc[u] # "post"
    BY <1>1, <1>2, SessionOf
  <2>5. QED
    BY <1>2, <1>4, <2>1, <2>2, <2>3, <2>4, ThreadStep DEF IInv
<1>10. CountInv' /\ pendingIo' \in Nat
  <2>1. IsCompleting(w)' /\ ~IsCompleting(w)
    BY <1>1, <1>3 DEF IsCompleting
  <2>2. \A r \in Slots \ {s} : slotOwner'[r] = slotOwner[r]
    BY <1>5 DEF OnlySlot
  <2>3. pendingIo \in Nat /\ pendingIo' = pendingIo /\ retrying' = retrying
    BY <1>1 DEF TypeOK
  <2>4. QED
    BY <1>2, <1>4, <1>6, <2>1, <2>2, <2>3, CountCallback DEF IInv
<1>11. NewInv'
  <2>1. \A y \in Sessions : sess'[y] = "new" => y # slotSession[s] /\ sess[y] = "new"
    BY <1>6
  <2>2. \A r \in Slots \ {s} : slotSession'[r] = slotSession[r]
    BY <1>5 DEF OnlySlot
  <2>3. pc[w] # "connect"
    BY <1>1
  <2>4. QED
    BY <1>2, <1>4, <2>1, <2>2, <2>3, NewDispose DEF IInv
<1>12. PhaseInv'
  <2>1. MayAct(w)
    BY <1>2 DEF MayAct
  <2>2. /\ UNCHANGED <<mainPc, acceptStopped, serviceHolds, running, pendingIo>>
        /\ pendingIo \in Nat
    BY <1>1 DEF TypeOK, mainVars
  <2>3. QED
    BY <1>2, <1>4, <2>1, <2>2, PhaseSame DEF IInv
<1>13. SessionPhase'
  <2>1. \A y \in Sessions : sess'[y] = sess[y] \/ sess'[y] = "free"
    BY <1>1, <1>6
  <2>2. QED
    BY <1>1, <2>1, SessionFrame DEF IInv, mainVars
<1>14. DestroyInv'
  <2>1. pc'[w] \notin {"idle", "exited"} /\ destroyed' = destroyed
    BY <1>1, <1>3
  <2>2. QED
    BY <1>2, <2>1, DestroyStep DEF IInv
<1>15. TypeOK'
  BY <1>1, <1>2, <1>3, <1>10, <1>t, Basics DEF TypeOK, mainVars, ThreadLabels, SessionStates
<1>16. QED
  BY <1>7, <1>8, <1>9, <1>10, <1>11, <1>12, <1>13, <1>14, <1>15 DEF IInv

\* The session leaves the event and stays with the callback.
LEMMA ProcessSucceedsInv ==
    ASSUME IInv, NEW w \in Threads, ProcessAccept(w), AcceptSucceeds(w)
    PROVE  IInv'
<1>0. PICK s : s = slot[w]
  OBVIOUS
<1>1. /\ pc[w] = "accept" /\ lock = Nobody /\ TypeOK /\ ~acceptStopped
      /\ slotSession' = [slotSession EXCEPT ![s] = Nobody]
      /\ slotOwner' = [slotOwner EXCEPT ![s] = FALSE]
      /\ pc' = [pc EXCEPT ![w] = "connect"]
      /\ held' = [held EXCEPT ![w] = slotSession[s]]
      /\ UNCHANGED <<acceptStopped, timer, slot, sess, lock, posted, pendingIo, queued,
                     retrying, abandoned, destroyed, closing, snapshot, begun, mainVars, bg>>
  BY <1>0 DEF ProcessAccept, AcceptSucceeds, Goto, At, IInv
<1>2. /\ s \in Slots /\ s \notin toStart /\ Takes(w, s) /\ w \in Users /\ w \in Threads
      /\ posted[s] = 0 /\ timer[s] = 0 /\ queued[s] = 0
      /\ slotOwner[s] /\ slotSession[s] \in Sessions /\ w \in Workers
  BY <1>0, <1>1, SlotOf, SessionOf, Basics
<1>3. /\ slot[w] = s /\ slot'[w] = s /\ held'[w] = slotSession[s] /\ pc'[w] = "connect"
  BY <1>0, <1>1, <1>2 DEF TypeOK
<1>4. Stay(w)
  BY <1>1, <1>2 DEF Stay, TypeOK
<1>5. OnlySlot(w, s)
  BY <1>1, <1>3 DEF OnlySlot, TypeOK, mainVars
<1>6. /\ ~slotOwner'[s] /\ slotSession'[s] = Nobody
  BY <1>1, <1>2 DEF TypeOK
<1>7. SlotInv'
  <2>1. Accounted(s)' = 0 /\ Accounted(s)' <= 1
    <3>1. posted'[s] = 0 /\ queued'[s] = 0 /\ timer'[s] = 0
      BY <1>1, <1>2, <1>6
    <3>2. QED
      BY <3>1, EmptyPlace
  <2>2. acceptStopped' = acceptStopped /\ s \notin toStart'
    BY <1>1, <1>2 DEF mainVars
  <2>3. /\ Accounted(s)' <= 1 /\ (slot'[w] = s => Accounted(s)' = 0)
        /\ acceptStopped \/ s \in abandoned' \/ slot'[w] = s \/ Accounted(s)' = 1
    BY <1>1, <1>2, <1>3, <2>1, Basics
  <2>4. QED
    BY <1>2, <1>4, <1>5, <2>2, <2>3, SlotStep DEF IInv
<1>8. OwnerInv'
  <2>1. /\ slotOwner'[s] <=> posted'[s] > 0 \/ (slot'[w] = s /\ pc'[w] \in {"post", "accept"})
        /\ slotSession'[s] \in Sessions <=>
               posted'[s] > 0 \/ (slot'[w] = s /\ pc'[w] \in {"post", "accept"})
    <3>1. posted'[s] = 0 /\ queued'[s] = 0
      BY <1>1, <1>2
    <3>2. ~(posted'[s] > 0)
      BY <3>1, EmptyPlace
    <3>3. QED
      BY <1>2, <1>3, <1>6, <3>2, Basics
  <2>2. QED
    BY <1>2, <1>4, <1>5, <2>1, OwnerStep DEF IInv
<1>9. ThreadInv'
  <2>1. ThreadOK(w)'
    BY <1>2, <1>3, Basics DEF ThreadOK
  <2>2. MainOK'
    BY <1>1, <1>2, <1>3, <1>4, Basics, MainStep DEF IInv, ThreadInv, mainVars
  <2>3. RetryOK'
    BY <1>1, <1>2, <1>3, <1>4, Basics, RetryStep DEF IInv, ThreadInv, RetryOK
  <2>4. \A u \in Threads \ {w} : pc[u] # "post"
    BY <1>1, <1>2, SessionOf
  <2>5. QED
    BY <1>2, <1>4, <2>1, <2>2, <2>3, <2>4, ThreadStep DEF IInv
<1>10. CountInv' /\ pendingIo' \in Nat
  <2>1. IsCompleting(w)' /\ ~IsCompleting(w)
    BY <1>1, <1>3 DEF IsCompleting
  <2>2. \A r \in Slots \ {s} : slotOwner'[r] = slotOwner[r]
    BY <1>5 DEF OnlySlot
  <2>3. pendingIo \in Nat /\ pendingIo' = pendingIo /\ retrying' = retrying
    BY <1>1 DEF TypeOK
  <2>4. QED
    BY <1>2, <1>4, <1>6, <2>1, <2>2, <2>3, CountCallback DEF IInv
<1>11. NewInv'
  <2>1. \A r \in Slots \ {s} : slotSession'[r] = slotSession[r]
    BY <1>5 DEF OnlySlot
  <2>2. pc[w] # "connect" /\ sess' = sess
    BY <1>1
  <2>3. QED
    BY <1>2, <1>3, <1>4, <2>1, <2>2, NewConnect DEF IInv
<1>12. PhaseInv'
  <2>1. MayAct(w)
    BY <1>2 DEF MayAct
  <2>2. /\ UNCHANGED <<mainPc, acceptStopped, serviceHolds, running, pendingIo>>
        /\ pendingIo \in Nat
    BY <1>1 DEF TypeOK, mainVars
  <2>3. QED
    BY <1>2, <1>4, <2>1, <2>2, PhaseSame DEF IInv
<1>13. SessionPhase'
  <2>1. \A y \in Sessions : sess'[y] = sess[y] \/ sess'[y] = "free"
    BY <1>1, <1>6
  <2>2. QED
    BY <1>1, <2>1, SessionFrame DEF IInv, mainVars
<1>14. DestroyInv'
  <2>1. pc'[w] \notin {"idle", "exited"} /\ destroyed' = destroyed
    BY <1>1, <1>3
  <2>2. QED
    BY <1>2, <2>1, DestroyStep DEF IInv
<1>15. TypeOK'
  BY <1>1, <1>2, <1>3, <1>10, Basics DEF TypeOK, mainVars, ThreadLabels, SessionStates
<1>16. QED
  BY <1>7, <1>8, <1>9, <1>10, <1>11, <1>12, <1>13, <1>14, <1>15 DEF IInv

\* The critical section of process_accept.
LEMMA ProcessAcceptInv ==
    ASSUME IInv, NEW w \in Threads, ProcessAccept(w)
    PROVE  IInv'
  BY ProcessStoppedInv, ProcessFailedInv, ProcessSucceedsInv DEF ProcessAccept, AcceptStopped

\* What the count says when it is 0: no event is owned and no callback unfinished.
LEMMA NoPending ==
    ASSUME IInv, pendingIo = 0
    PROVE  /\ \A s \in Slots : ~slotOwner[s]
           /\ \A w \in Workers : ~IsCompleting(w)
<1>1. Cardinality(Owned) \in Nat /\ Cardinality(Completing) \in Nat
  BY Finite, FS_CardinalityType
<1>2. Cardinality(Owned) = 0 /\ Cardinality(Completing) = 0
  BY <1>1, SMTT(30) DEF IInv, CountInv
<1>3. Owned = {} /\ Completing = {}
  BY <1>2, Finite, FS_EmptySet
<1>4. QED
  BY <1>3 DEF Owned, Completing

\* A thread that is not in the listener's code has no slot and no session.
LEMMA NoSlot ==
    ASSUME IInv, NEW t \in Threads, pc[t] \in {"idle", "return", "finish", "exited"}
    PROVE  slot[t] = Nobody /\ held[t] = Nobody
<1>1. slot[t] \notin Slots /\ held[t] \notin Sessions
  BY DEF IInv, ThreadInv, ThreadOK
<1>2. QED
  BY <1>1 DEF IInv, TypeOK

\* on_connected.  The session may be brought up, because its completion is not
\* finished, so that close_service has not begun.
LEMMA HandOverInv ==
    ASSUME IInv, NEW w \in Threads, HandOver(w)
    PROVE  IInv' /\ mainPc \in Before \cup {"waitIo"}
<1>1. /\ pc[w] = "connect" /\ TypeOK
      /\ sess' = [sess EXCEPT ![held[w]] = "up"]
      /\ held' = [held EXCEPT ![w] = Nobody]
      /\ pc' = [pc EXCEPT ![w] = "register"]
      /\ UNCHANGED <<acceptStopped, lock, slotVars, pendingIo, timerVars, slot,
                     abandoned, destroyed, closing, snapshot, begun, mainVars, bg>>
  BY DEF HandOver, Goto, At, IInv
<1> USE <1>1
<1>2. w \in Workers /\ w \in Users /\ held[w] \in Sessions /\ slot[w] \in Slots
  BY SlotOf, SessionOf
<1> USE <1>2
<1>3. pc'[w] = "register" /\ held'[w] = Nobody /\ slot'[w] = slot[w]
  BY DEF TypeOK
<1> USE <1>3
<1>4. Stay(w)
  BY DEF Stay, TypeOK
<1> USE <1>4
<1>5. retrying # w
  BY DEF IInv, ThreadInv, RetryOK
<1>6. SlotInv'
  BY SlotSame DEF IInv, slotVars, timerVars, mainVars
<1>7. OwnerInv'
  BY OwnerSame DEF IInv, slotVars
<1>8. ThreadInv'
  <2>1. ThreadOK(w)'
    BY Basics DEF ThreadOK
  <2>2. MainOK'
    BY Basics, MainStep DEF IInv, ThreadInv, mainVars
  <2>3. RetryOK'
    BY <1>5, RetryStep DEF IInv, ThreadInv, timerVars
  <2>4. QED
    BY <2>1, <2>2, <2>3, ThreadStep DEF IInv, slotVars
<1>9. CountInv' /\ pendingIo' \in Nat
  <2>1. IsCompleting(w)' /\ IsCompleting(w)
    BY <1>5 DEF IsCompleting, timerVars
  <2>2. pendingIo' = pendingIo + OneIf(w \in Workers /\ IsCompleting(w)')
                        - OneIf(w \in Workers /\ IsCompleting(w))
    BY <2>1, SMTT(30) DEF OneIf, TypeOK
  <2>3. QED
    BY <2>2, CountThread DEF IInv, slotVars, timerVars
<1>10. NewInv'
  <2>1. \A y \in Sessions : sess'[y] = "new" => sess[y] = "new" /\ y # held[w]
    BY DEF TypeOK
  <2>2. \A u \in Threads : u # w => pc'[u] = pc[u] /\ held'[u] = held[u]
    BY DEF Stay
  <2>3. slotSession' = slotSession
    BY DEF slotVars
  <2>4. ASSUME NEW y \in Sessions, sess'[y] = "new"
        PROVE  \/ \E s \in Slots : slotSession'[s] = y
               \/ \E u \in Threads : pc'[u] = "connect" /\ held'[u] = y
    <3>1. sess[y] = "new" /\ y # held[w]
      BY <2>1, <2>4
    <3>2. CASE \E s \in Slots : slotSession[s] = y
      BY <2>3, <3>2
    <3>3. CASE \E u \in Threads : pc[u] = "connect" /\ held[u] = y
      BY <2>2, <3>1, <3>3
    <3>4. QED
      BY <3>1, <3>2, <3>3 DEF IInv, NewInv
  <2>5. QED
    BY <2>4 DEF NewInv
<1>11. UNCHANGED <<mainPc, acceptStopped, serviceHolds, running, pendingIo, snapshot, begun>>
  BY DEF mainVars
<1>12. PhaseInv'
  <2>1. MayAct(w)
    BY DEF MayAct
  <2>2. pendingIo \in Nat /\ pendingIo' = pendingIo
    BY DEF TypeOK
  <2>3. QED
    BY <1>9, <1>11, <2>1, <2>2, PhaseSame DEF IInv
<1>13. mainPc \in Before \cup {"waitIo"} /\ mainPc # "start"
  <2>1. IsCompleting(w)
    BY DEF IsCompleting
  <2>2. pendingIo # 0
    BY <2>1, NoPending
  <2>3. QED
    BY <2>2 DEF IInv, PhaseInv
<1>14. SessionPhase'
  <2>1. \A y \in Sessions : sess'[y] = sess[y] \/ sess'[y] = "up"
    BY DEF TypeOK
  <2>2. QED
    BY <1>11, <1>13, <2>1 DEF IInv, SessionPhase, Before, Released
<1>15. DestroyInv'
  <2>1. pc'[w] \notin {"idle", "exited"} /\ destroyed' = destroyed
    OBVIOUS
  <2>2. QED
    BY <2>1, DestroyStep DEF IInv
<1>16. TypeOK'
  BY DEF TypeOK, mainVars, slotVars, timerVars, ThreadLabels, SessionStates
<1>17. QED
  BY <1>6, <1>7, <1>8, <1>9, <1>10, <1>12, <1>13, <1>14, <1>15, <1>16 DEF IInv

\* finish_io: the completion is no longer counted.
LEMMA FinishIoInv ==
    ASSUME IInv, NEW w \in Threads, FinishIo(w)
    PROVE  IInv'
<1>1. /\ pc[w] = "finish" /\ TypeOK
      /\ pendingIo' = pendingIo - 1
      /\ pc' = [pc EXCEPT ![w] = "return"]
      /\ UNCHANGED <<acceptStopped, lock, slotVars, timerVars, slot, held, abandoned,
                     destroyed, svcVars, mainVars, bg>>
  BY DEF FinishIo, Goto, At, IInv
<1> USE <1>1
<1>2. w \in Workers /\ w \in Users /\ slot[w] = Nobody /\ held[w] = Nobody
  BY SessionOf, NoSlot DEF Users, At
<1> USE <1>2
<1>3. pc'[w] = "return" /\ held'[w] = held[w] /\ slot'[w] = slot[w]
  BY DEF TypeOK
<1> USE <1>3
<1>4. Stay(w)
  BY DEF Stay, TypeOK
<1> USE <1>4
<1>5. retrying # w
  BY DEF IInv, ThreadInv, RetryOK
<1>6. SlotInv'
  BY SlotSame DEF IInv, slotVars, timerVars, mainVars
<1>7. OwnerInv'
  BY OwnerSame DEF IInv, slotVars
<1>8. ThreadInv'
  <2>1. ThreadOK(w)'
    BY Basics DEF ThreadOK
  <2>2. MainOK'
    BY Basics, MainStep DEF IInv, ThreadInv, mainVars
  <2>3. RetryOK'
    BY <1>5, RetryStep DEF IInv, ThreadInv, timerVars
  <2>4. QED
    BY <2>1, <2>2, <2>3, ThreadStep DEF IInv, slotVars
<1>9. CountInv' /\ pendingIo' \in Nat
  <2>1. ~IsCompleting(w)' /\ IsCompleting(w)
    BY DEF IsCompleting
  <2>2. pendingIo' = pendingIo + OneIf(w \in Workers /\ IsCompleting(w)')
                        - OneIf(w \in Workers /\ IsCompleting(w))
    BY <2>1, SMTT(30) DEF OneIf, TypeOK
  <2>3. QED
    BY <2>2, CountThread DEF IInv, slotVars, timerVars
<1> USE <1>9
<1>10. NewInv'
  <2>1. pc[w] # "connect" /\ sess' = sess /\ slotSession' = slotSession
    BY DEF svcVars, slotVars
  <2>2. QED
    BY <2>1, NewFrame DEF IInv
<1>11. UNCHANGED <<mainPc, acceptStopped, serviceHolds, running, snapshot, begun, sess>>
  BY DEF mainVars, svcVars
<1>12. PhaseInv'
  <2>1. MayAct(w)
    BY DEF MayAct
  <2>2. pendingIo \in Nat /\ pendingIo' <= pendingIo
    BY SMTT(30) DEF TypeOK
  <2>3. QED
    BY <1>11, <2>1, <2>2, PhaseStep DEF IInv
<1>13. SessionPhase'
  BY <1>11, SessionFrame DEF IInv
<1>14. DestroyInv'
  <2>1. pc'[w] \notin {"idle", "exited"} /\ destroyed' = destroyed
    OBVIOUS
  <2>2. QED
    BY <2>1, DestroyStep DEF IInv
<1>15. TypeOK'
  BY DEF TypeOK, mainVars, slotVars, timerVars, svcVars, ThreadLabels
<1>16. QED
  BY <1>6, <1>7, <1>8, <1>10, <1>12, <1>13, <1>14, <1>15 DEF IInv

\* The thread drops its reference; the last one destroys the listener.
LEMMA ReturnInv ==
    ASSUME IInv, NEW t \in Threads, Return(t)
    PROVE  IInv'
<1>1. /\ pc[t] = "return" /\ TypeOK
      /\ pc' = [pc EXCEPT ![t] = "idle"]
      /\ retrying' = IF retrying = t THEN Nobody ELSE retrying
      /\ UNCHANGED <<acceptStopped, lock, slotVars, pendingIo, timer, queued, slot,
                     held, abandoned, svcVars, mainVars, bg>>
      /\ DestroyListener
  BY DEF Return, Goto, At, IInv
<1> USE <1>1
<1>2. t \in Users /\ slot[t] = Nobody /\ held[t] = Nobody
  BY NoSlot DEF Users, At
<1> USE <1>2
<1>3. pc'[t] = "idle" /\ held'[t] = held[t] /\ slot'[t] = slot[t]
  BY DEF TypeOK
<1> USE <1>3
<1>4. Stay(t)
  BY DEF Stay, TypeOK
<1> USE <1>4
<1>5. SlotInv'
  BY SlotSame DEF IInv, slotVars, mainVars
<1>6. OwnerInv'
  BY OwnerSame DEF IInv, slotVars
<1>7. ThreadInv'
  <2>1. ThreadOK(t)'
    BY Basics DEF ThreadOK
  <2>2. MainOK'
    BY Basics DEF IInv, ThreadInv, mainVars, MainOK, Stay
  <2>3. RetryOK'
    BY Basics, ListenerAssumption DEF IInv, ThreadInv, RetryOK, Stay
  <2>4. QED
    BY <2>1, <2>2, <2>3, ThreadStep DEF IInv, slotVars
<1>8. CountInv' /\ pendingIo' \in Nat
  <2>1. ~IsCompleting(t)' /\ ~IsCompleting(t)
    BY DEF IsCompleting
  <2>2. pendingIo' = pendingIo + OneIf(t \in Workers /\ IsCompleting(t)')
                        - OneIf(t \in Workers /\ IsCompleting(t))
    BY <2>1, SMTT(30) DEF OneIf, TypeOK
  <2>3. \A w \in Workers \ {t} : retrying' = w <=> retrying = w
    BY Basics, SMTT(30)
  <2>4. QED
    BY <2>2, <2>3, CountThread DEF IInv, slotVars
<1>9. NewInv'
  <2>1. pc[t] # "connect" /\ sess' = sess /\ slotSession' = slotSession
    BY DEF svcVars, slotVars
  <2>2. QED
    BY <2>1, NewFrame DEF IInv
<1>10. UNCHANGED <<mainPc, acceptStopped, serviceHolds, running, snapshot, begun, sess>>
  BY DEF mainVars, svcVars
<1>11. PhaseInv'
  <2>1. MayAct(t)
    BY DEF MayAct
  <2>2. pendingIo \in Nat /\ pendingIo' = pendingIo
    BY DEF TypeOK
  <2>3. QED
    BY <1>8, <1>10, <2>1, <2>2, PhaseSame DEF IInv
<1>12. SessionPhase'
  BY <1>10, SessionFrame DEF IInv
<1>13. DestroyInv' /\ destroyed' \in BOOLEAN
  <2>1. ~destroyed
    BY DEF IInv, DestroyInv
  <2>2. destroyed' = ~(serviceHolds' \/ (\E s \in Slots : slotOwner'[s]) \/ Users' # {})
    BY <2>1 DEF DestroyListener
  <2>3. QED
    BY <2>2 DEF DestroyInv
<1>14. TypeOK'
  BY <1>13, ListenerAssumption DEF TypeOK, mainVars, slotVars, svcVars, ThreadLabels
<1>15. QED
  BY <1>5, <1>6, <1>7, <1>8, <1>9, <1>11, <1>12, <1>13, <1>14 DEF IInv

\* A worker takes the completion of an accept: the slot goes from the kernel to it.
LEMMA DispatchInv ==
    ASSUME IInv, NEW w \in Workers, NEW s \in Slots, Dispatch(w, s)
    PROVE  IInv'
<1>1. pc[w] = "idle" /\ running /\ posted[s] > 0 /\ TypeOK /\ w \in Threads
  BY Basics DEF Dispatch, Free, At, IInv
<1> USE <1>1
<1>2. slotOwner[s] /\ slotSession[s] \in Sessions
  BY DEF IInv, OwnerInv, OwnerOK, InUse
<1> USE <1>2
<1>3. /\ posted' = [posted EXCEPT ![s] = @ - 1]
      /\ pc' = [pc EXCEPT ![w] = "accept"] /\ slot' = [slot EXCEPT ![w] = s]
      /\ UNCHANGED <<acceptStopped, lock, slotSession, slotOwner, pendingIo,
                     timerVars, held, abandoned, destroyed, svcVars, mainVars, bg>>
  BY DEF Dispatch, Goto
<1> USE <1>3
<1>4. slot[w] = Nobody /\ held[w] = Nobody
  BY NoSlot
<1>5. posted[s] = 1 /\ timer[s] = 0 /\ queued[s] = 0 /\ s \notin toStart /\ Takes(w, s)
  <2>1. posted[s] \in Nat /\ timer[s] \in Nat /\ queued[s] \in Nat
    BY DEF TypeOK
  <2>2. Accounted(s) <= 1 /\ (s \in toStart => Accounted(s) = 0)
    BY DEF IInv, SlotInv, SlotOK
  <2>3. QED
    BY <2>1, <2>2, SMTT(30) DEF Accounted, Takes
<1> USE <1>5
<1>6. pc'[w] = "accept" /\ slot'[w] = s /\ held'[w] = Nobody /\ posted'[s] = 0
  BY <1>4, SMTT(30) DEF TypeOK
<1> USE <1>6
<1>7. Stay(w)
  BY DEF Stay, TypeOK
<1> USE <1>7
<1>8. OnlySlot(w, s)
  BY <1>4 DEF OnlySlot, TypeOK, mainVars, timerVars
<1>9. SlotInv'
  <2>1. Accounted(s)' = 0
    BY SMTT(30) DEF Accounted, timerVars
  <2>2. acceptStopped' = acceptStopped /\ s \notin toStart'
    BY DEF mainVars
  <2>3. Accounted(s)' <= 1
    BY <2>1, SMTT(30)
  <2>4. QED
    BY <1>8, <2>1, <2>2, <2>3, SlotStep DEF IInv
<1>10. OwnerInv'
  <2>1. slotOwner'[s] /\ slotSession'[s] \in Sessions
    OBVIOUS
  <2>2. QED
    BY <1>8, <2>1, OwnerStep DEF IInv
<1>11. ThreadInv'
  <2>1. ThreadOK(w)'
    BY Basics DEF ThreadOK
  <2>2. MainOK'
    BY Basics, MainStep DEF IInv, ThreadInv, mainVars
  <2>3. RetryOK'
    BY RetryStep DEF IInv, ThreadInv, timerVars, RetryOK
  <2>4. QED
    BY <2>1, <2>2, <2>3, ThreadStep DEF IInv
<1>12. CountInv' /\ pendingIo' \in Nat
  <2>1. ~IsCompleting(w)' /\ ~IsCompleting(w)
    BY DEF IsCompleting
  <2>2. pendingIo' = pendingIo + OneIf(w \in Workers /\ IsCompleting(w)')
                        - OneIf(w \in Workers /\ IsCompleting(w))
    BY <2>1, SMTT(30) DEF OneIf, TypeOK
  <2>3. QED
    BY <2>2, CountThread DEF IInv, timerVars
<1> USE <1>12
<1>13. UNCHANGED <<mainPc, acceptStopped, serviceHolds, running, snapshot, begun, sess>>
  BY DEF mainVars, svcVars
<1> USE <1>13
<1>14. NewInv'
  <2>1. pc[w] # "connect" /\ slotSession' = slotSession
    OBVIOUS
  <2>2. QED
    BY <2>1, NewFrame DEF IInv
<1>15. PhaseInv'
  <2>1. MayAct(w)
    BY DEF MayAct
  <2>2. pendingIo \in Nat /\ pendingIo' = pendingIo
    BY DEF TypeOK
  <2>3. QED
    BY <2>1, <2>2, PhaseSame DEF IInv
<1>16. SessionPhase'
  BY SessionFrame DEF IInv
<1>17. DestroyInv'
  <2>1. slotOwner[s] /\ slotOwner'[s] /\ destroyed' = destroyed
    OBVIOUS
  <2>2. QED
    BY <2>1, SMTT(30) DEF IInv, DestroyInv
<1>18. TypeOK'
  BY SMTT(30) DEF TypeOK, mainVars, timerVars, svcVars, ThreadLabels
<1>19. QED
  BY <1>9, <1>10, <1>11, <1>14, <1>15, <1>16, <1>17, <1>18 DEF IInv

\* A thread that exits was not in the listener's code.
LEMMA WorkerExitsInv ==
    ASSUME IInv, NEW w \in Workers, WorkerExits(w)
    PROVE  IInv'
<1>1. /\ pc[w] = "idle" /\ mainPc # "start" /\ TypeOK /\ w \in Threads
      /\ pc' = [pc EXCEPT ![w] = "exited"]
      /\ UNCHANGED <<acceptStopped, lock, slotVars, pendingIo, timerVars, slot, held,
                     abandoned, destroyed, svcVars, mainVars, bg>>
  BY Basics DEF WorkerExits, Goto, At, IInv
<1>2. slot[w] = Nobody /\ held[w] = Nobody
  BY <1>1, NoSlot
<1>3. pc'[w] = "exited" /\ held'[w] = held[w] /\ slot'[w] = slot[w]
  BY <1>1 DEF TypeOK
<1>4. Stay(w)
  BY <1>1 DEF Stay, TypeOK
<1>5. SlotInv'
  BY <1>1, SlotSame DEF IInv, slotVars, timerVars, mainVars
<1>6. OwnerInv'
  BY <1>1, <1>3, <1>4, OwnerSame DEF IInv, slotVars
<1>7. ThreadInv'
  <2>1. ThreadOK(w)'
    BY <1>2, <1>3, Basics DEF ThreadOK
  <2>2. MainOK'
    BY <1>1, <1>4, Basics, MainStep DEF IInv, ThreadInv, mainVars
  <2>3. RetryOK'
    BY <1>1, <1>4, RetryStep DEF IInv, ThreadInv, timerVars, RetryOK
  <2>4. QED
    BY <1>1, <1>4, <2>1, <2>2, <2>3, ThreadStep DEF IInv, slotVars
<1>8. CountInv' /\ pendingIo' \in Nat
  <2>1. ~IsCompleting(w)' /\ ~IsCompleting(w)
    BY <1>1, <1>3 DEF IsCompleting
  <2>2. pendingIo' = pendingIo + OneIf(w \in Workers /\ IsCompleting(w)')
                        - OneIf(w \in Workers /\ IsCompleting(w))
    BY <1>1, <2>1, SMTT(30) DEF OneIf, TypeOK
  <2>3. QED
    BY <1>1, <1>4, <2>2, CountThread DEF IInv, timerVars, slotVars
<1>9. NewInv'
  <2>1. pc[w] # "connect" /\ sess' = sess /\ slotSession' = slotSession
    BY <1>1 DEF svcVars, slotVars
  <2>2. QED
    BY <1>1, <1>4, <2>1, NewFrame DEF IInv
<1>10. Users' = Users
  <2>1. \A u \in Threads : u \in Users' <=> u \in Users
    BY <1>1, <1>3, <1>4 DEF Users, At, Stay
  <2>2. QED
    BY <2>1 DEF Users
<1>11. /\ UNCHANGED <<mainPc, acceptStopped, serviceHolds, running, snapshot, begun, sess>>
       /\ UNCHANGED <<pendingIo, timer, slotOwner, destroyed>>
  BY <1>1 DEF mainVars, svcVars, timerVars, slotVars
<1>12. PhaseInv'
  BY <1>1, <1>10, <1>11, SMTT(30) DEF IInv, PhaseInv
<1>13. SessionPhase'
  BY <1>11, SessionFrame DEF IInv
<1>14. DestroyInv'
  BY <1>10, <1>11 DEF IInv, DestroyInv
<1>15. TypeOK'
  BY <1>1 DEF TypeOK, mainVars, slotVars, timerVars, svcVars, ThreadLabels
<1>16. QED
  BY <1>5, <1>6, <1>7, <1>8, <1>9, <1>12, <1>13, <1>14, <1>15 DEF IInv

\* ServerService::start: main takes the next slot.
LEMMA StartSlotInv ==
    ASSUME IInv, NEW s \in Slots, StartSlot(s)
    PROVE  IInv'
<1>1. /\ mainPc = "start" /\ pc["main"] = "idle" /\ s \in toStart /\ TypeOK
      /\ toStart' = toStart \ {s}
      /\ slot' = [slot EXCEPT !["main"] = s] /\ pc' = [pc EXCEPT !["main"] = "register"]
      /\ UNCHANGED <<acceptStopped, lock, slotVars, pendingIo, timerVars, held,
                     abandoned, destroyed, svcVars, mainPc, running, stopRequested,
                     serviceHolds, bg>>
  BY DEF StartSlot, Goto, At, IInv
<1> USE <1>1
<1>2. PICK t : t = "main"
  OBVIOUS
<1>3. t \in Threads /\ t \notin Workers /\ slot[t] = Nobody /\ held[t] = Nobody
  BY <1>2, Basics, NoSlot
<1> USE <1>3
<1>4. Takes(t, s) /\ Accounted(s) = 0
  BY DEF IInv, SlotInv, SlotOK, Takes
<1>5. pc'[t] = "register" /\ slot'[t] = s /\ held'[t] = Nobody
  BY <1>2 DEF TypeOK
<1> USE <1>5
<1>6. Stay(t)
  BY <1>2 DEF Stay, TypeOK
<1> USE <1>6
<1>7. OnlySlot(t, s)
  BY DEF OnlySlot, TypeOK, slotVars, timerVars
<1>8. SlotInv'
  <2>1. Accounted(s)' = 0
    BY <1>4 DEF Accounted, timerVars, slotVars
  <2>2. acceptStopped' = acceptStopped /\ s \notin toStart'
    OBVIOUS
  <2>3. Accounted(s)' <= 1
    BY <2>1, SMTT(30)
  <2>4. QED
    BY <1>4, <1>7, <2>1, <2>2, <2>3, SlotStep DEF IInv
<1>9. OwnerInv'
  BY <1>2, OwnerSame DEF IInv, slotVars
<1>10. ThreadInv'
  <2>1. ThreadOK(t)'
    BY Basics DEF ThreadOK
  <2>2. MainOK'
    BY <1>2 DEF MainOK
  <2>3. RetryOK'
    BY RetryStep DEF IInv, ThreadInv, timerVars, RetryOK
  <2>4. QED
    BY <2>1, <2>2, <2>3, ThreadStep DEF IInv, slotVars
<1>11. CountInv' /\ pendingIo' \in Nat
  <2>1. pendingIo' = pendingIo + OneIf(t \in Workers /\ IsCompleting(t)')
                        - OneIf(t \in Workers /\ IsCompleting(t))
    BY SMTT(30) DEF OneIf, TypeOK
  <2>2. QED
    BY <2>1, CountThread DEF IInv, timerVars, slotVars
<1>12. NewInv'
  <2>1. pc[t] # "connect" /\ sess' = sess /\ slotSession' = slotSession
    BY <1>2 DEF svcVars, slotVars
  <2>2. QED
    BY <2>1, NewFrame DEF IInv
<1>13. UNCHANGED <<mainPc, acceptStopped, serviceHolds, running, snapshot, begun, sess>>
  BY DEF svcVars
<1>14. PhaseInv'
  <2>1. MayAct(t)
    BY <1>2 DEF MayAct
  <2>2. pendingIo \in Nat /\ pendingIo' = pendingIo
    BY DEF TypeOK
  <2>3. QED
    BY <1>11, <1>13, <2>1, <2>2, PhaseSame DEF IInv
<1>15. SessionPhase'
  BY <1>13, SessionFrame DEF IInv
<1>16. DestroyInv'
  <2>1. serviceHolds
    BY DEF IInv, PhaseInv, Released
  <2>2. QED
    BY <2>1 DEF IInv, DestroyInv
<1>17. TypeOK'
  BY <1>2 DEF TypeOK, slotVars, timerVars, svcVars, ThreadLabels
<1>18. QED
  BY <1>8, <1>9, <1>10, <1>11, <1>12, <1>14, <1>15, <1>16, <1>17 DEF IInv

-----------------------------------------------------------------------------
(* Steps that move no thread of the listener *)

\* What holds of the events, the callbacks and the count does not depend on main,
\* as long as the stop comes while no thread posts.
LEMMA MainFrame ==
    ASSUME IInv,
           UNCHANGED <<lock, slotVars, pendingIo, retrying, locals, toStart>>,
           acceptStopped' = acceptStopped \/ lock = Nobody,
           mainPc = "start" => mainPc' = "start" \/ pc["main"] = "idle",
           \A x \in Sessions : sess'[x] = "new" => sess[x] = "new"
    PROVE  /\ ThreadInv' /\ OwnerInv' /\ CountInv' /\ NewInv' /\ Users' = Users
<1>1. OwnerInv' /\ CountInv' /\ Users' = Users
  BY DEF IInv, OwnerInv, OwnerOK, InUse, CountInv, Owned, Completing, IsCompleting, Users,
     At, slotVars, locals
<1>2. NewInv'
  BY DEF IInv, NewInv, slotVars, locals
<1>3. MainOK' /\ RetryOK'
  BY DEF IInv, ThreadInv, MainOK, RetryOK, locals
<1>4. ASSUME NEW t \in Threads PROVE ThreadOK(t)'
  <2>1. ThreadOK(t)
    BY DEF IInv, ThreadInv
  <2>2. acceptStopped' = acceptStopped \/ pc[t] # "post"
    BY SessionOf
  <2>3. QED
    BY <2>1, <2>2, SMTT(30) DEF ThreadOK, slotVars, locals
<1>5. QED
  BY <1>1, <1>2, <1>3, <1>4 DEF ThreadInv

\* JobTimer::distribute.  A due item becomes a job, or is dropped with its queue.
LEMMA DistributeInv ==
    ASSUME IInv, NEW w \in Workers, NEW s \in Slots, Distribute(w, s)
    PROVE  IInv'
<1>1. pc[w] = "idle" /\ running /\ timer[s] > 0 /\ TypeOK /\ w \in Threads
  BY Basics DEF Distribute, Free, At, IInv
<1>2. /\ timer' = [timer EXCEPT ![s] = @ - 1]
      /\ queued' = IF ~destroyed THEN [queued EXCEPT ![s] = @ + 1] ELSE queued
      /\ UNCHANGED <<acceptStopped, lock, slotVars, pendingIo, retrying, locals,
                     abandoned, destroyed, svcVars, mainVars, bg>>
  BY DEF Distribute, OwnerLocked
<1>3. slot[w] = Nobody
  BY <1>1, NoSlot
<1>4. timer[s] = 1 /\ posted[s] = 0 /\ queued[s] = 0 /\ s \notin toStart /\ Takes(w, s)
  <2>1. posted[s] \in Nat /\ timer[s] \in Nat /\ queued[s] \in Nat
    BY <1>1 DEF TypeOK
  <2>2. Accounted(s) <= 1 /\ (s \in toStart => Accounted(s) = 0)
    BY DEF IInv, SlotInv, SlotOK
  <2>3. QED
    BY <1>1, <2>1, <2>2, SMTT(30) DEF Accounted, Takes
<1>5. destroyed => acceptStopped
  BY DEF IInv, DestroyInv, PhaseInv, Before, Released
<1>6. Stay(w)
  BY <1>2 DEF Stay, locals
<1>7. SlotInv'
  <2>1. OnlySlot(w, s)
    BY <1>1, <1>2, <1>3 DEF OnlySlot, TypeOK, mainVars, slotVars, locals
  <2>2. timer'[s] = 0 /\ posted'[s] = 0 /\ queued'[s] = (IF ~destroyed THEN 1 ELSE 0)
    BY <1>1, <1>2, <1>4, SMTT(30) DEF TypeOK, slotVars
  <2>3. Accounted(s)' <= 1 /\ (acceptStopped \/ Accounted(s)' = 1)
    BY <1>5, <2>2, SMTT(30) DEF Accounted
  <2>4. slot'[w] # s /\ s \notin toStart' /\ acceptStopped' = acceptStopped
    BY <1>2, <1>3, <1>4, Basics DEF locals, mainVars
  <2>5. QED
    BY <1>1, <1>4, <1>6, <2>1, <2>3, <2>4, SlotStep DEF IInv
<1>8. /\ UNCHANGED <<acceptStopped, mainPc, running, serviceHolds, toStart, destroyed>>
      /\ UNCHANGED <<sess, snapshot, begun, slotOwner, pc, pendingIo>>
  BY <1>2 DEF mainVars, svcVars, slotVars, locals
<1>9. ThreadInv' /\ OwnerInv' /\ CountInv' /\ NewInv' /\ Users' = Users
  BY <1>2, <1>8, MainFrame
<1>10. DestroyInv' /\ SessionPhase'
  BY <1>8, <1>9, SessionFrame DEF IInv, DestroyInv
<1>11. PhaseInv'
  <2>1. MayAct(w)
    BY <1>1 DEF MayAct
  <2>2. pendingIo \in Nat /\ pendingIo' <= pendingIo
    BY <1>1, <1>8, SMTT(30) DEF TypeOK
  <2>3. QED
    BY <1>1, <1>6, <1>8, <2>1, <2>2, PhaseStep DEF IInv
<1>12. TypeOK'
  BY <1>1, <1>2, <1>4, SMTT(30) DEF TypeOK, mainVars, slotVars, svcVars, locals
<1>13. QED
  BY <1>7, <1>9, <1>10, <1>11, <1>12 DEF IInv

\* The job of reserve_accept_retry, when the listener is gone.
LEMMA RetryGoneInv ==
    ASSUME IInv, NEW w \in Workers, NEW s \in Slots, RetryJob(w, s), destroyed
    PROVE  IInv'
<1>1. pc[w] = "idle" /\ running /\ queued[s] > 0 /\ TypeOK /\ w \in Threads
  BY Basics DEF RetryJob, Free, At, IInv
<1>2. /\ queued' = [queued EXCEPT ![s] = @ - 1]
      /\ UNCHANGED <<acceptStopped, lock, slotVars, pendingIo, timer, retrying, locals,
                     abandoned, destroyed, svcVars, mainVars, bg>>
  BY DEF RetryJob, ListenerLocked, locals
<1>3. acceptStopped
  BY DEF IInv, DestroyInv, PhaseInv, Before, Released
<1>4. slot[w] = Nobody
  BY <1>1, NoSlot
<1>5. queued[s] = 1 /\ posted[s] = 0 /\ timer[s] = 0 /\ s \notin toStart /\ Takes(w, s)
  <2>1. posted[s] \in Nat /\ timer[s] \in Nat /\ queued[s] \in Nat
    BY <1>1 DEF TypeOK
  <2>2. Accounted(s) <= 1 /\ (s \in toStart => Accounted(s) = 0)
    BY DEF IInv, SlotInv, SlotOK
  <2>3. QED
    BY <1>1, <2>1, <2>2, SMTT(30) DEF Accounted, Takes
<1>6. Stay(w)
  BY <1>2 DEF Stay, locals
<1>7. SlotInv'
  <2>1. OnlySlot(w, s)
    BY <1>1, <1>2, <1>4 DEF OnlySlot, TypeOK, mainVars, slotVars, locals
  <2>2. timer'[s] = 0 /\ posted'[s] = 0 /\ queued'[s] = 0
    BY <1>1, <1>2, <1>5, SMTT(30) DEF TypeOK, slotVars
  <2>3. Accounted(s)' <= 1
    BY <2>2, SMTT(30) DEF Accounted
  <2>4. slot'[w] # s /\ s \notin toStart' /\ acceptStopped' = acceptStopped
    BY <1>2, <1>4, <1>5, Basics DEF locals, mainVars
  <2>5. QED
    BY <1>1, <1>3, <1>5, <1>6, <2>1, <2>3, <2>4, SlotStep DEF IInv
<1>8. /\ UNCHANGED <<acceptStopped, mainPc, running, serviceHolds, toStart, destroyed>>
      /\ UNCHANGED <<sess, snapshot, begun, slotOwner, pc, pendingIo, timer>>
  BY <1>2 DEF mainVars, svcVars, slotVars, locals
<1>9. ThreadInv' /\ OwnerInv' /\ CountInv' /\ NewInv' /\ Users' = Users
  BY <1>2, <1>8, MainFrame
<1>10. DestroyInv' /\ SessionPhase'
  BY <1>8, <1>9, SessionFrame DEF IInv, DestroyInv
<1>11. PhaseInv'
  BY <1>8, <1>9 DEF IInv, PhaseInv
<1>12. TypeOK'
  BY <1>1, <1>2, <1>5, SMTT(30) DEF TypeOK, mainVars, slotVars, svcVars, locals
<1>13. QED
  BY <1>7, <1>9, <1>10, <1>11, <1>12 DEF IInv

\* The job of reserve_accept_retry, when it locks the listener: the slot is its.
LEMMA RetryLocksInv ==
    ASSUME IInv, NEW w \in Workers, NEW s \in Slots, RetryJob(w, s), ~destroyed
    PROVE  IInv'
<1>1. pc[w] = "idle" /\ running /\ queued[s] > 0 /\ retrying = Nobody /\ TypeOK /\ w \in Threads
  BY Basics DEF RetryJob, Free, At, IInv
<1>2. /\ queued' = [queued EXCEPT ![s] = @ - 1] /\ retrying' = w
      /\ pc' = [pc EXCEPT ![w] = "register"] /\ slot' = [slot EXCEPT ![w] = s]
      /\ UNCHANGED <<acceptStopped, lock, slotVars, pendingIo, timer, held, abandoned,
                     destroyed, svcVars, mainVars, bg>>
  BY DEF RetryJob, ListenerLocked, Goto
<1>3. slot[w] = Nobody /\ held[w] = Nobody
  BY <1>1, NoSlot
<1>4. queued[s] = 1 /\ posted[s] = 0 /\ timer[s] = 0 /\ s \notin toStart /\ Takes(w, s)
  <2>1. posted[s] \in Nat /\ timer[s] \in Nat /\ queued[s] \in Nat
    BY <1>1 DEF TypeOK
  <2>2. Accounted(s) <= 1 /\ (s \in toStart => Accounted(s) = 0)
    BY DEF IInv, SlotInv, SlotOK
  <2>3. QED
    BY <1>1, <2>1, <2>2, SMTT(30) DEF Accounted, Takes
<1>5. pc'[w] = "register" /\ slot'[w] = s /\ held'[w] = Nobody
  BY <1>1, <1>2, <1>3 DEF TypeOK
<1>6. Stay(w)
  BY <1>1, <1>2 DEF Stay, TypeOK
<1>7. SlotInv'
  <2>1. OnlySlot(w, s)
    BY <1>1, <1>2, <1>3, <1>5 DEF OnlySlot, TypeOK, mainVars, slotVars
  <2>2. timer'[s] = 0 /\ posted'[s] = 0 /\ queued'[s] = 0
    BY <1>1, <1>2, <1>4, SMTT(30) DEF TypeOK, slotVars
  <2>3. Accounted(s)' = 0 /\ Accounted(s)' <= 1
    BY <2>2, SMTT(30) DEF Accounted
  <2>4. s \notin toStart' /\ acceptStopped' = acceptStopped
    BY <1>2, <1>4 DEF mainVars
  <2>5. QED
    BY <1>1, <1>4, <1>5, <1>6, <2>1, <2>3, <2>4, SlotStep DEF IInv
<1>8. OwnerInv'
  BY <1>1, <1>2, <1>5, <1>6, OwnerSame DEF IInv, slotVars
<1>9. ThreadInv'
  <2>1. ThreadOK(w)'
    BY <1>5, Basics DEF ThreadOK
  <2>2. MainOK'
    BY <1>1, <1>2, <1>6, Basics, MainStep DEF IInv, ThreadInv, mainVars
  <2>3. RetryOK'
    BY <1>2, <1>5 DEF RetryOK
  <2>4. QED
    BY <1>1, <1>2, <1>6, <2>1, <2>2, <2>3, ThreadStep DEF IInv, slotVars
<1>10. CountInv' /\ pendingIo' \in Nat
  <2>1. ~IsCompleting(w)' /\ ~IsCompleting(w)
    BY <1>1, <1>2, <1>5 DEF IsCompleting
  <2>2. pendingIo' = pendingIo + OneIf(w \in Workers /\ IsCompleting(w)')
                        - OneIf(w \in Workers /\ IsCompleting(w))
    BY <1>1, <1>2, <2>1, SMTT(30) DEF OneIf, TypeOK
  <2>3. \A v \in Workers \ {w} : retrying' = v <=> retrying = v
    BY <1>1, <1>2, Basics
  <2>4. slotOwner' = slotOwner
    BY <1>2 DEF slotVars
  <2>5. QED
    BY <1>1, <1>6, <2>2, <2>3, <2>4, CountThread DEF IInv
<1>11. NewInv'
  <2>1. pc[w] # "connect" /\ sess' = sess /\ slotSession' = slotSession
    BY <1>1, <1>2 DEF svcVars, slotVars
  <2>2. QED
    BY <1>1, <1>6, <2>1, NewFrame DEF IInv
<1>12. /\ UNCHANGED <<mainPc, acceptStopped, serviceHolds, running, snapshot, begun, sess>>
       /\ UNCHANGED <<slotOwner, destroyed>>
  BY <1>2 DEF mainVars, svcVars, slotVars
<1>13. PhaseInv'
  <2>1. MayAct(w)
    BY <1>1 DEF MayAct
  <2>2. pendingIo \in Nat /\ pendingIo' <= pendingIo
    BY <1>1, <1>2, SMTT(30) DEF TypeOK
  <2>3. QED
    BY <1>1, <1>6, <1>10, <1>12, <2>1, <2>2, PhaseStep DEF IInv
<1>14. SessionPhase'
  BY <1>12, SessionFrame DEF IInv
<1>15. DestroyInv'
  <2>1. w \in Users'
    BY <1>1, <1>5 DEF Users, At
  <2>2. QED
    BY <1>12, <2>1 DEF DestroyInv
<1>16. TypeOK'
  BY <1>1, <1>2, <1>4, SMTT(30) DEF TypeOK, mainVars, slotVars, svcVars, ThreadLabels
<1>17. QED
  BY <1>7, <1>8, <1>9, <1>10, <1>11, <1>13, <1>14, <1>15, <1>16 DEF IInv

\* The same for a step that leaves the listener alone altogether.
LEMMA QuietFrame ==
    ASSUME IInv, UNCHANGED <<listenVars, destroyed, toStart, serviceHolds>>,
           mainPc = "start" => mainPc' = "start" \/ pc["main"] = "idle",
           \A x \in Sessions : sess'[x] = "new" => sess[x] = "new"
    PROVE  /\ SlotInv' /\ ThreadInv' /\ OwnerInv' /\ CountInv' /\ NewInv' /\ DestroyInv'
           /\ Users' = Users
<1>1. /\ UNCHANGED <<lock, slotVars, pendingIo, retrying, locals, toStart>>
      /\ UNCHANGED <<posted, timer, queued, slot, abandoned, acceptStopped, slotOwner>>
  BY DEF listenVars, slotVars, timerVars, locals
<1> USE <1>1
<1>2. SlotInv'
  BY SlotSame DEF IInv
<1>3. /\ ThreadInv' /\ OwnerInv' /\ CountInv' /\ NewInv' /\ Users' = Users
  BY MainFrame
<1>4. DestroyInv'
  BY <1>3 DEF IInv, DestroyInv
<1>5. QED
  BY <1>2, <1>3, <1>4

\* After ServerService::start main is not in the listener's code.
LEMMA MainIdle ==
    ASSUME IInv, mainPc # "start"
    PROVE  pc["main"] = "idle"
  BY DEF IInv, ThreadInv, MainOK

\* The last completion of a session: only close_service may still hold it.
LEMMA SessionEndsInv ==
    ASSUME IInv, NEW w \in Workers, NEW x \in Sessions, SessionEnds(w, x)
    PROVE  IInv'
<1>1. /\ sess[x] = "up" /\ TypeOK
      /\ sess' = [sess EXCEPT ![x] = IF x \in snapshot THEN "quiet" ELSE "free"]
      /\ UNCHANGED <<listenVars, destroyed, closing, snapshot, begun, mainVars, bg>>
  BY DEF SessionEnds, IInv
<1> USE <1>1
<1>2. sess'[x] \in {"quiet", "free"} /\ (sess'[x] = "quiet" => x \in snapshot)
  BY DEF TypeOK
<1>3. \A y \in Sessions \ {x} : sess'[y] = sess[y]
  BY DEF TypeOK
<1>4. UNCHANGED <<listenVars, destroyed, toStart, serviceHolds, mainPc, running>>
  BY DEF mainVars
<1> USE <1>4
<1>5. /\ SlotInv' /\ ThreadInv' /\ OwnerInv' /\ CountInv' /\ NewInv' /\ DestroyInv'
      /\ Users' = Users
  BY <1>2, <1>3, QuietFrame
<1>6. PhaseInv'
  <2>1. UNCHANGED <<acceptStopped, pendingIo, timer, pc>>
    BY DEF listenVars, timerVars, locals
  <2>2. QED
    BY <1>5, <2>1 DEF IInv, PhaseInv
<1>7. SessionPhase'
  <2>1. snapshot' = snapshot /\ begun' = begun /\ mainPc' = mainPc
    OBVIOUS
  <2>2. mainPc \notin {"reset"} \cup Released
    BY DEF IInv, SessionPhase
  <2>3. QED
    BY <1>2, <1>3, <2>1, <2>2 DEF IInv, SessionPhase
<1>8. TypeOK'
  BY DEF TypeOK, listenVars, slotVars, timerVars, locals, mainVars, SessionStates
<1>9. QED
  BY <1>5, <1>6, <1>7, <1>8 DEF IInv

\* The background threads have nothing to do with the listener.
LEMMA BackgroundInv ==
    ASSUME IInv, NEW b \in Background, StopSignalWait(b) \/ Interval(b)
    PROVE  IInv'
<1>1. UNCHANGED <<listenVars, destroyed, svcVars, mainVars>>
  BY DEF StopSignalWait, Interval
<1> USE <1>1
<1>2. UNCHANGED <<toStart, serviceHolds, mainPc, running, sess, snapshot, begun>>
  BY DEF mainVars, svcVars
<1> USE <1>2
<1>3. /\ SlotInv' /\ ThreadInv' /\ OwnerInv' /\ CountInv' /\ NewInv' /\ DestroyInv'
      /\ Users' = Users
  BY QuietFrame
<1>4. PhaseInv' /\ SessionPhase'
  <2>1. UNCHANGED <<acceptStopped, pendingIo, timer, pc>>
    BY DEF listenVars, timerVars, locals
  <2>2. PhaseInv'
    BY <1>3, <2>1 DEF IInv, PhaseInv
  <2>3. SessionPhase'
    BY SessionFrame DEF IInv
  <2>4. QED
    BY <2>2, <2>3
<1>5. bg' \in [Background -> {"work", "wait", "exited"}]
  BY DEF IInv, TypeOK, StopSignalWait, Interval
<1>6. TypeOK'
  BY <1>5 DEF IInv, TypeOK, listenVars, slotVars, timerVars, locals, mainVars, svcVars
<1>7. QED
  BY <1>3, <1>4, <1>6 DEF IInv

-----------------------------------------------------------------------------
(* The steps of main *)

\* What the steps of main that leave the listener alone have in common.
LEMMA MainQuietInv ==
    ASSUME IInv,
           UNCHANGED <<listenVars, destroyed, toStart, serviceHolds, bg>>,
           mainPc' \in MainLabels, running' \in BOOLEAN, stopRequested' \in BOOLEAN,
           closing' \in BOOLEAN, sess' \in [Sessions -> SessionStates],
           snapshot' \subseteq Sessions, begun' \subseteq snapshot',
           mainPc = "start" => mainPc' = "start" \/ pc["main"] = "idle",
           \A x \in Sessions : sess'[x] = "new" => sess[x] = "new",
           Users' = Users => PhaseInv', SessionPhase'
    PROVE  IInv'
<1>1. /\ SlotInv' /\ ThreadInv' /\ OwnerInv' /\ CountInv' /\ NewInv' /\ DestroyInv'
      /\ Users' = Users
  BY QuietFrame
<1>2. TypeOK'
  BY DEF IInv, TypeOK, listenVars, slotVars, timerVars, locals
<1>3. QED
  BY <1>1, <1>2 DEF IInv

\* The workers start, the request to stop, the join of the background threads and
\* the end of the workers.
LEMMA MainGoesOnInv ==
    ASSUME IInv, Started \/ Quit \/ Join \/ StopWorkers
    PROVE  IInv'
<1>1. /\ UNCHANGED <<listenVars, destroyed, svcVars, toStart, serviceHolds, bg>>
      /\ mainPc = "start" => pc["main"] = "idle"
      /\ <<mainPc, mainPc'>> \in {<<"start", "run">>, <<"run", "join">>,
                        <<"join", "closeSocket">>, <<"stopWorkers", "joinWorkers">>}
      /\ mainPc = "stopWorkers" => running' = FALSE
      /\ running' \in BOOLEAN /\ stopRequested' \in BOOLEAN
  BY DEF Started, Quit, Join, JoinBackground, StopWorkers, MainGoto, At, IInv, TypeOK
<1> USE <1>1
<1>2. UNCHANGED <<acceptStopped, pendingIo, timer, pc, sess, snapshot, begun, closing>>
  BY DEF listenVars, timerVars, locals, svcVars
<1> USE <1>2
<1>3. Users' = Users => PhaseInv'
  BY DEF IInv, PhaseInv, Before, Released
<1>4. SessionPhase'
  BY DEF IInv, SessionPhase, Before, Released
<1>5. mainPc' \in MainLabels
  BY DEF MainLabels
<1>6. /\ closing' \in BOOLEAN /\ sess' \in [Sessions -> SessionStates]
      /\ snapshot' \subseteq Sessions /\ begun' \subseteq snapshot'
  BY DEF IInv, TypeOK
<1>7. QED
  BY <1>3, <1>4, <1>5, <1>6, MainQuietInv

\* Listener::wait_for_io returns: nothing is pending, and nothing will be.
LEMMA WaitForIoInv ==
    ASSUME IInv, WaitForIo
    PROVE  IInv'
<1>1. /\ UNCHANGED <<listenVars, destroyed, svcVars, toStart, running, stopRequested,
                     serviceHolds, bg>>
      /\ mainPc = "waitIo" /\ pendingIo = 0 /\ mainPc' = "collect"
  BY DEF WaitForIo, IoCompleted, MainGoto
<1> USE <1>1
<1>2. UNCHANGED <<acceptStopped, pendingIo, timer, pc, sess, snapshot, begun, closing>>
  BY DEF listenVars, timerVars, locals, svcVars
<1> USE <1>2
<1>3. Users' = Users => PhaseInv'
  BY DEF IInv, PhaseInv, Before, Released
<1>4. SessionPhase'
  BY DEF IInv, SessionPhase, Before, Released
<1>5. /\ closing' \in BOOLEAN /\ sess' \in [Sessions -> SessionStates]
      /\ snapshot' \subseteq Sessions /\ begun' \subseteq snapshot'
      /\ mainPc' \in MainLabels /\ running' \in BOOLEAN /\ stopRequested' \in BOOLEAN
  BY DEF IInv, TypeOK, MainLabels
<1>6. QED
  BY <1>3, <1>4, <1>5, MainQuietInv

\* Once nothing is pending, no session is between accept and hand-over.
LEMMA NoNewSession ==
    ASSUME IInv, pendingIo = 0
    PROVE  \A x \in Sessions : sess[x] # "new"
<1>1. (\A s \in Slots : ~slotOwner[s]) /\ (\A w \in Workers : ~IsCompleting(w))
  BY NoPending
<1>2. \A s \in Slots : slotSession[s] \notin Sessions
  BY <1>1 DEF IInv, OwnerInv, OwnerOK
<1>3. \A t \in Threads : pc[t] # "connect"
  BY <1>1, SessionOf DEF IsCompleting
<1>4. QED
  BY <1>2, <1>3 DEF IInv, NewInv

\* Service::close_service: the snapshot, begin_shutdown of each session, and the
\* wait for all of them.
LEMMA CloseServiceInv ==
    ASSUME IInv, Collect \/ BeginShutdown \/ WaitForShutdown
    PROVE  IInv'
<1>1. /\ UNCHANGED <<listenVars, destroyed, toStart, running, stopRequested,
                     serviceHolds, bg>>
      /\ mainPc \in {"collect", "begin", "wait"}
  BY DEF Collect, BeginShutdown, WaitForShutdown
<1> USE <1>1
<1>2. UNCHANGED <<acceptStopped, pendingIo, timer, pc>>
  BY DEF listenVars, timerVars, locals
<1>3. TypeOK /\ pendingIo = 0 /\ \A x \in Sessions : sess[x] # "new"
  <2>1. pendingIo = 0
    BY DEF IInv, PhaseInv, Before
  <2>2. QED
    BY <2>1, NoNewSession DEF IInv
<1> USE <1>3
<1>4. /\ mainPc' \in {"begin", "wait", "reset"} /\ closing' \in BOOLEAN
      /\ snapshot' \subseteq Sessions /\ begun' \subseteq snapshot'
      /\ sess' \in [Sessions -> SessionStates]
      /\ \A x \in Sessions : sess'[x] = "new" => sess[x] = "new"
      /\ SessionPhase'
  <2>1. CASE Collect
    <3>1. /\ mainPc' = "begin" /\ closing' = TRUE /\ sess' = sess /\ begun' = begun
          /\ snapshot' = {x \in Sessions : sess[x] # "free"}
      BY <2>1 DEF Collect, MainGoto
    <3>2. begun = {}
      BY <2>1 DEF Collect, IInv, SessionPhase
    <3>3. SessionPhase'
      BY <3>1 DEF SessionPhase, Before, Released
    <3>4. QED
      BY <3>1, <3>2, <3>3 DEF TypeOK
  <2>2. CASE BeginShutdown
    <3>1. /\ mainPc = "begin" /\ mainPc' \in {"begin", "wait"}
          /\ UNCHANGED <<closing, sess, snapshot>>
          /\ begun' \subseteq snapshot'
      BY <2>2, SMTT(30) DEF BeginShutdown, MainGoto, TypeOK
    <3>2. SessionPhase'
      BY <3>1 DEF IInv, SessionPhase, Before, Released
    <3>3. QED
      BY <3>1, <3>2 DEF TypeOK
  <2>3. CASE WaitForShutdown
    <3>1. /\ mainPc = "wait" /\ mainPc' = "reset" /\ UNCHANGED <<closing, snapshot, begun>>
          /\ \A x \in snapshot : sess[x] # "up"
          /\ sess' = [x \in Sessions |-> IF x \in snapshot /\ sess[x] = "quiet"
                                         THEN "free" ELSE sess[x]]
      BY <2>3 DEF WaitForShutdown, MainGoto
    <3> USE <3>1
    <3>2. \A x \in Sessions : sess'[x] = "free"
      BY DEF IInv, SessionPhase, TypeOK, SessionStates
    <3> USE <3>2
    <3>3. SessionPhase'
      BY DEF SessionPhase, Before, Released
    <3>4. sess' \in [Sessions -> SessionStates]
      BY DEF SessionStates
    <3>5. QED
      BY <3>3, <3>4 DEF TypeOK
  <2>4. QED
    BY <2>1, <2>2, <2>3
<1> USE <1>4
<1>5. Users' = Users => PhaseInv'
  BY <1>2 DEF IInv, PhaseInv, Before, Released
<1>6. mainPc' \in MainLabels /\ running' \in BOOLEAN /\ stopRequested' \in BOOLEAN
  BY DEF TypeOK, MainLabels
<1>7. QED
  BY <1>5, <1>6, MainQuietInv

\* The workers have ended, so that no thread is in the listener's code.
LEMMA JoinWorkersInv ==
    ASSUME IInv, JoinWorkers
    PROVE  IInv'
<1>1. /\ UNCHANGED <<listenVars, destroyed, svcVars, toStart, running, stopRequested,
                     serviceHolds, bg>>
      /\ mainPc = "joinWorkers" /\ mainPc' = "clear"
      /\ \A w \in Workers : pc[w] = "exited"
  BY DEF JoinWorkers, At, MainGoto
<1> USE <1>1
<1>2. UNCHANGED <<acceptStopped, pendingIo, timer, pc, sess, snapshot, begun, closing>>
  BY DEF listenVars, timerVars, locals, svcVars
<1> USE <1>2
<1>3. Users = {}
  BY MainIdle, Basics DEF Users, At
<1>4. Users' = Users => PhaseInv'
  BY <1>3 DEF IInv, PhaseInv, Before, Released
<1>5. SessionPhase'
  BY DEF IInv, SessionPhase, Before, Released
<1>6. /\ closing' \in BOOLEAN /\ sess' \in [Sessions -> SessionStates]
      /\ snapshot' \subseteq Sessions /\ begun' \subseteq snapshot'
      /\ mainPc' \in MainLabels /\ running' \in BOOLEAN /\ stopRequested' \in BOOLEAN
  BY DEF IInv, TypeOK, MainLabels
<1>7. QED
  BY <1>4, <1>5, <1>6, MainQuietInv

\* Listener::close_socket: under the lock no thread is posting a request.
LEMMA CloseSocketInv ==
    ASSUME IInv, CloseSocket
    PROVE  IInv'
<1>1. /\ mainPc = "closeSocket" /\ lock = Nobody /\ TypeOK
      /\ acceptStopped' = TRUE /\ mainPc' = "waitIo"
      /\ UNCHANGED <<lock, slotVars, pendingIo, timerVars, locals, abandoned,
                     destroyed, svcVars, toStart, running, stopRequested,
                     serviceHolds, bg>>
  BY DEF CloseSocket, CloseSocketLocked, MainGoto, IInv
<1> USE <1>1
<1>2. UNCHANGED <<posted, timer, queued, retrying, slot, pc, sess, snapshot, begun, slotOwner>>
  BY DEF slotVars, timerVars, locals, svcVars
<1> USE <1>2
<1>3. SlotInv'
  BY SlotSame DEF IInv
<1>4. ThreadInv' /\ OwnerInv' /\ CountInv' /\ NewInv' /\ Users' = Users
  BY MainFrame
<1>5. PhaseInv' /\ SessionPhase'
  BY DEF IInv, PhaseInv, SessionPhase, Before, Released
<1>6. DestroyInv'
  BY <1>4 DEF IInv, DestroyInv
<1>7. TypeOK'
  BY DEF TypeOK, MainLabels, slotVars, timerVars, locals, svcVars
<1>8. QED
  BY <1>3, <1>4, <1>5, <1>6, <1>7 DEF IInv

\* _listener.reset() after close_service.
LEMMA ResetListenerInv ==
    ASSUME IInv, ResetListener
    PROVE  IInv'
<1>1. /\ mainPc = "reset" /\ TypeOK /\ serviceHolds' = FALSE /\ mainPc' = "stopWorkers"
      /\ UNCHANGED <<listenVars, svcVars, toStart, running, stopRequested, bg>>
      /\ DestroyListener
  BY DEF ResetListener, MainGoto, IInv
<1> USE <1>1
<1>2. /\ UNCHANGED <<lock, slotVars, pendingIo, retrying, locals, toStart>>
      /\ UNCHANGED <<posted, timer, queued, slot, pc, abandoned, acceptStopped, slotOwner>>
      /\ UNCHANGED <<sess, snapshot, begun>>
  BY DEF listenVars, slotVars, timerVars, locals, svcVars
<1> USE <1>2
<1>3. SlotInv'
  BY SlotSame DEF IInv
<1>4. ThreadInv' /\ OwnerInv' /\ CountInv' /\ NewInv' /\ Users' = Users
  BY MainFrame
<1>5. PhaseInv' /\ SessionPhase'
  BY DEF IInv, PhaseInv, SessionPhase, Before, Released
<1>6. DestroyInv' /\ destroyed' \in BOOLEAN
  <2>1. ~destroyed
    BY DEF IInv, DestroyInv, PhaseInv, Released
  <2>2. destroyed' = ~(serviceHolds' \/ (\E s \in Slots : slotOwner'[s]) \/ Users' # {})
    BY <2>1 DEF DestroyListener
  <2>3. QED
    BY <2>2 DEF DestroyInv
<1>7. TypeOK'
  BY <1>6 DEF TypeOK, MainLabels, slotVars, locals, svcVars
<1>8. QED
  BY <1>3, <1>4, <1>5, <1>6, <1>7 DEF IInv

\* start_accept fails before its first slot: nothing refers to the listener but the
\* service, which lets it go.
LEMMA StartFailsInv ==
    ASSUME IInv, StartFails
    PROVE  IInv'
<1>1. /\ mainPc = "start" /\ toStart = Slots /\ TypeOK
      /\ acceptStopped' = TRUE /\ serviceHolds' = FALSE /\ mainPc' = "exit"
      /\ UNCHANGED <<lock, slotVars, pendingIo, timerVars, locals, abandoned, svcVars,
                     toStart, running, stopRequested, bg>>
      /\ DestroyListener
  BY DEF StartFails, MainGoto, IInv
<1> USE <1>1
<1>2. /\ UNCHANGED <<posted, timer, queued, retrying, slot, pc, slotOwner>>
      /\ UNCHANGED <<sess, snapshot, begun>>
  BY DEF slotVars, timerVars, locals, svcVars
<1> USE <1>2
<1>3. \A t \in Threads : pc[t] = "idle"
  BY Basics DEF IInv, ThreadInv, MainOK, PhaseInv
<1> USE <1>3
<1>4. \A s \in Slots : posted[s] = 0 /\ timer[s] = 0
  <2>1. \A s \in Slots : Accounted(s) = 0
    BY DEF IInv, SlotInv, SlotOK
  <2>2. \A s \in Slots : posted[s] \in Nat /\ timer[s] \in Nat /\ queued[s] \in Nat
    BY DEF TypeOK
  <2>3. QED
    BY <2>1, <2>2, SMTT(30) DEF Accounted
<1>5. \A s \in Slots : ~slotOwner[s] /\ slotSession[s] \notin Sessions
  BY <1>4, SMTT(30) DEF IInv, OwnerInv, OwnerOK, InUse
<1> USE <1>5
<1>6. pendingIo = 0
  <2>1. Owned = {} /\ Completing = {}
    BY Basics DEF Owned, Completing, IsCompleting
  <2>2. Cardinality({}) = 0
    BY FS_EmptySet
  <2>3. QED
    BY <2>1, <2>2, SMTT(30) DEF IInv, CountInv
<1>7. Users = {} /\ Users' = {}
  BY DEF Users, At
<1> USE <1>7
<1>8. \A x \in Sessions : sess[x] = "free"
  <2>1. \A x \in Sessions : sess[x] # "new"
    BY DEF IInv, NewInv
  <2>2. QED
    BY <2>1 DEF IInv, SessionPhase, Before, TypeOK, SessionStates
<1>9. SlotInv'
  BY SlotSame DEF IInv
<1>10. ThreadInv' /\ OwnerInv' /\ CountInv' /\ NewInv'
  <2>1. \A t \in Threads : pc[t] # "post"
    OBVIOUS
  <2>2. OwnerInv' /\ CountInv' /\ NewInv'
    BY SMTT(30) DEF IInv, OwnerInv, OwnerOK, InUse, CountInv, Owned, Completing,
       IsCompleting, NewInv, slotVars, locals
  <2>3. (\A t \in Threads : ThreadOK(t)') /\ RetryOK'
    BY <2>1 DEF IInv, ThreadInv, ThreadOK, RetryOK, slotVars, locals
  <2>4. MainOK'
    BY Basics DEF MainOK
  <2>5. QED
    BY <2>2, <2>3, <2>4 DEF ThreadInv
<1>11. PhaseInv'
  <2>1. ~running
    BY DEF IInv, PhaseInv
  <2>2. QED
    BY <1>4, <1>6, <2>1 DEF PhaseInv, Before, Released
<1>12. SessionPhase'
  BY <1>8 DEF SessionPhase, Before, Released
<1>13. DestroyInv' /\ destroyed'
  <2>1. destroyed'
    BY DEF DestroyListener
  <2>2. QED
    BY <2>1 DEF DestroyInv
<1>14. TypeOK'
  <2>1. destroyed' \in BOOLEAN
    BY DEF DestroyListener, TypeOK
  <2>2. QED
    BY <2>1 DEF TypeOK, MainLabels, slotVars, timerVars, locals, svcVars
<1>15. QED
  BY <1>9, <1>10, <1>11, <1>12, <1>13, <1>14 DEF IInv

\* JobTimer::clear, when no worker is left.
LEMMA ExitInv ==
    ASSUME IInv, Exit
    PROVE  IInv'
<1>1. /\ mainPc = "clear" /\ mainPc' = "exit" /\ timer' = [s \in Slots |-> 0] /\ TypeOK
      /\ UNCHANGED <<acceptStopped, lock, slotVars, pendingIo, queued, retrying,
                     locals, abandoned, destroyed, svcVars, toStart, running,
                     stopRequested, serviceHolds, bg>>
  BY DEF Exit, ClearTimer, MainGoto, IInv
<1> USE <1>1
<1>2. /\ UNCHANGED <<posted, slot, pc, slotOwner>> /\ UNCHANGED <<sess, snapshot, begun>>
  BY DEF slotVars, locals, svcVars
<1> USE <1>2
<1>3. acceptStopped
  BY DEF IInv, PhaseInv, Before
<1>4. ThreadInv' /\ OwnerInv' /\ CountInv' /\ NewInv' /\ Users' = Users
  BY MainFrame
<1> USE <1>4
<1>5. SlotInv'
  <2>1. ASSUME NEW s \in Slots PROVE SlotOK(s)'
    <3>1. SlotOK(s)
      BY DEF IInv, SlotInv
    <3>2. /\ posted[s] \in Nat /\ timer[s] \in Nat /\ queued[s] \in Nat
          /\ posted'[s] = posted[s] /\ queued'[s] = queued[s] /\ timer'[s] = 0
      BY DEF TypeOK
    <3>3. Accounted(s)' \in Nat /\ Accounted(s)' <= Accounted(s) /\ Accounted(s) \in Nat
      BY <3>2, SMTT(30) DEF Accounted
    <3>4. QED
      BY <1>3, <3>1, <3>3, SMTT(30) DEF SlotOK
  <2>2. QED
    BY <2>1 DEF SlotInv
<1>6. PhaseInv'
  BY DEF IInv, PhaseInv, Before, Released
<1>7. SessionPhase'
  BY DEF IInv, SessionPhase, Before, Released
<1>8. DestroyInv'
  BY DEF IInv, DestroyInv
<1>9. TypeOK'
  BY DEF TypeOK, MainLabels, slotVars, locals, svcVars
<1>10. QED
  BY <1>5, <1>6, <1>7, <1>8, <1>9 DEF IInv

-----------------------------------------------------------------------------
(* The theorems *)

\* main starts with every slot to be posted, and no other thread.
LEMMA InitInv ==
    ASSUME Init
    PROVE  IInv
<1>1. TypeOK
  BY Basics DEF Init, TypeOK, SessionStates, MainLabels, ThreadLabels
<1>2. \A s \in Slots : posted[s] = 0 /\ timer[s] = 0 /\ queued[s] = 0 /\ s \in toStart
  BY DEF Init
<1> USE <1>2
<1>3. \A t \in Threads : pc[t] = "idle" /\ slot[t] = Nobody /\ held[t] = Nobody
  BY DEF Init
<1> USE <1>3
<1>4. \A s \in Slots : ~slotOwner[s] /\ slotSession[s] = Nobody
  BY DEF Init
<1>5. SlotInv
  <2>1. \A s \in Slots : Accounted(s) = 0
    BY SMTT(30) DEF Accounted
  <2>2. QED
    BY <2>1, Basics, SMTT(30) DEF SlotInv, SlotOK
<1>6. ThreadInv
  BY Basics, ListenerAssumption DEF Init, ThreadInv, ThreadOK, MainOK, RetryOK
<1>7. OwnerInv
  BY <1>4, Basics, SMTT(30) DEF OwnerInv, OwnerOK, InUse
<1>8. CountInv
  <2>1. Owned = {} /\ Completing = {}
    BY <1>4, Basics DEF Owned, Completing, IsCompleting
  <2>2. Cardinality({}) = 0
    BY FS_EmptySet
  <2>3. QED
    BY <2>1, <2>2, SMTT(30) DEF Init, CountInv
<1>9. NewInv /\ SessionPhase
  BY DEF Init, NewInv, SessionPhase, Released
<1>10. Users = {}
  BY DEF Users, At
<1>11. PhaseInv
  BY Basics DEF Init, PhaseInv, Before, Released
<1>12. DestroyInv
  BY DEF Init, DestroyInv
<1>13. QED
  BY <1>1, <1>5, <1>6, <1>7, <1>8, <1>9, <1>11, <1>12 DEF IInv

\* Every step of every thread keeps the invariant.
LEMMA NextInv ==
    ASSUME IInv, [Next]_vars
    PROVE  IInv'
<1>1. CASE UNCHANGED vars
  <2>1. UNCHANGED <<listenVars, destroyed, toStart, serviceHolds, mainPc, running, sess,
                    snapshot, begun, stopRequested, closing, bg>>
    BY <1>1 DEF vars, svcVars, mainVars
  <2> USE <2>1
  <2>2. UNCHANGED <<acceptStopped, pendingIo, timer, pc>>
    BY DEF listenVars, timerVars, locals
  <2>3. Users' = Users => PhaseInv'
    BY <2>2 DEF IInv, PhaseInv
  <2>4. SessionPhase'
    BY SessionFrame DEF IInv
  <2>5. /\ mainPc' \in MainLabels /\ running' \in BOOLEAN /\ stopRequested' \in BOOLEAN
        /\ closing' \in BOOLEAN /\ sess' \in [Sessions -> SessionStates]
        /\ snapshot' \subseteq Sessions /\ begun' \subseteq snapshot'
    BY DEF IInv, TypeOK
  <2>6. mainPc = "start" => mainPc' = "start"
    OBVIOUS
  <2>7. QED
    BY <2>3, <2>4, <2>5, <2>6, MainQuietInv
<1>2. CASE Main
  <2>1. CASE \E s \in Slots : StartSlot(s)
    BY <2>1, StartSlotInv
  <2>2. CASE StartFails
    BY <2>2, StartFailsInv
  <2>3. CASE Started \/ Join \/ StopWorkers
    BY <2>3, MainGoesOnInv
  <2>4. CASE CloseSocket
    BY <2>4, CloseSocketInv
  <2>5. CASE WaitForIo
    BY <2>5, WaitForIoInv
  <2>6. CASE Collect \/ BeginShutdown \/ WaitForShutdown
    BY <2>6, CloseServiceInv
  <2>7. CASE ResetListener
    BY <2>7, ResetListenerInv
  <2>8. CASE JoinWorkers
    BY <2>8, JoinWorkersInv
  <2>9. CASE Exit
    BY <2>9, ExitInv
  <2>10. QED
    BY <1>2, <2>1, <2>2, <2>3, <2>4, <2>5, <2>6, <2>7, <2>8, <2>9 DEF Main
<1>3. CASE Quit
  BY <1>3, MainGoesOnInv
<1>4. ASSUME NEW t \in Threads, Listening(t) PROVE IInv'
  BY <1>4, RegisterAcceptInv, PostAcceptInv, ProcessAcceptInv, HandOverInv, FinishIoInv,
     ReturnInv DEF Listening
<1>5. CASE \E w \in Workers : WorkerExits(w)
  BY <1>5, WorkerExitsInv
<1>6. ASSUME NEW w \in Workers, NEW s \in Slots,
             Dispatch(w, s) \/ Distribute(w, s) \/ RetryJob(w, s)
      PROVE  IInv'
  BY <1>6, DispatchInv, DistributeInv, RetryGoneInv, RetryLocksInv
<1>7. CASE \E w \in Workers, x \in Sessions : SessionEnds(w, x)
  BY <1>7, SessionEndsInv
<1>8. CASE \E b \in Background : StopSignalWait(b) \/ Interval(b)
  BY <1>8, BackgroundInv
<1>9. QED
  BY <1>1, <1>2, <1>3, <1>4, <1>5, <1>6, <1>7, <1>8 DEF Next, Exited

\* The invariant holds in every state of the listener and of the shutdown.
THEOREM Invariant == Spec => []IInv
<1>1. Init => IInv
  BY InitInv
<1>2. IInv /\ [Next]_vars => IInv'
  BY NextInv
<1>3. QED
  BY <1>1, <1>2, PTL DEF Spec

\* The threads at a slot are none or one.
LEMMA ThreadsAt ==
    ASSUME IInv, NEW s \in Slots
    PROVE  /\ (\A t \in Threads : slot[t] # s) => Cardinality({t \in Threads : slot[t] = s}) = 0
           /\ (\E t \in Threads : slot[t] = s) => Cardinality({t \in Threads : slot[t] = s}) = 1
<1>1. ASSUME \A t \in Threads : slot[t] # s
      PROVE  Cardinality({t \in Threads : slot[t] = s}) = 0
  <2>1. {t \in Threads : slot[t] = s} = {}
    BY <1>1
  <2>2. QED
    BY <2>1, FS_EmptySet
<1>2. ASSUME NEW u \in Threads, slot[u] = s
      PROVE  Cardinality({t \in Threads : slot[t] = s}) = 1
  <2>1. \A t \in Threads : slot[t] = s => t = u
    BY <1>2 DEF IInv, SlotInv, SlotOK
  <2>2. {t \in Threads : slot[t] = s} = {u}
    BY <1>2, <2>1
  <2>3. QED
    BY <2>2, FS_Singleton
<1>3. QED
  BY <1>1, <1>2

\* Every AcceptEvent is in one place, whatever the order of completions, retries and
\* the close (Listener.cpp:111, 147, 158, 192, 199, 212): it has at most one request,
\* callback or retry; until the listener stops a started one has exactly one, unless
\* it was given up; and none is posted on the closed socket (Listener.cpp:77, 99-123).
THEOREM SlotsPlaced == Spec => []SlotPlaced
<1>1. ASSUME IInv PROVE SlotPlaced
  <2>1. ASSUME NEW s \in Slots
        PROVE  /\ Places(s) <= 1
               /\ ~acceptStopped /\ s \notin toStart \cup abandoned => Places(s) = 1
    <3>1. posted[s] \in Nat /\ timer[s] \in Nat /\ queued[s] \in Nat
      BY <1>1 DEF IInv, TypeOK
    <3>2. SlotOK(s)
      BY <1>1 DEF IInv, SlotInv
    <3> USE <3>2
    <3>3. Places(s) = Accounted(s) + Cardinality({t \in Threads : slot[t] = s})
      BY DEF Places, Accounted
    <3>4. CASE \E t \in Threads : slot[t] = s
      <4>1. Cardinality({t \in Threads : slot[t] = s}) = 1
        BY <1>1, <3>4, ThreadsAt
      <4>2. Accounted(s) = 0
        BY <3>4 DEF SlotOK
      <4>3. QED
        BY <3>3, <4>1, <4>2, SMTT(30)
    <3>5. CASE \A t \in Threads : slot[t] # s
      <4>1. Cardinality({t \in Threads : slot[t] = s}) = 0
        BY <1>1, <3>5, ThreadsAt
      <4>2. Accounted(s) <= 1 /\ Accounted(s) \in Nat
        BY <3>1, SMTT(30) DEF SlotOK, Accounted
      <4>3. ~acceptStopped /\ s \notin toStart \cup abandoned => Accounted(s) = 1
        BY <3>5 DEF SlotOK
      <4>4. QED
        BY <3>3, <4>1, <4>2, <4>3, SMTT(30)
    <3>6. QED
      BY <3>4, <3>5
  <2>2. acceptStopped => \A t \in Threads : pc[t] # "post"
    BY <1>1, SessionOf
  <2>3. QED
    BY <2>1, <2>2 DEF SlotPlaced
<1>2. QED
  BY <1>1, Invariant, PTL

\* ~Listener deletes the AcceptEvents after the last request and the last thread that
\* use them (Listener.cpp:160-166), and when main returns the listener and the sessions
\* are gone and the timer is empty (GameServer.cpp:187-194).
THEOREM NothingUsedAfterDestroy == Spec => []NoUseAfterDestroy
<1>1. ASSUME IInv PROVE NoUseAfterDestroy
  <2>1. ASSUME destroyed PROVE Users = {} /\ \A s \in Slots : posted[s] = 0
    <3>1. Users = {} /\ \A s \in Slots : ~slotOwner[s]
      BY <1>1, <2>1 DEF IInv, DestroyInv
    <3>2. \A s \in Slots : posted[s] \in Nat /\ ~(posted[s] > 0)
      BY <1>1, <3>1 DEF IInv, TypeOK, OwnerInv, OwnerOK, InUse
    <3>3. QED
      BY <3>1, <3>2, SMTT(30)
  <2>2. ASSUME mainPc = "exit"
        PROVE  /\ destroyed /\ \A x \in Sessions : sess[x] = "free"
               /\ \A s \in Slots : timer[s] = 0
    <3>1. /\ ~serviceHolds /\ Users = {} /\ pendingIo = 0
          /\ \A s \in Slots : timer[s] = 0
      BY <1>1, <2>2 DEF IInv, PhaseInv, Before, Released
    <3>2. destroyed
      BY <1>1, <3>1, NoPending DEF IInv, DestroyInv
    <3>3. \A x \in Sessions : sess[x] = "free"
      BY <1>1, <2>2 DEF IInv, SessionPhase, Released
    <3>4. QED
      BY <3>1, <3>2, <3>3
  <2>3. QED
    BY <2>1, <2>2 DEF NoUseAfterDestroy
<1>2. QED
  BY <1>1, Invariant, PTL

\* Only on_connected brings a session up.
LEMMA OnlyHandOver ==
    ASSUME IInv, Next, NEW x \in Sessions, sess'[x] = "up", sess[x] # "up"
    PROVE  \E t \in Threads : HandOver(t)
<1>1. sess \in [Sessions -> SessionStates]
  BY DEF IInv, TypeOK
<1> USE <1>1
<1>2. ASSUME NEW t \in Threads, RegisterAccept(t) PROVE FALSE
  BY <1>2 DEF RegisterAccept, RegisterStopped, CreateSession, CreateFails
<1>3. ASSUME NEW t \in Threads, PostAccept(t) PROVE FALSE
  BY <1>3 DEF PostAccept, AcceptExPending, AcceptExFails, Dispose
<1>4. ASSUME NEW t \in Threads, ProcessAccept(t) PROVE FALSE
  BY <1>4 DEF ProcessAccept, AcceptFailed, AcceptSucceeds, Dispose
<1>5. ASSUME NEW t \in Threads, FinishIo(t) \/ Return(t) PROVE FALSE
  BY <1>5 DEF FinishIo, Return, svcVars
<1>6. ASSUME NEW w \in Workers, NEW y \in Sessions, SessionEnds(w, y) PROVE FALSE
  BY <1>6 DEF SessionEnds
<1>7. ASSUME NEW w \in Workers, NEW s \in Slots,
             Dispatch(w, s) \/ Distribute(w, s) \/ RetryJob(w, s)
      PROVE  FALSE
  BY <1>7 DEF Dispatch, Distribute, RetryJob, svcVars
<1>8. ASSUME NEW w \in Workers, WorkerExits(w) PROVE FALSE
  BY <1>8 DEF WorkerExits, svcVars
<1>9. ASSUME NEW b \in Background, StopSignalWait(b) \/ Interval(b) PROVE FALSE
  BY <1>9 DEF StopSignalWait, Interval, svcVars
<1>10. ~WaitForShutdown
  BY DEF WaitForShutdown
<1>11. ~Collect /\ ~BeginShutdown
  BY DEF Collect, BeginShutdown
<1>12. \A s \in Slots : ~StartSlot(s)
  BY DEF StartSlot, svcVars
<1>13. ~StartFails /\ ~Started /\ ~Join /\ ~CloseSocket /\ ~WaitForIo
  BY DEF StartFails, Started, Join, CloseSocket, WaitForIo, svcVars
<1>14. ~ResetListener /\ ~StopWorkers /\ ~JoinWorkers /\ ~Exit
  BY DEF ResetListener, StopWorkers, JoinWorkers, Exit, svcVars
<1>15. ~Quit /\ ~Exited
  BY DEF Quit, Exited, vars, svcVars
<1>16. QED
  BY <1>2, <1>3, <1>4, <1>5, <1>6, <1>7, <1>8, <1>9, <1>10, <1>11, <1>12, <1>13, <1>14,
     <1>15 DEF Next, Main, Listening

\* A session on which begin_shutdown was called is never brought up afterwards
\* (Listener.cpp:206, Service.cpp:40): the callback that would do it is pending, and
\* close_service begins when nothing is.
THEOREM HandOverBeforeShutdown == Spec => NoHandOverAfterShutdown
<1>1. ASSUME IInv, Next, NEW x \in Sessions, x \in begun, sess'[x] = "up"
      PROVE  sess[x] = "up"
  <2>1. SUFFICES ASSUME sess[x] # "up" PROVE FALSE
    OBVIOUS
  <2>2. PICK t \in Threads : HandOver(t)
    BY <1>1, <2>1, OnlyHandOver
  <2>3. mainPc \in Before \cup {"waitIo"}
    BY <1>1, <2>2, HandOverInv
  <2>4. QED
    BY <1>1, <2>3 DEF IInv, SessionPhase
<1>2. IInv /\ [Next]_vars =>
          [\A x \in Sessions : x \in begun /\ sess'[x] = "up" => sess[x] = "up"]_vars
  BY <1>1
<1>3. QED
  BY <1>2, Invariant, PTL DEF Spec, NoHandOverAfterShutdown
=============================================================================
