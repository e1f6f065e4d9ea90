--------------------------- MODULE JobQueueProofs ---------------------------
(***************************************************************************)
(* The safety of JobQueue for any number of workers, other threads, queues *)
(* and jobs.  The inductive invariant IndInv joins the type invariant, the *)
(* shape of the activation frames and the three facts that hold each other *)
(* up: one responsible party per queue, no queue twice in the global       *)
(* queue, and the exact meaning of _jobCount.  OrderInv adds that every    *)
(* job is at one place (JobOnce), from which follows that JobQueue         *)
(* implements SerialExecutor, up to the latter's fairness.                 *)
(***************************************************************************)
EXTENDS JobQueue, TLAPS, FiniteSetTheorems

\* An idle frame names no queue; the other frames hold what their step uses.
FramesOK ==
    \A t \in Threads :
        /\ pushing[t].pc = "idle" <=> pushing[t].q = NoQueue
        /\ pushing[t].pc = "append" => pushing[t].job # NoJob
        /\ pushing[t].pc = "handover" => pushing[t].prev = 0
        /\ executing[t].pc = "idle" <=> executing[t].q = NoQueue
        /\ executing[t].pc \in {"pop", "check"} => executing[t].n = 0
        /\ executing[t].pc = "job" => executing[t].batch # <<>>

CoreInv == FramesOK /\ OneResponsible /\ GlobalQueueDistinct /\ CountExact

IndInv == TypeOK /\ CoreInv

-----------------------------------------------------------------------------
(* Facts about the global queue as a sequence *)

LEMMA ContainsAppend ==
    ASSUME NEW S, NEW s \in Seq(S), NEW x \in S, NEW y
    PROVE  Contains(Append(s, x), y) <=> Contains(s, y) \/ y = x
  BY DEF Contains

LEMMA DistinctAppend ==
    ASSUME NEW S, NEW s \in Seq(S), NEW x \in S, ~Contains(s, x),
           \A i, j \in 1..Len(s) : s[i] = s[j] => i = j
    PROVE  \A i, j \in 1..Len(Append(s, x)) :
               Append(s, x)[i] = Append(s, x)[j] => i = j
  BY DEF Contains

LEMMA ContainsTail ==
    ASSUME NEW S, NEW s \in Seq(S), s # <<>>, NEW y,
           \A i, j \in 1..Len(s) : s[i] = s[j] => i = j
    PROVE  /\ Tail(s) \in Seq(S)
           /\ Head(s) \in S /\ Contains(s, Head(s))
           /\ Contains(Tail(s), y) <=> Contains(s, y) /\ y # Head(s)
           /\ \A i, j \in 1..Len(Tail(s)) : Tail(s)[i] = Tail(s)[j] => i = j
<1>1. /\ Len(s) \in Nat /\ Len(s) >= 1 /\ Head(s) = s[1]
      /\ Len(Tail(s)) = Len(s) - 1
      /\ \A i \in 1..Len(Tail(s)) : Tail(s)[i] = s[i + 1]
  OBVIOUS
<1>2. Contains(Tail(s), y) => Contains(s, y) /\ y # Head(s)
  BY <1>1 DEF Contains
<1>3. ASSUME Contains(s, y), y # Head(s) PROVE Contains(Tail(s), y)
  <2>1. PICK i \in 1..Len(s) : s[i] = y
    BY <1>3, Zenon DEF Contains
  <2>2. i - 1 \in 1..Len(Tail(s)) /\ Tail(s)[i - 1] = s[i]
    BY <1>1, <1>3, <2>1
  <2> QED BY <2>1, <2>2 DEF Contains
<1>4. \A i, j \in 1..Len(Tail(s)) : Tail(s)[i] = Tail(s)[j] => i = j
  BY <1>1
<1> QED BY <1>1, <1>2, <1>3, <1>4 DEF Contains

-----------------------------------------------------------------------------
(* Counting the threads between fetch_add and _jobs.push *)

LEMMA AppendingFinite ==
    ASSUME NEW q \in Queues
    PROVE  /\ IsFiniteSet(Appending(q)) /\ Cardinality(Appending(q)) \in Nat
           /\ IsFiniteSet(Appending(q)') /\ Cardinality(Appending(q)') \in Nat
<1>1. IsFiniteSet(Threads)
  BY JobQueueAssumption, FS_Union, Zenon DEF Threads
<1> QED BY <1>1, FS_Subset, FS_CardinalityType DEF Appending

LEMMA CardinalityGrows ==
    ASSUME NEW q \in Queues, NEW t, t \notin Appending(q),
           Appending(q)' = Appending(q) \cup {t}
    PROVE  Cardinality(Appending(q)') = Cardinality(Appending(q)) + 1
  BY AppendingFinite, FS_AddElement, Zenon

LEMMA CardinalityShrinks ==
    ASSUME NEW q \in Queues, NEW t, t \in Appending(q),
           Appending(q)' = Appending(q) \ {t}
    PROVE  Cardinality(Appending(q)') = Cardinality(Appending(q)) - 1
  BY AppendingFinite, FS_RemoveElement, Zenon

-----------------------------------------------------------------------------
(* Steps that leave the queues and the activation frames alone *)

coreVars == <<jobs, jobCount, globalQueue, pushing, executing>>

LEMMA CoreUnchanged == CoreInv /\ UNCHANGED coreVars => CoreInv'
<1> SUFFICES ASSUME CoreInv, UNCHANGED coreVars PROVE CoreInv'
  BY Zenon
<1> USE DEF CoreInv, coreVars
<1>1. FramesOK'
  BY Zenon DEF FramesOK
<1>2. \A q \in Queues : InGlobal(q)' = InGlobal(q) /\ Appending(q)' = Appending(q)
  BY Zenon DEF InGlobal, Contains, Appending
<1>3. OneResponsible'
  BY <1>2 DEF OneResponsible, OneResponsibleFor, Responsible
<1>4. GlobalQueueDistinct'
  BY Zenon DEF GlobalQueueDistinct
<1>5. CountExact'
  BY <1>2, Zenon DEF CountExact, CountExactFor
<1> QED BY <1>1, <1>3, <1>4, <1>5

-----------------------------------------------------------------------------
(* What a step must keep for one queue *)

\* The responsibility for p stays where it is.
LEMMA SameParty ==
    ASSUME NEW p \in Queues, OneResponsibleFor(p),
           \A u \in Threads : executing'[u].q = p <=> executing[u].q = p,
           \A u \in Threads : pushing'[u].q = p /\ pushing'[u].prev = 0
                              <=> pushing[u].q = p /\ pushing[u].prev = 0,
           InGlobal(p)' <=> InGlobal(p),
           jobCount'[p] = 0 <=> jobCount[p] = 0
    PROVE  OneResponsibleFor(p)'
<1>1. \A u \in Threads : Responsible(u, p)' <=> Responsible(u, p)
  BY Zenon DEF Responsible
<1> QED BY <1>1 DEF OneResponsibleFor

\* The count of p and what it counts stay the same.
LEMMA SameCount ==
    ASSUME NEW p \in Queues, CountExactFor(p),
           \A u \in Threads : executing'[u].q = p <=> executing[u].q = p,
           \A u \in Threads : executing[u].q = p => executing'[u].n = executing[u].n,
           jobCount'[p] = jobCount[p],
           Len(jobs'[p]) + Cardinality(Appending(p)')
               = Len(jobs[p]) + Cardinality(Appending(p))
    PROVE  CountExactFor(p)'
<1>1. ASSUME NEW u \in Threads, executing'[u].q = p
      PROVE  jobCount'[p] = Len(jobs'[p]) + Cardinality(Appending(p)') + executing'[u].n
  BY <1>1, Zenon DEF CountExactFor
<1>2. ASSUME \A u \in Threads : executing'[u].q # p
      PROVE  jobCount'[p] = Len(jobs'[p]) + Cardinality(Appending(p)')
  BY <1>2, Zenon DEF CountExactFor
<1> QED BY <1>1, <1>2 DEF CountExactFor

\* With one executor the two cases of CountExactFor become one equation.
LEMMA CountOf ==
    ASSUME NEW p \in Queues, NEW t \in Threads, IndInv, executing[t].q = p
    PROVE  /\ jobCount[p] = Len(jobs[p]) + Cardinality(Appending(p)) + executing[t].n
           /\ \A u \in Threads : executing[u].q = p => u = t
  BY DEF IndInv, CoreInv, CountExact, CountExactFor, OneResponsible,
         OneResponsibleFor, Responsible

-----------------------------------------------------------------------------
(* The steps of push *)

LEMMA FetchAddStep ==
    ASSUME IndInv, NEW t \in Threads, NEW q \in Queues, NEW j \in Jobs,
           NEW only \in BOOLEAN, pushing[t].pc = "idle",
           FetchAdd(t, q, j, only), UNCHANGED <<jobs, globalQueue, executing>>
    PROVE  /\ CoreInv'
           /\ pushing' \in [Threads -> PushFrame]
           /\ jobCount' \in [Queues -> Nat]
<1> USE DEF IndInv, CoreInv
<1>1. /\ pushing' = [pushing EXCEPT ![t] = [pc |-> "append", q |-> q, job |-> j,
                                            only |-> only, prev |-> jobCount[q]]]
      /\ jobCount' = [jobCount EXCEPT ![q] = @ + 1]
      /\ jobs' = jobs /\ globalQueue' = globalQueue /\ executing' = executing
      /\ NoQueue \notin Queues /\ NoJob \notin Jobs
  BY JobQueueAssumption, Zenon DEF FetchAdd
<1>2. /\ pushing' \in [Threads -> PushFrame]
      /\ jobCount' \in [Queues -> Nat]
  BY <1>1 DEF TypeOK, PushFrame
<1>3. FramesOK'
  BY <1>1 DEF FramesOK, TypeOK
<1>4. \A p \in Queues : InGlobal(p)' = InGlobal(p)
  BY <1>1, Zenon DEF InGlobal, Contains
<1>5. pushing[t].q = NoQueue
  BY Zenon DEF FramesOK
<1>6. OneResponsible'
  <2>1. \A p \in Queues, u \in Threads :
            Responsible(u, p)' <=> Responsible(u, p)
                                   \/ (u = t /\ p = q /\ jobCount[q] = 0)
    BY <1>1, <1>5, Zenon DEF Responsible, TypeOK
  <2>2. \A p \in Queues : jobCount'[p] = IF p = q THEN jobCount[p] + 1 ELSE jobCount[p]
    BY <1>1, Zenon DEF TypeOK
  <2>3. \A p \in Queues, u \in Threads :
           executing'[u].q = p /\ pushing'[u].q = p /\ pushing'[u].prev = 0
           => executing[u].q = p /\ Responsible(u, p)
              /\ ((pushing[u].q = p /\ pushing[u].prev = 0) \/ (p = q /\ jobCount[q] = 0))
    BY <1>1, Zenon DEF TypeOK, Responsible
  <2> SUFFICES ASSUME NEW p \in Queues PROVE OneResponsibleFor(p)'
    BY Zenon DEF OneResponsible
  <2>4. OneResponsibleFor(p) /\ jobCount[p] \in Nat
    BY Zenon DEF OneResponsible, TypeOK
  <2>5. CASE p # q
    BY <1>4, <2>1, <2>2, <2>3, <2>4, <2>5 DEF OneResponsibleFor
  <2>6. CASE p = q
    BY <1>4, <2>1, <2>2, <2>3, <2>4, <2>6 DEF OneResponsibleFor
  <2> QED BY <2>5, <2>6
<1>7. GlobalQueueDistinct'
  BY <1>1, Zenon DEF GlobalQueueDistinct
<1>8. CountExact'
  <2>1. t \notin Appending(q) /\ Appending(q)' = Appending(q) \cup {t}
    BY <1>1 DEF Appending, TypeOK
  <2>2. \A p \in Queues \ {q} : Appending(p)' = Appending(p)
    BY <1>1, Zenon DEF Appending, TypeOK
  <2>3. Cardinality(Appending(q)') = Cardinality(Appending(q)) + 1
    BY <2>1, CardinalityGrows, Zenon
  <2> SUFFICES ASSUME NEW p \in Queues PROVE CountExactFor(p)'
    BY Zenon DEF CountExact
  <2>4. /\ CountExactFor(p) /\ Len(jobs[p]) \in Nat
        /\ \A u \in Threads : executing[u].n \in Nat
        /\ jobCount'[p] = IF p = q THEN jobCount[p] + 1 ELSE jobCount[p]
    BY <1>1 DEF CountExact, TypeOK, ExecFrame
  <2>5. /\ Cardinality(Appending(p)) \in Nat
        /\ Cardinality(Appending(p)') = Cardinality(Appending(p)) + (IF p = q THEN 1 ELSE 0)
    <3>1. CASE p = q
      BY <2>3, <3>1, AppendingFinite, Zenon
    <3>2. CASE p # q
      BY <2>2, <3>2, AppendingFinite
    <3> QED BY <3>1, <3>2
  <2>6. ASSUME NEW u \in Threads, executing'[u].q = p
        PROVE  jobCount'[p] = Len(jobs'[p]) + Cardinality(Appending(p)') + executing'[u].n
    <3>1. jobCount[p] = Len(jobs[p]) + Cardinality(Appending(p)) + executing[u].n
      BY <1>1, <2>4, <2>6, Zenon DEF CountExactFor
    <3>2. jobs'[p] = jobs[p] /\ executing'[u].n = executing[u].n /\ jobCount[p] \in Nat
      BY <1>1, Zenon DEF TypeOK
    <3> HIDE DEF IndInv, CoreInv
    <3> QED BY <2>4, <2>5, <3>1, <3>2
  <2>7. ASSUME \A u \in Threads : executing'[u].q # p
        PROVE  jobCount'[p] = Len(jobs'[p]) + Cardinality(Appending(p)')
    BY <1>1, <2>4, <2>5, <2>7, SMTT(30) DEF CountExactFor
  <2> QED BY <2>6, <2>7 DEF CountExactFor
<1> QED BY <1>2, <1>3, <1>6, <1>7, <1>8

LEMMA AppendJobStep ==
    ASSUME IndInv, NEW t \in Threads, AppendJob(t)
    PROVE  IndInv'
<1> USE DEF IndInv, CoreInv
<1> DEFINE f == pushing[t]
           g == IF f.prev = 0 THEN [f EXCEPT !.pc = "handover"] ELSE NoPush
<1>1. /\ f.pc = "append" /\ f \in PushFrame /\ f.q \in Queues /\ f.job \in Jobs
      /\ NoQueue \notin Queues
  BY JobQueueAssumption, Zenon DEF AppendJob, FirstPusher, FramesOK, TypeOK, PushFrame
<1>2. /\ jobs' = [jobs EXCEPT ![f.q] = Append(@, f.job)]
      /\ pushing' = [pushing EXCEPT ![t] = g]
      /\ UNCHANGED <<jobCount, globalQueue, executing>>
  BY Zenon DEF AppendJob, FirstPusher
<1>3. /\ g \in PushFrame
      /\ g.pc = "idle" <=> g.q = NoQueue
      /\ g.pc # "append"
      /\ g.pc = "handover" => g.prev = 0
      /\ g.q \in Queues => g.q = f.q
      /\ g.q \in Queues /\ g.prev = 0 <=> f.prev = 0
  BY <1>1, Zenon DEF PushFrame, NoPush
<1>4. TypeOK'
  <2>1. jobs' \in [Queues -> Seq(Jobs)] /\ pushing' \in [Threads -> PushFrame]
    BY <1>1, <1>2, <1>3 DEF TypeOK
  <2>2. UNCHANGED <<jobCount, globalQueue, timerItems, distributing, due, alive, phase, busy,
                    executing, created, ran>>
    BY <1>2, Zenon DEF AppendJob, timerVars, loopVars
  <2>3. TypeOK
    BY Zenon
  <2> HIDE DEF IndInv, CoreInv
  <2> QED BY <2>1, <2>2, <2>3 DEF TypeOK
<1>5. FramesOK'
  BY <1>2, <1>3, Zenon DEF FramesOK, TypeOK
<1>6. GlobalQueueDistinct'
  BY <1>2, Zenon DEF GlobalQueueDistinct
<1>7. ASSUME NEW p \in Queues PROVE OneResponsibleFor(p)'
  <2>1. \A u \in Threads : pushing'[u].q = p /\ pushing'[u].prev = 0
                           <=> pushing[u].q = p /\ pushing[u].prev = 0
    BY <1>1, <1>2, <1>3, Zenon DEF TypeOK
  <2>2. InGlobal(p)' = InGlobal(p)
    BY <1>2, Zenon DEF InGlobal, Contains
  <2> QED BY <1>2, <2>1, <2>2, SameParty DEF OneResponsible
<1>8. ASSUME NEW p \in Queues PROVE CountExactFor(p)'
  <2>1. Len(jobs[p]) \in Nat /\ Cardinality(Appending(p)) \in Nat
    BY AppendingFinite DEF TypeOK
  <2>2. Len(jobs'[p]) + Cardinality(Appending(p)')
            = Len(jobs[p]) + Cardinality(Appending(p))
    <3>1. CASE p = f.q
      <4>1. t \in Appending(p) /\ Appending(p)' = Appending(p) \ {t}
        BY <1>1, <1>2, <1>3, <3>1, Zenon DEF Appending, TypeOK
      <4>2. Cardinality(Appending(p)') = Cardinality(Appending(p)) - 1
        BY <4>1, CardinalityShrinks, Zenon
      <4>3. Len(jobs'[p]) = Len(jobs[p]) + 1
        BY <1>1, <1>2, <3>1 DEF TypeOK
      <4> QED BY <2>1, <4>2, <4>3
    <3>2. CASE p # f.q
      <4>1. Appending(p)' = Appending(p)
        BY <1>1, <1>2, <1>3, <3>2, Zenon DEF Appending, TypeOK
      <4>2. jobs'[p] = jobs[p]
        BY <1>1, <1>2, <3>2, Zenon DEF TypeOK
      <4> QED BY <4>1, <4>2
    <3> QED BY <3>1, <3>2
  <2> QED BY <1>2, <2>2, SameCount DEF CountExact
<1> QED BY <1>4, <1>5, <1>6, <1>7, <1>8 DEF OneResponsible, CountExact

LEMMA ExecuteInlineStep ==
    ASSUME IndInv, NEW t \in Threads, ExecuteInline(t)
    PROVE  IndInv'
<1> USE DEF IndInv, CoreInv
<1> DEFINE f == pushing[t]
<1>1. /\ f.pc = "handover" /\ f.q \in Queues /\ f.prev = 0
      /\ executing[t].q = NoQueue /\ NoQueue \notin Queues
  BY JobQueueAssumption, Zenon
     DEF ExecuteInline, LCurrentJobQueue, FramesOK, TypeOK, PushFrame
<1>2. /\ executing' = [executing EXCEPT ![t] = StartExec(f.q)]
      /\ pushing' = [pushing EXCEPT ![t] = NoPush]
      /\ UNCHANGED <<jobs, jobCount, globalQueue>>
  BY Zenon DEF ExecuteInline, queueVars
<1>3. StartExec(f.q) \in ExecFrame /\ NoPush \in PushFrame
  BY <1>1 DEF StartExec, ExecFrame, NoPush, PushFrame
<1>4. TypeOK'
  BY <1>2, <1>3 DEF TypeOK, ExecuteInline, timerVars, loopVars
<1>5. FramesOK'
  BY <1>1, <1>2 DEF FramesOK, TypeOK, StartExec, NoPush
<1>6. GlobalQueueDistinct'
  BY <1>2, Zenon DEF GlobalQueueDistinct
<1>7. ASSUME NEW p \in Queues PROVE OneResponsibleFor(p)'
  <2>1. InGlobal(p)' = InGlobal(p) /\ jobCount'[p] = jobCount[p]
    BY <1>2, Zenon DEF InGlobal, Contains
  <2>2. \A u \in Threads : Responsible(u, p)' <=> Responsible(u, p)
    BY <1>1, <1>2, Zenon DEF Responsible, TypeOK, StartExec, NoPush
  <2>3. \A u \in Threads :
            executing'[u].q = p /\ pushing'[u].q = p /\ pushing'[u].prev = 0
            => executing[u].q = p /\ pushing[u].q = p /\ pushing[u].prev = 0
    BY <1>1, <1>2, Zenon DEF TypeOK, StartExec, NoPush
  <2> QED BY <2>1, <2>2, <2>3 DEF OneResponsible, OneResponsibleFor
<1>8. ASSUME NEW p \in Queues PROVE CountExactFor(p)'
  <2>1. Appending(p)' = Appending(p) /\ jobs'[p] = jobs[p] /\ jobCount'[p] = jobCount[p]
    BY <1>1, <1>2, Zenon DEF Appending, TypeOK, NoPush
  <2>2. Len(jobs[p]) \in Nat /\ Cardinality(Appending(p)) \in Nat /\ CountExactFor(p)
    BY AppendingFinite DEF TypeOK, CountExact
  <2>3. p = f.q => \A u \in Threads : executing[u].q # p
    BY <1>1, Zenon DEF OneResponsible, OneResponsibleFor, Responsible
  <2>4. ASSUME NEW u \in Threads, executing'[u].q = p
        PROVE  jobCount'[p] = Len(jobs'[p]) + Cardinality(Appending(p)') + executing'[u].n
    <3>1. CASE u = t
      BY <1>2, <2>1, <2>2, <2>3, <2>4, <3>1 DEF CountExactFor, TypeOK, StartExec
    <3>2. CASE u # t
      BY <1>2, <2>1, <2>2, <2>4, <3>2 DEF CountExactFor, TypeOK
    <3> QED BY <3>1, <3>2
  <2>5. ASSUME \A u \in Threads : executing'[u].q # p
        PROVE  jobCount'[p] = Len(jobs'[p]) + Cardinality(Appending(p)')
    BY <1>1, <1>2, <2>1, <2>2, <2>5 DEF CountExactFor, TypeOK, StartExec
  <2> QED BY <2>4, <2>5 DEF CountExactFor
<1> QED BY <1>4, <1>5, <1>6, <1>7, <1>8 DEF OneResponsible, CountExact

LEMMA HandOverStep ==
    ASSUME IndInv, NEW t \in Threads, HandOver(t)
    PROVE  IndInv'
<1> USE DEF IndInv, CoreInv
<1> DEFINE f == pushing[t]
<1>1. /\ f.pc = "handover" /\ f.q \in Queues /\ f.prev = 0 /\ NoQueue \notin Queues
      /\ Responsible(t, f.q)
  BY JobQueueAssumption, Zenon DEF HandOver, FramesOK, TypeOK, PushFrame, Responsible
<1>2. /\ globalQueue' = Append(globalQueue, f.q)
      /\ pushing' = [pushing EXCEPT ![t] = NoPush]
      /\ UNCHANGED <<jobs, jobCount, executing>>
  BY Zenon DEF HandOver
<1>3. globalQueue \in Seq(Queues) /\ ~InGlobal(f.q)
  BY <1>1, Zenon DEF TypeOK, OneResponsible, OneResponsibleFor
<1>4. TypeOK'
  BY <1>1, <1>2 DEF TypeOK, HandOver, timerVars, loopVars, NoPush, PushFrame
<1>5. FramesOK'
  BY <1>1, <1>2, Zenon DEF FramesOK, TypeOK, NoPush
<1>6. GlobalQueueDistinct'
  <2>1. \A i, j \in 1..Len(Append(globalQueue, f.q)) :
            Append(globalQueue, f.q)[i] = Append(globalQueue, f.q)[j] => i = j
    BY <1>1, <1>3, DistinctAppend DEF GlobalQueueDistinct, InGlobal
  <2> QED BY <1>2, <2>1 DEF GlobalQueueDistinct
<1>7. ASSUME NEW p \in Queues PROVE OneResponsibleFor(p)'
  <2>1. InGlobal(p)' <=> InGlobal(p) \/ p = f.q
    BY <1>1, <1>2, <1>3, ContainsAppend DEF InGlobal
  <2>2. OneResponsibleFor(p) /\ jobCount'[p] = jobCount[p]
    BY <1>2, Zenon DEF OneResponsible
  <2>3. CASE p = f.q
    <3>1. \A u \in Threads : executing[u].q # p
      BY <1>1, <2>2, <2>3, Zenon DEF OneResponsibleFor, Responsible
    <3>2. \A u \in Threads : ~Responsible(u, p)'
      BY <1>1, <1>2, <2>2, <2>3, <3>1, Zenon DEF OneResponsibleFor, Responsible, TypeOK, NoPush
    <3>3. jobCount[p] # 0
      BY <1>1, <2>2, <2>3, Zenon DEF OneResponsibleFor
    <3> QED BY <1>2, <2>1, <2>2, <2>3, <3>1, <3>2, <3>3 DEF OneResponsibleFor
  <2>4. CASE p # f.q
    <3>1. \A u \in Threads : pushing'[u].q = p /\ pushing'[u].prev = 0
                             <=> pushing[u].q = p /\ pushing[u].prev = 0
      BY <1>1, <1>2, <2>4 DEF TypeOK, NoPush
    <3> QED BY <1>2, <2>1, <2>2, <2>4, <3>1, SameParty
  <2> QED BY <2>3, <2>4
<1>8. ASSUME NEW p \in Queues PROVE CountExactFor(p)'
  <2>1. Appending(p)' = Appending(p)
    BY <1>1, <1>2, Zenon DEF Appending, TypeOK, NoPush
  <2> QED BY <1>2, <2>1, SameCount DEF CountExact
<1> QED BY <1>4, <1>5, <1>6, <1>7, <1>8 DEF OneResponsible, CountExact

-----------------------------------------------------------------------------
(* The steps of execute *)

\* A step inside execute that changes neither its queue nor its count.
LEMMA SameExecution ==
    ASSUME IndInv, NEW t \in Threads, NEW h \in ExecFrame,
           h.q = executing[t].q, h.n = executing[t].n,
           executing' = [executing EXCEPT ![t] = h],
           UNCHANGED <<jobs, jobCount, globalQueue, pushing>>
    PROVE  /\ executing' \in [Threads -> ExecFrame]
           /\ OneResponsible' /\ GlobalQueueDistinct' /\ CountExact'
<1> USE DEF IndInv, CoreInv
<1>1. /\ executing' \in [Threads -> ExecFrame]
      /\ \A u \in Threads : executing'[u].q = executing[u].q
                            /\ executing'[u].n = executing[u].n
  BY Zenon DEF TypeOK
<1>2. \A p \in Queues : InGlobal(p)' = InGlobal(p) /\ Appending(p)' = Appending(p)
  BY Zenon DEF InGlobal, Contains, Appending
<1>3. OneResponsible'
  BY <1>1, <1>2, SameParty, Zenon DEF OneResponsible
<1>4. CountExact'
  BY <1>1, <1>2, SameCount, Zenon DEF CountExact
<1> QED BY <1>1, <1>3, <1>4 DEF GlobalQueueDistinct

LEMMA StartJobStep ==
    ASSUME IndInv, NEW t \in Threads, StartJob(t)
    PROVE  IndInv'
<1> USE DEF IndInv, CoreInv
<1> DEFINE e == executing[t]
           h == [e EXCEPT !.pc = "job"]
<1>1. /\ e.pc = "run" /\ e.batch # <<>> /\ e \in ExecFrame
      /\ executing' = [executing EXCEPT ![t] = h]
      /\ UNCHANGED <<jobs, jobCount, globalQueue, pushing>>
  BY Zenon DEF StartJob, queueVars, TypeOK
<1>2. h \in ExecFrame /\ h.pc = "job" /\ h.q = e.q /\ h.n = e.n /\ h.batch = e.batch
  BY <1>1, Zenon DEF ExecFrame
<1>3. /\ executing' \in [Threads -> ExecFrame]
      /\ OneResponsible' /\ GlobalQueueDistinct' /\ CountExact'
  BY <1>1, <1>2, SameExecution, Zenon
<1>4. TypeOK'
  BY <1>1, <1>3, Zenon DEF TypeOK, StartJob, timerVars, queueVars
<1>5. FramesOK'
  BY <1>1, <1>2 DEF FramesOK, TypeOK
<1> QED BY <1>3, <1>4, <1>5

LEMMA FinishJobStep ==
    ASSUME IndInv, NEW t \in Threads, FinishJob(t)
    PROVE  IndInv'
<1> USE DEF IndInv, CoreInv
<1> DEFINE e == executing[t]
           h == [e EXCEPT !.pc = "run", !.batch = Tail(e.batch)]
<1>1. /\ e.pc = "job" /\ e.batch # <<>> /\ e \in ExecFrame /\ e.q \in Queues
      /\ executing' = [executing EXCEPT ![t] = h]
      /\ ran' = [ran EXCEPT ![e.q] = Append(@, Head(e.batch))]
      /\ UNCHANGED <<jobs, jobCount, globalQueue, pushing>>
  BY Zenon DEF FinishJob, queueVars, TypeOK, FramesOK, ExecFrame
<1>2. /\ h \in ExecFrame /\ h.pc = "run" /\ h.q = e.q /\ h.n = e.n
      /\ Head(e.batch) \in Jobs
  <2>1. e.batch \in Seq(Jobs)
    BY <1>1, Zenon DEF ExecFrame
  <2>2. Tail(e.batch) \in Seq(Jobs) /\ Head(e.batch) \in Jobs
    BY <1>1, <2>1
  <2> QED BY <1>1, <2>2, Zenon DEF ExecFrame
<1>3. /\ executing' \in [Threads -> ExecFrame]
      /\ OneResponsible' /\ GlobalQueueDistinct' /\ CountExact'
  BY <1>1, <1>2, SameExecution, Zenon
<1>4. ran' \in [Queues -> Seq(Jobs)]
  BY <1>1, <1>2 DEF TypeOK
<1>5. TypeOK'
  <2>1. UNCHANGED <<jobs, jobCount, globalQueue, timerItems, distributing, due, alive, phase, busy,
                    pushing, created>>
    BY <1>1, Zenon DEF FinishJob, timerVars, queueVars, loopVars
  <2>2. TypeOK
    BY Zenon
  <2> HIDE DEF IndInv, CoreInv
  <2> QED BY <1>3, <1>4, <2>1, <2>2 DEF TypeOK
<1>6. FramesOK'
  BY <1>1, <1>2, Zenon DEF FramesOK, TypeOK
<1> QED BY <1>3, <1>5, <1>6

LEMMA LoopAgainStep ==
    ASSUME IndInv, NEW t \in Threads, LoopAgain(t)
    PROVE  IndInv'
<1> USE DEF IndInv, CoreInv
<1> DEFINE e == executing[t]
           h == [e EXCEPT !.pc = "pop"]
<1>1. /\ e.pc = "check" /\ e \in ExecFrame
      /\ executing' = [executing EXCEPT ![t] = h]
      /\ UNCHANGED <<jobs, jobCount, globalQueue, pushing>>
  BY Zenon DEF LoopAgain, queueVars, TypeOK
<1>2. h \in ExecFrame /\ h.pc = "pop" /\ h.q = e.q /\ h.n = e.n
  BY <1>1, Zenon DEF ExecFrame
<1>3. /\ executing' \in [Threads -> ExecFrame]
      /\ OneResponsible' /\ GlobalQueueDistinct' /\ CountExact'
  BY <1>1, <1>2, SameExecution, Zenon
<1>4. TypeOK'
  BY <1>1, <1>3, Zenon DEF TypeOK, LoopAgain, timerVars, queueVars, loopVars
<1>5. FramesOK'
  BY <1>1, <1>2, Zenon DEF FramesOK, TypeOK
<1> QED BY <1>3, <1>4, <1>5

LEMMA PopAllStep ==
    ASSUME IndInv, NEW t \in Threads, PopAll(t)
    PROVE  IndInv'
<1> USE DEF IndInv, CoreInv
<1> DEFINE e == executing[t]
           h == [e EXCEPT !.pc = "run", !.batch = jobs[e.q], !.n = Len(jobs[e.q])]
<1>1. /\ e.pc = "pop" /\ e.n = 0 /\ e \in ExecFrame /\ e.q \in Queues
      /\ executing' = [executing EXCEPT ![t] = h]
      /\ jobs' = [jobs EXCEPT ![e.q] = <<>>]
      /\ UNCHANGED <<jobCount, globalQueue, pushing>>
  BY Zenon DEF PopAll, JobsTaken, TypeOK, FramesOK, ExecFrame
<1>2. /\ h \in ExecFrame /\ h.pc = "run" /\ h.q = e.q /\ h.n = Len(jobs[e.q])
  <2>1. jobs[e.q] \in Seq(Jobs) /\ Len(jobs[e.q]) \in Nat
    BY <1>1 DEF TypeOK
  <2> QED BY <1>1, <2>1, Zenon DEF ExecFrame
<1>3. TypeOK'
  BY <1>1, <1>2 DEF TypeOK, PopAll, JobsTaken, timerVars, loopVars
<1>4. FramesOK'
  BY <1>1, <1>2, Zenon DEF FramesOK, TypeOK
<1>5. \A u \in Threads : executing'[u].q = executing[u].q
  BY <1>1, <1>2, Zenon DEF TypeOK
<1>6. \A p \in Queues : InGlobal(p)' = InGlobal(p) /\ Appending(p)' = Appending(p)
  BY <1>1, Zenon DEF InGlobal, Contains, Appending
<1>7. OneResponsible'
  BY <1>1, <1>5, <1>6, SameParty, Zenon DEF OneResponsible
<1>8. ASSUME NEW p \in Queues PROVE CountExactFor(p)'
  <2>1. CASE p = e.q
    <3>1. /\ jobCount[p] = Len(jobs[p]) + Cardinality(Appending(p)) + executing[t].n
          /\ \A u \in Threads : executing[u].q = p => u = t
      BY <2>1, CountOf, Zenon
    <3>2. /\ Len(jobs'[p]) = 0 /\ executing'[t].n = Len(jobs[p])
          /\ Len(jobs[p]) \in Nat /\ Cardinality(Appending(p)) \in Nat
      BY <1>1, <1>2, <2>1, AppendingFinite DEF TypeOK
    <3>3. ASSUME NEW u \in Threads, executing'[u].q = p
          PROVE  jobCount'[p] = Len(jobs'[p]) + Cardinality(Appending(p)') + executing'[u].n
      BY <1>1, <1>5, <1>6, <3>1, <3>2, <3>3
    <3> QED BY <1>1, <1>5, <2>1, <3>3 DEF CountExactFor
  <2>2. CASE p # e.q
    <3>1. \A u \in Threads : executing[u].q = p => executing'[u].n = executing[u].n
      BY <1>1, <2>2, Zenon DEF TypeOK
    <3> QED BY <1>1, <1>5, <1>6, <2>2, <3>1, SameCount, Zenon DEF CountExact, TypeOK
  <2> QED BY <2>1, <2>2
<1> QED BY <1>1, <1>3, <1>4, <1>7, <1>8 DEF CountExact, GlobalQueueDistinct

LEMMA FetchSubStep ==
    ASSUME IndInv, NEW t \in Threads, FetchSub(t)
    PROVE  IndInv'
<1> USE DEF IndInv, CoreInv
<1> DEFINE e == executing[t]
           h == IF jobCount[e.q] = e.n THEN NoExec ELSE [e EXCEPT !.pc = "check", !.n = 0]
<1>1. /\ e.pc = "run" /\ e \in ExecFrame /\ e.q \in Queues /\ NoQueue \notin Queues
      /\ executing' = [executing EXCEPT ![t] = h]
      /\ jobCount' = [jobCount EXCEPT ![e.q] = @ - e.n]
      /\ UNCHANGED <<jobs, globalQueue, pushing>>
  BY JobQueueAssumption, Zenon DEF FetchSub, CountLeft, LastBatch, TypeOK, FramesOK, ExecFrame
<1>0. PICK q \in Queues : q = e.q
  BY <1>1, Zenon
<1>2. /\ jobCount[q] = Len(jobs[q]) + Cardinality(Appending(q)) + e.n
      /\ \A u \in Threads : executing[u].q = q => u = t
  BY <1>1, <1>0, CountOf
<1>3. /\ Len(jobs[q]) \in Nat /\ Cardinality(Appending(q)) \in Nat
      /\ e.n \in Nat /\ jobCount[q] \in Nat
  BY <1>1, <1>0, AppendingFinite DEF TypeOK, ExecFrame
<1>4. h \in ExecFrame /\ h.n = 0
  <2>1. NoExec \in ExecFrame /\ NoExec.n = 0
    BY DEF ExecFrame, NoExec
  <2>2. /\ [e EXCEPT !.pc = "check", !.n = 0] \in ExecFrame
        /\ [e EXCEPT !.pc = "check", !.n = 0].n = 0
    BY <1>1, Zenon DEF ExecFrame
  <2> QED BY <2>1, <2>2
<1>5. \/ jobCount[q] = e.n /\ h.pc = "idle" /\ h.q = NoQueue
      \/ jobCount[q] # e.n /\ h.pc = "check" /\ h.q = q
  BY <1>1, <1>0, Zenon DEF ExecFrame, NoExec
<1>6. TypeOK'
  <2>0. jobCount[q] - e.n \in Nat
    BY <1>2, <1>3
  <2>1. jobCount' \in [Queues -> Nat]
    BY <1>1, <1>0, <2>0, Zenon DEF TypeOK
  <2> QED BY <1>1, <1>0, <1>4, <2>1, SMTT(30) DEF TypeOK, FetchSub, CountLeft, LastBatch, timerVars, loopVars
<1>7. FramesOK'
  BY <1>1, <1>0, <1>4, <1>5 DEF FramesOK, TypeOK
<1>8. \A p \in Queues : InGlobal(p)' = InGlobal(p) /\ Appending(p)' = Appending(p)
  BY <1>1, <1>0 DEF InGlobal, Contains, Appending
<1>9. ASSUME NEW p \in Queues, p # q PROVE OneResponsibleFor(p)' /\ CountExactFor(p)'
  <2>1. /\ \A u \in Threads : executing'[u].q = p <=> executing[u].q = p
        /\ \A u \in Threads : executing[u].q = p => executing'[u].n = executing[u].n
        /\ jobCount'[p] = jobCount[p]
    BY <1>1, <1>0, <1>5, <1>9 DEF TypeOK
  <2> QED BY <1>1, <1>0, <1>8, <2>1, SameParty, SameCount DEF OneResponsible, CountExact
<1>10. OneResponsibleFor(q)'
  <2>1. OneResponsibleFor(q) /\ Responsible(t, q) /\ ~InGlobal(q)
    BY <1>1, <1>0, Zenon DEF OneResponsible, OneResponsibleFor, Responsible
  <2>2. jobCount'[q] = jobCount[q] - e.n
    BY <1>1, <1>0 DEF TypeOK
  <2>3. CASE jobCount[q] = e.n
    <3>1. \A u \in Threads : ~Responsible(u, q)' /\ executing'[u].q # q
      BY <1>1, <1>0, <1>5, <2>1, <2>3 DEF OneResponsibleFor, Responsible, TypeOK
    <3> QED BY <1>3, <1>8, <1>1, <2>1, <2>2, <2>3, <3>1 DEF OneResponsibleFor
  <2>4. CASE jobCount[q] # e.n
    <3>1. /\ \A u \in Threads : executing'[u].q = q <=> executing[u].q = q
          /\ jobCount'[q] # 0 /\ jobCount[q] # 0
      BY <1>1, <1>0, <1>2, <1>3, <1>5, <2>2, <2>4, SMTT(30) DEF TypeOK
    <3> QED BY <1>1, <1>0, <1>8, <2>1, <3>1, SameParty
  <2> QED BY <2>3, <2>4
<1>11. CountExactFor(q)'
  <2>1. jobCount'[q] = Len(jobs'[q]) + Cardinality(Appending(q)')
    BY <1>1, <1>0, <1>2, <1>3, <1>8 DEF TypeOK
  <2>2. ASSUME NEW u \in Threads, executing'[u].q = q PROVE executing'[u].n = 0
    BY <1>1, <1>0, <1>2, <1>4, <2>2, Zenon DEF TypeOK
  <2>3. Len(jobs'[q]) \in Nat /\ Cardinality(Appending(q)') \in Nat
    BY <1>1, <1>0, <1>3, <1>8, Zenon
  <2>4. ASSUME NEW u \in Threads, executing'[u].q = q
        PROVE  jobCount'[q] = Len(jobs'[q]) + Cardinality(Appending(q)') + executing'[u].n
    BY <2>1, <2>2, <2>3, <2>4
  <2> QED BY <1>1, <1>0, <2>1, <2>4 DEF CountExactFor
<1>12. OneResponsible' /\ CountExact'
  BY <1>9, <1>10, <1>11, Zenon DEF OneResponsible, CountExact
<1> QED BY <1>1, <1>0, <1>6, <1>7, <1>12 DEF GlobalQueueDistinct

LEMMA YieldStep ==
    ASSUME IndInv, NEW t \in Threads, Yield(t)
    PROVE  IndInv'
<1> USE DEF IndInv, CoreInv
<1> DEFINE e == executing[t]
<1>1. /\ e.pc = "check" /\ e.n = 0 /\ e.q \in Queues /\ NoQueue \notin Queues
      /\ executing' = [executing EXCEPT ![t] = NoExec]
      /\ globalQueue' = Append(globalQueue, e.q)
      /\ UNCHANGED <<jobs, jobCount, pushing>>
  BY JobQueueAssumption, Zenon DEF Yield, HandedOver, TypeOK, FramesOK, ExecFrame
<1>0. PICK q \in Queues : q = e.q
  BY <1>1, Zenon
<1>2. /\ OneResponsibleFor(q) /\ Responsible(t, q) /\ ~InGlobal(q)
      /\ globalQueue \in Seq(Queues)
  BY <1>1, <1>0, Zenon DEF OneResponsible, OneResponsibleFor, Responsible, TypeOK
<1>3. TypeOK'
  <2>1. NoExec \in ExecFrame
    BY DEF NoExec, ExecFrame
  <2>2. globalQueue' \in Seq(Queues) /\ executing' \in [Threads -> ExecFrame]
    BY <1>1, <1>0, <2>1 DEF TypeOK
  <2>3. busy' \in [Threads -> BOOLEAN]
    BY Zenon DEF TypeOK, Yield
  <2>4. UNCHANGED <<jobs, jobCount, timerItems, distributing, due, alive, phase, pushing,
                    created, ran>>
    BY Zenon DEF Yield, timerVars
  <2>5. TypeOK
    BY Zenon
  <2> HIDE DEF IndInv, CoreInv
  <2> QED BY <2>2, <2>3, <2>4, <2>5, SMTT(30) DEF TypeOK
<1>4. FramesOK'
  BY <1>1, <1>0, Zenon DEF FramesOK, TypeOK, NoExec
<1>5. GlobalQueueDistinct'
  BY <1>1, <1>0, <1>2, DistinctAppend DEF GlobalQueueDistinct, InGlobal
<1>6. \A p \in Queues : InGlobal(p)' <=> InGlobal(p) \/ p = q
  BY <1>1, <1>0, <1>2, ContainsAppend DEF InGlobal
<1>7. \A p \in Queues : Appending(p)' = Appending(p)
  BY <1>1, <1>0, Zenon DEF Appending
<1>8. ASSUME NEW p \in Queues, p # q PROVE OneResponsibleFor(p)' /\ CountExactFor(p)'
  <2>1. /\ \A u \in Threads : executing'[u].q = p <=> executing[u].q = p
        /\ \A u \in Threads : executing[u].q = p => executing'[u].n = executing[u].n
    BY <1>1, <1>0, <1>8, Zenon DEF TypeOK, NoExec
  <2> QED BY <1>1, <1>0, <1>6, <1>7, <1>8, <2>1, SameParty, SameCount
          DEF OneResponsible, CountExact
<1>9. \A u \in Threads : ~Responsible(u, q)' /\ executing'[u].q # q
  BY <1>1, <1>0, <1>2, Zenon DEF OneResponsibleFor, Responsible, TypeOK, NoExec
<1>10. OneResponsibleFor(q)'
  BY <1>1, <1>0, <1>2, <1>6, <1>9, Zenon DEF OneResponsibleFor
<1>11. CountExactFor(q)'
  <2>1. jobCount[q] = Len(jobs[q]) + Cardinality(Appending(q)) + e.n
    BY <1>1, <1>0, CountOf, Zenon
  <2>2. Len(jobs[q]) \in Nat /\ Cardinality(Appending(q)) \in Nat
    BY <1>1, <1>0, AppendingFinite DEF TypeOK
  <2>3. jobCount'[q] = Len(jobs'[q]) + Cardinality(Appending(q)')
    BY <1>1, <1>0, <1>7, <2>1, <2>2
  <2> QED BY <1>9, <2>3 DEF CountExactFor
<1> QED BY <1>3, <1>4, <1>5, <1>8, <1>10, <1>11 DEF OneResponsible, CountExact

LEMMA PopGlobalStep ==
    ASSUME IndInv, NEW t \in Threads, PopGlobal(t)
    PROVE  IndInv'
<1> USE DEF IndInv, CoreInv
<1>1. /\ globalQueue # <<>> /\ globalQueue \in Seq(Queues) /\ NoQueue \notin Queues
      /\ executing[t].pc = "idle" /\ executing[t].q = NoQueue
      /\ pushing[t].pc = "idle" /\ pushing[t].q = NoQueue
      /\ executing' = [executing EXCEPT ![t] = StartExec(Head(globalQueue))]
      /\ globalQueue' = Tail(globalQueue)
      /\ UNCHANGED <<jobs, jobCount, pushing>>
  BY JobQueueAssumption, Zenon DEF PopGlobal, AtLoop, TypeOK, FramesOK
<1>0. PICK q \in Queues : q = Head(globalQueue)
  BY <1>1, ContainsTail, Zenon DEF GlobalQueueDistinct
<1>2. /\ q \in Queues /\ InGlobal(q) /\ Tail(globalQueue) \in Seq(Queues)
      /\ \A p \in Queues : InGlobal(p)' <=> InGlobal(p) /\ p # q
      /\ GlobalQueueDistinct'
  BY <1>1, <1>0, ContainsTail DEF GlobalQueueDistinct, InGlobal
<1>3. TypeOK'
  <2>1. StartExec(q) \in ExecFrame
    BY DEF StartExec, ExecFrame
  <2>2. globalQueue' \in Seq(Queues) /\ executing' \in [Threads -> ExecFrame]
    BY <1>1, <1>0, <1>2, <2>1, Zenon DEF TypeOK
  <2>3. UNCHANGED <<jobs, jobCount, timerItems, distributing, due, alive, phase, busy,
                    pushing, created, ran>>
    BY Zenon DEF PopGlobal, timerVars, loopVars
  <2>4. TypeOK
    BY Zenon
  <2> HIDE DEF IndInv, CoreInv
  <2> QED BY <2>2, <2>3, <2>4, SMTT(30) DEF TypeOK
<1>4. FramesOK'
  BY <1>1, <1>0, <1>2, Zenon DEF FramesOK, TypeOK, StartExec
<1>5. \A p \in Queues : Appending(p)' = Appending(p)
  BY <1>1, <1>0 DEF Appending
<1>6. ASSUME NEW p \in Queues, p # q PROVE OneResponsibleFor(p)' /\ CountExactFor(p)'
  <2>1. /\ \A u \in Threads : executing'[u].q = p <=> executing[u].q = p
        /\ \A u \in Threads : executing[u].q = p => executing'[u].n = executing[u].n
    BY <1>1, <1>0, <1>6, SMTT(30) DEF TypeOK, StartExec
  <2> QED BY <1>1, <1>0, <1>2, <1>5, <1>6, <2>1, SameParty, SameCount
          DEF OneResponsible, CountExact
<1>7. /\ \A u \in Threads : ~Responsible(u, q) /\ executing[u].q # q
      /\ jobCount[q] # 0
  BY <1>2 DEF OneResponsible, OneResponsibleFor, Responsible
<1>8. OneResponsibleFor(q)'
  <2>1. \A u \in Threads : Responsible(u, q)' <=> u = t
    BY <1>1, <1>0, <1>2, <1>7, Zenon DEF Responsible, TypeOK, StartExec
  <2>2. \A u \in Threads : ~(pushing'[u].q = q /\ pushing'[u].prev = 0)
    BY <1>1, <1>0, <1>7, Zenon DEF Responsible
  <2> QED BY <1>1, <1>0, <1>2, <1>7, <2>1, <2>2 DEF OneResponsibleFor
<1>9. CountExactFor(q)'
  <2>1. /\ jobCount'[q] = Len(jobs'[q]) + Cardinality(Appending(q)')
        /\ Len(jobs'[q]) \in Nat /\ Cardinality(Appending(q)') \in Nat
    <3>1. jobCount[q] = Len(jobs[q]) + Cardinality(Appending(q))
      BY <1>7, Zenon DEF CountExact, CountExactFor
    <3>2. Len(jobs[q]) \in Nat /\ Cardinality(Appending(q)) \in Nat
      BY AppendingFinite DEF TypeOK
    <3> QED BY <1>1, <1>5, <3>1, <3>2
  <2>2. ASSUME NEW u \in Threads, executing'[u].q = q PROVE executing'[u].n = 0
    BY <1>1, <1>0, <1>7, <2>2, Zenon DEF TypeOK, StartExec
  <2>3. ASSUME NEW u \in Threads, executing'[u].q = q
        PROVE  jobCount'[q] = Len(jobs'[q]) + Cardinality(Appending(q)') + executing'[u].n
    <3>1. executing'[u].n = 0
      BY <2>2, <2>3, Zenon
    <3>2. \A m, n \in Nat : m + n = m + n + 0
      OBVIOUS
    <3>3. jobCount'[q] = Len(jobs'[q]) + Cardinality(Appending(q)') + 0
      BY <2>1, <3>2, Zenon
    <3> QED BY <3>1, <3>3, Zenon
  <2> QED BY <2>1, <2>3 DEF CountExactFor
<1> QED BY <1>2, <1>3, <1>4, <1>6, <1>8, <1>9 DEF OneResponsible, CountExact

-----------------------------------------------------------------------------
(* The inductive invariant *)

LEMMA InitInv == Init => IndInv
<1> SUFFICES ASSUME Init PROVE IndInv
  BY Zenon
<1> USE DEF Init
<1>1. TypeOK
  <2>1. NoPush \in PushFrame /\ NoExec \in ExecFrame
    BY DEF NoPush, NoExec, PushFrame, ExecFrame
  <2>2. distributing \in BOOLEAN /\ busy \in [Threads -> BOOLEAN]
    BY Zenon
  <2>3. jobs \in [Queues -> Seq(Jobs)] /\ ran \in [Queues -> Seq(Jobs)]
    OBVIOUS
  <2> QED BY <2>1, <2>2, <2>3 DEF TypeOK
<1>2. FramesOK
  BY Zenon DEF FramesOK, NoPush, NoExec
<1>3. \A q \in Queues : ~InGlobal(q) /\ \A t \in Threads : ~Responsible(t, q)
  BY JobQueueAssumption DEF InGlobal, Contains, Responsible, NoPush, NoExec
<1>4. OneResponsible
  BY <1>3, Zenon DEF OneResponsible, OneResponsibleFor, Responsible
<1>5. GlobalQueueDistinct
  BY DEF GlobalQueueDistinct
<1>6. \A q \in Queues : Appending(q) = {} /\ Len(jobs[q]) = 0
  BY Zenon DEF Appending, NoPush
<1>7. \A q \in Queues : Cardinality(Appending(q)) = 0
  BY <1>6, FS_EmptySet, Zenon
<1>8. CountExact
  <2> SUFFICES ASSUME NEW q \in Queues PROVE CountExactFor(q)
    BY Zenon DEF CountExact
  <2>1. jobCount[q] = 0 /\ \A t \in Threads : executing[t].q # q
    BY JobQueueAssumption, Zenon DEF NoExec
  <2> QED BY <1>6, <1>7, <2>1 DEF CountExactFor
<1> QED BY <1>1, <1>2, <1>4, <1>5, <1>8 DEF IndInv, CoreInv

LEMMA PostStep ==
    ASSUME IndInv, NEW t \in Threads, NEW q \in Queues, NEW j \in Jobs, Post(t, q, j)
    PROVE  IndInv'
<1>1. /\ CoreInv' /\ pushing' \in [Threads -> PushFrame]
      /\ jobCount' \in [Queues -> Nat]
  BY FetchAddStep, Zenon DEF Post, Posting
<1>2. busy' \in [Threads -> BOOLEAN]
  BY DEF IndInv, TypeOK, Post
<1>3. created' \in SUBSET Jobs
  BY Zenon DEF IndInv, TypeOK, Post
<1>4. TypeOK'
  BY <1>1, <1>2, <1>3, Zenon DEF IndInv, TypeOK, Post, timerVars
<1> QED BY <1>1, <1>4 DEF IndInv

LEMMA DistributeItemStep ==
    ASSUME IndInv, NEW t \in Threads, NEW item \in due[t], DistributeItem(t, item)
    PROVE  IndInv'
<1>1. /\ item[1] \in Queues /\ item[2] \in Jobs
      /\ due' = [due EXCEPT ![t] = @ \ {item}]
      /\ UNCHANGED <<jobs, globalQueue, timerItems, distributing, alive, phase, busy,
                     executing, created, ran>>
  BY DEF IndInv, TypeOK, DistributeItem, loopVars
<1>2. due' \in [Threads -> SUBSET (Queues \X Jobs)]
  BY <1>1, Zenon DEF IndInv, TypeOK
<1>3. /\ CoreInv' /\ pushing' \in [Threads -> PushFrame]
      /\ jobCount' \in [Queues -> Nat]
  <2>1. CASE item[1] \in alive
    BY <1>1, <2>1, FetchAddStep, Zenon DEF DistributeItem, AtLoop
  <2>2. CASE item[1] \notin alive
    BY <1>1, <2>2, CoreUnchanged, Zenon DEF DistributeItem, IndInv, coreVars, TypeOK
  <2> QED BY <2>1, <2>2
<1>4. TypeOK'
  BY <1>1, <1>2, <1>3, Zenon DEF IndInv, TypeOK
<1> QED BY <1>3, <1>4 DEF IndInv

\* The remaining steps change neither the queues nor the frames.
LEMMA QuietStep ==
    ASSUME IndInv,
           \/ \E t \in Threads :
                 \/ \E q \in Queues, j \in Jobs : Reserve(t, q, j)
                 \/ EnterDistribute(t) \/ LeaveDistribute(t)
                 \/ \E items \in SUBSET timerItems : TakeDue(t, items)
                 \/ EndDispatch(t) \/ EndLoop(t)
           \/ \E q \in Queues : Expire(q)
           \/ UNCHANGED vars
    PROVE  IndInv'
<1> USE DEF IndInv, TypeOK, coreVars, queueVars, timerVars, loopVars
<1>1. UNCHANGED coreVars
  BY Zenon DEF Reserve, EnterDistribute, LeaveDistribute, DistributingReset, TakeDue, EndDispatch, EndLoop,
         Expire, vars
<1>2. CoreInv'
  BY <1>1, CoreUnchanged, Zenon
<1>3. ASSUME NEW t \in Threads, NEW q \in Queues, NEW j \in Jobs, Reserve(t, q, j)
      PROVE  TypeOK'
  BY <1>3, SMTT(30) DEF Reserve
<1>4. ASSUME NEW t \in Threads, EnterDistribute(t) \/ LeaveDistribute(t) PROVE TypeOK'
  BY <1>4, Zenon DEF EnterDistribute, LeaveDistribute, DistributingReset
<1>5. ASSUME NEW t \in Threads, NEW items \in SUBSET timerItems, TakeDue(t, items)
      PROVE  TypeOK'
  BY <1>5, Zenon DEF TakeDue
<1>6. ASSUME NEW t \in Threads, EndDispatch(t) \/ EndLoop(t) PROVE TypeOK'
  BY <1>6, Zenon DEF EndDispatch, EndLoop
<1>7. ASSUME NEW q \in Queues, Expire(q) PROVE TypeOK'
  BY <1>7, Zenon DEF Expire
<1>8. CASE UNCHANGED vars
  <2>1. UNCHANGED <<jobs, jobCount, globalQueue, timerItems, distributing, due, alive,
                    phase, busy, pushing, executing, created, ran>>
    BY <1>8, Zenon DEF vars
  <2>2. distributing' \in BOOLEAN
    BY <2>1, Zenon
  <2>3. TypeOK'
    BY <2>1, <2>2, SMTT(30)
  <2> QED BY <1>2, <2>3, Zenon
<1> QED BY <1>2, <1>3, <1>4, <1>5, <1>6, <1>7, <1>8, Zenon

LEMMA StepInv == IndInv /\ [Next]_vars => IndInv'
<1> SUFFICES ASSUME IndInv, [Next]_vars PROVE IndInv'
  BY Zenon
<1>1. ASSUME NEW t \in Threads, PushStep(t) PROVE IndInv'
  BY <1>1, AppendJobStep, ExecuteInlineStep, HandOverStep, Zenon DEF PushStep
<1>2. ASSUME NEW t \in Threads, ExecuteStep(t) PROVE IndInv'
  BY <1>2, PopAllStep, StartJobStep, FinishJobStep, FetchSubStep, LoopAgainStep,
     YieldStep DEF ExecuteStep
<1>3. ASSUME NEW t \in Threads, TimerStep(t) PROVE IndInv'
  BY <1>3, DistributeItemStep, QuietStep, Zenon DEF TimerStep
<1>4. ASSUME NEW t \in Threads, LoopStep(t) PROVE IndInv'
  BY <1>4, PopGlobalStep, QuietStep, Zenon DEF LoopStep
<1>5. ASSUME NEW t \in Threads, Environment(t) PROVE IndInv'
  BY <1>5, PostStep, QuietStep, Zenon DEF Environment
<1>6. ASSUME NEW q \in Queues, Expire(q) PROVE IndInv'
  BY <1>6, QuietStep, Zenon
<1>7. CASE UNCHANGED vars
  BY <1>7, QuietStep, Zenon
<1> QED BY <1>1, <1>2, <1>3, <1>4, <1>5, <1>6, <1>7 DEF Next, ThreadStep

LEMMA Invariance == Spec => []IndInv
  BY InitInv, StepInv, PTL DEF Spec

-----------------------------------------------------------------------------
(* The theorems *)

(***************************************************************************)
(* The state keeps its types; in particular _jobCount, a signed counter    *)
(* that execute decreases by a batch at a time, never becomes negative.    *)
(***************************************************************************)
THEOREM TypeCorrect == Spec => []TypeOK
  BY Invariance, PTL DEF IndInv

\* No two threads ever execute the same JobQueue.
THEOREM SerialExecution == Spec => []OneExecutor
<1>1. IndInv => OneExecutor
  BY DEF IndInv, CoreInv, OneResponsible, OneResponsibleFor, Responsible, OneExecutor
<1> QED BY <1>1, Invariance, PTL

\* A queue with a nonzero count has exactly one party answering for it.
THEOREM SingleResponsibility == Spec => []OneResponsible
  BY Invariance, PTL DEF IndInv, CoreInv

\* The global queue holds no queue twice.
THEOREM GlobalQueueHasNoDuplicates == Spec => []GlobalQueueDistinct
  BY Invariance, PTL DEF IndInv, CoreInv

\* _jobCount counts queued, batched and half-pushed jobs, and nothing else.
THEOREM JobCountExact == Spec => []CountExact
  BY Invariance, PTL DEF IndInv, CoreInv

\* A queued job is never left without a thread or a global entry for it.
THEOREM NoLostWakeUp == Spec => []NoStrandedJob
<1>1. ASSUME IndInv, NEW q \in Queues, jobs[q] # <<>>,
             ~InGlobal(q), \A t \in Threads : ~Responsible(t, q)
      PROVE  FALSE
  <2>1. jobCount[q] = 0 /\ \A t \in Threads : executing[t].q # q
    BY <1>1, Zenon DEF IndInv, CoreInv, OneResponsible, OneResponsibleFor, Responsible
  <2>2. jobCount[q] = Len(jobs[q]) + Cardinality(Appending(q))
    BY <1>1, <2>1, Zenon DEF IndInv, CoreInv, CountExact, CountExactFor
  <2>3. Len(jobs[q]) \in Nat \ {0}
    BY <1>1 DEF IndInv, TypeOK
  <2> QED BY <2>1, <2>2, <2>3, AppendingFinite
<1>2. IndInv => NoStrandedJob
  BY <1>1, Zenon DEF NoStrandedJob
<1> QED BY <1>2, Invariance, PTL

-----------------------------------------------------------------------------
(* Every job is at one place *)

\* Before pop_all and after the last callback the vector jobs of execute is empty.
BatchOK ==
    \A t \in Threads :
        executing[t].pc \in {"idle", "pop", "check"} => executing[t].batch = <<>>

\* The job has entered a queue.
Entered(j) ==
    \/ \E q \in Queues : Contains(jobs[q], j) \/ Contains(ran[q], j)
    \/ \E t \in Threads : Contains(executing[t].batch, j)

\* The places of a job on its way to a queue: the timer's heap, the due items of
\* a worker, a push that has not appended yet.
InTimer(j) == \E q \in Queues : <<q, j>> \in timerItems

IsDue(t, j) == \E q \in Queues : <<q, j>> \in due[t]

IsPushed(t, j) == pushing[t].pc = "append" /\ pushing[t].job = j

Ahead(j) == InTimer(j) \/ \E t \in Threads : IsDue(t, j) \/ IsPushed(t, j)

OneOwner(items) ==
    \A j \in Jobs, p, q \in Queues : <<p, j>> \in items /\ <<q, j>> \in items => p = q

OnceFor(j) ==
    /\ Entered(j) \/ Ahead(j) => j \in created
    /\ Entered(j) => ~Ahead(j)
    /\ InTimer(j) => \A t \in Threads : ~IsDue(t, j) /\ ~IsPushed(t, j)
    /\ \A t, u \in Threads : /\ IsDue(t, j) => ~IsPushed(u, j)
                             /\ IsDue(t, j) /\ IsDue(u, j) => t = u
                             /\ IsPushed(t, j) /\ IsPushed(u, j) => t = u

JobOnce ==
    /\ \A j \in Jobs : OnceFor(j)
    /\ OneOwner(timerItems) /\ \A t \in Threads : OneOwner(due[t])

OrderInv == BatchOK /\ JobOnce

\* The job appears at no place where it was not before.
NoNewPlace(j) ==
    /\ Entered(j)' => Entered(j)
    /\ InTimer(j)' => InTimer(j)
    /\ \A t \in Threads : (IsDue(t, j)' => IsDue(t, j)) /\ (IsPushed(t, j)' => IsPushed(t, j))

LEMMA OnceKept ==
    ASSUME NEW j \in Jobs, OnceFor(j), NoNewPlace(j), j \in created => j \in created'
    PROVE  OnceFor(j)'
  BY Zenon DEF OnceFor, NoNewPlace, Ahead

\* Steps that only lose jobs, or move them within the queues.
LEMMA AllKept ==
    ASSUME JobOnce, \A j \in Jobs : NoNewPlace(j), created' = created,
           timerItems' \subseteq timerItems,
           \A t \in Threads : due'[t] \subseteq due[t]
    PROVE  JobOnce'
<1>1. \A j \in Jobs : OnceFor(j)'
  BY OnceKept, Zenon DEF JobOnce
<1>2. OneOwner(timerItems)' /\ \A t \in Threads : OneOwner(due[t])'
  BY Zenon DEF JobOnce, OneOwner
<1> QED BY <1>1, <1>2, Zenon DEF JobOnce

\* A step that leaves the queues' contents alone.
LEMMA SameEntered ==
    ASSUME NEW j, jobs' = jobs, ran' = ran,
           \A t \in Threads : Contains(executing'[t].batch, j) => Contains(executing[t].batch, j)
    PROVE  Entered(j)' => Entered(j)
  BY Zenon DEF Entered

LEMMA SamePushes ==
    ASSUME NEW j, pushing' = pushing
    PROVE  \A t \in Threads : IsPushed(t, j)' => IsPushed(t, j)
  BY Zenon DEF IsPushed

LEMMA SameTimer ==
    ASSUME NEW j, timerItems' = timerItems, due' = due
    PROVE  /\ InTimer(j)' => InTimer(j)
           /\ \A t \in Threads : IsDue(t, j)' => IsDue(t, j)
  BY Zenon DEF InTimer, IsDue

LEMMA NothingInEmpty == \A y : ~Contains(<<>>, y)
  BY DEF Contains

LEMMA ContainsRest ==
    ASSUME NEW S, NEW s \in Seq(S), s # <<>>
    PROVE  /\ Contains(s, Head(s))
           /\ \A y : Contains(Tail(s), y) => Contains(s, y)
<1>1. /\ Len(s) \in Nat /\ Len(s) >= 1 /\ Head(s) = s[1]
      /\ Len(Tail(s)) = Len(s) - 1
      /\ \A i \in 1..Len(Tail(s)) : Tail(s)[i] = s[i + 1]
  OBVIOUS
<1>2. ASSUME NEW y, Contains(Tail(s), y) PROVE Contains(s, y)
  BY <1>1, <1>2 DEF Contains
<1> QED BY <1>1, <1>2 DEF Contains

-----------------------------------------------------------------------------

\* A new job is given to push or to the timer.
LEMMA FreshJob ==
    ASSUME JobOnce, NEW j \in Jobs, j \notin created
    PROVE  /\ ~Entered(j) /\ ~InTimer(j)
           /\ \A t \in Threads : ~IsDue(t, j) /\ ~IsPushed(t, j)
  BY Zenon DEF JobOnce, OnceFor, Ahead

LEMMA PostOnce ==
    ASSUME TypeOK, JobOnce, NEW t \in Threads, NEW q \in Queues, NEW j \in Jobs, Post(t, q, j)
    PROVE  JobOnce'
<1>1. /\ j \notin created /\ created' = created \cup {j}
      /\ jobs' = jobs /\ ran' = ran /\ executing' = executing
      /\ timerItems' = timerItems /\ due' = due
      /\ pushing' = [pushing EXCEPT ![t] = [pc |-> "append", q |-> q, job |-> j,
                                            only |-> TRUE, prev |-> jobCount[q]]]
  BY Zenon DEF Post, FetchAdd, timerVars
<1>2. \A k \in Jobs, u \in Threads : IsPushed(u, k)' => IsPushed(u, k) \/ (u = t /\ k = j)
  BY <1>1, Zenon DEF IsPushed, TypeOK
<1>3. \A k \in Jobs : /\ Entered(k)' => Entered(k)
                      /\ InTimer(k)' => InTimer(k)
                      /\ \A u \in Threads : IsDue(u, k)' => IsDue(u, k)
  BY <1>1, SameEntered, SameTimer, Zenon
<1>4. ASSUME NEW k \in Jobs, k # j PROVE OnceFor(k)'
  <2>1. NoNewPlace(k)
    BY <1>2, <1>3, <1>4, Zenon DEF NoNewPlace
  <2> QED BY <1>1, <2>1, OnceKept, Zenon DEF JobOnce
<1>5. OnceFor(j)'
  <2>1. /\ ~Entered(j)' /\ ~InTimer(j)' /\ j \in created'
        /\ \A u \in Threads : ~IsDue(u, j)' /\ (IsPushed(u, j)' => u = t)
    BY <1>1, <1>2, <1>3, FreshJob, Zenon
  <2> QED BY <2>1, Zenon DEF OnceFor, Ahead
<1>6. OneOwner(timerItems)' /\ \A u \in Threads : OneOwner(due[u])'
  BY <1>1, Zenon DEF JobOnce, OneOwner
<1> QED BY <1>4, <1>5, <1>6, Zenon DEF JobOnce

LEMMA ReserveOnce ==
    ASSUME TypeOK, JobOnce, NEW t \in Threads, NEW q \in Queues, NEW j \in Jobs, Reserve(t, q, j)
    PROVE  JobOnce'
<1>1. /\ j \notin created /\ created' = created \cup {j}
      /\ jobs' = jobs /\ ran' = ran /\ executing' = executing
      /\ timerItems' = timerItems \cup {<<q, j>>} /\ due' = due /\ pushing' = pushing
  BY Zenon DEF Reserve, queueVars
<1>2. \A p \in Queues, k \in Jobs : <<p, k>> = <<q, j>> => p = q /\ k = j
  BY SMT
<1>3. \A k \in Jobs : InTimer(k)' => InTimer(k) \/ k = j
  BY <1>1, <1>2, Zenon DEF InTimer
<1>4. \A k \in Jobs : /\ Entered(k)' => Entered(k)
                      /\ \A u \in Threads : (IsDue(u, k)' => IsDue(u, k))
                                            /\ (IsPushed(u, k)' => IsPushed(u, k))
  BY <1>1, SameEntered, SamePushes, Zenon DEF IsDue
<1>5. ASSUME NEW k \in Jobs, k # j PROVE OnceFor(k)'
  <2>1. NoNewPlace(k)
    BY <1>3, <1>4, <1>5, Zenon DEF NoNewPlace
  <2> QED BY <1>1, <2>1, OnceKept, Zenon DEF JobOnce
<1>6. OnceFor(j)'
  <2>1. /\ ~Entered(j)' /\ j \in created'
        /\ \A u \in Threads : ~IsDue(u, j)' /\ ~IsPushed(u, j)'
    BY <1>1, <1>4, FreshJob, Zenon
  <2> QED BY <2>1, Zenon DEF OnceFor, Ahead
<1>7. OneOwner(timerItems)'
  <2>1. OneOwner(timerItems) /\ \A p \in Queues : <<p, j>> \notin timerItems
    BY <1>1, FreshJob, Zenon DEF JobOnce, InTimer
  <2> QED BY <1>1, <1>2, <2>1, Zenon DEF OneOwner
<1>8. \A u \in Threads : OneOwner(due[u])'
  BY <1>1, Zenon DEF JobOnce, OneOwner
<1> QED BY <1>5, <1>6, <1>7, <1>8, Zenon DEF JobOnce

\* The due items move from the heap to the worker that took them.
LEMMA TakeDueOnce ==
    ASSUME TypeOK, JobOnce, NEW t \in Threads, NEW items \in SUBSET timerItems, TakeDue(t, items)
    PROVE  JobOnce'
<1>1. /\ created' = created /\ jobs' = jobs /\ ran' = ran /\ executing' = executing
      /\ timerItems' = timerItems \ items /\ due' = [due EXCEPT ![t] = items]
      /\ pushing' = pushing
  BY Zenon DEF TakeDue, queueVars
<1>2. \A k \in Jobs : /\ Entered(k)' => Entered(k)
                      /\ \A u \in Threads : IsPushed(u, k)' => IsPushed(u, k)
  BY <1>1, SameEntered, SamePushes, Zenon
<1>3. \A k \in Jobs : InTimer(k)' => InTimer(k)
  BY <1>1, Zenon DEF InTimer
<1>4. \A k \in Jobs, u \in Threads :
          IsDue(u, k)' => IF u = t THEN \E q \in Queues : <<q, k>> \in items ELSE IsDue(u, k)
  BY <1>1, Zenon DEF IsDue, TypeOK
<1>5. ASSUME NEW k \in Jobs, NEW q \in Queues, <<q, k>> \in items PROVE OnceFor(k)'
  <2>1. InTimer(k)
    BY <1>5, Zenon DEF InTimer
  <2>2. /\ k \in created /\ ~Entered(k)
        /\ \A u \in Threads : ~IsDue(u, k) /\ ~IsPushed(u, k)
    BY <2>1, Zenon DEF JobOnce, OnceFor, Ahead
  <2>3. ~InTimer(k)'
    <3> SUFFICES ASSUME NEW p \in Queues, <<p, k>> \in timerItems' PROVE FALSE
      BY Zenon DEF InTimer
    <3>1. <<p, k>> \in timerItems /\ <<p, k>> \notin items /\ <<q, k>> \in timerItems
      BY <1>1, <1>5, Zenon
    <3>2. p = q
      BY <3>1, Zenon DEF JobOnce, OneOwner
    <3> QED BY <1>5, <3>1, <3>2, Zenon
  <2>4. \A u \in Threads : IsDue(u, k)' => u = t
    BY <1>4, <2>2, Zenon
  <2> QED BY <1>1, <1>2, <2>2, <2>3, <2>4, Zenon DEF OnceFor, Ahead
<1>6. ASSUME NEW k \in Jobs, \A q \in Queues : <<q, k>> \notin items PROVE OnceFor(k)'
  <2>1. NoNewPlace(k)
    BY <1>2, <1>3, <1>4, <1>6, Zenon DEF NoNewPlace
  <2> QED BY <1>1, <2>1, OnceKept, Zenon DEF JobOnce
<1>7. OneOwner(timerItems)' /\ \A u \in Threads : OneOwner(due[u])'
  <2>1. OneOwner(items)
    BY Zenon DEF JobOnce, OneOwner
  <2>2. OneOwner(timerItems)'
    BY <1>1, Zenon DEF JobOnce, OneOwner
  <2>3. ASSUME NEW u \in Threads PROVE OneOwner(due'[u])
    <3>1. CASE u = t
      BY <1>1, <2>1, <3>1, Zenon DEF TypeOK
    <3>2. CASE u # t
      BY <1>1, <3>2, Zenon DEF TypeOK, JobOnce
    <3> QED BY <3>1, <3>2, Zenon
  <2> QED BY <2>2, <2>3, Zenon DEF OneOwner
<1> QED BY <1>5, <1>6, <1>7, Zenon DEF JobOnce

\* A due item is pushed, or dropped because its queue is gone.
LEMMA DistributeItemOnce ==
    ASSUME TypeOK, JobOnce, NEW t \in Threads, NEW item \in due[t], DistributeItem(t, item)
    PROVE  JobOnce'
<1>0. PICK q \in Queues, j \in Jobs : item = <<q, j>>
  BY SMT DEF TypeOK
<1>1. /\ created' = created /\ jobs' = jobs /\ ran' = ran /\ executing' = executing
      /\ timerItems' = timerItems /\ due' = [due EXCEPT ![t] = @ \ {item}]
  BY Zenon DEF DistributeItem
<1>2. item[1] = q /\ item[2] = j
  BY <1>0
<1>3. \/ pushing' = pushing
      \/ pushing' = [pushing EXCEPT ![t] = [pc |-> "append", q |-> q, job |-> j,
                                            only |-> FALSE, prev |-> jobCount[q]]]
  BY <1>2, Zenon DEF DistributeItem, FetchAdd
<1>4. \A k \in Jobs, u \in Threads : IsPushed(u, k)' => IsPushed(u, k) \/ (u = t /\ k = j)
  <2>1. CASE pushing' = pushing
    BY <2>1, Zenon DEF IsPushed
  <2>2. CASE pushing' = [pushing EXCEPT ![t] = [pc |-> "append", q |-> q, job |-> j,
                                            only |-> FALSE, prev |-> jobCount[q]]]
    BY <2>2, Zenon DEF IsPushed, TypeOK
  <2> QED BY <1>3, <2>1, <2>2, Zenon
<1>5. \A k \in Jobs : /\ Entered(k)' => Entered(k)
                      /\ InTimer(k)' => InTimer(k)
  BY <1>1, SameEntered, Zenon DEF InTimer
<1>6. \A u \in Threads : due'[u] \subseteq due[u] /\ (u = t => due'[u] = due[u] \ {item})
  BY <1>1, Zenon DEF TypeOK
<1>7. \A k \in Jobs, u \in Threads : IsDue(u, k)' => IsDue(u, k)
  BY <1>6, Zenon DEF IsDue
<1>8. ASSUME NEW k \in Jobs, k # j PROVE OnceFor(k)'
  <2>1. NoNewPlace(k)
    BY <1>4, <1>5, <1>7, <1>8, Zenon DEF NoNewPlace
  <2> QED BY <1>1, <2>1, OnceKept, Zenon DEF JobOnce
<1>9. OnceFor(j)'
  <2>1. IsDue(t, j)
    BY <1>0, Zenon DEF IsDue
  <2>2. /\ j \in created /\ ~Entered(j) /\ ~InTimer(j)
        /\ \A u \in Threads : ~IsPushed(u, j) /\ (IsDue(u, j) => u = t)
    BY <2>1, Zenon DEF JobOnce, OnceFor, Ahead
  <2>3. ~IsDue(t, j)'
    <3> SUFFICES ASSUME NEW p \in Queues, <<p, j>> \in due'[t] PROVE FALSE
      BY Zenon DEF IsDue
    <3>1. <<p, j>> \in due[t] /\ <<p, j>> # <<q, j>> /\ <<q, j>> \in due[t]
      BY <1>0, <1>6, Zenon
    <3>2. p = q
      BY <3>1, Zenon DEF JobOnce, OneOwner
    <3> QED BY <3>1, <3>2, Zenon
  <2>4. /\ \A u \in Threads : ~IsDue(u, j)' /\ (IsPushed(u, j)' => u = t)
        /\ ~Entered(j)' /\ ~InTimer(j)' /\ j \in created'
    BY <1>1, <1>4, <1>5, <1>7, <2>2, <2>3, Zenon
  <2> QED BY <2>4, Zenon DEF OnceFor, Ahead
<1>10. OneOwner(timerItems)' /\ \A u \in Threads : OneOwner(due[u])'
  BY <1>1, <1>6, Zenon DEF JobOnce, OneOwner
<1> QED BY <1>8, <1>9, <1>10, Zenon DEF JobOnce

\* A pushed job enters its queue.
LEMMA AppendJobOnce ==
    ASSUME IndInv, JobOnce, NEW t \in Threads, AppendJob(t)
    PROVE  JobOnce'
<1> DEFINE f == pushing[t]
<1>1. /\ f.pc = "append" /\ f.q \in Queues /\ f.job \in Jobs
      /\ NoQueue \notin Queues
  BY JobQueueAssumption, Zenon DEF AppendJob, FramesOK, TypeOK, PushFrame, IndInv, CoreInv
<1>0. PICK q \in Queues, j \in Jobs : q = f.q /\ j = f.job
  BY <1>1, Zenon
<1>2. /\ jobs' = [jobs EXCEPT ![q] = Append(@, j)]
      /\ created' = created /\ ran' = ran /\ executing' = executing
      /\ timerItems' = timerItems /\ due' = due
  BY <1>0, Zenon DEF AppendJob, timerVars
<1>3. \A u \in Threads, k \in Jobs : IsPushed(u, k)' => u # t /\ IsPushed(u, k)
  <2>1. pushing' = [pushing EXCEPT ![t] = IF f.prev = 0 THEN [f EXCEPT !.pc = "handover"]
                                                        ELSE NoPush]
    BY Zenon DEF AppendJob, FirstPusher
  <2>2. pushing'[t].pc # "append" /\ \A u \in Threads : u # t => pushing'[u] = pushing[u]
    BY <2>1, Zenon DEF IndInv, TypeOK, PushFrame, NoPush
  <2> QED BY <2>2, Zenon DEF IsPushed
<1>4. \A k \in Jobs : Entered(k)' => Entered(k) \/ k = j
  <2>1. ASSUME NEW k \in Jobs, NEW p \in Queues, Contains(jobs'[p], k)
        PROVE  Contains(jobs[p], k) \/ k = j
    <3>1. CASE p = q
      <4>1. jobs[q] \in Seq(Jobs) /\ jobs'[p] = Append(jobs[q], j)
        BY <1>2, <3>1, Zenon DEF IndInv, TypeOK
      <4>2. Contains(Append(jobs[q], j), k) <=> Contains(jobs[q], k) \/ k = j
        BY <4>1, ContainsAppend
      <4> QED BY <2>1, <3>1, <4>1, <4>2, Zenon
    <3>2. CASE p # q
      BY <1>2, <2>1, <3>2, Zenon DEF IndInv, TypeOK
    <3> QED BY <3>1, <3>2, Zenon
  <2> QED BY <1>2, <2>1, Zenon DEF Entered
<1>5. \A k \in Jobs : /\ InTimer(k)' => InTimer(k)
                      /\ \A u \in Threads : IsDue(u, k)' => IsDue(u, k)
  BY <1>2, SameTimer, Zenon
<1>6. ASSUME NEW k \in Jobs, k # j PROVE OnceFor(k)'
  <2>1. NoNewPlace(k)
    BY <1>3, <1>4, <1>5, <1>6, Zenon DEF NoNewPlace
  <2> QED BY <1>2, <2>1, OnceKept, Zenon DEF JobOnce
<1>7. OnceFor(j)'
  <2>1. IsPushed(t, j)
    BY <1>0, <1>1, Zenon DEF IsPushed
  <2>2. /\ j \in created /\ ~InTimer(j)
        /\ \A u \in Threads : ~IsDue(u, j) /\ (IsPushed(u, j) => u = t)
    BY <2>1, Zenon DEF JobOnce, OnceFor, Ahead
  <2>3. /\ \A u \in Threads : ~IsDue(u, j)' /\ ~IsPushed(u, j)'
        /\ ~InTimer(j)' /\ j \in created'
    BY <1>2, <1>3, <1>5, <2>2, Zenon
  <2> QED BY <2>3, Zenon DEF OnceFor, Ahead
<1>8. OneOwner(timerItems)' /\ \A u \in Threads : OneOwner(due[u])'
  BY <1>2, Zenon DEF JobOnce, OneOwner
<1> QED BY <1>6, <1>7, <1>8, Zenon DEF JobOnce

\* A step that changes the timer and the pushes of no job.
LEMMA WithinQueues ==
    ASSUME JobOnce, created' = created, timerItems' = timerItems, due' = due,
           \A j \in Jobs, u \in Threads : IsPushed(u, j)' => IsPushed(u, j),
           \A j \in Jobs : Entered(j)' => Entered(j)
    PROVE  JobOnce'
<1>1. \A j \in Jobs : NoNewPlace(j)
  BY SameTimer, Zenon DEF NoNewPlace
<1> QED BY <1>1, AllKept, Zenon

LEMMA PopAllOnce ==
    ASSUME IndInv, JobOnce, NEW t \in Threads, PopAll(t)
    PROVE  JobOnce'
<1> DEFINE e == executing[t]
           h == [e EXCEPT !.pc = "run", !.batch = jobs[e.q], !.n = Len(jobs[e.q])]
<1>1. /\ e \in ExecFrame /\ e.q \in Queues
      /\ executing' = [executing EXCEPT ![t] = h]
      /\ jobs' = [jobs EXCEPT ![e.q] = <<>>]
      /\ created' = created /\ ran' = ran /\ timerItems' = timerItems /\ due' = due
      /\ pushing' = pushing
  BY Zenon DEF PopAll, JobsTaken, TypeOK, FramesOK, ExecFrame, IndInv, CoreInv, timerVars
<1>2. h.batch = jobs[e.q]
  BY <1>1, Zenon DEF ExecFrame
<1>3. ASSUME NEW j \in Jobs, Entered(j)' PROVE Entered(j)
  <2>1. \A p \in Queues : Contains(jobs'[p], j) => Contains(jobs[p], j)
    BY <1>1, NothingInEmpty, Zenon DEF IndInv, TypeOK
  <2>2. \A u \in Threads : Contains(executing'[u].batch, j) =>
            Contains(executing[u].batch, j) \/ Contains(jobs[e.q], j)
    BY <1>1, <1>2, Zenon DEF IndInv, TypeOK
  <2> QED BY <1>1, <1>3, <2>1, <2>2, Zenon DEF Entered
<1> QED BY <1>1, <1>3, SamePushes, WithinQueues, Zenon

LEMMA FinishJobOnce ==
    ASSUME IndInv, JobOnce, NEW t \in Threads, FinishJob(t)
    PROVE  JobOnce'
<1> DEFINE e == executing[t]
           h == [e EXCEPT !.pc = "run", !.batch = Tail(e.batch)]
<1>1. /\ e \in ExecFrame /\ e.q \in Queues /\ e.batch # <<>> /\ e.batch \in Seq(Jobs)
      /\ executing' = [executing EXCEPT ![t] = h]
      /\ ran' = [ran EXCEPT ![e.q] = Append(@, Head(e.batch))]
      /\ jobs' = jobs /\ created' = created /\ timerItems' = timerItems /\ due' = due
      /\ pushing' = pushing
  BY Zenon DEF FinishJob, TypeOK, FramesOK, ExecFrame, IndInv, CoreInv, timerVars, queueVars
<1>2. h.batch = Tail(e.batch)
  BY <1>1, Zenon DEF ExecFrame
<1>3. Head(e.batch) \in Jobs
  BY <1>1
<1>4. ASSUME NEW j \in Jobs, Entered(j)' PROVE Entered(j)
  <2>1. \A u \in Threads : Contains(executing'[u].batch, j) => Contains(executing[u].batch, j)
    BY <1>1, <1>2, ContainsRest, Zenon DEF IndInv, TypeOK
  <2>2. ASSUME NEW p \in Queues, Contains(ran'[p], j)
        PROVE  Contains(ran[p], j) \/ Contains(e.batch, j)
    <3>1. CASE p = e.q
      <4>1. ran[p] \in Seq(Jobs) /\ ran'[p] = Append(ran[p], Head(e.batch))
        BY <1>1, <3>1, Zenon DEF IndInv, TypeOK
      <4>2. Contains(Append(ran[p], Head(e.batch)), j)
            <=> Contains(ran[p], j) \/ j = Head(e.batch)
        BY <1>3, <4>1, ContainsAppend
      <4> QED BY <1>1, <2>2, <4>1, <4>2, ContainsRest, Zenon
    <3>2. CASE p # e.q
      BY <1>1, <2>2, <3>2, Zenon DEF IndInv, TypeOK
    <3> QED BY <3>1, <3>2, Zenon
  <2> QED BY <1>1, <1>4, <2>1, <2>2, Zenon DEF Entered
<1> QED BY <1>1, <1>4, SamePushes, WithinQueues, Zenon

\* The steps that start, continue or end an execution and move no job.
LEMMA ExecutionOnce ==
    ASSUME IndInv, JobOnce, NEW t \in Threads,
           \/ ExecuteInline(t) \/ HandOver(t) \/ StartJob(t) \/ FetchSub(t)
           \/ LoopAgain(t) \/ Yield(t) \/ PopGlobal(t)
    PROVE  JobOnce'
<1> DEFINE e == executing[t]
<1>1. /\ jobs' = jobs /\ created' = created /\ ran' = ran
      /\ timerItems' = timerItems /\ due' = due
  BY Zenon DEF ExecuteInline, HandOver, StartJob, FetchSub, LoopAgain, Yield, PopGlobal,
               queueVars, timerVars
<1>2. pushing' = pushing \/ pushing' = [pushing EXCEPT ![t] = NoPush]
  BY Zenon DEF ExecuteInline, HandOver, StartJob, FetchSub, LoopAgain, Yield, PopGlobal
<1>3. \A j \in Jobs, u \in Threads : IsPushed(u, j)' => IsPushed(u, j)
  <2>1. CASE pushing' = pushing
    BY <2>1, Zenon DEF IsPushed
  <2>2. CASE pushing' = [pushing EXCEPT ![t] = NoPush]
    BY <2>2, Zenon DEF IsPushed, IndInv, TypeOK, NoPush
  <2> QED BY <1>2, <2>1, <2>2, Zenon
<1>4. executing' = executing
      \/ \E h : executing' = [executing EXCEPT ![t] = h] /\ (h.batch = <<>> \/ h.batch = e.batch)
  <2>1. e \in ExecFrame
    BY Zenon DEF IndInv, TypeOK
  <2>2. \A q : StartExec(q).batch = <<>> /\ NoExec.batch = <<>>
    BY Zenon DEF StartExec, NoExec
  <2>3. CASE ExecuteInline(t) \/ Yield(t) \/ PopGlobal(t)
    BY <2>2, <2>3, Zenon DEF ExecuteInline, Yield, PopGlobal
  <2>4. CASE HandOver(t)
    BY <2>4, Zenon DEF HandOver
  <2>5. CASE StartJob(t)
    <3>1. [e EXCEPT !.pc = "job"].batch = e.batch
      BY <2>1, Zenon DEF ExecFrame
    <3> QED BY <2>5, <3>1, Zenon DEF StartJob
  <2>6. CASE LoopAgain(t)
    <3>1. [e EXCEPT !.pc = "pop"].batch = e.batch
      BY <2>1, Zenon DEF ExecFrame
    <3> QED BY <2>6, <3>1, Zenon DEF LoopAgain
  <2>7. CASE FetchSub(t)
    <3>1. [e EXCEPT !.pc = "check", !.n = 0].batch = e.batch
      BY <2>1, Zenon DEF ExecFrame
    <3> QED BY <2>2, <2>7, <3>1, Zenon DEF FetchSub
  <2> QED BY <2>3, <2>4, <2>5, <2>6, <2>7, Zenon
<1>5. \A j \in Jobs, u \in Threads :
          Contains(executing'[u].batch, j) => Contains(executing[u].batch, j)
  <2>1. CASE executing' = executing
    BY <2>1, Zenon
  <2>2. ASSUME NEW h, executing' = [executing EXCEPT ![t] = h],
               h.batch = <<>> \/ h.batch = e.batch
        PROVE  \A j \in Jobs, u \in Threads :
                   Contains(executing'[u].batch, j) => Contains(executing[u].batch, j)
    <3>1. executing'[t] = h /\ \A u \in Threads : u # t => executing'[u] = executing[u]
      BY <2>2, Zenon DEF IndInv, TypeOK
    <3>2. \A j : Contains(h.batch, j) => Contains(e.batch, j)
      BY <2>2, NothingInEmpty, Zenon
    <3> QED BY <3>1, <3>2, Zenon
  <2> QED BY <1>4, <2>1, <2>2, Zenon
<1> QED BY <1>1, <1>3, <1>5, SameEntered, WithinQueues, Zenon

\* The remaining steps touch neither jobs nor pushes.
LEMMA QuietOnce ==
    ASSUME JobOnce,
           \/ \E t \in Threads :
                 EnterDistribute(t) \/ LeaveDistribute(t) \/ EndDispatch(t) \/ EndLoop(t)
           \/ \E q \in Queues : Expire(q)
           \/ UNCHANGED vars
    PROVE  JobOnce'
<1>1. UNCHANGED <<jobs, created, ran, timerItems, due, pushing, executing>>
  BY Zenon DEF EnterDistribute, LeaveDistribute, EndDispatch, EndLoop, Expire, vars,
               queueVars, timerVars
<1> QED BY <1>1, SameEntered, SamePushes, WithinQueues, Zenon

LEMMA OnceStep == IndInv /\ JobOnce /\ [Next]_vars => JobOnce'
<1> SUFFICES ASSUME IndInv, JobOnce, [Next]_vars PROVE JobOnce'
  BY Zenon
<1>0. TypeOK
  BY Zenon DEF IndInv
<1>1. ASSUME NEW t \in Threads, PushStep(t) PROVE JobOnce'
  BY <1>1, AppendJobOnce, ExecutionOnce, Zenon DEF PushStep
<1>2. ASSUME NEW t \in Threads, ExecuteStep(t) PROVE JobOnce'
  BY <1>2, PopAllOnce, FinishJobOnce, ExecutionOnce, Zenon DEF ExecuteStep
<1>3. ASSUME NEW t \in Threads, TimerStep(t) PROVE JobOnce'
  BY <1>0, <1>3, TakeDueOnce, DistributeItemOnce, QuietOnce, Zenon DEF TimerStep
<1>4. ASSUME NEW t \in Threads, LoopStep(t) PROVE JobOnce'
  BY <1>4, ExecutionOnce, QuietOnce, Zenon DEF LoopStep
<1>5. ASSUME NEW t \in Threads, Environment(t) PROVE JobOnce'
  BY <1>0, <1>5, PostOnce, ReserveOnce, Zenon DEF Environment
<1>6. CASE (\E q \in Queues : Expire(q)) \/ UNCHANGED vars
  BY <1>6, QuietOnce, Zenon
<1> QED BY <1>1, <1>2, <1>3, <1>4, <1>5, <1>6, Zenon DEF Next, ThreadStep

LEMMA BatchStep == IndInv /\ BatchOK /\ [Next]_vars => BatchOK'
<1> SUFFICES ASSUME IndInv, BatchOK, [Next]_vars PROVE BatchOK'
  BY Zenon
<1>0. \A t \in Threads : executing[t] \in ExecFrame /\ executing \in [Threads -> ExecFrame]
  BY Zenon DEF IndInv, TypeOK
<1>1. CASE executing' = executing
  BY <1>1, Zenon DEF BatchOK
<1>2. ASSUME NEW t \in Threads, NEW h, executing' = [executing EXCEPT ![t] = h],
             h.pc \in {"idle", "pop", "check"} => h.batch = <<>>
      PROVE  BatchOK'
  BY <1>0, <1>2, Zenon DEF BatchOK
<1>3. ASSUME NEW t \in Threads, ExecuteStep(t) \/ PopGlobal(t) \/ ExecuteInline(t)
      PROVE  BatchOK'
  <2> DEFINE e == executing[t]
  <2>1. CASE PopGlobal(t) \/ ExecuteInline(t) \/ Yield(t)
    <3>1. NoExec.batch = <<>> /\ \A q : StartExec(q).batch = <<>>
      BY Zenon DEF NoExec, StartExec
    <3> QED BY <1>2, <2>1, <3>1, Zenon DEF PopGlobal, ExecuteInline, Yield
  <2>2. CASE PopAll(t)
    <3>1. [e EXCEPT !.pc = "run", !.batch = jobs[e.q], !.n = Len(jobs[e.q])].pc = "run"
      BY <1>0, Zenon DEF ExecFrame
    <3> QED BY <1>2, <2>2, <3>1, Zenon DEF PopAll
  <2>3. CASE StartJob(t)
    <3>1. [e EXCEPT !.pc = "job"].pc = "job"
      BY <1>0, Zenon DEF ExecFrame
    <3> QED BY <1>2, <2>3, <3>1, Zenon DEF StartJob
  <2>4. CASE FinishJob(t)
    <3>1. [e EXCEPT !.pc = "run", !.batch = Tail(e.batch)].pc = "run"
      BY <1>0, Zenon DEF ExecFrame
    <3> QED BY <1>2, <2>4, <3>1, Zenon DEF FinishJob
  <2>5. CASE LoopAgain(t)
    <3>1. [e EXCEPT !.pc = "pop"].batch = e.batch /\ e.batch = <<>>
      BY <1>0, <2>5, Zenon DEF ExecFrame, LoopAgain, BatchOK
    <3> QED BY <1>2, <2>5, <3>1, Zenon DEF LoopAgain
  <2>6. CASE FetchSub(t)
    <3>1. [e EXCEPT !.pc = "check", !.n = 0].batch = e.batch /\ e.batch = <<>>
      BY <1>0, <2>6, Zenon DEF ExecFrame, FetchSub
    <3>2. NoExec.batch = <<>>
      BY Zenon DEF NoExec
    <3> QED BY <1>2, <2>6, <3>1, <3>2, Zenon DEF FetchSub
  <2> QED BY <1>3, <2>1, <2>2, <2>3, <2>4, <2>5, <2>6, Zenon DEF ExecuteStep
<1>4. ASSUME NEW t \in Threads, ThreadStep(t) \/ Environment(t)
      PROVE  ExecuteStep(t) \/ PopGlobal(t) \/ ExecuteInline(t) \/ executing' = executing
  BY <1>4, Zenon DEF ThreadStep, PushStep, TimerStep, LoopStep, AppendJob, HandOver,
                     EnterDistribute, TakeDue, DistributeItem, LeaveDistribute, EndDispatch,
                     EndLoop, Environment, Post, Reserve
<1>5. ASSUME (\E q \in Queues : Expire(q)) \/ UNCHANGED vars PROVE executing' = executing
  BY <1>5, Zenon DEF Expire, vars
<1> QED BY <1>1, <1>3, <1>4, <1>5, Zenon DEF Next

LEMMA OrderInit == Init => OrderInv
<1> SUFFICES ASSUME Init PROVE OrderInv
  BY Zenon
<1>1. BatchOK
  BY Zenon DEF Init, BatchOK, NoExec
<1>2. \A j \in Jobs : ~Entered(j) /\ ~Ahead(j)
  BY NothingInEmpty, Zenon DEF Init, Entered, Ahead, InTimer, IsDue, IsPushed, NoExec, NoPush
<1>3. \A j \in Jobs : OnceFor(j)
  BY <1>2, Zenon DEF OnceFor, Ahead
<1>4. OneOwner(timerItems) /\ \A t \in Threads : OneOwner(due[t])
  BY Zenon DEF Init, OneOwner
<1> QED BY <1>1, <1>3, <1>4, Zenon DEF OrderInv, JobOnce

LEMMA OrderInvariance == Spec => [](IndInv /\ OrderInv)
<1>1. (IndInv /\ OrderInv) /\ [Next]_vars => (IndInv /\ OrderInv)'
  BY StepInv, OnceStep, BatchStep, Zenon DEF OrderInv
<1> QED BY <1>1, InitInv, OrderInit, PTL DEF Spec

-----------------------------------------------------------------------------
(* The refinement of SerialExecutor *)

LEMMA OfJobs ==
    \A s \in Seq(Jobs) : /\ DOMAIN s = 1..Len(s)
                         /\ <<>> \o s = s /\ s \o <<>> = s
                         /\ s # <<>> => Head(s) \in Jobs /\ Tail(s) \in Seq(Jobs)
  OBVIOUS

LEMMA ConcatOfJobs ==
    \A s, u \in Seq(Jobs) :
        /\ s \o u \in Seq(Jobs)
        /\ \A x \in Jobs : Append(s \o u, x) = s \o Append(u, x)
  OBVIOUS

LEMMA FirstOfConcat ==
    ASSUME NEW S, NEW s \in Seq(S), NEW u \in Seq(S), s # <<>>
    PROVE  s \o u # <<>> /\ Head(s \o u) = Head(s) /\ Tail(s \o u) = Tail(s) \o u
  OBVIOUS

LEMMA ContainsConcat ==
    ASSUME NEW S, NEW s \in Seq(S), NEW u \in Seq(S), NEW y, Contains(s \o u, y)
    PROVE  Contains(s, y) \/ Contains(u, y)
<1>1. PICK i \in 1..Len(s \o u) : (s \o u)[i] = y
  BY Zenon DEF Contains
<1>2. Len(s) \in Nat /\ Len(u) \in Nat /\ Len(s \o u) = Len(s) + Len(u)
  OBVIOUS
<1>3. CASE i <= Len(s)
  BY <1>1, <1>2, <1>3 DEF Contains
<1>4. CASE i > Len(s)
  <2>1. i - Len(s) \in 1..Len(u) /\ u[i - Len(s)] = y
    BY <1>1, <1>2, <1>4
  <2> QED BY <2>1 DEF Contains
<1> QED BY <1>2, <1>3, <1>4

\* What the executor of a queue shows of it.
ShownWaiting(e, q) == (IF e.pc = "job" THEN Tail(e.batch) ELSE e.batch) \o jobs[q]

ShownRunning(e) == IF e.pc = "job" THEN Head(e.batch) ELSE NoJob

LEMMA Shown ==
    ASSUME IndInv, NEW p \in Queues, NEW t \in Threads, executing[t].q = p
    PROVE  /\ WaitingJobs[p] = ShownWaiting(executing[t], p)
           /\ RunningJob[p] = ShownRunning(executing[t])
<1>1. \A u \in Threads : executing[u].q = p => u = t
  BY CountOf, Zenon
<1>2. (CHOOSE u \in Threads : executing[u].q = p) = t
  BY <1>1, Zenon
<1>3. BatchOf(p) = executing[t].batch /\ (JobRunning(p) <=> executing[t].pc = "job")
  BY <1>1, <1>2, Zenon DEF BatchOf, JobRunning, InJob
<1> QED BY <1>3, Zenon DEF WaitingJobs, RunningJob, ShownWaiting, ShownRunning

LEMMA ShownAfter ==
    ASSUME IndInv', NEW p \in Queues, NEW t \in Threads, executing'[t].q = p
    PROVE  /\ WaitingJobs'[p] = ShownWaiting(executing[t], p)'
           /\ RunningJob'[p] = ShownRunning(executing[t])'
<1>1. \A u \in Threads : executing'[u].q = p => u = t
  BY Zenon DEF IndInv, CoreInv, OneResponsible, OneResponsibleFor, Responsible
<1>2. (CHOOSE u \in Threads : executing'[u].q = p) = t
  BY <1>1, Zenon
<1>3. BatchOf(p)' = executing'[t].batch /\ (JobRunning(p)' <=> executing'[t].pc = "job")
  BY <1>1, <1>2, Zenon DEF BatchOf, JobRunning, InJob
<1> QED BY <1>3, Zenon DEF WaitingJobs, RunningJob, ShownWaiting, ShownRunning

\* A queue nobody executes, or whose executor is before or after its batch.
Between(e, q) == \A t \in Threads : e[t].q = q => e[t].batch = <<>> /\ e[t].pc # "job"

LEMMA ShownBetween ==
    ASSUME IndInv, NEW p \in Queues, Between(executing, p)
    PROVE  WaitingJobs[p] = jobs[p] /\ RunningJob[p] = NoJob
<1>1. <<>> \o jobs[p] = jobs[p]
  BY OfJobs, Zenon DEF IndInv, TypeOK
<1>2. CASE \E t \in Threads : executing[t].q = p
  <2>1. PICK t \in Threads : executing[t].q = p
    BY <1>2, Zenon
  <2> QED BY <1>1, <2>1, Shown, Zenon DEF ShownWaiting, ShownRunning, Between
<1>3. CASE \A t \in Threads : executing[t].q # p
  <2>1. BatchOf(p) = <<>> /\ ~JobRunning(p)
    BY <1>3, Zenon DEF BatchOf, JobRunning
  <2> QED BY <1>1, <2>1, Zenon DEF WaitingJobs, RunningJob
<1> QED BY <1>2, <1>3, Zenon

LEMMA ShownBetweenAfter ==
    ASSUME IndInv', NEW p \in Queues, Between(executing', p)
    PROVE  WaitingJobs'[p] = jobs'[p] /\ RunningJob'[p] = NoJob
<1>1. <<>> \o jobs'[p] = jobs'[p]
  BY OfJobs, Zenon DEF IndInv, TypeOK
<1>2. CASE \E t \in Threads : executing'[t].q = p
  <2>1. PICK t \in Threads : executing'[t].q = p
    BY <1>2, Zenon
  <2> QED BY <1>1, <2>1, ShownAfter, Zenon DEF ShownWaiting, ShownRunning, Between
<1>3. CASE \A t \in Threads : executing'[t].q # p
  <2>1. BatchOf(p)' = <<>> /\ ~JobRunning(p)'
    BY <1>3, Zenon DEF BatchOf, JobRunning
  <2> QED BY <1>1, <2>1, Zenon DEF WaitingJobs, RunningJob
<1> QED BY <1>2, <1>3, Zenon

\* The step does not show in queue p.
ViewKept(p) == WaitingJobs'[p] = WaitingJobs[p] /\ RunningJob'[p] = RunningJob[p]

\* What is shown of a queue depends on its executor's frame and its jobs only.
LEMMA OtherQueue ==
    ASSUME IndInv, IndInv', NEW p \in Queues, jobs'[p] = jobs[p],
           \A u \in Threads : executing'[u].q = p <=> executing[u].q = p,
           \A u \in Threads : executing[u].q = p => executing'[u] = executing[u]
    PROVE  ViewKept(p)
<1>1. CASE \E t \in Threads : executing[t].q = p
  <2>1. PICK t \in Threads : executing[t].q = p
    BY <1>1, Zenon
  <2>2. executing'[t] = executing[t] /\ executing'[t].q = p
    BY <2>1, Zenon
  <2>3. /\ ShownWaiting(executing[t], p)' = ShownWaiting(executing[t], p)
        /\ ShownRunning(executing[t])' = ShownRunning(executing[t])
    BY <2>2, Zenon DEF ShownWaiting, ShownRunning
  <2>4. WaitingJobs[p] = ShownWaiting(executing[t], p) /\ RunningJob[p] = ShownRunning(executing[t])
    BY <2>1, Shown, Zenon
  <2>5. /\ WaitingJobs'[p] = ShownWaiting(executing[t], p)'
        /\ RunningJob'[p] = ShownRunning(executing[t])'
    BY <2>2, ShownAfter, Zenon
  <2> QED BY <2>3, <2>4, <2>5, Zenon DEF ViewKept
<1>2. CASE \A t \in Threads : executing[t].q # p
  <2>1. Between(executing, p) /\ Between(executing', p)
    BY <1>2, Zenon DEF Between
  <2> QED BY <2>1, ShownBetween, ShownBetweenAfter, Zenon DEF ViewKept
<1> QED BY <1>1, <1>2, Zenon

LEMMA BothBetween ==
    ASSUME IndInv, IndInv', NEW p \in Queues, jobs'[p] = jobs[p],
           Between(executing, p), Between(executing', p)
    PROVE  ViewKept(p)
  BY ShownBetween, ShownBetweenAfter, Zenon DEF ViewKept

\* A step that shows in no queue and finishes no job is a stutter.
LEMMA Stutter ==
    ASSUME \A p \in Queues : ViewKept(p), ran' = ran
    PROVE  UNCHANGED Executor!vars
<1>1. WaitingJobs' = WaitingJobs
  BY Zenon DEF ViewKept, WaitingJobs
<1>2. RunningJob' = RunningJob
  BY Zenon DEF ViewKept, RunningJob
<1> QED BY <1>1, <1>2, Zenon DEF Executor!vars

\* The step of thread t changes no frame but its own.
LEMMA OthersKept ==
    ASSUME IndInv, IndInv', NEW t \in Threads, NEW q \in Queues, NEW h,
           executing' = [executing EXCEPT ![t] = h],
           h.q \in {q, NoQueue}, executing[t].q \in {q, NoQueue},
           NEW p \in Queues, p # q, jobs'[p] = jobs[p]
    PROVE  ViewKept(p)
<1>1. executing'[t] = h /\ \A u \in Threads : u # t => executing'[u] = executing[u]
  BY Zenon DEF IndInv, TypeOK
<1>2. h.q # p /\ executing[t].q # p
  <2>1. NoQueue # p
    BY JobQueueAssumption, Zenon
  <2>2. (h.q = q \/ h.q = NoQueue) /\ (executing[t].q = q \/ executing[t].q = NoQueue)
    BY Zenon
  <2>3. \A x : x = q \/ x = NoQueue => p # x
    BY <2>1, Zenon
  <2> QED BY <2>2, <2>3, Zenon
<1>3. /\ \A u \in Threads : executing'[u].q = p <=> executing[u].q = p
      /\ \A u \in Threads : executing[u].q = p => executing'[u] = executing[u]
  BY <1>1, <1>2, Zenon
<1> QED BY <1>3, OtherQueue, Zenon

\* An executor that begins, ends or moves between two batches.
LEMMA BetweenStep ==
    ASSUME IndInv, IndInv', NEW t \in Threads, NEW q \in Queues, NEW h,
           executing' = [executing EXCEPT ![t] = h],
           h.q \in {q, NoQueue}, executing[t].q \in {q, NoQueue},
           h.batch = <<>>, h.pc # "job",
           Between(executing, q), jobs' = jobs, ran' = ran
    PROVE  UNCHANGED Executor!vars
<1>1. Between(executing', q)
  <2>1. executing'[t] = h /\ \A u \in Threads : u # t => executing'[u] = executing[u]
    BY Zenon DEF IndInv, TypeOK
  <2> QED BY <2>1, Zenon DEF Between
<1>2. ViewKept(q)
  BY <1>1, BothBetween, Zenon
<1>3. \A p \in Queues : p # q => ViewKept(p)
  BY OthersKept, Zenon
<1> QED BY <1>2, <1>3, Stutter, Zenon

LEMMA SameFrames ==
    ASSUME IndInv, IndInv', executing' = executing, jobs' = jobs, ran' = ran
    PROVE  UNCHANGED Executor!vars
<1>1. \A p \in Queues : ViewKept(p)
  BY OtherQueue, Zenon
<1> QED BY <1>1, Stutter, Zenon

LEMMA ExecuteInlineHidden ==
    ASSUME IndInv, IndInv', NEW t \in Threads, ExecuteInline(t)
    PROVE  UNCHANGED Executor!vars
<1> DEFINE f == pushing[t]
<1>1. /\ f.pc = "handover" /\ f.q \in Queues /\ f.prev = 0
      /\ executing[t].q = NoQueue /\ NoQueue \notin Queues
  BY JobQueueAssumption, Zenon
     DEF ExecuteInline, LCurrentJobQueue, FramesOK, TypeOK, PushFrame, IndInv, CoreInv
<1>0. PICK q \in Queues : q = f.q
  BY <1>1, Zenon
<1>2. /\ executing' = [executing EXCEPT ![t] = StartExec(q)]
      /\ jobs' = jobs /\ ran' = ran
  BY <1>0, Zenon DEF ExecuteInline, queueVars
<1>3. StartExec(q).q = q /\ StartExec(q).batch = <<>> /\ StartExec(q).pc # "job"
  BY Zenon DEF StartExec
<1>4. Between(executing, q)
  BY <1>0, <1>1, Zenon DEF Between, IndInv, CoreInv, OneResponsible, OneResponsibleFor, Responsible
<1> QED BY <1>1, <1>2, <1>3, <1>4, BetweenStep, Zenon

LEMMA PopGlobalHidden ==
    ASSUME IndInv, IndInv', NEW t \in Threads, PopGlobal(t)
    PROVE  UNCHANGED Executor!vars
<1>1. /\ globalQueue # <<>> /\ globalQueue \in Seq(Queues)
      /\ executing[t].q = NoQueue
      /\ executing' = [executing EXCEPT ![t] = StartExec(Head(globalQueue))]
      /\ jobs' = jobs /\ ran' = ran
  BY Zenon DEF PopGlobal, AtLoop, TypeOK, FramesOK, IndInv, CoreInv
<1>0. PICK q \in Queues : q = Head(globalQueue)
  BY <1>1, ContainsTail, Zenon DEF IndInv, CoreInv, GlobalQueueDistinct
<1>2. InGlobal(q)
  BY <1>0, <1>1, ContainsRest, Zenon DEF InGlobal
<1>3. StartExec(q).q = q /\ StartExec(q).batch = <<>> /\ StartExec(q).pc # "job"
  BY Zenon DEF StartExec
<1>4. Between(executing, q)
  BY <1>2, Zenon DEF Between, IndInv, CoreInv, OneResponsible, OneResponsibleFor, Responsible
<1> QED BY <1>0, <1>1, <1>3, <1>4, BetweenStep, Zenon

\* The end of a batch and what follows it.
LEMMA BatchEndHidden ==
    ASSUME IndInv, BatchOK, IndInv', NEW t \in Threads, FetchSub(t) \/ LoopAgain(t) \/ Yield(t)
    PROVE  UNCHANGED Executor!vars
<1> DEFINE e == executing[t]
<1>1. /\ e \in ExecFrame /\ e.q \in Queues /\ e.batch = <<>> /\ e.pc # "job"
      /\ jobs' = jobs /\ ran' = ran
  <2>1. e \in ExecFrame /\ e.pc \in {"run", "check"} /\ e.batch = <<>>
        /\ jobs' = jobs /\ ran' = ran
    BY Zenon DEF IndInv, TypeOK, BatchOK, FetchSub, LoopAgain, Yield, queueVars
  <2>2. e.q \in Queues
    BY <2>1, Zenon DEF ExecFrame, FramesOK, IndInv, CoreInv
  <2> QED BY <2>1, <2>2, Zenon
<1>0. PICK q \in Queues : q = e.q
  BY <1>1, Zenon
<1>2. Between(executing, q)
  <2>1. \A u \in Threads : executing[u].q = q => u = t
    BY <1>0, CountOf, Zenon
  <2> QED BY <1>1, <2>1, Zenon DEF Between
<1>3. \E h : /\ executing' = [executing EXCEPT ![t] = h]
             /\ h.q \in {q, NoQueue} /\ h.batch = <<>> /\ h.pc # "job"
  <2>1. /\ NoExec.q = NoQueue /\ NoExec.batch = <<>> /\ NoExec.pc # "job"
    BY Zenon DEF NoExec
  <2>2. CASE FetchSub(t)
    <3>1. /\ [e EXCEPT !.pc = "check", !.n = 0].q = q
          /\ [e EXCEPT !.pc = "check", !.n = 0].batch = <<>>
          /\ [e EXCEPT !.pc = "check", !.n = 0].pc # "job"
      BY <1>0, <1>1, Zenon DEF ExecFrame
    <3> QED BY <2>1, <2>2, <3>1, Zenon DEF FetchSub
  <2>3. CASE LoopAgain(t)
    <3>1. /\ [e EXCEPT !.pc = "pop"].q = q /\ [e EXCEPT !.pc = "pop"].batch = <<>>
          /\ [e EXCEPT !.pc = "pop"].pc # "job"
      BY <1>0, <1>1, Zenon DEF ExecFrame
    <3> QED BY <2>3, <3>1, Zenon DEF LoopAgain
  <2>4. CASE Yield(t)
    BY <2>1, <2>4, Zenon DEF Yield
  <2> QED BY <2>2, <2>3, <2>4, Zenon
<1> QED BY <1>0, <1>1, <1>2, <1>3, BetweenStep, Zenon

\* pop_all moves the jobs from _jobs to the batch: in both they wait in order.
LEMMA PopAllHidden ==
    ASSUME IndInv, BatchOK, IndInv', NEW t \in Threads, PopAll(t)
    PROVE  UNCHANGED Executor!vars
<1> DEFINE e == executing[t]
           h == [e EXCEPT !.pc = "run", !.batch = jobs[e.q], !.n = Len(jobs[e.q])]
<1>1. /\ e.pc = "pop" /\ e.batch = <<>> /\ e \in ExecFrame /\ e.q \in Queues
      /\ executing' = [executing EXCEPT ![t] = h]
      /\ jobs' = [jobs EXCEPT ![e.q] = <<>>] /\ ran' = ran
  BY Zenon DEF PopAll, JobsTaken, TypeOK, FramesOK, ExecFrame, IndInv, CoreInv, BatchOK
<1>0. PICK q \in Queues : q = e.q
  BY <1>1, Zenon
<1>2. h.pc = "run" /\ h.q = q /\ h.batch = jobs[q]
  BY <1>0, <1>1, Zenon DEF ExecFrame
<1>3. executing'[t] = h /\ jobs'[q] = <<>> /\ \A p \in Queues : p # q => jobs'[p] = jobs[p]
  BY <1>0, <1>1, Zenon DEF IndInv, TypeOK
<1>4. ViewKept(q)
  <2>1. Between(executing, q)
    <3>1. \A u \in Threads : executing[u].q = q => u = t
      BY <1>0, CountOf, Zenon
    <3> QED BY <1>1, <3>1, Zenon DEF Between
  <2>2. WaitingJobs[q] = jobs[q] /\ RunningJob[q] = NoJob
    BY <2>1, ShownBetween, Zenon
  <2>3. jobs[q] \o <<>> = jobs[q]
    BY OfJobs, Zenon DEF IndInv, TypeOK
  <2>4. ShownWaiting(executing[t], q)' = jobs[q] /\ ShownRunning(executing[t])' = NoJob
    BY <1>2, <1>3, <2>3, Zenon DEF ShownWaiting, ShownRunning
  <2>5. /\ WaitingJobs'[q] = ShownWaiting(executing[t], q)'
        /\ RunningJob'[q] = ShownRunning(executing[t])'
    BY <1>2, <1>3, ShownAfter, Zenon
  <2> QED BY <2>2, <2>4, <2>5, Zenon DEF ViewKept
<1>5. ASSUME NEW p \in Queues, p # q PROVE ViewKept(p)
  BY <1>0, <1>1, <1>2, <1>3, <1>5, OthersKept, Zenon
<1> QED BY <1>1, <1>4, <1>5, Stutter, Zenon

\* The queues other than q keep what they show: the rest of a function EXCEPT.
LEMMA OneQueueChanged ==
    ASSUME NEW q \in Queues, \A p \in Queues : p # q => ViewKept(p)
    PROVE  /\ WaitingJobs' = [WaitingJobs EXCEPT ![q] = WaitingJobs'[q]]
           /\ RunningJob' = [RunningJob EXCEPT ![q] = RunningJob'[q]]
<1>1. /\ WaitingJobs = [p \in Queues |-> WaitingJobs[p]]
      /\ WaitingJobs' = [p \in Queues |-> WaitingJobs'[p]]
      /\ RunningJob = [p \in Queues |-> RunningJob[p]]
      /\ RunningJob' = [p \in Queues |-> RunningJob'[p]]
  BY Zenon DEF WaitingJobs, RunningJob
<1> QED BY <1>1, Zenon DEF ViewKept

LEMMA StartJobStarts ==
    ASSUME IndInv, IndInv', NEW t \in Threads, StartJob(t)
    PROVE  \E q \in Queues : Executor!Start(q)
<1> DEFINE e == executing[t]
           h == [e EXCEPT !.pc = "job"]
<1>1. /\ e.pc = "run" /\ e.batch # <<>> /\ e \in ExecFrame /\ e.q \in Queues
      /\ executing' = [executing EXCEPT ![t] = h]
      /\ jobs' = jobs /\ ran' = ran
  BY Zenon DEF StartJob, queueVars, TypeOK, FramesOK, ExecFrame, IndInv, CoreInv
<1>0. PICK q \in Queues : q = e.q
  BY <1>1, Zenon
<1>2. h.pc = "job" /\ h.q = q /\ h.batch = e.batch
  BY <1>0, <1>1, Zenon DEF ExecFrame
<1>3. executing'[t] = h /\ e.batch \in Seq(Jobs) /\ jobs[q] \in Seq(Jobs)
  BY <1>1, Zenon DEF IndInv, TypeOK, ExecFrame
<1>4. WaitingJobs[q] = e.batch \o jobs[q] /\ RunningJob[q] = NoJob
  <2>1. WaitingJobs[q] = ShownWaiting(e, q) /\ RunningJob[q] = ShownRunning(e)
    BY <1>0, Shown, Zenon
  <2> QED BY <1>1, <2>1, Zenon DEF ShownWaiting, ShownRunning
<1>5. WaitingJobs'[q] = Tail(e.batch) \o jobs[q] /\ RunningJob'[q] = Head(e.batch)
  <2>1. /\ WaitingJobs'[q] = ShownWaiting(executing[t], q)'
        /\ RunningJob'[q] = ShownRunning(executing[t])'
    BY <1>2, <1>3, ShownAfter, Zenon
  <2> QED BY <1>1, <1>2, <1>3, <2>1, Zenon DEF ShownWaiting, ShownRunning
<1>6. ASSUME NEW p \in Queues, p # q PROVE ViewKept(p)
  BY <1>0, <1>1, <1>2, <1>6, OthersKept, Zenon
<1>7. /\ WaitingJobs[q] # <<>> /\ RunningJob'[q] = Head(WaitingJobs[q])
      /\ WaitingJobs'[q] = Tail(WaitingJobs[q])
  <2>1. /\ e.batch \o jobs[q] # <<>> /\ Head(e.batch \o jobs[q]) = Head(e.batch)
        /\ Tail(e.batch \o jobs[q]) = Tail(e.batch) \o jobs[q]
    BY <1>1, <1>3, FirstOfConcat, Zenon
  <2> QED BY <1>4, <1>5, <2>1, Zenon
<1>8. /\ WaitingJobs' = [WaitingJobs EXCEPT ![q] = WaitingJobs'[q]]
      /\ RunningJob' = [RunningJob EXCEPT ![q] = RunningJob'[q]]
  BY <1>6, OneQueueChanged, Zenon
<1>9. Executor!Start(q)
  BY <1>1, <1>4, <1>7, <1>8, Zenon DEF Executor!Start
<1> QED BY <1>9, Zenon

LEMMA FinishJobFinishes ==
    ASSUME IndInv, IndInv', NEW t \in Threads, FinishJob(t)
    PROVE  \E q \in Queues : Executor!Finish(q)
<1> DEFINE e == executing[t]
           h == [e EXCEPT !.pc = "run", !.batch = Tail(e.batch)]
<1>1. /\ e.pc = "job" /\ e.batch # <<>> /\ e \in ExecFrame /\ e.q \in Queues
      /\ executing' = [executing EXCEPT ![t] = h]
      /\ ran' = [ran EXCEPT ![e.q] = Append(@, Head(e.batch))] /\ jobs' = jobs
  BY Zenon DEF FinishJob, queueVars, TypeOK, FramesOK, ExecFrame, IndInv, CoreInv
<1>0. PICK q \in Queues : q = e.q
  BY <1>1, Zenon
<1>2. h.pc = "run" /\ h.q = q /\ h.batch = Tail(e.batch)
  BY <1>0, <1>1, Zenon DEF ExecFrame
<1>3. executing'[t] = h /\ e.batch \in Seq(Jobs)
  BY <1>1, Zenon DEF IndInv, TypeOK, ExecFrame
<1>4. Head(e.batch) \in Jobs
  BY <1>1, <1>3, OfJobs, Zenon
<1>5. WaitingJobs[q] = Tail(e.batch) \o jobs[q] /\ RunningJob[q] = Head(e.batch)
  <2>1. WaitingJobs[q] = ShownWaiting(e, q) /\ RunningJob[q] = ShownRunning(e)
    BY <1>0, Shown, Zenon
  <2> QED BY <1>1, <2>1, Zenon DEF ShownWaiting, ShownRunning
<1>6. WaitingJobs'[q] = Tail(e.batch) \o jobs[q] /\ RunningJob'[q] = NoJob
  <2>1. /\ WaitingJobs'[q] = ShownWaiting(executing[t], q)'
        /\ RunningJob'[q] = ShownRunning(executing[t])'
    BY <1>2, <1>3, ShownAfter, Zenon
  <2> QED BY <1>1, <1>2, <1>3, <2>1, Zenon DEF ShownWaiting, ShownRunning
<1>7. ASSUME NEW p \in Queues, p # q PROVE ViewKept(p)
  BY <1>0, <1>1, <1>2, <1>7, OthersKept, Zenon
<1>8. /\ WaitingJobs' = [WaitingJobs EXCEPT ![q] = WaitingJobs'[q]]
      /\ RunningJob' = [RunningJob EXCEPT ![q] = RunningJob'[q]]
  BY <1>7, OneQueueChanged, Zenon
<1>9. WaitingJobs' = WaitingJobs
  BY <1>5, <1>6, <1>8, Zenon DEF WaitingJobs
<1>10. RunningJob[q] # NoJob
  BY <1>4, <1>5, JobQueueAssumption, Zenon
<1>11. Executor!Finish(q)
  BY <1>0, <1>1, <1>5, <1>6, <1>8, <1>9, <1>10, Zenon DEF Executor!Finish
<1> QED BY <1>11, Zenon

\* Everything a queue shows has entered.
LEMMA SubmittedEntered ==
    ASSUME IndInv, NEW p \in Queues, NEW j \in Jobs, j \in Executor!Submitted(p)
    PROVE  Entered(j)
<1>1. jobs[p] \in Seq(Jobs) /\ ran[p] \in Seq(Jobs)
  BY Zenon DEF IndInv, TypeOK
<1>2. ASSUME NEW s \in Seq(Jobs), j \in Executor!ToSet(s) PROVE Contains(s, j)
  <2>1. DOMAIN s = 1..Len(s)
    BY OfJobs, Zenon
  <2> QED BY <1>2, <2>1, Zenon DEF Executor!ToSet, Contains
<1>3. NoJob # j
  BY JobQueueAssumption, Zenon
<1>4. CASE j \in Executor!ToSet(ran[p])
  BY <1>1, <1>2, <1>4, Zenon DEF Entered
<1>5. CASE \A t \in Threads : executing[t].q # p
  <2>1. WaitingJobs[p] = jobs[p] /\ RunningJob[p] = NoJob
    <3>1. Between(executing, p)
      BY <1>5, Zenon DEF Between
    <3> QED BY <3>1, ShownBetween, Zenon
  <2>2. j \in Executor!ToSet(jobs[p]) \/ j \in Executor!ToSet(ran[p])
    BY <1>3, <2>1, Zenon DEF Executor!Submitted
  <2> QED BY <1>1, <1>2, <1>4, <2>2, Zenon DEF Entered
<1>6. ASSUME NEW t \in Threads, executing[t].q = p, j \notin Executor!ToSet(ran[p])
      PROVE  Entered(j)
  <2> DEFINE e == executing[t]
             rest == IF e.pc = "job" THEN Tail(e.batch) ELSE e.batch
  <2>1. e.batch \in Seq(Jobs) /\ (e.pc = "job" => e.batch # <<>>)
    BY Zenon DEF IndInv, CoreInv, TypeOK, ExecFrame, FramesOK
  <2>2. e.pc = "job" => Tail(e.batch) \in Seq(Jobs)
    BY <2>1, OfJobs, Zenon
  <2>3. WaitingJobs[p] = rest \o jobs[p] /\ RunningJob[p] = ShownRunning(e)
    BY <1>6, Shown, Zenon DEF ShownWaiting
  <2>4. rest \in Seq(Jobs) /\ \A y : Contains(rest, y) => Contains(e.batch, y)
    BY <2>1, <2>2, ContainsRest, Zenon
  <2>5. rest \o jobs[p] \in Seq(Jobs)
    <3> HIDE DEF rest
    <3> QED BY <1>1, <2>4, ConcatOfJobs, Zenon
  <2>6. j \in Executor!ToSet(rest \o jobs[p]) \/ j = ShownRunning(e)
    BY <1>6, <2>3, Zenon DEF Executor!Submitted
  <2>7. CASE j \in Executor!ToSet(rest \o jobs[p])
    <3>1. Contains(rest \o jobs[p], j)
      BY <1>2, <2>5, <2>7, Zenon
    <3> HIDE DEF rest
    <3>2. Contains(rest, j) \/ Contains(jobs[p], j)
      BY <1>1, <2>4, <3>1, ContainsConcat, Zenon
    <3> QED BY <2>4, <3>2, Zenon DEF Entered
  <2>8. CASE j = ShownRunning(e)
    <3>1. e.pc = "job" /\ j = Head(e.batch)
      BY <1>3, <2>8, Zenon DEF ShownRunning
    <3>2. Contains(e.batch, j)
      BY <2>1, <3>1, ContainsRest, Zenon
    <3> QED BY <3>2, Zenon DEF Entered
  <2> QED BY <2>6, <2>7, <2>8, Zenon
<1> QED BY <1>4, <1>5, <1>6, Zenon

LEMMA AppendJobSubmits ==
    ASSUME IndInv, JobOnce, IndInv', NEW t \in Threads, AppendJob(t)
    PROVE  \E q \in Queues, j \in Jobs : Executor!Submit(q, j)
<1> DEFINE f == pushing[t]
<1>1. f.pc = "append" /\ f.q \in Queues /\ f.job \in Jobs
  BY JobQueueAssumption, Zenon DEF AppendJob, FramesOK, TypeOK, PushFrame, IndInv, CoreInv
<1>0. PICK q \in Queues, j \in Jobs : q = f.q /\ j = f.job
  BY <1>1, Zenon
<1>2. /\ jobs' = [jobs EXCEPT ![q] = Append(@, j)]
      /\ ran' = ran /\ executing' = executing
  BY <1>0, Zenon DEF AppendJob
<1>3. /\ jobs[q] \in Seq(Jobs) /\ jobs'[q] = Append(jobs[q], j)
      /\ \A p \in Queues : p # q => jobs'[p] = jobs[p]
  BY <1>2, Zenon DEF IndInv, TypeOK
<1>4. \A p \in Queues : j \notin Executor!Submitted(p)
  <2>1. IsPushed(t, j)
    BY <1>0, <1>1, Zenon DEF IsPushed
  <2>2. ~Entered(j)
    BY <2>1, Zenon DEF JobOnce, OnceFor, Ahead
  <2> QED BY <2>2, SubmittedEntered, Zenon
<1>5. ASSUME NEW p \in Queues, p # q PROVE ViewKept(p)
  BY <1>2, <1>3, <1>5, OtherQueue, Zenon
<1>6. WaitingJobs'[q] = Append(WaitingJobs[q], j) /\ RunningJob'[q] = RunningJob[q]
  <2>1. CASE \A u \in Threads : executing[u].q # q
    <3>1. Between(executing, q) /\ Between(executing', q)
      BY <1>2, <2>1, Zenon DEF Between
    <3> QED BY <1>3, <3>1, ShownBetween, ShownBetweenAfter, Zenon
  <2>2. ASSUME NEW u \in Threads, executing[u].q = q
        PROVE  WaitingJobs'[q] = Append(WaitingJobs[q], j) /\ RunningJob'[q] = RunningJob[q]
    <3> DEFINE e == executing[u]
               rest == IF e.pc = "job" THEN Tail(e.batch) ELSE e.batch
    <3>1. e.batch \in Seq(Jobs) /\ (e.pc = "job" => e.batch # <<>>)
      BY Zenon DEF IndInv, CoreInv, TypeOK, ExecFrame, FramesOK
    <3>2. e.pc = "job" => Tail(e.batch) \in Seq(Jobs)
      BY <3>1, OfJobs, Zenon
    <3>3. rest \in Seq(Jobs)
      BY <3>1, <3>2, Zenon
    <3>4. WaitingJobs[q] = rest \o jobs[q] /\ RunningJob[q] = ShownRunning(e)
      BY <2>2, Shown, Zenon DEF ShownWaiting
    <3>5. /\ WaitingJobs'[q] = ShownWaiting(executing[u], q)'
          /\ RunningJob'[q] = ShownRunning(executing[u])'
      BY <1>2, <2>2, ShownAfter, Zenon
    <3>6. WaitingJobs'[q] = rest \o Append(jobs[q], j) /\ RunningJob'[q] = ShownRunning(e)
      BY <1>2, <1>3, <3>5, Zenon DEF ShownWaiting, ShownRunning
    <3> HIDE DEF rest
    <3>7. Append(rest \o jobs[q], j) = rest \o Append(jobs[q], j)
      BY <1>3, <3>3, ConcatOfJobs, Zenon
    <3> QED BY <3>4, <3>6, <3>7, Zenon
  <2> QED BY <2>1, <2>2, Zenon
<1>7. /\ WaitingJobs' = [WaitingJobs EXCEPT ![q] = WaitingJobs'[q]]
      /\ RunningJob' = [RunningJob EXCEPT ![q] = RunningJob'[q]]
  BY <1>5, OneQueueChanged, Zenon
<1>8. RunningJob' = RunningJob
  BY <1>6, <1>7, Zenon DEF RunningJob
<1>9. Executor!Submit(q, j)
  BY <1>2, <1>4, <1>6, <1>7, <1>8, Zenon DEF Executor!Submit
<1> QED BY <1>9, Zenon

LEMMA ExecutorInit == Init => Executor!Init
<1> SUFFICES ASSUME Init PROVE Executor!Init
  BY Zenon
<1>1. IndInv
  BY InitInv, Zenon
<1>2. \A p \in Queues : Between(executing, p)
  BY JobQueueAssumption, Zenon DEF Init, NoExec, Between
<1>3. \A p \in Queues : WaitingJobs[p] = <<>> /\ RunningJob[p] = NoJob
  BY <1>1, <1>2, ShownBetween, Zenon DEF Init
<1>4. WaitingJobs = [p \in Queues |-> <<>>]
  BY <1>3, Zenon DEF WaitingJobs
<1>5. RunningJob = [p \in Queues |-> NoJob]
  BY <1>3, Zenon DEF RunningJob
<1> QED BY <1>4, <1>5, Zenon DEF Executor!Init, Init

LEMMA ExecutorStep ==
    (IndInv /\ OrderInv) /\ IndInv' /\ [Next]_vars => [Executor!Next]_(Executor!vars)
<1> SUFFICES ASSUME IndInv, JobOnce, BatchOK, IndInv', [Next]_vars
             PROVE  Executor!Next \/ UNCHANGED Executor!vars
  BY Zenon DEF OrderInv
<1>1. ASSUME NEW t \in Threads, AppendJob(t) PROVE Executor!Next
  BY <1>1, AppendJobSubmits, Zenon DEF Executor!Next
<1>2. ASSUME NEW t \in Threads, StartJob(t) PROVE Executor!Next
  BY <1>2, StartJobStarts, Zenon DEF Executor!Next
<1>3. ASSUME NEW t \in Threads, FinishJob(t) PROVE Executor!Next
  BY <1>3, FinishJobFinishes, Zenon DEF Executor!Next
<1>4. ASSUME NEW t \in Threads,
             \/ ExecuteInline(t) \/ PopGlobal(t) \/ PopAll(t) \/ FetchSub(t) \/ LoopAgain(t)
             \/ Yield(t)
      PROVE  UNCHANGED Executor!vars
  BY <1>4, ExecuteInlineHidden, PopGlobalHidden, PopAllHidden, BatchEndHidden, Zenon
<1>5. ASSUME NEW t \in Threads,
             HandOver(t) \/ TimerStep(t) \/ EndDispatch(t) \/ EndLoop(t) \/ Environment(t)
      PROVE  UNCHANGED Executor!vars
  <2>1. executing' = executing /\ jobs' = jobs /\ ran' = ran
    BY <1>5, Zenon DEF TimerStep, HandOver, EnterDistribute, TakeDue, DistributeItem,
                       LeaveDistribute, EndDispatch, EndLoop, Environment, Post, Reserve, queueVars
  <2> QED BY <2>1, SameFrames, Zenon
<1>6. ASSUME (\E q \in Queues : Expire(q)) \/ UNCHANGED vars PROVE UNCHANGED Executor!vars
  <2>1. executing' = executing /\ jobs' = jobs /\ ran' = ran
    BY <1>6, Zenon DEF Expire, vars, queueVars
  <2> QED BY <2>1, SameFrames, Zenon
<1>7. ASSUME NEW t \in Threads, ThreadStep(t) PROVE Executor!Next \/ UNCHANGED Executor!vars
  BY <1>1, <1>2, <1>3, <1>4, <1>5, <1>7, Zenon DEF ThreadStep, PushStep, ExecuteStep, LoopStep
<1> QED BY <1>5, <1>6, <1>7, Zenon DEF Next

(***************************************************************************)
(* The jobs of one queue run one at a time, in the order in which          *)
(* _jobs.push took them, and no job runs twice: JobQueue implements the    *)
(* initial states and the steps of SerialExecutor.  (That every submitted  *)
(* job is run is the fairness part of ImplementsSerialExecutor.)           *)
(***************************************************************************)
THEOREM RunsInOrder == Spec => Executor!Init /\ [][Executor!Next]_(Executor!vars)
  BY OrderInvariance, ExecutorInit, ExecutorStep, PTL DEF Spec
=============================================================================
