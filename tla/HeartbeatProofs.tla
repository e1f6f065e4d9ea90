--------------------------- MODULE HeartbeatProofs ---------------------------
(***************************************************************************)
(* Proofs about Heartbeat for any set of sessions and any period, timeout  *)
(* and delays: no healthy client is disconnected and no silent one stays   *)
(* connected beyond the bound.                                             *)
(*                                                                         *)
(* The round of checks is pinned to the tick it sampled (ThreadInv), the   *)
(* flag to the ping under way (FlagInv).  A session that waits has a ping  *)
(* no older than the timeout at the last round that looked at it, and one  *)
(* gap more while this round has still to look at it (AgeInv); an answer   *)
(* that is due is not late (DueInv).                                       *)
(***************************************************************************)
EXTENDS Heartbeat, TLAPS

\* This round has still to look at x, or is between its look at the flag and
\* the statement step.
Pending(x, step) == pc = "snapshot" \/ x \in snapshot \/ (pc = step /\ cur = x)

ThreadInv ==
    /\ hbNow <= now
    /\ pc # "wait" => now <= hbNow + Loop
    /\ pc = "wait" => now <= wakeAt + Late /\ wakeAt <= hbNow + Loop + Period
    /\ pc \in {"wait", "snapshot"} => snapshot = {}
    /\ pc \in {"expiry", "mark", "send"} => link[cur] \notin {"free", "joining"}

FlagInv ==
    \A x \in Sessions :
        /\ link[x] \in {"free", "joining"} => ~waiting[x] /\ pings[x] = 0 /\ pongs[x] = 0
        /\ link[x] = "connected" =>
             IF pc = "mark" /\ cur = x
             THEN ~waiting[x] /\ pings[x] = 0 /\ pongs[x] = 0
             ELSE IF pc = "send" /\ cur = x
             THEN waiting[x] /\ pings[x] = 0 /\ pongs[x] = 0 /\ lastPing[x] = hbNow
             ELSE /\ pings[x] = 0 \/ pongs[x] = 0
                  /\ waiting[x] <=> pings[x] = 1 \/ pongs[x] = 1

AgeInv ==
    \A x \in Sessions :
        /\ lastPing[x] <= hbNow
        /\ link[x] = "connected" /\ ~waiting[x] =>
             /\ hbNow <= aliveAt[x] + Gap
             /\ ~Pending(x, "mark") => hbNow <= aliveAt[x]
        /\ link[x] = "connected" /\ waiting[x] =>
             /\ lastPing[x] <= aliveAt[x] + Gap
             /\ hbNow <= lastPing[x] + PongTimeout + Gap
             /\ ~Pending(x, "expiry") => hbNow <= lastPing[x] + PongTimeout

DueInv ==
    /\ \A x \in Responsive : link[x] = "connected" /\ (pings[x] = 1 \/ pongs[x] = 1) =>
           /\ sentAt[x] <= lastPing[x] + Loop
           /\ now <= sentAt[x] + Delay
    /\ pc = "expiry" /\ cur \in Responsive => hbNow <= lastPing[cur] + PongTimeout

IndInv == TypeOK /\ ThreadInv /\ FlagInv /\ AgeInv /\ DueInv /\ NoFalseTimeout

-----------------------------------------------------------------------------

\* The first state satisfies the invariant.
LEMMA InitInd == Init => IndInv
  BY HeartbeatAssumption
  DEF Init, IndInv, TypeOK, ThreadInv, FlagInv, AgeInv, DueInv, NoFalseTimeout, Gap

\* A wake-up samples a tick at most one gap after the last one.
LEMMA WakeInd == IndInv /\ Wake => IndInv'
<1> SUFFICES ASSUME IndInv, Wake PROVE IndInv' OBVIOUS
<1> USE HeartbeatAssumption DEF Wake, clientVars, Gap
<1>1. TypeOK' BY DEF IndInv, TypeOK
<1>2. ThreadInv' BY DEF IndInv, TypeOK, ThreadInv
<1>3. FlagInv' BY DEF IndInv, FlagInv
<1>4. AgeInv' BY DEF IndInv, TypeOK, ThreadInv, AgeInv, Pending
<1>5. DueInv' /\ NoFalseTimeout' BY DEF IndInv, DueInv, NoFalseTimeout
<1> QED BY <1>1, <1>2, <1>3, <1>4, <1>5 DEF IndInv

\* The copy of the session set contains every connected session.
LEMMA SnapshotInd == IndInv /\ Snapshot => IndInv'
<1> SUFFICES ASSUME IndInv, Snapshot PROVE IndInv' OBVIOUS
<1> USE HeartbeatAssumption DEF Snapshot, clientVars, Gap
<1>1. TypeOK' BY DEF IndInv, TypeOK
<1>2. ThreadInv' BY DEF IndInv, TypeOK, ThreadInv
<1>3. FlagInv' BY DEF IndInv, FlagInv
<1>4. AgeInv' BY DEF IndInv, TypeOK, ThreadInv, AgeInv, Pending
<1>5. DueInv' /\ NoFalseTimeout' BY DEF IndInv, DueInv, NoFalseTimeout
<1> QED BY <1>1, <1>2, <1>3, <1>4, <1>5 DEF IndInv

\* The head of the loop: a healthy session that waits has an answer due, so its
\* ping is not older than the timeout.
LEMMA CheckNextInd == ASSUME IndInv, NEW y \in Sessions, CheckNext(y) PROVE IndInv'
<1> USE HeartbeatAssumption DEF CheckNext, clientVars, Gap, PingSteps
<1>1. TypeOK' BY DEF IndInv, TypeOK
<1>2. ThreadInv' BY DEF IndInv, TypeOK, ThreadInv
<1>3. FlagInv' BY DEF IndInv, TypeOK, FlagInv
<1>4. AgeInv' BY DEF IndInv, TypeOK, ThreadInv, AgeInv, Pending
<1>5. DueInv'
  <2>1. ASSUME pc' = "expiry", y \in Responsive
        PROVE  hbNow <= lastPing[y] + PongTimeout
    BY <2>1 DEF IndInv, TypeOK, ThreadInv, FlagInv, DueInv
  <2> QED BY <2>1 DEF IndInv, DueInv
<1>6. NoFalseTimeout' BY DEF IndInv, NoFalseTimeout
<1> QED BY <1>1, <1>2, <1>3, <1>4, <1>5, <1>6 DEF IndInv

\* The age check: what is cut is not healthy, what is kept is young enough.
LEMMA ExpiryInd == IndInv /\ Expiry => IndInv'
<1> SUFFICES ASSUME IndInv, Expiry PROVE IndInv' OBVIOUS
<1> USE HeartbeatAssumption DEF Expiry, Expired, clientVars, Gap
<1>1. TypeOK' BY DEF IndInv, TypeOK
<1>2. ThreadInv' BY DEF IndInv, TypeOK, ThreadInv
<1>3. FlagInv' BY DEF IndInv, TypeOK, FlagInv
<1>4. AgeInv' BY DEF IndInv, TypeOK, ThreadInv, AgeInv, Pending
<1>5. DueInv' BY DEF IndInv, TypeOK, DueInv
<1>6. NoFalseTimeout' BY DEF IndInv, TypeOK, DueInv, NoFalseTimeout
<1> QED BY <1>1, <1>2, <1>3, <1>4, <1>5, <1>6 DEF IndInv

\* send_ping stores this round's tick.
LEMMA MarkPingInd == IndInv /\ MarkPing => IndInv'
<1> SUFFICES ASSUME IndInv, MarkPing PROVE IndInv' OBVIOUS
<1> USE HeartbeatAssumption
    DEF MarkPing, MarkWaiting, AfterPing, PingSteps, clientVars, Gap
<1>1. TypeOK' BY DEF IndInv, TypeOK
<1>2. ThreadInv' BY DEF IndInv, TypeOK, ThreadInv
<1>3. FlagInv' BY DEF IndInv, TypeOK, ThreadInv, FlagInv
<1>4. AgeInv' BY DEF IndInv, TypeOK, ThreadInv, FlagInv, AgeInv, Pending
<1>5. DueInv' BY DEF IndInv, TypeOK, FlagInv, DueInv
<1>6. NoFalseTimeout' BY DEF IndInv, NoFalseTimeout
<1> QED BY <1>1, <1>2, <1>3, <1>4, <1>5, <1>6 DEF IndInv

\* The ping is sent within the round whose tick it carries.
LEMMA SendPingInd == IndInv /\ SendPing => IndInv'
<1> SUFFICES ASSUME IndInv, SendPing PROVE IndInv' OBVIOUS
<1> USE HeartbeatAssumption DEF SendPing, AfterPing, PingSteps, Gap
<1>1. TypeOK' BY DEF IndInv, TypeOK, FlagInv
<1>2. ThreadInv' BY DEF IndInv, TypeOK, ThreadInv
<1>3. FlagInv' BY DEF IndInv, TypeOK, ThreadInv, FlagInv
<1>4. AgeInv' BY DEF IndInv, TypeOK, ThreadInv, AgeInv, Pending
<1>5. DueInv' BY DEF IndInv, TypeOK, ThreadInv, FlagInv, DueInv
<1>6. NoFalseTimeout' BY DEF IndInv, NoFalseTimeout
<1> QED BY <1>1, <1>2, <1>3, <1>4, <1>5, <1>6 DEF IndInv

\* The end of a round sets the next wake-up.
LEMMA EndRoundInd == IndInv /\ EndRound => IndInv'
<1> SUFFICES ASSUME IndInv, EndRound PROVE IndInv' OBVIOUS
<1> USE HeartbeatAssumption DEF EndRound, clientVars, Gap
<1>1. TypeOK' BY DEF IndInv, TypeOK
<1>2. ThreadInv' BY DEF IndInv, TypeOK, ThreadInv
<1>3. FlagInv' BY DEF IndInv, FlagInv
<1>4. AgeInv' BY DEF IndInv, TypeOK, ThreadInv, AgeInv, Pending
<1>5. DueInv' /\ NoFalseTimeout' BY DEF IndInv, DueInv, NoFalseTimeout
<1> QED BY <1>1, <1>2, <1>3, <1>4, <1>5 DEF IndInv

\* The steps of a session that only change its link.
LEMMA LinkInd ==
  ASSUME IndInv, NEW y \in Sessions, AddSession(y) \/ Disconnect(y) \/ Release(y)
  PROVE  IndInv'
<1> USE HeartbeatAssumption
    DEF AddSession, Disconnect, Release, clientVars, hbVars, Gap
<1>1. TypeOK' BY DEF IndInv, TypeOK
<1>2. ThreadInv' BY DEF IndInv, TypeOK, ThreadInv
<1>3. FlagInv' BY DEF IndInv, TypeOK, FlagInv
<1>4. AgeInv' BY DEF IndInv, TypeOK, AgeInv, Pending
<1>5. DueInv' BY DEF IndInv, TypeOK, DueInv
<1>6. NoFalseTimeout' BY DEF IndInv, NoFalseTimeout
<1> QED BY <1>1, <1>2, <1>3, <1>4, <1>5, <1>6 DEF IndInv

\* A session connects: it is not waiting and is alive now.
LEMMA ProcessConnectInd == ASSUME IndInv, NEW y \in Sessions, ProcessConnect(y) PROVE IndInv'
<1> USE HeartbeatAssumption DEF ProcessConnect, hbVars, Gap
<1>1. TypeOK' BY DEF IndInv, TypeOK
<1>2. ThreadInv' BY DEF IndInv, TypeOK, ThreadInv
<1>3. FlagInv' BY DEF IndInv, TypeOK, ThreadInv, FlagInv
<1>4. AgeInv' BY DEF IndInv, TypeOK, ThreadInv, FlagInv, AgeInv, Pending
<1>5. DueInv' BY DEF IndInv, TypeOK, FlagInv, DueInv
<1>6. NoFalseTimeout' BY DEF IndInv, NoFalseTimeout
<1> QED BY <1>1, <1>2, <1>3, <1>4, <1>5, <1>6 DEF IndInv

\* The ping becomes a pong.
LEMMA AnswerInd == ASSUME IndInv, NEW y \in Sessions, Answer(y) PROVE IndInv'
<1> USE HeartbeatAssumption DEF Answer, hbVars, Gap
<1>1. TypeOK' BY DEF IndInv, TypeOK, FlagInv
<1>2. ThreadInv' BY DEF IndInv, ThreadInv
<1>3. FlagInv' BY DEF IndInv, TypeOK, FlagInv
<1>4. AgeInv' BY DEF IndInv, AgeInv, Pending
<1>5. DueInv' BY DEF IndInv, TypeOK, DueInv
<1>6. NoFalseTimeout' BY DEF IndInv, NoFalseTimeout
<1> QED BY <1>1, <1>2, <1>3, <1>4, <1>5, <1>6 DEF IndInv

\* The pong's handler clears the flag; the session is alive now.
LEMMA HandlePongInd == ASSUME IndInv, NEW y \in Sessions, HandlePong(y) PROVE IndInv'
<1> USE HeartbeatAssumption DEF HandlePong, hbVars, Gap
<1>1. TypeOK' BY DEF IndInv, TypeOK
<1>2. ThreadInv' BY DEF IndInv, ThreadInv
<1>3. FlagInv' BY DEF IndInv, TypeOK, FlagInv
<1>4. AgeInv' BY DEF IndInv, TypeOK, ThreadInv, AgeInv, Pending
<1>5. DueInv' BY DEF IndInv, TypeOK, DueInv
<1>6. NoFalseTimeout' BY DEF IndInv, NoFalseTimeout
<1> QED BY <1>1, <1>2, <1>3, <1>4, <1>5, <1>6 DEF IndInv

\* Time passes no further than the deadlines allow.
LEMMA TickInd == IndInv /\ Tick => IndInv'
<1> SUFFICES ASSUME IndInv, Tick PROVE IndInv' OBVIOUS
<1> USE HeartbeatAssumption DEF Tick, clientVars, hbVars, Gap
<1>1. TypeOK' BY DEF IndInv, TypeOK
<1>2. ThreadInv' BY DEF IndInv, TypeOK, ThreadInv
<1>3. FlagInv' BY DEF IndInv, FlagInv
<1>4. AgeInv' BY DEF IndInv, AgeInv, Pending
<1>5. DueInv' BY DEF IndInv, TypeOK, DueInv, AnswerDue
<1>6. NoFalseTimeout' BY DEF IndInv, NoFalseTimeout
<1> QED BY <1>1, <1>2, <1>3, <1>4, <1>5, <1>6 DEF IndInv

\* A stuttering step preserves the invariant.
LEMMA StutterInd == IndInv /\ UNCHANGED vars => IndInv'
  BY DEF vars, hbVars, clientVars, IndInv, TypeOK, ThreadInv, FlagInv, AgeInv, DueInv,
         NoFalseTimeout, Pending

\* Every step preserves the invariant.
LEMMA NextInd == IndInv /\ [Next]_vars => IndInv'
<1> SUFFICES ASSUME IndInv, [Next]_vars PROVE IndInv' OBVIOUS
<1> HIDE DEF IndInv
<1>1. CASE Round
  BY <1>1, WakeInd, SnapshotInd, CheckNextInd, ExpiryInd, MarkPingInd, SendPingInd,
     EndRoundInd DEF Round
<1>2. CASE \E x \in Sessions : Client(x)
  BY <1>2, LinkInd, ProcessConnectInd, AnswerInd, HandlePongInd DEF Client
<1>3. CASE Tick BY <1>3, TickInd
<1>4. CASE UNCHANGED vars BY <1>4, StutterInd
<1> QED BY <1>1, <1>2, <1>3, <1>4 DEF Next

\* The invariant holds in every reachable state.
LEMMA Inductive == Spec => []IndInv
  BY InitInd, NextInd, PTL DEF Spec

\* The state has its type; at most one ping of a session is under way.
THEOREM TypeCorrect == Spec => []TypeOK
<1>1. IndInv => TypeOK BY DEF IndInv
<1> QED BY <1>1, Inductive, PTL

\* check_heartbeat never disconnects a session whose client answers within the
\* timeout less one round.
THEOREM HealthyStays == Spec => []NoFalseTimeout
<1>1. IndInv => NoFalseTimeout BY DEF IndInv
<1> QED BY <1>1, Inductive, PTL

\* Outside send_ping the flag says exactly whether a ping is under way.
THEOREM FlagCorrect == Spec => []FlagMatchesPing
<1>1. IndInv => FlagMatchesPing BY DEF IndInv, TypeOK, FlagInv, FlagMatchesPing
<1> QED BY <1>1, Inductive, PTL

\* No session stays connected beyond the bound without an answer.
THEOREM SilentLeaves == Spec => []SilenceBound
<1>1. IndInv => SilenceBound
  <2> SUFFICES ASSUME IndInv, NEW x \in Sessions, link[x] = "connected"
               PROVE  now - aliveAt[x] <= 2 * Gap + PongTimeout + Loop
    BY DEF SilenceBound
  <2> USE HeartbeatAssumption DEF Gap
  <2>0. /\ now \in Nat /\ hbNow \in Nat /\ wakeAt \in Nat
        /\ aliveAt[x] \in Nat /\ lastPing[x] \in Nat
    BY DEF IndInv, TypeOK
  <2>1. now <= hbNow + Gap /\ (pc # "wait" => now <= hbNow + Loop)
    BY <2>0 DEF IndInv, ThreadInv
  <2>2. Pending(x, "mark") \/ Pending(x, "expiry") => pc # "wait"
    BY DEF IndInv, ThreadInv, Pending
  <2>3. CASE waiting[x] BY <2>0, <2>1, <2>2, <2>3 DEF IndInv, AgeInv
  <2>4. CASE ~waiting[x] BY <2>0, <2>1, <2>2, <2>4 DEF IndInv, AgeInv
  <2> QED BY <2>3, <2>4
<1> QED BY <1>1, Inductive, PTL
=============================================================================
