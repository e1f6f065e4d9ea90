---------------------------- MODULE MCHeartbeat ----------------------------
(***************************************************************************)
(* Instances of Heartbeat for TLC.  The ticks grow without bound, but the  *)
(* code only ever compares them: adding a constant to every tick changes   *)
(* no behaviour.  The view therefore keeps the distance of each tick to    *)
(* now, and only while the tick can still be compared, so that TLC visits  *)
(* finitely many states over an unbounded run of the clock.                *)
(***************************************************************************)
EXTENDS Heartbeat

\* What can still matter of a session.
SessionView(x) ==
    IF link[x] # "connected" THEN <<link[x]>>
    ELSE <<link[x], waiting[x], pings[x], pongs[x], now - aliveAt[x],
           IF waiting[x] \/ (pc = "expiry" /\ cur = x) THEN now - lastPing[x] ELSE 0,
           IF pings[x] + pongs[x] > 0 THEN now - sentAt[x] ELSE 0>>

ThreadView ==
    CASE pc = "wait" -> <<pc, wakeAt - now>>
      [] pc \in {"snapshot", "next"} -> <<pc, now - hbNow, snapshot>>
      [] OTHER -> <<pc, now - hbNow, snapshot, cur>>

View == <<ThreadView, [x \in Sessions |-> SessionView(x)], cut \cap Responsive>>
=============================================================================
