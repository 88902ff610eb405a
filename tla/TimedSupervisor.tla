--------------------------- MODULE TimedSupervisor ---------------------------
(***************************************************************************)
(* SafetySupervisor under a clock.  A caller hands it the current HAL tick *)
(* and calls update at least every MaxUpdateGap ms; everything else comes  *)
(* in any order.  Two auxiliary counters say what really happened, which   *)
(* the wrapping tick cannot: silent_ms, the time since the last heartbeat  *)
(* (it stops at TickMod, "a full turn of the counter or more", which is    *)
(* also its value before the first heartbeat), and since_update_ms.        *)
(***************************************************************************)
EXTENDS SafetySupervisor

CONSTANT MaxUpdateGap    \* the longest time between two calls of update

ASSUME MaxUpdateGapAssumption ==
    /\ MaxUpdateGap \in Nat
    /\ HeartbeatTimeout > 0
    /\ HeartbeatTimeout + MaxUpdateGap <= TickMod

VARIABLES tick, silent_ms, since_update_ms

clock_vars == <<tick, silent_ms, since_update_ms>>
vars == <<safety_vars, clock_vars>>

Init ==
    /\ SafetyInit
    /\ tick \in Tick
    /\ silent_ms = TickMod
    /\ since_update_ms = 0

Millisecond ==
    /\ since_update_ms < MaxUpdateGap
    /\ tick' = NextTick(tick)
    /\ silent_ms' = IF silent_ms < TickMod THEN silent_ms + 1 ELSE TickMod
    /\ since_update_ms' = since_update_ms + 1
    /\ UNCHANGED safety_vars

Observe(faulty) ==
    /\ ObserveHeartbeat(faulty, tick)
    /\ silent_ms' = 0
    /\ UNCHANGED <<tick, since_update_ms>>

Judge ==
    /\ SupervisorUpdate(tick)
    /\ since_update_ms' = 0
    /\ UNCHANGED <<tick, silent_ms>>

CallArm == SupervisorArm /\ UNCHANGED clock_vars

CallDisarm == SupervisorDisarm /\ UNCHANGED clock_vars

Next ==
    \/ Millisecond
    \/ \E faulty \in BOOLEAN : Observe(faulty)
    \/ Judge
    \/ CallArm
    \/ CallDisarm

Spec == Init /\ [][Next]_vars

------------------------------------------------------------------------------
(* Types of the supervisor's members and of the clock around them. *)
TypeOK ==
    /\ SafetyTypeOK
    /\ tick \in Tick
    /\ silent_ms \in 0 .. TickMod
    /\ since_update_ms \in 0 .. MaxUpdateGap

\* The last heartbeat was younger than the timeout when update last judged it.
Timely == silent_ms < HeartbeatTimeout + since_update_ms

(* permits_command() does not look at the clock, so a permission is as good *)
(* as the last update: it outlives the heartbeat by no more than the time   *)
(* since then, unless the counter made a full turn in between.              *)
PermissionAgeBound == PermitsCommand => Timely \/ silent_ms = TickMod

(* A session that was armed on a timely heartbeat never lives through the   *)
(* rollover of the tick: as long as update is called often enough it ends   *)
(* before the wrapped age can look young again.                             *)
RetainedOnlyWhileTimely ==
    [][PermitsCommand /\ Timely /\ PermitsCommand' => Timely']_vars

(* The other direction of the timeout: while heartbeats arrive in time the  *)
(* permission is withdrawn by disarm() or by a fault, never by the age      *)
(* test, whatever the tick does at its wrap.                                *)
NoFalseStale ==
    [][PermitsCommand /\ silent_ms < HeartbeatTimeout /\ ~PermitsCommand'
         => SupervisorDisarm \/ fault_latched']_vars
==============================================================================
