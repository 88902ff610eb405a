------------------------ MODULE TimedSupervisorProofs ------------------------
(***************************************************************************)
(* The timing of the permission, for every width of the tick, every        *)
(* timeout and every update gap that fits the two into one turn of it.     *)
(*                                                                         *)
(* The wrapping tick and the true time are tied together by AgeIsTrue: as  *)
(* long as less than a full turn has passed since the last heartbeat, the  *)
(* unsigned difference IS that time.  FreshIsTimely is the strengthening   *)
(* of PermissionAgeBound that is inductive: it speaks of heartbeat_fresh,  *)
(* from which arm() makes a permission at any later moment.                *)
(***************************************************************************)
EXTENDS TimedSupervisor, SafetySupervisorProofs

AgeIsTrue ==
    has_heartbeat /\ silent_ms < TickMod => TickAge(tick, last_heartbeat_ms) = silent_ms

NeverHeardIsSilent == ~has_heartbeat => silent_ms = TickMod

FreshIsTimely ==
    heartbeat_fresh /\ ~fault_latched => Timely \/ silent_ms = TickMod

TimedInv ==
    SafetyInv /\ TypeOK /\ AgeIsTrue /\ NeverHeardIsSilent /\ FreshIsTimely

------------------------------------------------------------------------------
\* The clock adds nothing to what callers do: every step is a call or a stutter.
LEMMA StepIsACall ==
    ASSUME TypeOK, [Next]_vars
    PROVE  [SafetyNext]_safety_vars
<1>1. tick \in Tick
    BY DEF TypeOK
<1>2. CASE Millisecond
    BY <1>2 DEF Millisecond
<1>3. CASE \E faulty \in BOOLEAN : Observe(faulty)
    BY <1>1, <1>3 DEF Observe, SafetyNext
<1>4. CASE Judge
    BY <1>1, <1>4 DEF Judge, SafetyNext
<1>5. CASE CallArm
    BY <1>5 DEF CallArm, SafetyNext
<1>6. CASE CallDisarm
    BY <1>6 DEF CallDisarm, SafetyNext
<1>7. CASE UNCHANGED vars
    BY <1>7 DEF vars
<1> QED
    BY <1>2, <1>3, <1>4, <1>5, <1>6, <1>7 DEF Next

\* Before any call: nothing heard, and silent for a full turn.
LEMMA InitEstablishesTimedInv == Init => TimedInv
<1> SUFFICES ASSUME Init PROVE TimedInv
    OBVIOUS
<1>1. SafetyInv
    BY InitEstablishesSafetyInv DEF Init
<1>2. TypeOK
  <2>1. SafetyTypeOK
    BY <1>1 DEF SafetyInv
  <2>2. tick \in Tick /\ silent_ms \in 0 .. TickMod /\ since_update_ms \in 0 .. MaxUpdateGap
    BY TickModAssumption, MaxUpdateGapAssumption DEF Init
  <2> QED
    BY <2>1, <2>2 DEF TypeOK
<1>3. AgeIsTrue /\ NeverHeardIsSilent /\ FreshIsTimely
    BY TickModAssumption DEF Init, SafetyInit, AgeIsTrue, NeverHeardIsSilent, FreshIsTimely
<1> QED
    BY <1>1, <1>2, <1>3 DEF TimedInv

\* A millisecond passes: both sides of every bound grow by one.
LEMMA MillisecondKeepsTiming ==
    ASSUME TimedInv, Millisecond
    PROVE  tick' \in Tick /\ silent_ms' \in 0 .. TickMod
           /\ since_update_ms' \in 0 .. MaxUpdateGap
           /\ AgeIsTrue' /\ NeverHeardIsSilent' /\ FreshIsTimely'
<1> USE TickModAssumption, MaxUpdateGapAssumption, HeartbeatTimeoutAssumption
<1>1. tick \in Tick /\ last_heartbeat_ms \in Tick /\ silent_ms \in 0 .. TickMod
      /\ since_update_ms \in 0 .. MaxUpdateGap
    BY DEF TimedInv, TypeOK, SafetyTypeOK
<1>2. tick' = NextTick(tick) /\ since_update_ms' = since_update_ms + 1
      /\ since_update_ms < MaxUpdateGap
      /\ silent_ms' = IF silent_ms < TickMod THEN silent_ms + 1 ELSE TickMod
    BY DEF Millisecond
<1>3. last_heartbeat_ms' = last_heartbeat_ms /\ has_heartbeat' = has_heartbeat
      /\ heartbeat_fresh' = heartbeat_fresh /\ fault_latched' = fault_latched
    BY DEF Millisecond, safety_vars
<1>4. tick' \in Tick
    BY <1>1, <1>2, NextTickType
<1>5. silent_ms' \in 0 .. TickMod /\ since_update_ms' \in 0 .. MaxUpdateGap
    BY <1>1, <1>2
<1>6. AgeIsTrue'
  <2> SUFFICES ASSUME has_heartbeat', silent_ms' < TickMod
               PROVE  TickAge(tick', last_heartbeat_ms') = silent_ms'
    BY DEF AgeIsTrue
  <2>1. silent_ms < TickMod - 1 /\ silent_ms' = silent_ms + 1
    BY <1>1, <1>2
  <2>2. TickAge(tick, last_heartbeat_ms) = silent_ms
    BY <1>1, <1>3, <2>1 DEF TimedInv, AgeIsTrue
  <2> QED
    BY <1>1, <1>2, <1>3, <2>1, <2>2, TickAgeNext
<1>7. NeverHeardIsSilent'
    BY <1>1, <1>2, <1>3 DEF TimedInv, NeverHeardIsSilent
<1>8. FreshIsTimely'
  <2> SUFFICES ASSUME heartbeat_fresh', ~fault_latched', silent_ms' # TickMod
               PROVE  Timely'
    BY DEF FreshIsTimely
  <2>1. silent_ms < TickMod /\ silent_ms' = silent_ms + 1
    BY <1>1, <1>2
  <2>2. Timely
    BY <1>1, <1>3, <2>1 DEF TimedInv, FreshIsTimely
  <2> QED
    BY <1>1, <1>2, <2>1, <2>2, HeartbeatTimeout \in Int DEF Timely, Tick
<1> QED
    BY <1>4, <1>5, <1>6, <1>7, <1>8

\* A heartbeat is stamped with the current tick: its age and the silence restart.
LEMMA ObserveKeepsTiming ==
    ASSUME TimedInv, NEW faulty \in BOOLEAN, Observe(faulty)
    PROVE  tick' \in Tick /\ silent_ms' \in 0 .. TickMod
           /\ since_update_ms' \in 0 .. MaxUpdateGap
           /\ AgeIsTrue' /\ NeverHeardIsSilent' /\ FreshIsTimely'
<1> USE TickModAssumption, MaxUpdateGapAssumption, HeartbeatTimeoutAssumption
<1>1. tick \in Tick /\ since_update_ms \in 0 .. MaxUpdateGap
    BY DEF TimedInv, TypeOK
<1>2. silent_ms' = 0 /\ tick' = tick /\ since_update_ms' = since_update_ms
    BY DEF Observe
<1>3. has_heartbeat' /\ last_heartbeat_ms' = tick
    BY DEF Observe, ObserveHeartbeat
<1>4. AgeIsTrue'
    BY <1>1, <1>2, <1>3, TickAgeSelf DEF AgeIsTrue
<1>5. NeverHeardIsSilent'
    BY <1>3 DEF NeverHeardIsSilent
<1>6. Timely'
    BY <1>1, <1>2, HeartbeatTimeout \in Int DEF Timely, Tick
<1>7. FreshIsTimely'
    BY <1>6 DEF FreshIsTimely
<1> QED
    BY <1>1, <1>2, <1>4, <1>5, <1>7

\* update judges the true age, unless a full turn of the tick has passed.
LEMMA JudgeIsTrue ==
    ASSUME TimedInv, Judge, heartbeat_fresh', ~fault_latched', silent_ms < TickMod
    PROVE  silent_ms < HeartbeatTimeout
<1>1. has_heartbeat
    BY TickModAssumption DEF TimedInv, NeverHeardIsSilent
<1>2. TickAge(tick, last_heartbeat_ms) = silent_ms
    BY <1>1 DEF TimedInv, AgeIsTrue
<1>3. TickAge(tick, last_heartbeat_ms) < HeartbeatTimeout
    BY DEF Judge, SupervisorUpdate, LatchHolds, NoHeartbeatYet, HeartbeatTimedOut,
           HeartbeatStillFresh
<1> QED
    BY <1>2, <1>3

\* So update leaves a fresh flag only on a heartbeat that is in time.
LEMMA JudgeKeepsTiming ==
    ASSUME TimedInv, Judge
    PROVE  tick' \in Tick /\ silent_ms' \in 0 .. TickMod
           /\ since_update_ms' \in 0 .. MaxUpdateGap
           /\ AgeIsTrue' /\ NeverHeardIsSilent' /\ FreshIsTimely'
<1> USE TickModAssumption, MaxUpdateGapAssumption, HeartbeatTimeoutAssumption
<1>1. tick \in Tick /\ silent_ms \in 0 .. TickMod
    BY DEF TimedInv, TypeOK
<1>2. since_update_ms' = 0 /\ tick' = tick /\ silent_ms' = silent_ms
    BY DEF Judge
<1>3. last_heartbeat_ms' = last_heartbeat_ms /\ has_heartbeat' = has_heartbeat
    BY DEF Judge, SupervisorUpdate
<1>4. AgeIsTrue' /\ NeverHeardIsSilent'
    BY <1>2, <1>3 DEF TimedInv, AgeIsTrue, NeverHeardIsSilent
<1>5. FreshIsTimely'
  <2> SUFFICES ASSUME heartbeat_fresh', ~fault_latched', silent_ms' # TickMod
               PROVE  Timely'
    BY DEF FreshIsTimely
  <2>1. silent_ms < HeartbeatTimeout
    BY <1>1, <1>2, JudgeIsTrue
  <2> QED
    BY <1>1, <1>2, <2>1, HeartbeatTimeout \in Int DEF Timely, Tick
<1> QED
    BY <1>1, <1>2, <1>4, <1>5

\* arm() and disarm() touch neither the clock nor what the timing speaks of.
LEMMA ArmingKeepsTiming ==
    ASSUME TimedInv,
           \/ CallArm \/ CallDisarm \/ UNCHANGED vars
    PROVE  UNCHANGED <<clock_vars, last_heartbeat_ms, has_heartbeat, heartbeat_fresh,
                       fault_latched>>
BY DEF CallArm, CallDisarm, SupervisorArm, SupervisorDisarm, vars, safety_vars, clock_vars

\* Every call, every millisecond and every stutter keeps the invariant.
LEMMA StepKeepsTimedInv ==
    ASSUME TimedInv, [Next]_vars
    PROVE  TimedInv'
<1>1. SafetyInv'
    BY StepIsACall, StepKeepsSafetyInv DEF TimedInv
<1> SUFFICES tick' \in Tick /\ silent_ms' \in 0 .. TickMod
             /\ since_update_ms' \in 0 .. MaxUpdateGap
             /\ AgeIsTrue' /\ NeverHeardIsSilent' /\ FreshIsTimely'
    BY <1>1 DEF TimedInv, TypeOK, SafetyInv
<1>2. CASE Millisecond
    BY <1>2, MillisecondKeepsTiming
<1>3. CASE \E faulty \in BOOLEAN : Observe(faulty)
    BY <1>3, ObserveKeepsTiming
<1>4. CASE Judge
    BY <1>4, JudgeKeepsTiming
<1>5. CASE CallArm \/ CallDisarm \/ UNCHANGED vars
  <2> UNCHANGED <<clock_vars, last_heartbeat_ms, has_heartbeat, heartbeat_fresh,
                  fault_latched>>
    BY <1>5, ArmingKeepsTiming
  <2> QED
    BY DEF TimedInv, TypeOK, clock_vars, AgeIsTrue, NeverHeardIsSilent, FreshIsTimely, Timely
<1> QED
    BY <1>2, <1>3, <1>4, <1>5 DEF Next

(* The inductive invariant: the wrapped age is the true one within a turn   *)
(* of the tick, and a fresh flag is on a timely heartbeat.                  *)
THEOREM TimedInvariant == Spec => []TimedInv
<1>1. Init => TimedInv
    BY InitEstablishesTimedInv
<1>2. TimedInv /\ [Next]_vars => TimedInv'
    BY StepKeepsTimedInv
<1> QED
    BY <1>1, <1>2, PTL DEF Spec

(* The clocks and what update computes from them stay within their types.   *)
THEOREM TimedTypeCorrect == Spec => []TypeOK
<1>1. TimedInv => TypeOK
    BY DEF TimedInv
<1> QED
    BY <1>1, TimedInvariant, PTL

(* The clocked supervisor implements the one with arbitrary callers: every  *)
(* theorem about SafetySpec holds of it too.                                *)
THEOREM TimedImplementsSafety == Spec => SafetySpec
<1>1. Init => SafetyInit
    BY DEF Init
<1>2. TimedInv /\ [Next]_vars => [SafetyNext]_safety_vars
    BY StepIsACall DEF TimedInv
<1> QED
    BY <1>1, <1>2, TimedInvariant, PTL DEF Spec, SafetySpec

------------------------------------------------------------------------------
(* A permission outlives its heartbeat by no more than the time since the   *)
(* last update, short of a full turn of the tick.                           *)
THEOREM PermissionAgeIsBounded == Spec => []PermissionAgeBound
<1>1. TimedInv => PermissionAgeBound
    BY DEF TimedInv, FreshIsTimely, PermissionAgeBound, PermitsCommand
<1> QED
    BY <1>1, TimedInvariant, PTL

\* No step carries a timely permission into an untimely one.
LEMMA StepRetainsTimely ==
    ASSUME TimedInv, [Next]_vars, PermitsCommand, Timely, PermitsCommand'
    PROVE  Timely'
<1> USE TickModAssumption, MaxUpdateGapAssumption, HeartbeatTimeoutAssumption
<1>1. silent_ms \in 0 .. TickMod /\ since_update_ms \in 0 .. MaxUpdateGap /\ tick \in Tick
    BY DEF TimedInv, TypeOK
<1>2. HeartbeatTimeout \in Int
    BY DEF Tick
<1>3. CASE Millisecond
  <2>1. silent_ms' <= silent_ms + 1 /\ since_update_ms' = since_update_ms + 1
    BY <1>1, <1>3 DEF Millisecond
  <2>2. silent_ms' \in Int
    BY <1>1, <1>3 DEF Millisecond
  <2> QED
    BY <1>1, <1>2, <2>1, <2>2 DEF Timely
<1>4. CASE \E faulty \in BOOLEAN : Observe(faulty)
    BY <1>1, <1>2, <1>4 DEF Observe, Timely
<1>5. CASE Judge
  <2>1. silent_ms < TickMod
    BY <1>1, <1>2 DEF Timely
  <2>2. heartbeat_fresh' /\ ~fault_latched'
    BY DEF PermitsCommand
  <2>3. silent_ms < HeartbeatTimeout
    BY <1>5, <2>1, <2>2, JudgeIsTrue
  <2> QED
    BY <1>1, <1>2, <1>5, <2>3 DEF Judge, Timely
<1>6. CASE CallArm \/ CallDisarm \/ UNCHANGED vars
    BY <1>6, ArmingKeepsTiming DEF clock_vars, Timely
<1> QED
    BY <1>3, <1>4, <1>5, <1>6 DEF Next

(* A session armed on a timely heartbeat never lives through the rollover.  *)
THEOREM TimelySessionStaysTimely == Spec => RetainedOnlyWhileTimely
<1>1. TimedInv /\ [Next]_vars
        => [PermitsCommand /\ Timely /\ PermitsCommand' => Timely']_vars
    BY StepRetainsTimely
<1> QED
    BY <1>1, TimedInvariant, PTL DEF Spec, RetainedOnlyWhileTimely

\* While the silence is below the timeout, update finds the heartbeat fresh.
LEMMA StepIsNoFalseStale ==
    ASSUME TimedInv, [Next]_vars, PermitsCommand, silent_ms < HeartbeatTimeout,
           ~PermitsCommand'
    PROVE  SupervisorDisarm \/ fault_latched'
<1>1. armed /\ heartbeat_fresh /\ ~fault_latched /\ has_heartbeat
    BY DEF PermitsCommand, TimedInv, SafetyInv, ArmedIsHealthy
<1>2. CASE Millisecond
    BY <1>2 DEF Millisecond, safety_vars, PermitsCommand
<1>3. ASSUME NEW faulty \in BOOLEAN, Observe(faulty)
      PROVE  fault_latched'
    BY <1>1, <1>3 DEF Observe, ObserveHeartbeat, PermitsCommand
<1>4. ASSUME Judge
      PROVE  FALSE
  <2>1. TickAge(tick, last_heartbeat_ms) = silent_ms
    <3>1. silent_ms < TickMod
      BY TickModAssumption, HeartbeatTimeoutAssumption DEF TimedInv, TypeOK, Tick
    <3> QED
      BY <1>1, <3>1 DEF TimedInv, AgeIsTrue
  <2>2. ~(TickAge(tick, last_heartbeat_ms) >= HeartbeatTimeout)
    BY <2>1, TickModAssumption, HeartbeatTimeoutAssumption DEF TimedInv, TypeOK, Tick
  <2>3. HeartbeatStillFresh(tick) /\ UNCHANGED fault_latched
    BY <1>1, <1>4, <2>2 DEF Judge, SupervisorUpdate, LatchHolds, NoHeartbeatYet,
                             HeartbeatTimedOut
  <2> QED
    BY <1>1, <2>3 DEF HeartbeatStillFresh, PermitsCommand
<1>5. CASE CallArm
  <2>1. armed' /\ UNCHANGED <<heartbeat_fresh, fault_latched>>
    BY <1>1, <1>5 DEF CallArm, SupervisorArm, safety_vars
  <2> QED
    BY <1>1, <2>1 DEF PermitsCommand
<1>6. CASE CallDisarm
    BY <1>6 DEF CallDisarm
<1>7. CASE UNCHANGED vars
    BY <1>7 DEF vars, safety_vars, PermitsCommand
<1> QED
    BY <1>2, <1>3, <1>4, <1>5, <1>6, <1>7 DEF Next

(* While heartbeats arrive in time, the age test never ends a session.      *)
THEOREM TimelyHeartbeatIsNeverStale == Spec => NoFalseStale
<1>1. TimedInv /\ [Next]_vars
        => [PermitsCommand /\ silent_ms < HeartbeatTimeout /\ ~PermitsCommand'
              => SupervisorDisarm \/ fault_latched']_vars
    BY StepIsNoFalseStale
<1> QED
    BY <1>1, TimedInvariant, PTL DEF Spec, NoFalseStale
==============================================================================
