--------------------------- MODULE SafetySupervisor ---------------------------
(***************************************************************************)
(* include/bldc/safety_supervisor.hpp: the object that decides whether a   *)
(* motor command may be sent.  One action per method; each takes the tick  *)
(* its caller passes.  SafetySpec lets callers call in any order with any  *)
(* ticks at all; TimedSupervisor.tla adds a real clock, and the firmware   *)
(* modules the main loops that call it.                                    *)
(***************************************************************************)
EXTENDS HalTick

CONSTANT HeartbeatTimeout    \* heartbeat_timeout_ms_

ASSUME HeartbeatTimeoutAssumption == HeartbeatTimeout \in Tick

VARIABLES
    last_heartbeat_ms,    \* tick the last heartbeat was stamped with
    has_heartbeat,        \* some heartbeat was observed since boot
    heartbeat_fresh,      \* the last judgement of that heartbeat's age
    armed,
    fault_latched,        \* never cleared: there is no reset method
    state                 \* the published SafetyState

safety_vars ==
    <<last_heartbeat_ms, has_heartbeat, heartbeat_fresh, armed, fault_latched, state>>

SafetyState == {"disarmed", "armed", "heartbeat_stale", "fault_latched"}

SafetyInit ==
    /\ last_heartbeat_ms = 0
    /\ has_heartbeat = FALSE
    /\ heartbeat_fresh = FALSE
    /\ armed = FALSE
    /\ fault_latched = FALSE
    /\ state = "disarmed"

PermitsCommand == armed /\ heartbeat_fresh /\ ~fault_latched

------------------------------------------------------------------------------
\* Seeded defect: the deadline is stored in place of the arrival.
ObserveHeartbeat_StoresDeadline(faulty, received_at_ms) ==
    /\ has_heartbeat' = TRUE
    /\ heartbeat_fresh' = TRUE
    /\ last_heartbeat_ms' = received_at_ms + HeartbeatTimeout
    /\ fault_latched' = (fault_latched \/ faulty)
    /\ armed' = (armed /\ ~faulty)
    /\ state' = IF faulty THEN "fault_latched" ELSE IF armed THEN state ELSE "disarmed"

\* Seeded defect: a healthy heartbeat releases the latch.
ObserveHeartbeat_Unlatches(faulty, received_at_ms) ==
    /\ has_heartbeat' = TRUE
    /\ heartbeat_fresh' = TRUE
    /\ last_heartbeat_ms' = received_at_ms
    /\ fault_latched' = faulty
    /\ armed' = (armed /\ ~faulty)
    /\ state' = IF faulty THEN "fault_latched" ELSE IF armed THEN state ELSE "disarmed"

(***************************************************************************)
(* observe_heartbeat.  faulty: axis_error # 0 or a fault flag (bits 0..3). *)
(* A healthy heartbeat that finds armed_ false publishes "disarmed", even  *)
(* over a latched fault; the next update or disarm republishes the latch.  *)
(***************************************************************************)
ObserveHeartbeat(faulty, received_at_ms) ==
    /\ has_heartbeat' = TRUE
    /\ heartbeat_fresh' = TRUE
    /\ last_heartbeat_ms' = received_at_ms
    /\ \/ /\ faulty
          /\ fault_latched' = TRUE
          /\ armed' = FALSE
          /\ state' = "fault_latched"
       \/ /\ ~faulty
          /\ state' = IF armed THEN state ELSE "disarmed"
          /\ UNCHANGED <<armed, fault_latched>>

------------------------------------------------------------------------------
(* update: the four ways it returns, in the order it tests them. *)

LatchHolds ==
    /\ fault_latched
    /\ armed' = FALSE
    /\ state' = "fault_latched"
    /\ UNCHANGED heartbeat_fresh

NoHeartbeatYet ==
    /\ ~fault_latched
    /\ ~has_heartbeat
    /\ armed' = FALSE
    /\ heartbeat_fresh' = FALSE
    /\ state' = "disarmed"

\* Seeded defect: a late heartbeat clears the freshness but not armed_.
HeartbeatTimedOut_KeepsArmed(now_ms) ==
    /\ ~fault_latched
    /\ has_heartbeat
    /\ TickAge(now_ms, last_heartbeat_ms) >= HeartbeatTimeout
    /\ heartbeat_fresh' = FALSE
    /\ state' = "heartbeat_stale"
    /\ UNCHANGED armed

HeartbeatTimedOut(now_ms) ==
    /\ ~fault_latched
    /\ has_heartbeat
    /\ TickAge(now_ms, last_heartbeat_ms) >= HeartbeatTimeout
    /\ heartbeat_fresh' = FALSE
    /\ armed' = FALSE
    /\ state' = "heartbeat_stale"

HeartbeatStillFresh(now_ms) ==
    /\ ~fault_latched
    /\ has_heartbeat
    /\ TickAge(now_ms, last_heartbeat_ms) < HeartbeatTimeout
    /\ heartbeat_fresh' = TRUE
    /\ state' = IF armed THEN "armed" ELSE "disarmed"
    /\ UNCHANGED armed

\* Seeded defect: the age is only judged while nothing is armed.
SupervisorUpdate_SkipsArmed(now_ms) ==
    /\ \/ LatchHolds
       \/ NoHeartbeatYet
       \/ ~armed /\ HeartbeatTimedOut(now_ms)
       \/ ~armed /\ HeartbeatStillFresh(now_ms)
       \/ armed /\ ~fault_latched /\ UNCHANGED <<armed, heartbeat_fresh, state>>
    /\ UNCHANGED <<last_heartbeat_ms, has_heartbeat, fault_latched>>

SupervisorUpdate(now_ms) ==
    /\ \/ LatchHolds
       \/ NoHeartbeatYet
       \/ HeartbeatTimedOut(now_ms)
       \/ HeartbeatStillFresh(now_ms)
    /\ UNCHANGED <<last_heartbeat_ms, has_heartbeat, fault_latched>>

------------------------------------------------------------------------------
\* What arm() returns.
CanArm == ~fault_latched /\ has_heartbeat /\ heartbeat_fresh

SupervisorArm ==
    \/ /\ CanArm
       /\ armed' = TRUE
       /\ state' = "armed"
       /\ UNCHANGED <<last_heartbeat_ms, has_heartbeat, heartbeat_fresh, fault_latched>>
    \/ /\ ~CanArm
       /\ UNCHANGED safety_vars

\* Seeded defect: the state published after a disarm ignores a stale heartbeat.
SupervisorDisarm_Plain ==
    /\ armed' = FALSE
    /\ state' = IF fault_latched THEN "fault_latched" ELSE "disarmed"
    /\ UNCHANGED <<last_heartbeat_ms, has_heartbeat, heartbeat_fresh, fault_latched>>

SupervisorDisarm ==
    /\ armed' = FALSE
    /\ state' = IF fault_latched THEN "fault_latched"
                ELSE IF has_heartbeat /\ ~heartbeat_fresh THEN "heartbeat_stale"
                ELSE "disarmed"
    /\ UNCHANGED <<last_heartbeat_ms, has_heartbeat, heartbeat_fresh, fault_latched>>

------------------------------------------------------------------------------
SafetyNext ==
    \/ \E faulty \in BOOLEAN, t \in Tick : ObserveHeartbeat(faulty, t)
    \/ \E t \in Tick : SupervisorUpdate(t)
    \/ SupervisorArm
    \/ SupervisorDisarm

SafetySpec == SafetyInit /\ [][SafetyNext]_safety_vars

------------------------------------------------------------------------------
(* Types of the supervisor's members: the stamp of the last heartbeat is a
   tick, whatever the caller passed. *)
SafetyTypeOK ==
    /\ last_heartbeat_ms \in Tick
    /\ has_heartbeat \in BOOLEAN
    /\ heartbeat_fresh \in BOOLEAN
    /\ armed \in BOOLEAN
    /\ fault_latched \in BOOLEAN
    /\ state \in SafetyState

(* armed_ alone never outlives what permits_command() asks for: whenever it *)
(* is set, the freshness and the latch agree, so no later heartbeat can     *)
(* turn a forgotten armed_ back into a permission.                          *)
ArmedIsHealthy ==
    armed => has_heartbeat /\ heartbeat_fresh /\ ~fault_latched

(* The published SafetyState against the flags the decision is made from: a *)
(* reader of state() may take "armed" and "heartbeat_stale" at their word   *)
(* in both directions, and "fault_latched" in one.  (Under a latch it may   *)
(* also read "disarmed", until the next update.)                            *)
StateMatchesFlags ==
    /\ state = "armed" <=> armed
    /\ state = "heartbeat_stale" <=> has_heartbeat /\ ~heartbeat_fresh
    /\ state = "fault_latched" => fault_latched
    /\ fault_latched => state \in {"fault_latched", "disarmed"}

(* The latch survives every call, and no call of any method gives the       *)
(* permission back once it has closed.                                      *)
FaultLatchIsPermanent ==
    [][fault_latched => fault_latched' /\ ~PermitsCommand']_safety_vars

(* A permission that was lost, for whatever reason, comes back through a    *)
(* call of arm() only: neither a heartbeat nor an update restores it.       *)
PermissionOnlyByArm ==
    [][~PermitsCommand /\ PermitsCommand' => SupervisorArm]_safety_vars
==============================================================================
