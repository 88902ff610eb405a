------------------------- MODULE TelemetryApplication -------------------------
(***************************************************************************)
(* include/bldc/application.hpp: decodes what the bus delivers, keeps the  *)
(* latest value of each kind with the time it was received, and owns the   *)
(* safety supervisor.  ApplicationSpec lets a caller call the methods in   *)
(* any order, with any ticks and any of the frames it is given; the two    *)
(* main loops (ReceiveMain, TxTutorialMain) are such callers.              *)
(***************************************************************************)
EXTENDS SafetySupervisor, GimNode

CONSTANTS
    MonoMod,    \* the width of monotonic_ms, 2^64 in the firmware
    NodeId      \* node_id_

ASSUME MonoModAssumption ==
    MonoMod \in Nat /\ MonoMod >= TickMod /\ MonoMod % TickMod = 0

ASSUME NodeIdAssumption == NodeId \in 0 .. 255

VARIABLES
    telemetry,                \* TelemetryCache: the last value of each kind
    clock,                    \* HalTickClock
    heartbeat_received_at,    \* optional HalTickTimestamp
    encoder_received_at

application_vars ==
    <<safety_vars, telemetry, clock, heartbeat_received_at, encoder_received_at>>

Mono == 0 .. MonoMod - 1
HalTickTimestamp == [raw_ms : Tick, monotonic_ms : Mono]

ApplicationInit ==
    /\ SafetyInit
    /\ telemetry = [heartbeat |-> None, encoder_estimates |-> None]
    /\ clock = [last_raw_ms |-> 0, monotonic_ms |-> 0, initialized |-> FALSE]
    /\ heartbeat_received_at = None
    /\ encoder_received_at = None

\* Seeded defect: an addition that does not wrap.
MonoPlus_Unwrapped(m, d) == m + d

\* 64-bit unsigned addition.
MonoPlus(m, d) == IF m + d >= MonoMod THEN m + d - MonoMod ELSE m + d

\* Seeded defect: the raw tick the next difference starts from is never moved.
Advanced_KeepsRaw(raw_ms) ==
    IF clock.initialized
    THEN [clock EXCEPT !.monotonic_ms = MonoPlus(@, TickAge(raw_ms, clock.last_raw_ms))]
    ELSE [last_raw_ms |-> raw_ms, monotonic_ms |-> raw_ms, initialized |-> TRUE]

\* HalTickClock::advance, as the clock it leaves behind.
Advanced(raw_ms) ==
    IF clock.initialized
    THEN [clock EXCEPT !.last_raw_ms = raw_ms,
                       !.monotonic_ms = MonoPlus(@, TickAge(raw_ms, clock.last_raw_ms))]
    ELSE [last_raw_ms |-> raw_ms, monotonic_ms |-> raw_ms, initialized |-> TRUE]

\* The timestamp advance returns.
Stamp(c) == Some([raw_ms |-> c.last_raw_ms, monotonic_ms |-> c.monotonic_ms])

------------------------------------------------------------------------------
\* Seeded defect: a heartbeat with a fault is taken for lost.
IngestHeartbeat_DropsFaults(frame, hal_tick_ms) ==
    LET heartbeat == DecodeHeartbeat(frame, NodeId)
    IN  /\ HasValue(heartbeat)
        /\ telemetry' = [telemetry EXCEPT !.heartbeat = heartbeat]
        /\ clock' = Advanced(hal_tick_ms)
        /\ heartbeat_received_at' = Stamp(clock')
        /\ IF ReportsFault(heartbeat[1]) THEN UNCHANGED safety_vars
           ELSE ObserveHeartbeat(FALSE, hal_tick_ms)
        /\ UNCHANGED encoder_received_at

\* Seeded defect: the stamp is taken before the clock is advanced.
IngestHeartbeat_OldStamp(frame, hal_tick_ms) ==
    LET heartbeat == DecodeHeartbeat(frame, NodeId)
    IN  /\ HasValue(heartbeat)
        /\ telemetry' = [telemetry EXCEPT !.heartbeat = heartbeat]
        /\ clock' = Advanced(hal_tick_ms)
        /\ heartbeat_received_at' = Stamp(clock)
        /\ ObserveHeartbeat(ReportsFault(heartbeat[1]), hal_tick_ms)
        /\ UNCHANGED encoder_received_at

IngestHeartbeat(frame, hal_tick_ms) ==
    LET heartbeat == DecodeHeartbeat(frame, NodeId)
    IN  /\ HasValue(heartbeat)
        /\ telemetry' = [telemetry EXCEPT !.heartbeat = heartbeat]
        /\ clock' = Advanced(hal_tick_ms)
        /\ heartbeat_received_at' = Stamp(clock')
        /\ ObserveHeartbeat(ReportsFault(heartbeat[1]), hal_tick_ms)
        /\ UNCHANGED encoder_received_at

IngestEncoder(frame, hal_tick_ms) ==
    LET encoder == DecodeEncoderEstimates(frame, NodeId)
    IN  /\ HasValue(encoder)
        /\ telemetry' = [telemetry EXCEPT !.encoder_estimates = encoder]
        /\ clock' = Advanced(hal_tick_ms)
        /\ encoder_received_at' = Stamp(clock')
        /\ UNCHANGED <<safety_vars, heartbeat_received_at>>

\* ingest returns false: nothing is touched, not even the clock.
IngestIgnored(frame) ==
    /\ ~HasValue(DecodeHeartbeat(frame, NodeId))
    /\ ~HasValue(DecodeEncoderEstimates(frame, NodeId))
    /\ UNCHANGED application_vars

Ingest(frame, hal_tick_ms) ==
    \/ IngestHeartbeat(frame, hal_tick_ms)
    \/ IngestEncoder(frame, hal_tick_ms)
    \/ IngestIgnored(frame)

Update(hal_tick_ms) ==
    /\ clock' = Advanced(hal_tick_ms)
    /\ SupervisorUpdate(hal_tick_ms)
    /\ UNCHANGED <<telemetry, heartbeat_received_at, encoder_received_at>>

Arm ==
    /\ SupervisorArm
    /\ UNCHANGED <<telemetry, clock, heartbeat_received_at, encoder_received_at>>

Disarm ==
    /\ SupervisorDisarm
    /\ UNCHANGED <<telemetry, clock, heartbeat_received_at, encoder_received_at>>

------------------------------------------------------------------------------
ApplicationNext(Frames) ==
    \/ \E frame \in Frames, t \in Tick : Ingest(frame, t)
    \/ \E t \in Tick : Update(t)
    \/ Arm
    \/ Disarm

ApplicationSpec(Frames) ==
    ApplicationInit /\ [][ApplicationNext(Frames)]_application_vars

------------------------------------------------------------------------------
ApplicationTypeOK ==
    /\ SafetyTypeOK
    /\ HasValue(telemetry.heartbeat) =>
          telemetry.heartbeat[1].axis_error \in Word /\ telemetry.heartbeat[1].flags \in 0 .. 255
    /\ clock \in [last_raw_ms : Tick, monotonic_ms : Mono, initialized : BOOLEAN]
    /\ \A s \in {heartbeat_received_at, encoder_received_at} :
          s # None => s[1] \in HalTickTimestamp

(* Three records of one event are kept in three places, and a reader of any *)
(* sees the same heartbeat: the cache has one exactly when the supervisor   *)
(* and the receive stamp do, the supervisor counts its age from the stamp's *)
(* raw tick, and a fault that is still in the cache is latched.             *)
HeartbeatRecordsAgree ==
    /\ HasValue(telemetry.heartbeat) = has_heartbeat
    /\ HasValue(heartbeat_received_at) = has_heartbeat
    /\ has_heartbeat => /\ heartbeat_received_at[1].raw_ms = last_heartbeat_ms
                        /\ ReportsFault(telemetry.heartbeat[1]) => fault_latched

(* The cache holds what the node reported, byte order, offsets and all: put *)
(* on the wire again, each cached value is a frame that was there, of this  *)
(* node and of its kind, and only the reserved byte is not remembered.  So  *)
(* a frame of another node, kind or layout leaves no trace, nor does one    *)
(* with a word that is no finite number, not even half of it.               *)
CacheCameFrom(Frames) ==
    /\ HasValue(telemetry.heartbeat) =>
          \E frame \in Frames :
              frame = HeartbeatFrame(NodeId, telemetry.heartbeat[1], frame.data[7])
    /\ HasValue(telemetry.encoder_estimates) =>
          /\ EstimatesFrame(NodeId, telemetry.encoder_estimates[1]) \in Frames
          /\ FloatIsFinite(telemetry.encoder_estimates[1].position)
          /\ FloatIsFinite(telemetry.encoder_estimates[1].velocity)

\* The age of the last heartbeat by the 64-bit stamps.
StampedAge ==
    LET d == clock.monotonic_ms - heartbeat_received_at[1].monotonic_ms
    IN  IF d >= 0 THEN d ELSE d + MonoMod

(* Two clocks judge one heartbeat, the supervisor's 32-bit difference and   *)
(* the application's 64-bit stamps: up to full turns of the tick they agree.*)
ClocksJudgeAlike ==
    has_heartbeat /\ ~fault_latched =>
        (heartbeat_fresh <=> StampedAge % TickMod < HeartbeatTimeout)
==============================================================================
