------------------------- MODULE TxTutorialMainProofs -------------------------
(***************************************************************************)
(* Theorems about the transmit firmware, for every width of the tick,      *)
(* every timeout and period, every depth of the FIFO, every number of      *)
(* mailboxes, every set of frames on the bus and all inputs.               *)
(***************************************************************************)
EXTENDS TxTutorialMain, SafetySupervisorProofs

------------------------------------------------------------------------------
(* The loop calls the application, and nothing else touches it. *)

LoopTypeOK ==
    /\ uptime_ms \in Mono /\ unread_ms \in 0 .. MaxLoopMs /\ silent_ms \in 0 .. TickMod
    /\ now_ms \in Tick
    /\ previous_arm_input \in BOOLEAN /\ arm_request_pending \in BOOLEAN

(* The tick that main reads is one. *)
LEMMA HalGetTickType ==
    ASSUME uptime_ms \in Mono
    PROVE  HalGetTick \in Tick
<1>1. uptime_ms \in Int
    BY MonoModAssumption DEF Mono
<1> QED
    BY <1>1, TickOfTime DEF HalGetTick

(* Every step of the firmware is a call of one method of the application, with a *)
(* tick and a frame of the bus where it takes them, or none.                     *)
LEMMA StepCallsApplication ==
    ASSUME LoopTypeOK, [Next]_vars
    PROVE  [ApplicationNext(BusFrames)]_application_vars
<1>1. now_ms \in Tick /\ HalGetTick \in Tick
    BY HalGetTickType DEF LoopTypeOK
<1>2. CASE BootSucceeds \/ BootFails \/ ReadNow \/ PollInVain \/ SwitchHeld
    BY <1>2 DEF BootSucceeds, BootFails, ReadNow, PollInVain, SwitchHeld
<1>3. CASE DisarmAfterFailure \/ SwitchReleased
    BY <1>3 DEF DisarmAfterFailure, SwitchReleased, ApplicationNext
<1>4. CASE UpdateAfterFailure \/ UpdateSafety
    BY <1>1, <1>4 DEF UpdateAfterFailure, UpdateSafety, ApplicationNext
<1>5. CASE PollAndIngest
    BY <1>1, <1>5 DEF PollAndIngest, Receive, ApplicationNext
<1>6. CASE ArmIfRequested
    BY <1>6 DEF ArmIfRequested, ApplicationNext
<1>7. CASE TryCommand
    BY <1>7 DEF TryCommand, NoCommand, SendCommand, CommandFails, ApplicationNext
<1>8. CASE Interrupt \/ Bus \/ UNCHANGED vars
    BY <1>8 DEF Interrupt, SysTick, Bus, Peripheral, vars
<1> QED
    BY <1>2, <1>3, <1>4, <1>5, <1>6, <1>7, <1>8 DEF Next, Main

LEMMA InitIsTyped == Init => LoopTypeOK
<1> SUFFICES ASSUME Init PROVE LoopTypeOK
    OBVIOUS
<1>1. 0 \in Mono /\ 0 \in Tick /\ 0 \in 0 .. MaxLoopMs /\ TickMod \in 0 .. TickMod
    BY TickModAssumption, MonoModAssumption, MaxLoopAssumption DEF Mono, Tick
<1> QED
    BY <1>1 DEF Init, TimeInit, LoopTypeOK

LEMMA StepIsTyped ==
    ASSUME LoopTypeOK, [Next]_vars
    PROVE  LoopTypeOK'
<1> USE DEF LoopTypeOK
<1>1. HalGetTick \in Tick /\ 0 \in 0 .. MaxLoopMs
    BY HalGetTickType, MaxLoopAssumption
<1>2. CASE BootSucceeds \/ ReadNow
    BY <1>1, <1>2 DEF BootSucceeds, ReadNow, ReadTick
<1>3. CASE BootFails \/ PollInVain \/ DisarmAfterFailure \/ UpdateSafety
    BY <1>3 DEF BootFails, PollInVain, DisarmAfterFailure, UpdateSafety, time_vars, loop_vars
<1>4. CASE UpdateAfterFailure
    BY <1>1, <1>4 DEF UpdateAfterFailure, ReadTick, loop_vars
<1>5. CASE PollAndIngest
    <2>1. unread_ms \in 0 .. TickMod
        BY TickModAssumption, MaxLoopAssumption
    <2> QED
        BY <1>5, <2>1 DEF PollAndIngest, Receive, loop_vars
<1>6. CASE SwitchHeld \/ SwitchReleased
    BY <1>6 DEF SwitchHeld, SwitchReleased, time_vars
<1>7. CASE ArmIfRequested
    <2>1. (~CanArm) \in BOOLEAN
        OBVIOUS
    <2> QED
        BY <1>7, <2>1 DEF ArmIfRequested, time_vars
<1>8. CASE TryCommand
    BY <1>8 DEF TryCommand, time_vars
<1>9. CASE Interrupt
    <2>1. uptime_ms' \in Mono
        BY <1>9, TickModAssumption, MonoModAssumption DEF Interrupt, SysTick, MonoPlus, Mono
    <2>2. unread_ms' \in 0 .. MaxLoopMs /\ silent_ms' \in 0 .. TickMod
        BY <1>9, TickModAssumption, MaxLoopAssumption DEF Interrupt, SysTick
    <2> QED
        BY <1>9, <2>1, <2>2 DEF Interrupt, loop_vars
<1>10. CASE Bus
    BY <1>10 DEF Bus, Peripheral, time_vars, loop_vars
<1>11. CASE UNCHANGED vars
    BY <1>11 DEF vars, time_vars, loop_vars
<1> QED
    BY <1>2, <1>3, <1>4, <1>5, <1>6, <1>7, <1>8, <1>9, <1>10, <1>11 DEF Next, Main

------------------------------------------------------------------------------
(* The refinement of CommandPermission. *)

(* A permission is only ever held with the switch down and its request spent: *)
(* what the mapping of press needs to follow the loop.                        *)
RequestIsSpent ==
    /\ arm_request_pending => previous_arm_input
    /\ armed => previous_arm_input /\ ~arm_request_pending

LoopInvariant == LoopTypeOK /\ ApplicationInv /\ RequestIsSpent

LEMMA InitEstablishesLoopInvariant == Init => LoopInvariant
<1> SUFFICES ASSUME Init PROVE LoopInvariant
    OBVIOUS
<1>1. RequestIsSpent
    BY DEF Init, ApplicationInit, SafetyInit, RequestIsSpent
<1> QED
    BY <1>1, InitIsTyped, ApplicationStartsSound DEF Init, LoopInvariant

(* Nothing but arm() sets armed_. *)
LEMMA OthersDoNotArm ==
    ASSUME NEW t,
           \/ \E faulty \in BOOLEAN : ObserveHeartbeat(faulty, t)
           \/ SupervisorUpdate(t)
           \/ SupervisorDisarm
           \/ UNCHANGED safety_vars
    PROVE  armed' => armed
BY DEF ObserveHeartbeat, SupervisorUpdate, LatchHolds, NoHeartbeatYet, HeartbeatTimedOut,
       HeartbeatStillFresh, SupervisorDisarm, safety_vars

LEMMA StepSpendsRequest ==
    ASSUME LoopInvariant, [Next]_vars
    PROVE  RequestIsSpent'
<1> USE DEF LoopInvariant, RequestIsSpent
<1>1. CASE BootSucceeds \/ BootFails \/ ReadNow \/ PollInVain
    BY <1>1 DEF BootSucceeds, BootFails, ReadNow, PollInVain, application_vars, safety_vars,
                loop_vars
<1>2. CASE DisarmAfterFailure
    BY <1>2 DEF DisarmAfterFailure, Disarm, SupervisorDisarm, loop_vars
<1>3. CASE UpdateAfterFailure \/ UpdateSafety
    BY <1>3, OthersDoNotArm DEF UpdateAfterFailure, UpdateSafety, Update, loop_vars
<1>4. CASE PollAndIngest
    BY <1>4, IngestObserves, OthersDoNotArm DEF PollAndIngest, Receive, loop_vars
<1>5. CASE SwitchHeld
    BY <1>5 DEF SwitchHeld, application_vars, safety_vars
<1>6. CASE SwitchReleased
    BY <1>6 DEF SwitchReleased, Disarm, SupervisorDisarm
<1>7. CASE ArmIfRequested
    <2>1. CASE arm_request_pending /\ CanArm
        <3>1. arm_request_pending' = FALSE /\ previous_arm_input' = previous_arm_input
            BY <1>7, <2>1 DEF ArmIfRequested
        <3> QED
            BY <2>1, <3>1
    <2>2. CASE arm_request_pending /\ ~CanArm
        <3>1. UNCHANGED safety_vars /\ previous_arm_input' = previous_arm_input
            BY <1>7, <2>2 DEF ArmIfRequested, Arm, SupervisorArm
        <3> QED
            BY <2>2, <3>1 DEF safety_vars
    <2>3. CASE ~arm_request_pending
        BY <1>7, <2>3 DEF ArmIfRequested, application_vars, safety_vars
    <2> QED
        BY <2>1, <2>2, <2>3
<1>8. CASE TryCommand
    <2>1. armed' => armed
        BY <1>8 DEF TryCommand, NoCommand, SendCommand, CommandFails, Disarm,
                    SupervisorDisarm, application_vars, safety_vars
    <2> QED
        BY <1>8, <2>1 DEF TryCommand
<1>9. CASE Interrupt \/ Bus
    BY <1>9 DEF Interrupt, SysTick, Bus, Peripheral, application_vars, safety_vars, loop_vars
<1>10. CASE UNCHANGED vars
    BY <1>10 DEF vars, application_vars, safety_vars, loop_vars
<1> QED
    BY <1>1, <1>2, <1>3, <1>4, <1>5, <1>6, <1>7, <1>8, <1>9, <1>10 DEF Next, Main

LEMMA StepKeepsLoopInvariant ==
    ASSUME LoopInvariant, [Next]_vars
    PROVE  LoopInvariant'
BY StepCallsApplication, CallsKeepApplication, StepIsTyped, StepSpendsRequest
DEF LoopInvariant

LEMMA LoopInvariantHolds == Spec => []LoopInvariant
BY InitEstablishesLoopInvariant, StepKeepsLoopInvariant, PTL DEF Spec

(* The loop is a caller of the application, so what is proved of the application and *)
(* of its supervisor under any calls, ticks and frames is true of the firmware.      *)
THEOREM TxImplementsApplication == Spec => ApplicationSpec(BusFrames)
<1>1. Init => ApplicationInit
    BY DEF Init
<1>2. LoopInvariant /\ [Next]_vars => [ApplicationNext(BusFrames)]_application_vars
    BY StepCallsApplication DEF LoopInvariant
<1> QED
    BY <1>1, <1>2, LoopInvariantHolds, PTL DEF Spec, ApplicationSpec

(* The firmware is one of the callers SafetySpec allows. *)
THEOREM FirmwareImplementsSafety == Spec => SafetySpec
BY TxImplementsApplication, ApplicationImplementsSafety

(* Cache, receive stamp and supervisor tell of the same heartbeat throughout the loop, *)
(* the steps between the poll and the command included.                                *)
THEOREM TxRecordsAlwaysAgree == Spec => []HeartbeatRecordsAgree
BY TxImplementsApplication, ApplicationRecordsAgree

(* When the bus carries CAN frames, the cache holds nothing else than what frames of *)
(* this node carried.                                                                *)
THEOREM TxCacheAlwaysHoldsReports ==
    ASSUME BusFrames \subseteq CanFrame
    PROVE  Spec => []CacheHoldsReports
<1>1. Init => CacheInv(BusFrames)
    BY CacheStartsEmpty DEF Init
<1>2. LoopInvariant /\ CacheInv(BusFrames) /\ [Next]_vars => CacheInv(BusFrames)'
    BY StepCallsApplication, CallsKeepCache DEF LoopInvariant, ApplicationInv, RecordsInvariant
<1>3. CacheInv(BusFrames) => CacheHoldsReports
    BY DEF CacheInv, CacheHoldsReports
<1> QED
    BY <1>1, <1>2, <1>3, LoopInvariantHolds, PTL DEF Spec

------------------------------------------------------------------------------
(* What the calls do to the permission, as steps of CommandPermission. *)

(* Everything but arm() leaves the permission and the latch as they are, takes *)
(* the permission away, or locks.                                              *)
LEMMA CallsRevokeOrLock ==
    ASSUME SafetyInv, NEW t,
           \/ \E faulty \in BOOLEAN : ObserveHeartbeat(faulty, t)
           \/ SupervisorUpdate(t)
           \/ SupervisorDisarm
           \/ UNCHANGED safety_vars
    PROVE  \/ PermitsCommand' = PermitsCommand /\ fault_latched' = fault_latched
           \/ PermitsCommand' = FALSE /\ fault_latched' = fault_latched
           \/ PermitsCommand' = FALSE /\ fault_latched' = TRUE
<1> USE DEF SafetyInv, SafetyTypeOK, ArmedIsHealthy, PermitsCommand
<1>1. ASSUME NEW faulty \in BOOLEAN, ObserveHeartbeat(faulty, t), ~faulty
      PROVE  PermitsCommand' = PermitsCommand /\ fault_latched' = fault_latched
    BY <1>1 DEF ObserveHeartbeat
<1>2. ASSUME NEW faulty \in BOOLEAN, ObserveHeartbeat(faulty, t), faulty
      PROVE  PermitsCommand' = FALSE /\ fault_latched' = TRUE
    BY <1>2 DEF ObserveHeartbeat
<1>3. CASE SupervisorUpdate(t)
    BY <1>3 DEF SupervisorUpdate, LatchHolds, NoHeartbeatYet, HeartbeatTimedOut,
                HeartbeatStillFresh
<1>4. CASE SupervisorDisarm
    BY <1>4 DEF SupervisorDisarm
<1>5. CASE UNCHANGED safety_vars
    BY <1>5 DEF safety_vars
<1> QED
    BY <1>1, <1>2, <1>3, <1>4, <1>5

LEMMA InitRefines == Init => Permission!Init
BY DEF Init, ApplicationInit, SafetyInit, AdapterInit, PermitsCommand, Permission!Init

(* The switch and the mailboxes stand still while the supervisor is called. *)
LEMMA CallRefines ==
    ASSUME LoopInvariant, NEW t,
           \/ \E faulty \in BOOLEAN : ObserveHeartbeat(faulty, t)
           \/ SupervisorUpdate(t)
           \/ SupervisorDisarm
           \/ UNCHANGED safety_vars,
           UNCHANGED <<previous_arm_input, arm_request_pending, tx_pending>>
    PROVE  [Permission!Next]_Permission!vars
<1>1. \/ PermitsCommand' = PermitsCommand /\ fault_latched' = fault_latched
      \/ PermitsCommand' = FALSE /\ fault_latched' = fault_latched
      \/ PermitsCommand' = FALSE /\ fault_latched' = TRUE
    BY CallsRevokeOrLock DEF LoopInvariant, ApplicationInv
<1>2. CASE PermitsCommand' = PermitsCommand /\ fault_latched' = fault_latched
    BY <1>2 DEF Permission!vars
<1>3. CASE PermitsCommand' = FALSE /\ fault_latched' = fault_latched
    BY <1>3 DEF Permission!Next, Permission!Revoke
<1>4. CASE PermitsCommand' = FALSE /\ fault_latched' = TRUE
    BY <1>4 DEF Permission!Next, Permission!Lock
<1> QED
    BY <1>1, <1>2, <1>3, <1>4

(* The loop's steps, one abstract step or none each. *)
LEMMA StepRefines ==
    ASSUME LoopInvariant, [Next]_vars
    PROVE  [Permission!Next]_Permission!vars
<1> USE DEF LoopInvariant
<1>1. CASE BootSucceeds \/ BootFails \/ ReadNow \/ PollInVain
    <2>1. /\ UNCHANGED safety_vars
          /\ UNCHANGED <<previous_arm_input, arm_request_pending, tx_pending>>
        BY <1>1 DEF BootSucceeds, BootFails, ReadNow, PollInVain, InitializeSucceeds,
                    InitializeFails, PollFindsNothing, PollRejects, PollFails,
                    application_vars, adapter_vars, loop_vars
    <2> QED
        BY <2>1, CallRefines
<1>2. CASE DisarmAfterFailure
    BY <1>2, CallRefines DEF DisarmAfterFailure, Disarm, adapter_vars, loop_vars
<1>3. CASE UpdateAfterFailure \/ UpdateSafety
    BY <1>3, CallRefines DEF UpdateAfterFailure, UpdateSafety, Update, adapter_vars, loop_vars
<1>4. CASE PollAndIngest
    <2>1. UNCHANGED <<previous_arm_input, arm_request_pending, tx_pending>>
        BY <1>4 DEF PollAndIngest, PollDelivers, loop_vars
    <2>2. \/ \E faulty \in BOOLEAN : ObserveHeartbeat(faulty, now_ms)
          \/ UNCHANGED safety_vars
        BY <1>4, IngestObserves DEF PollAndIngest, Receive
    <2> QED
        BY <2>1, <2>2, CallRefines
<1>5. CASE SwitchHeld
    <2>1. /\ PermitsCommand' = PermitsCommand /\ fault_latched' = fault_latched
          /\ tx_pending' = tx_pending
        BY <1>5 DEF SwitchHeld, PermitsCommand, application_vars, safety_vars, adapter_vars
    <2>2. CASE previous_arm_input
        BY <1>5, <2>1, <2>2 DEF SwitchHeld, LoopTypeOK, Permission!vars
    <2>3. CASE ~previous_arm_input
        BY <1>5, <2>1, <2>3 DEF SwitchHeld, Permission!Next, Permission!Press
    <2> QED
        BY <2>2, <2>3
<1>6. CASE SwitchReleased
    <2>1. /\ PermitsCommand' = FALSE /\ fault_latched' = fault_latched
          /\ tx_pending' = tx_pending /\ previous_arm_input' = FALSE
        BY <1>6 DEF SwitchReleased, Disarm, SupervisorDisarm, PermitsCommand, adapter_vars
    <2> QED
        BY <2>1 DEF Permission!Next, Permission!Release
<1>7. CASE ArmIfRequested
    <2>1. tx_pending' = tx_pending /\ previous_arm_input' = previous_arm_input
        BY <1>7 DEF ArmIfRequested, adapter_vars
    <2>2. CASE arm_request_pending /\ CanArm
        <3>1. /\ armed' = TRUE /\ heartbeat_fresh' = heartbeat_fresh
              /\ fault_latched' = fault_latched /\ arm_request_pending' = FALSE
            BY <1>7, <2>2 DEF ArmIfRequested, Arm, SupervisorArm
        <3>2. PermitsCommand' = TRUE /\ previous_arm_input
            BY <2>2, <3>1 DEF CanArm, PermitsCommand, RequestIsSpent, ApplicationInv, SafetyInv,
                                      SafetyTypeOK
        <3> QED
            BY <2>1, <2>2, <3>1, <3>2 DEF CanArm, Permission!Next, Permission!Grant
    <2>3. CASE arm_request_pending /\ ~CanArm
        <3>1. UNCHANGED safety_vars /\ arm_request_pending' = TRUE
            BY <1>7, <2>3 DEF ArmIfRequested, Arm, SupervisorArm
        <3>2. arm_request_pending' = arm_request_pending
            BY <2>3, <3>1 DEF LoopTypeOK
        <3> QED
            BY <2>1, <3>1, <3>2, CallRefines
    <2>4. CASE ~arm_request_pending
        BY <1>7, <2>1, <2>4, CallRefines DEF ArmIfRequested, application_vars
    <2> QED
        BY <2>2, <2>3, <2>4
<1>8. CASE TryCommand
    <2>1. UNCHANGED <<previous_arm_input, arm_request_pending>>
        BY <1>8 DEF TryCommand
    <2>2. PICK enabled \in RuntimeInputs :
              NoCommand(enabled) \/ SendCommand(enabled) \/ CommandFails(enabled)
        BY <1>8 DEF TryCommand
    <2>3. CASE NoCommand(enabled)
        BY <2>1, <2>3, CallRefines DEF NoCommand, application_vars, adapter_vars
    <2>4. CASE SendCommand(enabled)
        <3>1. /\ PermitsCommand /\ tx_pending' = tx_pending + 1 /\ UNCHANGED safety_vars
            BY <2>4 DEF SendCommand, CommandIsDue, TransmitAccepts, application_vars
        <3>2. armed /\ ~fault_latched
            BY <3>1 DEF PermitsCommand
        <3>3. previous_arm_input /\ ~arm_request_pending
            BY <3>2 DEF RequestIsSpent
        <3>4. PermitsCommand' = PermitsCommand /\ fault_latched' = fault_latched
            BY <3>1 DEF PermitsCommand, safety_vars
        <3> QED
            BY <2>1, <3>1, <3>2, <3>3, <3>4 DEF Permission!Next, Permission!HandOver
    <2>5. CASE CommandFails(enabled)
        BY <2>1, <2>5, CallRefines
        DEF CommandFails, TransmitRefuses, TransmitFails, Disarm, adapter_vars
    <2> QED
        BY <2>2, <2>3, <2>4, <2>5
<1>9. CASE Interrupt
    BY <1>9, CallRefines DEF Interrupt, SysTick, application_vars, adapter_vars, loop_vars
<1>10. CASE Bus
    <2>1. UNCHANGED safety_vars /\ UNCHANGED <<previous_arm_input, arm_request_pending>>
        BY <1>10 DEF Bus, Peripheral, application_vars, loop_vars
    <2>2. CASE MailboxDone
        <3>1. PermitsCommand' = PermitsCommand /\ fault_latched' = fault_latched
            BY <2>1 DEF PermitsCommand, safety_vars
        <3> QED
            BY <2>1, <2>2, <3>1 DEF MailboxDone, Permission!Next, Permission!Sent
    <2>3. CASE \E frame \in BusFrames : FrameArrives(frame)
        BY <2>1, <2>3, CallRefines DEF FrameArrives
    <2> QED
        BY <1>10, <2>2, <2>3 DEF Bus, Peripheral
<1>11. CASE UNCHANGED vars
    BY <1>11, CallRefines DEF vars, application_vars, adapter_vars, loop_vars
<1> QED
    BY <1>1, <1>2, <1>3, <1>4, <1>5, <1>6, <1>7, <1>8, <1>9, <1>10, <1>11 DEF Next, Main

(* The firmware implements CommandPermission: one press buys at most one       *)
(* permission, what is lost is not given back while the switch stays down, a   *)
(* fault locks for good, and no frame enters a mailbox without a permission.   *)
THEOREM FirmwareImplementsPermission == Spec => ImplementsCommandPermission
<1>1. LoopInvariant /\ [Next]_vars => [Permission!Next]_Permission!vars
    BY StepRefines
<1> QED
    BY <1>1, InitRefines, LoopInvariantHolds, PTL
    DEF Spec, ImplementsCommandPermission, Permission!Spec

(* A permission is held on a switch that was down at its last reading and on a request *)
(* that is used up: what revokes it, a release apart, is not undone before the switch  *)
(* has been released and pressed again.                                                *)
PermissionIsPaidFor == PermitsCommand => previous_arm_input /\ ~arm_request_pending

(* Between arm() and the last statement of the loop, whatever the heartbeat, the adapter *)
(* and the inputs do.                                                                    *)
THEOREM PermissionIsAlwaysPaidFor == Spec => []PermissionIsPaidFor
<1>1. LoopInvariant => PermissionIsPaidFor
    BY DEF LoopInvariant, RequestIsSpent, PermitsCommand, PermissionIsPaidFor
<1> QED
    BY <1>1, LoopInvariantHolds, PTL
------------------------------------------------------------------------------
(* Time: the tick main holds, the heartbeat's age and the true silence. *)

(* The tick follows the uptime, across the wrap of either. *)
LEMMA HalGetTickNext ==
    ASSUME uptime_ms \in Mono, uptime_ms' = MonoPlus(uptime_ms, 1)
    PROVE  HalGetTick' = NextTick(HalGetTick)
<1>1. uptime_ms \in Int /\ uptime_ms + 1 <= MonoMod
    BY MonoModAssumption DEF Mono
<1>2. (uptime_ms + 1) % TickMod = NextTick(HalGetTick)
    BY <1>1, TickOfNext DEF HalGetTick
<1>3. CASE uptime_ms + 1 < MonoMod
    <2>1. uptime_ms' = uptime_ms + 1
        BY <1>1, <1>3, MonoModAssumption DEF MonoPlus
    <2> QED
        BY <1>2, <2>1 DEF HalGetTick
<1>4. CASE uptime_ms + 1 = MonoMod
    <2>1. uptime_ms' = 0
        BY <1>1, <1>4, MonoModAssumption DEF MonoPlus
    <2>2. 0 \in Tick /\ 0 = TickMod * 0 + 0
        BY TickModAssumption DEF Tick
    <2>3. 0 % TickMod = 0
        BY <2>2, TickIsRemainder
    <2>4. (uptime_ms + 1) % TickMod = 0
        BY <1>4, MonoModAssumption
    <2> QED
        BY <1>2, <2>1, <2>3, <2>4 DEF HalGetTick
<1> QED
    BY <1>1, <1>3, <1>4, MonoModAssumption

(* Within a turn of the tick the wrapped age of the stamp is the true silence. *)
StampAgeIsTrue == silent_ms < TickMod => TickAge(HalGetTick, last_heartbeat_ms) = silent_ms

(* now_ms is as old as the counter of true time says. *)
NowAgeIsTrue ==
    pc \in {"poll", "update", "switch", "arm", "command"} =>
        TickAge(HalGetTick, now_ms) = unread_ms

BeforeUpdate == pc \in {"poll", "update"}

(* A fresh flag is on a young heartbeat: since the last update no more than this *)
(* iteration has passed, or between the read of the tick and update the last.    *)
FreshIsYoung ==
    heartbeat_fresh /\ ~fault_latched /\ silent_ms < TickMod =>
        silent_ms < HeartbeatTimeout + unread_ms + (IF BeforeUpdate THEN MaxLoopMs ELSE 0)

NothingHeardYet ==
    pc \in {"boot", "failed_disarm", "failed_update"} => ~has_heartbeat /\ ~heartbeat_fresh

TimeInvariant ==
    LoopInvariant /\ StampAgeIsTrue /\ NowAgeIsTrue /\ FreshIsYoung /\ NothingHeardYet

LEMMA InitEstablishesTimeInvariant == Init => TimeInvariant
<1> SUFFICES ASSUME Init PROVE TimeInvariant
    OBVIOUS
<1>1. silent_ms = TickMod /\ pc = "boot" /\ ~has_heartbeat /\ ~heartbeat_fresh
    BY DEF Init, TimeInit, ApplicationInit, SafetyInit
<1>2. ~(silent_ms < TickMod)
    BY <1>1, TickModAssumption
<1> QED
    BY <1>1, <1>2, InitEstablishesLoopInvariant
    DEF TimeInvariant, StampAgeIsTrue, NowAgeIsTrue, FreshIsYoung, NothingHeardYet

(* The numbers of the invariant. *)
LEMMA TimeTypes ==
    ASSUME LoopInvariant
    PROVE  /\ TickMod \in Nat /\ MaxLoopMs \in Nat \ {0} /\ MaxLoopMs < TickMod
           /\ HeartbeatTimeout \in 0 .. TickMod - 1
           /\ unread_ms \in 0 .. MaxLoopMs /\ silent_ms \in 0 .. TickMod
           /\ HalGetTick \in Tick /\ now_ms \in Tick /\ last_heartbeat_ms \in Tick
BY HalGetTickType, TickModAssumption, MaxLoopAssumption, HeartbeatTimeoutAssumption
DEF LoopInvariant, LoopTypeOK, ApplicationInv, SafetyInv, SafetyTypeOK, Tick

LEMMA SysTickKeepsTime ==
    ASSUME TimeInvariant, Interrupt
    PROVE  StampAgeIsTrue' /\ NowAgeIsTrue' /\ FreshIsYoung' /\ NothingHeardYet'
<1> USE DEF TimeInvariant
<1> USE TimeTypes
<1>1. /\ unread_ms < MaxLoopMs /\ unread_ms' = unread_ms + 1
      /\ silent_ms' = IF silent_ms < TickMod THEN silent_ms + 1 ELSE TickMod
      /\ HalGetTick' = NextTick(HalGetTick)
    BY HalGetTickNext DEF Interrupt, SysTick, LoopInvariant, LoopTypeOK
<1>2. /\ UNCHANGED <<last_heartbeat_ms, has_heartbeat, heartbeat_fresh, fault_latched>>
      /\ UNCHANGED <<pc, now_ms>>
    BY DEF Interrupt, SysTick, application_vars, safety_vars, loop_vars
<1>3. StampAgeIsTrue'
    <2> SUFFICES ASSUME silent_ms' < TickMod
                 PROVE  TickAge(HalGetTick', last_heartbeat_ms) = silent_ms'
        BY <1>2 DEF StampAgeIsTrue
    <2>1. silent_ms < TickMod - 1 /\ silent_ms' = silent_ms + 1
        BY <1>1
    <2>2. TickAge(HalGetTick, last_heartbeat_ms) = silent_ms
        BY <2>1 DEF StampAgeIsTrue
    <2> QED
        BY <1>1, <2>1, <2>2, TickAgeNext
<1>4. NowAgeIsTrue'
    <2> SUFFICES ASSUME pc \in {"poll", "update", "switch", "arm", "command"}
                 PROVE  TickAge(HalGetTick', now_ms) = unread_ms'
        BY <1>2 DEF NowAgeIsTrue
    <2>1. TickAge(HalGetTick, now_ms) = unread_ms
        BY DEF NowAgeIsTrue
    <2>2. unread_ms < TickMod - 1
        BY <1>1
    <2> QED
        BY <1>1, <2>1, <2>2, TickAgeNext
<1>5. FreshIsYoung'
    <2> SUFFICES ASSUME heartbeat_fresh, ~fault_latched, silent_ms' < TickMod
                 PROVE  silent_ms' < HeartbeatTimeout + unread_ms'
                                       + (IF BeforeUpdate THEN MaxLoopMs ELSE 0)
        BY <1>2 DEF FreshIsYoung, BeforeUpdate
    <2>1. silent_ms < TickMod /\ silent_ms' = silent_ms + 1
        BY <1>1
    <2>2. silent_ms < HeartbeatTimeout + unread_ms + (IF BeforeUpdate THEN MaxLoopMs ELSE 0)
        BY <2>1 DEF FreshIsYoung
    <2>3. (IF BeforeUpdate THEN MaxLoopMs ELSE 0) \in Int
        OBVIOUS
    <2> QED
        BY <1>1, <2>1, <2>2, <2>3
<1>6. NothingHeardYet'
    BY <1>2 DEF NothingHeardYet
<1> QED
    BY <1>3, <1>4, <1>5, <1>6

LEMMA PollKeepsTime ==
    ASSUME TimeInvariant, PollAndIngest
    PROVE  StampAgeIsTrue' /\ NowAgeIsTrue' /\ FreshIsYoung' /\ NothingHeardYet'
<1> USE DEF TimeInvariant
<1> USE TimeTypes
<1>1. PICK frame \in BusFrames : Receive(frame, now_ms, unread_ms)
    BY DEF PollAndIngest
<1>2. /\ pc = "poll" /\ pc' = "update" /\ unread_ms' = unread_ms /\ now_ms' = now_ms
      /\ HalGetTick' = HalGetTick
    BY <1>1 DEF PollAndIngest, Goto, Receive, HalGetTick, loop_vars
<1>3. CASE HasValue(DecodeHeartbeat(frame, NodeId))
    <2>1. silent_ms' = unread_ms /\ last_heartbeat_ms' = now_ms
        BY <1>1, <1>3, IngestObserves DEF Receive, ObserveHeartbeat
    <2>2. TickAge(HalGetTick, now_ms) = unread_ms
        BY <1>2 DEF NowAgeIsTrue
    <2>3. StampAgeIsTrue' /\ NowAgeIsTrue'
        BY <1>2, <2>1, <2>2 DEF StampAgeIsTrue, NowAgeIsTrue
    <2>4. unread_ms < HeartbeatTimeout + unread_ms + MaxLoopMs
        OBVIOUS
    <2>5. FreshIsYoung'
        BY <1>2, <2>1, <2>4 DEF FreshIsYoung, BeforeUpdate
    <2> QED
        BY <1>2, <2>3, <2>5 DEF NothingHeardYet
<1>4. CASE ~HasValue(DecodeHeartbeat(frame, NodeId))
    <2>1. silent_ms' = silent_ms /\ UNCHANGED safety_vars
        BY <1>1, <1>4, IngestObserves DEF Receive
    <2> QED
        BY <1>2, <2>1
        DEF safety_vars, StampAgeIsTrue, NowAgeIsTrue, FreshIsYoung, BeforeUpdate,
            NothingHeardYet
<1> QED
    BY <1>3, <1>4

(* update judges the age by now_ms, and the rest of the iteration adds to it.  *)
LEMMA UpdateKeepsTime ==
    ASSUME TimeInvariant, UpdateSafety
    PROVE  StampAgeIsTrue' /\ NowAgeIsTrue' /\ FreshIsYoung' /\ NothingHeardYet'
<1> USE DEF TimeInvariant
<1> USE TimeTypes
<1>1. /\ pc = "update" /\ pc' = "switch"
      /\ UNCHANGED <<unread_ms, silent_ms, now_ms, last_heartbeat_ms, fault_latched>>
      /\ HalGetTick' = HalGetTick /\ SupervisorUpdate(now_ms)
    BY DEF UpdateSafety, Goto, Update, SupervisorUpdate, HalGetTick, time_vars, loop_vars
<1>2. TickAge(HalGetTick, now_ms) = unread_ms
    BY <1>1 DEF NowAgeIsTrue
<1>3. StampAgeIsTrue' /\ NowAgeIsTrue'
    BY <1>1, <1>2 DEF StampAgeIsTrue, NowAgeIsTrue
<1>4. FreshIsYoung'
    <2> SUFFICES ASSUME heartbeat_fresh', ~fault_latched, silent_ms < TickMod
                 PROVE  silent_ms < HeartbeatTimeout + unread_ms
        BY <1>1 DEF FreshIsYoung, BeforeUpdate
    <2>1. TickAge(now_ms, last_heartbeat_ms) < HeartbeatTimeout
        BY <1>1 DEF SupervisorUpdate, LatchHolds, NoHeartbeatYet, HeartbeatTimedOut,
                    HeartbeatStillFresh
    <2>2. TickAge(HalGetTick, last_heartbeat_ms) = silent_ms
        BY DEF StampAgeIsTrue
    <2>3. silent_ms <= unread_ms + TickAge(now_ms, last_heartbeat_ms)
        BY <1>2, <2>2, TickAgeTriangle
    <2>4. TickAge(now_ms, last_heartbeat_ms) \in Int
        BY TickAgeType DEF Tick
    <2> QED
        BY <2>1, <2>3, <2>4
<1>5. NothingHeardYet'
    BY <1>1 DEF NothingHeardYet
<1> QED
    BY <1>3, <1>4, <1>5

(* A new iteration: what the last one took is bounded by the loop.             *)
LEMMA ReadKeepsTime ==
    ASSUME TimeInvariant, ReadNow
    PROVE  StampAgeIsTrue' /\ NowAgeIsTrue' /\ FreshIsYoung' /\ NothingHeardYet'
<1> USE DEF TimeInvariant
<1> USE TimeTypes
<1>1. /\ pc = "read_tick" /\ pc' = "poll" /\ unread_ms' = 0 /\ silent_ms' = silent_ms
      /\ now_ms' = HalGetTick /\ HalGetTick' = HalGetTick
      /\ UNCHANGED <<last_heartbeat_ms, heartbeat_fresh, fault_latched>>
    BY DEF ReadNow, Goto, ReadTick, HalGetTick, application_vars, safety_vars
<1>2. StampAgeIsTrue' /\ NowAgeIsTrue' /\ NothingHeardYet'
    BY <1>1, TickAgeSelf DEF StampAgeIsTrue, NowAgeIsTrue, NothingHeardYet
<1>3. FreshIsYoung'
    <2> SUFFICES ASSUME heartbeat_fresh, ~fault_latched, silent_ms < TickMod
                 PROVE  silent_ms < HeartbeatTimeout + 0 + MaxLoopMs
        BY <1>1 DEF FreshIsYoung, BeforeUpdate
    <2>1. silent_ms < HeartbeatTimeout + unread_ms
        BY <1>1 DEF FreshIsYoung, BeforeUpdate
    <2> QED
        BY <2>1
<1> QED
    BY <1>2, <1>3

(* The other steps of main take no time and judge nothing. *)
LEMMA OthersKeepTime ==
    ASSUME TimeInvariant,
           \/ PollInVain \/ SwitchHeld \/ SwitchReleased \/ ArmIfRequested \/ TryCommand
           \/ Bus \/ UNCHANGED vars
    PROVE  StampAgeIsTrue' /\ NowAgeIsTrue' /\ FreshIsYoung' /\ NothingHeardYet'
<1> USE DEF TimeInvariant
<1>1. UNCHANGED <<uptime_ms, unread_ms, silent_ms, now_ms>>
    BY DEF PollInVain, SwitchHeld, SwitchReleased, ArmIfRequested, TryCommand, Bus,
           Peripheral, vars, time_vars, loop_vars
<1>2. UNCHANGED <<last_heartbeat_ms, has_heartbeat, heartbeat_fresh, fault_latched>>
    BY DEF PollInVain, SwitchHeld, SwitchReleased, ArmIfRequested, TryCommand, NoCommand,
           SendCommand, CommandFails, Bus, Peripheral, vars, Arm, SupervisorArm, Disarm,
           SupervisorDisarm, application_vars, safety_vars
<1>3. \/ pc' = pc
      \/ pc = "poll" /\ pc' = "update"
      \/ pc = "switch" /\ pc' = "arm"
      \/ pc = "arm" /\ pc' = "command"
      \/ pc = "command" /\ pc' = "read_tick"
    BY DEF PollInVain, SwitchHeld, SwitchReleased, ArmIfRequested, TryCommand, Goto, Bus, vars
<1>4. HalGetTick' = HalGetTick
    BY <1>1 DEF HalGetTick
<1> QED
    BY <1>1, <1>2, <1>3, <1>4
    DEF StampAgeIsTrue, NowAgeIsTrue, FreshIsYoung, BeforeUpdate, NothingHeardYet

(* Before the first iteration, and after a failed initialize, nothing is fresh. *)
LEMMA BootKeepsTime ==
    ASSUME TimeInvariant,
           BootSucceeds \/ BootFails \/ DisarmAfterFailure \/ UpdateAfterFailure
    PROVE  StampAgeIsTrue' /\ NowAgeIsTrue' /\ FreshIsYoung' /\ NothingHeardYet'
<1> USE DEF TimeInvariant
<1>1. /\ pc \in {"boot", "failed_disarm", "failed_update"}
      /\ pc' \in {"read_tick", "failed_disarm", "failed_update"}
    BY DEF BootSucceeds, BootFails, DisarmAfterFailure, UpdateAfterFailure, Goto
<1>2. ~has_heartbeat /\ ~heartbeat_fresh
    BY <1>1 DEF NothingHeardYet
<1>3. UNCHANGED <<last_heartbeat_ms, has_heartbeat, uptime_ms, silent_ms>> /\ ~heartbeat_fresh'
    BY <1>2 DEF BootSucceeds, BootFails, DisarmAfterFailure, UpdateAfterFailure, ReadTick,
                Update, SupervisorUpdate, LatchHolds, NoHeartbeatYet, HeartbeatTimedOut,
                HeartbeatStillFresh, Disarm, SupervisorDisarm, application_vars, safety_vars,
                time_vars
<1>4. HalGetTick' = HalGetTick
    BY <1>3 DEF HalGetTick
<1> QED
    BY <1>1, <1>2, <1>3, <1>4 DEF StampAgeIsTrue, NowAgeIsTrue, FreshIsYoung, NothingHeardYet

LEMMA StepKeepsTimeInvariant ==
    ASSUME TimeInvariant, [Next]_vars
    PROVE  TimeInvariant'
<1>1. LoopInvariant'
    BY StepKeepsLoopInvariant DEF TimeInvariant
<1>2. StampAgeIsTrue' /\ NowAgeIsTrue' /\ FreshIsYoung' /\ NothingHeardYet'
    BY SysTickKeepsTime, PollKeepsTime, UpdateKeepsTime, ReadKeepsTime, OthersKeepTime,
       BootKeepsTime
    DEF Next, Main
<1> QED
    BY <1>1, <1>2 DEF TimeInvariant

LEMMA TimeInvariantHolds == Spec => []TimeInvariant
BY InitEstablishesTimeInvariant, StepKeepsTimeInvariant, PTL DEF Spec

(* Only a permitted command enters a mailbox. *)
LEMMA HandOverIsPermitted ==
    ASSUME tx_pending \in Nat, [Next]_vars
    PROVE  /\ tx_pending' \in Nat
           /\ CommandHandedOver => pc = "command" /\ CommandIsDue
<1>1. \/ tx_pending' = tx_pending
      \/ tx_pending > 0 /\ tx_pending' = tx_pending - 1
      \/ tx_pending' = tx_pending + 1 /\ pc = "command" /\ CommandIsDue
    <2>1. CASE TryCommand
        BY <2>1 DEF TryCommand, Goto, NoCommand, SendCommand, CommandFails, TransmitAccepts, TransmitRefuses, TransmitFails, adapter_vars
    <2>2. CASE Interrupt \/ Bus \/ UNCHANGED vars
        BY <2>2 DEF Interrupt, SysTick, Bus, Peripheral, FrameArrives, MailboxDone, vars,
                    adapter_vars
    <2>3. CASE \/ BootSucceeds \/ BootFails \/ PollAndIngest \/ PollInVain
        BY <2>3 DEF BootSucceeds, BootFails, InitializeSucceeds, InitializeFails,
                    PollAndIngest, PollDelivers, PollInVain, PollFindsNothing, PollRejects,
                    PollFails, adapter_vars
    <2>4. CASE \/ DisarmAfterFailure \/ UpdateAfterFailure \/ ReadNow \/ UpdateSafety
               \/ SwitchHeld \/ SwitchReleased \/ ArmIfRequested
        BY <2>4 DEF DisarmAfterFailure, UpdateAfterFailure, ReadNow, UpdateSafety, SwitchHeld,
                    SwitchReleased, ArmIfRequested, adapter_vars
    <2> QED
        BY <2>1, <2>2, <2>3, <2>4 DEF Next, Main
<1> QED
    BY <1>1 DEF CommandHandedOver

LEMMA PendingHolds == Spec => [](tx_pending \in Nat)
<1>1. Init => tx_pending \in Nat
    BY DEF Init, AdapterInit
<1>2. tx_pending \in Nat /\ [Next]_vars => (tx_pending \in Nat)'
    BY HandOverIsPermitted
<1> QED
    BY <1>1, <1>2, PTL DEF Spec

(* The single read of now_ms costs what the iteration has taken and no more:   *)
(* a command is handed over on a heartbeat younger than the timeout plus that, *)
(* or one that a full turn of the tick has made look young.                    *)
THEOREM CommandAgeIsBounded == Spec => CommandHeartbeatAge
<1>1. TimeInvariant /\ tx_pending \in Nat /\ [Next]_vars
        => [CommandHandedOver =>
              silent_ms < HeartbeatTimeout + unread_ms \/ silent_ms = TickMod]_vars
    <2> SUFFICES ASSUME TimeInvariant, tx_pending \in Nat, Next, CommandHandedOver
                 PROVE  silent_ms < HeartbeatTimeout + unread_ms \/ silent_ms = TickMod
        BY HandOverIsPermitted DEF CommandHandedOver, vars, adapter_vars
    <2>1. pc = "command" /\ heartbeat_fresh /\ ~fault_latched
        BY HandOverIsPermitted DEF CommandIsDue, PermitsCommand
    <2>2. CASE silent_ms < TickMod
        BY <2>1, <2>2, TimeTypes DEF TimeInvariant, FreshIsYoung, BeforeUpdate
    <2>3. CASE ~(silent_ms < TickMod)
        BY <2>3, TimeTypes DEF TimeInvariant
    <2> QED
        BY <2>2, <2>3
<1> QED
    BY <1>1, TimeInvariantHolds, PendingHolds, PTL DEF Spec, CommandHeartbeatAge

(* When the timeout and two iterations fit into a turn of the tick, no session *)
(* is carried across a full turn without a heartbeat.                          *)
THEOREM SessionAlwaysEndsBeforeRollover ==
    ASSUME HeartbeatTimeout + 2 * MaxLoopMs <= TickMod
    PROVE  Spec => SessionEndsBeforeRollover
<1>1. TimeInvariant /\ [Next]_vars
        => [PermitsCommand /\ PermitsCommand' /\ silent_ms < TickMod
              => silent_ms' < TickMod]_vars
    <2> SUFFICES ASSUME TimeInvariant, Next, PermitsCommand, silent_ms < TickMod
                 PROVE  silent_ms' < TickMod
        OBVIOUS
    <2> USE DEF TimeInvariant
    <2> USE TimeTypes
    <2>1. CASE Interrupt
        <3>1. unread_ms < MaxLoopMs /\ silent_ms' = silent_ms + 1
            BY <2>1 DEF Interrupt, SysTick
        <3>2. silent_ms < HeartbeatTimeout + unread_ms + MaxLoopMs
            <4>1. heartbeat_fresh /\ ~fault_latched
                BY DEF PermitsCommand
            <4> QED
                BY <4>1 DEF FreshIsYoung
        <3> QED
            BY <3>1, <3>2
    <2>2. CASE PollAndIngest
        BY <2>2 DEF PollAndIngest, Receive
    <2>3. CASE ~Interrupt /\ ~PollAndIngest
        <3>1. silent_ms' = silent_ms
            BY <2>3 DEF Next, Main, BootSucceeds, BootFails, DisarmAfterFailure,
                        UpdateAfterFailure, ReadNow, PollInVain, UpdateSafety, SwitchHeld,
                        SwitchReleased, ArmIfRequested, TryCommand, Bus, Peripheral, ReadTick,
                        time_vars
        <3> QED
            BY <3>1
    <2> QED
        BY <2>1, <2>2, <2>3
<1> QED
    BY <1>1, TimeInvariantHolds, PTL DEF Spec, SessionEndsBeforeRollover
------------------------------------------------------------------------------
(* The 64-bit clock counts the uptime, although main passes the application a tick *)
(* it read at the head of the iteration.                                           *)

(* What the next advance by now_ms must add. *)
Behind == IF BeforeUpdate THEN TickAge(now_ms, clock.last_raw_ms) ELSE 0

(* Where the clock stands: behind by what this iteration has taken, and between the *)
(* read of the tick and the first advance also by the last one; before the very     *)
(* first advance, boot was no longer ago than that.                                 *)
ClockTrails ==
    /\ pc = "boot" => ~clock.initialized
    /\ clock.initialized =>
          TickAge(HalGetTick, clock.last_raw_ms) = unread_ms + Behind /\ Behind <= MaxLoopMs
    /\ ~clock.initialized =>
          /\ pc \in {"boot", "failed_disarm", "failed_update", "read_tick", "poll", "update"}
          /\ pc \in {"boot", "failed_disarm", "failed_update"} => uptime_ms <= unread_ms
          /\ pc = "read_tick" => uptime_ms <= unread_ms + MaxLoopMs
          /\ BeforeUpdate => MonoPlus(now_ms, unread_ms) = uptime_ms

UptimeInvariant == TimeInvariant /\ ClockTrails /\ MonotonicClockIsUptime

LEMMA ClockTypes ==
    ASSUME UptimeInvariant
    PROVE  /\ ClockIsTyped(clock) /\ clock.last_raw_ms \in Tick /\ clock.monotonic_ms \in Mono
           /\ uptime_ms \in Mono /\ now_ms \in Mono /\ Behind \in Nat
           /\ MonoMod \in Nat /\ MonoMod >= TickMod
<1>1. ClockIsTyped(clock) /\ uptime_ms \in Mono /\ now_ms \in Tick
    BY DEF UptimeInvariant, TimeInvariant, LoopInvariant, LoopTypeOK, ApplicationInv,
           ClocksAreTyped
<1>2. clock.last_raw_ms \in Tick /\ clock.monotonic_ms \in Mono
    BY <1>1 DEF ClockIsTyped
<1>3. TickAge(now_ms, clock.last_raw_ms) \in Tick
    BY <1>1, <1>2, TickAgeType
<1>4. Behind \in Nat
    BY <1>3 DEF Behind, Tick
<1> QED
    BY <1>1, <1>2, <1>4, MonoModAssumption, TickModAssumption DEF Mono, Tick

LEMMA SmallUptimeIsTheTick ==
    ASSUME uptime_ms \in Nat, uptime_ms < TickMod
    PROVE  HalGetTick = uptime_ms
<1>1. uptime_ms \in Tick /\ uptime_ms \in Int /\ uptime_ms = TickMod * 0 + uptime_ms
    BY TickModAssumption DEF Tick
<1> QED
    BY <1>1, TickIsRemainder DEF HalGetTick

(* The first advance of an iteration, by a frame or by update, catches up with the *)
(* read of the tick.                                                               *)
LEMMA AdvanceToNow ==
    ASSUME UptimeInvariant, 2 * MaxLoopMs < TickMod, BeforeUpdate, clock' = Advanced(now_ms),
           UNCHANGED << uptime_ms, unread_ms, now_ms >>, pc' \in {"update", "switch"}
    PROVE  ClockTrails' /\ MonotonicClockIsUptime'
<1> USE TimeTypes, ClockTypes DEF UptimeInvariant, TimeInvariant
<1>1. /\ clock'.initialized /\ clock'.last_raw_ms = now_ms /\ HalGetTick' = HalGetTick
    BY AdvanceIsTyped DEF HalGetTick
<1>2. TickAge(HalGetTick, now_ms) = unread_ms /\ TickAge(now_ms, now_ms) = 0
    BY TickAgeSelf DEF NowAgeIsTrue, BeforeUpdate
<1>3. Behind' = 0
    BY <1>1, <1>2 DEF Behind
<1>4. ClockTrails'
    BY <1>1, <1>2, <1>3 DEF ClockTrails
<1>5. MonoPlus(clock'.monotonic_ms, unread_ms) = uptime_ms
    <2>1. CASE clock.initialized
        <3>1. clock'.monotonic_ms = MonoPlus(clock.monotonic_ms, Behind)
            BY <2>1 DEF Advanced, ClockIsTyped, Behind
        <3>2. MonoPlus(clock.monotonic_ms, unread_ms + Behind) = uptime_ms
            BY <2>1 DEF MonotonicClockIsUptime, ClockTrails
        <3>3. Behind <= MaxLoopMs /\ Behind + unread_ms < MonoMod
            BY <2>1 DEF ClockTrails
        <3>4. MonoPlus(MonoPlus(clock.monotonic_ms, Behind), unread_ms)
                = MonoPlus(clock.monotonic_ms, Behind + unread_ms)
            BY <3>3, MonoPlusSum
        <3> QED
            BY <3>1, <3>2, <3>4
    <2>2. CASE ~clock.initialized
        BY <2>2 DEF Advanced, ClockTrails
    <2> QED
        BY <2>1, <2>2
<1>6. MonotonicClockIsUptime'
    BY <1>1, <1>2, <1>5 DEF MonotonicClockIsUptime
<1> QED
    BY <1>4, <1>6

(* The loop main never leaves passes the tick of the moment. *)
LEMMA FailureKeepsUptime ==
    ASSUME UptimeInvariant, 2 * MaxLoopMs < TickMod, UpdateAfterFailure
    PROVE  ClockTrails' /\ MonotonicClockIsUptime'
<1> USE TimeTypes, ClockTypes DEF UptimeInvariant, TimeInvariant
<1>1. /\ pc = "failed_update" /\ pc' = "failed_disarm" /\ clock' = Advanced(HalGetTick)
      /\ uptime_ms' = uptime_ms /\ unread_ms' = 0 /\ HalGetTick' = HalGetTick
    BY DEF UpdateAfterFailure, Goto, Update, ReadTick, HalGetTick
<1>2. clock'.initialized /\ clock'.last_raw_ms = HalGetTick
    BY <1>1, AdvanceIsTyped
<1>3. TickAge(HalGetTick, HalGetTick) = 0 /\ Behind' = 0 /\ Behind = 0
    BY <1>1, TickAgeSelf DEF Behind, BeforeUpdate
<1>4. ClockTrails'
    BY <1>1, <1>2, <1>3 DEF ClockTrails
<1>5. clock'.monotonic_ms = uptime_ms
    <2>1. CASE clock.initialized
        <3>1. clock'.monotonic_ms
                = MonoPlus(clock.monotonic_ms, TickAge(HalGetTick, clock.last_raw_ms))
            BY <1>1, <2>1 DEF Advanced, ClockIsTyped
        <3> QED
            BY <2>1, <3>1 DEF MonotonicClockIsUptime
    <2>2. CASE ~clock.initialized
        <3>1. uptime_ms \in Nat /\ uptime_ms < TickMod
            BY <1>1, <2>2 DEF ClockTrails, Mono
        <3> QED
            BY <1>1, <2>2, <3>1, SmallUptimeIsTheTick DEF Advanced
    <2> QED
        BY <2>1, <2>2
<1>6. MonotonicClockIsUptime'
    BY <1>1, <1>2, <1>3, <1>5, MonoPlusZero DEF MonotonicClockIsUptime
<1> QED
    BY <1>4, <1>6

LEMMA ReadKeepsUptime ==
    ASSUME UptimeInvariant, 2 * MaxLoopMs < TickMod, ReadNow
    PROVE  ClockTrails' /\ MonotonicClockIsUptime'
<1> USE TimeTypes, ClockTypes DEF UptimeInvariant, TimeInvariant
<1>1. /\ pc = "read_tick" /\ pc' = "poll" /\ clock' = clock /\ now_ms' = HalGetTick
      /\ uptime_ms' = uptime_ms /\ unread_ms' = 0 /\ HalGetTick' = HalGetTick
    BY DEF ReadNow, Goto, ReadTick, HalGetTick, application_vars
<1>2. Behind = 0 /\ Behind' = TickAge(HalGetTick, clock.last_raw_ms)
    BY <1>1 DEF Behind, BeforeUpdate
<1>3. MonotonicClockIsUptime'
    BY <1>1 DEF MonotonicClockIsUptime
<1>4. CASE clock.initialized
    BY <1>1, <1>2, <1>3, <1>4 DEF ClockTrails
<1>5. CASE ~clock.initialized
    <2>1. uptime_ms \in Nat /\ uptime_ms < TickMod
        BY <1>1, <1>5 DEF ClockTrails, Mono
    <2>2. now_ms' = uptime_ms /\ MonoPlus(uptime_ms, 0) = uptime_ms
        BY <1>1, <2>1, SmallUptimeIsTheTick, MonoPlusZero
    <2> QED
        BY <1>1, <1>3, <1>5, <2>2 DEF ClockTrails
<1> QED
    BY <1>4, <1>5

LEMMA SysTickKeepsUptime ==
    ASSUME UptimeInvariant, 2 * MaxLoopMs < TickMod, Interrupt
    PROVE  ClockTrails' /\ MonotonicClockIsUptime'
<1> USE TimeTypes, ClockTypes DEF UptimeInvariant, TimeInvariant
<1>1. /\ unread_ms < MaxLoopMs /\ unread_ms' = unread_ms + 1
      /\ uptime_ms' = MonoPlus(uptime_ms, 1) /\ HalGetTick' = NextTick(HalGetTick)
      /\ UNCHANGED << clock, pc, now_ms >>
    BY HalGetTickNext DEF Interrupt, SysTick, application_vars, loop_vars
<1>2. Behind' = Behind /\ BeforeUpdate' = BeforeUpdate
    BY <1>1 DEF Behind, BeforeUpdate
<1>3. CASE clock.initialized
    <2> DEFINE age == TickAge(HalGetTick, clock.last_raw_ms)
    <2>1. age = unread_ms + Behind /\ Behind <= MaxLoopMs /\ age \in Nat
        BY <1>3 DEF ClockTrails
    <2>2. age + 1 < TickMod /\ age < TickMod - 1
        BY <1>1, <2>1
    <2>3. TickAge(HalGetTick', clock.last_raw_ms) = age + 1
        BY <1>1, <2>2, TickAgeNext
    <2>4. MonoPlus(clock.monotonic_ms, age) = uptime_ms
        BY <1>3 DEF MonotonicClockIsUptime
    <2> HIDE DEF age
    <2>5. MonoPlus(clock.monotonic_ms, age + 1) = MonoPlus(uptime_ms, 1)
        BY <2>1, <2>2, <2>4, MonoPlusNext
    <2>6. MonotonicClockIsUptime'
        BY <1>1, <2>3, <2>5 DEF MonotonicClockIsUptime
    <2>7. ClockTrails'
        BY <1>1, <1>2, <1>3, <2>1, <2>3 DEF ClockTrails
    <2> QED
        BY <2>6, <2>7
<1>4. CASE ~clock.initialized
    <2>1. MonotonicClockIsUptime'
        BY <1>1, <1>4 DEF MonotonicClockIsUptime
    <2>2. uptime_ms + 1 < MonoMod => uptime_ms' = uptime_ms + 1
        BY <1>1 DEF MonoPlus, Mono
    <2>3. BeforeUpdate => MonoPlus(now_ms, unread_ms + 1) = uptime_ms'
        <3>1. unread_ms + 1 < TickMod
            BY <1>1
        <3>2. MonoPlus(now_ms, unread_ms + 1) = MonoPlus(MonoPlus(now_ms, unread_ms), 1)
            BY <3>1, MonoPlusNext
        <3> QED
            BY <1>1, <1>4, <3>2 DEF ClockTrails
    <2>4. pc \in {"boot", "failed_disarm", "failed_update"} => uptime_ms' <= unread_ms + 1
        BY <1>1, <1>4, <2>2 DEF ClockTrails, Mono
    <2>5. pc = "read_tick" => uptime_ms' <= unread_ms + 1 + MaxLoopMs
        BY <1>1, <1>4, <2>2 DEF ClockTrails, Mono
    <2>6. ClockTrails'
        BY <1>1, <1>2, <1>4, <2>3, <2>4, <2>5 DEF ClockTrails
    <2> QED
        BY <2>1, <2>6
<1> QED
    BY <1>3, <1>4

LEMMA StepKeepsUptime ==
    ASSUME UptimeInvariant, 2 * MaxLoopMs < TickMod, [Next]_vars
    PROVE  UptimeInvariant'
<1>1. TimeInvariant'
    BY StepKeepsTimeInvariant DEF UptimeInvariant
<1>2. CASE UpdateSafety
    <2>1. /\ BeforeUpdate /\ clock' = Advanced(now_ms) /\ pc' = "switch"
          /\ UNCHANGED << uptime_ms, unread_ms, now_ms >>
        BY <1>2 DEF UpdateSafety, Update, Goto, BeforeUpdate, time_vars, loop_vars
    <2> QED
        BY <1>1, <2>1, AdvanceToNow DEF UptimeInvariant
<1>3. CASE PollAndIngest
    <2>1. /\ pc = "poll" /\ pc' = "update" /\ UNCHANGED << uptime_ms, unread_ms, now_ms >>
          /\ clock' = Advanced(now_ms) \/ clock' = clock
        BY <1>3
        DEF PollAndIngest, Goto, Receive, Ingest, IngestHeartbeat, IngestEncoder,
            IngestIgnored, application_vars, loop_vars
    <2>2. CASE clock' = Advanced(now_ms)
        BY <1>1, <2>1, <2>2, AdvanceToNow DEF UptimeInvariant, BeforeUpdate
    <2>3. CASE clock' = clock
        BY <1>1, <2>1, <2>3
        DEF UptimeInvariant, ClockTrails, MonotonicClockIsUptime, Behind, BeforeUpdate, HalGetTick
    <2> QED
        BY <2>1, <2>2, <2>3
<1>4. CASE UpdateAfterFailure
    BY <1>1, <1>4, FailureKeepsUptime DEF UptimeInvariant
<1>5. CASE ReadNow
    BY <1>1, <1>5, ReadKeepsUptime DEF UptimeInvariant
<1>6. CASE Interrupt
    BY <1>1, <1>6, SysTickKeepsUptime DEF UptimeInvariant
<1>7. CASE BootSucceeds
    <2>1. /\ pc = "boot" /\ pc' = "read_tick" /\ unread_ms' = 0
          /\ UNCHANGED << clock, uptime_ms >>
        BY <1>7 DEF BootSucceeds, Goto, ReadTick, application_vars
    <2>2. ~clock.initialized /\ uptime_ms <= MaxLoopMs
        BY <2>1, TimeTypes, ClockTypes DEF UptimeInvariant, TimeInvariant, ClockTrails, Mono
    <2> QED
        BY <1>1, <2>1, <2>2, TimeTypes
        DEF UptimeInvariant, TimeInvariant, ClockTrails, MonotonicClockIsUptime, BeforeUpdate
<1>8. CASE \/ BootFails \/ DisarmAfterFailure \/ PollInVain \/ SwitchHeld \/ SwitchReleased
           \/ ArmIfRequested \/ TryCommand \/ Bus \/ UNCHANGED vars
    <2>1. UNCHANGED << clock, uptime_ms, unread_ms, now_ms >>
        BY <1>8 DEF BootFails, DisarmAfterFailure, PollInVain, SwitchHeld, SwitchReleased,
                    ArmIfRequested, TryCommand, NoCommand, SendCommand, CommandFails, Arm,
                    Disarm, Bus, Peripheral, vars, application_vars, time_vars, loop_vars
    <2>2. \/ pc' = pc
          \/ pc = "poll" /\ pc' = "update"
          \/ /\ pc \in {"boot", "failed_disarm"}
             /\ pc' \in {"failed_disarm", "failed_update"}
          \/ /\ pc \in {"switch", "arm", "command"}
             /\ pc' \in {"arm", "command", "read_tick"}
        BY <1>8 DEF BootFails, DisarmAfterFailure, PollInVain, SwitchHeld, SwitchReleased,
                    ArmIfRequested, TryCommand, Goto, Bus, vars
    <2>3. HalGetTick' = HalGetTick /\ BeforeUpdate' = BeforeUpdate /\ Behind' = Behind
        BY <2>1, <2>2 DEF HalGetTick, BeforeUpdate, Behind
    <2>4. MonotonicClockIsUptime'
        BY <2>1, <2>3 DEF UptimeInvariant, MonotonicClockIsUptime
    <2>5. ClockTrails'
        BY <2>1, <2>2, <2>3 DEF UptimeInvariant, ClockTrails
    <2> QED
        BY <1>1, <2>4, <2>5 DEF UptimeInvariant
<1> QED
    BY <1>2, <1>3, <1>4, <1>5, <1>6, <1>7, <1>8 DEF Next, Main

(* When two reads of the tick fit into a turn of it, the 64-bit clock counts every *)
(* millisecond of the uptime once, although ingest and update are given a tick as  *)
(* old as the iteration.                                                           *)
THEOREM TxMonotonicClockIsAlwaysUptime ==
    ASSUME 2 * MaxLoopMs < TickMod
    PROVE  Spec => []MonotonicClockIsUptime
<1>1. Init => UptimeInvariant
    <2> SUFFICES ASSUME Init PROVE UptimeInvariant
        OBVIOUS
    <2>1. clock.initialized = FALSE /\ uptime_ms = 0 /\ unread_ms = 0 /\ pc = "boot"
        BY DEF Init, ApplicationInit, TimeInit
    <2> QED
        BY <2>1, InitEstablishesTimeInvariant
        DEF UptimeInvariant, ClockTrails, MonotonicClockIsUptime, BeforeUpdate
<1>2. UptimeInvariant /\ [Next]_vars => UptimeInvariant'
    BY StepKeepsUptime
<1>3. UptimeInvariant => MonotonicClockIsUptime
    BY DEF UptimeInvariant
<1> QED
    BY <1>1, <1>2, <1>3, PTL DEF Spec
------------------------------------------------------------------------------
(* The pace of the commands. *)

(* While the period has not passed in true time, neither the tick nor now_ms is  *)
(* further from last_command_ms than that time and the one iteration by which    *)
(* last_command_ms was old already.                                              *)
PaceIsTrue ==
    /\ since_command_ms \in 0 .. CommandPeriod
    /\ last_command_ms \in Tick
    /\ pc = "boot" => ~(since_command_ms < CommandPeriod)
    /\ since_command_ms < CommandPeriod =>
          /\ TickAge(HalGetTick, last_command_ms) <= since_command_ms + MaxLoopMs
          /\ TickAge(now_ms, last_command_ms) <= since_command_ms + MaxLoopMs

LEMMA InitEstablishesPace == Init => PaceIsTrue
<1> SUFFICES ASSUME Init PROVE PaceIsTrue
    OBVIOUS
<1>1. CommandPeriod \in 0 .. CommandPeriod /\ ~(CommandPeriod < CommandPeriod) /\ 0 \in Tick
    BY TxAssumption, TickModAssumption DEF Tick
<1> QED
    BY <1>1 DEF Init, PaceIsTrue

LEMMA TickAgeGrowsSlowly ==
    ASSUME NEW now \in Tick, NEW then \in Tick
    PROVE  TickAge(NextTick(now), then) <= TickAge(now, then) + 1
BY TickModAssumption DEF Tick, NextTick, TickAge

LEMMA SumBounds ==
    ASSUME NEW part \in Nat, NEW rest \in Nat, NEW bound \in Nat, part <= bound
    PROVE  part <= rest + bound /\ 0 <= rest + bound
OBVIOUS

LEMMA StepKeepsPace ==
    ASSUME TimeInvariant, PaceIsTrue, [Next]_vars
    PROVE  PaceIsTrue'
<1>1. /\ CommandPeriod \in Nat /\ MaxLoopMs \in Nat /\ since_command_ms \in 0 .. CommandPeriod
      /\ HalGetTick \in Tick /\ now_ms \in Tick /\ last_command_ms \in Tick
      /\ unread_ms \in 0 .. MaxLoopMs
    BY TimeTypes, TxAssumption DEF TimeInvariant, PaceIsTrue, Tick
<1>2. CASE Interrupt
    <2>1. /\ HalGetTick' = NextTick(HalGetTick) /\ UNCHANGED <<pc, now_ms, last_command_ms>>
          /\ since_command_ms' = IF since_command_ms < CommandPeriod
                                 THEN since_command_ms + 1 ELSE CommandPeriod
        BY <1>2, HalGetTickNext
        DEF Interrupt, SysTick, TimeInvariant, LoopInvariant, LoopTypeOK, loop_vars
    <2>2. since_command_ms' \in 0 .. CommandPeriod
        BY <1>1, <2>1
    <2>3. ASSUME since_command_ms' < CommandPeriod
          PROVE  /\ since_command_ms < CommandPeriod
                 /\ TickAge(HalGetTick', last_command_ms) <= since_command_ms' + MaxLoopMs
                 /\ TickAge(now_ms, last_command_ms) <= since_command_ms' + MaxLoopMs
        <3>1. since_command_ms < CommandPeriod /\ since_command_ms' = since_command_ms + 1
            BY <1>1, <2>1, <2>3
        <3>2. /\ TickAge(HalGetTick, last_command_ms) \in Int
              /\ TickAge(HalGetTick', last_command_ms) \in Int
              /\ TickAge(now_ms, last_command_ms) \in Int
            BY <1>1, <2>1, TickAgeType, NextTickType DEF Tick
        <3>3. TickAge(HalGetTick', last_command_ms) <= TickAge(HalGetTick, last_command_ms) + 1
            BY <1>1, <2>1, TickAgeGrowsSlowly
        <3>4. /\ TickAge(HalGetTick, last_command_ms) <= since_command_ms + MaxLoopMs
              /\ TickAge(now_ms, last_command_ms) <= since_command_ms + MaxLoopMs
            BY <3>1 DEF PaceIsTrue
        <3> QED
            BY <1>1, <3>1, <3>2, <3>3, <3>4
    <2> QED
        BY <1>1, <2>1, <2>2, <2>3 DEF PaceIsTrue
<1>3. CASE ReadNow
    <2>1. /\ now_ms' = HalGetTick /\ HalGetTick' = HalGetTick /\ pc' = "poll"
          /\ UNCHANGED <<last_command_ms, since_command_ms>>
        BY <1>3 DEF ReadNow, ReadTick, HalGetTick, Goto
    <2> QED
        BY <2>1 DEF PaceIsTrue
<1>4. CASE BootSucceeds
    <2>1. /\ last_command_ms' = HalGetTick /\ pc' = "read_tick"
          /\ since_command_ms' = since_command_ms /\ pc = "boot"
        BY <1>4 DEF BootSucceeds, Goto
    <2>2. ~(since_command_ms < CommandPeriod)
        BY <2>1 DEF PaceIsTrue
    <2> QED
        BY <1>1, <2>1, <2>2 DEF PaceIsTrue
<1>5. CASE TryCommand
    <2>1. /\ HalGetTick' = HalGetTick /\ now_ms' = now_ms /\ pc = "command"
          /\ pc' = "read_tick"
          /\ \/ UNCHANGED <<last_command_ms, since_command_ms>>
             \/ last_command_ms' = now_ms /\ since_command_ms' \in {0, since_command_ms}
        BY <1>5 DEF TryCommand, Goto, NoCommand, SendCommand, CommandFails, HalGetTick,
                    time_vars
    <2>2. CASE UNCHANGED <<last_command_ms, since_command_ms>>
        BY <2>1, <2>2 DEF PaceIsTrue
    <2>3. CASE last_command_ms' = now_ms /\ since_command_ms' \in {0, since_command_ms}
        <3>1. TickAge(HalGetTick, now_ms) = unread_ms /\ TickAge(now_ms, now_ms) = 0
            BY <1>1, <2>1, TickAgeSelf DEF TimeInvariant, NowAgeIsTrue
        <3>2. since_command_ms' \in 0 .. CommandPeriod
            BY <1>1, <2>3
        <3>3. /\ unread_ms <= since_command_ms' + MaxLoopMs
              /\ 0 <= since_command_ms' + MaxLoopMs
            <4>1. /\ since_command_ms' \in Nat /\ unread_ms \in Nat /\ MaxLoopMs \in Nat
                  /\ unread_ms <= MaxLoopMs
                BY <1>1, <3>2
            <4> QED
                BY <4>1, SumBounds
        <3>4. /\ TickAge(HalGetTick', last_command_ms') = unread_ms
              /\ TickAge(now_ms', last_command_ms') = 0
            BY <2>1, <2>3, <3>1
        <3>5. pc' # "boot" /\ last_command_ms' \in Tick
            BY <1>1, <2>1, <2>3
        <3> QED
            BY <3>2, <3>3, <3>4, <3>5 DEF PaceIsTrue
    <2> QED
        BY <2>1, <2>2, <2>3
<1>6. CASE ~Interrupt /\ ~ReadNow /\ ~BootSucceeds /\ ~TryCommand
    <2>1. UNCHANGED <<uptime_ms, now_ms, last_command_ms, since_command_ms>>
        BY <1>6 DEF Next, Main, BootFails, DisarmAfterFailure, UpdateAfterFailure,
                    PollAndIngest, Receive, PollInVain, UpdateSafety, SwitchHeld,
                    SwitchReleased, ArmIfRequested, Bus, Peripheral, ReadTick, time_vars,
                    loop_vars, vars
    <2>2. pc' = "boot" => pc = "boot"
        BY <1>6 DEF Next, Main, Goto, BootFails, DisarmAfterFailure, UpdateAfterFailure,
                    PollAndIngest, PollInVain, UpdateSafety, SwitchHeld, SwitchReleased,
                    ArmIfRequested, Bus, vars
    <2>3. HalGetTick' = HalGetTick
        BY <2>1 DEF HalGetTick
    <2> QED
        BY <2>1, <2>2, <2>3 DEF PaceIsTrue
<1> QED
    BY <1>2, <1>3, <1>4, <1>5, <1>6

LEMMA PaceHolds == Spec => []PaceIsTrue
<1>1. TimeInvariant /\ PaceIsTrue /\ [Next]_vars => PaceIsTrue'
    BY StepKeepsPace
<1> QED
    BY <1>1, InitEstablishesPace, TimeInvariantHolds, PTL DEF Spec

(* Two frames are the command period apart in true time, but for the time one  *)
(* iteration takes between the read of the tick and the call of transmit.      *)
THEOREM CommandsAreAlwaysPaced == Spec => CommandsArePaced
<1>1. TimeInvariant /\ PaceIsTrue /\ tx_pending \in Nat /\ [Next]_vars
        => [CommandHandedOver => since_command_ms >= CommandPeriod - MaxLoopMs]_vars
    <2> SUFFICES ASSUME TimeInvariant, PaceIsTrue, tx_pending \in Nat, Next,
                        CommandHandedOver
                 PROVE  since_command_ms >= CommandPeriod - MaxLoopMs
        OBVIOUS
    <2> USE TimeTypes DEF TimeInvariant
    <2>1. CommandPeriod \in Nat /\ since_command_ms \in 0 .. CommandPeriod
        BY TxAssumption DEF PaceIsTrue, Tick
    <2>2. TickAge(now_ms, last_command_ms) >= CommandPeriod
        BY HandOverIsPermitted DEF CommandIsDue
    <2>3. CASE since_command_ms < CommandPeriod
        <3>1. TickAge(now_ms, last_command_ms) \in Int
            BY TickAgeType DEF PaceIsTrue, Tick
        <3> QED
            BY <2>1, <2>2, <2>3, <3>1 DEF PaceIsTrue
    <2>4. CASE ~(since_command_ms < CommandPeriod)
        BY <2>1, <2>4
    <2> QED
        BY <2>3, <2>4
<1> QED
    BY <1>1, TimeInvariantHolds, PaceHolds, PendingHolds, PTL DEF Spec, CommandsArePaced

------------------------------------------------------------------------------
(* What silence and a fault end, and when. *)

(* A latch is published whenever main is not between a frame and its judgement: *)
(* there a healthy heartbeat may have written "disarmed" over it.               *)
LatchIsPublished == pc # "update" => (fault_latched <=> state = "fault_latched")

(* A heartbeat that has been missing for the timeout and two iterations is reported, *)
(* short of a full turn of the tick.                                                 *)
SilenceIsReportedInTime ==
    has_heartbeat /\ HeartbeatTimeout + 2 * MaxLoopMs <= silent_ms /\ silent_ms < TickMod =>
        state \in {"heartbeat_stale", "fault_latched"}

(* SilenceRevokes with its deadline: a permission outlives the timeout by less than *)
(* two iterations, or by a full turn of the tick.                                   *)
SilenceRevokesInTime ==
    PermitsCommand => silent_ms < HeartbeatTimeout + 2 * MaxLoopMs \/ silent_ms = TickMod

(* Only a heartbeat of this very iteration hides the latch. *)
HidingIsYoung ==
    pc = "update" /\ fault_latched /\ state # "fault_latched" => silent_ms <= unread_ms

ReportInvariant == TimeInvariant /\ LatchIsPublished /\ HidingIsYoung

LEMMA PollKeepsReports ==
    ASSUME ReportInvariant, PollAndIngest
    PROVE  (LatchIsPublished /\ HidingIsYoung)'
<1>1. /\ pc = "poll" /\ pc' = "update" /\ unread_ms' = unread_ms
      /\ \E frame \in BusFrames : Receive(frame, now_ms, unread_ms)
    BY DEF PollAndIngest, Goto
<1>2. PICK frame \in BusFrames : Receive(frame, now_ms, unread_ms)
    BY <1>1
<1>3. CASE HasValue(DecodeHeartbeat(frame, NodeId))
    <2>1. silent_ms' = unread_ms /\ unread_ms \in Nat
        BY <1>2, <1>3, TimeTypes DEF Receive, ReportInvariant, TimeInvariant
    <2> QED
        BY <1>1, <2>1 DEF LatchIsPublished, HidingIsYoung
<1>4. CASE ~HasValue(DecodeHeartbeat(frame, NodeId))
    <2>1. UNCHANGED << fault_latched, state >>
        BY <1>2, <1>4, IngestCalls DEF Receive, safety_vars
    <2> QED
        BY <1>1, <2>1 DEF ReportInvariant, LatchIsPublished, HidingIsYoung
<1> QED
    BY <1>3, <1>4

(* update and disarm publish the latch they find; arm() changes neither. *)
LEMMA CallsPublishTheLatch ==
    ASSUME SupervisorUpdate(now_ms) \/ SupervisorUpdate(HalGetTick) \/ SupervisorDisarm
    PROVE  fault_latched' <=> state' = "fault_latched"
BY DEF SupervisorUpdate, LatchHolds, NoHeartbeatYet, HeartbeatTimedOut, HeartbeatStillFresh,
       SupervisorDisarm

LEMMA StepKeepsReports ==
    ASSUME ReportInvariant, [Next]_vars
    PROVE  ReportInvariant'
<1>1. TimeInvariant'
    BY StepKeepsTimeInvariant DEF ReportInvariant
<1>2. CASE PollAndIngest
    BY <1>1, <1>2, PollKeepsReports DEF ReportInvariant
<1>3. CASE UpdateSafety \/ UpdateAfterFailure \/ DisarmAfterFailure \/ SwitchReleased
    <2>1. pc' # "update"
        BY <1>3 DEF UpdateSafety, UpdateAfterFailure, DisarmAfterFailure, SwitchReleased, Goto
    <2>2. fault_latched' <=> state' = "fault_latched"
        BY <1>3, CallsPublishTheLatch
        DEF UpdateSafety, UpdateAfterFailure, DisarmAfterFailure, SwitchReleased, Update, Disarm
    <2> QED
        BY <1>1, <2>1, <2>2 DEF ReportInvariant, LatchIsPublished, HidingIsYoung
<1>4. CASE TryCommand \/ ArmIfRequested
    <2>1. /\ pc \in {"arm", "command"} /\ pc' \in {"command", "read_tick"}
          /\ \/ UNCHANGED << fault_latched, state >>
             \/ SupervisorDisarm
             \/ ~fault_latched /\ ~fault_latched' /\ state' = "armed"
        BY <1>4 DEF TryCommand, NoCommand, SendCommand, CommandFails, Disarm, ArmIfRequested,
                    Arm, SupervisorArm, CanArm, Goto, application_vars, safety_vars
    <2> QED
        BY <1>1, <2>1, CallsPublishTheLatch DEF ReportInvariant, LatchIsPublished, HidingIsYoung
<1>5. CASE Interrupt
    <2>1. /\ UNCHANGED << pc, fault_latched, state >> /\ unread_ms' = unread_ms + 1
          /\ silent_ms' = (IF silent_ms < TickMod THEN silent_ms + 1 ELSE TickMod)
        BY <1>5 DEF Interrupt, SysTick, application_vars, safety_vars
    <2>2. silent_ms <= unread_ms => silent_ms' <= unread_ms'
        BY <2>1, TimeTypes DEF ReportInvariant, TimeInvariant
    <2> QED
        BY <1>1, <2>1, <2>2 DEF ReportInvariant, LatchIsPublished, HidingIsYoung
<1>6. CASE \/ PollInVain \/ BootSucceeds \/ BootFails \/ ReadNow \/ SwitchHeld \/ Bus
           \/ UNCHANGED vars
    <2>1. /\ UNCHANGED << fault_latched, state >>
          /\ \/ pc' # "update"
             \/ pc = "poll" /\ UNCHANGED << silent_ms, unread_ms >>
             \/ pc = "update" /\ UNCHANGED << silent_ms, unread_ms >>
          /\ pc = "update" => pc' = "update"
        BY <1>6 DEF PollInVain, BootSucceeds, BootFails, ReadNow, SwitchHeld, Goto, Bus,
                    Peripheral, vars, time_vars, application_vars, safety_vars
    <2> QED
        BY <1>1, <2>1 DEF ReportInvariant, LatchIsPublished, HidingIsYoung
<1> QED
    BY <1>2, <1>3, <1>4, <1>5, <1>6 DEF Next, Main

LEMMA ReportInvariantHolds == Spec => []ReportInvariant
<1>1. Init => ReportInvariant
    BY InitEstablishesTimeInvariant
    DEF Init, ApplicationInit, SafetyInit, ReportInvariant, LatchIsPublished, HidingIsYoung
<1> QED
    BY <1>1, StepKeepsReports, PTL DEF Spec

(* A latched fault is told from state() at every step but one. *)
THEOREM TxLatchIsAlwaysPublished == Spec => []LatchIsPublished
<1>1. ReportInvariant => LatchIsPublished
    BY DEF ReportInvariant
<1> QED
    BY <1>1, ReportInvariantHolds, PTL

(* From time alone, in time: however the bus falls silent, a reader of state() is told *)
(* no later than two iterations after the timeout.                                     *)
THEOREM TxSilenceIsAlwaysReportedInTime == Spec => []SilenceIsReportedInTime
<1>1. ReportInvariant => SilenceIsReportedInTime
    <2> SUFFICES ASSUME ReportInvariant, has_heartbeat, silent_ms < TickMod,
                        HeartbeatTimeout + 2 * MaxLoopMs <= silent_ms
                 PROVE  state \in {"heartbeat_stale", "fault_latched"}
        BY DEF SilenceIsReportedInTime
    <2> USE TimeTypes DEF ReportInvariant, TimeInvariant
    <2>1. CASE fault_latched
        <3>1. ~(silent_ms <= unread_ms)
            OBVIOUS
        <3> QED
            BY <2>1, <3>1 DEF LatchIsPublished, HidingIsYoung
    <2>2. CASE ~fault_latched
        <3>1. ~heartbeat_fresh
            BY <2>2 DEF FreshIsYoung
        <3> QED
            BY <3>1 DEF LoopInvariant, ApplicationInv, SafetyInv, StateMatchesFlags
    <2> QED
        BY <2>1, <2>2
<1> QED
    BY <1>1, ReportInvariantHolds, PTL

(* A permission ends in time when the heartbeats end, although update looks once in *)
(* an iteration and judges by a tick read before the frame was polled.              *)
THEOREM SilenceAlwaysRevokesInTime == Spec => []SilenceRevokesInTime
<1>1. TimeInvariant => SilenceRevokesInTime
    <2> SUFFICES ASSUME TimeInvariant, heartbeat_fresh, ~fault_latched, silent_ms # TickMod
                 PROVE  silent_ms < HeartbeatTimeout + 2 * MaxLoopMs
        BY DEF SilenceRevokesInTime, PermitsCommand
    <2>1. silent_ms < TickMod
        BY TimeTypes DEF TimeInvariant
    <2> QED
        BY <2>1, TimeTypes DEF TimeInvariant, FreshIsYoung
<1> QED
    BY <1>1, TimeInvariantHolds, PTL

(* A command leaves on a permission, and through an adapter that runs. *)
LEMMA HandOverNeedsAdapter ==
    ASSUME tx_pending \in Nat, [Next]_vars, CommandHandedOver
    PROVE  PermitsCommand /\ started
<1>1. pc = "command" /\ CommandIsDue
    BY HandOverIsPermitted
<1>2. TryCommand
    BY <1>1
    DEF Next, Main, BootSucceeds, BootFails, DisarmAfterFailure, UpdateAfterFailure, ReadNow,
        PollAndIngest, PollInVain, UpdateSafety, SwitchHeld, SwitchReleased, ArmIfRequested,
        Goto, Interrupt, SysTick, Bus, Peripheral, FrameArrives, MailboxDone, CommandHandedOver,
        vars, adapter_vars
<1>3. started
    BY <1>2 DEF TryCommand, NoCommand, SendCommand, CommandFails, TransmitAccepts,
                TransmitRefuses, TransmitFails, CommandHandedOver, adapter_vars
<1> QED
    BY <1>1, <1>3 DEF CommandIsDue

(* No call of main starts the adapter again. *)
AdapterIsLost == ~started /\ pc # "boot"

LEMMA LossIsKept ==
    ASSUME AdapterIsLost, [Next]_vars
    PROVE  AdapterIsLost'
<1>1. ~started'
    BY DEF AdapterIsLost, Next, Main, BootSucceeds, BootFails, DisarmAfterFailure,
           UpdateAfterFailure, ReadNow, PollAndIngest, PollDelivers, PollInVain,
           PollFindsNothing, PollRejects, PollFails, UpdateSafety, SwitchHeld, SwitchReleased,
           ArmIfRequested, TryCommand, NoCommand, SendCommand, CommandFails, TransmitAccepts,
           TransmitRefuses, TransmitFails, Goto, Interrupt, SysTick, Bus, Peripheral,
           FrameArrives, MailboxDone, vars, adapter_vars
<1>2. pc' # "boot"
    BY DEF AdapterIsLost, Next, Main, BootSucceeds, BootFails, DisarmAfterFailure,
           UpdateAfterFailure, ReadNow, PollAndIngest, PollInVain, UpdateSafety, SwitchHeld,
           SwitchReleased, ArmIfRequested, TryCommand, Goto, Interrupt, Bus, vars
<1> QED
    BY <1>1, <1>2 DEF AdapterIsLost

(* A fault report and a lost adapter are final: from the step on that latches the one *)
(* or finds the other, no command is handed over again, whatever arrives and whatever *)
(* the switch does.                                                                   *)
THEOREM FaultOrLossEndsCommands ==
    Spec => [](fault_latched \/ AdapterIsLost => [][~CommandHandedOver]_vars)
<1> DEFINE Over == fault_latched \/ AdapterIsLost
<1>1. LoopInvariant /\ Over /\ [Next]_vars => Over'
    BY LossIsKept, StepCallsApplication, CallsReachSupervisor, StepKeepsLatch DEF LoopInvariant
<1>2. tx_pending \in Nat /\ Over /\ [Next]_vars => [~CommandHandedOver]_vars
    BY HandOverNeedsAdapter DEF PermitsCommand, AdapterIsLost
<1> HIDE DEF Over
<1>3. Spec => [](Over => [][~CommandHandedOver]_vars)
    BY <1>1, <1>2, LoopInvariantHolds, PendingHolds, PTL DEF Spec
<1> QED
    BY <1>3 DEF Over

(* What a command rests on: the last report of this node, as the cache holds it, is *)
(* one, and tells of no fault.                                                      *)
CommandsRestOnHealthyReport ==
    [][CommandHandedOver =>
         HasValue(telemetry.heartbeat) /\ ~ReportsFault(telemetry.heartbeat[1])]_vars

(* The supervisor's flags and the cached report are two records; between them no step *)
(* lets a command out on a report that is missing or bad.                             *)
THEOREM CommandsAlwaysRestOnHealthyReport == Spec => CommandsRestOnHealthyReport
<1>1. LoopInvariant /\ tx_pending \in Nat /\ [Next]_vars
        => [CommandHandedOver =>
              HasValue(telemetry.heartbeat) /\ ~ReportsFault(telemetry.heartbeat[1])]_vars
    <2> SUFFICES ASSUME LoopInvariant, tx_pending \in Nat, Next, CommandHandedOver
                 PROVE  HasValue(telemetry.heartbeat) /\ ~ReportsFault(telemetry.heartbeat[1])
        OBVIOUS
    <2>1. armed /\ ~fault_latched
        BY HandOverNeedsAdapter DEF PermitsCommand
    <2>2. ArmedIsHealthy /\ HeartbeatRecordsAgree
        BY DEF LoopInvariant, ApplicationInv, SafetyInv, RecordsInvariant
    <2> QED
        BY <2>1, <2>2 DEF ArmedIsHealthy, HeartbeatRecordsAgree
<1> QED
    BY <1>1, LoopInvariantHolds, PendingHolds, PTL DEF Spec, CommandsRestOnHealthyReport
------------------------------------------------------------------------------
(* Types. *)

LoopIsTyped ==
    /\ pc \in {"boot", "failed_disarm", "failed_update", "read_tick", "poll", "update",
               "switch", "arm", "command"}
    /\ last_command_ms \in Tick /\ since_command_ms \in 0 .. CommandPeriod

LEMMA AdapterStartsTyped == AdapterInit => AdapterTypeOK
<1> SUFFICES ASSUME AdapterInit PROVE AdapterTypeOK
    OBVIOUS
<1>1. started = FALSE /\ can_running = FALSE /\ rx_fifo = << >> /\ tx_pending = 0
    BY DEF AdapterInit
<1>2. Len(rx_fifo) = 0 /\ rx_fifo \in Seq(BusFrames)
    BY <1>1
<1>3. started \in BOOLEAN /\ can_running \in BOOLEAN
    BY <1>1
<1>4. tx_pending \in 0 .. TxMailboxes /\ Len(rx_fifo) <= FifoDepth
    BY <1>1, <1>2, AdapterAssumption
<1> QED
    BY <1>2, <1>3, <1>4 DEF AdapterTypeOK

LEMMA AdapterStaysTyped ==
    ASSUME AdapterTypeOK, [Next]_vars
    PROVE  AdapterTypeOK'
<1>1. CASE UNCHANGED adapter_vars
    BY <1>1 DEF adapter_vars, AdapterTypeOK
<1>2. CASE InitializeSucceeds \/ InitializeFails \/ PollFails
    BY <1>2 DEF InitializeSucceeds, InitializeFails, PollFails, AdapterTypeOK
<1>3. CASE PollRejects \/ \E frame \in BusFrames : PollDelivers(frame)
    <2>1. /\ rx_fifo # << >> /\ rx_fifo' = Tail(rx_fifo)
          /\ UNCHANGED << started, can_running, tx_pending >>
        BY <1>3 DEF PollRejects, PollDelivers
    <2>2. Tail(rx_fifo) \in Seq(BusFrames) /\ Len(Tail(rx_fifo)) <= FifoDepth
        BY <2>1, AdapterAssumption DEF AdapterTypeOK
    <2> QED
        BY <2>1, <2>2 DEF AdapterTypeOK
<1>4. CASE \E frame \in BusFrames : FrameArrives(frame)
    <2>1. PICK frame \in BusFrames : FrameArrives(frame)
        BY <1>4
    <2>2. UNCHANGED << started, can_running, tx_pending >>
        BY <2>1 DEF FrameArrives
    <2>3. rx_fifo \in Seq(BusFrames) /\ Len(rx_fifo) <= FifoDepth /\ FifoDepth \in Nat \ {0}
        BY AdapterAssumption DEF AdapterTypeOK
    <2>4. CASE Len(rx_fifo) < FifoDepth
        BY <2>1, <2>2, <2>3, <2>4 DEF FrameArrives, AdapterTypeOK
    <2>5. CASE ~(Len(rx_fifo) < FifoDepth)
        <3>1. rx_fifo' = [rx_fifo EXCEPT ![FifoDepth] = frame] /\ Len(rx_fifo) = FifoDepth
            BY <2>1, <2>3, <2>5 DEF FrameArrives
        <3>2. rx_fifo' \in Seq(BusFrames) /\ Len(rx_fifo') = FifoDepth
            BY <2>3, <3>1, ExceptSeq
        <3> QED
            BY <2>2, <2>3, <3>2 DEF AdapterTypeOK
    <2> QED
        BY <2>4, <2>5
<1>5. CASE MailboxDone
    BY <1>5, AdapterAssumption DEF MailboxDone, AdapterTypeOK
<1>6. CASE TryCommand
    <2>1. CASE \E permits, enabled \in BOOLEAN : TransmitAccepts(permits, enabled)
        <3>1. /\ tx_pending < TxMailboxes /\ tx_pending' = tx_pending + 1
              /\ UNCHANGED << started, can_running, rx_fifo >>
            BY <2>1 DEF TransmitAccepts
        <3> QED
            BY <3>1, AdapterAssumption DEF AdapterTypeOK
    <2>2. CASE started' = FALSE /\ UNCHANGED << can_running, rx_fifo, tx_pending >>
        BY <2>2 DEF AdapterTypeOK
    <2> QED
        BY <1>1, <1>6, <2>1, <2>2, TxAssumption
        DEF TryCommand, NoCommand, SendCommand, CommandFails, TransmitRefuses, TransmitFails,
            TransmitAccepts, PermitsCommand
<1> QED
    BY <1>1, <1>2, <1>3, <1>4, <1>5, <1>6
    DEF Next, Main, BootSucceeds, BootFails, DisarmAfterFailure, UpdateAfterFailure, ReadNow,
        PollAndIngest, PollInVain, PollFindsNothing, UpdateSafety, SwitchHeld, SwitchReleased,
        ArmIfRequested, Interrupt, SysTick, Bus, Peripheral, vars

LEMMA LoopStaysTyped ==
    ASSUME LoopTypeOK, LoopIsTyped, [Next]_vars
    PROVE  LoopIsTyped'
<1>1. HalGetTick \in Tick /\ now_ms \in Tick /\ CommandPeriod \in Nat
    BY HalGetTickType, TxAssumption, TickModAssumption DEF LoopTypeOK, Tick
<1>2. CASE Interrupt
    BY <1>1, <1>2 DEF Interrupt, loop_vars, LoopIsTyped
<1>3. CASE Bus \/ UNCHANGED vars
    BY <1>3 DEF Bus, loop_vars, vars, LoopIsTyped
<1>4. CASE TryCommand
    BY <1>1, <1>4 DEF TryCommand, Goto, NoCommand, SendCommand, CommandFails, LoopIsTyped
<1>5. CASE BootSucceeds
    BY <1>1, <1>5 DEF BootSucceeds, Goto, LoopIsTyped
<1>6. CASE BootFails \/ DisarmAfterFailure \/ UpdateAfterFailure \/ ReadNow \/ PollAndIngest
    BY <1>6 DEF BootFails, DisarmAfterFailure, UpdateAfterFailure, ReadNow, PollAndIngest, Goto,
                loop_vars, LoopIsTyped
<1>7. CASE PollInVain \/ UpdateSafety \/ SwitchHeld \/ SwitchReleased \/ ArmIfRequested
    BY <1>7 DEF PollInVain, UpdateSafety, SwitchHeld, SwitchReleased, ArmIfRequested, Goto,
                loop_vars, LoopIsTyped
<1> QED
    BY <1>2, <1>3, <1>4, <1>5, <1>6, <1>7 DEF Next, Main

(* Types of the whole firmware, when what the bus carries are CAN frames: the mailboxes *)
(* and the FIFO are never overfilled, and every clock stays within its width.           *)
THEOREM TxTypeCorrect ==
    ASSUME BusFrames \subseteq CanFrame
    PROVE  Spec => []TypeOK
<1>1. Spec => []ApplicationTypeOK
    BY TxImplementsApplication, ApplicationTypeCorrect
<1>2. Init => AdapterTypeOK /\ LoopIsTyped
    <2>1. Init => AdapterTypeOK
        BY AdapterStartsTyped DEF Init
    <2>2. Init => LoopIsTyped
        BY TickModAssumption, TxAssumption DEF Init, LoopIsTyped, Tick
    <2> QED
        BY <2>1, <2>2
<1>3. LoopInvariant /\ AdapterTypeOK /\ LoopIsTyped /\ [Next]_vars
        => AdapterTypeOK' /\ LoopIsTyped'
    BY AdapterStaysTyped, LoopStaysTyped DEF LoopInvariant
<1>4. LoopInvariant /\ ApplicationTypeOK /\ AdapterTypeOK /\ LoopIsTyped => TypeOK
    BY DEF LoopInvariant, LoopTypeOK, LoopIsTyped, TimeTypeOK, TypeOK
<1> QED
    BY <1>1, <1>2, <1>3, <1>4, LoopInvariantHolds, PTL DEF Spec
------------------------------------------------------------------------------
(* A fault report at the head of the FIFO. *)

(* FaultAtHead holds until the step that latches the fault: the safety
   half of FaultIsLatched. *)
HeadFaultIsKept ==
    [][FaultAtHead => FaultAtHead' \/ (fault_latched' /\ state' = "fault_latched")]_vars

\* An arrival never touches the head of a FIFO that holds more than one message.
LEMMA ArrivalKeepsHead ==
    ASSUME FifoDepth > 1, AdapterTypeOK, rx_fifo # << >>,
           NEW frame \in BusFrames, FrameArrives(frame)
    PROVE  rx_fifo' # << >> /\ Head(rx_fifo') = Head(rx_fifo)
<1>1. /\ rx_fifo \in Seq(BusFrames) /\ Len(rx_fifo) <= FifoDepth /\ FifoDepth \in Nat
      /\ Len(rx_fifo) \in Nat /\ Len(rx_fifo) > 0
    BY AdapterAssumption DEF AdapterTypeOK
<1>2. CASE Len(rx_fifo) < FifoDepth
    BY <1>1, <1>2 DEF FrameArrives
<1>3. CASE ~(Len(rx_fifo) < FifoDepth)
    <2>1. rx_fifo' = [rx_fifo EXCEPT ![FifoDepth] = frame] /\ Len(rx_fifo) = FifoDepth
        BY <1>1, <1>3 DEF FrameArrives
    <2>2. rx_fifo' \in Seq(BusFrames) /\ Len(rx_fifo') = FifoDepth /\ rx_fifo'[1] = rx_fifo[1]
        BY <1>1, <2>1, ExceptSeq
    <2> QED
        BY <1>1, <2>1, <2>2
<1> QED
    BY <1>2, <1>3

LEMMA StepKeepsHeadFault ==
    ASSUME FifoDepth > 1, BusFrames \subseteq CanFrame, AdapterTypeOK, FaultAtHead, [Next]_vars
    PROVE  FaultAtHead' \/ (fault_latched' /\ state' = "fault_latched")
<1> DEFINE frame == Head(rx_fifo)
<1>1. /\ rx_fifo # << >> /\ HasValue(DecodeHeartbeat(frame, NodeId))
      /\ ReportsFault(DecodeHeartbeat(frame, NodeId)[1])
    BY DEF FaultAtHead
<1>2. frame \in CanFrame
    BY <1>1 DEF AdapterTypeOK
<1>3. CASE PollAndIngest
    BY <1>1, <1>3, IngestLatchesFault DEF PollAndIngest, PollDelivers, Receive
<1>4. CASE PollRejects
    <2>1. frame.identifier <= 2047 /\ frame.dlc <= 8 /\ ~frame.extended /\ ~frame.remote
        BY <1>1, <1>2, HeartbeatPassesPoll
    <2> QED
        BY <1>4, <2>1 DEF PollRejects, HeaderIsAcceptable
<1>5. CASE \E arrival \in BusFrames : FrameArrives(arrival)
    <2>1. rx_fifo' # << >> /\ Head(rx_fifo') = frame
        BY <1>1, <1>5, ArrivalKeepsHead
    <2> QED
        BY <1>1, <2>1 DEF FaultAtHead
<1>6. CASE rx_fifo' = rx_fifo
    BY <1>1, <1>6 DEF FaultAtHead
<1> QED
    BY <1>3, <1>4, <1>5, <1>6
    DEF Next, Main, BootSucceeds, BootFails, DisarmAfterFailure, UpdateAfterFailure, ReadNow,
        PollInVain, UpdateSafety, SwitchHeld, SwitchReleased, ArmIfRequested, TryCommand,
        NoCommand, SendCommand, CommandFails, TransmitAccepts, TransmitRefuses, TransmitFails,
        Interrupt, SysTick, Bus, Peripheral, MailboxDone, InitializeSucceeds, InitializeFails,
        PollFindsNothing, PollFails, adapter_vars, vars

(* However many frames overrun the FIFO behind it, a fault report at its head stays    *)
(* there until main takes it, and the call that takes it latches it and disarms; not   *)
(* even an adapter failure removes it.                                                 *)
THEOREM FaultAtHeadIsNeverLost ==
    ASSUME FifoDepth > 1, BusFrames \subseteq CanFrame
    PROVE  Spec => HeadFaultIsKept
<1>1. Init => AdapterTypeOK
    BY AdapterStartsTyped DEF Init
<1>2. AdapterTypeOK /\ [Next]_vars => AdapterTypeOK'
    BY AdapterStaysTyped
<1>3. /\ AdapterTypeOK /\ [Next]_vars
      => [FaultAtHead => FaultAtHead' \/ (fault_latched' /\ state' = "fault_latched")]_vars
    BY StepKeepsHeadFault
<1> QED
    BY <1>1, <1>2, <1>3, PTL DEF Spec, HeadFaultIsKept
==============================================================================
