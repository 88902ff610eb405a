---------------------------- MODULE TxTutorialMain ----------------------------
(***************************************************************************)
(* src/tx_tutorial_main.cpp: the super loop that can send motor commands.  *)
(* One iteration reads the tick once, then polls, judges the heartbeat,    *)
(* reads the arm switch, arms, and sends if everything permits; each of    *)
(* these is a step of its own, because SysTick, the bus, the mailboxes and *)
(* the two inputs move in between.  The shipped source returns constants   *)
(* for the two inputs and says that real hardware is read there: the       *)
(* inputs are the sets ArmInputs and RuntimeInputs.                        *)
(***************************************************************************)
EXTENDS HalEnvironment, CommandGate

CONSTANTS
    CommandPeriod,    \* kCommandPeriodMs
    ArmInputs,        \* what read_operator_arm_input can return
    RuntimeInputs     \* what read_runtime_transmit_enable can return

ASSUME TxAssumption ==
    /\ CommandPeriod \in Tick
    /\ ArmInputs \subseteq BOOLEAN
    /\ RuntimeInputs \subseteq BOOLEAN

VARIABLES
    pc,                     \* the statement main is at
    now_ms,                 \* the tick read at the head of the iteration
    previous_arm_input,
    arm_request_pending,
    last_command_ms,
    since_command_ms        \* auxiliary: true ms since the last frame was
                            \* handed over; stops at CommandPeriod

loop_vars == <<now_ms, previous_arm_input, arm_request_pending, last_command_ms>>
vars == <<application_vars, adapter_vars, time_vars, pc, loop_vars, since_command_ms>>

Init ==
    /\ ApplicationInit
    /\ AdapterInit
    /\ TimeInit
    /\ pc = "boot"
    /\ now_ms = 0
    /\ previous_arm_input = FALSE
    /\ arm_request_pending = FALSE
    /\ last_command_ms = 0
    /\ since_command_ms = CommandPeriod

Goto(from, to) == pc = from /\ pc' = to

------------------------------------------------------------------------------
\* initialize succeeds, and last_command_ms starts at the tick of that moment.
BootSucceeds ==
    /\ Goto("boot", "read_tick")
    /\ InitializeSucceeds
    /\ last_command_ms' = HalGetTick
    /\ ReadTick
    /\ UNCHANGED <<application_vars, now_ms, previous_arm_input, arm_request_pending,
                   since_command_ms>>

BootFails ==
    /\ Goto("boot", "failed_disarm")
    /\ InitializeFails
    /\ UNCHANGED <<application_vars, time_vars, loop_vars, since_command_ms>>

\* The two statements of the loop main never leaves once initialize has failed.
DisarmAfterFailure ==
    /\ Goto("failed_disarm", "failed_update")
    /\ Disarm
    /\ UNCHANGED <<adapter_vars, time_vars, loop_vars, since_command_ms>>

UpdateAfterFailure ==
    /\ Goto("failed_update", "failed_disarm")
    /\ Update(HalGetTick)
    /\ ReadTick
    /\ UNCHANGED <<adapter_vars, loop_vars, since_command_ms>>

------------------------------------------------------------------------------
ReadNow ==
    /\ Goto("read_tick", "poll")
    /\ now_ms' = HalGetTick
    /\ ReadTick
    /\ UNCHANGED <<application_vars, adapter_vars, previous_arm_input,
                   arm_request_pending, last_command_ms, since_command_ms>>

PollAndIngest ==
    /\ Goto("poll", "update")
    /\ \E frame \in BusFrames :
          PollDelivers(frame) /\ Receive(frame, now_ms, unread_ms)
    /\ UNCHANGED <<unread_ms, loop_vars, since_command_ms>>

PollInVain ==
    /\ Goto("poll", "update")
    /\ PollFindsNothing \/ PollRejects \/ PollFails
    /\ UNCHANGED <<application_vars, time_vars, loop_vars, since_command_ms>>

UpdateSafety ==
    /\ Goto("update", "switch")
    /\ Update(now_ms)
    /\ UNCHANGED <<adapter_vars, time_vars, loop_vars, since_command_ms>>

\* Seeded defect: the switch is read as a level.
SwitchHeld_Level ==
    /\ Goto("switch", "arm")
    /\ TRUE \in ArmInputs
    /\ arm_request_pending' = TRUE
    /\ previous_arm_input' = TRUE
    /\ UNCHANGED <<application_vars, adapter_vars, time_vars, now_ms, last_command_ms,
                   since_command_ms>>

\* arm_input is true: a rising edge makes a request, a level does not.
SwitchHeld ==
    /\ Goto("switch", "arm")
    /\ TRUE \in ArmInputs
    /\ arm_request_pending' = (arm_request_pending \/ ~previous_arm_input)
    /\ previous_arm_input' = TRUE
    /\ UNCHANGED <<application_vars, adapter_vars, time_vars, now_ms, last_command_ms,
                   since_command_ms>>

\* arm_input is false: the request is dropped and the supervisor disarmed.
SwitchReleased ==
    /\ Goto("switch", "arm")
    /\ FALSE \in ArmInputs
    /\ arm_request_pending' = FALSE
    /\ previous_arm_input' = FALSE
    /\ Disarm
    /\ UNCHANGED <<adapter_vars, time_vars, now_ms, last_command_ms, since_command_ms>>

\* A pending request calls arm() in every iteration until it succeeds once.
ArmIfRequested ==
    /\ Goto("arm", "command")
    /\ \/ /\ arm_request_pending
          /\ Arm
          /\ arm_request_pending' = ~CanArm
       \/ /\ ~arm_request_pending
          /\ UNCHANGED <<application_vars, arm_request_pending>>
    /\ UNCHANGED <<adapter_vars, time_vars, now_ms, previous_arm_input, last_command_ms,
                   since_command_ms>>

------------------------------------------------------------------------------
\* Seeded defect: the period is not measured, every iteration may send.
CommandIsDue_Always == PermitsCommand

CommandIsDue ==
    /\ PermitsCommand
    /\ TickAge(now_ms, last_command_ms) >= CommandPeriod

\* Disabled at run time, not permitted, or too early: the iteration ends here.
NoCommand(runtime_enabled) ==
    /\ ~runtime_enabled \/ ~CommandIsDue
    /\ UNCHANGED <<application_vars, adapter_vars, last_command_ms, since_command_ms>>

Authorized(runtime_enabled) ==
    BuildMit(NodeId, TRUE, PermitsCommand, runtime_enabled)

\* The frame is built and a mailbox takes it.
SendCommand(runtime_enabled) ==
    /\ runtime_enabled /\ CommandIsDue
    /\ last_command_ms' = now_ms
    /\ Authorized(runtime_enabled)
    /\ TransmitAccepts(PermitsCommand, runtime_enabled)
    /\ since_command_ms' = 0
    /\ UNCHANGED application_vars

\* No frame was built, or it could not be sent: disarm.
CommandFails(runtime_enabled) ==
    /\ runtime_enabled /\ CommandIsDue
    /\ last_command_ms' = now_ms
    /\ IF Authorized(runtime_enabled)
       THEN \/ TransmitRefuses(PermitsCommand, runtime_enabled)
            \/ TransmitFails(PermitsCommand, runtime_enabled)
       ELSE UNCHANGED adapter_vars
    /\ Disarm
    /\ UNCHANGED since_command_ms

TryCommand ==
    /\ Goto("command", "read_tick")
    /\ \E runtime_enabled \in RuntimeInputs :
          \/ NoCommand(runtime_enabled)
          \/ SendCommand(runtime_enabled)
          \/ CommandFails(runtime_enabled)
    /\ UNCHANGED <<time_vars, now_ms, previous_arm_input, arm_request_pending>>

------------------------------------------------------------------------------
Main ==
    \/ BootSucceeds
    \/ BootFails
    \/ DisarmAfterFailure
    \/ UpdateAfterFailure
    \/ ReadNow
    \/ PollAndIngest
    \/ PollInVain
    \/ UpdateSafety
    \/ SwitchHeld
    \/ SwitchReleased
    \/ ArmIfRequested
    \/ TryCommand

Interrupt ==
    /\ SysTick
    /\ since_command_ms' = IF since_command_ms < CommandPeriod THEN since_command_ms + 1
                           ELSE CommandPeriod
    /\ UNCHANGED <<pc, loop_vars>>

Bus == Peripheral /\ UNCHANGED <<pc, loop_vars, since_command_ms>>

Next == Main \/ Interrupt \/ Bus

(* main is the only thread and SysTick the only interrupt: both keep running. *)
(* Nothing is assumed of the bus, of the mailboxes or of the two inputs.      *)
Spec == Init /\ [][Next]_vars /\ WF_vars(Main) /\ WF_vars(Interrupt)

------------------------------------------------------------------------------
(* Types: the loop's variables and both clocks stay within their width. *)
TypeOK ==
    /\ ApplicationTypeOK
    /\ AdapterTypeOK
    /\ TimeTypeOK
    /\ pc \in {"boot", "failed_disarm", "failed_update", "read_tick", "poll", "update",
               "switch", "arm", "command"}
    /\ now_ms \in Tick
    /\ previous_arm_input \in BOOLEAN
    /\ arm_request_pending \in BOOLEAN
    /\ last_command_ms \in Tick
    /\ since_command_ms \in 0 .. CommandPeriod

(* The loop implements CommandPermission: one rising edge of the switch     *)
(* gives at most one permission however the heartbeat comes and goes, what  *)
(* is lost is not given back while the switch stays down, a released switch *)
(* or a fault means no permission, and no frame enters a mailbox without.   *)
Permission == INSTANCE CommandPermission WITH
    press <- IF ~previous_arm_input THEN "released"
             ELSE IF arm_request_pending THEN "pressed" ELSE "spent",
    permission <- PermitsCommand,
    locked <- fault_latched,
    outbox <- tx_pending

ImplementsCommandPermission == Permission!Spec

CommandHandedOver == tx_pending' > tx_pending

(* now_ms is read at the head of the iteration and is old when the frame is *)
(* handed over: even so the last heartbeat is younger than the timeout plus *)
(* what that iteration has taken so far, up to full turns of the tick.      *)
CommandHeartbeatAge ==
    [][CommandHandedOver =>
         silent_ms < HeartbeatTimeout + unread_ms \/ silent_ms = TickMod]_vars

(* A permission never lives through a full turn of the tick without a       *)
(* heartbeat: the loop runs often enough to withdraw it before the wrapped  *)
(* age looks young again.                                                   *)
SessionEndsBeforeRollover ==
    [][PermitsCommand /\ PermitsCommand' /\ silent_ms < TickMod => silent_ms' < TickMod]_vars

(* Two frames are at least the command period apart in true time, but for   *)
(* the time one iteration takes between reading the tick and sending.       *)
CommandsArePaced ==
    [][CommandHandedOver => since_command_ms >= CommandPeriod - MaxLoopMs]_vars

(* A heartbeat that stops coming ends the permission from time alone.       *)
SilenceRevokes ==
    (PermitsCommand /\ silent_ms >= HeartbeatTimeout) ~>
        (~PermitsCommand \/ silent_ms < HeartbeatTimeout)

(* An adapter that failed is never restarted, so the permission it was used *)
(* under does not stay: the next attempt to send, the switch or the missing *)
(* heartbeats end it.                                                       *)
FailedAdapterRevokes == (PermitsCommand /\ ~started) ~> ~PermitsCommand

(* A fault report at the head of a FIFO deeper than one message cannot be   *)
(* overwritten there: it locks the machine unless the adapter fails first.  *)
FaultAtHead ==
    /\ rx_fifo # << >>
    /\ LET heartbeat == DecodeHeartbeat(Head(rx_fifo), NodeId)
       IN  HasValue(heartbeat) /\ ReportsFault(heartbeat[1])

FaultIsLatched == FaultAtHead ~> (fault_latched \/ ~started)

(* What the documents ask: a command only under a fresh heartbeat, and arm()*)
(* fails on a stale one.  It fails after a full turn of the tick.           *)
CommandNeedsFreshHeartbeat ==
    [][CommandHandedOver => silent_ms < HeartbeatTimeout + unread_ms]_vars

(* What the documents ask of the encoder: no command while it is stale.  It *)
(* fails: no decision reads encoder_received_at, so a command goes out      *)
(* although no encoder estimate was ever received.                          *)
CommandNeedsEncoder ==
    [][CommandHandedOver => HasValue(encoder_received_at)]_vars
==============================================================================
