----------------------------- MODULE ReceiveMain -----------------------------
(***************************************************************************)
(* src/main.cpp, the default firmware: a super loop that reads one frame   *)
(* at a time and judges the heartbeat.  It never arms and has no transmit  *)
(* path.  HAL_GetTick() is the argument of each call of the application,   *)
(* so poll, the read of the tick and the call that uses it are steps of    *)
(* their own: SysTick fires and frames arrive between any two of them.     *)
(***************************************************************************)
EXTENDS HalEnvironment

VARIABLES
    pc,        \* the statement main is at
    frame,     \* the frame poll delivered, until ingest has taken it
    now_ms     \* the tick main last read: the argument of the call it is about to make

loop_vars == <<frame, now_ms>>
vars == <<application_vars, adapter_vars, time_vars, pc, loop_vars>>

Init ==
    /\ ApplicationInit
    /\ AdapterInit
    /\ TimeInit
    /\ pc = "boot"
    /\ frame = None
    /\ now_ms = 0

Goto(from, to) == pc = from /\ pc' = to

\* HAL_GetTick() is evaluated; the call that gets it comes next.
ReadNow ==
    /\ now_ms' = HalGetTick
    /\ ReadTick
    /\ UNCHANGED <<application_vars, adapter_vars, frame>>

\* update(now_ms) is executed; now_ms was read unread_ms ago.
UpdateApplication ==
    /\ Update(now_ms)
    /\ UNCHANGED <<adapter_vars, time_vars, loop_vars>>

------------------------------------------------------------------------------
BootSucceeds ==
    /\ Goto("boot", "poll")
    /\ InitializeSucceeds
    /\ UNCHANGED <<application_vars, time_vars, loop_vars>>

BootFails ==
    /\ Goto("boot", "failed")
    /\ InitializeFails
    /\ UNCHANGED <<application_vars, time_vars, loop_vars>>

\* The loop main never leaves once initialize has failed.
ReadTickAfterFailure == Goto("failed", "failed_update") /\ ReadNow

UpdateAfterFailure == Goto("failed_update", "failed") /\ UpdateApplication

------------------------------------------------------------------------------
PollFrame ==
    /\ Goto("poll", "stamp")
    /\ \E polled \in BusFrames : PollDelivers(polled) /\ frame' = Some(polled)
    /\ UNCHANGED <<application_vars, time_vars, now_ms>>

\* Seeded defect: only the first frame of a burst is ever taken from the FIFO.
PollInVain_Stuck ==
    /\ Goto("poll", "poll")
    /\ PollFindsNothing \/ PollRejects \/ PollFails
    /\ UNCHANGED <<application_vars, time_vars, loop_vars>>

PollInVain ==
    /\ Goto("poll", "read_tick")
    /\ PollFindsNothing \/ PollRejects \/ PollFails
    /\ UNCHANGED <<application_vars, time_vars, loop_vars>>

StampFrame == Goto("stamp", "ingest") /\ ReadNow

IngestFrame ==
    /\ Goto("ingest", "read_tick")
    /\ Receive(frame[1], now_ms, unread_ms)
    /\ frame' = None
    /\ UNCHANGED <<adapter_vars, unread_ms, now_ms>>

ReadTickForUpdate == Goto("read_tick", "update") /\ ReadNow

\* Seeded defect: an iteration can go by without a poll.
UpdateSafety_NoPoll ==
    /\ Goto("update", "poll") \/ Goto("update", "read_tick")
    /\ UpdateApplication

UpdateSafety == Goto("update", "poll") /\ UpdateApplication

Main ==
    \/ BootSucceeds
    \/ BootFails
    \/ ReadTickAfterFailure
    \/ UpdateAfterFailure
    \/ PollFrame
    \/ PollInVain
    \/ StampFrame
    \/ IngestFrame
    \/ ReadTickForUpdate
    \/ UpdateSafety

Interrupt == SysTick /\ UNCHANGED <<pc, loop_vars>>

Bus == Peripheral /\ UNCHANGED <<pc, loop_vars>>

Next == Main \/ Interrupt \/ Bus

(* main is the only thread and SysTick the only interrupt: both keep running. *)
(* Nothing is assumed of the bus.                                             *)
Spec == Init /\ [][Next]_vars /\ WF_vars(Main) /\ WF_vars(Interrupt)

------------------------------------------------------------------------------
(* Types: both clocks of the application stay within their width. *)
TypeOK ==
    /\ ApplicationTypeOK
    /\ AdapterTypeOK
    /\ TimeTypeOK
    /\ pc \in {"boot", "failed", "failed_update", "poll", "stamp", "ingest", "read_tick", "update"}
    /\ frame # None => frame[1] \in BusFrames
    /\ now_ms \in Tick

(* Whatever the tick does between the read that stamps a heartbeat and the  *)
(* one that judges it, after every update the two clocks agree.             *)
FreshnessMatchesStamps == pc = "poll" => ClocksJudgeAlike

(* A heartbeat that stops coming, for whatever reason (a cut cable, a dead  *)
(* node, an adapter that failed), is reported stale unless another arrives  *)
(* or a fault is latched: the host finds out from time alone.               *)
SilenceIsReported ==
    (has_heartbeat /\ silent_ms >= HeartbeatTimeout) ~>
        (state \in {"heartbeat_stale", "fault_latched"} \/ silent_ms < HeartbeatTimeout)

(* A fault report that reached the head of a FIFO deeper than one message   *)
(* can no longer be overwritten there: it is latched and published, unless  *)
(* the adapter fails first.                                                 *)
FaultAtHead ==
    /\ rx_fifo # << >>
    /\ LET heartbeat == DecodeHeartbeat(Head(rx_fifo), NodeId)
       IN  HasValue(heartbeat) /\ ReportsFault(heartbeat[1])

FaultIsPublished == FaultAtHead ~> (state = "fault_latched" \/ ~started)
==============================================================================
