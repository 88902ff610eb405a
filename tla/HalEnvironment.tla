---------------------------- MODULE HalEnvironment ----------------------------
(***************************************************************************)
(* What runs beside either main loop: the SysTick interrupt, the bus, and  *)
(* the mailboxes.  uptime_ms is the true time since boot (it is only ever  *)
(* compared modulo its width); the firmware sees no more of it than the    *)
(* tick.  Two auxiliary counters bound and record time: unread_ms is the   *)
(* time since main last read the tick, and silent_ms the time since the    *)
(* stamp of the last heartbeat main accepted (it stops at TickMod, a full  *)
(* turn of the tick, which is also its value before the first heartbeat).  *)
(***************************************************************************)
EXTENDS TelemetryApplication, BxcanAdapter

CONSTANT MaxLoopMs    \* the longest time between two reads of the tick by main

ASSUME MaxLoopAssumption == MaxLoopMs \in Nat \ {0} /\ MaxLoopMs < TickMod

VARIABLES uptime_ms, unread_ms, silent_ms

time_vars == <<uptime_ms, unread_ms, silent_ms>>

TimeInit ==
    /\ uptime_ms = 0
    /\ unread_ms = 0
    /\ silent_ms = TickMod

\* HAL_GetTick()
HalGetTick == uptime_ms % TickMod

SysTick ==
    /\ unread_ms < MaxLoopMs
    /\ uptime_ms' = MonoPlus(uptime_ms, 1)
    /\ unread_ms' = unread_ms + 1
    /\ silent_ms' = IF silent_ms < TickMod THEN silent_ms + 1 ELSE TickMod
    /\ UNCHANGED <<application_vars, adapter_vars>>

\* A call of HAL_GetTick by main.
ReadTick == unread_ms' = 0 /\ UNCHANGED <<uptime_ms, silent_ms>>

\* main ingests a frame it stamps with a tick that is lag ms old.
Receive(frame, hal_tick_ms, lag) ==
    /\ Ingest(frame, hal_tick_ms)
    /\ uptime_ms' = uptime_ms
    /\ silent_ms' = IF HasValue(DecodeHeartbeat(frame, NodeId)) THEN lag ELSE silent_ms

Peripheral ==
    /\ \/ \E frame \in BusFrames : FrameArrives(frame)
       \/ MailboxDone
    /\ UNCHANGED <<application_vars, time_vars>>

TimeTypeOK ==
    /\ uptime_ms \in Mono
    /\ unread_ms \in 0 .. MaxLoopMs
    /\ silent_ms \in 0 .. TickMod

(* monotonic_ms, built from wrapped differences, counts every millisecond   *)
(* of the uptime: whichever call advanced it last, and however the frames   *)
(* that advance nothing fall in between, what is missing is exactly the     *)
(* wrapped age of its last raw tick.                                        *)
MonotonicClockIsUptime ==
    clock.initialized =>
        MonoPlus(clock.monotonic_ms, TickAge(HalGetTick, clock.last_raw_ms)) = uptime_ms

(* No frame but those of this node reaches the cache, whole or in part.     *)
CacheHoldsReports == CacheCameFrom(BusFrames)
==============================================================================
