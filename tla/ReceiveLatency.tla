---------------------------- MODULE ReceiveLatency ----------------------------
(***************************************************************************)
(* src/main.cpp with a history it does not have: when each frame arrived.  *)
(* A frame carries no time and is stamped with the tick main reads after   *)
(* it has polled it, so what waits in receive FIFO 0 looks younger than it *)
(* is.  waits holds, for each frame in the FIFO, the time since it         *)
(* arrived; taken_ms is that of the frame main has in hand, and arrival_ms *)
(* that of the last heartbeat it ingested.  All stop at MaxWaitMs, which   *)
(* is also the value where there is nothing to tell: no frame in hand, no  *)
(* heartbeat yet, or a latched fault.  A failed adapter reads no more      *)
(* frames, and their waits stay at 0.                                      *)
(***************************************************************************)
EXTENDS ReceiveMain

CONSTANT MaxWaitMs    \* bound: history ages are not counted further

ASSUME MaxWaitAssumption == MaxWaitMs \in Nat

VARIABLES waits, taken_ms, arrival_ms

history_vars == << waits, taken_ms, arrival_ms >>

LatencyInit == Init /\ waits = << >> /\ taken_ms = MaxWaitMs /\ arrival_ms = MaxWaitMs

\* In a step of main: a poll takes at most the oldest frame, and ingest what poll took.
HistoryOfMain ==
    /\ waits' = IF ~started' THEN [i \in DOMAIN waits |-> 0]
                ELSE IF rx_fifo' = rx_fifo THEN waits ELSE Tail(waits)
    /\ taken_ms' = IF frame' = None THEN MaxWaitMs
                   ELSE IF PollFrame THEN Head(waits) ELSE taken_ms
    /\ arrival_ms' = IF fault_latched' THEN MaxWaitMs
                     ELSE IF IngestFrame /\ HasValue(DecodeHeartbeat(frame[1], NodeId))
                     THEN taken_ms ELSE arrival_ms

Older(ms) == IF ms < MaxWaitMs THEN ms + 1 ELSE MaxWaitMs

\* In a tick.
HistoryOfTick ==
    /\ waits' = IF started THEN [i \in DOMAIN waits |-> Older(waits[i])] ELSE waits
    /\ taken_ms' = Older(taken_ms)
    /\ arrival_ms' = Older(arrival_ms)

\* In an arrival: the frame that is written over the newest one arrives now.
HistoryOfArrival ==
    /\ waits' = IF Len(rx_fifo) < FifoDepth THEN Append(waits, 0)
                ELSE [waits EXCEPT ![FifoDepth] = 0]
    /\ UNCHANGED << taken_ms, arrival_ms >>

LatencyNext ==
    \/ Main /\ HistoryOfMain
    \/ Interrupt /\ HistoryOfTick
    \/ Bus /\ HistoryOfArrival

LatencySpec ==
    LatencyInit /\ [][LatencyNext]_<< vars, history_vars >> /\ WF_vars(Main) /\ WF_vars(Interrupt)

------------------------------------------------------------------------------
\* One iteration takes one frame and reads the tick at most twice.  A frame may come
\* into the place poll has just freed: then the stamp of the frame that left it is one
\* read more.
LongestWaitMs == (2 * FifoDepth + 1) * MaxLoopMs

\* A running loop empties the FIFO before its frames grow old, however fast they come.
WaitIsBounded ==
    started => \A i \in DOMAIN waits : waits[i] <= LongestWaitMs

\* A heartbeat that is reported fresh left the bus no longer ago than the timeout, the
\* longest wait before it was stamped, and the time until the next update() has judged
\* it (the tick is read for a frame, then for update, and then compared); short of a
\* full turn of the tick, and of a latched fault, under which update() no longer judges.
FreshMeansRecentArrival ==
    heartbeat_fresh /\ ~fault_latched /\ silent_ms < TickMod =>
        arrival_ms < HeartbeatTimeout + LongestWaitMs + 3 * MaxLoopMs
==============================================================================
