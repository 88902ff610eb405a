----------------------------- MODULE BxcanAdapter -----------------------------
(***************************************************************************)
(* src/stm32_bxcan_adapter.{hpp,cpp}: the only path between the firmware   *)
(* and the CAN peripheral.  The peripheral itself (receive FIFO, transmit  *)
(* mailboxes, the HAL's result codes) is not in the repository: it is      *)
(* modelled as far as the adapter's calls and its configuration show it.   *)
(* Every frame that is sent is the same command, so the mailboxes are a    *)
(* count.                                                                  *)
(***************************************************************************)
EXTENDS Integers, Sequences

CONSTANTS
    BusFrames,      \* the frames that can appear on the bus
    FifoDepth,      \* receive FIFO 0: 3 messages on this part
    TxMailboxes     \* 3 on this part

ASSUME AdapterAssumption ==
    FifoDepth \in Nat \ {0} /\ TxMailboxes \in Nat \ {0}

VARIABLES
    started,        \* started_
    can_running,    \* HAL_CAN_Start succeeded; no call ever stops it again
    rx_fifo,        \* frames received and not yet read
    tx_pending      \* frames handed over and not yet off the mailbox

adapter_vars == <<started, can_running, rx_fifo, tx_pending>>

AdapterInit ==
    /\ started = FALSE
    /\ can_running = FALSE
    /\ rx_fifo = << >>
    /\ tx_pending = 0

------------------------------------------------------------------------------
(* The peripheral. *)

\* The one filter bank passes standard data frames of every identifier.
PassesFilter(frame) == ~frame.extended /\ ~frame.remote

\* ReceiveFifoLocked = DISABLE: into a full FIFO a frame is written over the
\* newest one held there.
FrameArrives(frame) ==
    /\ can_running
    /\ PassesFilter(frame)
    /\ rx_fifo' = IF Len(rx_fifo) < FifoDepth THEN Append(rx_fifo, frame)
                  ELSE [rx_fifo EXCEPT ![FifoDepth] = frame]
    /\ UNCHANGED <<started, can_running, tx_pending>>

\* AutoRetransmission = DISABLE: one attempt, then the mailbox is free again.
MailboxDone ==
    /\ can_running
    /\ tx_pending > 0
    /\ tx_pending' = tx_pending - 1
    /\ UNCHANGED <<started, can_running, rx_fifo>>

------------------------------------------------------------------------------
(* The adapter's methods. *)

\* initialize: clocks, HAL_CAN_Init, the filter and HAL_CAN_Start all succeed...
InitializeSucceeds ==
    /\ started' = TRUE
    /\ can_running' = TRUE
    /\ UNCHANGED <<rx_fifo, tx_pending>>

\* ... or one of them fails.
InitializeFails ==
    /\ started' = FALSE
    /\ UNCHANGED <<can_running, rx_fifo, tx_pending>>

\* The header checks poll makes again in software.
HeaderIsAcceptable(frame) ==
    /\ ~frame.extended /\ ~frame.remote
    /\ frame.identifier <= 2047
    /\ frame.dlc <= 8

\* poll returns true and delivers this frame.
PollDelivers(frame) ==
    /\ started
    /\ rx_fifo # << >>
    /\ frame = Head(rx_fifo)
    /\ HeaderIsAcceptable(frame)
    /\ rx_fifo' = Tail(rx_fifo)
    /\ UNCHANGED <<started, can_running, tx_pending>>

\* poll returns false: not started, or nothing to read.
PollFindsNothing ==
    /\ ~started \/ rx_fifo = << >>
    /\ UNCHANGED adapter_vars

\* poll returns false, and the frame it read is gone.
PollRejects ==
    /\ started
    /\ rx_fifo # << >>
    /\ ~HeaderIsAcceptable(Head(rx_fifo))
    /\ rx_fifo' = Tail(rx_fifo)
    /\ UNCHANGED <<started, can_running, tx_pending>>

\* poll returns false: HAL_CAN_GetRxMessage reports an error, and mark_failed.
PollFails ==
    /\ started
    /\ rx_fifo # << >>
    /\ started' = FALSE
    /\ UNCHANGED <<can_running, rx_fifo, tx_pending>>

\* transmit returns true: a mailbox took the frame.
TransmitAccepts(permits_command, runtime_armed) ==
    /\ started /\ runtime_armed /\ permits_command
    /\ tx_pending < TxMailboxes
    /\ tx_pending' = tx_pending + 1
    /\ UNCHANGED <<started, can_running, rx_fifo>>

\* transmit returns false before it calls the HAL.
TransmitRefuses(permits_command, runtime_armed) ==
    /\ ~(started /\ runtime_armed /\ permits_command)
    /\ UNCHANGED adapter_vars

\* transmit returns false: HAL_CAN_AddTxMessage reports an error, as it does
\* when no mailbox is free, and mark_failed.
TransmitFails(permits_command, runtime_armed) ==
    /\ started /\ runtime_armed /\ permits_command
    /\ started' = FALSE
    /\ UNCHANGED <<can_running, rx_fifo, tx_pending>>

------------------------------------------------------------------------------
AdapterTypeOK ==
    /\ started \in BOOLEAN
    /\ can_running \in BOOLEAN
    /\ rx_fifo \in Seq(BusFrames) /\ Len(rx_fifo) <= FifoDepth
    /\ tx_pending \in 0 .. TxMailboxes
==============================================================================
