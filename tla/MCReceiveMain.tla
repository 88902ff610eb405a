---------------------------- MODULE MCReceiveMain ----------------------------
(***************************************************************************)
(* The frames of the receive run: one of each kind the adapter and the     *)
(* decoders tell apart.                                                    *)
(***************************************************************************)
EXTENDS ReceiveMain

Heartbeat(error, flag_bits) ==
    [axis_error |-> error, axis_state |-> 8, flags |-> flag_bits, life_counter |-> 7]

NoError == [high |-> 0, low |-> 0]
\* The words of the unit tests: 0x12345678, and 1.5 as a float.
TestWord == [high |-> 4660, low |-> 22136]
OneAndAHalf == [sign |-> 0, exponent |-> 127, fraction |-> << 64, 0 >>]
\* A tiny negative float, and -infinity.
Tiny == [sign |-> 1, exponent |-> 1, fraction |-> << 0, 1 >>]
MinusInfinity == [sign |-> 1, exponent |-> 255, fraction |-> << 0, 0 >>]

\* Trajectory-done (bit 7) is set: that is no fault.
HealthyReport == Heartbeat(NoError, 128)
FaultReport == Heartbeat(TestWord, 8)
Estimates == [position |-> OneAndAHalf, velocity |-> Tiny]
Infinite == [position |-> OneAndAHalf, velocity |-> MinusInfinity]

\* This node writes 255 into the reserved byte.
Healthy == HeartbeatFrame(NodeId, HealthyReport, 255)
Fault == HeartbeatFrame(NodeId, FaultReport, 255)
Encoder == EstimatesFrame(NodeId, Estimates)
EncoderInfinite == EstimatesFrame(NodeId, Infinite)
FaultOfOtherNode == HeartbeatFrame(NodeId + 1, FaultReport, 255)
\* The filter lets a length code above eight pass, an extended identifier not.
LongCode == [Fault EXCEPT !.dlc = 9]
ExtendedId == [Healthy EXCEPT !.extended = TRUE]

MCBusFrames ==
    {Healthy, Fault, Encoder, EncoderInfinite, FaultOfOtherNode, LongCode, ExtendedId}

ASSUME TestVectors ==
    /\ U32(<< 120, 86, 52, 18 >>) = TestWord
    /\ F32(<< 0, 0, 192, 63 >>) = OneAndAHalf
    /\ Fault.data = << 120, 86, 52, 18, 8, 8, 255, 7 >>
    /\ Encoder.data = << 0, 0, 192, 63, 1, 0, 128, 128 >>
==============================================================================
