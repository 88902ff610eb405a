--------------------------- MODULE MCTxTutorialMain ---------------------------
(* The frames of the transmit runs. *)
EXTENDS TxTutorialMain

Frame(id, flag_bits) ==
    [identifier |-> id, extended |-> FALSE, remote |-> FALSE, dlc |-> 8,
     data |-> << 0, 0, 0, 0, 8, flag_bits, 0, 7 >>]

\* Trajectory-done (bit 7) is set: that is no fault.
Healthy == Frame(1, 128)
Fault == Frame(1, 8)
Encoder == Frame(9, 0)

MCHeartbeats == {Healthy, Fault}
MCHealthy == {Healthy}
MCTelemetry == {Healthy, Encoder}
==============================================================================
