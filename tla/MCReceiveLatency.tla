--------------------------- MODULE MCReceiveLatency ---------------------------
(* The frames of the latency run: heartbeats of this node, and one that poll *)
(* delivers and ingest ignores.                                             *)
EXTENDS ReceiveLatency, MCReceiveMain

MCLatencyFrames == {Healthy, Fault, FaultOfOtherNode}
==============================================================================
