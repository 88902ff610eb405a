------------------------------- MODULE GimNode -------------------------------
(***************************************************************************)
(* The other end of the bus (external): how a GIM6010-8 lays out the two   *)
(* reports it sends, from the layout include/bldc/gim_protocol.hpp reads.  *)
(* A report is what the firmware keeps of it, so that a cached value can   *)
(* be put on the wire again and compared with what was there.              *)
(***************************************************************************)
EXTENDS GimProtocol

Byte == 0 .. 255

HeartbeatReport ==
    [axis_error : Word, axis_state : Byte, flags : Byte, life_counter : Byte]

Float == [sign : 0 .. 1, exponent : Byte, fraction : (0 .. 127) \X (0 .. 65535)]
FiniteFloat == {value \in Float : FloatIsFinite(value)}

EstimatesReport == [position : FiniteFloat, velocity : FiniteFloat]

LittleEndian(word) ==
    << word.low % 256, word.low \div 256, word.high % 256, word.high \div 256 >>

\* The bits of an IEC 559 binary32.
WordOf(value) ==
    [high |-> value.sign * 32768 + value.exponent * 128 + value.fraction[1],
     low |-> value.fraction[2]]

TelemetryFrame(node_id, command, payload) ==
    [identifier |-> PackStandardId(node_id, command)[1], extended |-> FALSE,
     remote |-> FALSE, dlc |-> 8, data |-> payload]

\* What a node writes into the reserved byte is its own business.
HeartbeatFrame(node_id, report, reserved) ==
    TelemetryFrame(node_id, Command.heartbeat,
        LittleEndian(report.axis_error)
          \o << report.axis_state, report.flags, reserved, report.life_counter >>)

EstimatesFrame(node_id, report) ==
    TelemetryFrame(node_id, Command.encoder_estimates,
        LittleEndian(WordOf(report.position)) \o LittleEndian(WordOf(report.velocity)))
==============================================================================
