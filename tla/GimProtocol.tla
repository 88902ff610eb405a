----------------------------- MODULE GimProtocol -----------------------------
(***************************************************************************)
(* include/bldc/can_frame.hpp and include/bldc/gim_protocol.hpp: which CAN *)
(* frame is which message of which node, and what its bytes say.           *)
(* Identifiers are the real 11-bit numbers and the data the eight bytes,   *)
(* b[1] to b[8].  A uint32_t is its two halves, since TLC's integers end   *)
(* at 2^31; a float is its three fields.                                   *)
(***************************************************************************)
EXTENDS Integers, Sequences

None == << >>
Some(v) == << v >>
HasValue(opt) == opt # None

CanFrame ==
    [identifier : Nat, extended : BOOLEAN, remote : BOOLEAN, dlc : Nat,
     data : [1 .. 8 -> 0 .. 255]]

Command == [heartbeat |-> 1, mit_control |-> 8, encoder_estimates |-> 9]

\* (node_id << 5) | command_id, when both fit their fields.
PackStandardId(node_id, command_id) ==
    IF node_id > 63 \/ command_id > 31 THEN None
    ELSE Some(node_id * 32 + command_id)

UnpackStandardId(identifier) ==
    IF identifier > 2047 THEN None
    ELSE Some([node_id |-> identifier \div 32, command_id |-> identifier % 32])

IsExpectedTelemetryFrame(frame, expected_node_id, expected_command) ==
    /\ ~frame.extended /\ ~frame.remote /\ frame.dlc = 8
    /\ expected_node_id <= 63
    /\ LET id == UnpackStandardId(frame.identifier)
       IN  /\ HasValue(id)
           /\ id[1] = [node_id |-> expected_node_id, command_id |-> expected_command]

------------------------------------------------------------------------------
(* The two words of the payload, little endian. *)

FirstWord(frame) == SubSeq(frame.data, 1, 4)
SecondWord(frame) == SubSeq(frame.data, 5, 8)

Word == [high : 0 .. 65535, low : 0 .. 65535]

\* decode_u32_le
U32(b) == [high |-> b[4] * 256 + b[3], low |-> b[2] * 256 + b[1]]

\* decode_f32_le: the bits of the word read as an IEC 559 binary32.
F32(b) ==
    LET word == U32(b)
    IN  [sign |-> word.high \div 32768,
         exponent |-> (word.high \div 128) % 256,
         fraction |-> << word.high % 128, word.low >>]

FloatIsFinite(value) == value.exponent # 255

------------------------------------------------------------------------------
\* Seeded defect: the life counter is read from the byte before it.
DecodeHeartbeat_Reserved(frame, expected_node_id) ==
    IF IsExpectedTelemetryFrame(frame, expected_node_id, Command.heartbeat)
    THEN Some([axis_error |-> U32(FirstWord(frame)), axis_state |-> frame.data[5],
               flags |-> frame.data[6], life_counter |-> frame.data[7]])
    ELSE None

\* Byte b[7] is reserved.
DecodeHeartbeat(frame, expected_node_id) ==
    IF IsExpectedTelemetryFrame(frame, expected_node_id, Command.heartbeat)
    THEN Some([axis_error |-> U32(FirstWord(frame)), axis_state |-> frame.data[5],
               flags |-> frame.data[6], life_counter |-> frame.data[8]])
    ELSE None

\* An estimate that is not a finite number is refused, whatever frame it came in.
DecodeEncoderEstimates(frame, expected_node_id) ==
    LET estimates == [position |-> F32(FirstWord(frame)),
                      velocity |-> F32(SecondWord(frame))]
    IN  IF /\ IsExpectedTelemetryFrame(frame, expected_node_id, Command.encoder_estimates)
           /\ FloatIsFinite(estimates.position) /\ FloatIsFinite(estimates.velocity)
        THEN Some(estimates)
        ELSE None

\* axis_error # 0, or one of the flag bits 0..3; bit 7 (trajectory done) is no fault.
ReportsFault(heartbeat) ==
    heartbeat.axis_error # [high |-> 0, low |-> 0] \/ heartbeat.flags % 16 # 0
==============================================================================
