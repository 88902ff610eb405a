---------------------------- MODULE CommandBuilder ----------------------------
(***************************************************************************)
(* include/bldc/command_builder.hpp: a builder constructed with its limits *)
(* is asked for one MIT frame after another.  Quantities are integers in   *)
(* units of 1/1024 (rad, rad/s, N.m, gain).  A float holds every such      *)
(* value of the MIT ranges exactly, and on all of them the double division *)
(* of encode_range truncates to the same code as the integer division      *)
(* here.                                                                   *)
(***************************************************************************)
EXTENDS CommandGate

CONSTANTS
    LimitSets,      \* the limits a builder may be constructed with
    Requests,       \* the commands that may be requested, finite or not
    NodeIds         \* the node identifiers asked for, valid or not

VARIABLES
    limits,         \* limits_, fixed by the constructor
    request,        \* the command of the last call
    frame           \* what it returned: a frame or None

vars == << limits, request, frame >>

Fields == {"position", "velocity", "kp", "kd", "torque"}

\* Beyond every finite value of the model; std::isfinite refuses a NaN alike.
Infinity == 10000000

IsFinite(value) == -Infinity < value /\ value < Infinity

\* The ranges of the protocol and the largest code of each field.
WireMin == [position |-> -12800, velocity |-> -66560, kp |-> 0, kd |-> 0,
            torque |-> -51200]
WireMax == [position |-> 12800, velocity |-> 66560, kp |-> 512000, kd |-> 5120,
            torque |-> 51200]
MaximumCode == [position |-> 65535, velocity |-> 4095, kp |-> 4095, kd |-> 4095,
                torque |-> 4095]

MitCommand == [Fields -> Int]

MitLimits == [min_position : Int, max_position : Int, max_velocity : Int,
              max_torque : Int, max_kp : Int, max_kd : Int]

\* What the builder is constructed with and asked for are numbers.
ASSUME InputAssumption ==
    /\ LimitSets \subseteq MitLimits
    /\ Requests \subseteq MitCommand
    /\ NodeIds \subseteq Nat

-----------------------------------------------------------------------------
(* sanitize: the authority, narrower than the wire, is applied first. *)

Lower(l) == [position |-> l.min_position, velocity |-> -l.max_velocity,
             kp |-> 0, kd |-> 0, torque |-> -l.max_torque]
Upper(l) == [position |-> l.max_position, velocity |-> l.max_velocity,
             kp |-> l.max_kp, kd |-> l.max_kd, torque |-> l.max_torque]

LimitsAreValid(l) ==
    /\ l.min_position < l.max_position
    /\ \A f \in Fields :
        /\ WireMin[f] <= Lower(l)[f]
        /\ Lower(l)[f] <= Upper(l)[f]
        /\ Upper(l)[f] <= WireMax[f]

\* Seeded defect: the lower bound is the negative of the upper one.
Clamp_Mirrored(value, lower, upper) ==
    IF value < -upper THEN -upper ELSE IF value > upper THEN upper ELSE value

Clamp(value, lower, upper) ==
    IF value < lower THEN lower ELSE IF value > upper THEN upper ELSE value

Sanitize(l, requested) ==
    IF ~LimitsAreValid(l) \/ \E f \in Fields : ~IsFinite(requested[f]) THEN None
    ELSE Some([f \in Fields |-> Clamp(requested[f], Lower(l)[f], Upper(l)[f])])

-----------------------------------------------------------------------------
(* compile_mit: encode the five fields and pack them into eight bytes. *)

EncodeRange(value, minimum, maximum, maximum_code) ==
    IF maximum <= minimum \/ value <= minimum THEN 0
    ELSE IF value >= maximum THEN maximum_code
    ELSE ((value - minimum) * maximum_code) \div (maximum - minimum)

Encode(command) ==
    [f \in Fields |-> EncodeRange(command[f], WireMin[f], WireMax[f], MaximumCode[f])]

\* Seeded defect: the low byte of the gain is packed without its high nibble.
Pack_DropsNibble(code) ==
    << code["position"] \div 256, code["position"] % 256,
       code["velocity"] \div 16, (code["velocity"] % 16) * 16,
       code["kp"] % 256,
       code["kd"] \div 16, (code["kd"] % 16) * 16 + code["torque"] \div 256,
       code["torque"] % 256 >>

\* Seeded defect: the low byte of the gain is not masked.
Pack_Unmasked(code) ==
    [Pack_DropsNibble(code) EXCEPT ![5] = code["kp"]]

\* 16 bits of position, then two pairs of 12 bits that share a byte.
Pack(code) ==
    << code["position"] \div 256, code["position"] % 256,
       code["velocity"] \div 16, (code["velocity"] % 16) * 16 + code["kp"] \div 256,
       code["kp"] % 256,
       code["kd"] \div 16, (code["kd"] % 16) * 16 + code["torque"] \div 256,
       code["torque"] % 256 >>

CompileMit(l, node_id, requested) ==
    LET sanitized == Sanitize(l, requested)
        identifier == PackStandardId(node_id, Command.mit_control)
    IN  IF ~HasValue(sanitized) \/ ~HasValue(identifier) THEN None
        ELSE Some([identifier |-> identifier[1], extended |-> FALSE,
                   remote |-> FALSE, dlc |-> 8, data |-> Pack(Encode(sanitized[1]))])

-----------------------------------------------------------------------------
Init ==
    /\ limits \in LimitSets
    /\ request \in Requests      \* immaterial: no call has been made
    /\ frame = None

Compile(node_id, requested) ==
    /\ request' = requested
    /\ frame' = CompileMit(limits, node_id, requested)
    /\ UNCHANGED limits

Build(node_id, requested, permits_command, runtime_enabled) ==
    /\ request' = requested
    /\ frame' = IF runtime_enabled /\ permits_command
                THEN CompileMit(limits, node_id, requested)
                ELSE None
    /\ UNCHANGED limits

Next ==
    \E node_id \in NodeIds, requested \in Requests :
        \/ Compile(node_id, requested)
        \/ \E permits_command, runtime_enabled \in BOOLEAN :
            Build(node_id, requested, permits_command, runtime_enabled)

Spec == Init /\ [][Next]_vars

-----------------------------------------------------------------------------
(* What a receiver makes of the eight bytes, from the byte layout alone. *)

Unpack(b) ==
    [position |-> b[1] * 256 + b[2],
     velocity |-> b[3] * 16 + b[4] \div 16,
     kp |-> (b[4] % 16) * 256 + b[5],
     kd |-> b[6] * 16 + b[7] \div 16,
     torque |-> (b[7] % 16) * 256 + b[8]]

\* A code stands for minimum + code * Width / maximum code; in units of 1 / maximum code:
Width(f) == WireMax[f] - WireMin[f]
WireValue(code, f) == WireMin[f] * MaximumCode[f] + code * Width(f)
Scaled(value, f) == value * MaximumCode[f]

\* Types.
TypeOK ==
    /\ limits \in MitLimits
    /\ request \in MitCommand
    /\ HasValue(frame) =>
        /\ frame[1].identifier \in 0 .. 2047
        /\ frame[1].data \in [1 .. 8 -> 0 .. 255]

\* What a node reads out of the bytes is the requested value clamped to the authority,
\* short of it by less than one code and never above it: no field bleeds into its
\* neighbour, wraps, or is scaled by anything but the range of the protocol.
WireCarriesRequest ==
    HasValue(frame) =>
        \A f \in Fields :
            LET code == Unpack(frame[1].data)[f]
                clamped == Clamp(request[f], Lower(limits)[f], Upper(limits)[f])
            IN  /\ WireValue(code, f) <= Scaled(clamped, f)
                /\ Scaled(clamped, f) < WireValue(code + 1, f)

\* However large the request, no frame asks a node for more than the upper limits, nor
\* for more than one code below the lower ones; a request that is not a finite number
\* gives no frame at all, rather than one clamped to a limit.
AuthorityBoundsWire ==
    HasValue(frame) =>
        \A f \in Fields :
            LET code == Unpack(frame[1].data)[f]
            IN  /\ IsFinite(request[f])
                /\ WireValue(code, f) <= Scaled(Upper(limits)[f], f)
                /\ Scaled(Lower(limits)[f], f) < WireValue(code + 1, f)

\* Two commands of one builder: the one that asks for more in some field never sends
\* less in it, across saturation at a limit or at the end of the wire range.
WireFollowsRequest ==
    [][HasValue(frame) /\ HasValue(frame') =>
        \A f \in Fields :
            request[f] <= request'[f] =>
                Unpack(frame[1].data)[f] <= Unpack(frame'[1].data)[f]]_vars
=============================================================================
