------------------------- MODULE CommandBuilderProofs -------------------------
(* Theorems about the MIT frames of CommandBuilder, for all limits and requests. *)
EXTENDS CommandBuilder, TLAPS

\* The code of a value in the range of its field is the largest whose wire value does
\* not exceed it, and fits the field.
LEMMA EncodeTruncates ==
    ASSUME NEW f \in Fields, NEW v \in Int, WireMin[f] <= v, v <= WireMax[f],
           NEW c, c = EncodeRange(v, WireMin[f], WireMax[f], MaximumCode[f])
    PROVE  /\ c \in Int /\ 0 <= c /\ c <= MaximumCode[f]
           /\ WireValue(c, f) <= Scaled(v, f)
           /\ Scaled(v, f) < WireValue(c + 1, f)
PROOF
<1>1. CASE f = "position"
    BY <1>1 DEF EncodeRange, WireMin, WireMax, MaximumCode, WireValue, Width, Scaled
<1>2. CASE f = "velocity"
    BY <1>2 DEF EncodeRange, WireMin, WireMax, MaximumCode, WireValue, Width, Scaled
<1>3. CASE f = "kp"
    BY <1>3 DEF EncodeRange, WireMin, WireMax, MaximumCode, WireValue, Width, Scaled
<1>4. CASE f = "kd"
    BY <1>4 DEF EncodeRange, WireMin, WireMax, MaximumCode, WireValue, Width, Scaled
<1>5. CASE f = "torque"
    BY <1>5 DEF EncodeRange, WireMin, WireMax, MaximumCode, WireValue, Width, Scaled
<1> QED
    BY <1>1, <1>2, <1>3, <1>4, <1>5 DEF Fields

\* A number below 2^12 is its high and its low part, whichever way it is cut.
LEMMA CutTwelveBits ==
    ASSUME NEW n \in Int, 0 <= n, n <= 4095
    PROVE  /\ (n \div 16) * 16 + (n % 16) = n
           /\ (n \div 256) * 256 + (n % 256) = n
    OBVIOUS

\* Two nibbles share a byte and are read back apart.
LEMMA ShareByte ==
    ASSUME NEW high \in 0 .. 15, NEW low \in 0 .. 15
    PROVE  /\ high * 16 + low \in 0 .. 255
           /\ (high * 16 + low) \div 16 = high
           /\ (high * 16 + low) % 16 = low
    OBVIOUS

\* The eight bytes hold the five codes: each is a byte, and the receiver reads them back.
LEMMA PackIsInvertible ==
    ASSUME NEW code \in [Fields -> Int],
           \A f \in Fields : 0 <= code[f] /\ code[f] <= MaximumCode[f]
    PROVE  /\ Pack(code) \in [1 .. 8 -> 0 .. 255]
           /\ \A f \in Fields : Unpack(Pack(code))[f] = code[f]
PROOF
<1> DEFINE p == code["position"]
           v == code["velocity"]
           kp == code["kp"]
           kd == code["kd"]
           t == code["torque"]
           b == Pack(code)
<1>1. p \in Int /\ 0 <= p /\ p <= 65535
    BY DEF Fields, MaximumCode
<1>2. /\ v \in Int /\ 0 <= v /\ v <= 4095
      /\ kp \in Int /\ 0 <= kp /\ kp <= 4095
      /\ kd \in Int /\ 0 <= kd /\ kd <= 4095
      /\ t \in Int /\ 0 <= t /\ t <= 4095
    BY DEF Fields, MaximumCode
<1>3. /\ b[1] = p \div 256 /\ b[2] = p % 256 /\ b[3] = v \div 16
      /\ b[4] = (v % 16) * 16 + kp \div 256 /\ b[5] = kp % 256 /\ b[6] = kd \div 16
      /\ b[7] = (kd % 16) * 16 + t \div 256 /\ b[8] = t % 256
    BY DEF Pack
<1>4. b = << b[1], b[2], b[3], b[4], b[5], b[6], b[7], b[8] >>
    BY DEF Pack
<1> HIDE DEF p, v, kp, kd, t, b
<1>5. /\ p \div 256 \in 0 .. 255 /\ p % 256 \in 0 .. 255
      /\ (p \div 256) * 256 + (p % 256) = p
    BY <1>1
<1>6. /\ v % 16 \in 0 .. 15 /\ kp \div 256 \in 0 .. 15
      /\ kd % 16 \in 0 .. 15 /\ t \div 256 \in 0 .. 15
    BY <1>2
<1>7. b \in [1 .. 8 -> 0 .. 255]
    <2>1. p \div 256 \in 0 .. 255 /\ p % 256 \in 0 .. 255
        BY <1>5
    <2>2. v \div 16 \in 0 .. 255 /\ kp % 256 \in 0 .. 255
        BY <1>2
    <2>3. kd \div 16 \in 0 .. 255 /\ t % 256 \in 0 .. 255
        BY <1>2
    <2>4. (v % 16) * 16 + (kp \div 256) \in 0 .. 255
        BY <1>6, ShareByte
    <2>5. (kd % 16) * 16 + (t \div 256) \in 0 .. 255
        BY <1>6, ShareByte
    <2> QED BY <1>3, <1>4, <2>1, <2>2, <2>3, <2>4, <2>5
<1>8. /\ b[1] * 256 + b[2] = p
      /\ b[3] * 16 + b[4] \div 16 = v
      /\ (b[4] % 16) * 256 + b[5] = kp
      /\ b[6] * 16 + b[7] \div 16 = kd
      /\ (b[7] % 16) * 256 + b[8] = t
    <2>1. b[4] \div 16 = v % 16 /\ b[4] % 16 = kp \div 256
        BY <1>3, <1>6, ShareByte
    <2>2. b[7] \div 16 = kd % 16 /\ b[7] % 16 = t \div 256
        BY <1>3, <1>6, ShareByte
    <2>3. b[1] * 256 + b[2] = p
        BY <1>3, <1>5
    <2>4. b[3] * 16 + b[4] \div 16 = v /\ (b[4] % 16) * 256 + b[5] = kp
        BY <1>2, <1>3, <2>1, CutTwelveBits
    <2>5. b[6] * 16 + b[7] \div 16 = kd /\ (b[7] % 16) * 256 + b[8] = t
        BY <1>2, <1>3, <2>2, CutTwelveBits
    <2> QED BY <2>3, <2>4, <2>5
<1>9. \A f \in Fields : Unpack(b)[f] = code[f]
    <2>1. /\ Unpack(b)["position"] = p /\ Unpack(b)["velocity"] = v
          /\ Unpack(b)["kp"] = kp /\ Unpack(b)["kd"] = kd /\ Unpack(b)["torque"] = t
        BY <1>8 DEF Unpack
    <2>2. ASSUME NEW f \in Fields PROVE Unpack(b)[f] = code[f]
        BY <2>1 DEF Fields, p, v, kp, kd, t
    <2> QED BY <2>2
<1> QED
    BY <1>7, <1>9 DEF b

-----------------------------------------------------------------------------
\* The command after the clamp lies in the authority, hence in the range of the wire.
LEMMA ClampedIsInRange ==
    ASSUME NEW l \in MitLimits, LimitsAreValid(l), NEW r \in MitCommand, NEW f \in Fields,
           NEW c, c = Clamp(r[f], Lower(l)[f], Upper(l)[f])
    PROVE  /\ c \in Int /\ Lower(l)[f] \in Int /\ Upper(l)[f] \in Int
           /\ WireMin[f] <= c /\ c <= WireMax[f]
           /\ Lower(l)[f] <= c /\ c <= Upper(l)[f]
PROOF
<1>1. Lower(l)[f] \in Int /\ Upper(l)[f] \in Int /\ WireMin[f] \in Int /\ WireMax[f] \in Int
    BY DEF MitLimits, Lower, Upper, WireMin, WireMax, Fields
<1>2. WireMin[f] <= Lower(l)[f] /\ Lower(l)[f] <= Upper(l)[f] /\ Upper(l)[f] <= WireMax[f]
    BY DEF LimitsAreValid
<1>3. r[f] \in Int
    BY DEF MitCommand
<1> QED
    BY <1>1, <1>2, <1>3 DEF Clamp

\* What a frame that is made holds: the node's identifier and the codes of the clamped
\* request.
FrameIsSound(l, r, fr) ==
    /\ LimitsAreValid(l)
    /\ \A f \in Fields : IsFinite(r[f])
    /\ fr.identifier \in 0 .. 2047
    /\ fr.data \in [1 .. 8 -> 0 .. 255]
    /\ \A f \in Fields :
        LET code == Unpack(fr.data)[f]
            clamped == Clamp(r[f], Lower(l)[f], Upper(l)[f])
        IN  /\ code \in Int
            /\ WireValue(code, f) <= Scaled(clamped, f)
            /\ Scaled(clamped, f) < WireValue(code + 1, f)

LEMMA CompiledFrame ==
    ASSUME NEW l \in MitLimits, NEW node \in Nat, NEW r \in MitCommand,
           HasValue(CompileMit(l, node, r))
    PROVE  FrameIsSound(l, r, CompileMit(l, node, r)[1])
PROOF
<1> DEFINE sanitized == Sanitize(l, r)
           identifier == PackStandardId(node, Command.mit_control)
           clamped == [f \in Fields |-> Clamp(r[f], Lower(l)[f], Upper(l)[f])]
           code == Encode(clamped)
           fr == CompileMit(l, node, r)[1]
<1>1. HasValue(sanitized) /\ HasValue(identifier)
    BY DEF CompileMit, HasValue
<1>2. LimitsAreValid(l) /\ (\A f \in Fields : IsFinite(r[f])) /\ sanitized[1] = clamped
    BY <1>1 DEF Sanitize, HasValue, Some
<1>3. identifier[1] \in 0 .. 2047
    BY <1>1 DEF PackStandardId, HasValue, Some, Command
<1>4. fr.identifier = identifier[1] /\ fr.data = Pack(code)
    BY <1>1, <1>2 DEF CompileMit, Some
<1>5. ASSUME NEW f \in Fields
      PROVE  /\ code[f] \in Int /\ 0 <= code[f] /\ code[f] <= MaximumCode[f]
             /\ WireValue(code[f], f) <= Scaled(clamped[f], f)
             /\ Scaled(clamped[f], f) < WireValue(code[f] + 1, f)
    <2>1. clamped[f] \in Int /\ WireMin[f] <= clamped[f] /\ clamped[f] <= WireMax[f]
        BY <1>2, ClampedIsInRange
    <2>2. code[f] = EncodeRange(clamped[f], WireMin[f], WireMax[f], MaximumCode[f])
        BY DEF Encode
    <2> HIDE DEF clamped, code
    <2> QED BY <2>1, <2>2, EncodeTruncates
<1>6. code \in [Fields -> Int]
    <2>1. code = [f \in Fields |-> code[f]]
        BY DEF Encode
    <2> HIDE DEF code
    <2> QED BY <1>5, <2>1
<1>7. /\ Pack(code) \in [1 .. 8 -> 0 .. 255]
      /\ \A f \in Fields : Unpack(Pack(code))[f] = code[f]
    <2> HIDE DEF code
    <2> QED BY <1>5, <1>6, PackIsInvertible
<1>8. \A f \in Fields : clamped[f] = Clamp(r[f], Lower(l)[f], Upper(l)[f])
    OBVIOUS
<1> HIDE DEF sanitized, identifier, clamped, code, fr
<1>9. FrameIsSound(l, r, fr)
    BY <1>2, <1>3, <1>4, <1>5, <1>7, <1>8 DEF FrameIsSound
<1> QED
    BY <1>9 DEF fr

\* Type correctness, and what every frame carries, as one inductive invariant.
FrameInv ==
    /\ TypeOK
    /\ WireCarriesRequest
    /\ HasValue(frame) =>
        /\ LimitsAreValid(limits)
        /\ \A f \in Fields : IsFinite(request[f]) /\ Unpack(frame[1].data)[f] \in Int

\* Every step leaves the limits alone and returns nothing or what CompileMit makes.
LEMMA StepCompiles ==
    ASSUME TypeOK, [Next]_vars
    PROVE  \/ UNCHANGED vars
           \/ /\ limits' = limits /\ request' \in MitCommand
              /\ \/ frame' = None
                 \/ \E node_id \in Nat : frame' = CompileMit(limits, node_id, request')
PROOF
<1>1. CASE UNCHANGED vars
    BY <1>1
<1>2. CASE Next
    <2>1. PICK node_id \in NodeIds, requested \in Requests :
            \/ Compile(node_id, requested)
            \/ \E permits_command, runtime_enabled \in BOOLEAN :
                Build(node_id, requested, permits_command, runtime_enabled)
        BY <1>2 DEF Next
    <2>2. node_id \in Nat /\ requested \in MitCommand
        BY InputAssumption
    <2> QED BY <2>1, <2>2 DEF Compile, Build
<1> QED
    BY <1>1, <1>2

\* The invariant holds initially and is kept by every step.
LEMMA FrameInvariant == Spec => []FrameInv
PROOF
<1>1. Init => FrameInv
    BY InputAssumption DEF Init, FrameInv, TypeOK, WireCarriesRequest, HasValue, None
<1>2. FrameInv /\ [Next]_vars => FrameInv'
    <2> SUFFICES ASSUME FrameInv, [Next]_vars PROVE FrameInv'
        OBVIOUS
    <2>1. CASE UNCHANGED vars
        BY <2>1 DEF FrameInv, TypeOK, WireCarriesRequest, vars
    <2>2. CASE limits' = limits /\ request' \in MitCommand /\ frame' = None
        BY <2>2 DEF FrameInv, TypeOK, WireCarriesRequest, HasValue
    <2>3. ASSUME NEW node_id \in Nat, limits' = limits, request' \in MitCommand,
                 frame' = CompileMit(limits, node_id, request'), HasValue(frame)'
          PROVE  FrameInv'
        <3>1. limits \in MitLimits /\ HasValue(CompileMit(limits, node_id, request'))
            BY <2>3 DEF FrameInv, TypeOK, HasValue
        <3>2. FrameIsSound(limits, request', frame'[1])
            BY <2>3, <3>1, CompiledFrame
        <3>3. WireCarriesRequest'
            BY <2>3, <3>2 DEF WireCarriesRequest, FrameIsSound
        <3>4. TypeOK'
            BY <2>3, <3>1, <3>2 DEF TypeOK, FrameIsSound
        <3>5. /\ LimitsAreValid(limits)'
              /\ \A f \in Fields :
                    IsFinite(request'[f]) /\ Unpack(frame'[1].data)[f] \in Int
            BY <2>3, <3>2 DEF FrameIsSound
        <3> QED BY <3>3, <3>4, <3>5 DEF FrameInv
    <2>4. ASSUME ~HasValue(frame)', limits' = limits, request' \in MitCommand
          PROVE  FrameInv'
        BY <2>4 DEF FrameInv, TypeOK, WireCarriesRequest
    <2> QED BY <2>1, <2>2, <2>3, <2>4, StepCompiles DEF FrameInv
<1> QED
    BY <1>1, <1>2, PTL DEF Spec

\* Type correctness of the builder and of every frame it makes.
THEOREM BuilderTypeCorrect == Spec => []TypeOK
    BY FrameInvariant, PTL DEF FrameInv

\* The bytes of every frame are the clamped request, short of it by less than one code
\* (compile_mit), for every request and all limits.
THEOREM WireAlwaysCarriesRequest == Spec => []WireCarriesRequest
    BY FrameInvariant, PTL DEF FrameInv

\* Scaling by the largest code of a field keeps the order.
LEMMA ScaledKeepsOrder ==
    ASSUME NEW f \in Fields, NEW a \in Int, NEW b \in Int, a <= b
    PROVE  Scaled(a, f) <= Scaled(b, f)
    BY DEF Fields, Scaled, MaximumCode

\* No frame asks for more than the upper limits, or for more than one code below the
\* lower ones (sanitize and encode_range), whatever is requested.
THEOREM AuthorityAlwaysBoundsWire == Spec => []AuthorityBoundsWire
PROOF
<1>1. FrameInv => AuthorityBoundsWire
    <2> SUFFICES ASSUME FrameInv, HasValue(frame), NEW f \in Fields
                 PROVE  LET code == Unpack(frame[1].data)[f]
                        IN  /\ IsFinite(request[f])
                            /\ WireValue(code, f) <= Scaled(Upper(limits)[f], f)
                            /\ Scaled(Lower(limits)[f], f) < WireValue(code + 1, f)
        BY DEF AuthorityBoundsWire
    <2> DEFINE code == Unpack(frame[1].data)[f]
               low == Lower(limits)[f]
               high == Upper(limits)[f]
               clamped == Clamp(request[f], low, high)
    <2>1. limits \in MitLimits /\ LimitsAreValid(limits) /\ request \in MitCommand
        <3>1. TypeOK /\ LimitsAreValid(limits)
            BY DEF FrameInv
        <3> QED BY <3>1 DEF TypeOK
    <2>2. clamped \in Int /\ low \in Int /\ high \in Int /\ low <= clamped /\ clamped <= high
        BY <2>1, ClampedIsInRange
    <2>3. WireValue(code, f) <= Scaled(clamped, f) /\ Scaled(clamped, f) < WireValue(code + 1, f)
        BY DEF FrameInv, WireCarriesRequest
    <2>4. code \in Int /\ IsFinite(request[f])
        BY DEF FrameInv
    <2> HIDE DEF code, low, high, clamped
    <2>5. Scaled(low, f) <= Scaled(clamped, f) /\ Scaled(clamped, f) <= Scaled(high, f)
        BY <2>2, ScaledKeepsOrder
    <2>6. /\ Scaled(low, f) \in Int /\ Scaled(clamped, f) \in Int /\ Scaled(high, f) \in Int
          /\ WireValue(code, f) \in Int /\ WireValue(code + 1, f) \in Int
        BY <2>2, <2>4 DEF Fields, Scaled, WireValue, Width, WireMin, WireMax, MaximumCode
    <2>7. WireValue(code, f) <= Scaled(high, f) /\ Scaled(low, f) < WireValue(code + 1, f)
        BY <2>3, <2>5, <2>6
    <2> QED BY <2>4, <2>7 DEF code, low, high
<1> QED
    BY <1>1, FrameInvariant, PTL

\* Two frames of one builder are ordered like their requests (encode_range, clamp).
THEOREM WireAlwaysFollowsRequest == Spec => WireFollowsRequest
PROOF
<1> DEFINE Follows ==
        HasValue(frame) /\ HasValue(frame') =>
            \A f \in Fields :
                request[f] <= request'[f] =>
                    Unpack(frame[1].data)[f] <= Unpack(frame'[1].data)[f]
<1>1. FrameInv /\ FrameInv' /\ [Next]_vars => [Follows]_vars
    <2> SUFFICES ASSUME FrameInv, FrameInv', [Next]_vars, HasValue(frame), HasValue(frame'),
                        NEW f \in Fields, request[f] <= request'[f]
                 PROVE  Unpack(frame[1].data)[f] <= Unpack(frame'[1].data)[f]
        OBVIOUS
    <2> DEFINE low == Lower(limits)[f]
               high == Upper(limits)[f]
               was == Clamp(request[f], low, high)
               is == Clamp(request'[f], low, high)
               old == Unpack(frame[1].data)[f]
               new == Unpack(frame'[1].data)[f]
    <2>1. limits' = limits
        BY StepCompiles DEF FrameInv, vars
    <2>2. request[f] \in Int /\ request'[f] \in Int
        <3>1. TypeOK /\ TypeOK'
            BY DEF FrameInv
        <3>2. request \in MitCommand /\ request' \in MitCommand
            BY <3>1 DEF TypeOK
        <3> QED BY <3>2 DEF MitCommand
    <2>3. low \in Int /\ high \in Int /\ low <= high
        <3>1. limits \in MitLimits /\ LimitsAreValid(limits) /\ request \in MitCommand
            <4>1. TypeOK /\ LimitsAreValid(limits)
                BY DEF FrameInv
            <4> QED BY <4>1 DEF TypeOK
        <3>2. low \in Int /\ high \in Int
            BY <3>1, ClampedIsInRange
        <3>3. low <= high
            BY <3>1 DEF LimitsAreValid
        <3> QED BY <3>2, <3>3
    <2>4. was <= is /\ was \in Int /\ is \in Int
        <3> HIDE DEF low, high
        <3> QED BY <2>2, <2>3 DEF Clamp
    <2>5. WireValue(old, f) <= Scaled(was, f) /\ Scaled(is, f) < WireValue(new + 1, f)
        BY <2>1 DEF FrameInv, WireCarriesRequest
    <2>6. old \in Int /\ new \in Int
        BY DEF FrameInv
    <2> HIDE DEF was, is, old, new
    <2>7. old < new + 1
        <3>1. CASE f = "position"
            BY <2>4, <2>5, <2>6, <3>1 DEF WireValue, Scaled, Width, WireMin, WireMax, MaximumCode
        <3>2. CASE f = "velocity"
            BY <2>4, <2>5, <2>6, <3>2 DEF WireValue, Scaled, Width, WireMin, WireMax, MaximumCode
        <3>3. CASE f = "kp"
            BY <2>4, <2>5, <2>6, <3>3 DEF WireValue, Scaled, Width, WireMin, WireMax, MaximumCode
        <3>4. CASE f = "kd"
            BY <2>4, <2>5, <2>6, <3>4 DEF WireValue, Scaled, Width, WireMin, WireMax, MaximumCode
        <3>5. CASE f = "torque"
            BY <2>4, <2>5, <2>6, <3>5 DEF WireValue, Scaled, Width, WireMin, WireMax, MaximumCode
        <3> QED BY <3>1, <3>2, <3>3, <3>4, <3>5 DEF Fields
    <2>8. old <= new
        BY <2>6, <2>7
    <2> QED BY <2>8 DEF old, new
<1> QED
    BY <1>1, FrameInvariant, PTL DEF Spec, WireFollowsRequest

\* A frame is made exactly when the gates of CommandGate are open: what the transmit
\* loop's model takes from the builder is what the builder does.
THEOREM GatesDecide ==
    ASSUME NEW l, NEW node_id, NEW r, NEW permits \in BOOLEAN, NEW enabled \in BOOLEAN
    PROVE  HasValue(IF enabled /\ permits THEN CompileMit(l, node_id, r) ELSE None)
           <=> BuildMit(node_id, HasValue(Sanitize(l, r)), permits, enabled)
    BY DEF BuildMit, CompilesMit, CompileMit, HasValue, None, Some
=============================================================================
