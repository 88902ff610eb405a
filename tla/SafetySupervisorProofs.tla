------------------------ MODULE SafetySupervisorProofs ------------------------
(***************************************************************************)
(* What SafetySupervisor, the frames it hears of and TelemetryApplication, *)
(* which owns it, keep true for every caller: methods called in any order, *)
(* with any ticks and any frames, for every width of the clocks and every  *)
(* timeout.  The supervisor's inductive invariant is the conjunction of    *)
(* its three invariants, which lean on one another: update leaves          *)
(* heartbeat_fresh alone under a latch, and that it is set there is known  *)
(* only because a latched supervisor never publishes "heartbeat_stale".    *)
(***************************************************************************)
EXTENDS TelemetryApplication, SequenceTheorems, TLAPS

------------------------------------------------------------------------------
(* The tick and the unsigned difference of two ticks. *)

\* An age is again a tick.
LEMMA TickAgeType ==
    ASSUME NEW now \in Tick, NEW then \in Tick
    PROVE  TickAge(now, then) \in Tick
BY TickModAssumption DEF Tick, TickAge

\* The tick stays within its width.
LEMMA NextTickType ==
    ASSUME NEW t \in Tick
    PROVE  NextTick(t) \in Tick
BY TickModAssumption DEF Tick, NextTick

\* A tick later the difference is one larger, across the wrap of the tick too.
LEMMA TickAgeNext ==
    ASSUME NEW now \in Tick, NEW then \in Tick, TickAge(now, then) < TickMod - 1
    PROVE  TickAge(NextTick(now), then) = TickAge(now, then) + 1
BY TickModAssumption DEF Tick, NextTick, TickAge

\* A stamp has age zero at the moment it is taken.
LEMMA TickAgeSelf ==
    ASSUME NEW t \in Tick
    PROVE  TickAge(t, t) = 0
BY TickModAssumption DEF Tick, TickAge

\* Two differences bound the one across them.
LEMMA TickAgeTriangle ==
    ASSUME NEW a \in Tick, NEW b \in Tick, NEW c \in Tick
    PROVE  TickAge(a, c) <= TickAge(a, b) + TickAge(b, c)
BY TickModAssumption DEF Tick, TickAge

\* A time falls on one tick only, however its turns of the tick are counted.
LEMMA TickIsUnique ==
    ASSUME NEW turns \in Int, NEW others \in Int, NEW t \in Tick, NEW u \in Tick,
           TickMod * turns + t = TickMod * others + u
    PROVE  t = u
<1> USE TickModAssumption DEF Tick
<1>1. TickMod * turns - TickMod * others = TickMod * (turns - others)
    OBVIOUS
<1>2. CASE turns - others >= 1
    <2>1. TickMod * (turns - others) >= TickMod
        BY <1>2
    <2> QED
        BY <2>1, <1>1
<1>3. CASE turns - others <= -1
    <2>1. TickMod * (turns - others) <= -TickMod
        BY <1>3
    <2> QED
        BY <2>1, <1>1
<1>4. CASE turns = others
    BY <1>4
<1> QED
    BY <1>2, <1>3, <1>4

\* The tick of a time is its remainder after full turns.
LEMMA TickOfTime ==
    ASSUME NEW ms \in Int
    PROVE  /\ ms = TickMod * (ms \div TickMod) + (ms % TickMod)
           /\ ms \div TickMod \in Int
           /\ ms % TickMod \in Tick
BY TickModAssumption DEF Tick

\* A time that is some turns and a tick shows that tick.
LEMMA TickIsRemainder ==
    ASSUME NEW turns \in Int, NEW t \in Tick, NEW ms \in Int, ms = TickMod * turns + t
    PROVE  ms % TickMod = t
<1> DEFINE q == ms \div TickMod
           r == ms % TickMod
<1>1. TickMod * turns + t = TickMod * q + r /\ q \in Int /\ r \in Tick
    BY TickOfTime
<1> HIDE DEF q, r
<1>2. t = r
    BY <1>1, TickIsUnique
<1> QED
    BY <1>2 DEF r

\* One millisecond later the next tick shows.
LEMMA TickOfNext ==
    ASSUME NEW ms \in Int
    PROVE  (ms + 1) % TickMod = NextTick(ms % TickMod)
<1> DEFINE q == ms \div TickMod
           r == ms % TickMod
<1>1. ms = TickMod * q + r /\ q \in Int /\ r \in Tick
    BY TickOfTime
<1> HIDE DEF q, r
<1>2. NextTick(r) \in Tick /\ TickMod \in Int
    BY <1>1, NextTickType, TickModAssumption
<1>3. PICK turns \in Int : ms + 1 = TickMod * turns + NextTick(r)
    <2>1. CASE r = TickMod - 1
        <3>1. ms + 1 = TickMod * (q + 1) + NextTick(r) /\ q + 1 \in Int
            BY <1>1, <1>2, <2>1 DEF NextTick
        <3> QED
            BY <3>1
    <2>2. CASE r # TickMod - 1
        <3>1. ms + 1 = TickMod * q + NextTick(r)
            BY <1>1, <1>2, <2>2 DEF NextTick, Tick
        <3> QED
            BY <1>1, <3>1
    <2> QED
        BY <2>1, <2>2
<1>4. ms + 1 \in Int
    OBVIOUS
<1>5. (ms + 1) % TickMod = NextTick(r)
    BY <1>2, <1>3, <1>4, TickIsRemainder, Zenon
<1> QED
    BY <1>5 DEF r

------------------------------------------------------------------------------
SafetyInv == SafetyTypeOK /\ ArmedIsHealthy /\ StateMatchesFlags

\* Before any call: nothing seen, nothing armed, "disarmed" published.
LEMMA InitEstablishesSafetyInv == SafetyInit => SafetyInv
<1> SUFFICES ASSUME SafetyInit PROVE SafetyInv
    OBVIOUS
<1> USE DEF SafetyInit
<1>0. 0 \in Tick
    BY TickModAssumption DEF Tick
<1>1. SafetyTypeOK
    BY <1>0 DEF SafetyTypeOK, SafetyState
<1>2. ArmedIsHealthy
    BY DEF ArmedIsHealthy
<1>3. StateMatchesFlags
    BY DEF StateMatchesFlags
<1> QED
    BY <1>1, <1>2, <1>3 DEF SafetyInv

\* observe_heartbeat keeps the invariant, with a fault and without.
LEMMA ObserveKeepsSafetyInv ==
    ASSUME SafetyInv, NEW faulty \in BOOLEAN, NEW t \in Tick, ObserveHeartbeat(faulty, t)
    PROVE  SafetyInv'
<1> USE DEF SafetyInv
<1>1. CASE faulty
  <2> has_heartbeat' /\ heartbeat_fresh' /\ last_heartbeat_ms' = t /\ fault_latched'
      /\ armed' = FALSE /\ state' = "fault_latched"
    BY <1>1 DEF ObserveHeartbeat
  <2>1. SafetyTypeOK'
    BY <1>1 DEF ObserveHeartbeat, SafetyTypeOK, SafetyState
  <2>2. ArmedIsHealthy'
    BY DEF ArmedIsHealthy
  <2>3. StateMatchesFlags'
    BY DEF StateMatchesFlags
  <2> QED
    BY <2>1, <2>2, <2>3
<1>2. CASE ~faulty
  <2> has_heartbeat' /\ heartbeat_fresh' /\ last_heartbeat_ms' = t
      /\ armed' = armed /\ fault_latched' = fault_latched
      /\ state' = IF armed THEN state ELSE "disarmed"
    BY <1>2 DEF ObserveHeartbeat
  <2>1. SafetyTypeOK'
    BY <1>2 DEF ObserveHeartbeat, SafetyTypeOK, SafetyState
  <2>2. ArmedIsHealthy'
    BY DEF ArmedIsHealthy
  <2>3. StateMatchesFlags'
    BY DEF StateMatchesFlags, ArmedIsHealthy
  <2> QED
    BY <2>1, <2>2, <2>3
<1> QED
    BY <1>1, <1>2

\* update keeps it, whichever way it returns.
LEMMA UpdateKeepsSafetyInv ==
    ASSUME SafetyInv, NEW t \in Tick, SupervisorUpdate(t)
    PROVE  SafetyInv'
<1> USE DEF SafetyInv, SafetyTypeOK, SafetyState, ArmedIsHealthy, StateMatchesFlags
<1> UNCHANGED <<last_heartbeat_ms, has_heartbeat, fault_latched>>
    BY DEF SupervisorUpdate
<1>1. CASE LatchHolds
    BY <1>1 DEF LatchHolds
<1>2. CASE NoHeartbeatYet
    BY <1>2 DEF NoHeartbeatYet
<1>3. CASE HeartbeatTimedOut(t)
    BY <1>3 DEF HeartbeatTimedOut
<1>4. CASE HeartbeatStillFresh(t)
    BY <1>4 DEF HeartbeatStillFresh
<1> QED
    BY <1>1, <1>2, <1>3, <1>4 DEF SupervisorUpdate

\* Every call, and a step in which no call is made, keeps the invariant.
LEMMA StepKeepsSafetyInv ==
    ASSUME SafetyInv, [SafetyNext]_safety_vars
    PROVE  SafetyInv'
<1>1. CASE \E faulty \in BOOLEAN, t \in Tick : ObserveHeartbeat(faulty, t)
    BY <1>1, ObserveKeepsSafetyInv
<1>2. CASE \E t \in Tick : SupervisorUpdate(t)
    BY <1>2, UpdateKeepsSafetyInv
<1> USE DEF SafetyInv, SafetyTypeOK, SafetyState, ArmedIsHealthy, StateMatchesFlags
<1>3. CASE SupervisorArm
  <2>1. CASE CanArm
    <3> armed' /\ state' = "armed"
        /\ UNCHANGED <<last_heartbeat_ms, has_heartbeat, heartbeat_fresh, fault_latched>>
      BY <1>3, <2>1 DEF SupervisorArm
    <3>1. armed' \in BOOLEAN
      BY <1>3, <2>1 DEF SupervisorArm
    <3> QED
      BY <2>1, <3>1 DEF CanArm
  <2>2. CASE ~CanArm
    BY <1>3, <2>2 DEF SupervisorArm, safety_vars
  <2> QED
    BY <2>1, <2>2
<1>4. CASE SupervisorDisarm
    BY <1>4 DEF SupervisorDisarm
<1>5. CASE UNCHANGED safety_vars
    BY <1>5 DEF safety_vars
<1> QED
    BY <1>1, <1>2, <1>3, <1>4, <1>5 DEF SafetyNext

(* The inductive invariant: the types, the health of armed_ and the         *)
(* published state, which no order of calls can take apart.                 *)
THEOREM SafetyInvariant == SafetySpec => []SafetyInv
<1>1. SafetyInit => SafetyInv
    BY InitEstablishesSafetyInv
<1>2. SafetyInv /\ [SafetyNext]_safety_vars => SafetyInv'
    BY StepKeepsSafetyInv
<1> QED
    BY <1>1, <1>2, PTL DEF SafetySpec

(* The types, for every caller. *)
THEOREM SafetyTypeCorrect == SafetySpec => []SafetyTypeOK
<1>1. SafetyInv => SafetyTypeOK
    BY DEF SafetyInv
<1> QED
    BY <1>1, SafetyInvariant, PTL

(* armed_ never survives what closes the permission. *)
THEOREM ArmedIsAlwaysHealthy == SafetySpec => []ArmedIsHealthy
<1>1. SafetyInv => ArmedIsHealthy
    BY DEF SafetyInv
<1> QED
    BY <1>1, SafetyInvariant, PTL

(* The published state agrees with the flags after every call. *)
THEOREM StateAlwaysMatchesFlags == SafetySpec => []StateMatchesFlags
<1>1. SafetyInv => StateMatchesFlags
    BY DEF SafetyInv
<1> QED
    BY <1>1, SafetyInvariant, PTL

------------------------------------------------------------------------------
\* No call clears the latch, and none leaves a permission beside it.
LEMMA StepKeepsLatch ==
    ASSUME [SafetyNext]_safety_vars, fault_latched
    PROVE  fault_latched' /\ ~PermitsCommand'
<1> SUFFICES fault_latched'
    BY DEF PermitsCommand
<1>1. CASE \E faulty \in BOOLEAN, t \in Tick : ObserveHeartbeat(faulty, t)
    BY <1>1 DEF ObserveHeartbeat
<1>2. CASE \E t \in Tick : SupervisorUpdate(t)
    BY <1>2 DEF SupervisorUpdate
<1>3. CASE SupervisorArm
    BY <1>3 DEF SupervisorArm, safety_vars
<1>4. CASE SupervisorDisarm
    BY <1>4 DEF SupervisorDisarm
<1>5. CASE UNCHANGED safety_vars
    BY <1>5 DEF safety_vars
<1> QED
    BY <1>1, <1>2, <1>3, <1>4, <1>5 DEF SafetyNext

(* The fault latch is permanent: nothing but a reboot reopens the permission. *)
THEOREM LatchIsPermanent == SafetySpec => FaultLatchIsPermanent
<1>1. [SafetyNext]_safety_vars
        => [fault_latched => fault_latched' /\ ~PermitsCommand']_safety_vars
    BY StepKeepsLatch
<1> QED
    BY <1>1, PTL DEF SafetySpec, FaultLatchIsPermanent

------------------------------------------------------------------------------
\* A call that opens a closed permission is a call of arm().
LEMMA StepOpensByArm ==
    ASSUME SafetyInv, [SafetyNext]_safety_vars, ~PermitsCommand, PermitsCommand'
    PROVE  SupervisorArm
<1> ~armed
    BY DEF SafetyInv, ArmedIsHealthy, PermitsCommand
<1> armed'
    BY DEF PermitsCommand
<1>1. ASSUME NEW faulty \in BOOLEAN, NEW t \in Tick, ObserveHeartbeat(faulty, t)
      PROVE  FALSE
    BY <1>1 DEF ObserveHeartbeat
<1>2. ASSUME NEW t \in Tick, SupervisorUpdate(t)
      PROVE  FALSE
    BY <1>2 DEF SupervisorUpdate, LatchHolds, NoHeartbeatYet, HeartbeatTimedOut,
                HeartbeatStillFresh
<1>3. CASE SupervisorDisarm
    BY <1>3 DEF SupervisorDisarm
<1>4. CASE UNCHANGED safety_vars
    BY <1>4 DEF safety_vars
<1> QED
    BY <1>1, <1>2, <1>3, <1>4 DEF SafetyNext

(* A lost permission comes back through arm() only. *)
THEOREM PermissionIsOnlyByArm == SafetySpec => PermissionOnlyByArm
<1>1. SafetyInv /\ [SafetyNext]_safety_vars
        => [~PermitsCommand /\ PermitsCommand' => SupervisorArm]_safety_vars
    BY StepOpensByArm
<1> QED
    BY <1>1, SafetyInvariant, PTL DEF SafetySpec, PermissionOnlyByArm
------------------------------------------------------------------------------
(* The bytes and bits of a word.  Half and Byte stay opaque outside the lemmas that *)
(* count with them.                                                                 *)

Half == 0 .. 65535
SignBit == 0 .. 1
UpperFraction == 0 .. 127

LEMMA WordIsHalves == Word = [high : Half, low : Half]
BY DEF Word, Half

LEMMA HalfValues ==
    ASSUME NEW n \in Half
    PROVE  n \in Int /\ 0 <= n /\ n <= 65535
BY DEF Half

(* Two bytes are one half of a word, and a half is two bytes. *)
LEMMA HalfOfBytes ==
    ASSUME NEW lo \in Byte, NEW hi \in Byte
    PROVE  /\ hi * 256 + lo \in Half
           /\ (hi * 256 + lo) % 256 = lo
           /\ (hi * 256 + lo) \div 256 = hi
<1>1. /\ lo \in Int /\ 0 <= lo /\ lo <= 255
      /\ hi \in Int /\ 0 <= hi /\ hi <= 255
    BY DEF Byte
<1>2. hi * 256 + lo \in Half
    BY <1>1 DEF Half
<1>3. (hi * 256 + lo) % 256 = lo
    BY <1>1
<1>4. (hi * 256 + lo) \div 256 = hi
    BY <1>1
<1> QED
    BY <1>2, <1>3, <1>4

LEMMA BytesOfHalf ==
    ASSUME NEW n \in Half
    PROVE  /\ n % 256 \in Byte /\ n \div 256 \in Byte
           /\ (n \div 256) * 256 + (n % 256) = n
BY DEF Byte, Half

(* The sign, the exponent and the upper fraction fill the upper half of a word. *)
LEMMA FieldsOfHalf ==
    ASSUME NEW high \in Half
    PROVE  (high \div 32768) * 32768 + ((high \div 128) % 256) * 128 + (high % 128) = high
<1> DEFINE q == high \div 128
           r == high % 128
<1>0. high \in Int /\ 0 <= high /\ high <= 65535
    BY HalfValues
<1>1. high = q * 128 + r /\ q \in Int /\ r \in Int /\ 0 <= r /\ r <= 127
    BY <1>0
<1>2. high \div 32768 = q \div 256
    BY <1>0
<1> HIDE DEF q, r
<1>3. q = (q \div 256) * 256 + (q % 256) /\ q \div 256 \in Int /\ q % 256 \in Int
    BY <1>1
<1> DEFINE s == q \div 256
           e == q % 256
<1>4. q = s * 256 + e /\ s \in Int /\ e \in Int
    BY <1>3
<1> HIDE DEF s, e
<1>5. s * 32768 + e * 128 + r = high
    BY <1>1, <1>4
<1> QED
    BY <1>2, <1>5 DEF q, r, s, e

LEMMA HalfOfFields ==
    ASSUME NEW s \in SignBit, NEW e \in Byte, NEW f \in UpperFraction
    PROVE  LET high == s * 32768 + e * 128 + f
           IN  /\ high \in Half
               /\ high \div 32768 = s /\ (high \div 128) % 256 = e /\ high % 128 = f
<1> DEFINE high == s * 32768 + e * 128 + f
<1>1. high % 128 = f /\ high \div 128 = s * 256 + e
    BY DEF Byte, SignBit, UpperFraction
<1>2. (s * 256 + e) % 256 = e /\ high \div 32768 = s
    BY DEF Byte, SignBit, UpperFraction
<1>3. high \in Half
    BY DEF Byte, Half, SignBit, UpperFraction
<1> QED
    BY <1>1, <1>2, <1>3

------------------------------------------------------------------------------
(* What is put on the wire is what was read, and the other way round. *)

LEMMA WordReadsBack ==
    ASSUME NEW word \in Word, NEW b,
           b[1] = LittleEndian(word)[1], b[2] = LittleEndian(word)[2],
           b[3] = LittleEndian(word)[3], b[4] = LittleEndian(word)[4]
    PROVE  U32(b) = word
<1>1. /\ word = [high |-> word.high, low |-> word.low]
      /\ word.high \in Half /\ word.low \in Half
    BY WordIsHalves
<1>2. /\ (word.high \div 256) * 256 + (word.high % 256) = word.high
      /\ (word.low \div 256) * 256 + (word.low % 256) = word.low
    BY <1>1, BytesOfHalf
<1>3. U32(b) = [high |-> word.high, low |-> word.low]
    BY <1>2 DEF U32, LittleEndian
<1> QED
    BY <1>1, <1>3

LEMMA BytesReadBack ==
    ASSUME NEW b, b[1] \in Byte, b[2] \in Byte, b[3] \in Byte, b[4] \in Byte
    PROVE  U32(b) \in Word /\ LittleEndian(U32(b)) = << b[1], b[2], b[3], b[4] >>
<1>1. U32(b) = [high |-> b[4] * 256 + b[3], low |-> b[2] * 256 + b[1]]
    BY DEF U32
<1>2. /\ b[4] * 256 + b[3] \in Half /\ b[2] * 256 + b[1] \in Half
      /\ (b[4] * 256 + b[3]) % 256 = b[3] /\ (b[4] * 256 + b[3]) \div 256 = b[4]
      /\ (b[2] * 256 + b[1]) % 256 = b[1] /\ (b[2] * 256 + b[1]) \div 256 = b[2]
    BY HalfOfBytes
<1> QED
    BY <1>1, <1>2, WordIsHalves DEF LittleEndian

LEMMA FloatReadsBack ==
    ASSUME NEW value \in Float, NEW b, U32(b) = WordOf(value)
    PROVE  F32(b) = value
<1>1. Float = [sign : SignBit, exponent : Byte, fraction : UpperFraction \X Half]
    BY DEF Float, Half, SignBit, UpperFraction
<1>2. \A s \in SignBit, e \in Byte, f \in UpperFraction :
          LET high == s * 32768 + e * 128 + f
          IN  high \div 32768 = s /\ (high \div 128) % 256 = e /\ high % 128 = f
    BY HalfOfFields
<1>3. PICK s \in SignBit, e \in Byte, f \in UpperFraction, l \in Half :
          value = [sign |-> s, exponent |-> e, fraction |-> << f, l >>]
    BY <1>1
<1> DEFINE h == s * 32768 + e * 128 + f
<1>4. U32(b) = [high |-> h, low |-> l]
    BY <1>3 DEF WordOf
<1>5. h \div 32768 = s /\ (h \div 128) % 256 = e /\ h % 128 = f
    BY <1>2
<1> HIDE DEF h
<1> QED
    BY <1>3, <1>4, <1>5 DEF F32

LEMMA WordOfType ==
    ASSUME NEW value \in Float
    PROVE  WordOf(value) \in Word
<1>1. Float = [sign : SignBit, exponent : Byte, fraction : UpperFraction \X Half]
    BY DEF Float, Half, SignBit, UpperFraction
<1>2. \A s \in SignBit, e \in Byte, f \in UpperFraction : s * 32768 + e * 128 + f \in Half
    BY HalfOfFields
<1> QED
    BY <1>1, <1>2, WordIsHalves DEF WordOf

LEMMA BitsReadBack ==
    ASSUME NEW b, U32(b) \in Word
    PROVE  WordOf(F32(b)) = U32(b)
<1> DEFINE high == U32(b).high
           low == U32(b).low
<1>1. U32(b) = [high |-> high, low |-> low] /\ high \in Half
    BY WordIsHalves
<1>2. F32(b) = [sign |-> high \div 32768, exponent |-> (high \div 128) % 256,
                fraction |-> << high % 128, low >>]
    BY DEF F32
<1> HIDE DEF high, low
<1>3. (high \div 32768) * 32768 + ((high \div 128) % 256) * 128 + (high % 128) = high
    BY <1>1, FieldsOfHalf
<1>4. WordOf(F32(b))
        = [high |-> (high \div 32768) * 32768 + ((high \div 128) % 256) * 128 + (high % 128),
           low |-> low]
    BY <1>2 DEF WordOf
<1> QED
    BY <1>1, <1>3, <1>4

LEMMA PayloadIsTwoWords ==
    ASSUME NEW frame \in CanFrame
    PROVE  /\ U32(FirstWord(frame)) \in Word /\ U32(SecondWord(frame)) \in Word
           /\ frame.data = LittleEndian(U32(FirstWord(frame)))
                             \o << frame.data[5], frame.data[6], frame.data[7], frame.data[8] >>
           /\ frame.data = LittleEndian(U32(FirstWord(frame)))
                             \o LittleEndian(U32(SecondWord(frame)))
<1> DEFINE d == frame.data
<1>1. d \in [1 .. 8 -> Byte]
    BY DEF CanFrame, Byte
<1>2. d \in Seq(Byte) /\ Len(d) = 8
    <2>1. d \in Seq(Byte)
        BY <1>1, SeqDef
    <2> QED
        BY <1>1, <2>1, LenProperties
<1>3. /\ \A i \in 1 .. 4 : FirstWord(frame)[i] = d[i]
      /\ \A i \in 1 .. 4 : SecondWord(frame)[i] = d[i + 4]
    BY <1>2 DEF FirstWord, SecondWord
<1>4. \A i \in 1 .. 8 : d[i] \in Byte
    BY <1>1
<1>5. d = << d[1], d[2], d[3], d[4] >> \o << d[5], d[6], d[7], d[8] >>
    BY <1>1
<1> HIDE DEF d, FirstWord, SecondWord
<1>6. /\ FirstWord(frame)[1] = d[1] /\ FirstWord(frame)[2] = d[2]
      /\ FirstWord(frame)[3] = d[3] /\ FirstWord(frame)[4] = d[4]
      /\ SecondWord(frame)[1] = d[5] /\ SecondWord(frame)[2] = d[6]
      /\ SecondWord(frame)[3] = d[7] /\ SecondWord(frame)[4] = d[8]
    BY <1>3
<1>7. /\ d[1] \in Byte /\ d[2] \in Byte /\ d[3] \in Byte /\ d[4] \in Byte
      /\ d[5] \in Byte /\ d[6] \in Byte /\ d[7] \in Byte /\ d[8] \in Byte
    BY <1>4
<1>8. /\ U32(FirstWord(frame)) \in Word
      /\ LittleEndian(U32(FirstWord(frame))) = << d[1], d[2], d[3], d[4] >>
    BY <1>6, <1>7, BytesReadBack
<1>9. /\ U32(SecondWord(frame)) \in Word
      /\ LittleEndian(U32(SecondWord(frame))) = << d[5], d[6], d[7], d[8] >>
    BY <1>6, <1>7, BytesReadBack
<1> QED
    BY <1>5, <1>8, <1>9 DEF d

LEMMA ExpectedIdentifier ==
    ASSUME NEW frame \in CanFrame, NEW node_id \in Nat, NEW command \in Nat, command <= 31
    PROVE  IsExpectedTelemetryFrame(frame, node_id, command)
             <=> /\ ~frame.extended /\ ~frame.remote /\ frame.dlc = 8
                 /\ PackStandardId(node_id, command) = Some(frame.identifier)
<1> DEFINE id == frame.identifier
<1>1. id \in Nat
    BY DEF CanFrame
<1> HIDE DEF id
<1>2. CASE node_id > 63
    BY <1>2 DEF IsExpectedTelemetryFrame, PackStandardId, None, Some
<1>3. CASE ~(node_id > 63)
    <2>1. PackStandardId(node_id, command) = << node_id * 32 + command >>
        BY <1>3 DEF PackStandardId, Some
    <2>2. node_id * 32 + command <= 2047
        BY <1>3
    <2>3. (id <= 2047 /\ id \div 32 = node_id /\ id % 32 = command) <=> id = node_id * 32 + command
        <3>1. id = 32 * (id \div 32) + (id % 32)
            BY <1>1
        <3>2. id = node_id * 32 + command => id \div 32 = node_id /\ id % 32 = command
            OBVIOUS
        <3> QED
            BY <2>2, <3>1, <3>2
    <2>4. IsExpectedTelemetryFrame(frame, node_id, command)
            <=> /\ ~frame.extended /\ ~frame.remote /\ frame.dlc = 8
                /\ id <= 2047 /\ id \div 32 = node_id /\ id % 32 = command
        <3>1. IsExpectedTelemetryFrame(frame, node_id, command)
            <=> /\ ~frame.extended /\ ~frame.remote /\ frame.dlc = 8
                /\ id <= 2047
                /\ [node_id |-> id \div 32, command_id |-> id % 32]
                      = [node_id |-> node_id, command_id |-> command]
            BY <1>1, <1>3 DEF IsExpectedTelemetryFrame, UnpackStandardId, HasValue, None, Some, id
        <3> QED
            BY <3>1
    <2> QED
        BY <2>1, <2>3, <2>4 DEF Some, id
<1> QED
    BY <1>2, <1>3

LEMMA HeartbeatWasSent ==
    ASSUME NEW frame \in CanFrame, NEW node_id \in Nat,
           HasValue(DecodeHeartbeat(frame, node_id))
    PROVE  /\ DecodeHeartbeat(frame, node_id)[1] \in HeartbeatReport
           /\ frame = HeartbeatFrame(node_id, DecodeHeartbeat(frame, node_id)[1], frame.data[7])
<1> DEFINE report == DecodeHeartbeat(frame, node_id)[1]
<1>1. /\ IsExpectedTelemetryFrame(frame, node_id, 1)
      /\ report = [axis_error |-> U32(FirstWord(frame)), axis_state |-> frame.data[5],
                   flags |-> frame.data[6], life_counter |-> frame.data[8]]
    BY DEF DecodeHeartbeat, HasValue, None, Some, Command
<1> HIDE DEF report
<1>2. /\ ~frame.extended /\ ~frame.remote /\ frame.dlc = 8
      /\ PackStandardId(node_id, 1) = Some(frame.identifier)
    BY <1>1, ExpectedIdentifier
<1>3. /\ frame.data[5] \in Byte /\ frame.data[6] \in Byte /\ frame.data[8] \in Byte
    BY DEF CanFrame, Byte
<1>4. report \in HeartbeatReport
    BY <1>1, <1>3, PayloadIsTwoWords DEF HeartbeatReport
<1>5. frame = [identifier |-> frame.identifier, extended |-> frame.extended,
               remote |-> frame.remote, dlc |-> frame.dlc, data |-> frame.data]
    BY DEF CanFrame
<1>6. frame.extended = FALSE /\ frame.remote = FALSE
    BY <1>2 DEF CanFrame
<1>7. frame.data = LittleEndian(report.axis_error)
                     \o << report.axis_state, report.flags, frame.data[7], report.life_counter >>
    BY <1>1, PayloadIsTwoWords
<1>8. PackStandardId(node_id, 1)[1] = frame.identifier
    BY <1>2 DEF Some
<1>9. frame = HeartbeatFrame(node_id, report, frame.data[7])
    BY <1>2, <1>5, <1>6, <1>7, <1>8 DEF HeartbeatFrame, TelemetryFrame, Command
<1> QED
    BY <1>4, <1>9 DEF report

LEMMA EstimatesWereSent ==
    ASSUME NEW frame \in CanFrame, NEW node_id \in Nat,
           HasValue(DecodeEncoderEstimates(frame, node_id))
    PROVE  /\ frame = EstimatesFrame(node_id, DecodeEncoderEstimates(frame, node_id)[1])
           /\ FloatIsFinite(DecodeEncoderEstimates(frame, node_id)[1].position)
           /\ FloatIsFinite(DecodeEncoderEstimates(frame, node_id)[1].velocity)
<1> DEFINE report == DecodeEncoderEstimates(frame, node_id)[1]
<1>1. /\ IsExpectedTelemetryFrame(frame, node_id, 9)
      /\ report = [position |-> F32(FirstWord(frame)), velocity |-> F32(SecondWord(frame))]
      /\ FloatIsFinite(report.position) /\ FloatIsFinite(report.velocity)
    BY DEF DecodeEncoderEstimates, HasValue, None, Some, Command
<1> HIDE DEF report
<1>2. /\ ~frame.extended /\ ~frame.remote /\ frame.dlc = 8
      /\ PackStandardId(node_id, 9) = Some(frame.identifier)
    BY <1>1, ExpectedIdentifier
<1>3. /\ WordOf(report.position) = U32(FirstWord(frame))
      /\ WordOf(report.velocity) = U32(SecondWord(frame))
    BY <1>1, PayloadIsTwoWords, BitsReadBack
<1>4. frame.data = LittleEndian(WordOf(report.position)) \o LittleEndian(WordOf(report.velocity))
    BY <1>3, PayloadIsTwoWords
<1>5. frame = [identifier |-> frame.identifier, extended |-> frame.extended,
               remote |-> frame.remote, dlc |-> frame.dlc, data |-> frame.data]
    BY DEF CanFrame
<1>6. frame.extended = FALSE /\ frame.remote = FALSE
    BY <1>2 DEF CanFrame
<1>7. PackStandardId(node_id, 9)[1] = frame.identifier
    BY <1>2 DEF Some
<1>8. frame = EstimatesFrame(node_id, report)
    BY <1>2, <1>4, <1>5, <1>6, <1>7 DEF EstimatesFrame, TelemetryFrame, Command
<1> QED
    BY <1>1, <1>8 DEF report

LEMMA FrameFields ==
    CanFrame = [identifier : Nat, extended : BOOLEAN, remote : BOOLEAN, dlc : Nat,
                data : [1 .. 8 -> Byte]]
BY DEF CanFrame, Byte

FourBytes(b) == b \in Seq(Byte) /\ Len(b) = 4

LEMMA TupleIsFourBytes ==
    ASSUME NEW b1 \in Byte, NEW b2 \in Byte, NEW b3 \in Byte, NEW b4 \in Byte
    PROVE  FourBytes(<< b1, b2, b3, b4 >>)
BY DEF FourBytes

LEMMA WordIsFourBytes ==
    ASSUME NEW word \in Word
    PROVE  FourBytes(LittleEndian(word))
<1>1. word.high \in Half /\ word.low \in Half
    BY WordIsHalves
<1>2. /\ word.high % 256 \in Byte /\ word.high \div 256 \in Byte
      /\ word.low % 256 \in Byte /\ word.low \div 256 \in Byte
    BY <1>1, BytesOfHalf
<1> QED
    BY <1>2, TupleIsFourBytes DEF LittleEndian

EightBytes(d) == d \in Seq(Byte) /\ Len(d) = 8

LEMMA EightBytesAreAPayload ==
    ASSUME NEW d, EightBytes(d)
    PROVE  d \in [1 .. 8 -> Byte]
BY LenProperties DEF EightBytes

LEMMA FrameType ==
    ASSUME NEW i \in Nat, NEW e \in BOOLEAN, NEW r \in BOOLEAN, NEW n \in Nat,
           NEW d, EightBytes(d)
    PROVE  [identifier |-> i, extended |-> e, remote |-> r, dlc |-> n, data |-> d] \in CanFrame
BY EightBytesAreAPayload, FrameFields

LEMMA TelemetryFrameIsRead ==
    ASSUME NEW node_id \in Nat, node_id <= 63, NEW command \in Nat, command <= 31,
           NEW first \in Word, NEW second, FourBytes(second), NEW frame,
           frame = TelemetryFrame(node_id, command, LittleEndian(first) \o second)
    PROVE  /\ frame \in CanFrame /\ U32(FirstWord(frame)) = first
           /\ frame.data[5] = second[1] /\ frame.data[6] = second[2]
           /\ frame.data[7] = second[3] /\ frame.data[8] = second[4]
           /\ SecondWord(frame)[1] = second[1] /\ SecondWord(frame)[2] = second[2]
           /\ SecondWord(frame)[3] = second[3] /\ SecondWord(frame)[4] = second[4]
           /\ \A expected, c \in Nat : c <= 31 =>
                 (IsExpectedTelemetryFrame(frame, expected, c)
                    <=> expected = node_id /\ c = command)
<1> DEFINE w == LittleEndian(first)
           d == frame.data
<1>1. d = w \o second /\ FourBytes(w)
    BY WordIsFourBytes DEF TelemetryFrame
<1> HIDE DEF w, d
<1>2. /\ EightBytes(d)
      /\ d[1] = w[1] /\ d[2] = w[2] /\ d[3] = w[3] /\ d[4] = w[4]
      /\ d[5] = second[1] /\ d[6] = second[2] /\ d[7] = second[3] /\ d[8] = second[4]
    <2>1. /\ w \in Seq(Byte) /\ Len(w) = 4 /\ second \in Seq(Byte) /\ Len(second) = 4
        BY <1>1 DEF FourBytes
    <2>2. /\ d \in Seq(Byte) /\ Len(d) = Len(w) + Len(second)
          /\ \A i \in 1 .. Len(w) + Len(second) :
                d[i] = IF i <= Len(w) THEN w[i] ELSE second[i - Len(w)]
        BY <1>1, <2>1, ConcatProperties
    <2>3. Len(d) = 8 /\ \A i \in 1 .. 8 : d[i] = IF i <= 4 THEN w[i] ELSE second[i - 4]
        BY <2>1, <2>2
    <2>4. /\ d[1] = w[1] /\ d[2] = w[2] /\ d[3] = w[3] /\ d[4] = w[4]
          /\ d[5] = second[1] /\ d[6] = second[2] /\ d[7] = second[3] /\ d[8] = second[4]
        BY <2>3
    <2> QED
        BY <2>2, <2>3, <2>4 DEF EightBytes
<1>3. /\ frame.identifier = node_id * 32 + command /\ frame.extended = FALSE
      /\ frame.remote = FALSE /\ frame.dlc = 8
      /\ frame = [identifier |-> frame.identifier, extended |-> FALSE,
                  remote |-> FALSE, dlc |-> 8, data |-> d]
    BY DEF TelemetryFrame, PackStandardId, Some, d
<1>4. frame \in CanFrame
    <2>1. frame.identifier \in Nat
        BY <1>3
    <2>2. FALSE \in BOOLEAN /\ 8 \in Nat
        OBVIOUS
    <2>3. [identifier |-> frame.identifier, extended |-> FALSE,
           remote |-> FALSE, dlc |-> 8, data |-> d] \in CanFrame
        BY <1>2, <2>1, <2>2, FrameType
    <2> QED
        BY <1>3, <2>3, Zenon
<1>5. U32(FirstWord(frame)) = first
    <2>1. \A i \in 1 .. 4 : FirstWord(frame)[i] = d[i]
        BY <1>2 DEF FirstWord, EightBytes, d
    <2> HIDE DEF FirstWord
    <2>2. /\ FirstWord(frame)[1] = d[1] /\ FirstWord(frame)[2] = d[2]
          /\ FirstWord(frame)[3] = d[3] /\ FirstWord(frame)[4] = d[4]
        BY <2>1
    <2> QED
        BY <1>2, <2>2, WordReadsBack DEF w
<1>6. /\ SecondWord(frame)[1] = second[1] /\ SecondWord(frame)[2] = second[2]
      /\ SecondWord(frame)[3] = second[3] /\ SecondWord(frame)[4] = second[4]
    <2>1. \A i \in 1 .. 4 : SecondWord(frame)[i] = d[i + 4]
        BY <1>2 DEF SecondWord, EightBytes, d
    <2> HIDE DEF SecondWord
    <2> QED
        BY <1>2, <2>1
<1>7. ASSUME NEW expected \in Nat, NEW c \in Nat, c <= 31
      PROVE  IsExpectedTelemetryFrame(frame, expected, c) <=> expected = node_id /\ c = command
    <2>1. IsExpectedTelemetryFrame(frame, expected, c)
            <=> PackStandardId(expected, c) = Some(node_id * 32 + command)
        BY <1>3, <1>4, <1>7, ExpectedIdentifier
    <2>2. PackStandardId(expected, c) = Some(node_id * 32 + command)
            <=> expected <= 63 /\ expected * 32 + c = node_id * 32 + command
        BY <1>7 DEF PackStandardId, None, Some
    <2>3. expected * 32 + c = node_id * 32 + command => expected = node_id /\ c = command
        BY <1>7
    <2> QED
        BY <2>1, <2>2, <2>3
<1> QED
    BY <1>2, <1>4, <1>5, <1>6, <1>7 DEF d

(* A heartbeat a node sends is decoded by the firmware that expects that node to  *)
(* exactly the report that was sent, by no other, and never as encoder estimates. *)
THEOREM HeartbeatReachesItsReader ==
    ASSUME NEW node_id \in Nat, node_id <= 63, NEW expected \in Nat,
           NEW report \in HeartbeatReport, NEW reserved \in Byte
    PROVE  /\ DecodeHeartbeat(HeartbeatFrame(node_id, report, reserved), expected)
                = IF expected = node_id THEN Some(report) ELSE None
           /\ DecodeEncoderEstimates(HeartbeatFrame(node_id, report, reserved), expected) = None
<1> DEFINE frame == HeartbeatFrame(node_id, report, reserved)
           first == report.axis_error
           second == << report.axis_state, report.flags, reserved, report.life_counter >>
<1>1. /\ report = [axis_error |-> report.axis_error, axis_state |-> report.axis_state,
                   flags |-> report.flags, life_counter |-> report.life_counter]
      /\ first \in Word /\ report.axis_state \in Byte /\ report.flags \in Byte
      /\ report.life_counter \in Byte
    BY DEF HeartbeatReport
<1>2. FourBytes(second)
    BY <1>1, TupleIsFourBytes
<1>3. frame = TelemetryFrame(node_id, 1, LittleEndian(first) \o second)
    BY DEF HeartbeatFrame, Command
<1>4. /\ second[1] = report.axis_state /\ second[2] = report.flags /\ second[4] = report.life_counter
    OBVIOUS
<1> HIDE DEF frame, first, second
<1>5. 1 \in Nat /\ 1 <= 31 /\ 9 \in Nat /\ 9 <= 31
    OBVIOUS
<1>6. /\ U32(FirstWord(frame)) = first
      /\ frame.data[5] = second[1] /\ frame.data[6] = second[2] /\ frame.data[8] = second[4]
      /\ \A c \in Nat : c <= 31 =>
            (IsExpectedTelemetryFrame(frame, expected, c) <=> expected = node_id /\ c = 1)
    <2>1. first \in Word
        BY <1>1
    <2> QED
        BY <1>2, <1>3, <1>5, <2>1, TelemetryFrameIsRead
<1>7. /\ IsExpectedTelemetryFrame(frame, expected, 1) <=> expected = node_id
      /\ ~IsExpectedTelemetryFrame(frame, expected, 9)
    BY <1>5, <1>6
<1>8. DecodeHeartbeat(frame, expected) = IF expected = node_id THEN Some(report) ELSE None
    BY <1>1, <1>4, <1>6, <1>7 DEF DecodeHeartbeat, Command, first
<1>9. DecodeEncoderEstimates(frame, expected) = None
    BY <1>7 DEF DecodeEncoderEstimates, Command
<1> QED
    BY <1>8, <1>9 DEF frame

(* Estimates a node sends are decoded by the firmware that expects that node to     *)
(* exactly the floats that were sent when both are finite, and refused otherwise;   *)
(* they are never taken for a heartbeat.                                            *)
THEOREM EstimatesReachTheirReader ==
    ASSUME NEW node_id \in Nat, node_id <= 63, NEW expected \in Nat, NEW position \in Float,
           NEW velocity \in Float, NEW report, report = [position |-> position, velocity |-> velocity]
    PROVE  /\ DecodeEncoderEstimates(EstimatesFrame(node_id, report), expected)
                = IF /\ expected = node_id
                     /\ FloatIsFinite(position) /\ FloatIsFinite(velocity)
                  THEN Some(report) ELSE None
           /\ DecodeHeartbeat(EstimatesFrame(node_id, report), expected) = None
<1> DEFINE frame == EstimatesFrame(node_id, report)
           first == WordOf(position)
           second == LittleEndian(WordOf(velocity))
<1>1. /\ first \in Word /\ WordOf(velocity) \in Word
    BY WordOfType
<1>2. FourBytes(second)
    BY <1>1, WordIsFourBytes
<1>3. frame = TelemetryFrame(node_id, 9, LittleEndian(first) \o second)
    BY DEF EstimatesFrame, Command
<1> HIDE DEF frame, first, second
<1>4. 1 \in Nat /\ 1 <= 31 /\ 9 \in Nat /\ 9 <= 31
    OBVIOUS
<1>5. /\ frame \in CanFrame /\ U32(FirstWord(frame)) = first
      /\ SecondWord(frame)[1] = second[1] /\ SecondWord(frame)[2] = second[2]
      /\ SecondWord(frame)[3] = second[3] /\ SecondWord(frame)[4] = second[4]
      /\ \A c \in Nat : c <= 31 =>
            (IsExpectedTelemetryFrame(frame, expected, c) <=> expected = node_id /\ c = 9)
    BY <1>1, <1>2, <1>3, <1>4, TelemetryFrameIsRead
<1>6. U32(SecondWord(frame)) = WordOf(velocity)
    BY <1>1, <1>5, WordReadsBack DEF second
<1>7. F32(FirstWord(frame)) = position /\ F32(SecondWord(frame)) = velocity
    BY <1>5, <1>6, FloatReadsBack DEF first
<1>8. /\ IsExpectedTelemetryFrame(frame, expected, 9) <=> expected = node_id
      /\ ~IsExpectedTelemetryFrame(frame, expected, 1)
    BY <1>4, <1>5
<1> QED
    BY <1>7, <1>8 DEF DecodeEncoderEstimates, DecodeHeartbeat, Command, frame

------------------------------------------------------------------------------
(* The 64-bit clock and the stamps: each shows a tick and a time that falls on it. *)

ShowsItsTick(stamp) == stamp.monotonic_ms % TickMod = stamp.raw_ms

StampIsTyped(s) == HasValue(s) => s[1] \in HalTickTimestamp /\ ShowsItsTick(s[1])

ClockIsTyped(c) ==
    /\ c \in [last_raw_ms : Tick, monotonic_ms : Mono, initialized : BOOLEAN]
    /\ c.monotonic_ms % TickMod = c.last_raw_ms

ClocksAreTyped ==
    ClockIsTyped(clock) /\ StampIsTyped(heartbeat_received_at) /\ StampIsTyped(encoder_received_at)

\* An age moves a time onto the tick it was taken at.
LEMMA AgeMovesToTick ==
    ASSUME NEW ms \in Mono, NEW t \in Tick
    PROVE  /\ MonoPlus(ms, TickAge(t, ms % TickMod)) \in Mono
           /\ MonoPlus(ms, TickAge(t, ms % TickMod)) % TickMod = t
<1> DEFINE q == ms \div TickMod
           r == ms % TickMod
           turns == MonoMod \div TickMod
           sum == MonoPlus(ms, TickAge(t, r))
<1>1. ms \in Int /\ MonoMod \in Int /\ MonoMod % TickMod = 0 /\ TickMod \in Nat
    BY MonoModAssumption, TickModAssumption DEF Mono
<1>2. ms = TickMod * q + r /\ q \in Int /\ r \in Tick
    BY <1>1, TickOfTime
<1>3. MonoMod = TickMod * turns /\ turns \in Int
    BY <1>1, TickOfTime
<1> HIDE DEF q, r, turns
<1>4. TickAge(t, r) \in Tick
    BY <1>2, TickAgeType
<1>5. sum \in Mono
    BY <1>1, <1>4, MonoModAssumption, TickModAssumption DEF MonoPlus, Mono, Tick
<1>6. PICK k \in {q, q + 1} : ms + TickAge(t, r) = TickMod * k + t
    <2>1. CASE t >= r
        BY <1>2, <2>1, TickModAssumption DEF TickAge, Tick
    <2>2. CASE ~(t >= r)
        <3>1. TickMod * (q + 1) = TickMod * q + TickMod
            BY <1>1, <1>2
        <3> QED
            BY <1>2, <2>2, <3>1, TickModAssumption DEF TickAge, Tick
    <2> QED
        BY <2>1, <2>2
<1>7. k \in Int
    BY <1>2, <1>6
<1>8. PICK j \in {k, k - turns} : sum = TickMod * j + t
    <2>1. TickMod * (k - turns) = TickMod * k - MonoMod
        BY <1>1, <1>3, <1>7
    <2> QED
        BY <1>6, <2>1, <1>1, <1>7, <1>4 DEF MonoPlus, Tick
<1>9. j \in Int /\ sum \in Int
    BY <1>3, <1>5, <1>7, <1>8, MonoModAssumption DEF Mono
<1>10. sum % TickMod = t
    BY <1>8, <1>9, TickIsRemainder, Zenon
<1> QED
    BY <1>5, <1>10 DEF r

\* Whichever branch of advance is taken, the clock it leaves shows this tick.
LEMMA AdvanceIsTyped ==
    ASSUME ClockIsTyped(clock), NEW t \in Tick
    PROVE  /\ ClockIsTyped(Advanced(t)) /\ StampIsTyped(Stamp(Advanced(t)))
           /\ HasValue(Stamp(Advanced(t)))
           /\ Advanced(t).last_raw_ms = t /\ Advanced(t).initialized
           /\ Stamp(Advanced(t))[1] = [raw_ms |-> t, monotonic_ms |-> Advanced(t).monotonic_ms]
<1>1. CASE clock.initialized
    <2>1. /\ Advanced(t).last_raw_ms = t /\ Advanced(t).initialized
          /\ Advanced(t).monotonic_ms = MonoPlus(clock.monotonic_ms, TickAge(t, clock.last_raw_ms))
          /\ Advanced(t) = [last_raw_ms |-> t, initialized |-> TRUE,
                            monotonic_ms |-> Advanced(t).monotonic_ms]
        BY <1>1 DEF Advanced, ClockIsTyped
    <2>2. Advanced(t).monotonic_ms \in Mono /\ Advanced(t).monotonic_ms % TickMod = t
        BY <2>1, AgeMovesToTick DEF ClockIsTyped
    <2> QED
        BY <2>1, <2>2 DEF ClockIsTyped, StampIsTyped, ShowsItsTick, HalTickTimestamp, Stamp,
                          Some, HasValue, None
<1>2. CASE ~clock.initialized
    <2>1. Advanced(t) = [last_raw_ms |-> t, monotonic_ms |-> t, initialized |-> TRUE]
        BY <1>2 DEF Advanced
    <2>2. t \in Mono /\ t \in Int /\ t = TickMod * 0 + t
        BY TickModAssumption, MonoModAssumption DEF Tick, Mono
    <2>3. t % TickMod = t
        BY <2>2, TickIsRemainder
    <2> QED
        BY <2>1, <2>2, <2>3 DEF ClockIsTyped, StampIsTyped, ShowsItsTick, HalTickTimestamp,
                                Stamp, Some, HasValue, None
<1> QED
    BY <1>1, <1>2

\* Nothing added is nothing changed.
LEMMA MonoPlusZero ==
    ASSUME NEW ms \in Mono
    PROVE  MonoPlus(ms, 0) = ms
BY MonoModAssumption DEF MonoPlus, Mono

\* Milliseconds can be added one at a time.
LEMMA MonoPlusNext ==
    ASSUME NEW ms \in Mono, NEW age \in Nat, age + 1 < TickMod
    PROVE  MonoPlus(ms, age + 1) = MonoPlus(MonoPlus(ms, age), 1)
BY MonoModAssumption, TickModAssumption DEF MonoPlus, Mono

\* Two advances add up.
LEMMA MonoPlusSum ==
    ASSUME NEW ms \in Mono, NEW a \in Nat, NEW b \in Nat, a + b < MonoMod
    PROVE  MonoPlus(MonoPlus(ms, a), b) = MonoPlus(ms, a + b)
BY MonoModAssumption, TickModAssumption DEF MonoPlus, Mono

------------------------------------------------------------------------------
(* The calls of the application, as calls of the supervisor and writes of the *)
(* cache and the stamps.                                                      *)

\* A frame is a heartbeat of this node, estimates of this node, or nothing.
LEMMA IngestCalls ==
    ASSUME NEW frame, NEW t, Ingest(frame, t)
    PROVE  \/ /\ HasValue(DecodeHeartbeat(frame, NodeId))
              /\ IngestHeartbeat(frame, t)
           \/ /\ ~HasValue(DecodeHeartbeat(frame, NodeId))
              /\ UNCHANGED << safety_vars, heartbeat_received_at >>
              /\ \/ IngestEncoder(frame, t)
                 \/ UNCHANGED << telemetry, clock, encoder_received_at >>
<1>1. CASE IngestHeartbeat(frame, t)
    BY <1>1 DEF IngestHeartbeat
<1>2. CASE IngestEncoder(frame, t)
    <2>1. IsExpectedTelemetryFrame(frame, NodeId, Command.encoder_estimates)
        BY <1>2 DEF IngestEncoder, DecodeEncoderEstimates, HasValue, None
    <2>2. ~IsExpectedTelemetryFrame(frame, NodeId, Command.heartbeat)
        BY <2>1 DEF IsExpectedTelemetryFrame, Command
    <2>3. ~HasValue(DecodeHeartbeat(frame, NodeId))
        BY <2>2 DEF DecodeHeartbeat, HasValue
    <2> QED
        BY <1>2, <2>3 DEF IngestEncoder
<1>3. CASE IngestIgnored(frame)
    BY <1>3 DEF IngestIgnored, application_vars
<1> QED
    BY <1>1, <1>2, <1>3 DEF Ingest

\* A frame reaches the supervisor as one call of observe_heartbeat, or not at all.
LEMMA IngestObserves ==
    ASSUME NEW frame, NEW t, Ingest(frame, t)
    PROVE  \/ /\ HasValue(DecodeHeartbeat(frame, NodeId))
              /\ \E faulty \in BOOLEAN : ObserveHeartbeat(faulty, t)
           \/ /\ ~HasValue(DecodeHeartbeat(frame, NodeId))
              /\ UNCHANGED safety_vars
<1>1. ReportsFault(DecodeHeartbeat(frame, NodeId)[1]) \in BOOLEAN
    BY DEF ReportsFault
<1> QED
    BY <1>1, IngestCalls DEF IngestHeartbeat

\* A heartbeat of this node passes every check poll makes of its header.
LEMMA HeartbeatPassesPoll ==
    ASSUME NEW frame \in CanFrame, HasValue(DecodeHeartbeat(frame, NodeId))
    PROVE  ~frame.extended /\ ~frame.remote /\ frame.dlc = 8 /\ frame.identifier <= 2047
<1>1. IsExpectedTelemetryFrame(frame, NodeId, Command.heartbeat)
    BY DEF DecodeHeartbeat, HasValue
<1>2. ~frame.extended /\ ~frame.remote /\ frame.dlc = 8
    BY <1>1 DEF IsExpectedTelemetryFrame
<1>3. ~(frame.identifier > 2047)
    BY <1>1 DEF IsExpectedTelemetryFrame, UnpackStandardId, HasValue, None
<1>4. frame.identifier \in Nat
    BY DEF CanFrame
<1> QED
    BY <1>2, <1>3, <1>4

\* A fault report that is ingested is latched and published by the same call.
LEMMA IngestLatchesFault ==
    ASSUME NEW frame, NEW t, Ingest(frame, t), HasValue(DecodeHeartbeat(frame, NodeId)),
           ReportsFault(DecodeHeartbeat(frame, NodeId)[1])
    PROVE  fault_latched' /\ state' = "fault_latched"
<1>1. ReportsFault(DecodeHeartbeat(frame, NodeId)[1]) = TRUE
    BY DEF ReportsFault
<1>2. ObserveHeartbeat(TRUE, t)
    BY <1>1, IngestCalls DEF IngestHeartbeat
<1> QED
    BY <1>2 DEF ObserveHeartbeat

LEMMA CallsReachSupervisor ==
    ASSUME NEW Frames, [ApplicationNext(Frames)]_application_vars
    PROVE  [SafetyNext]_safety_vars
<1>1. CASE \E frame \in Frames, t \in Tick : Ingest(frame, t)
    BY <1>1, IngestObserves DEF SafetyNext
<1>2. CASE \E t \in Tick : Update(t)
    BY <1>2 DEF Update, SafetyNext
<1>3. CASE Arm \/ Disarm
    BY <1>3 DEF Arm, Disarm, SafetyNext
<1>4. CASE UNCHANGED application_vars
    BY <1>4 DEF application_vars
<1> QED
    BY <1>1, <1>2, <1>3, <1>4 DEF ApplicationNext

------------------------------------------------------------------------------
(* What any order of calls leaves behind. *)

CacheFields == "heartbeat" \in DOMAIN telemetry /\ "encoder_estimates" \in DOMAIN telemetry

RecordsInvariant == CacheFields /\ HeartbeatRecordsAgree

ApplicationInv == SafetyInv /\ ClocksAreTyped /\ RecordsInvariant

LEMMA ApplicationStartsSound == ApplicationInit => ApplicationInv
<1> SUFFICES ASSUME ApplicationInit PROVE ApplicationInv
    OBVIOUS
<1>1. SafetyInv
    BY InitEstablishesSafetyInv DEF ApplicationInit
<1>2. ClocksAreTyped
    <2>1. 0 \in Mono /\ 0 \in Tick /\ 0 = TickMod * 0 + 0
        BY TickModAssumption, MonoModAssumption DEF Mono, Tick
    <2>2. 0 % TickMod = 0
        BY <2>1, TickIsRemainder
    <2> QED
        BY <2>1, <2>2 DEF ApplicationInit, ClocksAreTyped, ClockIsTyped, StampIsTyped,
                          HasValue, None
<1>3. CacheFields /\ telemetry.heartbeat = None
    BY DEF ApplicationInit, CacheFields
<1>4. /\ HasValue(telemetry.heartbeat) = FALSE /\ HasValue(heartbeat_received_at) = FALSE
      /\ has_heartbeat = FALSE
    BY <1>3 DEF HasValue, ApplicationInit, SafetyInit
<1> QED
    BY <1>1, <1>2, <1>3, <1>4 DEF ApplicationInv, RecordsInvariant, HeartbeatRecordsAgree

\* A heartbeat writes all three records with one stamp, and a fault in it latches.
LEMMA HeartbeatKeepsRecords ==
    ASSUME RecordsInvariant, ClocksAreTyped, NEW frame, NEW t \in Tick, IngestHeartbeat(frame, t)
    PROVE  RecordsInvariant'
<1> DEFINE heartbeat == DecodeHeartbeat(frame, NodeId)
<1>1. /\ HasValue(heartbeat)
      /\ telemetry' = [telemetry EXCEPT !.heartbeat = heartbeat]
      /\ heartbeat_received_at' = Stamp(Advanced(t))
      /\ ObserveHeartbeat(ReportsFault(heartbeat[1]), t)
    BY DEF IngestHeartbeat
<1> HIDE DEF heartbeat
<1>2. telemetry'.heartbeat = heartbeat /\ CacheFields'
    BY <1>1 DEF RecordsInvariant, CacheFields
<1>3. HasValue(heartbeat_received_at') /\ heartbeat_received_at'[1].raw_ms = t
    <2>1. /\ HasValue(Stamp(Advanced(t)))
          /\ Stamp(Advanced(t))[1] = [raw_ms |-> t, monotonic_ms |-> Advanced(t).monotonic_ms]
        BY AdvanceIsTyped DEF ClocksAreTyped
    <2> QED
        BY <1>1, <2>1
<1>4. /\ has_heartbeat' = TRUE /\ last_heartbeat_ms' = t
      /\ ReportsFault(heartbeat[1]) => fault_latched'
    BY <1>1 DEF ObserveHeartbeat
<1>5. HasValue(telemetry.heartbeat)' = has_heartbeat'
    <2>1. HasValue(telemetry.heartbeat)' = TRUE
        BY <1>1, <1>2 DEF HasValue
    <2> QED
        BY <1>4, <2>1
<1>6. HasValue(heartbeat_received_at)' = has_heartbeat'
    <2>1. HasValue(heartbeat_received_at)' = TRUE
        BY <1>3 DEF HasValue
    <2> QED
        BY <1>4, <2>1
<1>7. heartbeat_received_at'[1].raw_ms = last_heartbeat_ms'
    BY <1>3, <1>4
<1>8. ReportsFault(telemetry.heartbeat[1])' => fault_latched'
    BY <1>2, <1>4 DEF ReportsFault
<1> QED
    BY <1>2, <1>5, <1>6, <1>7, <1>8 DEF RecordsInvariant, HeartbeatRecordsAgree

\* Every call keeps the records, the clocks and the supervisor together.
LEMMA CallsKeepApplication ==
    ASSUME ApplicationInv, NEW Frames, [ApplicationNext(Frames)]_application_vars
    PROVE  ApplicationInv'
<1> USE DEF ApplicationInv
<1>1. SafetyInv'
    BY CallsReachSupervisor, StepKeepsSafetyInv
<1>2. CASE UNCHANGED << telemetry, clock, heartbeat_received_at, encoder_received_at >>
           /\ UNCHANGED << has_heartbeat, last_heartbeat_ms, fault_latched >>
    BY <1>1, <1>2 DEF ClocksAreTyped, ClockIsTyped, StampIsTyped, RecordsInvariant,
                      CacheFields, HeartbeatRecordsAgree, HasValue, None
<1>3. ASSUME NEW frame, NEW t \in Tick, Ingest(frame, t)
      PROVE  ApplicationInv'
    <2>1. CASE IngestHeartbeat(frame, t)
        <3>1. RecordsInvariant'
            BY <2>1, HeartbeatKeepsRecords
        <3>2. ClocksAreTyped'
            BY <2>1, AdvanceIsTyped DEF IngestHeartbeat, ClocksAreTyped, ClockIsTyped, StampIsTyped
        <3> QED
            BY <1>1, <3>1, <3>2
    <2>2. CASE IngestEncoder(frame, t)
        <3>1. telemetry'.heartbeat = telemetry.heartbeat /\ CacheFields'
            BY <2>2 DEF IngestEncoder, RecordsInvariant, CacheFields
        <3>2. RecordsInvariant'
            BY <2>2, <3>1 DEF IngestEncoder, RecordsInvariant, HeartbeatRecordsAgree,
                              safety_vars, HasValue, None
        <3>3. ClocksAreTyped'
            BY <2>2, AdvanceIsTyped DEF IngestEncoder, ClocksAreTyped, ClockIsTyped, StampIsTyped
        <3> QED
            BY <1>1, <3>2, <3>3
    <2>3. CASE IngestIgnored(frame)
        BY <1>2, <2>3 DEF IngestIgnored, application_vars, safety_vars
    <2> QED
        BY <1>3, <2>1, <2>2, <2>3 DEF Ingest
<1>4. ASSUME NEW t \in Tick, Update(t)
      PROVE  ApplicationInv'
    <2>1. ClocksAreTyped'
        BY <1>4, AdvanceIsTyped DEF Update, ClocksAreTyped, ClockIsTyped, StampIsTyped
    <2>2. RecordsInvariant'
        BY <1>4 DEF Update, SupervisorUpdate, RecordsInvariant, CacheFields,
                    HeartbeatRecordsAgree, HasValue, None
    <2> QED
        BY <1>1, <2>1, <2>2
<1>5. CASE Arm \/ Disarm
    BY <1>2, <1>5 DEF Arm, SupervisorArm, Disarm, SupervisorDisarm, safety_vars
<1>6. CASE UNCHANGED application_vars
    BY <1>2, <1>6 DEF application_vars, safety_vars
<1> QED
    BY <1>3, <1>4, <1>5, <1>6 DEF ApplicationNext

LEMMA ApplicationInvHolds ==
    ASSUME NEW Frames
    PROVE  ApplicationSpec(Frames) => []ApplicationInv
<1>1. ApplicationInv /\ [ApplicationNext(Frames)]_application_vars => ApplicationInv'
    BY CallsKeepApplication
<1> QED
    BY <1>1, ApplicationStartsSound, PTL DEF ApplicationSpec

(* The application is one of the callers SafetySpec allows, whatever frames *)
(* it is given: what is proved of the supervisor is true of it here.        *)
THEOREM ApplicationImplementsSafety ==
    ASSUME NEW Frames
    PROVE  ApplicationSpec(Frames) => SafetySpec
<1>1. ApplicationInit => SafetyInit
    BY DEF ApplicationInit
<1>2. [ApplicationNext(Frames)]_application_vars => [SafetyNext]_safety_vars
    BY CallsReachSupervisor
<1> QED
    BY <1>1, <1>2, PTL DEF ApplicationSpec, SafetySpec

(* The cache, the receive stamp and the supervisor tell of the same last    *)
(* heartbeat after every call, in any order, with any ticks, whatever was   *)
(* given to ingest.                                                         *)
THEOREM ApplicationRecordsAgree ==
    ASSUME NEW Frames
    PROVE  ApplicationSpec(Frames) => []HeartbeatRecordsAgree
<1>1. ApplicationInv => HeartbeatRecordsAgree
    BY DEF ApplicationInv, RecordsInvariant
<1> QED
    BY <1>1, ApplicationInvHolds, PTL

------------------------------------------------------------------------------
(* What is in the cache was on the bus. *)

ReportIsTyped(heartbeat) ==
    HasValue(heartbeat) => heartbeat[1].axis_error \in Word /\ heartbeat[1].flags \in 0 .. 255

CacheInv(Frames) == ReportIsTyped(telemetry.heartbeat) /\ CacheCameFrom(Frames)

LEMMA CacheStartsEmpty ==
    ASSUME NEW Frames, ApplicationInit
    PROVE  CacheInv(Frames)
BY DEF ApplicationInit, CacheInv, ReportIsTyped, CacheCameFrom, HasValue

LEMMA HeartbeatIsTyped ==
    ASSUME NEW frame \in CanFrame, HasValue(DecodeHeartbeat(frame, NodeId))
    PROVE  /\ DecodeHeartbeat(frame, NodeId)[1].axis_error \in Word
           /\ DecodeHeartbeat(frame, NodeId)[1].flags \in 0 .. 255
<1>1. NodeId \in Nat
    BY NodeIdAssumption
<1>2. DecodeHeartbeat(frame, NodeId)[1] \in HeartbeatReport
    BY <1>1, HeartbeatWasSent
<1>3. /\ DecodeHeartbeat(frame, NodeId)[1].axis_error \in Word
      /\ DecodeHeartbeat(frame, NodeId)[1].flags \in Byte
    BY <1>2 DEF HeartbeatReport
<1> QED
    BY <1>3 DEF Byte

LEMMA CallsKeepCache ==
    ASSUME NEW Frames, Frames \subseteq CanFrame, CacheFields, CacheInv(Frames),
           [ApplicationNext(Frames)]_application_vars
    PROVE  CacheInv(Frames)'
<1>1. NodeId \in Nat
    BY NodeIdAssumption
<1>2. ASSUME NEW frame \in Frames, NEW t, IngestHeartbeat(frame, t)
      PROVE  CacheInv(Frames)'
    <2> DEFINE heartbeat == DecodeHeartbeat(frame, NodeId)
    <2>1. HasValue(heartbeat) /\ telemetry' = [telemetry EXCEPT !.heartbeat = heartbeat]
        BY <1>2 DEF IngestHeartbeat
    <2>2. /\ heartbeat[1].axis_error \in Word /\ heartbeat[1].flags \in 0 .. 255
          /\ frame = HeartbeatFrame(NodeId, heartbeat[1], frame.data[7])
        BY <1>1, <2>1, HeartbeatIsTyped, HeartbeatWasSent
    <2> HIDE DEF heartbeat
    <2>3. /\ telemetry'.heartbeat = heartbeat
          /\ telemetry'.encoder_estimates = telemetry.encoder_estimates
        BY <2>1 DEF CacheFields
    <2> QED
        BY <2>2, <2>3 DEF CacheInv, ReportIsTyped, CacheCameFrom, HasValue
<1>3. ASSUME NEW frame \in Frames, NEW t, IngestEncoder(frame, t)
      PROVE  CacheInv(Frames)'
    <2> DEFINE encoder == DecodeEncoderEstimates(frame, NodeId)
    <2>1. HasValue(encoder) /\ telemetry' = [telemetry EXCEPT !.encoder_estimates = encoder]
        BY <1>3 DEF IngestEncoder
    <2>2. /\ frame = EstimatesFrame(NodeId, encoder[1])
          /\ FloatIsFinite(encoder[1].position) /\ FloatIsFinite(encoder[1].velocity)
        BY <1>1, <2>1, EstimatesWereSent
    <2> HIDE DEF encoder
    <2>3. /\ telemetry'.encoder_estimates = encoder
          /\ telemetry'.heartbeat = telemetry.heartbeat
        BY <2>1 DEF CacheFields
    <2> QED
        BY <2>2, <2>3 DEF CacheInv, ReportIsTyped, CacheCameFrom, HasValue
<1>4. CASE UNCHANGED telemetry
    BY <1>4 DEF CacheInv, ReportIsTyped, CacheCameFrom, HasValue, None
<1> QED
    BY <1>2, <1>3, <1>4
    DEF ApplicationNext, Ingest, IngestIgnored, Update, Arm, Disarm, application_vars

LEMMA CacheInvHolds ==
    ASSUME NEW Frames, Frames \subseteq CanFrame
    PROVE  ApplicationSpec(Frames) => []CacheInv(Frames)
<1>1. ApplicationInit => CacheInv(Frames)
    BY CacheStartsEmpty
<1>2. ApplicationInv /\ CacheInv(Frames) /\ [ApplicationNext(Frames)]_application_vars
        => CacheInv(Frames)'
    BY CallsKeepCache DEF ApplicationInv, RecordsInvariant
<1> QED
    BY <1>1, <1>2, ApplicationInvHolds, PTL DEF ApplicationSpec

(* No frame but this node's reports reaches the cache, and of those nothing *)
(* is lost, moved or invented but the reserved byte: what is cached is what *)
(* some frame given to ingest carries.                                      *)
THEOREM ApplicationCacheCameFrom ==
    ASSUME NEW Frames, Frames \subseteq CanFrame
    PROVE  ApplicationSpec(Frames) => []CacheCameFrom(Frames)
<1>1. CacheInv(Frames) => CacheCameFrom(Frames)
    BY DEF CacheInv
<1> QED
    BY <1>1, CacheInvHolds, PTL

(* Types of the application under any calls: both clocks within their width *)
(* and the cached heartbeat in that of its fields.                          *)
THEOREM ApplicationTypeCorrect ==
    ASSUME NEW Frames, Frames \subseteq CanFrame
    PROVE  ApplicationSpec(Frames) => []ApplicationTypeOK
<1>1. ApplicationInv /\ CacheInv(Frames) => ApplicationTypeOK
    BY DEF ApplicationInv, CacheInv, SafetyInv, ReportIsTyped, ClocksAreTyped, ClockIsTyped,
           StampIsTyped, ApplicationTypeOK, HasValue
<1> QED
    BY <1>1, ApplicationInvHolds, CacheInvHolds, PTL

------------------------------------------------------------------------------
(* The two clocks judge a heartbeat alike. *)

WrappedDifference(now, then) == IF now - then >= 0 THEN now - then ELSE now - then + MonoMod

\* The difference of two times falls on the difference of their ticks.
LEMMA DifferenceShowsAge ==
    ASSUME NEW now \in Mono, NEW then \in Mono
    PROVE  WrappedDifference(now, then) % TickMod = TickAge(now % TickMod, then % TickMod)
<1> DEFINE a == now \div TickMod
           r == now % TickMod
           b == then \div TickMod
           s == then % TickMod
           turns == MonoMod \div TickMod
           d == WrappedDifference(now, then)
<1>1. now \in Int /\ then \in Int /\ MonoMod \in Int /\ MonoMod % TickMod = 0 /\ TickMod \in Nat
    BY MonoModAssumption, TickModAssumption DEF Mono
<1>2. /\ now = TickMod * a + r /\ a \in Int /\ r \in Tick
      /\ then = TickMod * b + s /\ b \in Int /\ s \in Tick
    BY <1>1, TickOfTime
<1>3. MonoMod = TickMod * turns /\ turns \in Int
    BY <1>1, TickOfTime
<1> HIDE DEF a, r, b, s, turns
<1>4. TickAge(r, s) \in Tick
    BY <1>2, TickAgeType
<1>5. PICK k \in {a - b, a - b - 1} : now - then = TickMod * k + TickAge(r, s)
    <2>1. /\ TickMod * (a - b) = TickMod * a - TickMod * b
          /\ TickMod * (a - b - 1) = TickMod * a - TickMod * b - TickMod
        BY <1>1, <1>2
    <2> QED
        BY <1>2, <2>1, TickModAssumption DEF TickAge, Tick
<1>6. k \in Int
    BY <1>2, <1>5
<1>7. PICK j \in {k, k + turns} : d = TickMod * j + TickAge(r, s)
    <2>1. TickMod * (k + turns) = TickMod * k + MonoMod
        BY <1>1, <1>3, <1>6
    <2> QED
        BY <1>1, <1>4, <1>5, <1>6, <2>1 DEF WrappedDifference, Tick
<1>8. j \in Int /\ d \in Int
    BY <1>1, <1>3, <1>6, <1>7 DEF WrappedDifference
<1>9. d % TickMod = TickAge(r, s)
    BY <1>4, <1>7, <1>8, TickIsRemainder, Zenon
<1> QED
    BY <1>9 DEF r, s

\* update has just judged by its own difference what the stamps say too.
LEMMA UpdateJudgesAlike ==
    ASSUME ApplicationInv, NEW t \in Tick, Update(t)
    PROVE  ClocksJudgeAlike'
<1> SUFFICES ASSUME has_heartbeat', ~fault_latched'
             PROVE  heartbeat_fresh' <=> StampedAge' % TickMod < HeartbeatTimeout
    BY DEF ClocksJudgeAlike
<1> USE DEF ApplicationInv
<1>1. /\ has_heartbeat /\ ~fault_latched /\ last_heartbeat_ms' = last_heartbeat_ms
      /\ heartbeat_received_at' = heartbeat_received_at /\ clock' = Advanced(t)
    BY DEF Update, SupervisorUpdate
<1>2. heartbeat_fresh' <=> TickAge(t, last_heartbeat_ms) < HeartbeatTimeout
    <2>1. HeartbeatTimedOut(t) \/ HeartbeatStillFresh(t)
        BY <1>1 DEF Update, SupervisorUpdate, LatchHolds, NoHeartbeatYet
    <2>2. TickAge(t, last_heartbeat_ms) \in Int /\ HeartbeatTimeout \in Int
        BY TickAgeType, HeartbeatTimeoutAssumption, TickModAssumption
        DEF SafetyInv, SafetyTypeOK, Tick
    <2> QED
        BY <2>1, <2>2 DEF HeartbeatTimedOut, HeartbeatStillFresh
<1>3. /\ heartbeat_received_at[1].monotonic_ms \in Mono
      /\ heartbeat_received_at[1].monotonic_ms % TickMod = last_heartbeat_ms
    BY <1>1
    DEF RecordsInvariant, HeartbeatRecordsAgree, ClocksAreTyped, StampIsTyped, ShowsItsTick,
        HalTickTimestamp
<1>4. clock'.monotonic_ms \in Mono /\ clock'.monotonic_ms % TickMod = t
    BY <1>1, AdvanceIsTyped DEF ClocksAreTyped, ClockIsTyped
<1>5. StampedAge' = WrappedDifference(clock'.monotonic_ms, heartbeat_received_at[1].monotonic_ms)
    BY <1>1 DEF StampedAge, WrappedDifference
<1>6. StampedAge' % TickMod = TickAge(t, last_heartbeat_ms)
    BY <1>3, <1>4, <1>5, DifferenceShowsAge
<1> QED
    BY <1>2, <1>6

(* Whatever ticks the caller passes, an update leaves the supervisor's       *)
(* verdict where the 64-bit stamps put it, up to full turns of the tick.     *)
THEOREM UpdateAlwaysJudgesAlike ==
    ASSUME NEW Frames
    PROVE  ApplicationSpec(Frames)
             => [][(\E t \in Tick : Update(t)) => ClocksJudgeAlike']_application_vars
<1>1. ApplicationInv
        => [(\E t \in Tick : Update(t)) => ClocksJudgeAlike']_application_vars
    BY UpdateJudgesAlike
<1> QED
    BY <1>1, ApplicationInvHolds, PTL DEF ApplicationSpec
==============================================================================
