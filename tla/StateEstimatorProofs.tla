-------------------------- MODULE StateEstimatorProofs --------------------------
(***************************************************************************)
(* Theorems about StateEstimator, for every width of a timestamp, every    *)
(* maximum step, every unit of angle and every order of calls.             *)
(***************************************************************************)
EXTENDS StateEstimator, TLAPS

------------------------------------------------------------------------------
(* The remainder of a division by a positive number.  The widths are        *)
(* parameters, so the provers have to be told what they know of a literal.  *)

(* A quotient and a remainder in range are unique. *)
LEMMA RemainderIsUnique ==
    ASSUME NEW m \in Nat \ {0}, NEW q \in Int, NEW p \in Int,
           NEW r \in 0 .. m - 1, NEW s \in 0 .. m - 1, m * q + r = m * p + s
    PROVE  r = s
<1>1. m * q - m * p = m * (q - p)
    OBVIOUS
<1>2. CASE q - p >= 1
    <2>1. m * (q - p) >= m
        BY <1>2
    <2> QED
        BY <2>1, <1>1
<1>3. CASE q - p <= -1
    <2>1. m * (q - p) <= -m
        BY <1>3
    <2> QED
        BY <2>1, <1>1
<1>4. CASE q = p
    BY <1>4
<1> QED
    BY <1>2, <1>3, <1>4

(* Division leaves a remainder below the divisor. *)
LEMMA DivisionHolds ==
    ASSUME NEW m \in Nat \ {0}, NEW a \in Int
    PROVE  /\ a = m * (a \div m) + (a % m)
           /\ a \div m \in Int
           /\ a % m \in 0 .. m - 1
OBVIOUS

(* A number that is in range already is its own remainder. *)
LEMMA RemainderOfSmall ==
    ASSUME NEW m \in Nat \ {0}, NEW a \in 0 .. m - 1
    PROVE  a % m = a
<1> DEFINE q == a \div m
           r == a % m
<1>1. m * q + r = m * 0 + a /\ q \in Int /\ r \in 0 .. m - 1
    BY DivisionHolds
<1>2. r = a
    <2> HIDE DEF q, r
    <2> QED
        BY <1>1, RemainderIsUnique
<1> QED
    BY <1>2

(* Adding the divisor changes no remainder. *)
LEMMA RemainderOfShifted ==
    ASSUME NEW m \in Nat \ {0}, NEW a \in Int, a + m \in 0 .. m - 1
    PROVE  a % m = a + m
<1> DEFINE q == a \div m
           r == a % m
<1>1. m * q + r = m * (-1) + (a + m) /\ q \in Int /\ r \in 0 .. m - 1
    BY DivisionHolds
<1>2. r = a + m
    <2> HIDE DEF q, r
    <2> QED
        BY <1>1, RemainderIsUnique
<1> QED
    BY <1>2

(* Wrapping in between does not change a wrapped sum. *)
LEMMA RemainderOfSum ==
    ASSUME NEW m \in Nat \ {0}, NEW a \in Int, NEW b \in Int
    PROVE  ((a % m) + b) % m = (a + b) % m
<1> DEFINE q == a \div m
           r == a % m
           p == (r + b) \div m
           s == (r + b) % m
           u == (a + b) \div m
           t == (a + b) % m
<1>1. a = m * q + r /\ q \in Int /\ r \in 0 .. m - 1
    BY DivisionHolds
<1>2. r + b \in Int /\ a + b \in Int
    BY <1>1
<1>3. r + b = m * p + s /\ p \in Int /\ s \in 0 .. m - 1
    BY <1>2, DivisionHolds
<1>4. a + b = m * u + t /\ u \in Int /\ t \in 0 .. m - 1
    BY <1>2, DivisionHolds
<1>5. s = t
    <2> HIDE DEF q, r, p, s, u, t
    <2>1. m * q + m * p = m * (q + p) /\ q + p \in Int
        BY <1>1, <1>3
    <2>2. m * (q + p) + s = m * u + t
        BY <2>1, <1>1, <1>3, <1>4
    <2> QED
        BY <2>1, <2>2, <1>3, <1>4, RemainderIsUnique
<1> QED
    BY <1>5

------------------------------------------------------------------------------
(* The unsigned difference of two timestamps is a usable step only when it *)
(* is the true one: a timestamp that went back wraps to a step too long.   *)
LEMMA UsableStepIsForward ==
    ASSUME NEW t \in Timestamp, last_imu_timestamp_us \in Timestamp, StepIsUsable(t)
    PROVE  t > last_imu_timestamp_us /\ Elapsed(t) = t - last_imu_timestamp_us
<1> USE EstimatorAssumption DEF Timestamp
<1>1. CASE t >= last_imu_timestamp_us
    <2>1. t - last_imu_timestamp_us \in 0 .. TimeMod - 1 /\ TimeMod \in Nat \ {0}
        BY <1>1
    <2>2. Elapsed(t) = t - last_imu_timestamp_us
        BY <2>1, RemainderOfSmall DEF Elapsed
    <2> QED
        BY <2>2 DEF StepIsUsable
<1>2. CASE t < last_imu_timestamp_us
    <2>1. /\ t - last_imu_timestamp_us \in Int /\ TimeMod \in Nat \ {0}
          /\ t - last_imu_timestamp_us + TimeMod \in 0 .. TimeMod - 1
        BY <1>2
    <2>2. Elapsed(t) = t - last_imu_timestamp_us + TimeMod
        BY <2>1, RemainderOfShifted DEF Elapsed
    <2>3. Elapsed(t) > MaximumDt
        BY <2>2
    <2> QED
        BY <2>2, <2>3 DEF StepIsUsable
<1> QED
    BY <1>1, <1>2

------------------------------------------------------------------------------
(* Without a first sample no timestamp is kept: with TypeOK and the two     *)
(* properties this is inductive.                                            *)
NoSampleNoStamp == ~initialized => last_imu_timestamp_us = 0

EstimatorInvariant ==
    TypeOK /\ YawIntegratesElapsedTime /\ ValidMeansNewest /\ NoSampleNoStamp

LEMMA ZeroIsInRange == 0 \in Timestamp /\ 0 \in Yaw /\ 0 \in Speeds
BY EstimatorAssumption DEF Timestamp, Yaw

LEMMA InitHolds == Init => EstimatorInvariant
<1> SUFFICES ASSUME Init PROVE EstimatorInvariant
    OBVIOUS
<1>1. TypeOK
    BY ZeroIsInRange DEF Init, TypeOK
<1>2. YawIntegratesElapsedTime /\ ValidMeansNewest /\ NoSampleNoStamp
    BY DEF Init, YawIntegratesElapsedTime, ValidMeansNewest, NoSampleNoStamp
<1> QED
    BY <1>1, <1>2 DEF EstimatorInvariant

(* An integrated sample: the only step that adds to the yaw. *)
LEMMA IntegrationHolds ==
    ASSUME EstimatorInvariant, NEW t \in Timestamp, IntegrateImu(t)
    PROVE  EstimatorInvariant'
<1> USE DEF EstimatorInvariant
<1>1. t > last_imu_timestamp_us /\ Elapsed(t) = t - last_imu_timestamp_us
    BY UsableStepIsForward DEF IntegrateImu, TypeOK
<1>2. yaw + Elapsed(t) \in Int /\ Turn \in Nat \ {0}
    BY <1>1, EstimatorAssumption DEF TypeOK, Yaw, Timestamp
<1>3. TypeOK'
    <2>1. yaw' \in Yaw
        BY <1>2, DivisionHolds DEF IntegrateImu, Yaw
    <2> QED
        BY <2>1 DEF IntegrateImu, TypeOK, vslam_vars
<1>4. YawIntegratesElapsedTime'
    <2> SUFFICES ASSUME initialized', ~corrected'
                 PROVE  yaw' = (last_imu_timestamp_us' - first_us') % Turn
        BY DEF YawIntegratesElapsedTime
    <2> DEFINE before == last_imu_timestamp_us - first_us
               step == t - last_imu_timestamp_us
    <2>1. yaw = before % Turn
        BY DEF IntegrateImu, YawIntegratesElapsedTime
    <2>2. before \in Int /\ step \in Int /\ before + step = t - first_us
        BY DEF TypeOK, Timestamp
    <2>3. yaw' = ((before % Turn) + step) % Turn
        BY <1>1, <2>1 DEF IntegrateImu
    <2>4. yaw' = (before + step) % Turn
        <3> HIDE DEF before, step
        <3> QED
            BY <2>2, <2>3, <1>2, RemainderOfSum
    <2> QED
        BY <2>2, <2>4 DEF IntegrateImu
<1>5. ValidMeansNewest' /\ NoSampleNoStamp'
    BY DEF IntegrateImu, ValidMeansNewest, NoSampleNoStamp
<1> QED
    BY <1>3, <1>4, <1>5

LEMMA NextHolds == EstimatorInvariant /\ [Next]_vars => EstimatorInvariant'
<1> SUFFICES ASSUME EstimatorInvariant, [Next]_vars PROVE EstimatorInvariant'
    OBVIOUS
<1> USE DEF EstimatorInvariant
<1>1. CASE Reset
    <2>1. TypeOK'
        BY <1>1, ZeroIsInRange DEF Reset, TypeOK
    <2>2. YawIntegratesElapsedTime' /\ ValidMeansNewest' /\ NoSampleNoStamp'
        BY <1>1 DEF Reset, YawIntegratesElapsedTime, ValidMeansNewest, NoSampleNoStamp
    <2> QED
        BY <2>1, <2>2
<1>2. CASE RejectNonFiniteImu
    BY <1>2
    DEF RejectNonFiniteImu, TypeOK, YawIntegratesElapsedTime, ValidMeansNewest,
        NoSampleNoStamp, vslam_vars
<1>3. ASSUME NEW t \in Timestamp, UpdateImu(t) PROVE EstimatorInvariant'
    <2>1. CASE InitializeImu(t)
        <3>1. TypeOK'
            BY <2>1, ZeroIsInRange DEF InitializeImu, TypeOK, vslam_vars
        <3>2. ValidMeansNewest' /\ NoSampleNoStamp'
            BY <2>1 DEF InitializeImu, ValidMeansNewest, NoSampleNoStamp
        <3>3. last_imu_timestamp_us' - first_us' = 0
            BY <2>1 DEF InitializeImu, Timestamp
        <3>4. 0 % Turn = 0
            BY EstimatorAssumption, RemainderOfSmall
        <3> QED
            BY <2>1, <3>1, <3>2, <3>3, <3>4 DEF InitializeImu, YawIntegratesElapsedTime
    <2>2. CASE RejectTimestep(t)
        BY <2>2
        DEF RejectTimestep, TypeOK, YawIntegratesElapsedTime, ValidMeansNewest,
            NoSampleNoStamp, vslam_vars
    <2>3. CASE IntegrateImu(t)
        BY <2>3, IntegrationHolds
    <2> QED
        BY <1>3, <2>1, <2>2, <2>3 DEF UpdateImu
<1>4. ASSUME NEW s \in Speeds, UpdateWheelOdometry(s) PROVE EstimatorInvariant'
    BY <1>4
    DEF UpdateWheelOdometry, TypeOK, YawIntegratesElapsedTime, ValidMeansNewest,
        NoSampleNoStamp, imu_vars, vslam_vars
<1>5. ASSUME NEW pose \in Pose, NEW t \in Timestamp, NEW y \in Yaw, UpdateVslam(pose, t, y)
      PROVE  EstimatorInvariant'
    <2>1. CASE RejectPose(pose)
        BY <2>1
        DEF RejectPose, TypeOK, YawIntegratesElapsedTime, ValidMeansNewest,
            NoSampleNoStamp, imu_vars
    <2>2. CASE BlendPose(pose, t, y)
        <3>1. yaw' \in Yaw
            BY <2>2 DEF BlendPose, TypeOK
        <3>2. /\ UNCHANGED <<imu_vars, forward_velocity, first_us, offered_us>>
              /\ vslam_timestamp_us' = t /\ vslam_valid' = TRUE /\ corrected' = TRUE
            BY <2>2 DEF BlendPose
        <3> QED
            BY <3>1, <3>2
            DEF TypeOK, YawIntegratesElapsedTime, ValidMeansNewest, NoSampleNoStamp, imu_vars
    <2> QED
        BY <1>5, <2>1, <2>2 DEF UpdateVslam
<1>6. CASE UNCHANGED vars
    BY <1>6
    DEF vars, imu_vars, vslam_vars, TypeOK, YawIntegratesElapsedTime, ValidMeansNewest,
        NoSampleNoStamp
<1> QED
    BY <1>1, <1>2, <1>3, <1>4, <1>5, <1>6 DEF Next

LEMMA InvariantHolds == Spec => []EstimatorInvariant
BY InitHolds, NextHolds, PTL DEF Spec

------------------------------------------------------------------------------
(* The yaw stays a wrapped angle, whatever is integrated and blended. *)
THEOREM EstimatorTypeCorrect == Spec => []TypeOK
<1>1. EstimatorInvariant => TypeOK
    BY DEF EstimatorInvariant
<1> QED
    BY <1>1, InvariantHolds, PTL

(* Time is integrated exactly once, whatever update_imu refused in between. *)
THEOREM YawAlwaysIntegratesElapsedTime == Spec => []YawIntegratesElapsedTime
<1>1. EstimatorInvariant => YawIntegratesElapsedTime
    BY DEF EstimatorInvariant
<1> QED
    BY <1>1, InvariantHolds, PTL

(* imu_valid vouches for the newest sample that was offered. *)
THEOREM ValidAlwaysMeansNewest == Spec => []ValidMeansNewest
<1>1. EstimatorInvariant => ValidMeansNewest
    BY DEF EstimatorInvariant
<1> QED
    BY <1>1, InvariantHolds, PTL

(* The estimator never goes back in time: from the invariant, since a usable  *)
(* step is forward and the first sample finds a timestamp of zero.            *)
THEOREM ImuOrderIsAlwaysKept == Spec => ImuOrderIsKept
<1>1. EstimatorInvariant /\ [Next]_vars
          => [last_imu_timestamp_us' >= last_imu_timestamp_us \/ Reset]_vars
    <2> SUFFICES ASSUME EstimatorInvariant, Next, ~Reset
                 PROVE  last_imu_timestamp_us' >= last_imu_timestamp_us
        OBVIOUS
    <2> USE DEF EstimatorInvariant
    <2>1. last_imu_timestamp_us \in Timestamp
        BY DEF TypeOK
    <2>2. ASSUME NEW t \in Timestamp, UpdateImu(t)
          PROVE  last_imu_timestamp_us' >= last_imu_timestamp_us
        <3>1. CASE InitializeImu(t)
            BY <3>1 DEF InitializeImu, NoSampleNoStamp, Timestamp
        <3>2. CASE RejectTimestep(t)
            BY <3>2, <2>1 DEF RejectTimestep, Timestamp
        <3>3. CASE IntegrateImu(t)
            <4>1. t > last_imu_timestamp_us
                BY <3>3, <2>1, UsableStepIsForward DEF IntegrateImu
            <4> QED
                BY <3>3, <4>1, <2>1 DEF IntegrateImu, Timestamp
        <3> QED
            BY <2>2, <3>1, <3>2, <3>3 DEF UpdateImu
    <2>3. CASE UNCHANGED last_imu_timestamp_us
        BY <2>1, <2>3 DEF Timestamp
    <2> QED
        BY <2>2, <2>3
        DEF Next, RejectNonFiniteImu, UpdateWheelOdometry, UpdateVslam, RejectPose,
            BlendPose, imu_vars
<1> QED
    BY <1>1, InvariantHolds, PTL DEF Spec, ImuOrderIsKept

------------------------------------------------------------------------------
(* The reach of one integration. *)

(* Once initialised, the estimator advances by steps of at most MaximumDt and in no      *)
(* other way: a sample later than that is refused, and so is every one after it, however *)
(* regularly they come, until the caller resets.                                         *)
GapIsNeverBridged ==
    [][initialized /\ ~Reset /\ last_imu_timestamp_us' # last_imu_timestamp_us =>
         /\ last_imu_timestamp_us < last_imu_timestamp_us'
         /\ last_imu_timestamp_us' <= last_imu_timestamp_us + MaximumDt]_vars

(* What lies behind the violation of GapCostsOneSample, for every timestamp and step. *)
THEOREM GapsAreNeverBridged == Spec => GapIsNeverBridged
<1>1. EstimatorInvariant /\ [Next]_vars
          => [initialized /\ ~Reset /\ last_imu_timestamp_us' # last_imu_timestamp_us =>
                /\ last_imu_timestamp_us < last_imu_timestamp_us'
                /\ last_imu_timestamp_us' <= last_imu_timestamp_us + MaximumDt]_vars
    <2> SUFFICES ASSUME EstimatorInvariant, Next, initialized, ~Reset,
                        last_imu_timestamp_us' # last_imu_timestamp_us
                 PROVE  /\ last_imu_timestamp_us < last_imu_timestamp_us'
                        /\ last_imu_timestamp_us' <= last_imu_timestamp_us + MaximumDt
        OBVIOUS
    <2>1. PICK t \in Timestamp : UpdateImu(t)
        BY DEF Next, RejectNonFiniteImu, UpdateWheelOdometry, UpdateVslam, RejectPose,
               BlendPose, imu_vars
    <2>2. IntegrateImu(t)
        BY <2>1 DEF UpdateImu, InitializeImu, RejectTimestep
    <2>3. last_imu_timestamp_us \in Timestamp
        BY DEF EstimatorInvariant, TypeOK
    <2>4. StepIsUsable(t) /\ last_imu_timestamp_us' = t
        BY <2>2 DEF IntegrateImu
    <2>5. t > last_imu_timestamp_us /\ t - last_imu_timestamp_us <= MaximumDt
        BY <2>3, <2>4, UsableStepIsForward DEF StepIsUsable
    <2> QED
        BY <2>3, <2>4, <2>5, EstimatorAssumption DEF Timestamp
<1> QED
    BY <1>1, InvariantHolds, PTL DEF Spec, GapIsNeverBridged
==============================================================================
