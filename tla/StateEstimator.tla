---------------------------- MODULE StateEstimator ----------------------------
(***************************************************************************)
(* include/bldc/state_estimator.hpp: the complementary filter that fuses   *)
(* IMU samples, wheel odometry and VSLAM poses.  What is kept is which     *)
(* input is accepted, which timestamps it leaves behind, which validity    *)
(* flags it sets, and the yaw angle, which all of them share.  Angles are  *)
(* whole units, Turn of them in a circle; the gyro turns one unit per      *)
(* microsecond, so that the yaw shows the time that was integrated.  Roll, *)
(* pitch and the positions are left out: they are computed where the yaw   *)
(* is, from the same accepted inputs.                                      *)
(***************************************************************************)
EXTENDS Integers

CONSTANTS
    TimeMod,        \* the width of a timestamp, 2^64 in the code
    MaxTimestamp,   \* bound: the latest timestamp a sensor delivers
    MaximumDt,      \* config_.maximum_dt_s
    Turn,           \* yaw units in 2 pi
    Speeds          \* wheel speeds

ASSUME EstimatorAssumption ==
    /\ TimeMod \in Nat /\ MaxTimestamp \in Nat /\ MaximumDt \in Nat \ {0}
    /\ Turn \in Nat \ {0}
    /\ MaxTimestamp + MaximumDt < TimeMod
    /\ 0 \in Speeds

VARIABLES
    initialized,
    last_imu_timestamp_us,
    imu_timestamp_us, imu_valid,        \* FusedState, as read by the caller
    vslam_timestamp_us, vslam_valid,
    yaw, forward_velocity,
    first_us,       \* auxiliary: timestamp of the sample that initialised
    offered_us,     \* auxiliary: timestamp of the last finite IMU sample offered
    corrected       \* auxiliary: a VSLAM pose was blended in since then

imu_vars == <<initialized, last_imu_timestamp_us, imu_timestamp_us, imu_valid>>
vslam_vars == <<vslam_timestamp_us, vslam_valid>>
vars == <<imu_vars, vslam_vars, yaw, forward_velocity,
          first_us, offered_us, corrected>>

Timestamp == 0 .. MaxTimestamp
Yaw == 0 .. Turn - 1

\* A FusedState{} and a timestamp of zero.
Init ==
    /\ initialized = FALSE
    /\ last_imu_timestamp_us = 0
    /\ imu_timestamp_us = 0 /\ imu_valid = FALSE
    /\ vslam_timestamp_us = 0 /\ vslam_valid = FALSE
    /\ yaw = 0
    /\ forward_velocity = 0
    /\ first_us = 0 /\ offered_us = 0 /\ corrected = FALSE

Reset ==
    /\ initialized' = FALSE
    /\ last_imu_timestamp_us' = 0
    /\ imu_timestamp_us' = 0 /\ imu_valid' = FALSE
    /\ vslam_timestamp_us' = 0 /\ vslam_valid' = FALSE
    /\ yaw' = 0
    /\ forward_velocity' = 0
    /\ first_us' = 0 /\ offered_us' = 0 /\ corrected' = FALSE

------------------------------------------------------------------------------
(* update_imu *)

\* A component is NaN or infinite.
RejectNonFiniteImu ==
    /\ imu_valid' = FALSE
    /\ UNCHANGED <<initialized, last_imu_timestamp_us, imu_timestamp_us, vslam_vars, yaw,
                   forward_velocity, first_us, offered_us, corrected>>

\* The first sample sets the attitude from gravity and the yaw to zero.
InitializeImu(timestamp_us) ==
    /\ ~initialized
    /\ initialized' = TRUE
    /\ last_imu_timestamp_us' = timestamp_us
    /\ imu_timestamp_us' = timestamp_us
    /\ imu_valid' = TRUE
    /\ yaw' = 0
    /\ first_us' = timestamp_us /\ offered_us' = timestamp_us /\ corrected' = FALSE
    /\ UNCHANGED <<vslam_vars, forward_velocity>>

\* Seeded defect: the distance of two timestamps, whichever comes first.
Elapsed_Absolute(timestamp_us) ==
    IF timestamp_us >= last_imu_timestamp_us THEN timestamp_us - last_imu_timestamp_us
    ELSE last_imu_timestamp_us - timestamp_us

\* The unsigned difference: a timestamp that went back is a huge step forward.
Elapsed(timestamp_us) == (timestamp_us - last_imu_timestamp_us) % TimeMod

StepIsUsable(timestamp_us) ==
    Elapsed(timestamp_us) > 0 /\ Elapsed(timestamp_us) <= MaximumDt

\* Seeded defect: a refused sample still moves the time the next one starts from.
RejectTimestep_Advances(timestamp_us) ==
    /\ initialized
    /\ ~StepIsUsable(timestamp_us)
    /\ imu_valid' = FALSE
    /\ offered_us' = timestamp_us
    /\ last_imu_timestamp_us' = timestamp_us
    /\ UNCHANGED <<initialized, imu_timestamp_us, vslam_vars, yaw, forward_velocity,
                   first_us, corrected>>

\* Too late, repeated or older: last_imu_timestamp_us_ stays where it was.
RejectTimestep(timestamp_us) ==
    /\ initialized
    /\ ~StepIsUsable(timestamp_us)
    /\ imu_valid' = FALSE
    /\ offered_us' = timestamp_us
    /\ UNCHANGED <<initialized, last_imu_timestamp_us, imu_timestamp_us, vslam_vars, yaw,
                   forward_velocity, first_us, corrected>>

\* Seeded defect: the published timestamp is that of the sample before.
IntegrateImu_OldStamp(timestamp_us) ==
    /\ initialized
    /\ StepIsUsable(timestamp_us)
    /\ yaw' = (yaw + Elapsed(timestamp_us)) % Turn
    /\ imu_timestamp_us' = last_imu_timestamp_us
    /\ last_imu_timestamp_us' = timestamp_us
    /\ imu_valid' = TRUE
    /\ offered_us' = timestamp_us
    /\ UNCHANGED <<initialized, vslam_vars, forward_velocity, first_us, corrected>>

\* Seeded defect: the yaw is not wrapped.
IntegrateImu_Unwrapped(timestamp_us) ==
    /\ initialized
    /\ StepIsUsable(timestamp_us)
    /\ yaw' = yaw + Elapsed(timestamp_us)
    /\ last_imu_timestamp_us' = timestamp_us
    /\ imu_timestamp_us' = timestamp_us
    /\ imu_valid' = TRUE
    /\ offered_us' = timestamp_us
    /\ UNCHANGED <<initialized, vslam_vars, forward_velocity, first_us, corrected>>

IntegrateImu(timestamp_us) ==
    /\ initialized
    /\ StepIsUsable(timestamp_us)
    /\ yaw' = (yaw + Elapsed(timestamp_us)) % Turn
    /\ last_imu_timestamp_us' = timestamp_us
    /\ imu_timestamp_us' = timestamp_us
    /\ imu_valid' = TRUE
    /\ offered_us' = timestamp_us
    /\ UNCHANGED <<initialized, vslam_vars, forward_velocity, first_us, corrected>>

UpdateImu(timestamp_us) ==
    \/ InitializeImu(timestamp_us)
    \/ RejectTimestep(timestamp_us)
    \/ IntegrateImu(timestamp_us)

------------------------------------------------------------------------------
\* Finite inputs and a positive geometry replace the velocity; no timestamp is
\* read.  Anything else changes nothing.
UpdateWheelOdometry(speed) ==
    /\ forward_velocity' = speed
    /\ UNCHANGED <<imu_vars, vslam_vars, yaw, first_us, offered_us, corrected>>

------------------------------------------------------------------------------
(* update_vslam *)

\* What update_vslam looks at: a NaN confidence is not below the minimum, and
\* is caught by the finite check.
Pose == [valid : BOOLEAN, confidence : {"low", "enough", "nan"}, finite : BOOLEAN]

PoseIsUsable(pose) ==
    /\ pose.valid
    /\ pose.confidence # "low"
    /\ pose.finite /\ pose.confidence # "nan"

RejectPose(pose) ==
    /\ ~PoseIsUsable(pose)
    /\ vslam_valid' = FALSE
    /\ UNCHANGED <<imu_vars, vslam_timestamp_us, yaw, forward_velocity, first_us,
                   offered_us, corrected>>

\* The yaw moves by vslam_yaw_weight times the way to the pose's yaw and is wrapped.
\* Nothing bounds that weight: where there is an error, the yaw may end anywhere.
BlendPose(pose, timestamp_us, pose_yaw) ==
    /\ PoseIsUsable(pose)
    /\ yaw' \in IF pose_yaw = yaw THEN {yaw} ELSE Yaw
    /\ vslam_timestamp_us' = timestamp_us
    /\ vslam_valid' = TRUE
    /\ corrected' = TRUE
    /\ UNCHANGED <<imu_vars, forward_velocity, first_us, offered_us>>

UpdateVslam(pose, timestamp_us, pose_yaw) ==
    RejectPose(pose) \/ BlendPose(pose, timestamp_us, pose_yaw)

------------------------------------------------------------------------------
Next ==
    \/ Reset
    \/ RejectNonFiniteImu
    \/ \E t \in Timestamp : UpdateImu(t)
    \/ \E s \in Speeds : UpdateWheelOdometry(s)
    \/ \E pose \in Pose, t \in Timestamp, y \in Yaw : UpdateVslam(pose, t, y)

Spec == Init /\ [][Next]_vars

------------------------------------------------------------------------------
(* Types: the yaw stays a wrapped angle however much is integrated. *)
TypeOK ==
    /\ initialized \in BOOLEAN
    /\ last_imu_timestamp_us \in Timestamp /\ imu_timestamp_us \in Timestamp
    /\ imu_valid \in BOOLEAN
    /\ vslam_timestamp_us \in Timestamp /\ vslam_valid \in BOOLEAN
    /\ yaw \in Yaw /\ forward_velocity \in Speeds
    /\ corrected \in BOOLEAN
    /\ first_us \in Timestamp /\ offered_us \in Timestamp

(* However samples are delayed, repeated or reordered, and whatever was     *)
(* refused in between, the yaw has integrated the time from the first       *)
(* sample to the last accepted one exactly once.                            *)
YawIntegratesElapsedTime ==
    initialized /\ ~corrected => yaw = (last_imu_timestamp_us - first_us) % Turn

(* A caller that finds imu_valid set reads the newest finite sample it ever *)
(* offered, not one before a refused one; and the published timestamp is    *)
(* always the one the next step will be measured from.                      *)
ValidMeansNewest ==
    /\ initialized => imu_timestamp_us = last_imu_timestamp_us
    /\ imu_valid => initialized /\ imu_timestamp_us = offered_us

(* The estimator never goes back in time: an accepted sample is newer than  *)
(* every sample accepted before it, unless the caller resets.               *)
ImuOrderIsKept ==
    [][last_imu_timestamp_us' >= last_imu_timestamp_us \/ Reset]_vars

\* A timestamp newer than all before it, and one step after the last one offered.
InStepWithTheOneBefore(t) ==
    initialized /\ last_imu_timestamp_us < t /\ offered_us < t /\ t <= offered_us + MaximumDt

(* What the comment in update_imu says: too long a gap refuses THIS         *)
(* integration.  It fails: the reference time does not move, so a sample    *)
(* newer than everything and in step with the one before it is refused      *)
(* again, and every later one, until a reset.                               *)
GapCostsOneSample ==
    [][\A t \in Timestamp : InStepWithTheOneBefore(t) /\ UpdateImu(t) => imu_valid']_vars

(* What the documents ask: an old pose is not mistaken for a new one.  It   *)
(* fails: update_vslam does not compare the timestamp with anything.        *)
PoseIsNewer ==
    [][vslam_timestamp_us' >= vslam_timestamp_us \/ Reset]_vars
==============================================================================
