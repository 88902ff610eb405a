----------------------------- MODULE KalmanFilter -----------------------------
(***************************************************************************)
(* include/bldc/kalman_filter.hpp: predict and update of the linear filter *)
(* and of the EKF, timed (the _at calls) and untimed, on one KalmanState.  *)
(* The matrices are kept as what the code's checks can tell of them: the   *)
(* estimate (x, P) of the state, and for each call the set of defects of   *)
(* its other arguments and the quality of what the arithmetic makes of     *)
(* them.  Which error a call returns is the first check that fires.        *)
(***************************************************************************)
EXTENDS Integers, Sequences, FiniteSets

CONSTANTS
    MaxTimestamp,    \* bound: the latest timestamp a caller passes
    MaxDefects       \* bound: how many defects one call has at once

ASSUME KalmanAssumption == MaxTimestamp \in Nat /\ MaxDefects \in Nat

VARIABLES
    estimate,                                    \* quality of x and P
    timestamp, has_timestamp, timestamp_phase,
    error,           \* what the last call returned
    predictions,     \* auxiliary: timed predicts accepted, by timestamp
    corrections      \* auxiliary: timed updates accepted, by timestamp

state_vars == <<estimate, timestamp, has_timestamp, timestamp_phase>>
vars == <<state_vars, error, predictions, corrections>>

Timestamp == 0 .. MaxTimestamp
TimestampPhase == {"none", "predicted", "updated"}
Quality == {"usable", "non_finite", "asymmetric", "indefinite"}

Defect ==
    {"model_non_finite", "Q_asymmetric", "Q_indefinite", "R_not_positive",
     "period_invalid", "input_non_finite", "dt_invalid", "dt_off_period",
     "callback_missing", "callback_false", "callback_non_finite",
     "jacobian_false", "jacobian_non_finite", "variance_not_positive"}

Call ==
    [timed : BOOLEAN, timestamp : Timestamp,
     defects : {d \in SUBSET Defect : Cardinality(d) <= MaxDefects},
     result : Quality \ {"asymmetric"}]    \* symmetrize comes before the check

\* A KalmanState{} whose x and P the caller has filled in.
Init ==
    /\ estimate \in Quality
    /\ timestamp = 0 /\ has_timestamp = FALSE /\ timestamp_phase = "none"
    /\ error = "none"
    /\ predictions = [t \in Timestamp |-> 0]
    /\ corrections = [t \in Timestamp |-> 0]

------------------------------------------------------------------------------
(* The checks.  Each is the sequence of errors its conditions deserve, in   *)
(* the order of the code, and the call returns the first.                   *)

When(condition, call_error) == IF condition THEN <<call_error>> ELSE << >>

\* The common part of validate_linear_inputs and validate_ekf_inputs.
ModelChecks(call) ==
    When("model_non_finite" \in call.defects \/ estimate = "non_finite", "non_finite_input")
    \o When("Q_asymmetric" \in call.defects \/ estimate = "asymmetric",
            "non_symmetric_covariance")
    \o When("Q_indefinite" \in call.defects \/ estimate = "indefinite",
            "invalid_covariance")
    \o When("R_not_positive" \in call.defects, "invalid_measurement_noise")

LinearChecks(call) ==
    ModelChecks(call) \o When("period_invalid" \in call.defects, "invalid_dt")

\* A NaN control input or measurement.
InputCheck(call) == When("input_non_finite" \in call.defects, "non_finite_input")

DtChecks(call) ==
    When({"dt_invalid", "period_invalid"} \cap call.defects # {}, "invalid_dt")
    \o When("dt_off_period" \in call.defects, "sample_period_mismatch")

ModeCheck(call) == When(has_timestamp /\ ~call.timed, "timestamp_required")

\* Seeded defect: an epoch that was never updated may be predicted over.
PredictTimeCheck_AnyPhase(call) ==
    When(call.timed /\ has_timestamp /\ call.timestamp <= timestamp,
         "non_monotonic_timestamp")

PredictTimeCheck(call) ==
    When(call.timed /\ has_timestamp
           /\ (timestamp_phase # "updated" \/ call.timestamp <= timestamp),
         "non_monotonic_timestamp")

UpdateTimeCheck(call) ==
    When(call.timed /\ ~(has_timestamp /\ timestamp_phase = "predicted"
                           /\ call.timestamp = timestamp),
         "non_monotonic_timestamp")

CallbackMissing(call) == When("callback_missing" \in call.defects, "callback_failure")

\* The function first, then its Jacobian.
CallbackChecks(call) ==
    When("callback_false" \in call.defects, "callback_failure")
    \o When("callback_non_finite" \in call.defects, "non_finite_callback_result")
    \o When("jacobian_false" \in call.defects, "callback_failure")
    \o When("jacobian_non_finite" \in call.defects, "non_finite_callback_result")

\* Seeded defect: the covariance of the result is not validated.
ResultCheck_FiniteOnly(call) == When(call.result = "non_finite", "non_finite_result")

ResultCheck(call) == When(call.result # "usable", "non_finite_result")

InnovationCheck(call) ==
    When("variance_not_positive" \in call.defects, "singular_innovation")

------------------------------------------------------------------------------
(* The calls.  A call that fails leaves the state as it was. *)

Refuse(errors) ==
    /\ errors # << >>
    /\ error' = Head(errors)
    /\ UNCHANGED <<state_vars, predictions, corrections>>

\* Seeded defect: the timestamp is stored, and the phase is not.
StoreTimestamp_KeepsPhase(call, phase) ==
    IF call.timed
    THEN /\ timestamp' = call.timestamp
         /\ has_timestamp' = TRUE
         /\ UNCHANGED timestamp_phase
    ELSE UNCHANGED <<timestamp, has_timestamp, timestamp_phase>>

StoreTimestamp(call, phase) ==
    IF call.timed
    THEN /\ timestamp' = call.timestamp
         /\ has_timestamp' = TRUE
         /\ timestamp_phase' = phase
    ELSE UNCHANGED <<timestamp, has_timestamp, timestamp_phase>>

Count(ledger, call) ==
    IF call.timed THEN [ledger EXCEPT ![call.timestamp] = @ + 1] ELSE ledger

AcceptPredict(errors, call) ==
    /\ errors = << >>
    /\ error' = "none"
    /\ estimate' = call.result
    /\ StoreTimestamp(call, "predicted")
    /\ predictions' = Count(predictions, call)
    /\ UNCHANGED corrections

AcceptUpdate(errors, call) ==
    /\ errors = << >>
    /\ error' = "none"
    /\ estimate' = call.result
    /\ StoreTimestamp(call, "updated")
    /\ corrections' = Count(corrections, call)
    /\ UNCHANGED predictions

PredictErrors(call) ==
    ModeCheck(call) \o LinearChecks(call) \o InputCheck(call) \o DtChecks(call)
    \o PredictTimeCheck(call) \o ResultCheck(call)

UpdateErrors(call) ==
    ModeCheck(call) \o LinearChecks(call) \o InputCheck(call)
    \o UpdateTimeCheck(call) \o InnovationCheck(call) \o ResultCheck(call)

EkfPredictErrors(call) ==
    ModeCheck(call) \o ModelChecks(call) \o CallbackMissing(call) \o DtChecks(call)
    \o PredictTimeCheck(call) \o InputCheck(call) \o CallbackChecks(call)
    \o ResultCheck(call)

EkfUpdateErrors(call) ==
    ModeCheck(call) \o ModelChecks(call) \o CallbackMissing(call) \o InputCheck(call)
    \o UpdateTimeCheck(call) \o CallbackChecks(call) \o InnovationCheck(call)
    \o ResultCheck(call)

Predict(call) == Refuse(PredictErrors(call)) \/ AcceptPredict(PredictErrors(call), call)
Update(call) == Refuse(UpdateErrors(call)) \/ AcceptUpdate(UpdateErrors(call), call)
EkfPredict(call) ==
    Refuse(EkfPredictErrors(call)) \/ AcceptPredict(EkfPredictErrors(call), call)
EkfUpdate(call) ==
    Refuse(EkfUpdateErrors(call)) \/ AcceptUpdate(EkfUpdateErrors(call), call)

Next == \E call \in Call : Predict(call) \/ Update(call) \/ EkfPredict(call) \/ EkfUpdate(call)

Spec == Init /\ [][Next]_vars

------------------------------------------------------------------------------
KalmanError ==
    {"none", "non_finite_input", "non_symmetric_covariance", "invalid_covariance",
     "invalid_measurement_noise", "invalid_dt", "sample_period_mismatch",
     "non_monotonic_timestamp", "timestamp_required", "singular_innovation",
     "callback_failure", "non_finite_callback_result", "non_finite_result"}

(* Types, and of KalmanState: has_timestamp and timestamp_phase are always
   set by the same step. *)
TypeOK ==
    /\ estimate \in Quality
    /\ timestamp \in Timestamp /\ has_timestamp \in BOOLEAN
    /\ timestamp_phase \in TimestampPhase
    /\ has_timestamp <=> timestamp_phase # "none"
    /\ error \in KalmanError
    /\ predictions \in [Timestamp -> Nat] /\ corrections \in [Timestamp -> Nat]

(* However timed calls are repeated, reordered, delayed or refused, and     *)
(* whichever of the two filters takes them, every epoch is predicted and    *)
(* corrected at most once, no measurement lands in an epoch it was not      *)
(* taken for, and no epoch but the current one is left without its update.  *)
EpochsArePaired ==
    \A t \in Timestamp :
        /\ predictions[t] <= 1
        /\ predictions[t] = 1 => has_timestamp /\ t <= timestamp
        /\ corrections[t] = IF has_timestamp /\ t = timestamp /\ timestamp_phase = "predicted"
                            THEN 0 ELSE predictions[t]

(* No accepted step ends in an estimate the next call would refuse: a       *)
(* usable x and P stay usable whatever the arithmetic and callbacks return, *)
(* in timed and untimed calls of either filter.                             *)
UsableIsKept == [][estimate = "usable" => estimate' = "usable"]_vars
==============================================================================
