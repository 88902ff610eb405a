--------------------------- MODULE KalmanFilterProofs ---------------------------
(***************************************************************************)
(* Theorems about KalmanFilter, for every set of timestamps and any number *)
(* of defects in one call.                                                 *)
(***************************************************************************)
EXTENDS KalmanFilter, TLAPS

------------------------------------------------------------------------------
(* Sequences of errors. *)

Failure == KalmanError \ {"none"}

(* Errors one after the other are none only when neither part has any. *)
LEMMA ConcatenationIsEmpty ==
    ASSUME NEW first \in Seq(Failure), NEW second \in Seq(Failure)
    PROVE  /\ first \o second \in Seq(Failure)
           /\ first \o second = << >> => first = << >> /\ second = << >>
<1>1. first \o second \in Seq(Failure) /\ Len(first \o second) = Len(first) + Len(second)
    OBVIOUS
<1>2. ASSUME first \o second = << >> PROVE first = << >> /\ second = << >>
    <2>1. Len(first) + Len(second) = 0
        BY <1>1, <1>2
    <2>2. Len(first) = 0 /\ Len(second) = 0
        BY <2>1
    <2> QED
        BY <2>2
<1> QED
    BY <1>1, <1>2

(* A condition contributes an error exactly when it holds. *)
LEMMA WhenFails ==
    ASSUME NEW condition, NEW call_error \in Failure
    PROVE  /\ When(condition, call_error) \in Seq(Failure)
           /\ When(condition, call_error) = << >> <=> ~condition
BY DEF When

(* The checks of a call return failures and nothing else, "none" least of all. *)
LEMMA ChecksFail ==
    ASSUME NEW call \in Call
    PROVE  /\ ModelChecks(call) \in Seq(Failure) /\ LinearChecks(call) \in Seq(Failure)
           /\ InputCheck(call) \in Seq(Failure) /\ DtChecks(call) \in Seq(Failure)
           /\ ModeCheck(call) \in Seq(Failure)
           /\ PredictTimeCheck(call) \in Seq(Failure)
           /\ UpdateTimeCheck(call) \in Seq(Failure)
           /\ CallbackMissing(call) \in Seq(Failure) /\ CallbackChecks(call) \in Seq(Failure)
           /\ ResultCheck(call) \in Seq(Failure) /\ InnovationCheck(call) \in Seq(Failure)
<1>1. /\ "non_finite_input" \in Failure /\ "non_symmetric_covariance" \in Failure
      /\ "invalid_covariance" \in Failure /\ "invalid_measurement_noise" \in Failure
      /\ "invalid_dt" \in Failure /\ "sample_period_mismatch" \in Failure
      /\ "non_monotonic_timestamp" \in Failure /\ "timestamp_required" \in Failure
      /\ "singular_innovation" \in Failure /\ "callback_failure" \in Failure
      /\ "non_finite_callback_result" \in Failure /\ "non_finite_result" \in Failure
    BY DEF Failure, KalmanError
<1>2. ModelChecks(call) \in Seq(Failure)
    BY <1>1, WhenFails, ConcatenationIsEmpty DEF ModelChecks
<1>3. LinearChecks(call) \in Seq(Failure)
    BY <1>1, <1>2, WhenFails, ConcatenationIsEmpty DEF LinearChecks
<1>4. InputCheck(call) \in Seq(Failure) /\ DtChecks(call) \in Seq(Failure)
    BY <1>1, WhenFails, ConcatenationIsEmpty DEF InputCheck, DtChecks
<1>5. /\ PredictTimeCheck(call) \in Seq(Failure) /\ UpdateTimeCheck(call) \in Seq(Failure)
      /\ ModeCheck(call) \in Seq(Failure)
    BY <1>1, WhenFails DEF PredictTimeCheck, UpdateTimeCheck, ModeCheck
<1>6. CallbackMissing(call) \in Seq(Failure) /\ CallbackChecks(call) \in Seq(Failure)
    BY <1>1, WhenFails, ConcatenationIsEmpty DEF CallbackMissing, CallbackChecks
<1>7. ResultCheck(call) \in Seq(Failure) /\ InnovationCheck(call) \in Seq(Failure)
    BY <1>1, WhenFails DEF ResultCheck, InnovationCheck
<1> QED
    BY <1>2, <1>3, <1>4, <1>5, <1>6, <1>7

------------------------------------------------------------------------------
(* What every predict, and every update, has established when it is accepted. *)

PredictGuard(call) ==
    /\ has_timestamp => call.timed
    /\ call.timed /\ has_timestamp
          => timestamp_phase = "updated" /\ ~(call.timestamp <= timestamp)
    /\ call.result = "usable"

UpdateGuard(call) ==
    /\ has_timestamp => call.timed
    /\ call.timed => /\ has_timestamp /\ timestamp_phase = "predicted"
                     /\ call.timestamp = timestamp
    /\ call.result = "usable"

(* Three of the checks are shared by the two filters, and they are enough. *)
LEMMA ChecksGuard ==
    ASSUME NEW call \in Call
    PROVE  /\ ModeCheck(call) = << >> => (has_timestamp => call.timed)
           /\ PredictTimeCheck(call) = << >>
                => (call.timed /\ has_timestamp
                      => timestamp_phase = "updated" /\ ~(call.timestamp <= timestamp))
           /\ UpdateTimeCheck(call) = << >>
                => (call.timed => /\ has_timestamp /\ timestamp_phase = "predicted"
                                  /\ call.timestamp = timestamp)
           /\ ResultCheck(call) = << >> => call.result = "usable"
BY DEF When, ModeCheck, PredictTimeCheck, UpdateTimeCheck, ResultCheck

(* The four calls: their errors are failures, and without one the guard holds. *)
LEMMA PredictErrorsGuard ==
    ASSUME NEW call \in Call
    PROVE  /\ PredictErrors(call) \in Seq(Failure)
           /\ PredictErrors(call) = << >> => PredictGuard(call)
<1>1. /\ PredictErrors(call) \in Seq(Failure)
      /\ PredictErrors(call) = << >>
           => /\ ModeCheck(call) = << >> /\ PredictTimeCheck(call) = << >>
              /\ ResultCheck(call) = << >>
    BY ChecksFail, ConcatenationIsEmpty DEF PredictErrors
<1> QED
    BY <1>1, ChecksGuard DEF PredictGuard

LEMMA UpdateErrorsGuard ==
    ASSUME NEW call \in Call
    PROVE  /\ UpdateErrors(call) \in Seq(Failure)
           /\ UpdateErrors(call) = << >> => UpdateGuard(call)
<1>1. /\ UpdateErrors(call) \in Seq(Failure)
      /\ UpdateErrors(call) = << >>
           => /\ ModeCheck(call) = << >> /\ UpdateTimeCheck(call) = << >>
              /\ ResultCheck(call) = << >>
    BY ChecksFail, ConcatenationIsEmpty DEF UpdateErrors
<1> QED
    BY <1>1, ChecksGuard DEF UpdateGuard

LEMMA EkfPredictErrorsGuard ==
    ASSUME NEW call \in Call
    PROVE  /\ EkfPredictErrors(call) \in Seq(Failure)
           /\ EkfPredictErrors(call) = << >> => PredictGuard(call)
<1>1. /\ EkfPredictErrors(call) \in Seq(Failure)
      /\ EkfPredictErrors(call) = << >>
           => /\ ModeCheck(call) = << >> /\ PredictTimeCheck(call) = << >>
              /\ ResultCheck(call) = << >>
    BY ChecksFail, ConcatenationIsEmpty DEF EkfPredictErrors
<1> QED
    BY <1>1, ChecksGuard DEF PredictGuard

LEMMA EkfUpdateErrorsGuard ==
    ASSUME NEW call \in Call
    PROVE  /\ EkfUpdateErrors(call) \in Seq(Failure)
           /\ EkfUpdateErrors(call) = << >> => UpdateGuard(call)
<1>1. /\ EkfUpdateErrors(call) \in Seq(Failure)
      /\ EkfUpdateErrors(call) = << >>
           => /\ ModeCheck(call) = << >> /\ UpdateTimeCheck(call) = << >>
              /\ ResultCheck(call) = << >>
    BY ChecksFail, ConcatenationIsEmpty DEF EkfUpdateErrors
<1> QED
    BY <1>1, ChecksGuard DEF UpdateGuard

(* Every call therefore refuses with a failure, or is accepted under a guard. *)
LEMMA CallsAreGuarded ==
    ASSUME NEW call \in Call,
           Predict(call) \/ Update(call) \/ EkfPredict(call) \/ EkfUpdate(call)
    PROVE  \/ error' \in Failure /\ UNCHANGED <<state_vars, predictions, corrections>>
           \/ PredictGuard(call) /\ AcceptPredict(<< >>, call)
           \/ UpdateGuard(call) /\ AcceptUpdate(<< >>, call)
<1>1. ASSUME NEW errors \in Seq(Failure), Refuse(errors)
      PROVE  error' \in Failure /\ UNCHANGED <<state_vars, predictions, corrections>>
    BY <1>1 DEF Refuse
<1>2. CASE Predict(call)
    BY <1>1, <1>2, PredictErrorsGuard DEF Predict, AcceptPredict
<1>3. CASE Update(call)
    BY <1>1, <1>3, UpdateErrorsGuard DEF Update, AcceptUpdate
<1>4. CASE EkfPredict(call)
    BY <1>1, <1>4, EkfPredictErrorsGuard DEF EkfPredict, AcceptPredict
<1>5. CASE EkfUpdate(call)
    BY <1>1, <1>5, EkfUpdateErrorsGuard DEF EkfUpdate, AcceptUpdate
<1> QED
    BY <1>2, <1>3, <1>4, <1>5

------------------------------------------------------------------------------
(* EpochsArePaired does not say that the epoch in progress was predicted, and *)
(* an update relies on it.                                                    *)
CurrentEpochIsPredicted == has_timestamp => predictions[timestamp] = 1

FilterInvariant == TypeOK /\ EpochsArePaired /\ CurrentEpochIsPredicted

LEMMA InitHolds == Init => FilterInvariant
<1> SUFFICES ASSUME Init PROVE FilterInvariant
    OBVIOUS
<1>1. TypeOK
    <2>1. 0 \in Timestamp
        BY KalmanAssumption DEF Timestamp
    <2>2. /\ timestamp \in Timestamp /\ has_timestamp \in BOOLEAN
          /\ timestamp_phase \in TimestampPhase
          /\ has_timestamp <=> timestamp_phase # "none"
          /\ error \in KalmanError
        BY <2>1 DEF Init, TimestampPhase, KalmanError
    <2>3. predictions \in [Timestamp -> Nat] /\ corrections \in [Timestamp -> Nat]
        BY DEF Init
    <2> QED
        BY <2>2, <2>3 DEF Init, TypeOK
<1>2. EpochsArePaired
    BY DEF Init, EpochsArePaired
<1>3. CurrentEpochIsPredicted
    BY DEF Init, CurrentEpochIsPredicted
<1> QED
    BY <1>1, <1>2, <1>3 DEF FilterInvariant

LEMMA CallFields ==
    ASSUME NEW call \in Call
    PROVE  /\ call.timed \in BOOLEAN /\ call.timestamp \in Timestamp
           /\ call.result \in Quality
BY DEF Call

(* A call without a timestamp finds none stored, and stores none. *)
LEMMA UntimedHolds ==
    ASSUME FilterInvariant, NEW call \in Call, ~call.timed,
           AcceptPredict(<< >>, call) \/ AcceptUpdate(<< >>, call)
    PROVE  FilterInvariant'
<1>1. /\ UNCHANGED <<timestamp, has_timestamp, timestamp_phase, predictions, corrections>>
      /\ estimate' \in Quality /\ error' = "none"
    BY CallFields DEF AcceptPredict, AcceptUpdate, StoreTimestamp, Count
<1> QED
    BY <1>1
    DEF FilterInvariant, TypeOK, EpochsArePaired, CurrentEpochIsPredicted, KalmanError

(* A timed predict opens an epoch that no call has seen before. *)
LEMMA TimedPredictHolds ==
    ASSUME FilterInvariant, NEW call \in Call, call.timed,
           PredictGuard(call), AcceptPredict(<< >>, call)
    PROVE  FilterInvariant'
<1> DEFINE now == call.timestamp
<1> USE DEF FilterInvariant
<1>1. /\ timestamp' = now /\ has_timestamp' = TRUE /\ timestamp_phase' = "predicted"
      /\ predictions' = [predictions EXCEPT ![now] = @ + 1] /\ corrections' = corrections
      /\ estimate' \in Quality /\ error' = "none" /\ now \in Timestamp
    BY CallFields DEF AcceptPredict, StoreTimestamp, Count
<1>2. predictions[now] = 0 /\ corrections[now] = 0
    <2>1. predictions[now] \in Nat /\ predictions[now] <= 1
        BY <1>1 DEF TypeOK, EpochsArePaired
    <2>2. predictions[now] # 1
        BY <1>1 DEF PredictGuard, EpochsArePaired
    <2>3. predictions[now] = 0
        BY <2>1, <2>2
    <2> QED
        BY <1>1, <2>3 DEF EpochsArePaired
<1>3. TypeOK'
    BY <1>1 DEF TypeOK, TimestampPhase, KalmanError
<1>4. predictions' \in [Timestamp -> Nat] /\ predictions'[now] = 1
    BY <1>1, <1>2 DEF TypeOK
<1>5. EpochsArePaired'
    <2> SUFFICES ASSUME NEW t \in Timestamp
                 PROVE  /\ predictions'[t] <= 1
                        /\ predictions'[t] = 1 => has_timestamp' /\ t <= timestamp'
                        /\ corrections'[t] =
                             IF has_timestamp' /\ t = timestamp'
                                  /\ timestamp_phase' = "predicted"
                             THEN 0 ELSE predictions'[t]
        BY DEF EpochsArePaired
    <2>1. CASE t = now
        BY <1>1, <1>2, <1>4, <2>1 DEF Timestamp
    <2>2. CASE t # now
        <3>1. predictions'[t] = predictions[t] /\ corrections'[t] = corrections[t]
            BY <1>1, <2>2 DEF TypeOK
        <3>2. predictions[t] <= 1 /\ corrections[t] = predictions[t]
            BY <1>1 DEF EpochsArePaired, PredictGuard
        <3>3. predictions[t] = 1 => t <= now
            BY <1>1 DEF EpochsArePaired, PredictGuard, TypeOK, Timestamp
        <3> QED
            BY <1>1, <2>2, <3>1, <3>2, <3>3
    <2> QED
        BY <2>1, <2>2
<1>6. CurrentEpochIsPredicted'
    BY <1>1, <1>4 DEF CurrentEpochIsPredicted
<1> QED
    BY <1>3, <1>5, <1>6

(* A timed update closes the epoch that the last predict opened. *)
LEMMA TimedUpdateHolds ==
    ASSUME FilterInvariant, NEW call \in Call, call.timed,
           UpdateGuard(call), AcceptUpdate(<< >>, call)
    PROVE  FilterInvariant'
<1> USE DEF FilterInvariant
<1>1. /\ has_timestamp /\ timestamp_phase = "predicted" /\ timestamp \in Timestamp
      /\ timestamp' = timestamp /\ has_timestamp' = TRUE /\ timestamp_phase' = "updated"
      /\ corrections' = [corrections EXCEPT ![timestamp] = @ + 1]
      /\ predictions' = predictions
      /\ estimate' \in Quality /\ error' = "none"
    BY CallFields DEF UpdateGuard, AcceptUpdate, StoreTimestamp, Count
<1>2. corrections[timestamp] = 0 /\ predictions[timestamp] = 1
    BY <1>1 DEF EpochsArePaired, CurrentEpochIsPredicted
<1>3. TypeOK'
    BY <1>1 DEF TypeOK, TimestampPhase, KalmanError
<1>4. corrections'[timestamp] = 1
    BY <1>1, <1>2 DEF TypeOK
<1>5. EpochsArePaired'
    <2> SUFFICES ASSUME NEW t \in Timestamp
                 PROVE  /\ predictions[t] <= 1
                        /\ predictions[t] = 1 => t <= timestamp
                        /\ corrections'[t] = predictions[t]
        BY <1>1 DEF EpochsArePaired
    <2>1. predictions[t] <= 1 /\ (predictions[t] = 1 => t <= timestamp)
        BY DEF EpochsArePaired
    <2>2. CASE t = timestamp
        BY <1>2, <1>4, <2>1, <2>2
    <2>3. CASE t # timestamp
        <3>1. corrections'[t] = corrections[t]
            BY <1>1, <2>3 DEF TypeOK
        <3>2. corrections[t] = predictions[t]
            BY <2>3 DEF EpochsArePaired
        <3> QED
            BY <2>1, <3>1, <3>2
    <2> QED
        BY <2>2, <2>3
<1>6. CurrentEpochIsPredicted'
    BY <1>1, <1>2 DEF CurrentEpochIsPredicted
<1> QED
    BY <1>3, <1>5, <1>6

LEMMA NextHolds == FilterInvariant /\ [Next]_vars => FilterInvariant'
<1> SUFFICES ASSUME FilterInvariant, [Next]_vars PROVE FilterInvariant'
    OBVIOUS
<1>1. ASSUME NEW call \in Call,
             Predict(call) \/ Update(call) \/ EkfPredict(call) \/ EkfUpdate(call)
      PROVE  FilterInvariant'
    <2>1. CASE error' \in Failure /\ UNCHANGED <<state_vars, predictions, corrections>>
        BY <2>1
        DEF FilterInvariant, TypeOK, EpochsArePaired, CurrentEpochIsPredicted,
            state_vars, Failure
    <2>2. CASE PredictGuard(call) /\ AcceptPredict(<< >>, call)
        BY <2>2, UntimedHolds, TimedPredictHolds
    <2>3. CASE UpdateGuard(call) /\ AcceptUpdate(<< >>, call)
        BY <2>3, UntimedHolds, TimedUpdateHolds
    <2> QED
        BY <1>1, <2>1, <2>2, <2>3, CallsAreGuarded
<1>2. CASE UNCHANGED vars
    BY <1>2
    DEF vars, state_vars, FilterInvariant, TypeOK, EpochsArePaired, CurrentEpochIsPredicted
<1> QED
    BY <1>1, <1>2 DEF Next

LEMMA InvariantHolds == Spec => []FilterInvariant
BY InitHolds, NextHolds, PTL DEF Spec

------------------------------------------------------------------------------
(* The timestamp and the phase of a KalmanState are always set together. *)
THEOREM KalmanTypeCorrect == Spec => []TypeOK
<1>1. FilterInvariant => TypeOK
    BY DEF FilterInvariant
<1> QED
    BY <1>1, InvariantHolds, PTL

(* Every epoch is predicted and corrected at most once, in the order of time, *)
(* whatever is repeated, reordered or refused, with any number of timestamps. *)
THEOREM EpochsAreAlwaysPaired == Spec => []EpochsArePaired
<1>1. FilterInvariant => EpochsArePaired
    BY DEF FilterInvariant
<1> QED
    BY <1>1, InvariantHolds, PTL

(* No accepted call leaves an estimate that the next one refuses: needs only *)
(* that the check of the result is the last check of all four calls.         *)
THEOREM UsableIsAlwaysKept == Spec => UsableIsKept
<1>1. [Next]_vars => [estimate = "usable" => estimate' = "usable"]_vars
    <2> SUFFICES ASSUME NEW call \in Call, estimate = "usable",
                        Predict(call) \/ Update(call) \/ EkfPredict(call) \/ EkfUpdate(call)
                 PROVE  estimate' = "usable"
        BY DEF Next
    <2> QED
        BY CallsAreGuarded
        DEF state_vars, PredictGuard, UpdateGuard, AcceptPredict, AcceptUpdate
<1> QED
    BY <1>1, PTL DEF Spec, UsableIsKept

------------------------------------------------------------------------------
(* The life of a timed state, as a step relation. *)

(* An update closes the open epoch, with the epoch's own timestamp. *)
EpochCloses ==
    /\ timestamp_phase = "predicted" /\ timestamp_phase' = "updated"
    /\ has_timestamp' /\ timestamp' = timestamp
    /\ corrections' = [corrections EXCEPT ![timestamp] = @ + 1]

(* A predict opens a later one. *)
EpochOpens ==
    /\ timestamp_phase = "updated" /\ timestamp_phase' = "predicted"
    /\ has_timestamp' /\ timestamp' > timestamp
    /\ predictions' = [predictions EXCEPT ![timestamp'] = @ + 1]

(* A state that was timed once never takes an untimed call again, and predicts and      *)
(* updates take turns: an open epoch can only be closed, by an update with its own      *)
(* timestamp, so a measurement that is stamped otherwise or lost holds up every predict *)
(* after it.                                                                            *)
EpochsAlternate ==
    [][has_timestamp => UNCHANGED state_vars \/ EpochCloses \/ EpochOpens]_vars

(* The order of the checks in the four calls leaves no other way to move a timed state *)
(* (kalman_predict_at, kalman_update_at, ekf_predict_at, ekf_update_at).               *)
THEOREM EpochsAlwaysAlternate == Spec => EpochsAlternate
<1>1. FilterInvariant /\ [Next]_vars
        => [has_timestamp => UNCHANGED state_vars \/ EpochCloses \/ EpochOpens]_vars
    <2> SUFFICES ASSUME FilterInvariant, has_timestamp, NEW call \in Call,
                        Predict(call) \/ Update(call) \/ EkfPredict(call) \/ EkfUpdate(call)
                 PROVE  UNCHANGED state_vars \/ EpochCloses \/ EpochOpens
        BY DEF Next
    <2>1. CASE PredictGuard(call) /\ AcceptPredict(<< >>, call)
        <3>1. call.timed /\ timestamp_phase = "updated" /\ ~(call.timestamp <= timestamp)
            BY <2>1 DEF PredictGuard
        <3>2. call.timestamp \in Nat /\ timestamp \in Nat
            BY CallFields DEF FilterInvariant, TypeOK, Timestamp
        <3>3. /\ timestamp' = call.timestamp /\ has_timestamp' = TRUE
              /\ timestamp_phase' = "predicted"
              /\ predictions' = [predictions EXCEPT ![call.timestamp] = @ + 1]
            BY <2>1, <3>1 DEF AcceptPredict, StoreTimestamp, Count
        <3>4. timestamp' > timestamp
            BY <3>1, <3>2, <3>3
        <3> QED
            BY <3>1, <3>3, <3>4 DEF EpochOpens
    <2>2. CASE UpdateGuard(call) /\ AcceptUpdate(<< >>, call)
        BY <2>2 DEF UpdateGuard, AcceptUpdate, StoreTimestamp, Count, EpochCloses
    <2> QED
        BY <2>1, <2>2, CallsAreGuarded
<1> QED
    BY <1>1, InvariantHolds, PTL DEF Spec, EpochsAlternate
==============================================================================
