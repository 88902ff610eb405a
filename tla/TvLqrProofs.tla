----------------------------- MODULE TvLqrProofs -----------------------------
(* Theorems about solve_tv_lqr, for every capacity of the solution. *)
EXTENDS TvLqr, TLAPS

\* The recursion is between two indices: nothing is written below index, everything
\* above it is sound, and the entry at index is sound unless the call failed there.
Unwritten(i) == K[i] = "zero" /\ P[i] = "zero"
Sound(i) == K[i] = "finite" /\ P[i] = "valid"

Stage ==
    /\ pc \in {"validate", "recurse"} => error = "invalid_horizon"
    /\ pc = "validate" => horizon = 0
    /\ pc = "recurse" => horizon > 0
    /\ error = "none" => pc = "returned" /\ index = 0

NothingYet ==
    horizon = 0 =>
        /\ index = 0 /\ error # "none"
        /\ \A i \in 0 .. MaxHorizon - 1 : Unwritten(i)
        /\ P[MaxHorizon] = "zero"

FilledSoFar ==
    horizon > 0 =>
        /\ horizon = problem.horizon /\ index <= horizon
        /\ P[horizon] = "valid"
        /\ \A i \in 0 .. MaxHorizon - 1 : i < index => Unwritten(i)
        /\ \A i \in 0 .. MaxHorizon - 1 : index < i /\ i < horizon => Sound(i)
        /\ \A i \in 0 .. MaxHorizon - 1 : i >= horizon => K[i] = "zero"
        /\ \A i \in 0 .. MaxHorizon : i > horizon => P[i] = "zero"

HeadIsSound ==
    (pc = "recurse" \/ error = "none") /\ index < horizon => Sound(index)

Progress == Stage /\ NothingYet /\ FilledSoFar /\ HeadIsSound

LqrInv == TypeOK /\ Progress

LEMMA InitEstablishes == Init => LqrInv
<1>1. SUFFICES ASSUME Init PROVE LqrInv
  OBVIOUS
<1>2. TypeOK
  BY <1>1, MaxHorizonAssumption
     DEF Init, TypeOK, NoGains, NoCosts, Gain, Cost, TvLqrError
<1>3. Progress
  BY <1>1, MaxHorizonAssumption
     DEF Init, Progress, Stage, NothingYet, FilledSoFar, HeadIsSound, Unwritten, NoGains, NoCosts
<1>4. QED
  BY <1>2, <1>3 DEF LqrInv

LEMMA CallAgainKeeps == ASSUME LqrInv, CallAgain PROVE LqrInv'
<1>1. TypeOK'
  BY MaxHorizonAssumption
     DEF CallAgain, TypeOK, NoGains, NoCosts, Gain, Cost, TvLqrError
<1>2. Progress'
  BY MaxHorizonAssumption
     DEF CallAgain, Progress, Stage, NothingYet, FilledSoFar, HeadIsSound, Unwritten, NoGains, NoCosts
<1>3. QED
  BY <1>1, <1>2 DEF LqrInv

LEMMA RefuseKeeps == ASSUME LqrInv, RefuseProblem PROVE LqrInv'
<1>0. TypeOK /\ Progress
  BY DEF LqrInv
<1>1. InputError(problem) \in TvLqrError \ {"none"}
  BY DEF RefuseProblem, InputError, TvLqrError
<1>2. TypeOK'
  BY <1>0, <1>1 DEF RefuseProblem, TypeOK
<1>3. Progress'
  BY <1>0, <1>1
     DEF RefuseProblem, TypeOK, Progress, Stage, NothingYet, FilledSoFar, HeadIsSound, Unwritten
<1>4. QED
  BY <1>2, <1>3 DEF LqrInv

\* A problem is accepted only with a horizon that lies in the arrays.
LEMMA AcceptedHorizonFits ==
  ASSUME NEW p \in Problem, InputError(p) = "none"
  PROVE  p.horizon \in 1 .. MaxHorizon
BY MaxHorizonAssumption DEF Problem, InputError, HorizonFits

LEMMA AcceptKeeps == ASSUME LqrInv, AcceptProblem PROVE LqrInv'
<1>0. TypeOK /\ Progress
  BY DEF LqrInv
<1>1. problem.horizon \in 1 .. MaxHorizon
  BY <1>0, AcceptedHorizonFits DEF AcceptProblem, TypeOK
<1>2. horizon = 0 /\ error = "invalid_horizon"
  BY <1>0 DEF AcceptProblem, Progress, Stage
<1>3. TypeOK'
  BY <1>0, <1>1, MaxHorizonAssumption DEF AcceptProblem, TypeOK, Cost
<1>4. Progress'
  BY <1>0, <1>1, <1>2, <1>3, MaxHorizonAssumption
     DEF AcceptProblem, TypeOK, Progress, Stage, NothingYet, FilledSoFar, HeadIsSound, Unwritten
<1>5. QED
  BY <1>3, <1>4 DEF LqrInv

LEMMA CurvatureKeeps == ASSUME LqrInv, CurvatureFails PROVE LqrInv'
<1>0. TypeOK /\ Progress
  BY DEF LqrInv
<1>1. index \in 1 .. MaxHorizon /\ horizon > 0 /\ pc = "recurse"
  BY <1>0, MaxHorizonAssumption DEF CurvatureFails, TypeOK, Progress, NothingYet
<1>2. index' = index - 1 /\ pc' = "returned" /\ error' \in TvLqrError \ {"none"}
  BY DEF CurvatureFails, TvLqrError
<1>3. TypeOK'
  BY <1>0, <1>1, <1>2, MaxHorizonAssumption DEF CurvatureFails, TypeOK
<1>4. \A i \in 0 .. MaxHorizon - 1 : index' < i /\ i < horizon => Sound(i)
  BY <1>0, <1>1, <1>2, MaxHorizonAssumption
     DEF TypeOK, Progress, FilledSoFar, HeadIsSound
<1>5. Progress'
  BY <1>0, <1>1, <1>2, <1>4, MaxHorizonAssumption
     DEF CurvatureFails, TypeOK, Progress, Stage, NothingYet, FilledSoFar, HeadIsSound, Unwritten, Sound
<1>6. QED
  BY <1>3, <1>5 DEF LqrInv

\* Writing the entry below the index keeps the types and everything that Progress
\* says of the other entries.
LEMMA WriteKeeps ==
  ASSUME TypeOK, Progress, pc = "recurse", index > 0,
         NEW gain \in Gain \ {"zero"}, NEW cost \in Cost \ {"zero"},
         WriteEntry(gain, cost)
  PROVE  /\ index' \in 0 .. MaxHorizon - 1 /\ index' = index - 1
         /\ K' \in [0 .. MaxHorizon - 1 -> Gain]
         /\ P' \in [0 .. MaxHorizon -> Cost]
         /\ horizon' = horizon /\ problem' = problem
         /\ horizon > 0 /\ index' < horizon /\ FilledSoFar'
         /\ K'[index'] = gain /\ P'[index'] = cost
<1>1. horizon > 0 /\ horizon = problem.horizon /\ index <= horizon
      /\ P[horizon] = "valid"
  BY DEF Progress, Stage, FilledSoFar
<1>2. /\ index \in 1 .. MaxHorizon /\ horizon \in 1 .. MaxHorizon
      /\ K \in [0 .. MaxHorizon - 1 -> Gain] /\ P \in [0 .. MaxHorizon -> Cost]
  BY <1>1, MaxHorizonAssumption DEF TypeOK
<1>3. /\ index' = index - 1 /\ horizon' = horizon /\ problem' = problem
      /\ K' = [K EXCEPT ![index - 1] = gain]
      /\ P' = [P EXCEPT ![index - 1] = cost]
  BY DEF WriteEntry
<1>4. index' \in 0 .. MaxHorizon - 1 /\ index' \in 0 .. MaxHorizon
  BY <1>2, <1>3, MaxHorizonAssumption
<1>5. /\ K'[index'] = gain /\ P'[index'] = cost
      /\ \A i \in 0 .. MaxHorizon - 1 : i # index' => K'[i] = K[i]
      /\ \A i \in 0 .. MaxHorizon : i # index' => P'[i] = P[i]
      /\ K' \in [0 .. MaxHorizon - 1 -> Gain] /\ P' \in [0 .. MaxHorizon -> Cost]
  BY <1>2, <1>3, <1>4
<1>6. P'[horizon] = "valid"
  BY <1>1, <1>2, <1>3, <1>5
<1>7. \A i \in 0 .. MaxHorizon - 1 : i < index' => Unwritten(i)'
  BY <1>1, <1>2, <1>3, <1>5, MaxHorizonAssumption
     DEF Progress, FilledSoFar, Unwritten
<1>8. \A i \in 0 .. MaxHorizon - 1 : index' < i /\ i < horizon => Sound(i)'
  <2>1. \A i \in 0 .. MaxHorizon - 1 : index' < i /\ i < horizon => Sound(i)
    BY <1>1, <1>2, <1>3, MaxHorizonAssumption DEF Progress, FilledSoFar, HeadIsSound
  <2>2. QED
    BY <2>1, <1>2, <1>3, <1>5, MaxHorizonAssumption DEF Sound
<1>9. /\ \A i \in 0 .. MaxHorizon - 1 : i >= horizon => K'[i] = "zero"
      /\ \A i \in 0 .. MaxHorizon : i > horizon => P'[i] = "zero"
  BY <1>1, <1>2, <1>3, <1>5, MaxHorizonAssumption DEF Progress, FilledSoFar
<1>10. index' < horizon
  BY <1>1, <1>2, <1>3
<1>11. FilledSoFar'
  BY <1>1, <1>2, <1>3, <1>6, <1>7, <1>8, <1>9, <1>10 DEF FilledSoFar
<1>12. QED
  BY <1>1, <1>3, <1>4, <1>5, <1>10, <1>11

LEMMA EntryFailsKeeps == ASSUME LqrInv, EntryFails PROVE LqrInv'
<1>0. TypeOK /\ Progress
  BY DEF LqrInv
<1>1. PICK gain \in Gain \ {"zero"}, cost \in Cost \ {"zero"} :
        /\ pc = "recurse" /\ index > 0
        /\ WriteEntry(gain, cost)
        /\ pc' = "returned"
        /\ error' \in {"invalid_generated_p", "non_finite_result"}
  BY DEF EntryFails
<1>2. TypeOK'
  BY <1>0, <1>1, WriteKeeps, MaxHorizonAssumption DEF TypeOK, TvLqrError
<1>3. horizon' # 0 /\ pc' = "returned" /\ error' # "none" /\ FilledSoFar'
  BY <1>0, <1>1, WriteKeeps
<1>4. QED
  BY <1>2, <1>3 DEF LqrInv, Progress, Stage, NothingYet, HeadIsSound

LEMMA EntrySucceedsKeeps == ASSUME LqrInv, EntrySucceeds PROVE LqrInv'
<1>0. TypeOK /\ Progress
  BY DEF LqrInv
<1>1. PICK gain \in Gain \ {"zero"}, cost \in Cost \ {"zero"} :
        /\ pc = "recurse" /\ index > 0
        /\ gain = "finite" /\ cost = "valid"
        /\ WriteEntry(gain, cost)
        /\ UNCHANGED << pc, error >>
  BY DEF EntrySucceeds, EntryIsUsable
<1>2. TypeOK'
  BY <1>0, <1>1, WriteKeeps, MaxHorizonAssumption DEF TypeOK
<1>3. Sound(index)'
  BY <1>0, <1>1, WriteKeeps DEF Sound
<1>4. error' = "invalid_horizon" /\ pc' = "recurse"
  BY <1>0, <1>1 DEF Progress, Stage
<1>5. horizon' > 0 /\ horizon' # 0 /\ FilledSoFar'
  BY <1>0, <1>1, WriteKeeps
<1>6. QED
  BY <1>2, <1>3, <1>4, <1>5 DEF LqrInv, Progress, Stage, NothingYet, HeadIsSound

LEMMA FinishKeeps == ASSUME LqrInv, Finish PROVE LqrInv'
<1>0. TypeOK /\ Progress
  BY DEF LqrInv
<1>1. TypeOK'
  BY <1>0 DEF Finish, TypeOK, TvLqrError
<1>2. Progress'
  BY <1>0, <1>1
     DEF Finish, TypeOK, Progress, Stage, NothingYet, FilledSoFar, HeadIsSound, Sound
<1>3. QED
  BY <1>1, <1>2 DEF LqrInv

LEMMA StutterKeeps == ASSUME LqrInv, UNCHANGED vars PROVE LqrInv'
BY DEF LqrInv, TypeOK, Progress, Stage, NothingYet, FilledSoFar, HeadIsSound,
       Unwritten, Sound, vars

\* The recursion keeps its place: the strengthening behind the three theorems.
LEMMA RecursionInvariant == Spec => []LqrInv
<1>1. LqrInv /\ [Next]_vars => LqrInv'
  <2>1. SUFFICES ASSUME LqrInv, [Next]_vars PROVE LqrInv'
    OBVIOUS
  <2>2. CASE CallAgain
    BY <2>1, <2>2, CallAgainKeeps
  <2>3. CASE RefuseProblem
    BY <2>1, <2>3, RefuseKeeps
  <2>4. CASE AcceptProblem
    BY <2>1, <2>4, AcceptKeeps
  <2>5. CASE CurvatureFails
    BY <2>1, <2>5, CurvatureKeeps
  <2>6. CASE EntryFails
    BY <2>1, <2>6, EntryFailsKeeps
  <2>7. CASE EntrySucceeds
    BY <2>1, <2>7, EntrySucceedsKeeps
  <2>8. CASE Finish
    BY <2>1, <2>8, FinishKeeps
  <2>9. CASE UNCHANGED vars
    BY <2>1, <2>9, StutterKeeps
  <2>10. QED
    BY <2>1, <2>2, <2>3, <2>4, <2>5, <2>6, <2>7, <2>8, <2>9 DEF Next, Solve
<1>2. QED
  BY <1>1, InitEstablishes, PTL DEF Spec

\* Types: in particular the recursion never writes outside its arrays, whatever the
\* horizon that is asked for.
THEOREM LqrTypeCorrect == Spec => []TypeOK
<1>1. LqrInv => TypeOK
  BY DEF LqrInv
<1>2. QED
  BY <1>1, RecursionInvariant, PTL

LEMMA InvariantGivesComplete == LqrInv => OkMeansComplete
<1>1. SUFFICES ASSUME LqrInv, pc = "returned", error = "none"
               PROVE  /\ horizon = problem.horizon
                      /\ \A i \in DOMAIN K : K[i] = IF i < horizon THEN "finite" ELSE "zero"
                      /\ \A i \in DOMAIN P : P[i] = IF i <= horizon THEN "valid" ELSE "zero"
  BY DEF OkMeansComplete
<1>2. TypeOK /\ Progress
  BY <1>1 DEF LqrInv
<1>3. index = 0 /\ horizon \in 1 .. MaxHorizon
  BY <1>1, <1>2, MaxHorizonAssumption DEF TypeOK, Progress, Stage, NothingYet
<1>4. DOMAIN K = 0 .. MaxHorizon - 1 /\ DOMAIN P = 0 .. MaxHorizon
  BY <1>2 DEF TypeOK
<1>5. \A i \in 0 .. MaxHorizon - 1 : i < horizon => Sound(i)
  BY <1>1, <1>2, <1>3, MaxHorizonAssumption DEF Progress, FilledSoFar, HeadIsSound
<1>6. /\ horizon = problem.horizon /\ P[horizon] = "valid"
      /\ \A i \in 0 .. MaxHorizon - 1 : i >= horizon => K[i] = "zero"
      /\ \A i \in 0 .. MaxHorizon : i > horizon => P[i] = "zero"
  BY <1>2, <1>3 DEF Progress, FilledSoFar
<1>7. QED
  BY <1>3, <1>4, <1>5, <1>6, MaxHorizonAssumption DEF Sound

\* A result that says ok() is complete for the horizon that was asked for.
THEOREM OkIsAlwaysComplete == Spec => []OkMeansComplete
BY InvariantGivesComplete, RecursionInvariant, PTL

LEMMA InvariantGivesSuffix == LqrInv => FilledIsSuffix
<1>1. SUFFICES ASSUME LqrInv PROVE FilledIsSuffix
  OBVIOUS
<1>2. TypeOK /\ Progress
  BY <1>1 DEF LqrInv
<1>3. DOMAIN K = 0 .. MaxHorizon - 1
  BY <1>2 DEF TypeOK
<1>4. ASSUME NEW i \in 0 .. MaxHorizon - 1, NEW j \in 0 .. MaxHorizon,
             K[i] # "zero" \/ (P[i] # "zero" /\ i # horizon)
      PROVE  i < horizon /\ (i < j /\ j < horizon => K[j] = "finite" /\ P[j] = "valid")
  <2>1. horizon \in 1 .. MaxHorizon
    BY <1>2, <1>4, MaxHorizonAssumption DEF TypeOK, Progress, NothingYet, Unwritten
  <2>2. i < horizon
    BY <1>2, <1>4, <2>1, MaxHorizonAssumption DEF Progress, FilledSoFar
  <2>3. index <= i
    BY <1>2, <1>4, <2>1, MaxHorizonAssumption
       DEF TypeOK, Progress, FilledSoFar, Unwritten
  <2>4. i < j /\ j < horizon => Sound(j)
    BY <1>2, <2>1, <2>3, MaxHorizonAssumption DEF TypeOK, Progress, FilledSoFar
  <2>5. QED
    BY <2>2, <2>4 DEF Sound
<1>5. horizon > 0 => P[horizon] = "valid"
  BY <1>2 DEF Progress, FilledSoFar
<1>6. QED
  BY <1>3, <1>4, <1>5 DEF FilledIsSuffix

\* What an unfinished or failed call leaves behind is the end of the horizon.
THEOREM FilledIsAlwaysSuffix == Spec => []FilledIsSuffix
BY InvariantGivesSuffix, RecursionInvariant, PTL

-----------------------------------------------------------------------------
(* Termination, but for the fairness: a variant of the call. *)

\* How many steps a call can still take.
StepsLeft ==
  IF pc = "validate" THEN MaxHorizon + 2 ELSE IF pc = "recurse" THEN index + 1 ELSE 0

\* Whatever a call in progress does next, it has fewer steps left: however the recursion
\* is entered and left, the unsigned index does not pass zero and start again.
CallShrinks == [][pc # "returned" => StepsLeft' \in 0 .. StepsLeft - 1]_vars

\* What CallReturns rests on besides the fairness of Solve: solve_tv_lqr takes at most
\* horizon + 2 steps.
THEOREM CallAlwaysShrinks == Spec => CallShrinks
<1>1. LqrInv /\ [Next]_vars => [pc # "returned" => StepsLeft' \in 0 .. StepsLeft - 1]_vars
  <2>1. SUFFICES ASSUME LqrInv, Solve PROVE StepsLeft' \in 0 .. StepsLeft - 1
    BY DEF Next, CallAgain
  <2>2. /\ index \in Nat /\ MaxHorizon \in Nat /\ problem.horizon \in Nat
        /\ HorizonFits(problem.horizon) => problem.horizon <= MaxHorizon
    BY <2>1, MaxHorizonAssumption DEF LqrInv, TypeOK, Problem, HorizonFits
  <2>3. CASE RefuseProblem
    BY <2>2, <2>3 DEF RefuseProblem, StepsLeft
  <2>4. CASE AcceptProblem
    <3>1. HorizonFits(problem.horizon)
      BY <2>4 DEF AcceptProblem, InputError
    <3>2. /\ pc = "validate" /\ pc' = "recurse" /\ index' = problem.horizon
      BY <2>4 DEF AcceptProblem
    <3>3. QED
      BY <2>2, <3>1, <3>2 DEF StepsLeft
  <2>5. CASE CurvatureFails \/ EntryFails
    <3>1. pc = "recurse" /\ pc' = "returned"
      BY <2>5 DEF CurvatureFails, EntryFails
    <3>2. QED
      BY <2>2, <3>1 DEF StepsLeft
  <2>6. CASE EntrySucceeds
    <3>1. pc = "recurse" /\ pc' = "recurse" /\ index > 0 /\ index' = index - 1
      BY <2>6 DEF EntrySucceeds, WriteEntry
    <3>2. QED
      BY <2>2, <3>1 DEF StepsLeft
  <2>7. CASE Finish
    BY <2>2, <2>7 DEF Finish, StepsLeft
  <2>8. QED
    BY <2>1, <2>3, <2>4, <2>5, <2>6, <2>7 DEF Solve
<1>2. QED
  BY <1>1, RecursionInvariant, PTL DEF Spec, CallShrinks
==============================================================================
