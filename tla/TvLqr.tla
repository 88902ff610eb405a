-------------------------------- MODULE TvLqr --------------------------------
(***************************************************************************)
(* include/bldc/tv_lqr.hpp: calls of solve_tv_lqr, one iteration of the    *)
(* backward recursion per step.  A gain K[i] and a cost P[i] are kept as   *)
(* what the code's checks can tell of them, or "zero" while nothing was    *)
(* written over TvLqrSolution{}.                                           *)
(***************************************************************************)
EXTENDS Integers, FiniteSets

CONSTANT MaxHorizon      \* kTvLqrMaxHorizon, the capacity of the solution

ASSUME MaxHorizonAssumption == MaxHorizon \in Nat \ {0}

VARIABLES
    pc,          \* "validate", "recurse" or "returned"
    problem,     \* the argument: its horizon and what is wrong with its matrices
    index,       \* of the recursion, counted down from the horizon
    K, P,        \* solution.K and solution.P
    horizon,     \* solution.horizon
    error        \* result.error

vars == << pc, problem, index, K, P, horizon, error >>

Defect == {"non_finite", "asymmetric_cost", "indefinite_cost", "R_not_positive"}
Problem == [horizon : 0 .. MaxHorizon + 2, defects : SUBSET Defect]

Gain == {"zero", "finite", "non_finite"}
Cost == {"zero", "valid", "indefinite", "non_finite"}
TvLqrError ==
    {"none", "invalid_horizon", "non_finite_input", "non_symmetric_cost",
     "invalid_cost_matrix", "singular_control_cost", "invalid_generated_p",
     "non_finite_result"}

\* TvLqrSolution{}
NoGains == [i \in 0 .. MaxHorizon - 1 |-> "zero"]
NoCosts == [i \in 0 .. MaxHorizon |-> "zero"]

\* A call begins with TvLqrResult{} and a problem of the caller's.
Init ==
    /\ pc = "validate"
    /\ problem \in Problem
    /\ index = 0 /\ K = NoGains /\ P = NoCosts /\ horizon = 0
    /\ error = "invalid_horizon"

CallAgain ==
    /\ pc = "returned"
    /\ pc' = "validate"
    /\ problem' \in Problem
    /\ index' = 0 /\ K' = NoGains /\ P' = NoCosts /\ horizon' = 0
    /\ error' = "invalid_horizon"

-----------------------------------------------------------------------------
(* The checks of the arguments, in the code's order. *)

\* Seeded defect: one more than the arrays hold.
HorizonFits_OneMore(h) == h # 0 /\ h <= MaxHorizon + 1

HorizonFits(h) == h # 0 /\ h <= MaxHorizon

InputError(p) ==
    IF ~HorizonFits(p.horizon) THEN "invalid_horizon"
    ELSE IF "non_finite" \in p.defects THEN "non_finite_input"
    ELSE IF "asymmetric_cost" \in p.defects THEN "non_symmetric_cost"
    ELSE IF "indefinite_cost" \in p.defects THEN "invalid_cost_matrix"
    ELSE IF "R_not_positive" \in p.defects THEN "singular_control_cost"
    ELSE "none"

RefuseProblem ==
    /\ pc = "validate" /\ InputError(problem) # "none"
    /\ pc' = "returned"
    /\ error' = InputError(problem)
    /\ UNCHANGED << problem, index, K, P, horizon >>

AcceptProblem ==
    /\ pc = "validate" /\ InputError(problem) = "none"
    /\ pc' = "recurse"
    /\ horizon' = problem.horizon
    /\ index' = problem.horizon
    /\ P' = [P EXCEPT ![problem.horizon] = "valid"]      \* S
    /\ UNCHANGED << problem, K, error >>

-----------------------------------------------------------------------------
(* for (index = horizon; index-- > 0;) *)

\* R + B'P[index + 1]B overflowed or is not positive: nothing of this index is written.
CurvatureFails ==
    /\ pc = "recurse" /\ index > 0
    /\ pc' = "returned"
    /\ index' = index - 1
    /\ error' \in {"non_finite_result", "singular_control_cost"}
    /\ UNCHANGED << problem, K, P, horizon >>

\* What an iteration writes, whatever becomes of it.
WriteEntry(gain, cost) ==
    /\ index' = index - 1
    /\ K' = [K EXCEPT ![index - 1] = gain]
    /\ P' = [P EXCEPT ![index - 1] = cost]
    /\ UNCHANGED << problem, horizon >>

\* The cost is checked before the gain, both after they have been written.
EntryFails ==
    \E gain \in Gain \ {"zero"}, cost \in Cost \ {"zero"} :
        /\ pc = "recurse" /\ index > 0
        /\ gain # "finite" \/ cost # "valid"
        /\ WriteEntry(gain, cost)
        /\ pc' = "returned"
        /\ error' = IF cost # "valid" THEN "invalid_generated_p" ELSE "non_finite_result"

\* Seeded defect: a generated cost need not be semidefinite.
EntryIsUsable_Unchecked(gain, cost) == gain = "finite" /\ cost # "non_finite"

EntryIsUsable(gain, cost) == gain = "finite" /\ cost = "valid"

EntrySucceeds ==
    \E gain \in Gain \ {"zero"}, cost \in Cost \ {"zero"} :
        /\ pc = "recurse" /\ index > 0
        /\ EntryIsUsable(gain, cost)
        /\ WriteEntry(gain, cost)
        /\ UNCHANGED << pc, error >>

\* Seeded defect: the recursion stops before index 0.
Finish_Early ==
    /\ pc = "recurse" /\ index <= 1
    /\ pc' = "returned"
    /\ error' = "none"
    /\ UNCHANGED << problem, index, K, P, horizon >>

\* Seeded defect: the unsigned index is tested for being at least 0, and wraps.
Finish_Wraps ==
    /\ pc = "recurse" /\ index = 0
    /\ index' = MaxHorizon
    /\ UNCHANGED << pc, problem, K, P, horizon, error >>

Finish ==
    /\ pc = "recurse" /\ index = 0
    /\ pc' = "returned"
    /\ error' = "none"
    /\ UNCHANGED << problem, index, K, P, horizon >>

Solve ==
    \/ RefuseProblem
    \/ AcceptProblem
    \/ CurvatureFails
    \/ EntryFails
    \/ EntrySucceeds
    \/ Finish

Next == CallAgain \/ Solve

\* A call that has begun keeps running; whether there is another is the caller's.
Spec == Init /\ [][Next]_vars /\ WF_vars(Solve)

-----------------------------------------------------------------------------
\* Types; every index that is written lies in its array.
TypeOK ==
    /\ pc \in {"validate", "recurse", "returned"}
    /\ problem \in Problem
    /\ index \in 0 .. MaxHorizon
    /\ K \in [0 .. MaxHorizon - 1 -> Gain]
    /\ P \in [0 .. MaxHorizon -> Cost]
    /\ horizon \in 0 .. MaxHorizon
    /\ error \in TvLqrError

\* A result that says ok() holds every gain and every cost of the horizon that was
\* asked for, all of them checked, and nothing beyond it.
OkMeansComplete ==
    pc = "returned" /\ error = "none" =>
        /\ horizon = problem.horizon
        /\ \A i \in DOMAIN K : K[i] = IF i < horizon THEN "finite" ELSE "zero"
        /\ \A i \in DOMAIN P : P[i] = IF i <= horizon THEN "valid" ELSE "zero"

\* A failed result still says its horizon and may be filled in part: what is filled is
\* the end of the horizon, up to one entry that may be bad, and everything after that
\* entry is sound.  A result whose horizon is zero holds nothing.
FilledIsSuffix ==
    /\ horizon > 0 => P[horizon] = "valid"
    /\ \A i \in DOMAIN K, j \in 0 .. MaxHorizon :
        K[i] # "zero" \/ (P[i] # "zero" /\ i # horizon) =>
            /\ i < horizon
            /\ (i < j /\ j < horizon) => K[j] = "finite" /\ P[j] = "valid"

\* Every call returns, after at most one iteration per index.
CallReturns == [](pc # "returned" => <>(pc = "returned"))
=============================================================================
