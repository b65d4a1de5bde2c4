----------------------------- MODULE MinimumSet -----------------------------
(***************************************************************************)
(* One call of MinimumSetOptimizer.select, one step per subset: the        *)
(* estimator is asked, and its answer may be unknown or no probability.    *)
(* min() and max(), which the code calls after its loop, scan its list and *)
(* keep the first extreme entry; here they keep it as the entries come.    *)
(* A definition called Fault is a mistake the code does not make, see      *)
(* BudgetWindow.                                                           *)
(***************************************************************************)
EXTENDS SubsetSelection

CONSTANTS
    Targets,        \* target probabilities a call may ask for
    Limits          \* max_candidates an optimizer may be built with

ASSUME MinimumSetAssumption ==
    Targets \subseteq 1..Scale /\ Limits \subseteq Nat

VARIABLES
    candidates,     \* the providers of the call
    target,         \* target_probability
    mode,           \* coverage_mode
    allow,          \* allow_best_effort
    limit,          \* max_candidates
    q,              \* the answers so far: a function on the subsets asked for
    best,           \* the extreme entry under max(), {} while there is none
    chosen,         \* the extreme feasible entry under min(), likewise
    result          \* the decision

call == <<candidates, target, mode, allow, limit>>
vars == <<call, q, best, chosen, result>>

Running == Nothing("RUNNING")
Raised == Nothing("EstimatorError")

Init ==
    /\ candidates \in SUBSET Providers
    /\ target \in Targets
    /\ mode \in Modes
    /\ allow \in BOOLEAN
    /\ limit \in Limits
    /\ q = [S \in {} |-> Unknown]
    /\ best = {} /\ chosen = {}
    /\ result = Running

Todo == Subsets(candidates) \ DOMAIN q
Missing == {S \in DOMAIN q : q[S] = Unknown}

\* There is no candidate, or there are too many to enumerate their subsets.
Reject ==
    /\ result = Running
    /\ candidates = {} \/ Cardinality(candidates) > limit
    /\ result' = Nothing(IF candidates = {} THEN "NO_ELIGIBLE_CANDIDATES"
                         ELSE "ADAPTIVE_CANDIDATE_LIMIT_EXCEEDED")
    /\ UNCHANGED <<call, q, best, chosen>>

\* S is the next subset of the enumeration.
Next1(S) ==
    /\ result = Running
    /\ Cardinality(candidates) <= limit
    /\ S \in Todo
    /\ \A T \in Todo \ {S} : Precedes(S, T)

Answered(S, a) == [T \in DOMAIN q \cup {S} |-> IF T = S THEN a ELSE q[T]]

\* What is entered for a subset without an estimate.
AnsweredNone(S) == Answered(S, Unknown)

\* The estimator has no answer for S.
Miss(S) ==
    /\ Next1(S)
    /\ q' = AnsweredNone(S)
    /\ UNCHANGED <<call, best, chosen, result>>

\* Fault: the target must be exceeded.
FeasibleAbove(v) == v > target

Feasible(v) == v >= target

\* Fault: cost alone decides, so the first of the cheapest is kept.
PreferredCheaper(S, v, T) == Cost[S] < Cost[T]

\* S, estimated at v, has a smaller key than T: (cost, -q_hat, subset).
Preferred(S, v, T) ==
    \/ Cost[S] < Cost[T]
    \/ Cost[S] = Cost[T] /\ v > q[T]
    \/ Cost[S] = Cost[T] /\ v = q[T] /\ Before(S, T)

\* S, estimated at v, has a greater key than T: (q_hat, -cost).
Likelier(S, v, T) == v > q[T] \/ (v = q[T] /\ Cost[S] < Cost[T])

\* The estimator answers v for S.
Score(S, v) ==
    /\ Next1(S)
    /\ q' = Answered(S, v)
    /\ best' = IF best = {} \/ Likelier(S, v, best) THEN S ELSE best
    /\ chosen' = IF Feasible(v) /\ (chosen = {} \/ Preferred(S, v, chosen))
                 THEN S ELSE chosen
    /\ UNCHANGED <<call, result>>

\* The estimator answers something that is not a probability.
Invalid(S) ==
    /\ Next1(S)
    /\ result' = Raised
    /\ UNCHANGED <<call, q, best, chosen>>

\* Fault: the coverage gate is open in every mode.
GatedNever == FALSE

\* The coverage gate.
Gated == Missing # {} /\ mode = "require-complete"

\* Every subset has been asked for.
Decide ==
    /\ result = Running
    /\ candidates # {} /\ Cardinality(candidates) <= limit
    /\ Todo = {}
    /\ result' =
         IF Gated
         THEN Decision("ESTIMATOR_COVERAGE_INCOMPLETE", {}, Missing = {}, FALSE, best)
         ELSE IF chosen # {}
         THEN Decision("SELECTED", chosen, Missing = {}, FALSE, best)
         ELSE IF allow /\ best # {}
         THEN Decision("SELECTED", candidates, Missing = {}, TRUE, best)
         ELSE Decision("SLO_ESTIMATE_UNSATISFIABLE", {}, Missing = {}, FALSE, best)
    /\ UNCHANGED <<call, q, best, chosen>>

Next ==
    \/ Reject
    \/ \E S \in Subsets(candidates) :
         \/ Miss(S)
         \/ \E v \in 0..Scale : Score(S, v)
         \/ Invalid(S)
    \/ Decide

Spec == Init /\ [][Next]_vars

-----------------------------------------------------------------------------
Statuses ==
    {"RUNNING", "EstimatorError", "NO_ELIGIBLE_CANDIDATES",
     "ADAPTIVE_CANDIDATE_LIMIT_EXCEEDED", "ESTIMATOR_COVERAGE_INCOMPLETE",
     "SLO_ESTIMATE_UNSATISFIABLE", "SELECTED"}

TypeOK ==
    /\ candidates \in SUBSET Providers
    /\ target \in Targets /\ mode \in Modes /\ allow \in BOOLEAN /\ limit \in Limits
    /\ DOMAIN q \subseteq Subsets(candidates)
    /\ \A S \in DOMAIN q : q[S] \in (0..Scale) \cup {Unknown}
    /\ best \in SUBSET candidates /\ chosen \in SUBSET candidates
    /\ result \in [status : Statuses, subset : SUBSET candidates, exact : BOOLEAN,
                   bestEffort : BOOLEAN, best : SUBSET candidates]

\* The target is met by T in some completion of the answers given.
CouldSatisfy(T) == T \notin DOMAIN q \/ q[T] = Unknown \/ q[T] >= target

\* OptimizerResult.satisfied, with the exact minimum claimed.
Satisfied == result.status = "SELECTED" /\ ~result.bestEffort

\* When the optimizer claims a minimum, its estimate meets the target, and no
\* cheaper subset could meet it, nor an equally cheap one with a better
\* estimate, whatever the estimator would say of subsets it has not scored.
ExactMinimum ==
    Satisfied /\ mode = "require-complete" =>
      /\ result.exact
      /\ result.subset \in DOMAIN q
      /\ q[result.subset] \in target..Scale
      /\ \A T \in Subsets(candidates) : CouldSatisfy(T) =>
           \/ Cost[result.subset] < Cost[T]
           \/ Cost[result.subset] = Cost[T] /\ q[T] <= q[result.subset]

\* The target is said to be out of reach, with or without the degradation to
\* every candidate, only when no subset that was scored meets it, and where
\* complete coverage is required, only when no subset could.
UnreachableIsReal ==
    result.status = "SLO_ESTIMATE_UNSATISFIABLE" \/ result.bestEffort =>
      \A T \in Subsets(candidates) :
        CouldSatisfy(T) => mode = "partial-best-known" /\ q[T] = Unknown

\* The decision is a function of the candidates and the table alone: it is
\* what Select says, ties included.
DecidesAsSpecified ==
    result \notin {Running, Raised} =>
      result = Select(candidates, q, target, mode, allow, limit)
=============================================================================
