-------------------------- MODULE SubsetSelection --------------------------
(***************************************************************************)
(* What MinimumSetOptimizer.select (adaptive/optimizer.py) decides, as a   *)
(* function of the estimator's whole table.  Provider ids occur only in    *)
(* comparisons, so a provider is a natural number: its place in the order  *)
(* of the ids.  A probability is a natural number up to Scale, and         *)
(* selected_subset = None is the empty set.                                *)
(***************************************************************************)
EXTENDS Integers, FiniteSets, Sequences

CONSTANTS
    Providers,      \* every provider, as its place in the order of ids
    Cost,           \* the cost model: a cost for every set of providers
    Scale,          \* probability 1
    Unknown         \* None, where the estimator has no answer

Subsets(P) == (SUBSET P) \ {{}}

Modes == {"require-complete", "partial-best-known"}

ASSUME SelectionAssumption ==
    /\ Providers \subseteq Nat /\ IsFiniteSet(Providers)
    /\ Cost \in [SUBSET Providers -> Int]
    /\ Scale \in Nat \ {0}
    /\ Unknown \notin Nat

\* subset_key, a function so that TLC computes it once.
SubsetKey ==
    [S \in SUBSET Providers |->
       [i \in 1..Cardinality(S) |->
          CHOOSE p \in S : Cardinality({r \in S : r < p}) = i - 1]]

\* Python's order of tuples.
TupleLess(s, t) ==
    \E i \in DOMAIN t :
      /\ \A j \in 1..(i - 1) : j \in DOMAIN s /\ s[j] = t[j]
      /\ i \in DOMAIN s => s[i] < t[i]

Before(S, T) == TupleLess(SubsetKey[S], SubsetKey[T])

\* The order in which subsets are enumerated: combinations(), by size.
Precedes(S, T) ==
    \/ Cardinality(S) < Cardinality(T)
    \/ Cardinality(S) = Cardinality(T) /\ Before(S, T)

Cheapest(F) == {S \in F : \A T \in F : Cost[S] <= Cost[T]}
Likeliest(F, q) ==
    LET estimates == {q[T] : T \in F}
    IN  {S \in F : \A v \in estimates : v <= q[S]}

\* min(feasible, key=(cost, -q_hat, subset)).
Chosen(F, q) ==
    CHOOSE S \in Likeliest(Cheapest(F), q) :
      \A T \in Likeliest(Cheapest(F), q) \ {S} : Before(S, T)

\* max(scored, key=(q_hat, -cost)), which keeps the first of several.
Best(F, q) ==
    CHOOSE S \in Cheapest(Likeliest(F, q)) :
      \A T \in Cheapest(Likeliest(F, q)) \ {S} : Precedes(S, T)

Decision(status, subset, exact, bestEffort, best) ==
    [status |-> status, subset |-> subset, exact |-> exact,
     bestEffort |-> bestEffort, best |-> best]

Nothing(status) == Decision(status, {}, FALSE, FALSE, {})

\* The decision for candidates P and the table q of their subsets.
Select(P, q, target, mode, allowBestEffort, limit) ==
    LET missing == {S \in Subsets(P) : q[S] = Unknown}
        scored == Subsets(P) \ missing
        feasible == {S \in scored : q[S] >= target}
        best == IF scored = {} THEN {} ELSE Best(scored, q)
        exact == missing = {}
    IN
    CASE P = {} -> Nothing("NO_ELIGIBLE_CANDIDATES")
      [] P # {} /\ Cardinality(P) > limit ->
           Nothing("ADAPTIVE_CANDIDATE_LIMIT_EXCEEDED")
      [] OTHER ->
           IF ~exact /\ mode = "require-complete"
           THEN Decision("ESTIMATOR_COVERAGE_INCOMPLETE", {}, exact, FALSE, best)
           ELSE IF feasible # {}
           THEN Decision("SELECTED", Chosen(feasible, q), exact, FALSE, best)
           ELSE IF allowBestEffort /\ scored # {}
           THEN Decision("SELECTED", P, exact, TRUE, best)
           ELSE Decision("SLO_ESTIMATE_UNSATISFIABLE", {}, exact, FALSE, best)
=============================================================================
