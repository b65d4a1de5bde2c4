----------------------------- MODULE Evaluation -----------------------------
(***************************************************************************)
(* What the study makes of a closed-loop run: the decomposition against    *)
(* the oracle and the V1 bounds (learning/oracle.py), the comparison with  *)
(* every fixed subset on the same trials (scripts/v3_holdout.py and        *)
(* v4_confirmatory.py), and the training rows of scripts/v3_pipeline.py.   *)
(* Rates are counts over the same number of trials, and rounding is left   *)
(* out.  A definition called Fault is a mistake the code does not make,    *)
(* see BudgetWindow.                                                       *)
(***************************************************************************)
EXTENDS ClosedLoop, FiniteSetsExt

Count(s, Test(_)) == Cardinality({i \in DOMAIN s : Test(s[i])})

SumOf(f) ==
    LET sum[n \in 0..Len(f)] == IF n = 0 THEN 0 ELSE sum[n - 1] + f[n]
    IN  sum[Len(f)]

Total(s, Value(_)) == SumOf([i \in DOMAIN s |-> Value(s[i])])

(***************************************************************************)
(* oracle.py.                                                              *)
(***************************************************************************)
Classes == {"committed_success", "avoidable_miss", "intrinsic_miss",
            "unnecessary_abstention", "correct_abstention"}

\* Fault: a miss is avoidable only if something was selected that could do it.
ClassifyFault(o) ==
    IF ~o.committed
    THEN IF o.feasible THEN "unnecessary_abstention" ELSE "correct_abstention"
    ELSE IF o.satisfied THEN "committed_success"
    ELSE IF o.selected = Providers THEN "avoidable_miss" ELSE "intrinsic_miss"

\* ClosedLoopOutcome.classify.
Classify(o) ==
    IF ~o.committed
    THEN IF o.feasible THEN "unnecessary_abstention" ELSE "correct_abstention"
    ELSE IF o.satisfied THEN "committed_success"
    ELSE IF o.feasible THEN "avoidable_miss" ELSE "intrinsic_miss"

\* decompose, the counts behind its rates.
Decompose(os) ==
    [n |-> Len(os),
     feasible |-> Count(os, LAMBDA o : o.feasible),
     committed |-> Count(os, LAMBDA o : o.committed),
     satisfied |-> Count(os, LAMBDA o : o.satisfied),
     committedFeasible |-> Count(os, LAMBDA o : o.committed /\ o.feasible),
     abstainedFeasible |-> Count(os, LAMBDA o : ~o.committed /\ o.feasible),
     class |-> [c \in Classes |-> Count(os, LAMBDA o : Classify(o) = c)],
     selected |-> Total(os, LAMBDA o : Cardinality(o.selected)),
     calls |-> Total(os, LAMBDA o : o.execution + o.exploration)]

\* bound_v1_decomposition: intervals for the joint cells, from the marginals.
BoundV1(total, committed, success, feasible) ==
    LET low == success
        high == Min({committed, feasible})
        rest == Max({0, feasible - high})
    IN [committedFeasible |-> <<low, high>>,
        committedInfeasible |-> <<Max({0, committed - high}), committed - low>>,
        unnecessary |-> <<rest, feasible - low>>,
        correct |-> <<total - committed - (feasible - low), total - committed - rest>>,
        avoidable |-> <<0, committed - success>>,
        intrinsic |-> <<0, committed - success>>]

(***************************************************************************)
(* The comparison with a fixed subset F.                                   *)
(***************************************************************************)
SubsetSucceeds(F, o) == F \cap truth[o.trial] # {}

\* static_outcomes: what F would have done on the same complete trials.
StaticOutcomes(F) ==
    [i \in DOMAIN outcomes |->
       [outcomes[i] EXCEPT !.committed = TRUE, !.selected = F,
          !.satisfied = SubsetSucceeds(F, outcomes[i]),
          !.execution = Cardinality(F), !.exploration = 0]]

\* The paired table of v4_confirmatory.
PairedTable(F) ==
    LET cell(a, f) == Count(outcomes, LAMBDA o : o.satisfied = a
                                                 /\ SubsetSucceeds(F, o) = f)
    IN [n11 |-> cell(TRUE, TRUE), n10 |-> cell(TRUE, FALSE),
        n01 |-> cell(FALSE, TRUE), n00 |-> cell(FALSE, FALSE)]

\* A policy as a point: successes and calls over all trials.
Point(name, os) ==
    [name |-> name, success |-> Count(os, LAMBDA o : o.satisfied),
     calls |-> Total(os, LAMBDA o : o.execution + o.exploration)]

Dominates(a, b) ==
    /\ a.success >= b.success /\ a.calls <= b.calls
    /\ a.success > b.success \/ a.calls < b.calls

\* The points of pareto: the policy run, under the name {}, and every subset.
Points ==
    {Point({}, outcomes)} \cup {Point(F, StaticOutcomes(F)) : F \in Subsets(Providers)}

Frontier(points) == {p \in points : ~ \E q \in points : Dominates(q, p)}

\* The GO rule of v3_holdout: thresholds of 0.02 successes and 0.20 calls.
VerdictV3(a, k) ==
    LET n == Len(outcomes)
        material == \/ 50 * (a.success - k.success) >= n /\ a.calls <= k.calls
                    \/ 5 * (k.calls - a.calls) >= n /\ a.success >= k.success
    IN IF ~Dominates(k, a) /\ material THEN "GO" ELSE "NO-GO"

\* Fault: the interval of the calls stands for their difference.
VerdictV4Fault(a, k, lowSuccess, highCalls) ==
    IF Dominates(k, a) \/ 50 * (a.success - k.success) < -Len(outcomes) THEN "NO_GO"
    ELSE IF /\ a.success >= k.success
            /\ lowSuccess > -2 /\ highCalls < 0 THEN "ROBUST_GO"
    ELSE "INCONCLUSIVE"

\* The verdict of v4_confirmatory, with the ends of its two intervals, in
\* hundredths.
VerdictV4(a, k, lowSuccess, highCalls) ==
    IF Dominates(k, a) \/ 50 * (a.success - k.success) < -Len(outcomes) THEN "NO_GO"
    ELSE IF /\ a.success >= k.success /\ a.calls < k.calls
            /\ lowSuccess > -2 /\ highCalls < 0 THEN "ROBUST_GO"
    ELSE "INCONCLUSIVE"

(***************************************************************************)
(* build_partial_context, with HISTORY_WINDOW_V2 = Window, an observation  *)
(* being accepted iff it is within the deadline.                           *)
(***************************************************************************)
Context(history) ==
    LET first == IF Len(history) > Window THEN Len(history) - Window + 1 ELSE 1
        recent == SubSeq(history, first, Len(history))
        of(p) ==
          LET seen == SelectSeq(recent, LAMBDA r : p \in r.observed)
              failed == {i \in DOMAIN seen : p \notin seen[i].within}
              all == {i \in DOMAIN history : p \in history[i].observed}
          IN [observations |-> Cardinality(all),
              since |-> IF all = {} THEN Unknown ELSE Len(history) - Max(all),
              recent |-> Len(seen),
              within |-> IF seen = << >> THEN Unknown ELSE Len(seen) - Cardinality(failed),
              sinceFailure |-> IF seen = << >> THEN Unknown
                               ELSE IF failed = {} THEN Len(seen)
                               ELSE Len(seen) - Max(failed)]
        scored == SelectSeq(recent, LAMBDA r : r.observed # {})
    IN [provider |-> [p \in Providers |-> of(p)], length |-> Len(history),
        scored |-> Len(scored), hits |-> Count(scored, LAMBDA r : r.within # {})]

\* PROVIDERS[counter % len(PROVIDERS)].
RoundRobin(c) ==
    CHOOSE p \in Providers :
      Cardinality({r \in Providers : r < p}) = c % Cardinality(Providers)

Label(S, w) == IF S \cap w # {} THEN 1 ELSE 0

Record(S, o) == [trial |-> o.trial, observed |-> S, within |-> S \cap truth[o.trial]]

\* What policy_faithful_rows reveals of the c-th complete trial.
Acquired(o, c) ==
    IF c <= coldStart THEN <<Record(Providers, o)>>
    ELSE <<Record({RoundRobin(c)}, o)>>
         \o (IF Explores(c) THEN <<Record(Providers, o)>> ELSE << >>)

\* The training rows of a trial, when the policy has deployed so far; the rows
\* of one trial are one record here, with a target for every subset.
TrainingRow(o, deployed) ==
    [trial |-> o.trial, context |-> Context(deployed),
     target |-> [S \in Subsets(Providers) |-> Label(S, truth[o.trial])]]

\* Fault: the trial is revealed before its rows are made.
FaithfulRowsFault ==
    LET study[n \in 0..Len(outcomes)] ==
          IF n = 0 THEN [deployed |-> << >>, rows |-> << >>]
          ELSE LET revealed == study[n - 1].deployed \o Acquired(outcomes[n], n)
               IN [deployed |-> revealed,
                   rows |-> IF n <= coldStart THEN study[n - 1].rows
                            ELSE Append(study[n - 1].rows,
                                        TrainingRow(outcomes[n], revealed))]
    IN study[Len(outcomes)]

\* policy_faithful_rows over the complete trials of an episode: study[n] is
\* where the loop is after n of them.
FaithfulRows ==
    LET study[n \in 0..Len(outcomes)] ==
          IF n = 0 THEN [deployed |-> << >>, rows |-> << >>]
          ELSE LET deployed == study[n - 1].deployed
               IN [deployed |-> deployed \o Acquired(outcomes[n], n),
                   rows |-> IF n <= coldStart THEN study[n - 1].rows
                            ELSE Append(study[n - 1].rows,
                                        TrainingRow(outcomes[n], deployed))]
    IN study[Len(outcomes)]

-----------------------------------------------------------------------------
Within(n, interval2) == interval2[1] <= n /\ n <= interval2[2]

\* Hazard: the classes are derived from flags of the outcome, and the V1 bounds
\* from marginals alone.  The classes count what their names say of the truth
\* that the policy never saw, and every V1 interval contains the true cell.
DecompositionIsTrue ==
    LET d == Decompose(outcomes)
        bound == BoundV1(d.n, d.committed, d.satisfied, d.feasible)
        missed(o) == o.selected # {} /\ o.selected \cap truth[o.trial] = {}
    IN /\ d.class["avoidable_miss"] =
            Count(outcomes, LAMBDA o : missed(o) /\ truth[o.trial] # {})
       /\ d.class["intrinsic_miss"] =
            Count(outcomes, LAMBDA o : missed(o) /\ truth[o.trial] = {})
       /\ d.class["unnecessary_abstention"] =
            Count(outcomes, LAMBDA o : o.selected = {} /\ truth[o.trial] # {})
       /\ d.class["committed_success"] = d.satisfied
       /\ Within(d.committedFeasible, bound.committedFeasible)
       /\ Within(d.committed - d.committedFeasible, bound.committedInfeasible)
       /\ Within(d.abstainedFeasible, bound.unnecessary)
       /\ Within(d.class["correct_abstention"], bound.correct)
       /\ Within(d.class["avoidable_miss"], bound.avoidable)
       /\ Within(d.class["intrinsic_miss"], bound.intrinsic)

\* Hazard: a comparison over trials that are not the same, or a verdict against
\* its own figures.  Against every fixed subset the discordant cells differ by
\* the successes gained; no policy succeeds where racing everyone fails; what is
\* off the frontier is dominated by something on it; and a verdict in favour
\* is given only to a policy that dominates the fixed subset.
ComparisonIsFair ==
    LET points == Points
        frontier == Frontier(points)
        a == CHOOSE p \in points : p.name = {}
        all == CHOOSE p \in points : p.name = Providers
    IN counter > 0 =>
       /\ \A p \in points :
            /\ p.success <= all.success
            /\ p \in frontier \/ \E q \in frontier : Dominates(q, p)
       /\ \A k \in points \ {a} :
            LET t == PairedTable(k.name)
            IN /\ t.n11 + t.n10 + t.n01 + t.n00 = counter
               /\ t.n10 - t.n01 = a.success - k.success
               /\ \/ VerdictV3(a, k) = "GO"
                  \/ \E low \in {-3, 0}, high \in {-1, 1} :
                       VerdictV4(a, k, low, high) = "ROBUST_GO"
                  => Dominates(a, k) /\ k \notin frontier

\* The history that a row of trial t may know: the complete trials before t.
Before2(t) ==
    FlattenSeq([i \in 1..Cardinality({j \in DOMAIN outcomes : outcomes[j].trial < t}) |->
                  Acquired(outcomes[i], i)])

\* Hazard: training features that have seen what they predict.  The context of
\* a row is that of the trials before it and no later one, its targets are those
\* of its own trial, there is a row for every trial after the cold start, and
\* the round robin leaves no provider unobserved for longer than it takes.
RowsLookBack ==
    LET study == FaithfulRows
    IN /\ Len(study.rows) = Max({0, counter - coldStart})
       /\ \A i \in DOMAIN study.rows :
            LET row == study.rows[i]
            IN /\ row.trial = outcomes[coldStart + i].trial
               /\ row.context = Context(Before2(row.trial))
               /\ \A S \in Subsets(Providers) :
                    row.target[S] = 1 <=> \E p \in S : row.target[{p}] = 1
               /\ row.target[Providers] = 1 <=> outcomes[coldStart + i].feasible
       /\ \A p \in Providers, i \in DOMAIN outcomes :
            i >= Cardinality(Providers) =>
              \E k \in DOMAIN study.deployed :
                /\ p \in study.deployed[k].observed
                /\ study.deployed[k].trial \in
                     {outcomes[j].trial : j \in (i - Cardinality(Providers) + 1)..i}
=============================================================================
