----------------------------- MODULE ClosedLoop -----------------------------
(***************************************************************************)
(* The closed loop of learning/runner_v2.py: a policy that learns only     *)
(* from the providers it calls (learning/closedloop.py), with the rolling  *)
(* empirical estimator and the exact optimizer.  The outcome of a trial is *)
(* the set of providers that answer acceptably within the deadline.  A     *)
(* definition called Fault is a mistake the code does not make, see        *)
(* BudgetWindow.                                                           *)
(***************************************************************************)
EXTENDS SubsetSelection, SequencesExt

CONSTANTS
    Targets,        \* target probabilities
    Window,         \* window of the estimator
    Intervals,      \* exploration intervals, 0 for none
    ColdStarts,     \* lengths of the cold start
    MaxTrials       \* bound on the trials of a run

ASSUME ClosedLoopAssumption ==
    /\ Targets \subseteq 1..Scale /\ Intervals \subseteq Nat /\ ColdStarts \subseteq Nat
    /\ Window \in Nat \ {0} /\ MaxTrials \in Nat
    /\ Providers # {}
    \* The estimates are then exact.
    /\ \A n \in 2..(Window + 2) : Scale % n = 0

VARIABLES
    mode, target, interval, coldStart,      \* the arguments of run_closed_loop
    trials,         \* trials of the run so far
    index,          \* trials of the episode so far
    truth,          \* their outcomes, the evaluator's ground truth
    counter,        \* complete trials of the episode so far
    deployment,     \* DeploymentObservedHistory
    subsetHistory,  \* outcomes of every subset, as far as they are known
    outcomes        \* the ClosedLoopOutcomes of the episode

arguments == <<mode, target, interval, coldStart>>
learned == <<deployment, subsetHistory>>
vars == <<arguments, trials, index, truth, counter, learned, outcomes>>

NoOutcomes == [S \in Subsets(Providers) |-> << >>]

Init ==
    /\ mode \in {"strict-slo", "service-best-effort"}
    /\ target \in Targets /\ interval \in Intervals /\ coldStart \in ColdStarts
    /\ trials = 0 /\ index = 0 /\ counter = 0
    /\ truth = << >> /\ outcomes = << >>
    /\ deployment = << >> /\ subsetHistory = NoOutcomes

\* RollingEmpiricalEstimator.estimate from the history h of a subset, with the
\* default prior and weight.
Estimate(h) ==
    LET recent == SubSeq(h, IF Len(h) > Window THEN Len(h) - Window + 1 ELSE 1, Len(h))
        hits == Cardinality({i \in DOMAIN recent : recent[i] = 1})
    IN  ((hits + 1) * Scale) \div (Len(recent) + 2)

Estimates(history) == [S \in Subsets(Providers) |-> Estimate(history[S])]

Plan(q, t) == Select(Providers, q, t, "require-complete", FALSE, 12)

\* The providers executed: the plan's, the best estimated ones as a fallback
\* in best-effort mode, or none.
Selected(q, m, t) ==
    LET plan == Plan(q, t) IN
    IF plan.subset # {} THEN plan.subset
    ELSE IF m = "service-best-effort"
    THEN IF plan.best # {} THEN plan.best ELSE Providers
    ELSE {}

\* Fault: the first exploration is skipped.
ExploresLate(c) == interval # 0 /\ c > interval /\ c % interval = 0

\* should_explore.
Explores(c) == interval # 0 /\ c > 0 /\ c % interval = 0

\* Fault: exploration is charged only for what was not executed.
ChargedOnce(explore, selected) ==
    IF explore THEN Cardinality(Providers \ selected) ELSE 0

\* exploration_calls.
ExplorationCalls(explore, selected) == IF explore THEN Cardinality(Providers) ELSE 0

\* Fault: every outcome is revealed.
RevealedAll(S, w, source) ==
    [trial |-> index + 1, observed |-> Providers, within |-> w, source |-> source]

\* reveal_subset.
Revealed(S, w, source) ==
    [trial |-> index + 1, observed |-> S, within |-> w \cap S, source |-> source]

\* Fault: what is not known is a failure.
KnownOrFailed(S, observed, w) == IF S \cap observed \cap w # {} THEN 1 ELSE 0

\* Fault: what is not known is a success.
KnownOrMet(S, observed, w) ==
    IF S \cap observed \cap w # {} \/ ~(S \subseteq observed) THEN 1 ELSE 0

\* known_subset_outcome.
KnownOutcome(S, observed, w) ==
    IF S \cap observed \cap w # {} THEN 1
    ELSE IF S \subseteq observed THEN 0 ELSE Unknown

\* update_subset_history.
Updated(observed, w) ==
    [S \in Subsets(Providers) |->
       IF KnownOutcome(S, observed, w) = Unknown THEN subsetHistory[S]
       ELSE Append(subsetHistory[S], KnownOutcome(S, observed, w))]

Outcome(committed, selected, w, execution, exploration) ==
    [trial |-> index + 1, committed |-> committed, selected |-> selected,
     satisfied |-> selected \cap w # {}, feasible |-> w # {},
     execution |-> execution, exploration |-> exploration]

\* The next trial of the episode has outcome w.
NextTrial(w) ==
    /\ trials < MaxTrials
    /\ trials' = trials + 1
    /\ index' = index + 1
    /\ truth' = Append(truth, w)
    /\ UNCHANGED arguments

\* A trial that the evaluator could not observe completely is skipped.
Skip ==
    /\ NextTrial({})
    /\ UNCHANGED <<counter, learned, outcomes>>

\* A trial of the cold start calls every provider.
WarmUp(w) ==
    /\ counter < coldStart
    /\ NextTrial(w)
    /\ counter' = counter + 1
    /\ deployment' = Append(deployment, Revealed(Providers, w, "warmup"))
    /\ subsetHistory' = Updated(Providers, w)
    /\ outcomes' = Append(outcomes,
                          Outcome(TRUE, Providers, w, 0, Cardinality(Providers)))

\* A trial whose outcome is w executes selected, explores perhaps, and is
\* learned from.
Execute(selected, w) ==
    /\ NextTrial(w)
    /\ counter' = counter + 1
    /\ LET explore == Explores(counter')
           observed == IF explore THEN Providers ELSE selected
       IN
       /\ deployment' =
            deployment
            \o (IF selected = {} THEN << >>
                ELSE <<Revealed(selected, w, "selected_execution")>>)
            \o (IF explore THEN <<Revealed(Providers, w, "scheduled_exploration")>>
                ELSE << >>)
       /\ subsetHistory' = Updated(observed, w)
       /\ outcomes' = Append(outcomes,
                             Outcome(selected # {}, selected, w, Cardinality(selected),
                                     ExplorationCalls(explore, selected)))

\* A trial after the cold start is planned from what has been learned.
Trial ==
    /\ counter >= coldStart
    /\ LET selected == Selected(Estimates(subsetHistory), mode, target) IN
       \E w \in SUBSET Providers : Execute(selected, w)

\* The next episode starts from nothing.
NewEpisode ==
    /\ index > 0 /\ trials < MaxTrials
    /\ index' = 0 /\ counter' = 0
    /\ truth' = << >> /\ outcomes' = << >>
    /\ deployment' = << >> /\ subsetHistory' = NoOutcomes
    /\ UNCHANGED <<arguments, trials>>

Next ==
    \/ Skip
    \/ \E w \in SUBSET Providers : WarmUp(w)
    \/ Trial
    \/ NewEpisode

Spec == Init /\ [][Next]_vars

-----------------------------------------------------------------------------
Bits == {0, 1}

TypeOK ==
    /\ mode \in {"strict-slo", "service-best-effort"}
    /\ target \in Targets /\ interval \in Intervals /\ coldStart \in ColdStarts
    /\ trials \in 0..MaxTrials /\ index \in 0..trials /\ counter \in 0..index
    /\ truth \in Seq(SUBSET Providers) /\ Len(truth) = index
    /\ deployment \in Seq([trial : 1..index, observed : SUBSET Providers,
                           within : SUBSET Providers,
                           source : {"warmup", "selected_execution",
                                     "scheduled_exploration"}])
    /\ subsetHistory \in [Subsets(Providers) -> Seq(Bits)]
    /\ outcomes \in Seq([trial : 1..index, committed : BOOLEAN,
                         selected : SUBSET Providers, satisfied : BOOLEAN,
                         feasible : BOOLEAN, execution : Nat, exploration : Nat])

\* The providers that the policy called in the trial of an outcome.
CalledIn(o) == o.selected \cup (IF o.exploration > 0 THEN Providers ELSE {})

ObservedIn(t) ==
    UNION {deployment[k].observed : k \in {k \in DOMAIN deployment : deployment[k].trial = t}}

\* The policy learns from what it called and from nothing else: what it has
\* observed of a trial is what it called in it, with the true outcomes.
HistoryIsAcquired ==
    /\ \A i \in DOMAIN outcomes : ObservedIn(outcomes[i].trial) = CalledIn(outcomes[i])
    /\ \A k \in DOMAIN deployment :
         LET r == deployment[k] IN
         /\ \E i \in DOMAIN outcomes : outcomes[i].trial = r.trial
         /\ r.within = r.observed \cap truth[r.trial]

\* The outcome of S in a trial follows from what was called in it.
Determined(S, o) ==
    LET t == truth[o.trial] IN
    \A w \in SUBSET Providers :
      w \cap CalledIn(o) = t \cap CalledIn(o) => (w \cap S = {} <=> t \cap S = {})

\* The history of a subset holds its true outcome in exactly the trials that
\* determine it, in their order: what was not observed is no failure.
KnownOutcomesTrue ==
    \A S \in Subsets(Providers) :
      LET known == {i \in DOMAIN outcomes : Determined(S, outcomes[i])} IN
      /\ Len(subsetHistory[S]) = Cardinality(known)
      /\ \A i \in known :
           subsetHistory[S][Cardinality({j \in known : j <= i})]
             = IF S \cap truth[outcomes[i].trial] # {} THEN 1 ELSE 0

\* What a history h has of trial t: which record observed which provider.
Acquisitions(h, t) ==
    {x \in (DOMAIN h) \X Providers : h[x[1]].trial = t /\ x[2] \in h[x[1]].observed}

\* Every observation is paid for: the calls reported of a trial are the
\* observations acquired in it, those of exploration and of the cold start
\* included.
CallsArePaid ==
    \A i \in DOMAIN outcomes :
      outcomes[i].execution + outcomes[i].exploration
        = Cardinality(Acquisitions(deployment, outcomes[i].trial))

\* A strict policy that does not explore never recovers from an abstention:
\* the trap for which the cold start and exploration exist.
AbstentionSticks ==
    mode = "strict-slo" /\ interval = 0 =>
      \A i, j \in DOMAIN outcomes :
        i < j /\ ~outcomes[i].committed => ~outcomes[j].committed

\* With an exploration interval no provider stays unobserved for that many
\* complete trials, whatever the policy selects.
NoBlindSpot ==
    interval # 0 =>
      \A i \in DOMAIN outcomes : i >= interval =>
        \A p \in Providers :
          \E j \in (i - interval + 1)..i : p \in ObservedIn(outcomes[j].trial)

\* trials_since_observed, Unknown for NO_HISTORY.
TrialsSinceObserved(p) ==
    LET seen == {k \in DOMAIN deployment : p \in deployment[k].observed} IN
    IF seen = {} THEN Unknown
    ELSE Len(deployment) - CHOOSE k \in seen : \A m \in seen : m <= k

\* trials_since_observed counts trials: those after the last in which the
\* provider was observed.
AgeIsInTrials ==
    \A p \in Providers :
      LET seen == {i \in DOMAIN outcomes : p \in ObservedIn(outcomes[i].trial)} IN
      seen # {} =>
        TrialsSinceObserved(p)
          = Len(outcomes) - CHOOSE i \in seen : \A j \in seen : j <= i
=============================================================================
