--------------------------- MODULE HoldoutEpisode ---------------------------
(***************************************************************************)
(* An episode of controlled trials: generate_episode_async of              *)
(* learning/dataset.py, which makes training rows, and run_holdout of      *)
(* scripts/prospective_holdout.py, which compares policies, are the same   *)
(* loop and keep different books of it; both are kept here.  Every trial   *)
(* injects a behaviour into each resolver and then probes them all.  A     *)
(* definition called Fault is a mistake the code does not make, see        *)
(* BudgetWindow.                                                           *)
(***************************************************************************)
EXTENDS SubsetSelection

CONSTANTS
    Target,         \* target probability
    Window,         \* HISTORY_WINDOW, and the window of the estimator
    MaxTrials       \* trials of the episode

\* What the constants are assumed to be: PROVIDERS has three members, and the
\* fixed pair needs two.
EpisodeAssumption ==
    /\ Cardinality(Providers) >= 2
    /\ Target \in 1..Scale /\ Window \in Nat \ {0} /\ MaxTrials \in Nat

\* DEADLINE_TAU_MS on a scale of completion offsets.
Tau == 2

\* What is injected, and what a probe can then show; a probe that raises shows
\* nothing.
Behaviours == {"fast", "slow", "error"}
Lost == [observed |-> FALSE, accepted |-> FALSE, offset |-> 0]
Showing(b) ==
    {Lost} \cup [observed: {TRUE}, accepted: {b # "error"},
                 offset: IF b = "slow" THEN {2, 3} ELSE {1}]

VARIABLES
    phase,          \* of the trial: idle, injecting, probing, or raised
    injected,       \* the behaviour of each resolver
    sampled,        \* the behaviours of the trial
    set,            \* the resolvers that have got theirs
    seen,           \* observations of the trial, by provider
    prepared,       \* context, predictions and plan of the trial
    history,        \* the trials so far
    subsetHistory,  \* outcomes of every subset
    rows,           \* dataset rows
    scored,         \* y_true and y_prob
    decided         \* the DecisionOutcomes of every policy

trial == <<phase, injected, sampled, set, seen, prepared>>
books == <<history, subsetHistory, rows, scored, decided>>
vars == <<trial, books>>

Policies == {"adaptive", "single", "failover", "pair", "all-race"}
Order == SubsetKey[Providers]
Fixed(policy) ==
    CASE policy = "single" -> {Order[1]}
      [] policy = "pair" -> {Order[1], Order[2]}
      [] policy = "all-race" -> Providers

Init ==
    /\ phase = "idle"
    /\ injected = [p \in Providers |-> "fast"]
    /\ sampled = injected /\ set = {}
    /\ seen = << >> /\ prepared = << >>
    /\ history = << >> /\ rows = << >> /\ scored = << >>
    /\ subsetHistory = [S \in Subsets(Providers) |-> << >>]
    /\ decided = [k \in Policies |-> << >>]

WithinDeadline(o) == o.observed /\ o.accepted /\ o.offset <= Tau

\* subset_target.
SubsetTarget(observations, S) ==
    IF \E p \in S : WithinDeadline(observations[p]) THEN 1 ELSE 0

LastOf(s) == SubSeq(s, IF Len(s) > Window THEN Len(s) - Window + 1 ELSE 1, Len(s))

\* build_context; its rates are counts here, the error and timeout rates and
\* the percentiles are left out.
Context(h) ==
    LET recent == LastOf(h)
        of(p) ==
          LET mine == SelectSeq(recent, LAMBDA r : r.observations[p].observed)
              failed == {i \in DOMAIN mine : ~mine[i].observations[p].accepted}
          IN [observed |-> Len(mine),
              accepted |-> Len(mine) - Cardinality(failed),
              within |-> Len(SelectSeq(recent, LAMBDA r : WithinDeadline(r.observations[p]))),
              sinceFailure |->
                IF mine = << >> THEN Unknown
                ELSE Len(mine) - (IF failed = {} THEN 0
                                  ELSE CHOOSE i \in failed : \A j \in failed : j <= i)]
    IN [length |-> Len(h), recent |-> Len(recent), provider |-> [p \in Providers |-> of(p)],
        hits |-> Len(SelectSeq(recent, LAMBDA r : SubsetTarget(r.observations, Providers) = 1))]

\* The rolling estimator on the outcomes of a subset.
Estimate(outcomes) ==
    LET recent == LastOf(outcomes)
        hits == Cardinality({i \in DOMAIN recent : recent[i] = 1})
    IN ((hits + 1) * Scale) \div (Len(recent) + 2)

\* The q_hat of every subset.
Estimates == [S \in Subsets(Providers) |-> Estimate(subsetHistory[S])]

\* Steps 1 to 4 of a trial, and its sampled behaviours.
Prepare ==
    /\ phase = "idle" /\ Len(history) < MaxTrials
    /\ prepared' = [context |-> Context(history), q |-> Estimates,
                    plan |-> Select(Providers, Estimates, Target, "require-complete",
                                    FALSE, 12)]
    /\ sampled' \in [Providers -> Behaviours]
    /\ phase' = "injecting"
    /\ UNCHANGED <<injected, set, seen, books>>

NextToSet(p) == p \notin set /\ \A r \in Providers \ set : p <= r

\* apply_behaviors_async: one resolver after the other.
Apply(p) ==
    /\ phase = "injecting" /\ NextToSet(p)
    /\ injected' = [injected EXCEPT ![p] = sampled[p]]
    /\ set' = set \cup {p}
    /\ phase' = IF set' = Providers THEN "probing" ELSE phase
    /\ UNCHANGED <<sampled, seen, prepared, books>>

\* A resolver does not accept its behaviour, and the script ends.
ApplyFails(p) ==
    /\ phase = "injecting" /\ NextToSet(p)
    /\ phase' = "raised"
    /\ UNCHANGED <<injected, sampled, set, seen, prepared, books>>

Probing == phase = "probing"

\* The probe of p ends.
Observe(p) ==
    /\ Probing /\ p \notin DOMAIN seen
    /\ \E o \in Showing(injected[p]) :
         seen' = [r \in DOMAIN seen \cup {p} |-> IF r = p THEN o ELSE seen[r]]
    /\ UNCHANGED <<phase, injected, sampled, set, prepared, books>>

\* What the first n attempts of a sequence have taken together.
Elapsed(observations) ==
    LET elapsed[n \in 0..Len(Order)] ==
          IF n = 0 THEN 0 ELSE elapsed[n - 1] + observations[Order[n]].offset
    IN elapsed

\* Fault: the attempts of a sequence each have the whole deadline.
FailoverFault(observations) ==
    LET good == {i \in DOMAIN Order : WithinDeadline(observations[Order[i]])}
    IN IF good = {} THEN [satisfied |-> FALSE, calls |-> Len(Order)]
       ELSE [satisfied |-> TRUE, calls |-> CHOOSE i \in good : \A j \in good : i <= j]

\* sequential_failover_outcome: the attempts share the deadline.
Failover(observations) ==
    LET ends(n) ==
          \/ ~observations[Order[n]].observed
          \/ observations[Order[n]].accepted /\ Elapsed(observations)[n] <= Tau
          \/ Elapsed(observations)[n] > Tau
          \/ n = Len(Order)
        last == CHOOSE n \in DOMAIN Order : ends(n) /\ \A m \in 1..(n - 1) : ~ends(m)
    IN [satisfied |-> observations[Order[last]].accepted
                      /\ Elapsed(observations)[last] <= Tau,
        calls |-> last]

\* The DecisionOutcome of a policy on the trial.
DecisionOf(policy, observations) ==
    LET plan == prepared.plan
        outcome(S, status) ==
          [trial |-> Len(history) + 1, status |-> status, calls |-> Cardinality(S),
           satisfied |-> SubsetTarget(observations, S) = 1]
    IN CASE policy = "adaptive" -> outcome(plan.subset, plan.status)
         [] policy = "failover" ->
              [outcome({}, "SELECTED") EXCEPT !.calls = Failover(observations).calls,
                                              !.satisfied = Failover(observations).satisfied]
         [] OTHER -> outcome(Fixed(policy), "SELECTED")

\* Fault: the context is that of the history with the trial in it.
RowContextFault(record) == Context(Append(history, record))

RowContext(record) == prepared.context

\* The outcome is revealed; a trial with a lost probe is only remembered.
Conclude ==
    /\ phase = "probing" /\ DOMAIN seen = Providers
    /\ LET complete == \A p \in Providers : seen[p].observed
           record == [observations |-> seen, complete |-> complete, sampled |-> sampled]
           now == Len(history) + 1
           target == [S \in Subsets(Providers) |-> SubsetTarget(seen, S)]
       IN
       /\ history' = Append(history, record)
       /\ IF complete
          THEN /\ subsetHistory' = [S \in Subsets(Providers) |->
                                      Append(subsetHistory[S], target[S])]
               /\ rows' = Append(rows, [trial |-> now, context |-> RowContext(record),
                                        target |-> target])
               /\ scored' = Append(scored, [trial |-> now, q |-> prepared.q,
                                            target |-> target])
               /\ decided' = [k \in Policies |-> Append(decided[k], DecisionOf(k, seen))]
          ELSE UNCHANGED <<subsetHistory, rows, scored, decided>>
    /\ phase' = "idle" /\ set' = {} /\ seen' = << >> /\ prepared' = << >>
    /\ UNCHANGED <<injected, sampled>>

Next ==
    \/ Prepare \/ Conclude
    \/ \E p \in Providers : Apply(p) \/ ApplyFails(p) \/ Observe(p)

Spec == Init /\ [][Next]_vars

-----------------------------------------------------------------------------
CompleteTrials == {t \in DOMAIN history : history[t].complete}

\* The complete trials before trial t, in their order.
CompleteBefore(t) ==
    LET known == CompleteTrials \cap 1..(t - 1)
    IN [n \in 1..Cardinality(known) |->
          history[CHOOSE u \in known : Cardinality(known \cap 1..u) = n]]

\* Hazard: an outcome that is known before it is revealed.  What a row or a
\* prediction of a trial knows is what the trials before it showed, incomplete
\* ones only to the context; and what a trial showed is what was injected for
\* it, into every resolver.
TrialsLookBack ==
    /\ \A t \in DOMAIN history, p \in Providers :
         history[t].observations[p] \in Showing(history[t].sampled[p])
    /\ \A i \in DOMAIN rows :
         LET t == rows[i].trial IN
         /\ rows[i].context = Context(SubSeq(history, 1, t - 1))
         /\ scored[i].trial = t
         /\ \A S \in Subsets(Providers) :
              LET before == CompleteBefore(t) IN
              scored[i].q[S] =
                Estimate([j \in DOMAIN before |-> SubsetTarget(before[j].observations, S)])

\* Hazard: policies compared on different trials, or counterfactually better
\* than they could be.  Every policy has an outcome for exactly the complete
\* trials, in their order; none is satisfied where racing all is not; and a
\* sequence that is satisfied has called no more providers than it needs and
\* would be as a race.
PoliciesArePaired ==
    \A k \in Policies :
      /\ {decided[k][i].trial : i \in DOMAIN decided[k]} = CompleteTrials
      /\ \A i, j \in DOMAIN decided[k] : i < j => decided[k][i].trial < decided[k][j].trial
      /\ \A i \in DOMAIN decided[k] :
           LET o == decided[k][i]
               observations == history[o.trial].observations
           IN /\ o.satisfied => decided["all-race"][i].satisfied
              /\ o.calls <= decided["all-race"][i].calls
              /\ k = "failover" /\ o.satisfied =>
                   /\ WithinDeadline(observations[Order[o.calls]])
                   /\ \A n \in 1..(o.calls - 1) :
                        ~observations[Order[n]].accepted
                        /\ observations[Order[n]].offset
                             + observations[Order[o.calls]].offset <= Tau
              /\ o.status = "SELECTED" <=> o.calls > 0
=============================================================================
