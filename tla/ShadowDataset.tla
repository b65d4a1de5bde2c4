--------------------------- MODULE ShadowDataset ---------------------------
(***************************************************************************)
(* TrialAnalysis over a dataset that anything may have written: the two    *)
(* append-only files are read back from disk, and the audit is there       *)
(* because nobody vouches for them.  ShadowMeasurement has the program     *)
(* that writes them.                                                       *)
(***************************************************************************)
EXTENDS TrialAnalysis

CONSTANTS
    TrialRows,          \* rows that shadow_trials.jsonl may have
    ObservationRows,    \* rows that shadow_observations.jsonl may have
    MaxTrials,          \* bound on the rows of the first
    MaxObservations     \* and of the second

\* What the constants are assumed to be: rows have the fields of the models
\* that they are written from, and None is not a reason of derive_trial.
DatasetAssumption ==
    /\ MaxTrials \in Nat /\ MaxObservations \in Nat
    /\ \A t \in TrialRows : t.complete \in BOOLEAN
    /\ \A o \in ObservationRows :
         o.latency \in Int /\ o.accepted \in BOOLEAN /\ o.resolver # None
    /\ None # "observations missing"

VARIABLES trials, observations

vars == <<trials, observations>>

Init == trials = << >> /\ observations = << >>

RecordTrial(row) ==
    /\ Len(trials) < MaxTrials
    /\ trials' = Append(trials, row)
    /\ UNCHANGED observations

RecordObservation(row) ==
    /\ Len(observations) < MaxObservations
    /\ observations' = Append(observations, row)
    /\ UNCHANGED trials

Next ==
    \/ \E row \in TrialRows : RecordTrial(row)
    \/ \E row \in ObservationRows : RecordObservation(row)

Spec == Init /\ [][Next]_vars

-----------------------------------------------------------------------------
Derivations == DeriveAll(trials, observations)
RowsOf(i) == ObservationsOf(trials[i].key, observations)
Analyzed == {i \in DOMAIN trials : Derivations[i].analyzable}

Answers(rows) == {o \in ToSet(rows) : o.status # None}
Quickest(S) == {o \in S : \A p \in S : o.latency <= p.latency}
Named(S) == {o.resolver : o \in S}

\* The two winners are a quickest answer and a quickest accepted answer, and a
\* censored observation, whose latency is only its deadline, is neither.
WinnersAreQuickest ==
    \A i \in Analyzed :
      LET answers == Answers(RowsOf(i))
          good == {o \in answers : o.accepted}
      IN /\ Derivations[i].fastest.resolver \in Named(Quickest(answers))
         /\ Derivations[i].fastestAccepted.resolver \in Named(Quickest(good))

Rearranged(rows) ==
    {[i \in DOMAIN rows |-> rows[f[i]]] :
       f \in {g \in [DOMAIN rows -> DOMAIN rows] :
                \A a, b \in DOMAIN rows : g[a] = g[b] => a = b}}

\* The order in which observations were written decides a winner only where
\* the derivation says that there is a tie, and it never decides whether a
\* trial is analyzed or whether there is a tie.
OrderDecidesOnlyTies ==
    \A i \in DOMAIN trials : \A rows \in Rearranged(RowsOf(i)) :
      LET here == Derivations[i]
          there == DeriveTrial(trials[i], rows)
      IN /\ there.analyzable = here.analyzable
         /\ there.fastest.tied = here.fastest.tied
         /\ there.fastestAccepted.tied = here.fastestAccepted.tied
         /\ ~here.fastest.tied => there.fastest = here.fastest
         /\ ~here.fastestAccepted.tied => there.fastestAccepted = here.fastestAccepted

\* A dataset that passes the audit has what the analysis takes for granted:
\* every complete trial has one row of its own provenance for each of as many
\* resolvers as it expected, and none is excluded for missing rows.
AuditedIsWhole ==
    Violations(trials, observations) = {} =>
      \A i \in DOMAIN trials :
        trials[i].complete =>
          /\ Cardinality(Named(ToSet(RowsOf(i)))) = trials[i].expected
          /\ Len(RowsOf(i)) = trials[i].expected
          /\ Derivations[i].why # "observations missing"
          /\ \A o \in ToSet(RowsOf(i)) : o.accepted => o.status = 200

\* The summary accounts for every trial: it is excluded, or its two winners
\* agree, or they differ.
SummaryAddsUp ==
    LET s == Summary(Derivations)
    IN /\ s.total = s.analyzable + s.excluded
       /\ s.analyzable = s.equal + s.differs
       /\ s.total = Len(trials)
       /\ s.analyzable = Cardinality(Analyzed)

\* Hazard: rows that are missing, doubled, censored or tied.  The derivation,
\* the summary and the audit say what the rows say, in whatever order they
\* were appended.
AnalysisIsSound ==
    WinnersAreQuickest /\ OrderDecidesOnlyTies /\ AuditedIsWhole /\ SummaryAddsUp
=============================================================================
