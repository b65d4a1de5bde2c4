------------------------- MODULE ShadowMeasurement -------------------------
(***************************************************************************)
(* A measurement campaign: scripts/measurement_qualification.py sets every *)
(* mock resolver up for a scenario (scenarios.py), observes all of them    *)
(* for each trial (shadow.py), appends what it saw to two files            *)
(* (telemetry.py), and judges its own part of the files (analysis.py).     *)
(* The process may die at any step and be started again: the files and the *)
(* resolvers stay as they are.  A definition called Fault is a mistake the *)
(* code does not make, see BudgetWindow.                                   *)
(***************************************************************************)
EXTENDS TrialAnalysis, ResolverBehaviour

CONSTANTS
    Endpoints,      \* config.resolvers, a sequence
    Scenarios,      \* the scenarios of a campaign, in order
    Injected,       \* the full behaviour a scenario gives every resolver
    Modes,          \* "parallel" or "sequential", by scenario
    Truth,          \* the two winners a scenario is built to have, or None
    Trials,         \* trials per scenario
    Healths,        \* behaviours that earlier scripts may have left
    MaxCampaigns    \* bound on the times the script is started

Ids == ToSet(Endpoints)

\* What the constants are assumed to be.
MeasurementAssumption ==
    /\ Endpoints \in Seq(Ids) /\ Endpoints # << >>
    /\ \A i, j \in DOMAIN Endpoints : Endpoints[i] = Endpoints[j] => i = j
    /\ Scenarios \in Seq(ToSet(Scenarios)) /\ Scenarios # << >>
    /\ Injected \in [ToSet(Scenarios) -> [Ids -> Behaviours({0})]]
    /\ Modes \in [ToSet(Scenarios) -> {"parallel", "sequential"}]
    /\ Healths \subseteq Behaviours({0})
    /\ Trials \in Nat \ {0} /\ MaxCampaigns \in Nat

VARIABLES
    behaviours,     \* the behaviour each resolver process has now
    trials,         \* shadow_trials.jsonl
    observations,   \* shadow_observations.jsonl
    experiment,     \* experiment_id of the campaign, 0 before the first
    phase,          \* where the script is
    scenario,       \* position of the current scenario
    done,           \* trials of it that are recorded
    todo,           \* resolvers still to be reset or set
    probes,         \* how far the probe of each resolver is
    unsaved,        \* rows of the ended trial not yet appended
    record,         \* its trial record
    kept            \* all_trials: records and rows held in memory

files == <<trials, observations>>
work == <<scenario, done, todo, probes, unsaved, record, kept>>
vars == <<behaviours, files, experiment, phase, work>>

NoProbes == [r \in Ids |-> [step |-> "none"]]
NoRecord == [key |-> None]
Blank == [trials |-> << >>, rows |-> << >>]

Init ==
    /\ behaviours \in [Ids -> Healths]
    /\ trials = << >> /\ observations = << >>
    /\ experiment = 0
    /\ phase = "stopped"
    /\ scenario = 1 /\ done = 0 /\ todo = << >>
    /\ probes = NoProbes /\ unsaved = << >>
    /\ record = NoRecord /\ kept = Blank

Current == Scenarios[scenario]

\* main: a new experiment id, and the first scenario.
Start ==
    /\ phase = "stopped" /\ experiment < MaxCampaigns
    /\ experiment' = experiment + 1
    /\ phase' = "resetting" /\ todo' = Endpoints
    /\ scenario' = 1 /\ done' = 0 /\ kept' = Blank
    /\ probes' = NoProbes /\ unsaved' = << >> /\ record' = NoRecord
    /\ UNCHANGED <<behaviours, files>>

\* reset_resolvers: one POST per resolver.
ResetNext ==
    /\ phase \in {"resetting", "leaving"} /\ todo # << >>
    /\ behaviours' = [behaviours EXCEPT ![Head(todo)] = Healthy]
    /\ todo' = Tail(todo)
    /\ UNCHANGED <<files, experiment, phase, scenario, done, probes,
                   unsaved, record, kept>>

AllReset ==
    /\ phase \in {"resetting", "leaving"} /\ todo = << >>
    /\ IF phase = "resetting" THEN phase' = "applying" /\ todo' = Endpoints
                              ELSE phase' = "judging" /\ UNCHANGED todo
    /\ UNCHANGED <<behaviours, files, experiment, scenario, done,
                   probes, unsaved, record, kept>>

\* Fault: the status of the admin call is not checked.
ApplyNextFault ==
    /\ phase = "applying" /\ todo # << >>
    /\ \E b \in {Injected[Current][Head(todo)], behaviours[Head(todo)]} :
         behaviours' = [behaviours EXCEPT ![Head(todo)] = b]
    /\ todo' = Tail(todo)
    /\ UNCHANGED <<files, experiment, phase, scenario, done, probes, unsaved,
                   record, kept>>

\* apply_scenario: the full behaviour, to every resolver of the topology.
ApplyNext ==
    /\ phase = "applying" /\ todo # << >>
    /\ behaviours' =
         [behaviours EXCEPT ![Head(todo)] = Injected[Current][Head(todo)]]
    /\ todo' = Tail(todo)
    /\ UNCHANGED <<files, experiment, phase, scenario, done, probes,
                   unsaved, record, kept>>

Waiting(step) == {i \in DOMAIN Endpoints : probes[Endpoints[i]].step = step}

\* run_trial begins: in parallel mode every probe is launched at once.
BeginTrial ==
    /\ phase = "applying" /\ todo = << >>
    /\ phase' = "probing"
    /\ probes' = [r \in Ids |->
         [step |-> IF Modes[Current] = "parallel" \/ r = Head(Endpoints)
                   THEN "launched" ELSE "waiting"]]
    /\ UNCHANGED <<behaviours, files, experiment, scenario, done, todo,
                   unsaved, record, kept>>

\* The request reaches the resolver, which reads its behaviour.
Arrive(r) ==
    /\ phase = "probing" /\ probes[r].step = "launched"
    /\ probes' = [probes EXCEPT ![r] = [step |-> "held", taken |-> behaviours[r]]]
    /\ UNCHANGED <<behaviours, files, experiment, phase, scenario, done,
                   todo, unsaved, record, kept>>

\* A probe ends; a sequential trial launches the next one.
Ended(r, result) ==
    [q \in Ids |->
       IF q = r THEN [step |-> "ended", result |-> result]
       ELSE IF \E i \in Waiting("waiting") :
                 /\ Endpoints[i] = q
                 /\ \A j \in Waiting("waiting") : i <= j
            THEN [step |-> "launched"] ELSE probes[q]]

Key == [experiment |-> experiment, trial |-> <<scenario, done + 1>>]
Binding == [scenario |-> Current, injection |-> Injected[Current]]

Observation(r, status, document, latency, taken) ==
    [key |-> Key, binding |-> Binding, resolver |-> r, status |-> status,
     accepted |-> status = 200 /\ document = Document(Healthy),
     valid |-> IF status = 200 THEN document = Document(Healthy) ELSE None,
     latency |-> latency, span |-> latency, taken |-> taken]

\* dispatch_attempt gets a response.  A delayed one is the slower.
Respond(r) ==
    /\ phase = "probing" /\ probes[r].step = "held" /\ ~probes[r].taken.timeout
    /\ LET b == probes[r].taken
           reply == ReplyTo(b, 1)
       IN probes' = Ended(r, Observation(r,
            IF reply.status = "ok" THEN 200 ELSE 503, reply.document,
            IF b.delay THEN 2 ELSE 1, b))
    /\ UNCHANGED <<behaviours, files, experiment, phase, scenario, done,
                   todo, unsaved, record, kept>>

\* The deadline passes, or the connection fails: the row is censored.
Censor(r) ==
    /\ phase = "probing" /\ probes[r].step \in {"launched", "held"}
    /\ probes' = Ended(r, Observation(r, None, NoDocument, 3, None))
    /\ UNCHANGED <<behaviours, files, experiment, phase, scenario, done,
                   todo, unsaved, record, kept>>

\* The probe breaks: nothing is recorded for this resolver.
ProbeRaises(r) ==
    /\ phase = "probing" /\ probes[r].step \in {"launched", "held"}
    /\ probes' = Ended(r, None)
    /\ UNCHANGED <<behaviours, files, experiment, phase, scenario, done,
                   todo, unsaved, record, kept>>

\* The rows of a trial, in the order of the endpoints.
Gathered ==
    LET results == [i \in DOMAIN Endpoints |-> probes[Endpoints[i]].result]
    IN Rows(results, LAMBDA x : x # None)

RecordOf(rows) ==
    [key |-> Key, binding |-> Binding, mode |-> Modes[Current],
     expected |-> Len(Endpoints), actual |-> Len(rows),
     complete |-> Len(rows) = Len(Endpoints), skew |-> Len(rows) >= 2]

EndTrial ==
    /\ phase = "probing" /\ \A r \in Ids : probes[r].step = "ended"
    /\ phase' = "storing"
    /\ unsaved' = Gathered
    /\ record' = RecordOf(Gathered)
    /\ probes' = NoProbes
    /\ kept' = [kept EXCEPT !.rows = @ \o Gathered, !.trials = Append(@, record')]
    /\ UNCHANGED <<behaviours, files, experiment, scenario, done, todo>>

\* run_trials appends the rows one by one.
StoreRow ==
    /\ phase = "storing" /\ unsaved # << >>
    /\ observations' = Append(observations, Head(unsaved))
    /\ unsaved' = Tail(unsaved)
    /\ UNCHANGED <<behaviours, trials, experiment, phase, scenario, done,
                   todo, probes, record, kept>>

\* Where the script goes after a trial: one more, a scenario more, or the end.
AfterTrial ==
    IF done + 1 < Trials
    THEN /\ phase' = "applying" /\ done' = done + 1 /\ UNCHANGED <<scenario, todo>>
    ELSE /\ done' = 0 /\ todo' = Endpoints
         /\ IF scenario < Len(Scenarios)
            THEN phase' = "resetting" /\ scenario' = scenario + 1
            ELSE phase' = "leaving" /\ UNCHANGED scenario

\* ... and then the record.
StoreTrial ==
    /\ phase = "storing" /\ unsaved = << >>
    /\ trials' = Append(trials, record)
    /\ record' = NoRecord
    /\ AfterTrial
    /\ UNCHANGED <<behaviours, observations, experiment, probes, unsaved, kept>>

(***************************************************************************)
(* The gates, over the rows that carry the campaign's experiment id.       *)
(***************************************************************************)
\* Fault: the gates look at everything in the directory.
MineFault(rows) == rows

Mine(rows) == Rows(rows, LAMBDA x : x.key.experiment = experiment)

\* The skew of the parallel trials is formatted with min and max, which raise
\* when no parallel trial has two rows.
SkewsKnown ==
    \E t \in ToSet(Mine(trials)) : t.mode = "parallel" /\ t.skew

AuditClean == Violations(Mine(trials), Mine(observations)) = {}

\* The scenarios with a known answer were derived as they were built.
TruthFound ==
    LET derivations == DeriveAll(kept.trials, kept.rows)
    IN \A i \in DOMAIN derivations :
         LET known == Truth[kept.trials[i].binding.scenario]
         IN known # None =>
              /\ derivations[i].analyzable
              /\ <<derivations[i].fastest.resolver,
                   derivations[i].fastestAccepted.resolver>> = known

\* The gates: provenance, all resolvers observed, both modes, completeness,
\* and the analysis.
Passed ==
    LET own == ToSet(Mine(trials))
        parallel == {t \in own : t.mode = "parallel"}
    IN /\ {t.binding.injection : t \in own}
            = {Injected[s] : s \in ToSet(Scenarios)}
       /\ Len(Mine(observations)) = Len(Mine(trials)) * Len(Endpoints)
       /\ \A t \in own : t.actual = t.expected /\ t.complete
       /\ \A t \in parallel : t.skew
       /\ own # parallel
       /\ AuditClean
       /\ TruthFound

\* One more gate is the exit status of the baseline's own smoke test.
Judge ==
    /\ phase = "judging"
    /\ phase' \in IF ~SkewsKnown THEN {"raised"}
                  ELSE IF Passed THEN {"passed", "failed"} ELSE {"failed"}
    /\ UNCHANGED <<behaviours, files, experiment, work>>

\* The process is gone: killed, or an admin call raised.
Stop ==
    /\ phase # "stopped"
    /\ phase' = "stopped"
    /\ UNCHANGED <<behaviours, files, experiment, work>>

Next ==
    \/ Start \/ ResetNext \/ AllReset \/ ApplyNext \/ BeginTrial \/ EndTrial
    \/ StoreRow \/ StoreTrial \/ Judge \/ Stop
    \/ \E r \in Ids :
         Arrive(r) \/ Respond(r) \/ Censor(r) \/ ProbeRaises(r)

Spec == Init /\ [][Next]_vars

-----------------------------------------------------------------------------
TypeOK ==
    /\ behaviours \in [Ids -> Behaviours({0})]
    /\ experiment \in 0..MaxCampaigns
    /\ scenario \in DOMAIN Scenarios /\ done \in 0..(Trials - 1)
    /\ phase \in {"stopped", "resetting", "applying", "probing", "storing",
                  "leaving", "judging", "raised", "passed", "failed"}
    /\ Len(todo) <= Len(Endpoints) /\ Len(unsaved) <= Len(Endpoints)

\* An answered row was produced under the behaviour that its injection hash
\* stands for, although the script is killed in the middle of a set-up and the
\* scenarios before it left the resolvers in any state.
HashNamesBehaviour ==
    \A o \in ToSet(observations) :
      o.status # None => o.taken = o.binding.injection[o.resolver]

\* A trial record is in the file only after all of its rows: a trial that
\* calls itself complete has one row for every resolver, at every moment and
\* after any crash.
CompleteIsWhole ==
    \A t \in ToSet(trials) :
      t.complete =>
        LET rows == ObservationsOf(t.key, observations)
        IN /\ Len(rows) = Len(Endpoints)
           /\ {o.resolver : o \in ToSet(rows)} = Ids

\* All that a crash can do to the files is to leave rows whose trial was never
\* recorded.
CrashLeavesOrphans == Violations(trials, observations) \subseteq {"no parent trial"}

\* A campaign that gets to its gates finds its own part of the files sound,
\* whatever earlier campaigns left there, and the trials derived in memory are
\* those a later reader derives from the files.
OwnPartIsSound ==
    phase = "judging" =>
      /\ AuditClean
      /\ DeriveAll(kept.trials, kept.rows)
           = DeriveAll(Mine(trials), Mine(observations))

\* A campaign that passes observed every resolver in every trial it planned.
PassedIsWhole ==
    phase = "passed" =>
      /\ Len(Mine(trials)) = Len(Scenarios) * Trials
      /\ \A t \in ToSet(Mine(trials)) :
           {o.resolver : o \in ToSet(ObservationsOf(t.key, observations))} = Ids

\* Hazard: a script that dies between two appends, and one that is started
\* again over what it left.
CampaignIsWhole ==
    CompleteIsWhole /\ CrashLeavesOrphans /\ OwnPartIsSound /\ PassedIsWhole
=============================================================================
