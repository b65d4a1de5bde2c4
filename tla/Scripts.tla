------------------------------ MODULE Scripts -------------------------------
(***************************************************************************)
(* The scripts, which share no state with each other: they meet through    *)
(* files.  Each is an instance of its module with constants and variables  *)
(* of its own.  What is proved of them is in Scripts_proofs; MCComponents  *)
(* gives TLC values for the constants.                                     *)
(***************************************************************************)
EXTENDS Integers, FiniteSets, Sequences

CONSTANT Absent     \* Python's None

(***************************************************************************)
(* The qualification script.                                               *)
(***************************************************************************)
CONSTANTS Available, External, Inventories, Bare, Ladder, Unresolvable,
          WarmupTrials, TrialsPerMode
VARIABLES inventory, at, probing, spent, sent, qualified, limited, regression,
          stamped, qualificationPhase

Qualification == INSTANCE QualificationRun WITH
    Providers <- Available, running <- probing, trials <- qualified,
    phase <- qualificationPhase

ASSUME QualificationAssumed == Qualification!QualificationAssumption

(***************************************************************************)
(* The files of a frozen policy.                                           *)
(***************************************************************************)
CONSTANTS Freezes, Confirmed, Torn, MaxFreezes
VARIABLES disk, writer, frozen, reader, verdict, calm

Freeze == INSTANCE FrozenPolicy WITH
    Expected <- Confirmed, None <- Absent

ASSUME FreezeAssumed == Freeze!FrozenAssumption

(***************************************************************************)
(* The adaptive qualification, against its three resolvers.                *)
(***************************************************************************)
CONSTANTS Unknown, TieTable, Ties, MaxRuns
VARIABLES run, commit, step, adaptivePhase, brokenResolvers, decision, ends,
          traces, passed, attemptRows, requestRows

Adaptive == INSTANCE AdaptiveQualification WITH
    Providers <- 1..3, Cost <- [S \in SUBSET (1..3) |-> Cardinality(S)],
    Scale <- 100000,
    at <- step, phase <- adaptivePhase, invalid <- brokenResolvers,
    results <- traces, attempts <- attemptRows, requests <- requestRows

ASSUME AdaptiveAssumed == Adaptive!AdaptiveAssumption
ASSUME RunsAssumed == Adaptive!RunsAssumption

(***************************************************************************)
(* A measurement campaign.                                                 *)
(***************************************************************************)
CONSTANTS Endpoints, Scenarios, Scripted, LaunchModes, Truth, Trials, Healths,
          MaxCampaigns
VARIABLES behaviours, trials, observations, experiment, campaignPhase,
          scenario, done, todo, probes, unsaved, record, kept

Campaign == INSTANCE ShadowMeasurement WITH
    Injected <- Scripted, Modes <- LaunchModes, None <- Absent,
    phase <- campaignPhase

ASSUME CampaignAssumed == Campaign!MeasurementAssumption

(***************************************************************************)
(* An episode of controlled trials.                                        *)
(***************************************************************************)
CONSTANTS Controlled, ControlledCost, EpisodeScale, EpisodeTarget, EpisodeWindow,
          EpisodeTrials
VARIABLES episodePhase, injected, sampled, configured, shown, prepared, revealed,
          subsetHistory, episodeRows, scored, decided

Episode == INSTANCE HoldoutEpisode WITH
    Providers <- Controlled, Cost <- ControlledCost, Scale <- EpisodeScale,
    Target <- EpisodeTarget, Window <- EpisodeWindow, MaxTrials <- EpisodeTrials,
    phase <- episodePhase, set <- configured, seen <- shown, history <- revealed,
    rows <- episodeRows

ASSUME EpisodeAssumed == Episode!SelectionAssumption /\ Episode!EpisodeAssumption

(***************************************************************************)
(* A dataset on disk and its analysis.                                     *)
(***************************************************************************)
CONSTANTS TrialRows, ObservationRows, MaxTrialRows, MaxObservationRows
VARIABLES trialRows, observationRows

Dataset == INSTANCE ShadowDataset WITH
    None <- Absent, MaxTrials <- MaxTrialRows, MaxObservations <- MaxObservationRows,
    trials <- trialRows, observations <- observationRows

ASSUME DatasetAssumed == Dataset!DatasetAssumption

-----------------------------------------------------------------------------
\* The properties of the scripts, as their modules state them.

\* real_did_qualification.py: no public provider gets more than its cap.
CapIsHard == Qualification!CapIsHard

\* real_did_qualification.py: exit status 0 was earned by its own trials.
SuccessIsEarned == Qualification!SuccessIsEarned

\* estimators.py, v4_confirmatory.py: what is evaluated was frozen as one.
FrozenIsWhole == Freeze!FrozenIsWhole

\* shadow.py: an answered row was produced under the behaviour its injection
\* hash stands for.
HashNamesBehaviour == Campaign!HashNamesBehaviour

\* measurement_qualification.py: the files are whole after any crash, and a
\* campaign judges what it observed itself.
CampaignIsWhole == Campaign!CampaignIsWhole

\* adaptive_qualification.py: what earlier runs left does not earn a success.
AdaptiveSuccessIsEarned == Adaptive!AdaptiveSuccessIsEarned

\* dataset.py, prospective_holdout.py: no outcome is used before it is known.
TrialsLookBack == Episode!TrialsLookBack

\* prospective_holdout.py, metrics.py: policies are compared trial by trial.
PoliciesArePaired == Episode!PoliciesArePaired

\* analysis.py: winners, summary and audit are what the rows say.
AnalysisIsSound == Dataset!AnalysisIsSound
=============================================================================
