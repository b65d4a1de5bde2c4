---------------------------- MODULE MCComponents ----------------------------
(***************************************************************************)
(* Values for the constants of Components and of Scripts, and a behaviour  *)
(* that picks one of their parts and runs it; the others stay in their     *)
(* initial states.                                                         *)
(***************************************************************************)
EXTENDS Components, Scripts, TLC

CONSTANTS r1, r2, c1, c2, dev, driver

VARIABLE part       \* the component that runs

Parts == {"router", "resolver", "campaign", "dataset", "profile",
          "qualification", "index", "freeze", "episode", "adaptive"}

(***************************************************************************)
(* The baseline router.                                                    *)
(***************************************************************************)
MCResolvers == <<r1, r2>>
MCAsks == {"round-robin", "sequential-failover", "single-static", "unknown"}

ClientSymmetry == Permutations(Clients)

(***************************************************************************)
(* A mock resolver.                                                        *)
(***************************************************************************)
resolverVars ==
    <<resolverBehaviour, resolverCounter, resolverLog, resolverRunning,
      resolverReplies>>

Healthy == [delay |-> FALSE, timeout |-> FALSE, error |-> FALSE,
            invalid |-> FALSE, every |-> 0]
Slow == [Healthy EXCEPT !.delay = TRUE]

MCInjected ==
    {[Slow EXCEPT !.every = 2],
     [Healthy EXCEPT !.every = 2],
     [Slow EXCEPT !.invalid = TRUE, !.timeout = TRUE],
     [Healthy EXCEPT !.error = TRUE, !.timeout = TRUE]}

(***************************************************************************)
(* A campaign of two scenarios, parallel and sequential, twice.            *)
(***************************************************************************)
campaignVars ==
    <<behaviours, trials, observations, experiment, campaignPhase,
      scenario, done, todo, probes, unsaved, record, kept>>

MCScripted ==
    [s \in {"Q", "D"} |->
       [r \in {r1, r2} |-> IF r = r2 THEN Slow
                         ELSE IF s = "Q" THEN [Healthy EXCEPT !.invalid = TRUE]
                         ELSE Healthy]]

MCScenarios == <<"Q", "D">>
MCModes == [s \in {"Q", "D"} |-> IF s = "D" THEN "sequential" ELSE "parallel"]
MCTruth == [s \in {"Q", "D"} |-> IF s = "Q" THEN <<r1, r2>> ELSE None]
MCHealths == {[Healthy EXCEPT !.timeout = TRUE]}

(***************************************************************************)
(* A dataset of up to two trials and three observations, with rows that    *)
(* break one rule of the audit each.                                       *)
(***************************************************************************)
datasetVars == <<trialRows, observationRows>>

Row(resolver, status, accepted, latency) ==
    [key |-> "t1", resolver |-> resolver, status |-> status,
     accepted |-> accepted, valid |-> IF status = None THEN None ELSE accepted,
     latency |-> latency, span |-> 0, binding |-> "s1"]

Plain == Row("a", 200, TRUE, 1)

MCObservationRows ==
    {Row(r, 200, accepted, l) : r \in {"a", "b"}, accepted \in BOOLEAN, l \in {1, 2}}
    \cup {Row(r, None, FALSE, 1) : r \in {"a", "b"}}
    \cup {[Plain EXCEPT !.latency = -1], [Plain EXCEPT !.span = -1],
          [Plain EXCEPT !.valid = None], [Plain EXCEPT !.status = 203],
          [Plain EXCEPT !.binding = "s2"], [Plain EXCEPT !.key = "t2"]}

TrialRow(key, complete, expected, actual) ==
    [key |-> key, complete |-> complete, expected |-> expected, actual |-> actual,
     binding |-> "s1"]

MCTrialRows ==
    {TrialRow("t1", TRUE, 2, 2), TrialRow("t1", TRUE, 3, 3),
     TrialRow("t1", FALSE, 2, 1), TrialRow("t2", TRUE, 1, 1)}

(***************************************************************************)
(* A provider per adapter, and every pair of responses.                    *)
(***************************************************************************)
profileVars == <<responses, results>>

Good == [id |-> "requested", context |-> TRUE, methods |-> TRUE]
SomeDocuments ==
    {Good, [Good EXCEPT !.methods = FALSE], [Good EXCEPT !.id = "other"],
     [Good EXCEPT !.id = "empty"], [Good EXCEPT !.id = "not a string"]}
SomeErrors ==
    {None, [type |-> "notfound", title |-> None],
     [type |-> None, title |-> "methodnotsupported"],
     [type |-> "invalidpublickey", title |-> None],
     [type |-> "weird", title |-> "methodnotsupported"]}

SomeBodies ==
    {None, Scalar} \cup
    [metadata: {None, Scalar} \cup [error: SomeErrors],
     document: {None, Scalar} \cup SomeDocuments, self: {None}] \cup
    [metadata: {None}, document: {None, Scalar, Good}, self: SomeDocuments]

PlainBody == [metadata |-> None, document |-> Good, self |-> None]

MCResponses ==
    {[ok |-> FALSE, status |-> None, contentType |-> None, body |-> None]} \cup
    [ok: {TRUE}, status: {200}, contentType: {"json"}, body: SomeBodies] \cup
    [ok: {TRUE}, status: {200}, contentType: {None, "json;charset", "html"},
     body: {None, PlainBody}] \cup
    [ok: {TRUE}, status: {410}, contentType: {"json"}, body: {Scalar, PlainBody}]

MCAdapterOf == [p \in {dev, driver} |-> IF p = dev THEN "universal-resolver-v1"
                                        ELSE "did-document-only-v1"]

(***************************************************************************)
(* The qualification script: a public provider, a local one, and what the  *)
(* inventory may say of them.                                              *)
(***************************************************************************)
qualificationVars ==
    <<inventory, at, probing, spent, sent, qualified, limited, regression,
      stamped, qualificationPhase>>

MCInventories ==
    [methods: {[p \in {dev, driver} |-> IF p = dev THEN {"key", "web"} ELSE {"key"}]},
     full: {{}, {dev}},
     documented: {[p \in {dev} |-> 0], [p \in {dev} |-> 4]}]

MCLadder == <<"web", "ethr">>
MCUnresolvable == <<"none">>

(***************************************************************************)
(* The index of the real routing service, with room for two requests.      *)
(***************************************************************************)
routingVars == <<count, entered, handlerPhase, routingIndex, routingJournal>>

(***************************************************************************)
(* Two pipelines; one choice is what v4_confirmatory is written for.       *)
(***************************************************************************)
freezeVars == <<disk, writer, frozen, reader, verdict, calm>>

MCFreezes == [estimator: {1, 2}, pair: {1, 2}]

MCConfirmed == {[estimator |-> 1, pair |-> 1]}

(***************************************************************************)
(* An episode over two resolvers.                                          *)
(***************************************************************************)
episodeVars ==
    <<episodePhase, injected, sampled, configured, shown, prepared, revealed,
      subsetHistory, episodeRows, scored, decided>>

MCControlledCost == [S \in SUBSET {1, 2} |-> Cardinality(S)]

(***************************************************************************)
(* Two runs of the adaptive qualification; the tie is asked once, with a   *)
(* table that answers for every set, so that the script gets past it.      *)
(***************************************************************************)
adaptiveVars ==
    <<run, commit, step, adaptivePhase, brokenResolvers, decision, ends,
      traces, passed, attemptRows, requestRows>>

MCTieTable == [S \in (SUBSET (1..3)) \ {{}} |-> 99000]

-----------------------------------------------------------------------------
allVars ==
    <<part, vars, resolverVars, campaignVars, datasetVars, profileVars,
      qualificationVars, routingVars, freezeVars, episodeVars,
      adaptiveVars>>

\* Only the component of the behaviour starts in any of its initial states.
SuiteInit ==
    /\ part \in Parts
    /\ Init /\ Resolver!Init /\ Campaign!Init /\ Dataset!Init /\ Profile!Init
    /\ Qualification!Init /\ Routing!Init /\ Freeze!Init /\ Episode!Init
    /\ Adaptive!Init
    /\ part # "qualification" =>
         /\ inventory = CHOOSE i \in MCInventories : TRUE
         /\ regression /\ stamped

Others(p) ==
    /\ UNCHANGED part
    /\ IF p = "router" THEN TRUE ELSE UNCHANGED vars
    /\ IF p = "resolver" THEN TRUE ELSE UNCHANGED resolverVars
    /\ IF p = "campaign" THEN TRUE ELSE UNCHANGED campaignVars
    /\ IF p = "dataset" THEN TRUE ELSE UNCHANGED datasetVars
    /\ IF p = "profile" THEN TRUE ELSE UNCHANGED profileVars
    /\ IF p = "qualification" THEN TRUE ELSE UNCHANGED qualificationVars
    /\ IF p = "index" THEN TRUE ELSE UNCHANGED routingVars
    /\ IF p = "freeze" THEN TRUE ELSE UNCHANGED freezeVars
    /\ IF p = "episode" THEN TRUE ELSE UNCHANGED episodeVars
    /\ IF p = "adaptive" THEN TRUE ELSE UNCHANGED adaptiveVars

SuiteNext ==
    \/ part = "router" /\ Next /\ Others(part)
    \/ part = "resolver" /\ Resolver!Next /\ Others(part)
    \/ part = "campaign" /\ Campaign!Next /\ Others(part)
    \/ part = "dataset" /\ Dataset!Next /\ Others(part)
    \/ part = "profile" /\ Profile!Next /\ Others(part)
    \/ part = "qualification" /\ Qualification!Next /\ Others(part)
    \/ part = "index" /\ Routing!Next /\ Others(part)
    \/ part = "freeze" /\ Freeze!Next /\ Others(part)
    \/ part = "episode" /\ Episode!Next /\ Others(part)
    \/ part = "adaptive" /\ Adaptive!Next /\ Others(part)

SuiteSpec == SuiteInit /\ [][SuiteNext]_allVars

=============================================================================
