# A formal model of adaptive verifiable DID resolution

TLA+ models of the services and algorithms in `src/avdr`, the TLC runs that
check them on small instances, and the theorems that TLAPS proves about them for
every instance. Paths are relative to the repository; `avdr/` stands for
`src/avdr/`.

## 1. The system

A client asks a routing service to resolve a DID. The service chooses resolvers
(*providers*), contacts them one after the other or all at once, judges each
answer by structural rules, returns the first acceptable one and records what it
did. Around this core the repository has a baseline router over mock resolvers,
an optimizer that picks the cheapest set of providers predicted to meet a target,
a measurement harness, and an offline closed loop that learns from the calls it
makes.

| component | state it keeps | operations | talks to | what makes it correct |
| --- | --- | --- | --- | --- |
| provider budgets (`avdr/budget.py`) | a queue of charge times for each provider | look (which prunes), charge, snapshot | shared by all requests of the real router | a rolling window counts exactly the charges in it; how far a limit can be exceeded is bounded |
| candidate selection (`avdr/candidates.py`, `avdr/inventory.py`) | none | which providers may serve a method | reads budgets | exhausted, incapable or unauthorised providers are never candidates |
| real routing policies (`avdr/real_router/policies.py`, `adaptive_policy.py`) | a rotation counter | plan | optimizer | a plan holds candidates only, each once |
| real routing service (`avdr/real_router/app.py`) | a request in each handler | `POST /resolve`, `GET /providers` | policies, executor, telemetry | every request is answered, with an acceptable result or for a true reason |
| executor and probes (`avdr/real_router/executor.py`, `avdr/probe.py`) | tasks, pending set, dispatch marks, attempts | sequential and concurrent execution, cancellation | event loop, httpx, budgets | nothing keeps running after the answer; the trace is complete and true |
| acceptance (`avdr/adapters.py`, `profiles.py`, `acceptance.py`) | none | normalise and judge a response | probes | a result that violates a rule is not accepted |
| minimum-set optimizer (`avdr/adaptive/`) | none between calls | select | estimator | a minimum is claimed only if it is one; ties break in one way |
| baseline router (`avdr/router/`) | rotation index | resolve under three policies, reset | mock resolvers, telemetry | fair rotation; failover in order; files that join |
| telemetry sink (`avdr/telemetry.py`) | JSONL files and a bounded index | record, query | both routers | the index says what the files say and forgets in a known order |
| mock resolver (`avdr/resolver/`) | injected behaviour, request counter | resolve, set behaviour, reset | baseline router | the failure injected is the one observed |
| shadow measurement (`avdr/shadow.py`, `real_shadow.py`) | a trial | probe everyone, in parallel or in sequence | probes, telemetry | a trial with a gap is marked incomplete |
| trial analysis (`avdr/analysis.py`) | none | join and summarise trials | JSONL files | incomplete trials are left out |
| closed loop (`avdr/learning/closedloop.py`, `runner_v2.py`, `oracle.py`) | the deployment history, subset outcomes | plan, execute, explore, learn | optimizer, estimators | it learns from what it called, and from nothing else |
| controlled episodes (`avdr/learning/dataset.py`, `scripts/prospective_holdout.py`) | injected behaviours, histories, rows | inject, probe, record | mock resolvers, closed loop | no outcome is used before it is revealed; policies are compared on the same trials |
| training and evaluation (`scripts/v3_*.py`, `v4_confirmatory.py`, `avdr/learning/oracle.py`) | the frozen files | make rows, freeze, load, verify, judge | closed loop, files | what is evaluated was frozen as one; the verdict follows from its figures |
| qualification scripts (`scripts/real_did_qualification.py`, `measurement_qualification.py`, `adaptive_qualification.py`) | request budget, trials, gates, the files of earlier runs | trials, scenarios, gates, report | shadow measurement, analysis, the routing service | no provider gets more than its cap; success was earned |
| estimators, metrics (`avdr/learning/`) | fitted models | fit, estimate | closed loop | statistical, but for the rolling estimator |
| models, provenance, configuration, other scripts | none | records, hashes, drivers | all | |

`README_EN.md` describes an adaptive runtime and an anchoring of traces in a
block chain; neither is in the repository, and nothing here models them.

**Interaction.** Both routers are asyncio programs: a handler runs without
interruption from one `await` to the next, so what is shared (budgets, rotation,
telemetry index) changes between awaits only. In a race the handler waits in
`asyncio.wait` for tasks that each run one probe; tasks, done-callbacks and
handlers are callbacks in one FIFO queue of the loop.

**What is hard.** A budget checked before an await and charged after it; a
completion that arrives while the handler is already scheduled; cancellation of
a task whose answer is already on its way; several completions seen by one
wake-up; an exception in one probe out of many; buckets evicted while their
request is in flight; an optimizer that must not take silence for a "no"; a
learner whose own choices decide what it gets to see; a behaviour read before a
sleep and replaced during it; a script that dies between two appends and is
started again over what it left; three files that are one policy only if the
same pipeline wrote them. `PROJECT.json` lists every hazard at its line with the
properties that guard it.

## 2. Modules

| module | models | runs | proofs |
| --- | --- | --- | --- |
| `BudgetWindow` | operators of one provider's rolling window | | `BudgetWindow_proofs` |
| `ProviderBudget` | *abstract*: concurrent callers that look, then charge | `budget` | `ProviderBudget_proofs` |
| `RoutingPolicies` | candidates and the orders each policy may plan | | |
| `ResolutionService` | *abstract*: what any router promises a client | | |
| `RealRouter` | the real service, its executor, probes, tasks and event loop | `race`, `shared_budget`, `overspend`, `first_completion`, `failover_crash` | `RealRouter_proofs` |
| `TelemetryIndex` | the in-memory index of the sink | | |
| `MockRouter` | the baseline router over its policies and the sink | `components` | `Components_proofs` |
| `RoutingIndex` | the sink as the real routing service fills it | `components` | `Components_proofs` |
| `ResolverBehaviour` | what may be injected into a mock resolver, and its replies | | |
| `MockResolver` | one mock resolver and its admin endpoints | `components` | `Components_proofs` |
| `TrialAnalysis` | derivation, summary and audit of trials, as operators | | |
| `ShadowMeasurement` | a measurement campaign: set-up, trials, files, gates, crashes | `components` | `Scripts_proofs` |
| `ShadowDataset` | the analysis over files that anything may have written | `components` | `Scripts_proofs` |
| `AcceptanceProfile` | adapters, acceptance profile, baseline ruleset, comparison | `components` | `Components_proofs` |
| `QualificationRun` | the real-provider qualification under its request budget | `components`, `throttle` | `Scripts_proofs` |
| `AdaptiveQualification` | the qualification of the adaptive policy over `SubsetSelection`, its files and crashes | `components`, `tie_break` | `Scripts_proofs` |
| `SubsetSelection` | *reference*: what the optimizer decides, as a function of a table | | `SubsetSelection_proofs` |
| `MinimumSet` | the optimizer's enumeration, subset by subset | `minimum_set` | `MinimumSet_proofs` |
| `ClosedLoop` | the learning loop over `SubsetSelection` | `learning`, `age_in_trials` | `ClosedLoop_proofs` |
| `Evaluation` | what the study computes from a run of `ClosedLoop` | `learning`, `age_in_trials` | `ClosedLoop_proofs` |
| `HoldoutEpisode` | a controlled episode, its rows and its policies | `components` | `Scripts_proofs` |
| `FrozenPolicy` | freezing, loading and verifying the estimator and its policy | `components` | `Scripts_proofs` |
| `Components` | the baseline router beside instances of `MockResolver`, `AcceptanceProfile` and `RoutingIndex` | `components` | `Components_proofs` |
| `Scripts` | instances of `QualificationRun`, `FrozenPolicy`, `AdaptiveQualification`, `ShadowMeasurement`, `HoldoutEpisode` and `ShadowDataset` | `components` | `Scripts_proofs` |

`MC*` modules give TLC an instance. `Components` and `Scripts` put together the
parts that share no state with another one: they are processes and scripts of
their own, or pure code, and meet through HTTP or files only. Each part has
constants, variables and assumptions of its own there, which is what its theorems
are about. `MCComponents` extends both with values for TLC; its variable `part`
says which of them a behaviour runs. A definition whose comment starts with
*Fault:* is a mistake the code does not make; the specification never uses it.
Substituted for the definition that follows it, it must break the property named
for it under `mutants` in `PROJECT.json`, which shows that the property depends
on that code.

### Real router

`RealRouter` has the event loop's queue `ready`, and per client the state of its
handler (`phase`), its plan (`order`), the state and outcome of each provider's
probe (`probe`, `fate`), the race's `pending` set, whether the future inside
`asyncio.wait` is set (`woken`), the canceled task being awaited (`awaiting`),
and the attempts. A step runs the callback at the head of `ready` (`RunLoop`),
or an external event schedules one: a request arrives (`Submit`), a probe ends
(`Deliver`), the clock ticks.

| action | code |
| --- | --- |
| `Reject`, `Refuse` | the early returns of `resolve`: malformed DID, unknown policy, no or too few candidates, planning failure |
| `StartSequential`, `StartRace` | candidate selection and planning up to the first await of the executor |
| `LaunchTask`, `MarkDispatched` | a task's first step: `probe_provider` up to its request |
| `Deliver`, `EndTask` | the probe's answer, timeout, transport error or other exception |
| `Completed` | the done-callback of `asyncio.wait` |
| `WakeLosing`, `WakeWinning` | one turn of the loop in `_run_concurrent`: collect what is done, wait again or cancel the rest |
| `CancelStep`, `Drain` | cancellation of the others and the `await` for each |
| `SequentialStep`, `SequentialCrash` | one turn of `_run_sequential`, and an exception that leaves it |
| `Snapshot` | `GET /providers`, whose reading prunes the budgets |

A response body is the provider it came from; an HTTP error, an unacceptable
body, a timeout and a connection error are one outcome, because the router
treats them alike. What asyncio does (FIFO `call_soon`, `asyncio.wait`, set
iteration in any order) is marked external.

### Baseline router and telemetry

A step of `MockRouter` goes from one answer to the next call. `Return` is the
whole turn of the loop: it records the attempt, and calls the next resolver or
records the request and answers. `Raise` is an exception that `dispatch_attempt`
does not catch. `journal` and `ledger` are the two JSONL files, `index` the
in-memory index.

`RoutingIndex` is the other half of the sink: the real service records the
attempts of a request when its executor is done, then the request, and that drops
every bucket without a record. `Resume` may run only if no other handler is
between its records, which is what the absence of an `await` gives.

### Mock resolver, campaigns and their analysis

`MockResolver` handles arrivals, malformed DIDs, admin calls and the ends of
sleeps; a request keeps the behaviour and the counter value it read when it
arrived. `ShadowMeasurement` runs the qualification campaign against such
resolvers: `ResetNext` and `ApplyNext` are one admin call each, `Arrive` is where
a resolver reads its behaviour, `Respond`, `Censor` and `ProbeRaises` end a probe,
`StoreRow` and `StoreTrial` are single appends, `Judge` is the gates. `Stop` is a
crash at any of these points; files and resolvers outlive it and `Start` begins a
new campaign over them. `TrialAnalysis` has `derive_trial`, the summary and the
audit as operators, used by the campaign for its own rows and by `ShadowDataset`
for arbitrary ones. `AcceptanceProfile` gives every pair of responses to two
providers; a document is the features that the rules look at.

### Qualification of real providers

`QualificationRun` goes through the planned trials: `Launch` checks and charges
the budget and contacts everyone asked, `Complete` ends all probes with any
outcomes and persists them, `Skip`, `Abort` and `Raise` are the ways round a
trial, `Judge` grades the gates.

### Qualification of the adaptive policy

`AdaptiveQualification` goes through the scenarios of the script: `Ask` resets the
resolvers, injects and lets the optimizer decide, `Race` ends the attempts in any
way a race can, `EnterAttempt` and `Answer` are the appends of the routing service
and the gates of the scenario, `Judge` the gates over the files, which hold the
rows of all runs. `Die` kills the process at any of these points. The table of the
tie-break scenario is a constant: as the script has it the run ends there (finding
4), so the run `components` gives it a value for every set.

### Optimizer

`SubsetSelection!Select` is the decision as a function of candidates and table,
with the tie-break as nested choices and Python's order of tuples.
`MinimumSet` asks the estimator for one subset after the other (`Score`, `Miss`
for an unknown estimate, `Invalid` for something that is no probability), keeps
the extremes that `min()` and `max()` would keep, and decides (`Decide`). A
provider is its position in the sorted ids; probabilities are `0..Scale`.

### Closed loop

One trial per step: `WarmUp` (cold start), `Trial` (plan from the history,
execute, perhaps explore, learn), `Skip` (an incomplete record), `NewEpisode`.
The evaluator's `truth` is kept apart from what the policy sees. The estimator
is the rolling empirical one, in exact integers: with prior 1/2 and weight 2 an
estimate is (hits + 1)/(n + 2), and `Scale` is a multiple of all denominators.

`Evaluation` adds no step. Its operators are applied in every state of
`ClosedLoop`, so a property about them holds of every run the loop can make:
`Decompose` and `BoundV1` (`oracle.py`), the static and paired comparisons and
verdicts of the two holdouts, and the training rows of `v3_pipeline.py`.
`HoldoutEpisode` has the trials in which behaviours are injected first
(`Apply`, one resolver at a time), then probed, then revealed (`Conclude`).
`FrozenPolicy` writes and reads three files, one step each for truncating,
filling and reading; a pipeline may die and another be started.

## 3. Runs

| run | bounds | distinct states | shows |
| --- | --- | --- | --- |
| `budget` | 3 callers, limit 2, window 1, clock to 3, unlimited queue to 2 | 9,315 | the window is exact, no live charge is lost, overspend is bounded |
| `race` | 1 client, 1 request, 3 providers, every policy, every outcome | 86,282 | complete traces, no orphan probe, the promise of `ResolutionService`, every request answered |
| `shared_budget` | 2 clients, 3 requests, a provider limited to 1 per tick, clock to 2 | 1.43 million | `RealRouter` implements `ProviderBudget` |
| `minimum_set` | 3 providers of weights 1, 1, 2, estimates 0, 1/2, 1, unknown, invalid; two targets, both modes, two limits | 358,208 | claims are true, ties break as documented, the loop computes `Select` |
| `learning` | 3 providers, 4 trials, both modes, with and without cold start and exploration | 132,832 | only paid observations are learned, no unknown becomes a failure, the study counts the truth |
| `components` | below | 615,767 | the properties of every other component |
| `overspend`, `first_completion`, `failover_crash`, `tie_break`, `age_in_trials`, `throttle` | as above, smaller | | a violation each, see Findings |

The parts of `components`:

| part | bounds |
| --- | --- |
| baseline router | 2 clients, 3 requests, 2 resolvers, an index of 2 |
| mock resolver | 4 behaviours to inject, 5 arrivals and admin calls |
| campaign | 2 resolvers, 2 scenarios (one parallel, one sequential) of one trial, 2 starts of the script |
| dataset | 2 trial rows and 3 observation rows, among them one that breaks each rule of the audit |
| acceptance | 2 providers, one for each adapter, every pair of some 60 responses |
| qualification | a public and a local provider, 4 or 10 requests allowed, a ladder of two methods |
| routing index | 3 requests of up to 2 attempts, an index of 2 |
| frozen files | 2 pipelines that freeze any of 4 policies, one script that reads |
| episode | 2 resolvers, 2 trials, 3 behaviours |
| adaptive | 3 resolvers, every scenario, the tie asked once, 2 runs over the same files |

**Why the bounds are enough.** Three callers are one more than the limit of two,
so a window can be full, overfull by one and overfull by two. A race of three
has a winner, one that ends with it and one that must be canceled; a failover of
three has a first, a middle and a last. Two clients and three requests let a
third request find what two interleaved ones left behind. An index of two with
three requests evicts a request in flight. Three providers, the last as
expensive as the others together, make ties in cost between sets of different
size, and prefixes in the order of tuples. Four trials cover a cold start, a
window of two that has slid, two explorations and an abstention between them.
Five events let two sleeping requests of a resolver overlap with a change of its
behaviour and a failing every-second one. The second campaign finds the rows and
the resolvers of a first one that died anywhere. Three observations are two that
tie and one that is wrong. A cap of 4 is reached before the plan ends. Two
freezes give every mix of old, new and torn files. In an episode the second trial
is planned from the first, which may be incomplete. The second adaptive run finds
what the first left in the files, killed anywhere or on a tree without a commit;
asking the tie five times instead of once repeats a deterministic step.

**Deadlock.** `RealRouter` has a stuttering step for a loop that waits in its
selector or has served everything, so that the deadlock check means what it
should; that nothing gets stuck is `EveryRequestAnswered`. `MinimumSet`,
`ClosedLoop` and the parts of `components` are calls, scripts and bounded
histories that end, so their runs do not check deadlock.

**Symmetry.** `components` takes its two clients as symmetric: they differ in
nothing, and its properties quantify over them alike.

**Fairness.** `FairSpec` has weak fairness on `RunLoop` (the loop runs while
callbacks are ready) and on `Deliver(c, p)` for each probe: every probe ends.
The code sets a timeout on every request, which bounds each read and not the
whole response; a provider that sends a byte now and then can hold a request
open for ever, and the assumption excludes it.

## 4. Properties

- *Budgets*: `WindowExact`, `NoLiveChargeForgotten`, `CommitmentBounded`
  (charges made plus charges still owed by admitted callers), `OverspendBounded`.
- *Race and failover*: `TraceComplete` (with `CanceledWasDispatched` as a part: a
  canceled attempt had reached the provider, since all tasks run their first step
  before a completion can wake the handler, so the `canceled_before_dispatch`
  branch is unreachable), `NoProbeOutlivesItsRequest`, `FirstAcceptanceCounts`,
  `FailureIsExhaustive`, `OneProbeAtATime`, `EveryRequestAnswered`.
- *Both routers*: `KeepsPromise`, a refinement of `ResolutionService`: nobody is
  contacted once an acceptable result is known, success names a provider with an
  acceptable result, failure is reported after everyone contacted was heard.
- *Baseline router and sink*: `RotationFair`; `SinkAgrees` (the files join, the
  index follows the journal, and a bucket is partial only if as many other
  requests as the index holds overtook its request); `RetainedIsWhole` (a routing
  request that is retained has all of its attempts).
- *Acceptance*: `RejectionIsAttributed` (every verdict can be traced to a check
  that failed), `VerdictsAgree` (providers, adapters, the profile and the baseline
  ruleset agree on the same answer as far as their rules coincide).
- *Mock resolver and measurement*: `AnsweredAsInjected` (a request is answered
  once, by the behaviour and the number it had when it arrived),
  `HashNamesBehaviour` (a row was produced under the behaviour its injection hash
  stands for), `CampaignIsWhole` (a complete trial has all rows at every moment and
  after any crash; a crash can leave rows without a trial and nothing else; gates
  judge the campaign's own rows), `AnalysisIsSound` (winners, summary and audit are
  what the rows say, whoever wrote them).
- *Qualification*: `CapIsHard`, `SuccessIsEarned`, `AdaptiveSuccessIsEarned` (a
  recorded request has all its attempts whatever was killed, and success means
  that no row on disk is of unknown origin, that this run asked the three minimum
  sets, passed over an invalid answer and canceled a loser).
- *Optimizer*: `ExactMinimum`, `UnreachableIsReal`, `DecidesAsSpecified`.
- *Closed loop*: `HistoryIsAcquired`, `KnownOutcomesTrue` (a subset's history has
  its true outcome in exactly the trials whose calls determine it),
  `CallsArePaid`, `AbstentionSticks` (without exploration a strict policy that
  abstains once abstains for the rest of the episode), `NoBlindSpot`.
- *Study*: `DecompositionIsTrue` (the classes count the truth the policy never saw,
  and lie within the V1 bounds), `ComparisonIsFair`, `RowsLookBack`,
  `TrialsLookBack` (no row and no prediction knows the outcome of its own trial),
  `PoliciesArePaired`, `FrozenIsWhole`.

## 5. Findings

1. `overspend`: `select_candidates` checks a budget and the executor charges it
   later, so two requests that start together both use the last unit.
   `budget.py:4` says such a provider is skipped. The excess is bounded by the
   other requests in flight (`OverspendBounded`, proved).
2. `first_completion`: the loop over the set `done` (`executor.py:258`) keeps the
   body it meets first, while `executor.py:145` names the accepted attempt with
   the lowest launch position: a response can pair one provider's document with
   another's name.
3. `failover_crash`: `probe_provider` catches timeouts and transport errors only;
   another exception ends a sequential failover, skips the remaining providers
   and loses the attempts made. In a race the same exception is one failed
   attempt.
4. `tie_break`: the table of the tie-break scenario (`adaptive_qualification.py:198`)
   covers single providers only, the optimizer requires complete coverage by
   default, and so the answer is 409 without the `adaptive_plan` that line 210
   reads. The `KeyError` ends the script: no later gate, no report and no exit
   status 0 can be reached.
5. `age_in_trials`: `trials_since_observed` counts history records. It stands
   still while a policy abstains and advances by two when it executes and
   explores.
6. `throttle`: `real_did_qualification.py:17` says that a throttling provider
   aborts the run. It does so if it throttles the warm-up (line 211). Later it is
   asked again, and the run is judged, with a warning (line 299).

The model shows these too; no line of the repository says otherwise, so they are
notes and not findings.

- In partial coverage mode with degradation allowed the optimizer's reason says
  that no subset reaches the target (`optimizer.py:356`), although it could not
  score them all; `UnreachableIsReal` makes the exception explicit.
- The gate `PASS_ADAPTIVE_PROVENANCE` asks for a commit and not for a clean tree,
  so rows that an earlier run made on a dirty tree pass in a clean one
  (`adaptive_qualification.py:292`).
- The bounds of `oracle.py:170` contain the true cells (`DecompositionIsTrue`) and
  are not always the tightest that the marginals allow.
- A provider whose whole body is an accepted DID document, without a
  `didDocument` member, is delivered with a `null` document
  (`real_router/app.py:345`).
- The acceptance profile does not look at the HTTP status (`profiles.py:81`): an
  error status with a good document is accepted.
- `RequestBudget` lives as long as one process
  (`real_did_qualification.py:90`): the cap holds for a run, not for a day.
- A trial that executes and explores adds two history records, so
  `observation_count` counts its selected providers twice (`closedloop.py:145`).
- `any_within_deadline_rate` divides by all recent trials, incomplete ones too
  (`features.py:206`), while the rates of a provider leave out its lost probes.
- `v3_holdout.py` checks the estimator against its metadata and never the policy's
  digest; `v4_confirmatory.py` compares all three (`FrozenIsWhole` claims only
  that much of each).
- `measurement_qualification.py:260` takes the minimum of the skews of the
  parallel trials, and raises if none of them has two rows.

## 6. Proofs

All theorems hold for every value of the constants that satisfies the named
assumptions of the modules (`BudgetAssumption` and the like: finite sets of
providers and callers, natural bounds, estimates between 0 and `Scale`, a closed
loop over at least one provider, as the constant triple `PROVIDERS` of
`closedloop.py` is). TLC checked each invariant on an instance first.

- **Budgets** (`ProviderBudget_proofs`). `CommitmentHolds` is the inductive step of
  the overspend bound. A queue alone is not inductive: a caller admitted while the
  provider was free adds to it later, when the queue may be full. Charges plus
  callers that still hold a permit is: a look grants a permit only below the limit,
  a charge turns a permit into an entry. `OverspendIsBounded` follows because
  pruning only shortens the queue; `LoneCallerNeverOverspends` is its instance for
  one caller. `WindowIsExact` and `LiveChargesAreKept` rest on `Ordered`: the queue
  is in the order of the clock and not ahead of it, so what `_prune` pops at its
  head is all that is stale. Without it a stale charge could hide behind a live one.
- **Real router, state** (`RealRouter_proofs`). `RouterInvariant` proves
  `IInv == TypeOK /\ RaceTasks /\ (PlanKept, OutcomesKnown, RestPlanned for each
  client)`. `TypeOK` alone is not inductive, since an attempt's position exists only
  if its provider is in the plan (`PlanKept`), its outcome only if its probe is over
  (`OutcomesKnown`), and the next provider of a failover only if the plan goes on
  (`RestPlanned`); `RaceTasks` says that no task of a race runs for a sequential
  request. `RouterUsesBudgets` shows that each step of the router is a look, a
  charge, a release, a tick or a snapshot of `ProviderBudget`, or leaves the budgets
  alone. It needs `RoomKept`: a request charges a provider at most once, so the
  bound on the queue of an unlimited provider is never met.
  `RouterOverspendIsBounded` transfers the bound.
- **Real router, traces** (`RealRouter_proofs`, second part). `RouterTrace` adds `TraceInv`.
  Its first half, `LoopInv`, is about the event loop: no callback is scheduled
  twice, each finds the state it expects (`InPlace`), a task that has not started
  is in the queue (`TasksScheduled`), and tasks stand before everything else of
  their client (`TasksFirst`). The last is why the first wake-up of a race finds no
  task that has not begun, and hence why a canceled probe had reached its provider.
  Its second half says what has been recorded at each point of an execution:
  `Unplanned`, `LoopKept` (a failover has reached position n of its plan) and
  `RaceKept` (what `asyncio.wait` has returned is recorded as it ended, the rest is
  running, being canceled or canceled). From it follow `TraceIsComplete`,
  `NothingOutlives`, `AcceptanceIsKept`, `FailureSawEveryone` and
  `LoopIsSequential`, and `RouterKeepsPromise`: the router implements
  `ResolutionService`, a race as well as a failover.
- **Baseline router** (`Components_proofs`). `RotationIsFair` needs `TurnsIssued`,
  which counts the requests that are still to take a turn with the turns taken, so
  that the bound on requests never stops the rotation. `MockKeepsPromise` needs
  `PlanFollowed`: attempts follow the plan, and none but the last was accepted.
- **Sink** (`Components_proofs`). `SinkIsTrue` proves `SinkAgrees` from `SinkInv`.
  `HandlerJoins` says that a handler is the only one to write of its request, so the
  two files join. `GoodIndex` relates the index to the journal: buckets hold the
  latest lines of their requests (`FollowsIn`), and are complete unless overtaken
  (`WholeIn`). This needs `RankedIn`: the order of eviction ranks requests by how
  many others overtook them, so the bucket that is evicted when the index is full
  was overtaken by as many requests as the index holds.
- **Routing index** (`Components_proofs`). `RetainedAreWhole` needs `RoutingInv`:
  at most one handler is between its records (`Alone`), so the lines of a request
  are numbered as they were entered (`Journaled`), and a bucket holds all of those
  or was dropped with its request (`BucketKept`). `Cleared` says what the clearing
  of orphans left behind.
- **Mock resolver** (`Components_proofs`). `AnsweredAsArrived` is about the log of
  arrivals and admin calls: `ResolverInv` says that the behaviour and the counter
  are what the log so far determines, and that a sleeping handler holds what it
  determined when the handler arrived. That counted failures are a period of
  arrivals apart, whatever resets lie between them, is arithmetic on multiples
  (`MultiplesApart`, `PeriodApart`). The periods may be any natural numbers.
- **Acceptance** (`Components_proofs`). The profile evaluates seven checks in an
  order, each a case distinction on the features of a response. `ProfileInv` says
  that what is kept of a provider is `Normalized` of its response;
  `RejectionsAttributed` and `VerdictsAlwaysAgree` then hold for every response and
  every pair of providers, by `CheckValue`, which gives each check in closed form.
- **Qualification of real providers** (`Scripts_proofs`). `CapHolds`: charges
  and requests grow together and only after a look, also on the paths that abort.
  `QualificationIsEarned` needs that the trials kept are of the plan
  (`KeptTrials`) and that a complete one has every provider asked (`KeyComplete`),
  since the gates count what was kept.
- **Qualification of the adaptive policy** (`Scripts_proofs`). `AdaptiveIsEarned`
  needs `RowsAreWhole`, which survives kills because a run tells its requests from
  those of earlier ones, and `GatesKept`, which carries what the passed gates saw to
  the scenarios that rely on it: the optimizer is a function of table and target,
  so the race for the first acceptable answer is over the two resolvers that the
  gate of K2 saw, and the one with a canceled loser over the three of K3. The table
  of the tie-break scenario may be any table.
- **Frozen files** (`Scripts_proofs`). `FrozenAsOne` from `FrozenInv`: files hold
  nothing, a torn text or what some pipeline froze (`FrozenType`), a writer has
  written the files before its position (`WriterKept`), a script has read the files
  before its own (`ReaderKept`), and while no pipeline ran since it began, what it
  read is what is on disk (`CalmKept`).
- **Measurement campaign** (`Scripts_proofs`). `HashesAreTrue` and
  `CampaignsAreWhole` from `CampaignInv`, which holds over any number of campaigns,
  each of them killed anywhere or not. `FilesGood`: whatever was killed, every row
  and trial on disk is as the script makes it, and a trial on disk has the rows it
  counts, since rows are stored before it (`RecordKept` is the state between).
  `ParentsKept`: rows without a trial are of an earlier campaign or of the trial
  being stored. `MemoryKept` and `CountKept`: what is judged is what the files have
  of this campaign, all of it, because `KeysIssued` keeps its keys apart from those
  of earlier ones. `ResolversSet`: while probes run, each resolver has the behaviour
  of the scenario, so what a probe met is what the hash in its row stands for
  (`ProbesKept`). It is assumed that the configured resolvers have different ids
  and that there is a scenario, as in `config/resolvers.yaml` and
  `config/scenarios.yaml`; nothing in `config.py` checks the ids, and with two
  alike the audit would report duplicates.
- **Dataset** (`Scripts_proofs`). `AnalysesAreSound` is about functions of two files
  and needs no invariant but the types of their rows (`DatasetInv`). A sequence made
  from a file, by selecting rows or putting them in another order, is related to the
  positions in the file that it comes from by a bijection (`Picked`). Selecting by a
  test keeps that (`PickedFilter`), the winner among picked rows is one of the
  quickest at those positions (`Won`, `ArgMinIs`), and two winners of the same
  positions differ only if there is a tie (`WonAlike`); so the order of a file
  decides ties and nothing else. Latencies are assumed to be numbers, acceptance a
  Boolean and a resolver's id not `null`, as `ShadowObservation` declares them.
- **Controlled episodes** (`Scripts_proofs`). `EpisodesLookBack` and
  `PoliciesPaired` from `EpisodeInv`. `TrialInv`: what is prepared was computed from
  the history as it is until the trial is concluded, and a resolver that got its
  behaviour still has it when it is probed. `BooksInv`: the rows follow the complete
  trials in their order (`RowsInOrder`), the i-th prediction and the history of a
  subset are made from the targets of the rows before (`RowsKnow`, `SubsetsKnow`),
  and each policy has one outcome for each row, which the trial bears out
  (`DecidedHonestly`). That a subset's history is also what the complete trials
  before a trial told is a fact about two increasing enumerations of one set. Where
  a sequential failover stops is its least position with an end, and what its
  attempts take together only grows. The selected set comes from `SelectIsSound` for
  the episode's providers; at least two are assumed, for the fixed pair.
- **Optimizer** (`SubsetSelection_proofs`, `MinimumSet_proofs`).
  `SelectIsSound` is the contract of `Select`: only candidates are selected, a
  claimed minimum meets the target, nothing that meets it is cheaper, or as cheap
  and more likely, and with complete coverage a reachable target is reached. It
  rests on a tuple order of providers' names being total, so that nested choices
  have exactly one result. `SelectionInvariant` proves
  `ClaimedMinimumIsReal` and `UnsatisfiableIsReal` of the search, from `Searched`
  (the subset kept is the best of those seen), for every cost model, including
  negative weights. `DecisionIsSelect` proves that the search and the
  function agree, whatever the order in which subsets are scored.
- **Closed loop** (`ClosedLoop_proofs`). `ClosedLoopInvariant` proves
  `LoopInv == TypeOK /\ Numbered /\ HistoryIsAcquired /\ Explored /\ Stuck /\
  AbstentionSticks`. `Stuck` is what makes `AbstentionSticks` inductive: since a
  strict policy abstained nothing was learned, so it would abstain again.
  `Explored` gives `NoProviderIsForgotten`. `KnowsTheTruth` follows the
  histories of the subsets: adding a trial adds its true outcome to those it
  determines and to no other. `CallsPaid` counts the acquisitions of a trial.
- **Study** (`ClosedLoop_proofs`). `Coherent`: the flags of an outcome
  are what its selection did in truth. `DecompositionProved` is then counting, and
  `ComparisonProved` shows that a strategy off the frontier is dominated by one on
  it, by the least loss among those that dominate it.

  `RowsLookBackProved` is about a loop inside an operator: `StudyStep` is one turn of
  `policy_faithful_rows`, the function that `FaithfulRows` defines takes one for each
  complete trial, so what it has acquired after n of them is the concatenation of
  what they revealed (`StudyDeployed`), and a row is made from what had been acquired
  when its turn came (`StudyRows`). Among as many consecutive trials as there are
  providers, one has the residue at which the round robin comes to a provider
  (`ResidueInTime`).

**Induction.** The induction theorems of the library take an operator as
parameter, which the installed provers cannot instantiate. Where a proof needs
induction over a number it uses the least counterexample
(`LeastElement` in `SubsetSelection_proofs`, from the well-foundedness of `<`), a
fact about sets; `FlattenSteps` gets the one fact needed about the library's
`FlattenSeq` in this way. `FoldSeq` and `SelectSeq` stay opaque, so the parts of the
model that a theorem is about say what they compute by positions, as `Lines` and
`Place` do in `MockRouter`, `Selected` and `Count` in `TrialAnalysis`, and
`CompleteBefore` in `HoldoutEpisode`.

**Only model-checked**: liveness. `EveryRequestAnswered` holds under fairness, and
liveness under fairness is beyond the prover. Every other property of the passing
runs is stated by a theorem. What a theorem takes as it is: the counts of
`build_context` in `HoldoutEpisode`, which use `SelectSeq`, since
`TrialsLookBack` only says which history they are computed from.

## 7. Abstractions, and what is not modelled

- Latencies, time stamps, messages, warnings, hashes, log lines and response
  fields other than the document and the provider are data no property is about;
  where a latency decides (ties, deadlines, shared failover budgets) it is a small
  number.
- `all-race` plans any permutation of its candidates, which covers every value of
  its rotation counter; `adaptive-min-set` plans any nonempty subset in the
  router, and which one is the matter of `MinimumSet`.
- `BudgetRegistry.reset` and `get` of an unknown provider are on no service path.
- `AcceptanceProfile` sees the parts of a JSON value that a rule reads, each
  present, absent, of the wrong type or empty.
- The estimators other than the rolling one, the calibration, the proper scores,
  the bootstrap and the drawing of episode plans are floating-point statistics and
  random data, out of TLC's reach. The verdicts are given any ends of their
  intervals.
- Configuration, inventory parsing and hashing read files and keep no state.
- `models.py` is records. Smoke tests, figure scripts and
  `artifacts/ack2026/analysis` recompute published numbers from files in a straight
  line; the older pipelines and the first holdouts of a version
  (`estimator_pipeline.py`, `v2_*.py`) have the shape of the ones modelled.

## 8. What is left

Every safety property of the runs is proved, and the liveness property is checked
on one request over three providers. The parts listed as *partly* in
`PROJECT.json` have statistics or random data as their rest; a model of them would
say nothing that their own tests do not.
