----------------------- MODULE AdaptiveQualification -----------------------
(***************************************************************************)
(* scripts/adaptive_qualification.py: scenarios with known answers against *)
(* three mock resolvers, asked of the routing service in the process of    *)
(* the script.  The files in telemetry_dir outlive a run, and the gates at *)
(* the end read all of them.  An artificial delay only makes an order      *)
(* likely, so here a race ends in any order.  A definition called Fault is *)
(* a mistake the code does not make, see BudgetWindow.                     *)
(***************************************************************************)
EXTENDS SubsetSelection, FiniteSetsExt

CONSTANTS
    TieTable,       \* the estimates of the tie-break scenario
    Ties,           \* how often it is asked
    MaxRuns         \* bound on the runs of the script

\* What the constants are assumed to be: three resolvers that cost the same, and
\* bounds that let something happen.
RunsAssumption == {Ties, MaxRuns} \subseteq Nat \ {0}

AdaptiveAssumption ==
    /\ Providers = {1, 2, 3} /\ Scale = 100000
    /\ \A S \in SUBSET Providers : Cost[S] = Cardinality(S)
    /\ TieTable \in [Subsets(Providers) -> (0..Scale) \cup {Unknown}]

VARIABLES
    run,            \* the run of the script, from 1
    commit,         \* git names a commit
    at,             \* position in Plan
    phase,          \* of the scenario, or how the process ended
    invalid,        \* resolvers that are made to answer invalid documents
    decision,       \* of the optimizer
    ends,           \* how the attempts of the race ended
    results,        \* ends of the two scenarios whose traces are looked at
    passed,         \* no gate has failed
    attempts,       \* routing_attempts.jsonl: <<request, provider>>
    requests        \* routing_requests.jsonl

files == <<attempts, requests>>
scenarioVars == <<invalid, decision, ends>>
judgement == <<results, passed>>
vars == <<run, commit, at, phase, scenarioVars, judgement, files>>

\* Q_TABLE.
QTable ==
    [S \in Subsets(Providers) |->
       CASE S = {1} -> 99000 [] S = {2} -> 96000 [] S = {3} -> 90000
         [] S = {1, 2} -> 99500 [] S = {1, 3} -> 99300 [] S = {2, 3} -> 99100
         [] S = Providers -> 99950]

Scenario(name, table, target, broken) ==
    [name |-> name, table |-> table, target |-> target, broken |-> broken]

\* The targets of the scenarios, the last two of which ask again what K2 and K3
\* have asked.
Targets == [K1 |-> 95000, K2 |-> 99200, K3 |-> 99900, KU |-> 99999]

Plan ==
    <<Scenario("K1", QTable, Targets.K1, {}), Scenario("K2", QTable, Targets.K2, {}),
      Scenario("K3", QTable, Targets.K3, {}), Scenario("KU", QTable, Targets.KU, {})>>
    \o [i \in 1..Ties |-> Scenario("tie", TieTable, Targets.K1, {})]
    \o <<Scenario("first", QTable, Targets.K2, {1}),
         Scenario("cancel", QTable, Targets.K3, {})>>

Now == Plan[at]
RequestId == <<run, at>>

Idle == Nothing("NOT ASKED")
Ended == {"exit 0", "exit 1", "raised", "killed"}

Init ==
    /\ run = 0 /\ commit = FALSE /\ at = 1 /\ phase = "killed"
    /\ invalid = {} /\ decision = Idle /\ ends = << >>
    /\ results = << >> /\ passed = TRUE
    /\ attempts = {} /\ requests = {}

\* The resolvers are asked for their health and reset.
Start ==
    /\ phase \in Ended /\ run < MaxRuns
    /\ run' = run + 1
    /\ commit' \in BOOLEAN
    /\ at' = 1 /\ phase' = "asking"
    /\ invalid' = {} /\ decision' = Idle /\ ends' = << >>
    /\ results' = << >> /\ passed' = TRUE
    /\ UNCHANGED files

Decided == Select(Providers, Now.table, Now.target, "require-complete", FALSE, 12)

\* The gate of KU, where the answer 409 is the right one.
Unsatisfiable(d) ==
    /\ Now.name = "KU"
    /\ d.status = "SLO_ESTIMATE_UNSATISFIABLE" /\ d.best = Providers

\* The answer 409 holds neither adaptive_plan nor request_id, and only K1 to KU
\* do without.
Indispensable == Now.name \in {"tie", "first", "cancel"}

\* reset_all and apply; the call, up to the decision, which may end it.
Ask ==
    /\ phase = "asking" /\ at \in DOMAIN Plan
    /\ invalid' = Now.broken
    /\ decision' = Decided
    /\ ends' = << >>
    /\ IF Decided.status = "SELECTED"
       THEN phase' = "probing" /\ UNCHANGED <<at, passed>>
       ELSE IF Indispensable THEN phase' = "raised" /\ UNCHANGED <<at, passed>>
       ELSE /\ phase' = phase /\ at' = at + 1
            /\ passed' = (passed /\ Unsatisfiable(Decided))
    /\ UNCHANGED <<run, commit, results, files>>

\* How a race over S may end: nobody is canceled before somebody is accepted,
\* and an invalid document is not.
Races(S) ==
    {e \in [S -> {"accepted", "rejected", "canceled"}] :
       /\ \A p \in invalid \cap S : e[p] # "accepted"
       /\ "canceled" \in {e[p] : p \in S} => "accepted" \in {e[p] : p \in S}}

Race ==
    /\ phase = "probing"
    /\ ends' \in Races(decision.subset)
    /\ phase' = "recording"
    /\ UNCHANGED <<run, commit, at, invalid, decision, judgement, files>>

Entered == {a[2] : a \in {b \in attempts : b[1] = RequestId}}

\* Fault: the request is recorded first.
AllEnteredFault == TRUE

\* The attempts are recorded before the request.
AllEntered == Entered = decision.subset

EnterAttempt ==
    /\ phase = "recording" /\ ~AllEntered
    /\ attempts' = attempts \cup {<<RequestId, Min(decision.subset \ Entered)>>}
    /\ UNCHANGED <<run, commit, at, phase, scenarioVars, judgement, requests>>

\* The request record: its provenance is whole where git knows a commit.
Record ==
    [id |-> RequestId, selected |-> decision.subset, attempted |-> DOMAIN ends,
     count |-> Cardinality(DOMAIN ends), stamped |-> commit]

Accepted == {p \in DOMAIN ends : ends[p] = "accepted"}

Expected ==
    CASE Now.name = "K1" -> {1} [] Now.name = "K2" -> {1, 2} [] OTHER -> Providers

\* The gates of a scenario that was answered with status 200 or 502; all picks
\* of the tie are the first provider exactly if each of them is.
ScenarioPassed ==
    CASE Now.name \in {"K1", "K2", "K3"} ->
           Accepted # {} /\ decision.subset = Expected
      [] Now.name = "KU" -> FALSE
      [] Now.name = "tie" -> decision.subset = {1}
      [] Now.name = "first" ->
           /\ Accepted # {} /\ Min(Accepted) = 2
           /\ 1 \in DOMAIN ends /\ ends[1] = "rejected"
      [] Now.name = "cancel" -> \E p \in DOMAIN ends : ends[p] = "canceled"

Kept ==
    IF Now.name \notin {"first", "cancel"} THEN results
    ELSE [n \in DOMAIN results \cup {Now.name} |->
            IF n = Now.name THEN ends ELSE results[n]]

\* The request is recorded, the script has its answer and judges it.
Answer ==
    /\ phase = "recording" /\ AllEntered
    /\ requests' = requests \cup {Record}
    /\ passed' = (passed /\ ScenarioPassed)
    /\ results' = Kept
    /\ at' = at + 1 /\ phase' = "asking"
    /\ UNCHANGED <<run, commit, scenarioVars, attempts>>

\* adaptive_rows: whatever is in the file.
Rows == requests

Reconciles ==
    \A r \in Rows :
      /\ r.count = Cardinality({a \in attempts : a[1] = r.id})
      /\ r.attempted \subseteq r.selected

\* The gates over the files, the working tree and the test suite.  Whether the
\* tree is dirty was found out at the start; only here is it looked at.
Judge ==
    /\ phase = "asking" /\ at = Len(Plan) + 1
    /\ \E regression, dirty \in BOOLEAN :
         phase' = IF /\ passed /\ regression /\ commit /\ ~dirty
                     /\ Rows # {} /\ Reconciles /\ \A r \in Rows : r.stamped
                  THEN "exit 0" ELSE "exit 1"
    /\ UNCHANGED <<run, commit, at, scenarioVars, judgement, files>>

\* The process is killed, or an HTTP call to the admin endpoints fails; the
\* files and the resolvers stay as they are.
Die ==
    /\ phase \notin Ended
    /\ phase' = "killed"
    /\ commit' = FALSE /\ at' = 1
    /\ decision' = Idle /\ ends' = << >>
    /\ results' = << >> /\ passed' = TRUE
    /\ UNCHANGED <<run, invalid, files>>

Next == Start \/ Ask \/ Race \/ EnterAttempt \/ Answer \/ Judge \/ Die

Spec == Init /\ [][Next]_vars

-----------------------------------------------------------------------------
\* Hazard: rows that a run on an uncommitted tree or a killed run left in the
\* files.  After any sequence of runs, a recorded request has the attempts of
\* the set that was selected, and exit status 0 means that every row on disk
\* says where it comes from, that the three minimum sets were asked in this
\* run, that an invalid answer was passed over and that a loser was canceled.
AdaptiveSuccessIsEarned ==
    /\ \A r \in requests : {a \in attempts : a[1] = r.id} = {r.id} \X r.selected
    /\ phase = "exit 0" =>
         /\ \A r \in requests : r.stamped
         /\ \A S \in {{1}, {1, 2}, {1, 2, 3}} :
              \E r \in requests : r.id[1] = run /\ r.selected = S
         /\ results["first"] =
              [p \in {1, 2} |-> IF p = 1 THEN "rejected" ELSE "accepted"]
         /\ {"accepted", "canceled"} \subseteq {results["cancel"][p] : p \in Providers}

\* "5 identical inputs -> ... distinct selection(s) ... (lexicographic)" (the
\* script, lines 213 to 216): asked about a tie, the optimizer picks the first
\* provider.
TieIsBroken ==
    phase \in {"probing", "recording", "raised"} /\ Now.name = "tie" =>
      decision.subset = {1}
=============================================================================
