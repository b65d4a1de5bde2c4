-------------------------- MODULE QualificationRun --------------------------
(***************************************************************************)
(* scripts/real_did_qualification.py: a few trials against the real        *)
(* providers under a hard cap on the requests each public one may get, and *)
(* gates over what they returned.  run_trial (real_shadow.py) contacts     *)
(* every provider it is given once, whatever the others do.  A definition  *)
(* called Fault is a mistake the code does not make, see BudgetWindow.     *)
(***************************************************************************)
EXTENDS Naturals, SequencesExt

CONSTANTS
    Providers,      \* available_providers()
    External,       \* those that are not on this host
    Bare,           \* those with the adapter did-document-only-v1
    Inventories,    \* what the inventory may say of them
    Ladder,         \* the methods of the ladder, in order
    Unresolvable,   \* the methods of the unresolvable fixtures, in order
    WarmupTrials, TrialsPerMode

\* The module's assumption, for those that instantiate it: limits are counts.
QualificationAssumption ==
    /\ IsFiniteSet(Providers) /\ External \subseteq Providers
    /\ \A i \in Inventories : i.documented \in [External -> Nat]
    /\ Ladder \in Seq(Range(Ladder)) /\ Unresolvable \in Seq(Range(Unresolvable))
    /\ WarmupTrials \in Nat /\ TrialsPerMode \in Nat

VARIABLES
    inventory,      \* methods, full_resolution_result, rate_limit_requests or 0
    at,             \* position in Plan of the trial to come
    running,        \* its probes are out
    spent,          \* RequestBudget.spent
    sent,           \* requests each provider was sent
    trials,         \* the trials after the warm-up, with their observations
    limited,        \* rate_limited
    regression,     \* the regression script passed
    stamped,        \* the observations carry full provenance
    phase           \* "trials", "aborted", "raised", or the exit status

given == <<inventory, regression, stamped>>
vars == <<given, at, running, spent, sent, trials, limited, phase>>

\* inventory.for_method.
ForMethod(method) == {p \in Providers : method \in inventory.methods[p]}

\* RequestBudget.__init__.
Limits ==
    [p \in External |->
       IF inventory.documented[p] = 0 THEN 10 ELSE inventory.documented[p]]

\* The trials of execute, in order.
Trial(kind, mode, method) == [kind |-> kind, mode |-> mode, method |-> method]
Repeat(n, trial) == [i \in 1..n |-> trial]
Plan ==
    Repeat(WarmupTrials, Trial("warmup", "reused", "key"))
    \o Repeat(TrialsPerMode, Trial("key", "new", "key"))
    \o Repeat(TrialsPerMode, Trial("key", "reused", "key"))
    \o [i \in DOMAIN Ladder |-> Trial("ladder", "reused", Ladder[i])]
    \o [i \in DOMAIN Unresolvable |-> Trial("error", "reused", Unresolvable[i])]

\* The providers of a trial; an unsupported method is asked of those of key.
Asked(trial) ==
    IF trial.kind # "error" THEN ForMethod(trial.method)
    ELSE inventory.full \cap (IF ForMethod(trial.method) # {} THEN ForMethod(trial.method)
                                                           ELSE ForMethod("key"))

\* What one probe of a trial ends as; one that raises leaves no observation.
Outcomes(trial) ==
    {"rejected", "throttled", "raised"} \cup
    (IF trial.kind = "error" THEN {"accepted", "expected error"} ELSE {"accepted"})

Init ==
    /\ inventory \in Inventories
    /\ at = 1 /\ running = FALSE
    /\ spent = [p \in External |-> 0]
    /\ sent = [p \in Providers |-> 0]
    /\ trials = << >> /\ limited = {}
    /\ regression \in BOOLEAN /\ stamped \in BOOLEAN
    /\ phase = "trials"

\* Fault: the cap is compared with what was spent before.
WithinFault(providers) == \A p \in providers \cap External : spent[p] <= Limits[p]

\* RequestBudget.check.
Within(providers) == \A p \in providers \cap External : spent[p] + 1 <= Limits[p]

\* RequestBudget.charge.
Charge(providers) ==
    [p \in External |-> IF p \in providers THEN spent[p] + 1 ELSE spent[p]]

AfterWarmup == at = WarmupTrials + 1

\* A trial starts: check, charge, and run_trial up to its gather.
Launch ==
    LET asked == Asked(Plan[at])
    IN /\ phase = "trials" /\ ~running /\ at \in DOMAIN Plan
       /\ AfterWarmup => limited = {}
       /\ asked # {} /\ Within(asked)
       /\ running' = TRUE
       /\ spent' = Charge(asked)
       /\ sent' = [p \in Providers |-> IF p \in asked THEN sent[p] + 1 ELSE sent[p]]
       /\ UNCHANGED <<at, trials, limited, given, phase>>

\* The ladder skips a method that no provider supports.
Skip ==
    /\ phase = "trials" /\ ~running /\ at \in DOMAIN Plan
    /\ Plan[at].kind = "ladder" /\ Asked(Plan[at]) = {}
    /\ AfterWarmup => limited = {}
    /\ at' = at + 1
    /\ UNCHANGED <<running, spent, sent, trials, limited, given, phase>>

\* run_trial, persist, and the pause before the next trial.
Complete ==
    LET trial == Plan[at]
        asked == Asked(trial)
    IN /\ running
       /\ \E ends \in [asked -> Outcomes(trial)] :
            LET seen == {p \in asked : ends[p] # "raised"}
                record == [kind |-> trial.kind, mode |-> trial.mode,
                           method |-> trial.method, complete |-> seen = asked,
                           observations |-> [p \in seen |-> ends[p]]]
            IN /\ trials' = IF trial.kind = "warmup" THEN trials
                                                     ELSE Append(trials, record)
               /\ limited' = limited \cup {p \in asked : ends[p] = "throttled"}
       /\ running' = FALSE /\ at' = at + 1
       /\ UNCHANGED <<spent, sent, given, phase>>

\* SystemExit: throttled in the warm-up, or the budget is used up.
Abort ==
    /\ phase = "trials" /\ ~running
    /\ \/ AfterWarmup /\ limited # {}
       \/ at \in DOMAIN Plan /\ ~Within(Asked(Plan[at]))
    /\ phase' = "aborted"
    /\ UNCHANGED <<at, running, spent, sent, trials, limited, given>>

\* ValueError: nobody is left to ask.
Raise ==
    /\ phase = "trials" /\ ~running /\ at \in DOMAIN Plan
    /\ AfterWarmup => limited = {}
    /\ Plan[at].kind # "ladder" /\ Asked(Plan[at]) = {}
    /\ phase' = "raised"
    /\ UNCHANGED <<at, running, spent, sent, trials, limited, given>>

(***************************************************************************)
(* The gates.  Those that hold of any observation (the checks recorded,    *)
(* the mode tagged, one DID per trial) are left out of their conjunctions. *)
(***************************************************************************)
Kept == Range(trials)
Answers(kinds, outcome) ==
    {p \in Providers : \E t \in Kept :
       t.kind \in kinds /\ p \in DOMAIN t.observations /\ t.observations[p] = outcome}
AllKinds == {"key", "ladder", "error"}
SameDid == {t \in Kept : /\ t.kind = "key" /\ t.complete
                         /\ Cardinality(DOMAIN t.observations) >= 2}
Observed(kinds) == UNION {DOMAIN t.observations : t \in {u \in Kept : u.kind \in kinds}}
KeyAnswers == {p \in Providers : \E t \in Kept :
                 /\ t.method = "key" /\ p \in DOMAIN t.observations
                 /\ t.observations[p] = "accepted"}

\* A gate that is recorded, with its grade.
Gate(name, ok, otherwise) == <<name, IF ok THEN "PASS" ELSE otherwise>>

Records ==
    LET accepted == Answers(AllKinds, "accepted") IN
    <<Gate("regression", regression, "FAIL"),
      Gate("adapter", accepted \cap Bare # {} /\ accepted \ Bare # {}, "PARTIAL"),
      Gate("resolution", accepted # {}, "FAIL"),
      Gate("shadow", Cardinality(KeyAnswers) >= 2, "FAIL"),
      Gate("shadow", SameDid # {}, "FAIL"),
      Gate("errors", /\ Observed({"error"}) # {}
                     /\ \A t \in Kept : t.kind = "error" =>
                          Range(t.observations) \subseteq {"expected error"}, "PARTIAL"),
      Gate("modes", {t.mode : t \in Kept} = {"new", "reused"}, "FAIL"),
      Gate("provenance", stamped /\ Observed(AllKinds) # {}, "FAIL")>>

\* Fault: the last record of a gate stands.
ResultsFault(records) ==
    [g \in {r[1] : r \in Range(records)} |->
       LET last == CHOOSE i \in DOMAIN records :
                     /\ records[i][1] = g
                     /\ \A j \in DOMAIN records : records[j][1] = g => j <= i
       IN records[last][2]]

\* Gates.record: a gate is never upgraded.
Results(records) ==
    [g \in {r[1] : r \in Range(records)} |->
       LET grades == {r[2] : r \in {x \in Range(records) : x[1] = g}}
       IN CASE "FAIL" \in grades -> "FAIL"
            [] "PARTIAL" \in grades -> "PARTIAL"
            [] OTHER -> "PASS"]

AllPassed(results) == Range(results) = {"PASS"}

\* The gates, the report and the exit status.
Judge ==
    /\ phase = "trials" /\ ~running /\ at = Len(Plan) + 1
    /\ AfterWarmup => limited = {}
    /\ phase' = IF AllPassed(Results(Records)) THEN "exit 0" ELSE "exit 1"
    /\ UNCHANGED <<at, running, spent, sent, trials, limited, given>>

Next == Launch \/ Skip \/ Complete \/ Abort \/ Raise \/ Judge

Spec == Init /\ [][Next]_vars

-----------------------------------------------------------------------------
\* Hazard: a path that contacts a provider without asking the budget, or asks
\* it for one provider too few.  No public provider is ever sent more than its
\* cap, and the count of the budget is that of the requests.
CapIsHard ==
    \A p \in External : sent[p] = spent[p] /\ sent[p] <= Limits[p]

\* Hazard: two verdicts on one gate, and results that stand for other trials
\* (the warm-up, a shortened one).  Exit status 0 means that two providers
\* resolved the same key, that one trial of it is complete with both, that
\* every observation of an unresolvable DID is the error expected of it, and
\* that both adapters had a result accepted.
SuccessIsEarned ==
    phase = "exit 0" =>
      /\ regression
      /\ \E p, q \in Providers : p # q /\ {p, q} \subseteq KeyAnswers
      /\ \E t \in Kept : t.kind = "key" /\ DOMAIN t.observations = ForMethod("key")
      /\ \A t \in Kept : t.kind = "error" =>
           \A p \in DOMAIN t.observations : t.observations[p] = "expected error"
      /\ Answers({"key", "ladder"}, "accepted") \cap Bare # {}
      /\ Answers({"key", "ladder"}, "accepted") \ Bare # {}

\* "HTTP 429 / Retry-After aborts the run rather than being retried around"
\* (the script's docstring, line 17): a run in which a provider throttled does
\* not go on to its gates and its exit status.
ThrottleAborts ==
    phase \in {"exit 0", "exit 1"} => limited = {}
=============================================================================
