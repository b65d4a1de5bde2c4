--------------------------- MODULE TrialAnalysis ---------------------------
(***************************************************************************)
(* What analysis.py computes from the rows of a shadow dataset: the        *)
(* derivation of one trial, the summary, and the integrity audit.  A key   *)
(* stands for experiment_id and trial_id, a binding for the provenance     *)
(* fields that observations share with their trial.                        *)
(***************************************************************************)
EXTENDS Integers, Sequences, FiniteSets, SequencesExt

CONSTANT None       \* Python's None, and a JSON null

\* The elements at the positions in I, in their order.  Said by positions, not
\* with SelectSeq, so that it can be reasoned about without induction.
Selected(sequence, I) ==
    [n \in 1..Cardinality(I) |->
       sequence[CHOOSE i \in I : Cardinality(I \cap 1..i) = n]]

Where(sequence, Test(_)) == {i \in DOMAIN sequence : Test(sequence[i])}
Rows(sequence, Test(_)) == Selected(sequence, Where(sequence, Test))
Count(sequence, Test(_)) == Cardinality(Where(sequence, Test))

\* group_observations, for one key.
ObservationsOf(key, observations) ==
    Rows(observations, LAMBDA o : o.key = key)

\* Fault: ties are looked for before the row that won only.
ArgMinFault(rows) ==
    IF rows = << >> THEN [resolver |-> None, latency |-> None, tied |-> FALSE]
    ELSE LET least(i) == \A j \in DOMAIN rows : rows[i].latency <= rows[j].latency
             first == CHOOSE i \in DOMAIN rows :
                        least(i) /\ \A j \in 1..(i - 1) : ~least(j)
         IN [resolver |-> rows[first].resolver, latency |-> rows[first].latency,
             tied |-> \E i \in 1..(first - 1) : least(i)]

\* _argmin: the first row with the least latency, and whether it is shared.
ArgMin(rows) ==
    IF rows = << >> THEN [resolver |-> None, latency |-> None, tied |-> FALSE]
    ELSE LET least(i) == \A j \in DOMAIN rows : rows[i].latency <= rows[j].latency
             first == CHOOSE i \in DOMAIN rows :
                        least(i) /\ \A j \in 1..(i - 1) : ~least(j)
         IN [resolver |-> rows[first].resolver, latency |-> rows[first].latency,
             tied |-> \E i \in DOMAIN rows \ {first} : least(i)]

Responding(rows) == Rows(rows, LAMBDA o : o.status # None)

Accepted(rows) == Rows(rows, LAMBDA o : o.accepted)

Excluded(why) ==
    [analyzable |-> FALSE, why |-> why, fastest |-> ArgMin(<< >>),
     fastestAccepted |-> ArgMin(<< >>), matches |-> None, responding |-> 0,
     accepted |-> 0, censored |-> 0]

\* A trial whose record says complete and whose rows are all there.
Derived(rows) ==
    LET responding == Responding(rows)
        fastest == ArgMin(responding)
        fastestAccepted == ArgMin(Accepted(responding))
        analyzable == fastestAccepted.resolver # None
    IN [analyzable |-> analyzable,
        why |-> IF fastest.resolver = None THEN "nobody responded"
                ELSE IF ~analyzable THEN "nobody acceptable" ELSE None,
        fastest |-> fastest, fastestAccepted |-> fastestAccepted,
        matches |-> IF analyzable THEN fastest.resolver = fastestAccepted.resolver
                                  ELSE None,
        responding |-> Len(responding),
        accepted |-> Len(Accepted(responding)),
        censored |-> Len(rows) - Len(responding)]

\* derive_trial
DeriveTrial(trial, rows) ==
    IF ~trial.complete THEN Excluded("incomplete")
    ELSE IF Len(rows) # trial.expected THEN Excluded("observations missing")
    ELSE Derived(rows)

\* derive_all
DeriveAll(trials, observations) ==
    [i \in DOMAIN trials |->
       DeriveTrial(trials[i], ObservationsOf(trials[i].key, observations))]

\* summarize
Summary(derivations) ==
    LET analyzable == Rows(derivations, LAMBDA d : d.analyzable)
    IN [total |-> Len(derivations),
        analyzable |-> Len(analyzable),
        excluded |-> Len(derivations) - Len(analyzable),
        equal |-> Count(analyzable, LAMBDA d : d.matches = TRUE),
        differs |-> Count(analyzable, LAMBDA d : d.matches = FALSE),
        censored |-> Count(derivations, LAMBDA d : d.censored > 0),
        tied |-> Count(derivations,
                       LAMBDA d : d.fastest.tied \/ d.fastestAccepted.tied)]

(***************************************************************************)
(* audit_dataset: the rules that are violated.                             *)
(***************************************************************************)
\* The counts a trial record declares.
CountViolations(trials, observations) ==
    LET found(t) == Len(ObservationsOf(t.key, observations))
    IN {v \in {"declared count", "complete but short"} :
          \E t \in ToSet(trials) :
            \/ v = "declared count" /\ found(t) # t.actual
            \/ v = "complete but short" /\ t.complete /\ found(t) # t.expected}

DuplicateViolations(observations) ==
    {v \in {"duplicate"} :
       \E i, j \in DOMAIN observations :
         /\ i # j
         /\ observations[i].key = observations[j].key
         /\ observations[i].resolver = observations[j].resolver}

\* What one row may not say.
SanityViolations(observations) ==
    {v \in {"negative latency", "end before start", "accepted unchecked",
            "accepted without 200"} :
       \E o \in ToSet(observations) :
         \/ v = "negative latency" /\ o.latency < 0
         \/ v = "end before start" /\ o.span < 0
         \/ v = "accepted unchecked" /\ o.accepted /\ o.valid # TRUE
         \/ v = "accepted without 200" /\ o.accepted /\ o.status # 200}

\* trials_by_key keeps the last record of a key.
LastRecords(key, trials) ==
    {i \in DOMAIN trials :
       /\ trials[i].key = key
       /\ \A j \in DOMAIN trials : trials[j].key = key => j <= i}

BindingViolations(trials, observations) ==
    {v \in {"no parent trial", "provenance mismatch"} :
       \E o \in ToSet(observations) :
         LET parents == LastRecords(o.key, trials)
         IN \/ v = "no parent trial" /\ parents = {}
            \/ /\ v = "provenance mismatch"
               /\ \E i \in parents : trials[i].binding # o.binding}

\* audit_dataset passes when this is empty.
Violations(trials, observations) ==
    CountViolations(trials, observations) \cup DuplicateViolations(observations)
      \cup SanityViolations(observations) \cup BindingViolations(trials, observations)
=============================================================================
