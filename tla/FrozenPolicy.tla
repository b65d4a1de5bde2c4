---------------------------- MODULE FrozenPolicy ----------------------------
(***************************************************************************)
(* The frozen policy on disk.  v3_pipeline overwrites the pickled          *)
(* estimator, its metadata, and then frozen/v3_policy.json; v3_holdout and *)
(* v4_confirmatory read the three in another order, and only the second    *)
(* compares all of them.  A pipeline may die at any step and be run again. *)
(* A definition called Fault is a mistake the code does not make, see      *)
(* BudgetWindow.                                                           *)
(***************************************************************************)
EXTENDS Naturals, Sequences

CONSTANTS
    Freezes,        \* what a pipeline may select: [estimator, pair]
    Expected,       \* those v4_confirmatory is written for
    None,           \* no file, or nothing
    Torn,           \* a file that is being overwritten, or was left so
    MaxFreezes      \* bound on the pipelines of a run

Scripts == {"holdout", "confirmatory"}

\* The module's assumption, for those that instantiate it: what is frozen can
\* be told from a file that is absent or torn, and None from what is named.
FrozenAssumption ==
    /\ None # Torn /\ None \notin Scripts \cup {"raised", "aborted", "evaluates"}
    /\ \A z \in Freezes : {z, z.estimator} \cap {None, Torn} = {}

\* The files as they are written, and as they are read.
Written == <<"estimator", "metadata", "policy">>
Read == <<"policy", "estimator", "metadata">>
Files == {Written[i] : i \in DOMAIN Written}

VARIABLES
    disk,           \* what is in each file
    writer,         \* what the pipeline freezes, at which file it is
    frozen,         \* history: everything a pipeline began to freeze
    reader,         \* the script that reads, and what it has read
    verdict,        \* what became of it
    calm            \* history: the files were whole since it began

vars == <<disk, writer, frozen, reader, verdict, calm>>

Idle == [freeze |-> None, file |-> 0, open |-> FALSE]
Unread == [f \in Files |-> None]

Init ==
    /\ disk = Unread
    /\ writer = Idle
    /\ frozen = << >>
    /\ reader = [script |-> None, file |-> 0, read |-> Unread]
    /\ verdict = None
    /\ calm = FALSE

\* The policy names the digest of the estimator, as the metadata do; digests
\* tell estimators apart.
Content(f, freeze) == IF f = "policy" THEN freeze ELSE freeze.estimator

\* The pipeline has selected what to freeze.
Freeze ==
    /\ writer = Idle /\ Len(frozen) < MaxFreezes
    /\ \E z \in Freezes :
         /\ writer' = [freeze |-> z, file |-> 1, open |-> FALSE]
         /\ frozen' = Append(frozen, z)
    /\ UNCHANGED <<disk, reader, verdict, calm>>

\* The next file is truncated ...
Open ==
    /\ writer # Idle /\ ~writer.open
    /\ disk' = [disk EXCEPT ![Written[writer.file]] = Torn]
    /\ writer' = [writer EXCEPT !.open = TRUE]
    /\ calm' = FALSE
    /\ UNCHANGED <<frozen, reader, verdict>>

\* ... and filled.
Fill ==
    /\ writer.open
    /\ LET f == Written[writer.file] IN
       disk' = [disk EXCEPT ![f] = Content(f, writer.freeze)]
    /\ writer' = IF writer.file = Len(Written) THEN Idle
                 ELSE [writer EXCEPT !.file = @ + 1, !.open = FALSE]
    /\ UNCHANGED <<frozen, reader, verdict, calm>>

\* The pipeline dies.
Die ==
    /\ writer # Idle
    /\ writer' = Idle
    /\ UNCHANGED <<disk, frozen, reader, verdict, calm>>

\* The files are those of one freeze.
Whole ==
    \E z \in Freezes : disk = [f \in Files |-> Content(f, z)]

\* A script starts.
Start(script) ==
    /\ reader.script = None
    /\ reader' = [script |-> script, file |-> 1, read |-> Unread]
    /\ calm' = (Whole /\ writer = Idle)
    /\ UNCHANGED <<disk, writer, frozen, verdict>>

\* load_frozen.
Verified(read) == read["metadata"] = read["estimator"]

\* Fault: the policy is not compared with the estimator.
DriftFault(read) == read["policy"] \notin Expected

\* verify_frozen: the expected values, the digests, the estimator's family.
Drift(read) ==
    \/ read["policy"] \notin Expected
    \/ read["metadata"] # read["policy"].estimator

\* The next file is read; json and pickle raise on one that is not whole.
ReadNext ==
    /\ reader.script # None /\ verdict = None
    /\ LET f == Read[reader.file]
           read == [reader.read EXCEPT ![f] = disk[f]]
       IN
       /\ reader' = [reader EXCEPT !.read = read, !.file = @ + 1]
       /\ IF disk[f] \in {None, Torn} THEN verdict' = "raised"
          ELSE IF reader.file < Len(Read) THEN UNCHANGED verdict
          ELSE IF ~Verified(read) THEN verdict' = "raised"
          ELSE IF reader.script = "confirmatory" /\ Drift(read) THEN verdict' = "aborted"
          ELSE verdict' = "evaluates"
    /\ UNCHANGED <<disk, writer, frozen, calm>>

Next ==
    \/ Freeze \/ Open \/ Fill \/ Die
    \/ \E script \in Scripts : Start(script)
    \/ ReadNext

Spec == Init /\ [][Next]_vars

-----------------------------------------------------------------------------
\* Hazard: three files of different freezes.  What v4_confirmatory evaluates
\* was selected as one whole, estimator and comparator, by a pipeline, and is
\* what it is written for; and a script refuses only files that were not whole
\* while it read, or a freeze that is not the one expected.
FrozenIsWhole ==
    /\ verdict = "evaluates" => reader.read["estimator"] = reader.read["metadata"]
    /\ verdict = "evaluates" /\ reader.script = "confirmatory" =>
         \E i \in DOMAIN frozen :
           /\ frozen[i] \in Expected
           /\ reader.read = [f \in Files |-> Content(f, frozen[i])]
    /\ verdict = "raised" => ~calm
    /\ verdict = "aborted" /\ calm => reader.read["policy"] \notin Expected
=============================================================================
