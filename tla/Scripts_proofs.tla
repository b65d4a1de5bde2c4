-------------------------- MODULE Scripts_proofs ---------------------------
(***************************************************************************)
(* The scripts, for all values of their constants, any number of runs and  *)
(* crashes at any step: the qualification of real providers, the files of a*)
(* frozen policy, the qualification of the adaptive policy, the campaigns  *)
(* that measure the mock resolvers, the episodes of controlled trials, and *)
(* the analysis of a dataset.                                              *)
(***************************************************************************)
EXTENDS Scripts, Functions, FiniteSetTheorems, SequenceTheorems, NaturalsInduction,
        WellFoundedInduction, TLAPS

-----------------------------------------------------------------------------
(***************************************************************************)
(* The qualification script.                                               *)
(***************************************************************************)
Methods == {"key"} \cup Qualification!Range(Ladder) \cup Qualification!Range(Unresolvable)

\* The trials of a plan; those of the key are about its method.
PlannedTrials ==
    {t \in [kind : {"warmup", "key", "ladder", "error"}, mode : {"new", "reused"},
            method : Methods] : t.kind = "key" => t.method = "key"}

KeptTrials ==
    [kind : {"key", "ladder", "error"}, mode : {"new", "reused"}, method : Methods,
     complete : BOOLEAN,
     observations : UNION {[S -> {"rejected", "throttled", "accepted", "expected error"}] :
                             S \in SUBSET Available}]

\* A complete trial of the key has an observation of everyone who supports it.
KeyComplete(t) ==
    t.kind = "key" /\ t.complete => DOMAIN t.observations = Qualification!ForMethod("key")

QualificationInv ==
    /\ inventory \in Inventories /\ regression \in BOOLEAN
    /\ spent \in [External -> Nat] /\ sent \in [Available -> Nat]
    /\ qualified \in Seq(KeptTrials)
    /\ \A i \in DOMAIN qualified : KeyComplete(qualified[i])
    /\ probing => at \in DOMAIN Qualification!Plan /\ qualificationPhase = "trials"
    /\ Qualification!CapIsHard
    /\ Qualification!SuccessIsEarned

-----------------------------------------------------------------------------
LEMMA PlanIsPlanned ==
    ASSUME Qualification!QualificationAssumption
    PROVE  \A i \in DOMAIN Qualification!Plan : Qualification!Plan[i] \in PlannedTrials
<1> DEFINE T == PlannedTrials
           A == Qualification!Repeat(WarmupTrials, Qualification!Trial("warmup", "reused", "key"))
           B == Qualification!Repeat(TrialsPerMode, Qualification!Trial("key", "new", "key"))
           C == Qualification!Repeat(TrialsPerMode, Qualification!Trial("key", "reused", "key"))
           D == [i \in DOMAIN Ladder |-> Qualification!Trial("ladder", "reused", Ladder[i])]
           E == [i \in DOMAIN Unresolvable |->
                   Qualification!Trial("error", "reused", Unresolvable[i])]
<1>1. A \in Seq(T) /\ B \in Seq(T) /\ C \in Seq(T)
  <2>1. /\ Qualification!Trial("warmup", "reused", "key") \in T
        /\ Qualification!Trial("key", "new", "key") \in T
        /\ Qualification!Trial("key", "reused", "key") \in T
    BY DEF Qualification!Trial, PlannedTrials, Methods
  <2> HIDE DEF T
  <2>2. ASSUME NEW n \in Nat, NEW t \in T PROVE Qualification!Repeat(n, t) \in Seq(T)
    BY DEF Qualification!Repeat
  <2> QED
    BY <2>1, <2>2 DEF Qualification!QualificationAssumption
<1>2. D \in Seq(T)
  <2>1. \A i \in DOMAIN Ladder : Qualification!Trial("ladder", "reused", Ladder[i]) \in T
    BY DEF Qualification!Trial, PlannedTrials, Methods, Qualification!Range
  <2>2. Len(Ladder) \in Nat /\ DOMAIN Ladder = 1..Len(Ladder)
    BY DEF Qualification!QualificationAssumption
  <2> HIDE DEF T
  <2> QED
    BY <2>1, <2>2
<1>3. E \in Seq(T)
  <2>1. \A i \in DOMAIN Unresolvable : Qualification!Trial("error", "reused", Unresolvable[i]) \in T
    BY DEF Qualification!Trial, PlannedTrials, Methods, Qualification!Range
  <2>2. Len(Unresolvable) \in Nat /\ DOMAIN Unresolvable = 1..Len(Unresolvable)
    BY DEF Qualification!QualificationAssumption
  <2> HIDE DEF T
  <2> QED
    BY <2>1, <2>2
<1>4. Qualification!Plan = A \o B \o C \o D \o E
  BY DEF Qualification!Plan
<1> HIDE DEF A, B, C, D, E
<1> HIDE DEF T
<1>5. A \o B \o C \o D \o E \in Seq(T)
  BY <1>1, <1>2, <1>3
<1>6. Qualification!Plan \in Seq(T)
  BY <1>4, <1>5
<1> QED
  BY <1>6 DEF T

\* Every grade of a gate that passed is PASS.
LEMMA PassedAll ==
    ASSUME NEW records, Qualification!AllPassed(Qualification!Results(records)),
           NEW r \in Range(records)
    PROVE  r[2] # "FAIL" /\ r[2] # "PARTIAL"
<1> DEFINE names == {q[1] : q \in Range(records)}
           grades(g) == {q[2] : q \in {x \in Range(records) : x[1] = g}}
           worst(g) == CASE "FAIL" \in grades(g) -> "FAIL"
                         [] "PARTIAL" \in grades(g) -> "PARTIAL"
                         [] OTHER -> "PASS"
           verdicts == [g \in names |-> worst(g)]
<1>1. Qualification!Results(records) = verdicts
  BY DEF Qualification!Results, Qualification!Range, Range
<1>2. r[2] \in grades(r[1]) /\ r[1] \in names
  OBVIOUS
<1>3. worst(r[1]) = "PASS"
  <2>1. Range(verdicts) = {"PASS"}
    BY <1>1 DEF Qualification!AllPassed, Qualification!Range, Range
  <2> HIDE DEF names, worst
  <2>2. verdicts[r[1]] = worst(r[1]) /\ DOMAIN verdicts = names
    BY <1>2
  <2>3. verdicts[r[1]] \in Range(verdicts)
    BY <1>2, <2>2 DEF Range
  <2> QED
    BY <2>1, <2>2, <2>3
<1> HIDE DEF verdicts
<1> QED
  BY <1>2, <1>3

LEMMA InitQualification ==
    Qualification!QualificationAssumption /\ Qualification!Init => QualificationInv
<1> SUFFICES ASSUME Qualification!QualificationAssumption, Qualification!Init
             PROVE  QualificationInv
  OBVIOUS
<1>1. \A p \in External : Qualification!Limits[p] \in Nat
  BY DEF Qualification!Limits, Qualification!Init, Qualification!QualificationAssumption
<1> QED
  BY <1>1 DEF QualificationInv, Qualification!Init, Qualification!CapIsHard,
              Qualification!SuccessIsEarned, Qualification!QualificationAssumption

\* The instance has the same notion of finite sets.
LEMMA SameSets ==
    \A S : /\ Qualification!IsFiniteSet(S) <=> IsFiniteSet(S)
           /\ Qualification!Cardinality(S) = Cardinality(S)
  BY DEF Qualification!IsFiniteSet, IsFiniteSet, Qualification!Cardinality, Cardinality

\* What a set of at least two providers gives.
LEMMA TwoOf ==
    ASSUME NEW S, IsFiniteSet(S), Cardinality(S) >= 2
    PROVE  \E p, q \in S : p # q
<1> SUFFICES ASSUME \A p, q \in S : p = q PROVE FALSE
  OBVIOUS
<1>1. CASE S = {}
  BY <1>1, FS_EmptySet
<1>2. ASSUME NEW x \in S PROVE FALSE
  <2>1. S = {x}
    BY <1>2
  <2> QED
    BY <2>1, FS_Singleton
<1> QED
  BY <1>1, <1>2

\* real_did_qualification.py: the gates, each with what it says.
LEMMA GatesSay ==
    ASSUME Qualification!QualificationAssumption, QualificationInv,
           Qualification!AllPassed(Qualification!Results(Qualification!Records))
    PROVE  /\ regression
           /\ Qualification!Answers(Qualification!AllKinds, "accepted") \cap Bare # {}
           /\ Qualification!Answers(Qualification!AllKinds, "accepted") \ Bare # {}
           /\ Cardinality(Qualification!KeyAnswers) >= 2
           /\ Qualification!SameDid # {}
           /\ \A t \in Qualification!Kept : t.kind = "error" =>
                Qualification!Range(t.observations) \subseteq {"expected error"}
<1> DEFINE R == Qualification!Records
           accepted == Qualification!Answers(Qualification!AllKinds, "accepted")
           adapters == accepted \cap Bare # {} /\ accepted \ Bare # {}
           two == Qualification!Cardinality(Qualification!KeyAnswers) >= 2
           same == Qualification!SameDid # {}
           errors == /\ Qualification!Observed({"error"}) # {}
                     /\ \A t \in Qualification!Kept : t.kind = "error" =>
                          Qualification!Range(t.observations) \subseteq {"expected error"}
           modes == {t.mode : t \in Qualification!Kept} = {"new", "reused"}
           provenance == stamped /\ Qualification!Observed(Qualification!AllKinds) # {}
<1>1. R = <<Qualification!Gate("regression", regression, "FAIL"),
            Qualification!Gate("adapter", adapters, "PARTIAL"),
            Qualification!Gate("resolution", accepted # {}, "FAIL"),
            Qualification!Gate("shadow", two, "FAIL"),
            Qualification!Gate("shadow", same, "FAIL"),
            Qualification!Gate("errors", errors, "PARTIAL"),
            Qualification!Gate("modes", modes, "FAIL"),
            Qualification!Gate("provenance", provenance, "FAIL")>>
  BY Zenon DEF Qualification!Records
<1>2. \A r \in Range(R) : r[2] # "FAIL" /\ r[2] # "PARTIAL"
  <2> HIDE DEF R
  <2> QED
    BY PassedAll DEF R
<1> HIDE DEF R, adapters, two, same, errors, modes, provenance, accepted
<1>3. ASSUME NEW name, NEW ok \in BOOLEAN, NEW otherwise \in {"FAIL", "PARTIAL"},
             Qualification!Gate(name, ok, otherwise) \in Range(R)
      PROVE  ok
  BY <1>2, <1>3 DEF Qualification!Gate
<1>4. /\ Qualification!Gate("regression", regression, "FAIL") \in Range(R)
      /\ Qualification!Gate("adapter", adapters, "PARTIAL") \in Range(R)
      /\ Qualification!Gate("shadow", two, "FAIL") \in Range(R)
      /\ Qualification!Gate("shadow", same, "FAIL") \in Range(R)
      /\ Qualification!Gate("errors", errors, "PARTIAL") \in Range(R)
  <2>1. \A i \in 1..8 : R[i] \in Range(R)
    BY <1>1 DEF Range
  <2> QED
    BY <1>1, <2>1
<1>5. /\ regression \in BOOLEAN /\ adapters \in BOOLEAN /\ two \in BOOLEAN
      /\ same \in BOOLEAN /\ errors \in BOOLEAN
  BY DEF QualificationInv, adapters, two, same, errors
<1>6. regression /\ adapters /\ two /\ same /\ errors
  BY <1>3, <1>4, <1>5
<1> QED
  BY <1>6, SameSets DEF adapters, accepted, two, same, errors

\* Exit status 0 was earned.
LEMMA JudgedWell ==
    ASSUME Qualification!QualificationAssumption, QualificationInv,
           Qualification!AllPassed(Qualification!Results(Qualification!Records))
    PROVE  /\ regression
           /\ \E p, q \in Available : p # q /\ {p, q} \subseteq Qualification!KeyAnswers
           /\ \E t \in Qualification!Kept :
                t.kind = "key" /\ DOMAIN t.observations = Qualification!ForMethod("key")
           /\ \A t \in Qualification!Kept : t.kind = "error" =>
                \A p \in DOMAIN t.observations : t.observations[p] = "expected error"
           /\ Qualification!Answers({"key", "ladder"}, "accepted") \cap Bare # {}
           /\ Qualification!Answers({"key", "ladder"}, "accepted") \ Bare # {}
<1>1. /\ regression
      /\ Qualification!Answers(Qualification!AllKinds, "accepted") \cap Bare # {}
      /\ Qualification!Answers(Qualification!AllKinds, "accepted") \ Bare # {}
      /\ Cardinality(Qualification!KeyAnswers) >= 2
      /\ Qualification!SameDid # {}
      /\ \A t \in Qualification!Kept : t.kind = "error" =>
           Qualification!Range(t.observations) \subseteq {"expected error"}
  BY GatesSay
<1>2. \A t \in Qualification!Kept : t \in KeptTrials /\ KeyComplete(t)
  BY DEF QualificationInv, Qualification!Kept, Qualification!Range
<1>3. \E p, q \in Available : p # q /\ {p, q} \subseteq Qualification!KeyAnswers
  <2>1. Qualification!KeyAnswers \subseteq Available
    BY DEF Qualification!KeyAnswers
  <2>2. IsFiniteSet(Qualification!KeyAnswers)
    <3>1. IsFiniteSet(Available)
      BY SameSets DEF Qualification!QualificationAssumption
    <3> QED
      BY ONLY <2>1, <3>1, FS_Subset
  <2> QED
    <3>1. Cardinality(Qualification!KeyAnswers) >= 2
      BY <1>1
    <3>2. \E p, q \in Qualification!KeyAnswers : p # q
      BY ONLY <2>2, <3>1, TwoOf
    <3> QED
      BY <2>1, <3>2
<1>4. \E t \in Qualification!Kept :
        t.kind = "key" /\ DOMAIN t.observations = Qualification!ForMethod("key")
  BY <1>1, <1>2 DEF Qualification!SameDid, KeyComplete
<1>5. \A t \in Qualification!Kept : t.kind = "error" =>
        \A p \in DOMAIN t.observations : t.observations[p] = "expected error"
  BY <1>1 DEF Qualification!Range
<1>6. Qualification!Answers(Qualification!AllKinds, "accepted")
        \subseteq Qualification!Answers({"key", "ladder"}, "accepted")
  <2> SUFFICES ASSUME NEW p \in Available, NEW t \in Qualification!Kept,
                      p \in DOMAIN t.observations,
                      t.observations[p] = "accepted"
               PROVE  t.kind \in {"key", "ladder"}
    BY DEF Qualification!Answers
  <2> QED
    BY <1>2, <1>5 DEF KeptTrials
<1> QED
  BY <1>1, <1>3, <1>4, <1>5, <1>6

\* What no step of a trial changes.
LEMMA QuietQualification ==
    ASSUME QualificationInv, UNCHANGED <<inventory, regression, spent, sent, qualified>>,
           probing' => (at \in DOMAIN Qualification!Plan /\ qualificationPhase = "trials")',
           Qualification!SuccessIsEarned'
    PROVE  QualificationInv'
<1>1. Qualification!CapIsHard'
  BY DEF QualificationInv, Qualification!CapIsHard, Qualification!Limits
<1>2. \A t : KeyComplete(t)' <=> KeyComplete(t)
  BY DEF KeyComplete, Qualification!ForMethod
<1> QED
  BY <1>1, <1>2 DEF QualificationInv

LEMMA QualificationStep ==
    Qualification!QualificationAssumption /\ QualificationInv
    /\ [Qualification!Next]_(Qualification!vars) => QualificationInv'
<1> SUFFICES ASSUME Qualification!QualificationAssumption, QualificationInv,
                    [Qualification!Next]_(Qualification!vars)
             PROVE  QualificationInv'
  OBVIOUS
<1>1. ASSUME Qualification!Launch PROVE QualificationInv'
  <2> DEFINE asked == Qualification!Asked(Qualification!Plan[at])
  <2>1. /\ qualificationPhase = "trials" /\ at \in DOMAIN Qualification!Plan
        /\ Qualification!Within(asked)
        /\ probing' = TRUE /\ spent' = Qualification!Charge(asked)
        /\ sent' = [p \in Available |-> IF p \in asked THEN sent[p] + 1 ELSE sent[p]]
        /\ UNCHANGED <<at, qualified, inventory, regression, qualificationPhase>>
    BY <1>1 DEF Qualification!Launch, Qualification!given
  <2> HIDE DEF asked
  <2>2. UNCHANGED Qualification!Limits
    BY <2>1 DEF Qualification!Limits
  <2>3. /\ spent' \in [External -> Nat] /\ sent' \in [Available -> Nat]
        /\ Qualification!CapIsHard'
    <3>1. External \subseteq Available
      BY DEF Qualification!QualificationAssumption
    <3>2. ASSUME NEW p \in External
          PROVE  sent'[p] = spent'[p] /\ sent'[p] <= Qualification!Limits[p]
      BY <2>1, <3>1 DEF QualificationInv, Qualification!CapIsHard, Qualification!Within,
                        Qualification!Charge
    <3> QED
      BY <2>1, <2>2, <3>2 DEF QualificationInv, Qualification!CapIsHard, Qualification!Charge
  <2>4. Qualification!SuccessIsEarned'
    BY <2>1 DEF Qualification!SuccessIsEarned
  <2>5. \A t : KeyComplete(t)' <=> KeyComplete(t)
    BY <2>1 DEF KeyComplete, Qualification!ForMethod
  <2>6. (at \in DOMAIN Qualification!Plan)'
    BY <2>1
  <2> QED
    BY <2>1, <2>3, <2>4, <2>5, <2>6 DEF QualificationInv
<1>2. ASSUME Qualification!Complete PROVE QualificationInv'
  <2> DEFINE trial == Qualification!Plan[at]
             asked == Qualification!Asked(trial)
  <2>1. /\ probing /\ ~probing'
        /\ UNCHANGED <<inventory, regression, spent, sent, qualificationPhase>>
    BY <1>2 DEF Qualification!Complete, Qualification!given
  <2>2. PICK became \in [asked -> Qualification!Outcomes(trial)] :
          LET those == {p \in asked : became[p] # "raised"}
              entry == [kind |-> trial.kind, mode |-> trial.mode,
                         method |-> trial.method, complete |-> those = asked,
                         observations |-> [p \in those |-> became[p]]]
          IN qualified' = IF trial.kind = "warmup" THEN qualified
                                                  ELSE Append(qualified, entry)
    BY <1>2 DEF Qualification!Complete
  <2> DEFINE those == {p \in asked : became[p] # "raised"}
             entry == [kind |-> trial.kind, mode |-> trial.mode,
                        method |-> trial.method, complete |-> those = asked,
                        observations |-> [p \in those |-> became[p]]]
  <2>3. trial \in PlannedTrials
    BY <2>1, PlanIsPlanned DEF QualificationInv
  <2>4. asked \in SUBSET Available
    BY DEF Qualification!Asked, Qualification!ForMethod
  <2>5. ASSUME trial.kind # "warmup" PROVE entry \in KeptTrials /\ KeyComplete(entry)
    <3>1. [p \in those |-> became[p]]
            \in [those -> {"rejected", "throttled", "accepted", "expected error"}]
      BY <2>2 DEF Qualification!Outcomes
    <3>2. those \in SUBSET Available
      BY <2>4
    <3>3. KeyComplete(entry)
      BY <2>3 DEF KeyComplete, Qualification!Asked, PlannedTrials
    <3> HIDE DEF asked, those
    <3>4. entry \in KeptTrials
      BY <2>3, <2>5, <3>1, <3>2 DEF KeptTrials, PlannedTrials
    <3> QED
      BY <3>3, <3>4
  <2>6. qualified' = IF trial.kind = "warmup" THEN qualified ELSE Append(qualified, entry)
    BY <2>2
  <2> HIDE DEF trial, entry
  <2>7. qualified' \in Seq(KeptTrials) /\ \A i \in DOMAIN qualified' : KeyComplete(qualified'[i])
    BY <2>5, <2>6 DEF QualificationInv
  <2>8. \A t : KeyComplete(t)' <=> KeyComplete(t)
    BY <2>1 DEF KeyComplete, Qualification!ForMethod
  <2>9. Qualification!CapIsHard'
    BY <2>1 DEF QualificationInv, Qualification!CapIsHard, Qualification!Limits
  <2>10. Qualification!SuccessIsEarned'
    BY <2>1 DEF QualificationInv, Qualification!SuccessIsEarned
  <2> QED
    BY <2>1, <2>7, <2>8, <2>9, <2>10 DEF QualificationInv
<1>3. ASSUME Qualification!Skip PROVE QualificationInv'
  <2>1. Qualification!SuccessIsEarned'
    BY <1>3 DEF Qualification!Skip, Qualification!SuccessIsEarned
  <2>2. /\ UNCHANGED <<inventory, regression, spent, sent, qualified>>
        /\ ~probing'
    BY <1>3 DEF Qualification!Skip, Qualification!given
  <2> QED
    BY <2>1, <2>2, QuietQualification
<1>4. ASSUME Qualification!Abort \/ Qualification!Raise PROVE QualificationInv'
  <2>1. qualificationPhase' # "exit 0"
    BY <1>4 DEF Qualification!Abort, Qualification!Raise
  <2>2. /\ UNCHANGED <<inventory, regression, spent, sent, qualified>>
        /\ ~probing'
    BY <1>4 DEF Qualification!Abort, Qualification!Raise, Qualification!given
  <2> QED
    BY <2>1, <2>2, QuietQualification DEF Qualification!SuccessIsEarned
<1>5. ASSUME Qualification!Judge PROVE QualificationInv'
  <2>1. /\ UNCHANGED <<inventory, regression, spent, sent, qualified>>
        /\ ~probing'
        /\ qualificationPhase' = "exit 0" =>
             Qualification!AllPassed(Qualification!Results(Qualification!Records))
    BY <1>5 DEF Qualification!Judge, Qualification!given
  <2>2. /\ UNCHANGED Qualification!KeyAnswers /\ UNCHANGED Qualification!Kept
        /\ \A m : UNCHANGED Qualification!ForMethod(m)
        /\ \A K, o : UNCHANGED Qualification!Answers(K, o)
    BY <2>1 DEF Qualification!KeyAnswers, Qualification!Kept, Qualification!ForMethod,
                Qualification!Answers
  <2>3. Qualification!SuccessIsEarned'
    BY <2>1, <2>2, JudgedWell DEF Qualification!SuccessIsEarned
  <2> QED
    BY <2>1, <2>3, QuietQualification
<1>6. ASSUME UNCHANGED Qualification!vars PROVE QualificationInv'
  <2>1. /\ UNCHANGED <<inventory, regression, spent, sent, qualified, at, probing,
                       qualificationPhase>>
    BY <1>6 DEF Qualification!vars, Qualification!given
  <2>2. /\ UNCHANGED Qualification!KeyAnswers /\ UNCHANGED Qualification!Kept
        /\ \A m : UNCHANGED Qualification!ForMethod(m)
        /\ \A K, o : UNCHANGED Qualification!Answers(K, o)
    BY <2>1 DEF Qualification!KeyAnswers, Qualification!Kept, Qualification!ForMethod,
                Qualification!Answers
  <2>3. Qualification!SuccessIsEarned'
    BY <2>1, <2>2 DEF QualificationInv, Qualification!SuccessIsEarned
  <2> QED
    BY <2>1, <2>3, QuietQualification DEF QualificationInv
<1> QED
  BY <1>1, <1>2, <1>3, <1>4, <1>5, <1>6 DEF Qualification!Next

\* The inductive invariant of the qualification, of all providers, limits and
\* ladders: what was kept is of the plan, and charges grow with requests.
THEOREM QualificationInvariant == Qualification!Spec => []QualificationInv
<1>1. Qualification!Init => QualificationInv
  BY InitQualification, QualificationAssumed
<1>2. QualificationInv /\ [Qualification!Next]_(Qualification!vars) => QualificationInv'
  BY QualificationStep, QualificationAssumed
<1> QED
  BY <1>1, <1>2, PTL DEF Qualification!Spec

\* CapIsHard for any providers and limits: no path of the script contacts a
\* public provider without a charge, or charges it above its cap.
THEOREM CapHolds == Qualification!Spec => []CapIsHard
<1>1. QualificationInv => CapIsHard
  BY DEF QualificationInv, CapIsHard
<1> QED
  BY <1>1, QualificationInvariant, PTL

\* SuccessIsEarned for any providers, ladder and number of trials: what the
\* gates of the script establish together.
THEOREM QualificationIsEarned == Qualification!Spec => []SuccessIsEarned
<1>1. QualificationInv => SuccessIsEarned
  BY DEF QualificationInv, SuccessIsEarned
<1> QED
  BY <1>1, QualificationInvariant, PTL

-----------------------------------------------------------------------------
(***************************************************************************)
(* The frozen policy.                                                      *)
(***************************************************************************)
Unusable == {Absent, Torn}
Selections == {frozen[i] : i \in DOMAIN frozen}
Contents == Unusable \cup Freezes \cup {z.estimator : z \in Freezes}

FrozenType ==
    /\ disk \in [Freeze!Files -> Contents]
    /\ frozen \in Seq(Freezes)
    /\ writer \in [freeze : Freezes \cup {Absent}, file : 0..3, open : BOOLEAN]
    /\ reader \in [script : Freeze!Scripts \cup {Absent}, file : 0..4,
                   read : [Freeze!Files -> Contents]]
    /\ verdict \in {Absent, "raised", "aborted", "evaluates"}

\* A pipeline writes what was selected, one file after the other.
WriterKept ==
    /\ disk["policy"] \in Unusable \cup Selections
    /\ writer # Freeze!Idle => writer.freeze \in Selections /\ writer.file \in 1..3

\* What a script has read when it is at a file, and at each end.
ReaderKept ==
    /\ reader.script = Absent => verdict = Absent
    /\ reader.script # Absent /\ verdict = Absent => reader.file \in 1..3
    /\ verdict \in {"aborted", "evaluates"} => reader.file = 4
    /\ (verdict = Absent /\ reader.file > 1) \/ verdict \in {"aborted", "evaluates"} =>
         reader.read["policy"] \in Selections
    /\ verdict \in {"aborted", "evaluates"} => Freeze!Verified(reader.read)
    /\ verdict = "aborted" => Freeze!Drift(reader.read)
    /\ verdict = "evaluates" /\ reader.script = "confirmatory" => ~Freeze!Drift(reader.read)

\* While the files are whole, what was read is what is on disk.
CalmKept ==
    calm =>
      /\ ~writer.open /\ Freeze!Whole /\ verdict # "raised"
      /\ \A k \in 1..3 : k < reader.file =>
           reader.read[Freeze!Read[k]] = disk[Freeze!Read[k]]

FrozenInv == FrozenType /\ WriterKept /\ ReaderKept /\ CalmKept

LEMMA FilesAre ==
    /\ Freeze!Files = {"estimator", "metadata", "policy"}
    /\ DOMAIN Freeze!Read = 1..3 /\ Len(Freeze!Read) = 3
    /\ Freeze!Read[1] = "policy" /\ Freeze!Read[2] = "estimator"
    /\ Freeze!Read[3] = "metadata"
    /\ DOMAIN Freeze!Written = 1..3 /\ Len(Freeze!Written) = 3
    /\ Freeze!Written[1] = "estimator" /\ Freeze!Written[2] = "metadata"
    /\ Freeze!Written[3] = "policy"
  BY DEF Freeze!Files, Freeze!Read, Freeze!Written

LEMMA WholeIs ==
    ASSUME FrozenType
    PROVE  Freeze!Whole <=>
             \E z \in Freezes : /\ disk["policy"] = z
                                /\ disk["estimator"] = z.estimator
                                /\ disk["metadata"] = z.estimator
<1>1. ASSUME NEW z \in Freezes
      PROVE  disk = [f \in Freeze!Files |-> Freeze!Content(f, z)] <=>
               /\ disk["policy"] = z /\ disk["estimator"] = z.estimator
               /\ disk["metadata"] = z.estimator
  <2>1. disk = [f \in Freeze!Files |-> disk[f]]
    BY DEF FrozenType
  <2>2. /\ Freeze!Content("policy", z) = z /\ Freeze!Content("estimator", z) = z.estimator
        /\ Freeze!Content("metadata", z) = z.estimator
    BY DEF Freeze!Content
  <2> QED
    BY <2>1, <2>2, FilesAre
<1> QED
  BY <1>1 DEF Freeze!Whole

LEMMA FrozenInvGives ==
    ASSUME Freeze!FrozenAssumption, FrozenInv
    PROVE  Freeze!FrozenIsWhole
<1>1. ASSUME verdict = "evaluates"
      PROVE  reader.read["estimator"] = reader.read["metadata"]
  BY <1>1 DEF FrozenInv, ReaderKept, Freeze!Verified
<1>2. ASSUME verdict = "evaluates", reader.script = "confirmatory"
      PROVE  \E i \in DOMAIN frozen :
               /\ frozen[i] \in Confirmed
               /\ reader.read = [f \in Freeze!Files |-> Freeze!Content(f, frozen[i])]
  <2>1. PICK i \in DOMAIN frozen : frozen[i] = reader.read["policy"]
    BY <1>2 DEF FrozenInv, ReaderKept, Selections
  <2>2. /\ reader.read["policy"] \in Confirmed
        /\ reader.read["metadata"] = reader.read["policy"].estimator
    BY <1>2 DEF FrozenInv, ReaderKept, Freeze!Drift
  <2>3. reader.read = [f \in Freeze!Files |-> reader.read[f]]
    BY DEF FrozenInv, FrozenType
  <2>4. \A f \in Freeze!Files : reader.read[f] = Freeze!Content(f, frozen[i])
    BY <1>1, <1>2, <2>1, <2>2, FilesAre DEF Freeze!Content
  <2> QED
    BY <2>1, <2>2, <2>3, <2>4
<1>3. verdict = "raised" => ~calm
  BY DEF FrozenInv, CalmKept
<1>4. ASSUME verdict = "aborted", calm PROVE reader.read["policy"] \notin Confirmed
  <2>1. /\ reader.read["policy"] = disk["policy"]
        /\ reader.read["metadata"] = disk["metadata"]
    BY <1>4, FilesAre DEF FrozenInv, ReaderKept, CalmKept
  <2>2. PICK z \in Freezes : disk["policy"] = z /\ disk["metadata"] = z.estimator
    BY <1>4, WholeIs DEF FrozenInv, CalmKept
  <2> QED
    BY <1>4, <2>1, <2>2 DEF FrozenInv, ReaderKept, Freeze!Drift
<1> QED
  BY <1>1, <1>2, <1>3, <1>4 DEF Freeze!FrozenIsWhole

LEMMA InitFrozen == Freeze!FrozenAssumption /\ Freeze!Init => FrozenInv
<1> SUFFICES ASSUME Freeze!FrozenAssumption, Freeze!Init PROVE FrozenInv
  OBVIOUS
<1>1. FrozenType
  BY DEF Freeze!Init, Freeze!Unread, Freeze!Idle, FrozenType, Contents, Unusable
<1>2. WriterKept
  BY FilesAre DEF Freeze!Init, Freeze!Unread, WriterKept, Unusable
<1>3. ReaderKept /\ CalmKept
  BY DEF Freeze!Init, ReaderKept, CalmKept, Freeze!FrozenAssumption
<1> QED
  BY <1>1, <1>2, <1>3 DEF FrozenInv

\* A step that neither reads nor changes the files.
LEMMA QuietFrozen ==
    ASSUME FrozenInv, UNCHANGED <<reader, verdict, disk>>, FrozenType',
           Selections \subseteq Selections',
           writer' # Freeze!Idle => (writer.freeze \in Selections /\ writer.file \in 1..3)',
           calm' => calm, calm' => ~writer'.open
    PROVE  FrozenInv'
<1>1. WriterKept'
  BY DEF FrozenInv, WriterKept, Unusable, Freeze!Idle
<1>2. ReaderKept'
  BY DEF FrozenInv, ReaderKept, Freeze!Verified, Freeze!Drift
<1>3. CalmKept'
  BY DEF FrozenInv, CalmKept, Freeze!Whole
<1> QED
  BY <1>1, <1>2, <1>3 DEF FrozenInv

\* A step of the pipeline at a file.
LEMMA WriteFrozen ==
    ASSUME FrozenInv, UNCHANGED <<reader, verdict, frozen>>, FrozenType', WriterKept', ~calm'
    PROVE  FrozenInv'
<1>1. ReaderKept'
  BY DEF FrozenInv, ReaderKept, Freeze!Verified, Freeze!Drift, Selections
<1>2. CalmKept'
  BY DEF CalmKept
<1> QED
  BY <1>1, <1>2 DEF FrozenInv

LEMMA PipelineStep ==
    ASSUME Freeze!FrozenAssumption, FrozenInv,
           Freeze!Freeze \/ Freeze!Open \/ Freeze!Fill \/ Freeze!Die
    PROVE  FrozenInv'
<1>1. ASSUME Freeze!Freeze PROVE FrozenInv'
  <2>1. PICK z \in Freezes : /\ writer' = [freeze |-> z, file |-> 1, open |-> FALSE]
                             /\ frozen' = Append(frozen, z)
    BY <1>1 DEF Freeze!Freeze
  <2>2. UNCHANGED <<disk, reader, verdict, calm>>
    BY <1>1 DEF Freeze!Freeze
  <2>3. Selections \subseteq Selections' /\ z \in Selections'
    <3>1. frozen \in Seq(Freezes)
      BY DEF FrozenInv, FrozenType
    <3>2. /\ DOMAIN frozen = 1..Len(frozen) /\ DOMAIN frozen' = 1..(Len(frozen) + 1)
          /\ Len(frozen) \in Nat /\ frozen'[Len(frozen) + 1] = z
          /\ \A i \in 1..Len(frozen) : frozen'[i] = frozen[i]
      BY <2>1, <3>1
    <3> QED
      BY <3>2 DEF Selections
  <2>4. FrozenType'
    BY <2>1, <2>2 DEF FrozenInv, FrozenType
  <2> QED
    BY <2>1, <2>2, <2>3, <2>4, QuietFrozen
<1>2. ASSUME Freeze!Die PROVE FrozenInv'
  <2>1. writer' = Freeze!Idle /\ UNCHANGED <<disk, frozen, reader, verdict, calm>>
    BY <1>2 DEF Freeze!Die
  <2>2. /\ Selections' = Selections /\ ~Freeze!Idle.open
        /\ Freeze!Idle \in [freeze : Freezes \cup {Absent}, file : 0..3, open : BOOLEAN]
    BY <2>1 DEF Freeze!Idle, Selections
  <2>3. FrozenType'
    BY <2>1, <2>2 DEF FrozenInv, FrozenType
  <2> QED
    BY <2>1, <2>2, <2>3, QuietFrozen
<1>3. ASSUME Freeze!Open PROVE FrozenInv'
  <2>1. /\ writer # Freeze!Idle /\ writer' = [writer EXCEPT !.open = TRUE] /\ ~calm'
        /\ disk' = [disk EXCEPT ![Freeze!Written[writer.file]] = Torn]
        /\ UNCHANGED <<frozen, reader, verdict>>
    BY <1>3 DEF Freeze!Open
  <2>2. calm' \in BOOLEAN
    BY <1>3 DEF Freeze!Open
  <2>3. FrozenType'
    BY <2>1 DEF FrozenInv, FrozenType, Contents, Unusable
  <2>4. /\ disk'["policy"] = disk["policy"] \/ disk'["policy"] = Torn
        /\ writer'.freeze = writer.freeze /\ writer'.file = writer.file
    BY <2>1, FilesAre DEF FrozenInv, FrozenType
  <2>5. WriterKept'
    BY <2>1, <2>4 DEF FrozenInv, WriterKept, Unusable, Selections
  <2> QED
    BY <2>1, <2>3, <2>5, WriteFrozen
<1>4. ASSUME Freeze!Fill PROVE FrozenInv'
  <2> DEFINE f == Freeze!Written[writer.file]
  <2>1. /\ writer.open
        /\ disk' = [disk EXCEPT ![f] = Freeze!Content(f, writer.freeze)]
        /\ writer' = IF writer.file = 3 THEN Freeze!Idle
                     ELSE [writer EXCEPT !.file = @ + 1, !.open = FALSE]
        /\ UNCHANGED <<frozen, reader, verdict, calm>>
    BY <1>4, FilesAre DEF Freeze!Fill
  <2>2. ~calm'
    BY <2>1 DEF FrozenInv, CalmKept
  <2>3. writer # Freeze!Idle /\ writer.freeze \in Selections /\ writer.file \in 1..3
    BY <2>1 DEF FrozenInv, WriterKept, Freeze!Idle
  <2>4. Selections \subseteq Freezes
    BY DEF FrozenInv, FrozenType, Selections
  <2>5. f \in Freeze!Files /\ Freeze!Content(f, writer.freeze) \in Contents
    BY <2>3, <2>4, FilesAre DEF Freeze!Content, Contents
  <2>6. FrozenType'
    <3>1. disk' \in [Freeze!Files -> Contents]
      BY <2>1, <2>5 DEF FrozenInv, FrozenType
    <3>2. writer' \in [freeze : Freezes \cup {Absent}, file : 0..3, open : BOOLEAN]
      <4>1. CASE writer.file = 3
        BY <2>1, <4>1 DEF Freeze!Idle
      <4>2. CASE writer.file \in 1..2
        <5>1. /\ writer \in [freeze : Freezes \cup {Absent}, file : 0..3, open : BOOLEAN]
              /\ writer' = [writer EXCEPT !.file = writer.file + 1, !.open = FALSE]
          BY <2>1, <4>2 DEF FrozenInv, FrozenType
        <5>2. writer' = [freeze |-> writer.freeze, file |-> writer.file + 1, open |-> FALSE]
          BY <5>1
        <5>3. writer.freeze \in Freezes \cup {Absent} /\ writer.file + 1 \in 0..3
          BY <4>2, <5>1
        <5> QED
          BY <5>2, <5>3
      <4> QED
        BY <2>3, <4>1, <4>2
    <3> QED
      BY <2>1, <3>1, <3>2 DEF FrozenInv, FrozenType
  <2>7. disk'["policy"] = disk["policy"] \/ disk'["policy"] = writer.freeze
    BY <2>1, <2>3, FilesAre DEF FrozenInv, FrozenType, Freeze!Content
  <2>8. WriterKept'
    BY <2>1, <2>3, <2>7 DEF FrozenInv, FrozenType, WriterKept, Selections
  <2> QED
    BY <2>1, <2>2, <2>6, <2>8, WriteFrozen
<1> QED
  BY <1>1, <1>2, <1>3, <1>4

LEMMA StartFrozen ==
    ASSUME Freeze!FrozenAssumption, FrozenInv,
           NEW script \in Freeze!Scripts, Freeze!Start(script)
    PROVE  FrozenInv'
<1>1. /\ reader.script = Absent
      /\ reader' = [script |-> script, file |-> 1, read |-> Freeze!Unread]
      /\ calm' = (Freeze!Whole /\ writer = Freeze!Idle)
      /\ UNCHANGED <<disk, writer, frozen, verdict>>
  BY DEF Freeze!Start
<1>2. verdict = Absent
  BY <1>1 DEF FrozenInv, ReaderKept
<1>3. FrozenType'
  BY <1>1 DEF FrozenInv, FrozenType, Freeze!Unread, Contents, Unusable
<1>4. WriterKept'
  BY <1>1 DEF FrozenInv, WriterKept, Selections
<1>5. ReaderKept'
  BY <1>1, <1>2 DEF ReaderKept, Freeze!FrozenAssumption
<1>6. CalmKept'
  <2>1. calm' => ~writer'.open /\ Freeze!Whole'
    <3>1. ~Freeze!Idle.open
      BY DEF Freeze!Idle
    <3>2. Freeze!Whole' <=> Freeze!Whole
      BY <1>1 DEF Freeze!Whole
    <3> QED
      BY <1>1, <3>1, <3>2
  <2>2. verdict' # "raised" /\ \A k \in 1..3 : ~(k < reader'.file)
    BY <1>1, <1>2 DEF Freeze!FrozenAssumption
  <2> QED
    BY <2>1, <2>2 DEF CalmKept
<1> QED
  BY <1>3, <1>4, <1>5, <1>6 DEF FrozenInv

LEMMA ReadFrozen ==
    ASSUME Freeze!FrozenAssumption, FrozenInv, Freeze!ReadNext
    PROVE  FrozenInv'
<1> DEFINE f == Freeze!Read[reader.file]
           read == [reader.read EXCEPT ![f] = disk[f]]
<1>1. /\ reader.script # Absent /\ verdict = Absent
      /\ reader' = [reader EXCEPT !.read = read, !.file = @ + 1]
      /\ UNCHANGED <<disk, writer, frozen, calm>>
  BY DEF Freeze!ReadNext
<1>2. IF disk[f] \in Unusable THEN verdict' = "raised"
      ELSE IF reader.file < 3 THEN verdict' = Absent
      ELSE IF ~Freeze!Verified(read) THEN verdict' = "raised"
      ELSE IF reader.script = "confirmatory" /\ Freeze!Drift(read) THEN verdict' = "aborted"
      ELSE verdict' = "evaluates"
  BY FilesAre DEF Freeze!ReadNext, Unusable
<1>3. reader.file \in 1..3
  BY <1>1 DEF FrozenInv, ReaderKept
<1>4. f \in Freeze!Files /\ read \in [Freeze!Files -> Contents]
  BY <1>3, FilesAre DEF FrozenInv, FrozenType
<1>5. reader'.script = reader.script /\ reader'.read = read /\ reader'.file = reader.file + 1
  BY <1>1 DEF FrozenInv, FrozenType
<1>6. FrozenType'
  <2>1. reader' \in [script : Freeze!Scripts \cup {Absent}, file : 0..4,
                     read : [Freeze!Files -> Contents]]
    <3> HIDE DEF read
    <3> QED
      <4>1. reader \in [script : Freeze!Scripts \cup {Absent}, file : 0..4,
                         read : [Freeze!Files -> Contents]]
        BY DEF FrozenInv, FrozenType
      <4>2. reader' = [script |-> reader.script, file |-> reader.file + 1, read |-> read]
        BY <1>1, <4>1
      <4> QED
        BY <1>3, <1>4, <4>1, <4>2
  <2>2. verdict' \in {Absent, "raised", "aborted", "evaluates"}
    BY <1>2
  <2> QED
    BY <1>1, <2>1, <2>2 DEF FrozenInv, FrozenType
<1>7. WriterKept'
  BY <1>1 DEF FrozenInv, WriterKept, Selections
<1>8. verdict' # "raised" => read["policy"] \in Selections
  <2>1. CASE reader.file = 1
    <3>1. f = "policy" /\ read["policy"] = disk["policy"]
      BY <2>1, <1>4, FilesAre DEF FrozenInv, FrozenType
    <3> QED
      BY <1>2, <3>1 DEF FrozenInv, WriterKept
  <2>2. CASE reader.file \in 2..3
    <3>1. read["policy"] = reader.read["policy"]
      BY <2>2, FilesAre DEF FrozenInv, FrozenType
    <3> QED
      BY <1>1, <2>2, <3>1 DEF FrozenInv, ReaderKept
  <2> QED
    BY <1>3, <2>1, <2>2
<1>9. ReaderKept'
  <2> HIDE DEF read, f
  <2>1. Selections' = Selections
    BY <1>1 DEF Selections
  <2> QED
    BY <1>1, <1>2, <1>3, <1>5, <1>8, <2>1 DEF ReaderKept, Freeze!FrozenAssumption, Freeze!Scripts
<1>10. CalmKept'
  <2> SUFFICES ASSUME calm PROVE CalmKept'
    BY <1>1 DEF CalmKept
  <2>1. /\ ~writer.open /\ Freeze!Whole
        /\ \A k \in 1..3 : k < reader.file => reader.read[Freeze!Read[k]] = disk[Freeze!Read[k]]
    BY DEF FrozenInv, CalmKept
  <2>2. PICK z \in Freezes : /\ disk["policy"] = z
                             /\ disk["estimator"] = z.estimator
                             /\ disk["metadata"] = z.estimator
    BY <2>1, WholeIs DEF FrozenInv
  <2>3. disk[f] \notin Unusable
    <3>1. disk[f] \in {z, z.estimator}
      BY <1>4, <2>2, FilesAre
    <3>2. {z, z.estimator} \cap {Absent, Torn} = {}
      BY DEF Freeze!FrozenAssumption
    <3> QED
      BY <3>1, <3>2 DEF Unusable
  <2>4. ASSUME NEW k \in 1..3, k < reader.file + 1
        PROVE  read[Freeze!Read[k]] = disk[Freeze!Read[k]]
    BY <1>3, <1>4, <2>1, <2>4, FilesAre DEF FrozenInv, FrozenType
  <2>5. reader.file = 3 => Freeze!Verified(read)
    BY <2>2, <2>4, FilesAre DEF Freeze!Verified
  <2>6. verdict' # "raised"
    BY <1>2, <1>3, <2>3, <2>5 DEF Freeze!FrozenAssumption
  <2> QED
    BY <1>1, <1>5, <2>1, <2>4, <2>6 DEF CalmKept, Freeze!Whole
<1> QED
  BY <1>6, <1>7, <1>9, <1>10 DEF FrozenInv

LEMMA FrozenStep ==
    Freeze!FrozenAssumption /\ FrozenInv /\ [Freeze!Next]_(Freeze!vars) => FrozenInv'
<1> SUFFICES ASSUME Freeze!FrozenAssumption, FrozenInv, [Freeze!Next]_(Freeze!vars)
             PROVE  FrozenInv'
  OBVIOUS
<1>1. ASSUME UNCHANGED Freeze!vars PROVE FrozenInv'
  <2>1. UNCHANGED <<disk, writer, frozen, reader, verdict, calm>>
    BY <1>1 DEF Freeze!vars
  <2>2. FrozenType' /\ Selections' = Selections
    BY <2>1 DEF FrozenInv, FrozenType, Selections
  <2>3. /\ writer' # Freeze!Idle => (writer.freeze \in Selections /\ writer.file \in 1..3)'
        /\ calm' => ~writer'.open
    BY <2>1, <2>2 DEF FrozenInv, WriterKept, CalmKept
  <2> QED
    BY <2>1, <2>2, <2>3, QuietFrozen
<1> QED
  BY <1>1, PipelineStep, StartFrozen, ReadFrozen DEF Freeze!Next

\* The inductive invariant of freezing and reading, for any number of
\* pipelines and any selections.
THEOREM FrozenInvariant == Freeze!Spec => []FrozenInv
<1>1. Freeze!Init => FrozenInv
  BY InitFrozen, FreezeAssumed
<1>2. FrozenInv /\ [Freeze!Next]_(Freeze!vars) => FrozenInv'
  BY FrozenStep, FreezeAssumed
<1> QED
  BY <1>1, <1>2, PTL DEF Freeze!Spec

\* FrozenIsWhole for any number of pipelines, crashes and selections: what the
\* confirmatory evaluation uses was selected as one whole.
THEOREM FrozenAsOne == Freeze!Spec => []FrozenIsWhole
<1>1. FrozenInv => FrozenIsWhole
  BY FrozenInvGives, FreezeAssumed DEF FrozenIsWhole
<1> QED
  BY <1>1, FrozenInvariant, PTL

-----------------------------------------------------------------------------
(***************************************************************************)
(* The adaptive qualification.  What the gates of a run say of its         *)
(* requests is kept along its plan; that the race of the last two          *)
(* scenarios is over the set the gates K2 and K3 have seen follows from    *)
(* the optimizer being a function of table and target.                     *)
(***************************************************************************)
Steps == 1..(Ties + 6)

\* The decision about the scenario at position i of the plan.
DecisionAt(i) ==
    Adaptive!Select(1..3, Adaptive!Plan[i].table, Adaptive!Plan[i].target,
                    "require-complete", FALSE, 12)

\* The minimum set that the gate of scenario k expects.
MinimumOf(k) == IF k = 1 THEN {1} ELSE IF k = 2 THEN {1, 2} ELSE 1..3

Running == adaptivePhase \in {"asking", "probing", "recording"}

\* An id of an attempt or a request that has been recorded.
Issued(req) == req \in Nat \X Nat /\ req[1] <= run

RowsAreWhole ==
    /\ \A a \in attemptRows :
         /\ a = <<a[1], a[2]>> /\ Issued(a[1])
         /\ Running /\ a[1][1] = run =>
              \/ a[1][2] < step
              \/ (a[1][2] = step /\ adaptivePhase = "recording")
    /\ \A r \in requestRows :
         /\ Issued(r.id)
         /\ Running /\ r.id[1] = run => r.id[2] < step
         /\ {a \in attemptRows : a[1] = r.id} = {r.id} \X r.selected

\* What the gates that have been passed say.
MinimumAsked(k) == \E r \in requestRows : r.id = <<run, k>> /\ r.selected = MinimumOf(k)

PassedOver ==
    /\ "first" \in DOMAIN traces
    /\ traces["first"] = [p \in {1, 2} |-> IF p = 1 THEN "rejected" ELSE "accepted"]

LoserCanceled == {"accepted", "canceled"} \subseteq {traces["cancel"][p] : p \in 1..3}

GatesKept ==
    /\ \A k \in 1..3 : step > k =>
         MinimumAsked(k) /\ DecisionAt(k).subset = MinimumOf(k)
    /\ step > Ties + 5 => PassedOver
    /\ step > Ties + 6 => LoserCanceled

AdaptiveInv ==
    /\ run \in Nat /\ step \in 1..(Ties + 7) /\ passed \in BOOLEAN
    /\ Running \/ adaptivePhase \in Adaptive!Ended
    /\ adaptivePhase \in {"probing", "recording"} =>
         step \in Steps /\ decision = DecisionAt(step)
    /\ adaptivePhase = "recording" => ends \in Adaptive!Races(decision.subset)
    /\ RowsAreWhole
    /\ passed => GatesKept
    /\ adaptivePhase = "exit 0" =>
         passed /\ step = Ties + 7 /\ \A r \in requestRows : r.stamped

-----------------------------------------------------------------------------
LEMMA PlanIs ==
    ASSUME Ties \in Nat
    PROVE  /\ Len(Adaptive!Plan) = Ties + 6 /\ DOMAIN Adaptive!Plan = Steps
           /\ Adaptive!Plan[1].name = "K1"
           /\ Adaptive!Plan[2]
                = Adaptive!Scenario("K2", Adaptive!QTable, Adaptive!Targets.K2, {})
           /\ Adaptive!Plan[3]
                = Adaptive!Scenario("K3", Adaptive!QTable, Adaptive!Targets.K3, {})
           /\ Adaptive!Plan[4].name = "KU"
           /\ \A i \in 5..(Ties + 4) : Adaptive!Plan[i].name = "tie"
           /\ Adaptive!Plan[Ties + 5]
                = Adaptive!Scenario("first", Adaptive!QTable, Adaptive!Targets.K2, {1})
           /\ Adaptive!Plan[Ties + 6]
                = Adaptive!Scenario("cancel", Adaptive!QTable, Adaptive!Targets.K3, {})
<1> DEFINE k1 == Adaptive!Scenario("K1", Adaptive!QTable, Adaptive!Targets.K1, {})
           k2 == Adaptive!Scenario("K2", Adaptive!QTable, Adaptive!Targets.K2, {})
           k3 == Adaptive!Scenario("K3", Adaptive!QTable, Adaptive!Targets.K3, {})
           ku == Adaptive!Scenario("KU", Adaptive!QTable, Adaptive!Targets.KU, {})
           tie == Adaptive!Scenario("tie", TieTable, Adaptive!Targets.K1, {})
           first == Adaptive!Scenario("first", Adaptive!QTable, Adaptive!Targets.K2, {1})
           cancel == Adaptive!Scenario("cancel", Adaptive!QTable, Adaptive!Targets.K3, {})
           A == <<k1, k2, k3, ku>>
           B == [i \in 1..Ties |-> tie]
           C == <<first, cancel>>
           S == {k1, k2, k3, ku, tie, first, cancel}
<1>1. Adaptive!Plan = A \o B \o C
  BY DEF Adaptive!Plan
<1>2. k1.name = "K1" /\ ku.name = "KU" /\ tie.name = "tie"
  BY DEF Adaptive!Scenario
<1> HIDE DEF k1, k2, k3, ku, tie, first, cancel
<1>3. /\ A \in Seq(S) /\ B \in Seq(S) /\ C \in Seq(S)
      /\ Len(A) = 4 /\ Len(B) = Ties /\ Len(C) = 2
  OBVIOUS
<1>4. /\ A[1] = k1 /\ A[2] = k2 /\ A[3] = k3 /\ A[4] = ku /\ C[1] = first /\ C[2] = cancel
      /\ \A i \in 1..Ties : B[i] = tie
  OBVIOUS
<1> HIDE DEF A, B, C, S
<1> DEFINE AB == A \o B
<1>5. /\ AB \in Seq(S) /\ Len(AB) = Ties + 4
      /\ \A i \in 1..4 : AB[i] = A[i]
      /\ \A i \in 5..(Ties + 4) : AB[i] = B[i - 4]
  <2>1. /\ AB \in Seq(S) /\ Len(AB) = Len(A) + Len(B)
        /\ \A i \in 1..(Len(A) + Len(B)) : AB[i] = IF i <= Len(A) THEN A[i] ELSE B[i - Len(A)]
    BY <1>3, ConcatProperties
  <2> QED
    BY <1>3, <2>1
<1> HIDE DEF AB
<1>6. /\ Len(AB \o C) = Ties + 6 /\ DOMAIN (AB \o C) = 1..(Ties + 6)
      /\ \A i \in 1..(Ties + 4) : (AB \o C)[i] = AB[i]
      /\ (AB \o C)[Ties + 5] = C[1] /\ (AB \o C)[Ties + 6] = C[2]
  <2>1. /\ AB \o C \in Seq(S) /\ Len(AB \o C) = Len(AB) + Len(C)
        /\ \A i \in 1..(Len(AB) + Len(C)) :
             (AB \o C)[i] = IF i <= Len(AB) THEN AB[i] ELSE C[i - Len(AB)]
    BY <1>3, <1>5, ConcatProperties
  <2> QED
    BY <1>3, <1>5, <2>1
<1>7. \A i \in 5..(Ties + 4) : AB[i] = tie
  <2>1. \A i \in 5..(Ties + 4) : i - 4 \in 1..Ties
    OBVIOUS
  <2> QED
    BY <1>4, <1>5, <2>1
<1>8. /\ 1 \in 1..4 /\ 2 \in 1..4 /\ 3 \in 1..4 /\ 4 \in 1..4
      /\ \A i \in (1..4) \cup (5..(Ties + 4)) : i \in 1..(Ties + 4)
  OBVIOUS
<1>9. Adaptive!Plan = AB \o C
  BY <1>1 DEF AB
<1> QED
  BY <1>2, <1>4, <1>5, <1>6, <1>7, <1>8, <1>9 DEF k2, k3, first, cancel, Steps

\* The last two scenarios ask what K2 and K3 have asked.
LEMMA AskedAgain ==
    ASSUME Ties \in Nat
    PROVE  DecisionAt(Ties + 5) = DecisionAt(2) /\ DecisionAt(Ties + 6) = DecisionAt(3)
<1>1. /\ Adaptive!Plan[Ties + 5].table = Adaptive!Plan[2].table
      /\ Adaptive!Plan[Ties + 5].target = Adaptive!Plan[2].target
      /\ Adaptive!Plan[Ties + 6].table = Adaptive!Plan[3].table
      /\ Adaptive!Plan[Ties + 6].target = Adaptive!Plan[3].target
  BY PlanIs DEF Adaptive!Scenario
<1> QED
  BY <1>1 DEF DecisionAt

LEMMA InitAdaptive ==
    Adaptive!RunsAssumption /\ Adaptive!Init => AdaptiveInv
<1> SUFFICES ASSUME Adaptive!RunsAssumption, Adaptive!Init PROVE AdaptiveInv
  OBVIOUS
<1>1. Ties \in Nat
  BY DEF Adaptive!RunsAssumption
<1> QED
  BY <1>1 DEF Adaptive!Init, Adaptive!Ended, AdaptiveInv, RowsAreWhole, GatesKept, Running

\* The invariant of the rows, when nothing is recorded.
LEMMA SameRows ==
    ASSUME AdaptiveInv, UNCHANGED <<run, attemptRows, requestRows>>,
           Ties \in Nat, step' \in Int, step' >= step, Running' => Running,
           adaptivePhase # "recording"
    PROVE  RowsAreWhole'
<1>1. \A req : Issued(req) => Issued(req)'
  BY DEF Issued
<1>4. step \in Int
  <2>1. step \in 1..(Ties + 7)
    BY Zenon DEF AdaptiveInv
  <2> QED
    BY <2>1
<1>2. ASSUME NEW a \in attemptRows
      PROVE  /\ a = <<a[1], a[2]>> /\ Issued(a[1])'
             /\ Running' /\ a[1][1] = run' => a[1][2] < step'
  <2>1. a = <<a[1], a[2]>> /\ Issued(a[1])
    BY DEF AdaptiveInv, RowsAreWhole
  <2>2. ASSUME Running', a[1][1] = run'
        PROVE  a[1][2] < step'
    <3>1. a[1][2] < step
      <4>1. RowsAreWhole /\ a[1][1] = run /\ Running
        BY <2>2 DEF AdaptiveInv
      <4> QED
        BY <4>1 DEF RowsAreWhole
    <3>2. a[1][2] \in Nat /\ step \in Int
      BY <1>4, <2>1 DEF Issued
    <3> QED
      BY <3>1, <3>2
  <2> QED
    BY <1>1, <2>1, <2>2
<1>3. ASSUME NEW r \in requestRows
      PROVE  /\ Issued(r.id)'
             /\ Running' /\ r.id[1] = run' => r.id[2] < step'
             /\ {a \in attemptRows : a[1] = r.id} = {r.id} \X r.selected
  <2>1. /\ Issued(r.id)
        /\ Running /\ r.id[1] = run => r.id[2] < step
        /\ {a \in attemptRows : a[1] = r.id} = {r.id} \X r.selected
    BY DEF AdaptiveInv, RowsAreWhole
  <2>2. r.id[2] \in Nat /\ step \in Int
    BY <1>4, <2>1 DEF Issued
  <2> QED
    BY <1>1, <2>1, <2>2
<1> QED
  BY <1>2, <1>3 DEF RowsAreWhole

LEMMA StartAdaptive ==
    ASSUME Adaptive!RunsAssumption, AdaptiveInv, Adaptive!Start
    PROVE  AdaptiveInv'
<1>1. /\ Ties \in Nat /\ run \in Nat /\ run' = run + 1 /\ step' = 1
      /\ adaptivePhase' = "asking"
      /\ attemptRows' = attemptRows /\ requestRows' = requestRows
  BY DEF Adaptive!Start, Adaptive!RunsAssumption, Adaptive!files, AdaptiveInv
<1>3. passed' \in BOOLEAN
  BY DEF Adaptive!Start
<1>2. RowsAreWhole'
  <2>1. ASSUME NEW req, Issued(req) PROVE Issued(req)' /\ req[1] # run'
    BY <1>1, <2>1 DEF Issued
  <2>2. RowsAreWhole
    BY DEF AdaptiveInv
  <2> QED
    BY <1>1, <2>1, <2>2 DEF RowsAreWhole
<1>4. GatesKept' /\ step' \in 1..(Ties + 7)
  BY <1>1 DEF GatesKept
<1>5. Running' /\ run' \in Nat
  BY <1>1 DEF Running
<1> QED
  BY <1>1, <1>2, <1>3, <1>4, <1>5 DEF AdaptiveInv

\* git's answer and the ends of the process lose nothing.
LEMMA DieAdaptive ==
    ASSUME Adaptive!RunsAssumption, AdaptiveInv, Adaptive!Die
    PROVE  AdaptiveInv'
<1>1. /\ Ties \in Nat /\ step' = 1 /\ adaptivePhase' = "killed"
      /\ run' = run /\ attemptRows' = attemptRows /\ requestRows' = requestRows
  BY DEF Adaptive!Die, Adaptive!RunsAssumption, Adaptive!files
<1>4. passed' \in BOOLEAN
  BY DEF Adaptive!Die
<1>2. ~Running' /\ run \in Nat
  BY <1>1 DEF Running, AdaptiveInv
<1>3. RowsAreWhole'
  <2>1. RowsAreWhole /\ \A req : Issued(req) => Issued(req)'
    BY <1>1 DEF AdaptiveInv, Issued
  <2> QED
    BY <1>1, <1>2, <2>1 DEF RowsAreWhole
<1>5. GatesKept' /\ step' \in 1..(Ties + 7)
  BY <1>1 DEF GatesKept
<1> QED
  BY <1>1, <1>2, <1>3, <1>4, <1>5 DEF AdaptiveInv, Adaptive!Ended

LEMMA AskAdaptive ==
    ASSUME Adaptive!RunsAssumption, AdaptiveInv, Adaptive!Ask
    PROVE  AdaptiveInv'
<1> DEFINE d == DecisionAt(step)
           name == Adaptive!Plan[step].name
<1>1. /\ Ties \in Nat /\ step \in Steps /\ adaptivePhase = "asking" /\ decision' = d
      /\ run' = run /\ attemptRows' = attemptRows /\ requestRows' = requestRows
      /\ traces' = traces /\ passed \in BOOLEAN /\ run \in Nat
  <2>1. Ties \in Nat
    BY DEF Adaptive!RunsAssumption
  <2>2. step \in DOMAIN Adaptive!Plan
    BY DEF Adaptive!Ask
  <2>3. Adaptive!Decided = d
    BY DEF Adaptive!Decided, Adaptive!Now, DecisionAt
  <2> QED
    BY <2>1, <2>2, <2>3, PlanIs DEF Adaptive!Ask, Adaptive!files, AdaptiveInv
<1>2. \/ adaptivePhase' = "probing" /\ step' = step /\ passed' = passed
      \/ adaptivePhase' = "raised" /\ step' = step /\ passed' = passed
      \/ /\ adaptivePhase' = "asking" /\ step' = step + 1
         /\ ~(name \in {"tie", "first", "cancel"})
         /\ passed' \in BOOLEAN /\ (passed' => passed /\ name = "KU")
  <2>1. CASE Adaptive!Decided.status = "SELECTED"
    BY <2>1 DEF Adaptive!Ask
  <2>2. CASE Adaptive!Decided.status # "SELECTED" /\ Adaptive!Indispensable
    BY <2>2 DEF Adaptive!Ask
  <2>3. CASE Adaptive!Decided.status # "SELECTED" /\ ~Adaptive!Indispensable
    <3>1. /\ adaptivePhase' = adaptivePhase /\ step' = step + 1
          /\ passed' = (passed /\ Adaptive!Unsatisfiable(Adaptive!Decided))
      BY <2>3 DEF Adaptive!Ask
    <3>2. passed' \in BOOLEAN /\ (passed' => passed /\ name = "KU")
      BY <3>1, Zenon DEF Adaptive!Unsatisfiable, Adaptive!Now
    <3> QED
      BY <1>1, <2>3, <3>1, <3>2 DEF Adaptive!Indispensable, Adaptive!Now
  <2> QED
    BY <2>1, <2>2, <2>3
<1>3. step' \in 1..(Ties + 7) /\ step' >= step /\ passed' \in BOOLEAN /\ (passed' => passed)
  BY <1>1, <1>2 DEF Steps
<1>4. RowsAreWhole'
  BY <1>1, <1>3, SameRows DEF Running
<1>5. ASSUME passed' PROVE GatesKept'
  <2>1. GatesKept
    BY <1>3, <1>5 DEF AdaptiveInv
  <2>2. \A k : MinimumAsked(k)' <=> MinimumAsked(k)
    BY <1>1 DEF MinimumAsked
  <2>3. (PassedOver' <=> PassedOver) /\ (LoserCanceled' <=> LoserCanceled)
    BY <1>1 DEF PassedOver, LoserCanceled
  <2>4. step' = step \/ (step' = step + 1 /\ step = 4)
    <3>1. ASSUME name = "KU", ~(name \in {"tie", "first", "cancel"}) PROVE step = 4
      <4>1. /\ Adaptive!Plan[1].name = "K1" /\ Adaptive!Plan[2].name = "K2"
            /\ Adaptive!Plan[3].name = "K3"
        BY <1>1, PlanIs DEF Adaptive!Scenario
      <4>2. /\ \A i \in 5..(Ties + 4) : Adaptive!Plan[i].name = "tie"
            /\ Adaptive!Plan[Ties + 5].name = "first"
            /\ Adaptive!Plan[Ties + 6].name = "cancel"
        BY <1>1, PlanIs DEF Adaptive!Scenario
      <4>3. \/ step = 1 \/ step = 2 \/ step = 3 \/ step = 4 \/ step \in 5..(Ties + 4)
            \/ step = Ties + 5 \/ step = Ties + 6
        BY <1>1 DEF Steps
      <4> QED
        BY <3>1, <4>1, <4>2, <4>3
    <3> HIDE DEF name
    <3> QED
      BY <1>2, <1>5, <3>1
  <2>5. step \in Int /\ Ties \in Nat
    BY <1>1 DEF Steps
  <2>6. /\ \A k \in 1..3 : step' > k => step > k
        /\ step' > Ties + 5 => step > Ties + 5
        /\ step' > Ties + 6 => step > Ties + 6
    BY <2>4, <2>5
  <2> QED
    BY <2>1, <2>2, <2>3, <2>6 DEF GatesKept
<1>6. CASE adaptivePhase' = "probing"
  <2>1. step' = step
    BY <1>2, <1>6
  <2> QED
    BY <1>1, <1>3, <1>4, <1>5, <1>6, <2>1 DEF AdaptiveInv, Running, DecisionAt
<1>7. CASE adaptivePhase' # "probing"
  <2>1. adaptivePhase' \in {"asking", "raised"}
    BY <1>2, <1>7
  <2> QED
    BY <1>1, <1>3, <1>4, <1>5, <2>1 DEF AdaptiveInv, Running, Adaptive!Ended
<1> QED
  BY <1>6, <1>7

LEMMA RaceAdaptive ==
    ASSUME Adaptive!RunsAssumption, AdaptiveInv, Adaptive!Race
    PROVE  AdaptiveInv'
<1>1. /\ Ties \in Nat /\ adaptivePhase = "probing" /\ adaptivePhase' = "recording"
      /\ step' = step /\ decision' = decision /\ brokenResolvers' = brokenResolvers
      /\ run' = run /\ attemptRows' = attemptRows /\ requestRows' = requestRows
      /\ traces' = traces /\ passed' = passed
      /\ ends' \in Adaptive!Races(decision.subset)
  BY DEF Adaptive!Race, Adaptive!RunsAssumption, Adaptive!files, Adaptive!judgement
<1>2. /\ run \in Nat /\ step \in 1..(Ties + 7) /\ passed \in BOOLEAN
      /\ step \in Steps /\ decision = DecisionAt(step) /\ (passed => GatesKept)
  BY <1>1 DEF AdaptiveInv
<1>3. RowsAreWhole'
  <2>1. step' \in Int /\ step' >= step
    BY <1>1, <1>2
  <2> QED
    BY <1>1, <2>1, SameRows DEF Running
<1>4. GatesKept' <=> GatesKept
  BY <1>1 DEF GatesKept, MinimumAsked, PassedOver, LoserCanceled
<1>5. (ends \in Adaptive!Races(decision.subset))'
  BY <1>1 DEF Adaptive!Races
<1>6. (step \in Steps /\ decision = DecisionAt(step))'
  BY <1>1, <1>2 DEF DecisionAt
<1> QED
  BY <1>1, <1>2, <1>3, <1>4, <1>5, <1>6 DEF AdaptiveInv, Running

LEMMA JudgeAdaptive ==
    ASSUME Adaptive!RunsAssumption, AdaptiveInv, Adaptive!Judge
    PROVE  AdaptiveInv'
<1>1. /\ adaptivePhase = "asking"
      /\ adaptivePhase' \in {"exit 0", "exit 1"}
      /\ step' = step /\ run' = run /\ attemptRows' = attemptRows
      /\ requestRows' = requestRows /\ traces' = traces /\ passed' = passed
  BY DEF Adaptive!Judge, Adaptive!files, Adaptive!judgement, Adaptive!Rows
<1>9. Ties \in Nat /\ step = Ties + 7 /\ step \in Int /\ step' = step
  <2>1. Ties \in Nat /\ Len(Adaptive!Plan) = Ties + 6
    BY PlanIs DEF Adaptive!RunsAssumption
  <2>2. step = Len(Adaptive!Plan) + 1 /\ step' = step
    BY DEF Adaptive!Judge
  <2> QED
    BY <2>1, <2>2
<1>8. adaptivePhase' = "exit 0" => passed' /\ \A r \in requestRows' : r.stamped
  <2>1. PICK regressed, dirty \in BOOLEAN :
          adaptivePhase' = IF /\ passed /\ regressed /\ commit /\ ~dirty
                              /\ requestRows # {} /\ Adaptive!Reconciles
                              /\ \A r \in requestRows : r.stamped
                           THEN "exit 0" ELSE "exit 1"
    BY DEF Adaptive!Judge, Adaptive!Rows
  <2> QED
    BY <1>1, <2>1
<1>2. /\ run \in Nat /\ step \in 1..(Ties + 7) /\ passed \in BOOLEAN /\ (passed => GatesKept)
  BY <1>1 DEF AdaptiveInv
<1>3. RowsAreWhole'
  <2>1. step' \in Int /\ step' >= step
    BY <1>9
  <2> QED
    BY <1>1, <1>9, <2>1, SameRows DEF Running
<1>4. GatesKept' <=> GatesKept
  <2>1. UNCHANGED <<run, step, requestRows, traces>>
    BY <1>1
  <2> QED
    BY <2>1 DEF GatesKept, MinimumAsked, PassedOver, LoserCanceled
<1>6. run' \in Nat /\ step' \in 1..(Ties + 7) /\ passed' \in BOOLEAN /\ (passed' => GatesKept')
  BY <1>1, <1>2, <1>4, <1>9
<1>7. adaptivePhase' = "exit 0" => passed' /\ step' = Ties + 7 /\ \A r \in requestRows' : r.stamped
  BY <1>8, <1>9
<1>5. adaptivePhase' \in Adaptive!Ended /\ adaptivePhase' \notin {"probing", "recording"}
  BY <1>1 DEF Adaptive!Ended
<1> QED
  BY <1>3, <1>5, <1>6, <1>7 DEF AdaptiveInv

LEMMA EnterAdaptive ==
    ASSUME Adaptive!RunsAssumption, AdaptiveInv, Adaptive!EnterAttempt
    PROVE  AdaptiveInv'
<1> DEFINE req == <<run, step>>
<1>1. /\ adaptivePhase = "recording" /\ adaptivePhase' = adaptivePhase
      /\ step' = step /\ decision' = decision /\ ends' = ends
      /\ brokenResolvers' = brokenResolvers /\ run' = run /\ requestRows' = requestRows
      /\ traces' = traces /\ passed' = passed
  BY DEF Adaptive!EnterAttempt, Adaptive!scenarioVars, Adaptive!judgement
<1>2. PICK p : attemptRows' = attemptRows \cup {<<req, p>>}
  BY DEF Adaptive!EnterAttempt, Adaptive!RequestId
<1>3. /\ run \in Nat /\ step \in 1..(Ties + 7) /\ passed \in BOOLEAN /\ step \in Steps
      /\ decision = DecisionAt(step) /\ ends \in Adaptive!Races(decision.subset)
      /\ (passed => GatesKept) /\ RowsAreWhole
  BY <1>1 DEF AdaptiveInv
<1>4. Ties \in Nat /\ step \in Nat
  <2>1. Ties \in Nat
    BY DEF Adaptive!RunsAssumption
  <2> QED
    BY <1>3, <2>1 DEF Steps
<1>5. Running /\ Running' /\ \A i : Issued(i)' <=> Issued(i)
  BY <1>1 DEF Running, Issued
<1>6. RowsAreWhole'
  <2>1. ASSUME NEW a \in attemptRows'
        PROVE  /\ a = <<a[1], a[2]>> /\ Issued(a[1])'
               /\ Running' /\ a[1][1] = run' =>
                    \/ a[1][2] < step'
                    \/ (a[1][2] = step' /\ adaptivePhase' = "recording")
    <3>1. CASE a \in attemptRows
      BY <1>1, <1>3, <1>5, <3>1 DEF RowsAreWhole
    <3>2. CASE a = <<req, p>>
      <4>1. a[1] = <<run, step>> /\ a = <<a[1], a[2]>>
        BY <3>2
      <4>2. Issued(a[1])
        BY <1>3, <1>4, <4>1 DEF Issued
      <4> QED
        BY <1>1, <1>5, <4>1, <4>2
    <3> QED
      BY <1>2, <3>1, <3>2
  <2>2. ASSUME NEW r \in requestRows'
        PROVE  /\ Issued(r.id)'
               /\ Running' /\ r.id[1] = run' => r.id[2] < step'
               /\ {a \in attemptRows' : a[1] = r.id} = {r.id} \X r.selected
    <3>1. /\ Issued(r.id) /\ (r.id[1] = run => r.id[2] < step)
          /\ {a \in attemptRows : a[1] = r.id} = {r.id} \X r.selected
      BY <1>1, <1>3, <1>5, <2>2 DEF RowsAreWhole
    <3>2. r.id # req
      <4>1. r.id[2] \in Nat
        BY <3>1 DEF Issued
      <4>2. req[1] = run /\ req[2] = step
        OBVIOUS
      <4> HIDE DEF req
      <4> QED
        BY <1>4, <3>1, <4>1, <4>2
    <3>3. {a \in attemptRows' : a[1] = r.id} = {a \in attemptRows : a[1] = r.id}
      <4> HIDE DEF req
      <4> QED
        BY <1>2, <3>2
    <3> QED
      BY <1>1, <1>5, <3>1, <3>3
  <2> QED
    BY <2>1, <2>2 DEF RowsAreWhole
<1>7. GatesKept' <=> GatesKept
  <2>1. UNCHANGED <<run, step, requestRows, traces>>
    BY <1>1
  <2> QED
    BY <2>1 DEF GatesKept, MinimumAsked, PassedOver, LoserCanceled
<1>8. (ends \in Adaptive!Races(decision.subset))'
  BY <1>1, <1>3 DEF Adaptive!Races
<1>9. (step \in Steps /\ decision = DecisionAt(step))'
  BY <1>1, <1>3 DEF DecisionAt
<1> QED
  BY <1>1, <1>3, <1>5, <1>6, <1>7, <1>8, <1>9 DEF AdaptiveInv

LEMMA NamesAre ==
    ASSUME Ties \in Nat, NEW i \in Steps
    PROVE  /\ i = 1 => Adaptive!Plan[i].name = "K1"
           /\ i = 2 => Adaptive!Plan[i].name = "K2"
           /\ i = 3 => Adaptive!Plan[i].name = "K3"
           /\ i = 4 => Adaptive!Plan[i].name = "KU"
           /\ i = Ties + 5 => Adaptive!Plan[i].name = "first"
           /\ i = Ties + 6 => Adaptive!Plan[i].name = "cancel"
           /\ i \notin {1, 2, 3, 4, Ties + 5, Ties + 6} =>
                i \in 5..(Ties + 4) /\ Adaptive!Plan[i].name = "tie"
<1>1. i \notin {1, 2, 3, 4, Ties + 5, Ties + 6} => i \in 5..(Ties + 4)
  BY DEF Steps
<1> QED
  BY <1>1, PlanIs DEF Adaptive!Scenario

\* What a race over the sets of K2 and K3 says where its gate passes.
LEMMA RaceOfFirst ==
    ASSUME ends \in Adaptive!Races({1, 2}), Adaptive!Accepted # {},
           1 \in DOMAIN ends, ends[1] = "rejected"
    PROVE  ends = [p \in {1, 2} |-> IF p = 1 THEN "rejected" ELSE "accepted"]
<1>1. ends \in [{1, 2} -> {"accepted", "rejected", "canceled"}]
  BY DEF Adaptive!Races
<1>2. ends[2] = "accepted"
  BY <1>1 DEF Adaptive!Accepted
<1> QED
  BY <1>1, <1>2

LEMMA RaceOfCancel ==
    ASSUME ends \in Adaptive!Races(1..3), \E p \in DOMAIN ends : ends[p] = "canceled"
    PROVE  {"accepted", "canceled"} \subseteq {ends[p] : p \in 1..3}
<1>1. /\ ends \in [1..3 -> {"accepted", "rejected", "canceled"}]
      /\ "canceled" \in {ends[p] : p \in 1..3} => "accepted" \in {ends[p] : p \in 1..3}
  BY DEF Adaptive!Races
<1> QED
  BY <1>1

\* The request that is recorded has the attempts of the set that was selected.
LEMMA AnswerRows ==
    ASSUME Ties \in Nat, AdaptiveInv, Adaptive!Answer
    PROVE  RowsAreWhole'
<1> DEFINE req == <<run, step>>
<1>1. /\ adaptivePhase = "recording" /\ adaptivePhase' = "asking" /\ step' = step + 1
      /\ run' = run /\ attemptRows' = attemptRows
  BY DEF Adaptive!Answer
<1>2. /\ requestRows' = requestRows \cup {Adaptive!Record}
      /\ Adaptive!Entered = decision.subset
  BY DEF Adaptive!Answer, Adaptive!AllEntered
<1>3. RowsAreWhole /\ run \in Nat /\ step \in Steps
  BY <1>1 DEF AdaptiveInv
<1>4. step \in Nat
  BY <1>3 DEF Steps
<1>5. Running /\ Running' /\ \A i : Issued(i)' <=> Issued(i)
  BY <1>1 DEF Running, Issued
<1>6. ASSUME NEW a \in attemptRows'
      PROVE  /\ a = <<a[1], a[2]>> /\ Issued(a[1])'
             /\ Running' /\ a[1][1] = run' => a[1][2] < step'
  <2>1. /\ a = <<a[1], a[2]>> /\ Issued(a[1])
        /\ a[1][1] = run => a[1][2] < step \/ a[1][2] = step
    BY <1>1, <1>3, <1>5, <1>6 DEF RowsAreWhole
  <2>2. a[1][2] \in Nat
    BY <2>1 DEF Issued
  <2> QED
    BY <1>1, <1>4, <1>5, <2>1, <2>2
<1>7. ASSUME NEW r \in requestRows
      PROVE  /\ Issued(r.id)'
             /\ Running' /\ r.id[1] = run' => r.id[2] < step'
             /\ {a \in attemptRows' : a[1] = r.id} = {r.id} \X r.selected
  <2>1. /\ Issued(r.id) /\ (r.id[1] = run => r.id[2] < step)
        /\ {a \in attemptRows : a[1] = r.id} = {r.id} \X r.selected
    BY <1>1, <1>3, <1>5 DEF RowsAreWhole
  <2>2. r.id[2] \in Nat
    BY <2>1 DEF Issued
  <2> QED
    BY <1>1, <1>4, <1>5, <2>1, <2>2
<1>8. ASSUME NEW r, r = Adaptive!Record
      PROVE  /\ Issued(r.id)'
             /\ Running' /\ r.id[1] = run' => r.id[2] < step'
             /\ {a \in attemptRows' : a[1] = r.id} = {r.id} \X r.selected
  <2>1. r.id = req /\ r.selected = decision.subset
    BY <1>8 DEF Adaptive!Record, Adaptive!RequestId
  <2>2. Issued(req) /\ req[1] = run /\ req[2] = step
    BY <1>3, <1>4 DEF Issued
  <2>3. decision.subset = {a[2] : a \in {b \in attemptRows : b[1] = req}}
    BY <1>2 DEF Adaptive!Entered, Adaptive!RequestId
  <2>4. \A a \in attemptRows : a = <<a[1], a[2]>>
    BY <1>3 DEF RowsAreWhole
  <2> HIDE DEF req
  <2>5. {a \in attemptRows : a[1] = req} = {req} \X decision.subset
    <3>1. ASSUME NEW a \in attemptRows, a[1] = req PROVE a \in {req} \X decision.subset
      BY <2>3, <2>4, <3>1
    <3>2. ASSUME NEW a \in {req} \X decision.subset PROVE a \in attemptRows /\ a[1] = req
      <4>1. PICK b \in attemptRows : b[1] = req /\ b[2] = a[2]
        BY <2>3
      <4>2. b = <<b[1], b[2]>> /\ a = <<req, a[2]>>
        BY <2>4
      <4> QED
        BY <4>1, <4>2
    <3> QED
      BY <3>1, <3>2
  <2> QED
    BY <1>1, <1>4, <1>5, <2>1, <2>2, <2>5
<1> QED
  BY <1>2, <1>6, <1>7, <1>8 DEF RowsAreWhole

LEMMA AnswerGates ==
    ASSUME Ties \in Nat, AdaptiveInv, Adaptive!Answer, passed'
    PROVE  GatesKept'
<1> DEFINE name == Adaptive!Plan[step].name
<1>1. /\ adaptivePhase = "recording" /\ step' = step + 1 /\ run' = run
      /\ requestRows' = requestRows \cup {Adaptive!Record} /\ traces' = Adaptive!Kept
  BY DEF Adaptive!Answer
<1>2. passed /\ Adaptive!ScenarioPassed
  BY Zenon DEF Adaptive!Answer
<1>3. /\ step \in Steps /\ decision = DecisionAt(step) /\ GatesKept
      /\ ends \in Adaptive!Races(decision.subset)
  BY <1>1, <1>2 DEF AdaptiveInv
<1>4. step \in Nat
  BY <1>3 DEF Steps
<1>5. \A k : MinimumAsked(k) => MinimumAsked(k)'
  BY <1>1 DEF MinimumAsked
<1>6. ASSUME NEW k \in 1..3, step = k
      PROVE  MinimumAsked(k)' /\ DecisionAt(k).subset = MinimumOf(k)
  <2>1. /\ k = 1 => name = "K1"
        /\ k = 2 => name = "K2"
        /\ k = 3 => name = "K3"
    BY <1>3, <1>6, NamesAre
  <2>2. k = 1 \/ k = 2 \/ k = 3
    OBVIOUS
  <2>3. decision.subset = Adaptive!Expected
    BY <1>2, <2>1, <2>2, Zenon DEF Adaptive!ScenarioPassed, Adaptive!Now
  <2>4. Adaptive!Expected = MinimumOf(k)
    BY <2>1, <2>2 DEF Adaptive!Expected, Adaptive!Now, MinimumOf
  <2>5. Adaptive!Record.id = <<run, k>> /\ Adaptive!Record.selected = decision.subset
    BY <1>6 DEF Adaptive!Record, Adaptive!RequestId
  <2> QED
    BY <1>1, <1>3, <1>6, <2>3, <2>4, <2>5 DEF MinimumAsked
<1>7. \A k \in 1..3 : step' > k => MinimumAsked(k)' /\ DecisionAt(k).subset = MinimumOf(k)
  <2> TAKE k \in 1..3
  <2>1. step' > k => step > k \/ step = k
    BY <1>1, <1>4
  <2> QED
    BY <1>3, <1>5, <1>6, <2>1 DEF GatesKept
<1>8. ASSUME step' > Ties + 5 PROVE PassedOver'
  <2>1. step = Ties + 5 \/ step = Ties + 6
    BY <1>1, <1>3, <1>8 DEF Steps
  <2>2. CASE step = Ties + 5
    <3>1. name = "first"
      BY <1>3, <2>2, NamesAre
    <3>2. Adaptive!Accepted # {} /\ 1 \in DOMAIN ends /\ ends[1] = "rejected"
      BY <1>2, <3>1, Zenon DEF Adaptive!ScenarioPassed, Adaptive!Now
    <3>3. decision.subset = {1, 2}
      BY <1>3, <1>4, <2>2, AskedAgain DEF GatesKept, MinimumOf
    <3>4. ends = [p \in {1, 2} |-> IF p = 1 THEN "rejected" ELSE "accepted"]
      BY <1>3, <3>2, <3>3, RaceOfFirst
    <3>5. "first" \in DOMAIN traces' /\ traces'["first"] = ends
      BY <1>1, <3>1 DEF Adaptive!Kept, Adaptive!Now
    <3> QED
      BY <3>4, <3>5 DEF PassedOver
  <2>3. CASE step = Ties + 6
    <3>1. name = "cancel"
      BY <1>3, <2>3, NamesAre
    <3>2. PassedOver
      BY <1>3, <1>4, <2>3 DEF GatesKept
    <3>3. "first" \in DOMAIN traces' /\ traces'["first"] = traces["first"]
      BY <1>1, <3>1, <3>2 DEF Adaptive!Kept, Adaptive!Now, PassedOver
    <3> QED
      BY <3>2, <3>3 DEF PassedOver
  <2> QED
    BY <2>1, <2>2, <2>3
<1>9. ASSUME step' > Ties + 6 PROVE LoserCanceled'
  <2>1. step = Ties + 6
    BY <1>1, <1>3, <1>9 DEF Steps
  <2>2. name = "cancel"
    BY <1>3, <2>1, NamesAre
  <2>3. \E p \in DOMAIN ends : ends[p] = "canceled"
    BY <1>2, <2>2, Zenon DEF Adaptive!ScenarioPassed, Adaptive!Now
  <2>4. decision.subset = 1..3
    BY <1>3, <1>4, <2>1, AskedAgain DEF GatesKept, MinimumOf
  <2>5. {"accepted", "canceled"} \subseteq {ends[p] : p \in 1..3}
    BY <1>3, <2>3, <2>4, RaceOfCancel
  <2>6. traces'["cancel"] = ends
    BY <1>1, <2>2 DEF Adaptive!Kept, Adaptive!Now
  <2> QED
    BY <2>5, <2>6 DEF LoserCanceled
<1>10. \A k : DecisionAt(k)' = DecisionAt(k) /\ MinimumOf(k)' = MinimumOf(k)
  BY DEF DecisionAt, MinimumOf
<1> QED
  BY <1>7, <1>8, <1>9, <1>10 DEF GatesKept

LEMMA AnswerAdaptive ==
    ASSUME Adaptive!RunsAssumption, AdaptiveInv, Adaptive!Answer
    PROVE  AdaptiveInv'
<1>1. Ties \in Nat
  BY DEF Adaptive!RunsAssumption
<1>2. /\ adaptivePhase = "recording" /\ adaptivePhase' = "asking" /\ step' = step + 1
      /\ run' = run
  BY DEF Adaptive!Answer
<1>3. passed' \in BOOLEAN
  BY Zenon DEF Adaptive!Answer
<1>4. run' \in Nat /\ step' \in 1..(Ties + 7) /\ Running'
  <2>1. run \in Nat /\ step \in Steps
    BY <1>2 DEF AdaptiveInv
  <2> QED
    BY <1>1, <1>2, <2>1 DEF Steps, Running
<1>5. RowsAreWhole' /\ (passed' => GatesKept')
  BY <1>1, AnswerRows, AnswerGates
<1> QED
  BY <1>2, <1>3, <1>4, <1>5 DEF AdaptiveInv

LEMMA AdaptiveStep ==
    Adaptive!RunsAssumption /\ AdaptiveInv /\ [Adaptive!Next]_(Adaptive!vars) => AdaptiveInv'
<1> SUFFICES ASSUME Adaptive!RunsAssumption, AdaptiveInv, [Adaptive!Next]_(Adaptive!vars)
             PROVE  AdaptiveInv'
  OBVIOUS
<1>1. CASE UNCHANGED Adaptive!vars
  <2>1. UNCHANGED <<run, step, adaptivePhase, brokenResolvers, decision, ends, traces,
                    passed, attemptRows, requestRows>>
    BY <1>1 DEF Adaptive!vars, Adaptive!scenarioVars, Adaptive!judgement, Adaptive!files
  <2>2. /\ RowsAreWhole' <=> RowsAreWhole
        /\ GatesKept' <=> GatesKept
        /\ Running' <=> Running
        /\ (ends \in Adaptive!Races(decision.subset))'
             <=> ends \in Adaptive!Races(decision.subset)
    BY <2>1 DEF RowsAreWhole, GatesKept, MinimumAsked, PassedOver, LoserCanceled, Running,
                Issued, Adaptive!Races
  <2>3. \A i : DecisionAt(i)' = DecisionAt(i)
    BY DEF DecisionAt
  <2> QED
    BY <2>1, <2>2, <2>3 DEF AdaptiveInv
<1> QED
  BY <1>1, StartAdaptive, AskAdaptive, RaceAdaptive, EnterAdaptive, AnswerAdaptive,
     JudgeAdaptive, DieAdaptive DEF Adaptive!Next

LEMMA AdaptiveInvGives ==
    Adaptive!RunsAssumption /\ AdaptiveInv => Adaptive!AdaptiveSuccessIsEarned
<1> SUFFICES ASSUME Adaptive!RunsAssumption, AdaptiveInv
             PROVE  Adaptive!AdaptiveSuccessIsEarned
  OBVIOUS
<1>1. \A r \in requestRows :
        {a \in attemptRows : a[1] = r.id} = {r.id} \X r.selected
  BY DEF AdaptiveInv, RowsAreWhole
<1>2. ASSUME adaptivePhase = "exit 0"
      PROVE  /\ \A r \in requestRows : r.stamped
             /\ \A S \in {{1}, {1, 2}, {1, 2, 3}} :
                  \E r \in requestRows : r.id[1] = run /\ r.selected = S
             /\ traces["first"] = [p \in {1, 2} |-> IF p = 1 THEN "rejected" ELSE "accepted"]
             /\ {"accepted", "canceled"} \subseteq {traces["cancel"][p] : p \in 1..3}
  <2>1. /\ passed /\ GatesKept /\ step = Ties + 7
        /\ \A r \in requestRows : r.stamped
    BY <1>2 DEF AdaptiveInv
  <2>2. /\ step > 1 /\ step > 2 /\ step > 3 /\ step > Ties + 5 /\ step > Ties + 6
    BY <2>1 DEF Adaptive!RunsAssumption
  <2>3. MinimumAsked(1) /\ MinimumAsked(2) /\ MinimumAsked(3) /\ PassedOver /\ LoserCanceled
    BY <2>1, <2>2 DEF GatesKept
  <2>4. 1..3 = {1, 2, 3}
    OBVIOUS
  <2>5. \A S \in {{1}, {1, 2}, {1, 2, 3}} :
          \E r \in requestRows : r.id[1] = run /\ r.selected = S
    <3>1. \A k \in 1..3 : \E r \in requestRows : r.id[1] = run /\ r.selected = MinimumOf(k)
      <4>1. \A k \in 1..3 : MinimumAsked(k)
        BY <2>1, <2>2 DEF GatesKept
      <4> QED
        BY <4>1 DEF MinimumAsked
    <3>2. MinimumOf(1) = {1} /\ MinimumOf(2) = {1, 2} /\ MinimumOf(3) = {1, 2, 3}
      BY <2>4 DEF MinimumOf
    <3>3. 1 \in 1..3 /\ 2 \in 1..3 /\ 3 \in 1..3
      OBVIOUS
    <3> HIDE DEF MinimumOf
    <3> QED
      BY <3>1, <3>2, <3>3
  <2> QED
    BY <2>1, <2>3, <2>5 DEF PassedOver, LoserCanceled
<1> QED
  BY <1>1, <1>2 DEF Adaptive!AdaptiveSuccessIsEarned

\* The inductive invariant of the adaptive qualification.
THEOREM AdaptiveInvariant == Adaptive!Spec => []AdaptiveInv
<1>1. Adaptive!Init => AdaptiveInv
  BY InitAdaptive, RunsAssumed
<1>2. AdaptiveInv /\ [Adaptive!Next]_(Adaptive!vars) => AdaptiveInv'
  BY AdaptiveStep, RunsAssumed
<1> QED
  BY <1>1, <1>2, PTL DEF Adaptive!Spec

\* AdaptiveSuccessIsEarned for any table of the tie, any number of times it is
\* asked and any sequence of runs: what earlier runs left in the files earns no
\* success.
THEOREM AdaptiveIsEarned == Adaptive!Spec => []AdaptiveSuccessIsEarned
<1>1. AdaptiveInv => AdaptiveSuccessIsEarned
  BY AdaptiveInvGives, RunsAssumed DEF AdaptiveSuccessIsEarned
<1> QED
  BY <1>1, AdaptiveInvariant, PTL

-----------------------------------------------------------------------------
(***************************************************************************)
(* Rows selected by their positions.                                       *)
(***************************************************************************)
Sequential(s) == s \in Seq({s[i] : i \in DOMAIN s})

\* The n-th position in I, and which one position i is.
NthOf(I, n) == CHOOSE i \in I : Cardinality(I \cap 1..i) = n
RankIn(I, i) == Cardinality(I \cap 1..i)

LEMMA SequentialIs ==
    ASSUME NEW s, Sequential(s)
    PROVE  /\ Len(s) \in Nat /\ DOMAIN s = 1..Len(s)
           /\ s = [i \in 1..Len(s) |-> s[i]]
  BY DEF Sequential

LEMMA FunctionIsSequential ==
    ASSUME NEW n \in Nat, NEW s, DOMAIN s = 1..n, s = [i \in 1..n |-> s[i]]
    PROVE  Sequential(s) /\ Len(s) = n
<1> DEFINE T == {s[i] : i \in DOMAIN s}
<1>1. s \in [1..n -> T]
  OBVIOUS
<1> HIDE DEF T
<1>2. s \in Seq(T) /\ Len(s) = n
  BY <1>1
<1> QED
  BY <1>2 DEF Sequential, T

LEMMA SequentialAppend ==
    ASSUME NEW s, NEW x, Sequential(s)
    PROVE  /\ Sequential(Append(s, x)) /\ Len(Append(s, x)) = Len(s) + 1
           /\ DOMAIN Append(s, x) = 1..(Len(s) + 1)
           /\ \A i \in 1..Len(s) : Append(s, x)[i] = s[i]
           /\ Append(s, x)[Len(s) + 1] = x
<1> DEFINE T == {s[i] : i \in DOMAIN s} \cup {x}
           t == Append(s, x)
<1>1. s \in Seq(T)
  BY SeqMonotonic DEF Sequential
<1>2. x \in T
  OBVIOUS
<1> HIDE DEF T
<1>3. /\ t \in Seq(T) /\ Len(t) = Len(s) + 1 /\ t[Len(s) + 1] = x
      /\ \A i \in 1..Len(s) : t[i] = s[i]
  BY <1>1, <1>2
<1> HIDE DEF t
<1>4. Len(s) + 1 \in Nat /\ DOMAIN t = 1..(Len(s) + 1) /\ t = [i \in 1..(Len(s) + 1) |-> t[i]]
  BY <1>1, <1>3
<1>5. Sequential(t)
  BY <1>4, FunctionIsSequential
<1> QED
  BY <1>3, <1>4, <1>5 DEF t

LEMMA SequentialTail ==
    ASSUME NEW s, Sequential(s), s # << >>
    PROVE  /\ Sequential(Tail(s)) /\ Len(Tail(s)) = Len(s) - 1 /\ Len(s) > 0
           /\ Head(s) = s[1]
           /\ DOMAIN Tail(s) = 1..(Len(s) - 1)
           /\ \A i \in 1..(Len(s) - 1) : Tail(s)[i] = s[i + 1]
<1> DEFINE T == {s[i] : i \in DOMAIN s}
           t == Tail(s)
<1>1. s \in Seq(T)
  BY DEF Sequential
<1> HIDE DEF T
<1>2. /\ t \in Seq(T) /\ Len(t) = Len(s) - 1 /\ Len(s) \in Nat /\ Len(s) > 0
      /\ Head(s) = s[1]
      /\ \A i \in 1..(Len(s) - 1) : t[i] = s[i + 1]
  BY <1>1
<1> HIDE DEF t
<1>3. Len(s) - 1 \in Nat /\ DOMAIN t = 1..(Len(s) - 1) /\ t = [i \in 1..(Len(s) - 1) |-> t[i]]
  BY <1>1, <1>2
<1>4. Sequential(t)
  BY <1>3, FunctionIsSequential
<1> QED
  BY <1>2, <1>3, <1>4 DEF t

LEMMA EmptyIsSequential == Sequential(<< >>) /\ Len(<< >>) = 0 /\ DOMAIN << >> = {}
  BY DEF Sequential

LEMMA PositionsFinite ==
    ASSUME NEW n \in Nat, NEW I \in SUBSET (1..n)
    PROVE  IsFiniteSet(I) /\ Cardinality(I) \in Nat
<1>1. IsFiniteSet(1..n)
  BY FS_Interval
<1> QED
  BY <1>1, FS_Subset, FS_CardinalityType

\* The rank of a position among I counts it and those before it.
LEMMA RankIs ==
    ASSUME NEW n \in Nat, NEW I \in SUBSET (1..n)
    PROVE  /\ \A i \in I : RankIn(I, i) \in 1..Cardinality(I)
           /\ \A i, j \in I : i < j => RankIn(I, i) < RankIn(I, j)
           /\ \A i, j \in I : RankIn(I, i) = RankIn(I, j) => i = j
<1>1. \A K \in SUBSET (1..n) : IsFiniteSet(K) /\ Cardinality(K) \in Nat
  BY PositionsFinite
<1>2. ASSUME NEW i \in I PROVE RankIn(I, i) \in 1..Cardinality(I)
  <2> DEFINE K == I \cap 1..i
  <2>1. K \in SUBSET I /\ i \in K /\ K \in SUBSET (1..n)
    OBVIOUS
  <2> HIDE DEF K
  <2>2. Cardinality(K) <= Cardinality(I) /\ Cardinality(K) # 0
    BY <1>1, <2>1, FS_Subset, FS_EmptySet
  <2> QED
    BY <1>1, <2>1, <2>2 DEF RankIn, K
<1>3. ASSUME NEW i \in I, NEW j \in I, i < j PROVE RankIn(I, i) < RankIn(I, j)
  <2> DEFINE K == I \cap 1..i
             M == I \cap 1..j
  <2>1. K \in SUBSET M /\ j \in M /\ j \notin K /\ M \in SUBSET (1..n) /\ K \in SUBSET (1..n)
    BY <1>3
  <2> HIDE DEF K, M
  <2>2. Cardinality(K) <= Cardinality(M) /\ (Cardinality(M) = Cardinality(K) => M = K)
    BY <1>1, <2>1, FS_Subset
  <2>3. Cardinality(K) < Cardinality(M)
    BY <1>1, <2>1, <2>2
  <2> QED
    BY <2>3 DEF RankIn, K, M
<1>4. ASSUME NEW i \in I, NEW j \in I, RankIn(I, i) = RankIn(I, j) PROVE i = j
  <2>1. i \in Nat /\ j \in Nat /\ RankIn(I, i) \in Nat
    BY <1>2, <1>1
  <2> QED
    BY <1>3, <1>4, <2>1
<1> QED
  BY <1>2, <1>3, <1>4

\* Positions and ranks determine each other.
LEMMA NthIs ==
    ASSUME NEW n \in Nat, NEW I \in SUBSET (1..n)
    PROVE  /\ \A m \in 1..Cardinality(I) : NthOf(I, m) \in I /\ RankIn(I, NthOf(I, m)) = m
           /\ \A i \in I : NthOf(I, RankIn(I, i)) = i
<1> DEFINE f == [i \in I |-> RankIn(I, i)]
           T == 1..Cardinality(I)
<1>1. IsFiniteSet(I) /\ Cardinality(I) \in Nat
  BY PositionsFinite
<1>2. f \in [I -> T] /\ \A i, j \in I : f[i] = f[j] => i = j
  BY RankIs
<1>3. IsFiniteSet(T) /\ Cardinality(T) = Cardinality(I)
  BY <1>1, FS_Interval
<1>4. \A m \in T : \E i \in I : f[i] = m
  <2> HIDE DEF f, T
  <2>1. f \in Injection(I, T)
    BY <1>2 DEF Injection, IsInjective
  <2>2. f \in Surjection(I, T)
    BY <1>3, <2>1, FS_Injection
  <2> QED
    BY <2>2 DEF Surjection
<1>5. ASSUME NEW m \in T PROVE NthOf(I, m) \in I /\ RankIn(I, NthOf(I, m)) = m
  <2>1. \E i \in I : Cardinality(I \cap 1..i) = m
    BY <1>4 DEF RankIn
  <2> QED
    BY <2>1 DEF NthOf, RankIn
<1>6. ASSUME NEW i \in I PROVE NthOf(I, RankIn(I, i)) = i
  <2>1. RankIn(I, i) \in T
    BY RankIs
  <2> QED
    BY <1>5, <2>1, RankIs
<1> QED
  BY <1>5, <1>6

LEMMA NthInjective ==
    ASSUME NEW n \in Nat, NEW I \in SUBSET (1..n),
           NEW k \in 1..Cardinality(I), NEW m \in 1..Cardinality(I),
           NthOf(I, k) = NthOf(I, m)
    PROVE  k = m
<1>1. RankIn(I, NthOf(I, k)) = k /\ RankIn(I, NthOf(I, m)) = m
  BY NthIs
<1> QED
  BY <1>1

\* Selected by the operators of this module.
LEMMA CampaignSelects ==
    ASSUME NEW s, NEW I
    PROVE  Campaign!Selected(s, I) = [n \in 1..Cardinality(I) |-> s[NthOf(I, n)]]
  BY DEF Campaign!Selected, NthOf, Campaign!Cardinality, Cardinality

\* What is selected, from which positions.
LEMMA SelectedIs ==
    ASSUME NEW s, NEW I \in SUBSET DOMAIN s, Sequential(s)
    PROVE  /\ Sequential(Campaign!Selected(s, I))
           /\ Len(Campaign!Selected(s, I)) = Cardinality(I)
           /\ Cardinality(I) \in Nat
           /\ DOMAIN Campaign!Selected(s, I) = 1..Cardinality(I)
           /\ \A n \in 1..Cardinality(I) :
                Campaign!Selected(s, I)[n] = s[NthOf(I, n)] /\ NthOf(I, n) \in I
           /\ \A i \in I : /\ RankIn(I, i) \in 1..Cardinality(I)
                           /\ Campaign!Selected(s, I)[RankIn(I, i)] = s[i]
<1> DEFINE t == Campaign!Selected(s, I)
           m == Cardinality(I)
<1>1. Len(s) \in Nat /\ DOMAIN s = 1..Len(s)
  BY SequentialIs
<1>2. m \in Nat
  BY <1>1, PositionsFinite
<1>3. t = [k \in 1..m |-> s[NthOf(I, k)]]
  BY CampaignSelects
<1> HIDE DEF t, m
<1>4. DOMAIN t = 1..m /\ t = [k \in 1..m |-> t[k]] /\ \A k \in 1..m : t[k] = s[NthOf(I, k)]
  BY <1>3
<1>5. Sequential(t) /\ Len(t) = m
  BY <1>2, <1>4, FunctionIsSequential
<1>6. \A k \in 1..m : NthOf(I, k) \in I
  BY <1>1, NthIs DEF m
<1>7. \A i \in I : RankIn(I, i) \in 1..m /\ NthOf(I, RankIn(I, i)) = i
  BY <1>1, NthIs, RankIs DEF m
<1> QED
  BY <1>2, <1>4, <1>5, <1>6, <1>7 DEF t, m

\* Rows are selected from a longer sequence as from the shorter one.
LEMMA SelectedKept ==
    ASSUME NEW s, NEW x, NEW I \in SUBSET DOMAIN s, Sequential(s)
    PROVE  Campaign!Selected(Append(s, x), I) = Campaign!Selected(s, I)
<1>1. \A i \in I : Append(s, x)[i] = s[i]
  BY SequentialIs, SequentialAppend
<1>2. \A k \in 1..Cardinality(I) : NthOf(I, k) \in I
  BY SelectedIs
<1> QED
  BY <1>1, <1>2, CampaignSelects

LEMMA SelectedGrows ==
    ASSUME NEW s, NEW x, NEW I \in SUBSET DOMAIN s, Sequential(s)
    PROVE  Campaign!Selected(Append(s, x), I \cup {Len(s) + 1})
             = Append(Campaign!Selected(s, I), x)
<1> DEFINE N == Len(s)
           J == I \cup {N + 1}
           m == Cardinality(I)
           t == Campaign!Selected(s, I)
           u == Campaign!Selected(Append(s, x), J)
<1>1. N \in Nat /\ DOMAIN s = 1..N
  BY SequentialIs
<1>2. IsFiniteSet(I) /\ m \in Nat
  BY <1>1, PositionsFinite
<1>3. J \in SUBSET (1..(N + 1)) /\ J \in SUBSET DOMAIN Append(s, x) /\ Sequential(Append(s, x))
  BY <1>1, SequentialAppend
<1>4. N + 1 \notin I /\ Cardinality(J) = m + 1
  <2>1. N + 1 \notin I
    BY <1>1
  <2>2. Cardinality(I \cup {N + 1}) = IF N + 1 \in I THEN Cardinality(I) ELSE Cardinality(I) + 1
    BY <1>2, FS_AddElement
  <2> QED
    BY <2>1, <2>2
<1>5. RankIn(J, N + 1) = m + 1
  <2>1. J \cap 1..(N + 1) = J
    BY <1>3
  <2> HIDE DEF J
  <2> QED
    BY <2>1, <1>4 DEF RankIn
<1>6. \A i \in I : RankIn(J, i) = RankIn(I, i)
  <2>1. ASSUME NEW i \in I PROVE J \cap 1..i = I \cap 1..i
    BY <1>1
  <2> HIDE DEF J
  <2> QED
    BY <2>1 DEF RankIn
<1>7. /\ DOMAIN u = 1..(m + 1) /\ Sequential(u)
      /\ \A j \in J : u[RankIn(J, j)] = Append(s, x)[j]
  <2> HIDE DEF J
  <2> QED
    BY <1>3, <1>4, SelectedIs
<1>8. /\ DOMAIN t = 1..m /\ Sequential(t) /\ Len(t) = m
      /\ \A k \in 1..m : t[k] = s[NthOf(I, k)] /\ NthOf(I, k) \in I
                         /\ RankIn(I, NthOf(I, k)) = k
  <2>1. \A k \in 1..m : NthOf(I, k) \in I /\ RankIn(I, NthOf(I, k)) = k
    BY <1>1, NthIs
  <2>2. /\ DOMAIN t = 1..m /\ Sequential(t) /\ Len(t) = m
        /\ \A k \in 1..m : t[k] = s[NthOf(I, k)]
    BY SelectedIs
  <2> QED
    BY <2>1, <2>2
<1> HIDE DEF u, t, m
<1>9. \A k \in 1..m : u[k] = t[k]
  <2>1. ASSUME NEW k \in 1..m PROVE u[k] = t[k]
    <3>1. NthOf(I, k) \in I /\ NthOf(I, k) \in 1..N /\ NthOf(I, k) \in J
          /\ RankIn(J, NthOf(I, k)) = k
      BY <1>1, <1>6, <1>8
    <3>2. u[k] = Append(s, x)[NthOf(I, k)]
      BY <1>7, <3>1
    <3> QED
      BY <1>8, <3>1, <3>2, SequentialAppend
  <2> QED
    BY <2>1
<1>10. u[m + 1] = x
  <2>1. u[RankIn(J, N + 1)] = Append(s, x)[N + 1]
    BY <1>7
  <2> QED
    BY <2>1, <1>5, SequentialAppend
<1>11. /\ Sequential(Append(t, x)) /\ DOMAIN Append(t, x) = 1..(m + 1)
       /\ \A k \in 1..m : Append(t, x)[k] = t[k]
       /\ Append(t, x)[m + 1] = x
  BY <1>8, SequentialAppend
<1>12. \A k \in 1..(m + 1) : u[k] = Append(t, x)[k]
  <2>1. \A k \in 1..(m + 1) : k \in 1..m \/ k = m + 1
    BY <1>2 DEF m
  <2> QED
    BY <2>1, <1>9, <1>10, <1>11
<1>13. u = Append(t, x)
  <2>1. u = [k \in 1..(m + 1) |-> u[k]]
    BY <1>7, SequentialIs
  <2>2. Append(t, x) = [k \in 1..(m + 1) |-> Append(t, x)[k]]
    BY <1>11, SequentialIs
  <2> QED
    BY <1>12, <2>1, <2>2
<1> QED
  BY <1>13 DEF u, t

\* As many of the selected rows as of the rows themselves are in J.
LEMMA SelectedCount ==
    ASSUME NEW n \in Nat, NEW I \in SUBSET (1..n), NEW J \in SUBSET I
    PROVE  Cardinality({k \in 1..Cardinality(I) : NthOf(I, k) \in J}) = Cardinality(J)
<1> DEFINE K == {k \in 1..Cardinality(I) : NthOf(I, k) \in J}
           f == [k \in K |-> NthOf(I, k)]
<1>1. Cardinality(I) \in Nat
  BY PositionsFinite
<1>2. IsFiniteSet(K)
  <2>1. K \in SUBSET (1..Cardinality(I))
    OBVIOUS
  <2> HIDE DEF K
  <2> QED
    BY <1>1, <2>1, PositionsFinite
<1>3. f \in [K -> J] /\ \A k, m \in K : f[k] = f[m] => k = m
  BY NthInjective
<1>4. ASSUME NEW j \in J PROVE \E k \in K : f[k] = j
  <2>1. RankIn(I, j) \in 1..Cardinality(I) /\ NthOf(I, RankIn(I, j)) = j
    BY RankIs, NthIs
  <2> QED
    BY <2>1
<1> HIDE DEF f, K
<1>5. f \in Injection(K, J) /\ f \in Surjection(K, J)
  BY <1>3, <1>4 DEF Injection, IsInjective, Surjection
<1>6. Cardinality(J) = Cardinality(K)
  BY <1>2, <1>5, FS_Surjection
<1> QED
  BY <1>6 DEF K

-----------------------------------------------------------------------------
(***************************************************************************)
(* The measurement campaign.                                               *)
(***************************************************************************)
Places == Campaign!Ids

\* The rows of an experiment, and those of a trial, by position and as rows.
OwnIn(s, e) == {i \in DOMAIN s : s[i].key.experiment = e}
MineOf(s, e) == Campaign!Selected(s, OwnIn(s, e))
RowsOf(s, k) == {i \in DOMAIN s : s[i].key = k}

Keys == [experiment : Nat, trial : (1..Len(Scenarios)) \X Nat]

\* The scenario that a key names.
BoundTo(k) ==
    [scenario |-> Scenarios[k.trial[1]], injection |-> Scripted[Scenarios[k.trial[1]]]]

\* A row as the script makes it.
RowGood(o) ==
    /\ o.key \in Keys /\ o.binding = BoundTo(o.key) /\ o.resolver \in Places
    /\ o.status # Absent => o.taken = o.binding.injection[o.resolver]
    /\ ~ (o.latency < 0) /\ ~ (o.span < 0)
    /\ o.accepted => o.valid = TRUE /\ o.status = 200

TrialGood(t) ==
    /\ t.key \in Keys /\ t.binding = BoundTo(t.key)
    /\ t.expected = Len(Endpoints) /\ (t.complete => t.actual = Len(Endpoints))

Distinct(s) ==
    \A i, j \in DOMAIN s :
      s[i].key = s[j].key /\ s[i].resolver = s[j].resolver => i = j

\* Whatever was killed: rows and trials are as made, no resolver has two rows
\* of a trial, and a trial has as many rows as it says.
FilesGood(T, O) ==
    /\ Sequential(T) /\ Sequential(O) /\ Distinct(O)
    /\ \A i \in DOMAIN O : RowGood(O[i])
    /\ \A i \in DOMAIN T :
         TrialGood(T[i]) /\ Cardinality(RowsOf(O, T[i].key)) = T[i].actual

Campaigning == campaignPhase \in {"resetting", "applying", "probing", "storing"}
AfterTrials == campaignPhase \in {"leaving", "judging", "raised", "passed", "failed"}

\* The trials of a campaign come in the order of the script.
Earlier(k) ==
    k.experiment = experiment =>
      \/ k.trial[1] < scenario
      \/ k.trial[1] = scenario /\ k.trial[2] <= done

KeysIssued ==
    /\ \A i \in DOMAIN trials : trials[i].key.experiment <= experiment
    /\ \A i \in DOMAIN observations : observations[i].key.experiment <= experiment
    /\ Campaigning => \A i \in DOMAIN trials : Earlier(trials[i].key)

ParentsKept ==
    campaignPhase # "stopped" =>
      \A i \in DOMAIN observations :
        observations[i].key.experiment = experiment =>
          \/ \E j \in DOMAIN trials : trials[j].key = observations[i].key
          \/ campaignPhase = "storing" /\ observations[i].key = Campaign!Key

\* What is held in memory is what the files have of this campaign.
MemoryKept ==
    /\ campaignPhase \in {"resetting", "applying", "probing", "leaving", "judging"} =>
         /\ kept.trials = MineOf(trials, experiment)
         /\ kept.rows = MineOf(observations, experiment)
    /\ campaignPhase = "storing" =>
         /\ kept.trials = Append(MineOf(trials, experiment), record)
         /\ kept.rows = MineOf(observations, experiment) \o unsaved

CountKept ==
    /\ Campaigning =>
         Len(MineOf(trials, experiment)) = (scenario - 1) * Trials + done
    /\ AfterTrials => Len(MineOf(trials, experiment)) = Len(Scenarios) * Trials

PassedKept ==
    campaignPhase = "passed" =>
      \A i \in OwnIn(trials, experiment) : trials[i].complete

WorkTyped ==
    /\ experiment \in Nat
    /\ scenario \in 1..Len(Scenarios) /\ done \in 0..(Trials - 1)
    /\ campaignPhase = "stopped" \/ Campaigning \/ AfterTrials
    /\ Sequential(todo) /\ Sequential(unsaved)
    /\ behaviours = [r \in Places |-> behaviours[r]]
    /\ probes = [r \in Places |-> probes[r]]
    /\ kept = [trials |-> kept.trials, rows |-> kept.rows]

\* A resolver that is not to be set any more has the behaviour of the scenario.
ResolversSet ==
    /\ campaignPhase = "applying" =>
         \A r \in Places : behaviours[r] = Scripted[Campaign!Current][r]
                            \/ \E i \in DOMAIN todo : todo[i] = r
    /\ campaignPhase \in {"probing", "storing"} =>
         todo = << >> /\ \A r \in Places : behaviours[r] = Scripted[Campaign!Current][r]

ProbeKept(p, r) ==
    /\ p.step = "held" => p.taken = Scripted[Campaign!Current][r]
    /\ p.step = "ended" /\ p.result # Absent =>
         RowGood(p.result) /\ p.result.key = Campaign!Key /\ p.result.resolver = r

ProbesKept ==
    campaignPhase = "probing" => \A r \in Places : ProbeKept(probes[r], r)

\* The rows of a trial that are not yet stored, and those that are.
RecordKept ==
    campaignPhase = "storing" =>
      /\ TrialGood(record) /\ record.key = Campaign!Key
      /\ Distinct(unsaved)
      /\ \A j \in DOMAIN unsaved : RowGood(unsaved[j]) /\ unsaved[j].key = Campaign!Key
      /\ \A i \in RowsOf(observations, Campaign!Key), j \in DOMAIN unsaved :
           observations[i].resolver # unsaved[j].resolver
      /\ Cardinality(RowsOf(observations, Campaign!Key)) + Len(unsaved) = record.actual

CampaignInv ==
    /\ WorkTyped /\ FilesGood(trials, observations)
    /\ KeysIssued /\ ParentsKept /\ MemoryKept /\ CountKept /\ PassedKept
    /\ ResolversSet /\ ProbesKept /\ RecordKept

-----------------------------------------------------------------------------
LEMMA OwnAre ==
    ASSUME NEW s, NEW e, Sequential(s)
    PROVE  /\ OwnIn(s, e) \in SUBSET DOMAIN s /\ Sequential(MineOf(s, e))
           /\ Len(MineOf(s, e)) = Cardinality(OwnIn(s, e))
           /\ DOMAIN MineOf(s, e) = 1..Cardinality(OwnIn(s, e))
           /\ Cardinality(OwnIn(s, e)) \in Nat
           /\ \A n \in 1..Cardinality(OwnIn(s, e)) :
                /\ MineOf(s, e)[n] = s[NthOf(OwnIn(s, e), n)]
                /\ NthOf(OwnIn(s, e), n) \in OwnIn(s, e)
           /\ \A i \in OwnIn(s, e) :
                \E n \in 1..Cardinality(OwnIn(s, e)) : MineOf(s, e)[n] = s[i]
<1>1. OwnIn(s, e) \in SUBSET DOMAIN s
  BY DEF OwnIn
<1> QED
  BY <1>1, SelectedIs DEF MineOf

LEMMA MineGrows ==
    ASSUME NEW s, NEW x, NEW e, Sequential(s), x.key.experiment = e
    PROVE  MineOf(Append(s, x), e) = Append(MineOf(s, e), x)
<1>1. OwnIn(Append(s, x), e) = OwnIn(s, e) \cup {Len(s) + 1}
  BY SequentialIs, SequentialAppend DEF OwnIn
<1>2. OwnIn(s, e) \in SUBSET DOMAIN s
  BY DEF OwnIn
<1> QED
  BY <1>1, <1>2, SelectedGrows DEF MineOf

LEMMA NoneOfMine ==
    ASSUME NEW s, NEW e \in Nat, Sequential(s), \A i \in DOMAIN s : s[i].key.experiment < e
    PROVE  MineOf(s, e) = << >>
<1>1. OwnIn(s, e) = {}
  BY DEF OwnIn
<1>2. Cardinality(OwnIn(s, e)) = 0
  BY <1>1, FS_EmptySet
<1>3. Sequential(MineOf(s, e)) /\ Len(MineOf(s, e)) = 0
  BY <1>2, OwnAre
<1> QED
  BY <1>3, SequentialIs

\* Adding a row adds to the rows of its trial only.
LEMMA RowsGrow ==
    ASSUME NEW s, NEW x, NEW k, Sequential(s)
    PROVE  /\ x.key # k => RowsOf(Append(s, x), k) = RowsOf(s, k)
           /\ x.key = k =>
                /\ RowsOf(Append(s, x), k) = RowsOf(s, k) \cup {Len(s) + 1}
                /\ Cardinality(RowsOf(Append(s, x), k)) = Cardinality(RowsOf(s, k)) + 1
           /\ Cardinality(RowsOf(s, k)) \in Nat
<1>1. x.key # k => RowsOf(Append(s, x), k) = RowsOf(s, k)
  BY SequentialIs, SequentialAppend DEF RowsOf
<1>2. x.key = k => RowsOf(Append(s, x), k) = RowsOf(s, k) \cup {Len(s) + 1}
  BY SequentialIs, SequentialAppend DEF RowsOf
<1>3. RowsOf(s, k) \in SUBSET (1..Len(s)) /\ Len(s) \in Nat
  BY SequentialIs DEF RowsOf
<1>4. IsFiniteSet(RowsOf(s, k)) /\ Cardinality(RowsOf(s, k)) \in Nat
  BY <1>3, PositionsFinite
<1>5. Len(s) + 1 \notin RowsOf(s, k)
  BY <1>3
<1>6. Cardinality(RowsOf(s, k) \cup {Len(s) + 1}) = Cardinality(RowsOf(s, k)) + 1
  BY <1>4, <1>5, FS_AddElement
<1> QED
  BY <1>1, <1>2, <1>4, <1>6

LEMMA ConstantsAre ==
    /\ Sequential(Endpoints) /\ Len(Endpoints) \in Nat /\ Len(Endpoints) > 0
    /\ DOMAIN Endpoints = 1..Len(Endpoints)
    /\ Places = {Endpoints[i] : i \in DOMAIN Endpoints}
    /\ \A i, j \in DOMAIN Endpoints : Endpoints[i] = Endpoints[j] => i = j
    /\ Len(Scenarios) \in Nat /\ Len(Scenarios) > 0
    /\ Trials \in Nat \ {0}
<1>1. Places = {Endpoints[i] : i \in DOMAIN Endpoints}
  BY DEF Places, Campaign!Ids, Campaign!ToSet
<1>2. Endpoints \in Seq(Campaign!Ids) /\ Endpoints # << >>
  BY CampaignAssumed DEF Campaign!MeasurementAssumption
<1>3. Scenarios \in Seq(Campaign!ToSet(Scenarios)) /\ Scenarios # << >>
  BY CampaignAssumed DEF Campaign!MeasurementAssumption
<1>4. Len(Endpoints) \in Nat /\ Len(Endpoints) > 0 /\ DOMAIN Endpoints = 1..Len(Endpoints)
  BY <1>2, EmptySeq, LenProperties
<1>5. Len(Scenarios) \in Nat /\ Len(Scenarios) > 0
  BY <1>3, EmptySeq, LenProperties
<1>6. Sequential(Endpoints)
  BY <1>1, <1>2 DEF Sequential, Places
<1>7. /\ \A i, j \in DOMAIN Endpoints : Endpoints[i] = Endpoints[j] => i = j
      /\ Trials \in Nat \ {0}
  BY CampaignAssumed DEF Campaign!MeasurementAssumption
<1> QED
  BY <1>1, <1>4, <1>5, <1>6, <1>7

LEMMA PlacesCounted == IsFiniteSet(Places) /\ Cardinality(Places) = Len(Endpoints)
<1> DEFINE D == 1..Len(Endpoints)
           f == [i \in D |-> Endpoints[i]]
<1>1. IsFiniteSet(D) /\ Cardinality(D) = Len(Endpoints)
  BY ConstantsAre, FS_Interval
<1>2. f \in [D -> Places] /\ (\A i, j \in D : f[i] = f[j] => i = j)
      /\ \A r \in Places : \E i \in D : f[i] = r
  BY ConstantsAre
<1> HIDE DEF f, D
<1>3. f \in Injection(D, Places) /\ f \in Surjection(D, Places)
  BY <1>2 DEF Injection, IsInjective, Surjection
<1> QED
  BY <1>1, <1>3, FS_Surjection

-----------------------------------------------------------------------------
\* What the invariant says of the rows of one trial.
LEMMA RowsSelected ==
    ASSUME NEW s, NEW k, Sequential(s)
    PROVE  /\ Campaign!ObservationsOf(k, s) = Campaign!Selected(s, RowsOf(s, k))
           /\ Len(Campaign!ObservationsOf(k, s)) = Cardinality(RowsOf(s, k))
           /\ Campaign!ToSet(Campaign!ObservationsOf(k, s)) = {s[i] : i \in RowsOf(s, k)}
<1> DEFINE t == Campaign!ObservationsOf(k, s)
<1>1. t = Campaign!Selected(s, RowsOf(s, k))
  BY DEF Campaign!ObservationsOf, Campaign!Rows, Campaign!Where, RowsOf
<1>2. RowsOf(s, k) \in SUBSET DOMAIN s
  BY DEF RowsOf
<1>3. /\ Len(t) = Cardinality(RowsOf(s, k)) /\ DOMAIN t = 1..Cardinality(RowsOf(s, k))
      /\ \A n \in DOMAIN t :
           t[n] = s[NthOf(RowsOf(s, k), n)] /\ NthOf(RowsOf(s, k), n) \in RowsOf(s, k)
      /\ \A i \in RowsOf(s, k) : \E n \in DOMAIN t : t[n] = s[i]
  <2> HIDE DEF t
  <2> QED
    BY <1>1, <1>2, SelectedIs
<1> HIDE DEF t
<1>4. Campaign!ToSet(t) = {t[n] : n \in DOMAIN t}
  BY DEF Campaign!ToSet
<1>5. Campaign!ToSet(t) = {s[i] : i \in RowsOf(s, k)}
  BY <1>3, <1>4
<1> QED
  BY <1>1, <1>3, <1>5 DEF t

LEMMA RowsAreFinite ==
    ASSUME NEW s, NEW k, Sequential(s)
    PROVE  IsFiniteSet(RowsOf(s, k)) /\ Cardinality(RowsOf(s, k)) \in Nat
<1>1. RowsOf(s, k) \in SUBSET (1..Len(s)) /\ Len(s) \in Nat
  BY SequentialIs DEF RowsOf
<1> QED
  BY <1>1, PositionsFinite

\* As many rows as resolvers, and no resolver twice: everyone has a row.
LEMMA EveryoneHasARow ==
    ASSUME NEW T, NEW O, FilesGood(T, O), NEW i \in DOMAIN T, T[i].complete
    PROVE  /\ Len(Campaign!ObservationsOf(T[i].key, O)) = Len(Endpoints)
           /\ {o.resolver : o \in Campaign!ToSet(Campaign!ObservationsOf(T[i].key, O))} = Places
<1> DEFINE I == RowsOf(O, T[i].key)
           f == [n \in I |-> O[n].resolver]
<1>1. Sequential(O) /\ Distinct(O) /\ \A n \in DOMAIN O : O[n].resolver \in Places
  BY DEF FilesGood, RowGood
<1>2. Cardinality(I) = Len(Endpoints)
  BY DEF FilesGood, TrialGood
<1>3. \A n \in I : n \in DOMAIN O /\ O[n].key = T[i].key
  BY DEF RowsOf
<1>4. f \in [I -> Places] /\ \A m, n \in I : f[m] = f[n] => m = n
  BY <1>1, <1>3 DEF Distinct
<1> HIDE DEF I
<1>5. \A r \in Places : \E n \in I : f[n] = r
  <2> HIDE DEF f
  <2>1. f \in Injection(I, Places)
    BY <1>4 DEF Injection, IsInjective
  <2>2. f \in Surjection(I, Places)
    BY <2>1, <1>2, PlacesCounted, FS_Injection
  <2> QED
    BY <2>2 DEF Surjection
<1>6. {O[n].resolver : n \in I} = Places
  BY <1>4, <1>5
<1> DEFINE R == Campaign!ObservationsOf(T[i].key, O)
<1>7. Len(R) = Cardinality(I) /\ Campaign!ToSet(R) = {O[n] : n \in I}
  BY <1>1, RowsSelected DEF I
<1> HIDE DEF R
<1>8. {o.resolver : o \in Campaign!ToSet(R)} = {O[n].resolver : n \in I}
  BY <1>7
<1> QED
  BY <1>2, <1>6, <1>7, <1>8 DEF R

\* The rules of the audit that files may not break, and the one that needs
\* that every row has its trial.
LEMMA AuditIs ==
    ASSUME NEW T, NEW O, FilesGood(T, O)
    PROVE  /\ Campaign!Violations(T, O) \subseteq {"no parent trial"}
           /\ (\A i \in DOMAIN O : \E j \in DOMAIN T : T[j].key = O[i].key)
                => Campaign!Violations(T, O) = {}
<1>1. Campaign!CountViolations(T, O) = {}
  <2>1. ASSUME NEW t \in Campaign!ToSet(T)
        PROVE  /\ Len(Campaign!ObservationsOf(t.key, O)) = t.actual
               /\ t.complete => Len(Campaign!ObservationsOf(t.key, O)) = t.expected
    <3>1. PICK i \in DOMAIN T : t = T[i]
      BY DEF Campaign!ToSet
    <3>2. Sequential(O) /\ TrialGood(t) /\ Cardinality(RowsOf(O, t.key)) = t.actual
      BY <3>1 DEF FilesGood
    <3>3. Len(Campaign!ObservationsOf(t.key, O)) = Cardinality(RowsOf(O, t.key))
      BY <3>2, RowsSelected
    <3> QED
      BY <3>2, <3>3 DEF TrialGood
  <2> QED
    BY <2>1 DEF Campaign!CountViolations
<1>2. Campaign!DuplicateViolations(O) = {}
  BY DEF FilesGood, Distinct, Campaign!DuplicateViolations
<1>3. Campaign!SanityViolations(O) = {}
  <2>1. ASSUME NEW o \in Campaign!ToSet(O) PROVE RowGood(o)
    BY DEF FilesGood, Campaign!ToSet
  <2>2. ASSUME NEW o \in Campaign!ToSet(O)
        PROVE  /\ ~ (o.latency < 0) /\ ~ (o.span < 0)
               /\ ~ (o.accepted /\ o.valid # TRUE) /\ ~ (o.accepted /\ o.status # 200)
    BY <2>1, Zenon DEF RowGood
  <2> QED
    BY <2>2, Zenon DEF Campaign!SanityViolations
<1>4. "provenance mismatch" \notin Campaign!BindingViolations(T, O)
  BY DEF FilesGood, RowGood, TrialGood, Campaign!BindingViolations, Campaign!LastRecords,
         Campaign!ToSet
<1>5. Campaign!BindingViolations(T, O) \subseteq {"no parent trial", "provenance mismatch"}
  BY DEF Campaign!BindingViolations
<1>6. ASSUME \A i \in DOMAIN O : \E j \in DOMAIN T : T[j].key = O[i].key
      PROVE  "no parent trial" \notin Campaign!BindingViolations(T, O)
  <2>1. ASSUME NEW o \in Campaign!ToSet(O) PROVE Campaign!LastRecords(o.key, T) # {}
    <3> DEFINE I == {j \in DOMAIN T : T[j].key = o.key}
    <3>1. I # {}
      BY <1>6 DEF Campaign!ToSet
    <3>2. Len(T) \in Nat /\ DOMAIN T = 1..Len(T)
      BY SequentialIs DEF FilesGood
    <3>3. I \in SUBSET (1..Len(T)) /\ Cardinality(I) \in Nat /\ IsFiniteSet(I)
      BY <3>2, PositionsFinite
    <3>4. PICK n \in I : RankIn(I, n) = Cardinality(I)
      <4> HIDE DEF I
      <4>1. Cardinality(I) # 0
        BY <3>1, <3>3, FS_EmptySet
      <4>2. Cardinality(I) \in 1..Cardinality(I)
        BY <3>3, <4>1
      <4> QED
        BY <3>2, <3>3, <4>2, NthIs
    <3>5. \A j \in I : j <= n
      <4> HIDE DEF I
      <4>1. ASSUME NEW j \in I, ~ (j <= n) PROVE FALSE
        <5>1. n < j
          BY <3>3, <3>4, <4>1
        <5>2. RankIn(I, n) < RankIn(I, j) /\ RankIn(I, j) \in 1..Cardinality(I)
          BY <3>2, <3>3, <3>4, <5>1, RankIs
        <5> QED
          BY <3>3, <3>4, <5>2
      <4> QED
        BY <4>1
    <3>6. n \in Campaign!LastRecords(o.key, T)
      BY <3>4, <3>5 DEF Campaign!LastRecords
    <3> QED
      BY <3>6
  <2> QED
    BY <2>1 DEF Campaign!BindingViolations
<1> DEFINE B == Campaign!BindingViolations(T, O)
<1>7. Campaign!Violations(T, O) = B
  BY <1>1, <1>2, <1>3 DEF Campaign!Violations
<1> HIDE DEF B
<1>8. B \subseteq {"no parent trial"}
  BY <1>4, <1>5 DEF B
<1>9. (\A i \in DOMAIN O : \E j \in DOMAIN T : T[j].key = O[i].key) => B = {}
  BY <1>6, <1>8 DEF B
<1> QED
  BY <1>7, <1>8, <1>9

LEMMA MineIs ==
    ASSUME NEW s
    PROVE  Campaign!Mine(s) = MineOf(s, experiment)
  BY DEF Campaign!Mine, Campaign!Rows, Campaign!Where, MineOf, OwnIn

\* The files of one campaign are good if all are.
LEMMA OwnFilesGood ==
    ASSUME NEW T, NEW O, NEW e, FilesGood(T, O)
    PROVE  FilesGood(MineOf(T, e), MineOf(O, e))
<1> DEFINE I == OwnIn(T, e)
           J == OwnIn(O, e)
           A == MineOf(T, e)
           B == MineOf(O, e)
<1>1. Sequential(T) /\ Sequential(O) /\ Distinct(O)
  BY DEF FilesGood
<1>2. /\ Sequential(A) /\ DOMAIN A = 1..Cardinality(I) /\ Cardinality(I) \in Nat
      /\ \A n \in DOMAIN A : A[n] = T[NthOf(I, n)] /\ NthOf(I, n) \in I
  BY <1>1, OwnAre
<1>3. /\ Sequential(B) /\ DOMAIN B = 1..Cardinality(J) /\ Cardinality(J) \in Nat
      /\ \A n \in DOMAIN B : B[n] = O[NthOf(J, n)] /\ NthOf(J, n) \in J
  BY <1>1, OwnAre
<1>4. I \in SUBSET DOMAIN T /\ J \in SUBSET DOMAIN O
      /\ J \in SUBSET (1..Len(O)) /\ Len(O) \in Nat
  BY <1>1, SequentialIs DEF OwnIn
<1>5. \A m, n \in DOMAIN B : NthOf(J, m) = NthOf(J, n) => m = n
  BY <1>3, <1>4, NthInjective
<1>6. \A i \in I : T[i].key.experiment = e
  BY DEF OwnIn
<1>7. ASSUME NEW k, k.experiment = e
      PROVE  Cardinality(RowsOf(B, k)) = Cardinality(RowsOf(O, k))
  <2>1. RowsOf(O, k) \in SUBSET J
    BY <1>7 DEF RowsOf, OwnIn
  <2>2. RowsOf(B, k) = {n \in 1..Cardinality(J) : NthOf(J, n) \in RowsOf(O, k)}
    BY <1>3, <1>4 DEF RowsOf
  <2> HIDE DEF J, B
  <2> QED
    BY <1>4, <2>1, <2>2, SelectedCount
<1> HIDE DEF A, B, I, J
<1>8. Distinct(B)
  BY <1>1, <1>3, <1>4, <1>5 DEF Distinct
<1>9. \A n \in DOMAIN B : RowGood(B[n])
  BY <1>3, <1>4 DEF FilesGood
<1>10. \A n \in DOMAIN A :
         TrialGood(A[n]) /\ Cardinality(RowsOf(B, A[n].key)) = A[n].actual
  <2>1. ASSUME NEW n \in DOMAIN A
        PROVE  TrialGood(A[n]) /\ Cardinality(RowsOf(B, A[n].key)) = A[n].actual
    <3>1. /\ A[n] = T[NthOf(I, n)] /\ NthOf(I, n) \in I /\ NthOf(I, n) \in DOMAIN T
      BY <1>2, <1>4
    <3>2. A[n].key.experiment = e
      BY <3>1, <1>6
    <3>3. TrialGood(A[n]) /\ Cardinality(RowsOf(O, A[n].key)) = A[n].actual
      BY <3>1 DEF FilesGood
    <3> QED
      BY <1>7, <3>2, <3>3
  <2> QED
    BY <2>1
<1>11. FilesGood(A, B)
  BY <1>2, <1>3, <1>8, <1>9, <1>10 DEF FilesGood
<1> QED
  BY <1>11 DEF A, B

LEMMA CampaignInvGives == CampaignInv => HashNamesBehaviour /\ CampaignIsWhole
<1> SUFFICES ASSUME CampaignInv PROVE HashNamesBehaviour /\ CampaignIsWhole
  OBVIOUS
<1>1. FilesGood(trials, observations) /\ Sequential(trials) /\ Sequential(observations)
  BY DEF CampaignInv, FilesGood
<1>2. HashNamesBehaviour
  BY <1>1 DEF HashNamesBehaviour, Campaign!HashNamesBehaviour, Campaign!ToSet, FilesGood,
              RowGood
<1>3. Campaign!CompleteIsWhole
  <2>1. ASSUME NEW t \in Campaign!ToSet(trials), t.complete
        PROVE  /\ Len(Campaign!ObservationsOf(t.key, observations)) = Len(Endpoints)
               /\ {o.resolver : o \in Campaign!ToSet(Campaign!ObservationsOf(t.key, observations))}
                    = Campaign!Ids
    <3>1. PICK i \in DOMAIN trials : t = trials[i]
      BY DEF Campaign!ToSet
    <3> QED
      BY <1>1, <2>1, <3>1, EveryoneHasARow DEF Places
  <2> QED
    BY <2>1 DEF Campaign!CompleteIsWhole
<1>4. Campaign!CrashLeavesOrphans
  BY <1>1, AuditIs DEF Campaign!CrashLeavesOrphans
<1> DEFINE A == MineOf(trials, experiment)
           B == MineOf(observations, experiment)
           I == OwnIn(trials, experiment)
           J == OwnIn(observations, experiment)
<1>5. FilesGood(A, B)
  BY <1>1, OwnFilesGood
<1>6. /\ DOMAIN A = 1..Cardinality(I) /\ Len(A) = Cardinality(I) /\ Cardinality(I) \in Nat
      /\ \A n \in DOMAIN A : A[n] = trials[NthOf(I, n)] /\ NthOf(I, n) \in I
      /\ \A i \in I : \E n \in DOMAIN A : A[n] = trials[i]
  BY <1>1, OwnAre
<1>7. /\ DOMAIN B = 1..Cardinality(J)
      /\ \A n \in DOMAIN B : B[n] = observations[NthOf(J, n)] /\ NthOf(J, n) \in J
  BY <1>1, OwnAre
<1>8. Campaign!Mine(trials) = A /\ Campaign!Mine(observations) = B
  BY MineIs
<1>9. \A i \in I : i \in DOMAIN trials /\ trials[i].key.experiment = experiment
  BY DEF OwnIn
<1>10. \A j \in J : j \in DOMAIN observations /\ observations[j].key.experiment = experiment
  BY DEF OwnIn
<1>11. \A j \in DOMAIN trials : trials[j].key.experiment = experiment => j \in I
  BY DEF OwnIn
<1> HIDE DEF A, B, I, J
<1>12. Campaign!OwnPartIsSound
  <2>1. CASE campaignPhase = "judging"
    <3>1. ASSUME NEW n \in DOMAIN B PROVE \E j \in DOMAIN A : A[j].key = B[n].key
      <4>1. /\ NthOf(J, n) \in DOMAIN observations /\ B[n] = observations[NthOf(J, n)]
            /\ B[n].key.experiment = experiment
        BY <1>7, <1>10
      <4>2. PICK j \in DOMAIN trials : trials[j].key = B[n].key
        BY <2>1, <4>1 DEF CampaignInv, ParentsKept
      <4> QED
        BY <1>6, <1>11, <4>1, <4>2
    <3>2. Campaign!Violations(A, B) = {}
      BY <1>5, <3>1, AuditIs
    <3>3. kept.trials = A /\ kept.rows = B
      BY <2>1 DEF CampaignInv, MemoryKept, A, B
    <3> QED
      BY <1>8, <3>2, <3>3 DEF Campaign!OwnPartIsSound, Campaign!AuditClean
  <2> QED
    BY <2>1 DEF Campaign!OwnPartIsSound
<1>13. Campaign!PassedIsWhole
  <2>1. CASE campaignPhase = "passed"
    <3>1. Len(A) = Len(Scenarios) * Trials
      BY <2>1 DEF CampaignInv, CountKept, AfterTrials, A
    <3>2. ASSUME NEW t \in Campaign!ToSet(A)
          PROVE  {o.resolver : o \in Campaign!ToSet(Campaign!ObservationsOf(t.key, observations))}
                   = Campaign!Ids
      <4>1. PICK n \in DOMAIN A : t = A[n]
        BY DEF Campaign!ToSet
      <4>2. NthOf(I, n) \in DOMAIN trials /\ t = trials[NthOf(I, n)] /\ NthOf(I, n) \in I
        BY <1>6, <1>9, <4>1
      <4>3. trials[NthOf(I, n)].complete
        BY <2>1, <4>2 DEF CampaignInv, PassedKept, I
      <4> QED
        BY <1>1, <4>2, <4>3, EveryoneHasARow DEF Places
    <3> QED
      BY <1>8, <3>1, <3>2 DEF Campaign!PassedIsWhole
  <2> QED
    BY <2>1 DEF Campaign!PassedIsWhole
<1> QED
  BY <1>2, <1>3, <1>4, <1>12, <1>13 DEF CampaignIsWhole, Campaign!CampaignIsWhole

-----------------------------------------------------------------------------
LEMMA CampaignInit == Campaign!Init => CampaignInv
<1> SUFFICES ASSUME Campaign!Init PROVE CampaignInv
  OBVIOUS
<1>1. /\ behaviours \in [Places -> Healths] /\ trials = << >> /\ observations = << >>
      /\ experiment = 0 /\ campaignPhase = "stopped" /\ scenario = 1 /\ done = 0
      /\ todo = << >> /\ unsaved = << >>
      /\ probes = [r \in Places |-> [step |-> "none"]]
      /\ kept = [trials |-> << >>, rows |-> << >>]
  BY DEF Campaign!Init, Places, Campaign!NoProbes, Campaign!Blank
<1>2. WorkTyped
  BY <1>1, ConstantsAre, EmptyIsSequential DEF WorkTyped
<1>3. FilesGood(trials, observations)
  BY <1>1, EmptyIsSequential DEF FilesGood, Distinct
<1>4. KeysIssued /\ ParentsKept /\ PassedKept
  BY <1>1, EmptyIsSequential DEF KeysIssued, ParentsKept, PassedKept, Campaigning
<1>5. MemoryKept /\ CountKept /\ ResolversSet /\ ProbesKept /\ RecordKept
  BY <1>1 DEF MemoryKept, CountKept, ResolversSet, ProbesKept, RecordKept, Campaigning,
              AfterTrials
<1> QED
  BY <1>2, <1>3, <1>4, <1>5 DEF CampaignInv

LEMMA CampaignStart ==
    ASSUME CampaignInv, Campaign!Start
    PROVE  CampaignInv'
<1>1. /\ experiment' = experiment + 1 /\ campaignPhase' = "resetting" /\ todo' = Endpoints
      /\ scenario' = 1 /\ done' = 0 /\ kept' = [trials |-> << >>, rows |-> << >>]
      /\ probes' = [r \in Places |-> [step |-> "none"]] /\ unsaved' = << >>
      /\ behaviours' = behaviours /\ trials' = trials /\ observations' = observations
  BY DEF Campaign!Start, Campaign!Blank, Campaign!NoProbes, Campaign!files, Places
<1>2. FilesGood(trials, observations) /\ Sequential(trials) /\ Sequential(observations)
  BY DEF CampaignInv, FilesGood
<1>3. experiment \in Nat /\ experiment + 1 \in Nat
  BY DEF CampaignInv, WorkTyped
<1>4. /\ \A i \in DOMAIN trials : trials[i].key.experiment \in Nat
      /\ \A i \in DOMAIN observations : observations[i].key.experiment \in Nat
  BY <1>2 DEF FilesGood, RowGood, TrialGood, Keys
<1>5. /\ \A i \in DOMAIN trials : trials[i].key.experiment < experiment + 1
      /\ \A i \in DOMAIN observations : observations[i].key.experiment < experiment + 1
  BY <1>3, <1>4 DEF CampaignInv, KeysIssued
<1>6. MineOf(trials, experiment + 1) = << >> /\ MineOf(observations, experiment + 1) = << >>
  BY <1>2, <1>3, <1>5, NoneOfMine
<1>7. WorkTyped'
  BY <1>1, <1>3, ConstantsAre, EmptyIsSequential
     DEF CampaignInv, WorkTyped, Campaigning, AfterTrials
<1>8. FilesGood(trials, observations)'
  BY <1>1, <1>2
<1>9. KeysIssued' /\ ParentsKept' /\ PassedKept'
  BY <1>1, <1>3, <1>4, <1>5 DEF KeysIssued, ParentsKept, PassedKept, Campaigning, Earlier
<1>10. MemoryKept'
  BY <1>1, <1>6 DEF MemoryKept
<1>11. CountKept'
  <2>1. Len(MineOf(trials', experiment')) = 0
    BY <1>1, <1>6, EmptyIsSequential
  <2>2. (scenario' - 1) * Trials + done' = 0
    BY <1>1, ConstantsAre
  <2> QED
    BY <1>1, <2>1, <2>2 DEF CountKept, Campaigning, AfterTrials
<1>12. ResolversSet' /\ ProbesKept' /\ RecordKept'
  BY <1>1 DEF ResolversSet, ProbesKept, RecordKept
<1> QED
  BY <1>7, <1>8, <1>9, <1>10, <1>11, <1>12 DEF CampaignInv

\* Between two trials, and after the last, nothing is written.
Preparing(p) == p \in {"resetting", "applying", "probing"}

SameBooks ==
    /\ trials' = trials /\ observations' = observations /\ experiment' = experiment
    /\ scenario' = scenario /\ done' = done /\ kept' = kept /\ unsaved' = unsaved
    /\ record' = record

LEMMA BooksKept ==
    ASSUME CampaignInv, SameBooks,
           \/ Preparing(campaignPhase) /\ Preparing(campaignPhase')
           \/ campaignPhase = "leaving" /\ campaignPhase' \in {"leaving", "judging"}
    PROVE  /\ FilesGood(trials, observations)' /\ KeysIssued' /\ ParentsKept'
           /\ MemoryKept' /\ CountKept' /\ PassedKept' /\ RecordKept'
<1>1. FilesGood(trials, observations)'
  BY DEF CampaignInv, SameBooks
<1>2. KeysIssued'
  BY DEF CampaignInv, SameBooks, KeysIssued, Earlier, Campaigning, Preparing
<1>3. ParentsKept'
  BY DEF CampaignInv, SameBooks, ParentsKept, Preparing
<1>4. MemoryKept'
  BY DEF CampaignInv, SameBooks, MemoryKept, Preparing
<1>5. CountKept'
  BY DEF CampaignInv, SameBooks, CountKept, Campaigning, AfterTrials, Preparing
<1>6. PassedKept' /\ RecordKept'
  BY DEF PassedKept, RecordKept, Preparing
<1> QED
  BY <1>1, <1>2, <1>3, <1>4, <1>5, <1>6

LEMMA ResolverStepped ==
    ASSUME CampaignInv, Campaign!ResetNext \/ Campaign!AllReset \/ Campaign!ApplyNext
    PROVE  CampaignInv'
<1>1. WorkTyped /\ Sequential(todo) /\ ResolversSet
  BY DEF CampaignInv, WorkTyped
<1>2. CASE Campaign!ResetNext
  <2>1. /\ campaignPhase \in {"resetting", "leaving"} /\ campaignPhase' = campaignPhase
        /\ todo # << >> /\ todo' = Tail(todo) /\ probes' = probes
        /\ \E b : behaviours' = [behaviours EXCEPT ![Head(todo)] = b]
        /\ SameBooks
    BY <1>2 DEF Campaign!ResetNext, Campaign!files, SameBooks
  <2>2. WorkTyped'
    <3>1. Sequential(Tail(todo))
      BY <1>1, <2>1, SequentialTail
    <3> QED
      BY <1>1, <2>1, <3>1 DEF WorkTyped, SameBooks, Campaigning, AfterTrials
  <2>3. ResolversSet' /\ ProbesKept'
    BY <2>1 DEF ResolversSet, ProbesKept
  <2> QED
    BY <2>1, <2>2, <2>3, BooksKept DEF CampaignInv, Preparing
<1>3. CASE Campaign!AllReset
  <2>1. /\ \/ campaignPhase = "resetting" /\ campaignPhase' = "applying" /\ todo' = Endpoints
           \/ campaignPhase = "leaving" /\ campaignPhase' = "judging" /\ todo' = todo
        /\ probes' = probes /\ behaviours' = behaviours /\ SameBooks
    BY <1>3 DEF Campaign!AllReset, Campaign!files, SameBooks
  <2>2. WorkTyped'
    BY <1>1, <2>1, ConstantsAre DEF WorkTyped, SameBooks, Campaigning, AfterTrials
  <2>3. ResolversSet' /\ ProbesKept'
    BY <2>1, ConstantsAre DEF ResolversSet, ProbesKept
  <2> QED
    BY <2>1, <2>2, <2>3, BooksKept DEF CampaignInv, Preparing
<1>4. CASE Campaign!ApplyNext
  <2>1. /\ campaignPhase = "applying" /\ campaignPhase' = "applying"
        /\ todo # << >> /\ todo' = Tail(todo) /\ probes' = probes
        /\ behaviours' = [behaviours EXCEPT ![Head(todo)] =
                            Scripted[Campaign!Current][Head(todo)]]
        /\ SameBooks
    BY <1>4 DEF Campaign!ApplyNext, Campaign!files, SameBooks
  <2>2. /\ Sequential(Tail(todo)) /\ Head(todo) = todo[1] /\ Len(todo) \in Nat
        /\ DOMAIN todo = 1..Len(todo) /\ DOMAIN Tail(todo) = 1..(Len(todo) - 1)
        /\ \A i \in 1..(Len(todo) - 1) : Tail(todo)[i] = todo[i + 1]
    BY <1>1, <2>1, SequentialTail, SequentialIs
  <2>3. WorkTyped'
    BY <1>1, <2>1, <2>2 DEF WorkTyped, SameBooks, Campaigning, AfterTrials
  <2>4. ResolversSet' /\ ProbesKept'
    <3>1. Campaign!Current' = Campaign!Current
      BY <2>1 DEF SameBooks, Campaign!Current
    <3>2. ASSUME NEW r \in Places
          PROVE  behaviours'[r] = Scripted[Campaign!Current][r]
                   \/ \E i \in DOMAIN todo' : todo'[i] = r
      <4>1. CASE r = Head(todo)
        BY <1>1, <2>1, <4>1 DEF WorkTyped
      <4>2. CASE r # Head(todo)
        <5>1. behaviours'[r] = behaviours[r]
          BY <1>1, <2>1, <4>2 DEF WorkTyped
        <5>2. CASE \E i \in DOMAIN todo : todo[i] = r
          <6>1. PICK i \in DOMAIN todo : todo[i] = r
            BY <5>2
          <6>2. i - 1 \in 1..(Len(todo) - 1) /\ (i - 1) + 1 = i
            BY <2>2, <4>2, <6>1
          <6>3. Tail(todo)[i - 1] = r
            BY <2>2, <6>1, <6>2
          <6> QED
            BY <2>1, <2>2, <6>2, <6>3
        <5> QED
          BY <1>1, <2>1, <5>1, <5>2 DEF ResolversSet
      <4> QED
        BY <4>1, <4>2
    <3> QED
      BY <2>1, <3>1, <3>2 DEF ResolversSet, ProbesKept
  <2> QED
    BY <2>1, <2>3, <2>4, BooksKept DEF CampaignInv, Preparing
<1> QED
  BY <1>2, <1>3, <1>4

LEMMA CurrentKey ==
    ASSUME WorkTyped
    PROVE  /\ Campaign!Key \in Keys /\ Campaign!Key.experiment = experiment
           /\ Campaign!Key.trial[1] = scenario /\ Campaign!Key.trial[2] = done + 1
           /\ Campaign!Binding = BoundTo(Campaign!Key)
           /\ Campaign!Binding.injection = Scripted[Campaign!Current]
<1>1. Campaign!Key = [experiment |-> experiment, trial |-> <<scenario, done + 1>>]
  BY DEF Campaign!Key
<1>2. experiment \in Nat /\ scenario \in 1..Len(Scenarios) /\ done + 1 \in Nat
  BY ConstantsAre DEF WorkTyped
<1> QED
  BY <1>1, <1>2 DEF Keys, BoundTo, Campaign!Binding, Campaign!Current

\* A row of the current trial, whatever came of its probe.
LEMMA ObservationIs ==
    ASSUME WorkTyped, NEW r \in Places, NEW status, NEW document, NEW latency \in Nat,
           NEW taken, status # Absent => taken = Scripted[Campaign!Current][r]
    PROVE  /\ RowGood(Campaign!Observation(r, status, document, latency, taken))
           /\ Campaign!Observation(r, status, document, latency, taken).key = Campaign!Key
           /\ Campaign!Observation(r, status, document, latency, taken).resolver = r
<1> DEFINE o == Campaign!Observation(r, status, document, latency, taken)
           V == document = Campaign!Document(Campaign!Healthy)
<1>1. /\ o.key = Campaign!Key /\ o.binding = Campaign!Binding /\ o.resolver = r
      /\ o.status = status /\ o.latency = latency /\ o.span = latency /\ o.taken = taken
      /\ o.accepted = (status = 200 /\ V) /\ o.valid = (IF status = 200 THEN V ELSE Absent)
  BY DEF Campaign!Observation
<1>2. V \in BOOLEAN
  OBVIOUS
<1> HIDE DEF o, V
<1>3. o.accepted => o.valid = TRUE /\ o.status = 200
  <2>1. SUFFICES ASSUME o.accepted PROVE o.valid = TRUE /\ o.status = 200
    OBVIOUS
  <2>2. status = 200 /\ V
    BY <1>1, <2>1, Zenon
  <2>3. o.valid = V
    BY <1>1, <2>2, Zenon
  <2>4. V = TRUE
    BY <1>2, <2>2
  <2> QED
    BY <1>1, <2>2, <2>3, <2>4, Zenon
<1>4. ~ (latency < 0)
  OBVIOUS
<1>5. o.key \in Keys /\ o.binding = BoundTo(o.key)
      /\ o.binding.injection = Scripted[Campaign!Current]
  BY <1>1, CurrentKey
<1>6. RowGood(o)
  BY <1>1, <1>3, <1>4, <1>5 DEF RowGood
<1> QED
  BY <1>1, <1>6 DEF o

LEMMA TrialBegins ==
    ASSUME CampaignInv, Campaign!BeginTrial
    PROVE  CampaignInv'
<1>1. /\ campaignPhase = "applying" /\ campaignPhase' = "probing"
      /\ todo = << >> /\ todo' = todo /\ behaviours' = behaviours /\ SameBooks
      /\ probes' = [r \in Places |->
           [step |-> IF LaunchModes[Campaign!Current] = "parallel" \/ r = Head(Endpoints)
                     THEN "launched" ELSE "waiting"]]
  BY DEF Campaign!BeginTrial, Campaign!files, SameBooks, Places
<1>2. WorkTyped'
  BY <1>1 DEF CampaignInv, WorkTyped, SameBooks, Campaigning, AfterTrials
<1>3. ResolversSet'
  BY <1>1, EmptyIsSequential DEF CampaignInv, ResolversSet, SameBooks, Campaign!Current
<1>4. ProbesKept'
  <2>1. ASSUME NEW r \in Places PROVE probes'[r].step \in {"launched", "waiting"}
    BY <1>1
  <2> QED
    BY <2>1 DEF ProbesKept, ProbeKept
<1> QED
  BY <1>1, <1>2, <1>3, <1>4, BooksKept DEF CampaignInv, Preparing

LEMMA ProbesChange ==
    ASSUME CampaignInv, campaignPhase = "probing", campaignPhase' = "probing", SameBooks,
           todo' = todo, behaviours' = behaviours, probes' = [q \in Places |-> probes'[q]],
           \A q \in Places : ProbeKept(probes'[q], q)
    PROVE  CampaignInv'
<1>1. WorkTyped'
  BY DEF CampaignInv, WorkTyped, SameBooks, Campaigning, AfterTrials
<1>2. ResolversSet'
  BY DEF CampaignInv, ResolversSet, SameBooks, Campaign!Current
<1>3. ProbesKept'
  BY DEF ProbesKept, ProbeKept, SameBooks, Campaign!Current, Campaign!Key
<1> QED
  BY <1>1, <1>2, <1>3, BooksKept DEF CampaignInv, Preparing

LEMMA ProbeArrives ==
    ASSUME CampaignInv, NEW r \in Places, Campaign!Arrive(r)
    PROVE  CampaignInv'
<1>1. /\ campaignPhase = "probing" /\ campaignPhase' = "probing" /\ SameBooks
      /\ todo' = todo /\ behaviours' = behaviours
      /\ probes' = [probes EXCEPT ![r] = [step |-> "held", taken |-> behaviours[r]]]
  BY DEF Campaign!Arrive, Campaign!files, SameBooks
<1>2. /\ probes = [q \in Places |-> probes[q]] /\ \A q \in Places : ProbeKept(probes[q], q)
      /\ behaviours[r] = Scripted[Campaign!Current][r]
  BY <1>1 DEF CampaignInv, WorkTyped, ProbesKept, ResolversSet
<1>3. \A q \in Places : ProbeKept(probes'[q], q)
  BY <1>1, <1>2 DEF ProbeKept
<1>4. probes' = [q \in Places |-> probes'[q]]
  BY <1>1, <1>2
<1> QED
  BY <1>1, <1>3, <1>4, ProbesChange

LEMMA ProbeEnds ==
    ASSUME CampaignInv, campaignPhase = "probing", campaignPhase' = "probing", SameBooks,
           todo' = todo, behaviours' = behaviours,
           NEW r \in Places, NEW result, probes' = Campaign!Ended(r, result),
           result # Absent =>
             RowGood(result) /\ result.key = Campaign!Key /\ result.resolver = r
    PROVE  CampaignInv'
<1>1. /\ DOMAIN probes' = Places /\ probes' = [q \in Places |-> probes'[q]]
      /\ \A q \in Places : \/ q = r /\ probes'[q] = [step |-> "ended", result |-> result]
                           \/ probes'[q] = [step |-> "launched"]
                           \/ probes'[q] = probes[q]
  BY DEF Campaign!Ended, Places
<1>2. \A q \in Places : ProbeKept(probes[q], q)
  BY DEF CampaignInv, ProbesKept
<1>3. \A q \in Places : ProbeKept(probes'[q], q)
  <2>1. ASSUME NEW q \in Places PROVE ProbeKept(probes'[q], q)
    <3>1. CASE q = r /\ probes'[q] = [step |-> "ended", result |-> result]
      BY <3>1 DEF ProbeKept
    <3>2. CASE probes'[q] = [step |-> "launched"]
      BY <3>2 DEF ProbeKept
    <3>3. CASE probes'[q] = probes[q]
      BY <1>2, <3>3
    <3> QED
      BY <1>1, <3>1, <3>2, <3>3
  <2> QED
    BY <2>1
<1> QED
  BY <1>1, <1>3, ProbesChange

LEMMA ProbeAnswers ==
    ASSUME CampaignInv, NEW r \in Places,
           Campaign!Respond(r) \/ Campaign!Censor(r) \/ Campaign!ProbeRaises(r)
    PROVE  CampaignInv'
<1>1. /\ campaignPhase = "probing" /\ campaignPhase' = "probing" /\ SameBooks
      /\ todo' = todo /\ behaviours' = behaviours
  BY DEF Campaign!Respond, Campaign!Censor, Campaign!ProbeRaises, Campaign!files, SameBooks
<1>2. WorkTyped /\ ProbeKept(probes[r], r)
  BY <1>1 DEF CampaignInv, ProbesKept
<1>3. CASE Campaign!Respond(r)
  <2> DEFINE b == probes[r].taken
             answer == Campaign!ReplyTo(b, 1)
             status == IF answer.status = "ok" THEN 200 ELSE 503
             latency == IF b.delay THEN 2 ELSE 1
             o == Campaign!Observation(r, status, answer.document, latency, b)
  <2>1. probes[r].step = "held" /\ probes' = Campaign!Ended(r, o)
    BY <1>3 DEF Campaign!Respond
  <2>2. b = Scripted[Campaign!Current][r]
    BY <1>2, <2>1 DEF ProbeKept
  <2>3. latency \in Nat
    OBVIOUS
  <2> HIDE DEF answer, status, latency, b
  <2>4. RowGood(o) /\ o.key = Campaign!Key /\ o.resolver = r
    BY <1>2, <2>2, <2>3, ObservationIs
  <2> HIDE DEF o
  <2> QED
    BY <1>1, <2>1, <2>4, ProbeEnds
<1>4. CASE Campaign!Censor(r)
  <2> DEFINE o == Campaign!Observation(r, Absent, Campaign!NoDocument, 3, Absent)
  <2>1. probes' = Campaign!Ended(r, o)
    BY <1>4 DEF Campaign!Censor
  <2>2. RowGood(o) /\ o.key = Campaign!Key /\ o.resolver = r
    BY <1>2, ObservationIs
  <2> HIDE DEF o
  <2> QED
    BY <1>1, <2>1, <2>2, ProbeEnds
<1>5. CASE Campaign!ProbeRaises(r)
  <2>1. probes' = Campaign!Ended(r, Absent)
    BY <1>5 DEF Campaign!ProbeRaises
  <2> QED
    BY <1>1, <2>1, ProbeEnds
<1> QED
  BY <1>3, <1>4, <1>5

-----------------------------------------------------------------------------
\* The rows of a trial that ends: one for every probe that left one.
LEMMA GatheredIs ==
    ASSUME CampaignInv, campaignPhase = "probing",
           \A r \in Places : probes[r].step = "ended"
    PROVE  /\ Sequential(Campaign!Gathered) /\ Distinct(Campaign!Gathered)
           /\ \A j \in DOMAIN Campaign!Gathered :
                RowGood(Campaign!Gathered[j]) /\ Campaign!Gathered[j].key = Campaign!Key
<1> DEFINE ended == [i \in DOMAIN Endpoints |-> probes[Endpoints[i]].result]
           K == {i \in DOMAIN ended : ended[i] # Absent}
           G == Campaign!Gathered
<1>1. G = Campaign!Selected(ended, K)
  BY DEF Campaign!Gathered, Campaign!Rows, Campaign!Where
<1>2. Sequential(ended)
  BY ConstantsAre, FunctionIsSequential
<1>3. ASSUME NEW i \in K
      PROVE  /\ RowGood(ended[i]) /\ ended[i].key = Campaign!Key
             /\ ended[i].resolver = Endpoints[i] /\ i \in DOMAIN Endpoints
  <2>1. i \in DOMAIN Endpoints /\ Endpoints[i] \in Places
    BY ConstantsAre
  <2>2. ended[i] = probes[Endpoints[i]].result /\ ended[i] # Absent
    BY <2>1
  <2>3. ProbeKept(probes[Endpoints[i]], Endpoints[i])
    BY <2>1 DEF CampaignInv, ProbesKept
  <2> HIDE DEF ended, K
  <2> QED
    BY <2>1, <2>2, <2>3 DEF ProbeKept
<1>4. K \in SUBSET DOMAIN ended /\ K \in SUBSET (1..Len(Endpoints))
  BY ConstantsAre
<1> HIDE DEF ended, K, G
<1>5. /\ Sequential(G) /\ DOMAIN G = 1..Cardinality(K)
      /\ \A n \in 1..Cardinality(K) : G[n] = ended[NthOf(K, n)] /\ NthOf(K, n) \in K
  BY <1>1, <1>2, <1>4, SelectedIs
<1>6. Distinct(G)
  <2>1. ASSUME NEW m \in DOMAIN G, NEW n \in DOMAIN G, G[m].resolver = G[n].resolver
        PROVE  m = n
    <3>1. NthOf(K, m) = NthOf(K, n)
      BY <1>3, <1>5, <2>1, ConstantsAre
    <3> QED
      BY <1>4, <1>5, <3>1, ConstantsAre, NthInjective
  <2> QED
    BY <2>1 DEF Distinct
<1>7. \A j \in DOMAIN G : RowGood(G[j]) /\ G[j].key = Campaign!Key
  BY <1>3, <1>5
<1> QED
  BY <1>5, <1>6, <1>7 DEF G

\* No stored trial has the key of the one that is running.
LEMMA KeyIsNew ==
    ASSUME CampaignInv, Campaigning
    PROVE  /\ \A i \in DOMAIN trials : trials[i].key # Campaign!Key
           /\ campaignPhase # "storing" => RowsOf(observations, Campaign!Key) = {}
<1>1. /\ Campaign!Key.experiment = experiment /\ Campaign!Key.trial[1] = scenario
      /\ Campaign!Key.trial[2] = done + 1 /\ done \in Int /\ scenario \in Int
  BY CurrentKey DEF CampaignInv, WorkTyped
<1>2. ~ Earlier(Campaign!Key)
  BY <1>1 DEF Earlier
<1>3. \A i \in DOMAIN trials : trials[i].key # Campaign!Key
  BY <1>2 DEF CampaignInv, KeysIssued
<1>4. ASSUME campaignPhase # "storing", NEW i \in RowsOf(observations, Campaign!Key)
      PROVE  FALSE
  <2>1. i \in DOMAIN observations /\ observations[i].key = Campaign!Key
    BY DEF RowsOf
  <2>2. \E j \in DOMAIN trials : trials[j].key = observations[i].key
    BY <1>1, <1>4, <2>1 DEF CampaignInv, ParentsKept, Campaigning
  <2> QED
    BY <1>3, <2>1, <2>2
<1> QED
  BY <1>3, <1>4

LEMMA TrialEnds ==
    ASSUME CampaignInv, Campaign!EndTrial
    PROVE  CampaignInv'
<1> DEFINE G == Campaign!Gathered
           R == Campaign!RecordOf(G)
<1>1. /\ campaignPhase = "probing" /\ campaignPhase' = "storing"
      /\ unsaved' = G /\ record' = R
      /\ probes' = [r \in Places |-> [step |-> "none"]]
      /\ kept' = [kept EXCEPT !.rows = @ \o G, !.trials = Append(@, record')]
      /\ behaviours' = behaviours /\ trials' = trials /\ observations' = observations
      /\ experiment' = experiment /\ scenario' = scenario /\ done' = done /\ todo' = todo
      /\ \A r \in Places : probes[r].step = "ended"
  BY DEF Campaign!EndTrial, Campaign!NoProbes, Campaign!files, Places
<1>2. /\ Sequential(G) /\ Distinct(G)
      /\ \A j \in DOMAIN G : RowGood(G[j]) /\ G[j].key = Campaign!Key
  BY <1>1, GatheredIs
<1>3. /\ WorkTyped /\ FilesGood(trials, observations)
      /\ kept = [trials |-> kept.trials, rows |-> kept.rows]
      /\ kept.trials = MineOf(trials, experiment)
      /\ kept.rows = MineOf(observations, experiment)
  BY <1>1 DEF CampaignInv, MemoryKept, WorkTyped
<1>4. /\ R.key = Campaign!Key /\ R.binding = Campaign!Binding
      /\ R.expected = Len(Endpoints) /\ R.actual = Len(G)
      /\ R.complete => Len(G) = Len(Endpoints)
  BY DEF Campaign!RecordOf
<1>5. TrialGood(R)
  BY <1>3, <1>4, CurrentKey DEF TrialGood
<1>6. Campaign!Key' = Campaign!Key /\ Campaign!Current' = Campaign!Current
  BY <1>1 DEF Campaign!Key, Campaign!Current
<1>7. RowsOf(observations, Campaign!Key) = {}
  BY <1>1, KeyIsNew DEF Campaigning
<1> HIDE DEF G, R
<1>8. kept' = [trials |-> Append(kept.trials, R), rows |-> kept.rows \o G]
  BY <1>1, <1>3
<1>9. WorkTyped'
  BY <1>1, <1>2, <1>3, <1>8 DEF WorkTyped, Campaigning, AfterTrials
<1>10. FilesGood(trials, observations)'
  BY <1>1, <1>3
<1>11. KeysIssued'
  BY <1>1 DEF CampaignInv, KeysIssued, Earlier, Campaigning
<1>12. ParentsKept'
  BY <1>1 DEF CampaignInv, ParentsKept
<1>13. MemoryKept'
  BY <1>1, <1>3, <1>8 DEF MemoryKept
<1>14. CountKept'
  BY <1>1 DEF CampaignInv, CountKept, Campaigning, AfterTrials
<1>15. PassedKept' /\ ProbesKept'
  BY <1>1 DEF PassedKept, ProbesKept
<1>16. ResolversSet'
  BY <1>1, <1>6 DEF CampaignInv, ResolversSet
<1>17. RecordKept'
  <2>1. Cardinality(RowsOf(observations, Campaign!Key)) = 0
    BY <1>7, FS_EmptySet
  <2>2. Len(G) \in Nat
    BY <1>2, SequentialIs
  <2>3. Cardinality(RowsOf(observations, Campaign!Key)) + Len(G) = R.actual
    BY <1>4, <2>1, <2>2
  <2> QED
    BY <1>1, <1>2, <1>4, <1>5, <1>6, <1>7, <2>3 DEF RecordKept
<1> QED
  BY <1>9, <1>10, <1>11, <1>12, <1>13, <1>14, <1>15, <1>16, <1>17 DEF CampaignInv

LEMMA HeadMoves ==
    ASSUME NEW s, NEW u, Sequential(s), Sequential(u), u # << >>
    PROVE  Append(s, Head(u)) \o Tail(u) = s \o u
<1> DEFINE T == {s[i] : i \in DOMAIN s} \cup {u[i] : i \in DOMAIN u}
<1>1. s \in Seq(T) /\ u \in Seq(T)
  BY SeqMonotonic DEF Sequential
<1> HIDE DEF T
<1>2. /\ Head(u) \in T /\ Tail(u) \in Seq(T) /\ Len(Tail(u)) = Len(u) - 1
      /\ \A i \in 1..Len(Tail(u)) : Tail(u)[i] = u[i + 1]
      /\ Head(u) = u[1] /\ Len(u) \in Nat /\ Len(u) > 0 /\ Len(s) \in Nat
  BY <1>1, HeadTailProperties
<1> DEFINE a == Append(s, Head(u))
           v == Tail(u)
           x == a \o v
           y == s \o u
<1>3. /\ a \in Seq(T) /\ Len(a) = Len(s) + 1 /\ a[Len(s) + 1] = u[1]
      /\ \A i \in 1..Len(s) : a[i] = s[i]
  BY <1>1, <1>2, AppendProperties
<1>4. /\ y \in Seq(T) /\ Len(y) = Len(s) + Len(u)
      /\ \A i \in 1..(Len(s) + Len(u)) : y[i] = IF i <= Len(s) THEN s[i] ELSE u[i - Len(s)]
  BY <1>1, ConcatProperties
<1> HIDE DEF a, v
<1>5. /\ x \in Seq(T) /\ Len(x) = Len(a) + Len(v)
      /\ \A i \in 1..(Len(a) + Len(v)) : x[i] = IF i <= Len(a) THEN a[i] ELSE v[i - Len(a)]
  BY <1>2, <1>3, ConcatProperties DEF v
<1>6. Len(x) = Len(y)
  BY <1>2, <1>3, <1>4, <1>5 DEF v
<1>7. \A i \in 1..Len(v) : v[i] = u[i + 1]
  BY <1>2 DEF v
<1>8. Len(v) = Len(u) - 1
  BY <1>2 DEF v
<1> HIDE DEF x, y
<1>9. \A i \in 1..Len(x) : x[i] = y[i]
  <2>1. ASSUME NEW i \in 1..(Len(s) + Len(u)) PROVE x[i] = y[i]
    <3>1. CASE i <= Len(s)
      <4>1. /\ i \in 1..Len(s) /\ i <= Len(a)
            /\ i \in 1..(Len(a) + Len(v)) /\ i \in 1..(Len(s) + Len(u))
        BY <1>2, <1>3, <1>8, <3>1
      <4>2. x[i] = a[i] /\ y[i] = s[i]
        BY <1>4, <1>5, <3>1, <4>1
      <4> QED
        BY <1>3, <4>1, <4>2
    <3>2. CASE i = Len(s) + 1
      <4>1. /\ i <= Len(a) /\ ~ (i <= Len(s)) /\ i - Len(s) = 1
            /\ i \in 1..(Len(a) + Len(v)) /\ i \in 1..(Len(s) + Len(u))
        BY <1>2, <1>3, <1>8, <3>2
      <4>2. x[i] = a[i] /\ y[i] = u[1]
        BY <1>4, <1>5, <4>1
      <4> QED
        BY <1>3, <3>2, <4>2
    <3>3. CASE i > Len(s) + 1
      <4>1. /\ i - Len(a) \in 1..Len(v) /\ (i - Len(a)) + 1 = i - Len(s)
            /\ ~ (i <= Len(a)) /\ ~ (i <= Len(s)) /\ i \in 1..(Len(a) + Len(v))
        BY <1>2, <1>3, <1>8, <3>3
      <4>2. x[i] = v[i - Len(a)] /\ y[i] = u[i - Len(s)]
        BY <1>4, <1>5, <4>1
      <4> QED
        BY <1>7, <4>1, <4>2
    <3> QED
      BY <1>2, <3>1, <3>2, <3>3
  <2> QED
    BY <1>4, <1>6, <2>1
<1>10. x = y
  BY <1>4, <1>5, <1>6, <1>9, SeqEqual
<1> QED
  BY <1>10 DEF x, y, a, v

LEMMA RowStored ==
    ASSUME CampaignInv, Campaign!StoreRow
    PROVE  CampaignInv'
<1> DEFINE O == observations
           x == Head(unsaved)
           k == Campaign!Key
           N == Len(O)
<1>1. /\ campaignPhase = "storing" /\ campaignPhase' = "storing" /\ unsaved # << >>
      /\ observations' = Append(O, x) /\ unsaved' = Tail(unsaved)
      /\ behaviours' = behaviours /\ trials' = trials /\ experiment' = experiment
      /\ scenario' = scenario /\ done' = done /\ todo' = todo /\ probes' = probes
      /\ record' = record /\ kept' = kept
  BY DEF Campaign!StoreRow
<1>2. WorkTyped /\ RecordKept /\ FilesGood(trials, O) /\ Sequential(unsaved)
      /\ Sequential(O) /\ Sequential(trials) /\ Distinct(O)
  BY DEF CampaignInv, WorkTyped, FilesGood
<1>3. /\ Sequential(Tail(unsaved)) /\ Len(Tail(unsaved)) = Len(unsaved) - 1
      /\ x = unsaved[1] /\ 1 \in DOMAIN unsaved /\ Len(unsaved) \in Nat
      /\ DOMAIN Tail(unsaved) = 1..(Len(unsaved) - 1) /\ DOMAIN unsaved = 1..Len(unsaved)
      /\ \A i \in 1..(Len(unsaved) - 1) : Tail(unsaved)[i] = unsaved[i + 1]
  <2>1. Len(unsaved) \in Nat /\ DOMAIN unsaved = 1..Len(unsaved)
    BY <1>2, SequentialIs
  <2>2. /\ Sequential(Tail(unsaved)) /\ Len(Tail(unsaved)) = Len(unsaved) - 1
        /\ Len(unsaved) > 0 /\ x = unsaved[1]
        /\ DOMAIN Tail(unsaved) = 1..(Len(unsaved) - 1)
        /\ \A i \in 1..(Len(unsaved) - 1) : Tail(unsaved)[i] = unsaved[i + 1]
    BY <1>1, <1>2, SequentialTail
  <2>3. 1 \in DOMAIN unsaved
    BY <2>1, <2>2
  <2> QED
    BY <2>1, <2>2, <2>3
<1>4. /\ TrialGood(record) /\ record.key = k
      /\ Distinct(unsaved)
      /\ \A j \in DOMAIN unsaved : RowGood(unsaved[j]) /\ unsaved[j].key = k
      /\ \A i \in RowsOf(O, k), j \in DOMAIN unsaved : O[i].resolver # unsaved[j].resolver
      /\ Cardinality(RowsOf(O, k)) + Len(unsaved) = record.actual
  BY <1>1, <1>2 DEF RecordKept
<1>5. RowGood(x) /\ x.key = k /\ k.experiment = experiment
  BY <1>2, <1>3, <1>4, CurrentKey
<1>6. k' = k /\ Campaign!Current' = Campaign!Current
  BY <1>1 DEF Campaign!Key, Campaign!Current
<1>7. /\ Sequential(Append(O, x)) /\ DOMAIN Append(O, x) = 1..(N + 1)
      /\ N \in Nat /\ DOMAIN O = 1..N
      /\ (\A i \in 1..N : Append(O, x)[i] = O[i]) /\ Append(O, x)[N + 1] = x
  BY <1>2, SequentialIs, SequentialAppend
<1>8. /\ RowsOf(Append(O, x), k) = RowsOf(O, k) \cup {N + 1}
      /\ Cardinality(RowsOf(Append(O, x), k)) = Cardinality(RowsOf(O, k)) + 1
      /\ Cardinality(RowsOf(O, k)) \in Nat
      /\ \A c : c # k => RowsOf(Append(O, x), c) = RowsOf(O, c)
  BY <1>2, <1>5, RowsGrow
<1>9. \A i \in DOMAIN trials : trials[i].key # k
  BY <1>1, KeyIsNew DEF Campaigning
<1>10. \A i \in RowsOf(O, k) : i \in 1..N /\ O[i].key = k /\ O[i].resolver # x.resolver
  BY <1>3, <1>4, <1>7 DEF RowsOf
<1> HIDE DEF O, x, k, N
<1>11. WorkTyped'
  BY <1>1, <1>2, <1>3 DEF WorkTyped, Campaigning, AfterTrials
<1>12. FilesGood(trials, observations)'
  <2> DEFINE A == Append(O, x)
  <2>1. \A i \in DOMAIN A : i \in 1..N \/ i = N + 1
    BY <1>7
  <2>2. \A i \in DOMAIN A : RowGood(A[i])
    BY <1>2, <1>5, <1>7, <2>1 DEF FilesGood
  <2>3. \A i \in 1..N : O[i].key = k => O[i].resolver # x.resolver
    BY <1>7, <1>10 DEF RowsOf
  <2> HIDE DEF A
  <2>4. ASSUME NEW i \in DOMAIN A, NEW j \in DOMAIN A,
               A[i].key = A[j].key, A[i].resolver = A[j].resolver
        PROVE  i = j
    <3>1. CASE i \in 1..N /\ j \in 1..N
      <4>1. A[i] = O[i] /\ A[j] = O[j] /\ i \in DOMAIN O /\ j \in DOMAIN O
        BY <1>7, <3>1 DEF A
      <4> QED
        BY <1>2, <2>4, <4>1 DEF Distinct
    <3>2. CASE i \in 1..N /\ j = N + 1
      <4>1. A[i] = O[i] /\ A[j] = x
        BY <1>7, <3>2 DEF A
      <4> QED
        BY <1>5, <2>3, <2>4, <3>2, <4>1
    <3>3. CASE i = N + 1 /\ j \in 1..N
      <4>1. A[j] = O[j] /\ A[i] = x
        BY <1>7, <3>3 DEF A
      <4> QED
        BY <1>5, <2>3, <2>4, <3>3, <4>1
    <3> QED
      BY <2>1, <3>1, <3>2, <3>3
  <2>5. Distinct(A)
    BY <2>4 DEF Distinct
  <2>6. \A i \in DOMAIN trials :
          TrialGood(trials[i]) /\ Cardinality(RowsOf(A, trials[i].key)) = trials[i].actual
    BY <1>2, <1>8, <1>9 DEF FilesGood, A
  <2>7. Sequential(A)
    BY <1>7 DEF A
  <2>8. FilesGood(trials, A)
    BY <1>2, <2>2, <2>5, <2>6, <2>7 DEF FilesGood
  <2> QED
    BY <1>1, <2>8 DEF A
<1>13. KeysIssued'
  <2>1. \A i \in DOMAIN observations' : observations'[i].key.experiment <= experiment
    <3>1. ASSUME NEW i \in DOMAIN observations'
          PROVE  observations'[i].key.experiment <= experiment
      <4>1. CASE i \in 1..N
        BY <1>1, <1>7, <4>1 DEF CampaignInv, KeysIssued, O
      <4>2. CASE i = N + 1
        BY <1>1, <1>2, <1>5, <1>7, <4>2 DEF WorkTyped
      <4> QED
        BY <1>1, <1>7, <4>1, <4>2
    <3> QED
      BY <3>1
  <2> QED
    BY <1>1, <2>1 DEF CampaignInv, KeysIssued, Earlier, Campaigning
<1>14. ParentsKept'
  <2>1. ASSUME NEW i \in DOMAIN observations',
               observations'[i].key.experiment = experiment
        PROVE  \/ \E j \in DOMAIN trials : trials[j].key = observations'[i].key
               \/ observations'[i].key = k
    <3>1. CASE i \in 1..N
      BY <1>1, <1>7, <2>1, <3>1 DEF CampaignInv, ParentsKept, O, k
    <3>2. CASE i = N + 1
      BY <1>1, <1>5, <1>7, <3>2
    <3> QED
      BY <1>1, <1>7, <3>1, <3>2
  <2> QED
    BY <1>1, <1>6, <2>1 DEF ParentsKept, k
<1>15. MemoryKept'
  <2>1. MineOf(Append(O, x), experiment) = Append(MineOf(O, experiment), x)
    BY <1>2, <1>5, MineGrows
  <2>2. Sequential(MineOf(O, experiment))
    BY <1>2, OwnAre
  <2>3. Append(MineOf(O, experiment), x) \o Tail(unsaved) = MineOf(O, experiment) \o unsaved
    BY <1>1, <1>2, <2>2, HeadMoves DEF x
  <2>4. /\ kept.trials = Append(MineOf(trials, experiment), record)
        /\ kept.rows = MineOf(O, experiment) \o unsaved
    BY <1>1 DEF CampaignInv, MemoryKept, O
  <2>5. /\ kept'.trials = Append(MineOf(trials', experiment'), record')
        /\ kept'.rows = MineOf(observations', experiment') \o unsaved'
    BY <1>1, <2>1, <2>3, <2>4
  <2> QED
    BY <1>1, <2>5 DEF MemoryKept
<1>16. CountKept' /\ PassedKept' /\ ProbesKept'
  BY <1>1 DEF CampaignInv, CountKept, PassedKept, ProbesKept, Campaigning, AfterTrials
<1>17. ResolversSet'
  BY <1>1, <1>6 DEF CampaignInv, ResolversSet
<1>18. RecordKept'
  <2> DEFINE v == Tail(unsaved)
  <2>1. \A i \in DOMAIN v : i + 1 \in DOMAIN unsaved /\ v[i] = unsaved[i + 1] /\ i \in Int
                            /\ i + 1 # 1
    BY <1>3
  <2>2. \A i \in DOMAIN v : RowGood(v[i]) /\ v[i].key = k
    BY <1>4, <2>1
  <2>3. Distinct(v)
    <3>1. ASSUME NEW i \in DOMAIN v, NEW j \in DOMAIN v,
                 v[i].key = v[j].key, v[i].resolver = v[j].resolver
          PROVE  i = j
      <4>1. i + 1 = j + 1
        BY <1>4, <2>1, <3>1 DEF Distinct
      <4> QED
        BY <2>1, <4>1
    <3> QED
      BY <3>1 DEF Distinct
  <2>4. \A j \in DOMAIN v : x.resolver # v[j].resolver
    <3>1. ASSUME NEW j \in DOMAIN v, x.resolver = v[j].resolver PROVE FALSE
      <4>1. j + 1 = 1
        BY <1>3, <1>4, <2>1, <3>1 DEF Distinct
      <4> QED
        BY <2>1, <4>1
    <3> QED
      BY <3>1
  <2>5. ASSUME NEW i \in RowsOf(Append(O, x), k), NEW j \in DOMAIN v
        PROVE  Append(O, x)[i].resolver # v[j].resolver
    <3>1. CASE i = N + 1
      BY <1>7, <2>4, <3>1
    <3>2. CASE i \in RowsOf(O, k)
      BY <1>4, <1>7, <1>10, <2>1, <3>2
    <3> QED
      BY <1>8, <3>1, <3>2
  <2>6. Len(v) = Len(unsaved) - 1
    BY <1>3
  <2> HIDE DEF v
  <2>7. Cardinality(RowsOf(Append(O, x), k)) + Len(v) = record.actual
    BY <1>3, <1>4, <1>8, <2>6
  <2>8. observations' = Append(O, x) /\ unsaved' = v
    BY <1>1 DEF v
  <2>9. record' = record /\ TrialGood(record) /\ record.key = k
    BY <1>1, <1>4
  <2>10. k' = k /\ k = Campaign!Key
    BY <1>6 DEF k
  <2>11. Distinct(unsaved') /\ TrialGood(record') /\ record'.key = k'
    BY <2>3, <2>8, <2>9, <2>10
  <2>12. \A j \in DOMAIN unsaved' : RowGood(unsaved'[j]) /\ unsaved'[j].key = k'
    BY <2>2, <2>8, <2>10
  <2>13. \A i \in RowsOf(observations', k'), j \in DOMAIN unsaved' :
           observations'[i].resolver # unsaved'[j].resolver
    BY <2>5, <2>8, <2>10
  <2>14. Cardinality(RowsOf(observations', k')) + Len(unsaved') = record'.actual
    BY <2>7, <2>8, <2>9, <2>10
  <2>15. k' = Campaign!Key'
    BY DEF k
  <2> QED
    BY <2>11, <2>12, <2>13, <2>14, <2>15 DEF RecordKept
<1> QED
  BY <1>11, <1>12, <1>13, <1>14, <1>15, <1>16, <1>17, <1>18 DEF CampaignInv

LEMMA ProductSteps ==
    ASSUME NEW n \in Nat, NEW m \in Nat
    PROVE  (n - 1) * m + m = n * m /\ (n + 1 - 1) * m + 0 = n * m
  OBVIOUS

LEMMA TrialStored ==
    ASSUME CampaignInv, Campaign!StoreTrial
    PROVE  CampaignInv'
<1> DEFINE T == trials
           k == Campaign!Key
           N == Len(T)
<1>1. /\ campaignPhase = "storing" /\ unsaved = << >> /\ unsaved' = unsaved
      /\ trials' = Append(T, record) /\ observations' = observations
      /\ behaviours' = behaviours /\ experiment' = experiment /\ probes' = probes
      /\ kept' = kept
      /\ Campaign!AfterTrial
  BY DEF Campaign!StoreTrial
<1>2. \/ /\ done + 1 < Trials /\ campaignPhase' = "applying" /\ done' = done + 1
         /\ scenario' = scenario /\ todo' = todo
      \/ /\ ~ (done + 1 < Trials) /\ done' = 0 /\ todo' = Endpoints
         /\ scenario < Len(Scenarios)
         /\ campaignPhase' = "resetting" /\ scenario' = scenario + 1
      \/ /\ ~ (done + 1 < Trials) /\ done' = 0 /\ todo' = Endpoints
         /\ ~ (scenario < Len(Scenarios))
         /\ campaignPhase' = "leaving" /\ scenario' = scenario
  BY <1>1 DEF Campaign!AfterTrial
<1>3. /\ WorkTyped /\ RecordKept /\ FilesGood(T, observations)
      /\ Sequential(T) /\ Sequential(observations)
      /\ experiment \in Nat /\ scenario \in 1..Len(Scenarios) /\ done \in 0..(Trials - 1)
  BY DEF CampaignInv, WorkTyped, FilesGood
<1>4. /\ TrialGood(record) /\ record.key = k
      /\ Cardinality(RowsOf(observations, k)) + Len(unsaved) = record.actual
  BY <1>1, <1>3 DEF RecordKept
<1>5. Cardinality(RowsOf(observations, k)) = record.actual
  BY <1>1, <1>3, <1>4, RowsAreFinite, EmptyIsSequential
<1>6. k.experiment = experiment /\ k.trial[1] = scenario /\ k.trial[2] = done + 1
  BY <1>3, CurrentKey
<1>7. /\ Sequential(Append(T, record)) /\ DOMAIN Append(T, record) = 1..(N + 1)
      /\ N \in Nat /\ DOMAIN T = 1..N
      /\ (\A i \in 1..N : Append(T, record)[i] = T[i]) /\ Append(T, record)[N + 1] = record
  BY <1>3, SequentialIs, SequentialAppend
<1> HIDE DEF T, k, N
<1>8. \A i \in DOMAIN trials' :
        \/ i \in 1..N /\ i \in DOMAIN T /\ trials'[i] = T[i]
        \/ i = N + 1 /\ trials'[i] = record
  BY <1>1, <1>7
<1>9. N + 1 \in DOMAIN trials' /\ trials'[N + 1] = record
      /\ \A i \in DOMAIN T : i \in DOMAIN trials' /\ trials'[i] = T[i]
  BY <1>1, <1>7
<1>10. WorkTyped'
  <2>1. scenario' \in 1..Len(Scenarios) /\ done' \in 0..(Trials - 1)
    BY <1>2, <1>3, ConstantsAre
  <2> QED
    BY <1>1, <1>2, <1>3, <2>1, ConstantsAre DEF WorkTyped, Campaigning, AfterTrials
<1>11. FilesGood(trials, observations)'
  <2>1. \A i \in DOMAIN trials' :
          TrialGood(trials'[i])
          /\ Cardinality(RowsOf(observations, trials'[i].key)) = trials'[i].actual
    BY <1>3, <1>4, <1>5, <1>8 DEF FilesGood
  <2> QED
    BY <1>1, <1>3, <1>7, <2>1 DEF FilesGood
<1>12. KeysIssued'
  <2>1. ASSUME NEW i \in DOMAIN trials'
        PROVE  /\ trials'[i].key.experiment <= experiment
               /\ trials'[i].key \in Keys
               /\ trials'[i].key.experiment = experiment =>
                    \/ trials'[i].key.trial[1] < scenario
                    \/ trials'[i].key.trial[1] = scenario
                       /\ trials'[i].key.trial[2] <= done + 1
    <3>1. CASE i = N + 1 /\ trials'[i] = record
      BY <1>3, <1>4, <1>6, <3>1 DEF TrialGood
    <3>2. CASE i \in DOMAIN T /\ trials'[i] = T[i]
      <4>1. /\ T[i].key.experiment <= experiment /\ Earlier(T[i].key) /\ T[i].key \in Keys
        BY <1>1, <1>3, <3>2 DEF CampaignInv, KeysIssued, Campaigning, FilesGood, TrialGood, T
      <4>2. T[i].key.trial[1] \in Int /\ T[i].key.trial[2] \in Int
        BY <4>1 DEF Keys
      <4> QED
        BY <1>3, <3>2, <4>1, <4>2 DEF Earlier
    <3> QED
      BY <1>8, <3>1, <3>2
  <2>2. ASSUME NEW i \in DOMAIN trials', campaignPhase' # "leaving"
        PROVE  trials'[i].key.experiment = experiment =>
                 \/ trials'[i].key.trial[1] < scenario'
                 \/ trials'[i].key.trial[1] = scenario' /\ trials'[i].key.trial[2] <= done'
    <3>1. trials'[i].key.trial[1] \in Int
      BY <2>1 DEF Keys
    <3> QED
      BY <1>2, <1>3, <2>1, <2>2, <3>1
  <2> QED
    BY <1>1, <2>1, <2>2 DEF CampaignInv, KeysIssued, Earlier, Campaigning
<1>13. ParentsKept'
  <2>1. ASSUME NEW i \in DOMAIN observations, observations[i].key.experiment = experiment
        PROVE  \E j \in DOMAIN trials' : trials'[j].key = observations[i].key
    <3>1. CASE observations[i].key = k
      BY <1>4, <1>9, <3>1
    <3>2. CASE \E j \in DOMAIN T : T[j].key = observations[i].key
      BY <1>9, <3>2
    <3> QED
      BY <1>1, <2>1, <3>1, <3>2 DEF CampaignInv, ParentsKept, T, k
  <2> QED
    BY <1>1, <2>1 DEF ParentsKept
<1>14. MineOf(trials', experiment) = Append(MineOf(T, experiment), record)
  BY <1>1, <1>3, <1>4, <1>6, MineGrows
<1>15. Sequential(MineOf(T, experiment)) /\ Sequential(MineOf(observations, experiment))
  BY <1>3, OwnAre
<1>16. MemoryKept'
  <2>1. /\ kept.trials = Append(MineOf(T, experiment), record)
        /\ kept.rows = MineOf(observations, experiment) \o << >>
    BY <1>1 DEF CampaignInv, MemoryKept, T
  <2>2. MineOf(observations, experiment) \o << >> = MineOf(observations, experiment)
    BY <1>15, ConcatEmptySeq DEF Sequential
  <2> QED
    BY <1>1, <1>2, <1>14, <2>1, <2>2 DEF MemoryKept
<1>17. CountKept'
  <2>1. Len(MineOf(T, experiment)) = (scenario - 1) * Trials + done
    BY <1>1 DEF CampaignInv, CountKept, Campaigning, T
  <2>2. Len(MineOf(trials', experiment)) = (scenario - 1) * Trials + done + 1
    BY <1>14, <1>15, <2>1, SequentialAppend
  <2>3. (scenario - 1) * Trials \in Int /\ Trials \in Nat /\ scenario \in Nat
    BY <1>3, ConstantsAre
  <2>4. CASE done + 1 < Trials
    <3>1. Len(MineOf(trials', experiment)) = (scenario - 1) * Trials + (done + 1)
      BY <1>3, <2>2, <2>3
    <3> QED
      BY <1>1, <1>2, <2>4, <3>1 DEF CountKept, Campaigning, AfterTrials
  <2>5. CASE ~ (done + 1 < Trials)
    <3>1. done + 1 = Trials
      BY <1>3, <2>5, ConstantsAre
    <3>2. (scenario - 1) * Trials + done + 1 = (scenario - 1) * Trials + Trials
      BY <1>3, <2>3, <3>1
    <3>3. Len(MineOf(trials', experiment)) = scenario * Trials
      BY <2>2, <2>3, <3>2, ProductSteps
    <3>4. CASE scenario < Len(Scenarios)
      <4>1. (scenario + 1 - 1) * Trials + 0 = scenario * Trials
        BY <2>3, ProductSteps
      <4>2. scenario' = scenario + 1 /\ done' = 0 /\ campaignPhase' = "resetting"
            /\ experiment' = experiment
        BY <1>1, <1>2, <2>5, <3>4
      <4>3. Len(MineOf(trials', experiment')) = (scenario' - 1) * Trials + done'
        <5>1. Len(MineOf(trials', experiment')) = scenario * Trials
          BY <3>3, <4>2
        <5>2. scenario' - 1 = scenario
          BY <2>3, <4>2
        <5>3. scenario * Trials \in Int
          BY <2>3
        <5>4. (scenario' - 1) * Trials + done' = scenario * Trials
          BY <4>2, <5>2, <5>3
        <5> QED
          BY <5>1, <5>4
      <4> QED
        BY <4>2, <4>3 DEF CountKept, Campaigning, AfterTrials
    <3>5. CASE ~ (scenario < Len(Scenarios))
      <4>1. scenario = Len(Scenarios)
        BY <1>3, <3>5, ConstantsAre
      <4> QED
        BY <1>1, <1>2, <2>5, <3>3, <3>5, <4>1 DEF CountKept, Campaigning, AfterTrials
    <3> QED
      BY <3>4, <3>5
  <2> QED
    BY <2>4, <2>5
<1>18. PassedKept' /\ ProbesKept' /\ RecordKept'
  BY <1>2 DEF PassedKept, ProbesKept, RecordKept
<1>19. ResolversSet'
  <2>1. CASE campaignPhase' = "applying"
    <3>1. behaviours' = behaviours /\ Campaign!Current' = Campaign!Current
      BY <1>1, <1>2, <2>1 DEF Campaign!Current
    <3> QED
      BY <1>1, <2>1, <3>1 DEF CampaignInv, ResolversSet
  <2>2. CASE campaignPhase' # "applying"
    BY <1>2, <2>2 DEF ResolversSet
  <2> QED
    BY <2>1, <2>2
<1> QED
  BY <1>10, <1>11, <1>12, <1>13, <1>16, <1>17, <1>18, <1>19 DEF CampaignInv

LEMMA CampaignEnds ==
    ASSUME CampaignInv, Campaign!Judge \/ Campaign!Stop
    PROVE  CampaignInv'
<1>1. /\ behaviours' = behaviours /\ trials' = trials /\ observations' = observations
      /\ experiment' = experiment /\ scenario' = scenario /\ done' = done /\ todo' = todo
      /\ probes' = probes /\ unsaved' = unsaved /\ record' = record /\ kept' = kept
  BY DEF Campaign!Judge, Campaign!Stop, Campaign!files, Campaign!work
<1>2. \/ campaignPhase = "judging" /\ campaignPhase' \in {"raised", "passed", "failed"}
      \/ campaignPhase' = "stopped"
  BY DEF Campaign!Judge, Campaign!Stop
<1>3. PassedKept'
  <2>1. CASE Campaign!Judge /\ campaignPhase' = "passed"
    <3>1. Campaign!Passed
      BY <2>1 DEF Campaign!Judge
    <3>2. \A t \in Campaign!ToSet(Campaign!Mine(trials)) : t.complete
      BY <3>1 DEF Campaign!Passed
    <3>3. ASSUME NEW i \in OwnIn(trials, experiment) PROVE trials[i].complete
      <4>1. Sequential(trials)
        BY DEF CampaignInv, FilesGood
      <4>2. \E n \in DOMAIN MineOf(trials, experiment) :
              MineOf(trials, experiment)[n] = trials[i]
        BY <4>1, OwnAre
      <4>3. Campaign!Mine(trials) = MineOf(trials, experiment)
        BY MineIs
      <4>4. trials[i] \in Campaign!ToSet(Campaign!Mine(trials))
        BY <4>2, <4>3 DEF Campaign!ToSet
      <4> QED
        BY <3>2, <4>4
    <3> QED
      BY <1>1, <3>3 DEF PassedKept
  <2>2. CASE campaignPhase' # "passed"
    BY <2>2 DEF PassedKept
  <2> QED
    BY <2>1, <2>2 DEF Campaign!Stop
<1>4. WorkTyped'
  BY <1>1, <1>2 DEF CampaignInv, WorkTyped, Campaigning, AfterTrials
<1>5. FilesGood(trials, observations)'
  BY <1>1 DEF CampaignInv
<1>6. KeysIssued' /\ ParentsKept'
  BY <1>1, <1>2 DEF CampaignInv, KeysIssued, ParentsKept, Campaigning
<1>7. CountKept'
  BY <1>1, <1>2 DEF CampaignInv, CountKept, Campaigning, AfterTrials
<1>8. MemoryKept' /\ ResolversSet' /\ ProbesKept' /\ RecordKept'
  BY <1>2 DEF MemoryKept, ResolversSet, ProbesKept, RecordKept
<1> QED
  BY <1>3, <1>4, <1>5, <1>6, <1>7, <1>8 DEF CampaignInv

LEMMA CampaignQuiet ==
    ASSUME CampaignInv, UNCHANGED Campaign!vars
    PROVE  CampaignInv'
<1>1. /\ behaviours' = behaviours /\ trials' = trials /\ observations' = observations
      /\ experiment' = experiment /\ scenario' = scenario /\ done' = done /\ todo' = todo
      /\ probes' = probes /\ unsaved' = unsaved /\ record' = record /\ kept' = kept
      /\ campaignPhase' = campaignPhase
  BY DEF Campaign!vars, Campaign!files, Campaign!work
<1>2. Campaign!Key' = Campaign!Key /\ Campaign!Current' = Campaign!Current
  BY <1>1 DEF Campaign!Key, Campaign!Current
<1>3. FilesGood(trials, observations)' /\ WorkTyped'
  BY <1>1 DEF CampaignInv, WorkTyped, Campaigning, AfterTrials
<1>4. KeysIssued' /\ ParentsKept' /\ PassedKept'
  BY <1>1, <1>2 DEF CampaignInv, KeysIssued, ParentsKept, PassedKept, Campaigning, Earlier
<1>5. CountKept' /\ MemoryKept'
  BY <1>1 DEF CampaignInv, CountKept, MemoryKept, Campaigning, AfterTrials
<1>6. ResolversSet' /\ ProbesKept'
  BY <1>1, <1>2 DEF CampaignInv, ResolversSet, ProbesKept, ProbeKept
<1>7. RecordKept'
  BY <1>1, <1>2 DEF CampaignInv, RecordKept
<1> QED
  BY <1>3, <1>4, <1>5, <1>6, <1>7 DEF CampaignInv

LEMMA CampaignStep == CampaignInv /\ [Campaign!Next]_(Campaign!vars) => CampaignInv'
<1> SUFFICES ASSUME CampaignInv, [Campaign!Next]_(Campaign!vars) PROVE CampaignInv'
  OBVIOUS
<1>1. CASE Campaign!Start
  BY <1>1, CampaignStart
<1>2. CASE Campaign!ResetNext \/ Campaign!AllReset \/ Campaign!ApplyNext
  BY <1>2, ResolverStepped
<1>3. CASE Campaign!BeginTrial
  BY <1>3, TrialBegins
<1>4. CASE Campaign!EndTrial
  BY <1>4, TrialEnds
<1>5. CASE Campaign!StoreRow
  BY <1>5, RowStored
<1>6. CASE Campaign!StoreTrial
  BY <1>6, TrialStored
<1>7. CASE Campaign!Judge \/ Campaign!Stop
  BY <1>7, CampaignEnds
<1>8. ASSUME NEW r \in Places, Campaign!Arrive(r) PROVE CampaignInv'
  BY <1>8, ProbeArrives
<1>9. ASSUME NEW r \in Places,
             Campaign!Respond(r) \/ Campaign!Censor(r) \/ Campaign!ProbeRaises(r)
      PROVE  CampaignInv'
  BY <1>9, ProbeAnswers
<1>10. CASE UNCHANGED Campaign!vars
  BY <1>10, CampaignQuiet
<1> QED
  BY <1>1, <1>2, <1>3, <1>4, <1>5, <1>6, <1>7, <1>8, <1>9, <1>10
     DEF Campaign!Next, Places

\* The inductive invariant of a campaign: what the files and the memory of the
\* script hold at every step, whatever earlier campaigns left and wherever
\* they were killed.
THEOREM CampaignInvariant == Campaign!Spec => []CampaignInv
<1>1. Campaign!Init => CampaignInv
  BY CampaignInit
<1>2. CampaignInv /\ [Campaign!Next]_(Campaign!vars) => CampaignInv'
  BY CampaignStep
<1> QED
  BY <1>1, <1>2, PTL DEF Campaign!Spec

\* HashNamesBehaviour for any resolvers, scenarios and number of campaigns: an
\* answered row was produced under the behaviour its injection hash stands for.
THEOREM HashesAreTrue == Campaign!Spec => []HashNamesBehaviour
<1>1. CampaignInv => HashNamesBehaviour
  BY CampaignInvGives
<1> QED
  BY <1>1, CampaignInvariant, PTL

\* CampaignIsWhole for any resolvers, scenarios, trials and number of
\* campaigns: a crash leaves rows without a trial and nothing worse, and a
\* campaign is judged by what it observed itself.
THEOREM CampaignsAreWhole == Campaign!Spec => []CampaignIsWhole
<1>1. CampaignInv => CampaignIsWhole
  BY CampaignInvGives
<1> QED
  BY <1>1, CampaignInvariant, PTL

-----------------------------------------------------------------------------
(***************************************************************************)
(* An episode of controlled trials.  What the optimizer promises is proved *)
(* in SubsetSelection_proofs, instantiated here for its providers.         *)
(***************************************************************************)
Minimum == INSTANCE SubsetSelection_proofs WITH
    Providers <- Controlled, Cost <- ControlledCost, Scale <- EpisodeScale

LEMMA SameKey == Episode!SubsetKey = Minimum!SubsetKey
  BY DEF Episode!SubsetKey, Minimum!SubsetKey, Episode!Cardinality, Minimum!Cardinality

LEMMA SameChoices ==
    ASSUME NEW F, NEW q
    PROVE  Episode!Chosen(F, q) = Minimum!Chosen(F, q) /\ Episode!Best(F, q) = Minimum!Best(F, q)
  BY DEF Episode!SubsetKey, Minimum!SubsetKey, Episode!Cardinality, Minimum!Cardinality,
         Episode!TupleLess, Minimum!TupleLess, Episode!Before, Minimum!Before,
         Episode!Precedes, Minimum!Precedes, Episode!Cheapest, Minimum!Cheapest,
         Episode!Likeliest, Minimum!Likeliest, Episode!Chosen, Minimum!Chosen,
         Episode!Best, Minimum!Best

LEMMA SameSelection ==
    ASSUME NEW P, NEW q, NEW t, NEW mode, NEW allow, NEW limit
    PROVE  Episode!Select(P, q, t, mode, allow, limit)
             = Minimum!Select(P, q, t, mode, allow, limit)
  BY DEF Episode!SubsetKey, Minimum!SubsetKey, Episode!Cardinality, Minimum!Cardinality,
         Episode!TupleLess, Minimum!TupleLess, Episode!Before, Minimum!Before,
         Episode!Precedes, Minimum!Precedes, Episode!Cheapest, Minimum!Cheapest,
         Episode!Likeliest, Minimum!Likeliest, Episode!Chosen, Minimum!Chosen,
         Episode!Best, Minimum!Best, Episode!Subsets, Minimum!Subsets,
         Episode!Select, Minimum!Select, Episode!Nothing, Minimum!Nothing,
         Episode!Decision, Minimum!Decision

Width == Cardinality(Controlled)

LEMMA ControlledIs ==
    /\ Controlled \in SUBSET Nat /\ IsFiniteSet(Controlled) /\ Width \in Nat
    /\ Width >= 2 /\ Unknown \notin Nat /\ EpisodeTarget \in Nat
    /\ EpisodeScale \in Nat \ {0} /\ EpisodeWindow \in Nat \ {0} /\ EpisodeTrials \in Nat
    /\ Minimum!SelectionAssumption
    /\ \A S \in SUBSET Controlled : IsFiniteSet(S) /\ Cardinality(S) \in 0..Width
                                    /\ (Cardinality(S) = 0 <=> S = {})
<1>1. Episode!SelectionAssumption /\ Episode!EpisodeAssumption
  BY EpisodeAssumed
<1>2. Controlled \in SUBSET Nat /\ IsFiniteSet(Controlled) /\ Unknown \notin Nat
      /\ EpisodeScale \in Nat \ {0}
  BY <1>1 DEF Episode!SelectionAssumption, Episode!IsFiniteSet, IsFiniteSet
<1>3. Minimum!SelectionAssumption
  BY <1>1 DEF Episode!SelectionAssumption, Minimum!SelectionAssumption, Episode!IsFiniteSet,
              Minimum!IsFiniteSet
<1>4. Width >= 2 /\ EpisodeTarget \in 1..EpisodeScale /\ EpisodeWindow \in Nat \ {0}
      /\ EpisodeTrials \in Nat
  BY <1>1 DEF Episode!EpisodeAssumption, Episode!Cardinality, Cardinality, Width
<1>5. Width \in Nat
  BY <1>2, FS_CardinalityType DEF Width
<1>6. ASSUME NEW S \in SUBSET Controlled
      PROVE  IsFiniteSet(S) /\ Cardinality(S) \in 0..Width /\ (Cardinality(S) = 0 <=> S = {})
  <2>1. IsFiniteSet(S) /\ Cardinality(S) <= Width
    BY <1>2, FS_Subset DEF Width
  <2>2. Cardinality(S) \in Nat /\ (Cardinality(S) = 0 <=> S = {})
    BY <2>1, FS_CardinalityType, FS_EmptySet
  <2> QED
    BY <1>5, <2>1, <2>2
<1>7. EpisodeTarget \in Nat
  BY <1>2, <1>4
<1> QED
  BY <1>2, <1>3, <1>4, <1>5, <1>6, <1>7

\* The plan of a trial selects providers of the episode, and it says so.
LEMMA PlanIsSound ==
    ASSUME NEW q, \A S \in Episode!Subsets(Controlled) : q[S] \in Nat, NEW d,
           d = Episode!Select(Controlled, q, EpisodeTarget, "require-complete", FALSE, 12)
    PROVE  d.subset \in SUBSET Controlled /\ (d.status = "SELECTED" <=> d.subset # {})
<1>1. d = Minimum!Select(Controlled, q, EpisodeTarget, "require-complete", FALSE, 12)
  BY SameSelection
<1>2. Minimum!IsTable(Controlled, q)
  BY DEF Minimum!IsTable, Minimum!Subsets, Episode!Subsets
<1>3. "require-complete" \in Minimum!Modes /\ FALSE \in BOOLEAN /\ 12 \in Nat
      /\ Controlled \in SUBSET Controlled
  BY DEF Minimum!Modes
<1>4. Minimum!Sound(Controlled, q, EpisodeTarget, 12, d)
  <2>1. Minimum!SelectionAssumption /\ EpisodeTarget \in Nat
    BY ControlledIs
  <2>2. Minimum!Sound(Controlled, q, EpisodeTarget, 12,
                      Minimum!Select(Controlled, q, EpisodeTarget, "require-complete", FALSE, 12))
    BY <1>2, <1>3, <2>1, Minimum!SelectIsSound
  <2> QED
    BY <1>1, <2>2
<1> QED
  BY <1>4 DEF Minimum!Sound

\* The order of the providers has every one of them.
LEMMA OrderIs ==
    /\ DOMAIN Episode!Order = 1..Width /\ Len(Episode!Order) = Width
    /\ \A i \in 1..Width : Episode!Order[i] \in Controlled
<1>1. Minimum!SubsetKey[Controlled] \in [1..Minimum!Cardinality(Controlled) -> Nat]
      /\ \A i \in 1..Minimum!Cardinality(Controlled) : Minimum!SubsetKey[Controlled][i] \in Controlled
  BY ControlledIs, Minimum!KeyType
<1>2. Minimum!Cardinality(Controlled) = Width
  BY DEF Minimum!Cardinality, Cardinality, Width
<1>3. Episode!Order = Minimum!SubsetKey[Controlled]
  BY SameKey DEF Episode!Order
<1> DEFINE o == Episode!Order
<1>4. o \in [1..Width -> Nat] /\ \A i \in 1..Width : o[i] \in Controlled
  BY <1>1, <1>2, <1>3
<1> HIDE DEF o
<1>5. o \in Seq(Nat) /\ Len(o) = Width
  BY <1>4, ControlledIs
<1> QED
  BY <1>4, <1>5 DEF o

LEMMA LeastOf ==
    ASSUME NEW S \in SUBSET Nat, S # {}
    PROVE  \E n \in S : \A m \in S : n <= m
  BY ControlledIs, Minimum!LeastElement

\* A trial whose probes all show something.
IsWhole(obs) ==
    \A p \in Controlled : /\ obs[p].observed = TRUE /\ obs[p].accepted \in BOOLEAN
                          /\ obs[p].offset \in Nat

IsElapsed(obs, e, m) ==
    /\ e = [n \in 0..m |-> e[n]] /\ e[0] = 0
    /\ \A n \in 1..m : e[n] = e[n - 1] + obs[Episode!Order[n]].offset

LEMMA ElapsedExists ==
    ASSUME NEW obs, NEW L \in Nat
    PROVE  \E e : IsElapsed(obs, e, L)
<1> DEFINE Missed == {m \in Nat : m <= L /\ ~ \E e : IsElapsed(obs, e, m)}
<1>1. SUFFICES ASSUME Missed # {} PROVE FALSE
  OBVIOUS
<1>2. PICK m \in Missed : \A k \in Missed : m <= k
  <2>1. Missed \in SUBSET Nat
    OBVIOUS
  <2> HIDE DEF Missed
  <2> QED
    BY <1>1, <2>1, LeastOf
<1>3. m \in Nat /\ m <= L /\ ~ \E e : IsElapsed(obs, e, m)
  BY <1>2
<1>4. CASE m = 0
  <2> DEFINE e == [n \in 0..0 |-> 0]
  <2>1. IsElapsed(obs, e, 0)
    BY DEF IsElapsed
  <2> QED
    BY <1>3, <1>4, <2>1
<1>5. CASE m # 0
  <2>1. m - 1 \in Nat /\ m - 1 <= L /\ m - 1 \notin Missed
    <3>1. m - 1 \in Nat /\ m - 1 <= L /\ ~(m <= m - 1)
      BY <1>3, <1>5
    <3> HIDE DEF Missed
    <3> QED
      BY <1>2, <3>1
  <2>2. PICK e : IsElapsed(obs, e, m - 1)
    BY <2>1
  <2> DEFINE h == [n \in 0..m |-> IF n = m THEN e[m - 1] + obs[Episode!Order[m]].offset
                                  ELSE e[n]]
  <2>3. h = [n \in 0..m |-> h[n]] /\ h[0] = 0
    <3>1. 0 \in 0..m /\ 0 # m
      BY <1>3, <1>5
    <3> QED
      BY <2>2, <3>1 DEF IsElapsed
  <2>4. \A n \in 1..m : h[n] = h[n - 1] + obs[Episode!Order[n]].offset
    <3> TAKE n \in 1..m
    <3>1. n \in 0..m /\ n - 1 \in 0..m /\ n - 1 # m
      BY <1>3
    <3>2. h[n - 1] = e[n - 1]
      BY <3>1
    <3>3. CASE n = m
      BY <3>1, <3>2, <3>3
    <3>4. CASE n # m
      <4>1. n \in 1..(m - 1) /\ h[n] = e[n]
        BY <1>3, <3>1, <3>4
      <4> QED
        BY <2>2, <3>2, <4>1 DEF IsElapsed
    <3> QED
      BY <3>3, <3>4
  <2> HIDE DEF h
  <2>5. IsElapsed(obs, h, m)
    BY <2>3, <2>4 DEF IsElapsed
  <2> QED
    BY <1>3, <2>5
<1> QED
  BY <1>4, <1>5

LEMMA ElapsedIs ==
    ASSUME NEW obs
    PROVE  IsElapsed(obs, Episode!Elapsed(obs), Width)
<1> DEFINE L == Width
           F(f) == [n \in 0..L |-> IF n = 0 THEN 0
                                   ELSE f[n - 1] + obs[Episode!Order[n]].offset]
           elapsed == CHOOSE f : f = F(f)
<1>0. L \in Nat /\ Len(Episode!Order) = L
  BY ControlledIs, OrderIs
<1>1. Episode!Elapsed(obs) = elapsed
  <2> HIDE DEF L
  <2> QED
    BY <1>0 DEF Episode!Elapsed
<1> HIDE DEF L
<1>2. PICK e : IsElapsed(obs, e, L)
  BY <1>0, ElapsedExists
<1>3. e = F(e)
  <2>1. \A n \in 0..L : e[n] = IF n = 0 THEN 0 ELSE e[n - 1] + obs[Episode!Order[n]].offset
    <3> TAKE n \in 0..L
    <3>1. n # 0 => n \in 1..L
      BY <1>0
    <3> QED
      BY <1>2, <3>1 DEF IsElapsed
  <2> QED
    BY <1>2, <2>1 DEF IsElapsed
<1>4. elapsed = F(elapsed)
  <2> HIDE DEF F
  <2> QED
    BY <1>3
<1> HIDE DEF elapsed
<1>5. IsElapsed(obs, elapsed, L)
  <2>1. elapsed = [n \in 0..L |-> elapsed[n]]
    BY <1>4
  <2>2. elapsed[0] = 0
    BY <1>0, <1>4
  <2>3. ASSUME NEW n \in 1..L
        PROVE  elapsed[n] = elapsed[n - 1] + obs[Episode!Order[n]].offset
    <3>1. n \in 0..L /\ n # 0
      BY <1>0
    <3> QED
      BY <1>4, <3>1
  <2> QED
    BY <2>1, <2>2, <2>3 DEF IsElapsed
<1> QED
  BY <1>1, <1>5 DEF L

\* Time passes: each attempt is within what has elapsed when it ends.
LEMMA ElapsedGrows ==
    ASSUME NEW obs, IsWhole(obs)
    PROVE  /\ \A n \in 0..Width : Episode!Elapsed(obs)[n] \in Nat
           /\ \A n \in 1..Width : obs[Episode!Order[n]].offset <= Episode!Elapsed(obs)[n]
           /\ \A m, n \in 1..Width : m < n =>
                obs[Episode!Order[m]].offset + obs[Episode!Order[n]].offset
                  <= Episode!Elapsed(obs)[n]
<1> DEFINE e == Episode!Elapsed(obs)
           took(n) == obs[Episode!Order[n]].offset
           Below2(n) == e[n] \in Nat /\ \A m \in 1..n : took(m) <= e[n]
           Odd == {n \in Nat : n <= Width /\ ~ Below2(n)}
<1>1. e[0] = 0 /\ \A n \in 1..Width : e[n] = e[n - 1] + took(n)
  BY ElapsedIs DEF IsElapsed
<1>2. \A n \in 1..Width : took(n) \in Nat
  BY OrderIs DEF IsWhole
<1>3. Width \in Nat
  BY ControlledIs
<1> HIDE DEF e, took
<1>4. Odd = {}
  <2> SUFFICES ASSUME Odd # {} PROVE FALSE
    OBVIOUS
  <2>1. PICK n \in Odd : \A k \in Odd : n <= k
    <3>1. Odd \in SUBSET Nat
      OBVIOUS
    <3> HIDE DEF Odd
    <3> QED
      BY <3>1, LeastOf
  <2>2. n \in Nat /\ n <= Width /\ ~ Below2(n)
    BY <2>1
  <2>3. n # 0
    BY <1>1, <2>2
  <2>4. n - 1 \in Nat /\ n - 1 <= Width /\ n \in 1..Width /\ ~(n <= n - 1)
    BY <1>3, <2>2, <2>3
  <2>5. Below2(n - 1)
    <3>1. n - 1 \notin Odd
      <4> HIDE DEF Odd
      <4> QED
        BY <2>1, <2>4
    <3> QED
      BY <2>4, <3>1
  <2>6. e[n] = e[n - 1] + took(n) /\ took(n) \in Nat /\ e[n - 1] \in Nat
    BY <1>1, <1>2, <2>4, <2>5
  <2>7. ASSUME NEW m \in 1..n PROVE took(m) <= e[n]
    <3>1. CASE m = n
      BY <2>6, <3>1
    <3>2. CASE m # n
      <4>1. m \in 1..(n - 1) /\ m \in 1..Width
        BY <1>3, <2>4, <3>2
      <4>2. took(m) <= e[n - 1] /\ took(m) \in Nat
        BY <1>2, <2>5, <4>1
      <4> QED
        BY <2>6, <4>2
    <3> QED
      BY <3>1, <3>2
  <2>8. Below2(n)
    BY <2>6, <2>7
  <2> QED
    BY <2>2, <2>8
<1>5. \A n \in 0..Width : Below2(n)
  BY <1>3, <1>4
<1>6. \A n \in 0..Width : e[n] \in Nat
  BY <1>5
<1>7. ASSUME NEW n \in 1..Width PROVE took(n) <= e[n]
  BY <1>3, <1>5
<1>8. ASSUME NEW m \in 1..Width, NEW n \in 1..Width, m < n PROVE took(m) + took(n) <= e[n]
  <2>1. n - 1 \in 0..Width /\ m \in 1..(n - 1)
    BY <1>3, <1>8
  <2>2. took(m) <= e[n - 1] /\ e[n - 1] \in Nat
    BY <1>5, <2>1
  <2> QED
    BY <1>1, <1>2, <2>2
<1> QED
  BY <1>6, <1>7, <1>8 DEF e, took

\* A sequence of attempts that succeeds has called no more than it needed.
LEMMA FailoverIs ==
    ASSUME NEW obs, IsWhole(obs), NEW f, f = Episode!Failover(obs)
    PROVE  /\ f.calls \in 1..Width
           /\ f.satisfied =>
                /\ Episode!WithinDeadline(obs[Episode!Order[f.calls]])
                /\ \A n \in 1..(f.calls - 1) :
                     /\ ~obs[Episode!Order[n]].accepted
                     /\ obs[Episode!Order[n]].offset + obs[Episode!Order[f.calls]].offset
                          <= Episode!Tau
<1> DEFINE o == Episode!Order
           e == Episode!Elapsed(obs)
           stops(n) == \/ ~obs[o[n]].observed
                       \/ obs[o[n]].accepted /\ e[n] <= Episode!Tau
                       \/ e[n] > Episode!Tau
                       \/ n = Len(o)
           first(n) == stops(n) /\ \A m \in 1..(n - 1) : ~stops(m)
           last == CHOOSE n \in DOMAIN o : first(n)
           S == {n \in 1..Width : stops(n)}
<1>1. f = [satisfied |-> obs[o[last]].accepted /\ e[last] <= Episode!Tau, calls |-> last]
  BY DEF Episode!Failover
<1>2. Width \in Nat /\ Width >= 2 /\ DOMAIN o = 1..Width /\ Len(o) = Width
      /\ \A i \in 1..Width : o[i] \in Controlled
  BY ControlledIs, OrderIs
<1>3. /\ \A n \in 0..Width : e[n] \in Nat
      /\ \A n \in 1..Width : obs[o[n]].offset <= e[n]
      /\ \A m, n \in 1..Width : m < n => obs[o[m]].offset + obs[o[n]].offset <= e[n]
  BY ElapsedGrows
<1>4. \A n \in 1..Width : obs[o[n]].observed = TRUE /\ obs[o[n]].accepted \in BOOLEAN
                           /\ obs[o[n]].offset \in Nat
  BY <1>2 DEF IsWhole
<1> HIDE DEF o, e
<1>5. \E n \in 1..Width : first(n)
  <2>1. Width \in S /\ S \in SUBSET Nat
    BY <1>2
  <2>2. PICK n \in S : \A m \in S : n <= m
    <3> HIDE DEF S
    <3> QED
      BY <2>1, LeastOf
  <2>3. \A m \in 1..(n - 1) : m \notin S /\ m \in 1..Width
    <3>1. \A m \in 1..(n - 1) : ~(n <= m) /\ m \in 1..Width
      BY <1>2
    <3> HIDE DEF S
    <3> QED
      BY <2>2, <3>1
  <2> QED
    BY <2>2, <2>3
<1>6. last \in 1..Width /\ first(last)
  <2> HIDE DEF first
  <2> QED
    BY <1>2, <1>5
<1> HIDE DEF last
<1>7. f.calls = last /\ (f.satisfied <=> obs[o[last]].accepted /\ e[last] <= Episode!Tau)
  <2> DEFINE v == obs[o[last]].accepted /\ e[last] <= Episode!Tau
  <2>1. f = [satisfied |-> v, calls |-> last]
    BY <1>1
  <2> HIDE DEF v
  <2>2. f.calls = last /\ f.satisfied = v
    BY <2>1
  <2> QED
    BY <2>2 DEF v
<1>8. ASSUME f.satisfied
      PROVE  /\ Episode!WithinDeadline(obs[o[last]])
             /\ \A n \in 1..(last - 1) :
                  /\ ~obs[o[n]].accepted
                  /\ obs[o[n]].offset + obs[o[last]].offset <= Episode!Tau
  <2>1. obs[o[last]].accepted /\ e[last] <= 2 /\ e[last] \in Nat
    BY <1>3, <1>6, <1>7, <1>8 DEF Episode!Tau
  <2>2. Episode!WithinDeadline(obs[o[last]])
    <3>1. obs[o[last]].observed = TRUE /\ obs[o[last]].offset \in Nat
          /\ obs[o[last]].offset <= e[last]
      BY <1>3, <1>4, <1>6
    <3>2. obs[o[last]].offset <= 2
      BY <2>1, <3>1
    <3> QED
      BY <2>1, <3>1, <3>2 DEF Episode!WithinDeadline, Episode!Tau
  <2>3. ASSUME NEW n \in 1..(last - 1)
        PROVE  /\ ~obs[o[n]].accepted
               /\ obs[o[n]].offset + obs[o[last]].offset <= Episode!Tau
    <3>1. n \in 1..Width /\ n < last /\ ~stops(n)
      BY <1>2, <1>6
    <3>2. ~obs[o[n]].accepted
      <4>1. ~(obs[o[n]].accepted /\ e[n] <= Episode!Tau) /\ ~(e[n] > Episode!Tau)
        BY <3>1
      <4>2. e[n] \in Nat /\ Episode!Tau = 2
        BY <1>2, <1>3, <3>1 DEF Episode!Tau
      <4>3. e[n] <= Episode!Tau
        BY <4>1, <4>2
      <4> QED
        BY <4>1, <4>3
    <3>3. obs[o[n]].offset + obs[o[last]].offset <= e[last]
      BY <1>3, <1>6, <3>1
    <3>4. obs[o[n]].offset \in Nat /\ obs[o[last]].offset \in Nat
      BY <1>4, <1>6, <3>1
    <3>5. obs[o[n]].offset + obs[o[last]].offset <= 2
      BY <2>1, <3>3, <3>4
    <3> QED
      BY <3>2, <3>5 DEF Episode!Tau
  <2> QED
    BY <2>2, <2>3
<1> QED
  BY <1>6, <1>7, <1>8 DEF o

(***************************************************************************)
(* What the books of an episode say of its trials.                         *)
(***************************************************************************)
Reached(obs) == \E p \in Controlled : Episode!WithinDeadline(obs[p])

\* A policy's outcome on a trial is one that its calls could have had.
Honest(k, o, obs) ==
    /\ o.satisfied => Reached(obs)
    /\ o.calls \in 0..Width
    /\ o.status = "SELECTED" <=> o.calls > 0
    /\ k = "all-race" => o.calls = Width /\ (o.satisfied <=> Reached(obs))
    /\ k = "failover" /\ o.satisfied =>
         /\ Episode!WithinDeadline(obs[Episode!Order[o.calls]])
         /\ \A n \in 1..(o.calls - 1) :
              /\ ~obs[Episode!Order[n]].accepted
              /\ obs[Episode!Order[n]].offset + obs[Episode!Order[o.calls]].offset
                   <= Episode!Tau

Told(t, S) == Episode!SubsetTarget(revealed[t].observations, S)

Remembered ==
    /\ Sequential(revealed)
    /\ \A t \in DOMAIN revealed :
         /\ revealed[t].complete <=> \A p \in Controlled : revealed[t].observations[p].observed
         /\ \A p \in Controlled :
              revealed[t].observations[p] \in Episode!Showing(revealed[t].sampled[p])

\* There is a row for every complete trial, in their order.
RowsInOrder ==
    /\ Sequential(episodeRows)
    /\ \A i \in DOMAIN episodeRows : episodeRows[i].trial \in Episode!CompleteTrials
    /\ \A i, j \in DOMAIN episodeRows : i < j => episodeRows[i].trial < episodeRows[j].trial
    /\ \A t \in Episode!CompleteTrials : \E i \in DOMAIN episodeRows : episodeRows[i].trial = t

\* What a row and a prediction know is of the trials before.
RowsKnow ==
    /\ Sequential(scored) /\ Len(scored) = Len(episodeRows)
    /\ \A i \in DOMAIN episodeRows :
         /\ scored[i].trial = episodeRows[i].trial
         /\ episodeRows[i].context
              = Episode!Context(SubSeq(revealed, 1, episodeRows[i].trial - 1))
         /\ \A S \in Episode!Subsets(Controlled) :
              scored[i].q[S]
                = Episode!Estimate([j \in 1..(i - 1) |-> Told(episodeRows[j].trial, S)])

SubsetsKnow ==
    \A S \in Episode!Subsets(Controlled) :
      subsetHistory[S] = [j \in 1..Len(episodeRows) |-> Told(episodeRows[j].trial, S)]

DecidedHonestly ==
    \A k \in Episode!Policies :
      /\ Sequential(decided[k]) /\ Len(decided[k]) = Len(episodeRows)
      /\ \A i \in DOMAIN episodeRows :
           /\ decided[k][i].trial = episodeRows[i].trial
           /\ Honest(k, decided[k][i], revealed[episodeRows[i].trial].observations)

BooksInv == Remembered /\ RowsInOrder /\ RowsKnow /\ SubsetsKnow /\ DecidedHonestly

\* A trial shows what was injected for it, and is decided from what was known
\* when it began.
TrialInv ==
    /\ injected \in [Controlled -> Episode!Behaviours]
    /\ sampled \in [Controlled -> Episode!Behaviours]
    /\ configured \in SUBSET Controlled /\ \A p \in configured : injected[p] = sampled[p]
    /\ DOMAIN shown \subseteq Controlled
    /\ \A p \in DOMAIN shown : shown[p] \in Episode!Showing(injected[p])
    /\ episodePhase = "idle" => configured = {}
    /\ episodePhase # "probing" => DOMAIN shown = {}
    /\ episodePhase = "probing" => configured = Controlled
    /\ episodePhase \in {"injecting", "probing"} =>
         prepared = [context |-> Episode!Context(revealed), q |-> Episode!Estimates,
                     plan |-> Episode!Select(Controlled, Episode!Estimates, EpisodeTarget,
                                             "require-complete", FALSE, 12)]

EpisodeInv == TrialInv /\ BooksInv

LEMMA ScoreType ==
    ASSUME NEW h \in Seq({0, 1})
    PROVE  Episode!Estimate(h) \in Nat
<1> DEFINE W == EpisodeWindow
           first == IF Len(h) > W THEN Len(h) - W + 1 ELSE 1
           recent == SubSeq(h, first, Len(h))
           hits == Cardinality({i \in DOMAIN recent : recent[i] = 1})
<1>0. W \in Nat \ {0} /\ EpisodeScale \in Nat \ {0}
  BY ControlledIs
<1>1. Len(h) \in Nat /\ \A i \in 1..Len(h) : h[i] \in {0, 1}
  BY ElementOfSeq, LenProperties
<1>2. first \in Nat \ {0}
  BY <1>0, <1>1
<1> HIDE DEF first
<1>3. recent \in Seq({0, 1}) /\ Len(recent) \in Nat
  <2>1. first \in Int /\ Len(h) \in Int /\ \A i \in first..Len(h) : h[i] \in {0, 1}
    BY <1>1, <1>2
  <2>2. recent \in Seq({0, 1})
    BY <2>1, SubSeqProperties
  <2> QED
    BY <2>2, LenProperties
<1> HIDE DEF recent
<1>4. DOMAIN recent = 1..Len(recent)
  BY <1>3, LenProperties
<1>5. hits \in Nat
  <2>1. {i \in DOMAIN recent : recent[i] = 1} \in SUBSET (1..Len(recent))
    BY <1>4
  <2> QED
    BY <1>3, <2>1, PositionsFinite
<1>6. Episode!Estimate(h) = ((hits + 1) * EpisodeScale) \div (Len(recent) + 2)
  BY DEF Episode!Estimate, Episode!LastOf, first, recent, Episode!Cardinality, Cardinality
<1> HIDE DEF hits
<1>7. (hits + 1) * EpisodeScale \in Nat /\ Len(recent) + 2 \in Nat \ {0}
  BY <1>0, <1>3, <1>5
<1>8. \A x \in Nat, y \in Nat \ {0} : x \div y \in Nat
  OBVIOUS
<1> QED
  BY <1>6, <1>7, <1>8

LEMMA PrefixIs ==
    ASSUME NEW s, Sequential(s), NEW k \in 0..Len(s)
    PROVE  SubSeq(s, 1, k) = [i \in 1..k |-> s[i]]
<1> DEFINE T == {s[i] : i \in DOMAIN s}
           t == SubSeq(s, 1, k)
<1>1. s \in Seq(T) /\ Len(s) \in Nat
  BY SequentialIs DEF Sequential
<1>2. \A i \in 1..k : s[i] \in T
  BY <1>1, SequentialIs
<1> HIDE DEF T
<1>3. /\ t \in Seq(T) /\ Len(t) = k /\ \A i \in 1..k : t[i] = s[i]
  BY <1>1, <1>2
<1>4. DOMAIN t = 1..k /\ t = [i \in DOMAIN t |-> t[i]]
  <2> HIDE DEF t
  <2> QED
    BY <1>3, LenProperties
<1> HIDE DEF t
<1>5. t = [i \in 1..k |-> s[i]]
  BY <1>3, <1>4
<1> QED
  BY <1>5 DEF t

\* r[1] to r[m] are the members of I, in their order.
Enumerates(r, m, n, I) ==
    /\ \A i \in 1..m : r[i] \in 1..n
    /\ \A i, j \in 1..m : i < j => r[i] < r[j]
    /\ I = {r[i] : i \in 1..m}

\* An increasing enumeration of a set of positions is its order.
LEMMA IncreasingNth ==
    ASSUME NEW n \in Nat, NEW m \in Nat, NEW r, NEW I, Enumerates(r, m, n, I)
    PROVE  Cardinality(I) = m /\ \A j \in 1..m : NthOf(I, j) = r[j]
<1> USE DEF Enumerates
<1>1. ASSUME NEW k \in 0..m
      PROVE  Cardinality({r[i] : i \in 1..k}) = k
  <2> DEFINE K == {r[i] : i \in 1..k}
             f == [i \in 1..k |-> r[i]]
  <2>1. \A i, j \in 1..k : r[i] = r[j] => i = j
    <3> SUFFICES ASSUME NEW i \in 1..k, NEW j \in 1..k, r[i] = r[j] PROVE i = j
      OBVIOUS
    <3>1. i \in 1..m /\ j \in 1..m /\ r[i] \in Nat /\ r[j] \in Nat
      OBVIOUS
    <3>2. (i < j => r[i] < r[j]) /\ (j < i => r[j] < r[i])
      BY <3>1
    <3> QED
      BY <3>1, <3>2
  <2>2. f \in Bijection(1..k, K)
    <3>1. f \in [1..k -> K]
      OBVIOUS
    <3>2. \A i, j \in 1..k : f[i] = f[j] => i = j
      BY <2>1
    <3>3. \A x \in K : \E i \in 1..k : f[i] = x
      OBVIOUS
    <3> HIDE DEF f, K
    <3> QED
      BY <3>1, <3>2, <3>3 DEF Bijection, Injection, Surjection, IsInjective
  <2>3. IsFiniteSet(1..k) /\ Cardinality(1..k) = k
    <3>1. k \in Int /\ 1 \in Int
      OBVIOUS
    <3> QED
      BY <3>1, FS_Interval
  <2> HIDE DEF f, K
  <2>4. Cardinality(K) = k
    BY <2>2, <2>3, FS_Bijection DEF ExistsBijection
  <2> QED
    BY <2>4 DEF K
<1>2. Cardinality(I) = m
  BY <1>1
<1>3. ASSUME NEW j \in 1..m PROVE NthOf(I, j) = r[j]
  <2>1. I \cap 1..r[j] = {r[i] : i \in 1..j}
    <3>1. ASSUME NEW i \in 1..m PROVE r[i] \in 1..r[j] <=> i <= j
      <4>1. r[i] \in Nat /\ r[j] \in Nat /\ r[i] >= 1
        OBVIOUS
      <4>2. (i < j => r[i] < r[j]) /\ (j < i => r[j] < r[i])
        OBVIOUS
      <4> QED
        BY <4>1, <4>2
    <3>2. ASSUME NEW x \in I, x \in 1..r[j] PROVE x \in {r[i] : i \in 1..j}
      <4>1. PICK i \in 1..m : x = r[i]
        OBVIOUS
      <4>2. i \in 1..j
        BY <3>1, <3>2, <4>1
      <4> QED
        BY <4>1, <4>2
    <3>3. ASSUME NEW i \in 1..j PROVE r[i] \in I /\ r[i] \in 1..r[j]
      <4>1. i \in 1..m /\ i <= j
        OBVIOUS
      <4> QED
        BY <3>1, <4>1
    <3> QED
      BY <3>2, <3>3
  <2>2. RankIn(I, r[j]) = j
    <3>1. j \in 0..m
      OBVIOUS
    <3> QED
      BY <1>1, <2>1, <3>1 DEF RankIn
  <2>3. I \in SUBSET (1..n) /\ r[j] \in I
    OBVIOUS
  <2>4. NthOf(I, RankIn(I, r[j])) = r[j]
    <3>1. \A i \in I : NthOf(I, RankIn(I, i)) = i
      BY ONLY <2>3, n \in Nat, NthIs
    <3> DEFINE x == r[j]
    <3>2. x \in I
      BY <2>3
    <3> HIDE DEF x
    <3>3. NthOf(I, RankIn(I, x)) = x
      BY <3>1, <3>2
    <3> QED
      BY <3>3 DEF x
  <2> QED
    BY <2>2, <2>4
<1> QED
  BY <1>2, <1>3

LEMMA TargetIs ==
    ASSUME NEW obs, NEW S \in SUBSET Controlled
    PROVE  /\ Episode!SubsetTarget(obs, S) \in {0, 1}
           /\ Episode!SubsetTarget(obs, S) = 1 => Reached(obs)
           /\ Episode!SubsetTarget(obs, Controlled) = 1 <=> Reached(obs)
<1>1. Episode!SubsetTarget(obs, S) = 1 <=> \E p \in S : Episode!WithinDeadline(obs[p])
  BY DEF Episode!SubsetTarget
<1>2. Episode!SubsetTarget(obs, Controlled) = 1 <=> \E p \in Controlled : Episode!WithinDeadline(obs[p])
  BY DEF Episode!SubsetTarget
<1>3. Episode!SubsetTarget(obs, S) \in {0, 1}
  BY DEF Episode!SubsetTarget
<1> QED
  BY <1>1, <1>2, <1>3 DEF Reached

\* The outcome of a race of S.
LEMMA RaceIsHonest ==
    ASSUME NEW obs, NEW S \in SUBSET Controlled, NEW status, status = "SELECTED" <=> S # {},
           NEW k, k # "failover", k = "all-race" => S = Controlled, NEW o,
           o.status = status, o.calls = Cardinality(S),
           o.satisfied = (Episode!SubsetTarget(obs, S) = 1)
    PROVE  Honest(k, o, obs)
<1>1. Cardinality(S) \in 0..Width /\ (Cardinality(S) = 0 <=> S = {})
  BY ControlledIs
<1>2. o.calls \in 0..Width /\ (o.status = "SELECTED" <=> o.calls > 0)
  BY <1>1
<1>3. o.satisfied => Reached(obs)
  BY TargetIs
<1>4. k = "all-race" => o.calls = Width /\ (o.satisfied <=> Reached(obs))
  BY TargetIs DEF Width
<1> QED
  BY <1>2, <1>3, <1>4 DEF Honest

LEMMA FixedIs ==
    ASSUME NEW k \in {"single", "pair", "all-race"}
    PROVE  /\ Episode!Fixed(k) \in SUBSET Controlled /\ Episode!Fixed(k) # {}
           /\ k = "all-race" => Episode!Fixed(k) = Controlled
<1>1. 1 \in 1..Width /\ 2 \in 1..Width /\ Width # 0
  BY ControlledIs
<1>2. Episode!Order[1] \in Controlled /\ Episode!Order[2] \in Controlled
  BY <1>1, OrderIs
<1>3. k = "single" => Episode!Fixed(k) = {Episode!Order[1]}
  BY DEF Episode!Fixed
<1>4. k = "pair" => Episode!Fixed(k) = {Episode!Order[1], Episode!Order[2]}
  BY DEF Episode!Fixed
<1>5. k = "all-race" => Episode!Fixed(k) = Controlled
  BY DEF Episode!Fixed
<1> QED
  BY <1>2, <1>3, <1>4, <1>5

LEMMA DecisionIs ==
    ASSUME NEW obs, IsWhole(obs), NEW k \in Episode!Policies,
           prepared.plan.subset \in SUBSET Controlled,
           prepared.plan.status = "SELECTED" <=> prepared.plan.subset # {},
           NEW o, o = Episode!DecisionOf(k, obs)
    PROVE  o.trial = Len(revealed) + 1 /\ Honest(k, o, obs)
<1> DEFINE outcome(S, status) ==
             [trial |-> Len(revealed) + 1, status |-> status, calls |-> Cardinality(S),
              satisfied |-> Episode!SubsetTarget(obs, S) = 1]
<1>0. \A S : Episode!Cardinality(S) = Cardinality(S)
  BY DEF Episode!Cardinality, Cardinality
<1>1. CASE k = "adaptive"
  <2> DEFINE S == prepared.plan.subset
             status == prepared.plan.status
             v == Episode!SubsetTarget(obs, S) = 1
  <2>1. o = [trial |-> Len(revealed) + 1, status |-> status, calls |-> Cardinality(S),
             satisfied |-> v]
    BY <1>0, <1>1 DEF Episode!DecisionOf
  <2>2. S \in SUBSET Controlled /\ (status = "SELECTED" <=> S # {})
    OBVIOUS
  <2>3. k # "failover" /\ k # "all-race"
    BY <1>1
  <2> HIDE DEF S, status, v
  <2>4. o.trial = Len(revealed) + 1 /\ o.status = status /\ o.calls = Cardinality(S)
        /\ o.satisfied = v
    BY <2>1
  <2>5. o.satisfied = (Episode!SubsetTarget(obs, S) = 1)
    BY <2>4 DEF v
  <2> QED
    BY <2>2, <2>3, <2>4, <2>5, RaceIsHonest
<1>2. CASE k \in {"single", "pair", "all-race"}
  <2> DEFINE S == Episode!Fixed(k)
             v == Episode!SubsetTarget(obs, S) = 1
  <2>1. o = [trial |-> Len(revealed) + 1, status |-> "SELECTED", calls |-> Cardinality(S),
             satisfied |-> v]
    BY <1>0, <1>2 DEF Episode!DecisionOf
  <2>2. S \in SUBSET Controlled /\ S # {} /\ k # "failover" /\ (k = "all-race" => S = Controlled)
    BY <1>2, FixedIs
  <2> HIDE DEF S, v
  <2>4. o.trial = Len(revealed) + 1 /\ o.status = "SELECTED" /\ o.calls = Cardinality(S)
        /\ o.satisfied = v
    BY <2>1
  <2>5. o.satisfied = (Episode!SubsetTarget(obs, S) = 1)
    BY <2>4 DEF v
  <2> QED
    BY <2>2, <2>4, <2>5, RaceIsHonest
<1>3. CASE k = "failover"
  <2> DEFINE f == Episode!Failover(obs)
             c == f.calls
             v == f.satisfied
             u == [trial |-> Len(revealed) + 1, status |-> "SELECTED",
                   calls |-> Cardinality({}),
                   satisfied |-> Episode!SubsetTarget(obs, {}) = 1]
  <2>1. o = [u EXCEPT !.calls = c, !.satisfied = v]
    BY <1>0, <1>3 DEF Episode!DecisionOf
  <2>2. u.trial = Len(revealed) + 1 /\ u.status = "SELECTED"
        /\ DOMAIN u = {"trial", "status", "calls", "satisfied"}
    OBVIOUS
  <2>3. /\ c \in 1..Width
        /\ v => /\ Episode!WithinDeadline(obs[Episode!Order[c]])
                /\ \A n \in 1..(c - 1) :
                     /\ ~obs[Episode!Order[n]].accepted
                     /\ obs[Episode!Order[n]].offset + obs[Episode!Order[c]].offset
                          <= Episode!Tau
    <3> HIDE DEF f
    <3>1. f = Episode!Failover(obs)
      BY DEF f
    <3> QED
      BY <3>1, FailoverIs
  <2> HIDE DEF f, c, v, u
  <2>4. o.trial = Len(revealed) + 1 /\ o.status = "SELECTED" /\ o.calls = c /\ o.satisfied = v
    BY <2>1, <2>2
  <2>5. v => Reached(obs)
    BY <2>3, OrderIs DEF Reached
  <2>6. c > 0 /\ c \in 0..Width /\ k # "all-race"
    BY <1>3, <2>3, ControlledIs
  <2> QED
    BY <2>3, <2>4, <2>5, <2>6 DEF Honest
<1> QED
  BY <1>1, <1>2, <1>3 DEF Episode!Policies

(***************************************************************************)
(* The steps of a trial.                                                   *)
(***************************************************************************)
LEMMA BooksUntouched ==
    ASSUME BooksInv, UNCHANGED Episode!books
    PROVE  BooksInv'
<1>1. /\ revealed' = revealed /\ subsetHistory' = subsetHistory /\ episodeRows' = episodeRows
      /\ scored' = scored /\ decided' = decided
  BY DEF Episode!books
<1>2. Episode!CompleteTrials' = Episode!CompleteTrials
  BY <1>1 DEF Episode!CompleteTrials
<1>3. Remembered'
  BY <1>1 DEF BooksInv, Remembered
<1>4. RowsInOrder'
  BY <1>1, <1>2 DEF BooksInv, RowsInOrder
<1>5. RowsKnow'
  BY <1>1 DEF BooksInv, RowsKnow, Told
<1>6. SubsetsKnow'
  BY <1>1 DEF BooksInv, SubsetsKnow, Told
<1>7. DecidedHonestly'
  BY <1>1 DEF BooksInv, DecidedHonestly
<1> QED
  BY <1>3, <1>4, <1>5, <1>6, <1>7 DEF BooksInv

LEMMA ConsideredKept ==
    ASSUME UNCHANGED Episode!books
    PROVE  Episode!Estimates' = Episode!Estimates /\ revealed' = revealed
  BY DEF Episode!books, Episode!Estimates

LEMMA PrepareKeeps ==
    ASSUME EpisodeInv, Episode!Prepare
    PROVE  EpisodeInv'
<1>1. /\ episodePhase = "idle" /\ episodePhase' = "injecting"
      /\ sampled' \in [Controlled -> Episode!Behaviours]
      /\ injected' = injected /\ configured' = configured /\ shown' = shown
      /\ UNCHANGED Episode!books
      /\ prepared' = [context |-> Episode!Context(revealed), q |-> Episode!Estimates,
                      plan |-> Episode!Select(Controlled, Episode!Estimates, EpisodeTarget,
                                              "require-complete", FALSE, 12)]
  BY DEF Episode!Prepare
<1>2. BooksInv'
  BY <1>1, BooksUntouched DEF EpisodeInv
<1>3. Episode!Estimates' = Episode!Estimates /\ revealed' = revealed
  BY <1>1, ConsideredKept
<1>4. TrialInv'
  <2>1. configured = {} /\ DOMAIN shown = {}
    BY <1>1 DEF EpisodeInv, TrialInv
  <2> QED
    BY <1>1, <1>3, <2>1 DEF EpisodeInv, TrialInv
<1> QED
  BY <1>2, <1>4 DEF EpisodeInv

LEMMA ApplyKeeps ==
    ASSUME EpisodeInv, NEW p \in Controlled, Episode!Apply(p)
    PROVE  EpisodeInv'
<1>1. /\ episodePhase = "injecting" /\ injected' = [injected EXCEPT ![p] = sampled[p]]
      /\ configured' = configured \cup {p}
      /\ episodePhase' = IF configured' = Controlled THEN "probing" ELSE episodePhase
      /\ sampled' = sampled /\ shown' = shown /\ prepared' = prepared
      /\ UNCHANGED Episode!books
  BY DEF Episode!Apply
<1>2. BooksInv'
  BY <1>1, BooksUntouched DEF EpisodeInv
<1>3. Episode!Estimates' = Episode!Estimates /\ revealed' = revealed
  BY <1>1, ConsideredKept
<1>4. TrialInv'
  <2>0. TrialInv
    BY DEF EpisodeInv
  <2>1. /\ injected' \in [Controlled -> Episode!Behaviours]
        /\ sampled' \in [Controlled -> Episode!Behaviours]
        /\ configured' \in SUBSET Controlled
    BY <1>1, <2>0 DEF TrialInv
  <2>2. \A r \in configured' : injected'[r] = sampled'[r]
    BY <1>1, <2>0 DEF TrialInv
  <2>3. DOMAIN shown' = {}
    BY <1>1, <2>0 DEF TrialInv
  <2>4. /\ episodePhase' # "idle" /\ (episodePhase' = "probing" => configured' = Controlled)
    BY <1>1
  <2>5. prepared' = [context |-> Episode!Context(revealed'), q |-> Episode!Estimates',
                     plan |-> Episode!Select(Controlled, Episode!Estimates', EpisodeTarget,
                                             "require-complete", FALSE, 12)]
    BY <1>1, <1>3, <2>0 DEF TrialInv
  <2> QED
    BY <2>1, <2>2, <2>3, <2>4, <2>5 DEF TrialInv
<1> QED
  BY <1>2, <1>4 DEF EpisodeInv

LEMMA ApplyFailsKeeps ==
    ASSUME EpisodeInv, NEW p \in Controlled, Episode!ApplyFails(p)
    PROVE  EpisodeInv'
<1>1. /\ episodePhase = "injecting" /\ episodePhase' = "raised"
      /\ injected' = injected /\ sampled' = sampled /\ configured' = configured
      /\ shown' = shown /\ prepared' = prepared /\ UNCHANGED Episode!books
  BY DEF Episode!ApplyFails
<1>2. BooksInv'
  BY <1>1, BooksUntouched DEF EpisodeInv
<1>3. TrialInv'
  BY <1>1 DEF EpisodeInv, TrialInv
<1> QED
  BY <1>2, <1>3 DEF EpisodeInv

LEMMA ObserveKeeps ==
    ASSUME EpisodeInv, NEW p \in Controlled, Episode!Observe(p)
    PROVE  EpisodeInv'
<1>1. PICK o \in Episode!Showing(injected[p]) :
        shown' = [r \in DOMAIN shown \cup {p} |-> IF r = p THEN o ELSE shown[r]]
  BY DEF Episode!Observe
<1>2. /\ episodePhase = "probing" /\ episodePhase' = episodePhase
      /\ injected' = injected /\ sampled' = sampled /\ configured' = configured
      /\ prepared' = prepared /\ UNCHANGED Episode!books
  BY DEF Episode!Observe, Episode!Probing
<1>3. BooksInv'
  BY <1>2, BooksUntouched DEF EpisodeInv
<1>4. Episode!Estimates' = Episode!Estimates /\ revealed' = revealed
  BY <1>2, ConsideredKept
<1>5. TrialInv'
  <2>0. TrialInv
    BY DEF EpisodeInv
  <2>1. DOMAIN shown' \subseteq Controlled
        /\ \A r \in DOMAIN shown' : shown'[r] \in Episode!Showing(injected'[r])
    BY <1>1, <1>2, <2>0 DEF TrialInv
  <2>2. prepared' = [context |-> Episode!Context(revealed'), q |-> Episode!Estimates',
                     plan |-> Episode!Select(Controlled, Episode!Estimates', EpisodeTarget,
                                             "require-complete", FALSE, 12)]
    BY <1>2, <1>4, <2>0 DEF TrialInv
  <2> QED
    BY <1>2, <2>0, <2>1, <2>2 DEF TrialInv
<1> QED
  BY <1>3, <1>5 DEF EpisodeInv

\* What was decided before the trial was decided soundly.
LEMMA PreparedSoundly ==
    ASSUME EpisodeInv, episodePhase \in {"injecting", "probing"}
    PROVE  /\ prepared.context = Episode!Context(revealed) /\ prepared.q = Episode!Estimates
           /\ prepared.plan.subset \in SUBSET Controlled
           /\ prepared.plan.status = "SELECTED" <=> prepared.plan.subset # {}
<1> DEFINE q == Episode!Estimates
           d == Episode!Select(Controlled, q, EpisodeTarget, "require-complete", FALSE, 12)
           c == Episode!Context(revealed)
<1>1. prepared = [context |-> c, q |-> q, plan |-> d]
  BY DEF EpisodeInv, TrialInv
<1>2. \A S \in Episode!Subsets(Controlled) : q[S] \in Nat
  <2> TAKE S \in Episode!Subsets(Controlled)
  <2>1. q[S] = Episode!Estimate(subsetHistory[S])
    BY DEF Episode!Estimates
  <2>2. S \in SUBSET Controlled
    BY DEF Episode!Subsets
  <2>3. Len(episodeRows) \in Nat
    BY SequentialIs DEF EpisodeInv, BooksInv, RowsInOrder
  <2>4. \A t : Told(t, S) \in {0, 1}
    BY <2>2, TargetIs DEF Told
  <2>5. subsetHistory[S] = [j \in 1..Len(episodeRows) |-> Told(episodeRows[j].trial, S)]
    BY DEF EpisodeInv, BooksInv, SubsetsKnow
  <2>6. subsetHistory[S] \in Seq({0, 1})
    <3>1. subsetHistory[S] \in [1..Len(episodeRows) -> {0, 1}]
      BY <2>4, <2>5
    <3> QED
      BY <2>3, <3>1, SeqDef
  <2> QED
    BY <2>1, <2>6, ScoreType
<1> HIDE DEF q
<1>3. d = Episode!Select(Controlled, q, EpisodeTarget, "require-complete", FALSE, 12)
  OBVIOUS
<1> HIDE DEF d, c
<1>4. d.subset \in SUBSET Controlled /\ (d.status = "SELECTED" <=> d.subset # {})
  BY <1>2, <1>3, PlanIsSound
<1>5. prepared.context = c /\ prepared.q = q /\ prepared.plan = d
  BY <1>1
<1> QED
  BY <1>4, <1>5 DEF c, q

\* What probes show is of the types it should be.
LEMMA ShowingIs ==
    ASSUME NEW b, NEW o \in Episode!Showing(b)
    PROVE  o.observed \in BOOLEAN /\ o.accepted \in BOOLEAN /\ o.offset \in Nat
<1>1. o = Episode!Lost \/ o \in [observed : {TRUE}, accepted : {b # "error"},
                                 offset : IF b = "slow" THEN {2, 3} ELSE {1}]
  BY DEF Episode!Showing
<1>2. CASE o = Episode!Lost
  BY <1>2 DEF Episode!Lost
<1>3. CASE o \in [observed : {TRUE}, accepted : {b # "error"},
                  offset : IF b = "slow" THEN {2, 3} ELSE {1}]
  <2>1. o.observed = TRUE /\ o.accepted \in BOOLEAN /\ o.offset \in (IF b = "slow" THEN {2, 3} ELSE {1})
    BY <1>3
  <2>2. o.offset \in Nat
    BY <2>1
  <2> QED
    BY <2>1, <2>2
<1> QED
  BY <1>1, <1>2, <1>3

\* The record of the trial joins those before it.
LEMMA ConcludeRemembers ==
    ASSUME EpisodeInv, Episode!Conclude
    PROVE  LET n == Len(revealed)
               complete == \A p \in Controlled : shown[p].observed
           IN /\ n \in Nat /\ DOMAIN revealed = 1..n /\ DOMAIN revealed' = 1..(n + 1)
              /\ \A t \in 1..n : revealed'[t] = revealed[t]
              /\ revealed'[n + 1].observations = shown
              /\ Remembered'
              /\ \A t \in 1..(n + 1) :
                   SubSeq(revealed', 1, t - 1) = SubSeq(revealed, 1, t - 1)
              /\ SubSeq(revealed, 1, n) = revealed
              /\ complete => IsWhole(shown)
              /\ Episode!CompleteTrials \in SUBSET (1..n)
              /\ complete => Episode!CompleteTrials' = Episode!CompleteTrials \cup {n + 1}
              /\ ~complete => Episode!CompleteTrials' = Episode!CompleteTrials
<1> DEFINE n == Len(revealed)
           complete == \A p \in Controlled : shown[p].observed
           x == [observations |-> shown, complete |-> complete, sampled |-> sampled]
<1>1. revealed' = Append(revealed, x) /\ DOMAIN shown = Controlled /\ episodePhase = "probing"
  BY DEF Episode!Conclude
<1>2. /\ x.observations = shown /\ x.sampled = sampled
      /\ x.complete <=> \A p \in Controlled : x.observations[p].observed
      /\ x.complete <=> complete
  OBVIOUS
<1>3. Remembered /\ Sequential(revealed)
  BY DEF EpisodeInv, BooksInv, Remembered
<1> HIDE DEF x
<1>4. n \in Nat /\ DOMAIN revealed = 1..n
  BY <1>3, SequentialIs
<1>5. /\ Sequential(revealed') /\ Len(revealed') = n + 1 /\ DOMAIN revealed' = 1..(n + 1)
      /\ \A t \in 1..n : revealed'[t] = revealed[t]
      /\ revealed'[n + 1] = x
  BY <1>1, <1>3, SequentialAppend
<1>6. \A p \in Controlled : shown[p] \in Episode!Showing(sampled[p])
  BY <1>1 DEF EpisodeInv, TrialInv
<1>7. Remembered'
  <2>1. ASSUME NEW t \in 1..(n + 1)
        PROVE  /\ revealed'[t].complete
                    <=> \A p \in Controlled : revealed'[t].observations[p].observed
               /\ \A p \in Controlled :
                    revealed'[t].observations[p] \in Episode!Showing(revealed'[t].sampled[p])
    <3>1. CASE t = n + 1
      BY <1>2, <1>5, <1>6, <3>1
    <3>2. CASE t # n + 1
      <4>1. t \in 1..n
        BY <1>4, <3>2
      <4> QED
        BY <1>3, <1>4, <1>5, <4>1 DEF Remembered
    <3> QED
      BY <3>1, <3>2
  <2> QED
    BY <1>5, <2>1 DEF Remembered
<1>8. ASSUME NEW t \in 1..(n + 1)
      PROVE  SubSeq(revealed', 1, t - 1) = SubSeq(revealed, 1, t - 1)
  <2>1. t - 1 \in 0..Len(revealed) /\ t - 1 \in 0..Len(revealed')
    BY <1>4, <1>5
  <2>2. SubSeq(revealed, 1, t - 1) = [i \in 1..(t - 1) |-> revealed[i]]
    BY <1>3, <2>1, PrefixIs
  <2>3. SubSeq(revealed', 1, t - 1) = [i \in 1..(t - 1) |-> revealed'[i]]
    BY <1>5, <2>1, PrefixIs
  <2>4. \A i \in 1..(t - 1) : revealed'[i] = revealed[i]
    BY <1>4, <1>5
  <2> QED
    BY <2>2, <2>3, <2>4
<1>9. SubSeq(revealed, 1, n) = revealed
  <2>1. SubSeq(revealed, 1, n) = [i \in 1..n |-> revealed[i]]
    <3>1. n \in 0..Len(revealed)
      BY <1>4
    <3> QED
      BY <1>3, <3>1, PrefixIs
  <2> QED
    BY <1>3, <2>1, SequentialIs
<1>10. ASSUME complete PROVE IsWhole(shown)
  <2>1. ASSUME NEW p \in Controlled
        PROVE  /\ shown[p].observed = TRUE /\ shown[p].accepted \in BOOLEAN
               /\ shown[p].offset \in Nat
    <3>1. shown[p].observed \in BOOLEAN /\ shown[p].accepted \in BOOLEAN /\ shown[p].offset \in Nat
      BY <1>6, ShowingIs
    <3>2. shown[p].observed
      BY <1>10
    <3> QED
      BY <3>1, <3>2
  <2> QED
    BY <2>1 DEF IsWhole
<1> DEFINE K == Episode!CompleteTrials
<1>11. K = {t \in 1..n : revealed[t].complete}
  BY <1>4 DEF Episode!CompleteTrials
<1>12. Episode!CompleteTrials' = {t \in 1..(n + 1) : revealed'[t].complete}
  BY <1>5 DEF Episode!CompleteTrials
<1>13. K \in SUBSET (1..n)
  BY <1>11
<1> HIDE DEF complete, n
<1>14. /\ complete => Episode!CompleteTrials' = K \cup {n + 1}
       /\ ~complete => Episode!CompleteTrials' = K
  <2>1. \A t \in 1..n : t \in 1..(n + 1) /\ t # n + 1
    BY <1>4
  <2>2. \A t \in 1..(n + 1) : t = n + 1 \/ t \in 1..n
    BY <1>4
  <2>3. n + 1 \in 1..(n + 1)
    BY <1>4
  <2>4. \A t \in 1..n : revealed'[t].complete <=> revealed[t].complete
    BY <1>5
  <2>5. revealed'[n + 1].complete <=> complete
    BY <1>2, <1>5
  <2> QED
    BY <1>11, <1>12, <2>1, <2>2, <2>3, <2>4, <2>5
<1>15. revealed'[n + 1].observations = shown
  BY <1>2, <1>5
<1> QED
  BY <1>4, <1>5, <1>7, <1>8, <1>9, <1>10, <1>13, <1>14, <1>15 DEF complete, n, K

\* A trial with a lost probe changes what is remembered and nothing else.
LEMMA IncompleteKeeps ==
    ASSUME EpisodeInv, Episode!Conclude, ~ \A p \in Controlled : shown[p].observed
    PROVE  BooksInv'
<1> DEFINE n == Len(revealed)
           K == Episode!CompleteTrials
           L == Len(episodeRows)
<1>1. /\ subsetHistory' = subsetHistory /\ episodeRows' = episodeRows /\ scored' = scored
      /\ decided' = decided
  BY DEF Episode!Conclude
<1>2. /\ n \in Nat /\ DOMAIN revealed = 1..n /\ DOMAIN revealed' = 1..(n + 1)
      /\ \A t \in 1..n : revealed'[t] = revealed[t]
      /\ Remembered'
      /\ \A t \in 1..(n + 1) : SubSeq(revealed', 1, t - 1) = SubSeq(revealed, 1, t - 1)
      /\ K \in SUBSET (1..n) /\ Episode!CompleteTrials' = K
  BY ConcludeRemembers
<1>3. RowsInOrder /\ RowsKnow /\ SubsetsKnow /\ DecidedHonestly
  BY DEF EpisodeInv, BooksInv
<1> HIDE DEF K, n
<1>4. L \in Nat /\ DOMAIN episodeRows = 1..L
  BY <1>3, SequentialIs DEF RowsInOrder
<1>5. \A i \in 1..L : episodeRows[i].trial \in 1..n /\ episodeRows[i].trial \in 1..(n + 1)
  <2> TAKE i \in 1..L
  <2>1. episodeRows[i].trial \in K
    BY <1>3, <1>4 DEF RowsInOrder, K
  <2>2. \A t \in 1..n : t \in 1..(n + 1)
    BY <1>2
  <2>3. K \in SUBSET (1..n)
    BY <1>2
  <2> QED
    BY <2>1, <2>2, <2>3
<1>6. \A i \in 1..L, S \in SUBSET Controlled :
        Told(episodeRows[i].trial, S)' = Told(episodeRows[i].trial, S)
  BY <1>1, <1>2, <1>5 DEF Told
<1>7. RowsInOrder'
  BY <1>1, <1>2, <1>3 DEF RowsInOrder, K
<1>8. RowsKnow'
  <2>1. Sequential(scored') /\ Len(scored') = Len(episodeRows')
    BY <1>1, <1>3 DEF RowsKnow
  <2>2. ASSUME NEW i \in 1..L
        PROVE  /\ scored'[i].trial = episodeRows'[i].trial
               /\ episodeRows'[i].context
                    = Episode!Context(SubSeq(revealed', 1, episodeRows'[i].trial - 1))
    BY <1>1, <1>2, <1>3, <1>4, <1>5 DEF RowsKnow
  <2>3. ASSUME NEW i \in 1..L, NEW S \in Episode!Subsets(Controlled)
        PROVE  scored'[i].q[S]
                 = Episode!Estimate([j \in 1..(i - 1) |-> Told(episodeRows[j].trial, S)'])
    <3>1. \A j \in 1..(i - 1) : Told(episodeRows[j].trial, S)' = Told(episodeRows[j].trial, S)
      <4>1. S \in SUBSET Controlled
        BY DEF Episode!Subsets
      <4>2. \A j \in 1..(i - 1) : j \in 1..L
        BY <1>4
      <4> QED
        BY <1>6, <4>1, <4>2
    <3>2. [j \in 1..(i - 1) |-> Told(episodeRows[j].trial, S)']
            = [j \in 1..(i - 1) |-> Told(episodeRows[j].trial, S)]
      BY <3>1
    <3> QED
      BY <1>1, <1>3, <1>4, <3>2 DEF RowsKnow
  <2>4. Episode!Subsets(Controlled)' = Episode!Subsets(Controlled)
    OBVIOUS
  <2> QED
    BY <1>1, <1>4, <2>1, <2>2, <2>3 DEF RowsKnow, Told
<1>9. SubsetsKnow'
  <2>1. ASSUME NEW S \in Episode!Subsets(Controlled)
        PROVE  subsetHistory'[S] = [j \in 1..L |-> Told(episodeRows[j].trial, S)']
    <3>1. S \in SUBSET Controlled
      BY DEF Episode!Subsets
    <3>2. [j \in 1..L |-> Told(episodeRows[j].trial, S)']
            = [j \in 1..L |-> Told(episodeRows[j].trial, S)]
      BY <1>6, <3>1
    <3> QED
      BY <1>1, <1>3, <3>2 DEF SubsetsKnow
  <2> QED
    BY <1>1, <2>1 DEF SubsetsKnow, Told
<1>10. DecidedHonestly'
  <2>1. \A i \in 1..L : revealed'[episodeRows[i].trial] = revealed[episodeRows[i].trial]
    BY <1>2, <1>5
  <2> QED
    BY <1>1, <1>3, <1>4, <2>1 DEF DecidedHonestly
<1> QED
  BY <1>2, <1>7, <1>8, <1>9, <1>10 DEF BooksInv

\* What a complete trial adds to the books.
LEMMA CompleteAdds ==
    ASSUME EpisodeInv, Episode!Conclude, \A p \in Controlled : shown[p].observed
    PROVE  LET n == Len(revealed)
               L == Len(episodeRows)
           IN /\ n \in Nat /\ L \in Nat
              /\ DOMAIN episodeRows = 1..L /\ Sequential(episodeRows')
              /\ DOMAIN episodeRows' = 1..(L + 1) /\ Len(episodeRows') = L + 1
              /\ \A i \in 1..L : episodeRows'[i] = episodeRows[i]
              /\ episodeRows'[L + 1].trial = n + 1
              /\ episodeRows'[L + 1].context = Episode!Context(revealed)
              /\ Sequential(scored') /\ Len(scored') = L + 1
              /\ \A i \in 1..L : scored'[i] = scored[i]
              /\ scored'[L + 1].trial = n + 1 /\ scored'[L + 1].q = Episode!Estimates
              /\ \A i \in 1..L : episodeRows[i].trial \in 1..n
              /\ \A i \in 1..L, S \in SUBSET Controlled :
                   Told(episodeRows[i].trial, S)' = Told(episodeRows[i].trial, S)
<1> DEFINE n == Len(revealed)
           K == Episode!CompleteTrials
           L == Len(episodeRows)
           target == [S \in Episode!Subsets(Controlled) |-> Episode!SubsetTarget(shown, S)]
           c == prepared.context
           q == prepared.q
           x == [trial |-> n + 1, context |-> c, target |-> target]
           y == [trial |-> n + 1, q |-> q, target |-> target]
<1>1. episodeRows' = Append(episodeRows, x) /\ scored' = Append(scored, y)
  BY DEF Episode!Conclude, Episode!RowContext
<1>2. /\ n \in Nat /\ DOMAIN revealed = 1..n
      /\ \A t \in 1..n : revealed'[t] = revealed[t]
  BY ConcludeRemembers
<1>2a. K \in SUBSET (1..n)
  BY ConcludeRemembers
<1>3. RowsInOrder /\ RowsKnow
  BY DEF EpisodeInv, BooksInv
<1>4. c = Episode!Context(revealed) /\ q = Episode!Estimates
  <2>1. episodePhase \in {"injecting", "probing"}
    BY DEF Episode!Conclude
  <2> QED
    BY <2>1, PreparedSoundly
<1>5. x.trial = n + 1 /\ x.context = c /\ y.trial = n + 1 /\ y.q = q
  OBVIOUS
<1> HIDE DEF x, y, c, q, n, K
<1>6. Sequential(episodeRows) /\ Sequential(scored) /\ Len(scored) = L
  BY <1>3 DEF RowsInOrder, RowsKnow
<1>7. L \in Nat /\ DOMAIN episodeRows = 1..L
  BY <1>6, SequentialIs
<1>8. /\ Sequential(episodeRows') /\ DOMAIN episodeRows' = 1..(L + 1)
      /\ Len(episodeRows') = L + 1
      /\ \A i \in 1..L : episodeRows'[i] = episodeRows[i]
      /\ episodeRows'[L + 1] = x
  BY <1>1, <1>6, SequentialAppend
<1>9. /\ Sequential(scored') /\ Len(scored') = L + 1
      /\ \A i \in 1..L : scored'[i] = scored[i]
      /\ scored'[L + 1] = y
  BY <1>1, <1>6, SequentialAppend
<1>10. ASSUME NEW i \in 1..L PROVE episodeRows[i].trial \in 1..n
  <2>1. episodeRows[i].trial \in K
    BY <1>3, <1>7 DEF RowsInOrder, K
  <2> QED
    BY <1>2a, <2>1
<1>11. ASSUME NEW i \in 1..L, NEW S \in SUBSET Controlled
       PROVE  Told(episodeRows[i].trial, S)' = Told(episodeRows[i].trial, S)
  <2>1. episodeRows'[i].trial = episodeRows[i].trial
    BY <1>8
  <2>2. revealed'[episodeRows[i].trial] = revealed[episodeRows[i].trial]
    BY <1>2, <1>10
  <2> QED
    BY <2>1, <2>2 DEF Told
<1> QED
  BY <1>2, <1>4, <1>5, <1>7, <1>8, <1>9, <1>10, <1>11 DEF n

\* The last row is of the trial that ends, which none before it is.
LEMMA CompleteRows ==
    ASSUME EpisodeInv, Episode!Conclude, \A p \in Controlled : shown[p].observed
    PROVE  RowsInOrder'
<1> DEFINE n == Len(revealed)
           K == Episode!CompleteTrials
           L == Len(episodeRows)
<1>1. /\ n \in Nat /\ L \in Nat /\ DOMAIN episodeRows = 1..L
      /\ Sequential(episodeRows') /\ DOMAIN episodeRows' = 1..(L + 1)
      /\ \A i \in 1..L : episodeRows'[i] = episodeRows[i]
      /\ episodeRows'[L + 1].trial = n + 1
      /\ \A i \in 1..L : episodeRows[i].trial \in 1..n
  BY CompleteAdds
<1>2. Episode!CompleteTrials' = K \cup {n + 1}
  BY ConcludeRemembers
<1>3. /\ \A i \in 1..L : episodeRows[i].trial \in K
      /\ \A i, j \in 1..L : i < j => episodeRows[i].trial < episodeRows[j].trial
      /\ \A t \in K : \E i \in 1..L : episodeRows[i].trial = t
  BY <1>1 DEF EpisodeInv, BooksInv, RowsInOrder
<1> HIDE DEF n, K, L
<1>4. \A i \in 1..(L + 1) : i = L + 1 \/ i \in 1..L
  BY <1>1
<1>5. \A i \in 1..L : i \in 1..(L + 1)
  BY <1>1
<1>6. L + 1 \in 1..(L + 1)
  BY <1>1
<1>7. ASSUME NEW i \in 1..(L + 1) PROVE episodeRows'[i].trial \in K \cup {n + 1}
  BY <1>1, <1>3, <1>4
<1>8. ASSUME NEW i \in 1..(L + 1), NEW j \in 1..(L + 1), i < j
      PROVE  episodeRows'[i].trial < episodeRows'[j].trial
  <2>1. i \in 1..L
    BY <1>1, <1>8
  <2>2. episodeRows'[i] = episodeRows[i] /\ episodeRows[i].trial \in 1..n
    BY <1>1, <2>1
  <2>3. CASE j = L + 1
    <3>1. episodeRows'[j].trial = n + 1
      BY <1>1, <2>3
    <3> QED
      BY <1>1, <2>2, <3>1
  <2>4. CASE j \in 1..L
    BY <1>1, <1>3, <1>8, <2>1, <2>2, <2>4
  <2> QED
    BY <1>4, <2>3, <2>4
<1>9. ASSUME NEW t \in K \cup {n + 1}
      PROVE  \E i \in 1..(L + 1) : episodeRows'[i].trial = t
  BY <1>1, <1>3, <1>5, <1>6
<1> QED
  BY <1>1, <1>2, <1>7, <1>8, <1>9 DEF RowsInOrder

\* The last prediction knew the outcomes of the rows before.
LEMMA CompleteKnows ==
    ASSUME EpisodeInv, Episode!Conclude, \A p \in Controlled : shown[p].observed
    PROVE  RowsKnow'
<1> DEFINE n == Len(revealed)
           L == Len(episodeRows)
<1>1. /\ n \in Nat /\ L \in Nat /\ DOMAIN episodeRows = 1..L
      /\ DOMAIN episodeRows' = 1..(L + 1) /\ Len(episodeRows') = L + 1
      /\ \A i \in 1..L : episodeRows'[i] = episodeRows[i]
      /\ episodeRows'[L + 1].trial = n + 1
      /\ episodeRows'[L + 1].context = Episode!Context(revealed)
      /\ Sequential(scored') /\ Len(scored') = L + 1
      /\ \A i \in 1..L : scored'[i] = scored[i]
      /\ scored'[L + 1].trial = n + 1 /\ scored'[L + 1].q = Episode!Estimates
      /\ \A i \in 1..L : episodeRows[i].trial \in 1..n
      /\ \A i \in 1..L, S \in SUBSET Controlled :
           Told(episodeRows[i].trial, S)' = Told(episodeRows[i].trial, S)
  BY CompleteAdds
<1>2. /\ \A t \in 1..(n + 1) : SubSeq(revealed', 1, t - 1) = SubSeq(revealed, 1, t - 1)
      /\ SubSeq(revealed, 1, n) = revealed
  BY ConcludeRemembers
<1>3. RowsKnow /\ SubsetsKnow
  BY DEF EpisodeInv, BooksInv
<1>4. /\ \A i \in 1..L : scored[i].trial = episodeRows[i].trial
      /\ \A i \in 1..L : episodeRows[i].context
           = Episode!Context(SubSeq(revealed, 1, episodeRows[i].trial - 1))
      /\ \A i \in 1..L, S \in Episode!Subsets(Controlled) :
           scored[i].q[S] = Episode!Estimate([j \in 1..(i - 1) |-> Told(episodeRows[j].trial, S)])
  BY <1>1, <1>3 DEF RowsKnow
<1>5. \A S \in Episode!Subsets(Controlled) :
        subsetHistory[S] = [j \in 1..L |-> Told(episodeRows[j].trial, S)]
  BY <1>3 DEF SubsetsKnow
<1> HIDE DEF n, L
<1>6. \A i \in 1..(L + 1) : i = L + 1 \/ i \in 1..L
  BY <1>1
<1>7. ASSUME NEW i \in 1..(L + 1), NEW S \in Episode!Subsets(Controlled)
      PROVE  [j \in 1..(i - 1) |-> Told(episodeRows[j].trial, S)']
               = [j \in 1..(i - 1) |-> Told(episodeRows[j].trial, S)]
  <2>1. \A j \in 1..(i - 1) : j \in 1..L
    BY <1>1
  <2>2. S \in SUBSET Controlled
    BY DEF Episode!Subsets
  <2> QED
    BY <1>1, <2>1, <2>2
<1>8. ASSUME NEW i \in 1..(L + 1) PROVE scored'[i].trial = episodeRows'[i].trial
  BY <1>1, <1>4, <1>6
<1>9. ASSUME NEW i \in 1..(L + 1)
      PROVE  episodeRows'[i].context
               = Episode!Context(SubSeq(revealed', 1, episodeRows'[i].trial - 1))
  <2>1. CASE i = L + 1
    <3>1. n + 1 \in 1..(n + 1) /\ (n + 1) - 1 = n
      BY <1>1
    <3>2. SubSeq(revealed', 1, (n + 1) - 1) = revealed
      BY <1>2, <3>1
    <3> QED
      BY <1>1, <2>1, <3>2
  <2>2. CASE i \in 1..L
    <3>1. episodeRows'[i] = episodeRows[i] /\ episodeRows[i].trial \in 1..(n + 1)
      <4>1. \A t \in 1..n : t \in 1..(n + 1)
        BY <1>1
      <4> QED
        BY <1>1, <2>2, <4>1
    <3> QED
      BY <1>2, <1>4, <2>2, <3>1
  <2> QED
    BY <1>6, <2>1, <2>2
<1>10. ASSUME NEW i \in 1..(L + 1), NEW S \in Episode!Subsets(Controlled)
       PROVE  scored'[i].q[S]
                = Episode!Estimate([j \in 1..(i - 1) |-> Told(episodeRows[j].trial, S)'])
  <2>1. CASE i = L + 1
    <3>1. scored'[i].q[S] = Episode!Estimate(subsetHistory[S])
      BY <1>1, <2>1 DEF Episode!Estimates
    <3>2. i - 1 = L
      BY <1>1, <2>1
    <3> QED
      BY <1>5, <1>7, <3>1, <3>2
  <2>2. CASE i \in 1..L
    <3>1. scored'[i] = scored[i]
      BY <1>1, <2>2
    <3>2. scored[i].q[S] = Episode!Estimate([j \in 1..(i - 1) |-> Told(episodeRows[j].trial, S)])
      BY <1>4, <2>2
    <3> QED
      BY <1>7, <3>1, <3>2
  <2> QED
    BY <1>6, <2>1, <2>2
<1>11. Sequential(scored') /\ Len(scored') = Len(episodeRows') /\ DOMAIN episodeRows' = 1..(L + 1)
  BY <1>1
<1>12. Episode!Subsets(Controlled)' = Episode!Subsets(Controlled)
  OBVIOUS
<1> QED
  BY <1>8, <1>9, <1>10, <1>11 DEF RowsKnow, Told

LEMMA CompleteSubsets ==
    ASSUME EpisodeInv, Episode!Conclude, \A p \in Controlled : shown[p].observed
    PROVE  SubsetsKnow'
<1> DEFINE n == Len(revealed)
           L == Len(episodeRows)
<1>1. /\ n \in Nat /\ L \in Nat /\ DOMAIN episodeRows = 1..L
      /\ Len(episodeRows') = L + 1
      /\ episodeRows'[L + 1].trial = n + 1
      /\ \A i \in 1..L, S \in SUBSET Controlled :
           Told(episodeRows[i].trial, S)' = Told(episodeRows[i].trial, S)
  BY CompleteAdds
<1>2. revealed'[n + 1].observations = shown
  BY ConcludeRemembers
<1>3. \A S \in Episode!Subsets(Controlled) :
        subsetHistory[S] = [j \in 1..L |-> Told(episodeRows[j].trial, S)]
  BY DEF EpisodeInv, BooksInv, SubsetsKnow
<1>4. \A S \in Episode!Subsets(Controlled) :
        subsetHistory'[S] = Append(subsetHistory[S], Episode!SubsetTarget(shown, S))
  BY DEF Episode!Conclude
<1> HIDE DEF n, L
<1>5. ASSUME NEW S \in Episode!Subsets(Controlled)
      PROVE  subsetHistory'[S] = [j \in 1..(L + 1) |-> Told(episodeRows[j].trial, S)']
  <2> DEFINE h == subsetHistory[S]
             v == Episode!SubsetTarget(shown, S)
             told(j) == Told(episodeRows[j].trial, S)
  <2>0. S \in SUBSET Controlled
    BY DEF Episode!Subsets
  <2>1. h = [j \in 1..L |-> told(j)]
    BY <1>3
  <2>2. subsetHistory'[S] = Append(h, v)
    BY <1>4
  <2>3. ASSUME NEW j \in 1..(L + 1), j = L + 1 PROVE told(j)' = v
    <3>1. revealed'[episodeRows'[j].trial].observations = shown
      BY <1>1, <1>2, <2>3
    <3> QED
      BY <3>1 DEF Told
  <2>4. \A j \in 1..L : told(j)' = told(j)
    BY <1>1, <2>0
  <2>5. Sequential(h) /\ Len(h) = L
    <3>1. DOMAIN h = 1..L /\ h = [j \in 1..L |-> h[j]]
      BY <2>1
    <3> HIDE DEF h
    <3> QED
      BY <1>1, <3>1, FunctionIsSequential
  <2> DEFINE a == Append(h, v)
  <2>6. /\ Sequential(a) /\ Len(a) = L + 1
        /\ \A j \in 1..L : a[j] = h[j]
        /\ a[L + 1] = v
    <3> HIDE DEF h, v
    <3> QED
      BY <2>5, SequentialAppend
  <2> HIDE DEF a
  <2>7. a = [j \in 1..(L + 1) |-> a[j]]
    BY <2>6, SequentialIs
  <2>8. ASSUME NEW j \in 1..(L + 1) PROVE a[j] = told(j)'
    <3>1. CASE j = L + 1
      BY <2>3, <2>6, <3>1
    <3>2. CASE j # L + 1
      <4>1. j \in 1..L
        BY <1>1, <3>2
      <4>2. h[j] = told(j)
        BY <2>1, <4>1
      <4> HIDE DEF h, told
      <4> QED
        BY <2>4, <2>6, <4>1, <4>2
    <3> QED
      BY <3>1, <3>2
  <2>9. a = [j \in 1..(L + 1) |-> told(j)']
    <3>1. [j \in 1..(L + 1) |-> a[j]] = [j \in 1..(L + 1) |-> told(j)']
      BY <2>8
    <3> QED
      BY <2>7, <3>1
  <2> QED
    BY <2>2, <2>9 DEF a
<1>6. Episode!Subsets(Controlled)' = Episode!Subsets(Controlled)
  OBVIOUS
<1> QED
  BY <1>1, <1>5 DEF SubsetsKnow, Told

LEMMA CompleteDecides ==
    ASSUME EpisodeInv, Episode!Conclude, \A p \in Controlled : shown[p].observed
    PROVE  DecidedHonestly'
<1> DEFINE n == Len(revealed)
           L == Len(episodeRows)
<1>1. /\ n \in Nat /\ L \in Nat /\ DOMAIN episodeRows = 1..L
      /\ Len(episodeRows') = L + 1 /\ DOMAIN episodeRows' = 1..(L + 1)
      /\ episodeRows'[L + 1].trial = n + 1
      /\ \A i \in 1..L : episodeRows'[i] = episodeRows[i]
      /\ \A i \in 1..L : episodeRows[i].trial \in 1..n
  BY CompleteAdds
<1>2. revealed'[n + 1].observations = shown /\ \A t \in 1..n : revealed'[t] = revealed[t]
  BY ConcludeRemembers
<1>3. IsWhole(shown)
  BY ConcludeRemembers
<1>4. prepared.plan.subset \in SUBSET Controlled
      /\ (prepared.plan.status = "SELECTED" <=> prepared.plan.subset # {})
  <2>1. episodePhase \in {"injecting", "probing"}
    BY DEF Episode!Conclude
  <2> QED
    BY <2>1, PreparedSoundly
<1> HIDE DEF L
<1>5. ASSUME NEW k \in Episode!Policies
      PROVE  /\ Sequential(decided'[k]) /\ Len(decided'[k]) = L + 1
             /\ \A i \in 1..(L + 1) :
                  /\ decided'[k][i].trial = episodeRows'[i].trial
                  /\ Honest(k, decided'[k][i], revealed'[episodeRows'[i].trial].observations)
  <2> DEFINE d == decided[k]
             o == Episode!DecisionOf(k, shown)
  <2>1. decided'[k] = Append(d, o)
    BY DEF Episode!Conclude
  <2>2. /\ Sequential(d) /\ Len(d) = L
        /\ \A i \in 1..L :
             /\ d[i].trial = episodeRows[i].trial
             /\ Honest(k, d[i], revealed[episodeRows[i].trial].observations)
    BY <1>1 DEF EpisodeInv, BooksInv, DecidedHonestly, L
  <2>3. o.trial = n + 1 /\ Honest(k, o, shown)
    <3> HIDE DEF o
    <3>1. o = Episode!DecisionOf(k, shown)
      BY DEF o
    <3> QED
      BY <1>3, <1>4, <3>1, DecisionIs
  <2> HIDE DEF d, o, n
  <2>4. /\ Sequential(decided'[k]) /\ Len(decided'[k]) = L + 1
        /\ \A i \in 1..L : decided'[k][i] = d[i]
        /\ decided'[k][L + 1] = o
    BY <2>1, <2>2, SequentialAppend
  <2>5. ASSUME NEW i \in 1..(L + 1)
        PROVE  /\ decided'[k][i].trial = episodeRows'[i].trial
               /\ Honest(k, decided'[k][i], revealed'[episodeRows'[i].trial].observations)
    <3>1. CASE i = L + 1
      BY <1>1, <1>2, <2>3, <2>4, <3>1
    <3>2. CASE i # L + 1
      <4>1. i \in 1..L
        BY <1>1, <3>2
      <4>2. decided'[k][i] = d[i] /\ episodeRows'[i] = episodeRows[i]
            /\ revealed'[episodeRows[i].trial] = revealed[episodeRows[i].trial]
        BY <1>1, <1>2, <2>4, <4>1
      <4>3. d[i].trial = episodeRows[i].trial
            /\ Honest(k, d[i], revealed[episodeRows[i].trial].observations)
        BY <2>2, <4>1
      <4> QED
        BY <4>2, <4>3
    <3> QED
      BY <3>1, <3>2
  <2> QED
    BY <2>4, <2>5
<1> QED
  BY <1>1, <1>5 DEF DecidedHonestly

LEMMA ConcludeKeeps ==
    ASSUME EpisodeInv, Episode!Conclude
    PROVE  EpisodeInv'
<1>1. BooksInv'
  <2>1. CASE \A p \in Controlled : shown[p].observed
    BY <2>1, ConcludeRemembers, CompleteRows, CompleteKnows, CompleteSubsets, CompleteDecides
       DEF BooksInv
  <2>2. CASE ~ \A p \in Controlled : shown[p].observed
    BY <2>2, IncompleteKeeps
  <2> QED
    BY <2>1, <2>2
<1>2. /\ episodePhase' = "idle" /\ configured' = {} /\ shown' = << >>
      /\ injected' = injected /\ sampled' = sampled
  BY DEF Episode!Conclude
<1>3. TrialInv'
  <2>1. TrialInv
    BY DEF EpisodeInv
  <2> QED
    BY <1>2, <2>1 DEF TrialInv
<1> QED
  BY <1>1, <1>3 DEF EpisodeInv

LEMMA EpisodeQuiet ==
    ASSUME EpisodeInv, UNCHANGED Episode!vars
    PROVE  EpisodeInv'
<1>1. /\ UNCHANGED Episode!books /\ episodePhase' = episodePhase /\ injected' = injected
      /\ sampled' = sampled /\ configured' = configured /\ shown' = shown
      /\ prepared' = prepared
  BY DEF Episode!vars, Episode!trial
<1>2. BooksInv'
  BY <1>1, BooksUntouched DEF EpisodeInv
<1>3. Episode!Estimates' = Episode!Estimates /\ revealed' = revealed
  BY <1>1, ConsideredKept
<1>4. TrialInv'
  BY <1>1, <1>3 DEF EpisodeInv, TrialInv
<1> QED
  BY <1>2, <1>4 DEF EpisodeInv

LEMMA EpisodeBegins ==
    ASSUME Episode!Init
    PROVE  EpisodeInv
<1>1. /\ episodePhase = "idle" /\ injected = [p \in Controlled |-> "fast"]
      /\ sampled = injected /\ configured = {} /\ shown = << >>
      /\ revealed = << >> /\ episodeRows = << >> /\ scored = << >>
      /\ subsetHistory = [S \in Episode!Subsets(Controlled) |-> << >>]
      /\ decided = [k \in Episode!Policies |-> << >>]
  BY DEF Episode!Init
<1>2. Sequential(<< >>) /\ Len(<< >>) = 0 /\ DOMAIN << >> = {} /\ 1..0 = {}
  BY DEF Sequential
<1>3. TrialInv
  BY <1>1, <1>2 DEF TrialInv, Episode!Behaviours
<1>4. Remembered /\ RowsInOrder /\ DecidedHonestly
  BY <1>1, <1>2 DEF Remembered, RowsInOrder, DecidedHonestly, Episode!CompleteTrials
<1>5. RowsKnow
  BY <1>1, <1>2 DEF RowsKnow
<1>6. SubsetsKnow
  <2>1. << >> = [j \in 1..0 |-> Told(episodeRows[j].trial, {})]
    OBVIOUS
  <2> QED
    BY <1>1, <1>2 DEF SubsetsKnow
<1> QED
  BY <1>3, <1>4, <1>5, <1>6 DEF EpisodeInv, BooksInv

\* The inductive invariant of an episode: its rows, predictions and decisions
\* are in the order of the complete trials, and each was made from what the
\* trials before it had shown.
THEOREM EpisodeInvariant == Episode!Spec => []EpisodeInv
<1>1. Episode!Init => EpisodeInv
  BY EpisodeBegins
<1>2. ASSUME EpisodeInv, [Episode!Next]_(Episode!vars)
      PROVE  EpisodeInv'
  <2>1. ASSUME Episode!Prepare PROVE EpisodeInv'
    BY <1>2, <2>1, PrepareKeeps
  <2>2. ASSUME Episode!Conclude PROVE EpisodeInv'
    BY <1>2, <2>2, ConcludeKeeps
  <2>3. ASSUME NEW p \in Controlled, Episode!Apply(p) PROVE EpisodeInv'
    BY <1>2, <2>3, ApplyKeeps
  <2>4. ASSUME NEW p \in Controlled, Episode!ApplyFails(p) PROVE EpisodeInv'
    BY <1>2, <2>4, ApplyFailsKeeps
  <2>5. ASSUME NEW p \in Controlled, Episode!Observe(p) PROVE EpisodeInv'
    BY <1>2, <2>5, ObserveKeeps
  <2>6. CASE UNCHANGED Episode!vars
    BY <1>2, <2>6, EpisodeQuiet
  <2> QED
    BY <1>2, <2>1, <2>2, <2>3, <2>4, <2>5, <2>6 DEF Episode!Next
<1> QED
  BY <1>1, <1>2, PTL DEF Episode!Spec

LEMMA LooksBack ==
    ASSUME EpisodeInv
    PROVE  TrialsLookBack
<1> DEFINE L == Len(episodeRows)
           n == Len(revealed)
           r(i) == episodeRows[i].trial
<1>1. Remembered /\ RowsInOrder /\ RowsKnow
  BY DEF EpisodeInv, BooksInv
<1>2. L \in Nat /\ DOMAIN episodeRows = 1..L /\ n \in Nat /\ DOMAIN revealed = 1..n
  BY <1>1, SequentialIs DEF RowsInOrder, Remembered
<1>3. /\ \A i \in 1..L : r(i) \in Episode!CompleteTrials
      /\ \A i, j \in 1..L : i < j => r(i) < r(j)
      /\ \A t \in Episode!CompleteTrials : \E i \in 1..L : r(i) = t
  BY <1>1, <1>2 DEF RowsInOrder
<1>4. Episode!CompleteTrials \in SUBSET (1..n)
  BY <1>2 DEF Episode!CompleteTrials
<1>5. \A t \in DOMAIN revealed, p \in Controlled :
        revealed[t].observations[p] \in Episode!Showing(revealed[t].sampled[p])
  BY <1>1 DEF Remembered
<1> HIDE DEF L, n, r
<1>6. ASSUME NEW i \in 1..L
      PROVE  LET before == Episode!CompleteBefore(r(i)) IN
             /\ DOMAIN before = 1..(i - 1)
             /\ \A j \in 1..(i - 1) : before[j] = revealed[r(j)]
  <2> DEFINE known == Episode!CompleteTrials \cap 1..(r(i) - 1)
             ranks == [j \in 1..(i - 1) |-> r(j)]
  <2>1. i - 1 \in Nat /\ \A j \in 1..(i - 1) : j \in 1..L /\ j < i
    BY <1>2
  <2>2. \A j \in 1..L : r(j) \in 1..n
    BY <1>3, <1>4
  <2>3. known = {ranks[j] : j \in 1..(i - 1)}
    <3>1. ASSUME NEW j \in 1..(i - 1) PROVE r(j) \in known
      <4>1. r(j) \in Episode!CompleteTrials /\ r(j) < r(i) /\ r(j) \in 1..n /\ r(i) \in 1..n
        BY <1>3, <2>1, <2>2
      <4>2. r(j) \in 1..(r(i) - 1)
        BY <1>2, <4>1
      <4> QED
        BY <4>1, <4>2
    <3>2. ASSUME NEW t \in known PROVE \E j \in 1..(i - 1) : r(j) = t
      <4>1. PICK j \in 1..L : r(j) = t
        BY <1>3
      <4>2. t < r(i) /\ t \in 1..n /\ r(i) \in 1..n
        <5>1. t \in 1..(r(i) - 1)
          OBVIOUS
        <5>2. t \in 1..n /\ r(i) \in 1..n
          BY <2>2, <4>1
        <5> QED
          BY <1>2, <5>1, <5>2
      <4>3. ~(i < j) /\ i # j
        <5>1. i < j => r(i) < r(j)
          BY <1>3
        <5> QED
          BY <1>2, <4>1, <4>2, <5>1
      <4>4. j \in 1..(i - 1)
        BY <1>2, <4>3
      <4> QED
        BY <4>1, <4>4
    <3> QED
      BY <3>1, <3>2
  <2>4. /\ \A j \in 1..(i - 1) : ranks[j] \in 1..n
        /\ \A j, k \in 1..(i - 1) : j < k => ranks[j] < ranks[k]
    BY <1>3, <2>1, <2>2
  <2> HIDE DEF known, ranks
  <2>5. Cardinality(known) = i - 1 /\ \A j \in 1..(i - 1) : NthOf(known, j) = ranks[j]
    <3> DEFINE m == i - 1
    <3>1. m \in Nat /\ n \in Nat
      BY <1>2, <2>1
    <3>2. \A j \in 1..m : ranks[j] \in 1..n
      BY <2>4
    <3>3. \A j, k \in 1..m : j < k => ranks[j] < ranks[k]
      BY <2>4
    <3>4. known = {ranks[j] : j \in 1..m}
      BY <2>3
    <3> HIDE DEF m
    <3>5. Enumerates(ranks, m, n, known)
      BY <3>2, <3>3, <3>4 DEF Enumerates
    <3>6. Cardinality(known) = m /\ \A j \in 1..m : NthOf(known, j) = ranks[j]
      BY ONLY <3>1, <3>5, IncreasingNth
    <3> QED
      BY <3>6 DEF m
  <2>6. Episode!CompleteBefore(r(i)) = [j \in 1..(i - 1) |-> revealed[NthOf(known, j)]]
    <3>1. \A S : Episode!Cardinality(S) = Cardinality(S)
      BY DEF Episode!Cardinality, Cardinality
    <3> DEFINE U(j) == CHOOSE u \in known : Episode!Cardinality(known \cap 1..u) = j
    <3>2. Episode!CompleteBefore(r(i))
            = [j \in 1..Episode!Cardinality(known) |-> revealed[U(j)]]
      BY DEF Episode!CompleteBefore, known
    <3>3. \A j : NthOf(known, j) = U(j)
      BY <3>1 DEF NthOf, RankIn
    <3>4. Episode!Cardinality(known) = i - 1
      BY <2>5, <3>1
    <3> HIDE DEF U
    <3>5. [j \in 1..(i - 1) |-> revealed[U(j)]]
            = [j \in 1..(i - 1) |-> revealed[NthOf(known, j)]]
      BY <3>3
    <3> QED
      BY <3>2, <3>4, <3>5
  <2>7. \A j \in 1..(i - 1) : ranks[j] = r(j)
    BY DEF ranks
  <2> QED
    BY <2>5, <2>6, <2>7
<1>7. ASSUME NEW i \in DOMAIN episodeRows
      PROVE  LET t == episodeRows[i].trial IN
             /\ episodeRows[i].context = Episode!Context(SubSeq(revealed, 1, t - 1))
             /\ scored[i].trial = t
             /\ \A S \in Episode!Subsets(Controlled) :
                  LET before == Episode!CompleteBefore(t) IN
                  scored[i].q[S] =
                    Episode!Estimate([j \in DOMAIN before |->
                                        Episode!SubsetTarget(before[j].observations, S)])
  <2> DEFINE before == Episode!CompleteBefore(r(i))
  <2>1. DOMAIN before = 1..(i - 1) /\ \A j \in 1..(i - 1) : before[j] = revealed[r(j)]
    BY <1>2, <1>6
  <2>2. /\ scored[i].trial = r(i)
        /\ episodeRows[i].context = Episode!Context(SubSeq(revealed, 1, r(i) - 1))
    BY <1>1 DEF RowsKnow, r
  <2>3. ASSUME NEW S \in Episode!Subsets(Controlled)
        PROVE  scored[i].q[S] = Episode!Estimate([j \in DOMAIN before |->
                                    Episode!SubsetTarget(before[j].observations, S)])
    <3>1. scored[i].q[S] = Episode!Estimate([j \in 1..(i - 1) |-> Told(r(j), S)])
      BY <1>1 DEF RowsKnow, r
    <3> HIDE DEF before
    <3>2. \A j \in 1..(i - 1) : Told(r(j), S) = Episode!SubsetTarget(before[j].observations, S)
      BY <2>1 DEF Told
    <3>3. [j \in 1..(i - 1) |-> Told(r(j), S)]
            = [j \in DOMAIN before |-> Episode!SubsetTarget(before[j].observations, S)]
      BY <2>1, <3>2
    <3> QED
      BY <3>1, <3>3
  <2> QED
    BY <2>2, <2>3 DEF r
<1> QED
  BY <1>5, <1>7 DEF TrialsLookBack, Episode!TrialsLookBack

LEMMA Paired ==
    ASSUME EpisodeInv
    PROVE  PoliciesArePaired
<1> DEFINE L == Len(episodeRows)
<1>1. /\ RowsInOrder /\ DecidedHonestly
  BY DEF EpisodeInv, BooksInv
<1>2. L \in Nat /\ DOMAIN episodeRows = 1..L
  BY <1>1, SequentialIs DEF RowsInOrder
<1>3. ASSUME NEW k \in Episode!Policies
      PROVE  /\ DOMAIN decided[k] = 1..L
             /\ \A i \in 1..L :
                  /\ decided[k][i].trial = episodeRows[i].trial
                  /\ Honest(k, decided[k][i], revealed[decided[k][i].trial].observations)
  <2>1. Sequential(decided[k]) /\ Len(decided[k]) = L
    BY <1>1 DEF DecidedHonestly
  <2>2. DOMAIN decided[k] = 1..L
    BY <2>1, SequentialIs
  <2> QED
    BY <1>1, <1>2, <2>2 DEF DecidedHonestly
<1> HIDE DEF L
<1>4. "all-race" \in Episode!Policies
  BY DEF Episode!Policies
<1>5. ASSUME NEW k \in Episode!Policies
      PROVE  /\ {decided[k][i].trial : i \in DOMAIN decided[k]} = Episode!CompleteTrials
             /\ \A i, j \in DOMAIN decided[k] : i < j => decided[k][i].trial < decided[k][j].trial
  <2>1. /\ \A i \in 1..L : episodeRows[i].trial \in Episode!CompleteTrials
        /\ \A i, j \in 1..L : i < j => episodeRows[i].trial < episodeRows[j].trial
        /\ \A t \in Episode!CompleteTrials : \E i \in 1..L : episodeRows[i].trial = t
    BY <1>1, <1>2 DEF RowsInOrder
  <2>2. {decided[k][i].trial : i \in 1..L} = {episodeRows[i].trial : i \in 1..L}
    BY <1>3
  <2>3. {episodeRows[i].trial : i \in 1..L} = Episode!CompleteTrials
    BY <2>1
  <2>4. \A i, j \in 1..L : i < j => decided[k][i].trial < decided[k][j].trial
    BY <1>3, <2>1
  <2> QED
    BY <1>3, <2>2, <2>3, <2>4
<1>6. ASSUME NEW k \in Episode!Policies, NEW i \in DOMAIN decided[k]
      PROVE  LET o == decided[k][i]
                 obs == revealed[o.trial].observations
             IN /\ o.satisfied => decided["all-race"][i].satisfied
                /\ o.calls <= decided["all-race"][i].calls
                /\ k = "failover" /\ o.satisfied =>
                     /\ Episode!WithinDeadline(obs[Episode!Order[o.calls]])
                     /\ \A m \in 1..(o.calls - 1) :
                          ~obs[Episode!Order[m]].accepted
                          /\ obs[Episode!Order[m]].offset
                               + obs[Episode!Order[o.calls]].offset <= Episode!Tau
                /\ o.status = "SELECTED" <=> o.calls > 0
  <2> DEFINE o == decided[k][i]
             x == decided["all-race"][i]
             obs == revealed[o.trial].observations
  <2>1. i \in 1..L
    BY <1>3
  <2>2. Honest(k, o, obs)
    BY <1>3, <2>1
  <2>3. x.trial = o.trial
    BY <1>3, <1>4, <2>1
  <2>4. Honest("all-race", x, obs)
    BY <1>3, <1>4, <2>1, <2>3
  <2> HIDE DEF o, x, obs
  <2>5. (o.satisfied => Reached(obs)) /\ o.calls \in 0..Width
    BY <2>2 DEF Honest
  <2>6. x.calls = Width /\ (x.satisfied <=> Reached(obs))
    BY <2>4 DEF Honest
  <2>7. o.satisfied => x.satisfied
    BY <2>5, <2>6
  <2>8. o.calls <= x.calls
    BY <2>5, <2>6, ControlledIs
  <2>9. /\ k = "failover" /\ o.satisfied =>
             /\ Episode!WithinDeadline(obs[Episode!Order[o.calls]])
             /\ \A m \in 1..(o.calls - 1) :
                  ~obs[Episode!Order[m]].accepted
                  /\ obs[Episode!Order[m]].offset
                       + obs[Episode!Order[o.calls]].offset <= Episode!Tau
        /\ o.status = "SELECTED" <=> o.calls > 0
    BY <2>2 DEF Honest
  <2> QED
    BY <2>7, <2>8, <2>9 DEF o, x, obs
<1> QED
  BY <1>5, <1>6 DEF PoliciesArePaired, Episode!PoliciesArePaired

\* TrialsLookBack for any resolvers, behaviours and number of trials: a row
\* and a prediction know what the trials before showed, and a trial shows what
\* was injected for it.
THEOREM EpisodesLookBack == Episode!Spec => []TrialsLookBack
<1>1. EpisodeInv => TrialsLookBack
  BY LooksBack
<1> QED
  BY <1>1, EpisodeInvariant, PTL

\* PoliciesArePaired for any resolvers, costs and number of trials: policies
\* are compared on the same trials, no policy is satisfied where racing all is
\* not, and a sequence that is satisfied called no more than it needed.
THEOREM PoliciesPaired == Episode!Spec => []PoliciesArePaired
<1>1. EpisodeInv => PoliciesArePaired
  BY Paired
<1> QED
  BY <1>1, EpisodeInvariant, PTL

-----------------------------------------------------------------------------
(***************************************************************************)
(* The analysis of a dataset.  Its sequences are related to the rows they  *)
(* come from by positions, whatever the order.                             *)
(***************************************************************************)
\* s has the rows at the positions in I, each once.
Picked(s, rows, I) ==
    /\ Sequential(s)
    /\ \E g \in Bijection(1..Len(s), I) : \A n \in 1..Len(s) : s[n] = rows[g[n]]

LEMMA DatasetSelects ==
    ASSUME NEW s, NEW I
    PROVE  Dataset!Selected(s, I) = Campaign!Selected(s, I)
  BY DEF Dataset!Selected, Campaign!Selected, Dataset!Cardinality, Campaign!Cardinality

LEMMA BijectionIs ==
    ASSUME NEW S, NEW T, NEW g, g \in [S -> T],
           \A a, b \in S : g[a] = g[b] => a = b, \A t \in T : \E a \in S : g[a] = t
    PROVE  g \in Bijection(S, T)
  BY DEF Bijection, Injection, Surjection, IsInjective

LEMMA BijectionHas ==
    ASSUME NEW S, NEW T, NEW g \in Bijection(S, T)
    PROVE  /\ g \in [S -> T] /\ \A a, b \in S : g[a] = g[b] => a = b
           /\ \A t \in T : \E a \in S : g[a] = t
  BY DEF Bijection, Injection, Surjection, IsInjective

LEMMA PickedWhole ==
    ASSUME NEW s, Sequential(s)
    PROVE  Picked(s, s, 1..Len(s))
<1> DEFINE g == [n \in 1..Len(s) |-> n]
<1>1. g \in [1..Len(s) -> 1..Len(s)] /\ \A n \in 1..Len(s) : g[n] = n
  OBVIOUS
<1> HIDE DEF g
<1>2. g \in Bijection(1..Len(s), 1..Len(s))
  <2>1. \A a, b \in 1..Len(s) : g[a] = g[b] => a = b
    BY <1>1
  <2>2. \A t \in 1..Len(s) : \E a \in 1..Len(s) : g[a] = t
    BY <1>1
  <2> QED
    BY <1>1, <2>1, <2>2, BijectionIs
<1> QED
  BY <1>1, <1>2 DEF Picked

\* What is selected by a test of its rows has been picked by that test.
LEMMA PickedFilter ==
    ASSUME NEW rows, NEW I, NEW s, Picked(s, rows, I), NEW P,
           NEW J, J = {n \in DOMAIN s : s[n] \in P}, NEW t, t = Dataset!Selected(s, J),
           NEW K, K = {i \in I : rows[i] \in P}
    PROVE  Picked(t, rows, K)
<1> DEFINE N == Len(s)
           m == Cardinality(J)
<1>1. N \in Nat /\ DOMAIN s = 1..N /\ Sequential(s) /\ J \in SUBSET (1..N)
      /\ J \in SUBSET DOMAIN s
  BY SequentialIs DEF Picked
<1>2. PICK g \in Bijection(1..N, I) : \A n \in 1..N : s[n] = rows[g[n]]
  BY DEF Picked
<1>3. /\ g \in [1..N -> I] /\ \A a, b \in 1..N : g[a] = g[b] => a = b
      /\ \A i \in I : \E a \in 1..N : g[a] = i
  BY <1>2, BijectionHas
<1>4. /\ Sequential(t) /\ Len(t) = m /\ m \in Nat
      /\ \A n \in 1..m : t[n] = s[NthOf(J, n)] /\ NthOf(J, n) \in J
  BY <1>1, DatasetSelects, SelectedIs
<1>5. \A j \in J : RankIn(J, j) \in 1..m /\ NthOf(J, RankIn(J, j)) = j
  BY <1>1, RankIs, NthIs
<1>6. \A k, n \in 1..m : NthOf(J, k) = NthOf(J, n) => k = n
  BY <1>1, NthInjective
<1> HIDE DEF N, m
<1> DEFINE h == [n \in 1..m |-> g[NthOf(J, n)]]
<1>7. \A n \in 1..m : NthOf(J, n) \in 1..N /\ s[NthOf(J, n)] \in P
  BY <1>1, <1>4
<1>8. h \in [1..m -> K] /\ \A n \in 1..m : h[n] = g[NthOf(J, n)]
  <2>1. ASSUME NEW n \in 1..m PROVE g[NthOf(J, n)] \in K
    <3>1. g[NthOf(J, n)] \in I /\ rows[g[NthOf(J, n)]] = s[NthOf(J, n)]
      BY <1>2, <1>3, <1>7
    <3> QED
      BY <1>7, <3>1
  <2> QED
    BY <2>1
<1> HIDE DEF h
<1>9. ASSUME NEW a \in 1..m, NEW b \in 1..m, h[a] = h[b] PROVE a = b
  <2>1. NthOf(J, a) \in 1..N /\ NthOf(J, b) \in 1..N /\ g[NthOf(J, a)] = g[NthOf(J, b)]
    BY <1>7, <1>8, <1>9
  <2>2. NthOf(J, a) = NthOf(J, b)
    BY <1>3, <2>1
  <2> QED
    BY <1>6, <2>2
<1>10. ASSUME NEW i \in K PROVE \E a \in 1..m : h[a] = i
  <2>1. PICK a \in 1..N : g[a] = i
    BY <1>3
  <2>2. a \in J
    BY <1>1, <1>2, <2>1
  <2>3. RankIn(J, a) \in 1..m /\ NthOf(J, RankIn(J, a)) = a
    BY <1>5, <2>2
  <2> QED
    BY <1>8, <2>1, <2>3
<1>11. h \in Bijection(1..m, K)
  BY <1>8, <1>9, <1>10, BijectionIs
<1>12. \A n \in 1..m : t[n] = rows[h[n]]
  BY <1>2, <1>4, <1>7, <1>8
<1> QED
  BY <1>4, <1>11, <1>12 DEF Picked

AnsweredAt(rows, I) == {i \in I : rows[i].status # Absent}
AcceptedAt(rows, I) == {i \in I : rows[i].accepted}

LEMMA PickedRows ==
    ASSUME NEW rows, NEW I, NEW s, Picked(s, rows, I)
    PROVE  DOMAIN s = 1..Len(s) /\ \A n \in DOMAIN s : \E i \in I : s[n] = rows[i]
<1>1. DOMAIN s = 1..Len(s)
  BY SequentialIs DEF Picked
<1>2. PICK g \in Bijection(1..Len(s), I) : \A n \in 1..Len(s) : s[n] = rows[g[n]]
  BY DEF Picked
<1>3. g \in [1..Len(s) -> I]
  BY <1>2, BijectionHas
<1> QED
  BY <1>1, <1>2, <1>3

LEMMA RespondingPicked ==
    ASSUME NEW rows, NEW I, NEW s, Picked(s, rows, I)
    PROVE  Picked(Dataset!Responding(s), rows, AnsweredAt(rows, I))
<1> DEFINE P == {rows[i] : i \in AnsweredAt(rows, I)}
           J == {n \in DOMAIN s : s[n].status # Absent}
           K == {i \in I : rows[i] \in P}
<1>1. Dataset!Responding(s) = Dataset!Selected(s, J)
  BY DEF Dataset!Responding, Dataset!Rows, Dataset!Where
<1>2. J = {n \in DOMAIN s : s[n] \in P}
  <2>1. ASSUME NEW n \in DOMAIN s PROVE s[n].status # Absent <=> s[n] \in P
    BY PickedRows DEF AnsweredAt
  <2> QED
    BY <2>1
<1>3. K = AnsweredAt(rows, I)
  BY DEF AnsweredAt
<1> HIDE DEF P, J, K
<1>4. Picked(Dataset!Selected(s, J), rows, K)
  <2>1. K = {i \in I : rows[i] \in P}
    BY DEF K
  <2> QED
    BY <1>2, <2>1, PickedFilter
<1> QED
  BY <1>1, <1>3, <1>4

LEMMA AcceptedPicked ==
    ASSUME NEW rows, NEW I, NEW s, Picked(s, rows, I)
    PROVE  Picked(Dataset!Accepted(s), rows, AcceptedAt(rows, I))
<1> DEFINE P == {rows[i] : i \in AcceptedAt(rows, I)}
           J == {n \in DOMAIN s : s[n].accepted}
           K == {i \in I : rows[i] \in P}
<1>1. Dataset!Accepted(s) = Dataset!Selected(s, J)
  BY DEF Dataset!Accepted, Dataset!Rows, Dataset!Where
<1>2. J = {n \in DOMAIN s : s[n] \in P}
  <2>1. ASSUME NEW n \in DOMAIN s PROVE s[n].accepted <=> s[n] \in P
    BY PickedRows DEF AcceptedAt
  <2> QED
    BY <2>1
<1>3. K = AcceptedAt(rows, I)
  BY DEF AcceptedAt
<1> HIDE DEF P, J, K
<1>4. Picked(Dataset!Selected(s, J), rows, K)
  <2>1. K = {i \in I : rows[i] \in P}
    BY DEF K
  <2> QED
    BY <1>2, <2>1, PickedFilter
<1> QED
  BY <1>1, <1>3, <1>4

\* A sequence of numbers has a least one.
LEMMA LeastExists ==
    ASSUME NEW N \in Nat \ {0}, NEW v, \A n \in 1..N : v[n] \in Int
    PROVE  \E n \in 1..N : \A m \in 1..N : v[n] <= v[m]
<1> DEFINE Has(k) == \E n \in 1..k : \A m \in 1..k : v[n] <= v[m]
           Odd == {k \in Nat \ {0} : k <= N /\ ~ Has(k)}
<1>1. Odd = {}
  <2> SUFFICES ASSUME Odd # {} PROVE FALSE
    OBVIOUS
  <2>1. PICK k \in Odd : \A j \in Odd : k <= j
    <3>1. Odd \in SUBSET Nat
      OBVIOUS
    <3> HIDE DEF Odd
    <3> QED
      BY <3>1, LeastOf
  <2>2. k \in Nat \ {0} /\ k <= N /\ ~ Has(k)
    BY <2>1
  <2>3. k # 1
    <3>1. Has(1)
      <4>1. 1 \in 1..1 /\ \A m \in 1..1 : m = 1
        OBVIOUS
      <4>2. v[1] \in Int /\ v[1] <= v[1]
        OBVIOUS
      <4> QED
        BY <4>1, <4>2
    <3> HIDE DEF Has
    <3> QED
      BY <2>2, <3>1
  <2>4. k - 1 \in Nat \ {0} /\ k - 1 <= N /\ ~(k <= k - 1)
    BY <2>2, <2>3
  <2>5. Has(k - 1)
    <3>1. k - 1 \notin Odd
      <4> HIDE DEF Odd
      <4> QED
        BY <2>1, <2>4
    <3> HIDE DEF Has
    <3> QED
      BY <2>4, <3>1
  <2>6. PICK n \in 1..(k - 1) : \A m \in 1..(k - 1) : v[n] <= v[m]
    BY <2>5
  <2>7. n \in 1..k /\ n \in 1..N /\ k \in 1..k /\ k \in 1..N /\ v[n] \in Int /\ v[k] \in Int
    <3>1. n \in 1..k /\ n \in 1..N /\ k \in 1..k /\ k \in 1..N
      BY <2>2, <2>4
    <3> QED
      BY <3>1
  <2>8. \A m \in 1..k : m = k \/ m \in 1..(k - 1)
    BY <2>2
  <2>9. CASE v[n] <= v[k]
    BY <2>2, <2>6, <2>7, <2>8, <2>9
  <2>10. CASE ~(v[n] <= v[k])
    <3>1. ASSUME NEW m \in 1..k PROVE v[k] <= v[m]
      <4>1. v[m] \in Int
        BY <2>2
      <4>2. CASE m = k
        BY <2>7, <4>2
      <4>3. CASE m \in 1..(k - 1)
        <5>1. v[n] <= v[m]
          BY <2>6, <4>3
        <5> QED
          BY <2>7, <2>10, <4>1, <5>1
      <4> QED
        BY <2>8, <4>2, <4>3
    <3> QED
      BY <2>2, <2>7, <3>1
  <2> QED
    BY <2>9, <2>10
<1>2. N \notin Odd /\ N \in Nat \ {0} /\ N <= N
  <2> HIDE DEF Odd
  <2> QED
    BY <1>1
<1> QED
  BY <1>2

LeastAt(rows, I) == {i \in I : \A j \in I : rows[i].latency <= rows[j].latency}

\* w is a first place among the rows at I, and says whether it is shared.
Won(rows, I, w) ==
    IF I = {} THEN w = [resolver |-> Absent, latency |-> Absent, tied |-> FALSE]
    ELSE \E i \in LeastAt(rows, I) :
           w = [resolver |-> rows[i].resolver, latency |-> rows[i].latency,
                tied |-> LeastAt(rows, I) # {i}]

LEMMA ArgMinIs ==
    ASSUME NEW rows, NEW I, NEW s, Picked(s, rows, I), \A i \in I : rows[i].latency \in Int
    PROVE  Won(rows, I, Dataset!ArgMin(s))
<1> DEFINE N == Len(s)
<1>1. N \in Nat /\ DOMAIN s = 1..N /\ s = [n \in 1..N |-> s[n]]
  BY SequentialIs DEF Picked
<1>2. PICK g \in Bijection(1..N, I) : \A n \in 1..N : s[n] = rows[g[n]]
  BY DEF Picked
<1>3. /\ g \in [1..N -> I] /\ \A a, b \in 1..N : g[a] = g[b] => a = b
      /\ \A i \in I : \E a \in 1..N : g[a] = i
  BY <1>2, BijectionHas
<1>4. s = << >> <=> N = 0
  <2>1. Sequential(s)
    BY DEF Picked
  <2>2. s \in Seq({s[i] : i \in DOMAIN s})
    BY <2>1 DEF Sequential
  <2> QED
    BY <1>1, <2>2
<1>5. CASE N = 0
  <2>1. I = {}
    BY <1>3, <1>5
  <2>2. Dataset!ArgMin(s) = [resolver |-> Absent, latency |-> Absent, tied |-> FALSE]
    BY <1>4, <1>5 DEF Dataset!ArgMin
  <2> QED
    BY <2>1, <2>2 DEF Won
<1>6. CASE N # 0
  <2> DEFINE least(i) == \A j \in DOMAIN s : s[i].latency <= s[j].latency
             chosen(i) == least(i) /\ \A j \in 1..(i - 1) : ~least(j)
             first == CHOOSE i \in DOMAIN s : chosen(i)
             v == [n \in 1..N |-> s[n].latency]
             S == {n \in 1..N : least(n)}
             shared == \E i \in DOMAIN s \ {first} : least(i)
  <2>1. Dataset!ArgMin(s) = [resolver |-> s[first].resolver, latency |-> s[first].latency,
                             tied |-> shared]
    BY <1>4, <1>6 DEF Dataset!ArgMin
  <2>2. \A n \in 1..N : s[n].latency \in Int
    BY <1>2, <1>3
  <2>3. S # {} /\ S \in SUBSET Nat
    <3>1. \A n \in 1..N : v[n] \in Int
      BY <2>2
    <3>2. N \in Nat \ {0}
      BY <1>1, <1>6
    <3> HIDE DEF v
    <3>3. PICK n \in 1..N : \A m \in 1..N : v[n] <= v[m]
      BY <3>1, <3>2, LeastExists
    <3>4. least(n)
      BY <1>1, <3>3 DEF v
    <3> QED
      BY <3>4
  <2>4. \E n \in DOMAIN s : chosen(n)
    <3>1. PICK n \in S : \A m \in S : n <= m
      <4> HIDE DEF S
      <4> QED
        BY <2>3, LeastOf
    <3>2. ASSUME NEW m \in 1..(n - 1) PROVE ~least(m)
      <4>1. m \in 1..N /\ ~(n <= m)
        BY <1>1
      <4>2. m \notin S
        <5> HIDE DEF S
        <5> QED
          BY <3>1, <4>1
      <4> QED
        BY <4>1, <4>2
    <3>3. n \in 1..N /\ least(n)
      BY <3>1
    <3> HIDE DEF least
    <3> QED
      BY <1>1, <3>2, <3>3
  <2>5. first \in 1..N /\ least(first)
    <3>1. first \in DOMAIN s /\ chosen(first)
      <4> HIDE DEF chosen
      <4> QED
        BY <2>4
    <3> HIDE DEF least
    <3> QED
      BY <1>1, <3>1
  <2> HIDE DEF first
  <2>6. \A n \in 1..N : least(n) <=> g[n] \in LeastAt(rows, I)
    BY <1>1, <1>2, <1>3 DEF LeastAt
  <2> DEFINE i == g[first]
  <2>7. i \in LeastAt(rows, I) /\ i \in I /\ I # {}
    BY <1>3, <2>5, <2>6
  <2>8. s[first].resolver = rows[i].resolver /\ s[first].latency = rows[i].latency
    BY <1>2, <2>5
  <2>9. shared <=> LeastAt(rows, I) # {i}
    <3>1. ASSUME shared PROVE LeastAt(rows, I) # {i}
      <4>1. PICK n \in 1..N : n # first /\ least(n)
        BY <1>1, <3>1
      <4>2. g[n] \in LeastAt(rows, I) /\ g[n] # i
        BY <1>3, <2>5, <2>6, <4>1
      <4> QED
        BY <4>2
    <3>2. ASSUME LeastAt(rows, I) # {i} PROVE shared
      <4>1. PICK k \in LeastAt(rows, I) : k # i
        BY <2>7, <3>2
      <4>2. PICK n \in 1..N : g[n] = k
        BY <1>3 DEF LeastAt
      <4>3. n # first /\ least(n)
        BY <2>6, <4>1, <4>2
      <4> QED
        BY <1>1, <4>3
    <3> QED
      BY <3>1, <3>2
  <2>10. shared = (LeastAt(rows, I) # {i})
    <3> DEFINE both == LeastAt(rows, I) # {i}
    <3>1. shared \in BOOLEAN /\ both \in BOOLEAN
      OBVIOUS
    <3>2. shared <=> both
      BY <2>9
    <3> HIDE DEF shared, both
    <3>3. shared = both
      BY <3>1, <3>2
    <3> QED
      BY <3>3 DEF both
  <2>11. Dataset!ArgMin(s) = [resolver |-> rows[i].resolver, latency |-> rows[i].latency,
                              tied |-> LeastAt(rows, I) # {i}]
    BY <2>1, <2>8, <2>10
  <2> QED
    BY <2>7, <2>11 DEF Won
<1> QED
  BY <1>5, <1>6

\* Winners of the same rows differ only if there is a tie.
LEMMA WonAlike ==
    ASSUME NEW rows, NEW I, NEW v, NEW w, Won(rows, I, v), Won(rows, I, w)
    PROVE  v.tied = w.tied /\ (~v.tied => w = v)
<1>1. CASE I = {}
  BY <1>1 DEF Won
<1>2. CASE I # {}
  <2> DEFINE L == LeastAt(rows, I)
             by(i) == [resolver |-> rows[i].resolver, latency |-> rows[i].latency,
                       tied |-> L # {i}]
  <2>1. PICK i \in L : v = by(i)
    BY <1>2 DEF Won
  <2>2. PICK j \in L : w = by(j)
    BY <1>2 DEF Won
  <2>3. v.tied = (L # {i}) /\ w.tied = (L # {j})
    BY <2>1, <2>2
  <2> HIDE DEF L
  <2>4. CASE L = {i}
    <3>1. j = i
      BY <2>4
    <3> QED
      BY <2>1, <2>2, <3>1
  <2>5. CASE L # {i}
    <3>1. L # {j}
      BY <2>5
    <3> QED
      BY <2>3, <2>5, <3>1
  <2> QED
    BY <2>4, <2>5
<1> QED
  BY <1>1, <1>2

\* What a row must be for it to be ranked.
Ranked(rows, I) == \A i \in I : rows[i].latency \in Int /\ rows[i].resolver # Absent

\* The derivation from rows that are all there.
LEMMA DerivedIs ==
    ASSUME NEW rows, NEW I, NEW s, Picked(s, rows, I), Ranked(rows, I),
           NEW d, d = Dataset!Derived(s)
    PROVE  LET R == AnsweredAt(rows, I)
               A == AcceptedAt(rows, R)
           IN /\ d.analyzable = (A # {})
              /\ Won(rows, R, d.fastest) /\ Won(rows, A, d.fastestAccepted)
              /\ d.why \in {Absent, "nobody responded", "nobody acceptable"}
              /\ d.analyzable => d.matches \in BOOLEAN
<1> DEFINE R == AnsweredAt(rows, I)
           A == AcceptedAt(rows, R)
           responding == Dataset!Responding(s)
           fastest == Dataset!ArgMin(responding)
           best == Dataset!ArgMin(Dataset!Accepted(responding))
           analyzable == best.resolver # Absent
           why == IF fastest.resolver = Absent THEN "nobody responded"
                  ELSE IF ~analyzable THEN "nobody acceptable" ELSE Absent
           matches == IF analyzable THEN fastest.resolver = best.resolver ELSE Absent
           a == Len(responding)
           b == Len(Dataset!Accepted(responding))
           c == Len(s) - Len(responding)
<1>1. d = [analyzable |-> analyzable, why |-> why, fastest |-> fastest,
           fastestAccepted |-> best, matches |-> matches, responding |-> a,
           accepted |-> b, censored |-> c]
  BY DEF Dataset!Derived
<1>2. Picked(responding, rows, R)
  BY RespondingPicked
<1>3. Picked(Dataset!Accepted(responding), rows, A)
  <2> HIDE DEF responding, R
  <2> QED
    BY <1>2, AcceptedPicked
<1>4. \A i \in R : i \in I
  BY DEF AnsweredAt
<1>5. \A i \in A : i \in I
  BY <1>4 DEF AcceptedAt
<1> HIDE DEF R, A
<1>6. Won(rows, R, fastest)
  <2>1. \A i \in R : rows[i].latency \in Int
    BY <1>4 DEF Ranked
  <2> HIDE DEF responding
  <2> QED
    BY <1>2, <2>1, ArgMinIs
<1>7. Won(rows, A, best)
  <2>1. \A i \in A : rows[i].latency \in Int
    BY <1>5 DEF Ranked
  <2> HIDE DEF responding
  <2> QED
    BY <1>3, <2>1, ArgMinIs
<1> HIDE DEF fastest, best, responding
<1>8. analyzable <=> A # {}
  <2>1. CASE A = {}
    BY <1>7, <2>1 DEF Won
  <2>2. CASE A # {}
    <3>1. PICK i \in LeastAt(rows, A) : best = [resolver |-> rows[i].resolver,
                   latency |-> rows[i].latency, tied |-> LeastAt(rows, A) # {i}]
      BY <1>7, <2>2 DEF Won
    <3>2. best.resolver = rows[i].resolver
      BY <3>1
    <3>3. rows[i].resolver # Absent
      BY <1>5 DEF Ranked, LeastAt
    <3> QED
      BY <2>2, <3>2, <3>3
  <2> QED
    BY <2>1, <2>2
<1>9. why \in {Absent, "nobody responded", "nobody acceptable"}
  OBVIOUS
<1>10. analyzable => matches \in BOOLEAN
  OBVIOUS
<1>11. analyzable \in BOOLEAN
  OBVIOUS
<1> HIDE DEF analyzable, why, matches, a, b, c
<1>12. d.analyzable = analyzable /\ d.why = why /\ d.fastest = fastest
       /\ d.fastestAccepted = best /\ d.matches = matches
  BY <1>1
<1>13. d.analyzable = (A # {})
  <2> DEFINE some == A # {}
  <2>1. some \in BOOLEAN /\ (analyzable <=> some)
    BY <1>8
  <2> HIDE DEF some
  <2>2. analyzable = some
    BY <1>11, <2>1
  <2> QED
    BY <1>12, <2>2 DEF some
<1>14. d.analyzable => d.matches \in BOOLEAN
  BY <1>10, <1>12
<1> QED
  BY <1>6, <1>7, <1>9, <1>12, <1>13, <1>14 DEF R, A

\* A derivation is of the rows, or says why it is not.
LEMMA DeriveIs ==
    ASSUME NEW t, NEW s, NEW d, d = Dataset!DeriveTrial(t, s)
    PROVE  /\ t.complete /\ Len(s) = t.expected => d = Dataset!Derived(s)
           /\ ~(t.complete /\ Len(s) = t.expected) => d.analyzable = FALSE
<1>1. \A why : Dataset!Excluded(why).analyzable = FALSE
  <2> TAKE why
  <2> DEFINE w == Dataset!ArgMin(<< >>)
  <2>1. Dataset!Excluded(why) = [analyzable |-> FALSE, why |-> why, fastest |-> w,
          fastestAccepted |-> w, matches |-> Absent, responding |-> 0, accepted |-> 0,
          censored |-> 0]
    BY DEF Dataset!Excluded
  <2> HIDE DEF w
  <2> QED
    BY <2>1
<1> QED
  BY <1>1 DEF Dataset!DeriveTrial

\* The rows of a trial, by their positions in the file.
LEMMA RowsPicked ==
    ASSUME NEW s, NEW k, Sequential(s)
    PROVE  Picked(Dataset!ObservationsOf(k, s), s, RowsOf(s, k))
<1> DEFINE P == {s[i] : i \in RowsOf(s, k)}
           I == 1..Len(s)
           J == RowsOf(s, k)
<1>1. Dataset!ObservationsOf(k, s) = Dataset!Selected(s, J)
  BY DEF Dataset!ObservationsOf, Dataset!Rows, Dataset!Where, RowsOf
<1>2. DOMAIN s = I
  BY SequentialIs
<1>3. J = {n \in DOMAIN s : s[n] \in P} /\ J = {n \in I : s[n] \in P}
  <2>1. ASSUME NEW n \in DOMAIN s PROVE n \in J <=> s[n] \in P
    BY DEF RowsOf
  <2>2. J \in SUBSET DOMAIN s
    BY DEF RowsOf
  <2> HIDE DEF J, P, I
  <2> QED
    BY <1>2, <2>1, <2>2
<1>4. Picked(s, s, I)
  BY PickedWhole
<1> HIDE DEF J, P, I
<1>5. Picked(Dataset!Selected(s, J), s, J)
  BY <1>3, <1>4, PickedFilter
<1> QED
  BY <1>1, <1>5 DEF J

-----------------------------------------------------------------------------
DatasetInv ==
    /\ trialRows \in Seq(TrialRows)
    /\ observationRows \in Seq(ObservationRows)

LEMMA RowsAre ==
    ASSUME DatasetInv
    PROVE  /\ Sequential(trialRows) /\ Sequential(observationRows)
           /\ \A i \in DOMAIN trialRows : trialRows[i].complete \in BOOLEAN
           /\ \A i \in DOMAIN observationRows :
                /\ observationRows[i].latency \in Int /\ observationRows[i].accepted \in BOOLEAN
                /\ observationRows[i].resolver # Absent
           /\ Absent # "observations missing"
           /\ \A k : Ranked(observationRows, RowsOf(observationRows, k))
<1>1. Dataset!DatasetAssumption
  BY DatasetAssumed
<1>2. /\ Len(trialRows) \in Nat /\ DOMAIN trialRows = 1..Len(trialRows)
      /\ trialRows = [i \in 1..Len(trialRows) |-> trialRows[i]]
      /\ \A i \in 1..Len(trialRows) : trialRows[i] \in TrialRows
  BY LenProperties, ElementOfSeq DEF DatasetInv
<1>3. /\ Len(observationRows) \in Nat /\ DOMAIN observationRows = 1..Len(observationRows)
      /\ observationRows = [i \in 1..Len(observationRows) |-> observationRows[i]]
      /\ \A i \in 1..Len(observationRows) : observationRows[i] \in ObservationRows
  BY LenProperties, ElementOfSeq DEF DatasetInv
<1>4. Sequential(trialRows) /\ Sequential(observationRows)
  BY <1>2, <1>3, FunctionIsSequential
<1>5. \A i \in DOMAIN trialRows : trialRows[i].complete \in BOOLEAN
  BY <1>1, <1>2 DEF Dataset!DatasetAssumption
<1>6. \A i \in DOMAIN observationRows :
        /\ observationRows[i].latency \in Int /\ observationRows[i].accepted \in BOOLEAN
        /\ observationRows[i].resolver # Absent
  BY <1>1, <1>3 DEF Dataset!DatasetAssumption
<1>7. \A k : Ranked(observationRows, RowsOf(observationRows, k))
  BY <1>6 DEF Ranked, RowsOf
<1> QED
  BY <1>1, <1>4, <1>5, <1>6, <1>7 DEF Dataset!DatasetAssumption

LEMMA DerivationIs ==
    ASSUME NEW i \in DOMAIN trialRows
    PROVE  Dataset!Derivations[i] = Dataset!DeriveTrial(trialRows[i], Dataset!RowsOf(i))
  BY DEF Dataset!Derivations, Dataset!DeriveAll, Dataset!RowsOf

LEMMA WinnersQuickest ==
    ASSUME DatasetInv
    PROVE  Dataset!WinnersAreQuickest
<1> SUFFICES ASSUME NEW i \in Dataset!Analyzed
             PROVE  LET answers == Dataset!Answers(Dataset!RowsOf(i))
                        good == {o \in answers : o.accepted}
                    IN /\ Dataset!Derivations[i].fastest.resolver
                            \in Dataset!Named(Dataset!Quickest(answers))
                       /\ Dataset!Derivations[i].fastestAccepted.resolver
                            \in Dataset!Named(Dataset!Quickest(good))
  BY DEF Dataset!WinnersAreQuickest
<1> DEFINE rows == Dataset!RowsOf(i)
           d == Dataset!Derivations[i]
           obs == observationRows
           I == RowsOf(obs, trialRows[i].key)
           R == AnsweredAt(obs, I)
           A == AcceptedAt(obs, R)
           answers == Dataset!Answers(rows)
           good == {o \in answers : o.accepted}
<1>1. i \in DOMAIN trialRows /\ d.analyzable
  BY DEF Dataset!Analyzed
<1>2. Picked(rows, obs, I)
  BY RowsAre, RowsPicked DEF Dataset!RowsOf
<1>3. d = Dataset!DeriveTrial(trialRows[i], rows)
  BY <1>1, DerivationIs
<1>4. Ranked(obs, I)
  BY RowsAre
<1> HIDE DEF rows, d, I
<1>5. d = Dataset!Derived(rows)
  BY <1>1, <1>3, DeriveIs
<1>6. d.analyzable = (A # {}) /\ Won(obs, R, d.fastest) /\ Won(obs, A, d.fastestAccepted)
  BY <1>2, <1>4, <1>5, DerivedIs
<1>7. Dataset!ToSet(rows) = {obs[n] : n \in I}
  <2>1. Dataset!ToSet(rows) = {rows[n] : n \in DOMAIN rows}
    BY DEF Dataset!ToSet
  <2>2. PICK g \in Bijection(1..Len(rows), I) : \A n \in 1..Len(rows) : rows[n] = obs[g[n]]
    BY <1>2 DEF Picked
  <2>3. g \in [1..Len(rows) -> I] /\ \A m \in I : \E n \in 1..Len(rows) : g[n] = m
    BY <2>2, BijectionHas
  <2>4. DOMAIN rows = 1..Len(rows)
    BY <1>2, PickedRows
  <2> QED
    BY <2>1, <2>2, <2>3, <2>4
<1>8. answers = {obs[n] : n \in R}
  BY <1>7 DEF Dataset!Answers, AnsweredAt
<1>9. good = {obs[n] : n \in A}
  BY <1>8 DEF AcceptedAt
<1> HIDE DEF answers, good, R
<1>10. A # {} /\ R # {}
  BY <1>1, <1>6 DEF AcceptedAt
<1>11. d.fastest.resolver \in Dataset!Named(Dataset!Quickest(answers))
  <2>1. PICK n \in LeastAt(obs, R) : d.fastest = [resolver |-> obs[n].resolver,
                 latency |-> obs[n].latency, tied |-> LeastAt(obs, R) # {n}]
    BY <1>6, <1>10 DEF Won
  <2>2. d.fastest.resolver = obs[n].resolver
    BY <2>1
  <2>3. obs[n] \in Dataset!Quickest(answers)
    BY <1>8 DEF Dataset!Quickest, LeastAt
  <2> QED
    BY <2>2, <2>3 DEF Dataset!Named
<1> HIDE DEF A
<1>12. d.fastestAccepted.resolver \in Dataset!Named(Dataset!Quickest(good))
  <2>1. PICK n \in LeastAt(obs, A) : d.fastestAccepted = [resolver |-> obs[n].resolver,
                 latency |-> obs[n].latency, tied |-> LeastAt(obs, A) # {n}]
    BY <1>6, <1>10 DEF Won
  <2>2. d.fastestAccepted.resolver = obs[n].resolver
    BY <2>1
  <2>3. obs[n] \in Dataset!Quickest(good)
    BY <1>9 DEF Dataset!Quickest, LeastAt
  <2> QED
    BY <2>2, <2>3 DEF Dataset!Named
<1> QED
  BY <1>11, <1>12 DEF rows, d, answers, good

\* Rows in another order are the same rows.
LEMMA RearrangedIs ==
    ASSUME NEW s, NEW obs, NEW I, Picked(s, obs, I), NEW u \in Dataset!Rearranged(s)
    PROVE  Picked(u, obs, I) /\ Len(u) = Len(s)
<1> DEFINE N == Len(s)
<1>1. N \in Nat /\ DOMAIN s = 1..N
  BY SequentialIs DEF Picked
<1>2. PICK f \in [1..N -> 1..N] : /\ \A a, b \in 1..N : f[a] = f[b] => a = b
                                  /\ u = [i \in 1..N |-> s[f[i]]]
  BY <1>1 DEF Dataset!Rearranged
<1>3. PICK g \in Bijection(1..N, I) : \A n \in 1..N : s[n] = obs[g[n]]
  BY DEF Picked
<1>4. /\ g \in [1..N -> I] /\ \A a, b \in 1..N : g[a] = g[b] => a = b
      /\ \A i \in I : \E a \in 1..N : g[a] = i
  BY <1>3, BijectionHas
<1> HIDE DEF N
<1>5. DOMAIN u = 1..N /\ u = [n \in 1..N |-> u[n]] /\ \A n \in 1..N : u[n] = s[f[n]]
  BY <1>2
<1>6. Sequential(u) /\ Len(u) = N
  BY <1>1, <1>5, FunctionIsSequential
<1>7. \A b \in 1..N : \E a \in 1..N : f[a] = b
  <2> DEFINE S == 1..N
  <2>1. IsFiniteSet(S)
    BY <1>1, FS_Interval
  <2>2. f \in Injection(S, S)
    BY <1>2 DEF Injection, IsInjective
  <2> HIDE DEF S
  <2>3. f \in Surjection(S, S)
    BY <2>1, <2>2, FS_Injection
  <2>4. \A b \in S : \E a \in S : f[a] = b
    BY <2>3 DEF Surjection
  <2> QED
    BY <2>4 DEF S
<1> DEFINE h == [n \in 1..N |-> g[f[n]]]
<1>8. h \in [1..N -> I] /\ \A n \in 1..N : h[n] = g[f[n]] /\ f[n] \in 1..N
  BY <1>2, <1>4
<1> HIDE DEF h
<1>9. h \in Bijection(1..N, I)
  <2>1. \A a, b \in 1..N : h[a] = h[b] => a = b
    BY <1>2, <1>4, <1>8
  <2>2. ASSUME NEW i \in I PROVE \E a \in 1..N : h[a] = i
    <3>1. PICK b \in 1..N : g[b] = i
      BY <1>4
    <3>2. PICK a \in 1..N : f[a] = b
      BY <1>7
    <3> QED
      BY <1>8, <3>1, <3>2
  <2> QED
    BY <1>8, <2>1, <2>2, BijectionIs
<1>10. \A n \in 1..N : u[n] = obs[h[n]]
  BY <1>3, <1>5, <1>8
<1> QED
  BY <1>6, <1>9, <1>10 DEF Picked, N

LEMMA OrderDecidesTies ==
    ASSUME DatasetInv
    PROVE  Dataset!OrderDecidesOnlyTies
<1> SUFFICES ASSUME NEW i \in DOMAIN trialRows,
                    NEW u \in Dataset!Rearranged(Dataset!RowsOf(i))
             PROVE  LET here == Dataset!Derivations[i]
                        there == Dataset!DeriveTrial(trialRows[i], u)
                    IN /\ there.analyzable = here.analyzable
                       /\ there.fastest.tied = here.fastest.tied
                       /\ there.fastestAccepted.tied = here.fastestAccepted.tied
                       /\ ~here.fastest.tied => there.fastest = here.fastest
                       /\ ~here.fastestAccepted.tied =>
                            there.fastestAccepted = here.fastestAccepted
  BY DEF Dataset!OrderDecidesOnlyTies
<1> DEFINE rows == Dataset!RowsOf(i)
           t == trialRows[i]
           here == Dataset!Derivations[i]
           there == Dataset!DeriveTrial(t, u)
           obs == observationRows
           I == RowsOf(obs, t.key)
           R == AnsweredAt(obs, I)
           A == AcceptedAt(obs, R)
<1>1. here = Dataset!DeriveTrial(t, rows)
  BY DerivationIs
<1>2. Picked(rows, obs, I)
  BY RowsAre, RowsPicked DEF Dataset!RowsOf
<1>3. Ranked(obs, I)
  BY RowsAre
<1>4. u \in Dataset!Rearranged(rows)
  OBVIOUS
<1>0. there = Dataset!DeriveTrial(t, u)
  OBVIOUS
<1> HIDE DEF rows, here, there, I
<1>5. Picked(u, obs, I) /\ Len(u) = Len(rows)
  BY <1>2, <1>4, RearrangedIs
<1>6. CASE t.complete /\ Len(rows) = t.expected
  <2>1. here = Dataset!Derived(rows) /\ there = Dataset!Derived(u)
    BY <1>0, <1>1, <1>5, <1>6, DeriveIs
  <2>2. here.analyzable = (A # {}) /\ Won(obs, R, here.fastest)
        /\ Won(obs, A, here.fastestAccepted)
    BY <1>2, <1>3, <2>1, DerivedIs
  <2>3. there.analyzable = (A # {}) /\ Won(obs, R, there.fastest)
        /\ Won(obs, A, there.fastestAccepted)
    BY <1>3, <1>5, <2>1, DerivedIs
  <2> HIDE DEF R, A
  <2>4. /\ there.fastest.tied = here.fastest.tied
        /\ ~here.fastest.tied => there.fastest = here.fastest
    BY <2>2, <2>3, WonAlike
  <2>5. /\ there.fastestAccepted.tied = here.fastestAccepted.tied
        /\ ~here.fastestAccepted.tied => there.fastestAccepted = here.fastestAccepted
    BY <2>2, <2>3, WonAlike
  <2> QED
    BY <2>2, <2>3, <2>4, <2>5 DEF here, there, rows
<1>7. CASE ~(t.complete /\ Len(rows) = t.expected)
  <2>1. here = there
    BY <1>0, <1>1, <1>5, <1>7 DEF Dataset!DeriveTrial
  <2> QED
    BY <2>1 DEF here, there, rows
<1> QED
  BY <1>6, <1>7

\* The rows of a dataset that passes the audit are of different resolvers.
LEMMA AuditSays ==
    ASSUME Dataset!Violations(trialRows, observationRows) = {}
    PROVE  /\ \A i \in DOMAIN trialRows : trialRows[i].complete =>
                Len(Dataset!RowsOf(i)) = trialRows[i].expected
           /\ \A m, n \in DOMAIN observationRows :
                m # n /\ observationRows[m].key = observationRows[n].key =>
                  observationRows[m].resolver # observationRows[n].resolver
           /\ \A n \in DOMAIN observationRows :
                observationRows[n].accepted => observationRows[n].status = 200
<1>1. /\ Dataset!CountViolations(trialRows, observationRows) = {}
      /\ Dataset!DuplicateViolations(observationRows) = {}
      /\ Dataset!SanityViolations(observationRows) = {}
  BY DEF Dataset!Violations
<1>2. ASSUME NEW i \in DOMAIN trialRows, trialRows[i].complete
      PROVE  Len(Dataset!RowsOf(i)) = trialRows[i].expected
  <2>1. trialRows[i] \in Dataset!ToSet(trialRows)
    BY DEF Dataset!ToSet
  <2>2. "complete but short" \notin Dataset!CountViolations(trialRows, observationRows)
    BY <1>1
  <2>3. \A t \in Dataset!ToSet(trialRows) :
          ~(t.complete /\ Len(Dataset!ObservationsOf(t.key, observationRows)) # t.expected)
    BY <2>2 DEF Dataset!CountViolations
  <2> QED
    BY <1>2, <2>1, <2>3 DEF Dataset!RowsOf
<1>3. ASSUME NEW m \in DOMAIN observationRows, NEW n \in DOMAIN observationRows, m # n,
             observationRows[m].key = observationRows[n].key
      PROVE  observationRows[m].resolver # observationRows[n].resolver
  <2>1. "duplicate" \notin Dataset!DuplicateViolations(observationRows)
    BY <1>1
  <2> QED
    BY <1>3, <2>1 DEF Dataset!DuplicateViolations
<1>4. ASSUME NEW n \in DOMAIN observationRows, observationRows[n].accepted
      PROVE  observationRows[n].status = 200
  <2>1. observationRows[n] \in Dataset!ToSet(observationRows)
    BY DEF Dataset!ToSet
  <2>2. "accepted without 200" \notin Dataset!SanityViolations(observationRows)
    BY <1>1
  <2>3. \A o \in Dataset!ToSet(observationRows) : ~(o.accepted /\ o.status # 200)
    BY <2>2 DEF Dataset!SanityViolations
  <2> QED
    BY <1>4, <2>1, <2>3
<1> QED
  BY <1>2, <1>3, <1>4

LEMMA AuditedWhole ==
    ASSUME DatasetInv
    PROVE  Dataset!AuditedIsWhole
<1> SUFFICES ASSUME Dataset!Violations(trialRows, observationRows) = {},
                    NEW i \in DOMAIN trialRows, trialRows[i].complete
             PROVE  /\ Cardinality(Dataset!Named(Dataset!ToSet(Dataset!RowsOf(i))))
                         = trialRows[i].expected
                    /\ Len(Dataset!RowsOf(i)) = trialRows[i].expected
                    /\ Dataset!Derivations[i].why # "observations missing"
                    /\ \A o \in Dataset!ToSet(Dataset!RowsOf(i)) : o.accepted => o.status = 200
  BY DEF Dataset!AuditedIsWhole, Dataset!Cardinality, Cardinality
<1> DEFINE rows == Dataset!RowsOf(i)
           t == trialRows[i]
           obs == observationRows
           I == RowsOf(obs, t.key)
           N == Len(rows)
           named == Dataset!Named(Dataset!ToSet(rows))
<1>1. N = t.expected
  BY AuditSays
<1>2. Picked(rows, obs, I)
  BY RowsAre, RowsPicked DEF Dataset!RowsOf
<1>3. I \in SUBSET DOMAIN obs /\ \A n \in I : obs[n].key = t.key
  BY DEF RowsOf
<1>4. Dataset!Derivations[i] = Dataset!DeriveTrial(t, rows)
  BY DerivationIs
<1> HIDE DEF rows, I, t
<1>5. PICK g \in Bijection(1..N, I) : \A n \in 1..N : rows[n] = obs[g[n]]
  BY <1>2 DEF Picked
<1>6. g \in [1..N -> I] /\ \A a, b \in 1..N : g[a] = g[b] => a = b
  BY <1>5, BijectionHas
<1>7. N \in Nat /\ DOMAIN rows = 1..N
  BY <1>2, SequentialIs DEF Picked
<1>8. Dataset!ToSet(rows) = {rows[n] : n \in 1..N}
  BY <1>7 DEF Dataset!ToSet
<1>9. named = {rows[n].resolver : n \in 1..N}
  BY <1>8 DEF Dataset!Named
<1>10. Cardinality(named) = N
  <2> DEFINE h == [n \in 1..N |-> rows[n].resolver]
             S == 1..N
  <2>1. ASSUME NEW a \in 1..N, NEW b \in 1..N, h[a] = h[b] PROVE a = b
    <3>1. obs[g[a]].resolver = obs[g[b]].resolver /\ g[a] \in I /\ g[b] \in I
      BY <1>5, <1>6, <2>1
    <3>2. g[a] \in DOMAIN obs /\ g[b] \in DOMAIN obs /\ obs[g[a]].key = obs[g[b]].key
      BY <1>3, <3>1
    <3>3. g[a] = g[b]
      BY <3>1, <3>2, AuditSays
    <3> QED
      BY <1>6, <3>3
  <2>2. h \in [S -> named] /\ \A x \in named : \E a \in S : h[a] = x
    BY <1>9
  <2>3. IsFiniteSet(S) /\ Cardinality(S) = N
    BY <1>7, FS_Interval
  <2> HIDE DEF h, named, N
  <2>4. h \in Bijection(S, named)
    BY <2>1, <2>2, BijectionIs
  <2> HIDE DEF S
  <2>5. Cardinality(named) = Cardinality(S)
    BY <2>3, <2>4, FS_Bijection DEF ExistsBijection
  <2> QED
    BY <2>3, <2>5
<1>11. Dataset!Derivations[i].why # "observations missing"
  <2>1. t.complete /\ Len(rows) = t.expected
    BY <1>1 DEF t
  <2> DEFINE d == Dataset!Derived(rows)
  <2>2. Dataset!Derivations[i] = d
    BY <1>4, <2>1, DeriveIs
  <2>3. d.why \in {Absent, "nobody responded", "nobody acceptable"}
    <3>1. Ranked(obs, I)
      BY RowsAre DEF I
    <3>2. d = Dataset!Derived(rows)
      OBVIOUS
    <3> HIDE DEF d
    <3> QED
      BY <1>2, <3>1, <3>2, DerivedIs
  <2> HIDE DEF d
  <2>4. Absent # "observations missing"
    BY RowsAre
  <2> QED
    BY <2>2, <2>3, <2>4
<1>12. ASSUME NEW o \in Dataset!ToSet(rows), o.accepted PROVE o.status = 200
  <2>1. PICK n \in 1..N : o = rows[n]
    BY <1>8
  <2>2. o = obs[g[n]] /\ g[n] \in DOMAIN obs
    BY <1>3, <1>5, <1>6, <2>1
  <2> QED
    BY <1>12, <2>2, AuditSays
<1> QED
  BY <1>1, <1>10, <1>11, <1>12 DEF rows, t

\* A summary counts every derivation once.
LEMMA SummaryIs ==
    ASSUME NEW D, Sequential(D), NEW A, A = {i \in DOMAIN D : D[i].analyzable},
           \A i \in A : D[i].matches \in BOOLEAN, NEW s, s = Dataset!Summary(D)
    PROVE  /\ s.total = Len(D) /\ s.total = s.analyzable + s.excluded
           /\ s.analyzable = s.equal + s.differs
           /\ s.analyzable = Cardinality(A)
<1> DEFINE m == Cardinality(A)
           picked == Dataset!Selected(D, A)
           equal == {n \in DOMAIN picked : picked[n].matches = TRUE}
           differ == {n \in DOMAIN picked : picked[n].matches = FALSE}
           c == Dataset!Count(D, LAMBDA d : d.censored > 0)
           t == Dataset!Count(D, LAMBDA d : d.fastest.tied \/ d.fastestAccepted.tied)
           e == Cardinality(equal)
           f == Cardinality(differ)
           x == Len(D) - Len(picked)
<1>1. A \in SUBSET DOMAIN D
  OBVIOUS
<1>2. Len(D) \in Nat
  BY SequentialIs
<1>3. /\ Len(picked) = m /\ m \in Nat /\ DOMAIN picked = 1..m
      /\ \A n \in 1..m : picked[n] = D[NthOf(A, n)] /\ NthOf(A, n) \in A
  <2> HIDE DEF picked
  <2>1. picked = Campaign!Selected(D, A)
    BY DatasetSelects DEF picked
  <2> QED
    BY <1>1, <2>1, SelectedIs
<1>4. Dataset!Rows(D, LAMBDA d : d.analyzable) = picked
  BY DEF Dataset!Rows, Dataset!Where
<1>5. s = [total |-> Len(D), analyzable |-> Len(picked), excluded |-> x,
           equal |-> e, differs |-> f, censored |-> c, tied |-> t]
  <2>1. Dataset!Count(picked, LAMBDA d : d.matches = TRUE) = e
        /\ Dataset!Count(picked, LAMBDA d : d.matches = FALSE) = f
    BY DEF Dataset!Count, Dataset!Where, Dataset!Cardinality, Cardinality
  <2> HIDE DEF picked, e, f, equal, differ
  <2> QED
    BY <1>4, <2>1 DEF Dataset!Summary
<1> HIDE DEF picked, c, t, m
<1>6. e + f = m /\ e \in Nat /\ f \in Nat
  <2>1. equal \in SUBSET (1..m) /\ differ \in SUBSET (1..m)
    BY <1>3
  <2>2. equal \cup differ = 1..m
    <3>1. ASSUME NEW n \in 1..m PROVE picked[n].matches \in BOOLEAN
      BY <1>3
    <3> QED
      BY <1>3, <2>1, <3>1
  <2>3. equal \cap differ = {}
    OBVIOUS
  <2> HIDE DEF equal, differ
  <2>4. IsFiniteSet(equal) /\ IsFiniteSet(differ) /\ e \in Nat /\ f \in Nat
    BY <1>3, <2>1, PositionsFinite
  <2>5. Cardinality(equal \cup differ) = e + f - Cardinality(equal \cap differ)
    BY <2>4, FS_Union
  <2>6. Cardinality(1..m) = m /\ Cardinality({}) = 0
    BY <1>3, FS_Interval, FS_EmptySet
  <2>7. Cardinality(equal \cap differ) = 0 /\ Cardinality(equal \cup differ) = m
    BY <2>2, <2>3, <2>6
  <2>8. m = e + f - 0
    BY <2>5, <2>7
  <2> HIDE DEF e, f
  <2> QED
    BY <1>3, <2>4, <2>8
<1> HIDE DEF e, f, x
<1>7. s.total = Len(D) /\ s.analyzable = Len(picked) /\ s.excluded = x
      /\ s.equal = e /\ s.differs = f
  BY <1>5
<1>8. Len(D) = m + x
  BY <1>2, <1>3 DEF x
<1> QED
  BY <1>3, <1>6, <1>7, <1>8 DEF m

LEMMA SummaryIsWhole ==
    ASSUME DatasetInv
    PROVE  Dataset!SummaryAddsUp
<1> DEFINE D == Dataset!Derivations
           n == Len(trialRows)
           A == Dataset!Analyzed
           s == Dataset!Summary(D)
<1>1. n \in Nat /\ DOMAIN trialRows = 1..n
  BY RowsAre, SequentialIs
<1>2. DOMAIN D = 1..n /\ D = [i \in 1..n |-> D[i]]
  BY <1>1 DEF Dataset!Derivations, Dataset!DeriveAll
<1>3. A = {i \in DOMAIN D : D[i].analyzable}
  BY <1>1, <1>2 DEF Dataset!Analyzed
<1> HIDE DEF n
<1>4. ASSUME NEW i \in A PROVE D[i].matches \in BOOLEAN
  <2> DEFINE obs == observationRows
             rows == Dataset!RowsOf(i)
             I == RowsOf(obs, trialRows[i].key)
             d == D[i]
  <2>1. i \in DOMAIN trialRows /\ d.analyzable
    BY DEF Dataset!Analyzed
  <2>2. d = Dataset!DeriveTrial(trialRows[i], rows)
    BY <2>1, DerivationIs
  <2>3. Picked(rows, obs, I)
    BY RowsAre, RowsPicked DEF Dataset!RowsOf
  <2>4. Ranked(obs, I)
    BY RowsAre
  <2> HIDE DEF rows, I, d
  <2>5. d = Dataset!Derived(rows)
    BY <2>1, <2>2, DeriveIs
  <2>6. d.matches \in BOOLEAN
    BY <2>1, <2>3, <2>4, <2>5, DerivedIs
  <2> QED
    BY <2>6 DEF d
<1> HIDE DEF D, A
<1>5. Sequential(D) /\ Len(D) = n
  BY <1>1, <1>2, FunctionIsSequential
<1>6. s = Dataset!Summary(D)
  OBVIOUS
<1> HIDE DEF s
<1>7. /\ s.total = n /\ s.total = s.analyzable + s.excluded
      /\ s.analyzable = s.equal + s.differs
      /\ s.analyzable = Cardinality(A)
  <2>1. /\ s.total = Len(D) /\ s.total = s.analyzable + s.excluded
        /\ s.analyzable = s.equal + s.differs
        /\ s.analyzable = Cardinality(A)
    BY ONLY <1>3, <1>4, <1>5, <1>6, SummaryIs
  <2> QED
    BY <1>5, <2>1
<1>8. Dataset!Cardinality(A) = Cardinality(A)
  BY DEF Dataset!Cardinality, Cardinality
<1> QED
  BY <1>7, <1>8 DEF Dataset!SummaryAddsUp, s, D, A, n

\* AnalysisIsSound for any files of any length that hold rows of the models'
\* types, whoever wrote them: the winners are quickest, the order of the rows
\* decides nothing but ties, the summary adds up, and a dataset that passes the
\* audit is whole.
THEOREM AnalysesAreSound == Dataset!Spec => []AnalysisIsSound
<1>1. Dataset!Init => DatasetInv
  BY DEF Dataset!Init, DatasetInv
<1>2. DatasetInv /\ [Dataset!Next]_(Dataset!vars) => DatasetInv'
  <2> SUFFICES ASSUME DatasetInv, [Dataset!Next]_(Dataset!vars) PROVE DatasetInv'
    OBVIOUS
  <2>1. ASSUME NEW row \in TrialRows, Dataset!RecordTrial(row) PROVE DatasetInv'
    BY <2>1 DEF DatasetInv, Dataset!RecordTrial
  <2>2. ASSUME NEW row \in ObservationRows, Dataset!RecordObservation(row) PROVE DatasetInv'
    BY <2>2 DEF DatasetInv, Dataset!RecordObservation
  <2>3. CASE UNCHANGED Dataset!vars
    BY <2>3 DEF DatasetInv, Dataset!vars
  <2> QED
    BY <2>1, <2>2, <2>3 DEF Dataset!Next
<1>3. DatasetInv => AnalysisIsSound
  BY WinnersQuickest, OrderDecidesTies, AuditedWhole, SummaryIsWhole
     DEF AnalysisIsSound, Dataset!AnalysisIsSound
<1> QED
  BY <1>1, <1>2, <1>3, PTL DEF Dataset!Spec
=============================================================================
