------------------------- MODULE ClosedLoop_proofs -------------------------
(***************************************************************************)
(* The closed loop and its evaluation for every set of providers, cost     *)
(* model, window, target and schedule, and for episodes of any length:     *)
(* what the policy knows is what it called and paid for, exploration       *)
(* leaves no blind spot, a strict policy without it never recovers from an *)
(* abstention, the decomposition and the comparison with the fixed subsets *)
(* are true to what happened, and training rows know only the past.        *)
(***************************************************************************)
EXTENDS Evaluation, SubsetSelection_proofs, SequenceTheorems, TLAPS

(***************************************************************************)
(* Arithmetic of the exploration schedule.                                 *)
(***************************************************************************)
LEMMA NextMultiple ==
    ASSUME NEW n \in Nat \ {0}, NEW i \in Nat, i % n = 0
    PROVE  (i + n) % n = 0
<1>1. PICK m \in Nat : i = n * m
  BY SMTT(30)
<1>2. \A k \in Nat : (n * k + 0) % n = 0
  BY SMTT(30)
<1>3. i + n = n * (m + 1) + 0
  BY <1>1
<1>4. (n * (m + 1) + 0) % n = 0
  <2>1. m + 1 \in Nat
    OBVIOUS
  <2> QED
    BY <1>2, <2>1
<1> QED
  BY <1>3, <1>4

\* Of n consecutive trials one is scheduled for exploration.
LEMMA ScheduledInTime ==
    ASSUME NEW n \in Nat \ {0}, NEW i \in Nat, i >= n
    PROVE  \E j \in (i - n + 1)..i : j > 0 /\ j % n = 0
<1> DEFINE In(k) == \E j \in (k - n + 1)..k : j > 0 /\ j % n = 0
           Missed == {k \in Nat : k >= n /\ ~In(k)}
<1>1. SUFFICES ASSUME Missed # {} PROVE FALSE
  OBVIOUS
<1>2. PICK k \in Missed : \A m \in Missed : k <= m
  <2>1. Missed \in SUBSET Nat
    OBVIOUS
  <2> HIDE DEF Missed
  <2> QED
    BY <1>1, <2>1, LeastElement
<1>3. CASE k = n
  <2>1. 0 % n = 0
    BY SMTT(30)
  <2>2. (0 + n) % n = 0
    BY <2>1, NextMultiple
  <2>3. In(k)
    BY <1>3, <2>2
  <2> QED
    BY <2>3
<1>4. CASE k # n
  <2>1. k - 1 \in Nat /\ k - 1 >= n /\ k - 1 \notin Missed
    BY <1>2, <1>4
  <2>2. PICK j \in (k - 1 - n + 1)..(k - 1) : j > 0 /\ j % n = 0
    BY <2>1
  <2>3. CASE j = k - n
    <3>1. (j + n) % n = 0
      <4>1. j \in Nat
        BY <2>1, <2>2
      <4> QED
        BY <2>2, <4>1, NextMultiple
    <3>2. j + n = k
      BY <2>3
    <3>3. In(k)
      BY <3>1, <3>2
    <3> QED
      BY <3>3
  <2>4. CASE j # k - n
    <3>1. j \in (k - n + 1)..k
      BY <2>1, <2>4
    <3> QED
      BY <2>2, <3>1
  <2> QED
    BY <2>3, <2>4
<1> QED
  BY <1>3, <1>4

(***************************************************************************)
(* The estimator gives every subset an estimate, so the plan selects only  *)
(* providers.                                                              *)
(***************************************************************************)
LEMMA EstimateType ==
    ASSUME NEW h \in Seq(Bits)
    PROVE  Estimate(h) \in Nat
<1> DEFINE first == IF Len(h) > Window THEN Len(h) - Window + 1 ELSE 1
           recent == SubSeq(h, first, Len(h))
           hits == Cardinality({i \in DOMAIN recent : recent[i] = 1})
<1>1. Len(h) \in Nat /\ \A i \in 1..Len(h) : h[i] \in Bits
  BY ElementOfSeq, LenProperties
<1>2. first \in Nat \ {0}
  BY <1>1, ClosedLoopAssumption
<1> HIDE DEF first
<1>3. recent \in Seq(Bits) /\ Len(recent) \in Nat
  <2>1. first \in Int /\ Len(h) \in Int /\ \A i \in first..Len(h) : h[i] \in Bits
    BY <1>1, <1>2
  <2>2. recent \in Seq(Bits)
    BY <2>1, SubSeqProperties
  <2> QED
    BY <2>2, LenProperties
<1> HIDE DEF recent
<1>4. DOMAIN recent = 1..Len(recent)
  BY <1>3, LenProperties
<1>5. hits \in Nat
  <2>1. IsFiniteSet(1..Len(recent))
    BY <1>3, FS_Interval
  <2>2. IsFiniteSet({i \in DOMAIN recent : recent[i] = 1})
    <3>1. {i \in DOMAIN recent : recent[i] = 1} \in SUBSET (1..Len(recent))
      BY <1>4
    <3> QED
      BY <2>1, <3>1, FS_Subset
  <2> QED
    BY <2>2, FS_CardinalityType
<1> HIDE DEF hits
<1>6. (hits + 1) * Scale \in Nat /\ Len(recent) + 2 \in Nat \ {0}
  BY <1>3, <1>5, SelectionAssumption
<1>7. Estimate(h) = ((hits + 1) * Scale) \div (Len(recent) + 2)
  BY DEF Estimate, first, recent, hits
<1>8. \A x \in Nat, y \in Nat \ {0} : x \div y \in Nat
  OBVIOUS
<1> QED
  BY <1>6, <1>7, <1>8

LEMMA SelectedType ==
    ASSUME NEW h \in [Subsets(Providers) -> Seq(Bits)], NEW m, NEW t \in Targets
    PROVE  Selected(Estimates(h), m, t) \in SUBSET Providers
<1> DEFINE plan == Plan(Estimates(h), t)
<1>1. IsTable(Providers, Estimates(h))
  BY EstimateType DEF IsTable, Estimates
<1>2. t \in Nat /\ Providers \in SUBSET Providers /\ 12 \in Nat
      /\ "require-complete" \in Modes /\ FALSE \in BOOLEAN
  BY SelectionAssumption, ClosedLoopAssumption DEF Modes
<1>3. Sound(Providers, Estimates(h), t, 12, plan)
  BY <1>1, <1>2, SelectIsSound DEF Plan
<1>4. plan.subset \in SUBSET Providers /\ plan.best \in SUBSET Providers
  BY <1>3 DEF Sound
<1> HIDE DEF plan
<1>5. Selected(Estimates(h), m, t) \in {plan.subset, plan.best, Providers, {}}
  BY DEF Selected, plan
<1> QED
  BY <1>4, <1>5

LEMMA KnownOutcomeType ==
    ASSUME NEW S, NEW observed, NEW w
    PROVE  KnownOutcome(S, observed, w) # Unknown => KnownOutcome(S, observed, w) \in Bits
  BY DEF KnownOutcome, Bits

\* What is learned of a subset, which is nothing while none is observed.
LEMMA UpdatedType ==
    ASSUME subsetHistory \in [Subsets(Providers) -> Seq(Bits)], NEW observed, NEW w
    PROVE  Updated(observed, w) \in [Subsets(Providers) -> Seq(Bits)]
<1>1. \A S \in Subsets(Providers) :
        KnownOutcome(S, observed, w) # Unknown =>
          Append(subsetHistory[S], KnownOutcome(S, observed, w)) \in Seq(Bits)
  BY KnownOutcomeType, AppendProperties
<1> QED
  BY <1>1 DEF Updated

LEMMA NothingLearned ==
    ASSUME subsetHistory \in [Subsets(Providers) -> Seq(Bits)], NEW w
    PROVE  Updated({}, w) = subsetHistory
<1>1. \A S \in Subsets(Providers) : KnownOutcome(S, {}, w) = Unknown
  BY DEF KnownOutcome, Subsets
<1> QED
  BY <1>1 DEF Updated

(***************************************************************************)
(* The inductive invariant.                                                *)
(***************************************************************************)

\* There is an outcome for every complete trial, in their order.
Numbered ==
    /\ counter = Len(outcomes)
    /\ \A i, j \in DOMAIN outcomes : i < j => outcomes[i].trial < outcomes[j].trial

\* When exploration is due, every provider is called.
Explored ==
    \A i \in DOMAIN outcomes : Explores(i) => CalledIn(outcomes[i]) = Providers

\* A strict policy that has abstained has learned nothing since, so it abstains.
Stuck ==
    mode = "strict-slo" /\ interval = 0
    /\ (\E i \in DOMAIN outcomes : ~outcomes[i].committed)
    => counter >= coldStart /\ Selected(Estimates(subsetHistory), mode, target) = {}

LoopInv ==
    /\ TypeOK
    /\ Numbered
    /\ HistoryIsAcquired
    /\ Explored
    /\ Stuck
    /\ AbstentionSticks

Revelations(n) ==
    [trial : 1..n, observed : SUBSET Providers, within : SUBSET Providers,
     source : {"warmup", "selected_execution", "scheduled_exploration"}]

ClosedLoopOutcomes(n) ==
    [trial : 1..n, committed : BOOLEAN, selected : SUBSET Providers,
     satisfied : BOOLEAN, feasible : BOOLEAN, execution : Nat, exploration : Nat]

LEMMA TypeParts ==
    ASSUME TypeOK
    PROVE  /\ index \in Nat /\ counter \in Nat /\ interval \in Nat /\ coldStart \in Nat
           /\ deployment \in Seq(Revelations(index))
           /\ outcomes \in Seq(ClosedLoopOutcomes(index))
           /\ truth \in Seq(SUBSET Providers) /\ Len(truth) = index
           /\ IsFiniteSet(Providers) /\ Cardinality(Providers) \in Nat
           /\ (Cardinality(Providers) = 0 <=> Providers = {})
           /\ target \in Targets
           /\ subsetHistory \in [Subsets(Providers) -> Seq(Bits)]
<1>1. IsFiniteSet(Providers)
  BY SelectionAssumption
<1>2. Cardinality(Providers) \in Nat /\ (Cardinality(Providers) = 0 <=> Providers = {})
  BY <1>1, FS_CardinalityType, FS_EmptySet
<1>3. trials \in Nat /\ index \in Nat /\ counter \in Nat
  BY ClosedLoopAssumption DEF TypeOK
<1>4. interval \in Nat /\ coldStart \in Nat
  BY ClosedLoopAssumption DEF TypeOK
<1> QED
  BY <1>1, <1>2, <1>3, <1>4 DEF TypeOK, Revelations, ClosedLoopOutcomes

LEMMA InObserved ==
    ASSUME NEW t, NEW p
    PROVE  p \in ObservedIn(t) <=>
             \E k \in DOMAIN deployment :
               deployment[k].trial = t /\ p \in deployment[k].observed
  BY DEF ObservedIn

\* The properties other than those of types are about the five variables below.
LEMMA SameLoop ==
    ASSUME LoopInv, TypeOK', counter' = counter, outcomes' = outcomes,
           deployment' = deployment, UNCHANGED <<arguments, subsetHistory>>,
           \A i \in 1..index : truth'[i] = truth[i]
    PROVE  LoopInv'
<1>1. UNCHANGED <<mode, target, interval, coldStart, counter, outcomes, deployment,
                  subsetHistory>>
  BY DEF arguments
<1>2. Numbered' /\ Explored'
  BY <1>1 DEF LoopInv, Numbered, Explored, Explores
<1>3. HistoryIsAcquired'
  <2>1. \A t : ObservedIn(t)' = ObservedIn(t)
    BY <1>1 DEF ObservedIn
  <2>2. \A k \in DOMAIN deployment : deployment[k].trial \in 1..index
    <3>1. \A k \in DOMAIN deployment : deployment[k] \in Revelations(index)
      BY TypeParts, ElementOfSeq, LenProperties DEF LoopInv
    <3> QED
      BY <3>1 DEF Revelations
  <2>3. \A i \in DOMAIN outcomes : ObservedIn(outcomes[i].trial)' = CalledIn(outcomes[i])
    BY <1>1, <2>1 DEF LoopInv, HistoryIsAcquired
  <2>4. \A k \in DOMAIN deployment :
          deployment[k].within = deployment[k].observed \cap truth'[deployment[k].trial]
    BY <2>2 DEF LoopInv, HistoryIsAcquired
  <2> QED
    BY <1>1, <2>3, <2>4 DEF LoopInv, HistoryIsAcquired
<1>4. Stuck' /\ AbstentionSticks'
  BY <1>1 DEF LoopInv, Stuck, AbstentionSticks
<1> QED
  BY <1>2, <1>3, <1>4 DEF LoopInv

\* ObservedIn for any history.
SeenIn(h, t) == UNION {h[k].observed : k \in {k \in DOMAIN h : h[k].trial = t}}

LEMMA InSeen ==
    ASSUME NEW h, NEW t, NEW p
    PROVE  p \in SeenIn(h, t) <=>
             \E k \in DOMAIN h : h[k].trial = t /\ p \in h[k].observed
  BY DEF SeenIn

LEMMA Seen == \A t : ObservedIn(t) = SeenIn(deployment, t)
  BY DEF ObservedIn, SeenIn

\* deployment' is what deployment becomes when the trial of o, whose true
\* outcome is w, has been observed.
Observed(o, w) ==
    /\ Len(deployment) <= Len(deployment')
    /\ \A k \in 1..Len(deployment) : deployment'[k] = deployment[k]
    /\ \A k \in (Len(deployment) + 1)..Len(deployment') :
         /\ deployment'[k].trial = index + 1
         /\ deployment'[k].observed \subseteq CalledIn(o)
         /\ deployment'[k].within = deployment'[k].observed \cap w
    /\ \A p \in CalledIn(o) :
         \E k \in (Len(deployment) + 1)..Len(deployment') : p \in deployment'[k].observed

\* A complete trial keeps the history true to the calls, and the schedule.
LEMMA LearnLoop ==
    ASSUME LoopInv, TypeOK', NEW w \in SUBSET Providers,
           NEW o \in ClosedLoopOutcomes(index + 1), o.trial = index + 1,
           index' = index + 1, counter' = counter + 1, UNCHANGED arguments,
           truth' = Append(truth, w), outcomes' = Append(outcomes, o),
           Observed(o, w),
           Explores(counter + 1) => CalledIn(o) = Providers
    PROVE  Numbered' /\ HistoryIsAcquired' /\ Explored'
<1> DEFINE n == Len(outcomes)
           d == Len(deployment)
<1>1. /\ index \in Nat /\ counter = n
      /\ truth \in Seq(SUBSET Providers) /\ Len(truth) = index
      /\ outcomes \in Seq(ClosedLoopOutcomes(index)) /\ n \in Nat
      /\ DOMAIN outcomes = 1..n
      /\ deployment \in Seq(Revelations(index)) /\ d \in Nat
      /\ DOMAIN deployment = 1..d
  BY TypeParts, LenProperties DEF LoopInv, Numbered
<1>2. \A i \in 1..n : outcomes[i].trial \in 1..index
  <2>1. \A i \in 1..n : outcomes[i] \in ClosedLoopOutcomes(index)
    BY <1>1, ElementOfSeq
  <2> QED
    BY <2>1 DEF ClosedLoopOutcomes
<1>3. \A k \in 1..d : deployment[k].trial \in 1..index
  <2>1. \A k \in 1..d : deployment[k] \in Revelations(index)
    BY <1>1, ElementOfSeq
  <2> QED
    BY <2>1 DEF Revelations
<1>4. /\ DOMAIN outcomes' = 1..(n + 1)
      /\ \A i \in 1..n : outcomes'[i] = outcomes[i]
      /\ outcomes'[n + 1] = o
      /\ Len(outcomes') = n + 1
  BY <1>1, AppendProperties, LenProperties
<1>5. /\ \A i \in 1..index : truth'[i] = truth[i]
      /\ truth'[index + 1] = w
  BY <1>1, AppendProperties
<1>6. DOMAIN deployment' = 1..Len(deployment') /\ Len(deployment') \in Nat
  <2>1. deployment' \in Seq(Revelations(index'))
    BY DEF TypeOK, Revelations
  <2> QED
    BY <2>1, LenProperties
<1>7. Numbered'
  <2>1. \A i, j \in 1..(n + 1) : i < j => outcomes'[i].trial < outcomes'[j].trial
    <3> TAKE i, j \in 1..(n + 1)
    <3>1. CASE j \in 1..n
      <4>1. i < j => i \in 1..n
        BY <1>1, <3>1
      <4>2. i < j => outcomes[i].trial < outcomes[j].trial
        BY <1>1, <3>1, <4>1 DEF LoopInv, Numbered
      <4> QED
        BY <1>4, <3>1, <4>1, <4>2
    <3>2. CASE j = n + 1 /\ i \in 1..n
      BY <1>1, <1>2, <1>4, <3>2
    <3> QED
      BY <1>1, <3>1, <3>2
  <2> QED
    BY <1>1, <1>4, <2>1 DEF Numbered
<1>8. \A t \in 1..index : SeenIn(deployment', t) = SeenIn(deployment, t)
  <2> TAKE t \in 1..index
  <2>1. \A p : p \in SeenIn(deployment, t) <=>
               \E k \in 1..d : deployment[k].trial = t /\ p \in deployment[k].observed
    <3>1. \A p : p \in SeenIn(deployment, t) <=>
            \E k \in DOMAIN deployment : deployment[k].trial = t /\ p \in deployment[k].observed
      BY InSeen
    <3> QED
      BY <1>1, <3>1
  <2>2. \A p : p \in SeenIn(deployment', t) <=>
               \E k \in 1..Len(deployment') :
                 deployment'[k].trial = t /\ p \in deployment'[k].observed
    BY <1>6, InSeen
  <2>3. \A k \in 1..Len(deployment') : k \in 1..d \/ k \in (d + 1)..Len(deployment')
    BY <1>1, <1>6
  <2>4. \A k \in (d + 1)..Len(deployment') : deployment'[k].trial # t
    BY <1>1 DEF Observed
  <2>5. \A k \in 1..d : k \in 1..Len(deployment') /\ deployment'[k] = deployment[k]
    BY <1>1, <1>6 DEF Observed
  <2>6. ASSUME NEW p, p \in SeenIn(deployment', t) PROVE p \in SeenIn(deployment, t)
    <3>1. PICK k \in 1..Len(deployment') :
            deployment'[k].trial = t /\ p \in deployment'[k].observed
      BY <2>2, <2>6
    <3>2. k \in 1..d
      BY <2>3, <2>4, <3>1
    <3> QED
      BY <2>1, <2>5, <3>1, <3>2
  <2>7. ASSUME NEW p, p \in SeenIn(deployment, t) PROVE p \in SeenIn(deployment', t)
    BY <2>1, <2>2, <2>5, <2>7
  <2> QED
    BY <2>6, <2>7
<1>9. SeenIn(deployment', index + 1) = CalledIn(o)
  <2>1. \A p : p \in SeenIn(deployment', index + 1) <=>
               \E k \in 1..Len(deployment') :
                 deployment'[k].trial = index + 1 /\ p \in deployment'[k].observed
    BY <1>6, InSeen
  <2>2. \A k \in 1..d : deployment'[k].trial # index + 1
    BY <1>1, <1>3 DEF Observed
  <2>3. \A k \in 1..Len(deployment') :
          deployment'[k].trial = index + 1 => deployment'[k].observed \subseteq CalledIn(o)
    BY <1>1, <1>6, <2>2 DEF Observed
  <2>4. \A p \in CalledIn(o) : \E k \in 1..Len(deployment') :
          deployment'[k].trial = index + 1 /\ p \in deployment'[k].observed
    BY <1>1, <1>6 DEF Observed
  <2> QED
    BY <2>1, <2>3, <2>4
<1>10. HistoryIsAcquired'
  <2>1. \A i \in DOMAIN outcomes' :
          SeenIn(deployment', outcomes'[i].trial) = CalledIn(outcomes'[i])
    <3> TAKE i \in DOMAIN outcomes'
    <3>1. CASE i \in 1..n
      <4>1. SeenIn(deployment, outcomes[i].trial) = CalledIn(outcomes[i])
        BY <1>1, <3>1, Seen DEF LoopInv, HistoryIsAcquired
      <4>2. SeenIn(deployment', outcomes[i].trial) = SeenIn(deployment, outcomes[i].trial)
        BY <1>2, <1>8, <3>1
      <4> QED
        BY <1>4, <3>1, <4>1, <4>2
    <3>2. CASE i = n + 1
      BY <1>4, <1>9, <3>2
    <3> QED
      BY <1>1, <1>4, <3>1, <3>2
  <2>2. ASSUME NEW k \in DOMAIN deployment'
        PROVE  /\ \E i \in DOMAIN outcomes' : outcomes'[i].trial = deployment'[k].trial
               /\ deployment'[k].within
                    = deployment'[k].observed \cap truth'[deployment'[k].trial]
    <3>1. CASE k \in 1..d
      <4>1. deployment'[k] = deployment[k]
        BY <3>1 DEF Observed
      <4>2. /\ \E i \in 1..n : outcomes[i].trial = deployment[k].trial
            /\ deployment[k].within = deployment[k].observed \cap truth[deployment[k].trial]
        BY <1>1, <3>1 DEF LoopInv, HistoryIsAcquired
      <4>3. truth'[deployment[k].trial] = truth[deployment[k].trial]
        BY <1>3, <1>5, <3>1
      <4>4. \A i \in 1..n : i \in DOMAIN outcomes' /\ outcomes'[i] = outcomes[i]
        BY <1>1, <1>4
      <4> QED
        BY <4>1, <4>2, <4>3, <4>4
    <3>2. CASE k \in (d + 1)..Len(deployment')
      <4>1. /\ deployment'[k].trial = index + 1
            /\ deployment'[k].within = deployment'[k].observed \cap w
        BY <3>2 DEF Observed
      <4>2. n + 1 \in DOMAIN outcomes' /\ outcomes'[n + 1].trial = index + 1
        BY <1>1, <1>4
      <4> QED
        BY <1>5, <4>1, <4>2
    <3>3. k \in 1..d \/ k \in (d + 1)..Len(deployment')
      BY <1>1, <1>6
    <3> QED
      BY <3>1, <3>2, <3>3
  <2> QED
    BY <2>1, <2>2 DEF HistoryIsAcquired, ObservedIn, SeenIn
<1>11. Explored'
  <2>1. interval' = interval
    BY DEF arguments
  <2>2. \A i \in 1..n : Explores(i) => CalledIn(outcomes[i]) = Providers
    BY <1>1 DEF LoopInv, Explored
  <2>3. \A i \in DOMAIN outcomes' : Explores(i) => CalledIn(outcomes'[i]) = Providers
    BY <1>1, <1>4, <2>2
  <2> QED
    BY <2>1, <2>3 DEF Explored, Explores
<1> QED
  BY <1>7, <1>10, <1>11

LEMMA RevealedType ==
    ASSUME TypeOK, NEW S \in SUBSET Providers, NEW w \in SUBSET Providers,
           NEW s \in {"warmup", "selected_execution", "scheduled_exploration"}
    PROVE  Revealed(S, w, s) \in Revelations(index + 1)
  BY TypeParts DEF Revealed, Revelations

LEMMA OutcomeType ==
    ASSUME TypeOK, NEW c \in BOOLEAN, NEW S \in SUBSET Providers,
           NEW w \in SUBSET Providers, NEW e \in Nat, NEW x \in Nat
    PROVE  /\ Outcome(c, S, w, e, x) \in ClosedLoopOutcomes(index + 1)
           /\ Outcome(c, S, w, e, x).trial = index + 1
           /\ Outcome(c, S, w, e, x).committed = c
           /\ CalledIn(Outcome(c, S, w, e, x)) = S \cup (IF x > 0 THEN Providers ELSE {})
  BY TypeParts DEF Outcome, ClosedLoopOutcomes, CalledIn

\* Trials of an episode so far are among those of the longer episode.
LEMMA EpisodeGrows ==
    ASSUME TypeOK
    PROVE  /\ deployment \in Seq(Revelations(index + 1))
           /\ outcomes \in Seq(ClosedLoopOutcomes(index + 1))
<1>1. 1..index \subseteq 1..(index + 1)
  BY TypeParts
<1>2. /\ Revelations(index) \subseteq Revelations(index + 1)
      /\ ClosedLoopOutcomes(index) \subseteq ClosedLoopOutcomes(index + 1)
  BY <1>1 DEF Revelations, ClosedLoopOutcomes
<1> QED
  BY <1>2, TypeParts, SeqMonotonic

\* The types after a trial.
LEMMA TrialTypes ==
    ASSUME TypeOK, NEW w \in SUBSET Providers, NextTrial(w),
           counter' \in {counter, counter + 1},
           deployment' \in Seq(Revelations(index + 1)),
           outcomes' \in Seq(ClosedLoopOutcomes(index + 1)),
           subsetHistory' \in [Subsets(Providers) -> Seq(Bits)]
    PROVE  TypeOK'
<1>1. /\ trials' = trials + 1 /\ index' = index + 1 /\ truth' = Append(truth, w)
      /\ UNCHANGED <<mode, target, interval, coldStart>>
  BY DEF NextTrial, arguments
<1>2. trials' \in 0..MaxTrials /\ index' \in 0..trials' /\ counter' \in 0..index'
  BY <1>1, ClosedLoopAssumption DEF TypeOK, NextTrial
<1>3. truth' \in Seq(SUBSET Providers) /\ Len(truth') = index'
  BY <1>1, TypeParts, AppendProperties
<1>4. /\ deployment' \in Seq(Revelations(index'))
      /\ outcomes' \in Seq(ClosedLoopOutcomes(index'))
  BY <1>1
<1> QED
  BY <1>1, <1>2, <1>3, <1>4 DEF TypeOK, Revelations, ClosedLoopOutcomes

\* No trial has been seen when an episode starts.
LEMMA StartLoop ==
    ASSUME counter = 0, outcomes = << >>, deployment = << >>
    PROVE  Numbered /\ HistoryIsAcquired /\ Explored /\ Stuck /\ AbstentionSticks
<1>1. DOMAIN outcomes = {} /\ DOMAIN deployment = {} /\ Len(outcomes) = 0
  OBVIOUS
<1> QED
  BY <1>1 DEF Numbered, HistoryIsAcquired, Explored, Stuck, AbstentionSticks

LEMMA StartTypes ==
    ASSUME NEW n
    PROVE  /\ << >> \in Seq(SUBSET Providers) /\ Len(<< >>) = 0
           /\ << >> \in Seq(Revelations(n)) /\ << >> \in Seq(ClosedLoopOutcomes(n))
           /\ NoOutcomes \in [Subsets(Providers) -> Seq(Bits)]
<1>1. << >> \in Seq(Bits)
  OBVIOUS
<1> QED
  BY <1>1 DEF NoOutcomes

LEMMA InitLoop == Init => LoopInv
<1> SUFFICES ASSUME Init PROVE LoopInv
  OBVIOUS
<1>1. TypeOK
  <2>1. trials \in 0..MaxTrials /\ index \in 0..trials /\ counter \in 0..index
    BY ClosedLoopAssumption DEF Init
  <2> QED
    BY <2>1, StartTypes DEF Init, TypeOK, Revelations, ClosedLoopOutcomes
<1> QED
  BY <1>1, StartLoop DEF Init, LoopInv

LEMMA EpisodeLoop ==
    ASSUME LoopInv, NewEpisode
    PROVE  LoopInv'
<1>1. TypeOK'
  <2>1. UNCHANGED <<mode, target, interval, coldStart, trials>>
    BY DEF NewEpisode, arguments
  <2>2. trials' \in 0..MaxTrials /\ index' \in 0..trials' /\ counter' \in 0..index'
    BY <2>1, ClosedLoopAssumption DEF LoopInv, TypeOK, NewEpisode
  <2> QED
    BY <2>1, <2>2, StartTypes DEF LoopInv, NewEpisode, TypeOK, Revelations, ClosedLoopOutcomes
<1>2. counter' = 0 /\ outcomes' = << >> /\ deployment' = << >>
  BY DEF NewEpisode
<1>3. DOMAIN outcomes' = {} /\ DOMAIN deployment' = {} /\ Len(outcomes') = 0
  BY <1>2
<1>4. (Numbered /\ HistoryIsAcquired /\ Explored /\ Stuck /\ AbstentionSticks)'
  BY <1>2, <1>3 DEF Numbered, HistoryIsAcquired, Explored, Stuck, AbstentionSticks
<1> QED
  BY <1>1, <1>4 DEF LoopInv

LEMMA SkipLoop ==
    ASSUME LoopInv, Skip
    PROVE  LoopInv'
<1>1. /\ UNCHANGED <<counter, deployment, subsetHistory, outcomes, arguments>>
      /\ truth' = Append(truth, {})
  BY DEF Skip, learned, NextTrial
<1>2. TypeOK'
  BY <1>1, EpisodeGrows, TrialTypes, TypeParts DEF LoopInv, Skip
<1>3. \A i \in 1..index : truth'[i] = truth[i]
  BY <1>1, TypeParts, AppendProperties DEF LoopInv
<1> QED
  BY <1>1, <1>2, <1>3, SameLoop

\* Appending records of the trial of o observes it.
LEMMA ObservedByAppend ==
    ASSUME TypeOK, NEW o, NEW w, NEW new \in Seq(Revelations(index + 1)),
           deployment' = deployment \o new,
           \A i \in 1..Len(new) : /\ new[i].trial = index + 1
                                  /\ new[i].observed \subseteq CalledIn(o)
                                  /\ new[i].within = new[i].observed \cap w,
           \A p \in CalledIn(o) : \E i \in 1..Len(new) : p \in new[i].observed
    PROVE  Observed(o, w)
<1> DEFINE d == Len(deployment)
           l == Len(new)
<1>1. d \in Nat /\ l \in Nat
  BY EpisodeGrows, LenProperties
<1>2. /\ Len(deployment') = d + l
      /\ \A k \in 1..(d + l) : deployment'[k] = IF k <= d THEN deployment[k] ELSE new[k - d]
  BY EpisodeGrows, ConcatProperties
<1> HIDE DEF d, l
<1>3. /\ d <= Len(deployment')
      /\ \A k \in 1..d : deployment'[k] = deployment[k]
  BY <1>1, <1>2
<1>4. ASSUME NEW k \in (d + 1)..Len(deployment')
      PROVE  /\ deployment'[k].trial = index + 1
             /\ deployment'[k].observed \subseteq CalledIn(o)
             /\ deployment'[k].within = deployment'[k].observed \cap w
  <2>1. k - d \in 1..l /\ deployment'[k] = new[k - d]
    BY <1>1, <1>2
  <2> QED
    BY <2>1 DEF l
<1>5. ASSUME NEW p \in CalledIn(o)
      PROVE  \E k \in (d + 1)..Len(deployment') : p \in deployment'[k].observed
  <2>1. PICK i \in 1..l : p \in new[i].observed
    BY DEF l
  <2>2. d + i \in (d + 1)..Len(deployment') /\ deployment'[d + i] = new[i]
    BY <1>1, <1>2
  <2> QED
    BY <2>1, <2>2
<1> QED
  BY <1>3, <1>4, <1>5 DEF Observed, d

LEMMA WarmUpLoop ==
    ASSUME LoopInv, NEW w \in SUBSET Providers, WarmUp(w)
    PROVE  LoopInv'
<1> DEFINE o == Outcome(TRUE, Providers, w, 0, Cardinality(Providers))
           r == Revealed(Providers, w, "warmup")
<1>1. /\ index' = index + 1 /\ truth' = Append(truth, w)
      /\ counter < coldStart /\ counter' = counter + 1
      /\ deployment' = Append(deployment, r) /\ outcomes' = Append(outcomes, o)
      /\ UNCHANGED arguments
  BY DEF WarmUp, NextTrial
<1>2. TypeOK /\ Cardinality(Providers) \in Nat /\ (Cardinality(Providers) = 0 <=> Providers = {})
  BY TypeParts DEF LoopInv
<1>3. /\ o \in ClosedLoopOutcomes(index + 1) /\ o.trial = index + 1 /\ o.committed
      /\ CalledIn(o) = Providers
  <2> DEFINE n == Cardinality(Providers)
             c == TRUE
             S == Providers
             e == 0
             oo == Outcome(c, S, w, e, n)
  <2>1. /\ S \in SUBSET Providers /\ c \in BOOLEAN /\ e \in Nat
        /\ TypeOK /\ n \in Nat /\ (n = 0 <=> Providers = {})
    BY <1>2
  <2>2. o = oo /\ c /\ S = Providers
    OBVIOUS
  <2> HIDE DEF n, o, c, S, e
  <2>3. /\ oo \in ClosedLoopOutcomes(index + 1) /\ oo.trial = index + 1
        /\ oo.committed = c
        /\ CalledIn(oo) = S \cup (IF n > 0 THEN Providers ELSE {})
    BY <2>1, OutcomeType, SMTT(20)
  <2>4. S \cup (IF n > 0 THEN Providers ELSE {}) = Providers
    BY <2>1, <2>2
  <2> HIDE DEF oo
  <2> QED
    BY <2>2, <2>3, <2>4
<1>4. /\ r \in Revelations(index + 1)
      /\ r.trial = index + 1 /\ r.observed = Providers /\ r.within = r.observed \cap w
  <2>1. r \in Revelations(index + 1)
    BY <1>2, RevealedType
  <2> QED
    BY <2>1 DEF Revealed
<1> HIDE DEF o, r
<1>5. deployment' = deployment \o <<r>>
  BY <1>1, <1>2, <1>4, EpisodeGrows, AppendIsConcat
<1>6. Observed(o, w)
  <2>1. /\ <<r>> \in Seq(Revelations(index + 1)) /\ Len(<<r>>) = 1
        /\ \A i \in 1..Len(<<r>>) : <<r>>[i] = r
    BY <1>4
  <2>2. \A i \in 1..Len(<<r>>) : /\ <<r>>[i].trial = index + 1
                                  /\ <<r>>[i].observed \subseteq CalledIn(o)
                                  /\ <<r>>[i].within = <<r>>[i].observed \cap w
    BY <1>3, <1>4, <2>1
  <2>3. \A p \in CalledIn(o) : \E i \in 1..Len(<<r>>) : p \in <<r>>[i].observed
    BY <1>3, <1>4, <2>1
  <2> QED
    BY <1>2, <1>5, <2>1, <2>2, <2>3, ObservedByAppend
<1>7. TypeOK'
  <2>1. deployment' \in Seq(Revelations(index + 1))
    BY <1>1, <1>2, <1>4, EpisodeGrows, AppendProperties
  <2>2. outcomes' \in Seq(ClosedLoopOutcomes(index + 1))
    BY <1>1, <1>2, <1>3, EpisodeGrows, AppendProperties
  <2>3. subsetHistory' \in [Subsets(Providers) -> Seq(Bits)]
    BY <1>2, TypeParts, UpdatedType DEF WarmUp
  <2> QED
    BY <1>1, <1>2, <2>1, <2>2, <2>3, TrialTypes DEF WarmUp
<1>8. Numbered' /\ HistoryIsAcquired' /\ Explored'
  BY <1>1, <1>3, <1>6, <1>7, LearnLoop
<1>9. /\ outcomes \in Seq(ClosedLoopOutcomes(index + 1)) /\ Len(outcomes) \in Nat
      /\ DOMAIN outcomes = 1..Len(outcomes)
      /\ DOMAIN outcomes' = 1..(Len(outcomes) + 1)
      /\ \A i \in 1..Len(outcomes) : outcomes'[i] = outcomes[i]
      /\ outcomes'[Len(outcomes) + 1] = o
  BY <1>1, <1>2, <1>3, EpisodeGrows, AppendProperties, LenProperties
<1>10. mode = "strict-slo" /\ interval = 0 => \A i \in DOMAIN outcomes : outcomes[i].committed
  BY <1>1, TypeParts DEF LoopInv, Stuck
<1>11. mode = "strict-slo" /\ interval = 0 => \A i \in DOMAIN outcomes' : outcomes'[i].committed
  BY <1>3, <1>9, <1>10
<1>12. Stuck' /\ AbstentionSticks'
  BY <1>1, <1>11 DEF Stuck, AbstentionSticks, arguments
<1> QED
  BY <1>7, <1>8, <1>12 DEF LoopInv

\* The providers that a trial after the cold start calls, and the records that
\* it makes of them.
LEMMA ExecuteLoop ==
    ASSUME LoopInv, Trial
    PROVE  LoopInv'
<1> DEFINE selected == Selected(Estimates(subsetHistory), mode, target)
<1>1. PICK w \in SUBSET Providers : Execute(selected, w)
  BY DEF Trial
<1>2. selected \in SUBSET Providers
  BY TypeParts, SelectedType DEF LoopInv
<1> DEFINE explore == Explores(counter + 1)
           observed == IF explore THEN Providers ELSE selected
           o == Outcome(selected # {}, selected, w, Cardinality(selected),
                        ExplorationCalls(explore, selected))
           first == IF selected = {} THEN << >>
                    ELSE <<Revealed(selected, w, "selected_execution")>>
           second == IF explore THEN <<Revealed(Providers, w, "scheduled_exploration")>>
                     ELSE << >>
<1>3. /\ index' = index + 1 /\ truth' = Append(truth, w) /\ NextTrial(w)
      /\ counter >= coldStart /\ counter' = counter + 1
      /\ deployment' = deployment \o first \o second
      /\ outcomes' = Append(outcomes, o)
      /\ subsetHistory' = Updated(observed, w)
      /\ UNCHANGED arguments
  BY <1>1 DEF Execute, NextTrial, Trial
<1>4. TypeOK /\ Cardinality(Providers) \in Nat /\ (Cardinality(Providers) = 0 <=> Providers = {})
  BY TypeParts DEF LoopInv
<1>5. Cardinality(selected) \in Nat /\ explore \in BOOLEAN
      /\ ExplorationCalls(explore, selected) \in Nat
      /\ (ExplorationCalls(explore, selected) > 0 <=> explore /\ Providers # {})
  <2>1. Cardinality(selected) \in Nat
    BY <1>2, SetsOfProviders
  <2> HIDE DEF selected
  <2> QED
    BY <1>4, <2>1 DEF ExplorationCalls, Explores
<1> HIDE DEF selected
<1>6. /\ o \in ClosedLoopOutcomes(index + 1) /\ o.trial = index + 1
      /\ o.committed = (selected # {})
      /\ CalledIn(o) = observed
  <2> DEFINE c == selected # {}
             e == Cardinality(selected)
             x == ExplorationCalls(explore, selected)
             oo == Outcome(c, selected, w, e, x)
  <2>1. c \in BOOLEAN /\ TypeOK /\ e \in Nat /\ x \in Nat
    BY <1>4, <1>5
  <2>2. o = oo /\ c = (selected # {}) /\ (x > 0 <=> explore /\ Providers # {})
    BY <1>5
  <2> HIDE DEF c, e, x, o, explore
  <2>3. /\ oo \in ClosedLoopOutcomes(index + 1) /\ oo.trial = index + 1
        /\ oo.committed = c
        /\ CalledIn(oo) = selected \cup (IF x > 0 THEN Providers ELSE {})
    BY <1>2, <2>1, OutcomeType
  <2> HIDE DEF oo
  <2>4. selected \cup (IF x > 0 THEN Providers ELSE {}) = observed
    BY <1>2, <2>2
  <2> HIDE DEF observed
  <2> QED
    BY <2>2, <2>3, <2>4
<1> HIDE DEF explore
<1>7. /\ first \in Seq(Revelations(index + 1)) /\ second \in Seq(Revelations(index + 1))
      /\ \A i \in 1..Len(first) : /\ first[i].trial = index + 1
                                  /\ first[i].observed \subseteq observed
                                  /\ first[i].within = first[i].observed \cap w
      /\ \A i \in 1..Len(second) : /\ second[i].trial = index + 1
                                   /\ second[i].observed \subseteq observed
                                   /\ second[i].within = second[i].observed \cap w
  <2>1. /\ Revealed(selected, w, "selected_execution") \in Revelations(index + 1)
        /\ Revealed(Providers, w, "scheduled_exploration") \in Revelations(index + 1)
    BY <1>2, <1>4, RevealedType
  <2>2. \A S, s : /\ Revealed(S, w, s).trial = index + 1
                  /\ Revealed(S, w, s).observed = S
                  /\ Revealed(S, w, s).within = S \cap w
    BY DEF Revealed
  <2>3. \A R : Len(<<R>>) = 1 /\ <<R>>[1] = R
    OBVIOUS
  <2>4. Len(<< >>) = 0 /\ << >> \in Seq(Revelations(index + 1))
    OBVIOUS
  <2>5. \A R \in Revelations(index + 1) : <<R>> \in Seq(Revelations(index + 1))
    OBVIOUS
  <2>6. first \in Seq(Revelations(index + 1)) /\ second \in Seq(Revelations(index + 1))
    BY <2>1, <2>4, <2>5
  <2>7. \A i \in 1..Len(first) :
          first[i] = Revealed(selected, w, "selected_execution")
    BY <2>3, <2>4
  <2>8. \A i \in 1..Len(second) :
          explore /\ second[i] = Revealed(Providers, w, "scheduled_exploration")
    BY <2>3, <2>4
  <2>9. selected \subseteq observed /\ (explore => observed = Providers)
    BY <1>2
  <2> HIDE DEF first, second, observed
  <2> QED
    BY <2>2, <2>6, <2>7, <2>8, <2>9
<1>8. \A p \in observed : \/ \E i \in 1..Len(first) : p \in first[i].observed
                          \/ \E i \in 1..Len(second) : p \in second[i].observed
  <2>1. \A S, s : Revealed(S, w, s).observed = S
    BY DEF Revealed
  <2>2. explore => Len(second) = 1 /\ second[1].observed = Providers
    BY <2>1
  <2>3. selected # {} => Len(first) = 1 /\ first[1].observed = selected
    BY <2>1
  <2> HIDE DEF first, second
  <2> QED
    BY <2>2, <2>3
<1> HIDE DEF first, second, o, observed
<1>9. /\ first \o second \in Seq(Revelations(index + 1))
      /\ deployment' = deployment \o (first \o second)
  <2>1. deployment \in Seq(Revelations(index + 1))
    BY <1>4, EpisodeGrows
  <2>2. first \o second \in Seq(Revelations(index + 1))
    BY <1>7, ConcatProperties
  <2>3. (deployment \o first) \o second = deployment \o (first \o second)
    BY <1>7, <2>1, ConcatAssociative
  <2> QED
    BY <1>3, <2>2, <2>3
<1>10. Observed(o, w)
  <2> DEFINE new == first \o second
  <2>1. /\ Len(first) \in Nat /\ Len(second) \in Nat
        /\ Len(new) = Len(first) + Len(second)
        /\ \A i \in 1..(Len(first) + Len(second)) :
             new[i] = IF i <= Len(first) THEN first[i] ELSE second[i - Len(first)]
    BY <1>7, ConcatProperties, LenProperties
  <2> HIDE DEF new
  <2>2. \A i \in 1..Len(new) : /\ new[i].trial = index + 1
                               /\ new[i].observed \subseteq CalledIn(o)
                               /\ new[i].within = new[i].observed \cap w
    <3> TAKE i \in 1..Len(new)
    <3>1. CASE i <= Len(first)
      <4>1. i \in 1..Len(first) /\ new[i] = first[i]
        BY <2>1, <3>1
      <4> QED
        BY <1>6, <1>7, <4>1
    <3>2. CASE ~(i <= Len(first))
      <4>1. i - Len(first) \in 1..Len(second) /\ new[i] = second[i - Len(first)]
        BY <2>1, <3>2
      <4> QED
        BY <1>6, <1>7, <4>1
    <3> QED
      BY <3>1, <3>2
  <2>3. \A p \in CalledIn(o) : \E i \in 1..Len(new) : p \in new[i].observed
    <3> TAKE p \in CalledIn(o)
    <3>1. ASSUME NEW i \in 1..Len(first), p \in first[i].observed
          PROVE  \E k \in 1..Len(new) : p \in new[k].observed
      <4>1. i \in 1..Len(new) /\ new[i] = first[i]
        BY <2>1
      <4> QED
        BY <3>1, <4>1
    <3>2. ASSUME NEW i \in 1..Len(second), p \in second[i].observed
          PROVE  \E k \in 1..Len(new) : p \in new[k].observed
      <4>1. Len(first) + i \in 1..Len(new) /\ new[Len(first) + i] = second[i]
        BY <2>1
      <4> QED
        BY <3>2, <4>1
    <3> QED
      BY <1>6, <1>8, <3>1, <3>2
  <2>4. new \in Seq(Revelations(index + 1)) /\ deployment' = deployment \o new
    BY <1>9 DEF new
  <2> QED
    BY <1>4, <2>2, <2>3, <2>4, ObservedByAppend
<1>11. TypeOK'
  <2>1. deployment' \in Seq(Revelations(index + 1))
    BY <1>4, <1>9, EpisodeGrows, ConcatProperties
  <2>2. outcomes' \in Seq(ClosedLoopOutcomes(index + 1))
    BY <1>3, <1>4, <1>6, EpisodeGrows, AppendProperties
  <2>3. subsetHistory' \in [Subsets(Providers) -> Seq(Bits)]
    BY <1>3, <1>4, TypeParts, UpdatedType
  <2> QED
    BY <1>3, <1>4, <2>1, <2>2, <2>3, TrialTypes
<1>12. Numbered' /\ HistoryIsAcquired' /\ Explored'
  <2>1. Explores(counter + 1) => CalledIn(o) = Providers
    BY <1>6 DEF observed, explore
  <2> QED
    BY <1>3, <1>6, <1>10, <1>11, <2>1, LearnLoop
<1>13. /\ outcomes \in Seq(ClosedLoopOutcomes(index + 1)) /\ Len(outcomes) \in Nat
       /\ DOMAIN outcomes = 1..Len(outcomes)
       /\ DOMAIN outcomes' = 1..(Len(outcomes) + 1)
       /\ \A i \in 1..Len(outcomes) : outcomes'[i] = outcomes[i]
       /\ outcomes'[Len(outcomes) + 1] = o
  BY <1>3, <1>4, <1>6, EpisodeGrows, AppendProperties, LenProperties
<1>14. Stuck' /\ AbstentionSticks'
  <2> SUFFICES ASSUME mode = "strict-slo", interval = 0
               PROVE  Stuck' /\ AbstentionSticks'
    BY <1>3 DEF Stuck, AbstentionSticks, arguments
  <2>1. CASE selected # {}
    <3>1. \A i \in DOMAIN outcomes : outcomes[i].committed
      BY <2>1 DEF LoopInv, Stuck, selected
    <3>2. \A i \in DOMAIN outcomes' : outcomes'[i].committed
      <4>1. o.committed
        BY <1>6, <2>1
      <4> QED
        BY <1>13, <3>1, <4>1
    <3> QED
      BY <3>2 DEF Stuck, AbstentionSticks
  <2>2. CASE selected = {}
    <3>1. ~ explore
      BY DEF explore, Explores
    <3>2. UNCHANGED <<mode, target, coldStart, subsetHistory>>
      BY <1>3, <1>4, <2>2, <3>1, TypeParts, NothingLearned DEF observed, arguments
    <3>3. Selected(Estimates(subsetHistory'), mode', target') = {}
      BY <2>2, <3>2 DEF selected
    <3>4. counter' >= coldStart'
      BY <1>3, <3>2, TypeParts DEF LoopInv
    <3>5. Stuck'
      BY <3>3, <3>4 DEF Stuck
    <3>6. ASSUME NEW i \in DOMAIN outcomes', NEW j \in DOMAIN outcomes',
                 i < j, ~outcomes'[i].committed
          PROVE  ~outcomes'[j].committed
      <4>1. CASE j \in DOMAIN outcomes
        <5>1. i \in DOMAIN outcomes
          BY <1>13, <3>6, <4>1
        <5> QED
          BY <1>13, <3>6, <4>1, <5>1 DEF LoopInv, AbstentionSticks
      <4>2. CASE j = Len(outcomes) + 1
        BY <1>6, <1>13, <2>2, <4>2
      <4> QED
        BY <1>13, <4>1, <4>2
    <3> QED
      BY <3>5, <3>6 DEF AbstentionSticks
  <2> QED
    BY <2>1, <2>2
<1> QED
  BY <1>11, <1>12, <1>14 DEF LoopInv

(***************************************************************************)
(* The theorems.                                                           *)
(***************************************************************************)

\* The invariant of the closed loop.
THEOREM ClosedLoopInvariant == Spec => []LoopInv
<1>1. ASSUME LoopInv, [Next]_vars PROVE LoopInv'
  <2>1. CASE Skip
    BY <1>1, <2>1, SkipLoop
  <2>2. ASSUME NEW w \in SUBSET Providers, WarmUp(w) PROVE LoopInv'
    BY <1>1, <2>2, WarmUpLoop
  <2>3. CASE Trial
    BY <1>1, <2>3, ExecuteLoop
  <2>4. CASE NewEpisode
    BY <1>1, <2>4, EpisodeLoop
  <2>5. CASE UNCHANGED vars
    <3>1. UNCHANGED <<mode, target, interval, coldStart, trials, index, truth, counter,
                      deployment, subsetHistory, outcomes>>
      BY <2>5 DEF vars, arguments, learned
    <3>2. TypeOK'
      BY <1>1, <3>1 DEF LoopInv, TypeOK
    <3> QED
      BY <1>1, <3>1, <3>2, SameLoop DEF arguments
  <2> QED
    BY <1>1, <2>1, <2>2, <2>3, <2>4, <2>5 DEF Next
<1> QED
  BY <1>1, InitLoop, PTL DEF Spec

\* A closed-loop run has the types of its dataclasses; in particular the
\* optimizer always gets a table of estimates and selects only providers.
THEOREM ClosedLoopTypeCorrect == Spec => []TypeOK
  BY ClosedLoopInvariant, PTL DEF LoopInv

\* The policy learns from what it called and from nothing else, with the true
\* outcomes, however often it explores and whatever it selects.
THEOREM LearnsFromCalls == Spec => []HistoryIsAcquired
  BY ClosedLoopInvariant, PTL DEF LoopInv

\* A strict policy that never explores never recovers from an abstention: it
\* observes nothing, so its estimates stay as they are.
THEOREM NeverRecovers == Spec => []AbstentionSticks
  BY ClosedLoopInvariant, PTL DEF LoopInv

\* With an exploration interval no provider stays unobserved for that many
\* complete trials, whatever the policy selects and however long the episode.
THEOREM NoProviderIsForgotten == Spec => []NoBlindSpot
<1>1. LoopInv => NoBlindSpot
  <2> SUFFICES ASSUME LoopInv, interval # 0, NEW i \in DOMAIN outcomes, i >= interval,
                      NEW p \in Providers
               PROVE  \E j \in (i - interval + 1)..i : p \in ObservedIn(outcomes[j].trial)
    BY DEF NoBlindSpot
  <2>1. /\ interval \in Nat \ {0} /\ Len(outcomes) \in Nat
        /\ DOMAIN outcomes = 1..Len(outcomes)
    BY TypeParts, LenProperties DEF LoopInv
  <2>2. i \in Nat /\ i >= interval /\ i \in 1..Len(outcomes)
    BY <2>1
  <2>3. PICK j \in (i - interval + 1)..i : j > 0 /\ j % interval = 0
    BY <2>1, <2>2, ScheduledInTime
  <2>4. j \in DOMAIN outcomes /\ Explores(j)
    BY <2>1, <2>2, <2>3 DEF Explores
  <2>5. p \in ObservedIn(outcomes[j].trial)
    BY <2>4 DEF LoopInv, Explored, HistoryIsAcquired
  <2> QED
    BY <2>5
<1> QED
  BY <1>1, ClosedLoopInvariant, PTL
(***************************************************************************)
(* What is known of a subset, and what it cost to know it.                 *)
(***************************************************************************)

\* w is the outcome of a trial and o what is recorded of it, when the policy
\* learns from the trial.
Complete(o, w) ==
    /\ o \in ClosedLoopOutcomes(index + 1) /\ o.trial = index + 1
    /\ index' = index + 1
    /\ truth' = Append(truth, w)
    /\ outcomes' = Append(outcomes, o)
    /\ subsetHistory' = Updated(CalledIn(o), w)

LEMMA WarmUpCompletes ==
    ASSUME TypeOK, NEW w \in SUBSET Providers, WarmUp(w)
    PROVE  /\ Complete(Outcome(TRUE, Providers, w, 0, Cardinality(Providers)), w)
           /\ Revealed(Providers, w, "warmup") \in Revelations(index + 1)
           /\ deployment' = Append(deployment, Revealed(Providers, w, "warmup"))
<1> DEFINE c == TRUE
           S == Providers
           e == 0
           n == Cardinality(Providers)
           o == Outcome(c, S, w, e, n)
<1>1. /\ TypeOK /\ w \in SUBSET Providers /\ c \in BOOLEAN /\ S \in SUBSET Providers
      /\ e \in Nat /\ n \in Nat /\ (n = 0 <=> Providers = {})
  BY TypeParts
<1>2. /\ index' = index + 1 /\ truth' = Append(truth, w) /\ outcomes' = Append(outcomes, o)
      /\ subsetHistory' = Updated(Providers, w)
      /\ deployment' = Append(deployment, Revealed(Providers, w, "warmup"))
  BY DEF WarmUp, NextTrial
<1>3. S = Providers /\ o = Outcome(TRUE, Providers, w, 0, Cardinality(Providers))
  OBVIOUS
<1> HIDE DEF c, S, e, n
<1>4. /\ o \in ClosedLoopOutcomes(index + 1) /\ o.trial = index + 1 /\ o.committed = c
      /\ CalledIn(o) = S \cup (IF n > 0 THEN Providers ELSE {})
  BY <1>1, OutcomeType
<1> HIDE DEF o
<1>5. CalledIn(o) = Providers
  BY <1>1, <1>3, <1>4
<1>6. Revealed(Providers, w, "warmup") \in Revelations(index + 1)
  BY RevealedType
<1> QED
  BY <1>2, <1>3, <1>4, <1>5, <1>6 DEF Complete

LEMMA ExecuteCompletes ==
    ASSUME TypeOK, NEW w \in SUBSET Providers, NEW selected \in SUBSET Providers,
           Execute(selected, w)
    PROVE  Complete(Outcome(selected # {}, selected, w, Cardinality(selected),
                            ExplorationCalls(Explores(counter + 1), selected)), w)
<1> DEFINE explore == Explores(counter + 1)
           c == selected # {}
           e == Cardinality(selected)
           x == ExplorationCalls(explore, selected)
           o == Outcome(c, selected, w, e, x)
           observed == IF explore THEN Providers ELSE selected
<1>1. /\ index' = index + 1 /\ truth' = Append(truth, w) /\ outcomes' = Append(outcomes, o)
      /\ subsetHistory' = Updated(observed, w)
  BY DEF Execute, NextTrial
<1>2. /\ TypeOK /\ w \in SUBSET Providers /\ selected \in SUBSET Providers
      /\ c \in BOOLEAN /\ e \in Nat /\ x \in Nat /\ (x > 0 <=> explore /\ Providers # {})
  <2>1. e \in Nat
    BY SetsOfProviders
  <2>2. Cardinality(Providers) \in Nat /\ (Cardinality(Providers) = 0 <=> Providers = {})
    BY TypeParts
  <2> QED
    BY <2>1, <2>2 DEF ExplorationCalls, Explores
<1>3. o = Outcome(selected # {}, selected, w, Cardinality(selected),
                  ExplorationCalls(Explores(counter + 1), selected))
  OBVIOUS
<1> HIDE DEF c, e, x, explore
<1>4. /\ o \in ClosedLoopOutcomes(index + 1) /\ o.trial = index + 1
      /\ CalledIn(o) = selected \cup (IF x > 0 THEN Providers ELSE {})
  BY ONLY <1>2, OutcomeType DEF o
<1> HIDE DEF o
<1>5. CalledIn(o) = observed
  BY <1>2, <1>4
<1> QED
  BY <1>1, <1>3, <1>4, <1>5 DEF Complete

\* The outcome of S is the same in all trials that agree with w on what was
\* called.
Follows(S, called, w) ==
    \A v \in SUBSET Providers :
      v \cap called = w \cap called => (v \cap S = {} <=> w \cap S = {})

\* known_subset_outcome knows exactly what follows from the calls.
LEMMA KnownIsDetermined ==
    ASSUME NEW S \in SUBSET Providers, NEW called \in SUBSET Providers,
           NEW w \in SUBSET Providers
    PROVE  /\ KnownOutcome(S, called, w) # Unknown <=> Follows(S, called, w)
           /\ Follows(S, called, w) =>
                KnownOutcome(S, called, w) = IF S \cap w # {} THEN 1 ELSE 0
<1>1. Unknown # 0 /\ Unknown # 1
  BY SelectionAssumption
<1>2. CASE S \cap called \cap w # {}
  <2>1. KnownOutcome(S, called, w) = 1 /\ S \cap w # {}
    BY <1>2 DEF KnownOutcome
  <2>2. Follows(S, called, w)
    BY <1>2 DEF Follows
  <2> QED
    BY <1>1, <2>1, <2>2
<1>3. CASE S \cap called \cap w = {} /\ S \subseteq called
  <2>1. KnownOutcome(S, called, w) = 0 /\ S \cap w = {}
    BY <1>3 DEF KnownOutcome
  <2>2. Follows(S, called, w)
    <3> SUFFICES ASSUME NEW v \in SUBSET Providers, v \cap called = w \cap called
                 PROVE  v \cap S = {} <=> w \cap S = {}
      BY DEF Follows
    <3>1. \A p \in S : p \in v <=> p \in w
      BY <1>3
    <3> QED
      BY <3>1
  <2> QED
    BY <1>1, <2>1, <2>2
<1>4. CASE S \cap called \cap w = {} /\ ~(S \subseteq called)
  <2>1. KnownOutcome(S, called, w) = Unknown
    BY <1>4 DEF KnownOutcome
  <2>2. ~Follows(S, called, w)
    <3> DEFINE met == (w \cap called) \cup (S \ called)
               failed == w \cap called
    <3>1. met \in SUBSET Providers /\ failed \in SUBSET Providers
      OBVIOUS
    <3>2. met \cap called = w \cap called /\ failed \cap called = w \cap called
      OBVIOUS
    <3>3. met \cap S # {} /\ failed \cap S = {}
      BY <1>4
    <3> QED
      BY <3>1, <3>2, <3>3 DEF Follows
  <2> QED
    BY <2>1, <2>2
<1> QED
  BY <1>2, <1>3, <1>4

\* The trials of the outcomes os that determine S, when tr holds the truth.
Determining(S, os, tr) ==
    {i \in DOMAIN os : Follows(S, CalledIn(os[i]), tr[os[i].trial])}

\* h holds the true outcome of S in exactly those trials, in their order.
TrueHistory(h, S, os, tr) ==
    /\ Len(h) = Cardinality(Determining(S, os, tr))
    /\ \A i \in Determining(S, os, tr) :
         h[Cardinality({j \in Determining(S, os, tr) : j <= i})]
           = IF S \cap tr[os[i].trial] # {} THEN 1 ELSE 0

LEMMA TruthIsHistory ==
    KnownOutcomesTrue <=>
      \A S \in Subsets(Providers) : TrueHistory(subsetHistory[S], S, outcomes, truth)
<1> DEFINE known(S) == {i \in DOMAIN outcomes : Determined(S, outcomes[i])}
           Told(h, S, D) ==
             /\ Len(h) = Cardinality(D)
             /\ \A i \in D :
                  h[Cardinality({j \in D : j <= i})]
                    = IF S \cap truth[outcomes[i].trial] # {} THEN 1 ELSE 0
<1>1. \A S : known(S) = Determining(S, outcomes, truth)
  BY DEF Determined, Determining, Follows
<1>2. KnownOutcomesTrue <=>
        \A S \in Subsets(Providers) : Told(subsetHistory[S], S, known(S))
  BY DEF KnownOutcomesTrue
<1>3. \A S, h : TrueHistory(h, S, outcomes, truth)
                  <=> Told(h, S, Determining(S, outcomes, truth))
  BY DEF TrueHistory
<1> HIDE DEF known, Told
<1> QED
  BY <1>1, <1>2, <1>3

\* The place of an outcome in the history is within it.
LEMMA PlaceInHistory ==
    ASSUME NEW n \in Nat, NEW D \in SUBSET (1..n)
    PROVE  /\ IsFiniteSet(D) /\ Cardinality(D) \in 0..n
           /\ \A i \in D : Cardinality({j \in D : j <= i}) \in 1..Cardinality(D)
<1>1. IsFiniteSet(1..n) /\ Cardinality(1..n) = n
  BY FS_Interval
<1>2. IsFiniteSet(D) /\ Cardinality(D) \in Nat /\ Cardinality(D) <= n
  BY <1>1, FS_Subset, FS_CardinalityType
<1>3. ASSUME NEW i \in D PROVE Cardinality({j \in D : j <= i}) \in 1..Cardinality(D)
  <2> DEFINE before == {j \in D : j <= i}
  <2>1. before \in SUBSET D /\ i \in before
    OBVIOUS
  <2> HIDE DEF before
  <2>2. IsFiniteSet(before) /\ Cardinality(before) <= Cardinality(D)
    BY <1>2, <2>1, FS_Subset
  <2>3. Cardinality(before) \in Nat /\ Cardinality(before) # 0
    BY <2>1, <2>2, FS_CardinalityType, FS_EmptySet
  <2>4. Cardinality(before) \in 1..Cardinality(D)
    BY <1>2, <2>2, <2>3
  <2> QED
    BY <2>4 DEF before
<1> QED
  BY <1>2, <1>3

\* The history of S stays true when one more trial determines S or does not.
LEMMA TruthIsLearned ==
    ASSUME NEW n \in Nat, NEW S \in SUBSET Providers,
           NEW h \in Seq(Bits), NEW os \in Seq(ClosedLoopOutcomes(n)),
           NEW tr \in Seq(SUBSET Providers), Len(tr) = n, TrueHistory(h, S, os, tr),
           NEW w \in SUBSET Providers, NEW o \in ClosedLoopOutcomes(n + 1), o.trial = n + 1,
           NEW os2, os2 = Append(os, o), NEW tr2, tr2 = Append(tr, w),
           NEW h2,
           h2 = IF KnownOutcome(S, CalledIn(o), w) = Unknown THEN h
                ELSE Append(h, KnownOutcome(S, CalledIn(o), w))
    PROVE  TrueHistory(h2, S, os2, tr2)
<1> DEFINE m == Len(os)
           D == Determining(S, os, tr)
           E == Determining(S, os2, tr2)
           v == IF S \cap w # {} THEN 1 ELSE 0
<1>1. m \in Nat /\ DOMAIN os = 1..m
  BY LenProperties
<1>2. \A i \in 1..m : os[i].trial \in 1..n
  <2>1. \A i \in 1..m : os[i] \in ClosedLoopOutcomes(n)
    BY <1>1, ElementOfSeq
  <2> QED
    BY <2>1 DEF ClosedLoopOutcomes
<1>3. /\ DOMAIN os2 = 1..(m + 1)
      /\ \A i \in 1..m : os2[i] = os[i]
      /\ os2[m + 1] = o
  <2>1. 1..n \subseteq 1..(n + 1)
    OBVIOUS
  <2>2. ClosedLoopOutcomes(n) \subseteq ClosedLoopOutcomes(n + 1)
    BY <2>1 DEF ClosedLoopOutcomes
  <2>3. os \in Seq(ClosedLoopOutcomes(n + 1))
    BY <2>2, SeqMonotonic
  <2> QED
    BY <1>1, <2>3, AppendProperties, LenProperties
<1>4. tr2[n + 1] = w /\ \A t \in 1..n : tr2[t] = tr[t]
  BY AppendProperties
<1>5. /\ D \in SUBSET (1..m) /\ E \in SUBSET (1..(m + 1))
      /\ \A i \in 1..m : i \in E <=> i \in D
      /\ m + 1 \in E <=> Follows(S, CalledIn(o), w)
  BY <1>1, <1>2, <1>3, <1>4 DEF Determining
<1>6. /\ Len(h) = Cardinality(D)
      /\ \A i \in D : h[Cardinality({j \in D : j <= i})]
                        = IF S \cap tr[os[i].trial] # {} THEN 1 ELSE 0
  BY DEF TrueHistory
<1>7. \A i \in D : tr2[os2[i].trial] = tr[os[i].trial]
  BY <1>2, <1>3, <1>4, <1>5
<1>8. CalledIn(o) \in SUBSET Providers
  BY DEF CalledIn, ClosedLoopOutcomes
<1>9. /\ IsFiniteSet(D) /\ Cardinality(D) \in 0..m
      /\ \A i \in D : Cardinality({j \in D : j <= i}) \in 1..Cardinality(D)
  BY <1>1, <1>5, PlaceInHistory
<1>10. /\ TrueHistory(h2, S, os2, tr2) <=>
          /\ Len(h2) = Cardinality(E)
          /\ \A i \in E : h2[Cardinality({j \in E : j <= i})]
                            = IF S \cap tr2[os2[i].trial] # {} THEN 1 ELSE 0
  BY DEF TrueHistory
<1> HIDE DEF D, E, m
<1>11. \A i \in 1..(m + 1) : i \in 1..m \/ i = m + 1
  BY <1>1
<1>12. CASE ~Follows(S, CalledIn(o), w)
  <2>1. h2 = h
    BY <1>8, <1>12, KnownIsDetermined
  <2>2. E = D
    <3>1. \A i \in E : i \in D
      BY <1>5, <1>12, <1>11
    <3>2. \A i \in D : i \in E
      BY <1>5
    <3> QED
      BY <3>1, <3>2
  <2> QED
    BY <1>6, <1>7, <1>10, <2>1, <2>2
<1>13. CASE Follows(S, CalledIn(o), w)
  <2>1. h2 = Append(h, v)
    BY <1>8, <1>13, KnownIsDetermined
  <2>2. v \in Bits
    BY DEF Bits
  <2>3. /\ Len(h2) = Len(h) + 1 /\ h2[Len(h) + 1] = v
        /\ \A k \in 1..Len(h) : h2[k] = h[k]
    <3> HIDE DEF v
    <3> QED
      BY <2>1, <2>2, AppendProperties
  <2>4. E = D \cup {m + 1} /\ m + 1 \notin D
    <3>1. \A i \in E : i \in D \/ i = m + 1
      BY <1>5, <1>11
    <3>2. \A i \in D : i \in E
      BY <1>5
    <3>3. m + 1 \in E
      BY <1>5, <1>13
    <3>4. m + 1 \notin 1..m
      BY <1>1
    <3> QED
      BY <1>5, <3>1, <3>2, <3>3, <3>4
  <2>5. Cardinality(E) = Len(h) + 1
    BY <1>6, <1>9, <2>4, FS_AddElement
  <2>6. ASSUME NEW i \in D
        PROVE  h2[Cardinality({j \in E : j <= i})]
                 = IF S \cap tr2[os2[i].trial] # {} THEN 1 ELSE 0
    <3>1. {j \in E : j <= i} = {j \in D : j <= i}
      <4>1. i \in 1..m
        BY <1>5, <2>6
      <4>2. ~(m + 1 <= i)
        BY <1>1, <4>1
      <4> QED
        BY <2>4, <4>2
    <3>2. Cardinality({j \in D : j <= i}) \in 1..Len(h)
      BY <1>6, <1>9, <2>6
    <3> QED
      BY <1>6, <1>7, <2>3, <2>6, <3>1, <3>2
  <2>7. h2[Cardinality({j \in E : j <= m + 1})]
          = IF S \cap tr2[os2[m + 1].trial] # {} THEN 1 ELSE 0
    <3>1. {j \in E : j <= m + 1} = E
      <4>1. \A i \in 1..(m + 1) : i <= m + 1
        BY <1>1
      <4> QED
        BY <1>5, <4>1
    <3>2. tr2[os2[m + 1].trial] = w
      BY <1>3, <1>4
    <3> QED
      BY <2>3, <2>5, <3>1, <3>2
  <2> QED
    BY <1>10, <2>3, <2>4, <2>5, <2>6, <2>7, ZenonT(60)
<1> QED
  BY <1>12, <1>13

LEMMA TruthAfterTrial ==
    ASSUME TypeOK, KnownOutcomesTrue, NEW w \in SUBSET Providers, NEW o, Complete(o, w)
    PROVE  KnownOutcomesTrue'
<1>1. /\ index \in Nat /\ outcomes \in Seq(ClosedLoopOutcomes(index))
      /\ truth \in Seq(SUBSET Providers) /\ Len(truth) = index
      /\ subsetHistory \in [Subsets(Providers) -> Seq(Bits)]
  BY TypeParts
<1>2. /\ o \in ClosedLoopOutcomes(index + 1) /\ o.trial = index + 1
      /\ truth' = Append(truth, w) /\ outcomes' = Append(outcomes, o)
      /\ subsetHistory' = Updated(CalledIn(o), w)
  BY DEF Complete
<1>3. \A S \in Subsets(Providers) : TrueHistory(subsetHistory[S], S, outcomes, truth)
  BY TruthIsHistory
<1>4. ASSUME NEW S \in Subsets(Providers)
      PROVE  TrueHistory(subsetHistory'[S], S, outcomes', truth')
  <2> DEFINE h == subsetHistory[S]
             h2 == subsetHistory'[S]
             os == outcomes
             os2 == outcomes'
             tr == truth
             tr2 == truth'
             n == index
  <2>1. /\ n \in Nat /\ S \in SUBSET Providers
        /\ h \in Seq(Bits) /\ os \in Seq(ClosedLoopOutcomes(n))
        /\ tr \in Seq(SUBSET Providers) /\ Len(tr) = n /\ TrueHistory(h, S, os, tr)
        /\ o \in ClosedLoopOutcomes(n + 1) /\ o.trial = n + 1
        /\ os2 = Append(os, o) /\ tr2 = Append(tr, w)
    BY <1>1, <1>2, <1>3 DEF Subsets
  <2>2. h2 = IF KnownOutcome(S, CalledIn(o), w) = Unknown THEN h
             ELSE Append(h, KnownOutcome(S, CalledIn(o), w))
    BY <1>2 DEF Updated
  <2> HIDE DEF h, h2, os, os2, tr, tr2, n
  <2>3. TrueHistory(h2, S, os2, tr2)
    BY <2>1, <2>2, TruthIsLearned
  <2> QED
    BY <2>3 DEF h2, os2, tr2
<1>5. (\A S \in Subsets(Providers) : TrueHistory(subsetHistory[S], S, outcomes, truth))'
  BY <1>4
<1> QED
  BY <1>5, TruthIsHistory, PTL

\* One more record acquires what it observed, if it is of trial t.
LEMMA AcquireOne ==
    ASSUME NEW n, NEW h \in Seq(Revelations(n)), NEW r \in Revelations(n), NEW t,
           IsFiniteSet(Acquisitions(h, t))
    PROVE  /\ IsFiniteSet(Acquisitions(Append(h, r), t))
           /\ Cardinality(Acquisitions(Append(h, r), t))
                = Cardinality(Acquisitions(h, t))
                  + (IF r.trial = t THEN Cardinality(r.observed) ELSE 0)
<1> DEFINE d == Len(h)
           h2 == Append(h, r)
           old == Acquisitions(h, t)
           new == {d + 1} \X r.observed
<1>1. /\ d \in Nat /\ DOMAIN h = 1..d /\ DOMAIN h2 = 1..(d + 1)
      /\ h2[d + 1] = r /\ \A k \in 1..d : h2[k] = h[k]
  BY AppendProperties, LenProperties
<1>2. r.observed \in SUBSET Providers
  BY DEF Revelations
<1>3. /\ \A x \in old : /\ x \in (1..d) \X Providers
                        /\ h[x[1]].trial = t /\ x[2] \in h[x[1]].observed
      /\ \A x \in (1..d) \X Providers :
           h[x[1]].trial = t /\ x[2] \in h[x[1]].observed => x \in old
  BY <1>1 DEF Acquisitions
<1>4. /\ \A x \in Acquisitions(h2, t) : /\ x \in (1..(d + 1)) \X Providers
                                        /\ h2[x[1]].trial = t /\ x[2] \in h2[x[1]].observed
      /\ \A x \in (1..(d + 1)) \X Providers :
           h2[x[1]].trial = t /\ x[2] \in h2[x[1]].observed => x \in Acquisitions(h2, t)
  BY <1>1 DEF Acquisitions
<1>5. IsFiniteSet(old) /\ Cardinality(old) \in Nat
  BY FS_CardinalityType
<1> HIDE DEF d, h2, old
<1>6. \A i \in 1..(d + 1) : i \in 1..d \/ i = d + 1
  BY <1>1
<1>7. 1..d \subseteq 1..(d + 1) /\ d + 1 \in 1..(d + 1) /\ d + 1 \notin 1..d
  BY <1>1
<1>8. \A x \in old : x \in Acquisitions(h2, t)
  BY <1>1, <1>3, <1>4, <1>7
<1>9. CASE r.trial # t
  <2>1. \A x \in Acquisitions(h2, t) : x \in old
    <3> TAKE x \in Acquisitions(h2, t)
    <3>1. x \in (1..(d + 1)) \X Providers /\ h2[x[1]].trial = t /\ x[2] \in h2[x[1]].observed
      BY <1>4
    <3>2. x[1] \in 1..d
      BY <1>1, <1>6, <1>9, <3>1
    <3>3. x \in (1..d) \X Providers /\ h[x[1]].trial = t /\ x[2] \in h[x[1]].observed
      BY <1>1, <3>1, <3>2
    <3> QED
      BY <1>3, <3>3
  <2>2. Acquisitions(h2, t) = old
    BY <1>8, <2>1
  <2> QED
    BY <1>5, <1>9, <2>2 DEF h2, old
<1>10. CASE r.trial = t
  <2>1. IsFiniteSet(new) /\ Cardinality(new) = Cardinality(r.observed)
    <3>1. IsFiniteSet(r.observed) /\ Cardinality(r.observed) \in Nat
      BY <1>2, SetsOfProviders
    <3>2. IsFiniteSet({d + 1}) /\ Cardinality({d + 1}) = 1
      BY FS_Singleton
    <3>3. IsFiniteSet(new) /\ Cardinality(new) = Cardinality({d + 1}) * Cardinality(r.observed)
      BY <3>1, <3>2, FS_Product
    <3> QED
      BY <3>1, <3>2, <3>3
  <2>2. \A x \in new : x \in Acquisitions(h2, t)
    BY <1>1, <1>2, <1>4, <1>7, <1>10
  <2>3. \A x \in Acquisitions(h2, t) : x \in old \/ x \in new
    <3> TAKE x \in Acquisitions(h2, t)
    <3>1. x \in (1..(d + 1)) \X Providers /\ h2[x[1]].trial = t /\ x[2] \in h2[x[1]].observed
      BY <1>4
    <3>2. CASE x[1] \in 1..d
      BY <1>1, <1>3, <3>1, <3>2
    <3>3. CASE x[1] = d + 1
      BY <1>1, <3>1, <3>3
    <3> QED
      BY <1>6, <3>1, <3>2, <3>3
  <2>4. \A x \in old : x \notin new
    BY <1>3, <1>7
  <2>5. Acquisitions(h2, t) = old \cup new /\ old \cap new = {}
    BY <1>8, <2>2, <2>3, <2>4
  <2> HIDE DEF new
  <2>6. /\ IsFiniteSet(old \cup new)
        /\ Cardinality(old \cup new) = Cardinality(old) + Cardinality(new)
                                       - Cardinality(old \cap new)
    BY <1>5, <2>1, FS_Union
  <2>7. Cardinality(old \cap new) = 0
    BY <2>5, FS_EmptySet
  <2>8. Cardinality(r.observed) \in Nat
    BY <1>2, SetsOfProviders
  <2> QED
    BY <1>5, <1>10, <2>1, <2>5, <2>6, <2>7, <2>8 DEF h2, old
<1> QED
  BY <1>9, <1>10

\* Nothing has been acquired of a trial that has no record.
LEMMA NothingAcquired ==
    ASSUME NEW h, NEW t, \A k \in DOMAIN h : h[k].trial # t
    PROVE  IsFiniteSet(Acquisitions(h, t)) /\ Cardinality(Acquisitions(h, t)) = 0
<1>1. Acquisitions(h, t) = {}
  BY DEF Acquisitions
<1> QED
  BY <1>1, FS_EmptySet

LEMMA AcquisitionsFinite ==
    ASSUME NEW n, NEW h \in Seq(Revelations(n)), NEW t
    PROVE  IsFiniteSet(Acquisitions(h, t))
<1>1. IsFiniteSet(DOMAIN h)
  <2>1. DOMAIN h = 1..Len(h) /\ Len(h) \in Nat
    BY LenProperties
  <2> QED
    BY <2>1, FS_Interval
<1>2. IsFiniteSet((DOMAIN h) \X Providers)
  BY <1>1, SelectionAssumption, FS_Product
<1>3. Acquisitions(h, t) \in SUBSET ((DOMAIN h) \X Providers)
  BY DEF Acquisitions
<1> QED
  BY <1>2, <1>3, FS_Subset

\* A trial pays for what it acquires, and acquires nothing of earlier trials.
LEMMA PaidAfterTrial ==
    ASSUME TypeOK, CallsArePaid, NEW w, NEW o, Complete(o, w),
           \A t \in 1..index : Cardinality(Acquisitions(deployment', t))
                                 = Cardinality(Acquisitions(deployment, t)),
           Cardinality(Acquisitions(deployment', index + 1)) = o.execution + o.exploration
    PROVE  CallsArePaid'
<1> DEFINE n == Len(outcomes)
<1>1. /\ index \in Nat /\ outcomes \in Seq(ClosedLoopOutcomes(index)) /\ n \in Nat
      /\ DOMAIN outcomes = 1..n /\ outcomes \in Seq(ClosedLoopOutcomes(index + 1))
  BY TypeParts, EpisodeGrows, LenProperties
<1>2. o \in ClosedLoopOutcomes(index + 1) /\ o.trial = index + 1 /\ outcomes' = Append(outcomes, o)
  BY DEF Complete
<1>3. /\ DOMAIN outcomes' = 1..(n + 1) /\ outcomes'[n + 1] = o
      /\ \A i \in 1..n : outcomes'[i] = outcomes[i]
  BY <1>1, <1>2, AppendProperties, LenProperties
<1>4. \A i \in 1..n : outcomes[i].trial \in 1..index
  <2>1. \A i \in 1..n : outcomes[i] \in ClosedLoopOutcomes(index)
    BY <1>1, ElementOfSeq
  <2> QED
    BY <2>1 DEF ClosedLoopOutcomes
<1>5. ASSUME NEW i \in DOMAIN outcomes'
      PROVE  outcomes'[i].execution + outcomes'[i].exploration
               = Cardinality(Acquisitions(deployment', outcomes'[i].trial))
  <2>1. CASE i \in 1..n
    <3>1. outcomes[i].execution + outcomes[i].exploration
            = Cardinality(Acquisitions(deployment, outcomes[i].trial))
      BY <1>1, <2>1 DEF CallsArePaid
    <3> QED
      BY <1>3, <1>4, <2>1, <3>1
  <2>2. CASE i = n + 1
    BY <1>2, <1>3, <2>2
  <2> QED
    BY <1>1, <1>3, <2>1, <2>2
<1> QED
  BY <1>5 DEF CallsArePaid, Acquisitions

LEMMA NewRecords ==
    ASSUME TypeOK
    PROVE  /\ index \in Nat /\ index + 1 \notin 1..index
           /\ IsFiniteSet(Acquisitions(deployment, index + 1))
           /\ Cardinality(Acquisitions(deployment, index + 1)) = 0
           /\ \A t : /\ IsFiniteSet(Acquisitions(deployment, t))
                     /\ Cardinality(Acquisitions(deployment, t)) \in Nat
<1>1. index \in Nat /\ deployment \in Seq(Revelations(index)) /\ index + 1 \notin 1..index
  BY TypeParts
<1>2. \A k \in DOMAIN deployment : deployment[k].trial # index + 1
  <2>1. \A k \in DOMAIN deployment : deployment[k] \in Revelations(index)
    BY <1>1, ElementOfSeq, LenProperties
  <2>2. \A k \in DOMAIN deployment : deployment[k].trial \in 1..index
    BY <2>1 DEF Revelations
  <2> QED
    BY <1>1, <2>2
<1>3. \A t : IsFiniteSet(Acquisitions(deployment, t))
  BY <1>1, AcquisitionsFinite
<1> QED
  BY <1>1, <1>2, <1>3, NothingAcquired, FS_CardinalityType

LEMMA WarmUpPaid ==
    ASSUME TypeOK, CallsArePaid, NEW w \in SUBSET Providers, WarmUp(w)
    PROVE  CallsArePaid'
<1> DEFINE o == Outcome(TRUE, Providers, w, 0, Cardinality(Providers))
           r == Revealed(Providers, w, "warmup")
<1>1. Complete(o, w) /\ r \in Revelations(index + 1) /\ deployment' = Append(deployment, r)
  BY WarmUpCompletes
<1>2. /\ o.execution + o.exploration = Cardinality(Providers)
      /\ r.trial = index + 1 /\ r.observed = Providers
  BY TypeParts DEF Outcome, Revealed
<1>3. deployment \in Seq(Revelations(index + 1))
  BY EpisodeGrows
<1> HIDE DEF o, r
<1>4. \A t : Cardinality(Acquisitions(deployment', t))
               = Cardinality(Acquisitions(deployment, t))
                 + (IF r.trial = t THEN Cardinality(r.observed) ELSE 0)
  BY <1>1, <1>3, NewRecords, AcquireOne
<1>5. \A t \in 1..index : Cardinality(Acquisitions(deployment', t))
                            = Cardinality(Acquisitions(deployment, t))
  BY <1>2, <1>4, NewRecords
<1>6. Cardinality(Acquisitions(deployment', index + 1)) = o.execution + o.exploration
  BY <1>2, <1>4, NewRecords, TypeParts
<1> QED
  BY <1>1, <1>5, <1>6, PaidAfterTrial

LEMMA TrialPaid ==
    ASSUME TypeOK, CallsArePaid, NEW w \in SUBSET Providers,
           NEW selected \in SUBSET Providers, Execute(selected, w)
    PROVE  CallsArePaid'
<1> DEFINE explore == Explores(counter + 1)
           o == Outcome(selected # {}, selected, w, Cardinality(selected),
                        ExplorationCalls(explore, selected))
           r == Revealed(selected, w, "selected_execution")
           e == Revealed(Providers, w, "scheduled_exploration")
           middle == IF selected = {} THEN deployment ELSE Append(deployment, r)
           n == index + 1
           Paid(h, t) == Cardinality(Acquisitions(h, t))
<1>1. Complete(o, w)
  BY ExecuteCompletes
<1>2. r \in Revelations(n) /\ e \in Revelations(n)
  BY RevealedType
<1>3. /\ r.trial = n /\ r.observed = selected /\ e.trial = n /\ e.observed = Providers
      /\ o.execution = Cardinality(selected)
      /\ o.exploration = IF explore THEN Cardinality(Providers) ELSE 0
  BY DEF Outcome, Revealed, ExplorationCalls
<1>4. deployment \in Seq(Revelations(n)) /\ middle \in Seq(Revelations(n))
  <2>1. deployment \in Seq(Revelations(n))
    BY EpisodeGrows
  <2> HIDE DEF n, r
  <2> QED
    BY <1>2, <2>1, AppendProperties
<1>5. deployment' = IF explore THEN Append(middle, e) ELSE middle
  <2>1. deployment' = deployment \o (IF selected = {} THEN << >> ELSE <<r>>)
                                 \o (IF explore THEN <<e>> ELSE << >>)
    BY DEF Execute
  <2> HIDE DEF n, r, e, explore
  <2>2. deployment \o (IF selected = {} THEN << >> ELSE <<r>>) = middle
    BY <1>2, <1>4, ConcatEmptySeq, AppendIsConcat
  <2> HIDE DEF middle
  <2>3. middle \o (IF explore THEN <<e>> ELSE << >>)
          = IF explore THEN Append(middle, e) ELSE middle
    BY <1>2, <1>4, ConcatEmptySeq, AppendIsConcat
  <2> QED
    BY <2>1, <2>2, <2>3
<1>6. /\ Cardinality(selected) \in Nat /\ Cardinality(Providers) \in Nat
      /\ Cardinality({}) = 0
  BY SetsOfProviders, TypeParts, FS_EmptySet
<1>7. index \in Nat /\ n \notin 1..index /\ Paid(deployment, n) = 0
      /\ \A t : IsFiniteSet(Acquisitions(deployment, t)) /\ Paid(deployment, t) \in Nat
  BY NewRecords
<1> HIDE DEF n, r, e, o, explore
<1>8. \A t : /\ IsFiniteSet(Acquisitions(middle, t))
             /\ Paid(middle, t)
                  = Paid(deployment, t) + (IF t = n THEN Cardinality(selected) ELSE 0)
  <2>1. CASE selected = {}
    BY <1>6, <1>7, <2>1
  <2>2. CASE selected # {}
    <3>1. middle = Append(deployment, r)
      BY <2>2
    <3> HIDE DEF middle
    <3> QED
      BY <1>2, <1>3, <1>4, <1>7, <3>1, AcquireOne
  <2> QED
    BY <2>1, <2>2
<1> HIDE DEF middle
<1>9. \A t : Paid(deployment', t)
               = Paid(middle, t) + (IF explore /\ t = n THEN Cardinality(Providers) ELSE 0)
  <2>1. CASE explore
    BY <1>2, <1>3, <1>4, <1>5, <1>8, <2>1, AcquireOne
  <2>2. CASE ~explore
    <3>1. \A t : Paid(middle, t) \in Nat
      BY <1>6, <1>7, <1>8
    <3> QED
      BY <1>5, <2>2, <3>1
  <2> QED
    BY <2>1, <2>2
<1> HIDE DEF Paid
<1>10. \A t \in 1..index : Paid(deployment', t) = Paid(deployment, t)
  BY <1>6, <1>7, <1>8, <1>9
<1>11. Paid(deployment', n) = o.execution + o.exploration
  BY <1>3, <1>6, <1>7, <1>8, <1>9
<1> QED
  BY <1>1, <1>10, <1>11, PaidAfterTrial DEF Paid, n

\* Nothing is known when an episode starts.
LEMMA StartTrue ==
    outcomes = << >> /\ subsetHistory = NoOutcomes => KnownOutcomesTrue
<1> SUFFICES ASSUME outcomes = << >>, subsetHistory = NoOutcomes PROVE KnownOutcomesTrue
  OBVIOUS
<1>1. ASSUME NEW S \in Subsets(Providers)
      PROVE  TrueHistory(subsetHistory[S], S, outcomes, truth)
  <2>1. subsetHistory[S] = << >>
    BY DEF NoOutcomes
  <2>2. Determining(S, outcomes, truth) = {}
    BY DEF Determining
  <2>3. Cardinality({}) = 0 /\ Len(<< >>) = 0
    BY FS_EmptySet
  <2> QED
    BY <2>1, <2>2, <2>3 DEF TrueHistory
<1> QED
  BY <1>1, TruthIsHistory

LEMMA StutterTrue ==
    ASSUME KnownOutcomesTrue, UNCHANGED <<outcomes, subsetHistory, truth>>
    PROVE  KnownOutcomesTrue'
<1>1. (\A S \in Subsets(Providers) : TrueHistory(subsetHistory[S], S, outcomes, truth))'
  BY TruthIsHistory
<1> QED
  BY <1>1, TruthIsHistory, PTL

LEMMA SkipTrue ==
    ASSUME TypeOK, KnownOutcomesTrue, Skip
    PROVE  KnownOutcomesTrue'
<1>1. outcomes' = outcomes /\ subsetHistory' = subsetHistory /\ truth' = Append(truth, {})
  BY DEF Skip, learned, NextTrial
<1>2. \A i \in DOMAIN outcomes : truth'[outcomes[i].trial] = truth[outcomes[i].trial]
  <2>1. \A i \in DOMAIN outcomes : outcomes[i] \in ClosedLoopOutcomes(index)
    BY TypeParts, ElementOfSeq, LenProperties
  <2>2. \A i \in DOMAIN outcomes : outcomes[i].trial \in 1..index
    BY <2>1 DEF ClosedLoopOutcomes
  <2>3. \A t \in 1..index : truth'[t] = truth[t]
    BY <1>1, TypeParts, AppendProperties
  <2> QED
    BY <2>2, <2>3
<1>3. \A S : Determining(S, outcomes, truth') = Determining(S, outcomes, truth)
  BY <1>2 DEF Determining
<1>4. \A S \in Subsets(Providers) : TrueHistory(subsetHistory[S], S, outcomes, truth)
  BY TruthIsHistory
<1>5. \A S, h : TrueHistory(h, S, outcomes, truth) => TrueHistory(h, S, outcomes, truth')
  <2>1. \A S : \A i \in Determining(S, outcomes, truth) : i \in DOMAIN outcomes
    BY DEF Determining
  <2> QED
    BY <1>2, <1>3, <2>1 DEF TrueHistory
<1>6. (\A S \in Subsets(Providers) : TrueHistory(subsetHistory[S], S, outcomes, truth))'
  BY <1>1, <1>4, <1>5
<1> QED
  BY <1>6, TruthIsHistory, PTL

\* In any history of a subset, and of any length, stands the true outcome of
\* the trials that determine it and nothing else: what the policy did not
\* observe it does not count as a failure.
THEOREM KnowsTheTruth == Spec => []KnownOutcomesTrue
<1>1. Init => KnownOutcomesTrue
  <2> SUFFICES ASSUME Init PROVE KnownOutcomesTrue
    OBVIOUS
  <2> QED
    BY StartTrue DEF Init
<1>2. ASSUME LoopInv, KnownOutcomesTrue, [Next]_vars PROVE KnownOutcomesTrue'
  <2>1. CASE Skip
    BY <1>2, <2>1, SkipTrue DEF LoopInv
  <2>2. ASSUME NEW w \in SUBSET Providers, WarmUp(w) PROVE KnownOutcomesTrue'
    BY <1>2, <2>2, WarmUpCompletes, TruthAfterTrial DEF LoopInv
  <2>3. CASE Trial
    <3>1. PICK w \in SUBSET Providers :
            Execute(Selected(Estimates(subsetHistory), mode, target), w)
      BY <2>3 DEF Trial
    <3>2. Selected(Estimates(subsetHistory), mode, target) \in SUBSET Providers
      BY <1>2, TypeParts, SelectedType DEF LoopInv
    <3>3. PICK o : Complete(o, w)
      BY <1>2, <3>1, <3>2, ExecuteCompletes DEF LoopInv
    <3> QED
      BY <1>2, <3>3, TruthAfterTrial DEF LoopInv
  <2>4. CASE NewEpisode
    <3>1. (outcomes = << >> /\ subsetHistory = NoOutcomes)'
      BY <2>4 DEF NewEpisode
    <3> QED
      BY <3>1, StartTrue, PTL
  <2>5. CASE UNCHANGED vars
    BY <1>2, <2>5, StutterTrue DEF vars, learned
  <2> QED
    BY <1>2, <2>1, <2>2, <2>3, <2>4, <2>5 DEF Next
<1> QED
  BY <1>1, <1>2, ClosedLoopInvariant, PTL DEF Spec

\* The calls reported of a trial are the observations acquired in it, those of
\* the cold start and of exploration included: nothing is learned for free.
THEOREM CallsPaid == Spec => []CallsArePaid
<1>1. Init => CallsArePaid
  BY DEF Init, CallsArePaid
<1>2. ASSUME LoopInv, CallsArePaid, [Next]_vars PROVE CallsArePaid'
  <2>1. CASE Skip
    BY <1>2, <2>1 DEF Skip, learned, CallsArePaid
  <2>2. ASSUME NEW w \in SUBSET Providers, WarmUp(w) PROVE CallsArePaid'
    BY <1>2, <2>2, WarmUpPaid DEF LoopInv
  <2>3. CASE Trial
    <3> DEFINE selected == Selected(Estimates(subsetHistory), mode, target)
    <3>1. PICK w \in SUBSET Providers : Execute(selected, w)
      BY <2>3 DEF Trial
    <3>2. selected \in SUBSET Providers
      BY <1>2, TypeParts, SelectedType DEF LoopInv
    <3> HIDE DEF selected
    <3> QED
      BY <1>2, <3>1, <3>2, TrialPaid DEF LoopInv
  <2>4. CASE NewEpisode
    <3>1. DOMAIN outcomes' = {}
      BY <2>4 DEF NewEpisode
    <3> QED
      BY <3>1 DEF CallsArePaid
  <2>5. CASE UNCHANGED vars
    BY <1>2, <2>5 DEF vars, learned, CallsArePaid
  <2> QED
    BY <1>2, <2>1, <2>2, <2>3, <2>4, <2>5 DEF Next
<1> QED
  BY <1>1, <1>2, ClosedLoopInvariant, PTL DEF Spec
(***************************************************************************)
(* The evaluation of an episode (module Evaluation).                       *)
(***************************************************************************)

\* The flags of an outcome say what its selection did in truth.
FlagsTrue(o, t) ==
    /\ o.committed <=> o.selected # {}
    /\ o.satisfied <=> o.selected \cap t # {}
    /\ o.feasible <=> t # {}

Coherent == \A i \in DOMAIN outcomes : FlagsTrue(outcomes[i], truth[outcomes[i].trial])

LEMMA CoherentAfterTrial ==
    ASSUME TypeOK, Coherent, NEW w \in SUBSET Providers, NEW o, Complete(o, w), FlagsTrue(o, w)
    PROVE  Coherent'
<1> DEFINE n == Len(outcomes)
<1>1. /\ index \in Nat /\ outcomes \in Seq(ClosedLoopOutcomes(index)) /\ n \in Nat
      /\ DOMAIN outcomes = 1..n /\ outcomes \in Seq(ClosedLoopOutcomes(index + 1))
      /\ truth \in Seq(SUBSET Providers) /\ Len(truth) = index
  BY TypeParts, EpisodeGrows, LenProperties
<1>2. /\ o \in ClosedLoopOutcomes(index + 1) /\ o.trial = index + 1
      /\ outcomes' = Append(outcomes, o) /\ truth' = Append(truth, w)
  BY DEF Complete
<1>3. /\ DOMAIN outcomes' = 1..(n + 1) /\ outcomes'[n + 1] = o
      /\ \A i \in 1..n : outcomes'[i] = outcomes[i]
  BY <1>1, <1>2, AppendProperties, LenProperties
<1>4. truth'[index + 1] = w /\ \A t \in 1..index : truth'[t] = truth[t]
  BY <1>1, <1>2, AppendProperties
<1>5. \A i \in 1..n : outcomes[i].trial \in 1..index
  <2>1. \A i \in 1..n : outcomes[i] \in ClosedLoopOutcomes(index)
    BY <1>1, ElementOfSeq
  <2> QED
    BY <2>1 DEF ClosedLoopOutcomes
<1>6. ASSUME NEW i \in DOMAIN outcomes'
      PROVE  FlagsTrue(outcomes'[i], truth'[outcomes'[i].trial])
  <2>1. CASE i \in 1..n
    BY <1>1, <1>3, <1>4, <1>5, <2>1 DEF Coherent
  <2>2. CASE i = n + 1
    BY <1>2, <1>3, <1>4, <2>2
  <2> QED
    BY <1>1, <1>3, <2>1, <2>2
<1> QED
  BY <1>6 DEF Coherent

LEMMA CoherentStep ==
    ASSUME LoopInv, Coherent, [Next]_vars
    PROVE  Coherent'
<1>1. CASE Skip
  <2>1. outcomes' = outcomes /\ truth' = Append(truth, {})
    BY <1>1 DEF Skip, NextTrial
  <2>2. \A i \in DOMAIN outcomes : truth'[outcomes[i].trial] = truth[outcomes[i].trial]
    <3>1. \A i \in DOMAIN outcomes : outcomes[i] \in ClosedLoopOutcomes(index)
      BY TypeParts, ElementOfSeq, LenProperties DEF LoopInv
    <3>2. \A i \in DOMAIN outcomes : outcomes[i].trial \in 1..index
      BY <3>1 DEF ClosedLoopOutcomes
    <3>3. \A t \in 1..index : truth'[t] = truth[t]
      BY <2>1, TypeParts, AppendProperties DEF LoopInv
    <3> QED
      BY <3>2, <3>3
  <2> QED
    BY <2>1, <2>2 DEF Coherent
<1>2. ASSUME NEW w \in SUBSET Providers, WarmUp(w) PROVE Coherent'
  <2> DEFINE o == Outcome(TRUE, Providers, w, 0, Cardinality(Providers))
  <2>1. Complete(o, w)
    BY <1>2, WarmUpCompletes DEF LoopInv
  <2>2. FlagsTrue(o, w)
    BY ClosedLoopAssumption DEF FlagsTrue, Outcome
  <2> HIDE DEF o
  <2> QED
    BY <2>1, <2>2, CoherentAfterTrial DEF LoopInv
<1>3. CASE Trial
  <2> DEFINE selected == Selected(Estimates(subsetHistory), mode, target)
  <2>1. PICK w \in SUBSET Providers : Execute(selected, w)
    BY <1>3 DEF Trial
  <2>2. selected \in SUBSET Providers
    BY TypeParts, SelectedType DEF LoopInv
  <2> HIDE DEF selected
  <2> DEFINE p == Outcome(selected # {}, selected, w, Cardinality(selected),
                          ExplorationCalls(Explores(counter + 1), selected))
  <2>3. Complete(p, w)
    BY <2>1, <2>2, ExecuteCompletes DEF LoopInv
  <2>4. FlagsTrue(p, w)
    BY DEF FlagsTrue, Outcome
  <2> HIDE DEF p
  <2> QED
    BY <2>3, <2>4, CoherentAfterTrial DEF LoopInv
<1>4. CASE NewEpisode
  <2>1. DOMAIN outcomes' = {}
    BY <1>4 DEF NewEpisode
  <2> QED
    BY <2>1 DEF Coherent
<1>5. CASE UNCHANGED vars
  BY <1>5 DEF vars, Coherent
<1> QED
  BY <1>1, <1>2, <1>3, <1>4, <1>5 DEF Next

\* What the evaluation may rely on.
LEMMA CoherentAlways == Spec => [](LoopInv /\ Coherent)
<1>1. Init => Coherent
  BY DEF Init, Coherent
<1> QED
  BY <1>1, CoherentStep, ClosedLoopInvariant, PTL DEF Spec

(***************************************************************************)
(* Counting: the parts of a finite set.                                    *)
(***************************************************************************)
LEMMA CountParts ==
    ASSUME NEW A, IsFiniteSet(A), NEW B, NEW C,
           \A i \in B : i \in A, \A i \in C : i \in A,
           \A i \in A : i \in B <=> i \notin C
    PROVE  /\ IsFiniteSet(B) /\ IsFiniteSet(C)
           /\ Cardinality(B) \in Nat /\ Cardinality(C) \in Nat
           /\ Cardinality(A) = Cardinality(B) + Cardinality(C)
<1>1. B \in SUBSET A /\ C \in SUBSET A
  OBVIOUS
<1>2. IsFiniteSet(B) /\ IsFiniteSet(C) /\ Cardinality(B) \in Nat /\ Cardinality(C) \in Nat
  BY <1>1, FS_Subset, FS_CardinalityType
<1>3. B \cup C = A /\ B \cap C = {}
  OBVIOUS
<1>4. Cardinality(B \cup C) = Cardinality(B) + Cardinality(C) - Cardinality(B \cap C)
  BY <1>2, FS_Union
<1>5. Cardinality(B \cap C) = 0
  BY <1>3, FS_EmptySet
<1> QED
  BY <1>2, <1>3, <1>4, <1>5

LEMMA MinOfTwo ==
    ASSUME NEW a \in Int, NEW b \in Int
    PROVE  Min({a, b}) = IF a <= b THEN a ELSE b
<1> DEFINE m == IF a <= b THEN a ELSE b
<1>1. m \in {a, b} /\ \A y \in {a, b} : m <= y
  OBVIOUS
<1>2. \A x \in {a, b} : (\A y \in {a, b} : x <= y) => x = m
  OBVIOUS
<1> HIDE DEF m
<1>3. Min({a, b}) = m
  BY <1>1, <1>2 DEF Min
<1> QED
  BY <1>3 DEF m

LEMMA MaxOfTwo ==
    ASSUME NEW a \in Int, NEW b \in Int
    PROVE  Max({a, b}) = IF a >= b THEN a ELSE b
<1> DEFINE m == IF a >= b THEN a ELSE b
<1>1. m \in {a, b} /\ \A y \in {a, b} : m >= y
  OBVIOUS
<1>2. \A x \in {a, b} : (\A y \in {a, b} : x >= y) => x = m
  OBVIOUS
<1> HIDE DEF m
<1>3. Max({a, b}) = m
  BY <1>1, <1>2 DEF Max
<1> QED
  BY <1>3 DEF m

\* The trials of an outcome sequence os for which Test holds are written below
\* as sets of positions, the set that Count counts.
LEMMA DecompositionHolds == LoopInv /\ Coherent => DecompositionIsTrue
<1> SUFFICES ASSUME LoopInv, Coherent PROVE DecompositionIsTrue
  OBVIOUS
<1> DEFINE D == DOMAIN outcomes
           o(i) == outcomes[i]
           t(i) == truth[outcomes[i].trial]
           feasible == {i \in D : o(i).feasible}
           committed == {i \in D : o(i).committed}
           satisfied == {i \in D : o(i).satisfied}
           both == {i \in D : o(i).committed /\ o(i).feasible}
           neither == {i \in D : ~o(i).committed /\ ~o(i).feasible}
           abstained == {i \in D : ~o(i).committed}
           waste == {i \in D : ~o(i).committed /\ o(i).feasible}
           class(c) == {i \in D : Classify(o(i)) = c}
           avoidable == class("avoidable_miss")
           intrinsic == class("intrinsic_miss")
           correct == class("correct_abstention")
           N == Len(outcomes)
           CC == Cardinality(committed)
           FF == Cardinality(feasible)
           SS == Cardinality(satisfied)
           CF == Cardinality(both)
           AF == Cardinality(waste)
           AA == Cardinality(abstained)
<1>1. /\ IsFiniteSet(D) /\ Cardinality(D) = N /\ N \in Nat
  <2>1. D = 1..N /\ N \in Nat
    BY TypeParts, LenProperties DEF LoopInv
  <2> HIDE DEF D, N
  <2> QED
    BY <2>1, FS_Interval
<1>2. \A i \in D : /\ o(i).committed \in BOOLEAN /\ o(i).satisfied \in BOOLEAN
                   /\ o(i).feasible \in BOOLEAN
                   /\ o(i).committed <=> o(i).selected # {}
                   /\ o(i).satisfied <=> o(i).selected \cap t(i) # {}
                   /\ o(i).feasible <=> t(i) # {}
                   /\ o(i).satisfied => o(i).committed /\ o(i).feasible
  <2>1. \A i \in D : o(i) \in ClosedLoopOutcomes(index)
    BY TypeParts, ElementOfSeq, LenProperties DEF LoopInv
  <2>2. \A i \in D : FlagsTrue(o(i), t(i))
    BY DEF Coherent
  <2> HIDE DEF D, o, t
  <2> QED
    BY <2>1, <2>2 DEF ClosedLoopOutcomes, FlagsTrue
<1>3. \A i \in D :
        /\ i \in avoidable <=> o(i).committed /\ ~o(i).satisfied /\ o(i).feasible
        /\ i \in intrinsic <=> o(i).committed /\ ~o(i).satisfied /\ ~o(i).feasible
        /\ i \in class("unnecessary_abstention") <=> ~o(i).committed /\ o(i).feasible
        /\ i \in correct <=> ~o(i).committed /\ ~o(i).feasible
        /\ i \in class("committed_success") <=> o(i).committed /\ o(i).satisfied
  BY <1>2 DEF Classify
<1>4. /\ avoidable = {i \in D : (o(i).selected # {} /\ o(i).selected \cap t(i) = {}) /\ t(i) # {}}
      /\ intrinsic = {i \in D : (o(i).selected # {} /\ o(i).selected \cap t(i) = {}) /\ t(i) = {}}
      /\ class("unnecessary_abstention") = {i \in D : o(i).selected = {} /\ t(i) # {}}
      /\ class("committed_success") = satisfied
  BY <1>2, <1>3
<1>5. N = CC + AA /\ CC \in Nat /\ AA \in Nat
  <2>1. \A i \in D : i \in committed <=> i \notin abstained
    BY <1>2
  <2>2. (\A i \in committed : i \in D) /\ \A i \in abstained : i \in D
    OBVIOUS
  <2> HIDE DEF D, committed, abstained
  <2> QED
    BY <1>1, <2>1, <2>2, CountParts
<1>6. FF = CF + AF /\ CF \in Nat /\ AF \in Nat /\ FF \in Nat
  <2>1. \A i \in feasible : i \in both <=> i \notin waste
    BY <1>2
  <2>2. (\A i \in both : i \in feasible) /\ \A i \in waste : i \in feasible
    OBVIOUS
  <2>3. feasible \in SUBSET D
    OBVIOUS
  <2> HIDE DEF D, feasible, both, waste
  <2>4. IsFiniteSet(feasible)
    BY <1>1, <2>3, FS_Subset
  <2> QED
    BY <2>1, <2>2, <2>4, CountParts
<1>7. IsFiniteSet(both) /\ CF = SS + Cardinality(avoidable) /\ SS \in Nat
      /\ Cardinality(avoidable) \in Nat
  <2>1. \A i \in both : i \in satisfied <=> i \notin avoidable
    BY <1>2, <1>3
  <2>2. (\A i \in satisfied : i \in both) /\ \A i \in avoidable : i \in both
    BY <1>2, <1>3
  <2>3. both \in SUBSET D
    OBVIOUS
  <2> HIDE DEF D, both, satisfied, avoidable
  <2>4. IsFiniteSet(both)
    BY <1>1, <2>3, FS_Subset
  <2> QED
    BY <2>1, <2>2, <2>4, CountParts
<1>8. CC = CF + Cardinality(intrinsic) /\ Cardinality(intrinsic) \in Nat
  <2>1. \A i \in committed : i \in both <=> i \notin intrinsic
    BY <1>2, <1>3
  <2>2. (\A i \in both : i \in committed) /\ \A i \in intrinsic : i \in committed
    BY <1>3
  <2>3. committed \in SUBSET D
    OBVIOUS
  <2> HIDE DEF D, both, committed, intrinsic
  <2>4. IsFiniteSet(committed)
    BY <1>1, <2>3, FS_Subset
  <2> QED
    BY <2>1, <2>2, <2>4, CountParts
<1>9. AA = AF + Cardinality(correct) /\ Cardinality(correct) \in Nat
  <2>1. \A i \in abstained : i \in waste <=> i \notin correct
    BY <1>2, <1>3
  <2>2. (\A i \in waste : i \in abstained) /\ \A i \in correct : i \in abstained
    BY <1>3
  <2>3. abstained \in SUBSET D
    OBVIOUS
  <2> HIDE DEF D, abstained, waste, correct
  <2>4. IsFiniteSet(abstained)
    BY <1>1, <2>3, FS_Subset
  <2> QED
    BY <2>1, <2>2, <2>4, CountParts
<1> DEFINE d == Decompose(outcomes)
           bound == BoundV1(d.n, d.committed, d.satisfied, d.feasible)
<1>10. /\ d.n = N /\ d.feasible = FF /\ d.committed = CC /\ d.satisfied = SS
       /\ d.committedFeasible = CF /\ d.abstainedFeasible = AF
       /\ \A c \in Classes : d.class[c] = Cardinality(class(c))
  BY DEF Decompose, Count
<1>11. /\ d.class["avoidable_miss"] = Cardinality(avoidable)
       /\ d.class["intrinsic_miss"] = Cardinality(intrinsic)
       /\ d.class["correct_abstention"] = Cardinality(correct)
       /\ d.class["unnecessary_abstention"] = Cardinality(class("unnecessary_abstention"))
       /\ d.class["committed_success"] = Cardinality(class("committed_success"))
  BY <1>10 DEF Classes
<1>12. /\ d.class["avoidable_miss"]
            = Count(outcomes, LAMBDA e : (e.selected # {} /\ e.selected \cap truth[e.trial] = {})
                                         /\ truth[e.trial] # {})
       /\ d.class["intrinsic_miss"]
            = Count(outcomes, LAMBDA e : (e.selected # {} /\ e.selected \cap truth[e.trial] = {})
                                         /\ truth[e.trial] = {})
       /\ d.class["unnecessary_abstention"]
            = Count(outcomes, LAMBDA e : e.selected = {} /\ truth[e.trial] # {})
       /\ d.class["committed_success"] = d.satisfied
  BY <1>4, <1>10, <1>11 DEF Count
<1> DEFINE high == IF CC <= FF THEN CC ELSE FF
           rest == IF 0 >= FF - high THEN 0 ELSE FF - high
           over == IF 0 >= CC - high THEN 0 ELSE CC - high
<1>13. Min({CC, FF}) = high /\ Max({0, FF - high}) = rest /\ Max({0, CC - high}) = over
  <2> HIDE DEF CC, FF
  <2>1. CC \in Int /\ FF \in Int
    BY <1>5, <1>6
  <2>2. Min({CC, FF}) = high
    BY <2>1, MinOfTwo
  <2> DEFINE z == 0
             x == FF - high
             y == CC - high
  <2>3. z \in Int /\ x \in Int /\ y \in Int /\ z = 0
    BY <2>1
  <2> HIDE DEF x, y, z
  <2>4. /\ Max({z, x}) = IF z >= x THEN z ELSE x
        /\ Max({z, y}) = IF z >= y THEN z ELSE y
    BY <2>3, MaxOfTwo
  <2> QED
    BY <2>2, <2>3, <2>4 DEF x, y
<1>14. /\ bound.committedFeasible = <<SS, high>>
       /\ bound.committedInfeasible = <<over, CC - SS>>
       /\ bound.unnecessary = <<rest, FF - SS>>
       /\ bound.correct = <<N - CC - (FF - SS), N - CC - rest>>
       /\ bound.avoidable = <<0, CC - SS>> /\ bound.intrinsic = <<0, CC - SS>>
  <2> HIDE DEF CC, FF, SS, N, high, rest, over, d
  <2>1. bound = BoundV1(N, CC, SS, FF)
    BY <1>10
  <2> HIDE DEF bound
  <2> QED
    BY <1>13, <2>1 DEF BoundV1
<1> HIDE DEF avoidable, intrinsic, correct, CC, FF, SS, CF, AF, AA, N, d, bound
<1>15. /\ Within(d.committedFeasible, bound.committedFeasible)
       /\ Within(d.committed - d.committedFeasible, bound.committedInfeasible)
       /\ Within(d.abstainedFeasible, bound.unnecessary)
       /\ Within(d.class["correct_abstention"], bound.correct)
       /\ Within(d.class["avoidable_miss"], bound.avoidable)
       /\ Within(d.class["intrinsic_miss"], bound.intrinsic)
  <2> DEFINE AM == Cardinality(avoidable)
             IM == Cardinality(intrinsic)
             CA == Cardinality(correct)
  <2>1. \A n, a, b : Within(n, <<a, b>>) <=> a <= n /\ n <= b
    BY DEF Within
  <2> HIDE DEF AM, IM, CA
  <2>2. /\ N \in Nat /\ CC \in Nat /\ FF \in Nat /\ SS \in Nat /\ CF \in Nat /\ AF \in Nat
        /\ AA \in Nat /\ AM \in Nat /\ IM \in Nat /\ CA \in Nat
        /\ N = CC + AA /\ FF = CF + AF /\ CF = SS + AM /\ CC = CF + IM /\ AA = AF + CA
    BY <1>1, <1>5, <1>6, <1>7, <1>8, <1>9 DEF AM, IM, CA
  <2>3. /\ SS <= CF /\ CF <= high
        /\ over <= CC - CF /\ CC - CF <= CC - SS
        /\ rest <= AF /\ AF <= FF - SS
        /\ N - CC - (FF - SS) <= CA /\ CA <= N - CC - rest
        /\ 0 <= AM /\ AM <= CC - SS /\ 0 <= IM /\ IM <= CC - SS
    BY <2>2
  <2> HIDE DEF high, rest, over
  <2> QED
    BY <1>10, <1>11, <1>14, <2>1, <2>3 DEF AM, IM, CA
<1> QED
  BY <1>12, <1>15 DEF DecompositionIsTrue, d, bound

\* A sum of naturals is one.
LEMMA SumType ==
    ASSUME NEW f \in Seq(Nat)
    PROVE  SumOf(f) \in Nat
<1> DEFINE L == Len(f)
           IsSum(g, m) == /\ g \in [0..m -> Nat] /\ g[0] = 0
                          /\ \A n \in 1..m : g[n] = g[n - 1] + f[n]
           Missed == {m \in Nat : m <= L /\ ~ \E g : IsSum(g, m)}
           Adds(s) == s = [n \in 0..L |-> IF n = 0 THEN 0 ELSE s[n - 1] + f[n]]
<1>1. L \in Nat /\ \A n \in 1..L : f[n] \in Nat
  BY ElementOfSeq, LenProperties
<1>2. Missed = {}
  <2> SUFFICES ASSUME Missed # {} PROVE FALSE
    OBVIOUS
  <2>1. PICK m \in Missed : \A k \in Missed : m <= k
    <3>1. Missed \in SUBSET Nat
      OBVIOUS
    <3> HIDE DEF Missed
    <3> QED
      BY <3>1, LeastElement
  <2>2. m \in Nat /\ m <= L /\ ~ \E g : IsSum(g, m)
    BY <2>1
  <2>3. CASE m = 0
    <3>1. IsSum([n \in 0..0 |-> 0], 0)
      OBVIOUS
    <3> QED
      BY <2>2, <2>3, <3>1
  <2>4. CASE m # 0
    <3>1. m - 1 \in Nat /\ m - 1 <= L /\ m - 1 \notin Missed
      <4>1. m - 1 \in Nat /\ m - 1 <= L /\ ~(m <= m - 1)
        BY <1>1, <2>2, <2>4
      <4> HIDE DEF Missed
      <4> QED
        BY <2>1, <4>1
    <3>2. PICK g : IsSum(g, m - 1)
      <4> HIDE DEF IsSum
      <4> QED
        BY <3>1
    <3> DEFINE h == [n \in 0..m |-> IF n = m THEN g[m - 1] + f[m] ELSE g[n]]
    <3>3. m \in 1..L /\ g[m - 1] \in Nat /\ f[m] \in Nat
      BY <1>1, <2>2, <2>4, <3>1, <3>2
    <3>4. \A n \in 0..m : n = m \/ n \in 0..(m - 1)
      BY <2>2
    <3>5. h \in [0..m -> Nat]
      BY <3>2, <3>3, <3>4
    <3>6. h[0] = 0
      BY <2>2, <2>4, <3>2
    <3>7. \A n \in 1..m : h[n] = h[n - 1] + f[n]
      <4> TAKE n \in 1..m
      <4>1. n - 1 \in 0..(m - 1) /\ n - 1 # m /\ n \in 0..m /\ n - 1 \in 0..m
        BY <2>2
      <4>2. CASE n = m
        BY <4>1, <4>2
      <4>3. CASE n # m
        <5>1. n \in 1..(m - 1)
          BY <2>2, <4>3
        <5> QED
          BY <3>2, <4>1, <4>3, <5>1
      <4> QED
        BY <4>2, <4>3
    <3>8. IsSum(h, m)
      BY <3>5, <3>6, <3>7
    <3> QED
      BY <2>2, <3>8
  <2> QED
    BY <2>3, <2>4
<1>3. PICK g : IsSum(g, L)
  <2> HIDE DEF IsSum
  <2> QED
    BY <1>1, <1>2
<1>4. Adds(g)
  <2>1. \A n \in 0..L : g[n] = IF n = 0 THEN 0 ELSE g[n - 1] + f[n]
    <3> TAKE n \in 0..L
    <3>1. n # 0 => n \in 1..L
      BY <1>1
    <3> QED
      BY <1>3, <3>1
  <2> QED
    BY <1>3, <2>1
<1> DEFINE sum == CHOOSE s : Adds(s)
<1>5. Adds(sum)
  <2> HIDE DEF Adds
  <2> QED
    BY <1>4
<1> HIDE DEF sum
<1> DEFINE Odd == {n \in Nat : n <= L /\ sum[n] \notin Nat}
<1>6. Odd = {}
  <2> SUFFICES ASSUME Odd # {} PROVE FALSE
    OBVIOUS
  <2>1. PICK n \in Odd : \A k \in Odd : n <= k
    <3>1. Odd \in SUBSET Nat
      OBVIOUS
    <3> HIDE DEF Odd
    <3> QED
      BY <3>1, LeastElement
  <2>2. n \in 0..L /\ sum[n] \notin Nat
    BY <1>1, <2>1
  <2>3. sum[n] = IF n = 0 THEN 0 ELSE sum[n - 1] + f[n]
    BY <1>5, <2>2
  <2>4. n # 0
    BY <2>2, <2>3
  <2>5. n - 1 \in Nat /\ n - 1 <= L /\ n - 1 \notin Odd
    BY <1>1, <2>1, <2>2, <2>4
  <2>6. sum[n - 1] \in Nat /\ f[n] \in Nat
    BY <1>1, <2>2, <2>4, <2>5
  <2> QED
    BY <2>2, <2>3, <2>4, <2>6
<1>7. sum[L] \in Nat
  BY <1>1, <1>6
<1>8. SumOf(f) = sum[L]
  BY DEF SumOf, sum
<1> QED
  BY <1>7, <1>8

\* A policy as a point, over n trials.
LEMMA PointType ==
    ASSUME NEW name, NEW n \in Nat, NEW os, DOMAIN os = 1..n,
           \A i \in 1..n : os[i].execution \in Nat /\ os[i].exploration \in Nat
    PROVE  /\ Point(name, os).name = name
           /\ Point(name, os).success = Cardinality({i \in 1..n : os[i].satisfied})
           /\ Point(name, os).success \in 0..n
           /\ Point(name, os).calls \in Nat
<1> DEFINE met == {i \in 1..n : os[i].satisfied}
           calls == [i \in 1..n |-> os[i].execution + os[i].exploration]
<1>1. Cardinality(met) \in 0..n
  <2>1. met \in SUBSET (1..n)
    OBVIOUS
  <2> HIDE DEF met
  <2> QED
    BY <2>1, PlaceInHistory
<1>2. calls \in Seq(Nat)
  OBVIOUS
<1> DEFINE total == SumOf(calls)
<1>3. total \in Nat
  <2> HIDE DEF calls
  <2> QED
    BY <1>2, SumType
<1>4. Point(name, os) = [name |-> name, success |-> Cardinality(met), calls |-> total]
  BY DEF Point, Count, Total
<1> HIDE DEF met, total
<1> QED
  BY <1>1, <1>3, <1>4 DEF met

\* Among finitely many levels of successes and calls there is always a best
\* one: what is dominated is dominated by something on the frontier.
LEMMA FrontierDominates ==
    ASSUME NEW points, NEW n \in Nat,
           \A p \in points : p.success \in 0..n /\ p.calls \in Nat,
           NEW p \in points, p \notin Frontier(points)
    PROVE  \E q \in Frontier(points) : Dominates(q, p)
<1> DEFINE better == {q \in points : Dominates(q, p)}
           loss(q) == n - q.success + q.calls
           losses == {loss(q) : q \in better}
<1>1. better # {}
  BY DEF Frontier
<1>2. losses \in SUBSET Nat /\ losses # {}
  <2>1. \A q \in points : loss(q) \in Nat
    OBVIOUS
  <2> HIDE DEF loss
  <2> QED
    BY <1>1, <2>1
<1>3. PICK l \in losses : \A m \in losses : l <= m
  <2> HIDE DEF losses
  <2> QED
    BY <1>2, LeastElement
<1>4. PICK q \in better : loss(q) = l
  OBVIOUS
<1>5. ASSUME NEW r \in points, Dominates(r, q) PROVE FALSE
  <2>1. /\ p.success \in Nat /\ p.calls \in Nat /\ q.success \in Nat /\ q.calls \in Nat
        /\ r.success \in Nat /\ r.calls \in Nat
    BY <1>4
  <2>2. Dominates(r, p) /\ loss(r) < loss(q)
    BY <1>4, <1>5, <2>1 DEF Dominates
  <2>3. loss(r) \in losses
    BY <2>2
  <2>4. loss(q) <= loss(r)
    BY <1>3, <1>4, <2>3
  <2>5. loss(q) \in Int /\ loss(r) \in Int
    BY <2>1
  <2> HIDE DEF loss
  <2> QED
    BY <2>2, <2>4, <2>5
<1> QED
  BY <1>4, <1>5 DEF Frontier

LEMMA ComparisonHolds == LoopInv /\ Coherent => ComparisonIsFair
<1> SUFFICES ASSUME LoopInv, Coherent, counter > 0 PROVE ComparisonIsFair
  BY DEF ComparisonIsFair
<1> DEFINE N == Len(outcomes)
           o(i) == outcomes[i]
           t(i) == truth[outcomes[i].trial]
           A == Point({}, outcomes)
           K(F) == Point(F, StaticOutcomes(F))
           won == {i \in 1..N : o(i).satisfied}
           wins(F) == {i \in 1..N : F \cap t(i) # {}}
<1>1. /\ N \in Nat /\ N > 0 /\ DOMAIN outcomes = 1..N /\ counter = N
      /\ \A i \in 1..N : o(i) \in ClosedLoopOutcomes(index)
  BY TypeParts, ElementOfSeq, LenProperties DEF LoopInv, Numbered
<1>2. \A i \in 1..N : /\ o(i).execution \in Nat /\ o(i).exploration \in Nat
                      /\ o(i).satisfied \in BOOLEAN
                      /\ o(i).selected \in SUBSET Providers
                      /\ o(i).satisfied <=> o(i).selected \cap t(i) # {}
  <2>1. \A i \in 1..N : FlagsTrue(o(i), t(i))
    BY <1>1 DEF Coherent
  <2> HIDE DEF o, t, N
  <2> QED
    BY <1>1, <2>1 DEF ClosedLoopOutcomes, FlagsTrue
<1>3. /\ A.name = {} /\ A.success = Cardinality(won) /\ A.success \in 0..N
      /\ A.calls \in Nat
  <2> DEFINE name == {}
             os == outcomes
  <2>1. DOMAIN os = 1..N /\ \A i \in 1..N : os[i].execution \in Nat /\ os[i].exploration \in Nat
    BY <1>1, <1>2
  <2>2. {i \in 1..N : os[i].satisfied} = won
    OBVIOUS
  <2> HIDE DEF name, os, N, won
  <2>3. /\ Point(name, os).name = name
        /\ Point(name, os).success = Cardinality({i \in 1..N : os[i].satisfied})
        /\ Point(name, os).success \in 0..N /\ Point(name, os).calls \in Nat
    BY <1>1, <2>1, PointType
  <2> QED
    BY <2>2, <2>3 DEF name, os
<1>4. ASSUME NEW F \in Subsets(Providers)
      PROVE  /\ K(F).name = F /\ K(F).success = Cardinality(wins(F))
             /\ K(F).success \in 0..N /\ K(F).calls \in Nat
  <2> DEFINE os == StaticOutcomes(F)
  <2>1. DOMAIN os = 1..N
    BY <1>1 DEF StaticOutcomes
  <2>2. \A i \in 1..N : /\ os[i].satisfied = (F \cap t(i) # {})
                        /\ os[i].execution = Cardinality(F) /\ os[i].exploration = 0
    <3> TAKE i \in 1..N
    <3>1. os[i] = [outcomes[i] EXCEPT !.committed = TRUE, !.selected = F,
                     !.satisfied = SubsetSucceeds(F, outcomes[i]),
                     !.execution = Cardinality(F), !.exploration = 0]
      BY <1>1 DEF StaticOutcomes
    <3> HIDE DEF os
    <3> QED
      BY <1>1, <3>1 DEF SubsetSucceeds, ClosedLoopOutcomes
  <2>3. Cardinality(F) \in Nat
    BY SetsOfProviders DEF Subsets
  <2>4. {i \in 1..N : os[i].satisfied} = wins(F)
    BY <2>2
  <2> HIDE DEF os, N, wins
  <2>5. \A i \in 1..N : os[i].execution \in Nat /\ os[i].exploration \in Nat
    BY <2>2, <2>3
  <2>6. /\ Point(F, os).name = F
        /\ Point(F, os).success = Cardinality({i \in 1..N : os[i].satisfied})
        /\ Point(F, os).success \in 0..N /\ Point(F, os).calls \in Nat
    BY <1>1, <2>1, <2>5, PointType
  <2> QED
    BY <2>4, <2>6 DEF os
<1>5. Providers \in Subsets(Providers) /\ {} \notin Subsets(Providers)
  BY ClosedLoopAssumption DEF Subsets
<1>6. \A F \in Subsets(Providers) : F \in SUBSET Providers /\ F # {}
  BY DEF Subsets
<1> DEFINE points == Points
           frontier == Frontier(points)
           a == CHOOSE p \in points : p.name = {}
           all == CHOOSE p \in points : p.name = Providers
<1>7. points = {A} \cup {K(F) : F \in Subsets(Providers)}
  BY DEF Points
<1> HIDE DEF points, A, K
<1>8. \A p \in points : p = A \/ \E F \in Subsets(Providers) : p = K(F)
  BY <1>7
<1>9. a = A /\ all = K(Providers)
  <2>1. /\ A.name = {} /\ Providers # {}
        /\ \A F \in Subsets(Providers) : K(F).name = F /\ F # {}
    BY <1>3, <1>4, <1>5, <1>6
  <2>2. \A p \in points : p.name = {} <=> p = A
    BY ONLY <1>8, <2>1
  <2>3. \A p \in points : p.name = Providers <=> p = K(Providers)
    BY ONLY <1>5, <1>8, <2>1
  <2>4. A \in points /\ K(Providers) \in points
    BY <1>5, <1>7
  <2> QED
    BY <2>2, <2>3, <2>4
<1>10. \A p \in points : p.success \in 0..N /\ p.calls \in Nat
  BY <1>3, <1>4, <1>8
<1>11. ASSUME NEW p \in points
       PROVE  /\ p.success <= all.success
              /\ p \in frontier \/ \E q \in frontier : Dominates(q, p)
  <2>1. IsFiniteSet(wins(Providers)) /\ won \in SUBSET wins(Providers)
        /\ \A F \in Subsets(Providers) : wins(F) \in SUBSET wins(Providers)
    <3>1. wins(Providers) \in SUBSET (1..N)
      OBVIOUS
    <3>2. IsFiniteSet(wins(Providers))
      <4> HIDE DEF wins, N
      <4> QED
        BY <1>1, <3>1, PlaceInHistory
    <3>3. won \in SUBSET wins(Providers)
      BY <1>2
    <3>4. \A F \in Subsets(Providers) : wins(F) \in SUBSET wins(Providers)
      BY <1>6
    <3> QED
      BY <3>2, <3>3, <3>4
  <2> HIDE DEF won, wins
  <2>2. all.success = Cardinality(wins(Providers))
    BY <1>4, <1>5, <1>9
  <2>3. Cardinality(won) <= Cardinality(wins(Providers))
    BY <2>1, FS_Subset
  <2>4. \A F \in Subsets(Providers) : Cardinality(wins(F)) <= Cardinality(wins(Providers))
    BY <2>1, FS_Subset
  <2>5. p.success <= all.success
    BY <1>3, <1>4, <1>8, <2>2, <2>3, <2>4
  <2> HIDE DEF N
  <2>6. p \in frontier \/ \E q \in frontier : Dominates(q, p)
    BY <1>1, <1>10, FrontierDominates
  <2> QED
    BY <2>5, <2>6
<1>12. ASSUME NEW k \in points \ {a}
       PROVE  LET u == PairedTable(k.name)
              IN /\ u.n11 + u.n10 + u.n01 + u.n00 = counter
                 /\ u.n10 - u.n01 = a.success - k.success
                 /\ \/ VerdictV3(a, k) = "GO"
                    \/ \E low \in {-3, 0}, high \in {-1, 1} :
                         VerdictV4(a, k, low, high) = "ROBUST_GO"
                    => Dominates(a, k) /\ k \notin frontier
  <2>1. PICK F \in Subsets(Providers) : k = K(F)
    BY <1>8, <1>9
  <2> DEFINE u == PairedTable(F)
             s11 == {i \in 1..N : o(i).satisfied /\ F \cap t(i) # {}}
             s10 == {i \in 1..N : o(i).satisfied /\ ~(F \cap t(i) # {})}
             s01 == {i \in 1..N : ~o(i).satisfied /\ F \cap t(i) # {}}
             s00 == {i \in 1..N : ~o(i).satisfied /\ ~(F \cap t(i) # {})}
             lost == {i \in 1..N : ~o(i).satisfied}
  <2>2. /\ u.n11 = Cardinality(s11) /\ u.n10 = Cardinality(s10)
        /\ u.n01 = Cardinality(s01) /\ u.n00 = Cardinality(s00)
    <3>1. /\ {i \in DOMAIN outcomes : outcomes[i].satisfied = TRUE
                                       /\ SubsetSucceeds(F, outcomes[i]) = TRUE} = s11
          /\ {i \in DOMAIN outcomes : outcomes[i].satisfied = TRUE
                                       /\ SubsetSucceeds(F, outcomes[i]) = FALSE} = s10
          /\ {i \in DOMAIN outcomes : outcomes[i].satisfied = FALSE
                                       /\ SubsetSucceeds(F, outcomes[i]) = TRUE} = s01
          /\ {i \in DOMAIN outcomes : outcomes[i].satisfied = FALSE
                                       /\ SubsetSucceeds(F, outcomes[i]) = FALSE} = s00
      BY <1>1, <1>2 DEF SubsetSucceeds
    <3> HIDE DEF s11, s10, s01, s00
    <3> QED
      BY <3>1 DEF PairedTable, Count
  <2> DEFINE D == 1..N
             W == wins(F)
  <2>3. IsFiniteSet(D) /\ Cardinality(D) = N
    BY <1>1, FS_Interval
  <2>4. /\ \A i \in D : i \in won <=> i \notin lost
        /\ \A i \in won : i \in D
        /\ \A i \in lost : i \in D
    OBVIOUS
  <2>5. /\ \A i \in won : i \in s11 <=> i \notin s10
        /\ \A i \in s11 : i \in won
        /\ \A i \in s10 : i \in won
    OBVIOUS
  <2>6. /\ \A i \in lost : i \in s01 <=> i \notin s00
        /\ \A i \in s01 : i \in lost
        /\ \A i \in s00 : i \in lost
    OBVIOUS
  <2>7. /\ \A i \in W : i \in s11 <=> i \notin s01
        /\ \A i \in s11 : i \in W
        /\ \A i \in s01 : i \in W
        /\ W \in SUBSET D
    OBVIOUS
  <2> HIDE DEF won, lost, s11, s10, s01, s00, W, D, u
  <2>8. /\ IsFiniteSet(won) /\ IsFiniteSet(lost) /\ Cardinality(won) \in Nat
         /\ Cardinality(lost) \in Nat /\ N = Cardinality(won) + Cardinality(lost)
    BY ONLY <2>3, <2>4, CountParts
  <2>9. /\ Cardinality(s11) \in Nat /\ Cardinality(s10) \in Nat
         /\ Cardinality(won) = Cardinality(s11) + Cardinality(s10)
    BY ONLY <2>5, <2>8, CountParts
  <2>10. /\ Cardinality(s01) \in Nat /\ Cardinality(s00) \in Nat
         /\ Cardinality(lost) = Cardinality(s01) + Cardinality(s00)
    BY ONLY <2>6, <2>8, CountParts
  <2>11. Cardinality(W) = Cardinality(s11) + Cardinality(s01)
    <3>1. IsFiniteSet(W)
      BY <2>3, <2>7, FS_Subset
    <3> QED
      BY ONLY <2>7, <3>1, CountParts
  <2>12. a \in points /\ a = A
    BY <1>7, <1>9
  <2> HIDE DEF a
  <2>13. /\ k.name = F /\ k.success = Cardinality(W) /\ a.success = Cardinality(won)
        /\ k.success \in Nat /\ k.calls \in Nat /\ a.success \in Nat /\ a.calls \in Nat
        /\ a \in points
    <3>1. /\ K(F).name = F /\ K(F).success = Cardinality(wins(F))
          /\ K(F).success \in 0..N /\ K(F).calls \in Nat
      BY <1>4
    <3> HIDE DEF wins, N
    <3>2. a.success = Cardinality(won) /\ a.success \in 0..N /\ a.calls \in Nat
      BY <1>3, <2>12
    <3> QED
      BY <1>1, <2>1, <2>12, <3>1, <3>2 DEF W
  <2> HIDE DEF wins, N
  <2>14. u.n11 + u.n10 + u.n01 + u.n00 = counter /\ u.n10 - u.n01 = a.success - k.success
    BY <1>1, <2>2, <2>13, <2>8, <2>9, <2>10, <2>11
  <2> HIDE DEF o, t
  <2>15. VerdictV3(a, k) = "GO" => Dominates(a, k)
    BY <1>1, <2>13 DEF VerdictV3, Dominates, N
  <2>16. \A low, high : VerdictV4(a, k, low, high) = "ROBUST_GO" => Dominates(a, k)
    BY <2>13 DEF VerdictV4, Dominates
  <2>17. Dominates(a, k) => k \notin frontier
    BY <2>13 DEF Frontier
  <2> QED
    BY <2>13, <2>14, <2>15, <2>16, <2>17 DEF u
<1> QED
  BY <1>11, <1>12 DEF ComparisonIsFair, points

\* The classes that an episode is decomposed into count what their names say of
\* the truth that the policy never saw, and the V1 bounds contain the true cells,
\* for episodes of any length.
THEOREM DecompositionProved == Spec => []DecompositionIsTrue
  BY CoherentAlways, DecompositionHolds, PTL

\* The comparison with the fixed subsets is over the same trials and agrees with
\* its own figures, whatever was selected; what is off the frontier is dominated
\* by something on it.
THEOREM ComparisonProved == Spec => []ComparisonIsFair
  BY CoherentAlways, ComparisonHolds, PTL

(***************************************************************************)
(* The training rows of an episode.                                        *)
(***************************************************************************)

LEMMA LenOfFunction ==
    ASSUME NEW n \in Nat, NEW A
    PROVE  /\ Len([i \in 1..n |-> A[i]]) = n
           /\ [i \in 1..n |-> A[i]] \in Seq({A[i] : i \in 1..n})
<1> DEFINE s == [i \in 1..n |-> A[i]]
           T == {A[i] : i \in 1..n}
<1>1. s \in [1..n -> T]
  OBVIOUS
<1>2. s \in Seq(T)
  <2> HIDE DEF s, T
  <2> QED
    BY <1>1, SeqDef
<1>3. DOMAIN s = 1..Len(s) /\ Len(s) \in Nat
  <2> HIDE DEF s, T
  <2> QED
    BY <1>2, LenProperties
<1>4. DOMAIN s = 1..n
  OBVIOUS
<1>5. Len(s) = n
  <2> HIDE DEF s, T
  <2>1. n # 0 => n \in 1..Len(s)
    BY <1>4, <1>3
  <2>2. Len(s) # 0 => Len(s) \in 1..n
    BY <1>4, <1>3
  <2> DEFINE l == Len(s)
  <2>3. l \in Nat /\ (n # 0 => n <= l) /\ (l # 0 => l <= n)
    BY <1>3, <2>1, <2>2
  <2> HIDE DEF l
  <2>4. l = n
    BY <2>3
  <2> QED
    BY <2>4 DEF l
<1> QED
  BY <1>2, <1>5

\* What the concatenation of a sequence of sequences is, step by step.
LEMMA FlattenSteps ==
    ASSUME NEW L \in Nat, NEW A
    PROVE  \A m \in 1..L :
             FlattenSeq([i \in 1..m |-> A[i]])
               = IF m = 1 THEN A[1] ELSE FlattenSeq([i \in 1..(m - 1) |-> A[i]]) \o A[m]
<1> DEFINE IsFlat(g, m) == /\ g = [i \in 1..m |-> g[i]]
                           /\ \A i \in 1..m : g[i] = IF i = 1 THEN A[1] ELSE g[i - 1] \o A[i]
           Missed == {m \in Nat : m <= L /\ ~ \E g : IsFlat(g, m)}
<1>1. Missed = {}
  <2> SUFFICES ASSUME Missed # {} PROVE FALSE
    OBVIOUS
  <2>1. PICK m \in Missed : \A k \in Missed : m <= k
    <3>1. Missed \in SUBSET Nat
      OBVIOUS
    <3> HIDE DEF Missed
    <3> QED
      BY <3>1, LeastElement
  <2>2. m \in Nat /\ m <= L /\ ~ \E g : IsFlat(g, m)
    BY <2>1
  <2>3. CASE m = 0
    <3>1. IsFlat([i \in 1..0 |-> 0], 0)
      OBVIOUS
    <3> QED
      BY <2>2, <2>3, <3>1
  <2>4. CASE m # 0
    <3>1. m - 1 \in Nat /\ m - 1 <= L /\ m - 1 \notin Missed
      <4>1. m - 1 \in Nat /\ m - 1 <= L /\ ~(m <= m - 1)
        BY <2>2, <2>4
      <4> HIDE DEF Missed
      <4> QED
        BY <2>1, <4>1
    <3>2. PICK g : IsFlat(g, m - 1)
      <4> HIDE DEF IsFlat
      <4> QED
        BY <3>1
    <3> DEFINE h == [i \in 1..m |-> IF i # m THEN g[i]
                                    ELSE IF m = 1 THEN A[1] ELSE g[m - 1] \o A[m]]
    <3>3. h = [i \in 1..m |-> h[i]]
      OBVIOUS
    <3>4. \A i \in 1..m : h[i] = IF i = 1 THEN A[1] ELSE h[i - 1] \o A[i]
      <4> TAKE i \in 1..m
      <4>1. CASE i = m /\ i = 1
        BY <4>1
      <4>2. CASE i = m /\ i # 1
        <5>1. i - 1 \in 1..m /\ i - 1 # m
          BY <2>2, <4>2
        <5>2. h[i - 1] = g[m - 1]
          BY <4>2, <5>1
        <5> QED
          BY <4>2, <5>2
      <4>3. CASE i # m
        <5>1. i \in 1..(m - 1) /\ h[i] = g[i]
          BY <2>2, <4>3
        <5>2. i # 1 => i - 1 \in 1..m /\ i - 1 # m
          BY <2>2, <4>3
        <5>3. i # 1 => h[i - 1] = g[i - 1]
          BY <5>2
        <5> QED
          BY <3>2, <5>1, <5>3
      <4> QED
        BY <4>1, <4>2, <4>3
    <3> HIDE DEF h
    <3>5. IsFlat(h, m)
      BY <3>3, <3>4
    <3> QED
      BY <2>2, <3>5
  <2> QED
    BY <2>3, <2>4
\* The function that FlattenSeq chooses.
<1> DEFINE Chosen2(m) ==
             CHOOSE f : f = [i \in 1..m |-> IF i = 1 THEN A[1] ELSE f[i - 1] \o A[i]]
<1>2. ASSUME NEW m \in 1..L
      PROVE  IsFlat(Chosen2(m), m)
  <2>1. PICK g : IsFlat(g, m)
    <3> HIDE DEF IsFlat
    <3> QED
      BY <1>1
  <2>2. g = [i \in 1..m |-> IF i = 1 THEN A[1] ELSE g[i - 1] \o A[i]]
    BY <2>1
  <2> DEFINE c == Chosen2(m)
  <2>3. c = [i \in 1..m |-> IF i = 1 THEN A[1] ELSE c[i - 1] \o A[i]]
    BY <2>2
  <2> HIDE DEF c
  <2>4. IsFlat(c, m)
    BY <2>3
  <2> QED
    BY <2>4 DEF c
<1>3. ASSUME NEW m \in 1..L
      PROVE  FlattenSeq([i \in 1..m |-> A[i]]) = Chosen2(m)[m]
  <2> DEFINE s == [i \in 1..m |-> A[i]]
  <2>1. Len(s) = m
    BY LenOfFunction
  <2>2. \A f : [i \in 1..m |-> IF i = 1 THEN s[i] ELSE f[i - 1] \o s[i]]
                 = [i \in 1..m |-> IF i = 1 THEN A[1] ELSE f[i - 1] \o A[i]]
    OBVIOUS
  <2> HIDE DEF s
  <2>3. FlattenSeq(s)
          = (CHOOSE f : f = [i \in 1..m |-> IF i = 1 THEN s[i] ELSE f[i - 1] \o s[i]])[m]
    BY <2>1 DEF FlattenSeq
  <2>4. FlattenSeq(s) = Chosen2(m)[m]
    BY <2>2, <2>3, ZenonT(30)
  <2> QED
    BY <2>4 DEF s
<1> HIDE DEF Chosen2, IsFlat, Missed
<1>4. ASSUME NEW m \in 1..L, m # 1
      PROVE  Chosen2(m)[m - 1] = Chosen2(m - 1)[m - 1]
  <2> DEFINE f == Chosen2(m)
             g == Chosen2(m - 1)
             Odd == {k \in Nat : k >= 1 /\ k <= m - 1 /\ f[k] # g[k]}
  <2>1. m - 1 \in 1..L /\ m \in Nat
    BY <1>4
  <2>2. /\ \A i \in 1..m : f[i] = IF i = 1 THEN A[1] ELSE f[i - 1] \o A[i]
        /\ \A i \in 1..(m - 1) : g[i] = IF i = 1 THEN A[1] ELSE g[i - 1] \o A[i]
    BY <1>2, <2>1 DEF IsFlat
  <2> HIDE DEF f, g
  <2>3. Odd = {}
    <3> SUFFICES ASSUME Odd # {} PROVE FALSE
      OBVIOUS
    <3>1. PICK k \in Odd : \A j \in Odd : k <= j
      <4>1. Odd \in SUBSET Nat
        OBVIOUS
      <4> HIDE DEF Odd
      <4> QED
        BY <4>1, LeastElement
    <3>2. k \in Nat /\ k >= 1 /\ k <= m - 1 /\ f[k] # g[k]
      BY <3>1
    <3>3. k \in 1..m /\ k \in 1..(m - 1)
      BY <2>1, <3>2
    <3>4. k # 1
      BY <2>2, <3>2, <3>3
    <3>5. k - 1 \notin Odd
      <4>1. ~ (k <= k - 1)
        BY <3>2
      <4> HIDE DEF Odd
      <4> QED
        BY <3>1, <4>1
    <3>6. f[k - 1] = g[k - 1]
      BY <2>1, <3>2, <3>4, <3>5
    <3> QED
      BY <2>2, <3>2, <3>3, <3>4, <3>6
  <2>4. f[m - 1] = g[m - 1]
    BY <2>1, <2>3
  <2> QED
    BY <2>4 DEF f, g
<1>5. ASSUME NEW m \in 1..L
      PROVE  FlattenSeq([i \in 1..m |-> A[i]])
               = IF m = 1 THEN A[1] ELSE FlattenSeq([i \in 1..(m - 1) |-> A[i]]) \o A[m]
  <2>1. Chosen2(m)[m] = IF m = 1 THEN A[1] ELSE Chosen2(m)[m - 1] \o A[m]
    <3>1. m \in 1..m
      OBVIOUS
    <3> QED
      BY <1>2, <3>1 DEF IsFlat
  <2>2. m # 1 => m - 1 \in 1..L
    OBVIOUS
  <2> QED
    BY <1>3, <1>4, <2>1, <2>2
<1> QED
  BY <1>5

\* What is acquired of one trial is a sequence of records of it.
LEMMA AcquiredIs ==
    ASSUME NEW o, NEW c
    PROVE  /\ Acquired(o, c) \in Seq({Record(S, o) : S \in {Providers, {RoundRobin(c)}}})
           /\ Len(Acquired(o, c)) \in Nat \ {0}
           /\ Acquired(o, c)[1] = Record(IF c <= coldStart THEN Providers ELSE {RoundRobin(c)}, o)
<1> DEFINE a == Record(Providers, o)
           b == Record({RoundRobin(c)}, o)
           T == {Record(S, o) : S \in {Providers, {RoundRobin(c)}}}
<1>1. a \in T /\ b \in T
  OBVIOUS
<1>2. \/ Acquired(o, c) = <<a>> /\ c <= coldStart
      \/ Acquired(o, c) = <<b>> \o <<a>> /\ ~(c <= coldStart)
      \/ Acquired(o, c) = <<b>> \o << >> /\ ~(c <= coldStart)
  BY DEF Acquired
<1> HIDE DEF a, b, T
<1>3. /\ <<a>> \in Seq(T) /\ <<b>> \in Seq(T) /\ << >> \in Seq(T)
      /\ Len(<<a>>) = 1 /\ Len(<<b>>) = 1 /\ Len(<< >>) = 0
      /\ <<a>>[1] = a /\ <<b>>[1] = b
  BY <1>1
<1>4. \A s \in {<<a>>, << >>} :
        /\ <<b>> \o s \in Seq(T) /\ Len(<<b>> \o s) \in Nat \ {0} /\ (<<b>> \o s)[1] = b
  <2> TAKE s \in {<<a>>, << >>}
  <2>1. s \in Seq(T) /\ Len(s) \in Nat
    BY <1>3
  <2>2. 1 \in 1..(Len(<<b>>) + Len(s)) /\ 1 <= Len(<<b>>)
    BY <1>3, <2>1
  <2> QED
    BY <1>3, <2>1, <2>2, ConcatProperties
<1>5. Acquired(o, c) \in Seq(T) /\ Len(Acquired(o, c)) \in Nat \ {0}
      /\ Acquired(o, c)[1] = IF c <= coldStart THEN a ELSE b
  <2>1. CASE c <= coldStart
    <3>1. Acquired(o, c) = <<a>>
      BY <1>2, <2>1
    <3> QED
      BY <1>3, <2>1, <3>1
  <2>2. CASE ~(c <= coldStart)
    <3>1. PICK s \in {<<a>>, << >>} : Acquired(o, c) = <<b>> \o s
      BY <1>2, <2>2
    <3> QED
      BY <1>4, <2>2, <3>1
  <2> QED
    BY <2>1, <2>2
<1> QED
  BY <1>5 DEF a, b, T

\* The loop of policy_faithful_rows after n complete trials.
StudyStep(a, n) ==
    [deployed |-> a.deployed \o Acquired(outcomes[n], n),
     rows |-> IF n <= coldStart THEN a.rows
              ELSE Append(a.rows, TrainingRow(outcomes[n], a.deployed))]

IsStudy(g, m) ==
    /\ g = [n \in 0..m |-> g[n]] /\ g[0] = [deployed |-> << >>, rows |-> << >>]
    /\ \A n \in 1..m : g[n] = StudyStep(g[n - 1], n)

LEMMA StudyExists ==
    ASSUME NEW L \in Nat
    PROVE  \E g : IsStudy(g, L)
<1> DEFINE Missed == {m \in Nat : m <= L /\ ~ \E g : IsStudy(g, m)}
<1>1. SUFFICES ASSUME Missed # {} PROVE FALSE
  OBVIOUS
<1>2. PICK m \in Missed : \A k \in Missed : m <= k
  <2>1. Missed \in SUBSET Nat
    OBVIOUS
  <2> HIDE DEF Missed
  <2> QED
    BY <1>1, <2>1, LeastElement
<1>3. m \in Nat /\ m <= L /\ ~ \E g : IsStudy(g, m)
  BY <1>2
<1>4. CASE m = 0
  <2> DEFINE g == [n \in 0..0 |-> [deployed |-> << >>, rows |-> << >>]]
  <2>1. IsStudy(g, 0)
    BY DEF IsStudy
  <2> QED
    BY <1>3, <1>4, <2>1
<1>5. CASE m # 0
  <2>1. m - 1 \in Nat /\ m - 1 <= L /\ m - 1 \notin Missed
    <3>1. m - 1 \in Nat /\ m - 1 <= L /\ ~(m <= m - 1)
      BY <1>3, <1>5
    <3> HIDE DEF Missed
    <3> QED
      BY <1>2, <3>1
  <2>2. PICK g : IsStudy(g, m - 1)
    BY <2>1
  <2> DEFINE h == [n \in 0..m |-> IF n = m THEN StudyStep(g[m - 1], m) ELSE g[n]]
  <2>3. h = [n \in 0..m |-> h[n]] /\ h[0] = [deployed |-> << >>, rows |-> << >>]
    <3>1. 0 \in 0..m /\ 0 # m
      BY <1>3, <1>5
    <3> QED
      BY <2>2, <3>1 DEF IsStudy
  <2>4. \A n \in 1..m : h[n] = StudyStep(h[n - 1], n)
    <3> TAKE n \in 1..m
    <3>1. n \in 0..m /\ n - 1 \in 0..m /\ n - 1 # m
      BY <1>3
    <3>2. h[n - 1] = g[n - 1]
      BY <3>1
    <3>3. CASE n = m
      BY <3>1, <3>2, <3>3
    <3>4. CASE n # m
      <4>1. n \in 1..(m - 1) /\ h[n] = g[n]
        BY <1>3, <3>1, <3>4
      <4> QED
        BY <2>2, <3>2, <4>1 DEF IsStudy
    <3> QED
      BY <3>3, <3>4
  <2> HIDE DEF h
  <2>5. IsStudy(h, m)
    BY <2>3, <2>4 DEF IsStudy
  <2> QED
    BY <1>3, <2>5
<1> QED
  BY <1>4, <1>5

LEMMA RowsAreStudied ==
    ASSUME NEW L \in Nat, L = Len(outcomes)
    PROVE  \E g : IsStudy(g, L) /\ FaithfulRows = g[L]
<1> DEFINE First == [deployed |-> << >>, rows |-> << >>]
           F(f) == [n \in 0..L |-> IF n = 0 THEN First ELSE StudyStep(f[n - 1], n)]
           study == CHOOSE f : f = F(f)
<1>1. FaithfulRows = study[L]
  BY DEF FaithfulRows, StudyStep
<1>2. PICK g : IsStudy(g, L)
  BY StudyExists
<1>3. g = F(g)
  <2>1. \A n \in 0..L : g[n] = IF n = 0 THEN First ELSE StudyStep(g[n - 1], n)
    <3> TAKE n \in 0..L
    <3>1. n # 0 => n \in 1..L
      OBVIOUS
    <3> QED
      BY <1>2, <3>1 DEF IsStudy
  <2> QED
    BY <1>2, <2>1 DEF IsStudy
<1>4. study = F(study)
  <2> HIDE DEF F
  <2> QED
    BY <1>3
<1> HIDE DEF study
<1>5. IsStudy(study, L)
  <2>1. study = [n \in 0..L |-> study[n]]
    BY <1>4
  <2>2. study[0] = First
    BY <1>4
  <2>3. ASSUME NEW n \in 1..L PROVE study[n] = StudyStep(study[n - 1], n)
    <3>1. n \in 0..L /\ n # 0
      OBVIOUS
    <3> QED
      BY <1>4, <3>1
  <2> QED
    BY <2>1, <2>2, <2>3 DEF IsStudy
<1> QED
  BY <1>1, <1>5

\* Induction up to L, for a set of numbers.
LEMMA UpTo ==
    ASSUME NEW L \in Nat, NEW G, 0 \in G, \A n \in 1..L : n - 1 \in G => n \in G
    PROVE  \A n \in 0..L : n \in G
<1> DEFINE Missed == {n \in Nat : n <= L /\ n \notin G}
<1>1. SUFFICES ASSUME Missed # {} PROVE FALSE
  OBVIOUS
<1>2. PICK n \in Missed : \A k \in Missed : n <= k
  <2>1. Missed \in SUBSET Nat
    OBVIOUS
  <2> HIDE DEF Missed
  <2> QED
    BY <1>1, <2>1, LeastElement
<1>3. n \in 1..L /\ n - 1 \in Nat /\ n - 1 <= L /\ ~(n <= n - 1)
  BY <1>2
<1>4. n - 1 \in G
  <2>1. n - 1 \notin Missed
    <3> HIDE DEF Missed
    <3> QED
      BY <1>2, <1>3
  <2> QED
    BY <1>3, <2>1
<1> QED
  BY <1>2, <1>3, <1>4

LEMMA StudyParts ==
    ASSUME NEW L \in Nat, NEW g, IsStudy(g, L), NEW n \in 1..L
    PROVE  /\ g[n].deployed = g[n - 1].deployed \o Acquired(outcomes[n], n)
           /\ n <= coldStart => g[n].rows = g[n - 1].rows
           /\ ~(n <= coldStart) =>
                g[n].rows = Append(g[n - 1].rows, TrainingRow(outcomes[n], g[n - 1].deployed))
<1>1. g[n] = StudyStep(g[n - 1], n)
  BY DEF IsStudy
<1> DEFINE a == g[n - 1]
<1>2. g[n] = StudyStep(a, n)
  BY <1>1
<1> HIDE DEF a
<1>3. g[n].deployed = a.deployed \o Acquired(outcomes[n], n)
  <2> DEFINE x == IF n <= coldStart THEN a.rows
                  ELSE Append(a.rows, TrainingRow(outcomes[n], a.deployed))
             y == a.deployed \o Acquired(outcomes[n], n)
  <2>1. g[n] = [deployed |-> y, rows |-> x]
    BY <1>2 DEF StudyStep
  <2> HIDE DEF x, y
  <2>2. g[n].deployed = y
    BY <2>1
  <2> QED
    BY <2>2 DEF y
<1>4. g[n].rows = IF n <= coldStart THEN a.rows
                  ELSE Append(a.rows, TrainingRow(outcomes[n], a.deployed))
  <2> DEFINE x == IF n <= coldStart THEN a.rows
                  ELSE Append(a.rows, TrainingRow(outcomes[n], a.deployed))
             y == a.deployed \o Acquired(outcomes[n], n)
  <2>1. g[n] = [deployed |-> y, rows |-> x]
    BY <1>2 DEF StudyStep
  <2> HIDE DEF x, y
  <2>2. g[n].rows = x
    BY <2>1
  <2> QED
    BY <2>2 DEF x
<1>5. n <= coldStart => g[n].rows = a.rows
  BY <1>4
<1>6. ~(n <= coldStart) => g[n].rows = Append(a.rows, TrainingRow(outcomes[n], a.deployed))
  BY <1>4
<1> QED
  BY <1>3, <1>5, <1>6 DEF a

LEMMA StudyStarts ==
    ASSUME NEW L \in Nat, NEW g, IsStudy(g, L)
    PROVE  g[0].deployed = << >> /\ g[0].rows = << >>
  BY DEF IsStudy

AcquiredBefore(n) == FlattenSeq([i \in 1..n |-> Acquired(outcomes[i], i)])

LEMMA StudyDeployed ==
    ASSUME NEW L \in Nat, NEW g, IsStudy(g, L), NEW n \in 0..L
    PROVE  g[n].deployed = AcquiredBefore(n)
<1> DEFINE A == [i \in 1..L |-> Acquired(outcomes[i], i)]
           G == {m \in 0..L : g[m].deployed = AcquiredBefore(m)}
<1>1. \A m \in 0..L : AcquiredBefore(m) = FlattenSeq([i \in 1..m |-> A[i]])
  <2> TAKE m \in 0..L
  <2>1. [i \in 1..m |-> A[i]] = [i \in 1..m |-> Acquired(outcomes[i], i)]
    OBVIOUS
  <2> QED
    BY <2>1 DEF AcquiredBefore
<1>2. \A i \in 1..L : A[i] = Acquired(outcomes[i], i)
  OBVIOUS
<1>3. FlattenSeq([i \in 1..0 |-> A[i]]) = << >>
  <2> DEFINE s == [i \in 1..0 |-> A[i]]
             T == {A[i] : i \in 1..0}
  <2>1. Len(s) = 0 /\ s \in Seq(T)
    <3> HIDE DEF A
    <3> QED
      BY LenOfFunction
  <2> HIDE DEF s, T
  <2>2. s = << >>
    BY <2>1, EmptySeq
  <2>3. FlattenSeq(s) = s
    BY <2>1 DEF FlattenSeq
  <2>4. FlattenSeq(s) = << >>
    BY <2>2, <2>3
  <2> QED
    BY <2>4 DEF s
<1> HIDE DEF A
<1>4. 0 \in G
  <2>1. 0 \in 0..L
    OBVIOUS
  <2>2. AcquiredBefore(0) = << >>
    BY <1>1, <1>3, <2>1
  <2> QED
    BY <2>1, <2>2, StudyStarts
<1>5. ASSUME NEW m \in 1..L, m - 1 \in G PROVE m \in G
  <2>1. g[m].deployed = AcquiredBefore(m - 1) \o A[m]
    <3>1. g[m - 1].deployed = AcquiredBefore(m - 1)
      BY <1>5
    <3>2. g[m].deployed = g[m - 1].deployed \o A[m]
      BY <1>2, StudyParts
    <3> QED
      BY <3>1, <3>2
  <2>2. m \in 0..L /\ m - 1 \in 0..L
    OBVIOUS
  <2>3. CASE m = 1
    <3>1. AcquiredBefore(m - 1) = << >>
      <4>1. m - 1 = 0
        BY <2>3
      <4> QED
        BY <1>1, <1>3, <2>2, <4>1
    <3>2. A[m] \in Seq({Record(S, outcomes[m]) : S \in {Providers, {RoundRobin(m)}}})
      BY <1>2, AcquiredIs
    <3>3. g[m].deployed = A[m]
      BY <2>1, <3>1, <3>2, ConcatEmptySeq
    <3>4. FlattenSeq([i \in 1..m |-> A[i]]) = A[1]
      BY <2>3, FlattenSteps
    <3>5. AcquiredBefore(m) = A[m]
      BY <1>1, <2>2, <2>3, <3>4
    <3> QED
      BY <2>2, <3>3, <3>5
  <2>4. CASE m # 1
    <3>1. FlattenSeq([i \in 1..m |-> A[i]]) = FlattenSeq([i \in 1..(m - 1) |-> A[i]]) \o A[m]
      BY <2>4, FlattenSteps
    <3>2. AcquiredBefore(m) = AcquiredBefore(m - 1) \o A[m]
      BY <1>1, <2>2, <3>1
    <3> QED
      BY <2>1, <2>2, <3>2
  <2> QED
    BY <2>3, <2>4
<1>6. n \in G
  <2> HIDE DEF G
  <2> QED
    BY <1>4, <1>5, UpTo
<1> QED
  BY <1>6

\* The rows are those of the trials after the cold start, each made from what
\* the loop had acquired when it came to the trial.
LEMMA StudyRows ==
    ASSUME NEW L \in Nat, NEW g, IsStudy(g, L), coldStart \in Nat
    PROVE  /\ Len(g[L].rows) = IF L <= coldStart THEN 0 ELSE L - coldStart
           /\ DOMAIN g[L].rows = 1..Len(g[L].rows)
           /\ \A i \in 1..Len(g[L].rows) :
                g[L].rows[i]
                  = TrainingRow(outcomes[coldStart + i], g[coldStart + i - 1].deployed)
<1> DEFINE Row(k) == TrainingRow(outcomes[k], g[k - 1].deployed)
           T == {Row(k) : k \in 1..L}
           Size(m) == IF m <= coldStart THEN 0 ELSE m - coldStart
           Is(m) == /\ g[m].rows \in Seq(T) /\ Len(g[m].rows) = Size(m)
                    /\ \A i \in 1..Size(m) : g[m].rows[i] = Row(coldStart + i)
           G == {m \in 0..L : Is(m)}
<1>1. Is(0)
  <2>1. Size(0) = 0
    OBVIOUS
  <2>2. g[0].rows = << >>
    BY StudyStarts
  <2>3. << >> \in Seq(T) /\ Len(<< >>) = 0
    OBVIOUS
  <2> HIDE DEF Size, T, Row
  <2> QED
    BY <2>1, <2>2, <2>3
<1>2. ASSUME NEW m \in 1..L, Is(m - 1) PROVE Is(m)
  <2>1. /\ m <= coldStart => g[m].rows = g[m - 1].rows
        /\ ~(m <= coldStart) => g[m].rows = Append(g[m - 1].rows, Row(m))
    BY StudyParts
  <2>2. Row(m) \in T
    OBVIOUS
  <2> DEFINE s == g[m - 1].rows
             t == g[m].rows
  <2>3. s \in Seq(T) /\ Len(s) = Size(m - 1)
        /\ \A i \in 1..Size(m - 1) : s[i] = Row(coldStart + i)
    BY <1>2
  <2> HIDE DEF Row, T
  <2>4. CASE m <= coldStart
    <3>1. Size(m) = 0 /\ Size(m - 1) = 0
      BY <2>4
    <3>2. t = s
      BY <2>1, <2>4
    <3> HIDE DEF s, t, Size
    <3>3. t \in Seq(T) /\ Len(t) = Size(m) /\ \A i \in 1..Size(m) : t[i] = Row(coldStart + i)
      BY <2>3, <3>1, <3>2
    <3> QED
      BY <3>3 DEF t
  <2>5. CASE ~(m <= coldStart)
    <3>1. Size(m - 1) = m - 1 - coldStart /\ Size(m) = Size(m - 1) + 1 /\ Size(m - 1) \in Nat
          /\ coldStart + Size(m) = m
      BY <2>5
    <3>2. t = Append(s, Row(m))
      BY <2>1, <2>5
    <3> HIDE DEF s, t, Size
    <3> DEFINE k == Size(m)
               r == Row(m)
    <3>3. /\ t \in Seq(T) /\ Len(t) = k
          /\ t[k] = r
          /\ \A i \in 1..Size(m - 1) : t[i] = s[i]
      <4>1. Len(s) + 1 = k /\ r \in T
        BY <2>2, <2>3, <3>1
      <4>2. t = Append(s, r)
        BY <3>2
      <4> HIDE DEF k, r
      <4>3. /\ t \in Seq(T) /\ Len(t) = Len(s) + 1
            /\ \A i \in 1..Len(s) : t[i] = s[i]
            /\ t[Len(s) + 1] = r
        BY <2>3, <4>1, <4>2, AppendProperties
      <4> QED
        BY <2>3, <4>1, <4>3
    <3>4. \A i \in 1..k : i = k \/ i \in 1..Size(m - 1)
      BY <3>1
    <3>5. r = Row(coldStart + k)
      BY <3>1
    <3> HIDE DEF k, r
    <3>6. \A i \in 1..k : t[i] = Row(coldStart + i)
      BY <2>3, <3>3, <3>4, <3>5
    <3> QED
      BY <3>3, <3>6 DEF t, k
  <2> QED
    BY <2>4, <2>5
<1> HIDE DEF Is
<1>3. 0 \in G
  BY <1>1
<1>4. ASSUME NEW m \in 1..L, m - 1 \in G PROVE m \in G
  BY <1>2, <1>4
<1>5. L \in G
  <2> HIDE DEF G
  <2>1. L \in 0..L
    OBVIOUS
  <2> QED
    BY <1>3, <1>4, <2>1, UpTo
<1>6. Is(L)
  BY <1>5
<1> DEFINE u == g[L].rows
<1>7. u \in Seq(T) /\ Len(u) = Size(L) /\ \A i \in 1..Size(L) : u[i] = Row(coldStart + i)
  BY <1>6 DEF Is
<1>8. DOMAIN u = 1..Len(u)
  <2> HIDE DEF T, u
  <2> QED
    BY <1>7, LenProperties
<1> HIDE DEF u, T
<1>9. Len(u) = (IF L <= coldStart THEN 0 ELSE L - coldStart)
      /\ \A i \in 1..Len(u) : u[i] = Row(coldStart + i)
  <2>1. Size(L) = IF L <= coldStart THEN 0 ELSE L - coldStart
    OBVIOUS
  <2> HIDE DEF Size, Row
  <2> QED
    BY <1>7, <2>1
<1> QED
  BY <1>8, <1>9 DEF u

\* What was acquired of a trial stays in the history.
LEMMA StudyKeeps ==
    ASSUME NEW L \in Nat, NEW g, IsStudy(g, L), NEW j \in 1..L
    PROVE  \E k \in DOMAIN g[L].deployed : g[L].deployed[k] = Acquired(outcomes[j], j)[1]
<1> DEFINE Called == {Providers} \cup {{RoundRobin(c)} : c \in 1..L}
           T == {Record(S, outcomes[k]) : S \in Called, k \in 1..L}
           A(m) == Acquired(outcomes[m], m)
           D(m) == g[m].deployed
           Is(m) == /\ D(m) \in Seq(T)
                    /\ j <= m => \E k \in 1..Len(D(m)) : D(m)[k] = A(j)[1]
           G == {m \in 0..L : Is(m)}
<1>1. ASSUME NEW m \in 1..L PROVE A(m) \in Seq(T) /\ Len(A(m)) \in Nat \ {0}
  <2> DEFINE U == {Record(S, outcomes[m]) : S \in {Providers, {RoundRobin(m)}}}
  <2>1. A(m) \in Seq(U) /\ Len(A(m)) \in Nat \ {0}
    BY AcquiredIs
  <2>2. ASSUME NEW x \in U PROVE x \in T
    <3>1. PICK S \in {Providers, {RoundRobin(m)}} : x = Record(S, outcomes[m])
      OBVIOUS
    <3>2. S \in Called
      OBVIOUS
    <3> HIDE DEF Called
    <3> QED
      BY <3>1, <3>2
  <2> HIDE DEF U, T, A
  <2>3. U \subseteq T
    BY <2>2
  <2> QED
    BY <2>1, <2>3, SeqMonotonic
<1>2. \A m \in 1..L : D(m) = D(m - 1) \o A(m)
  <2> TAKE m \in 1..L
  <2> QED
    BY StudyParts
<1>3. D(0) = << >>
  BY StudyStarts
<1> HIDE DEF A, D, T, Called
<1>4. Is(0)
  <2>1. << >> \in Seq(T) /\ ~(j <= 0)
    OBVIOUS
  <2> QED
    BY <1>3, <2>1
<1>5. ASSUME NEW m \in 1..L, Is(m - 1) PROVE Is(m)
  <2> DEFINE s == D(m - 1)
             t == A(m)
  <2>1. s \in Seq(T) /\ t \in Seq(T) /\ Len(t) \in Nat \ {0} /\ D(m) = s \o t
    BY <1>1, <1>2, <1>5
  <2>2. j <= m - 1 => \E k \in 1..Len(s) : s[k] = A(j)[1]
    BY <1>5
  <2>3. t = A(m)
    OBVIOUS
  <2> HIDE DEF s, t
  <2>4. Len(s) \in Nat
    BY <2>1, LenProperties
  <2>5. /\ D(m) \in Seq(T) /\ Len(D(m)) = Len(s) + Len(t)
        /\ \A i \in 1..(Len(s) + Len(t)) :
             D(m)[i] = IF i <= Len(s) THEN s[i] ELSE t[i - Len(s)]
    BY <2>1, ConcatProperties
  <2>6. ASSUME j <= m PROVE \E k \in 1..Len(D(m)) : D(m)[k] = A(j)[1]
    <3>1. CASE j = m
      <4>1. Len(s) + 1 \in 1..(Len(s) + Len(t)) /\ ~(Len(s) + 1 <= Len(s))
            /\ Len(s) + 1 - Len(s) = 1
        BY <2>1, <2>4
      <4>2. D(m)[Len(s) + 1] = t[1]
        BY <2>5, <4>1
      <4> QED
        BY <2>3, <2>5, <3>1, <4>1, <4>2
    <3>2. CASE j # m
      <4>0. j <= m - 1
        BY <2>6, <3>2
      <4>1. PICK k \in 1..Len(s) : s[k] = A(j)[1]
        BY <2>2, <4>0
      <4>2. k \in 1..(Len(s) + Len(t)) /\ k <= Len(s)
        BY <2>1, <2>4
      <4> QED
        BY <2>5, <4>1, <4>2
    <3> QED
      BY <3>1, <3>2
  <2> QED
    BY <2>5, <2>6
<1> HIDE DEF Is
<1>6. 0 \in G
  BY <1>4
<1>7. ASSUME NEW m \in 1..L, m - 1 \in G PROVE m \in G
  BY <1>5, <1>7
<1>8. L \in G
  <2> HIDE DEF G
  <2>1. L \in 0..L
    OBVIOUS
  <2> QED
    BY <1>6, <1>7, <2>1, UpTo
<1>9. Is(L) /\ j <= L
  BY <1>8
<1>10. D(L) \in Seq(T) /\ \E k \in 1..Len(D(L)) : D(L)[k] = A(j)[1]
  BY <1>9 DEF Is
<1>11. DOMAIN D(L) = 1..Len(D(L))
  BY <1>10, LenProperties
<1>12. \E k \in DOMAIN D(L) : D(L)[k] = A(j)[1]
  BY <1>10, <1>11
<1> QED
  BY <1>12 DEF D, A
\* Of n consecutive trials one has any given residue.
LEMMA ResidueInTime ==
    ASSUME NEW n \in Nat \ {0}, NEW i \in Nat, i >= n, NEW r \in 0..(n - 1)
    PROVE  \E j \in (i - n + 1)..i : j > 0 /\ j % n = r
<1>1. CASE i - r >= n
  <2>1. i - r \in Nat
    BY <1>1
  <2>2. PICK m \in (i - r - n + 1)..(i - r) : m > 0 /\ m % n = 0
    BY <1>1, <2>1, ScheduledInTime
  <2>3. PICK k \in Nat : m = n * k
    <3>1. m \in Nat
      BY <2>1, <2>2
    <3> QED
      BY <2>2, <3>1, SMTT(30)
  <2>4. \A x \in Nat : (n * x + r) % n = r
    BY SMTT(30)
  <2>5. (m + r) % n = r
    BY <2>3, <2>4
  <2>6. m + r \in (i - n + 1)..i /\ m + r > 0
    BY <2>1, <2>2
  <2> QED
    BY <2>5, <2>6
<1>2. CASE ~(i - r >= n)
  <2>1. r \in (i - n + 1)..i /\ r > 0
    BY <1>2
  <2>2. r % n = r
    BY SMTT(30)
  <2> QED
    BY <2>1, <2>2
<1> QED
  BY <1>1, <1>2

\* The round robin comes to a provider in its turn.
LEMMA RoundRobinIs ==
    ASSUME NEW p \in Providers, NEW c,
           Cardinality(Below(Providers, p)) = c % Cardinality(Providers)
    PROVE  RoundRobin(c) = p
<1>1. Providers \in SUBSET Nat /\ IsFiniteSet(Providers)
  BY SelectionAssumption
<1> DEFINE q == RoundRobin(c)
<1>2. q \in Providers /\ Cardinality(Below(Providers, q)) = c % Cardinality(Providers)
  BY DEF RoundRobin, Below
<1> HIDE DEF q
<1>3. Cardinality(Below(Providers, q)) = Cardinality(Below(Providers, p))
  BY <1>2
<1>4. q = p
  BY <1>1, <1>2, <1>3, RankUnique
<1> QED
  BY <1>4 DEF q

\* What a row may know is what was acquired before its trial.
LEMMA BeforeIs ==
    ASSUME LoopInv, NEW n \in DOMAIN outcomes
    PROVE  Before2(outcomes[n].trial) = AcquiredBefore(n - 1)
<1> DEFINE L == Len(outcomes)
           E == {j \in DOMAIN outcomes : outcomes[j].trial < outcomes[n].trial}
<1>1. L \in Nat /\ DOMAIN outcomes = 1..L /\ outcomes \in Seq(ClosedLoopOutcomes(index))
      /\ index \in Nat
  BY TypeParts, LenProperties DEF LoopInv
<1>2. \A j \in 1..L : outcomes[j].trial \in Nat
  <2> TAKE j \in 1..L
  <2>1. outcomes[j] \in ClosedLoopOutcomes(index)
    BY <1>1, ElementOfSeq
  <2> QED
    BY <1>1, <2>1 DEF ClosedLoopOutcomes
<1>3. \A i, j \in 1..L : i < j => outcomes[i].trial < outcomes[j].trial
  BY <1>1 DEF LoopInv, Numbered
<1>4. n \in 1..L
  BY <1>1
<1> HIDE DEF L
<1>5. ASSUME NEW j \in 1..L PROVE outcomes[j].trial < outcomes[n].trial <=> j < n
  <2>1. j \in Nat /\ n \in Nat /\ outcomes[j].trial \in Nat /\ outcomes[n].trial \in Nat
    BY <1>1, <1>2, <1>4
  <2>2. j < n => outcomes[j].trial < outcomes[n].trial
    BY <1>3, <1>4
  <2>3. n < j => outcomes[n].trial < outcomes[j].trial
    BY <1>3, <1>4
  <2>4. j < n \/ n < j \/ j = n
    BY <2>1
  <2> QED
    BY <2>1, <2>2, <2>3, <2>4
<1>6. E = 1..(n - 1)
  <2>1. ASSUME NEW j \in E PROVE j \in 1..(n - 1)
    BY <1>1, <1>4, <1>5
  <2>2. ASSUME NEW j \in 1..(n - 1) PROVE j \in E
    <3>1. j \in 1..L /\ j < n
      BY <1>1, <1>4
    <3> QED
      BY <1>1, <1>5, <3>1
  <2> QED
    BY <2>1, <2>2
<1>7. Cardinality(1..(n - 1)) = n - 1
  BY <1>1, <1>4, FS_Interval
<1>8. Before2(outcomes[n].trial)
        = FlattenSeq([i \in 1..Cardinality(E) |-> Acquired(outcomes[i], i)])
  BY DEF Before2
<1> HIDE DEF E
<1>9. Before2(outcomes[n].trial) = FlattenSeq([i \in 1..(n - 1) |-> Acquired(outcomes[i], i)])
  BY <1>6, <1>7, <1>8
<1> QED
  BY <1>9 DEF AcquiredBefore

\* The targets of a row are those of its trial.
LEMMA TargetsTrue ==
    ASSUME LoopInv, Coherent, NEW n \in DOMAIN outcomes, NEW h, NEW row,
           row = TrainingRow(outcomes[n], h)
    PROVE  /\ \A S \in Subsets(Providers) :
                row.target[S] = 1 <=> \E p \in S : row.target[{p}] = 1
           /\ row.target[Providers] = 1 <=> outcomes[n].feasible
<1> DEFINE w == truth[outcomes[n].trial]
<1>1. /\ outcomes \in Seq(ClosedLoopOutcomes(index)) /\ Len(truth) = index
      /\ truth \in Seq(SUBSET Providers)
  BY TypeParts DEF LoopInv
<1>2. w \in SUBSET Providers
  <2>1. outcomes[n] \in ClosedLoopOutcomes(index)
    BY <1>1, ElementOfSeq, LenProperties
  <2>2. outcomes[n].trial \in 1..Len(truth)
    BY <1>1, <2>1 DEF ClosedLoopOutcomes
  <2> QED
    BY <1>1, <2>2, ElementOfSeq
<1>3. outcomes[n].feasible <=> w # {}
  BY DEF Coherent, FlagsTrue
<1>4. \A S \in Subsets(Providers) : row.target[S] = Label(S, w)
  BY DEF TrainingRow
<1> HIDE DEF w
<1>5. \A S : Label(S, w) = 1 <=> S \cap w # {}
  BY DEF Label
<1>6. ASSUME NEW S \in Subsets(Providers)
      PROVE  row.target[S] = 1 <=> \E p \in S : row.target[{p}] = 1
  <2>1. \A p \in S : {p} \in Subsets(Providers)
    BY DEF Subsets
  <2>2. \A p \in S : row.target[{p}] = 1 <=> p \in w
    <3> TAKE p \in S
    <3>1. row.target[{p}] = Label({p}, w)
      BY <1>4, <2>1
    <3>2. {p} \cap w # {} <=> p \in w
      OBVIOUS
    <3> QED
      BY <1>5, <3>1, <3>2
  <2>3. row.target[S] = 1 <=> S \cap w # {}
    BY <1>4, <1>5
  <2> QED
    BY <2>2, <2>3
<1>7. row.target[Providers] = 1 <=> outcomes[n].feasible
  <2>1. Providers \in Subsets(Providers)
    BY ClosedLoopAssumption DEF Subsets
  <2>2. Providers \cap w = w
    BY <1>2
  <2> QED
    BY <1>3, <1>4, <1>5, <2>1, <2>2
<1> QED
  BY <1>6, <1>7

LEMMA RowsLookBackHolds ==
    ASSUME LoopInv, Coherent
    PROVE  RowsLookBack
<1> DEFINE L == Len(outcomes)
           study == FaithfulRows
<1>1. L \in Nat /\ DOMAIN outcomes = 1..L /\ counter = L /\ coldStart \in Nat
      /\ IsFiniteSet(Providers) /\ Cardinality(Providers) \in Nat \ {0}
      /\ Providers \in SUBSET Nat
  BY TypeParts, LenProperties, ClosedLoopAssumption, SelectionAssumption DEF LoopInv, Numbered
<1>2. PICK g : IsStudy(g, L) /\ study = g[L]
  BY <1>1, RowsAreStudied
<1> HIDE DEF study, L
<1>3. /\ Len(study.rows) = IF L <= coldStart THEN 0 ELSE L - coldStart
      /\ DOMAIN study.rows = 1..Len(study.rows)
      /\ \A i \in 1..Len(study.rows) :
           study.rows[i] = TrainingRow(outcomes[coldStart + i], g[coldStart + i - 1].deployed)
  BY <1>1, <1>2, StudyRows
<1>4. Len(study.rows) = Max({0, counter - coldStart})
  <2>1. 0 \in Int /\ L - coldStart \in Int
    BY <1>1
  <2>2. Max({0, L - coldStart}) = IF 0 >= L - coldStart THEN 0 ELSE L - coldStart
    BY <2>1, MaxOfTwo
  <2>3. 0 >= L - coldStart <=> L <= coldStart
    BY <1>1
  <2> QED
    BY <1>1, <1>3, <2>2, <2>3
<1>5. ASSUME NEW i \in DOMAIN study.rows
      PROVE  LET row == study.rows[i]
             IN /\ row.trial = outcomes[coldStart + i].trial
                /\ row.context = Context(Before2(row.trial))
                /\ \A S \in Subsets(Providers) :
                     row.target[S] = 1 <=> \E p \in S : row.target[{p}] = 1
                /\ row.target[Providers] = 1 <=> outcomes[coldStart + i].feasible
  <2> DEFINE n == coldStart + i
             row == study.rows[i]
  <2>1. n \in 1..L /\ n - 1 \in 0..L /\ n \in DOMAIN outcomes
    BY <1>1, <1>3
  <2> DEFINE h == g[coldStart + i - 1].deployed
  <2>2. row = TrainingRow(outcomes[n], h)
    <3>1. i \in 1..Len(study.rows)
      BY <1>3
    <3>2. \A k \in 1..Len(study.rows) :
            study.rows[k] = TrainingRow(outcomes[coldStart + k], g[coldStart + k - 1].deployed)
      BY <1>3
    <3> QED
      BY <3>1, <3>2, Zenon
  <2>8. h = g[n - 1].deployed
    <3>1. coldStart + i - 1 = n - 1
      BY <1>1, <1>3
    <3> QED
      BY <3>1
  <2> HIDE DEF n, row, h
  <2>3. row.trial = outcomes[n].trial /\ row.context = Context(h)
    BY <2>2 DEF TrainingRow
  <2>4. g[n - 1].deployed = AcquiredBefore(n - 1)
    BY <1>1, <1>2, <2>1, StudyDeployed
  <2>5. Before2(row.trial) = h
    BY <2>1, <2>3, <2>4, <2>8, BeforeIs
  <2>6. row.context = Context(Before2(row.trial))
    BY <2>3, <2>5
  <2>7. /\ \A S \in Subsets(Providers) :
             row.target[S] = 1 <=> \E p \in S : row.target[{p}] = 1
        /\ row.target[Providers] = 1 <=> outcomes[n].feasible
    BY <2>1, <2>2, TargetsTrue
  <2> QED
    BY <2>3, <2>6, <2>7 DEF n, row
<1>6. ASSUME NEW p \in Providers, NEW i \in DOMAIN outcomes, i >= Cardinality(Providers)
      PROVE  \E k \in DOMAIN study.deployed :
               /\ p \in study.deployed[k].observed
               /\ study.deployed[k].trial \in
                    {outcomes[j].trial : j \in (i - Cardinality(Providers) + 1)..i}
  <2> DEFINE n == Cardinality(Providers)
             r == Cardinality(Below(Providers, p))
  <2>1. r \in 0..(n - 1)
    BY <1>1, BelowSize
  <2>2. n \in Nat \ {0} /\ i \in Nat /\ i >= n
    BY <1>1, <1>6
  <2>3. PICK j \in (i - n + 1)..i : j > 0 /\ j % n = r
    <3> HIDE DEF n, r
    <3> QED
      BY <2>1, <2>2, ResidueInTime
  <2>4. RoundRobin(j) = p
    BY <2>3, RoundRobinIs
  <2>5. j \in 1..L
    <3> HIDE DEF n
    <3> QED
      BY <1>1, <2>2, <2>3
  <2>6. PICK k \in DOMAIN study.deployed : study.deployed[k] = Acquired(outcomes[j], j)[1]
    BY <1>1, <1>2, <2>5, StudyKeeps
  <2> DEFINE S == IF j <= coldStart THEN Providers ELSE {RoundRobin(j)}
  <2>7. study.deployed[k] = Record(S, outcomes[j])
    BY <2>6, AcquiredIs
  <2>8. p \in S
    BY <2>4
  <2> HIDE DEF S
  <2>9. study.deployed[k].observed = S /\ study.deployed[k].trial = outcomes[j].trial
    BY <2>7 DEF Record
  <2> QED
    BY <2>3, <2>8, <2>9
<1> QED
  BY <1>4, <1>5, <1>6 DEF RowsLookBack, study

\* Hazard: training features that have seen what they predict.  For every
\* policy, schedule and length of an episode, the context of a training row of
\* policy_faithful_rows is made of the trials before it, its targets are those
\* of its own trial, and the round robin reveals every provider in time.
THEOREM RowsLookBackProved == Spec => []RowsLookBack
  BY CoherentAlways, RowsLookBackHolds, PTL
=============================================================================
