----------------------- MODULE ProviderBudget_proofs -----------------------
(***************************************************************************)
(* What ProviderBudget guarantees for every inventory, every limit and     *)
(* window, and every number of callers.                                    *)
(***************************************************************************)
EXTENDS ProviderBudget, BudgetWindow_proofs, FiniteSetTheorems, TLAPS

-----------------------------------------------------------------------------
(***************************************************************************)
(* The variables keep their types: the queues only ever hold readings of   *)
(* the clock.                                                              *)
(***************************************************************************)
THEOREM BudgetTypeCorrect == Spec => []TypeOK
<1>1. Init => TypeOK
  BY CallerAssumption DEF Init, TypeOK
<1>2. TypeOK /\ [Next]_vars => TypeOK'
  <2> SUFFICES ASSUME TypeOK, [Next]_vars PROVE TypeOK'
    OBVIOUS
  <2> USE CallerAssumption DEF TypeOK
  <2>1. CASE Tick
    BY <2>1 DEF Tick
  <2>2. ASSUME NEW c \in Callers, NEW looked \in SUBSET Providers,
               NEW chosen \in SUBSET Providers, NEW first \in SUBSET Providers,
               Admit(c, looked, chosen, first)
        PROVE  TypeOK'
    <3>1. \A p \in Providers :
            /\ Charged(p, charges[p], now) \in Seq(0..MaxTime)
            /\ Prune(p, charges[p], now) \in Seq(0..MaxTime)
      BY ChargedType, PruneIsSuffix
    <3> QED
      BY <2>2, <3>1 DEF Admit
  <2>3. ASSUME NEW c \in Callers, NEW p \in Providers, Charge(c, p) PROVE TypeOK'
    BY <2>3, ChargedType DEF Charge
  <2>4. ASSUME NEW c \in Callers, NEW dropped \in SUBSET Providers, Release(c, dropped)
        PROVE  TypeOK'
    BY <2>4 DEF Release
  <2>5. CASE Snapshot
    BY <2>5, PruneIsSuffix DEF Snapshot
  <2>6. CASE UNCHANGED vars
    BY <2>6 DEF vars
  <2> QED
    BY <2>1, <2>2, <2>3, <2>4, <2>5, <2>6 DEF Next
<1> QED
  BY <1>1, <1>2, PTL DEF Spec

-----------------------------------------------------------------------------
LEMMA HoldersFinite ==
    \A p : /\ IsFiniteSet(Holders(p))
           /\ Cardinality(Holders(p)) \in Nat
           /\ Cardinality(Holders(p)) <= Cardinality(Callers)
           /\ Cardinality(Callers) \in Nat
  BY CallerAssumption, FS_Subset, FS_CardinalityType DEF Holders

(***************************************************************************)
(* The inductive invariant: charges made and charges still to come from    *)
(* admitted callers are bounded together.  The queue alone would not do,   *)
(* since a charge is made without looking at the limit again.              *)
(***************************************************************************)
THEOREM CommitmentHolds == Spec => []CommitmentBounded
<1>1. TypeOK /\ Init => CommitmentBounded
  <2> SUFFICES ASSUME Init, NEW p \in Providers, ~Unlimited(p)
               PROVE  Len(charges[p]) + Cardinality(Holders(p))
                        <= Limit(p) + Cardinality(Callers) - 1
    BY DEF CommitmentBounded
  <2>1. Holders(p) = {} /\ Len(charges[p]) = 0
    BY DEF Init, Holders
  <2>2. Cardinality(Holders(p)) = 0 /\ Cardinality(Callers) >= 1
    BY <2>1, FS_EmptySet, HoldersFinite, CallerAssumption
  <2> QED
    BY <2>1, <2>2, LimitType, HoldersFinite DEF Unlimited
<1>2. TypeOK /\ TypeOK' /\ CommitmentBounded /\ [Next]_vars => CommitmentBounded'
  <2> SUFFICES ASSUME TypeOK, TypeOK', CommitmentBounded, [Next]_vars,
                      NEW p \in Providers, ~Unlimited(p)
               PROVE  Len(charges'[p]) + Cardinality(Holders(p)')
                        <= Limit(p) + Cardinality(Callers) - 1
    BY DEF CommitmentBounded, Unlimited, Limit, Window
  <2>0. /\ charges[p] \in Seq(0..MaxTime) /\ charges'[p] \in Seq(0..MaxTime)
        /\ Len(charges[p]) \in Nat /\ Len(charges'[p]) \in Nat
        /\ Limit(p) \in Nat /\ now \in 0..MaxTime
        /\ Len(charges[p]) + Cardinality(Holders(p)) <= Limit(p) + Cardinality(Callers) - 1
        /\ Cardinality(Holders(p)) \in Nat /\ Cardinality(Callers) \in Nat
        /\ IsFiniteSet(Holders(p)) /\ IsFiniteSet(Holders(p)')
        /\ Cardinality(Holders(p)') \in Nat
        /\ Cardinality(Holders(p)') <= Cardinality(Callers)
    <3>1. IsFiniteSet(Holders(p)') /\ Holders(p)' \subseteq Callers
      BY CallerAssumption, FS_Subset DEF Holders
    <3> QED
      BY <3>1, HoldersFinite, LimitType, FS_CardinalityType, FS_Subset, CallerAssumption
         DEF TypeOK, CommitmentBounded, Unlimited
  <2> USE <2>0
  <2>1. CASE Tick
    <3>1. charges' = charges /\ Holders(p)' = Holders(p)
      BY <2>1 DEF Tick, Holders
    <3> QED
      BY <3>1
  <2>2. ASSUME NEW c \in Callers, NEW looked \in SUBSET Providers,
               NEW chosen \in SUBSET Providers, NEW new \in SUBSET Providers,
               Admit(c, looked, chosen, new)
        PROVE  Len(charges'[p]) + Cardinality(Holders(p)')
                 <= Limit(p) + Cardinality(Callers) - 1
    <3>1. c \notin Holders(p)
      BY <2>2 DEF Admit, Holders
    <3>2. CASE p \in new
      <4>1. Len(charges'[p]) <= Limit(p) /\ ~Exhausted(p, charges[p], now)
        <5>1. /\ charges'[p] = Append(Prune(p, charges[p], now), now)
              /\ ~Exhausted(p, charges[p], now)
          BY <2>2, <3>2 DEF Admit, Charged, TypeOK
        <5>2. Len(charges'[p]) = Len(Prune(p, charges[p], now)) + 1
          BY <5>1, PruneIsSuffix, CallerAssumption
        <5> QED
          BY <5>1, <5>2, AdmittedHasRoom, CallerAssumption
      <4>2. Holders(p)' = Holders(p) /\ c \notin Holders(p)
        BY <2>2, <3>1, <3>2 DEF Admit, Holders, TypeOK
      <4>3. Cardinality(Holders(p)) + 1 <= Cardinality(Callers)
        <5>1. Holders(p) \cup {c} \subseteq Callers
          BY DEF Holders
        <5>2. Cardinality(Holders(p) \cup {c}) = Cardinality(Holders(p)) + 1
          BY <3>1, FS_AddElement
        <5> QED
          BY <5>1, <5>2, FS_Subset, CallerAssumption
      <4> QED
        BY <4>1, <4>2, <4>3
    <3>3. CASE p \in chosen \ new
      <4>1. Len(charges'[p]) + 1 <= Limit(p)
        <5>1. /\ charges'[p] = Prune(p, charges[p], now)
              /\ ~Exhausted(p, charges[p], now)
          BY <2>2, <3>3 DEF Admit, TypeOK
        <5> QED
          BY <5>1, AdmittedHasRoom, CallerAssumption
      <4> QED
        BY <4>1
    <3>4. CASE p \notin chosen
      <4>1. Holders(p)' = Holders(p)
        BY <2>2, <3>1, <3>4 DEF Admit, Holders, TypeOK
      <4>2. Len(charges'[p]) <= Len(charges[p])
        BY <2>2, <3>4, PruneIsSuffix, CallerAssumption DEF Admit, TypeOK
      <4> QED
        BY <4>1, <4>2
    <3> QED
      BY <3>2, <3>3, <3>4
  <2>3. ASSUME NEW c \in Callers, NEW q \in Providers, Charge(c, q)
        PROVE  Len(charges'[p]) + Cardinality(Holders(p)')
                 <= Limit(p) + Cardinality(Callers) - 1
    <3>1. CASE q = p
      <4>1. Holders(p)' = Holders(p) \ {c} /\ c \in Holders(p)
        BY <2>3, <3>1 DEF Charge, Holders, TypeOK
      <4>2. Cardinality(Holders(p)') = Cardinality(Holders(p)) - 1
        BY <4>1, FS_RemoveElement
      <4>3. Len(charges'[p]) <= Len(charges[p]) + 1
        BY <2>3, <3>1, ChargedType, CallerAssumption DEF Charge, TypeOK
      <4> QED
        BY <4>2, <4>3
    <3>2. CASE q # p
      <4>1. Holders(p)' = Holders(p) /\ charges'[p] = charges[p]
        BY <2>3, <3>2 DEF Charge, Holders, TypeOK
      <4> QED
        BY <4>1
    <3> QED
      BY <3>1, <3>2
  <2>4. ASSUME NEW c \in Callers, NEW dropped \in SUBSET Providers, Release(c, dropped)
        PROVE  Len(charges'[p]) + Cardinality(Holders(p)')
                 <= Limit(p) + Cardinality(Callers) - 1
    <3>1. Holders(p)' \subseteq Holders(p) /\ charges'[p] = charges[p]
      BY <2>4 DEF Release, Holders, TypeOK
    <3>2. Cardinality(Holders(p)') <= Cardinality(Holders(p))
      BY <3>1, FS_Subset
    <3> QED
      BY <3>1, <3>2
  <2>5. CASE Snapshot
    <3>1. Holders(p)' = Holders(p)
      BY <2>5 DEF Snapshot, Holders
    <3>2. Len(charges'[p]) <= Len(charges[p])
      BY <2>5, PruneIsSuffix, CallerAssumption DEF Snapshot, TypeOK
    <3> QED
      BY <3>1, <3>2
  <2>6. CASE UNCHANGED vars
    <3>1. charges' = charges /\ Holders(p)' = Holders(p)
      BY <2>6 DEF vars, Holders
    <3> QED
      BY <3>1
  <2> QED
    BY <2>1, <2>2, <2>3, <2>4, <2>5, <2>6 DEF Next
<1>3. Init => TypeOK
  BY CallerAssumption DEF Init, TypeOK
<1> QED
  BY <1>1, <1>2, <1>3, BudgetTypeCorrect, PTL DEF Spec

(***************************************************************************)
(* Checking a budget and charging it are separate steps of the router, so  *)
(* concurrent requests can pass the same check; the theorem says by how    *)
(* much they can go over the limit.                                        *)
(***************************************************************************)
THEOREM OverspendIsBounded == Spec => []OverspendBounded
<1>1. TypeOK /\ CommitmentBounded => OverspendBounded
  <2> SUFFICES ASSUME TypeOK, CommitmentBounded, NEW p \in Providers, ~Unlimited(p)
               PROVE  Len(Prune(p, charges[p], now)) <= Limit(p) + Cardinality(Callers) - 1
    BY DEF OverspendBounded
  <2>1. /\ Len(Prune(p, charges[p], now)) <= Len(charges[p])
        /\ Len(Prune(p, charges[p], now)) \in Nat /\ Len(charges[p]) \in Nat
    BY PruneIsSuffix, CallerAssumption DEF TypeOK
  <2>2. Len(charges[p]) + Cardinality(Holders(p)) <= Limit(p) + Cardinality(Callers) - 1
    BY DEF CommitmentBounded
  <2> QED
    BY <2>1, <2>2, HoldersFinite, LimitType DEF Unlimited
<1> QED
  BY <1>1, BudgetTypeCorrect, CommitmentHolds, PTL

(***************************************************************************)
(* One request at a time never goes over a limit: what budget.py promises  *)
(* holds of every caller that does not share the budgets.                  *)
(***************************************************************************)
THEOREM LoneCallerNeverOverspends ==
    ASSUME Cardinality(Callers) = 1
    PROVE  Spec => []NeverOverspent
<1>1. OverspendBounded => NeverOverspent
  BY LimitType DEF OverspendBounded, NeverOverspent, Unlimited
<1> QED
  BY <1>1, OverspendIsBounded, PTL

-----------------------------------------------------------------------------
(***************************************************************************)
(* The queues are in the order of the clock: charges are appended with the *)
(* present time, and pruning drops a prefix.                               *)
(***************************************************************************)
Ordered == \A p \in Providers : OrderedUpTo(charges[p], now)

LEMMA OrderKept == TypeOK /\ Ordered /\ [Next]_vars => Ordered'
<1> SUFFICES ASSUME TypeOK, Ordered, [Next]_vars, NEW p \in Providers
             PROVE  OrderedUpTo(charges'[p], now')
  BY DEF Ordered
<1>0. /\ now \in 0..MaxTime /\ MaxTime \in Nat /\ now \in Nat
      /\ charges[p] \in Seq(0..MaxTime) /\ OrderedUpTo(charges[p], now)
      /\ charges \in [Providers -> Seq(0..MaxTime)]
  BY CallerAssumption DEF TypeOK, Ordered
<1>1. OrderedUpTo(Prune(p, charges[p], now), now)
  BY <1>0, PruneOrdered
<1>2. OrderedUpTo(Charged(p, charges[p], now), now)
  BY <1>0, ChargedOrdered
<1>3. CASE Tick
  <2>1. /\ now' = now + 1 /\ charges' = charges
        /\ \A i \in 1..Len(charges[p]) : charges[p][i] \in Nat /\ charges[p][i] <= now
    BY <1>0, <1>3 DEF Tick, OrderedUpTo
  <2>2. \A i \in 1..Len(charges[p]) : charges[p][i] <= now + 1
    BY <1>0, <2>1
  <2> QED
    BY <1>0, <2>1, <2>2 DEF OrderedUpTo
<1>4. ASSUME NEW c \in Callers, NEW looked \in SUBSET Providers,
             NEW chosen \in SUBSET Providers, NEW new \in SUBSET Providers,
             Admit(c, looked, chosen, new)
      PROVE  OrderedUpTo(charges'[p], now')
  <2>1. now' = now /\ charges'[p] \in {Charged(p, charges[p], now),
                                       Prune(p, charges[p], now), charges[p]}
    BY <1>4 DEF Admit
  <2> QED
    BY <1>0, <1>1, <1>2, <2>1
<1>5. ASSUME NEW c \in Callers, NEW q \in Providers, Charge(c, q)
      PROVE  OrderedUpTo(charges'[p], now')
  <2>1. now' = now /\ charges'[p] \in {Charged(p, charges[p], now), charges[p]}
    BY <1>0, <1>5 DEF Charge
  <2> QED
    BY <1>0, <1>2, <2>1
<1>6. ASSUME NEW c \in Callers, NEW dropped \in SUBSET Providers, Release(c, dropped)
      PROVE  OrderedUpTo(charges'[p], now')
  BY <1>0, <1>6 DEF Release
<1>7. CASE Snapshot
  BY <1>0, <1>1, <1>7 DEF Snapshot
<1>8. CASE UNCHANGED vars
  BY <1>0, <1>8 DEF vars
<1> QED
  BY <1>3, <1>4, <1>5, <1>6, <1>7, <1>8 DEF Next

LEMMA OrderHolds == Spec => []Ordered
<1>1. Init => Ordered
  <2> SUFFICES ASSUME Init, NEW p \in Providers PROVE OrderedUpTo(charges[p], now)
    BY DEF Ordered
  <2>1. charges[p] = << >> /\ 1..Len(<< >>) = {}
    BY DEF Init
  <2> QED
    BY <2>1 DEF OrderedUpTo
<1> QED
  BY <1>1, OrderKept, BudgetTypeCorrect, PTL DEF Spec

(***************************************************************************)
(* budget.py looks at the head of the queue only and judges exhaustion on  *)
(* its length; the theorem says that this is a count of exactly the        *)
(* charges in the window.                                                  *)
(***************************************************************************)
THEOREM WindowIsExact == Spec => []WindowExact
<1>1. TypeOK /\ Ordered => WindowExact
  <2> SUFFICES ASSUME TypeOK, Ordered, NEW p \in Providers, Window(p) # None
               PROVE  LET s == charges[p]
                          live == Prune(p, s, now)
                      IN  /\ \A i \in 1..Len(live) :
                               live[i] >= now - Window(p) /\ live[i] <= now
                          /\ Len(live) = Cardinality({i \in 1..Len(s) :
                                                        s[i] >= now - Window(p)})
    BY DEF WindowExact
  <2> DEFINE s == charges[p]
             live == Prune(p, s, now)
             cutoff == now - Window(p)
  <2>1. /\ s \in Seq(0..MaxTime) /\ now \in 0..MaxTime /\ MaxTime \in Nat /\ now \in Nat
        /\ OrderedUpTo(s, now) /\ cutoff \in Int
    BY CallerAssumption, WindowType DEF TypeOK, Ordered
  <2>2. PICK k \in 0..Len(s) :
          /\ live = SubSeq(s, k + 1, Len(s))
          /\ \A i \in 1..k : s[i] < cutoff
          /\ \A i \in (k + 1)..Len(s) : s[i] >= cutoff
    BY <2>1, PruneCuts
  <2>3. Len(live) = Len(s) - k /\ \A i \in 1..(Len(s) - k) : live[i] = s[k + i]
    BY <2>1, <2>2
  <2> HIDE DEF s, live, cutoff
  <2>4. ASSUME NEW i \in 1..Len(live)
        PROVE  live[i] >= cutoff /\ live[i] <= now
    <3>1. k + i \in (k + 1)..Len(s) /\ k + i \in 1..Len(s) /\ live[i] = s[k + i]
      BY <2>1, <2>3
    <3> QED
      BY <2>1, <2>2, <3>1 DEF OrderedUpTo
  <2>5. {i \in 1..Len(s) : s[i] >= cutoff} = (k + 1)..Len(s)
    <3>1. \A i \in 1..Len(s) : i \in 1..k \/ i \in (k + 1)..Len(s)
      BY <2>1
    <3>2. \A i \in 1..k : ~(s[i] >= cutoff)
      <4>1. \A i \in 1..k : s[i] \in Nat /\ s[i] < cutoff
        BY <2>1, <2>2
      <4> QED
        BY <2>1, <4>1
    <3>3. \A i \in (k + 1)..Len(s) : i \in 1..Len(s)
      BY <2>1
    <3> QED
      BY <2>2, <3>1, <3>2, <3>3
  <2>6. Cardinality((k + 1)..Len(s)) = Len(s) - k
    <3>1. k + 1 \in Int /\ Len(s) \in Int /\ k \in Int /\ k <= Len(s)
      BY <2>1
    <3>2. Cardinality((k + 1)..Len(s)) =
            IF k + 1 > Len(s) THEN 0 ELSE Len(s) - (k + 1) + 1
      BY <3>1, FS_Interval
    <3> QED
      BY <3>1, <3>2
  <2> QED
    BY <2>3, <2>4, <2>5, <2>6 DEF s, live, cutoff
<1> QED
  BY <1>1, OrderHolds, BudgetTypeCorrect, PTL

(***************************************************************************)
(* Nothing that is done to a budget (budget.py, candidates.py) loses or    *)
(* reorders a charge that still counts.                                    *)
(***************************************************************************)
THEOREM LiveChargesAreKept == Spec => NoLiveChargeForgotten
<1> DEFINE Kept(p) ==
      LET old == Prune(p, charges[p], now')
          new == Prune(p, charges'[p], now')
      IN  Len(new) >= Len(old) /\ SubSeq(new, 1, Len(old)) = old
    A == \A p \in Providers : ~Unlimited(p) => Kept(p)
<1>1. TypeOK /\ TypeOK' /\ Ordered /\ [Next]_vars => [A]_vars
  <2> SUFFICES ASSUME TypeOK, TypeOK', Ordered, [Next]_vars, ~(UNCHANGED vars),
                      NEW p \in Providers, ~Unlimited(p)
               PROVE  Kept(p)
    OBVIOUS
  <2> DEFINE s == charges[p]
             r == Prune(p, s, now)
  <2>1. /\ s \in Seq(0..MaxTime) /\ now \in 0..MaxTime /\ now' \in 0..MaxTime
        /\ now \in Nat /\ now' \in Nat /\ MaxTime \in Nat
        /\ OrderedUpTo(s, now)
        /\ charges \in [Providers -> Seq(0..MaxTime)]
    BY CallerAssumption DEF TypeOK, Ordered
  <2>2. r \in Seq(0..MaxTime) /\ Prune(p, s, now') \in Seq(0..MaxTime)
    BY <2>1, PruneIsSuffix
  <2>3. CASE charges'[p] = s
    <3>1. SubSeq(Prune(p, s, now'), 1, Len(Prune(p, s, now'))) = Prune(p, s, now')
      BY <2>2
    <3> QED
      BY <2>2, <2>3, <3>1
  <2>4. CASE now' = now /\ charges'[p] = r
    <3>1. Prune(p, r, now) = r
      BY <2>1, PruneIdempotent
    <3>2. SubSeq(r, 1, Len(r)) = r
      BY <2>2
    <3> QED
      BY <2>2, <2>4, <3>1, <3>2
  <2>5. CASE now' = now /\ charges'[p] = Charged(p, s, now)
    <3>1. Prune(p, Charged(p, s, now), now) = Append(r, now)
      BY <2>1, PruneLosesNothing
    <3> HIDE DEF r
    <3>2. Len(Append(r, now)) >= Len(r) /\ SubSeq(Append(r, now), 1, Len(r)) = r
      BY <2>1, <2>2
    <3> QED
      BY <2>5, <3>1, <3>2 DEF r
  <2>6. CASE Tick
    BY <2>3, <2>6 DEF Tick
  <2>7. ASSUME NEW c \in Callers, NEW looked \in SUBSET Providers,
               NEW chosen \in SUBSET Providers, NEW new \in SUBSET Providers,
               Admit(c, looked, chosen, new)
        PROVE  Kept(p)
    <3>1. now' = now /\ (charges'[p] = Charged(p, s, now) \/ charges'[p] = r
                         \/ charges'[p] = s)
      BY <2>7 DEF Admit
    <3> QED
      BY <2>3, <2>4, <2>5, <3>1
  <2>8. ASSUME NEW c \in Callers, NEW q \in Providers, Charge(c, q)
        PROVE  Kept(p)
    <3>1. now' = now /\ (charges'[p] = Charged(p, s, now) \/ charges'[p] = s)
      BY <2>1, <2>8 DEF Charge
    <3> QED
      BY <2>3, <2>5, <3>1
  <2>9. ASSUME NEW c \in Callers, NEW dropped \in SUBSET Providers, Release(c, dropped)
        PROVE  Kept(p)
    BY <2>3, <2>9 DEF Release
  <2>10. CASE Snapshot
    <3>1. now' = now /\ charges'[p] = r
      BY <2>10 DEF Snapshot
    <3> QED
      BY <2>4, <3>1
  <2> HIDE DEF Kept, s, r
  <2> QED
    BY <2>6, <2>7, <2>8, <2>9, <2>10 DEF Next
<1>2. [A]_vars <=> [\A p \in Providers :
         LET old == Prune(p, charges[p], now')
             new == Prune(p, charges'[p], now')
         IN  ~Unlimited(p) =>
               Len(new) >= Len(old) /\ SubSeq(new, 1, Len(old)) = old]_vars
  OBVIOUS
<1> HIDE DEF A
<1> QED
  BY <1>1, <1>2, OrderHolds, BudgetTypeCorrect, PTL DEF Spec, NoLiveChargeForgotten
=============================================================================
