------------------------ MODULE BudgetWindow_proofs ------------------------
(***************************************************************************)
(* What the operators of BudgetWindow return, for every queue of charges.  *)
(***************************************************************************)
EXTENDS BudgetWindow, SequenceTheorems, WellFoundedInduction,
        NaturalsInduction, TLAPS

LEMMA LeastElement ==
    ASSUME NEW T \in SUBSET Nat, T # {}
    PROVE  \E n \in T : \A m \in T : n <= m
<1>1. PICK n \in T : \A m \in T : ~ (<<m, n>> \in OpToRel(<, Nat))
  BY NatLessThanWellFounded, WFMin
<1>2. \A m \in T : ~ (m < n)
  BY <1>1 DEF OpToRel
<1>3. \A m \in T : m \in Nat /\ n \in Nat
  OBVIOUS
<1> QED
  BY <1>2, <1>3

(***************************************************************************)
(* budget.py _prune: the loop stops at some k, so what it leaves is a      *)
(* suffix of the queue.                                                    *)
(***************************************************************************)
LEMMA StaleExists ==
    ASSUME NEW s \in Seq(Nat), NEW cutoff \in Int
    PROVE  \E k \in 0..Len(s) : Stale(s, cutoff, k)
<1> DEFINE T == {k \in 0..Len(s) : k < Len(s) => s[k + 1] >= cutoff}
<1>1. T \subseteq Nat /\ Len(s) \in T
  OBVIOUS
<1>2. PICK k \in T : \A j \in T : k <= j
  <2> HIDE DEF T
  <2> QED
    BY <1>1, LeastElement
<1>4. \A j \in T : ~ (j < k)
  BY <1>1, <1>2
<1>5. ASSUME NEW i \in 1..k
      PROVE  s[i] < cutoff
  <2>1. /\ k \in 0..Len(s) /\ i \in 1..Len(s)
        /\ i - 1 \in 0..Len(s) /\ i - 1 < Len(s) /\ i - 1 < k
        /\ (i - 1) + 1 = i
    OBVIOUS
  <2>2. i - 1 \notin T
    BY <1>4, <2>1
  <2>3. ~ (s[i] >= cutoff)
    BY <2>1, <2>2
  <2>4. s[i] \in Nat
    BY <2>1
  <2> QED
    BY <2>3, <2>4
<1> QED
  BY <1>5 DEF Stale

LEMMA WindowType == \A p \in Providers : Window(p) \in Nat \cup {None}
  BY BudgetAssumption DEF Window

LEMMA PruneIsSuffix ==
    ASSUME NEW p \in Providers, NEW M \in Nat, NEW s \in Seq(0..M), NEW t \in Nat
    PROVE  /\ Prune(p, s, t) \in Seq(0..M)
           /\ Len(Prune(p, s, t)) <= Len(s)
<1>1. CASE Window(p) = None
  BY <1>1 DEF Prune
<1>2. CASE Window(p) # None
  <2> DEFINE k == CHOOSE k \in 0..Len(s) : Stale(s, t - Window(p), k)
  <2>1. s \in Seq(Nat) /\ t - Window(p) \in Int
    BY <1>2, WindowType
  <2>2. k \in 0..Len(s)
    BY <2>1, StaleExists
  <2>3. Prune(p, s, t) = SubSeq(s, k + 1, Len(s))
    BY <1>2 DEF Prune
  <2> HIDE DEF k
  <2>4. /\ SubSeq(s, k + 1, Len(s)) \in Seq(0..M)
        /\ Len(SubSeq(s, k + 1, Len(s))) <= Len(s)
    BY <2>2, SubSeqProperties
  <2> QED
    BY <2>3, <2>4
<1> QED
  BY <1>1, <1>2

\* Reading a budget twice at the same time prunes it once.
LEMMA PruneIdempotent ==
    ASSUME NEW p \in Providers, NEW M \in Nat, NEW s \in Seq(0..M), NEW t \in Nat
    PROVE  Prune(p, Prune(p, s, t), t) = Prune(p, s, t)
<1>1. CASE Window(p) = None
  BY <1>1 DEF Prune
<1>2. CASE Window(p) # None
  <2> DEFINE cutoff == t - Window(p)
             k == CHOOSE k \in 0..Len(s) : Stale(s, cutoff, k)
             r == Prune(p, s, t)
             n == CHOOSE n \in 0..Len(r) : Stale(r, cutoff, n)
  <2>1. s \in Seq(Nat) /\ r \in Seq(Nat) /\ cutoff \in Int
    BY <1>2, WindowType, PruneIsSuffix
  <2>2. k \in 0..Len(s) /\ Stale(s, cutoff, k)
    BY <2>1, StaleExists
  <2>3. r = SubSeq(s, k + 1, Len(s))
    BY <1>2 DEF Prune
  <2>4. n \in 0..Len(r) /\ Stale(r, cutoff, n)
    BY <2>1, StaleExists
  <2>5. Prune(p, r, t) = SubSeq(r, n + 1, Len(r))
    BY <1>2 DEF Prune
  <2> HIDE DEF k, n, r, cutoff
  <2>6. Len(r) >= 1 => k < Len(s) /\ r[1] = s[k + 1]
    BY <2>1, <2>2, <2>3
  <2>7. n = 0
    <3>1. SUFFICES ASSUME n >= 1 PROVE FALSE
      BY <2>4
    <3>2. Len(r) >= 1 /\ 1 \in 1..n
      BY <2>1, <2>4, <3>1
    <3>3. r[1] < cutoff
      BY <2>4, <3>2 DEF Stale
    <3>4. r[1] >= cutoff
      BY <2>2, <2>6, <3>2 DEF Stale
    <3>5. r[1] \in Nat
      BY <2>1, <3>2
    <3> QED
      BY <2>1, <3>3, <3>4, <3>5
  <2>8. SubSeq(r, 1, Len(r)) = r
    BY <2>1
  <2> QED
    BY <2>5, <2>7, <2>8 DEF r
<1> QED
  BY <1>1, <1>2

LEMMA ChargedType ==
    ASSUME NEW p \in Providers, NEW M \in Nat, NEW s \in Seq(0..M), NEW t \in 0..M
    PROVE  /\ Charged(p, s, t) \in Seq(0..M)
           /\ Len(Charged(p, s, t)) <= Len(s) + 1
  BY PruneIsSuffix DEF Charged

LEMMA LimitType == \A p \in Providers : Limit(p) \in Nat \cup {None}
  BY BudgetAssumption DEF Limit

(***************************************************************************)
(* A provider that a caller is admitted to has room for one more request   *)
(* at that moment (candidates.py asks ProviderBudget.state).               *)
(***************************************************************************)
LEMMA AdmittedHasRoom ==
    ASSUME NEW p \in Providers, ~Unlimited(p), NEW M \in Nat, NEW s \in Seq(0..M),
           NEW t \in 0..M, ~Exhausted(p, s, t)
    PROVE  Len(Prune(p, s, t)) + 1 <= Limit(p)
<1>1. Limit(p) \in Nat
  BY LimitType DEF Unlimited
<1>2. Prune(p, s, t) \in Seq(0..M)
  BY PruneIsSuffix
<1>3. ~ (Limit(p) - Len(Prune(p, s, t)) <= 0)
  BY DEF Exhausted
<1>4. Len(Prune(p, s, t)) \in Nat
  BY <1>2
<1> QED
  BY <1>1, <1>3, <1>4

\* A queue is in the order of the clock, and not ahead of it.
OrderedUpTo(s, t) ==
    /\ \A i, j \in 1..Len(s) : i <= j => s[i] <= s[j]
    /\ \A i \in 1..Len(s) : s[i] <= t

(***************************************************************************)
(* Where _prune cuts an ordered queue: what it drops is older than the     *)
(* cutoff, what it keeps is not.                                           *)
(***************************************************************************)
LEMMA PruneCuts ==
    ASSUME NEW p \in Providers, Window(p) # None, NEW M \in Nat, NEW s \in Seq(0..M),
           NEW t \in Nat, OrderedUpTo(s, t)
    PROVE  \E k \in 0..Len(s) :
             /\ Prune(p, s, t) = SubSeq(s, k + 1, Len(s))
             /\ \A i \in 1..k : s[i] < t - Window(p)
             /\ \A i \in (k + 1)..Len(s) : s[i] >= t - Window(p)
<1> DEFINE cutoff == t - Window(p)
           k == CHOOSE k \in 0..Len(s) : Stale(s, cutoff, k)
<1>1. s \in Seq(Nat) /\ cutoff \in Int
  BY WindowType
<1>2. k \in 0..Len(s) /\ Stale(s, cutoff, k)
  BY <1>1, StaleExists
<1>3. Prune(p, s, t) = SubSeq(s, k + 1, Len(s))
  BY DEF Prune
<1> HIDE DEF k
<1>4. \A i \in 1..k : s[i] < cutoff
  BY <1>2 DEF Stale
<1>5. ASSUME NEW i \in (k + 1)..Len(s)
      PROVE  s[i] >= cutoff
  <2>1. /\ k + 1 \in 1..Len(s) /\ i \in 1..Len(s) /\ k + 1 <= i /\ k < Len(s)
        /\ s[k + 1] \in Nat /\ s[i] \in Nat
    BY <1>1, <1>2
  <2>2. s[k + 1] >= cutoff /\ s[k + 1] <= s[i]
    BY <1>2, <2>1 DEF Stale, OrderedUpTo
  <2> QED
    BY <1>1, <2>1, <2>2
<1> QED
  BY <1>2, <1>3, <1>4, <1>5

\* A queue whose head is in the window is left alone.
LEMMA LiveQueueKept ==
    ASSUME NEW p \in Providers, Window(p) # None, NEW M \in Nat, NEW s \in Seq(0..M),
           NEW t \in Nat, Len(s) >= 1 => s[1] >= t - Window(p)
    PROVE  Prune(p, s, t) = s
<1> DEFINE cutoff == t - Window(p)
           k == CHOOSE k \in 0..Len(s) : Stale(s, cutoff, k)
<1>1. s \in Seq(Nat) /\ cutoff \in Int
  BY WindowType
<1>2. k \in 0..Len(s) /\ Stale(s, cutoff, k)
  BY <1>1, StaleExists
<1>3. Prune(p, s, t) = SubSeq(s, k + 1, Len(s))
  BY DEF Prune
<1> HIDE DEF k
<1>4. k = 0
  <2>1. SUFFICES ASSUME k >= 1 PROVE FALSE
    BY <1>2
  <2>2. Len(s) >= 1 /\ 1 \in 1..k /\ s[1] \in Nat
    BY <1>1, <1>2, <2>1
  <2>3. s[1] < cutoff /\ s[1] >= cutoff
    BY <1>2, <2>2 DEF Stale
  <2> QED
    BY <1>1, <2>2, <2>3
<1>5. SubSeq(s, 1, Len(s)) = s
  BY <1>1
<1> QED
  BY <1>3, <1>4, <1>5

LEMMA PruneOrdered ==
    ASSUME NEW p \in Providers, NEW M \in Nat, NEW s \in Seq(0..M), NEW t \in Nat,
           OrderedUpTo(s, t)
    PROVE  OrderedUpTo(Prune(p, s, t), t)
<1>1. CASE Window(p) = None
  BY <1>1 DEF Prune
<1>2. CASE Window(p) # None
  <2>1. PICK k \in 0..Len(s) : Prune(p, s, t) = SubSeq(s, k + 1, Len(s))
    BY <1>2, PruneCuts
  <2>2. /\ Len(SubSeq(s, k + 1, Len(s))) = Len(s) - k
        /\ \A i \in 1..(Len(s) - k) : SubSeq(s, k + 1, Len(s))[i] = s[k + i]
    BY <2>1
  <2>3. \A i \in 1..(Len(s) - k) : k + i \in 1..Len(s)
    OBVIOUS
  <2> DEFINE r == Prune(p, s, t)
  <2>4. Len(r) = Len(s) - k /\ \A i \in 1..(Len(s) - k) : r[i] = s[k + i]
    BY <2>1, <2>2
  <2> HIDE DEF r
  <2>5. \A i \in 1..Len(r) : r[i] <= t
    BY <2>3, <2>4 DEF OrderedUpTo
  <2>6. ASSUME NEW i \in 1..Len(r), NEW j \in 1..Len(r), i <= j
        PROVE  r[i] <= r[j]
    <3>1. /\ k + i \in 1..Len(s) /\ k + j \in 1..Len(s) /\ k + i <= k + j
          /\ r[i] = s[k + i] /\ r[j] = s[k + j]
      BY <2>3, <2>4, <2>6
    <3> QED
      BY <3>1 DEF OrderedUpTo
  <2> QED
    BY <2>5, <2>6 DEF OrderedUpTo, r
<1> QED
  BY <1>1, <1>2

LEMMA ChargedOrdered ==
    ASSUME NEW p \in Providers, NEW M \in Nat, NEW s \in Seq(0..M), NEW t \in 0..M,
           OrderedUpTo(s, t)
    PROVE  OrderedUpTo(Charged(p, s, t), t)
<1> DEFINE r == Prune(p, s, t)
<1>1. r \in Seq(0..M) /\ OrderedUpTo(r, t)
  BY PruneIsSuffix, PruneOrdered
<1>2. Charged(p, s, t) = Append(r, t)
  BY DEF Charged
<1> HIDE DEF r
<1>3. /\ Len(Append(r, t)) = Len(r) + 1
      /\ \A i \in 1..Len(r) : Append(r, t)[i] = r[i]
      /\ Append(r, t)[Len(r) + 1] = t
      /\ Len(r) \in Nat
  BY <1>1
<1>4. \A i \in 1..(Len(r) + 1) : i \in 1..Len(r) \/ i = Len(r) + 1
  BY <1>3
<1>5. \A i \in 1..Len(r) : r[i] \in Nat /\ r[i] <= t
  BY <1>1 DEF OrderedUpTo
<1>6. \A i \in 1..(Len(r) + 1) : Append(r, t)[i] <= t
  BY <1>3, <1>4, <1>5
<1>7. ASSUME NEW i \in 1..(Len(r) + 1), NEW j \in 1..(Len(r) + 1), i <= j
      PROVE  Append(r, t)[i] <= Append(r, t)[j]
  <2>1. CASE j = Len(r) + 1
    BY <1>3, <1>6, <2>1
  <2>2. CASE j \in 1..Len(r)
    <3>1. i \in 1..Len(r)
      BY <1>3, <1>7, <2>2
    <3> QED
      BY <1>1, <1>3, <1>7, <2>2, <3>1 DEF OrderedUpTo
  <2> QED
    BY <1>4, <2>1, <2>2
<1> QED
  BY <1>2, <1>3, <1>6, <1>7 DEF OrderedUpTo

\* The queue after any operation, pruned at the time of it, begins with what
\* the one before it has when it is pruned.
LEMMA PruneLosesNothing ==
    ASSUME NEW p \in Providers, ~Unlimited(p), NEW M \in Nat, NEW s \in Seq(0..M),
           NEW t \in 0..M, OrderedUpTo(s, t)
    PROVE  Prune(p, Charged(p, s, t), t) = Append(Prune(p, s, t), t)
<1> DEFINE r == Prune(p, s, t)
<1>1. Window(p) # None /\ Window(p) \in Nat
  BY WindowType DEF Unlimited
<1>2. r \in Seq(0..M) /\ Charged(p, s, t) \in Seq(0..M) /\ t \in Nat
  BY PruneIsSuffix, ChargedType
<1>3. Len(r) >= 1 => r[1] >= t - Window(p)
  <2>1. PICK k \in 0..Len(s) :
          /\ r = SubSeq(s, k + 1, Len(s))
          /\ \A i \in (k + 1)..Len(s) : s[i] >= t - Window(p)
    BY <1>1, PruneCuts
  <2>2. Len(r) >= 1 => k + 1 \in (k + 1)..Len(s) /\ r[1] = s[k + 1]
    BY <2>1
  <2> QED
    BY <2>1, <2>2
<1>4. Charged(p, s, t) = Append(r, t)
  BY DEF Charged
<1> HIDE DEF r
<1>5. Append(r, t)[1] = IF Len(r) >= 1 THEN r[1] ELSE t
  BY <1>2
<1>6. Append(r, t)[1] >= t - Window(p)
  BY <1>1, <1>3, <1>5
<1> QED
  BY <1>1, <1>2, <1>4, <1>6, LiveQueueKept DEF r
=============================================================================
