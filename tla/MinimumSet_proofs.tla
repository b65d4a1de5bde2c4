------------------------- MODULE MinimumSet_proofs -------------------------
(***************************************************************************)
(* The honesty rules of the optimizer, for every set of providers, cost    *)
(* model, probability scale, target, mode and candidate limit: a claimed   *)
(* minimum is one, and a target said to be out of reach is.                *)
(***************************************************************************)
EXTENDS MinimumSet, SubsetSelection_proofs, TLAPS

\* The entries so far have been searched: chosen has the least cost, and
\* then the best estimate, of those that meet the target.
Searched ==
    IF chosen = {}
    THEN \A T \in DOMAIN q : q[T] # Unknown => q[T] < target
    ELSE /\ chosen \in DOMAIN q
         /\ q[chosen] \in target..Scale
         /\ \A T \in DOMAIN q : q[T] # Unknown /\ q[T] >= target =>
              \/ Cost[chosen] < Cost[T]
              \/ Cost[chosen] = Cost[T] /\ q[T] <= q[chosen]

\* The inductive invariant.
IInv ==
    /\ TypeOK
    /\ Searched
    /\ ExactMinimum
    /\ UnreachableIsReal

\* Every set of candidates has a cost, and a target is a probability.
LEMMA CallTypes ==
    ASSUME TypeOK
    PROVE  /\ \A S \in Subsets(candidates) : S # {} /\ Cost[S] \in Int
           /\ target \in 1..Scale
           /\ Scale \in Nat /\ Unknown \notin Nat
           /\ \A S \in DOMAIN q : q[S] # Unknown => q[S] \in 0..Scale
  BY SelectionAssumption, MinimumSetAssumption DEF TypeOK, Subsets

\* A call has made no claim when it starts.
LEMMA InitInv == Init => IInv
<1> SUFFICES ASSUME Init PROVE IInv
  OBVIOUS
<1> USE DEF Init, Running, Nothing, Decision
<1>1. TypeOK
  BY DEF TypeOK, Statuses
<1>2. Searched
  BY DEF Searched
<1>3. ExactMinimum /\ UnreachableIsReal
  BY DEF ExactMinimum, UnreachableIsReal, Satisfied
<1> QED
  BY <1>1, <1>2, <1>3 DEF IInv

\* A call that is still running, or that has ended without a set of
\* providers, claims nothing.
LEMMA NoClaim ==
    ASSUME result.status \notin {"SELECTED", "SLO_ESTIMATE_UNSATISFIABLE"},
           result.bestEffort = FALSE
    PROVE  ExactMinimum /\ UnreachableIsReal
  BY DEF ExactMinimum, UnreachableIsReal, Satisfied

\* Refusing a call keeps the invariant.
LEMMA RejectInv ==
    ASSUME IInv, Reject
    PROVE  IInv'
<1> USE DEF Reject, Nothing, Decision
<1>1. TypeOK'
  BY DEF IInv, TypeOK, Statuses, call
<1>2. Searched'
  BY DEF IInv, Searched, call
<1>3. (ExactMinimum /\ UnreachableIsReal)'
  <2>1. /\ result'.status \notin {"SELECTED", "SLO_ESTIMATE_UNSATISFIABLE"}
        /\ result'.bestEffort = FALSE
    OBVIOUS
  <2> QED
    BY <2>1 DEF ExactMinimum, UnreachableIsReal, Satisfied
<1> QED
  BY <1>1, <1>2, <1>3 DEF IInv

\* Entering an unknown estimate keeps the invariant.
LEMMA MissInv ==
    ASSUME IInv, NEW S \in Subsets(candidates), Miss(S)
    PROVE  IInv'
<1> USE DEF Miss, AnsweredNone, Answered
<1>1. /\ DOMAIN q' = DOMAIN q \cup {S}
      /\ q'[S] = Unknown
      /\ S \notin DOMAIN q
      /\ \A T \in DOMAIN q : q'[T] = q[T]
  BY DEF Next1, Todo
<1>2. TypeOK'
  BY <1>1 DEF IInv, TypeOK, call
<1>3. Searched'
  BY <1>1 DEF IInv, Searched, call
<1>4. (ExactMinimum /\ UnreachableIsReal)'
  BY DEF Next1, Running, Nothing, Decision, ExactMinimum, UnreachableIsReal, Satisfied
<1> QED
  BY <1>2, <1>3, <1>4 DEF IInv

\* Entering an estimate keeps the invariant: the entry that was chosen, or
\* the new one if its key is smaller, has the least key of all.
LEMMA ScoreInv ==
    ASSUME IInv, NEW S \in Subsets(candidates), NEW v \in 0..Scale, Score(S, v)
    PROVE  IInv'
<1> USE DEF Score, Answered
<1>1. /\ DOMAIN q' = DOMAIN q \cup {S}
      /\ q'[S] = v
      /\ S \notin DOMAIN q
      /\ \A T \in DOMAIN q : q'[T] = q[T]
  BY DEF Next1, Todo
<1>2. TypeOK'
  BY <1>1 DEF IInv, TypeOK, call, Subsets
<1>3. Searched'
  <2> USE CallTypes DEF IInv
  <2>1. /\ target' = target
        /\ S # {} /\ Cost[S] \in Int
        /\ v \in Int /\ v # Unknown /\ v <= Scale /\ target \in Int /\ Scale \in Int
    BY DEF call
  <2>2. \A T \in DOMAIN q : /\ Cost[T] \in Int
                            /\ q[T] # Unknown => q[T] \in Int
    BY DEF TypeOK
  <2>3. CASE chosen' = chosen /\ chosen = {}
    BY <1>1, <2>1, <2>2, <2>3 DEF Searched, Feasible
  <2>4. CASE chosen' = chosen /\ chosen # {}
    <3>1. chosen \in DOMAIN q /\ q[chosen] \in target..Scale /\ chosen # S
      BY <1>1, <2>4 DEF Searched
    <3>2. v >= target => \/ Cost[chosen] < Cost[S]
                         \/ Cost[chosen] = Cost[S] /\ v <= q[chosen]
      BY <2>1, <2>2, <2>4, <3>1 DEF Feasible, Preferred
    <3> QED
      BY <1>1, <2>1, <2>4, <3>1, <3>2 DEF Searched
  <2>5. CASE chosen' = S /\ chosen' # chosen /\ chosen = {}
    BY <1>1, <2>1, <2>2, <2>5 DEF Searched, Feasible
  <2>6. CASE chosen' = S /\ chosen' # chosen /\ chosen # {}
    <3>1. chosen \in DOMAIN q /\ q[chosen] \in target..Scale
      BY <2>6 DEF Searched
    <3>2. /\ v >= target
          /\ \/ Cost[S] < Cost[chosen]
             \/ Cost[S] = Cost[chosen] /\ q[chosen] <= v
      BY <2>1, <2>2, <2>6, <3>1 DEF Feasible, Preferred
    <3>3. \A T \in DOMAIN q : q[T] # Unknown /\ q[T] >= target =>
             \/ Cost[S] < Cost[T]
             \/ Cost[S] = Cost[T] /\ q[T] <= v
      BY <2>1, <2>2, <2>6, <3>1, <3>2 DEF Searched
    <3> QED
      BY <1>1, <2>1, <2>6, <3>2, <3>3 DEF Searched
  <2> QED
    BY <2>3, <2>4, <2>5, <2>6
<1>4. (ExactMinimum /\ UnreachableIsReal)'
  BY DEF Next1, Running, Nothing, Decision, ExactMinimum, UnreachableIsReal, Satisfied
<1> QED
  BY <1>2, <1>3, <1>4 DEF IInv

\* Raising keeps the invariant.
LEMMA InvalidInv ==
    ASSUME IInv, NEW S \in Subsets(candidates), Invalid(S)
    PROVE  IInv'
<1> USE DEF Invalid, Raised, Nothing, Decision
<1>1. TypeOK'
  BY DEF IInv, TypeOK, Statuses, call
<1>2. Searched'
  BY DEF IInv, Searched, call
<1>3. (ExactMinimum /\ UnreachableIsReal)'
  BY DEF ExactMinimum, UnreachableIsReal, Satisfied
<1> QED
  BY <1>1, <1>2, <1>3 DEF IInv

\* The decision keeps the invariant: all subsets have been searched, so what
\* it claims is true.
LEMMA DecideInv ==
    ASSUME IInv, Decide
    PROVE  IInv'
<1> USE CallTypes DEF IInv
<1>1. /\ UNCHANGED <<candidates, target, mode, allow, limit, q, best, chosen>>
      /\ Subsets(candidates) = DOMAIN q
  BY DEF Decide, call, Todo, TypeOK
<1>2. /\ result'.subset \in {{}, chosen, candidates}
      /\ result'.best = best
      /\ result'.exact = (Missing = {})
      /\ result'.bestEffort \in BOOLEAN
      /\ result'.status \in {"ESTIMATOR_COVERAGE_INCOMPLETE", "SELECTED",
                              "SLO_ESTIMATE_UNSATISFIABLE"}
  BY DEF Decide, Decision
<1>3. TypeOK'
  <2>1. result' \in [status : Statuses, subset : SUBSET candidates, exact : BOOLEAN,
                     bestEffort : BOOLEAN, best : SUBSET candidates]
    BY DEF Decide, Decision, Statuses, TypeOK
  <2> QED
    BY <1>1, <2>1 DEF TypeOK
<1>4. Searched'
  BY <1>1 DEF Searched
<1>5. ExactMinimum'
  <2> SUFFICES ASSUME Satisfied', mode = "require-complete"
               PROVE  ExactMinimum'
    BY <1>1 DEF ExactMinimum
  <2>1. chosen # {} /\ result'.subset = chosen /\ Missing = {} /\ result'.exact
    BY DEF Decide, Decision, Gated, Satisfied
  <2>2. chosen \in DOMAIN q /\ q[chosen] \in target..Scale
    BY <2>1 DEF Searched
  <2>3. ASSUME NEW T \in Subsets(candidates), CouldSatisfy(T)
        PROVE  \/ Cost[chosen] < Cost[T]
               \/ Cost[chosen] = Cost[T] /\ q[T] <= q[chosen]
    <3>1. T \in DOMAIN q /\ q[T] # Unknown /\ q[T] >= target
      BY <1>1, <2>1, <2>3 DEF CouldSatisfy, Missing
    <3> QED
      BY <2>1, <3>1 DEF Searched
  <2> QED
    BY <1>1, <2>1, <2>2, <2>3 DEF ExactMinimum, CouldSatisfy
<1>6. UnreachableIsReal'
  <2> SUFFICES ASSUME result'.status = "SLO_ESTIMATE_UNSATISFIABLE" \/ result'.bestEffort,
                      NEW T \in Subsets(candidates), CouldSatisfy(T)
               PROVE  mode = "partial-best-known" /\ q[T] = Unknown
    BY <1>1 DEF UnreachableIsReal, CouldSatisfy
  <2>1. chosen = {} /\ ~Gated
    BY DEF Decide, Decision
  <2>2. T \in DOMAIN q /\ (q[T] # Unknown => q[T] < target /\ q[T] \in 0..Scale)
    BY <1>1, <2>1 DEF Searched
  <2>3. q[T] = Unknown
    BY <2>2, CallTypes DEF CouldSatisfy
  <2> QED
    BY <2>1, <2>2, <2>3 DEF Gated, Missing, TypeOK, Modes
<1> QED
  BY <1>3, <1>4, <1>5, <1>6

\* The invariant of a call: IInv holds initially and every step keeps it.
THEOREM SelectionInvariant == Spec => []IInv
<1>1. ASSUME IInv, [Next]_vars PROVE IInv'
  <2>1. CASE Reject
    BY <1>1, <2>1, RejectInv
  <2>2. ASSUME NEW S \in Subsets(candidates), Miss(S) PROVE IInv'
    BY <1>1, <2>2, MissInv
  <2>3. ASSUME NEW S \in Subsets(candidates), NEW v \in 0..Scale, Score(S, v)
        PROVE  IInv'
    BY <1>1, <2>3, ScoreInv
  <2>4. ASSUME NEW S \in Subsets(candidates), Invalid(S) PROVE IInv'
    BY <1>1, <2>4, InvalidInv
  <2>5. CASE Decide
    BY <1>1, <2>5, DecideInv
  <2>6. CASE UNCHANGED vars
    BY <1>1, <2>6 DEF vars, call, IInv, TypeOK, Searched, ExactMinimum,
                      UnreachableIsReal, Satisfied, CouldSatisfy
  <2> QED
    BY <1>1, <2>1, <2>2, <2>3, <2>4, <2>5, <2>6 DEF Next
<1> QED
  BY <1>1, InitInv, PTL DEF Spec

\* A decision has the type of OptimizerResult, and an estimate is unknown or
\* a probability.
THEOREM SelectionTypeCorrect == Spec => []TypeOK
  BY SelectionInvariant, PTL DEF IInv

\* A minimum that is claimed is one, under every cost model: no cheaper
\* subset could meet the target.
THEOREM ClaimedMinimumIsReal == Spec => []ExactMinimum
  BY SelectionInvariant, PTL DEF IInv

\* A target that is reported as out of reach is met by no scored subset, and
\* by none at all where coverage must be complete.
THEOREM UnsatisfiableIsReal == Spec => []UnreachableIsReal
  BY SelectionInvariant, PTL DEF IInv

(***************************************************************************)
(* The decision is the one that Select defines.                            *)
(***************************************************************************)
Scored == {S \in DOMAIN q : q[S] # Unknown}
Meeting == {S \in Scored : q[S] >= target}

\* The entries come in the order of the enumeration, and best and chosen are
\* what max() and min() answer of those so far.
Scanned ==
    /\ \A S \in DOMAIN q, T \in Todo : Precedes(S, T)
    /\ IF best = {} THEN Scored = {} ELSE IsBest(Scored, q, best)
    /\ IF chosen = {} THEN Meeting = {} ELSE IsChosen(Meeting, q, chosen)

LEMMA ScannedTypes ==
    ASSUME TypeOK
    PROVE  /\ \A S \in Subsets(candidates) : S \in SUBSET Providers /\ S # {}
           /\ Scored \subseteq Subsets(candidates) /\ Meeting \subseteq Scored
           /\ \A S \in Scored : q[S] \in Nat
           /\ \A S \in SUBSET Providers : Cost[S] \in Int
           /\ target \in Nat
  BY SelectionAssumption, MinimumSetAssumption DEF TypeOK, Subsets, Scored, Meeting

\* The enumeration goes on in its order.
LEMMA EnumerationKept ==
    ASSUME IInv, Scanned, NEW S \in Subsets(candidates), Next1(S),
           UNCHANGED candidates, DOMAIN q' = DOMAIN q \cup {S}
    PROVE  \A R \in DOMAIN q', T \in Todo' : Precedes(R, T)
<1>1. Todo' = Todo \ {S}
  BY DEF Todo
<1> QED
  BY <1>1 DEF Scanned, Next1

LEMMA MissScanned ==
    ASSUME IInv, Scanned, NEW S \in Subsets(candidates), Miss(S)
    PROVE  Scanned'
<1>1. /\ DOMAIN q' = DOMAIN q \cup {S}
      /\ q'[S] = Unknown
      /\ S \notin DOMAIN q
      /\ \A T \in DOMAIN q : q'[T] = q[T]
      /\ UNCHANGED <<candidates, target, best, chosen>>
  BY DEF Miss, AnsweredNone, Answered, Next1, Todo, call
<1>2. Scored' = Scored /\ Meeting' = Meeting
  BY <1>1 DEF Scored, Meeting
<1>3. \A T \in Scored : q'[T] = q[T]
  BY <1>1 DEF Scored
<1>4. \A T \in Meeting : T \in Scored
  BY DEF Meeting
<1>5. best # {} => IsBest(Scored, q', best)
  BY <1>3 DEF Scanned, IsBest
<1>6. chosen # {} => IsChosen(Meeting, q', chosen)
  BY <1>3, <1>4 DEF Scanned, IsChosen
<1>7. \A R \in DOMAIN q', T \in Todo' : Precedes(R, T)
  BY <1>1, EnumerationKept DEF Miss
<1> QED
  BY <1>1, <1>2, <1>5, <1>6, <1>7 DEF Scanned

LEMMA ScoreScanned ==
    ASSUME IInv, Scanned, NEW S \in Subsets(candidates), NEW v \in 0..Scale, Score(S, v)
    PROVE  Scanned'
<1>1. /\ DOMAIN q' = DOMAIN q \cup {S}
      /\ q'[S] = v
      /\ S \notin DOMAIN q
      /\ \A T \in DOMAIN q : q'[T] = q[T]
      /\ UNCHANGED <<candidates, target>>
  BY DEF Score, Answered, Next1, Todo, call
<1>2. /\ v \in Nat /\ v # Unknown /\ target \in Nat
      /\ S \in SUBSET Providers /\ S # {} /\ Cost[S] \in Int
      /\ \A T \in Scored : /\ T \in DOMAIN q /\ T \in SUBSET Providers /\ T # {} /\ T # S
                           /\ q[T] \in Nat /\ q'[T] = q[T] /\ Cost[T] \in Int
  BY <1>1, ScannedTypes, SelectionAssumption DEF IInv, Scored
<1>3. /\ Scored' = Scored \cup {S}
      /\ Meeting' = IF v >= target THEN Meeting \cup {S} ELSE Meeting
  BY <1>1, <1>2 DEF Scored, Meeting
<1>4. \A T \in Meeting : T \in Scored
  BY DEF Meeting
<1>5. IsBest(Scored', q', best') /\ best' # {}
  <2>1. CASE best = {}
    <3>1. best' = S /\ Scored' = {S}
      BY <1>3, <2>1 DEF Score, Scanned
    <3> QED
      BY <1>2, <3>1 DEF IsBest
  <2>2. CASE best # {} /\ Likelier(S, v, best)
    <3>1. best' = S /\ best \in Scored
      BY <2>2 DEF Score, Scanned, IsBest
    <3>2. \A T \in Scored : q[T] < v \/ (q[T] = v /\ Cost[S] < Cost[T])
      <4> TAKE T \in Scored
      <4>1. v > q[best] \/ (v = q[best] /\ Cost[S] < Cost[best])
        BY <2>2 DEF Likelier
      <4>2. \/ T = best
            \/ q[T] < q[best]
            \/ q[T] = q[best] /\ Cost[best] <= Cost[T]
        BY <1>2, <2>2, <3>1 DEF Scanned, IsBest
      <4> QED
        BY <1>2, <3>1, <4>1, <4>2
    <3> QED
      BY <1>1, <1>2, <1>3, <3>1, <3>2 DEF IsBest
  <2>3. CASE best # {} /\ ~Likelier(S, v, best)
    <3>1. best' = best /\ best \in Scored
      BY <2>3 DEF Score, Scanned, IsBest
    <3>2. Precedes(best, S)
      BY <1>2, <3>1 DEF Scanned, Score, Next1
    <3>3. \/ v < q[best]
          \/ v = q[best] /\ Cost[best] < Cost[S]
          \/ v = q[best] /\ Cost[best] = Cost[S] /\ Precedes(best, S)
      BY <1>2, <2>3, <3>1, <3>2 DEF Likelier
    <3>4. \A T \in Scored \ {best} :
            \/ q'[T] < q[best]
            \/ q'[T] = q[best] /\ Cost[best] < Cost[T]
            \/ q'[T] = q[best] /\ Cost[best] = Cost[T] /\ Precedes(best, T)
      BY <1>2, <2>3 DEF Scanned, IsBest
    <3>5. q'[best] = q[best]
      BY <1>2, <3>1
    <3> QED
      BY <1>1, <1>2, <1>3, <2>3, <3>1, <3>3, <3>4, <3>5 DEF IsBest
  <2> QED
    BY <2>1, <2>2, <2>3
<1>6. IF chosen' = {} THEN Meeting' = {} ELSE IsChosen(Meeting', q', chosen')
  <2>1. CASE ~Feasible(v)
    <3>1. chosen' = chosen /\ Meeting' = Meeting
      BY <1>2, <1>3, <2>1 DEF Score, Feasible
    <3>2. chosen # {} => IsChosen(Meeting, q', chosen)
      BY <1>2, <1>4 DEF Scanned, IsChosen
    <3> QED
      BY <3>1, <3>2 DEF Scanned
  <2>2. CASE Feasible(v) /\ chosen = {}
    <3>1. chosen' = S /\ Meeting' = {S}
      BY <1>2, <1>3, <2>2 DEF Score, Scanned, Feasible
    <3> QED
      BY <1>2, <3>1 DEF IsChosen
  <2>3. CASE Feasible(v) /\ chosen # {} /\ Preferred(S, v, chosen)
    <3>1. chosen' = S /\ chosen \in Meeting /\ Meeting' = Meeting \cup {S}
      BY <1>3, <2>3 DEF Score, Scanned, IsChosen, Feasible
    <3>2. \A T \in Meeting : \/ Cost[S] < Cost[T]
                             \/ Cost[S] = Cost[T] /\ q[T] < v
                             \/ Cost[S] = Cost[T] /\ q[T] = v /\ Before(S, T)
      <4> TAKE T \in Meeting
      <4>1. \/ Cost[S] < Cost[chosen]
            \/ Cost[S] = Cost[chosen] /\ v > q[chosen]
            \/ Cost[S] = Cost[chosen] /\ v = q[chosen] /\ Before(S, chosen)
        BY <2>3 DEF Preferred
      <4>2. \/ T = chosen
            \/ Cost[chosen] < Cost[T]
            \/ Cost[chosen] = Cost[T] /\ q[T] < q[chosen]
            \/ Cost[chosen] = Cost[T] /\ q[T] = q[chosen] /\ Before(chosen, T)
        BY <2>3 DEF Scanned, IsChosen
      <4>3. Before(S, chosen) /\ Before(chosen, T) => Before(S, T)
        BY <1>2, <1>4, <3>1, BeforeTransitive
      <4>4. /\ Cost[T] \in Int /\ Cost[chosen] \in Int
            /\ q[T] \in Nat /\ q[chosen] \in Nat
        BY <1>2, <1>4, <3>1
      <4> QED
        BY <1>2, <4>1, <4>2, <4>3, <4>4
    <3> QED
      BY <1>1, <1>2, <1>4, <3>1, <3>2 DEF IsChosen
  <2>4. CASE Feasible(v) /\ chosen # {} /\ ~Preferred(S, v, chosen)
    <3>1. chosen' = chosen /\ chosen \in Meeting /\ Meeting' = Meeting \cup {S}
      BY <1>3, <2>4 DEF Score, Scanned, IsChosen, Feasible
    <3>2. Before(chosen, S) \/ Before(S, chosen)
      <4>1. chosen \in SUBSET Providers /\ chosen # S
        BY <1>2, <1>4, <3>1
      <4> QED
        BY <1>2, <4>1, BeforeTotal
    <3>3. \/ Cost[chosen] < Cost[S]
          \/ Cost[chosen] = Cost[S] /\ v < q[chosen]
          \/ Cost[chosen] = Cost[S] /\ v = q[chosen] /\ Before(chosen, S)
      <4>1. Cost[chosen] \in Int /\ q[chosen] \in Nat
        BY <1>2, <1>4, <3>1
      <4> QED
        BY <1>2, <2>4, <3>2, <4>1 DEF Preferred
    <3>4. \A T \in Meeting \ {chosen} :
            \/ Cost[chosen] < Cost[T]
            \/ Cost[chosen] = Cost[T] /\ q'[T] < q[chosen]
            \/ Cost[chosen] = Cost[T] /\ q'[T] = q[chosen] /\ Before(chosen, T)
      BY <1>2, <1>4, <2>4 DEF Scanned, IsChosen
    <3>5. q'[chosen] = q[chosen]
      BY <1>2, <1>4, <3>1
    <3> QED
      BY <1>1, <2>4, <3>1, <3>3, <3>4, <3>5 DEF IsChosen
  <2> QED
    BY <2>1, <2>2, <2>3, <2>4
<1>7. \A R \in DOMAIN q', T \in Todo' : Precedes(R, T)
  BY <1>1, EnumerationKept DEF Score
<1> QED
  BY <1>5, <1>6, <1>7 DEF Scanned

\* Every subset has an entry, so the decision taken is that of Select.
LEMMA DecideDecides ==
    ASSUME IInv, Scanned, Decide
    PROVE  result' = Select(candidates, q, target, mode, allow, limit)
<1> DEFINE missing == {S \in Subsets(candidates) : q[S] = Unknown}
           scored == Subsets(candidates) \ missing
           feasible == {S \in scored : q[S] >= target}
           top == IF scored = {} THEN {} ELSE Best(scored, q)
<1>1. Subsets(candidates) = DOMAIN q
  BY DEF IInv, TypeOK, Decide, Todo
<1>2. missing = Missing /\ scored = Scored /\ feasible = Meeting
  BY <1>1 DEF Missing, Scored, Meeting
<1>3. /\ Scored \in SUBSET SUBSET Providers /\ Meeting \in SUBSET SUBSET Providers
      /\ \A T \in Scored : q[T] \in Int /\ T # {}
      /\ \A T \in Meeting : q[T] \in Int /\ T # {}
      /\ Meeting \subseteq Scored
  BY ScannedTypes DEF IInv
<1>4. best = top /\ (best = {} <=> scored = {})
  <2>1. best # {} => best \in Scored /\ best = Best(Scored, q)
    BY <1>3, IsBestIsBest DEF Scanned, IsBest
  <2> HIDE DEF scored
  <2> QED
    BY <1>2, <2>1 DEF Scanned
<1>5. chosen # {} => chosen = Chosen(feasible, q) /\ feasible # {}
  <2>1. chosen # {} => chosen \in Meeting /\ chosen = Chosen(Meeting, q)
    BY <1>3, IsChosenIsChosen DEF Scanned, IsChosen
  <2> HIDE DEF feasible
  <2> QED
    BY <1>2, <2>1
<1>6. chosen = {} => feasible = {}
  BY <1>2 DEF Scanned
<1>7. candidates # {} /\ ~ (Cardinality(candidates) > limit)
  <2>1. Cardinality(candidates) \in Nat /\ limit \in Nat
    BY SetsOfProviders, MinimumSetAssumption DEF IInv, TypeOK
  <2> QED
    BY <2>1 DEF Decide
<1>8. Select(candidates, q, target, mode, allow, limit) =
        IF ~(missing = {}) /\ mode = "require-complete"
        THEN Decision("ESTIMATOR_COVERAGE_INCOMPLETE", {}, missing = {}, FALSE, top)
        ELSE IF feasible # {}
        THEN Decision("SELECTED", Chosen(feasible, q), missing = {}, FALSE, top)
        ELSE IF allow /\ scored # {}
        THEN Decision("SELECTED", candidates, missing = {}, TRUE, top)
        ELSE Decision("SLO_ESTIMATE_UNSATISFIABLE", {}, missing = {}, FALSE, top)
  BY <1>7 DEF Select
<1>9. result' =
        IF ~(missing = {}) /\ mode = "require-complete"
        THEN Decision("ESTIMATOR_COVERAGE_INCOMPLETE", {}, missing = {}, FALSE, best)
        ELSE IF chosen # {}
        THEN Decision("SELECTED", chosen, missing = {}, FALSE, best)
        ELSE IF allow /\ best # {}
        THEN Decision("SELECTED", candidates, missing = {}, TRUE, best)
        ELSE Decision("SLO_ESTIMATE_UNSATISFIABLE", {}, missing = {}, FALSE, best)
  BY <1>2 DEF Decide, Gated
<1> HIDE DEF missing, scored, feasible, top
<1> QED
  BY <1>4, <1>5, <1>6, <1>8, <1>9

LEMMA RejectDecides ==
    ASSUME IInv, Reject
    PROVE  result' = Select(candidates, q, target, mode, allow, limit)
<1>1. CASE candidates = {}
  BY <1>1 DEF Reject, Select
<1>2. CASE candidates # {}
  BY <1>2 DEF Reject, Select
<1> QED
  BY <1>1, <1>2

\* The decision is a function of the candidates and the table of estimates
\* alone, and it is the one that Select defines, ties included: whatever the
\* estimator answers, max() and min() over the entries as they come find the
\* entry that is extreme in the whole table.
THEOREM DecisionIsSelect == Spec => []DecidesAsSpecified
<1> DEFINE Inv == Scanned /\ DecidesAsSpecified
<1>1. Init => Inv
  <2> SUFFICES ASSUME Init PROVE Inv
    OBVIOUS
  <2>1. DOMAIN q = {} /\ best = {} /\ chosen = {} /\ result = Running
    BY DEF Init
  <2>2. Scored = {} /\ Meeting = {}
    BY <2>1 DEF Scored, Meeting
  <2> QED
    BY <2>1, <2>2 DEF Scanned, DecidesAsSpecified
<1>2. ASSUME IInv, Inv, [Next]_vars PROVE Inv'
  <2>1. CASE Reject
    <3>1. UNCHANGED <<candidates, target, mode, allow, limit, q, best, chosen>>
      BY <2>1 DEF Reject, call
    <3>2. Scanned'
      BY <1>2, <3>1 DEF Scanned, Scored, Meeting, Todo
    <3>3. DecidesAsSpecified'
      BY <1>2, <2>1, <3>1, RejectDecides DEF DecidesAsSpecified
    <3> QED
      BY <3>2, <3>3
  <2>2. ASSUME NEW S \in Subsets(candidates), Miss(S) PROVE Inv'
    <3>1. result' = Running
      BY <2>2 DEF Miss, Next1
    <3> QED
      BY <1>2, <2>2, <3>1, MissScanned DEF DecidesAsSpecified, Running
  <2>3. ASSUME NEW S \in Subsets(candidates), NEW v \in 0..Scale, Score(S, v)
        PROVE  Inv'
    <3>1. result' = Running
      BY <2>3 DEF Score, Next1
    <3> QED
      BY <1>2, <2>3, <3>1, ScoreScanned DEF DecidesAsSpecified, Running
  <2>4. ASSUME NEW S \in Subsets(candidates), Invalid(S) PROVE Inv'
    <3>1. UNCHANGED <<candidates, target, q, best, chosen>> /\ result' = Raised
      BY <2>4 DEF Invalid, call
    <3>2. Scanned'
      BY <1>2, <3>1 DEF Scanned, Scored, Meeting, Todo
    <3> QED
      BY <3>1, <3>2 DEF DecidesAsSpecified, Raised
  <2>5. CASE Decide
    <3>1. UNCHANGED <<candidates, target, mode, allow, limit, q, best, chosen>>
      BY <2>5 DEF Decide, call
    <3>2. Scanned'
      BY <1>2, <3>1 DEF Scanned, Scored, Meeting, Todo
    <3>3. DecidesAsSpecified'
      BY <1>2, <2>5, <3>1, DecideDecides DEF DecidesAsSpecified
    <3> QED
      BY <3>2, <3>3
  <2>6. CASE UNCHANGED vars
    <3>1. UNCHANGED <<candidates, target, mode, allow, limit, q, best, chosen, result>>
      BY <2>6 DEF vars, call
    <3>2. Scanned'
      BY <1>2, <3>1 DEF Scanned, Scored, Meeting, Todo
    <3>3. DecidesAsSpecified'
      BY <1>2, <3>1 DEF DecidesAsSpecified, Running, Raised
    <3> QED
      BY <3>2, <3>3
  <2> QED
    BY <1>2, <2>1, <2>2, <2>3, <2>4, <2>5, <2>6 DEF Next
<1>3. Spec => []IInv
  BY SelectionInvariant
<1> QED
  BY <1>1, <1>2, <1>3, PTL DEF Spec
=============================================================================
