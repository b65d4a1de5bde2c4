------------------------- MODULE Components_proofs -------------------------
(***************************************************************************)
(* The services of Components, for all values of their constants.          *)
(*                                                                         *)
(* The baseline router: its types, the fairness of its rotation, the       *)
(* promise of ResolutionService, and the agreement of the two files of its *)
(* sink and the index in memory, for every list of resolvers, any number   *)
(* of clients and every way in which their requests interleave.            *)
(*                                                                         *)
(* Then what the components beside it promise: a mock resolver, the index  *)
(* of the routing service and the acceptance profile.  The scripts are in  *)
(* Scripts_proofs.                                                         *)
(***************************************************************************)
EXTENDS Components, Functions, FiniteSetTheorems, SequenceTheorems, NaturalsInduction,
        WellFoundedInduction, TLAPS

(***************************************************************************)
(* The inductive invariant of the baseline router.                         *)
(***************************************************************************)

Indexes ==
    [requests : Seq(Records),
     buckets : UNION {[D -> Seq(Attempts)] : D \in SUBSET (1..MaxRequests)},
     order : Seq(1..MaxRequests)]

Queued == {c \in Clients : phase[c] = "queued"}

\* A plan of the round-robin policy was one request, and those still to be
\* planned are requests as well.
TurnsIssued == \A r \in Ids : turns[r] + Cardinality(Queued) <= issued

\* The attempts made are a beginning of the plan, which names no resolver
\* twice; while the handler goes on, none of them was accepted.
PlanFollowed(c) ==
    /\ \A i, j \in DOMAIN order[c] : order[c][i] = order[c][j] => i = j
    /\ Len(tried[c]) <= Len(order[c])
    /\ \A i \in 1..Len(tried[c]) : tried[c][i].resolver = order[c][i]
    /\ phase[c] \in {"idle", "queued"} => order[c] = << >> /\ reply[c] = NoReply
    /\ phase[c] = "calling" =>
         /\ Len(tried[c]) < Len(order[c]) /\ reply[c] = NoReply
         /\ \A i \in 1..Len(tried[c]) : tried[c][i].outcome # "accepted"

\* A request that has arrived has a number.
Numbered(c) == phase[c] # "idle" => id[c] \in 1..issued

IInv ==
    /\ TypeOK /\ index \in Indexes
    /\ TurnsIssued
    /\ RotationFair
    /\ \A c \in Clients : PlanFollowed(c) /\ Numbered(c)

-----------------------------------------------------------------------------
(* Operators. *)

\* A turn of resolver rotation + 1 keeps the turns of any two balanced.
LEMMA TurnTaken ==
    ASSUME NEW n \in Nat \ {0}, NEW old \in 0..(n - 1), NEW i \in 1..n, NEW j \in 1..n,
           NEW a \in Nat, NEW b \in Nat,
           a - b = (IF i <= old THEN 1 ELSE 0) - (IF j <= old THEN 1 ELSE 0),
           NEW new, new = IF old + 1 = n THEN 0 ELSE old + 1
    PROVE  (a + (IF i = old + 1 THEN 1 ELSE 0)) - (b + (IF j = old + 1 THEN 1 ELSE 0))
             = (IF i <= new THEN 1 ELSE 0) - (IF j <= new THEN 1 ELSE 0)
<1>1. CASE old + 1 = n
  BY <1>1
<1>2. CASE old + 1 # n
  BY <1>2
<1> QED
  BY <1>1, <1>2

LEMMA ResolversAre ==
    /\ Len(Resolvers) \in Nat \ {0}
    /\ DOMAIN Resolvers = 1..Len(Resolvers)
    /\ \A i \in 1..Len(Resolvers) : Resolvers[i] \in Ids
    /\ Resolvers \in Seq(Ids)
  BY MockAssumption DEF Ids

\* telemetry.py: the deque keeps the type of its entries.
LEMMA PushedType ==
    ASSUME NEW S, NEW s \in Seq(S), NEW e \in S
    PROVE  Pushed(s, e) \in Seq(S)
<1>1. CASE Len(s) < MemoryLimit
  BY <1>1 DEF Pushed
<1>2. CASE ~(Len(s) < MemoryLimit)
  <2>1. s # << >>
    BY <1>2, IndexAssumption
  <2>2. Tail(s) \in Seq(S)
    BY <2>1
  <2> QED
    BY <1>2, <2>2 DEF Pushed
<1> QED
  BY <1>1, <1>2

\* Recording an attempt or a request keeps the type of the index.
LEMMA IndexTypes ==
    /\ EmptyIndex \in Indexes
    /\ \A x \in Indexes, r \in 1..MaxRequests, a \in Attempts :
         RecordAttempt(x, r, a) \in Indexes
    /\ \A x \in Indexes, entry \in Records : RecordRequest(x, entry) \in Indexes
<1>1. EmptyIndex \in Indexes
  <2>1. << >> \in [{} -> Seq(Attempts)]
    OBVIOUS
  <2>2. {} \in SUBSET (1..MaxRequests)
    OBVIOUS
  <2>3. << >> \in UNION {[D -> Seq(Attempts)] : D \in SUBSET (1..MaxRequests)}
    BY <2>1, <2>2
  <2> QED
    BY <2>3, SMTT(20) DEF EmptyIndex, Indexes
<1>2. ASSUME NEW x \in Indexes, NEW r \in 1..MaxRequests, NEW a \in Attempts
      PROVE  RecordAttempt(x, r, a) \in Indexes
  <2> DEFINE bucket == BucketOf(x, r)
             order1 == IF bucket = << >> THEN Pushed(x.order, r) ELSE x.order
             live == IF bucket = << >> THEN Entries(order1) ELSE DOMAIN x.buckets
             new == Append(bucket, a)
             D == (DOMAIN x.buckets \cup {r}) \cap live
  <2>1. x.buckets \in [DOMAIN x.buckets -> Seq(Attempts)] /\ DOMAIN x.buckets \in SUBSET (1..MaxRequests)
    BY DEF Indexes
  <2>2. new \in Seq(Attempts)
    <3>1. bucket \in Seq(Attempts)
      BY <2>1 DEF BucketOf
    <3> QED
      BY <3>1
  <2>3. order1 \in Seq(1..MaxRequests)
    BY PushedType DEF Indexes
  <2>4. Kept(x, live, r, new) \in [D -> Seq(Attempts)] /\ D \in SUBSET (1..MaxRequests)
    <3> HIDE DEF new, live
    <3> QED
      BY <2>1, <2>2 DEF Kept
  <2>5. RecordAttempt(x, r, a) = [x EXCEPT !.order = order1, !.buckets = Kept(x, live, r, new)]
    BY DEF RecordAttempt
  <2> HIDE DEF order1, live, new, D
  <2> QED
    BY <2>3, <2>4, <2>5 DEF Indexes
<1>3. ASSUME NEW x \in Indexes, NEW entry \in Records
      PROVE  RecordRequest(x, entry) \in Indexes
  <2>1. Pushed(x.requests, entry) \in Seq(Records)
    BY PushedType DEF Indexes
  <2> QED
    BY <2>1 DEF RecordRequest, Indexes
<1> QED
  BY <1>1, <1>2, <1>3

LEMMA IndexTyped ==
    ASSUME NEW x \in Indexes
    PROVE  /\ x.requests \in Seq(Records)
           /\ \A r \in DOMAIN x.buckets : r \in 1..MaxRequests /\ x.buckets[r] \in Seq(Attempts)
  BY DEF Indexes

\* A plan names configured resolvers, each once, and at least one.
LEMMA PlannedIs ==
    ASSUME rotation \in 0..(Len(Resolvers) - 1), NEW policy \in Known
    PROVE  /\ Planned(policy) \in Seq(Ids) /\ Len(Planned(policy)) \in Nat \ {0}
           /\ \A i, j \in DOMAIN Planned(policy) :
                Planned(policy)[i] = Planned(policy)[j] => i = j
<1>1. Resolvers[rotation + 1] \in Ids /\ Target \in Ids
  BY ResolversAre, MockAssumption
<1>2. CASE policy = "single-static"
  BY <1>1, <1>2 DEF Planned
<1>3. CASE policy = "round-robin"
  BY <1>1, <1>3 DEF Planned
<1>4. CASE policy = "sequential-failover"
  BY <1>4, ResolversAre, MockAssumption DEF Planned
<1> QED
  BY <1>2, <1>3, <1>4 DEF Known

\* policies.py RoundRobinPolicy: the index wraps at the end of the list.
LEMMA AdvancedIs ==
    ASSUME rotation \in 0..(Len(Resolvers) - 1)
    PROVE  /\ Advanced = IF rotation + 1 = Len(Resolvers) THEN 0 ELSE rotation + 1
           /\ Advanced \in 0..(Len(Resolvers) - 1)
<1> DEFINE n == Len(Resolvers)
<1>1. n \in Nat \ {0} /\ rotation \in 0..(n - 1)
  BY ResolversAre
<1> HIDE DEF n
<1>2. CASE rotation + 1 = n
  <2>1. (rotation + 1) % n = 0
    BY <1>1, <1>2
  <2> QED
    BY <1>1, <1>2, <2>1 DEF Advanced, n
<1>3. CASE rotation + 1 # n
  <2>1. (rotation + 1) % n = rotation + 1
    BY <1>1, <1>3
  <2> QED
    BY <1>1, <1>3, <2>1 DEF Advanced, n
<1> QED
  BY <1>2, <1>3

\* The number of requests that wait for their plan.
LEMMA QueuedFinite ==
    /\ IsFiniteSet(Queued) /\ Cardinality(Queued) \in Nat
    /\ \A c \in Clients : /\ c \in Queued =>
                               Cardinality(Queued \ {c}) = Cardinality(Queued) - 1
                          /\ c \notin Queued =>
                               Cardinality(Queued \cup {c}) = Cardinality(Queued) + 1
<1>1. IsFiniteSet(Queued)
  BY MockAssumption, FS_Subset DEF Queued
<1> HIDE DEF Queued
<1> QED
  BY <1>1, FS_CardinalityType, FS_AddElement, FS_RemoveElement

(***************************************************************************)
(* The inductive steps.                                                    *)
(***************************************************************************)

\* A step of one client, seen by the others.
SameHandler(c) ==
    /\ phase'[c] = phase[c] /\ id'[c] = id[c] /\ order'[c] = order[c]
    /\ tried'[c] = tried[c] /\ reply'[c] = reply[c]

LEMMA OtherHandlers ==
    ASSUME NEW c \in Clients, SameHandler(c), PlanFollowed(c), Numbered(c),
           issued \in Nat, issued' \in Nat, issued <= issued'
    PROVE  PlanFollowed(c)' /\ Numbered(c)'
<1>1. PlanFollowed(c)'
  BY DEF SameHandler, PlanFollowed
<1>2. Numbered(c)'
  BY DEF SameHandler, Numbered
<1> QED
  BY <1>1, <1>2

\* The rotation is fair if it and the turns do not change.
LEMMA SameRotation ==
    ASSUME RotationFair, UNCHANGED <<rotation, turns>>
    PROVE  RotationFair'
  BY DEF RotationFair

LEMMA InitInv == Init => IInv
<1> SUFFICES ASSUME Init PROVE IInv
  OBVIOUS
<1>1. index \in Indexes
  BY IndexTypes DEF Init
<1>2. TypeOK
  BY <1>1, IndexTyped, MockAssumption, ResolversAre DEF Init, TypeOK, NoReply
<1>3. TurnsIssued
  <2>1. Queued = {}
    BY DEF Init, Queued
  <2> QED
    BY <2>1, FS_EmptySet DEF Init, TurnsIssued
<1>4. RotationFair
  BY ResolversAre DEF Init, RotationFair
<1>5. \A c \in Clients : PlanFollowed(c) /\ Numbered(c)
  BY DEF Init, PlanFollowed, Numbered
<1> QED
  BY <1>1, <1>2, <1>3, <1>4, <1>5 DEF IInv

LEMMA SubmitInv ==
    ASSUME IInv, NEW c \in Clients, Submit(c)
    PROVE  IInv'
<1>0. TypeOK
  BY DEF IInv
<1>1. PICK a \in Asks : ask' = [ask EXCEPT ![c] = a]
  BY DEF Submit
<1>2. /\ phase[c] \in {"idle", "answered"} /\ issued < MaxRequests /\ issued' = issued + 1
      /\ id' = [id EXCEPT ![c] = issued + 1] /\ phase' = [phase EXCEPT ![c] = "queued"]
      /\ order' = [order EXCEPT ![c] = << >>] /\ tried' = [tried EXCEPT ![c] = << >>]
      /\ reply' = [reply EXCEPT ![c] = NoReply]
      /\ UNCHANGED <<index, journal, ledger, rotation, turns>>
  BY DEF Submit, sink
<1>3. issued' \in 0..MaxRequests /\ issued \in Nat
  BY <1>0, <1>2, MockAssumption DEF TypeOK
<1>4. TypeOK'
  <2>1. ask' \in [Clients -> Asks \cup {None}]
    BY <1>0, <1>1 DEF TypeOK
  <2>2. id' \in [Clients -> 0..MaxRequests] /\ phase' \in [Clients -> {"idle", "queued", "calling", "answered"}]
    BY <1>0, <1>2, <1>3 DEF TypeOK
  <2>3. << >> \in Seq(Ids) /\ << >> \in Seq(Attempts)
    OBVIOUS
  <2>4. order' \in [Clients -> Seq(Ids)] /\ tried' \in [Clients -> Seq(Attempts)]
    BY <1>0, <1>2, <2>3 DEF TypeOK
  <2>5. reply' \in [Clients -> [kind : {"none", "refused", "ok", "noAcceptableResult", "crashed"},
                                returned : Ids \cup {None}]]
    BY <1>0, <1>2 DEF TypeOK, NoReply
  <2> QED
    BY <1>0, <1>2, <1>3, <2>1, <2>2, <2>4, <2>5 DEF TypeOK
<1>5. TurnsIssued'
  <2>1. Queued' = Queued \cup {c} /\ c \notin Queued
    BY <1>0, <1>2 DEF Queued, TypeOK
  <2>2. Cardinality(Queued') = Cardinality(Queued) + 1 /\ Cardinality(Queued) \in Nat
    BY <2>1, QueuedFinite
  <2>3. \A r \in Ids : turns[r] \in Nat
    BY <1>0 DEF TypeOK
  <2> HIDE DEF Queued
  <2> QED
    BY <1>2, <1>3, <2>2, <2>3 DEF IInv, TurnsIssued
<1>6. \A e \in Clients : PlanFollowed(e)' /\ Numbered(e)'
  <2>1. ASSUME NEW e \in Clients, e # c PROVE PlanFollowed(e)' /\ Numbered(e)'
    <3>1. SameHandler(e)
      BY <1>0, <1>2, <2>1 DEF SameHandler, TypeOK
    <3> QED
      BY <1>2, <1>3, <3>1, OtherHandlers DEF IInv
  <2>2. /\ phase'[c] = "queued" /\ order'[c] = << >> /\ tried'[c] = << >>
        /\ reply'[c] = NoReply /\ id'[c] = issued'
    BY <1>0, <1>2 DEF TypeOK
  <2>3. PlanFollowed(c)' /\ Numbered(c)'
    BY <1>2, <1>3, <2>2 DEF PlanFollowed, Numbered
  <2> QED
    BY <2>1, <2>3
<1>7. RotationFair' /\ index' \in Indexes
  BY <1>2, SameRotation DEF IInv
<1> QED
  BY <1>4, <1>5, <1>6, <1>7 DEF IInv

LEMMA StartInv ==
    ASSUME IInv, NEW c \in Clients, Start(c)
    PROVE  IInv'
<1>0. TypeOK
  BY DEF IInv
<1> DEFINE plan == Planned(ask[c])
<1>1. /\ phase[c] = "queued" /\ ask[c] \in Known
      /\ order' = [order EXCEPT ![c] = plan] /\ phase' = [phase EXCEPT ![c] = "calling"]
      /\ UNCHANGED <<index, journal, ledger, issued, ask, id, tried, reply>>
  BY DEF Start, sink
<1>2. /\ plan \in Seq(Ids) /\ Len(plan) \in Nat \ {0}
      /\ \A i, j \in DOMAIN plan : plan[i] = plan[j] => i = j
  BY <1>0, <1>1, PlannedIs DEF TypeOK
<1>3. order[c] = << >> /\ reply[c] = NoReply /\ tried[c] = << >>
  <2>1. /\ order[c] = << >> /\ reply[c] = NoReply
        /\ Len(tried[c]) <= Len(order[c]) /\ tried[c] \in Seq(Attempts)
    BY <1>0, <1>1 DEF IInv, PlanFollowed, TypeOK
  <2>2. Len(tried[c]) = 0
    BY <2>1
  <2> QED
    BY <2>1, <2>2
<1> HIDE DEF plan
<1>4. Queued' = Queued \ {c} /\ c \in Queued
  BY <1>0, <1>1 DEF Queued, TypeOK
<1>5. Cardinality(Queued') = Cardinality(Queued) - 1 /\ Cardinality(Queued) \in Nat
  BY <1>4, QueuedFinite
<1> DEFINE n == Len(Resolvers)
           r == Resolvers[rotation + 1]
<1>6. /\ n \in Nat \ {0} /\ rotation \in 0..(n - 1) /\ r \in Ids
      /\ \A i \in 1..n : Resolvers[i] \in Ids
      /\ \A i \in 1..n : (Resolvers[i] = r) <=> (i = rotation + 1)
      /\ DOMAIN Resolvers = 1..n
  <2>1. /\ n \in Nat \ {0} /\ rotation \in 0..(n - 1) /\ DOMAIN Resolvers = 1..n
        /\ \A i \in 1..n : Resolvers[i] \in Ids
    BY <1>0, ResolversAre DEF TypeOK
  <2>2. rotation + 1 \in 1..n
    BY <2>1
  <2>3. \A i \in 1..n : (Resolvers[i] = r) <=> (i = rotation + 1)
    BY <2>1, <2>2, MockAssumption
  <2> QED
    BY <2>1, <2>2, <2>3
<1>7. /\ turns \in [Ids -> 0..MaxRequests] /\ issued \in 0..MaxRequests
      /\ \A q \in Ids : turns[q] + Cardinality(Queued) <= issued
  BY <1>0 DEF IInv, TurnsIssued, TypeOK
<1>8. ASSUME ask[c] = "round-robin"
      PROVE  /\ rotation' \in 0..(n - 1) /\ turns' \in [Ids -> 0..MaxRequests]
             /\ RotationFair' /\ TurnsIssued'
  <2>1. rotation' = Advanced /\ turns' = [turns EXCEPT ![r] = @ + 1]
    BY <1>8 DEF Start
  <2>2. /\ rotation' = IF rotation + 1 = n THEN 0 ELSE rotation + 1
        /\ rotation' \in 0..(n - 1)
    BY <1>6, <2>1, AdvancedIs
  <2> HIDE DEF n, r, Queued
  <2>3. turns' \in [Ids -> 0..MaxRequests]
    <3>1. turns[r] + 1 \in 0..MaxRequests
      <4>1. turns[r] \in 0..MaxRequests /\ turns[r] + Cardinality(Queued) <= issued
        BY <1>6, <1>7
      <4>2. Cardinality(Queued') \in Nat
        BY <1>4, QueuedFinite, FS_RemoveElement, FS_CardinalityType
      <4> QED
        BY <1>5, <1>7, <4>1, <4>2, MockAssumption, SMTT(20)
    <3> QED
      BY <1>7, <2>1, <3>1
  <2>4. \A q \in Ids : turns'[q] = IF q = r THEN turns[q] + 1 ELSE turns[q]
    BY <1>6, <1>7, <2>1
  <2>5. TurnsIssued'
    <3>1. ASSUME NEW q \in Ids PROVE turns'[q] + Cardinality(Queued') <= issued'
      <4>1. turns[q] \in 0..MaxRequests /\ turns[q] + Cardinality(Queued) <= issued
        BY <1>7
      <4>2. turns'[q] \in Nat /\ turns'[q] <= turns[q] + 1
        BY <2>4, <4>1
      <4>3. issued \in Nat /\ issued' = issued
        BY <1>1, <1>7
      <4> QED
        BY <1>5, <4>1, <4>2, <4>3
    <3> QED
      BY <3>1 DEF TurnsIssued
  <2>6. RotationFair'
    <3> SUFFICES ASSUME NEW i \in 1..n, NEW j \in 1..n
                 PROVE  turns'[Resolvers[i]] - turns'[Resolvers[j]]
                          = (IF i <= rotation' THEN 1 ELSE 0) - (IF j <= rotation' THEN 1 ELSE 0)
      BY <1>6 DEF RotationFair
    <3>1. turns[Resolvers[i]] - turns[Resolvers[j]]
            = (IF i <= rotation THEN 1 ELSE 0) - (IF j <= rotation THEN 1 ELSE 0)
      BY <1>6 DEF IInv, RotationFair
    <3>2. /\ turns'[Resolvers[i]] = turns[Resolvers[i]] + (IF i = rotation + 1 THEN 1 ELSE 0)
          /\ turns'[Resolvers[j]] = turns[Resolvers[j]] + (IF j = rotation + 1 THEN 1 ELSE 0)
          /\ turns[Resolvers[i]] \in Nat /\ turns[Resolvers[j]] \in Nat
      BY <1>6, <1>7, <2>4
    <3> DEFINE a == turns[Resolvers[i]]
               b == turns[Resolvers[j]]
    <3>3. (a + (IF i = rotation + 1 THEN 1 ELSE 0)) - (b + (IF j = rotation + 1 THEN 1 ELSE 0))
            = (IF i <= rotation' THEN 1 ELSE 0) - (IF j <= rotation' THEN 1 ELSE 0)
      <4>1. /\ a \in Nat /\ b \in Nat
            /\ a - b = (IF i <= rotation THEN 1 ELSE 0) - (IF j <= rotation THEN 1 ELSE 0)
        BY <3>1, <3>2
      <4> HIDE DEF a, b
      <4> QED
        BY <1>6, <2>2, <4>1, TurnTaken
    <3> QED
      BY <3>2, <3>3
  <2> QED
    BY <2>2, <2>3, <2>5, <2>6
<1>9. ASSUME ask[c] # "round-robin"
      PROVE  /\ rotation' \in 0..(n - 1) /\ turns' \in [Ids -> 0..MaxRequests]
             /\ RotationFair' /\ TurnsIssued'
  <2>1. UNCHANGED <<rotation, turns>>
    BY <1>9 DEF Start
  <2>2. RotationFair'
    BY <2>1, SameRotation DEF IInv
  <2>3. TurnsIssued'
    <3>1. \A q \in Ids : turns[q] \in Nat
      BY <1>7
    <3>2. issued \in Nat
      BY <1>7
    <3> HIDE DEF Queued
    <3> QED
      BY <1>1, <1>5, <1>7, <2>1, <3>1, <3>2 DEF TurnsIssued
  <2> QED
    BY <1>6, <1>7, <2>1, <2>2, <2>3
<1>10. /\ rotation' \in 0..(Len(Resolvers) - 1) /\ turns' \in [Ids -> 0..MaxRequests]
       /\ RotationFair' /\ TurnsIssued'
  BY <1>8, <1>9
<1>11. TypeOK'
  <2>1. order' \in [Clients -> Seq(Ids)]
    BY <1>0, <1>1, <1>2 DEF TypeOK
  <2>2. phase' \in [Clients -> {"idle", "queued", "calling", "answered"}]
    BY <1>0, <1>1 DEF TypeOK
  <2> QED
    BY <1>0, <1>1, <1>10, <2>1, <2>2 DEF TypeOK
<1>12. \A e \in Clients : PlanFollowed(e)' /\ Numbered(e)'
  <2>1. ASSUME NEW e \in Clients, e # c PROVE PlanFollowed(e)' /\ Numbered(e)'
    <3>1. SameHandler(e)
      BY <1>0, <1>1, <2>1 DEF SameHandler, TypeOK
    <3> QED
      BY <1>1, <1>7, <3>1, OtherHandlers DEF IInv
  <2>2. /\ phase'[c] = "calling" /\ order'[c] = plan /\ tried'[c] = << >>
        /\ reply'[c] = NoReply /\ id'[c] = id[c] /\ issued' = issued
    BY <1>0, <1>1, <1>3 DEF TypeOK
  <2>3. Len(tried'[c]) = 0
    BY <2>2
  <2>4. PlanFollowed(c)'
    BY <1>2, <2>2, <2>3 DEF PlanFollowed
  <2>5. Numbered(c)'
    BY <1>1, <2>2 DEF IInv, Numbered
  <2> QED
    BY <2>1, <2>4, <2>5
<1> QED
  BY <1>1, <1>10, <1>11, <1>12 DEF IInv

\* An answer leaves the plan, its number and the rotation alone.
LEMMA AnswerInv ==
    ASSUME IInv, NEW c \in Clients, phase[c] \in {"queued", "calling"},
           phase' = [phase EXCEPT ![c] = "answered"],
           UNCHANGED <<rotation, turns, issued, ask, id, order>>
    PROVE  TurnsIssued' /\ RotationFair'
<1>1. \/ Queued' = Queued
      \/ \E e \in Queued : Queued' = Queued \ {e}
  BY ZenonT(30) DEF IInv, TypeOK, Queued
<1>2. Cardinality(Queued') <= Cardinality(Queued) /\ Cardinality(Queued) \in Nat
      /\ Cardinality(Queued') \in Nat
  <2>1. Queued \subseteq Clients
    BY DEF Queued
  <2> HIDE DEF Queued
  <2>2. CASE Queued' = Queued
    BY <2>2, QueuedFinite
  <2>3. CASE \E e \in Queued : Queued' = Queued \ {e}
    BY <2>1, <2>3, QueuedFinite, FS_RemoveElement, FS_CardinalityType
  <2> QED
    BY <1>1, <2>2, <2>3
<1>3. \A r \in Ids : turns[r] \in Nat
  BY DEF IInv, TypeOK
<1>4. issued \in Nat
  BY DEF IInv, TypeOK
<1> HIDE DEF Queued
<1> QED
  BY <1>2, <1>3, <1>4, SameRotation DEF IInv, TurnsIssued

\* What becomes of a call: the attempt, and the answer if there is one.
ReturnEffect(c, outcome, attempt) ==
    /\ tried' = [tried EXCEPT ![c] = Append(@, attempt)]
    /\ IF Ends(c, outcome)
       THEN /\ phase' = [phase EXCEPT ![c] = "answered"]
            /\ reply' = [reply EXCEPT ![c] =
                           IF outcome = "accepted"
                           THEN [kind |-> "ok", returned |-> Called(c)]
                           ELSE [kind |-> "noAcceptableResult", returned |-> None]]
       ELSE UNCHANGED <<phase, reply>>

LEMMA ReturnParts ==
    ASSUME IInv, NEW c \in Clients, Return(c)
    PROVE  /\ phase[c] = "calling" /\ UNCHANGED <<rotation, turns, issued, ask, id, order>>
           /\ \E outcome \in {"accepted", "unacceptable"}, attempt \in Attempts :
                /\ attempt.resolver = Called(c) /\ attempt.outcome = outcome
                /\ ReturnEffect(c, outcome, attempt)
           /\ index' \in Indexes /\ journal' \in Seq(Attempts) /\ ledger' \in Seq(Records)
<1> DEFINE attempt(o) == [id |-> id[c], number |-> Len(tried[c]),
                          resolver |-> Called(c), outcome |-> o]
           recorded(o) == RecordAttempt(index, id[c], attempt(o))
           entry(o) == [id |-> id[c], count |-> Len(tried[c]) + 1,
                         success |-> o = "accepted"]
<1>1. PICK o \in Outcomes \ {"raised"} :
        /\ tried' = [tried EXCEPT ![c] = Append(@, attempt(o))]
        /\ journal' = Append(journal, attempt(o))
        /\ IF Ends(c, o)
           THEN /\ index' = RecordRequest(recorded(o), entry(o))
                /\ ledger' = Append(ledger, entry(o))
                /\ IF o = "accepted"
                   THEN Answer(c, "ok", Called(c))
                   ELSE Answer(c, "noAcceptableResult", None)
           ELSE /\ index' = recorded(o)
                /\ UNCHANGED <<ledger, phase, reply>>
  BY DEF Return
<1>2. phase[c] = "calling" /\ UNCHANGED <<rotation, turns, issued, ask, id, order>>
  BY DEF Return
<1>3. o \in {"accepted", "unacceptable"}
  BY DEF Outcomes
<1>4. /\ order[c] \in Seq(Ids) /\ tried[c] \in Seq(Attempts)
      /\ Len(tried[c]) < Len(order[c]) /\ id[c] \in 1..MaxRequests
      /\ index \in Indexes /\ journal \in Seq(Attempts) /\ ledger \in Seq(Records)
  <2>1. id[c] \in 1..issued /\ issued \in 0..MaxRequests
    BY <1>2 DEF IInv, Numbered, TypeOK
  <2> QED
    BY <1>2, <2>1, MockAssumption DEF IInv, PlanFollowed, TypeOK
<1>5. Called(c) \in Ids
  <2>1. Len(tried[c]) + 1 \in 1..Len(order[c])
    BY <1>4
  <2> QED
    BY <1>4, <2>1 DEF Called
<1>6. attempt(o) \in Attempts /\ attempt(o).resolver = Called(c) /\ attempt(o).outcome = o
  BY <1>3, <1>4, <1>5 DEF Attempts
<1>7. entry(o) \in Records
  BY <1>4 DEF Records
<1>8. recorded(o) \in Indexes
  <2> DEFINE a == attempt(o)
  <2>1. a \in Attempts
    BY <1>6
  <2> HIDE DEF attempt, a
  <2> QED
    BY <1>4, <2>1, IndexTypes DEF a
<1> HIDE DEF attempt, recorded, entry
<1>9. RecordRequest(recorded(o), entry(o)) \in Indexes
  BY <1>7, <1>8, IndexTypes
<1>10. index' \in Indexes /\ journal' \in Seq(Attempts) /\ ledger' \in Seq(Records)
  <2>1. index' \in Indexes
    BY <1>1, <1>8, <1>9
  <2>2. journal' \in Seq(Attempts)
    BY <1>1, <1>4, <1>6, AppendProperties
  <2>3. ledger' \in Seq(Records)
    <3>1. Append(ledger, entry(o)) \in Seq(Records)
      BY <1>4, <1>7, AppendProperties
    <3> QED
      BY <1>1, <1>4, <3>1
  <2> QED
    BY <2>1, <2>2, <2>3
<1>11. ReturnEffect(c, o, attempt(o))
  BY <1>1 DEF ReturnEffect, Answer
<1> QED
  BY <1>2, <1>3, <1>6, <1>10, <1>11

\* The attempts after a call, which follow the plan like those before it.
LEMMA TriedGrows ==
    ASSUME TypeOK, NEW c \in Clients, PlanFollowed(c), phase[c] = "calling",
           NEW a \in Attempts, a.resolver = Called(c)
    PROVE  LET new == Append(tried[c], a)
               n == Len(tried[c])
           IN  /\ new \in Seq(Attempts) /\ Len(new) = n + 1 /\ n \in Nat
               /\ n + 1 <= Len(order[c]) /\ new[n + 1] = a
               /\ \A i \in 1..n : new[i] = tried[c][i]
               /\ \A i \in 1..(n + 1) : new[i].resolver = order[c][i]
<1> DEFINE s == tried[c]
           n == Len(s)
           new == Append(s, a)
<1>1. s \in Seq(Attempts) /\ n \in Nat /\ order[c] \in Seq(Ids)
  BY DEF TypeOK
<1>2. n < Len(order[c]) /\ \A i \in 1..n : s[i].resolver = order[c][i]
  BY DEF PlanFollowed
<1>3. a.resolver = order[c][n + 1]
  BY DEF Called
<1> HIDE DEF s
<1>4. /\ new \in Seq(Attempts) /\ Len(new) = n + 1 /\ new[n + 1] = a
      /\ \A i \in 1..n : new[i] = s[i]
  BY <1>1, AppendProperties
<1>5. Len(order[c]) \in Nat
  BY <1>1
<1> HIDE DEF new, n
<1>6. \A i \in 1..(n + 1) : new[i].resolver = order[c][i]
  BY <1>1, <1>2, <1>3, <1>4
<1> QED
  BY <1>1, <1>2, <1>4, <1>5, <1>6, SMTT(20) DEF new, n, s

LEMMA ReturnInv ==
    ASSUME IInv, NEW c \in Clients, Return(c)
    PROVE  IInv'
<1>0. TypeOK /\ PlanFollowed(c) /\ Numbered(c)
  BY DEF IInv
<1>1. /\ phase[c] = "calling" /\ UNCHANGED <<rotation, turns, issued, ask, id, order>>
      /\ index' \in Indexes /\ journal' \in Seq(Attempts) /\ ledger' \in Seq(Records)
  BY ReturnParts
<1>2. PICK o \in {"accepted", "unacceptable"}, a \in Attempts :
        a.resolver = Called(c) /\ a.outcome = o /\ ReturnEffect(c, o, a)
  BY ReturnParts
<1> DEFINE new == Append(tried[c], a)
           n == Len(tried[c])
<1>3. /\ new \in Seq(Attempts) /\ Len(new) = n + 1 /\ n \in Nat
      /\ n + 1 <= Len(order[c]) /\ new[n + 1] = a
      /\ \A i \in 1..n : new[i] = tried[c][i]
      /\ \A i \in 1..(n + 1) : new[i].resolver = order[c][i]
  BY <1>0, <1>1, <1>2, TriedGrows
<1>4. tried' = [tried EXCEPT ![c] = new]
  BY <1>2 DEF ReturnEffect
<1>5. Called(c) \in Ids
  BY <1>2 DEF Attempts
<1> HIDE DEF new, n
<1>6. \/ phase' = phase /\ reply' = reply /\ ~Ends(c, o)
      \/ /\ phase' = [phase EXCEPT ![c] = "answered"]
         /\ \E x \in [kind : {"none", "refused", "ok", "noAcceptableResult", "crashed"},
                      returned : Ids \cup {None}] : reply' = [reply EXCEPT ![c] = x]
  BY <1>2, <1>5 DEF ReturnEffect
<1>7. TypeOK'
  <2>1. tried' \in [Clients -> Seq(Attempts)]
    BY <1>0, <1>3, <1>4 DEF TypeOK
  <2>2. phase' \in [Clients -> {"idle", "queued", "calling", "answered"}]
    BY <1>0, <1>6 DEF TypeOK
  <2>3. reply' \in [Clients -> [kind : {"none", "refused", "ok", "noAcceptableResult", "crashed"},
                                returned : Ids \cup {None}]]
    BY <1>0, <1>6 DEF TypeOK
  <2>4. /\ index'.requests \in Seq(Records)
        /\ \A r \in DOMAIN index'.buckets :
             r \in 1..MaxRequests /\ index'.buckets[r] \in Seq(Attempts)
    BY <1>1, IndexTyped
  <2> QED
    BY <1>0, <1>1, <2>1, <2>2, <2>3, <2>4 DEF TypeOK
<1>8. TurnsIssued' /\ RotationFair'
  <2>1. CASE phase' = phase
    BY <1>1, <2>1, SameRotation DEF IInv, TurnsIssued, Queued
  <2>2. CASE phase' = [phase EXCEPT ![c] = "answered"]
    BY <1>1, <2>2, AnswerInv
  <2> QED
    BY <1>6, <2>1, <2>2
<1>9. \A e \in Clients : PlanFollowed(e)' /\ Numbered(e)'
  <2>1. ASSUME NEW e \in Clients, e # c PROVE PlanFollowed(e)' /\ Numbered(e)'
    <3>1. SameHandler(e)
      BY <1>0, <1>1, <1>4, <1>6, <2>1 DEF SameHandler, TypeOK
    <3>2. issued \in Nat
      BY <1>0 DEF TypeOK
    <3> QED
      BY <1>1, <3>1, <3>2, OtherHandlers DEF IInv
  <2>2. tried'[c] = new /\ order'[c] = order[c] /\ id'[c] = id[c] /\ issued' = issued
    BY <1>0, <1>1, <1>4 DEF TypeOK
  <2>3. /\ \A i, j \in DOMAIN order'[c] : order'[c][i] = order'[c][j] => i = j
        /\ Len(tried'[c]) <= Len(order'[c])
        /\ \A i \in 1..Len(tried'[c]) : tried'[c][i].resolver = order'[c][i]
    BY <1>0, <1>3, <2>2 DEF PlanFollowed
  <2>4. ASSUME phase' = phase, reply' = reply, ~Ends(c, o)
        PROVE  PlanFollowed(c)' /\ Numbered(c)'
    <3>1. a.outcome # "accepted" /\ n + 1 # Len(order[c])
      BY <1>2, <2>4 DEF Ends, n
    <3>2. /\ reply[c] = NoReply
          /\ \A i \in 1..n : tried[c][i].outcome # "accepted"
      BY <1>0, <1>1 DEF PlanFollowed, n
    <3>3. Len(order[c]) \in Nat
      BY <1>0 DEF TypeOK
    <3>4. \A i \in 1..(n + 1) : new[i].outcome # "accepted"
      BY <1>3, <3>1, <3>2
    <3>5. Len(tried'[c]) < Len(order'[c])
      BY <1>3, <2>2, <3>1, <3>3
    <3>6. phase'[c] = "calling" /\ reply'[c] = NoReply
      BY <1>1, <2>4, <3>2
    <3>7. \A i \in 1..Len(tried'[c]) : tried'[c][i].outcome # "accepted"
      BY <1>3, <2>2, <3>4
    <3>8. PlanFollowed(c)'
      BY <2>3, <3>5, <3>6, <3>7 DEF PlanFollowed
    <3>9. Numbered(c)'
      BY <1>0, <1>1, <2>2 DEF Numbered
    <3> QED
      BY <3>8, <3>9
  <2>5. ASSUME phase' = [phase EXCEPT ![c] = "answered"]
        PROVE  PlanFollowed(c)' /\ Numbered(c)'
    <3>1. phase'[c] = "answered"
      BY <1>0, <2>5 DEF TypeOK
    <3>2. PlanFollowed(c)'
      BY <2>3, <3>1 DEF PlanFollowed
    <3>3. Numbered(c)'
      BY <1>0, <1>1, <2>2 DEF Numbered
    <3> QED
      BY <3>2, <3>3
  <2> QED
    BY <1>6, <2>1, <2>4, <2>5
<1> QED
  BY <1>1, <1>7, <1>8, <1>9 DEF IInv

\* The answers without a call, or after an exception.
LEMMA AnsweredInv ==
    ASSUME IInv, NEW c \in Clients, Refuse(c) \/ Raise(c)
    PROVE  IInv'
<1>0. TypeOK
  BY DEF IInv
<1>1. /\ phase[c] \in {"queued", "calling"} /\ phase' = [phase EXCEPT ![c] = "answered"]
      /\ \E kind \in {"refused", "crashed"} :
           reply' = [reply EXCEPT ![c] = [kind |-> kind, returned |-> None]]
      /\ UNCHANGED <<index, journal, ledger, rotation, turns, issued, ask, id, order, tried>>
  BY DEF Refuse, Raise, Answer, sink, request
<1>2. TypeOK'
  <2>1. phase' \in [Clients -> {"idle", "queued", "calling", "answered"}]
    BY <1>0, <1>1 DEF TypeOK
  <2>2. reply' \in [Clients -> [kind : {"none", "refused", "ok", "noAcceptableResult", "crashed"},
                                returned : Ids \cup {None}]]
    BY <1>0, <1>1 DEF TypeOK
  <2> QED
    BY <1>0, <1>1, <2>1, <2>2 DEF TypeOK
<1>3. TurnsIssued' /\ RotationFair'
  BY <1>1, AnswerInv
<1>4. \A e \in Clients : PlanFollowed(e)' /\ Numbered(e)'
  <2>1. ASSUME NEW e \in Clients, e # c PROVE PlanFollowed(e)' /\ Numbered(e)'
    <3>1. SameHandler(e)
      BY <1>0, <1>1, <2>1 DEF SameHandler, TypeOK
    <3>2. issued \in Nat
      BY <1>0 DEF TypeOK
    <3> QED
      BY <1>1, <3>1, <3>2, OtherHandlers DEF IInv
  <2>2. phase'[c] = "answered"
    BY <1>0, <1>1 DEF TypeOK
  <2>3. PlanFollowed(c)' /\ Numbered(c)'
    BY <1>1, <2>2 DEF IInv, PlanFollowed, Numbered
  <2> QED
    BY <2>1, <2>3
<1> QED
  BY <1>1, <1>2, <1>3, <1>4 DEF IInv

LEMMA ResetInv ==
    ASSUME IInv, Reset
    PROVE  IInv'
<1>0. TypeOK
  BY DEF IInv
<1>1. /\ rotation' = 0 /\ turns' = [r \in Ids |-> 0]
      /\ UNCHANGED <<index, journal, ledger, issued, phase, ask, id, order, tried, reply>>
  BY DEF Reset, sink, request
<1>2. TypeOK'
  BY <1>0, <1>1, ResolversAre, MockAssumption DEF TypeOK
<1>3. RotationFair'
  BY <1>1, ResolversAre DEF RotationFair
<1>4. TurnsIssued'
  <2>1. ASSUME NEW r \in Ids PROVE 0 + Cardinality(Queued) <= issued
    <3>1. turns[r] \in Nat /\ issued \in Nat /\ turns[r] + Cardinality(Queued) <= issued
      BY <1>0 DEF IInv, TurnsIssued, TypeOK
    <3> HIDE DEF Queued
    <3> QED
      BY <3>1, QueuedFinite
  <2> QED
    BY <1>1, <2>1 DEF TurnsIssued, Queued
<1>5. \A e \in Clients : PlanFollowed(e)' /\ Numbered(e)'
  BY <1>1 DEF IInv, PlanFollowed, Numbered
<1> QED
  BY <1>1, <1>2, <1>3, <1>4, <1>5 DEF IInv

(***************************************************************************)
(* The theorems.                                                           *)
(***************************************************************************)

\* The invariant of the baseline router.
THEOREM MockInvariant == Spec => []IInv
<1>1. ASSUME IInv, [Next]_vars PROVE IInv'
  <2>1. ASSUME UNCHANGED vars PROVE IInv'
    <3>1. UNCHANGED <<index, journal, ledger, rotation, turns, issued, phase, ask,
                      id, order, tried, reply>>
      BY <2>1 DEF vars, sink, request
    <3>2. TypeOK' /\ TurnsIssued' /\ RotationFair'
      BY <1>1, <3>1 DEF IInv, TypeOK, TurnsIssued, Queued, RotationFair
    <3>3. \A e \in Clients : PlanFollowed(e)' /\ Numbered(e)'
      BY <1>1, <3>1 DEF IInv, PlanFollowed, Numbered
    <3> QED
      BY <1>1, <3>1, <3>2, <3>3 DEF IInv
  <2>2. ASSUME NEW c \in Clients, Submit(c) \/ Refuse(c) \/ Start(c) \/ Return(c) \/ Raise(c)
        PROVE  IInv'
    BY <1>1, <2>2, SubmitInv, StartInv, ReturnInv, AnsweredInv
  <2>3. CASE Reset
    BY <1>1, <2>3, ResetInv
  <2>4. CASE Finished
    BY <2>1, <2>4 DEF Finished
  <2> QED
    BY <1>1, <2>1, <2>2, <2>3, <2>4 DEF Next
<1> QED
  BY <1>1, InitInv, PTL DEF Spec

\* The variables of the baseline router keep their types; in particular no
\* step reads the next resolver beyond the end of a plan, and the rotation
\* stays within the list of resolvers.
THEOREM MockTypeCorrect == Spec => []TypeOK
  BY MockInvariant, PTL DEF IInv

\* Whatever the number of resolvers, and however requests interleave, fail or
\* end, the round-robin policy plans every resolver equally often, or once
\* more those that the rotation has passed.
THEOREM RotationIsFair == Spec => []RotationFair
  BY MockInvariant, PTL DEF IInv

(***************************************************************************)
(* The promise of ResolutionService.  What a client sees of its request is *)
(* the mapping of Served, one client at a time.                            *)
(***************************************************************************)
StateOf(c) ==
    IF phase[c] = "idle" THEN "idle"
    ELSE IF phase[c] = "answered" THEN "closed" ELSE "open"
ContactedOf(c) ==
    {order[c][i] : i \in
       1..(IF phase[c] = "calling" \/ reply[c].kind = "crashed"
           THEN Len(tried[c]) + 1 ELSE Len(tried[c]))}
HeardOf(c) ==
    IF reply[c].kind = "crashed" THEN {}
    ELSE {tried[c][i].resolver : i \in DOMAIN tried[c]}
GoodOf(c) ==
    {a.resolver : a \in {b \in Entries(tried[c]) : b.outcome = "accepted"}}

ServiceStep == [Served!Next]_Served!vars

\* A step that changes nothing that a client sees.
LEMMA SameServed ==
    ASSUME UNCHANGED <<phase, order, tried, reply>>
    PROVE  ServiceStep
  BY DEF ServiceStep, Served!vars, Entries

\* The step of one client leaves what the others see alone.
LEMMA OthersServed ==
    ASSUME NEW c \in Clients, \A e \in Clients : e # c => SameHandler(e)
    PROVE  /\ [e \in Clients |-> StateOf(e)]'
                = [[e \in Clients |-> StateOf(e)] EXCEPT ![c] = StateOf(c)']
           /\ [e \in Clients |-> ContactedOf(e)]'
                = [[e \in Clients |-> ContactedOf(e)] EXCEPT ![c] = ContactedOf(c)']
           /\ [e \in Clients |-> HeardOf(e)]'
                = [[e \in Clients |-> HeardOf(e)] EXCEPT ![c] = HeardOf(c)']
           /\ [e \in Clients |-> GoodOf(e)]'
                = [[e \in Clients |-> GoodOf(e)] EXCEPT ![c] = GoodOf(c)']
           /\ [e \in Clients |-> reply[e].kind]'
                = [[e \in Clients |-> reply[e].kind] EXCEPT ![c] = reply'[c].kind]
           /\ [e \in Clients |-> reply[e].returned]'
                = [[e \in Clients |-> reply[e].returned] EXCEPT ![c] = reply'[c].returned]
<1>1. \A e \in Clients : e # c =>
        /\ StateOf(e)' = StateOf(e) /\ ContactedOf(e)' = ContactedOf(e)
        /\ HeardOf(e)' = HeardOf(e) /\ GoodOf(e)' = GoodOf(e)
        /\ reply'[e] = reply[e]
  <2> TAKE e \in Clients
  <2> SUFFICES ASSUME SameHandler(e)
               PROVE  /\ StateOf(e)' = StateOf(e) /\ ContactedOf(e)' = ContactedOf(e)
                      /\ HeardOf(e)' = HeardOf(e) /\ GoodOf(e)' = GoodOf(e)
                      /\ reply'[e] = reply[e]
    OBVIOUS
  <2>1. StateOf(e)' = StateOf(e) /\ reply'[e] = reply[e]
    BY DEF SameHandler, StateOf
  <2>2. ContactedOf(e)' = ContactedOf(e)
    BY DEF SameHandler, ContactedOf
  <2>3. HeardOf(e)' = HeardOf(e)
    BY DEF SameHandler, HeardOf
  <2>4. GoodOf(e)' = GoodOf(e)
    BY DEF SameHandler, GoodOf, Entries
  <2> QED
    BY <2>1, <2>2, <2>3, <2>4
<1> HIDE DEF StateOf, ContactedOf, HeardOf, GoodOf
<1> QED
  BY <1>1

\* What a step shows its client, and what Served calls it.
LEMMA LearnServed ==
    ASSUME NEW c \in Clients, \A e \in Clients : e # c => SameHandler(e),
           NEW more \in SUBSET Ids, NEW told \in SUBSET Ids,
           NEW acceptable \in SUBSET told,
           StateOf(c) = "open",
           told \subseteq ContactedOf(c) \ HeardOf(c),
           more # {} => GoodOf(c) \cup acceptable = {},
           ContactedOf(c)' = ContactedOf(c) \cup more,
           HeardOf(c)' = HeardOf(c) \cup told,
           GoodOf(c)' = GoodOf(c) \cup acceptable
    PROVE  Served!Learn(c, more, told, acceptable)
<1>1. /\ [e \in Clients |-> ContactedOf(e)]'
           = [[e \in Clients |-> ContactedOf(e)] EXCEPT ![c] = @ \cup more]
      /\ [e \in Clients |-> HeardOf(e)]'
           = [[e \in Clients |-> HeardOf(e)] EXCEPT ![c] = @ \cup told]
      /\ [e \in Clients |-> GoodOf(e)]'
           = [[e \in Clients |-> GoodOf(e)] EXCEPT ![c] = @ \cup acceptable]
  <2>1. /\ [e \in Clients |-> ContactedOf(e)]'
             = [[e \in Clients |-> ContactedOf(e)] EXCEPT ![c] = ContactedOf(c)']
        /\ [e \in Clients |-> HeardOf(e)]'
             = [[e \in Clients |-> HeardOf(e)] EXCEPT ![c] = HeardOf(c)']
        /\ [e \in Clients |-> GoodOf(e)]'
             = [[e \in Clients |-> GoodOf(e)] EXCEPT ![c] = GoodOf(c)']
    BY OthersServed
  <2> QED
    BY <2>1
<1>2. /\ [e \in Clients |-> StateOf(e)][c] = "open"
      /\ told \subseteq [e \in Clients |-> ContactedOf(e)][c]
                             \ [e \in Clients |-> HeardOf(e)][c]
      /\ more # {} => [e \in Clients |-> GoodOf(e)][c] \cup acceptable = {}
  OBVIOUS
<1> QED
  BY <1>1, <1>2 DEF Served!Learn, StateOf, ContactedOf, HeardOf, GoodOf

LEMMA ProgressServed ==
    ASSUME NEW c \in Clients, \A e \in Clients : e # c => SameHandler(e),
           NEW more \in SUBSET Ids, NEW told \in SUBSET Ids,
           NEW acceptable \in SUBSET told,
           StateOf(c) = "open",
           told \subseteq ContactedOf(c) \ HeardOf(c),
           more # {} => GoodOf(c) \cup acceptable = {},
           ContactedOf(c)' = ContactedOf(c) \cup more,
           HeardOf(c)' = HeardOf(c) \cup told,
           GoodOf(c)' = GoodOf(c) \cup acceptable,
           StateOf(c)' = "open", reply'[c] = reply[c]
    PROVE  ServiceStep
<1>1. \A e \in Clients : StateOf(e)' = StateOf(e) /\ reply'[e] = reply[e]
  BY DEF SameHandler, StateOf
<1>2. [e \in Clients |-> StateOf(e)]' = [e \in Clients |-> StateOf(e)]
  BY <1>1
<1>3. /\ [e \in Clients |-> reply[e].kind]' = [e \in Clients |-> reply[e].kind]
      /\ [e \in Clients |-> reply[e].returned]' = [e \in Clients |-> reply[e].returned]
  BY <1>1
<1>4. acceptable \in SUBSET Ids /\ Served!Learn(c, more, told, acceptable)
  BY LearnServed
<1>5. Served!Progress(c)
  BY <1>2, <1>3, <1>4 DEF Served!Progress, StateOf
<1> QED
  BY <1>5 DEF ServiceStep, Served!Next

LEMMA CloseServed ==
    ASSUME NEW c \in Clients, \A e \in Clients : e # c => SameHandler(e),
           phase'[c] = "answered", NEW CONSTANT kind, NEW CONSTANT winner,
           reply'[c].kind = kind, reply'[c].returned = winner
    PROVE  Served!Close(c, kind, winner)
<1>1. /\ [e \in Clients |-> StateOf(e)]'
           = [[e \in Clients |-> StateOf(e)] EXCEPT ![c] = StateOf(c)']
      /\ [e \in Clients |-> reply[e].kind]'
           = [[e \in Clients |-> reply[e].kind] EXCEPT ![c] = reply'[c].kind]
      /\ [e \in Clients |-> reply[e].returned]'
           = [[e \in Clients |-> reply[e].returned] EXCEPT ![c] = reply'[c].returned]
  BY OthersServed
<1>2. StateOf(c)' = "closed"
  BY DEF StateOf
<1>3. [e \in Clients |-> StateOf(e)]'
        = [[e \in Clients |-> StateOf(e)] EXCEPT ![c] = "closed"]
  BY <1>1, <1>2
<1> QED
  BY <1>1, <1>3 DEF Served!Close, StateOf

\* The resolvers of the first n attempts are those of the first n in the plan.
LEMMA TriedArePlanned ==
    ASSUME TypeOK, NEW c \in Clients, PlanFollowed(c)
    PROVE  /\ {tried[c][i].resolver : i \in DOMAIN tried[c]}
                = {order[c][i] : i \in 1..Len(tried[c])}
           /\ \A n \in 1..Len(order[c]) :
                /\ {order[c][i] : i \in 1..n}
                     = {order[c][i] : i \in 1..(n - 1)} \cup {order[c][n]}
                /\ order[c][n] \notin {order[c][i] : i \in 1..(n - 1)}
                /\ order[c][n] \in Ids
<1>1. /\ tried[c] \in Seq(Attempts) /\ order[c] \in Seq(Ids)
      /\ DOMAIN tried[c] = 1..Len(tried[c]) /\ DOMAIN order[c] = 1..Len(order[c])
      /\ Len(tried[c]) \in Nat /\ Len(order[c]) \in Nat
  BY DEF TypeOK
<1>2. {tried[c][i].resolver : i \in DOMAIN tried[c]} = {order[c][i] : i \in 1..Len(tried[c])}
  BY <1>1 DEF PlanFollowed
<1>3. ASSUME NEW n \in 1..Len(order[c])
      PROVE  /\ {order[c][i] : i \in 1..n}
                  = {order[c][i] : i \in 1..(n - 1)} \cup {order[c][n]}
             /\ order[c][n] \notin {order[c][i] : i \in 1..(n - 1)}
             /\ order[c][n] \in Ids
  <2>1. \A i : i \in 1..n <=> i \in 1..(n - 1) \/ i = n
    BY <1>1
  <2>2. \A i \in 1..(n - 1) : i \in DOMAIN order[c] /\ n \in DOMAIN order[c] /\ i # n
    BY <1>1
  <2>3. \A i \in 1..(n - 1) : order[c][i] # order[c][n]
    BY <2>2 DEF PlanFollowed
  <2>4. order[c][n] \in Ids
    BY <1>1
  <2> QED
    BY <2>1, <2>3, <2>4
<1> QED
  BY <1>2, <1>3

LEMMA ServiceSteps ==
    IInv /\ [Next]_vars => ServiceStep
<1> SUFFICES ASSUME IInv, [Next]_vars PROVE ServiceStep
  OBVIOUS
<1>0. TypeOK /\ \A c \in Clients : PlanFollowed(c)
  BY DEF IInv
<1>1. CASE Reset \/ Finished \/ UNCHANGED vars
  BY <1>1, SameServed DEF Reset, Finished, vars, request
<1>2. ASSUME NEW c \in Clients, Submit(c) PROVE ServiceStep
  <2>1. /\ phase[c] \in {"idle", "answered"} /\ phase' = [phase EXCEPT ![c] = "queued"]
        /\ id' = [id EXCEPT ![c] = issued']
        /\ order' = [order EXCEPT ![c] = << >>] /\ tried' = [tried EXCEPT ![c] = << >>]
        /\ reply' = [reply EXCEPT ![c] = NoReply]
    BY <1>2 DEF Submit
  <2>2. \A e \in Clients : e # c => SameHandler(e)
    BY <1>0, <2>1 DEF SameHandler, TypeOK
  <2>3. /\ phase'[c] = "queued" /\ tried'[c] = << >> /\ reply'[c] = NoReply
    BY <1>0, <2>1 DEF TypeOK
  <2>4. /\ StateOf(c) \in {"idle", "closed"} /\ StateOf(c)' = "open"
        /\ ContactedOf(c)' = {} /\ HeardOf(c)' = {} /\ GoodOf(c)' = {}
        /\ reply'[c].kind = "none" /\ reply'[c].returned = None
    BY <2>1, <2>3 DEF StateOf, ContactedOf, HeardOf, GoodOf, Entries, NoReply
  <2>5. /\ [e \in Clients |-> StateOf(e)]'
             = [[e \in Clients |-> StateOf(e)] EXCEPT ![c] = "open"]
        /\ [e \in Clients |-> ContactedOf(e)]'
             = [[e \in Clients |-> ContactedOf(e)] EXCEPT ![c] = {}]
        /\ [e \in Clients |-> HeardOf(e)]'
             = [[e \in Clients |-> HeardOf(e)] EXCEPT ![c] = {}]
        /\ [e \in Clients |-> GoodOf(e)]'
             = [[e \in Clients |-> GoodOf(e)] EXCEPT ![c] = {}]
        /\ [e \in Clients |-> reply[e].kind]'
             = [[e \in Clients |-> reply[e].kind] EXCEPT ![c] = "none"]
        /\ [e \in Clients |-> reply[e].returned]'
             = [[e \in Clients |-> reply[e].returned] EXCEPT ![c] = None]
    BY <2>2, <2>4, OthersServed
  <2>6. [e \in Clients |-> StateOf(e)][c] \in {"idle", "closed"}
    BY <2>4
  <2>7. Served!Open(c)
    BY <2>5, <2>6 DEF Served!Open, StateOf, ContactedOf, HeardOf, GoodOf
  <2> QED
    BY <2>7 DEF ServiceStep, Served!Next
<1>3. ASSUME NEW c \in Clients, Refuse(c) PROVE ServiceStep
  <2>1. /\ phase[c] = "queued" /\ phase' = [phase EXCEPT ![c] = "answered"]
        /\ reply' = [reply EXCEPT ![c] = [kind |-> "refused", returned |-> None]]
        /\ UNCHANGED <<id, order, tried>>
    BY <1>3 DEF Refuse, Answer, request
  <2>2. \A e \in Clients : e # c => SameHandler(e)
    BY <1>0, <2>1 DEF SameHandler, TypeOK
  <2>3. phase'[c] = "answered" /\ reply'[c].kind = "refused" /\ reply'[c].returned = None
    BY <1>0, <2>1 DEF TypeOK
  <2>4. order[c] = << >> /\ reply[c].kind = "none" /\ Len(tried[c]) = 0
    BY <1>0, <2>1 DEF PlanFollowed, NoReply, TypeOK
  <2>5. /\ ContactedOf(c) = {} /\ StateOf(c) = "open" /\ ContactedOf(c)' = ContactedOf(c)
        /\ HeardOf(c)' = HeardOf(c) /\ GoodOf(c)' = GoodOf(c)
    BY <2>1, <2>3, <2>4 DEF ContactedOf, StateOf, HeardOf, GoodOf, Entries
  <2>6. Served!Close(c, "refused", None)
    BY <2>2, <2>3, CloseServed
  <2>7. /\ [e \in Clients |-> StateOf(e)][c] = "open"
        /\ [e \in Clients |-> ContactedOf(e)][c] = {}
    BY <2>5
  <2>8. /\ [e \in Clients |-> ContactedOf(e)]' = [e \in Clients |-> ContactedOf(e)]
        /\ [e \in Clients |-> HeardOf(e)]' = [e \in Clients |-> HeardOf(e)]
        /\ [e \in Clients |-> GoodOf(e)]' = [e \in Clients |-> GoodOf(e)]
    BY <2>2, <2>5, OthersServed, ZenonT(30)
  <2>9. Served!Refuse(c)
    BY <2>6, <2>7, <2>8 DEF Served!Refuse, StateOf, ContactedOf, HeardOf, GoodOf
  <2> QED
    BY <2>9 DEF ServiceStep, Served!Next
<1>4. ASSUME NEW c \in Clients, Start(c) PROVE ServiceStep
  <2> DEFINE plan == Planned(ask[c])
  <2>1. /\ phase[c] = "queued" /\ ask[c] \in Known
        /\ phase' = [phase EXCEPT ![c] = "calling"] /\ order' = [order EXCEPT ![c] = plan]
        /\ UNCHANGED <<id, tried, reply>>
    BY <1>4 DEF Start
  <2>2. plan \in Seq(Ids) /\ Len(plan) \in Nat \ {0}
    BY <1>0, <2>1, PlannedIs DEF TypeOK
  <2> HIDE DEF plan
  <2>3. \A e \in Clients : e # c => SameHandler(e)
    BY <1>0, <2>1 DEF SameHandler, TypeOK
  <2>4. /\ order[c] = << >> /\ reply[c].kind = "none" /\ tried[c] = << >>
    <3>1. order[c] = << >> /\ reply[c].kind = "none" /\ Len(tried[c]) = 0
      BY <1>0, <2>1 DEF PlanFollowed, NoReply, TypeOK
    <3> QED
      BY <1>0, <3>1 DEF TypeOK
  <2>5. phase'[c] = "calling" /\ order'[c] = plan /\ tried'[c] = tried[c] /\ reply'[c] = reply[c]
    BY <1>0, <2>1 DEF TypeOK
  <2>6. plan[1] \in Ids
    BY <2>2
  <2>7. PICK first \in Ids : first = plan[1]
    BY <2>6
  <2>8. /\ ContactedOf(c) = {} /\ HeardOf(c) = {} /\ GoodOf(c) = {}
        /\ HeardOf(c)' = {} /\ GoodOf(c)' = {} /\ ContactedOf(c)' = {first}
    <3>1. /\ ContactedOf(c) = {} /\ HeardOf(c) = {} /\ GoodOf(c) = {}
      BY <2>1, <2>4 DEF ContactedOf, HeardOf, GoodOf, Entries
    <3>2. HeardOf(c)' = {} /\ GoodOf(c)' = {}
      BY <2>4, <2>5 DEF HeardOf, GoodOf, Entries
    <3>3. ContactedOf(c)' = {plan[i] : i \in 1..1}
      BY <2>4, <2>5 DEF ContactedOf
    <3> QED
      BY <2>7, <3>1, <3>2, <3>3
  <2>9. StateOf(c) = "open" /\ StateOf(c)' = "open"
    BY <2>1, <2>5 DEF StateOf
  <2>10. /\ {first} \in SUBSET Ids /\ {} \in SUBSET Ids /\ {} \in SUBSET {}
         /\ ContactedOf(c)' = ContactedOf(c) \cup {first}
         /\ HeardOf(c)' = HeardOf(c) \cup {} /\ GoodOf(c)' = GoodOf(c) \cup {}
         /\ {} \subseteq ContactedOf(c) \ HeardOf(c)
         /\ {first} # {} => GoodOf(c) \cup {} = {}
    BY <2>8
  <2> QED
    BY <2>3, <2>5, <2>9, <2>10, ProgressServed
<1>5. ASSUME NEW c \in Clients, Raise(c) PROVE ServiceStep
  <2>1. /\ phase[c] = "calling" /\ phase' = [phase EXCEPT ![c] = "answered"]
        /\ reply' = [reply EXCEPT ![c] = [kind |-> "crashed", returned |-> None]]
        /\ UNCHANGED <<id, order, tried>>
    BY <1>5 DEF Raise, Answer, request
  <2>2. \A e \in Clients : e # c => SameHandler(e)
    BY <1>0, <2>1 DEF SameHandler, TypeOK
  <2>3. phase'[c] = "answered" /\ reply'[c].kind = "crashed" /\ reply'[c].returned = None
    BY <1>0, <2>1 DEF TypeOK
  <2>4. /\ Len(tried[c]) \in Nat /\ Len(tried[c]) < Len(order[c]) /\ tried[c] \in Seq(Attempts)
        /\ \A i \in 1..Len(tried[c]) : tried[c][i].outcome # "accepted"
    BY <1>0, <2>1 DEF PlanFollowed, TypeOK
  <2>5. /\ GoodOf(c) = {} /\ StateOf(c) = "open"
        /\ ContactedOf(c) = {order[c][i] : i \in 1..(Len(tried[c]) + 1)}
    BY <2>1, <2>4 DEF GoodOf, Entries, StateOf, ContactedOf
  <2>6. ContactedOf(c) # {}
    <3>1. 1 \in 1..(Len(tried[c]) + 1)
      BY <2>4
    <3> QED
      BY <2>5, <3>1
  <2>7. /\ ContactedOf(c)' = ContactedOf(c) /\ HeardOf(c)' = {} /\ GoodOf(c)' = GoodOf(c)
    BY <2>1, <2>3, <2>5 DEF ContactedOf, HeardOf, GoodOf, Entries
  <2>8. Served!Close(c, "crashed", None)
    BY <2>2, <2>3, CloseServed
  <2>9. /\ [e \in Clients |-> HeardOf(e)]'
             = [[e \in Clients |-> HeardOf(e)] EXCEPT ![c] = {}]
        /\ [e \in Clients |-> ContactedOf(e)]' = [e \in Clients |-> ContactedOf(e)]
        /\ [e \in Clients |-> GoodOf(e)]' = [e \in Clients |-> GoodOf(e)]
    BY <2>2, <2>7, OthersServed, ZenonT(30)
  <2>10. /\ [e \in Clients |-> GoodOf(e)][c] = {} /\ [e \in Clients |-> StateOf(e)][c] = "open"
         /\ [e \in Clients |-> ContactedOf(e)][c] # {}
    BY <2>5, <2>6
  <2>11. Served!Crash(c)
    BY <2>8, <2>9, <2>10 DEF Served!Crash, StateOf, ContactedOf, HeardOf, GoodOf
  <2> QED
    BY <2>11 DEF ServiceStep, Served!Next
<1>6. ASSUME NEW c \in Clients, Return(c) PROVE ServiceStep
  <2>1. /\ phase[c] = "calling" /\ UNCHANGED <<id, order>>
    BY <1>6, ReturnParts
  <2>2. PICK o \in {"accepted", "unacceptable"}, a \in Attempts :
          a.resolver = Called(c) /\ a.outcome = o /\ ReturnEffect(c, o, a)
    BY <1>6, ReturnParts
  <2> DEFINE new == Append(tried[c], a)
             n == Len(tried[c])
  <2>3. /\ new \in Seq(Attempts) /\ Len(new) = n + 1 /\ n \in Nat
        /\ n + 1 <= Len(order[c]) /\ new[n + 1] = a
        /\ \A i \in 1..n : new[i] = tried[c][i]
        /\ \A i \in 1..(n + 1) : new[i].resolver = order[c][i]
    BY <1>0, <2>1, <2>2, TriedGrows
  <2>4. tried' = [tried EXCEPT ![c] = new]
    BY <2>2 DEF ReturnEffect
  <2>5. PICK r \in Ids : r = Called(c)
    BY <2>2 DEF Attempts
  <2>6. r = order[c][n + 1] /\ Len(order[c]) \in Nat
    BY <1>0, <2>5 DEF Called, TypeOK
  <2>7. /\ reply[c].kind = "none" /\ \A i \in 1..n : tried[c][i].outcome # "accepted"
        /\ tried[c] \in Seq(Attempts)
    BY <1>0, <2>1 DEF PlanFollowed, NoReply, TypeOK
  <2>8. /\ tried'[c] = new /\ order'[c] = order[c]
    BY <1>0, <2>1, <2>4 DEF TypeOK
  <2> HIDE DEF new
  <2> DEFINE before == {order[c][i] : i \in 1..n}
             called == {order[c][i] : i \in 1..(n + 1)}
  <2>9. called = before \cup {r} /\ r \notin before /\ before \subseteq Ids
    <3>1. n + 1 \in 1..Len(order[c]) /\ (n + 1) - 1 = n
      BY <2>3, <2>6
    <3>2. /\ {order[c][i] : i \in 1..(n + 1)}
               = {order[c][i] : i \in 1..((n + 1) - 1)} \cup {order[c][n + 1]}
          /\ order[c][n + 1] \notin {order[c][i] : i \in 1..((n + 1) - 1)}
      BY <1>0, <3>1, TriedArePlanned
    <3>3. \A i \in 1..n : order[c][i] \in Ids
      BY <1>0, <2>3, <2>6 DEF TypeOK
    <3> QED
      BY <2>6, <3>1, <3>2, <3>3
  <2>10. /\ ContactedOf(c) = called /\ HeardOf(c) = before /\ GoodOf(c) = {}
         /\ StateOf(c) = "open"
    <3>1. HeardOf(c) = before
      BY <1>0, <2>7, TriedArePlanned DEF HeardOf
    <3> QED
      BY <2>1, <2>7, <3>1 DEF ContactedOf, GoodOf, Entries, StateOf
  <2>11. DOMAIN new = 1..(n + 1)
    BY <2>3
  <2>12. GoodOf(c)' = IF o = "accepted" THEN {r} ELSE {}
    <3>1. Entries(new) = {tried[c][i] : i \in 1..n} \cup {a}
      BY <2>3, <2>11 DEF Entries
    <3>2. GoodOf(c)' = {b.resolver : b \in {x \in Entries(new) : x.outcome = "accepted"}}
      BY <2>8 DEF GoodOf, Entries
    <3> QED
      BY <2>2, <2>5, <2>7, <3>1, <3>2
  <2>13. ASSUME reply'[c].kind # "crashed"
         PROVE  HeardOf(c)' = HeardOf(c) \cup {r}
    <3>1. HeardOf(c)' = {new[i].resolver : i \in 1..(n + 1)}
      BY <2>8, <2>11, <2>13 DEF HeardOf
    <3>2. {new[i].resolver : i \in 1..(n + 1)} = called
      BY <2>3
    <3> QED
      BY <2>9, <2>10, <3>1, <3>2
  <2> HIDE DEF before, called, n
  <2>14. {r} \in SUBSET Ids /\ {r} \subseteq ContactedOf(c) \ HeardOf(c)
    BY <2>9, <2>10
  <2>15. CASE Ends(c, o)
    <3>1. /\ phase' = [phase EXCEPT ![c] = "answered"]
          /\ reply' = [reply EXCEPT ![c] =
                         IF o = "accepted"
                         THEN [kind |-> "ok", returned |-> r]
                         ELSE [kind |-> "noAcceptableResult", returned |-> None]]
      BY <2>2, <2>5, <2>15 DEF ReturnEffect
    <3>2. \A e \in Clients : e # c => SameHandler(e)
      BY <1>0, <2>1, <2>4, <3>1 DEF SameHandler, TypeOK
    <3>3. /\ phase'[c] = "answered"
          /\ reply'[c] = IF o = "accepted"
                         THEN [kind |-> "ok", returned |-> r]
                         ELSE [kind |-> "noAcceptableResult", returned |-> None]
      BY <1>0, <3>1 DEF TypeOK
    <3>4. reply'[c].kind # "crashed" /\ HeardOf(c)' = HeardOf(c) \cup {r}
      BY <2>13, <3>3
    <3>5. ContactedOf(c)' = ContactedOf(c)
      <4>1. ContactedOf(c)' = {order[c][i] : i \in 1..(n + 1)}
        BY <2>3, <2>8, <3>3, <3>4 DEF ContactedOf
      <4> QED
        BY <2>10, <4>1 DEF called
    <3>6. {} \in SUBSET Ids /\ ContactedOf(c)' = ContactedOf(c) \cup {} /\ ({} # {} => GoodOf(c) \cup {r} = {})
      BY <3>5
    <3>7. CASE o = "accepted"
      <4>1. GoodOf(c)' = GoodOf(c) \cup {r} /\ {r} \in SUBSET {r}
        BY <2>10, <2>12, <3>7
      <4>2. Served!Learn(c, {}, {r}, {r})
        BY <2>10, <2>14, <3>2, <3>4, <3>6, <4>1, LearnServed
      <4>3. Served!Close(c, "ok", r)
        BY <3>2, <3>3, <3>7, CloseServed
      <4>4. r \in [e \in Clients |-> GoodOf(e)][c] \cup {r}
        OBVIOUS
      <4>5. Served!Succeed(c)
        BY <2>14, <4>2, <4>3, <4>4 DEF Served!Succeed, GoodOf
      <4> QED
        BY <4>5 DEF ServiceStep, Served!Next
    <3>8. CASE o # "accepted"
      <4>1. GoodOf(c)' = GoodOf(c) \cup {} /\ {} \in SUBSET {r} /\ ({} # {} => GoodOf(c) \cup {} = {})
        BY <2>10, <2>12, <3>8
      <4>2. Served!Learn(c, {}, {r}, {})
        BY <2>10, <2>14, <3>2, <3>4, <3>6, <4>1, LearnServed
      <4>3. Served!Close(c, "noAcceptableResult", None)
        BY <3>2, <3>3, <3>8, CloseServed
      <4>4. /\ [e \in Clients |-> GoodOf(e)][c] = {}
            /\ [e \in Clients |-> ContactedOf(e)][c] # {}
            /\ [e \in Clients |-> HeardOf(e)][c] \cup {r} = [e \in Clients |-> ContactedOf(e)][c]
        BY <2>9, <2>10
      <4>5. Served!Fail(c)
        BY <2>14, <4>2, <4>3, <4>4 DEF Served!Fail, GoodOf, ContactedOf, HeardOf
      <4> QED
        BY <4>5 DEF ServiceStep, Served!Next
    <3> QED
      BY <3>7, <3>8
  <2>16. CASE ~Ends(c, o)
    <3>1. UNCHANGED <<phase, reply>> /\ o # "accepted" /\ n + 1 # Len(order[c])
      BY <2>2, <2>16 DEF ReturnEffect, Ends, n
    <3>2. \A e \in Clients : e # c => SameHandler(e)
      BY <1>0, <2>1, <2>4, <3>1 DEF SameHandler, TypeOK
    <3>3. n + 2 \in 1..Len(order[c]) /\ (n + 2) - 1 = n + 1
      BY <2>3, <2>6, <3>1
    <3>4. /\ {order[c][i] : i \in 1..(n + 2)}
               = {order[c][i] : i \in 1..((n + 2) - 1)} \cup {order[c][n + 2]}
          /\ order[c][n + 2] \in Ids
      BY <1>0, <3>3, TriedArePlanned
    <3>5. PICK q \in Ids : q = order[c][n + 2]
      BY <3>4
    <3>6. ContactedOf(c)' = ContactedOf(c) \cup {q}
      <4>1. ContactedOf(c)' = {order[c][i] : i \in 1..((n + 1) + 1)}
        BY <2>1, <2>3, <2>8, <3>1 DEF ContactedOf
      <4>2. (n + 1) + 1 = n + 2
        BY <2>3
      <4> QED
        BY <2>10, <3>3, <3>4, <3>5, <4>1, <4>2 DEF called
    <3>7. HeardOf(c)' = HeardOf(c) \cup {r}
      BY <2>7, <2>13, <3>1
    <3>8. /\ {q} \in SUBSET Ids /\ {} \in SUBSET {r} /\ GoodOf(c)' = GoodOf(c) \cup {}
          /\ {q} # {} => GoodOf(c) \cup {} = {}
      BY <2>10, <2>12, <3>1
    <3>9. StateOf(c)' = "open" /\ reply'[c] = reply[c]
      BY <2>1, <3>1 DEF StateOf
    <3> QED
      BY <2>10, <2>14, <3>2, <3>6, <3>7, <3>8, <3>9, ProgressServed
  <2> QED
    BY <2>15, <2>16
<1> QED
  BY <1>1, <1>2, <1>3, <1>4, <1>5, <1>6 DEF Next

\* The baseline router keeps the promise of ResolutionService, for every list
\* of resolvers and every interleaving: it goes on to the next resolver only
\* while nothing was accepted, succeeds with a resolver whose document was
\* accepted, and fails only when it has heard from every resolver it called.
THEOREM MockKeepsPromise == Spec => KeepsPromise
<1>1. Init => Served!Init
  BY DEF Init, Served!Init, Entries, NoReply
<1>2. IInv /\ [Next]_vars => [Served!Next]_Served!vars
  BY ServiceSteps DEF ServiceStep
<1> QED
  BY <1>1, <1>2, MockInvariant, PTL DEF Spec, KeepsPromise, Served!Spec

-----------------------------------------------------------------------------
(***************************************************************************)
(* The sink.  What the files and the index say of each other is stated for *)
(* any journal J, ledger L and index X, so that it can be stated of the    *)
(* ones a step leaves behind.                                              *)
(***************************************************************************)

LinesIn(J, r) == {i \in DOMAIN J : J[i].id = r}

PlaceIn(J, i) == Cardinality({j \in 1..i : J[j].id = J[i].id})

OvertakingIn(J, r) ==
    {J[j].id : j \in {j \in DOMAIN J : \E i \in 1..(j - 1) : J[i].id = r}} \ {r}

\* The bucket of request r holds its latest attempts.
LatestIn(bucket, r, J) ==
    LET missing == Cardinality(LinesIn(J, r)) - Len(bucket)
    IN  /\ bucket # << >> /\ missing >= 0
        /\ \A i \in LinesIn(J, r) :
             PlaceIn(J, i) > missing => bucket[PlaceIn(J, i) - missing] = J[i]

\* IndexFollowsJournal.
FollowsIn(X, J) ==
    /\ Len(X.order) <= MemoryLimit
    /\ \A k, m \in DOMAIN X.order : X.order[k] = X.order[m] => k = m
    /\ Entries(X.order) = DOMAIN X.buckets
    /\ \A r \in DOMAIN X.buckets : LatestIn(X.buckets[r], r, J)

\* A request later in the order of eviction has overtaken the earlier ones.
RankedIn(X, J) ==
    \A k, m \in DOMAIN X.order : k < m => X.order[m] \in OvertakingIn(J, X.order[k])

\* WholeUnlessOvertaken.
WholeIn(X, J) ==
    \A i \in DOMAIN J :
      LET r == J[i].id IN
      Cardinality(OvertakingIn(J, r)) < MemoryLimit =>
        r \in DOMAIN X.buckets /\ Len(X.buckets[r]) = Cardinality(LinesIn(J, r))

\* J2 is journal J with attempt a added.
Extended(J2, J, a) == J \in Seq(Attempts) /\ a \in Attempts /\ J2 = Append(J, a)

GoodIndex(X, J) == FollowsIn(X, J) /\ RankedIn(X, J) /\ WholeIn(X, J)

\* The lines of a request and their places.
LEMMA LinesFinite ==
    ASSUME NEW J \in Seq(Attempts), NEW r
    PROVE  /\ IsFiniteSet(LinesIn(J, r)) /\ Cardinality(LinesIn(J, r)) \in Nat
           /\ Cardinality(LinesIn(J, r)) = 0 <=> LinesIn(J, r) = {}
<1>1. IsFiniteSet(1..Len(J)) /\ LinesIn(J, r) \in SUBSET (1..Len(J))
  BY FS_Interval DEF LinesIn
<1>2. IsFiniteSet(LinesIn(J, r))
  BY <1>1, FS_Subset
<1> HIDE DEF LinesIn
<1> QED
  BY <1>2, FS_CardinalityType, FS_EmptySet

LEMMA PlaceIs ==
    ASSUME NEW J \in Seq(Attempts), NEW i \in DOMAIN J
    PROVE  /\ i \in LinesIn(J, J[i].id)
           /\ PlaceIn(J, i) \in 1..Cardinality(LinesIn(J, J[i].id))
<1> DEFINE S == {j \in 1..i : J[j].id = J[i].id}
           T == LinesIn(J, J[i].id)
<1>1. i \in 1..Len(J) /\ Len(J) \in Nat /\ DOMAIN J = 1..Len(J)
  OBVIOUS
<1>2. S \in SUBSET T /\ i \in S /\ i \in T
  BY <1>1 DEF LinesIn
<1>3. IsFiniteSet(T) /\ Cardinality(T) \in Nat
  BY LinesFinite
<1> HIDE DEF S, T
<1>4. IsFiniteSet(S) /\ Cardinality(S) <= Cardinality(T)
  BY <1>2, <1>3, FS_Subset
<1>5. Cardinality(S) \in Nat /\ Cardinality(S) # 0
  BY <1>2, <1>4, FS_CardinalityType, FS_EmptySet
<1> QED
  BY <1>2, <1>3, <1>4, <1>5 DEF PlaceIn, S, T

LEMMA InOvertaking ==
    ASSUME NEW J \in Seq(Attempts), NEW r, NEW q
    PROVE  q \in OvertakingIn(J, r) <=>
             q # r /\ \E j \in 1..Len(J), i \in 1..Len(J) :
                         i < j /\ J[i].id = r /\ J[j].id = q
<1>1. Len(J) \in Nat /\ DOMAIN J = 1..Len(J)
  OBVIOUS
<1> QED
  BY <1>1 DEF OvertakingIn

LEMMA OvertakingFinite ==
    ASSUME NEW J \in Seq(Attempts), NEW r
    PROVE  IsFiniteSet(OvertakingIn(J, r))
<1>1. ASSUME NEW q \in OvertakingIn(J, r) PROVE q \in 1..MaxRequests
  <2>1. PICK j \in 1..Len(J) : J[j].id = q
    BY InOvertaking
  <2>2. J[j] \in Attempts
    OBVIOUS
  <2> QED
    BY <2>1, <2>2 DEF Attempts
<1>2. OvertakingIn(J, r) \in SUBSET (1..MaxRequests)
  BY <1>1
<1>3. IsFiniteSet(1..MaxRequests)
  BY FS_Interval, MockAssumption
<1> HIDE DEF OvertakingIn
<1> QED
  BY <1>2, <1>3, FS_Subset

\* telemetry.py: an attempt is appended to the file.
LEMMA JournalGrows ==
    ASSUME NEW J, NEW a, NEW J2, Extended(J2, J, a)
    PROVE  /\ J2 \in Seq(Attempts) /\ Len(J2) = Len(J) + 1 /\ J2[Len(J) + 1] = a
           /\ \A i \in 1..Len(J) : J2[i] = J[i]
           /\ LinesIn(J2, a.id) = LinesIn(J, a.id) \cup {Len(J) + 1}
           /\ \A r : r # a.id => LinesIn(J2, r) = LinesIn(J, r)
           /\ Cardinality(LinesIn(J2, a.id)) = Cardinality(LinesIn(J, a.id)) + 1
           /\ \A i \in 1..Len(J) : PlaceIn(J2, i) = PlaceIn(J, i)
           /\ PlaceIn(J2, Len(J) + 1) = Cardinality(LinesIn(J, a.id)) + 1
<1> DEFINE n == Len(J)
<1>0. J \in Seq(Attempts) /\ a \in Attempts /\ J2 = Append(J, a)
  BY DEF Extended
<1>1. /\ J2 \in Seq(Attempts) /\ Len(J2) = n + 1 /\ J2[n + 1] = a /\ n \in Nat
      /\ DOMAIN J = 1..n /\ DOMAIN J2 = 1..(n + 1)
      /\ \A i \in 1..n : J2[i] = J[i]
  BY <1>0
<1> HIDE DEF n
<1>2. LinesIn(J2, a.id) = LinesIn(J, a.id) \cup {n + 1}
  BY <1>1 DEF LinesIn
<1>3. ASSUME NEW r, r # a.id PROVE LinesIn(J2, r) = LinesIn(J, r)
  BY <1>1, <1>3 DEF LinesIn
<1>4. n + 1 \notin LinesIn(J, a.id)
  BY <1>1 DEF LinesIn
<1>5. Cardinality(LinesIn(J2, a.id)) = Cardinality(LinesIn(J, a.id)) + 1
  <2>1. IsFiniteSet(LinesIn(J, a.id))
    BY <1>0, LinesFinite
  <2> HIDE DEF LinesIn
  <2> QED
    BY <1>2, <1>4, <2>1, FS_AddElement
<1>6. ASSUME NEW i \in 1..n PROVE PlaceIn(J2, i) = PlaceIn(J, i)
  <2>1. {j \in 1..i : J2[j].id = J2[i].id} = {j \in 1..i : J[j].id = J[i].id}
    BY <1>1
  <2> QED
    BY <2>1 DEF PlaceIn
<1>7. PlaceIn(J2, n + 1) = Cardinality(LinesIn(J2, a.id))
  <2>1. {j \in 1..(n + 1) : J2[j].id = J2[n + 1].id} = LinesIn(J2, a.id)
    BY <1>1 DEF LinesIn
  <2> QED
    BY <2>1 DEF PlaceIn
<1> QED
  BY <1>1, <1>2, <1>3, <1>5, <1>6, <1>7 DEF n

LEMMA OvertakingGrows ==
    ASSUME NEW J, NEW a, NEW J2, Extended(J2, J, a), NEW r
    PROVE  /\ OvertakingIn(J, r) \subseteq OvertakingIn(J2, r)
           /\ a.id # r /\ LinesIn(J, r) # {} => a.id \in OvertakingIn(J2, r)
           /\ Cardinality(OvertakingIn(J2, r)) < MemoryLimit =>
                Cardinality(OvertakingIn(J, r)) < MemoryLimit
<1>1. /\ J2 \in Seq(Attempts) /\ Len(J2) = Len(J) + 1 /\ J2[Len(J) + 1] = a
      /\ Len(J) \in Nat /\ J \in Seq(Attempts) /\ \A i \in 1..Len(J) : J2[i] = J[i]
  BY DEF Extended
<1>2. ASSUME NEW q \in OvertakingIn(J, r) PROVE q \in OvertakingIn(J2, r)
  <2>1. PICK j \in 1..Len(J), i \in 1..Len(J) : i < j /\ J[i].id = r /\ J[j].id = q
    BY <1>1, InOvertaking
  <2>2. /\ j \in 1..Len(J2) /\ i \in 1..Len(J2) /\ J2[i].id = r /\ J2[j].id = q /\ q # r
    BY <1>1, <2>1, InOvertaking
  <2> QED
    BY <1>1, <2>1, <2>2, InOvertaking
<1>3. ASSUME a.id # r, LinesIn(J, r) # {} PROVE a.id \in OvertakingIn(J2, r)
  <2>1. PICK i \in 1..Len(J) : J[i].id = r
    BY <1>1, <1>3 DEF LinesIn
  <2>2. /\ i \in 1..Len(J2) /\ Len(J) + 1 \in 1..Len(J2) /\ i < Len(J) + 1
        /\ J2[i].id = r /\ J2[Len(J) + 1].id = a.id
    BY <1>1, <2>1
  <2> QED
    BY <1>1, <1>3, <2>2, InOvertaking
<1>4. /\ IsFiniteSet(OvertakingIn(J2, r)) /\ Cardinality(OvertakingIn(J2, r)) \in Nat
      /\ IsFiniteSet(OvertakingIn(J, r)) /\ Cardinality(OvertakingIn(J, r)) \in Nat
  BY <1>1, OvertakingFinite, FS_CardinalityType
<1>5. Cardinality(OvertakingIn(J, r)) <= Cardinality(OvertakingIn(J2, r))
  BY <1>2, <1>4, FS_Subset
<1> QED
  BY <1>2, <1>3, <1>4, <1>5, IndexAssumption

\* An append that drops at most the oldest entry.
LEMMA PushedIs ==
    ASSUME NEW O \in Seq(1..MaxRequests), Len(O) <= MemoryLimit, NEW r \in 1..MaxRequests
    PROVE  \E s \in {0, 1} :
             /\ Len(Pushed(O, r)) = Len(O) + 1 - s /\ Len(Pushed(O, r)) <= MemoryLimit
             /\ Len(O) - s \in Nat /\ (s = 1 => Len(O) = MemoryLimit)
             /\ \A k \in 1..(Len(O) - s) : Pushed(O, r)[k] = O[k + s]
             /\ Pushed(O, r)[Len(O) + 1 - s] = r
<1>1. CASE Len(O) < MemoryLimit
  <2>1. Pushed(O, r) = Append(O, r)
    BY <1>1 DEF Pushed
  <2> QED
    BY <1>1, <2>1, IndexAssumption
<1>2. CASE ~(Len(O) < MemoryLimit)
  <2>1. Pushed(O, r) = Append(Tail(O), r)
    BY <1>2 DEF Pushed
  <2>2. Len(O) = MemoryLimit /\ O # << >>
    BY <1>2, IndexAssumption
  <2>3. /\ Tail(O) \in Seq(1..MaxRequests) /\ Len(Tail(O)) = Len(O) - 1
        /\ \A k \in 1..(Len(O) - 1) : Tail(O)[k] = O[k + 1]
    BY <2>2
  <2> QED
    BY <2>1, <2>2, <2>3, IndexAssumption
<1> QED
  BY <1>1, <1>2

\* The entries of a sequence without repetition.
LEMMA EntriesCount ==
    ASSUME NEW S, NEW s \in Seq(S), \A k, m \in DOMAIN s : s[k] = s[m] => k = m
    PROVE  IsFiniteSet(Entries(s)) /\ Cardinality(Entries(s)) = Len(s)
<1>1. DOMAIN s = 1..Len(s) /\ Len(s) \in Nat /\ s \in [1..Len(s) -> Entries(s)]
  BY DEF Entries
<1>2. s \in Surjection(1..Len(s), Entries(s))
  BY <1>1 DEF Surjection, Entries
<1>3. s \in Injection(1..Len(s), Entries(s))
  BY <1>1 DEF Injection, IsInjective
<1>4. IsFiniteSet(1..Len(s)) /\ Cardinality(1..Len(s)) = Len(s)
  BY <1>1, FS_Interval
<1> QED
  BY <1>2, <1>3, <1>4, FS_Surjection

\* record_attempt when the request has a bucket: nothing moves.
LEMMA RecordKnown ==
    ASSUME NEW X \in Indexes, NEW r \in DOMAIN X.buckets, X.buckets[r] # << >>, NEW a \in Attempts,
           Entries(X.order) = DOMAIN X.buckets
    PROVE  LET Y == RecordAttempt(X, r, a) IN
           /\ Y.order = X.order /\ DOMAIN Y.buckets = DOMAIN X.buckets
           /\ \A q \in DOMAIN X.buckets :
                Y.buckets[q] = IF q = r THEN Append(X.buckets[r], a) ELSE X.buckets[q]
<1>1. BucketOf(X, r) = X.buckets[r]
  BY DEF BucketOf
<1>2. RecordAttempt(X, r, a)
        = [X EXCEPT !.order = X.order,
                    !.buckets = Kept(X, DOMAIN X.buckets, r, Append(X.buckets[r], a))]
  BY <1>1 DEF RecordAttempt
<1>3. X = [requests |-> X.requests, buckets |-> X.buckets, order |-> X.order]
  BY DEF Indexes
<1>4. /\ RecordAttempt(X, r, a).order = X.order
      /\ RecordAttempt(X, r, a).buckets
           = Kept(X, DOMAIN X.buckets, r, Append(X.buckets[r], a))
  BY <1>2, <1>3
<1>5. (DOMAIN X.buckets \cup {r}) \cap DOMAIN X.buckets = DOMAIN X.buckets
  OBVIOUS
<1> QED
  BY <1>4, <1>5 DEF Kept

\* record_attempt when it has none: the request enters the order of eviction,
\* and the request that leaves it loses its bucket.
LEMMA RecordNew ==
    ASSUME NEW X \in Indexes, NEW r \in 1..MaxRequests, r \notin DOMAIN X.buckets,
           NEW a \in Attempts, Entries(X.order) = DOMAIN X.buckets,
           Len(X.order) <= MemoryLimit
    PROVE  LET Y == RecordAttempt(X, r, a) IN
           /\ DOMAIN Y.buckets = Entries(Y.order)
           /\ Y.buckets[r] = << a >>
           /\ \A q \in DOMAIN Y.buckets :
                q # r => q \in DOMAIN X.buckets /\ Y.buckets[q] = X.buckets[q]
           /\ \E s \in {0, 1} :
                /\ Len(Y.order) = Len(X.order) + 1 - s /\ Len(Y.order) <= MemoryLimit
                /\ Len(X.order) - s \in Nat /\ (s = 1 => Len(X.order) = MemoryLimit)
                /\ \A k \in 1..(Len(X.order) - s) : Y.order[k] = X.order[k + s]
                /\ Y.order[Len(X.order) + 1 - s] = r
<1> DEFINE P == Pushed(X.order, r)
<1>1. BucketOf(X, r) = << >>
  BY DEF BucketOf
<1>2. RecordAttempt(X, r, a)
        = [X EXCEPT !.order = P, !.buckets = Kept(X, Entries(P), r, Append(<< >>, a))]
  BY <1>1 DEF RecordAttempt
<1>3. /\ X = [requests |-> X.requests, buckets |-> X.buckets, order |-> X.order]
      /\ X.order \in Seq(1..MaxRequests)
  BY DEF Indexes
<1>4. /\ RecordAttempt(X, r, a).order = P
      /\ RecordAttempt(X, r, a).buckets = Kept(X, Entries(P), r, << a >>)
  BY <1>2, <1>3
<1>5. PICK s \in {0, 1} :
        /\ Len(P) = Len(X.order) + 1 - s /\ Len(P) <= MemoryLimit
        /\ Len(X.order) - s \in Nat /\ (s = 1 => Len(X.order) = MemoryLimit)
        /\ \A k \in 1..(Len(X.order) - s) : P[k] = X.order[k + s]
        /\ P[Len(X.order) + 1 - s] = r
  <2>1. X.order \in Seq(1..MaxRequests) /\ Len(X.order) <= MemoryLimit /\ r \in 1..MaxRequests
    BY <1>3
  <2> QED
    BY ONLY <2>1, PushedIs DEF P
<1>6. P \in Seq(1..MaxRequests)
  BY <1>3, PushedType
<1>7. Len(X.order) \in Nat /\ DOMAIN X.order = 1..Len(X.order) /\ DOMAIN P = 1..Len(P)
  BY <1>3, <1>6
<1> HIDE DEF P
<1>8. r \in Entries(P)
  <2>1. Len(P) = Len(X.order) + 1 - s /\ P[Len(X.order) + 1 - s] = r
    BY <1>5
  <2>2. Len(X.order) + 1 - s \in 1..(Len(X.order) + 1 - s)
    <3> DEFINE n == Len(X.order)
    <3>1. n \in Nat /\ s \in {0, 1} /\ n - s \in Nat
      BY <1>5, <1>7
    <3> HIDE DEF n
    <3>2. n + 1 - s \in 1..(n + 1 - s)
      BY ONLY <3>1
    <3> QED
      BY ONLY <3>2 DEF n
  <2>3. P[Len(P)] = r
    BY ONLY <2>1, Zenon
  <2>4. Len(P) \in 1..Len(P)
    BY ONLY <2>1, <2>2, Zenon
  <2> QED
    BY <1>7, <2>3, <2>4 DEF Entries
<1>9. \A q \in Entries(P) : q # r => q \in DOMAIN X.buckets
  <2> SUFFICES ASSUME NEW k \in 1..Len(P), P[k] # r PROVE P[k] \in Entries(X.order)
    BY <1>7 DEF Entries
  <2>1. k \in 1..(Len(X.order) - s)
    BY <1>5, <1>7
  <2>2. k + s \in 1..Len(X.order)
    BY <1>7, <2>1
  <2> QED
    BY <1>5, <1>7, <2>1, <2>2 DEF Entries
<1>10. (DOMAIN X.buckets \cup {r}) \cap Entries(P) = Entries(P)
  BY <1>8, <1>9
<1>11. /\ DOMAIN RecordAttempt(X, r, a).buckets = Entries(P)
       /\ RecordAttempt(X, r, a).buckets[r] = << a >>
       /\ \A q \in Entries(P) :
            q # r => RecordAttempt(X, r, a).buckets[q] = X.buckets[q]
  BY <1>4, <1>8, <1>10 DEF Kept
<1> QED
  BY <1>4, <1>5, <1>9, <1>11

\* A bucket that holds the latest attempts goes on to hold them.
LEMMA LatestGrows ==
    ASSUME NEW J, NEW a, NEW J2, Extended(J2, J, a)
    PROVE  /\ \A q, b : q # a.id /\ LatestIn(b, q, J) => LatestIn(b, q, J2)
           /\ \A b \in Seq(Attempts) : LatestIn(b, a.id, J) => LatestIn(Append(b, a), a.id, J2)
           /\ LatestIn(<< a >>, a.id, J2)
<1>0. J \in Seq(Attempts) /\ a \in Attempts
  BY DEF Extended
<1> DEFINE n == Len(J)
           C == Cardinality(LinesIn(J, a.id))
<1>1. /\ J2 \in Seq(Attempts) /\ Len(J2) = n + 1 /\ J2[n + 1] = a
      /\ \A i \in 1..n : J2[i] = J[i]
      /\ LinesIn(J2, a.id) = LinesIn(J, a.id) \cup {n + 1}
      /\ \A r : r # a.id => LinesIn(J2, r) = LinesIn(J, r)
      /\ Cardinality(LinesIn(J2, a.id)) = C + 1
      /\ \A i \in 1..n : PlaceIn(J2, i) = PlaceIn(J, i)
      /\ PlaceIn(J2, n + 1) = C + 1
  <2>0. Extended(J2, J, a)
    OBVIOUS
  <2>1. J2 \in Seq(Attempts) /\ Len(J2) = n + 1
    BY ONLY <2>0, JournalGrows DEF n
  <2>2. J2[n + 1] = a
    BY ONLY <2>0, JournalGrows DEF n
  <2>3. \A i \in 1..n : J2[i] = J[i]
    BY ONLY <2>0, JournalGrows DEF n
  <2>4. LinesIn(J2, a.id) = LinesIn(J, a.id) \cup {n + 1}
    BY ONLY <2>0, JournalGrows DEF n
  <2>5. \A r : r # a.id => LinesIn(J2, r) = LinesIn(J, r)
    BY ONLY <2>0, JournalGrows DEF n
  <2>6. Cardinality(LinesIn(J2, a.id)) = C + 1
    BY ONLY <2>0, JournalGrows DEF C
  <2>7. \A i \in 1..n : PlaceIn(J2, i) = PlaceIn(J, i)
    BY ONLY <2>0, JournalGrows DEF n
  <2>8. PlaceIn(J2, n + 1) = C + 1
    BY ONLY <2>0, JournalGrows DEF n, C
  <2> QED
    BY <2>1, <2>2, <2>3, <2>4, <2>5, <2>6, <2>7, <2>8
<1>2. C \in Nat /\ n \in Nat /\ \A r : LinesIn(J, r) \subseteq 1..n
  <2>1. C \in Nat
    BY <1>0, LinesFinite
  <2> QED
    BY <1>0, <2>1 DEF LinesIn
<1>3. \A i \in LinesIn(J, a.id) : PlaceIn(J, i) \in 1..C
  <2> SUFFICES ASSUME NEW i \in LinesIn(J, a.id) PROVE PlaceIn(J, i) \in 1..C
    OBVIOUS
  <2>1. i \in DOMAIN J /\ J[i].id = a.id
    BY DEF LinesIn
  <2> QED
    BY <1>0, <2>1, PlaceIs
<1> HIDE DEF n, C
<1>4. ASSUME NEW q, NEW b, q # a.id, LatestIn(b, q, J) PROVE LatestIn(b, q, J2)
  <2>1. LinesIn(J2, q) = LinesIn(J, q)
    BY <1>1, <1>4
  <2>2. \A i \in LinesIn(J, q) : PlaceIn(J2, i) = PlaceIn(J, i) /\ J2[i] = J[i]
    BY <1>1, <1>2
  <2> QED
    BY <1>4, <2>1, <2>2 DEF LatestIn
<1>5. ASSUME NEW b \in Seq(Attempts), LatestIn(b, a.id, J)
      PROVE  LatestIn(Append(b, a), a.id, J2)
  <2> DEFINE b2 == Append(b, a)
             missing == C - Len(b)
  <2>1. /\ b2 # << >> /\ Len(b2) = Len(b) + 1 /\ Len(b) \in Nat /\ b2[Len(b) + 1] = a
        /\ \A k \in 1..Len(b) : b2[k] = b[k]
    BY <1>0
  <2>2. /\ missing >= 0 /\ missing \in Int
        /\ \A i \in LinesIn(J, a.id) : PlaceIn(J, i) > missing => b[PlaceIn(J, i) - missing] = J[i]
    BY <1>2, <1>5, <2>1 DEF LatestIn, C
  <2>3. (C + 1) - Len(b2) = missing
    BY <1>2, <2>1
  <2> HIDE DEF b2
  <2>4. ASSUME NEW i \in LinesIn(J2, a.id), PlaceIn(J2, i) > missing
        PROVE  b2[PlaceIn(J2, i) - missing] = J2[i]
    <3>1. CASE i = n + 1
      <4>1. PlaceIn(J2, i) - missing = Len(b) + 1
        BY <1>1, <1>2, <2>1, <3>1
      <4>2. b2[Len(b) + 1] = J2[i]
        BY <1>1, <2>1, <3>1
      <4> QED
        BY ONLY <4>1, <4>2, Zenon
    <3>2. CASE i \in LinesIn(J, a.id)
      <4>1. PlaceIn(J2, i) = PlaceIn(J, i) /\ J2[i] = J[i] /\ PlaceIn(J, i) \in 1..C
        BY <1>1, <1>2, <1>3, <3>2
      <4>2. PlaceIn(J, i) - missing \in 1..Len(b)
        BY <1>2, <2>1, <2>2, <2>4, <4>1
      <4>3. b[PlaceIn(J, i) - missing] = J[i]
        BY <2>2, <2>4, <3>2, <4>1
      <4>4. b2[PlaceIn(J, i) - missing] = b[PlaceIn(J, i) - missing]
        BY ONLY <2>1, <4>2
      <4> QED
        BY ONLY <4>1, <4>3, <4>4, Zenon
    <3> QED
      BY <1>1, <3>1, <3>2
  <2> HIDE DEF missing
  <2> QED
    BY <1>1, <2>1, <2>2, <2>3, <2>4 DEF LatestIn, b2
<1>6. LatestIn(<< a >>, a.id, J2)
  <2>1. Len(<< a >>) = 1 /\ << a >> # << >> /\ << a >>[1] = a
    OBVIOUS
  <2>2. (C + 1) - 1 = C /\ C >= 0
    BY <1>2
  <2>3. ASSUME NEW i \in LinesIn(J2, a.id), PlaceIn(J2, i) > C
        PROVE  << a >>[PlaceIn(J2, i) - C] = J2[i]
    <3>1. i = n + 1
      <4> SUFFICES ASSUME i \in LinesIn(J, a.id) PROVE FALSE
        BY <1>1
      <4>1. PlaceIn(J2, i) = PlaceIn(J, i) /\ PlaceIn(J, i) \in 1..C
        BY <1>1, <1>2, <1>3
      <4> QED
        BY <1>2, <2>3, <4>1
    <3>2. PlaceIn(J2, i) - C = 1
      BY <1>1, <1>2, <3>1
    <3> QED
      BY <1>1, <2>1, <3>1, <3>2
  <2> QED
    <3> DEFINE b1 == << a >>
    <3>1. Len(b1) = 1 /\ b1 # << >>
      BY <2>1
    <3>2. \A i \in LinesIn(J2, a.id) : PlaceIn(J2, i) > C => b1[PlaceIn(J2, i) - C] = J2[i]
      BY <2>3
    <3> HIDE DEF b1
    <3>3. LatestIn(b1, a.id, J2)
      BY <1>1, <2>2, <3>1, <3>2 DEF LatestIn
    <3> QED
      BY <3>3 DEF b1
<1> QED
  BY <1>4, <1>5, <1>6

\* A request that has a bucket, or a place in the order of eviction, has lines.
LEMMA FollowsLines ==
    ASSUME NEW X \in Indexes, NEW J \in Seq(Attempts), FollowsIn(X, J), NEW q \in DOMAIN X.buckets
    PROVE  LinesIn(J, q) # {} /\ X.buckets[q] \in Seq(Attempts) /\ X.buckets[q] # << >>
<1>1. X.buckets[q] \in Seq(Attempts)
  BY IndexTyped
<1>2. LatestIn(X.buckets[q], q, J)
  BY DEF FollowsIn
<1>3. X.buckets[q] # << >> /\ Cardinality(LinesIn(J, q)) - Len(X.buckets[q]) >= 0
  BY <1>2 DEF LatestIn
<1>4. Cardinality(LinesIn(J, q)) \in Nat /\ (Cardinality(LinesIn(J, q)) = 0 <=> LinesIn(J, q) = {})
  BY LinesFinite
<1>5. Len(X.buckets[q]) \in Nat /\ Len(X.buckets[q]) # 0
  BY <1>1, <1>3
<1> QED
  BY <1>1, <1>3, <1>4, <1>5

\* The order of eviction after an attempt of a request that had no bucket.
EnteredAt(O2, O, r, s) ==
    /\ s \in {0, 1} /\ O \in Seq(1..MaxRequests) /\ O2 \in Seq(1..MaxRequests)
    /\ Len(O2) = Len(O) + 1 - s /\ Len(O2) <= MemoryLimit
    /\ Len(O) - s \in Nat /\ (s = 1 => Len(O) = MemoryLimit)
    /\ \A k \in 1..(Len(O) - s) : O2[k] = O[k + s]
    /\ O2[Len(O) + 1 - s] = r

LEMMA EnteredIs ==
    ASSUME NEW O2, NEW O, NEW r, NEW s, EnteredAt(O2, O, r, s)
    PROVE  /\ \A k \in DOMAIN O2 : \/ k = Len(O2) /\ O2[k] = r
                                   \/ k < Len(O2) /\ k + s \in DOMAIN O /\ O2[k] = O[k + s]
           /\ \A m \in DOMAIN O : m > s => O[m] \in Entries(O2)
           /\ Len(O2) \in DOMAIN O2 /\ DOMAIN O2 \subseteq Nat /\ s \in {0, 1}
<1>1. /\ s \in {0, 1} /\ Len(O) \in Nat /\ Len(O2) \in Nat /\ Len(O2) = Len(O) + 1 - s
      /\ DOMAIN O = 1..Len(O) /\ DOMAIN O2 = 1..Len(O2) /\ Len(O) - s \in Nat
      /\ \A k \in 1..(Len(O) - s) : O2[k] = O[k + s]
      /\ O2[Len(O2)] = r
  BY DEF EnteredAt
<1>2. ASSUME NEW k \in DOMAIN O2
      PROVE  \/ k = Len(O2) /\ O2[k] = r
             \/ k < Len(O2) /\ k + s \in DOMAIN O /\ O2[k] = O[k + s]
  <2>1. CASE k = Len(O2)
    BY <1>1, <2>1
  <2>2. CASE k # Len(O2)
    <3>1. k \in 1..(Len(O) - s) /\ k < Len(O2) /\ k + s \in 1..Len(O)
      BY <1>1, <2>2
    <3> QED
      BY <1>1, <3>1
  <2> QED
    BY <2>1, <2>2
<1>3. ASSUME NEW m \in DOMAIN O, m > s PROVE O[m] \in Entries(O2)
  <2>1. m - s \in 1..(Len(O) - s) /\ m - s \in 1..Len(O2) /\ (m - s) + s = m
    BY <1>1, <1>3
  <2>2. O2[m - s] = O[(m - s) + s]
    BY <1>1, <2>1
  <2> QED
    BY <1>1, <2>1, <2>2 DEF Entries
<1> QED
  BY <1>1, <1>2, <1>3

\* A new request is ranked after all the others.
LEMMA EnteredRanked ==
    ASSUME NEW X \in Indexes, NEW J, NEW a, NEW J2, Extended(J2, J, a),
           FollowsIn(X, J), RankedIn(X, J), a.id \notin DOMAIN X.buckets,
           NEW O2, NEW s, EnteredAt(O2, X.order, a.id, s)
    PROVE  /\ \A k, m \in DOMAIN O2 : O2[k] = O2[m] => k = m
           /\ \A k, m \in DOMAIN O2 : k < m => O2[m] \in OvertakingIn(J2, O2[k])
<1> DEFINE O == X.order
           r == a.id
<1>0. J \in Seq(Attempts) /\ X.order \in Seq(1..MaxRequests)
  BY DEF Extended, Indexes
<1>1. \A k \in DOMAIN O : O[k] \in DOMAIN X.buckets /\ O[k] # r /\ LinesIn(J, O[k]) # {}
  <2> SUFFICES ASSUME NEW k \in DOMAIN O
               PROVE  O[k] \in DOMAIN X.buckets /\ O[k] # r /\ LinesIn(J, O[k]) # {}
    OBVIOUS
  <2>1. O[k] \in DOMAIN X.buckets
    BY DEF FollowsIn, Entries
  <2> QED
    BY <1>0, <2>1, FollowsLines
<1>2. \A k, m \in DOMAIN O : O[k] = O[m] => k = m
  BY DEF FollowsIn
<1>3. \A k, m \in DOMAIN O : k < m => O[m] \in OvertakingIn(J, O[k])
  BY DEF RankedIn
<1>4. \A k \in DOMAIN O : /\ OvertakingIn(J, O[k]) \subseteq OvertakingIn(J2, O[k])
                          /\ r \in OvertakingIn(J2, O[k])
  <2> SUFFICES ASSUME NEW k \in DOMAIN O
               PROVE  /\ OvertakingIn(J, O[k]) \subseteq OvertakingIn(J2, O[k])
                      /\ r \in OvertakingIn(J2, O[k])
    OBVIOUS
  <2> DEFINE q == O[k]
  <2>1. LinesIn(J, q) # {} /\ a.id # q
    BY <1>1
  <2> HIDE DEF q
  <2>2. OvertakingIn(J, q) \subseteq OvertakingIn(J2, q) /\ a.id \in OvertakingIn(J2, q)
    BY <2>1, OvertakingGrows
  <2> QED
    BY <2>2 DEF q
<1> HIDE DEF O, r
<1>5. EnteredAt(O2, O, r, s)
  BY DEF O, r
<1>6. /\ \A k \in DOMAIN O2 : \/ k = Len(O2) /\ O2[k] = r
                              \/ k < Len(O2) /\ k + s \in DOMAIN O /\ O2[k] = O[k + s]
      /\ DOMAIN O2 \subseteq Nat /\ s \in {0, 1} /\ Len(O2) \in Nat
  BY <1>5, EnteredIs
<1>7. ASSUME NEW k \in DOMAIN O2, NEW m \in DOMAIN O2, O2[k] = O2[m] PROVE k = m
  <2>1. k \in Nat /\ m \in Nat
    BY <1>6
  <2>2. CASE k = Len(O2) /\ O2[k] = r
    BY <1>1, <1>6, <1>7, <2>2
  <2>3. CASE k < Len(O2) /\ k + s \in DOMAIN O /\ O2[k] = O[k + s]
    <3>1. m < Len(O2) /\ m + s \in DOMAIN O /\ O2[m] = O[m + s]
      BY <1>1, <1>6, <1>7, <2>3
    <3>2. k + s = m + s
      BY <1>2, <1>7, <2>3, <3>1
    <3> QED
      BY <1>6, <2>1, <3>2
  <2> QED
    BY <1>6, <2>2, <2>3
<1>8. ASSUME NEW k \in DOMAIN O2, NEW m \in DOMAIN O2, k < m
      PROVE  O2[m] \in OvertakingIn(J2, O2[k])
  <2>1. k \in Nat /\ m \in Nat /\ m <= Len(O2)
    BY <1>6
  <2>2. k + s \in DOMAIN O /\ O2[k] = O[k + s]
    BY <1>6, <1>8, <2>1
  <2>3. CASE O2[m] = r
    BY <1>4, <2>2, <2>3
  <2>4. CASE m + s \in DOMAIN O /\ O2[m] = O[m + s]
    <3>1. k + s < m + s
      BY <1>6, <1>8, <2>1
    <3>2. O[m + s] \in OvertakingIn(J, O[k + s])
      BY <1>3, <2>2, <2>4, <3>1
    <3> QED
      BY <1>4, <2>2, <2>4, <3>2
  <2> QED
    BY <1>6, <2>3, <2>4
<1> QED
  BY <1>7, <1>8

\* telemetry.py record_attempt: the index goes on to say what the journal says,
\* whichever request it has to forget.
LEMMA RecordGood ==
    ASSUME NEW X \in Indexes, NEW J, NEW a, NEW J2, Extended(J2, J, a),
           GoodIndex(X, J), NEW Y, Y = RecordAttempt(X, a.id, a)
    PROVE  GoodIndex(Y, J2)
<1> DEFINE r == a.id
           n == Len(J)
<1>0. /\ J \in Seq(Attempts) /\ a \in Attempts /\ n \in Nat
      /\ X.order \in Seq(1..MaxRequests) /\ r \in 1..MaxRequests
  BY DEF Extended, Indexes, Attempts
<1>1. /\ FollowsIn(X, J) /\ RankedIn(X, J) /\ WholeIn(X, J)
      /\ Len(X.order) <= MemoryLimit /\ Entries(X.order) = DOMAIN X.buckets
      /\ \A k, m \in DOMAIN X.order : X.order[k] = X.order[m] => k = m
      /\ \A q \in DOMAIN X.buckets : LatestIn(X.buckets[q], q, J)
  BY DEF GoodIndex, FollowsIn
<1>2. /\ J2 \in Seq(Attempts) /\ DOMAIN J2 = 1..(n + 1) /\ J2[n + 1] = a
      /\ \A i \in 1..n : J2[i] = J[i]
  BY DEF Extended
<1>3. \A q \in DOMAIN X.buckets :
        LinesIn(J, q) # {} /\ X.buckets[q] \in Seq(Attempts) /\ X.buckets[q] # << >>
  BY <1>0, <1>1, FollowsLines
<1>4. /\ \A q, b : q # r /\ LatestIn(b, q, J) => LatestIn(b, q, J2)
      /\ \A b \in Seq(Attempts) : LatestIn(b, r, J) => LatestIn(Append(b, a), r, J2)
      /\ LatestIn(<< a >>, r, J2)
  BY LatestGrows
<1>5. /\ \A q : q # r => LinesIn(J2, q) = LinesIn(J, q)
      /\ Cardinality(LinesIn(J2, r)) = Cardinality(LinesIn(J, r)) + 1
      /\ Cardinality(LinesIn(J, r)) \in Nat
      /\ Cardinality(LinesIn(J, r)) = 0 <=> LinesIn(J, r) = {}
  <2>1. \A q : q # r => LinesIn(J2, q) = LinesIn(J, q)
    BY JournalGrows
  <2>2. Cardinality(LinesIn(J2, r)) = Cardinality(LinesIn(J, r)) + 1
    BY JournalGrows
  <2> QED
    BY <1>0, <2>1, <2>2, LinesFinite
 \* What WholeIn says of a request with lines in J.
<1>6. ASSUME NEW q, LinesIn(J, q) # {}, Cardinality(OvertakingIn(J2, q)) < MemoryLimit
      PROVE  q \in DOMAIN X.buckets /\ Len(X.buckets[q]) = Cardinality(LinesIn(J, q))
  <2>1. PICK i \in DOMAIN J : J[i].id = q
    BY <1>6 DEF LinesIn
  <2>2. Cardinality(OvertakingIn(J, q)) < MemoryLimit
    BY <1>6, OvertakingGrows
  <2> QED
    BY <1>1, <2>1, <2>2 DEF WholeIn
 \* The requests with lines in J2.
<1>7. ASSUME NEW i \in DOMAIN J2, J2[i].id # r
      PROVE  LinesIn(J, J2[i].id) # {}
  <2>1. i \in 1..n /\ J2[i] = J[i]
    BY <1>0, <1>2, <1>7
  <2> QED
    BY <1>0, <2>1 DEF LinesIn
<1> HIDE DEF r, n
<1>8. CASE r \in DOMAIN X.buckets
  <2>1. /\ Y.order = X.order /\ DOMAIN Y.buckets = DOMAIN X.buckets
        /\ \A q \in DOMAIN X.buckets :
             Y.buckets[q] = IF q = r THEN Append(X.buckets[r], a) ELSE X.buckets[q]
    <3>1. r \in DOMAIN X.buckets /\ X.buckets[r] # << >> /\ Y = RecordAttempt(X, r, a)
      BY <1>3, <1>8 DEF r
    <3> QED
      BY <1>0, <1>1, <3>1, RecordKnown
  <2>2. ASSUME NEW q \in DOMAIN Y.buckets PROVE LatestIn(Y.buckets[q], q, J2)
    BY <1>1, <1>3, <1>4, <2>1
  <2>3. FollowsIn(Y, J2)
    BY <1>1, <2>1, <2>2 DEF FollowsIn
  <2>4. RankedIn(Y, J2)
    <3>1. \A q : OvertakingIn(J, q) \subseteq OvertakingIn(J2, q)
      BY OvertakingGrows
    <3> QED
      BY <1>1, <2>1, <3>1 DEF RankedIn
  <2>5. WholeIn(Y, J2)
    <3> SUFFICES ASSUME NEW i \in DOMAIN J2, NEW q, q = J2[i].id,
                        Cardinality(OvertakingIn(J2, q)) < MemoryLimit
                 PROVE  q \in DOMAIN Y.buckets /\ Len(Y.buckets[q]) = Cardinality(LinesIn(J2, q))
      BY DEF WholeIn
    <3>1. LinesIn(J, q) # {}
      BY <1>3, <1>7, <1>8
    <3>2. q \in DOMAIN X.buckets /\ Len(X.buckets[q]) = Cardinality(LinesIn(J, q))
      BY <1>6, <3>1
    <3>3. CASE q = r
      <4>1. Len(Append(X.buckets[r], a)) = Len(X.buckets[r]) + 1
        BY <1>0, <1>3, <1>8
      <4> QED
        BY <1>5, <2>1, <3>2, <3>3, <4>1
    <3>4. CASE q # r
      BY <1>5, <2>1, <3>2, <3>4
    <3> QED
      BY <3>3, <3>4
  <2> QED
    BY <2>3, <2>4, <2>5 DEF GoodIndex
<1>9. CASE r \notin DOMAIN X.buckets
  <2>1. Y \in Indexes /\ Y = RecordAttempt(X, r, a)
    BY <1>0, IndexTypes DEF r
  <2>2. /\ DOMAIN Y.buckets = Entries(Y.order)
        /\ Y.buckets[r] = << a >>
        /\ \A q \in DOMAIN Y.buckets :
             q # r => q \in DOMAIN X.buckets /\ Y.buckets[q] = X.buckets[q]
        /\ \E s \in {0, 1} :
             /\ Len(Y.order) = Len(X.order) + 1 - s /\ Len(Y.order) <= MemoryLimit
             /\ Len(X.order) - s \in Nat /\ (s = 1 => Len(X.order) = MemoryLimit)
             /\ \A k \in 1..(Len(X.order) - s) : Y.order[k] = X.order[k + s]
             /\ Y.order[Len(X.order) + 1 - s] = r
    BY <1>0, <1>1, <1>9, <2>1, RecordNew
  <2>3. PICK s \in {0, 1} : EnteredAt(Y.order, X.order, r, s)
    BY <1>0, <2>1, <2>2 DEF EnteredAt, Indexes
  <2>4. /\ \A k, m \in DOMAIN Y.order : Y.order[k] = Y.order[m] => k = m
        /\ \A k, m \in DOMAIN Y.order : k < m => Y.order[m] \in OvertakingIn(J2, Y.order[k])
    BY <1>1, <1>9, <2>3, EnteredRanked DEF r
  <2>5. /\ \A m \in DOMAIN X.order : m > s => X.order[m] \in Entries(Y.order)
        /\ \A k \in DOMAIN Y.order :
             \/ k = Len(Y.order) /\ Y.order[k] = r
             \/ k < Len(Y.order) /\ k + s \in DOMAIN X.order /\ Y.order[k] = X.order[k + s]
        /\ Len(Y.order) \in DOMAIN Y.order /\ DOMAIN Y.order \subseteq Nat
    BY <2>3, EnteredIs
  <2>6. r \in DOMAIN Y.buckets
    BY <2>2, <2>5 DEF Entries
  <2>7. ASSUME NEW q \in DOMAIN Y.buckets PROVE LatestIn(Y.buckets[q], q, J2)
    BY <1>1, <1>4, <2>2
  <2>8. FollowsIn(Y, J2)
    <3>1. Len(Y.order) <= MemoryLimit
      BY <2>2
    <3> QED
      BY <2>2, <2>4, <2>7, <3>1 DEF FollowsIn
  <2>9. RankedIn(Y, J2)
    BY <2>4 DEF RankedIn
  <2>10. WholeIn(Y, J2)
    <3> SUFFICES ASSUME NEW i \in DOMAIN J2, NEW q, q = J2[i].id,
                        Cardinality(OvertakingIn(J2, q)) < MemoryLimit
                 PROVE  q \in DOMAIN Y.buckets /\ Len(Y.buckets[q]) = Cardinality(LinesIn(J2, q))
      BY DEF WholeIn
    <3>1. CASE q = r
      <4>1. LinesIn(J, r) = {}
        BY <1>6, <1>9, <3>1
      <4>2. Len(<< a >>) = 1
        OBVIOUS
      <4> QED
        <5>1. Cardinality(LinesIn(J2, q)) = 1
          BY <1>5, <3>1, <4>1
        <5>2. Y.buckets[q] = << a >> /\ q \in DOMAIN Y.buckets
          BY <2>2, <2>6, <3>1
        <5> QED
          BY ONLY <4>2, <5>1, <5>2
    <3>2. CASE q # r
      <4>1. LinesIn(J, q) # {} /\ LinesIn(J2, q) = LinesIn(J, q)
        BY <1>5, <1>7, <3>2
      <4>2. q \in DOMAIN X.buckets /\ Len(X.buckets[q]) = Cardinality(LinesIn(J, q))
        BY <1>6, <4>1
      <4>3. q \in Entries(Y.order)
        <5> SUFFICES ASSUME q \notin Entries(Y.order) PROVE FALSE
          OBVIOUS
        <5>1. PICK m \in DOMAIN X.order : q = X.order[m]
          BY <1>1, <4>2 DEF Entries
        <5>2. m = 1 /\ s = 1
          BY <1>0, <2>5, <5>1
        <5>3. Len(Y.order) = MemoryLimit
          BY <1>0, <2>3, <5>2 DEF EnteredAt
        <5>4. Entries(Y.order) \subseteq OvertakingIn(J2, q)
          <6> SUFFICES ASSUME NEW k \in DOMAIN Y.order PROVE Y.order[k] \in OvertakingIn(J2, q)
            BY DEF Entries
          <6>1. r \in OvertakingIn(J2, q) /\ OvertakingIn(J, q) \subseteq OvertakingIn(J2, q)
            BY <3>2, <4>1, OvertakingGrows DEF r
          <6>2. CASE k + 1 \in DOMAIN X.order /\ Y.order[k] = X.order[k + 1]
            <7>1. 1 < k + 1
              BY <1>0, <2>1, <2>5, <5>2
            <7> QED
              BY <1>1, <5>1, <5>2, <6>1, <6>2, <7>1 DEF RankedIn
          <6> QED
            BY <2>5, <5>2, <6>1, <6>2
        <5>5. /\ IsFiniteSet(Entries(Y.order)) /\ Cardinality(Entries(Y.order)) = MemoryLimit
          <6>1. Y.order \in Seq(1..MaxRequests)
            BY <2>1 DEF Indexes
          <6> QED
            BY <2>4, <5>3, <6>1, EntriesCount
        <5>6. IsFiniteSet(OvertakingIn(J2, q))
          BY <1>2, OvertakingFinite
        <5>7. Cardinality(Entries(Y.order)) <= Cardinality(OvertakingIn(J2, q))
          BY <5>4, <5>6, FS_Subset
        <5>8. Cardinality(OvertakingIn(J2, q)) \in Nat
          BY <5>6, FS_CardinalityType
        <5> QED
          BY <5>5, <5>7, <5>8, IndexAssumption
      <4> QED
        BY <2>2, <3>2, <4>1, <4>2, <4>3
    <3> QED
      BY <3>1, <3>2
  <2> QED
    BY <2>8, <2>9, <2>10 DEF GoodIndex
<1> QED
  BY <1>8, <1>9

\* telemetry.py record_request leaves the buckets alone.
LEMMA RequestGood ==
    ASSUME NEW X \in Indexes, NEW J, NEW entry, GoodIndex(X, J)
    PROVE  GoodIndex(RecordRequest(X, entry), J)
<1> DEFINE Y == RecordRequest(X, entry)
<1>1. X = [requests |-> X.requests, buckets |-> X.buckets, order |-> X.order]
  BY DEF Indexes
<1>2. Y.order = X.order /\ Y.buckets = X.buckets
  BY <1>1 DEF RecordRequest
<1> HIDE DEF Y
<1>3. FollowsIn(Y, J) /\ RankedIn(Y, J) /\ WholeIn(Y, J)
  BY <1>2 DEF GoodIndex, FollowsIn, RankedIn, WholeIn
<1> QED
  BY <1>3 DEF GoodIndex, Y

-----------------------------------------------------------------------------
(* The two files. *)

\* A record and the attempts of its request; FilesJoin says it of each record.
JoinedIn(L, J, k) ==
    /\ \A m \in DOMAIN L : L[m].id = L[k].id => m = k
    /\ Cardinality(LinesIn(J, L[k].id)) = L[k].count
    /\ \A i \in LinesIn(J, L[k].id) :
         J[i].outcome = "accepted" <=> L[k].success /\ PlaceIn(J, i) = L[k].count

\* The attempts of a request are numbered as they come.
NumberedIn(J) == \A i \in DOMAIN J : J[i].number = PlaceIn(J, i) - 1

\* Nothing is written of a request that has not been sent.
IdsIssued ==
    /\ \A i \in DOMAIN journal : journal[i].id <= issued
    /\ \A k \in DOMAIN ledger : ledger[k].id <= issued

Active(c) == phase[c] \in {"queued", "calling"}

\* The handler of c is the only one that writes of its request: what the
\* journal holds of it are the attempts the handler remembers, none of them
\* accepted, and there is no record yet.
HandlerJoins(c) ==
    Active(c) =>
      /\ \A d \in Clients : Active(d) /\ id[d] = id[c] => d = c
      /\ \A k \in DOMAIN ledger : ledger[k].id # id[c]
      /\ Cardinality(LinesIn(journal, id[c])) = Len(tried[c])
      /\ \A i \in LinesIn(journal, id[c]) : journal[i].outcome # "accepted"

SinkInv ==
    /\ GoodIndex(index, journal)
    /\ \A k \in DOMAIN ledger : JoinedIn(ledger, journal, k)
    /\ NumberedIn(journal)
    /\ IdsIssued
    /\ \A c \in Clients : HandlerJoins(c)

LEMMA SinkInvAgrees == SinkInv => SinkAgrees
<1> SUFFICES ASSUME SinkInv PROVE SinkAgrees
  OBVIOUS
<1>1. /\ \A r : Lines(r) = LinesIn(journal, r)
      /\ \A i : Place(i) = PlaceIn(journal, i)
      /\ \A r : Overtaking(r) = OvertakingIn(journal, r)
  BY DEF Lines, LinesIn, Place, PlaceIn, Overtaking, OvertakingIn
<1>2. FilesJoin
  <2>1. \A r : LinesIn(journal, r) \subseteq DOMAIN journal
    BY DEF LinesIn
  <2> QED
    BY <1>1, <2>1 DEF SinkInv, JoinedIn, NumberedIn, FilesJoin
<1>3. IndexFollowsJournal
  BY <1>1 DEF SinkInv, GoodIndex, FollowsIn, LatestIn, IndexFollowsJournal
<1>4. WholeUnlessOvertaken
  BY <1>1 DEF SinkInv, GoodIndex, WholeIn, WholeUnlessOvertaken
<1> QED
  BY <1>2, <1>3, <1>4 DEF SinkAgrees

LEMMA SinkInit == Init => SinkInv
<1> SUFFICES ASSUME Init PROVE SinkInv
  OBVIOUS
<1>1. index = EmptyIndex /\ journal = << >> /\ ledger = << >>
  BY DEF Init
<1>2. index.order = << >> /\ index.buckets = << >>
  BY <1>1 DEF EmptyIndex
<1>3. GoodIndex(index, journal)
  BY <1>1, <1>2, IndexAssumption DEF GoodIndex, FollowsIn, RankedIn, WholeIn, Entries
<1>4. NumberedIn(journal) /\ IdsIssued /\ \A k \in DOMAIN ledger : JoinedIn(ledger, journal, k)
  BY <1>1 DEF NumberedIn, IdsIssued
<1>5. \A c \in Clients : HandlerJoins(c)
  BY DEF Init, HandlerJoins, Active
<1> QED
  BY <1>3, <1>4, <1>5 DEF SinkInv

\* A step that writes nothing: the handlers that are active were active
\* before, but for that of a request which has just been sent.
LEMMA QuietSink ==
    ASSUME IInv, SinkInv, NEW e, UNCHANGED sink, issued' \in Nat, issued <= issued',
           \A c \in Clients : Active(c)' =>
             \/ Active(c) /\ id'[c] = id[c] /\ tried'[c] = tried[c]
             \/ c = e /\ id'[c] = issued + 1 /\ tried'[c] = << >>
    PROVE  SinkInv'
<1>1. index' = index /\ journal' = journal /\ ledger' = ledger
  BY DEF sink
<1>2. /\ issued \in Nat /\ journal \in Seq(Attempts) /\ ledger \in Seq(Records)
      /\ tried \in [Clients -> Seq(Attempts)]
  BY DEF IInv, TypeOK
<1>3. (GoodIndex(index, journal) /\ NumberedIn(journal))'
  BY <1>1 DEF SinkInv
<1>4. (\A k \in DOMAIN ledger : JoinedIn(ledger, journal, k))'
  BY <1>1 DEF SinkInv
<1>5. IdsIssued'
  <2>1. ASSUME NEW i \in DOMAIN journal PROVE journal[i].id <= issued'
    <3>1. journal[i].id <= issued /\ journal[i].id \in Int
      <4>1. journal[i] \in Attempts
        BY <1>2
      <4>2. journal[i].id \in 1..MaxRequests
        BY <4>1 DEF Attempts
      <4> QED
        BY <4>2, MockAssumption DEF SinkInv, IdsIssued
    <3> QED
      BY <1>2, <3>1
  <2>2. ASSUME NEW k \in DOMAIN ledger PROVE ledger[k].id <= issued'
    <3>1. ledger[k].id <= issued /\ ledger[k].id \in Int
      <4>1. ledger[k] \in Records
        BY <1>2
      <4>2. ledger[k].id \in 1..MaxRequests
        BY <4>1 DEF Records
      <4> QED
        BY <4>2, MockAssumption DEF SinkInv, IdsIssued
    <3> QED
      BY <1>2, <3>1
  <2> QED
    BY <1>1, <2>1, <2>2 DEF IdsIssued
<1>6. \A c \in Clients : Active(c) => id[c] \in 1..issued
  BY DEF IInv, Numbered, Active
<1>7. ASSUME NEW c \in Clients, Active(c)' PROVE HandlerJoins(c)'
  <2>1. CASE Active(c) /\ id'[c] = id[c] /\ tried'[c] = tried[c]
    <3>1. ASSUME NEW d \in Clients, Active(d)', id'[d] = id'[c] PROVE d = c
      <4>1. CASE Active(d) /\ id'[d] = id[d]
        BY <2>1, <3>1, <4>1 DEF SinkInv, HandlerJoins
      <4>2. CASE d = e /\ id'[d] = issued + 1
        BY <1>2, <1>6, <2>1, <3>1, <4>2
      <4> QED
        BY <3>1, <4>1, <4>2
    <3>2. /\ \A k \in DOMAIN ledger : ledger[k].id # id[c]
          /\ Cardinality(LinesIn(journal, id[c])) = Len(tried[c])
          /\ \A i \in LinesIn(journal, id[c]) : journal[i].outcome # "accepted"
      BY <2>1 DEF SinkInv, HandlerJoins
    <3> QED
      BY <1>1, <2>1, <3>1, <3>2 DEF HandlerJoins
  <2>2. CASE c = e /\ id'[c] = issued + 1 /\ tried'[c] = << >>
    <3>1. ASSUME NEW d \in Clients, Active(d)', id'[d] = id'[c] PROVE d = c
      BY <1>2, <1>6, <2>2, <3>1
    <3>2. \A k \in DOMAIN ledger : ledger[k].id # issued + 1
      BY <1>2 DEF SinkInv, IdsIssued
    <3>3. LinesIn(journal, issued + 1) = {}
      BY <1>2 DEF SinkInv, IdsIssued, LinesIn
    <3>4. Cardinality(LinesIn(journal, issued + 1)) = 0 /\ Len(<< >>) = 0
      BY <3>3, FS_EmptySet
    <3> QED
      BY <1>1, <2>2, <3>1, <3>2, <3>3, <3>4 DEF HandlerJoins
  <2> QED
    BY <1>7, <2>1, <2>2
<1>8. \A c \in Clients : HandlerJoins(c)'
  BY <1>7 DEF HandlerJoins
<1> QED
  BY <1>3, <1>4, <1>5, <1>8 DEF SinkInv

\* What a call writes of its request.
LEMMA ReturnSink ==
    ASSUME IInv, NEW c \in Clients, Return(c)
    PROVE  /\ phase[c] = "calling" /\ UNCHANGED <<issued, id, order>>
           /\ \E o \in {"accepted", "unacceptable"}, a \in Attempts, entry \in Records :
                /\ a.id = id[c] /\ a.number = Len(tried[c]) /\ a.outcome = o
                /\ entry.id = id[c] /\ entry.count = Len(tried[c]) + 1
                /\ entry.success = (o = "accepted")
                /\ Extended(journal', journal, a)
                /\ tried' = [tried EXCEPT ![c] = Append(@, a)]
                /\ \/ /\ index' = RecordRequest(RecordAttempt(index, a.id, a), entry)
                      /\ ledger' = Append(ledger, entry)
                      /\ phase' = [phase EXCEPT ![c] = "answered"]
                   \/ /\ o # "accepted"
                      /\ index' = RecordAttempt(index, a.id, a)
                      /\ UNCHANGED <<ledger, phase>>
<1> DEFINE attempt(o) == [id |-> id[c], number |-> Len(tried[c]),
                          resolver |-> Called(c), outcome |-> o]
           entry(o) == [id |-> id[c], count |-> Len(tried[c]) + 1,
                         success |-> o = "accepted"]
<1>1. PICK o \in Outcomes \ {"raised"} :
        /\ tried' = [tried EXCEPT ![c] = Append(@, attempt(o))]
        /\ journal' = Append(journal, attempt(o))
        /\ IF Ends(c, o)
           THEN /\ index' = RecordRequest(RecordAttempt(index, id[c], attempt(o)), entry(o))
                /\ ledger' = Append(ledger, entry(o))
                /\ IF o = "accepted"
                   THEN Answer(c, "ok", Called(c))
                   ELSE Answer(c, "noAcceptableResult", None)
           ELSE /\ index' = RecordAttempt(index, id[c], attempt(o))
                /\ UNCHANGED <<ledger, phase, reply>>
  BY DEF Return
<1>2. phase[c] = "calling" /\ UNCHANGED <<issued, id, order>>
  BY DEF Return
<1>3. o \in {"accepted", "unacceptable"}
  BY DEF Outcomes
<1>4. /\ tried[c] \in Seq(Attempts) /\ journal \in Seq(Attempts) /\ id[c] \in 1..MaxRequests
      /\ Len(tried[c]) \in Nat
  <2>1. id[c] \in 1..issued /\ issued \in 0..MaxRequests
    BY <1>2 DEF IInv, Numbered, TypeOK
  <2> QED
    BY <2>1, MockAssumption DEF IInv, TypeOK
<1>5. Called(c) \in Ids
  <2>1. PICK a \in Attempts : a.resolver = Called(c)
    BY ReturnParts
  <2> QED
    BY <2>1 DEF Attempts
<1>6. /\ attempt(o) \in Attempts /\ attempt(o).id = id[c] /\ attempt(o).number = Len(tried[c])
      /\ attempt(o).outcome = o
  BY <1>3, <1>4, <1>5 DEF Attempts
<1>7. /\ entry(o) \in Records /\ entry(o).id = id[c] /\ entry(o).count = Len(tried[c]) + 1
      /\ entry(o).success = (o = "accepted")
  BY <1>4 DEF Records
<1> HIDE DEF attempt, entry
<1>8. Extended(journal', journal, attempt(o))
  BY <1>1, <1>4, <1>6 DEF Extended
<1>9. \/ /\ index' = RecordRequest(RecordAttempt(index, attempt(o).id, attempt(o)), entry(o))
         /\ ledger' = Append(ledger, entry(o))
         /\ phase' = [phase EXCEPT ![c] = "answered"]
      \/ /\ o # "accepted"
         /\ index' = RecordAttempt(index, attempt(o).id, attempt(o))
         /\ UNCHANGED <<ledger, phase>>
  BY <1>1, <1>6 DEF Answer, Ends
<1> QED
  BY <1>1, <1>2, <1>3, <1>6, <1>7, <1>8, <1>9

\* An answer of a resolver, seen by the files.
LEMMA ReturnFiles ==
    ASSUME IInv, SinkInv, NEW c \in Clients, Active(c),
           NEW a \in Attempts, a.id = id[c], a.number = Len(tried[c]),
           Extended(journal', journal, a)
    PROVE  /\ NumberedIn(journal')
           /\ \A k \in DOMAIN ledger : JoinedIn(ledger, journal', k) /\ ledger[k].id # id[c]
           /\ Cardinality(LinesIn(journal', id[c])) = Len(tried[c]) + 1
           /\ \A i \in LinesIn(journal', id[c]) :
                \/ journal'[i].outcome # "accepted" /\ PlaceIn(journal', i) # Len(tried[c]) + 1
                \/ journal'[i] = a /\ PlaceIn(journal', i) = Len(tried[c]) + 1
           /\ \A q : q # id[c] => LinesIn(journal', q) = LinesIn(journal, q)
           /\ \A i \in DOMAIN journal : journal'[i] = journal[i]
<1> DEFINE J == journal
           J2 == journal'
           n == Len(J)
           C == Len(tried[c])
           r == id[c]
<1>1. J2 \in Seq(Attempts) /\ Len(J2) = n + 1
  BY JournalGrows
<1>2. J2[n + 1] = a
  BY JournalGrows
<1>3. \A i \in 1..n : J2[i] = J[i]
  BY JournalGrows
<1>4. LinesIn(J2, r) = LinesIn(J, r) \cup {n + 1}
  BY JournalGrows
<1>5. \A q : q # r => LinesIn(J2, q) = LinesIn(J, q)
  BY JournalGrows
<1>6. Cardinality(LinesIn(J2, r)) = Cardinality(LinesIn(J, r)) + 1
  BY JournalGrows
<1>7. \A i \in 1..n : PlaceIn(J2, i) = PlaceIn(J, i)
  BY JournalGrows
<1>8. PlaceIn(J2, n + 1) = Cardinality(LinesIn(J, r)) + 1
  BY JournalGrows
<1>9. /\ \A k \in DOMAIN ledger : ledger[k].id # r
      /\ Cardinality(LinesIn(J, r)) = C
      /\ \A i \in LinesIn(J, r) : J[i].outcome # "accepted"
  BY DEF SinkInv, HandlerJoins
<1>10. J \in Seq(Attempts) /\ n \in Nat /\ C \in Nat /\ DOMAIN J = 1..n
  BY DEF IInv, TypeOK
<1>11. DOMAIN J2 = 1..(n + 1)
  BY <1>1
<1>12. \A q : LinesIn(J, q) \subseteq 1..n
  BY <1>10 DEF LinesIn
<1>13. \A i \in LinesIn(J, r) : PlaceIn(J, i) \in 1..C
  <2> SUFFICES ASSUME NEW i \in LinesIn(J, r) PROVE PlaceIn(J, i) \in 1..C
    OBVIOUS
  <2>1. i \in DOMAIN J /\ J[i].id = r
    BY DEF LinesIn
  <2>2. PlaceIn(J, i) \in 1..Cardinality(LinesIn(J, J[i].id))
    BY <1>10, <2>1, PlaceIs
  <2> QED
    BY <1>9, <2>1, <2>2
<1>14. NumberedIn(J) /\ \A k \in DOMAIN ledger : JoinedIn(ledger, J, k)
  BY DEF SinkInv
<1> HIDE DEF J, J2, n, C, r
<1>15. NumberedIn(J2)
  <2> SUFFICES ASSUME NEW i \in 1..(n + 1) PROVE J2[i].number = PlaceIn(J2, i) - 1
    BY <1>11 DEF NumberedIn
  <2>1. CASE i = n + 1
    <3>1. a.number = C
      BY DEF C
    <3> QED
      BY <1>2, <1>8, <1>9, <1>10, <2>1, <3>1
  <2>2. CASE i # n + 1
    <3>1. i \in 1..n
      BY <1>10, <2>2
    <3> QED
      BY <1>3, <1>7, <1>10, <1>14, <3>1 DEF NumberedIn
  <2> QED
    BY <2>1, <2>2
<1>16. ASSUME NEW k \in DOMAIN ledger
       PROVE  JoinedIn(ledger, J2, k) /\ ledger[k].id # r
  <2> DEFINE q == ledger[k].id
  <2>1. q # r /\ LinesIn(J2, q) = LinesIn(J, q) /\ LinesIn(J, q) \subseteq 1..n
    BY <1>5, <1>9, <1>12
  <2>2. \A i \in LinesIn(J, q) : J2[i] = J[i] /\ PlaceIn(J2, i) = PlaceIn(J, i)
    BY <1>3, <1>7, <2>1
  <2>3. /\ \A m \in DOMAIN ledger : ledger[m].id = q => m = k
        /\ Cardinality(LinesIn(J, q)) = ledger[k].count
        /\ \A i \in LinesIn(J, q) :
             J[i].outcome = "accepted" <=> ledger[k].success /\ PlaceIn(J, i) = ledger[k].count
    BY <1>14 DEF JoinedIn
  <2>4. JoinedIn(ledger, J2, k)
    BY <2>1, <2>2, <2>3 DEF JoinedIn
  <2> QED
    BY <2>1, <2>4
<1>17. ASSUME NEW i \in LinesIn(J2, r)
       PROVE  \/ J2[i].outcome # "accepted" /\ PlaceIn(J2, i) # C + 1
              \/ J2[i] = a /\ PlaceIn(J2, i) = C + 1
  <2>1. CASE i = n + 1
    BY <1>2, <1>8, <1>9, <2>1
  <2>2. CASE i \in LinesIn(J, r)
    <3>1. J2[i] = J[i] /\ PlaceIn(J2, i) = PlaceIn(J, i) /\ PlaceIn(J, i) \in 1..C
      BY <1>3, <1>7, <1>12, <1>13, <2>2
    <3> QED
      BY <1>9, <1>10, <2>2, <3>1
  <2> QED
    BY <1>4, <2>1, <2>2
<1>18. Cardinality(LinesIn(J2, r)) = C + 1 /\ \A i \in DOMAIN J : J2[i] = J[i]
  BY <1>3, <1>6, <1>9, <1>10
<1> QED
  BY <1>5, <1>15, <1>16, <1>17, <1>18 DEF J, J2, C, r

LEMMA ReturnSinkInv ==
    ASSUME IInv, SinkInv, NEW c \in Clients, Return(c)
    PROVE  SinkInv'
<1>1. PICK o \in {"accepted", "unacceptable"}, a \in Attempts, entry \in Records :
        /\ a.id = id[c] /\ a.number = Len(tried[c]) /\ a.outcome = o
        /\ entry.id = id[c] /\ entry.count = Len(tried[c]) + 1
        /\ entry.success = (o = "accepted")
        /\ Extended(journal', journal, a)
        /\ tried' = [tried EXCEPT ![c] = Append(@, a)]
        /\ \/ /\ index' = RecordRequest(RecordAttempt(index, a.id, a), entry)
              /\ ledger' = Append(ledger, entry)
              /\ phase' = [phase EXCEPT ![c] = "answered"]
           \/ /\ o # "accepted"
              /\ index' = RecordAttempt(index, a.id, a)
              /\ UNCHANGED <<ledger, phase>>
  BY ReturnSink
<1>2. phase[c] = "calling" /\ issued' = issued /\ id' = id
  BY ReturnSink
<1>3. /\ index \in Indexes /\ journal \in Seq(Attempts) /\ ledger \in Seq(Records)
      /\ tried \in [Clients -> Seq(Attempts)] /\ id[c] \in 1..issued /\ issued \in Nat
      /\ phase \in [Clients -> {"idle", "queued", "calling", "answered"}]
  BY <1>2 DEF IInv, TypeOK, Numbered
<1>4. Active(c)
  BY <1>2 DEF Active
<1>5. NumberedIn(journal')
  BY <1>1, <1>4, ReturnFiles
<1>6. \A k \in DOMAIN ledger : JoinedIn(ledger, journal', k) /\ ledger[k].id # id[c]
  BY <1>1, <1>4, ReturnFiles
<1>7. Cardinality(LinesIn(journal', id[c])) = Len(tried[c]) + 1
  BY <1>1, <1>4, ReturnFiles
<1>8. \A i \in LinesIn(journal', id[c]) :
        \/ journal'[i].outcome # "accepted" /\ PlaceIn(journal', i) # Len(tried[c]) + 1
        \/ journal'[i] = a /\ PlaceIn(journal', i) = Len(tried[c]) + 1
  BY <1>1, <1>4, ReturnFiles
<1>9. \A q : q # id[c] => LinesIn(journal', q) = LinesIn(journal, q)
  BY <1>1, <1>4, ReturnFiles
<1>10. \A i \in DOMAIN journal : journal'[i] = journal[i]
  BY <1>1, <1>4, ReturnFiles
<1>11. /\ Len(journal') = Len(journal) + 1 /\ journal'[Len(journal) + 1] = a
       /\ journal' \in Seq(Attempts) /\ Len(journal) \in Nat
  BY <1>1 DEF Extended
<1>12. GoodIndex(index', journal')
  <2> DEFINE X == RecordAttempt(index, a.id, a)
  <2>1. GoodIndex(X, journal')
    BY <1>1, <1>3, RecordGood DEF SinkInv
  <2>2. X \in Indexes
    <3>1. a.id \in 1..MaxRequests
      BY DEF Attempts
    <3> QED
      BY <1>3, <3>1, IndexTypes
  <2> HIDE DEF X
  <2>3. GoodIndex(RecordRequest(X, entry), journal')
    BY <2>1, <2>2, RequestGood
  <2> QED
    BY <1>1, <2>1, <2>3 DEF X
 \* The ledger gains the record of this request, or nothing.
<1>13. \/ ledger' = ledger
       \/ /\ ledger' \in Seq(Records) /\ Len(ledger') = Len(ledger) + 1
          /\ ledger'[Len(ledger) + 1] = entry
          /\ \A k \in 1..Len(ledger) : ledger'[k] = ledger[k]
          /\ phase' = [phase EXCEPT ![c] = "answered"]
  <2> SUFFICES ASSUME ledger' # ledger, ledger' = Append(ledger, entry),
                      phase' = [phase EXCEPT ![c] = "answered"]
               PROVE  /\ ledger' \in Seq(Records) /\ Len(ledger') = Len(ledger) + 1
                      /\ ledger'[Len(ledger) + 1] = entry
                      /\ \A k \in 1..Len(ledger) : ledger'[k] = ledger[k]
    BY <1>1
  <2> QED
    BY <1>3
<1>14. DOMAIN ledger = 1..Len(ledger) /\ Len(ledger) \in Nat
  BY <1>3
<1>15. ASSUME NEW k \in DOMAIN ledger' PROVE JoinedIn(ledger', journal', k)
  <2>1. CASE ledger' = ledger
    BY <1>6, <1>15, <2>1
  <2>2. CASE ledger' # ledger
    <3> DEFINE n == Len(ledger)
    <3>1. /\ DOMAIN ledger' = 1..(n + 1) /\ ledger'[n + 1] = entry
          /\ \A m \in 1..n : ledger'[m] = ledger[m]
      BY <1>13, <2>2
    <3> HIDE DEF n
    <3>2. CASE k = n + 1
      <4>1. \A m \in 1..n : ledger'[m].id # id[c]
        BY <1>6, <1>14, <3>1 DEF n
      <4>2. \A m \in DOMAIN ledger' : ledger'[m].id = ledger'[k].id => m = k
        BY <1>1, <1>14, <3>1, <3>2, <4>1 DEF n
      <4>3. ASSUME NEW i \in LinesIn(journal', id[c])
            PROVE  journal'[i].outcome = "accepted" <=>
                     entry.success /\ PlaceIn(journal', i) = entry.count
        BY <1>1, <1>8
      <4>4. ledger'[k] = entry
        BY <3>1, <3>2
      <4> QED
        BY <1>1, <1>7, <4>2, <4>3, <4>4 DEF JoinedIn
    <3>3. CASE k # n + 1
      <4>1. k \in 1..n /\ k \in DOMAIN ledger /\ ledger'[k] = ledger[k]
        BY <1>14, <1>15, <3>1, <3>3 DEF n
      <4>2. JoinedIn(ledger, journal', k) /\ ledger[k].id # id[c]
        BY <1>6, <4>1
      <4>3. \A m \in DOMAIN ledger' : ledger'[m].id = ledger'[k].id => m = k
        BY <1>1, <1>14, <3>1, <4>1, <4>2 DEF JoinedIn, n
      <4> QED
        BY <4>1, <4>2, <4>3 DEF JoinedIn
    <3> QED
      BY <3>2, <3>3
  <2> QED
    BY <2>1, <2>2
<1>16. IdsIssued'
  <2>1. ASSUME NEW i \in DOMAIN journal' PROVE journal'[i].id <= issued
    <3>1. CASE i \in DOMAIN journal
      BY <1>10, <3>1 DEF SinkInv, IdsIssued
    <3>2. CASE i \notin DOMAIN journal
      <4>1. i = Len(journal) + 1
        BY <1>3, <1>11, <3>2
      <4> QED
        BY <1>1, <1>3, <1>11, <4>1
    <3> QED
      BY <3>1, <3>2
  <2>2. ASSUME NEW k \in DOMAIN ledger' PROVE ledger'[k].id <= issued
    <3>1. CASE k \in DOMAIN ledger /\ ledger'[k] = ledger[k]
      BY <3>1 DEF SinkInv, IdsIssued
    <3>2. CASE ledger'[k] = entry
      BY <1>1, <1>3, <3>2
    <3>3. (k \in DOMAIN ledger /\ ledger'[k] = ledger[k]) \/ ledger'[k] = entry
      BY <1>13, <1>14, <2>2
    <3> QED
      BY <3>1, <3>2, <3>3
  <2> QED
    BY <1>2, <2>1, <2>2 DEF IdsIssued
<1>17. ASSUME NEW d \in Clients, Active(d)' PROVE Active(d) /\ (d = c => ledger' = ledger /\ o # "accepted")
  BY <1>1, <1>3, <1>4, <1>17 DEF Active
<1>18. \A k \in DOMAIN ledger' :
         ledger'[k].id = id[c] \/ (k \in DOMAIN ledger /\ ledger'[k] = ledger[k])
  <2>1. ASSUME NEW k \in DOMAIN ledger', ledger' # ledger, k \notin DOMAIN ledger
        PROVE  ledger'[k].id = id[c]
    <3>1. k = Len(ledger) + 1
      BY <1>13, <1>14, <2>1
    <3> QED
      BY <1>1, <1>13, <2>1, <3>1
  <2>2. ASSUME NEW k \in DOMAIN ledger' PROVE k \in DOMAIN ledger => ledger'[k] = ledger[k]
    BY <1>13, <1>14
  <2> QED
    BY <2>1, <2>2, Zenon
<1>19. ASSUME NEW d \in Clients, Active(d)' PROVE HandlerJoins(d)'
  <2>1. Active(d) /\ HandlerJoins(d)
    BY <1>17, <1>19 DEF SinkInv
  <2>2. \A e \in Clients : Active(e)' /\ id'[e] = id'[d] => e = d
    BY <1>2, <1>17, <2>1 DEF HandlerJoins
  <2>3. CASE d = c
    <3>1. ledger' = ledger /\ o # "accepted"
      BY <1>17, <1>19, <2>3
    <3>2. \A k \in DOMAIN ledger' : ledger'[k].id # id'[d]
      BY <1>2, <1>6, <2>3, <3>1
    <3>3. Cardinality(LinesIn(journal', id'[d])) = Len(tried'[d])
      <4>1. Len(tried'[c]) = Len(tried[c]) + 1
        BY <1>1, <1>3
      <4> QED
        BY <1>2, <1>7, <2>3, <4>1
    <3>4. \A i \in LinesIn(journal', id'[d]) : journal'[i].outcome # "accepted"
      BY <1>1, <1>2, <1>8, <2>3, <3>1
    <3> QED
      BY <2>2, <3>2, <3>3, <3>4 DEF HandlerJoins
  <2>4. CASE d # c
    <3>1. id[d] # id[c]
      BY <1>4, <2>1, <2>4 DEF HandlerJoins
    <3>2. \A k \in DOMAIN ledger' : ledger'[k].id # id'[d]
      BY <1>2, <1>18, <2>1, <3>1 DEF HandlerJoins
    <3>3. /\ LinesIn(journal', id[d]) = LinesIn(journal, id[d]) /\ tried'[d] = tried[d]
          /\ LinesIn(journal, id[d]) \subseteq DOMAIN journal
      BY <1>1, <1>3, <1>9, <2>4, <3>1 DEF LinesIn
    <3>4. \A i \in LinesIn(journal, id[d]) : journal'[i].outcome # "accepted"
      BY <1>10, <2>1, <3>3 DEF HandlerJoins
    <3>5. Cardinality(LinesIn(journal', id'[d])) = Len(tried'[d])
      BY <1>2, <2>1, <3>3 DEF HandlerJoins
    <3> QED
      BY <1>2, <2>2, <3>2, <3>3, <3>4, <3>5 DEF HandlerJoins
  <2> QED
    BY <2>3, <2>4
<1>20. \A d \in Clients : HandlerJoins(d)'
  BY <1>19 DEF HandlerJoins
<1> QED
  BY <1>5, <1>12, <1>15, <1>16, <1>20 DEF SinkInv

LEMMA SinkStep == IInv /\ SinkInv /\ [Next]_vars => SinkInv'
<1> SUFFICES ASSUME IInv, SinkInv, [Next]_vars PROVE SinkInv'
  OBVIOUS
<1>0. /\ issued \in Nat /\ phase \in [Clients -> {"idle", "queued", "calling", "answered"}]
      /\ id \in [Clients -> 0..MaxRequests] /\ tried \in [Clients -> Seq(Attempts)]
  BY DEF IInv, TypeOK
<1>1. CASE Reset \/ Finished \/ UNCHANGED vars
  <2>1. UNCHANGED <<index, journal, ledger, issued, phase, id, tried>>
    BY <1>1 DEF Reset, Finished, vars, sink, request
  <2>2. \A d \in Clients : Active(d)' =>
          \/ Active(d) /\ id'[d] = id[d] /\ tried'[d] = tried[d]
          \/ d = None /\ id'[d] = issued + 1 /\ tried'[d] = << >>
    BY <2>1 DEF Active
  <2>3. UNCHANGED sink /\ issued' \in Nat /\ issued <= issued'
    BY <1>0, <2>1 DEF sink
  <2> QED
    BY <2>2, <2>3, QuietSink
<1>2. ASSUME NEW c \in Clients, Submit(c) PROVE SinkInv'
  <2>1. /\ UNCHANGED sink /\ issued' = issued + 1 /\ id' = [id EXCEPT ![c] = issued + 1]
        /\ phase' = [phase EXCEPT ![c] = "queued"] /\ tried' = [tried EXCEPT ![c] = << >>]
    BY <1>2 DEF Submit
  <2>2. \A d \in Clients : Active(d)' =>
          \/ Active(d) /\ id'[d] = id[d] /\ tried'[d] = tried[d]
          \/ d = c /\ id'[d] = issued + 1 /\ tried'[d] = << >>
    BY <1>0, <2>1 DEF Active
  <2>3. issued' \in Nat /\ issued <= issued'
    BY <1>0, <2>1
  <2> QED
    BY <2>1, <2>2, <2>3, QuietSink
<1>3. ASSUME NEW c \in Clients, Refuse(c) \/ Start(c) \/ Raise(c) PROVE SinkInv'
  <2>1. UNCHANGED <<sink, issued, id, tried>>
    BY <1>3 DEF Refuse, Start, Raise, request
  <2>2. /\ phase[c] \in {"queued", "calling"}
        /\ phase' = [phase EXCEPT ![c] = "answered"] \/ phase' = [phase EXCEPT ![c] = "calling"]
    BY <1>3 DEF Refuse, Start, Raise, Answer
  <2>3. \A d \in Clients : Active(d)' => Active(d) /\ id'[d] = id[d] /\ tried'[d] = tried[d]
    BY <1>0, <2>1, <2>2 DEF Active
  <2>4. issued' \in Nat /\ issued <= issued'
    BY <1>0, <2>1
  <2> QED
    BY <2>1, <2>3, <2>4, QuietSink
<1>4. ASSUME NEW c \in Clients, Return(c) PROVE SinkInv'
  BY <1>4, ReturnSinkInv
<1> QED
  BY <1>1, <1>2, <1>3, <1>4 DEF Next

\* The two files and the index tell the same story of every request, for every
\* number of clients, every list of resolvers, every memory limit and however
\* the requests interleave: a record joins to all the attempts of its request,
\* and a bucket is short of some only when as many other requests as the index
\* can hold have overtaken it.
THEOREM SinkIsTrue == Spec => []SinkAgrees
<1>1. Init => IInv /\ SinkInv
  BY InitInv, SinkInit
<1>2. SinkInv => SinkAgrees
  BY SinkInvAgrees
<1> QED
  BY <1>1, <1>2, SinkStep, MockInvariant, PTL DEF Spec

-----------------------------------------------------------------------------
(* The mock resolver.  The reference of its module is stated of any log, so *)
(* that it can be stated of the log that a step leaves.                     *)

Events ==
    [kind : {"arrival"}, wellFormed : BOOLEAN] \cup [kind : {"set"}, behaviour : Injected]
    \cup [kind : {"reset"}]

EventsIn(L, i, kinds) == {j \in 1..i : L[j].kind \in kinds}
LatestOf(S) == CHOOSE j \in S : \A k \in S : k <= j

ForceIn(L, i) ==
    LET calls == EventsIn(L, i, {"set", "reset"})
    IN IF calls = {} THEN Settings
       ELSE IF L[LatestOf(calls)].kind = "reset" THEN Resolver!Healthy
            ELSE L[LatestOf(calls)].behaviour

SinceIn(L, i) ==
    LET resets == EventsIn(L, i, {"reset"})
    IN IF resets = {} THEN 0 ELSE LatestOf(resets)

CountedIn(L, i) == {j \in EventsIn(L, i, {"arrival"}) : j > SinceIn(L, i)}

\* What a handler takes when it starts.
TakenAt(L, i) == [current |-> ForceIn(L, i), number |-> Cardinality(CountedIn(L, i))]

ReplyAt(L, i) ==
    IF L[i].wellFormed THEN Resolver!ReplyTo(ForceIn(L, i), Cardinality(CountedIn(L, i)))
    ELSE Resolver!Refusal

\* The handlers that sleep, and the replies sent, of the arrivals in log L.
HandlersOf(L, R) ==
    /\ R = [i \in DOMAIN R |-> R[i]]
    /\ \A i \in DOMAIN R :
         /\ R[i] = [taken |-> TakenAt(L, i), sleep |-> R[i].sleep]
         /\ L[i].wellFormed
RepliesOf(L, A) == \A i \in DOMAIN A : A[i] = ReplyAt(L, i)
ServedOnce(L, R, A) ==
    /\ DOMAIN R \cap DOMAIN A = {}
    /\ DOMAIN R \cup DOMAIN A = EventsIn(L, Len(L), {"arrival"})

ResolverInv ==
    /\ resolverLog \in Seq(Events)
    /\ resolverBehaviour = ForceIn(resolverLog, Len(resolverLog))
    /\ resolverCounter = Cardinality(CountedIn(resolverLog, Len(resolverLog)))
    /\ HandlersOf(resolverLog, resolverRunning)
    /\ RepliesOf(resolverLog, resolverReplies)
    /\ ServedOnce(resolverLog, resolverRunning, resolverReplies)

\* L2 is log L with event e at its end.
EventAdded(L2, L, e) == L \in Seq(Events) /\ e \in Events /\ L2 = Append(L, e)

LEMMA LogGrows ==
    ASSUME NEW L2, NEW L, NEW e, EventAdded(L2, L, e)
    PROVE  /\ L2 \in Seq(Events) /\ Len(L2) = Len(L) + 1 /\ L2[Len(L) + 1] = e
           /\ Len(L) \in Nat
           /\ \A i \in 1..Len(L) : L2[i] = L[i]
  BY DEF EventAdded

LEMMA LeastElement ==
    ASSUME NEW T \in SUBSET Nat, T # {}
    PROVE  \E n \in T : \A m \in T : n <= m
<1>1. PICK n \in T : \A m \in T : ~ (<<m, n>> \in OpToRel(<, Nat))
  BY NatLessThanWellFounded, WFMin
<1>2. \A m \in T : ~ (m < n)
  BY <1>1 DEF OpToRel
<1>3. \A m \in T : m \in Nat /\ n \in Nat
  OBVIOUS
<1> QED
  BY <1>2, <1>3

LEMMA LatestIs ==
    ASSUME NEW S \in SUBSET Nat, NEW m \in S, \A k \in S : k <= m
    PROVE  LatestOf(S) = m
<1>1. \E j \in S : \A k \in S : k <= j
  OBVIOUS
<1>2. LatestOf(S) \in S /\ \A k \in S : k <= LatestOf(S)
  BY <1>1, Zenon DEF LatestOf
<1>3. LatestOf(S) <= m /\ m <= LatestOf(S) /\ m \in Nat /\ LatestOf(S) \in Nat
  BY <1>2
<1> HIDE DEF LatestOf
<1> QED
  BY <1>3

LEMMA LatestExists ==
    ASSUME NEW n \in Nat, NEW S \in SUBSET (1..n), S # {}
    PROVE  /\ LatestOf(S) \in S /\ \A k \in S : k <= LatestOf(S)
<1> DEFINE U == {m \in Nat : \A k \in S : k <= m}
<1>1. n \in U /\ U \in SUBSET Nat
  OBVIOUS
<1>2. PICK m \in U : \A k \in U : m <= k
  <2> HIDE DEF U
  <2> QED
    BY <1>1, LeastElement
<1>3. m \in Nat /\ \A k \in S : k <= m /\ k \in Nat /\ k >= 1
  OBVIOUS
<1>4. m \in S
  <2> SUFFICES ASSUME m \notin S PROVE FALSE
    OBVIOUS
  <2>1. PICK x \in S : TRUE
    OBVIOUS
  <2>2. m - 1 \in Nat
    BY <1>3, <2>1
  <2>3. ASSUME NEW k \in S PROVE k <= m - 1
    <3>1. k # m
      OBVIOUS
    <3> QED
      BY <1>3, <3>1
  <2>4. m - 1 \in U
    BY <2>2, <2>3
  <2> QED
    BY <1>2, <1>3, <2>4
<1>5. S \in SUBSET Nat /\ \A k \in S : k <= m
  BY <1>3
<1> QED
  BY <1>4, <1>5, LatestIs

LEMMA CountedFinite ==
    ASSUME NEW L, NEW i \in Nat
    PROVE  /\ \A kinds : IsFiniteSet(EventsIn(L, i, kinds))
           /\ IsFiniteSet(CountedIn(L, i)) /\ Cardinality(CountedIn(L, i)) \in Nat
<1>1. IsFiniteSet(1..i)
  BY FS_Interval
<1>2. \A kinds : EventsIn(L, i, kinds) \in SUBSET (1..i)
  BY DEF EventsIn
<1>3. CountedIn(L, i) \in SUBSET (1..i)
  BY <1>2 DEF CountedIn
<1> QED
  BY <1>1, <1>2, <1>3, FS_Subset, FS_CardinalityType

\* What had happened when an event was logged stays what it was.
LEMMA EarlierIsKept ==
    ASSUME NEW L2, NEW L, NEW e, EventAdded(L2, L, e), NEW i \in 0..Len(L)
    PROVE  /\ \A kinds : EventsIn(L2, i, kinds) = EventsIn(L, i, kinds)
           /\ ForceIn(L2, i) = ForceIn(L, i)
           /\ CountedIn(L2, i) = CountedIn(L, i)
<1>1. \A kinds : EventsIn(L2, i, kinds) = EventsIn(L, i, kinds)
  BY LogGrows DEF EventsIn
<1>2. ForceIn(L2, i) = ForceIn(L, i)
  <2> DEFINE calls == EventsIn(L, i, {"set", "reset"})
  <2>1. CASE calls = {}
    BY <1>1, <2>1 DEF ForceIn
  <2>2. CASE calls # {}
    <3>1. calls \in SUBSET (1..i) /\ i \in Nat /\ Len(L) \in Nat
      BY LogGrows DEF EventsIn
    <3>2. LatestOf(calls) \in calls
      <4> HIDE DEF calls
      <4> QED
        BY <2>2, <3>1, LatestExists
    <3>3. L2[LatestOf(calls)] = L[LatestOf(calls)]
      BY <3>1, <3>2, LogGrows
    <3> QED
      BY <1>1, <2>2, <3>3 DEF ForceIn
  <2> QED
    BY <2>1, <2>2
<1>3. CountedIn(L2, i) = CountedIn(L, i)
  BY <1>1 DEF CountedIn, SinceIn
<1> QED
  BY <1>1, <1>2, <1>3

\* What an event changes.
LEMMA EventCounts ==
    ASSUME NEW L2, NEW L, NEW e, EventAdded(L2, L, e)
    PROVE  LET n == Len(L) IN
           /\ e.kind = "arrival" =>
                /\ ForceIn(L2, n + 1) = ForceIn(L, n)
                /\ Cardinality(CountedIn(L2, n + 1)) = Cardinality(CountedIn(L, n)) + 1
                /\ EventsIn(L2, n + 1, {"arrival"}) = EventsIn(L, n, {"arrival"}) \cup {n + 1}
           /\ e.kind = "set" =>
                /\ ForceIn(L2, n + 1) = e.behaviour
                /\ CountedIn(L2, n + 1) = CountedIn(L, n)
                /\ EventsIn(L2, n + 1, {"arrival"}) = EventsIn(L, n, {"arrival"})
           /\ e.kind = "reset" =>
                /\ ForceIn(L2, n + 1) = Resolver!Healthy
                /\ CountedIn(L2, n + 1) = {}
                /\ EventsIn(L2, n + 1, {"arrival"}) = EventsIn(L, n, {"arrival"})
<1> DEFINE n == Len(L)
<1>1. /\ n \in Nat /\ L2[n + 1] = e /\ \A i \in 1..n : L2[i] = L[i]
      /\ 1..(n + 1) = (1..n) \cup {n + 1} /\ n \in 0..n
  BY LogGrows
<1> HIDE DEF n
<1>2. ASSUME NEW kinds
      PROVE  EventsIn(L2, n + 1, kinds)
               = IF e.kind \in kinds THEN EventsIn(L, n, kinds) \cup {n + 1}
                 ELSE EventsIn(L, n, kinds)
  BY <1>1 DEF EventsIn
<1>3. \A kinds : EventsIn(L, n, kinds) \in SUBSET (1..n)
  BY DEF EventsIn
<1>4. ASSUME NEW kinds, e.kind \in kinds
      PROVE  LatestOf(EventsIn(L2, n + 1, kinds)) = n + 1
  <2>1. EventsIn(L2, n + 1, kinds) = EventsIn(L, n, kinds) \cup {n + 1}
    BY <1>2, <1>4
  <2>2. \A k \in EventsIn(L, n, kinds) : k \in 1..n
    BY <1>3
  <2> HIDE DEF EventsIn
  <2> QED
    BY <1>1, <2>1, <2>2, LatestIs
<1>5. CASE e.kind = "arrival"
  <2> DEFINE calls == EventsIn(L, n, {"set", "reset"})
  <2>1. EventsIn(L2, n + 1, {"set", "reset"}) = calls
    BY <1>2, <1>5
  <2>2. calls # {} => L2[LatestOf(calls)] = L[LatestOf(calls)]
    <3> HIDE DEF calls
    <3>1. calls \in SUBSET (1..n)
      BY <1>3 DEF calls
    <3> QED
      BY <1>1, <3>1, LatestExists
  <2>3. ForceIn(L2, n + 1) = ForceIn(L, n)
    BY <2>1, <2>2 DEF ForceIn
  <2>4. SinceIn(L2, n + 1) = SinceIn(L, n)
    BY <1>2, <1>5 DEF SinceIn
  <2>5. SinceIn(L, n) \in 0..n
    <3>1. EventsIn(L, n, {"reset"}) \in SUBSET (1..n)
      BY <1>3
    <3> HIDE DEF EventsIn
    <3>2. CASE EventsIn(L, n, {"reset"}) # {}
      <4>1. LatestOf(EventsIn(L, n, {"reset"})) \in EventsIn(L, n, {"reset"})
        BY <1>1, <3>1, <3>2, LatestExists
      <4> QED
        BY <1>1, <3>1, <3>2, <4>1 DEF SinceIn
    <3> QED
      BY <1>1, <3>2 DEF SinceIn
  <2>6. EventsIn(L2, n + 1, {"arrival"}) = EventsIn(L, n, {"arrival"}) \cup {n + 1}
    BY <1>2, <1>5
  <2>7. CountedIn(L2, n + 1) = CountedIn(L, n) \cup {n + 1}
    BY <1>1, <2>4, <2>5, <2>6 DEF CountedIn
  <2>8. n + 1 \notin CountedIn(L, n) /\ IsFiniteSet(CountedIn(L, n))
    <3>1. \A k \in EventsIn(L, n, {"arrival"}) : k \in 1..n
      BY <1>3
    <3> QED
      BY <1>1, <3>1, CountedFinite DEF CountedIn
  <2>9. Cardinality(CountedIn(L2, n + 1)) = Cardinality(CountedIn(L, n)) + 1
    BY <2>7, <2>8, FS_AddElement
  <2> QED
    BY <1>5, <2>3, <2>6, <2>9 DEF n
<1>6. CASE e.kind = "set"
  <2>1. LatestOf(EventsIn(L2, n + 1, {"set", "reset"})) = n + 1
    BY <1>4, <1>6
  <2>2. EventsIn(L2, n + 1, {"set", "reset"}) # {}
    BY <1>2, <1>6
  <2>3. ForceIn(L2, n + 1) = e.behaviour
    BY <1>1, <1>6, <2>1, <2>2 DEF ForceIn
  <2>4. /\ EventsIn(L2, n + 1, {"reset"}) = EventsIn(L, n, {"reset"})
        /\ EventsIn(L2, n + 1, {"arrival"}) = EventsIn(L, n, {"arrival"})
    BY <1>2, <1>6
  <2>5. CountedIn(L2, n + 1) = CountedIn(L, n)
    BY <2>4 DEF CountedIn, SinceIn
  <2> QED
    BY <1>6, <2>3, <2>4, <2>5 DEF n
<1>7. CASE e.kind = "reset"
  <2>1. /\ LatestOf(EventsIn(L2, n + 1, {"set", "reset"})) = n + 1
        /\ LatestOf(EventsIn(L2, n + 1, {"reset"})) = n + 1
    BY <1>4, <1>7
  <2>2. /\ EventsIn(L2, n + 1, {"set", "reset"}) # {}
        /\ EventsIn(L2, n + 1, {"reset"}) # {}
    BY <1>2, <1>7
  <2>3. ForceIn(L2, n + 1) = Resolver!Healthy
    BY <1>1, <1>7, <2>1, <2>2 DEF ForceIn
  <2>4. EventsIn(L2, n + 1, {"arrival"}) = EventsIn(L, n, {"arrival"})
    BY <1>2, <1>7
  <2>5. SinceIn(L2, n + 1) = n + 1
    BY <2>1, <2>2 DEF SinceIn
  <2>6. \A k \in EventsIn(L, n, {"arrival"}) : ~(k > n + 1)
    BY <1>1, <1>3
  <2>7. CountedIn(L2, n + 1) = {}
    BY <2>4, <2>5, <2>6 DEF CountedIn
  <2> QED
    BY <1>7, <2>3, <2>4, <2>7 DEF n
<1> QED
  BY <1>5, <1>6, <1>7 DEF n

\* What is known of requests that have arrived does not change with the log.
LEMMA LogKeeps ==
    ASSUME NEW L2, NEW L, NEW e, EventAdded(L2, L, e), NEW R, NEW A, ServedOnce(L, R, A)
    PROVE  /\ DOMAIN R \cup DOMAIN A \subseteq 1..Len(L)
           /\ Len(L) + 1 \notin DOMAIN R \cup DOMAIN A
           /\ HandlersOf(L, R) => HandlersOf(L2, R)
           /\ RepliesOf(L, A) => RepliesOf(L2, A)
<1>1. DOMAIN R \cup DOMAIN A \subseteq 1..Len(L) /\ Len(L) \in Nat
  BY LogGrows DEF ServedOnce, EventsIn
<1>2. Len(L) + 1 \notin DOMAIN R \cup DOMAIN A
  BY <1>1
<1>3. ASSUME NEW i \in 1..Len(L)
      PROVE  L2[i] = L[i] /\ TakenAt(L2, i) = TakenAt(L, i) /\ ReplyAt(L2, i) = ReplyAt(L, i)
  <2>1. i \in 0..Len(L) /\ L2[i] = L[i]
    BY <1>1, LogGrows
  <2> QED
    BY <2>1, EarlierIsKept DEF TakenAt, ReplyAt
<1>4. HandlersOf(L, R) => HandlersOf(L2, R)
  BY <1>1, <1>3 DEF HandlersOf
<1>5. RepliesOf(L, A) => RepliesOf(L2, A)
  BY <1>1, <1>3 DEF RepliesOf
<1> QED
  BY <1>1, <1>2, <1>4, <1>5

\* An admin call.
LEMMA AdminStep ==
    ASSUME ResolverInv, NEW e, EventAdded(resolverLog', resolverLog, e), e.kind # "arrival",
           UNCHANGED <<resolverRunning, resolverReplies>>,
           resolverBehaviour' = ForceIn(resolverLog', Len(resolverLog) + 1),
           resolverCounter' = Cardinality(CountedIn(resolverLog', Len(resolverLog) + 1))
    PROVE  ResolverInv'
<1> DEFINE L == resolverLog
           L2 == resolverLog'
           R == resolverRunning
           A == resolverReplies
<1>1. L2 \in Seq(Events) /\ Len(L2) = Len(L) + 1
  BY LogGrows
<1>2. ServedOnce(L, R, A) /\ HandlersOf(L, R) /\ RepliesOf(L, A)
  BY DEF ResolverInv
<1>3. HandlersOf(L2, R) /\ RepliesOf(L2, A)
  BY <1>2, LogKeeps
<1>4. e.kind \in {"set", "reset"}
  BY DEF EventAdded, Events
<1>5. EventsIn(L2, Len(L2), {"arrival"}) = EventsIn(L, Len(L), {"arrival"})
  BY <1>1, <1>4, EventCounts
<1>6. ServedOnce(L2, R, A)
  BY <1>2, <1>5 DEF ServedOnce
<1> QED
  BY <1>1, <1>3, <1>6 DEF ResolverInv

\* A request arrives, and is answered at once or sleeps.
LEMMA ArrivalStep ==
    ASSUME ResolverInv, NEW e, EventAdded(resolverLog', resolverLog, e), e.kind = "arrival",
           resolverBehaviour' = resolverBehaviour, resolverCounter' = resolverCounter + 1,
           \/ /\ resolverRunning' = resolverRunning
              /\ resolverReplies' = Resolver!Extend(resolverReplies, Len(resolverLog'),
                                       ReplyAt(resolverLog', Len(resolverLog')))
           \/ /\ resolverReplies' = resolverReplies /\ e.wellFormed
              /\ \E s : resolverRunning' = Resolver!Extend(resolverRunning, Len(resolverLog'),
                          [taken |-> TakenAt(resolverLog', Len(resolverLog')), sleep |-> s])
    PROVE  ResolverInv'
<1> DEFINE L == resolverLog
           L2 == resolverLog'
           R == resolverRunning
           A == resolverReplies
           n == Len(L)
<1>1. L2 \in Seq(Events) /\ Len(L2) = n + 1 /\ L2[n + 1] = e
  BY LogGrows
<1>2. ServedOnce(L, R, A) /\ HandlersOf(L, R) /\ RepliesOf(L, A)
  BY DEF ResolverInv
<1>3. /\ HandlersOf(L2, R) /\ RepliesOf(L2, A) /\ n + 1 \notin DOMAIN R \cup DOMAIN A
  BY <1>2, LogKeeps
<1>4. /\ ForceIn(L2, n + 1) = ForceIn(L, n)
      /\ Cardinality(CountedIn(L2, n + 1)) = Cardinality(CountedIn(L, n)) + 1
      /\ EventsIn(L2, n + 1, {"arrival"}) = EventsIn(L, n, {"arrival"}) \cup {n + 1}
  BY EventCounts
<1>5. /\ resolverBehaviour' = ForceIn(L2, Len(L2))
      /\ resolverCounter' = Cardinality(CountedIn(L2, Len(L2)))
  BY <1>1, <1>4 DEF ResolverInv
<1>6. CASE /\ resolverRunning' = R
           /\ resolverReplies' = Resolver!Extend(A, n + 1, ReplyAt(L2, n + 1))
  <2>1. RepliesOf(L2, resolverReplies')
    BY <1>3, <1>6 DEF RepliesOf, Resolver!Extend
  <2>2. ServedOnce(L2, R, resolverReplies')
    BY <1>1, <1>2, <1>3, <1>4, <1>6 DEF ServedOnce, Resolver!Extend
  <2> QED
    BY <1>1, <1>3, <1>5, <1>6, <2>1, <2>2 DEF ResolverInv
<1>7. ASSUME NEW s, e.wellFormed, resolverReplies' = A,
             resolverRunning' = Resolver!Extend(R, n + 1,
                                  [taken |-> TakenAt(L2, n + 1), sleep |-> s])
      PROVE  ResolverInv'
  <2>1. HandlersOf(L2, resolverRunning')
    BY <1>1, <1>3, <1>7 DEF HandlersOf, Resolver!Extend
  <2>2. ServedOnce(L2, resolverRunning', A)
    BY <1>1, <1>2, <1>3, <1>4, <1>7 DEF ServedOnce, Resolver!Extend
  <2> QED
    BY <1>1, <1>3, <1>5, <1>7, <2>1, <2>2 DEF ResolverInv
<1> QED
  BY <1>1, <1>6, <1>7

\* A sleep ends.
LEMMA WakeStep ==
    ASSUME ResolverInv, NEW i \in DOMAIN resolverRunning, Resolver!Wake(i)
    PROVE  ResolverInv'
<1> DEFINE L == resolverLog
           R == resolverRunning
           A == resolverReplies
           R2 == resolverRunning'
           A2 == resolverReplies'
           h == R[i]
<1>1. UNCHANGED <<resolverBehaviour, resolverCounter, resolverLog>>
  BY DEF Resolver!Wake
<1>2. ServedOnce(L, R, A) /\ HandlersOf(L, R) /\ RepliesOf(L, A)
  BY DEF ResolverInv
<1>3. h = [taken |-> TakenAt(L, i), sleep |-> h.sleep] /\ L[i].wellFormed
  BY <1>2 DEF HandlersOf
<1>4. \/ R2 = [R EXCEPT ![i].sleep = "delay"] /\ A2 = A
      \/ R2 = Resolver!Without(R, i) /\ A2 = Resolver!Extend(A, i, Resolver!Answer(h))
  BY DEF Resolver!Wake
<1>5. ASSUME R2 = [R EXCEPT ![i].sleep = "delay"], A2 = A
      PROVE  HandlersOf(L, R2) /\ RepliesOf(L, A2) /\ ServedOnce(L, R2, A2)
  <2>1. R2 = [j \in DOMAIN R |-> IF j = i THEN [taken |-> TakenAt(L, i), sleep |-> "delay"]
                                 ELSE R[j]]
    <3>1. R = [j \in DOMAIN R |-> R[j]]
      BY <1>2 DEF HandlersOf
    <3>2. R2 = [j \in DOMAIN R |-> IF j = i THEN [h EXCEPT !.sleep = "delay"] ELSE R[j]]
      BY <1>5, <3>1
    <3>3. [h EXCEPT !.sleep = "delay"] = [taken |-> TakenAt(L, i), sleep |-> "delay"]
      BY <1>3
    <3> QED
      BY <3>2, <3>3
  <2>2. HandlersOf(L, R2)
    BY <1>2, <1>3, <2>1 DEF HandlersOf
  <2>3. DOMAIN R2 = DOMAIN R
    BY <2>1
  <2> QED
    BY <1>2, <1>5, <2>2, <2>3 DEF ServedOnce
<1>6. ASSUME R2 = Resolver!Without(R, i), A2 = Resolver!Extend(A, i, Resolver!Answer(h))
      PROVE  HandlersOf(L, R2) /\ RepliesOf(L, A2) /\ ServedOnce(L, R2, A2)
  <2>1. HandlersOf(L, R2)
    BY <1>2, <1>6 DEF HandlersOf, Resolver!Without
  <2>2. Resolver!Answer(h) = ReplyAt(L, i)
    BY <1>3 DEF Resolver!Answer, ReplyAt, TakenAt
  <2>3. RepliesOf(L, A2)
    BY <1>2, <1>6, <2>2 DEF RepliesOf, Resolver!Extend
  <2>4. DOMAIN R2 = DOMAIN R \ {i} /\ DOMAIN A2 = DOMAIN A \cup {i}
    BY <1>6 DEF Resolver!Without, Resolver!Extend
  <2>5. ServedOnce(L, R2, A2)
    BY <1>2, <2>4 DEF ServedOnce
  <2> QED
    BY <2>1, <2>3, <2>5
<1> QED
  BY <1>1, <1>4, <1>5, <1>6 DEF ResolverInv

LEMMA InitResolver == Resolver!Init => ResolverInv
<1> SUFFICES ASSUME Resolver!Init PROVE ResolverInv
  OBVIOUS
<1>1. /\ resolverBehaviour = Settings /\ resolverCounter = 0 /\ resolverLog = << >>
      /\ resolverRunning = << >> /\ resolverReplies = << >> /\ Len(resolverLog) = 0
  BY DEF Resolver!Init
<1>2. \A kinds : EventsIn(resolverLog, 0, kinds) = {}
  BY DEF EventsIn
<1>3. CountedIn(resolverLog, 0) = {} /\ ForceIn(resolverLog, 0) = Settings
  BY <1>2 DEF CountedIn, ForceIn
<1>4. /\ HandlersOf(resolverLog, resolverRunning) /\ RepliesOf(resolverLog, resolverReplies)
      /\ ServedOnce(resolverLog, resolverRunning, resolverReplies)
  BY <1>1, <1>2 DEF HandlersOf, RepliesOf, ServedOnce
<1>5. resolverLog \in Seq(Events)
  BY <1>1
<1> QED
  BY <1>1, <1>3, <1>4, <1>5, FS_EmptySet DEF ResolverInv

LEMMA ResolverStep == ResolverInv /\ [Resolver!Next]_(Resolver!vars) => ResolverInv'
<1> SUFFICES ASSUME ResolverInv, [Resolver!Next]_(Resolver!vars) PROVE ResolverInv'
  OBVIOUS
<1> DEFINE L == resolverLog
           n == Len(L)
<1>0. L \in Seq(Events) /\ n \in Nat
  BY DEF ResolverInv
<1>1. ASSUME Resolver!Resolve PROVE ResolverInv'
  <2> DEFINE e == Resolver!Arrival(TRUE)
             L2 == resolverLog'
             t == Resolver!Taken
  <2>1. /\ L2 = Append(L, e) /\ resolverCounter' = resolverCounter + 1
        /\ resolverBehaviour' = resolverBehaviour
        /\ \/ /\ resolverRunning' = resolverRunning
              /\ resolverReplies' = Resolver!Extend(resolverReplies, Len(L2),
                                       Resolver!ReplyTo(t.current, t.number))
           \/ /\ resolverReplies' = resolverReplies
              /\ \E s : resolverRunning' =
                          Resolver!Extend(resolverRunning, Len(L2), [taken |-> t, sleep |-> s])
    BY <1>1, Zenon DEF Resolver!Resolve, Resolver!Logged
  <2>2. e \in Events /\ e.kind = "arrival" /\ e.wellFormed
    BY DEF Resolver!Arrival, Events
  <2>3. EventAdded(L2, L, e)
    BY <1>0, <2>1, <2>2 DEF EventAdded
  <2>4. Len(L2) = n + 1 /\ L2[n + 1] = e
    BY <2>3, LogGrows
  <2>5. t = TakenAt(L2, n + 1)
    <3>1. /\ ForceIn(L2, n + 1) = ForceIn(L, n)
          /\ Cardinality(CountedIn(L2, n + 1)) = Cardinality(CountedIn(L, n)) + 1
      BY <2>2, <2>3, EventCounts
    <3> QED
      BY <3>1 DEF Resolver!Taken, TakenAt, ResolverInv
  <2>6. Resolver!ReplyTo(t.current, t.number) = ReplyAt(L2, n + 1)
    BY <2>2, <2>4, <2>5 DEF TakenAt, ReplyAt
  <2> HIDE DEF e, t
  <2> QED
    BY <2>1, <2>2, <2>3, <2>4, <2>5, <2>6, ArrivalStep
<1>2. ASSUME Resolver!Refuse PROVE ResolverInv'
  <2> DEFINE e == Resolver!Arrival(FALSE)
             L2 == resolverLog'
  <2>1. /\ L2 = Append(L, e) /\ resolverCounter' = resolverCounter + 1
        /\ resolverBehaviour' = resolverBehaviour
        /\ resolverRunning' = resolverRunning
        /\ resolverReplies' = Resolver!Extend(resolverReplies, Len(L2), Resolver!Refusal)
    BY <1>2 DEF Resolver!Refuse, Resolver!Logged
  <2>2. e \in Events /\ e.kind = "arrival" /\ ~e.wellFormed
    BY DEF Resolver!Arrival, Events
  <2>3. EventAdded(L2, L, e)
    BY <1>0, <2>1, <2>2 DEF EventAdded
  <2>4. Len(L2) = n + 1 /\ L2[n + 1] = e
    BY <2>3, LogGrows
  <2>5. Resolver!Refusal = ReplyAt(L2, n + 1)
    BY <2>2, <2>4 DEF ReplyAt
  <2> HIDE DEF e
  <2> QED
    BY <2>1, <2>2, <2>3, <2>4, <2>5, ArrivalStep
<1>3. ASSUME Resolver!Reset PROVE ResolverInv'
  <2> DEFINE e == Resolver!Restored
             L2 == resolverLog'
  <2>1. /\ L2 = Append(L, e) /\ resolverCounter' = 0 /\ resolverBehaviour' = Resolver!Healthy
        /\ UNCHANGED <<resolverRunning, resolverReplies>>
    BY <1>3 DEF Resolver!Reset, Resolver!Logged
  <2>2. e \in Events /\ e.kind = "reset"
    BY DEF Resolver!Restored, Events
  <2>3. EventAdded(L2, L, e)
    BY <1>0, <2>1, <2>2 DEF EventAdded
  <2>4. ForceIn(L2, n + 1) = Resolver!Healthy /\ Cardinality(CountedIn(L2, n + 1)) = 0
    BY <2>2, <2>3, EventCounts, FS_EmptySet
  <2> HIDE DEF e
  <2> QED
    BY <2>1, <2>2, <2>3, <2>4, AdminStep
<1>4. ASSUME NEW b \in Injected, Resolver!SetBehaviour(b) PROVE ResolverInv'
  <2> DEFINE e == Resolver!Admin(b)
             L2 == resolverLog'
  <2>1. /\ L2 = Append(L, e) /\ resolverBehaviour' = b
        /\ UNCHANGED <<resolverCounter, resolverRunning, resolverReplies>>
    BY <1>4 DEF Resolver!SetBehaviour, Resolver!Logged
  <2>2. e \in Events /\ e.kind = "set" /\ e.behaviour = b
    BY DEF Resolver!Admin, Events
  <2>3. EventAdded(L2, L, e)
    BY <1>0, <2>1, <2>2 DEF EventAdded
  <2>4. ForceIn(L2, n + 1) = b /\ CountedIn(L2, n + 1) = CountedIn(L, n)
    BY <2>2, <2>3, EventCounts
  <2>5. resolverCounter' = Cardinality(CountedIn(L2, n + 1))
    BY <2>1, <2>4 DEF ResolverInv
  <2> HIDE DEF e
  <2> QED
    BY <2>1, <2>2, <2>3, <2>4, <2>5, AdminStep
<1>5. ASSUME UNCHANGED Resolver!vars PROVE ResolverInv'
  BY <1>5 DEF Resolver!vars, ResolverInv
<1> QED
  BY <1>1, <1>2, <1>3, <1>4, <1>5, WakeStep DEF Resolver!Next

-----------------------------------------------------------------------------
(* What the invariant says of the replies. *)

\* Two multiples of a period are a period apart.
LEMMA MultiplesApart ==
    ASSUME NEW n \in Nat \ {0}, NEW a \in Nat, NEW b \in Nat, b > 0,
           a % n = 0, (a + b) % n = 0
    PROVE  b >= n
<1>1. PICK q \in Nat : a = n * q
  <2>1. a = n * (a \div n) /\ a \div n \in Nat
    OBVIOUS
  <2> QED
    BY <2>1
<1>2. PICK p \in Nat : a + b = n * p
  <2> DEFINE c == a + b
  <2>0. c \in Nat /\ c % n = 0
    OBVIOUS
  <2> HIDE DEF c
  <2>1. c = n * (c \div n) /\ c \div n \in Nat
    BY <2>0
  <2> QED
    BY <2>1 DEF c
<1>3. b = n * (p - q)
  BY <1>1, <1>2
<1>4. p - q > 0
  BY <1>3
<1> QED
  BY <1>3, <1>4

\* The arrivals after event i, up to event j.
Between(L, i, j) == {k \in EventsIn(L, j, {"arrival"}) : k > i}

\* The last reset before an arrival.
LEMMA SinceIs ==
    ASSUME NEW L, NEW i \in Nat \ {0}, L[i].kind = "arrival"
    PROVE  /\ SinceIn(L, i) \in 0..(i - 1)
           /\ \A k \in EventsIn(L, i, {"reset"}) : k <= SinceIn(L, i)
           /\ SinceIn(L, i) # 0 => SinceIn(L, i) \in EventsIn(L, i, {"reset"})
           /\ i \in CountedIn(L, i) /\ Cardinality(CountedIn(L, i)) \in Nat \ {0}
<1> DEFINE S == EventsIn(L, i, {"reset"})
<1>1. S \in SUBSET (1..i) /\ i \notin S /\ i \in EventsIn(L, i, {"arrival"})
  BY DEF EventsIn
<1>2. /\ SinceIn(L, i) \in 0..(i - 1)
      /\ \A k \in S : k <= SinceIn(L, i)
      /\ SinceIn(L, i) # 0 => SinceIn(L, i) \in S
  <2>1. S = {} => SinceIn(L, i) = 0
    BY DEF SinceIn
  <2>2. S # {} => /\ SinceIn(L, i) = LatestOf(S)
    BY DEF SinceIn
  <2> HIDE DEF S
  <2>3. S # {} => LatestOf(S) \in S /\ \A k \in S : k <= LatestOf(S)
    BY <1>1, LatestExists
  <2>4. ASSUME NEW k \in S PROVE k \in 0..(i - 1)
    BY <1>1
  <2> QED
    BY <2>1, <2>2, <2>3, <2>4
<1>3. i \in CountedIn(L, i)
  BY <1>1, <1>2 DEF CountedIn
<1>4. Cardinality(CountedIn(L, i)) \in Nat \ {0}
  BY <1>3, CountedFinite, FS_EmptySet
<1> QED
  BY <1>2, <1>3, <1>4

\* Two arrivals whose numbers are multiples of a period are a period apart.
LEMMA PeriodApart ==
    ASSUME NEW L, NEW n \in Nat \ {0}, NEW i \in Nat \ {0}, NEW j \in Nat, i < j,
           L[i].kind = "arrival", L[j].kind = "arrival",
           Cardinality(CountedIn(L, i)) % n = 0, Cardinality(CountedIn(L, j)) % n = 0
    PROVE  Cardinality(Between(L, i, j)) >= n
<1> DEFINE B == Between(L, i, j)
           a == Cardinality(CountedIn(L, i))
           c == Cardinality(CountedIn(L, j))
<1>1. /\ SinceIn(L, i) \in 0..(i - 1) /\ SinceIn(L, j) \in 0..(j - 1) /\ a \in Nat /\ c \in Nat \ {0}
      /\ \A k \in EventsIn(L, i, {"reset"}) : k <= SinceIn(L, i)
      /\ SinceIn(L, i) # 0 => SinceIn(L, i) \in EventsIn(L, i, {"reset"})
      /\ \A k \in EventsIn(L, j, {"reset"}) : k <= SinceIn(L, j)
      /\ SinceIn(L, j) # 0 => SinceIn(L, j) \in EventsIn(L, j, {"reset"})
  BY SinceIs
<1>2. /\ IsFiniteSet(B) /\ Cardinality(B) \in Nat /\ j \in B
      /\ IsFiniteSet(CountedIn(L, i)) /\ IsFiniteSet(CountedIn(L, j))
  <2>1. B \in SUBSET EventsIn(L, j, {"arrival"}) /\ j \in B
    BY DEF Between, EventsIn
  <2>2. IsFiniteSet(EventsIn(L, j, {"arrival"}))
    BY CountedFinite
  <2>3. IsFiniteSet(B) /\ Cardinality(B) \in Nat
    BY <2>1, <2>2, FS_Subset, FS_CardinalityType
  <2> QED
    BY <2>1, <2>3, CountedFinite
<1>3. CASE SinceIn(L, j) >= i
  <2>1. CountedIn(L, j) \subseteq B
    <3>1. \A k \in EventsIn(L, j, {"arrival"}) : k \in Nat
      BY DEF EventsIn
    <3> QED
      BY <1>1, <1>3, <3>1 DEF CountedIn, Between
  <2>2. c <= Cardinality(B)
    BY <1>2, <2>1, FS_Subset
  <2>3. c >= n
    <3>1. (0 + c) % n = 0 /\ 0 % n = 0
      BY <1>1
    <3> HIDE DEF c
    <3> QED
      BY <1>1, <3>1, MultiplesApart
  <2> QED
    BY <1>1, <1>2, <2>2, <2>3
<1>4. CASE SinceIn(L, j) < i
  <2>1. SinceIn(L, j) = SinceIn(L, i)
    <3>1. SinceIn(L, j) # 0 => SinceIn(L, j) \in EventsIn(L, i, {"reset"})
      BY <1>1, <1>4 DEF EventsIn
    <3>2. SinceIn(L, i) # 0 => SinceIn(L, i) \in EventsIn(L, j, {"reset"})
      BY <1>1 DEF EventsIn
    <3> QED
      BY <1>1, <3>1, <3>2
  <2>2. CountedIn(L, j) = CountedIn(L, i) \cup B
    <3>1. ASSUME NEW k PROVE k \in CountedIn(L, j) <=> k \in CountedIn(L, i) \cup B
      <4>1. k \in EventsIn(L, j, {"arrival"}) => k \in Nat
        BY DEF EventsIn
      <4>2. k \in EventsIn(L, i, {"arrival"}) <=> k \in EventsIn(L, j, {"arrival"}) /\ k <= i
        BY DEF EventsIn
      <4> QED
        BY <1>1, <2>1, <4>1, <4>2 DEF CountedIn, Between
    <3> QED
      BY <3>1
  <2>3. CountedIn(L, i) \cap B = {}
    BY DEF CountedIn, Between, EventsIn
  <2>4. c = a + Cardinality(B)
    <3>1. c = a + Cardinality(B) - Cardinality(CountedIn(L, i) \cap B)
      BY <1>2, <2>2, FS_Union
    <3>2. Cardinality(CountedIn(L, i) \cap B) = 0
      BY <2>3, FS_EmptySet
    <3> HIDE DEF a, B, c
    <3> QED
      BY <1>1, <1>2, <3>1, <3>2
  <2>5. Cardinality(B) > 0
    BY <1>2, FS_EmptySet
  <2> HIDE DEF B, a, c
  <2>6. a % n = 0 /\ (a + Cardinality(B)) % n = 0
    BY <2>4 DEF a, c
  <2> QED
    BY <1>1, <1>2, <2>5, <2>6, MultiplesApart DEF B
<1> QED
  BY <1>1, <1>3, <1>4

\* The reference of the module is the reference of the log.
LEMMA ReferenceIs ==
    ASSUME NEW i \in Nat
    PROVE  /\ \A kinds : Resolver!Upto(i, kinds) = EventsIn(resolverLog, i, kinds)
           /\ Resolver!InForce(i) = ForceIn(resolverLog, i)
           /\ Resolver!Arrived(i) = Cardinality(CountedIn(resolverLog, i))
           /\ Resolver!Expected(i) = ReplyAt(resolverLog, i)
<1>1. \A kinds : Resolver!Upto(i, kinds) = EventsIn(resolverLog, i, kinds)
  BY DEF Resolver!Upto, EventsIn
<1>2. \A S : Resolver!Latest(S) = LatestOf(S)
  BY DEF Resolver!Latest, LatestOf
<1>3. \A S : Resolver!Cardinality(S) = Cardinality(S)
  BY DEF Resolver!Cardinality, Cardinality
<1>4. Resolver!InForce(i) = ForceIn(resolverLog, i)
  BY <1>1, <1>2 DEF Resolver!InForce, ForceIn
<1>5. Resolver!Arrived(i) = Cardinality(CountedIn(resolverLog, i))
  BY <1>1, <1>2, <1>3 DEF Resolver!Arrived, CountedIn, SinceIn
<1> QED
  BY <1>1, <1>4, <1>5 DEF Resolver!Expected, ReplyAt

LEMMA ResolverInvGives ==
    ASSUME Resolver!ResolverAssumption, ResolverInv
    PROVE  Resolver!AnsweredAsInjected
<1> DEFINE L == resolverLog
           A == resolverReplies
<1>1. Len(L) \in Nat /\ DOMAIN A \subseteq EventsIn(L, Len(L), {"arrival"})
  BY DEF ResolverInv, ServedOnce
<1>2. \A i \in DOMAIN A : i \in Nat \ {0} /\ L[i].kind = "arrival"
  BY <1>1 DEF EventsIn
<1>3. Resolver!DeterminedOnArrival
  BY <1>2, ReferenceIs DEF Resolver!DeterminedOnArrival, ResolverInv, RepliesOf
<1>4. Resolver!AnsweredOnce
  BY <1>1, ReferenceIs DEF Resolver!AnsweredOnce, ResolverInv, ServedOnce
<1>5. Resolver!FailuresSpaced
  <2> SUFFICES ASSUME NEW n \in {b.every : b \in Injected} \ {0},
                      NEW i \in Resolver!CountedFailures(n),
                      NEW j \in Resolver!CountedFailures(n), i < j
               PROVE  Resolver!Cardinality({k \in Resolver!Upto(j, {"arrival"}) : k > i}) >= n
    BY DEF Resolver!FailuresSpaced
  <2>1. n \in Nat \ {0}
    BY DEF Resolver!ResolverAssumption, Resolver!Behaviours
  <2>2. ASSUME NEW k \in Resolver!CountedFailures(n)
        PROVE  /\ k \in Nat \ {0} /\ L[k].kind = "arrival"
               /\ Cardinality(CountedIn(L, k)) % n = 0
    <3>1. /\ k \in DOMAIN A /\ A[k].status = "error"
          /\ ~Resolver!InForce(k).error /\ Resolver!InForce(k).every = n
      BY DEF Resolver!CountedFailures
    <3>2. /\ k \in Nat \ {0} /\ L[k].kind = "arrival"
      BY <1>2, <3>1
    <3>3. A[k] = ReplyAt(L, k)
      BY <3>1 DEF ResolverInv, RepliesOf
    <3>4. ~ForceIn(L, k).error /\ ForceIn(L, k).every = n
      BY <3>1, <3>2, ReferenceIs
    <3>5. A[k] # Resolver!Refusal
      BY <3>1 DEF Resolver!Refusal
    <3>6. A[k] = Resolver!ReplyTo(ForceIn(L, k), Cardinality(CountedIn(L, k)))
      BY <3>3, <3>5 DEF ReplyAt
    <3>7. Resolver!Fails(ForceIn(L, k), Cardinality(CountedIn(L, k)))
      BY <3>1, <3>6 DEF Resolver!ReplyTo
    <3> QED
      BY <3>2, <3>4, <3>7 DEF Resolver!Fails
  <2>3. Cardinality(Between(L, i, j)) >= n
    BY <2>1, <2>2, PeriodApart
  <2>4. {k \in Resolver!Upto(j, {"arrival"}) : k > i} = Between(L, i, j)
    BY <2>2, ReferenceIs DEF Between
  <2>5. Resolver!Cardinality(Between(L, i, j)) = Cardinality(Between(L, i, j))
    BY DEF Resolver!Cardinality, Cardinality
  <2> QED
    BY <2>3, <2>4, <2>5
<1> QED
  BY <1>3, <1>4, <1>5 DEF Resolver!AnsweredAsInjected

\* The inductive invariant of a mock resolver, of any injected behaviours and
\* any number of events: a sleeping handler holds what its arrival took.
THEOREM ResolverInvariant == Resolver!Spec => []ResolverInv
<1>1. Resolver!Init => ResolverInv
  BY InitResolver
<1>2. ResolverInv /\ [Resolver!Next]_(Resolver!vars) => ResolverInv'
  BY ResolverStep
<1> QED
  BY <1>1, <1>2, PTL DEF Resolver!Spec

\* AnsweredAsInjected for any behaviours, periods and lengths of run: a reply
\* is what its arrival determined, and counted failures keep their distance.
THEOREM AnsweredAsArrived == Resolver!Spec => []AnsweredAsInjected
<1>1. ResolverInv => AnsweredAsInjected
  BY ResolverInvGives, ResolverAssumed DEF AnsweredAsInjected
<1> QED
  BY <1>1, ResolverInvariant, PTL

-----------------------------------------------------------------------------
(***************************************************************************)
(* The index of the routing service.                                       *)
(***************************************************************************)
Buckets == routingIndex.buckets

\* The first n attempts of request r.
FirstOf(r, n) == [k \in 1..n |-> <<r, k>>]

RoutingType ==
    /\ count \in [Requests -> Nat] /\ entered \in [Requests -> Nat]
    /\ handlerPhase \in [Requests ->
         {"executing", "ready", "recording", "answered", "failed"}]
    /\ routingJournal \in Seq(Requests \X Nat)
    /\ routingIndex \in [requests : Seq(Requests),
                         buckets : UNION {[D -> Seq(Requests \X Nat)] : D \in SUBSET Requests}]
    /\ Len(routingIndex.requests) <= MemoryLimit

\* Only one handler is between its records.
Alone == \A r, s \in Routing!Recording : r = s

\* A handler enters its attempts from the first to the last.
EnteredInTurn(r) ==
    /\ handlerPhase[r] = "executing" => count[r] = 0
    /\ handlerPhase[r] \in {"executing", "ready"} => entered[r] = 0
    /\ handlerPhase[r] # "executing" => count[r] > 0
    /\ entered[r] <= count[r]
    /\ handlerPhase[r] = "answered" => entered[r] = count[r]

\* The lines of a request in file J, and their places among them.
LinesOf(J, r) == {i \in DOMAIN J : J[i][1] = r}
PlaceOf(J, i) == Cardinality({j \in 1..i : J[j][1] = J[i][1]})

\* The file has the first n attempts of r in their order.
Journaled(J, r, n) ==
    /\ Cardinality(LinesOf(J, r)) = n
    /\ \A i \in LinesOf(J, r) : J[i] = <<r, PlaceOf(J, i)>>

\* The bucket of a request that is retained or being entered is whole so far.
BucketKept(r) ==
    /\ handlerPhase[r] \in {"executing", "ready"} => r \notin DOMAIN Buckets
    /\ r \in Routing!Retained => handlerPhase[r] = "answered"
    /\ handlerPhase[r] = "answered" =>
         (r \in DOMAIN Buckets <=> r \in Routing!Retained)
    /\ handlerPhase[r] = "recording" => (r \in DOMAIN Buckets <=> entered[r] > 0)
    /\ r \in DOMAIN Buckets => Buckets[r] = FirstOf(r, entered[r])

\* The last request recorded has cleared the index of what is not retained.
Cleared ==
    routingJournal # << >> =>
      (handlerPhase[routingJournal[Len(routingJournal)][1]] = "answered"
         => DOMAIN Buckets \subseteq Routing!Retained)

RoutingInv ==
    /\ RoutingType /\ Alone /\ Cleared
    /\ \A r \in Requests :
         EnteredInTurn(r) /\ BucketKept(r) /\ Journaled(routingJournal, r, entered[r])

LEMMA LinesAreFinite ==
    ASSUME NEW J \in Seq(Requests \X Nat), NEW r
    PROVE  IsFiniteSet(LinesOf(J, r)) /\ Cardinality(LinesOf(J, r)) \in Nat
<1>1. Len(J) \in Nat /\ DOMAIN J = 1..Len(J)
  OBVIOUS
<1>2. LinesOf(J, r) \in SUBSET (1..Len(J))
  BY <1>1 DEF LinesOf
<1>3. IsFiniteSet(1..Len(J))
  <2>1. Len(J) \in Int /\ 1 \in Int
    BY <1>1
  <2> QED
    BY <2>1, FS_Interval
<1> HIDE DEF LinesOf
<1> QED
  BY <1>2, <1>3, FS_Subset, FS_CardinalityType

LEMMA PlaceExists ==
    ASSUME NEW J \in Seq(Requests \X Nat), NEW i \in DOMAIN J
    PROVE  PlaceOf(J, i) \in 1..Cardinality(LinesOf(J, J[i][1]))
<1> DEFINE S == {j \in 1..i : J[j][1] = J[i][1]}
           T == LinesOf(J, J[i][1])
<1>1. i \in 1..Len(J) /\ Len(J) \in Nat /\ DOMAIN J = 1..Len(J)
  OBVIOUS
<1>2. S \in SUBSET T /\ i \in S
  BY <1>1 DEF LinesOf
<1>3. IsFiniteSet(T) /\ Cardinality(T) \in Nat
  BY LinesAreFinite
<1> HIDE DEF S, T
<1>4. IsFiniteSet(S) /\ Cardinality(S) <= Cardinality(T)
  BY <1>2, <1>3, FS_Subset
<1>5. Cardinality(S) \in Nat /\ Cardinality(S) # 0
  BY <1>2, <1>4, FS_CardinalityType, FS_EmptySet
<1> QED
  BY <1>3, <1>4, <1>5 DEF PlaceOf, S, T

\* K is file J with attempt n + 1 of request r added.
AttemptAdded(J, K, r, n) ==
    /\ J \in Seq(Requests \X Nat) /\ r \in Requests /\ n \in Nat
    /\ K = Append(J, <<r, n + 1>>)

LEMMA FileGrows ==
    ASSUME NEW J, NEW K, NEW r, NEW n, AttemptAdded(J, K, r, n)
    PROVE  /\ Journaled(J, r, n) => Journaled(K, r, n + 1)
           /\ \A s, m : s # r => (Journaled(J, s, m) => Journaled(K, s, m))
<1> DEFINE l == Len(J)
           a == <<r, n + 1>>
<1>1. /\ Len(K) = l + 1 /\ K[l + 1] = a /\ l \in Nat
      /\ DOMAIN J = 1..l /\ DOMAIN K = 1..(l + 1)
      /\ \A i \in 1..l : K[i] = J[i]
  BY DEF AttemptAdded
<1>2. a[1] = r /\ J \in Seq(Requests \X Nat) /\ n \in Nat
  BY DEF AttemptAdded
<1> HIDE DEF l, a
<1>3. /\ LinesOf(K, r) = LinesOf(J, r) \cup {l + 1}
      /\ l + 1 \notin LinesOf(J, r)
      /\ \A s : s # r => LinesOf(K, s) = LinesOf(J, s)
  BY <1>1, <1>2 DEF LinesOf
<1>4. ASSUME NEW i \in 1..l PROVE PlaceOf(K, i) = PlaceOf(J, i)
  <2>1. {j \in 1..i : K[j][1] = K[i][1]} = {j \in 1..i : J[j][1] = J[i][1]}
    BY <1>1
  <2> QED
    BY <2>1 DEF PlaceOf
<1>5. PlaceOf(K, l + 1) = Cardinality(LinesOf(K, r))
  <2>1. {j \in 1..(l + 1) : K[j][1] = K[l + 1][1]} = LinesOf(K, r)
    BY <1>1, <1>2 DEF LinesOf
  <2> QED
    BY <2>1 DEF PlaceOf
<1>6. Cardinality(LinesOf(K, r)) = Cardinality(LinesOf(J, r)) + 1
  <2>1. IsFiniteSet(LinesOf(J, r))
    BY <1>2, LinesAreFinite
  <2> QED
    BY <1>3, <2>1, FS_AddElement
<1>7. \A s : \A i \in LinesOf(J, s) : i \in 1..l
  BY <1>1 DEF LinesOf
<1>8. ASSUME Journaled(J, r, n) PROVE Journaled(K, r, n + 1)
  <2>1. Cardinality(LinesOf(K, r)) = n + 1
    BY <1>6, <1>8 DEF Journaled
  <2>2. ASSUME NEW i \in LinesOf(J, r) PROVE K[i] = <<r, PlaceOf(K, i)>>
    BY <1>1, <1>4, <1>7, <1>8 DEF Journaled
  <2>3. K[l + 1] = <<r, PlaceOf(K, l + 1)>>
    BY <1>1, <1>5, <2>1 DEF a
  <2> QED
    BY <1>3, <2>1, <2>2, <2>3 DEF Journaled
<1>9. ASSUME NEW s, NEW m, s # r, Journaled(J, s, m) PROVE Journaled(K, s, m)
  BY <1>1, <1>3, <1>4, <1>7, <1>9 DEF Journaled
<1> QED
  BY <1>8, <1>9

LEMMA FirstGrows ==
    ASSUME NEW r, NEW n \in Nat
    PROVE  /\ FirstOf(r, 0) = << >>
           /\ Append(FirstOf(r, n), <<r, n + 1>>) = FirstOf(r, n + 1)
           /\ Len(FirstOf(r, n)) = n
           /\ r \in Requests => FirstOf(r, n) \in Seq(Requests \X Nat)
  BY DEF FirstOf

LEMMA RoutingInvGives ==
    ASSUME RoutingInv
    PROVE  Routing!RetainedIsWhole
<1>1. Len(routingIndex.requests) <= MemoryLimit
  BY DEF RoutingInv, RoutingType
<1>2. ASSUME NEW r \in Requests, r \in Routing!Retained
      PROVE  /\ handlerPhase[r] = "answered"
             /\ Routing!BucketOf(routingIndex, r) = FirstOf(r, count[r])
             /\ count[r] \in Nat
             /\ Routing!Cardinality(Routing!Lines(r)) = count[r]
             /\ \A i \in Routing!Lines(r) :
                  /\ Routing!Place(i) \in 1..count[r]
                  /\ routingJournal[i] = <<r, Routing!Place(i)>>
  <2>1. handlerPhase[r] = "answered" /\ entered[r] = count[r] /\ count[r] \in Nat
    BY <1>2 DEF RoutingInv, RoutingType, BucketKept, EnteredInTurn
  <2>2. Routing!BucketOf(routingIndex, r) = FirstOf(r, count[r])
    BY <1>2, <2>1 DEF RoutingInv, BucketKept, Routing!BucketOf, Buckets
  <2>3. \A S : Routing!Cardinality(S) = Cardinality(S)
    BY DEF Routing!Cardinality, Cardinality
  <2>4. /\ Routing!Lines(r) = LinesOf(routingJournal, r)
        /\ \A i : Routing!Place(i) = PlaceOf(routingJournal, i)
    BY <2>3 DEF Routing!Lines, LinesOf, Routing!Place, PlaceOf
  <2>5. Journaled(routingJournal, r, count[r])
    BY <2>1 DEF RoutingInv
  <2>6. ASSUME NEW i \in LinesOf(routingJournal, r)
        PROVE  PlaceOf(routingJournal, i) \in 1..count[r]
    <3>1. i \in DOMAIN routingJournal /\ routingJournal[i][1] = r
      BY DEF LinesOf
    <3>2. routingJournal \in Seq(Requests \X Nat)
      BY DEF RoutingInv, RoutingType
    <3> QED
      BY <2>5, <3>1, <3>2, PlaceExists DEF Journaled
  <2> QED
    BY <2>1, <2>2, <2>3, <2>4, <2>5, <2>6 DEF Journaled
<1>3. ASSUME NEW r \in Requests, Routing!BucketOf(routingIndex, r) # << >>
      PROVE  r \in Routing!Retained \/ r \in Routing!Recording \cup Routing!Failed
  BY <1>3 DEF Routing!BucketOf, RoutingInv, BucketKept, RoutingType, Buckets,
              Routing!Recording, Routing!Failed
<1>4. ASSUME NEW r \in Requests, r \in Routing!Retained
      PROVE  /\ Len(Routing!BucketOf(routingIndex, r)) = count[r]
             /\ \A i \in Routing!Lines(r) :
                  Routing!BucketOf(routingIndex, r)[Routing!Place(i)] = routingJournal[i]
  <2>1. Len(FirstOf(r, count[r])) = count[r]
    BY <1>2, <1>4, FirstGrows
  <2>2. \A p \in 1..count[r] : FirstOf(r, count[r])[p] = <<r, p>>
    BY DEF FirstOf
  <2> QED
    BY <1>2, <1>4, <2>1, <2>2
<1>5. routingJournal # << >> =>
        (handlerPhase[routingJournal[Len(routingJournal)][1]] = "answered"
           => DOMAIN routingIndex.buckets \subseteq Routing!Retained)
  BY DEF RoutingInv, Cleared, Buckets
<1> QED
  BY <1>1, <1>2, <1>3, <1>4, <1>5 DEF Routing!RetainedIsWhole, Routing!Lookup

LEMMA InitRouting == Routing!Init => RoutingInv
<1> SUFFICES ASSUME Routing!Init PROVE RoutingInv
  OBVIOUS
<1>1. /\ count = [r \in Requests |-> 0] /\ entered = [r \in Requests |-> 0]
      /\ handlerPhase = [r \in Requests |-> "executing"]
      /\ routingIndex = [requests |-> << >>, buckets |-> << >>]
      /\ routingJournal = << >>
  BY DEF Routing!Init
<1>2. << >> \in [{} -> Seq(Requests \X Nat)] /\ DOMAIN Buckets = {}
  BY <1>1 DEF Buckets
<1>3. RoutingType
  <2>1. << >> \in UNION {[D -> Seq(Requests \X Nat)] : D \in SUBSET Requests}
    BY <1>2
  <2>2. << >> \in Seq(Requests) /\ << >> \in Seq(Requests \X Nat) /\ Len(<< >>) = 0
    OBVIOUS
  <2>3. routingIndex.requests = << >>
    BY <1>1
  <2>4. Len(routingIndex.requests) <= MemoryLimit
    BY <2>2, <2>3, IndexAssumption
  <2> QED
    BY <1>1, <2>1, <2>2, <2>4 DEF RoutingType
<1>4. Alone /\ Cleared /\ Routing!Retained = {}
  BY <1>1 DEF Alone, Cleared, Routing!Recording, Routing!Retained, Routing!Entries
<1>5. ASSUME NEW r \in Requests PROVE Journaled(routingJournal, r, 0)
  <2>1. LinesOf(routingJournal, r) = {}
    BY <1>1 DEF LinesOf
  <2> QED
    BY <2>1, FS_EmptySet DEF Journaled
<1> QED
  BY <1>1, <1>2, <1>3, <1>4, <1>5 DEF RoutingInv, EnteredInTurn, BucketKept

\* A handler goes on, and neither records nor is done.
LEMMA HandlerMoves ==
    ASSUME RoutingInv, NEW r \in Requests, UNCHANGED <<routingIndex, routingJournal, entered>>,
           count' \in [Requests -> Nat], \A s \in Requests \ {r} : count'[s] = count[s],
           NEW new \in {"ready", "recording", "failed"},
           handlerPhase' = [handlerPhase EXCEPT ![r] = new],
           handlerPhase[r] \in {"executing", "ready", "recording"},
           EnteredInTurn(r)', BucketKept(r)', Alone'
    PROVE  RoutingInv'
<1>1. /\ \A s \in Requests \ {r} : handlerPhase'[s] = handlerPhase[s]
      /\ handlerPhase'[r] = new /\ UNCHANGED Routing!Retained /\ UNCHANGED Buckets
  BY DEF RoutingInv, RoutingType, Routing!Retained, Routing!Entries, Buckets
<1>2. RoutingType'
  BY DEF RoutingInv, RoutingType
<1>3. ASSUME NEW s \in Requests PROVE EnteredInTurn(s)' /\ BucketKept(s)'
  <2>1. CASE s = r
    BY <2>1
  <2>2. CASE s # r
    BY <1>1, <2>2 DEF RoutingInv, EnteredInTurn, BucketKept
  <2> QED
    BY <2>1, <2>2
<1>4. Cleared'
  BY <1>1 DEF RoutingInv, RoutingType, Cleared
<1>5. \A s \in Requests : Journaled(routingJournal, s, entered[s])'
  BY DEF RoutingInv
<1> QED
  BY <1>2, <1>3, <1>4, <1>5 DEF RoutingInv

LEMMA EnterAttemptKeeps ==
    ASSUME RoutingInv, NEW r \in Requests, Routing!EnterAttempt(r)
    PROVE  RoutingInv'
<1> DEFINE attempt == <<r, entered[r] + 1>>
<1>1. /\ handlerPhase[r] = "recording" /\ entered[r] < count[r]
      /\ entered' = [entered EXCEPT ![r] = @ + 1]
      /\ UNCHANGED <<count, handlerPhase>>
  BY DEF Routing!EnterAttempt
<1>2. /\ entered \in [Requests -> Nat] /\ entered'[r] = entered[r] + 1
      /\ \A s \in Requests \ {r} : entered'[s] = entered[s]
      /\ entered' \in [Requests -> Nat] /\ routingJournal \in Seq(Requests \X Nat)
  BY <1>1 DEF RoutingInv, RoutingType
<1>3. /\ routingJournal' = Append(routingJournal, attempt)
      /\ routingIndex' = [routingIndex EXCEPT !.buckets =
            Routing!Kept(routingIndex, DOMAIN Buckets \cup {r}, r,
                         Append(Routing!BucketOf(routingIndex, r), attempt))]
  BY <1>2 DEF Routing!EnterAttempt, Buckets
<1>4. /\ routingIndex'.requests = routingIndex.requests
      /\ Buckets' = [s \in DOMAIN Buckets \cup {r} |->
                       IF s = r THEN Append(Routing!BucketOf(routingIndex, r), attempt)
                       ELSE Buckets[s]]
  BY <1>3 DEF RoutingInv, RoutingType, Routing!Kept, Buckets
<1>5. Routing!BucketOf(routingIndex, r) = FirstOf(r, entered[r])
  <2>1. CASE entered[r] = 0
    BY <1>1, <2>1, FirstGrows DEF RoutingInv, BucketKept, Routing!BucketOf, Buckets
  <2>2. CASE entered[r] > 0
    BY <1>1, <2>2 DEF RoutingInv, BucketKept, Routing!BucketOf, Buckets
  <2> QED
    BY <1>2, <2>1, <2>2
<1>6. /\ Buckets'[r] = FirstOf(r, entered'[r]) /\ DOMAIN Buckets' = DOMAIN Buckets \cup {r}
      /\ \A s \in DOMAIN Buckets \ {r} : Buckets'[s] = Buckets[s]
  BY <1>2, <1>4, <1>5, FirstGrows, ZenonT(30)
<1>7. RoutingType'
  <2>1. /\ Buckets \in UNION {[D -> Seq(Requests \X Nat)] : D \in SUBSET Requests}
        /\ routingIndex.requests \in Seq(Requests)
        /\ routingIndex = [requests |-> routingIndex.requests, buckets |-> Buckets]
    BY DEF RoutingInv, RoutingType, Buckets
  <2>2. FirstOf(r, entered'[r]) \in Seq(Requests \X Nat)
    BY <1>2, FirstGrows
  <2>3. \A s \in DOMAIN Buckets' : Buckets'[s] \in Seq(Requests \X Nat)
    BY <1>6, <2>1, <2>2
  <2>4. DOMAIN Buckets' \subseteq Requests
    BY <1>6, <2>1
  <2>5. Buckets' \in UNION {[D -> Seq(Requests \X Nat)] : D \in SUBSET Requests}
    <3>1. Buckets' = [s \in DOMAIN Buckets' |-> Buckets'[s]]
      BY <1>4
    <3>2. Buckets' \in [DOMAIN Buckets' -> Seq(Requests \X Nat)]
      BY ONLY <2>3, <3>1
    <3> QED
      BY <2>4, <3>2
  <2>6. routingIndex' = [requests |-> routingIndex.requests, buckets |-> Buckets']
    BY <1>3, <2>1 DEF Buckets
  <2>7. routingJournal' \in Seq(Requests \X Nat)
    BY <1>2, <1>3
  <2> QED
    BY <1>1, <1>2, <2>1, <2>5, <2>6, <2>7 DEF RoutingInv, RoutingType
<1>8. Alone'
  BY <1>1 DEF RoutingInv, Alone, Routing!Recording
<1>9. Cleared'
  <2>1. routingJournal'[Len(routingJournal')] = attempt /\ attempt[1] = r
    BY <1>2, <1>3
  <2> QED
    BY <1>1, <2>1 DEF Cleared
<1>10. ASSUME NEW s \in Requests PROVE EnteredInTurn(s)' /\ BucketKept(s)'
  <2>1. UNCHANGED Routing!Retained
    BY <1>4 DEF Routing!Retained, Routing!Entries
  <2>2. CASE s = r
    BY <1>1, <1>2, <1>6, <2>1, <2>2 DEF RoutingInv, RoutingType, EnteredInTurn, BucketKept
  <2>3. CASE s # r
    BY <1>1, <1>2, <1>6, <2>1, <2>3 DEF RoutingInv, EnteredInTurn, BucketKept
  <2> QED
    BY <2>2, <2>3
<1>11. /\ Journaled(routingJournal, r, entered[r])
         => Journaled(routingJournal', r, entered[r] + 1)
       /\ \A s, m : s # r =>
            (Journaled(routingJournal, s, m) => Journaled(routingJournal', s, m))
  <2>1. entered[r] \in Nat
    BY <1>2
  <2> QED
    <3>1. AttemptAdded(routingJournal, routingJournal', r, entered[r])
      BY <1>2, <1>3, <2>1 DEF AttemptAdded
    <3> QED
      BY ONLY <3>1, FileGrows
<1>12. ASSUME NEW s \in Requests PROVE Journaled(routingJournal', s, entered'[s])
  <2>1. Journaled(routingJournal, s, entered[s])
    BY DEF RoutingInv
  <2>2. CASE s = r
    BY <1>2, <1>11, <2>1, <2>2
  <2>3. CASE s # r
    <3>1. entered'[s] = entered[s]
      BY <1>2, <2>3
    <3> QED
      BY <1>11, <2>1, <2>3, <3>1
  <2> QED
    BY <2>2, <2>3
<1> QED
  BY <1>7, <1>8, <1>9, <1>10, <1>12 DEF RoutingInv

LEMMA EnterRequestKeeps ==
    ASSUME RoutingInv, NEW r \in Requests, Routing!EnterRequest(r)
    PROVE  RoutingInv'
<1> DEFINE requests == Routing!Pushed(routingIndex.requests, r)
<1>1. /\ handlerPhase[r] = "recording" /\ entered[r] = count[r]
      /\ handlerPhase' = [handlerPhase EXCEPT ![r] = "answered"]
      /\ UNCHANGED <<count, entered, routingJournal>>
      /\ routingIndex' = [requests |-> requests,
                          buckets |-> [s \in DOMAIN Buckets \cap Routing!Live(requests) |->
                                         Buckets[s]]]
  BY DEF Routing!EnterRequest, Buckets
<1>2. /\ routingIndex.requests \in Seq(Requests) /\ Len(routingIndex.requests) <= MemoryLimit
      /\ Buckets \in UNION {[D -> Seq(Requests \X Nat)] : D \in SUBSET Requests}
  BY DEF RoutingInv, RoutingType, Buckets
<1>3. /\ requests \in Seq(Requests) /\ Len(requests) <= MemoryLimit
      /\ Routing!Live(requests) \subseteq Routing!Retained \cup {r}
      /\ r \in Routing!Live(requests)
  <2> DEFINE o == routingIndex.requests
  <2>1. CASE Len(o) < MemoryLimit
    <3>1. requests = Append(o, r)
      BY <2>1 DEF Routing!Pushed
    <3>2. /\ requests \in Seq(Requests) /\ Len(requests) = Len(o) + 1
          /\ requests[Len(o) + 1] = r /\ \A i \in 1..Len(o) : requests[i] = o[i]
          /\ DOMAIN requests = 1..(Len(o) + 1) /\ DOMAIN o = 1..Len(o) /\ Len(o) \in Nat
      BY <1>2, <3>1
    <3> HIDE DEF requests
    <3> QED
      BY <2>1, <3>2, IndexAssumption DEF Routing!Live, Routing!Entries, Routing!Retained
  <2>2. CASE Len(o) = MemoryLimit
    <3>1. requests = Append(Tail(o), r)
      BY <2>2 DEF Routing!Pushed
    <3>2. /\ Tail(o) \in Seq(Requests) /\ Len(Tail(o)) = Len(o) - 1
          /\ \A i \in 1..(Len(o) - 1) : Tail(o)[i] = o[i + 1]
          /\ DOMAIN o = 1..Len(o) /\ Len(o) \in Nat \ {0}
      BY <1>2, <2>2, IndexAssumption
    <3>3. /\ requests \in Seq(Requests) /\ Len(requests) = Len(o)
          /\ requests[Len(o)] = r /\ \A i \in 1..(Len(o) - 1) : requests[i] = o[i + 1]
          /\ DOMAIN requests = 1..Len(o)
      BY <3>1, <3>2
    <3> HIDE DEF requests
    <3>4. r \in Routing!Live(requests)
      BY <3>2, <3>3 DEF Routing!Live, Routing!Entries
    <3>5. ASSUME NEW i \in DOMAIN requests PROVE requests[i] \in Routing!Retained \cup {r}
      <4>1. CASE i = Len(o)
        BY <3>3, <4>1
      <4>2. CASE i \in 1..(Len(o) - 1)
        <5>1. requests[i] = o[i + 1] /\ i + 1 \in DOMAIN o
          BY <3>2, <3>3, <4>2
        <5> QED
          BY <5>1 DEF Routing!Retained, Routing!Entries
      <4> QED
        BY <3>2, <3>3, <4>1, <4>2
    <3> QED
      BY <2>2, <3>3, <3>4, <3>5 DEF Routing!Live, Routing!Entries
  <2> QED
    BY <1>2, <2>1, <2>2, IndexAssumption
<1>4. /\ Routing!Retained' = Routing!Live(requests)
      /\ Buckets' = [s \in DOMAIN Buckets \cap Routing!Live(requests) |-> Buckets[s]]
      /\ handlerPhase'[r] = "answered"
      /\ \A s \in Requests \ {r} : handlerPhase'[s] = handlerPhase[s]
  BY <1>1 DEF Routing!Retained, Routing!Live, Routing!Entries, Buckets, RoutingInv, RoutingType
<1> HIDE DEF requests
<1>5. RoutingType'
  <2>1. Buckets' \in UNION {[D -> Seq(Requests \X Nat)] : D \in SUBSET Requests}
    <3> DEFINE D == DOMAIN Buckets \cap Routing!Live(requests)
    <3>1. D \subseteq Requests /\ \A s \in D : Buckets[s] \in Seq(Requests \X Nat)
      BY <1>2
    <3> HIDE DEF D
    <3>2. [s \in D |-> Buckets[s]] \in [D -> Seq(Requests \X Nat)]
      BY <3>1
    <3> QED
      BY <1>4, <3>1, <3>2 DEF D
  <2> QED
    BY <1>1, <1>3, <2>1 DEF RoutingInv, RoutingType, Buckets
<1>6. Alone' /\ Cleared'
  BY <1>1, <1>4 DEF RoutingInv, RoutingType, Alone, Routing!Recording, Cleared
<1>7. ASSUME NEW s \in Requests PROVE EnteredInTurn(s)' /\ BucketKept(s)'
  <2>1. CASE s = r
    <3>1. r \in DOMAIN Buckets
      BY <1>1 DEF RoutingInv, RoutingType, EnteredInTurn, BucketKept
    <3> QED
      BY <1>1, <1>3, <1>4, <2>1, <3>1 DEF RoutingInv, EnteredInTurn, BucketKept
  <2>2. CASE s # r
    <3>1. handlerPhase[s] # "recording"
      BY <1>1, <2>2 DEF RoutingInv, Alone, Routing!Recording
    <3> QED
      BY <1>1, <1>3, <1>4, <2>2, <3>1 DEF RoutingInv, EnteredInTurn, BucketKept
  <2> QED
    BY <2>1, <2>2
<1>8. \A s \in Requests : Journaled(routingJournal, s, entered[s])'
  BY <1>1 DEF RoutingInv
<1> QED
  BY <1>5, <1>6, <1>7, <1>8 DEF RoutingInv

LEMMA RoutingStep == RoutingInv /\ [Routing!Next]_(Routing!vars) => RoutingInv'
<1> SUFFICES ASSUME RoutingInv, [Routing!Next]_(Routing!vars) PROVE RoutingInv'
  OBVIOUS
<1>1. ASSUME NEW r \in Requests, Routing!Execute(r) PROVE RoutingInv'
  <2>1. PICK n \in 1..MaxAttempts : count' = [count EXCEPT ![r] = n]
    BY <1>1 DEF Routing!Execute
  <2>2. /\ handlerPhase[r] = "executing"
        /\ handlerPhase' = [handlerPhase EXCEPT ![r] = "ready"]
        /\ UNCHANGED <<entered, routingIndex, routingJournal>>
    BY <1>1 DEF Routing!Execute
  <2>3. /\ count' \in [Requests -> Nat] /\ count'[r] = n /\ n > 0
        /\ \A s \in Requests \ {r} : count'[s] = count[s]
        /\ handlerPhase'[r] = "ready"
        /\ \A s \in Requests \ {r} : handlerPhase'[s] = handlerPhase[s]
    BY <2>1, <2>2 DEF RoutingInv, RoutingType
  <2>4. EnteredInTurn(r)' /\ BucketKept(r)' /\ Alone'
    <3>1. Routing!Recording' = Routing!Recording /\ UNCHANGED Routing!Retained
      BY <2>2, <2>3 DEF Routing!Recording, Routing!Retained, Routing!Entries
    <3> QED
      BY <2>2, <2>3, <3>1 DEF RoutingInv, RoutingType, EnteredInTurn, BucketKept, Alone, Buckets
  <2> QED
    BY <2>2, <2>3, <2>4, HandlerMoves
<1>2. ASSUME NEW r \in Requests, Routing!Resume(r) PROVE RoutingInv'
  <2>1. /\ handlerPhase[r] = "ready" /\ Routing!Recording = {}
        /\ handlerPhase' = [handlerPhase EXCEPT ![r] = "recording"]
        /\ UNCHANGED <<count, entered, routingIndex, routingJournal>>
    BY <1>2 DEF Routing!Resume
  <2>2. /\ handlerPhase'[r] = "recording" /\ count \in [Requests -> Nat]
        /\ \A s \in Requests \ {r} : handlerPhase'[s] = handlerPhase[s]
    BY <2>1 DEF RoutingInv, RoutingType
  <2>3. EnteredInTurn(r)' /\ BucketKept(r)' /\ Alone'
    <3>1. Routing!Recording' = {r} /\ UNCHANGED Routing!Retained
      BY <2>1, <2>2 DEF Routing!Recording, Routing!Retained, Routing!Entries
    <3> QED
      BY <2>1, <2>2, <3>1 DEF RoutingInv, EnteredInTurn, BucketKept, Alone, Buckets
  <2> QED
    BY <2>1, <2>2, <2>3, HandlerMoves
<1>3. ASSUME NEW r \in Requests, Routing!FileFails(r) PROVE RoutingInv'
  <2>1. /\ handlerPhase[r] = "recording"
        /\ handlerPhase' = [handlerPhase EXCEPT ![r] = "failed"]
        /\ UNCHANGED <<count, entered, routingIndex, routingJournal>>
    BY <1>3 DEF Routing!FileFails
  <2>2. /\ handlerPhase'[r] = "failed" /\ count \in [Requests -> Nat]
        /\ \A s \in Requests \ {r} : handlerPhase'[s] = handlerPhase[s]
    BY <2>1 DEF RoutingInv, RoutingType
  <2>3. EnteredInTurn(r)' /\ BucketKept(r)' /\ Alone'
    <3>1. Routing!Recording' \subseteq Routing!Recording /\ UNCHANGED Routing!Retained
      BY <2>1, <2>2 DEF Routing!Recording, Routing!Retained, Routing!Entries
    <3> QED
      BY <2>1, <2>2, <3>1 DEF RoutingInv, EnteredInTurn, BucketKept, Alone, Buckets
  <2> QED
    BY <2>1, <2>2, <2>3, HandlerMoves
<1>4. ASSUME UNCHANGED Routing!vars PROVE RoutingInv'
  BY <1>4 DEF Routing!vars, RoutingInv, RoutingType, Alone, Routing!Recording, Cleared, Buckets,
              EnteredInTurn, BucketKept, Routing!Retained, Routing!Entries
<1> QED
  BY <1>1, <1>2, <1>3, <1>4, EnterAttemptKeeps, EnterRequestKeeps DEF Routing!Next

\* The inductive invariant of the routing service's part of the sink.
THEOREM RoutingInvariant == Routing!Spec => []RoutingInv
<1>1. Routing!Init => RoutingInv
  BY InitRouting
<1>2. RoutingInv /\ [Routing!Next]_(Routing!vars) => RoutingInv'
  BY RoutingStep
<1> QED
  BY <1>1, <1>2, PTL DEF Routing!Spec

\* RetainedIsWhole for any number of requests and attempts and any memory
\* limit: a routing request that is retained has all of its attempts.
THEOREM RetainedAreWhole == Routing!Spec => []RetainedIsWhole
<1>1. RoutingInv => RetainedIsWhole
  BY RoutingInvGives DEF RetainedIsWhole
<1> QED
  BY <1>1, RoutingInvariant, PTL

-----------------------------------------------------------------------------
(***************************************************************************)
(* The adapters and the acceptance profile.  What the checks say follows   *)
(* from the stages the profile goes through; that verdicts agree follows   *)
(* from what the adapters take out of a body.                              *)
(***************************************************************************)

\* What normalize takes out of a response: the document and the error.
DocumentIn(adapter, r) == Profile!Normalized(adapter, r).document
ErrorIn(adapter, r) ==
    LET metadata == Profile!Normalized(adapter, r).metadata
    IN IF metadata = None THEN None ELSE metadata.error

\* The value of check i, where the stages reach it.
CheckValue(r, e, d, i) ==
    \/ i = 1 /\ r.ok
    \/ i = 2 /\ Profile!MediaTypeOf(r.contentType) \in Profile!Processable
    \/ i = 3 /\ r.body # None
    \/ i = 4 /\ e = None
    \/ i = 5 /\ Profile!IsDocument(d)
    \/ i = 6 /\ d.id = "requested"
    \/ i = 7 /\ d.id \in {"requested", "other"}

StageOf(r, d) == Profile!Stage(r.ok, r.body, d)

ProfileInv ==
    /\ responses \in [Providers -> Responses \cup {None}]
    /\ results = [p \in Providers |-> results[p]]
    /\ \A p \in Providers :
         results[p] # None =>
           /\ responses[p] \in Responses
           /\ results[p] = Profile!Normalized(AdapterOf[p], responses[p])

LEMMA NormalizedIs ==
    ASSUME NEW adapter, NEW r
    PROVE  /\ Profile!Normalized(adapter, r).checks
                = Profile!Checks(r, ErrorIn(adapter, r), DocumentIn(adapter, r))
           /\ Profile!Normalized(adapter, r).accepted
                = Profile!Accepts(r, DocumentIn(adapter, r), Profile!Normalized(adapter, r).checks)
           /\ Profile!Normalized(adapter, r).document = DocumentIn(adapter, r)
           /\ Profile!Normalized(adapter, r).body = r.body
           /\ Profile!Normalized(adapter, r).subject =
                IF DocumentIn(adapter, r) = None \/ DocumentIn(adapter, r).id = "not a string"
                THEN None ELSE DocumentIn(adapter, r).id
  BY DEF Profile!Normalized, DocumentIn, ErrorIn

LEMMA OrderOfChecks ==
    /\ DOMAIN Profile!CheckOrder = 1..7
    /\ Profile!Evaluated = {Profile!CheckOrder[i] : i \in 1..7}
    /\ \A i, j \in 1..7 : Profile!CheckOrder[i] = Profile!CheckOrder[j] => i = j
<1>1. DOMAIN Profile!CheckOrder = 1..7
  BY DEF Profile!CheckOrder
<1>2. \A i, j \in 1..7 : Profile!CheckOrder[i] = Profile!CheckOrder[j] => i = j
  BY DEF Profile!CheckOrder
<1> QED
  BY <1>1, <1>2 DEF Profile!Evaluated

LEMMA StageIs ==
    ASSUME NEW r, NEW d
    PROVE  /\ StageOf(r, d) \in {1, 3, 5, 7}
           /\ StageOf(r, d) = 1 <=> ~r.ok
           /\ StageOf(r, d) = 3 <=> r.ok /\ r.body = None
           /\ StageOf(r, d) = 5 <=> r.ok /\ r.body # None /\ ~Profile!IsDocument(d)
           /\ StageOf(r, d) = 7 <=> r.ok /\ r.body # None /\ Profile!IsDocument(d)
  BY DEF StageOf, Profile!Stage

\* Check i, as the profile records it.
CheckAt(r, e, d, i) == Profile!Checks(r, e, d)[Profile!CheckOrder[i]]

\* A check is TRUE or FALSE as its rule says where the stages reach it, and
\* None beyond.
LEMMA CheckIs ==
    ASSUME NEW r, NEW e, NEW d, NEW i \in 1..7, r.ok \in BOOLEAN
    PROVE  /\ StageOf(r, d) \in 1..7
           /\ i > StageOf(r, d) => CheckAt(r, e, d, i) = None
           /\ i <= StageOf(r, d) =>
                /\ CheckAt(r, e, d, i) \in BOOLEAN
                /\ CheckAt(r, e, d, i) = TRUE <=> CheckValue(r, e, d, i)
<1> DEFINE name == Profile!CheckOrder[i]
           c == Profile!Checks(r, e, d)[name]
<1>1. StageOf(r, d) \in {1, 3, 5, 7}
  BY StageIs
<1>2. name \in Profile!Evaluated
  BY OrderOfChecks
<1>3. (\E j \in 1..StageOf(r, d) : Profile!CheckOrder[j] = name) <=> i <= StageOf(r, d)
  BY <1>1, OrderOfChecks
<1>4. ASSUME i > StageOf(r, d) PROVE c = None
  BY <1>1, <1>2, <1>3, <1>4 DEF Profile!Checks, StageOf
<1>5. ASSUME i <= StageOf(r, d)
      PROVE  c \in BOOLEAN /\ (c = TRUE <=> CheckValue(r, e, d, i))
  <2>1. Profile!Checks(r, e, d)[name]
          = CASE name = "transport_success" -> r.ok
              [] name = "media_type_processable" ->
                   Profile!MediaTypeOf(r.contentType) \in Profile!Processable
              [] name = "body_parseable" -> r.body # None
              [] name = "no_resolution_error" -> e = None
              [] name = "did_document_present" -> Profile!IsDocument(d)
              [] name = "did_document_id_matches_request" -> d.id = "requested"
              [] OTHER -> d.id \in {"requested", "other"}
    BY <1>2, <1>3, <1>5 DEF Profile!Checks, StageOf
  <2>2. CASE i = 1
    <3>1. name = "transport_success"
      BY <2>2 DEF Profile!CheckOrder
    <3>2. c = (r.ok)
      BY <2>1, <3>1
    <3>3. CheckValue(r, e, d, i) <=> (r.ok)
      BY <2>2 DEF CheckValue
    <3>4. c \in BOOLEAN /\ (c = TRUE <=> (r.ok))
      BY <3>2, Zenon
    <3> QED
      BY <3>3, <3>4
  <2>3. CASE i = 2
    <3>1. name = "media_type_processable"
      BY <2>3 DEF Profile!CheckOrder
    <3> DEFINE V == Profile!MediaTypeOf(r.contentType) \in Profile!Processable
    <3>2. c = V
      BY <2>1, <3>1
    <3>3. CheckValue(r, e, d, i) <=> (Profile!MediaTypeOf(r.contentType) \in Profile!Processable)
      BY <2>3 DEF CheckValue
    <3>4. c \in BOOLEAN /\ (c = TRUE <=> V)
      <4>1. V \in BOOLEAN
        OBVIOUS
      <4> HIDE DEF V
      <4> QED
        BY <3>2, <4>1, Zenon
    <3> QED
      BY <3>3, <3>4
  <2>4. CASE i = 3
    <3>1. name = "body_parseable"
      BY <2>4 DEF Profile!CheckOrder
    <3>2. c = (r.body # None)
      BY <2>1, <3>1
    <3>3. CheckValue(r, e, d, i) <=> (r.body # None)
      BY <2>4 DEF CheckValue
    <3>4. c \in BOOLEAN /\ (c = TRUE <=> (r.body # None))
      BY <3>2, Zenon
    <3> QED
      BY <3>3, <3>4
  <2>5. CASE i = 4
    <3>1. name = "no_resolution_error"
      BY <2>5 DEF Profile!CheckOrder
    <3>2. c = (e = None)
      BY <2>1, <3>1
    <3>3. CheckValue(r, e, d, i) <=> (e = None)
      BY <2>5 DEF CheckValue
    <3>4. c \in BOOLEAN /\ (c = TRUE <=> (e = None))
      BY <3>2, Zenon
    <3> QED
      BY <3>3, <3>4
  <2>6. CASE i = 5
    <3>1. name = "did_document_present"
      BY <2>6 DEF Profile!CheckOrder
    <3>2. c = (Profile!IsDocument(d))
      BY <2>1, <3>1
    <3>3. CheckValue(r, e, d, i) <=> (Profile!IsDocument(d))
      BY <2>6 DEF CheckValue
    <3>4. c \in BOOLEAN /\ (c = TRUE <=> (Profile!IsDocument(d)))
      <4> HIDE DEF c
      <4> QED
        BY <3>2 DEF Profile!IsDocument
    <3> QED
      BY <3>3, <3>4
  <2>7. CASE i = 6
    <3>1. name = "did_document_id_matches_request"
      BY <2>7 DEF Profile!CheckOrder
    <3>2. c = (d.id = "requested")
      BY <2>1, <3>1
    <3>3. CheckValue(r, e, d, i) <=> (d.id = "requested")
      BY <2>7 DEF CheckValue
    <3>4. c \in BOOLEAN /\ (c = TRUE <=> (d.id = "requested"))
      BY <3>2, Zenon
    <3> QED
      BY <3>3, <3>4
  <2>8. CASE i = 7
    <3>1. name = "structurally_processable"
      BY <2>8 DEF Profile!CheckOrder
    <3> DEFINE V == d.id \in {"requested", "other"}
    <3>2. c = V
      BY <2>1, <3>1
    <3>3. CheckValue(r, e, d, i) <=> (d.id \in {"requested", "other"})
      BY <2>8 DEF CheckValue
    <3>4. c \in BOOLEAN /\ (c = TRUE <=> V)
      <4>1. V \in BOOLEAN
        OBVIOUS
      <4> HIDE DEF V
      <4> QED
        BY <3>2, <4>1, Zenon
    <3> QED
      BY <3>3, <3>4
  <2>9. i = 1 \/ i = 2 \/ i = 3 \/ i = 4 \/ i = 5 \/ i = 6 \/ i = 7
    OBVIOUS
  <2> QED
    BY <2>2, <2>3, <2>4, <2>5, <2>6, <2>7, <2>8, <2>9, Zenon
<1>6. StageOf(r, d) \in 1..7
  BY <1>1
<1>7. c = CheckAt(r, e, d, i)
  BY DEF CheckAt
<1> HIDE DEF c
<1> QED
  BY <1>4, <1>5, <1>6, <1>7, Zenon

\* The outcome of each check, and what decides an acceptance.
LEMMA CheckOutcomes ==
    ASSUME NEW r, NEW e, NEW d, NEW i \in 1..7, r.ok \in BOOLEAN, None \notin BOOLEAN
    PROVE  /\ (CheckAt(r, e, d, i) = TRUE)
                <=> (i <= StageOf(r, d) /\ CheckValue(r, e, d, i))
           /\ (CheckAt(r, e, d, i) = FALSE)
                <=> (i <= StageOf(r, d) /\ ~CheckValue(r, e, d, i))
           /\ (CheckAt(r, e, d, i) = None) <=> (i > StageOf(r, d))
<1> DEFINE c == CheckAt(r, e, d, i)
           v == CheckValue(r, e, d, i)
           n == StageOf(r, d)
<1>1. i > n => c = None
  BY CheckIs, Zenon
<1>2. i <= n => c \in BOOLEAN /\ (c = TRUE <=> v)
  BY CheckIs, Zenon
<1>3. i <= n <=> ~(i > n)
  BY StageIs
<1> HIDE DEF c, v, n
<1>4. /\ (c = TRUE) <=> (i <= n /\ v)
      /\ (c = FALSE) <=> (i <= n /\ ~v)
      /\ (c = None) <=> (i > n)
  BY <1>1, <1>2, <1>3, Zenon
<1> QED
  BY <1>4 DEF c, v, n

\* The stage that is reached is the last check that a rejection can blame.
LEMMA LastFails ==
    ASSUME NEW r, NEW e, NEW d, StageOf(r, d) # 7
    PROVE  ~CheckValue(r, e, d, StageOf(r, d))
  BY StageIs DEF CheckValue

LEMMA AcceptedWhen ==
    ASSUME NEW r, NEW e, NEW d, r.ok \in BOOLEAN, None \notin BOOLEAN
    PROVE  Profile!Accepts(r, d, Profile!Checks(r, e, d))
             <=> StageOf(r, d) = 7 /\ \A i \in 1..7 : CheckValue(r, e, d, i)
<1> DEFINE C == Profile!Checks(r, e, d)
           c(i) == CheckAt(r, e, d, i)
           v(i) == CheckValue(r, e, d, i)
           n == StageOf(r, d)
           accepted == Profile!Accepts(r, d, C)
<1>1. Profile!Failed(C) = {} <=> \A i \in 1..7 : ~(c(i) = FALSE)
  BY OrderOfChecks DEF Profile!Failed, CheckAt
<1>2. accepted <=> n = 7 /\ Profile!Failed(C) = {}
  BY DEF Profile!Accepts, StageOf
<1>3. n = 7 => \A i \in 1..7 : i <= n
  BY StageIs
<1>4. \A i \in 1..7 : (c(i) = FALSE) <=> (i <= n /\ ~v(i))
  BY CheckOutcomes
<1> HIDE DEF accepted, n, c, v, C
<1>5. accepted <=> n = 7 /\ \A i \in 1..7 : v(i)
  BY <1>1, <1>2, <1>3, <1>4, Zenon
<1> QED
  BY <1>5 DEF accepted, n, c, v, C

\* What the checks C say of an acceptance, and of a rejection.
AttributedTo(C, accepted) ==
    /\ accepted <=> \A name \in Profile!Evaluated : C[name] = TRUE
    /\ ~accepted => Profile!Failed(C) # {}
    /\ \A i \in DOMAIN Profile!CheckOrder :
         C[Profile!CheckOrder[i]] = None =>
           \E j \in 1..(i - 1) : C[Profile!CheckOrder[j]] = FALSE

LEMMA ChecksAttribute ==
    ASSUME NEW r, NEW e, NEW d, NEW C, r.ok \in BOOLEAN, None \notin BOOLEAN,
           C = Profile!Checks(r, e, d)
    PROVE  AttributedTo(C, Profile!Accepts(r, d, C))
<1> DEFINE c(i) == CheckAt(r, e, d, i)
           v(i) == CheckValue(r, e, d, i)
           n == StageOf(r, d)
           accepted == Profile!Accepts(r, d, C)
<1>1. n \in {1, 3, 5, 7} /\ n \in 1..7 /\ n <= n /\ (n = 7 => \A i \in 1..7 : i <= n)
  BY StageIs
<1>2. \A i \in 1..7 : /\ (c(i) = TRUE) <=> (i <= n /\ v(i))
                      /\ (c(i) = FALSE) <=> (i <= n /\ ~v(i))
                      /\ (c(i) = None) <=> (i > n)
  BY CheckOutcomes
<1>3. n # 7 => ~v(n)
  BY LastFails
<1>4. accepted <=> n = 7 /\ \A i \in 1..7 : v(i)
  BY AcceptedWhen
<1>5. (\A name \in Profile!Evaluated : C[name] = TRUE) <=> \A i \in 1..7 : c(i) = TRUE
  BY OrderOfChecks DEF CheckAt
<1>6. (\E i \in 1..7 : c(i) = FALSE) => Profile!Failed(C) # {}
  BY OrderOfChecks DEF Profile!Failed, CheckAt
<1>7. 7 \in 1..7
  OBVIOUS
<1>8. ASSUME NEW i \in 1..7 PROVE c(i) = C[Profile!CheckOrder[i]]
  BY DEF CheckAt
<1>9. ASSUME NEW i \in 1..7, i > n PROVE n \in 1..(i - 1) /\ n # 7
  BY <1>1, <1>9
<1> HIDE DEF accepted, n, c, v
<1>10. accepted <=> \A name \in Profile!Evaluated : C[name] = TRUE
  <2>1. (\A i \in 1..7 : v(i)) /\ n = 7 <=> \A i \in 1..7 : c(i) = TRUE
    <3>1. n = 7 <=> 7 <= n
      BY <1>1
    <3> QED
      BY <1>1, <1>2, <1>7, <3>1, Zenon
  <2> QED
    BY <1>4, <1>5, <2>1, Zenon
<1>11. ~accepted => Profile!Failed(C) # {}
  <2>1. ~accepted => \E i \in 1..7 : c(i) = FALSE
    BY <1>1, <1>2, <1>3, <1>4, Zenon
  <2> QED
    BY <1>6, <2>1, Zenon
<1>12. ASSUME NEW i \in 1..7, c(i) = None PROVE \E j \in 1..(i - 1) : c(j) = FALSE
  BY <1>1, <1>2, <1>3, <1>9, <1>12, Zenon
<1>13. \A i \in DOMAIN Profile!CheckOrder :
         C[Profile!CheckOrder[i]] = None =>
           \E j \in 1..(i - 1) : C[Profile!CheckOrder[j]] = FALSE
  <2> SUFFICES ASSUME NEW i \in 1..7, C[Profile!CheckOrder[i]] = None
               PROVE  \E j \in 1..(i - 1) : C[Profile!CheckOrder[j]] = FALSE
    BY OrderOfChecks
  <2>1. PICK j \in 1..(i - 1) : c(j) = FALSE
    BY <1>8, <1>12
  <2>2. j \in 1..7
    OBVIOUS
  <2> QED
    BY <1>8, <2>1, <2>2
<1> QED
  BY <1>10, <1>11, <1>13 DEF accepted, AttributedTo

\* What a response must be to be accepted.
LEMMA AcceptedIf ==
    ASSUME NEW adapter, NEW r, r.ok \in BOOLEAN, None \notin BOOLEAN
    PROVE  Profile!Normalized(adapter, r).accepted <=>
             /\ r.ok /\ Profile!MediaTypeOf(r.contentType) \in Profile!Processable
             /\ r.body # None /\ ErrorIn(adapter, r) = None
             /\ Profile!IsDocument(DocumentIn(adapter, r))
             /\ DocumentIn(adapter, r).id = "requested"
<1> DEFINE e == ErrorIn(adapter, r)
           d == DocumentIn(adapter, r)
<1>1. /\ Profile!Normalized(adapter, r).checks = Profile!Checks(r, e, d)
      /\ Profile!Normalized(adapter, r).accepted
           = Profile!Accepts(r, d, Profile!Normalized(adapter, r).checks)
  BY NormalizedIs
<1>2. Profile!Accepts(r, d, Profile!Checks(r, e, d))
        <=> StageOf(r, d) = 7 /\ \A i \in 1..7 : CheckValue(r, e, d, i)
  <2>1. ASSUME NEW x, NEW y
        PROVE  Profile!Accepts(r, y, Profile!Checks(r, x, y))
                 <=> StageOf(r, y) = 7 /\ \A i \in 1..7 : CheckValue(r, x, y, i)
    BY AcceptedWhen
  <2> QED
    BY <2>1
<1>3. (\A i \in 1..7 : CheckValue(r, e, d, i)) <=>
        /\ r.ok /\ Profile!MediaTypeOf(r.contentType) \in Profile!Processable
        /\ r.body # None /\ e = None /\ Profile!IsDocument(d) /\ d.id = "requested"
  <2> HIDE DEF e, d
  <2>1. (\A i \in 1..7 : CheckValue(r, e, d, i)) <=>
          /\ CheckValue(r, e, d, 1) /\ CheckValue(r, e, d, 2) /\ CheckValue(r, e, d, 3)
          /\ CheckValue(r, e, d, 4) /\ CheckValue(r, e, d, 5) /\ CheckValue(r, e, d, 6)
          /\ CheckValue(r, e, d, 7)
    <3>1. \A i \in 1..7 : i = 1 \/ i = 2 \/ i = 3 \/ i = 4 \/ i = 5 \/ i = 6 \/ i = 7
      OBVIOUS
    <3>2. 1 \in 1..7 /\ 2 \in 1..7 /\ 3 \in 1..7 /\ 4 \in 1..7 /\ 5 \in 1..7 /\ 6 \in 1..7
          /\ 7 \in 1..7
      OBVIOUS
    <3> QED
      BY <3>1, <3>2, Zenon
  <2> QED
    BY <2>1 DEF CheckValue
<1>4. StageOf(r, d) = 7 <=> r.ok /\ r.body # None /\ Profile!IsDocument(d)
  BY StageIs
<1> HIDE DEF e, d
<1>5. Profile!Normalized(adapter, r).accepted <=>
        /\ r.ok /\ Profile!MediaTypeOf(r.contentType) \in Profile!Processable
        /\ r.body # None /\ e = None /\ Profile!IsDocument(d) /\ d.id = "requested"
  BY <1>1, <1>2, <1>3, <1>4
<1> QED
  BY <1>5 DEF e, d

\* What the adapters take out of a body.
LEMMA Extracts ==
    ASSUME NEW a \in Profile!Adapters, NEW r, r.ok, r.body # None
    PROVE  /\ ~Profile!IsObject(r.body) =>
                DocumentIn(a, r) = None /\ ErrorIn(a, r) = None
           /\ Profile!IsObject(r.body) /\ a = "universal-resolver-v1" =>
                /\ DocumentIn(a, r) = IF Profile!IsDocument(r.body.document)
                                      THEN r.body.document ELSE None
                /\ ErrorIn(a, r) = IF r.body.metadata \in {None, Scalar} THEN None
                                   ELSE r.body.metadata.error
           /\ Profile!IsObject(r.body) /\ a # "universal-resolver-v1" =>
                /\ r.body.document = None =>
                     DocumentIn(a, r) = IF Profile!IsDocument(r.body.self)
                                        THEN r.body.self ELSE None
                /\ r.body.document # None =>
                     DocumentIn(a, r) = IF Profile!IsDocument(r.body.document)
                                        THEN r.body.document ELSE None
                /\ ErrorIn(a, r) = None
  BY DEF DocumentIn, ErrorIn, Profile!Normalized, Profile!Extract,
         Profile!ExtractUniversal, Profile!ExtractDocumentOnly, Profile!IsDocument

LEMMA FamilyOf ==
    ASSUME NEW error, Profile!ErrorFamily(error) = None, None \notin Profile!Families
    PROVE  error = None
  BY DEF Profile!ErrorFamily, Profile!Families

LEMMA ResponseOk ==
    ASSUME Profile!Adapted, NEW r \in Responses
    PROVE  r.ok \in BOOLEAN
<1>1. r \in Profile!HttpResponses \/ r = Profile!NoResponse
  BY DEF Profile!Adapted
<1>2. ASSUME r \in Profile!HttpResponses PROVE r.ok \in BOOLEAN
  <2>1. r.ok \in {TRUE}
    BY <1>2 DEF Profile!HttpResponses
  <2> QED
    BY <2>1, Zenon
<1>3. ASSUME r = Profile!NoResponse PROVE r.ok \in BOOLEAN
  <2>1. r.ok = FALSE
    BY <1>3 DEF Profile!NoResponse
  <2> QED
    BY <2>1, Zenon
<1> QED
  BY <1>1, <1>2, <1>3

LEMMA InitProfile == Profile!Init => ProfileInv
  BY DEF Profile!Init, ProfileInv

LEMMA ProfileStep ==
    Profile!Adapted /\ ProfileInv /\ [Profile!Next]_(Profile!vars) => ProfileInv'
<1> SUFFICES ASSUME Profile!Adapted, ProfileInv, [Profile!Next]_(Profile!vars)
             PROVE  ProfileInv'
  OBVIOUS
<1>1. CASE UNCHANGED Profile!vars
  BY <1>1 DEF Profile!vars, ProfileInv
<1>2. ASSUME NEW p \in Providers, Profile!Receive(p) PROVE ProfileInv'
  <2>1. PICK r \in Responses : responses' = [responses EXCEPT ![p] = r]
    BY <1>2 DEF Profile!Receive
  <2>2. results' = results /\ responses[p] = None /\ None \notin Responses
    BY <1>2 DEF Profile!Receive, Profile!Adapted
  <2>3. results[p] = None
    BY <2>2 DEF ProfileInv
  <2> QED
    BY <2>1, <2>2, <2>3 DEF ProfileInv
<1>3. ASSUME NEW p \in Providers, Profile!Normalize(p) PROVE ProfileInv'
  BY <1>3 DEF Profile!Normalize, ProfileInv
<1> QED
  BY <1>1, <1>2, <1>3 DEF Profile!Next

\* What the invariant says of a normalized result.
LEMMA KnownIs ==
    ASSUME Profile!Adapted, ProfileInv, NEW p \in Profile!Known
    PROVE  /\ p \in Providers /\ responses[p] \in Responses
           /\ AdapterOf[p] \in Profile!Adapters
           /\ results[p] = Profile!Normalized(AdapterOf[p], responses[p])
           /\ responses[p].ok \in BOOLEAN /\ None \notin BOOLEAN
<1>1. /\ p \in Providers /\ responses[p] \in Responses
      /\ results[p] = Profile!Normalized(AdapterOf[p], responses[p])
  BY DEF ProfileInv, Profile!Known
<1>2. responses[p].ok \in BOOLEAN
  BY <1>1, ResponseOk
<1> QED
  BY <1>1, <1>2 DEF Profile!Adapted

LEMMA Attributed == Profile!Adapted /\ ProfileInv => Profile!RejectionIsAttributed
<1> SUFFICES ASSUME Profile!Adapted, ProfileInv, NEW p \in Profile!Known
             PROVE  AttributedTo(results[p].checks, results[p].accepted)
  BY DEF Profile!RejectionIsAttributed, AttributedTo
<1> DEFINE r == responses[p]
           n == Profile!Normalized(AdapterOf[p], r)
           e == ErrorIn(AdapterOf[p], r)
           d == DocumentIn(AdapterOf[p], r)
<1>1. r.ok \in BOOLEAN /\ None \notin BOOLEAN
  BY KnownIs
<1>2. results[p] = n
  BY KnownIs
<1>3. n.checks = Profile!Checks(r, e, d) /\ n.accepted = Profile!Accepts(r, d, n.checks)
  BY NormalizedIs, ZenonT(30)
<1> HIDE DEF r, n, e, d
<1>4. AttributedTo(n.checks, Profile!Accepts(r, d, n.checks))
  BY <1>1, <1>3, ChecksAttribute
<1> QED
  BY <1>2, <1>3, <1>4

\* A normalized result is accepted in these cases, and then says this.
Acceptable(a, r) ==
    /\ r.ok /\ Profile!MediaTypeOf(r.contentType) \in Profile!Processable
    /\ r.body # None /\ ErrorIn(a, r) = None
    /\ Profile!IsDocument(DocumentIn(a, r))
    /\ DocumentIn(a, r).id = "requested"

LEMMA KnownAccepted ==
    ASSUME Profile!Adapted, ProfileInv, NEW p \in Profile!Known
    PROVE  /\ results[p].accepted <=> Acceptable(AdapterOf[p], responses[p])
           /\ results[p].document = DocumentIn(AdapterOf[p], responses[p])
           /\ results[p].body = responses[p].body
           /\ results[p].accepted =>
                /\ results[p].subject = "requested"
                /\ results[p].document # None
                /\ Profile!IsObject(responses[p].body)
<1> DEFINE r == responses[p]
           a == AdapterOf[p]
           n == Profile!Normalized(a, r)
<1>1. r.ok \in BOOLEAN /\ None \notin BOOLEAN /\ a \in Profile!Adapters
  BY KnownIs
<1>2. results[p] = n
  BY KnownIs
<1>3. n.accepted <=> Acceptable(a, r)
  BY <1>1, AcceptedIf DEF Acceptable
<1>4. n.document = DocumentIn(a, r) /\ n.body = r.body
      /\ n.subject = IF DocumentIn(a, r) = None \/ DocumentIn(a, r).id = "not a string"
                     THEN None ELSE DocumentIn(a, r).id
  BY NormalizedIs, ZenonT(30)
<1>5. ASSUME Acceptable(a, r)
      PROVE  /\ n.subject = "requested" /\ DocumentIn(a, r) # None
             /\ Profile!IsObject(r.body)
  <2> HIDE DEF n, a
  <2>1. DocumentIn(a, r) # None /\ DocumentIn(a, r).id = "requested" /\ r.ok
        /\ r.body # None
    BY <1>5 DEF Acceptable, Profile!IsDocument
  <2>2. Profile!IsObject(r.body)
    BY <1>1, <2>1, Extracts
  <2> QED
    BY <1>4, <2>1, <2>2
<1> HIDE DEF n, a, r
<1>6. /\ n.accepted <=> Acceptable(a, r)
      /\ n.document = DocumentIn(a, r)
      /\ n.body = r.body
      /\ n.accepted =>
           /\ n.subject = "requested" /\ n.document # None /\ Profile!IsObject(r.body)
  BY <1>3, <1>4, <1>5
<1> QED
  BY <1>2, <1>6 DEF a, r

LEMMA AdaptersDo == Profile!Adapted /\ ProfileInv => Profile!AdaptersAgree
<1> SUFFICES ASSUME Profile!Adapted, ProfileInv, NEW p \in Profile!Known
             PROVE  LET other == CHOOSE a \in Profile!Adapters : a # AdapterOf[p]
                        body == responses[p].body
                    IN \/ /\ Profile!IsObject(body)
                          /\ \/ body.document = None
                             \/ Profile!ErrorFamily(
                                  IF body.metadata \in {None, Scalar} THEN None
                                  ELSE body.metadata.error) # None
                       \/ Profile!Normalized(other, responses[p]).accepted
                            = results[p].accepted
  BY DEF Profile!AdaptersAgree
<1> DEFINE other == CHOOSE a \in Profile!Adapters : a # AdapterOf[p]
           r == responses[p]
           error == IF r.body.metadata \in {None, Scalar} THEN None
                    ELSE r.body.metadata.error
<1>1. other \in Profile!Adapters
  BY DEF Profile!Adapters
<1>2. /\ r.ok \in BOOLEAN /\ None \notin BOOLEAN /\ AdapterOf[p] \in Profile!Adapters
      /\ None \notin Profile!Families
  BY KnownIs DEF Profile!Adapted
<1>3. results[p] = Profile!Normalized(AdapterOf[p], r)
  BY KnownIs
<1> SUFFICES ASSUME Profile!IsObject(r.body) =>
                      r.body.document # None /\ Profile!ErrorFamily(error) = None
             PROVE  Profile!Normalized(other, r).accepted = results[p].accepted
  OBVIOUS
<1>4. Profile!IsObject(r.body) => error = None
  <2> HIDE DEF error
  <2> QED
    BY <1>2, FamilyOf
<1> HIDE DEF other, r
<1>5. ASSUME r.ok, r.body # None, NEW a \in Profile!Adapters, NEW b \in Profile!Adapters
      PROVE  DocumentIn(a, r) = DocumentIn(b, r) /\ ErrorIn(a, r) = None
  <2>1. CASE Profile!IsObject(r.body)
    <3> DEFINE d == IF Profile!IsDocument(r.body.document) THEN r.body.document ELSE None
    <3>1. ASSUME NEW c \in Profile!Adapters
          PROVE  DocumentIn(c, r) = d /\ ErrorIn(c, r) = None
      <4>1. CASE c = "universal-resolver-v1"
        BY <1>4, <1>5, <2>1, <4>1, Extracts
      <4>2. CASE c # "universal-resolver-v1"
        BY <1>5, <2>1, <4>2, Extracts
      <4> QED
        BY <4>1, <4>2
    <3> QED
      BY <3>1
  <2>2. CASE ~Profile!IsObject(r.body)
    BY <1>5, <2>2, Extracts
  <2> QED
    BY <2>1, <2>2
<1>6. Acceptable(other, r) <=> Acceptable(AdapterOf[p], r)
  <2>1. CASE r.ok /\ r.body # None
    BY <1>1, <1>2, <1>5, <2>1 DEF Acceptable
  <2>2. CASE ~(r.ok /\ r.body # None)
    BY <2>2 DEF Acceptable
  <2> QED
    BY <2>1, <2>2
<1>7. ASSUME NEW a
      PROVE  /\ Profile!Normalized(a, r).accepted <=> Acceptable(a, r)
             /\ Profile!Normalized(a, r).accepted \in BOOLEAN
  <2>1. Profile!Normalized(a, r).accepted <=> Acceptable(a, r)
    BY <1>2, AcceptedIf DEF Acceptable
  <2>2. Profile!Normalized(a, r).accepted \in BOOLEAN
    BY Zenon DEF Profile!Normalized, Profile!Accepts
  <2> QED
    BY <2>1, <2>2
<1> QED
  BY <1>3, <1>6, <1>7, Zenon

LEMMA RulesetDoes == Profile!Adapted /\ ProfileInv => Profile!RulesetImpliesProfile
<1> SUFFICES ASSUME Profile!Adapted, ProfileInv, NEW p \in Profile!Known,
                    responses[p].ok, Profile!StructurallyValid(responses[p].body),
                    responses[p].contentType \in {"json", "json;charset"},
                    \/ responses[p].body.metadata \in {None, Scalar}
                    \/ responses[p].body.metadata.error = None
             PROVE  results[p].accepted
  BY DEF Profile!RulesetImpliesProfile
<1> DEFINE r == responses[p]
           a == AdapterOf[p]
<1>1. /\ Profile!IsObject(r.body) /\ Profile!IsDocument(r.body.document)
      /\ r.body.document.id = "requested"
      /\ r.body # None /\ r.body.document # None
  BY DEF Profile!StructurallyValid, Profile!IsObject, Profile!IsDocument
<1>2. Profile!MediaTypeOf(r.contentType) \in Profile!Processable
  BY DEF Profile!MediaTypeOf, Profile!Processable
<1>3. a \in Profile!Adapters
  BY KnownIs
<1> HIDE DEF a
<1>4. DocumentIn(a, r) = r.body.document /\ ErrorIn(a, r) = None
  <2>1. CASE a = "universal-resolver-v1"
    BY <1>1, <1>3, <2>1, Extracts
  <2>2. CASE a # "universal-resolver-v1"
    BY <1>1, <1>3, <2>2, Extracts
  <2> QED
    BY <2>1, <2>2
<1>5. Acceptable(a, r)
  BY <1>1, <1>2, <1>4 DEF Acceptable
<1> QED
  BY <1>5, KnownAccepted DEF a

LEMMA DeliveryIs == Profile!Adapted /\ ProfileInv => Profile!DeliveredIsAccepted
<1> SUFFICES ASSUME Profile!Adapted, ProfileInv, NEW p \in Profile!Known,
                    results[p].accepted
             PROVE  \/ Profile!Delivered(results[p]) = results[p].document
                    \/ responses[p].body.document = None /\ responses[p].body.self # None
  BY DEF Profile!DeliveredIsAccepted
<1> DEFINE r == responses[p]
           a == AdapterOf[p]
<1>1. /\ Acceptable(a, r) /\ results[p].document = DocumentIn(a, r)
      /\ results[p].body = r.body /\ results[p].document # None
      /\ Profile!IsObject(r.body)
  BY KnownAccepted
<1>2. a \in Profile!Adapters
  BY KnownIs
<1>3. Profile!Delivered(results[p]) = r.body.document
  BY <1>1 DEF Profile!Delivered
<1>4. r.ok /\ r.body # None /\ Profile!IsDocument(DocumentIn(a, r))
  BY <1>1 DEF Acceptable
<1> HIDE DEF a
<1>5. CASE r.body.document # None
  <2>1. DocumentIn(a, r) = IF Profile!IsDocument(r.body.document)
                           THEN r.body.document ELSE None
    <3>1. CASE a = "universal-resolver-v1"
      BY <1>1, <1>2, <1>4, <3>1, Extracts
    <3>2. CASE a # "universal-resolver-v1"
      BY <1>1, <1>2, <1>4, <1>5, <3>2, Extracts
    <3> QED
      BY <3>1, <3>2
  <2> QED
    BY <1>1, <1>3, <2>1
<1>6. CASE r.body.document = None
  <2>1. CASE a = "universal-resolver-v1"
    <3>1. DocumentIn(a, r) = IF Profile!IsDocument(r.body.document)
                             THEN r.body.document ELSE None
      BY <1>1, <1>2, <1>4, <2>1, Extracts
    <3> QED
      BY <1>1, <1>6, <3>1
  <2>2. CASE a # "universal-resolver-v1"
    <3>1. DocumentIn(a, r) = IF Profile!IsDocument(r.body.self)
                             THEN r.body.self ELSE None
      BY <1>1, <1>2, <1>4, <1>6, <2>2, Extracts
    <3> QED
      BY <1>1, <1>6, <3>1
  <2> QED
    BY <2>1, <2>2
<1> QED
  BY <1>5, <1>6

\* A set with at most one element, and one with two, as their size tells.
LEMMA ManyIs ==
    ASSUME NEW S, IsFiniteSet(S)
    PROVE  /\ Profile!Cardinality(S) > 1 <=> \E x, y \in S : x # y
           /\ \A x : S = {x} => Profile!Cardinality(S) = 1
<1>1. Profile!Cardinality(S) = Cardinality(S)
  BY DEF Cardinality, Profile!Cardinality
<1>2. Cardinality(S) \in Nat
  BY FS_CardinalityType
<1>3. Cardinality(S) = 0 <=> S = {}
  BY FS_EmptySet
<1>4. ASSUME NEW x, S = {x} PROVE Cardinality(S) = 1
  BY <1>4, FS_Singleton
<1>5. ASSUME Cardinality(S) = 1 PROVE \E x : S = {x}
  BY <1>5, FS_Singleton
<1>6. Cardinality(S) > 1 <=> ~(Cardinality(S) = 0 \/ Cardinality(S) = 1)
  BY <1>2
<1>7. (\E x, y \in S : x # y) <=> ~(S = {} \/ \E x : S = {x})
  OBVIOUS
<1> QED
  BY <1>1, <1>3, <1>4, <1>5, <1>6, <1>7

LEMMA SubjectsAre == Profile!Adapted /\ ProfileInv => Profile!AcceptedSubjectsAgree
<1> SUFFICES ASSUME Profile!Adapted, ProfileInv
             PROVE  Profile!AcceptedSubjectsAgree
  OBVIOUS
<1> DEFINE known == {results[p] : p \in Profile!Known}
           accepted == {r \in known : r.accepted}
           subjects == {r.subject : r \in accepted} \ {None}
           distinct == {r.document : r \in accepted} \ {None}
<1>1. \A r \in accepted : r.subject = "requested" /\ r.document # None
  BY KnownAccepted
<1>2. None # "requested"
  BY DEF Profile!Adapted
<1>3. IsFiniteSet(distinct)
  <2>1. IsFiniteSet(Profile!Known)
    <3>1. IsFiniteSet(Providers)
      BY DEF Profile!Adapted, IsFiniteSet, Profile!IsFiniteSet
    <3> QED
      BY <3>1, FS_Subset DEF Profile!Known
  <2> DEFINE documents == {results[p].document : p \in Profile!Known}
  <2>2. IsFiniteSet(documents)
    <3> DEFINE f == [p \in Profile!Known |-> results[p].document]
    <3>1. f \in [Profile!Known -> documents]
      OBVIOUS
    <3>2. \A t \in documents : \E p \in Profile!Known : f[p] = t
      OBVIOUS
    <3>3. f \in Surjection(Profile!Known, documents)
      <4> HIDE DEF f, documents
      <4> QED
        BY <3>1, <3>2 DEF Surjection
    <3> HIDE DEF f, documents
    <3> QED
      BY <2>1, <3>3, FS_Surjection
  <2>3. distinct \subseteq documents
    OBVIOUS
  <2> QED
    BY <2>2, <2>3, FS_Subset
<1>4. (\E x, y \in distinct : x # y) <=> \E r, s \in accepted : r.document # s.document
  <2> HIDE DEF accepted
  <2> QED
    BY <1>1
<1>5. accepted # {} => subjects = {"requested"} /\ IsFiniteSet(subjects)
  <2>1. accepted # {} => subjects = {"requested"}
    <3> HIDE DEF accepted
    <3> QED
      BY <1>1, <1>2
  <2>2. IsFiniteSet({"requested"})
    BY FS_Singleton
  <2> HIDE DEF subjects
  <2> QED
    BY <2>1, <2>2
<1> HIDE DEF subjects, distinct, accepted
<1>6. accepted # {} => Profile!Cardinality(subjects) = 1
  BY <1>5, ManyIs
<1>7. Profile!Cardinality(distinct) > 1 <=> \E x, y \in distinct : x # y
  BY <1>3, ManyIs
<1>8. Profile!Comparison(known)
        = [exact |-> /\ accepted # {}
                     /\ Profile!Cardinality(subjects) = 1
                     /\ \A r \in accepted : r.subject = "requested",
           difference |-> Profile!Cardinality(distinct) > 1]
  BY DEF Profile!Comparison, accepted, subjects, distinct
<1> HIDE DEF known
<1> DEFINE C == Profile!Comparison(known)
<1>9. accepted # {} <=> C.exact
  <2>1. C.exact <=> /\ accepted # {}
                    /\ Profile!Cardinality(subjects) = 1
                    /\ \A r \in accepted : r.subject = "requested"
    <3> DEFINE V == /\ accepted # {}
                    /\ Profile!Cardinality(subjects) = 1
                    /\ \A r \in accepted : r.subject = "requested"
    <3>1. C.exact = V
      BY <1>8
    <3> QED
      BY <3>1, Zenon
  <2> QED
    BY <1>1, <1>6, <2>1, Zenon
<1>10. C.difference <=> \E r, s \in accepted : r.document # s.document
  <2>1. C.difference = (Profile!Cardinality(distinct) > 1)
    BY <1>8
  <2> QED
    BY <1>4, <1>7, <2>1, Zenon
<1> QED
  BY <1>9, <1>10, Zenon DEF known, accepted, Profile!AcceptedSubjectsAgree

LEMMA VerdictsDo == Profile!Adapted /\ ProfileInv => Profile!VerdictsAgree
  BY AdaptersDo, RulesetDoes, SubjectsAre, DeliveryIs DEF Profile!VerdictsAgree

\* The results are what normalize makes of the responses.
\* The results are what normalize makes of the responses.
THEOREM ProfileInvariant == Profile!Spec => []ProfileInv
<1>1. ProfileInv /\ [Profile!Next]_(Profile!vars) => ProfileInv'
  BY ProfileStep, ProfileAssumed
<1> QED
  BY <1>1, InitProfile, PTL DEF Profile!Spec

\* RejectionIsAttributed for any providers and any responses: every verdict of
\* the profile can be read off its checks.
THEOREM RejectionsAttributed == Profile!Spec => []RejectionIsAttributed
<1>1. ProfileInv => RejectionIsAttributed
  BY Attributed, ProfileAssumed DEF RejectionIsAttributed
<1> QED
  BY <1>1, ProfileInvariant, PTL

\* VerdictsAgree for any providers and any responses: adapters, profile,
\* ruleset and router agree on the same answer.
THEOREM VerdictsAlwaysAgree == Profile!Spec => []VerdictsAgree
<1>1. ProfileInv => VerdictsAgree
  BY VerdictsDo, ProfileAssumed DEF VerdictsAgree
<1> QED
  BY <1>1, ProfileInvariant, PTL

=============================================================================
