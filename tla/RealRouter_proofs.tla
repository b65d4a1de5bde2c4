------------------------- MODULE RealRouter_proofs -------------------------
(***************************************************************************)
(* What RealRouter guarantees for every inventory, every set of clients    *)
(* and requests, and every limit: its variables keep their types, and it   *)
(* uses the shared budgets only as ProviderBudget says.                    *)
(*                                                                         *)
(* Then what a request leaves behind, for every plan, every outcome and    *)
(* every schedule of the event loop: its trace, its reply, and no probe    *)
(* that still runs.  The invariant of this second part has two halves.     *)
(* One says of each scheduled callback which state waits for it, and that  *)
(* the tasks of a race start before anything else of that race runs.  The  *)
(* other says, for each kind of execution, which probes are over and what  *)
(* has been recorded of them.                                              *)
(***************************************************************************)
EXTENDS RealRouter, BudgetWindow_proofs, FiniteSetTheorems, TLAPS

\* A plan names no provider twice, and only planned providers are probed.
PlanKept(c) ==
    /\ \A i, j \in DOMAIN order[c] : order[c][i] = order[c][j] => i = j
    /\ pending[c] \subseteq Planned(order[c])
    /\ \A p \in Providers : probe[c][p] # "none" => p \in Planned(order[c])
    /\ phase[c] = "queued" =>
         pending[c] = {} /\ \A p \in Providers : probe[c][p] = "none"

\* A probe that is over by itself has an outcome.
OutcomesKnown(c) ==
    \A p \in Providers : probe[c][p] \in {"arrived", "done"} => fate[c][p] # "none"

\* What comes after the provider being contacted has not been contacted.
RestPlanned(c) ==
    phase[c] = "sequential" =>
      \A i, j \in DOMAIN order[c] :
        i < j /\ probe[c][order[c][i]] \in {"waiting", "arrived"}
          => probe[c][order[c][j]] = "planned"

\* Only a race has tasks to start.
RaceTasks ==
    \A i \in DOMAIN ready :
      ready[i].kind = "task" => phase[ready[i].client] \notin {"queued", "sequential"}

IInv ==
    /\ TypeOK
    /\ RaceTasks
    /\ \A c \in Clients : PlanKept(c) /\ OutcomesKnown(c) /\ RestPlanned(c)

-----------------------------------------------------------------------------
(* The plans. *)

LEMMA ArrangementType ==
    ASSUME NEW S, IsFiniteSet(S), NEW o \in Arrangements(S)
    PROVE  /\ o \in Seq(S)
           /\ Len(o) = Cardinality(S)
           /\ \A i, j \in DOMAIN o : o[i] = o[j] => i = j
  BY FS_CardinalityType DEF Arrangements

(***************************************************************************)
(* Every policy plans a sequence of candidates without repetition, and the *)
(* sequential ones plan at least one when there is a candidate.            *)
(***************************************************************************)
LEMMA PlanType ==
    ASSUME NEW policy \in PolicyNames, NEW S \in SUBSET Providers,
           NEW o \in Plans(policy, S)
    PROVE  /\ o \in Seq(S)
           /\ \A i, j \in DOMAIN o : o[i] = o[j] => i = j
           /\ ~Concurrent(policy) /\ Cardinality(S) >= 1 => o # << >>
<1>0. IsFiniteSet(S)
  BY RouterAssumption, FS_Subset
<1>1. CASE policy = "single-static"
  <2>1. PICK p \in S : o = <<p>>
    BY <1>1 DEF Plans
  <2> QED
    BY <2>1
<1>2. CASE policy = "sequential-failover"
  <2>1. o \in Arrangements(S)
    BY <1>2 DEF Plans, InInventoryOrder
  <2> QED
    BY <1>0, <2>1, ArrangementType, FS_CardinalityType
<1>3. CASE policy = "all-race"
  <2>1. o \in Arrangements(S)
    BY <1>3 DEF Plans, InInventoryOrder
  <2> QED
    BY <1>0, <1>3, <2>1, ArrangementType DEF Concurrent
<1>4. CASE policy = "adaptive-min-set"
  <2>1. PICK T \in SUBSET S : o \in Arrangements(T)
    BY <1>4 DEF Plans
  <2>2. IsFiniteSet(T)
    BY <1>0, FS_Subset
  <2> QED
    BY <1>4, <2>1, <2>2, ArrangementType DEF Concurrent
<1> QED
  BY <1>1, <1>2, <1>3, <1>4 DEF PolicyNames

\* The budgets keep their type when the queue of one provider is charged, and
\* when the candidates of a request are selected.
LEMMA ChargesType ==
    ASSUME TypeOK
    PROVE  /\ \A p \in Providers : Charged(p, charges[p], now) \in Seq(0..MaxTime)
           /\ \A method : AfterSelection(method, charges, now) \in [Providers -> Seq(0..MaxTime)]
  BY ChargedType, PruneIsSuffix, RouterAssumption DEF TypeOK, AfterSelection

LEMMA HandleType ==
    ASSUME NEW kind \in {"handler", "task", "resume", "completed", "wake"},
           NEW c \in Clients, NEW p \in Providers \cup {None}
    PROVE  Handle(kind, c, p) \in Handles
  BY DEF Handle, Handles

LEMMA RunType ==
    ASSUME TypeOK, ready # << >>, NEW new \in Seq(Handles), Run(new)
    PROVE  ready' \in Seq(Handles)
  BY DEF TypeOK, Run

LEMMA RunNothing ==
    ASSUME TypeOK, ready # << >>, Run(<< >>)
    PROVE  ready' \in Seq(Handles)
<1>1. << >> \in Seq(Handles)
  OBVIOUS
<1> QED
  BY <1>1, RunType

LEMMA RunOne ==
    ASSUME TypeOK, ready # << >>, NEW h \in Handles, Run(<<h>>)
    PROVE  ready' \in Seq(Handles)
<1>1. <<h>> \in Seq(Handles)
  OBVIOUS
<1> QED
  BY <1>1, RunType

LEMMA PositionType ==
    ASSUME TypeOK, NEW c \in Clients, NEW p \in Planned(order[c])
    PROVE  /\ Position(c, p) \in DOMAIN order[c]
           /\ Position(c, p) \in 1..Len(order[c])
           /\ order[c][Position(c, p)] = p
           /\ p \in Providers
  BY DEF Planned, Position, TypeOK

LEMMA AttemptType ==
    ASSUME TypeOK, NEW c \in Clients, NEW p \in Planned(order[c]),
           NEW outcome \in AllOutcomes \cup {"canceled"}
    PROVE  Attempt(c, p, outcome) \in Attempts
  BY PositionType DEF Attempt, Attempts, TypeOK

(***************************************************************************)
(* The end of a request: the winner exists, since launch positions are     *)
(* natural numbers.                                                        *)
(***************************************************************************)
LEMMA FinishType ==
    ASSUME TypeOK, NEW c \in Clients, NEW trace \in SUBSET Attempts,
           NEW document \in Providers \cup {None}, Finish(c, trace, document)
    PROVE  /\ attempts' \in [Clients -> SUBSET Attempts]
           /\ payload' \in [Clients -> Providers \cup {None}]
           /\ reply' \in [Clients -> Replies]
           /\ phase' \in [Clients -> Phases]
           /\ phase' = [phase EXCEPT ![c] = "answered"]
<1> DEFINE accepted == AcceptedIn(trace)
           winner == CHOOSE a \in accepted : \A b \in accepted : a.position <= b.position
<1>1. /\ attempts' \in [Clients -> SUBSET Attempts]
      /\ payload' \in [Clients -> Providers \cup {None}]
  BY DEF TypeOK, Finish
<1>2. phase' = [phase EXCEPT ![c] = "answered"]
  BY DEF Finish, Reply
<1>3. CASE accepted = {}
  <2>1. reply' = [reply EXCEPT ![c] = [kind |-> "noAcceptableResult",
                                       returned |-> None, document |-> None]]
    BY <1>3 DEF Finish, Reply
  <2> QED
    BY <1>1, <1>2, <2>1 DEF TypeOK, Replies, Phases
<1>4. CASE accepted # {}
  <2>1. winner \in Attempts
    <3> DEFINE positions == {a.position : a \in accepted}
    <3>1. positions \subseteq Nat /\ positions # {}
      BY <1>4 DEF AcceptedIn, Attempts
    <3>2. \E n \in positions : \A m \in positions : n <= m
      <4> HIDE DEF positions
      <4> QED
        BY <3>1, LeastElement
    <3>3. \E a \in accepted : \A b \in accepted : a.position <= b.position
      BY <3>2
    <3> QED
      BY <3>3 DEF AcceptedIn
  <2>2. reply' = [reply EXCEPT ![c] =
                    [kind |-> "ok", returned |-> winner.provider, document |-> document]]
    BY <1>4 DEF Finish, Reply
  <2> HIDE DEF winner
  <2>3. winner.provider \in Providers
    BY <2>1 DEF Attempts
  <2> QED
    BY <1>2, <1>1, <2>2, <2>3 DEF TypeOK, Replies, Phases
<1> QED
  BY <1>1, <1>2, <1>3, <1>4 DEF TypeOK, Phases, Finish, Reply

-----------------------------------------------------------------------------
(* Types are kept by each step. *)

LEMMA PlanningType ==
    ASSUME NEW c \in Clients, WellFormed(ask[c]), NEW concurrent \in BOOLEAN,
           NEW o \in Planning(c, concurrent)
    PROVE  /\ o \in Seq(Providers)
           /\ \A i, j \in DOMAIN o : o[i] = o[j] => i = j
           /\ Planned(o) \subseteq Candidates(ask[c].method, charges, now)
           /\ Planned(o) \subseteq Providers
           /\ Concurrent(ask[c].policy) = concurrent
           /\ ~concurrent => o # << >> /\ o[1] \in Planned(o) /\ 1 \in DOMAIN o
<1> DEFINE S == Candidates(ask[c].method, charges, now)
<1>1. S \in SUBSET Providers
  BY DEF Candidates
<1>2. ask[c].policy \in PolicyNames
  BY PolicyAssumption DEF WellFormed
<1>3. o \in Plans(ask[c].policy, S) /\ Concurrent(ask[c].policy) = concurrent
      /\ Cardinality(S) >= MinProviders(ask[c].policy)
  BY DEF Planning
<1>4. Cardinality(S) \in Nat
  BY <1>1, RouterAssumption, FS_Subset, FS_CardinalityType
<1>5. Cardinality(S) >= 1
  BY <1>3, <1>4 DEF MinProviders
<1> HIDE DEF S
<1>6. /\ o \in Seq(S)
      /\ \A i, j \in DOMAIN o : o[i] = o[j] => i = j
      /\ ~Concurrent(ask[c].policy) => o # << >>
  BY <1>1, <1>2, <1>3, <1>5, PlanType
<1>7. o \in Seq(Providers) /\ Planned(o) \subseteq S
  BY <1>1, <1>6 DEF Planned
<1>8. ~concurrent => o # << >> /\ o[1] \in Planned(o) /\ 1 \in DOMAIN o
  BY <1>3, <1>6 DEF Planned
<1> QED
  BY <1>1, <1>3, <1>6, <1>7, <1>8 DEF S

(***************************************************************************)
(* The attempts a race or a loop records are attempts: their probes have   *)
(* an outcome and their providers a place in the plan.                     *)
(***************************************************************************)
LEMMA AttemptsOfType ==
    ASSUME IInv, NEW c \in Clients
    PROVE  /\ WithFinished(c) \in SUBSET Attempts
           /\ {Attempt(c, p, "canceled") : p \in pending[c]} \in SUBSET Attempts
           /\ Finished(c) \in SUBSET Providers
           /\ \A p \in Providers :
                probe[c][p] = "arrived" => Attempt(c, p, fate[c][p]) \in Attempts
<1>1. \A p \in pending[c] : p \in Planned(order[c]) /\ p \in Providers
  BY DEF IInv, PlanKept, TypeOK
<1>2. \A p \in Providers : probe[c][p] \in {"done", "arrived"} => fate[c][p] \in AllOutcomes
  BY DEF IInv, OutcomesKnown, TypeOK
<1>3. \A p \in Finished(c) : Attempt(c, p, fate[c][p]) \in Attempts
  BY <1>1, <1>2, AttemptType DEF Finished, IInv
<1>4. attempts[c] \in SUBSET Attempts
  BY DEF IInv, TypeOK
<1>5. WithFinished(c) \in SUBSET Attempts
  BY <1>3, <1>4 DEF WithFinished, AttemptsOf
<1>6. \A p \in pending[c] : Attempt(c, p, "canceled") \in Attempts
  BY <1>1, AttemptType DEF IInv
<1>7. \A p \in Providers : probe[c][p] = "arrived" => p \in Planned(order[c])
  BY DEF IInv, PlanKept
<1>8. \A p \in Providers :
        probe[c][p] = "arrived" => Attempt(c, p, fate[c][p]) \in Attempts
  BY <1>2, <1>7, AttemptType DEF IInv
<1> QED
  BY <1>1, <1>5, <1>6, <1>8 DEF Finished

LEMMA TypeStep == IInv /\ [Next]_vars => TypeOK'
<1> SUFFICES ASSUME IInv, [Next]_vars PROVE TypeOK'
  OBVIOUS
<1>0. TypeOK
  BY DEF IInv
<1> USE <1>0, RouterAssumption
<1>1. CASE Tick
  BY <1>1 DEF Tick, TypeOK, race, result
<1>2. ASSUME NEW c \in Clients, Submit(c) PROVE TypeOK'
  <2>1. ready' \in Seq(Handles)
    BY <1>2, HandleType DEF Submit, TypeOK
  <2>2. reply' \in [Clients -> Replies]
    BY <1>2 DEF Submit, TypeOK, NoReply, Replies
  <2>3. issued' \in 0..MaxRequests
    BY <1>2 DEF Submit, TypeOK
  <2> QED
    BY <1>2, <2>1, <2>2, <2>3 DEF Submit, TypeOK, Phases, ProbeStates
<1>3. ASSUME NEW c \in Clients, Reject(c) PROVE TypeOK'
  <2>1. ready' \in Seq(Handles)
    BY <1>3, RunNothing DEF Reject, Head1
  <2>2. reply' \in [Clients -> Replies] /\ phase' \in [Clients -> Phases]
    BY <1>3 DEF Reject, Reply, TypeOK, Replies, Phases
  <2> QED
    BY <1>3, <2>1, <2>2 DEF Reject, TypeOK, race
<1>4. ASSUME NEW c \in Clients, Refuse(c) PROVE TypeOK'
  <2>1. ready' \in Seq(Handles)
    BY <1>4, RunNothing DEF Refuse, Head1
  <2>2. reply' \in [Clients -> Replies] /\ phase' \in [Clients -> Phases]
    BY <1>4 DEF Refuse, Reply, TypeOK, Replies, Phases
  <2>3. charges' \in [Providers -> Seq(0..MaxTime)]
    BY <1>4, ChargesType DEF Refuse
  <2> QED
    BY <1>4, <2>1, <2>2, <2>3 DEF Refuse, TypeOK, race
<1>5. ASSUME NEW c \in Clients, StartSequential(c) PROVE TypeOK'
  <2> DEFINE selected == AfterSelection(ask[c].method, charges, now)
  <2>1. PICK o \in Planning(c, FALSE) :
          /\ order' = [order EXCEPT ![c] = o]
          /\ charges' = [selected EXCEPT ![o[1]] = Charged(o[1], @, now)]
          /\ probe' = [probe EXCEPT ![c] =
                         [p \in Providers |-> IF p = o[1] THEN "waiting"
                                              ELSE IF p \in Planned(o) THEN "planned"
                                              ELSE "none"]]
          /\ dispatched' = [dispatched EXCEPT ![c] = {o[1]}]
    BY <1>5 DEF StartSequential
  <2>2. o \in Seq(Providers) /\ o[1] \in Providers
    BY <1>5, PlanningType, <2>1 DEF StartSequential
  <2>3. charges' \in [Providers -> Seq(0..MaxTime)]
    <3>1. selected \in [Providers -> Seq(0..MaxTime)]
      BY ChargesType
    <3>2. Charged(o[1], selected[o[1]], now) \in Seq(0..MaxTime)
      BY <2>2, <3>1, ChargedType DEF TypeOK
    <3> QED
      BY <2>1, <3>1, <3>2
  <2>4. probe' \in [Clients -> [Providers -> ProbeStates]]
    BY <2>1 DEF TypeOK, ProbeStates
  <2>5. /\ order' \in [Clients -> Seq(Providers)]
        /\ dispatched' \in [Clients -> SUBSET Providers]
    BY <2>1, <2>2 DEF TypeOK
  <2>6. ready' \in Seq(Handles)
    BY <1>5, RunNothing DEF StartSequential, Head1
  <2>7. phase' \in [Clients -> Phases]
    BY <1>5 DEF StartSequential, TypeOK, Phases
  <2> QED
    BY <1>5, <2>3, <2>4, <2>5, <2>6, <2>7, ZenonT(30) DEF StartSequential, TypeOK, race, result
<1>6. ASSUME NEW c \in Clients, StartRace(c) PROVE TypeOK'
  <2>1. PICK o \in Planning(c, TRUE) :
          /\ order' = [order EXCEPT ![c] = o]
          /\ probe' = [probe EXCEPT ![c] =
                [p \in Providers |-> IF p \in Planned(o) THEN "planned" ELSE "none"]]
          /\ pending' = [pending EXCEPT ![c] = Planned(o)]
          /\ Run([i \in DOMAIN o |-> Handle("task", c, o[i])])
    BY <1>6 DEF StartRace
  <2>2. o \in Seq(Providers) /\ Planned(o) \subseteq Providers
    BY <1>6, PlanningType, <2>1 DEF StartRace
  <2>3. probe' \in [Clients -> [Providers -> ProbeStates]]
    BY <2>1 DEF TypeOK, ProbeStates
  <2>4. /\ order' \in [Clients -> Seq(Providers)]
        /\ pending' \in [Clients -> SUBSET Providers]
    BY <2>1, <2>2 DEF TypeOK
  <2>5. ready' \in Seq(Handles)
    <3>1. [i \in DOMAIN o |-> Handle("task", c, o[i])] \in Seq(Handles)
      BY <2>2, HandleType
    <3> QED
      BY <1>6, <2>1, <3>1, RunType DEF StartRace, Head1
  <2>6. phase' \in [Clients -> Phases]
    BY <1>6 DEF StartRace, TypeOK, Phases
  <2>7. charges' \in [Providers -> Seq(0..MaxTime)]
    BY <1>6, ChargesType DEF StartRace
  <2> QED
    BY <1>6, <2>3, <2>4, <2>5, <2>6, <2>7 DEF StartRace, TypeOK, result
<1>7. ASSUME NEW c \in Clients, NEW p \in Providers, LaunchTask(c, p) PROVE TypeOK'
  <2>1. ready' \in Seq(Handles)
    BY <1>7, RunNothing DEF LaunchTask, Head1
  <2>2. charges' \in [Providers -> Seq(0..MaxTime)]
    BY <1>7, ChargesType DEF LaunchTask, TypeOK
  <2>3. probe' \in [Clients -> [Providers -> ProbeStates]]
    BY <1>7 DEF LaunchTask, TypeOK, ProbeStates
  <2> QED
    BY <1>7, <2>1, <2>2, <2>3 DEF LaunchTask, MarkDispatched, TypeOK, race, result
<1>8. ASSUME NEW c \in Clients, NEW p \in Providers, Deliver(c, p) PROVE TypeOK'
  <2>1. ready' \in Seq(Handles)
    BY <1>8, HandleType DEF Deliver, TypeOK
  <2>2. probe' \in [Clients -> [Providers -> ProbeStates]]
    BY <1>8 DEF Deliver, TypeOK, ProbeStates
  <2> QED
    BY <1>8, <2>1, <2>2 DEF Deliver, TypeOK, race, result
<1>9. ASSUME NEW c \in Clients, NEW p \in Providers, EndTask(c, p) PROVE TypeOK'
  <2>1. ready' \in Seq(Handles)
    BY <1>9, HandleType, RunOne DEF EndTask, Head1
  <2>2. probe' \in [Clients -> [Providers -> ProbeStates]]
    BY <1>9 DEF EndTask, TypeOK, ProbeStates
  <2> QED
    BY <1>9, <2>1, <2>2 DEF EndTask, TypeOK, result
<1>10. ASSUME NEW c \in Clients, NEW p \in Providers, CancelStep(c, p) PROVE TypeOK'
  <2>1. ready' \in Seq(Handles)
    BY <1>10, HandleType, RunOne, RunNothing DEF CancelStep, Head1
  <2>2. probe' \in [Clients -> [Providers -> ProbeStates]]
    BY <1>10 DEF CancelStep, TypeOK, ProbeStates
  <2> QED
    BY <1>10, <2>1, <2>2 DEF CancelStep, TypeOK, race, result
<1>11. ASSUME NEW c \in Clients, NEW p \in Providers, Completed(c, p) PROVE TypeOK'
  <2>1. ready' \in Seq(Handles)
    BY <1>11, HandleType, RunOne, RunNothing DEF Completed, Head1
  <2>2. woken' \in [Clients -> BOOLEAN]
    BY <1>11 DEF Completed, Notifies, TypeOK
  <2> QED
    BY <1>11, <2>1, <2>2 DEF Completed, TypeOK, result
<1>12. ASSUME NEW c \in Clients, WakeLosing(c) PROVE TypeOK'
  <2>1. ready' \in Seq(Handles)
    BY <1>12, RunNothing DEF WakeLosing, Head1
  <2>2. /\ pending' \in [Clients -> SUBSET Providers]
        /\ woken' \in [Clients -> BOOLEAN]
    BY <1>12 DEF WakeLosing, Left, TypeOK
  <2>3. /\ attempts' \in [Clients -> SUBSET Attempts]
        /\ payload' \in [Clients -> Providers \cup {None}]
        /\ reply' \in [Clients -> Replies]
        /\ phase' \in [Clients -> Phases]
    <3>1. WithFinished(c) \in SUBSET Attempts
      BY AttemptsOfType
    <3>2. CASE Left(c) = {}
      <4>1. Finish(c, WithFinished(c), None)
        BY <1>12, <3>2 DEF WakeLosing
      <4> QED
        BY <3>1, <4>1, FinishType
    <3>3. CASE Left(c) # {}
      BY <1>12, <3>1, <3>3, ZenonT(30) DEF WakeLosing, TypeOK
    <3> QED
      BY <3>2, <3>3
  <2> QED
    BY <1>12, <2>1, <2>2, <2>3 DEF WakeLosing, TypeOK
<1>13. ASSUME NEW c \in Clients, WakeWinning(c) PROVE TypeOK'
  <2> DEFINE waiting == {p \in Left(c) : probe[c][p] = "waiting"}
  <2>1. PICK document \in Acceptable(c) :
          /\ \E o \in Arrangements(waiting) :
               Run([i \in DOMAIN o |-> Handle("resume", c, o[i])])
          /\ IF Left(c) = {}
             THEN /\ Finish(c, WithFinished(c), document)
                  /\ UNCHANGED awaiting
             ELSE /\ \E p \in Left(c) : awaiting' = [awaiting EXCEPT ![c] = p]
                  /\ attempts' = [attempts EXCEPT ![c] = WithFinished(c)]
                  /\ payload' = [payload EXCEPT ![c] = document]
                  /\ phase' = [phase EXCEPT ![c] = "draining"]
                  /\ UNCHANGED reply
    BY <1>13 DEF WakeWinning
  <2>2. /\ document \in Providers
        /\ Left(c) \subseteq Providers
    BY DEF Acceptable, Finished, Left, TypeOK
  <2>3. ready' \in Seq(Handles)
    <3>1. IsFiniteSet(waiting)
      BY <2>2, FS_Subset
    <3>2. PICK o \in Arrangements(waiting) :
                 Run([i \in DOMAIN o |-> Handle("resume", c, o[i])])
      BY <2>1
    <3>3. o \in Seq(Providers)
      BY <2>2, <3>1, ArrangementType
    <3>4. [i \in DOMAIN o |-> Handle("resume", c, o[i])] \in Seq(Handles)
      BY <3>3, HandleType
    <3> QED
      BY <1>13, <3>2, <3>4, RunType DEF WakeWinning, Head1
  <2>4. WithFinished(c) \in SUBSET Attempts
    BY AttemptsOfType
  <2>5. /\ attempts' \in [Clients -> SUBSET Attempts]
        /\ payload' \in [Clients -> Providers \cup {None}]
        /\ reply' \in [Clients -> Replies]
        /\ phase' \in [Clients -> Phases]
        /\ awaiting' \in [Clients -> Providers \cup {None}]
    <3>1. CASE Left(c) = {}
      BY <2>1, <2>2, <2>4, <3>1, FinishType DEF TypeOK
    <3>2. CASE Left(c) # {}
      <4>1. PICK p \in Left(c) : awaiting' = [awaiting EXCEPT ![c] = p]
        BY <2>1, <3>2
      <4>2. /\ attempts' = [attempts EXCEPT ![c] = WithFinished(c)]
            /\ payload' = [payload EXCEPT ![c] = document]
            /\ phase' = [phase EXCEPT ![c] = "draining"]
            /\ reply' = reply
        BY <2>1, <3>2
      <4> QED
        BY <2>2, <2>4, <4>1, <4>2 DEF TypeOK, Phases
    <3> QED
      BY <3>1, <3>2
  <2>6. probe' \in [Clients -> [Providers -> ProbeStates]]
    BY <1>13 DEF WakeWinning, TypeOK, ProbeStates
  <2>7. pending' \in [Clients -> SUBSET Providers]
    BY <1>13, <2>2 DEF WakeWinning, TypeOK
  <2> QED
    BY <1>13, <2>3, <2>5, <2>6, <2>7 DEF WakeWinning, TypeOK
<1>14. ASSUME NEW c \in Clients, Drain(c) PROVE TypeOK'
  <2> DEFINE canceled == {Attempt(c, p, "canceled") : p \in pending[c]}
  <2>1. ready' \in Seq(Handles)
    BY <1>14, RunNothing DEF Drain, Head1
  <2>2. attempts[c] \cup canceled \in SUBSET Attempts
    BY AttemptsOfType DEF TypeOK
  <2>3. Unfinished(c) \subseteq Providers /\ payload[c] \in Providers \cup {None}
    BY DEF Unfinished, TypeOK
  <2> HIDE DEF canceled
  <2>4. /\ attempts' \in [Clients -> SUBSET Attempts]
        /\ payload' \in [Clients -> Providers \cup {None}]
        /\ reply' \in [Clients -> Replies]
        /\ phase' \in [Clients -> Phases]
        /\ awaiting' \in [Clients -> Providers \cup {None}]
    <3>1. CASE Unfinished(c) = {}
      <4>1. Finish(c, attempts[c] \cup canceled, payload[c])
        BY <1>14, <3>1 DEF Drain, canceled
      <4>2. awaiting' \in [Clients -> Providers \cup {None}]
        BY <1>14, <3>1 DEF Drain, TypeOK
      <4> QED
        BY <2>2, <2>3, <4>1, <4>2, FinishType
    <3>2. CASE Unfinished(c) # {}
      <4>1. /\ \E p \in Unfinished(c) : awaiting' = [awaiting EXCEPT ![c] = p]
            /\ UNCHANGED <<phase, result>>
        BY <1>14, <3>2 DEF Drain
      <4>2. PICK p \in Unfinished(c) : awaiting' = [awaiting EXCEPT ![c] = p]
        BY <4>1
      <4> QED
        BY <2>3, <4>1, <4>2 DEF TypeOK, result
    <3> QED
      BY <3>1, <3>2
  <2> QED
    BY <1>14, <2>1, <2>4 DEF Drain, TypeOK
<1>15. ASSUME NEW c \in Clients, NEW p \in Providers, SequentialStep(c, p) PROVE TypeOK'
  <2> DEFINE trace == attempts[c] \cup {Attempt(c, p, fate[c][p])}
             document == IF fate[c][p] = "accepted" THEN p ELSE None
             q == order[c][Position(c, p) + 1]
  <2>1. ready' \in Seq(Handles)
    BY <1>15, RunNothing DEF SequentialStep, Head1
  <2>2. trace \in SUBSET Attempts /\ document \in Providers \cup {None}
    BY <1>15, AttemptsOfType DEF SequentialStep, TypeOK
  <2>3. CASE SequentialEnds(c, p)
    <3>1. /\ Finish(c, trace, document) /\ UNCHANGED <<charges, dispatched>>
          /\ probe' = [probe EXCEPT ![c] = Stopped(c, p)]
      BY <1>15, <2>3 DEF SequentialStep
    <3>2. probe' \in [Clients -> [Providers -> ProbeStates]]
      BY <3>1 DEF Stopped, TypeOK, ProbeStates
    <3> HIDE DEF trace, document
    <3>3. /\ attempts' \in [Clients -> SUBSET Attempts]
          /\ payload' \in [Clients -> Providers \cup {None}]
          /\ reply' \in [Clients -> Replies]
          /\ phase' \in [Clients -> Phases]
      BY <2>2, <3>1, FinishType
    <3> QED
      BY <1>15, <2>1, <3>1, <3>2, <3>3 DEF SequentialStep, TypeOK, race
  <2>4. CASE ~SequentialEnds(c, p)
    <3>1. /\ probe' = [probe EXCEPT ![c][p] = "done", ![c][q] = "waiting"]
          /\ charges' = [charges EXCEPT ![q] = Charged(q, @, now)]
          /\ MarkDispatched(c, q)
          /\ attempts' = [attempts EXCEPT ![c] = trace]
          /\ UNCHANGED <<phase, payload, reply>>
      BY <1>15, <2>4 DEF SequentialStep
    <3>2. p \in Planned(order[c])
      BY <1>15 DEF SequentialStep, IInv, PlanKept
    <3>3. q \in Providers
      BY <2>4, <3>2, PositionType DEF SequentialEnds, IsLast, TypeOK
    <3> HIDE DEF q, trace, document
    <3>4. charges' \in [Providers -> Seq(0..MaxTime)]
      BY <3>1, <3>3, ChargesType DEF TypeOK
    <3>5. probe' \in [Clients -> [Providers -> ProbeStates]]
      BY <3>1, <3>3 DEF TypeOK, ProbeStates
    <3>6. /\ dispatched' \in [Clients -> SUBSET Providers]
          /\ attempts' \in [Clients -> SUBSET Attempts]
      BY <2>2, <3>1, <3>3 DEF TypeOK, MarkDispatched
    <3> QED
      BY <1>15, <2>1, <3>1, <3>4, <3>5, <3>6 DEF SequentialStep, TypeOK, race
  <2> QED
    BY <2>3, <2>4
<1>16. ASSUME NEW c \in Clients, NEW p \in Providers, SequentialCrash(c, p) PROVE TypeOK'
  <2>1. ready' \in Seq(Handles)
    BY <1>16, RunNothing DEF SequentialCrash, Head1
  <2>2. probe' \in [Clients -> [Providers -> ProbeStates]]
    BY <1>16 DEF SequentialCrash, Stopped, TypeOK, ProbeStates
  <2>3. reply' \in [Clients -> Replies] /\ phase' \in [Clients -> Phases]
    BY <1>16 DEF SequentialCrash, Reply, TypeOK, Replies, Phases
  <2> QED
    BY <1>16, <2>1, <2>2, <2>3 DEF SequentialCrash, TypeOK, race
<1>17. CASE Snapshot
  <2>1. charges' \in [Providers -> Seq(0..MaxTime)]
    BY <1>17, PruneIsSuffix DEF Snapshot, TypeOK
  <2> QED
    BY <1>17, <2>1 DEF Snapshot, TypeOK, race, result
<1>18. CASE UNCHANGED vars
  BY <1>18 DEF vars, loop, race, result, TypeOK
<1> QED
  BY <1>1, <1>2, <1>3, <1>4, <1>5, <1>6, <1>7, <1>8, <1>9, <1>10, <1>11, <1>12,
     <1>13, <1>14, <1>15, <1>16, <1>17, <1>18
     DEF Next, RunLoop, Handler, ProbeStep, Select

-----------------------------------------------------------------------------
(* No task of a race is scheduled for a request that is not raced. *)

LEMMA RunHandles ==
    ASSUME TypeOK, ready # << >>, NEW new \in Seq(Handles), Run(new)
    PROVE  \A i \in DOMAIN ready' :
             \/ \E j \in DOMAIN ready : ready'[i] = ready[j]
             \/ \E j \in DOMAIN new : ready'[i] = new[j]
<1>1. /\ ready \in Seq(Handles) /\ Tail(ready) \in Seq(Handles)
      /\ Len(Tail(ready)) = Len(ready) - 1
      /\ \A k \in 1..Len(Tail(ready)) : Tail(ready)[k] = ready[k + 1]
  BY DEF TypeOK
<1>2. ready' = Tail(ready) \o new
  BY DEF Run
<1> DEFINE t == Tail(ready)
<1> HIDE DEF t
<1>3. /\ t \in Seq(Handles) /\ ready' = t \o new /\ Len(t) = Len(ready) - 1
      /\ \A k \in 1..Len(t) : t[k] = ready[k + 1]
  BY <1>1, <1>2 DEF t
<1>4. TAKE i \in DOMAIN ready'
<1>5. CASE i <= Len(t)
  <2>1. ready'[i] = t[i] /\ i \in 1..Len(t)
    BY <1>3, <1>4, <1>5
  <2>2. i + 1 \in DOMAIN ready /\ ready'[i] = ready[i + 1]
    BY <1>1, <1>3, <2>1
  <2> QED
    BY <2>2
<1>6. CASE i > Len(t)
  <2>1. ready'[i] = new[i - Len(t)] /\ i - Len(t) \in DOMAIN new
    BY <1>3, <1>4, <1>6
  <2> QED
    BY <2>1
<1> QED
  BY <1>3, <1>4, <1>5, <1>6

LEMMA ReadyType ==
    ASSUME TypeOK, NEW i \in DOMAIN ready
    PROVE  ready[i] \in Handles /\ ready[i].client \in Clients
<1>1. ready[i] \in Handles
  BY DEF TypeOK
<1> QED
  BY <1>1 DEF Handles

LEMMA TasksKept ==
    ASSUME TypeOK, RaceTasks,
           \A i \in DOMAIN ready' :
             (\E j \in DOMAIN ready : ready'[i] = ready[j]) \/ ready'[i].kind # "task",
           \A c \in Clients :
             phase'[c] \in {"queued", "sequential"} => phase[c] \in {"queued", "sequential"}
    PROVE  RaceTasks'
<1>1. SUFFICES ASSUME NEW i \in DOMAIN ready', ready'[i].kind = "task"
               PROVE  phase'[ready'[i].client] \notin {"queued", "sequential"}
  BY DEF RaceTasks
<1>2. PICK j \in DOMAIN ready : ready'[i] = ready[j]
  BY <1>1
<1>3. ready[j].client \in Clients
  BY ReadyType
<1> QED
  BY <1>1, <1>2, <1>3 DEF RaceTasks

\* The step of a callback that schedules no task, for a request that does not
\* enter the queue or a loop.
LEMMA CallbackKept ==
    ASSUME TypeOK, RaceTasks, ready # << >>, NEW new \in Seq(Handles), Run(new),
           \A j \in DOMAIN new : new[j].kind # "task",
           \A c \in Clients :
             phase'[c] \in {"queued", "sequential"} => phase[c] \in {"queued", "sequential"}
    PROVE  RaceTasks'
<1>1. \A i \in DOMAIN ready' :
        (\E j \in DOMAIN ready : ready'[i] = ready[j]) \/ ready'[i].kind # "task"
  BY RunHandles
<1> QED
  BY <1>1, TasksKept

\* Scheduling nothing, or one callback that is not a task.
LEMMA SmallCallbackKept ==
    ASSUME TypeOK, RaceTasks, ready # << >>,
           NEW kind \in {"handler", "resume", "completed", "wake"},
           NEW d \in Clients, NEW p \in Providers \cup {None},
           Run(<< >>) \/ Run(<<Handle(kind, d, p)>>),
           \A c \in Clients :
             phase'[c] \in {"queued", "sequential"} => phase[c] \in {"queued", "sequential"}
    PROVE  RaceTasks'
<1>1. CASE Run(<< >>)
  <2>1. << >> \in Seq(Handles) /\ DOMAIN << >> = {}
    OBVIOUS
  <2> QED
    BY <1>1, <2>1, CallbackKept
<1>2. CASE Run(<<Handle(kind, d, p)>>)
  <2> DEFINE new == <<Handle(kind, d, p)>>
  <2>1. new \in Seq(Handles)
    BY HandleType
  <2>2. \A j \in DOMAIN new : new[j].kind # "task"
    BY DEF Handle
  <2> HIDE DEF new
  <2>3. Run(new)
    BY <1>2 DEF new
  <2> QED
    BY <2>1, <2>2, <2>3, CallbackKept
<1> QED
  BY <1>1, <1>2

LEMMA FinishPhase ==
    ASSUME NEW c, NEW trace, NEW document, Finish(c, trace, document)
    PROVE  phase' = [phase EXCEPT ![c] = "answered"]
  BY DEF Finish, Reply

LEMMA TasksStep == IInv /\ [Next]_vars => RaceTasks'
<1> SUFFICES ASSUME IInv, [Next]_vars PROVE RaceTasks'
  OBVIOUS
<1>0. TypeOK /\ RaceTasks
  BY DEF IInv
<1> USE <1>0
<1>1. CASE UNCHANGED <<ready, phase>>
  BY <1>1 DEF RaceTasks
<1>2. ASSUME NEW c \in Clients, Submit(c) PROVE RaceTasks'
  <2>1. /\ ready' = Append(ready, Handle("handler", c, None))
        /\ phase' = [phase EXCEPT ![c] = "queued"]
        /\ \A i \in DOMAIN ready : ready[i].client # c
    BY <1>2 DEF Submit
  <2>2. SUFFICES ASSUME NEW i \in DOMAIN ready', ready'[i].kind = "task"
                 PROVE  phase'[ready'[i].client] \notin {"queued", "sequential"}
    BY DEF RaceTasks
  <2>3. i \in DOMAIN ready /\ ready'[i] = ready[i]
    BY <2>1, <2>2 DEF TypeOK, Handle
  <2>4. ready[i].client \in Clients
    BY <2>3, ReadyType
  <2> QED
    BY <2>1, <2>2, <2>3, <2>4 DEF RaceTasks, TypeOK
<1>3. ASSUME NEW c \in Clients, Reject(c) \/ Refuse(c) PROVE RaceTasks'
  <2>1. ready # << >> /\ Run(<< >>) /\ phase' = [phase EXCEPT ![c] = "answered"]
    BY <1>3 DEF Reject, Refuse, Reply, Head1
  <2> QED
    BY <2>1, SmallCallbackKept DEF TypeOK
<1>4. ASSUME NEW c \in Clients, StartSequential(c) PROVE RaceTasks'
  <2>1. /\ ready # << >> /\ Run(<< >>) /\ phase[c] = "queued"
        /\ phase' = [phase EXCEPT ![c] = "sequential"]
    BY <1>4 DEF StartSequential, Head1
  <2> QED
    BY <2>1, SmallCallbackKept DEF TypeOK
<1>5. ASSUME NEW c \in Clients, StartRace(c) PROVE RaceTasks'
  <2>1. PICK o \in Planning(c, TRUE) : Run([i \in DOMAIN o |-> Handle("task", c, o[i])])
    BY <1>5 DEF StartRace
  <2>2. ready # << >> /\ phase' = [phase EXCEPT ![c] = "racing"]
    BY <1>5 DEF StartRace, Head1
  <2>3. o \in Seq(Providers)
    BY <1>5, <2>1, PlanningType DEF StartRace
  <2> DEFINE new == [i \in DOMAIN o |-> Handle("task", c, o[i])]
  <2>4. new \in Seq(Handles) /\ \A j \in DOMAIN new : new[j].client = c
    BY <2>3, HandleType DEF Handle
  <2> HIDE DEF new
  <2>5. SUFFICES ASSUME NEW i \in DOMAIN ready', ready'[i].kind = "task"
                 PROVE  phase'[ready'[i].client] \notin {"queued", "sequential"}
    BY DEF RaceTasks
  <2>6. \/ \E j \in DOMAIN ready : ready'[i] = ready[j]
        \/ \E j \in DOMAIN new : ready'[i] = new[j]
    BY <2>1, <2>2, <2>4, RunHandles DEF new
  <2>7. CASE \E j \in DOMAIN new : ready'[i] = new[j]
    BY <2>2, <2>4, <2>7 DEF TypeOK
  <2>8. CASE \E j \in DOMAIN ready : ready'[i] = ready[j]
    <3>1. PICK j \in DOMAIN ready : ready'[i] = ready[j]
      BY <2>8
    <3>2. ready[j].client \in Clients
      BY <3>1, ReadyType
    <3> QED
      BY <2>2, <2>5, <3>1, <3>2 DEF RaceTasks, TypeOK
  <2> QED
    BY <2>6, <2>7, <2>8
<1>6. ASSUME NEW c \in Clients, NEW p \in Providers,
             LaunchTask(c, p) \/ EndTask(c, p) \/ CancelStep(c, p) \/ Completed(c, p)
      PROVE  RaceTasks'
  <2>1. /\ ready # << >> /\ phase' = phase
        /\ \/ Run(<< >>) \/ Run(<<Handle("completed", c, p)>>)
           \/ Run(<<Handle("wake", c, None)>>)
    BY <1>6 DEF LaunchTask, EndTask, CancelStep, Completed, Head1
  <2> QED
    BY <2>1, SmallCallbackKept
<1>7. ASSUME NEW c \in Clients, NEW p \in Providers, Deliver(c, p) PROVE RaceTasks'
  <2>1. ready' = Append(ready, Handle("resume", c, p)) /\ phase' = phase
    BY <1>7 DEF Deliver
  <2>2. \A i \in DOMAIN ready' :
          (\E j \in DOMAIN ready : ready'[i] = ready[j]) \/ ready'[i].kind # "task"
    BY <2>1 DEF TypeOK, Handle
  <2> QED
    BY <2>1, <2>2, TasksKept
<1>8. ASSUME NEW c \in Clients, WakeLosing(c) \/ Drain(c) PROVE RaceTasks'
  <2>1. ready # << >> /\ Run(<< >>)
    BY <1>8 DEF WakeLosing, Drain, Head1
  <2>2. phase' = [phase EXCEPT ![c] = "answered"] \/ phase' = phase
    BY <1>8, FinishPhase DEF WakeLosing, Drain
  <2> QED
    BY <2>1, <2>2, SmallCallbackKept DEF TypeOK
<1>9. ASSUME NEW c \in Clients, WakeWinning(c) PROVE RaceTasks'
  <2> DEFINE waiting == {p \in Left(c) : probe[c][p] = "waiting"}
  <2>1. /\ ready # << >>
        /\ \E o \in Arrangements(waiting) :
             Run([i \in DOMAIN o |-> Handle("resume", c, o[i])])
    BY <1>9 DEF WakeWinning, Head1
  <2>2. PICK o \in Arrangements(waiting) :
             Run([i \in DOMAIN o |-> Handle("resume", c, o[i])])
    BY <2>1
  <2>3. o \in Seq(waiting) /\ waiting \subseteq Providers
    <3>1. waiting \subseteq Providers
      BY DEF Left, TypeOK
    <3>2. IsFiniteSet(waiting)
      BY <3>1, RouterAssumption, FS_Subset
    <3> QED
      BY <3>1, <3>2, ArrangementType
  <2> DEFINE new == [i \in DOMAIN o |-> Handle("resume", c, o[i])]
  <2>4. new \in Seq(Handles) /\ \A j \in DOMAIN new : new[j].kind # "task"
    BY <2>3, HandleType DEF Handle
  <2> HIDE DEF new
  <2>5. \/ phase' = [phase EXCEPT ![c] = "answered"]
        \/ phase' = [phase EXCEPT ![c] = "draining"]
    BY <1>9, FinishPhase DEF WakeWinning
  <2>6. \A e \in Clients :
          phase'[e] \in {"queued", "sequential"} => phase[e] \in {"queued", "sequential"}
    BY <2>5 DEF TypeOK
  <2> QED
    BY <2>1, <2>2, <2>4, <2>6, CallbackKept DEF new
<1>10. ASSUME NEW c \in Clients, NEW p \in Providers,
              SequentialStep(c, p) \/ SequentialCrash(c, p)
       PROVE  RaceTasks'
  <2>1. ready # << >> /\ Run(<< >>)
    BY <1>10 DEF SequentialStep, SequentialCrash, Head1
  <2>2. phase' = [phase EXCEPT ![c] = "answered"] \/ phase' = phase
    BY <1>10, FinishPhase DEF SequentialStep, SequentialCrash, Reply
  <2> QED
    BY <2>1, <2>2, SmallCallbackKept DEF TypeOK
<1> QED
  BY <1>1, <1>2, <1>3, <1>4, <1>5, <1>6, <1>7, <1>8, <1>9, <1>10
     DEF Next, RunLoop, Handler, ProbeStep, Select, Tick, Snapshot, vars, loop

-----------------------------------------------------------------------------
(* The plan of every request is kept by each step. *)

Kept(c) == PlanKept(c) /\ OutcomesKnown(c) /\ RestPlanned(c)

\* What Kept looks at.
Same(c) ==
    /\ phase'[c] = phase[c] /\ order'[c] = order[c] /\ pending'[c] = pending[c]
    /\ probe'[c] = probe[c] /\ fate'[c] = fate[c]

LEMMA SameKept ==
    ASSUME NEW c \in Clients, Kept(c), Same(c)
    PROVE  Kept(c)'
  BY DEF Kept, Same, PlanKept, OutcomesKnown, RestPlanned, Planned

\* A step that only moves probes of a request that is not in a loop, and
\* neither plans nor queues anything, keeps the plan.
LEMMA MovedKept ==
    ASSUME NEW c \in Clients, Kept(c),
           order'[c] = order[c], fate'[c] = fate[c],
           pending'[c] \subseteq pending[c],
           phase'[c] \notin {"sequential", "queued"},
           \A p \in Providers : probe'[c][p] # "none" => probe[c][p] # "none",
           \A p \in Providers :
             probe'[c][p] \in {"arrived", "done"} => probe[c][p] \in {"arrived", "done"}
    PROVE  Kept(c)'
  BY DEF Kept, PlanKept, OutcomesKnown, RestPlanned, Planned

LEMMA PlanStep == IInv /\ TypeOK' /\ [Next]_vars => \A c \in Clients : Kept(c)'
<1> SUFFICES ASSUME IInv, TypeOK', [Next]_vars, NEW d \in Clients PROVE Kept(d)'
  OBVIOUS
<1>0. TypeOK /\ RaceTasks /\ \A c \in Clients : Kept(c)
  BY DEF IInv, Kept
<1> USE <1>0
<1>1. CASE Tick
  BY <1>1, SameKept DEF Tick, race, Same
<1>2. ASSUME NEW c \in Clients, Submit(c) PROVE Kept(d)'
  <2>1. CASE c = d
    <3>1. /\ order'[c] = << >> /\ pending'[c] = {} /\ phase'[c] = "queued"
          /\ \A p \in Providers : probe'[c][p] = "none"
      BY <1>2 DEF Submit, TypeOK
    <3> QED
      BY <2>1, <3>1 DEF Kept, PlanKept, OutcomesKnown, RestPlanned
  <2>2. CASE c # d
    BY <1>2, <2>2, SameKept DEF Submit, Same, TypeOK
  <2> QED
    BY <2>1, <2>2
<1>3. ASSUME NEW c \in Clients, Reject(c) \/ Refuse(c) PROVE Kept(d)'
  <2>1. /\ phase' = [phase EXCEPT ![c] = "answered"]
        /\ UNCHANGED <<order, pending, probe, fate>>
    BY <1>3 DEF Reject, Refuse, Reply, race
  <2>2. CASE c = d
    BY <2>1, <2>2, MovedKept DEF TypeOK
  <2>3. CASE c # d
    BY <2>1, <2>3, SameKept DEF Same
  <2> QED
    BY <2>2, <2>3
<1>5. ASSUME NEW c \in Clients, StartSequential(c) PROVE Kept(d)'
  <2>1. PICK o \in Planning(c, FALSE) :
          /\ order' = [order EXCEPT ![c] = o]
          /\ probe' = [probe EXCEPT ![c] =
                         [p \in Providers |-> IF p = o[1] THEN "waiting"
                                              ELSE IF p \in Planned(o) THEN "planned"
                                              ELSE "none"]]
    BY <1>5 DEF StartSequential
  <2>2. /\ o \in Seq(Providers) /\ o[1] \in Planned(o) /\ 1 \in DOMAIN o
        /\ \A i, j \in DOMAIN o : o[i] = o[j] => i = j
    BY <1>5, <2>1, PlanningType DEF StartSequential
  <2>3. /\ phase' = [phase EXCEPT ![c] = "sequential"]
        /\ UNCHANGED <<pending, fate>>
        /\ phase[c] = "queued"
    BY <1>5 DEF StartSequential, race
  <2>4. CASE c = d
    <3>1. /\ order'[c] = o /\ phase'[c] = "sequential" /\ pending'[c] = pending[c]
          /\ \A p \in Providers :
               probe'[c][p] = IF p = o[1] THEN "waiting"
                              ELSE IF p \in Planned(o) THEN "planned" ELSE "none"
      BY <2>1, <2>3 DEF TypeOK
    <3>2. pending[c] = {}
      BY <2>3 DEF Kept, PlanKept
    <3>3. \A i \in DOMAIN o : o[i] \in Planned(o) /\ o[i] \in Providers
      BY <2>2 DEF Planned
    <3>4. ASSUME NEW i \in DOMAIN o, NEW j \in DOMAIN o, i < j,
                 probe'[c][o[i]] \in {"waiting", "arrived"}
          PROVE  probe'[c][o[j]] = "planned"
      <4>1. i = 1
        BY <2>2, <3>1, <3>3, <3>4
      <4>2. o[j] # o[1]
        BY <2>2, <3>4, <4>1
      <4> QED
        BY <3>1, <3>3, <4>2
    <3>5. PlanKept(c)'
      BY <2>2, <3>1, <3>2 DEF PlanKept, Planned
    <3>6. OutcomesKnown(c)'
      BY <3>1 DEF OutcomesKnown
    <3>7. RestPlanned(c)'
      BY <3>1, <3>4 DEF RestPlanned
    <3> QED
      BY <2>4, <3>5, <3>6, <3>7 DEF Kept
  <2>5. CASE c # d
    BY <2>1, <2>3, <2>5, SameKept DEF Same, TypeOK
  <2> QED
    BY <2>4, <2>5
<1>6. ASSUME NEW c \in Clients, StartRace(c) PROVE Kept(d)'
  <2>1. PICK o \in Planning(c, TRUE) :
          /\ order' = [order EXCEPT ![c] = o]
          /\ probe' = [probe EXCEPT ![c] =
                [p \in Providers |-> IF p \in Planned(o) THEN "planned" ELSE "none"]]
          /\ pending' = [pending EXCEPT ![c] = Planned(o)]
    BY <1>6 DEF StartRace
  <2>2. \A i, j \in DOMAIN o : o[i] = o[j] => i = j
    BY <1>6, <2>1, PlanningType DEF StartRace
  <2>3. phase' = [phase EXCEPT ![c] = "racing"] /\ UNCHANGED fate
    BY <1>6 DEF StartRace
  <2>4. CASE c = d
    <3>1. /\ order'[c] = o /\ phase'[c] = "racing" /\ pending'[c] = Planned(o)
          /\ \A p \in Providers :
               probe'[c][p] = IF p \in Planned(o) THEN "planned" ELSE "none"
      BY <2>1, <2>3 DEF TypeOK
    <3> QED
      BY <2>2, <2>4, <3>1 DEF Kept, PlanKept, OutcomesKnown, RestPlanned, Planned
  <2>5. CASE c # d
    BY <2>1, <2>3, <2>5, SameKept DEF Same, TypeOK
  <2> QED
    BY <2>4, <2>5
<1>7. ASSUME NEW c \in Clients, NEW p \in Providers, LaunchTask(c, p) PROVE Kept(d)'
  <2>1. /\ probe' = [probe EXCEPT ![c][p] = "waiting"]
        /\ probe[c][p] = "planned"
        /\ UNCHANGED <<phase, order, fate, pending>>
        /\ phase[c] \notin {"queued", "sequential"}
    <3>1. 1 \in DOMAIN ready /\ ready[1] = Handle("task", c, p)
      BY <1>7 DEF LaunchTask, Head1, TypeOK
    <3> QED
      BY <1>7, <3>1 DEF LaunchTask, race, RaceTasks, Handle
  <2>2. CASE c = d
    BY <2>1, <2>2, MovedKept DEF TypeOK
  <2>3. CASE c # d
    BY <2>1, <2>3, SameKept DEF Same, TypeOK
  <2> QED
    BY <2>2, <2>3
<1>8. ASSUME NEW c \in Clients, NEW p \in Providers, Deliver(c, p) PROVE Kept(d)'
  <2>1. PICK outcome \in Outcomes :
          /\ probe' = [probe EXCEPT ![c][p] = "arrived"]
          /\ fate' = [fate EXCEPT ![c][p] = outcome]
    BY <1>8 DEF Deliver
  <2>2. /\ probe[c][p] = "waiting" /\ UNCHANGED <<phase, order, pending>>
        /\ outcome # "none"
    BY <1>8, RouterAssumption DEF Deliver, race, AllOutcomes
  <2>3. CASE c = d
    <3>1. /\ \A q \in Providers : probe'[c][q] = IF q = p THEN "arrived" ELSE probe[c][q]
          /\ \A q \in Providers : fate'[c][q] = IF q = p THEN outcome ELSE fate[c][q]
      BY <2>1 DEF TypeOK
    <3>2. order[c] \in Seq(Providers)
      BY DEF TypeOK
    <3> QED
      BY <2>2, <2>3, <3>1, <3>2, SMTT(30) DEF Kept, PlanKept, OutcomesKnown, RestPlanned, Planned
  <2>4. CASE c # d
    BY <2>1, <2>2, <2>4, SameKept DEF Same, TypeOK
  <2> QED
    BY <2>3, <2>4
<1>9. ASSUME NEW c \in Clients, NEW p \in Providers, EndTask(c, p) PROVE Kept(d)'
  <2>1. /\ probe' = [probe EXCEPT ![c][p] = "done"] /\ probe[c][p] = "arrived"
        /\ phase[c] # "sequential"
        /\ UNCHANGED <<phase, order, fate, pending>>
    BY <1>9 DEF EndTask
  <2>2. CASE c = d
    <3>1. \A q \in Providers : probe'[c][q] = IF q = p THEN "done" ELSE probe[c][q]
      BY <2>1 DEF TypeOK
    <3> QED
      BY <2>1, <2>2, <3>1 DEF Kept, PlanKept, OutcomesKnown, RestPlanned, Planned
  <2>3. CASE c # d
    BY <2>1, <2>3, SameKept DEF Same, TypeOK
  <2> QED
    BY <2>2, <2>3
<1>10. ASSUME NEW c \in Clients, NEW p \in Providers, CancelStep(c, p) PROVE Kept(d)'
  <2>1. /\ probe' = [probe EXCEPT ![c][p] = "canceled"] /\ probe[c][p] = "cancelling"
        /\ UNCHANGED <<phase, order, fate, pending>>
    BY <1>10 DEF CancelStep, race
  <2>2. CASE c = d
    <3>1. \A q \in Providers : probe'[c][q] = IF q = p THEN "canceled" ELSE probe[c][q]
      BY <2>1 DEF TypeOK
    <3>2. order[c] \in Seq(Providers)
      BY DEF TypeOK
    <3> QED
      BY <2>1, <2>2, <3>1, <3>2
         DEF Kept, PlanKept, OutcomesKnown, RestPlanned, Planned
  <2>3. CASE c # d
    BY <2>1, <2>3, SameKept DEF Same, TypeOK
  <2> QED
    BY <2>2, <2>3
<1>11. ASSUME NEW c \in Clients, NEW p \in Providers, Completed(c, p) PROVE Kept(d)'
  BY <1>11, SameKept DEF Completed, Same
<1>12. ASSUME NEW c \in Clients, WakeLosing(c) PROVE Kept(d)'
  <2>1. /\ phase[c] = "racing"
        /\ pending' = [pending EXCEPT ![c] = Left(c)]
        /\ UNCHANGED <<order, probe, fate>>
    BY <1>12 DEF WakeLosing
  <2>2. \/ phase' = [phase EXCEPT ![c] = "answered"]
        \/ phase' = phase
    BY <1>12, FinishPhase DEF WakeLosing
  <2>3. CASE c = d
    BY <2>1, <2>2, <2>3, MovedKept DEF TypeOK, Left
  <2>4. CASE c # d
    BY <2>1, <2>2, <2>4, SameKept DEF Same, TypeOK
  <2> QED
    BY <2>3, <2>4
<1>13. ASSUME NEW c \in Clients, WakeWinning(c) PROVE Kept(d)'
  <2>1. /\ phase[c] = "racing"
        /\ pending' = [pending EXCEPT ![c] = Left(c)]
        /\ probe' = [probe EXCEPT ![c] =
              [p \in Providers |-> IF p \in Left(c) THEN "cancelling" ELSE @[p]]]
        /\ UNCHANGED <<order, fate>>
    BY <1>13 DEF WakeWinning
  <2>2. \/ phase' = [phase EXCEPT ![c] = "answered"]
        \/ phase' = [phase EXCEPT ![c] = "draining"]
    BY <1>13, FinishPhase DEF WakeWinning
  <2>3. CASE c = d
    <3>1. /\ pending'[c] \subseteq pending[c]
          /\ phase'[c] \notin {"sequential", "queued"}
      BY <2>1, <2>2 DEF TypeOK, Left
    <3>2. \A p \in Left(c) : p \in Planned(order[c])
      BY DEF Kept, PlanKept, Left
    <3>3. \A p \in Providers :
            probe'[c][p] = IF p \in Left(c) THEN "cancelling" ELSE probe[c][p]
      BY <2>1 DEF TypeOK
    <3> QED
      BY <2>1, <2>3, <3>1, <3>2, <3>3
         DEF Kept, PlanKept, OutcomesKnown, RestPlanned, Planned
  <2>4. CASE c # d
    BY <2>1, <2>2, <2>4, SameKept DEF Same, TypeOK
  <2> QED
    BY <2>3, <2>4
<1>14. ASSUME NEW c \in Clients, Drain(c) PROVE Kept(d)'
  <2>1. phase[c] = "draining" /\ UNCHANGED <<order, probe, fate, pending>>
    BY <1>14 DEF Drain
  <2>2. \/ phase' = [phase EXCEPT ![c] = "answered"]
        \/ phase' = phase
    BY <1>14, FinishPhase DEF Drain
  <2>3. CASE c = d
    BY <2>1, <2>2, <2>3, MovedKept DEF TypeOK
  <2>4. CASE c # d
    BY <2>1, <2>2, <2>4, SameKept DEF Same, TypeOK
  <2> QED
    BY <2>3, <2>4
<1>15. ASSUME NEW c \in Clients, NEW p \in Providers, SequentialStep(c, p) PROVE Kept(d)'
  <2> DEFINE q == order[c][Position(c, p) + 1]
  <2>0. /\ phase[c] = "sequential" /\ probe[c][p] = "arrived"
        /\ UNCHANGED <<order, fate, pending>>
    BY <1>15 DEF SequentialStep, race
  <2>1. CASE SequentialEnds(c, p)
    <3>1. /\ probe' = [probe EXCEPT ![c] = Stopped(c, p)]
          /\ phase' = [phase EXCEPT ![c] = "answered"]
      BY <1>15, <2>1, FinishPhase DEF SequentialStep
    <3>2. CASE c = d
      BY <2>0, <3>1, <3>2, MovedKept DEF TypeOK, Stopped
    <3>3. CASE c # d
      BY <2>0, <3>1, <3>3, SameKept DEF Same, TypeOK
    <3> QED
      BY <3>2, <3>3
  <2>2. CASE ~SequentialEnds(c, p)
    <3>1. /\ probe' = [probe EXCEPT ![c][p] = "done", ![c][q] = "waiting"]
          /\ UNCHANGED phase
      BY <1>15, <2>2 DEF SequentialStep
    <3>2. CASE c = d
      <4> DEFINE o == order[c]
                 n == Position(c, p)
      <4>1. o \in Seq(Providers) /\ n \in DOMAIN o /\ n \in 1..Len(o) /\ o[n] = p
        BY <2>0, PositionType DEF TypeOK, Kept, PlanKept
      <4>2. n + 1 \in DOMAIN o /\ q = o[n + 1] /\ q \in Providers
        BY <2>2, <4>1 DEF SequentialEnds, IsLast
      <4>3. \A i, j \in DOMAIN o : o[i] = o[j] => i = j
        BY DEF Kept, PlanKept
      <4>4. \A i, j \in DOMAIN o :
              i < j /\ probe[c][o[i]] \in {"waiting", "arrived"} => probe[c][o[j]] = "planned"
        BY <2>0 DEF Kept, RestPlanned
      <4> HIDE DEF o, n, q
      <4>5. p # q
        BY <4>1, <4>2, <4>3
      <4>6. \A r \in Providers :
              probe'[c][r] = IF r = q THEN "waiting" ELSE IF r = p THEN "done" ELSE probe[c][r]
        BY <3>1, <4>2, <4>5 DEF TypeOK
      <4>7. ASSUME NEW i \in DOMAIN o, NEW j \in DOMAIN o, i < j,
                   probe'[c][o[i]] \in {"waiting", "arrived"}
            PROVE  probe'[c][o[j]] = "planned"
        <5>1. o[i] \in Providers /\ o[j] \in Providers /\ i \in Nat /\ j \in Nat
          BY <4>1
        <5>2. i >= n
          <6>1. SUFFICES ASSUME i < n PROVE FALSE
            BY <4>1, <5>1
          <6>2. o[i] # q /\ o[i] # p
            BY <4>1, <4>2, <4>3, <5>1, <6>1
          <6>3. probe[c][o[i]] \in {"waiting", "arrived"}
            BY <4>6, <4>7, <5>1, <6>2
          <6>4. probe[c][o[n]] = "planned"
            BY <4>1, <4>4, <6>1, <6>3
          <6> QED
            BY <2>0, <4>1, <6>4
        <5>3. i # n
          BY <4>1, <4>5, <4>6, <4>7
        <5>4. j # n /\ j # n + 1 /\ n < j
          BY <4>1, <4>7, <5>1, <5>2, <5>3
        <5>5. o[j] # p /\ o[j] # q
          BY <4>1, <4>2, <4>3, <5>4
        <5>6. probe[c][o[j]] = "planned"
          BY <2>0, <4>1, <4>4, <5>4
        <5> QED
          BY <4>6, <5>1, <5>5, <5>6
      <4>8. RestPlanned(c)'
        BY <2>0, <4>7 DEF RestPlanned, o
      <4>9. OutcomesKnown(c)'
        BY <2>0, <4>6 DEF OutcomesKnown, Kept
      <4>10. PlanKept(c)'
        <5>1. q \in Planned(order[c])
          BY <4>2 DEF Planned, o
        <5>2. \A r \in Providers : probe[c][r] # "none" => r \in Planned(order[c])
          BY DEF Kept, PlanKept
        <5>3. /\ order'[c] = order[c] /\ pending'[c] = pending[c]
              /\ phase'[c] = "sequential"
          BY <2>0, <3>1
        <5>4. \A r \in Providers : probe'[c][r] # "none" => r \in Planned(order[c])
          BY <2>0, <4>6, <5>1, <5>2
        <5> QED
          BY <5>3, <5>4 DEF PlanKept, Kept, Planned
      <4> QED
        BY <3>2, <4>8, <4>9, <4>10 DEF Kept
    <3>3. CASE c # d
      BY <2>0, <3>1, <3>3, SameKept DEF Same, TypeOK
    <3> QED
      BY <3>2, <3>3
  <2> QED
    BY <2>1, <2>2
<1>16. ASSUME NEW c \in Clients, NEW p \in Providers, SequentialCrash(c, p) PROVE Kept(d)'
  <2>1. /\ probe' = [probe EXCEPT ![c] = Stopped(c, p)]
        /\ phase' = [phase EXCEPT ![c] = "answered"]
        /\ probe[c][p] = "arrived"
        /\ UNCHANGED <<order, fate, pending>>
    BY <1>16 DEF SequentialCrash, Reply, race
  <2>2. CASE c = d
    BY <2>1, <2>2, MovedKept DEF TypeOK, Stopped
  <2>3. CASE c # d
    BY <2>1, <2>3, SameKept DEF Same, TypeOK
  <2> QED
    BY <2>2, <2>3
<1>17. CASE Snapshot
  BY <1>17, SameKept DEF Snapshot, race, Same
<1>18. CASE UNCHANGED vars
  BY <1>18, SameKept DEF vars, race, Same
<1> QED
  BY <1>1, <1>2, <1>3, <1>5, <1>6, <1>7, <1>8, <1>9, <1>10, <1>11, <1>12,
     <1>13, <1>14, <1>15, <1>16, <1>17, <1>18
     DEF Next, RunLoop, Handler, ProbeStep, Select

(***************************************************************************)
(* The variables of the router keep their types.  Nothing weaker than IInv *)
(* is inductive: that an attempt has a launch position and an outcome      *)
(* depends on the provider being in the plan and its probe being over.     *)
(***************************************************************************)
THEOREM RouterInvariant == Spec => []IInv
<1>1. Init => IInv
  BY RouterAssumption
     DEF Init, IInv, TypeOK, RaceTasks, PlanKept, OutcomesKnown, RestPlanned, NoReply, Replies,
         Phases, ProbeStates
<1>2. IInv /\ [Next]_vars => IInv'
  BY TypeStep, TasksStep, PlanStep DEF IInv, Kept
<1> QED
  BY <1>1, <1>2, PTL DEF Spec

THEOREM RouterTypeCorrect == Spec => []TypeOK
<1>1. IInv => TypeOK
  BY DEF IInv
<1> QED
  BY <1>1, RouterInvariant, PTL

-----------------------------------------------------------------------------
(***************************************************************************)
(* The router implements ProviderBudget, for every inventory and any       *)
(* number of clients, so what is proved of ProviderBudget holds of it.     *)
(* A step of the router that selects candidates is an Admit, one that      *)
(* contacts a provider a Charge, and one that abandons probes a Release.   *)
(***************************************************************************)

BudgetTheorems == INSTANCE ProviderBudget_proofs WITH
    Callers <- Clients, MaxQueue <- MaxRequests, permits <- Permits

LEMMA SameOperators ==
    \A p, s, t :
      /\ Budgets!Prune(p, s, t) = Prune(p, s, t)
      /\ Budgets!Exhausted(p, s, t) <=> Exhausted(p, s, t)
      /\ Budgets!Charged(p, s, t) = Charged(p, s, t)
      /\ Budgets!Unlimited(p) <=> Unlimited(p)
      /\ BudgetTheorems!Prune(p, s, t) = Prune(p, s, t)
      /\ BudgetTheorems!Exhausted(p, s, t) <=> Exhausted(p, s, t)
      /\ BudgetTheorems!Charged(p, s, t) = Charged(p, s, t)
      /\ BudgetTheorems!Unlimited(p) <=> Unlimited(p)
      /\ Budgets!Limit(p) = Limit(p)
      /\ BudgetTheorems!Limit(p) = Limit(p)
  BY DEF Budgets!Exhausted, Budgets!Unlimited, Budgets!Limit, Budgets!Window,
         Budgets!Prune, Budgets!Stale, Budgets!Charged,
         BudgetTheorems!Exhausted, BudgetTheorems!Unlimited, BudgetTheorems!Limit,
         BudgetTheorems!Window, BudgetTheorems!Prune, BudgetTheorems!Stale,
         BudgetTheorems!Charged,
         Exhausted, Unlimited, Limit, Window, Prune, Stale, Charged

-----------------------------------------------------------------------------
(* The queues of the providers without a limit stay bounded, because each  *)
(* request charges a provider at most once.                                *)

\* The requests that may still charge p.
Owing(p) == {c \in Clients : phase[c] = "queued" \/ probe[c][p] = "planned"}

RoomFor(p) == Len(charges[p]) + Cardinality(Owing(p)) <= issued

RoomKept == \A p \in Providers : RoomFor(p)

LEMMA OwingFinite ==
    ASSUME NEW p
    PROVE  /\ IsFiniteSet(Owing(p)) /\ Cardinality(Owing(p)) \in Nat
           /\ IsFiniteSet(Owing(p)') /\ Cardinality(Owing(p)') \in Nat
<1>1. Owing(p) \subseteq Clients /\ Owing(p)' \subseteq Clients
  BY DEF Owing
<1> QED
  BY <1>1, RouterAssumption, FS_Subset, FS_CardinalityType

\* A step after which no more may be charged than before.
LEMMA RoomUnspent ==
    ASSUME TypeOK, TypeOK', NEW p \in Providers, RoomFor(p), issued' = issued,
           Len(charges'[p]) <= Len(charges[p]), Owing(p)' \subseteq Owing(p)
    PROVE  RoomFor(p)'
<1>1. Cardinality(Owing(p)') <= Cardinality(Owing(p))
  BY OwingFinite, FS_Subset
<1>2. Len(charges[p]) \in Nat /\ Len(charges'[p]) \in Nat /\ issued \in Nat
  BY RouterAssumption DEF TypeOK
<1> QED
  BY <1>1, <1>2, OwingFinite DEF RoomFor

\* A step in which c charges p, as it still might.
LEMMA RoomSpent ==
    ASSUME TypeOK, TypeOK', NEW p \in Providers, RoomFor(p), issued' = issued,
           NEW c \in Owing(p),
           Len(charges'[p]) <= Len(charges[p]) + 1, Owing(p)' \subseteq Owing(p) \ {c}
    PROVE  RoomFor(p)'
<1>1. Cardinality(Owing(p) \ {c}) = Cardinality(Owing(p)) - 1
  BY OwingFinite, FS_RemoveElement
<1>2. Cardinality(Owing(p)') <= Cardinality(Owing(p) \ {c})
  BY OwingFinite, FS_RemoveElement, FS_Subset
<1>3. Len(charges[p]) \in Nat /\ Len(charges'[p]) \in Nat /\ issued \in Nat
  BY RouterAssumption DEF TypeOK
<1> QED
  BY <1>1, <1>2, <1>3, OwingFinite DEF RoomFor

\* A request that owes p a charge has room for it.
LEMMA OwingHasRoom ==
    ASSUME TypeOK, NEW p \in Providers, RoomFor(p), NEW c \in Owing(p)
    PROVE  Budgets!Room(p)
<1>1. Cardinality(Owing(p)) >= 1
  BY OwingFinite, FS_EmptySet
<1>2. Len(charges[p]) \in Nat /\ issued \in 0..MaxRequests /\ MaxRequests \in Nat
  BY RouterAssumption DEF TypeOK
<1> QED
  BY <1>1, <1>2, OwingFinite DEF RoomFor, Budgets!Room

-----------------------------------------------------------------------------
(* What a step of the router is to the budgets. *)

\* Nothing is charged and nothing new is planned.
LEMMA IsRelease ==
    ASSUME TypeOK, TypeOK', NEW c \in Clients, UNCHANGED <<now, charges>>,
           \A d \in Clients \ {c} : probe'[d] = probe[d],
           \A p \in Providers : probe'[c][p] = "planned" => probe[c][p] = "planned"
    PROVE  \E dropped \in SUBSET Providers : Budgets!Release(c, dropped)
<1> DEFINE dropped == {p \in Providers : probe[c][p] = "planned" /\ probe'[c][p] # "planned"}
<1>1. Permits' = [Permits EXCEPT ![c] = @ \ dropped]
  BY DEF Permits
<1>2. Budgets!Release(c, dropped)
  BY <1>1 DEF Budgets!Release
<1> QED
  BY <1>2

LEMMA UnspentKept ==
    ASSUME TypeOK, TypeOK', RoomKept, NEW c \in Clients,
           UNCHANGED <<charges, issued>>,
           \A d \in Clients \ {c} : probe'[d] = probe[d] /\ phase'[d] = phase[d],
           phase'[c] # "queued",
           \A p \in Providers : probe'[c][p] = "planned" => probe[c][p] = "planned"
    PROVE  RoomKept'
<1>1. \A p \in Providers : Owing(p)' \subseteq Owing(p)
  BY DEF Owing
<1> QED
  BY <1>1, RoomUnspent DEF RoomKept, TypeOK

\* One provider that was planned is charged and contacted.
LEMMA IsCharge ==
    ASSUME TypeOK, TypeOK', RoomKept, NEW c \in Clients, NEW p \in Providers,
           probe[c][p] = "planned", UNCHANGED <<now, issued, phase>>,
           charges' = [charges EXCEPT ![p] = Charged(p, @, now)],
           phase[c] # "queued",
           \A d \in Clients \ {c} : probe'[d] = probe[d],
           \A r \in Providers :
             probe'[c][r] = "planned" <=> probe[c][r] = "planned" /\ r # p
    PROVE  Budgets!Charge(c, p) /\ RoomKept'
<1>1. Permits' = [Permits EXCEPT ![c] = @ \ {p}] /\ p \in Permits[c]
  BY DEF Permits
<1>2. c \in Owing(p) /\ Owing(p)' \subseteq Owing(p) \ {c}
  BY DEF Owing
<1>3. Budgets!Room(p)
  BY <1>2, OwingHasRoom DEF RoomKept
<1>4. Budgets!Charge(c, p)
  BY <1>1, <1>3, SameOperators DEF Budgets!Charge
<1>5. Len(charges'[p]) <= Len(charges[p]) + 1
  BY ChargedType, RouterAssumption DEF TypeOK
<1>6. RoomFor(p)'
  BY <1>2, <1>5, RoomSpent DEF RoomKept
<1>7. \A r \in Providers \ {p} : charges'[r] = charges[r] /\ Owing(r)' \subseteq Owing(r)
  BY DEF Owing, TypeOK
<1>8. \A r \in Providers \ {p} : RoomFor(r)'
  BY <1>7, RoomUnspent DEF RoomKept, TypeOK
<1> QED
  BY <1>4, <1>6, <1>8 DEF RoomKept

\* The candidates of a queued request are selected, some of them planned, and
\* those in new charged at once.
Selects(c, method, chosen, new) ==
    /\ phase[c] = "queued" /\ phase'[c] # "queued"
    /\ \A p \in Providers : probe[c][p] = "none"
    /\ chosen \subseteq Candidates(method, charges, now)
    /\ new \subseteq chosen
    /\ charges' = [p \in Providers |->
          IF p \in new THEN Charged(p, charges[p], now)
          ELSE AfterSelection(method, charges, now)[p]]
    /\ UNCHANGED <<now, issued>>
    /\ \A d \in Clients \ {c} : probe'[d] = probe[d] /\ phase'[d] = phase[d]
    /\ \A p \in Providers : probe'[c][p] = "planned" <=> p \in chosen \ new

LEMMA IsAdmit ==
    ASSUME TypeOK, TypeOK', RoomKept, NEW c \in Clients,
           NEW method, NEW chosen, NEW new, Selects(c, method, chosen, new)
    PROVE  /\ \E looked, chosen1, first1 \in SUBSET Providers :
                Budgets!Admit(c, looked, chosen1, first1)
           /\ RoomKept'
<1> USE DEF Selects
<1> DEFINE looked == {p \in Providers : Capable(p, method)}
<1>1. Permits' = [Permits EXCEPT ![c] = chosen \ new] /\ Permits[c] = {}
  <2>1. Permits[c] = {}
    BY DEF Permits
  <2>2. {p \in Providers : probe'[c][p] = "planned"} = chosen \ new
    BY DEF Candidates
  <2>3. \A d \in Clients : Permits'[d] = IF d = c THEN chosen \ new ELSE Permits[d]
    BY <2>2 DEF Permits
  <2>4. /\ Permits = [d \in Clients |-> Permits[d]]
        /\ Permits' = [d \in Clients |-> Permits'[d]]
    BY DEF Permits
  <2> QED
    BY <2>1, <2>3, <2>4
<1>2. \A p \in Providers : c \in Owing(p)
  BY DEF Owing
<1>3. chosen \subseteq {p \in looked : ~Budgets!Exhausted(p, charges[p], now)}
  BY SameOperators DEF Candidates
<1>4. new \subseteq {p \in chosen : Budgets!Room(p)}
  BY <1>2, OwingHasRoom DEF RoomKept, Candidates
<1>5. charges' = [p \in Providers |->
          IF p \in new THEN Budgets!Charged(p, charges[p], now)
          ELSE IF p \in looked THEN Budgets!Prune(p, charges[p], now)
          ELSE charges[p]]
  BY SameOperators DEF AfterSelection
<1>6. Budgets!Admit(c, looked, chosen, new)
  BY <1>1, <1>3, <1>4, <1>5 DEF Budgets!Admit
<1>7. looked \in SUBSET Providers /\ chosen \in SUBSET Providers /\ new \in SUBSET Providers
  BY DEF Candidates
<1>8. ASSUME NEW p \in Providers PROVE RoomFor(p)'
  <2>1. CASE p \in new
    <3>1. Owing(p)' \subseteq Owing(p) \ {c}
      BY <2>1 DEF Owing
    <3>2. Len(charges'[p]) <= Len(charges[p]) + 1
      BY <2>1, ChargedType, RouterAssumption DEF TypeOK
    <3> QED
      BY <1>2, <3>1, <3>2, RoomSpent DEF RoomKept
  <2>2. CASE p \notin new
    <3>1. Owing(p)' \subseteq Owing(p)
      BY <1>2 DEF Owing
    <3>2. charges'[p] \in {charges[p], Prune(p, charges[p], now)}
      BY <2>2 DEF AfterSelection
    <3>3. Len(charges'[p]) <= Len(charges[p])
      BY <3>2, PruneIsSuffix, RouterAssumption DEF TypeOK
    <3> QED
      BY <3>1, <3>3, RoomUnspent DEF RoomKept
  <2> QED
    BY <2>1, <2>2
<1> QED
  BY <1>6, <1>7, <1>8 DEF RoomKept

-----------------------------------------------------------------------------
(***************************************************************************)
(* Every step of the router is a step of ProviderBudget or leaves it       *)
(* unchanged, and keeps room in the queues.                                *)
(***************************************************************************)
BudgetStep == [Budgets!Next]_Budgets!vars /\ RoomKept'

LEMMA ReleaseIsStep ==
    ASSUME TypeOK, TypeOK', RoomKept, NEW c \in Clients, UNCHANGED <<now, charges, issued>>,
           \A d \in Clients \ {c} : probe'[d] = probe[d] /\ phase'[d] = phase[d],
           phase'[c] # "queued",
           \A p \in Providers : probe'[c][p] = "planned" => probe[c][p] = "planned"
    PROVE  BudgetStep
<1>1. \E dropped \in SUBSET Providers : Budgets!Release(c, dropped)
  BY IsRelease
<1>2. RoomKept'
  BY UnspentKept
<1> QED
  BY <1>1, <1>2 DEF BudgetStep, Budgets!Next

LEMMA Simulation == IInv /\ TypeOK' /\ RoomKept /\ [Next]_vars => BudgetStep
<1> SUFFICES ASSUME IInv, TypeOK', RoomKept, [Next]_vars PROVE BudgetStep
  OBVIOUS
<1>0. TypeOK /\ RaceTasks /\ \A c \in Clients : PlanKept(c)
  BY DEF IInv
<1> USE <1>0, RouterAssumption
<1>1. CASE Tick
  <2>1. Budgets!Tick
    BY <1>1 DEF Tick, Budgets!Tick, Permits
  <2>2. RoomKept'
    BY <1>1 DEF Tick, RoomKept, RoomFor, Owing
  <2> QED
    BY <2>1, <2>2 DEF BudgetStep, Budgets!Next
<1>2. ASSUME NEW c \in Clients, Submit(c) PROVE BudgetStep
  <2>1. /\ probe' = [probe EXCEPT ![c] = [p \in Providers |-> "none"]]
        /\ phase' = [phase EXCEPT ![c] = "queued"]
        /\ issued' = issued + 1 /\ UNCHANGED <<now, charges>>
    BY <1>2 DEF Submit
  <2>2. \E dropped \in SUBSET Providers : Budgets!Release(c, dropped)
    BY <2>1, IsRelease DEF TypeOK
  <2>3. ASSUME NEW p \in Providers PROVE RoomFor(p)'
    <3>1. Owing(p)' \subseteq Owing(p) \cup {c}
      BY <2>1 DEF Owing, TypeOK
    <3>2. /\ IsFiniteSet(Owing(p) \cup {c})
          /\ Cardinality(Owing(p) \cup {c}) \in Nat
          /\ Cardinality(Owing(p) \cup {c}) <= Cardinality(Owing(p)) + 1
      <4>1. CASE c \in Owing(p)
        <5>1. Owing(p) \cup {c} = Owing(p)
          BY <4>1
        <5> QED
          BY <5>1, OwingFinite
      <4>2. CASE c \notin Owing(p)
        <5>1. /\ IsFiniteSet(Owing(p) \cup {c})
              /\ Cardinality(Owing(p) \cup {c}) = Cardinality(Owing(p)) + 1
          BY <4>2, OwingFinite, FS_AddElement
        <5> QED
          BY <5>1, OwingFinite
      <4> QED
        BY <4>1, <4>2
    <3>3. Cardinality(Owing(p)') <= Cardinality(Owing(p) \cup {c})
      BY <3>1, <3>2, FS_Subset
    <3>4. Len(charges[p]) \in Nat /\ issued \in Nat
      BY DEF TypeOK
    <3> QED
      BY <2>1, <3>2, <3>3, <3>4, OwingFinite DEF RoomFor, RoomKept
  <2> QED
    BY <2>2, <2>3 DEF BudgetStep, Budgets!Next, RoomKept
<1>3. ASSUME NEW c \in Clients, Reject(c) PROVE BudgetStep
  BY <1>3, ReleaseIsStep DEF Reject, Reply, TypeOK
<1>4. ASSUME NEW c \in Clients, Refuse(c) PROVE BudgetStep
  <2>1. /\ charges' = AfterSelection(ask[c].method, charges, now)
        /\ phase' = [phase EXCEPT ![c] = "answered"] /\ phase[c] = "queued"
        /\ UNCHANGED <<now, issued, probe>>
    BY <1>4 DEF Refuse, Reply
  <2>2. \A p \in Providers : probe[c][p] = "none"
    BY <2>1 DEF PlanKept
  <2>3. charges' = [p \in Providers |->
           IF p \in {} THEN Charged(p, charges[p], now)
           ELSE AfterSelection(ask[c].method, charges, now)[p]]
    BY <2>1 DEF AfterSelection
  <2>4. /\ {} \subseteq Candidates(ask[c].method, charges, now)
        /\ \A p \in Providers : probe'[c][p] = "planned" <=> p \in {} \ {}
        /\ \A d \in Clients \ {c} : probe'[d] = probe[d] /\ phase'[d] = phase[d]
        /\ phase'[c] # "queued"
    BY <2>1, <2>2 DEF TypeOK
  <2>5. Selects(c, ask[c].method, {}, {})
    BY <2>1, <2>2, <2>3, <2>4 DEF Selects
  <2>6. /\ \E looked, chosen1, first1 \in SUBSET Providers :
             Budgets!Admit(c, looked, chosen1, first1)
        /\ RoomKept'
    BY <2>5, IsAdmit
  <2> QED
    BY <2>6 DEF BudgetStep, Budgets!Next
<1>5. ASSUME NEW c \in Clients, StartSequential(c) PROVE BudgetStep
  <2> DEFINE selected == AfterSelection(ask[c].method, charges, now)
  <2>1. PICK o \in Planning(c, FALSE) :
          /\ charges' = [selected EXCEPT ![o[1]] = Charged(o[1], @, now)]
          /\ probe' = [probe EXCEPT ![c] =
                         [p \in Providers |-> IF p = o[1] THEN "waiting"
                                              ELSE IF p \in Planned(o) THEN "planned"
                                              ELSE "none"]]
    BY <1>5 DEF StartSequential
  <2>2. /\ Planned(o) \subseteq Candidates(ask[c].method, charges, now)
        /\ o[1] \in Planned(o)
    BY <1>5, <2>1, PlanningType DEF StartSequential
  <2>3. /\ phase' = [phase EXCEPT ![c] = "sequential"] /\ phase[c] = "queued"
        /\ UNCHANGED <<now, issued>>
    BY <1>5 DEF StartSequential
  <2>4. \A p \in Providers : probe[c][p] = "none"
    BY <2>3 DEF PlanKept
  <2>5. /\ \A p \in Providers : probe'[c][p] = "planned" <=> p \in Planned(o) \ {o[1]}
        /\ \A d \in Clients \ {c} : probe'[d] = probe[d] /\ phase'[d] = phase[d]
        /\ phase'[c] # "queued"
    BY <2>1, <2>3 DEF TypeOK
  <2>6. o[1] \in Providers /\ Capable(o[1], ask[c].method)
    BY <2>2 DEF Candidates
  <2>7. Charged(o[1], selected[o[1]], now) = Charged(o[1], charges[o[1]], now)
    <3>1. selected[o[1]] = Prune(o[1], charges[o[1]], now)
      BY <2>6 DEF AfterSelection
    <3>2. Prune(o[1], Prune(o[1], charges[o[1]], now), now) = Prune(o[1], charges[o[1]], now)
      BY <2>6, PruneIdempotent DEF TypeOK
    <3> QED
      BY <3>1, <3>2 DEF Charged
  <2>8. selected = [p \in Providers |-> selected[p]]
    BY DEF AfterSelection
  <2> HIDE DEF selected
  <2>9. charges' = [p \in Providers |->
           IF p \in {o[1]} THEN Charged(p, charges[p], now) ELSE selected[p]]
    BY <2>1, <2>6, <2>7, <2>8
  <2>10. Selects(c, ask[c].method, Planned(o), {o[1]})
    BY <2>2, <2>3, <2>4, <2>5, <2>9 DEF Selects, selected
  <2>11. /\ \E looked, chosen1, first1 \in SUBSET Providers :
              Budgets!Admit(c, looked, chosen1, first1)
         /\ RoomKept'
    BY <2>10, IsAdmit
  <2> QED
    BY <2>11 DEF BudgetStep, Budgets!Next
<1>6. ASSUME NEW c \in Clients, StartRace(c) PROVE BudgetStep
  <2>1. PICK o \in Planning(c, TRUE) :
          /\ charges' = AfterSelection(ask[c].method, charges, now)
          /\ probe' = [probe EXCEPT ![c] =
                [p \in Providers |-> IF p \in Planned(o) THEN "planned" ELSE "none"]]
    BY <1>6 DEF StartRace
  <2>2. Planned(o) \subseteq Candidates(ask[c].method, charges, now)
    BY <1>6, <2>1, PlanningType DEF StartRace
  <2>3. /\ phase' = [phase EXCEPT ![c] = "racing"] /\ phase[c] = "queued"
        /\ UNCHANGED <<now, issued>>
    BY <1>6 DEF StartRace
  <2>4. \A p \in Providers : probe[c][p] = "none"
    BY <2>3 DEF PlanKept
  <2>5. /\ \A p \in Providers : probe'[c][p] = "planned" <=> p \in Planned(o) \ {}
        /\ \A d \in Clients \ {c} : probe'[d] = probe[d] /\ phase'[d] = phase[d]
        /\ phase'[c] # "queued"
    BY <2>1, <2>3 DEF TypeOK
  <2>6. charges' = [p \in Providers |->
           IF p \in {} THEN Charged(p, charges[p], now)
           ELSE AfterSelection(ask[c].method, charges, now)[p]]
    BY <2>1 DEF AfterSelection
  <2>7. Selects(c, ask[c].method, Planned(o), {})
    BY <2>2, <2>3, <2>4, <2>5, <2>6 DEF Selects
  <2>8. /\ \E looked, chosen1, first1 \in SUBSET Providers :
             Budgets!Admit(c, looked, chosen1, first1)
        /\ RoomKept'
    BY <2>7, IsAdmit
  <2> QED
    BY <2>8 DEF BudgetStep, Budgets!Next
<1>7. ASSUME NEW c \in Clients, NEW p \in Providers, LaunchTask(c, p) PROVE BudgetStep
  <2>1. /\ probe' = [probe EXCEPT ![c][p] = "waiting"] /\ probe[c][p] = "planned"
        /\ charges' = [charges EXCEPT ![p] = Charged(p, @, now)]
        /\ UNCHANGED <<now, issued, phase>>
    BY <1>7 DEF LaunchTask
  <2>2. phase[c] # "queued"
    BY <2>1 DEF PlanKept
  <2>3. /\ \A r \in Providers :
             probe'[c][r] = "planned" <=> probe[c][r] = "planned" /\ r # p
        /\ \A d \in Clients \ {c} : probe'[d] = probe[d]
    BY <2>1 DEF TypeOK
  <2>4. Budgets!Charge(c, p) /\ RoomKept'
    BY <2>1, <2>2, <2>3, IsCharge
  <2> QED
    BY <2>4 DEF BudgetStep, Budgets!Next
<1>8. ASSUME NEW c \in Clients, NEW p \in Providers,
             Deliver(c, p) \/ EndTask(c, p) \/ CancelStep(c, p) \/ Completed(c, p)
      PROVE  BudgetStep
  <2>1. /\ UNCHANGED <<now, charges, issued, phase>>
        /\ \/ probe' = probe
           \/ /\ \E s \in {"arrived", "done", "canceled"} :
                   probe' = [probe EXCEPT ![c][p] = s]
              /\ probe[c][p] \in {"waiting", "arrived", "cancelling"}
    BY <1>8 DEF Deliver, EndTask, CancelStep, Completed
  <2>2. CASE phase[c] # "queued"
    <3>1. /\ \A d \in Clients \ {c} : probe'[d] = probe[d] /\ phase'[d] = phase[d]
          /\ \A r \in Providers : probe'[c][r] = "planned" => probe[c][r] = "planned"
      <4>1. CASE probe' = probe
        BY <2>1, <4>1
      <4>2. CASE probe' # probe
        <5>1. PICK s \in {"arrived", "done", "canceled"} : probe' = [probe EXCEPT ![c][p] = s]
          BY <2>1, <4>2
        <5> QED
          BY <2>1, <5>1 DEF TypeOK
      <4> QED
        BY <4>1, <4>2
    <3> QED
      BY <2>1, <2>2, <3>1, ReleaseIsStep
  <2>3. CASE phase[c] = "queued"
    <3>1. probe' = probe
      BY <2>1, <2>3 DEF PlanKept
    <3>2. UNCHANGED Budgets!vars /\ RoomKept'
      BY <2>1, <3>1 DEF Budgets!vars, Permits, RoomKept, RoomFor, Owing
    <3> QED
      BY <3>2 DEF BudgetStep
  <2> QED
    BY <2>2, <2>3
<1>9. ASSUME NEW c \in Clients, WakeLosing(c) \/ Drain(c) PROVE BudgetStep
  <2>1. /\ UNCHANGED <<now, charges, issued, probe>>
        /\ phase[c] \in {"racing", "draining"}
    BY <1>9 DEF WakeLosing, Drain
  <2>2. phase' = [phase EXCEPT ![c] = "answered"] \/ phase' = phase
    BY <1>9, FinishPhase DEF WakeLosing, Drain
  <2> QED
    BY <2>1, <2>2, ReleaseIsStep DEF TypeOK
<1>10. ASSUME NEW c \in Clients, WakeWinning(c) PROVE BudgetStep
  <2>1. /\ UNCHANGED <<now, charges, issued>>
        /\ probe' = [probe EXCEPT ![c] =
              [p \in Providers |-> IF p \in Left(c) THEN "cancelling" ELSE @[p]]]
    BY <1>10 DEF WakeWinning
  <2>2. \/ phase' = [phase EXCEPT ![c] = "answered"]
        \/ phase' = [phase EXCEPT ![c] = "draining"]
    BY <1>10, FinishPhase DEF WakeWinning
  <2> QED
    BY <2>1, <2>2, ReleaseIsStep DEF TypeOK
<1>11. ASSUME NEW c \in Clients, NEW p \in Providers, SequentialStep(c, p) PROVE BudgetStep
  <2> DEFINE q == order[c][Position(c, p) + 1]
  <2>0. /\ phase[c] = "sequential" /\ probe[c][p] = "arrived"
        /\ UNCHANGED <<now, issued>>
    BY <1>11 DEF SequentialStep
  <2>1. CASE SequentialEnds(c, p)
    <3>1. /\ probe' = [probe EXCEPT ![c] = Stopped(c, p)]
          /\ phase' = [phase EXCEPT ![c] = "answered"]
          /\ UNCHANGED charges
      BY <1>11, <2>1, FinishPhase DEF SequentialStep
    <3> QED
      BY <2>0, <3>1, ReleaseIsStep DEF TypeOK, Stopped
  <2>2. CASE ~SequentialEnds(c, p)
    <3>1. /\ probe' = [probe EXCEPT ![c][p] = "done", ![c][q] = "waiting"]
          /\ charges' = [charges EXCEPT ![q] = Charged(q, @, now)]
          /\ UNCHANGED phase
      BY <1>11, <2>2 DEF SequentialStep
    <3>2. /\ Position(c, p) \in 1..Len(order[c]) /\ order[c][Position(c, p)] = p
          /\ order[c] \in Seq(Providers)
      BY <2>0, PositionType DEF TypeOK, PlanKept
    <3>3. Position(c, p) + 1 \in DOMAIN order[c] /\ q \in Providers
      BY <2>2, <3>2 DEF SequentialEnds, IsLast
    <3>4. probe[c][q] = "planned"
      <4>1. RestPlanned(c)
        BY DEF IInv
      <4> QED
        BY <2>0, <3>2, <3>3, <4>1 DEF RestPlanned
    <3> HIDE DEF q
    <3>5. /\ \A r \in Providers :
               probe'[c][r] = "planned" <=> probe[c][r] = "planned" /\ r # q
          /\ \A d \in Clients \ {c} : probe'[d] = probe[d]
      BY <2>0, <3>1, <3>3 DEF TypeOK
    <3>6. Budgets!Charge(c, q) /\ RoomKept'
      BY <2>0, <3>1, <3>3, <3>4, <3>5, IsCharge
    <3> QED
      BY <3>3, <3>6 DEF BudgetStep, Budgets!Next
  <2> QED
    BY <2>1, <2>2
<1>12. ASSUME NEW c \in Clients, NEW p \in Providers, SequentialCrash(c, p) PROVE BudgetStep
  <2>1. /\ probe' = [probe EXCEPT ![c] = Stopped(c, p)]
        /\ phase' = [phase EXCEPT ![c] = "answered"]
        /\ probe[c][p] = "arrived"
        /\ UNCHANGED <<now, charges, issued>>
    BY <1>12 DEF SequentialCrash, Reply
  <2> QED
    BY <2>1, ReleaseIsStep DEF TypeOK, Stopped
<1>13. CASE Snapshot
  <2>1. Budgets!Snapshot
    BY <1>13, SameOperators DEF Snapshot, Budgets!Snapshot, Permits
  <2>2. \A p \in Providers : Len(charges'[p]) <= Len(charges[p]) /\ Owing(p)' \subseteq Owing(p)
    BY <1>13, PruneIsSuffix DEF Snapshot, Owing, TypeOK
  <2>3. RoomKept'
    BY <1>13, <2>2, RoomUnspent DEF RoomKept, Snapshot
  <2> QED
    BY <2>1, <2>3 DEF BudgetStep, Budgets!Next
<1>14. CASE UNCHANGED vars
  BY <1>14 DEF vars, loop, BudgetStep, Budgets!vars, Permits, RoomKept, RoomFor, Owing
<1> QED
  BY <1>1, <1>2, <1>3, <1>4, <1>5, <1>6, <1>7, <1>8, <1>9, <1>10, <1>11, <1>12,
     <1>13, <1>14
     DEF Next, RunLoop, Handler, ProbeStep, Select

-----------------------------------------------------------------------------
(***************************************************************************)
(* The router uses the budgets as ProviderBudget says: whatever the policy *)
(* and however requests interleave, it charges only providers whose budget *)
(* was not exhausted when it selected the candidates, each at most once.   *)
(***************************************************************************)
THEOREM RouterUsesBudgets == Spec => UsesBudgets
<1>1. Init => Budgets!Init /\ RoomKept
  <2> SUFFICES ASSUME Init PROVE Budgets!Init /\ RoomKept
    OBVIOUS
  <2>1. Budgets!Init
    BY DEF Init, Budgets!Init, Permits
  <2>2. \A p \in Providers : Owing(p) = {}
    BY DEF Init, Owing
  <2>3. \A p \in Providers : Len(charges[p]) = 0 /\ issued = 0
    BY DEF Init
  <2>4. \A p \in Providers : Cardinality(Owing(p)) = 0
    BY <2>2, FS_EmptySet
  <2> QED
    BY <2>1, <2>3, <2>4 DEF RoomKept, RoomFor
<1>2. IInv /\ IInv' /\ RoomKept /\ [Next]_vars => [Budgets!Next]_Budgets!vars /\ RoomKept'
  BY Simulation DEF IInv, BudgetStep
<1> QED
  BY <1>1, <1>2, RouterInvariant, PTL DEF Spec, UsesBudgets, Budgets!Spec

(***************************************************************************)
(* budget.py promises that a provider over its budget is never called.     *)
(* The router can break that promise, but by no more than one request for  *)
(* each other request in flight.                                           *)
(***************************************************************************)
THEOREM RouterOverspendIsBounded == Spec => []OverspendBounded
<1>1. Budgets!Init <=> BudgetTheorems!Init
  BY DEF Budgets!Init, BudgetTheorems!Init
<1>2. Budgets!Next <=> BudgetTheorems!Next
  <2>1. Budgets!Tick <=> BudgetTheorems!Tick
    BY DEF Budgets!Tick, BudgetTheorems!Tick
  <2>2. \A p : Budgets!Room(p) <=> BudgetTheorems!Room(p)
    BY SameOperators DEF Budgets!Room, BudgetTheorems!Room
  <2>3. \A c, looked, chosen, new :
          Budgets!Admit(c, looked, chosen, new) <=> BudgetTheorems!Admit(c, looked, chosen, new)
    BY <2>2, SameOperators DEF Budgets!Admit, BudgetTheorems!Admit
  <2>4. \A c, p : Budgets!Charge(c, p) <=> BudgetTheorems!Charge(c, p)
    BY <2>2, SameOperators DEF Budgets!Charge, BudgetTheorems!Charge
  <2>5. \A c, dropped : Budgets!Release(c, dropped) <=> BudgetTheorems!Release(c, dropped)
    BY DEF Budgets!Release, BudgetTheorems!Release
  <2>6. Budgets!Snapshot <=> BudgetTheorems!Snapshot
    BY SameOperators DEF Budgets!Snapshot, BudgetTheorems!Snapshot
  <2> QED
    BY <2>1, <2>3, <2>4, <2>5, <2>6 DEF Budgets!Next, BudgetTheorems!Next
<1>3. Budgets!Cardinality(Clients) = BudgetTheorems!Cardinality(Clients)
  BY DEF Budgets!Cardinality, BudgetTheorems!Cardinality
<1>4. OverspendBounded <=> BudgetTheorems!OverspendBounded
  BY <1>3, SameOperators
     DEF OverspendBounded, Budgets!OverspendBounded, BudgetTheorems!OverspendBounded
<1>5. BudgetTheorems!IsFiniteSet(Clients)
  BY RouterAssumption DEF IsFiniteSet, BudgetTheorems!IsFiniteSet
<1>6. BudgetTheorems!Spec => []BudgetTheorems!OverspendBounded
  BY <1>5, BudgetTheorems!OverspendIsBounded, RouterAssumption, BudgetAssumption, PTL
<1>7. [Budgets!Next]_Budgets!vars => [BudgetTheorems!Next]_BudgetTheorems!vars
  BY <1>2 DEF Budgets!vars, BudgetTheorems!vars
<1> QED
  BY <1>1, <1>4, <1>6, <1>7, RouterUsesBudgets, PTL
     DEF UsesBudgets, Budgets!Spec, BudgetTheorems!Spec

-----------------------------------------------------------------------------
(* The callbacks of the event loop. *)

Scheduled == {ready[i] : i \in DOMAIN ready}

NoneTwice == \A i, j \in DOMAIN ready : ready[i] = ready[j] => i = j

TasksFirst ==
    \A i, j \in DOMAIN ready :
      i < j /\ ready[i].client = ready[j].client /\ ready[j].kind = "task"
        => ready[i].kind = "task"

\* The state that a callback finds when it is still to run.
InPlace(h) ==
    LET c == h.client
        p == h.provider
    IN
    /\ h.kind = "handler" => phase[c] = "queued" /\ p = None
    /\ h.kind = "task" => p \in Providers /\ phase[c] = "racing" /\ probe[c][p] = "planned"
    /\ h.kind = "resume" => p \in Providers /\ probe[c][p] \in {"arrived", "cancelling"}
    /\ h.kind = "completed" => p \in Providers /\ probe[c][p] = "done"
    /\ h.kind = "wake" =>
         /\ p = None
         /\ \/ phase[c] = "racing" /\ woken[c]
            \/ /\ phase[c] = "draining" /\ awaiting[c] \in Providers
               /\ probe[c][awaiting[c]] = "canceled"

TasksScheduled(c) ==
    phase[c] = "racing" =>
      \A p \in Providers : probe[c][p] = "planned" => Handle("task", c, p) \in Scheduled

LoopInv ==
    /\ NoneTwice
    /\ TasksFirst
    /\ \A h \in Scheduled : InPlace(h)
    /\ \A c \in Clients : TasksScheduled(c)

-----------------------------------------------------------------------------
(* The execution of a plan. *)

\* The attempt of a provider whose probe ended by itself.
Settled(c, p) == Attempt(c, p, fate[c][p])
Spared(c, p) == Attempt(c, p, "canceled")

\* Nothing is executed before a plan is made, nor without one.
Unplanned(c) ==
    order[c] = << >> =>
      /\ phase[c] \in {"idle", "queued", "answered"}
      /\ dispatched[c] = {} /\ attempts[c] = {} /\ first[c] = None
      /\ phase[c] = "answered" => reply[c].kind = "refused"

\* n is the position of the last provider a loop has contacted.
Reached(c, n) ==
    LET o == order[c] IN
    /\ dispatched[c] = {o[i] : i \in 1..n}
    /\ \A i \in 1..(n - 1) :
         probe[c][o[i]] = "done" /\ fate[c][o[i]] = "unacceptable"
    /\ phase[c] = "sequential" =>
         /\ probe[c][o[n]] \in {"waiting", "arrived"}
         /\ attempts[c] = {Settled(c, p) : p \in dispatched[c] \ {o[n]}}
    /\ phase[c] = "answered" =>
         /\ probe[c][o[n]] = "done"
         /\ \A i \in (n + 1)..Len(o) : probe[c][o[i]] = "none"
         /\ \/ reply[c].kind = "crashed" /\ attempts[c] = {}
            \/ /\ attempts[c] = {Settled(c, p) : p \in dispatched[c]}
               /\ \/ reply[c].kind = "ok" /\ fate[c][o[n]] = "accepted"
                  \/ /\ reply[c].kind = "noAcceptableResult"
                     /\ fate[c][o[n]] = "unacceptable" /\ n = Len(o)

Looping(c) == order[c] # << >> /\ ~Concurrent(ask[c].policy)

LoopKept(c) ==
    Looping(c) =>
      /\ phase[c] \in {"sequential", "answered"}
      /\ pending[c] = {} /\ first[c] = None
      /\ \E n \in DOMAIN order[c] : Reached(c, n)

\* The tasks of a race that asyncio.wait has returned.
Returned(c) == Planned(order[c]) \ pending[c]

Racing(c) == order[c] # << >> /\ Concurrent(ask[c].policy)

RaceKept(c) ==
    Racing(c) =>
      /\ phase[c] \in {"racing", "draining", "answered"}
      /\ \A p \in Returned(c) : probe[c][p] = "done"
      /\ first[c] # None =>
           /\ first[c] \in Planned(order[c])
           /\ probe[c][first[c]] = "done" /\ fate[c][first[c]] = "accepted"
      /\ phase[c] = "racing" =>
           /\ dispatched[c] = {p \in Planned(order[c]) : probe[c][p] # "planned"}
           /\ \A p \in pending[c] :
                probe[c][p] \in {"planned", "waiting", "arrived", "done"}
           /\ \A p \in Returned(c) : fate[c][p] # "accepted"
           /\ attempts[c] = {Settled(c, p) : p \in Returned(c)}
      /\ phase[c] = "draining" =>
           /\ dispatched[c] = Planned(order[c])
           /\ \A p \in pending[c] : probe[c][p] \in {"cancelling", "canceled"}
           /\ \E p \in Returned(c) : fate[c][p] = "accepted"
           /\ attempts[c] = {Settled(c, p) : p \in Returned(c)}
      /\ phase[c] = "answered" =>
           /\ dispatched[c] = Planned(order[c])
           /\ \A p \in pending[c] : probe[c][p] = "canceled"
           /\ attempts[c] = {Settled(c, p) : p \in Returned(c)}
                              \cup {Spared(c, p) : p \in pending[c]}
           /\ \/ /\ reply[c].kind = "ok"
                 /\ \E p \in Returned(c) : fate[c][p] = "accepted"
              \/ /\ reply[c].kind = "noAcceptableResult" /\ pending[c] = {}
                 /\ \A p \in Returned(c) : fate[c][p] # "accepted"

\* What phases say by themselves.
PhaseKept(c) ==
    /\ phase[c] \in {"idle", "queued"} => order[c] = << >>
    /\ phase[c] # "answered" => reply[c].kind = "none"

Execution(c) == Unplanned(c) /\ LoopKept(c) /\ RaceKept(c) /\ PhaseKept(c)

TraceInv == LoopInv /\ \A c \in Clients : Execution(c)

-----------------------------------------------------------------------------
(* What a step does to the scheduled callbacks. *)

LEMMA ScheduledType ==
    ASSUME TypeOK
    PROVE  /\ \A h \in Scheduled : h \in Handles /\ h.client \in Clients
           /\ ready # << >> => Head(ready) \in Scheduled /\ Head(ready) = ready[1]
                               /\ 1 \in DOMAIN ready
<1>1. \A h \in Scheduled : h \in Handles
  BY DEF TypeOK, Scheduled
<1>2. \A h \in Handles : h.client \in Clients
  BY DEF Handles
<1>3. ready # << >> => Head(ready) = ready[1] /\ 1 \in DOMAIN ready
  BY DEF TypeOK
<1> QED
  BY <1>1, <1>2, <1>3 DEF Scheduled

\* The callback that runs leaves, and those it schedules come behind.
LEMMA RunQueue ==
    ASSUME TypeOK, ready # << >>, NEW new \in Seq(Handles), Run(new)
    PROVE  /\ Len(ready') = Len(ready) - 1 + Len(new)
           /\ ready' \in Seq(Handles)
           /\ \A k \in 1..(Len(ready) - 1) : ready'[k] = ready[k + 1] /\ k + 1 \in DOMAIN ready
           /\ \A k \in DOMAIN ready' :
                k > Len(ready) - 1 =>
                  /\ k - (Len(ready) - 1) \in DOMAIN new
                  /\ ready'[k] = new[k - (Len(ready) - 1)]
           /\ \A i \in DOMAIN new :
                /\ i + (Len(ready) - 1) \in DOMAIN ready'
                /\ ready'[i + (Len(ready) - 1)] = new[i]
<1>1. /\ ready \in Seq(Handles) /\ Tail(ready) \in Seq(Handles)
      /\ Len(Tail(ready)) = Len(ready) - 1 /\ Len(ready) \in Nat \ {0}
      /\ \A k \in 1..Len(Tail(ready)) : Tail(ready)[k] = ready[k + 1]
  BY DEF TypeOK
<1>2. ready' = Tail(ready) \o new
  BY DEF Run
<1> DEFINE t == Tail(ready)
           n == Len(ready) - 1
<1> HIDE DEF t
<1>3. /\ t \in Seq(Handles) /\ ready' = t \o new /\ Len(t) = n /\ n \in Nat
      /\ \A k \in 1..n : t[k] = ready[k + 1]
  BY <1>1, <1>2 DEF t
<1>4. /\ Len(ready') = n + Len(new) /\ DOMAIN ready' = 1..(n + Len(new))
      /\ ready' \in Seq(Handles) /\ DOMAIN new = 1..Len(new) /\ Len(new) \in Nat
      /\ DOMAIN ready = 1..(n + 1)
  <2>1. Len(ready) = n + 1 /\ DOMAIN ready = 1..Len(ready)
    BY <1>1
  <2> HIDE DEF n
  <2>2. Len(ready') = Len(t) + Len(new) /\ ready' \in Seq(Handles)
    BY <1>3
  <2>3. DOMAIN ready' = 1..Len(ready')
    BY <2>2
  <2>4. DOMAIN new = 1..Len(new) /\ Len(new) \in Nat
    OBVIOUS
  <2> QED
    BY <1>3, <2>1, <2>2, <2>3, <2>4
<1> HIDE DEF n
<1>5. ASSUME NEW k \in 1..n
      PROVE  ready'[k] = ready[k + 1] /\ k + 1 \in DOMAIN ready
  BY <1>3, <1>4, <1>5
<1>6. ASSUME NEW k \in DOMAIN ready', k > n
      PROVE  k - n \in DOMAIN new /\ ready'[k] = new[k - n]
  BY <1>3, <1>4, <1>6
<1>7. ASSUME NEW i \in DOMAIN new
      PROVE  i + n \in DOMAIN ready' /\ ready'[i + n] = new[i]
  BY <1>3, <1>4, <1>7
<1> QED
  BY <1>4, <1>5, <1>6, <1>7 DEF n

LEMMA RunSchedules ==
    ASSUME TypeOK, NoneTwice, ready # << >>, NEW new \in Seq(Handles), Run(new),
           \A i, j \in DOMAIN new : new[i] = new[j] => i = j,
           \A i \in DOMAIN new : new[i] \notin Scheduled
    PROVE  /\ NoneTwice'
           /\ \A h : h \in Scheduled' <=>
                \/ h \in Scheduled /\ h # Head(ready)
                \/ \E i \in DOMAIN new : h = new[i]
<1> DEFINE n == Len(ready) - 1
<1>1. /\ Len(ready') = n + Len(new)
      /\ ready' \in Seq(Handles)
      /\ \A k \in 1..n : ready'[k] = ready[k + 1] /\ k + 1 \in DOMAIN ready
      /\ \A k \in DOMAIN ready' :
           k > n => k - n \in DOMAIN new /\ ready'[k] = new[k - n]
      /\ \A i \in DOMAIN new : i + n \in DOMAIN ready' /\ ready'[i + n] = new[i]
  BY RunQueue
<1>2. /\ n \in Nat /\ DOMAIN ready = 1..(n + 1) /\ Head(ready) = ready[1]
      /\ DOMAIN ready' = 1..(n + Len(new)) /\ DOMAIN new = 1..Len(new) /\ Len(new) \in Nat
  BY <1>1 DEF TypeOK
<1> HIDE DEF n
<1>3. \A k \in DOMAIN ready : ready[k] \in Scheduled
  BY DEF Scheduled
<1>4. NoneTwice'
  <2> SUFFICES ASSUME NEW i \in DOMAIN ready', NEW j \in DOMAIN ready', ready'[i] = ready'[j]
               PROVE  i = j
    BY DEF NoneTwice
  <2>1. CASE i \in 1..n /\ j \in 1..n
    <3>1. ready[i + 1] = ready[j + 1] /\ i + 1 \in DOMAIN ready /\ j + 1 \in DOMAIN ready
      BY <1>1, <2>1
    <3>2. i + 1 = j + 1
      BY <3>1 DEF NoneTwice
    <3> QED
      BY <2>1, <3>2
  <2>2. CASE i > n /\ j > n
    <3>1. new[i - n] = new[j - n] /\ i - n \in DOMAIN new /\ j - n \in DOMAIN new
      BY <1>1, <2>2
    <3>2. i - n = j - n
      BY <3>1
    <3> QED
      BY <1>2, <3>2
  <2>3. CASE i \in 1..n /\ j > n
    BY <1>1, <1>3, <2>3
  <2>4. CASE i > n /\ j \in 1..n
    BY <1>1, <1>3, <2>4
  <2> QED
    BY <1>2, <2>1, <2>2, <2>3, <2>4
<1>5. ASSUME NEW h, h \in Scheduled'
      PROVE  (h \in Scheduled /\ h # Head(ready)) \/ \E i \in DOMAIN new : h = new[i]
  <2>1. PICK k \in DOMAIN ready' : h = ready'[k]
    BY <1>5 DEF Scheduled
  <2>2. CASE k \in 1..n
    <3>1. h = ready[k + 1] /\ k + 1 \in DOMAIN ready /\ k + 1 # 1 /\ 1 \in DOMAIN ready
      BY <1>1, <1>2, <2>1, <2>2
    <3>2. h # ready[1]
      BY <3>1 DEF NoneTwice
    <3> QED
      BY <1>2, <1>3, <3>1, <3>2
  <2>3. CASE k > n
    BY <1>1, <2>1, <2>3
  <2> QED
    BY <1>2, <2>2, <2>3
<1>6. ASSUME NEW h, h \in Scheduled, h # Head(ready)
      PROVE  h \in Scheduled'
  <2>1. PICK k \in DOMAIN ready : h = ready[k]
    BY <1>6 DEF Scheduled
  <2>2. k - 1 \in 1..n /\ (k - 1) + 1 = k /\ k - 1 \in DOMAIN ready'
    BY <1>2, <1>6, <2>1
  <2>3. ready'[k - 1] = h
    BY <1>1, <2>1, <2>2
  <2> QED
    BY <2>2, <2>3 DEF Scheduled
<1>7. ASSUME NEW h, NEW i \in DOMAIN new, h = new[i]
      PROVE  h \in Scheduled'
  BY <1>1, <1>7 DEF Scheduled
<1> QED
  BY <1>4, <1>5, <1>6, <1>7

\* A race schedules its tasks when nothing else of its request is scheduled;
\* no other step schedules a task.
LEMMA RunKeepsTasksFirst ==
    ASSUME TypeOK, TasksFirst, ready # << >>, NEW new \in Seq(Handles), Run(new),
           \/ \A i \in DOMAIN new : new[i].kind # "task"
           \/ /\ \A i \in DOMAIN new : new[i].kind = "task"
              /\ \A i \in DOMAIN new, j \in DOMAIN ready :
                   j # 1 => ready[j].client # new[i].client
    PROVE  TasksFirst'
<1> DEFINE n == Len(ready) - 1
<1>1. /\ Len(ready') = n + Len(new)
      /\ ready' \in Seq(Handles)
      /\ \A k \in 1..n : ready'[k] = ready[k + 1] /\ k + 1 \in DOMAIN ready
      /\ \A k \in DOMAIN ready' :
           k > n => k - n \in DOMAIN new /\ ready'[k] = new[k - n]
  BY RunQueue
<1>2. n \in Nat /\ DOMAIN ready' = 1..(n + Len(new)) /\ Len(new) \in Nat
  BY <1>1 DEF TypeOK
<1> HIDE DEF n
<1> SUFFICES ASSUME NEW i \in DOMAIN ready', NEW j \in DOMAIN ready', i < j,
                    ready'[i].client = ready'[j].client, ready'[j].kind = "task"
             PROVE  ready'[i].kind = "task"
  BY DEF TasksFirst
<1>3. CASE j \in 1..n
  <2>1. i \in 1..n
    BY <1>2, <1>3
  <2>2. ready'[i] = ready[i + 1] /\ ready'[j] = ready[j + 1]
        /\ i + 1 \in DOMAIN ready /\ j + 1 \in DOMAIN ready /\ i + 1 < j + 1
    BY <1>1, <1>3, <2>1
  <2> QED
    BY <2>2 DEF TasksFirst
<1>4. CASE j > n
  <2>1. j - n \in DOMAIN new /\ ready'[j] = new[j - n]
    BY <1>1, <1>4
  <2>2. /\ \A k \in DOMAIN new : new[k].kind = "task"
        /\ \A k \in DOMAIN new, l \in DOMAIN ready : l # 1 => ready[l].client # new[k].client
    BY <2>1
  <2>3. CASE i \in 1..n
    <3>1. ready'[i] = ready[i + 1] /\ i + 1 \in DOMAIN ready /\ i + 1 # 1
      BY <1>1, <1>2, <2>3
    <3> QED
      BY <2>1, <2>2, <3>1
  <2>4. CASE i > n
    BY <1>1, <2>2, <2>4
  <2> QED
    BY <1>2, <2>3, <2>4
<1> QED
  BY <1>2, <1>3, <1>4
LEMMA RunLeaves ==
    ASSUME TypeOK, NoneTwice, TasksFirst, ready # << >>, Run(<< >>)
    PROVE  /\ NoneTwice' /\ TasksFirst'
           /\ \A h : h \in Scheduled' <=> h \in Scheduled /\ h # Head(ready)
<1> DEFINE new == << >>
<1>1. new \in Seq(Handles) /\ DOMAIN new = {} /\ Run(new)
  OBVIOUS
<1> HIDE DEF new
<1>2. NoneTwice' /\ \A h : h \in Scheduled' <=> \/ h \in Scheduled /\ h # Head(ready)
                                               \/ \E i \in DOMAIN new : h = new[i]
  BY <1>1, RunSchedules
<1>3. TasksFirst'
  BY <1>1, RunKeepsTasksFirst
<1> QED
  BY <1>1, <1>2, <1>3

LEMMA RunAdds ==
    ASSUME TypeOK, NoneTwice, TasksFirst, ready # << >>,
           NEW g \in Handles, g \notin Scheduled, g.kind # "task", Run(<<g>>)
    PROVE  /\ NoneTwice' /\ TasksFirst'
           /\ \A h : h \in Scheduled' <=> h = g \/ (h \in Scheduled /\ h # Head(ready))
<1> DEFINE new == <<g>>
<1>1. new \in Seq(Handles) /\ DOMAIN new = {1} /\ new[1] = g /\ Run(new)
  OBVIOUS
<1> HIDE DEF new
<1>2. NoneTwice' /\ \A h : h \in Scheduled' <=> \/ h \in Scheduled /\ h # Head(ready)
                                               \/ \E i \in DOMAIN new : h = new[i]
  BY <1>1, RunSchedules
<1>3. TasksFirst'
  BY <1>1, RunKeepsTasksFirst
<1> QED
  BY <1>1, <1>2, <1>3

LEMMA AppendAdds ==
    ASSUME TypeOK, NoneTwice, TasksFirst,
           NEW g \in Handles, g \notin Scheduled, g.kind # "task", ready' = Append(ready, g)
    PROVE  /\ NoneTwice' /\ TasksFirst'
           /\ \A h : h \in Scheduled' <=> h = g \/ h \in Scheduled
<1> DEFINE n == Len(ready)
<1>1. /\ n \in Nat /\ DOMAIN ready = 1..n /\ DOMAIN ready' = 1..(n + 1)
      /\ ready'[n + 1] = g
      /\ \A i \in 1..n : ready'[i] = ready[i]
  BY DEF TypeOK
<1> HIDE DEF n
<1>2. \A i \in 1..n : ready[i] \in Scheduled
  BY <1>1 DEF Scheduled
<1>3. NoneTwice'
  BY <1>1, <1>2 DEF NoneTwice
<1>4. TasksFirst'
  <2> SUFFICES ASSUME NEW i \in DOMAIN ready', NEW j \in DOMAIN ready', i < j,
                      ready'[i].client = ready'[j].client, ready'[j].kind = "task"
               PROVE  ready'[i].kind = "task"
    BY DEF TasksFirst
  <2>1. j \in 1..n /\ i \in 1..n
    BY <1>1
  <2> QED
    BY <1>1, <2>1 DEF TasksFirst
<1>5. \A h : h \in Scheduled' <=> h = g \/ h \in Scheduled
  BY <1>1 DEF Scheduled
<1> QED
  BY <1>3, <1>4, <1>5

(***************************************************************************)
(* A step of one request leaves the callbacks of the others, and what they *)
(* wait for, alone.                                                        *)
(***************************************************************************)
LEMMA OthersInPlace ==
    ASSUME NEW h, NEW c, h.client = c, InPlace(h),
           phase'[c] = phase[c], probe'[c] = probe[c], woken'[c] = woken[c],
           awaiting'[c] = awaiting[c]
    PROVE  InPlace(h)'
  BY DEF InPlace

LEMMA LoopFrom ==
    ASSUME TypeOK, TypeOK', LoopInv, NEW c \in Clients, NoneTwice', TasksFirst',
           \A h \in Handles : h.client # c => (h \in Scheduled' <=> h \in Scheduled),
           \A d \in Clients : d # c =>
             /\ phase'[d] = phase[d] /\ probe'[d] = probe[d]
             /\ woken'[d] = woken[d] /\ awaiting'[d] = awaiting[d],
           \A h \in Scheduled' : h.client = c => InPlace(h)',
           TasksScheduled(c)'
    PROVE  LoopInv'
<1>1. \A h \in Scheduled' : h \in Handles /\ h.client \in Clients
  <2>1. \A h \in Scheduled' : h \in Handles
    BY DEF Scheduled, TypeOK
  <2> QED
    BY <2>1 DEF Handles
<1>2. ASSUME NEW h \in Scheduled'
      PROVE  InPlace(h)'
  <2>1. CASE h.client = c
    BY <2>1
  <2>2. CASE h.client # c
    <3>1. h \in Scheduled /\ h.client \in Clients
      BY <1>1, <2>2
    <3>2. InPlace(h)
      BY <3>1 DEF LoopInv
    <3> QED
      BY <2>2, <3>1, <3>2, OthersInPlace
  <2> QED
    BY <2>1, <2>2
<1>3. ASSUME NEW d \in Clients
      PROVE  TasksScheduled(d)'
  <2>1. CASE d = c
    BY <2>1
  <2>2. CASE d # c
    <3>1. TasksScheduled(d)
      BY DEF LoopInv
    <3>2. \A p \in Providers : Handle("task", d, p) \in Handles /\ Handle("task", d, p).client = d
      BY HandleType DEF Handle
    <3> QED
      BY <2>2, <3>1, <3>2 DEF TasksScheduled
  <2> QED
    BY <2>1, <2>2
<1> QED
  BY <1>2, <1>3 DEF LoopInv

-----------------------------------------------------------------------------
(* Where the probes of a request can be. *)

LEMMA PhaseKind ==
    ASSUME NEW c \in Clients, Execution(c)
    PROVE  /\ phase[c] = "sequential" => Looping(c)
           /\ phase[c] \in {"racing", "draining"} => Racing(c)
           /\ phase[c] \in {"idle", "queued"} => order[c] = << >>
  BY DEF Execution, Unplanned, LoopKept, RaceKept, PhaseKept, Looping, Racing

\* Only the last provider a loop has contacted may still be probed.
LEMMA LoopProbes ==
    ASSUME TypeOK, NEW c \in Clients, Kept(c), Looping(c), LoopKept(c),
           NEW n \in DOMAIN order[c], Reached(c, n), NEW i \in DOMAIN order[c]
    PROVE  /\ probe[c][order[c][i]] \notin {"cancelling", "canceled"}
           /\ probe[c][order[c][i]] \in {"waiting", "arrived"} =>
                i = n /\ phase[c] = "sequential"
           /\ order[c][i] \in dispatched[c] <=> i <= n
<1>1. /\ order[c] \in Seq(Providers) /\ n \in 1..Len(order[c]) /\ i \in 1..Len(order[c])
      /\ Len(order[c]) \in Nat
  BY DEF TypeOK
<1>2. phase[c] \in {"sequential", "answered"}
  BY DEF LoopKept
<1>3. CASE i < n
  BY <1>1, <1>2, <1>3 DEF Reached
<1>4. CASE i = n
  BY <1>1, <1>2, <1>4 DEF Reached
<1>5. CASE i > n
  <2>1. CASE phase[c] = "sequential"
    BY <1>1, <1>5, <2>1 DEF Reached, Kept, RestPlanned, PlanKept
  <2>2. CASE phase[c] = "answered"
    BY <1>1, <1>5, <2>2 DEF Reached, Kept, PlanKept
  <2> QED
    BY <1>2, <1>5, <2>1, <2>2
<1>6. order[c][i] \in dispatched[c] <=> i <= n
  BY <1>1 DEF Reached, Kept, PlanKept
<1> QED
  BY <1>1, <1>3, <1>4, <1>5, <1>6

LEMMA ProbeWhere ==
    ASSUME IInv, NEW c \in Clients, Execution(c), NEW p \in Providers
    PROVE  /\ probe[c][p] # "none" => order[c] # << >> /\ p \in Planned(order[c])
           /\ probe[c][p] \in {"waiting", "arrived"} => phase[c] \in {"sequential", "racing"}
           /\ probe[c][p] = "cancelling" => phase[c] = "draining" /\ p \in pending[c]
           /\ Racing(c) /\ probe[c][p] \in {"planned", "waiting", "arrived"} =>
                phase[c] = "racing" /\ p \in pending[c]
           /\ Racing(c) /\ p \in pending[c] /\ probe[c][p] = "done" => phase[c] = "racing"
<1>0. TypeOK /\ Kept(c)
  BY DEF IInv, Kept
<1>1. probe[c][p] # "none" => order[c] # << >> /\ p \in Planned(order[c])
  BY <1>0 DEF Kept, PlanKept, Planned
<1>2. CASE order[c] = << >>
  BY <1>1, <1>2 DEF Racing
<1>3. CASE Looping(c)
  <2>1. PICK n \in DOMAIN order[c] : Reached(c, n)
    BY <1>3 DEF Execution, LoopKept
  <2>2. CASE p \in Planned(order[c])
    <3>1. PICK i \in DOMAIN order[c] : p = order[c][i]
      BY <2>2 DEF Planned
    <3> QED
      BY <1>0, <1>1, <1>3, <2>1, <3>1, LoopProbes DEF Execution, Looping, Racing
  <2>3. CASE p \notin Planned(order[c])
    BY <1>1, <1>3, <2>3 DEF Looping, Racing
  <2> QED
    BY <2>2, <2>3
<1>4. CASE Racing(c)
  <2>1. RaceKept(c)
    BY DEF Execution
  <2> QED
    BY <1>1, <1>4, <2>1 DEF RaceKept, Returned
<1> QED
  BY <1>2, <1>3, <1>4 DEF Looping, Racing
-----------------------------------------------------------------------------
(* Every callback finds what it waits for. *)

LEMMA HandleIs ==
    /\ \A h \in Handles : h = Handle(h.kind, h.client, h.provider)
    /\ \A kind, c, p : /\ Handle(kind, c, p).kind = kind
                       /\ Handle(kind, c, p).client = c
                       /\ Handle(kind, c, p).provider = p
    /\ \A h \in Handles :
         /\ h.kind \in {"handler", "task", "resume", "completed", "wake"}
         /\ h.client \in Clients /\ h.provider \in Providers \cup {None}
  BY DEF Handle, Handles

\* A request in the queue has scheduled its handler and nothing else.
LEMMA OnlyHandler ==
    ASSUME IInv, LoopInv, NEW c \in Clients, Execution(c), phase[c] = "queued",
           NEW h \in Scheduled, h.client = c
    PROVE  h = Handle("handler", c, None)
<1>1. h \in Handles /\ InPlace(h)
  BY ScheduledType DEF IInv, LoopInv
<1>2. \A p \in Providers : probe[c][p] = "none"
  BY DEF IInv, PlanKept
<1>3. h.kind = "handler" /\ h.provider = None
  BY <1>1, <1>2, HandleIs DEF InPlace
<1> QED
  BY <1>1, <1>3, HandleIs

\* When the handler of a race is woken, all of its tasks have started.
LEMMA NothingPlanned ==
    ASSUME IInv, LoopInv, NEW c \in Clients, Head1("wake", c, None), phase[c] = "racing",
           NEW p \in Providers
    PROVE  probe[c][p] # "planned"
<1>1. SUFFICES ASSUME probe[c][p] = "planned" PROVE FALSE
  OBVIOUS
<1>2. Handle("task", c, p) \in Scheduled
  BY <1>1 DEF LoopInv, TasksScheduled
<1>3. PICK j \in DOMAIN ready : ready[j] = Handle("task", c, p)
  BY <1>2 DEF Scheduled
<1>4. 1 \in DOMAIN ready /\ ready[1] = Handle("wake", c, None) /\ DOMAIN ready = 1..Len(ready)
  BY DEF Head1, IInv, TypeOK
<1>5. 1 < j
  BY <1>3, <1>4, HandleIs
<1> QED
  BY <1>3, <1>4, <1>5, HandleIs DEF LoopInv, TasksFirst

LEMMA LoopSame ==
    ASSUME LoopInv, UNCHANGED <<ready, phase, probe, woken, awaiting>>
    PROVE  LoopInv'
<1>1. NoneTwice' /\ TasksFirst' /\ Scheduled' = Scheduled
  BY DEF LoopInv, NoneTwice, TasksFirst, Scheduled
<1>2. \A h \in Scheduled : InPlace(h)'
  BY DEF LoopInv, InPlace
<1>3. \A c \in Clients : TasksScheduled(c)'
  BY <1>1 DEF LoopInv, TasksScheduled
<1> QED
  BY <1>1, <1>2, <1>3 DEF LoopInv

LEMMA OneWake ==
    ASSUME NEW h \in Handles, InPlace(h), h.kind = "wake"
    PROVE  h = Handle("wake", h.client, None)
<1>1. h.provider = None
  BY DEF InPlace
<1> QED
  BY <1>1, HandleIs

\* A step that moves the probe of p leaves the other callbacks of its request
\* in place.
LEMMA MovedInPlace ==
    ASSUME NEW c, NEW p, NEW h, h.client = c, InPlace(h),
           phase'[c] = phase[c], woken'[c] = woken[c], awaiting'[c] = awaiting[c],
           \A q \in Providers : q # p => probe'[c][q] = probe[c][q],
           h.kind \in {"task", "resume", "completed"} => h.provider # p,
           probe[c][p] # "canceled"
    PROVE  InPlace(h)'
  BY DEF InPlace

LEMMA LoopStep ==
    IInv /\ IInv' /\ LoopInv /\ (\A c \in Clients : Execution(c)) /\ [Next]_vars => LoopInv'
<1> SUFFICES ASSUME IInv, IInv', LoopInv, \A c \in Clients : Execution(c), [Next]_vars
             PROVE  LoopInv'
  OBVIOUS
<1>0. /\ TypeOK /\ TypeOK' /\ NoneTwice /\ TasksFirst
      /\ \A h \in Scheduled : InPlace(h) /\ h \in Handles
      /\ \A h \in Scheduled' : h \in Handles
  <2>1. \A h \in Scheduled' : h \in Handles
    BY DEF IInv, TypeOK, Scheduled
  <2> QED
    BY <2>1, ScheduledType DEF IInv, LoopInv
<1> USE <1>0
<1>1. CASE Tick \/ Snapshot \/ UNCHANGED vars
  BY <1>1, LoopSame DEF Tick, Snapshot, vars, loop, race
<1>2. ASSUME NEW c \in Clients, Submit(c) PROVE LoopInv'
  <2> DEFINE g == Handle("handler", c, None)
  <2>1. /\ ready' = Append(ready, g)
        /\ phase' = [phase EXCEPT ![c] = "queued"]
        /\ \A h \in Scheduled : h.client # c
        /\ \A d \in Clients : d # c =>
             /\ phase'[d] = phase[d] /\ probe'[d] = probe[d]
             /\ woken'[d] = woken[d] /\ awaiting'[d] = awaiting[d]
    BY <1>2 DEF Submit, Scheduled, TypeOK
  <2>2. g \in Handles /\ g.client = c /\ g.kind = "handler" /\ g.provider = None /\ g \notin Scheduled
    BY <2>1, HandleType, HandleIs
  <2> HIDE DEF g
  <2>3. NoneTwice' /\ TasksFirst' /\ \A h : h \in Scheduled' <=> h = g \/ h \in Scheduled
    BY <2>1, <2>2, AppendAdds
  <2>4. phase'[c] = "queued"
    BY <2>1 DEF TypeOK
  <2>5. \A h \in Scheduled' : h.client = c => InPlace(h)'
    BY <2>1, <2>2, <2>3, <2>4 DEF InPlace
  <2>6. TasksScheduled(c)'
    BY <2>4 DEF TasksScheduled
  <2> QED
    BY <2>1, <2>2, <2>3, <2>5, <2>6, LoopFrom
<1>3. ASSUME NEW c \in Clients, Reject(c) \/ Refuse(c) \/ StartSequential(c) PROVE LoopInv'
  <2>1. /\ ready # << >> /\ Head(ready) = Handle("handler", c, None) /\ Run(<< >>)
        /\ phase[c] = "queued"
        /\ UNCHANGED <<woken, awaiting>>
    BY <1>3 DEF Reject, Refuse, StartSequential, Head1, race
  <2>2. /\ phase'[c] \in {"answered", "sequential"}
        /\ \A d \in Clients : d # c => phase'[d] = phase[d] /\ probe'[d] = probe[d]
    BY <1>3, ZenonT(30) DEF Reject, Refuse, StartSequential, Reply, TypeOK
  <2>3. /\ NoneTwice' /\ TasksFirst'
        /\ \A h : h \in Scheduled' <=> h \in Scheduled /\ h # Head(ready)
    BY <2>1, RunLeaves
  <2>4. \A h \in Scheduled' : h.client # c
    BY <2>1, <2>3, OnlyHandler
  <2>5. TasksScheduled(c)'
    BY <2>2 DEF TasksScheduled
  <2>6. Head(ready).client = c
    BY <2>1, HandleIs
  <2> QED
    BY <2>1, <2>2, <2>3, <2>4, <2>5, <2>6, LoopFrom
<1>4. ASSUME NEW c \in Clients, StartRace(c) PROVE LoopInv'
  <2>1. PICK o \in Planning(c, TRUE) :
          /\ probe' = [probe EXCEPT ![c] =
                [p \in Providers |-> IF p \in Planned(o) THEN "planned" ELSE "none"]]
          /\ Run([i \in DOMAIN o |-> Handle("task", c, o[i])])
    BY <1>4 DEF StartRace
  <2>2. /\ ready # << >> /\ Head(ready) = Handle("handler", c, None)
        /\ phase[c] = "queued" /\ phase'[c] = "racing"
        /\ UNCHANGED <<woken, awaiting>>
        /\ \A d \in Clients : d # c => phase'[d] = phase[d]
    BY <1>4 DEF StartRace, Head1, TypeOK
  <2>3. o \in Seq(Providers) /\ \A i, j \in DOMAIN o : o[i] = o[j] => i = j
    BY <1>4, <2>1, PlanningType DEF StartRace
  <2> DEFINE new == [i \in DOMAIN o |-> Handle("task", c, o[i])]
  <2>4. /\ new \in Seq(Handles) /\ DOMAIN new = DOMAIN o
        /\ \A i \in DOMAIN new : new[i] = Handle("task", c, o[i])
    BY <2>3, HandleType
  <2> HIDE DEF new
  <2>5. /\ \A i \in DOMAIN new :
             /\ new[i].kind = "task" /\ new[i].client = c /\ new[i].provider = o[i]
             /\ new[i] \notin Scheduled
        /\ \A i, j \in DOMAIN new : new[i] = new[j] => i = j
    <3>1. \A i \in DOMAIN new :
             new[i].kind = "task" /\ new[i].client = c /\ new[i].provider = o[i]
      BY <2>4, HandleIs
    <3>2. \A h \in Scheduled : h.client = c => h.kind = "handler"
      BY <2>2, OnlyHandler, HandleIs
    <3> QED
      BY <2>3, <2>4, <3>1, <3>2
  <2>6. /\ NoneTwice'
        /\ \A h : h \in Scheduled' <=>
             \/ h \in Scheduled /\ h # Head(ready)
             \/ \E i \in DOMAIN new : h = new[i]
    BY <2>1, <2>2, <2>4, <2>5, RunSchedules DEF new
  <2>7. TasksFirst'
    <3>1. \A j \in DOMAIN ready : j # 1 => ready[j].client # c
      <4>1. \A j \in DOMAIN ready : ready[j].client = c => ready[j] = Head(ready)
        BY <2>2, OnlyHandler DEF Scheduled
      <4>2. 1 \in DOMAIN ready /\ ready[1] = Head(ready)
        BY <2>2, ScheduledType
      <4> QED
        BY <4>1, <4>2 DEF NoneTwice
    <3> QED
      BY <2>1, <2>2, <2>4, <2>5, <3>1, RunKeepsTasksFirst DEF new
  <2>8. /\ \A p \in Providers : probe'[c][p] = "planned" <=> p \in Planned(o)
        /\ \A d \in Clients : d # c => probe'[d] = probe[d]
    BY <2>1 DEF TypeOK
  <2>9. \A h \in Scheduled' : h.client = c => \E i \in DOMAIN new : h = new[i]
    BY <2>2, <2>6, OnlyHandler
  <2>10. \A h \in Scheduled' : h.client = c => InPlace(h)'
    <3> SUFFICES ASSUME NEW h \in Scheduled', h.client = c PROVE InPlace(h)'
      OBVIOUS
    <3>1. PICK i \in DOMAIN new : h = new[i]
      BY <2>9
    <3>2. o[i] \in Providers /\ o[i] \in Planned(o)
      BY <2>3, <2>4 DEF Planned
    <3>3. h.kind = "task" /\ h.provider = o[i]
      BY <2>5, <3>1
    <3> QED
      BY <2>2, <2>8, <3>2, <3>3 DEF InPlace
  <2>11. TasksScheduled(c)'
    <3> SUFFICES ASSUME NEW p \in Providers, probe'[c][p] = "planned"
                 PROVE  Handle("task", c, p) \in Scheduled'
      BY DEF TasksScheduled
    <3>1. PICK i \in DOMAIN o : p = o[i]
      BY <2>8 DEF Planned
    <3> QED
      BY <2>4, <2>6, <3>1
  <2>12. Head(ready).client = c
    BY <2>2, HandleIs
  <2> QED
    BY <2>2, <2>5, <2>6, <2>7, <2>8, <2>10, <2>11, <2>12, LoopFrom
<1>5. ASSUME NEW c \in Clients, NEW p \in Providers, LaunchTask(c, p) PROVE LoopInv'
  <2>1. /\ ready # << >> /\ Head(ready) = Handle("task", c, p) /\ Run(<< >>)
        /\ probe[c][p] = "planned" /\ probe' = [probe EXCEPT ![c][p] = "waiting"]
        /\ UNCHANGED <<phase, woken, awaiting>>
    BY <1>5 DEF LaunchTask, Head1, race
  <2>2. /\ NoneTwice' /\ TasksFirst'
        /\ \A h : h \in Scheduled' <=> h \in Scheduled /\ h # Head(ready)
    BY <2>1, RunLeaves
  <2>3. /\ \A q \in Providers : probe'[c][q] = IF q = p THEN "waiting" ELSE probe[c][q]
        /\ \A d \in Clients : d # c => probe'[d] = probe[d]
    BY <2>1 DEF TypeOK
  <2>4. ASSUME NEW h \in Scheduled', h.client = c PROVE InPlace(h)'
    <3>1. h \in Scheduled /\ InPlace(h) /\ h # Head(ready)
      BY <2>2, <2>4
    <3>2. h.kind \in {"task", "resume", "completed"} => h.provider # p
      BY <2>1, <2>4, <3>1, HandleIs DEF InPlace
    <3>3. /\ phase'[c] = phase[c] /\ woken'[c] = woken[c] /\ awaiting'[c] = awaiting[c]
          /\ \A q \in Providers : q # p => probe'[c][q] = probe[c][q]
          /\ probe[c][p] # "canceled"
      BY <2>1, <2>3
    <3> QED
      BY <2>4, <3>1, <3>2, <3>3, MovedInPlace
  <2>5. TasksScheduled(c)'
    <3> SUFFICES ASSUME NEW q \in Providers, phase[c] = "racing", probe'[c][q] = "planned"
                 PROVE  Handle("task", c, q) \in Scheduled'
      BY <2>1 DEF TasksScheduled
    <3>1. q # p /\ Handle("task", c, q) \in Scheduled
      BY <2>3 DEF LoopInv, TasksScheduled
    <3> QED
      BY <2>1, <2>2, <3>1, HandleIs
  <2>6. Head(ready).client = c
    BY <2>1, HandleIs
  <2> QED
    BY <2>1, <2>2, <2>3, <2>4, <2>5, <2>6, LoopFrom
<1>6. ASSUME NEW c \in Clients, NEW p \in Providers, Deliver(c, p) PROVE LoopInv'
  <2> DEFINE g == Handle("resume", c, p)
  <2>1. /\ ready' = Append(ready, g)
        /\ probe[c][p] = "waiting" /\ probe' = [probe EXCEPT ![c][p] = "arrived"]
        /\ UNCHANGED <<phase, woken, awaiting>>
    BY <1>6 DEF Deliver, race
  <2>2. g \in Handles /\ g.client = c /\ g.kind = "resume" /\ g.provider = p
    BY HandleType, HandleIs
  <2> HIDE DEF g
  <2>3. g \notin Scheduled
    BY <2>1, <2>2 DEF InPlace
  <2>4. NoneTwice' /\ TasksFirst' /\ \A h : h \in Scheduled' <=> h = g \/ h \in Scheduled
    BY <2>1, <2>2, <2>3, AppendAdds
  <2>5. /\ \A q \in Providers : probe'[c][q] = IF q = p THEN "arrived" ELSE probe[c][q]
        /\ \A d \in Clients : d # c => probe'[d] = probe[d]
    BY <2>1 DEF TypeOK
  <2>6. ASSUME NEW h \in Scheduled', h.client = c PROVE InPlace(h)'
    <3>1. CASE h = g
      BY <2>2, <2>5, <3>1 DEF InPlace
    <3>2. CASE h # g
      <4>1. h \in Scheduled /\ InPlace(h)
        BY <2>4, <3>2
      <4>2. h.kind \in {"task", "resume", "completed"} => h.provider # p
        BY <2>1, <2>6, <4>1 DEF InPlace
      <4>3. /\ phase'[c] = phase[c] /\ woken'[c] = woken[c] /\ awaiting'[c] = awaiting[c]
            /\ \A q \in Providers : q # p => probe'[c][q] = probe[c][q]
            /\ probe[c][p] # "canceled"
        BY <2>1, <2>5
      <4> QED
        BY <2>6, <4>1, <4>2, <4>3, MovedInPlace
    <3> QED
      BY <3>1, <3>2
  <2>7. TasksScheduled(c)'
    BY <2>1, <2>4, <2>5 DEF LoopInv, TasksScheduled
  <2> QED
    BY <2>1, <2>2, <2>4, <2>5, <2>6, <2>7, LoopFrom
<1>7. ASSUME NEW c \in Clients, NEW p \in Providers, EndTask(c, p) PROVE LoopInv'
  <2> DEFINE g == Handle("completed", c, p)
  <2>1. /\ ready # << >> /\ Head(ready) = Handle("resume", c, p) /\ Run(<<g>>)
        /\ probe[c][p] = "arrived" /\ probe' = [probe EXCEPT ![c][p] = "done"]
        /\ UNCHANGED <<phase, woken, awaiting>>
    BY <1>7 DEF EndTask, Head1
  <2>2. g \in Handles /\ g.client = c /\ g.kind = "completed" /\ g.provider = p
    BY HandleType, HandleIs
  <2> HIDE DEF g
  <2>3. g \notin Scheduled
    BY <2>1, <2>2 DEF InPlace
  <2>4. /\ NoneTwice' /\ TasksFirst'
        /\ \A h : h \in Scheduled' <=> h = g \/ (h \in Scheduled /\ h # Head(ready))
    BY <2>1, <2>2, <2>3, RunAdds
  <2>5. /\ \A q \in Providers : probe'[c][q] = IF q = p THEN "done" ELSE probe[c][q]
        /\ \A d \in Clients : d # c => probe'[d] = probe[d]
    BY <2>1 DEF TypeOK
  <2>6. ASSUME NEW h \in Scheduled', h.client = c PROVE InPlace(h)'
    <3>1. CASE h = g
      BY <2>2, <2>5, <3>1 DEF InPlace
    <3>2. CASE h # g
      <4>1. h \in Scheduled /\ InPlace(h) /\ h # Head(ready)
        BY <2>4, <3>2
      <4>2. h.kind \in {"task", "resume", "completed"} => h.provider # p
        BY <2>1, <2>6, <4>1, HandleIs DEF InPlace
      <4>3. /\ phase'[c] = phase[c] /\ woken'[c] = woken[c] /\ awaiting'[c] = awaiting[c]
            /\ \A q \in Providers : q # p => probe'[c][q] = probe[c][q]
            /\ probe[c][p] # "canceled"
        BY <2>1, <2>5
      <4> QED
        BY <2>6, <4>1, <4>2, <4>3, MovedInPlace
    <3> QED
      BY <3>1, <3>2
  <2>7. TasksScheduled(c)'
    BY <2>1, <2>4, <2>5, HandleIs DEF LoopInv, TasksScheduled
  <2>8. Head(ready).client = c
    BY <2>1, HandleIs
  <2> QED
    BY <2>1, <2>2, <2>4, <2>5, <2>6, <2>7, <2>8, LoopFrom
<1>8. ASSUME NEW c \in Clients, NEW p \in Providers, CancelStep(c, p) PROVE LoopInv'
  <2> DEFINE g == Handle("wake", c, None)
  <2>1. /\ ready # << >> /\ Head(ready).client = c /\ Head(ready).provider = p
        /\ Head(ready).kind \in {"task", "resume"}
        /\ Run(IF awaiting[c] = p THEN <<g>> ELSE << >>)
        /\ probe[c][p] = "cancelling" /\ probe' = [probe EXCEPT ![c][p] = "canceled"]
        /\ UNCHANGED <<phase, woken, awaiting>>
    BY <1>8, HandleIs DEF CancelStep, Head1, race
  <2>2. g \in Handles /\ g.client = c /\ g.kind = "wake" /\ g.provider = None
    BY HandleType, HandleIs
  <2> HIDE DEF g
  <2>3. phase[c] = "draining"
    BY <2>1, ProbeWhere
  <2>4. awaiting[c] = p => g \notin Scheduled
    BY <2>1, <2>2, <2>3 DEF InPlace
  <2>5. /\ NoneTwice' /\ TasksFirst'
        /\ \A h : h \in Scheduled' <=>
             (h = g /\ awaiting[c] = p) \/ (h \in Scheduled /\ h # Head(ready))
    <3>1. CASE awaiting[c] = p
      BY <2>1, <2>2, <2>4, <3>1, RunAdds
    <3>2. CASE awaiting[c] # p
      BY <2>1, <3>2, RunLeaves
    <3> QED
      BY <3>1, <3>2
  <2>6. /\ \A q \in Providers : probe'[c][q] = IF q = p THEN "canceled" ELSE probe[c][q]
        /\ \A d \in Clients : d # c => probe'[d] = probe[d]
    BY <2>1 DEF TypeOK
  <2>7. ASSUME NEW h \in Scheduled', h.client = c PROVE InPlace(h)'
    <3>1. CASE h = g /\ awaiting[c] = p
      BY <2>1, <2>2, <2>3, <2>6, <3>1 DEF InPlace
    <3>2. CASE ~(h = g /\ awaiting[c] = p)
      <4>1. h \in Scheduled /\ InPlace(h) /\ h # Head(ready)
        BY <2>5, <3>2
      <4>2. h.kind \in {"task", "completed"} => h.provider # p
        BY <2>1, <2>3, <2>7, <4>1 DEF InPlace
      <4>3. h.kind = "resume" => h.provider # p
        <5>1. Head(ready) \in Handles /\ InPlace(Head(ready))
          BY <2>1, ScheduledType
        <5>2. Head(ready).kind = "resume"
          BY <2>1, <2>3, <5>1 DEF InPlace
        <5> QED
          BY <2>1, <2>7, <4>1, <5>1, <5>2, HandleIs
      <4>4. /\ phase'[c] = phase[c] /\ woken'[c] = woken[c] /\ awaiting'[c] = awaiting[c]
            /\ \A q \in Providers : q # p => probe'[c][q] = probe[c][q]
            /\ probe[c][p] # "canceled"
        BY <2>1, <2>6
      <4> QED
        BY <2>7, <4>1, <4>2, <4>3, <4>4, MovedInPlace
    <3> QED
      BY <3>1, <3>2
  <2>8. TasksScheduled(c)'
    BY <2>1, <2>3 DEF TasksScheduled
  <2> QED
    BY <2>1, <2>2, <2>5, <2>6, <2>7, <2>8, LoopFrom
<1>9. ASSUME NEW c \in Clients, NEW p \in Providers, Completed(c, p) PROVE LoopInv'
  <2> DEFINE g == Handle("wake", c, None)
  <2>1. /\ ready # << >> /\ Head(ready) = Handle("completed", c, p)
        /\ Run(IF Notifies(c, p) THEN <<g>> ELSE << >>)
        /\ woken' = [woken EXCEPT ![c] = @ \/ Notifies(c, p)]
        /\ UNCHANGED <<phase, probe, awaiting>>
    BY <1>9 DEF Completed, Head1
  <2>2. g \in Handles /\ g.client = c /\ g.kind = "wake" /\ g.provider = None
    BY HandleType, HandleIs
  <2>3. Head(ready).client = c /\ Head(ready).kind = "completed"
    BY <2>1, HandleIs
  <2> HIDE DEF g
  <2>4. Notifies(c, p) => phase[c] = "racing" /\ ~woken[c]
    <3>1. SUFFICES ASSUME p \in pending[c] PROVE phase[c] = "racing"
      BY DEF Notifies
    <3>2. Racing(c)
      <4>1. order[c] # << >>
        BY <3>1 DEF IInv, PlanKept, Planned
      <4> QED
        BY <3>1, <4>1 DEF Execution, LoopKept, Looping, Racing
    <3>3. probe[c][p] = "done"
      BY <2>1, ScheduledType, HandleIs DEF InPlace
    <3> QED
      BY <3>1, <3>2, <3>3, ProbeWhere
  <2>5. Notifies(c, p) => g \notin Scheduled
    BY <2>2, <2>4 DEF InPlace
  <2>6. /\ NoneTwice' /\ TasksFirst'
        /\ \A h : h \in Scheduled' <=>
             (h = g /\ Notifies(c, p)) \/ (h \in Scheduled /\ h # Head(ready))
    <3>1. CASE Notifies(c, p)
      <4>1. Run(<<g>>)
        BY <2>1, <3>1
      <4> QED
        BY <2>1, <2>2, <2>5, <3>1, <4>1, RunAdds
    <3>2. CASE ~Notifies(c, p)
      <4>1. Run(<< >>)
        BY <2>1, <3>2
      <4> QED
        BY <2>1, <3>2, <4>1, RunLeaves
    <3> QED
      BY <3>1, <3>2
  <2>7. /\ (woken[c] \/ Notifies(c, p)) => woken'[c]
        /\ \A d \in Clients : d # c => woken'[d] = woken[d]
    BY <2>1 DEF TypeOK
  <2>8. ASSUME NEW h \in Scheduled', h.client = c PROVE InPlace(h)'
    <3>1. CASE h = g /\ Notifies(c, p)
      BY <2>1, <2>2, <2>4, <2>7, <3>1 DEF InPlace
    <3>2. CASE ~(h = g /\ Notifies(c, p))
      BY <2>1, <2>6, <2>7, <2>8, <3>2 DEF InPlace
    <3> QED
      BY <3>1, <3>2
  <2>9. TasksScheduled(c)'
    BY <2>1, <2>3, <2>6, HandleIs DEF LoopInv, TasksScheduled
  <2> QED
    BY <2>1, <2>2, <2>3, <2>6, <2>7, <2>8, <2>9, LoopFrom
<1>10. ASSUME NEW c \in Clients, WakeLosing(c) PROVE LoopInv'
  <2>1. /\ ready # << >> /\ Head(ready) = Handle("wake", c, None) /\ Run(<< >>)
        /\ phase[c] = "racing" /\ Acceptable(c) = {}
        /\ UNCHANGED <<probe, awaiting>>
        /\ woken' = [woken EXCEPT ![c] = FALSE]
        /\ Left(c) # {} => phase' = phase
    BY <1>10 DEF WakeLosing, Head1
  <2>2. phase' = [phase EXCEPT ![c] = "answered"] \/ phase' = phase
    BY <1>10, FinishPhase DEF WakeLosing
  <2>3. /\ NoneTwice' /\ TasksFirst'
        /\ \A h : h \in Scheduled' <=> h \in Scheduled /\ h # Head(ready)
    BY <2>1, RunLeaves
  <2>4. /\ phase'[c] \in {"racing", "answered"} /\ (phase'[c] = "answered" => Left(c) = {})
        /\ \A d \in Clients : d # c => phase'[d] = phase[d] /\ woken'[d] = woken[d]
    BY <2>1, <2>2 DEF TypeOK
  <2>5. Head(ready).client = c /\ Head(ready).kind = "wake"
    BY <2>1, HandleIs
  <2>6. ASSUME NEW h \in Scheduled', h.client = c PROVE InPlace(h)'
    <3>1. h \in Scheduled /\ InPlace(h) /\ h \in Handles /\ h.kind # "wake"
      BY <2>1, <2>3, <2>6, OneWake
    <3>2. ASSUME h.kind = "task" PROVE phase'[c] = "racing"
      <4>1. h.provider \in Providers /\ probe[c][h.provider] = "planned"
        BY <2>6, <3>1, <3>2 DEF InPlace
      <4>2. h.provider \in pending[c]
        BY <2>1, <4>1, PhaseKind, ProbeWhere
      <4>3. h.provider \in Left(c)
        BY <4>1, <4>2 DEF Left, Finished
      <4> QED
        BY <2>4, <4>3
    <3> QED
      BY <2>1, <2>6, <3>1, <3>2 DEF InPlace
  <2>7. TasksScheduled(c)'
    BY <2>1, <2>3, <2>5, HandleIs DEF LoopInv, TasksScheduled
  <2> QED
    BY <2>1, <2>3, <2>4, <2>5, <2>6, <2>7, LoopFrom
<1>11. ASSUME NEW c \in Clients, WakeWinning(c) PROVE LoopInv'
  <2> DEFINE waiting == {p \in Left(c) : probe[c][p] = "waiting"}
  <2>1. /\ ready # << >> /\ Head(ready) = Handle("wake", c, None)
        /\ phase[c] = "racing"
        /\ probe' = [probe EXCEPT ![c] =
              [p \in Providers |-> IF p \in Left(c) THEN "cancelling" ELSE @[p]]]
        /\ UNCHANGED woken
    BY <1>11 DEF WakeWinning, Head1
  <2>2. PICK o \in Arrangements(waiting) :
          Run([i \in DOMAIN o |-> Handle("resume", c, o[i])])
    BY <1>11 DEF WakeWinning
  <2>3. \/ phase' = [phase EXCEPT ![c] = "answered"]
        \/ phase' = [phase EXCEPT ![c] = "draining"]
    BY <1>11, FinishPhase DEF WakeWinning
  <2>4. /\ phase'[c] \in {"answered", "draining"}
        /\ \A d \in Clients : d # c =>
             phase'[d] = phase[d] /\ awaiting'[d] = awaiting[d] /\ probe'[d] = probe[d]
        /\ \A p \in Providers :
             probe'[c][p] = IF p \in Left(c) THEN "cancelling" ELSE probe[c][p]
    BY <1>11, <2>1, <2>3 DEF TypeOK, WakeWinning
  <2>5. o \in Seq(waiting) /\ waiting \subseteq Providers
        /\ \A i, j \in DOMAIN o : o[i] = o[j] => i = j
    <3>1. waiting \subseteq Providers
      BY DEF Left, TypeOK
    <3>2. IsFiniteSet(waiting)
      BY <3>1, RouterAssumption, FS_Subset
    <3> QED
      BY <2>2, <3>1, <3>2, ArrangementType
  <2> DEFINE new == [i \in DOMAIN o |-> Handle("resume", c, o[i])]
  <2>6. /\ new \in Seq(Handles) /\ DOMAIN new = DOMAIN o
        /\ \A i \in DOMAIN new : new[i] = Handle("resume", c, o[i])
    BY <2>5, HandleType
  <2>7. \A i \in DOMAIN o :
          o[i] \in Left(c) /\ probe[c][o[i]] = "waiting" /\ o[i] \in Providers
    BY <2>5
  <2> HIDE DEF new, waiting
  <2>8. \A i \in DOMAIN new :
          /\ new[i].kind = "resume" /\ new[i].client = c /\ new[i].provider = o[i]
          /\ new[i] \notin Scheduled
    <3>1. \A i \in DOMAIN new :
            new[i].kind = "resume" /\ new[i].client = c /\ new[i].provider = o[i]
      BY <2>6, HandleIs
    <3> QED
      BY <2>6, <2>7, <3>1 DEF InPlace
  <2>9. \A i, j \in DOMAIN new : new[i] = new[j] => i = j
    BY <2>5, <2>6, <2>8
  <2>10. Run(new)
    BY <2>2 DEF new
  <2>11. /\ NoneTwice'
         /\ \A h : h \in Scheduled' <=>
              \/ h \in Scheduled /\ h # Head(ready)
              \/ \E i \in DOMAIN new : h = new[i]
    BY <2>1, <2>6, <2>8, <2>9, <2>10, RunSchedules
  <2>12. TasksFirst'
    BY <2>1, <2>6, <2>8, <2>10, RunKeepsTasksFirst
  <2>13. Head(ready).client = c /\ Head(ready).kind = "wake"
    BY <2>1, HandleIs
  <2>14. ASSUME NEW h \in Scheduled', h.client = c PROVE InPlace(h)'
    <3>1. CASE \E i \in DOMAIN new : h = new[i]
      <4>1. PICK i \in DOMAIN new : h = new[i]
        BY <3>1
      <4> QED
        BY <2>4, <2>6, <2>7, <2>8, <4>1 DEF InPlace
    <3>2. CASE ~\E i \in DOMAIN new : h = new[i]
      <4>1. h \in Scheduled /\ InPlace(h) /\ h \in Handles /\ h.kind # "wake"
        BY <2>1, <2>11, <2>14, <3>2, OneWake
      <4>2. h.kind # "task"
        BY <1>11, <2>1, <2>14, <4>1, NothingPlanned DEF InPlace, WakeWinning
      <4>3. h.kind = "handler" => FALSE
        BY <2>1, <2>14, <4>1 DEF InPlace
      <4>4. h.kind = "completed" => h.provider \notin Left(c)
        BY <2>14, <4>1 DEF InPlace, Left, Finished
      <4> QED
        BY <2>4, <2>14, <4>1, <4>2, <4>3, <4>4 DEF InPlace
    <3> QED
      BY <3>1, <3>2
  <2>15. TasksScheduled(c)'
    BY <2>4 DEF TasksScheduled
  <2>16. \A h \in Handles : h.client # c => (h \in Scheduled' <=> h \in Scheduled)
    BY <2>8, <2>11, <2>13
  <2> QED
    BY <2>1, <2>4, <2>11, <2>12, <2>14, <2>15, <2>16, LoopFrom
<1>12. ASSUME NEW c \in Clients, Drain(c) PROVE LoopInv'
  <2>1. /\ ready # << >> /\ Head(ready) = Handle("wake", c, None) /\ Run(<< >>)
        /\ phase[c] = "draining" /\ UNCHANGED <<probe, woken>>
        /\ \A d \in Clients : d # c => awaiting'[d] = awaiting[d]
    BY <1>12 DEF Drain, Head1, TypeOK
  <2>2. phase' = [phase EXCEPT ![c] = "answered"] \/ phase' = phase
    BY <1>12, FinishPhase DEF Drain
  <2>3. /\ NoneTwice' /\ TasksFirst'
        /\ \A h : h \in Scheduled' <=> h \in Scheduled /\ h # Head(ready)
    BY <2>1, RunLeaves
  <2>4. /\ phase'[c] # "racing"
        /\ \A d \in Clients : d # c => phase'[d] = phase[d]
    BY <2>1, <2>2 DEF TypeOK
  <2>5. Head(ready).client = c
    BY <2>1, HandleIs
  <2>6. ASSUME NEW h \in Scheduled', h.client = c PROVE InPlace(h)'
    <3>1. h \in Scheduled /\ InPlace(h) /\ h \in Handles /\ h.kind # "wake"
      BY <2>1, <2>3, <2>6, OneWake
    <3> QED
      BY <2>1, <2>6, <3>1 DEF InPlace
  <2>7. TasksScheduled(c)'
    BY <2>4 DEF TasksScheduled
  <2> QED
    BY <2>1, <2>3, <2>4, <2>5, <2>6, <2>7, LoopFrom
<1>13. ASSUME NEW c \in Clients, NEW p \in Providers,
              SequentialStep(c, p) \/ SequentialCrash(c, p)
       PROVE  LoopInv'
  <2>1. /\ ready # << >> /\ Head(ready) = Handle("resume", c, p) /\ Run(<< >>)
        /\ phase[c] = "sequential" /\ probe[c][p] = "arrived"
        /\ UNCHANGED <<woken, awaiting>>
    BY <1>13 DEF SequentialStep, SequentialCrash, Head1, race
  <2>2. /\ phase'[c] \in {"sequential", "answered"}
        /\ \A d \in Clients : d # c => phase'[d] = phase[d] /\ probe'[d] = probe[d]
    <3>1. phase' = [phase EXCEPT ![c] = "answered"] \/ phase' = phase
      BY <1>13, FinishPhase DEF SequentialStep, SequentialCrash, Reply
    <3>2. \A d \in Clients : d # c => probe'[d] = probe[d]
      BY <1>13 DEF SequentialStep, SequentialCrash, TypeOK
    <3> QED
      BY <2>1, <3>1, <3>2 DEF TypeOK
  <2>3. /\ NoneTwice' /\ TasksFirst'
        /\ \A h : h \in Scheduled' <=> h \in Scheduled /\ h # Head(ready)
    BY <2>1, RunLeaves
  <2>4. Head(ready).client = c
    BY <2>1, HandleIs
  <2>5. PICK n \in DOMAIN order[c] : Reached(c, n)
    BY <2>1, PhaseKind DEF Execution, LoopKept
  <2>6. ASSUME NEW q \in Providers, probe[c][q] # "none"
        PROVE  /\ probe[c][q] \notin {"cancelling", "canceled"}
               /\ probe[c][q] = "arrived" => q = p
    <3>1. Looping(c) /\ LoopKept(c) /\ Kept(c)
      BY <2>1, PhaseKind DEF Execution, IInv, Kept
    <3>2. PICK i \in DOMAIN order[c] : q = order[c][i]
      BY <2>6, ProbeWhere DEF Planned
    <3>3. PICK j \in DOMAIN order[c] : p = order[c][j]
      BY <2>1, ProbeWhere DEF Planned
    <3> QED
      BY <2>1, <2>5, <3>1, <3>2, <3>3, LoopProbes
  <2>7. \A q \in Providers : probe[c][q] = "done" => probe'[c][q] = "done"
    <3>1. CASE probe' = [probe EXCEPT ![c] = Stopped(c, p)]
      BY <3>1 DEF Stopped, TypeOK
    <3>2. CASE probe' # [probe EXCEPT ![c] = Stopped(c, p)]
      <4> DEFINE q == order[c][Position(c, p) + 1]
      <4>1. ~SequentialEnds(c, p) /\ probe' = [probe EXCEPT ![c][p] = "done", ![c][q] = "waiting"]
        BY <1>13, <3>2 DEF SequentialStep, SequentialCrash
      <4>2. /\ Position(c, p) \in 1..Len(order[c]) /\ order[c][Position(c, p)] = p
            /\ order[c] \in Seq(Providers)
        <5>1. TypeOK /\ p \in Planned(order[c])
          BY <2>1 DEF IInv, PlanKept
        <5>2. Position(c, p) \in 1..Len(order[c]) /\ order[c][Position(c, p)] = p
          BY <5>1, PositionType
        <5> QED
          BY <5>1, <5>2 DEF TypeOK
      <4>3. Position(c, p) + 1 \in DOMAIN order[c] /\ q \in Providers
        BY <4>1, <4>2 DEF SequentialEnds, IsLast
      <4>4. probe[c][q] = "planned"
        BY <2>1, <4>2, <4>3 DEF IInv, RestPlanned
      <4> HIDE DEF q
      <4> QED
        BY <4>1, <4>3, <4>4, ZenonT(30) DEF TypeOK
    <3> QED
      BY <3>1, <3>2
  <2>8. ASSUME NEW h \in Scheduled', h.client = c PROVE InPlace(h)'
    <3>1. h \in Scheduled /\ InPlace(h) /\ h \in Handles /\ h # Head(ready)
      BY <2>3, <2>8
    <3>2. h.kind = "completed"
      <4>1. h.kind # "resume"
        <5>1. SUFFICES ASSUME h.kind = "resume" PROVE FALSE
          OBVIOUS
        <5>2. h.provider \in Providers /\ probe[c][h.provider] \in {"arrived", "cancelling"}
          BY <2>8, <3>1, <5>1 DEF InPlace
        <5>3. h.provider = p
          BY <2>6, <5>2
        <5> QED
          BY <2>1, <2>8, <3>1, <5>1, <5>3, HandleIs
      <4> QED
        BY <2>1, <2>8, <3>1, <4>1, HandleIs DEF InPlace
    <3> QED
      BY <2>7, <2>8, <3>1, <3>2 DEF InPlace
  <2>9. TasksScheduled(c)'
    BY <2>2 DEF TasksScheduled
  <2> QED
    BY <2>1, <2>2, <2>3, <2>4, <2>8, <2>9, LoopFrom
<1> QED
  BY <1>1, <1>2, <1>3, <1>4, <1>5, <1>6, <1>7, <1>8, <1>9, <1>10, <1>11, <1>12, <1>13
     DEF Next, RunLoop, Handler, ProbeStep, Select
-----------------------------------------------------------------------------
(* What has been recorded stays true. *)

LEMMA PositionIs ==
    ASSUME TypeOK, NEW c \in Clients, Kept(c), NEW i \in DOMAIN order[c]
    PROVE  Position(c, order[c][i]) = i
<1>1. order[c][i] \in Planned(order[c])
  BY DEF Planned
<1>2. /\ Position(c, order[c][i]) \in DOMAIN order[c]
      /\ order[c][Position(c, order[c][i])] = order[c][i]
  BY <1>1, PositionType
<1> QED
  BY <1>2 DEF Kept, PlanKept

\* A recorded attempt depends on the plan, the outcome of the probe and whether
\* the request had been dispatched.
LEMMA AttemptKept ==
    ASSUME TypeOK, NEW c \in Clients, Kept(c), NEW p \in Planned(order[c]),
           order'[c] = order[c], p \in dispatched'[c] <=> p \in dispatched[c]
    PROVE  /\ Spared(c, p)' = Spared(c, p)
           /\ fate'[c][p] = fate[c][p] => Settled(c, p)' = Settled(c, p)
<1>1. Position(c, p) \in DOMAIN order[c] /\ order[c][Position(c, p)] = p
  BY PositionType
<1>2. Position(c, p)' \in DOMAIN order[c] /\ order[c][Position(c, p)'] = p
  <2>1. \E i \in DOMAIN order'[c] : order'[c][i] = p
    BY DEF Planned
  <2>2. Position(c, p)' \in DOMAIN order'[c] /\ order'[c][Position(c, p)'] = p
    BY <2>1 DEF Position
  <2> QED
    BY <2>2
<1>3. Position(c, p)' = Position(c, p)
  BY <1>1, <1>2 DEF Kept, PlanKept
<1>4. (p \in dispatched[c])' = (p \in dispatched[c])
  OBVIOUS
<1> QED
  BY <1>3, <1>4 DEF Spared, Settled, Attempt

SameExecution(c) ==
    /\ ask'[c] = ask[c] /\ phase'[c] = phase[c] /\ order'[c] = order[c]
    /\ probe'[c] = probe[c] /\ fate'[c] = fate[c] /\ dispatched'[c] = dispatched[c]
    /\ pending'[c] = pending[c] /\ attempts'[c] = attempts[c]
    /\ reply'[c] = reply[c] /\ first'[c] = first[c]

LEMMA ExecutionSame ==
    ASSUME TypeOK, NEW c \in Clients, Kept(c), Execution(c), SameExecution(c)
    PROVE  Execution(c)'
<1> USE DEF SameExecution
<1>1. Unplanned(c)' /\ PhaseKept(c)'
  BY DEF Execution, Unplanned, PhaseKept
<1>2. LoopKept(c)'
  <2>1. SUFFICES ASSUME Looping(c) PROVE LoopKept(c)'
    BY DEF LoopKept, Looping
  <2>2. PICK n \in DOMAIN order[c] : Reached(c, n)
    BY <2>1 DEF Execution, LoopKept
  <2>3. dispatched[c] \subseteq Planned(order[c])
    BY <2>2 DEF Reached, Planned, TypeOK
  <2>4. \A p \in dispatched[c] : Settled(c, p)' = Settled(c, p)
    BY <2>3, AttemptKept
  <2>5. /\ {Settled(c, p) : p \in dispatched[c]}' = {Settled(c, p) : p \in dispatched[c]}
        /\ {Settled(c, p) : p \in dispatched[c] \ {order[c][n]}}'
             = {Settled(c, p) : p \in dispatched[c] \ {order[c][n]}}
    BY <2>4
  <2>6. Reached(c, n)'
    <3>1. /\ dispatched'[c] = {order'[c][i] : i \in 1..n}
          /\ \A i \in 1..(n - 1) :
               probe'[c][order'[c][i]] = "done" /\ fate'[c][order'[c][i]] = "unacceptable"
      BY <2>2 DEF Reached
    <3>2. phase'[c] = "sequential" =>
            /\ probe'[c][order'[c][n]] \in {"waiting", "arrived"}
            /\ attempts'[c] = {Settled(c, p) : p \in dispatched[c] \ {order[c][n]}}'
      BY <2>2, <2>5 DEF Reached
    <3>3. phase'[c] = "answered" =>
            /\ probe'[c][order'[c][n]] = "done"
            /\ \A i \in (n + 1)..Len(order'[c]) : probe'[c][order'[c][i]] = "none"
            /\ \/ reply'[c].kind = "crashed" /\ attempts'[c] = {}
               \/ /\ attempts'[c] = {Settled(c, p) : p \in dispatched[c]}'
                  /\ \/ reply'[c].kind = "ok" /\ fate'[c][order'[c][n]] = "accepted"
                     \/ /\ reply'[c].kind = "noAcceptableResult"
                        /\ fate'[c][order'[c][n]] = "unacceptable" /\ n = Len(order'[c])
      BY <2>2, <2>5 DEF Reached
    <3> QED
      BY <3>1, <3>2, <3>3 DEF Reached
  <2> QED
    BY <2>1, <2>6 DEF Execution, LoopKept, Looping
<1>3. RaceKept(c)'
  <2>1. SUFFICES ASSUME Racing(c) PROVE RaceKept(c)'
    BY DEF RaceKept, Racing
  <2>2. Returned(c)' = Returned(c) /\ Returned(c) \subseteq Planned(order[c])
    BY DEF Returned, Planned
  <2>3. {Settled(c, p) : p \in Returned(c)}' = {Settled(c, p) : p \in Returned(c)}
    <3>1. \A p \in Returned(c) : Settled(c, p)' = Settled(c, p)
      BY <2>2, AttemptKept
    <3> QED
      BY <2>2, <3>1
  <2>4. {Spared(c, p) : p \in pending[c]}' = {Spared(c, p) : p \in pending[c]}
    <3>1. \A p \in pending[c] : Spared(c, p)' = Spared(c, p)
      BY AttemptKept DEF Kept, PlanKept
    <3> QED
      BY <3>1
  <2>5. Planned(order[c])' = Planned(order[c]) /\ RaceKept(c)
    BY DEF Planned, Execution
  <2> QED
    BY <2>1, <2>2, <2>3, <2>4, <2>5, ZenonT(60) DEF RaceKept
<1> QED
  BY <1>1, <1>2, <1>3 DEF Execution
LEMMA ExecutionFrom ==
    ASSUME IInv, \A e \in Clients : Execution(e), NEW c \in Clients,
           \A e \in Clients : e # c => SameExecution(e), Execution(c)'
    PROVE  \A e \in Clients : Execution(e)'
<1> SUFFICES ASSUME NEW e \in Clients, e # c PROVE Execution(e)'
  OBVIOUS
<1>1. TypeOK /\ Kept(e) /\ Execution(e) /\ SameExecution(e)
  BY DEF IInv, Kept
<1> QED
  BY <1>1, ExecutionSame

(***************************************************************************)
(* The reply follows from the trace: a success names the provider of an    *)
(* accepted attempt, and without one there is no success.                  *)
(***************************************************************************)
LEMMA FinishEffect ==
    ASSUME TypeOK, NEW c \in Clients, NEW trace \in SUBSET Attempts,
           NEW document, Finish(c, trace, document)
    PROVE  /\ attempts' = [attempts EXCEPT ![c] = trace]
           /\ phase' = [phase EXCEPT ![c] = "answered"]
           /\ \A e \in Clients : e # c => reply'[e] = reply[e]
           /\ AcceptedIn(trace) = {} =>
                reply'[c].kind = "noAcceptableResult" /\ reply'[c].returned = None
           /\ AcceptedIn(trace) # {} =>
                /\ reply'[c].kind = "ok"
                /\ \E a \in AcceptedIn(trace) : reply'[c].returned = a.provider
<1> DEFINE accepted == AcceptedIn(trace)
           winner == CHOOSE a \in accepted : \A b \in accepted : a.position <= b.position
<1>1. attempts' = [attempts EXCEPT ![c] = trace]
      /\ phase' = [phase EXCEPT ![c] = "answered"]
  BY DEF Finish, Reply
<1>2. CASE accepted = {}
  BY <1>1, <1>2 DEF Finish, Reply, TypeOK
<1>3. CASE accepted # {}
  <2>1. winner \in accepted
    <3> DEFINE positions == {a.position : a \in accepted}
    <3>1. positions \subseteq Nat /\ positions # {}
      BY <1>3 DEF AcceptedIn, Attempts
    <3>2. \E n \in positions : \A m \in positions : n <= m
      <4> HIDE DEF positions
      <4> QED
        BY <3>1, LeastElement
    <3> QED
      BY <3>2
  <2>2. reply' = [reply EXCEPT ![c] =
                    [kind |-> "ok", returned |-> winner.provider, document |-> document]]
    BY <1>3 DEF Finish, Reply
  <2> HIDE DEF winner
  <2> QED
    BY <1>1, <1>3, <2>1, <2>2 DEF TypeOK
<1> QED
  BY <1>2, <1>3

LEMMA SettledIs ==
    \A c, p : /\ Settled(c, p).provider = p /\ Settled(c, p).outcome = fate[c][p]
             /\ Spared(c, p).provider = p /\ Spared(c, p).outcome = "canceled"
  BY DEF Settled, Spared, Attempt

\* Only the settled attempts of a trace can be accepted.
LEMMA AcceptedSettled ==
    ASSUME NEW c, NEW S, NEW trace,
           \A a \in trace : a.outcome = "canceled" \/ \E p \in S : a = Settled(c, p),
           \A p \in S : Settled(c, p) \in trace
    PROVE  /\ \A a : a \in AcceptedIn(trace) <=>
                 \E p \in S : a = Settled(c, p) /\ fate[c][p] = "accepted"
           /\ AcceptedIn(trace) # {} <=> \E p \in S : fate[c][p] = "accepted"
<1>1. ASSUME NEW a
      PROVE  a \in AcceptedIn(trace) <=>
               \E p \in S : a = Settled(c, p) /\ fate[c][p] = "accepted"
  BY SettledIs DEF AcceptedIn
<1>2. AcceptedIn(trace) # {} <=> \E p \in S : fate[c][p] = "accepted"
  BY <1>1
<1> QED
  BY <1>1, <1>2

\* What asyncio.wait has returned so far has been recorded.
LEMMA WithFinishedIs ==
    ASSUME NEW c \in Clients, Kept(c), RaceKept(c), Racing(c), phase[c] = "racing"
    PROVE  /\ WithFinished(c) = {Settled(c, p) : p \in Planned(order[c]) \ Left(c)}
           /\ Planned(order[c]) \ Left(c) = Returned(c) \cup Finished(c)
           /\ \A p \in Planned(order[c]) \ Left(c) : probe[c][p] = "done"
           /\ Left(c) \subseteq pending[c] /\ \A p \in Left(c) : probe[c][p] # "done"
           /\ Acceptable(c) = {} =>
                \A p \in Planned(order[c]) \ Left(c) : fate[c][p] # "accepted"
           /\ Acceptable(c) \subseteq Planned(order[c]) \ Left(c)
<1>1. Planned(order[c]) \ Left(c) = Returned(c) \cup Finished(c)
  BY DEF Left, Finished, Returned, Kept, PlanKept
<1>2. attempts[c] = {Settled(c, p) : p \in Returned(c)}
  BY DEF RaceKept
<1>3. AttemptsOf(c, Finished(c)) = {Settled(c, p) : p \in Finished(c)}
  BY DEF AttemptsOf, Settled
<1>4. WithFinished(c) = {Settled(c, p) : p \in Returned(c) \cup Finished(c)}
  <2> HIDE DEF Settled, Returned, Finished
  <2> QED
    BY <1>2, <1>3 DEF WithFinished
<1>5. /\ \A p \in Returned(c) : probe[c][p] = "done" /\ fate[c][p] # "accepted"
      /\ \A p \in Finished(c) : probe[c][p] = "done"
      /\ Acceptable(c) = {} => \A p \in Finished(c) : fate[c][p] # "accepted"
      /\ Acceptable(c) \subseteq Finished(c)
  BY DEF RaceKept, Finished, Acceptable
<1>6. Left(c) \subseteq pending[c] /\ \A p \in Left(c) : probe[c][p] # "done"
  BY DEF Left, Finished
<1> QED
  BY <1>1, <1>4, <1>5, <1>6

\* A race has something to wait for.
LEMMA RacePlan ==
    ASSUME NEW c \in Clients, WellFormed(ask[c]), NEW o \in Planning(c, TRUE)
    PROVE  o # << >>
<1> DEFINE S == Candidates(ask[c].method, charges, now)
<1>1. /\ ask[c].policy \in {"all-race", "adaptive-min-set"}
      /\ o \in Plans(ask[c].policy, S)
      /\ Cardinality(S) >= MinProviders(ask[c].policy)
      /\ IsFiniteSet(S)
  <2>1. IsFiniteSet(S)
    BY RouterAssumption, FS_Subset DEF Candidates
  <2> QED
    BY <2>1, PolicyAssumption DEF Planning, WellFormed, PolicyNames, Concurrent
<1> HIDE DEF S
<1>2. CASE ask[c].policy = "all-race"
  <2>1. o \in Arrangements(S) /\ Cardinality(S) >= 2
    BY <1>1, <1>2 DEF Plans, InInventoryOrder, MinProviders
  <2> QED
    BY <1>1, <2>1, ArrangementType
<1>3. CASE ask[c].policy = "adaptive-min-set"
  <2>1. PICK T \in (SUBSET S) \ {{}} : o \in Arrangements(T)
    BY <1>1, <1>3 DEF Plans
  <2>2. IsFiniteSet(T) /\ Cardinality(T) # 0
    BY <1>1, <2>1, FS_Subset, FS_EmptySet
  <2> QED
    BY <2>1, <2>2, ArrangementType
<1> QED
  BY <1>1, <1>2, <1>3
LEMMA RaceFrom ==
    ASSUME NEW c, Racing(c), order'[c] = order[c], ask'[c] = ask[c],
           RaceKept(c)', PhaseKept(c)'
    PROVE  Execution(c)'
  BY DEF Execution, Unplanned, LoopKept, Looping, Racing

LEMMA SequenceFrom ==
    ASSUME NEW c, Looping(c), order'[c] = order[c], ask'[c] = ask[c],
           LoopKept(c)', PhaseKept(c)'
    PROVE  Execution(c)'
  BY DEF Execution, Unplanned, RaceKept, Looping, Racing

\* The answer that a loop handles is that of the last provider it contacted.
LEMMA SequenceHead ==
    ASSUME IInv, NEW c \in Clients, Execution(c), NEW p \in Providers,
           phase[c] = "sequential", probe[c][p] = "arrived"
    PROVE  /\ Looping(c) /\ LoopKept(c) /\ PhaseKept(c)
           /\ \E n \in DOMAIN order[c] :
                /\ Reached(c, n) /\ order[c][n] = p /\ Position(c, p) = n
                /\ \A i \in DOMAIN order[c] :
                     /\ order[c][i] \in dispatched[c] <=> i <= n
                     /\ i > n => probe[c][order[c][i]] = "planned"
                /\ dispatched[c] \subseteq Planned(order[c])
                /\ attempts[c] \cup {Attempt(c, p, fate[c][p])}
                     = {Settled(c, q) : q \in dispatched[c]}
<1>1. TypeOK /\ Kept(c)
  BY DEF IInv, Kept
<1>2. Looping(c) /\ LoopKept(c) /\ PhaseKept(c)
  BY PhaseKind DEF Execution
<1>3. PICK n \in DOMAIN order[c] : Reached(c, n)
  BY <1>2 DEF LoopKept
<1>4. order[c][n] = p
  <2>1. PICK i \in DOMAIN order[c] : p = order[c][i]
    BY <1>1 DEF Kept, PlanKept, Planned
  <2> QED
    BY <1>1, <1>2, <1>3, <2>1, LoopProbes
<1>5. Position(c, p) = n
  BY <1>1, <1>4, PositionIs
<1>6. ASSUME NEW i \in DOMAIN order[c]
      PROVE  /\ order[c][i] \in dispatched[c] <=> i <= n
             /\ i > n => probe[c][order[c][i]] = "planned"
  <2>1. order[c][i] \in dispatched[c] <=> i <= n
    BY <1>1, <1>2, <1>3, LoopProbes
  <2>2. i > n => probe[c][order[c][i]] = "planned"
    BY <1>1, <1>4 DEF Kept, RestPlanned
  <2> QED
    BY <2>1, <2>2
<1>7. dispatched[c] \subseteq Planned(order[c])
  <2>1. order[c] \in Seq(Providers)
    BY <1>1 DEF TypeOK
  <2> QED
    BY <1>3, <2>1 DEF Reached, Planned
<1>8. attempts[c] \cup {Attempt(c, p, fate[c][p])} = {Settled(c, q) : q \in dispatched[c]}
  <2>1. attempts[c] = {Settled(c, q) : q \in dispatched[c] \ {order[c][n]}}
    BY <1>3 DEF Reached
  <2>2. p \in dispatched[c]
    BY <1>1, <1>4, <1>6 DEF TypeOK
  <2>3. Attempt(c, p, fate[c][p]) = Settled(c, p)
    BY DEF Settled
  <2> QED
    BY <1>4, <2>1, <2>2, <2>3
<1> QED
  BY <1>2, <1>3, <1>4, <1>5, <1>6, <1>7, <1>8

LEMMA ExecutionStep ==
    IInv /\ IInv' /\ LoopInv /\ (\A c \in Clients : Execution(c)) /\ [Next]_vars
      => \A c \in Clients : Execution(c)'
<1> DEFINE Goal == \A c \in Clients : Execution(c)'
<1> SUFFICES ASSUME IInv, IInv', LoopInv, \A c \in Clients : Execution(c), [Next]_vars
             PROVE  Goal
  OBVIOUS
<1>0. /\ TypeOK /\ TypeOK'
      /\ \A c \in Clients : Kept(c) /\ Kept(c)'
      /\ \A h \in Scheduled : InPlace(h)
  BY DEF IInv, Kept, LoopInv
<1> USE <1>0
<1>1. CASE Tick \/ Snapshot \/ UNCHANGED vars
  <2>1. \A c \in Clients : SameExecution(c)
    BY <1>1 DEF Tick, Snapshot, vars, loop, race, result, SameExecution
  <2> QED
    BY <2>1, ExecutionSame
<1>2. ASSUME NEW c \in Clients, Submit(c) PROVE Goal
  <2>1. \A e \in Clients : e # c => SameExecution(e)
    BY <1>2 DEF Submit, SameExecution, TypeOK
  <2>2. /\ order'[c] = << >> /\ phase'[c] = "queued" /\ dispatched'[c] = {}
        /\ attempts'[c] = {} /\ first'[c] = None /\ reply'[c].kind = "none"
    BY <1>2 DEF Submit, TypeOK, NoReply
  <2>3. Execution(c)'
    BY <2>2 DEF Execution, Unplanned, LoopKept, RaceKept, PhaseKept, Looping, Racing
  <2> QED
    BY <2>1, <2>3, ExecutionFrom
<1>3. ASSUME NEW c \in Clients, Reject(c) \/ Refuse(c) PROVE Goal
  <2>1. /\ phase[c] = "queued" /\ phase' = [phase EXCEPT ![c] = "answered"]
        /\ reply' = [reply EXCEPT ![c] = [kind |-> "refused", returned |-> None, document |-> None]]
        /\ UNCHANGED <<ask, order, probe, fate, dispatched, pending, attempts, first>>
    BY <1>3 DEF Reject, Refuse, Reply, race
  <2>2. \A e \in Clients : e # c => SameExecution(e)
    BY <2>1 DEF SameExecution, TypeOK
  <2>3. order[c] = << >> /\ Unplanned(c)
    BY <2>1 DEF Execution, PhaseKept
  <2>4. phase'[c] = "answered" /\ reply'[c].kind = "refused"
    BY <2>1 DEF TypeOK
  <2>5. Execution(c)'
    BY <2>1, <2>3, <2>4
       DEF Execution, Unplanned, LoopKept, RaceKept, PhaseKept, Looping, Racing
  <2> QED
    BY <2>2, <2>5, ExecutionFrom
<1>4. ASSUME NEW c \in Clients, StartSequential(c) PROVE Goal
  <2>1. PICK o \in Planning(c, FALSE) :
          /\ order' = [order EXCEPT ![c] = o]
          /\ probe' = [probe EXCEPT ![c] =
                         [p \in Providers |-> IF p = o[1] THEN "waiting"
                                              ELSE IF p \in Planned(o) THEN "planned"
                                              ELSE "none"]]
          /\ dispatched' = [dispatched EXCEPT ![c] = {o[1]}]
    BY <1>4 DEF StartSequential
  <2>2. /\ o \in Seq(Providers) /\ 1 \in DOMAIN o /\ o # << >>
        /\ ~Concurrent(ask[c].policy)
    BY <1>4, <2>1, PlanningType DEF StartSequential
  <2>3. /\ phase' = [phase EXCEPT ![c] = "sequential"] /\ phase[c] = "queued"
        /\ UNCHANGED <<ask, fate, pending, attempts, first, reply>>
    BY <1>4 DEF StartSequential, race, result
  <2>4. \A e \in Clients : e # c => SameExecution(e)
    BY <2>1, <2>3 DEF SameExecution, TypeOK
  <2>5. /\ order[c] = << >> /\ attempts[c] = {} /\ first[c] = None /\ pending[c] = {}
        /\ reply[c].kind = "none"
    BY <2>3 DEF Execution, PhaseKept, Unplanned, Kept, PlanKept
  <2>6. /\ order'[c] = o /\ dispatched'[c] = {o[1]} /\ phase'[c] = "sequential"
        /\ probe'[c][o[1]] = "waiting"
    BY <2>1, <2>2, <2>3 DEF TypeOK
  <2>7. Reached(c, 1)'
    BY <2>3, <2>5, <2>6 DEF Reached
  <2>8. Execution(c)'
    BY <2>2, <2>3, <2>5, <2>6, <2>7
       DEF Execution, Unplanned, LoopKept, RaceKept, PhaseKept, Looping, Racing
  <2> QED
    BY <2>4, <2>8, ExecutionFrom
<1>5. ASSUME NEW c \in Clients, StartRace(c) PROVE Goal
  <2>1. PICK o \in Planning(c, TRUE) :
          /\ order' = [order EXCEPT ![c] = o]
          /\ probe' = [probe EXCEPT ![c] =
                [p \in Providers |-> IF p \in Planned(o) THEN "planned" ELSE "none"]]
          /\ pending' = [pending EXCEPT ![c] = Planned(o)]
    BY <1>5 DEF StartRace
  <2>2. /\ o \in Seq(Providers) /\ o # << >> /\ Planned(o) \subseteq Providers
        /\ Concurrent(ask[c].policy)
    BY <1>5, <2>1, PlanningType, RacePlan DEF StartRace
  <2>3. /\ phase' = [phase EXCEPT ![c] = "racing"] /\ phase[c] = "queued"
        /\ UNCHANGED <<ask, fate, dispatched, attempts, first, reply>>
    BY <1>5 DEF StartRace, result
  <2>4. \A e \in Clients : e # c => SameExecution(e)
    BY <2>1, <2>3 DEF SameExecution, TypeOK
  <2>5. /\ order[c] = << >> /\ attempts[c] = {} /\ first[c] = None
        /\ dispatched[c] = {} /\ reply[c].kind = "none"
    BY <2>3 DEF Execution, PhaseKept, Unplanned
  <2>6. /\ order'[c] = o /\ pending'[c] = Planned(o) /\ phase'[c] = "racing"
        /\ \A p \in Planned(o) : probe'[c][p] = "planned"
    BY <2>1, <2>2, <2>3 DEF TypeOK
  <2>7. Returned(c)' = {}
    BY <2>6 DEF Returned
  <2>8. RaceKept(c)'
    BY <2>3, <2>5, <2>6, <2>7 DEF RaceKept
  <2>9. Execution(c)'
    BY <2>2, <2>3, <2>5, <2>6, <2>8
       DEF Execution, Unplanned, LoopKept, PhaseKept, Looping
  <2> QED
    BY <2>4, <2>9, ExecutionFrom
<1>6. ASSUME NEW c \in Clients, NEW p \in Providers, LaunchTask(c, p) PROVE Goal
  <2>1. /\ probe[c][p] = "planned" /\ probe' = [probe EXCEPT ![c][p] = "waiting"]
        /\ dispatched' = [dispatched EXCEPT ![c] = @ \cup {p}]
        /\ UNCHANGED <<ask, phase, order, fate, pending, attempts, first, reply>>
    BY <1>6 DEF LaunchTask, MarkDispatched, race, result
  <2>2. phase[c] = "racing"
    BY <1>6, ScheduledType, HandleIs DEF LaunchTask, Head1, InPlace
  <2>3. \A e \in Clients : e # c => SameExecution(e)
    BY <2>1 DEF SameExecution, TypeOK
  <2>4. /\ Racing(c) /\ RaceKept(c) /\ PhaseKept(c)
        /\ p \in Planned(order[c]) /\ p \in pending[c]
    BY <2>1, <2>2, PhaseKind, ProbeWhere DEF Execution
  <2>5. /\ \A q \in Providers : probe'[c][q] = IF q = p THEN "waiting" ELSE probe[c][q]
        /\ dispatched'[c] = dispatched[c] \cup {p}
    BY <2>1 DEF TypeOK
  <2>6. /\ Returned(c)' = Returned(c) /\ Returned(c) \subseteq Planned(order[c])
        /\ p \notin Returned(c) /\ Planned(order[c])' = Planned(order[c])
        /\ Planned(order[c]) \subseteq Providers
    BY <2>1, <2>4 DEF Returned, Planned, TypeOK
  <2>7. {Settled(c, q) : q \in Returned(c)}' = {Settled(c, q) : q \in Returned(c)}
    <3>1. \A q \in Returned(c) : Settled(c, q)' = Settled(c, q)
      BY <2>1, <2>5, <2>6, AttemptKept
    <3> QED
      BY <2>6, <3>1
  <2>8. RaceKept(c)'
    <3>1. dispatched'[c] = {q \in Planned(order[c]) : probe'[c][q] # "planned"}
      BY <2>2, <2>4, <2>5, <2>6 DEF RaceKept
    <3>2. \A q \in pending[c] : probe'[c][q] \in {"planned", "waiting", "arrived", "done"}
      BY <2>2, <2>4, <2>5 DEF RaceKept, TypeOK
    <3>3. \A q \in Returned(c) : probe'[c][q] = "done" /\ fate[c][q] # "accepted"
      BY <2>2, <2>4, <2>5, <2>6 DEF RaceKept
    <3>4. first[c] # None => /\ first[c] \in Planned(order[c])
                             /\ probe'[c][first[c]] = "done" /\ fate[c][first[c]] = "accepted"
      BY <2>1, <2>4, <2>5, <2>6 DEF RaceKept
    <3>5. attempts[c] = {Settled(c, q) : q \in Returned(c)}
      BY <2>2, <2>4 DEF RaceKept
    <3> QED
      BY <2>1, <2>2, <2>6, <2>7, <3>1, <3>2, <3>3, <3>4, <3>5 DEF RaceKept
  <2>9. Execution(c)'
    BY <2>1, <2>4, <2>8, RaceFrom DEF PhaseKept
  <2> QED
    BY <2>3, <2>9, ExecutionFrom
<1>7. ASSUME NEW c \in Clients, NEW p \in Providers, Deliver(c, p) PROVE Goal
  <2>1. /\ probe[c][p] = "waiting" /\ probe' = [probe EXCEPT ![c][p] = "arrived"]
        /\ \E outcome \in Outcomes : fate' = [fate EXCEPT ![c][p] = outcome]
        /\ UNCHANGED <<ask, phase, order, dispatched, pending, attempts, first, reply>>
    BY <1>7 DEF Deliver, race, result
  <2>2. \A e \in Clients : e # c => SameExecution(e)
    BY <2>1 DEF SameExecution, TypeOK
  <2>3. /\ \A q \in Providers : probe'[c][q] = IF q = p THEN "arrived" ELSE probe[c][q]
        /\ \A q \in Providers : q # p => fate'[c][q] = fate[c][q]
    BY <2>1 DEF TypeOK
  <2>4. /\ p \in Planned(order[c]) /\ order[c] # << >> /\ Planned(order[c]) \subseteq Providers
        /\ Planned(order[c])' = Planned(order[c])
    BY <2>1, ProbeWhere DEF Planned, TypeOK
  <2>5. CASE Looping(c)
    <3>1. /\ phase[c] = "sequential" /\ LoopKept(c) /\ PhaseKept(c)
          /\ order[c] \in Seq(Providers)
      BY <2>1, <2>5, ProbeWhere, PhaseKind DEF Execution, LoopKept, TypeOK
    <3>2. PICK n \in DOMAIN order[c] : Reached(c, n)
      <4>1. LoopKept(c)
        BY <3>1
      <4> QED
        BY <2>5, <4>1 DEF LoopKept
    <3>3. p = order[c][n]
      <4>1. PICK i \in DOMAIN order[c] : p = order[c][i]
        BY <2>4 DEF Planned
      <4> QED
        BY <2>1, <2>5, <3>1, <3>2, <4>1, LoopProbes
    <3>4. \A i \in 1..(n - 1) : order[c][i] # p /\ order[c][i] \in Providers
      BY <3>1, <3>3 DEF Kept, PlanKept
    <3>5. {Settled(c, q) : q \in dispatched[c] \ {order[c][n]}}'
            = {Settled(c, q) : q \in dispatched[c] \ {order[c][n]}}
      <4>1. dispatched[c] \subseteq Planned(order[c])
        BY <3>1, <3>2 DEF Reached, Planned
      <4>2. \A q \in dispatched[c] \ {p} : Settled(c, q)' = Settled(c, q)
        BY <2>1, <2>3, <2>4, <4>1, AttemptKept
      <4> QED
        BY <2>1, <3>3, <4>2
    <3>6. Reached(c, n)'
      <4>1. \A i \in 1..(n - 1) :
              probe'[c][order[c][i]] = "done" /\ fate'[c][order[c][i]] = "unacceptable"
        BY <2>3, <3>2, <3>4 DEF Reached
      <4>2. /\ probe'[c][order[c][n]] = "arrived"
            /\ attempts[c] = {Settled(c, q) : q \in dispatched[c] \ {order[c][n]}}
            /\ dispatched[c] = {order[c][i] : i \in 1..n}
        BY <2>3, <3>1, <3>2, <3>3 DEF Reached
      <4>3. phase'[c] = "sequential" /\ order'[c] = order[c] /\ dispatched'[c] = dispatched[c]
            /\ attempts'[c] = attempts[c]
        BY <2>1, <3>1
      <4> QED
        BY <3>5, <4>1, <4>2, <4>3 DEF Reached
    <3>7. LoopKept(c)'
      BY <2>1, <2>5, <3>1, <3>6 DEF LoopKept
    <3>8. Execution(c)'
      BY <2>1, <2>5, <3>1, <3>7, SequenceFrom DEF PhaseKept
    <3> QED
      BY <2>2, <3>8, ExecutionFrom
  <2>6. CASE Racing(c)
    <3>1. phase[c] = "racing" /\ RaceKept(c) /\ PhaseKept(c) /\ p \in pending[c]
      BY <2>1, <2>6, ProbeWhere DEF Execution
    <3>2. /\ Returned(c)' = Returned(c) /\ p \notin Returned(c)
          /\ Returned(c) \subseteq Planned(order[c])
      BY <2>1, <3>1 DEF Returned, Planned
    <3>3. {Settled(c, q) : q \in Returned(c)}' = {Settled(c, q) : q \in Returned(c)}
      <4>1. \A q \in Returned(c) : Settled(c, q)' = Settled(c, q)
        BY <2>1, <2>3, <2>4, <3>2, AttemptKept
      <4> QED
        BY <3>2, <4>1
    <3>4. dispatched'[c] = {q \in Planned(order[c]) : probe'[c][q] # "planned"}
      BY <2>1, <2>3, <2>4, <2>6, <3>1 DEF RaceKept
    <3>5. \A q \in pending[c] : probe'[c][q] \in {"planned", "waiting", "arrived", "done"}
      BY <2>3, <2>6, <3>1 DEF RaceKept, TypeOK
    <3>6. \A q \in Returned(c) : probe'[c][q] = "done" /\ fate'[c][q] # "accepted"
      BY <2>3, <2>4, <2>6, <3>1, <3>2 DEF RaceKept
    <3>7. first[c] # None => /\ first[c] \in Planned(order[c])
                             /\ probe'[c][first[c]] = "done" /\ fate'[c][first[c]] = "accepted"
      <4>1. first[c] # None => first[c] \in Planned(order[c]) /\ first[c] # p
                /\ probe[c][first[c]] = "done" /\ fate[c][first[c]] = "accepted"
        BY <2>1, <2>6, <3>1 DEF RaceKept
      <4> QED
        BY <2>3, <2>4, <4>1
    <3>8. attempts[c] = {Settled(c, q) : q \in Returned(c)}
      BY <2>6, <3>1 DEF RaceKept
    <3>9. RaceKept(c)'
      BY <2>1, <2>4, <3>1, <3>2, <3>3, <3>4, <3>5, <3>6, <3>7, <3>8 DEF RaceKept
    <3>10. Execution(c)'
      BY <2>1, <2>6, <3>1, <3>9, RaceFrom DEF PhaseKept
    <3> QED
      BY <2>2, <3>10, ExecutionFrom
  <2> QED
    BY <2>4, <2>5, <2>6 DEF Looping, Racing
<1>8. ASSUME NEW c \in Clients, NEW p \in Providers, EndTask(c, p) PROVE Goal
  <2>1. /\ probe[c][p] = "arrived" /\ probe' = [probe EXCEPT ![c][p] = "done"]
        /\ first' = [first EXCEPT ![c] =
                       IF @ = None /\ fate[c][p] = "accepted" THEN p ELSE @]
        /\ phase[c] # "sequential"
        /\ UNCHANGED <<ask, phase, order, fate, dispatched, pending, attempts, reply>>
    BY <1>8 DEF EndTask, result
  <2>2. \A e \in Clients : e # c => SameExecution(e)
    BY <2>1 DEF SameExecution, TypeOK
  <2>3. phase[c] = "racing"
    BY <2>1, ProbeWhere
  <2>4. /\ Racing(c) /\ RaceKept(c) /\ PhaseKept(c)
        /\ p \in Planned(order[c]) /\ p \in pending[c] /\ Planned(order[c]) \subseteq Providers
        /\ Planned(order[c])' = Planned(order[c])
    BY <2>1, <2>3, PhaseKind, ProbeWhere DEF Execution, Planned, TypeOK
  <2>5. /\ \A q \in Providers : probe'[c][q] = IF q = p THEN "done" ELSE probe[c][q]
        /\ first'[c] = IF first[c] = None /\ fate[c][p] = "accepted" THEN p ELSE first[c]
    BY <2>1 DEF TypeOK
  <2>6. /\ Returned(c)' = Returned(c) /\ Returned(c) \subseteq Planned(order[c])
        /\ p \notin Returned(c)
    BY <2>1, <2>4 DEF Returned, Planned
  <2>7. {Settled(c, q) : q \in Returned(c)}' = {Settled(c, q) : q \in Returned(c)}
    <3>1. \A q \in Returned(c) : Settled(c, q)' = Settled(c, q)
      BY <2>1, <2>6, AttemptKept
    <3> QED
      BY <2>6, <3>1
  <2>8. RaceKept(c)'
    <3>1. dispatched'[c] = {q \in Planned(order[c]) : probe'[c][q] # "planned"}
      BY <2>1, <2>3, <2>4, <2>5 DEF RaceKept
    <3>2. \A q \in pending[c] : probe'[c][q] \in {"planned", "waiting", "arrived", "done"}
      BY <2>3, <2>4, <2>5 DEF RaceKept, TypeOK
    <3>3. \A q \in Returned(c) : probe'[c][q] = "done" /\ fate[c][q] # "accepted"
      BY <2>3, <2>4, <2>5, <2>6 DEF RaceKept
    <3>4. first'[c] # None => /\ first'[c] \in Planned(order[c])
                              /\ probe'[c][first'[c]] = "done" /\ fate[c][first'[c]] = "accepted"
      BY <2>4, <2>5 DEF RaceKept
    <3>5. attempts[c] = {Settled(c, q) : q \in Returned(c)}
      BY <2>3, <2>4 DEF RaceKept
    <3> QED
      BY <2>1, <2>3, <2>4, <2>6, <2>7, <3>1, <3>2, <3>3, <3>4, <3>5 DEF RaceKept
  <2>9. Execution(c)'
    BY <2>1, <2>4, <2>8, RaceFrom DEF PhaseKept
  <2> QED
    BY <2>2, <2>9, ExecutionFrom
<1>9. ASSUME NEW c \in Clients, NEW p \in Providers, CancelStep(c, p) PROVE Goal
  <2>1. /\ probe[c][p] = "cancelling" /\ probe' = [probe EXCEPT ![c][p] = "canceled"]
        /\ UNCHANGED <<ask, phase, order, fate, dispatched, pending, attempts, reply, first>>
    BY <1>9 DEF CancelStep, race, result
  <2>2. \A e \in Clients : e # c => SameExecution(e)
    BY <2>1 DEF SameExecution, TypeOK
  <2>3. phase[c] = "draining" /\ p \in pending[c]
    BY <2>1, ProbeWhere
  <2>4. /\ Racing(c) /\ RaceKept(c) /\ PhaseKept(c) /\ Planned(order[c]) \subseteq Providers
        /\ Planned(order[c])' = Planned(order[c])
    BY <2>1, <2>3, PhaseKind DEF Execution, Planned, TypeOK
  <2>5. \A q \in Providers : probe'[c][q] = IF q = p THEN "canceled" ELSE probe[c][q]
    BY <2>1 DEF TypeOK
  <2>6. /\ Returned(c)' = Returned(c) /\ Returned(c) \subseteq Planned(order[c])
        /\ p \notin Returned(c)
    BY <2>1, <2>3 DEF Returned, Planned
  <2>7. {Settled(c, q) : q \in Returned(c)}' = {Settled(c, q) : q \in Returned(c)}
    <3>1. \A q \in Returned(c) : Settled(c, q)' = Settled(c, q)
      BY <2>1, <2>6, AttemptKept
    <3> QED
      BY <2>6, <3>1
  <2>8. RaceKept(c)'
    <3>1. \A q \in Returned(c) : probe'[c][q] = "done"
      BY <2>4, <2>5, <2>6 DEF RaceKept
    <3>2. \A q \in pending[c] : probe'[c][q] \in {"cancelling", "canceled"}
      BY <2>3, <2>4, <2>5 DEF RaceKept, TypeOK
    <3>3. first[c] # None => /\ first[c] \in Planned(order[c])
                             /\ probe'[c][first[c]] = "done" /\ fate[c][first[c]] = "accepted"
      BY <2>1, <2>4, <2>5 DEF RaceKept
    <3>4. /\ attempts[c] = {Settled(c, q) : q \in Returned(c)}
          /\ dispatched[c] = Planned(order[c])
          /\ \E q \in Returned(c) : fate[c][q] = "accepted"
      BY <2>3, <2>4 DEF RaceKept
    <3> QED
      BY <2>1, <2>3, <2>4, <2>6, <2>7, <3>1, <3>2, <3>3, <3>4 DEF RaceKept
  <2>9. Execution(c)'
    BY <2>1, <2>4, <2>8, RaceFrom DEF PhaseKept
  <2> QED
    BY <2>2, <2>9, ExecutionFrom
<1>10. ASSUME NEW c \in Clients, NEW p \in Providers, Completed(c, p) PROVE Goal
  <2>1. \A e \in Clients : SameExecution(e)
    BY <1>10 DEF Completed, result, SameExecution
  <2> QED
    BY <2>1, ExecutionSame
<1>11. ASSUME NEW c \in Clients, WakeLosing(c) PROVE Goal
  <2>1. /\ phase[c] = "racing" /\ Acceptable(c) = {}
        /\ pending' = [pending EXCEPT ![c] = Left(c)]
        /\ UNCHANGED <<ask, order, probe, fate, dispatched, first>>
    BY <1>11 DEF WakeLosing
  <2>2. IF Left(c) = {}
        THEN Finish(c, WithFinished(c), None)
        ELSE /\ attempts' = [attempts EXCEPT ![c] = WithFinished(c)]
             /\ UNCHANGED <<phase, payload, reply>>
    BY <1>11 DEF WakeLosing
  <2>3. Racing(c) /\ RaceKept(c) /\ PhaseKept(c)
    BY <2>1, PhaseKind DEF Execution
  <2> DEFINE R == Planned(order[c]) \ Left(c)
  <2>4. /\ WithFinished(c) = {Settled(c, p) : p \in R}
        /\ \A p \in R : probe[c][p] = "done" /\ fate[c][p] # "accepted"
        /\ Left(c) \subseteq pending[c]
    BY <2>1, <2>3, WithFinishedIs
  <2>5. WithFinished(c) \in SUBSET Attempts
    BY AttemptsOfType
  <2>6. /\ pending'[c] = Left(c) /\ Returned(c)' = R /\ R \subseteq Planned(order[c])
        /\ Planned(order[c])' = Planned(order[c])
    BY <2>1 DEF Returned, Planned, TypeOK
  <2> HIDE DEF R
  <2>7. {Settled(c, q) : q \in Returned(c)}' = {Settled(c, q) : q \in R}
    <3>1. \A q \in R : Settled(c, q)' = Settled(c, q)
      BY <2>1, <2>6, AttemptKept
    <3> QED
      BY <2>6, <3>1
  <2>8. CASE Left(c) = {}
    <3>1. Finish(c, WithFinished(c), None)
      BY <2>2, <2>8
    <3>2. /\ attempts' = [attempts EXCEPT ![c] = WithFinished(c)]
          /\ phase' = [phase EXCEPT ![c] = "answered"]
          /\ \A e \in Clients : e # c => reply'[e] = reply[e]
          /\ AcceptedIn(WithFinished(c)) = {} => reply'[c].kind = "noAcceptableResult"
      BY <2>5, <3>1, FinishEffect
    <3>3. AcceptedIn(WithFinished(c)) = {}
      <4>1. /\ \A a \in WithFinished(c) :
                 a.outcome = "canceled" \/ \E p \in R : a = Settled(c, p)
            /\ \A p \in R : Settled(c, p) \in WithFinished(c)
        BY <2>4
      <4> QED
        BY <2>4, <4>1, AcceptedSettled
    <3>4. \A e \in Clients : e # c => SameExecution(e)
      BY <2>1, <3>2 DEF SameExecution, TypeOK
    <3>5. /\ phase'[c] = "answered" /\ reply'[c].kind = "noAcceptableResult"
          /\ attempts'[c] = {Settled(c, p) : p \in R}
      BY <2>4, <3>2, <3>3 DEF TypeOK
    <3>6. dispatched[c] = Planned(order[c])
      <4>1. R = Planned(order[c])
        BY <2>8 DEF R
      <4> QED
        BY <2>1, <2>3, <2>4, <4>1 DEF RaceKept
    <3>7. {Spared(c, p) : p \in pending[c]}' = {}
      BY <2>6, <2>8
    <3>8. first[c] # None => /\ first[c] \in Planned(order[c])
                             /\ probe[c][first[c]] = "done" /\ fate[c][first[c]] = "accepted"
      BY <2>3 DEF RaceKept
    <3>9. RaceKept(c)'
      BY <2>1, <2>4, <2>6, <2>7, <2>8, <3>5, <3>6, <3>7, <3>8 DEF RaceKept
    <3>10. Execution(c)'
      BY <2>1, <2>3, <3>5, <3>9, RaceFrom DEF PhaseKept
    <3> QED
      BY <3>4, <3>10, ExecutionFrom
  <2>9. CASE Left(c) # {}
    <3>1. /\ attempts' = [attempts EXCEPT ![c] = WithFinished(c)]
          /\ phase' = phase /\ reply' = reply
      BY <2>2, <2>9
    <3>2. \A e \in Clients : e # c => SameExecution(e)
      BY <2>1, <3>1 DEF SameExecution, TypeOK
    <3>3. attempts'[c] = {Settled(c, p) : p \in R}
      BY <2>4, <3>1 DEF TypeOK
    <3>4. /\ dispatched[c] = {p \in Planned(order[c]) : probe[c][p] # "planned"}
          /\ \A p \in pending[c] : probe[c][p] \in {"planned", "waiting", "arrived", "done"}
          /\ first[c] # None =>
               /\ first[c] \in Planned(order[c])
               /\ probe[c][first[c]] = "done" /\ fate[c][first[c]] = "accepted"
      BY <2>1, <2>3 DEF RaceKept
    <3>5. RaceKept(c)'
      BY <2>1, <2>4, <2>6, <2>7, <3>1, <3>3, <3>4 DEF RaceKept
    <3>6. Execution(c)'
      BY <2>1, <2>3, <3>1, <3>5, RaceFrom DEF PhaseKept
    <3> QED
      BY <3>2, <3>6, ExecutionFrom
  <2> QED
    BY <2>8, <2>9
<1>12. ASSUME NEW c \in Clients, WakeWinning(c) PROVE Goal
  <2>1. /\ phase[c] = "racing" /\ Head1("wake", c, None)
        /\ pending' = [pending EXCEPT ![c] = Left(c)]
        /\ probe' = [probe EXCEPT ![c] =
              [p \in Providers |-> IF p \in Left(c) THEN "cancelling" ELSE @[p]]]
        /\ UNCHANGED <<ask, order, fate, dispatched, first>>
    BY <1>12 DEF WakeWinning
  <2>2. PICK document \in Acceptable(c) :
          IF Left(c) = {}
          THEN Finish(c, WithFinished(c), document)
          ELSE /\ attempts' = [attempts EXCEPT ![c] = WithFinished(c)]
               /\ phase' = [phase EXCEPT ![c] = "draining"]
               /\ UNCHANGED reply
    BY <1>12 DEF WakeWinning
  <2>3. Racing(c) /\ RaceKept(c) /\ PhaseKept(c)
    BY <2>1, PhaseKind DEF Execution
  <2> DEFINE R == Planned(order[c]) \ Left(c)
  <2>4. /\ WithFinished(c) = {Settled(c, p) : p \in R}
        /\ \A p \in R : probe[c][p] = "done"
        /\ Left(c) \subseteq pending[c] /\ \A p \in Left(c) : probe[c][p] # "done"
        /\ document \in R /\ fate[c][document] = "accepted"
    BY <2>1, <2>2, <2>3, WithFinishedIs DEF Acceptable
  <2>5. WithFinished(c) \in SUBSET Attempts
    BY AttemptsOfType
  <2>6. /\ pending'[c] = Left(c) /\ Returned(c)' = R /\ R \subseteq Planned(order[c])
        /\ Planned(order[c])' = Planned(order[c]) /\ Planned(order[c]) \subseteq Providers
        /\ R \cap Left(c) = {} /\ Left(c) \subseteq Providers
    BY <2>1, <2>4 DEF Returned, Planned, TypeOK
  <2> HIDE DEF R
  <2>7. {Settled(c, q) : q \in Returned(c)}' = {Settled(c, q) : q \in R}
    <3>1. \A q \in R : Settled(c, q)' = Settled(c, q)
      BY <2>1, <2>6, AttemptKept
    <3> QED
      BY <2>6, <3>1
  <2>8. dispatched[c] = Planned(order[c])
    <3>1. \A p \in Planned(order[c]) : probe[c][p] # "planned"
      BY <2>1, <2>6, NothingPlanned
    <3> QED
      BY <2>1, <2>3, <3>1 DEF RaceKept
  <2>9. \A p \in Providers :
          probe'[c][p] = IF p \in Left(c) THEN "cancelling" ELSE probe[c][p]
    BY <2>1 DEF TypeOK
  <2>10. /\ \A p \in R : probe'[c][p] = "done"
         /\ \A p \in Left(c) : probe'[c][p] = "cancelling"
    BY <2>4, <2>6, <2>9
  <2>11. first[c] # None => /\ first[c] \in Planned(order[c])
                            /\ probe'[c][first[c]] = "done" /\ fate[c][first[c]] = "accepted"
    <3>1. first[c] # None => /\ first[c] \in Planned(order[c])
                             /\ probe[c][first[c]] = "done" /\ fate[c][first[c]] = "accepted"
      BY <2>3 DEF RaceKept
    <3> QED
      BY <2>4, <2>6, <2>9, <3>1
  <2>12. CASE Left(c) = {}
    <3>1. Finish(c, WithFinished(c), document)
      BY <2>2, <2>12
    <3>2. /\ attempts' = [attempts EXCEPT ![c] = WithFinished(c)]
          /\ phase' = [phase EXCEPT ![c] = "answered"]
          /\ \A e \in Clients : e # c => reply'[e] = reply[e]
          /\ AcceptedIn(WithFinished(c)) # {} => reply'[c].kind = "ok"
      BY <2>5, <3>1, FinishEffect
    <3>3. AcceptedIn(WithFinished(c)) # {}
      <4>1. /\ \A a \in WithFinished(c) :
                 a.outcome = "canceled" \/ \E p \in R : a = Settled(c, p)
            /\ \A p \in R : Settled(c, p) \in WithFinished(c)
        BY <2>4
      <4>2. \E p \in R : fate[c][p] = "accepted"
        BY <2>4
      <4> QED
        BY <4>1, <4>2, AcceptedSettled
    <3>4. \A e \in Clients : e # c => SameExecution(e)
      BY <2>1, <3>2 DEF SameExecution, TypeOK
    <3>5. /\ phase'[c] = "answered" /\ reply'[c].kind = "ok"
          /\ attempts'[c] = {Settled(c, p) : p \in R}
      BY <2>4, <3>2, <3>3 DEF TypeOK
    <3>6. {Spared(c, p) : p \in pending[c]}' = {}
      BY <2>6, <2>12
    <3>7. \E p \in R : fate[c][p] = "accepted"
      BY <2>4
    <3>8. RaceKept(c)'
      BY <2>1, <2>6, <2>7, <2>8, <2>10, <2>11, <2>12, <3>5, <3>6, <3>7 DEF RaceKept
    <3>9. Execution(c)'
      BY <2>1, <2>3, <3>5, <3>8, RaceFrom DEF PhaseKept
    <3> QED
      BY <3>4, <3>9, ExecutionFrom
  <2>13. CASE Left(c) # {}
    <3>1. /\ attempts' = [attempts EXCEPT ![c] = WithFinished(c)]
          /\ phase' = [phase EXCEPT ![c] = "draining"] /\ reply' = reply
      BY <2>2, <2>13
    <3>2. \A e \in Clients : e # c => SameExecution(e)
      BY <2>1, <3>1 DEF SameExecution, TypeOK
    <3>3. attempts'[c] = {Settled(c, p) : p \in R} /\ phase'[c] = "draining"
      BY <2>4, <3>1 DEF TypeOK
    <3>4. \E p \in R : fate[c][p] = "accepted"
      BY <2>4
    <3>5. RaceKept(c)'
      BY <2>1, <2>6, <2>7, <2>8, <2>10, <2>11, <3>3, <3>4 DEF RaceKept
    <3>6. Execution(c)'
      BY <2>1, <2>3, <3>1, <3>3, <3>5, RaceFrom DEF PhaseKept
    <3> QED
      BY <3>2, <3>6, ExecutionFrom
  <2> QED
    BY <2>12, <2>13
<1>13. ASSUME NEW c \in Clients, Drain(c) PROVE Goal
  <2> DEFINE canceled == {Attempt(c, p, "canceled") : p \in pending[c]}
  <2>1. /\ phase[c] = "draining"
        /\ UNCHANGED <<ask, order, probe, fate, dispatched, pending, first>>
        /\ IF Unfinished(c) = {}
           THEN Finish(c, attempts[c] \cup canceled, payload[c])
           ELSE UNCHANGED <<phase, attempts, reply>>
    BY <1>13 DEF Drain, result
  <2>2. canceled = {Spared(c, p) : p \in pending[c]}
    BY DEF Spared
  <2>3. canceled \in SUBSET Attempts
    BY AttemptsOfType
  <2> HIDE DEF canceled
  <2>4. /\ Racing(c) /\ RaceKept(c) /\ PhaseKept(c) /\ Planned(order[c])' = Planned(order[c])
        /\ Returned(c)' = Returned(c) /\ Returned(c) \subseteq Planned(order[c])
        /\ pending[c] \subseteq Planned(order[c])
    BY <2>1, PhaseKind DEF Execution, Planned, Returned, Kept, PlanKept
  <2>5. CASE Unfinished(c) # {}
    <3>1. \A e \in Clients : SameExecution(e)
      BY <2>1, <2>5 DEF SameExecution
    <3> QED
      BY <3>1, ExecutionSame
  <2>6. CASE Unfinished(c) = {}
    <3> DEFINE trace == attempts[c] \cup canceled
    <3>1. trace \in SUBSET Attempts /\ Finish(c, trace, payload[c])
      BY <2>1, <2>3, <2>6 DEF TypeOK
    <3>2. /\ attempts[c] = {Settled(c, p) : p \in Returned(c)}
          /\ dispatched[c] = Planned(order[c])
          /\ \A p \in pending[c] : probe[c][p] \in {"cancelling", "canceled"}
          /\ \A p \in Returned(c) : probe[c][p] = "done"
          /\ \E p \in Returned(c) : fate[c][p] = "accepted"
          /\ first[c] # None =>
               /\ first[c] \in Planned(order[c])
               /\ probe[c][first[c]] = "done" /\ fate[c][first[c]] = "accepted"
      BY <2>1, <2>4 DEF RaceKept
    <3>3. trace = {Settled(c, p) : p \in Returned(c)} \cup {Spared(c, p) : p \in pending[c]}
      BY <2>2, <3>2
    <3> HIDE DEF trace
    <3>4. /\ attempts' = [attempts EXCEPT ![c] = trace]
          /\ phase' = [phase EXCEPT ![c] = "answered"]
          /\ \A e \in Clients : e # c => reply'[e] = reply[e]
          /\ AcceptedIn(trace) # {} => reply'[c].kind = "ok"
      BY <3>1, FinishEffect
    <3>5. AcceptedIn(trace) # {}
      <4>1. /\ \A a \in trace : \/ \E p \in Returned(c) : a = Settled(c, p)
                              \/ \E p \in pending[c] : a = Spared(c, p)
            /\ \A p \in Returned(c) : Settled(c, p) \in trace
        BY <3>3
      <4>2. \A a \in trace : a.outcome = "canceled" \/ \E p \in Returned(c) : a = Settled(c, p)
        BY <4>1, SettledIs
      <4> QED
        BY <3>2, <4>1, <4>2, AcceptedSettled
    <3>6. \A e \in Clients : e # c => SameExecution(e)
      BY <2>1, <3>4 DEF SameExecution, TypeOK
    <3>7. /\ phase'[c] = "answered" /\ reply'[c].kind = "ok"
          /\ attempts'[c] = {Settled(c, p) : p \in Returned(c)}
                              \cup {Spared(c, p) : p \in pending[c]}
      BY <3>3, <3>4, <3>5 DEF TypeOK
    <3>8. \A p \in pending[c] : probe[c][p] = "canceled"
      BY <2>6, <3>2 DEF Unfinished
    <3>9. {Settled(c, p) : p \in Returned(c)}' = {Settled(c, p) : p \in Returned(c)}
      <4>1. \A p \in Returned(c) : Settled(c, p)' = Settled(c, p)
        BY <2>1, <2>4, AttemptKept
      <4> QED
        BY <2>4, <4>1
    <3>10. {Spared(c, p) : p \in pending[c]}' = {Spared(c, p) : p \in pending[c]}
      <4>1. \A p \in pending[c] : Spared(c, p)' = Spared(c, p)
        BY <2>1, <2>4, AttemptKept
      <4> QED
        BY <2>1, <4>1
    <3>11. RaceKept(c)'
      BY <2>1, <2>4, <3>2, <3>7, <3>8, <3>9, <3>10 DEF RaceKept
    <3>12. Execution(c)'
      BY <2>1, <2>4, <3>7, <3>11, RaceFrom DEF PhaseKept
    <3> QED
      BY <3>6, <3>12, ExecutionFrom
  <2> QED
    BY <2>5, <2>6
<1>14. ASSUME NEW c \in Clients, NEW p \in Providers, SequentialStep(c, p) PROVE Goal
  <2>1. /\ phase[c] = "sequential" /\ probe[c][p] = "arrived" /\ fate[c][p] # "probe_error"
        /\ UNCHANGED <<ask, order, fate, pending, first>>
    BY <1>14 DEF SequentialStep, race
  <2>2. Looping(c) /\ LoopKept(c) /\ PhaseKept(c)
    BY <2>1, SequenceHead
  <2>3. PICK n \in DOMAIN order[c] :
          /\ Reached(c, n) /\ order[c][n] = p /\ Position(c, p) = n
          /\ \A i \in DOMAIN order[c] :
               /\ order[c][i] \in dispatched[c] <=> i <= n
               /\ i > n => probe[c][order[c][i]] = "planned"
          /\ dispatched[c] \subseteq Planned(order[c])
          /\ attempts[c] \cup {Attempt(c, p, fate[c][p])}
               = {Settled(c, q) : q \in dispatched[c]}
    BY <2>1, SequenceHead
  <2>4. /\ order[c] \in Seq(Providers) /\ n \in 1..Len(order[c]) /\ Len(order[c]) \in Nat
        /\ DOMAIN order[c] = 1..Len(order[c])
        /\ \A i, j \in DOMAIN order[c] : order[c][i] = order[c][j] => i = j
        /\ dispatched[c] = {order[c][i] : i \in 1..n}
        /\ \A i \in 1..(n - 1) :
             probe[c][order[c][i]] = "done" /\ fate[c][order[c][i]] = "unacceptable"
        /\ p \in dispatched[c]
    <3>1. /\ order[c] \in Seq(Providers) /\ n \in 1..Len(order[c]) /\ Len(order[c]) \in Nat
          /\ DOMAIN order[c] = 1..Len(order[c])
      BY SMTT(30) DEF TypeOK
    <3>2. /\ dispatched[c] = {order[c][i] : i \in 1..n}
          /\ \A i \in 1..(n - 1) :
               probe[c][order[c][i]] = "done" /\ fate[c][order[c][i]] = "unacceptable"
      BY <2>3 DEF Reached
    <3>3. p \in dispatched[c]
      BY <2>3, <3>1
    <3>4. \A i, j \in DOMAIN order[c] : order[c][i] = order[c][j] => i = j
      BY DEF Kept, PlanKept
    <3> QED
      BY <3>1, <3>2, <3>3, <3>4
  <2> DEFINE trace == {Settled(c, q) : q \in dispatched[c]}
             document == IF fate[c][p] = "accepted" THEN p ELSE None
  <2>5. trace \in SUBSET Attempts
    <3>1. Attempt(c, p, fate[c][p]) \in Attempts
      BY <2>1, AttemptsOfType
    <3> QED
      BY <2>3, <3>1 DEF TypeOK
  <2>6. fate[c][p] \in {"accepted", "unacceptable"}
    BY <2>1 DEF TypeOK, AllOutcomes, Kept, OutcomesKnown
  <2>7. IF SequentialEnds(c, p)
        THEN /\ probe' = [probe EXCEPT ![c] = Stopped(c, p)]
             /\ Finish(c, trace, document)
             /\ UNCHANGED dispatched
        ELSE LET q == order[c][n + 1] IN
             /\ probe' = [probe EXCEPT ![c][p] = "done", ![c][q] = "waiting"]
             /\ dispatched' = [dispatched EXCEPT ![c] = @ \cup {q}]
             /\ attempts' = [attempts EXCEPT ![c] = trace]
             /\ UNCHANGED <<phase, reply>>
    BY <1>14, <2>3 DEF SequentialStep, MarkDispatched
  <2> HIDE DEF trace, document
  <2>8. CASE SequentialEnds(c, p)
    <3>1. /\ probe' = [probe EXCEPT ![c] = Stopped(c, p)] /\ Finish(c, trace, document)
          /\ dispatched' = dispatched
      BY <2>7, <2>8
    <3>2. /\ attempts' = [attempts EXCEPT ![c] = trace]
          /\ phase' = [phase EXCEPT ![c] = "answered"]
          /\ \A e \in Clients : e # c => reply'[e] = reply[e]
          /\ AcceptedIn(trace) = {} => reply'[c].kind = "noAcceptableResult"
          /\ AcceptedIn(trace) # {} => reply'[c].kind = "ok"
      BY <2>5, <3>1, FinishEffect
    <3>3. AcceptedIn(trace) # {} <=> fate[c][p] = "accepted"
      <4>1. /\ \A a \in trace :
                 a.outcome = "canceled" \/ \E q \in dispatched[c] : a = Settled(c, q)
            /\ \A q \in dispatched[c] : Settled(c, q) \in trace
        BY DEF trace
      <4>2. AcceptedIn(trace) # {} <=> \E q \in dispatched[c] : fate[c][q] = "accepted"
        BY <4>1, AcceptedSettled
      <4>3. \A q \in dispatched[c] : q = p \/ fate[c][q] = "unacceptable"
        BY <2>3, <2>4
      <4> QED
        BY <2>4, <4>2, <4>3
    <3>4. \A e \in Clients : e # c => SameExecution(e)
      BY <2>1, <3>1, <3>2 DEF SameExecution, TypeOK
    <3>5. phase'[c] = "answered" /\ attempts'[c] = trace
      BY <3>2 DEF TypeOK
    <3>6. \A q \in Providers : probe'[c][q] = IF q = p THEN "done"
                                             ELSE IF probe[c][q] = "planned" THEN "none"
                                             ELSE probe[c][q]
      BY <3>1 DEF Stopped, TypeOK
    <3>7. /\ \A i \in 1..(n - 1) : probe'[c][order[c][i]] = "done"
          /\ probe'[c][order[c][n]] = "done"
          /\ \A i \in (n + 1)..Len(order[c]) : probe'[c][order[c][i]] = "none"
      <4>1. \A i \in DOMAIN order[c] : order[c][i] \in Providers
        BY <2>4
      <4>2. \A i \in 1..(n - 1) : i \in DOMAIN order[c] /\ probe[c][order[c][i]] = "done"
        BY <2>4
      <4>3. \A i \in (n + 1)..Len(order[c]) :
              i \in DOMAIN order[c] /\ order[c][i] # p /\ probe[c][order[c][i]] = "planned"
        BY <2>3, <2>4
      <4> QED
        BY <2>3, <3>6, <4>1, <4>2, <4>3
    <3>8. {Settled(c, q) : q \in dispatched[c]}' = {Settled(c, q) : q \in dispatched[c]}
      <4>1. \A q \in dispatched[c] : Settled(c, q)' = Settled(c, q)
        BY <2>1, <2>3, <3>1, AttemptKept
      <4> QED
        BY <3>1, <4>1
    <3>9. \/ reply'[c].kind = "ok" /\ fate[c][order[c][n]] = "accepted"
          \/ /\ reply'[c].kind = "noAcceptableResult"
             /\ fate[c][order[c][n]] = "unacceptable" /\ n = Len(order[c])
      <4>1. CASE fate[c][p] = "accepted"
        BY <2>3, <3>2, <3>3, <4>1
      <4>2. CASE fate[c][p] = "unacceptable"
        BY <2>3, <2>8, <3>2, <3>3, <4>2 DEF SequentialEnds, IsLast
      <4> QED
        BY <2>6, <4>1, <4>2
    <3>10. Reached(c, n)'
      <4>1. attempts'[c] = {Settled(c, q) : q \in dispatched[c]}'
        BY <3>5, <3>8 DEF trace
      <4> QED
        BY <2>1, <2>4, <3>1, <3>5, <3>7, <3>9, <4>1 DEF Reached
    <3>11. LoopKept(c)'
      BY <2>1, <2>2, <3>5, <3>10 DEF LoopKept
    <3>12. Execution(c)'
      BY <2>1, <2>2, <3>5, <3>11, SequenceFrom DEF PhaseKept
    <3> QED
      BY <3>4, <3>12, ExecutionFrom
  <2>9. CASE ~SequentialEnds(c, p)
    <3> DEFINE m == n + 1
               q == order[c][m]
    <3>1. /\ n # Len(order[c]) /\ fate[c][p] = "unacceptable"
      BY <2>3, <2>6, <2>9 DEF SequentialEnds, IsLast
    <3>2. m \in DOMAIN order[c] /\ m > n /\ m - 1 = n /\ m \in Nat
      BY <2>4, <3>1
    <3>3. /\ probe' = [probe EXCEPT ![c][p] = "done", ![c][q] = "waiting"]
          /\ dispatched' = [dispatched EXCEPT ![c] = @ \cup {q}]
          /\ attempts' = [attempts EXCEPT ![c] = trace]
          /\ phase' = phase /\ reply' = reply
      BY <2>7, <2>9
    <3>4. q \in Providers /\ q # p /\ q \notin dispatched[c]
      BY <2>3, <2>4, <3>2
    <3>5. q = order[c][m]
      OBVIOUS
    <3> HIDE DEF m, q
    <3>6. \A e \in Clients : e # c => SameExecution(e)
      BY <2>1, <3>3 DEF SameExecution, TypeOK
    <3>7. /\ \A r \in Providers : probe'[c][r] = IF r = q THEN "waiting"
                                                ELSE IF r = p THEN "done" ELSE probe[c][r]
          /\ dispatched'[c] = dispatched[c] \cup {q}
          /\ attempts'[c] = trace
      <4>1. probe'[c] = [probe[c] EXCEPT ![p] = "done", ![q] = "waiting"]
        BY <3>3 DEF TypeOK
      <4>2. probe[c] \in [Providers -> ProbeStates]
        BY DEF TypeOK
      <4>3. dispatched'[c] = dispatched[c] \cup {q} /\ attempts'[c] = trace
        BY <3>3 DEF TypeOK
      <4> QED
        BY <3>4, <4>1, <4>2, <4>3
    <3>8. dispatched'[c] = {order[c][i] : i \in 1..m}
      BY <2>4, <3>2, <3>5, <3>7
    <3>9. \A i \in 1..(m - 1) :
            probe'[c][order[c][i]] = "done" /\ fate[c][order[c][i]] = "unacceptable"
      <4>1. \A i \in 1..(m - 1) : i = n \/ i \in 1..(n - 1)
        BY <2>4, <3>2
      <4>2. \A i \in 1..(m - 1) :
              order[c][i] \in Providers /\ order[c][i] # q
        <5>1. \A i \in 1..(m - 1) : i \in DOMAIN order[c] /\ i # m
          BY <2>4, <3>2
        <5>2. \A i \in DOMAIN order[c] : order[c][i] \in Providers
          BY <2>4
        <5>3. \A i \in DOMAIN order[c] : order[c][i] = q => i = m
          BY <2>4, <3>2, <3>5
        <5> QED
          BY <5>1, <5>2, <5>3
      <4>3. ASSUME NEW i \in 1..(m - 1)
            PROVE  /\ probe'[c][order[c][i]] = "done"
                   /\ fate[c][order[c][i]] = "unacceptable"
        <5>1. CASE i = n
          BY <2>3, <3>1, <3>7, <4>2, <5>1
        <5>2. CASE i \in 1..(n - 1)
          BY <2>4, <3>7, <4>2, <5>2
        <5> QED
          BY <4>1, <5>1, <5>2
      <4> QED
        BY <4>3
    <3>10. attempts'[c] = {Settled(c, r) : r \in dispatched[c] \ {order[c][m]}}'
      <4>1. \A r \in dispatched[c] : Settled(c, r)' = Settled(c, r)
        BY <2>1, <2>3, <3>4, <3>7, AttemptKept
      <4>2. dispatched'[c] \ {order'[c][m]} = dispatched[c]
        BY <2>1, <3>4, <3>5, <3>7
      <4>3. attempts'[c] = {Settled(c, r) : r \in dispatched[c]}
        BY <3>7 DEF trace
      <4>4. {Settled(c, r)' : r \in dispatched'[c] \ {order'[c][m]}}
              = {Settled(c, r) : r \in dispatched[c]}
        BY <4>1, <4>2
      <4> QED
        BY <4>3, <4>4 DEF m
    <3>11. Reached(c, m)'
      <4>1. probe'[c][order[c][m]] = "waiting"
        BY <3>4, <3>5, <3>7
      <4> QED
        BY <2>1, <3>3, <3>8, <3>9, <3>10, <4>1 DEF Reached
    <3>12. LoopKept(c)'
      BY <2>1, <2>2, <3>2, <3>3, <3>11 DEF LoopKept
    <3>13. Execution(c)'
      BY <2>1, <2>2, <3>3, <3>12, SequenceFrom DEF PhaseKept
    <3> QED
      BY <3>6, <3>13, ExecutionFrom
  <2> QED
    BY <2>8, <2>9
<1>15. ASSUME NEW c \in Clients, NEW p \in Providers, SequentialCrash(c, p) PROVE Goal
  <2>1. /\ phase[c] = "sequential" /\ probe[c][p] = "arrived"
        /\ probe' = [probe EXCEPT ![c] = Stopped(c, p)]
        /\ attempts' = [attempts EXCEPT ![c] = {}]
        /\ phase' = [phase EXCEPT ![c] = "answered"]
        /\ reply' = [reply EXCEPT ![c] =
                       [kind |-> "crashed", returned |-> None, document |-> None]]
        /\ UNCHANGED <<ask, order, fate, dispatched, pending, first>>
    BY <1>15 DEF SequentialCrash, race, Reply
  <2>2. Looping(c) /\ LoopKept(c) /\ PhaseKept(c)
    BY <2>1, SequenceHead
  <2>3. PICK n \in DOMAIN order[c] :
          /\ Reached(c, n) /\ order[c][n] = p
          /\ \A i \in DOMAIN order[c] : i > n => probe[c][order[c][i]] = "planned"
    BY <2>1, SequenceHead
  <2>4. /\ order[c] \in Seq(Providers) /\ n \in 1..Len(order[c]) /\ Len(order[c]) \in Nat
        /\ DOMAIN order[c] = 1..Len(order[c])
        /\ \A i, j \in DOMAIN order[c] : order[c][i] = order[c][j] => i = j
        /\ dispatched[c] = {order[c][i] : i \in 1..n}
        /\ \A i \in 1..(n - 1) :
             probe[c][order[c][i]] = "done" /\ fate[c][order[c][i]] = "unacceptable"
    <3>1. /\ order[c] \in Seq(Providers) /\ n \in 1..Len(order[c]) /\ Len(order[c]) \in Nat
          /\ DOMAIN order[c] = 1..Len(order[c])
      BY SMTT(30) DEF TypeOK
    <3>2. /\ dispatched[c] = {order[c][i] : i \in 1..n}
          /\ \A i \in 1..(n - 1) :
               probe[c][order[c][i]] = "done" /\ fate[c][order[c][i]] = "unacceptable"
      BY <2>3 DEF Reached
    <3>3. \A i, j \in DOMAIN order[c] : order[c][i] = order[c][j] => i = j
      BY DEF Kept, PlanKept
    <3> QED
      BY <3>1, <3>2, <3>3
  <2>5. \A e \in Clients : e # c => SameExecution(e)
    BY <2>1 DEF SameExecution, TypeOK
  <2>6. /\ phase'[c] = "answered" /\ attempts'[c] = {} /\ reply'[c].kind = "crashed"
        /\ \A q \in Providers : probe'[c][q] = IF q = p THEN "done"
                                              ELSE IF probe[c][q] = "planned" THEN "none"
                                              ELSE probe[c][q]
    BY <2>1 DEF Stopped, TypeOK
  <2>7. /\ \A i \in 1..(n - 1) : probe'[c][order[c][i]] = "done"
        /\ probe'[c][order[c][n]] = "done"
        /\ \A i \in (n + 1)..Len(order[c]) : probe'[c][order[c][i]] = "none"
    <3>1. \A i \in DOMAIN order[c] : order[c][i] \in Providers
      BY <2>4
    <3>2. \A i \in 1..(n - 1) : i \in DOMAIN order[c] /\ probe[c][order[c][i]] = "done"
      BY <2>4
    <3>3. \A i \in (n + 1)..Len(order[c]) :
            i \in DOMAIN order[c] /\ order[c][i] # p /\ probe[c][order[c][i]] = "planned"
      BY <2>3, <2>4
    <3> QED
      BY <2>3, <2>6, <3>1, <3>2, <3>3
  <2>8. Reached(c, n)'
    BY <2>1, <2>4, <2>6, <2>7 DEF Reached
  <2>9. LoopKept(c)'
    BY <2>1, <2>2, <2>6, <2>8 DEF LoopKept
  <2>10. Execution(c)'
    BY <2>1, <2>2, <2>6, <2>9, SequenceFrom DEF PhaseKept
  <2> QED
    BY <2>5, <2>10, ExecutionFrom
<1> QED
  BY <1>1, <1>2, <1>3, <1>4, <1>5, <1>6, <1>7, <1>8, <1>9, <1>10, <1>11, <1>12, <1>13,
     <1>14, <1>15
     DEF Next, RunLoop, Handler, ProbeStep, Select
-----------------------------------------------------------------------------
(* The invariant, and what it says of requests that are answered. *)

(***************************************************************************)
(* Every scheduled callback finds the state it waits for, and what each    *)
(* execution has recorded is what its probes did, in every reachable state *)
(* of the event loop.                                                      *)
(***************************************************************************)
THEOREM RouterTrace == Spec => [](IInv /\ TraceInv)
<1>1. Init => TraceInv
  <2> SUFFICES ASSUME Init PROVE TraceInv
    OBVIOUS
  <2>1. ready = << >> /\ DOMAIN ready = {} /\ Scheduled = {}
    BY DEF Init, Scheduled
  <2>2. \A c \in Clients : TasksScheduled(c) /\ Execution(c)
    BY DEF Init, TasksScheduled, Execution, Unplanned, LoopKept, RaceKept, PhaseKept,
           Looping, Racing, NoReply
  <2> QED
    BY <2>1, <2>2 DEF TraceInv, LoopInv, NoneTwice, TasksFirst
<1>2. TraceInv /\ IInv /\ IInv' /\ [Next]_vars => TraceInv'
  BY LoopStep, ExecutionStep DEF TraceInv
<1> QED
  BY <1>1, <1>2, RouterInvariant, PTL DEF Spec

\* A request whose plan is empty was refused; the others loop or race.
LEMMA Executions ==
    ASSUME NEW c \in Clients, Execution(c)
    PROVE  \/ order[c] = << >> /\ attempts[c] = {} /\ first[c] = None
              /\ reply[c].kind \in {"none", "refused"}
           \/ Looping(c) /\ LoopKept(c)
           \/ Racing(c) /\ RaceKept(c)
<1>1. CASE order[c] = << >>
  BY <1>1 DEF Execution, Unplanned, PhaseKept
<1>2. CASE order[c] # << >>
  BY <1>2 DEF Execution, Looping, Racing
<1> QED
  BY <1>1, <1>2

\* The service answers only when every probe of the request is over, and what
\* is left of it on the event loop are done-callbacks (_run_concurrent).
THEOREM NothingOutlives == Spec => []NoProbeOutlivesItsRequest
<1>1. IInv /\ TraceInv => NoProbeOutlivesItsRequest
  <2> SUFFICES ASSUME IInv, TraceInv, NEW c \in Clients, phase[c] = "answered"
               PROVE  /\ \A p \in Providers :
                           probe[c][p] \notin {"waiting", "arrived", "cancelling"}
                      /\ \A i \in DOMAIN ready :
                           ready[i].client = c => ready[i].kind = "completed"
    BY DEF NoProbeOutlivesItsRequest
  <2>1. \A p \in Providers : probe[c][p] \notin {"waiting", "arrived", "cancelling"}
    BY ProbeWhere DEF TraceInv
  <2>2. ASSUME NEW i \in DOMAIN ready, ready[i].client = c
        PROVE  ready[i].kind = "completed"
    <3>1. ready[i] \in Scheduled /\ ready[i] \in Handles /\ InPlace(ready[i])
      BY ScheduledType DEF Scheduled, TraceInv, LoopInv, IInv
    <3> QED
      BY <2>1, <2>2, <3>1, HandleIs DEF InPlace
  <2> QED
    BY <2>1, <2>2
<1> QED
  BY <1>1, RouterTrace, PTL

\* The first task of a race to end acceptable makes the request succeed, and
\* stays in its trace as accepted.
THEOREM AcceptanceIsKept == Spec => []FirstAcceptanceCounts
<1>1. IInv /\ TraceInv => FirstAcceptanceCounts
  <2> SUFFICES ASSUME IInv, TraceInv, NEW c \in Clients,
                      phase[c] = "answered", first[c] # None
               PROVE  /\ reply[c].kind = "ok"
                      /\ first[c] \in {a.provider : a \in AcceptedIn(attempts[c])}
    BY DEF FirstAcceptanceCounts
  <2>1. RaceKept(c) /\ Racing(c)
    BY Executions DEF TraceInv, LoopKept
  <2>2. /\ first[c] \in Returned(c) /\ fate[c][first[c]] = "accepted"
        /\ Settled(c, first[c]) \in attempts[c]
        /\ reply[c].kind = "ok"
    BY <2>1 DEF RaceKept, Returned
  <2> QED
    BY <2>2, SettledIs DEF AcceptedIn
<1> QED
  BY <1>1, RouterTrace, PTL

\* noAcceptableResult means that every planned provider was contacted, and
\* that each probe ended by itself without an acceptable result.
THEOREM FailureSawEveryone == Spec => []FailureIsExhaustive
<1>1. IInv /\ TraceInv => FailureIsExhaustive
  <2> SUFFICES ASSUME IInv, TraceInv, NEW c \in Clients,
                      reply[c].kind = "noAcceptableResult", NEW p \in Planned(order[c])
               PROVE  probe[c][p] = "done" /\ fate[c][p] # "accepted" /\ p \in dispatched[c]
    BY DEF FailureIsExhaustive
  <2>1. Execution(c) /\ phase[c] = "answered" /\ order[c] \in Seq(Providers)
    BY DEF TraceInv, Execution, PhaseKept, IInv, TypeOK
  <2>2. CASE Looping(c)
    <3>1. PICK n \in DOMAIN order[c] : Reached(c, n)
      BY <2>1, <2>2 DEF Execution, LoopKept
    <3>2. n = Len(order[c]) /\ Len(order[c]) \in Nat /\ DOMAIN order[c] = 1..Len(order[c])
      BY <2>1, <3>1 DEF Reached
    <3>3. PICK i \in 1..Len(order[c]) : p = order[c][i]
      BY <3>2 DEF Planned
    <3>4. i = n \/ i \in 1..(n - 1)
      BY <3>2, <3>3
    <3> QED
      BY <2>1, <3>1, <3>2, <3>3, <3>4 DEF Reached
  <2>3. CASE Racing(c)
    <3>1. RaceKept(c)
      BY <2>1 DEF Execution
    <3> QED
      BY <2>1, <2>3, <3>1 DEF RaceKept, Returned
  <2> QED
    BY <2>1, <2>2, <2>3, Executions
<1> QED
  BY <1>1, RouterTrace, PTL

\* Sequential execution contacts a provider only when all those before it have
\* ended without being acceptable (_run_sequential).
THEOREM LoopIsSequential == Spec => []OneProbeAtATime
<1>1. IInv /\ TraceInv => OneProbeAtATime
  <2> SUFFICES ASSUME IInv, TraceInv, NEW c \in Clients, Looping(c),
                      NEW p \in dispatched[c], NEW q \in dispatched[c],
                      Position(c, p) < Position(c, q)
               PROVE  probe[c][p] = "done" /\ fate[c][p] = "unacceptable"
    BY DEF OneProbeAtATime, Looping
  <2>1. PICK n \in DOMAIN order[c] : Reached(c, n)
    BY DEF TraceInv, Execution, LoopKept
  <2>2. /\ order[c] \in Seq(Providers) /\ n \in 1..Len(order[c]) /\ Len(order[c]) \in Nat
        /\ DOMAIN order[c] = 1..Len(order[c]) /\ TypeOK /\ Kept(c)
    BY DEF IInv, TypeOK, Kept
  <2>3. PICK i \in 1..n : p = order[c][i]
    BY <2>1 DEF Reached
  <2>4. PICK j \in 1..n : q = order[c][j]
    BY <2>1 DEF Reached
  <2>5. Position(c, p) = i /\ Position(c, q) = j
    BY <2>2, <2>3, <2>4, PositionIs
  <2>6. i \in 1..(n - 1)
    BY <2>2, <2>3, <2>4, <2>5
  <2> QED
    BY <2>1, <2>3, <2>6 DEF Reached
<1> QED
  BY <1>1, RouterTrace, PTL
(***************************************************************************)
(* The trace of an executed plan has one attempt for each position up to   *)
(* the last provider contacted, and no other.                              *)
(***************************************************************************)
LEMMA AttemptsOfPlan ==
    ASSUME IInv, TraceInv, NEW c \in Clients, Executed(c)
    PROVE  /\ \E n \in 0..Len(order[c]) :
                /\ dispatched[c] = {order[c][i] : i \in 1..n}
                /\ \A a \in attempts[c] :
                     \E i \in 1..n : a.provider = order[c][i] /\ a.position = i
                /\ \A i \in 1..n :
                     \E a \in attempts[c] : a.provider = order[c][i] /\ a.position = i
           /\ \A a, b \in attempts[c] : a.provider = b.provider => a = b
           /\ Racing(c) => dispatched[c] = Planned(order[c])
<1>1. /\ Execution(c) /\ phase[c] = "answered" /\ TypeOK /\ Kept(c)
      /\ reply[c].kind \in {"ok", "noAcceptableResult"}
  BY DEF TraceInv, Executed, Execution, PhaseKept, IInv, Kept
<1>2. /\ order[c] \in Seq(Providers) /\ DOMAIN order[c] = 1..Len(order[c])
      /\ Len(order[c]) \in Nat
  BY <1>1 DEF TypeOK
<1>3. \A i \in 1..Len(order[c]) :
        /\ Settled(c, order[c][i]).provider = order[c][i]
        /\ Settled(c, order[c][i]).position = i
        /\ Spared(c, order[c][i]).provider = order[c][i]
        /\ Spared(c, order[c][i]).position = i
  BY <1>1, <1>2, PositionIs DEF Settled, Spared, Attempt
<1>4. CASE Looping(c)
  <2>1. PICK n \in DOMAIN order[c] : Reached(c, n)
    BY <1>1, <1>4 DEF Execution, LoopKept
  <2>2. /\ n \in 1..Len(order[c]) /\ dispatched[c] = {order[c][i] : i \in 1..n}
        /\ attempts[c] = {Settled(c, p) : p \in dispatched[c]}
    BY <1>1, <1>2, <2>1 DEF Reached
  <2>3. n \in 0..Len(order[c]) /\ 1..n \subseteq 1..Len(order[c])
    BY <1>2, <2>2
  <2>4. \A a \in attempts[c] :
          \E i \in 1..n : a.provider = order[c][i] /\ a.position = i
    BY <1>3, <2>2, <2>3
  <2>5. \A i \in 1..n :
          \E a \in attempts[c] : a.provider = order[c][i] /\ a.position = i
    BY <1>3, <2>2, <2>3
  <2>6. \A a, b \in attempts[c] : a.provider = b.provider => a = b
    BY <2>2, SettledIs
  <2> QED
    BY <1>4, <2>2, <2>3, <2>4, <2>5, <2>6 DEF Looping, Racing
<1>5. CASE Racing(c)
  <2>1. RaceKept(c)
    BY <1>1 DEF Execution
  <2>2. /\ dispatched[c] = Planned(order[c])
        /\ attempts[c] = {Settled(c, p) : p \in Returned(c)}
                           \cup {Spared(c, p) : p \in pending[c]}
    BY <1>1, <1>5, <2>1 DEF RaceKept
  <2>3. Returned(c) \cup pending[c] = Planned(order[c]) /\ Returned(c) \cap pending[c] = {}
    BY <1>1 DEF Returned, Kept, PlanKept
  <2> DEFINE n == Len(order[c])
  <2>4. n \in 0..Len(order[c]) /\ dispatched[c] = {order[c][i] : i \in 1..n}
    BY <1>2, <2>2 DEF Planned
  <2>5. \A p \in Planned(order[c]) : \E i \in 1..n : p = order[c][i]
    BY <1>2 DEF Planned
  <2>6. \A a \in attempts[c] :
          \E i \in 1..n : a.provider = order[c][i] /\ a.position = i
    <3>1. \A a \in attempts[c] : \E p \in Planned(order[c]) :
            a = Settled(c, p) \/ a = Spared(c, p)
      BY <2>2, <2>3
    <3> QED
      BY <1>3, <2>5, <3>1
  <2>7. \A i \in 1..n :
          \E a \in attempts[c] : a.provider = order[c][i] /\ a.position = i
    <3>1. \A p \in Planned(order[c]) : Settled(c, p) \in attempts[c] \/ Spared(c, p) \in attempts[c]
      BY <2>2, <2>3
    <3>2. \A i \in 1..n : order[c][i] \in Planned(order[c])
      BY <1>2 DEF Planned
    <3> QED
      BY <1>3, <3>1, <3>2
  <2>8. \A a, b \in attempts[c] : a.provider = b.provider => a = b
    BY <2>2, <2>3, SettledIs
  <2> QED
    BY <2>2, <2>4, <2>6, <2>7, <2>8
<1> QED
  BY <1>1, <1>4, <1>5, Executions

\* An attempt that a race canceled had been dispatched, and only a race cancels.
LEMMA CanceledDispatched ==
    ASSUME IInv, TraceInv PROVE CanceledWasDispatched
<1> SUFFICES ASSUME NEW c \in Clients, NEW a \in attempts[c], a.outcome = "canceled"
             PROVE  a.dispatched
  BY DEF CanceledWasDispatched
<1>1. Execution(c) /\ TypeOK /\ Kept(c)
  BY DEF TraceInv, IInv, Kept
<1>2. \A p \in Providers : Settled(c, p).outcome # "canceled"
  <2>1. \A p \in Providers : fate[c][p] # "canceled"
    BY <1>1 DEF TypeOK, AllOutcomes
  <2> QED
    BY <2>1, SettledIs
<1>3. CASE Looping(c)
  <2>1. PICK n \in DOMAIN order[c] : Reached(c, n)
    BY <1>1, <1>3 DEF Execution, LoopKept
  <2>2. phase[c] \in {"sequential", "answered"}
    BY <1>1, <1>3 DEF Execution, LoopKept
  <2>3. \E p \in dispatched[c] : a = Settled(c, p)
    BY <2>1, <2>2 DEF Reached
  <2> QED
    BY <1>1, <1>2, <2>3 DEF TypeOK
<1>4. CASE Racing(c)
  <2>1. RaceKept(c) /\ Returned(c) \subseteq Providers
    BY <1>1 DEF Execution, Returned, Planned, TypeOK
  <2>2. CASE phase[c] \in {"racing", "draining"}
    BY <1>2, <1>4, <2>1, <2>2 DEF RaceKept
  <2>3. CASE phase[c] = "answered"
    <3>1. a \in {Spared(c, p) : p \in pending[c]}
      BY <1>2, <1>4, <2>1, <2>3 DEF RaceKept
    <3>2. pending[c] \subseteq dispatched[c]
      BY <1>1, <1>4, <2>1, <2>3 DEF RaceKept, Kept, PlanKept
    <3>3. PICK p \in pending[c] : a = Spared(c, p)
      BY <3>1
    <3>4. a.dispatched = (p \in dispatched[c])
      BY <3>3 DEF Spared, Attempt
    <3>5. p \in dispatched[c]
      BY <3>2
    <3> QED
      BY <3>4, <3>5, Zenon
  <2> QED
    BY <1>4, <2>1, <2>2, <2>3 DEF RaceKept
<1> QED
  BY <1>1, <1>3, <1>4, Executions

\* One attempt per provider contacted, at the positions 1..n of the plan.
THEOREM TraceIsComplete == Spec => []TraceComplete
<1>1. IInv /\ TraceInv => TraceComplete
  <2> SUFFICES ASSUME IInv, TraceInv, NEW c \in Clients, Executed(c)
               PROVE  /\ Recorded(c) = dispatched[c]
                      /\ Cardinality(attempts[c]) = Cardinality(dispatched[c])
                      /\ {a.position : a \in attempts[c]} = 1..Cardinality(dispatched[c])
                      /\ Concurrent(ask[c].policy) => dispatched[c] = Planned(order[c])
    BY CanceledDispatched DEF TraceComplete
  <2>1. PICK n \in 0..Len(order[c]) :
          /\ dispatched[c] = {order[c][i] : i \in 1..n}
          /\ \A a \in attempts[c] :
               \E i \in 1..n : a.provider = order[c][i] /\ a.position = i
          /\ \A i \in 1..n :
               \E a \in attempts[c] : a.provider = order[c][i] /\ a.position = i
    BY AttemptsOfPlan
  <2>2. /\ n \in Nat /\ \A i \in 1..n : i \in DOMAIN order[c]
        /\ \A i, j \in 1..n : order[c][i] = order[c][j] => i = j
    <3>1. order[c] \in Seq(Providers)
      BY DEF IInv, TypeOK
    <3>2. \A i, j \in DOMAIN order[c] : order[c][i] = order[c][j] => i = j
      BY DEF IInv, PlanKept
    <3> QED
      BY <3>1, <3>2
  <2>3. \A a, b \in attempts[c] : a.provider = b.provider => a = b
    BY AttemptsOfPlan
  <2>4. IsFiniteSet(1..n) /\ Cardinality(1..n) = n
    <3>1. 1 \in Int /\ n \in Int
      BY <2>2
    <3>2. /\ IsFiniteSet(1..n)
          /\ Cardinality(1..n) = IF 1 > n THEN 0 ELSE n - 1 + 1
      BY <3>1, FS_Interval
    <3> QED
      BY <2>2, <3>2
  <2>5. Cardinality(dispatched[c]) = n
    <3> DEFINE f == [i \in 1..n |-> order[c][i]]
    <3>1. f \in Bijection(1..n, dispatched[c])
      BY <2>1, <2>2 DEF Bijection, Injection, Surjection, IsInjective
    <3>2. ExistsBijection(1..n, dispatched[c])
      BY <3>1 DEF ExistsBijection
    <3> QED
      BY <2>4, <3>2, FS_Bijection
  <2>6. Cardinality(attempts[c]) = n
    <3> DEFINE g == [i \in 1..n |-> CHOOSE a \in attempts[c] :
                                      a.provider = order[c][i] /\ a.position = i]
    <3>1. \A i \in 1..n :
            g[i] \in attempts[c] /\ g[i].provider = order[c][i] /\ g[i].position = i
      BY <2>1
    <3>2. g = [i \in 1..n |-> g[i]]
      OBVIOUS
    <3> HIDE DEF g
    <3>3. \A a \in attempts[c] : \E i \in 1..n : g[i] = a
      <4> SUFFICES ASSUME NEW a \in attempts[c] PROVE \E i \in 1..n : g[i] = a
        OBVIOUS
      <4>1. PICK i \in 1..n : a.provider = order[c][i]
        BY <2>1
      <4> QED
        BY <2>3, <3>1, <4>1
    <3>4. g \in Bijection(1..n, attempts[c])
      BY <3>1, <3>2, <3>3 DEF Bijection, Injection, Surjection, IsInjective
    <3>5. ExistsBijection(1..n, attempts[c])
      BY <3>4 DEF ExistsBijection
    <3> QED
      BY <2>4, <3>5, FS_Bijection
  <2>7. {a.position : a \in attempts[c]} = 1..n
    <3>1. \A a \in attempts[c] : a.position \in 1..n
      BY <2>1
    <3>2. \A i \in 1..n : \E a \in attempts[c] : a.position = i
      BY <2>1
    <3> QED
      BY <3>1, <3>2
  <2>8. Recorded(c) = dispatched[c]
    <3>1. \A a \in attempts[c] : a.provider \in dispatched[c]
      BY <2>1
    <3>2. ASSUME NEW p \in dispatched[c] PROVE \E a \in attempts[c] : a.provider = p
      <4>1. PICK i \in 1..n : p = order[c][i]
        BY <2>1
      <4>2. PICK a \in attempts[c] : a.provider = order[c][i]
        BY <2>1
      <4> QED
        BY <4>1, <4>2
    <3> QED
      BY <3>1, <3>2 DEF Recorded
  <2>9. Concurrent(ask[c].policy) => dispatched[c] = Planned(order[c])
    <3>1. Concurrent(ask[c].policy) /\ order[c] # << >> => Racing(c)
      BY DEF Racing
    <3>2. order[c] # << >>
      BY Executions DEF TraceInv, Executed, Looping, Racing
    <3> QED
      BY <3>1, <3>2, AttemptsOfPlan
  <2> QED
    BY <2>5, <2>6, <2>7, <2>8, <2>9
<1> QED
  BY <1>1, RouterTrace, PTL
-----------------------------------------------------------------------------
(* The promise of ResolutionService.  What a client sees of its request is  *)
(* the mapping of Served, one client at a time.                             *)

StateOf(c) ==
    IF phase[c] = "idle" THEN "idle"
    ELSE IF phase[c] = "answered" THEN "closed" ELSE "open"
HeardOf(c) == {a.provider : a \in {b \in attempts[c] : b.outcome # "canceled"}}
GoodOf(c) == {a.provider : a \in AcceptedIn(attempts[c])}
SameView(c) ==
    /\ phase'[c] = phase[c] /\ dispatched'[c] = dispatched[c]
    /\ attempts'[c] = attempts[c] /\ reply'[c] = reply[c]

ServiceStep == [Served!Next]_Served!vars

\* The step of one client leaves what the others see alone.
LEMMA OthersServed ==
    ASSUME TypeOK, TypeOK', NEW c \in Clients,
           \A e \in Clients : e # c => SameView(e)
    PROVE  /\ [e \in Clients |-> StateOf(e)]'
                = [[e \in Clients |-> StateOf(e)] EXCEPT ![c] = StateOf(c)']
           /\ [e \in Clients |-> HeardOf(e)]'
                = [[e \in Clients |-> HeardOf(e)] EXCEPT ![c] = HeardOf(c)']
           /\ [e \in Clients |-> GoodOf(e)]'
                = [[e \in Clients |-> GoodOf(e)] EXCEPT ![c] = GoodOf(c)']
           /\ [e \in Clients |-> reply[e].kind]'
                = [[e \in Clients |-> reply[e].kind] EXCEPT ![c] = reply'[c].kind]
           /\ [e \in Clients |-> reply[e].returned]'
                = [[e \in Clients |-> reply[e].returned] EXCEPT ![c] = reply'[c].returned]
           /\ dispatched' = [dispatched EXCEPT ![c] = dispatched'[c]]
<1>1. \A e \in Clients : e # c =>
        /\ StateOf(e)' = StateOf(e) /\ HeardOf(e)' = HeardOf(e) /\ GoodOf(e)' = GoodOf(e)
        /\ reply'[e] = reply[e] /\ dispatched'[e] = dispatched[e]
  BY DEF SameView, StateOf, HeardOf, GoodOf, AcceptedIn
<1>2. /\ dispatched \in [Clients -> SUBSET Providers]
      /\ dispatched' \in [Clients -> SUBSET Providers]
  BY DEF TypeOK
<1>3. dispatched' = [dispatched EXCEPT ![c] = dispatched'[c]]
  BY <1>1, <1>2
<1> HIDE DEF StateOf, HeardOf, GoodOf
<1> QED
  BY <1>1, <1>3

LEMMA SameServed ==
    ASSUME UNCHANGED <<phase, dispatched, attempts, reply>>
    PROVE  ServiceStep
  BY DEF ServiceStep, Served!vars, AcceptedIn

\* What a step shows a client, and what Served calls it.
LEMMA LearnServed ==
    ASSUME TypeOK, TypeOK', NEW c \in Clients,
           \A e \in Clients : e # c => SameView(e),
           NEW more \in SUBSET Providers, NEW results \in SUBSET Providers,
           NEW acceptable \in SUBSET results,
           StateOf(c) = "open",
           results \subseteq dispatched[c] \ HeardOf(c),
           more # {} => GoodOf(c) \cup acceptable = {},
           dispatched'[c] = dispatched[c] \cup more,
           HeardOf(c)' = HeardOf(c) \cup results,
           GoodOf(c)' = GoodOf(c) \cup acceptable
    PROVE  Served!Learn(c, more, results, acceptable)
<1>1. /\ [e \in Clients |-> HeardOf(e)]'
           = [[e \in Clients |-> HeardOf(e)] EXCEPT ![c] = HeardOf(c)']
      /\ [e \in Clients |-> GoodOf(e)]'
           = [[e \in Clients |-> GoodOf(e)] EXCEPT ![c] = GoodOf(c)']
      /\ dispatched' = [dispatched EXCEPT ![c] = dispatched'[c]]
  BY OthersServed
<1>2. /\ [e \in Clients |-> HeardOf(e)]'
           = [[e \in Clients |-> HeardOf(e)] EXCEPT ![c] = @ \cup results]
      /\ [e \in Clients |-> GoodOf(e)]'
           = [[e \in Clients |-> GoodOf(e)] EXCEPT ![c] = @ \cup acceptable]
      /\ dispatched' = [dispatched EXCEPT ![c] = @ \cup more]
  BY <1>1
<1>3. /\ [e \in Clients |-> StateOf(e)][c] = "open"
      /\ results \subseteq dispatched[c] \ [e \in Clients |-> HeardOf(e)][c]
      /\ more # {} => [e \in Clients |-> GoodOf(e)][c] \cup acceptable = {}
  OBVIOUS
<1> QED
  BY <1>2, <1>3 DEF Served!Learn, StateOf, HeardOf, GoodOf

LEMMA ProgressServed ==
    ASSUME TypeOK, TypeOK', NEW c \in Clients,
           \A e \in Clients : e # c => SameView(e),
           NEW more \in SUBSET Providers, NEW results \in SUBSET Providers,
           NEW acceptable \in SUBSET results,
           StateOf(c) = "open",
           results \subseteq dispatched[c] \ HeardOf(c),
           more # {} => GoodOf(c) \cup acceptable = {},
           dispatched'[c] = dispatched[c] \cup more,
           HeardOf(c)' = HeardOf(c) \cup results,
           GoodOf(c)' = GoodOf(c) \cup acceptable,
           StateOf(c)' = "open", reply'[c] = reply[c]
    PROVE  ServiceStep
<1>1. \A e \in Clients : StateOf(e)' = StateOf(e) /\ reply'[e] = reply[e]
  BY DEF SameView, StateOf
<1>2. [e \in Clients |-> StateOf(e)]' = [e \in Clients |-> StateOf(e)]
  BY <1>1
<1>3. /\ [e \in Clients |-> reply[e].kind]' = [e \in Clients |-> reply[e].kind]
      /\ [e \in Clients |-> reply[e].returned]' = [e \in Clients |-> reply[e].returned]
  BY <1>1
<1>4. acceptable \in SUBSET Providers /\ Served!Learn(c, more, results, acceptable)
  BY LearnServed
<1>5. Served!Progress(c)
  BY <1>2, <1>3, <1>4 DEF Served!Progress, StateOf
<1> QED
  BY <1>5 DEF ServiceStep, Served!Next

LEMMA CloseServed ==
    ASSUME TypeOK, TypeOK', NEW c \in Clients,
           \A e \in Clients : e # c => SameView(e),
           phase'[c] = "answered", NEW CONSTANT kind, NEW CONSTANT winner,
           reply'[c].kind = kind, reply'[c].returned = winner
    PROVE  Served!Close(c, kind, winner)
<1>1. /\ [e \in Clients |-> StateOf(e)]'
           = [[e \in Clients |-> StateOf(e)] EXCEPT ![c] = StateOf(c)']
      /\ [e \in Clients |-> reply[e].kind]'
           = [[e \in Clients |-> reply[e].kind] EXCEPT ![c] = reply'[c].kind]
      /\ [e \in Clients |-> reply[e].returned]'
           = [[e \in Clients |-> reply[e].returned] EXCEPT ![c] = reply'[c].returned]
  BY OthersServed
<1>2. StateOf(c)' = "closed"
  BY DEF StateOf
<1>3. [e \in Clients |-> StateOf(e)]'
        = [[e \in Clients |-> StateOf(e)] EXCEPT ![c] = "closed"]
  BY <1>1, <1>2
<1> QED
  BY <1>1, <1>3 DEF Served!Close, StateOf

LEMMA SucceedServed ==
    ASSUME TypeOK, TypeOK', NEW c \in Clients,
           \A e \in Clients : e # c => SameView(e),
           NEW results \in SUBSET Providers, NEW acceptable \in SUBSET results,
           StateOf(c) = "open",
           results \subseteq dispatched[c] \ HeardOf(c),
           dispatched'[c] = dispatched[c],
           HeardOf(c)' = HeardOf(c) \cup results,
           GoodOf(c)' = GoodOf(c) \cup acceptable,
           phase'[c] = "answered", reply'[c].kind = "ok",
           reply'[c].returned \in GoodOf(c)'
    PROVE  ServiceStep
<1>1. Served!Learn(c, {}, results, acceptable)
  BY LearnServed
<1>2. PICK winner : winner = reply'[c].returned
  OBVIOUS
<1>3. Served!Close(c, "ok", winner)
  BY <1>2, CloseServed
<1>4. /\ winner \in [e \in Clients |-> GoodOf(e)][c] \cup acceptable
      /\ acceptable \in SUBSET Providers
  BY <1>2
<1>5. Served!Succeed(c)
  BY <1>1, <1>3, <1>4 DEF Served!Succeed, GoodOf
<1> QED
  BY <1>5 DEF ServiceStep, Served!Next

LEMMA FailServed ==
    ASSUME TypeOK, TypeOK', NEW c \in Clients,
           \A e \in Clients : e # c => SameView(e),
           NEW results \in SUBSET Providers,
           StateOf(c) = "open",
           results \subseteq dispatched[c] \ HeardOf(c),
           HeardOf(c) \cup results = dispatched[c], dispatched[c] # {},
           GoodOf(c) = {}, GoodOf(c)' = {},
           dispatched'[c] = dispatched[c], HeardOf(c)' = HeardOf(c) \cup results,
           phase'[c] = "answered",
           reply'[c].kind = "noAcceptableResult", reply'[c].returned = None
    PROVE  ServiceStep
<1>1. Served!Learn(c, {}, results, {})
  <2>1. {} \in SUBSET Providers /\ {} \in SUBSET results
    OBVIOUS
  <2> QED
    BY <2>1, LearnServed
<1>2. Served!Close(c, "noAcceptableResult", None)
  BY CloseServed
<1>3. /\ [e \in Clients |-> GoodOf(e)][c] = {}
      /\ [e \in Clients |-> HeardOf(e)][c] \cup results = dispatched[c]
  OBVIOUS
<1>4. Served!Fail(c)
  BY <1>1, <1>2, <1>3 DEF Served!Fail, GoodOf, HeardOf
<1> QED
  BY <1>4 DEF ServiceStep, Served!Next
\* What a trace of settled and spared attempts tells: whom the service heard,
\* and who of them was acceptable.
LEMMA SettledTells ==
    ASSUME TypeOK, NEW c \in Clients, NEW S \in SUBSET Providers, NEW trace,
           \A a \in trace : a.outcome = "canceled" \/ \E p \in S : a = Settled(c, p),
           \A p \in S : Settled(c, p) \in trace
    PROVE  /\ {a.provider : a \in {b \in trace : b.outcome # "canceled"}} = S
           /\ {a.provider : a \in AcceptedIn(trace)} = {p \in S : fate[c][p] = "accepted"}
<1>1. \A p \in S : /\ Settled(c, p).provider = p /\ Settled(c, p).outcome = fate[c][p]
                   /\ fate[c][p] # "canceled"
  BY SettledIs DEF TypeOK, AllOutcomes
<1>2. \A a \in trace : a.outcome # "canceled" =>
        /\ a.provider \in S
        /\ a.outcome = "accepted" => fate[c][a.provider] = "accepted"
  BY <1>1
<1>3. ASSUME NEW p \in S
      PROVE  \E a \in trace : /\ a.provider = p /\ a.outcome # "canceled"
                              /\ fate[c][p] = "accepted" => a.outcome = "accepted"
  <2>1. Settled(c, p) \in trace
    OBVIOUS
  <2> QED
    BY <1>1, <2>1
<1>4. {a.provider : a \in {b \in trace : b.outcome # "canceled"}} = S
  BY <1>2, <1>3
<1>5. {a.provider : a \in AcceptedIn(trace)} = {p \in S : fate[c][p] = "accepted"}
  BY <1>2, <1>3 DEF AcceptedIn
<1> QED
  BY <1>4, <1>5

\* What is known of a request while it is open.
LEMMA OpenView ==
    ASSUME IInv, TraceInv, NEW c \in Clients
    PROVE  /\ order[c] = << >> => HeardOf(c) = {} /\ GoodOf(c) = {} /\ dispatched[c] = {}
           /\ phase[c] \in {"racing", "draining"} =>
                /\ HeardOf(c) = Returned(c)
                /\ GoodOf(c) = {p \in Returned(c) : fate[c][p] = "accepted"}
           /\ phase[c] = "sequential" => \A n \in DOMAIN order[c] :
                Reached(c, n) => /\ HeardOf(c) = dispatched[c] \ {order[c][n]}
                                 /\ GoodOf(c) = {}
<1>0. TypeOK /\ Execution(c) /\ Kept(c)
  BY DEF IInv, TraceInv, Kept
<1>1. ASSUME order[c] = << >>
      PROVE  HeardOf(c) = {} /\ GoodOf(c) = {} /\ dispatched[c] = {}
  BY <1>0, <1>1 DEF Execution, Unplanned, HeardOf, GoodOf, AcceptedIn
<1>2. ASSUME phase[c] \in {"racing", "draining"}
      PROVE  /\ HeardOf(c) = Returned(c)
             /\ GoodOf(c) = {p \in Returned(c) : fate[c][p] = "accepted"}
  <2>1. Racing(c) /\ RaceKept(c)
    BY <1>0, <1>2, PhaseKind DEF Execution
  <2>2. attempts[c] = {Settled(c, p) : p \in Returned(c)}
    BY <1>2, <2>1 DEF RaceKept
  <2>3. Returned(c) \in SUBSET Providers
    BY <1>0 DEF Returned, Planned, TypeOK
  <2>4. /\ \A a \in attempts[c] :
             a.outcome = "canceled" \/ \E p \in Returned(c) : a = Settled(c, p)
        /\ \A p \in Returned(c) : Settled(c, p) \in attempts[c]
    BY <2>2
  <2> QED
    BY <1>0, <2>3, <2>4, SettledTells DEF HeardOf, GoodOf
<1>3. ASSUME phase[c] = "sequential", NEW n \in DOMAIN order[c], Reached(c, n)
      PROVE  HeardOf(c) = dispatched[c] \ {order[c][n]} /\ GoodOf(c) = {}
  <2> DEFINE S == dispatched[c] \ {order[c][n]}
  <2>1. attempts[c] = {Settled(c, p) : p \in S}
    BY <1>3 DEF Reached
  <2>2. S \in SUBSET Providers
    BY <1>0 DEF TypeOK
  <2>3. \A p \in S : fate[c][p] = "unacceptable"
    <3>1. order[c] \in Seq(Providers)
      BY <1>0 DEF TypeOK
    <3> QED
      BY <1>3, <3>1 DEF Reached
  <2> HIDE DEF S
  <2>4. /\ \A a \in attempts[c] : a.outcome = "canceled" \/ \E p \in S : a = Settled(c, p)
        /\ \A p \in S : Settled(c, p) \in attempts[c]
    BY <2>1
  <2>5. HeardOf(c) = S /\ GoodOf(c) = {p \in S : fate[c][p] = "accepted"}
    BY <1>0, <2>2, <2>4, SettledTells DEF HeardOf, GoodOf
  <2> QED
    BY <2>3, <2>5 DEF S
<1> QED
  BY <1>1, <1>2, <1>3
LEMMA ServiceSteps ==
    IInv /\ IInv' /\ TraceInv /\ TraceInv' /\ [Next]_vars => ServiceStep
<1> SUFFICES ASSUME IInv, IInv', TraceInv, TraceInv', [Next]_vars PROVE ServiceStep
  OBVIOUS
<1>0. /\ TypeOK /\ TypeOK'
      /\ \A c \in Clients : Kept(c) /\ Kept(c)' /\ Execution(c)
  BY DEF IInv, TraceInv, Kept
<1> USE <1>0
<1>1. CASE Tick \/ Snapshot \/ UNCHANGED vars
  BY <1>1, SameServed DEF Tick, Snapshot, vars, result
<1>2. ASSUME NEW c \in Clients, Submit(c) PROVE ServiceStep
  <2>1. /\ phase[c] \in {"idle", "answered"} /\ phase' = [phase EXCEPT ![c] = "queued"]
        /\ dispatched' = [dispatched EXCEPT ![c] = {}]
        /\ attempts' = [attempts EXCEPT ![c] = {}]
        /\ reply' = [reply EXCEPT ![c] = NoReply]
    BY <1>2 DEF Submit
  <2>2. \A e \in Clients : e # c => SameView(e)
    BY <2>1 DEF SameView, TypeOK
  <2>3. /\ StateOf(c) \in {"idle", "closed"} /\ StateOf(c)' = "open"
        /\ HeardOf(c)' = {} /\ GoodOf(c)' = {} /\ dispatched'[c] = {}
        /\ reply'[c].kind = "none" /\ reply'[c].returned = None
    BY <2>1 DEF StateOf, HeardOf, GoodOf, AcceptedIn, NoReply, TypeOK
  <2>4. /\ [e \in Clients |-> StateOf(e)]'
             = [[e \in Clients |-> StateOf(e)] EXCEPT ![c] = "open"]
        /\ [e \in Clients |-> HeardOf(e)]'
             = [[e \in Clients |-> HeardOf(e)] EXCEPT ![c] = {}]
        /\ [e \in Clients |-> GoodOf(e)]'
             = [[e \in Clients |-> GoodOf(e)] EXCEPT ![c] = {}]
        /\ [e \in Clients |-> reply[e].kind]'
             = [[e \in Clients |-> reply[e].kind] EXCEPT ![c] = "none"]
        /\ [e \in Clients |-> reply[e].returned]'
             = [[e \in Clients |-> reply[e].returned] EXCEPT ![c] = None]
    BY <2>2, <2>3, OthersServed
  <2>5. [e \in Clients |-> StateOf(e)][c] \in {"idle", "closed"}
    BY <2>3
  <2>6. Served!Open(c)
    BY <2>1, <2>4, <2>5 DEF Served!Open, StateOf, HeardOf, GoodOf
  <2> QED
    BY <2>6 DEF ServiceStep, Served!Next
<1>3. ASSUME NEW c \in Clients, Reject(c) \/ Refuse(c) PROVE ServiceStep
  <2>1. /\ phase[c] = "queued" /\ phase' = [phase EXCEPT ![c] = "answered"]
        /\ reply' = [reply EXCEPT ![c] = [kind |-> "refused", returned |-> None, document |-> None]]
        /\ UNCHANGED <<dispatched, attempts>>
    BY <1>3 DEF Reject, Refuse, Reply
  <2>2. \A e \in Clients : e # c => SameView(e)
    BY <2>1 DEF SameView, TypeOK
  <2>3. phase'[c] = "answered" /\ reply'[c].kind = "refused" /\ reply'[c].returned = None
    BY <2>1 DEF TypeOK
  <2>4. Served!Close(c, "refused", None)
    BY <2>2, <2>3, CloseServed
  <2>5. dispatched[c] = {} /\ [e \in Clients |-> StateOf(e)][c] = "open"
    BY <2>1, PhaseKind, OpenView DEF StateOf
  <2>6. Served!Refuse(c)
    BY <2>1, <2>4, <2>5 DEF Served!Refuse, StateOf, AcceptedIn
  <2> QED
    BY <2>6 DEF ServiceStep, Served!Next
<1>4. ASSUME NEW c \in Clients, StartSequential(c) PROVE ServiceStep
  <2>1. /\ \E o \in Planning(c, FALSE) :
             o[1] \in Providers /\ dispatched' = [dispatched EXCEPT ![c] = {o[1]}]
        /\ phase[c] = "queued" /\ phase' = [phase EXCEPT ![c] = "sequential"]
        /\ UNCHANGED <<attempts, reply>>
    <3>1. PICK o \in Planning(c, FALSE) : dispatched' = [dispatched EXCEPT ![c] = {o[1]}]
      BY <1>4 DEF StartSequential
    <3>2. o[1] \in Providers
      BY <1>4, <3>1, PlanningType DEF StartSequential
    <3> QED
      BY <1>4, <3>1, <3>2 DEF StartSequential, result
  <2>2. PICK p \in Providers : dispatched' = [dispatched EXCEPT ![c] = {p}]
    BY <2>1
  <2>3. \A e \in Clients : e # c => SameView(e)
    BY <2>1, <2>2 DEF SameView, TypeOK
  <2>4. /\ HeardOf(c) = {} /\ GoodOf(c) = {} /\ dispatched[c] = {}
        /\ StateOf(c) = "open"
    BY <2>1, PhaseKind, OpenView DEF StateOf
  <2>5. /\ HeardOf(c)' = HeardOf(c) \cup {} /\ GoodOf(c)' = GoodOf(c) \cup {}
        /\ dispatched'[c] = dispatched[c] \cup {p} /\ StateOf(c)' = "open"
        /\ reply'[c] = reply[c]
    BY <2>1, <2>2, <2>4 DEF HeardOf, GoodOf, AcceptedIn, StateOf, TypeOK
  <2>6. {p} # {} => GoodOf(c) \cup {} = {}
    BY <2>4
  <2>7. {p} \in SUBSET Providers /\ {} \in SUBSET Providers /\ {} \in SUBSET {}
    OBVIOUS
  <2> QED
    BY <2>3, <2>4, <2>5, <2>6, <2>7, ProgressServed
<1>5. ASSUME NEW c \in Clients, StartRace(c) PROVE ServiceStep
  <2>1. /\ phase[c] = "queued" /\ phase' = [phase EXCEPT ![c] = "racing"]
        /\ UNCHANGED <<dispatched, attempts, reply>>
    BY <1>5 DEF StartRace, result
  <2>2. \A e \in Clients : e # c => SameView(e)
    BY <2>1 DEF SameView, TypeOK
  <2>3. StateOf(c) = "open" /\ StateOf(c)' = "open" /\ reply'[c] = reply[c]
    BY <2>1 DEF StateOf, TypeOK
  <2>4. /\ HeardOf(c)' = HeardOf(c) \cup {} /\ GoodOf(c)' = GoodOf(c) \cup {}
        /\ dispatched'[c] = dispatched[c] \cup {}
    BY <2>1 DEF HeardOf, GoodOf, AcceptedIn
  <2>5. {} \in SUBSET Providers /\ {} \in SUBSET {}
    OBVIOUS
  <2> QED
    BY <2>2, <2>3, <2>4, <2>5, ProgressServed
<1>6. ASSUME NEW c \in Clients, NEW p \in Providers, LaunchTask(c, p) PROVE ServiceStep
  <2>1. /\ dispatched' = [dispatched EXCEPT ![c] = @ \cup {p}]
        /\ UNCHANGED <<phase, attempts, reply>>
    BY <1>6 DEF LaunchTask, MarkDispatched, result
  <2>2. phase[c] = "racing"
    <3>1. Handle("task", c, p) \in Scheduled /\ InPlace(Handle("task", c, p))
      BY <1>6, ScheduledType DEF LaunchTask, Head1, TraceInv, LoopInv
    <3> QED
      BY <1>6, <3>1, HandleIs DEF LaunchTask, InPlace
  <2>3. \A e \in Clients : e # c => SameView(e)
    BY <2>1 DEF SameView, TypeOK
  <2>4. GoodOf(c) = {}
    <3>1. \A q \in Returned(c) : fate[c][q] # "accepted"
      BY <2>2, PhaseKind DEF Execution, RaceKept
    <3> QED
      BY <2>2, <3>1, OpenView
  <2>5. /\ HeardOf(c)' = HeardOf(c) \cup {} /\ GoodOf(c)' = GoodOf(c) \cup {}
        /\ dispatched'[c] = dispatched[c] \cup {p}
        /\ StateOf(c) = "open" /\ StateOf(c)' = "open" /\ reply'[c] = reply[c]
    BY <2>1, <2>2 DEF HeardOf, GoodOf, AcceptedIn, StateOf, TypeOK
  <2>6. {p} # {} => GoodOf(c) \cup {} = {}
    BY <2>4
  <2>7. {p} \in SUBSET Providers /\ {} \in SUBSET Providers /\ {} \in SUBSET {}
    OBVIOUS
  <2> QED
    BY <2>3, <2>5, <2>6, <2>7, ProgressServed
<1>7. ASSUME NEW c \in Clients, NEW p \in Providers,
             Deliver(c, p) \/ EndTask(c, p) \/ CancelStep(c, p) \/ Completed(c, p)
      PROVE  ServiceStep
  <2>1. UNCHANGED <<phase, dispatched, attempts, reply>>
    BY <1>7 DEF Deliver, EndTask, CancelStep, Completed, result
  <2> QED
    BY <2>1, SameServed
<1>8. ASSUME NEW c \in Clients, WakeLosing(c) PROVE ServiceStep
  <2>1. /\ phase[c] = "racing" /\ Acceptable(c) = {} /\ UNCHANGED dispatched
        /\ IF Left(c) = {}
           THEN Finish(c, WithFinished(c), None)
           ELSE /\ attempts' = [attempts EXCEPT ![c] = WithFinished(c)]
                /\ UNCHANGED <<phase, reply>>
    BY <1>8 DEF WakeLosing
  <2>2. Racing(c) /\ RaceKept(c)
    BY <2>1, PhaseKind DEF Execution
  <2> DEFINE R == Planned(order[c]) \ Left(c)
  <2>3. /\ WithFinished(c) = {Settled(c, p) : p \in R}
        /\ R = Returned(c) \cup Finished(c)
        /\ \A p \in R : probe[c][p] = "done" /\ fate[c][p] # "accepted"
    BY <2>1, <2>2, WithFinishedIs
  <2>4. /\ HeardOf(c) = Returned(c) /\ GoodOf(c) = {} /\ StateOf(c) = "open"
        /\ Finished(c) \subseteq dispatched[c] \ HeardOf(c)
        /\ R \in SUBSET Providers /\ Finished(c) \in SUBSET Providers
    <3>1. HeardOf(c) = Returned(c) /\ GoodOf(c) = {}
      BY <2>1, <2>3, OpenView
    <3>2. dispatched[c] = {p \in Planned(order[c]) : probe[c][p] # "planned"}
      BY <2>1, <2>2 DEF RaceKept
    <3>3. Finished(c) \subseteq Planned(order[c]) /\ Finished(c) \cap Returned(c) = {}
      BY DEF Finished, Returned, Kept, PlanKept
    <3>4. R \in SUBSET Providers
      BY DEF Planned, TypeOK
    <3> QED
      BY <2>1, <2>3, <3>1, <3>2, <3>3, <3>4 DEF StateOf
  <2>5. WithFinished(c) \in SUBSET Attempts
    BY AttemptsOfType
  <2> HIDE DEF R
  <2>6. /\ {a.provider : a \in {b \in WithFinished(c) : b.outcome # "canceled"}} = R
        /\ {a.provider : a \in AcceptedIn(WithFinished(c))} = {}
        /\ AcceptedIn(WithFinished(c)) = {}
    <3>1. /\ \A a \in WithFinished(c) :
               a.outcome = "canceled" \/ \E p \in R : a = Settled(c, p)
          /\ \A p \in R : Settled(c, p) \in WithFinished(c)
      BY <2>3
    <3>2. /\ {a.provider : a \in {b \in WithFinished(c) : b.outcome # "canceled"}} = R
          /\ {a.provider : a \in AcceptedIn(WithFinished(c))}
               = {p \in R : fate[c][p] = "accepted"}
      BY <2>4, <3>1, SettledTells
    <3>3. {p \in R : fate[c][p] = "accepted"} = {}
      BY <2>3
    <3>4. {a.provider : a \in AcceptedIn(WithFinished(c))} = {}
      BY <3>2, <3>3
    <3>5. AcceptedIn(WithFinished(c)) = {}
      BY <3>4
    <3> QED
      BY <3>2, <3>4, <3>5
  <2>7. attempts' = [attempts EXCEPT ![c] = WithFinished(c)]
    BY <2>1, <2>5, FinishEffect
  <2>8. /\ HeardOf(c)' = HeardOf(c) \cup Finished(c) /\ GoodOf(c)' = {}
        /\ dispatched'[c] = dispatched[c]
    <3>1. attempts'[c] = WithFinished(c)
      BY <2>7 DEF TypeOK
    <3> QED
      BY <2>1, <2>3, <2>4, <2>6, <3>1 DEF HeardOf, GoodOf
  <2>9. CASE Left(c) = {}
    <3>1. /\ phase' = [phase EXCEPT ![c] = "answered"]
          /\ \A e \in Clients : e # c => reply'[e] = reply[e]
          /\ reply'[c].kind = "noAcceptableResult" /\ reply'[c].returned = None
      BY <2>1, <2>5, <2>6, <2>9, FinishEffect
    <3>2. \A e \in Clients : e # c => SameView(e)
      BY <2>1, <2>7, <3>1 DEF SameView, TypeOK
    <3>3. /\ HeardOf(c) \cup Finished(c) = dispatched[c] /\ dispatched[c] # {}
      <4>1. R = Planned(order[c])
        BY <2>9 DEF R
      <4>2. order[c] \in Seq(Providers) /\ order[c] # << >>
        BY <2>2 DEF Racing, TypeOK
      <4>3. 1 \in DOMAIN order[c]
        BY <4>2
      <4>4. R # {}
        BY <4>1, <4>3 DEF Planned
      <4>5. dispatched[c] \subseteq Planned(order[c])
        BY <2>1, <2>2 DEF RaceKept
      <4>6. Returned(c) \subseteq dispatched[c]
        BY <2>1, <2>2 DEF RaceKept, Returned
      <4> QED
        BY <2>3, <2>4, <4>1, <4>4, <4>5, <4>6
    <3>4. phase'[c] = "answered"
      BY <3>1 DEF TypeOK
    <3> QED
      BY <2>4, <2>8, <3>1, <3>2, <3>3, <3>4, FailServed
  <2>10. CASE Left(c) # {}
    <3>1. phase' = phase /\ reply' = reply
      BY <2>1, <2>10
    <3>2. \A e \in Clients : e # c => SameView(e)
      BY <2>1, <2>7, <3>1 DEF SameView, TypeOK
    <3>3. StateOf(c)' = "open" /\ reply'[c] = reply[c]
      BY <2>1, <3>1 DEF StateOf
    <3>4. /\ dispatched'[c] = dispatched[c] \cup {} /\ GoodOf(c)' = GoodOf(c) \cup {}
          /\ {} \in SUBSET Providers /\ {} \in SUBSET Finished(c)
          /\ {} # {} => GoodOf(c) \cup {} = {}
      BY <2>4, <2>8
    <3> QED
      BY <2>4, <2>8, <3>2, <3>3, <3>4, ProgressServed
  <2> QED
    BY <2>9, <2>10
<1>9. ASSUME NEW c \in Clients, WakeWinning(c) PROVE ServiceStep
  <2>1. /\ phase[c] = "racing" /\ Head1("wake", c, None) /\ UNCHANGED dispatched
        /\ \E document \in Acceptable(c) :
             IF Left(c) = {}
             THEN Finish(c, WithFinished(c), document)
             ELSE /\ attempts' = [attempts EXCEPT ![c] = WithFinished(c)]
                  /\ phase' = [phase EXCEPT ![c] = "draining"]
                  /\ UNCHANGED reply
    BY <1>9 DEF WakeWinning
  <2>2. PICK document \in Acceptable(c) :
          IF Left(c) = {}
          THEN Finish(c, WithFinished(c), document)
          ELSE /\ attempts' = [attempts EXCEPT ![c] = WithFinished(c)]
               /\ phase' = [phase EXCEPT ![c] = "draining"]
               /\ UNCHANGED reply
    BY <2>1
  <2>3. Racing(c) /\ RaceKept(c)
    BY <2>1, PhaseKind DEF Execution
  <2> DEFINE R == Planned(order[c]) \ Left(c)
  <2>4. /\ WithFinished(c) = {Settled(c, p) : p \in R}
        /\ R = Returned(c) \cup Finished(c)
        /\ document \in R /\ fate[c][document] = "accepted"
    BY <2>1, <2>2, <2>3, WithFinishedIs DEF Acceptable
  <2>5. /\ HeardOf(c) = Returned(c) /\ GoodOf(c) = {} /\ StateOf(c) = "open"
        /\ Finished(c) \subseteq dispatched[c] \ HeardOf(c)
        /\ R \in SUBSET Providers /\ Finished(c) \in SUBSET Providers
        /\ \A p \in Returned(c) : fate[c][p] # "accepted"
    <3>1. \A p \in Returned(c) : fate[c][p] # "accepted"
      BY <2>1, <2>3 DEF RaceKept
    <3>2. HeardOf(c) = Returned(c) /\ GoodOf(c) = {}
      BY <2>1, <3>1, OpenView
    <3>3. dispatched[c] = {p \in Planned(order[c]) : probe[c][p] # "planned"}
      BY <2>1, <2>3 DEF RaceKept
    <3>4. Finished(c) \subseteq Planned(order[c]) /\ Finished(c) \cap Returned(c) = {}
      BY DEF Finished, Returned, Kept, PlanKept
    <3>5. R \in SUBSET Providers
      BY DEF Planned, TypeOK
    <3>6. \A p \in Finished(c) : probe[c][p] # "planned"
      BY DEF Finished
    <3> QED
      BY <2>1, <2>4, <3>1, <3>2, <3>3, <3>4, <3>5, <3>6 DEF StateOf
  <2>6. WithFinished(c) \in SUBSET Attempts
    BY AttemptsOfType
  <2> HIDE DEF R
  <2>7. /\ {a.provider : a \in {b \in WithFinished(c) : b.outcome # "canceled"}} = R
        /\ {a.provider : a \in AcceptedIn(WithFinished(c))} = Acceptable(c)
        /\ AcceptedIn(WithFinished(c)) # {}
    <3>1. /\ \A a \in WithFinished(c) :
               a.outcome = "canceled" \/ \E p \in R : a = Settled(c, p)
          /\ \A p \in R : Settled(c, p) \in WithFinished(c)
      BY <2>4
    <3>2. /\ {a.provider : a \in {b \in WithFinished(c) : b.outcome # "canceled"}} = R
          /\ {a.provider : a \in AcceptedIn(WithFinished(c))}
               = {p \in R : fate[c][p] = "accepted"}
      BY <2>5, <3>1, SettledTells
    <3>3. {p \in R : fate[c][p] = "accepted"} = Acceptable(c)
      BY <2>4, <2>5 DEF Acceptable
    <3> QED
      BY <2>2, <3>2, <3>3
  <2>8. attempts' = [attempts EXCEPT ![c] = WithFinished(c)]
    BY <2>2, <2>6, FinishEffect
  <2>9. /\ HeardOf(c)' = HeardOf(c) \cup Finished(c)
        /\ GoodOf(c)' = GoodOf(c) \cup Acceptable(c)
        /\ dispatched'[c] = dispatched[c] /\ Acceptable(c) \in SUBSET Finished(c)
    <3>1. attempts'[c] = WithFinished(c)
      BY <2>8 DEF TypeOK
    <3>2. HeardOf(c)' = R /\ GoodOf(c)' = Acceptable(c)
      BY <2>7, <3>1 DEF HeardOf, GoodOf
    <3>3. Acceptable(c) \in SUBSET Finished(c)
      BY DEF Acceptable
    <3> QED
      BY <2>1, <2>4, <2>5, <3>2, <3>3
  <2>10. CASE Left(c) = {}
    <3>1. /\ phase' = [phase EXCEPT ![c] = "answered"]
          /\ \A e \in Clients : e # c => reply'[e] = reply[e]
          /\ reply'[c].kind = "ok"
          /\ \E a \in AcceptedIn(WithFinished(c)) : reply'[c].returned = a.provider
      BY <2>2, <2>6, <2>7, <2>10, FinishEffect
    <3>2. \A e \in Clients : e # c => SameView(e)
      BY <2>1, <2>8, <3>1 DEF SameView, TypeOK
    <3>3. reply'[c].returned \in GoodOf(c)'
      <4>1. reply'[c].returned \in Acceptable(c)
        BY <2>7, <3>1
      <4> QED
        BY <2>5, <2>9, <4>1
    <3>4. phase'[c] = "answered"
      BY <3>1 DEF TypeOK
    <3> QED
      BY <2>5, <2>9, <3>1, <3>2, <3>3, <3>4, SucceedServed
  <2>11. CASE Left(c) # {}
    <3>1. phase' = [phase EXCEPT ![c] = "draining"] /\ reply' = reply
      BY <2>2, <2>11
    <3>2. \A e \in Clients : e # c => SameView(e)
      BY <2>1, <2>8, <3>1 DEF SameView, TypeOK
    <3>3. StateOf(c)' = "open" /\ reply'[c] = reply[c]
      BY <3>1 DEF StateOf, TypeOK
    <3>4. /\ dispatched'[c] = dispatched[c] \cup {} /\ {} \in SUBSET Providers
          /\ {} # {} => GoodOf(c) \cup Acceptable(c) = {}
      BY <2>9
    <3> QED
      BY <2>5, <2>9, <3>2, <3>3, <3>4, ProgressServed
  <2> QED
    BY <2>10, <2>11
<1>10. ASSUME NEW c \in Clients, Drain(c) PROVE ServiceStep
  <2> DEFINE canceled == {Attempt(c, p, "canceled") : p \in pending[c]}
             trace == attempts[c] \cup canceled
  <2>1. /\ phase[c] = "draining" /\ UNCHANGED dispatched
        /\ IF Unfinished(c) = {}
           THEN Finish(c, trace, payload[c])
           ELSE UNCHANGED <<phase, attempts, reply>>
    BY <1>10 DEF Drain, result
  <2>2. CASE Unfinished(c) # {}
    BY <2>1, <2>2, SameServed
  <2>3. CASE Unfinished(c) = {}
    <3>1. Racing(c) /\ RaceKept(c)
      BY <2>1, PhaseKind DEF Execution
    <3>2. /\ attempts[c] = {Settled(c, p) : p \in Returned(c)}
          /\ \E p \in Returned(c) : fate[c][p] = "accepted"
      BY <2>1, <3>1 DEF RaceKept
    <3>3. Returned(c) \in SUBSET Providers
      BY DEF Returned, Planned, TypeOK
    <3>4. canceled \in SUBSET Attempts
      BY AttemptsOfType
    <3>5. trace \in SUBSET Attempts
      BY <3>4 DEF TypeOK
    <3>6. \A a \in canceled : a.outcome = "canceled"
      BY DEF Attempt
    <3> HIDE DEF canceled
    <3>7. /\ \A a \in trace :
               a.outcome = "canceled" \/ \E p \in Returned(c) : a = Settled(c, p)
          /\ \A p \in Returned(c) : Settled(c, p) \in trace
      BY <3>2, <3>6
    <3>8. Finish(c, trace, payload[c])
      BY <2>1, <2>3
    <3> HIDE DEF trace
    <3>9. /\ {a.provider : a \in {b \in trace : b.outcome # "canceled"}} = Returned(c)
          /\ {a.provider : a \in AcceptedIn(trace)}
               = {p \in Returned(c) : fate[c][p] = "accepted"}
      BY <3>3, <3>7, SettledTells
    <3>10. AcceptedIn(trace) # {}
      BY <3>2, <3>9
    <3>11. /\ attempts' = [attempts EXCEPT ![c] = trace]
           /\ phase' = [phase EXCEPT ![c] = "answered"]
           /\ \A e \in Clients : e # c => reply'[e] = reply[e]
           /\ reply'[c].kind = "ok"
           /\ \E a \in AcceptedIn(trace) : reply'[c].returned = a.provider
      BY <3>5, <3>8, <3>10, FinishEffect
    <3>12. \A e \in Clients : e # c => SameView(e)
      BY <2>1, <3>11 DEF SameView, TypeOK
    <3>13. /\ HeardOf(c) = Returned(c) /\ StateOf(c) = "open"
           /\ GoodOf(c) = {p \in Returned(c) : fate[c][p] = "accepted"}
      BY <2>1, OpenView DEF StateOf
    <3>14. HeardOf(c)' = HeardOf(c) /\ GoodOf(c)' = GoodOf(c)
      <4>1. attempts'[c] = trace
        BY <3>11 DEF TypeOK
      <4> QED
        BY <3>9, <3>13, <4>1 DEF HeardOf, GoodOf
    <3>15. reply'[c].returned \in GoodOf(c)'
      <4>1. reply'[c].returned \in {a.provider : a \in AcceptedIn(trace)}
        BY <3>11
      <4> QED
        BY <3>9, <3>13, <3>14, <4>1
    <3>16. phase'[c] = "answered" /\ dispatched'[c] = dispatched[c]
      BY <2>1, <3>11 DEF TypeOK
    <3>17. /\ {} \in SUBSET Providers /\ {} \in SUBSET {}
           /\ {} \subseteq dispatched[c] \ HeardOf(c)
           /\ HeardOf(c)' = HeardOf(c) \cup {} /\ GoodOf(c)' = GoodOf(c) \cup {}
      BY <3>14
    <3> QED
      BY <3>11, <3>12, <3>13, <3>15, <3>16, <3>17, SucceedServed
  <2> QED
    BY <2>2, <2>3
<1>11. ASSUME NEW c \in Clients, NEW p \in Providers, SequentialStep(c, p)
       PROVE  ServiceStep
  <2>1. /\ phase[c] = "sequential" /\ probe[c][p] = "arrived" /\ fate[c][p] # "probe_error"
    BY <1>11 DEF SequentialStep
  <2>2. Looping(c) /\ LoopKept(c)
    BY <2>1, SequenceHead
  <2>3. PICK n \in DOMAIN order[c] :
          /\ Reached(c, n) /\ order[c][n] = p /\ Position(c, p) = n
          /\ \A i \in DOMAIN order[c] :
               /\ order[c][i] \in dispatched[c] <=> i <= n
               /\ i > n => probe[c][order[c][i]] = "planned"
          /\ dispatched[c] \subseteq Planned(order[c])
          /\ attempts[c] \cup {Attempt(c, p, fate[c][p])}
               = {Settled(c, q) : q \in dispatched[c]}
    BY <2>1, SequenceHead
  <2> DEFINE trace == {Settled(c, q) : q \in dispatched[c]}
             document == IF fate[c][p] = "accepted" THEN p ELSE None
             D == dispatched[c]
  <2>4. IF SequentialEnds(c, p)
        THEN /\ Finish(c, trace, document)
             /\ UNCHANGED dispatched
        ELSE LET q == order[c][n + 1] IN
             /\ dispatched' = [dispatched EXCEPT ![c] = @ \cup {q}]
             /\ attempts' = [attempts EXCEPT ![c] = trace]
             /\ UNCHANGED <<phase, reply>>
    BY <1>11, <2>3 DEF SequentialStep, MarkDispatched
  <2>5. trace \in SUBSET Attempts
    <3>1. Attempt(c, p, fate[c][p]) \in Attempts
      BY <2>1, AttemptsOfType
    <3> QED
      BY <2>3, <3>1 DEF TypeOK
  <2>6. fate[c][p] \in {"accepted", "unacceptable"}
    BY <2>1 DEF TypeOK, AllOutcomes, Kept, OutcomesKnown
  <2>7. /\ \A a \in trace : a.outcome = "canceled" \/ \E q \in D : a = Settled(c, q)
        /\ \A q \in D : Settled(c, q) \in trace
    OBVIOUS
  <2>8. D \in SUBSET Providers /\ p \in D
    <3>1. n \in Nat
      BY SMTT(30) DEF TypeOK
    <3> QED
      BY <2>3, <3>1 DEF TypeOK
  <2>9. HeardOf(c) = D \ {p} /\ GoodOf(c) = {} /\ StateOf(c) = "open"
    BY <2>1, <2>3, OpenView DEF StateOf
  <2> HIDE DEF trace, document
  <2>10. /\ {a.provider : a \in {b \in trace : b.outcome # "canceled"}} = D
         /\ {a.provider : a \in AcceptedIn(trace)} = {q \in D : fate[c][q] = "accepted"}
    <3>1. TypeOK /\ c \in Clients /\ D \in SUBSET Providers
      BY <2>8
    <3>2. \A a \in trace : a.outcome = "canceled" \/ \E q \in D : a = Settled(c, q)
      BY <2>7
    <3>3. \A q \in D : Settled(c, q) \in trace
      BY <2>7
    <3> HIDE DEF D
    <3> QED
      BY ONLY <3>1, <3>2, <3>3, SettledTells
  <2>11. {q \in D : fate[c][q] = "accepted"} = IF fate[c][p] = "accepted" THEN {p} ELSE {}
    <3>1. ASSUME NEW q \in D, q # p PROVE fate[c][q] = "unacceptable"
      <4>1. order[c] \in Seq(Providers)
        BY DEF TypeOK
      <4>2. PICK i \in 1..n : q = order[c][i]
        BY <2>3 DEF Reached
      <4>3. i \in 1..(n - 1)
        BY <2>3, <3>1, <4>1, <4>2
      <4> QED
        BY <2>3, <4>2, <4>3 DEF Reached
    <3> QED
      BY <2>8, <3>1
  <2>12. /\ attempts' = [attempts EXCEPT ![c] = trace]
         /\ HeardOf(c)' = HeardOf(c) \cup {p}
         /\ GoodOf(c)' = IF fate[c][p] = "accepted" THEN {p} ELSE {}
    <3>1. attempts' = [attempts EXCEPT ![c] = trace]
      BY <2>4, <2>5, FinishEffect
    <3>2. attempts'[c] = trace
      BY <3>1 DEF TypeOK
    <3>3. /\ HeardOf(c)' = D
          /\ GoodOf(c)' = IF fate[c][p] = "accepted" THEN {p} ELSE {}
      BY <2>10, <2>11, <3>2 DEF HeardOf, GoodOf
    <3> QED
      BY <2>8, <2>9, <3>1, <3>3
  <2>13. {p} \subseteq dispatched[c] \ HeardOf(c) /\ {p} \in SUBSET Providers
    BY <2>8, <2>9
  <2>14. ASSUME SequentialEnds(c, p)
         PROVE  /\ dispatched'[c] = dispatched[c] /\ phase'[c] = "answered"
                /\ \A e \in Clients : e # c => SameView(e)
    <3>1. /\ phase' = [phase EXCEPT ![c] = "answered"] /\ dispatched' = dispatched
          /\ \A e \in Clients : e # c => reply'[e] = reply[e]
      BY <2>4, <2>5, <2>14, FinishEffect
    <3> QED
      BY <2>12, <3>1 DEF SameView, TypeOK
  <2>15. CASE SequentialEnds(c, p) /\ fate[c][p] = "accepted"
    <3>1. AcceptedIn(trace) # {} /\ {a.provider : a \in AcceptedIn(trace)} = {p}
      BY <2>10, <2>11, <2>15
    <3>2. /\ reply'[c].kind = "ok"
          /\ \E a \in AcceptedIn(trace) : reply'[c].returned = a.provider
      BY <2>4, <2>5, <2>15, <3>1, FinishEffect
    <3>3. reply'[c].returned \in GoodOf(c)'
      <4>1. reply'[c].returned \in {a.provider : a \in AcceptedIn(trace)}
        BY <3>2
      <4> QED
        BY <2>12, <2>15, <3>1, <4>1
    <3>4. GoodOf(c)' = GoodOf(c) \cup {p} /\ {p} \in SUBSET {p}
      BY <2>9, <2>12, <2>15
    <3>5. dispatched'[c] = dispatched[c] /\ phase'[c] = "answered"
          /\ \A e \in Clients : e # c => SameView(e)
      BY <2>14, <2>15
    <3> QED
      BY <2>9, <2>12, <2>13, <3>2, <3>3, <3>4, <3>5, SucceedServed
  <2>16. CASE SequentialEnds(c, p) /\ fate[c][p] # "accepted"
    <3>1. AcceptedIn(trace) = {}
      BY <2>10, <2>11, <2>16
    <3>2. reply'[c].kind = "noAcceptableResult" /\ reply'[c].returned = None
      BY <2>4, <2>5, <2>16, <3>1, FinishEffect
    <3>3. /\ HeardOf(c) \cup {p} = dispatched[c] /\ dispatched[c] # {} /\ GoodOf(c)' = {}
      BY <2>8, <2>9, <2>12, <2>16
    <3>4. dispatched'[c] = dispatched[c] /\ phase'[c] = "answered"
          /\ \A e \in Clients : e # c => SameView(e)
      BY <2>14, <2>16
    <3> QED
      BY <2>9, <2>12, <2>13, <3>2, <3>3, <3>4, FailServed
  <2>17. CASE ~SequentialEnds(c, p)
    <3>1. /\ fate[c][p] # "accepted" /\ n # Len(order[c])
      BY <2>3, <2>17 DEF SequentialEnds, IsLast
    <3>2. n + 1 \in DOMAIN order[c] /\ order[c][n + 1] \in Providers
      BY <3>1, SMTT(30) DEF TypeOK
    <3>3. PICK q \in Providers : q = order[c][n + 1]
      BY <3>2
    <3>4. /\ dispatched' = [dispatched EXCEPT ![c] = @ \cup {q}]
          /\ phase' = phase /\ reply' = reply
      BY <2>4, <2>17, <3>3
    <3>5. \A e \in Clients : e # c => SameView(e)
      BY <2>12, <3>4 DEF SameView, TypeOK
    <3>6. /\ dispatched'[c] = dispatched[c] \cup {q} /\ GoodOf(c)' = GoodOf(c) \cup {}
          /\ {q} # {} => GoodOf(c) \cup {} = {}
          /\ StateOf(c)' = "open" /\ reply'[c] = reply[c]
          /\ {q} \in SUBSET Providers /\ {} \in SUBSET {p}
      BY <2>1, <2>9, <2>12, <3>1, <3>4 DEF StateOf, TypeOK
    <3> QED
      BY <2>9, <2>12, <2>13, <3>5, <3>6, ProgressServed
  <2> QED
    BY <2>15, <2>16, <2>17
<1>12. ASSUME NEW c \in Clients, NEW p \in Providers, SequentialCrash(c, p)
       PROVE  ServiceStep
  <2>1. /\ phase[c] = "sequential" /\ probe[c][p] = "arrived" /\ UNCHANGED dispatched
        /\ attempts' = [attempts EXCEPT ![c] = {}]
        /\ phase' = [phase EXCEPT ![c] = "answered"]
        /\ reply' = [reply EXCEPT ![c] =
                       [kind |-> "crashed", returned |-> None, document |-> None]]
    BY <1>12 DEF SequentialCrash, Reply
  <2>2. PICK n \in DOMAIN order[c] : Reached(c, n) /\ order[c][n] = p
    BY <2>1, SequenceHead
  <2>3. /\ GoodOf(c) = {} /\ StateOf(c) = "open" /\ dispatched[c] # {}
    <3>1. n \in 1..n
      BY SMTT(30) DEF TypeOK
    <3> QED
      BY <2>1, <2>2, <3>1, OpenView DEF StateOf, Reached
  <2>4. \A e \in Clients : e # c => SameView(e)
    BY <2>1 DEF SameView, TypeOK
  <2>5. /\ HeardOf(c)' = {} /\ GoodOf(c)' = {} /\ phase'[c] = "answered"
        /\ reply'[c].kind = "crashed" /\ reply'[c].returned = None
    BY <2>1 DEF HeardOf, GoodOf, AcceptedIn, TypeOK
  <2>6. Served!Close(c, "crashed", None)
    BY <2>4, <2>5, CloseServed
  <2>7. /\ [e \in Clients |-> HeardOf(e)]'
             = [[e \in Clients |-> HeardOf(e)] EXCEPT ![c] = {}]
        /\ [e \in Clients |-> GoodOf(e)]'
             = [[e \in Clients |-> GoodOf(e)] EXCEPT ![c] = {}]
    BY <2>4, <2>5, OthersServed
  <2>8. [e \in Clients |-> GoodOf(e)]' = [e \in Clients |-> GoodOf(e)]
    BY <2>3, <2>7
  <2>9. /\ [e \in Clients |-> GoodOf(e)][c] = {} /\ [e \in Clients |-> StateOf(e)][c] = "open"
    BY <2>3
  <2>10. Served!Crash(c)
    BY <2>1, <2>3, <2>6, <2>7, <2>8, <2>9 DEF Served!Crash, StateOf, HeardOf, GoodOf
  <2> QED
    BY <2>10 DEF ServiceStep, Served!Next
<1> QED
  BY <1>1, <1>2, <1>3, <1>4, <1>5, <1>6, <1>7, <1>8, <1>9, <1>10, <1>11, <1>12
     DEF Next, RunLoop, Handler, ProbeStep, Select
(***************************************************************************)
(* The router implements ResolutionService: a request never contacts       *)
(* another provider once it knows an acceptable result, succeeds with a    *)
(* provider whose result was acceptable, and fails only after it has heard *)
(* from everyone it contacted, under every schedule of the event loop.     *)
(***************************************************************************)
THEOREM RouterKeepsPromise == Spec => KeepsPromise
<1>1. Init => Served!Init
  BY DEF Init, Served!Init, AcceptedIn, NoReply
<1>2. IInv /\ TraceInv /\ (IInv /\ TraceInv)' /\ [Next]_vars => [Served!Next]_Served!vars
  BY ServiceSteps DEF ServiceStep
<1> QED
  BY <1>1, <1>2, RouterTrace, PTL DEF Spec, KeepsPromise, Served!Spec
=============================================================================
