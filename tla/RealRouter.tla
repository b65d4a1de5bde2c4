----------------------------- MODULE RealRouter -----------------------------
(***************************************************************************)
(* The real DID routing service: POST /resolve of real_router/app.py, the  *)
(* sequential and concurrent execution of a plan by executor.py, and the   *)
(* budgets both share, on one asyncio event loop.                          *)
(*                                                                         *)
(* The loop runs the callbacks in ready one at a time and in order; code   *)
(* between two awaits is one step.  A callback is a step of a handler, of  *)
(* a task of a race, or the done-callback asyncio.wait put on a task.      *)
(* A definition called Fault is a mistake the code does not make, see      *)
(* BudgetWindow.                                                           *)
(***************************************************************************)
EXTENDS RoutingPolicies

CONSTANTS
    Clients,        \* connections that can have a request in flight
    Asks,           \* requests they send: [policy, method], method None for
                    \* a malformed DID
    Outcomes,       \* how a probe can end, a subset of AllOutcomes
    MaxTime,        \* bound on the clock
    MaxRequests     \* bound on the requests of a run

\* An HTTP error, an unacceptable body, a timeout and a connection error are
\* all an unacceptable ProbeOutcome; any other exception leaves the probe.
AllOutcomes == {"accepted", "unacceptable", "probe_error"}

ASSUME RouterAssumption ==
    /\ IsFiniteSet(Clients) /\ Clients # {}
    /\ IsFiniteSet(Providers) /\ None \notin Providers
    /\ Outcomes \subseteq AllOutcomes
    /\ MaxTime \in Nat /\ MaxRequests \in Nat

VARIABLES
    now,            \* time.monotonic()
    charges,        \* _charges of every provider's budget
    ready,          \* callbacks scheduled on the event loop
    issued,         \* requests sent so far
    ask,            \* the request of each client
    phase,          \* how far its handler is
    order,          \* plan.attempt_order()
    probe,          \* how far the probe of each provider is
    fate,           \* how it ended
    dispatched,     \* providers whose DispatchState is marked
    pending,        \* the pending set of the race
    woken,          \* whether the future inside asyncio.wait is set
    awaiting,       \* the canceled task the handler is awaiting
    attempts,       \* the attempts of execute; the sink gets them at the end
    payload,        \* provider whose body is winning_payload
    reply,          \* the response
    first           \* history: first task of the race to end accepted

loop == <<now, charges, ready>>
race == <<pending, woken, awaiting, first>>
result == <<attempts, payload, reply>>
vars == <<loop, issued, ask, phase, order, probe, fate, dispatched, race, result>>

Phases == {"idle", "queued", "sequential", "racing", "draining", "answered"}
ProbeStates ==
    {"none", "planned", "waiting", "arrived", "done", "cancelling", "canceled"}

Handle(kind, c, p) == [kind |-> kind, client |-> c, provider |-> p]
Handles ==
    [kind : {"handler", "task", "resume", "completed", "wake"},
     client : Clients, provider : Providers \cup {None}]

NoReply == [kind |-> "none", returned |-> None, document |-> None]
Replies ==
    [kind : {"none", "refused", "ok", "noAcceptableResult", "crashed"},
     returned : Providers \cup {None}, document : Providers \cup {None}]

Planned(o) == {o[i] : i \in DOMAIN o}
Position(c, p) == CHOOSE i \in DOMAIN order[c] : order[c][i] = p

Attempt(c, p, outcome) ==
    [provider |-> p, position |-> Position(c, p), outcome |-> outcome,
     dispatched |-> p \in dispatched[c]]
Attempts ==
    [provider : Providers, position : Nat,
     outcome : AllOutcomes \cup {"canceled"}, dispatched : BOOLEAN]

AcceptedIn(trace) == {a \in trace : a.outcome = "accepted"}

Init ==
    /\ now = 0
    /\ charges = [p \in Providers |-> << >>]
    /\ ready = << >>
    /\ issued = 0
    /\ ask = [c \in Clients |-> None]
    /\ phase = [c \in Clients |-> "idle"]
    /\ order = [c \in Clients |-> << >>]
    /\ probe = [c \in Clients |-> [p \in Providers |-> "none"]]
    /\ fate = [c \in Clients |-> [p \in Providers |-> "none"]]
    /\ dispatched = [c \in Clients |-> {}]
    /\ pending = [c \in Clients |-> {}]
    /\ woken = [c \in Clients |-> FALSE]
    /\ awaiting = [c \in Clients |-> None]
    /\ attempts = [c \in Clients |-> {}]
    /\ payload = [c \in Clients |-> None]
    /\ reply = [c \in Clients |-> NoReply]
    /\ first = [c \in Clients |-> None]

-----------------------------------------------------------------------------
(* The event loop. *)

Head1(kind, c, p) == ready # << >> /\ Head(ready) = Handle(kind, c, p)

\* The step that runs schedules new callbacks behind those already there.
Run(new) == ready' = Tail(ready) \o new

Tick ==
    /\ now < MaxTime
    /\ now' = now + 1
    /\ UNCHANGED <<charges, ready, issued, ask, phase, order, probe, fate,
                   dispatched, race, result>>

\* A request arrives; what is left of the client's previous one is dropped.
\* Callbacks of that one belong to other futures, so none may be left over.
Submit(c) ==
    /\ phase[c] \in {"idle", "answered"}
    /\ issued < MaxRequests
    /\ \A i \in DOMAIN ready : ready[i].client # c
    /\ \E a \in Asks : ask' = [ask EXCEPT ![c] = a]
    /\ issued' = issued + 1
    /\ phase' = [phase EXCEPT ![c] = "queued"]
    /\ ready' = Append(ready, Handle("handler", c, None))
    /\ order' = [order EXCEPT ![c] = << >>]
    /\ probe' = [probe EXCEPT ![c] = [p \in Providers |-> "none"]]
    /\ fate' = [fate EXCEPT ![c] = [p \in Providers |-> "none"]]
    /\ dispatched' = [dispatched EXCEPT ![c] = {}]
    /\ pending' = [pending EXCEPT ![c] = {}]
    /\ woken' = [woken EXCEPT ![c] = FALSE]
    /\ awaiting' = [awaiting EXCEPT ![c] = None]
    /\ attempts' = [attempts EXCEPT ![c] = {}]
    /\ payload' = [payload EXCEPT ![c] = None]
    /\ reply' = [reply EXCEPT ![c] = NoReply]
    /\ first' = [first EXCEPT ![c] = None]
    /\ UNCHANGED <<now, charges>>

-----------------------------------------------------------------------------
(* The handler up to its first await. *)

WellFormed(a) == a.policy \in Configured /\ a.method # None

Reply(c, kind, returned, document) ==
    /\ phase' = [phase EXCEPT ![c] = "answered"]
    /\ reply' = [reply EXCEPT ![c] =
                   [kind |-> kind, returned |-> returned, document |-> document]]

\* unknownPolicy and invalidDid: nothing is looked at.
Reject(c) ==
    /\ Head1("handler", c, None)
    /\ phase[c] = "queued"
    /\ ~WellFormed(ask[c])
    /\ Run(<< >>)
    /\ Reply(c, "refused", None, None)
    /\ UNCHANGED <<now, charges, issued, ask, order, probe, fate, dispatched,
                   race, attempts, payload>>

\* The candidates do not satisfy the policy: too few, an unqualified target,
\* or no subset that the planner of adaptive-min-set accepts.
Refuse(c) ==
    /\ Head1("handler", c, None)
    /\ phase[c] = "queued"
    /\ WellFormed(ask[c])
    /\ LET S == Candidates(ask[c].method, charges, now) IN
       \/ Cardinality(S) < MinProviders(ask[c].policy)
       \/ Plans(ask[c].policy, S) = {}
       \/ ask[c].policy = "adaptive-min-set"
    /\ charges' = AfterSelection(ask[c].method, charges, now)
    /\ Run(<< >>)
    /\ Reply(c, "refused", None, None)
    /\ UNCHANGED <<now, issued, ask, order, probe, fate, dispatched, race,
                   attempts, payload>>

\* The orders the policy of the request may plan, for its execution mode.
Planning(c, concurrent) ==
    LET S == Candidates(ask[c].method, charges, now) IN
    {o \in Plans(ask[c].policy, S) :
       /\ Concurrent(ask[c].policy) = concurrent
       /\ Cardinality(S) >= MinProviders(ask[c].policy)}

\* _run_sequential as far as its first probe.
StartSequential(c) ==
    /\ Head1("handler", c, None)
    /\ phase[c] = "queued"
    /\ WellFormed(ask[c])
    /\ \E o \in Planning(c, FALSE) :
      LET selected == AfterSelection(ask[c].method, charges, now) IN
      /\ order' = [order EXCEPT ![c] = o]
      /\ charges' = [selected EXCEPT ![o[1]] = Charged(o[1], @, now)]
      /\ probe' = [probe EXCEPT ![c] =
                     [p \in Providers |-> IF p = o[1] THEN "waiting"
                                          ELSE IF p \in Planned(o) THEN "planned"
                                          ELSE "none"]]
      /\ dispatched' = [dispatched EXCEPT ![c] = {o[1]}]
      /\ phase' = [phase EXCEPT ![c] = "sequential"]
      /\ Run(<< >>)
      /\ UNCHANGED <<now, issued, ask, fate, race, result>>

\* _run_concurrent as far as asyncio.wait: a task per provider, none started.
StartRace(c) ==
    /\ Head1("handler", c, None)
    /\ phase[c] = "queued"
    /\ WellFormed(ask[c])
    /\ \E o \in Planning(c, TRUE) :
      /\ order' = [order EXCEPT ![c] = o]
      /\ charges' = AfterSelection(ask[c].method, charges, now)
      /\ probe' = [probe EXCEPT ![c] =
                     [p \in Providers |-> IF p \in Planned(o) THEN "planned" ELSE "none"]]
      /\ pending' = [pending EXCEPT ![c] = Planned(o)]
      /\ phase' = [phase EXCEPT ![c] = "racing"]
      /\ Run([i \in DOMAIN o |-> Handle("task", c, o[i])])
      /\ UNCHANGED <<now, issued, ask, fate, dispatched, woken, awaiting, first,
                     result>>

-----------------------------------------------------------------------------
(* The tasks of a race: launch() and probe_provider. *)

\* state.dispatched is set just before the request leaves.
MarkDispatched(c, p) == dispatched' = [dispatched EXCEPT ![c] = @ \cup {p}]

\* The first step of a task: charge, mark the dispatch, and wait for the answer.
LaunchTask(c, p) ==
    /\ Head1("task", c, p)
    /\ probe[c][p] = "planned"
    /\ charges' = [charges EXCEPT ![p] = Charged(p, @, now)]
    /\ MarkDispatched(c, p)
    /\ probe' = [probe EXCEPT ![c][p] = "waiting"]
    /\ Run(<< >>)
    /\ UNCHANGED <<now, issued, ask, phase, order, fate, race, result>>

\* The provider answers, fails or times out; the probe is scheduled again.
Deliver(c, p) ==
    /\ probe[c][p] = "waiting"
    /\ \E outcome \in Outcomes :
      /\ probe' = [probe EXCEPT ![c][p] = "arrived"]
      /\ fate' = [fate EXCEPT ![c][p] = outcome]
      /\ ready' = Append(ready, Handle("resume", c, p))
      /\ UNCHANGED <<now, charges, issued, ask, phase, order, dispatched, race,
                     result>>

\* The last step of a task that was not canceled; its done-callback follows.
EndTask(c, p) ==
    /\ Head1("resume", c, p)
    /\ phase[c] # "sequential"
    /\ probe[c][p] = "arrived"
    /\ probe' = [probe EXCEPT ![c][p] = "done"]
    /\ first' = [first EXCEPT ![c] =
                   IF @ = None /\ fate[c][p] = "accepted" THEN p ELSE @]
    /\ Run(<<Handle("completed", c, p)>>)
    /\ UNCHANGED <<now, charges, issued, ask, phase, order, fate, dispatched,
                   pending, woken, awaiting, result>>

\* The step of a canceled task: CancelledError is raised at its await, or in
\* place of its first step.  The handler is woken if it awaits this task.
CancelStep(c, p) ==
    /\ \E kind \in {"task", "resume"} : Head1(kind, c, p)
    /\ probe[c][p] = "cancelling"
    /\ probe' = [probe EXCEPT ![c][p] = "canceled"]
    /\ Run(IF awaiting[c] = p THEN <<Handle("wake", c, None)>> ELSE << >>)
    /\ UNCHANGED <<now, charges, issued, ask, phase, order, fate, dispatched,
                   race, result>>

-----------------------------------------------------------------------------
(* asyncio.wait and the handler of a race. *)

\* Fault: only an acceptable completion wakes the handler.
NotifiesAcceptance(c, p) ==
    p \in pending[c] /\ ~woken[c] /\ fate[c][p] = "accepted"

\* The first completion among the tasks of the wait in progress sets its
\* future.  The callback of a task an earlier wait returned finds that set.
Notifies(c, p) == p \in pending[c] /\ ~woken[c]

\* _on_completion, the done-callback.
Completed(c, p) ==
    /\ Head1("completed", c, p)
    /\ woken' = [woken EXCEPT ![c] = @ \/ Notifies(c, p)]
    /\ Run(IF Notifies(c, p) THEN <<Handle("wake", c, None)>> ELSE << >>)
    /\ UNCHANGED <<now, charges, issued, ask, phase, order, probe, fate,
                   dispatched, pending, awaiting, first, result>>

\* The end of execute and of resolve: the trace goes to the sink, and the
\* record names the accepted attempt with the lowest launch position.
Finish(c, trace, document) ==
    LET accepted == AcceptedIn(trace) IN
    /\ attempts' = [attempts EXCEPT ![c] = trace]
    /\ payload' = [payload EXCEPT ![c] = document]
    /\ IF accepted = {}
       THEN Reply(c, "noAcceptableResult", None, None)
       ELSE LET winner == CHOOSE a \in accepted :
                            \A b \in accepted : a.position <= b.position
            IN  Reply(c, "ok", winner.provider, document)

\* The tasks asyncio.wait returns as done, and the attempts made of them.
Finished(c) == {p \in pending[c] : probe[c][p] = "done"}
Acceptable(c) == {p \in Finished(c) : fate[c][p] = "accepted"}
AttemptsOf(c, S) == {Attempt(c, p, fate[c][p]) : p \in S}

\* Fault: the loop goes on with the next task before it records a failed one.
WithAccepted(c) == attempts[c] \cup AttemptsOf(c, Acceptable(c))

\* Fault: the loop is left before it records the accepted one.
WithUnaccepted(c) == attempts[c] \cup AttemptsOf(c, Finished(c) \ Acceptable(c))

WithFinished(c) == attempts[c] \cup AttemptsOf(c, Finished(c))

\* Fault: the first completion ends the race, acceptable or not.
LeftIfAccepted(c) == IF Acceptable(c) = {} THEN {} ELSE pending[c] \ Finished(c)

\* Fault: the tasks that lose are forgotten, not canceled and awaited.
LeftIfLosing(c) == IF Acceptable(c) = {} THEN pending[c] \ Finished(c) ELSE {}

\* The pending set asyncio.wait returns.
Left(c) == pending[c] \ Finished(c)

\* Nothing acceptable yet: wait for the rest, or end if there is none.
WakeLosing(c) ==
    /\ Head1("wake", c, None)
    /\ phase[c] = "racing"
    /\ Acceptable(c) = {}
    /\ Run(<< >>)
    /\ pending' = [pending EXCEPT ![c] = Left(c)]
    /\ woken' = [woken EXCEPT ![c] = FALSE]
    /\ IF Left(c) = {}
       THEN Finish(c, WithFinished(c), None)
       ELSE /\ attempts' = [attempts EXCEPT ![c] = WithFinished(c)]
            /\ UNCHANGED <<phase, payload, reply>>
    /\ UNCHANGED <<now, charges, issued, ask, order, probe, fate, dispatched,
                   awaiting, first>>

\* Some task is acceptable; done is a set, so any such task may supply the
\* payload.  The others are canceled: one that waits is scheduled to see the
\* CancelledError, one already scheduled sees it in its next step.
WakeWinning(c) ==
    LET waiting == {p \in Left(c) : probe[c][p] = "waiting"} IN
    /\ Head1("wake", c, None)
    /\ phase[c] = "racing"
    /\ \E document \in Acceptable(c) :
      /\ pending' = [pending EXCEPT ![c] = Left(c)]
      /\ probe' = [probe EXCEPT ![c] =
                     [p \in Providers |-> IF p \in Left(c) THEN "cancelling" ELSE @[p]]]
      /\ \E o \in Arrangements(waiting) :
           Run([i \in DOMAIN o |-> Handle("resume", c, o[i])])
      /\ IF Left(c) = {}
         THEN /\ Finish(c, WithFinished(c), document)
              /\ UNCHANGED awaiting
         ELSE /\ \E p \in Left(c) : awaiting' = [awaiting EXCEPT ![c] = p]
              /\ attempts' = [attempts EXCEPT ![c] = WithFinished(c)]
              /\ payload' = [payload EXCEPT ![c] = document]
              /\ phase' = [phase EXCEPT ![c] = "draining"]
              /\ UNCHANGED reply
      /\ UNCHANGED <<now, charges, issued, ask, order, fate, dispatched, woken,
                     first>>

\* The canceled tasks that are not over.
Unfinished(c) == {p \in pending[c] : probe[c][p] = "cancelling"}

\* The awaited task is over.  The handler awaits the next one that is not, and
\* describes every canceled attempt when none is left.
Drain(c) ==
    LET canceled == {Attempt(c, p, "canceled") : p \in pending[c]} IN
    /\ Head1("wake", c, None)
    /\ phase[c] = "draining"
    /\ Run(<< >>)
    /\ IF Unfinished(c) = {}
       THEN /\ Finish(c, attempts[c] \cup canceled, payload[c])
            /\ awaiting' = [awaiting EXCEPT ![c] = None]
       ELSE /\ \E p \in Unfinished(c) : awaiting' = [awaiting EXCEPT ![c] = p]
            /\ UNCHANGED <<phase, result>>
    /\ UNCHANGED <<now, charges, issued, ask, order, probe, fate, dispatched,
                   pending, woken, first>>

-----------------------------------------------------------------------------
(* _run_sequential after each probe. *)

\* The loop ends at p; the providers after it are not contacted.
Stopped(c, p) ==
    [q \in Providers |->
       IF q = p THEN "done"
       ELSE IF probe[c][q] = "planned" THEN "none"
       ELSE probe[c][q]]

IsLast(c, p) == Position(c, p) = Len(order[c])

\* Fault: every provider of the order is tried.
EndsAtLast(c, p) == IsLast(c, p)

\* The break on an acceptable outcome, and the end of the loop.
SequentialEnds(c, p) == fate[c][p] = "accepted" \/ IsLast(c, p)

\* The probe returned an outcome: stop on an acceptable one, else go on with
\* the next provider of the order, charging it first.
SequentialStep(c, p) ==
    LET trace == attempts[c] \cup {Attempt(c, p, fate[c][p])}
        document == IF fate[c][p] = "accepted" THEN p ELSE None
    IN
    /\ Head1("resume", c, p)
    /\ phase[c] = "sequential"
    /\ probe[c][p] = "arrived"
    /\ fate[c][p] # "probe_error"
    /\ Run(<< >>)
    /\ IF SequentialEnds(c, p)
       THEN /\ probe' = [probe EXCEPT ![c] = Stopped(c, p)]
            /\ Finish(c, trace, document)
            /\ UNCHANGED <<charges, dispatched>>
       ELSE LET q == order[c][Position(c, p) + 1] IN
            /\ probe' = [probe EXCEPT ![c][p] = "done", ![c][q] = "waiting"]
            /\ charges' = [charges EXCEPT ![q] = Charged(q, @, now)]
            /\ MarkDispatched(c, q)
            /\ attempts' = [attempts EXCEPT ![c] = trace]
            /\ UNCHANGED <<phase, payload, reply>>
    /\ UNCHANGED <<now, issued, ask, order, fate, race>>

\* probe_provider raised: nothing in _run_sequential, execute or resolve
\* catches it, so the list of attempts is lost and the service answers 500.
SequentialCrash(c, p) ==
    /\ Head1("resume", c, p)
    /\ phase[c] = "sequential"
    /\ probe[c][p] = "arrived"
    /\ fate[c][p] = "probe_error"
    /\ probe' = [probe EXCEPT ![c] = Stopped(c, p)]
    /\ Run(<< >>)
    /\ attempts' = [attempts EXCEPT ![c] = {}]
    /\ Reply(c, "crashed", None, None)
    /\ UNCHANGED <<now, charges, issued, ask, order, fate, dispatched, race,
                   payload>>

\* GET /providers: reading every budget prunes every queue.
Snapshot ==
    /\ charges' = [p \in Providers |-> Prune(p, charges[p], now)]
    /\ charges' # charges
    /\ UNCHANGED <<now, ready, issued, ask, phase, order, probe, fate,
                   dispatched, race, result>>

\* Nothing is ready: the loop blocks in its selector.
Select ==
    /\ ready = << >>
    /\ UNCHANGED vars

-----------------------------------------------------------------------------
Handler(c) ==
    \/ Reject(c) \/ Refuse(c) \/ StartSequential(c) \/ StartRace(c)
    \/ WakeLosing(c) \/ WakeWinning(c) \/ Drain(c)

ProbeStep(c, p) ==
    \/ LaunchTask(c, p) \/ EndTask(c, p) \/ CancelStep(c, p) \/ Completed(c, p)
    \/ SequentialStep(c, p) \/ SequentialCrash(c, p)

RunLoop ==
    \/ \E c \in Clients : Handler(c)
    \/ \E c \in Clients, p \in Providers : ProbeStep(c, p)

Next ==
    \/ Tick
    \/ \E c \in Clients : Submit(c)
    \/ RunLoop
    \/ \E c \in Clients, p \in Providers : Deliver(c, p)
    \/ Snapshot
    \/ Select

Spec == Init /\ [][Next]_vars

\* The loop keeps running what is ready, and every probe ends: httpx gives up
\* on a connection that is silent for timeout_ms.
Fairness ==
    /\ WF_vars(RunLoop)
    /\ \A c \in Clients, p \in Providers : WF_vars(Deliver(c, p))

FairSpec == Spec /\ Fairness

-----------------------------------------------------------------------------
TypeOK ==
    /\ now \in 0..MaxTime
    /\ charges \in [Providers -> Seq(0..MaxTime)]
    /\ ready \in Seq(Handles)
    /\ issued \in 0..MaxRequests
    /\ ask \in [Clients -> Asks \cup {None}]
    /\ phase \in [Clients -> Phases]
    /\ order \in [Clients -> Seq(Providers)]
    /\ probe \in [Clients -> [Providers -> ProbeStates]]
    /\ fate \in [Clients -> [Providers -> AllOutcomes \cup {"none"}]]
    /\ dispatched \in [Clients -> SUBSET Providers]
    /\ pending \in [Clients -> SUBSET Providers]
    /\ woken \in [Clients -> BOOLEAN]
    /\ awaiting \in [Clients -> Providers \cup {None}]
    /\ attempts \in [Clients -> SUBSET Attempts]
    /\ payload \in [Clients -> Providers \cup {None}]
    /\ reply \in [Clients -> Replies]
    /\ first \in [Clients -> Providers \cup {None}]

Executed(c) == reply[c].kind \in {"ok", "noAcceptableResult"}
Recorded(c) == {a.provider : a \in attempts[c]}

\* A race never claims to have spared a provider: every task has dispatched
\* its request before a completion can wake the handler, so whatever it cancels
\* is canceled_after_dispatch (executor.py, the cancellation loop).
CanceledWasDispatched ==
    \A c \in Clients : \A a \in attempts[c] : a.outcome = "canceled" => a.dispatched

\* The trace of an executed plan has exactly one attempt for each provider
\* contacted, at the position the plan launched it, and the positions have no
\* gaps; a race has one for every provider of the plan, and those it canceled
\* had been dispatched.
TraceComplete ==
    /\ CanceledWasDispatched
    /\ \A c \in Clients : Executed(c) =>
         /\ Recorded(c) = dispatched[c]
         /\ Cardinality(attempts[c]) = Cardinality(dispatched[c])
         /\ {a.position : a \in attempts[c]} = 1..Cardinality(dispatched[c])
         /\ Concurrent(ask[c].policy) => dispatched[c] = Planned(order[c])

\* When the service has answered, no probe of that request is still running or
\* scheduled: the race awaits every task it cancels before it returns.
NoProbeOutlivesItsRequest ==
    \A c \in Clients : phase[c] = "answered" =>
      /\ \A p \in Providers : probe[c][p] \notin {"waiting", "arrived", "cancelling"}
      /\ \A i \in DOMAIN ready :
           ready[i].client = c => ready[i].kind = "completed"

\* The first task of a race to end with an acceptable result is never thrown
\* away: the request succeeds, and that attempt is recorded as accepted.
FirstAcceptanceCounts ==
    \A c \in Clients : phase[c] = "answered" /\ first[c] # None =>
      /\ reply[c].kind = "ok"
      /\ first[c] \in {a.provider : a \in AcceptedIn(attempts[c])}

\* noAcceptableResult is answered only when every planned provider was
\* contacted, its probe ended by itself, and none was acceptable.
FailureIsExhaustive ==
    \A c \in Clients : reply[c].kind = "noAcceptableResult" =>
      \A p \in Planned(order[c]) :
        /\ probe[c][p] = "done"
        /\ fate[c][p] # "accepted"
        /\ p \in dispatched[c]

\* Sequential execution has one probe at a time and stops at a success: all
\* the providers contacted but the last have ended, without being acceptable.
OneProbeAtATime ==
    \A c \in Clients :
      order[c] # << >> /\ ~Concurrent(ask[c].policy) =>
        \A p, q \in dispatched[c] :
          Position(c, p) < Position(c, q) =>
            probe[c][p] = "done" /\ fate[c][p] = "unacceptable"

\* Every request that reaches the service is answered.
EveryRequestAnswered ==
    \A c \in Clients : phase[c] = "queued" ~> phase[c] = "answered"

\* What the router has been admitted to and has not charged yet.
Permits == [c \in Clients |-> {p \in Providers : probe[c][p] = "planned"}]

Budgets == INSTANCE ProviderBudget WITH
    Callers <- Clients, MaxQueue <- MaxRequests, permits <- Permits

\* The router uses the shared budgets as ProviderBudget says: it charges only
\* providers it was admitted to, each once, and gives the rest up.
UsesBudgets == Budgets!Spec

\* The overspend of a limited provider is bounded by the requests in flight.
OverspendBounded == Budgets!OverspendBounded

\* budget.py and README_EN.md: a provider whose budget would be exceeded is
\* skipped before it is called.
NeverOverspent == Budgets!NeverOverspent

\* executor.py: the first structurally acceptable completion wins.  It is the
\* result returned, and the provider named with it.
FirstCompletionWins ==
    \A c \in Clients : reply[c].kind = "ok" /\ Concurrent(ask[c].policy) =>
      reply[c].returned = first[c] /\ reply[c].document = first[c]

\* policies.py: sequential-failover tries the providers in order until one is
\* acceptable, so without an acceptable one it has tried them all.
FailoverTriesEveryone ==
    \A c \in Clients :
      /\ phase[c] = "answered"
      /\ order[c] # << >>
      /\ ~Concurrent(ask[c].policy)
      /\ reply[c].kind # "ok"
      => dispatched[c] = Planned(order[c])

Served == INSTANCE ResolutionService WITH
    state <- [c \in Clients |->
                IF phase[c] = "idle" THEN "idle"
                ELSE IF phase[c] = "answered" THEN "closed" ELSE "open"],
    contacted <- dispatched,
    heard <- [c \in Clients |-> {a.provider : a \in {b \in attempts[c] : b.outcome # "canceled"}}],
    good <- [c \in Clients |-> {a.provider : a \in AcceptedIn(attempts[c])}],
    answer <- [c \in Clients |-> reply[c].kind],
    returned <- [c \in Clients |-> reply[c].returned]

\* The router keeps the promise of ResolutionService to every client.
KeepsPromise == Served!Spec
=============================================================================
