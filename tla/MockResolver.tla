---------------------------- MODULE MockResolver ----------------------------
(***************************************************************************)
(* One mock resolver: resolver/app.py.  A handler runs on the event loop   *)
(* without interruption up to a sleep, so requests that sleep overlap with *)
(* later ones and with the admin endpoints.  A definition called Fault is  *)
(* a mistake the code does not make, see BudgetWindow.                     *)
(***************************************************************************)
EXTENDS ResolverBehaviour, Sequences, FiniteSets

CONSTANTS
    Settings,       \* the behaviour the process starts with
    Injected,       \* behaviours the admin endpoint is sent
    MaxEvents       \* bound on the arrivals and admin calls of a run

\* What the constants are assumed to be.
ResolverAssumption ==
    /\ Settings \in Behaviours(Nat)
    /\ Injected \subseteq Behaviours(Nat)
    /\ MaxEvents \in Nat

VARIABLES
    behaviour,      \* state["behavior"]
    counter,        \* RequestCounter
    log,            \* history: arrivals and admin calls, in order
    running,        \* handlers that sleep, by their place in log
    replies         \* responses sent, by place in log

vars == <<behaviour, counter, log, running, replies>>

Extend(f, x, v) == [y \in DOMAIN f \cup {x} |-> IF y = x THEN v ELSE f[y]]
Without(f, x) == [y \in DOMAIN f \ {x} |-> f[y]]

Arrival(wellFormed) == [kind |-> "arrival", wellFormed |-> wellFormed]
Admin(b) == [kind |-> "set", behaviour |-> b]
Restored == [kind |-> "reset"]

Init ==
    /\ behaviour = Settings
    /\ counter = 0
    /\ log = << >>
    /\ running = << >>
    /\ replies = << >>

Logged(event) ==
    /\ Len(log) < MaxEvents
    /\ log' = Append(log, event)

\* The behaviour and the number a request takes when it arrives.
Taken == [current |-> behaviour, number |-> counter + 1]

\* Where the handler of a request goes next: the timeout is slept first.
Sleeps(b, done) ==
    {s \in {"timeout", "delay"} \ done : b[s]}
NextSleep(b, done) ==
    IF "timeout" \in Sleeps(b, done) THEN "timeout" ELSE "delay"

\* resolve, for a DID that parses: it answers at once, or sleeps.
Resolve ==
    /\ Logged(Arrival(TRUE))
    /\ counter' = counter + 1
    /\ LET h == Taken
       IN IF Sleeps(h.current, {}) = {}
          THEN /\ replies' = Extend(replies, Len(log'), ReplyTo(h.current, h.number))
               /\ UNCHANGED running
          ELSE /\ running' = Extend(running, Len(log'),
                    [taken |-> h, sleep |-> NextSleep(h.current, {})])
               /\ UNCHANGED replies
    /\ UNCHANGED behaviour

\* resolve, for a malformed DID: refused, after it has taken a number.
Refuse ==
    /\ Logged(Arrival(FALSE))
    /\ counter' = counter + 1
    /\ replies' = Extend(replies, Len(log'), Refusal)
    /\ UNCHANGED <<behaviour, running>>

\* Fault: the injected behaviour is read again after the sleep.
AnswerFault(h) == ReplyTo(behaviour, h.taken.number)

\* What a handler answers after its last sleep.
Answer(h) == ReplyTo(h.taken.current, h.taken.number)

\* A sleep ends: the handler goes on to the other sleep or answers.
Wake(i) ==
    /\ LET h == running[i]
       IN IF h.sleep = "timeout" /\ Sleeps(h.taken.current, {"timeout"}) # {}
          THEN /\ running' = [running EXCEPT ![i].sleep = "delay"]
               /\ UNCHANGED replies
          ELSE /\ running' = Without(running, i)
               /\ replies' = Extend(replies, i, Answer(h))
    /\ UNCHANGED <<behaviour, counter, log>>

SetBehaviour(b) ==
    /\ Logged(Admin(b))
    /\ behaviour' = b
    /\ UNCHANGED <<counter, running, replies>>

\* reset: the behaviour is Healthy, not the one the process started with.
Reset ==
    /\ Logged(Restored)
    /\ behaviour' = Healthy
    /\ counter' = 0
    /\ UNCHANGED <<running, replies>>

Next ==
    \/ Resolve \/ Refuse \/ Reset
    \/ \E b \in Injected : SetBehaviour(b)
    \/ \E i \in DOMAIN running : Wake(i)

Spec == Init /\ [][Next]_vars

-----------------------------------------------------------------------------
(***************************************************************************)
(* Reference: what a request should get, from the order of the events.     *)
(***************************************************************************)
Upto(i, kinds) == {j \in 1..i : log[j].kind \in kinds}
Latest(S) == CHOOSE j \in S : \A k \in S : k <= j

\* The behaviour in force at event i.
InForce(i) ==
    LET calls == Upto(i, {"set", "reset"})
    IN IF calls = {} THEN Settings
       ELSE IF log[Latest(calls)].kind = "reset" THEN Healthy
            ELSE log[Latest(calls)].behaviour

\* Arrivals up to event i since the last reset, malformed ones included.
Arrived(i) ==
    LET resets == Upto(i, {"reset"})
        since == IF resets = {} THEN 0 ELSE Latest(resets)
    IN Cardinality({j \in Upto(i, {"arrival"}) : j > since})

Expected(i) ==
    IF log[i].wellFormed THEN ReplyTo(InForce(i), Arrived(i)) ELSE Refusal

-----------------------------------------------------------------------------
TypeOK ==
    /\ behaviour \in Injected \cup {Settings, Healthy}
    /\ counter \in 0..MaxEvents
    /\ DOMAIN running \subseteq 1..Len(log)
    /\ \A i \in DOMAIN running :
         /\ running[i].taken.current \in Injected \cup {Settings, Healthy}
         /\ running[i].taken.number \in 1..MaxEvents
         /\ running[i].sleep \in {"timeout", "delay"}
    /\ \A i \in DOMAIN replies : replies[i] \in Replies

\* A response depends on what had happened when its request arrived: on the
\* behaviour then in force and on the arrivals since the last reset, whatever
\* the admin endpoints do and whichever requests finish while it sleeps.
DeterminedOnArrival == \A i \in DOMAIN replies : replies[i] = Expected(i)

\* Every arrival is being served or was answered, never both: the handlers
\* neither lose nor repeat a response.
AnsweredOnce ==
    /\ DOMAIN running \cap DOMAIN replies = {}
    /\ DOMAIN running \cup DOMAIN replies = Upto(Len(log), {"arrival"})

\* Requests whose failure only the every-Nth counter explains.
CountedFailures(n) ==
    {i \in DOMAIN replies :
       /\ replies[i].status = "error"
       /\ ~InForce(i).error /\ InForce(i).every = n}

\* Under one period, two counted failures are a full period of arrivals
\* apart, also across resets and changes of behaviour, and although the
\* requests may be answered in any order.
FailuresSpaced ==
    \A n \in {b.every : b \in Injected} \ {0} :
      \A i, j \in CountedFailures(n) :
        i < j => Cardinality({k \in Upto(j, {"arrival"}) : k > i}) >= n

\* Hazard: the behaviour and the number are taken before the sleeps and the
\* answer is built after them, while others are served and admin calls change
\* both.  Every request is answered once, as its arrival determined, and
\* counted failures keep their distance.
AnsweredAsInjected == DeterminedOnArrival /\ AnsweredOnce /\ FailuresSpaced
=============================================================================
