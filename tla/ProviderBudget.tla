--------------------------- MODULE ProviderBudget ---------------------------
(***************************************************************************)
(* How a BudgetRegistry is used by concurrent callers.  A caller is        *)
(* admitted to the providers whose budget is not exhausted when it looks   *)
(* (select_candidates), and charges each of them later, one by one, when   *)
(* it contacts them; the two are not one atomic step.  The router is shown *)
(* to implement this specification in RealRouter.                          *)
(***************************************************************************)
EXTENDS BudgetWindow, FiniteSets

CONSTANTS
    Callers,        \* requests that can be in flight at the same time
    MaxTime,        \* bound on the clock
    MaxQueue        \* bound on the queue of an unlimited provider, which
                    \* the code never prunes

ASSUME CallerAssumption ==
    /\ IsFiniteSet(Callers) /\ Callers # {}
    /\ MaxTime \in Nat /\ MaxQueue \in Nat

VARIABLES
    now,            \* time.monotonic()
    charges,        \* _charges of every provider's budget
    permits         \* providers a caller was admitted to and has not charged

vars == <<now, charges, permits>>

\* Stands for the memory of the process; says nothing of limited providers.
Room(p) == Unlimited(p) => Len(charges[p]) < MaxQueue

Init ==
    /\ now = 0
    /\ charges = [p \in Providers |-> << >>]
    /\ permits = [c \in Callers |-> {}]

Tick ==
    /\ now < MaxTime
    /\ now' = now + 1
    /\ UNCHANGED <<charges, permits>>

\* One pass of select_candidates that reads the budgets of the providers in
\* looked, followed in the same atomic step by a charge of those in first.
Admit(c, looked, chosen, first) ==
    /\ permits[c] = {}
    /\ chosen \subseteq {p \in looked : ~Exhausted(p, charges[p], now)}
    /\ first \subseteq {p \in chosen : Room(p)}
    /\ permits' = [permits EXCEPT ![c] = chosen \ first]
    /\ charges' = [p \in Providers |->
          IF p \in first THEN Charged(p, charges[p], now)
          ELSE IF p \in looked THEN Prune(p, charges[p], now)
          ELSE charges[p]]
    /\ UNCHANGED now

\* BudgetRegistry.charge just before a provider is contacted.
Charge(c, p) ==
    /\ p \in permits[c]
    /\ Room(p)
    /\ charges' = [charges EXCEPT ![p] = Charged(p, @, now)]
    /\ permits' = [permits EXCEPT ![c] = @ \ {p}]
    /\ UNCHANGED now

\* The caller ends, or gives up on some, without contacting them.
Release(c, dropped) ==
    /\ permits' = [permits EXCEPT ![c] = @ \ dropped]
    /\ UNCHANGED <<now, charges>>

\* BudgetRegistry.snapshot, for GET /providers: reading prunes.
Snapshot ==
    /\ charges' = [p \in Providers |-> Prune(p, charges[p], now)]
    /\ UNCHANGED <<now, permits>>

Next ==
    \/ Tick
    \/ \E c \in Callers : \E looked, chosen, first \in SUBSET Providers :
         Admit(c, looked, chosen, first)
    \/ \E c \in Callers, p \in Providers : Charge(c, p)
    \/ \E c \in Callers, dropped \in SUBSET Providers : Release(c, dropped)
    \/ Snapshot

Spec == Init /\ [][Next]_vars

-----------------------------------------------------------------------------
TypeOK ==
    /\ now \in 0..MaxTime
    /\ charges \in [Providers -> Seq(0..MaxTime)]
    /\ permits \in [Callers -> SUBSET Providers]

Holders(p) == {c \in Callers : p \in permits[c]}

\* Every charge a limited provider has had, or is still going to have from a
\* caller already admitted to it, fits in its limit and one more for each of
\* the callers that may have looked at the same time.
CommitmentBounded ==
    \A p \in Providers :
      ~Unlimited(p) =>
        Len(charges[p]) + Cardinality(Holders(p)) <= Limit(p) + Cardinality(Callers) - 1

\* A limited provider's window never holds more than its limit plus one
\* request for every other caller in flight, although the budget is checked
\* (candidates.py) and charged (executor.py) in different steps.
OverspendBounded ==
    \A p \in Providers :
      ~Unlimited(p) => Len(Prune(p, charges[p], now)) <= Limit(p) + Cardinality(Callers) - 1

\* budget.py's promise: no window ever holds more than the limit.
NeverOverspent ==
    \A p \in Providers :
      ~Unlimited(p) => Len(Prune(p, charges[p], now)) <= Limit(p)

\* The queue is in the order of the clock, so popping stale heads pops every
\* stale charge: exhaustion is judged on exactly the charges in the window.
WindowExact ==
    \A p \in Providers :
      LET s == charges[p]
          live == Prune(p, s, now)
      IN  Window(p) # None =>
            /\ \A i \in 1..Len(live) : live[i] >= now - Window(p) /\ live[i] <= now
            /\ Len(live) = Cardinality({i \in 1..Len(s) : s[i] >= now - Window(p)})

\* No operation forgets or reorders charges that are still in the window.
NoLiveChargeForgotten ==
    [][\A p \in Providers :
         LET old == Prune(p, charges[p], now')
             new == Prune(p, charges'[p], now')
         IN  ~Unlimited(p) =>
               Len(new) >= Len(old) /\ SubSeq(new, 1, Len(old)) = old]_vars
=============================================================================
