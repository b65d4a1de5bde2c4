---------------------------- MODULE BudgetWindow ----------------------------
(***************************************************************************)
(* The rolling-window request budget of one provider, as operators on the  *)
(* queue of its charges: budget.py, ProviderBudget and BudgetRegistry.     *)
(* Charges are the monotonic-clock readings at which a request was charged, *)
(* oldest first.  The clock is discrete.  A definition called Fault is a   *)
(* mistake the code does not make, put in the place of the definition that *)
(* follows it to see that the properties notice.                           *)
(***************************************************************************)
EXTENDS Naturals, Integers, Sequences

CONSTANTS
    Providers,      \* provider ids of the inventory
    External,       \* those whose endpoint is not a loopback address
    RateRequests,   \* rate_limit_requests of each provider, or None
    RateWindow,     \* rate_limit_window_seconds of each provider, or None
    None            \* Python's None

ASSUME BudgetAssumption ==
    /\ None \notin Nat
    /\ External \subseteq Providers
    /\ RateRequests \in [Providers -> Nat \cup {None}]
    /\ RateWindow \in [Providers -> Nat \cup {None}]

\* BudgetRegistry._build: a loopback provider spends nobody's budget.
Limit(p) == IF p \in External THEN RateRequests[p] ELSE None
Window(p) == IF p \in External THEN RateWindow[p] ELSE None

Unlimited(p) == Limit(p) = None \/ Window(p) = None

\* Fault: a charge exactly at the cutoff is dropped.
StaleAtCutoff(s, cutoff, k) ==
    /\ \A i \in 1..k : s[i] <= cutoff
    /\ k < Len(s) => s[k + 1] > cutoff

\* k heads are what the loop of _prune pops: everything before them is older
\* than the cutoff, and the charge that follows, if any, is not.  A charge
\* exactly at the cutoff stays.
Stale(s, cutoff, k) ==
    /\ \A i \in 1..k : s[i] < cutoff
    /\ k < Len(s) => s[k + 1] >= cutoff

\* Without a window nothing is ever dropped.
Prune(p, s, now) ==
    IF Window(p) = None
    THEN s
    ELSE LET k == CHOOSE k \in 0..Len(s) : Stale(s, now - Window(p), k)
         IN  SubSeq(s, k + 1, Len(s))

\* Fault: exhausted only once the limit is passed.
ExhaustedLate(p, s, now) ==
    /\ ~Unlimited(p)
    /\ Limit(p) - Len(Prune(p, s, now)) < 0

\* ProviderBudget.state: what is left is computed on the pruned queue.
Exhausted(p, s, now) ==
    /\ ~Unlimited(p)
    /\ Limit(p) - Len(Prune(p, s, now)) <= 0

\* Fault: the time the charge will expire is recorded.
ChargedExpiry(p, s, now) == Append(Prune(p, s, now), now + 1)

\* Fault: the queue is a deque(maxlen=limit).
ChargedBounded(p, s, now) ==
    LET kept == Prune(p, s, now) IN
    Append(IF ~Unlimited(p) /\ Len(kept) = Limit(p) THEN Tail(kept) ELSE kept, now)

\* ProviderBudget.charge.
Charged(p, s, now) == Append(Prune(p, s, now), now)
=============================================================================
