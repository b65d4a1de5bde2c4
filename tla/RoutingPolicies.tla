-------------------------- MODULE RoutingPolicies --------------------------
(***************************************************************************)
(* Which providers qualify for a request and in which orders a policy may  *)
(* plan them: candidates.py, real_router/policies.py, adaptive_policy.py.  *)
(* None of this does any I/O; it only reads the budgets.                   *)
(***************************************************************************)
EXTENDS BudgetWindow, FiniteSets

CONSTANTS
    Inventory,      \* the inventory, a sequence of the providers
    Available,      \* providers whose available flag is set
    Supports,       \* DID methods of each provider
    Authorized,     \* providers that need no credentials or have them
    Adapted,        \* providers whose adapter is known
    Configured,     \* names of the policies the service was built with
    StaticTarget,   \* target of single-static, or None
    Seeded          \* whether all-race has a launch_order_seed

PolicyNames ==
    {"single-static", "sequential-failover", "all-race", "adaptive-min-set"}

ASSUME PolicyAssumption ==
    /\ Inventory \in Seq(Providers)
    /\ \A p \in Providers : \E i \in 1..Len(Inventory) : Inventory[i] = p
    /\ Available \subseteq Providers
    /\ Authorized \subseteq Providers
    /\ Adapted \subseteq Providers
    /\ Configured \subseteq PolicyNames
    /\ StaticTarget \in Providers \cup {None}
    /\ Seeded \in BOOLEAN

\* The checks of _ineligibility_reason that come before the budget.
Capable(p, method) ==
    /\ p \in Available
    /\ method \in Supports[p]
    /\ p \in Authorized
    /\ p \in Adapted

\* Fault: the budget plays no part in eligibility.
CandidatesUnbudgeted(method, charges, now) == {p \in Providers : Capable(p, method)}

Candidates(method, charges, now) ==
    {p \in Providers : Capable(p, method) /\ ~Exhausted(p, charges[p], now)}

\* Reading the budget of a provider prunes its queue, exhausted or not.
AfterSelection(method, charges, now) ==
    [p \in Providers |->
       IF Capable(p, method) THEN Prune(p, charges[p], now) ELSE charges[p]]

MinProviders(policy) == IF policy = "all-race" THEN 2 ELSE 1

Listed(p, q) ==
    \E i, j \in 1..Len(Inventory) : i < j /\ Inventory[i] = p /\ Inventory[j] = q

Arrangements(S) ==
    {o \in [1..Cardinality(S) -> S] : \A i, j \in DOMAIN o : o[i] = o[j] => i = j}

InInventoryOrder(S) ==
    {o \in Arrangements(S) : \A i, j \in DOMAIN o : i < j => Listed(o[i], o[j])}

\* The attempt orders a policy may plan for candidates S; none when the target
\* of single-static does not qualify.  Which subset adaptive-min-set selects
\* is the optimizer's business and any is allowed here.
Plans(policy, S) ==
    CASE policy = "single-static" ->
            IF StaticTarget # None
            THEN {<<p>> : p \in S \cap {StaticTarget}}
            ELSE {<<p>> : p \in {q \in S : \A r \in S \ {q} : Listed(q, r)}}
      [] policy = "sequential-failover" -> InInventoryOrder(S)
      [] policy = "all-race" -> IF Seeded THEN Arrangements(S) ELSE InInventoryOrder(S)
      [] policy = "adaptive-min-set" -> UNION {Arrangements(T) : T \in (SUBSET S) \ {{}}}

Concurrent(policy) == policy \in {"all-race", "adaptive-min-set"}
=============================================================================
