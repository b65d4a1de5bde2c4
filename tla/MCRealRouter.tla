---------------------------- MODULE MCRealRouter ----------------------------
(***************************************************************************)
(* Instances of RealRouter for TLC.                                        *)
(***************************************************************************)
EXTENDS RealRouter, TLC

CONSTANTS a, b, d, c1, c2, key

MCInventory2 == <<a, b>>
MCInventory3 == <<a, b, d>>
MCMethods == {key}

\* Every provider resolves did:key.
MCSupportsAll == [p \in Providers |-> {key}]

\* a is a public endpoint with one request per tick of window; the others are
\* loopback.
MCRateRequests == [p \in Providers |-> IF p = a THEN 1 ELSE None]
MCRateWindow == [p \in Providers |-> IF p = a THEN 1 ELSE None]

ClientSymmetry == Permutations({c1, c2})

RaceAsk == {[policy |-> "all-race", method |-> key]}
FailoverAsk == {[policy |-> "sequential-failover", method |-> key]}
BaselineAsks ==
    {[policy |-> n, method |-> key] : n \in {"all-race", "sequential-failover", "single-static"}}
AllAsks ==
    [policy : {"all-race", "sequential-failover", "single-static", "adaptive-min-set", "unknown"},
     method : {key, None}]
=============================================================================
