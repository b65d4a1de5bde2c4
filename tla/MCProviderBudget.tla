-------------------------- MODULE MCProviderBudget --------------------------
(***************************************************************************)
(* A small instance: a provider limited to one request per tick of window, *)
(* one limited to two, and a loopback provider, used by up to three        *)
(* callers at a time.                                                      *)
(***************************************************************************)
EXTENDS ProviderBudget, TLC

CONSTANTS uniresolver, local, c1, c2, c3

MCProviders == {uniresolver, local}
MCExternal == {uniresolver}
MCRateRequests == uniresolver :> 2 @@ local :> None
MCRateWindow == uniresolver :> 1 @@ local :> None
MCCallers == {c1, c2, c3}
CallerSymmetry == Permutations(MCCallers)
=============================================================================
