---------------------------- MODULE MCMinimumSet ----------------------------
(***************************************************************************)
(* An instance of MinimumSet for TLC: three providers, of which the last   *)
(* costs as much as the others together.                                   *)
(***************************************************************************)
EXTENDS MinimumSet

Weight(p) == IF p = 3 THEN 2 ELSE 1

\* WeightedCost.
MCCost ==
    LET add[S \in SUBSET Providers] ==
          IF S = {} THEN 0
          ELSE LET p == CHOOSE p \in S : TRUE IN Weight(p) + add[S \ {p}]
    IN  add
=============================================================================
