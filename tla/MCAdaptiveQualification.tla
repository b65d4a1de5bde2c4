----------------------- MODULE MCAdaptiveQualification -----------------------
(***************************************************************************)
(* An instance of AdaptiveQualification for TLC, with the table of the     *)
(* tie-break scenario as the script has it: single providers only.         *)
(***************************************************************************)
EXTENDS AdaptiveQualification

MCCost == [S \in SUBSET Providers |-> Cardinality(S)]

MCTieTable ==
    [S \in Subsets(Providers) |-> IF Cardinality(S) = 1 THEN 99000 ELSE Unknown]
=============================================================================
