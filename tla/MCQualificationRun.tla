-------------------------- MODULE MCQualificationRun --------------------------
(***************************************************************************)
(* Instance for TLC: a public universal resolver and a local driver that   *)
(* speaks the other adapter, with caps of 10 (none documented) or 4.       *)
(***************************************************************************)
EXTENDS QualificationRun

CONSTANTS dev, driver

MCInventories ==
    [methods: {[p \in {dev, driver} |-> IF p = dev THEN {"key", "web"} ELSE {"key"}]},
     full: {{}, {dev}},
     documented: {[p \in {dev} |-> 0], [p \in {dev} |-> 4]}]
MCLadder == <<"web", "ethr">>
MCUnresolvable == <<"none">>
=============================================================================
