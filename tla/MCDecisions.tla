----------------------------- MODULE MCDecisions -----------------------------
(***************************************************************************)
(* The instance that TLC checks: A above C and D; C and D ask to move      *)
(* below each other, C asks for a channel to D, and A for one to C.        *)
(* Businesses come up alone, with two voters for A, or together, with one. *)
(***************************************************************************)
EXTENDS Decisions

MCAgents == {"root", "x", "y", "z"}
MCTeams == {"A", "C", "D"}
MCParent == [t \in MCTeams |-> IF t = "A" THEN "Top" ELSE "A"]
MCRecruits == {<<"A", "y">>}
MCMoves == {<<"m1", "C", "D">>, <<"m2", "D", "C">>}
MCPairs == {<<"r1", "C", "D">>, <<"r3", "C", "D">>, <<"r4", "D", "C">>, <<"r5", "A", "C">>}

\* r2 is for the successor of r1; the Root Agent has to approve r5.
MCConfigs == [r \in {"r1", "r2", "r3", "r4", "r5"} |->
    [policy    |-> IF r = "r3" THEN "lineage_approval" ELSE "parent_approval",
     direction |-> IF r = "r4" THEN "bidirectional" ELSE "one_way",
     delivery  |-> IF r \in {"r1", "r2"} THEN "wake" ELSE "queue"]]

MCPolicies == [m \in {"m1", "m2"} |-> IF m = "m1" THEN "ancestor_approval" ELSE "permissive"]

With(agenda, a, n, changes, faults, cancels, restarts) ==
    [agenda |-> agenda, members |-> [t \in MCTeams |-> IF t = "A" THEN a ELSE {"z"}],
     limit |-> [rounds |-> n, changes |-> changes, faults |-> faults, cancels |-> cancels,
                restarts |-> restarts]]

MCStarts == {
    With({"f1"}, {"x", "y"}, 2, 1, 1, 0, 1),
    With({"m1"}, {"x", "y"}, 3, 0, 1, 0, 0),
    With({"m1"}, {"x"}, 3, 1, 0, 0, 1),
    With({"m2"}, {"x"}, 1, 1, 1, 2, 1),
    With({"m1", "m2"}, {"x"}, 2, 0, 1, 1, 0),
    With({"r5"}, {"x"}, 2, 1, 0, 0, 0),
    With({"r5"}, {"x"}, 2, 0, 1, 0, 0),
    With({"r3"}, {"x"}, 1, 0, 1, 1, 0),
    With({"r3"}, {"x"}, 1, 0, 0, 1, 1),
    With({"r5"}, {"x"}, 1, 0, 0, 1, 1),
    With({"r1", "r4"}, {"x"}, 2, 0, 0, 0, 0),
    With({"m2", "r1", "r2"}, {"x"}, 2, 0, 0, 0, 0),
    With({"m2", "r1", "r2"}, {"x"}, 1, 0, 0, 1, 0)}
=============================================================================
