---------------------------- MODULE MCPersistence ----------------------------
(* A small instance of PersistenceCoordinator for TLC: an Agent and a record *)
(* that it owns.                                                             *)
EXTENDS PersistenceCoordinator, TLC

CONSTANTS agent, reference

MCKeys == {agent, reference}
MCOwner == [k \in MCKeys |-> agent]
MCLoaded == {{}, {agent}, MCKeys}
MCLoadedAgent == {{agent}}
MCOneKey == {agent}
MCOneOwner == [k \in MCOneKey |-> agent]
Symmetry == Permutations(Tasks)

=============================================================================
