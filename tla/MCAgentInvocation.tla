------------------------- MODULE MCAgentInvocation -------------------------
(* Small instances of AgentInvocation for TLC. *)
EXTENDS AgentInvocation, TLC

\* Tasks are interchangeable, and so are the Agents that are not the root.
Symmetry == Permutations(Tasks) \cup Permutations(Agents \ {Root})

\* Nested and concurrent invocations alone, with every cancellation outside
\* the gate: identities stay active and nobody holds the gate for long, which
\* leaves room for enough tasks to close a cycle of waits.
NestingNext ==
    \/ \E t \in Tasks : StartRoot(t) \/ TaskStep(t) \/ CancelWaiting(t)
    \/ \E p, t \in Tasks, joined \in BOOLEAN : Spawn(p, t, joined)

NestingSpec == Init /\ [][NestingNext]_vars

=============================================================================
