--------------------------- MODULE AgentInvocation ---------------------------
(***************************************************************************)
(* Admission of model invocations: LifecycleService.agent_invocation, the  *)
(* per-Agent locks of Agent.invocation_guard, retirement and reactivation  *)
(* of identities, and the two long holders of the runtime gate (state      *)
(* restore and the dissolution of a supervisory team).                     *)
(*                                                                         *)
(* A task performs one invocation.  The asyncio task that runs nested work *)
(* copies the context of its creator, so its invocation chain is the       *)
(* creator's chain followed by the creator; the creator may await it (a    *)
(* gathered turn, a delegated discussion) or leave it detached (an         *)
(* emergency wakeup).  A token is named by the task that owns it.          *)
(*                                                                         *)
(* asyncio locks are FIFO; the model keeps the owner and the set of        *)
(* waiters, and recovers the absence of starvation from strong fairness.   *)
(*                                                                         *)
(* A definition named Faulty... is a plausible mistake in the definition   *)
(* after it; replacing one by the other shows which property notices.      *)
(***************************************************************************)
EXTENDS Integers, Sequences, FiniteSets

CONSTANTS
    Agents,     \* registered Agent identities
    Root,       \* manager.root_ai, which cannot be retired
    Tasks,      \* asyncio tasks, each making one invocation
    NoTask,     \* no owner of a lock, no awaiting task
    NoEdge,     \* no reserved wait edge
    Host        \* owner of lifecycle_lock while an identity changes state

ASSUME InvocationAssumption ==
    /\ Root \in Agents
    /\ NoTask \notin Tasks
    /\ Host \notin Tasks
    /\ Host # NoTask
    /\ NoEdge \notin Agents \X Agents
    /\ IsFiniteSet(Tasks)

VARIABLES
    pc,          \* where each task stands in agent_invocation
    target,      \* the Agent each task invokes
    chain,       \* _agent_invocation_chain as inherited: the ancestor tasks
    awaiter,     \* the task that awaits this one, or NoTask
    edge,        \* dependency_edges of the invocation, or NoEdge
    edgeCount,   \* manager._agent_wait_edge_counts
    starting,    \* manager._starting_invocations
    active,      \* manager._active_invocations
    tokens,      \* manager._active_agent_invocation_tokens
    lifeOwner,   \* owner of agent.lifecycle_lock
    lockOwner,   \* owner of agent.lock
    lifecycle,   \* agent.lifecycle_state
    change,      \* the identity change in progress under lifecycle_lock
    gateHolder,  \* who holds _runtime_gate across an await
    gateQueue,   \* tasks suspended in _runtime_gate.acquire()
    closing,     \* manager._closing
    stale        \* tasks whose Agent object a restore replaced

taskVars == <<pc, target, chain, awaiter, edge>>
countVars == <<edgeCount, starting, active, tokens>>
lockVars == <<lifeOwner, lockOwner>>
identityVars == <<lifecycle, change>>
gateVars == <<gateHolder, gateQueue>>
vars == <<taskVars, countVars, lockVars, identityVars, gateVars, closing, stale>>

Edges == Agents \X Agents

\* Control points that _starting_invocations, respectively
\* _active_invocations, counts.  "lostStart" and "lostActive" are the ends of
\* invocations cancelled inside their own cleanup, before it ran.
StartingPCs == {"lifecycle", "lock", "mark", "abort", "abortLocked", "lostStart"}
ActivePCs == {"body", "leave", "lostActive"}
LockedPCs == {"mark", "body", "abortLocked"}
EndedPCs == {"done", "lostStart", "lostActive"}
GatePCs == {"admit", "mark", "abort", "abortLocked", "leave"}
PCs == {"new", "admit", "done"} \cup StartingPCs \cup ActivePCs

LifecycleStates == {"active", "retained", "deleting", "deleted"}
Changes == {"none", "retain", "flush", "delete", "reactivate"}

-----------------------------------------------------------------------------
(* The wait graph. *)

\* S is closed under the wait edges that are reserved at least once.
Closed(S) == \A a \in S, b \in Agents : edgeCount[<<a, b>>] > 0 => b \in S

\* _path_exists: b is reachable from a.
PathExists(a, b) == \A S \in SUBSET Agents : (a \in S /\ Closed(S)) => b \in S

\* The path is not looked for at all.
FaultyMayReserveAny(a, b) == a # b

\* _reserve_wait_edges_locked refuses a self edge, and an edge that would
\* close a cycle unless the very same edge is already reserved.
MayReserve(a, b) ==
    /\ a # b
    /\ edgeCount[<<a, b>>] > 0 \/ ~PathExists(b, a)

Reserve(e) == edgeCount' = [edgeCount EXCEPT ![e] = @ + 1]

\* An edge reserved by several invocations is dropped by the first to end.
FaultyRelease(t) ==
    /\ edgeCount' = IF edge[t] = NoEdge THEN edgeCount
                    ELSE [edgeCount EXCEPT ![edge[t]] = 0]
    /\ edge' = [edge EXCEPT ![t] = NoEdge]

\* _release_wait_edges_locked: a count never goes below zero.
Release(t) ==
    /\ edgeCount' = IF edge[t] = NoEdge THEN edgeCount
                    ELSE [edgeCount EXCEPT ![edge[t]] = IF @ <= 1 THEN 0 ELSE @ - 1]
    /\ edge' = [edge EXCEPT ![t] = NoEdge]

\* _live_invocation_chain_locked: positions of the chain whose token is live.
Live(t) == {i \in DOMAIN chain[t] : chain[t][i] \in tokens}

\* The Agent of the last live entry, from which a dependency is drawn: the
\* empty set for a task whose inherited invocations have all ended.
Caller(t) == {target[chain[t][i]] : i \in {k \in Live(t) : \A j \in Live(t) : j <= k}}

-----------------------------------------------------------------------------
(* The runtime gate.  Its sections run without suspension except for two   *)
(* holders, so a task queues only behind one of those or behind a waiter.  *)

GateOpen(t) ==
    /\ gateHolder = "none"
    /\ gateQueue = {} \/ t \in gateQueue

PassGate(t) ==
    /\ GateOpen(t)
    /\ gateQueue' = gateQueue \ {t}
    /\ UNCHANGED gateHolder

QueueAtGate(t) ==
    /\ pc[t] \in GatePCs
    /\ t \notin gateQueue
    /\ ~GateOpen(t)
    /\ gateQueue' = gateQueue \cup {t}
    /\ UNCHANGED <<taskVars, countVars, lockVars, identityVars, gateHolder, closing, stale>>

-----------------------------------------------------------------------------
Init ==
    /\ pc = [t \in Tasks |-> "new"]
    /\ target \in [Tasks -> Agents]
    /\ chain = [t \in Tasks |-> <<>>]
    /\ awaiter = [t \in Tasks |-> NoTask]
    /\ edge = [t \in Tasks |-> NoEdge]
    /\ edgeCount = [e \in Edges |-> 0]
    /\ starting = 0
    /\ active = 0
    /\ tokens = {}
    /\ lifeOwner = [a \in Agents |-> NoTask]
    /\ lockOwner = [a \in Agents |-> NoTask]
    /\ lifecycle = [a \in Agents |-> "active"]
    /\ change = [a \in Agents |-> "none"]
    /\ gateHolder = "none"
    /\ gateQueue = {}
    /\ closing = FALSE
    /\ stale = {}

Goto(t, label) == pc' = [pc EXCEPT ![t] = label]

-----------------------------------------------------------------------------
(* Tasks. *)

\* A host call, or work tracked in a fresh contextvars.Context.
StartRoot(t) ==
    /\ pc[t] = "new"
    /\ Goto(t, "admit")
    /\ UNCHANGED <<target, chain, awaiter, edge, countVars, lockVars,
                   identityVars, gateVars, closing, stale>>

\* The body of p creates a task that copies p's context.
Spawn(p, t, joined) ==
    /\ pc[p] = "body"
    /\ pc[t] = "new"
    /\ Goto(t, "admit")
    /\ chain' = [chain EXCEPT ![t] = Append(chain[p], p)]
    /\ awaiter' = [awaiter EXCEPT ![t] = IF joined THEN p ELSE NoTask]
    /\ UNCHANGED <<target, edge, countVars, lockVars, identityVars, gateVars,
                   closing, stale>>

\* The checks agent_invocation makes under the gate before it counts itself.
Admissible(t) ==
    /\ ~closing
    /\ t \notin stale
    /\ lifecycle[target[t]] = "active"
    /\ \A i \in Live(t) : target[chain[t][i]] # target[t]
    /\ \A a \in Caller(t) : MayReserve(a, target[t])

Admit(t) ==
    /\ pc[t] = "admit"
    /\ PassGate(t)
    /\ Admissible(t)
    /\ starting' = starting + 1
    /\ \/ Caller(t) = {} /\ UNCHANGED <<edge, edgeCount>>
       \/ \E a \in Caller(t) : /\ Reserve(<<a, target[t]>>)
                               /\ edge' = [edge EXCEPT ![t] = <<a, target[t]>>]
    /\ Goto(t, "lifecycle")
    /\ UNCHANGED <<target, chain, awaiter, active, tokens, lockVars,
                   identityVars, closing, stale>>

Refuse(t) ==
    /\ pc[t] = "admit"
    /\ PassGate(t)
    /\ ~Admissible(t)
    /\ Goto(t, "done")
    /\ UNCHANGED <<target, chain, awaiter, edge, countVars, lockVars,
                   identityVars, closing, stale>>

\* The guard does not look at the state again under lifecycle_lock.
FaultyStillActive(t) == TRUE

StillActive(t) == lifecycle[target[t]] = "active"

\* invocation_guard: take lifecycle_lock and check the state it protects.
AcquireLifecycle(t) ==
    /\ pc[t] = "lifecycle"
    /\ lifeOwner[target[t]] = NoTask
    /\ StillActive(t)
    /\ lifeOwner' = [lifeOwner EXCEPT ![target[t]] = t]
    /\ Goto(t, "lock")
    /\ UNCHANGED <<target, chain, awaiter, edge, countVars, lockOwner,
                   identityVars, gateVars, closing, stale>>

\* The Agent stopped being active while the task waited for lifecycle_lock.
RejectInactive(t) ==
    /\ pc[t] = "lifecycle"
    /\ lifeOwner[target[t]] = NoTask
    /\ ~StillActive(t)
    /\ Goto(t, "abort")
    /\ UNCHANGED <<target, chain, awaiter, edge, countVars, lockVars,
                   identityVars, gateVars, closing, stale>>

\* agent.lock is awaited under lifecycle_lock, which is then released.
AcquireLock(t) ==
    /\ pc[t] = "lock"
    /\ lockOwner[target[t]] = NoTask
    /\ lockOwner' = [lockOwner EXCEPT ![target[t]] = t]
    /\ lifeOwner' = [lifeOwner EXCEPT ![target[t]] = NoTask]
    /\ Goto(t, "mark")
    /\ UNCHANGED <<target, chain, awaiter, edge, countVars, identityVars,
                   gateVars, closing, stale>>

\* The invocation becomes active and publishes its token.
MarkActive(t) ==
    /\ pc[t] = "mark"
    /\ PassGate(t)
    /\ starting' = starting - 1
    /\ active' = active + 1
    /\ tokens' = tokens \cup {t}
    /\ Goto(t, "body")
    /\ UNCHANGED <<target, chain, awaiter, edge, edgeCount, lockVars,
                   identityVars, closing, stale>>

\* The body returns, raises or is cancelled, once every task it awaits has
\* ended; agent.lock is released before the gate is taken again.
FinishBody(t) ==
    /\ pc[t] = "body"
    /\ \A c \in Tasks : awaiter[c] = t => pc[c] \in EndedPCs
    /\ lockOwner' = [lockOwner EXCEPT ![target[t]] = NoTask]
    /\ Goto(t, "leave")
    /\ UNCHANGED <<target, chain, awaiter, edge, countVars, lifeOwner,
                   identityVars, gateVars, closing, stale>>

Leave(t) ==
    /\ pc[t] = "leave"
    /\ PassGate(t)
    /\ tokens' = tokens \ {t}
    /\ active' = active - 1
    /\ Release(t)
    /\ Goto(t, "done")
    /\ UNCHANGED <<target, chain, awaiter, starting, lockVars, identityVars,
                   closing, stale>>

\* The except branch: undo the admission, and release agent.lock if the
\* guard had been entered.
Abort(t) ==
    /\ pc[t] \in {"abort", "abortLocked"}
    /\ PassGate(t)
    /\ starting' = starting - 1
    /\ Release(t)
    /\ lockOwner' = IF pc[t] = "abort" THEN lockOwner
                    ELSE [lockOwner EXCEPT ![target[t]] = NoTask]
    /\ Goto(t, "done")
    /\ UNCHANGED <<target, chain, awaiter, active, tokens, lifeOwner,
                   identityVars, closing, stale>>

-----------------------------------------------------------------------------
(* Cancellation is delivered where a task is suspended. *)

\* The async with of invocation_guard gives lifecycle_lock back.
LifecycleAfterCancel(t) ==
    IF pc[t] = "lifecycle" THEN lifeOwner ELSE [lifeOwner EXCEPT ![target[t]] = NoTask]

\* While waiting for lifecycle_lock, or for agent.lock under lifecycle_lock.
CancelWaiting(t) ==
    /\ pc[t] \in {"lifecycle", "lock"}
    /\ \/ pc[t] = "lifecycle" /\ lifeOwner[target[t]] # NoTask
       \/ pc[t] = "lock" /\ lockOwner[target[t]] # NoTask
    /\ lifeOwner' = LifecycleAfterCancel(t)
    /\ Goto(t, "abort")
    /\ UNCHANGED <<target, chain, awaiter, edge, countVars, lockOwner,
                   identityVars, gateVars, closing, stale>>

\* Cleanup also runs for an invocation that was never counted.
FaultyAfterGateCancel(label) ==
    CASE label = "admit" -> "abort"
      [] label = "mark" -> "abortLocked"
      [] label \in {"abort", "abortLocked"} -> "lostStart"
      [] label = "leave" -> "lostActive"

\* invocation_entered is set too late for the except branch to see it.
FaultyEnteredAfterCancel(label) ==
    CASE label = "admit" -> "done"
      [] label = "mark" -> "abort"
      [] label \in {"abort", "abortLocked"} -> "lostStart"
      [] label = "leave" -> "lostActive"

\* Where a cancellation inside _runtime_gate.acquire() leads.
AfterGateCancel(label) ==
    CASE label = "admit" -> "done"
      [] label = "mark" -> "abortLocked"
      [] label \in {"abort", "abortLocked"} -> "lostStart"
      [] label = "leave" -> "lostActive"

\* A second cancellation in the except branch skips the accounting there but
\* not the release of agent.lock in its finally clause.
CancelAtGate(t) ==
    /\ t \in gateQueue
    /\ gateQueue' = gateQueue \ {t}
    /\ Goto(t, AfterGateCancel(pc[t]))
    /\ lockOwner' = IF pc[t] = "abortLocked"
                    THEN [lockOwner EXCEPT ![target[t]] = NoTask]
                    ELSE lockOwner
    /\ UNCHANGED <<target, chain, awaiter, edge, countVars, lifeOwner,
                   identityVars, gateHolder, closing, stale>>

-----------------------------------------------------------------------------
(* Identity changes: AgentRegistry.retire and reactivate hold              *)
(* lifecycle_lock from their checks to the outcome of the durable flush.   *)

BeginChange(a, kind, state) ==
    /\ lifeOwner[a] = NoTask
    /\ lifeOwner' = [lifeOwner EXCEPT ![a] = Host]
    /\ change' = [change EXCEPT ![a] = kind]
    /\ lifecycle' = [lifecycle EXCEPT ![a] = state]
    /\ UNCHANGED <<taskVars, countVars, lockOwner, gateVars, closing, stale>>

EndChange(a, state) ==
    /\ lifeOwner' = [lifeOwner EXCEPT ![a] = NoTask]
    /\ change' = [change EXCEPT ![a] = "none"]
    /\ lifecycle' = [lifecycle EXCEPT ![a] = state]
    /\ UNCHANGED <<taskVars, countVars, lockOwner, gateVars, closing, stale>>

\* policy retain or archive
Retain(a) ==
    /\ a # Root
    /\ lifecycle[a] = "active"
    /\ lockOwner[a] = NoTask
    /\ BeginChange(a, "retain", "retained")

\* policy delete flushes earlier deltas before it looks at agent.lock.
FlushBeforeDelete(a) ==
    /\ a # Root
    /\ lifecycle[a] = "active"
    /\ BeginChange(a, "flush", "active")

DeleteFlushed(a) ==
    /\ change[a] = "flush"
    /\ IF lockOwner[a] = NoTask
       THEN /\ lifecycle' = [lifecycle EXCEPT ![a] = "deleting"]
            /\ change' = [change EXCEPT ![a] = "delete"]
            /\ UNCHANGED <<taskVars, countVars, lockVars, gateVars, closing, stale>>
       ELSE EndChange(a, "active")

Reactivate(a) ==
    /\ lifecycle[a] = "retained"
    /\ BeginChange(a, "reactivate", "active")

ChangeCommitted(a) ==
    /\ change[a] \in {"retain", "delete", "reactivate"}
    /\ EndChange(a, IF change[a] = "delete" THEN "deleted" ELSE lifecycle[a])

\* The except Exception branches restore what the change replaced.
ChangeFailed(a) ==
    /\ change[a] # "none"
    /\ EndChange(a, IF change[a] = "reactivate" THEN "retained" ELSE "active")

\* Cancellation of the caller is no Exception: nothing is rolled back.
ChangeCancelled(a) ==
    /\ change[a] # "none"
    /\ EndChange(a, lifecycle[a])

-----------------------------------------------------------------------------
(* Holders of the gate, and shutdown. *)

\* dissolve_supervisory_team keeps the gate while its commit is written and
\* its directories are removed; the Agents it deletes are its own.
BeginDissolve ==
    /\ gateHolder = "none"
    /\ gateHolder' = "dissolve"
    /\ UNCHANGED <<taskVars, countVars, lockVars, identityVars, gateQueue, closing, stale>>

\* Invocations still waiting for their Agent are overlooked.
FaultyQuiet == active = 0 /\ \A a \in Agents : lockOwner[a] = NoTask

\* No invocation is starting or active and no Agent lock is held.
Quiet == starting = 0 /\ active = 0 /\ \A a \in Agents : lockOwner[a] = NoTask

\* load_state and suspend_for_restore refuse at once unless nothing runs.
BeginRestore ==
    /\ gateHolder = "none"
    /\ ~closing
    /\ Quiet
    /\ gateHolder' = "restore"
    /\ UNCHANGED <<taskVars, countVars, lockVars, identityVars, gateQueue, closing, stale>>

\* _apply_state_snapshot checks again, then publishes new Agent objects with
\* new locks; tasks that still name the old objects will be refused.
ApplyRestore ==
    /\ gateHolder = "restore"
    /\ Quiet
    /\ \A e \in Edges : edgeCount[e] = 0
    /\ lifecycle' \in [Agents -> {"active", "retained"}]
    /\ lifecycle'[Root] = "active"
    /\ lifeOwner' = [a \in Agents |-> NoTask]
    /\ change' = [a \in Agents |-> "none"]
    /\ stale' = stale \cup {t \in Tasks : pc[t] = "admit"}
    /\ gateHolder' = "none"
    /\ UNCHANGED <<taskVars, countVars, lockOwner, gateQueue, closing>>

\* The dissolution ends, or the restore fails and leaves the old state.
ReleaseGate ==
    /\ gateHolder # "none"
    /\ gateHolder' = "none"
    /\ UNCHANGED <<taskVars, countVars, lockVars, identityVars, gateQueue, closing, stale>>

Close ==
    /\ ~closing
    /\ closing' = TRUE
    /\ UNCHANGED <<taskVars, countVars, lockVars, identityVars, gateVars, stale>>

-----------------------------------------------------------------------------
TaskStep(t) ==
    \/ Admit(t) \/ Refuse(t)
    \/ AcquireLifecycle(t) \/ RejectInactive(t) \/ AcquireLock(t)
    \/ MarkActive(t) \/ FinishBody(t) \/ Leave(t) \/ Abort(t)

IdentityStep(a) ==
    \/ Retain(a) \/ FlushBeforeDelete(a) \/ DeleteFlushed(a) \/ Reactivate(a)
    \/ ChangeCommitted(a) \/ ChangeFailed(a) \/ ChangeCancelled(a)

Next ==
    \/ \E t \in Tasks : StartRoot(t) \/ QueueAtGate(t) \/ TaskStep(t)
                        \/ CancelWaiting(t) \/ CancelAtGate(t)
    \/ \E p, t \in Tasks, joined \in BOOLEAN : Spawn(p, t, joined)
    \/ \E a \in Agents : IdentityStep(a)
    \/ BeginDissolve \/ BeginRestore \/ ApplyRestore \/ ReleaseGate \/ Close

Spec == Init /\ [][Next]_vars

\* A task that is not suspended runs on; asyncio.Lock serves its waiters in
\* order, so one that finds its lock free again and again obtains it; flushes
\* are answered, gate holders finish and model calls return.
Fairness ==
    /\ \A t \in Tasks : SF_vars(TaskStep(t)) /\ WF_vars(QueueAtGate(t))
    /\ \A a \in Agents : WF_vars(ChangeCommitted(a) \/ DeleteFlushed(a))
    /\ WF_vars(ReleaseGate)

FairSpec == Spec /\ Fairness
-----------------------------------------------------------------------------
(* Properties. *)

TypeOK ==
    /\ pc \in [Tasks -> PCs]
    /\ target \in [Tasks -> Agents]
    /\ chain \in [Tasks -> Seq(Tasks)]
    /\ awaiter \in [Tasks -> Tasks \cup {NoTask}]
    /\ edge \in [Tasks -> Edges \cup {NoEdge}]
    /\ edgeCount \in [Edges -> Nat]
    /\ starting \in Nat /\ active \in Nat
    /\ tokens \subseteq Tasks
    /\ lifeOwner \in [Agents -> Tasks \cup {NoTask, Host}]
    /\ lockOwner \in [Agents -> Tasks \cup {NoTask}]
    /\ lifecycle \in [Agents -> LifecycleStates]
    /\ change \in [Agents -> Changes]
    /\ gateHolder \in {"none", "dissolve", "restore"}
    /\ gateQueue \subseteq Tasks
    /\ closing \in BOOLEAN
    /\ stale \subseteq Tasks

\* The manager's counters, tokens and edge counts say exactly which
\* invocations are under way, whatever was refused, cancelled or retired in
\* between: agent_invocation undoes on every path what it did on entry.
ExactAccounting ==
    /\ starting = Cardinality({t \in Tasks : pc[t] \in StartingPCs})
    /\ active = Cardinality({t \in Tasks : pc[t] \in ActivePCs})
    /\ tokens = {t \in Tasks : pc[t] \in ActivePCs}
    /\ \A e \in Edges : edgeCount[e] = Cardinality({t \in Tasks : edge[t] = e})

\* The reserved wait edges never close a cycle: every non-empty set of Agents
\* has one that waits for none of them (_reserve_wait_edges_locked).
WaitGraphAcyclic ==
    \A S \in SUBSET Agents :
        S # {} => \E a \in S : \A b \in S : edgeCount[<<a, b>>] = 0

\* What t is really suspended on: a lock another task owns, or a task it awaits.
WaitsFor(t, u) ==
    \/ pc[t] = "lifecycle" /\ lifeOwner[target[t]] = u
    \/ pc[t] = "lock" /\ lockOwner[target[t]] = u
    \/ pc[t] = "body" /\ awaiter[u] = t /\ pc[u] \notin EndedPCs

\* No set of tasks wait only for one another: the conservative wait graph of
\* Agents rules out every deadlock over the real asyncio locks and awaits.
NoCircularWait ==
    \A W \in SUBSET Tasks :
        W # {} => \E t \in W : \A u \in W : ~WaitsFor(t, u)

\* An invocation that has entered its guard owns agent.lock alone, and the
\* identity is active and in no transition, even if it was retired, deleted or
\* reactivated while the task waited (invocation_guard against retire).
InvokedOnlyWhileActive ==
    \A t \in Tasks : pc[t] \in {"mark", "body"} =>
        /\ lockOwner[target[t]] = t
        /\ lifecycle[target[t]] = "active"
        /\ change[target[t]] \in {"none", "flush"}

\* While a restore replaces the live state nothing is admitted or running and
\* no Agent lock is held (the gate and the two counters together).
RestoreRunsAlone ==
    gateHolder = "restore" =>
        /\ \A t \in Tasks : pc[t] \notin {"lifecycle", "lock", "mark", "body", "leave"}
        /\ \A a \in Agents : lockOwner[a] = NoTask

\* A task that queued behind a restore holds a replaced Agent object and never
\* gets to invoke it (the registration check of agent_invocation).
ReplacedAgentsStayIdle == \A t \in stale : pc[t] \in {"admit", "done"}

\* Every call of agent_invocation ends: admission, two locks and the gate
\* cannot starve it, whatever is retired, restored or cancelled meanwhile.
EveryInvocationEnds == \A t \in Tasks : pc[t] = "admit" ~> pc[t] \in EndedPCs

\* What test_delegation_dependencies.py asserts after a cancellation: when no
\* invocation is under way nothing is counted and no edge is reserved.
IdleManagerHoldsNothing ==
    (\A t \in Tasks : pc[t] \in EndedPCs \cup {"new"}) =>
        /\ starting = 0 /\ active = 0
        /\ tokens = {}
        /\ \A e \in Edges : edgeCount[e] = 0

=============================================================================
