----------------------- MODULE AgentInvocationProofs -----------------------
(***************************************************************************)
(* Safety of AgentInvocation for every set of Agents and every finite set  *)
(* of tasks.  The argument goes in four layers, each an invariant that the *)
(* next one uses:                                                          *)
(*   Counted    the counters, tokens and edge counts are exact;            *)
(*   Acyclic    hence a released edge is really free, and the path check   *)
(*              keeps the wait graph acyclic;                              *)
(*   Guarded    the two locks protect the identity and its state;          *)
(*   Joined     an awaited task has reserved the edge from its creator;    *)
(* and from the four together, no set of tasks waits in a circle.          *)
(***************************************************************************)
EXTENDS AgentInvocation, FiniteSetTheorems, TLAPS

-----------------------------------------------------------------------------
(* Counting the arguments a function maps into a set. *)

In(f, P) == {t \in Tasks : f[t] \in P}

LEMMA InFinite ==
    ASSUME NEW f, NEW P
    PROVE  IsFiniteSet(In(f, P)) /\ Cardinality(In(f, P)) \in Nat
<1>1. In(f, P) \in SUBSET Tasks
  BY DEF In
<1>2. IsFiniteSet(In(f, P))
  BY <1>1, FS_Subset, InvocationAssumption
<1> QED
  BY <1>2, FS_CardinalityType

LEMMA CountUp ==
    ASSUME NEW f, NEW g, NEW P, NEW t \in Tasks,
           f[t] \notin P, g[t] \in P,
           \A u \in Tasks \ {t} : g[u] = f[u]
    PROVE  Cardinality(In(g, P)) = Cardinality(In(f, P)) + 1
<1>1. In(g, P) = In(f, P) \cup {t} /\ t \notin In(f, P)
  BY DEF In
<1> QED
  BY <1>1, InFinite, FS_AddElement

LEMMA CountDown ==
    ASSUME NEW f, NEW g, NEW P, NEW t \in Tasks,
           f[t] \in P, g[t] \notin P,
           \A u \in Tasks \ {t} : g[u] = f[u]
    PROVE  /\ Cardinality(In(g, P)) = Cardinality(In(f, P)) - 1
           /\ Cardinality(In(f, P)) >= 1
<1>1. In(g, P) = In(f, P) \ {t} /\ t \in In(f, P)
  BY DEF In
<1>2. Cardinality(In(g, P)) = Cardinality(In(f, P)) - 1
  BY <1>1, InFinite, FS_RemoveElement
<1> QED
  BY <1>2, InFinite

LEMMA CountSame ==
    ASSUME NEW f, NEW g, NEW P, NEW t \in Tasks,
           f[t] \in P <=> g[t] \in P,
           \A u \in Tasks \ {t} : g[u] = f[u]
    PROVE  In(g, P) = In(f, P)
BY DEF In

LEMMA CountPositive ==
    ASSUME NEW f, NEW P, NEW t \in Tasks, f[t] \in P
    PROVE  Cardinality(In(f, P)) >= 1
<1>1. t \in In(f, P)
  BY DEF In
<1>2. Cardinality(In(f, P)) # 0
  BY <1>1, InFinite, FS_EmptySet
<1> QED
  BY <1>2, InFinite

LEMMA CountZero ==
    ASSUME NEW f, NEW P, Cardinality(In(f, P)) = 0
    PROVE  \A t \in Tasks : f[t] \notin P
<1>1. In(f, P) = {}
  BY InFinite, FS_EmptySet
<1> QED
  BY <1>1 DEF In

-----------------------------------------------------------------------------
(* Layer 1: the accounting is exact. *)

Unreserved == {"new", "admit", "done"}

Accounts ==
    /\ starting = Cardinality(In(pc, StartingPCs))
    /\ active = Cardinality(In(pc, ActivePCs))
    /\ tokens = In(pc, ActivePCs)
    /\ \A e \in Edges : edgeCount[e] = Cardinality(In(edge, {e}))
    /\ \A t \in Tasks : pc[t] \in Unreserved => edge[t] = NoEdge

Queued == \A t \in gateQueue : pc[t] \in GatePCs

Counted == TypeOK /\ Accounts /\ Queued

LEMMA InitCounted == Init => Counted
<1> SUFFICES ASSUME Init PROVE Counted
  OBVIOUS
<1>1. TypeOK
  <2>1. chain \in [Tasks -> Seq(Tasks)]
    BY DEF Init
  <2>2. edgeCount \in [Edges -> Nat]
    BY DEF Init
  <2> QED
    BY <2>1, <2>2 DEF Init, TypeOK, PCs, LifecycleStates, Changes
<1>2. In(pc, StartingPCs) = {} /\ In(pc, ActivePCs) = {}
  BY DEF Init, In, StartingPCs, ActivePCs
<1>3. \A e \in Edges : In(edge, {e}) = {}
  BY InvocationAssumption DEF Init, In, Edges
<1>4. Accounts
  BY <1>2, <1>3, FS_EmptySet DEF Accounts, Init, Edges
<1>5. Queued
  BY DEF Init, Queued
<1> QED
  BY <1>1, <1>4, <1>5 DEF Counted

\* A task queues for the gate only where it takes it, and leaves the queue
\* when it goes on.
LEMMA QueuedStep ==
    ASSUME TypeOK, Queued, NEW t \in Tasks, NEW v, Goto(t, v),
           \/ gateQueue' = gateQueue \ {t}
           \/ pc[t] \notin GatePCs /\ gateQueue' = gateQueue
    PROVE  Queued'
<1>1. \A u \in Tasks \ {t} : pc'[u] = pc[u]
  BY DEF Goto, TypeOK
<1>2. gateQueue' \subseteq gateQueue \ {t}
  BY DEF Queued
<1> QED
  BY <1>1, <1>2 DEF Queued, TypeOK

\* A task that moves between control points of the same class, with the
\* counters unchanged, leaves the accounting exact.
LEMMA SameClass ==
    ASSUME TypeOK, Accounts, NEW t \in Tasks, NEW v, Goto(t, v),
           UNCHANGED <<edge, countVars>>,
           pc[t] \in StartingPCs <=> v \in StartingPCs,
           pc[t] \in ActivePCs <=> v \in ActivePCs,
           v \in Unreserved => edge[t] = NoEdge
    PROVE  Accounts'
<1>1. pc'[t] = v /\ \A u \in Tasks \ {t} : pc'[u] = pc[u]
  BY DEF Goto, TypeOK
<1>2. In(pc', StartingPCs) = In(pc, StartingPCs)
  BY <1>1, CountSame
<1>3. In(pc', ActivePCs) = In(pc, ActivePCs)
  BY <1>1, CountSame
<1>4. \A u \in Tasks : pc'[u] \in Unreserved => edge'[u] = NoEdge
  BY <1>1 DEF Accounts
<1> QED
  BY <1>2, <1>3, <1>4 DEF Accounts, countVars

\* Steps of hosts touch neither tasks nor counters.
LEMMA SameTasks ==
    ASSUME Accounts, UNCHANGED <<taskVars, countVars>>
    PROVE  Accounts'
BY DEF Accounts, taskVars, countVars

\* The except branch and the finally branch release what Admit reserved.
LEMMA ReleaseCounts ==
    ASSUME TypeOK, Accounts, NEW t \in Tasks, Release(t)
    PROVE  /\ edgeCount' \in [Edges -> Nat]
           /\ edge' \in [Tasks -> Edges \cup {NoEdge}]
           /\ \A e \in Edges : edgeCount'[e] = Cardinality(In(edge', {e}))
<1>1. edge' \in [Tasks -> Edges \cup {NoEdge}]
  BY DEF Release, TypeOK
<1>2. edge'[t] = NoEdge /\ \A u \in Tasks \ {t} : edge'[u] = edge[u]
  BY DEF Release, TypeOK
<1>3. edgeCount' \in [Edges -> Nat]
  BY DEF Release, TypeOK
<1>4. ASSUME NEW e \in Edges, edge[t] # e
      PROVE  edgeCount'[e] = Cardinality(In(edge', {e}))
  <2>1. In(edge', {e}) = In(edge, {e})
    BY <1>2, <1>4, CountSame, InvocationAssumption DEF Edges
  <2>2. edgeCount'[e] = edgeCount[e]
    BY <1>4 DEF Release, TypeOK
  <2> QED
    BY <2>1, <2>2 DEF Accounts
<1>5. ASSUME NEW e \in Edges, edge[t] = e
      PROVE  edgeCount'[e] = Cardinality(In(edge', {e}))
  <2>1. e # NoEdge
    BY InvocationAssumption DEF Edges
  <2>2. /\ Cardinality(In(edge', {e})) = Cardinality(In(edge, {e})) - 1
        /\ Cardinality(In(edge, {e})) >= 1
    BY <1>2, <1>5, <2>1, CountDown
  <2>3. edgeCount[e] = Cardinality(In(edge, {e})) /\ edgeCount[e] \in Nat
    BY DEF Accounts, TypeOK
  <2>4. edgeCount'[e] = IF edgeCount[e] <= 1 THEN 0 ELSE edgeCount[e] - 1
    BY <1>5, <2>1 DEF Release, TypeOK
  <2> QED
    BY <2>2, <2>3, <2>4
<1> QED
  BY <1>1, <1>3, <1>4, <1>5

LEMMA AdmitCounted ==
    ASSUME Counted, NEW t \in Tasks, Admit(t)
    PROVE  Counted'
<1> USE DEF Counted
<1>1. pc[t] = "admit" /\ edge[t] = NoEdge
  BY DEF Admit, Accounts, Unreserved
<1>2. pc'[t] = "lifecycle" /\ \A u \in Tasks \ {t} : pc'[u] = pc[u]
  BY DEF Admit, Goto, TypeOK
<1>3. /\ Cardinality(In(pc', StartingPCs)) = Cardinality(In(pc, StartingPCs)) + 1
      /\ In(pc', ActivePCs) = In(pc, ActivePCs)
  <2>1. pc[t] \notin StartingPCs /\ pc'[t] \in StartingPCs
    BY <1>1, <1>2 DEF StartingPCs
  <2>2. pc[t] \notin ActivePCs /\ pc'[t] \notin ActivePCs
    BY <1>1, <1>2 DEF ActivePCs
  <2> QED
    BY <1>2, <2>1, <2>2, CountUp, CountSame
<1> DEFINE EdgesCounted ==
      /\ edgeCount' \in [Edges -> Nat]
      /\ edge' \in [Tasks -> Edges \cup {NoEdge}]
      /\ \A e \in Edges : edgeCount'[e] = Cardinality(In(edge', {e}))
      /\ \A u \in Tasks \ {t} : edge'[u] = edge[u]
<1>4. EdgesCounted
  <2>1. CASE UNCHANGED <<edge, edgeCount>>
    BY <2>1 DEF TypeOK, Accounts
  <2>2. ASSUME NEW a \in Caller(t),
               Reserve(<<a, target[t]>>),
               edge' = [edge EXCEPT ![t] = <<a, target[t]>>]
        PROVE  EdgesCounted
    <3> DEFINE d == <<a, target[t]>>
    <3>1. a \in Agents /\ d \in Edges
      BY DEF Caller, Live, TypeOK, Edges
    <3> HIDE DEF d
    <3>2. edge'[t] = d /\ \A u \in Tasks \ {t} : edge'[u] = edge[u]
      BY <2>2 DEF TypeOK, d
    <3>3. edgeCount' = [edgeCount EXCEPT ![d] = @ + 1]
      BY <2>2 DEF Reserve, d
    <3>4. Cardinality(In(edge', {d})) = Cardinality(In(edge, {d})) + 1
      BY <1>1, <3>1, <3>2, CountUp, InvocationAssumption DEF Edges
    <3>5. \A e \in Edges \ {d} : In(edge', {e}) = In(edge, {e})
      BY <1>1, <3>1, <3>2, CountSame, InvocationAssumption DEF Edges
    <3>6. edge' \in [Tasks -> Edges \cup {NoEdge}]
      BY <2>2, <3>1 DEF TypeOK, d
    <3>7. edgeCount' \in [Edges -> Nat]
      BY <3>1, <3>3 DEF TypeOK
    <3>8. edgeCount'[d] = Cardinality(In(edge', {d}))
      BY <3>1, <3>3, <3>4 DEF TypeOK, Accounts
    <3>9. \A e \in Edges \ {d} : edgeCount'[e] = Cardinality(In(edge', {e}))
      BY <3>1, <3>3, <3>5 DEF TypeOK, Accounts
    <3> QED
      BY <3>2, <3>6, <3>7, <3>8, <3>9
  <2> QED
    BY <2>1, <2>2 DEF Admit
<1>5. Accounts'
  BY <1>2, <1>3, <1>4 DEF Accounts, Admit, Unreserved
<1>6. TypeOK'
  <2>1. pc' \in [Tasks -> PCs]
    BY DEF Admit, Goto, TypeOK, PCs, StartingPCs
  <2>2. starting' \in Nat /\ gateQueue' \subseteq Tasks /\ gateHolder' = gateHolder
    BY DEF Admit, PassGate, TypeOK
  <2>3. UNCHANGED <<target, chain, awaiter, active, tokens, lockVars, identityVars,
                    closing, stale>>
    BY DEF Admit
  <2> QED
    BY <1>4, <2>1, <2>2, <2>3 DEF TypeOK, lockVars, identityVars
<1>7. Queued'
  BY QueuedStep DEF Admit, PassGate
<1> QED
  BY <1>5, <1>6, <1>7

LEMMA MarkActiveCounted ==
    ASSUME Counted, NEW t \in Tasks, MarkActive(t)
    PROVE  Counted'
<1> USE DEF Counted
<1>1. pc[t] = "mark"
  BY DEF MarkActive
<1>2. pc'[t] = "body" /\ \A u \in Tasks \ {t} : pc'[u] = pc[u]
  BY DEF MarkActive, Goto, TypeOK
<1>3. /\ Cardinality(In(pc', StartingPCs)) = Cardinality(In(pc, StartingPCs)) - 1
      /\ Cardinality(In(pc, StartingPCs)) >= 1
      /\ Cardinality(In(pc', ActivePCs)) = Cardinality(In(pc, ActivePCs)) + 1
      /\ In(pc', ActivePCs) = In(pc, ActivePCs) \cup {t}
  <2>1. pc[t] \in StartingPCs /\ pc'[t] \notin StartingPCs
    BY <1>1, <1>2 DEF StartingPCs
  <2>2. pc[t] \notin ActivePCs /\ pc'[t] \in ActivePCs
    BY <1>1, <1>2 DEF ActivePCs
  <2>3. In(pc', ActivePCs) = In(pc, ActivePCs) \cup {t}
    BY <1>2, <2>2 DEF In
  <2> QED
    BY <1>2, <2>1, <2>2, <2>3, CountUp, CountDown, ZenonT(60)
<1>4. Accounts'
  BY <1>2, <1>3 DEF Accounts, MarkActive, Unreserved
<1>5. TypeOK'
  BY <1>3 DEF TypeOK, Accounts, MarkActive, PassGate, Goto, PCs, ActivePCs,
              lockVars, identityVars
<1>6. Queued'
  BY QueuedStep DEF MarkActive, PassGate
<1> QED
  BY <1>4, <1>5, <1>6

LEMMA LeaveCounted ==
    ASSUME Counted, NEW t \in Tasks, Leave(t)
    PROVE  Counted'
<1> USE DEF Counted
<1>1. pc[t] = "leave" /\ Release(t)
  BY DEF Leave
<1>2. pc'[t] = "done" /\ \A u \in Tasks \ {t} : pc'[u] = pc[u]
  BY DEF Leave, Goto, TypeOK
<1>3. /\ In(pc', StartingPCs) = In(pc, StartingPCs)
      /\ Cardinality(In(pc', ActivePCs)) = Cardinality(In(pc, ActivePCs)) - 1
      /\ Cardinality(In(pc, ActivePCs)) >= 1
      /\ In(pc', ActivePCs) = In(pc, ActivePCs) \ {t}
  <2>1. pc[t] \notin StartingPCs /\ pc'[t] \notin StartingPCs
    BY <1>1, <1>2 DEF StartingPCs
  <2>2. pc[t] \in ActivePCs /\ pc'[t] \notin ActivePCs
    BY <1>1, <1>2 DEF ActivePCs
  <2>3. In(pc', ActivePCs) = In(pc, ActivePCs) \ {t}
    BY <1>2, <2>2 DEF In
  <2> QED
    BY <1>2, <2>1, <2>2, <2>3, CountSame, CountDown
<1>4. edge'[t] = NoEdge /\ \A u \in Tasks \ {t} : edge'[u] = edge[u]
  BY <1>1 DEF Release, TypeOK
<1>5. Accounts'
  BY <1>1, <1>2, <1>3, <1>4, ReleaseCounts DEF Accounts, Leave
<1>6. TypeOK'
  BY <1>1, <1>3, ReleaseCounts
  DEF TypeOK, Accounts, Leave, PassGate, Goto, PCs, lockVars, identityVars
<1>7. Queued'
  BY QueuedStep DEF Leave, PassGate
<1> QED
  BY <1>5, <1>6, <1>7

LEMMA AbortCounted ==
    ASSUME Counted, NEW t \in Tasks, Abort(t)
    PROVE  Counted'
<1> USE DEF Counted
<1>1. pc[t] \in {"abort", "abortLocked"} /\ Release(t)
  BY DEF Abort
<1>2. pc'[t] = "done" /\ \A u \in Tasks \ {t} : pc'[u] = pc[u]
  BY DEF Abort, Goto, TypeOK
<1>3. /\ Cardinality(In(pc', StartingPCs)) = Cardinality(In(pc, StartingPCs)) - 1
      /\ Cardinality(In(pc, StartingPCs)) >= 1
      /\ In(pc', ActivePCs) = In(pc, ActivePCs)
  <2>1. pc[t] \in StartingPCs /\ pc'[t] \notin StartingPCs
    BY <1>1, <1>2 DEF StartingPCs
  <2>2. pc[t] \notin ActivePCs /\ pc'[t] \notin ActivePCs
    BY <1>1, <1>2 DEF ActivePCs
  <2> QED
    BY <1>2, <2>1, <2>2, CountSame, CountDown
<1>4. edge'[t] = NoEdge /\ \A u \in Tasks \ {t} : edge'[u] = edge[u]
  BY <1>1 DEF Release, TypeOK
<1>5. Accounts'
  BY <1>1, <1>2, <1>3, <1>4, ReleaseCounts DEF Accounts, Abort
<1>6. TypeOK'
  BY <1>1, <1>3, ReleaseCounts
  DEF TypeOK, Accounts, Abort, PassGate, Goto, PCs, identityVars
<1>7. Queued'
  BY QueuedStep DEF Abort, PassGate
<1> QED
  BY <1>5, <1>6, <1>7

\* Steps of a task that neither count nor release anything.
LEMMA MoveCounted ==
    ASSUME Counted, NEW t \in Tasks,
           \/ StartRoot(t) \/ Refuse(t) \/ AcquireLifecycle(t) \/ RejectInactive(t)
           \/ AcquireLock(t) \/ FinishBody(t) \/ CancelWaiting(t) \/ CancelAtGate(t)
           \/ \E p \in Tasks, joined \in BOOLEAN : Spawn(p, t, joined)
    PROVE  Counted'
<1> USE DEF Counted
<1> DEFINE Steps(v) ==
      /\ Goto(t, v) /\ v \in PCs
      /\ UNCHANGED <<target, edge, countVars>>
      /\ pc[t] \in StartingPCs <=> v \in StartingPCs
      /\ pc[t] \in ActivePCs <=> v \in ActivePCs
      /\ v \in Unreserved => edge[t] = NoEdge
<1> DEFINE Fits ==
      /\ chain' \in [Tasks -> Seq(Tasks)]
      /\ awaiter' \in [Tasks -> Tasks \cup {NoTask}]
      /\ lifeOwner' \in [Agents -> Tasks \cup {NoTask, Host}]
      /\ lockOwner' \in [Agents -> Tasks \cup {NoTask}]
      /\ gateQueue' \subseteq Tasks
      /\ \/ gateQueue' = gateQueue \ {t}
         \/ pc[t] \notin GatePCs /\ gateQueue' = gateQueue
      /\ UNCHANGED <<identityVars, gateHolder, closing, stale>>
<1> USE DEF PCs, StartingPCs, ActivePCs, Unreserved
<1>1. CASE StartRoot(t)
  <2>1. Steps("admit")
    BY <1>1 DEF StartRoot, Accounts
  <2>2. Fits
    BY <1>1 DEF StartRoot, GatePCs, TypeOK, lockVars, identityVars, gateVars
  <2> QED
    BY <2>1, <2>2, SameClass, QueuedStep DEF TypeOK, countVars, identityVars, Goto
<1>2. CASE Refuse(t)
  <2>1. Steps("done")
    BY <1>2 DEF Refuse, Accounts
  <2>2. Fits
    BY <1>2 DEF Refuse, PassGate, TypeOK, lockVars, identityVars
  <2> QED
    BY <2>1, <2>2, SameClass, QueuedStep DEF TypeOK, countVars, identityVars, Goto
<1>3. CASE AcquireLifecycle(t)
  <2>1. Steps("lock")
    BY <1>3 DEF AcquireLifecycle
  <2>2. Fits
    BY <1>3 DEF AcquireLifecycle, GatePCs, TypeOK, identityVars, gateVars
  <2> QED
    BY <2>1, <2>2, SameClass, QueuedStep DEF TypeOK, countVars, identityVars, Goto
<1>4. CASE RejectInactive(t)
  <2>1. Steps("abort")
    BY <1>4 DEF RejectInactive
  <2>2. Fits
    BY <1>4 DEF RejectInactive, GatePCs, TypeOK, lockVars, identityVars, gateVars
  <2> QED
    BY <2>1, <2>2, SameClass, QueuedStep DEF TypeOK, countVars, identityVars, Goto
<1>5. CASE AcquireLock(t)
  <2>1. Steps("mark")
    BY <1>5 DEF AcquireLock
  <2>2. Fits
    BY <1>5 DEF AcquireLock, GatePCs, TypeOK, identityVars, gateVars
  <2> QED
    BY <2>1, <2>2, SameClass, QueuedStep DEF TypeOK, countVars, identityVars, Goto
<1>6. CASE FinishBody(t)
  <2>1. Steps("leave")
    BY <1>6 DEF FinishBody
  <2>2. Fits
    BY <1>6 DEF FinishBody, GatePCs, TypeOK, identityVars, gateVars
  <2> QED
    BY <2>1, <2>2, SameClass, QueuedStep DEF TypeOK, countVars, identityVars, Goto
<1>7. CASE CancelWaiting(t)
  <2>1. Steps("abort")
    BY <1>7 DEF CancelWaiting
  <2>2. Fits
    BY <1>7 DEF CancelWaiting, LifecycleAfterCancel, GatePCs, TypeOK, identityVars, gateVars
  <2> QED
    BY <2>1, <2>2, SameClass, QueuedStep DEF TypeOK, countVars, identityVars, Goto
<1>8. CASE CancelAtGate(t)
  <2>0. pc[t] \in GatePCs
    BY <1>8 DEF CancelAtGate, Queued
  <2>1. Steps(AfterGateCancel(pc[t]))
    BY <1>8, <2>0 DEF CancelAtGate, AfterGateCancel, GatePCs, Accounts
  <2>2. Fits
    BY <1>8 DEF CancelAtGate, TypeOK, identityVars
  <2> QED
    BY <2>1, <2>2, SameClass, QueuedStep DEF TypeOK, countVars, identityVars, Goto
<1>9. ASSUME NEW p \in Tasks, NEW joined \in BOOLEAN, Spawn(p, t, joined)
      PROVE  Counted'
  <2>1. Steps("admit")
    BY <1>9 DEF Spawn, Accounts
  <2>2. Append(chain[p], p) \in Seq(Tasks)
    BY <1>9 DEF TypeOK
  <2>3. Fits
    BY <1>9, <2>2 DEF Spawn, GatePCs, TypeOK, lockVars, identityVars, gateVars
  <2> QED
    BY <2>1, <2>3, SameClass, QueuedStep DEF TypeOK, countVars, identityVars, Goto
<1> QED
  BY <1>1, <1>2, <1>3, <1>4, <1>5, <1>6, <1>7, <1>8, <1>9

LEMMA QueueAtGateCounted ==
    ASSUME Counted, NEW t \in Tasks, QueueAtGate(t)
    PROVE  Counted'
<1>1. Accounts'
  BY SameTasks DEF Counted, QueueAtGate
<1>2. Queued'
  BY DEF Counted, Queued, QueueAtGate, taskVars
<1>3. TypeOK'
  BY DEF Counted, QueueAtGate, TypeOK, taskVars, countVars, lockVars, identityVars
<1> QED
  BY <1>1, <1>2, <1>3 DEF Counted

\* Identity changes, gate holders, shutdown and stuttering.
LEMMA HostCounted ==
    ASSUME Counted, \/ \E a \in Agents : IdentityStep(a)
                    \/ BeginDissolve \/ BeginRestore \/ ApplyRestore \/ ReleaseGate
                    \/ Close \/ UNCHANGED vars
    PROVE  Counted'
<1> DEFINE Fits ==
      /\ lifeOwner' \in [Agents -> Tasks \cup {NoTask, Host}]
      /\ lifecycle' \in [Agents -> LifecycleStates]
      /\ change' \in [Agents -> Changes]
      /\ gateHolder' \in {"none", "dissolve", "restore"}
      /\ closing' \in BOOLEAN
      /\ stale' \subseteq Tasks
      /\ UNCHANGED <<taskVars, countVars, lockOwner, gateQueue>>
<1> USE DEF LifecycleStates, Changes
<1>1. ASSUME NEW a \in Agents, IdentityStep(a) PROVE Fits
  <2>1. ASSUME NEW kind \in Changes, NEW state \in LifecycleStates,
               BeginChange(a, kind, state)
        PROVE  Fits
    BY <2>1 DEF BeginChange, Counted, TypeOK, gateVars
  <2>2. ASSUME NEW state \in LifecycleStates, EndChange(a, state) PROVE Fits
    BY <2>2 DEF EndChange, Counted, TypeOK, gateVars
  <2>3. lifecycle[a] \in LifecycleStates
    BY DEF Counted, TypeOK
  <2>4. CASE Retain(a)
    BY <2>1, <2>4 DEF Retain
  <2>5. CASE FlushBeforeDelete(a)
    BY <2>1, <2>5 DEF FlushBeforeDelete
  <2>6. CASE DeleteFlushed(a)
    <3>1. CASE EndChange(a, "active")
      BY <2>2, <3>1
    <3>2. CASE lockOwner[a] = NoTask
      BY <2>6, <3>2 DEF DeleteFlushed, Counted, TypeOK, gateVars, lockVars
    <3> QED
      BY <2>6, <3>1, <3>2 DEF DeleteFlushed
  <2>7. CASE Reactivate(a)
    BY <2>1, <2>7 DEF Reactivate
  <2>8. CASE ChangeCommitted(a)
    BY <2>2, <2>3, <2>8 DEF ChangeCommitted
  <2>9. CASE ChangeFailed(a)
    BY <2>2, <2>9 DEF ChangeFailed
  <2>10. CASE ChangeCancelled(a)
    BY <2>2, <2>3, <2>10 DEF ChangeCancelled
  <2> QED
    BY <1>1, <2>4, <2>5, <2>6, <2>7, <2>8, <2>9, <2>10 DEF IdentityStep
<1>2. ASSUME BeginDissolve \/ BeginRestore \/ ReleaseGate \/ Close \/ UNCHANGED vars
      PROVE  Fits
  BY <1>2 DEF BeginDissolve, BeginRestore, ReleaseGate, Close, vars, Counted, TypeOK,
              lockVars, identityVars, gateVars
<1>3. ASSUME ApplyRestore PROVE Fits
  <2>1. lifecycle' \in [Agents -> LifecycleStates]
    BY <1>3 DEF ApplyRestore
  <2> QED
    BY <1>3, <2>1 DEF ApplyRestore, Counted, TypeOK
<1>4. Fits
  BY <1>1, <1>2, <1>3
<1>5. Accounts'
  BY <1>4, SameTasks DEF Counted
<1>6. Queued'
  BY <1>4 DEF Counted, Queued, taskVars
<1>7. TypeOK'
  BY <1>4 DEF Counted, TypeOK, taskVars, countVars
<1> QED
  BY <1>5, <1>6, <1>7 DEF Counted

\* The counters, the tokens and the reference counts of the wait edges are
\* exact in every reachable state.
THEOREM CountedInvariant == Spec => []Counted
<1>1. Init => Counted
  BY InitCounted
<1>2. Counted /\ [Next]_vars => Counted'
  <2> SUFFICES ASSUME Counted, [Next]_vars PROVE Counted'
    OBVIOUS
  <2>1. ASSUME NEW t \in Tasks, TaskStep(t) PROVE Counted'
    BY <2>1, AdmitCounted, MarkActiveCounted, LeaveCounted, AbortCounted, MoveCounted
    DEF TaskStep
  <2>2. ASSUME NEW t \in Tasks, StartRoot(t) \/ CancelWaiting(t) \/ CancelAtGate(t)
        PROVE  Counted'
    BY <2>2, MoveCounted
  <2>3. ASSUME NEW p \in Tasks, NEW t \in Tasks, NEW joined \in BOOLEAN, Spawn(p, t, joined)
        PROVE  Counted'
    BY <2>3, MoveCounted
  <2>4. ASSUME NEW t \in Tasks, QueueAtGate(t) PROVE Counted'
    BY <2>4, QueueAtGateCounted
  <2> QED
    BY <2>1, <2>2, <2>3, <2>4, HostCounted DEF Next
<1> QED
  BY <1>1, <1>2, PTL DEF Spec

THEOREM TypeCorrect == Spec => []TypeOK
<1>1. Counted => TypeOK
  BY DEF Counted
<1> QED
  BY <1>1, CountedInvariant, PTL

\* agent_invocation undoes on every path exactly what it did on entry.
THEOREM AccountingIsExact == Spec => []ExactAccounting
<1>1. Counted => ExactAccounting
  <2>1. \A P : In(pc, P) = {t \in Tasks : pc[t] \in P}
    BY DEF In
  <2>2. \A e : In(edge, {e}) = {t \in Tasks : edge[t] = e}
    BY DEF In
  <2> QED
    BY <2>1, <2>2 DEF Counted, Accounts, ExactAccounting
<1> QED
  BY <1>1, CountedInvariant, PTL

-----------------------------------------------------------------------------
(* Layer 2: the wait graph is acyclic. *)

LEMMA FewerEdges ==
    ASSUME WaitGraphAcyclic, \A e \in Edges : edgeCount[e] = 0 => edgeCount'[e] = 0
    PROVE  WaitGraphAcyclic'
BY DEF WaitGraphAcyclic, Edges

\* The heart of _reserve_wait_edges_locked: when b cannot reach a, a closed set
\* around b separates them, and no cycle can pass through the new edge.
LEMMA NewEdge ==
    ASSUME TypeOK, WaitGraphAcyclic, NEW a \in Agents, NEW b \in Agents,
           MayReserve(a, b), Reserve(<<a, b>>)
    PROVE  WaitGraphAcyclic'
<1>1. \A e \in Edges \ {<<a, b>>} : edgeCount'[e] = edgeCount[e]
  BY DEF Reserve, TypeOK
<1>2. CASE edgeCount[<<a, b>>] > 0
  BY <1>1, <1>2, FewerEdges
<1>3. CASE ~PathExists(b, a)
  <2>1. PICK R \in SUBSET Agents : b \in R /\ Closed(R) /\ a \notin R
    BY <1>3 DEF PathExists
  <2>2. ASSUME NEW S \in SUBSET Agents, S # {}
        PROVE  \E x \in S : \A y \in S : edgeCount'[<<x, y>>] = 0
    <3>1. CASE S \cap R # {}
      <4>1. PICK x \in S \cap R : \A y \in S \cap R : edgeCount[<<x, y>>] = 0
        BY <3>1 DEF WaitGraphAcyclic
      <4>2. \A y \in S : edgeCount[<<x, y>>] = 0
        BY <2>1, <4>1 DEF Closed, TypeOK, Edges
      <4>3. \A y \in S : edgeCount'[<<x, y>>] = 0
        BY <1>1, <2>1, <4>1, <4>2 DEF Edges
      <4> QED
        BY <4>3
    <3>2. CASE S \cap R = {}
      <4>1. PICK x \in S : \A y \in S : edgeCount[<<x, y>>] = 0
        BY <2>2 DEF WaitGraphAcyclic
      <4>2. b \notin S
        BY <2>1, <3>2
      <4>3. \A y \in S : edgeCount'[<<x, y>>] = 0
        BY <1>1, <4>1, <4>2 DEF Edges
      <4> QED
        BY <4>3
    <3> QED
      BY <3>1, <3>2
  <2> QED
    BY <2>2 DEF WaitGraphAcyclic
<1> QED
  BY <1>2, <1>3 DEF MayReserve

LEMMA ReleaseAcyclic ==
    ASSUME TypeOK, WaitGraphAcyclic, NEW t \in Tasks, Release(t)
    PROVE  WaitGraphAcyclic'
<1>1. \A e \in Edges : edgeCount[e] = 0 => edgeCount'[e] = 0
  BY DEF Release, TypeOK
<1> QED
  BY <1>1, FewerEdges

LEMMA AcyclicStep ==
    ASSUME Counted, WaitGraphAcyclic, [Next]_vars
    PROVE  WaitGraphAcyclic'
<1>1. TypeOK
  BY DEF Counted
<1>2. CASE UNCHANGED edgeCount
  BY <1>2, FewerEdges
<1>3. ASSUME NEW t \in Tasks, Admit(t) PROVE WaitGraphAcyclic'
  <2>1. ASSUME NEW a \in Caller(t), Reserve(<<a, target[t]>>) PROVE WaitGraphAcyclic'
    <3>1. a \in Agents /\ target[t] \in Agents
      BY <1>1 DEF Caller, Live, TypeOK
    <3>2. MayReserve(a, target[t])
      BY <1>3 DEF Admit, Admissible
    <3> QED
      BY <1>1, <2>1, <3>1, <3>2, NewEdge
  <2> QED
    BY <1>2, <1>3, <2>1 DEF Admit
<1>4. ASSUME NEW t \in Tasks, Leave(t) \/ Abort(t) PROVE WaitGraphAcyclic'
  BY <1>1, <1>4, ReleaseAcyclic DEF Leave, Abort
<1>5. ASSUME NEW t \in Tasks,
             \/ StartRoot(t) \/ QueueAtGate(t) \/ Refuse(t) \/ AcquireLifecycle(t)
             \/ RejectInactive(t) \/ AcquireLock(t) \/ MarkActive(t) \/ FinishBody(t)
             \/ CancelWaiting(t) \/ CancelAtGate(t)
             \/ \E p \in Tasks, joined \in BOOLEAN : Spawn(p, t, joined)
      PROVE  UNCHANGED edgeCount
  BY <1>5 DEF StartRoot, QueueAtGate, Refuse, AcquireLifecycle, RejectInactive, AcquireLock,
              MarkActive, FinishBody, CancelWaiting, CancelAtGate, Spawn, countVars
<1>6. ASSUME NEW a \in Agents, IdentityStep(a) PROVE UNCHANGED edgeCount
  BY <1>6 DEF IdentityStep, Retain, FlushBeforeDelete, DeleteFlushed, Reactivate,
              ChangeCommitted, ChangeFailed, ChangeCancelled, BeginChange, EndChange, countVars
<1>7. ASSUME BeginDissolve \/ BeginRestore \/ ApplyRestore \/ ReleaseGate \/ Close
             \/ UNCHANGED vars
      PROVE  UNCHANGED edgeCount
  BY <1>7 DEF BeginDissolve, BeginRestore, ApplyRestore, ReleaseGate, Close, vars, countVars
<1> QED
  BY <1>2, <1>3, <1>4, <1>5, <1>6, <1>7 DEF Next, TaskStep

\* No sequence of admissions, nested to any depth and released in any order,
\* closes a cycle of wait edges.
THEOREM WaitGraphStaysAcyclic == Spec => []WaitGraphAcyclic
<1>1. Init => WaitGraphAcyclic
  BY DEF Init, WaitGraphAcyclic, Edges
<1>2. Counted /\ WaitGraphAcyclic /\ [Next]_vars => WaitGraphAcyclic'
  BY AcyclicStep
<1> QED
  BY <1>1, <1>2, CountedInvariant, PTL DEF Spec

-----------------------------------------------------------------------------
(* Layer 3: the locks protect the identity. *)

\* agent.lock is owned by exactly the task that is inside its guard, or that
\* leaves it through the except branch.
LockExact ==
    /\ \A t \in Tasks : pc[t] \in LockedPCs => lockOwner[target[t]] = t
    /\ \A a \in Agents : lockOwner[a] \in Tasks =>
           target[lockOwner[a]] = a /\ pc[lockOwner[a]] \in LockedPCs

\* lifecycle_lock is owned by a task that waits for agent.lock, or by the host
\* call that changes the identity.
LifecycleLockExact ==
    /\ \A t \in Tasks : pc[t] = "lock" => lifeOwner[target[t]] = t
    /\ \A a \in Agents : lifeOwner[a] \in Tasks =>
           target[lifeOwner[a]] = a /\ pc[lifeOwner[a]] = "lock"
    /\ \A a \in Agents : change[a] # "none" => lifeOwner[a] = Host

\* From the check under lifecycle_lock to the end of the body.
StateKept ==
    \A t \in Tasks : pc[t] \in {"lock", "mark", "body"} =>
        lifecycle[target[t]] = "active" /\ change[target[t]] \in {"none", "flush"}

Guarded ==
    /\ LockExact
    /\ LifecycleLockExact
    /\ StateKept
    /\ RestoreRunsAlone
    /\ ReplacedAgentsStayIdle

\* A quiet manager has no invocation past admission.
LEMMA QuietMeansIdle ==
    ASSUME Counted, Quiet
    PROVE  \A t \in Tasks : pc[t] \notin StartingPCs \cup ActivePCs
BY CountZero DEF Counted, Accounts, Quiet

LEMMA TaskGuarded ==
    ASSUME Counted, Guarded, NEW t \in Tasks,
           StartRoot(t) \/ TaskStep(t) \/ CancelWaiting(t) \/ CancelAtGate(t)
    PROVE  Guarded'
<1> USE DEF Counted, Guarded, LockExact, LifecycleLockExact, StateKept, RestoreRunsAlone,
            ReplacedAgentsStayIdle, TypeOK, Goto, LockedPCs
<1> USE InvocationAssumption
<1>1. CASE StartRoot(t)
  BY <1>1 DEF StartRoot, lockVars, identityVars, gateVars
<1>2. CASE Admit(t)
  BY <1>2 DEF Admit, Admissible, PassGate, GateOpen, lockVars, identityVars
<1>3. CASE Refuse(t)
  BY <1>3 DEF Refuse, PassGate, GateOpen, lockVars, identityVars
<1>4. CASE AcquireLifecycle(t)
  BY <1>4 DEF AcquireLifecycle, StillActive, identityVars, gateVars
<1>5. CASE RejectInactive(t)
  BY <1>5 DEF RejectInactive, lockVars, identityVars, gateVars
<1>6. CASE AcquireLock(t)
  BY <1>6 DEF AcquireLock, identityVars, gateVars
<1>7. CASE MarkActive(t)
  BY <1>7 DEF MarkActive, PassGate, GateOpen, lockVars, identityVars
<1>8. CASE FinishBody(t)
  BY <1>8 DEF FinishBody, identityVars, gateVars
<1>9. CASE Leave(t)
  BY <1>9 DEF Leave, PassGate, GateOpen, lockVars, identityVars
<1>10. CASE Abort(t)
  BY <1>10 DEF Abort, PassGate, GateOpen, identityVars
<1>11. CASE CancelWaiting(t)
  BY <1>11 DEF CancelWaiting, LifecycleAfterCancel, identityVars, gateVars
<1>12. CASE CancelAtGate(t)
  <2>1. pc[t] \in GatePCs
    BY <1>12 DEF CancelAtGate, Queued
  <2> QED
    BY <1>12, <2>1 DEF CancelAtGate, AfterGateCancel, GatePCs, identityVars
<1> QED
  BY <1>1, <1>2, <1>3, <1>4, <1>5, <1>6, <1>7, <1>8, <1>9, <1>10, <1>11, <1>12
  DEF TaskStep

\* A new task holds no lock, and neither does one that queues for the gate.
LEMMA SpawnOrQueueGuarded ==
    ASSUME Counted, Guarded, NEW t \in Tasks,
           \/ QueueAtGate(t)
           \/ \E p \in Tasks, joined \in BOOLEAN : Spawn(p, t, joined)
    PROVE  Guarded'
<1> USE DEF Counted, Guarded, LockExact, LifecycleLockExact, StateKept, RestoreRunsAlone,
            ReplacedAgentsStayIdle
<1>1. CASE QueueAtGate(t)
  BY <1>1 DEF QueueAtGate, taskVars, lockVars, identityVars
<1>2. ASSUME NEW p \in Tasks, NEW joined \in BOOLEAN, Spawn(p, t, joined)
      PROVE  Guarded'
  BY <1>2, InvocationAssumption
  DEF Spawn, Goto, TypeOK, LockedPCs, lockVars, identityVars, gateVars
<1> QED
  BY <1>1, <1>2

\* An identity change starts only when no invocation is inside its guard, and
\* its end leaves an identity that is still being invoked active.
LEMMA IdentityGuarded ==
    ASSUME Counted, Guarded, NEW a \in Agents, IdentityStep(a)
    PROVE  Guarded'
<1> USE DEF Counted, Guarded, TypeOK
<1> USE InvocationAssumption
<1>1. UNCHANGED <<pc, target, lockOwner, gateHolder, stale>>
  BY DEF IdentityStep, Retain, FlushBeforeDelete, DeleteFlushed, Reactivate, ChangeCommitted,
         ChangeFailed, ChangeCancelled, BeginChange, EndChange, taskVars, gateVars, lockVars
<1>2. LockExact' /\ RestoreRunsAlone' /\ ReplacedAgentsStayIdle'
  BY <1>1 DEF LockExact, RestoreRunsAlone, ReplacedAgentsStayIdle
<1>3. LifecycleLockExact' /\ StateKept'
  <2> USE DEF LifecycleLockExact, StateKept, LockExact, LockedPCs
  <2>1. CASE Retain(a)
    BY <1>1, <2>1 DEF Retain, BeginChange
  <2>2. CASE FlushBeforeDelete(a)
    BY <1>1, <2>2 DEF FlushBeforeDelete, BeginChange
  <2>3. CASE DeleteFlushed(a)
    <3>1. change[a] = "flush" /\ lifeOwner[a] = Host
      BY <2>3 DEF DeleteFlushed
    <3>2. \A t \in Tasks : pc[t] = "lock" => target[t] # a
      BY <3>1
    <3>3. CASE EndChange(a, "active")
      BY <1>1, <3>2, <3>3 DEF EndChange
    <3>4. CASE lockOwner[a] = NoTask /\ ~EndChange(a, "active")
      <4>1. \A t \in Tasks : pc[t] \in {"lock", "mark", "body"} => target[t] # a
        BY <3>2, <3>4
      <4>2. /\ lifecycle' = [lifecycle EXCEPT ![a] = "deleting"]
            /\ change' = [change EXCEPT ![a] = "delete"]
            /\ lifeOwner' = lifeOwner
        BY <2>3, <3>4 DEF DeleteFlushed, lockVars
      <4> QED
        BY <1>1, <3>1, <4>1, <4>2
    <3> QED
      BY <2>3, <3>3, <3>4 DEF DeleteFlushed
  <2>4. CASE Reactivate(a)
    BY <1>1, <2>4 DEF Reactivate, BeginChange
  <2>5. CASE ChangeCommitted(a)
    BY <1>1, <2>5 DEF ChangeCommitted, EndChange
  <2>6. CASE ChangeFailed(a)
    BY <1>1, <2>6 DEF ChangeFailed, EndChange
  <2>7. CASE ChangeCancelled(a)
    BY <1>1, <2>7 DEF ChangeCancelled, EndChange
  <2> QED
    BY <2>1, <2>2, <2>3, <2>4, <2>5, <2>6, <2>7 DEF IdentityStep
<1> QED
  BY <1>2, <1>3

LEMMA HostGuarded ==
    ASSUME Counted, Guarded,
           BeginDissolve \/ BeginRestore \/ ApplyRestore \/ ReleaseGate \/ Close
           \/ UNCHANGED vars
    PROVE  Guarded'
<1> USE DEF Guarded, LockExact, LifecycleLockExact, StateKept, RestoreRunsAlone,
            ReplacedAgentsStayIdle
<1>1. CASE BeginDissolve \/ ReleaseGate \/ Close \/ UNCHANGED vars
  BY <1>1 DEF BeginDissolve, ReleaseGate, Close, vars, taskVars, lockVars, identityVars, gateVars
<1>2. CASE BeginRestore
  BY <1>2, QuietMeansIdle
  DEF BeginRestore, Quiet, StartingPCs, ActivePCs, taskVars, lockVars, identityVars
<1>3. CASE ApplyRestore
  <2>1. Quiet /\ UNCHANGED <<pc, target, lockOwner>>
    BY <1>3 DEF ApplyRestore, taskVars
  <2>2. \A t \in Tasks : pc[t] \notin StartingPCs \cup ActivePCs
    BY <2>1, QuietMeansIdle
  <2>3. /\ gateHolder' = "none"
        /\ \A a \in Agents : lifeOwner'[a] = NoTask /\ change'[a] = "none"
        /\ stale' = stale \cup {t \in Tasks : pc[t] = "admit"}
    BY <1>3 DEF ApplyRestore
  <2>4. LockExact' /\ LifecycleLockExact' /\ StateKept'
    BY <2>1, <2>2, <2>3, InvocationAssumption DEF StartingPCs, ActivePCs
  <2> QED
    BY <2>1, <2>3, <2>4
<1> QED
  BY <1>1, <1>2, <1>3

\* What the two locks of an Agent protect.
THEOREM GuardedInvariant == Spec => []Guarded
<1>1. Init => Guarded
  BY InvocationAssumption
  DEF Init, Guarded, LockExact, LifecycleLockExact, StateKept, RestoreRunsAlone,
      ReplacedAgentsStayIdle, LockedPCs
<1>2. Counted /\ Guarded /\ [Next]_vars => Guarded'
  BY TaskGuarded, SpawnOrQueueGuarded, IdentityGuarded, HostGuarded DEF Next
<1> QED
  BY <1>1, <1>2, CountedInvariant, PTL DEF Spec

\* A body runs under agent.lock on an identity that is active and is not being
\* retired, deleted or reactivated, whatever happened while it waited.
THEOREM BodiesRunOnActiveAgents == Spec => []InvokedOnlyWhileActive
<1>1. Guarded => InvokedOnlyWhileActive
  BY DEF Guarded, LockExact, StateKept, InvokedOnlyWhileActive, LockedPCs
<1> QED
  BY <1>1, GuardedInvariant, PTL

\* A restore that began stays alone until it publishes or gives up.
THEOREM RestoreIsExclusive == Spec => []RestoreRunsAlone
<1>1. Guarded => RestoreRunsAlone
  BY DEF Guarded
<1> QED
  BY <1>1, GuardedInvariant, PTL

\* An Agent object that a restore replaced is never invoked again.
THEOREM ReplacedAgentsAreRefused == Spec => []ReplacedAgentsStayIdle
<1>1. Guarded => ReplacedAgentsStayIdle
  BY DEF Guarded
<1> QED
  BY <1>1, GuardedInvariant, PTL

-----------------------------------------------------------------------------
(* Layer 4: an awaited task waits on behalf of the Agent of its creator. *)

Awaited(c) == awaiter[c] \in Tasks /\ pc[c] \notin EndedPCs

Joined ==
    \A c \in Tasks : Awaited(c) =>
        /\ pc[c] # "new"
        /\ pc[awaiter[c]] = "body"
        /\ Len(chain[c]) > 0
        /\ chain[c][Len(chain[c])] = awaiter[c]
        /\ pc[c] # "admit" => edge[c] = <<target[awaiter[c]], target[c]>>

\* The creator of an awaited task is the last live entry of its chain.
LEMMA CallerOfAwaited ==
    ASSUME Counted, Joined, NEW c \in Tasks, Awaited(c)
    PROVE  Caller(c) = {target[awaiter[c]]}
<1> DEFINE n == Len(chain[c])
<1>1. /\ n \in DOMAIN chain[c] /\ chain[c][n] = awaiter[c]
      /\ \A j \in DOMAIN chain[c] : j \in Int /\ j <= n
      /\ n \in Int
  <2>1. chain[c] \in Seq(Tasks) /\ n > 0
    BY DEF Joined, Counted, TypeOK
  <2>2. n \in Nat /\ DOMAIN chain[c] = 1..n
    BY <2>1
  <2> QED
    BY <2>1, <2>2 DEF Joined
<1>2. awaiter[c] \in tokens
  BY DEF Joined, Awaited, Counted, Accounts, In, ActivePCs
<1> HIDE DEF n
<1>3. n \in Live(c) /\ \A j \in Live(c) : j \in Int /\ j <= n
  BY <1>1, <1>2 DEF Live
<1> DEFINE last == {k \in Live(c) : \A j \in Live(c) : j <= k}
<1>4. last = {n}
  <2>1. n \in last
    BY <1>3
  <2>2. ASSUME NEW k \in last PROVE k = n
    <3>1. k \in Live(c) /\ n <= k
      BY <1>3, <2>2
    <3>2. k \in Int /\ k <= n
      BY <1>3, <3>1
    <3> QED
      BY <1>1, <3>1, <3>2
  <2> HIDE DEF last
  <2> QED
    BY <2>1, <2>2
<1>5. Caller(c) = {target[chain[c][i]] : i \in last}
  BY Zenon DEF Caller
<1> HIDE DEF last
<1> QED
  BY <1>1, <1>4, <1>5

LEMMA AdmitJoined ==
    ASSUME Counted, Joined, NEW t \in Tasks, Admit(t)
    PROVE  Joined'
<1>1. /\ pc[t] = "admit" /\ pc'[t] = "lifecycle"
      /\ \A u \in Tasks \ {t} : pc'[u] = pc[u] /\ edge'[u] = edge[u]
      /\ UNCHANGED <<target, chain, awaiter>>
  BY DEF Admit, Goto, Counted, TypeOK
<1>2. ASSUME Awaited(t)
      PROVE  edge'[t] = <<target[awaiter[t]], target[t]>>
  <2>1. Caller(t) = {target[awaiter[t]]}
    BY <1>2, CallerOfAwaited
  <2> QED
    BY <2>1 DEF Admit, Counted, TypeOK
<1>3. ASSUME NEW c \in Tasks, Awaited(c)' PROVE Awaited(c) /\ awaiter[c] # t
  <2>1. Awaited(c)
    BY <1>1, <1>3 DEF Awaited, EndedPCs
  <2> QED
    BY <1>1, <2>1 DEF Joined
<1> QED
  BY <1>1, <1>2, <1>3 DEF Joined, Awaited

LEMMA SpawnJoined ==
    ASSUME Counted, Joined, NEW p \in Tasks, NEW t \in Tasks, NEW joined \in BOOLEAN,
           Spawn(p, t, joined)
    PROVE  Joined'
<1>1. /\ pc[p] = "body" /\ pc[t] = "new" /\ pc'[t] = "admit"
      /\ \A u \in Tasks \ {t} : /\ pc'[u] = pc[u] /\ chain'[u] = chain[u]
                                /\ awaiter'[u] = awaiter[u]
      /\ awaiter'[t] \in {p, NoTask}
      /\ chain'[t] = Append(chain[p], p)
      /\ UNCHANGED <<target, edge>>
  BY DEF Spawn, Goto, Counted, TypeOK
<1>2. Len(chain'[t]) > 0 /\ chain'[t][Len(chain'[t])] = p
  <2>1. chain[p] \in Seq(Tasks)
    BY DEF Counted, TypeOK
  <2> QED
    BY <1>1, <2>1
<1>3. ASSUME NEW c \in Tasks \ {t}, Awaited(c)' PROVE Awaited(c) /\ awaiter[c] # t
  BY <1>1, <1>3 DEF Joined, Awaited
<1> QED
  BY <1>1, <1>2, <1>3, InvocationAssumption DEF Joined, Awaited

\* Steps that end a task or move it on; only FinishBody leaves a body.
LEMMA OtherJoined ==
    ASSUME Counted, Joined, NEW t \in Tasks,
           \/ StartRoot(t) \/ QueueAtGate(t) \/ Refuse(t) \/ AcquireLifecycle(t)
           \/ RejectInactive(t) \/ AcquireLock(t) \/ MarkActive(t) \/ FinishBody(t)
           \/ Leave(t) \/ Abort(t) \/ CancelWaiting(t) \/ CancelAtGate(t)
    PROVE  Joined'
<1> DEFINE Ends == pc'[t] \in EndedPCs
<1> DEFINE Stays == edge'[t] = edge[t] /\ pc'[t] # "new"
                    /\ (pc[t] = "admit" => pc'[t] = "admit")
<1>1. /\ UNCHANGED <<target, chain, awaiter>>
      /\ \A u \in Tasks \ {t} : pc'[u] = pc[u] /\ edge'[u] = edge[u]
  BY DEF StartRoot, QueueAtGate, Refuse, AcquireLifecycle, RejectInactive, AcquireLock,
         MarkActive, FinishBody, Leave, Abort, CancelWaiting, CancelAtGate, Goto, Release,
         taskVars, Counted, TypeOK
<1>2. pc[t] = "body" => FinishBody(t) \/ QueueAtGate(t)
  BY DEF StartRoot, Refuse, AcquireLifecycle, RejectInactive, AcquireLock,
         MarkActive, Leave, Abort, CancelWaiting, CancelAtGate, Counted, Queued, GatePCs
<1>3. \A c \in Tasks : Awaited(c) => pc'[awaiter[c]] = pc[awaiter[c]] \/ awaiter[c] # t
  BY <1>1, <1>2 DEF FinishBody, QueueAtGate, taskVars, Joined, Awaited
<1>4. pc[t] \in EndedPCs => Ends
  BY DEF StartRoot, QueueAtGate, Refuse, AcquireLifecycle, RejectInactive, AcquireLock,
         MarkActive, FinishBody, Leave, Abort, CancelWaiting, CancelAtGate, EndedPCs,
         Counted, Queued, GatePCs, taskVars
<1>5. pc[t] = "new" => ~Awaited(t)
  BY DEF Joined
<1>6. CASE Refuse(t) \/ Leave(t) \/ Abort(t)
  <2>1. Ends
    BY <1>6 DEF Refuse, Leave, Abort, Goto, EndedPCs, Counted, TypeOK
  <2> QED
    BY <1>1, <1>3, <1>4, <2>1 DEF Joined, Awaited
<1>7. CASE StartRoot(t)
  BY <1>1, <1>3, <1>5, <1>7 DEF Joined, Awaited, StartRoot, EndedPCs
<1>8. CASE \/ AcquireLifecycle(t) \/ RejectInactive(t) \/ AcquireLock(t) \/ MarkActive(t)
           \/ FinishBody(t) \/ CancelWaiting(t) \/ QueueAtGate(t)
  <2>1. Stays
    BY <1>8 DEF AcquireLifecycle, RejectInactive, AcquireLock, MarkActive, FinishBody,
                CancelWaiting, QueueAtGate, GatePCs, Goto, taskVars, Counted, TypeOK
  <2> QED
    BY <1>1, <1>3, <1>4, <2>1 DEF Joined, Awaited
<1>9. CASE CancelAtGate(t)
  <2>1. Ends \/ Stays
    BY <1>9 DEF CancelAtGate, AfterGateCancel, GatePCs, Goto, EndedPCs, Counted, Queued, TypeOK
  <2> QED
    BY <1>1, <1>3, <1>4, <2>1 DEF Joined, Awaited
<1> QED
  BY <1>6, <1>7, <1>8, <1>9

LEMMA HostJoined ==
    ASSUME Joined, UNCHANGED taskVars
    PROVE  Joined'
BY DEF Joined, Awaited, taskVars

THEOREM JoinedInvariant == Spec => []Joined
<1>1. Init => Joined
  BY InvocationAssumption DEF Init, Joined, Awaited
<1>2. Counted /\ Joined /\ [Next]_vars => Joined'
  <2> SUFFICES ASSUME Counted, Joined, [Next]_vars PROVE Joined'
    OBVIOUS
  <2>1. ASSUME NEW a \in Agents, IdentityStep(a) PROVE UNCHANGED taskVars
    BY <2>1 DEF IdentityStep, Retain, FlushBeforeDelete, DeleteFlushed, Reactivate,
                ChangeCommitted, ChangeFailed, ChangeCancelled, BeginChange, EndChange
  <2>2. ASSUME BeginDissolve \/ BeginRestore \/ ApplyRestore \/ ReleaseGate \/ Close
               \/ UNCHANGED vars
        PROVE  UNCHANGED taskVars
    BY <2>2 DEF BeginDissolve, BeginRestore, ApplyRestore, ReleaseGate, Close, vars
  <2> QED
    BY <2>1, <2>2, AdmitJoined, SpawnJoined, OtherJoined, HostJoined DEF Next, TaskStep
<1> QED
  BY <1>1, <1>2, CountedInvariant, PTL DEF Spec

-----------------------------------------------------------------------------
(* The four layers together. *)

\* Agents stand for the tasks that invoke them: whoever a task waits for, some
\* body of the same set waits along a reserved edge.
LEMMA NoCircle ==
    ASSUME Counted, WaitGraphAcyclic, Guarded, Joined
    PROVE  NoCircularWait
<1> SUFFICES ASSUME NEW W \in SUBSET Tasks, W # {},
                    \A t \in W : \E u \in W : WaitsFor(t, u)
             PROVE  FALSE
  BY DEF NoCircularWait
<1> DEFINE S == {target[t] : t \in {u \in W : pc[u] = "body"}}
<1>1. \A t \in W : pc[t] \in {"lifecycle", "lock", "body"}
  BY DEF WaitsFor
<1>2. \A t \in W : pc[t] = "lock" => target[t] \in S
  <2> TAKE t \in W
  <2> HAVE pc[t] = "lock"
  <2>1. PICK u \in W : WaitsFor(t, u)
    OBVIOUS
  <2>2. target[u] = target[t] /\ pc[u] \in LockedPCs
    BY <2>1 DEF WaitsFor, Guarded, LockExact, Counted, TypeOK
  <2>3. pc[u] = "body"
    BY <1>1, <2>2 DEF LockedPCs
  <2> QED
    BY <2>2, <2>3
<1>3. \A t \in W : pc[t] = "lifecycle" => target[t] \in S
  <2> TAKE t \in W
  <2> HAVE pc[t] = "lifecycle"
  <2>1. PICK u \in W : WaitsFor(t, u)
    OBVIOUS
  <2>2. target[u] = target[t] /\ pc[u] = "lock"
    BY <2>1 DEF WaitsFor, Guarded, LifecycleLockExact, Counted, TypeOK
  <2> QED
    BY <1>2, <2>2
<1>4. \A t \in W : target[t] \in S
  BY <1>1, <1>2, <1>3
<1>5. S # {} /\ S \in SUBSET Agents
  <2>1. \A t \in Tasks : target[t] \in Agents
    BY DEF Counted, TypeOK
  <2>2. S \in SUBSET Agents
    BY <2>1
  <2> HIDE DEF S
  <2> QED
    BY <1>4, <2>2
<1> HIDE DEF S
<1>6. PICK a \in S : \A b \in S : edgeCount[<<a, b>>] = 0
  BY <1>5 DEF WaitGraphAcyclic
<1>7. PICK t \in W : pc[t] = "body" /\ target[t] = a
  BY <1>6 DEF S
<1>8. PICK u \in W : WaitsFor(t, u)
  OBVIOUS
<1>9. Awaited(u) /\ awaiter[u] = t
  BY <1>7, <1>8 DEF WaitsFor, Awaited
<1>10. edge[u] = <<a, target[u]>>
  BY <1>1, <1>7, <1>9 DEF Joined
<1>11. target[u] \in S /\ <<a, target[u]>> \in Edges
  BY <1>4, <1>5, <1>6 DEF Edges
<1>12. edgeCount[<<a, target[u]>>] >= 1
  <2>1. Cardinality(In(edge, {<<a, target[u]>>})) >= 1
    BY <1>10, CountPositive
  <2> QED
    BY <1>11, <2>1 DEF Counted, Accounts
<1> QED
  BY <1>6, <1>11, <1>12

\* No deadlock over the locks of any Agents and the awaits of any tasks.
THEOREM NoDeadlock == Spec => []NoCircularWait
<1>1. Counted /\ WaitGraphAcyclic /\ Guarded /\ Joined => NoCircularWait
  BY NoCircle
<1> QED
  BY <1>1, CountedInvariant, WaitGraphStaysAcyclic, GuardedInvariant, JoinedInvariant, PTL

=============================================================================
