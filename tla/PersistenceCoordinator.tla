----------------------- MODULE PersistenceCoordinator -----------------------
(***************************************************************************)
(* Saving the runtime state: PersistenceCoordinator (one write at a time,  *)
(* all later deltas coalesced into one pending write) under the operations *)
(* of StateCoordinator: auto-saves, batches, authoritative commits, full   *)
(* saves, flush and close.  AgentRegistry's deletion of an Agent and the   *)
(* removal of a memory reference are the operations that remove records.   *)
(*                                                                         *)
(* A record is a key with the stamp of its last change; 0 means that there *)
(* is none.  Owner maps a record to the identity it belongs to (an inbox   *)
(* or a memory reference to its Agent) and an identity to itself.  A delta *)
(* maps the keys it does not carry to 0.  The writer runs on a thread of   *)
(* its own; a transaction is atomic, and what a crash leaves is durable.   *)
(***************************************************************************)
EXTENDS Naturals, FiniteSets

CONSTANTS
    Tasks,            \* asyncio tasks that change the state
    Keys,             \* records
    Owner,            \* the identity a record belongs to
    NoBatch,          \* no suppress_auto_save scope around the task
    DeadBatch,        \* a scope that has been left, seen by a task that inherited it
    EmergencyWakeup,  \* config.enable_emergency_wakeup
    Loaded,           \* the sets of records that may be there at first
    MaxChanges        \* bound on the number of changes to the state

Identities == {k \in Keys : Owner[k] = k}

ASSUME PersistenceAssumption ==
    /\ IsFiniteSet(Tasks) /\ IsFiniteSet(Keys)
    /\ Owner \in [Keys -> Keys]
    /\ \A k \in Keys : Owner[k] \in Identities
    /\ NoBatch \notin Tasks /\ DeadBatch \notin Tasks /\ NoBatch # DeadBatch
    /\ EmergencyWakeup \in BOOLEAN
    /\ Loaded \subseteq SUBSET Keys
    /\ MaxChanges \in Nat

Stamps == 0..(MaxChanges + 1)
Records == [Keys -> Stamps]
Nothing == [k \in Keys |-> 0]

\* rows are written, deps inserted if absent, gone deleted with what they own;
\* full clears the database first, bad stands for a "_capture_error".
Deltas == [rows : Records, deps : Records, gone : SUBSET Keys,
           full : BOOLEAN, bad : BOOLEAN]

\* What a suppress_auto_save scope has collected.
Batches == [dirty : SUBSET Keys, gone : SUBSET Keys]
EmptyBatch == [dirty |-> {}, gone |-> {}]

VARIABLES
    mem,        \* the runtime state
    durable,    \* the database
    unborn,     \* records that have not been created yet
    clock,      \* changes made so far
    active,     \* the set of the delta being written, empty or one
    pending,    \* the set of the coalesced delta, empty or one
    error,      \* _error: some write has failed
    closed,     \* _closed
    batch,      \* the batch of each scope, named by its root task
    scope,      \* _persistence_batch as each task sees it
    detached,   \* tasks that nobody awaits
    pc,         \* what each task is doing
    awaiting,   \* the completions a task waits for: "active", "pending"
    failed,     \* tasks whose completion has failed
    target,     \* the records a task's call has changed
    before,     \* those records as that call found them
    acked,      \* stamps that a returned call has called durable
    promised,   \* the stamps that each save_state will call durable
    refused     \* records whose change was refused with an exception

store == <<mem, durable, unborn, clock>>
queue == <<active, pending>>
writer == <<queue, error, closed>>
scopes == <<batch, scope, detached>>
calls == <<pc, awaiting, failed, target, before>>
ghosts == <<acked, promised, refused>>
vars == <<store, writer, scopes, calls, ghosts>>

-----------------------------------------------------------------------------
(* Deltas. *)

Override(earlier, later) ==
    [k \in Keys |-> IF later[k] # 0 THEN later[k] ELSE earlier[k]]

\* f without deleted records and the records of deleted identities
Without(f, gone) == [k \in Keys |-> IF {k, Owner[k]} \cap gone # {} THEN 0 ELSE f[k]]

\* The delta leaves out the identities that its records need.
FaultyCapture(m, b) ==
    [rows |-> [k \in Keys |-> IF k \in b.dirty THEN m[k] ELSE 0],
     deps |-> Nothing, gone |-> b.gone, full |-> FALSE, bad |-> FALSE]

\* _capture_state_snapshot: the dirty records, and the identities they need.
Capture(m, b) ==
    [rows |-> [k \in Keys |-> IF k \in b.dirty THEN m[k] ELSE 0],
     deps |-> [k \in Keys |-> IF k \notin b.dirty /\ \E j \in b.dirty : m[j] # 0 /\ Owner[j] = k
                              THEN m[k] ELSE 0],
     gone |-> b.gone, full |-> FALSE, bad |-> FALSE]

CaptureAll(m) ==
    [rows |-> m, deps |-> Nothing, gone |-> {}, full |-> TRUE, bad |-> FALSE]

CaptureError ==
    [rows |-> Nothing, deps |-> Nothing, gone |-> {}, full |-> FALSE, bad |-> TRUE]

\* Coalescing keeps the rows of records that the later delta deletes.
FaultyMerge(e, l) ==
    IF l.bad \/ (l.full /\ ~e.bad) THEN l
    ELSE IF e.bad THEN e
    ELSE [rows |-> Override(e.rows, l.rows), deps |-> Override(e.deps, l.deps),
          gone |-> e.gone \cup l.gone, full |-> e.full, bad |-> FALSE]

\* _merge_snapshots
Merge(e, l) ==
    IF l.bad \/ (l.full /\ ~e.bad) THEN l
    ELSE IF e.bad THEN e
    ELSE LET gone == e.gone \cup l.gone
             rows == Without(Override(e.rows, l.rows), gone)
             deps == Without(Override(e.deps, l.deps), gone)
         IN  [rows |-> rows,
              deps |-> [k \in Keys |-> IF rows[k] # 0 THEN 0 ELSE deps[k]],
              gone |-> gone, full |-> e.full, bad |-> FALSE]

\* DatabaseStore.write: deletions, then missing dependencies, then the rows.
Apply(db, d) ==
    LET kept == Without(IF d.full THEN Nothing ELSE db, d.gone)
    IN  Override(Override(d.deps, kept), d.rows)

-----------------------------------------------------------------------------
(* The queue. *)

\* The caller of submit is handed the pending completion at all times.
FaultySlotOf == "pending"

\* A new delta is written at once, or merged into the one that waits.
SlotOf == IF active = {} THEN "active" ELSE "pending"

Enqueue(d) ==
    IF active = {}
    THEN active' = {d} /\ UNCHANGED pending
    ELSE /\ pending' = {IF pending = {} THEN d ELSE Merge(CHOOSE e \in pending : TRUE, d)}
         /\ UNCHANGED active

\* What the database holds once everything that is queued has been written.
Written(db, slot) ==
    IF \E d \in slot : ~d.bad THEN Apply(db, CHOOSE d \in slot : TRUE) ELSE db
Queued == Written(Written(durable, active), pending)

\* What is deleted need not stay durable, nor become so: f without the records
\* that the delta deletes.
Kept(f, d) ==
    IF d.full THEN [k \in Keys |-> IF d.rows[k] = 0 THEN 0 ELSE f[k]]
    ELSE Without(f, d.gone)

\* The delta is accepted, with what each save promises.
SubmitAs(d, promises) ==
    /\ ~closed
    /\ Enqueue(d)
    /\ acked' = Kept(acked, d)
    /\ promised' = [t \in Tasks |-> Kept(promises[t], d)]

Submit(d) == SubmitAs(d, promised)

\* _submit_dirty_state: a capture error is queued in place of the delta.
SubmitDirty(d) == \E e \in {d, CaptureError} : Submit(e)

-----------------------------------------------------------------------------
Init ==
    /\ \E there \in Loaded :
        /\ \A k \in there : Owner[k] \in there
        /\ unborn = Keys \ there
        /\ mem = [k \in Keys |-> IF k \in there THEN 1 ELSE 0]
    /\ durable = mem
    /\ clock = 1
    /\ active = {} /\ pending = {}
    /\ error = FALSE /\ closed = FALSE
    /\ batch = [t \in Tasks |-> EmptyBatch]
    /\ scope = [t \in Tasks |-> NoBatch]
    /\ detached = {}
    /\ pc = [t \in Tasks |-> "free"]
    /\ awaiting = [t \in Tasks |-> {}]
    /\ failed = {}
    /\ target = [t \in Tasks |-> {}]
    /\ before = [t \in Tasks |-> Nothing]
    /\ promised = [t \in Tasks |-> Nothing]
    /\ acked = mem
    /\ refused = {}

Goto(t, label) == pc' = [pc EXCEPT ![t] = label]

\* Records that a commit or a deletion keeps others from changing.
Locked == UNION {target[t] : t \in Tasks}

\* A record is created once, and changed while it and its owner exist.
Exists(k) == mem[Owner[k]] # 0 /\ mem[k] # 0
MayCreate(k) == k \in unborn /\ (Owner[k] = k \/ mem[Owner[k]] # 0)
MayChange(k) ==
    /\ clock <= MaxChanges
    /\ k \notin Locked
    /\ Exists(k) \/ MayCreate(k)

Change(k) ==
    /\ mem' = [mem EXCEPT ![k] = clock + 1]
    /\ clock' = clock + 1
    /\ unborn' = unborn \ {k}
    /\ UNCHANGED durable

-----------------------------------------------------------------------------
(* Auto-saves and batches. *)

\* _auto_save: what is dirty is queued, added to the batch of the scope, or
\* refused because storage is closed.  What is added to a batch that has been
\* submitted already is never submitted again.
AutoSave(t, b) ==
    IF scope[t] = NoBatch
    THEN /\ \/ SubmitDirty(Capture(mem', b)) /\ UNCHANGED refused
            \/ /\ closed
               /\ refused' = refused \cup b.dirty \cup b.gone
               /\ UNCHANGED <<queue, acked, promised>>
         /\ UNCHANGED batch
    ELSE /\ batch' = [u \in Tasks |->
                        IF u = scope[t] THEN [dirty |-> batch[u].dirty \cup b.dirty,
                                              gone |-> batch[u].gone \cup b.gone]
                        ELSE batch[u]]
         /\ UNCHANGED <<queue, ghosts>>

Update(t, k) ==
    /\ pc[t] = "free"
    /\ MayChange(k)
    /\ Change(k)
    /\ AutoSave(t, [dirty |-> {k}, gone |-> {}])
    /\ UNCHANGED <<error, closed, scope, detached, calls>>

\* A retained memory reference is dropped.
Forget(t, k) ==
    /\ pc[t] = "free"
    /\ Exists(k) /\ Owner[k] # k /\ k \notin Locked
    /\ mem' = [mem EXCEPT ![k] = 0]
    /\ AutoSave(t, [dirty |-> {}, gone |-> {k}])
    /\ UNCHANGED <<durable, unborn, clock, error, closed, scope, detached, calls>>

Closing == closed \/ \E t \in Tasks : pc[t] = "closing"

\* A discussion opens its scope; inside another scope it changes nothing.
OpenScope(t) ==
    /\ pc[t] = "free" /\ ~Closing
    /\ scope[t] = NoBatch
    /\ scope' = [scope EXCEPT ![t] = t]
    /\ UNCHANGED <<store, writer, batch, detached, calls, ghosts>>

\* A member task of the root's discussion sees the scope; the root awaits it.
Join(t, root) ==
    /\ pc[t] = "free" /\ t # root
    /\ scope[t] = NoBatch /\ scope[root] = root
    /\ scope' = [scope EXCEPT ![t] = root]
    /\ UNCHANGED <<store, writer, batch, detached, calls, ghosts>>

\* An emergency wakeup: loop.create_task copies the context of the discussion
\* that raised the alert, and nobody awaits the task.
Wakeup(t, root) ==
    /\ EmergencyWakeup
    /\ pc[t] = "free" /\ t # root
    /\ scope[t] = NoBatch /\ scope[root] = root
    /\ scope' = [scope EXCEPT ![t] = root]
    /\ detached' = detached \cup {t}
    /\ UNCHANGED <<store, writer, batch, calls, ghosts>>

\* A member or a wakeup ends.
EndTask(t) ==
    /\ pc[t] = "free"
    /\ scope[t] \notin {NoBatch, t}
    /\ scope' = [scope EXCEPT ![t] = NoBatch]
    /\ detached' = detached \ {t}
    /\ UNCHANGED <<store, writer, batch, calls, ghosts>>

\* The root leaves its scope and submits the batch; a wakeup keeps a batch
\* that nobody will submit.
CloseScope(t) ==
    /\ pc[t] = "free"
    /\ scope[t] = t
    /\ \A u \in Tasks \ {t} : scope[u] = t => u \in detached
    /\ scope' = [u \in Tasks |-> IF u = t THEN NoBatch
                                 ELSE IF scope[u] = t THEN DeadBatch ELSE scope[u]]
    /\ batch' = [batch EXCEPT ![t] = EmptyBatch]
    /\ \/ /\ batch[t] = EmptyBatch
          /\ UNCHANGED <<queue, ghosts>>
       \/ /\ batch[t] # EmptyBatch
          /\ SubmitDirty(Capture(mem, batch[t]))
          /\ UNCHANGED refused
       \/ /\ batch[t] # EmptyBatch /\ closed
          /\ refused' = refused \cup batch[t].dirty \cup batch[t].gone
          /\ UNCHANGED <<queue, acked, promised>>
    /\ UNCHANGED <<store, error, closed, detached, calls>>

-----------------------------------------------------------------------------
(* Calls that wait for the writer. *)

\* The call reports the stamps f as durable.
Acknowledge(f) == acked' = [k \in Keys |-> IF f[k] > acked[k] THEN f[k] ELSE acked[k]]

Reset(t) ==
    /\ Goto(t, "free")
    /\ failed' = failed \ {t}
    /\ before' = [before EXCEPT ![t] = Nothing]
    /\ target' = [target EXCEPT ![t] = {}]

Return(t) == Reset(t) /\ promised' = [promised EXCEPT ![t] = Nothing]

\* The stamps f where the records that t changed are put back.
PutBack(t, f) == [k \in Keys |-> IF k \in target[t] THEN before[t][k] ELSE f[k]]
Lower(t, f) == [k \in Keys |-> IF PutBack(t, f)[k] < f[k] THEN PutBack(t, f)[k] ELSE f[k]]

\* A commit of an identity that exists or of a record that may be new.
Commit(t, k) ==
    /\ pc[t] = "free"
    /\ MayChange(k) /\ (k \in Identities => Exists(k))
    /\ Change(k)
    /\ Submit(Capture(mem', [dirty |-> {k}, gone |-> {}]))
    /\ Goto(t, "committing")
    /\ target' = [target EXCEPT ![t] = {k}]
    /\ before' = [before EXCEPT ![t] = [Nothing EXCEPT ![k] = mem[k]]]
    /\ awaiting' = [awaiting EXCEPT ![t] = {SlotOf}]
    /\ UNCHANGED <<error, closed, scopes, failed, refused>>

Committing(t) == pc[t] \in {"committing", "cancelling"}

\* The commit returns before its delta has been written.
FaultyCommitSucceeds(t) ==
    /\ Committing(t)
    /\ t \notin failed
    /\ Acknowledge([k \in Keys |-> IF k \in target[t] THEN mem[k] ELSE 0])
    /\ Return(t)
    /\ awaiting' = [awaiting EXCEPT ![t] = {}]
    /\ UNCHANGED <<store, writer, scopes, refused>>

CommitSucceeds(t) ==
    /\ Committing(t)
    /\ awaiting[t] = {}
    /\ t \notin failed
    /\ Acknowledge([k \in Keys |-> IF k \in target[t] THEN mem[k] ELSE 0])
    /\ Return(t)
    /\ UNCHANGED <<store, writer, scopes, awaiting, refused>>

\* The write failed: the domain restores the record it had changed, also when
\* another call has meanwhile saved the value that is now taken back.
CommitFails(t) ==
    /\ Committing(t)
    /\ awaiting[t] = {}
    /\ t \in failed
    /\ mem' = PutBack(t, mem)
    /\ acked' = Lower(t, acked)
    /\ promised' = [u \in Tasks |-> IF u = t THEN Nothing ELSE Lower(t, promised[u])]
    /\ Reset(t)
    /\ UNCHANGED <<durable, unborn, clock, writer, scopes, awaiting, refused>>

\* The first cancellation waits on for the write, a second one does not.
CancelCommit(t) ==
    /\ Committing(t)
    /\ awaiting[t] # {}
    /\ IF pc[t] = "committing"
       THEN /\ Goto(t, "cancelling")
            /\ UNCHANGED <<awaiting, failed, target, before, promised>>
       ELSE /\ Return(t)
            /\ awaiting' = [awaiting EXCEPT ![t] = {}]
    /\ UNCHANGED <<store, writer, scopes, acked, refused>>

-----------------------------------------------------------------------------
(* flush, and the calls that begin or end with one. *)

InUse == (IF active = {} THEN {} ELSE {"active"})
             \cup (IF pending = {} THEN {} ELSE {"pending"})

\* flush_state, save_state, the deletion of an Agent and close all flush first.
\* Agents flush inside a discussion (a memory search); the others are calls of
\* the host.
Start(t) ==
    /\ pc[t] = "free"
    /\ \/ Goto(t, "flushing")
       \/ /\ scope[t] = NoBatch
          /\ \/ Goto(t, "saving") /\ ~Closing
             \/ Goto(t, "clearing")
             \/ Goto(t, "closing") /\ ~closed
    /\ awaiting' = [awaiting EXCEPT ![t] = InUse]
    /\ UNCHANGED <<store, writer, scopes, failed, target, before, ghosts>>

Flushing(t) == pc[t] \in {"flushing", "saving", "clearing", "deleting", "closing"}

\* What was queued meanwhile is waited for too.
FlushAgain(t) ==
    /\ Flushing(t) /\ awaiting[t] = {}
    /\ InUse # {}
    /\ awaiting' = [awaiting EXCEPT ![t] = InUse]
    /\ UNCHANGED <<store, writer, scopes, pc, failed, target, before, ghosts>>

\* flush waits once, for what was queued when it began.
FaultyFlushed(t, label) == pc[t] = label /\ awaiting[t] = {}

Flushed(t, label) == pc[t] = label /\ awaiting[t] = {} /\ InUse = {}

\* flush raises the first error there ever was.
FlushRaises(t) ==
    /\ \E label \in {"flushing", "saving", "clearing"} : Flushed(t, label)
    /\ error
    /\ Return(t)
    /\ UNCHANGED <<store, writer, scopes, awaiting, acked, refused>>

\* The flush, or the deletion that it ends, has succeeded.
FlushReturns(t) ==
    /\ Flushed(t, "flushing") \/ Flushed(t, "deleting")
    /\ ~error
    /\ Acknowledge(Queued)
    /\ Return(t)
    /\ UNCHANGED <<store, writer, scopes, awaiting, refused>>

\* close refuses what comes later, whether or not its flush has failed.
CloseReturns(t) ==
    /\ Flushed(t, "closing")
    /\ closed' = TRUE
    /\ IF error THEN UNCHANGED acked ELSE Acknowledge(Queued)
    /\ Return(t)
    /\ UNCHANGED <<store, queue, error, scopes, awaiting, refused>>

\* The saver goes on to wait for the runtime gate.
SaveFlushed(t) ==
    /\ Flushed(t, "saving")
    /\ ~error
    /\ Goto(t, "gated")
    /\ UNCHANGED <<store, writer, scopes, awaiting, failed, target, before, ghosts>>

\* It has the gate: a full snapshot is queued, or capture or submit raises.
Save(t) ==
    /\ pc[t] = "gated"
    /\ \/ /\ SubmitAs(CaptureAll(mem), [promised EXCEPT ![t] = mem])
          /\ Goto(t, "storing")
          /\ awaiting' = [awaiting EXCEPT ![t] = {SlotOf}]
          /\ UNCHANGED <<failed, target, before>>
       \/ /\ Return(t)
          /\ UNCHANGED <<queue, awaiting, acked>>
    /\ UNCHANGED <<store, error, closed, scopes, refused>>

SaveReturns(t) ==
    /\ pc[t] = "storing"
    /\ awaiting[t] = {}
    /\ IF t \in failed THEN UNCHANGED acked ELSE Acknowledge(promised[t])
    /\ Return(t)
    /\ UNCHANGED <<store, writer, scopes, awaiting, refused>>

\* AgentRegistry.retire_locked with "delete": after its first flush the Agent
\* leaves the runtime with all it owns, or an active reference refuses it.
Delete(t) ==
    /\ Flushed(t, "clearing")
    /\ ~error
    /\ \/ \E a \in Identities :
            LET owned == {k \in Keys : Owner[k] = a}
            IN  /\ mem[a] # 0
                /\ owned \cap Locked = {}
                /\ mem' = Without(mem, {a})
                /\ SubmitDirty(Capture(mem', [dirty |-> {}, gone |-> {a}]))
                /\ Goto(t, "deleting")
                /\ awaiting' = [awaiting EXCEPT ![t] = {SlotOf}]
                /\ target' = [target EXCEPT ![t] = owned]
                /\ before' = [before EXCEPT ![t] = [k \in Keys |-> IF k \in owned THEN mem[k] ELSE 0]]
                /\ UNCHANGED failed
       \/ /\ Return(t)
          /\ UNCHANGED <<mem, queue, awaiting, acked>>
    /\ UNCHANGED <<durable, unborn, clock, error, closed, scopes, refused>>

\* The deletion's flush raised: the Agent is put back.
DeleteFails(t) ==
    /\ Flushed(t, "deleting")
    /\ error
    /\ mem' = PutBack(t, mem)
    /\ Return(t)
    /\ UNCHANGED <<durable, unborn, clock, writer, scopes, awaiting, acked, refused>>

\* A cancelled flush, save or deletion just ends; what it did stays.
CancelWait(t) ==
    /\ pc[t] \in {"flushing", "saving", "clearing", "deleting", "gated", "storing"}
    /\ Return(t)
    /\ awaiting' = [awaiting EXCEPT ![t] = {}]
    /\ UNCHANGED <<store, writer, scopes, acked, refused>>

-----------------------------------------------------------------------------
(* The writer thread, with _finish_active. *)

\* The coalesced delta is never started.
FaultyPromote ==
    /\ active' = {}
    /\ UNCHANGED pending
    /\ awaiting' = [t \in Tasks |-> awaiting[t] \ {"active"}]

\* Those who waited for the write go on; the pending delta is started.
Promote ==
    /\ active' = pending
    /\ pending' = {}
    /\ awaiting' = [t \in Tasks |-> IF "pending" \in awaiting[t] THEN {"active"} ELSE {}]

WriteSucceeds ==
    \E d \in active :
        /\ ~d.bad
        /\ durable' = Apply(durable, d)
        /\ Promote
        /\ UNCHANGED <<mem, unborn, clock, error, closed, scopes,
                       pc, failed, target, before, ghosts>>

\* The error stays; the delta's rows are not written again.
WriteFails ==
    /\ active # {}
    /\ Promote
    /\ error' = TRUE
    /\ failed' = failed \cup {t \in Tasks : "active" \in awaiting[t]
                                            /\ (Committing(t) \/ pc[t] = "storing")}
    /\ UNCHANGED <<store, closed, scopes, pc, target, before, ghosts>>

Proceed(t) ==
    \/ CommitSucceeds(t) \/ CommitFails(t)
    \/ FlushAgain(t) \/ FlushRaises(t) \/ FlushReturns(t)
    \/ CloseReturns(t)
    \/ SaveFlushed(t) \/ Save(t) \/ SaveReturns(t)
    \/ Delete(t) \/ DeleteFails(t)

Step(t) ==
    \/ \E k \in Keys : Update(t, k) \/ Forget(t, k) \/ Commit(t, k)
    \/ OpenScope(t) \/ EndTask(t) \/ CloseScope(t)
    \/ \E root \in Tasks : Join(t, root) \/ Wakeup(t, root)
    \/ CancelCommit(t)
    \/ Start(t) \/ CancelWait(t)
    \/ Proceed(t)

Next == WriteSucceeds \/ WriteFails \/ \E t \in Tasks : Step(t)

Spec == Init /\ [][Next]_vars

\* The writer thread ends every write, and the loop resumes every task whose
\* completion is set; the calls of hosts and Agents are not owed.
Fairness == WF_vars(WriteSucceeds \/ WriteFails) /\ \A t \in Tasks : WF_vars(Proceed(t))
FairSpec == Spec /\ Fairness

-----------------------------------------------------------------------------
(* Properties. *)

Labels == {"free", "committing", "cancelling", "flushing", "saving", "gated",
           "storing", "clearing", "deleting", "closing"}

\* Every variable has its type; the queue holds one executing and one pending
\* delta, and nobody waits for a slot of the queue that is empty.
TypeOK ==
    /\ mem \in Records /\ durable \in Records /\ unborn \subseteq Keys
    /\ clock \in 1..(MaxChanges + 1)
    /\ active \subseteq Deltas /\ Cardinality(active) <= 1
    /\ pending \subseteq Deltas /\ Cardinality(pending) <= 1
    /\ error \in BOOLEAN /\ closed \in BOOLEAN
    /\ batch \in [Tasks -> Batches]
    /\ scope \in [Tasks -> Tasks \cup {NoBatch, DeadBatch}]
    /\ detached \subseteq Tasks
    /\ pc \in [Tasks -> Labels]
    /\ \A t \in Tasks : awaiting[t] \subseteq InUse
    /\ failed \subseteq Tasks
    /\ target \in [Tasks -> SUBSET Keys] /\ before \in [Tasks -> Records]
    /\ promised \in [Tasks -> Records]
    /\ acked \in Records /\ refused \subseteq Keys

\* Records whose last change is still in a scope, or was refused.
Unsaved == refused \cup UNION {batch[t].dirty \cup batch[t].gone : t \in Tasks}

\* Whenever the writer is idle and no write has ever failed, the database
\* holds the runtime state: coalescing, batches, full saves and deletions
\* lose no record and bring none back.
NoLostUpdate ==
    active = {} /\ pending = {} /\ ~error =>
        \A k \in Keys \ Unsaved : durable[k] = mem[k]

\* What a commit, a save, a flush or a close has reported as written is in
\* the database ever after, at that stamp or a later one, and so survives a
\* crash, whatever fails or is cancelled later.
AckedStaysDurable == \A k \in Keys : durable[k] >= acked[k]

\* No record is in the database without the identity it belongs to, even when
\* the write that should have inserted the identity has failed.
ReferentialIntegrity == \A k \in Keys : durable[k] # 0 => durable[Owner[k]] # 0

\* A closed coordinator has nothing left to write.
ClosedIsDrained == closed => active = {} /\ pending = {}

Writing(t) == pc[t] \in {"committing", "cancelling", "storing"}
Free(t) == pc[t] = "free"

\* Every commit and every queued save ends; and so does every flush, deletion
\* and close, which wait for what others queue meanwhile, unless others keep
\* queueing full saves for ever.
EveryCallReturns ==
    \A t \in Tasks :
        /\ Writing(t) ~> Free(t)
        /\ <>[](\A u \in Tasks \ {t} : pc[u] # "storing") => (Flushing(t) ~> Free(t))

=============================================================================
