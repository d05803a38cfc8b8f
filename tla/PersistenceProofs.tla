------------------------- MODULE PersistenceProofs -------------------------
(***************************************************************************)
(* What PersistenceCoordinator promises for every set of tasks and records.*)
(*                                                                         *)
(* References: no record is ever in the database without the identity it   *)
(* belongs to, and a closed coordinator has nothing left to write.  This   *)
(* follows from an invariant of the runtime state (Anchored) and one of    *)
(* the queue (Sound): a delta provides the identities of all records it    *)
(* provides, merging keeps that, and so a delta may be lost or written in  *)
(* any state of the database.                                              *)
(*                                                                         *)
(* Durability: the types, that what was reported as written stays in the   *)
(* database, and, without emergency wakeups, that no update is lost while  *)
(* no write fails.  Each rests on the one before:                          *)
(*                                                                         *)
(*   Shape     the types, and a queue of at most two deltas                *)
(*   Order     who may change or put back a record, and what is deleted    *)
(*   Promises  what every delta on its way does to a stamp that has been,  *)
(*             or will be, reported as durable                             *)
(*   Carried   what the queue will leave in the database                   *)
(***************************************************************************)
EXTENDS PersistenceCoordinator, TLAPS, FiniteSetTheorems

-----------------------------------------------------------------------------
(* Deltas. *)

\* f has no record without its identity.
Ref(f) == \A k \in Keys : f[k] # 0 => f[Owner[k]] # 0

\* The delta writes k, or inserts it if it is absent.
Provides(d, k) == d.rows[k] # 0 \/ d.deps[k] # 0

Sound(d) == \A k \in Keys : Provides(d, k) => Provides(d, Owner[k])

\* An identity belongs to itself.
LEMMA OwnerOfOwner ==
    \A k \in Keys : Owner[k] \in Keys /\ Owner[Owner[k]] = Owner[k]
BY PersistenceAssumption DEF Identities

\* _capture_state_snapshot adds the identities that the dirty records need.
LEMMA CaptureSound ==
    ASSUME NEW m, Ref(m), NEW b \in Batches
    PROVE  Sound(Capture(m, b))
<1> DEFINE d == Capture(m, b)
<1>1. \A k \in Keys : d.rows[k] = IF k \in b.dirty THEN m[k] ELSE 0
  BY DEF Capture
<1>2. \A k \in Keys : d.deps[k] =
          IF k \notin b.dirty /\ \E j \in b.dirty : m[j] # 0 /\ Owner[j] = k THEN m[k] ELSE 0
  BY DEF Capture
<1> HIDE DEF d
<1>3. ASSUME NEW k \in Keys, Provides(d, k) PROVE Provides(d, Owner[k])
  <2>1. m[k] # 0 /\ m[Owner[k]] # 0
    BY <1>1, <1>2, <1>3 DEF Provides, Ref
  <2>2. CASE Owner[k] \in b.dirty
    BY <2>1, <2>2, <1>1, OwnerOfOwner DEF Provides
  <2>3. CASE Owner[k] \notin b.dirty /\ k \in b.dirty
    <3>1. \E j \in b.dirty : m[j] # 0 /\ Owner[j] = Owner[k]
      BY <2>1, <2>3
    <3>2. d.deps[Owner[k]] = m[Owner[k]]
      BY <3>1, <2>3, <1>2, OwnerOfOwner
    <3> QED
      BY <3>2, <2>1 DEF Provides
  <2>4. CASE Owner[k] \notin b.dirty /\ k \notin b.dirty
    <3>1. \E j \in b.dirty : Owner[j] = k
      BY <2>4, <1>1, <1>2, <1>3 DEF Provides
    <3>2. Owner[k] = k
      BY <3>1, OwnerOfOwner DEF Batches
    <3> QED
      BY <3>2, <1>3
  <2> QED
    BY <2>2, <2>3, <2>4
<1> QED
  BY <1>3 DEF Sound, d

LEMMA CaptureAllSound ==
    ASSUME NEW m, Ref(m)
    PROVE  Sound(CaptureAll(m))
BY OwnerOfOwner DEF Sound, Provides, CaptureAll, Nothing, Ref

LEMMA CaptureErrorSound == Sound(CaptureError)
BY OwnerOfOwner DEF Sound, Provides, CaptureError, Nothing

\* _merge_snapshots drops an identity only with all that belongs to it.
LEMMA MergeSound ==
    ASSUME NEW e, NEW l, Sound(e), Sound(l)
    PROVE  Sound(Merge(e, l))
<1> DEFINE gone == e.gone \cup l.gone
           d == Merge(e, l)
<1>1. CASE l.bad \/ (l.full /\ ~e.bad) \/ e.bad
  BY <1>1 DEF Merge
<1>2. CASE ~l.bad /\ ~e.bad /\ ~l.full
  <2>1. \A k \in Keys : d.rows[k] =
            IF {k, Owner[k]} \cap gone # {} THEN 0
            ELSE IF l.rows[k] # 0 THEN l.rows[k] ELSE e.rows[k]
    BY <1>2 DEF Merge, Without, Override
  <2>2. \A k \in Keys : d.deps[k] =
            IF d.rows[k] # 0 THEN 0
            ELSE IF {k, Owner[k]} \cap gone # {} THEN 0
            ELSE IF l.deps[k] # 0 THEN l.deps[k] ELSE e.deps[k]
    BY <1>2 DEF Merge, Without, Override
  <2> HIDE DEF d
  <2>3. \A k \in Keys : Provides(d, k) <=>
            /\ k \notin gone /\ Owner[k] \notin gone
            /\ Provides(e, k) \/ Provides(l, k)
    BY <2>1, <2>2 DEF Provides
  <2>4. Sound(d)
    BY <2>3, OwnerOfOwner DEF Sound
  <2> QED
    BY <2>4 DEF d
<1> QED
  BY <1>1, <1>2

\* DatabaseStore.write keeps the references of any database valid.
LEMMA ApplyRef ==
    ASSUME NEW db, NEW d, Ref(db), Sound(d)
    PROVE  Ref(Apply(db, d))
<1> DEFINE kept == Without(IF d.full THEN Nothing ELSE db, d.gone)
<1>1. \A k \in Keys : kept[k] # 0 => kept[Owner[k]] # 0
  BY OwnerOfOwner DEF Without, Nothing, Ref
<1>2. \A k \in Keys : Apply(db, d)[k] # 0 <=> Provides(d, k) \/ kept[k] # 0
  <2> HIDE DEF kept
  <2>1. Apply(db, d) = Override(Override(d.deps, kept), d.rows)
    BY DEF Apply, kept
  <2> QED
    BY <2>1 DEF Override, Provides
<1> HIDE DEF kept
<1> QED
  BY <1>1, <1>2, OwnerOfOwner DEF Ref, Sound

-----------------------------------------------------------------------------
(* The invariant. *)

Typed ==
    /\ mem \in [Keys -> Nat] /\ clock \in Nat
    /\ batch \in [Tasks -> Batches]
    /\ target \in [Tasks -> SUBSET Keys]
    /\ before \in [Tasks -> [Keys -> Nat]]

\* What a call has changed can be put back: its identity is there, or is put
\* back with it.
Anchored ==
    \A t \in Tasks : \A k \in target[t] :
        /\ Owner[k] = k => before[t][k] # 0
        /\ mem[Owner[k]] # 0 \/ Owner[k] \in target[t]

QueueSound == \A d \in active \cup pending : Sound(d)

Whole ==
    /\ Typed /\ Ref(mem) /\ Anchored /\ QueueSound
    /\ ReferentialIntegrity

LEMMA WholeInit == Init => Whole
<1> SUFFICES ASSUME Init PROVE Whole
  OBVIOUS
<1>1. PICK there \in Loaded :
          /\ \A k \in there : Owner[k] \in there
          /\ mem = [k \in Keys |-> IF k \in there THEN 1 ELSE 0]
  BY DEF Init
<1>2. mem \in [Keys -> Nat] /\ Ref(mem)
  BY <1>1, OwnerOfOwner DEF Ref
<1>3. durable = mem
  BY DEF Init
<1>4. ReferentialIntegrity
  BY <1>2, <1>3 DEF ReferentialIntegrity, Ref
<1>5. Typed /\ Anchored /\ QueueSound
  BY <1>2 DEF Init, Typed, Anchored, QueueSound, Batches, EmptyBatch, Nothing
<1> QED
  BY <1>2, <1>4, <1>5 DEF Whole

-----------------------------------------------------------------------------
(* What the steps do to the queue, the batches and the runtime state. *)

LEMMA EnqueueSound ==
    ASSUME QueueSound, NEW d, Sound(d), Enqueue(d)
    PROVE  QueueSound'
<1>1. CASE active = {}
  BY <1>1 DEF Enqueue, QueueSound
<1>2. CASE active # {} /\ pending = {}
  BY <1>2 DEF Enqueue, QueueSound
<1>3. CASE active # {} /\ pending # {}
  <2>1. PICK e \in pending : pending' = {Merge(e, d)} /\ active' = active
    BY <1>3 DEF Enqueue
  <2>2. Sound(Merge(e, d))
    BY <2>1, MergeSound DEF QueueSound
  <2> QED
    BY <2>1, <2>2 DEF QueueSound
<1> QED
  BY <1>1, <1>2, <1>3

LEMMA SubmitDirtySound ==
    ASSUME QueueSound, NEW d, Sound(d), SubmitDirty(d)
    PROVE  QueueSound'
BY EnqueueSound, CaptureErrorSound DEF SubmitDirty, Submit, SubmitAs

LEMMA AutoSaveSound ==
    ASSUME Typed, QueueSound, Ref(mem'), NEW t \in Tasks, NEW b \in Batches, AutoSave(t, b)
    PROVE  QueueSound' /\ batch' \in [Tasks -> Batches]
<1>1. CASE scope[t] = NoBatch
  <2>1. batch' = batch
    BY <1>1 DEF AutoSave
  <2>2. CASE SubmitDirty(Capture(mem', b))
    BY <2>1, <2>2, CaptureSound, SubmitDirtySound DEF Typed
  <2>3. CASE UNCHANGED queue
    BY <2>1, <2>3 DEF queue, QueueSound, Typed
  <2> QED
    BY <1>1, <2>2, <2>3 DEF AutoSave, queue
<1>2. CASE scope[t] # NoBatch
  <2>1. UNCHANGED queue
    BY <1>2 DEF AutoSave, queue
  <2>2. batch' = [u \in Tasks |->
                    IF u = scope[t] THEN [dirty |-> batch[u].dirty \cup b.dirty,
                                          gone |-> batch[u].gone \cup b.gone]
                    ELSE batch[u]]
    BY <1>2 DEF AutoSave
  <2>3. batch' \in [Tasks -> Batches]
    BY <2>2 DEF Typed, Batches
  <2> QED
    BY <2>1, <2>3 DEF queue, QueueSound
<1> QED
  BY <1>1, <1>2

LEMMA ChangeKeeps ==
    ASSUME Whole, NEW k \in Keys, MayChange(k), Change(k)
    PROVE  /\ mem' \in [Keys -> Nat] /\ clock' \in Nat
           /\ Ref(mem')
           /\ \A j \in Keys : mem[j] # 0 => mem'[j] # 0
<1>1. mem' = [mem EXCEPT ![k] = clock + 1] /\ clock' = clock + 1
  BY DEF Change
<1>2. mem \in [Keys -> Nat] /\ clock \in Nat
  BY DEF Whole, Typed
<1>3. Owner[k] = k \/ mem[Owner[k]] # 0
  BY DEF MayChange, Exists, MayCreate
<1>4. \A j \in Keys : mem'[j] # 0 <=> j = k \/ mem[j] # 0
  BY <1>1, <1>2
<1> QED
  BY <1>1, <1>2, <1>3, <1>4, OwnerOfOwner DEF Ref, Whole

\* The state that a failed call restores has its identities, and no identity
\* that exists is lost by restoring it.
LEMMA PutBackKeeps ==
    ASSUME Whole, NEW t \in Tasks, mem' = PutBack(t, mem)
    PROVE  /\ mem' \in [Keys -> Nat]
           /\ Ref(mem')
           /\ \A k \in Keys : mem[Owner[k]] # 0 => mem'[Owner[k]] # 0
<1>1. mem' = [k \in Keys |-> IF k \in target[t] THEN before[t][k] ELSE mem[k]]
  BY DEF PutBack
<1>2. mem' \in [Keys -> Nat]
  BY <1>1 DEF Whole, Typed
<1>3. \A k \in Keys : mem[Owner[k]] # 0 => mem'[Owner[k]] # 0
  BY <1>1, OwnerOfOwner DEF Whole, Anchored
<1>4. ASSUME NEW k \in Keys, mem'[k] # 0 PROVE mem'[Owner[k]] # 0
  <2>1. CASE k \in target[t] /\ Owner[k] \in target[t]
    BY <2>1, <1>1, OwnerOfOwner DEF Whole, Anchored
  <2>2. CASE k \in target[t] /\ Owner[k] \notin target[t]
    BY <2>2, <1>3 DEF Whole, Anchored
  <2>3. CASE k \notin target[t]
    BY <2>3, <1>1, <1>3, <1>4 DEF Whole, Ref
  <2> QED
    BY <2>1, <2>2, <2>3
<1> QED
  BY <1>2, <1>3, <1>4 DEF Ref

\* A call that ends gives up its records; the others keep theirs.
LEMMA AnchoredStep ==
    ASSUME Whole,
           \A t \in Tasks : \/ target'[t] = target[t] /\ before'[t] = before[t]
                            \/ target'[t] = {},
           \A t \in Tasks : \A k \in target'[t] :
               mem[Owner[k]] # 0 => mem'[Owner[k]] # 0
    PROVE  Anchored'
BY DEF Whole, Anchored

LEMMA ReturnTyped ==
    ASSUME Typed, NEW t \in Tasks, Reset(t)
    PROVE  /\ target' \in [Tasks -> SUBSET Keys]
           /\ before' \in [Tasks -> [Keys -> Nat]]
           /\ \A u \in Tasks : \/ target'[u] = target[u] /\ before'[u] = before[u]
                               \/ target'[u] = {}
BY DEF Reset, Typed, Nothing

-----------------------------------------------------------------------------
(* The steps. *)

\* Steps that leave the records alone, but for what a call gives up.
LEMMA QuietStep ==
    ASSUME Whole, UNCHANGED <<mem, clock, durable>>,
           batch' \in [Tasks -> Batches], QueueSound',
           \/ UNCHANGED <<target, before>>
           \/ \E t \in Tasks : Reset(t)
    PROVE  Whole'
<1>1. /\ target' \in [Tasks -> SUBSET Keys]
      /\ before' \in [Tasks -> [Keys -> Nat]]
      /\ \A u \in Tasks : \/ target'[u] = target[u] /\ before'[u] = before[u]
                          \/ target'[u] = {}
  <2>1. CASE UNCHANGED <<target, before>>
    BY <2>1 DEF Whole, Typed
  <2>2. CASE \E t \in Tasks : Reset(t)
    BY <2>2, ReturnTyped DEF Whole
  <2> QED
    BY <2>1, <2>2
<1>2. Anchored'
  BY <1>1, AnchoredStep
<1>3. Typed'
  BY <1>1 DEF Whole, Typed
<1> QED
  BY <1>2, <1>3 DEF Whole, Ref, ReferentialIntegrity

LEMMA ScopeSteps ==
    ASSUME Whole, NEW t \in Tasks,
           \/ OpenScope(t) \/ EndTask(t) \/ CloseScope(t)
           \/ \E root \in Tasks : Join(t, root) \/ Wakeup(t, root)
    PROVE  Whole'
<1>1. ASSUME CloseScope(t) PROVE Whole'
  <2>1. batch' \in [Tasks -> Batches] /\ batch[t] \in Batches
    BY <1>1 DEF CloseScope, Whole, Typed, Batches, EmptyBatch
  <2>2. QueueSound'
    <3>1. CASE UNCHANGED queue
      BY <3>1 DEF queue, QueueSound, Whole
    <3>2. CASE SubmitDirty(Capture(mem, batch[t]))
      BY <3>2, <2>1, CaptureSound, SubmitDirtySound DEF Whole
    <3> QED
      BY <1>1, <3>1, <3>2 DEF CloseScope
  <2> QED
    BY <1>1, <2>1, <2>2, QuietStep DEF CloseScope, store, calls
<1>2. ASSUME \/ OpenScope(t) \/ EndTask(t)
             \/ \E root \in Tasks : Join(t, root) \/ Wakeup(t, root)
      PROVE  Whole'
  <2>1. UNCHANGED <<store, writer, batch, calls>>
    BY <1>2 DEF OpenScope, EndTask, Join, Wakeup
  <2>2. QueueSound' /\ batch' \in [Tasks -> Batches]
    BY <2>1 DEF writer, queue, QueueSound, Whole, Typed
  <2> QED
    BY <2>1, <2>2, QuietStep DEF store, calls
<1> QED
  BY <1>1, <1>2

LEMMA CallSteps ==
    ASSUME Whole, NEW t \in Tasks,
           \/ CommitSucceeds(t) \/ CancelCommit(t)
           \/ Start(t) \/ FlushAgain(t) \/ FlushRaises(t) \/ FlushReturns(t)
           \/ CloseReturns(t) \/ SaveFlushed(t) \/ SaveReturns(t) \/ CancelWait(t)
    PROVE  Whole'
<1>1. UNCHANGED <<mem, clock, durable, batch, queue>>
  BY DEF CommitSucceeds, CancelCommit, Start, FlushAgain, FlushRaises, FlushReturns,
         CloseReturns, SaveFlushed, SaveReturns, CancelWait, store, writer, scopes
<1>2. UNCHANGED <<target, before>> \/ Reset(t)
  BY DEF CommitSucceeds, CancelCommit, Start, FlushAgain, FlushRaises, FlushReturns,
         CloseReturns, SaveFlushed, SaveReturns, CancelWait, Return
<1>3. QueueSound' /\ batch' \in [Tasks -> Batches]
  BY <1>1 DEF queue, QueueSound, Whole, Typed
<1> QED
  BY <1>1, <1>2, <1>3, QuietStep

LEMMA UpdateStep ==
    ASSUME Whole, NEW t \in Tasks, NEW k \in Keys, Update(t, k)
    PROVE  Whole'
<1>1. MayChange(k) /\ Change(k) /\ UNCHANGED <<durable, target, before>>
  BY DEF Update, Change, calls
<1>2. /\ mem' \in [Keys -> Nat] /\ clock' \in Nat
      /\ Ref(mem')
      /\ \A j \in Keys : mem[j] # 0 => mem'[j] # 0
  BY <1>1, ChangeKeeps
<1>3. QueueSound' /\ batch' \in [Tasks -> Batches]
  <2> DEFINE b == [dirty |-> {k}, gone |-> {}]
  <2>1. b \in Batches /\ AutoSave(t, b)
    BY DEF Update, Batches
  <2> QED
    BY <1>2, <2>1, AutoSaveSound DEF Whole
<1>4. Anchored'
  BY <1>1, <1>2, OwnerOfOwner, AnchoredStep DEF Whole, Typed
<1> QED
  BY <1>1, <1>2, <1>3, <1>4 DEF Whole, Typed, ReferentialIntegrity

LEMMA ForgetStep ==
    ASSUME Whole, NEW t \in Tasks, NEW k \in Keys, Forget(t, k)
    PROVE  Whole'
<1>1. /\ mem' = [mem EXCEPT ![k] = 0] /\ Owner[k] # k
      /\ UNCHANGED <<durable, clock, target, before>>
  BY DEF Forget, calls
<1>2. /\ mem' \in [Keys -> Nat]
      /\ \A j \in Keys : mem[Owner[j]] # 0 => mem'[Owner[j]] # 0
      /\ \A j \in Keys : mem'[j] # 0 => mem[j] # 0
  BY <1>1, OwnerOfOwner DEF Whole, Typed
<1>3. Ref(mem')
  BY <1>2 DEF Ref, Whole
<1>4. QueueSound' /\ batch' \in [Tasks -> Batches]
  <2> DEFINE b == [dirty |-> {}, gone |-> {k}]
  <2>1. b \in Batches /\ AutoSave(t, b)
    BY DEF Forget, Batches
  <2> QED
    BY <1>3, <2>1, AutoSaveSound DEF Whole
<1>5. Anchored'
  BY <1>1, <1>2, AnchoredStep DEF Whole, Typed
<1> QED
  BY <1>1, <1>2, <1>3, <1>4, <1>5 DEF Whole, Typed, ReferentialIntegrity

LEMMA CommitStep ==
    ASSUME Whole, NEW t \in Tasks, NEW k \in Keys, Commit(t, k)
    PROVE  Whole'
<1>1. /\ MayChange(k) /\ Change(k)
      /\ target' = [target EXCEPT ![t] = {k}]
      /\ before' = [before EXCEPT ![t] = [Nothing EXCEPT ![k] = mem[k]]]
      /\ UNCHANGED <<durable, batch>>
  BY DEF Commit, Change, scopes
<1>2. /\ mem' \in [Keys -> Nat] /\ clock' \in Nat
      /\ Ref(mem')
      /\ \A j \in Keys : mem[j] # 0 => mem'[j] # 0
  BY <1>1, ChangeKeeps
<1>3. QueueSound'
  <2> DEFINE b == [dirty |-> {k}, gone |-> {}]
  <2>1. b \in Batches /\ Enqueue(Capture(mem', b))
    BY DEF Commit, Submit, SubmitAs, Batches
  <2>2. Sound(Capture(mem', b))
    BY <1>2, <2>1, CaptureSound
  <2> QED
    BY <2>1, <2>2, EnqueueSound DEF Whole
<1>4. Anchored'
  <2>1. ASSUME NEW u \in Tasks \ {t}, NEW j \in target'[u]
        PROVE  /\ Owner[j] = j => before'[u][j] # 0
               /\ mem'[Owner[j]] # 0 \/ Owner[j] \in target'[u]
    <3>1. target'[u] = target[u] /\ before'[u] = before[u] /\ Owner[j] \in Keys
      BY <1>1, <2>1, OwnerOfOwner DEF Whole, Typed
    <3> QED
      BY <3>1, <2>1, <1>2 DEF Whole, Anchored
  <2>2. /\ Owner[k] = k => before'[t][k] # 0
        /\ mem'[Owner[k]] # 0
    <3>1. before'[t][k] = mem[k]
      BY <1>1 DEF Whole, Typed, Nothing
    <3>2. Owner[k] = k => mem[k] # 0
      BY DEF Commit, Exists, Identities
    <3>3. mem'[k] # 0
      BY <1>1 DEF Whole, Typed, Change
    <3> QED
      BY <3>1, <3>2, <3>3, <1>2 DEF Ref
  <2>3. target'[t] = {k}
    BY <1>1 DEF Whole, Typed
  <2> QED
    BY <2>1, <2>2, <2>3 DEF Anchored
<1>5. Typed'
  BY <1>1, <1>2 DEF Whole, Typed, Nothing
<1> QED
  BY <1>1, <1>2, <1>3, <1>4, <1>5 DEF Whole, ReferentialIntegrity

\* The domain rolls back a failed commit or deletion.
LEMMA FailSteps ==
    ASSUME Whole, NEW t \in Tasks, CommitFails(t) \/ DeleteFails(t)
    PROVE  Whole'
<1>1. mem' = PutBack(t, mem) /\ Reset(t) /\ UNCHANGED <<clock, durable, queue, batch>>
  BY DEF CommitFails, DeleteFails, Return, writer, scopes
<1>2. /\ mem' \in [Keys -> Nat]
      /\ Ref(mem')
      /\ \A k \in Keys : mem[Owner[k]] # 0 => mem'[Owner[k]] # 0
  BY <1>1, PutBackKeeps
<1>3. /\ target' \in [Tasks -> SUBSET Keys]
      /\ before' \in [Tasks -> [Keys -> Nat]]
      /\ \A u \in Tasks : \/ target'[u] = target[u] /\ before'[u] = before[u]
                          \/ target'[u] = {}
  BY <1>1, ReturnTyped DEF Whole
<1>4. Anchored'
  BY <1>2, <1>3, AnchoredStep
<1> QED
  BY <1>1, <1>2, <1>3, <1>4 DEF Whole, Typed, QueueSound, queue, ReferentialIntegrity

LEMMA SaveStep ==
    ASSUME Whole, NEW t \in Tasks, Save(t)
    PROVE  Whole'
<1>1. UNCHANGED <<mem, clock, durable, batch>>
  BY DEF Save, store, scopes
<1>2. UNCHANGED <<target, before>> \/ Reset(t)
  BY DEF Save, Return
<1>3. QueueSound'
  <2>1. CASE SubmitAs(CaptureAll(mem), [promised EXCEPT ![t] = mem])
    BY <2>1, CaptureAllSound, EnqueueSound DEF SubmitAs, Whole
  <2>2. CASE UNCHANGED queue
    BY <2>2 DEF queue, QueueSound, Whole
  <2> QED
    BY <2>1, <2>2 DEF Save, queue
<1> QED
  BY <1>1, <1>2, <1>3, QuietStep DEF Whole, Typed

\* A deletion takes an identity with all that belongs to it, and only when no
\* other call has changed any of that.
LEMMA DeleteStep ==
    ASSUME Whole, NEW t \in Tasks, Delete(t)
    PROVE  Whole'
<1>1. UNCHANGED <<durable, clock, batch>>
  BY DEF Delete, scopes
<1>2. ASSUME Return(t), UNCHANGED <<mem, queue>> PROVE Whole'
  <2>1. QueueSound' /\ batch' \in [Tasks -> Batches]
    BY <1>1, <1>2 DEF queue, QueueSound, Whole, Typed
  <2> QED
    BY <1>1, <1>2, <2>1, QuietStep DEF Return
<1>3. ASSUME NEW a \in Identities, mem[a] # 0,
             {k \in Keys : Owner[k] = a} \cap Locked = {},
             mem' = Without(mem, {a}),
             SubmitDirty(Capture(mem', [dirty |-> {}, gone |-> {a}])),
             target' = [target EXCEPT ![t] = {k \in Keys : Owner[k] = a}],
             before' = [before EXCEPT ![t] =
                 [k \in Keys |-> IF k \in {j \in Keys : Owner[j] = a} THEN mem[k] ELSE 0]]
      PROVE  Whole'
  <2>1. a \in Keys /\ Owner[a] = a
    BY DEF Identities
  <2>2. \A k \in Keys : mem'[k] = IF k = a \/ Owner[k] = a THEN 0 ELSE mem[k]
    BY <1>3 DEF Without
  <2>3. mem' \in [Keys -> Nat]
    BY <1>3 DEF Without, Whole, Typed
  <2>4. Ref(mem')
    BY <2>1, <2>2, OwnerOfOwner DEF Ref, Whole
  <2>5. QueueSound'
    <3> DEFINE b == [dirty |-> {}, gone |-> {a}]
    <3>1. b \in Batches /\ Sound(Capture(mem', b))
      BY <2>1, <2>4, CaptureSound DEF Batches
    <3> QED
      BY <1>3, <3>1, SubmitDirtySound DEF Whole
  <2>6. Typed'
    BY <1>1, <1>3, <2>3 DEF Whole, Typed
  <2>7. ASSUME NEW u \in Tasks \ {t}, NEW j \in target'[u]
        PROVE  /\ Owner[j] = j => before'[u][j] # 0
               /\ mem'[Owner[j]] # 0 \/ Owner[j] \in target'[u]
    <3>1. target'[u] = target[u] /\ before'[u] = before[u] /\ j \in Keys
      BY <1>3, <2>7 DEF Whole, Typed
    <3>2. Owner[j] # a
      BY <1>3, <3>1, <2>7 DEF Locked
    <3>3. mem'[Owner[j]] = mem[Owner[j]]
      BY <2>2, <3>1, <3>2, OwnerOfOwner
    <3> QED
      BY <2>7, <3>1, <3>3 DEF Whole, Anchored
  <2>8. ASSUME NEW j \in target'[t]
        PROVE  /\ Owner[j] = j => before'[t][j] # 0
               /\ Owner[j] \in target'[t]
    <3>1. j \in Keys /\ Owner[j] = a /\ target'[t] = {k \in Keys : Owner[k] = a}
      BY <1>3, <2>8 DEF Whole, Typed
    <3>2. before'[t][j] = mem[j]
      BY <1>3, <3>1 DEF Whole, Typed
    <3> QED
      BY <1>3, <2>1, <3>1, <3>2
  <2>9. Anchored'
    BY <2>7, <2>8 DEF Anchored
  <2> QED
    BY <1>1, <2>4, <2>5, <2>6, <2>9 DEF Whole, ReferentialIntegrity
<1> QED
  BY <1>2, <1>3 DEF Delete

LEMMA PromoteSound ==
    ASSUME QueueSound, Promote
    PROVE  QueueSound'
BY DEF Promote, QueueSound

LEMMA WriterSteps ==
    ASSUME Whole, WriteSucceeds \/ WriteFails
    PROVE  Whole'
<1>1. UNCHANGED <<mem, clock, batch, target, before>> /\ Promote
  BY DEF WriteSucceeds, WriteFails, store, scopes
<1>2. QueueSound'
  BY <1>1, PromoteSound DEF Whole
<1>3. ReferentialIntegrity'
  <2>1. CASE WriteFails
    BY <2>1 DEF WriteFails, store, Whole, ReferentialIntegrity
  <2>2. CASE WriteSucceeds
    <3>1. PICK d \in active : durable' = Apply(durable, d)
      BY <2>2 DEF WriteSucceeds
    <3>2. Ref(durable) /\ Sound(d)
      BY DEF Whole, ReferentialIntegrity, Ref, QueueSound
    <3> QED
      BY <3>1, <3>2, ApplyRef DEF ReferentialIntegrity, Ref
  <2> QED
    BY <2>1, <2>2
<1> QED
  BY <1>1, <1>2, <1>3 DEF Whole, Typed, Ref, Anchored

\* Whole is inductive: the state, every delta on its way and the database
\* have the identity of each record they have.
THEOREM WholeInvariant == Spec => []Whole
<1>1. ASSUME Whole, [Next]_vars PROVE Whole'
  <2>1. CASE UNCHANGED vars
    <3>1. UNCHANGED <<mem, clock, durable, batch, queue, target, before>>
      BY <2>1 DEF vars, store, writer, scopes, calls
    <3>2. QueueSound' /\ batch' \in [Tasks -> Batches]
      BY <1>1, <3>1 DEF queue, QueueSound, Whole, Typed
    <3> QED
      BY <1>1, <3>1, <3>2, QuietStep
  <2>2. CASE WriteSucceeds \/ WriteFails
    BY <1>1, <2>2, WriterSteps
  <2>3. ASSUME NEW t \in Tasks, Step(t) PROVE Whole'
    BY <1>1, <2>3, ScopeSteps, CallSteps, UpdateStep, ForgetStep, CommitStep,
       FailSteps, SaveStep, DeleteStep DEF Step, Proceed
  <2> QED
    BY <1>1, <2>1, <2>2, <2>3 DEF Next
<1> QED
  BY <1>1, WholeInit, PTL DEF Spec

\* Whatever is merged, refused, lost in a failed write or rolled back, no
\* record is written without its identity (_merge_snapshots, write).
THEOREM ReferencesStayValid == Spec => []ReferentialIntegrity
<1>1. Whole => ReferentialIntegrity
  BY DEF Whole
<1> QED
  BY <1>1, WholeInvariant, PTL

-----------------------------------------------------------------------------
(* close. *)

\* Nothing is accepted by a closed coordinator, and close accepts nothing to
\* be left behind (PersistenceCoordinator.close).
THEOREM CloseDrains == Spec => []ClosedIsDrained
<1>1. Init => ClosedIsDrained
  BY DEF Init, ClosedIsDrained
<1>2. ASSUME ClosedIsDrained, [Next]_vars PROVE ClosedIsDrained'
  <2>1. ASSUME NEW t \in Tasks, CloseReturns(t) PROVE ClosedIsDrained'
    BY <2>1 DEF CloseReturns, Flushed, InUse, queue, ClosedIsDrained
  <2>2. CASE WriteSucceeds \/ WriteFails
    BY <1>2, <2>2 DEF WriteSucceeds, WriteFails, Promote, ClosedIsDrained
  <2>3. ASSUME UNCHANGED closed, ~closed \/ UNCHANGED queue PROVE ClosedIsDrained'
    BY <1>2, <2>3 DEF ClosedIsDrained, queue
  <2>4. ASSUME NEW t \in Tasks, Step(t), ~CloseReturns(t)
        PROVE  UNCHANGED closed /\ (~closed \/ UNCHANGED queue)
    <3>1. ASSUME NEW k \in Keys, Update(t, k) \/ Forget(t, k) \/ Commit(t, k)
          PROVE  UNCHANGED closed /\ (~closed \/ UNCHANGED queue)
      BY <3>1 DEF Update, Forget, Commit, AutoSave, SubmitDirty, Submit, SubmitAs
    <3>2. CASE OpenScope(t) \/ EndTask(t) \/ CloseScope(t)
               \/ \E root \in Tasks : Join(t, root) \/ Wakeup(t, root)
      BY <3>2 DEF OpenScope, EndTask, CloseScope, Join, Wakeup, writer, SubmitDirty, Submit,
                 SubmitAs
    <3>3. CASE CommitSucceeds(t) \/ CommitFails(t) \/ CancelCommit(t) \/ Start(t)
               \/ FlushAgain(t) \/ FlushRaises(t) \/ FlushReturns(t) \/ CancelWait(t)
               \/ SaveFlushed(t) \/ SaveReturns(t) \/ DeleteFails(t)
      BY <3>3 DEF CommitSucceeds, CommitFails, CancelCommit, Start, FlushAgain, FlushRaises,
         FlushReturns, CancelWait, SaveFlushed, SaveReturns, DeleteFails, writer
    <3>4. CASE Save(t) \/ Delete(t)
      BY <3>4 DEF Save, Delete, SubmitDirty, Submit, SubmitAs, queue
    <3> QED
      BY <2>4, <3>1, <3>2, <3>3, <3>4 DEF Step, Proceed
  <2>5. CASE UNCHANGED vars
    BY <1>2, <2>5 DEF vars, writer, queue, ClosedIsDrained
  <2> QED
    BY <1>2, <2>1, <2>2, <2>3, <2>4, <2>5 DEF Next
<1> QED
  BY <1>1, <1>2, PTL DEF Spec

-----------------------------------------------------------------------------
(* The types, with every stamp bounded by the clock. *)

StampsTo(c) == [Keys -> 0..c]
DeltasTo(c) == [rows : StampsTo(c), deps : StampsTo(c), gone : SUBSET Keys,
                full : BOOLEAN, bad : BOOLEAN]
Slots == {"active", "pending"}

AtMostOne(S) == \A d, e \in S : d = e

StoreShape(c) == mem \in StampsTo(c) /\ durable \in StampsTo(c) /\ unborn \subseteq Keys

QueueShape(c) ==
    /\ active \subseteq DeltasTo(c) /\ AtMostOne(active)
    /\ pending \subseteq DeltasTo(c) /\ AtMostOne(pending)
    /\ pending # {} => active # {}

ScopeShape ==
    /\ batch \in [Tasks -> Batches]
    /\ scope \in [Tasks -> Tasks \cup {NoBatch, DeadBatch}]
    /\ detached \subseteq Tasks

CallShape(c) ==
    /\ pc \in [Tasks -> Labels]
    /\ failed \subseteq Tasks
    /\ target \in [Tasks -> SUBSET Keys]
    /\ before \in [Tasks -> StampsTo(c)]

WaitShape ==
    /\ awaiting \in [Tasks -> SUBSET Slots]
    /\ \A t \in Tasks : awaiting[t] \subseteq InUse

GhostShape(c) ==
    /\ acked \in StampsTo(c)
    /\ promised \in [Tasks -> StampsTo(c)]
    /\ refused \subseteq Keys

Shape ==
    /\ clock \in 1..(MaxChanges + 1)
    /\ error \in BOOLEAN /\ closed \in BOOLEAN
    /\ StoreShape(clock) /\ QueueShape(clock) /\ ScopeShape
    /\ CallShape(clock) /\ WaitShape /\ GhostShape(clock)

LEMMA StampsRise ==
    ASSUME NEW c \in Nat
    PROVE  /\ StampsTo(c) \subseteq StampsTo(c + 1)
           /\ DeltasTo(c) \subseteq DeltasTo(c + 1)
<1>1. 0..c \subseteq 0..(c + 1)
  OBVIOUS
<1>2. StampsTo(c) \subseteq StampsTo(c + 1)
  BY <1>1 DEF StampsTo
<1> QED
  BY <1>2 DEF DeltasTo

LEMMA CaptureShape ==
    ASSUME NEW c \in Nat, NEW m \in StampsTo(c), NEW b \in Batches
    PROVE  Capture(m, b) \in DeltasTo(c)
BY DEF Capture, StampsTo, DeltasTo, Batches, Nothing

LEMMA CaptureAllShape ==
    ASSUME NEW c \in Nat, NEW m \in StampsTo(c)
    PROVE  CaptureAll(m) \in DeltasTo(c)
BY DEF CaptureAll, StampsTo, DeltasTo, Nothing

LEMMA CaptureErrorShape ==
    ASSUME NEW c \in Nat
    PROVE  CaptureError \in DeltasTo(c)
BY DEF CaptureError, StampsTo, DeltasTo, Nothing

LEMMA OverrideShape ==
    ASSUME NEW c \in Nat, NEW f \in StampsTo(c), NEW g \in StampsTo(c), NEW gone
    PROVE  Override(f, g) \in StampsTo(c) /\ Without(f, gone) \in StampsTo(c)
BY DEF Override, Without, StampsTo

LEMMA MergeShape ==
    ASSUME NEW c \in Nat, NEW e \in DeltasTo(c), NEW l \in DeltasTo(c)
    PROVE  Merge(e, l) \in DeltasTo(c)
<1>1. CASE l.bad \/ (l.full /\ ~e.bad) \/ e.bad
  BY <1>1 DEF Merge
<1>2. CASE ~(l.bad \/ (l.full /\ ~e.bad) \/ e.bad)
  <2> DEFINE gone == e.gone \cup l.gone
             rows == Without(Override(e.rows, l.rows), gone)
             deps == Without(Override(e.deps, l.deps), gone)
             left == [k \in Keys |-> IF rows[k] # 0 THEN 0 ELSE deps[k]]
  <2>1. rows \in StampsTo(c) /\ deps \in StampsTo(c)
    BY OverrideShape DEF DeltasTo
  <2>2. left \in StampsTo(c)
    <3> HIDE DEF rows, deps
    <3> QED
      BY <2>1 DEF StampsTo
  <2>3. Merge(e, l) = [rows |-> rows, deps |-> left, gone |-> gone, full |-> e.full, bad |-> FALSE]
    BY <1>2 DEF Merge
  <2>4. gone \subseteq Keys /\ e.full \in BOOLEAN
    BY DEF DeltasTo
  <2> HIDE DEF rows, deps, left, gone
  <2> QED
    BY <2>1, <2>2, <2>3, <2>4 DEF DeltasTo
<1> QED
  BY <1>1, <1>2

LEMMA ApplyShape ==
    ASSUME NEW c \in Nat, NEW db \in StampsTo(c), NEW d \in DeltasTo(c)
    PROVE  Apply(db, d) \in StampsTo(c)
<1> DEFINE kept == Without(IF d.full THEN Nothing ELSE db, d.gone)
<1>1. Nothing \in StampsTo(c)
  BY DEF Nothing, StampsTo
<1>2. kept \in StampsTo(c)
  BY <1>1, OverrideShape
<1>3. Override(d.deps, kept) \in StampsTo(c)
  <2> HIDE DEF kept
  <2> QED
    BY <1>2, OverrideShape DEF DeltasTo
<1> QED
  BY <1>3, OverrideShape DEF Apply, DeltasTo

LEMMA KeptShape ==
    ASSUME NEW c \in Nat, NEW f \in StampsTo(c), NEW d \in DeltasTo(c)
    PROVE  Kept(f, d) \in StampsTo(c)
BY OverrideShape DEF Kept, StampsTo

\* A delta that is queued finds a slot, and those in use stay in use.
LEMMA EnqueueShape ==
    ASSUME NEW c \in Nat, QueueShape(c), NEW d \in DeltasTo(c), Enqueue(d)
    PROVE  /\ QueueShape(c)'
           /\ InUse \subseteq InUse'
           /\ SlotOf \in InUse' /\ SlotOf \in Slots
<1>1. CASE active = {}
  <2>1. pending = {} /\ active' = {d} /\ pending' = {}
    BY <1>1 DEF Enqueue, QueueShape
  <2> QED
    BY <1>1, <2>1 DEF QueueShape, AtMostOne, InUse, SlotOf, Slots
<1>2. CASE active # {} /\ pending = {}
  BY <1>2 DEF Enqueue, QueueShape, AtMostOne, InUse, SlotOf, Slots
<1>3. CASE active # {} /\ pending # {}
  <2>1. PICK e \in pending : pending' = {Merge(e, d)} /\ active' = active
    BY <1>3 DEF Enqueue
  <2>2. Merge(e, d) \in DeltasTo(c)
    BY <2>1, MergeShape DEF QueueShape
  <2> QED
    BY <1>3, <2>1, <2>2 DEF QueueShape, AtMostOne, InUse, SlotOf, Slots
<1> QED
  BY <1>1, <1>2, <1>3

LEMMA SubmitShape ==
    ASSUME NEW c \in Nat, QueueShape(c), GhostShape(c), NEW d \in DeltasTo(c),
           NEW promises \in [Tasks -> StampsTo(c)], SubmitAs(d, promises)
    PROVE  /\ QueueShape(c)'
           /\ acked' \in StampsTo(c) /\ promised' \in [Tasks -> StampsTo(c)]
           /\ InUse \subseteq InUse'
           /\ SlotOf \in InUse' /\ SlotOf \in Slots
<1>1. Enqueue(d) /\ acked' = Kept(acked, d)
      /\ promised' = [t \in Tasks |-> Kept(promises[t], d)]
  BY DEF SubmitAs
<1>2. acked' \in StampsTo(c) /\ promised' \in [Tasks -> StampsTo(c)]
  BY <1>1, KeptShape DEF GhostShape
<1> QED
  BY <1>1, <1>2, EnqueueShape

LEMMA SubmitDirtyShape ==
    ASSUME NEW c \in Nat, QueueShape(c), GhostShape(c), NEW d \in DeltasTo(c), SubmitDirty(d)
    PROVE  /\ QueueShape(c)'
           /\ acked' \in StampsTo(c) /\ promised' \in [Tasks -> StampsTo(c)]
           /\ InUse \subseteq InUse'
           /\ SlotOf \in InUse' /\ SlotOf \in Slots
BY SubmitShape, CaptureErrorShape DEF SubmitDirty, Submit, GhostShape

LEMMA AutoSaveShape ==
    ASSUME NEW c \in Nat, QueueShape(c), GhostShape(c), ScopeShape, mem' \in StampsTo(c),
           NEW t \in Tasks, NEW b \in Batches, AutoSave(t, b)
    PROVE  /\ QueueShape(c)' /\ GhostShape(c)'
           /\ InUse \subseteq InUse'
           /\ batch' \in [Tasks -> Batches]
<1>1. CASE scope[t] = NoBatch
  <2>1. batch' = batch /\ b.dirty \cup b.gone \subseteq Keys
    BY <1>1 DEF AutoSave, Batches
  <2>2. CASE SubmitDirty(Capture(mem', b)) /\ UNCHANGED refused
    BY <2>1, <2>2, CaptureShape, SubmitDirtyShape DEF ScopeShape, GhostShape
  <2>3. CASE refused' = refused \cup b.dirty \cup b.gone /\ UNCHANGED <<queue, acked, promised>>
    BY <2>1, <2>3 DEF queue, QueueShape, GhostShape, ScopeShape, InUse
  <2> QED
    BY <1>1, <2>2, <2>3 DEF AutoSave
<1>2. CASE scope[t] # NoBatch
  <2>1. UNCHANGED <<queue, ghosts>>
    BY <1>2 DEF AutoSave
  <2>2. batch' = [u \in Tasks |->
                    IF u = scope[t] THEN [dirty |-> batch[u].dirty \cup b.dirty,
                                          gone |-> batch[u].gone \cup b.gone]
                    ELSE batch[u]]
    BY <1>2 DEF AutoSave
  <2>3. batch' \in [Tasks -> Batches]
    BY <2>2 DEF ScopeShape, Batches
  <2> QED
    BY <2>1, <2>3 DEF queue, ghosts, QueueShape, GhostShape, InUse
<1> QED
  BY <1>1, <1>2

\* A change raises the clock with the stamp.
LEMMA ChangeShape ==
    ASSUME Shape, NEW k \in Keys, MayChange(k), Change(k)
    PROVE  /\ clock' = clock + 1 /\ clock' \in 1..(MaxChanges + 1) /\ clock' \in Nat
           /\ StoreShape(clock)'
           /\ QueueShape(clock') /\ CallShape(clock') /\ GhostShape(clock')
<1>1. clock \in Nat /\ clock' = clock + 1 /\ clock' \in 1..(MaxChanges + 1)
  BY PersistenceAssumption DEF Shape, Change, MayChange
<1>2. StampsTo(clock) \subseteq StampsTo(clock') /\ DeltasTo(clock) \subseteq DeltasTo(clock')
  BY <1>1, StampsRise
<1>3. QueueShape(clock') /\ CallShape(clock') /\ GhostShape(clock')
  BY <1>2 DEF Shape, QueueShape, CallShape, GhostShape
<1>4. mem \in StampsTo(clock') /\ durable' \in StampsTo(clock')
  BY <1>2 DEF Shape, StoreShape, Change
<1>5. mem' = [mem EXCEPT ![k] = clock'] /\ clock' \in 0..clock'
  BY <1>1 DEF Change
<1>6. mem' \in StampsTo(clock')
  BY <1>4, <1>5 DEF StampsTo
<1> QED
  BY <1>1, <1>3, <1>4, <1>6 DEF StoreShape, Shape, Change

LEMMA UpdateShape ==
    ASSUME Shape, NEW t \in Tasks, NEW k \in Keys, Update(t, k)
    PROVE  Shape'
<1> DEFINE b == [dirty |-> {k}, gone |-> {}]
<1>1. MayChange(k) /\ Change(k) /\ AutoSave(t, b) /\ b \in Batches
      /\ UNCHANGED <<error, closed, scope, detached, calls>>
  BY DEF Update, Batches
<1>2. /\ clock' \in 1..(MaxChanges + 1) /\ clock' \in Nat
      /\ StoreShape(clock)'
      /\ QueueShape(clock') /\ CallShape(clock') /\ GhostShape(clock')
  BY <1>1, ChangeShape
<1>3. mem' \in StampsTo(clock')
  BY <1>2 DEF StoreShape
<1>4. /\ QueueShape(clock)' /\ GhostShape(clock)'
      /\ InUse \subseteq InUse'
      /\ batch' \in [Tasks -> Batches]
  BY <1>1, <1>2, <1>3, AutoSaveShape DEF Shape, QueueShape, GhostShape
<1>5. WaitShape' /\ ScopeShape' /\ CallShape(clock)'
  BY <1>1, <1>2, <1>4 DEF Shape, WaitShape, ScopeShape, CallShape, calls
<1> QED
  BY <1>1, <1>2, <1>4, <1>5 DEF Shape

LEMMA ForgetShape ==
    ASSUME Shape, NEW t \in Tasks, NEW k \in Keys, Forget(t, k)
    PROVE  Shape'
<1> DEFINE b == [dirty |-> {}, gone |-> {k}]
<1>1. mem' = [mem EXCEPT ![k] = 0] /\ AutoSave(t, b) /\ b \in Batches
      /\ UNCHANGED <<durable, unborn, clock, error, closed, scope, detached, calls>>
  BY DEF Forget, Batches
<1>2. clock \in Nat /\ 0 \in 0..clock
  BY DEF Shape
<1>3. mem' \in StampsTo(clock)
  BY <1>1, <1>2 DEF Shape, StoreShape, StampsTo
<1>4. /\ QueueShape(clock)' /\ GhostShape(clock)'
      /\ InUse \subseteq InUse'
      /\ batch' \in [Tasks -> Batches]
  BY <1>1, <1>2, <1>3, AutoSaveShape DEF Shape, QueueShape, GhostShape
<1>5. WaitShape' /\ ScopeShape' /\ CallShape(clock)'
  BY <1>1, <1>4 DEF Shape, WaitShape, ScopeShape, CallShape, calls
<1> QED
  BY <1>1, <1>3, <1>4, <1>5 DEF Shape, StoreShape

\* A call that ends keeps its types.
LEMMA ResetShape ==
    ASSUME Shape, NEW t \in Tasks, Reset(t)
    PROVE  /\ pc' \in [Tasks -> Labels] /\ failed' \subseteq Tasks
           /\ target' \in [Tasks -> SUBSET Keys] /\ before' \in [Tasks -> StampsTo(clock)]
<1>1. Nothing \in StampsTo(clock) /\ "free" \in Labels
  BY DEF Shape, StampsTo, Nothing, Labels
<1> QED
  BY <1>1 DEF Shape, CallShape, Reset, Goto

LEMMA ReturnShape ==
    ASSUME Shape, NEW t \in Tasks, Return(t)
    PROVE  /\ pc' \in [Tasks -> Labels] /\ failed' \subseteq Tasks
           /\ target' \in [Tasks -> SUBSET Keys] /\ before' \in [Tasks -> StampsTo(clock)]
           /\ promised' \in [Tasks -> StampsTo(clock)]
<1>1. Nothing \in StampsTo(clock)
  BY DEF Shape, StampsTo, Nothing
<1> QED
  BY <1>1, ResetShape DEF Return, Shape, GhostShape

LEMMA AcknowledgeShape ==
    ASSUME NEW c \in Nat, acked \in StampsTo(c), NEW f \in StampsTo(c), Acknowledge(f)
    PROVE  acked' \in StampsTo(c)
BY DEF Acknowledge, StampsTo

LEMMA WrittenShape ==
    ASSUME NEW c \in Nat, NEW db \in StampsTo(c), NEW slot \in SUBSET DeltasTo(c)
    PROVE  Written(db, slot) \in StampsTo(c)
<1>1. CASE slot = {}
  BY <1>1 DEF Written
<1>2. CASE slot # {}
  <2>1. PICK d \in slot : d = CHOOSE e \in slot : TRUE
    BY <1>2
  <2> QED
    BY <2>1, ApplyShape DEF Written
<1> QED
  BY <1>1, <1>2

LEMMA QueuedShape == Shape => Queued \in StampsTo(clock)
<1> SUFFICES ASSUME Shape PROVE Queued \in StampsTo(clock)
  OBVIOUS
<1>1. clock \in Nat
  BY DEF Shape
<1>2. Written(durable, active) \in StampsTo(clock)
  BY <1>1, WrittenShape DEF Shape, StoreShape, QueueShape
<1> QED
  BY <1>1, <1>2, WrittenShape DEF Shape, QueueShape, Queued

\* Steps that change nothing but scopes and calls.
LEMMA RestShape ==
    ASSUME Shape, UNCHANGED <<store, queue, error>>,
           closed' \in BOOLEAN, ScopeShape', CallShape(clock)', GhostShape(clock)',
           \/ UNCHANGED awaiting
           \/ \E t \in Tasks, w \in {{}, InUse} : awaiting' = [awaiting EXCEPT ![t] = w]
    PROVE  Shape'
<1>1. InUse' = InUse /\ InUse \subseteq Slots
  BY DEF InUse, Slots, queue
<1>2. WaitShape'
  <2>1. CASE UNCHANGED awaiting
    BY <1>1, <2>1 DEF Shape, WaitShape
  <2>2. ASSUME NEW t \in Tasks, NEW w \in {{}, InUse}, awaiting' = [awaiting EXCEPT ![t] = w]
        PROVE  WaitShape'
    <3>1. w \subseteq InUse /\ awaiting \in [Tasks -> SUBSET Slots]
      BY DEF Shape, WaitShape
    <3>2. awaiting' \in [Tasks -> SUBSET Slots]
      BY <1>1, <2>2, <3>1
    <3>3. \A u \in Tasks : awaiting'[u] \subseteq InUse
      BY <2>2, <3>1 DEF Shape, WaitShape
    <3> QED
      BY <1>1, <3>2, <3>3 DEF WaitShape
  <2> QED
    BY <2>1, <2>2
<1>3. StoreShape(clock)' /\ QueueShape(clock)'
  BY DEF Shape, StoreShape, QueueShape, store, queue
<1> QED
  BY <1>2, <1>3 DEF Shape, store

LEMMA ScopeStepsShape ==
    ASSUME Shape, NEW t \in Tasks,
           OpenScope(t) \/ EndTask(t) \/ \E root \in Tasks : Join(t, root) \/ Wakeup(t, root)
    PROVE  Shape'
<1>1. UNCHANGED <<store, writer, calls, ghosts>> /\ ScopeShape'
  BY DEF OpenScope, EndTask, Join, Wakeup, Shape, ScopeShape
<1>2. CallShape(clock)' /\ GhostShape(clock)'
  BY <1>1 DEF Shape, CallShape, GhostShape, calls, ghosts, store
<1> QED
  BY <1>1, <1>2, RestShape DEF calls, writer, Shape

LEMMA CallStepsShape ==
    ASSUME Shape, NEW t \in Tasks,
           \/ CommitSucceeds(t) \/ CancelCommit(t)
           \/ Start(t) \/ FlushAgain(t) \/ FlushRaises(t) \/ FlushReturns(t)
           \/ CloseReturns(t) \/ SaveFlushed(t) \/ SaveReturns(t) \/ CancelWait(t)
    PROVE  Shape'
<1>1. UNCHANGED <<store, queue, error, scopes, refused>> /\ closed' \in BOOLEAN
  BY DEF CommitSucceeds, CancelCommit, Start, FlushAgain, FlushRaises, FlushReturns,
         CloseReturns, SaveFlushed, SaveReturns, CancelWait, writer, ghosts, Shape
<1>2. \/ UNCHANGED awaiting
      \/ \E u \in Tasks, w \in {{}, InUse} : awaiting' = [awaiting EXCEPT ![u] = w]
  BY DEF CommitSucceeds, CancelCommit, Start, FlushAgain, FlushRaises, FlushReturns,
         CloseReturns, SaveFlushed, SaveReturns, CancelWait
<1>3. CallShape(clock)' /\ promised' \in [Tasks -> StampsTo(clock)]
  <2>1. CASE Return(t)
    BY <1>1, <2>1, ReturnShape DEF CallShape, store
  <2>2. CASE \E label \in Labels : Goto(t, label) /\ UNCHANGED <<failed, target, before, promised>>
    BY <1>1, <2>2 DEF Goto, CallShape, Shape, GhostShape, store
  <2>3. CASE UNCHANGED <<pc, failed, target, before, promised>>
    BY <1>1, <2>3 DEF CallShape, Shape, GhostShape, store
  <2> QED
    BY <2>1, <2>2, <2>3
    DEF CommitSucceeds, CancelCommit, Start, FlushAgain, FlushRaises, FlushReturns,
        CloseReturns, SaveFlushed, SaveReturns, CancelWait, Labels, ghosts
<1>4. acked' \in StampsTo(clock)
  <2>1. clock \in Nat /\ acked \in StampsTo(clock) /\ mem \in StampsTo(clock)
        /\ promised[t] \in StampsTo(clock)
    BY DEF Shape, GhostShape, StoreShape
  <2>2. [k \in Keys |-> IF k \in target[t] THEN mem[k] ELSE 0] \in StampsTo(clock)
    BY <2>1 DEF StampsTo
  <2>3. ASSUME NEW f \in StampsTo(clock), Acknowledge(f) PROVE acked' \in StampsTo(clock)
    BY <2>1, <2>3, AcknowledgeShape
  <2>4. CASE CommitSucceeds(t)
    BY <2>2, <2>3, <2>4 DEF CommitSucceeds
  <2>5. CASE FlushReturns(t) \/ CloseReturns(t)
    BY <2>1, <2>3, <2>5, QueuedShape DEF FlushReturns, CloseReturns
  <2>6. CASE SaveReturns(t)
    BY <2>1, <2>3, <2>6 DEF SaveReturns
  <2> QED
    BY <2>1, <2>4, <2>5, <2>6
    DEF CancelCommit, Start, FlushAgain, FlushRaises, SaveFlushed, CancelWait, ghosts
<1>5. ScopeShape' /\ GhostShape(clock)'
  BY <1>1, <1>3, <1>4 DEF Shape, ScopeShape, GhostShape, scopes, store
<1> QED
  BY <1>1, <1>2, <1>3, <1>5, RestShape

LEMMA CloseScopeShape ==
    ASSUME Shape, NEW t \in Tasks, CloseScope(t)
    PROVE  Shape'
<1>1. UNCHANGED <<store, error, closed, detached, calls>>
  BY DEF CloseScope
<1>2. clock \in Nat /\ mem \in StampsTo(clock) /\ batch[t] \in Batches /\ EmptyBatch \in Batches
  BY DEF Shape, StoreShape, ScopeShape, Batches, EmptyBatch
<1>3. ScopeShape'
  BY <1>1, <1>2 DEF CloseScope, Shape, ScopeShape
<1>4. QueueShape(clock)' /\ GhostShape(clock)' /\ InUse \subseteq InUse'
  <2>1. CASE UNCHANGED <<queue, acked, promised>>
    <3>1. refused' \subseteq Keys
      BY <1>2 DEF CloseScope, Shape, GhostShape, ghosts, Batches
    <3> QED
      BY <1>1, <2>1, <3>1 DEF Shape, QueueShape, GhostShape, InUse, queue, store
  <2>2. CASE SubmitDirty(Capture(mem, batch[t])) /\ UNCHANGED refused
    BY <1>1, <1>2, <2>2, CaptureShape, SubmitDirtyShape DEF Shape, GhostShape, store, QueueShape
  <2> QED
    BY <2>1, <2>2 DEF CloseScope, ghosts
<1>5. WaitShape' /\ CallShape(clock)'
  BY <1>1, <1>4 DEF Shape, WaitShape, CallShape, calls, store
<1> QED
  BY <1>1, <1>3, <1>4, <1>5 DEF Shape, StoreShape, store

LEMMA CommitShape ==
    ASSUME Shape, NEW t \in Tasks, NEW k \in Keys, Commit(t, k)
    PROVE  Shape'
<1> DEFINE d == Capture(mem', [dirty |-> {k}, gone |-> {}])
<1>1. /\ MayChange(k) /\ Change(k) /\ SubmitAs(d, promised)
      /\ pc' = [pc EXCEPT ![t] = "committing"]
      /\ target' = [target EXCEPT ![t] = {k}]
      /\ before' = [before EXCEPT ![t] = [Nothing EXCEPT ![k] = mem[k]]]
      /\ awaiting' = [awaiting EXCEPT ![t] = {SlotOf}]
      /\ UNCHANGED <<error, closed, scopes, failed, refused>>
  BY DEF Commit, Submit, Goto
<1>2. /\ clock' \in 1..(MaxChanges + 1) /\ clock' \in Nat
      /\ StoreShape(clock)'
      /\ QueueShape(clock') /\ CallShape(clock') /\ GhostShape(clock')
  BY <1>1, ChangeShape
<1>3. d \in DeltasTo(clock')
  BY <1>2, CaptureShape DEF StoreShape, Batches
<1> HIDE DEF d
<1>4. /\ QueueShape(clock)'
      /\ acked' \in StampsTo(clock') /\ promised' \in [Tasks -> StampsTo(clock')]
      /\ InUse \subseteq InUse'
      /\ SlotOf \in InUse' /\ SlotOf \in Slots
  BY <1>1, <1>2, <1>3, SubmitShape DEF GhostShape, QueueShape
<1>5. [Nothing EXCEPT ![k] = mem[k]] \in StampsTo(clock')
  <2>1. mem[k] \in 0..clock'
    BY <1>1, <1>2 DEF Shape, StoreShape, StampsTo, Change
  <2> QED
    BY <1>2, <2>1 DEF Nothing, StampsTo
<1>6. CallShape(clock)'
  BY <1>1, <1>2, <1>5 DEF CallShape, Labels
<1>7. WaitShape' /\ ScopeShape' /\ GhostShape(clock)'
  BY <1>1, <1>2, <1>4 DEF Shape, WaitShape, ScopeShape, GhostShape, scopes
<1> QED
  BY <1>1, <1>2, <1>4, <1>6, <1>7 DEF Shape

LEMMA FailShape ==
    ASSUME Shape, NEW t \in Tasks, CommitFails(t) \/ DeleteFails(t)
    PROVE  Shape'
<1>1. /\ mem' = PutBack(t, mem) /\ Reset(t)
      /\ UNCHANGED <<durable, unborn, clock, writer, scopes, awaiting, refused>>
  BY DEF CommitFails, DeleteFails, Return, ghosts
<1>2. clock \in Nat /\ mem \in StampsTo(clock) /\ Nothing \in StampsTo(clock)
  BY DEF Shape, StoreShape, StampsTo, Nothing
<1>3. ASSUME NEW f \in StampsTo(clock)
      PROVE  PutBack(t, f) \in StampsTo(clock) /\ Lower(t, f) \in StampsTo(clock)
  <2>1. PutBack(t, f) \in StampsTo(clock)
    BY DEF PutBack, Shape, CallShape, StampsTo
  <2> QED
    BY <2>1 DEF Lower, StampsTo
<1>4. acked' \in StampsTo(clock) /\ promised' \in [Tasks -> StampsTo(clock)]
  <2>1. CASE CommitFails(t)
    <3>1. /\ acked' = Lower(t, acked)
          /\ promised' = [u \in Tasks |-> IF u = t THEN Nothing ELSE Lower(t, promised[u])]
      BY <2>1 DEF CommitFails
    <3> QED
      BY <1>2, <1>3, <3>1 DEF Shape, GhostShape
  <2>2. CASE DeleteFails(t)
    BY <2>2, ReturnShape DEF DeleteFails, Shape, GhostShape
  <2> QED
    BY <2>1, <2>2
<1>5. mem' \in StampsTo(clock)
  BY <1>1, <1>2, <1>3
<1>6. CallShape(clock)'
  BY <1>1, ResetShape DEF CallShape
<1> QED
  BY <1>1, <1>4, <1>5, <1>6
  DEF Shape, StoreShape, QueueShape, ScopeShape, WaitShape, GhostShape, InUse, writer, queue, scopes

LEMMA SaveShape ==
    ASSUME Shape, NEW t \in Tasks, Save(t)
    PROVE  Shape'
<1>1. UNCHANGED <<store, error, closed, scopes, refused>>
  BY DEF Save
<1>2. CASE Return(t) /\ UNCHANGED <<queue, awaiting, acked>>
  <2>1. ScopeShape' /\ CallShape(clock)' /\ GhostShape(clock)'
    BY <1>1, <1>2, ReturnShape DEF Shape, ScopeShape, scopes, CallShape, GhostShape, store
  <2> QED
    BY <1>1, <1>2, <2>1, RestShape DEF Shape
<1>3. CASE /\ SubmitAs(CaptureAll(mem), [promised EXCEPT ![t] = mem])
           /\ Goto(t, "storing")
           /\ awaiting' = [awaiting EXCEPT ![t] = {SlotOf}]
           /\ UNCHANGED <<failed, target, before>>
  <2>1. /\ clock \in Nat /\ QueueShape(clock) /\ GhostShape(clock)
        /\ mem \in StampsTo(clock)
        /\ [promised EXCEPT ![t] = mem] \in [Tasks -> StampsTo(clock)]
    BY DEF Shape, StoreShape, GhostShape
  <2>2. /\ QueueShape(clock)'
        /\ acked' \in StampsTo(clock) /\ promised' \in [Tasks -> StampsTo(clock)]
        /\ InUse \subseteq InUse'
        /\ SlotOf \in InUse' /\ SlotOf \in Slots
    BY <1>1, <1>3, <2>1, CaptureAllShape, SubmitShape DEF QueueShape, store
  <2>3. CallShape(clock)'
    BY <1>1, <1>3 DEF Shape, CallShape, Goto, Labels, store
  <2>4. WaitShape' /\ ScopeShape' /\ GhostShape(clock)'
    BY <1>1, <1>3, <2>2 DEF Shape, WaitShape, ScopeShape, GhostShape, scopes, store
  <2> QED
    BY <1>1, <2>2, <2>3, <2>4 DEF Shape, StoreShape, store
<1> QED
  BY <1>2, <1>3 DEF Save

LEMMA DeleteShape ==
    ASSUME Shape, NEW t \in Tasks, Delete(t)
    PROVE  Shape'
<1>1. UNCHANGED <<durable, unborn, clock, error, closed, scopes, refused>>
  BY DEF Delete
<1>2. CASE Return(t) /\ UNCHANGED <<mem, queue, awaiting, acked>>
  <2>1. ScopeShape' /\ CallShape(clock)' /\ GhostShape(clock)'
    BY <1>1, <1>2, ReturnShape DEF Shape, ScopeShape, scopes, CallShape, GhostShape, store
  <2> QED
    BY <1>1, <1>2, <2>1, RestShape DEF Shape, store
<1>3. ASSUME NEW a \in Identities,
             mem' = Without(mem, {a}),
             SubmitDirty(Capture(mem', [dirty |-> {}, gone |-> {a}])),
             Goto(t, "deleting"),
             awaiting' = [awaiting EXCEPT ![t] = {SlotOf}],
             target' = [target EXCEPT ![t] = {k \in Keys : Owner[k] = a}],
             before' = [before EXCEPT ![t] =
                 [k \in Keys |-> IF k \in {j \in Keys : Owner[j] = a} THEN mem[k] ELSE 0]],
             UNCHANGED failed
      PROVE  Shape'
  <2> DEFINE b == [dirty |-> {}, gone |-> {a}]
             was == [k \in Keys |-> IF k \in {j \in Keys : Owner[j] = a} THEN mem[k] ELSE 0]
  <2>1. clock \in Nat /\ mem \in StampsTo(clock) /\ b \in Batches
    BY DEF Shape, StoreShape, Batches, Identities
  <2>2. mem' \in StampsTo(clock)
    BY <1>3, <2>1, OverrideShape
  <2>3. Capture(mem', b) \in DeltasTo(clock)
    BY <2>1, <2>2, CaptureShape
  <2>4. /\ QueueShape(clock)'
        /\ acked' \in StampsTo(clock) /\ promised' \in [Tasks -> StampsTo(clock)]
        /\ InUse \subseteq InUse'
        /\ SlotOf \in InUse' /\ SlotOf \in Slots
    BY <1>1, <1>3, <2>1, <2>3, SubmitDirtyShape DEF Shape, QueueShape
  <2>5. was \in StampsTo(clock)
    BY <2>1 DEF StampsTo
  <2> HIDE DEF was, b
  <2>6. CallShape(clock)'
    BY <1>1, <1>3, <2>5 DEF Shape, CallShape, Goto, Labels, was
  <2>7. WaitShape' /\ ScopeShape' /\ GhostShape(clock)'
    BY <1>1, <1>3, <2>4 DEF Shape, WaitShape, ScopeShape, GhostShape, scopes
  <2> QED
    BY <1>1, <2>2, <2>4, <2>6, <2>7 DEF Shape, StoreShape
<1> QED
  BY <1>2, <1>3 DEF Delete

LEMMA WriterShape ==
    ASSUME Shape, WriteSucceeds \/ WriteFails
    PROVE  Shape'
<1>1. /\ UNCHANGED <<mem, unborn, clock, closed, scopes, pc, target, before, ghosts>>
      /\ active' = pending /\ pending' = {}
      /\ awaiting' = [t \in Tasks |-> IF "pending" \in awaiting[t] THEN {"active"} ELSE {}]
      /\ error' \in BOOLEAN /\ failed' \subseteq Tasks
  BY DEF WriteSucceeds, WriteFails, Promote, store, Shape, CallShape
<1>2. durable' \in StampsTo(clock)
  BY ApplyShape DEF WriteSucceeds, WriteFails, Shape, StoreShape, QueueShape, store
<1>3. QueueShape(clock)'
  BY <1>1 DEF Shape, QueueShape, AtMostOne
<1>4. WaitShape'
  BY <1>1 DEF Shape, WaitShape, InUse, Slots
<1> QED
  BY <1>1, <1>2, <1>3, <1>4 DEF Shape, StoreShape, ScopeShape, CallShape, GhostShape, scopes, ghosts

LEMMA InitShape == Init => Shape
<1> SUFFICES ASSUME Init PROVE Shape
  OBVIOUS
<1>1. PICK there \in Loaded : mem = [k \in Keys |-> IF k \in there THEN 1 ELSE 0]
                              /\ unborn = Keys \ there
  BY DEF Init
<1>2. clock = 1 /\ clock \in 1..(MaxChanges + 1)
  BY PersistenceAssumption DEF Init
<1>3. mem \in StampsTo(clock) /\ Nothing \in StampsTo(clock)
  BY <1>1, <1>2 DEF StampsTo, Nothing
<1>4. StoreShape(clock) /\ GhostShape(clock)
  BY <1>1, <1>3 DEF Init, StoreShape, GhostShape
<1>5. QueueShape(clock) /\ CallShape(clock) /\ ScopeShape /\ WaitShape
  BY <1>3 DEF Init, QueueShape, AtMostOne, CallShape, Labels, ScopeShape, Batches, EmptyBatch,
              WaitShape, Slots
<1> QED
  BY <1>2, <1>4, <1>5 DEF Shape, Init

\* Shape is inductive: every stamp is one that the clock has given out, and the
\* queue holds one delta that is being written and one that waits
\* (PersistenceCoordinator.submit, _finish_active).
THEOREM ShapeInvariant == Spec => []Shape
<1>1. ASSUME Shape, [Next]_vars PROVE Shape'
  <2>1. CASE UNCHANGED vars
    BY <1>1, <2>1 DEF vars, store, writer, queue, scopes, calls, ghosts, Shape, StoreShape,
       QueueShape, ScopeShape, CallShape, WaitShape, GhostShape, InUse
  <2>2. CASE WriteSucceeds \/ WriteFails
    BY <1>1, <2>2, WriterShape
  <2>3. ASSUME NEW t \in Tasks, Step(t) PROVE Shape'
    BY <1>1, <2>3, UpdateShape, ForgetShape, CommitShape, ScopeStepsShape, CloseScopeShape,
       CallStepsShape, FailShape, SaveShape, DeleteShape DEF Step, Proceed
  <2> QED
    BY <1>1, <2>1, <2>2, <2>3 DEF Next
<1> QED
  BY <1>1, InitShape, PTL DEF Spec

\* Every variable has its type, and nobody waits for an empty slot of the queue.
THEOREM TypesAreRight == Spec => []TypeOK
<1>1. Shape => TypeOK
  <2> SUFFICES ASSUME Shape PROVE TypeOK
    OBVIOUS
  <2>1. 0..clock \subseteq Stamps
    BY PersistenceAssumption DEF Shape, Stamps
  <2>2. StampsTo(clock) \subseteq Records /\ DeltasTo(clock) \subseteq Deltas
    <3>1. StampsTo(clock) \subseteq Records
      BY <2>1 DEF StampsTo, Records
    <3> QED
      BY <3>1 DEF DeltasTo, Deltas
  <2>3. ASSUME NEW S, AtMostOne(S) PROVE Cardinality(S) <= 1
    <3>1. CASE S = {}
      BY <3>1, FS_EmptySet
    <3>2. ASSUME NEW d \in S PROVE Cardinality(S) <= 1
      <4>1. S = {d}
        BY <2>3 DEF AtMostOne
      <4> QED
        BY <4>1, FS_Singleton
    <3> QED
      BY <3>1, <3>2
  <2>4. /\ active \subseteq Deltas /\ Cardinality(active) <= 1
        /\ pending \subseteq Deltas /\ Cardinality(pending) <= 1
    BY <2>2, <2>3 DEF Shape, QueueShape
  <2> QED
    BY <2>2, <2>4
    DEF Shape, TypeOK, StoreShape, ScopeShape, CallShape, WaitShape, GhostShape
<1> QED
  BY <1>1, ShapeInvariant, PTL

-----------------------------------------------------------------------------
(* Who holds a record, and what is deleted. *)

\* A commit or a deletion holds the records that it has changed: no two hold
\* the same one, a committed record is there and a deleted one is not.
Held ==
    /\ \A t, u \in Tasks : t # u => target[t] \cap target[u] = {}
    /\ \A t \in Tasks : \A k \in target[t] :
        /\ Committing(t) \/ pc[t] = "deleting"
        /\ Committing(t) <=> mem[k] # 0
        /\ before[t][k] # 0 => k \notin unborn

Born == \A k \in Keys : mem[k] # 0 => k \notin unborn

\* A record that has been there and is no more.
Dead(k) == mem[k] = 0 /\ k \notin unborn

\* Nothing brings back a record while its deletion is queued, nor ever while
\* the deletion is still in a batch.
Buried ==
    /\ \A d \in active \cup pending : \A k \in d.gone : Dead(k)
    /\ \A u \in Tasks : \A k \in batch[u].gone :
        Dead(k) /\ \A t \in Tasks : k \in target[t] => before[t][k] = 0

\* A call that writes waits for one slot of the queue at a time.
Patience ==
    \A t \in Tasks : Writing(t) => awaiting[t] \in {{}, {"active"}, {"pending"}}

Order ==
    /\ Held /\ Born /\ Buried /\ Patience
    /\ failed # {} => error

LEMMA InitOrder == Init => Order
<1> SUFFICES ASSUME Init PROVE Order
  OBVIOUS
<1>1. Born
  BY DEF Init, Born
<1>2. Held /\ Patience /\ failed = {}
  BY DEF Init, Held, Patience, Writing
<1>3. Buried
  BY DEF Init, Buried, EmptyBatch
<1> QED
  BY <1>1, <1>2, <1>3 DEF Order

\* t goes on with what it holds, or gives it up.
KeepsRole(t) ==
    \/ target'[t] = {}
    \/ /\ target'[t] = target[t] /\ before'[t] = before[t]
       /\ Committing(t)' <=> Committing(t)
       /\ pc'[t] = "deleting" <=> pc[t] = "deleting"

LEMMA HeldKept ==
    ASSUME Held, \A t \in Tasks : KeepsRole(t), unborn' \subseteq unborn,
           \A t \in Tasks : \A k \in target'[t] : mem'[k] # 0 <=> mem[k] # 0
    PROVE  Held'
BY DEF Held, KeepsRole

LEMMA EnqueueGone ==
    ASSUME NEW d, Enqueue(d), NEW e \in active' \cup pending', NEW k \in e.gone
    PROVE  k \in d.gone \/ \E q \in active \cup pending : k \in q.gone
<1>1. CASE active = {}
  BY <1>1 DEF Enqueue
<1>2. CASE active # {} /\ pending = {}
  BY <1>2 DEF Enqueue
<1>3. CASE active # {} /\ pending # {}
  <2>1. PICK q \in pending : pending' = {Merge(q, d)} /\ active' = active
    BY <1>3 DEF Enqueue
  <2>2. e \in active \/ e = Merge(q, d)
    BY <2>1
  <2>3. Merge(q, d) = d \/ Merge(q, d) = q \/ Merge(q, d).gone = q.gone \cup d.gone
    BY DEF Merge
  <2> QED
    BY <2>1, <2>2, <2>3
<1> QED
  BY <1>1, <1>2, <1>3

\* The deletions in the queue stay those of records that are no more.
LEMMA QueueBuried ==
    ASSUME Shape, Buried, NEW d, Enqueue(d),
           \A k \in Keys : Dead(k) => Dead(k)',
           \A k \in d.gone : Dead(k)'
    PROVE  \A e \in active' \cup pending' : \A k \in e.gone : Dead(k)'
<1>1. \A q \in active \cup pending : q.gone \subseteq Keys
  BY DEF Shape, QueueShape, DeltasTo
<1> QED
  BY <1>1, EnqueueGone DEF Buried

LEMMA SubmitDirtyBuried ==
    ASSUME Shape, Buried, NEW d, SubmitDirty(d),
           \A k \in Keys : Dead(k) => Dead(k)',
           \A k \in d.gone : Dead(k)'
    PROVE  \A e \in active' \cup pending' : \A k \in e.gone : Dead(k)'
<1>1. PICK e \in {d, CaptureError} : Enqueue(e)
  BY DEF SubmitDirty, Submit, SubmitAs
<1>2. \A k \in e.gone : Dead(k)'
  BY DEF CaptureError
<1> QED
  BY <1>1, <1>2, QueueBuried

LEMMA CaptureGone == \A m, b : Capture(m, b).gone = b.gone /\ CaptureAll(m).gone = {}
BY DEF Capture, CaptureAll

\* Steps that leave the records, the queue and the batches alone.
LEMMA QuietOrder ==
    ASSUME Order, UNCHANGED <<mem, unborn, queue, batch, error>>,
           \A t \in Tasks : KeepsRole(t), Patience', failed' \subseteq failed
    PROVE  Order'
<1>1. Held'
  BY HeldKept DEF Order
<1>2. Born'
  BY DEF Order, Born
<1>3. Buried'
  BY DEF Order, Buried, Dead, queue, KeepsRole
<1> QED
  BY <1>1, <1>2, <1>3 DEF Order

LEMMA ReturnRoles ==
    ASSUME Shape, NEW t \in Tasks, Reset(t)
    PROVE  /\ \A u \in Tasks : KeepsRole(u)
           /\ \A u \in Tasks : Writing(u)' => Writing(u) /\ u # t
           /\ failed' \subseteq failed
BY DEF Shape, CallShape, Reset, Goto, KeepsRole, Committing, Writing

LEMMA ScopeStepsOrder ==
    ASSUME Shape, Order, NEW t \in Tasks,
           OpenScope(t) \/ EndTask(t) \/ \E root \in Tasks : Join(t, root) \/ Wakeup(t, root)
    PROVE  Order'
<1>1. UNCHANGED <<store, writer, batch, calls>>
  BY DEF OpenScope, EndTask, Join, Wakeup
<1>2. Patience' /\ \A u \in Tasks : KeepsRole(u)
  BY <1>1 DEF calls, Order, Patience, Writing, KeepsRole, Committing
<1> QED
  BY <1>1, <1>2, QuietOrder DEF store, writer, calls

LEMMA CallStepsOrder ==
    ASSUME Shape, Order, NEW t \in Tasks,
           \/ CommitSucceeds(t) \/ CancelCommit(t)
           \/ Start(t) \/ FlushAgain(t) \/ FlushRaises(t) \/ FlushReturns(t)
           \/ CloseReturns(t) \/ SaveFlushed(t) \/ SaveReturns(t) \/ CancelWait(t)
    PROVE  Order'
<1>1. UNCHANGED <<store, queue, error, batch>>
  BY DEF CommitSucceeds, CancelCommit, Start, FlushAgain, FlushRaises, FlushReturns,
         CloseReturns, SaveFlushed, SaveReturns, CancelWait, writer, scopes
<1>2. CASE Return(t)
  <2>1. /\ \A u \in Tasks : KeepsRole(u)
        /\ \A u \in Tasks : Writing(u)' => Writing(u) /\ u # t
        /\ failed' \subseteq failed
    BY <1>2, ReturnRoles DEF Return
  <2>2. UNCHANGED awaiting \/ awaiting' = [awaiting EXCEPT ![t] = {}]
    BY <1>2 DEF CommitSucceeds, CancelCommit, Start, FlushAgain, FlushRaises, FlushReturns,
           CloseReturns, SaveFlushed, SaveReturns, CancelWait, Return, Reset, Goto, Flushing,
           Flushed, Shape, CallShape
  <2>3. Patience'
    BY <2>1, <2>2 DEF Order, Patience, Shape, WaitShape
  <2> QED
    BY <1>1, <2>1, <2>3, QuietOrder DEF store
<1>3. CASE CancelCommit(t) /\ pc[t] = "committing"
  <2>1. Goto(t, "cancelling") /\ UNCHANGED <<awaiting, failed, target, before>>
    BY <1>3 DEF CancelCommit
  <2>2. Patience' /\ \A u \in Tasks : KeepsRole(u)
    BY <1>3, <2>1 DEF Goto, Shape, CallShape, Order, Patience, Writing, KeepsRole, Committing
  <2> QED
    BY <1>1, <2>1, <2>2, QuietOrder DEF store
<1>4. CASE Start(t) \/ FlushAgain(t) \/ SaveFlushed(t)
  <2>1. target[t] = {} \/ FlushAgain(t)
    BY <1>4 DEF Start, SaveFlushed, Flushed, Order, Held, Committing
  <2>2. UNCHANGED <<failed, target, before>> /\ ~Writing(t)'
        /\ \A u \in Tasks \ {t} : pc'[u] = pc[u] /\ awaiting'[u] = awaiting[u]
    BY <1>4 DEF Start, FlushAgain, SaveFlushed, Flushing, Flushed, Goto, Shape, CallShape, WaitShape,
                Writing
  <2>3. Patience'
    BY <2>2 DEF Order, Patience, Writing
  <2>4. \A u \in Tasks : KeepsRole(u)
    BY <1>4, <2>1, <2>2 DEF KeepsRole, Committing, FlushAgain
  <2> QED
    BY <1>1, <2>2, <2>3, <2>4, QuietOrder DEF store
<1> QED
  BY <1>2, <1>3, <1>4
  DEF CommitSucceeds, CancelCommit, FlushRaises, FlushReturns, CloseReturns, SaveReturns,
      CancelWait, Committing

\* Nothing dead is changed; the other records stay as they are.
LEMMA ChangeOrder ==
    ASSUME Shape, Born, NEW k \in Keys, MayChange(k), Change(k)
    PROVE  /\ k \notin Locked /\ mem'[k] # 0
           /\ \A j \in Keys : j # k => mem'[j] = mem[j]
           /\ unborn' \subseteq unborn
           /\ \A j \in Keys : Dead(j) => Dead(j)'
           /\ Born'
<1>1. mem' = [mem EXCEPT ![k] = clock + 1] /\ unborn' = unborn \ {k} /\ k \notin Locked
  BY DEF Change, MayChange
<1>2. mem'[k] # 0 /\ \A j \in Keys : j # k => mem'[j] = mem[j]
  BY <1>1 DEF Shape, StoreShape, StampsTo
<1>3. ~Dead(k)
  BY DEF MayChange, Exists, MayCreate, Dead
<1>4. \A j \in Keys : Dead(j) => Dead(j)'
  BY <1>1, <1>2, <1>3 DEF Dead
<1>5. Born'
  BY <1>1, <1>2 DEF Born
<1> QED
  BY <1>1, <1>2, <1>4, <1>5

LEMMA UpdateOrder ==
    ASSUME Shape, Order, NEW t \in Tasks, NEW k \in Keys, Update(t, k)
    PROVE  Order'
<1> DEFINE b == [dirty |-> {k}, gone |-> {}]
<1>1. MayChange(k) /\ Change(k) /\ AutoSave(t, b) /\ UNCHANGED <<error, calls>>
  BY DEF Update
<1>2. /\ k \notin Locked /\ mem'[k] # 0
      /\ \A j \in Keys : j # k => mem'[j] = mem[j]
      /\ unborn' \subseteq unborn
      /\ \A j \in Keys : Dead(j) => Dead(j)'
      /\ Born'
  BY <1>1, ChangeOrder DEF Order
<1>3. Held'
  <2>1. \A u \in Tasks : \A j \in target'[u] : mem'[j] # 0 <=> mem[j] # 0
    BY <1>1, <1>2 DEF calls, Locked, Shape, CallShape
  <2>2. \A u \in Tasks : KeepsRole(u)
    BY <1>1 DEF calls, KeepsRole, Committing
  <2> QED
    BY <1>2, <2>1, <2>2, HeldKept DEF Order
<1>4. \A e \in active' \cup pending' : \A j \in e.gone : Dead(j)'
  <2>1. CASE SubmitDirty(Capture(mem', b))
    BY <1>2, <2>1, SubmitDirtyBuried, CaptureGone DEF Order
  <2>2. CASE UNCHANGED queue
    BY <1>2, <2>2 DEF queue, Order, Buried, Shape, QueueShape, DeltasTo
  <2> QED
    BY <1>1, <2>1, <2>2 DEF AutoSave, queue
<1>5. \A u \in Tasks : \A j \in batch'[u].gone : j \in batch[u].gone
  BY <1>1 DEF AutoSave, Shape, ScopeShape
<1>6. Buried'
  <2>1. \A u \in Tasks : \A j \in batch[u].gone :
            Dead(j)' /\ \A v \in Tasks : j \in target[v] => before[v][j] = 0
    BY <1>2 DEF Order, Buried, Shape, ScopeShape, Batches
  <2> QED
    BY <1>1, <1>4, <1>5, <2>1 DEF Buried, calls
<1>7. Patience' /\ (failed' # {} => error')
  BY <1>1 DEF calls, Order, Patience, Writing
<1> QED
  BY <1>2, <1>3, <1>6, <1>7 DEF Order

LEMMA ForgetOrder ==
    ASSUME Shape, Order, NEW t \in Tasks, NEW k \in Keys, Forget(t, k)
    PROVE  Order'
<1> DEFINE b == [dirty |-> {}, gone |-> {k}]
<1>1. /\ mem[k] # 0 /\ k \notin Locked /\ mem' = [mem EXCEPT ![k] = 0] /\ AutoSave(t, b)
      /\ UNCHANGED <<unborn, error, scope, calls>>
  BY DEF Forget, Exists
<1>2. /\ Dead(k)'
      /\ \A j \in Keys : j # k => mem'[j] = mem[j]
      /\ \A j \in Keys : Dead(j) => Dead(j)'
  BY <1>1 DEF Shape, StoreShape, StampsTo, Order, Born, Dead
<1>3. Born'
  BY <1>1, <1>2 DEF Order, Born, Dead
<1>4. Held'
  <2>1. \A u \in Tasks : \A j \in target'[u] : mem'[j] # 0 <=> mem[j] # 0
    BY <1>1, <1>2 DEF calls, Locked, Shape, CallShape
  <2>2. \A u \in Tasks : KeepsRole(u)
    BY <1>1 DEF calls, KeepsRole, Committing
  <2> QED
    BY <1>1, <2>1, <2>2, HeldKept DEF Order
<1>5. \A e \in active' \cup pending' : \A j \in e.gone : Dead(j)'
  <2>1. CASE SubmitDirty(Capture(mem', b))
    BY <1>2, <2>1, SubmitDirtyBuried, CaptureGone DEF Order
  <2>2. CASE UNCHANGED queue
    BY <1>2, <2>2 DEF queue, Order, Buried, Shape, QueueShape, DeltasTo
  <2> QED
    BY <1>1, <2>1, <2>2 DEF AutoSave, queue
<1>6. \A u \in Tasks : \A j \in batch'[u].gone : j \in batch[u].gone \/ j = k
  BY <1>1 DEF AutoSave, Shape, ScopeShape
<1>7. Buried'
  <2>1. \A u \in Tasks : \A j \in batch[u].gone :
            Dead(j)' /\ \A v \in Tasks : j \in target[v] => before[v][j] = 0
    BY <1>2 DEF Order, Buried, Shape, ScopeShape, Batches
  <2>2. \A v \in Tasks : k \notin target[v]
    BY <1>1 DEF Locked
  <2> QED
    BY <1>1, <1>2, <1>5, <1>6, <2>1, <2>2 DEF Buried, calls
<1>8. Patience' /\ (failed' # {} => error')
  BY <1>1 DEF calls, Order, Patience, Writing
<1> QED
  BY <1>3, <1>4, <1>7, <1>8 DEF Order

LEMMA CloseScopeOrder ==
    ASSUME Shape, Order, NEW t \in Tasks, CloseScope(t)
    PROVE  Order'
<1>1. UNCHANGED <<store, error, calls>> /\ batch' = [batch EXCEPT ![t] = EmptyBatch]
  BY DEF CloseScope
<1>2. Held' /\ Born'
  BY <1>1 DEF Order, Held, Born, store, calls, Committing
<1>3. \A e \in active' \cup pending' : \A j \in e.gone : Dead(j)'
  <2>1. \A j \in Keys : Dead(j) => Dead(j)'
    BY <1>1 DEF Dead, store
  <2>2. CASE SubmitDirty(Capture(mem, batch[t]))
    <3>1. \A j \in batch[t].gone : Dead(j)'
      BY <1>1 DEF Order, Buried, Dead, store
    <3> QED
      BY <2>1, <2>2, <3>1, SubmitDirtyBuried, CaptureGone DEF Order
  <2>3. CASE UNCHANGED queue
    BY <1>1, <2>3 DEF queue, Order, Buried, Dead, store
  <2> QED
    BY <2>2, <2>3 DEF CloseScope, queue
<1>4. Buried'
  <2>1. \A u \in Tasks : batch'[u].gone \subseteq batch[u].gone
    BY <1>1 DEF Shape, ScopeShape, EmptyBatch
  <2> QED
    BY <1>1, <1>3, <2>1 DEF Order, Buried, Dead, store, calls
<1>5. Patience' /\ (failed' # {} => error')
  BY <1>1 DEF calls, Order, Patience, Writing
<1> QED
  BY <1>2, <1>4, <1>5 DEF Order

LEMMA CommitOrder ==
    ASSUME Shape, Order, NEW t \in Tasks, NEW k \in Keys, Commit(t, k)
    PROVE  Order'
<1> DEFINE b == [dirty |-> {k}, gone |-> {}]
<1>1. /\ pc[t] = "free" /\ MayChange(k) /\ Change(k) /\ Enqueue(Capture(mem', b))
      /\ pc' = [pc EXCEPT ![t] = "committing"]
      /\ target' = [target EXCEPT ![t] = {k}]
      /\ before' = [before EXCEPT ![t] = [Nothing EXCEPT ![k] = mem[k]]]
      /\ awaiting' = [awaiting EXCEPT ![t] = {SlotOf}]
      /\ UNCHANGED <<error, batch, failed>>
  BY DEF Commit, Submit, SubmitAs, Goto, scopes
<1>2. /\ k \notin Locked /\ mem'[k] # 0
      /\ \A j \in Keys : j # k => mem'[j] = mem[j]
      /\ unborn' \subseteq unborn
      /\ \A j \in Keys : Dead(j) => Dead(j)'
      /\ Born'
  BY <1>1, ChangeOrder DEF Order
<1>3. /\ target'[t] = {k} /\ before'[t][k] = mem[k] /\ pc'[t] = "committing"
      /\ \A u \in Tasks \ {t} : target'[u] = target[u] /\ before'[u] = before[u] /\ pc'[u] = pc[u]
                                /\ awaiting'[u] = awaiting[u]
  BY <1>1 DEF Shape, CallShape, WaitShape, Nothing
<1>4. \A u \in Tasks : k \notin target[u]
  BY <1>2 DEF Locked
<1>5. k \notin unborn'
  BY <1>1 DEF Change
<1>6. Held'
  <2>1. \A u, v \in Tasks : u # v => target'[u] \cap target'[v] = {}
    BY <1>3, <1>4 DEF Order, Held
  <2>2. \A u \in Tasks \ {t} : \A j \in target'[u] :
            /\ Committing(u)' \/ pc'[u] = "deleting"
            /\ Committing(u)' <=> mem'[j] # 0
            /\ before'[u][j] # 0 => j \notin unborn'
    BY <1>2, <1>3, <1>4 DEF Order, Held, Committing, Shape, CallShape
  <2> QED
    BY <1>2, <1>3, <1>5, <2>1, <2>2 DEF Held, Committing
<1>7. \A e \in active' \cup pending' : \A j \in e.gone : Dead(j)'
  BY <1>1, <1>2, QueueBuried, CaptureGone DEF Order
<1>8. Buried'
  <2>1. \A u \in Tasks : \A j \in batch[u].gone : j \in Keys /\ Dead(j)
            /\ \A v \in Tasks : j \in target[v] => before[v][j] = 0
    BY DEF Order, Buried, Shape, ScopeShape, Batches
  <2>2. \A u \in Tasks : \A j \in batch[u].gone : \A v \in Tasks : j \in target'[v] => before'[v][j] = 0
    BY <1>3, <2>1 DEF Dead
  <2> QED
    BY <1>1, <1>2, <1>7, <2>1, <2>2 DEF Buried
<1>9. Patience'
  <2>1. awaiting'[t] = {SlotOf} /\ SlotOf \in {"active", "pending"}
    BY <1>1 DEF Shape, WaitShape, SlotOf
  <2> QED
    BY <1>3, <2>1 DEF Order, Patience, Writing
<1> QED
  BY <1>1, <1>2, <1>6, <1>8, <1>9 DEF Order

LEMMA SaveOrder ==
    ASSUME Shape, Order, NEW t \in Tasks, Save(t)
    PROVE  Order'
<1>1. UNCHANGED <<store, error, batch>> /\ pc[t] = "gated"
  BY DEF Save, scopes
<1>2. CASE Return(t) /\ UNCHANGED <<queue, awaiting>>
  <2>1. /\ \A u \in Tasks : KeepsRole(u)
        /\ \A u \in Tasks : Writing(u)' => Writing(u) /\ u # t
        /\ failed' \subseteq failed
    BY <1>2, ReturnRoles DEF Return
  <2>2. Patience'
    BY <1>2, <2>1 DEF Order, Patience
  <2> QED
    BY <1>1, <1>2, <2>1, <2>2, QuietOrder DEF store
<1>3. CASE /\ Enqueue(CaptureAll(mem))
           /\ Goto(t, "storing")
           /\ awaiting' = [awaiting EXCEPT ![t] = {SlotOf}]
           /\ UNCHANGED <<failed, target, before>>
  <2>1. /\ pc'[t] = "storing" /\ awaiting'[t] = {SlotOf} /\ SlotOf \in {"active", "pending"}
        /\ \A u \in Tasks \ {t} : pc'[u] = pc[u] /\ awaiting'[u] = awaiting[u]
    BY <1>3 DEF Goto, Shape, CallShape, WaitShape, SlotOf
  <2>2. target[t] = {}
    BY <1>1 DEF Order, Held, Committing
  <2>3. \A u \in Tasks : KeepsRole(u)
    BY <1>3, <2>1, <2>2 DEF KeepsRole, Committing
  <2>4. Held' /\ Born'
    BY <1>1, <2>3, HeldKept DEF Order, store, Born
  <2>5. \A e \in active' \cup pending' : \A j \in e.gone : Dead(j)'
    <3>1. \A j \in Keys : Dead(j) => Dead(j)'
      BY <1>1 DEF Dead, store
    <3> QED
      BY <1>3, <3>1, QueueBuried, CaptureGone DEF Order
  <2>6. Buried'
    BY <1>1, <1>3, <2>5 DEF Order, Buried, Dead, store
  <2>7. Patience'
    BY <2>1 DEF Order, Patience, Writing
  <2> QED
    BY <1>1, <1>3, <2>4, <2>6, <2>7 DEF Order
<1> QED
  BY <1>2, <1>3 DEF Save, SubmitAs

LEMMA DeleteOrder ==
    ASSUME Shape, Order, NEW t \in Tasks, Delete(t)
    PROVE  Order'
<1>1. UNCHANGED <<unborn, error, batch>> /\ pc[t] = "clearing" /\ awaiting[t] = {}
  BY DEF Delete, Flushed, scopes
<1>2. CASE Return(t) /\ UNCHANGED <<mem, queue, awaiting>>
  <2>1. /\ \A u \in Tasks : KeepsRole(u)
        /\ \A u \in Tasks : Writing(u)' => Writing(u) /\ u # t
        /\ failed' \subseteq failed
    BY <1>2, ReturnRoles DEF Return
  <2>2. Patience'
    BY <1>2, <2>1 DEF Order, Patience
  <2> QED
    BY <1>1, <1>2, <2>1, <2>2, QuietOrder
<1>3. ASSUME NEW a \in Identities, mem[a] # 0,
             {k \in Keys : Owner[k] = a} \cap Locked = {},
             mem' = Without(mem, {a}),
             SubmitDirty(Capture(mem', [dirty |-> {}, gone |-> {a}])),
             Goto(t, "deleting"),
             awaiting' = [awaiting EXCEPT ![t] = {SlotOf}],
             target' = [target EXCEPT ![t] = {k \in Keys : Owner[k] = a}],
             before' = [before EXCEPT ![t] =
                 [k \in Keys |-> IF k \in {j \in Keys : Owner[j] = a} THEN mem[k] ELSE 0]],
             UNCHANGED failed
      PROVE  Order'
  <2> DEFINE owned == {k \in Keys : Owner[k] = a}
  <2>1. a \in owned /\ \A k \in Keys : mem'[k] = IF k \in owned THEN 0 ELSE mem[k]
    BY <1>3 DEF Identities, Without
  <2>2. /\ target'[t] = owned /\ pc'[t] = "deleting"
        /\ \A k \in owned : before'[t][k] = mem[k]
        /\ \A u \in Tasks \ {t} : target'[u] = target[u] /\ before'[u] = before[u] /\ pc'[u] = pc[u]
                                  /\ awaiting'[u] = awaiting[u]
    BY <1>3 DEF Shape, CallShape, WaitShape, Goto
  <2>3. \A u \in Tasks : target[u] \subseteq Keys /\ target[u] \cap owned = {}
    BY <1>3 DEF Locked, Shape, CallShape
  <2> HIDE DEF owned
  <2>4. owned \subseteq Keys
    BY DEF owned
  <2>5. Born' /\ \A k \in Keys : Dead(k) => Dead(k)'
    BY <1>1, <2>1 DEF Order, Born, Dead
  <2>6. Dead(a)'
    BY <1>1, <1>3, <2>1, <2>4 DEF Order, Born, Dead
  <2>7. Held'
    <3>1. \A u, v \in Tasks : u # v => target'[u] \cap target'[v] = {}
      BY <2>2, <2>3 DEF Order, Held
    <3>2. \A u \in Tasks \ {t} : \A j \in target'[u] :
              /\ Committing(u)' \/ pc'[u] = "deleting"
              /\ Committing(u)' <=> mem'[j] # 0
              /\ before'[u][j] # 0 => j \notin unborn'
      BY <1>1, <2>1, <2>2, <2>3 DEF Order, Held, Committing
    <3>3. \A j \in owned : before'[t][j] # 0 => j \notin unborn'
      BY <1>1, <2>2, <2>4 DEF Order, Born
    <3>4. \A j \in owned : mem'[j] = 0
      BY <2>1, <2>4
    <3> QED
      BY <2>2, <3>1, <3>2, <3>3, <3>4 DEF Held, Committing
  <2>8. \A e \in active' \cup pending' : \A j \in e.gone : Dead(j)'
    BY <1>3, <2>5, <2>6, SubmitDirtyBuried, CaptureGone DEF Order
  <2>9. Buried'
    <3>1. \A u \in Tasks : \A j \in batch[u].gone : j \in Keys /\ Dead(j)
              /\ \A v \in Tasks : j \in target[v] => before[v][j] = 0
      BY DEF Order, Buried, Shape, ScopeShape, Batches
    <3>2. \A u \in Tasks : \A j \in batch[u].gone :
              \A v \in Tasks : j \in target'[v] => before'[v][j] = 0
      BY <2>2, <3>1 DEF Dead
    <3> QED
      BY <1>1, <2>5, <2>8, <3>1, <3>2 DEF Buried
  <2>10. Patience'
    BY <2>2 DEF Order, Patience, Writing
  <2> QED
    BY <1>1, <1>3, <2>5, <2>7, <2>9, <2>10 DEF Order
<1> QED
  BY <1>2, <1>3 DEF Delete

\* What a failed call puts back was there when the call began, and is not being
\* deleted: a failed commit's record still is there, and a failed deletion
\* finds the queue empty.
LEMMA FailOrder ==
    ASSUME Shape, Order, NEW t \in Tasks, CommitFails(t) \/ DeleteFails(t)
    PROVE  Order'
<1>1. /\ mem' = PutBack(t, mem) /\ Reset(t) /\ UNCHANGED <<unborn, error, queue, batch, awaiting>>
  BY DEF CommitFails, DeleteFails, Return, writer, scopes
<1>2. /\ \A u \in Tasks : KeepsRole(u)
      /\ \A u \in Tasks : Writing(u)' => Writing(u) /\ u # t
      /\ failed' \subseteq failed
  BY <1>1, ReturnRoles
<1>3. \A k \in Keys : mem'[k] = IF k \in target[t] THEN before[t][k] ELSE mem[k]
  BY <1>1 DEF PutBack
<1>4. Held'
  <2>1. target'[t] = {} /\ \A u \in Tasks \ {t} : target'[u] = target[u] /\ target[u] \subseteq Keys
    BY <1>1 DEF Reset, Shape, CallShape
  <2>2. \A u \in Tasks : \A k \in target'[u] : mem'[k] # 0 <=> mem[k] # 0
    BY <1>3, <2>1 DEF Order, Held
  <2> QED
    BY <1>1, <1>2, <2>2, HeldKept DEF Order
<1>5. Born'
  BY <1>1, <1>3 DEF Order, Held, Born
<1>6. Buried'
  <2>1. \A d \in active \cup pending : \A k \in d.gone : Dead(k)'
    <3>1. CASE CommitFails(t)
      BY <1>1, <1>3, <3>1 DEF CommitFails, Order, Buried, Held, Dead, Shape, QueueShape, DeltasTo
    <3>2. CASE DeleteFails(t)
      BY <3>2 DEF DeleteFails, Flushed, InUse
    <3> QED
      BY <3>1, <3>2
  <2>2. \A u \in Tasks : \A k \in batch[u].gone :
            Dead(k)' /\ \A v \in Tasks : k \in target'[v] => before'[v][k] = 0
    BY <1>1, <1>2, <1>3 DEF Order, Buried, Dead, Shape, ScopeShape, Batches, KeepsRole
  <2> QED
    BY <1>1, <2>1, <2>2 DEF Buried, queue
<1>7. Patience'
  BY <1>1, <1>2 DEF Order, Patience
<1> QED
  BY <1>1, <1>2, <1>4, <1>5, <1>6, <1>7 DEF Order

LEMMA WriterOrder ==
    ASSUME Shape, Order, WriteSucceeds \/ WriteFails
    PROVE  Order'
<1>1. /\ UNCHANGED <<mem, unborn, batch, pc, target, before>>
      /\ active' = pending /\ pending' = {}
      /\ awaiting' = [t \in Tasks |-> IF "pending" \in awaiting[t] THEN {"active"} ELSE {}]
  BY DEF WriteSucceeds, WriteFails, Promote, store, scopes
<1>2. Held' /\ Born' /\ Buried'
  BY <1>1 DEF Order, Held, Born, Buried, Committing, Dead
<1>3. Patience'
  BY <1>1 DEF Order, Patience, Writing
<1>4. failed' # {} => error'
  BY DEF WriteSucceeds, WriteFails, Order
<1> QED
  BY <1>2, <1>3, <1>4 DEF Order

\* Order is inductive: while a commit or a deletion waits, nobody else changes
\* its records, and no record comes back whose deletion is still to be written.
THEOREM OrderInvariant == Spec => []Order
<1>1. ASSUME Shape, Order, [Next]_vars PROVE Order'
  <2>1. CASE UNCHANGED vars
    BY <1>1, <2>1 DEF vars, store, writer, queue, scopes, calls, Order, Held, Born, Buried, Dead,
       Patience, Committing, Writing
  <2>2. CASE WriteSucceeds \/ WriteFails
    BY <1>1, <2>2, WriterOrder
  <2>3. ASSUME NEW t \in Tasks, Step(t) PROVE Order'
    BY <1>1, <2>3, UpdateOrder, ForgetOrder, CommitOrder, ScopeStepsOrder, CloseScopeOrder,
       CallStepsOrder, FailOrder, SaveOrder, DeleteOrder DEF Step, Proceed
  <2> QED
    BY <1>1, <2>1, <2>2, <2>3 DEF Next
<1> QED
  BY <1>1, InitOrder, ShapeInvariant, PTL DEF Spec

-----------------------------------------------------------------------------
(* What a delta does to the stamp v of the record k. *)

\* Writing the delta leaves at least v, if v is there or is nothing.
Keeps(d, k, v) ==
    /\ d.rows[k] # 0 => d.rows[k] >= v
    /\ {k, Owner[k]} \cap d.gone # {} => v = 0
    /\ d.full /\ d.rows[k] = 0 => v = 0

\* Writing the delta brings v.
Carries(d, k, v) == Keeps(d, k, v) /\ d.rows[k] >= v

AllKeep(slot, k, v) == \A d \in slot : d.bad \/ Keeps(d, k, v)
AllCarry(slot, k, v) == \A d \in slot : d.bad \/ Carries(d, k, v)

\* Once the writes in w have succeeded, and for as long as the queue lasts, the
\* database db has v or a later stamp.
Secured(db, act, pen, w, k, v) ==
    \/ w = {} /\ db[k] >= v /\ AllKeep(act, k, v) /\ AllKeep(pen, k, v)
    \/ w = {"active"} /\ AllCarry(act, k, v) /\ AllKeep(pen, k, v)
    \/ w = {"pending"} /\ AllCarry(pen, k, v)

\* Deltas as the operators see them, whatever the clock.
Delta(d) ==
    /\ d.rows \in [Keys -> Nat] /\ d.deps \in [Keys -> Nat]
    /\ d.full \in BOOLEAN /\ d.bad \in BOOLEAN

LEMMA DeltaOfShape == \A c \in Nat : \A d \in DeltasTo(c) : Delta(d)
<1> SUFFICES ASSUME NEW c \in Nat, NEW d \in DeltasTo(c) PROVE Delta(d)
  OBVIOUS
<1>1. 0..c \subseteq Nat
  OBVIOUS
<1>2. StampsTo(c) \subseteq [Keys -> Nat]
  BY <1>1 DEF StampsTo
<1> QED
  BY <1>2 DEF DeltasTo, Delta

LEMMA KeepsLess ==
    ASSUME NEW d, Delta(d), NEW k \in Keys, NEW v \in Nat, NEW u \in Nat, u <= v
    PROVE  /\ Keeps(d, k, v) => Keeps(d, k, u)
           /\ Carries(d, k, v) => Carries(d, k, u)
BY DEF Keeps, Carries, Delta

\* DatabaseStore.write of a delta that keeps, or carries, the stamp.
LEMMA ApplyKeeps ==
    ASSUME NEW db \in [Keys -> Nat], NEW d, Delta(d), NEW k \in Keys, NEW v \in Nat,
           \/ Keeps(d, k, v) /\ db[k] >= v
           \/ Carries(d, k, v)
    PROVE  Apply(db, d)[k] >= v
<1> DEFINE kept == Without(IF d.full THEN Nothing ELSE db, d.gone)
<1>1. kept[k] = IF {k, Owner[k]} \cap d.gone # {} \/ d.full THEN 0 ELSE db[k]
  BY DEF Without, Nothing
<1>2. Apply(db, d)[k] = IF d.rows[k] # 0 THEN d.rows[k]
                        ELSE IF kept[k] # 0 THEN kept[k] ELSE d.deps[k]
  BY DEF Apply, Override
<1> HIDE DEF kept
<1> QED
  BY <1>1, <1>2 DEF Keeps, Carries, Delta

\* _merge_snapshots loses nothing that either delta brings.
LEMMA MergeKeeps ==
    ASSUME NEW e, Delta(e), NEW l, Delta(l), ~Merge(e, l).bad,
           NEW k \in Keys, NEW v \in Nat, l.bad \/ Keeps(l, k, v)
    PROVE  /\ Delta(Merge(e, l)) /\ ~l.bad
           /\ e.bad \/ Keeps(e, k, v) => Keeps(Merge(e, l), k, v)
           /\ e.bad \/ Carries(e, k, v) => Carries(Merge(e, l), k, v)
<1>1. ~l.bad /\ ~e.bad
  BY DEF Merge
<1>2. CASE l.full
  <2>1. Merge(e, l) = l
    BY <1>1, <1>2 DEF Merge
  <2>2. l.rows[k] >= v
    BY <1>1, <1>2 DEF Keeps, Delta
  <2> QED
    BY <1>1, <2>1, <2>2 DEF Carries
<1>3. CASE ~l.full
  <2> DEFINE gone == e.gone \cup l.gone
             d == Merge(e, l)
  <2>1. /\ d.gone = gone /\ d.full = e.full /\ d.bad = FALSE
        /\ \A j \in Keys : d.rows[j] =
               IF {j, Owner[j]} \cap gone # {} THEN 0
               ELSE IF l.rows[j] # 0 THEN l.rows[j] ELSE e.rows[j]
    BY <1>1, <1>3 DEF Merge, Without, Override
  <2>2. d.rows \in [Keys -> Nat] /\ d.deps \in [Keys -> Nat]
    BY <1>1, <1>3 DEF Merge, Without, Override, Delta
  <2> HIDE DEF d
  <2>3. Delta(d)
    BY <2>1, <2>2 DEF Delta
  <2>4. ASSUME Keeps(e, k, v) PROVE Keeps(d, k, v)
    BY <1>1, <2>1, <2>4 DEF Keeps, Delta
  <2>5. ASSUME Carries(e, k, v) PROVE Carries(d, k, v)
    BY <1>1, <2>1, <2>2, <2>4, <2>5 DEF Keeps, Carries, Delta
  <2> QED
    BY <1>1, <2>3, <2>4, <2>5 DEF d
<1> QED
  BY <1>2, <1>3

LEMMA SecuredLess ==
    ASSUME Shape, NEW w, NEW k \in Keys, NEW v \in Nat, NEW u \in Nat, u <= v,
           Secured(durable, active, pending, w, k, v)
    PROVE  Secured(durable, active, pending, w, k, u)
<1>1. \A d \in active \cup pending : Delta(d)
  BY DeltaOfShape DEF Shape, QueueShape
<1>2. durable[k] \in Nat
  BY DEF Shape, StoreShape, StampsTo
<1>3. \A d \in active \cup pending : /\ Keeps(d, k, v) => Keeps(d, k, u)
                                     /\ Carries(d, k, v) => Carries(d, k, u)
  BY <1>1, KeepsLess
<1> QED
  BY <1>2, <1>3 DEF Secured, AllKeep, AllCarry

\* A delta that keeps v is queued behind what has secured v.
LEMMA EnqueueSecures ==
    ASSUME NEW c \in Nat, QueueShape(c), NEW d \in DeltasTo(c), Enqueue(d),
           NEW w \in SUBSET InUse, NEW k \in Keys, NEW v \in Nat, d.bad \/ Keeps(d, k, v),
           Secured(durable, active, pending, w, k, v)
    PROVE  Secured(durable, active', pending', w, k, v)
<1>1. \A e \in active \cup pending \cup {d} : Delta(e)
  BY DeltaOfShape DEF QueueShape
<1>2. CASE active = {}
  <2>1. pending = {} /\ active' = {d} /\ pending' = {} /\ w = {}
    BY <1>2 DEF Enqueue, QueueShape, InUse
  <2> QED
    BY <2>1 DEF Secured, AllKeep
<1>3. CASE active # {} /\ pending = {}
  <2>1. pending' = {d} /\ active' = active /\ "pending" \notin w
    BY <1>3 DEF Enqueue, InUse
  <2> QED
    BY <1>3, <2>1 DEF Secured, AllKeep, AllCarry
<1>4. CASE active # {} /\ pending # {}
  <2>1. PICK e \in pending : pending' = {Merge(e, d)} /\ active' = active
    BY <1>4 DEF Enqueue
  <2>2. /\ AllKeep(pending, k, v) => AllKeep(pending', k, v)
        /\ AllCarry(pending, k, v) => AllCarry(pending', k, v)
    BY <1>1, <2>1, MergeKeeps DEF AllKeep, AllCarry
  <2> QED
    BY <2>1, <2>2 DEF Secured
<1> QED
  BY <1>2, <1>3, <1>4

\* A delta that carries v has secured v once its slot is written, unless the
\* delta it is merged into deletes the record.
LEMMA EnqueueCarries ==
    ASSUME NEW c \in Nat, QueueShape(c), NEW d \in DeltasTo(c), Enqueue(d),
           NEW k \in Keys, NEW v \in Nat, Carries(d, k, v),
           \/ d.full
           \/ \A e \in pending : {k, Owner[k]} \cap (e.gone \cup d.gone) = {}
    PROVE  Secured(durable, active', pending', {SlotOf}, k, v)
<1>1. \A e \in active \cup pending \cup {d} : Delta(e)
  BY DeltaOfShape DEF QueueShape
<1>2. CASE active = {}
  <2>1. active' = {d} /\ pending' = {} /\ SlotOf = "active"
    BY <1>2 DEF Enqueue, QueueShape, SlotOf
  <2> QED
    BY <2>1 DEF Secured, AllKeep, AllCarry
<1>3. CASE active # {} /\ pending = {}
  <2>1. pending' = {d} /\ SlotOf = "pending"
    BY <1>3 DEF Enqueue, SlotOf
  <2> QED
    BY <2>1 DEF Secured, AllCarry
<1>4. CASE active # {} /\ pending # {}
  <2>1. PICK e \in pending : pending' = {Merge(e, d)} /\ SlotOf = "pending"
    BY <1>4 DEF Enqueue, SlotOf
  <2>2. CASE Merge(e, d).bad
    BY <2>1, <2>2 DEF Secured, AllCarry
  <2>3. CASE ~Merge(e, d).bad /\ d.full
    <3>1. Merge(e, d) = d
      BY <2>3 DEF Merge
    <3> QED
      BY <2>1, <3>1 DEF Secured, AllCarry
  <2>4. CASE ~Merge(e, d).bad /\ ~d.full
    <3> DEFINE m == Merge(e, d)
    <3>1. ~d.bad /\ ~e.bad
      BY <2>4 DEF Merge
    <3>2. /\ m.gone = e.gone \cup d.gone
          /\ m.rows[k] = IF {k, Owner[k]} \cap (e.gone \cup d.gone) # {} THEN 0
                         ELSE IF d.rows[k] # 0 THEN d.rows[k] ELSE e.rows[k]
          /\ m.full = e.full
      BY <2>4, <3>1 DEF Merge, Without, Override
    <3>3. {k, Owner[k]} \cap m.gone = {}
      BY <2>1, <2>4, <3>2
    <3>4. d.rows[k] \in Nat /\ e.rows[k] \in Nat
      BY <1>1, <2>1 DEF Delta
    <3> HIDE DEF m
    <3>5. m.rows[k] >= v /\ (m.rows[k] = 0 => v = 0)
      BY <3>2, <3>3, <3>4 DEF Carries
    <3>6. Carries(m, k, v)
      BY <3>3, <3>5 DEF Carries, Keeps
    <3> QED
      BY <2>1, <3>6 DEF Secured, AllCarry, m
  <2> QED
    BY <2>2, <2>3, <2>4
<1> QED
  BY <1>2, <1>3, <1>4

\* _finish_active: the write that has been waited for is over.
LEMMA WriteSecures ==
    ASSUME Shape, NEW w \in SUBSET Slots, NEW k \in Keys, NEW v \in Nat,
           Secured(durable, active, pending, w, k, v),
           \/ \E d \in active : ~d.bad /\ durable' = Apply(durable, d)
           \/ durable' = durable /\ "active" \notin w
    PROVE  Secured(durable', pending, {}, IF "pending" \in w THEN {"active"} ELSE {}, k, v)
<1>1. \A e \in active \cup pending : Delta(e)
  BY DeltaOfShape DEF Shape, QueueShape
<1>2. durable \in [Keys -> Nat]
  BY DEF Shape, StoreShape, StampsTo
<1>3. CASE w = {"pending"}
  BY <1>3 DEF Secured, AllCarry, AllKeep
<1>4. CASE w # {"pending"}
  <2>1. (w = {} \/ w = {"active"}) /\ AllKeep(pending, k, v)
    BY <1>4 DEF Secured
  <2>2. durable'[k] >= v
    <3>1. ASSUME NEW d \in active, ~d.bad, durable' = Apply(durable, d) PROVE durable'[k] >= v
      <4>1. (Keeps(d, k, v) /\ durable[k] >= v) \/ Carries(d, k, v)
        BY <1>4, <3>1 DEF Secured, AllKeep, AllCarry
      <4> QED
        BY <1>1, <1>2, <3>1, <4>1, ApplyKeeps
    <3>2. CASE durable' = durable /\ "active" \notin w
      BY <1>4, <2>1, <3>2 DEF Secured
    <3> QED
      BY <3>1, <3>2
  <2> QED
    BY <2>1, <2>2 DEF Secured, AllKeep
<1> QED
  BY <1>3, <1>4

-----------------------------------------------------------------------------
(* What has been, and will be, reported as durable. *)

\* The record k has the stamp v, or has it again if a deletion fails.
Standing(k, v) ==
    /\ v # 0
    /\ v = mem[k] \/ \E t \in Tasks : pc[t] = "deleting" /\ k \in target[t] /\ v = before[t][k]

\* Nothing later has been, or will be, reported.
Covers(k, v) == acked[k] <= v /\ \A t \in Tasks : promised[t][k] <= v

\* Nothing later is in the database or on its way.
AtMost(k, v) ==
    durable[k] <= v /\ \A d \in active \cup pending : d.rows[k] <= v /\ d.deps[k] <= v

\* No call reports more than the runtime state has.
Covered == \A k \in Keys, v \in Nat : Standing(k, v) => Covers(k, v)

\* A flush, which reports what is in the database, does not either.
Topped == ~error => \A k \in Keys, v \in Nat : Standing(k, v) => AtMost(k, v)

\* No delta on its way takes back what has been reported.
AckedSecured == \A k \in Keys : Secured(durable, active, pending, {}, k, acked[k])

\* What a commit or a save is about to report is written when it is told so.
Due(t) ==
    /\ Committing(t) => \A k \in target[t] :
           Secured(durable, active, pending, awaiting[t], k, mem[k])
    /\ pc[t] = "storing" => \A k \in Keys :
           Secured(durable, active, pending, awaiting[t], k, promised[t][k])

Promises ==
    Covered /\ Topped /\ AckedSecured /\ \A t \in Tasks \ failed : Due(t)

LEMMA InitPromises == Init => Promises
<1> SUFFICES ASSUME Init PROVE Promises
  OBVIOUS
<1>1. Shape
  BY InitShape
<1>2. /\ durable = mem /\ acked = mem /\ active = {} /\ pending = {}
      /\ \A k \in Keys : mem[k] \in Nat
      /\ \A t \in Tasks : pc[t] = "free" /\ \A k \in Keys : promised[t][k] = 0
  BY <1>1 DEF Init, Shape, StoreShape, StampsTo, Nothing
<1>3. \A k \in Keys, v \in Nat : Standing(k, v) => v = mem[k]
  BY <1>2 DEF Standing
<1>4. Covered /\ Topped
  BY <1>2, <1>3 DEF Covered, Covers, Topped, AtMost
<1>5. AckedSecured
  BY <1>2 DEF AckedSecured, Secured, AllKeep
<1>6. \A t \in Tasks : Due(t)
  BY <1>2 DEF Due, Committing
<1> QED
  BY <1>4, <1>5, <1>6 DEF Promises

\* The delta says what the runtime state m says, and deletes what is no more.
FromState(d, m) ==
    /\ \A k \in Keys : /\ d.rows[k] \in {0, m[k]} /\ d.deps[k] \in {0, m[k]}
                       /\ d.full => d.rows[k] = m[k]
    /\ d.full => d.gone = {}
    /\ \A k \in d.gone : m[k] = 0

LEMMA CaptureFrom ==
    ASSUME NEW m, NEW b, \A k \in b.gone : m[k] = 0
    PROVE  FromState(Capture(m, b), m)
BY DEF FromState, Capture, Nothing

LEMMA CaptureAllFrom == \A m : FromState(CaptureAll(m), m)
BY DEF FromState, CaptureAll, Nothing

LEMMA CaptureErrorFrom == \A m : FromState(CaptureError, m)
BY DEF FromState, CaptureError, Nothing

\* Stamps of the clock's future cover all that there is.
LEMMA LaterCovers ==
    ASSUME Shape, Promises, NEW k \in Keys, NEW v \in Nat, Standing(k, v) \/ v > clock
    PROVE  Covers(k, v) /\ (~error => AtMost(k, v))
<1>1. CASE Standing(k, v)
  BY <1>1 DEF Promises, Covered, Topped
<1>2. CASE v > clock
  <2>1. /\ clock \in Nat /\ acked[k] \in 0..clock /\ durable[k] \in 0..clock
        /\ \A t \in Tasks : promised[t][k] \in 0..clock
        /\ \A d \in active \cup pending : d.rows[k] \in 0..clock /\ d.deps[k] \in 0..clock
    BY DEF Shape, StoreShape, GhostShape, QueueShape, StampsTo, DeltasTo
  <2> QED
    BY <1>2, <2>1 DEF Covers, AtMost
<1> QED
  BY <1>1, <1>2

LEMMA KeptLess ==
    ASSUME NEW f \in [Keys -> Nat], NEW d, NEW k \in Keys
    PROVE  Kept(f, d)[k] \in Nat /\ Kept(f, d)[k] <= f[k]
BY DEF Kept, Without

\* What is still promised when a delta has been accepted is kept by it.
LEMMA KeptKeeps ==
    ASSUME NEW m \in [Keys -> Nat], NEW d, FromState(d, m),
           NEW f \in [Keys -> Nat], NEW k \in Keys, m[k] # 0 => f[k] <= m[k]
    PROVE  Keeps(d, k, Kept(f, d)[k])
<1>1. Kept(f, d)[k] \in Nat /\ Kept(f, d)[k] <= f[k]
  BY KeptLess
<1>2. d.rows[k] # 0 => d.rows[k] >= Kept(f, d)[k]
  BY <1>1 DEF FromState
<1>3. {k, Owner[k]} \cap d.gone # {} => Kept(f, d)[k] = 0
  BY DEF FromState, Kept, Without
<1>4. d.full /\ d.rows[k] = 0 => Kept(f, d)[k] = 0
  BY DEF Kept
<1> QED
  BY <1>2, <1>3, <1>4 DEF Keeps

\* What the runtime state has is never above a stamp that stands.
LEMMA StandingAbove ==
    ASSUME Shape, Order, NEW k \in Keys, NEW v \in Nat, Standing(k, v)
    PROVE  mem[k] <= v
<1>1. mem[k] \in Nat
  BY DEF Shape, StoreShape, StampsTo
<1>2. CASE \E t \in Tasks : pc[t] = "deleting" /\ k \in target[t]
  BY <1>1, <1>2 DEF Order, Held, Committing
<1> QED
  BY <1>1, <1>2 DEF Standing

LEMMA EnqueueAtMost ==
    ASSUME NEW c \in Nat, QueueShape(c), NEW d \in DeltasTo(c), Enqueue(d), durable' = durable,
           NEW k \in Keys, NEW v \in Nat, AtMost(k, v), d.rows[k] <= v, d.deps[k] <= v
    PROVE  AtMost(k, v)'
<1>1. CASE active = {}
  BY <1>1 DEF Enqueue, AtMost
<1>2. CASE active # {} /\ pending = {}
  BY <1>2 DEF Enqueue, AtMost
<1>3. CASE active # {} /\ pending # {}
  <2>1. PICK e \in pending : pending' = {Merge(e, d)} /\ active' = active
    BY <1>3 DEF Enqueue
  <2>2. /\ Merge(e, d).rows[k] \in {0, e.rows[k], d.rows[k]}
        /\ Merge(e, d).deps[k] \in {0, e.deps[k], d.deps[k]}
    <3>1. CASE Merge(e, d) = d \/ Merge(e, d) = e
      BY <3>1
    <3>2. CASE ~(d.bad \/ (d.full /\ ~e.bad) \/ e.bad)
      BY <3>2 DEF Merge, Without, Override
    <3> QED
      BY <3>1, <3>2 DEF Merge
  <2>3. Merge(e, d).rows[k] <= v /\ Merge(e, d).deps[k] <= v
    BY <2>1, <2>2 DEF AtMost
  <2> QED
    BY <2>1, <2>3 DEF AtMost
<1> QED
  BY <1>1, <1>2, <1>3

\* The stamps that stand after the step stood before it, or are new.
StandingGrows == \A k \in Keys, v \in Nat : Standing(k, v)' => Standing(k, v) \/ v > clock

LEMMA StateCovers ==
    ASSUME Shape, Promises, Shape', StandingGrows, NEW k \in Keys, mem'[k] # 0
    PROVE  acked[k] <= mem'[k] /\ \A t \in Tasks : promised[t][k] <= mem'[k]
<1>1. PICK v \in Nat : v = mem'[k]
  <2>1. clock' \in Nat /\ mem'[k] \in 0..clock'
    BY DEF Shape, StoreShape, StampsTo
  <2> QED
    BY <2>1
<1>2. Standing(k, v)'
  BY <1>1 DEF Standing
<1>3. Covers(k, v)
  BY <1>2, LaterCovers DEF StandingGrows
<1> QED
  BY <1>1, <1>3 DEF Covers

\* What is accepted keeps the first three parts of the invariant, whoever
\* submits it; said is what the saves promise, the submitting one included.
LEMMA SubmitPromises ==
    ASSUME Shape, Order, Promises, Shape', Order', QueueShape(clock'),
           NEW d \in DeltasTo(clock'), FromState(d, mem'),
           NEW said \in [Tasks -> [Keys -> Nat]], SubmitAs(d, said),
           durable' = durable, error' = error, StandingGrows,
           \A t \in Tasks, k \in Keys : said[t][k] <= promised[t][k] \/ said[t][k] <= mem'[k]
    PROVE  Covered' /\ Topped' /\ AckedSecured'
<1>1. /\ Enqueue(d) /\ acked' = Kept(acked, d)
      /\ promised' = [t \in Tasks |-> Kept(said[t], d)]
  BY DEF SubmitAs
<1>2. /\ clock' \in Nat /\ mem' \in [Keys -> Nat] /\ acked \in [Keys -> Nat]
      /\ promised \in [Tasks -> [Keys -> Nat]]
      /\ acked' \in [Keys -> Nat] /\ promised' \in [Tasks -> [Keys -> Nat]]
  <2>1. clock \in Nat /\ clock' \in Nat
    BY DEF Shape
  <2>2. StampsTo(clock) \subseteq [Keys -> Nat] /\ StampsTo(clock') \subseteq [Keys -> Nat]
    BY <2>1 DEF StampsTo
  <2> QED
    BY <2>1, <2>2 DEF Shape, StoreShape, GhostShape
<1>3. Covered'
  <2> SUFFICES ASSUME NEW k \in Keys, NEW v \in Nat, Standing(k, v)'
               PROVE  acked'[k] <= v /\ \A t \in Tasks : promised'[t][k] <= v
    BY DEF Covered, Covers
  <2>1. Covers(k, v)
    BY LaterCovers DEF StandingGrows
  <2>2. mem'[k] <= v
    <3>1. mem'[k] \in Nat
      BY <1>2
    <3>2. CASE \E t \in Tasks : pc'[t] = "deleting" /\ k \in target'[t]
      BY <3>1, <3>2 DEF Order, Held, Committing
    <3> QED
      BY <3>1, <3>2 DEF Standing
  <2>3. Kept(acked, d)[k] <= v
    <3>1. Kept(acked, d)[k] \in Nat /\ Kept(acked, d)[k] <= acked[k] /\ acked[k] <= v
      BY <1>2, <2>1, KeptLess DEF Covers
    <3> QED
      BY <3>1, <1>2
  <2>4. ASSUME NEW t \in Tasks PROVE promised'[t][k] <= v
    <3>1. Kept(said[t], d)[k] \in Nat /\ Kept(said[t], d)[k] <= said[t][k]
      BY KeptLess
    <3>2. said[t][k] \in Nat /\ promised[t][k] \in Nat /\ mem'[k] \in Nat
      BY <1>2
    <3>3. promised[t][k] <= v
      BY <2>1 DEF Covers
    <3>4. said[t][k] <= v
      BY <2>2, <3>2, <3>3
    <3> QED
      BY <1>1, <3>1, <3>2, <3>4
  <2> QED
    BY <1>1, <2>3, <2>4
<1>4. Topped'
  <2> SUFFICES ASSUME ~error, NEW k \in Keys, NEW v \in Nat, Standing(k, v)'
               PROVE  AtMost(k, v)'
    BY DEF Topped
  <2>1. AtMost(k, v)
    BY LaterCovers DEF StandingGrows
  <2>2. mem'[k] <= v /\ mem'[k] \in Nat
    <3>1. mem'[k] \in Nat
      BY <1>2
    <3>2. CASE \E t \in Tasks : pc'[t] = "deleting" /\ k \in target'[t]
      BY <3>1, <3>2 DEF Order, Held, Committing
    <3> QED
      BY <3>1, <3>2 DEF Standing
  <2>3. d.rows[k] <= v /\ d.deps[k] <= v
    BY <2>2 DEF FromState
  <2> QED
    BY <1>1, <1>2, <2>1, <2>3, EnqueueAtMost
<1>5. AckedSecured'
  <2> SUFFICES ASSUME NEW k \in Keys
               PROVE  Secured(durable, active', pending', {}, k, acked'[k])
    BY DEF AckedSecured
  <2>1. Secured(durable, active, pending, {}, k, acked[k])
    BY DEF Promises, AckedSecured
  <2>2. acked'[k] \in Nat /\ acked[k] \in Nat /\ acked'[k] <= acked[k]
    BY <1>1, <1>2, KeptLess
  <2>3. Secured(durable, active, pending, {}, k, acked'[k])
    BY <2>1, <2>2, SecuredLess
  <2>4. mem'[k] # 0 => acked[k] <= mem'[k]
    BY StateCovers
  <2>5. Keeps(d, k, acked'[k])
    BY <1>1, <1>2, <2>4, KeptKeeps
  <2> QED
    BY <1>1, <1>2, <2>2, <2>3, <2>5, EnqueueSecures
<1> QED
  BY <1>3, <1>4, <1>5

\* A call that waits while others submit is still told the truth.
LEMMA SubmitDue ==
    ASSUME Shape, Order, Promises, Shape', Order', Ref(mem'), QueueShape(clock'),
           NEW d \in DeltasTo(clock'), FromState(d, mem'),
           NEW said \in [Tasks -> [Keys -> Nat]], SubmitAs(d, said),
           durable' = durable, StandingGrows,
           NEW t \in Tasks \ failed, said[t] = promised[t],
           pc'[t] = pc[t], target'[t] = target[t], awaiting'[t] = awaiting[t],
           \A k \in target[t] : mem'[k] = mem[k]
    PROVE  Due(t)'
<1>1. /\ Enqueue(d) /\ promised'[t] = Kept(promised[t], d)
  BY DEF SubmitAs
<1>2. /\ clock' \in Nat /\ mem' \in [Keys -> Nat] /\ promised[t] \in [Keys -> Nat]
      /\ target[t] \subseteq Keys /\ awaiting[t] \subseteq InUse
  <2>1. clock \in Nat /\ clock' \in Nat
    BY DEF Shape
  <2>2. StampsTo(clock) \subseteq [Keys -> Nat] /\ StampsTo(clock') \subseteq [Keys -> Nat]
    BY <2>1 DEF StampsTo
  <2> QED
    BY <2>1, <2>2 DEF Shape, StoreShape, GhostShape, CallShape, WaitShape
<1>3. Due(t)
  BY DEF Promises
<1>4. ASSUME Committing(t), NEW k \in target[t]
      PROVE  Secured(durable, active', pending', awaiting[t], k, mem'[k])
  <2>1. k \in Keys /\ mem'[k] \in Nat /\ mem'[k] # 0 /\ Owner[k] \in Keys
    BY <1>2, <1>4, OwnerOfOwner DEF Order, Held
  <2>2. mem'[Owner[k]] # 0
    BY <2>1 DEF Ref
  <2>3. Keeps(d, k, mem'[k])
    BY <2>1, <2>2 DEF FromState, Keeps
  <2>4. Secured(durable, active, pending, awaiting[t], k, mem'[k])
    BY <1>3, <1>4 DEF Due
  <2> QED
    BY <1>1, <1>2, <2>1, <2>3, <2>4, EnqueueSecures
<1>5. ASSUME pc[t] = "storing", NEW k \in Keys
      PROVE  Secured(durable, active', pending', awaiting[t], k, promised'[t][k])
  <2>1. mem'[k] # 0 => promised[t][k] <= mem'[k]
    BY StateCovers
  <2>2. Keeps(d, k, promised'[t][k])
    BY <1>1, <1>2, <2>1, KeptKeeps
  <2>3. promised'[t][k] \in Nat /\ promised[t][k] \in Nat /\ promised'[t][k] <= promised[t][k]
    BY <1>1, <1>2, KeptLess
  <2>4. Secured(durable, active, pending, awaiting[t], k, promised'[t][k])
    BY <1>3, <1>5, <2>3, SecuredLess DEF Due
  <2> QED
    BY <1>1, <1>2, <2>2, <2>3, <2>4, EnqueueSecures
<1>6. Committing(t)' <=> Committing(t)
  BY DEF Committing
<1> QED
  BY <1>4, <1>5, <1>6 DEF Due

\* A call that still waits as it did, for the same records.
SameCall(t) ==
    /\ Committing(t)' <=> Committing(t)
    /\ pc'[t] = "storing" <=> pc[t] = "storing"
    /\ target'[t] = target[t] /\ awaiting'[t] = awaiting[t]
    /\ \A k \in target[t] : mem'[k] = mem[k]

\* Steps that queue nothing; what is reported anew has been secured.
LEMMA QuietPromises ==
    ASSUME Shape, Promises, Shape', UNCHANGED <<durable, queue, error>>, StandingGrows,
           \A k \in Keys : \/ acked'[k] <= acked[k]
                           \/ /\ Secured(durable, active, pending, {}, k, acked'[k])
                              /\ \A v \in Nat : Standing(k, v)' => acked'[k] <= v,
           \A t \in Tasks, k \in Keys : promised'[t][k] <= promised[t][k],
           \A t \in Tasks \ failed' : Writing(t)' => t \notin failed /\ SameCall(t)
    PROVE  Promises'
<1>1. /\ acked \in [Keys -> Nat] /\ promised \in [Tasks -> [Keys -> Nat]]
      /\ acked' \in [Keys -> Nat] /\ promised' \in [Tasks -> [Keys -> Nat]]
  <2>1. clock \in Nat /\ clock' \in Nat
    BY DEF Shape
  <2>2. StampsTo(clock) \subseteq [Keys -> Nat] /\ StampsTo(clock') \subseteq [Keys -> Nat]
    BY <2>1 DEF StampsTo
  <2> QED
    BY <2>1, <2>2 DEF Shape, GhostShape
<1>2. Covered'
  <2> SUFFICES ASSUME NEW k \in Keys, NEW v \in Nat, Standing(k, v)'
               PROVE  acked'[k] <= v /\ \A t \in Tasks : promised'[t][k] <= v
    BY DEF Covered, Covers
  <2>1. Covers(k, v)
    BY LaterCovers DEF StandingGrows
  <2>2. acked'[k] <= v
    BY <1>1, <2>1 DEF Covers
  <2>3. ASSUME NEW t \in Tasks PROVE promised'[t][k] <= v
    <3>1. promised'[t][k] \in Nat /\ promised[t][k] \in Nat
      BY <1>1
    <3> QED
      BY <2>1, <3>1 DEF Covers
  <2> QED
    BY <2>2, <2>3
<1>3. Topped'
  BY LaterCovers DEF StandingGrows, Topped, AtMost, queue
<1>4. AckedSecured'
  <2> SUFFICES ASSUME NEW k \in Keys PROVE Secured(durable, active, pending, {}, k, acked'[k])
    BY DEF AckedSecured, queue
  <2>1. acked'[k] \in Nat /\ acked[k] \in Nat
    BY <1>1
  <2> QED
    BY <2>1, SecuredLess DEF Promises, AckedSecured
<1>5. ASSUME NEW t \in Tasks \ failed' PROVE Due(t)'
  <2>1. CASE ~Writing(t)'
    BY <2>1 DEF Due, Writing, Committing
  <2>2. CASE Writing(t)'
    <3>1. Due(t) /\ SameCall(t)
      BY <2>2 DEF Promises
    <3>2. Committing(t)' => \A k \in target'[t] :
              Secured(durable, active, pending, awaiting'[t], k, mem'[k])
      BY <3>1 DEF Due, SameCall
    <3>3. ASSUME pc'[t] = "storing", NEW k \in Keys
          PROVE  Secured(durable, active, pending, awaiting'[t], k, promised'[t][k])
      <4>1. Secured(durable, active, pending, awaiting[t], k, promised[t][k])
        BY <3>1, <3>3 DEF Due, SameCall
      <4>2. promised'[t][k] \in Nat /\ promised[t][k] \in Nat
        BY <1>1
      <4> QED
        BY <3>1, <4>1, <4>2, SecuredLess DEF SameCall
    <3> QED
      BY <3>2, <3>3 DEF Due, queue
  <2> QED
    BY <2>1, <2>2
<1> QED
  BY <1>2, <1>3, <1>4, <1>5 DEF Promises

\* A free task, or one that closes a scope, submits a delta or nothing.
LEMMA AutoSavePromises ==
    ASSUME Shape, Order, Promises, Shape', Order', Ref(mem'), QueueShape(clock'),
           NEW d \in DeltasTo(clock'), FromState(d, mem'),
           SubmitDirty(d) \/ UNCHANGED <<queue, acked, promised>>,
           UNCHANGED <<durable, error, calls>>, StandingGrows,
           \A t \in Tasks : \A k \in target[t] : mem'[k] = mem[k]
    PROVE  Promises'
<1>1. clock \in Nat /\ clock' \in Nat /\ promised \in [Tasks -> [Keys -> Nat]]
  <2>1. clock \in Nat /\ clock' \in Nat
    BY DEF Shape
  <2>2. StampsTo(clock) \subseteq [Keys -> Nat]
    BY <2>1 DEF StampsTo
  <2> QED
    BY <2>1, <2>2 DEF Shape, GhostShape
<1>2. CASE SubmitDirty(d)
  <2>1. PICK e \in {d, CaptureError} : SubmitAs(e, promised)
    BY <1>2 DEF SubmitDirty, Submit
  <2>2. e \in DeltasTo(clock') /\ FromState(e, mem')
    BY <1>1, <2>1, CaptureErrorShape, CaptureErrorFrom
  <2>3. \A t \in Tasks, k \in Keys : promised[t][k] <= promised[t][k]
    BY <1>1
  <2>4. Covered' /\ Topped' /\ AckedSecured'
    BY <1>1, <2>1, <2>2, <2>3, SubmitPromises
  <2>5. \A t \in Tasks \ failed : Due(t)'
    BY <1>1, <2>1, <2>2, SubmitDue DEF calls
  <2> QED
    BY <2>4, <2>5 DEF Promises, calls
<1>3. CASE UNCHANGED <<queue, acked, promised>>
  <2>1. \A t \in Tasks \ failed' : t \notin failed /\ SameCall(t)
    BY DEF calls, SameCall, Committing
  <2>2. \A k \in Keys : acked'[k] <= acked[k]
    BY <1>1, <1>3 DEF Shape, GhostShape, StampsTo
  <2>3. \A t \in Tasks, k \in Keys : promised'[t][k] <= promised[t][k]
    BY <1>1, <1>3
  <2> QED
    BY <1>3, <2>1, <2>2, <2>3, QuietPromises
<1> QED
  BY <1>2, <1>3

LEMMA UpdatePromises ==
    ASSUME Shape, Order, Promises, Shape', Order', Ref(mem'),
           NEW t \in Tasks, NEW k \in Keys, Update(t, k)
    PROVE  Promises'
<1> DEFINE b == [dirty |-> {k}, gone |-> {}]
<1>1. /\ MayChange(k) /\ Change(k) /\ AutoSave(t, b)
      /\ UNCHANGED <<durable, error, calls>>
  BY DEF Update, Change
<1>2. clock' = clock + 1 /\ clock \in Nat /\ clock' \in Nat /\ QueueShape(clock')
      /\ mem' \in StampsTo(clock')
  BY <1>1, ChangeShape DEF Shape, StoreShape
<1>3. k \notin Locked /\ \A j \in Keys : j # k => mem'[j] = mem[j]
  BY <1>1, ChangeOrder DEF Order
<1>4. mem'[k] = clock + 1
  BY <1>1 DEF Shape, StoreShape, StampsTo, Change
<1>5. StandingGrows
  BY <1>1, <1>2, <1>3, <1>4 DEF StandingGrows, Standing, calls
<1>6. \A u \in Tasks : \A j \in target[u] : mem'[j] = mem[j]
  BY <1>3 DEF Locked, Shape, CallShape
<1>7. Capture(mem', b) \in DeltasTo(clock') /\ FromState(Capture(mem', b), mem')
  BY <1>2, CaptureShape, CaptureFrom DEF Batches
<1>8. SubmitDirty(Capture(mem', b)) \/ UNCHANGED <<queue, acked, promised>>
  BY <1>1 DEF AutoSave, ghosts
<1> QED
  BY <1>1, <1>2, <1>5, <1>6, <1>7, <1>8, AutoSavePromises

LEMMA ForgetPromises ==
    ASSUME Shape, Order, Promises, Shape', Order', Ref(mem'),
           NEW t \in Tasks, NEW k \in Keys, Forget(t, k)
    PROVE  Promises'
<1> DEFINE b == [dirty |-> {}, gone |-> {k}]
<1>1. /\ k \notin Locked /\ mem' = [mem EXCEPT ![k] = 0] /\ AutoSave(t, b)
      /\ UNCHANGED <<durable, clock, error, calls>>
  BY DEF Forget
<1>2. clock \in Nat /\ QueueShape(clock') /\ mem' \in StampsTo(clock')
  BY <1>1 DEF Shape, StoreShape
<1>3. mem'[k] = 0 /\ \A j \in Keys : j # k => mem'[j] = mem[j]
  BY <1>1 DEF Shape, StoreShape, StampsTo
<1>5. StandingGrows
  BY <1>1, <1>3 DEF StandingGrows, Standing, calls
<1>6. \A u \in Tasks : \A j \in target[u] : mem'[j] = mem[j]
  BY <1>1, <1>3 DEF Locked, Shape, CallShape
<1>7. Capture(mem', b) \in DeltasTo(clock') /\ FromState(Capture(mem', b), mem')
  BY <1>1, <1>2, <1>3, CaptureShape, CaptureFrom DEF Batches
<1>8. SubmitDirty(Capture(mem', b)) \/ UNCHANGED <<queue, acked, promised>>
  BY <1>1 DEF AutoSave, ghosts
<1> QED
  BY <1>1, <1>2, <1>5, <1>6, <1>7, <1>8, AutoSavePromises

LEMMA CloseScopePromises ==
    ASSUME Shape, Order, Promises, Shape', Order', Ref(mem'), NEW t \in Tasks, CloseScope(t)
    PROVE  Promises'
<1>1. UNCHANGED <<store, error, calls>>
  BY DEF CloseScope
<1>2. clock \in Nat /\ QueueShape(clock') /\ mem \in StampsTo(clock') /\ batch[t] \in Batches
  BY <1>1 DEF Shape, StoreShape, ScopeShape, store
<1>3. StandingGrows
  BY <1>1 DEF StandingGrows, Standing, calls, store
<1>4. Capture(mem, batch[t]) \in DeltasTo(clock') /\ FromState(Capture(mem, batch[t]), mem)
  <2>1. \A k \in batch[t].gone : mem[k] = 0
    BY DEF Order, Buried, Dead
  <2> QED
    BY <1>1, <1>2, <2>1, CaptureShape, CaptureFrom DEF store
<1>5. SubmitDirty(Capture(mem, batch[t])) \/ UNCHANGED <<queue, acked, promised>>
  BY DEF CloseScope, ghosts
<1>6. mem' = mem /\ durable' = durable
  BY <1>1 DEF store
<1> QED
  BY <1>1, <1>2, <1>3, <1>4, <1>5, <1>6, AutoSavePromises

LEMMA CommitPromises ==
    ASSUME Shape, Order, Promises, Shape', Order', Ref(mem'),
           NEW t \in Tasks, NEW k \in Keys, Commit(t, k)
    PROVE  Promises'
<1> DEFINE d == Capture(mem', [dirty |-> {k}, gone |-> {}])
<1>1. /\ pc[t] = "free" /\ MayChange(k) /\ Change(k) /\ SubmitAs(d, promised)
      /\ pc' = [pc EXCEPT ![t] = "committing"]
      /\ target' = [target EXCEPT ![t] = {k}]
      /\ before' = [before EXCEPT ![t] = [Nothing EXCEPT ![k] = mem[k]]]
      /\ awaiting' = [awaiting EXCEPT ![t] = {SlotOf}]
      /\ UNCHANGED <<durable, error, failed>>
  BY DEF Commit, Change, Submit, Goto
<1>2. /\ clock' = clock + 1 /\ clock \in Nat /\ clock' \in Nat /\ QueueShape(clock')
      /\ mem' \in StampsTo(clock') /\ promised \in [Tasks -> [Keys -> Nat]]
  <2>1. clock' = clock + 1 /\ clock \in Nat /\ clock' \in Nat /\ QueueShape(clock')
        /\ mem' \in StampsTo(clock')
    BY <1>1, ChangeShape DEF Shape, StoreShape
  <2>2. StampsTo(clock) \subseteq [Keys -> Nat]
    BY <2>1 DEF StampsTo
  <2> QED
    BY <2>1, <2>2 DEF Shape, GhostShape
<1>3. k \notin Locked /\ mem'[k] = clock + 1 /\ \A j \in Keys : j # k => mem'[j] = mem[j]
  BY <1>1 DEF Shape, StoreShape, StampsTo, Change, MayChange
<1>4. /\ target'[t] = {k} /\ pc'[t] = "committing" /\ awaiting'[t] = {SlotOf}
      /\ \A u \in Tasks \ {t} : target'[u] = target[u] /\ before'[u] = before[u] /\ pc'[u] = pc[u]
                                /\ awaiting'[u] = awaiting[u]
  BY <1>1 DEF Shape, CallShape, WaitShape
<1>5. StandingGrows
  BY <1>2, <1>3, <1>4 DEF StandingGrows, Standing
<1>6. d \in DeltasTo(clock') /\ FromState(d, mem') /\ d.rows[k] = mem'[k] /\ d.gone = {} /\ ~d.full
  <2>1. d \in DeltasTo(clock') /\ FromState(d, mem')
    BY <1>2, CaptureShape, CaptureFrom DEF Batches
  <2>2. d.rows[k] = mem'[k] /\ d.gone = {} /\ ~d.full
    BY DEF Capture
  <2> QED
    BY <2>1, <2>2
<1> HIDE DEF d
<1>7. \A u \in Tasks, j \in Keys : promised[u][j] <= promised[u][j]
  BY <1>2
<1>8. Covered' /\ Topped' /\ AckedSecured'
  BY <1>1, <1>2, <1>5, <1>6, <1>7, SubmitPromises
<1>9. ASSUME NEW u \in Tasks \ failed, u # t PROVE Due(u)'
  <2>1. \A j \in target[u] : mem'[j] = mem[j]
    BY <1>3 DEF Locked, Shape, CallShape
  <2> QED
    BY <1>1, <1>2, <1>4, <1>5, <1>6, <1>9, <2>1, SubmitDue
<1>10. Due(t)'
  <2>1. mem'[k] \in Nat /\ mem'[k] # 0
    BY <1>2, <1>3
  <2>2. Carries(d, k, mem'[k])
    BY <1>6, <2>1 DEF Carries, Keeps
  <2>3. \A e \in pending : {k, Owner[k]} \cap (e.gone \cup d.gone) = {}
    <3>1. mem[k] # 0 \/ k \in unborn
      BY <1>1 DEF MayChange, Exists, MayCreate
    <3>2. Owner[k] = k \/ mem[Owner[k]] # 0
      BY <1>1 DEF MayChange, Exists, MayCreate
    <3>3. \A e \in pending : k \notin e.gone /\ Owner[k] \notin e.gone
      BY <3>1, <3>2 DEF Order, Buried, Dead
    <3> QED
      BY <1>6, <3>3
  <2>4. Secured(durable, active', pending', {SlotOf}, k, mem'[k])
    BY <1>1, <1>2, <1>6, <2>1, <2>2, <2>3, EnqueueCarries DEF SubmitAs
  <2> QED
    BY <1>1, <1>4, <2>4 DEF Due
<1> QED
  BY <1>1, <1>8, <1>9, <1>10 DEF Promises

LEMMA SavePromises ==
    ASSUME Shape, Order, Promises, Shape', Order', Ref(mem'), NEW t \in Tasks, Save(t)
    PROVE  Promises'
<1>1. UNCHANGED <<store, error>> /\ pc[t] = "gated"
  BY DEF Save
<1>2. /\ clock \in Nat /\ clock' = clock /\ mem' = mem /\ durable' = durable
      /\ QueueShape(clock') /\ mem \in StampsTo(clock)
      /\ mem \in [Keys -> Nat] /\ promised \in [Tasks -> [Keys -> Nat]]
  <2>1. clock \in Nat
    BY DEF Shape
  <2>2. StampsTo(clock) \subseteq [Keys -> Nat]
    BY <2>1 DEF StampsTo
  <2> QED
    BY <1>1, <2>1, <2>2 DEF Shape, StoreShape, GhostShape, store
<1>3. CASE Return(t) /\ UNCHANGED <<queue, awaiting, acked>>
  <2>1. /\ \A u \in Tasks \ {t} : target'[u] = target[u] /\ before'[u] = before[u] /\ pc'[u] = pc[u]
        /\ target'[t] = {} /\ pc'[t] = "free" /\ failed' = failed \ {t}
        /\ promised' = [promised EXCEPT ![t] = Nothing]
    BY <1>3 DEF Return, Reset, Goto, Shape, CallShape
  <2>2. StandingGrows
    BY <1>2, <2>1 DEF StandingGrows, Standing
  <2>3. \A j \in Keys : acked'[j] <= acked[j]
    BY <1>3 DEF Shape, GhostShape, StampsTo
  <2>4. \A u \in Tasks, j \in Keys : promised'[u][j] <= promised[u][j]
    BY <1>2, <2>1 DEF Nothing
  <2>5. \A u \in Tasks \ failed' : Writing(u)' => u \notin failed /\ SameCall(u)
    BY <1>2, <1>3, <2>1 DEF Writing, SameCall, Committing
  <2> QED
    BY <1>1, <1>2, <1>3, <2>2, <2>3, <2>4, <2>5, QuietPromises
<1>4. CASE /\ SubmitAs(CaptureAll(mem), [promised EXCEPT ![t] = mem])
           /\ Goto(t, "storing")
           /\ awaiting' = [awaiting EXCEPT ![t] = {SlotOf}]
           /\ UNCHANGED <<failed, target, before>>
  <2> DEFINE d == CaptureAll(mem)
             said == [promised EXCEPT ![t] = mem]
  <2>1. /\ pc'[t] = "storing" /\ awaiting'[t] = {SlotOf}
        /\ \A u \in Tasks \ {t} : pc'[u] = pc[u] /\ awaiting'[u] = awaiting[u]
    BY <1>4 DEF Goto, Shape, CallShape, WaitShape
  <2>2. d \in DeltasTo(clock') /\ FromState(d, mem') /\ d.rows = mem /\ d.full /\ d.gone = {}
    BY <1>2, CaptureAllShape, CaptureAllFrom DEF CaptureAll
  <2>3. said \in [Tasks -> [Keys -> Nat]] /\ said[t] = mem /\ \A u \in Tasks \ {t} : said[u] = promised[u]
    BY <1>2
  <2>4. SubmitAs(d, said)
    BY <1>4
  <2> HIDE DEF d, said
  <2>5. StandingGrows
    BY <1>2, <1>4, <2>1 DEF StandingGrows, Standing
  <2>6. \A u \in Tasks, j \in Keys : said[u][j] <= promised[u][j] \/ said[u][j] <= mem'[j]
    BY <1>2, <2>3
  <2>7. Covered' /\ Topped' /\ AckedSecured'
    BY <1>1, <1>2, <2>2, <2>3, <2>4, <2>5, <2>6, SubmitPromises
  <2>8. ASSUME NEW u \in Tasks \ failed, u # t PROVE Due(u)'
    BY <1>2, <1>4, <2>1, <2>2, <2>3, <2>4, <2>5, <2>8, SubmitDue
  <2>9. Due(t)'
    <3>1. ~Committing(t)'
      BY <2>1 DEF Committing
    <3>2. ASSUME NEW k \in Keys
          PROVE  Secured(durable, active', pending', {SlotOf}, k, promised'[t][k])
      <4>1. promised'[t][k] = mem[k]
        BY <1>2, <2>2, <2>3, <2>4 DEF SubmitAs, Kept
      <4>2. Carries(d, k, mem[k])
        BY <1>2, <2>2 DEF Carries, Keeps
      <4>3. mem[k] \in Nat /\ Enqueue(d)
        BY <1>2, <2>4 DEF SubmitAs
      <4> QED
        BY <1>2, <2>2, <4>1, <4>2, <4>3, EnqueueCarries
    <3> QED
      BY <1>2, <2>1, <3>1, <3>2 DEF Due
  <2> QED
    BY <1>4, <2>7, <2>8, <2>9 DEF Promises
<1> QED
  BY <1>3, <1>4 DEF Save

LEMMA DeletePromises ==
    ASSUME Shape, Order, Promises, Shape', Order', Ref(mem'), NEW t \in Tasks, Delete(t)
    PROVE  Promises'
<1>1. UNCHANGED <<durable, clock, error>> /\ pc[t] = "clearing"
  BY DEF Delete, Flushed
<1>2. /\ clock \in Nat /\ clock' = clock
      /\ QueueShape(clock') /\ mem \in StampsTo(clock) /\ mem' \in StampsTo(clock)
      /\ mem \in [Keys -> Nat] /\ promised \in [Tasks -> [Keys -> Nat]]
  <2>1. clock \in Nat
    BY DEF Shape
  <2>2. StampsTo(clock) \subseteq [Keys -> Nat]
    BY <2>1 DEF StampsTo
  <2> QED
    BY <1>1, <2>1, <2>2 DEF Shape, StoreShape, GhostShape
<1>3. CASE Return(t) /\ UNCHANGED <<mem, queue, awaiting, acked>>
  <2>1. /\ \A u \in Tasks \ {t} : target'[u] = target[u] /\ before'[u] = before[u] /\ pc'[u] = pc[u]
        /\ target'[t] = {} /\ pc'[t] = "free" /\ failed' = failed \ {t}
        /\ promised' = [promised EXCEPT ![t] = Nothing]
    BY <1>3 DEF Return, Reset, Goto, Shape, CallShape
  <2>2. StandingGrows
    BY <1>3, <2>1 DEF StandingGrows, Standing
  <2>3. \A j \in Keys : acked'[j] <= acked[j]
    BY <1>3 DEF Shape, GhostShape, StampsTo
  <2>4. \A u \in Tasks, j \in Keys : promised'[u][j] <= promised[u][j]
    BY <1>2, <2>1 DEF Nothing
  <2>5. \A u \in Tasks \ failed' : Writing(u)' => u \notin failed /\ SameCall(u)
    BY <1>3, <2>1 DEF Writing, SameCall, Committing
  <2> QED
    BY <1>1, <1>3, <2>2, <2>3, <2>4, <2>5, QuietPromises
<1>4. ASSUME NEW a \in Identities, mem[a] # 0,
             {k \in Keys : Owner[k] = a} \cap Locked = {},
             mem' = Without(mem, {a}),
             SubmitDirty(Capture(mem', [dirty |-> {}, gone |-> {a}])),
             Goto(t, "deleting"),
             awaiting' = [awaiting EXCEPT ![t] = {SlotOf}],
             target' = [target EXCEPT ![t] = {k \in Keys : Owner[k] = a}],
             before' = [before EXCEPT ![t] =
                 [k \in Keys |-> IF k \in {j \in Keys : Owner[j] = a} THEN mem[k] ELSE 0]],
             UNCHANGED failed
      PROVE  Promises'
  <2> DEFINE owned == {k \in Keys : Owner[k] = a}
             d == Capture(mem', [dirty |-> {}, gone |-> {a}])
  <2>1. a \in Keys /\ mem'[a] = 0 /\ \A k \in Keys : mem'[k] = IF k \in owned THEN 0 ELSE mem[k]
    BY <1>4 DEF Identities, Without
  <2>2. /\ target'[t] = owned /\ pc'[t] = "deleting"
        /\ \A k \in owned : before'[t][k] = mem[k]
        /\ \A u \in Tasks \ {t} : target'[u] = target[u] /\ before'[u] = before[u] /\ pc'[u] = pc[u]
                                  /\ awaiting'[u] = awaiting[u]
    BY <1>4 DEF Shape, CallShape, WaitShape, Goto
  <2>3. \A u \in Tasks : target[u] \subseteq Keys /\ target[u] \cap owned = {}
    BY <1>4 DEF Locked, Shape, CallShape
  <2>4. d \in DeltasTo(clock') /\ FromState(d, mem')
    BY <1>2, <2>1, CaptureShape, CaptureFrom DEF Batches
  <2>5. PICK e \in {d, CaptureError} : SubmitAs(e, promised)
    BY <1>4 DEF SubmitDirty, Submit
  <2>6. e \in DeltasTo(clock') /\ FromState(e, mem')
    BY <1>2, <2>4, <2>5, CaptureErrorShape, CaptureErrorFrom
  <2> HIDE DEF owned, d
  <2>7. StandingGrows
    BY <2>1, <2>2 DEF StandingGrows, Standing
  <2>8. \A u \in Tasks, j \in Keys : promised[u][j] <= promised[u][j]
    BY <1>2
  <2>9. Covered' /\ Topped' /\ AckedSecured'
    BY <1>1, <1>2, <2>5, <2>6, <2>7, <2>8, SubmitPromises
  <2>10. ASSUME NEW u \in Tasks \ failed, u # t PROVE Due(u)'
    <3>1. \A j \in target[u] : mem'[j] = mem[j]
      BY <2>1, <2>3
    <3> QED
      BY <1>1, <1>2, <2>2, <2>5, <2>6, <2>7, <2>10, <3>1, SubmitDue
  <2>11. Due(t)'
    BY <2>2 DEF Due, Committing
  <2> QED
    BY <1>4, <2>9, <2>10, <2>11 DEF Promises
<1> QED
  BY <1>3, <1>4 DEF Delete

\* Calls that begin, go on and return.
LEMMA CallStepsPromises ==
    ASSUME Shape, Order, Promises, Shape', NEW t \in Tasks,
           \/ CommitSucceeds(t) \/ CancelCommit(t)
           \/ Start(t) \/ FlushAgain(t) \/ FlushRaises(t) \/ FlushReturns(t)
           \/ CloseReturns(t) \/ SaveFlushed(t) \/ SaveReturns(t) \/ CancelWait(t)
    PROVE  Promises'
<1>1. UNCHANGED <<store, queue, error>>
  BY DEF CommitSucceeds, CancelCommit, Start, FlushAgain, FlushRaises, FlushReturns,
         CloseReturns, SaveFlushed, SaveReturns, CancelWait, writer
<1>2. /\ clock \in Nat /\ mem \in [Keys -> Nat] /\ durable \in [Keys -> Nat]
      /\ acked \in [Keys -> Nat] /\ promised \in [Tasks -> [Keys -> Nat]]
  <2>1. clock \in Nat
    BY DEF Shape
  <2>2. StampsTo(clock) \subseteq [Keys -> Nat]
    BY <2>1 DEF StampsTo
  <2> QED
    BY <2>1, <2>2 DEF Shape, StoreShape, GhostShape
<1>3. ASSUME NEW f \in [Keys -> Nat], Acknowledge(f),
             \A k \in Keys : Secured(durable, active, pending, {}, k, f[k]) \/ f[k] = 0,
             \A k \in Keys, v \in Nat : Standing(k, v) => f[k] <= v \/ f[k] = 0,
             \A k \in Keys, v \in Nat : Standing(k, v)' => Standing(k, v)
      PROVE  \A k \in Keys : \/ acked'[k] <= acked[k]
                             \/ /\ Secured(durable, active, pending, {}, k, acked'[k])
                                /\ \A v \in Nat : Standing(k, v)' => acked'[k] <= v
  <2>1. ASSUME NEW k \in Keys, ~(acked'[k] <= acked[k])
        PROVE  /\ Secured(durable, active, pending, {}, k, acked'[k])
               /\ \A v \in Nat : Standing(k, v)' => acked'[k] <= v
    <3>1. acked'[k] = f[k] /\ f[k] # 0
      BY <1>2, <1>3, <2>1 DEF Acknowledge
    <3> QED
      BY <1>3, <3>1
  <2> QED
    BY <2>1
<1>4. CASE Return(t)
  <2>1. /\ \A u \in Tasks \ {t} : target'[u] = target[u] /\ before'[u] = before[u] /\ pc'[u] = pc[u]
        /\ target'[t] = {} /\ pc'[t] = "free" /\ failed' = failed \ {t}
        /\ promised' = [promised EXCEPT ![t] = Nothing]
    BY <1>4 DEF Return, Reset, Goto, Shape, CallShape
  <2>2. \A u \in Tasks \ {t} : awaiting'[u] = awaiting[u]
    BY <1>4, <2>1 DEF CommitSucceeds, CancelCommit, Start, FlushAgain, FlushRaises, FlushReturns,
         CloseReturns, SaveFlushed, SaveReturns, CancelWait, Shape, WaitShape
  <2>3. \A k \in Keys, v \in Nat : Standing(k, v)' => Standing(k, v)
    BY <1>1, <2>1 DEF Standing, store
  <2>4. \A u \in Tasks, j \in Keys : promised'[u][j] <= promised[u][j]
    BY <1>2, <2>1 DEF Nothing
  <2>5. \A u \in Tasks \ failed' : Writing(u)' => u \notin failed /\ SameCall(u)
    BY <1>1, <2>1, <2>2 DEF Writing, SameCall, Committing, store
  <2>6. \A k \in Keys : \/ acked'[k] <= acked[k]
                        \/ /\ Secured(durable, active, pending, {}, k, acked'[k])
                           /\ \A v \in Nat : Standing(k, v)' => acked'[k] <= v
    <3>1. CASE UNCHANGED acked
      BY <1>2, <3>1
    <3>2. CASE CommitSucceeds(t)
      <4> DEFINE f == [k \in Keys |-> IF k \in target[t] THEN mem[k] ELSE 0]
      <4>1. Acknowledge(f) /\ f \in [Keys -> Nat] /\ Committing(t) /\ awaiting[t] = {} /\ t \notin failed
        BY <1>2, <3>2 DEF CommitSucceeds
      <4>2. Due(t)
        BY <4>1 DEF Promises
      <4>3. \A k \in Keys : Secured(durable, active, pending, {}, k, f[k]) \/ f[k] = 0
        BY <4>1, <4>2 DEF Due
      <4>4. \A k \in Keys, v \in Nat : Standing(k, v) => f[k] <= v \/ f[k] = 0
        BY <1>2, <4>1, StandingAbove
      <4> HIDE DEF f
      <4> QED
        BY <1>3, <2>3, <4>1, <4>3, <4>4
    <3>3. CASE FlushReturns(t) \/ (CloseReturns(t) /\ ~error)
      <4>1. active = {} /\ pending = {} /\ ~error /\ Acknowledge(Queued)
        BY <3>3 DEF FlushReturns, CloseReturns, Flushed, InUse
      <4>2. Queued = durable
        BY <4>1 DEF Queued, Written
      <4>3. \A k \in Keys : Secured(durable, active, pending, {}, k, durable[k])
        BY <1>2, <4>1 DEF Secured, AllKeep
      <4>4. \A k \in Keys, v \in Nat : Standing(k, v) => durable[k] <= v
        BY <4>1 DEF Promises, Topped, AtMost
      <4> QED
        BY <1>2, <1>3, <2>3, <4>1, <4>2, <4>3, <4>4
    <3>4. CASE SaveReturns(t) /\ t \notin failed
      <4>1. Acknowledge(promised[t]) /\ pc[t] = "storing" /\ awaiting[t] = {}
        BY <3>4 DEF SaveReturns
      <4>2. \A k \in Keys : Secured(durable, active, pending, {}, k, promised[t][k])
        BY <3>4, <4>1 DEF Promises, Due
      <4>3. \A k \in Keys, v \in Nat : Standing(k, v) => promised[t][k] <= v
        BY DEF Promises, Covered, Covers
      <4> QED
        BY <1>2, <1>3, <2>3, <4>1, <4>2, <4>3
    <3> QED
      BY <3>1, <3>2, <3>3, <3>4
      DEF CancelCommit, Start, FlushAgain, FlushRaises, CloseReturns, SaveFlushed, SaveReturns,
          CancelWait, ghosts
  <2>7. StandingGrows
    BY <2>3 DEF StandingGrows
  <2> QED
    BY <1>1, <2>4, <2>5, <2>6, <2>7, QuietPromises DEF store
<1>5. CASE Start(t) \/ FlushAgain(t) \/ SaveFlushed(t) \/ (CancelCommit(t) /\ pc[t] = "committing")
  <2>1. /\ UNCHANGED <<failed, target, before, acked, promised>>
        /\ \A u \in Tasks \ {t} : pc'[u] = pc[u] /\ awaiting'[u] = awaiting[u]
    BY <1>5 DEF CancelCommit, Start, FlushAgain, SaveFlushed, Goto, Shape, CallShape, WaitShape, ghosts
  <2>2. pc'[t] = "deleting" => pc[t] = "deleting"
    BY <1>5 DEF CancelCommit, Start, FlushAgain, SaveFlushed, Goto, Shape, CallShape
  <2>3. StandingGrows
    BY <1>1, <2>1, <2>2 DEF StandingGrows, Standing, store
  <2>4. \A k \in Keys : acked'[k] <= acked[k]
    BY <1>2, <2>1
  <2>5. \A u \in Tasks, k \in Keys : promised'[u][k] <= promised[u][k]
    BY <1>2, <2>1
  <2>6. Writing(t)' => SameCall(t)
    <3>1. CASE Start(t) \/ FlushAgain(t) \/ SaveFlushed(t)
      <4>1. ~Writing(t)'
        BY <3>1 DEF Start, FlushAgain, SaveFlushed, Flushing, Flushed, Goto, Shape, CallShape, Writing
      <4> QED
        BY <4>1
    <3>2. CASE CancelCommit(t) /\ pc[t] = "committing"
      <4>1. pc'[t] = "cancelling" /\ UNCHANGED awaiting
        BY <3>2 DEF CancelCommit, Goto, Shape, CallShape
      <4> QED
        BY <1>1, <2>1, <3>2, <4>1 DEF SameCall, Committing, store
    <3> QED
      BY <1>5, <3>1, <3>2
  <2>7. \A u \in Tasks \ {t} : Writing(u)' => SameCall(u)
    BY <1>1, <2>1 DEF SameCall, Committing, store
  <2>8. \A u \in Tasks \ failed' : Writing(u)' => u \notin failed /\ SameCall(u)
    BY <2>1, <2>6, <2>7
  <2> QED
    BY <1>1, <2>3, <2>4, <2>5, <2>8, QuietPromises DEF store
<1> QED
  BY <1>4, <1>5
  DEF CommitSucceeds, CancelCommit, Start, FlushAgain, FlushRaises, FlushReturns, CloseReturns,
      SaveFlushed, SaveReturns, CancelWait, Committing, ghosts

LEMMA ScopeStepsPromises ==
    ASSUME Shape, Promises, Shape', NEW t \in Tasks,
           OpenScope(t) \/ EndTask(t) \/ \E root \in Tasks : Join(t, root) \/ Wakeup(t, root)
    PROVE  Promises'
<1>1. UNCHANGED <<store, writer, calls, ghosts>>
  BY DEF OpenScope, EndTask, Join, Wakeup
<1>2. StandingGrows
  BY <1>1 DEF StandingGrows, Standing, store, calls
<1>3. \A k \in Keys : acked'[k] <= acked[k]
  BY <1>1 DEF ghosts, Shape, GhostShape, StampsTo
<1>4. \A u \in Tasks, k \in Keys : promised'[u][k] <= promised[u][k]
  <2>1. \A u \in Tasks, k \in Keys : promised[u][k] \in 0..clock
    BY DEF Shape, GhostShape, StampsTo
  <2>2. \A n \in 0..clock : n <= n
    BY DEF Shape
  <2> QED
    BY <1>1, <2>1, <2>2 DEF ghosts
<1>5. \A u \in Tasks \ failed' : Writing(u)' => u \notin failed /\ SameCall(u)
  BY <1>1 DEF SameCall, Committing, store, calls
<1> QED
  BY <1>1, <1>2, <1>3, <1>4, <1>5, QuietPromises DEF store, writer

\* What a failed call puts back nobody else holds.
LEMMA PutBackOthers ==
    ASSUME Shape, Order, NEW t \in Tasks, mem' = PutBack(t, mem), Reset(t)
    PROVE  /\ \A k \in Keys : mem'[k] = IF k \in target[t] THEN before[t][k] ELSE mem[k]
           /\ target'[t] = {} /\ pc'[t] = "free"
           /\ \A u \in Tasks \ {t} :
                /\ target'[u] = target[u] /\ before'[u] = before[u] /\ pc'[u] = pc[u]
                /\ \A k \in target[u] : k \notin target[t] /\ mem'[k] = mem[k]
<1>1. \A k \in Keys : mem'[k] = IF k \in target[t] THEN before[t][k] ELSE mem[k]
  BY DEF PutBack
<1>2. target'[t] = {} /\ pc'[t] = "free"
  BY DEF Reset, Goto, Shape, CallShape
<1>3. \A u \in Tasks \ {t} : target'[u] = target[u] /\ before'[u] = before[u] /\ pc'[u] = pc[u]
  BY DEF Reset, Goto, Shape, CallShape
<1>4. \A u \in Tasks \ {t} : target[u] \cap target[t] = {} /\ target[u] \subseteq Keys
  BY DEF Order, Held, Shape, CallShape
<1> QED
  BY <1>1, <1>2, <1>3, <1>4

\* A failed deletion brings back stamps that stood all the time.
LEMMA DeleteFailsPromises ==
    ASSUME Shape, Order, Promises, Shape', NEW t \in Tasks, DeleteFails(t)
    PROVE  Promises'
<1>1. /\ mem' = PutBack(t, mem) /\ Reset(t) /\ promised' = [promised EXCEPT ![t] = Nothing]
      /\ pc[t] = "deleting" /\ failed' = failed \ {t}
      /\ UNCHANGED <<durable, clock, queue, error, awaiting, acked>>
  BY DEF DeleteFails, Return, Reset, Flushed, writer
<1>2. /\ \A k \in Keys : mem'[k] = IF k \in target[t] THEN before[t][k] ELSE mem[k]
      /\ target'[t] = {} /\ pc'[t] = "free"
      /\ \A u \in Tasks \ {t} :
            /\ target'[u] = target[u] /\ before'[u] = before[u] /\ pc'[u] = pc[u]
            /\ \A k \in target[u] : k \notin target[t] /\ mem'[k] = mem[k]
  BY <1>1, PutBackOthers
<1>3. StandingGrows
  BY <1>1, <1>2 DEF StandingGrows, Standing
<1>4. \A u \in Tasks, k \in Keys : promised[u][k] \in 0..clock /\ acked[k] \in 0..clock
  BY DEF Shape, GhostShape, StampsTo
<1>5. \A n \in 0..clock : n <= n /\ 0 <= n
  BY DEF Shape
<1>6. \A k \in Keys : acked'[k] <= acked[k]
  BY <1>1, <1>4, <1>5
<1>7. \A u \in Tasks, k \in Keys : promised'[u][k] <= promised[u][k]
  BY <1>1, <1>4, <1>5 DEF Nothing, Shape, GhostShape
<1>8. \A u \in Tasks \ failed' : Writing(u)' => u \notin failed /\ SameCall(u)
  BY <1>1, <1>2 DEF SameCall, Writing, Committing
<1> QED
  BY <1>1, <1>3, <1>6, <1>7, <1>8, QuietPromises

\* A failed commit brings back an older stamp, and nothing later stays reported
\* of that record; there has been an error, so no flush will report it.
LEMMA CommitFailsPromises ==
    ASSUME Shape, Order, Promises, Shape', NEW t \in Tasks, CommitFails(t)
    PROVE  Promises'
<1>1. /\ mem' = PutBack(t, mem) /\ Reset(t) /\ acked' = Lower(t, acked)
      /\ promised' = [u \in Tasks |-> IF u = t THEN Nothing ELSE Lower(t, promised[u])]
      /\ Committing(t) /\ t \in failed /\ failed' = failed \ {t}
      /\ UNCHANGED <<durable, clock, queue, error, awaiting>>
  BY DEF CommitFails, Reset, writer
<1>2. /\ \A k \in Keys : mem'[k] = IF k \in target[t] THEN before[t][k] ELSE mem[k]
      /\ target'[t] = {} /\ pc'[t] = "free"
      /\ \A u \in Tasks \ {t} :
            /\ target'[u] = target[u] /\ before'[u] = before[u] /\ pc'[u] = pc[u]
            /\ \A k \in target[u] : k \notin target[t] /\ mem'[k] = mem[k]
  BY <1>1, PutBackOthers
<1>3. /\ clock \in Nat /\ before[t] \in [Keys -> Nat] /\ acked \in [Keys -> Nat]
      /\ promised \in [Tasks -> [Keys -> Nat]]
  <2>1. clock \in Nat
    BY DEF Shape
  <2>2. StampsTo(clock) \subseteq [Keys -> Nat]
    BY <2>1 DEF StampsTo
  <2> QED
    BY <2>1, <2>2 DEF Shape, CallShape, GhostShape
<1>4. ASSUME NEW f \in [Keys -> Nat], NEW k \in Keys
      PROVE  /\ Lower(t, f)[k] \in Nat /\ Lower(t, f)[k] <= f[k]
             /\ k \in target[t] => Lower(t, f)[k] <= before[t][k]
  BY <1>3, <1>4 DEF Lower, PutBack
<1>5. \A k \in Keys : acked'[k] \in Nat /\ acked'[k] <= acked[k]
                      /\ (k \in target[t] => acked'[k] <= before[t][k])
  BY <1>1, <1>3, <1>4
<1>6. \A u \in Tasks, k \in Keys :
          /\ promised'[u][k] \in Nat /\ promised'[u][k] <= promised[u][k]
          /\ k \in target[t] => promised'[u][k] <= before[t][k]
  <2>1. ASSUME NEW u \in Tasks, NEW k \in Keys
        PROVE  /\ promised'[u][k] \in Nat /\ promised'[u][k] <= promised[u][k]
               /\ k \in target[t] => promised'[u][k] <= before[t][k]
    <3>1. CASE u = t
      BY <1>1, <1>3, <3>1 DEF Nothing
    <3>2. CASE u # t
      BY <1>1, <1>3, <1>4, <3>2
    <3> QED
      BY <3>1, <3>2
  <2> QED
    BY <2>1
<1>7. Covered'
  <2> SUFFICES ASSUME NEW k \in Keys, NEW v \in Nat, Standing(k, v)'
               PROVE  acked'[k] <= v /\ \A u \in Tasks : promised'[u][k] <= v
    BY DEF Covered, Covers
  <2>1. CASE k \in target[t]
    <3>1. v = before[t][k]
      BY <1>2, <2>1 DEF Standing
    <3> QED
      BY <1>5, <1>6, <2>1, <3>1
  <2>2. CASE k \notin target[t]
    <3>1. Standing(k, v)
      BY <1>2, <2>2 DEF Standing
    <3>2. acked[k] <= v /\ \A u \in Tasks : promised[u][k] <= v
      BY <3>1 DEF Promises, Covered, Covers
    <3>3. acked'[k] <= v
      BY <1>3, <1>5, <3>2
    <3>4. \A u \in Tasks : promised[u][k] \in Nat
      BY <1>3
    <3> QED
      BY <1>6, <3>2, <3>3, <3>4
  <2> QED
    BY <2>1, <2>2
<1>8. Topped'
  BY <1>1 DEF Order, Topped
<1>9. AckedSecured'
  <2> SUFFICES ASSUME NEW k \in Keys PROVE Secured(durable, active, pending, {}, k, acked'[k])
    BY <1>1 DEF AckedSecured, queue
  <2> QED
    BY <1>3, <1>5, SecuredLess DEF Promises, AckedSecured
<1>10. ASSUME NEW u \in Tasks \ failed' PROVE Due(u)'
  <2>1. CASE u = t
    BY <1>2, <2>1 DEF Due, Committing
  <2>2. CASE u # t
    <3>1. Due(u)
      BY <1>1, <2>2 DEF Promises
    <3>2. Committing(u)' => \A k \in target'[u] :
              Secured(durable, active, pending, awaiting'[u], k, mem'[k])
      BY <1>1, <1>2, <2>2, <3>1 DEF Due, Committing
    <3>3. ASSUME pc'[u] = "storing", NEW k \in Keys
          PROVE  Secured(durable, active, pending, awaiting'[u], k, promised'[u][k])
      <4>1. Secured(durable, active, pending, awaiting[u], k, promised[u][k])
        BY <1>2, <2>2, <3>1, <3>3 DEF Due
      <4> QED
        BY <1>1, <1>3, <1>6, <4>1, SecuredLess
    <3> QED
      BY <1>1, <3>2, <3>3 DEF Due, queue
  <2> QED
    BY <2>1, <2>2
<1> QED
  BY <1>7, <1>8, <1>9, <1>10 DEF Promises

\* _finish_active: the write of a delta, or its failure.
LEMMA WriterPromises ==
    ASSUME Shape, Order, Promises, Shape', WriteSucceeds \/ WriteFails
    PROVE  Promises'
<1>1. /\ active' = pending /\ pending' = {}
      /\ awaiting' = [t \in Tasks |-> IF "pending" \in awaiting[t] THEN {"active"} ELSE {}]
      /\ UNCHANGED <<mem, clock, pc, target, before, acked, promised>>
  BY DEF WriteSucceeds, WriteFails, Promote, store, ghosts
<1>2. \/ /\ \E d \in active : ~d.bad /\ durable' = Apply(durable, d)
         /\ UNCHANGED <<error, failed>>
      \/ /\ durable' = durable /\ error' = TRUE
         /\ failed' = failed \cup {t \in Tasks : "active" \in awaiting[t]
                                                 /\ (Committing(t) \/ pc[t] = "storing")}
  BY DEF WriteSucceeds, WriteFails, store
<1>3. /\ mem \in [Keys -> Nat] /\ acked \in [Keys -> Nat] /\ promised \in [Tasks -> [Keys -> Nat]]
      /\ durable \in [Keys -> Nat]
      /\ \A t \in Tasks : awaiting[t] \in SUBSET Slots /\ target[t] \subseteq Keys
  <2>1. clock \in Nat
    BY DEF Shape
  <2>2. StampsTo(clock) \subseteq [Keys -> Nat]
    BY <2>1 DEF StampsTo
  <2> QED
    BY <2>2 DEF Shape, StoreShape, CallShape, GhostShape, WaitShape
<1>4. \A k \in Keys, v \in Nat : Standing(k, v)' => Standing(k, v)
  BY <1>1 DEF Standing
<1>5. Covered'
  BY <1>1, <1>4 DEF Promises, Covered, Covers
<1>6. Topped'
  <2> SUFFICES ASSUME ~error', NEW k \in Keys, NEW v \in Nat, Standing(k, v)'
               PROVE  AtMost(k, v)'
    BY DEF Topped
  <2>1. PICK d \in active : ~error /\ durable' = Apply(durable, d)
    BY <1>2
  <2>2. AtMost(k, v)
    BY <1>4, <2>1 DEF Promises, Topped
  <2>3. durable'[k] \in {0, durable[k], d.rows[k], d.deps[k]}
    BY <2>1 DEF Apply, Override, Without, Nothing
  <2>4. durable'[k] <= v
    BY <2>1, <2>2, <2>3 DEF AtMost
  <2> QED
    BY <1>1, <2>2, <2>4 DEF AtMost
<1>7. AckedSecured'
  <2> SUFFICES ASSUME NEW k \in Keys
               PROVE  Secured(durable', pending, {}, {}, k, acked[k])
    BY <1>1 DEF AckedSecured
  <2>1. Secured(durable, active, pending, {}, k, acked[k])
    BY DEF Promises, AckedSecured
  <2>2. acked[k] \in Nat
    BY <1>3
  <2>3. {} \in SUBSET Slots
    OBVIOUS
  <2> QED
    BY <1>2, <2>1, <2>2, <2>3, WriteSecures
<1>8. ASSUME NEW t \in Tasks \ failed' PROVE Due(t)'
  <2>1. t \notin failed /\ Due(t)
    BY <1>2 DEF Promises
  <2>2. awaiting'[t] = IF "pending" \in awaiting[t] THEN {"active"} ELSE {}
    BY <1>1
  <2>3. (Committing(t) \/ pc[t] = "storing") =>
            \/ \E d \in active : ~d.bad /\ durable' = Apply(durable, d)
            \/ durable' = durable /\ "active" \notin awaiting[t]
    BY <1>2
  <2>4. ASSUME Committing(t), NEW k \in target[t]
        PROVE  Secured(durable', pending, {}, awaiting'[t], k, mem[k])
    <3>1. Secured(durable, active, pending, awaiting[t], k, mem[k]) /\ k \in Keys /\ mem[k] \in Nat
      BY <1>3, <2>1, <2>4 DEF Due
    <3> QED
      BY <1>3, <2>2, <2>3, <2>4, <3>1, WriteSecures
  <2>5. ASSUME pc[t] = "storing", NEW k \in Keys
        PROVE  Secured(durable', pending, {}, awaiting'[t], k, promised[t][k])
    <3>1. Secured(durable, active, pending, awaiting[t], k, promised[t][k])
          /\ promised[t][k] \in Nat
      BY <1>3, <2>1, <2>5 DEF Due
    <3> QED
      BY <1>3, <2>2, <2>3, <2>5, <3>1, WriteSecures
  <2> QED
    BY <1>1, <2>4, <2>5 DEF Due, Committing
<1> QED
  BY <1>5, <1>6, <1>7, <1>8 DEF Promises

\* Promises is inductive: every delta that is queued keeps what has been
\* reported, and what a waiting call will report (submit, _finish_active,
\* _merge_snapshots, DatabaseStore.write).
THEOREM PromisesInvariant == Spec => []Promises
<1>1. ASSUME Shape, Order, Promises, Whole, [Next]_vars, Shape', Order', Whole'
      PROVE  Promises'
  <2>1. Ref(mem')
    BY <1>1 DEF Whole
  <2>2. CASE UNCHANGED vars
    BY <1>1, <2>2 DEF vars, store, writer, queue, scopes, calls, ghosts, Promises, Covered, Covers,
       Topped, AtMost, AckedSecured, Due, Standing, Committing
  <2>3. CASE WriteSucceeds \/ WriteFails
    BY <1>1, <2>3, WriterPromises
  <2>4. ASSUME NEW t \in Tasks, Step(t) PROVE Promises'
    <3>1. CASE \E k \in Keys : Update(t, k) \/ Forget(t, k) \/ Commit(t, k)
      BY <1>1, <2>1, <3>1, UpdatePromises, ForgetPromises, CommitPromises
    <3>2. CASE CloseScope(t) \/ Save(t) \/ Delete(t)
      BY <1>1, <2>1, <3>2, CloseScopePromises, SavePromises, DeletePromises
    <3>3. CASE CommitFails(t) \/ DeleteFails(t)
      BY <1>1, <3>3, CommitFailsPromises, DeleteFailsPromises
    <3>4. CASE OpenScope(t) \/ EndTask(t) \/ \E root \in Tasks : Join(t, root) \/ Wakeup(t, root)
      BY <1>1, <3>4, ScopeStepsPromises
    <3>5. CASE \/ CommitSucceeds(t) \/ CancelCommit(t)
               \/ Start(t) \/ FlushAgain(t) \/ FlushRaises(t) \/ FlushReturns(t)
               \/ CloseReturns(t) \/ SaveFlushed(t) \/ SaveReturns(t) \/ CancelWait(t)
      BY <1>1, <3>5, CallStepsPromises
    <3> QED
      BY <2>4, <3>1, <3>2, <3>3, <3>4, <3>5 DEF Step, Proceed
  <2> QED
    BY <1>1, <2>2, <2>3, <2>4 DEF Next
<1> QED
  BY <1>1, InitPromises, ShapeInvariant, OrderInvariant, WholeInvariant, PTL DEF Spec

\* What a commit, a save, a flush or a close has reported as written is in the
\* database ever after, at that stamp or a later one, whichever calls overlap,
\* are cancelled or fail (StateCoordinator, PersistenceCoordinator).
THEOREM ReportedStaysDurable == Spec => []AckedStaysDurable
<1>1. ASSUME Shape, Promises PROVE AckedStaysDurable
  BY <1>1 DEF Promises, AckedSecured, Secured, AckedStaysDurable
<1> QED
  BY <1>1, ShapeInvariant, PromisesInvariant, PTL

-----------------------------------------------------------------------------
(* What the queue will leave in the database, while nothing has failed. *)

NoBad == \A d \in active \cup pending : ~d.bad

BatchGone == UNION {batch[t].gone : t \in Tasks}

\* Without wakeups every scope that a task sees is still open.
ScopesOpen == detached = {} /\ \A t \in Tasks : scope[t] # DeadBatch

\* What is in no batch and was not refused is queued, or written already; and a
\* record that is no more comes back only while its deletion is in a batch.
Carried ==
    ~error /\ NoBad =>
        \A k \in Keys :
            /\ k \notin Unsaved => Queued[k] = mem[k]
            /\ k \notin refused \cup BatchGone /\ mem[k] = 0 => Queued[k] = 0

LEMMA WrittenNothing == \A db : Written(db, {}) = db
BY DEF Written

LEMMA WrittenOne ==
    ASSUME NEW db, NEW d, ~d.bad PROVE Written(db, {d}) = Apply(db, d)
BY DEF Written

\* A delta from the state m brings the record k to m, or leaves it alone.
LEMMA ApplyFrom ==
    ASSUME NEW db \in [Keys -> Nat], NEW d, Delta(d), NEW m \in [Keys -> Nat],
           FromState(d, m), Ref(m), NEW k \in Keys
    PROVE  \/ Apply(db, d)[k] = m[k]
           \/ /\ Apply(db, d)[k] = db[k]
              /\ d.rows[k] = 0 /\ ~d.full /\ {k, Owner[k]} \cap d.gone = {}
<1>1. d.rows[k] \in {0, m[k]} /\ d.deps[k] \in {0, m[k]} /\ (d.full => d.rows[k] = m[k])
  BY DEF FromState
<1>2. Owner[k] \in Keys
  BY OwnerOfOwner
<1>3. {k, Owner[k]} \cap d.gone # {} => m[k] = 0
  BY <1>2 DEF FromState, Ref
<1>4. Apply(db, d)[k] =
         IF d.rows[k] # 0 THEN d.rows[k]
         ELSE IF {k, Owner[k]} \cap d.gone = {} /\ ~d.full /\ db[k] # 0 THEN db[k] ELSE d.deps[k]
  BY DEF Apply, Override, Without, Nothing, Delta
<1> QED
  BY <1>1, <1>3, <1>4

\* _merge_snapshots: writing the merged delta is writing the one and then the
\* other, or brings the record to the state m.
LEMMA ApplyMerged ==
    ASSUME NEW db \in [Keys -> Nat], NEW e, NEW d, Delta(e), Delta(d), ~e.bad, ~d.bad,
           NEW m \in [Keys -> Nat], FromState(d, m), Ref(m),
           \A j \in Merge(e, d).gone : m[j] = 0, NEW k \in Keys
    PROVE  \/ Apply(db, Merge(e, d))[k] = m[k]
           \/ Apply(db, Merge(e, d))[k] = Apply(Apply(db, e), d)[k]
<1>1. CASE d.full
  <2>1. Merge(e, d) = d
    BY <1>1 DEF Merge
  <2>2. Apply(db, d)[k] = Apply(Apply(db, e), d)[k]
    BY <1>1 DEF Apply, Override, Without, Nothing
  <2> QED
    BY <2>1, <2>2
<1>2. CASE ~d.full
  <2> DEFINE both == Merge(e, d)
             gone == e.gone \cup d.gone
             dead == {k, Owner[k]} \cap gone # {}
  <2>1. /\ both.gone = gone /\ both.full = e.full
        /\ both.rows[k] = IF dead THEN 0 ELSE IF d.rows[k] # 0 THEN d.rows[k] ELSE e.rows[k]
        /\ both.deps[k] = IF both.rows[k] # 0 \/ dead THEN 0
                          ELSE IF d.deps[k] # 0 THEN d.deps[k] ELSE e.deps[k]
    BY <1>2 DEF Merge, Without, Override
  <2>2. Apply(db, both)[k] =
           IF both.rows[k] # 0 THEN both.rows[k]
           ELSE IF ~dead /\ ~e.full /\ db[k] # 0 THEN db[k] ELSE both.deps[k]
    BY <2>1 DEF Apply, Override, Without, Nothing
  <2>3. Apply(db, e)[k] =
           IF e.rows[k] # 0 THEN e.rows[k]
           ELSE IF {k, Owner[k]} \cap e.gone = {} /\ ~e.full /\ db[k] # 0 THEN db[k] ELSE e.deps[k]
    BY DEF Apply, Override, Without, Nothing, Delta
  <2>4. Apply(Apply(db, e), d)[k] =
           IF d.rows[k] # 0 THEN d.rows[k]
           ELSE IF {k, Owner[k]} \cap d.gone = {} /\ Apply(db, e)[k] # 0
                THEN Apply(db, e)[k] ELSE d.deps[k]
    BY <1>2 DEF Apply, Override, Without, Nothing
  <2>5. d.deps[k] \in {0, m[k]}
    BY DEF FromState
  <2>6. CASE dead
    <3>1. m[k] = 0
      BY <2>1, <2>6, OwnerOfOwner DEF Ref
    <3>2. Apply(db, both)[k] = 0
      BY <2>1, <2>2, <2>6
    <3> QED
      BY <3>1, <3>2
  <2>7. CASE ~dead
    <3>1. {k, Owner[k]} \cap e.gone = {} /\ {k, Owner[k]} \cap d.gone = {}
      BY <2>7
    <3> HIDE DEF both, dead, gone
    <3>2. Apply(db, both)[k] = m[k] \/ Apply(db, both)[k] = Apply(Apply(db, e), d)[k]
      BY <2>1, <2>2, <2>3, <2>4, <2>5, <2>7, <3>1
    <3> QED
      BY <3>2 DEF both
  <2> QED
    BY <2>6, <2>7
<1> QED
  BY <1>1, <1>2

LEMMA EnqueueGood ==
    ASSUME NEW d, Enqueue(d), NoBad', AtMostOne(active), AtMostOne(pending)
    PROVE  NoBad /\ ~d.bad
<1>1. CASE active = {} \/ pending = {}
  BY <1>1 DEF Enqueue, NoBad, AtMostOne
<1>2. CASE active # {} /\ pending # {}
  <2>1. PICK e \in pending : pending' = {Merge(e, d)} /\ active' = active
    BY <1>2 DEF Enqueue
  <2>2. ~e.bad /\ ~d.bad
    BY <2>1 DEF NoBad, Merge
  <2> QED
    BY <2>1, <2>2 DEF NoBad, AtMostOne
<1> QED
  BY <1>1, <1>2

\* What is queued brings the record to the runtime state, or leaves it alone.
LEMMA EnqueueCarried ==
    ASSUME Shape, Shape', Order', Ref(mem'), NoBad', NEW d, Delta(d), Enqueue(d),
           durable' = durable, FromState(d, mem'), NEW k \in Keys
    PROVE  \/ Queued'[k] = mem'[k]
           \/ /\ Queued'[k] = Queued[k]
              /\ d.rows[k] = 0 /\ ~d.full /\ {k, Owner[k]} \cap d.gone = {}
<1>1. /\ durable \in [Keys -> Nat] /\ mem' \in [Keys -> Nat]
      /\ \A e \in active \cup pending : Delta(e)
      /\ AtMostOne(active) /\ AtMostOne(pending) /\ (pending # {} => active # {})
  <2>1. clock \in Nat /\ clock' \in Nat
    BY DEF Shape
  <2>2. StampsTo(clock) \subseteq [Keys -> Nat] /\ StampsTo(clock') \subseteq [Keys -> Nat]
    BY <2>1 DEF StampsTo
  <2>3. \A e \in active \cup pending : Delta(e)
    BY <2>1, DeltaOfShape DEF Shape, QueueShape
  <2> QED
    BY <2>2, <2>3 DEF Shape, StoreShape, QueueShape
<1>2. NoBad /\ ~d.bad
  BY <1>1, EnqueueGood
<1>3. ASSUME NEW db \in [Keys -> Nat], NEW e \in active \cup pending
      PROVE  Apply(db, e) \in [Keys -> Nat]
  <2>1. Delta(e)
    BY <1>1
  <2> QED
    BY <2>1 DEF Apply, Override, Without, Nothing, Delta
<1>4. CASE active = {}
  <2>1. Queued' = Apply(durable, d) /\ Queued = durable
    <3>1. active' = {d} /\ pending' = {} /\ pending = {}
      BY <1>1, <1>4 DEF Enqueue
    <3> QED
      BY <1>2, <1>4, <3>1, WrittenOne, WrittenNothing DEF Queued
  <2> QED
    BY <1>1, <2>1, ApplyFrom
<1>5. CASE active # {} /\ pending = {}
  <2>1. PICK a \in active : active = {a}
    BY <1>1, <1>5 DEF AtMostOne
  <2>2. Queued' = Apply(Apply(durable, a), d) /\ Queued = Apply(durable, a)
    <3>1. active' = {a} /\ pending' = {d} /\ ~a.bad
      BY <1>2, <1>5, <2>1 DEF Enqueue, NoBad
    <3> QED
      BY <1>2, <1>5, <2>1, <3>1, WrittenOne, WrittenNothing DEF Queued
  <2> QED
    BY <1>1, <1>3, <2>2, ApplyFrom
<1>6. CASE active # {} /\ pending # {}
  <2>1. PICK a \in active : active = {a}
    BY <1>1, <1>6 DEF AtMostOne
  <2>2. PICK e \in pending : pending = {e} /\ pending' = {Merge(e, d)} /\ active' = active
    BY <1>1, <1>6 DEF AtMostOne, Enqueue
  <2>3. ~a.bad /\ ~e.bad /\ ~Merge(e, d).bad
    BY <1>2, <2>1, <2>2 DEF NoBad
  <2>4. /\ Queued' = Apply(Apply(durable, a), Merge(e, d))
        /\ Queued = Apply(Apply(durable, a), e)
    BY <2>1, <2>2, <2>3, WrittenOne DEF Queued
  <2>5. \A j \in Merge(e, d).gone : mem'[j] = 0
    BY <2>2 DEF Order, Buried, Dead
  <2>6. Apply(durable, a) \in [Keys -> Nat] /\ Queued \in [Keys -> Nat]
    BY <1>1, <1>3, <2>4
  <2>7. Queued'[k] = mem'[k] \/ Queued'[k] = Apply(Queued, d)[k]
    BY <1>1, <1>2, <2>2, <2>3, <2>4, <2>5, <2>6, ApplyMerged
  <2> QED
    BY <1>1, <2>6, <2>7, ApplyFrom
<1> QED
  BY <1>4, <1>5, <1>6

\* A delta is queued; what it leaves alone has not changed, and stays in its
\* batch, or was queued already.
LEMMA SubmitCarried ==
    ASSUME Shape, Shape', Order', Ref(mem'), Carried, NEW d, Delta(d), Enqueue(d),
           UNCHANGED <<durable, error>>, FromState(d, mem'),
           ~d.bad => \A k \in Keys :
               d.rows[k] = 0 /\ ~d.full /\ {k, Owner[k]} \cap d.gone = {} =>
                   /\ mem'[k] = mem[k]
                   /\ k \notin Unsaved' => \/ k \notin Unsaved
                                           \/ mem[k] = 0 /\ k \notin refused \cup BatchGone
                   /\ k \notin refused' \cup BatchGone' => k \notin refused \cup BatchGone
    PROVE  Carried'
<1> SUFFICES ASSUME ~error, NoBad', NEW k \in Keys
             PROVE  /\ k \notin Unsaved' => Queued'[k] = mem'[k]
                    /\ k \notin refused' \cup BatchGone' /\ mem'[k] = 0 => Queued'[k] = 0
  BY DEF Carried
<1>1. NoBad /\ ~d.bad
  BY EnqueueGood DEF Shape, QueueShape
<1>2. \/ Queued'[k] = mem'[k]
      \/ /\ Queued'[k] = Queued[k]
         /\ d.rows[k] = 0 /\ ~d.full /\ {k, Owner[k]} \cap d.gone = {}
  BY EnqueueCarried
<1>3. /\ k \notin Unsaved => Queued[k] = mem[k]
      /\ k \notin refused \cup BatchGone /\ mem[k] = 0 => Queued[k] = 0
  BY <1>1 DEF Carried
<1> QED
  BY <1>1, <1>2, <1>3

\* Nothing is queued or written; what changes is put into a batch or refused.
LEMMA QuietCarried ==
    ASSUME Carried, UNCHANGED <<durable, queue>>, error => error',
           \A k \in Keys :
               /\ k \notin Unsaved' => mem'[k] = mem[k] /\ k \notin Unsaved
               /\ k \notin refused' \cup BatchGone' /\ mem'[k] = 0 =>
                      mem[k] = 0 /\ k \notin refused \cup BatchGone
    PROVE  Carried'
<1>1. Queued' = Queued /\ NoBad' = NoBad
  BY DEF Queued, Written, queue, NoBad
<1> QED
  BY <1>1 DEF Carried

LEMMA UnsavedSame == UNCHANGED <<batch, refused>> => Unsaved' = Unsaved /\ BatchGone' = BatchGone
BY DEF Unsaved, BatchGone

\* _auto_save of what one operation has changed.
LEMMA AutoSaveCarried ==
    ASSUME Shape, Shape', Order', Ref(mem'), Carried, ScopesOpen, NEW t \in Tasks,
           NEW b \in Batches, AutoSave(t, b), UNCHANGED <<durable, error>>,
           \A k \in b.gone : mem'[k] = 0,
           \A k \in Keys : k \in b.dirty => mem'[k] # 0,
           \A k \in Keys \ (b.dirty \cup b.gone) : mem'[k] = mem[k]
    PROVE  Carried'
<1>1. Capture(mem', b) \in DeltasTo(clock') /\ FromState(Capture(mem', b), mem')
  BY CaptureShape, CaptureFrom DEF Shape, StoreShape
<1>2. CASE SubmitDirty(Capture(mem', b)) /\ UNCHANGED <<batch, refused>>
  <2>1. PICK e \in {Capture(mem', b), CaptureError} : Enqueue(e)
    BY <1>2 DEF SubmitDirty, Submit, SubmitAs
  <2>2. Delta(e) /\ FromState(e, mem')
    BY <1>1, <2>1, CaptureErrorShape, CaptureErrorFrom, DeltaOfShape DEF Shape
  <2>3. ~e.bad => \A k \in Keys :
            e.rows[k] = 0 /\ ~e.full /\ {k, Owner[k]} \cap e.gone = {} => mem'[k] = mem[k]
    BY <2>1 DEF Capture, CaptureError
  <2> QED
    BY <1>2, <2>1, <2>2, <2>3, UnsavedSame, SubmitCarried
<1>3. CASE /\ UNCHANGED <<queue, batch>> /\ refused' = refused \cup b.dirty \cup b.gone
  <2>1. \A k \in Keys :
            /\ k \notin Unsaved' => k \notin Unsaved /\ k \notin b.dirty \cup b.gone
            /\ k \notin refused' \cup BatchGone' =>
                   k \notin refused \cup BatchGone /\ k \notin b.gone
    BY <1>3 DEF Unsaved, BatchGone
  <2> QED
    BY <1>3, <2>1, QuietCarried
<1>4. CASE /\ scope[t] # NoBatch /\ UNCHANGED <<queue, refused>>
           /\ batch' = [u \in Tasks |->
                          IF u = scope[t] THEN [dirty |-> batch[u].dirty \cup b.dirty,
                                                gone |-> batch[u].gone \cup b.gone]
                          ELSE batch[u]]
  <2>1. scope[t] \in Tasks
    BY <1>4 DEF ScopesOpen, Shape, ScopeShape
  <2>2. /\ batch'[scope[t]].dirty = batch[scope[t]].dirty \cup b.dirty
        /\ batch'[scope[t]].gone = batch[scope[t]].gone \cup b.gone
        /\ \A u \in Tasks : /\ batch[u].dirty \subseteq batch'[u].dirty
                            /\ batch[u].gone \subseteq batch'[u].gone
    BY <1>4, <2>1
  <2>3. \A k \in Keys :
            /\ k \notin Unsaved' => k \notin Unsaved /\ k \notin b.dirty \cup b.gone
            /\ k \notin refused' \cup BatchGone' =>
                   k \notin refused \cup BatchGone /\ k \notin b.gone
    BY <1>4, <2>1, <2>2 DEF Unsaved, BatchGone
  <2> QED
    BY <1>4, <2>3, QuietCarried
<1> QED
  BY <1>2, <1>3, <1>4 DEF AutoSave, ghosts

\* Steps that leave the state, the queue and the batches alone.
LEMMA StillCarried ==
    ASSUME Carried, UNCHANGED <<mem, durable, queue, error, batch, refused>>
    PROVE  Carried'
BY UnsavedSame, QuietCarried

LEMMA ChangeCarried ==
    ASSUME Shape, Order, Shape', Order', Ref(mem'), Carried, ScopesOpen,
           NEW t \in Tasks, NEW k \in Keys, Update(t, k) \/ Forget(t, k)
    PROVE  Carried'
<1>1. CASE Update(t, k)
  <2> DEFINE b == [dirty |-> {k}, gone |-> {}]
  <2>1. Change(k) /\ AutoSave(t, b) /\ UNCHANGED <<durable, error>>
    BY <1>1 DEF Update, Change
  <2>2. mem'[k] # 0 /\ \A j \in Keys \ {k} : mem'[j] = mem[j]
    BY <2>1 DEF Change, Shape, StoreShape, StampsTo
  <2>3. b \in Batches /\ b.dirty = {k} /\ b.gone = {}
    BY DEF Batches
  <2> HIDE DEF b
  <2> QED
    BY <2>1, <2>2, <2>3, AutoSaveCarried
<1>2. CASE Forget(t, k)
  <2> DEFINE b == [dirty |-> {}, gone |-> {k}]
  <2>1. mem' = [mem EXCEPT ![k] = 0] /\ AutoSave(t, b) /\ UNCHANGED <<durable, error>>
    BY <1>2 DEF Forget
  <2>2. mem'[k] = 0 /\ \A j \in Keys \ {k} : mem'[j] = mem[j]
    BY <2>1 DEF Shape, StoreShape, StampsTo
  <2>3. b \in Batches /\ b.dirty = {} /\ b.gone = {k}
    BY DEF Batches
  <2> HIDE DEF b
  <2> QED
    BY <2>1, <2>2, <2>3, AutoSaveCarried
<1> QED
  BY <1>1, <1>2

LEMMA CommitCarried ==
    ASSUME Shape, Order, Shape', Order', Ref(mem'), Carried,
           NEW t \in Tasks, NEW k \in Keys, Commit(t, k)
    PROVE  Carried'
<1> DEFINE b == [dirty |-> {k}, gone |-> {}]
           d == Capture(mem', b)
<1>1. Change(k) /\ Enqueue(d) /\ UNCHANGED <<durable, error, batch, refused>>
  BY DEF Commit, Submit, SubmitAs, Change, scopes
<1>2. clock' \in Nat /\ mem' \in StampsTo(clock') /\ b \in Batches
  BY DEF Shape, StoreShape, Batches
<1>3. mem'[k] # 0 /\ \A j \in Keys \ {k} : mem'[j] = mem[j]
  BY <1>1 DEF Change, Shape, StoreShape, StampsTo
<1>4. Delta(d) /\ FromState(d, mem')
  <2>1. d \in DeltasTo(clock')
    BY <1>2, CaptureShape
  <2> QED
    BY <1>2, <2>1, CaptureFrom, DeltaOfShape
<1>5. d.rows[k] = mem'[k]
  BY DEF Capture
<1> HIDE DEF d
<1>6. \A j \in Keys : d.rows[j] = 0 => mem'[j] = mem[j]
  BY <1>3, <1>5
<1> QED
  BY <1>1, <1>4, <1>6, UnsavedSame, SubmitCarried

\* The batch of the scope is queued, or refused; none of it is forgotten.
LEMMA CloseScopeCarried ==
    ASSUME Shape, Order, Shape', Order', Ref(mem'), Carried, NEW t \in Tasks, CloseScope(t)
    PROVE  Carried'
<1>1. UNCHANGED <<store, error>> /\ batch' = [batch EXCEPT ![t] = EmptyBatch]
  BY DEF CloseScope
<1>2. /\ batch'[t] = EmptyBatch /\ \A u \in Tasks \ {t} : batch'[u] = batch[u]
      /\ batch[t] \in Batches
  BY <1>1 DEF Shape, ScopeShape
<1>3. ASSUME NEW k \in Keys, refused \subseteq refused'
      PROVE  /\ k \notin Unsaved' => k \notin Unsaved \/ k \in batch[t].dirty \cup batch[t].gone
             /\ k \notin refused' \cup BatchGone' => k \notin refused \cup BatchGone
                                                     \/ k \in batch[t].gone
             /\ k \notin Unsaved' =>
                    k \notin refused /\ \A u \in Tasks \ {t} : k \notin batch[u].gone
  BY <1>2, <1>3 DEF Unsaved, BatchGone
<1>4. CASE batch[t] = EmptyBatch /\ UNCHANGED <<queue, ghosts>>
  <2>1. batch' = batch
    BY <1>1, <1>2, <1>4 DEF Shape, ScopeShape
  <2> QED
    BY <1>1, <1>4, <2>1, StillCarried DEF store, ghosts
<1>5. CASE SubmitDirty(Capture(mem, batch[t])) /\ UNCHANGED refused
  <2>1. PICK e \in {Capture(mem, batch[t]), CaptureError} : Enqueue(e)
    BY <1>5 DEF SubmitDirty, Submit, SubmitAs
  <2>2. Delta(e) /\ FromState(e, mem')
    <3>1. clock \in Nat /\ mem \in StampsTo(clock) /\ mem' = mem
      BY <1>1 DEF Shape, StoreShape, store
    <3>2. \A k \in batch[t].gone : mem[k] = 0
      BY DEF Order, Buried, Dead
    <3>3. e \in DeltasTo(clock)
      BY <1>2, <2>1, <3>1, CaptureShape, CaptureErrorShape
    <3>4. FromState(e, mem)
      BY <2>1, <3>2, CaptureFrom, CaptureErrorFrom
    <3> QED
      BY <3>1, <3>3, <3>4, DeltaOfShape
  <2>3. ASSUME ~e.bad, NEW k \in Keys, e.rows[k] = 0, {k, Owner[k]} \cap e.gone = {}
        PROVE  /\ k \notin batch[t].gone
               /\ k \in batch[t].dirty => mem[k] = 0
    BY <2>1, <2>3 DEF Capture, CaptureError
  <2>4. ~e.bad => \A k \in Keys :
            e.rows[k] = 0 /\ ~e.full /\ {k, Owner[k]} \cap e.gone = {} =>
                /\ mem'[k] = mem[k]
                /\ k \notin Unsaved' => \/ k \notin Unsaved
                                        \/ mem[k] = 0 /\ k \notin refused \cup BatchGone
                /\ k \notin refused' \cup BatchGone' => k \notin refused \cup BatchGone
    <3> SUFFICES ASSUME ~e.bad, NEW k \in Keys, e.rows[k] = 0, {k, Owner[k]} \cap e.gone = {}
                 PROVE  /\ mem'[k] = mem[k]
                        /\ k \notin Unsaved' => \/ k \notin Unsaved
                                                \/ mem[k] = 0 /\ k \notin refused \cup BatchGone
                        /\ k \notin refused' \cup BatchGone' => k \notin refused \cup BatchGone
      OBVIOUS
    <3>1. k \notin batch[t].gone /\ (k \in batch[t].dirty => mem[k] = 0)
      BY <2>3
    <3>2. k \notin Unsaved' => k \notin refused \cup BatchGone
      BY <1>3, <1>5, <3>1 DEF BatchGone
    <3> QED
      BY <1>1, <1>3, <1>5, <3>1, <3>2 DEF store
  <2> QED
    BY <1>1, <2>1, <2>2, <2>4, SubmitCarried DEF store
<1>6. CASE /\ refused' = refused \cup batch[t].dirty \cup batch[t].gone
           /\ UNCHANGED queue
  <2>1. \A k \in Keys :
            /\ k \notin Unsaved' => k \notin Unsaved
            /\ k \notin refused' \cup BatchGone' => k \notin refused \cup BatchGone
    BY <1>3, <1>6 DEF Unsaved
  <2> QED
    BY <1>1, <1>6, <2>1, QuietCarried DEF store
<1> QED
  BY <1>4, <1>5, <1>6 DEF CloseScope

LEMMA SaveCarried ==
    ASSUME Shape, Order, Shape', Order', Ref(mem'), Carried, NEW t \in Tasks, Save(t)
    PROVE  Carried'
<1>1. UNCHANGED <<mem, durable, error, batch, refused>>
  BY DEF Save, store, scopes
<1>2. CASE UNCHANGED queue
  BY <1>1, <1>2, StillCarried
<1>3. CASE Enqueue(CaptureAll(mem))
  <2>1. Delta(CaptureAll(mem))
    BY CaptureAllShape, DeltaOfShape DEF Shape, StoreShape
  <2>2. CaptureAll(mem).full /\ FromState(CaptureAll(mem), mem')
    BY <1>1, CaptureAllFrom DEF CaptureAll
  <2> QED
    BY <1>1, <1>3, <2>1, <2>2, SubmitCarried
<1> QED
  BY <1>2, <1>3 DEF Save, SubmitAs

LEMMA DeleteCarried ==
    ASSUME Shape, Order, Shape', Order', Ref(mem'), Carried, NEW t \in Tasks, Delete(t)
    PROVE  Carried'
<1>1. UNCHANGED <<durable, error, batch, refused>>
  BY DEF Delete, scopes
<1>2. CASE UNCHANGED <<mem, queue>>
  BY <1>1, <1>2, StillCarried
<1>3. ASSUME NEW a \in Identities, mem' = Without(mem, {a}),
             SubmitDirty(Capture(mem', [dirty |-> {}, gone |-> {a}]))
      PROVE  Carried'
  <2> DEFINE b == [dirty |-> {}, gone |-> {a}]
  <2>1. PICK e \in {Capture(mem', b), CaptureError} : Enqueue(e)
    BY <1>3 DEF SubmitDirty, Submit, SubmitAs
  <2>2. a \in Keys /\ b \in Batches
    BY <1>3 DEF Identities, Batches
  <2>3. mem'[a] = 0
    BY <1>3, <2>2 DEF Without
  <2>4. Delta(e) /\ FromState(e, mem')
    <3>1. clock' \in Nat /\ mem' \in StampsTo(clock')
      BY DEF Shape, StoreShape
    <3>2. e \in DeltasTo(clock')
      BY <2>1, <2>2, <3>1, CaptureShape, CaptureErrorShape
    <3>3. FromState(e, mem')
      BY <2>1, <2>3, CaptureFrom, CaptureErrorFrom
    <3> QED
      BY <3>1, <3>2, <3>3, DeltaOfShape
  <2>5. ~e.bad => e.gone = {a}
    BY <2>1 DEF Capture, CaptureError
  <2>6. \A k \in Keys : {k, Owner[k]} \cap {a} = {} => mem'[k] = mem[k]
    BY <1>3 DEF Without
  <2> HIDE DEF b
  <2> QED
    BY <1>1, <2>1, <2>4, <2>5, <2>6, UnsavedSame, SubmitCarried
<1> QED
  BY <1>2, <1>3 DEF Delete

\* What is written was queued, and what is started was waiting.
LEMMA WriterCarried ==
    ASSUME Shape, Carried, WriteSucceeds \/ WriteFails
    PROVE  Carried'
<1>1. CASE WriteFails
  BY <1>1 DEF WriteFails, Carried
<1>2. CASE WriteSucceeds
  <2>1. PICK d \in active : ~d.bad /\ durable' = Apply(durable, d)
    BY <1>2 DEF WriteSucceeds
  <2>2. /\ active' = pending /\ pending' = {} /\ UNCHANGED <<mem, error, batch, refused>>
    BY <1>2 DEF WriteSucceeds, Promote, scopes, ghosts
  <2>3. active = {d}
    BY <2>1 DEF Shape, QueueShape, AtMostOne
  <2>4. Queued' = Written(Apply(durable, d), pending)
    BY <2>1, <2>2, WrittenNothing DEF Queued
  <2>5. Queued = Written(Apply(durable, d), pending)
    BY <2>1, <2>3, WrittenOne DEF Queued
  <2>6. NoBad' => NoBad
    BY <2>1, <2>2, <2>3 DEF NoBad
  <2> QED
    BY <2>2, <2>4, <2>5, <2>6, UnsavedSame DEF Carried
<1> QED
  BY <1>1, <1>2

LEMMA ScopesStayOpen ==
    ASSUME ~EmergencyWakeup, Shape, ScopesOpen, [Next]_vars
    PROVE  ScopesOpen'
<1>1. CASE UNCHANGED <<scope, detached>>
  BY <1>1 DEF ScopesOpen
<1>2. ASSUME NEW t \in Tasks, OpenScope(t) \/ EndTask(t) \/ \E root \in Tasks : Join(t, root)
      PROVE  ScopesOpen'
  BY <1>2, PersistenceAssumption
  DEF ScopesOpen, OpenScope, EndTask, Join, Shape, ScopeShape, PersistenceAssumption
<1>3. ASSUME NEW t \in Tasks, CloseScope(t) PROVE ScopesOpen'
  <2>1. \A u \in Tasks \ {t} : scope[u] # t
    BY <1>3 DEF CloseScope, ScopesOpen
  <2> QED
    BY <1>3, <2>1, PersistenceAssumption DEF ScopesOpen, CloseScope, PersistenceAssumption
<1>4. CASE UNCHANGED vars
  BY <1>1, <1>4 DEF vars, scopes
<1>5. CASE WriteSucceeds \/ WriteFails
  BY <1>1, <1>5 DEF WriteSucceeds, WriteFails, scopes
<1>6. ASSUME NEW t \in Tasks, Step(t), ~CloseScope(t),
             ~(OpenScope(t) \/ EndTask(t) \/ \E root \in Tasks : Join(t, root))
      PROVE  UNCHANGED <<scope, detached>>
  BY <1>6 DEF Step, Proceed, Wakeup, Update, Forget, Commit, CancelCommit, Start, CancelWait,
     CommitSucceeds, CommitFails, FlushAgain, FlushRaises, FlushReturns, CloseReturns,
     SaveFlushed, Save, SaveReturns, Delete, DeleteFails, scopes
<1> QED
  BY <1>1, <1>2, <1>3, <1>4, <1>5, <1>6 DEF Next

LEMMA InitCarried == Init => Carried /\ ScopesOpen
<1> SUFFICES ASSUME Init PROVE Carried /\ ScopesOpen
  OBVIOUS
<1>1. active = {} /\ pending = {} /\ durable = mem
  BY DEF Init
<1>2. Queued = mem
  BY <1>1, WrittenNothing DEF Queued
<1>3. ScopesOpen
  BY PersistenceAssumption DEF Init, ScopesOpen, PersistenceAssumption
<1> QED
  BY <1>2, <1>3 DEF Carried

\* Carried is inductive where no task outlives the scope it was started in: a
\* batch is queued whole, and the queue keeps what it was given.
THEOREM CarriedInvariant ==
    ASSUME ~EmergencyWakeup
    PROVE  Spec => [](Carried /\ ScopesOpen)
<1>1. ASSUME Shape, Order, Whole, Carried, ScopesOpen, [Next]_vars, Shape', Order', Whole'
      PROVE  Carried'
  <2>1. Ref(mem')
    BY <1>1 DEF Whole
  <2>2. CASE UNCHANGED vars
    BY <1>1, <2>2, StillCarried DEF vars, store, writer, scopes, ghosts
  <2>3. CASE WriteSucceeds \/ WriteFails
    BY <1>1, <2>3, WriterCarried
  <2>4. ASSUME NEW t \in Tasks, Step(t) PROVE Carried'
    <3>1. CASE \E k \in Keys : Update(t, k) \/ Forget(t, k) \/ Commit(t, k)
      BY <1>1, <2>1, <3>1, ChangeCarried, CommitCarried
    <3>2. CASE CloseScope(t) \/ Save(t) \/ Delete(t)
      BY <1>1, <2>1, <3>2, CloseScopeCarried, SaveCarried, DeleteCarried
    <3>3. CASE CommitFails(t) \/ DeleteFails(t)
      <4>1. error /\ error' = error
        BY <1>1, <3>3 DEF CommitFails, DeleteFails, Order, writer
      <4> QED
        BY <4>1 DEF Carried
    <3>4. CASE \/ OpenScope(t) \/ EndTask(t) \/ \E root \in Tasks : Join(t, root) \/ Wakeup(t, root)
               \/ CommitSucceeds(t) \/ CancelCommit(t)
               \/ Start(t) \/ FlushAgain(t) \/ FlushRaises(t) \/ FlushReturns(t)
               \/ CloseReturns(t) \/ SaveFlushed(t) \/ SaveReturns(t) \/ CancelWait(t)
      <4>1. UNCHANGED <<mem, durable, queue, error, batch, refused>>
        BY <3>4 DEF OpenScope, EndTask, Join, Wakeup, CommitSucceeds, CancelCommit, Start,
           FlushAgain, FlushRaises, FlushReturns, CloseReturns, SaveFlushed, SaveReturns,
           CancelWait, store, writer, scopes, ghosts
      <4> QED
        BY <1>1, <4>1, StillCarried
    <3> QED
      BY <2>4, <3>1, <3>2, <3>3, <3>4 DEF Step, Proceed
  <2> QED
    BY <1>1, <2>2, <2>3, <2>4 DEF Next
<1>2. ASSUME Shape, ScopesOpen, [Next]_vars PROVE ScopesOpen'
  BY <1>2, ScopesStayOpen
<1> QED
  BY <1>1, <1>2, InitCarried, ShapeInvariant, OrderInvariant, WholeInvariant, PTL DEF Spec

\* Without emergency wakeups, whatever has been coalesced, batched, deleted or
\* saved in full: when the writer is idle and no write has failed the database
\* holds the runtime state (PersistenceCoordinator, suppress_auto_save).
THEOREM NoUpdateIsLost ==
    ASSUME ~EmergencyWakeup
    PROVE  Spec => []NoLostUpdate
<1>1. ASSUME Carried PROVE NoLostUpdate
  <2> SUFFICES ASSUME active = {}, pending = {}, ~error, NEW k \in Keys \ Unsaved
               PROVE  durable[k] = mem[k]
    BY DEF NoLostUpdate
  <2>1. Queued = durable
    BY WrittenNothing DEF Queued
  <2> QED
    BY <1>1, <2>1 DEF Carried, NoBad
<1> QED
  BY <1>1, CarriedInvariant, PTL

=============================================================================
