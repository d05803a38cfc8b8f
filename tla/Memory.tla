------------------------------- MODULE Memory -------------------------------
(***************************************************************************)
(* Selective episodic memory (core/manager/memory): the turns of Agents    *)
(* leave segments, workers index them in the background, and Agents        *)
(* recall, retain and forget the cards; with the changes of an identity,   *)
(* restores and crashes.                                                   *)
(*                                                                         *)
(* A turn leaves at most one segment and a segment one card: all three     *)
(* have the name of the turn.  What a turn saves goes to the batch of its  *)
(* discussion; workers and the host save at once.  disk is what the        *)
(* database will hold once the deltas captured so far have been written.   *)
(* The content of segments and cards, and searching, are left out.         *)
(***************************************************************************)
EXTENDS Naturals, FiniteSets

CONSTANTS
    Agents,
    Turns,
    Owner,         \* the Agent of each turn
    Talks,         \* discussions
    Within,        \* the discussion of each turn, or NoTalk for a personal turn
    NoTalk,
    Workers,       \* config.episodic_memory.index_worker_count
    Slots,         \* size of the queue, four times Workers in the code
    MaxRetries,    \* index_max_retries
    MaxRetained,   \* max_retained_context_items
    Starts         \* what a behaviour may do: the turns in it and the bounds

\* How often what disturbs a behaviour may happen in it
Bounds ==
    {"cancels", "keeps", "errors", "retries", "flushes", "restored", "toggles",
     "changes", "faults", "restarts", "restores"}

ASSUME MemoryAssumption ==
    /\ IsFiniteSet(Turns)
    /\ Owner \in [Turns -> Agents] /\ Within \in [Turns -> Talks \cup {NoTalk}]
    /\ NoTalk \notin Talks
    /\ Workers \in Nat \ {0} /\ Slots \in Nat \ {0}
    /\ MaxRetries \in Nat /\ MaxRetained \in Nat \ {0}
    /\ \A s \in Starts : s.turns \subseteq Turns /\ \A b \in Bounds : s[b] \in Nat

VARIABLES
    enabled,     \* config.episodic_memory.enabled
    synced,      \* _fts_sync_active
    suspended,   \* _restore_suspended, while load_state holds the gate
    turns,       \* of each turn: whether it runs, and what it has recalled
    journal,     \* events: those that begin and end turns, and of indexing
    segs,        \* segments
    cards,
    refs,        \* retained references, numbered by age, with their cards
    queue,       \* segments that wait for a worker; their order is left out
    busy,        \* what the workers do
    batch,       \* _persistence_batch of each discussion
    lifecycle,   \* of each Agent
    changing,    \* changes of an identity that await their commit
    disk,
    spent,
    limit        \* the start: it never changes

memVars == <<turns, journal, segs, cards, refs>>
indexVars == <<queue, busy>>
modeVars == <<enabled, synced, suspended>>
vars == <<memVars, indexVars, modeVars, batch, lifecycle, changing, disk, spent, limit>>

NoSegment == [status |-> "none", attempts |-> 0, whole |-> TRUE]
NoBatch == [open |-> FALSE, segs |-> {}, cards |-> {}, refs |-> {}, gone |-> {}]

Present(s) == {t \in Turns : s[t].status # "none"}
In(s, status) == {t \in Turns : s[t].status = status}
OwnedBy(a) == {t \in Turns : Owner[t] = a}
Active(a) == lifecycle[a] = "active"
Changes(a) == {c \in changing : c.agent = a}

\* agent.lock is held by a turn or by an indexing call.
Locked(a) ==
    \/ \E t \in OwnedBy(a) : turns[t].runs
    \/ \E w \in busy : Owner[w.seg] = a /\ w.at = "call"

Count(what) == spent' = [spent EXCEPT ![what] = @ + 1]
May(what) == spent[what] < limit[what]

-----------------------------------------------------------------------------
(* Saving: capture_memory_records adds what the records refer to. *)

CardsOf(items) ==
    LET named == items.cards \cup {r[2] : r \in {x \in refs' : x[1] \in items.refs}}
    IN  named \cup {t \in named \cup items.segs : segs'[t].status = "INDEXED"}

Captured(items) ==
    LET C == CardsOf(items)
        S == items.segs \cup C
    IN  [segs |-> [t \in Turns |-> IF t \in S \cap Present(segs') THEN segs'[t] ELSE disk.segs[t]],
         cards |-> [t \in Turns |-> IF t \in C /\ cards'[t] # "none" THEN cards'[t] ELSE disk.cards[t]],
         refs |-> {r \in disk.refs : r[1] \notin items.gone} \cup {r \in refs' : r[1] \in items.refs},
         lifecycle |-> disk.lifecycle]

Merged(b, items) ==
    [open |-> TRUE, segs |-> b.segs \cup items.segs, cards |-> b.cards \cup items.cards,
     refs |-> b.refs \cup items.refs, gone |-> b.gone \cup items.gone]

\* _auto_save, in the context of discussion d
Save(d, items) ==
    IF d = NoTalk THEN disk' = Captured(items) /\ UNCHANGED batch
    ELSE batch' = [batch EXCEPT ![d] = Merged(@, items)] /\ UNCHANGED disk

Segments(S) == [NoBatch EXCEPT !.segs = S]
Cards(S) == [NoBatch EXCEPT !.cards = S]

\* The discussion ends; its batch is submitted.
EndTalk(d) ==
    /\ batch[d].open
    /\ \A t \in Turns : Within[t] = d => ~turns[t].runs
    /\ UNCHANGED <<memVars, indexVars, modeVars, lifecycle, changing, spent, limit>>
    /\ disk' = Captured(batch[d])
    /\ batch' = [batch EXCEPT ![d] = NoBatch]

-----------------------------------------------------------------------------
(* The queue. *)

\* Those that _schedule_pending looks for.
Runnable(s) == {t \in In(s, "PENDING") : lifecycle'[Owner[t]] = "active"}

\* Mutant: a segment is free again as soon as a worker has taken it.
FaultySchedule(q, S) ==
    IF enabled' /\ ~suspended' /\ Cardinality(q \cup S) <= Slots THEN queue' = q \cup S ELSE queue' = q

\* _schedule_segment for each of S, in any order, when q is queued: a segment
\* that waits, or that a worker has, is not queued again, nor into a full queue.
Schedule(q, S) ==
    LET new == S \ (q \cup {w.seg : w \in busy'})
        room == Slots - Cardinality(q)
    IN
    IF enabled' /\ ~suspended'
    THEN \E more \in SUBSET new :
            /\ queue' = q \cup more
            /\ Cardinality(more) = IF Cardinality(new) < room THEN Cardinality(new) ELSE room
    ELSE queue' = q

\* ensure_enabled, and then the records of items are saved and S scheduled.
Ensured(d, items, S) ==
    /\ IF enabled THEN synced' = TRUE ELSE synced' = FALSE
    /\ Save(d, IF enabled /\ ~synced THEN Merged(items, Cards({t \in Turns : cards[t] # "none"}))
               ELSE items)
    /\ Schedule(queue, Runnable(segs') \cup S)

\* Mutant: what was being indexed is taken to be so still.
FaultyResumed(s) == s

\* Segments that were being indexed are pending again.
Resumed(s) == [t \in Turns |-> IF s[t].status = "PROCESSING" THEN [s[t] EXCEPT !.status = "PENDING"]
                               ELSE s[t]]

\* resume_pending, when the segments are s
ResumePending(s) ==
    /\ segs' = Resumed(s)
    /\ disk' = Captured(Segments(In(s, "PROCESSING")))
    /\ Schedule(queue, In(segs', "PENDING"))

-----------------------------------------------------------------------------
(* Turns, and what an Agent does in one. *)

BeginTurn(t) ==
    LET a == Owner[t] IN
    /\ t \in limit.turns /\ turns[t] = [begun |-> FALSE, runs |-> FALSE, recalled |-> {}]
    /\ Active(a) /\ Changes(a) = {} /\ ~Locked(a) /\ ~suspended
    /\ turns' = [turns EXCEPT ![t].begun = TRUE, ![t].runs = TRUE]
    /\ journal' = journal \cup {<<"started", t>>}
    /\ UNCHANGED <<segs, cards, refs, indexVars, modeVars, lifecycle, changing, spent, limit>>
    /\ Save(Within[t], NoBatch)

\* finalize_turn: a segment, of all the turn's events that are in the journal
FinishTurn(t) ==
    /\ turns[t].runs
    /\ turns' = [turns EXCEPT ![t].runs = FALSE, ![t].recalled = {}]
    /\ journal' = journal \cup {<<"finished", t>>}
    /\ IF enabled
       THEN segs' = [segs EXCEPT ![t] = [status |-> "PENDING", attempts |-> 0,
                                         whole |-> <<"started", t>> \in journal]]
       ELSE UNCHANGED segs
    /\ UNCHANGED <<cards, refs, busy, enabled, suspended, lifecycle, changing, spent, limit>>
    /\ Ensured(Within[t], Segments(IF enabled THEN {t} ELSE {}), {})

\* cancel_turn: cancelled turns and those that fail leave no segment.
CancelTurn(t) ==
    /\ turns[t].runs /\ May("cancels") /\ Count("cancels")
    /\ turns' = [turns EXCEPT ![t].runs = FALSE, ![t].recalled = {}]
    /\ journal' = journal \cup {<<"cancelled", t>>}
    /\ UNCHANGED <<segs, cards, refs, indexVars, modeVars, batch, disk, lifecycle, changing, limit>>

\* A tool of turn t is called for memory m of its Agent.
Uses(t, m) ==
    /\ turns[t].runs /\ Owner[m] = Owner[t] /\ enabled
    /\ UNCHANGED <<journal, segs, busy, enabled, suspended, lifecycle, changing, limit>>

Recall(t, m) ==
    /\ Uses(t, m) /\ m \notin turns[t].recalled
    /\ cards[m] = "active"
    /\ turns' = [turns EXCEPT ![t].recalled = @ \cup {m}]
    /\ UNCHANGED <<cards, refs, spent>>
    /\ Ensured(Within[t], NoBatch, {})

\* The oldest references of the Agent beyond MaxRetained are removed.
Keep(t, m) ==
    LET new == <<spent.keeps, m>>
        owned == {r \in refs : Owner[r[2]] = Owner[t]} \cup {new}
        removed == {r \in owned : Cardinality({x \in owned : x[1] > r[1]}) >= MaxRetained}
    IN
    /\ Uses(t, m) /\ May("keeps") /\ Count("keeps")
    /\ cards[m] = "active" /\ m \in turns[t].recalled
    /\ refs' = (refs \cup {new}) \ removed
    /\ UNCHANGED <<turns, cards>>
    /\ Ensured(Within[t], [NoBatch EXCEPT !.refs = {new[1]}, !.gone = {r[1] : r \in removed}], {})

\* Mutant: the references are kept.
FaultyForgotten(m) == {}

\* The references that are removed with card m.
Forgotten(m) == {r \in refs : r[2] = m}

Forget(t, m) ==
    /\ Uses(t, m) /\ cards[m] = "active"
    /\ cards' = [cards EXCEPT ![m] = "forgotten"]
    /\ refs' = refs \ Forgotten(m)
    /\ UNCHANGED <<turns, spent>>
    /\ Ensured(Within[t], [Cards({m}) EXCEPT !.gone = {r[1] : r \in Forgotten(m)}], {})

-----------------------------------------------------------------------------
(* Workers. *)

\* Mutant: a worker does not look for more to do.
FaultyLookOn(q) == queue' = q

\* What a worker does last: _schedule_pending
LookOn(q) == Schedule(q, Runnable(segs'))

\* _index_worker takes a segment, which may have become unfit for indexing.
Take(t) ==
    /\ t \in queue /\ Cardinality(busy) < Workers
    /\ UNCHANGED <<turns, journal, cards, refs, modeVars, batch, lifecycle, changing, spent, limit>>
    /\ IF segs[t].status = "PENDING" /\ enabled /\ Active(Owner[t])
       THEN /\ segs' = [segs EXCEPT ![t].status = "PROCESSING"]
            /\ busy' = busy \cup {[seg |-> t, at |-> "wait", own |-> TRUE]}
            /\ queue' = queue \ {t}
            /\ disk' = Captured(Segments({t}))
       ELSE /\ UNCHANGED <<segs, busy, disk>>
            /\ LookOn(queue \ {t})

\* agent_invocation lets the worker in.
Admit(w) ==
    LET a == Owner[w.seg] IN
    /\ w \in busy /\ w.at = "wait"
    /\ Active(a) /\ Changes(a) = {} /\ ~Locked(a) /\ ~suspended
    /\ busy' = (busy \ {w}) \cup {[w EXCEPT !.at = "call"]}
    /\ UNCHANGED <<memVars, queue, modeVars, batch, lifecycle, changing, disk, spent, limit>>

Ends(w) == busy' = busy \ {w} /\ LookOn(queue)

\* What no step of a worker changes
Outside == <<turns, refs, modeVars, batch, lifecycle, changing, limit>>

\* The answer of the model.  It is dropped if the segment has been deleted, or
\* replaced by a restore or a rollback; if the mode is off it is for later.
Answer(w) ==
    LET t == w.seg IN
    /\ w \in busy /\ w.at = "call"
    /\ UNCHANGED <<Outside, spent>>
    /\ IF ~w.own THEN UNCHANGED <<journal, segs, cards, disk>>
       ELSE IF ~enabled
       THEN /\ segs' = [segs EXCEPT ![t].status = "PENDING"]
            /\ UNCHANGED <<journal, cards>>
            /\ disk' = Captured(Segments({t}))
       ELSE /\ cards' = [cards EXCEPT ![t] = IF @ = "none" THEN "active" ELSE @]
            /\ segs' = [segs EXCEPT ![t].status = "INDEXED"]
            /\ journal' = journal \cup {<<"indexed", t>>}
            /\ disk' = Captured([Segments({t}) EXCEPT !.cards = {t}])
    /\ Ends(w)

\* The model, or what it has answered, fails; or the Agent is not invoked.
Refused(w) == w.at = "wait" /\ ~Active(Owner[w.seg])

Failed(x) ==
    [x EXCEPT !.attempts = @ + 1, !.status = IF x.attempts >= MaxRetries THEN "FAILED" ELSE "PENDING"]

IndexFails(w) ==
    LET t == w.seg IN
    /\ w \in busy
    /\ UNCHANGED <<Outside, journal, cards>>
    /\ \/ Refused(w) /\ UNCHANGED spent
       \/ w.at = "call" /\ May("errors") /\ Count("errors")
    /\ IF ~w.own THEN UNCHANGED <<segs, disk>> /\ Ends(w)
       ELSE /\ segs' = [segs EXCEPT ![t] = Failed(@)]
            /\ disk' = Captured(Segments({t}))
            /\ IF segs'[t].status = "FAILED" THEN Ends(w)
               ELSE busy' = (busy \ {w}) \cup {[w EXCEPT !.at = "sleep"]} /\ UNCHANGED queue

\* The end of the delay before another attempt
Wake(w) ==
    /\ w \in busy /\ w.at = "sleep"
    /\ UNCHANGED <<Outside, journal, segs, cards, disk, spent>>
    /\ Ends(w)

-----------------------------------------------------------------------------
(* The host, which waits for its load_state (a bound). *)

Host(what) == ~suspended /\ May(what) /\ Count(what)

RetryIndex(t) ==
    /\ segs[t].status \in {"PENDING", "FAILED"} /\ Host("retries")
    /\ segs' = [segs EXCEPT ![t].status = "PENDING", ![t].attempts = 0]
    /\ UNCHANGED <<turns, journal, cards, refs, busy, modeVars, batch, lifecycle, changing, limit>>
    /\ disk' = Captured(Segments({t}))
    /\ Schedule(queue, {t})

\* flush_indexing, before it waits; while it waits it schedules what is runnable.
Flush ==
    /\ enabled /\ Host("flushes")
    /\ segs' = Resumed(segs)
    /\ UNCHANGED <<turns, journal, cards, refs, busy, enabled, suspended, lifecycle, changing, limit>>
    /\ Ensured(NoTalk, Segments(In(segs, "PROCESSING")), In(segs', "PENDING"))

RestoreForgotten(m) ==
    /\ cards[m] = "forgotten" /\ Host("restored")
    /\ cards' = [cards EXCEPT ![m] = "active"]
    /\ UNCHANGED <<turns, journal, segs, refs, busy, enabled, suspended, lifecycle, changing, limit>>
    /\ Ensured(NoTalk, Cards({m}), {})

\* The configuration is changed; whoever uses the memory next notices.
Toggle ==
    /\ Host("toggles")
    /\ enabled' = ~enabled
    /\ UNCHANGED <<memVars, indexVars, synced, suspended, batch, lifecycle, changing, disk, limit>>

-----------------------------------------------------------------------------
(* Identities (core/manager/agents.py).  A change is flushed, or fails. *)

Begins(a, kind, fails, old) ==
    /\ Changes(a) = {} /\ ~Locked(a) /\ ~suspended
    /\ spent.changes < limit.changes /\ (fails => spent.faults < limit.faults)
    /\ changing' = changing \cup {[agent |-> a, kind |-> kind, fails |-> fails, old |-> old]}
    /\ spent' = [spent EXCEPT !.changes = @ + 1, !.faults = @ + IF fails THEN 1 ELSE 0]

Retain(a, fails) ==
    /\ Active(a)
    /\ Begins(a, "retain", fails, {})
    /\ lifecycle' = [lifecycle EXCEPT ![a] = "retained"]
    /\ disk' = IF fails THEN disk ELSE [disk EXCEPT !.lifecycle[a] = "retained"]
    /\ UNCHANGED <<memVars, indexVars, modeVars, batch, limit>>

Reactivate(a, fails) ==
    /\ lifecycle[a] = "retained"
    /\ Begins(a, "reactivate", fails, {})
    /\ lifecycle' = [lifecycle EXCEPT ![a] = "active"]
    /\ disk' = IF fails THEN disk ELSE [disk EXCEPT !.lifecycle[a] = "active"]
    /\ UNCHANGED <<memVars, indexVars, modeVars, batch, limit>>

\* What remove_agent_derived_state leaves.
Without(a, x) ==
    [x EXCEPT !.segs = [t \in Turns |-> IF Owner[t] = a THEN NoSegment ELSE @[t]],
              !.cards = [t \in Turns |-> IF Owner[t] = a THEN "none" ELSE @[t]],
              !.refs = {r \in @ : Owner[r[2]] # a}]

Contents == [journal |-> journal, segs |-> segs, cards |-> cards, refs |-> refs]

SetMemory(x) == journal' = x.journal /\ segs' = x.segs /\ cards' = x.cards /\ refs' = x.refs

\* The workers' segments of S are no longer those of the service.
Disowned(S) == {[w EXCEPT !.own = @ /\ w.seg \notin S] : w \in busy}

Delete(a, fails) ==
    /\ Active(a)
    /\ Begins(a, "delete", fails, {Contents})
    /\ lifecycle' = [lifecycle EXCEPT ![a] = "deleting"]
    /\ SetMemory(Without(a, Contents))
    /\ busy' = Disowned(OwnedBy(a))
    /\ synced' = (synced /\ enabled)
    /\ disk' = IF fails THEN disk ELSE [Without(a, disk) EXCEPT !.lifecycle[a] = "deleted"]
    /\ UNCHANGED <<turns, queue, enabled, suspended, batch, limit>>

\* The flush has returned.
Confirmed(c) ==
    /\ c \in changing /\ ~c.fails
    /\ changing' = changing \ {c}
    /\ lifecycle' = IF c.kind = "delete" THEN [lifecycle EXCEPT ![c.agent] = "deleted"] ELSE lifecycle
    /\ UNCHANGED <<turns, journal, cards, refs, busy, modeVars, batch, spent, limit>>
    /\ IF c.kind = "reactivate" THEN ResumePending(segs)
       ELSE UNCHANGED <<segs, queue, disk>>

\* The flush has failed.
RolledBack(c) ==
    /\ c \in changing /\ c.fails
    /\ changing' = changing \ {c}
    /\ lifecycle' = [lifecycle EXCEPT ![c.agent] = IF c.kind = "reactivate" THEN "retained" ELSE "active"]
    /\ IF c.kind = "delete"
       THEN /\ \E old \in c.old : SetMemory([old EXCEPT !.segs = Resumed(@)])
            /\ turns' = [t \in Turns |-> [turns[t] EXCEPT !.recalled = {}]]
            /\ busy' = Disowned(Turns)
            /\ synced' = FALSE
       ELSE UNCHANGED <<memVars, busy, synced>>
    /\ UNCHANGED <<queue, enabled, suspended, batch, disk, spent, limit>>

-----------------------------------------------------------------------------
(* Restores and crashes. *)

\* What validate_memory_state asks of segments, cards and references.
Valid(x, living) ==
    /\ \A t \in Present(x.segs) : Owner[t] \in living /\ x.segs[t].whole
    /\ \A t \in Turns : x.cards[t] # "none" <=> x.segs[t].status = "INDEXED"
    /\ \A r \in x.refs : x.cards[r[2]] = "active"

Living(l) == {a \in Agents : l[a] # "deleted"}

\* suspend_for_restore, when nothing of what it refuses is going on.  Bounds:
\* no identity is changing, and the configuration is as it was saved.
Suspend ==
    /\ May("restores") /\ Count("restores") /\ spent.toggles = 0
    /\ ~suspended /\ changing = {}
    /\ \A a \in Agents : ~Locked(a)
    /\ \A d \in Talks : ~batch[d].open
    /\ suspended' = TRUE /\ busy' = {} /\ queue' = {}
    /\ segs' = Resumed(segs)
    /\ UNCHANGED <<turns, journal, cards, refs, enabled, synced, batch, lifecycle, changing, limit>>
    /\ disk' = Captured(Segments(In(segs, "PROCESSING")))

\* What is loaded: the memory of x, its indexing interrupted
Loaded(x) ==
    /\ Valid(x, Living(x.lifecycle))
    /\ segs' = Resumed(x.segs) /\ cards' = x.cards /\ refs' = x.refs
    /\ lifecycle' = x.lifecycle
    /\ synced' = FALSE

\* load_state ends; it has published what it has read, or has failed.
EndRestore(ok) ==
    /\ suspended /\ suspended' = FALSE
    /\ IF ok THEN Loaded(disk) ELSE UNCHANGED <<segs, cards, refs, lifecycle, synced>>
    /\ UNCHANGED <<turns, journal, busy, enabled, batch, changing, disk, spent, limit>>
    /\ Schedule(queue, In(segs', "PENDING"))

\* A crash, after which the saved state is loaded into a new manager.  Events
\* that had not been saved stay in journal: no turn asks for them again.
Restart ==
    /\ May("restarts") /\ Count("restarts") /\ spent.toggles = 0
    /\ Loaded(disk)
    /\ suspended' = FALSE /\ busy' = {} /\ changing' = {}
    /\ turns' = [t \in Turns |-> [turns[t] EXCEPT !.runs = FALSE, !.recalled = {}]]
    /\ batch' = [d \in Talks |-> NoBatch]
    /\ UNCHANGED <<journal, enabled, disk, limit>>
    /\ Schedule({}, In(segs', "PENDING"))

-----------------------------------------------------------------------------

Init ==
    /\ limit \in Starts
    /\ spent = [b \in Bounds |-> 0]
    /\ enabled = TRUE /\ synced = FALSE /\ suspended = FALSE
    /\ turns = [t \in Turns |-> [begun |-> FALSE, runs |-> FALSE, recalled |-> {}]]
    /\ journal = {} /\ refs = {} /\ queue = {} /\ busy = {} /\ changing = {}
    /\ segs = [t \in Turns |-> NoSegment] /\ cards = [t \in Turns |-> "none"]
    /\ batch = [d \in Talks |-> NoBatch]
    /\ lifecycle = [a \in Agents |-> "active"]
    /\ disk = [segs |-> segs, cards |-> cards, refs |-> {}, lifecycle |-> lifecycle]

\* What a worker does with the segment of turn t.
Work(t) ==
    \/ Take(t)
    \/ \E w \in busy : w.seg = t /\ (Admit(w) \/ Answer(w) \/ IndexFails(w) \/ Wake(w))

Return(a) == \E c \in changing : c.agent = a /\ (Confirmed(c) \/ RolledBack(c))

EndLoad == \E ok \in BOOLEAN : EndRestore(ok)

InTurn(t) ==
    \/ BeginTurn(t) \/ FinishTurn(t) \/ CancelTurn(t)
    \/ \E m \in Turns : Recall(t, m) \/ Keep(t, m) \/ Forget(t, m)

OfAgent(a) ==
    \/ \E fails \in BOOLEAN : Retain(a, fails) \/ Reactivate(a, fails) \/ Delete(a, fails)
    \/ Return(a)

Next ==
    \/ \E t \in Turns : InTurn(t) \/ Work(t) \/ RetryIndex(t) \/ RestoreForgotten(t)
    \/ \E d \in Talks : EndTalk(d)
    \/ \E a \in Agents : OfAgent(a)
    \/ Flush \/ Toggle \/ Suspend \/ EndLoad \/ Restart

Spec == Init /\ [][Next]_vars

\* Turns, model calls, delays and flushes end, and workers are scheduled.
Fairness ==
    /\ \A t \in Turns : WF_vars(FinishTurn(t)) /\ WF_vars(Work(t))
    /\ \A a \in Agents : WF_vars(Return(a))
    /\ WF_vars(EndLoad)

FairSpec == Spec /\ Fairness

-----------------------------------------------------------------------------
(* Properties. *)

\* Every variable keeps its type; no two workers have the same segment, and
\* none that a worker has is queued (_queued_segment_ids).
TypeOK ==
    /\ enabled \in BOOLEAN /\ synced \in BOOLEAN /\ suspended \in BOOLEAN
    /\ turns \in [Turns -> [begun : BOOLEAN, runs : BOOLEAN, recalled : SUBSET Turns]]
    /\ journal \subseteq {"started", "finished", "cancelled", "indexed"} \X Turns
    /\ segs \in [Turns -> [status : {"none", "PENDING", "PROCESSING", "INDEXED", "FAILED"},
                            attempts : 0 .. MaxRetries + 1, whole : BOOLEAN]]
    /\ cards \in [Turns -> {"none", "active", "forgotten"}]
    /\ refs \subseteq Nat \X Turns
    /\ queue \subseteq Turns /\ Cardinality(queue) <= Slots
    /\ busy \subseteq [seg : Turns, at : {"wait", "call", "sleep"}, own : BOOLEAN]
    /\ Cardinality(busy) <= Workers
    /\ \A w \in busy : w.seg \notin queue /\ \A v \in busy \ {w} : v.seg # w.seg
    /\ lifecycle \in [Agents -> {"active", "retained", "deleting", "deleted"}]
    /\ changing \subseteq [agent : Agents, kind : {"retain", "reactivate", "delete"},
                            fails : BOOLEAN, old : {c.old : c \in changing}]

\* A segment that is PROCESSING has a worker that will move it on, whatever is
\* deleted, restored or rolled back meanwhile: with no worker it could be
\* neither indexed nor retried (retry_index refuses it).
Worked ==
    \A t \in In(segs, "PROCESSING") : \E w \in busy : w.seg = t /\ w.own /\ w.at # "sleep"

\* validate_memory_state accepts the live memory, and what is saved at any
\* moment, although workers, turns, discussions' batches and deletions save
\* their changes in different orders: segments are whole and their Agents
\* exist, the indexed ones have cards and the others none, and references are
\* to active cards.  Excepted are references whose removal is still in the
\* batch of a discussion, and behaviours in which a flush has failed: the
\* rollback of a deletion loses events of turns that still run.
Restorable ==
    spent.faults = 0 =>
        /\ Valid(Contents, {a \in Agents : lifecycle[a] \notin {"deleting", "deleted"}})
        /\ LET pending == UNION {batch[d].gone : d \in Talks}
           IN  Valid([disk EXCEPT !.refs = {r \in @ : r[1] \notin pending}], Living(disk.lifecycle))

\* A segment that could be indexed is, or has failed for good, although the
\* queue may be full when it is offered, its model fails, its Agent is busy or
\* is retired and reactivated, and restores cancel the workers; unless the mode
\* is switched (nothing looks for segments when it is on again) or a flush
\* fails (nor after a retirement that was rolled back).
Settles ==
    \A t \in Turns :
        segs[t].status \in {"PENDING", "PROCESSING"} ~>
            \/ segs[t].status \in {"none", "INDEXED", "FAILED"}
            \/ ~Active(Owner[t])
            \/ spent.toggles > 0 \/ spent.faults > 0

\* docs/Selective_Episodic_Memory.md:23 calls the journal append-only.
JournalAppendOnly == [][journal \subseteq journal']_vars

=============================================================================
