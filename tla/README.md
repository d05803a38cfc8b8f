# A verification project for AI-Team-Team

AI-Team-Team is an asyncio library in which Agents (identities with a private
context and memory) work in teams. A manager, `ATTManager`, owns the live
state; its services run discussions, call models, deliver messages, hold votes
and save every change to a SQLite file. This directory models that core in
TLA+, checks it with TLC on small instances and proves the most important
safety properties with TLAPS for every instance.

Paths below are relative to `src/src/ai_team_team/`.

## How to run it

    tlc -config MCAgentInvocation.cfg MCAgentInvocation.tla
    tlapm AgentInvocationProofs.tla

`PROJECT.json` lists every run with its module and configuration, the lines
each definition models (`map`), a mutation of the model that each property
notices (`mutants`), the hazards of the code and the properties aimed at them,
the disagreements between code and documentation (`findings`) and the theorems.
A definition named `Faulty...` is such a mutation; no action uses it.

## Inventory

| Component | State | Operations | What is hard | What makes it correct | Status |
|---|---|---|---|---|---|
| Agent identity and invocation (`core/agent.py`, `core/manager/lifecycle.py`, `core/manager/agents.py`) | `_starting_invocations`, `_active_invocations`, tokens, wait-edge counts, `_runtime_gate`, per Agent `lifecycle_lock`, `lock` and `lifecycle_state` | `agent_invocation`, `invocation_guard`, `retire`, `reactivate`, `close` | four separately locked steps, each cancellable; nested and delegated work; identities that change while a task waits | exact counters, no deadlock, a body runs on an active Agent only, a restore runs alone | `AgentInvocation`, but for `register` and files |
| Model calls, retry and budget (`core/token_budget.py`, `core/utils.py`) | ledger of reservations, usage per alias | reserve, settle, release, `generate_with_retry` | concurrent reservations; cancellation and errors after dispatch | the quota is hard; every request is charged or released once; every turn ends | `TokenBudget`, but for personal turns and summaries |
| Model failover (`core/manager/failover.py`, `core/decision.py`) | `model_alias` of an Agent, swaps of a turn | candidates, automatic choice, parental choice | the choice is stale when used; a vote with a deadline | no loop over models; a parent's choice has a majority | the swap in `TokenBudget`, the vote in `Governance`, not their composition |
| Persistence (`database/persistence/coordinator.py`, `core/manager/state.py`, `core/manager/snapshots.py`) | active and pending delta, sticky `_error`, `_closed`, batch of a scope | `submit`, `flush`, `close`, `_auto_save`, `suppress_auto_save`, `_commit_dirty_state`, `save_state` | coalescing; failed writes; cancelled commits; batches inherited by detached tasks | no lost update, what was acknowledged stays durable, references stay valid, `close` drains | `PersistenceCoordinator`, but for the lease, reads and other paths |
| Snapshots and restore (`core/manager/restore/`) | staged and published registries | stage, validate, publish, roll back | replacing everything while tasks hold old objects; resuming what was under way | exclusion; whatever was saved can be restored and goes on | exclusion in `AgentInvocation`, hydration and resumption in `Decisions` and `Teamwork`; not the files |
| Governance rounds (`core/manager/governance/`) | rounds with electorate, ballots, status; mail; the lock kept over a commit | create, submit, expire, resolve, resume | electorates change; superseded rounds; a commit fails after mail was sent | a decision is that of the last panel, while it is the electorate; one open round per business | `Governance` |
| Migration and topology (`core/manager/migration.py`, `core/policies.py`) | team tree, requests, `migration_count`, alerts | negotiate, prepare, complete | approvals collected over several discussions; two locks; rollback | the tree stays a tree, a move has all approvals, limits hold | `Migration` |
| Communication broker (`core/broker/`) | requests, approvals, projected ballots, agreements, deliveries | request, claim, complete, revoke, deliver | claims outside the locks; route changes under a request; a message is visible before its commit | outcomes are those of the rounds; claims are settled; messages are read or wait | `Broker` and the peer messages of `Discussion`; the retried delivery is left out |
| Discussions (`core/manager/discussions/`) | `discussion_lock`, `is_running`, claimed inbox, batch | execute, rounds, finalize, abort | what arrives meanwhile; failure and cancellation | no alert or message leaves an inbox unhandled | `Discussion`, partly |
| Alerts and wakeups (`core/manager/alerts.py`) | inbox with counters, active wakeup keys | merge, claim, release, acknowledge, wake up | an alert that comes again; deduplication against a running wakeup | a claim has a holder; a scheduled alert is heard | `Discussion`, partly |
| Supervision and audit (`core/manager/supervision.py`) | supervisory teams, verdicts | audit, decide, dissolve | shielded finalizer under cancellation | the verdict reaches the parent | verdicts in `Discussion`, dissolution in `AgentInvocation` |
| Turn execution (`core/team.py`, `core/strategies/`, `core/tool_runtime.py`) | rounds of a turn, tool batches | answer, call tools, finish | concurrent tool calls, limits | a turn ends within its limits | its rounds in `TokenBudget` only |
| Team formation (`core/manager/formations/`) | requests, revisions, invitations, drafts, detached tasks | propose, respond, revise, draft, publish, create, abandon, join late | answers to an old revision; automatic creation; publications that wait; rollback from copies | members have accepted this revision; whoever may answer was told; drafts end | `Formation` |
| Team creation and dissolution (`core/manager/team_creation/`) | staged team | stage, commit, publish | failure after staging | all or nothing | the part a formation uses |
| Membership voting (`tool/membership.py`, `core/manager/membership.py`) | proposals and ballots of a team | propose, cast, retract, apply after the round | the application is deferred while members change | an approved proposal is applied once, between rounds | `Discussion`, but for `add_team_member` |
| Personal inbox (`core/manager/inbox.py`) | mailbox of an Agent | deliver, acknowledge, remove | agreement with rounds and revisions; rollback by copies | mail exists exactly for what it announces | mail of rounds and formations |
| State validation (`core/manager/state_validation`, `core/manager/communication_validation`) | none | pure checks of a snapshot | what is live between two commits must pass them | a restore never refuses what the program has saved | `Restorable` of `Decisions`, `Teamwork`, `Memory` and `Libraries` |
| Episodic memory (`core/manager/memory/`, with `core/manager/agents.py`) | journal, segments, cards, retained references, queue, what the workers do | turns, recall, keep, forget, restore_forgotten, index, retry, flush, deletion and its rollback | workers that await a model while their segment is deleted, replaced or set back; a queue that is full; saving through batches and at once | no segment is stuck in indexing, each is indexed or marked failed, live memory and disk pass the validator | `Memory`, but for search, `close` and supervisory turns |
| Document libraries (`doc_library.py`, `gated_reader.py`, `core/manager/libraries/`) | files on disk and their copy, permissions by path and AgentTeam, managed links | link, grant, revoke, read, write, delete, move, publish | a call checks on the loop and works on a thread later; reads in several parts; links over links; dissolution | a read returns what is still there and still due; links can be restored | `Libraries`, but for directories, archives and the creation of libraries |
| Callbacks, discovery, runtime registry, configuration, tools, facade | dictionaries, queues to the host | look-ups, dispatch | none that changes what is modelled | - | constants and entry points only |
| Schema and row stores (`database/models`, `database/persistence/store`) | SQL rows | read, write | executed in one transaction | atomic write, order of deletion and insertion | as one atomic write |

### How the parts interact

* Every model call of an Agent, in a discussion, an audit, a vote or a
  delegated team, runs inside `agent_invocation`. Nested calls inherit a chain
  of tokens through a context variable and reserve an edge from the Agent that
  waits to the Agent it waits for; a cycle of edges is refused before anybody
  waits.
* `_runtime_gate` orders admissions, accounting and the long holders: a
  restore, the dissolution of a supervisory team, a full save.
* A turn reserves tokens before each attempt; an exhausted quota makes the
  turn ask `FailoverService`, which may ask the parent team for a decision.
* Every service changes the live state and then either auto-saves (queued, no
  answer awaited), leaves the change to the batch of the discussion around it,
  or commits (awaits the delta and takes the change back when it fails).
* A migration, a communication request and a parent's choice of a model are
  *businesses*: each is put to principals (AgentTeams, or the Root Agent), a
  principal decides it in rounds of its members, and the service that asked
  acts on the outcome. `Broker` reads the topology that `Migration` changes.
* A formation creates an AgentTeam whose members then discuss and vote; a
  discussion applies the votes on its members between rounds; a draft of a
  formation is deliberated by a team whose members may change.
* Alerts raised in a discussion start wakeup tasks that nobody awaits. They
  copy the context of the task that raised them, hence its invocation chain and
  its batch.
* Every turn leaves a segment of memory, saved in the batch of its discussion;
  workers index it later inside an `agent_invocation` of its owner, and save at
  once. The deletion of an Agent takes its memory away, and its rollback puts
  back the memory of all.

## Modules

| Module | What it models |
|---|---|
| `AgentInvocation` | `LifecycleService.agent_invocation`, `Agent.invocation_guard`, retirement and reactivation, restore and dissolution as holders of the gate |
| `TokenBudget` | `TokenBudgetLedger`, `generate_with_retry`, the failover of a turn, shutdown |
| `PersistenceCoordinator` | `PersistenceCoordinator` and `StateCoordinator`, the deletion of an Agent as a user of both |
| `Governance` | rounds, electorates, ballots and mail; a parent's choice of a model |
| `Migration` | migration requests and the topology, over `Governance` |
| `Broker` | communication requests, approvals and agreements, over `Migration` |
| `Decisions` | the three together with restarts and the validators of a restore; implements `Decision` |
| `Decision` | abstract: how one business is decided |
| `Formation` | formations with revisions, answers, drafts, creation and late joining |
| `Discussion` | discussions, alerts, wakeups, peer messages and membership votes, over `Formation` |
| `Teamwork` | both together with restarts and the validators of a restore |
| `Memory` | episodic memory, with the identities, restores and crashes that change it |
| `Libraries` | files, permissions and managed links of document libraries under concurrent calls |
| `MC...` | the instances of a module for TLC |
| `AgentInvocationProofs`, `TokenBudgetProofs`, `PersistenceProofs`, `DecisionsProofs`, `TeamworkProofs`, `TeamworkMailProofs`, `MemoryProofs`, `LibrariesProofs` | the theorems |

`Governance`, `Migration` and `Broker` extend one another, and so do `Formation`
and `Discussion`, because the service on top calls the one below and reacts to
what it has done: the step of one is a conjunction of both.

### AgentInvocation

A task stands for one asyncio task inside one `agent_invocation`. `pc` follows
the source: `admit` (waiting for or holding the gate, then `Admit` or
`Refuse`), `lifecycle` and `lock` (waiting inside `invocation_guard`), `mark`
(the second gate section, from starting to active), `body`, `leave` (the
`finally` clause), `abort` and `abortLocked` (the `except` clause), and the
three ends: `done`, and `lostStart` and `lostActive`, where a cancellation at
the gate has skipped the accounting.

* The chain of a context variable is a sequence of tasks; a token is the task
  that owns it, and an entry of the chain is live while its token is in
  `tokens`. `Spawn` starts nested work that is awaited (a gathered turn) or
  detached (a wakeup), both of which happen in the code.
* `Admit` is the whole section under the gate: closing and registration
  checks, the caller from the live chain, the path check, the reservation and
  the starting counter. Sections that await nothing are atomic in asyncio.
* `reserve_synchronous_dependencies` is only ever called with no dependencies
  (`tool/delegation.py:138`), so it is not an action.
* `Retain`, `FlushBeforeDelete`, `DeleteFlushed`, `Reactivate` and the three
  outcomes of their commit are the transitions of `lifecycle_state` under
  `lifecycle_lock`. The checks of memberships, creators and governance
  references that may refuse a retirement are abstracted by not taking the
  step.
* `BeginRestore` needs `Quiet`; `ApplyRestore` replaces the registries, so a
  task that has captured an Agent becomes `stale`. A restore also resets the
  identity changes in flight, whose objects it discards.
* asyncio locks are FIFO. The model keeps owners and the set of waiters, and
  gets the absence of starvation from strong fairness.

### TokenBudget

A turn has at most one attempt in flight. `Dispatch` reserves and sends,
because nothing is awaited between; `Answer`, `Fail`, `FailUnsent`,
`CancelInFlight` end the attempt and settle or release; `Retry` starts the next
attempt. `Exceed` is `TokenLimitExceededError`: with the policy `auto` the turn
swaps to the first candidate (`FailoverAuto`), with `parent` it asks
(`AskParent`) and goes on with whatever the parent chose from candidates that
were computed before the question. `Shutdown` moves the manager from `open`
over `closing` to `closed`; a settlement after that raises in `_auto_save`
although the ledger has been changed, and the error path settles again.

`sent`, `settled`, `unsent` and `overrun` are history: they count dispatches,
charges, releases and what providers report beyond a reservation. The ledger's
branch for a request without an output limit cannot be taken, because
`generate_with_retry` always passes one. Limits are constants of a run.

### PersistenceCoordinator

A record is a key with the stamp of its last change, and a key's `Owner` is the
identity it belongs to. A delta has rows, dependencies that are inserted only
when absent, deleted keys, and the flags of a full save and of a capture error.
`Merge` is `_merge_snapshots`, `Apply` is `DatabaseStore.write` and `Capture`
is `_capture_state_snapshot`. `active` and `pending` are the executing and the
coalesced delta; a caller waits for the completion of one or the other, and
`Promote` turns the second into the first, as `_finish_active` does.

`scope` is `_persistence_batch` as each task sees it. `Join` is a member task
the discussion awaits, `Wakeup` an emergency wakeup that nobody awaits. After
`CloseScope` a wakeup still sees the batch that has been submitted
(`DeadBatch`). `Commit`, `Start` (of a flush, a full save, a deletion or a
close) and the actions after it follow each call to its return; any of them may
fail or be cancelled. A cancelled commit waits on, and a second cancellation
ends it.

`acked` is history: the stamps that some returned call has called durable, and
`promised` those that the return of a waiting one will. What is deleted is dropped
from both: its deletion is a later state of the record.
`refused` are records whose change was refused with an exception. `Queued` is
what the database will hold once the queue has been written.

Not modelled: the cancellation of `close`; saves to another path or with
`full=False`; the supervision service's resetting of the batch
(`core/manager/supervision.py:222-318`); retirement inside a batch; a commit
whose capture or submission raises (it is rolled back at once, so it is no
step).

### Governance, Migration, Broker, Decisions

A *business* is a migration, a communication request or the choice of a model
by a parent team. `standing` is its status and `rounds[b][p]` the rounds of
principal `p` (an AgentTeam or the Root Agent), oldest first. A round has its
electorate (the domain of `ballots`) and a status; a failed round whose
business has ended is `CLOSED`.

* `governance.lock` is held from the change of a round until its commit
  returns: `commit` is that lock, with the copy that a failure puts back. What
  the code does after the commit (mail, wakeups, resolution) is in the action
  that ends it, and each failure has its own action. The broker's transaction
  lock is `dealing`, `migration.lock` is `opening`.
* `jobs` are the detached tasks with the phase they have reached. A task reads
  a status, awaits, and acts on it later: the phases are where it awaits.
* `Migration` keeps `parent` and `kids` apart, as the code does
  (`_parent_team`, `child_teams`), because a rollback restores them one by one.
* `Broker` projects ballots of rounds into approvals (`projected`) and puts a
  note into the inbox of each team that has to approve (`notes`).
* Callers may be cancelled (`cancels` bounds how often). A discussion, or the task of
  an approval by the Root Agent, that is cancelled while it asks for the decision
  (`ClaimCancelled`) releases its claim in a shielded call of `_complete_approval`, a
  task of its own that waits for the locks as others do (`releasing`). One that is
  cancelled in the wait for those locks (`broker/approvals.py:89` and `:130`, neither
  shielded nor in the `try`) leaves the claim (`CompletionCancelled`). One that is
  cancelled in the commit finishes it, but does not schedule the approvals of a
  successor (`ApproveCancelled`), for whose notes a discussion will look. Where nobody
  has to approve a migration, its caller awaits `complete_request` itself
  (`migration.py:131`): that is the task of kind `call`, which `CallCancelled` takes away
  in its wait for the locks (`:165`), with the request pending. A caller that is
  cancelled in the commit of the request schedules a task instead
  (`NegotiateCancelled`). Tasks that are tracked are cancelled only when the manager
  closes, which releases all claims (`broker/lifecycle.py:66`); that the tasks of the
  Root Agent's approvals may be cancelled at any time is more than the code does.
* `abandoned` is history: the business and the principal of each such wait, until
  another task takes them up. Such a task is a resolution after a later vote
  (`governance/scheduling.py:71`), which completes an approval that it finds claimed; the
  same migration asked for again; or what a restart schedules.
* `Restart` in `Decisions` demands `ValidState`, the translation of
  `state_validation/governance.py`, `migrations.py` and
  `communication_validation/`; it releases claims, ends a choice of a model
  that was under way, and schedules what `resume_pending` schedules.
* `Restorable` says that the validators accept every state between commits but for
  two cases, found while it was being proved and confirmed by TLC. Two requests of
  one team over overlapping routes, of which one is one-way, may both become active if
  they were made under different policies: `_equivalent_pending_request` compares the
  policy's snapshot, and `_create_agreement_locked` supersedes only what is bidirectional.
  The validator refuses the two as a duplicate route. And when a membership has changed
  and the completion of an approval fails: the completion takes another approval back
  from `APPROVED` to `PENDING` (its electorate is no longer the AgentTeam's), a discussion
  claims that approval while the commit is out (`_claim_approval` takes neither lock), the
  failure puts `APPROVED` back, and the discussion begins another round, so that an
  approved request's latest round is undecided. `Distinct` therefore speaks of requests
  with the `SameTerms`, and `ValidApprovals` of runs without such a failure.
* `DecisionSpec` is the refinement: with the ballots of the rounds as panels,
  each business behaves as `Decision` says. There a business is carried only
  when the *last* panel of every authority is that principal's present
  electorate and assents; a ballot is cast once, in the last panel; and what
  is decided in a commit is provisional until it returns.

### Formation, Discussion, Teamwork

`forms` are requests with all their revisions; `decided` are the answers, by
revision; `drafts` are deliberated by a team's discussion (`thinking`) and then
published, at once or after waiting for a lock (`waiting`). An operation changes
memory and awaits a commit (`flight`), which returns, fails (`Fail` puts back
the copies the operation had made, including whole mailboxes) or is cancelled
(`Cancel` leaves what was done and skips what would have followed). Requests
lock each other out while they commit; publications wait, the rest is refused.

`sessions` are calls of `execute_discussion`: a call waits for the
`discussion_lock` (`Enter`), prepares its inbox (claims alerts, shows letters),
holds rounds (`EndRound`, where votes are applied), is audited (`Audited`) and
closes, or is cancelled (`Abort`) or fails (`Break`). `alerts` have the two
counters of the code, `count` and `claimed` (`processing_count`).
`wakeups` are the keys that deduplicate. A peer message is `sending` while its
commit is awaited, when it already lies in `letters`. `disk` is what has been
captured for the database: an inbox and the delivery states can be captured at
different moments, which is what `DiskRestorable` is about.

### Memory

A turn, its segment and the card of that segment share a name. `segs` has the
status, attempts and whether the segment has its start event; `journal` has the
events that matter for that; `queue` and `busy` are `_queue` with
`_queued_segment_ids` and the workers. A worker `wait`s for its Agent's
invocation, `call`s the model, and `sleep`s before another attempt; `own` says
whether the segment object it holds is still the one in the catalog, which the
code tests by identity (`indexing.py:197`).

* `Captured` is `capture_memory_records` with the dependencies of
  `snapshot_dependencies.py`; the records of a turn in a discussion wait in
  `batch` until the discussion ends, others reach `disk` at once.
* `Ensured` is `ensure_enabled`: switching the mode on captures all cards;
  every user of the memory calls it, and then schedules what is runnable.
  `Schedule` puts as many segments as there is room for into the queue, in any
  order.
* `changing` are retirements, deletions and reactivations that await their
  flush. A deletion keeps a copy of the whole memory (`old`), and `RolledBack`
  puts it back.
* `BeginTurn` and `FinishTurn` are also the begin and the end of the Agent's invocation.
  The code journals the start of a turn before it waits for the invocation and the end
  after it has left it (`team.py:277`, `:297`): between the two, other calls of that Agent
  may come, which the module does not show.
* `Suspend` is `suspend_for_restore`, `EndRestore` the publication of what was
  loaded, or the failure of the load; `Restart` a crash.

### Libraries

A node is a path in a library, a file the stamp of its last change: reads
compare versions that include the change time, so a move is a change too.
Directory and copy (`_library_files`) change under one lock and are one
variable. A call is a record in `op`: its `step` is the place of its next look
at the registries (`source`, `recheck`, `final` of a read; `resolve` and
`publish` of a link) or of its work on a thread (`reading`, `rechecking`,
`settling`, `check`, `first`), and anything may happen between two steps.

* `Resolve` is `_resolve_library_target`: the end of the chain of links if it has
  one and every hop is allowed. A cycle has no end.
* `read_library_file` resolves the path for each part it reads, for the version
  after the tokens are counted, and once more for the service; `MayRead` is that
  look. Private files have an owner in place of permissions, and no links.
* `LinkBegin` to `LinkPublish` are `create_library_link` with its two waits. Writes,
  deletions, moves and publications check first and work later, and do not
  check again.
* `Dissolve` and what follows are the part of `dissolve_supervisory_team` that
  touches libraries: the files are in the trash (`away`) while the deletion of
  the records is awaited.
* `seen` and `raced` are history: reads that have been allowed since they have
  content, and calls under which something has changed. `Restorable` is the
  translation of `validate_permissions_and_links`; `AloneSound` says who alone can
  make it false. It excepts the calls that have raced, and so does not speak of the
  race at `libraries/access.py:134` itself.

## Runs

| Run | Configuration | Properties | What it shows |
|---|---|---|---|
| `invocation` | `MCAgentInvocation.cfg` | `TypeOK`, `InvokedOnlyWhileActive`, `RestoreRunsAlone`, `EveryInvocationEnds` | two tasks and two Agents with every identity change, restore, dissolution and cancellation |
| `nesting` | `MCNesting.cfg` | `ExactAccounting`, `NoCircularWait` | four tasks nest, await and detach invocations of two Agents |
| `cancelled_cleanup` | `MCCancelledCleanup.cfg` | `IdleManagerHoldsNothing`, violated | a cancellation at the gate of the cleanup leaks a counter, a token and an edge |
| `budget` | `MCTokenBudget.cfg` | `TypeOK`, `HardQuota`, `LedgerExact`, `EveryTurnEnds` | two turns, two limited models, all policies and failures: quotas are hard, what is reserved and charged is exact, the loops end |
| `persistence` | `MCPersistence.cfg` | `TypeOK`, `NoLostUpdate`, `AckedStaysDurable`, `ReferentialIntegrity`, `ClosedIsDrained` | two tasks, an Agent and a record, all calls, failures and cancellations, wakeups disabled |
| `persistence_calls` | `MCPersistenceCalls.cfg` | `EveryCallReturns` | every call ends, wakeups enabled |
| `wakeup_batch` | `MCPersistenceWakeup.cfg` | `NoLostUpdate`, violated | with wakeups enabled, changes are lost without an error |
| `decisions` | `MCDecisions.cfg` | `TypeOK`, `Restorable`, `TopologySound`, `NoneForgotten`, `DecisionSpec` | businesses of the three kinds, alone and in pairs, with failed commits, changing electorates, cancelled callers and restarts |
| `teamwork` | `MCTeamwork.cfg` | `TypeOK`, `Restorable`, `DiskRestorable`, `Consent`, `Informed`, `ClosedForGood`, `Proceeds`, `Claims`, `AlertsKept`, `ReadInFull`, `VotesDeferred`, `Heard` | formations with drafts and late joining; discussions with alerts, letters and votes |
| `libraries` | `MCLibraries.cfg` | `TypeOK`, `ReadsStillDue`, `AloneSound` | two calls on five files of four libraries, with changing permissions, members and links, and a dissolution |
| `memory` | `MCMemory.cfg` | `TypeOK`, `Worked`, `Restorable`, `Settles` | turns, two workers and a queue of one place, with everything that interrupts them |
| `failed_deletion` | `MCFailedDeletion.cfg` | `JournalAppendOnly`, violated | the rollback of a deletion takes events of other Agents out of the journal |

No run checks for deadlock: tasks, turns and hosts may all have ended, and
nothing obliges them to begin again. What must not get stuck is said by
`NoCircularWait` and the liveness properties instead.

### Bounds

* Tasks and turns. A task makes one invocation, so the number of tasks bounds
  both concurrency and nesting. Two are enough for every race between one
  invocation and one identity change, restore or dissolution. Circular waits
  need two tasks that hold an Agent and two that are nested in them, hence the
  four of `nesting`, which in return leaves out the holders of the gate and
  the identity changes. The theorems hold for every number.
* Agents of `AgentInvocation`. Two: the root, which cannot be retired, and one
  that can.
* `TokenBudget`. The limits 4 and 2 with outputs 2 and 1 let two requests
  compete for the last room, one be refused, and an over-reported usage (3)
  exceed a reservation. The client of the second alias takes no output limit.
  One retry and two rounds reach every action, and the policy is any of the
  three.
* `PersistenceCoordinator`. `MaxChanges = 2` changes after those the database
  was loaded with; with one delta active and one pending, two are enough to
  merge an update with an update, a deletion, a creation or a full save. The
  liveness run has one key and the Agent loaded, for the size of its graph.
* `decisions`, `teamwork`, `memory` and `libraries` begin in one of several *starts*. Each
  names what may come up in the behaviour and how often: rounds, changes of
  membership, failed commits (`faults`), cancellations, restarts and so on.
  A start combines the disturbances that can meet in one piece of code; the
  starts together fire every action. Those that are left out are named in the
  notes of the hazards.
* `decisions`. Three teams, of which two ask to move below each other (the one
  case in which two moves could make a cycle), and two voters where the
  electorate matters: one more or less makes a majority or loses it. Three
  rounds are enough for a round that supersedes one and is superseded. A cancellation
  (`cancels`) meets an approval by a team and one by the Root Agent, a failed
  commit, a restart, a successor, and a migration that nobody has to approve, alone and
  beside another; two in one behaviour only there.
* `teamwork`. Two requests and two drafts with a common invitee, two revisions;
  a child team and its parent, three discussions at most, which is one that
  runs, one that waits and one that is scheduled; one or two rounds.
* `memory`. Three turns of one Agent, one of them in a discussion, and one of
  another; a queue of one place, so that it is full while a worker is busy; one
  retry; one retained reference. The host waits for its `load_state`; while one
  is going on no identity is changing; and the mode at a restore is the one
  that was saved. The flush of an identity's change fails at most once.
* `libraries`. Two calls, because each hazard is one call that works on what
  another has changed since its check; the changes without a wait (permissions,
  members, the deletion of a link) come besides. Two files in one library and one
  in another make a move, a link of a link and a cycle; one or two changes of
  files are enough to change what was read or checked. The supervisory AgentTeam
  and the private library appear in the starts that are about them. Callers are
  not auditors: a call of theirs would only keep the dissolution from beginning.

### Fairness

`AgentInvocation`: a runnable task is resumed by the event loop and a FIFO lock
serves its waiters, hence strong fairness of each task's own steps (a lock may
be taken and released any number of times before it is this task's turn).
Bodies end because model calls and flushes return or fail; `ReleaseGate` is
fair for the same reason. Hosts owe nothing: no retirement, restore, spawn or
cancellation is fair. `TokenBudget`: weak fairness of each turn, since
providers answer or fail and the wait for a parent has a timeout.
`PersistenceCoordinator`: weak fairness of the writer thread and of each task
whose completion is set. `flush` waits for what others queue while it waits, so
its return is claimed only if others do not queue full saves for ever; changes
are bounded by `MaxChanges`. `Teamwork`: weak fairness of the return of each
request's and draft's commits, of its automatic creation, of the task of each
draft and of the discussions of each team, one after another as their lock
serves them. Hosts, Agents that answer, voters and letters owe nothing.
`Memory`: weak fairness of each turn's end, of whatever a worker does next with
each turn's segment, of the return of each Agent's flushes and of the end of a
load. `Decisions` claims no liveness: its safety says that a task is left for
what has to go on, unless a cancelled caller has abandoned it (`NoneForgotten`).

## What the runs found

1. `cancelled_cleanup`: `agent_invocation` does its accounting under the awaited
   gate (`core/manager/lifecycle.py:262`). The gate is held across awaits, so
   the task may wait there and be cancelled there, and the counter, the token
   and the wait edge stay for good. A restore is then refused for ever.
2. `wakeup_batch`: the wakeup task of `core/manager/alerts.py:68` inherits the
   persistence batch of the discussion that raised the alert. When it outlives
   that discussion, its changes go to a batch nobody submits.
   `docs/State_Persistence.md:56` says that discussions share no such state.
3. `failed_deletion`: the rollback of a deletion whose flush has failed
   (`core/manager/agents.py:331`) restores the memory of *all* Agents as it was
   before the flush, so that what others have journaled meanwhile is gone.
   `docs/Selective_Episodic_Memory.md:23` calls the journal append-only.

A fourth has no run of its own. `docs/Team_Governance.md:127` and `:167` say that
cancellations leave an approval, or return it to, `PENDING`. A cancellation while the
decision is asked for does; one in the wait for the locks of `_complete_approval`
(`broker/approvals.py:89` and `:130`) leaves it `PROCESSING` without a task, and one in the
wait of `complete_request` (`core/manager/migration.py:165`) leaves a migration that
nobody has to approve `PENDING` without one. `NoneForgotten` excepts exactly these
(`abandoned`); without the exception TLC violates its first part in 6 steps, and its second
in 3.

While modelling we met other limits of the code, of which no line of the
documentation says the opposite. A property that they would break says in its
statement what it excepts:

* A commit's second await may be cancelled by a second cancellation
  (`core/manager/state.py:248`), which ends the commit before its write.
* An alert that comes again during the wakeup it has caused waits for a
  discussion somebody else starts (`discussions/cleanup.py:112`); one that is
  acknowledged and comes again within one discussion goes with it unseen.
* The rollback of an answer restores whole mailboxes
  (`formations/lifecycle/responses.py:172`), the one of a creation whole
  registries (`creation.py:226`): what another formation did meanwhile is lost.
* Hydration (`core/manager/restore/hydration.py:139`) returns only alerts of
  unknown audits from processing to pending: an alert of degraded operation that
  was being handled at a crash stays claimed by a discussion that is gone, which
  `Claims` excepts. `docs/Supervisory_Team.md:98` gives both kinds the same
  processing state and requeueing on failure, and says nothing of a crash.
* A draft stays `RUNNING` until a restart if its final commit fails or its close
  is cancelled (`drafts.py:278`); a publication that has waited may change an
  object that a rollback has replaced (`drafts.py:606`).
* If the direction of agreements is reconfigured while requests are pending, two
  active agreements may share a route and a restore is refused
  (`broker/approvals.py:183`).
* After a retirement that was rolled back, or when the mode is switched on
  again, pending segments wait until the next turn or flush
  (`memory/service/indexing.py:96`). A card forgotten in an open discussion may be
  captured by another delta before the removal of its references.

* Two calls side by side may close a cycle of links, write a file under a link or
  leave a link to nothing (`libraries/access.py:134`), and a single call may delete or
  move away what a link leads to; links to a supervisory AgentTeam's library and
  permissions for that AgentTeam are accepted although neither is ever saved
  (`snapshots.py:39`). The state that is saved then is one that
  `validate_permissions_and_links` refuses. `AloneSound` names these cases.
* `dissolve_supervisory_team` looks for links to its libraries under the key
  `lib_id` (`team_creation/lifecycle.py:76`), where links have `target_lib_id`
  (`libraries/access.py:148`): it finds none, and dissolves under them.

## Proofs

Checked by TLAPS for every value of the constants that satisfies the
assumption of the module (finite sets of tasks, turns, nodes or proposals; distinct markers;
outputs of at least one token; an owner that is an identity; an initial
topology in which every team is below the top).

`AgentInvocationProofs`, in four layers, each an inductive invariant that the
next one uses:

1. `Counted`: types, and each counter is the number of tasks at the matching
   places. `ExactAccounting` alone is not inductive: the step that releases an
   edge needs that only reserved tasks have one, and the gate's queue that only
   tasks at a gate are in it. Theorems `TypeCorrect`, `AccountingIsExact`.
2. The wait graph stays acyclic: the path check refuses the one edge that would
   close a cycle, and by layer 1 an edge with a positive count is one that some
   task holds. Theorem `WaitGraphStaysAcyclic`.
3. `Guarded`: each lock is owned by exactly the task whose place says so, and
   the identity keeps its state from the check to the end of the body. Theorems
   `BodiesRunOnActiveAgents`, `RestoreIsExclusive`, `ReplacedAgentsAreRefused`.
4. `Joined`: an awaited task is the last live entry of its creator's chain and
   has reserved the edge from its creator's Agent. With layers 1 to 3: a circle
   of waiting tasks would be a cycle of reserved edges. Theorem `NoDeadlock`.

`TokenBudgetProofs`, in four layers: `Shaped` (types and the bounds of the
three loops, which the types of `attempt`, `round` and `swaps` need), `Claimed`
(only a request that is out on a limited model holds tokens), `Balanced`
(`HardQuota` and `EveryRequestAccounted`) and `Exact` (the ledger of a model holds
the sum of what its requests have reserved: `LedgerExact`). The ledger changes by a
dispatch, a settlement or a release only, and each has a lemma; each changes one
reservation, and so one summand. Theorems `QuotaIsHard`, `RequestsAreAccounted`,
`TypesAreKept`, `LedgerStaysExact`.

The last layer is about sums over finite sets. The induction theorems of the
library take an operator, which the provers cannot instantiate; the least element of
a set (`WFMin`, with strict inclusion as the order, which is well founded on finite
sets) takes a set, and a set can be written down for each statement. By `LeastSubset`
a sum over a finite set exists, is unique, and changes by what one summand changes by.
The same argument serves `TeamworkProofs` for folds and `LibrariesProofs` for chains of links.

`PersistenceProofs`: `ReferentialIntegrity` speaks of the database alone and is
not inductive. `Whole` adds what makes it so: the runtime state has the
identity of each of its records; so has each state that a failing commit or
deletion would put back (`Anchored`, by which a deletion waits for the calls
that hold a record of the identity); and each delta provides the identities of
the records it provides (`Sound`), which capturing establishes, merging keeps
(it drops an identity only with all that belongs to it) and writing turns into
integrity of the database, whatever has been lost before. Theorems
`ReferencesStayValid` and, by an invariant of its own, `CloseDrains`.

The same module then proves durability, in layers over `Whole`:

1. `Shape`: the types, with every stamp bounded by the clock. Theorem `TypesAreRight`.
2. `Order`: while a commit or a deletion waits nobody else changes its records, what it
   would put back is older than what it wrote, and a deleted record whose deletion is
   queued does not come back.
3. `Promises`: `AckedStaysDurable` compares the database with what has been reported and
   is far from inductive, because what will be reported is decided when a delta is
   submitted and merged, not when it is written. `Promises` says of every delta on its
   way that it keeps each stamp that has been reported and each that a waiting task will
   report, and that a rollback takes back nothing that a flush of another task covers.
   Theorem `ReportedStaysDurable`.
4. `Carried`, under the assumption `~EmergencyWakeup`: while nothing has failed the
   active delta, then the pending one, then the open batches leave the database as the
   runtime state is. The assumption is needed: with a wakeup that inherits a batch the
   property is false (run `wakeup_batch`). Theorem `NoUpdateIsLost`.

The third layer corrected the model: with three tasks, TLC found that a full save which
had been promised a record reported it after a deletion of the record had been written.
What is deleted is now dropped from what has been reported and promised (`Kept`), as the
deletion is itself a later state of the record.

`DecisionsProofs` begins with the topology: `AboveRises` and `AboveLeast` characterise
the set of ancestors, which the model defines as a least fixed point, and
`Graft` shows that a team may be put below any team that is not below it. The
inductive invariant `Rooted` adds to `TopologySound` what a rollback needs
(`Undoable`): the plan in a commit is one of two AgentTeams, and what a failure
would put back is again a tree, with no more moves than are allowed.
Theorem `TopologyStaysSound`.

Over `Rooted` it goes on in layers:

1. `Shaped`: rounds, tasks, commits and requests have the shape that the code gives
   them, a task or a mail is about a round that there is, and a commit in flight can be
   taken back (`Submitting`, `Creating`, `Approving` and the others say of each commit
   that what it changed is as it left it). The locks are what makes this inductive: each
   commit owns the records it would put back.
2. `Standing`, `Stays`: a round that has been decided stays decided, with its ballots,
   in every step but the failure of its own commit, and then nothing has relied on it.
3. `Conclusions`: a task that knows a decision is right about it (a model that has been
   chosen, an approval that is being settled, a migration that is resolved).
4. `Answered`, `Choosable`: an approval is settled only by a decided round; an option
   that a strict majority is for was among those offered. With the layers above this is
   `Formed`, and gives the types. Theorem `DecisionTypes`.
5. `Claims`: a claimed approval has a task that settles or releases it or has been
   abandoned (`Kept`), and so has each claim that the completion in flight would put
   back. A pair leaves `abandoned` only when there is such a task (`AbandonedStay`).
6. `Scheduling`: a pending migration whose rounds are decided has a task, or a commit
   whose end schedules one, or has been abandoned. Theorem `NothingIsForgotten`.

`TeamworkProofs` has two parts and `TeamworkMailProofs` two more. Of letters, in four layers: `Shaped` (a discussion
has read only letters to its own AgentTeam, and so have inboxes), `Counted` (restarts are
counted), `Agreeing` (inboxes and delivery states agree: whatever a step takes out of one
it changes in the other) and `Same` (while no commit has failed and no alert wakes a
discussion, the saved inboxes are those in memory). A letter is consumed only by
`Close`. Theorems `LettersReadInFull`, `DeliveriesAgree` and `CrashesStayRestorable`
(`DiskRestorable`; both conditions are needed: a rollback of an answer restores whole
mailboxes, and a wakeup drains an inbox before it saves).

Of formations and votes:

1. `Moved` says all that an operation may make of one formation, its decisions and its
   members: a new proposal or revision, an answer, a creation, a late answer or join, a
   refusal, an abandonment. One lemma per operation (`RespondAdvance`, `CreateAdvance`,
   `PublishWaitingAdvance` and so on) shows that it makes no more, keeps the types, and
   begins at most one commit, which would put back what the operation found
   (`NewCommit`). Their sum is `OperationAdvance`.
2. `Formed` and `Balloted`: the types of the registries, of every copy that a rollback
   would put back, and of proposals; a proposal that is executed stays so.
3. `Consents`: status, answers, late invitations, decisions and members of each
   formation fit (`Coherent`, `Consented`), and they would fit as well after the failure
   of any commit under way (`Undoable`). A rollback meets its own request as its operation
   left it, because of two commits no request is locked twice (`Locks`). All of it needs
   `Orderly`: a draft that proposes a new formation locks no request when it is
   published, and the rollback of that publication may come after the formation has
   been answered and created. `Orderly` says that no commit has failed as long as such drafts are
   allowed; the starts that TLC checks are of the same two kinds. Theorems
   `MembersConsent`, `FormationsStayClosed`.
4. `Solo`: of an AgentTeam's discussions at most one is in a round, and the step that
   executes a proposal is the last of its round or meets none. With the lemmas of 1, no
   other step than a vote changes members without a commit, a rollback or a removal.
   Theorem `VotesTakeEffectBetweenRounds`.
5. `Tidy`, while no commit has failed: a draft has the base it was made for, only one
   that is published has revisions, which have its candidate and follow its base, and one
   that is ready has a base that is current (`Sound`); what waits to be published has a
   candidate; the AgentTeam of a created formation exists. Revisions stay (`Growing`,
   from `Moved`). One lemma per operation shows that it brings revisions of one draft at
   most, leaves every other draft as it is or makes it stale, and lets none be ready
   whose base has gone (`Works`); `TidyByWorks` is the one proof that this suffices.
   With `Consents`: theorem `WhatIsKeptCanBeRestored`, and more than `Restorable` asks,
   since `ValidState` holds during commits and while publications wait, too.

Of alerts, locks and types (`TeamworkMailProofs` from here on):

1. `Boxed` are the types of the inboxes in memory and on disk: an alert is listed once
   (this is what merging by fingerprint is for), with no more claimed than counted, and
   a filtered inbox lists what it keeps in its order (`Rank`, `KeptFacts`).
2. `Claiming`: what an inbox has as claimed, a discussion in a round has claimed, and what
   such a discussion has claimed the inbox still has, as long as nothing was acknowledged. With
   `Solo`, whatever one discussion releases no other has claimed. Theorem
   `ClaimsAreGivenBack`. Every step then keeps the count of an alert or is the close that has
   claimed it all. Theorem `NoAlertIsLost`, which assumes `[]Unacknowledged`: with an
   acknowledgement under a discussion the property is false for larger bounds (see what
   the runs found).
3. `Keyed`: the active wakeups are exactly the keys of the discussions there are, and of an
   AgentTeam's discussions no two have been woken by the same alert.
4. `DraftLocks`: a draft is held by one commit or one waiting publication, and one that
   does not exist by none. Each operation takes only what is free (`Holding`). With `Locks`,
   `Solo`, `Keyed` and the types of the layers before it: theorem `TeamworkTypes`.

Of notices, over `Consents`: `Mailing` says what every operation writes in mailboxes, which
formations it changes and whom it tells (one lemma per operation, as with `Moved`;
`OperationMailing` is their sum), and what its commit would put back. `Informing` is the
invariant: the invited have been told (`Noted`), and they will have been after the failure of
any commit under way (`Recalling`). That takes two more facts. A commit that puts a mailbox
back puts the formation back too, or the mailbox is the initiator's, who is never invited;
that it is the same initiator holds for drafts because a draft belongs to the initiator of
its formation (`Drawn`). And an automatic creation begins with nobody invited
(`Selfmade`), so that the copies taken when it fails are of nobody's notices. Theorem
`InvitedAreTold`, for `Peaceful` behaviours: no commit has failed, or one formation at a time is
negotiated, which no draft has proposed. Otherwise it is false: the rollback of one formation puts
back whole mailboxes, and with them what another has written there. Every start that TLC
checks is of one of these two kinds.

`MemoryProofs`: `Worked` is inductive once segments are known to keep their type
wherever they may come back from: the disk, and the copy that a deletion keeps
(`Typed`). A step moves one segment on (`OneSettles`), or leaves nothing
being indexed (`IdleStep`), or leaves both segments and workers alone; taking a
segment and deleting an Agent have arguments of their own. Theorem
`NothingStuck`.

Two more layers follow. `Firm` has the types and what they rest on: the bound on
attempts needs that a worker past its wait has a segment that may still be indexed
(`Fit`), and the bound on workers that no two have the same segment (`Queued`).
Theorem `MemoryTypes`. `Clean` is what `Restorable` needs while no flush of an
identity's change has failed: memory is ahead of the database by what the open batches of discussions
hold and by nothing else (`Behind`), the database never holds a card or a reference
that memory has forgotten (`Dry`), a turn that runs or has not begun has no segment
yet (`Fresh`), and each identity has one change at a time (`Paired`), so that what
a deletion would put back is what it took. Theorem `MemoryStaysRestorable`.

`LibrariesProofs`, for reads: which file a chain of links ends at does not matter to
the argument. `Reads` says at which steps a read has
content, and at which it is known to have been allowed since (`Certain`); every
action moves one call to a record that keeps this (`Moved`), and whatever else
changes leaves it as it is. Only `ReadReturn` returns content
(`OnlyReadReturn`). Theorem `ReadsAreDue`. For the types, the chain itself matters: it
visits no library twice, so the libraries it has left grow fewer, and by the least of these
sets (`LeastSubset`) it ends at a node. Theorem `LibraryTypes`.

`WaitGraphAcyclic`, `ReplacedAgentsStayIdle` and `EveryRequestAccounted` are proved
and no longer run. Only model-checked: the liveness properties (the prover handles neither
fairness nor `ENABLED` here); `DecisionSpec`; `Restorable` of `Decisions` but for the
topology; `AloneSound` (a chain that closes no cycle is shorter than the number of
libraries: an argument by pigeonholes along the chain that has not been done); and of
`Teamwork` `Proceeds` and `Heard`, which are liveness, `AlertsKept` with acknowledgements,
and `Restorable` after a failed commit. It holds for every instance only while no commit has
failed: with two formations side by side the rollback of one puts back whole registries,
and with them what the other has changed. The instance that is checked
has one of these at a time when commits fail.

## Plan

What has been planned and is left, in this order:

1. Proofs: `Restorable` of `Decisions`, then the refinement of `Decision`.
2. The wait of a failover for its parent's discussion inside the wait graph of
   `AgentInvocation` (a composition with `TokenBudget` and `Discussion`).
3. The batches of concurrent tool calls of a turn, and the staging of a team's
   new Agents with its rollback.
4. Directories and archived libraries in `Libraries`, and the publication of
   restored library files.

## Not modelled

Prompts, the text of messages and errors, token counting, SQL, file contents,
the process lease on a database, configuration parsing, searching, and the
validators of agents and teams: they are data or I/O behind decisions
that are modelled, and no property depends on them. Callbacks, discovery and the
runtime registry change no state that another component reads. Of the
components that are modelled in part, `PROJECT.json` says which operations are
left out. Crashes stop the process between the steps of a model; a crash within
the write of one delta is SQLite's to make atomic.
