------------------------------ MODULE Formation ------------------------------
(***************************************************************************)
(* Consensual AgentTeam formation (core/manager/formations): proposals,    *)
(* the answers of the Agents they invite, revisions, drafts that a team    *)
(* deliberates, creation, abandonment and late joining.                    *)
(*                                                                         *)
(* An operation changes memory, then commits and keeps its locks until the *)
(* commit returns.  A commit that fails is rolled back from the copies the *)
(* operation made; one that is cancelled is not, and what would have       *)
(* followed it is left out.  Other operations run in between.              *)
(*                                                                         *)
(* A request creates the AgentTeam that has its name.  Timestamps, reasons *)
(* and new Agents' names are left out; declining and ignoring an           *)
(* invitation are one answer, and of the answers to a revision the last of *)
(* each Agent is kept.                                                     *)
(***************************************************************************)
EXTENDS Integers, Sequences, FiniteSets, SequencesExt

CONSTANTS
    Agents,
    Requests,      \* formations, and the AgentTeams they create
    Drafts,
    Scopes,        \* AgentTeams in which formations are proposed
    NoTeam,        \* the scope of a standalone formation
    Initiator,     \* of each request and draft
    Scope,         \* of each request and draft
    Parent,        \* parent_team of each AgentTeam of Scopes, or NoTeam
    Contents,      \* names of what may be proposed
    Content,       \* their records: invitees, joins, fresh (new Agents), auto and late
    MinSize        \* config.min_subagent_team_size

Initial == "initial"     \* the request of a draft that proposes a new one
Nothing == "nothing"     \* no candidate

ASSUME FormationAssumption ==
    /\ Initiator \in [Requests \cup Drafts -> Agents]
    /\ Scope \in [Requests \cup Drafts -> Scopes \cup {NoTeam}]
    /\ Parent \in [Scopes -> Scopes \cup {NoTeam}]
    /\ Content \in [Contents -> [invitees : SUBSET Agents, joins : BOOLEAN, fresh : Nat,
                                 auto : BOOLEAN, late : {"disabled", "open", "confirm"}]]
    /\ MinSize \in Nat
    /\ Initial \notin Requests /\ Nothing \notin Contents \cup Drafts /\ NoTeam \notin Scopes

VARIABLES
    forms,      \* requests with their revisions and invitations
    decided,    \* decisions: the last answer of an Agent to a revision
    drafts,
    teams,      \* manager.teams
    members,    \* of each AgentTeam, without new Agents
    mail,       \* what the personal inboxes tell of revisions, and of creations (0)
    flight,     \* operations that await a commit
    waiting,    \* publications that wait for a request's lock
    jobs,       \* detached tasks that have not started
    thinking,   \* drafts being deliberated, with the participants
    spent,
    limit       \* bounds, and whether formation_deliberation_policy requires drafts

formVars == <<forms, decided, drafts, teams, members, mail, flight, waiting, jobs, thinking, spent>>

Answers == {"silent", "accepted", "declined"}

Unused == [status |-> "none", revisions |-> <<>>, attitude |-> [a \in Agents |-> "none"],
           joined |-> {}, late |-> [a \in Agents |-> "no"]]

NoDraft == [status |-> "none", request |-> Initial, base |-> 0, candidate |-> Nothing]

Revision(f) == Len(f.revisions)
Proposal(f) == Content[Last(f.revisions).content]
Open(f) == f.status \in {"collecting", "ready"}
Invited(f) == {a \in Agents : f.attitude[a] # "none"}
Accepted(f) == {a \in Agents : f.attitude[a] = "accepted"}
Founders(q, f) == Accepted(f) \cup (IF Proposal(f).joins THEN {Initiator[q]} ELSE {})

\* Mutant: no lock.
FaultyLockFree(q) == TRUE

LockFree(q) == \A f \in flight : q \notin f.requests
DraftFree(d) == (\A f \in flight : d \notin f.drafts) /\ (\A w \in waiting : w.draft # d)

Override(f, g) == [x \in DOMAIN f |-> IF x \in DOMAIN g THEN g[x] ELSE f[x]]
Only(f, S) == [x \in S |-> f[x]]

\* The initiator belongs to the AgentTeam in which it proposes.
Present(x) == Scope[x] # NoTeam => Scope[x] \in teams /\ Initiator[x] \in members[Scope[x]]

\* _validate_team_creation_inputs
LargeEnough(c, n) == n + c.fresh + (IF c.joins THEN 1 ELSE 0) >= MinSize

Proposable(x, c) ==
    /\ Initiator[x] \notin Content[c].invitees
    /\ Content[c].invitees # {} \/ Content[c].joins
    /\ LargeEnough(Content[c], Cardinality(Content[c].invitees))

\* formation_summary(...).can_create
Creatable(q, f) == Open(f) /\ LargeEnough(Proposal(f), Cardinality(Accepted(f))) /\ Present(q)

-----------------------------------------------------------------------------
(* Commits. *)

NoUndo == [forms |-> <<>>, decided |-> <<>>, drafts |-> <<>>, members |-> <<>>,
           mail |-> <<>>, teams |-> {}]

\* Locks held, the copies a failure is rolled back from, and the tasks that follow.
Commit(rs, ds, undo, after, kind) ==
    flight' = flight \cup
        {[requests |-> rs, drafts |-> ds, undo |-> undo, after |-> after, kind |-> kind]}

\* Mutant: an Agent is told of the first revision that invites it only.
FaultyTold(S, notice) ==
    [a \in Agents |-> mail[a] \cup
        (IF a \in S /\ (notice[2] = 0 \/ \A x \in mail[a] : x[1] # notice[1]) THEN {notice} ELSE {})]

Told(S, notice) == [a \in Agents |-> mail[a] \cup (IF a \in S THEN {notice} ELSE {})]

\* Mutant: completed drafts stay publishable.
FaultyStale(q, except) == {}

\* _stale_ready_drafts
Stale(q, except) ==
    {d \in Drafts \ except : drafts[d].status = "READY" /\ drafts[d].request = q}
Staled(S) == [d \in Drafts |-> IF d \in S THEN [drafts[d] EXCEPT !.status = "STALE"] ELSE drafts[d]]

\* Mutant: only an initial proposal is created automatically.
FaultyAutos(q, f) ==
    IF Revision(f) = 1 /\ Invited(f) = {} /\ Proposal(f).auto
    THEN {<<"auto", q, Revision(f)>>} ELSE {}

\* The task of _schedule_empty_auto_creation, if there is one.
Autos(q, f) ==
    IF Invited(f) = {} /\ Proposal(f).auto THEN {<<"auto", q, Revision(f)>>} ELSE {}

\* Mutant: who accepted need not consent again.
FaultyRevised(f, c, source) ==
    [Unused EXCEPT
        !.status = IF Content[c].invitees = {} /\ ~Content[c].auto THEN "ready" ELSE "collecting",
        !.revisions = Append(f.revisions, [content |-> c, source |-> source]),
        !.attitude = [a \in Agents |-> IF a \notin Content[c].invitees THEN "none"
                                       ELSE IF f.attitude[a] = "none" THEN "silent"
                                       ELSE f.attitude[a]]]

\* A new revision: every invitation is silent.
Revised(f, c, source) ==
    [Unused EXCEPT
        !.status = IF Content[c].invitees = {} /\ ~Content[c].auto THEN "ready" ELSE "collecting",
        !.revisions = Append(f.revisions, [content |-> c, source |-> source]),
        !.attitude = [a \in Agents |-> IF a \in Content[c].invitees THEN "silent" ELSE "none"]]

\* A commit that returns.
Finish(f) ==
    /\ f \in flight
    /\ flight' = flight \ {f}
    /\ jobs' = jobs \cup f.after
    /\ UNCHANGED <<forms, decided, drafts, teams, members, mail, waiting, thinking, spent>>

\* The caller of an operation is cancelled; the commit is shielded.  Detached
\* tasks are cancelled only when the manager closes.
Cancel(f) ==
    /\ f \in flight /\ f.kind = "call"
    /\ spent.cancels < limit.cancels
    /\ spent' = [spent EXCEPT !.cancels = @ + 1]
    /\ flight' = flight \ {f}
    /\ UNCHANGED <<forms, decided, drafts, teams, members, mail, waiting, jobs, thinking>>

\* A rollback puts copies into the registries.  A publication that waits keeps
\* the object it has, as it was.  After a failed automatic creation the task
\* commits a reason, and would roll back to its own object, which is CREATED.
Fail(f) ==
    /\ f \in flight
    /\ spent.faults < limit.faults
    /\ spent' = [spent EXCEPT !.faults = @ + 1]
    /\ forms' = Override(forms, f.undo.forms)
    /\ decided' = Override(decided, f.undo.decided)
    /\ drafts' = Override(drafts, f.undo.drafts)
    /\ members' = Override(members, f.undo.members)
    /\ mail' = Override(mail, f.undo.mail)
    /\ teams' = IF f.undo.teams = {} THEN teams ELSE UNION f.undo.teams
    /\ waiting' = {IF w.draft \in DOMAIN f.undo.drafts /\ w.own = {}
                   THEN [w EXCEPT !.own = {drafts[w.draft]}] ELSE w : w \in waiting}
    /\ flight' = (flight \ {f}) \cup
         (IF f.kind = "auto"
          THEN {[f EXCEPT !.kind = "reason",
                          !.undo = [NoUndo EXCEPT
                              !.forms = Only(forms, f.requests),
                              !.mail = Only(Override(mail, f.undo.mail),
                                            {Initiator[q] : q \in f.requests})]]}
          ELSE {})
    /\ UNCHANGED <<jobs, thinking>>

-----------------------------------------------------------------------------
(* Proposals and the answers of the invited. *)

\* propose_team_formation saves without waiting for the commit.
Propose(q, c) ==
    /\ forms[q].status = "none"
    /\ Proposable(q, c) /\ Present(q)
    /\ limit.drafted => Scope[q] = NoTeam
    /\ LET f == Revised(Unused, c, Nothing) IN
         /\ forms' = [forms EXCEPT ![q] = f]
         /\ mail' = Told(Invited(f), <<q, 1>>)
         /\ jobs' = jobs \cup Autos(q, f)
    /\ UNCHANGED <<decided, drafts, teams, members, flight, waiting, thinking, spent>>

\* create_immediate and _create_agent_team publish under the topology lock.
NewTeam(q, f) ==
    /\ teams' = teams \cup {q}
    /\ members' = [members EXCEPT ![q] = Founders(q, f)]

\* _finalize_locked; f is the formation to create, before what is rolled back to.
Finalize(q, f, before, kind) ==
    LET told == Invited(f) \cup {Initiator[q]}
        stale == Stale(q, {})
    IN  /\ forms' = [forms EXCEPT ![q] = [f EXCEPT !.status = "created", !.joined = Accepted(f)]]
        /\ NewTeam(q, f)
        /\ drafts' = Staled(stale)
        /\ mail' = Told(told, <<q, 0>>)
        /\ Commit({q}, {}, [NoUndo EXCEPT !.forms = [x \in {q} |-> before],
                                          !.decided = Only(decided, {q}),
                                          !.drafts = Only(drafts, stale),
                                          !.mail = Only(mail, told),
                                          !.teams = {teams}], {}, kind)

Decide(q, n, a, answer) ==
    decided' = [decided EXCEPT ![q] =
        {x \in @ : x[1] # n \/ x[2] # a} \cup {<<n, a, answer>>}]

\* Two answers an invitation already has change nothing: the one it has, and
\* an explicit silence.  n is the revision that the Agent answers.
Respond(q, a, n, answer) ==
    /\ LockFree(q)
    /\ Open(forms[q]) /\ n = Revision(forms[q])
    /\ forms[q].attitude[a] \notin {"none", answer}
    /\ LET g == [forms[q] EXCEPT !.attitude[a] = answer]
           all == Accepted(g) = Invited(g)
           f == [g EXCEPT !.status = IF all /\ ~Proposal(g).auto THEN "ready" ELSE "collecting"]
       IN  /\ Decide(q, n, a, answer)
           /\ IF all /\ Proposal(f).auto /\ Creatable(q, f)
              THEN Finalize(q, f, forms[q], "call")
              ELSE /\ forms' = [forms EXCEPT ![q] = f]
                   /\ Commit({q}, {}, [NoUndo EXCEPT !.forms = Only(forms, {q}),
                                                     !.decided = Only(decided, {q}),
                                                     !.mail = Only(mail, {Initiator[q], a})],
                             {}, "call")
                   /\ UNCHANGED <<drafts, teams, members, mail>>
    /\ UNCHANGED <<waiting, jobs, thinking, spent>>

Create(q) ==
    /\ LockFree(q)
    /\ Creatable(q, forms[q])
    /\ Finalize(q, forms[q], forms[q], "call")
    /\ UNCHANGED <<decided, waiting, jobs, thinking, spent>>

\* _schedule_empty_auto_creation
AutoCreate(q, n) ==
    /\ <<"auto", q, n>> \in jobs
    /\ LockFree(q)
    /\ jobs' = jobs \ {<<"auto", q, n>>}
    /\ IF n = Revision(forms[q]) /\ Creatable(q, forms[q])
       THEN Finalize(q, forms[q], forms[q], "auto")
       ELSE UNCHANGED <<forms, drafts, teams, members, mail, flight>>
    /\ UNCHANGED <<decided, waiting, thinking, spent>>

Abandon(q) ==
    /\ LockFree(q)
    /\ Open(forms[q])
    /\ forms' = [forms EXCEPT ![q].status = "abandoned"]
    /\ drafts' = Staled(Stale(q, {}))
    /\ Commit({q}, {}, [NoUndo EXCEPT !.forms = Only(forms, {q}),
                                      !.drafts = Only(drafts, Stale(q, {})),
                                      !.mail = Only(mail, Invited(forms[q]) \cup {Initiator[q]})],
              {}, "call")
    /\ UNCHANGED <<decided, teams, members, mail, waiting, jobs, thinking, spent>>

\* Mutant: created and abandoned formations may be revised.
FaultyRevisable(q, c) ==
    /\ forms[q].status # "none"
    /\ Last(forms[q].revisions).content # c
    /\ Proposable(q, c) /\ Present(q)

\* What _revise_locked checks.
Revisable(q, c) ==
    /\ Open(forms[q])
    /\ Last(forms[q].revisions).content # c
    /\ Proposable(q, c) /\ Present(q)

\* The part of _revise_locked that a revision and a publication share; copies
\* are what the registry of drafts is rolled back to.
Revise(q, c, source, published, copies, held) ==
    LET f == Revised(forms[q], c, source)
        stale == Stale(q, {source})
        told == Invited(forms[q]) \cup Invited(f) \cup {Initiator[q]}
    IN  /\ Revision(forms[q]) < limit.revisions
        /\ forms' = [forms EXCEPT ![q] = f]
        /\ drafts' = Override(Staled(stale), published)
        /\ mail' = Told(Invited(f), <<q, Revision(f)>>)
        /\ Commit({q}, held, [NoUndo EXCEPT
               !.forms = Only(forms, {q}),
               !.drafts = [d \in stale \cup DOMAIN copies |->
                             IF d \in DOMAIN copies THEN copies[d] ELSE drafts[d]],
               !.mail = Only(mail, told)], Autos(q, f), "call")

ReviseFormation(q, c) ==
    /\ LockFree(q)
    /\ limit.drafted => Scope[q] = NoTeam
    /\ Revisable(q, c)
    /\ Revise(q, c, Nothing, <<>>, <<>>, {})
    /\ UNCHANGED <<decided, teams, members, waiting, jobs, thinking, spent>>

-----------------------------------------------------------------------------
(* After creation. *)

\* _commit_late_join
Join(q, a, before, undone) ==
    /\ forms' = [forms EXCEPT ![q].attitude[a] = "accepted", ![q].joined = @ \cup {a},
                              ![q].late[a] = "approved"]
    /\ members' = [members EXCEPT ![q] = @ \cup {a}]
    /\ Commit({q}, {}, [NoUndo EXCEPT !.forms = [x \in {q} |-> before],
                                      !.decided = Only(decided, {q}),
                                      !.members = Only(members, {q}),
                                      !.mail = Only(mail, undone)], {}, "call")
    /\ UNCHANGED <<drafts, teams, mail, waiting, jobs, thinking, spent>>

\* _respond_after_creation; an accepted invitation may be accepted again.
RespondLate(q, a, n, answer) ==
    LET f == forms[q] IN
    /\ LockFree(q)
    /\ f.status = "created" /\ n = Revision(f)
    /\ a \in Invited(f) \ f.joined
    /\ Proposal(f).late # "disabled"
    /\ answer = f.attitude[a] => answer = "accepted"
    /\ Decide(q, n, a, answer)
    /\ IF answer = "accepted" /\ Proposal(f).late = "open"
       THEN /\ q \in teams /\ a \notin members[q]
            /\ Join(q, a, f, {Initiator[q], a})
       ELSE /\ forms' = [forms EXCEPT
                  ![q].attitude[a] = answer,
                  ![q].late[a] = IF answer = "accepted" THEN "pending" ELSE "no"]
            /\ Commit({q}, {}, [NoUndo EXCEPT !.forms = Only(forms, {q}),
                                              !.decided = Only(decided, {q}),
                                              !.mail = Only(mail, {Initiator[q], a})], {}, "call")
            /\ UNCHANGED <<drafts, teams, members, mail, waiting, jobs, thinking, spent>>

DecideLate(q, a, approved) ==
    /\ LockFree(q)
    /\ forms[q].status = "created" /\ forms[q].late[a] = "pending"
    /\ IF approved
       THEN /\ q \in teams /\ a \notin members[q]
            /\ Join(q, a, forms[q], {a})
       ELSE /\ forms' = [forms EXCEPT ![q].late[a] = "denied"]
            /\ Commit({q}, {}, [NoUndo EXCEPT !.forms = Only(forms, {q}),
                                              !.mail = Only(mail, {a})], {}, "call")
            /\ UNCHANGED <<drafts, teams, members, mail, waiting, jobs, thinking, spent>>
    /\ UNCHANGED decided

\* Members, the new Agents that were created with the team among them.
Size(t) == Cardinality(members[t]) + (IF t \in Requests THEN Proposal(forms[t]).fresh ELSE 0)

ParentTeam(t) == IF t \in Scopes THEN Parent[t] ELSE Scope[t]

\* remove_team_member, by a member of the parent team; it waits for the team's
\* state_lock, which a late join keeps across its commit.
Leave(a, t) ==
    /\ spent.leaves < limit.leaves
    /\ ParentTeam(t) # NoTeam
    /\ t \in teams /\ a \in members[t] /\ Size(t) > MinSize
    /\ \A f \in flight : t \notin DOMAIN f.undo.members
    /\ spent' = [spent EXCEPT !.leaves = @ + 1]
    /\ members' = [members EXCEPT ![t] = @ \ {a}]
    /\ UNCHANGED <<forms, decided, drafts, teams, mail, flight, waiting, jobs, thinking>>

-----------------------------------------------------------------------------
(* Drafts. *)

\* _draft_base_is_current
BaseCurrent(x) ==
    \A q \in Requests \cap {x.request} : Open(forms[q]) /\ x.base = Revision(forms[q])

SetDraft(d, x, after, kind) ==
    /\ drafts' = [drafts EXCEPT ![d] = x]
    /\ Commit({}, {d}, [NoUndo EXCEPT !.drafts = Only(drafts, {d})], after, kind)
    /\ UNCHANGED <<forms, decided, teams, members, mail, waiting, spent>>

\* Until the commit has returned nobody knows the draft.
NewDraft(d, q) ==
    /\ drafts[d].status = "none" /\ Present(d)
    /\ LET x == [NoDraft EXCEPT !.status = "PENDING", !.request = q,
                                !.base = IF q = Initial THEN 0 ELSE Revision(forms[q])]
       IN  drafts' = [drafts EXCEPT ![d] = x]
    /\ IF q = Initial THEN limit.initial
       ELSE /\ LockFree(q) /\ Open(forms[q])
            /\ Initiator[d] = Initiator[q] /\ Scope[d] = Scope[q]
    /\ Commit({q} \ {Initial}, {d}, [NoUndo EXCEPT !.drafts = Only(drafts, {d})],
              {<<"draft", d, 0>>}, "call")
    /\ UNCHANGED <<forms, decided, teams, members, mail, waiting, jobs, thinking, spent>>

\* Of two tasks for one draft, the second ends at once.
RetryDraft(d) ==
    /\ DraftFree(d)
    /\ drafts[d].status \in {"PENDING", "FAILED", "CANCELLED"}
    /\ SetDraft(d, [drafts[d] EXCEPT !.status = "PENDING"], {<<"draft", d, 0>>}, "call")
    /\ UNCHANGED <<jobs, thinking>>

\* _run_formation_draft, up to its first commit
RunDraft(d) ==
    /\ <<"draft", d, 0>> \in jobs
    /\ DraftFree(d)
    /\ jobs' = jobs \ {<<"draft", d, 0>>}
    /\ IF drafts[d].status = "PENDING"
       THEN SetDraft(d, [drafts[d] EXCEPT !.status = "RUNNING"], {<<"think", d, 0>>}, "task")
       ELSE UNCHANGED <<forms, decided, drafts, teams, members, mail, flight, waiting, spent>>
    /\ UNCHANGED thinking

\* _synthesize_draft begins a discussion of the scope, if the base is current.
Deliberate(d) ==
    /\ <<"think", d, 0>> \in jobs
    /\ BaseCurrent(drafts[d])
    /\ jobs' = jobs \ {<<"think", d, 0>>}
    /\ thinking' = thinking \cup
         {[draft |-> d, with |-> IF Scope[d] = NoTeam THEN {} ELSE members[Scope[d]]]}
    /\ UNCHANGED <<forms, decided, drafts, teams, members, mail, flight, waiting, spent>>

\* A candidate of the members that began, who are still the members.
Synthesized(x, c) ==
    /\ Scope[x.draft] # NoTeam => Scope[x.draft] \in teams /\ x.with = members[Scope[x.draft]]
    /\ Proposable(x.draft, c)

\* The outcome of the deliberation; a draft that is not running is left alone.
Conclude(d, x) ==
    /\ DraftFree(d)
    /\ IF drafts[d].status = "RUNNING"
       THEN /\ drafts' = [drafts EXCEPT ![d] = x]
            /\ Commit({}, {d}, [NoUndo EXCEPT !.drafts = Only(drafts, {d}),
                                              !.mail = Only(mail, {Initiator[d]})], {}, "task")
       ELSE UNCHANGED <<drafts, flight>>
    /\ UNCHANGED <<forms, decided, teams, members, mail, waiting, spent>>

\* The base is gone before the deliberation began (_stale_running_draft).
BaseGone(d) ==
    /\ <<"think", d, 0>> \in jobs
    /\ ~BaseCurrent(drafts[d])
    /\ jobs' = jobs \ {<<"think", d, 0>>}
    /\ Conclude(d, [drafts[d] EXCEPT !.status = "STALE"])
    /\ UNCHANGED thinking

\* The end of _run_formation_draft.
Deliver(x, c) ==
    /\ x \in thinking /\ Synthesized(x, c)
    /\ thinking' = thinking \ {x}
    /\ LET y == drafts[x.draft] IN
         Conclude(x.draft, [y EXCEPT !.status = IF BaseCurrent(y) THEN "READY" ELSE "STALE",
                                     !.candidate = c])
    /\ UNCHANGED jobs

\* A discussion or a candidate that fails (_fail_draft).
GiveUp(x) ==
    /\ x \in thinking
    /\ thinking' = thinking \ {x}
    /\ Conclude(x.draft, [drafts[x.draft] EXCEPT !.status = "FAILED"])
    /\ UNCHANGED jobs

\* The draft that a publication holds: that of the registry, if no rollback
\* has put a copy there.
Held(w) == IF w.own = {} THEN drafts[w.draft] ELSE CHOOSE x \in w.own : TRUE
Registered(w, status) ==
    IF w.own = {} THEN [d \in {w.draft} |-> [drafts[d] EXCEPT !.status = status]] ELSE <<>>

Mark(w, status) ==
    /\ drafts' = Override(drafts, Registered(w, status))
    /\ Commit({Held(w).request}, {w.draft},
              [NoUndo EXCEPT !.drafts = [d \in {w.draft} |-> Held(w)]], {}, "call")
    /\ UNCHANGED <<forms, mail>>

\* The part of publish_team_formation_draft under the lock of the request
PublishHeld(w) ==
    LET x == Held(w)
        q == x.request
    IN
    /\ LockFree(q)
    /\ \/ ~BaseCurrent(x) /\ Mark(w, "STALE")
       \/ /\ BaseCurrent(x) /\ Last(forms[q].revisions).content = x.candidate
          /\ Mark(w, "PUBLISHED")
       \/ /\ BaseCurrent(x) /\ Last(forms[q].revisions).content # x.candidate
          /\ IF Revisable(q, x.candidate)
             THEN Revise(q, x.candidate, w.draft, Registered(w, "PUBLISHED"),
                         [d \in {w.draft} |-> x], {w.draft})
             ELSE UNCHANGED <<forms, drafts, mail, flight>>
    /\ UNCHANGED <<decided, teams, members, jobs, thinking, spent>>

\* It is reached at once, or after another operation has released the lock.
PublishRevision(d) ==
    LET w == [draft |-> d, own |-> {}]
        q == drafts[d].request
    IN
    /\ DraftFree(d)
    /\ drafts[d].status = "READY" /\ q # Initial
    /\ \/ PublishHeld(w) /\ UNCHANGED waiting
       \/ /\ ~LockFree(q) /\ limit.waits
          /\ waiting' = waiting \cup {w}
          /\ UNCHANGED <<forms, decided, drafts, teams, members, mail, flight, jobs, thinking, spent>>

PublishWaiting(w) ==
    /\ w \in waiting
    /\ PublishHeld(w)
    /\ waiting' = waiting \ {w}

\* _publish_initial_draft; the request it proposes is not locked.
PublishInitial(d, q) ==
    /\ DraftFree(d)
    /\ drafts[d].status = "READY" /\ drafts[d].request = Initial
    /\ forms[q].status = "none" /\ Initiator[q] = Initiator[d] /\ Scope[q] = Scope[d]
    /\ Proposable(q, drafts[d].candidate) /\ Present(q)
    /\ LET f == Revised(Unused, drafts[d].candidate, d) IN
         /\ forms' = [forms EXCEPT ![q] = f]
         /\ mail' = Told(Invited(f), <<q, 1>>)
         /\ Commit({}, {d}, [NoUndo EXCEPT !.forms = Only(forms, {q}),
                                           !.drafts = Only(drafts, {d}),
                                           !.mail = Only(mail, Invited(f) \cup {Initiator[d]})],
                   Autos(q, f), "call")
    /\ drafts' = [drafts EXCEPT ![d].status = "PUBLISHED"]
    /\ UNCHANGED <<decided, teams, members, waiting, jobs, thinking, spent>>
=============================================================================
