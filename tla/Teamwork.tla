------------------------------ MODULE Teamwork ------------------------------
(***************************************************************************)
(* Formations and discussions together, with restarts: what is restored    *)
(* must satisfy the validators of core/manager/state_validation and        *)
(* core/manager/communication_validation, or the restore fails.            *)
(***************************************************************************)
EXTENDS Discussion

CONSTANTS
    Starts   \* what a behaviour starts with: the requests, drafts and contents that
             \* come up in it, the members of every AgentTeam, and the bounds

ASSUME TeamworkAssumption ==
    \A s \in Starts : /\ s.contents \subseteq Contents /\ s.agenda \subseteq Requests \cup Drafts
                      /\ s.members \in [Scopes -> SUBSET Agents] /\ s.rounds \in Nat \ {0}

vars == <<formVars, talkVars, limit>>

Init ==
    /\ \E s \in Starts :
         /\ limit = s
         /\ members = [t \in Scopes \cup Requests |-> IF t \in Scopes THEN s.members[t] ELSE {}]
    /\ forms = [q \in Requests |-> Unused]
    /\ decided = [q \in Requests |-> {}]
    /\ drafts = [d \in Drafts |-> NoDraft]
    /\ teams = Scopes
    /\ mail = [a \in Agents |-> {}]
    /\ flight = {} /\ waiting = {} /\ jobs = {} /\ thinking = {}
    /\ spent = [faults |-> 0, cancels |-> 0, leaves |-> 0, restarts |-> 0, calls |-> 0, acks |-> 0]
    /\ alerts = [t \in Scopes |-> <<>>]
    /\ letters = [t \in Scopes |-> {}]
    /\ peer = [m \in Messages |-> "none"]
    /\ sending = {} /\ sessions = {} /\ wakeups = {}
    /\ proposals = [p \in Proposals |-> [status |-> "none", by |-> {}, executed |-> FALSE,
                                         votes |-> [a \in Agents |-> "none"]]]
    /\ disk = [alerts |-> alerts, letters |-> letters, peer |-> peer]

-----------------------------------------------------------------------------
(* The validators of a restore. *)

ContentAt(q, n) == forms[q].revisions[n].content
Known(q, n) == forms[q].status # "none" /\ n \in 1..Revision(forms[q])

\* validate_formations: requests and their revisions
ValidHistory(q, f) ==
    /\ Invited(f) = Proposal(f).invitees
    /\ \A n \in 2..Revision(f) : ContentAt(q, n) # ContentAt(q, n - 1)

ValidStatus(q, f) ==
    /\ Open(f) => (f.status = "ready" <=> Accepted(f) = Invited(f) /\ ~Proposal(f).auto)
    /\ f.status = "created" =>
         /\ q \in teams
         /\ f.joined \subseteq Accepted(f)
         /\ \A a \in Invited(f) : f.late[a] = "pending" =>
              Proposal(f).late = "confirm" /\ f.attitude[a] = "accepted"
    /\ f.status # "created" =>
         f.joined = {} /\ \A a \in Invited(f) : f.late[a] # "pending"

\* ... invitations and their decisions
ValidInvitations(f) ==
    \A a \in Invited(f) :
        /\ f.late[a] = "denied" => a \notin f.joined
        /\ f.late[a] = "approved" => a \in f.joined

ValidDecisions(q, f) ==
    /\ \A a \in Invited(f) :
         LET last == {x[3] : x \in {y \in decided[q] : y[1] = Revision(f) /\ y[2] = a}} IN
             last = {f.attitude[a]} \/ (last = {} /\ f.attitude[a] = "silent")
    /\ \A x \in decided[q] : Known(q, x[1]) /\ x[2] \in Content[ContentAt(q, x[1])].invitees

\* ... the drafts that revisions come from
Sources(d) ==
    {r \in UNION {{q} \X (1..Revision(forms[q])) : q \in Requests} :
        Known(r[1], r[2]) /\ forms[r[1]].revisions[r[2]].source = d}

\* _validate_drafts
ValidDraft(d, x) ==
    /\ x.request # Initial => Known(x.request, x.base)
    /\ x.status \in {"READY", "PUBLISHED"} => x.candidate # Nothing
    /\ x.status \in {"PENDING", "RUNNING", "FAILED", "CANCELLED"} => x.candidate = Nothing
    /\ x.status = "READY" => BaseCurrent(x)
    /\ Cardinality(Sources(d)) <= 1
    /\ \A r \in Sources(d) :
         /\ x.status = "PUBLISHED" /\ x.candidate = ContentAt(r[1], r[2])
         /\ Initiator[r[1]] = Initiator[d] /\ Scope[r[1]] = Scope[d]
         /\ IF x.request = Initial THEN r[2] = 1 ELSE r = <<x.request, x.base + 1>>
    /\ x.status = "PUBLISHED" /\ Sources(d) = {} =>
         x.request # Initial /\ x.candidate = ContentAt(x.request, x.base)

ValidState ==
    /\ \A q \in Requests :
         IF forms[q].status = "none" THEN decided[q] = {}
         ELSE /\ ValidHistory(q, forms[q]) /\ ValidStatus(q, forms[q])
              /\ ValidInvitations(forms[q]) /\ ValidDecisions(q, forms[q])
    /\ \A d \in Drafts : drafts[d].status # "none" => ValidDraft(d, drafts[d])

-----------------------------------------------------------------------------
(* The process stops while no formation is being committed: it closes and  *)
(* freezes the drafts that run, or crashes.  Formations are restored as    *)
(* they were, inboxes as they were saved; no task is started again.        *)

Interrupted(frozen) ==
    [d \in Drafts |-> IF drafts[d].status = "RUNNING"
                      THEN [drafts[d] EXCEPT !.status = frozen] ELSE drafts[d]]

Restart(frozen) ==
    /\ spent.restarts < limit.restarts
    /\ spent' = [spent EXCEPT !.restarts = @ + 1]
    /\ flight = {} /\ waiting = {}
    /\ ValidState
    /\ drafts' = Interrupted(frozen)
    /\ jobs' = {} /\ thinking' = {}
    /\ Recover
    /\ UNCHANGED <<forms, decided, teams, members, mail, flight, waiting>>

Answer(q) ==
    \E a \in Agents, n \in 1..limit.revisions, answer \in Answers :
        Respond(q, a, n, answer) \/ RespondLate(q, a, n, answer)

Request(q) ==
    \/ \E c \in limit.contents : Propose(q, c) \/ ReviseFormation(q, c)
    \/ Answer(q)
    \/ Create(q) \/ Abandon(q)
    \/ \E a \in Agents, approved \in BOOLEAN : DecideLate(q, a, approved)

Draft(d) ==
    \/ \E q \in (Requests \cap limit.agenda) \cup {Initial} : NewDraft(d, q)
    \/ RetryDraft(d) \/ PublishRevision(d)
    \/ \E q \in Requests \cap limit.agenda : PublishInitial(d, q)

\* What detached tasks and waiting publications do by themselves.
AutoStep(q) == \E n \in 1..limit.revisions : AutoCreate(q, n)
DraftStep(d) ==
    \/ RunDraft(d) \/ Deliberate(d) \/ BaseGone(d)
    \/ \E x \in thinking : x.draft = d /\ (GiveUp(x) \/ \E c \in limit.contents : Deliver(x, c))
    \/ \E w \in waiting : w.draft = d /\ PublishWaiting(w)

Returns(x) == \E f \in flight : x \in f.requests \cup f.drafts /\ Finish(f)

FormationStep ==
    /\ \/ \E q \in Requests \cap limit.agenda : Request(q) \/ AutoStep(q)
       \/ \E d \in Drafts \cap limit.agenda : Draft(d) \/ DraftStep(d)
       \/ \E f \in flight : Finish(f) \/ Cancel(f) \/ Fail(f)
       \/ \E a \in Agents, t \in Scopes \cup Requests : Leave(a, t)
    /\ UNCHANGED talkVars

Vote(p) ==
    \/ \E a \in Agents : Initiate(p, a, {}) \/ Initiate(p, a, {a}) \/ Retract(p, a)
    \/ \E a \in Agents, vote \in {"Agree", "Disagree", "Abstain"} : CastVote(p, a, vote)

\* What a discussion does by itself.
Proceed(s) ==
    \/ Enter(s) \/ Abort(s) \/ Break(s)
    \/ \E errors \in BOOLEAN : EndRound(s, errors)
    \/ \E kind \in {"healthy", "unknown", "failure"} : Audited(s, kind)

formOnly == <<forms, decided, drafts, teams, mail, flight, waiting, jobs, thinking>>

TalkStep ==
    /\ \/ \E t \in Scopes : Call(t)
       \/ \E s \in sessions : Proceed(s)
       \/ \E t \in Scopes, id \in Alert : Acknowledge(t, id)
       \/ \E m \in Messages : Send(m)
       \/ \E x \in sending : SendReturns(x)
       \/ \E p \in Proposals : Vote(p)
    /\ UNCHANGED formOnly

Next ==
    /\ FormationStep \/ TalkStep \/ \E frozen \in {"PENDING", "CANCELLED"} : Restart(frozen)
    /\ UNCHANGED limit

Spec == Init /\ [][Next]_vars

\* Commits return, detached tasks run and discussions end: the loops of turns
\* and the timeouts of the model clients bound them.  A lock is given to the
\* waiting tasks in their order.
Meets(t) == (\E s \in sessions : s.team = t /\ Proceed(s)) /\ UNCHANGED formOnly

Fairness ==
    /\ \A x \in Requests \cup Drafts : WF_vars(Returns(x) /\ UNCHANGED <<talkVars, limit>>)
    /\ \A q \in Requests : WF_vars(AutoStep(q) /\ UNCHANGED <<talkVars, limit>>)
    /\ \A d \in Drafts : WF_vars(DraftStep(d) /\ UNCHANGED <<talkVars, limit>>)
    /\ \A t \in Scopes : WF_vars(Meets(t) /\ UNCHANGED limit)

FairSpec == Spec /\ Fairness

-----------------------------------------------------------------------------
(* Properties. *)

FormTypes ==
    [status : {"none", "collecting", "ready", "created", "abandoned"},
     revisions : Seq([content : Contents, source : Drafts \cup {Nothing}]),
     attitude : [Agents -> Answers \cup {"none"}],
     joined : SUBSET Agents,
     late : [Agents -> {"no", "pending", "denied", "approved"}]]

\* Every variable has its type, and a lock has one holder.
TypeOK ==
    /\ forms \in [Requests -> FormTypes]
    /\ \A q \in Requests : decided[q] \subseteq (Nat \X Agents \X Answers)
    /\ drafts \in [Drafts -> [status : {"none", "PENDING", "RUNNING", "READY", "STALE",
                                        "PUBLISHED", "FAILED", "CANCELLED"},
                              request : Requests \cup {Initial}, base : Nat,
                              candidate : Contents \cup {Nothing}]]
    /\ Scopes \subseteq teams /\ teams \subseteq Scopes \cup Requests
    /\ members \in [Scopes \cup Requests -> SUBSET Agents]
    /\ mail \in [Agents -> SUBSET (Requests \X Nat)]
    /\ \A f, g \in flight : f # g => f.requests \cap g.requests = {} /\ f.drafts \cap g.drafts = {}
    /\ \A w \in waiting, f \in flight : w.draft \notin f.drafts
    /\ \A t \in Scopes : alerts[t] \in Seq([id : Alert, count : Nat, claimed : Nat])
    /\ letters \in [Scopes -> SUBSET Messages]
    /\ peer \in [Messages -> {"none", "pending", "consumed"}]
    /\ \A r, s \in sessions : r # s /\ r.team = s.team => ~Running(r) \/ ~Running(s)
    /\ wakeups = Keys(sessions)
    /\ proposals \in [Proposals ->
           [status : {"none", "active", "approved", "rejected", "retracted"}, by : SUBSET Agents,
            executed : BOOLEAN, votes : [Agents -> {"none", "Agree", "Disagree", "Abstain"}]]]

\* What is in memory when nothing awaits a commit can be restored: the
\* registries that an operation changes, or rolls back, fit together.
Restorable ==
    /\ flight = {} /\ waiting = {} => ValidState
    /\ ValidDeliveries(letters, peer)

\* Nobody is made a member of an AgentTeam without having accepted the very
\* revision that was created, unless its members have voted for it; a late
\* member of a team whose policy asks for the initiator's confirmation has it.
Voted(P, t, a) ==
    \E p \in Proposals : /\ P[p].executed /\ P[p].status = "approved"
                         /\ Ballot[p] = [team |-> t, action |-> "add", target |-> a]

Consent ==
    \A q \in Requests : forms[q].status = "created" =>
        \A a \in members[q] :
            \/ a = Initiator[q] /\ Proposal(forms[q]).joins
            \/ /\ <<Revision(forms[q]), a, "accepted">> \in decided[q]
               /\ a \in Proposal(forms[q]).invitees /\ a \in forms[q].joined
            \/ Voted(proposals, q, a)

\* Whoever may answer a revision, or belongs to a created AgentTeam by an
\* invitation, has been told of exactly that: a rollback takes back no more
\* than it should.
Informed ==
    \A q \in Requests : forms[q].status \in {"collecting", "ready", "created"} =>
        \A a \in Invited(forms[q]) :
            /\ <<q, Revision(forms[q])>> \in mail[a]
            /\ forms[q].status = "created" => <<q, 0>> \in mail[a]

\* A formation that has been created or abandoned stays as it is, except that
\* invited Agents join; where the policy asks for it the initiator was asked.
Settled(q) == forms[q].status \in {"created", "abandoned"} /\ LockFree(q)

Closed(q) ==
    /\ forms'[q].status = forms[q].status /\ forms'[q].revisions = forms[q].revisions
    /\ forms[q].joined \subseteq forms'[q].joined
    /\ \A a \in forms'[q].joined \ forms[q].joined :
         \/ Proposal(forms[q]).late = "open"
         \/ Proposal(forms[q]).late = "confirm" /\ forms[q].late[a] = "pending"

ClosedForGood == [][\A q \in Requests : Settled(q) => Closed(q)]_vars

\* If no commit fails and nobody is cancelled, a draft that runs ends.
Undisturbed == spent.faults = 0 /\ spent.cancels = 0 /\ spent.restarts = 0

DraftsEnd ==
    \A d \in Drafts : drafts[d].status = "RUNNING" ~> (drafts[d].status # "RUNNING" \/ ~Undisturbed)

\* Then too a formation that waits for nobody's answer and may be created
\* automatically is, unless it is revised, closed or no longer possible.
Automatic(q) ==
    /\ Open(forms[q]) /\ Invited(forms[q]) = {}
    /\ Proposal(forms[q]).auto /\ Creatable(q, forms[q]) /\ Undisturbed

AutoCreated == \A q \in Requests : Automatic(q) ~> ~Automatic(q)

Proceeds == DraftsEnd /\ AutoCreated

\* What a crash may leave can be restored: no delta has the inbox of an
\* AgentTeam without the delivery states that go with it.  Not so when a commit
\* has failed, or when a wakeup reads a letter: its batch is lost (wakeup_batch).
DiskRestorable ==
    spent.faults = 0 /\ limit.wakes = {} => ValidDeliveries(disk.letters, disk.peer)

\* Occurrences of an alert leave an inbox only when a discussion succeeds that
\* has claimed every one of them, or the host acknowledges it.
Count(box, id) == LET S == {x \in ToSet(box) : x.id = id} IN
                    IF S = {} THEN 0 ELSE (CHOOSE x \in S : TRUE).count

Handled(t, id) ==
    \E s \in sessions \ sessions' :
        /\ s.team = t /\ s.round >= limit.rounds /\ id \in s.claims
        /\ \A x \in ToSet(alerts[t]) : x.id = id => x.claimed = x.count

AlertsKept ==
    [][\A t \in Scopes : \A id \in Durable \X Scopes :
         Count(alerts'[t], id) < Count(alerts[t], id) =>
            spent'.acks > spent.acks \/ spent'.restarts > spent.restarts \/ Handled(t, id)]_vars

\* A claim has a discussion that will give it back: also after a crash, but for
\* an alert of degraded operation, which hydration leaves as it was saved.
Claims ==
    \A t \in Scopes : \A x \in ToSet(alerts[t]) :
        x.claimed > 0 => \/ \E s \in sessions : s.team = t /\ x.id \in s.claims
                         \/ x.id[1] = "degraded" /\ spent.restarts > 0

\* A message is consumed by a discussion of its recipient that has begun a
\* round with it and has come to its end.
ReadInFull ==
    [][\A m \in Messages : peer[m] # "consumed" /\ peer'[m] = "consumed" =>
         spent'.restarts > spent.restarts \/
         \E s \in sessions \ sessions' :
            s.team = To[m] /\ m \in s.shown /\ s.round >= limit.rounds]_vars

\* A proposal changes the members at most once, and not during a round; no
\* other vote changes them.
TakesEffect(p) ==
    /\ ~proposals[p].executed /\ proposals[p].status \in {"active", "approved"}
    /\ \A s \in sessions : s.team = Ballot[p].team /\ Running(s) => s \notin sessions'

VotesDeferred ==
    [][/\ \A p \in Proposals :
            proposals'[p].executed /\ proposals'[p] # proposals[p] => TakesEffect(p)
       /\ \A t \in Scopes \cup Requests :
            members'[t] # members[t] /\ <<flight, spent>>' = <<flight, spent>> =>
              \E p \in Proposals : Ballot[p].team = t /\ ~proposals[p].executed /\ proposals'[p].executed
      ]_vars

\* An alert that waits with the discussion it has scheduled is claimed.  One
\* that comes again while that discussion runs may wait for ever: its wakeup is
\* taken for active until the discussion ends.
Scheduled(id) ==
    /\ id \in Pending(alerts[Parent[id[2]]])
    /\ \E s \in sessions : s.team = Parent[id[2]] /\ s.wake = id /\ ~Running(s)

Heard ==
    \A id \in {x \in Alert : x[1] \in Durable /\ Parent[x[2]] # NoTeam} :
        Scheduled(id) ~> id \notin Pending(alerts[Parent[id[2]]])
=============================================================================
