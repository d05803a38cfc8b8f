----------------------------- MODULE Governance -----------------------------
(***************************************************************************)
(* Voting rounds (core/manager/governance) and the bounded attempt of a    *)
(* parent to choose a replacement model (core/decision.py).                *)
(*                                                                         *)
(* A business is what is decided: a migration, a communication request or  *)
(* a failover.  A principal decides it in rounds: a round freezes the      *)
(* electorate, mails every voter, and is decided when all have submitted.  *)
(* Rounds change under governance.lock, which is kept while the change is  *)
(* committed: commit is that lock and what a failed commit takes back.     *)
(* What a failed or finished commit does to the other components is theirs *)
(* to say; Migration and Broker extend this module.                        *)
(***************************************************************************)
EXTENDS Naturals, Sequences, FiniteSets

CONSTANTS
    Agents,        \* active Agents
    Root,          \* the Root Agent, a principal of its own
    Teams,         \* ordinary AgentTeams, the other principals
    Migrations,    \* identifiers of migration requests
    Channels,      \* identifiers of communication requests
    Failovers,     \* identifiers of model selections, "FAILOVER-..."
    Overseer,      \* the parent AgentTeam that selects a model
    Aliases,       \* eligible model aliases
    Recruits       \* <<t, a>> for every Agent that joins and leaves an AgentTeam

Principals == Teams \cup {Root}
Businesses == Migrations \cup Channels \cup Failovers

ASSUME GovernanceAssumption ==
    /\ Root \in Agents /\ Root \notin Teams
    /\ Migrations \cap Channels = {} /\ (Migrations \cup Channels) \cap Failovers = {}
    /\ Overseer \in Teams
    /\ Recruits \subseteq Teams \X (Agents \ {Root})
    /\ IsFiniteSet(Agents) /\ IsFiniteSet(Teams)

VARIABLES
    members,   \* the active members of every AgentTeam
    standing,  \* the status of every business, "none" before it exists
    rounds,    \* the rounds of a business and principal, by round number
    mail,      \* the governance mail in the personal inboxes
    commit,    \* governance.lock: the commit in flight, {} or one record
    jobs,      \* detached tasks and the discussions that lead to a round
    chosen,    \* the alias a failover has switched to, "none" before
    spent,     \* rounds, changes (of members, and requests made again), failed
               \* commits and discussions, cancelled callers, and restarts so far
    limit      \* the bounds of spent; it never changes

govVars == <<members, standing, rounds, mail, commit, jobs, chosen, spent>>

Silent == "silent"
Booleans == {"yes", "no"}
Choices(b) == IF b \in Failovers THEN Aliases ELSE Booleans

\* GovernanceRound: the ballots of voters that have not answered are Silent.
IsRound(r) ==
    /\ DOMAIN r = {"voters", "ballots", "status"}
    /\ r.voters \subseteq Agents
    /\ r.ballots \in [r.voters -> Booleans \cup Aliases \cup {Silent}]
    /\ r.status \in {"PENDING", "APPROVED", "DENIED", "TIED", "SUPERSEDED", "EXPIRED", "CANCELLED"}

\* A task: prepare (MigrationService.prepare), approve (an approval and the
\* discussion before it), failover (_decide_model), resolve, or call (a caller
\* that resolves a migration itself).
Job(kind, b, p, n, phase, snap) ==
    [kind |-> kind, b |-> b, p |-> p, n |-> n, phase |-> phase, snap |-> snap]

-----------------------------------------------------------------------------
(* Electorates and tallies. *)

\* electorate
Electorate(p) == IF p = Root THEN {Root} ELSE members[p]
Valid(p, r) == Electorate(p) = r.voters

\* business_pending: a failover is open until its deadline.
Pending(b) == standing[b] \in {"PENDING", "PROCESSING"}

Number(b, p) == Len(rounds[b][p])
HasRound(b, p) == rounds[b][p] # <<>>
Latest(b, p) == rounds[b][p][Number(b, p)]
LatestIs(b, p, status) == HasRound(b, p) /\ Latest(b, p).status = status

For(r, c) == {v \in r.voters : r.ballots[v] = c}
Carries(r, c) == 2 * Cardinality(For(r, c)) > Cardinality(r.voters)
Complete(r) == For(r, Silent) = {}

\* tally
Tally(b, r) ==
    IF ~Complete(r) THEN "PENDING"
    ELSE IF b \in Failovers
    THEN IF \E a \in Aliases : Carries(r, a) THEN "APPROVED" ELSE "TIED"
    ELSE IF Carries(r, "yes") THEN "APPROVED"
    ELSE IF Carries(r, "no") THEN "DENIED" ELSE "TIED"

\* is_outstanding
Outstanding(a, b, p) ==
    /\ LatestIs(b, p, "PENDING") /\ Pending(b)
    /\ a \in Latest(b, p).voters /\ Latest(b, p).ballots[a] = Silent

SetRound(b, p, n, r) == rounds' = [rounds EXCEPT ![b][p][n] = r]
Unlocked == commit = {}
Committing(op) == \E c \in commit : c.op = op
CanFail == spent.faults < limit.faults
Fail == spent' = [spent EXCEPT !.faults = @ + 1]
CanCancel == spent.cancels < limit.cancels
Cancel == spent' = [spent EXCEPT !.cancels = @ + 1]

Finish(j) == jobs' = jobs \ {j}
Advance(j, k) == jobs' = (jobs \ {j}) \cup {k}

\* track: a task is not started again while one with its key runs.
Tracked(new) == {k \in new : ~\E j \in jobs : j.kind = k.kind /\ j.b = k.b /\ j.p = k.p /\ j.n = k.n}

-----------------------------------------------------------------------------
(* create_round. *)

\* The electorate a job calls create_round with.
VotersOf(j) == IF j.p = Root THEN {Root} ELSE j.snap

\* A job calls create_round after its discussion, an approval after its claim.
AtCreate(j) ==
    \/ j.kind = "approve" /\ j.phase = "claimed"
    \/ j.kind \in {"prepare", "failover"} /\ j.phase = "talking"

\* The round that create_round returns without a new one.
Existing(b, p, voters) ==
    /\ HasRound(b, p)
    /\ \/ ~Pending(b)
       \/ Latest(b, p).status \in {"PENDING", "APPROVED", "DENIED"} /\ Latest(b, p).voters = voters

Refused(b, p, voters) ==
    \/ voters = {} \/ voters # Electorate(p)
    \/ ~Existing(b, p, voters) /\ ~Pending(b)

NewRound(voters) == [voters |-> voters, ballots |-> [v \in voters |-> Silent], status |-> "PENDING"]

\* The rounds seq with the last one superseded if it is still open.
Superseded(seq) ==
    [n \in DOMAIN seq |-> IF n = Len(seq) /\ seq[n].status = "PENDING"
                          THEN [seq[n] EXCEPT !.status = "SUPERSEDED"] ELSE seq[n]]

\* No new round: the job goes on with round n, or with none.
CreateReturns(j) ==
    /\ j \in jobs /\ AtCreate(j) /\ Unlocked
    /\ Refused(j.b, j.p, VotersOf(j)) \/ Existing(j.b, j.p, VotersOf(j))
    /\ IF Refused(j.b, j.p, VotersOf(j))
       THEN Advance(j, [j EXCEPT !.phase = "undecided"])
       ELSE Advance(j, [j EXCEPT !.n = Number(j.b, j.p),
                                 !.phase = IF Latest(j.b, j.p).status \in {"APPROVED", "DENIED"}
                                           THEN "decided" ELSE "undecided"])
    /\ UNCHANGED <<members, standing, rounds, mail, commit, chosen, spent>>

CreateRound(j) ==
    LET b == j.b  p == j.p  vs == VotersOf(j) IN
    /\ j \in jobs /\ AtCreate(j) /\ Unlocked
    /\ ~Refused(b, p, vs) /\ ~Existing(b, p, vs)
    /\ spent.rounds < limit.rounds
    /\ spent' = [spent EXCEPT !.rounds = @ + 1]
    /\ rounds' = [rounds EXCEPT ![b][p] = Append(Superseded(@), NewRound(vs))]
    /\ mail' = mail \cup {<<b, p, Number(b, p) + 1, v>> : v \in vs}
    /\ commit' = {[op |-> "create", b |-> b, p |-> p, job |-> j, undo |-> rounds[b][p]]}
    /\ UNCHANGED <<members, standing, jobs, chosen>>

CreateOk ==
    \E c \in commit :
        /\ c.op = "create"
        /\ commit' = {}
        /\ Advance(c.job, [c.job EXCEPT !.phase = "undecided", !.n = Number(c.b, c.p)])
        /\ UNCHANGED <<members, standing, rounds, mail, chosen, spent>>

\* A failed commit leaves the mail of the round that it takes back.
FaultyRecall(c) == mail

\* The mail of the round that c has created is removed.
Recall(c) == {m \in mail : <<m[1], m[2], m[3]>> # <<c.b, c.p, Number(c.b, c.p)>>}

\* The round and its mail are taken back.  An approval goes on without a round,
\* the others end with the exception.
CreateFails ==
    \E c \in commit :
        /\ c.op = "create" /\ CanFail /\ Fail
        /\ commit' = {}
        /\ rounds' = [rounds EXCEPT ![c.b][c.p] = c.undo]
        /\ mail' = Recall(c)
        /\ IF c.job.kind = "approve"
           THEN Advance(c.job, [c.job EXCEPT !.phase = "undecided"])
           ELSE Finish(c.job)
        /\ UNCHANGED <<members, standing, chosen>>

-----------------------------------------------------------------------------
(* submit. *)

\* A round takes over the status of its business.
FaultyAfterSubmit(b, p, a, c, r) ==
    IF ~Valid(p, r) THEN [r EXCEPT !.status = "SUPERSEDED"]
    ELSE IF ~Pending(b) THEN [r EXCEPT !.status = standing[b]]
    ELSE LET s == [r EXCEPT !.ballots[a] = c] IN [s EXCEPT !.status = Tally(b, s)]

\* What a submission makes of the round, if anything.
AfterSubmit(b, p, a, c, r) ==
    IF ~Valid(p, r) THEN [r EXCEPT !.status = "SUPERSEDED"]
    ELSE IF ~Pending(b) THEN [r EXCEPT !.status = IF b \in Failovers THEN "EXPIRED" ELSE "CANCELLED"]
    ELSE LET s == [r EXCEPT !.ballots[a] = c] IN [s EXCEPT !.status = Tally(b, s)]

\* A repeated choice and one for a closed round change nothing.
Submit(a, b, p, n, c) ==
    LET r == rounds[b][p][n] IN
    /\ Unlocked /\ n \in DOMAIN rounds[b][p]
    /\ a \in r.voters /\ r.ballots[a] = Silent /\ r.status = "PENDING"
    /\ SetRound(b, p, n, AfterSubmit(b, p, a, c, r))
    /\ commit' = {[op |-> "submit", b |-> b, p |-> p, n |-> n, undo |-> r]}
    /\ UNCHANGED <<members, standing, mail, jobs, chosen, spent>>

\* schedule_resolution
Resolutions(c) ==
    IF rounds[c.b][c.p][c.n].status \in {"APPROVED", "DENIED"} /\ c.b \notin Failovers
    THEN Tracked({Job("resolve", c.b, c.p, c.n, "ready", {})}) ELSE {}

\* Whether the commit returns or its caller is cancelled, a decided round is
\* resolved by a detached task.
SubmitOk ==
    \E c \in commit :
        /\ c.op = "submit"
        /\ commit' = {}
        /\ jobs' = jobs \cup Resolutions(c)
        /\ UNCHANGED <<members, standing, rounds, mail, chosen, spent>>

SubmitFails ==
    \E c \in commit :
        /\ c.op = "submit" /\ CanFail /\ Fail
        /\ commit' = {}
        /\ SetRound(c.b, c.p, c.n, c.undo)
        /\ UNCHANGED <<members, standing, mail, jobs, chosen>>

-----------------------------------------------------------------------------
(* _decide_model: a parent AgentTeam selects a model before a deadline. *)

StartFailover(f) ==
    /\ f \in Failovers /\ standing[f] = "none"
    /\ standing' = [standing EXCEPT ![f] = "PENDING"]
    /\ jobs' = jobs \cup {Job("failover", f, Overseer, 0, "talking", members[Overseer])}
    /\ UNCHANGED <<members, rounds, mail, commit, chosen, spent>>

\* The waiter is set once a closing round has been committed.
Settled(j) == j.n > 0 => ~LatestIs(j.b, j.p, "PENDING") /\ ~\E c \in commit : c.b = j.b

Selection(j) ==
    IF LatestIs(j.b, j.p, "APPROVED") /\ Valid(j.p, Latest(j.b, j.p))
    THEN CHOOSE a \in Aliases : Carries(Latest(j.b, j.p), a) ELSE "none"

FailoverDecided(j) ==
    /\ j \in jobs /\ j.kind = "failover" /\ j.phase \in {"decided", "undecided"}
    /\ Settled(j)
    /\ chosen' = [chosen EXCEPT ![j.b] = IF j.n = 0 THEN "none" ELSE Selection(j)]
    /\ Finish(j)
    /\ UNCHANGED <<members, standing, rounds, mail, commit, spent>>

Deadline(f) ==
    /\ f \in Failovers /\ standing[f] = "PENDING"
    /\ standing' = [standing EXCEPT ![f] = "ENDED"]
    /\ UNCHANGED <<members, rounds, mail, commit, jobs, chosen, spent>>

\* The deadline has passed or the caller is cancelled, in the discussion, in the
\* commit of the round (which goes on in the background) or while waiting.
FailoverEnds(j) ==
    /\ j \in jobs /\ j.kind = "failover" /\ j.phase # "expiring"
    /\ commit' = {c \in commit : ~(c.op = "create" /\ c.job = j)}
    /\ IF LatestIs(j.b, j.p, "PENDING") THEN Advance(j, [j EXCEPT !.phase = "expiring"])
       ELSE Finish(j)
    /\ UNCHANGED <<members, standing, rounds, mail, chosen, spent>>

\* expire
Expire(j) ==
    /\ j \in jobs /\ j.phase = "expiring" /\ Unlocked
    /\ Finish(j)
    /\ IF LatestIs(j.b, j.p, "PENDING")
       THEN /\ SetRound(j.b, j.p, Number(j.b, j.p), [Latest(j.b, j.p) EXCEPT !.status = "EXPIRED"])
            /\ commit' = {[op |-> "submit", b |-> j.b, p |-> j.p, n |-> Number(j.b, j.p),
                           undo |-> Latest(j.b, j.p)]}
       ELSE UNCHANGED <<rounds, commit>>
    /\ UNCHANGED <<members, standing, mail, chosen, spent>>

-----------------------------------------------------------------------------
(* Jobs, members and restarts. *)

\* The discussion before a round fails, is incomplete or is cancelled.
TalkFails(j) ==
    /\ j \in jobs /\ j.phase = "talking" /\ j.p # Root
    /\ ~\E c \in commit : c.op = "create" /\ c.job = j
    /\ CanFail /\ Fail
    /\ Finish(j)
    /\ UNCHANGED <<members, standing, rounds, mail, commit, chosen>>

\* Agents join and leave through formations and membership votes.
ChangeMembers(t, a) ==
    /\ spent.changes < limit.changes
    /\ members[t] # {a}
    /\ members' = [members EXCEPT ![t] = IF a \in @ THEN @ \ {a} ELSE @ \cup {a}]
    /\ spent' = [spent EXCEPT !.changes = @ + 1]
    /\ UNCHANGED <<standing, rounds, mail, commit, jobs, chosen>>

\* restore: an interrupted selection expires with its process.
Interrupted(b, seq) ==
    [n \in DOMAIN seq |-> IF b \in Failovers /\ seq[n].status = "PENDING"
                          THEN [seq[n] EXCEPT !.status = "EXPIRED"] ELSE seq[n]]

\* The rounds as <<business, principal, number>>.
RoundIds == UNION {{<<b, p, n>> : n \in DOMAIN rounds[b][p]} : b \in Businesses, p \in Principals}

\* resume
Resumed == {Job("resolve", x[1], x[2], x[3], "ready", {}) :
              x \in {y \in RoundIds : /\ y[1] \notin Failovers
                                     /\ rounds[y[1]][y[2]][y[3]].status \in {"APPROVED", "DENIED"}}}

GovInit ==
    /\ rounds = [b \in Businesses |-> [p \in Principals |-> <<>>]]
    /\ mail = {}
    /\ commit = {}
    /\ jobs = {}
    /\ chosen = [f \in Failovers |-> "none"]
    /\ spent = [rounds |-> 0, changes |-> 0, faults |-> 0, cancels |-> 0, restarts |-> 0]

GovNext ==
    \/ \E j \in jobs : \/ CreateReturns(j) \/ CreateRound(j)
                       \/ FailoverDecided(j) \/ FailoverEnds(j) \/ Expire(j) \/ TalkFails(j)
    \/ CreateOk \/ CreateFails \/ SubmitOk \/ SubmitFails
    \/ \E b \in Businesses, p \in Principals, a \in Agents : \E n \in DOMAIN rounds[b][p] :
         \E c \in Choices(b) : Submit(a, b, p, n, c)
    \/ \E f \in Failovers : StartFailover(f) \/ Deadline(f)
    \/ \E x \in Recruits : ChangeMembers(x[1], x[2])

\* The types of the variables.
GovTypeOK ==
    /\ members \in [Teams -> SUBSET Agents]
    /\ standing \in [Businesses -> {"none", "withdrawn", "PENDING", "PROCESSING", "EXECUTED",
                                    "APPROVED", "DENIED", "STALE", "ENDED"}]
    /\ DOMAIN rounds = Businesses /\ \A b \in Businesses : DOMAIN rounds[b] = Principals
    /\ \A b \in Businesses, p \in Principals : \A n \in DOMAIN rounds[b][p] :
         n \in Nat /\ IsRound(rounds[b][p][n])
    /\ mail \subseteq Businesses \X Principals \X Nat \X Agents
    /\ \A c \in commit : c.op \in {"create", "submit", "migrate", "approve"} /\ c.b \in Businesses
    /\ \A j \in jobs :
         /\ j.kind \in {"prepare", "approve", "failover", "resolve", "call"}
         /\ j.b \in Businesses /\ j.p \in Principals /\ j.n \in Nat /\ j.snap \subseteq Agents
         /\ j.phase \in {"ready", "talking", "claimed", "decided", "undecided", "releasing", "expiring"}
    /\ chosen \in [Failovers -> Aliases \cup {"none"}]
    /\ limit \in [rounds : Nat, changes : Nat, faults : Nat, cancels : Nat, restarts : Nat]
    /\ spent \in [rounds : Nat, changes : Nat, faults : Nat, cancels : Nat, restarts : Nat]
=============================================================================
