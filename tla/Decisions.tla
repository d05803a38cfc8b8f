------------------------------ MODULE Decisions ------------------------------
(***************************************************************************)
(* Rounds, migrations and the broker together, with restarts: what is      *)
(* restored must satisfy the validators of core/manager/state_validation   *)
(* and core/manager/communication_validation, or the restore fails.        *)
(***************************************************************************)
EXTENDS Broker

CONSTANTS
    Starts   \* what a behaviour starts with: the businesses that come up in it, the
             \* members of every AgentTeam, and the bounds

ASSUME DecisionsAssumption ==
    \A s \in Starts :
        /\ s.agenda \subseteq Businesses /\ s.members \in [Teams -> SUBSET Agents]
        /\ s.limit \in [rounds : Nat, changes : Nat, faults : Nat, cancels : Nat,
                        restarts : Nat]

VARIABLE
    abandoned   \* history: the <<business, principal>> that a cancelled caller has left without
                \* a task, while it waited to complete them, until another takes them up

vars == <<govVars, limit, migVars, brokerVars, abandoned>>

\* A business that is not on the agenda never comes up.
Init ==
    /\ GovInit /\ MigInit /\ BrokerInit /\ abandoned = {}
    /\ \E s \in Starts :
         /\ members = s.members
         /\ limit = s.limit
         /\ standing = [b \in Businesses |-> IF b \in s.agenda THEN "none" ELSE "withdrawn"]

-----------------------------------------------------------------------------
(* The validators of a restore. *)

Terminal == {"APPROVED", "DENIED", "STALE"}
Requested(r) == Pending(r) \/ standing[r] \in Terminal
AuthoritiesOf(b) ==
    CASE b \in Migrations -> plans[b].authorities
      [] b \in Channels -> routes[b].authorities
      [] b \in Failovers -> {Overseer}

\* validate_governance
ValidRound(b, p, r) ==
    /\ p \in AuthoritiesOf(b)
    /\ p = Root => r.voters = {Root}
    /\ r.status \in {"APPROVED", "DENIED", "TIED"} \/ (r.status = "PENDING" /\ Complete(r))
         => Tally(b, r) = r.status /\ Complete(r)

Mailed(b, p) == UNION {{<<b, p, n, v>> : v \in rounds[b][p][n].voters} : n \in DOMAIN rounds[b][p]}

\* _validate_authoritative_outcomes
ValidMigration(m) ==
    /\ standing[m] = "EXECUTED" => \A p \in plans[m].authorities : LatestIs(m, p, "APPROVED")
    /\ standing[m] = "DENIED" => \E p \in plans[m].authorities : LatestIs(m, p, "DENIED")

Accepted(r, p) ==
    IF p = Root THEN NoBallots
    ELSE [v \in Latest(r, p).voters \ For(Latest(r, p), Silent) |-> Latest(r, p).ballots[v]]

ValidApproval(r, p) ==
    approval[r][p] \in {"APPROVED", "DENIED"} =>
        LatestIs(r, p, approval[r][p]) /\ projected[r][p] = Accepted(r, p)

\* validate_requests_and_approvals
Statuses(r) == {approval[r][p] : p \in routes[r].authorities}

ValidRequest(r) ==
    /\ \A p \in Principals : approval[r][p] # "none" <=> p \in routes[r].authorities
    /\ standing[r] \in {"APPROVED", "STALE"} => Statuses(r) = {"APPROVED"}
    /\ standing[r] = "DENIED" =>
         "DENIED" \in Statuses(r) /\ Statuses(r) \cap {"PENDING", "PROCESSING"} = {}
    /\ Pending(r) =>
         /\ Statuses(r) \subseteq {"PENDING", "PROCESSING", "APPROVED"}
         /\ Statuses(r) # {"APPROVED"}
         /\ standing[r] = "PROCESSING" <=> "PROCESSING" \in Statuses(r)

\* validate_successors_and_ballots
ValidSuccessor(r) ==
    /\ standing[r] = "STALE" <=> routes[r].next # {}
    /\ \A s \in routes[r].next : routes[s].after = {r}
    /\ \A s \in routes[r].after : routes[s].next = {r}

\* validate_agreements; supersession and revocation keep what they replace.
ValidAgreement(r) == agreement[r] # "none" <=> standing[r] = "APPROVED"

RoutesOf(r) == {<<routes[r].from, routes[r].to>>} \cup
               (IF Mutual(r) THEN {<<routes[r].to, routes[r].from>>} ELSE {})

Distinct(r, s) == r # s /\ Active(r) /\ Active(s) => RoutesOf(r) \cap RoutesOf(s) = {}
ValidRoutes == \A r, s \in Channels : Distinct(r, s)

\* validate_deliveries_and_inboxes
ValidNotes == notes = {x \in Teams \X Channels : Awaited(x[2], x[1])}

ValidRounds ==
    \A b \in Businesses, p \in Principals :
        /\ \A n \in DOMAIN rounds[b][p] : ValidRound(b, p, rounds[b][p][n])
        /\ Mailed(b, p) = {x \in mail : x[1] = b /\ x[2] = p}

ValidRequests ==
    \A r \in Channels : Requested(r) => ValidRequest(r) /\ ValidSuccessor(r) /\ ValidAgreement(r)

ValidApprovals == \A r \in Channels, p \in Principals : Requested(r) => ValidApproval(r, p)

ValidState ==
    /\ ValidRounds
    /\ \A m \in Migrations : ValidMigration(m)
    /\ ValidRequests /\ ValidApprovals /\ ValidNotes

\* Every round of a migration or a request has it for its origin.
Originated ==
    \A b \in Migrations \cup Channels, p \in Principals :
        HasRound(b, p) => standing[b] \notin {"none", "withdrawn"}

-----------------------------------------------------------------------------
(* The process stops while nothing is being committed: a crash in a commit *)
(* is one that returns, or fails, before.  Memory is restored and tasks    *)
(* are started again.                                                      *)

Restart ==
    /\ spent.restarts < limit.restarts
    /\ spent' = [spent EXCEPT !.restarts = @ + 1]
    /\ commit = {} /\ opening = {} /\ dealing = {}
    /\ ValidState /\ Originated /\ ValidRoutes
    /\ jobs' = Resumed \cup Rescheduled \cup Reapproved
    /\ rounds' = [b \in Businesses |-> [p \in Principals |-> Interrupted(b, rounds[b][p])]]
    /\ approval' = [r \in Channels |-> Unclaimed(approval[r])]
    /\ standing' = [b \in Businesses |->
                      IF b \in Channels /\ standing[b] = "PROCESSING" THEN "PENDING"
                      ELSE IF b \in Failovers /\ standing[b] = "PENDING" THEN "ENDED"
                      ELSE standing[b]]
    /\ UNCHANGED <<members, mail, commit, chosen, limit, migVars>>
    /\ UNCHANGED <<routes, projected, notes, agreement, dealing>>
    /\ abandoned' = {}

\* Tasks that will complete what they are for.
Minds(j) == j.b \in Migrations \/ j.phase \in {"claimed", "decided", "undecided", "releasing"}
Leaving(S) == abandoned' = S \ {<<j.b, j.p>> : j \in {k \in jobs' : Minds(k)}}

Abandon(j) ==
    /\ \/ CallCancelled(j) /\ UNCHANGED brokerVars
       \/ CompletionCancelled(j)
    /\ Leaving(abandoned \cup {<<j.b, j.p>>})
    /\ UNCHANGED limit

Next ==
    \/ GovNext /\ UNCHANGED <<migVars, brokerVars, limit>> /\ Leaving(abandoned)
    \/ MigNext /\ UNCHANGED <<brokerVars, limit>> /\ Leaving(abandoned)
    \/ BrokerNext /\ UNCHANGED limit /\ Leaving(abandoned)
    \/ \E j \in jobs : Abandon(j)
    \/ Restart

Spec == Init /\ [][Next]_vars

-----------------------------------------------------------------------------
(* Refinement: a business is undecided until its decision is committed.    *)

Deciding(b) == \E c \in commit : c.op \in {"migrate", "approve"} /\ c.b = b

Verdicts == [EXECUTED |-> "carried", APPROVED |-> "carried", DENIED |-> "rejected",
             STALE |-> "closed", ENDED |-> "closed", withdrawn |-> "closed",
             PENDING |-> "open", PROCESSING |-> "open", none |-> "none"]

Provisional == [carried |-> "carrying", rejected |-> "rejecting", closed |-> "closing",
                open |-> "open"]

DecisionOn(b) ==
    IF b \in Failovers THEN IF chosen[b] # "none" THEN "carried" ELSE Verdicts[standing[b]]
    ELSE IF b \in opening /\ ~Deciding(b) THEN "none"
    ELSE IF Deciding(b) THEN Provisional[Verdicts[standing[b]]]
    ELSE Verdicts[standing[b]]

AuthorityOf(b) ==
    IF DecisionOn(b) = "none" \/ (b \in Failovers /\ standing[b] = "withdrawn")
    THEN {} ELSE AuthoritiesOf(b)

\* The ballots of the rounds as they are when the commit in flight fails.
CommittedRounds(b, p) ==
    LET open == {c \in commit : c.b = b /\ c.op \in {"create", "submit"} /\ c.p = p} IN
    IF open = {} THEN rounds[b][p]
    ELSE LET c == CHOOSE x \in open : TRUE IN
         IF c.op = "create" THEN c.undo ELSE [rounds[b][p] EXCEPT ![c.n] = c.undo]

PanelsOf(b, p) ==
    [n \in DOMAIN CommittedRounds(b, p) |-> CommittedRounds(b, p)[n].ballots]

D(b) == INSTANCE Decision WITH
            Assent <- IF b \in Failovers THEN Aliases ELSE {"yes"},
            Lapsing <- b \notin Migrations,
            decision <- DecisionOn(b),
            authority <- AuthorityOf(b),
            panels <- [p \in Principals |-> PanelsOf(b, p)],
            body <- [p \in Principals |-> Electorate(p)]

-----------------------------------------------------------------------------
(* Properties. *)

\* The types of the variables.
TypeOK == GovTypeOK /\ MigTypeOK /\ BrokerTypeOK

SameTerms(r, s) == ConfigOf[r] = ConfigOf[s] \/ (Mutual(r) /\ Mutual(s))

\* Whatever has been done, and also while it is being committed, the state can
\* be restored: rounds, mails, requests, notes and migrations agree.
\* So do approvals, unless a completion fails after an electorate has changed: an
\* approval is then put back under a discussion that has claimed it since, which
\* begins another round.  So do the routes of agreements, if they were asked for
\* under one configuration or as bidirectional; else they may overlap.
Restorable ==
    /\ ValidRounds /\ ValidRequests /\ ValidNotes
    /\ \A m \in Migrations : ValidMigration(m)
    /\ spent.faults = 0 \/ spent.changes = 0 => ValidApprovals
    /\ \A r, s \in Channels : SameTerms(r, s) => Distinct(r, s)

\* Parents and children agree, no AgentTeam is above itself, none has moved more
\* often than it may since its discussion began, and there are alerts of the
\* migrations that have been executed and of no others.
TopologySound ==
    /\ \A t, u \in Teams : t \in kids[u] <=> parent[t] = u
    /\ \A t \in Teams : parent[t] # Top => t \notin Above(parent[t])
    /\ \A t \in Teams : made[t] <= MaxMigrations
    /\ \A m \in Migrations : standing[m] = "EXECUTED" <=> \E t \in Teams : <<t, m>> \in alerts

\* A task is left for what has been claimed or decided: one that settles or
\* releases a claimed approval, and one that resolves a pending migration that
\* nobody has to approve or whose rounds are decided, unless a commit has failed
\* or an electorate has changed.  What the code does lose is what a cancelled
\* caller has abandoned; a restart takes that up again.
ClaimHeld ==
    \A r \in Channels, p \in Principals :
        approval[r][p] = "PROCESSING" /\ <<r, p>> \notin abandoned =>
            \E j \in jobs : j.b = r /\ j.p = p /\ Minds(j)

Resolving ==
    \A m \in Migrations :
        /\ standing[m] = "PENDING" /\ spent.faults = 0 /\ spent.changes = 0
        /\ m \notin opening /\ (\A x \in commit \cup jobs : x.b # m)
        /\ <<m, Root>> \notin abandoned
        => Verdict(m) = "PENDING"

NoneForgotten == ClaimHeld /\ Resolving

\* Governance keeps the promises of Decision.
DecisionSpec ==
    (\A b \in Businesses : D(b)!Init) /\ [][\A b \in Businesses : D(b)!Next]_vars
=============================================================================
