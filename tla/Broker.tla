-------------------------------- MODULE Broker --------------------------------
(***************************************************************************)
(* Communication requests, their approvals and agreements (core/broker)    *)
(* over the rounds of Governance and the topology of Migration.            *)
(*                                                                         *)
(* A request needs the approval of every principal on its route.  A task   *)
(* or a team discussion claims an approval, leads it to a round, and       *)
(* completes it under the broker's transaction lock and governance.lock;   *)
(* dealing is the transaction lock, held while a change is committed.      *)
(***************************************************************************)
EXTENDS Migration

CONSTANTS
    Pairs,        \* <<r, sender, recipient>> for every request that may be made
    ConfigOf      \* config.communication when a request is made: its policy, the
                  \* direction of the agreement and the delivery of the request

ASSUME BrokerAssumption ==
    /\ Pairs \subseteq Channels \X Teams \X Teams
    /\ ConfigOf \in [Channels -> [policy : {"parent_approval", "lineage_approval"},
                                  direction : {"one_way", "bidirectional"},
                                  delivery : {"queue", "wake"}]]

VARIABLES
    routes,     \* the communication requests: endpoints, principals, successor
    approval,   \* the approval of a request by a principal
    projected,  \* the ballots that the broker shows for an approval
    notes,      \* approval requests in the inboxes of AgentTeams
    agreement,  \* the agreement that a request has created
    dealing     \* the broker's transaction lock: {} or what it commits

brokerVars == <<routes, approval, projected, notes, agreement, dealing>>

NoRoute == [from |-> Top, to |-> Top, authorities |-> {}, after |-> {}, next |-> {}]
NoBallots == [v \in {} |-> Silent]

\* approval_path, as a set; its order decides nothing but the fingerprint.
Path(r, from, to) ==
    LET lca == LowestCommon(from, to) IN
    IF ConfigOf[r].policy = "parent_approval" THEN {PrincipalOf(parent[from]), PrincipalOf(parent[to])}
    ELSE IF lca = {} THEN (Above(from) \ {from}) \cup {Root} \cup Above(to)
    ELSE (PathTo(from, lca) \ {from}) \cup (PathTo(to, lca) \ lca)

Mutual(r) == ConfigOf[r].direction = "bidirectional"
Active(r) == agreement[r] = "active"
Ends(r) == {routes[r].from, routes[r].to}
Fresh(r) == r \in Channels /\ standing[r] = "none"

\* active_agreement_for_request: s permits what r asks for.
Permits(s, r, from, to) ==
    /\ Active(s)
    /\ IF Mutual(r) THEN Mutual(s) /\ Ends(s) = {from, to}
       ELSE \/ routes[s].from = from /\ routes[s].to = to
            \/ Mutual(s) /\ routes[s].from = to /\ routes[s].to = from

\* _equivalent_pending_request
Equivalent(s, r, from, to) ==
    /\ Pending(s) /\ ConfigOf[s] = ConfigOf[r]
    /\ IF Mutual(r) THEN Ends(s) = {from, to}
       ELSE routes[s].from = from /\ routes[s].to = to

Awaited(r, p) == Pending(r) /\ p \in routes[r].authorities /\ approval[r][p] \in {"PENDING", "PROCESSING"}

\* The approvals of a new request and its entries in the team inboxes.
Asked(ps) == [p \in Principals |-> IF p \in ps THEN "PENDING" ELSE "none"]
NotesFor(r, ps) == {<<t, r>> : t \in ps \ {Root}}

\* _schedule_initial_approvals; in wake mode the discussions are scheduled too.
InitialApprovals(r, ps) ==
    Tracked({Job("approve", r, p, 0, "ready", {}) : p \in {q \in ps : q = Root \/ ConfigOf[r].delivery = "wake"}})

govButStandingJobs == <<members, rounds, mail, commit, chosen>>

-----------------------------------------------------------------------------
(* request_peer_communication and revoke_agreement. *)

RequestChannel(r, from, to) ==
    /\ dealing = {} /\ Fresh(r)
    /\ from # to
    /\ ~\E s \in Channels : Permits(s, r, from, to) \/ Equivalent(s, r, from, to)
    /\ standing' = [standing EXCEPT ![r] = "PENDING"]
    /\ routes' = [routes EXCEPT ![r] = [from |-> from, to |-> to, authorities |-> Path(r, from, to),
                                        after |-> {}, next |-> {}]]
    /\ approval' = [approval EXCEPT ![r] = Asked(Path(r, from, to))]
    /\ notes' = notes \cup NotesFor(r, Path(r, from, to))
    /\ dealing' = {[op |-> "request", b |-> r]}
    /\ UNCHANGED <<govButStandingJobs, jobs, spent, migVars, projected, agreement>>

RequestOk ==
    \E d \in dealing :
        /\ d.op = "request"
        /\ dealing' = {}
        /\ jobs' = jobs \cup InitialApprovals(d.b, routes[d.b].authorities)
        /\ UNCHANGED <<govButStandingJobs, standing, spent, migVars>>
        /\ UNCHANGED <<routes, approval, projected, notes, agreement>>

\* The caller is cancelled in the commit: the request stays and its commit goes
\* on, but nobody schedules its approvals.
RequestCancelled ==
    \E d \in dealing :
        /\ d.op = "request" /\ CanFail /\ Fail
        /\ dealing' = {}
        /\ UNCHANGED <<govButStandingJobs, standing, jobs, migVars>>
        /\ UNCHANGED <<routes, approval, projected, notes, agreement>>

\* _remove_request_notifications
Forget(r) == {x \in notes : x[2] # r}

RequestFails ==
    \E d \in dealing :
        /\ d.op = "request" /\ CanFail /\ Fail
        /\ dealing' = {}
        /\ standing' = [standing EXCEPT ![d.b] = "withdrawn"]
        /\ approval' = [approval EXCEPT ![d.b] = Asked({})]
        /\ notes' = Forget(d.b)
        /\ UNCHANGED <<govButStandingJobs, jobs, migVars, routes, projected, agreement>>

Revoke(r) ==
    /\ dealing = {} /\ Active(r)
    /\ agreement' = [agreement EXCEPT ![r] = "revoked"]
    /\ dealing' = {[op |-> "revoke", b |-> r]}
    /\ UNCHANGED <<govVars, migVars, routes, approval, projected, notes>>

RevokeOk ==
    /\ \E d \in dealing : d.op = "revoke"
    /\ dealing' = {}
    /\ UNCHANGED <<govVars, migVars, routes, approval, projected, notes, agreement>>

RevokeFails ==
    \E d \in dealing :
        /\ d.op = "revoke" /\ CanFail /\ Fail
        /\ dealing' = {}
        /\ agreement' = [agreement EXCEPT ![d.b] = "active"]
        /\ UNCHANGED <<govButStandingJobs, standing, jobs, migVars>>
        /\ UNCHANGED <<routes, approval, projected, notes>>

-----------------------------------------------------------------------------
(* Claims. *)

\* A discussion of an AgentTeam finds an approval request in its inbox, or is
\* started for it; its members are those at its beginning.
StartTalk(t, r) ==
    /\ <<t, r>> \in notes
    /\ ~\E j \in jobs : j.kind = "approve" /\ j.p = t /\ j.phase \notin {"ready", "releasing"}
    /\ jobs' = {j \in jobs : ~(j.kind = "approve" /\ j.b = r /\ j.p = t /\ j.phase = "ready")}
                 \cup {Job("approve", r, t, 0, "talking", members[t])}
    /\ UNCHANGED <<govButStandingJobs, standing, spent, migVars, brokerVars>>

\* Counts the claims of the other principals (_refresh_pending_request_status).
Refreshed(apps) == IF \E p \in Principals : apps[p] = "PROCESSING" THEN "PROCESSING" ELSE "PENDING"

MayClaim(r, p) == Pending(r) /\ approval[r][p] = "PENDING"

\* _claim_approval takes neither the transaction lock nor governance.lock.
Claim(j) ==
    /\ j \in jobs /\ j.b \in Channels
    /\ \/ j.kind = "approve" /\ j.phase = (IF j.p = Root THEN "ready" ELSE "talking")
       \/ j.kind = "resolve" /\ j.phase = "ready" /\ approval[j.b][j.p] = "PENDING"
    /\ IF MayClaim(j.b, j.p)
       THEN /\ approval' = [approval EXCEPT ![j.b][j.p] = "PROCESSING"]
            /\ standing' = [standing EXCEPT ![j.b] = "PROCESSING"]
            /\ Advance(j, [j EXCEPT !.phase = IF j.kind = "approve" THEN "claimed" ELSE "decided"])
       ELSE Finish(j) /\ UNCHANGED <<approval, standing>>
    /\ UNCHANGED <<govButStandingJobs, spent, migVars>>
    /\ UNCHANGED <<routes, projected, notes, agreement, dealing>>

-----------------------------------------------------------------------------
(* Cancelled discussions, and tasks of a manager that closes. *)

\* The claim of a cancelled discussion is left to nobody.
FaultyClaimCancelled(j) ==
    /\ j \in jobs /\ j.kind = "approve" /\ j.phase = "claimed"
    /\ CanCancel /\ Cancel
    /\ commit' = {c \in commit : ~(c.op = "create" /\ c.job = j)}
    /\ Finish(j)
    /\ UNCHANGED <<members, standing, rounds, mail, chosen, migVars, brokerVars>>

\* In create_round, whose commit is finished first: a shielded call of
\* _complete_approval releases the claim, though the discussion has ended.
ClaimCancelled(j) ==
    /\ j \in jobs /\ j.kind = "approve" /\ j.phase = "claimed"
    /\ CanCancel /\ Cancel
    /\ commit' = {c \in commit : ~(c.op = "create" /\ c.job = j)}
    /\ Advance(j, [j EXCEPT !.phase = "releasing"])
    /\ UNCHANGED <<members, standing, rounds, mail, chosen, migVars, brokerVars>>

\* In the wait for the locks of _complete_approval, which is not shielded after
\* the call of the decision provider: the claim stays without a task.
CompletionCancelled(j) ==
    /\ j \in jobs /\ j.kind = "approve" /\ j.phase \in {"decided", "undecided"}
    /\ CanCancel /\ Cancel
    /\ Finish(j)
    /\ UNCHANGED <<govButStandingJobs, standing, migVars, brokerVars>>

-----------------------------------------------------------------------------
(* _complete_approval. *)

\* What claims first waits for governance.lock first.
MayComplete(j) ==
    /\ j \in jobs /\ j.b \in Channels /\ j.phase \in {"decided", "undecided", "releasing"}
    /\ Unlocked /\ dealing = {}
    /\ ~\E k \in jobs : k.kind = "approve" /\ k.b = j.b /\ k.p = j.p /\ k.phase = "claimed"

\* A resolution finds its approval claimed already, or decided.  An approval that
\* has both locks at hand is settled before the resolution looks; one that is
\* released need not be.
ClaimedAlready(j) ==
    /\ j \in jobs /\ j.b \in Channels
    /\ j.kind = "resolve" /\ j.phase = "ready" /\ approval[j.b][j.p] # "PENDING"
    /\ ~\E k \in jobs : /\ k.kind = "approve" /\ k.b = j.b /\ k.p = j.p
                        /\ k.phase # "releasing" /\ MayComplete(k)
    /\ Advance(j, [j EXCEPT !.phase = "decided"])
    /\ UNCHANGED <<govButStandingJobs, standing, spent, migVars, brokerVars>>

Lapsed(j) == approval[j.b][j.p] # "PROCESSING" \/ ~Pending(j.b)

\* The outcome is that of the round, if it is the latest and still valid.
Outcome(j) ==
    IF j.phase = "decided" /\ j.n = Number(j.b, j.p) /\ Valid(j.p, Latest(j.b, j.p))
    THEN Latest(j.b, j.p).status ELSE "PENDING"

\* The approvals of r when that of p is settled as s: a denial cancels what is
\* open, and an approval takes back others whose electorate has changed.
Settle(r, p, s) ==
    [q \in Principals |->
        IF q = p /\ s # "APPROVED" THEN s
        ELSE IF s = "DENIED" /\ approval[r][q] \in {"PENDING", "PROCESSING"} THEN "CANCELLED"
        ELSE IF s = "APPROVED" /\ (q = p \/ approval[r][q] = "APPROVED")
        THEN IF LatestIs(r, q, "APPROVED") /\ Valid(q, Latest(r, q)) THEN "APPROVED" ELSE "PENDING"
        ELSE approval[r][q]]

Unanimous(r, apps) == \A p \in routes[r].authorities : apps[p] = "APPROVED"

\* The status of r with approvals apps.
Resolved(r, apps) ==
    IF \E p \in Principals : apps[p] = "DENIED" THEN "DENIED"
    ELSE IF ~Unanimous(r, apps) THEN Refreshed(apps)
    ELSE IF Path(r, routes[r].from, routes[r].to) = routes[r].authorities THEN "APPROVED"
    ELSE "STALE"

\* _create_agreement_locked
Agreements(r) ==
    [s \in Channels |->
        IF s = r THEN "active"
        ELSE IF Mutual(r) /\ Active(s) /\ Ends(s) = Ends(r) THEN "superseded"
        ELSE agreement[s]]

\* The entries in the inboxes when the approval of p is settled as s and the
\* request gets the status st: those of other open approvals are entered again.
Renoted(r, p, s, apps, st) ==
    IF st \in {"APPROVED", "DENIED", "STALE"} THEN Forget(r)
    ELSE IF s = "APPROVED"
    THEN (notes \cup {<<t, r>> : t \in {q \in routes[r].authorities \ {Root} :
                                          apps[q] \in {"PENDING", "PROCESSING"}}}) \ {<<p, r>>}
    ELSE notes

\* The approval is no longer claimed, or the request is resolved.
CompleteLapsed(j) ==
    /\ MayComplete(j) /\ Lapsed(j)
    /\ Finish(j)
    /\ UNCHANGED <<govButStandingJobs, standing, spent, migVars, brokerVars>>

Ballots(j) == IF j.p = Root \/ j.n = 0 THEN NoBallots
              ELSE [v \in Latest(j.b, j.p).voters \ For(Latest(j.b, j.p), Silent) |->
                      Latest(j.b, j.p).ballots[v]]

\* A request whose route has changed is replaced by the successor next.
CompleteApproval(j, next) ==
    LET r == j.b  p == j.p  q == routes[j.b]
        s == Outcome(j)
        apps == Settle(r, p, s)
        st == Resolved(r, apps)
        path == Path(r, q.from, q.to)
    IN
    /\ MayComplete(j) /\ ~Lapsed(j)
    /\ IF st = "STALE" THEN next \subseteq {x \in Channels : Fresh(x) /\ ConfigOf[x] = ConfigOf[r]} /\ Cardinality(next) = 1
       ELSE next = {}
    /\ standing' = [x \in Businesses |-> IF x = r THEN st ELSE IF x \in next THEN "PENDING"
                                         ELSE standing[x]]
    /\ approval' = [x \in Channels |-> IF x = r THEN apps ELSE IF x \in next THEN Asked(path)
                                       ELSE approval[x]]
    /\ routes' = [x \in Channels |->
                    IF x = r THEN [q EXCEPT !.next = next]
                    ELSE IF x \in next THEN [from |-> q.from, to |-> q.to, authorities |-> path,
                                             after |-> {r}, next |-> {}]
                    ELSE routes[x]]
    /\ projected' = [projected EXCEPT ![r][p] = Ballots(j)]
    /\ agreement' = IF st = "APPROVED" THEN Agreements(r) ELSE agreement
    /\ rounds' = IF st \in {"APPROVED", "DENIED", "STALE"}
                 THEN [rounds EXCEPT ![r] = ClosedRounds(r)] ELSE rounds
    /\ notes' = Renoted(r, p, s, apps, st) \cup UNION {NotesFor(x, path) : x \in next}
    /\ commit' = {[op |-> "approve", b |-> r, p |-> p, next |-> next, shielded |-> j.kind # "approve",
                   standing |-> standing[r],
                   rounds |-> rounds[r], approval |-> approval[r], projected |-> projected[r],
                   agreement |-> agreement, notes |-> {x \in notes : x[2] = r}]}
    /\ dealing' = {[op |-> "approve", b |-> r]}
    /\ Finish(j)
    /\ UNCHANGED <<members, mail, chosen, spent, migVars>>

ApproveOk ==
    \E c \in commit :
        /\ c.op = "approve"
        /\ commit' = {} /\ dealing' = {}
        /\ jobs' = jobs \cup UNION {InitialApprovals(x, routes[x].authorities) : x \in c.next}
        /\ UNCHANGED <<members, standing, rounds, mail, chosen, spent, migVars>>
        /\ UNCHANGED <<routes, approval, projected, notes, agreement>>

\* A discussion is cancelled in the commit, which is finished first: nobody
\* schedules the approvals of the successor.
ApproveCancelled ==
    \E c \in commit :
        /\ c.op = "approve" /\ c.next # {} /\ ~c.shielded /\ CanCancel /\ Cancel
        /\ commit' = {} /\ dealing' = {}
        /\ UNCHANGED <<members, standing, rounds, mail, jobs, chosen, migVars>>
        /\ UNCHANGED <<routes, approval, projected, notes, agreement>>

\* The approvals as they were; the one that was being completed is released.
Released(c) == [c.approval EXCEPT ![c.p] = "PENDING"]

\* Everything the completion changed is put back, as it was when it began: a
\* claim made in between is lost.
ApproveFails ==
    \E c \in commit :
        /\ c.op = "approve" /\ CanFail /\ Fail
        /\ commit' = {} /\ dealing' = {}
        /\ standing' = [x \in Businesses |-> IF x = c.b THEN Refreshed(Released(c))
                                             ELSE IF x \in c.next THEN "withdrawn" ELSE standing[x]]
        /\ rounds' = [rounds EXCEPT ![c.b] = c.rounds]
        /\ approval' = [x \in Channels |-> IF x = c.b THEN Released(c)
                                           ELSE IF x \in c.next THEN Asked({}) ELSE approval[x]]
        /\ routes' = [routes EXCEPT ![c.b].next = {}]
        /\ projected' = [projected EXCEPT ![c.b] = c.projected]
        /\ agreement' = c.agreement
        /\ notes' = {x \in notes : x[2] \notin c.next \cup {c.b}} \cup c.notes
        /\ UNCHANGED <<members, mail, jobs, chosen, migVars>>

-----------------------------------------------------------------------------
BrokerInit ==
    /\ routes = [r \in Channels |-> NoRoute]
    /\ approval = [r \in Channels |-> Asked({})]
    /\ projected = [r \in Channels |-> [p \in Principals |-> NoBallots]]
    /\ notes = {}
    /\ agreement = [r \in Channels |-> "none"]
    /\ dealing = {}

BrokerNext ==
    \/ \E x \in Pairs : RequestChannel(x[1], x[2], x[3])
    \/ RequestOk \/ RequestCancelled \/ RequestFails
    \/ \E r \in Channels : Revoke(r)
    \/ RevokeOk \/ RevokeFails
    \/ \E t \in Teams, r \in Channels : StartTalk(t, r)
    \/ \E j \in jobs : \/ Claim(j) \/ ClaimCancelled(j) \/ ClaimedAlready(j) \/ CompleteLapsed(j)
                       \/ \E next \in SUBSET Channels : CompleteApproval(j, next)
    \/ ApproveOk \/ ApproveCancelled \/ ApproveFails

\* restore: claims of a process that has stopped are released.
Unclaimed(apps) == [p \in Principals |-> IF apps[p] = "PROCESSING" THEN "PENDING" ELSE apps[p]]

\* resume_pending_requests
Reapproved == UNION {{Job("approve", r, p, 0, "ready", {}) :
                        p \in {q \in routes[r].authorities : q = Root \/ ConfigOf[r].delivery = "wake"}} :
                     r \in {s \in Channels : Pending(s)}}

\* The types of the variables.
BrokerTypeOK ==
    /\ routes \in [Channels -> [from : Teams \cup {Top}, to : Teams \cup {Top},
                                authorities : SUBSET Principals, after : SUBSET Channels,
                                next : SUBSET Channels]]
    /\ approval \in [Channels -> [Principals -> {"none", "PENDING", "PROCESSING", "APPROVED",
                                                 "DENIED", "CANCELLED"}]]
    /\ notes \subseteq Teams \X Channels
    /\ agreement \in [Channels -> {"none", "active", "superseded", "revoked"}]
    /\ \A d \in dealing : d.op \in {"request", "revoke", "approve"} /\ d.b \in Channels
=============================================================================
