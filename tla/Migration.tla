------------------------------ MODULE Migration ------------------------------
(***************************************************************************)
(* Migration requests (core/manager/migration.py, core/policies.py and the *)
(* request_migration tool) over the rounds of Governance.                  *)
(*                                                                         *)
(* A request is made under migration.lock and resolved under both locks;   *)
(* before it changes the topology it is validated again.  opening is       *)
(* migration.lock while a new request is committed.                        *)
(***************************************************************************)
EXTENDS Governance

CONSTANTS
    Top,             \* the parent of a top-level AgentTeam
    InitialParent,   \* the topology at first
    Moves,           \* <<m, team, target>> for every request that may be made
    PolicyOf,        \* config.migration_policy when a request is made
    MaxMigrations    \* config.max_migrations_per_team_discussion

ASSUME MigrationAssumption ==
    /\ Top \notin Teams
    /\ InitialParent \in [Teams -> Teams \cup {Top}]
    /\ \A S \in SUBSET Teams : S # {} => \E t \in S : InitialParent[t] \notin S
    /\ Moves \subseteq Migrations \X Teams \X Teams
    /\ PolicyOf \in [Migrations -> {"permissive", "ancestor_approval", "lineage_path"}]
    /\ MaxMigrations \in Nat

VARIABLES
    parent,    \* _parent_team of every AgentTeam
    kids,      \* child_teams of every AgentTeam
    plans,     \* the migration requests
    moves,     \* migration_count of every AgentTeam
    made,      \* moves of a team since its last discussion began
    alerts,    \* migration alerts in the inboxes of AgentTeams
    opening    \* migration.lock: the request being committed, {} or one

migVars == <<parent, kids, plans, moves, made, alerts, opening>>

NoPlan == [team |-> Top, target |-> Top, origin |-> Top, authorities |-> {}]

-----------------------------------------------------------------------------
(* policies.py *)

\* get_ancestry_chain: a team and its ancestors.
Rising(S) == \A t \in S : parent[t] \in S \cup {Top}
Above(t) ==
    {u \in Teams : t # Top /\ \A S \in SUBSET Teams : t \in S /\ Rising(S) => u \in S}

\* find_lca, as the set of it: empty if there is none.
LowestCommon(t, u) ==
    {x \in Above(t) \cap Above(u) : Above(t) \cap Above(u) \subseteq Above(x)}

\* get_path_to_ancestor
PathTo(t, lca) == IF lca = {} THEN Above(t) ELSE {x \in Above(t) : lca \subseteq Above(x)}

\* _principal_for_team
PrincipalOf(t) == IF t = Top THEN Root ELSE t

\* migration_approval_principals; their order matters to nothing but the path
\* comparison, which a change of order without a change of members cannot meet.
Authorities(m, t, target) ==
    LET lca == LowestCommon(parent[t], target) IN
    CASE PolicyOf[m] = "permissive" -> {}
      [] PolicyOf[m] = "ancestor_approval" ->
           {PrincipalOf(parent[t]), target} \cup (IF lca = {} THEN {Root} ELSE lca)
      [] PolicyOf[m] = "lineage_path" ->
           PathTo(parent[t], lca) \cup PathTo(target, lca) \cup (IF lca = {} THEN {Root} ELSE {})

-----------------------------------------------------------------------------
(* negotiate_and_execute_migration. *)

\* An approved migration is not checked for cycles again.
FaultyAllowed(m, t, target, origin, authorities) ==
    parent[t] = origin /\ moves[t] < MaxMigrations

\* validate
Allowed(m, t, target, origin, authorities) ==
    /\ parent[t] = origin
    /\ origin # Top => t \in kids[origin]
    /\ moves[t] < MaxMigrations
    /\ t \notin Above(target)
    /\ Authorities(m, t, target) = authorities

\* schedule, with a prepare task for every principal.
Preparations(m) == Tracked({Job("prepare", m, p, 0, "ready", {}) : p \in plans'[m].authorities})

\* schedule: complete_request is a task of its own if nobody has to approve.
Scheduled(m) ==
    IF plans'[m].authorities = {} THEN Tracked({Job("resolve", m, Root, 0, "ready", {})})
    ELSE Preparations(m)

\* The caller awaits complete_request itself then; spent tells calls apart.
Followed(m) ==
    IF plans'[m].authorities = {} THEN {Job("call", m, Root, spent'.changes, "ready", {})}
    ELSE Preparations(m)

Negotiate(m, t, target) ==
    /\ opening = {}
    /\ m \in Migrations /\ standing[m] = "none"
    /\ Allowed(m, t, target, parent[t], Authorities(m, t, target))
    /\ parent[t] # target
    /\ ~\E k \in Migrations : /\ standing[k] = "PENDING" /\ PolicyOf[k] = PolicyOf[m]
                               /\ plans[k].team = t /\ plans[k].target = target
    /\ plans' = [plans EXCEPT ![m] = [team |-> t, target |-> target, origin |-> parent[t],
                                      authorities |-> Authorities(m, t, target)]]
    /\ standing' = [standing EXCEPT ![m] = "PENDING"]
    /\ opening' = {m}
    /\ UNCHANGED <<members, rounds, mail, commit, jobs, chosen, spent>>
    /\ UNCHANGED <<parent, kids, moves, made, alerts>>

NegotiateOk ==
    \E m \in opening :
        /\ ~Committing("migrate")
        /\ opening' = {}
        /\ UNCHANGED <<plans, spent>>
        /\ jobs' = jobs \cup Followed(m)
        /\ UNCHANGED <<members, standing, rounds, mail, commit, chosen>>
        /\ UNCHANGED <<parent, kids, moves, made, alerts>>

\* The caller is cancelled in the commit, which is finished first.
NegotiateCancelled ==
    \E m \in opening :
        /\ ~Committing("migrate") /\ CanCancel /\ Cancel
        /\ opening' = {}
        /\ UNCHANGED plans
        /\ jobs' = jobs \cup Scheduled(m)
        /\ UNCHANGED <<members, standing, rounds, mail, commit, chosen>>
        /\ UNCHANGED <<parent, kids, moves, made, alerts>>

NegotiateFails ==
    \E m \in opening :
        /\ ~Committing("migrate") /\ CanFail /\ Fail
        /\ opening' = {}
        /\ standing' = [standing EXCEPT ![m] = "none"]
        /\ plans' = [plans EXCEPT ![m] = NoPlan]
        /\ UNCHANGED <<members, rounds, mail, commit, jobs, chosen>>
        /\ UNCHANGED <<parent, kids, moves, made, alerts>>

\* The same request again schedules, or resolves, the pending one.
Insist(m) ==
    /\ opening = {}
    /\ m \in Migrations /\ standing[m] = "PENDING"
    /\ spent.changes < limit.changes
    /\ Allowed(m, plans[m].team, plans[m].target, parent[plans[m].team],
               Authorities(m, plans[m].team, plans[m].target))
    /\ UNCHANGED <<plans, opening>>
    /\ spent' = [spent EXCEPT !.changes = @ + 1]
    /\ Followed(m) # {}
    /\ jobs' = jobs \cup Followed(m)
    /\ UNCHANGED <<members, standing, rounds, mail, commit, chosen>>
    /\ UNCHANGED <<parent, kids, moves, made, alerts>>

-----------------------------------------------------------------------------
(* prepare and complete_request. *)

\* An AgentTeam discusses first; the Root Agent is asked at once.
Prepare(j) ==
    /\ j \in jobs /\ j.kind = "prepare" /\ j.phase = "ready"
    /\ IF standing[j.b] = "PENDING"
       THEN Advance(j, [j EXCEPT !.phase = "talking", !.snap = Electorate(j.p)])
       ELSE Finish(j)
    /\ UNCHANGED <<members, standing, rounds, mail, commit, chosen, spent>>
    /\ UNCHANGED migVars

\* Tasks that call complete_request.
Completes(j) ==
    /\ j.b \in Migrations
    /\ \/ j.kind \in {"resolve", "call"} /\ j.phase = "ready"
       \/ j.kind = "prepare" /\ j.phase \in {"decided", "undecided"}

\* An approval counts although the membership has changed since.
FaultyConsents(m, p) == LatestIs(m, p, "APPROVED")
Consents(m, p) == LatestIs(m, p, "APPROVED") /\ Valid(p, Latest(m, p))
Objects(m, p) == LatestIs(m, p, "DENIED") /\ Valid(p, Latest(m, p))

Verdict(m) ==
    LET q == plans[m] IN
    IF standing[m] # "PENDING" THEN "PENDING"
    ELSE LET v == IF \E p \in q.authorities : Objects(m, p) THEN "DENIED"
                  ELSE IF \A p \in q.authorities : Consents(m, p) THEN "EXECUTED"
                  ELSE "PENDING"
         IN  IF v # "PENDING" /\ ~Allowed(m, q.team, q.target, q.origin, q.authorities)
             THEN "STALE" ELSE v

\* The rounds of business b with the open ones cancelled.
ClosedRounds(b) ==
    [p \in Principals |-> [n \in DOMAIN rounds[b][p] |->
        IF rounds[b][p][n].status = "PENDING" THEN [rounds[b][p][n] EXCEPT !.status = "CANCELLED"]
        ELSE rounds[b][p][n]]]

\* child_teams of the old and the new parent.
MovedKids(q) ==
    [t \in Teams |-> IF t = q.target THEN kids[t] \cup {q.team} ELSE kids[t] \ {q.team}]

Nothing(j) ==
    /\ j \in jobs /\ Completes(j) /\ Unlocked /\ opening = {}
    /\ Verdict(j.b) = "PENDING"
    /\ Finish(j)
    /\ UNCHANGED <<members, standing, rounds, mail, commit, chosen, spent>>
    /\ UNCHANGED migVars

\* A caller is cancelled while it waits for the locks of complete_request: the
\* request stays pending without a task.
CallCancelled(j) ==
    /\ j \in jobs /\ j.kind = "call"
    /\ CanCancel /\ Cancel
    /\ Finish(j)
    /\ UNCHANGED <<members, standing, rounds, mail, commit, chosen>>
    /\ UNCHANGED migVars

\* complete_request: what it resolves and moves is committed under both locks.
Resolve(j) ==
    LET m == j.b  q == plans[m]  v == Verdict(m) IN
    /\ j \in jobs /\ Completes(j) /\ Unlocked /\ opening = {}
    /\ v # "PENDING"
    /\ standing' = [standing EXCEPT ![m] = v]
    /\ rounds' = [rounds EXCEPT ![m] = ClosedRounds(m)]
    /\ IF v = "EXECUTED"
       THEN /\ parent' = [parent EXCEPT ![q.team] = q.target]
            /\ kids' = MovedKids(q)
            /\ moves' = [moves EXCEPT ![q.team] = @ + 1]
            /\ made' = [made EXCEPT ![q.team] = @ + 1]
            /\ alerts' = alerts \cup {<<t, m>> : t \in {q.team, q.target, q.origin} \ {Top}}
       ELSE UNCHANGED <<parent, kids, moves, made, alerts>>
    /\ commit' = {[op |-> "migrate", b |-> m, undo |-> rounds[m], count |-> moves[q.team],
                   moved |-> v = "EXECUTED"]}
    /\ opening' = {m}
    /\ Finish(j)
    /\ UNCHANGED <<members, mail, chosen, spent, plans>>

ResolveOk ==
    \E c \in commit :
        /\ c.op = "migrate"
        /\ commit' = {} /\ opening' = {}
        /\ UNCHANGED <<members, standing, rounds, mail, jobs, chosen, spent>>
        /\ UNCHANGED <<parent, kids, plans, moves, made, alerts>>

Returned(q) == [parent EXCEPT ![q.team] = q.origin]

\* The team, its count, the alerts, the request and its rounds are put back.
ResolveFails ==
    \E c \in commit :
        LET q == plans[c.b] IN
        /\ c.op = "migrate" /\ CanFail /\ Fail
        /\ commit' = {} /\ opening' = {}
        /\ standing' = [standing EXCEPT ![c.b] = "PENDING"]
        /\ rounds' = [rounds EXCEPT ![c.b] = c.undo]
        /\ IF c.moved
           THEN /\ parent' = Returned(q)
                /\ kids' = [t \in Teams |-> IF t = q.target THEN kids[t] \ {q.team}
                                            ELSE IF t = q.origin THEN kids[t] \cup {q.team}
                                            ELSE kids[t]]
                /\ moves' = [moves EXCEPT ![q.team] = c.count]
                /\ made' = [made EXCEPT ![q.team] = IF @ = 0 THEN 0 ELSE @ - 1]
                /\ alerts' = {x \in alerts : x[2] # c.b}
           ELSE UNCHANGED <<parent, kids, moves, made, alerts>>
        /\ UNCHANGED <<members, mail, jobs, chosen, plans>>

\* _execute_team_discussion_session forgets the migrations of the last one.
BeginDiscussion(t) ==
    /\ moves[t] > 0 \/ made[t] > 0
    /\ moves' = [moves EXCEPT ![t] = 0]
    /\ made' = [made EXCEPT ![t] = 0]
    /\ UNCHANGED govVars
    /\ UNCHANGED <<parent, kids, plans, alerts, opening>>

-----------------------------------------------------------------------------
MigInit ==
    /\ parent = InitialParent
    /\ kids = [t \in Teams |-> {u \in Teams : InitialParent[u] = t}]
    /\ plans = [m \in Migrations |-> NoPlan]
    /\ moves = [t \in Teams |-> 0]
    /\ made = [t \in Teams |-> 0]
    /\ alerts = {}
    /\ opening = {}

MigNext ==
    \/ \E x \in Moves : Negotiate(x[1], x[2], x[3])
    \/ NegotiateOk \/ NegotiateCancelled \/ NegotiateFails
    \/ \E m \in Migrations : Insist(m)
    \/ \E j \in jobs : Prepare(j) \/ Nothing(j) \/ Resolve(j)
    \/ ResolveOk \/ ResolveFails
    \/ \E t \in Teams : BeginDiscussion(t)

\* MigrationService.resume
Rescheduled ==
    {Job("prepare", x[1], x[2], 0, "ready", {}) :
       x \in {y \in Migrations \X Principals :
                standing[y[1]] = "PENDING" /\ y[2] \in plans[y[1]].authorities}} \cup
    {Job("resolve", m, Root, 0, "ready", {}) :
       m \in {n \in Migrations : standing[n] = "PENDING" /\ plans[n].authorities = {}}}

\* The types of the variables.
MigTypeOK ==
    /\ parent \in [Teams -> Teams \cup {Top}]
    /\ kids \in [Teams -> SUBSET Teams]
    /\ plans \in [Migrations -> [team : Teams \cup {Top}, target : Teams \cup {Top},
                                 origin : Teams \cup {Top}, authorities : SUBSET Principals]]
    /\ moves \in [Teams -> Nat] /\ made \in [Teams -> Nat]
    /\ alerts \subseteq Teams \X Migrations
    /\ opening \subseteq Migrations
=============================================================================
