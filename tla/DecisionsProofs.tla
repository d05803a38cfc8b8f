-------------------------- MODULE DecisionsProofs --------------------------
(***************************************************************************)
(* What Decisions promises for every set of Agents, AgentTeams, businesses *)
(* and starts.  The layers, each resting on those before:                  *)
(*                                                                         *)
(*   Rooted       the topology, and what a failing commit would make of it *)
(*   Shaped       what rounds, tasks, commits and requests look like, and  *)
(*                that a commit in flight can be taken back                *)
(*   Standing     a round that has been decided stays decided              *)
(*   Conclusions  a task that knows a decision is right about it           *)
(*   Formed       the types of everything, approvals and choices included  *)
(*   Claims       a claimed approval has the task that settles it          *)
(*   Scheduling   a decided migration has the task that resolves it        *)
(***************************************************************************)
EXTENDS Decisions, TLAPS

(* The topology.  TopologySound is not inductive: an executed move may be taken back when *)
(* its commit fails, after the locks of other services have been released.  Rooted adds   *)
(* what makes the return safe: the plan of a pending migration is one of two AgentTeams,  *)
(* and what the commit in flight would put back is again a tree, with no more moves than  *)
(* allowed.                                                                               *)

-----------------------------------------------------------------------------
(* Trees, as functions from an AgentTeam to its parent. *)

Trees == [Teams -> Teams \cup {Top}]
RisingIn(f, S) == \A t \in S : f[t] \in S \cup {Top}
AboveIn(f, t) == {u \in Teams : t # Top /\ \A S \in SUBSET Teams : t \in S /\ RisingIn(f, S) => u \in S}
Acyclic(f) == \A t \in Teams : f[t] # Top => t \notin AboveIn(f, f[t])

\* The ancestors of t contain t and their own parents.
LEMMA AboveRises ==
    ASSUME NEW f \in Trees, NEW t \in Teams
    PROVE  /\ t \in AboveIn(f, t) /\ AboveIn(f, t) \subseteq Teams
           /\ RisingIn(f, AboveIn(f, t))
<1>1. t \in AboveIn(f, t) /\ AboveIn(f, t) \subseteq Teams
  BY MigrationAssumption DEF AboveIn
<1>2. ASSUME NEW u \in AboveIn(f, t), f[u] # Top PROVE f[u] \in AboveIn(f, t)
  <2>1. f[u] \in Teams
    BY <1>2 DEF AboveIn, Trees
  <2>2. ASSUME NEW S \in SUBSET Teams, t \in S, RisingIn(f, S) PROVE f[u] \in S
    BY <1>2, <2>2 DEF AboveIn, RisingIn
  <2> QED
    BY <2>1, <2>2, MigrationAssumption DEF AboveIn
<1> QED
  BY <1>1, <1>2 DEF RisingIn

\* They are the least such set.
LEMMA AboveLeast ==
    ASSUME NEW f, NEW t, NEW S \in SUBSET Teams, t \in S, RisingIn(f, S)
    PROVE  AboveIn(f, t) \subseteq S
BY DEF AboveIn

\* A tree stays one when a is put below b, which is not below a.
LEMMA Graft ==
    ASSUME NEW f \in Trees, Acyclic(f), NEW a \in Teams, NEW b \in Teams,
           a \notin AboveIn(f, b)
    PROVE  Acyclic([f EXCEPT ![a] = b])
<1> DEFINE g == [f EXCEPT ![a] = b]
<1>1. g \in Trees /\ g[a] = b /\ \A u \in Teams \ {a} : g[u] = f[u]
  BY DEF Trees
<1>2. b \in AboveIn(f, b) /\ AboveIn(f, b) \subseteq Teams /\ RisingIn(f, AboveIn(f, b))
  BY AboveRises
<1>3. RisingIn(g, AboveIn(f, b))
  BY <1>1, <1>2 DEF RisingIn
<1>4. ASSUME NEW t \in Teams, g[t] # Top PROVE t \notin AboveIn(g, g[t])
  <2>1. CASE t = a
    BY <2>1, <1>1, <1>2, <1>3, AboveLeast
  <2>2. CASE t # a
    <3> DEFINE old == AboveIn(f, f[t])
    <3>1. g[t] = f[t] /\ f[t] \in Teams
      BY <2>2, <1>1, <1>4 DEF Trees
    <3>2. f[t] \in old /\ old \subseteq Teams /\ RisingIn(f, old)
      BY <3>1, AboveRises
    <3>3. t \notin old
      BY <1>4, <3>1 DEF Acyclic
    <3>4. CASE a \notin old
      <4>1. RisingIn(g, old)
        BY <3>2, <3>4, <1>1 DEF RisingIn
      <4> QED
        BY <4>1, <3>1, <3>2, <3>3, AboveLeast
    <3>5. CASE a \in old
      <4>1. t \notin AboveIn(f, b)
        <5>1. SUFFICES ASSUME t \in AboveIn(f, b) PROVE FALSE
          OBVIOUS
        <5>2. f[t] \in AboveIn(f, b)
          BY <5>1, <1>2, <3>1, MigrationAssumption DEF RisingIn
        <5> QED
          BY <5>2, <1>2, <3>5, AboveLeast
      <4>2. RisingIn(g, old \cup AboveIn(f, b))
        BY <3>2, <1>1, <1>2, <1>3 DEF RisingIn
      <4> QED
        BY <4>1, <4>2, <3>1, <3>2, <3>3, <1>2, AboveLeast
    <3> QED
      BY <3>4, <3>5
  <2> QED
    BY <2>1, <2>2
<1> QED
  BY <1>4 DEF Acyclic

\* A topology without a set of AgentTeams that is closed under parents is a tree.
LEMMA InitialAcyclic == Acyclic(InitialParent)
<1> DEFINE f == InitialParent
<1>1. f \in Trees
  BY MigrationAssumption DEF Trees
<1>2. SUFFICES ASSUME NEW t \in Teams, f[t] # Top, t \in AboveIn(f, f[t]) PROVE FALSE
  BY DEF Acyclic
<1> DEFINE C == {x \in Teams : t \in AboveIn(f, x)}
<1>3. t \in C
  BY <1>1, AboveRises
<1>4. ASSUME NEW x \in C PROVE f[x] \in C
  <2>1. CASE x = t
    BY <2>1, <1>1, <1>2 DEF Trees
  <2>2. CASE x # t
    <3>1. CASE f[x] = Top
      <4>1. RisingIn(f, {x})
        BY <3>1 DEF RisingIn
      <4> QED
        BY <4>1, <2>2, AboveLeast
    <3>2. CASE f[x] # Top
      <4>1. f[x] \in Teams
        BY <3>2, <1>1 DEF Trees
      <4>2. f[x] \in AboveIn(f, f[x]) /\ AboveIn(f, f[x]) \subseteq Teams /\ RisingIn(f, AboveIn(f, f[x]))
        BY <4>1, <1>1, AboveRises
      <4>3. RisingIn(f, {x} \cup AboveIn(f, f[x]))
        BY <4>2 DEF RisingIn
      <4>4. AboveIn(f, x) \subseteq {x} \cup AboveIn(f, f[x])
        BY <4>2, <4>3, AboveLeast
      <4> QED
        BY <4>1, <4>4, <2>2
    <3> QED
      BY <3>1, <3>2
  <2> QED
    BY <2>1, <2>2
<1> QED
  BY <1>3, <1>4, MigrationAssumption

-----------------------------------------------------------------------------
(* The inductive invariant. *)

Planned(m) ==
    plans[m] = [team |-> plans[m].team, target |-> plans[m].target, origin |-> plans[m].origin,
                authorities |-> plans[m].authorities]
    /\ plans[m].team \in Teams /\ plans[m].target \in Teams
    /\ plans[m].origin \in Teams \cup {Top} /\ plans[m].origin # plans[m].target

Types ==
    /\ parent \in Trees
    /\ kids \in [Teams -> SUBSET Teams]
    /\ moves \in [Teams -> Nat] /\ made \in [Teams -> Nat]
    /\ plans = [m \in Migrations |-> plans[m]]
    /\ standing = [b \in Businesses |-> standing[b]]
    /\ alerts \subseteq Teams \X Migrations
    /\ \A m \in Migrations : standing[m] = "PENDING" => Planned(m)
    /\ \A c \in commit : c.op = "approve" => c.b \in Channels /\ c.next \subseteq Channels
    /\ \A d \in dealing : d.b \in Channels

Agree == \A t, u \in Teams : t \in kids[u] <=> parent[t] = u
Counts == \A t \in Teams : made[t] <= moves[t] /\ moves[t] <= MaxMigrations
Told == \A m \in Migrations : standing[m] = "EXECUTED" <=> \E t \in Teams : <<t, m>> \in alerts

\* What ResolveFails puts back.
Undoable(c) ==
    /\ c.b \in Migrations /\ opening = {c.b}
    /\ Planned(c.b)
    /\ c.moved <=> standing[c.b] = "EXECUTED"
    /\ c.moved =>
         LET q == plans[c.b] IN
         /\ parent[q.team] = q.target
         /\ Acyclic(Returned(q))
         /\ c.count \in Nat /\ c.count < MaxMigrations
         /\ moves[q.team] \in {0, c.count + 1}

Rooted ==
    /\ Types /\ Agree /\ Counts /\ Told /\ Acyclic(parent)
    /\ \A c, d \in commit : c = d
    /\ \A c \in commit : c.op = "migrate" => Undoable(c)
    /\ \A m \in opening : m \in Migrations /\ (standing[m] = "PENDING" \/ Committing("migrate"))

LEMMA RootedInit == Init => Rooted
<1> SUFFICES ASSUME Init PROVE Rooted
  OBVIOUS
<1>1. parent = InitialParent /\ parent \in Trees /\ Acyclic(parent)
  BY InitialAcyclic, MigrationAssumption DEF Init, MigInit, Trees
<1>2. Types
  <2>1. /\ kids \in [Teams -> SUBSET Teams] /\ plans = [m \in Migrations |-> plans[m]]
        /\ moves \in [Teams -> Nat] /\ made \in [Teams -> Nat] /\ alerts = {}
    BY DEF Init, MigInit
  <2>2. PICK s \in Starts :
          standing = [b \in Businesses |-> IF b \in s.agenda THEN "none" ELSE "withdrawn"]
    BY DEF Init
  <2>3. standing = [b \in Businesses |-> standing[b]]
        /\ \A m \in Migrations : standing[m] # "PENDING"
    BY <2>2 DEF Businesses
  <2>4. commit = {} /\ dealing = {}
    BY DEF Init, GovInit, BrokerInit
  <2> QED
    BY <1>1, <2>1, <2>3, <2>4 DEF Types
<1>3. Agree
  BY <1>1 DEF Init, MigInit, Agree
<1>4. Counts /\ Told
  BY MigrationAssumption DEF Init, MigInit, Counts, Told, Businesses
<1> QED
  BY <1>1, <1>2, <1>3, <1>4 DEF Rooted, Init, GovInit, MigInit

\* A step that leaves the topology alone, and the standing of migrations.
Aside ==
    /\ UNCHANGED <<parent, kids, plans, moves, made, alerts, opening>>
    /\ standing' = [b \in Businesses |-> standing'[b]]
    /\ \A m \in Migrations : standing'[m] = standing[m]
    /\ \A c, d \in commit' : c = d
    /\ \A c \in commit : c.op = "migrate" => c \in commit'
    /\ \A c \in commit' : \/ c \in commit
                          \/ /\ c.op # "migrate"
                             /\ c.op = "approve" => c.b \in Channels /\ c.next \subseteq Channels
    /\ \A d \in dealing' : d.b \in Channels

LEMMA AsideStep == ASSUME Rooted, Aside PROVE Rooted'
<1>1. Types'
  BY DEF Rooted, Types, Aside, Planned
<1>2. Agree' /\ Counts' /\ Told' /\ Acyclic(parent)'
  BY DEF Rooted, Aside, Agree, Counts, Told, Acyclic, AboveIn, RisingIn
<1>3. ASSUME NEW c \in commit', c.op = "migrate" PROVE Undoable(c)'
  <2>1. Undoable(c)
    BY <1>3 DEF Rooted, Aside
  <2> QED
    BY <2>1 DEF Aside, Undoable, Planned, Returned, Acyclic, AboveIn, RisingIn
<1>4. \A m \in opening' : m \in Migrations /\ (standing'[m] = "PENDING" \/ Committing("migrate")')
  BY DEF Rooted, Aside, Committing
<1> QED
  BY <1>1, <1>2, <1>3, <1>4 DEF Rooted, Aside

LEMMA Kinds ==
    /\ \A m \in Migrations : m \in Businesses /\ m \notin Channels /\ m \notin Failovers
    /\ \A r \in Channels : r \in Businesses /\ r \notin Migrations
BY GovernanceAssumption DEF Businesses

LEMMA GovernanceSteps ==
    ASSUME Rooted, GovNext, UNCHANGED <<migVars, brokerVars, limit>>
    PROVE  Aside
<1>1. /\ UNCHANGED <<parent, kids, plans, moves, made, alerts, opening>>
      /\ \A d \in dealing' : d.b \in Channels
  BY DEF Rooted, Types, migVars, brokerVars
<1>2. /\ UNCHANGED standing => standing' = [b \in Businesses |-> standing'[b]]
      /\ \A c, d \in commit : c = d
  BY DEF Rooted, Types
<1>3. ASSUME NEW j \in jobs,
             CreateReturns(j) \/ CreateRound(j) \/ FailoverDecided(j) \/ FailoverEnds(j) \/ Expire(j)
             \/ TalkFails(j)
      PROVE  Aside
  <2>1. CASE CreateReturns(j) \/ FailoverDecided(j) \/ TalkFails(j)
    BY <1>1, <1>2, <2>1 DEF CreateReturns, FailoverDecided, TalkFails, Aside
  <2>2. CASE CreateRound(j)
    BY <1>1, <1>2, <2>2 DEF CreateRound, Unlocked, Aside
  <2>3. CASE FailoverEnds(j)
    BY <1>1, <1>2, <2>3 DEF FailoverEnds, Aside
  <2>4. CASE Expire(j)
    BY <1>1, <1>2, <2>4 DEF Expire, Unlocked, Aside
  <2> QED
    BY <1>3, <2>1, <2>2, <2>3, <2>4
<1>4. CASE CreateOk \/ CreateFails \/ SubmitOk \/ SubmitFails
  <2>1. CASE CreateOk \/ SubmitOk
    BY <1>1, <1>2, <2>1 DEF CreateOk, SubmitOk, Aside
  <2>2. CASE CreateFails
    BY <1>1, <1>2, <2>2 DEF CreateFails, Aside
  <2>3. CASE SubmitFails
    BY <1>1, <1>2, <2>3 DEF SubmitFails, Aside
  <2> QED
    BY <1>4, <2>1, <2>2, <2>3
<1>5. ASSUME NEW b, NEW p, NEW a, NEW n, NEW c, Submit(a, b, p, n, c)
      PROVE  Aside
  BY <1>1, <1>2, <1>5 DEF Submit, Unlocked, Aside
<1>6. ASSUME NEW f \in Failovers, StartFailover(f) \/ Deadline(f)
      PROVE  Aside
  BY <1>1, <1>6, Kinds DEF StartFailover, Deadline, Aside, Rooted, Types
<1>7. ASSUME NEW t, NEW a, ChangeMembers(t, a)
      PROVE  Aside
  BY <1>1, <1>2, <1>7 DEF ChangeMembers, Aside
<1> QED
  BY <1>3, <1>4, <1>5, <1>6, <1>7 DEF GovNext

LEMMA BrokerSteps ==
    ASSUME Rooted, BrokerNext, UNCHANGED limit
    PROVE  Aside
<1>1. UNCHANGED migVars => UNCHANGED <<parent, kids, plans, moves, made, alerts, opening>>
  BY DEF migVars
<1>2. UNCHANGED standing => standing' = [b \in Businesses |-> standing'[b]]
  BY DEF Rooted, Types
<1>3. /\ \A d \in dealing : d.b \in Channels
      /\ \A c, d \in commit : c = d
      /\ \A c \in commit : c.op = "approve" => c.b \in Channels /\ c.next \subseteq Channels
      /\ standing = [b \in Businesses |-> standing[b]]
  BY DEF Rooted, Types
<1>4. ASSUME NEW x \in Pairs, RequestChannel(x[1], x[2], x[3]) PROVE Aside
  BY <1>1, <1>3, <1>4, Kinds DEF RequestChannel, Fresh, Aside, govButStandingJobs
<1>5. CASE RequestOk \/ RequestCancelled \/ RevokeOk \/ RevokeFails
  BY <1>1, <1>2, <1>3, <1>5 DEF RequestOk, RequestCancelled, RevokeOk, RevokeFails, Aside,
     govButStandingJobs, govVars
<1>6. CASE RequestFails
  BY <1>1, <1>3, <1>6, Kinds DEF RequestFails, Aside, govButStandingJobs
<1>7. ASSUME NEW r \in Channels, Revoke(r) PROVE Aside
  BY <1>1, <1>2, <1>3, <1>7 DEF Revoke, Aside, govVars
<1>8. ASSUME NEW t \in Teams, NEW r \in Channels, StartTalk(t, r) PROVE Aside
  BY <1>1, <1>2, <1>3, <1>8 DEF StartTalk, Aside, govButStandingJobs, brokerVars
<1>9. ASSUME NEW j \in jobs, Claim(j) PROVE Aside
  BY <1>1, <1>2, <1>3, <1>9, Kinds DEF Claim, Aside, govButStandingJobs
<1>10. ASSUME NEW j \in jobs, ClaimedAlready(j) \/ CompleteLapsed(j) PROVE Aside
  BY <1>1, <1>2, <1>3, <1>10 DEF ClaimedAlready, CompleteLapsed, Aside, govButStandingJobs, brokerVars
<1>14. ASSUME NEW j \in jobs, ClaimCancelled(j) PROVE Aside
  BY <1>1, <1>2, <1>3, <1>14 DEF ClaimCancelled, Aside, brokerVars
<1>11. ASSUME NEW j \in jobs, NEW next \in SUBSET Channels, CompleteApproval(j, next) PROVE Aside
  <2> DEFINE r == j.b
             st == Resolved(r, Settle(r, j.p, Outcome(j)))
  <2>1. r \in Channels
    BY <1>11 DEF CompleteApproval, MayComplete
  <2>2. standing' = [x \in Businesses |-> IF x = r THEN st ELSE IF x \in next THEN "PENDING"
                                          ELSE standing[x]]
    BY <1>11 DEF CompleteApproval
  <2>3. standing' = [b \in Businesses |-> standing'[b]] /\ \A m \in Migrations : standing'[m] = standing[m]
    BY <2>1, <2>2, Kinds
  <2>4. /\ commit = {} /\ \A c, d \in commit' : c = d
        /\ \A c \in commit' : c.op = "approve" /\ c.b = r /\ c.next = next
        /\ \A d \in dealing' : d.b = r
        /\ UNCHANGED migVars
    BY <1>11 DEF CompleteApproval, MayComplete, Unlocked
  <2> QED
    BY <2>1, <2>3, <2>4, <1>1 DEF Aside
<1>12. CASE ApproveOk \/ ApproveCancelled
  BY <1>1, <1>2, <1>3, <1>12 DEF ApproveOk, ApproveCancelled, Aside
<1>13. CASE ApproveFails
  <2>1. PICK c \in commit :
          /\ c.op = "approve" /\ commit' = {} /\ dealing' = {} /\ UNCHANGED migVars
          /\ standing' = [x \in Businesses |-> IF x = c.b THEN Refreshed(Released(c))
                                               ELSE IF x \in c.next THEN "withdrawn" ELSE standing[x]]
    BY <1>13 DEF ApproveFails
  <2>2. standing' = [b \in Businesses |-> standing'[b]] /\ \A m \in Migrations : standing'[m] = standing[m]
    BY <2>1, <1>3, Kinds
  <2>3. \A d \in commit : d.op # "migrate"
    BY <2>1, <1>3
  <2> QED
    BY <2>1, <2>2, <2>3, <1>1 DEF Aside
<1> QED
  BY <1>4, <1>5, <1>6, <1>7, <1>8, <1>9, <1>10, <1>11, <1>12, <1>13, <1>14 DEF BrokerNext

\* A caller that is cancelled leaves all but tasks and bounds alone.
LEMMA AbandonSays ==
    ASSUME NEW j, Abandon(j)
    PROVE  /\ j \in jobs /\ Finish(j) /\ Cancel
           /\ UNCHANGED <<members, standing, rounds, mail, commit, chosen, limit>>
           /\ UNCHANGED <<migVars, brokerVars>>
           /\ abandoned' = (abandoned \cup {<<j.b, j.p>>})
                              \ {<<k.b, k.p>> : k \in {i \in jobs' : Minds(i)}}
           /\ \/ j.kind = "call"
              \/ j.kind = "approve" /\ j.phase \in {"decided", "undecided"}
BY DEF Abandon, CallCancelled, CompletionCancelled, Leaving, govButStandingJobs

LEMMA AbandonStep == ASSUME Rooted, NEW j, Abandon(j) PROVE Aside
<1>1. /\ UNCHANGED <<standing, commit, dealing>>
      /\ UNCHANGED <<parent, kids, plans, moves, made, alerts, opening>>
  BY AbandonSays DEF migVars, brokerVars
<1>2. standing' = [b \in Businesses |-> standing'[b]] /\ \A d \in dealing' : d.b \in Channels
  BY <1>1 DEF Rooted, Types
<1> QED
  BY <1>1, <1>2 DEF Aside, Rooted

-----------------------------------------------------------------------------
(* The steps of Migration. *)

LEMMA RequestSteps ==
    ASSUME Rooted, UNCHANGED <<brokerVars, limit>>
    PROVE  /\ \A x \in Moves : Negotiate(x[1], x[2], x[3]) => Rooted'
           /\ NegotiateOk \/ NegotiateCancelled \/ NegotiateFails => Rooted'
<1>0. UNCHANGED dealing
  BY DEF brokerVars
<1>1. ASSUME NEW x \in Moves, Negotiate(x[1], x[2], x[3]) PROVE Rooted'
  <2> DEFINE m == x[1]
             q == [team |-> x[2], target |-> x[3], origin |-> parent[x[2]],
                   authorities |-> Authorities(m, x[2], x[3])]
  <2>1. m \in Migrations /\ m \in Businesses /\ x[2] \in Teams /\ x[3] \in Teams
    BY MigrationAssumption DEF Businesses
  <2>2. /\ standing[m] = "none" /\ opening = {} /\ opening' = {m}
        /\ plans' = [plans EXCEPT ![m] = q]
        /\ standing' = [standing EXCEPT ![m] = "PENDING"]
        /\ UNCHANGED <<commit, parent, kids, moves, made, alerts>>
    BY <1>1 DEF Negotiate
  <2>3. \A c \in commit : c.op # "migrate"
    BY <2>2 DEF Rooted, Undoable
  <2>4. Types'
    <3>1. q.team \in Teams /\ q.target \in Teams /\ q.origin \in Teams \cup {Top} /\ q.origin # q.target
      BY <1>1, <2>1 DEF Rooted, Types, Trees, Negotiate
    <3>2. plans'[m] = q /\ standing'[m] = "PENDING"
      BY <2>1, <2>2 DEF Rooted, Types
    <3>3. \A k \in Migrations \ {m} : plans'[k] = plans[k] /\ standing'[k] = standing[k]
      BY <2>2 DEF Rooted, Types, Businesses
    <3>4. \A k \in Migrations : standing'[k] = "PENDING" => Planned(k)'
      BY <3>1, <3>2, <3>3, ZenonT(60) DEF Rooted, Types, Planned
    <3>5. plans' = [k \in Migrations |-> plans'[k]] /\ standing' = [b \in Businesses |-> standing'[b]]
      BY <2>2 DEF Rooted, Types
    <3> QED
      BY <2>2, <1>0, <3>4, <3>5 DEF Rooted, Types
  <2>5. Agree' /\ Counts' /\ Acyclic(parent)'
    BY <2>2 DEF Rooted, Agree, Counts, Acyclic, AboveIn, RisingIn
  <2>6. Told' /\ standing'[m] = "PENDING"
    BY <2>1, <2>2 DEF Rooted, Types, Told, Businesses
  <2> QED
    BY <2>1, <2>2, <2>3, <2>4, <2>5, <2>6 DEF Rooted
<1>2. CASE NegotiateOk \/ NegotiateCancelled
  <2>1. /\ opening' = {} /\ ~Committing("migrate") /\ plans' = plans
        /\ UNCHANGED <<commit, standing, parent, kids, moves, made, alerts>>
    BY <1>2 DEF NegotiateOk, NegotiateCancelled
  <2>2. Types' /\ Agree' /\ Counts' /\ Acyclic(parent)' /\ Told'
    BY <1>0, <2>1 DEF Rooted, Types, Planned, Agree, Counts, Acyclic, AboveIn, RisingIn, Told
  <2> QED
    BY <2>1, <2>2 DEF Rooted, Committing
<1>3. CASE NegotiateFails
  <2>1. PICK m \in opening :
          /\ opening' = {} /\ ~Committing("migrate")
          /\ plans' = [plans EXCEPT ![m] = NoPlan]
          /\ standing' = [standing EXCEPT ![m] = "none"]
          /\ UNCHANGED <<commit, parent, kids, moves, made, alerts>>
    BY <1>3 DEF NegotiateFails
  <2>2. m \in Migrations /\ standing[m] = "PENDING"
    BY <2>1 DEF Rooted
  <2>3. /\ standing'[m] = "none"
        /\ \A k \in Migrations \ {m} : plans'[k] = plans[k] /\ standing'[k] = standing[k]
        /\ plans' = [k \in Migrations |-> plans'[k]] /\ standing' = [b \in Businesses |-> standing'[b]]
    BY <2>1, <2>2 DEF Rooted, Types, Businesses
  <2>4. \A k \in Migrations : standing'[k] = "PENDING" => Planned(k)'
    BY <2>3 DEF Rooted, Types, Planned
  <2>5. Types'
    BY <1>0, <2>1, <2>3, <2>4 DEF Rooted, Types
  <2>6. Agree' /\ Counts' /\ Acyclic(parent)' /\ Told'
    BY <2>1, <2>2, <2>3, SMTT(60) DEF Rooted, Agree, Counts, Acyclic, AboveIn, RisingIn, Told
  <2> QED
    BY <2>1, <2>5, <2>6 DEF Rooted, Committing
<1> QED
  BY <1>1, <1>2, <1>3

\* What ends no request and moves nobody.
LEMMA IdleSteps ==
    ASSUME Rooted, UNCHANGED <<brokerVars, limit>>
    PROVE  /\ \A m \in Migrations : Insist(m) => Aside
           /\ \A j \in jobs : Prepare(j) \/ Nothing(j) => Aside
<1>1. UNCHANGED dealing /\ (UNCHANGED standing => standing' = [b \in Businesses |-> standing'[b]])
  BY DEF Rooted, Types, brokerVars
<1>2. ASSUME NEW m \in Migrations, Insist(m) PROVE Aside
  BY <1>1, <1>2 DEF Insist, Aside, Rooted, Types
<1>3. ASSUME NEW j \in jobs, Prepare(j) \/ Nothing(j) PROVE Aside
  BY <1>1, <1>3 DEF Prepare, Nothing, Aside, Rooted, Types, migVars
<1> QED
  BY <1>2, <1>3

\* The verdict on a request whose move is allowed, and what it says.
LEMMA VerdictSays ==
    ASSUME NEW m, Verdict(m) # "PENDING"
    PROVE  /\ standing[m] = "PENDING"
           /\ Verdict(m) \in {"EXECUTED", "DENIED", "STALE"}
           /\ Verdict(m) = "EXECUTED" =>
                Allowed(m, plans[m].team, plans[m].target, plans[m].origin, plans[m].authorities)
BY DEF Verdict

\* A move that is carried out.
LEMMA MoveStep ==
    ASSUME Rooted, NEW m \in Migrations, standing[m] = "PENDING",
           Allowed(m, plans[m].team, plans[m].target, plans[m].origin, plans[m].authorities),
           parent' = [parent EXCEPT ![plans[m].team] = plans[m].target],
           kids' = MovedKids(plans[m])
    PROVE  /\ parent' \in Trees /\ kids' \in [Teams -> SUBSET Teams]
           /\ Agree' /\ Acyclic(parent')
           /\ [parent' EXCEPT ![plans[m].team] = plans[m].origin] = parent
<1> DEFINE t == plans[m].team
           u == plans[m].target
<1>1. t \in Teams /\ u \in Teams /\ parent \in Trees /\ kids \in [Teams -> SUBSET Teams]
  BY DEF Rooted, Types, Planned
<1>2. parent[t] = plans[m].origin /\ t \notin AboveIn(parent, u)
  BY DEF Allowed, Above, AboveIn, Rising, RisingIn
<1>3. parent' \in Trees /\ kids' \in [Teams -> SUBSET Teams]
  BY <1>1 DEF Trees, MovedKids
<1>4. Agree'
  BY <1>1 DEF Rooted, Agree, MovedKids, Trees
<1>5. Acyclic(parent')
  BY <1>1, <1>2, Graft DEF Rooted
<1>6. [parent' EXCEPT ![t] = plans[m].origin] = parent
  BY <1>1, <1>2 DEF Trees
<1> QED
  BY <1>3, <1>4, <1>5, <1>6

LEMMA ResolveStep ==
    ASSUME Rooted, UNCHANGED <<brokerVars, limit>>, NEW j \in jobs, Resolve(j)
    PROVE  Rooted'
<1> DEFINE m == j.b
           q == plans[m]
           v == Verdict(m)
<1>1. /\ m \in Migrations /\ m \in Businesses /\ v # "PENDING"
      /\ standing' = [standing EXCEPT ![m] = v]
      /\ opening' = {m} /\ UNCHANGED plans
      /\ commit' # {} /\ \A c, d \in commit' : c = d
      /\ \A c \in commit' : /\ c.op = "migrate" /\ c.b = m /\ c.count = moves[q.team]
                            /\ c.moved <=> v = "EXECUTED"
  <2>1. /\ m \in Migrations /\ v # "PENDING" /\ standing' = [standing EXCEPT ![m] = v]
        /\ opening' = {m} /\ UNCHANGED plans
    BY DEF Resolve, Completes
  <2>2. commit' = {[op |-> "migrate", b |-> m, undo |-> rounds[m], count |-> moves[q.team],
                    moved |-> v = "EXECUTED"]}
    BY DEF Resolve
  <2>3. PICK w \in BOOLEAN : w <=> v = "EXECUTED"
    OBVIOUS
  <2>4. commit' = {[op |-> "migrate", b |-> m, undo |-> rounds[m], count |-> moves[q.team],
                    moved |-> w]}
    BY <2>2, <2>3, Zenon
  <2>5. \A c \in commit' : c.op = "migrate" /\ c.b = m /\ c.count = moves[q.team] /\ c.moved = w
    BY <2>4
  <2> QED
    BY <2>1, <2>2, <2>3, <2>5 DEF Businesses
<1>2. standing[m] = "PENDING" /\ v \in {"EXECUTED", "DENIED", "STALE"} /\ Planned(m)
  BY <1>1, VerdictSays DEF Rooted, Types
<1>3. /\ standing' = [b \in Businesses |-> standing'[b]]
      /\ standing'[m] = v
      /\ \A k \in Migrations \ {m} : standing'[k] = standing[k]
  BY <1>1 DEF Rooted, Types
<1>4. /\ \A k \in Migrations : standing'[k] = "PENDING" => Planned(k)'
      /\ Planned(m)'
      /\ UNCHANGED dealing
  BY <1>1, <1>2, <1>3, SMTT(60) DEF Rooted, Types, Planned, brokerVars
<1>5. CASE v = "EXECUTED"
  <2>1. /\ parent' = [parent EXCEPT ![q.team] = q.target]
        /\ kids' = MovedKids(q)
        /\ moves' = [moves EXCEPT ![q.team] = @ + 1]
        /\ made' = [made EXCEPT ![q.team] = @ + 1]
        /\ alerts' = alerts \cup {<<t, m>> : t \in {q.team, q.target, q.origin} \ {Top}}
    BY <1>5 DEF Resolve
  <2>2. Allowed(m, q.team, q.target, q.origin, q.authorities)
    BY <1>1, <1>5, VerdictSays
  <2>3. /\ parent' \in Trees /\ kids' \in [Teams -> SUBSET Teams]
        /\ Agree' /\ Acyclic(parent')
        /\ [parent' EXCEPT ![q.team] = q.origin] = parent
    BY <1>1, <1>2, <2>1, <2>2, MoveStep
  <2>4. /\ moves[q.team] \in Nat /\ moves[q.team] < MaxMigrations /\ q.team \in Teams
        /\ made[q.team] \in Nat
    BY <1>2, <2>2 DEF Allowed, Planned, Rooted, Types
  <2>5. /\ moves' \in [Teams -> Nat] /\ made' \in [Teams -> Nat]
        /\ moves'[q.team] = moves[q.team] + 1
    BY <2>1, <2>4 DEF Rooted, Types
  <2>6. Counts'
    <3>1. ASSUME NEW t \in Teams PROVE made'[t] <= moves'[t] /\ moves'[t] <= MaxMigrations
      <4>1. made[t] \in Nat /\ moves[t] \in Nat /\ made[t] <= moves[t] /\ moves[t] <= MaxMigrations
        BY SMTT(60) DEF Rooted, Types, Counts
      <4>2. CASE t = q.team
        BY <4>1, <4>2, <2>1, <2>4, MigrationAssumption DEF Rooted, Types
      <4>3. CASE t # q.team
        BY <4>1, <4>3, <2>1 DEF Rooted, Types
      <4> QED
        BY <4>2, <4>3
    <3> QED
      BY <3>1 DEF Counts
  <2>7. alerts' \subseteq Teams \X Migrations /\ <<q.team, m>> \in alerts'
    <3> DEFINE told == {q.team, q.target, q.origin} \ {Top}
    <3>1. told \subseteq Teams /\ q.team \in told
      BY <1>2, MigrationAssumption DEF Planned
    <3>2. alerts \subseteq Teams \X Migrations /\ alerts' = alerts \cup {<<t, m>> : t \in told}
      BY <2>1 DEF Rooted, Types
    <3> HIDE DEF told
    <3> QED
      BY <1>1, <3>1, <3>2
  <2>8. \A k \in Migrations \ {m}, t \in Teams : <<t, k>> \in alerts' <=> <<t, k>> \in alerts
    BY <2>1
  <2>9. Told'
    BY <1>2, <1>3, <1>5, <2>7, <2>8, ZenonT(60) DEF Rooted, Told, Planned
  <2>10. Types'
    BY <1>1, <1>3, <1>4, <2>3, <2>5, <2>7 DEF Rooted, Types
  <2>11. parent'[q.team] = q.target
    BY <1>2, <2>1 DEF Rooted, Types, Trees, Planned
  <2>12. ASSUME NEW c \in commit' PROVE Undoable(c)'
    <3>1. c.b = m /\ c.count = moves[q.team] /\ c.moved /\ plans'[m] = q
      BY <1>1, <1>5
    <3>2. Acyclic(Returned(q))'
      BY <1>1, <2>3 DEF Returned, Rooted
    <3> QED
      BY <3>1, <3>2, <1>1, <1>3, <1>4, <1>5, <2>4, <2>5, <2>11 DEF Undoable
  <2> QED
    BY <1>1, <2>3, <2>6, <2>9, <2>10, <2>12 DEF Rooted, Committing
<1>6. CASE v # "EXECUTED"
  <2>1. UNCHANGED <<parent, kids, moves, made, alerts>>
    BY <1>6 DEF Resolve
  <2>2. Types'
    BY <1>1, <1>3, <1>4, <2>1 DEF Rooted, Types
  <2>3. Agree' /\ Counts' /\ Acyclic(parent)' /\ Told'
    BY <1>2, <1>3, <1>6, <2>1 DEF Rooted, Agree, Counts, Acyclic, AboveIn, RisingIn, Told
  <2>4. ASSUME NEW c \in commit' PROVE Undoable(c)'
    BY <1>1, <1>3, <1>4, <1>6 DEF Undoable
  <2> QED
    BY <1>1, <2>1, <2>2, <2>3, <2>4 DEF Rooted, Committing
<1> QED
  BY <1>5, <1>6

LEMMA ResolveEnds ==
    ASSUME Rooted, UNCHANGED <<brokerVars, limit>>, ResolveOk \/ ResolveFails
    PROVE  Rooted'
<1>0. UNCHANGED dealing
  BY DEF brokerVars
<1>1. CASE ResolveOk
  <2>1. /\ commit' = {} /\ opening' = {}
        /\ UNCHANGED <<standing, parent, kids, plans, moves, made, alerts>>
    BY <1>1 DEF ResolveOk
  <2>2. Types' /\ Agree' /\ Counts' /\ Acyclic(parent)' /\ Told'
    BY <1>0, <2>1 DEF Rooted, Types, Planned, Agree, Counts, Acyclic, AboveIn, RisingIn, Told
  <2> QED
    BY <2>1, <2>2 DEF Rooted
<1>2. ASSUME NEW c \in commit, c.op = "migrate", commit' = {}, opening' = {}, UNCHANGED plans,
             standing' = [standing EXCEPT ![c.b] = "PENDING"]
      PROVE  /\ ~c.moved /\ UNCHANGED <<parent, kids, moves, made, alerts>> => Rooted'
             /\ c.moved /\ parent' = Returned(plans[c.b])
                /\ kids' = [t \in Teams |->
                              IF t = plans[c.b].target THEN kids[t] \ {plans[c.b].team}
                              ELSE IF t = plans[c.b].origin THEN kids[t] \cup {plans[c.b].team}
                              ELSE kids[t]]
                /\ moves' = [moves EXCEPT ![plans[c.b].team] = c.count]
                /\ made' = [made EXCEPT ![plans[c.b].team] = IF @ = 0 THEN 0 ELSE @ - 1]
                /\ alerts' = {x \in alerts : x[2] # c.b}
                => Rooted'
  <2> DEFINE q == plans[c.b]
  <2>1. c.b \in Migrations /\ c.b \in Businesses /\ Planned(c.b) /\ Undoable(c)
    BY <1>2 DEF Rooted, Undoable, Businesses
  <2>2. /\ standing' = [b \in Businesses |-> standing'[b]]
        /\ standing'[c.b] = "PENDING"
        /\ \A k \in Migrations \ {c.b} : standing'[k] = standing[k]
        /\ \A k \in Migrations : standing'[k] = "PENDING" => Planned(k)'
    BY <1>2, <2>1, SMTT(60) DEF Rooted, Types, Planned
  <2>3. ASSUME ~c.moved, UNCHANGED <<parent, kids, moves, made, alerts>> PROVE Rooted'
    <3>1. standing[c.b] # "EXECUTED"
      BY <2>1, <2>3 DEF Undoable
    <3>2. Types'
      BY <1>0, <1>2, <2>2, <2>3 DEF Rooted, Types
    <3>3. Agree' /\ Counts' /\ Acyclic(parent)' /\ Told'
      BY <2>2, <2>3, <3>1 DEF Rooted, Agree, Counts, Acyclic, AboveIn, RisingIn, Told
    <3> QED
      BY <1>2, <3>2, <3>3 DEF Rooted
  <2>4. ASSUME c.moved,
               parent' = Returned(q),
               kids' = [t \in Teams |-> IF t = q.target THEN kids[t] \ {q.team}
                                        ELSE IF t = q.origin THEN kids[t] \cup {q.team}
                                        ELSE kids[t]],
               moves' = [moves EXCEPT ![q.team] = c.count],
               made' = [made EXCEPT ![q.team] = IF @ = 0 THEN 0 ELSE @ - 1],
               alerts' = {x \in alerts : x[2] # c.b}
        PROVE  Rooted'
    <3>1. /\ parent[q.team] = q.target /\ Acyclic(Returned(q))
          /\ c.count \in Nat /\ c.count < MaxMigrations
          /\ moves[q.team] \in {0, c.count + 1}
      BY <2>1, <2>4 DEF Undoable
    <3>2. /\ q.team \in Teams /\ q.target \in Teams /\ q.origin \in Teams \cup {Top}
          /\ q.origin # q.target
      BY <2>1, SMTT(60) DEF Planned
    <3>3. parent' \in Trees /\ kids' \in [Teams -> SUBSET Teams] /\ Acyclic(parent)'
      BY <2>4, <3>1, <3>2, SMTT(60) DEF Returned, Rooted, Types, Trees
    <3>4. Agree'
      BY <2>4, <3>1, <3>2, MigrationAssumption DEF Returned, Rooted, Types, Trees, Agree
    <3>5. ASSUME NEW t \in Teams
          PROVE  /\ made'[t] \in Nat /\ moves'[t] \in Nat
                 /\ made'[t] <= moves'[t] /\ moves'[t] <= MaxMigrations
      <4>1. made[t] \in Nat /\ moves[t] \in Nat /\ made[t] <= moves[t] /\ moves[t] <= MaxMigrations
        BY SMTT(60) DEF Rooted, Types, Counts
      <4>2. CASE t = q.team
        BY <4>1, <4>2, <2>4, <3>1, MigrationAssumption DEF Rooted, Types
      <4>3. CASE t # q.team
        BY <4>1, <4>3, <2>4, SMTT(60) DEF Rooted, Types
      <4> QED
        BY <4>2, <4>3
    <3>6. Counts' /\ moves' \in [Teams -> Nat] /\ made' \in [Teams -> Nat]
      BY <2>4, <3>5 DEF Counts, Rooted, Types
    <3>7. Told'
      <4>1. \A k \in Migrations \ {c.b}, t \in Teams : <<t, k>> \in alerts' <=> <<t, k>> \in alerts
        BY <2>4
      <4>2. \A t \in Teams : <<t, c.b>> \notin alerts'
        BY <2>4, SMTT(60)
      <4> QED
        BY <4>1, <4>2, <2>2 DEF Rooted, Told
    <3>8. Types'
      BY <1>0, <1>2, <2>2, <2>4, <3>3, <3>6 DEF Rooted, Types
    <3> QED
      BY <1>2, <3>3, <3>4, <3>6, <3>7, <3>8 DEF Rooted
  <2> QED
    BY <2>3, <2>4
<1>3. CASE ResolveFails
  <2>1. PICK c \in commit :
          LET q == plans[c.b] IN
          /\ c.op = "migrate" /\ commit' = {} /\ opening' = {} /\ UNCHANGED plans
          /\ standing' = [standing EXCEPT ![c.b] = "PENDING"]
          /\ IF c.moved
             THEN /\ parent' = Returned(q)
                  /\ kids' = [t \in Teams |-> IF t = q.target THEN kids[t] \ {q.team}
                                              ELSE IF t = q.origin THEN kids[t] \cup {q.team}
                                              ELSE kids[t]]
                  /\ moves' = [moves EXCEPT ![q.team] = c.count]
                  /\ made' = [made EXCEPT ![q.team] = IF @ = 0 THEN 0 ELSE @ - 1]
                  /\ alerts' = {x \in alerts : x[2] # c.b}
             ELSE UNCHANGED <<parent, kids, moves, made, alerts>>
    BY <1>3 DEF ResolveFails
  <2> QED
    BY <2>1, <1>2
<1> QED
  BY <1>1, <1>3

LEMMA BeginStep ==
    ASSUME Rooted, UNCHANGED <<brokerVars, limit>>, NEW t \in Teams, BeginDiscussion(t)
    PROVE  Rooted'
<1>1. /\ moves' = [moves EXCEPT ![t] = 0] /\ made' = [made EXCEPT ![t] = 0]
      /\ UNCHANGED <<standing, commit, parent, kids, plans, alerts, opening, dealing>>
  BY DEF BeginDiscussion, govVars, brokerVars
<1>2. Types' /\ Agree' /\ Acyclic(parent)' /\ Told'
  BY <1>1 DEF Rooted, Types, Planned, Agree, Acyclic, AboveIn, RisingIn, Told
<1>3. Counts'
  BY <1>1, MigrationAssumption DEF Rooted, Types, Counts
<1>4. ASSUME NEW c \in commit', c.op = "migrate" PROVE Undoable(c)'
  <2>1. Undoable(c)
    BY <1>1, <1>4 DEF Rooted
  <2>2. \A u \in Teams : moves'[u] = moves[u] \/ moves'[u] = 0
    BY <1>1 DEF Rooted, Types
  <2> QED
    BY <1>1, <2>1, <2>2 DEF Undoable, Planned, Returned, Acyclic, AboveIn, RisingIn
<1> QED
  BY <1>1, <1>2, <1>3, <1>4 DEF Rooted, Committing

LEMMA RestartStep == ASSUME Rooted, Restart PROVE Aside
<1>1. /\ commit = {} /\ UNCHANGED <<commit, migVars, dealing>>
      /\ standing' = [b \in Businesses |->
                        IF b \in Channels /\ standing[b] = "PROCESSING" THEN "PENDING"
                        ELSE IF b \in Failovers /\ standing[b] = "PENDING" THEN "ENDED"
                        ELSE standing[b]]
  BY DEF Restart
<1> QED
  BY <1>1, Kinds DEF Aside, migVars, Rooted, Types

LEMMA RootedInvariant == Spec => []Rooted
<1>1. ASSUME Rooted, [Next]_vars PROVE Rooted'
  <2>1. CASE GovNext /\ UNCHANGED <<migVars, brokerVars, limit>>
    BY <1>1, <2>1, GovernanceSteps, AsideStep
  <2>2. CASE MigNext /\ UNCHANGED <<brokerVars, limit>>
    BY <1>1, <2>2, RequestSteps, IdleSteps, AsideStep, ResolveStep, ResolveEnds, BeginStep DEF MigNext
  <2>3. CASE BrokerNext /\ UNCHANGED limit
    BY <1>1, <2>3, BrokerSteps, AsideStep
  <2>6. ASSUME NEW j \in jobs, Abandon(j) PROVE Rooted'
    BY <1>1, <2>6, AbandonStep, AsideStep
  <2>4. CASE Restart
    BY <1>1, <2>4, RestartStep, AsideStep
  <2>5. CASE UNCHANGED vars
    <3>1. Aside
      BY <1>1, <2>5 DEF vars, govVars, migVars, brokerVars, Aside, Rooted, Types
    <3> QED
      BY <1>1, <3>1, AsideStep
  <2> QED
    BY <1>1, <2>1, <2>2, <2>3, <2>4, <2>5, <2>6 DEF Next
<1> QED
  BY <1>1, RootedInit, PTL DEF Spec

\* Whatever migrates, fails and is taken back, the topology stays a tree with
\* both directions in agreement, no AgentTeam moves more often than it may, and
\* the parents have been told of every move (complete_request).
THEOREM TopologyStaysSound == Spec => []TopologySound
<1>1. Rooted => TopologySound
  <2>1. ASSUME Rooted, NEW t \in Teams, parent[t] # Top PROVE t \notin Above(parent[t])
    BY <2>1 DEF Rooted, Acyclic, Above, AboveIn, Rising, RisingIn
  <2>2. ASSUME Rooted, NEW t \in Teams PROVE made[t] <= MaxMigrations
    BY <2>2, MigrationAssumption DEF Rooted, Types, Counts
  <2> QED
    BY <2>1, <2>2 DEF Rooted, Agree, Told, TopologySound
<1> QED
  BY <1>1, RootedInvariant, PTL

-----------------------------------------------------------------------------
(* The shape of the state: of what tasks, rounds and the commit in flight   *)
(* are records, and what a failing commit would put back.                  *)

Votes == Booleans \cup Aliases \cup {Silent}
Papers == UNION {[V -> Votes] : V \in SUBSET Agents}
RoundStatuses == {"PENDING", "APPROVED", "DENIED", "TIED", "SUPERSEDED", "EXPIRED", "CANCELLED"}
AllRounds ==
    {r \in [voters : SUBSET Agents, ballots : Papers, status : RoundStatuses] :
       r.ballots \in [r.voters -> Votes]}

Standings == {"none", "withdrawn", "PENDING", "PROCESSING", "EXECUTED",
              "APPROVED", "DENIED", "STALE", "ENDED"}
AllJobs ==
    [kind : {"prepare", "approve", "failover", "resolve", "call"}, b : Businesses, p : Principals,
     n : Nat, snap : SUBSET Agents,
     phase : {"ready", "talking", "claimed", "decided", "undecided", "releasing", "expiring"}]

Answers == RoundStatuses \cup {"none", "PROCESSING"}

\* What a task is for, and the phases it goes through.
Tasked(j) ==
    /\ j.kind = "failover" <=> j.b \in Failovers
    /\ j.kind = "failover" => j.p = Overseer /\ j.phase # "ready"
    /\ j.kind = "approve" => j.b \in Channels
    /\ j.kind = "prepare" => j.b \in Migrations
    /\ j.kind = "resolve" => j.phase \in {"ready", "decided"}
    /\ j.kind = "call" => j.b \in Migrations /\ j.p = Root /\ j.phase = "ready"
    /\ j.phase \in {"claimed", "releasing"} => j.kind = "approve"
    /\ j.phase = "expiring" => j.kind = "failover"
    /\ j.phase = "decided" \/ (j.kind = "resolve" /\ j.b \in Channels) => j.n > 0

\* A round is decided by what its voters have said, as soon as all have.
Earned(b, r) ==
    r.status \in {"APPROVED", "DENIED", "TIED"} \/ (r.status = "PENDING" /\ Complete(r))
        => Tally(b, r) = r.status /\ Complete(r)

\* The rounds of a business and a principal: only the last one may be open.
Row(b, seq) ==
    /\ seq \in Seq(AllRounds)
    /\ \A n \in 1..Len(seq) : Earned(b, seq[n])
    /\ \A n \in 1..Len(seq) : n < Len(seq) => seq[n].status # "PENDING"

\* Open rounds may be closed without a decision.
Shut(r, q) ==
    q = r \/ \E s \in {"SUPERSEDED", "EXPIRED", "CANCELLED"} :
               r.status = "PENDING" /\ q = [r EXCEPT !.status = s]

Alike(seq, new) == Len(seq) = Len(new) /\ \A n \in 1..Len(seq) : Shut(seq[n], new[n])

\* One more ballot.
Cast(old, new) ==
    \E a \in old.voters, x \in Votes :
        old.ballots[a] = Silent /\ new.ballots = [old.ballots EXCEPT ![a] = x]

Creating(c) ==
    /\ c.job \in jobs /\ AtCreate(c.job) /\ c.b = c.job.b /\ c.p = c.job.p
    /\ Row(c.b, c.undo)
    /\ VotersOf(c.job) # {} /\ VotersOf(c.job) \subseteq Agents
    /\ rounds[c.b][c.p] = Append(Superseded(c.undo), NewRound(VotersOf(c.job)))

Submitting(c) ==
    /\ c.b \in Businesses /\ c.p \in Principals
    /\ HasRound(c.b, c.p) /\ c.n = Number(c.b, c.p)
    /\ c.undo \in AllRounds /\ c.undo.status = "PENDING" /\ c.undo.voters = Latest(c.b, c.p).voters
    /\ Earned(c.b, c.undo)
    /\ Latest(c.b, c.p).ballots = c.undo.ballots \/ Cast(c.undo, Latest(c.b, c.p))

Migrating(c) ==
    /\ c.b \in Migrations
    /\ c.undo = [p \in Principals |-> c.undo[p]]
    /\ \A p \in Principals : Row(c.b, c.undo[p]) /\ Alike(c.undo[p], rounds[c.b][p])

Completing(c) ==
    /\ c.b \in Channels /\ c.p \in Principals /\ c.next \subseteq Channels /\ c.b \notin c.next
    /\ dealing = {[op |-> "approve", b |-> c.b]}
    /\ routes[c.b].from \in Teams /\ routes[c.b].to \in Teams
    /\ c.rounds = [p \in Principals |-> c.rounds[p]]
    /\ \A p \in Principals : Row(c.b, c.rounds[p]) /\ Alike(c.rounds[p], rounds[c.b][p])
    /\ c.approval \in [Principals -> Answers]
    /\ c.agreement \in [Channels -> {"none", "active", "superseded", "revoked"}]
    /\ c.notes \subseteq Teams \X {c.b}

Committed(c) ==
    /\ c.op \in {"create", "submit", "migrate", "approve"}
    /\ c.op = "create" => Creating(c)
    /\ c.op = "submit" => Submitting(c)
    /\ c.op = "migrate" => Migrating(c)
    /\ c.op = "approve" => Completing(c)

Bounds == [rounds : Nat, changes : Nat, faults : Nat, cancels : Nat, restarts : Nat]

Plain ==
    /\ members \in [Teams -> SUBSET Agents]
    /\ standing \in [Businesses -> Standings]
    /\ mail \subseteq Businesses \X Principals \X Nat \X Agents
    /\ limit \in Bounds /\ spent \in Bounds

Rows ==
    /\ rounds \in [Businesses -> [Principals -> Seq(AllRounds)]]
    /\ \A b \in Businesses, p \in Principals : Row(b, rounds[b][p])

Tasks == jobs \subseteq AllJobs /\ \A j \in jobs : Tasked(j)

Commits == (\A c, d \in commit : c = d) /\ \A c \in commit : Committed(c)

Records ==
    /\ plans \in [Migrations -> [team : Teams \cup {Top}, target : Teams \cup {Top},
                                 origin : Teams \cup {Top}, authorities : SUBSET Principals]]
    /\ routes \in [Channels -> [from : Teams \cup {Top}, to : Teams \cup {Top},
                                authorities : SUBSET Principals, after : SUBSET Channels,
                                next : SUBSET Channels]]
    /\ approval \in [Channels -> [Principals -> Answers]]
    /\ \A r \in Channels, p \in Principals :
         approval[r][p] # "none" => routes[r].from \in Teams /\ routes[r].to \in Teams
    /\ notes \subseteq Teams \X Channels
    /\ agreement \in [Channels -> {"none", "active", "superseded", "revoked"}]
    /\ \A d \in dealing : d.op \in {"request", "revoke", "approve"} /\ d.b \in Channels

Shaped == Plain /\ Rows /\ Tasks /\ Commits /\ Records

-----------------------------------------------------------------------------
(* Rounds. *)

LEMMA Below == \A L \in Nat : \A n \in 1..L : n = L \/ n < L
OBVIOUS

LEMMA RoundIs ==
    ASSUME NEW r \in AllRounds
    PROVE  /\ r.voters \subseteq Agents /\ r.ballots \in [r.voters -> Votes]
           /\ r.status \in RoundStatuses
BY DEF AllRounds

LEMMA RoundIsMade ==
    ASSUME NEW V \in SUBSET Agents, NEW s \in RoundStatuses, NEW f \in [V -> Votes]
    PROVE  [voters |-> V, ballots |-> f, status |-> s] \in AllRounds
BY DEF AllRounds, Papers

\* A round with another status.
LEMMA Relabelled ==
    ASSUME NEW r \in AllRounds, NEW s \in RoundStatuses
    PROVE  LET q == [r EXCEPT !.status = s] IN
           /\ q \in AllRounds /\ q.status = s /\ q.voters = r.voters /\ q.ballots = r.ballots
BY DEF AllRounds

LEMMA Balloted ==
    ASSUME NEW r \in AllRounds, NEW a \in r.voters, NEW x \in Votes
    PROVE  LET q == [r EXCEPT !.ballots[a] = x] IN
           /\ q \in AllRounds /\ q.status = r.status /\ q.voters = r.voters
           /\ q.ballots = [r.ballots EXCEPT ![a] = x]
<1> DEFINE f == [r.ballots EXCEPT ![a] = x]
           q == [r EXCEPT !.ballots[a] = x]
<1>1. q = [r EXCEPT !.ballots = f]
  OBVIOUS
<1>2. f \in [r.voters -> Votes] /\ r.voters \subseteq Agents
  BY RoundIs
<1>3. f \in Papers
  BY <1>2 DEF Papers
<1> QED
  BY <1>1, <1>2, <1>3 DEF AllRounds

\* Ballots count the same whatever the status.
LEMMA SameCount ==
    ASSUME NEW r, NEW q, q.voters = r.voters, q.ballots = r.ballots
    PROVE  /\ Complete(q) <=> Complete(r)
           /\ \A x : Carries(q, x) <=> Carries(r, x)
           /\ \A b : Tally(b, q) = Tally(b, r)
BY DEF Complete, Carries, For, Tally

LEMMA EarnedMeans ==
    ASSUME NEW b, NEW r, Earned(b, r)
    PROVE  /\ r.status \in {"APPROVED", "DENIED", "TIED"} => Complete(r)
           /\ r.status = "APPROVED" /\ b \in Failovers => \E a \in Aliases : Carries(r, a)
           /\ r.status = "APPROVED" /\ b \notin Failovers => Carries(r, "yes")
           /\ r.status = "DENIED" => b \notin Failovers /\ Carries(r, "no")
BY DEF Earned, Tally

LEMMA ClosedIsEarned ==
    ASSUME NEW b, NEW r, r.status \in {"SUPERSEDED", "EXPIRED", "CANCELLED"} PROVE Earned(b, r)
BY DEF Earned

LEMMA NewIsEarned ==
    ASSUME NEW b, NEW V \in SUBSET Agents, V # {} PROVE Earned(b, NewRound(V))
<1> DEFINE r == NewRound(V)
<1>1. r.voters = V /\ r.status = "PENDING" /\ \A v \in V : r.ballots[v] = Silent
  BY DEF NewRound
<1> HIDE DEF r
<1>2. ~Complete(r)
  BY <1>1 DEF Complete, For
<1>3. Earned(b, r)
  BY <1>1, <1>2 DEF Earned
<1> QED
  BY <1>3 DEF r

LEMMA TallyIsEarned ==
    ASSUME NEW b, NEW r, r.status = Tally(b, r) PROVE Earned(b, r)
BY DEF Tally, Earned

\* What a submission makes of a round.
LEMMA Submitted ==
    ASSUME NEW b \in Businesses, NEW p \in Principals, NEW r \in AllRounds, r.status = "PENDING",
           NEW a \in r.voters, NEW x \in Votes, r.ballots[a] = Silent
    PROVE  LET q == AfterSubmit(b, p, a, x, r) IN
           /\ q \in AllRounds /\ Earned(b, q) /\ q.voters = r.voters
           /\ q.ballots = r.ballots \/ (Cast(r, q) /\ Pending(b))
<1> DEFINE s == [r EXCEPT !.ballots[a] = x]
           q == AfterSubmit(b, p, a, x, r)
<1>1. CASE ~Valid(p, r)
  <2>1. q = [r EXCEPT !.status = "SUPERSEDED"]
    BY <1>1 DEF AfterSubmit
  <2> HIDE DEF q
  <2>2. q \in AllRounds /\ q.status = "SUPERSEDED" /\ q.voters = r.voters /\ q.ballots = r.ballots
    BY <2>1, Relabelled DEF RoundStatuses
  <2>3. Earned(b, q)
    BY <2>2, ClosedIsEarned
  <2> QED
    BY <2>2, <2>3 DEF q
<1>2. CASE Valid(p, r) /\ ~Pending(b)
  <2>1. q = [r EXCEPT !.status = IF b \in Failovers THEN "EXPIRED" ELSE "CANCELLED"]
    BY <1>2 DEF AfterSubmit
  <2> HIDE DEF q
  <2>2. PICK s1 \in {"EXPIRED", "CANCELLED"} : q = [r EXCEPT !.status = s1]
    BY <2>1
  <2>3. s1 \in RoundStatuses
    BY DEF RoundStatuses
  <2>4. /\ q \in AllRounds /\ q.status = s1
        /\ q.voters = r.voters /\ q.ballots = r.ballots
    BY <2>2, <2>3, Relabelled
  <2>5. Earned(b, q)
    BY <2>4, ClosedIsEarned
  <2> QED
    BY <2>4, <2>5 DEF q
<1>3. CASE Valid(p, r) /\ Pending(b)
  <2>1. q = [s EXCEPT !.status = Tally(b, s)]
    BY <1>3 DEF AfterSubmit
  <2>2. s \in AllRounds /\ s.voters = r.voters /\ s.ballots = [r.ballots EXCEPT ![a] = x]
    BY Balloted
  <2>3. Tally(b, s) \in RoundStatuses
    BY DEF Tally, RoundStatuses
  <2>4. q \in AllRounds /\ q.status = Tally(b, s) /\ q.voters = s.voters /\ q.ballots = s.ballots
    <3> HIDE DEF s, q
    <3> QED
      BY <2>1, <2>2, <2>3, Relabelled
  <2>5. Earned(b, q)
    <3> HIDE DEF s, q
    <3> QED
      BY <2>4, SameCount, TallyIsEarned
  <2>6. Cast(r, q)
    <3> HIDE DEF s, q
    <3> QED
      BY <2>2, <2>4 DEF Cast
  <2> QED
    BY <2>2, <2>4, <2>5, <2>6, <1>3
<1> QED
  BY <1>1, <1>2, <1>3

-----------------------------------------------------------------------------
(* Rows. *)

LEMMA RowSet ==
    ASSUME NEW b, NEW seq, Row(b, seq), seq # <<>>, NEW r \in AllRounds, Earned(b, r)
    PROVE  LET new == [seq EXCEPT ![Len(seq)] = r] IN
           /\ Row(b, new) /\ Len(new) = Len(seq) /\ new[Len(seq)] = r
           /\ Len(seq) \in 1..Len(seq) /\ seq[Len(seq)] \in AllRounds
           /\ \A n \in 1..Len(seq) : n # Len(seq) => new[n] = seq[n]
BY DEF Row

LEMMA ShutRound ==
    ASSUME NEW b, NEW r \in AllRounds, Earned(b, r), NEW q, Shut(r, q)
    PROVE  /\ q \in AllRounds /\ Earned(b, q) /\ q.voters = r.voters /\ q.ballots = r.ballots
           /\ r.status # "PENDING" => q = r
           /\ r.status = "PENDING" => q.status \notin {"APPROVED", "DENIED"}
           /\ q.status = "PENDING" => r.status = "PENDING"
<1>1. CASE q = r
  BY <1>1
<1>2. ASSUME NEW s \in {"SUPERSEDED", "EXPIRED", "CANCELLED"}, r.status = "PENDING",
             q = [r EXCEPT !.status = s]
      PROVE  /\ q \in AllRounds /\ q.status = s /\ q.voters = r.voters /\ q.ballots = r.ballots
             /\ Earned(b, q)
  <2>1. s \in RoundStatuses
    BY <1>2 DEF RoundStatuses
  <2>2. q \in AllRounds /\ q.status = s /\ q.voters = r.voters /\ q.ballots = r.ballots
    BY <1>2, <2>1, Relabelled
  <2>3. Earned(b, q)
    BY <2>2, ClosedIsEarned
  <2> QED
    BY <2>2, <2>3
<1> QED
  BY <1>1, <1>2 DEF Shut

LEMMA ShutRow ==
    ASSUME NEW b, NEW seq, Row(b, seq), NEW new, new = [n \in DOMAIN seq |-> new[n]],
           \A n \in 1..Len(seq) : Shut(seq[n], new[n])
    PROVE  Row(b, new) /\ Len(new) = Len(seq)
<1>1. seq \in Seq(AllRounds) /\ DOMAIN seq = 1..Len(seq) /\ Len(seq) \in Nat
  BY DEF Row
<1>2. ASSUME NEW n \in 1..Len(seq)
      PROVE  new[n] \in AllRounds /\ Earned(b, new[n]) /\ (n < Len(seq) => new[n].status # "PENDING")
  BY <1>1, ShutRound DEF Row
<1>3. new = [n \in 1..Len(seq) |-> new[n]]
  BY <1>1
<1>4. new \in Seq(AllRounds) /\ Len(new) = Len(seq)
  BY <1>1, <1>2, <1>3
<1> QED
  BY <1>2, <1>4 DEF Row

LEMMA SupersededRow ==
    ASSUME NEW b, NEW seq, Row(b, seq)
    PROVE  LET new == Superseded(seq) IN
           /\ Row(b, new) /\ Len(new) = Len(seq)
           /\ \A n \in 1..Len(seq) : Shut(seq[n], new[n]) /\ new[n].status # "PENDING"
<1> DEFINE at(n) == IF n = Len(seq) /\ seq[n].status = "PENDING"
                    THEN [seq[n] EXCEPT !.status = "SUPERSEDED"] ELSE seq[n]
           new == Superseded(seq)
<1>1. \A n \in 1..Len(seq) : Shut(seq[n], at(n))
  BY DEF Shut
<1>2. new = [n \in DOMAIN seq |-> at(n)]
  BY DEF Superseded
<1>3. ASSUME NEW n \in 1..Len(seq) PROVE at(n).status # "PENDING"
  <2>1. seq[n] \in AllRounds /\ Len(seq) \in Nat /\ (n < Len(seq) => seq[n].status # "PENDING")
    BY DEF Row
  <2>2. n = Len(seq) \/ n < Len(seq)
    BY <2>1, Below
  <2>3. seq[n].status = "PENDING" => at(n) = [seq[n] EXCEPT !.status = "SUPERSEDED"]
    BY <2>1, <2>2
  <2>4. "SUPERSEDED" \in RoundStatuses
    BY DEF RoundStatuses
  <2>5. seq[n].status # "PENDING" => at(n) = seq[n]
    OBVIOUS
  <2> HIDE DEF at
  <2> QED
    BY <2>1, <2>3, <2>4, <2>5, Relabelled
<1>4. DOMAIN seq = 1..Len(seq)
  BY DEF Row
<1> HIDE DEF at, new
<1>5. new = [n \in DOMAIN seq |-> new[n]] /\ \A n \in 1..Len(seq) : new[n] = at(n)
  BY <1>2, <1>4
<1>6. Row(b, new) /\ Len(new) = Len(seq)
  BY <1>1, <1>5, ShutRow
<1> QED
  BY <1>1, <1>3, <1>5, <1>6 DEF new

LEMMA RowAppend ==
    ASSUME NEW b, NEW seq, Row(b, seq), NEW V \in SUBSET Agents, V # {}
    PROVE  LET new == Append(Superseded(seq), NewRound(V)) IN
           /\ Row(b, new) /\ Len(new) = Len(seq) + 1
           /\ new[Len(seq) + 1] = NewRound(V)
           /\ \A n \in 1..Len(seq) : new[n] = Superseded(seq)[n]
<1> DEFINE old == Superseded(seq)
           r == NewRound(V)
<1>1. Row(b, old) /\ Len(old) = Len(seq) /\ \A n \in 1..Len(seq) : old[n].status # "PENDING"
  BY SupersededRow
<1>2. r \in AllRounds /\ Earned(b, r)
  <2>1. [v \in V |-> Silent] \in [V -> Votes]
    BY DEF Votes
  <2> QED
    BY <2>1, RoundIsMade, NewIsEarned DEF NewRound, RoundStatuses
<1> HIDE DEF old, r
<1>3. old \in Seq(AllRounds) /\ Len(old) \in Nat
  BY <1>1 DEF Row
<1>4. Append(old, r) \in Seq(AllRounds) /\ Len(Append(old, r)) = Len(old) + 1
      /\ Append(old, r)[Len(old) + 1] = r /\ \A n \in 1..Len(old) : Append(old, r)[n] = old[n]
  BY <1>2, <1>3
<1>5. Row(b, Append(old, r))
  BY <1>1, <1>2, <1>3, <1>4 DEF Row
<1> QED
  BY <1>1, <1>4, <1>5 DEF old, r

LEMMA SetRow ==
    ASSUME Rows, NEW b \in Businesses, NEW p \in Principals, NEW seq, Row(b, seq),
           rounds' = [rounds EXCEPT ![b][p] = seq]
    PROVE  /\ Rows' /\ rounds'[b][p] = seq
           /\ \A x \in Businesses, q \in Principals : x # b \/ q # p => rounds'[x][q] = rounds[x][q]
<1>1. seq \in Seq(AllRounds) /\ rounds \in [Businesses -> [Principals -> Seq(AllRounds)]]
  BY DEF Row, Rows
<1>2. /\ rounds' \in [Businesses -> [Principals -> Seq(AllRounds)]] /\ rounds'[b][p] = seq
      /\ \A x \in Businesses, q \in Principals : x # b \/ q # p => rounds'[x][q] = rounds[x][q]
  BY <1>1
<1>3. ASSUME NEW x \in Businesses, NEW q \in Principals PROVE Row(x, rounds'[x][q])
  BY <1>2 DEF Rows
<1> QED
  BY <1>2, <1>3 DEF Rows

LEMMA SetRoundRow ==
    ASSUME Rows, NEW b \in Businesses, NEW p \in Principals, HasRound(b, p),
           NEW r \in AllRounds, Earned(b, r), SetRound(b, p, Number(b, p), r)
    PROVE  /\ Rows' /\ HasRound(b, p)' /\ Number(b, p)' = Number(b, p) /\ Latest(b, p)' = r
           /\ \A x \in Businesses, q \in Principals : x # b \/ q # p => rounds'[x][q] = rounds[x][q]
           /\ rounds'[b][p] = [rounds[b][p] EXCEPT ![Number(b, p)] = r]
<1> DEFINE seq == rounds[b][p]
           new == [seq EXCEPT ![Len(seq)] = r]
<1>1. Row(b, seq) /\ seq # <<>> /\ rounds \in [Businesses -> [Principals -> Seq(AllRounds)]]
  BY DEF Rows, HasRound
<1>2. Row(b, new) /\ Len(new) = Len(seq) /\ new[Len(seq)] = r /\ Len(seq) \in 1..Len(seq)
  BY <1>1, RowSet
<1>3. rounds' = [rounds EXCEPT ![b][p] = new]
  BY <1>1 DEF SetRound, Number
<1> HIDE DEF new
<1>4. Rows' /\ rounds'[b][p] = new
      /\ \A x \in Businesses, q \in Principals : x # b \/ q # p => rounds'[x][q] = rounds[x][q]
  BY <1>2, <1>3, SetRow
<1>5. new # <<>>
  BY <1>2
<1> QED
  BY <1>2, <1>4, <1>5 DEF HasRound, Number, Latest, new

LEMMA RowsStay == ASSUME Rows, UNCHANGED rounds PROVE Rows'
BY DEF Rows

LEMMA CommitsStay ==
    ASSUME Commits, UNCHANGED rounds, commit' \subseteq commit,
           \A c \in commit' : c.op = "create" => c.job \in jobs',
           \A c \in commit' : c.op = "approve" => UNCHANGED <<dealing, routes>>
    PROVE  Commits'
<1>1. ASSUME NEW c \in commit' PROVE Committed(c)'
  <2>1. Committed(c)
    BY DEF Commits
  <2>2. c.op = "create" => Creating(c)'
    BY <2>1 DEF Committed, Creating
  <2>3. c.op = "submit" => Submitting(c)'
    BY <2>1 DEF Committed, Submitting, HasRound, Number, Latest
  <2>4. c.op = "migrate" => Migrating(c)'
    BY <2>1 DEF Committed, Migrating
  <2>5. c.op = "approve" => Completing(c)'
    BY <2>1 DEF Committed, Completing
  <2> QED
    BY <2>1, <2>2, <2>3, <2>4, <2>5 DEF Committed
<1> QED
  BY <1>1 DEF Commits

-----------------------------------------------------------------------------
(* Tasks. *)

Phases == {"ready", "talking", "claimed", "decided", "undecided", "releasing", "expiring"}
JobKinds == {"prepare", "approve", "failover", "resolve", "call"}

LEMMA JobIs ==
    ASSUME NEW j \in AllJobs
    PROVE  /\ j.kind \in JobKinds /\ j.b \in Businesses
           /\ j.p \in Principals /\ j.n \in Nat /\ j.phase \in Phases /\ j.snap \subseteq Agents
BY DEF AllJobs, Phases, JobKinds

LEMMA JobMade ==
    ASSUME NEW kind \in JobKinds, NEW b \in Businesses,
           NEW p \in Principals, NEW n \in Nat, NEW phase \in Phases, NEW snap \in SUBSET Agents
    PROVE  LET j == Job(kind, b, p, n, phase, snap) IN
           /\ j \in AllJobs
           /\ j.kind = kind /\ j.b = b /\ j.p = p /\ j.n = n /\ j.phase = phase /\ j.snap = snap
BY DEF Job, AllJobs, Phases, JobKinds

\* A task in another phase, perhaps of another round.
Later(j, k, phase) ==
    k.kind = j.kind /\ k.b = j.b /\ k.p = j.p /\ k.phase = phase

LEMMA Rephased ==
    ASSUME NEW j \in AllJobs, NEW phase \in Phases
    PROVE  LET k == [j EXCEPT !.phase = phase] IN
           k \in AllJobs /\ Later(j, k, phase) /\ k.n = j.n
BY DEF AllJobs, Phases, Later

LEMMA Renumbered ==
    ASSUME NEW j \in AllJobs, NEW phase \in Phases, NEW n \in Nat
    PROVE  /\ LET k == [j EXCEPT !.n = n, !.phase = phase] IN
              k \in AllJobs /\ Later(j, k, phase) /\ k.n = n
           /\ LET k == [j EXCEPT !.phase = phase, !.n = n] IN
              k \in AllJobs /\ Later(j, k, phase) /\ k.n = n
BY DEF AllJobs, Phases, Later

LEMMA Advanced ==
    ASSUME Tasks, NEW j \in jobs, NEW k \in AllJobs, Tasked(k), Advance(j, k)
    PROVE  Tasks'
BY DEF Tasks, Advance

LEMMA Finished == ASSUME Tasks, NEW j, Finish(j) PROVE Tasks'
BY DEF Tasks, Finish

\* A step that leaves the rounds, and what is being committed of them, alone.
LEMMA IdleShape ==
    ASSUME Shaped, Plain', Tasks', Records', UNCHANGED rounds, commit' \subseteq commit,
           \A c \in commit' : c.op = "create" => c.job \in jobs',
           \A c \in commit' : c.op = "approve" => UNCHANGED <<dealing, routes>>
    PROVE  Shaped'
BY CommitsStay, RowsStay DEF Shaped

LEMMA RecordsStay == ASSUME Records, UNCHANGED <<plans, routes, approval, notes, agreement, dealing>> PROVE Records'
BY DEF Records

LEMMA Spending == 
    ASSUME Plain, UNCHANGED <<members, standing, mail, limit>>,
           UNCHANGED spent \/ Fail \/ Cancel \/ spent' = [spent EXCEPT !.rounds = @ + 1]
                           \/ spent' = [spent EXCEPT !.changes = @ + 1]
    PROVE  Plain'
BY DEF Plain, Bounds, Fail, Cancel

-----------------------------------------------------------------------------
(* The steps of Governance. *)

LEMMA CreateReturnsShape ==
    ASSUME Shaped, UNCHANGED <<migVars, brokerVars, limit>>, NEW j \in jobs, CreateReturns(j)
    PROVE  Shaped'
<1>1. /\ j \in AllJobs /\ Tasked(j) /\ AtCreate(j) /\ commit = {}
      /\ UNCHANGED <<members, standing, rounds, mail, commit, spent>>
      /\ UNCHANGED <<plans, routes, approval, notes, agreement, dealing>>
  BY DEF CreateReturns, Shaped, Tasks, Unlocked, migVars, brokerVars
<1>2. j.kind \in {"approve", "prepare", "failover"}
  BY <1>1 DEF AtCreate
<1>3. Number(j.b, j.p) \in Nat
  BY <1>1, JobIs DEF Number, Shaped, Rows
<1>4. PICK k, ph : /\ Advance(j, k) /\ ph \in {"decided", "undecided"}
                   /\ \/ ph = "undecided" /\ k = [j EXCEPT !.phase = ph]
                      \/ /\ HasRound(j.b, j.p)
                         /\ k = [j EXCEPT !.n = Number(j.b, j.p), !.phase = ph]
  BY DEF CreateReturns, Existing
<1>5. k \in AllJobs /\ Later(j, k, ph) /\ (ph = "decided" => k.n > 0)
  <2>1. ph \in Phases
    BY <1>4 DEF Phases
  <2>2. CASE ph = "undecided" /\ k = [j EXCEPT !.phase = ph]
    BY <1>1, <2>1, <2>2, Rephased, SMTT(60)
  <2>3. CASE HasRound(j.b, j.p) /\ k = [j EXCEPT !.n = Number(j.b, j.p), !.phase = ph]
    <3>1. Number(j.b, j.p) > 0
      BY <1>1, <2>3, JobIs DEF HasRound, Number, Shaped, Rows
    <3> QED
      BY <1>1, <1>3, <2>1, <2>3, <3>1, Renumbered
  <2> QED
    BY <1>4, <2>2, <2>3
<1>6. Tasked(k)
  BY <1>1, <1>2, <1>4, <1>5 DEF Tasked, Later
<1>7. Tasks'
  BY <1>4, <1>5, <1>6, Advanced DEF Shaped
<1>8. Plain' /\ Records'
  BY <1>1, Spending, RecordsStay DEF Shaped
<1> QED
  BY <1>1, <1>7, <1>8, IdleShape

LEMMA CreateRoundShape ==
    ASSUME Shaped, UNCHANGED <<migVars, brokerVars, limit>>, NEW j \in jobs, CreateRound(j)
    PROVE  Shaped'
<1> DEFINE b == j.b
           p == j.p
           vs == VotersOf(j)
           row == Append(Superseded(rounds[b][p]), NewRound(vs))
<1>1. /\ j \in AllJobs /\ AtCreate(j) /\ ~Refused(b, p, vs) /\ commit = {}
      /\ spent' = [spent EXCEPT !.rounds = @ + 1]
      /\ rounds' = [rounds EXCEPT ![b][p] = Append(Superseded(@), NewRound(vs))]
      /\ mail' = mail \cup {<<b, p, Number(b, p) + 1, v>> : v \in vs}
      /\ commit' = {[op |-> "create", b |-> b, p |-> p, job |-> j, undo |-> rounds[b][p]]}
      /\ UNCHANGED <<members, standing, jobs, limit>>
      /\ UNCHANGED <<plans, routes, approval, notes, agreement, dealing>>
  BY DEF CreateRound, Shaped, Tasks, Unlocked, migVars, brokerVars
<1>2. b \in Businesses /\ p \in Principals /\ vs \subseteq Agents /\ vs # {}
  <2>1. b \in Businesses /\ p \in Principals /\ j.snap \subseteq Agents
    BY <1>1, JobIs
  <2> QED
    BY <2>1, <1>1, GovernanceAssumption DEF VotersOf, Refused
<1>3. Row(b, rounds[b][p])
  BY <1>2 DEF Shaped, Rows
<1>4. Row(b, row)
  BY <1>2, <1>3, RowAppend
<1>5. rounds' = [rounds EXCEPT ![b][p] = row]
  <2>1. rounds \in [Businesses -> [Principals -> Seq(AllRounds)]]
    BY DEF Shaped, Rows
  <2> QED
    BY <1>1, <1>2, <2>1
<1> HIDE DEF row
<1>6. Rows' /\ rounds'[b][p] = row
  <2>1. Rows
    BY DEF Shaped
  <2> HIDE DEF b, p
  <2> QED
    BY <1>2, <1>4, <1>5, <2>1, SetRow, ZenonT(60)
<1>7. Number(b, p) + 1 \in Nat
  BY <1>3 DEF Row, Number
<1>8. Plain'
  <2>1. mail' \subseteq Businesses \X Principals \X Nat \X Agents
    BY <1>1, <1>2, <1>7 DEF Shaped, Plain
  <2>2. spent' \in Bounds
    BY <1>1 DEF Shaped, Plain, Bounds
  <2> QED
    BY <1>1, <2>1, <2>2 DEF Shaped, Plain
<1>9. Tasks' /\ Records'
  BY <1>1, RecordsStay DEF Shaped, Tasks
<1>10. Commits'
  <2>1. PICK c : c = [op |-> "create", b |-> b, p |-> p, job |-> j, undo |-> rounds[b][p]]
    OBVIOUS
  <2>2. c.op = "create" /\ c.b = b /\ c.p = p /\ c.job = j /\ c.undo = rounds[b][p]
    BY <2>1
  <2>3. Creating(c)'
    <3>1. rounds'[c.b][c.p] = Append(Superseded(c.undo), NewRound(VotersOf(c.job)))
      BY <1>6, <2>2 DEF row
    <3> QED
      BY <1>1, <1>2, <1>3, <2>2, <3>1 DEF Creating
  <2> QED
    BY <1>1, <2>1, <2>2, <2>3 DEF Commits, Committed
<1> QED
  BY <1>6, <1>8, <1>9, <1>10 DEF Shaped

LEMMA CreateOkShape ==
    ASSUME Shaped, UNCHANGED <<migVars, brokerVars, limit>>, CreateOk PROVE Shaped'
<1>1. PICK c \in commit :
        /\ c.op = "create" /\ commit' = {}
        /\ Advance(c.job, [c.job EXCEPT !.phase = "undecided", !.n = Number(c.b, c.p)])
        /\ UNCHANGED <<members, standing, rounds, mail, chosen, spent>>
  BY DEF CreateOk
<1>2. /\ c.job \in jobs /\ c.job \in AllJobs /\ Tasked(c.job) /\ AtCreate(c.job)
      /\ c.b = c.job.b /\ c.p = c.job.p
  BY <1>1 DEF Shaped, Commits, Committed, Creating, Tasks
<1>3. Number(c.b, c.p) \in Nat
  BY <1>2, JobIs, SMTT(60) DEF Number, Shaped, Rows
<1>4. PICK k : k = [c.job EXCEPT !.phase = "undecided", !.n = Number(c.b, c.p)]
  OBVIOUS
<1>5. k \in AllJobs /\ Later(c.job, k, "undecided")
  <2>1. "undecided" \in Phases
    BY DEF Phases
  <2> QED
    BY <1>2, <1>3, <1>4, <2>1, Renumbered
<1>6. Tasked(k)
  BY <1>2, <1>5 DEF Tasked, Later, AtCreate
<1>7. Tasks'
  BY <1>1, <1>2, <1>4, <1>5, <1>6, Advanced DEF Shaped
<1>8. Plain' /\ Records'
  BY <1>1, Spending, RecordsStay DEF Shaped, migVars, brokerVars
<1> QED
  BY <1>1, <1>7, <1>8, IdleShape

LEMMA CreateFailsShape ==
    ASSUME Shaped, UNCHANGED <<migVars, brokerVars, limit>>, CreateFails PROVE Shaped'
<1>1. PICK c \in commit :
        /\ c.op = "create" /\ Fail /\ commit' = {}
        /\ rounds' = [rounds EXCEPT ![c.b][c.p] = c.undo]
        /\ mail' = Recall(c)
        /\ IF c.job.kind = "approve"
           THEN Advance(c.job, [c.job EXCEPT !.phase = "undecided"])
           ELSE Finish(c.job)
        /\ UNCHANGED <<members, standing, chosen>>
  BY DEF CreateFails
<1>2. /\ c.job \in jobs /\ c.job \in AllJobs /\ Tasked(c.job) /\ AtCreate(c.job)
      /\ c.b = c.job.b /\ c.p = c.job.p /\ Row(c.b, c.undo)
  BY <1>1 DEF Shaped, Commits, Committed, Creating, Tasks
<1>3. c.b \in Businesses /\ c.p \in Principals
  BY <1>2, JobIs
<1>4. Rows'
  BY <1>1, <1>2, <1>3, SetRow DEF Shaped
<1>5. PICK k : k = [c.job EXCEPT !.phase = "undecided"]
  OBVIOUS
<1>6. k \in AllJobs /\ Later(c.job, k, "undecided")
  <2>1. "undecided" \in Phases
    BY DEF Phases
  <2> QED
    BY <1>2, <1>5, <2>1, Rephased
<1>7. Tasked(k)
  BY <1>2, <1>6 DEF Tasked, Later, AtCreate
<1>8. Tasks'
  BY <1>1, <1>2, <1>5, <1>6, <1>7, Advanced, Finished DEF Shaped
<1>9. Plain'
  <2>1. mail' \subseteq mail
    BY <1>1 DEF Recall
  <2> QED
    BY <1>1, <2>1 DEF Shaped, Plain, Fail, Bounds
<1>10. Records' /\ Commits'
  BY <1>1, RecordsStay DEF Shaped, migVars, brokerVars, Commits
<1> QED
  BY <1>4, <1>8, <1>9, <1>10 DEF Shaped

LEMMA SubmitShape ==
    ASSUME Shaped, UNCHANGED <<migVars, brokerVars, limit>>,
           NEW b \in Businesses, NEW p \in Principals, NEW a \in Agents,
           NEW n \in DOMAIN rounds[b][p], NEW x \in Choices(b), Submit(a, b, p, n, x)
    PROVE  /\ Shaped' /\ n = Number(b, p) /\ HasRound(b, p)
           /\ rounds'[b][p] = [rounds[b][p] EXCEPT ![n] = AfterSubmit(b, p, a, x, rounds[b][p][n])]
           /\ \A y \in Businesses, q \in Principals : y # b \/ q # p => rounds'[y][q] = rounds[y][q]
<1> DEFINE r == rounds[b][p][n]
           new == AfterSubmit(b, p, a, x, r)
<1>1. /\ commit = {} /\ a \in r.voters /\ r.ballots[a] = Silent /\ r.status = "PENDING"
      /\ SetRound(b, p, n, new)
      /\ commit' = {[op |-> "submit", b |-> b, p |-> p, n |-> n, undo |-> r]}
      /\ UNCHANGED <<members, standing, mail, jobs, chosen, spent>>
  BY DEF Submit, Unlocked
<1>2. Row(b, rounds[b][p]) /\ rounds[b][p] \in Seq(AllRounds)
  BY DEF Shaped, Rows
<1>3. /\ n \in 1..Len(rounds[b][p]) /\ r \in AllRounds /\ Len(rounds[b][p]) \in Nat
      /\ rounds[b][p] # <<>> /\ Earned(b, r)
  BY <1>2 DEF Row
<1>4. n = Number(b, p) /\ HasRound(b, p) /\ r = Latest(b, p)
  <2>1. n = Len(rounds[b][p])
    BY <1>1, <1>2, <1>3, Below DEF Row
  <2> QED
    BY <1>3, <2>1 DEF HasRound, Number, Latest
<1>5. x \in Votes
  BY DEF Votes, Choices
<1>6. /\ new \in AllRounds /\ Earned(b, new) /\ new.voters = r.voters
      /\ new.ballots = r.ballots \/ Cast(r, new)
  BY <1>1, <1>3, <1>5, Submitted
<1> HIDE DEF new
<1>7. /\ Rows' /\ HasRound(b, p)' /\ Number(b, p)' = n /\ Latest(b, p)' = new
      /\ \A y \in Businesses, q \in Principals : y # b \/ q # p => rounds'[y][q] = rounds[y][q]
      /\ rounds'[b][p] = [rounds[b][p] EXCEPT ![n] = new]
  BY <1>1, <1>4, <1>6, SetRoundRow DEF Shaped
<1>8. Commits'
  <2>1. PICK c : c = [op |-> "submit", b |-> b, p |-> p, n |-> n, undo |-> r]
    OBVIOUS
  <2>2. c.op = "submit" /\ c.b = b /\ c.p = p /\ c.n = n /\ c.undo = r
    BY <2>1
  <2>3. Submitting(c)'
    BY <1>1, <1>3, <1>6, <1>7, <2>2 DEF Submitting
  <2> QED
    BY <1>1, <2>1, <2>2, <2>3 DEF Commits, Committed
<1>9. Plain' /\ Tasks' /\ Records'
  BY <1>1, Spending, RecordsStay DEF Shaped, Tasks, migVars, brokerVars
<1>10. Shaped'
  BY <1>7, <1>8, <1>9 DEF Shaped
<1> QED
  BY <1>4, <1>7, <1>10 DEF new

LEMMA ResolutionsAre ==
    ASSUME NEW c, c.b \in Businesses, c.p \in Principals, c.n \in Nat, c.n > 0,
           NEW j \in Resolutions(c)
    PROVE  /\ j = Job("resolve", c.b, c.p, c.n, "ready", {}) /\ c.b \notin Failovers
           /\ rounds[c.b][c.p][c.n].status \in {"APPROVED", "DENIED"}
           /\ j \in AllJobs /\ Tasked(j) /\ j.b = c.b /\ j.p = c.p /\ j.n = c.n /\ j.kind = "resolve"
           /\ j.phase = "ready"
<1>1. /\ j = Job("resolve", c.b, c.p, c.n, "ready", {}) /\ c.b \notin Failovers
      /\ rounds[c.b][c.p][c.n].status \in {"APPROVED", "DENIED"}
  BY DEF Resolutions, Tracked
<1>2. /\ j \in AllJobs /\ j.b = c.b /\ j.kind = "resolve" /\ j.phase = "ready"
      /\ j.p = c.p /\ j.n = c.n
  <2>1. "ready" \in Phases
    BY DEF Phases
  <2> QED
    BY <1>1, <2>1, JobMade DEF JobKinds
<1> QED
  BY <1>1, <1>2 DEF Tasked

LEMMA SubmitOkShape ==
    ASSUME Shaped, UNCHANGED <<migVars, brokerVars, limit>>, SubmitOk PROVE Shaped'
<1>1. PICK c \in commit :
        /\ c.op = "submit" /\ commit' = {} /\ jobs' = jobs \cup Resolutions(c)
        /\ UNCHANGED <<members, standing, rounds, mail, chosen, spent>>
  BY DEF SubmitOk
<1>2. c.b \in Businesses /\ c.p \in Principals /\ c.n = Number(c.b, c.p) /\ HasRound(c.b, c.p)
  BY <1>1 DEF Shaped, Commits, Committed, Submitting
<1>3. c.n \in Nat /\ c.n > 0
  BY <1>2 DEF Shaped, Rows, Number, HasRound
<1>4. Tasks'
  BY <1>1, <1>2, <1>3, ResolutionsAre DEF Shaped, Tasks
<1>5. Plain' /\ Records'
  BY <1>1, Spending, RecordsStay DEF Shaped, migVars, brokerVars
<1> QED
  BY <1>1, <1>4, <1>5, IdleShape

LEMMA SubmitFailsShape ==
    ASSUME Shaped, UNCHANGED <<migVars, brokerVars, limit>>, SubmitFails PROVE Shaped'
<1>1. PICK c \in commit :
        /\ c.op = "submit" /\ Fail /\ commit' = {}
        /\ SetRound(c.b, c.p, c.n, c.undo)
        /\ UNCHANGED <<members, standing, mail, jobs, chosen>>
  BY DEF SubmitFails
<1>2. /\ c.b \in Businesses /\ c.p \in Principals /\ c.n = Number(c.b, c.p) /\ HasRound(c.b, c.p)
      /\ c.undo \in AllRounds /\ c.undo.status = "PENDING" /\ Earned(c.b, c.undo)
  BY <1>1 DEF Shaped, Commits, Committed, Submitting
<1>4. Rows'
  BY <1>1, <1>2, SetRoundRow DEF Shaped
<1>5. Plain' /\ Tasks' /\ Records' /\ Commits'
  BY <1>1, Spending, RecordsStay DEF Shaped, Tasks, Commits, migVars, brokerVars
<1> QED
  BY <1>4, <1>5 DEF Shaped

LEMMA FailoverShape ==
    ASSUME Shaped, UNCHANGED <<migVars, brokerVars, limit>>
    PROVE  /\ \A f \in Failovers : StartFailover(f) => Shaped'
           /\ \A f \in Failovers : Deadline(f) => Shaped'
           /\ \A j \in jobs : FailoverDecided(j) => Shaped'
           /\ \A j \in jobs : TalkFails(j) => Shaped'
           /\ \A x \in Recruits : ChangeMembers(x[1], x[2]) => Shaped'
<1>0. Records' /\ UNCHANGED <<dealing, routes>> /\ limit' \in Bounds
  BY RecordsStay DEF Shaped, Plain, migVars, brokerVars
<1>1. ASSUME NEW f \in Failovers, StartFailover(f) PROVE Shaped'
  <2>1. /\ standing' = [standing EXCEPT ![f] = "PENDING"]
        /\ jobs' = jobs \cup {Job("failover", f, Overseer, 0, "talking", members[Overseer])}
        /\ UNCHANGED <<members, rounds, mail, commit, chosen, spent>>
    BY <1>1 DEF StartFailover
  <2>2. PICK j : j = Job("failover", f, Overseer, 0, "talking", members[Overseer])
    OBVIOUS
  <2>3. /\ j \in AllJobs /\ j.kind = "failover" /\ j.b = f /\ j.p = Overseer /\ j.phase = "talking"
    <3>1. /\ f \in Businesses /\ Overseer \in Principals /\ "talking" \in Phases
          /\ members[Overseer] \in SUBSET Agents
      BY GovernanceAssumption DEF Businesses, Principals, Phases, Shaped, Plain
    <3> QED
      BY <2>2, <3>1, JobMade DEF JobKinds
  <2>4. Tasked(j)
    BY <2>3 DEF Tasked
  <2>5. Tasks'
    BY <2>1, <2>2, <2>3, <2>4 DEF Shaped, Tasks
  <2>6. Plain'
    <3>1. standing' \in [Businesses -> Standings]
      BY <2>1 DEF Shaped, Plain, Standings
    <3> QED
      BY <1>0, <2>1, <3>1 DEF Shaped, Plain
  <2>7. \A c \in commit : c.op = "create" => c.job \in jobs'
    BY <2>1 DEF Shaped, Commits, Committed, Creating
  <2> QED
    BY <1>0, <2>1, <2>5, <2>6, <2>7, IdleShape
<1>2. ASSUME NEW f \in Failovers, Deadline(f) PROVE Shaped'
  <2>1. /\ standing' = [standing EXCEPT ![f] = "ENDED"]
        /\ UNCHANGED <<members, rounds, mail, commit, jobs, chosen, spent>>
    BY <1>2 DEF Deadline
  <2>2. Plain'
    <3>1. standing' \in [Businesses -> Standings]
      BY <2>1 DEF Shaped, Plain, Standings
    <3> QED
      BY <1>0, <2>1, <3>1 DEF Shaped, Plain
  <2>3. Tasks' /\ \A c \in commit : c.op = "create" => c.job \in jobs'
    BY <2>1 DEF Shaped, Tasks, Commits, Committed, Creating
  <2> QED
    BY <1>0, <2>1, <2>2, <2>3, IdleShape
<1>3. ASSUME NEW j \in jobs, FailoverDecided(j) PROVE Shaped'
  <2>1. /\ j.kind = "failover" /\ j.phase \in {"decided", "undecided"} /\ Finish(j)
        /\ UNCHANGED <<members, standing, rounds, mail, commit, spent>>
    BY <1>3 DEF FailoverDecided
  <2>2. \A c \in commit : c.op = "create" => c.job \in jobs'
    BY <2>1 DEF Shaped, Commits, Committed, Creating, AtCreate, Finish
  <2>3. Tasks' /\ Plain'
    BY <1>0, <2>1, Finished DEF Shaped, Plain
  <2> QED
    BY <1>0, <2>1, <2>2, <2>3, IdleShape
<1>4. ASSUME NEW j \in jobs, TalkFails(j) PROVE Shaped'
  <2>1. /\ j.phase = "talking" /\ Finish(j) /\ Fail
        /\ ~\E c \in commit : c.op = "create" /\ c.job = j
        /\ UNCHANGED <<members, standing, rounds, mail, commit, chosen>>
    BY <1>4 DEF TalkFails
  <2>2. \A c \in commit : c.op = "create" => c.job \in jobs'
    BY <2>1 DEF Shaped, Commits, Committed, Creating, Finish
  <2>3. Tasks' /\ Plain'
    BY <1>0, <2>1, Finished, Spending DEF Shaped
  <2> QED
    BY <1>0, <2>1, <2>2, <2>3, IdleShape
<1>5. ASSUME NEW x \in Recruits, ChangeMembers(x[1], x[2]) PROVE Shaped'
  <2>1. x[1] \in Teams /\ x[2] \in Agents
    BY GovernanceAssumption
  <2>2. /\ members' = [members EXCEPT ![x[1]] = IF x[2] \in @ THEN @ \ {x[2]} ELSE @ \cup {x[2]}]
        /\ spent' = [spent EXCEPT !.changes = @ + 1]
        /\ UNCHANGED <<standing, rounds, mail, commit, jobs, chosen>>
    BY <1>5 DEF ChangeMembers
  <2>3. members' \in [Teams -> SUBSET Agents]
    BY <2>1, <2>2 DEF Shaped, Plain
  <2>4. Plain'
    <3>1. spent' \in Bounds
      BY <2>2 DEF Shaped, Plain, Bounds
    <3> QED
      BY <1>0, <2>2, <2>3, <3>1 DEF Shaped, Plain
  <2>5. Tasks' /\ \A c \in commit : c.op = "create" => c.job \in jobs'
    BY <2>2 DEF Shaped, Tasks, Commits, Committed, Creating
  <2> QED
    BY <1>0, <2>2, <2>4, <2>5, IdleShape
<1> QED
  BY <1>1, <1>2, <1>3, <1>4, <1>5

LEMMA FailoverEndsShape ==
    ASSUME Shaped, UNCHANGED <<migVars, brokerVars, limit>>, NEW j \in jobs, FailoverEnds(j)
    PROVE  Shaped'
<1>1. /\ j \in AllJobs /\ Tasked(j) /\ j.kind = "failover"
      /\ commit' = {c \in commit : ~(c.op = "create" /\ c.job = j)}
      /\ IF LatestIs(j.b, j.p, "PENDING") THEN Advance(j, [j EXCEPT !.phase = "expiring"])
         ELSE Finish(j)
      /\ UNCHANGED <<members, standing, rounds, mail, chosen, spent>>
  BY DEF FailoverEnds, Shaped, Tasks
<1>2. PICK k : k = [j EXCEPT !.phase = "expiring"]
  OBVIOUS
<1>3. k \in AllJobs /\ Later(j, k, "expiring")
  <2>1. "expiring" \in Phases
    BY DEF Phases
  <2> QED
    BY <1>1, <1>2, <2>1, Rephased
<1>4. Tasked(k)
  BY <1>1, <1>3 DEF Tasked, Later
<1>5. Tasks'
  BY <1>1, <1>2, <1>3, <1>4, Advanced, Finished DEF Shaped
<1>6. Plain' /\ Records' /\ UNCHANGED <<dealing, routes>>
  BY <1>1, Spending, RecordsStay DEF Shaped, migVars, brokerVars
<1>7. ASSUME NEW c \in commit', c.op = "create" PROVE c.job \in jobs'
  <2>1. c.job \in jobs /\ c.job # j
    BY <1>1, <1>7 DEF Shaped, Commits, Committed, Creating
  <2> QED
    BY <1>1, <2>1 DEF Advance, Finish
<1> QED
  BY <1>1, <1>5, <1>6, <1>7, IdleShape

LEMMA ExpireShape ==
    ASSUME Shaped, UNCHANGED <<migVars, brokerVars, limit>>, NEW j \in jobs, Expire(j)
    PROVE  /\ Shaped'
           /\ LatestIs(j.b, j.p, "PENDING") =>
                /\ HasRound(j.b, j.p)' /\ Number(j.b, j.p)' = Number(j.b, j.p)
                /\ Latest(j.b, j.p)' = [Latest(j.b, j.p) EXCEPT !.status = "EXPIRED"]
                /\ \A x \in Businesses, q \in Principals : x # j.b \/ q # j.p => rounds'[x][q] = rounds[x][q]
                /\ rounds'[j.b][j.p] = [rounds[j.b][j.p] EXCEPT ![Number(j.b, j.p)] = Latest(j.b, j.p)']
<1> DEFINE b == j.b
           p == j.p
           r == Latest(b, p)
<1>1. /\ j \in AllJobs /\ commit = {} /\ Finish(j)
      /\ UNCHANGED <<members, standing, mail, chosen, spent>>
  BY DEF Expire, Unlocked, Shaped, Tasks
<1>2. b \in Businesses /\ p \in Principals
  BY <1>1, JobIs
<1>3. Plain' /\ Records' /\ Tasks'
  BY <1>1, Spending, RecordsStay, Finished DEF Shaped, migVars, brokerVars
<1>4. CASE ~LatestIs(b, p, "PENDING")
  <2>1. UNCHANGED <<rounds, commit>>
    BY <1>4 DEF Expire
  <2> QED
    BY <1>1, <1>3, <1>4, <2>1, IdleShape
<1>5. CASE LatestIs(b, p, "PENDING")
  <2>1. /\ SetRound(b, p, Number(b, p), [r EXCEPT !.status = "EXPIRED"])
        /\ commit' = {[op |-> "submit", b |-> b, p |-> p, n |-> Number(b, p), undo |-> r]}
    BY <1>5 DEF Expire
  <2>2. HasRound(b, p) /\ r.status = "PENDING" /\ Row(b, rounds[b][p])
    BY <1>2, <1>5 DEF LatestIs, Shaped, Rows
  <2>3. r \in AllRounds /\ Earned(b, r)
    <3>1. Len(rounds[b][p]) \in 1..Len(rounds[b][p]) /\ rounds[b][p] \in Seq(AllRounds)
      BY <2>2 DEF Row, HasRound
    <3> QED
      BY <2>2, <3>1 DEF Row, Latest, Number
  <2>4. PICK q : q = [r EXCEPT !.status = "EXPIRED"]
    OBVIOUS
  <2>5. /\ q \in AllRounds /\ Earned(b, q) /\ q.voters = r.voters /\ q.ballots = r.ballots
    <3>1. Shut(r, q)
      BY <2>2, <2>4 DEF Shut
    <3> QED
      BY <2>3, <3>1, ShutRound
  <2> HIDE DEF b, p, r
  <2>6. /\ Rows' /\ HasRound(b, p)' /\ Number(b, p)' = Number(b, p) /\ Latest(b, p)' = q
        /\ \A x \in Businesses, y \in Principals : x # b \/ y # p => rounds'[x][y] = rounds[x][y]
        /\ rounds'[b][p] = [rounds[b][p] EXCEPT ![Number(b, p)] = q]
    BY <1>2, <2>1, <2>2, <2>4, <2>5, SetRoundRow DEF Shaped
  <2>7. Commits'
    <3>1. PICK c : c = [op |-> "submit", b |-> b, p |-> p, n |-> Number(b, p), undo |-> r]
      OBVIOUS
    <3>2. c.op = "submit" /\ c.b = b /\ c.p = p /\ c.n = Number(b, p) /\ c.undo = r
      BY <3>1
    <3>3. Submitting(c)'
      BY <1>2, <2>2, <2>3, <2>5, <2>6, <3>2 DEF Submitting
    <3> QED
      BY <2>1, <3>1, <3>2, <3>3 DEF Commits, Committed
  <2>8. Shaped'
    BY <1>3, <2>6, <2>7 DEF Shaped
  <2> QED
    BY <2>4, <2>6, <2>8 DEF b, p, r
<1> QED
  BY <1>4, <1>5

LEMMA GovShape ==
    ASSUME Shaped, GovNext, UNCHANGED <<migVars, brokerVars, limit>>
    PROVE  Shaped'
BY FailoverShape, FailoverEndsShape, ExpireShape, CreateReturnsShape, CreateRoundShape, CreateOkShape,
   CreateFailsShape, SubmitShape, SubmitOkShape, SubmitFailsShape DEF GovNext

-----------------------------------------------------------------------------
(* The steps of Migration. *)

LEMMA AuthoritiesArePrincipals ==
    ASSUME Rooted, NEW m \in Migrations, NEW t \in Teams, NEW target \in Teams
    PROVE  Authorities(m, t, target) \subseteq Principals
<1>1. parent[t] \in Teams \cup {Top} /\ Root \in Principals /\ Teams \subseteq Principals
  BY DEF Rooted, Types, Trees, Principals
<1>2. \A lca : PathTo(parent[t], lca) \subseteq Teams /\ PathTo(target, lca) \subseteq Teams
  BY DEF PathTo, Above
<1>3. LowestCommon(parent[t], target) \subseteq Teams
  BY DEF LowestCommon, Above
<1>4. PrincipalOf(parent[t]) \in Principals
  BY <1>1 DEF PrincipalOf
<1>5. PolicyOf[m] \in {"permissive", "ancestor_approval", "lineage_path"}
  BY MigrationAssumption
<1> QED
  BY <1>1, <1>2, <1>3, <1>4, <1>5 DEF Authorities

LEMMA ScheduledAre ==
    ASSUME Shaped, spent' \in Bounds, NEW m \in Migrations, plans' = plans,
           NEW j \in Scheduled(m) \cup Followed(m)
    PROVE  /\ j \in AllJobs /\ Tasked(j) /\ j.b = m /\ j.phase = "ready"
           /\ j.kind \in {"prepare", "resolve", "call"}
           /\ j.kind = "prepare" => j.p \in plans[m].authorities
<1>1. m \in Businesses /\ m \notin Failovers /\ m \notin Channels /\ Root \in Principals /\ "ready" \in Phases
  BY GovernanceAssumption DEF Businesses, Principals, Phases
<1>2. plans[m].authorities \subseteq Principals
  BY DEF Shaped, Records
<1>6. spent'.changes \in Nat
  BY DEF Bounds
<1>3. PICK kind, p, n :
        /\ j = Job(kind, m, p, n, "ready", {}) /\ n \in Nat
        /\ \/ kind \in {"resolve", "call"} /\ p = Root
           \/ kind = "prepare" /\ p \in plans[m].authorities
  <2>1. CASE plans'[m].authorities = {}
    <3>1. \/ j = Job("resolve", m, Root, 0, "ready", {})
          \/ j = Job("call", m, Root, spent'.changes, "ready", {})
      BY <2>1 DEF Scheduled, Followed, Tracked
    <3>2. 0 \in Nat
      OBVIOUS
    <3> QED
      BY <1>6, <3>1, <3>2, Zenon
  <2>2. CASE plans'[m].authorities # {}
    <3>1. j \in Preparations(m)
      BY <2>2 DEF Scheduled, Followed
    <3>2. PICK p \in plans[m].authorities : j = Job("prepare", m, p, 0, "ready", {})
      BY <3>1 DEF Preparations, Tracked
    <3>3. 0 \in Nat
      OBVIOUS
    <3> QED
      BY <3>2, <3>3
  <2> QED
    BY <2>1, <2>2
<1>4. kind \in JobKinds /\ p \in Principals
  BY <1>1, <1>2, <1>3 DEF JobKinds
<1>5. j \in AllJobs /\ j.b = m /\ j.phase = "ready" /\ j.kind = kind /\ j.p = p
  BY <1>1, <1>3, <1>4, JobMade
<1> QED
  BY <1>1, <1>3, <1>5 DEF Tasked

LEMMA RequestShape ==
    ASSUME Shaped, Rooted, UNCHANGED <<brokerVars, limit>>
    PROVE  /\ \A x \in Moves : Negotiate(x[1], x[2], x[3]) => Shaped'
           /\ NegotiateOk \/ NegotiateCancelled \/ NegotiateFails => Shaped'
           /\ \A m \in Migrations : Insist(m) => Shaped'
<1>0. UNCHANGED <<routes, approval, notes, agreement, dealing>> /\ limit' \in Bounds
  BY DEF Shaped, Plain, brokerVars
<1>1. ASSUME NEW x \in Moves, Negotiate(x[1], x[2], x[3]) PROVE Shaped'
  <2> DEFINE q == [team |-> x[2], target |-> x[3], origin |-> parent[x[2]],
                   authorities |-> Authorities(x[1], x[2], x[3])]
  <2>1. x[1] \in Migrations /\ x[1] \in Businesses /\ x[2] \in Teams /\ x[3] \in Teams
    BY MigrationAssumption DEF Businesses
  <2>2. /\ plans' = [plans EXCEPT ![x[1]] = q]
        /\ standing' = [standing EXCEPT ![x[1]] = "PENDING"]
        /\ UNCHANGED <<members, rounds, mail, commit, jobs, chosen, spent>>
    BY <1>1 DEF Negotiate
  <2>3. q \in [team : Teams \cup {Top}, target : Teams \cup {Top},
               origin : Teams \cup {Top}, authorities : SUBSET Principals]
    BY <2>1, AuthoritiesArePrincipals DEF Rooted, Types, Trees
  <2> HIDE DEF q
  <2>4. Records'
    BY <1>0, <2>1, <2>2, <2>3 DEF Shaped, Records
  <2>5. Plain'
    <3>1. standing' \in [Businesses -> Standings]
      BY <2>2 DEF Shaped, Plain, Standings
    <3> QED
      BY <1>0, <2>2, <3>1 DEF Shaped, Plain
  <2>6. Tasks' /\ \A c \in commit : c.op = "create" => c.job \in jobs'
    BY <2>2 DEF Shaped, Tasks, Commits, Committed, Creating
  <2> QED
    BY <1>0, <2>2, <2>4, <2>5, <2>6, IdleShape
<1>2. ASSUME NegotiateOk \/ NegotiateCancelled PROVE Shaped'
  <2>1. PICK m, new :
          /\ m \in opening /\ new \in {Scheduled(m), Followed(m)}
          /\ plans' = plans /\ jobs' = jobs \cup new
          /\ UNCHANGED spent \/ Cancel
          /\ UNCHANGED <<members, standing, rounds, mail, commit, chosen>>
    BY <1>2 DEF NegotiateOk, NegotiateCancelled
  <2>2. m \in Migrations
    BY <2>1 DEF Rooted
  <2>3. Plain' /\ Records'
    BY <1>0, <2>1, Spending, RecordsStay DEF Shaped
  <2>4. \A j \in new : j \in AllJobs /\ Tasked(j)
    BY <2>1, <2>2, <2>3, ScheduledAre DEF Plain
  <2>5. Tasks' /\ \A c \in commit : c.op = "create" => c.job \in jobs'
    BY <2>1, <2>4 DEF Shaped, Tasks, Commits, Committed, Creating
  <2> QED
    BY <1>0, <2>1, <2>3, <2>5, IdleShape
<1>3. ASSUME NegotiateFails PROVE Shaped'
  <2>1. PICK m \in opening :
          /\ Fail
          /\ standing' = [standing EXCEPT ![m] = "none"]
          /\ plans' = [plans EXCEPT ![m] = NoPlan]
          /\ UNCHANGED <<members, rounds, mail, commit, jobs, chosen>>
    BY <1>3 DEF NegotiateFails
  <2>2. Records'
    BY <1>0, <2>1 DEF Shaped, Records, NoPlan
  <2>3. Plain'
    <3>1. standing' \in [Businesses -> Standings]
      BY <2>1 DEF Shaped, Plain, Standings
    <3>2. spent' \in Bounds
      BY <2>1 DEF Shaped, Plain, Bounds, Fail
    <3> QED
      BY <1>0, <2>1, <3>1, <3>2 DEF Shaped, Plain
  <2>4. Tasks' /\ \A c \in commit : c.op = "create" => c.job \in jobs'
    BY <2>1 DEF Shaped, Tasks, Commits, Committed, Creating
  <2> QED
    BY <1>0, <2>1, <2>2, <2>3, <2>4, IdleShape
<1>4. ASSUME NEW m \in Migrations, Insist(m) PROVE Shaped'
  <2>1. /\ plans' = plans /\ jobs' = jobs \cup Followed(m)
        /\ spent' = [spent EXCEPT !.changes = @ + 1]
        /\ UNCHANGED <<members, standing, rounds, mail, commit, chosen>>
    BY <1>4 DEF Insist
  <2>3. Plain' /\ Records'
    BY <1>0, <2>1, Spending, RecordsStay DEF Shaped
  <2>4. \A j \in Followed(m) : j \in AllJobs /\ Tasked(j)
    BY <2>1, <2>3, ScheduledAre DEF Plain
  <2>2. Tasks' /\ \A c \in commit : c.op = "create" => c.job \in jobs'
    BY <2>1, <2>4 DEF Shaped, Tasks, Commits, Committed, Creating
  <2> QED
    BY <1>0, <2>1, <2>2, <2>3, IdleShape
<1> QED
  BY <1>1, <1>2, <1>3, <1>4

LEMMA PrepareShape ==
    ASSUME Shaped, UNCHANGED <<brokerVars, limit>>
    PROVE  /\ \A j \in jobs : Prepare(j) => Shaped'
           /\ \A j \in jobs : Nothing(j) => Shaped'
           /\ \A t \in Teams : BeginDiscussion(t) => Shaped'
<1>0. UNCHANGED <<routes, approval, notes, agreement, dealing>> /\ limit' \in Bounds
  BY DEF Shaped, Plain, brokerVars
<1>1. ASSUME NEW j \in jobs, Prepare(j) PROVE Shaped'
  <2>1. /\ j \in AllJobs /\ Tasked(j) /\ j.kind = "prepare" /\ j.phase = "ready"
        /\ IF standing[j.b] = "PENDING"
           THEN Advance(j, [j EXCEPT !.phase = "talking", !.snap = Electorate(j.p)])
           ELSE Finish(j)
        /\ UNCHANGED <<members, standing, rounds, mail, commit, chosen, spent>>
        /\ UNCHANGED plans
    BY <1>1 DEF Prepare, Shaped, Tasks, migVars
  <2>2. Electorate(j.p) \subseteq Agents
    BY <2>1, JobIs, GovernanceAssumption DEF Electorate, Shaped, Plain, Principals
  <2>3. PICK k : k = [j EXCEPT !.phase = "talking", !.snap = Electorate(j.p)]
    OBVIOUS
  <2>4. k \in AllJobs /\ Later(j, k, "talking")
    BY <2>1, <2>2, <2>3 DEF AllJobs, Later
  <2>5. Tasked(k)
    BY <2>1, <2>4 DEF Tasked, Later
  <2>6. Tasks'
    BY <2>1, <2>3, <2>4, <2>5, Advanced, Finished DEF Shaped
  <2>7. \A c \in commit : c.op = "create" => c.job \in jobs'
    <3>1. \A c \in commit : c.op = "create" => c.job \in jobs /\ c.job # j
      BY <2>1 DEF Shaped, Commits, Committed, Creating, AtCreate
    <3> QED
      BY <2>1, <3>1 DEF Advance, Finish
  <2>8. Plain' /\ Records'
    BY <1>0, <2>1, Spending, RecordsStay DEF Shaped
  <2> QED
    BY <1>0, <2>1, <2>6, <2>7, <2>8, IdleShape
<1>2. ASSUME NEW j \in jobs, Nothing(j) PROVE Shaped'
  <2>1. /\ commit = {} /\ Finish(j)
        /\ UNCHANGED <<members, standing, rounds, mail, commit, chosen, spent, plans>>
    BY <1>2 DEF Nothing, Unlocked, migVars
  <2>2. Tasks' /\ Plain' /\ Records'
    BY <1>0, <2>1, Spending, RecordsStay, Finished DEF Shaped
  <2> QED
    BY <1>0, <2>1, <2>2, IdleShape
<1>3. ASSUME NEW t \in Teams, BeginDiscussion(t) PROVE Shaped'
  <2>1. UNCHANGED <<members, standing, rounds, mail, commit, jobs, chosen, spent, plans>>
    BY <1>3 DEF BeginDiscussion, govVars
  <2>2. Tasks' /\ Plain' /\ Records'
    BY <1>0, <2>1, Spending, RecordsStay DEF Shaped, Tasks
  <2>3. \A c \in commit : c.op = "create" => c.job \in jobs'
    BY <2>1 DEF Shaped, Commits, Committed, Creating
  <2> QED
    BY <1>0, <2>1, <2>2, <2>3, IdleShape
<1> QED
  BY <1>1, <1>2, <1>3

LEMMA ClosedRow ==
    ASSUME Rows, NEW b \in Businesses, NEW p \in Principals
    PROVE  /\ Row(b, ClosedRounds(b)[p]) /\ Alike(rounds[b][p], ClosedRounds(b)[p])
           /\ ClosedRounds(b) \in [Principals -> Seq(AllRounds)]
           /\ \A n \in 1..Len(rounds[b][p]) : ClosedRounds(b)[p][n].status # "PENDING"
<1>1. ASSUME NEW q \in Principals
      PROVE  Row(b, ClosedRounds(b)[q]) /\ Alike(rounds[b][q], ClosedRounds(b)[q])
             /\ \A n \in 1..Len(rounds[b][q]) : ClosedRounds(b)[q][n].status # "PENDING"
  <2> DEFINE seq == rounds[b][q]
             at(n) == IF seq[n].status = "PENDING" THEN [seq[n] EXCEPT !.status = "CANCELLED"]
                      ELSE seq[n]
             new == ClosedRounds(b)[q]
  <2>1. Row(b, seq) /\ DOMAIN seq = 1..Len(seq)
    BY DEF Rows, Row
  <2>2. \A n \in 1..Len(seq) : Shut(seq[n], at(n))
    BY DEF Shut
  <2>3. new = [n \in DOMAIN seq |-> at(n)]
    BY DEF ClosedRounds
  <2>4. \A n \in 1..Len(seq) : at(n).status # "PENDING"
    <3>1. ASSUME NEW n \in 1..Len(seq) PROVE at(n).status # "PENDING"
      <4>1. seq[n] \in AllRounds /\ "CANCELLED" \in RoundStatuses
        BY <2>1 DEF Row, RoundStatuses
      <4>2. CASE seq[n].status = "PENDING"
        <5>1. at(n) = [seq[n] EXCEPT !.status = "CANCELLED"]
          BY <4>2
        <5> HIDE DEF at
        <5> QED
          BY <4>1, <5>1, Relabelled
      <4> QED
        BY <4>2
    <3> QED
      BY <3>1
  <2> HIDE DEF at, new
  <2>5. new = [n \in DOMAIN seq |-> new[n]] /\ \A n \in 1..Len(seq) : new[n] = at(n)
    BY <2>1, <2>3
  <2>6. Row(b, new) /\ Len(new) = Len(seq)
    BY <2>1, <2>2, <2>5, ShutRow
  <2> QED
    BY <2>2, <2>4, <2>5, <2>6 DEF new, Alike
<1>2. ClosedRounds(b) = [q \in Principals |-> ClosedRounds(b)[q]]
  BY DEF ClosedRounds
<1> QED
  BY <1>1, <1>2 DEF Row

\* The rounds of one business.
LEMMA SetRows ==
    ASSUME Rows, NEW b \in Businesses, NEW new, new = [p \in Principals |-> new[p]],
           \A p \in Principals : Row(b, new[p]), rounds' = [rounds EXCEPT ![b] = new]
    PROVE  /\ Rows' /\ rounds'[b] = new
           /\ \A x \in Businesses : x # b => rounds'[x] = rounds[x]
<1>1. new \in [Principals -> Seq(AllRounds)]
  BY DEF Row
<1>2. /\ rounds' \in [Businesses -> [Principals -> Seq(AllRounds)]] /\ rounds'[b] = new
      /\ \A x \in Businesses : x # b => rounds'[x] = rounds[x]
  BY <1>1 DEF Rows
<1>3. ASSUME NEW x \in Businesses, NEW q \in Principals PROVE Row(x, rounds'[x][q])
  BY <1>2 DEF Rows
<1> QED
  BY <1>2, <1>3 DEF Rows

LEMMA VerdictIs ==
    ASSUME NEW m PROVE Verdict(m) \in {"PENDING", "DENIED", "EXECUTED", "STALE"}
BY DEF Verdict

LEMMA ResolveShape ==
    ASSUME Shaped, UNCHANGED <<brokerVars, limit>>, NEW j \in jobs, Resolve(j)
    PROVE  Shaped' /\ Rows' /\ rounds'[j.b] = ClosedRounds(j.b)
           /\ \A x \in Businesses : x # j.b => rounds'[x] = rounds[x]
<1> DEFINE m == j.b
           v == Verdict(m)
<1>1. /\ m \in Migrations /\ m \in Businesses
      /\ standing' = [standing EXCEPT ![m] = v]
      /\ rounds' = [rounds EXCEPT ![m] = ClosedRounds(m)]
      /\ Finish(j)
      /\ UNCHANGED <<members, mail, chosen, spent, plans>>
      /\ UNCHANGED <<routes, approval, notes, agreement, dealing, limit>>
  BY DEF Resolve, Completes, Businesses, brokerVars
<1>2. PICK c : /\ c = [op |-> "migrate", b |-> m, undo |-> rounds[m], count |-> moves[plans[m].team],
                       moved |-> v = "EXECUTED"]
               /\ commit' = {c}
  BY DEF Resolve
<1>3. c.op = "migrate" /\ c.b = m /\ c.undo = rounds[m]
  BY <1>2
<1>4. PICK new : new = ClosedRounds(m)
  OBVIOUS
<1>5. /\ new = [p \in Principals |-> new[p]]
      /\ \A p \in Principals : Row(m, new[p]) /\ Alike(rounds[m][p], new[p])
  <2>1. ClosedRounds(m) = [p \in Principals |-> ClosedRounds(m)[p]]
    BY DEF ClosedRounds
  <2> QED
    BY <1>1, <1>4, <2>1, ClosedRow DEF Shaped
<1>6. Rows' /\ rounds'[m] = new /\ \A x \in Businesses : x # m => rounds'[x] = rounds[x]
  <2> HIDE DEF m
  <2> QED
    BY <1>1, <1>4, <1>5, SetRows DEF Shaped
<1>7. Migrating(c)'
  <2>1. /\ \A p \in Principals : Row(m, rounds[m][p])
        /\ rounds[m] = [q \in Principals |-> rounds[m][q]]
    BY <1>1 DEF Shaped, Rows
  <2> HIDE DEF m
  <2>2. c.undo = [q \in Principals |-> c.undo[q]]
    BY <1>3, <2>1
  <2>3. \A p \in Principals : Row(m, c.undo[p]) /\ Alike(c.undo[p], rounds'[m][p])
    BY <1>3, <1>5, <1>6, <2>1
  <2> QED
    BY <1>1, <1>3, <2>2, <2>3 DEF Migrating
<1>8. Commits'
  BY <1>2, <1>3, <1>7 DEF Commits, Committed
<1>9. Plain'
  <2>1. v \in Standings
    BY VerdictIs DEF Standings
  <2> HIDE DEF v, m
  <2>2. standing \in [Businesses -> Standings] /\ standing' = [standing EXCEPT ![m] = v]
    BY <1>1 DEF Shaped, Plain
  <2>3. standing' \in [Businesses -> Standings]
    BY <2>1, <2>2
  <2> QED
    BY <1>1, <2>3 DEF Shaped, Plain
<1>10. Tasks' /\ Records'
  BY <1>1, Finished, RecordsStay DEF Shaped
<1> QED
  BY <1>4, <1>6, <1>8, <1>9, <1>10 DEF Shaped

LEMMA ResolveEndsShape ==
    ASSUME Shaped, UNCHANGED <<brokerVars, limit>>
    PROVE  ResolveOk \/ ResolveFails => Shaped'
<1>0. UNCHANGED <<routes, approval, notes, agreement, dealing>> /\ limit' \in Bounds
  BY DEF Shaped, Plain, brokerVars
<1>1. ASSUME ResolveOk PROVE Shaped'
  <2>1. /\ commit' = {}
        /\ UNCHANGED <<members, standing, rounds, mail, jobs, chosen, spent, plans>>
    BY <1>1 DEF ResolveOk
  <2>2. Plain' /\ Tasks' /\ Records'
    BY <1>0, <2>1, Spending, RecordsStay DEF Shaped, Tasks
  <2> QED
    BY <2>1, <2>2, IdleShape
<1>2. ASSUME ResolveFails PROVE Shaped'
  <2>1. PICK c \in commit :
          /\ c.op = "migrate" /\ Fail /\ commit' = {}
          /\ standing' = [standing EXCEPT ![c.b] = "PENDING"]
          /\ rounds' = [rounds EXCEPT ![c.b] = c.undo]
          /\ UNCHANGED <<members, mail, jobs, chosen, plans>>
    BY <1>2 DEF ResolveFails
  <2>2. /\ c.b \in Businesses /\ c.undo = [p \in Principals |-> c.undo[p]]
        /\ \A p \in Principals : Row(c.b, c.undo[p])
    BY <2>1 DEF Shaped, Commits, Committed, Migrating, Businesses
  <2>3. Rows'
    BY <2>1, <2>2, SetRows DEF Shaped
  <2>4. Plain'
    <3>1. standing' \in [Businesses -> Standings]
      BY <2>1 DEF Shaped, Plain, Standings
    <3>2. spent' \in Bounds
      BY <2>1 DEF Shaped, Plain, Bounds, Fail
    <3> QED
      BY <1>0, <2>1, <3>1, <3>2 DEF Shaped, Plain
  <2>5. Tasks' /\ Records' /\ Commits'
    BY <1>0, <2>1, RecordsStay DEF Shaped, Tasks, Commits
  <2> QED
    BY <2>3, <2>4, <2>5 DEF Shaped
<1> QED
  BY <1>1, <1>2

LEMMA MigShape ==
    ASSUME Shaped, Rooted, MigNext, UNCHANGED <<brokerVars, limit>>
    PROVE  Shaped'
BY RequestShape, PrepareShape, ResolveShape, ResolveEndsShape DEF MigNext

-----------------------------------------------------------------------------
(* The steps of Broker. *)

LEMMA PathIsOfPrincipals ==
    ASSUME Rooted, NEW r \in Channels, NEW from \in Teams, NEW to \in Teams
    PROVE  Path(r, from, to) \subseteq Principals
<1>1. /\ parent[from] \in Teams \cup {Top} /\ parent[to] \in Teams \cup {Top}
      /\ Root \in Principals /\ Teams \subseteq Principals
  BY DEF Rooted, Types, Trees, Principals
<1>2. Above(from) \subseteq Teams /\ Above(to) \subseteq Teams
  BY DEF Above
<1>3. \A lca : PathTo(from, lca) \subseteq Teams /\ PathTo(to, lca) \subseteq Teams
  BY <1>2 DEF PathTo
<1>4. PrincipalOf(parent[from]) \in Principals /\ PrincipalOf(parent[to]) \in Principals
  BY <1>1 DEF PrincipalOf
<1>5. CASE ConfigOf[r].policy = "parent_approval"
  BY <1>4, <1>5 DEF Path
<1>6. CASE ConfigOf[r].policy # "parent_approval" /\ LowestCommon(from, to) = {}
  BY <1>1, <1>2, <1>6 DEF Path
<1>7. CASE ConfigOf[r].policy # "parent_approval" /\ LowestCommon(from, to) # {}
  BY <1>1, <1>3, <1>7 DEF Path
<1> QED
  BY <1>5, <1>6, <1>7

LEMMA AskedOf ==
    /\ \A ps : Asked(ps) \in [Principals -> Answers]
    /\ \A ps : \A p \in Principals : Asked(ps)[p] = IF p \in ps THEN "PENDING" ELSE "none"
BY DEF Asked, Answers, RoundStatuses

LEMMA NotesAre ==
    ASSUME NEW r, NEW ps, ps \subseteq Principals
    PROVE  NotesFor(r, ps) \subseteq Teams \X {r}
BY DEF NotesFor, Principals

LEMMA InitialAre ==
    ASSUME NEW r \in Channels, NEW ps, ps \subseteq Principals, NEW j \in InitialApprovals(r, ps)
    PROVE  /\ j \in AllJobs /\ Tasked(j)
           /\ j.kind = "approve" /\ j.b = r /\ j.p \in ps /\ j.phase = "ready"
<1>1. PICK p \in ps : j = Job("approve", r, p, 0, "ready", {})
  BY DEF InitialApprovals, Tracked
<1>2. r \in Businesses /\ p \in Principals /\ "ready" \in Phases /\ r \notin Failovers
  BY GovernanceAssumption DEF Businesses, Phases
<1>3. j \in AllJobs /\ j.kind = "approve" /\ j.b = r /\ j.p = p /\ j.phase = "ready"
  BY <1>1, <1>2, JobMade DEF JobKinds
<1> QED
  BY <1>2, <1>3 DEF Tasked

\* While a request or a revocation is being committed, no approval is.
LEMMA NoApproval ==
    ASSUME Shaped, dealing = {} \/ \E d \in dealing : d.op # "approve"
    PROVE  \A c \in commit : c.op # "approve"
<1> SUFFICES ASSUME NEW c \in commit, c.op = "approve" PROVE FALSE
  OBVIOUS
<1>1. dealing = {[op |-> "approve", b |-> c.b]}
  BY DEF Shaped, Commits, Committed, Completing
<1>2. PICK d : d \in dealing /\ d.op # "approve"
  BY <1>1
<1> QED
  BY <1>1, <1>2

LEMMA JobsStay ==
    ASSUME Shaped, UNCHANGED jobs
    PROVE  Tasks' /\ \A c \in commit : c.op = "create" => c.job \in jobs'
BY DEF Shaped, Tasks, Commits, Committed, Creating

LEMMA JobsGrow ==
    ASSUME Shaped, NEW new, jobs' = jobs \cup new, \A j \in new : j \in AllJobs /\ Tasked(j)
    PROVE  Tasks' /\ \A c \in commit : c.op = "create" => c.job \in jobs'
BY DEF Shaped, Tasks, Commits, Committed, Creating

LEMMA ChannelShape ==
    ASSUME Shaped, Rooted, UNCHANGED limit
    PROVE  /\ \A x \in Pairs : RequestChannel(x[1], x[2], x[3]) => Shaped'
           /\ RequestOk \/ RequestCancelled \/ RequestFails => Shaped'
<1>1. ASSUME NEW x \in Pairs, RequestChannel(x[1], x[2], x[3]) PROVE Shaped'
  <2> DEFINE r == x[1]
             path == Path(r, x[2], x[3])
             q == [from |-> x[2], to |-> x[3], authorities |-> path, after |-> {}, next |-> {}]
  <2>1. r \in Channels /\ r \in Businesses /\ x[2] \in Teams /\ x[3] \in Teams
    BY BrokerAssumption DEF Businesses
  <2>2. /\ dealing = {}
        /\ standing' = [standing EXCEPT ![r] = "PENDING"]
        /\ routes' = [routes EXCEPT ![r] = q]
        /\ approval' = [approval EXCEPT ![r] = Asked(path)]
        /\ notes' = notes \cup NotesFor(r, path)
        /\ dealing' = {[op |-> "request", b |-> r]}
        /\ UNCHANGED <<members, rounds, mail, commit, jobs, spent, plans, agreement>>
    BY <1>1 DEF RequestChannel, govButStandingJobs, migVars
  <2>3. path \subseteq Principals
    BY <2>1, PathIsOfPrincipals
  <2> HIDE DEF path
  <2>4. q \in [from : Teams \cup {Top}, to : Teams \cup {Top}, authorities : SUBSET Principals,
               after : SUBSET Channels, next : SUBSET Channels]
        /\ q.from = x[2] /\ q.to = x[3]
    BY <2>1, <2>3
  <2> HIDE DEF q, r
  <2>5. Records'
    <3>1. notes' \subseteq Teams \X Channels
      BY <2>1, <2>2, <2>3, NotesAre DEF Shaped, Records
    <3>2. /\ routes' \in [Channels -> [from : Teams \cup {Top}, to : Teams \cup {Top},
                                       authorities : SUBSET Principals, after : SUBSET Channels,
                                       next : SUBSET Channels]]
          /\ routes'[r] = q /\ \A s \in Channels \ {r} : routes'[s] = routes[s]
      BY <2>1, <2>2, <2>4 DEF Shaped, Records
    <3>3. approval' \in [Channels -> [Principals -> Answers]]
          /\ \A s \in Channels \ {r} : approval'[s] = approval[s]
      BY <2>1, <2>2, AskedOf DEF Shaped, Records
    <3>4. \A d \in dealing' : d.op \in {"request", "revoke", "approve"} /\ d.b \in Channels
      BY <2>1, <2>2
    <3>5. \A s \in Channels, p \in Principals :
            approval'[s][p] # "none" => routes'[s].from \in Teams /\ routes'[s].to \in Teams
      BY <2>1, <2>4, <3>2, <3>3 DEF Shaped, Records
    <3> QED
      BY <2>2, <3>1, <3>2, <3>3, <3>4, <3>5 DEF Shaped, Records
  <2>6. Plain'
    <3>1. standing' \in [Businesses -> Standings]
      BY <2>2 DEF Shaped, Plain, Standings
    <3> QED
      BY <2>2, <3>1 DEF Shaped, Plain
  <2> QED
    BY <2>2, <2>5, <2>6, NoApproval, JobsStay, IdleShape
<1>2. ASSUME RequestOk PROVE Shaped'
  <2>1. PICK d \in dealing :
        /\ d.op = "request" /\ dealing' = {}
        /\ jobs' = jobs \cup InitialApprovals(d.b, routes[d.b].authorities)
        /\ UNCHANGED <<members, rounds, mail, commit, standing, spent, plans>>
        /\ UNCHANGED <<routes, approval, projected, notes, agreement>>
    BY <1>2 DEF RequestOk, govButStandingJobs, migVars
  <2>2. d.b \in Channels /\ routes[d.b].authorities \subseteq Principals
    BY DEF Shaped, Records
  <2>3. Tasks' /\ \A c \in commit : c.op = "create" => c.job \in jobs'
    BY <2>1, <2>2, InitialAre, JobsGrow
  <2>4. Plain' /\ Records'
    BY <2>1, Spending DEF Shaped, Records
  <2> QED
    BY <2>1, <2>3, <2>4, NoApproval, IdleShape
<1>3. ASSUME RequestCancelled PROVE Shaped'
  <2>1. /\ Fail /\ dealing' = {} /\ \E d \in dealing : d.op # "approve"
        /\ UNCHANGED <<members, rounds, mail, commit, standing, jobs, plans>>
        /\ UNCHANGED <<routes, approval, projected, notes, agreement>>
    BY <1>3 DEF RequestCancelled, govButStandingJobs, migVars
  <2>2. Plain' /\ Records'
    BY <2>1, Spending DEF Shaped, Records
  <2> QED
    BY <2>1, <2>2, NoApproval, JobsStay, IdleShape
<1>4. ASSUME RequestFails PROVE Shaped'
  <2>1. PICK d \in dealing :
        /\ d.op = "request" /\ Fail /\ dealing' = {}
        /\ standing' = [standing EXCEPT ![d.b] = "withdrawn"]
        /\ approval' = [approval EXCEPT ![d.b] = Asked({})]
        /\ notes' = Forget(d.b)
        /\ UNCHANGED <<members, rounds, mail, commit, jobs, plans, routes, projected, agreement>>
    BY <1>4 DEF RequestFails, govButStandingJobs, migVars
  <2>2. Plain'
    <3>1. standing' \in [Businesses -> Standings]
      BY <2>1 DEF Shaped, Plain, Standings
    <3>2. spent' \in Bounds
      BY <2>1 DEF Shaped, Plain, Bounds, Fail
    <3> QED
      BY <2>1, <3>1, <3>2 DEF Shaped, Plain
  <2>3. Records'
    <3>1. d.b \in Channels
      BY DEF Shaped, Records
    <3>2. /\ approval' \in [Channels -> [Principals -> Answers]]
          /\ \A s \in Channels, p \in Principals : approval'[s][p] # "none" => approval[s][p] # "none"
      BY <2>1, <3>1, AskedOf DEF Shaped, Records
    <3>3. notes' \subseteq notes
      BY <2>1 DEF Forget
    <3> QED
      BY <2>1, <3>2, <3>3 DEF Shaped, Records
  <2> QED
    BY <2>1, <2>2, <2>3, NoApproval, JobsStay, IdleShape
<1> QED
  BY <1>1, <1>2, <1>3, <1>4

LEMMA RevokeShape ==
    ASSUME Shaped, UNCHANGED limit
    PROVE  /\ \A r \in Channels : Revoke(r) => Shaped'
           /\ RevokeOk \/ RevokeFails => Shaped'
<1>1. ASSUME NEW r \in Channels, Revoke(r) PROVE Shaped'
  <2>1. /\ dealing = {} /\ agreement' = [agreement EXCEPT ![r] = "revoked"]
        /\ dealing' = {[op |-> "revoke", b |-> r]}
        /\ UNCHANGED <<members, standing, rounds, mail, commit, jobs, spent, plans>>
        /\ UNCHANGED <<routes, approval, projected, notes>>
    BY <1>1 DEF Revoke, govVars, migVars
  <2>2. Plain' /\ Records'
    <3>1. agreement' \in [Channels -> {"none", "active", "superseded", "revoked"}]
      BY <2>1 DEF Shaped, Records
    <3>2. \A d \in dealing' : d.op \in {"request", "revoke", "approve"} /\ d.b \in Channels
      BY <2>1
    <3> QED
      BY <2>1, <3>1, <3>2, Spending DEF Shaped, Records
  <2> QED
    BY <2>1, <2>2, NoApproval, JobsStay, IdleShape
<1>2. ASSUME RevokeOk PROVE Shaped'
  <2>1. /\ dealing' = {} /\ \E d \in dealing : d.op # "approve"
        /\ UNCHANGED <<members, standing, rounds, mail, commit, jobs, spent, plans>>
        /\ UNCHANGED <<routes, approval, projected, notes, agreement>>
    BY <1>2 DEF RevokeOk, govVars, migVars
  <2>2. Plain' /\ Records'
    BY <2>1, Spending DEF Shaped, Records
  <2> QED
    BY <2>1, <2>2, NoApproval, JobsStay, IdleShape
<1>3. ASSUME RevokeFails PROVE Shaped'
  <2>1. PICK d \in dealing :
        /\ d.op = "revoke" /\ Fail /\ dealing' = {}
        /\ agreement' = [agreement EXCEPT ![d.b] = "active"]
        /\ UNCHANGED <<members, standing, rounds, mail, commit, jobs, plans>>
        /\ UNCHANGED <<routes, approval, projected, notes>>
    BY <1>3 DEF RevokeFails, govButStandingJobs, migVars
  <2>2. Plain' /\ Records'
    <3>1. agreement' \in [Channels -> {"none", "active", "superseded", "revoked"}]
      BY <2>1 DEF Shaped, Records
    <3> QED
      BY <2>1, <3>1, Spending DEF Shaped, Records
  <2> QED
    BY <2>1, <2>2, NoApproval, JobsStay, IdleShape
<1> QED
  BY <1>1, <1>2, <1>3

LEMMA ClaimShape ==
    ASSUME Shaped, UNCHANGED limit
    PROVE  /\ \A t \in Teams, r \in Channels : StartTalk(t, r) => Shaped'
           /\ \A j \in jobs : Claim(j) \/ ClaimedAlready(j) \/ CompleteLapsed(j) => Shaped'
           /\ \A j \in jobs : ClaimCancelled(j) => Shaped'
<1>1. ASSUME NEW t \in Teams, NEW r \in Channels, StartTalk(t, r) PROVE Shaped'
  <2>1. /\ ~\E j \in jobs : j.kind = "approve" /\ j.p = t /\ j.phase \notin {"ready", "releasing"}
        /\ jobs' = {j \in jobs : ~(j.kind = "approve" /\ j.b = r /\ j.p = t /\ j.phase = "ready")}
                     \cup {Job("approve", r, t, 0, "talking", members[t])}
        /\ UNCHANGED <<members, standing, rounds, mail, commit, spent, plans>>
        /\ UNCHANGED <<routes, approval, notes, agreement, dealing>>
    BY <1>1 DEF StartTalk, govButStandingJobs, migVars, brokerVars
  <2>2. PICK k : k = Job("approve", r, t, 0, "talking", members[t])
    OBVIOUS
  <2>3. k \in AllJobs /\ k.kind = "approve" /\ k.b = r /\ k.phase = "talking"
    <3>1. /\ r \in Businesses /\ t \in Principals /\ "talking" \in Phases /\ members[t] \in SUBSET Agents
      BY DEF Businesses, Principals, Phases, Shaped, Plain
    <3> QED
      BY <2>2, <3>1, JobMade DEF JobKinds
  <2>4. Tasked(k)
    BY <2>3, GovernanceAssumption DEF Tasked
  <2>5. Tasks'
    BY <2>1, <2>2, <2>3, <2>4 DEF Shaped, Tasks
  <2>6. ASSUME NEW c \in commit, c.op = "create" PROVE c.job \in jobs'
    <3>1. c.job \in jobs /\ AtCreate(c.job) /\ Tasked(c.job)
      BY <2>6 DEF Shaped, Commits, Committed, Creating, Tasks
    <3>2. ~(c.job.kind = "approve" /\ c.job.p = t)
      BY <2>1, <3>1 DEF AtCreate
    <3> QED
      BY <2>1, <3>1, <3>2
  <2>7. Plain' /\ Records'
    BY <2>1, Spending, RecordsStay DEF Shaped
  <2> QED
    BY <2>1, <2>5, <2>6, <2>7, IdleShape
<1>2. ASSUME NEW j \in jobs, Claim(j) PROVE Shaped'
  <2>1. /\ j \in AllJobs /\ Tasked(j) /\ j.b \in Channels
        /\ j.kind \in {"approve", "resolve"} /\ j.phase \in {"ready", "talking"}
        /\ UNCHANGED <<members, rounds, mail, commit, spent, plans>>
        /\ UNCHANGED <<routes, notes, agreement, dealing>>
    BY <1>2 DEF Claim, Shaped, Tasks, govButStandingJobs, migVars
  <2>2. \A c \in commit : c.op = "create" => c.job \in jobs /\ c.job # j
    BY <2>1 DEF Shaped, Commits, Committed, Creating, AtCreate
  <2>3. CASE MayClaim(j.b, j.p)
    <3>1. PICK ph \in {"claimed", "decided"} :
            /\ ph = IF j.kind = "approve" THEN "claimed" ELSE "decided"
            /\ Advance(j, [j EXCEPT !.phase = ph])
      BY <1>2, <2>3 DEF Claim
    <3>2. PICK k : k = [j EXCEPT !.phase = ph]
      OBVIOUS
    <3>3. k \in AllJobs /\ Later(j, k, ph) /\ k.n = j.n
      <4>1. ph \in Phases
        BY DEF Phases
      <4> QED
        BY <2>1, <3>2, <4>1, Rephased
    <3>4. Tasked(k)
      BY <2>1, <3>1, <3>3 DEF Tasked, Later
    <3>5. Tasks' /\ \A c \in commit : c.op = "create" => c.job \in jobs'
      <4>1. Tasks'
        BY <3>1, <3>2, <3>3, <3>4, Advanced DEF Shaped
      <4> QED
        BY <2>2, <3>1, <4>1 DEF Advance
    <3>6. /\ approval' = [approval EXCEPT ![j.b][j.p] = "PROCESSING"]
          /\ standing' = [standing EXCEPT ![j.b] = "PROCESSING"]
      BY <1>2, <2>3 DEF Claim
    <3>7. Records'
      <4>1. /\ approval' \in [Channels -> [Principals -> Answers]]
            /\ \A s \in Channels, p \in Principals : approval'[s][p] # "none" => approval[s][p] # "none"
        <5>1. j.p \in Principals /\ approval[j.b][j.p] = "PENDING" /\ "PROCESSING" \in Answers
          BY <2>1, <2>3, JobIs DEF MayClaim, Answers
        <5>2. approval \in [Channels -> [Principals -> Answers]]
          BY DEF Shaped, Records
        <5> QED
          BY <2>1, <3>6, <5>1, <5>2
      <4> QED
        BY <2>1, <4>1 DEF Shaped, Records
    <3>8. Plain'
      <4>1. standing' \in [Businesses -> Standings]
        BY <3>6 DEF Shaped, Plain, Standings
      <4> QED
        BY <2>1, <4>1 DEF Shaped, Plain
    <3> QED
      BY <2>1, <3>5, <3>7, <3>8, IdleShape
  <2>4. CASE ~MayClaim(j.b, j.p)
    <3>1. Finish(j) /\ UNCHANGED <<approval, standing>>
      BY <1>2, <2>4 DEF Claim
    <3>2. Tasks' /\ \A c \in commit : c.op = "create" => c.job \in jobs'
      <4>1. Tasks'
        BY <3>1, Finished DEF Shaped
      <4> QED
        BY <2>2, <3>1, <4>1 DEF Finish
    <3>3. Plain' /\ Records'
      BY <2>1, <3>1, Spending, RecordsStay DEF Shaped
    <3> QED
      BY <2>1, <3>2, <3>3, IdleShape
  <2> QED
    BY <2>3, <2>4
<1>3. ASSUME NEW j \in jobs, ClaimedAlready(j) PROVE Shaped'
  <2>1. /\ j \in AllJobs /\ Tasked(j) /\ j.kind = "resolve" /\ j.b \in Channels
        /\ Advance(j, [j EXCEPT !.phase = "decided"])
        /\ UNCHANGED <<members, standing, rounds, mail, commit, spent, plans>>
        /\ UNCHANGED <<routes, approval, notes, agreement, dealing>>
    BY <1>3 DEF ClaimedAlready, Shaped, Tasks, govButStandingJobs, migVars, brokerVars
  <2>2. PICK k : k = [j EXCEPT !.phase = "decided"]
    OBVIOUS
  <2>3. k \in AllJobs /\ Later(j, k, "decided") /\ k.n = j.n
    <3>1. "decided" \in Phases
      BY DEF Phases
    <3> QED
      BY <2>1, <2>2, <3>1, Rephased
  <2>4. Tasked(k)
    BY <2>1, <2>3 DEF Tasked, Later
  <2>5. Tasks'
    BY <2>1, <2>2, <2>3, <2>4, Advanced DEF Shaped
  <2>6. \A c \in commit : c.op = "create" => c.job \in jobs'
    <3>1. \A c \in commit : c.op = "create" => c.job \in jobs /\ c.job # j
      BY <2>1 DEF Shaped, Commits, Committed, Creating, AtCreate
    <3> QED
      BY <2>1, <3>1 DEF Advance
  <2>7. Plain' /\ Records'
    BY <2>1, Spending, RecordsStay DEF Shaped
  <2> QED
    BY <2>1, <2>5, <2>6, <2>7, IdleShape
<1>4. ASSUME NEW j \in jobs, CompleteLapsed(j) PROVE Shaped'
  <2>1. /\ commit = {} /\ Finish(j)
        /\ UNCHANGED <<members, standing, rounds, mail, commit, spent, plans>>
        /\ UNCHANGED <<routes, approval, notes, agreement, dealing>>
    BY <1>4 DEF CompleteLapsed, MayComplete, Unlocked, govButStandingJobs, migVars, brokerVars
  <2>2. Tasks' /\ Plain' /\ Records'
    BY <2>1, Spending, RecordsStay, Finished DEF Shaped
  <2> QED
    BY <2>1, <2>2, IdleShape
<1>5. ASSUME NEW j \in jobs, ClaimCancelled(j) PROVE Shaped'
  <2>1. /\ j \in AllJobs /\ Tasked(j) /\ j.kind = "approve" /\ Cancel
        /\ Advance(j, [j EXCEPT !.phase = "releasing"])
        /\ commit' = {c \in commit : ~(c.op = "create" /\ c.job = j)}
        /\ UNCHANGED <<members, standing, rounds, mail, plans>>
        /\ UNCHANGED <<routes, approval, notes, agreement, dealing>>
    BY <1>5 DEF ClaimCancelled, Shaped, Tasks, migVars, brokerVars
  <2>2. PICK k : k = [j EXCEPT !.phase = "releasing"]
    OBVIOUS
  <2>3. k \in AllJobs /\ Later(j, k, "releasing") /\ k.n = j.n
    <3>1. "releasing" \in Phases
      BY DEF Phases
    <3> QED
      BY <2>1, <2>2, <3>1, Rephased
  <2>4. Tasked(k)
    BY <2>1, <2>3 DEF Tasked, Later
  <2>5. Tasks'
    BY <2>1, <2>2, <2>3, <2>4, Advanced DEF Shaped
  <2>6. \A c \in commit' : c.op = "create" => c.job \in jobs'
    <3>1. \A c \in commit : c.op = "create" => c.job \in jobs
      BY DEF Shaped, Commits, Committed, Creating
    <3> QED
      BY <2>1, <3>1 DEF Advance
  <2>7. Plain' /\ Records'
    BY <2>1, Spending, RecordsStay DEF Shaped
  <2> QED
    BY <2>1, <2>5, <2>6, <2>7, IdleShape
<1> QED
  BY <1>1, <1>2, <1>3, <1>4, <1>5

\* What _complete_approval makes of the approvals and of the request.
LEMMA SettledAs ==
    ASSUME Shaped, NEW j \in jobs, j.b \in Channels
    PROVE  /\ Outcome(j) \in Answers
           /\ Settle(j.b, j.p, Outcome(j)) \in [Principals -> Answers]
<1>1. j \in AllJobs /\ j.b \in Businesses /\ j.p \in Principals
  BY JobIs DEF Shaped, Tasks
<1>2. Outcome(j) \in Answers
  <2>1. CASE j.phase = "decided" /\ j.n = Number(j.b, j.p) /\ Valid(j.p, Latest(j.b, j.p)) /\ HasRound(j.b, j.p)
    <3>1. rounds[j.b][j.p] \in Seq(AllRounds) /\ rounds[j.b][j.p] # <<>>
      BY <1>1, <2>1 DEF Shaped, Rows, HasRound
    <3>2. Latest(j.b, j.p) \in AllRounds
      BY <3>1 DEF Latest, Number
    <3> QED
      BY <2>1, <3>2, RoundIs DEF Outcome, Answers
  <2>2. j.phase = "decided" /\ j.n = Number(j.b, j.p) => HasRound(j.b, j.p)
    <3>1. j.phase = "decided" => j.n > 0
      BY DEF Shaped, Tasks, Tasked
    <3>2. ~HasRound(j.b, j.p) => Number(j.b, j.p) = 0
      BY DEF HasRound, Number
    <3> QED
      BY <3>1, <3>2
  <2>3. CASE ~(j.phase = "decided" /\ j.n = Number(j.b, j.p) /\ Valid(j.p, Latest(j.b, j.p)))
    BY <2>3 DEF Outcome, Answers, RoundStatuses
  <2> QED
    BY <2>1, <2>2, <2>3
<1>3. approval[j.b] \in [Principals -> Answers]
  BY DEF Shaped, Records
<1>4. {"CANCELLED", "APPROVED", "PENDING"} \subseteq Answers
  BY DEF Answers, RoundStatuses
<1>5. PICK s : s = Outcome(j)
  OBVIOUS
<1>6. Settle(j.b, j.p, s) \in [Principals -> Answers]
  BY <1>2, <1>3, <1>4, <1>5 DEF Settle
<1> QED
  BY <1>2, <1>5, <1>6

LEMMA ResolvedAs ==
    /\ \A r, apps : Resolved(r, apps) \in {"DENIED", "PENDING", "PROCESSING", "APPROVED", "STALE"}
    /\ \A apps : Refreshed(apps) \in {"PENDING", "PROCESSING"}
BY DEF Resolved, Refreshed

LEMMA RenotedIn ==
    ASSUME Shaped, NEW r \in Channels, NEW p, NEW s, NEW apps, NEW st
    PROVE  Renoted(r, p, s, apps, st) \subseteq Teams \X Channels
<1>1. notes \subseteq Teams \X Channels /\ routes[r].authorities \subseteq Principals
  BY DEF Shaped, Records
<1>2. {<<t, r>> : t \in {q \in routes[r].authorities \ {Root} : apps[q] \in {"PENDING", "PROCESSING"}}}
        \subseteq Teams \X Channels
  BY <1>1 DEF Principals
<1> QED
  BY <1>1, <1>2 DEF Renoted, Forget

LEMMA AlikeSelf == ASSUME NEW b, NEW seq, Row(b, seq) PROVE Alike(seq, seq)
BY DEF Alike, Shut

\* What a step of CompleteApproval does, with names for its parts.
Completion(j, next, s, apps, st, path) ==
    LET r == j.b  p == j.p  q == routes[j.b] IN
    /\ standing' = [x \in Businesses |-> IF x = r THEN st ELSE IF x \in next THEN "PENDING"
                                         ELSE standing[x]]
    /\ approval' = [x \in Channels |-> IF x = r THEN apps ELSE IF x \in next THEN Asked(path)
                                       ELSE approval[x]]
    /\ routes' = [x \in Channels |->
                    IF x = r THEN [q EXCEPT !.next = next]
                    ELSE IF x \in next THEN [from |-> q.from, to |-> q.to, authorities |-> path,
                                             after |-> {r}, next |-> {}]
                    ELSE routes[x]]
    /\ agreement' = IF st = "APPROVED" THEN Agreements(r) ELSE agreement
    /\ rounds' = IF st \in {"APPROVED", "DENIED", "STALE"}
                 THEN [rounds EXCEPT ![r] = ClosedRounds(r)] ELSE rounds
    /\ notes' = Renoted(r, p, s, apps, st) \cup UNION {NotesFor(x, path) : x \in next}
    /\ commit' = {[op |-> "approve", b |-> r, p |-> p, next |-> next, shielded |-> j.kind # "approve",
                   standing |-> standing[r],
                   rounds |-> rounds[r], approval |-> approval[r], projected |-> projected[r],
                   agreement |-> agreement, notes |-> {x \in notes : x[2] = r}]}
    /\ dealing' = {[op |-> "approve", b |-> r]}
    /\ Finish(j)
    /\ UNCHANGED <<members, mail, chosen, spent, migVars>>

LEMMA CompletionIs ==
    ASSUME Shaped, Rooted, NEW j \in jobs, NEW next \in SUBSET Channels, CompleteApproval(j, next)
    PROVE  \E s, apps, st, path :
             /\ s = Outcome(j) /\ apps = Settle(j.b, j.p, s) /\ st = Resolved(j.b, apps)
             /\ path = Path(j.b, routes[j.b].from, routes[j.b].to)
             /\ Completion(j, next, s, apps, st, path)
             /\ s \in Answers /\ apps \in [Principals -> Answers]
             /\ st \in {"DENIED", "PENDING", "PROCESSING", "APPROVED", "STALE"}
             /\ path \subseteq Principals
             /\ j \in AllJobs /\ Tasked(j) /\ j.b \in Channels /\ j.p \in Principals
             /\ approval[j.b][j.p] = "PROCESSING" /\ Pending(j.b)
             /\ routes[j.b].from \in Teams /\ routes[j.b].to \in Teams
             /\ commit = {} /\ dealing = {} /\ j.b \notin next
             /\ \A x \in next : standing[x] = "none"
             /\ st # "STALE" => next = {}
<1> DEFINE s == Outcome(j)
           apps == Settle(j.b, j.p, s)
           st == Resolved(j.b, apps)
           path == Path(j.b, routes[j.b].from, routes[j.b].to)
<1>1. /\ MayComplete(j) /\ ~Lapsed(j)
      /\ IF st = "STALE"
         THEN next \subseteq {x \in Channels : Fresh(x) /\ ConfigOf[x] = ConfigOf[j.b]} /\ Cardinality(next) = 1
         ELSE next = {}
  BY DEF CompleteApproval
<1>2. Completion(j, next, s, apps, st, path)
  BY DEF CompleteApproval, Completion
<1>3. /\ j \in AllJobs /\ Tasked(j) /\ j.b \in Channels /\ j.p \in Principals
      /\ commit = {} /\ dealing = {}
      /\ approval[j.b][j.p] = "PROCESSING" /\ Pending(j.b)
  <2>1. j \in AllJobs /\ Tasked(j)
    BY DEF Shaped, Tasks
  <2> QED
    BY <1>1, <2>1, JobIs DEF MayComplete, Lapsed, Unlocked
<1>4. routes[j.b].from \in Teams /\ routes[j.b].to \in Teams
  BY <1>3 DEF Shaped, Records
<1>5. path \subseteq Principals
  BY <1>3, <1>4, PathIsOfPrincipals
<1>6. \A x \in next : standing[x] = "none"
  BY <1>1 DEF Fresh
<1>7. j.b \notin next
  BY <1>3, <1>6 DEF Pending
<1>8. s \in Answers /\ apps \in [Principals -> Answers]
  BY <1>3, SettledAs
<1>9. st \in {"DENIED", "PENDING", "PROCESSING", "APPROVED", "STALE"}
  BY ResolvedAs
<1>10. st # "STALE" => next = {}
  BY <1>1
<1> HIDE DEF s, apps, st, path
<1>11. s = Outcome(j) /\ apps = Settle(j.b, j.p, s) /\ st = Resolved(j.b, apps)
       /\ path = Path(j.b, routes[j.b].from, routes[j.b].to)
  BY DEF s, apps, st, path
<1> QED
  BY <1>2, <1>3, <1>4, <1>5, <1>6, <1>7, <1>8, <1>9, <1>10, <1>11

LEMMA CompletionRounds ==
    ASSUME Shaped, NEW j \in jobs, j.b \in Channels, NEW next, NEW s, NEW apps, NEW st, NEW path,
           Completion(j, next, s, apps, st, path)
    PROVE  /\ Rows'
           /\ \A p \in Principals : Alike(rounds[j.b][p], rounds'[j.b][p])
           /\ \A x \in Businesses : x # j.b => rounds'[x] = rounds[x]
           /\ st \in {"APPROVED", "DENIED", "STALE"} => rounds'[j.b] = ClosedRounds(j.b)
           /\ st \notin {"APPROVED", "DENIED", "STALE"} => rounds' = rounds
<1>1. j.b \in Businesses
  BY DEF Businesses
<1>2. CASE st \in {"APPROVED", "DENIED", "STALE"}
  <2>1. PICK new : new = ClosedRounds(j.b)
    OBVIOUS
  <2>2. /\ new = [p \in Principals |-> new[p]]
        /\ \A p \in Principals : Row(j.b, new[p]) /\ Alike(rounds[j.b][p], new[p])
    <3>1. ClosedRounds(j.b) = [p \in Principals |-> ClosedRounds(j.b)[p]]
      BY DEF ClosedRounds
    <3> QED
      BY <1>1, <2>1, <3>1, ClosedRow DEF Shaped
  <2>3. rounds' = [rounds EXCEPT ![j.b] = new]
    BY <1>2, <2>1 DEF Completion
  <2>4. Rows' /\ rounds'[j.b] = new /\ \A x \in Businesses : x # j.b => rounds'[x] = rounds[x]
    BY <1>1, <2>2, <2>3, SetRows DEF Shaped
  <2> QED
    BY <1>2, <2>1, <2>2, <2>4
<1>3. CASE st \notin {"APPROVED", "DENIED", "STALE"}
  <2>1. rounds' = rounds
    BY <1>3 DEF Completion
  <2>2. \A p \in Principals : Row(j.b, rounds[j.b][p])
    BY <1>1 DEF Shaped, Rows
  <2> QED
    BY <1>3, <2>1, <2>2, RowsStay, AlikeSelf DEF Shaped
<1> QED
  BY <1>2, <1>3

LEMMA CompleteShape ==
    ASSUME Shaped, Rooted, UNCHANGED limit, NEW j \in jobs, NEW next \in SUBSET Channels,
           CompleteApproval(j, next)
    PROVE  Shaped'
<1>1. PICK s, apps, st, path :
        /\ Completion(j, next, s, apps, st, path)
        /\ s \in Answers /\ apps \in [Principals -> Answers]
        /\ st \in {"DENIED", "PENDING", "PROCESSING", "APPROVED", "STALE"}
        /\ path \subseteq Principals
        /\ j \in AllJobs /\ Tasked(j) /\ j.b \in Channels /\ j.p \in Principals
        /\ routes[j.b].from \in Teams /\ routes[j.b].to \in Teams
        /\ j.b \notin next
  BY CompletionIs
<1>2. /\ Rows' /\ \A p \in Principals : Alike(rounds[j.b][p], rounds'[j.b][p])
  BY <1>1, CompletionRounds
<1>3. UNCHANGED <<members, mail, spent, plans>> /\ Finish(j)
  BY <1>1 DEF Completion, migVars
<1>4. Plain'
  <2>1. standing' = [x \in Businesses |-> IF x = j.b THEN st ELSE IF x \in next THEN "PENDING"
                                          ELSE standing[x]]
    BY <1>1 DEF Completion
  <2>2. standing' \in [Businesses -> Standings]
    BY <1>1, <2>1 DEF Shaped, Plain, Standings
  <2> QED
    BY <1>3, <2>2 DEF Shaped, Plain
<1>5. Tasks'
  BY <1>3, Finished DEF Shaped
<1> DEFINE new == [from |-> routes[j.b].from, to |-> routes[j.b].to, authorities |-> path,
                   after |-> {j.b}, next |-> {}]
           old == [routes[j.b] EXCEPT !.next = next]
           Route == [from : Teams \cup {Top}, to : Teams \cup {Top}, authorities : SUBSET Principals,
                     after : SUBSET Channels, next : SUBSET Channels]
<1>6. /\ routes' = [x \in Channels |-> IF x = j.b THEN old ELSE IF x \in next THEN new ELSE routes[x]]
      /\ approval' = [x \in Channels |-> IF x = j.b THEN apps ELSE IF x \in next THEN Asked(path)
                                         ELSE approval[x]]
  BY <1>1 DEF Completion
<1>7. /\ old \in Route /\ new \in Route /\ routes \in [Channels -> Route]
      /\ old.from \in Teams /\ old.to \in Teams /\ new.from \in Teams /\ new.to \in Teams
  <2>1. routes \in [Channels -> Route]
    BY DEF Shaped, Records
  <2> QED
    BY <1>1, <2>1
<1> HIDE DEF old, new, Route
<1>8. Records'
  <2>1. routes' \in [Channels -> Route]
    BY <1>6, <1>7
  <2>2. approval' \in [Channels -> [Principals -> Answers]]
    BY <1>1, <1>6, AskedOf DEF Shaped, Records
  <2>3. \A x \in Channels, p \in Principals :
          approval'[x][p] # "none" => routes'[x].from \in Teams /\ routes'[x].to \in Teams
    BY <1>1, <1>6, <1>7 DEF Shaped, Records
  <2>4. notes' \subseteq Teams \X Channels
    <3>1. notes' = Renoted(j.b, j.p, s, apps, st) \cup UNION {NotesFor(x, path) : x \in next}
      BY <1>1 DEF Completion
    <3>2. \A x \in next : NotesFor(x, path) \subseteq Teams \X Channels
      BY <1>1, NotesAre
    <3> QED
      BY <1>1, <3>1, <3>2, RenotedIn
  <2>5. agreement' \in [Channels -> {"none", "active", "superseded", "revoked"}]
    <3>1. agreement' = IF st = "APPROVED" THEN Agreements(j.b) ELSE agreement
      BY <1>1 DEF Completion
    <3> QED
      BY <3>1 DEF Agreements, Shaped, Records
  <2>6. dealing' = {[op |-> "approve", b |-> j.b]}
    BY <1>1 DEF Completion
  <2>7. \A d \in dealing' : d.op \in {"request", "revoke", "approve"} /\ d.b \in Channels
    BY <1>1, <2>6
  <2> QED
    BY <1>3, <2>1, <2>2, <2>3, <2>4, <2>5, <2>7 DEF Shaped, Records, Route
<1>9. Commits'
  <2>1. PICK c : /\ c = [op |-> "approve", b |-> j.b, p |-> j.p, next |-> next,
                         shielded |-> j.kind # "approve", standing |-> standing[j.b],
                         rounds |-> rounds[j.b], approval |-> approval[j.b],
                         projected |-> projected[j.b], agreement |-> agreement,
                         notes |-> {x \in notes : x[2] = j.b}]
                 /\ commit' = {c} /\ dealing' = {[op |-> "approve", b |-> j.b]}
    BY <1>1 DEF Completion
  <2>2. /\ c.op = "approve" /\ c.b = j.b /\ c.p = j.p /\ c.next = next /\ c.rounds = rounds[j.b]
        /\ c.approval = approval[j.b] /\ c.agreement = agreement
        /\ c.notes = {x \in notes : x[2] = j.b}
    BY <2>1
  <2>3. c.notes \subseteq Teams \X {c.b}
    BY <2>2 DEF Shaped, Records
  <2>4. /\ c.approval \in [Principals -> Answers]
        /\ c.agreement \in [Channels -> {"none", "active", "superseded", "revoked"}]
    BY <1>1, <2>2 DEF Shaped, Records
  <2>5. j.b \in Businesses
    BY <1>1 DEF Businesses
  <2>6. c.rounds = [p \in Principals |-> c.rounds[p]] /\ \A p \in Principals : Row(c.b, c.rounds[p])
    BY <2>2, <2>5 DEF Shaped, Rows
  <2>7. \A p \in Principals : Alike(c.rounds[p], rounds'[c.b][p])
    BY <1>2, <2>2
  <2>8. routes'[c.b].from \in Teams /\ routes'[c.b].to \in Teams
    BY <1>1, <1>6, <1>7, <2>2
  <2>9. Completing(c)'
    BY <1>1, <2>1, <2>2, <2>3, <2>4, <2>6, <2>7, <2>8 DEF Completing
  <2> QED
    BY <2>1, <2>2, <2>9 DEF Commits, Committed
<1> QED
  BY <1>2, <1>4, <1>5, <1>8, <1>9 DEF Shaped

LEMMA ApproveOkShape == ASSUME Shaped, UNCHANGED limit, ApproveOk PROVE Shaped'
<1>1. PICK c \in commit :
        /\ c.op = "approve" /\ commit' = {} /\ dealing' = {}
        /\ jobs' = jobs \cup UNION {InitialApprovals(x, routes[x].authorities) : x \in c.next}
        /\ UNCHANGED <<members, standing, rounds, mail, chosen, spent, migVars>>
        /\ UNCHANGED <<routes, approval, projected, notes, agreement>>
  BY DEF ApproveOk
<1>2. c.next \subseteq Channels /\ \A x \in c.next : routes[x].authorities \subseteq Principals
  BY <1>1 DEF Shaped, Commits, Committed, Completing, Records
<1> DEFINE new == UNION {InitialApprovals(x, routes[x].authorities) : x \in c.next}
<1>3. \A j \in new : j \in AllJobs /\ Tasked(j)
  BY <1>2, InitialAre
<1> HIDE DEF new
<1>4. Tasks'
  BY <1>1, <1>3, JobsGrow DEF new
<1>5. Plain' /\ Records'
  BY <1>1, Spending DEF Shaped, Records, migVars
<1> QED
  BY <1>1, <1>4, <1>5, IdleShape

LEMMA ApproveCancelledShape == ASSUME Shaped, UNCHANGED limit, ApproveCancelled PROVE Shaped'
<1>1. /\ commit' = {} /\ dealing' = {} /\ Cancel
      /\ UNCHANGED <<members, standing, rounds, mail, jobs, chosen, migVars>>
      /\ UNCHANGED <<routes, approval, projected, notes, agreement>>
  BY DEF ApproveCancelled
<1>2. Tasks'
  BY <1>1 DEF Shaped, Tasks
<1>3. Plain' /\ Records'
  BY <1>1, Spending DEF Shaped, Records, migVars
<1> QED
  BY <1>1, <1>2, <1>3, IdleShape

LEMMA ReleasedIs ==
    ASSUME Shaped, NEW c \in commit, c.op = "approve"
    PROVE  /\ c.b \in Channels /\ c.b \in Businesses /\ c.p \in Principals
           /\ c.next \subseteq Channels /\ c.b \notin c.next
           /\ Released(c) \in [Principals -> Answers]
           /\ Released(c)[c.p] = "PENDING"
           /\ \A q \in Principals \ {c.p} : Released(c)[q] = c.approval[q]
<1>1. Completing(c)
  BY DEF Shaped, Commits, Committed
<1>2. "PENDING" \in Answers
  BY DEF Answers, RoundStatuses
<1> QED
  BY <1>1, <1>2 DEF Completing, Released, Businesses

LEMMA ApproveFailsShape == ASSUME Shaped, UNCHANGED limit, ApproveFails PROVE Shaped'
<1>1. PICK c \in commit :
        /\ c.op = "approve" /\ Fail /\ commit' = {} /\ dealing' = {}
        /\ standing' = [x \in Businesses |-> IF x = c.b THEN Refreshed(Released(c))
                                             ELSE IF x \in c.next THEN "withdrawn" ELSE standing[x]]
        /\ rounds' = [rounds EXCEPT ![c.b] = c.rounds]
        /\ approval' = [x \in Channels |-> IF x = c.b THEN Released(c)
                                           ELSE IF x \in c.next THEN Asked({}) ELSE approval[x]]
        /\ routes' = [routes EXCEPT ![c.b].next = {}]
        /\ agreement' = c.agreement
        /\ notes' = {x \in notes : x[2] \notin c.next \cup {c.b}} \cup c.notes
        /\ UNCHANGED <<members, mail, jobs, chosen, migVars>>
  BY DEF ApproveFails
<1>2. Completing(c)
  BY <1>1 DEF Shaped, Commits, Committed
<1>3. /\ c.b \in Channels /\ c.b \in Businesses /\ c.p \in Principals
      /\ c.next \subseteq Channels /\ c.b \notin c.next
      /\ Released(c) \in [Principals -> Answers]
  BY <1>1, ReleasedIs
<1>4. Rows'
  BY <1>1, <1>2, <1>3, SetRows DEF Shaped, Completing
<1>5. Plain'
  <2>1. standing' \in [Businesses -> Standings]
    BY <1>1, ResolvedAs DEF Shaped, Plain, Standings
  <2>2. spent' \in Bounds
    BY <1>1 DEF Shaped, Plain, Bounds, Fail
  <2> QED
    BY <1>1, <2>1, <2>2 DEF Shaped, Plain
<1>6. Records'
  <2> DEFINE Route == [from : Teams \cup {Top}, to : Teams \cup {Top}, authorities : SUBSET Principals,
                       after : SUBSET Channels, next : SUBSET Channels]
  <2>1. routes \in [Channels -> Route]
    BY DEF Shaped, Records
  <2>2. PICK q : q = [routes[c.b] EXCEPT !.next = {}]
    OBVIOUS
  <2>3. q \in Route /\ q.from = routes[c.b].from /\ q.to = routes[c.b].to
    BY <1>3, <2>1, <2>2
  <2>4. routes' = [routes EXCEPT ![c.b] = q]
    BY <1>1, <2>2
  <2> HIDE DEF Route
  <2>5. /\ routes' \in [Channels -> Route]
        /\ \A x \in Channels : routes'[x].from = routes[x].from /\ routes'[x].to = routes[x].to
    BY <1>3, <2>1, <2>3, <2>4
  <2>6. approval' \in [Channels -> [Principals -> Answers]]
    BY <1>1, <1>3, AskedOf DEF Shaped, Records
  <2>7. \A x \in Channels, p \in Principals :
          approval'[x][p] # "none" => routes'[x].from \in Teams /\ routes'[x].to \in Teams
    BY <1>1, <1>2, <2>5, AskedOf DEF Shaped, Records, Completing
  <2>8. notes' \subseteq Teams \X Channels
    BY <1>1, <1>2 DEF Shaped, Records, Completing
  <2> QED
    BY <1>1, <1>2, <2>5, <2>6, <2>7, <2>8 DEF Shaped, Records, Route, Completing, migVars
<1>7. Tasks' /\ Commits'
  BY <1>1 DEF Shaped, Tasks, Commits
<1> QED
  BY <1>4, <1>5, <1>6, <1>7 DEF Shaped

LEMMA BrokerShape ==
    ASSUME Shaped, Rooted, BrokerNext, UNCHANGED limit
    PROVE  Shaped'
BY ChannelShape, RevokeShape, ClaimShape, CompleteShape, ApproveOkShape, ApproveCancelledShape,
   ApproveFailsShape DEF BrokerNext

LEMMA AbandonShape == ASSUME Shaped, NEW j, Abandon(j) PROVE Shaped'
<1>1. /\ j \in jobs /\ Finish(j) /\ Cancel
      /\ UNCHANGED <<members, standing, rounds, mail, commit, limit, plans>>
      /\ UNCHANGED <<routes, approval, notes, agreement, dealing>>
      /\ j.kind = "call" \/ j.phase \in {"decided", "undecided"}
  BY AbandonSays DEF migVars, brokerVars
<1>2. Tasks' /\ Plain' /\ Records'
  BY <1>1, Finished, Spending, RecordsStay DEF Shaped
<1>3. \A c \in commit : c.op = "create" => c.job \in jobs /\ c.job # j
  BY <1>1 DEF Shaped, Commits, Committed, Creating, AtCreate
<1>4. \A c \in commit' : c.op = "create" => c.job \in jobs'
  BY <1>1, <1>3 DEF Finish
<1> QED
  BY <1>1, <1>2, <1>4, IdleShape

-----------------------------------------------------------------------------
(* Restarts. *)

LEMMA InterruptedRow ==
    ASSUME Rows, NEW b \in Businesses, NEW p \in Principals
    PROVE  LET new == Interrupted(b, rounds[b][p]) IN
           /\ Row(b, new) /\ Alike(rounds[b][p], new)
           /\ b \notin Failovers => new = rounds[b][p]
           /\ b \in Failovers => \A n \in 1..Len(rounds[b][p]) : new[n].status # "PENDING"
<1> DEFINE seq == rounds[b][p]
           at(n) == IF b \in Failovers /\ seq[n].status = "PENDING"
                    THEN [seq[n] EXCEPT !.status = "EXPIRED"] ELSE seq[n]
           new == Interrupted(b, seq)
<1>1. Row(b, seq) /\ DOMAIN seq = 1..Len(seq)
  BY DEF Rows, Row
<1>2. \A n \in 1..Len(seq) : Shut(seq[n], at(n))
  BY DEF Shut
<1>3. new = [n \in DOMAIN seq |-> at(n)]
  BY DEF Interrupted
<1>4. ASSUME NEW n \in 1..Len(seq), b \in Failovers PROVE at(n).status # "PENDING"
  <2>1. seq[n] \in AllRounds /\ "EXPIRED" \in RoundStatuses
    BY <1>1 DEF Row, RoundStatuses
  <2>2. CASE seq[n].status = "PENDING"
    <3>1. at(n) = [seq[n] EXCEPT !.status = "EXPIRED"]
      BY <1>4, <2>2
    <3> HIDE DEF at
    <3> QED
      BY <2>1, <3>1, Relabelled
  <2> QED
    BY <2>2
<1>5. b \notin Failovers => new = seq
  <2>1. seq = [n \in DOMAIN seq |-> seq[n]]
    BY <1>1 DEF Row
  <2> QED
    BY <2>1, <1>3
<1> HIDE DEF at, new
<1>6. new = [n \in DOMAIN seq |-> new[n]] /\ \A n \in 1..Len(seq) : new[n] = at(n)
  BY <1>1, <1>3
<1>7. Row(b, new) /\ Len(new) = Len(seq)
  BY <1>1, <1>2, <1>6, ShutRow
<1> QED
  BY <1>2, <1>4, <1>5, <1>6, <1>7 DEF new, Alike

\* The tasks that are started again.
LEMMA ResumedAre ==
    ASSUME Rows, NEW j \in Resumed
    PROVE  /\ j.kind = "resolve" /\ j.phase = "ready" /\ j.b \in Businesses \ Failovers
           /\ j.p \in Principals /\ j.n \in 1..Len(rounds[j.b][j.p])
           /\ rounds[j.b][j.p][j.n].status \in {"APPROVED", "DENIED"}
           /\ j \in AllJobs /\ Tasked(j)
<1>0. PICK b \in Businesses, p \in Principals :
        \E n \in DOMAIN rounds[b][p] :
          /\ j = Job("resolve", b, p, n, "ready", {}) /\ b \notin Failovers
          /\ rounds[b][p][n].status \in {"APPROVED", "DENIED"}
  BY DEF Resumed, RoundIds
<1>1. PICK n \in DOMAIN rounds[b][p] :
          /\ j = Job("resolve", b, p, n, "ready", {}) /\ b \notin Failovers
          /\ rounds[b][p][n].status \in {"APPROVED", "DENIED"}
  BY <1>0
<1>2. n \in 1..Len(rounds[b][p]) /\ n \in Nat /\ n > 0
  BY DEF Rows
<1>3. /\ j \in AllJobs /\ j.kind = "resolve" /\ j.b = b /\ j.p = p /\ j.n = n /\ j.phase = "ready"
  <2>1. "ready" \in Phases
    BY DEF Phases
  <2> QED
    BY <1>1, <1>2, <2>1, JobMade DEF JobKinds
<1> QED
  BY <1>1, <1>2, <1>3 DEF Tasked

LEMMA RescheduledAre ==
    ASSUME Records, NEW j \in Rescheduled
    PROVE  /\ j.b \in Migrations /\ standing[j.b] = "PENDING" /\ j.phase = "ready"
           /\ \/ j.kind = "prepare" /\ j.p \in plans[j.b].authorities
              \/ j.kind = "resolve"
           /\ j \in AllJobs /\ Tasked(j)
<1>1. PICK m \in Migrations, kind \in {"prepare", "resolve"}, p \in Principals :
        /\ j = Job(kind, m, p, 0, "ready", {}) /\ standing[m] = "PENDING"
        /\ \/ kind = "prepare" /\ p \in plans[m].authorities
           \/ kind = "resolve"
  <2>1. Root \in Principals
    BY DEF Principals
  <2>2. \/ \E m \in Migrations, p \in Principals :
             /\ j = Job("prepare", m, p, 0, "ready", {}) /\ standing[m] = "PENDING"
             /\ p \in plans[m].authorities
        \/ \E m \in Migrations : j = Job("resolve", m, Root, 0, "ready", {}) /\ standing[m] = "PENDING"
    BY DEF Rescheduled
  <2> QED
    BY <2>1, <2>2
<1>2. m \in Businesses /\ m \notin Failovers /\ m \notin Channels /\ "ready" \in Phases
  BY GovernanceAssumption DEF Businesses, Phases
<1>3. j \in AllJobs /\ j.kind = kind /\ j.b = m /\ j.p = p /\ j.phase = "ready"
  BY <1>1, <1>2, JobMade DEF JobKinds
<1> QED
  BY <1>1, <1>2, <1>3 DEF Tasked

LEMMA ReapprovedAre ==
    ASSUME Records, NEW j \in Reapproved
    PROVE  /\ j.b \in Channels /\ Pending(j.b) /\ j.phase = "ready" /\ j.kind = "approve"
           /\ j.p \in routes[j.b].authorities
           /\ j \in AllJobs /\ Tasked(j)
<1>1. PICK r \in Channels : 
        /\ Pending(r)
        /\ \E p \in routes[r].authorities : j = Job("approve", r, p, 0, "ready", {})
  BY DEF Reapproved
<1>2. PICK p : p \in routes[r].authorities /\ j = Job("approve", r, p, 0, "ready", {})
  BY <1>1
<1>3. r \in Businesses /\ r \notin Failovers /\ "ready" \in Phases /\ p \in Principals
  BY <1>2, GovernanceAssumption DEF Businesses, Phases, Records
<1>4. j \in AllJobs /\ j.kind = "approve" /\ j.b = r /\ j.p = p /\ j.phase = "ready"
  BY <1>2, <1>3, JobMade DEF JobKinds
<1> QED
  BY <1>1, <1>2, <1>3, <1>4 DEF Tasked

LEMMA RestartShape == ASSUME Shaped, Restart PROVE Shaped'
<1>1. /\ commit = {} /\ dealing = {}
      /\ spent' = [spent EXCEPT !.restarts = @ + 1]
      /\ jobs' = Resumed \cup Rescheduled \cup Reapproved
      /\ rounds' = [b \in Businesses |-> [p \in Principals |-> Interrupted(b, rounds[b][p])]]
      /\ approval' = [r \in Channels |-> Unclaimed(approval[r])]
      /\ standing' = [b \in Businesses |->
                        IF b \in Channels /\ standing[b] = "PROCESSING" THEN "PENDING"
                        ELSE IF b \in Failovers /\ standing[b] = "PENDING" THEN "ENDED"
                        ELSE standing[b]]
      /\ UNCHANGED <<members, mail, commit, chosen, limit, migVars>>
      /\ UNCHANGED <<routes, projected, notes, agreement, dealing>>
  BY DEF Restart
<1>2. Rows'
  <2>1. \A b \in Businesses, p \in Principals : Row(b, rounds'[b][p]) /\ rounds'[b][p] \in Seq(AllRounds)
    BY <1>1, InterruptedRow DEF Shaped, Row
  <2> QED
    BY <1>1, <2>1 DEF Rows
<1>3. Tasks'
  BY <1>1, ResumedAre, RescheduledAre, ReapprovedAre DEF Shaped, Tasks
<1>4. Plain'
  <2>1. standing' \in [Businesses -> Standings]
    BY <1>1 DEF Shaped, Plain, Standings
  <2>2. spent' \in Bounds
    BY <1>1 DEF Shaped, Plain, Bounds
  <2> QED
    BY <1>1, <2>1, <2>2 DEF Shaped, Plain
<1>5. Records'
  <2>1. /\ approval' \in [Channels -> [Principals -> Answers]]
        /\ \A s \in Channels, p \in Principals : approval'[s][p] # "none" => approval[s][p] # "none"
    <3>1. "PENDING" \in Answers
      BY DEF Answers, RoundStatuses
    <3> QED
      BY <1>1, <3>1 DEF Unclaimed, Shaped, Records
  <2> QED
    BY <1>1, <2>1 DEF Shaped, Records, migVars
<1>6. Commits'
  BY <1>1 DEF Commits
<1> QED
  BY <1>2, <1>3, <1>4, <1>5, <1>6 DEF Shaped

LEMMA ShapedInit == Init => Shaped
<1> SUFFICES ASSUME Init PROVE Shaped
  OBVIOUS
<1>1. PICK s \in Starts :
        /\ members = s.members /\ limit = s.limit
        /\ standing = [b \in Businesses |-> IF b \in s.agenda THEN "none" ELSE "withdrawn"]
  BY DEF Init
<1>2. /\ rounds = [b \in Businesses |-> [p \in Principals |-> <<>>]]
      /\ mail = {} /\ commit = {} /\ jobs = {}
      /\ spent = [rounds |-> 0, changes |-> 0, faults |-> 0, cancels |-> 0, restarts |-> 0]
  BY DEF Init, GovInit
<1>3. Plain
  BY <1>1, <1>2, DecisionsAssumption DEF Plain, Bounds, Standings
<1>4. Rows
  <2>1. <<>> \in Seq(AllRounds) /\ Len(<<>>) = 0
    OBVIOUS
  <2>2. \A b : Row(b, <<>>)
    BY <2>1 DEF Row
  <2>3. rounds \in [Businesses -> [Principals -> Seq(AllRounds)]]
    BY <1>2, <2>1
  <2> QED
    BY <1>2, <2>2, <2>3 DEF Rows
<1>5. Records
  <2>1. plans = [m \in Migrations |-> NoPlan]
    BY DEF Init, MigInit
  <2>2. /\ routes = [r \in Channels |-> NoRoute] /\ approval = [r \in Channels |-> Asked({})]
        /\ notes = {} /\ agreement = [r \in Channels |-> "none"] /\ dealing = {}
    BY DEF Init, BrokerInit
  <2>3. approval \in [Channels -> [Principals -> Answers]]
        /\ \A r \in Channels, p \in Principals : approval[r][p] = "none"
    BY <2>2, AskedOf
  <2> QED
    BY <2>1, <2>2, <2>3 DEF Records, NoPlan, NoRoute
<1> QED
  BY <1>2, <1>3, <1>4, <1>5 DEF Shaped, Tasks, Commits

LEMMA ShapedStays == ASSUME Shaped, UNCHANGED vars PROVE Shaped'
<1>1. /\ UNCHANGED <<members, standing, rounds, mail, commit, jobs, chosen, spent, limit, plans>>
      /\ UNCHANGED <<routes, approval, notes, agreement, dealing>>
  BY DEF vars, govVars, migVars, brokerVars
<1>2. Plain' /\ Records'
  BY <1>1, Spending, RecordsStay DEF Shaped
<1> QED
  BY <1>1, <1>2, JobsStay, IdleShape

LEMMA ShapedStep == ASSUME Shaped, Rooted, [Next]_vars PROVE Shaped'
BY GovShape, MigShape, BrokerShape, AbandonShape, RestartShape, ShapedStays DEF Next

\* A commit in flight can be taken back: what it has changed is as it left it, and what it
\* keeps for its failure (the *_before of create_round, submit, complete_request and
\* _complete_approval_transaction) are records of the right shape; tasks and mails are
\* about rounds that there are.
THEOREM ShapedInvariant == Spec => []Shaped
BY ShapedInit, ShapedStep, RootedInvariant, PTL DEF Spec

-----------------------------------------------------------------------------
(* What has been decided, and committed, stays decided. *)

DecidedIn(b, p, n) ==
    /\ n \in 1..Len(rounds[b][p])
    /\ rounds[b][p][n].status \in {"APPROVED", "DENIED"}
    /\ \A c \in commit : c.op = "submit" /\ c.b = b /\ c.p = p => c.n # n

Stays(b, p) ==
    \A n : DecidedIn(b, p, n) => DecidedIn(b, p, n)' /\ rounds'[b][p][n] = rounds[b][p][n]

LEMMA SameStays ==
    ASSUME NEW b, NEW p, rounds'[b][p] = rounds[b][p],
           \A c \in commit' : c.op = "submit" /\ c.b = b /\ c.p = p => c \in commit
    PROVE  Stays(b, p)
BY DEF Stays, DecidedIn

LEMMA ShutStays ==
    ASSUME NEW b, NEW p, Alike(rounds[b][p], rounds'[b][p]), \A c \in commit' : c.op # "submit"
    PROVE  Stays(b, p)
BY DEF Stays, DecidedIn, Alike, Shut

LEMMA ReopenedStays ==
    ASSUME NEW b, NEW p, Row(b, rounds'[b][p]), Alike(rounds'[b][p], rounds[b][p]),
           \A c \in commit' : c.op # "submit"
    PROVE  Stays(b, p)
<1> SUFFICES ASSUME NEW n, DecidedIn(b, p, n)
               PROVE  DecidedIn(b, p, n)' /\ rounds'[b][p][n] = rounds[b][p][n]
  BY DEF Stays
<1>1. /\ n \in 1..Len(rounds'[b][p]) /\ Shut(rounds'[b][p][n], rounds[b][p][n])
      /\ rounds[b][p][n].status \in {"APPROVED", "DENIED"}
  BY DEF Alike, DecidedIn
<1>2. rounds'[b][p][n] \in AllRounds /\ Earned(b, rounds'[b][p][n])
  BY <1>1 DEF Row
<1>3. rounds'[b][p][n] = rounds[b][p][n]
  BY <1>1, <1>2, ShutRound
<1> QED
  BY <1>1, <1>3 DEF DecidedIn

\* The last round changes, and it is open or is being committed.
LEMMA SetStays ==
    ASSUME NEW b, NEW p, Row(b, rounds[b][p]), NEW n \in DOMAIN rounds[b][p], NEW r,
           rounds'[b][p] = [rounds[b][p] EXCEPT ![n] = r],
           ~DecidedIn(b, p, n),
           \A c \in commit' : c.op = "submit" /\ c.b = b /\ c.p = p => c.n = n
    PROVE  Stays(b, p)
<1> SUFFICES ASSUME NEW k, DecidedIn(b, p, k)
               PROVE  DecidedIn(b, p, k)' /\ rounds'[b][p][k] = rounds[b][p][k]
  BY DEF Stays
<1>1. k # n /\ k \in 1..Len(rounds[b][p]) /\ rounds[b][p] \in Seq(AllRounds)
  BY DEF DecidedIn, Row
<1>2. k \in 1..Len(rounds'[b][p]) /\ rounds'[b][p][k] = rounds[b][p][k]
  BY <1>1
<1> QED
  BY <1>1, <1>2 DEF DecidedIn

LEMMA AppendStays ==
    ASSUME NEW b, NEW p, Row(b, rounds[b][p]), NEW V \in SUBSET Agents, V # {},
           rounds'[b][p] = Append(Superseded(rounds[b][p]), NewRound(V)),
           \A c \in commit' : c.op # "submit"
    PROVE  Stays(b, p)
<1> SUFFICES ASSUME NEW n, DecidedIn(b, p, n)
               PROVE  DecidedIn(b, p, n)' /\ rounds'[b][p][n] = rounds[b][p][n]
  BY DEF Stays
<1> DEFINE seq == rounds[b][p]
<1>1. n \in 1..Len(seq) /\ seq[n].status \in {"APPROVED", "DENIED"} /\ Len(seq) \in Nat
  BY DEF DecidedIn, Row
<1>2. Shut(seq[n], Superseded(seq)[n])
  BY <1>1, SupersededRow
<1>3. Superseded(seq)[n] = seq[n]
  BY <1>1, <1>2 DEF Shut
<1>4. Len(rounds'[b][p]) = Len(seq) + 1 /\ rounds'[b][p][n] = Superseded(seq)[n]
  BY <1>1, RowAppend
<1> QED
  BY <1>1, <1>3, <1>4 DEF DecidedIn

\* The new round is not decided.
LEMMA TruncatedStays ==
    ASSUME NEW b, NEW p, Row(b, rounds'[b][p]), NEW V \in SUBSET Agents, V # {},
           rounds[b][p] = Append(Superseded(rounds'[b][p]), NewRound(V)),
           \A c \in commit' : c.op # "submit"
    PROVE  Stays(b, p)
<1> SUFFICES ASSUME NEW n, DecidedIn(b, p, n)
               PROVE  DecidedIn(b, p, n)' /\ rounds'[b][p][n] = rounds[b][p][n]
  BY DEF Stays
<1>0. PICK seq : seq = rounds'[b][p] /\ Row(b, seq) /\ rounds[b][p] = Append(Superseded(seq), NewRound(V))
  OBVIOUS
<1>1. /\ Len(rounds[b][p]) = Len(seq) + 1 /\ rounds[b][p][Len(seq) + 1] = NewRound(V)
      /\ \A k \in 1..Len(seq) : rounds[b][p][k] = Superseded(seq)[k]
      /\ Len(seq) \in Nat
  <2>1. Len(seq) \in Nat
    BY <1>0 DEF Row
  <2> QED
    BY <1>0, <2>1, RowAppend
<1>2. n \in 1..Len(rounds[b][p]) /\ rounds[b][p][n].status \in {"APPROVED", "DENIED"}
  BY DEF DecidedIn
<1>3. n \in 1..Len(seq)
  <2>1. n # Len(seq) + 1
    BY <1>1, <1>2 DEF NewRound
  <2> QED
    BY <1>1, <1>2, <2>1
<1>4. Shut(seq[n], rounds[b][p][n])
  BY <1>0, <1>1, <1>3, SupersededRow
<1>5. seq[n] \in AllRounds /\ Earned(b, seq[n])
  BY <1>0, <1>3 DEF Row
<1>6. seq[n] = rounds[b][p][n]
  BY <1>2, <1>4, <1>5, ShutRound
<1> QED
  BY <1>0, <1>2, <1>3, <1>6 DEF DecidedIn

Standing == \A b \in Businesses, p \in Principals : Stays(b, p)

LEMMA RestStays ==
    ASSUME UNCHANGED rounds, commit' \subseteq commit PROVE Standing
BY SameStays DEF Standing

LEMMA GovStays ==
    ASSUME Shaped, GovNext, UNCHANGED <<migVars, brokerVars, limit>>
    PROVE  Standing
<1>1. ASSUME NEW j \in jobs,
             CreateReturns(j) \/ FailoverDecided(j) \/ FailoverEnds(j) \/ TalkFails(j)
      PROVE  Standing
  BY <1>1, RestStays DEF CreateReturns, FailoverDecided, FailoverEnds, TalkFails
<1>2. ASSUME NEW j \in jobs, CreateRound(j) PROVE Standing
  <2>1. /\ j.b \in Businesses /\ j.p \in Principals /\ VotersOf(j) \subseteq Agents
        /\ VotersOf(j) # {}
        /\ rounds' = [rounds EXCEPT ![j.b][j.p] = Append(Superseded(@), NewRound(VotersOf(j)))]
        /\ \A c \in commit' : c.op = "create"
    <3>1. j \in AllJobs
      BY DEF Shaped, Tasks
    <3> QED
      BY <1>2, <3>1, JobIs, GovernanceAssumption, SMTT(60) DEF CreateRound, VotersOf, Refused
  <2>2. PICK row : row = Append(Superseded(rounds[j.b][j.p]), NewRound(VotersOf(j)))
    OBVIOUS
  <2>3. /\ rounds'[j.b][j.p] = row
        /\ \A b \in Businesses, p \in Principals : b # j.b \/ p # j.p => rounds'[b][p] = rounds[b][p]
    <3>1. rounds \in [Businesses -> [Principals -> Seq(AllRounds)]]
      BY DEF Shaped, Rows
    <3> QED
      BY <2>1, <2>2, <3>1
  <2>4. Row(j.b, rounds[j.b][j.p])
    BY <2>1, SMTT(60) DEF Shaped, Rows
  <2>5. Stays(j.b, j.p)
    <3>1. PICK V, b, p : V = VotersOf(j) /\ b = j.b /\ p = j.p
      OBVIOUS
    <3>2. V \in SUBSET Agents /\ V # {} /\ Row(b, rounds[b][p])
      BY <2>1, <2>4, <3>1
    <3>3. rounds'[b][p] = Append(Superseded(rounds[b][p]), NewRound(V))
      BY <2>2, <2>3, <3>1
    <3>4. \A c \in commit' : c.op # "submit"
      BY <2>1
    <3>5. Stays(b, p)
      BY <3>2, <3>3, <3>4, AppendStays
    <3> QED
      BY <3>1, <3>5
  <2>6. ASSUME NEW b \in Businesses, NEW p \in Principals, b # j.b \/ p # j.p PROVE Stays(b, p)
    <3>1. rounds'[b][p] = rounds[b][p]
      BY <2>3, <2>6
    <3>2. \A c \in commit' : c.op = "create"
      BY <2>1
    <3> QED
      BY <3>1, <3>2, SameStays
  <2>7. ASSUME NEW b \in Businesses, NEW p \in Principals PROVE Stays(b, p)
    <3>1. CASE b = j.b /\ p = j.p
      BY <2>5, <3>1
    <3>2. CASE b # j.b \/ p # j.p
      BY <2>6, <3>2
    <3> QED
      BY <3>1, <3>2
  <2> QED
    BY <2>7 DEF Standing
<1>3. CASE CreateOk \/ SubmitOk
  BY <1>3, RestStays DEF CreateOk, SubmitOk
<1>4. CASE CreateFails
  <2>1. PICK c \in commit : c.op = "create" /\ commit' = {} /\ rounds' = [rounds EXCEPT ![c.b][c.p] = c.undo]
    BY <1>4 DEF CreateFails
  <2>2. Creating(c) /\ c.b \in Businesses /\ c.p \in Principals
    BY <2>1, JobIs DEF Shaped, Commits, Committed, Creating, Tasks
  <2>3. PICK seq : /\ seq = c.undo /\ Row(c.b, seq) /\ Rows
                   /\ rounds' = [rounds EXCEPT ![c.b][c.p] = seq]
    BY <2>1, <2>2 DEF Shaped, Creating
  <2>4. /\ rounds'[c.b][c.p] = seq
        /\ \A b \in Businesses, p \in Principals : b # c.b \/ p # c.p => rounds'[b][p] = rounds[b][p]
    <3>1. PICK b \in Businesses, p \in Principals : b = c.b /\ p = c.p
      BY <2>2
    <3>2. Row(b, seq) /\ Rows /\ rounds' = [rounds EXCEPT ![b][p] = seq]
      BY <2>3, <3>1
    <3>3. /\ rounds'[b][p] = seq
          /\ \A x \in Businesses, q \in Principals : x # b \/ q # p => rounds'[x][q] = rounds[x][q]
      BY <3>2, SetRow, ZenonT(60)
    <3> QED
      BY <3>1, <3>3
  <2>5. PICK V \in SUBSET Agents : V # {} /\ rounds[c.b][c.p] = Append(Superseded(seq), NewRound(V))
    BY <2>2, <2>3 DEF Creating
  <2>6. Stays(c.b, c.p)
    BY <2>1, <2>3, <2>4, <2>5, TruncatedStays
  <2> QED
    BY <2>1, <2>4, <2>6, SameStays DEF Standing
<1>5. CASE SubmitFails
  <2>1. PICK c \in commit : c.op = "submit" /\ commit' = {} /\ SetRound(c.b, c.p, c.n, c.undo)
    BY <1>5 DEF SubmitFails
  <2>2. Submitting(c) /\ Earned(c.b, c.undo)
    BY <2>1 DEF Shaped, Commits, Committed, Submitting
  <2>3. /\ rounds'[c.b][c.p] = [rounds[c.b][c.p] EXCEPT ![c.n] = c.undo]
        /\ \A b \in Businesses, p \in Principals : b # c.b \/ p # c.p => rounds'[b][p] = rounds[b][p]
    BY <2>1, <2>2, SetRoundRow DEF Shaped, Submitting
  <2>4. Row(c.b, rounds[c.b][c.p]) /\ c.n \in DOMAIN rounds[c.b][c.p] /\ ~DecidedIn(c.b, c.p, c.n)
    <3>1. Row(c.b, rounds[c.b][c.p])
      BY <2>2 DEF Submitting, Shaped, Rows
    <3>2. c.n \in DOMAIN rounds[c.b][c.p]
      BY <2>2, <3>1 DEF Submitting, HasRound, Number, Row
    <3> QED
      BY <2>1, <3>1, <3>2 DEF DecidedIn
  <2>5. Stays(c.b, c.p)
    BY <2>1, <2>3, <2>4, SetStays
  <2> QED
    BY <2>1, <2>3, <2>5, SameStays DEF Standing
<1>6. ASSUME NEW b \in Businesses, NEW p \in Principals, NEW a \in Agents,
             NEW n \in DOMAIN rounds[b][p], NEW x \in Choices(b), Submit(a, b, p, n, x)
      PROVE  Standing
  <2>1. /\ rounds'[b][p] = [rounds[b][p] EXCEPT ![n] = AfterSubmit(b, p, a, x, rounds[b][p][n])]
        /\ \A y \in Businesses, q \in Principals : y # b \/ q # p => rounds'[y][q] = rounds[y][q]
    BY <1>6, SubmitShape
  <2>2. rounds[b][p][n].status = "PENDING" /\ \A c \in commit' : c.b = b /\ c.p = p /\ c.n = n
    BY <1>6 DEF Submit
  <2>3. Row(b, rounds[b][p]) /\ ~DecidedIn(b, p, n)
    BY <2>2 DEF Shaped, Rows, DecidedIn
  <2>4. Stays(b, p)
    BY <2>1, <2>2, <2>3, SetStays
  <2> QED
    BY <2>1, <2>2, <2>4, SameStays DEF Standing
<1>7. ASSUME NEW f \in Failovers, StartFailover(f) \/ Deadline(f) PROVE Standing
  BY <1>7, RestStays DEF StartFailover, Deadline
<1>8. ASSUME NEW j \in jobs, Expire(j) PROVE Standing
  <2>1. CASE ~LatestIs(j.b, j.p, "PENDING")
    BY <1>8, <2>1, RestStays DEF Expire
  <2>2. CASE LatestIs(j.b, j.p, "PENDING")
    <3>1. /\ rounds'[j.b][j.p] = [rounds[j.b][j.p] EXCEPT ![Number(j.b, j.p)] = Latest(j.b, j.p)']
          /\ \A x \in Businesses, q \in Principals : x # j.b \/ q # j.p => rounds'[x][q] = rounds[x][q]
      BY <1>8, <2>2, ExpireShape
    <3>2. \A c \in commit' : c.b = j.b /\ c.p = j.p /\ c.n = Number(j.b, j.p)
      BY <1>8, <2>2 DEF Expire
    <3>3. j.b \in Businesses /\ j.p \in Principals
      BY JobIs DEF Shaped, Tasks
    <3>4. Row(j.b, rounds[j.b][j.p]) /\ Number(j.b, j.p) \in DOMAIN rounds[j.b][j.p]
      <4>1. Row(j.b, rounds[j.b][j.p])
        BY <3>3 DEF Shaped, Rows
      <4> QED
        BY <2>2, <4>1 DEF LatestIs, HasRound, Number, Row
    <3>5. ~DecidedIn(j.b, j.p, Number(j.b, j.p))
      BY <2>2 DEF LatestIs, DecidedIn, Latest
    <3>6. Stays(j.b, j.p)
      BY <3>1, <3>2, <3>4, <3>5, SetStays
    <3> QED
      BY <3>1, <3>2, <3>6, SameStays DEF Standing
  <2> QED
    BY <2>1, <2>2
<1>9. ASSUME NEW t, NEW a, ChangeMembers(t, a) PROVE Standing
  BY <1>9, RestStays DEF ChangeMembers
<1> QED
  BY <1>1, <1>2, <1>3, <1>4, <1>5, <1>6, <1>7, <1>8, <1>9 DEF GovNext

LEMMA AlikeStays ==
    ASSUME NEW x \in Businesses, \A c \in commit' : c.op # "submit",
           \A p \in Principals : Alike(rounds[x][p], rounds'[x][p]),
           \A b \in Businesses : b # x => rounds'[b] = rounds[b]
    PROVE  Standing
BY SameStays, ShutStays DEF Standing

LEMMA UnlikeStays ==
    ASSUME NEW x \in Businesses, \A c \in commit' : c.op # "submit",
           \A p \in Principals : Row(x, rounds'[x][p]) /\ Alike(rounds'[x][p], rounds[x][p]),
           \A b \in Businesses : b # x => rounds'[b] = rounds[b]
    PROVE  Standing
BY SameStays, ReopenedStays DEF Standing

LEMMA MigStays ==
    ASSUME Shaped, MigNext, UNCHANGED <<brokerVars, limit>>
    PROVE  Standing
<1>1. ASSUME NEW x \in Moves, Negotiate(x[1], x[2], x[3]) PROVE Standing
  BY <1>1, RestStays DEF Negotiate
<1>2. CASE NegotiateOk \/ NegotiateCancelled \/ NegotiateFails \/ ResolveOk
  BY <1>2, RestStays DEF NegotiateOk, NegotiateCancelled, NegotiateFails, ResolveOk
<1>3. ASSUME NEW m \in Migrations, Insist(m) PROVE Standing
  BY <1>3, RestStays DEF Insist
<1>4. ASSUME NEW j \in jobs, Prepare(j) \/ Nothing(j) PROVE Standing
  BY <1>4, RestStays DEF Prepare, Nothing
<1>5. ASSUME NEW j \in jobs, Resolve(j) PROVE Standing
  <2>0. j.b \in Businesses /\ \A c \in commit' : c.op = "migrate"
    BY <1>5 DEF Resolve, Completes, Businesses
  <2>1. /\ rounds'[j.b] = ClosedRounds(j.b)
        /\ \A x \in Businesses : x # j.b => rounds'[x] = rounds[x]
    BY <1>5, ResolveShape
  <2>2. \A p \in Principals : Alike(rounds[j.b][p], rounds'[j.b][p])
    BY <2>0, <2>1, ClosedRow DEF Shaped
  <2> QED
    BY <2>0, <2>1, <2>2, AlikeStays
<1>6. CASE ResolveFails
  <2>1. PICK c \in commit : c.op = "migrate" /\ commit' = {} /\ rounds' = [rounds EXCEPT ![c.b] = c.undo]
    BY <1>6 DEF ResolveFails
  <2>2. Migrating(c) /\ c.b \in Businesses
    BY <2>1 DEF Shaped, Commits, Committed, Migrating, Businesses
  <2>3. rounds'[c.b] = c.undo /\ \A x \in Businesses : x # c.b => rounds'[x] = rounds[x]
    BY <2>1, <2>2, SetRows DEF Shaped, Migrating
  <2> QED
    BY <2>1, <2>2, <2>3, UnlikeStays DEF Migrating
<1>7. ASSUME NEW t \in Teams, BeginDiscussion(t) PROVE Standing
  BY <1>7, RestStays DEF BeginDiscussion, govVars
<1> QED
  BY <1>1, <1>2, <1>3, <1>4, <1>5, <1>6, <1>7 DEF MigNext

LEMMA BrokerStays ==
    ASSUME Shaped, Rooted, BrokerNext, UNCHANGED limit
    PROVE  Standing
<1>1. ASSUME NEW x \in Pairs, RequestChannel(x[1], x[2], x[3]) PROVE Standing
  BY <1>1, RestStays DEF RequestChannel, govButStandingJobs
<1>2. CASE \/ RequestOk \/ RequestCancelled \/ RequestFails \/ RevokeOk \/ RevokeFails
           \/ ApproveOk \/ ApproveCancelled
  BY <1>2, RestStays DEF RequestOk, RequestCancelled, RequestFails, RevokeOk, RevokeFails, ApproveOk,
     ApproveCancelled, govButStandingJobs, govVars
<1>3. ASSUME NEW r \in Channels, Revoke(r) PROVE Standing
  BY <1>3, RestStays DEF Revoke, govVars
<1>4. ASSUME NEW t \in Teams, NEW r \in Channels, StartTalk(t, r) PROVE Standing
  BY <1>4, RestStays DEF StartTalk, govButStandingJobs
<1>5. ASSUME NEW j \in jobs, Claim(j) \/ ClaimCancelled(j) \/ ClaimedAlready(j) \/ CompleteLapsed(j)
      PROVE  Standing
  BY <1>5, RestStays DEF Claim, ClaimCancelled, ClaimedAlready, CompleteLapsed, govButStandingJobs
<1>6. ASSUME NEW j \in jobs, NEW next \in SUBSET Channels, CompleteApproval(j, next) PROVE Standing
  <2>1. PICK s, apps, st, path : Completion(j, next, s, apps, st, path) /\ j.b \in Channels
    BY <1>6, CompletionIs
  <2>2. /\ \A p \in Principals : Alike(rounds[j.b][p], rounds'[j.b][p])
        /\ \A x \in Businesses : x # j.b => rounds'[x] = rounds[x]
    BY <2>1, CompletionRounds
  <2>3. (\A c \in commit' : c.op = "approve") /\ j.b \in Businesses
    BY <2>1 DEF Completion, Businesses
  <2> QED
    BY <2>2, <2>3, AlikeStays
<1>7. CASE ApproveFails
  <2>1. PICK c \in commit : c.op = "approve" /\ commit' = {} /\ rounds' = [rounds EXCEPT ![c.b] = c.rounds]
    BY <1>7 DEF ApproveFails
  <2>2. Completing(c) /\ c.b \in Businesses
    BY <2>1 DEF Shaped, Commits, Committed, Completing, Businesses
  <2>3. rounds'[c.b] = c.rounds /\ \A x \in Businesses : x # c.b => rounds'[x] = rounds[x]
    BY <2>1, <2>2, SetRows DEF Shaped, Completing
  <2> QED
    BY <2>1, <2>2, <2>3, UnlikeStays DEF Completing
<1> QED
  BY <1>1, <1>2, <1>3, <1>4, <1>5, <1>6, <1>7 DEF BrokerNext

LEMMA DecisionsStay ==
    ASSUME Shaped, Rooted, [Next]_vars
    PROVE  Standing
<1>1. CASE Restart
  <2>1. commit = {} /\ commit' = {}
    BY <1>1 DEF Restart
  <2>2. \A b \in Businesses, p \in Principals : rounds'[b][p] = Interrupted(b, rounds[b][p])
    BY <1>1 DEF Restart
  <2>3. \A b \in Businesses, p \in Principals : Alike(rounds[b][p], rounds'[b][p])
    BY <2>2, InterruptedRow DEF Shaped
  <2> QED
    BY <2>1, <2>3, ShutStays DEF Standing
<1>2. CASE UNCHANGED vars
  BY <1>2, RestStays DEF vars, govVars
<1>3. ASSUME NEW j \in jobs, Abandon(j) PROVE Standing
  BY <1>3, AbandonSays, RestStays
<1> QED
  BY <1>1, <1>2, <1>3, GovStays, MigStays, BrokerStays DEF Next

-----------------------------------------------------------------------------
(* Tasks that have come to a decision, and the types of the approvals.     *)

Concluded(j) ==
    (j.kind = "resolve" /\ j.b \in Channels) \/ j.phase = "decided" => DecidedIn(j.b, j.p, j.n)

Conclusions == \A j \in jobs : Concluded(j)

\* Nothing has been decided for such a task.
Undecided(k) == k.phase # "decided" /\ (k.kind = "resolve" => k.b \notin Channels)

LEMMA NewConclusions ==
    ASSUME Shaped, Standing, Conclusions,
           \A k \in jobs' : k \in jobs \/ Undecided(k) \/ DecidedIn(k.b, k.p, k.n)'
    PROVE  Conclusions'
<1>1. ASSUME NEW k \in jobs' PROVE Concluded(k)'
  <2>1. CASE k \in jobs
    <3>1. k.b \in Businesses /\ k.p \in Principals
      BY <2>1, JobIs DEF Shaped, Tasks
    <3> QED
      BY <2>1, <3>1 DEF Conclusions, Concluded, Standing, Stays
  <2>2. CASE Undecided(k)
    BY <2>2 DEF Undecided, Concluded
  <2>3. CASE DecidedIn(k.b, k.p, k.n)'
    BY <2>3 DEF Concluded
  <2> QED
    BY <1>1, <2>1, <2>2, <2>3
<1> QED
  BY <1>1 DEF Conclusions

LEMMA GovConclusions ==
    ASSUME Shaped, Rooted, Conclusions, GovNext, UNCHANGED <<migVars, brokerVars, limit>>
    PROVE  Conclusions'
<1>0. Standing
  BY GovStays
<1>1. ASSUME NEW j \in jobs, CreateReturns(j) PROVE Conclusions'
  <2>1. /\ j \in AllJobs /\ AtCreate(j) /\ commit = {} /\ UNCHANGED <<rounds, commit>>
        /\ j.kind \in {"approve", "prepare", "failover"}
    BY <1>1 DEF CreateReturns, Shaped, Tasks, Unlocked, AtCreate
  <2>2. PICK k, ph : /\ Advance(j, k) /\ ph \in {"decided", "undecided"}
                     /\ \/ ph = "undecided" /\ k = [j EXCEPT !.phase = ph]
                        \/ /\ HasRound(j.b, j.p)
                           /\ ph = "decided" => Latest(j.b, j.p).status \in {"APPROVED", "DENIED"}
                           /\ k = [j EXCEPT !.n = Number(j.b, j.p), !.phase = ph]
    BY <1>1 DEF CreateReturns, Existing
  <2>3. j.b \in Businesses /\ j.p \in Principals /\ rounds[j.b][j.p] \in Seq(AllRounds)
    BY <2>1, JobIs DEF Shaped, Rows
  <2>4. ph \in Phases /\ Number(j.b, j.p) \in Nat
    BY <2>2, <2>3 DEF Phases, Number
  <2>5. CASE ph = "undecided" /\ k = [j EXCEPT !.phase = ph]
    <3>1. Undecided(k)
      BY <2>1, <2>4, <2>5, Rephased DEF Undecided, Later
    <3> QED
      BY <1>0, <2>2, <3>1, NewConclusions DEF Advance
  <2>6. CASE /\ HasRound(j.b, j.p)
             /\ ph = "decided" => Latest(j.b, j.p).status \in {"APPROVED", "DENIED"}
             /\ k = [j EXCEPT !.n = Number(j.b, j.p), !.phase = ph]
    <3>1. Later(j, k, ph) /\ k.n = Number(j.b, j.p)
      <4>1. PICK n \in Nat : n = Number(j.b, j.p) /\ k = [j EXCEPT !.n = n, !.phase = ph]
        BY <2>4, <2>6
      <4> QED
        BY <2>1, <2>4, <4>1, Renumbered, ZenonT(60)
    <3>2. ph = "undecided" => Undecided(k)
      BY <2>1, <3>1 DEF Undecided, Later
    <3>3. ph = "decided" => DecidedIn(j.b, j.p, Number(j.b, j.p))'
      <4>1. Number(j.b, j.p) \in 1..Len(rounds[j.b][j.p])
        BY <2>3, <2>6 DEF HasRound, Number
      <4> QED
        BY <2>1, <2>6, <4>1 DEF DecidedIn, Latest, Number
    <3>4. ph = "decided" => DecidedIn(k.b, k.p, k.n)'
      BY <2>1, <3>1, <3>3 DEF Later, DecidedIn, Number
    <3> QED
      BY <1>0, <2>2, <3>2, <3>4, NewConclusions, SMTT(60) DEF Advance
  <2> QED
    BY <2>2, <2>5, <2>6
<1>2. ASSUME NEW j \in jobs, CreateRound(j) \/ FailoverDecided(j) \/ TalkFails(j) \/ Expire(j)
      PROVE  Conclusions'
  <2>1. jobs' \subseteq jobs
    BY <1>2 DEF CreateRound, FailoverDecided, TalkFails, Expire, Finish
  <2> QED
    BY <1>0, <2>1, NewConclusions
<1>3. CASE CreateOk \/ CreateFails
  <2>1. PICK c \in commit : /\ c.op = "create"
                            /\ \/ Finish(c.job)
                               \/ Advance(c.job, [c.job EXCEPT !.phase = "undecided"])
                               \/ Advance(c.job, [c.job EXCEPT !.phase = "undecided", !.n = Number(c.b, c.p)])
    BY <1>3 DEF CreateOk, CreateFails
  <2>2. /\ c.job \in AllJobs /\ c.job.kind # "resolve" /\ Number(c.b, c.p) \in Nat
        /\ "undecided" \in Phases
    <3>1. Creating(c) /\ c.job \in AllJobs
      BY <2>1 DEF Shaped, Commits, Committed, Creating, Tasks
    <3>2. c.job.kind # "resolve" /\ c.b \in Businesses /\ c.p \in Principals
      BY <3>1, JobIs DEF Creating, AtCreate
    <3> QED
      BY <3>1, <3>2 DEF Number, Shaped, Rows, Phases
  <2>3. CASE Finish(c.job)
    BY <1>0, <2>3, NewConclusions DEF Finish
  <2>4. ASSUME NEW k, Later(c.job, k, "undecided"), Advance(c.job, k) PROVE Conclusions'
    BY <1>0, <2>2, <2>4, NewConclusions DEF Advance, Later, Undecided
  <2> QED
    BY <2>1, <2>2, <2>3, <2>4, Rephased, Renumbered
<1>4. CASE SubmitOk
  <2>1. PICK c \in commit : /\ c.op = "submit" /\ commit' = {} /\ rounds' = rounds
                            /\ jobs' = jobs \cup Resolutions(c)
    BY <1>4 DEF SubmitOk
  <2>2. /\ c.b \in Businesses /\ c.p \in Principals /\ HasRound(c.b, c.p) /\ c.n = Number(c.b, c.p)
        /\ rounds[c.b][c.p] \in Seq(AllRounds)
    BY <2>1 DEF Shaped, Commits, Committed, Submitting, Rows
  <2>3. c.n \in Nat /\ c.n > 0 /\ c.n \in 1..Len(rounds[c.b][c.p])
    BY <2>2 DEF Number, HasRound
  <2>4. ASSUME NEW k \in Resolutions(c) PROVE DecidedIn(k.b, k.p, k.n)'
    <3>1. /\ k.b = c.b /\ k.p = c.p /\ k.n = c.n
          /\ rounds[c.b][c.p][c.n].status \in {"APPROVED", "DENIED"}
      BY <2>2, <2>3, ResolutionsAre
    <3> QED
      BY <2>1, <2>3, <3>1 DEF DecidedIn
  <2> QED
    BY <1>0, <2>1, <2>4, NewConclusions
<1>5. CASE SubmitFails
  BY <1>0, <1>5, NewConclusions DEF SubmitFails
<1>6. ASSUME NEW b, NEW p, NEW a, NEW n, NEW x, Submit(a, b, p, n, x) PROVE Conclusions'
  BY <1>0, <1>6, NewConclusions DEF Submit
<1>7. ASSUME NEW f \in Failovers, StartFailover(f) \/ Deadline(f) PROVE Conclusions'
  <2>1. \A k \in jobs' : k \in jobs \/ k = Job("failover", f, Overseer, 0, "talking", members[Overseer])
    BY <1>7 DEF StartFailover, Deadline
  <2>2. Undecided(Job("failover", f, Overseer, 0, "talking", members[Overseer]))
    BY DEF Undecided, Job
  <2> QED
    BY <1>0, <2>1, <2>2, NewConclusions
<1>8. ASSUME NEW j \in jobs, FailoverEnds(j) PROVE Conclusions'
  <2>1. j \in AllJobs /\ j.kind = "failover" /\ "expiring" \in Phases
    BY <1>8 DEF FailoverEnds, Shaped, Tasks, Phases
  <2>2. Undecided([j EXCEPT !.phase = "expiring"])
    BY <2>1, Rephased DEF Undecided, Later
  <2>3. \A k \in jobs' : k \in jobs \/ k = [j EXCEPT !.phase = "expiring"]
    BY <1>8 DEF FailoverEnds, Advance, Finish
  <2> QED
    BY <1>0, <2>2, <2>3, NewConclusions
<1>9. ASSUME NEW t, NEW a, ChangeMembers(t, a) PROVE Conclusions'
  BY <1>0, <1>9, NewConclusions DEF ChangeMembers
<1> QED
  BY <1>1, <1>2, <1>3, <1>4, <1>5, <1>6, <1>7, <1>8, <1>9 DEF GovNext

LEMMA MigConclusions ==
    ASSUME Shaped, Rooted, Conclusions, MigNext, UNCHANGED <<brokerVars, limit>>
    PROVE  Conclusions'
<1>0. Standing
  BY MigStays
<1>1. ASSUME NEW x \in Moves, Negotiate(x[1], x[2], x[3]) PROVE Conclusions'
  BY <1>0, <1>1, NewConclusions DEF Negotiate
<1>9. spent' \in Bounds
  BY MigShape DEF Shaped, Plain
<1>2. ASSUME NEW m \in Migrations, plans' = plans,
             jobs' \in {jobs \cup Scheduled(m), jobs \cup Followed(m)}
      PROVE  Conclusions'
  <2>1. \A k \in Scheduled(m) \cup Followed(m) : Undecided(k)
    BY <1>2, <1>9, ScheduledAre, GovernanceAssumption DEF Undecided
  <2> QED
    BY <1>0, <1>2, <2>1, NewConclusions
<1>3. CASE NegotiateOk \/ NegotiateCancelled
  BY <1>2, <1>3 DEF NegotiateOk, NegotiateCancelled, Rooted
<1>4. ASSUME NEW m \in Migrations, Insist(m) PROVE Conclusions'
  BY <1>2, <1>4 DEF Insist
<1>5. CASE NegotiateFails \/ ResolveOk \/ ResolveFails
  <2>1. UNCHANGED jobs
    BY <1>5 DEF NegotiateFails, ResolveOk, ResolveFails
  <2> QED
    BY <1>0, <2>1, NewConclusions
<1>6. ASSUME NEW j \in jobs, Prepare(j) PROVE Conclusions'
  <2>1. /\ j \in AllJobs /\ j.kind = "prepare"
        /\ \A k \in jobs' : k \in jobs \/ k = [j EXCEPT !.phase = "talking", !.snap = Electorate(j.p)]
    BY <1>6 DEF Prepare, Shaped, Tasks, Advance, Finish
  <2>2. Undecided([j EXCEPT !.phase = "talking", !.snap = Electorate(j.p)])
    BY <2>1 DEF Undecided, AllJobs
  <2> QED
    BY <1>0, <2>1, <2>2, NewConclusions
<1>7. ASSUME NEW j \in jobs, Nothing(j) \/ Resolve(j) PROVE Conclusions'
  <2>1. jobs' \subseteq jobs
    BY <1>7 DEF Nothing, Resolve, Finish
  <2> QED
    BY <1>0, <2>1, NewConclusions
<1>8. ASSUME NEW t \in Teams, BeginDiscussion(t) PROVE Conclusions'
  BY <1>0, <1>8, NewConclusions DEF BeginDiscussion, govVars
<1> QED
  BY <1>1, <1>3, <1>4, <1>5, <1>6, <1>7, <1>8 DEF MigNext

LEMMA BrokerConclusions ==
    ASSUME Shaped, Rooted, Conclusions, BrokerNext, UNCHANGED limit
    PROVE  Conclusions'
<1>0. Standing
  BY BrokerStays
<1>1. ASSUME UNCHANGED jobs PROVE Conclusions'
  BY <1>0, <1>1, NewConclusions
<1>2. ASSUME NEW x \in Pairs, RequestChannel(x[1], x[2], x[3]) PROVE Conclusions'
  BY <1>1, <1>2 DEF RequestChannel
<1>3. CASE \/ RequestCancelled \/ RequestFails \/ RevokeOk \/ RevokeFails
           \/ ApproveCancelled \/ ApproveFails
  BY <1>1, <1>3 DEF RequestCancelled, RequestFails, RevokeOk, RevokeFails, ApproveCancelled,
     ApproveFails, govVars
<1>4. ASSUME NEW r \in Channels, Revoke(r) PROVE Conclusions'
  BY <1>1, <1>4 DEF Revoke, govVars
<1>5. CASE RequestOk
  <2>1. PICK d \in dealing : jobs' = jobs \cup InitialApprovals(d.b, routes[d.b].authorities)
    BY <1>5 DEF RequestOk
  <2>2. d.b \in Channels /\ routes[d.b].authorities \subseteq Principals
    BY DEF Shaped, Records
  <2>3. \A k \in InitialApprovals(d.b, routes[d.b].authorities) : Undecided(k)
    BY <2>2, InitialAre DEF Undecided
  <2> QED
    BY <1>0, <2>1, <2>3, NewConclusions
<1>6. CASE ApproveOk
  <2>1. PICK c \in commit : /\ c.op = "approve"
                            /\ jobs' = jobs \cup UNION {InitialApprovals(x, routes[x].authorities) : x \in c.next}
    BY <1>6 DEF ApproveOk
  <2>2. c.next \subseteq Channels /\ \A x \in c.next : routes[x].authorities \subseteq Principals
    BY <2>1 DEF Shaped, Commits, Committed, Completing, Records
  <2>3. \A k \in UNION {InitialApprovals(x, routes[x].authorities) : x \in c.next} : Undecided(k)
    BY <2>2, InitialAre DEF Undecided
  <2> QED
    BY <1>0, <2>1, <2>3, NewConclusions
<1>7. ASSUME NEW t \in Teams, NEW r \in Channels, StartTalk(t, r) PROVE Conclusions'
  <2>1. \A k \in jobs' : k \in jobs \/ k = Job("approve", r, t, 0, "talking", members[t])
    BY <1>7 DEF StartTalk
  <2>2. Undecided(Job("approve", r, t, 0, "talking", members[t]))
    BY DEF Undecided, Job
  <2> QED
    BY <1>0, <2>1, <2>2, NewConclusions
<1>10. ASSUME NEW j \in jobs, ClaimCancelled(j) PROVE Conclusions'
  <2>1. j \in AllJobs /\ j.kind = "approve" /\ "releasing" \in Phases
    BY <1>10 DEF ClaimCancelled, Shaped, Tasks, Phases
  <2>2. Undecided([j EXCEPT !.phase = "releasing"])
    BY <2>1, Rephased DEF Undecided, Later
  <2> QED
    BY <1>0, <1>10, <2>2, NewConclusions DEF ClaimCancelled, Advance
<1>8. ASSUME NEW j \in jobs, Claim(j) \/ ClaimedAlready(j) \/ CompleteLapsed(j) PROVE Conclusions'
  <2>1. /\ j \in AllJobs /\ "claimed" \in Phases /\ "decided" \in Phases
        /\ j.b \in Businesses /\ j.p \in Principals
    BY JobIs DEF Shaped, Tasks, Phases
  <2>2. \/ jobs' \subseteq jobs
        \/ j.kind = "approve" /\ Advance(j, [j EXCEPT !.phase = "claimed"])
        \/ j.kind = "resolve" /\ j.b \in Channels /\ Advance(j, [j EXCEPT !.phase = "decided"])
    BY <1>8 DEF Claim, ClaimedAlready, CompleteLapsed, Finish
  <2>3. CASE jobs' \subseteq jobs
    BY <1>0, <2>3, NewConclusions
  <2>4. CASE j.kind = "approve" /\ Advance(j, [j EXCEPT !.phase = "claimed"])
    <3>1. Undecided([j EXCEPT !.phase = "claimed"])
      BY <2>1, <2>4, Rephased DEF Undecided, Later
    <3> QED
      BY <1>0, <2>4, <3>1, NewConclusions DEF Advance
  <2>5. CASE j.kind = "resolve" /\ j.b \in Channels /\ Advance(j, [j EXCEPT !.phase = "decided"])
    <3>1. DecidedIn(j.b, j.p, j.n)'
      BY <1>0, <2>1, <2>5 DEF Conclusions, Concluded, Standing, Stays
    <3>2. PICK k : k = [j EXCEPT !.phase = "decided"]
      OBVIOUS
    <3>3. Later(j, k, "decided") /\ k.n = j.n
      BY <2>1, <3>2, Rephased
    <3>4. DecidedIn(k.b, k.p, k.n)'
      BY <3>1, <3>3 DEF Later, DecidedIn
    <3> QED
      BY <1>0, <2>5, <3>2, <3>4, NewConclusions DEF Advance
  <2> QED
    BY <2>2, <2>3, <2>4, <2>5
<1>9. ASSUME NEW j \in jobs, NEW next \in SUBSET Channels, CompleteApproval(j, next) PROVE Conclusions'
  <2>1. jobs' \subseteq jobs
    BY <1>9 DEF CompleteApproval, Finish
  <2> QED
    BY <1>0, <2>1, NewConclusions
<1> QED
  BY <1>2, <1>3, <1>4, <1>5, <1>6, <1>7, <1>8, <1>9, <1>10 DEF BrokerNext

LEMMA ConclusionsStep ==
    ASSUME Shaped, Rooted, Conclusions, [Next]_vars
    PROVE  Conclusions'
<1>0. Standing
  BY DecisionsStay
<1>1. CASE Restart
  <2>1. /\ commit = {} /\ commit' = {}
        /\ jobs' = Resumed \cup Rescheduled \cup Reapproved
        /\ rounds' = [b \in Businesses |-> [p \in Principals |-> Interrupted(b, rounds[b][p])]]
    BY <1>1 DEF Restart
  <2>2. ASSUME NEW k \in Resumed PROVE DecidedIn(k.b, k.p, k.n)'
    <3>1. DecidedIn(k.b, k.p, k.n) /\ k.b \in Businesses /\ k.p \in Principals
      BY <2>1, ResumedAre DEF Shaped, DecidedIn
    <3> QED
      BY <1>0, <3>1 DEF Standing, Stays
  <2>3. \A k \in Rescheduled \cup Reapproved : Undecided(k)
    BY RescheduledAre, ReapprovedAre, GovernanceAssumption DEF Shaped, Undecided
  <2> QED
    BY <1>0, <2>1, <2>2, <2>3, NewConclusions
<1>2. CASE UNCHANGED vars
  BY <1>0, <1>2, NewConclusions DEF vars, govVars
<1>3. ASSUME NEW j \in jobs, Abandon(j) PROVE Conclusions'
  BY <1>0, <1>3, AbandonSays, NewConclusions DEF Finish
<1> QED
  BY <1>1, <1>2, <1>3, GovConclusions, MigConclusions, BrokerConclusions DEF Next

-----------------------------------------------------------------------------
(* The types of the approvals and of what a failover has chosen.           *)

Rulings == {"none", "PENDING", "PROCESSING", "APPROVED", "DENIED", "CANCELLED"}

Answered ==
    /\ approval \in [Channels -> [Principals -> Rulings]]
    /\ \A c \in commit : c.op = "approve" => c.approval \in [Principals -> Rulings]

\* The outcome of an approval is that of a decided round.
LEMMA OutcomeIs ==
    ASSUME Shaped, Conclusions, NEW j \in jobs
    PROVE  /\ Outcome(j) \in {"PENDING", "APPROVED", "DENIED"}
           /\ Outcome(j) # "PENDING" =>
                LatestIs(j.b, j.p, Outcome(j)) /\ Valid(j.p, Latest(j.b, j.p))
<1>1. CASE j.phase = "decided" /\ j.n = Number(j.b, j.p) /\ Valid(j.p, Latest(j.b, j.p))
  <2>1. DecidedIn(j.b, j.p, j.n)
    BY <1>1 DEF Conclusions, Concluded
  <2>2. Outcome(j) = Latest(j.b, j.p).status /\ Outcome(j) = rounds[j.b][j.p][j.n].status
    BY <1>1 DEF Outcome, Latest
  <2>3. HasRound(j.b, j.p)
    BY <2>1 DEF DecidedIn, HasRound
  <2> QED
    BY <1>1, <2>1, <2>2, <2>3 DEF DecidedIn, LatestIs
<1>2. CASE ~(j.phase = "decided" /\ j.n = Number(j.b, j.p) /\ Valid(j.p, Latest(j.b, j.p)))
  BY <1>2 DEF Outcome
<1> QED
  BY <1>1, <1>2

LEMMA AnsweredStays ==
    ASSUME Answered, UNCHANGED approval, \A c \in commit' : c \in commit \/ c.op # "approve"
    PROVE  Answered'
BY DEF Answered

\* Nothing but CompleteApproval begins to commit an approval.
LEMMA NoApprovalBegins ==
    ASSUME GovNext \/ MigNext
    PROVE  \A c \in commit' : c \in commit \/ c.op # "approve"
<1> DEFINE Goal == \A c \in commit' : c \in commit \/ c.op # "approve"
<1>1. CASE GovNext
  <2>1. ASSUME NEW j \in jobs,
               CreateReturns(j) \/ CreateRound(j) \/ FailoverDecided(j) \/ FailoverEnds(j) \/ Expire(j)
               \/ TalkFails(j)
        PROVE  Goal
    BY <2>1 DEF CreateReturns, CreateRound, FailoverDecided, FailoverEnds, Expire, TalkFails
  <2>2. CreateOk \/ CreateFails \/ SubmitOk \/ SubmitFails => Goal
    BY DEF CreateOk, CreateFails, SubmitOk, SubmitFails
  <2>3. ASSUME NEW b, NEW p, NEW a, NEW n, NEW x, Submit(a, b, p, n, x) PROVE Goal
    BY <2>3 DEF Submit
  <2>4. ASSUME NEW f \in Failovers, StartFailover(f) \/ Deadline(f) PROVE Goal
    BY <2>4 DEF StartFailover, Deadline
  <2>5. ASSUME NEW t, NEW a, ChangeMembers(t, a) PROVE Goal
    BY <2>5 DEF ChangeMembers
  <2> QED
    BY <1>1, <2>1, <2>2, <2>3, <2>4, <2>5 DEF GovNext
<1>2. CASE MigNext
  <2>1. ASSUME NEW x, Negotiate(x[1], x[2], x[3]) PROVE Goal
    BY <2>1 DEF Negotiate
  <2>2. NegotiateOk \/ NegotiateCancelled \/ NegotiateFails \/ ResolveOk \/ ResolveFails => Goal
    BY DEF NegotiateOk, NegotiateCancelled, NegotiateFails, ResolveOk, ResolveFails
  <2>3. ASSUME NEW m, Insist(m) PROVE Goal
    BY <2>3 DEF Insist
  <2>4. ASSUME NEW j \in jobs, Prepare(j) \/ Nothing(j) \/ Resolve(j) PROVE Goal
    BY <2>4 DEF Prepare, Nothing, Resolve
  <2>5. ASSUME NEW t \in Teams, BeginDiscussion(t) PROVE Goal
    BY <2>5 DEF BeginDiscussion, govVars
  <2> QED
    BY <1>2, <2>1, <2>2, <2>3, <2>4, <2>5 DEF MigNext
<1> QED
  BY <1>1, <1>2

LEMMA AnsweredStep ==
    ASSUME Shaped, Rooted, Conclusions, Answered, [Next]_vars
    PROVE  Answered'
<1>1. CASE GovNext /\ UNCHANGED <<migVars, brokerVars, limit>>
  BY <1>1, NoApprovalBegins, AnsweredStays DEF brokerVars
<1>2. CASE MigNext /\ UNCHANGED <<brokerVars, limit>>
  BY <1>2, NoApprovalBegins, AnsweredStays DEF brokerVars
<1>3. CASE BrokerNext /\ UNCHANGED limit
  <2>0. \A ps : Asked(ps) \in [Principals -> Rulings]
    BY DEF Asked, Rulings
  <2>1. ASSUME NEW x \in Pairs, RequestChannel(x[1], x[2], x[3]) PROVE Answered'
    BY <2>0, <2>1 DEF RequestChannel, govButStandingJobs, Answered
  <2>2. CASE RequestOk \/ RequestCancelled \/ RevokeOk \/ RevokeFails \/ ApproveOk \/ ApproveCancelled
    BY <2>2, AnsweredStays DEF RequestOk, RequestCancelled, RevokeOk, RevokeFails, ApproveOk,
       ApproveCancelled, govButStandingJobs, govVars
  <2>3. CASE RequestFails
    <3>1. PICK r : approval' = [approval EXCEPT ![r] = Asked({})] /\ UNCHANGED commit
      BY <2>3 DEF RequestFails, govButStandingJobs
    <3>2. approval \in [Channels -> [Principals -> Rulings]]
      BY DEF Answered
    <3>3. approval' \in [Channels -> [Principals -> Rulings]]
      BY <2>0, <3>1, <3>2
    <3> QED
      BY <3>1, <3>3 DEF Answered
  <2>4. ASSUME NEW r \in Channels, Revoke(r) PROVE Answered'
    BY <2>4, AnsweredStays DEF Revoke, govVars
  <2>5. ASSUME NEW t \in Teams, NEW r \in Channels, StartTalk(t, r) PROVE Answered'
    BY <2>5, AnsweredStays DEF StartTalk, govButStandingJobs, brokerVars
  <2>6. ASSUME NEW j \in jobs, Claim(j) PROVE Answered'
    <3>1. UNCHANGED commit /\ \/ UNCHANGED approval
                              \/ approval' = [approval EXCEPT ![j.b][j.p] = "PROCESSING"]
      BY <2>6 DEF Claim, govButStandingJobs
    <3>2. ASSUME approval' = [approval EXCEPT ![j.b][j.p] = "PROCESSING"] PROVE Answered'
      <4>1. PICK b, p : b = j.b /\ p = j.p
        OBVIOUS
      <4>2. "PROCESSING" \in Rulings
        BY DEF Rulings
      <4>3. approval \in [Channels -> [Principals -> Rulings]]
        BY DEF Answered
      <4>4. approval' = [approval EXCEPT ![b][p] = "PROCESSING"]
        BY <3>2, <4>1
      <4>5. approval' \in [Channels -> [Principals -> Rulings]]
        BY <4>2, <4>3, <4>4
      <4> QED
        BY <3>1, <4>5 DEF Answered
    <3> QED
      BY <3>1, <3>2, AnsweredStays
  <2>7. ASSUME NEW j \in jobs, ClaimCancelled(j) \/ ClaimedAlready(j) \/ CompleteLapsed(j)
        PROVE  Answered'
    BY <2>7, AnsweredStays DEF ClaimCancelled, ClaimedAlready, CompleteLapsed, govButStandingJobs, brokerVars
  <2>8. ASSUME NEW j \in jobs, NEW next \in SUBSET Channels, CompleteApproval(j, next) PROVE Answered'
    <3>1. PICK s, apps, st, path :
             /\ s = Outcome(j) /\ apps = Settle(j.b, j.p, s)
             /\ Completion(j, next, s, apps, st, path) /\ j.b \in Channels
      BY <2>8, CompletionIs
    <3>2. s \in {"PENDING", "APPROVED", "DENIED"}
      BY <3>1, OutcomeIs
    <3>3. apps \in [Principals -> Rulings]
      <4>1. approval[j.b] \in [Principals -> Rulings]
        BY <3>1 DEF Answered
      <4>2. {"PENDING", "APPROVED", "DENIED", "CANCELLED"} \subseteq Rulings
        BY DEF Rulings
      <4> QED
        BY <3>1, <3>2, <4>1, <4>2 DEF Settle
    <3>4. approval' \in [Channels -> [Principals -> Rulings]]
      BY <2>0, <3>1, <3>3 DEF Completion, Answered
    <3>5. \A c \in commit' : c.approval = approval[j.b]
      BY <3>1 DEF Completion
    <3> QED
      BY <3>1, <3>4, <3>5 DEF Answered
  <2>9. CASE ApproveFails
    <3>1. PICK c \in commit :
            /\ c.op = "approve" /\ commit' = {}
            /\ approval' = [x \in Channels |-> IF x = c.b THEN Released(c)
                                               ELSE IF x \in c.next THEN Asked({}) ELSE approval[x]]
      BY <2>9 DEF ApproveFails
    <3>2. Released(c) \in [Principals -> Rulings]
      BY <3>1 DEF Answered, Released, Rulings
    <3> QED
      BY <2>0, <3>1, <3>2 DEF Answered
  <2> QED
    BY <1>3, <2>1, <2>2, <2>3, <2>4, <2>5, <2>6, <2>7, <2>8, <2>9 DEF BrokerNext
<1>4. CASE Restart
  <2>1. UNCHANGED commit /\ approval' = [r \in Channels |-> Unclaimed(approval[r])]
    BY <1>4 DEF Restart
  <2> QED
    BY <2>1 DEF Answered, Unclaimed, Rulings
<1>5. CASE UNCHANGED vars
  BY <1>5, AnsweredStays DEF vars, govVars, brokerVars
<1>6. ASSUME NEW j \in jobs, Abandon(j) PROVE Answered'
  BY <1>6, AbandonSays, AnsweredStays DEF brokerVars
<1> QED
  BY <1>1, <1>2, <1>3, <1>4, <1>5, <1>6 DEF Next

\* A failover chooses what a decided round carries.
Choosable == chosen \in [Failovers -> Aliases \cup {"none"}]

LEMMA SelectionIs ==
    ASSUME Shaped, NEW j \in jobs, j.kind = "failover"
    PROVE  /\ Selection(j) \in Aliases \cup {"none"}
           /\ Selection(j) # "none" =>
                /\ LatestIs(j.b, j.p, "APPROVED") /\ Valid(j.p, Latest(j.b, j.p))
                /\ \E a \in Aliases : Carries(Latest(j.b, j.p), a)
                /\ Complete(Latest(j.b, j.p))
<1>1. j.b \in Failovers /\ j.b \in Businesses /\ j.p \in Principals
  BY JobIs DEF Shaped, Tasks, Tasked
<1>2. CASE LatestIs(j.b, j.p, "APPROVED") /\ Valid(j.p, Latest(j.b, j.p))
  <2>1. Row(j.b, rounds[j.b][j.p]) /\ HasRound(j.b, j.p)
    BY <1>1, <1>2 DEF Shaped, Rows, LatestIs
  <2>2. Earned(j.b, Latest(j.b, j.p))
    BY <2>1 DEF Row, HasRound, Latest, Number
  <2>3. /\ \E a \in Aliases : Carries(Latest(j.b, j.p), a)
        /\ Complete(Latest(j.b, j.p))
    BY <1>1, <1>2, <2>2, EarnedMeans DEF LatestIs
  <2>4. Selection(j) = CHOOSE a \in Aliases : Carries(Latest(j.b, j.p), a)
    BY <1>2 DEF Selection
  <2>5. (CHOOSE a \in Aliases : Carries(Latest(j.b, j.p), a)) \in Aliases
    BY <2>3
  <2> QED
    BY <1>2, <2>3, <2>4, <2>5
<1>3. CASE ~(LatestIs(j.b, j.p, "APPROVED") /\ Valid(j.p, Latest(j.b, j.p)))
  BY <1>3 DEF Selection
<1> QED
  BY <1>2, <1>3

LEMMA ChosenStep ==
    ASSUME Shaped, Choosable, [Next]_vars
    PROVE  Choosable'
<1>1. ASSUME NEW j \in jobs, FailoverDecided(j) PROVE Choosable'
  <2>1. /\ j.kind = "failover"
        /\ chosen' = [chosen EXCEPT ![j.b] = IF j.n = 0 THEN "none" ELSE Selection(j)]
    BY <1>1 DEF FailoverDecided
  <2>2. PICK x \in Aliases \cup {"none"} : chosen' = [chosen EXCEPT ![j.b] = x]
    BY <2>1, SelectionIs
  <2> QED
    BY <2>2 DEF Choosable
<1>2. ASSUME UNCHANGED chosen PROVE Choosable'
  BY <1>2 DEF Choosable
<1>3. CASE GovNext
  <2>1. ASSUME NEW j \in jobs,
               CreateReturns(j) \/ CreateRound(j) \/ FailoverEnds(j) \/ Expire(j) \/ TalkFails(j)
        PROVE  UNCHANGED chosen
    BY <2>1 DEF CreateReturns, CreateRound, FailoverEnds, Expire, TalkFails
  <2>2. CreateOk \/ CreateFails \/ SubmitOk \/ SubmitFails => UNCHANGED chosen
    BY DEF CreateOk, CreateFails, SubmitOk, SubmitFails
  <2>3. ASSUME NEW b, NEW p, NEW a, NEW n, NEW x, Submit(a, b, p, n, x) PROVE UNCHANGED chosen
    BY <2>3 DEF Submit
  <2>4. ASSUME NEW f, StartFailover(f) \/ Deadline(f) PROVE UNCHANGED chosen
    BY <2>4 DEF StartFailover, Deadline
  <2>5. ASSUME NEW t, NEW a, ChangeMembers(t, a) PROVE UNCHANGED chosen
    BY <2>5 DEF ChangeMembers
  <2> QED
    BY <1>1, <1>2, <1>3, <2>1, <2>2, <2>3, <2>4, <2>5 DEF GovNext
<1>4. CASE MigNext
  <2>1. ASSUME NEW x, Negotiate(x[1], x[2], x[3]) PROVE UNCHANGED chosen
    BY <2>1 DEF Negotiate
  <2>2. NegotiateOk \/ NegotiateCancelled \/ NegotiateFails \/ ResolveOk \/ ResolveFails
          => UNCHANGED chosen
    BY DEF NegotiateOk, NegotiateCancelled, NegotiateFails, ResolveOk, ResolveFails
  <2>3. ASSUME NEW m, Insist(m) PROVE UNCHANGED chosen
    BY <2>3 DEF Insist
  <2>4. ASSUME NEW j, Prepare(j) \/ Nothing(j) \/ Resolve(j) PROVE UNCHANGED chosen
    BY <2>4 DEF Prepare, Nothing, Resolve
  <2>5. ASSUME NEW t, BeginDiscussion(t) PROVE UNCHANGED chosen
    BY <2>5 DEF BeginDiscussion, govVars
  <2> QED
    BY <1>2, <1>4, <2>1, <2>2, <2>3, <2>4, <2>5 DEF MigNext
<1>5. CASE BrokerNext
  <2>1. ASSUME NEW x, RequestChannel(x[1], x[2], x[3]) PROVE UNCHANGED chosen
    BY <2>1 DEF RequestChannel, govButStandingJobs
  <2>2. RequestOk \/ RequestCancelled \/ RequestFails => UNCHANGED chosen
    BY DEF RequestOk, RequestCancelled, RequestFails, govButStandingJobs
  <2>3. RevokeOk \/ RevokeFails \/ ApproveOk \/ ApproveCancelled \/ ApproveFails => UNCHANGED chosen
    BY DEF RevokeOk, RevokeFails, ApproveOk, ApproveCancelled, ApproveFails, govButStandingJobs, govVars
  <2>4. ASSUME NEW r, Revoke(r) PROVE UNCHANGED chosen
    BY <2>4 DEF Revoke, govVars
  <2>5. ASSUME NEW t, NEW r, StartTalk(t, r) PROVE UNCHANGED chosen
    BY <2>5 DEF StartTalk, govButStandingJobs
  <2>6. ASSUME NEW j, Claim(j) \/ ClaimCancelled(j) \/ ClaimedAlready(j) \/ CompleteLapsed(j)
        PROVE  UNCHANGED chosen
    BY <2>6 DEF Claim, ClaimCancelled, ClaimedAlready, CompleteLapsed, govButStandingJobs
  <2>7. ASSUME NEW j, NEW next, CompleteApproval(j, next) PROVE UNCHANGED chosen
    BY <2>7 DEF CompleteApproval
  <2> QED
    BY <1>2, <1>5, <2>1, <2>2, <2>3, <2>4, <2>5, <2>6, <2>7 DEF BrokerNext
<1>6. CASE Restart
  BY <1>2, <1>6 DEF Restart
<1>7. CASE UNCHANGED vars
  BY <1>2, <1>7 DEF vars, govVars
<1>8. ASSUME NEW j \in jobs, Abandon(j) PROVE UNCHANGED chosen
  BY <1>8, AbandonSays
<1> QED
  BY <1>2, <1>3, <1>4, <1>5, <1>6, <1>7, <1>8 DEF Next

Formed == Shaped /\ Rooted /\ Conclusions /\ Answered /\ Choosable

LEMMA FormedInvariant == Spec => []Formed
<1>1. Init => Formed
  <2> SUFFICES ASSUME Init PROVE Formed
    OBVIOUS
  <2>1. jobs = {} /\ commit = {} /\ chosen = [f \in Failovers |-> "none"]
    BY DEF Init, GovInit
  <2>2. approval = [r \in Channels |-> Asked({})]
    BY DEF Init, BrokerInit
  <2>3. Asked({}) \in [Principals -> Rulings]
    BY DEF Asked, Rulings
  <2> QED
    BY <2>1, <2>2, <2>3, ShapedInit, RootedInit DEF Formed, Conclusions, Answered, Choosable
<1>2. ASSUME Formed, Rooted', [Next]_vars PROVE Formed'
  <2>1. Shaped'
    BY <1>2, ShapedStep DEF Formed
  <2>2. Conclusions'
    BY <1>2, ConclusionsStep DEF Formed
  <2>3. Answered'
    BY <1>2, AnsweredStep DEF Formed
  <2>4. Choosable'
    BY <1>2, ChosenStep DEF Formed
  <2> QED
    BY <1>2, <2>1, <2>2, <2>3, <2>4 DEF Formed
<1> QED
  BY <1>1, <1>2, RootedInvariant, PTL DEF Spec

LEMMA RoundsAreTyped ==
    ASSUME Shaped
    PROVE  /\ DOMAIN rounds = Businesses /\ \A b \in Businesses : DOMAIN rounds[b] = Principals
           /\ \A b \in Businesses, p \in Principals : \A n \in DOMAIN rounds[b][p] :
                n \in Nat /\ IsRound(rounds[b][p][n])
<1>1. rounds \in [Businesses -> [Principals -> Seq(AllRounds)]]
  BY DEF Shaped, Rows
<1>2. ASSUME NEW r \in AllRounds PROVE IsRound(r)
  <2>1. DOMAIN r = {"voters", "ballots", "status"}
    BY DEF AllRounds
  <2> QED
    BY <2>1, RoundIs DEF IsRound, Votes, RoundStatuses
<1>3. ASSUME NEW b \in Businesses, NEW p \in Principals, NEW n \in DOMAIN rounds[b][p]
      PROVE  n \in Nat /\ IsRound(rounds[b][p][n])
  <2>1. rounds[b][p] \in Seq(AllRounds)
    BY <1>1
  <2> QED
    BY <1>2, <2>1
<1> QED
  BY <1>1, <1>3

\* The variables have their types, whatever AgentTeams, members and businesses there are:
\* an approval is only settled by a round that is decided (_complete_approval), and a
\* failover only chooses an alias that a strict majority is for (_decide_model).
THEOREM DecisionTypes == Spec => []TypeOK
<1>1. Formed => TypeOK
  <2> SUFFICES ASSUME Formed PROVE TypeOK
    OBVIOUS
  <2>1. GovTypeOK
    <3>1. \A c \in commit : c.op \in {"create", "submit", "migrate", "approve"} /\ c.b \in Businesses
      <4>1. ASSUME NEW c \in commit PROVE c.op \in {"create", "submit", "migrate", "approve"} /\ c.b \in Businesses
        <5>1. Committed(c)
          BY DEF Formed, Shaped, Commits
        <5>2. c.op = "create" => c.b \in Businesses
          BY <5>1, JobIs DEF Committed, Creating, Formed, Shaped, Tasks
        <5> QED
          BY <5>1, <5>2 DEF Committed, Submitting, Migrating, Completing, Businesses
      <4> QED
        BY <4>1
    <3>2. \A j \in jobs :
            /\ j.kind \in {"prepare", "approve", "failover", "resolve", "call"}
            /\ j.b \in Businesses /\ j.p \in Principals /\ j.n \in Nat /\ j.snap \subseteq Agents
            /\ j.phase \in {"ready", "talking", "claimed", "decided", "undecided", "releasing", "expiring"}
      BY JobIs DEF Formed, Shaped, Tasks, Phases, JobKinds
    <3> QED
      BY <3>1, <3>2, RoundsAreTyped DEF GovTypeOK, Formed, Choosable, Shaped, Plain, Bounds, Standings
  <2>2. MigTypeOK
    BY DEF MigTypeOK, Formed, Rooted, Types, Trees, Shaped, Records
  <2>3. BrokerTypeOK
    BY DEF BrokerTypeOK, Formed, Answered, Rulings, Shaped, Records
  <2> QED
    BY <2>1, <2>2, <2>3 DEF TypeOK
<1> QED
  BY <1>1, FormedInvariant, PTL

-----------------------------------------------------------------------------
(* Claims: a task is left for every claimed approval that has not been      *)
(* abandoned, now and when the completion in flight is taken back.          *)

Holding(j) == j.phase \in {"claimed", "decided", "undecided", "releasing"}
Held(r, p) == \E j \in jobs : j.b = r /\ j.p = p /\ Holding(j)
HeldStays == \A r \in Channels, p \in Principals : Held(r, p) => Held(r, p)'

Kept(r, p) == Held(r, p) \/ <<r, p>> \in abandoned
KeptStays == \A r \in Channels, p \in Principals : Kept(r, p) => Kept(r, p)'

ApprovalsFit ==
    \A r \in Channels, p \in Principals :
        /\ approval[r][p] # "none" => p \in routes[r].authorities
        /\ approval[r][p] = "PROCESSING" => Pending(r) /\ Kept(r, p)
        /\ Pending(r) => approval[r][p] # "DENIED"

\* What the failing completion c would put back.
Reclaims(c) ==
    \A p \in Principals :
        /\ c.approval[p] # "none" \/ p = c.p => p \in routes[c.b].authorities
        /\ c.approval[p] # "DENIED"
        /\ p # c.p /\ c.approval[p] = "PROCESSING" => Kept(c.b, p)

Claims == ApprovalsFit /\ \A c \in commit : c.op = "approve" => Reclaims(c)

LEMMA ClaimsHold ==
    ASSUME Claims PROVE ClaimHeld
BY DEF Claims, ApprovalsFit, ClaimHeld, Kept, Held, Holding, Minds

\* What has been abandoned stays so until a task takes it up.
LEMMA AbandonedStay ==
    ASSUME NEW S, Leaving(S), NEW r \in Channels, NEW p, <<r, p>> \in S
    PROVE  Kept(r, p)'
<1>1. CASE <<r, p>> \in abandoned'
  BY <1>1 DEF Kept
<1>2. CASE <<r, p>> \notin abandoned'
  <2>1. PICK k \in {i \in jobs' : Minds(i)} : <<r, p>> = <<k.b, k.p>>
    BY <1>2 DEF Leaving
  <2>2. k \in jobs' /\ k.b = r /\ k.p = p /\ Minds(k)
    BY <2>1
  <2>3. Holding(k)
    BY <2>2, Kinds DEF Minds, Holding
  <2> QED
    BY <2>2, <2>3 DEF Kept, Held
<1> QED
  BY <1>1, <1>2

LEMMA HeldKept == ASSUME HeldStays, Leaving(abandoned) PROVE KeptStays
<1> SUFFICES ASSUME NEW r \in Channels, NEW p \in Principals, Kept(r, p) PROVE Kept(r, p)'
  BY DEF KeptStays
<1>1. CASE Held(r, p)
  BY <1>1 DEF HeldStays, Kept
<1>2. CASE <<r, p>> \in abandoned
  BY <1>2, AbandonedStay
<1> QED
  BY <1>1, <1>2 DEF Kept

LEMMA AbandonKept == ASSUME NEW j, Abandon(j) PROVE KeptStays
<1> SUFFICES ASSUME NEW r \in Channels, NEW p \in Principals, Kept(r, p) PROVE Kept(r, p)'
  BY DEF KeptStays
<1>1. PICK S : S = abandoned \cup {<<j.b, j.p>>} /\ Leaving(S)
  BY DEF Abandon
<1>2. CASE <<r, p>> \in S
  BY <1>1, <1>2, AbandonedStay
<1>3. CASE <<r, p>> \notin S
  <2>1. PICK k \in jobs : k.b = r /\ k.p = p /\ Holding(k)
    BY <1>1, <1>3 DEF Kept, Held
  <2>2. k # j
    BY <1>1, <1>3, <2>1
  <2>3. k \in jobs'
    BY <2>1, <2>2, AbandonSays DEF Finish
  <2> QED
    BY <2>1, <2>3 DEF Kept, Held
<1> QED
  BY <1>2, <1>3

LEMMA ClaimsStay ==
    ASSUME Shaped, Claims, KeptStays, UNCHANGED <<approval, routes>>,
           \A r \in Channels : Pending(r)' <=> Pending(r),
           \A c \in commit' : c \in commit \/ c.op # "approve"
    PROVE  Claims'
<1>1. ApprovalsFit'
  BY DEF Claims, ApprovalsFit, KeptStays
<1>2. ASSUME NEW c \in commit', c.op = "approve" PROVE Reclaims(c)'
  <2>1. c \in commit
    BY <1>2
  <2>2. c.b \in Channels /\ Reclaims(c)
    BY <1>2, <2>1 DEF Shaped, Commits, Committed, Completing, Claims
  <2> QED
    BY <2>2 DEF Reclaims, KeptStays
<1> QED
  BY <1>1, <1>2 DEF Claims

\* All tasks but perhaps one stay.
LEMMA KeepsHeld ==
    ASSUME NEW j, jobs \ {j} \subseteq jobs',
           j.b \in Channels /\ Holding(j) => \E k \in jobs' : k.b = j.b /\ k.p = j.p /\ Holding(k)
    PROVE  HeldStays
BY DEF HeldStays, Held

LEMMA GrowsHeld == ASSUME jobs \subseteq jobs' PROVE HeldStays
BY DEF HeldStays, Held

LEMMA AdvancesHeld ==
    ASSUME NEW j, NEW k, NEW ph, Advance(j, k), Later(j, k, ph),
           ph \in {"claimed", "decided", "undecided", "releasing"}
    PROVE  HeldStays
<1>1. jobs \ {j} \subseteq jobs' /\ k \in jobs' /\ k.b = j.b /\ k.p = j.p /\ Holding(k)
  BY DEF Advance, Later, Holding
<1> QED
  BY <1>1, KeepsHeld

LEMMA GovHeld ==
    ASSUME Shaped, GovNext
    PROVE  HeldStays
<1>1. ASSUME NEW j \in jobs, CreateReturns(j) PROVE HeldStays
  <2>1. j \in AllJobs /\ "decided" \in Phases /\ "undecided" \in Phases
    BY DEF Shaped, Tasks, Phases
  <2>2. PICK n, ph : /\ n = Number(j.b, j.p) /\ ph \in {"decided", "undecided"}
                     /\ \/ Advance(j, [j EXCEPT !.phase = "undecided"])
                        \/ Advance(j, [j EXCEPT !.n = n, !.phase = ph])
    BY <1>1 DEF CreateReturns
  <2>3. n \in Nat
    <3>1. rounds[j.b][j.p] \in Seq(AllRounds)
      BY <2>1, JobIs DEF Shaped, Rows
    <3> QED
      BY <2>2, <3>1 DEF Number
  <2>4. ASSUME Advance(j, [j EXCEPT !.phase = "undecided"]) PROVE HeldStays
    <3>1. PICK k : k = [j EXCEPT !.phase = "undecided"]
      OBVIOUS
    <3>2. Later(j, k, "undecided")
      BY <2>1, <3>1, Rephased
    <3> QED
      BY <2>4, <3>1, <3>2, AdvancesHeld
  <2>5. ASSUME Advance(j, [j EXCEPT !.n = n, !.phase = ph]) PROVE HeldStays
    <3>1. PICK k : k = [j EXCEPT !.n = n, !.phase = ph]
      OBVIOUS
    <3>2. Later(j, k, ph)
      BY <2>1, <2>2, <2>3, <3>1, Renumbered, ZenonT(60)
    <3>3. Advance(j, k) /\ ph \in {"claimed", "decided", "undecided", "releasing"}
      BY <2>2, <2>5, <3>1
    <3> QED
      BY <3>2, <3>3, AdvancesHeld
  <2> QED
    BY <2>2, <2>4, <2>5
<1>2. CASE CreateOk
  <2>1. PICK c \in commit : /\ c.op = "create"
                            /\ Advance(c.job, [c.job EXCEPT !.phase = "undecided", !.n = Number(c.b, c.p)])
    BY <1>2 DEF CreateOk
  <2>2. c.job \in AllJobs /\ "undecided" \in Phases /\ Number(c.b, c.p) \in Nat
    <3>1. Creating(c) /\ c.job \in AllJobs
      BY <2>1 DEF Shaped, Commits, Committed, Creating, Tasks
    <3>2. rounds[c.b][c.p] \in Seq(AllRounds)
      BY <3>1, JobIs DEF Creating, Shaped, Rows
    <3> QED
      BY <3>1, <3>2 DEF Number, Phases
  <2>3. PICK n, k : /\ n \in Nat /\ n = Number(c.b, c.p) /\ k = [c.job EXCEPT !.phase = "undecided", !.n = n]
                  /\ Advance(c.job, k)
    BY <2>1, <2>2
  <2>4. Later(c.job, k, "undecided")
    BY <2>2, <2>3, Renumbered
  <2> QED
    BY <2>3, <2>4, AdvancesHeld
<1>3. CASE CreateFails
  <2>1. PICK c \in commit : /\ c.op = "create"
                            /\ IF c.job.kind = "approve"
                               THEN Advance(c.job, [c.job EXCEPT !.phase = "undecided"])
                               ELSE Finish(c.job)
    BY <1>3 DEF CreateFails
  <2>2. c.job \in AllJobs /\ Tasked(c.job) /\ AtCreate(c.job) /\ "undecided" \in Phases
    BY <2>1 DEF Shaped, Commits, Committed, Creating, Tasks, Phases
  <2>3. CASE c.job.kind = "approve"
    <3>1. PICK k : k = [c.job EXCEPT !.phase = "undecided"] /\ Advance(c.job, k)
      BY <2>1, <2>3
    <3>2. Later(c.job, k, "undecided")
      BY <2>2, <3>1, Rephased
    <3> QED
      BY <3>1, <3>2, AdvancesHeld
  <2>4. CASE c.job.kind # "approve"
    <3>1. c.job.phase = "talking" /\ Finish(c.job)
      BY <2>1, <2>2, <2>4 DEF AtCreate
    <3> QED
      BY <3>1, KeepsHeld DEF Finish, Holding
  <2> QED
    BY <2>3, <2>4
<1>4. ASSUME NEW j \in jobs, FailoverDecided(j) \/ FailoverEnds(j) \/ Expire(j) \/ TalkFails(j)
      PROVE  HeldStays
  <2>1. j.phase = "talking" \/ j.kind = "failover"
    BY <1>4 DEF FailoverDecided, FailoverEnds, Expire, TalkFails, Shaped, Tasks, Tasked
  <2>2. ~(j.b \in Channels /\ Holding(j))
    BY <2>1, GovernanceAssumption DEF Shaped, Tasks, Tasked, Holding
  <2>3. jobs \ {j} \subseteq jobs'
    BY <1>4 DEF FailoverDecided, FailoverEnds, Expire, TalkFails, Finish, Advance
  <2> QED
    BY <2>2, <2>3, KeepsHeld
<1>5. ASSUME NEW j \in jobs, CreateRound(j) PROVE HeldStays
  BY <1>5, GrowsHeld DEF CreateRound
<1>6. CASE SubmitOk \/ SubmitFails
  BY <1>6, GrowsHeld DEF SubmitOk, SubmitFails
<1>7. ASSUME NEW b, NEW p, NEW a, NEW n, NEW x, Submit(a, b, p, n, x) PROVE HeldStays
  BY <1>7, GrowsHeld DEF Submit
<1>8. ASSUME NEW f, StartFailover(f) \/ Deadline(f) PROVE HeldStays
  BY <1>8, GrowsHeld DEF StartFailover, Deadline
<1>9. ASSUME NEW t, NEW a, ChangeMembers(t, a) PROVE HeldStays
  BY <1>9, GrowsHeld DEF ChangeMembers
<1> QED
  BY <1>1, <1>2, <1>3, <1>4, <1>5, <1>6, <1>7, <1>8, <1>9 DEF GovNext

LEMMA MigHeld ==
    ASSUME Shaped, MigNext
    PROVE  HeldStays
<1>1. ASSUME NEW x, Negotiate(x[1], x[2], x[3]) PROVE HeldStays
  BY <1>1, GrowsHeld DEF Negotiate
<1>2. CASE NegotiateOk \/ NegotiateCancelled \/ NegotiateFails \/ ResolveOk \/ ResolveFails
  BY <1>2, GrowsHeld DEF NegotiateOk, NegotiateCancelled, NegotiateFails, ResolveOk, ResolveFails
<1>3. ASSUME NEW m, Insist(m) PROVE HeldStays
  BY <1>3, GrowsHeld DEF Insist
<1>4. ASSUME NEW j \in jobs, Prepare(j) \/ Nothing(j) \/ Resolve(j) PROVE HeldStays
  <2>1. j.b \in Migrations
    BY <1>4 DEF Prepare, Nothing, Resolve, Completes, Shaped, Tasks, Tasked
  <2>2. jobs \ {j} \subseteq jobs'
    BY <1>4 DEF Prepare, Nothing, Resolve, Finish, Advance
  <2> QED
    BY <2>1, <2>2, Kinds, KeepsHeld
<1>5. ASSUME NEW t, BeginDiscussion(t) PROVE HeldStays
  BY <1>5, GrowsHeld DEF BeginDiscussion, govVars
<1> QED
  BY <1>1, <1>2, <1>3, <1>4, <1>5 DEF MigNext

\* Governance and migrations leave the requests pending that are.
LEMMA ChannelsStand ==
    ASSUME Shaped, Rooted, GovNext \/ MigNext
    PROVE  \A r \in Channels : standing'[r] = standing[r]
<1> DEFINE Goal == \A r \in Channels : standing'[r] = standing[r]
<1>0. standing \in [Businesses -> Standings] /\ \A r \in Channels : r \in Businesses /\ r \notin Migrations
      /\ r \notin Failovers
  BY GovernanceAssumption DEF Shaped, Plain, Businesses
<1>1. CASE GovNext
  <2>1. ASSUME NEW f \in Failovers, StartFailover(f) \/ Deadline(f) PROVE Goal
    BY <1>0, <2>1 DEF StartFailover, Deadline
  <2>2. ASSUME NEW j \in jobs,
               CreateReturns(j) \/ CreateRound(j) \/ FailoverDecided(j) \/ FailoverEnds(j) \/ Expire(j)
               \/ TalkFails(j)
        PROVE  Goal
    BY <2>2 DEF CreateReturns, CreateRound, FailoverDecided, FailoverEnds, Expire, TalkFails
  <2>3. CreateOk \/ CreateFails \/ SubmitOk \/ SubmitFails => Goal
    BY DEF CreateOk, CreateFails, SubmitOk, SubmitFails
  <2>4. ASSUME NEW b, NEW p, NEW a, NEW n, NEW x, Submit(a, b, p, n, x) PROVE Goal
    BY <2>4 DEF Submit
  <2>5. ASSUME NEW t, NEW a, ChangeMembers(t, a) PROVE Goal
    BY <2>5 DEF ChangeMembers
  <2> QED
    BY <1>1, <2>1, <2>2, <2>3, <2>4, <2>5 DEF GovNext
<1>2. CASE MigNext
  <2>1. ASSUME NEW x, Negotiate(x[1], x[2], x[3]) PROVE Goal
    BY <1>0, <2>1 DEF Negotiate
  <2>2. CASE NegotiateOk \/ NegotiateCancelled \/ ResolveOk
    BY <2>2 DEF NegotiateOk, NegotiateCancelled, ResolveOk
  <2>3. CASE NegotiateFails
    BY <1>0, <2>3 DEF NegotiateFails, Rooted
  <2>4. CASE ResolveFails
    <3>1. PICK c \in commit : c.op = "migrate" /\ standing' = [standing EXCEPT ![c.b] = "PENDING"]
      BY <2>4 DEF ResolveFails
    <3>2. c.b \in Migrations
      BY <3>1 DEF Shaped, Commits, Committed, Migrating
    <3> QED
      BY <1>0, <3>1, <3>2
  <2>5. ASSUME NEW m, Insist(m) PROVE Goal
    BY <2>5 DEF Insist
  <2>6. ASSUME NEW j \in jobs, Prepare(j) \/ Nothing(j) PROVE Goal
    BY <2>6 DEF Prepare, Nothing
  <2>7. ASSUME NEW j \in jobs, Resolve(j) PROVE Goal
    BY <1>0, <2>7 DEF Resolve, Completes
  <2>8. ASSUME NEW t, BeginDiscussion(t) PROVE Goal
    BY <2>8 DEF BeginDiscussion, govVars
  <2> QED
    BY <1>2, <2>1, <2>2, <2>3, <2>4, <2>5, <2>6, <2>7, <2>8 DEF MigNext
<1> QED
  BY <1>1, <1>2

\* What a completion makes of the approvals of its request.
LEMMA SettledClaims ==
    ASSUME Shaped, Conclusions, Claims, NEW j \in jobs, j.b \in Channels,
           approval[j.b][j.p] = "PROCESSING", Pending(j.b),
           NEW s, s = Outcome(j), NEW apps, apps = Settle(j.b, j.p, s),
           NEW st, st = Resolved(j.b, apps)
    PROVE  \A q \in Principals :
             /\ apps[q] # "none" => approval[j.b][q] # "none"
             /\ apps[q] = "PROCESSING" =>
                  q # j.p /\ approval[j.b][q] = "PROCESSING" /\ st = "PROCESSING"
             /\ st \in {"PENDING", "PROCESSING"} => apps[q] # "DENIED"
<1>1. s \in {"PENDING", "APPROVED", "DENIED"}
  BY OutcomeIs
<1>2. \A q \in Principals :
        apps[q] = IF q = j.p /\ s # "APPROVED" THEN s
                  ELSE IF s = "DENIED" /\ approval[j.b][q] \in {"PENDING", "PROCESSING"} THEN "CANCELLED"
                  ELSE IF s = "APPROVED" /\ (q = j.p \/ approval[j.b][q] = "APPROVED")
                  THEN IF LatestIs(j.b, q, "APPROVED") /\ Valid(q, Latest(j.b, q)) THEN "APPROVED" ELSE "PENDING"
                  ELSE approval[j.b][q]
  BY DEF Settle
<1>3. \A q \in Principals : approval[j.b][q] # "DENIED"
  BY DEF Claims, ApprovalsFit
<1>4. \A q \in Principals : apps[q] # "none" => approval[j.b][q] # "none"
  BY <1>1, <1>2
<1>5. \A q \in Principals : apps[q] = "PROCESSING" =>
        q # j.p /\ approval[j.b][q] = "PROCESSING" /\ s # "DENIED"
  BY <1>1, <1>2
<1>6. (\E q \in Principals : apps[q] = "DENIED") => st = "DENIED"
  BY DEF Resolved
<1>7. ASSUME NEW q \in Principals, apps[q] = "PROCESSING" PROVE st = "PROCESSING"
  <2>1. s # "DENIED" /\ approval[j.b][q] = "PROCESSING"
    BY <1>5, <1>7
  <2>2. \A x \in Principals : apps[x] # "DENIED"
    BY <1>1, <1>2, <1>3, <2>1
  <2>3. q \in routes[j.b].authorities
    BY <2>1 DEF Claims, ApprovalsFit
  <2>4. ~Unanimous(j.b, apps)
    BY <1>7, <2>3 DEF Unanimous
  <2> QED
    BY <1>7, <2>2, <2>4 DEF Resolved, Refreshed
<1> QED
  BY <1>4, <1>5, <1>6, <1>7

LEMMA CompleteClaims ==
    ASSUME Shaped, Rooted, Conclusions, Claims, NEW j \in jobs, NEW next \in SUBSET Channels,
           CompleteApproval(j, next), Leaving(abandoned)
    PROVE  Claims'
<1>1. PICK s, apps, st, path :
        /\ s = Outcome(j) /\ apps = Settle(j.b, j.p, s) /\ st = Resolved(j.b, apps)
        /\ Completion(j, next, s, apps, st, path)
        /\ path \subseteq Principals
        /\ j.b \in Channels /\ j.p \in Principals
        /\ approval[j.b][j.p] = "PROCESSING" /\ Pending(j.b)
        /\ j.b \notin next /\ \A x \in next : standing[x] = "none"
  BY CompletionIs
<1>2. PICK r \in Channels, p \in Principals : r = j.b /\ p = j.p
  BY <1>1
<1>3. \A q \in Principals :
        /\ apps[q] # "none" => approval[r][q] # "none"
        /\ apps[q] = "PROCESSING" => q # p /\ approval[r][q] = "PROCESSING" /\ st = "PROCESSING"
        /\ st \in {"PENDING", "PROCESSING"} => apps[q] # "DENIED"
  BY <1>1, <1>2, SettledClaims
<1>4. \A x \in Channels : x \in Businesses
  BY DEF Businesses
<1>5. \A x \in Channels :
        /\ standing'[x] = IF x = r THEN st ELSE IF x \in next THEN "PENDING" ELSE standing[x]
        /\ approval'[x] = IF x = r THEN apps ELSE IF x \in next THEN Asked(path) ELSE approval[x]
  BY <1>1, <1>2, <1>4 DEF Completion
<1>6. \A x \in Channels :
        routes'[x].authorities = IF x \in next THEN path ELSE routes[x].authorities
  <2>1. routes' = [x \in Channels |->
                    IF x = r THEN [routes[r] EXCEPT !.next = next]
                    ELSE IF x \in next THEN [from |-> routes[r].from, to |-> routes[r].to, authorities |-> path,
                                             after |-> {r}, next |-> {}]
                    ELSE routes[x]]
    BY <1>1, <1>2 DEF Completion
  <2>2. [routes[r] EXCEPT !.next = next].authorities = routes[r].authorities
    BY DEF Shaped, Records
  <2> QED
    BY <1>1, <1>2, <2>1, <2>2
<1>7. ASSUME NEW x \in Channels, NEW q \in Principals, x # r \/ q # p, Kept(x, q)
      PROVE  Kept(x, q)'
  <2>1. CASE Held(x, q)
    BY <1>1, <1>2, <1>7, <2>1 DEF Completion, Finish, Held, Kept
  <2>2. CASE <<x, q>> \in abandoned
    BY <2>2, AbandonedStay
  <2> QED
    BY <1>7, <2>1, <2>2 DEF Kept
<1>8. PICK c : /\ commit' = {c} /\ c.b = r /\ c.p = p /\ c.approval = approval[r]
  <2>1. PICK c : /\ c = [op |-> "approve", b |-> j.b, p |-> j.p, next |-> next,
                         shielded |-> j.kind # "approve", standing |-> standing[j.b],
                         rounds |-> rounds[j.b], approval |-> approval[j.b],
                         projected |-> projected[j.b], agreement |-> agreement,
                         notes |-> {x \in notes : x[2] = j.b}]
                 /\ commit' = {c}
    BY <1>1 DEF Completion
  <2>2. c.b = j.b /\ c.p = j.p /\ c.approval = approval[j.b]
    BY <2>1
  <2> QED
    BY <1>2, <2>1, <2>2
<1>9. ApprovalsFit'
  <2> SUFFICES ASSUME NEW x \in Channels, NEW q \in Principals
               PROVE  /\ approval'[x][q] # "none" => q \in routes'[x].authorities
                      /\ approval'[x][q] = "PROCESSING" => Pending(x)' /\ Kept(x, q)'
                      /\ Pending(x)' => approval'[x][q] # "DENIED"
    BY DEF ApprovalsFit
  <2>1. CASE x = r
    <3>1. approval'[x] = apps /\ standing'[x] = st /\ routes'[x].authorities = routes[x].authorities
      BY <1>1, <1>2, <1>5, <1>6, <2>1
    <3>2. apps[q] # "none" => q \in routes[r].authorities
      BY <1>3 DEF Claims, ApprovalsFit
    <3>3. apps[q] = "PROCESSING" => st = "PROCESSING" /\ Kept(r, q)'
      BY <1>3, <1>7 DEF Claims, ApprovalsFit
    <3> QED
      BY <1>3, <2>1, <3>1, <3>2, <3>3 DEF Pending
  <2>2. CASE x \in next
    <3>1. approval'[x] = Asked(path) /\ routes'[x].authorities = path
      BY <1>1, <1>2, <1>5, <1>6, <2>2
    <3> QED
      BY <3>1 DEF Asked
  <2>3. CASE x # r /\ x \notin next
    <3>1. approval'[x] = approval[x] /\ standing'[x] = standing[x]
          /\ routes'[x].authorities = routes[x].authorities
      BY <1>5, <1>6, <2>3
    <3> QED
      BY <1>7, <2>3, <3>1 DEF Claims, ApprovalsFit, Pending
  <2> QED
    BY <2>1, <2>2, <2>3
<1>10. Reclaims(c)'
  <2> SUFFICES ASSUME NEW q \in Principals
               PROVE  /\ approval[r][q] # "none" \/ q = p => q \in routes'[r].authorities
                      /\ approval[r][q] # "DENIED"
                      /\ q # p /\ approval[r][q] = "PROCESSING" => Kept(r, q)'
    BY <1>8 DEF Reclaims
  <2>1. routes'[r].authorities = routes[r].authorities
    BY <1>1, <1>2, <1>6
  <2> QED
    BY <1>1, <1>2, <1>7, <2>1 DEF Claims, ApprovalsFit
<1> QED
  BY <1>8, <1>9, <1>10 DEF Claims

LEMMA ApproveFailsClaims ==
    ASSUME Shaped, Claims, ApproveFails, Leaving(abandoned)
    PROVE  Claims'
<1>1. PICK c \in commit :
        /\ c.op = "approve" /\ commit' = {} /\ jobs' = jobs
        /\ standing' = [x \in Businesses |-> IF x = c.b THEN Refreshed(Released(c))
                                             ELSE IF x \in c.next THEN "withdrawn" ELSE standing[x]]
        /\ approval' = [x \in Channels |-> IF x = c.b THEN Released(c)
                                           ELSE IF x \in c.next THEN Asked({}) ELSE approval[x]]
        /\ routes' = [routes EXCEPT ![c.b].next = {}]
  BY DEF ApproveFails
<1>2. /\ c.b \in Channels /\ c.p \in Principals /\ c.b \notin c.next /\ Reclaims(c)
      /\ c.approval \in [Principals -> Answers]
  BY <1>1 DEF Shaped, Commits, Committed, Completing, Claims
<1>3. PICK r \in Channels, p \in Principals : r = c.b /\ p = c.p
  BY <1>2
<1>4. PICK apps : apps = Released(c)
  OBVIOUS
<1>5. \A q \in Principals : apps[q] = IF q = p THEN "PENDING" ELSE c.approval[q]
  BY <1>2, <1>3, <1>4 DEF Released
<1>6. Refreshed(apps) \in {"PENDING", "PROCESSING"}
  BY ResolvedAs
<1>7. \A x \in Channels :
        /\ standing'[x] = IF x = r THEN Refreshed(apps) ELSE IF x \in c.next THEN "withdrawn" ELSE standing[x]
        /\ approval'[x] = IF x = r THEN apps ELSE IF x \in c.next THEN Asked({}) ELSE approval[x]
        /\ routes'[x].authorities = routes[x].authorities
  <2>1. \A x \in Channels : x \in Businesses
    BY DEF Businesses
  <2>2. \A x \in Channels : routes'[x].authorities = routes[x].authorities
    <3>1. routes' = [routes EXCEPT ![r].next = {}]
      BY <1>1, <1>3
    <3> QED
      BY <3>1 DEF Shaped, Records
  <2> QED
    BY <1>1, <1>3, <1>4, <2>1, <2>2
<1>8. KeptStays
  BY <1>1, GrowsHeld, HeldKept
<1>9. \A q \in Principals : 
        /\ apps[q] # "none" => q \in routes[r].authorities
        /\ apps[q] # "DENIED"
        /\ apps[q] = "PROCESSING" => Kept(r, q)
  <2> SUFFICES ASSUME NEW q \in Principals
               PROVE  /\ apps[q] # "none" => q \in routes[r].authorities
                      /\ apps[q] # "DENIED"
                      /\ apps[q] = "PROCESSING" => Kept(r, q)
    OBVIOUS
  <2>1. CASE q # p
    BY <1>2, <1>3, <1>5, <2>1 DEF Reclaims
  <2>2. CASE q = p
    BY <1>2, <1>3, <1>5, <2>2 DEF Reclaims
  <2> QED
    BY <2>1, <2>2
<1>10. ASSUME NEW x \in Channels, NEW q \in Principals
       PROVE  /\ approval'[x][q] # "none" => q \in routes'[x].authorities
              /\ approval'[x][q] = "PROCESSING" => Pending(x)' /\ Kept(x, q)'
              /\ Pending(x)' => approval'[x][q] # "DENIED"
  <2>1. CASE x = r
    BY <1>6, <1>7, <1>8, <1>9, <2>1 DEF Pending, KeptStays
  <2>2. CASE x # r /\ x \in c.next
    <3>1. approval'[x] = Asked({}) /\ standing'[x] = "withdrawn"
      BY <1>7, <2>2
    <3> QED
      BY <3>1 DEF Asked, Pending
  <2>3. CASE x # r /\ x \notin c.next
    <3>1. approval'[x] = approval[x] /\ standing'[x] = standing[x]
          /\ routes'[x].authorities = routes[x].authorities
      BY <1>7, <2>3
    <3> QED
      BY <1>8, <3>1 DEF Claims, ApprovalsFit, Pending, KeptStays
  <2> QED
    BY <2>1, <2>2, <2>3
<1> QED
  BY <1>1, <1>10 DEF Claims, ApprovalsFit

\* A step of the broker with one request r.
LEMMA RequestClaims ==
    ASSUME Shaped, Claims, NEW r \in Channels, KeptStays, commit' = commit, UNCHANGED jobs,
           \A c \in commit : c.op # "approve",
           \A q \in Principals :
             /\ approval'[r][q] # "none" => q \in routes'[r].authorities
             /\ approval'[r][q] \in {"none", "PENDING"},
           \A x \in Channels : x # r =>
             /\ approval'[x] = approval[x] /\ standing'[x] = standing[x] /\ routes'[x] = routes[x]
    PROVE  Claims'
<1>1. ASSUME NEW x \in Channels, NEW q \in Principals
      PROVE  /\ approval'[x][q] # "none" => q \in routes'[x].authorities
             /\ approval'[x][q] = "PROCESSING" => Pending(x)' /\ Kept(x, q)'
             /\ Pending(x)' => approval'[x][q] # "DENIED"
  <2>1. CASE x = r
    BY <2>1
  <2>2. CASE x # r
    BY <2>2 DEF Claims, ApprovalsFit, Pending, KeptStays
  <2> QED
    BY <2>1, <2>2
<1> QED
  BY <1>1 DEF Claims, ApprovalsFit

LEMMA ClaimClaims ==
    ASSUME Shaped, Claims, NEW j \in jobs, Claim(j), Leaving(abandoned)
    PROVE  Claims'
<1>1. PICK b, p : b = j.b /\ p = j.p /\ b \in Channels /\ p \in Principals /\ b \in Businesses
  BY JobIs DEF Shaped, Tasks, Claim, Businesses
<1>2. UNCHANGED <<commit, routes>> /\ j \in AllJobs
  BY DEF Claim, govButStandingJobs, Shaped, Tasks
<1>3. CASE MayClaim(b, p)
  <2>1. PICK ph \in {"claimed", "decided"} :
          /\ approval' = [approval EXCEPT ![b][p] = "PROCESSING"]
          /\ standing' = [standing EXCEPT ![b] = "PROCESSING"]
          /\ Advance(j, [j EXCEPT !.phase = ph])
    BY <1>1, <1>3 DEF Claim
  <2>2. PICK k : k = [j EXCEPT !.phase = ph] /\ Advance(j, k)
    BY <2>1
  <2>3. Later(j, k, ph)
    <3>1. ph \in Phases
      BY DEF Phases
    <3> QED
      BY <1>2, <2>2, <3>1, Rephased
  <2>4. KeptStays
    BY <2>2, <2>3, AdvancesHeld, HeldKept
  <2>5. Kept(b, p)'
    BY <1>1, <2>2, <2>3 DEF Advance, Later, Held, Holding, Kept
  <2>6. \A x \in Channels, q \in Principals :
          approval'[x][q] = IF x = b /\ q = p THEN "PROCESSING" ELSE approval[x][q]
    <3>1. approval \in [Channels -> [Principals -> Answers]]
      BY DEF Shaped, Records
    <3> QED
      BY <1>1, <2>1, <3>1
  <2>7. \A x \in Channels : standing'[x] = IF x = b THEN "PROCESSING" ELSE standing[x]
    <3>1. \A x \in Channels : x \in Businesses
      BY DEF Businesses
    <3> QED
      BY <1>1, <2>1, <3>1 DEF Shaped, Plain
  <2>8. Pending(b) /\ approval[b][p] = "PENDING" /\ p \in routes[b].authorities
    BY <1>1, <1>3 DEF MayClaim, Claims, ApprovalsFit
  <2>9. ASSUME NEW x \in Channels, NEW q \in Principals
        PROVE  /\ approval'[x][q] # "none" => q \in routes'[x].authorities
               /\ approval'[x][q] = "PROCESSING" => Pending(x)' /\ Kept(x, q)'
               /\ Pending(x)' => approval'[x][q] # "DENIED"
    <3>1. CASE x = b /\ q = p
      BY <1>2, <2>5, <2>6, <2>7, <2>8, <3>1 DEF Pending
    <3>2. CASE x # b \/ q # p
      <4>1. approval'[x][q] = approval[x][q] /\ (Pending(x)' <=> Pending(x)) /\ routes'[x] = routes[x]
        BY <1>2, <2>6, <2>7, <2>8, <3>2 DEF Pending
      <4> QED
        BY <2>4, <4>1 DEF Claims, ApprovalsFit, KeptStays
    <3> QED
      BY <3>1, <3>2
  <2>10. ASSUME NEW c \in commit', c.op = "approve" PROVE Reclaims(c)'
    <3>1. c \in commit /\ c.b \in Channels /\ Reclaims(c)
      BY <1>2, <2>10 DEF Shaped, Commits, Committed, Completing, Claims
    <3> QED
      BY <1>2, <2>4, <3>1 DEF Reclaims, KeptStays
  <2> QED
    BY <2>9, <2>10 DEF Claims, ApprovalsFit
<1>4. CASE ~MayClaim(b, p)
  <2>1. Finish(j) /\ UNCHANGED <<approval, standing>> /\ j.phase \in {"ready", "talking"}
    BY <1>1, <1>4 DEF Claim
  <2>2. KeptStays
    BY <2>1, KeepsHeld, HeldKept DEF Finish, Holding
  <2> QED
    BY <1>2, <2>1, <2>2, ClaimsStay DEF Pending
<1> QED
  BY <1>3, <1>4

LEMMA LapsedClaims ==
    ASSUME Shaped, Claims, NEW j \in jobs, CompleteLapsed(j), Leaving(abandoned)
    PROVE  Claims'
<1>1. /\ commit = {} /\ UNCHANGED <<commit, approval, routes, standing>> /\ Finish(j)
      /\ approval[j.b][j.p] # "PROCESSING" \/ ~Pending(j.b)
  BY DEF CompleteLapsed, MayComplete, Unlocked, Lapsed, govButStandingJobs, brokerVars
<1>2. ASSUME NEW x \in Channels, NEW q \in Principals, approval[x][q] = "PROCESSING"
      PROVE  Pending(x) /\ Kept(x, q)'
  <2>1. Pending(x) /\ Kept(x, q)
    BY <1>2 DEF Claims, ApprovalsFit
  <2>2. x # j.b \/ q # j.p
    BY <1>1, <1>2, <2>1
  <2>3. CASE Held(x, q)
    BY <1>1, <2>1, <2>2, <2>3 DEF Held, Kept, Finish
  <2>4. CASE <<x, q>> \in abandoned
    BY <2>1, <2>4, AbandonedStay
  <2> QED
    BY <2>1, <2>3, <2>4 DEF Kept
<1> QED
  BY <1>1, <1>2 DEF Claims, ApprovalsFit, Pending

LEMMA BrokerClaims ==
    ASSUME Shaped, Rooted, Conclusions, Claims, BrokerNext, Leaving(abandoned)
    PROVE  Claims'
<1>1. ASSUME NEW x \in Pairs, RequestChannel(x[1], x[2], x[3]) PROVE Claims'
  <2>1. PICK r, path :
          /\ r \in Channels
          /\ approval' = [approval EXCEPT ![r] = Asked(path)]
          /\ standing' = [standing EXCEPT ![r] = "PENDING"]
          /\ \E from, to : routes' = [routes EXCEPT ![r] = [from |-> from, to |-> to, authorities |-> path,
                                                         after |-> {}, next |-> {}]]
          /\ dealing = {} /\ UNCHANGED <<commit, jobs>>
    BY <1>1, BrokerAssumption DEF RequestChannel, govButStandingJobs
  <2>2. /\ routes'[r].authorities = path
        /\ \A y \in Channels : y # r => routes'[y] = routes[y]
    <3>1. PICK from, to : routes' = [routes EXCEPT ![r] = [from |-> from, to |-> to, authorities |-> path,
                                                           after |-> {}, next |-> {}]]
      BY <2>1
    <3>2. r \in Channels
      BY <2>1
    <3> QED
      BY <3>1, <3>2 DEF Shaped, Records
  <2>3. /\ approval'[r] = Asked(path)
        /\ \A y \in Channels : y # r => approval'[y] = approval[y] /\ standing'[y] = standing[y]
    BY <2>1 DEF Shaped, Records, Plain
  <2>4. \A c \in commit : c.op # "approve"
    BY <2>1, NoApproval
  <2>5. \A q \in Principals :
             /\ approval'[r][q] # "none" => q \in routes'[r].authorities
             /\ approval'[r][q] \in {"none", "PENDING"}
    BY <2>2, <2>3, AskedOf
  <2>6. KeptStays
    BY <2>1, GrowsHeld, HeldKept
  <2> QED
    BY <2>1, <2>2, <2>3, <2>4, <2>5, <2>6, RequestClaims
<1>2. CASE RequestFails
  <2>1. PICK d \in dealing :
          /\ d.op = "request" /\ standing' = [standing EXCEPT ![d.b] = "withdrawn"]
          /\ approval' = [approval EXCEPT ![d.b] = Asked({})]
          /\ UNCHANGED <<commit, jobs, routes>>
    BY <1>2 DEF RequestFails, govButStandingJobs
  <2>2. PICK r \in Channels : r = d.b
    BY DEF Shaped, Records
  <2>3. /\ approval'[r] = Asked({})
        /\ \A y \in Channels : y # r => approval'[y] = approval[y] /\ standing'[y] = standing[y]
    BY <2>1, <2>2 DEF Shaped, Records, Plain
  <2>4. \A c \in commit : c.op # "approve"
    BY <2>1, NoApproval
  <2>5. \A q \in Principals :
             /\ approval'[r][q] # "none" => q \in routes'[r].authorities
             /\ approval'[r][q] \in {"none", "PENDING"}
    BY <2>3, AskedOf
  <2>6. KeptStays
    BY <2>1, GrowsHeld, HeldKept
  <2> QED
    BY <2>1, <2>3, <2>4, <2>5, <2>6, RequestClaims
<1>3. CASE RequestOk \/ RequestCancelled \/ RevokeOk \/ RevokeFails \/ ApproveOk \/ ApproveCancelled
  <2>1. jobs \subseteq jobs' /\ UNCHANGED <<approval, routes, standing>> /\ commit' \subseteq commit
    BY <1>3 DEF RequestOk, RequestCancelled, RevokeOk, RevokeFails, ApproveOk, ApproveCancelled,
                 govButStandingJobs, govVars
  <2> QED
    BY <2>1, GrowsHeld, HeldKept, ClaimsStay DEF Pending
<1>4. ASSUME NEW r, Revoke(r) PROVE Claims'
  <2>1. jobs \subseteq jobs' /\ UNCHANGED <<approval, routes, standing>> /\ commit' \subseteq commit
    BY <1>4 DEF Revoke, govVars
  <2> QED
    BY <2>1, GrowsHeld, HeldKept, ClaimsStay DEF Pending
<1>5. ASSUME NEW t \in Teams, NEW r \in Channels, StartTalk(t, r) PROVE Claims'
  <2>1. UNCHANGED <<approval, routes, standing>> /\ commit' \subseteq commit
    BY <1>5 DEF StartTalk, govButStandingJobs, brokerVars
  <2>2. \A j \in jobs : j \in jobs' \/ j.phase = "ready"
    BY <1>5 DEF StartTalk
  <2>3. HeldStays
    BY <2>2 DEF HeldStays, Held, Holding
  <2> QED
    BY <2>1, <2>3, HeldKept, ClaimsStay DEF Pending
<1>6. ASSUME NEW j \in jobs, ClaimedAlready(j) PROVE Claims'
  <2>1. /\ UNCHANGED <<approval, routes, standing>> /\ commit' \subseteq commit
        /\ Advance(j, [j EXCEPT !.phase = "decided"])
    BY <1>6 DEF ClaimedAlready, govButStandingJobs, brokerVars
  <2>2. PICK k : k = [j EXCEPT !.phase = "decided"] /\ Advance(j, k)
    BY <2>1
  <2>3. Later(j, k, "decided")
    <3>1. j \in AllJobs /\ "decided" \in Phases
      BY DEF Phases, Shaped, Tasks
    <3> QED
      BY <2>2, <3>1, Rephased
  <2> QED
    BY <2>1, <2>2, <2>3, AdvancesHeld, HeldKept, ClaimsStay DEF Pending
<1>7. ASSUME NEW j \in jobs, ClaimCancelled(j) PROVE Claims'
  <2>1. /\ UNCHANGED <<approval, routes, standing>> /\ commit' \subseteq commit
        /\ Advance(j, [j EXCEPT !.phase = "releasing"])
    BY <1>7 DEF ClaimCancelled, brokerVars
  <2>2. PICK k : k = [j EXCEPT !.phase = "releasing"] /\ Advance(j, k)
    BY <2>1
  <2>3. Later(j, k, "releasing")
    <3>1. j \in AllJobs /\ "releasing" \in Phases
      BY DEF Phases, Shaped, Tasks
    <3> QED
      BY <2>2, <3>1, Rephased
  <2> QED
    BY <2>1, <2>2, <2>3, AdvancesHeld, HeldKept, ClaimsStay DEF Pending
<1> QED
  BY <1>1, <1>2, <1>3, <1>4, <1>5, <1>6, <1>7, ClaimClaims, LapsedClaims, CompleteClaims, ApproveFailsClaims
  DEF BrokerNext

LEMMA ClaimsStep ==
    ASSUME Shaped, Rooted, Conclusions, Claims, [Next]_vars
    PROVE  Claims'
<1>1. CASE GovNext /\ UNCHANGED <<migVars, brokerVars, limit>> /\ Leaving(abandoned)
  BY <1>1, GovHeld, HeldKept, ChannelsStand, NoApprovalBegins, ClaimsStay DEF Pending, brokerVars
<1>2. CASE MigNext /\ UNCHANGED <<brokerVars, limit>> /\ Leaving(abandoned)
  BY <1>2, MigHeld, HeldKept, ChannelsStand, NoApprovalBegins, ClaimsStay DEF Pending, brokerVars
<1>3. CASE BrokerNext /\ Leaving(abandoned)
  BY <1>3, BrokerClaims
<1>4. CASE Restart
  <2>1. /\ commit' = {} /\ routes' = routes
        /\ approval' = [r \in Channels |-> Unclaimed(approval[r])]
        /\ \A x \in Channels : standing'[x] = IF standing[x] = "PROCESSING" THEN "PENDING" ELSE standing[x]
    BY <1>4, GovernanceAssumption DEF Restart, Businesses
  <2>2. \A r \in Channels, p \in Principals :
          /\ approval'[r][p] = IF approval[r][p] = "PROCESSING" THEN "PENDING" ELSE approval[r][p]
          /\ Pending(r)' <=> Pending(r)
    BY <2>1 DEF Unclaimed, Pending
  <2> QED
    BY <2>1, <2>2 DEF Claims, ApprovalsFit
<1>5. CASE UNCHANGED vars
  <2>1. UNCHANGED <<approval, routes, standing, commit, jobs, abandoned>>
    BY <1>5 DEF vars, govVars, brokerVars
  <2>2. KeptStays
    BY <2>1 DEF KeptStays, Kept, Held
  <2> QED
    BY <2>1, <2>2, ClaimsStay DEF Pending
<1>6. ASSUME NEW j, Abandon(j) PROVE Claims'
  <2>1. UNCHANGED <<approval, routes, standing, commit>>
    BY <1>6, AbandonSays DEF brokerVars
  <2> QED
    BY <1>6, <2>1, AbandonKept, ClaimsStay DEF Pending
<1> QED
  BY <1>1, <1>2, <1>3, <1>4, <1>5, <1>6 DEF Next

LEMMA ClaimsInit == Init => Claims
<1> SUFFICES ASSUME Init PROVE Claims
  OBVIOUS
<1>1. commit = {} /\ approval = [r \in Channels |-> Asked({})]
  BY DEF Init, GovInit, BrokerInit
<1>2. \A r \in Channels, p \in Principals : approval[r][p] = "none"
  BY <1>1, AskedOf
<1> QED
  BY <1>1, <1>2 DEF Claims, ApprovalsFit

-----------------------------------------------------------------------------
(* Scheduling: something is under way that resolves a migration whose       *)
(* rounds are decided, unless the caller has been cancelled.                *)

Quiet == spent.faults = 0 /\ spent.changes = 0

Due(m) ==
    /\ standing[m] = "PENDING" /\ m \notin opening /\ Quiet
    /\ \/ \E p \in plans[m].authorities : Objects(m, p)
       \/ \A p \in plans[m].authorities : Consents(m, p)

Tended(m) == \E j \in jobs : j.b = m
Announced(m) ==
    \E c \in commit : c.op = "submit" /\ c.b = m /\ Latest(c.b, c.p).status \in {"APPROVED", "DENIED"}

Lost(m) == <<m, Root>> \in abandoned

Scheduling ==
    /\ \A m \in Migrations : Due(m) => Tended(m) \/ Announced(m) \/ Lost(m)
    /\ \A c \in commit : c.op = "migrate" => standing[c.b] # "PENDING"
    /\ \A m, n \in opening : m = n

LEMMA SchedulingResolves ==
    ASSUME Scheduling PROVE Resolving
<1> SUFFICES ASSUME NEW m \in Migrations, standing[m] = "PENDING", Quiet, m \notin opening,
                    \A x \in commit \cup jobs : x.b # m, <<m, Root>> \notin abandoned
             PROVE  Verdict(m) = "PENDING"
  BY DEF Resolving, Quiet
<1>1. ~Due(m)
  BY DEF Scheduling, Tended, Announced, Lost
<1>2. ~(\E p \in plans[m].authorities : Objects(m, p)) /\ ~(\A p \in plans[m].authorities : Consents(m, p))
  BY <1>1 DEF Due
<1> QED
  BY <1>2 DEF Verdict

\* What is not due after a step need not be seen to.
LEMMA Undue ==
    ASSUME NEW m, standing'[m] # "PENDING" \/ m \in opening' \/ ~Quiet'
    PROVE  ~Due(m)'
BY DEF Due

LEMMA FailSpent ==
    ASSUME Shaped PROVE (Fail => ~Quiet') /\ (spent' = [spent EXCEPT !.changes = @ + 1] => ~Quiet')
<1>1. spent \in Bounds
  BY DEF Shaped, Plain
<1>2. ASSUME spent' = [spent EXCEPT !.faults = @ + 1] PROVE spent'.faults # 0
  BY <1>1, <1>2 DEF Bounds
<1>3. ASSUME spent' = [spent EXCEPT !.changes = @ + 1] PROVE spent'.changes # 0
  BY <1>1, <1>3 DEF Bounds
<1> QED
  BY <1>2, <1>3 DEF Fail, Quiet

LEMMA CancelQuiet == ASSUME Shaped, Cancel PROVE Quiet' => Quiet
<1>1. spent \in Bounds
  BY DEF Shaped, Plain
<1>2. spent'.faults = spent.faults /\ spent'.changes = spent.changes
  BY <1>1 DEF Cancel, Bounds
<1> QED
  BY <1>2 DEF Quiet

\* What has been abandoned stays so until a task takes it up.
LEMMA LostStays ==
    ASSUME NEW S, Leaving(S), NEW m, <<m, Root>> \in S
    PROVE  Tended(m)' \/ Lost(m)'
<1>1. CASE <<m, Root>> \in abandoned'
  BY <1>1 DEF Lost
<1>2. CASE <<m, Root>> \notin abandoned'
  <2>1. PICK k \in {i \in jobs' : Minds(i)} : <<m, Root>> = <<k.b, k.p>>
    BY <1>2 DEF Leaving
  <2>2. k \in jobs' /\ k.b = m
    BY <2>1
  <2> QED
    BY <2>2 DEF Tended
<1> QED
  BY <1>1, <1>2

\* A step that leaves m and its rounds alone leaves what has to be done for it.
LEMMA DueRemains ==
    ASSUME Scheduling, NEW m \in Migrations, UNCHANGED members, plans'[m] = plans[m],
           rounds'[m] = rounds[m], standing'[m] = standing[m], m \in opening => m \in opening',
           Quiet' => Quiet, Tended(m) => Tended(m)',
           \A c \in commit : c.op = "submit" /\ c.b = m => c \in commit' \/ Tended(m)',
           Lost(m) => Tended(m)' \/ Lost(m)'
    PROVE  Due(m)' => Tended(m)' \/ Announced(m)' \/ Lost(m)'
<1> SUFFICES ASSUME Due(m)', ~Tended(m)', ~Lost(m)' PROVE Announced(m)'
  OBVIOUS
<1>1. \A p : (LatestIs(m, p, "APPROVED")' <=> LatestIs(m, p, "APPROVED"))
             /\ (LatestIs(m, p, "DENIED")' <=> LatestIs(m, p, "DENIED"))
             /\ Latest(m, p)' = Latest(m, p)
  BY DEF LatestIs, HasRound, Latest, Number
<1>2. \A p : (Objects(m, p)' <=> Objects(m, p)) /\ (Consents(m, p)' <=> Consents(m, p))
  BY <1>1 DEF Objects, Consents, Valid, Electorate
<1>3. Due(m)
  BY <1>2 DEF Due
<1>4. Announced(m)
  BY <1>3 DEF Scheduling
<1>5. PICK c \in commit : c.op = "submit" /\ c.b = m /\ Latest(c.b, c.p).status \in {"APPROVED", "DENIED"}
  BY <1>4 DEF Announced
<1>6. c \in commit' /\ Latest(c.b, c.p)' = Latest(c.b, c.p)
  BY <1>1, <1>5
<1> QED
  BY <1>5, <1>6 DEF Announced

LEMMA DueStays ==
    ASSUME Scheduling, NEW m \in Migrations, UNCHANGED members, plans'[m] = plans[m],
           rounds'[m] = rounds[m], standing'[m] = standing[m], m \in opening => m \in opening',
           Quiet' => Quiet, Tended(m) => Tended(m)', Leaving(abandoned),
           \A c \in commit : c.op = "submit" /\ c.b = m => c \in commit' \/ Tended(m)'
    PROVE  Due(m)' => Tended(m)' \/ Announced(m)' \/ Lost(m)'
<1>1. Lost(m) => Tended(m)' \/ Lost(m)'
  BY LostStays DEF Lost
<1> QED
  BY <1>1, DueRemains

\* Somebody who is told of m is tended, or a task with the same key is.
LEMMA TrackedTends ==
    ASSUME NEW new, NEW k \in new, jobs' = jobs \cup Tracked(new), \A x \in new : x.b = k.b
    PROVE  Tended(k.b)'
<1>1. k \in Tracked(new) \/ \E j \in jobs : j.b = k.b
  BY DEF Tracked
<1> QED
  BY <1>1 DEF Tended

LEMMA PreparedTends ==
    ASSUME NEW m, plans'[m].authorities # {}, jobs' = jobs \cup Preparations(m)
    PROVE  Tended(m)'
<1>1. PICK new : new = {Job("prepare", m, p, 0, "ready", {}) : p \in plans'[m].authorities}
  OBVIOUS
<1>2. jobs' = jobs \cup Tracked(new)
  BY <1>1 DEF Preparations
<1>3. \A x \in new : x.b = m
  BY <1>1 DEF Job
<1>4. PICK p \in plans'[m].authorities : TRUE
  OBVIOUS
<1>5. Job("prepare", m, p, 0, "ready", {}) \in new
  BY <1>1
<1> QED
  BY <1>2, <1>3, <1>5, TrackedTends

LEMMA FollowedTends ==
    ASSUME NEW m, jobs' = jobs \cup Followed(m)
    PROVE  Tended(m)'
<1>1. CASE plans'[m].authorities = {}
  <2>1. PICK n : n = spent'.changes
    OBVIOUS
  <2>2. Job("call", m, Root, n, "ready", {}) \in jobs' /\ Job("call", m, Root, n, "ready", {}).b = m
    BY <1>1, <2>1 DEF Followed, Job
  <2> QED
    BY <2>2 DEF Tended
<1>2. CASE plans'[m].authorities # {}
  BY <1>2, PreparedTends DEF Followed
<1> QED
  BY <1>1, <1>2

LEMMA ScheduledTends ==
    ASSUME NEW m, jobs' = jobs \cup Scheduled(m)
    PROVE  Tended(m)'
<1>1. CASE plans'[m].authorities = {}
  <2>1. Scheduled(m) = Tracked({Job("resolve", m, Root, 0, "ready", {})})
    BY <1>1 DEF Scheduled
  <2>2. Job("resolve", m, Root, 0, "ready", {}).b = m
    BY DEF Job
  <2>3. PICK k, new : k = Job("resolve", m, Root, 0, "ready", {}) /\ new = {k}
    OBVIOUS
  <2> QED
    BY <2>1, <2>2, <2>3, TrackedTends
<1>2. CASE plans'[m].authorities # {}
  BY <1>2, PreparedTends DEF Scheduled
<1> QED
  BY <1>1, <1>2

\* Tasks of migrations stay unless they are finished.
LEMMA TendedStays ==
    ASSUME NEW m \in Migrations, NEW j, jobs \ {j} \subseteq jobs',
           j.b = m => \E k \in jobs' : k.b = m
    PROVE  Tended(m) => Tended(m)'
BY DEF Tended

LEMMA GovScheduling ==
    ASSUME Shaped, Rooted, Scheduling, GovNext, UNCHANGED <<migVars, brokerVars, limit>>,
           Leaving(abandoned)
    PROVE  Scheduling'
<1>0. Aside
  BY GovernanceSteps
<1>1. \A c \in commit' : c.op = "migrate" => standing'[c.b] # "PENDING"
  <2> SUFFICES ASSUME NEW c \in commit', c.op = "migrate" PROVE standing'[c.b] # "PENDING"
    OBVIOUS
  <2>1. c \in commit
    BY <1>0 DEF Aside
  <2>2. c.b \in Migrations
    BY <2>1 DEF Shaped, Commits, Committed, Migrating
  <2> QED
    BY <1>0, <2>1, <2>2 DEF Aside, Scheduling
<1> DEFINE Goal(m) == Due(m)' => Tended(m)' \/ Announced(m)' \/ Lost(m)'
<1>2. \A m \in Migrations : plans'[m] = plans[m] /\ standing'[m] = standing[m] /\ opening' = opening
      /\ m \in Businesses /\ m \notin Failovers
  BY <1>0, GovernanceAssumption DEF Aside, Businesses
\* Steps that leave members and rounds alone.
<1>3. ASSUME NEW m \in Migrations, UNCHANGED members, rounds'[m] = rounds[m], Quiet' => Quiet,
             Tended(m) => Tended(m)',
             \A c \in commit : c.op = "submit" /\ c.b = m => c \in commit' \/ Tended(m)'
      PROVE  Goal(m)
  BY <1>2, <1>3, DueStays
<1>4. ASSUME NEW j \in jobs, CreateReturns(j) PROVE \A m \in Migrations : Goal(m)
  <2>1. UNCHANGED <<members, rounds, commit, spent>> /\ jobs \ {j} \subseteq jobs'
    BY <1>4 DEF CreateReturns, Advance
  <2>2. \E k \in jobs' : k.b = j.b
    <3>1. j \in AllJobs
      BY DEF Shaped, Tasks
    <3>2. [j EXCEPT !.phase = "undecided"].b = j.b /\
          \A n, ph : [j EXCEPT !.n = n, !.phase = ph].b = j.b
      BY <3>1 DEF AllJobs
    <3> QED
      BY <1>4, <3>2 DEF CreateReturns, Advance
  <2> QED
    BY <1>3, <2>1, <2>2, TendedStays DEF Quiet
<1>5. ASSUME NEW j \in jobs, CreateRound(j) PROVE \A m \in Migrations : Goal(m)
  <2>1. /\ commit = {} /\ UNCHANGED <<members, jobs>>
        /\ spent' = [spent EXCEPT !.rounds = @ + 1]
        /\ \A m \in Businesses : m # j.b => rounds'[m] = rounds[m]
    BY <1>5 DEF CreateRound, Unlocked, Shaped, Rows
  <2>2. Quiet' => Quiet
    BY <2>1 DEF Quiet, Shaped, Plain, Bounds
  <2>3. ASSUME NEW m \in Migrations PROVE Goal(m)
    <3>1. CASE m = j.b
      BY <2>1, <3>1 DEF Tended
    <3>2. CASE m # j.b
      BY <1>2, <1>3, <2>1, <2>2, <3>2 DEF Tended
    <3> QED
      BY <3>1, <3>2
  <2> QED
    BY <2>3
<1>6. ASSUME CreateOk PROVE \A m \in Migrations : Goal(m)
  <2>1. PICK c \in commit : /\ c.op = "create" /\ UNCHANGED <<members, rounds, spent>>
                            /\ Advance(c.job, [c.job EXCEPT !.phase = "undecided", !.n = Number(c.b, c.p)])
    BY <1>6 DEF CreateOk
  <2>2. c.job \in AllJobs /\ \A d \in commit : d.op # "submit"
    BY <2>1 DEF Shaped, Commits, Committed, Creating, Tasks
  <2>3. \A n : [c.job EXCEPT !.phase = "undecided", !.n = n].b = c.job.b
    BY <2>2 DEF AllJobs
  <2>4. jobs \ {c.job} \subseteq jobs' /\ \E k \in jobs' : k.b = c.job.b
    BY <2>1, <2>3 DEF Advance
  <2> QED
    BY <1>3, <2>1, <2>2, <2>4, TendedStays DEF Quiet
<1>7. ASSUME SubmitOk PROVE \A m \in Migrations : Goal(m)
  <2>1. PICK c \in commit : /\ c.op = "submit" /\ UNCHANGED <<members, rounds, spent>>
                            /\ jobs' = jobs \cup Resolutions(c)
    BY <1>7 DEF SubmitOk
  <2>2. /\ \A d \in commit : d = c
        /\ c.n = Number(c.b, c.p)
    BY <2>1 DEF Shaped, Commits, Committed, Submitting
  <2>3. ASSUME NEW m \in Migrations PROVE Goal(m)
    <3>1. CASE c.b = m /\ Latest(c.b, c.p).status \in {"APPROVED", "DENIED"}
      <4>1. PICK k : k = Job("resolve", c.b, c.p, c.n, "ready", {})
        OBVIOUS
      <4>2. k.b = m
        BY <3>1, <4>1 DEF Job
      <4>3. Resolutions(c) = Tracked({k})
        BY <1>2, <2>2, <3>1, <4>1 DEF Resolutions, Latest
      <4>4. PICK new : new = {k}
        OBVIOUS
      <4>5. jobs' = jobs \cup Tracked(new) /\ k \in new /\ \A x \in new : x.b = k.b
        BY <2>1, <4>3, <4>4
      <4> QED
        BY <4>2, <4>5, TrackedTends
    <3>2. CASE ~(c.b = m /\ Latest(c.b, c.p).status \in {"APPROVED", "DENIED"})
      <4>1. ~Announced(m)
        BY <2>2, <3>2 DEF Announced
      <4>2. Tended(m) => Tended(m)'
        BY <2>1 DEF Tended
      <4>3. Due(m)' => Due(m)
        <5>1. \A p : (LatestIs(m, p, "APPROVED")' <=> LatestIs(m, p, "APPROVED"))
                     /\ (LatestIs(m, p, "DENIED")' <=> LatestIs(m, p, "DENIED"))
                     /\ Latest(m, p)' = Latest(m, p)
          BY <2>1 DEF LatestIs, HasRound, Latest, Number
        <5>2. \A p : (Objects(m, p)' <=> Objects(m, p)) /\ (Consents(m, p)' <=> Consents(m, p))
          BY <2>1, <5>1 DEF Objects, Consents, Valid, Electorate
        <5> QED
          BY <1>2, <2>1, <5>2 DEF Due, Quiet
      <4>4. Lost(m) => Tended(m)' \/ Lost(m)'
        BY LostStays DEF Lost
      <4> QED
        BY <4>1, <4>2, <4>3, <4>4 DEF Scheduling
    <3> QED
      BY <3>1, <3>2
  <2> QED
    BY <2>3
<1>8. ASSUME CreateFails \/ SubmitFails PROVE \A m \in Migrations : Goal(m)
  <2>1. ~Quiet'
    BY <1>8, FailSpent DEF CreateFails, SubmitFails
  <2> QED
    BY <2>1, Undue
<1>9. ASSUME NEW j \in jobs, TalkFails(j) PROVE \A m \in Migrations : Goal(m)
  <2>1. ~Quiet'
    BY <1>9, FailSpent DEF TalkFails
  <2> QED
    BY <2>1, Undue
<1>10. ASSUME NEW t, NEW a, ChangeMembers(t, a) PROVE \A m \in Migrations : Goal(m)
  <2>1. ~Quiet'
    BY <1>10, FailSpent DEF ChangeMembers
  <2> QED
    BY <2>1, Undue
<1>11. ASSUME NEW b \in Businesses, NEW p \in Principals, NEW a \in Agents,
              NEW n \in DOMAIN rounds[b][p], NEW x \in Choices(b), Submit(a, b, p, n, x)
       PROVE  \A m \in Migrations : Goal(m)
  <2>1. commit = {} /\ UNCHANGED <<members, spent, jobs>>
    BY <1>11 DEF Submit, Unlocked
  <2>2. \A m \in Businesses, q \in Principals : m # b \/ q # p => rounds'[m][q] = rounds[m][q]
    BY <1>11, SubmitShape
  <2>3. ASSUME NEW m \in Migrations, Due(m)' PROVE Tended(m)' \/ Announced(m)' \/ Lost(m)'
    <3>1. (Tended(m) => Tended(m)') /\ (Lost(m) => Tended(m)' \/ Lost(m)')
      BY <2>1, LostStays DEF Tended, Lost
    <3>2. CASE Due(m)
      BY <2>1, <3>1, <3>2 DEF Scheduling, Announced
    <3>3. CASE ~Due(m)
      <4>1. plans[m].authorities \subseteq Principals /\ UNCHANGED standing /\ m \in Businesses
        BY <1>2, <1>11 DEF Shaped, Records, Submit
      <4>2. \A q \in Principals : m # b \/ q # p =>
              (Objects(m, q)' <=> Objects(m, q)) /\ (Consents(m, q)' <=> Consents(m, q))
        BY <2>1, <2>2, <4>1 DEF Objects, Consents, LatestIs, HasRound, Latest, Number, Valid, Electorate
      <4>3. m = b /\ (Objects(m, p)' \/ Consents(m, p)')
        BY <1>2, <2>1, <2>3, <3>3, <4>1, <4>2 DEF Due, Quiet
      <4>4. LatestIs(b, p, "DENIED")' \/ LatestIs(b, p, "APPROVED")'
        BY <4>3 DEF Objects, Consents
      <4>5. PICK c \in commit' : c.op = "submit" /\ c.b = b /\ c.p = p
        BY <1>11 DEF Submit
      <4>6. Latest(c.b, c.p)'.status \in {"APPROVED", "DENIED"}
        BY <4>4, <4>5 DEF LatestIs, Latest, Number
      <4> QED
        BY <4>3, <4>5, <4>6 DEF Announced
    <3> QED
      BY <3>2, <3>3
  <2> QED
    BY <2>3
<1>12. ASSUME NEW f \in Failovers, StartFailover(f) \/ Deadline(f) PROVE \A m \in Migrations : Goal(m)
  <2>1. UNCHANGED <<members, rounds, commit, spent>> /\ jobs \subseteq jobs'
    BY <1>12 DEF StartFailover, Deadline
  <2> QED
    BY <1>3, <2>1 DEF Quiet, Tended
<1>13. ASSUME NEW j \in jobs, FailoverDecided(j) \/ FailoverEnds(j) \/ Expire(j)
       PROVE  \A m \in Migrations : Goal(m)
  <2>1. j.b \in Failovers
    BY <1>13 DEF FailoverDecided, FailoverEnds, Expire, Shaped, Tasks, Tasked
  <2>2. UNCHANGED <<members, spent>> /\ jobs \ {j} \subseteq jobs'
    BY <1>13 DEF FailoverDecided, FailoverEnds, Expire, Finish, Advance
  <2>3. \A m \in Migrations : rounds'[m] = rounds[m]
    BY <1>2, <1>13, <2>1 DEF FailoverDecided, FailoverEnds, Expire, SetRound, Shaped, Rows
  <2>4. \A c \in commit : c.op = "submit" => c \in commit'
    BY <1>13 DEF FailoverDecided, FailoverEnds, Expire, Unlocked
  <2> QED
    BY <1>2, <1>3, <2>1, <2>2, <2>3, <2>4, TendedStays DEF Quiet
<1>14. \A m \in Migrations : Goal(m)
  BY <1>4, <1>5, <1>6, <1>7, <1>8, <1>9, <1>10, <1>11, <1>12, <1>13 DEF GovNext
<1>15. \A m, n \in opening' : m = n
  BY <1>0 DEF Aside, Scheduling
<1> QED
  BY <1>1, <1>14, <1>15 DEF Scheduling

LEMMA MigScheduling ==
    ASSUME Shaped, Rooted, Scheduling, MigNext, UNCHANGED <<brokerVars, limit>>, Leaving(abandoned)
    PROVE  Scheduling'
<1> DEFINE Goal(m) == Due(m)' => Tended(m)' \/ Announced(m)' \/ Lost(m)'
           Moved == /\ \A c \in commit' : c.op = "migrate" => standing'[c.b] # "PENDING"
                    /\ \A m, n \in opening' : m = n
<1>1. \A m \in Migrations : m \in Businesses /\ m \notin Failovers
  BY GovernanceAssumption DEF Businesses
<1>2. standing \in [Businesses -> Standings]
      /\ plans = [m \in Migrations |-> plans[m]]
  BY DEF Shaped, Plain, Records
<1>3. (\A c \in commit' : c \in commit) /\ UNCHANGED standing /\ opening' \subseteq opening => Moved
  BY DEF Scheduling
<1>4. ASSUME NEW x \in Moves, Negotiate(x[1], x[2], x[3]) PROVE Moved /\ \A m \in Migrations : Goal(m)
  <2>1. /\ opening = {} /\ opening' = {x[1]} /\ x[1] \in Migrations
        /\ standing' = [standing EXCEPT ![x[1]] = "PENDING"]
        /\ \E q : plans' = [plans EXCEPT ![x[1]] = q]
        /\ UNCHANGED <<members, rounds, commit, jobs, spent>>
    BY <1>4 DEF Negotiate
  <2>2. \A c \in commit' : c.op # "migrate"
    BY <2>1 DEF Rooted, Undoable
  <2>3. ASSUME NEW m \in Migrations PROVE Goal(m)
    <3>1. CASE m = x[1]
      BY <2>1, <3>1, Undue
    <3>2. CASE m # x[1]
      <4>1. plans'[m] = plans[m] /\ standing'[m] = standing[m] /\ m \notin opening
        BY <1>1, <1>2, <2>1, <3>2
      <4> QED
        BY <2>1, <4>1, DueStays DEF Quiet, Tended
    <3> QED
      BY <3>1, <3>2
  <2> QED
    BY <2>1, <2>2, <2>3
<1>5. ASSUME NegotiateOk \/ NegotiateCancelled PROVE Moved /\ \A m \in Migrations : Goal(m)
  <2>1. PICK n \in opening :
          /\ opening' = {} /\ plans' = plans
          /\ jobs' = jobs \cup Followed(n) \/ jobs' = jobs \cup Scheduled(n)
          /\ UNCHANGED <<members, rounds, standing, commit>>
          /\ UNCHANGED spent \/ Cancel
    BY <1>5 DEF NegotiateOk, NegotiateCancelled
  <2>2. ASSUME NEW m \in Migrations PROVE Goal(m)
    <3>1. CASE m = n
      BY <2>1, <3>1, FollowedTends, ScheduledTends
    <3>2. CASE m # n
      <4>1. Tended(m) => Tended(m)'
        BY <2>1 DEF Tended
      <4>2. m \notin opening
        BY <2>1, <3>2 DEF Scheduling
      <4>3. Quiet' => Quiet
        BY <2>1, CancelQuiet DEF Quiet
      <4> QED
        BY <2>1, <4>1, <4>2, <4>3, DueStays
    <3> QED
      BY <3>1, <3>2
  <2> QED
    BY <1>3, <2>1, <2>2
<1>6. ASSUME NEW n, Insist(n) PROVE Moved /\ \A m \in Migrations : Goal(m)
  <2>1. ~Quiet' /\ UNCHANGED <<commit, standing, opening>>
    BY <1>6, FailSpent DEF Insist
  <2> QED
    BY <1>3, <2>1, Undue
<1>7. ASSUME NegotiateFails PROVE Moved /\ \A m \in Migrations : Goal(m)
  <2>1. ~Quiet' /\ ~Committing("migrate") /\ UNCHANGED commit /\ opening' = {}
    BY <1>7, FailSpent DEF NegotiateFails
  <2>2. \A c \in commit' : c.op # "migrate"
    BY <2>1 DEF Committing
  <2> QED
    BY <2>1, <2>2, Undue
<1>8. ASSUME ResolveFails PROVE Moved /\ \A m \in Migrations : Goal(m)
  <2>1. ~Quiet' /\ commit' = {} /\ opening' = {}
    BY <1>8, FailSpent DEF ResolveFails
  <2> QED
    BY <2>1, Undue
<1>9. ASSUME ResolveOk PROVE Moved /\ \A m \in Migrations : Goal(m)
  <2>1. PICK c \in commit : /\ c.op = "migrate" /\ commit' = {} /\ opening' = {}
                            /\ UNCHANGED <<members, standing, rounds, jobs, spent, plans>>
    BY <1>9 DEF ResolveOk
  <2>2. opening = {c.b} /\ standing[c.b] # "PENDING" /\ \A d \in commit : d.op # "submit"
    BY <2>1 DEF Rooted, Undoable, Scheduling
  <2>3. ASSUME NEW m \in Migrations PROVE Goal(m)
    <3>1. CASE m = c.b
      BY <2>1, <2>2, <3>1, Undue
    <3>2. CASE m # c.b
      BY <2>1, <2>2, <3>2, DueStays DEF Quiet, Tended
    <3> QED
      BY <3>1, <3>2
  <2> QED
    BY <2>1, <2>3
<1>10. ASSUME NEW j \in jobs, Prepare(j) PROVE Moved /\ \A m \in Migrations : Goal(m)
  <2>1. /\ UNCHANGED <<members, standing, rounds, commit, spent, plans, opening>>
        /\ jobs \ {j} \subseteq jobs'
        /\ standing[j.b] = "PENDING" => \E k \in jobs' : k.b = j.b
    <3>1. j \in AllJobs
      BY DEF Shaped, Tasks
    <3>2. [j EXCEPT !.phase = "talking", !.snap = Electorate(j.p)].b = j.b
      BY <3>1 DEF AllJobs
    <3> QED
      BY <1>10, <3>2 DEF Prepare, migVars, Advance, Finish
  <2>2. ASSUME NEW m \in Migrations PROVE Goal(m)
    <3>1. CASE standing[m] # "PENDING"
      BY <2>1, <3>1, Undue
    <3>2. CASE standing[m] = "PENDING"
      <4>1. Tended(m) => Tended(m)'
        BY <2>1, <3>2, TendedStays
      <4> QED
        BY <2>1, <4>1, DueStays DEF Quiet
    <3> QED
      BY <3>1, <3>2
  <2> QED
    BY <1>3, <2>1, <2>2
<1>11. ASSUME NEW j \in jobs, Nothing(j) PROVE Moved /\ \A m \in Migrations : Goal(m)
  <2>1. /\ UNCHANGED <<members, standing, rounds, commit, spent, plans, opening>>
        /\ jobs \ {j} \subseteq jobs' /\ commit = {} /\ Verdict(j.b) = "PENDING"
    BY <1>11 DEF Nothing, migVars, Finish, Unlocked
  <2>2. ASSUME NEW m \in Migrations PROVE Goal(m)
    <3>1. CASE m = j.b
      <4>1. \A p : (LatestIs(m, p, "APPROVED")' <=> LatestIs(m, p, "APPROVED"))
                   /\ (LatestIs(m, p, "DENIED")' <=> LatestIs(m, p, "DENIED"))
                   /\ Latest(m, p)' = Latest(m, p)
        BY <2>1 DEF LatestIs, HasRound, Latest, Number
      <4>2. \A p : (Objects(m, p)' <=> Objects(m, p)) /\ (Consents(m, p)' <=> Consents(m, p))
        BY <2>1, <4>1 DEF Objects, Consents, Valid, Electorate
      <4>3. standing[m] = "PENDING" =>
              ~(\E p \in plans[m].authorities : Objects(m, p)) /\ ~(\A p \in plans[m].authorities : Consents(m, p))
        BY <2>1, <3>1 DEF Verdict
      <4> QED
        BY <2>1, <4>2, <4>3 DEF Due
    <3>2. CASE m # j.b
      BY <2>1, <3>2, DueStays, TendedStays DEF Quiet
    <3> QED
      BY <3>1, <3>2
  <2> QED
    BY <1>3, <2>1, <2>2
<1>12. ASSUME NEW j \in jobs, Resolve(j) PROVE Moved /\ \A m \in Migrations : Goal(m)
  <2>1. /\ j.b \in Migrations /\ j.b \in Businesses
        /\ standing' = [standing EXCEPT ![j.b] = Verdict(j.b)] /\ Verdict(j.b) # "PENDING"
        /\ opening = {} /\ opening' = {j.b} /\ commit = {}
        /\ UNCHANGED <<members, spent, plans>> /\ jobs \ {j} \subseteq jobs'
    BY <1>12, <1>1 DEF Resolve, Completes, Finish, Unlocked
  <2>2. \A c \in commit' : c.b = j.b
    BY <1>12 DEF Resolve
  <2>3. \A m \in Businesses : m # j.b => rounds'[m] = rounds[m] /\ standing'[m] = standing[m]
    BY <1>2, <1>12, <2>1, ResolveShape
  <2>4. ASSUME NEW m \in Migrations PROVE Goal(m)
    <3>1. CASE m = j.b
      BY <2>1, <3>1, Undue
    <3>2. CASE m # j.b
      <4>1. Tended(m) => Tended(m)'
        BY <2>1, <3>2, TendedStays
      <4> QED
        BY <1>1, <2>1, <2>3, <3>2, <4>1, DueStays DEF Quiet
    <3> QED
      BY <3>1, <3>2
  <2>5. standing'[j.b] # "PENDING"
    BY <1>2, <2>1
  <2> QED
    BY <2>1, <2>2, <2>4, <2>5
<1>13. ASSUME NEW t, BeginDiscussion(t) PROVE Moved /\ \A m \in Migrations : Goal(m)
  <2>1. UNCHANGED <<members, standing, rounds, commit, jobs, spent, plans, opening>>
    BY <1>13 DEF BeginDiscussion, govVars
  <2> QED
    BY <1>3, <2>1, DueStays DEF Quiet, Tended
<1>14. Moved /\ \A m \in Migrations : Goal(m)
  <2> HIDE DEF Moved, Goal
  <2> QED
    BY MigNext, <1>4, <1>5, <1>6, <1>7, <1>8, <1>9, <1>10, <1>11, <1>12, <1>13 DEF MigNext
<1> QED
  BY <1>14 DEF Scheduling

LEMMA BrokerScheduling ==
    ASSUME Shaped, Rooted, Scheduling, BrokerNext, UNCHANGED limit, Leaving(abandoned)
    PROVE  Scheduling'
<1> DEFINE Goal == \A m \in Migrations : Due(m)' => Tended(m)' \/ Announced(m)' \/ Lost(m)'
<1>0. Aside
  BY BrokerSteps
<1>1. \A c \in commit' : c.op = "migrate" => standing'[c.b] # "PENDING"
  <2> SUFFICES ASSUME NEW c \in commit', c.op = "migrate" PROVE standing'[c.b] # "PENDING"
    OBVIOUS
  <2>1. c \in commit
    BY <1>0 DEF Aside
  <2>2. c.b \in Migrations
    BY <2>1 DEF Shaped, Commits, Committed, Migrating
  <2> QED
    BY <1>0, <2>1, <2>2 DEF Aside, Scheduling
<1>2. \A m \in Migrations : plans'[m] = plans[m] /\ standing'[m] = standing[m] /\ opening' = opening
      /\ m \in Businesses /\ m \notin Channels
  BY <1>0, Kinds DEF Aside
<1>3. ASSUME UNCHANGED members, \A m \in Migrations : rounds'[m] = rounds[m], Quiet' => Quiet,
             \A j \in jobs : j.b \in Migrations => j \in jobs',
             \A c \in commit : c.op = "submit" => c \in commit'
      PROVE  Goal
  BY <1>2, <1>3, DueStays DEF Tended
<1>4. \A c \in commit : c.op = "approve" => \A d \in commit : d.op # "submit"
  BY DEF Shaped, Commits
<1>5. ASSUME NEW x, RequestChannel(x[1], x[2], x[3]) PROVE Goal
  BY <1>3, <1>5 DEF RequestChannel, govButStandingJobs, Quiet
<1>6. ASSUME RequestOk \/ RevokeOk PROVE Goal
  BY <1>3, <1>6 DEF RequestOk, RevokeOk, govButStandingJobs, govVars, Quiet
<1>7. ASSUME RequestCancelled \/ RequestFails \/ RevokeFails \/ ApproveFails PROVE Goal
  <2>1. ~Quiet'
    BY <1>7, FailSpent DEF RequestCancelled, RequestFails, RevokeFails, ApproveFails
  <2> QED
    BY <2>1, Undue
<1>8. ASSUME NEW r, Revoke(r) PROVE Goal
  BY <1>3, <1>8 DEF Revoke, govVars, Quiet
<1>9. ASSUME NEW t, NEW r \in Channels, StartTalk(t, r) PROVE Goal
  BY <1>2, <1>3, <1>9 DEF StartTalk, govButStandingJobs, Quiet
<1>10. ASSUME NEW j \in jobs, Claim(j) \/ ClaimedAlready(j) \/ CompleteLapsed(j) PROVE Goal
  <2>1. j.b \in Channels /\ jobs \ {j} \subseteq jobs' /\ UNCHANGED <<members, rounds, commit, spent>>
    BY <1>10 DEF Claim, ClaimedAlready, CompleteLapsed, MayComplete, govButStandingJobs, Finish, Advance
  <2> QED
    BY <1>2, <1>3, <2>1 DEF Quiet
<1>11. ASSUME NEW j \in jobs, NEW next \in SUBSET Channels, CompleteApproval(j, next) PROVE Goal
  <2>1. PICK s, apps, st, path :
          Completion(j, next, s, apps, st, path) /\ j.b \in Channels /\ commit = {}
    BY <1>11, CompletionIs
  <2>2. \A x \in Businesses : x # j.b => rounds'[x] = rounds[x]
    BY <2>1, CompletionRounds
  <2>3. jobs \ {j} \subseteq jobs' /\ UNCHANGED <<members, spent>>
    BY <2>1 DEF Completion, Finish
  <2> QED
    BY <1>2, <1>3, <2>1, <2>2, <2>3 DEF Quiet
<1>12. ASSUME ApproveOk PROVE Goal
  BY <1>3, <1>4, <1>12 DEF ApproveOk, Quiet
<1>13. ASSUME ApproveCancelled PROVE Goal
  <2>1. UNCHANGED <<members, rounds, jobs>> /\ Cancel /\ \A c \in commit : c.op # "submit"
    BY <1>4, <1>13 DEF ApproveCancelled
  <2> QED
    BY <1>3, <2>1, CancelQuiet
<1>14. ASSUME NEW j \in jobs, ClaimCancelled(j) PROVE Goal
  <2>1. UNCHANGED <<members, rounds>> /\ Cancel /\ \A c \in commit : c.op = "submit" => c \in commit'
    BY <1>14 DEF ClaimCancelled
  <2>2. j.b \in Channels /\ \A i \in jobs : i.b \in Migrations => i \in jobs'
    <3>1. j.b \in Channels /\ jobs \ {j} \subseteq jobs'
      BY <1>14 DEF ClaimCancelled, Advance, Shaped, Tasks, Tasked
    <3> QED
      BY <1>2, <3>1
  <2> QED
    BY <1>3, <2>1, <2>2, CancelQuiet
<1>15. Goal
  BY <1>5, <1>6, <1>7, <1>8, <1>9, <1>10, <1>11, <1>12, <1>13, <1>14 DEF BrokerNext
<1>16. \A m, n \in opening' : m = n
  BY <1>0 DEF Aside, Scheduling
<1> QED
  BY <1>1, <1>15, <1>16 DEF Scheduling

\* A caller that is cancelled abandons what it has been waiting for.
LEMMA AbandonScheduling ==
    ASSUME Shaped, Scheduling, NEW j, Abandon(j)
    PROVE  Scheduling'
<1>1. /\ UNCHANGED <<members, standing, rounds, commit, plans, opening>>
      /\ j \in jobs /\ Finish(j) /\ Cancel
  BY AbandonSays DEF migVars
<1>2. PICK S : S = abandoned \cup {<<j.b, j.p>>} /\ Leaving(S)
  BY DEF Abandon
<1>3. j.b \in Migrations => j.p = Root
  BY <1>1, AbandonSays, Kinds DEF Shaped, Tasks, Tasked
<1>4. ASSUME NEW m \in Migrations PROVE Due(m)' => Tended(m)' \/ Announced(m)' \/ Lost(m)'
  <2>1. CASE <<m, Root>> \in S
    BY <1>2, <2>1, LostStays
  <2>2. CASE <<m, Root>> \notin S
    <3>1. j.b # m /\ ~Lost(m)
      BY <1>2, <1>3, <2>2 DEF Lost
    <3>2. Tended(m) => Tended(m)'
      BY <1>1, <3>1 DEF Tended, Finish
    <3> QED
      BY <1>1, <3>1, <3>2, CancelQuiet, DueRemains
  <2> QED
    BY <2>1, <2>2
<1> QED
  BY <1>1, <1>4 DEF Scheduling

LEMMA SchedulingStep ==
    ASSUME Shaped, Rooted, Scheduling, [Next]_vars
    PROVE  Scheduling'
<1>1. CASE Restart
  <2>1. /\ commit' = {} /\ opening' = {} /\ plans' = plans
        /\ jobs' = Resumed \cup Rescheduled \cup Reapproved
        /\ \A m \in Migrations : standing'[m] = standing[m]
    BY <1>1, Kinds DEF Restart, migVars
  <2>2. ASSUME NEW m \in Migrations, Due(m)' PROVE Tended(m)'
    <3>1. standing[m] = "PENDING" /\ plans[m].authorities \subseteq Principals
      BY <2>1, <2>2 DEF Due, Shaped, Records
    <3>2. CASE plans[m].authorities = {}
      <4>1. Job("resolve", m, Root, 0, "ready", {}) \in Rescheduled
        BY <3>1, <3>2 DEF Rescheduled
      <4>2. Job("resolve", m, Root, 0, "ready", {}).b = m
        BY DEF Job
      <4> QED
        BY <2>1, <4>1, <4>2 DEF Tended
    <3>3. CASE plans[m].authorities # {}
      <4>1. PICK p \in plans[m].authorities : TRUE
        BY <3>3
      <4>2. PICK x : x = <<m, p>>
        OBVIOUS
      <4>3. /\ x \in {y \in Migrations \X Principals :
                        standing[y[1]] = "PENDING" /\ y[2] \in plans[y[1]].authorities}
            /\ x[1] = m /\ x[2] = p
        BY <3>1, <4>2
      <4>4. Job("prepare", x[1], x[2], 0, "ready", {}) \in Rescheduled
        BY <4>3 DEF Rescheduled
      <4>5. Job("prepare", x[1], x[2], 0, "ready", {}).b = m
        BY <4>3 DEF Job
      <4> QED
        BY <2>1, <4>4, <4>5 DEF Tended
    <3> QED
      BY <3>2, <3>3
  <2> QED
    BY <2>1, <2>2 DEF Scheduling
<1>2. CASE UNCHANGED vars
  <2>1. UNCHANGED <<members, standing, rounds, commit, jobs, spent, plans, opening, abandoned>>
    BY <1>2 DEF vars, govVars, migVars
  <2>2. \A m \in Migrations : Due(m)' => Tended(m)' \/ Announced(m)' \/ Lost(m)'
    BY <2>1, DueRemains DEF Quiet, Tended, Lost
  <2> QED
    BY <2>1, <2>2 DEF Scheduling
<1> QED
  BY <1>1, <1>2, GovScheduling, MigScheduling, BrokerScheduling, AbandonScheduling DEF Next

LEMMA SchedulingInit == Init => Scheduling
<1> SUFFICES ASSUME Init PROVE Scheduling
  OBVIOUS
<1>1. commit = {} /\ opening = {} /\ \A m \in Migrations : standing[m] # "PENDING"
  BY Kinds DEF Init, GovInit, MigInit
<1> QED
  BY <1>1 DEF Scheduling, Due

Attended == Formed /\ Claims /\ Scheduling

LEMMA AttendedInvariant == Spec => []Attended
<1>1. Init /\ Formed => Attended
  BY ClaimsInit, SchedulingInit DEF Attended
<1>2. ASSUME Attended, Formed', [Next]_vars PROVE Attended'
  BY <1>2, ClaimsStep, SchedulingStep DEF Attended, Formed
<1> QED
  BY <1>1, <1>2, FormedInvariant, PTL DEF Spec

\* Whatever is claimed or decided has a task that sees to it: an approval that is being
\* processed is settled or released by a task that is left (_claim_approval and
\* _complete_approval), and a pending migration whose rounds are
\* decided is resolved (schedule_resolution, MigrationService.resume), whichever commits
\* fail and wherever the process stops or a discussion is cancelled.  What is lost is
\* exactly what a caller was waiting to complete when it was cancelled
\* (broker/approvals.py:89 and :130, migration.py:131), until another task takes it up.
THEOREM NothingIsForgotten == Spec => []NoneForgotten
<1>1. Attended => NoneForgotten
  BY ClaimsHold, SchedulingResolves DEF Attended, NoneForgotten
<1> QED
  BY <1>1, AttendedInvariant, PTL
=============================================================================
