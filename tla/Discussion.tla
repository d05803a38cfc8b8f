----------------------------- MODULE Discussion -----------------------------
(***************************************************************************)
(* Discussions of AgentTeams (core/manager/discussions) and what waits for *)
(* them: alerts about child teams, peer messages and votes on membership.  *)
(*                                                                         *)
(* A discussion holds its team's discussion_lock from Enter to its end.    *)
(* The turns of a round and the audit take time; what is between them is   *)
(* one step.  Of a governance discussion and of a formation draft's, which *)
(* leave the inbox alone, the outcome is modelled where it is used.        *)
(*                                                                         *)
(* disk is what the database will hold once the deltas captured so far     *)
(* have been written; a crash may leave any of its earlier values.         *)
(***************************************************************************)
EXTENDS Formation

CONSTANTS
    Messages,    \* peer messages
    From, To,
    Proposals,   \* membership proposals
    Ballot       \* of each: team, action ("add" or "remove") and target, an Agent

Durable == {"unknown", "degraded"}      \* AlertService.DURABLE_TYPES
Kinds == Durable \cup {"failure"}       \* child_failure_escalation
Alert == Kinds \X Scopes                \* fingerprint: the type and the failed team
Called == <<"call", NoTeam>>            \* the cause of a discussion that is not woken

ASSUME DiscussionAssumption ==
    /\ From \in [Messages -> Scopes] /\ To \in [Messages -> Scopes]
    /\ \A m \in Messages : From[m] # To[m]
    /\ Ballot \in [Proposals -> [team : Scopes \cup Requests, action : {"add", "remove"},
                                 target : Agents]]
    /\ IsFiniteSet(Proposals)

VARIABLES
    alerts,      \* those in message_inbox of each AgentTeam, oldest first
    letters,     \* peer messages there
    peer,        \* broker.peer_messages: delivery states
    sending,     \* the delivery that holds the broker's transaction lock
    sessions,    \* discussions, from the call to the end
    wakeups,     \* active_wakeups
    proposals,
    disk         \* inboxes and delivery states

talkVars == <<alerts, letters, peer, sending, sessions, wakeups, proposals, disk>>

Running(s) == s.round > 0
Idle(t) == \A s \in sessions : s.team = t => ~Running(s)
StateLockFree(t) == \A f \in flight : t \notin DOMAIN f.undo.members

NewSession(t, wake, lost) ==
    [team |-> t, wake |-> wake, audited |-> wake[1] \notin Durable, lost |-> lost,
     round |-> 0, errors |-> FALSE, dirty |-> FALSE, claims |-> {}, shown |-> {}]

\* Mutant: a delta has the inboxes only.
FaultySave(ts, ms) ==
    disk' = [disk EXCEPT !.alerts = [t \in Scopes |-> IF t \in ts THEN alerts'[t] ELSE @[t]],
                         !.letters = [t \in Scopes |-> IF t \in ts THEN letters'[t] ELSE @[t]]]

\* A delta is captured as memory is after the step.
Save(ts, ms) ==
    disk' = [alerts |-> [t \in Scopes |-> IF t \in ts THEN alerts'[t] ELSE disk.alerts[t]],
             letters |-> [t \in Scopes |-> IF t \in ts THEN letters'[t] ELSE disk.letters[t]],
             peer |-> [m \in Messages |-> IF m \in ms THEN peer'[m] ELSE disk.peer[m]]]

-----------------------------------------------------------------------------
(* Alerts. *)

\* merge: a durable alert that is there is counted.
Received(box, id) ==
    IF id[1] \in Durable /\ \E x \in ToSet(box) : x.id = id
    THEN [j \in DOMAIN box |-> IF box[j].id = id THEN [box[j] EXCEPT !.count = @ + 1] ELSE box[j]]
    ELSE Append(box, [id |-> id, count |-> 1, claimed |-> 0])

\* Whether schedule_emergency_wakeup makes a task.
Wakes(t, id) == id[1] \in limit.wakes /\ (id[1] \in Durable => <<t, id>> \notin wakeups)

Keys(S) == {<<s.team, s.wake>> : s \in {x \in S : x.wake[1] \in Durable}}

\* The n-th place of S, and what is at the places of S in their order.
Nth(S, n) == CHOOSE j \in S : Cardinality({i \in S : i <= j}) = n
Kept(box, S) == [n \in 1..Cardinality(S) |-> box[Nth(S, n)]]

\* Mutant: only UNKNOWN alerts are claimed.
FaultyClaimed(box) ==
    LET claimed(x) == IF x.claimed = 0 /\ x.id[1] = "unknown" THEN [x EXCEPT !.claimed = x.count] ELSE x
    IN  Kept([j \in DOMAIN box |-> claimed(box[j])], {j \in DOMAIN box : box[j].id[1] \in Durable})

\* prepare_inbox_context: pending alerts are claimed, others are taken out.
Claimed(box) ==
    LET claimed(x) == IF x.claimed = 0 THEN [x EXCEPT !.claimed = x.count] ELSE x
    IN  Kept([j \in DOMAIN box |-> claimed(box[j])], {j \in DOMAIN box : box[j].id[1] \in Durable})
Pending(box) == {x.id : x \in {y \in ToSet(box) : y.id[1] \in Durable /\ y.claimed = 0}}

\* Mutant: what arrived during the discussion is taken for handled.
FaultyReleased(box, ids, ok) ==
    LET released(x) == IF x.id \in ids THEN [x EXCEPT !.claimed = 0] ELSE x
    IN  Kept([j \in DOMAIN box |-> released(box[j])], {j \in DOMAIN box : box[j].id \notin ids \/ ~ok})

\* finish_processing and _finish_unknown_alerts: those that have been handled
\* and have not come again go, the others are pending.
Released(box, ids, ok) ==
    LET released(x) == IF x.id \in ids THEN [x EXCEPT !.claimed = 0] ELSE x
        again(x) == x.claimed > 0 /\ x.count > x.claimed
    IN  Kept([j \in DOMAIN box |-> released(box[j])],
             {j \in DOMAIN box : box[j].id \notin ids \/ ~ok \/ again(box[j])})

\* _schedule_followup_wakeup: the oldest alert that wakes, unless it is being.
Followup(t, box) ==
    LET waking == {j \in DOMAIN box : box[j].id[1] \in limit.wakes}
    IN  {box[j].id : j \in {k \in waking : Wakes(t, box[k].id) /\ \A i \in waking : k <= i}}

Acknowledge(t, id) ==
    /\ spent.acks < limit.acks
    /\ id[1] = "unknown" /\ \E x \in ToSet(alerts[t]) : x.id = id
    /\ spent' = [spent EXCEPT !.acks = @ + 1]
    /\ alerts' = [alerts EXCEPT ![t] = Kept(@, {j \in DOMAIN @ : @[j].id # id})]
    /\ UNCHANGED <<letters, peer, sending, sessions, wakeups, proposals, members>>
    /\ Save({t}, {})

-----------------------------------------------------------------------------
(* Votes on membership. *)

Votes(p) == {a \in Agents : proposals[p].votes[a] # "none"}
Agreed(p) == {a \in Agents : proposals[p].votes[a] = "Agree"}

\* The members and the status after the execution of proposal p.
Possible(p, M) ==
    Ballot[p].action = "add" \/ (Cardinality(M) > MinSize /\ Ballot[p].target \in M)
After(p, M) ==
    IF ~Possible(p, M) THEN M
    ELSE IF Ballot[p].action = "add" THEN M \cup {Ballot[p].target} ELSE M \ {Ballot[p].target}
Executed(p, M, x) ==
    [x EXCEPT !.executed = TRUE, !.status = IF Possible(p, M) THEN "approved" ELSE "rejected"]

\* by is empty for initiator_type "AT"; otherwise the initiator has agreed.
Initiate(p, a, by) ==
    /\ p \in limit.votes /\ proposals[p].status = "none"
    /\ a \in members[Ballot[p].team] /\ StateLockFree(Ballot[p].team)
    /\ proposals' = [proposals EXCEPT ![p].status = "active", ![p].by = by,
                         ![p].votes = [b \in Agents |-> IF b \in by THEN "Agree" ELSE "none"]]
    /\ UNCHANGED <<alerts, letters, peer, sending, sessions, wakeups, disk, members, spent>>

\* Mutant: the members change at once.
FaultyDeferred(t) == FALSE

\* An approved proposal waits while its team discusses.
Deferred(t) == ~Idle(t)

CastVote(p, a, vote) ==
    LET t == Ballot[p].team
        M == members[t]
        x == [proposals[p] EXCEPT !.votes[a] = vote]
        agreed == {b \in Agents : x.votes[b] = "Agree"}
    IN
    /\ proposals[p].status = "active" /\ StateLockFree(t)
    /\ a \in M \ Votes(p)
    /\ \/ /\ Cardinality(Votes(p)) + 1 < Cardinality(M)
          /\ proposals' = [proposals EXCEPT ![p] = x]
          /\ UNCHANGED members
       \/ /\ Cardinality(Votes(p)) + 1 >= Cardinality(M)
          /\ 3 * Cardinality(agreed) < 2 * Cardinality(M)
          /\ proposals' = [proposals EXCEPT ![p] = [x EXCEPT !.status = "rejected"]]
          /\ UNCHANGED members
       \/ /\ Cardinality(Votes(p)) + 1 >= Cardinality(M)
          /\ 3 * Cardinality(agreed) >= 2 * Cardinality(M)
          /\ IF Deferred(t)
             THEN /\ proposals' = [proposals EXCEPT ![p] = [x EXCEPT !.status =
                         IF Ballot[p].action = "remove" /\ Cardinality(M) <= MinSize
                         THEN "rejected" ELSE "approved"]]
                  /\ UNCHANGED members
             ELSE /\ proposals' = [proposals EXCEPT ![p] = Executed(p, M, x)]
                  /\ members' = [members EXCEPT ![t] = After(p, M)]
    /\ UNCHANGED <<alerts, letters, peer, sending, sessions, wakeups, disk, spent>>

Retract(p, a) ==
    /\ proposals[p].status = "active" /\ StateLockFree(Ballot[p].team)
    /\ a \in members[Ballot[p].team]
    /\ proposals[p].by \subseteq {a}
    /\ proposals' = [proposals EXCEPT ![p].status = "retracted"]
    /\ UNCHANGED <<alerts, letters, peer, sending, sessions, wakeups, disk, members, spent>>

-----------------------------------------------------------------------------
(* Peer messages: send_peer_message, with an agreement. *)

Send(m) ==
    LET sent == [peer EXCEPT ![m] = "pending"]
        arrived == [letters EXCEPT ![To[m]] = @ \cup {m}]
    IN
    /\ m \in limit.letters
    /\ sending = {} /\ peer[m] = "none"
    /\ peer' = sent /\ letters' = arrived
    /\ \/ /\ sending' = {[message |-> m, fails |-> FALSE]}
          /\ UNCHANGED <<alerts, spent>> /\ Save({To[m]}, {m})
       \/ /\ spent.faults < limit.faults
          /\ spent' = [spent EXCEPT !.faults = @ + 1]
          /\ sending' = {[message |-> m, fails |-> TRUE]}
          /\ UNCHANGED <<alerts, disk>>
    /\ UNCHANGED <<sessions, wakeups, proposals, members>>

\* The commit returns; a delivery that fails is taken back.
SendReturns(x) ==
    LET m == x.message IN
    /\ x \in sending
    /\ sending' = {}
    /\ IF x.fails
       THEN /\ peer' = [peer EXCEPT ![m] = "none"]
            /\ letters' = [letters EXCEPT ![To[m]] = @ \ {m}]
       ELSE UNCHANGED <<peer, letters>>
    /\ UNCHANGED <<alerts, sessions, wakeups, proposals, disk, members, spent>>

-----------------------------------------------------------------------------
(* Discussions. *)

\* execute_team_discussion, by the host or a tool, with a batch of its own
Call(t) ==
    /\ t \in limit.talkers /\ spent.calls < limit.calls
    /\ spent' = [spent EXCEPT !.calls = @ + 1]
    /\ sessions' = sessions \cup {NewSession(t, Called, FALSE)}
    /\ UNCHANGED <<alerts, letters, peer, sending, wakeups, proposals, disk, members>>

\* A session that has entered the next round, and has read the inbox.
Prepared(s) ==
    LET t == s.team IN
    [s EXCEPT !.round = @ + 1, !.claims = @ \cup Pending(alerts[t]), !.shown = @ \cup letters[t],
              !.dirty = @ \/ letters[t] # {} \/ Claimed(alerts[t]) # alerts[t]]

Prepare(s) ==
    /\ alerts' = [alerts EXCEPT ![s.team] = Claimed(@)]
    /\ sessions' = (sessions \ {s}) \cup {Prepared(s)}
    /\ UNCHANGED <<letters, peer, sending, wakeups, disk, spent>>

Enter(s) ==
    /\ ~Running(s) /\ Idle(s.team)
    /\ Prepare(s)
    /\ UNCHANGED <<proposals, members>>

\* Mutant: every letter is taken for read.
FaultyRead(s) == letters[s.team]

\* The messages that the success of s consumes.
Read(s) == s.shown

\* The wakeup that ends with the session.
Ends(s) == Keys({s})

\* finalize_discussion_session, after the report of kinds to the parent.  The
\* parent is woken in the context of s, whose batch is then closed.
Close(s, kinds, ok) ==
    LET t == s.team
        up == Parent[t]
        told == IF up = NoTeam THEN {} ELSE kinds
        mine == Released(alerts[t], s.claims, ok)
        consumed == IF ok THEN Read(s) ELSE {}
        woken == {NewSession(up, <<k, t>>, TRUE) :
                    k \in {k \in told : Idle(up) /\ Wakes(up, <<k, t>>)}}
        next == {NewSession(t, id, s.lost) : id \in Followup(t, mine)}
    IN
    /\ alerts' = [x \in Scopes |->
           IF x = t THEN mine
           ELSE IF x = up THEN FoldSet(LAMBDA k, box : Received(box, <<k, t>>), alerts[x], told)
           ELSE alerts[x]]
    /\ letters' = [letters EXCEPT ![t] = @ \ consumed]
    /\ peer' = [m \in Messages |-> IF m \in consumed /\ peer[m] # "none" THEN "consumed" ELSE peer[m]]
    /\ sessions' = (sessions \ {s}) \cup woken \cup next
    /\ wakeups' = (wakeups \cup Keys(woken \cup next)) \ Ends(s)
    /\ IF s.lost THEN UNCHANGED disk
       ELSE Save({x \in Scopes : (x = t /\ s.dirty) \/ (x = up /\ told # {})},
                 {m \in consumed : peer[m] # "none"})
    /\ UNCHANGED <<sending, spent>>

Degraded(errors) == IF errors /\ limit.degraded THEN {"degraded"} ELSE {}

\* _apply_deferred_membership_changes
Approved(t) == {p \in Proposals : /\ Ballot[p].team = t /\ proposals[p].status = "approved"
                                  /\ ~proposals[p].executed}

Apply(t) ==
    LET apply(p, x) == [members |-> After(p, x.members),
                        proposals |-> [x.proposals EXCEPT ![p] = Executed(p, x.members, @)]]
        done == FoldSet(apply, [members |-> members[t], proposals |-> proposals], Approved(t))
    IN  /\ members' = [members EXCEPT ![t] = done.members]
        /\ proposals' = done.proposals

\* The turns of a round have ended; errors: some of them incomplete.
EndRound(s, errors) ==
    LET x == [s EXCEPT !.errors = @ \/ errors] IN
    /\ s.round \in 1..limit.rounds /\ StateLockFree(s.team)
    /\ Apply(s.team)
    /\ IF s.round < limit.rounds
       THEN /\ alerts' = [alerts EXCEPT ![s.team] = Claimed(@)]
            /\ sessions' = (sessions \ {s}) \cup {Prepared(x)}
            /\ UNCHANGED <<letters, peer, sending, wakeups, disk, spent>>
       ELSE IF s.audited
       THEN /\ sessions' = (sessions \ {s}) \cup {[x EXCEPT !.round = @ + 1]}
            /\ UNCHANGED <<alerts, letters, peer, sending, wakeups, disk, spent>>
       ELSE Close(s, {}, TRUE)

\* audit_discussion; kind is "healthy", "unknown" or "failure".
Audited(s, kind) ==
    /\ s.round > limit.rounds
    /\ Close(s, (Kinds \cap {kind}) \cup Degraded(s.errors), TRUE)
    /\ UNCHANGED <<proposals, members>>

\* A member whose failure policy aborts the discussion.
Abort(s) ==
    /\ s.round \in 1..limit.rounds
    /\ Close(s, Degraded(TRUE), FALSE)
    /\ UNCHANGED <<proposals, members>>

\* A framework error, or the caller is cancelled.
Break(s) ==
    /\ Running(s)
    /\ Close(s, {}, FALSE)
    /\ UNCHANGED <<proposals, members>>

-----------------------------------------------------------------------------
(* Hydration after a crash: the sessions are gone. *)

\* Mutant: an alert stays claimed.
FaultyHydrated(box) == box

\* Only UNKNOWN alerts are reset.
Hydrated(box) ==
    [j \in DOMAIN box |-> IF box[j].id[1] = "unknown" THEN [box[j] EXCEPT !.claimed = 0] ELSE box[j]]

\* validate_deliveries_and_inboxes
ValidDeliveries(inboxes, states) ==
    \A m \in Messages : \A t \in Scopes : m \in inboxes[t] <=> states[m] = "pending" /\ t = To[m]

Recover ==
    /\ ValidDeliveries(disk.letters, disk.peer)
    /\ alerts' = [t \in Scopes |-> Hydrated(disk.alerts[t])]
    /\ letters' = disk.letters /\ peer' = disk.peer
    /\ sending' = {} /\ sessions' = {} /\ wakeups' = {}
    /\ UNCHANGED <<proposals, disk>>
=============================================================================
