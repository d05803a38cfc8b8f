----------------------------- MODULE Libraries -----------------------------
(***************************************************************************)
(* Document libraries: files, permissions and managed links between the    *)
(* libraries of AgentTeams, under the calls of LibraryService, the private *)
(* libraries of Agents, and the dissolution of a supervisory AgentTeam.    *)
(*                                                                         *)
(* A call checks on the event loop and then reads or writes files on a     *)
(* thread, under the lock of the library.  Between the two anything else   *)
(* may happen, and each action here is what happens without a pause.       *)
(*                                                                         *)
(* A node is a path in a library.  A file is the stamp of its last change, *)
(* 0 if there is none; as file_version_from_stat includes the change time, *)
(* a move is a change.  The directory and its copy _library_files change   *)
(* under one lock and are one variable.                                    *)
(***************************************************************************)
EXTENDS Naturals, FiniteSets

CONSTANTS
    Teams,      \* AgentTeams
    Audit,      \* the supervisory one
    Callers,    \* [team, agent]: who may call; auditors at work would only keep Audit from ending
    Calls,      \* calls under way at once
    Libs,       \* document libraries
    Owner,      \* the AgentTeam or the Agent that owns a library
    Nodes,      \* paths of files
    Lib,        \* the library of a path
    NoNode,
    Starts      \* [file, links, grants, bounds : [grantable, kinds, once, writes]]

Private == {l \in Libs : Owner[l] \notin Teams}
Permissions == {"READ", "WRITE"}
Scopes == Libs \cup Nodes       \* a library stands for its path "/"
LibOf(s) == IF s \in Libs THEN s ELSE Lib[s]
Kinds == {"idle", "link", "read", "write", "delete", "move", "publish"}

ASSUME LibrariesAssumption ==
    /\ IsFiniteSet(Nodes) /\ Audit \in Teams /\ NoNode \notin Nodes
    /\ Libs \cap Nodes = {}
    /\ Lib \in [Nodes -> Libs]
    /\ Callers # {} /\ \A c \in Callers : c.team \in Teams \ {Audit}
    /\ \A s \in Starts :
        /\ s.bounds.writes \in Nat /\ s.file \in [Nodes -> Nat]
        /\ s.links \in [Nodes -> Nodes \cup {NoNode}]
        /\ s.grants \cup s.bounds.grantable \subseteq
              [team : Teams, scope : Scopes, permission : Permissions]
        /\ \A g, h \in s.grants : g.team = h.team /\ g.scope = h.scope => g = h

VARIABLES
    teams,      \* registered AgentTeams
    libs,       \* registered libraries
    file,       \* the files
    links,      \* library_links: the node a node is linked to
    grants,     \* library_permissions: at most one by AgentTeam and scope
    away,       \* the files of Audit are in the trash while its dissolution is written
    outside,    \* callers whose Agent has left its AgentTeam
    op,         \* the calls
    result,     \* the version the last read of a call has returned, 0 if it was refused
    clock,      \* changes to files so far
    seen,       \* history: reads with content that have been allowed at some moment since
    raced,      \* history: calls under which something has changed
    limit       \* the bounds of the behaviour, from Starts

state == <<teams, libs, file, links, grants, away>>
vars == <<teams, libs, file, links, grants, away, outside, op, result, clock,
          seen, raced, limit>>

Idle == [kind |-> "idle", step |-> "none", by |-> CHOOSE c \in Callers : TRUE,
         node |-> NoNode, to |-> NoNode, aim |-> NoNode, ver |-> 0, over |-> FALSE]

Init ==
    /\ teams = Teams /\ libs = Libs
    /\ \E s \in Starts :
         file = s.file /\ links = s.links /\ grants = s.grants /\ limit = s.bounds
    /\ away = FALSE /\ outside = {}
    /\ op = [c \in Calls |-> Idle]
    /\ result = [c \in Calls |-> 0]
    /\ clock = 2
    /\ seen = {} /\ raced = {}

\* check_library_access: the owner, or a grant for the path or for what is above it.
Allowed(team, n, need) ==
    /\ Lib[n] \in libs \ Private
    /\ \/ Owner[Lib[n]] = team
       \/ \E g \in grants : /\ g.team = team /\ g.scope \in {n, Lib[n]}
                            /\ g.permission \in {need, "WRITE"}

\* The chain of links from n, which stays at its end; a cycle has none.
Followed(n) == IF links[n] = NoNode THEN n ELSE links[n]
Chain(n) ==
    LET hop[k \in 0..Cardinality(Nodes)] == IF k = 0 THEN n ELSE Followed(hop[k - 1])
    IN  hop
End(n) == Chain(n)[Cardinality(Nodes)]
Ends(n) == links[End(n)] = NoNode
Passed(n) == LET chain == Chain(n) IN {chain[k] : k \in 0..Cardinality(Nodes)}

\* _resolve_library_target: the end of the chain, with the permission at every hop.
Resolve(team, n, need) ==
    IF Ends(n) /\ \A m \in Passed(n) : Allowed(team, m, need) THEN End(n) ELSE NoNode

\* What a read or write by someone at a node reaches: in a private library the
\* node itself, for its owner alone (_require_private_agent_context).
Reached(by, n, need) ==
    IF Lib[n] \in Private
    THEN IF Owner[Lib[n]] = by.agent THEN n ELSE NoNode
    ELSE Resolve(by.team, n, need)

\* The file a thread finds: none once the library has been put in the trash.
Gone(l) == (away /\ Owner[l] = Audit) \/ l \notin libs
Found(n) == IF Gone(Lib[n]) THEN 0 ELSE file[n]

-----------------------------------------------------------------------------
\* A call that may begin: its kinds are a bound.
Free(c, kind) == kind \in limit.kinds[c] /\ op[c] = Idle
Begun(kind, step, by, n) == [Idle EXCEPT !.kind = kind, !.step = step, !.by = by, !.node = n]

\* The call goes on, or has returned or raised.
Become(c, call) == op' = [op EXCEPT ![c] = call]
At(c, kind, step) == op[c].kind = kind /\ op[c].step = step
Continue(c, step) == Become(c, [op[c] EXCEPT !.step = step])
Return(c) == Become(c, Idle)
OnlyIf(condition, c, step) == IF condition THEN Continue(c, step) ELSE Return(c)

\* create_library_link, up to path_exists, which runs on a thread; the
\* resolution of the target; is_file on a thread; the link.
LinkBegin(c, by, n, target) ==
    /\ Free(c, "link")
    /\ Lib[n] # Lib[target] /\ {Lib[n], Lib[target]} \subseteq libs \ Private
    /\ Allowed(by.team, n, "WRITE")
    /\ links[n] = NoNode
    /\ Become(c, [Begun("link", "first", by, n) EXCEPT !.to = target])
    /\ UNCHANGED <<state, outside, result, clock>>

\* Mutant: a link is created over a file.
FaultyLinkProbe(c) ==
    /\ At(c, "link", "first")
    /\ Continue(c, "resolve")
    /\ UNCHANGED <<state, outside, result, clock>>

LinkProbe(c) ==
    /\ At(c, "link", "first")
    /\ OnlyIf(Found(op[c].node) = 0, c, "resolve")
    /\ UNCHANGED <<state, outside, result, clock>>

LinkResolve(c) ==
    LET aim == Resolve(op[c].by.team, op[c].to, "READ") IN
    /\ At(c, "link", "resolve")
    /\ IF aim # NoNode /\ op[c].node \notin Passed(op[c].to)
       THEN Become(c, [op[c] EXCEPT !.aim = aim, !.step = "check"])
       ELSE Return(c)
    /\ UNCHANGED <<state, outside, result, clock>>

LinkCheck(c) ==
    /\ At(c, "link", "check")
    /\ OnlyIf(Found(op[c].aim) # 0, c, "publish")
    /\ UNCHANGED <<state, outside, result, clock>>

LinkPublish(c) ==
    /\ At(c, "link", "publish")
    /\ links' = [links EXCEPT ![op[c].node] = op[c].to]
    /\ Return(c)
    /\ UNCHANGED <<teams, libs, file, grants, away, outside, result, clock>>

-----------------------------------------------------------------------------
\* read_library_file and read_private_file.  GatedFileReader reads the source
\* in larger and larger parts until it has enough, counts tokens in between,
\* and reads once more for the version; then the service validates the result.
\* Each of the three begins by resolving the path again.
MayRead(c) ==
    /\ Lib[op[c].node] \in Private \/ op[c].by \notin outside
    /\ Reached(op[c].by, op[c].node, "READ") = op[c].aim

ReadBegin(c, by, n) ==
    /\ Free(c, "read")
    /\ Lib[n] \in Private \/ by \notin outside
    /\ Reached(by, n, "READ") # NoNode
    /\ Become(c, [Begun("read", "source", by, n) EXCEPT !.aim = Reached(by, n, "READ")])
    /\ result' = [result EXCEPT ![c] = 0]
    /\ UNCHANGED <<state, outside, clock>>

Refuse(c) == Return(c) /\ result' = [result EXCEPT ![c] = 0]

OnThread == [source |-> "reading", recheck |-> "rechecking", final |-> "settling"]

\* Mutant: the path and the permissions are checked for the first part only.
FaultyReadReach(c) ==
    /\ op[c].kind = "read" /\ op[c].step \in DOMAIN OnThread
    /\ IF op[c].ver # 0 \/ MayRead(c)
       THEN Continue(c, OnThread[op[c].step]) /\ UNCHANGED result
       ELSE Refuse(c)
    /\ UNCHANGED <<state, outside, clock>>

ReadReach(c) ==
    /\ op[c].kind = "read" /\ op[c].step \in DOMAIN OnThread
    /\ IF MayRead(c)
       THEN Continue(c, OnThread[op[c].step]) /\ UNCHANGED result
       ELSE Refuse(c)
    /\ UNCHANGED <<state, outside, clock>>

ReadSource(c) ==
    LET f == Found(op[c].aim) IN
    /\ At(c, "read", "reading")
    /\ IF f # 0 /\ op[c].ver \in {0, f}
       THEN /\ \E step \in {"source", "recheck"} :
                 Become(c, [op[c] EXCEPT !.ver = f, !.step = step])
            /\ UNCHANGED result
       ELSE Refuse(c)
    /\ UNCHANGED <<state, outside, clock>>

ReadRecheck(c) ==
    /\ At(c, "read", "rechecking")
    /\ IF Found(op[c].aim) = op[c].ver
       THEN Continue(c, "final") /\ UNCHANGED result
       ELSE Refuse(c)
    /\ UNCHANGED <<state, outside, clock>>

ReadReturn(c) ==
    /\ At(c, "read", "settling")
    /\ IF Found(op[c].aim) = op[c].ver
       THEN Return(c) /\ result' = [result EXCEPT ![c] = op[c].ver]
       ELSE Refuse(c)
    /\ UNCHANGED <<state, outside, clock>>

-----------------------------------------------------------------------------
\* What a thread does to files ends the call.
Store(c, changed) ==
    /\ clock < limit.writes
    /\ file' = changed /\ clock' = clock + 1
    /\ Return(c)
    /\ UNCHANGED <<teams, libs, links, grants, away, outside, result>>

Raise(c) == Return(c) /\ UNCHANGED <<state, outside, result, clock>>

\* write_library_file, write_private_file
WriteBegin(c, by, n) ==
    /\ Free(c, "write")
    /\ Reached(by, n, "WRITE") # NoNode
    /\ Become(c, [Begun("write", "first", by, n) EXCEPT !.to = Reached(by, n, "WRITE")])
    /\ UNCHANGED <<state, outside, result, clock>>

WriteDo(c) ==
    /\ At(c, "write", "first")
    /\ IF Gone(Lib[op[c].to])
       THEN Raise(c)
       ELSE Store(c, [file EXCEPT ![op[c].to] = clock + 1])

\* delete_library_path, delete_private_file: a link, or else a file.
Mine(by, n) ==
    IF Lib[n] \in Private THEN Owner[Lib[n]] = by.agent ELSE Allowed(by.team, n, "WRITE")

DeleteLink(by, n) ==
    /\ "delete" \in limit.once
    /\ Mine(by, n) /\ links[n] # NoNode
    /\ links' = [links EXCEPT ![n] = NoNode]
    /\ UNCHANGED <<teams, libs, file, grants, away, outside, op, result, clock>>

DeleteBegin(c, by, n) ==
    /\ Free(c, "delete")
    /\ Mine(by, n) /\ links[n] = NoNode
    /\ Become(c, Begun("delete", "first", by, n))
    /\ UNCHANGED <<state, outside, result, clock>>

DeleteDo(c) ==
    /\ At(c, "delete", "first")
    /\ IF Found(op[c].node) = 0
       THEN Raise(c)
       ELSE Store(c, [file EXCEPT ![op[c].node] = 0])

\* move_library_file, move_private_file
MoveBegin(c, by, n, target, overwrite) ==
    /\ Free(c, "move")
    /\ Lib[n] = Lib[target] /\ n # target
    /\ Mine(by, n) /\ Mine(by, target)
    /\ links[n] = NoNode /\ links[target] = NoNode
    /\ Become(c, [Begun("move", "first", by, n) EXCEPT !.to = target, !.over = overwrite])
    /\ UNCHANGED <<state, outside, result, clock>>

MoveDo(c) ==
    /\ At(c, "move", "first")
    /\ IF Found(op[c].node) = 0 \/ (Found(op[c].to) # 0 /\ ~op[c].over)
       THEN Raise(c)
       ELSE Store(c, [file EXCEPT ![op[c].node] = 0, ![op[c].to] = clock + 1])

\* publish_private_file
PublishBegin(c, by, n, target, overwrite) ==
    /\ Free(c, "publish")
    /\ Lib[n] \in Private /\ Owner[Lib[n]] = by.agent /\ by \notin outside
    /\ Lib[target] \in libs /\ Owner[Lib[target]] = by.team
    /\ links[target] = NoNode
    /\ Become(c, [Begun("publish", "first", by, n) EXCEPT !.to = target, !.over = overwrite])
    /\ UNCHANGED <<state, outside, result, clock>>

PublishDo(c) ==
    /\ At(c, "publish", "first")
    /\ IF \/ Found(op[c].node) = 0 \/ Gone(Lib[op[c].to])
          \/ Found(op[c].to) # 0 /\ ~op[c].over
       THEN Raise(c)
       ELSE Store(c, [file EXCEPT ![op[c].to] = clock + 1])

-----------------------------------------------------------------------------
\* grant_library_permission and revoke_library_permission, for the owner.
\* Mutant: a second grant does not replace the first.
FaultyWithout(team, s) == grants

Without(team, s) == {g \in grants : g.team # team \/ g.scope # s}

Grant(by, given) ==
    /\ given \in limit.grantable
    /\ LibOf(given.scope) \in libs /\ Owner[LibOf(given.scope)] = by.team
    /\ given.team \in teams
    /\ grants' = Without(given.team, given.scope) \cup {given}
    /\ UNCHANGED <<teams, libs, file, links, away, outside, op, result, clock>>

Revoke(by, team, s) ==
    /\ "revoke" \in limit.once
    /\ LibOf(s) \in libs /\ Owner[LibOf(s)] = by.team
    /\ grants' = Without(team, s) /\ grants' # grants
    /\ UNCHANGED <<teams, libs, file, links, away, outside, op, result, clock>>

\* The Agent is removed from the AgentTeam it calls for.
Leave(by) ==
    /\ "leave" \in limit.once /\ by \notin outside
    /\ outside' = outside \cup {by}
    /\ UNCHANGED <<state, op, result, clock>>

-----------------------------------------------------------------------------
\* dissolve_supervisory_team: the files go to the trash, the deletion of the
\* records is committed, and then the registries follow.  The team's library
\* must not have links; for links to it the code looks up "lib_id" in records
\* whose key is "target_lib_id", and so finds none.
Theirs == {l \in Libs : Owner[l] = Audit}

Dissolve ==
    /\ "dissolve" \in limit.once
    /\ Audit \in teams /\ ~away
    /\ \A n \in Nodes : Lib[n] \in Theirs => links[n] = NoNode
    /\ away' = TRUE
    /\ UNCHANGED <<teams, libs, file, links, grants, outside, op, result, clock>>

DissolveFails ==
    /\ away /\ away' = FALSE
    /\ UNCHANGED <<teams, libs, file, links, grants, outside, op, result, clock>>

DissolveCommitted ==
    /\ away /\ away' = FALSE
    /\ teams' = teams \ {Audit} /\ libs' = libs \ Theirs
    /\ file' = [n \in Nodes |-> IF Lib[n] \in Theirs THEN 0 ELSE file[n]]
    /\ links' = [n \in Nodes |-> IF Lib[n] \in Theirs THEN NoNode ELSE links[n]]
    /\ grants' = {g \in grants : LibOf(g.scope) \notin Theirs}
    /\ UNCHANGED <<outside, op, result, clock>>

-----------------------------------------------------------------------------
Call(c) ==
    \/ LinkProbe(c) \/ LinkResolve(c) \/ LinkCheck(c) \/ LinkPublish(c)
    \/ ReadReach(c) \/ ReadSource(c) \/ ReadRecheck(c) \/ ReadReturn(c)
    \/ WriteDo(c) \/ DeleteDo(c) \/ MoveDo(c) \/ PublishDo(c)

Start(c, by) ==
    \E n \in Nodes :
        \/ ReadBegin(c, by, n) \/ WriteBegin(c, by, n) \/ DeleteBegin(c, by, n)
        \/ \E m \in Nodes : LinkBegin(c, by, n, m)
        \/ \E m \in Nodes, overwrite \in BOOLEAN :
             MoveBegin(c, by, n, m, overwrite) \/ PublishBegin(c, by, n, m, overwrite)

AtOnce(by) ==
    \/ Leave(by)
    \/ \E n \in Nodes : DeleteLink(by, n)
    \/ \E given \in limit.grantable : Grant(by, given)
    \/ \E g \in grants : Revoke(by, g.team, g.scope)

\* The history: whether a reader that has content could read it, by its path,
\* at some moment since; and whether anything has changed under a call that was
\* not its own doing.
InHand(c) == op[c].kind = "read" /\ op[c].ver # 0

Watch ==
    /\ seen' = {c \in Calls : InHand(c)' /\ (c \in seen \/ (InHand(c) /\ MayRead(c)))}
    /\ raced' = {c \in Calls : /\ op[c] # Idle /\ op'[c] # Idle
                               /\ c \in raced \/ (op'[c] = op[c] /\ state' # state)}
    /\ UNCHANGED limit

Next ==
    /\ \/ \E c \in Calls : Call(c) \/ \E by \in Callers : Start(c, by)
       \/ \E by \in Callers : AtOnce(by)
       \/ Dissolve \/ DissolveFails \/ DissolveCommitted
    /\ Watch

Spec == Init /\ [][Next]_vars

-----------------------------------------------------------------------------
CallRecords ==
    [kind : Kinds, step : {"none", "first", "resolve", "check", "publish", "source",
                           "reading", "recheck", "rechecking", "final", "settling"},
     by : Callers, node : Nodes \cup {NoNode}, to : Nodes \cup {NoNode},
     aim : Nodes \cup {NoNode}, ver : Nat, over : BOOLEAN]

TypeOK ==
    /\ limit \in {s.bounds : s \in Starts}
    /\ teams \subseteq Teams /\ libs \subseteq Libs
    /\ file \in [Nodes -> Nat]
    /\ links \in [Nodes -> Nodes \cup {NoNode}]
    /\ grants \subseteq [team : Teams, scope : Scopes, permission : Permissions]
    /\ \A g, h \in grants : g.team = h.team /\ g.scope = h.scope => g = h
    /\ away \in BOOLEAN /\ outside \subseteq Callers
    /\ op \in [Calls -> CallRecords]
    /\ result \in [Calls -> Nat] /\ clock \in Nat
    /\ seen \subseteq Calls /\ raced \subseteq Calls

\* A read that returns content returns what the file still holds, to a caller
\* who could reach that file by the path at some moment since the content was
\* read, although links, permissions, memberships and files change between the
\* parts of a read (gated_reader.py, team_files.py).
Returns(c) == op[c].kind = "read" /\ op'[c] = Idle /\ result'[c] # 0

ReadsStillDue ==
    [][\A c \in Calls : Returns(c) => c \in seen /\ Found(op[c].aim) = result'[c]]_vars

\* validate_permissions_and_links, for what a full save takes down: not the
\* supervisory AgentTeam and its libraries.
Saved(l) == l \in libs \ Theirs

ValidLink(n) ==
    /\ file[n] = 0
    /\ Ends(n) /\ file[End(n)] # 0
    /\ \A m \in Passed(n) : Saved(Lib[m])

Restorable ==
    /\ \A n \in Nodes : links[n] # NoNode /\ Saved(Lib[n]) => ValidLink(n)
    /\ \A g \in grants : Saved(LibOf(g.scope)) => g.team \in teams \ {Audit}

\* What the code lets a single call do to a state that can be restored: delete
\* or move away the file or the link that another link leads to; link to a
\* library of the supervisory AgentTeam, or grant that AgentTeam a permission.
TargetGone ==
    \E n \in Nodes : links[n] # NoNode /\ \E m \in Passed(n) \ {n} :
        \/ file[m] # 0 /\ file'[m] = 0
        \/ links[m] # NoNode /\ links'[m] = NoNode

ToAudit ==
    \/ \E n \in Nodes : links'[n] # links[n] /\ links'[n] # NoNode /\ Lib[links'[n]] \in Theirs
    \/ \E g \in grants' \ grants : g.team = Audit

\* Whoever is not disturbed does no other harm: a saved state that could be
\* restored still can be after the step of a call under which nothing has
\* changed, so only calls that overlap make cycles of links, links without a
\* file and files under a link.
AloneSound ==
    [][Restorable => \/ Restorable'
                     \/ TargetGone \/ ToAudit
                     \/ \E c \in raced : op'[c] # op[c]]_vars

=============================================================================
