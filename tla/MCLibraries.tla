---------------------------- MODULE MCLibraries ----------------------------
(* A small instance of Libraries for TLC: libraries of two AgentTeams, of   *)
(* the supervisory one and of an Agent.                                     *)
EXTENDS Libraries

CONSTANTS a1, a2, b1, s1, p1, c1, c2

MCCallers == {[team |-> "TA", agent |-> "x"], [team |-> "TB", agent |-> "y"]}
MCOwner == [l \in {"A", "B", "S", "P"} |->
    CASE l = "A" -> "TA" [] l = "B" -> "TB" [] l = "S" -> "TS" [] l = "P" -> "x"]
MCLib == [n \in {a1, a2, b1, s1, p1} |->
    CASE n \in {a1, a2} -> "A" [] n = b1 -> "B" [] n = s1 -> "S" [] n = p1 -> "P"]

Can(team, scope, permission) == [team |-> team, scope |-> scope, permission |-> permission]
Filled(which) == [n \in Nodes |-> IF n \in which THEN 1 ELSE 0]
Linked(from, to) == [n \in Nodes |-> IF n = from THEN to ELSE NoNode]
NoLinks == Linked(NoNode, NoNode)

Setting(files, linked, given, grantable, first, second, once, writes) ==
    [file |-> Filled(files), links |-> linked, grants |-> given,
     bounds |-> [grantable |-> grantable, once |-> once, writes |-> 2 + writes,
                 kinds |-> [c \in Calls |-> IF c = c1 THEN first ELSE second]]]

Mutual == {Can("TA", "B", "READ"), Can("TB", "A", "READ")}

\* Links, deletions and writes side by side; links and moves; reading through
\* a link while permissions, links and files change; publication; and the
\* supervisory AgentTeam.
MCStarts == {
    Setting({a1, b1}, NoLinks, Mutual, {}, {"link"}, {"link", "delete", "write"}, {"delete"}, 1),
    Setting({a1}, Linked(b1, a1), Mutual, {Can("TB", "A", "WRITE")},
            {"link", "write", "move"}, {"link", "write"}, {}, 2),
    Setting({a1, a2}, Linked(b1, a1), Mutual, {},
            {"read"}, {"link", "move"}, {"delete"}, 1),
    Setting({a1}, Linked(b1, a1), Mutual, {Can("TB", a1, "READ")},
            {"read"}, {"write"}, {"revoke"}, 1),
    Setting({a1, p1}, Linked(b1, a1), Mutual, {},
            {"read", "publish"}, {"delete"}, {"leave"}, 1),
    Setting({a1, p1}, NoLinks, Mutual, {}, {"publish"}, {"write", "publish"}, {}, 2),
    Setting({s1, a1}, NoLinks, {Can("TB", "S", "READ")}, {Can("TS", "B", "WRITE")},
            {"read", "link"}, {"write"}, {"dissolve"}, 1)}

=============================================================================
