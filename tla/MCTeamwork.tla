----------------------------- MODULE MCTeamwork -----------------------------
(* Small instances of Teamwork for TLC: an Agent of a team proposes, and    *)
(* another is invited to several formations; C, with the Agents, is a child *)
(* of T; both discuss and get letters.                                      *)
EXTENDS Teamwork

MCAgents == {"i", "x", "y", "n"}
MCInitiator == [z \in {"q1", "q2", "d1", "d2"} |-> "i"]
MCScope == [z \in {"q1", "q2", "d1", "d2"} |-> IF z = "q2" THEN "none" ELSE "C"]
MCParent == [t \in {"T", "C"} |-> IF t = "C" THEN "T" ELSE "none"]
MCFrom == [m \in {"m1", "m2"} |-> "C"]
MCTo == [m \in {"m1", "m2"} |-> "T"]
MCBallot == [p \in {"out", "in", "late", "entry"} |->
    CASE p = "out" -> [team |-> "C", action |-> "remove", target |-> "x"]
      [] p = "in" -> [team |-> "C", action |-> "add", target |-> "n"]
      [] p = "late" -> [team |-> "q1", action |-> "remove", target |-> "x"]
      [] p = "entry" -> [team |-> "q1", action |-> "add", target |-> "n"]]

Proposed(invitees, joins, fresh, auto, late) ==
    [invitees |-> invitees, joins |-> joins, fresh |-> fresh, auto |-> auto, late |-> late]

\* The pair, confirmed; the pair, automatic; x alone; nobody but the initiator.
MCContent == [c \in {"pair", "auto", "one", "self"} |->
    CASE c = "pair" -> Proposed({"x", "y"}, TRUE, 0, FALSE, "confirm")
      [] c = "auto" -> Proposed({"x", "y"}, TRUE, 0, TRUE, "open")
      [] c = "one" -> Proposed({"x"}, FALSE, 1, FALSE, "disabled")
      [] c = "self" -> Proposed({}, TRUE, 1, TRUE, "disabled")]

Bounds == [revisions |-> 1, drafted |-> FALSE, initial |-> FALSE, waits |-> FALSE,
           faults |-> 0, cancels |-> 0, leaves |-> 0, restarts |-> 0,
           calls |-> 0, talkers |-> {}, rounds |-> 1, wakes |-> {}, degraded |-> FALSE,
           acks |-> 0, letters |-> {}, votes |-> {}]

With(who, what, bounds) ==
    [agenda |-> who, contents |-> what,
     members |-> [t \in {"T", "C"} |-> IF t = "C" THEN {"i", "x", "y"} ELSE {}]] @@ bounds

\* One formation with failed commits; formations side by side; drafts of an
\* open and of a new formation, published at once and after waiting.
Formations == {
    With({"q1", "d1"}, {"one", "self"}, [Bounds EXCEPT !.revisions = 2, !.faults = 1]),
    With({"q1"}, {"auto", "pair"}, [Bounds EXCEPT !.revisions = 2, !.faults = 1]),
    With({"q1", "q2"}, {"one", "self"}, [Bounds EXCEPT !.cancels = 1, !.leaves = 1]),
    With({"q1", "d1"}, {"one", "self"},
         [Bounds EXCEPT !.revisions = 2, !.waits = TRUE, !.restarts = 1]),
    With({"q1", "d1"}, {"one", "self"}, [Bounds EXCEPT !.revisions = 2, !.leaves = 1]),
    With({"q1", "d1", "d2"}, {"one", "self"},
         [Bounds EXCEPT !.revisions = 2, !.waits = TRUE, !.initial = TRUE, !.drafted = TRUE,
                        !.cancels = 1, !.restarts = 1])}

Talk(bounds) == With({}, {}, bounds)

\* Alerts that wake the parent, of both kinds; alerts that wait, with letters
\* and a crash; letters whose delivery fails; votes during discussions; an
\* alert of degraded operation at a crash; votes in a created team.
Discussions == {
    Talk([Bounds EXCEPT !.calls = 3, !.talkers = {"C"}, !.wakes = Kinds, !.degraded = TRUE]),
    Talk([Bounds EXCEPT !.calls = 3, !.talkers = {"C", "T"}, !.letters = {"m1", "m2"},
                        !.restarts = 1]),
    Talk([Bounds EXCEPT !.calls = 2, !.talkers = {"C", "T"}, !.letters = {"m1", "m2"},
                        !.faults = 1, !.rounds = 2, !.degraded = TRUE]),
    Talk([Bounds EXCEPT !.calls = 2, !.talkers = {"C", "T"}, !.acks = 1]),
    Talk([Bounds EXCEPT !.calls = 2, !.talkers = {"C"}, !.votes = {"out"}]),
    Talk([Bounds EXCEPT !.calls = 1, !.talkers = {"C"}, !.votes = {"in"}]),
    Talk([Bounds EXCEPT !.calls = 3, !.talkers = {"C", "T"}, !.degraded = TRUE, !.restarts = 1]),
    With({"q1"}, {"auto"}, [Bounds EXCEPT !.votes = {"late"}]),
    With({"q1"}, {"self"}, [Bounds EXCEPT !.votes = {"entry"}])}

MCStarts == Formations \cup Discussions
=============================================================================
