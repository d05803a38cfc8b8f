------------------------------ MODULE MCMemory ------------------------------
(***************************************************************************)
(* A small instance of Memory for TLC: three turns of one Agent, one of    *)
(* them in a discussion, and one of another.  Each start has some of the   *)
(* turns, and a few disturbances.                                          *)
(***************************************************************************)
EXTENDS Memory, TLC

CONSTANTS a1, a2, t1, t2, t3, t4, talk

MCOwner == t1 :> a1 @@ t2 :> a1 @@ t3 :> a2 @@ t4 :> a1
MCWithin == t1 :> NoTalk @@ t2 :> talk @@ t3 :> NoTalk @@ t4 :> NoTalk

Undisturbed ==
    [turns |-> {t1, t2, t3}, cancels |-> 0, keeps |-> 0, errors |-> 0, retries |-> 0, flushes |-> 0,
     restored |-> 0, toggles |-> 0, changes |-> 0, faults |-> 0, restarts |-> 0, restores |-> 0]

Own == [Undisturbed EXCEPT !.turns = {t1, t2}]
Later == [Undisturbed EXCEPT !.turns = {t1, t2, t4}]
Apart == [Undisturbed EXCEPT !.turns = {t1, t3}]

MCStarts ==
    { [Own EXCEPT !.keeps = 2, !.restored = 1, !.restarts = 1, !.cancels = 1],
      [Own EXCEPT !.toggles = 2, !.keeps = 1, !.flushes = 1],
      [Undisturbed EXCEPT !.errors = 2, !.retries = 1, !.cancels = 1],
      [Undisturbed EXCEPT !.changes = 1],
      [Apart EXCEPT !.changes = 2, !.errors = 1, !.flushes = 1],
      [Own EXCEPT !.keeps = 2, !.changes = 2, !.restarts = 1],
      [Own EXCEPT !.restores = 1, !.restarts = 1, !.errors = 1, !.changes = 1],
      [Later EXCEPT !.keeps = 2, !.restarts = 1],
      [Apart EXCEPT !.changes = 1, !.faults = 1, !.flushes = 1] }

MCFailing == {[Apart EXCEPT !.changes = 1, !.faults = 1]}

=============================================================================
