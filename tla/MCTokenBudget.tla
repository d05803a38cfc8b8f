--------------------------- MODULE MCTokenBudget ---------------------------
(* A small instance of TokenBudget for TLC: two turns, two limited aliases *)
(* and an unlimited default.  The client of m2 takes no output limit; an    *)
(* answer may report nothing, or more than was reserved.                    *)
EXTENDS TokenBudget, TLC

CONSTANTS t1, t2, m1, m2, m0

MCTurns == {t1, t2}
MCLimited == {m1, m2}
MCLimit == m1 :> 4 @@ m2 :> 2
MCRank == m1 :> 1 @@ m2 :> 2 @@ m0 :> 3
MCOutput == m1 :> 2 @@ m2 :> 1 @@ m0 :> 1
MCBounded == {m1, m0}
MCPrompts == {1}
MCReports == {1, 3}

=============================================================================
