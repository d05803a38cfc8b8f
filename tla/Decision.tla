------------------------------- MODULE Decision -------------------------------
(***************************************************************************)
(* What consensual governance promises (docs/Team_Governance.md) of one    *)
(* business, without how rounds, mails, claims, tasks and commits bring it *)
(* about: it is opened for its authorities, each of them convenes panels   *)
(* of voters, a ballot is cast once, and the business is carried or        *)
(* rejected only by the last panels of its authorities, while they are     *)
(* their electorates.                                                      *)
(***************************************************************************)
EXTENDS Naturals, Sequences, FiniteSets

CONSTANTS
    Principals,   \* those who may be authorities
    Assent,       \* the choices that carry the business
    Lapsing,      \* whether it may lapse while ballots are under way, that still come in
    Silent        \* no ballot yet

VARIABLES
    decision,   \* the decision
    authority,  \* the principals that decide
    panels,     \* the panels of a principal: the ballot of every voter
    body        \* the electorate of a principal: it changes at any time

vars == <<decision, authority, panels, body>>

\* A strict majority of all its voters is for c, and all of them have voted.
Majority(panel, c) ==
    /\ \A v \in DOMAIN panel : panel[v] # Silent
    /\ 2 * Cardinality({v \in DOMAIN panel : panel[v] = c}) > Cardinality(DOMAIN panel)

\* The last panel of p is its electorate and has voted for one of cs.
SaysNow(p, cs) ==
    /\ panels[p] # <<>>
    /\ LET panel == panels[p][Len(panels[p])] IN
       DOMAIN panel = body[p] /\ \E c \in cs : Majority(panel, c)

Sits == decision = "open" \/ (decision = "closed" /\ Lapsing)

Init ==
    /\ decision \in {"none", "closed"}
    /\ authority = {}
    /\ panels = [p \in Principals |-> <<>>]

Open ==
    /\ decision = "none" /\ decision' = "open"
    /\ authority' \subseteq Principals
    /\ panels' = panels

Convene(p) ==
    /\ Sits /\ p \in authority
    /\ Len(panels'[p]) = Len(panels[p]) + 1
    /\ LET voters == DOMAIN panels'[p][Len(panels[p]) + 1] IN
       /\ voters # {}
       /\ panels' = [panels EXCEPT ![p] = Append(@, [v \in voters |-> Silent])]
    /\ UNCHANGED <<decision, authority>>

\* Only in the last panel, and once.
Cast(p) ==
    /\ Sits /\ panels[p] # <<>>
    /\ LET n == Len(panels[p]) IN
       \E v \in DOMAIN panels[p][n] :
         /\ panels[p][n][v] = Silent
         /\ panels' = [panels EXCEPT ![p][n][v] = panels'[p][n][v]]
    /\ UNCHANGED <<decision, authority>>

\* A decision is first provisional, and is then confirmed or taken back.
Carry ==
    /\ Sits /\ decision' \in {"carrying", "carried"}
    /\ \A p \in authority : SaysNow(p, Assent)
    /\ UNCHANGED <<authority, panels>>

Reject ==
    /\ decision = "open" /\ decision' = "rejecting"
    /\ \E p \in authority : SaysNow(p, {"no"})
    /\ UNCHANGED <<authority, panels>>

Confirm ==
    /\ \/ decision = "carrying" /\ decision' = "carried"
       \/ decision = "rejecting" /\ decision' = "rejected"
       \/ decision = "closing" /\ decision' = "closed"
    /\ UNCHANGED <<authority, panels>>

TakeBack ==
    /\ decision \in {"carrying", "rejecting", "closing"} /\ decision' = "open"
    /\ UNCHANGED <<authority, panels>>

\* The business lapses without a decision.
Close ==
    /\ decision \in {"none", "open"} /\ decision' \in {"closing", "closed"}
    /\ UNCHANGED <<authority, panels>>

NewElectorate == UNCHANGED <<decision, authority, panels>>

Next ==
    \/ NewElectorate
    \/ Open \/ Carry \/ Reject \/ Confirm \/ TakeBack \/ Close
    \/ \E p \in Principals : Convene(p) \/ Cast(p)

Spec == Init /\ [][Next]_vars
=============================================================================
