CONSTANTS
    Agents <- MCAgents
    Requests = {"q1", "q2"}
    Drafts = {"d1", "d2"}
    Scopes = {"T", "C"}
    NoTeam = "none"
    Initiator <- MCInitiator
    Scope <- MCScope
    Contents = {"pair", "auto", "one", "self"}
    Content <- MCContent
    MinSize = 2
    Parent <- MCParent
    Messages = {"m1", "m2"}
    From <- MCFrom
    To <- MCTo
    Proposals = {"out", "in", "late", "entry"}
    Ballot <- MCBallot
    Starts <- MCStarts
SPECIFICATION FairSpec
CHECK_DEADLOCK FALSE
INVARIANT TypeOK Restorable Consent Informed DiskRestorable Claims
PROPERTY ClosedForGood Proceeds AlertsKept ReadInFull VotesDeferred Heard
