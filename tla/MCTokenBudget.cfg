CONSTANTS
    t1 = t1
    t2 = t2
    m1 = m1
    m2 = m2
    m0 = m0
    Turns <- MCTurns
    Limited <- MCLimited
    Default = m0
    Limit <- MCLimit
    Rank <- MCRank
    Output <- MCOutput
    Bounded <- MCBounded
    Prompts <- MCPrompts
    Reports <- MCReports
    MaxRetries = 1
    MaxRounds = 2
SPECIFICATION FairSpec
INVARIANTS
    TypeOK
    HardQuota
    LedgerExact
PROPERTY EveryTurnEnds
CHECK_DEADLOCK FALSE
