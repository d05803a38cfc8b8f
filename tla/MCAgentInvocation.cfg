CONSTANTS
    Agents = {root, a1}
    Root = root
    Tasks = {t1, t2}
    NoTask = NoTask
    NoEdge = NoEdge
    Host = Host
SPECIFICATION FairSpec
INVARIANTS
    TypeOK
    InvokedOnlyWhileActive
    RestoreRunsAlone
PROPERTY
    EveryInvocationEnds
CHECK_DEADLOCK FALSE
