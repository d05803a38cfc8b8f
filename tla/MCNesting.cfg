CONSTANTS
    Agents = {root, a1}
    Root = root
    Tasks = {t1, t2, t3, t4}
    NoTask = NoTask
    NoEdge = NoEdge
    Host = Host
SPECIFICATION NestingSpec
SYMMETRY Symmetry
INVARIANTS
    ExactAccounting
    NoCircularWait
CHECK_DEADLOCK FALSE
