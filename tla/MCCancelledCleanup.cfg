CONSTANTS
    Agents = {root, a1}
    Root = root
    Tasks = {t1, t2}
    NoTask = NoTask
    NoEdge = NoEdge
    Host = Host
SPECIFICATION Spec
INVARIANT IdleManagerHoldsNothing
CHECK_DEADLOCK FALSE
