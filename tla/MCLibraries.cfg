CONSTANTS
    a1 = a1
    a2 = a2
    b1 = b1
    s1 = s1
    p1 = p1
    c1 = c1
    c2 = c2
    NoNode = NoNode
    Teams = {"TA", "TB", "TS"}
    Audit = "TS"
    Callers <- MCCallers
    Calls = {c1, c2}
    Libs = {"A", "B", "S", "P"}
    Owner <- MCOwner
    Nodes = {a1, a2, b1, s1, p1}
    Lib <- MCLib
    Starts <- MCStarts
SPECIFICATION Spec
CHECK_DEADLOCK FALSE
INVARIANT TypeOK
PROPERTY ReadsStillDue AloneSound
