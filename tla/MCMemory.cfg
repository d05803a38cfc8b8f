CONSTANTS
    a1 = a1
    a2 = a2
    t1 = t1
    t2 = t2
    t3 = t3
    t4 = t4
    talk = talk
    NoTalk = NoTalk
    Agents = {a1, a2}
    Turns = {t1, t2, t3, t4}
    Talks = {talk}
    Owner <- MCOwner
    Within <- MCWithin
    Workers = 2
    Slots = 1
    MaxRetries = 1
    MaxRetained = 1
    Starts <- MCStarts
SPECIFICATION FairSpec
INVARIANTS
    TypeOK
    Worked
    Restorable
PROPERTY
    Settles
CHECK_DEADLOCK FALSE
