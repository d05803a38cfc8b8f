CONSTANTS
    agent = agent
    reference = reference
    Tasks = {t1, t2}
    Keys <- MCKeys
    Owner <- MCOwner
    NoBatch = NoBatch
    DeadBatch = DeadBatch
    EmergencyWakeup = FALSE
    Loaded <- MCLoaded
    MaxChanges = 2
SPECIFICATION Spec
SYMMETRY Symmetry
INVARIANTS
    TypeOK
    NoLostUpdate
    AckedStaysDurable
    ReferentialIntegrity
    ClosedIsDrained
CHECK_DEADLOCK FALSE
