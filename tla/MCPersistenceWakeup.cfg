CONSTANTS
    agent = agent
    reference = reference
    Tasks = {t1, t2}
    Keys <- MCKeys
    Owner <- MCOwner
    NoBatch = NoBatch
    DeadBatch = DeadBatch
    EmergencyWakeup = TRUE
    Loaded <- MCLoadedAgent
    MaxChanges = 2
SPECIFICATION Spec
INVARIANT NoLostUpdate
CHECK_DEADLOCK FALSE
