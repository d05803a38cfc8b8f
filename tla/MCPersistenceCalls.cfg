CONSTANTS
    agent = agent
    reference = reference
    Tasks = {t1, t2}
    Keys <- MCOneKey
    Owner <- MCOneOwner
    NoBatch = NoBatch
    DeadBatch = DeadBatch
    EmergencyWakeup = TRUE
    Loaded <- MCLoadedAgent
    MaxChanges = 2
SPECIFICATION FairSpec
PROPERTY EveryCallReturns
CHECK_DEADLOCK FALSE
