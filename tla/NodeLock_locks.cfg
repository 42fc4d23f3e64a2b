SPECIFICATION FairSpec
CONSTANTS
    Tids = {t1, t2}
    Ids = {1}
    MaxWarnings = 3
    MaxPerTid = 2
INVARIANTS TypeOK Exclusive NoLostWakeup
PROPERTIES QueueOrder QuitIsFinal ImplementsRWLock QuitResolves PendingSettles
CHECK_DEADLOCK FALSE
