SPECIFICATION FairSpec
CONSTANTS
    Records = {1, 2, 3}
    Values = {1, 2}
    Starts <- MCStarts
    NoFile = NoFile
    Asked = {2}
    MaxBatch = 2
    MaxEvents = 4
INVARIANTS
    Agrees
    CacheFollows
PROPERTIES
    Settles
CHECK_DEADLOCK FALSE
