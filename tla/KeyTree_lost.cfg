SPECIFICATION Spec
CONSTANTS
    v0 = v0
    v1 = v1
    None = none
    Keys <- MCKeys
    Values <- MCValues
    Starts <- MCStarts
    Requests <- MCRequests
    StartEntries = 4
    MaxEntries = 6
    FillFactor = 75
    MaxMerges = 2
    MaxFailing = 1
    CanFail = {"leaf", "split", "node", "remove"}
INVARIANTS NothingLost
CHECK_DEADLOCK FALSE
