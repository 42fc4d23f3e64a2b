SPECIFICATION IPCFairSpec
CONSTANTS
    m = m
    a = a
    b = b
    tm = tm
    ta = ta
    tb = tb
    i = i
    Master = m
    Workers = {a}
    Tids = {tm, ta}
    PeerOf <- MCPeerOf
    Ids = {i}
    MaxWarnings = 0
    MaxPerTid = 2
    MaxInFlight = 3
    MaxLeaving = 1
PROPERTIES RequestsAnswered
CHECK_DEADLOCK FALSE
