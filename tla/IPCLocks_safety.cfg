SPECIFICATION IPCSpec
CONSTANTS
    m = m
    a = a
    b = b
    tm = tm
    ta = ta
    tb = tb
    i = i
    Master = m
    Workers = {a, b}
    Tids = {ta, tb}
    PeerOf <- MCPeerOf
    Ids = {i}
    MaxWarnings = 0
    MaxPerTid = 2
    MaxInFlight = 3
    MaxLeaving = 2
SYMMETRY Symmetry
INVARIANTS IPCTypeOK ExclusiveAcrossPeers ResultsAwaited NoOrphanLock GoneIsClean
CHECK_DEADLOCK FALSE
