SPECIFICATION Spec
CONSTANTS
    RecordsPerPage = 3
    Width = 4
    MaxScraps = 1
    ManyScraps = 2
    ManyRanges = 2
    MaxRanges = 3
    MaxWrites = 2
    Tables <- MCTables
    Nodes = {n1, n2}
    Lengths = {50, 85, 140}
    BytesPerRecord = 32
    MaxPages = 4
SYMMETRY Symmetry
INVARIANTS OneOwner CrashSafe Merged
PROPERTIES LostOnlyWhenFull
CHECK_DEADLOCK FALSE
