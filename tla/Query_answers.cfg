SPECIFICATION Spec
CONSTANTS
    Children = {1, 2, 3}
    Keys = {"a", "b", "c"}
    Databases <- MCDatabases
    IndexSets <- MCIndexSets
    Queries <- MCQueries
    BatchSize = 2
    ReadErrors = TRUE
    MaxWrites = 1
INVARIANTS Sound Complete WindowRight
