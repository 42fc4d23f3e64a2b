SPECIFICATION Spec
CONSTANTS
    Children = {1, 2, 3}
    Keys = {"a", "b", "c"}
    Databases <- MCDatabases
    IndexSets <- MCIndexSets
    Queries <- MCNowhere
    BatchSize = 2
    ReadErrors = FALSE
    MaxWrites = 0
INVARIANTS LogicalAnd
