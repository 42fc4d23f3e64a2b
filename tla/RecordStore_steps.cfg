SPECIFICATION Spec
CONSTANTS
    Requests <- MCRequests
    Paths <- MCPaths
    MaxFailures = 1
INVARIANTS OneHome ReadsAgree
PROPERTY ImplementsTree
