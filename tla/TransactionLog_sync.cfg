SPECIFICATION Spec
CONSTANTS
    Requests <- MCRequests
    Filters <- MCFilters
    Letters <- NoLetters
    MaxWrites = 3
    MaxFlight = 2
    MaxAge = 2
INVARIANTS CatchesUp MutationsCatchUp ReportsEvents
CHECK_DEADLOCK FALSE
