SPECIFICATION Spec
CONSTANTS
    Requests <- MCRequests
    Indexes <- MCIndexes
    Subscriptions <- MCSubscriptions
    Mirror <- MCMirror
    MaxSubs = 2
    Letters <- MCLetters
INVARIANTS IndexFollows CopyFollows
PROPERTY EventsAreChanges
