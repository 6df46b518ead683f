SPECIFICATION FairSpec
CONSTANTS
    MaxRuns = 2
    MaxMsgs = 2
    MaxContexts = 0
    PromptRoles <- UserOnly
    MaxCalls = 2
    MaxBatch = 2
    Signatures = {a}
    a = a
    RemindAt = {}
    MaxLate = 1
    Env <- WithFallback
INVARIANTS
    RunIsOwned
    NothingQueuedIsLost
    CallsAnsweredAtRequest
    ResultsStayInTheirTurn
PROPERTIES
    ImplementsRunOwner
    AbandonedRunsWriteNothing
    EverythingReturns
\* An agent nobody prompts again has nothing left to do.
CHECK_DEADLOCK FALSE
