SPECIFICATION Spec
SYMMETRY Swaps
CONSTANTS
    MaxRuns = 2
    MaxMsgs = 1
    MaxContexts = 1
    PromptRoles <- UserOnly
    MaxCalls = 3
    MaxBatch = 2
    Signatures = {a, b}
    a = a
    b = b
    RemindAt = {2}
    MaxLate = 1
    Env <- FailingStreams
INVARIANTS
    ReminderEarned
\* An agent nobody prompts again has nothing left to do.
CHECK_DEADLOCK FALSE
