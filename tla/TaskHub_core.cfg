SPECIFICATION FairSpec
CONSTANTS
    MaxTasks = 2
    MaxRunning = 2
    MaxDepth = 2
    MaxKnown = 1
    MaxRetries = 1
    MaxTalks = 2
    Env <- Careful
INVARIANTS RosterIsTrue ResultsArriveOnce
PROPERTIES EveryTaskEnds
\* A closed session does nothing more.
CHECK_DEADLOCK FALSE
