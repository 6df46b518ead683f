SPECIFICATION FairSpec
CONSTANTS
    c1 = c1  c2 = c2
    Callers = {c1, c2}
    MaxEmpty = 1
    MaxRateLimit = 1
    MaxOutputCap = 1
    MaxOverflow = 1
    MaxCalls = 1
    MaxSteers = 1
    MaxStops = 2
    Env <- Careful
INVARIANTS RetriesAreBounded RestartsAreOwned
PROPERTIES PromptsReturn
\* When every prompt has returned nothing is left to do.
CHECK_DEADLOCK FALSE
