SPECIFICATION FairSpec
CONSTANTS
    MaxRev = 4
    MaxMsgs = 3
    Page = 2
    MaxDrops = 1
    MaxSyncs = 1
    Env <- Careful
INVARIANTS ViewIsSound ViewIsTrue
PROPERTIES ViewCatchesUp
\* A quiet session whose client has caught up stops.
CHECK_DEADLOCK FALSE
