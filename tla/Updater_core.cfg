SPECIFICATION FairSpec
CONSTANTS
    MaxVersion = 3
    Package <- Packages
    Modes <- All
    MaxFailures = 2
    MaxCrashes = 1
    MaxClicks = 2
    Env <- Careful
INVARIANTS InstallationIsWhole StatusIsTrue
PROPERTIES RestartsHandOver UpdatesArrive
\* A server without a binary does nothing more.
CHECK_DEADLOCK FALSE
