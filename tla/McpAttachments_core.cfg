SPECIFICATION FairSpec
CONSTANTS
    Servers <- Both
    NeedsAuth <- Second
    Configs <- Lists
    MaxManagers = 2
    MaxConns = 6
    MaxCalls = 2
    MaxAtOnce = 2
    MaxPrompts = 1
    MaxLosses = 1
    MaxChanges = 1
INVARIANTS NothingOutlivesItsManager ToolsAreTheCurrentOnes OneConnectionPerServer
PROPERTIES EverythingAnswers
\* A closed session does nothing more.
CHECK_DEADLOCK FALSE
