SPECIFICATION FairSpec
CONSTANTS
    r1 = r1  r2 = r2  a1 = a1  a2 = a2
    Routines = {r1, r2}
    Agents = {a1}
    AgentOf <- Shared
    FirstKind <- BothTimed
    Period <- Periods
    MaxSlots = 1
    MaxTime = 4
    MaxUsers = 1
    MaxManual = 1
    MaxChanges = 1
    Env <- WithFaults
INVARIANTS ExchangesAgree
PROPERTIES UserRunsAreNotCut RunsEnd
CHECK_DEADLOCK FALSE
