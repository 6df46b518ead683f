SPECIFICATION Spec
CONSTANTS
    r1 = r1  r2 = r2  a1 = a1  a2 = a2
    Routines = {r1}
    Agents = {a1}
    AgentOf <- Alone
    FirstKind <- OneWatch
    Period <- Periods
    MaxSlots = 2
    MaxTime = 4
    MaxUsers = 2
    MaxManual = 1
    MaxChanges = 1
    Env <- Everything
PROPERTIES RunsLeaveNothing
CHECK_DEADLOCK FALSE
