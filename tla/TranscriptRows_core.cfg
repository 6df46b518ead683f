SPECIFICATION Spec
CONSTANTS
    MaxNew = 4
    MaxView = 6
    Env <- Careful
INVARIANTS ViewAndRowsAgree CallsStayTogether CheckpointsDescribeTheirPast
PROPERTIES UndosAreExact ImplementsStoredLog
\* Past the bound on messages nothing more is said.
CHECK_DEADLOCK FALSE
