SPECIFICATION CommandsFairSpec
CONSTANTS
    MaxStarts = 3
    MaxSlots = 2
    MaxCompleted = 1
    Env <- Careful
INVARIANTS ProcessesAreAccountedFor EndsAreTold
PROPERTIES EverythingSettles
\* A closed session does nothing more.
CHECK_DEADLOCK FALSE
