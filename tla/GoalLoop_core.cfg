SPECIFICATION GoalFairSpec
CONSTANTS
    MaxPrompts = 3
    MaxLoops = 2
    MaxIterations = 2
    GoalEnv <- Careful
INVARIANTS GoalsHaveOneDriver
PROPERTIES CancelledLoopsChangeNothing GoalsEnd
\* A conversation nobody prompts again has nothing left to do.
CHECK_DEADLOCK FALSE
