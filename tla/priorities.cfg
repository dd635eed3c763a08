\* The copies of a priority among crashes and power losses, and the loop of freePriority.
SPECIFICATION PrioritySpec
CONSTANTS
    MaxPriority = 2
    MaxJobs = 2
    Environments <- FileEnvironments
    LoopVersions <- FourVersions
    LoopMax = 4
\* The loop ends.
CHECK_DEADLOCK FALSE
INVARIANT DeletedLeavesNone
INVARIANT LoopIsFreePriority
PROPERTY RestoresLast
PROPERTY RestoresHeld
