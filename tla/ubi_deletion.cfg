\* deleteAll and its script, and Object.Delete, among power changes and restarts.
SPECIFICATION DeletionSpec
CONSTANTS
    Versions = {1, 2, 3}
    Running = 2
    Environments <- CleanupEnvironments
    Objects = {v1, v2, v3}
    MaxSignals = 4
CHECK_DEADLOCK FALSE
INVARIANT CurrentKept
INVARIANT DeleteFollows
PROPERTY HostKeepsVersion
PROPERTY OthersGo
