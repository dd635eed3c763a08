\* Three versions restored without their priority files.
SPECIFICATION Spec
CONSTANTS
    Versions = {1, 2, 3}
    MaxPriority = 3
    MaxActive = 2
    MaxSignals = 1
    WrittenPriorities = {}
    FallbackPriorities = {3}
    SignatureResults = {"valid", "invalid"}
    Environments <- RestartSurroundings
INVARIANT DistinctPriorities
