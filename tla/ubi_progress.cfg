\* Two versions: failures and retries, restarts of the daemon.
SPECIFICATION FairSpec
CONSTANTS
    Versions = {1, 2}
    MaxPriority = 3
    MaxActive = 2
    MaxSignals = 1
    WrittenPriorities = {0, 3}
    FallbackPriorities = {3}
    SignatureResults = {"valid", "invalid"}
    Environments <- ProgressSurroundings
PROPERTY ActivationEnds
