\* What the static updater keeps, in each of three surroundings.
SPECIFICATION FairSpec
CONSTANTS
    Versions = {1, 2, 3}
    MaxSignals = 1
    Environments <- Surroundings
INVARIANT OneActive
INVARIANT ActiveIsFlashed
INVARIANT EndFindsActivation
PROPERTY HostKeepsFlash
PROPERTY LifecycleEnds
