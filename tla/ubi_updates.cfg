\* What the UBI updater keeps, in each of six surroundings.
SPECIFICATION Spec
CONSTANTS
    Versions = {1, 2, 3}
    MaxPriority = 4
    MaxActive = 2
    MaxSignals = 1
    WrittenPriorities = {0, 1}
    FallbackPriorities = {4}
    SignatureResults = {"valid", "invalid"}
    Environments <- SafetySurroundings
INVARIANT PriorityIffActive
INVARIANT BlocksWhileActivating
INVARIANT PriorityPersisted
INVARIANT ProgressPresent
INVARIANT LinkNotRemoved
PROPERTY LifecycleKept
PROPERTY LimitKept
PROPERTY NoNeedlessDeletion
PROPERTY FunctionalKept
PROPERTY NewestBootsNext
PROPERTY ActivatedIsMounted
