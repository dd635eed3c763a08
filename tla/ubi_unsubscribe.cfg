\* Two activations at once and nothing else.
SPECIFICATION Spec
CONSTANTS
    Versions = {1, 2}
    MaxPriority = 3
    MaxActive = 2
    MaxSignals = 1
    WrittenPriorities = {}
    FallbackPriorities = {3}
    SignatureResults = {"valid", "invalid"}
    Environments <- UpdateSurroundings
PROPERTY FinishIsSafe
