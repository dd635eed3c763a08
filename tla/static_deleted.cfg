\* The active version is deleted and the host started again.
SPECIFICATION Spec
CONSTANTS
    Versions = {1, 2}
    MaxSignals = 1
    Environments <- DeletingSurroundings
PROPERTY NoActiveMeansEmpty
