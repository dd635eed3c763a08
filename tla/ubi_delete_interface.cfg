\* The interface Object.Delete against what its documentation says.
SPECIFICATION DeletionSpec
CONSTANTS
    Versions = {1, 2, 3}
    Running = 2
    Environments <- CleanupEnvironments
    Objects = {v1, v2, v3}
    MaxSignals = 4
CHECK_DEADLOCK FALSE
PROPERTY FunctionalHasNoDelete
