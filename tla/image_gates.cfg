\* Any signatures, keys and hashes; up to three minimum versions.
SPECIFICATION GatesSpec
CONSTANTS
    KeyTypes = {OpenPOWER, GA}
    SystemKeys = {op, ga}
    ImageKey = img
    None = none
    Garbage = garbage
    Numbers <- Releases
    MaxMinimums = 3
    WatchLag = TRUE
SYMMETRY Symmetry
CHECK_DEADLOCK FALSE
INVARIANT OnlySignedInField
INVARIANT VerdictIsRightInOrder
