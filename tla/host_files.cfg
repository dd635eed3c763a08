\* Resets on every layout, hiomapd late or refusing, and mmc_init among power losses.
SPECIFICATION FilesSpec
CONSTANTS
    Layouts = {"ubi", "static"}
    Versions <- TwoVersions
    Prsv <- PrsvFiles
    Partitions <- Toc
    Reprovision <- Cleaned
    WithEcc <- Ecc
    MaxCalls = 2
    Environments <- ResetEnvironments
    MaxBoots = 3
\* An eMMC BMC that has booted as often as the bound allows stops.
CHECK_DEADLOCK FALSE
INVARIANT ServedIsFresh
INVARIANT HostHasImage
INVARIANT NeverOtherSide
INVARIANT PreservedKept
PROPERTY EachCleared
PROPERTY OthersKept
PROPERTY ServerIsTold
