\* Any elements, any directory left behind, and the two programs among restarts.
SPECIFICATION BootSpec
CONSTANTS
    Names = {toc, core}
    Toc = toc
    Lids = {tocLid, lid1}
    TocLid = tocLid
    Supported = {p10}
    Unsupported = {other}
    NoExtension = none
    Nothing = nothing
    File = file
    Bounds <- TwoBounds
    Objects = {1, 2}
    MapperLag = TRUE
    MaxRestarts = 2
CHECK_DEADLOCK FALSE
INVARIANT IplWins
INVARIANT LinksFollow
INVARIANT HostIsPrepared
PROPERTY LinksEnd
PROPERTY BiosEnds
