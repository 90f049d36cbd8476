SPECIFICATION Spec
CONSTANTS
    Procs = {1, 2}
    Roots = {1, 2}
    Contents = {1, 2, 3, 4}
    LengthOf <- MCLengthOf
    Jobs <- MCJobs
    PinnedRows <- MCPinnedRows
    OtherRows <- MCOtherRows
    Tree <- MCTree
    OtherTree <- MCOtherTree
    ManifestName = 0
    MaxLaunches = 2
    MaxKills = 1
    MaxTouches = 1
INVARIANTS
    PublishedAsPinned
PROPERTIES
    PublishedOnce
    EveryCommandEnds
CHECK_DEADLOCK FALSE
