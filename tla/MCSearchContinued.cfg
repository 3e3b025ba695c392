SPECIFICATION FairSpec
CONSTANTS
    Patterns <- MCOnePattern
    Readings <- MCTwoReadings
    Ranges <- MCRangesLong
    InvalidPattern = "("
    MaxLines = 3
    BlockLines = 1
    MaxBlocks = 2
    MaxReports = 0
    MaxCacheLines = 0
    MaxRuns = 2
    OnlyGrows = TRUE
    MaxChanges = 1
    CachePolicies = {FALSE}
    ContinueUnsettled = FALSE
INVARIANTS
    TypeOK
    CompleteIsExact
    CompleteIsWhole
    FollowersInStep
PROPERTIES
    SearchSettles
CHECK_DEADLOCK FALSE
