SPECIFICATION Spec
CONSTANTS
    Patterns <- MCOnePattern
    Readings <- MCTwoReadings
    Ranges <- MCRangesLong
    InvalidPattern = "("
    MaxLines = 3
    BlockLines = 1
    MaxBlocks = 2
    MaxReports = 1
    MaxCacheLines = 0
    MaxRuns = 2
    OnlyGrows = TRUE
    MaxChanges = 0
    CachePolicies = {FALSE}
    ContinueUnsettled = TRUE
INVARIANT CompleteHasAllMatches
CHECK_DEADLOCK FALSE
