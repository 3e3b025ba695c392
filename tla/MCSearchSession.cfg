SPECIFICATION Spec
CONSTANTS
    Patterns <- MCPatterns
    Readings <- MCReadings
    Ranges <- MCRanges
    InvalidPattern = "("
    MaxLines = 2
    BlockLines = 1
    MaxBlocks = 2
    MaxReports = 1
    MaxCacheLines = 2
    MaxRuns = 2
    OnlyGrows = FALSE
    MaxChanges = 1
    CachePolicies = {FALSE, TRUE}
    ContinueUnsettled = FALSE
INVARIANTS
    SearchedIsDecided
    CompleteIsExact
    FollowersInStep
    AwaitedNotSuperseded
    CacheIsCurrent
    CacheWithinBudget
CHECK_DEADLOCK FALSE
