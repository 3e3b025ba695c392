SPECIFICATION FairSpec
CONSTANTS
    Policies <- MCPolicies
    MaxRuns = 3
    MaxPending = 2
    MaxWakes = 1
    MaxNesting = 2
INVARIANTS
    TypeOK
    ProgressBeforeFinish
    ReaderOpenUnderJob
    NoLostWake
PROPERTIES
    StartEnds
    SupersededReported
    NothingAfterShutdown
    ImplementsRunReports
CHECK_DEADLOCK FALSE
