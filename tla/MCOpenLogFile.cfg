SPECIFICATION Spec
CONSTANTS
    Encodings = {}
    NoEncoding = "none"
    SampleDepth = 2
    MaxChecksBeforeStopping = 2
    Searches = {"s", "t"}
    First = "s"
    Patterns = {"fields", "invalid"}
    NoPattern = "none"
    InvalidPatterns = {"invalid"}
    FieldPatterns = {"fields"}
    InitialLines = {1}
    MaxLines = 2
    MaxEvents = 2
    MaxCalls = 3
    MaxAltogether = 3
INVARIANTS
    TypeOK
    AskedIsKept
    LimitsSettled
    OnlyAppendedIsAppended
    FollowedSearch
    FormatFollows
    FieldTermsRead
    StoppedIsLoaded
    SavedMarksAreKept
    StopIsTold
CHECK_DEADLOCK FALSE
