SPECIFICATION FairSpec
CONSTANTS
    Encodings <- MCEncodings
    NoEncoding = "none"
    Splits <- MCSplits
    Detected = "UTF-8"
    Locale = "UTF-8"
    Undisplayed = "Latin-1"
    DigestBlock = 2
    MaxSize = 2
    FirstSizes = {0, 2}
    MaxChanges = 2
    MaxReloads = 0
    MaxChosen = 2
    MaxStops = 0
    MaxFailures = 0
    MaxEvents = 3
    UseIndexCache = TRUE
    OnlyGrows = FALSE
INVARIANTS
    SplitAsDecoded
PROPERTIES
    CatchesUp
CHECK_DEADLOCK FALSE
