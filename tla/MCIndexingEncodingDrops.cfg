SPECIFICATION Spec
CONSTANTS
    Encodings <- MCEncodings
    NoEncoding = "none"
    Splits <- MCSplits
    Detected = "UTF-8"
    Locale = "UTF-8"
    Undisplayed = "Latin-1"
    DigestBlock = 2
    MaxSize = 2
    FirstSizes = {0, 1, 2}
    MaxChanges = 0
    MaxReloads = 1
    MaxChosen = 1
    MaxStops = 0
    MaxFailures = 0
    MaxEvents = 9
    UseIndexCache = FALSE
    OnlyGrows = TRUE
INVARIANTS
    IndexKept
CHECK_DEADLOCK FALSE
