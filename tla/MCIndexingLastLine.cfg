SPECIFICATION Spec
CONSTANTS
    Encodings <- MCOneEncoding
    NoEncoding = "none"
    Splits <- MCSplits
    Detected = "UTF-8"
    Locale = "UTF-8"
    Undisplayed = "UTF-8"
    DigestBlock = 2
    MaxSize = 4
    FirstSizes = {0, 1, 2, 3, 4}
    MaxChanges = 1
    MaxReloads = 0
    MaxChosen = 0
    MaxStops = 0
    MaxFailures = 0
    MaxEvents = 9
    UseIndexCache = FALSE
    OnlyGrows = TRUE
INVARIANTS
    LastLineIsIndexed
CHECK_DEADLOCK FALSE
