SPECIFICATION Spec
CONSTANTS
    Encodings <- MCAlike
    NoEncoding = "none"
    Splits <- MCSplits
    Detected = "UTF-8"
    Locale = "UTF-8"
    Undisplayed = "UTF-8"
    DigestBlock = 2
    MaxSize = 4
    FirstSizes = {0, 1, 4}
    MaxChanges = 2
    MaxReloads = 1
    MaxChosen = 0
    MaxStops = 1
    MaxFailures = 1
    MaxEvents = 3
    UseIndexCache = TRUE
    OnlyGrows = FALSE
INVARIANTS
    TypeOK
    SettledIsIndexed
    ReadersFollow
CHECK_DEADLOCK FALSE
