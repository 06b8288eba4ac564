CONSTANTS
    Sizes = {1, 3}
    MaxSize = 2
    MaxBackups = 2
    MaxAge = 1
    Compress = TRUE
    MaxEntries = 5
    MaxDays = 2
    None = None
SPECIFICATION Spec
INVARIANTS
    ActiveIsBounded
PROPERTIES
    LatestAreKept
