SPECIFICATION PagingSpec
CONSTANTS
    Mode = "separate"
    Limit = 3
    BufferSize = 2
    MaxBytes = 3
    Failures = TRUE
    MaxLimit = 3
    Encodings = {"utf-8", "utf-16le"}
INVARIANTS
    PagingTypeOK
    WithinLimit
    SizesAreServable
    NothingLostBelowLimit
    TruncationReported
    EofIsTheEnd
    UnitsNeverSplit
PROPERTIES
    FinishedOutputFrozen
    FollowerReachesEof
