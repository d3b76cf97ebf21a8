SPECIFICATION VersionSpec
CONSTANTS
    Threads = {t1, t2}
    NUL = NUL
    VERSION <- VersionText
    Suffix <- SuffixText
    BufferSize = 7
    Modes <- ConcurrentFips
    OptionalObjects <- McOptionalObjects
    OptionalCells <- McOptionalCells
    OptionalValues <- McOptionalValues
    CopiesEmpty = FALSE
    StatusValues <- McStatusValues
INVARIANT
    VersionIntact
