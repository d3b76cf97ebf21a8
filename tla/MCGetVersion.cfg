SPECIFICATION AllSpec
CHECK_DEADLOCK FALSE
CONSTANTS
    Threads = {t1, t2, t3}
    NUL = NUL
    VERSION <- VersionText
    Suffix <- SuffixText
    BufferSize = 7
    Modes <- SafeModes
    OptionalObjects <- McOptionalObjects
    OptionalCells <- McOptionalCells
    OptionalValues <- McOptionalValues
    CopiesEmpty = FALSE
    StatusValues <- McStatusValues
INVARIANTS
    VersionIntact
    OptionalsKeepTheirValues
    StatusesArePrintedByName
