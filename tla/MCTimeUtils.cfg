\* A minute, an hour and a day are of two; the year 12000 stands for the last an int holds.
CONSTANTS
    SECSPERMIN = 2
    MINSPERHOUR = 2
    HOURSPERDAY = 2
    TIME_BIT = 27
    INT_MAX = 12000
    Texts <- McTexts
    NUMBER_BITS = 8
    MAX_JSON_DEPTH = 3
    BODY <- McBody
    VERSION <- McVersion
    ID <- McId
    JsonTexts <- McJsonTexts
    BASE = 3
    UINT32_VALUES = 32768
    UINT64_VALUES = 1073741824
    ROOM <- McRoom
    Numbers32 <- McNumbers32
    Numbers64 <- McNumbers64
    HEAP = 72
    ALIGNMENT = 2
    SHARED_DATA = 2
    CHUNK_HEADER = 2
    kDefaultChunkCapacity = 4
    kDefaultStackCapacity = 3
    MaxSize = 1
    StringLengths <- McStringLengths
    MAX_EVENTS = 5
    MAX_LETTERS = 5
SPECIFICATION AllSpec
CHECK_DEADLOCK FALSE
INVARIANTS
    BuildsAgree
    TextMeansTheDocument
    SignedIsRead
    WritingStaysShallow
    NumbersAreWrittenInDecimal
    MemoryKeepsWhatItIsGiven
PROPERTY
    EveryTextIsJudged
