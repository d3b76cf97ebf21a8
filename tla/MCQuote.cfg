SPECIFICATION FairSpec
CONSTANTS
    CPUSVN_BYTE_LEN = 3
    MAX_ADVISORIES = 2
    Args <- AllArgs
INVARIANTS
    ChainOfTrust
    AuthenticatedBeforeJudged
    WeakestPartDecides
    RelaunchAdviceSound
    BufferAgreesWithVerdict
    BufferSpansCollateral
PROPERTIES
    ImplementsAppraisal
CHECK_DEADLOCK FALSE
