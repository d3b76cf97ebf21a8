SPECIFICATION Spec
CONSTANTS
    CPUSVN_BYTE_LEN = 3
    MAX_ADVISORIES = 2
    Args <- FaultArgs
INVARIANT
    ReturnsDocumentedStatus
CHECK_DEADLOCK FALSE
