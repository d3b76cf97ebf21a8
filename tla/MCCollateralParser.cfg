SPECIFICATION Spec
CONSTANT CPUSVN_BYTE_LEN = 2
CONSTANT Documents <- McDocuments
CONSTANT Platforms <- McPlatforms
INVARIANT AcceptsTheFormat
INVARIANT ObjectsAnswerAsSigned
INVARIANT HighestLevelIsChosen
CHECK_DEADLOCK FALSE
