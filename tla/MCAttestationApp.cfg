SPECIFICATION MainSpec
CONSTANTS
    Starts <- McStarts
    Contents <- McContents
    Options <- McOptions
    Enclave = TRUE
    MaxReplacements = 1
    Missing = Missing
    Lines <- McLines
    Longopts <- McLongopts
    Defaults <- McDefaults
    MaxErrors = 3
    Numeral <- McNumeral
    Posixly = {TRUE, FALSE}
    QeIdentity = 6
    QveIdentity = 7
    VerCollInfo = 11
INVARIANT OptionsAreTheWords
INVARIANT AcceptedMeansTrusted
INVARIANT SavedInfoIsTheJudgedOne
INVARIANT UndisturbedVerdict
PROPERTY EventuallyReturns
CHECK_DEADLOCK FALSE
