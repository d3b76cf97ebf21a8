\* Numbers are scaled down, as is the number of components.
CONSTANTS
    COMPONENTS = 2
    BYTE_COUNT = 4
    UINT_COUNT = 8
    LONG_COUNT = 32
    Certificates <- MCCertificates
    ChainTexts <- McChainTexts
    CrlTexts <- McCrlTexts
    X509Texts <- McX509Texts
    IssuerNames <- McIssuerNames
    Serials <- McSerials
    CrlTimes <- McCrlTimes
    CRL_SECONDS_IN_A_DAY = 10
SPECIFICATION AllSpec
CHECK_DEADLOCK FALSE
INVARIANTS
    AcceptsTheProfile
    ObjectsAnswerAsCertified
    ExceptionTellsTheCause
    SplitsTheChain
    RevokedIsFound
    CrlIsReadAsItStands
    CertificateIsReadAsItStands
    NamesAreJudgedAlike
