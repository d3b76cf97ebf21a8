-------------------------- MODULE QuoteVerification --------------------------
(***************************************************************************)
(* One call of sgxAttestationVerifyQuoteEx (QuoteVerification.cpp) and the *)
(* QuoteVerifier it runs (Verifiers/QuoteVerifier.cpp, TcbLevelCheck.cpp,  *)
(* VerificationCollateralInfo.cpp): the call's arguments are fixed in Init *)
(* and every step of the code that can return is an action.                *)
(***************************************************************************)
EXTENDS QuoteChecks

CONSTANTS
    Args,           \* the calls considered
    MAX_ADVISORIES  \* how many advisory ids fit in the 450 byte field

\* What the TcbLevel parser and the std::set that holds the levels guarantee:
\* known statuses, and a first element of every selection.
ASSUME LevelsAssumption ==
    \A a \in Args :
        /\ \A l \in a.tcbInfo.levels : l.status \in TcbInfoStatuses
        /\ \A selection \in SUBSET a.tcbInfo.levels :
              selection # {} =>
                \E l \in selection : \A other \in selection \ {l} :
                    TcbLevelGreater(a.tcbInfo.id, l, other)

\* The same of the one identity that may be given; dates and numbers are numbers.
ASSUME EvidenceAssumption ==
    \A a \in Args :
        /\ a.quote.teeTcbSvn[TDX_MODULE_MAJOR_SVN_INDEX] \in Nat
        /\ a.quote.teeTcbSvn2[TDX_MODULE_MAJOR_SVN_INDEX] \in Nat
        /\ \A i, j \in a.qeIdentity : i = j
        /\ \A item \in { a.tcbInfo } \union a.qeIdentity :
              /\ item.issueDate \in Int /\ item.nextUpdate \in Int
              /\ item.tcbEvaluationDataNumber \in Int
        /\ \A identity \in a.qeIdentity :
              /\ \A l \in identity.levels :
                    l.status \in IdentityStatuses /\ l.isvSvn \in Int /\ l.tcbDate \in Int
              /\ \A selection \in SUBSET identity.levels :
                    selection # {} =>
                      \E l \in selection : \A other \in selection \ {l} :
                          IdentityTcbLevelGreater(l, other)

\* What the parsers leave: a quote of one of two TEEs, a certificate that is malformed in one
\* of two ways, SVNs in vectors of one length.
ASSUME FormatsAssumption ==
    \A a \in Args :
        /\ a.quote.teeType \in { "SGX", "TDX" }
        /\ a.pckCert.format \in { "ok", "FormatException", "InvalidExtensionException" }
        /\ \A l \in a.tcbInfo.levels :
              /\ l.sgx \in [ SvnIndex -> Nat ] /\ l.pceSvn \in Nat
              /\ a.tcbInfo.id = "TDX" => l.tdx \in [ SvnIndex -> Nat ]

VARIABLES
    args,           \* the arguments of the call
    pc,             \* the check about to be made
    status,         \* the status the call returns, or that verify returned
    launch,         \* result of the evaluation of TEE_TCB_SVN (0 or 1 record)
    current,        \* result of the evaluation of TEE_TCB_SVN2
    verCollInfo,    \* the VerificationCollateralInfo object
    buffer          \* what the caller's buffer holds (0 or 1 record)

vars == <<args, pc, status, launch, current, verCollInfo, buffer>>

(***************************************************************************)
(* VerificationCollateralInfo.                                             *)
(***************************************************************************)
EmptyCollateralInfo ==
    [ filled |-> FALSE, issueDates |-> {}, nextUpdates |-> {}, tcbEvalNumbers |-> {},
      launchTcb |-> {}, currentTcb |-> {} ]

\* addTcbInfoData, addEnclaveIdentityData
AddCollateral(info, item) ==
    [ info EXCEPT !.issueDates     = @ \union { item.issueDate },
                  !.nextUpdates    = @ \union { item.nextUpdate },
                  !.tcbEvalNumbers = @ \union { item.tcbEvaluationDataNumber } ]

AdvisoriesFit(info) ==
    \A tcb \in info.launchTcb \union info.currentTcb :
        Cardinality(tcb.advisoryIds) <= MAX_ADVISORIES

\* printTCBStatus: defined on the statuses checkTcbLevel can return, and only
\* on them (it throws std::invalid_argument, which nobody catches, otherwise).
PrintTCBStatus(s) ==
    CASE s = "TCB_TD_RELAUNCH_ADVISED" -> "TDRelaunchAdvised"
      [] s = "TCB_TD_RELAUNCH_ADVISED_CONFIGURATION_NEEDED" ->
            "TDRelaunchAdvisedConfigurationNeeded"
      [] s \in EvaluatedStatuses -> CHOOSE e \in TcbInfoStatuses : ToStatus(e) = s

TcbEntry(evaluation, tcbStatus) ==
    [ tcbDate     |-> evaluation.tcbDate,
      advisoryIds |-> evaluation.advisoryIds,
      tcbStatus   |-> PrintTCBStatus(tcbStatus) ]

\* aggregateDataAndParseToVec
Aggregate(info) ==
    [ issueDateMin  |-> Earliest(info.issueDates),
      issueDateMax  |-> Latest(info.issueDates),
      expirationDate |-> Earliest(info.nextUpdates),
      tcbEvaluationDataNumber |-> Earliest(info.tcbEvalNumbers),
      launchTcb     |-> info.launchTcb,
      currentTcb    |-> info.currentTcb ]

(***************************************************************************)
(* The call.                                                               *)
(***************************************************************************)
Init ==
    /\ args \in Args
    /\ pc = "parameters"
    /\ status = "none"
    /\ launch = {}
    /\ current = {}
    /\ verCollInfo = EmptyCollateralInfo
    /\ buffer = {}

\* One check: either it holds and the next one is made, or the code returns
\* the given status. A return from QuoteVerifier::verify goes to "verified",
\* where the API function still looks at the collateral info.
Check(here, condition, error, exit, next) ==
    /\ pc = here
    /\ IF condition THEN pc' = next /\ UNCHANGED status
                    ELSE pc' = exit /\ status' = error
    /\ UNCHANGED <<args, launch, current, buffer>>

ApiCheck(here, condition, error, next) ==
    Check(here, condition, error, "returned", next) /\ UNCHANGED verCollInfo

VerifierCheck(here, condition, error, next) ==
    Check(here, condition, error, "verified", next) /\ UNCHANGED verCollInfo

CheckParameters ==
    ApiCheck("parameters", ParametersPresent(args), "MISSING_PARAMETERS", "buffer")

CheckBufferParameters ==
    ApiCheck("buffer", BufferParametersValid(args), "INVALID_PARAMETER", "quote")

ParseQuote ==
    ApiCheck("quote", args.quote.parses, "UNSUPPORTED_QUOTE_FORMAT", "crl")

ParsePckCrl ==
    ApiCheck("crl", args.crl.parses, "UNSUPPORTED_PCK_RL_FORMAT", "tcbInfo")

ParseTcbInfo ==
    ApiCheck("tcbInfo", args.tcbInfo.parses, "UNSUPPORTED_TCB_INFO_FORMAT", "qeIdentity")

ParseQeIdentity ==
    ApiCheck("qeIdentity", QeIdentityParses(args), "UNSUPPORTED_QE_IDENTITY_FORMAT", "pckCert")

ParsePckCert ==
    ApiCheck("pckCert", args.pckCert.format = "ok",
             IF args.pckCert.format = "FormatException"
             THEN "UNSUPPORTED_PCK_CERT_FORMAT" ELSE "INVALID_PCK_CERT",
             "pckSubject")

CheckPckSubject ==
    VerifierCheck("pckSubject", args.pckCert.subjectIsPck, "INVALID_PCK_CERT", "crlIssuer")

\* Fault: the CRL may come from any CA.
CheckCrlIssuer_AnyCA ==
    VerifierCheck("crlIssuer", args.crl.issuerHasCA, "INVALID_PCK_CRL", "revocation")

CheckCrlIssuer ==
    VerifierCheck("crlIssuer", IssuerMatches(args), "INVALID_PCK_CRL", "revocation")

CheckRevocation ==
    VerifierCheck("revocation", ~IsRevoked(args), "PCK_REVOKED", "tcbInfoMatch")

\* Fault: the PCE id of TCB info is not compared.
CheckTcbInfoMatches_NoPceId ==
    VerifierCheck("tcbInfoMatch", TeeMatches(args) /\ args.pckCert.fmspc = args.tcbInfo.fmspc,
                  "TCB_INFO_MISMATCH", "certificationData")

CheckTcbInfoMatches ==
    VerifierCheck("tcbInfoMatch", TeeMatches(args) /\ PlatformMatches(args),
                  "TCB_INFO_MISMATCH", "certificationData")

VerifyCertificationData ==
    VerifierCheck("certificationData", args.quote.certificationDataSizeMatches,
                  "UNSUPPORTED_QUOTE_FORMAT", "pckKey")

CheckPckKey ==
    VerifierCheck("pckKey", args.pckCert.pubKey # OffCurve, "INVALID_PCK_CERT", "tdxModule")

CheckTdxModule ==
    VerifierCheck("tdxModule", TdxModuleMatches(args), "TDX_MODULE_MISMATCH",
                  "qeReportSignature")

CheckQeReportSignature ==
    VerifierCheck("qeReportSignature", QeReportSigned(args),
                  "INVALID_QE_REPORT_SIGNATURE", "qeReportData")

\* Fault: the attestation key is not compared with the QE's report data.
CheckQeReportData_Skipped ==
    VerifierCheck("qeReportData", TRUE, "INVALID_QE_REPORT_DATA", "qeIdentityMatch")

CheckQeReportData ==
    VerifierCheck("qeReportData", AttestKeyBound(args), "INVALID_QE_REPORT_DATA", "qeIdentityMatch")

\* Fault: the identity's dates are not recorded.
CheckQeIdentity_NotRecorded ==
    VerifierCheck("qeIdentityMatch", QeIdentityMatches(args), "QE_IDENTITY_MISMATCH",
                  "attestKey")

\* With an identity that matches, its dates enter the collateral info now:
\* long before it is known whether the quote's own signature is valid.
CheckQeIdentity ==
    /\ Check("qeIdentityMatch", QeIdentityMatches(args), "QE_IDENTITY_MISMATCH",
             "verified", "attestKey")
    /\ IF QeIdentityMatches(args) /\ args.qeIdentity # {}
       THEN \E identity \in args.qeIdentity :
                verCollInfo' = AddCollateral(verCollInfo, identity)
       ELSE UNCHANGED verCollInfo

CheckAttestKey ==
    VerifierCheck("attestKey", args.quote.attestKey # OffCurve,
                  "UNSUPPORTED_QUOTE_FORMAT", "quoteSignature")

CheckQuoteSignature ==
    VerifierCheck("quoteSignature", QuoteSigned(args), "INVALID_QUOTE_SIGNATURE", "launchTcb")

EvaluateLaunchTcb ==
    /\ pc = "launchTcb"
    /\ launch' = Evaluate(args, args.quote.teeTcbSvn)
    /\ IF launch' = {}
       THEN pc' = "verified" /\ status' = "TCB_NOT_SUPPORTED"
       ELSE /\ pc' = IF HasCurrentTcb(args) THEN "currentTcb" ELSE "fill"
            /\ UNCHANGED status
    /\ UNCHANGED <<args, current, verCollInfo, buffer>>

EvaluateCurrentTcb ==
    /\ pc = "currentTcb"
    /\ current' = Evaluate(args, args.quote.teeTcbSvn2)
    /\ IF current' = {}
       THEN pc' = "verified" /\ status' = "TCB_NOT_SUPPORTED"
       ELSE pc' = "fill" /\ UNCHANGED status
    /\ UNCHANGED <<args, launch, verCollInfo, buffer>>

\* The end of checkTcbLevel. The launch status is replaced by the advice to
\* relaunch; the current record is the launch record when there is only one.
CurrentOrLaunch == IF HasCurrentTcb(args) THEN current ELSE launch

LaunchStatus(l, c) ==
    IF HasCurrentTcb(args) THEN CheckForRelaunch(l.tcbStatus, c.tcbStatus) ELSE l.tcbStatus

Fill(launchStatus, l, c) ==
    verCollInfo' = [ AddCollateral(verCollInfo, args.tcbInfo) EXCEPT
                       !.filled     = TRUE,
                       !.launchTcb  = { TcbEntry(l, launchStatus) },
                       !.currentTcb = { TcbEntry(c, c.tcbStatus) } ]

\* Fault: the buffer shows the launch status without the advice.
FillCollateralInfo_StatusBeforeAdvice ==
    /\ pc = "fill"
    /\ \E l \in launch, c \in CurrentOrLaunch :
          /\ status' = LaunchStatus(l, c)
          /\ Fill(l.tcbStatus, l, c)
    /\ pc' = "verified"
    /\ UNCHANGED <<args, launch, current, buffer>>

FillCollateralInfo ==
    /\ pc = "fill"
    /\ \E l \in launch, c \in CurrentOrLaunch :
          /\ status' = LaunchStatus(l, c)
          /\ Fill(LaunchStatus(l, c), l, c)
    /\ pc' = "verified"
    /\ UNCHANGED <<args, launch, current, buffer>>

\* Back in sgxAttestationVerifyQuoteEx. The size exception is thrown before
\* anything is copied.
ReturnStatus ==
    /\ pc = "verified"
    /\ pc' = "returned"
    /\ IF BufferRequested(args) /\ verCollInfo.filled
       THEN IF AdvisoriesFit(verCollInfo)
            THEN buffer' = { Aggregate(verCollInfo) } /\ UNCHANGED status
            ELSE status' = "INVALID_PARAMETER" /\ UNCHANGED buffer
       ELSE UNCHANGED <<status, buffer>>
    /\ UNCHANGED <<args, launch, current, verCollInfo>>

Next ==
    \/ CheckParameters
    \/ CheckBufferParameters
    \/ ParseQuote
    \/ ParsePckCrl
    \/ ParseTcbInfo
    \/ ParseQeIdentity
    \/ ParsePckCert
    \/ CheckPckSubject
    \/ CheckCrlIssuer
    \/ CheckRevocation
    \/ CheckTcbInfoMatches
    \/ VerifyCertificationData
    \/ CheckPckKey
    \/ CheckTdxModule
    \/ CheckQeReportSignature
    \/ CheckQeReportData
    \/ CheckQeIdentity
    \/ CheckAttestKey
    \/ CheckQuoteSignature
    \/ EvaluateLaunchTcb
    \/ EvaluateCurrentTcb
    \/ FillCollateralInfo
    \/ ReturnStatus

Spec == Init /\ [][Next]_vars

\* The call runs on its caller's thread and has no loop that waits.
FairSpec == Spec /\ WF_vars(Next)

(***************************************************************************)
(* Correctness.                                                            *)
(***************************************************************************)
Appraisal ==
    INSTANCE QuoteAppraisal WITH
        verdict <- IF pc = "returned" THEN status ELSE "none"

Checks ==
    { "parameters", "buffer", "quote", "crl", "tcbInfo", "qeIdentity", "pckCert",
      "pckSubject", "crlIssuer", "revocation", "tcbInfoMatch", "certificationData",
      "pckKey", "tdxModule", "qeReportSignature", "qeReportData", "qeIdentityMatch",
      "attestKey", "quoteSignature", "launchTcb", "currentTcb", "fill" }

ErrorStatuses ==
    { "MISSING_PARAMETERS", "INVALID_PARAMETER", "UNSUPPORTED_QUOTE_FORMAT",
      "UNSUPPORTED_PCK_RL_FORMAT", "UNSUPPORTED_TCB_INFO_FORMAT",
      "UNSUPPORTED_QE_IDENTITY_FORMAT", "UNSUPPORTED_PCK_CERT_FORMAT",
      "INVALID_PCK_CERT", "INVALID_PCK_CRL", "PCK_REVOKED", "TCB_INFO_MISMATCH",
      "TDX_MODULE_MISMATCH", "INVALID_QE_REPORT_SIGNATURE", "INVALID_QE_REPORT_DATA",
      "QE_IDENTITY_MISMATCH", "INVALID_QUOTE_SIGNATURE", "TCB_NOT_SUPPORTED" }

\* The state has the shape of the code's locals: a status is set exactly when a
\* return is under way, the collateral info is filled only at the end of
\* checkTcbLevel, the buffer is written only by the return.
TypeOK ==
    /\ args \in Args
    /\ pc \in Checks \union { "verified", "returned" }
    /\ status \in ErrorStatuses \union TcbVerdicts \union { "none" }
    /\ status = "none" <=> pc \in Checks
    /\ verCollInfo.filled \in BOOLEAN
    /\ verCollInfo.filled => status # "none" /\ launch # {}
    /\ buffer # {} => pc = "returned"

\* No TCB verdict, not even a bad one, is given for evidence whose chain of
\* trust or whose collateral is broken anywhere: QuoteVerifier::verify may
\* not skip a check on any path to checkTcbLevel.
ChainOfTrust == status \in TcbVerdicts \union { "TCB_NOT_SUPPORTED" } => Acceptable(args)

\* What the code says about a part of the evidence it says only after it has
\* authenticated that part: the QE report by the PCK key, the attestation key
\* by the QE report, revocation by a CRL of the PCK certificate's own issuer.
AuthenticatedBeforeJudged ==
    /\ status = "PCK_REVOKED" => IssuerMatches(args)
    /\ status \in { "INVALID_QE_REPORT_DATA", "QE_IDENTITY_MISMATCH" } =>
            QeReportSigned(args) /\ ~IsRevoked(args)
    /\ status = "INVALID_QUOTE_SIGNATURE" => QeReportSigned(args) /\ AttestKeyBound(args)

\* A part that is revoked or out of date is never hidden by a better rated one:
\* neither the QE, nor the TDX module, nor the platform, and no relaunch is
\* advised that would leave the QE out of date (TDRelaunchCheck only sees the
\* two converged statuses).
QeStatuses == { l.status : l \in Appraisal!QeLevels(args) }
LaunchModuleStatuses ==
    { l.status : l \in Appraisal!ModuleLevels(args, args.quote.teeTcbSvn) }

WeakestPartDecides ==
    status \in TcbVerdicts =>
        /\ "Revoked" \in QeStatuses \union LaunchModuleStatuses => status = "TCB_REVOKED"
        /\ "OutOfDate" \in QeStatuses =>
                status \in { "TCB_OUT_OF_DATE", "TCB_OUT_OF_DATE_CONFIGURATION_NEEDED",
                             "TCB_REVOKED" }
        /\ status = "OK" => QeStatuses \union LaunchModuleStatuses \subseteq { "UpToDate" }

\* Advice to relaunch is given only when the TD itself is behind the platform
\* it runs on: the two TEE_TCB_SVNs of a TD report 1.5 differ, and the caller
\* can see in its buffer that the current TCB needs no update.
RelaunchAdviceSound ==
    status \in RelaunchStatuses =>
        /\ HasCurrentTcb(args)
        /\ args.quote.teeTcbSvn # args.quote.teeTcbSvn2
        /\ \A b \in buffer : \A c \in b.currentTcb :
              c.tcbStatus \in TcbInfoStatuses \ { "OutOfDate", "OutOfDateConfigurationNeeded",
                                                 "Revoked" }

\* The caller's buffer and the returned status tell the same story, and the
\* buffer is written if and only if there is a TCB verdict to explain.
BufferAgreesWithVerdict ==
    /\ buffer # {} => status \in TcbVerdicts
    /\ \A b \in buffer : \A l \in b.launchTcb :
          l.tcbStatus = PrintTCBStatus(status)
    /\ pc = "returned" /\ BufferRequested(args) /\ status \in TcbVerdicts => buffer # {}

\* The dates of the buffer span all the collateral the verdict rests on.
BufferSpansCollateral ==
    \A b \in buffer :
        \A item \in Appraisal!Collateral(args) :
            /\ b.expirationDate <= item.nextUpdate
            /\ b.issueDateMin <= item.issueDate /\ item.issueDate <= b.issueDateMax
            /\ b.tcbEvaluationDataNumber <= item.tcbEvaluationDataNumber

\* The call as a whole does what QuoteAppraisal promises.
ImplementsAppraisal == Appraisal!Spec

\* The statuses QuoteVerification.h lists for sgxAttestationVerifyQuoteEx, less
\* their STATUS_ prefix; STATUS_INVALID_PCK_RL stands for STATUS_INVALID_PCK_CRL.
DocumentedStatuses ==
    { "OK", "INVALID_PARAMETER", "MISSING_PARAMETERS", "UNSUPPORTED_QUOTE_FORMAT",
      "UNSUPPORTED_PCK_CERT_FORMAT", "INVALID_PCK_CERT", "UNSUPPORTED_PCK_RL_FORMAT",
      "INVALID_PCK_CRL", "PCK_REVOKED", "UNSUPPORTED_TCB_INFO_FORMAT", "TCB_INFO_MISMATCH",
      "TCB_OUT_OF_DATE", "TCB_REVOKED", "TCB_CONFIGURATION_NEEDED",
      "TCB_OUT_OF_DATE_CONFIGURATION_NEEDED", "TCB_SW_HARDENING_NEEDED",
      "TCB_CONFIGURATION_AND_SW_HARDENING_NEEDED", "TCB_NOT_SUPPORTED",
      "TCB_UNRECOGNIZED_STATUS", "TCB_TD_RELAUNCH_ADVISED",
      "TCB_TD_RELAUNCH_ADVISED_CONFIGURATION_NEEDED", "INVALID_QE_REPORT_SIGNATURE",
      "INVALID_QE_REPORT_DATA", "UNSUPPORTED_QE_IDENTITY_FORMAT", "QE_IDENTITY_MISMATCH",
      "INVALID_QUOTE_SIGNATURE" }

\* The header's list of return values is complete (it is not: the code also
\* returns STATUS_TDX_MODULE_MISMATCH).
ReturnsDocumentedStatus == pc = "returned" => status \in DocumentedStatuses

===============================================================================
