---------------------------- MODULE QuoteAppraisal ----------------------------
(***************************************************************************)
(* What sgxAttestationVerifyQuoteEx promises, without the order in which   *)
(* it works: one step takes a call from pending to its verdict. A rejected *)
(* call names one of its actual defects; an accepted one is rated from a   *)
(* TCB level that no other matching level dominates, by flags (revoked,    *)
(* out of date, configuration needed, software hardening needed) rather    *)
(* than by the code's tables; the caller's buffer is written only for a    *)
(* rated call, all at once.                                                *)
(***************************************************************************)
EXTENDS QuoteChecks

CONSTANTS Args, MAX_ADVISORIES

VARIABLES args, verdict, buffer

(***************************************************************************)
(* The defects a rejection may name.                                       *)
(***************************************************************************)
HasDefect(a, error) ==
    CASE error = "MISSING_PARAMETERS" -> ~ParametersPresent(a)
      [] error = "INVALID_PARAMETER" -> ~BufferParametersValid(a)
      [] error = "UNSUPPORTED_QUOTE_FORMAT" ->
            \/ ~a.quote.parses
            \/ ~a.quote.certificationDataSizeMatches
            \/ a.quote.attestKey = OffCurve
      [] error = "UNSUPPORTED_PCK_RL_FORMAT" -> ~a.crl.parses
      [] error = "UNSUPPORTED_TCB_INFO_FORMAT" -> ~a.tcbInfo.parses
      [] error = "UNSUPPORTED_QE_IDENTITY_FORMAT" -> ~QeIdentityParses(a)
      [] error = "UNSUPPORTED_PCK_CERT_FORMAT" -> a.pckCert.format = "FormatException"
      [] error = "INVALID_PCK_CERT" ->
            \/ a.pckCert.format = "InvalidExtensionException"
            \/ ~a.pckCert.subjectIsPck
            \/ a.pckCert.pubKey = OffCurve
      [] error = "INVALID_PCK_CRL" -> ~IssuerMatches(a)
      [] error = "PCK_REVOKED" -> IsRevoked(a)
      [] error = "TCB_INFO_MISMATCH" -> ~(TeeMatches(a) /\ PlatformMatches(a))
      [] error = "TDX_MODULE_MISMATCH" -> ~TdxModuleMatches(a)
      [] error = "INVALID_QE_REPORT_SIGNATURE" -> ~QeReportSigned(a)
      [] error = "INVALID_QE_REPORT_DATA" -> ~AttestKeyBound(a)
      [] error = "QE_IDENTITY_MISMATCH" -> ~QeIdentityMatches(a)
      [] error = "INVALID_QUOTE_SIGNATURE" -> ~QuoteSigned(a)

Defects ==
    { "MISSING_PARAMETERS", "INVALID_PARAMETER", "UNSUPPORTED_QUOTE_FORMAT",
      "UNSUPPORTED_PCK_RL_FORMAT", "UNSUPPORTED_TCB_INFO_FORMAT",
      "UNSUPPORTED_QE_IDENTITY_FORMAT", "UNSUPPORTED_PCK_CERT_FORMAT",
      "INVALID_PCK_CERT", "INVALID_PCK_CRL", "PCK_REVOKED", "TCB_INFO_MISMATCH",
      "TDX_MODULE_MISMATCH", "INVALID_QE_REPORT_SIGNATURE", "INVALID_QE_REPORT_DATA",
      "QE_IDENTITY_MISMATCH", "INVALID_QUOTE_SIGNATURE" }

(***************************************************************************)
(* Ratings. A status is a set of flags.                                    *)
(***************************************************************************)
Flags(status) ==
    CASE status = "UpToDate"                     -> {}
      [] status = "OutOfDate"                    -> { "outOfDate" }
      [] status = "ConfigurationNeeded"          -> { "configuration" }
      [] status = "SWHardeningNeeded"            -> { "hardening" }
      [] status = "OutOfDateConfigurationNeeded" -> { "outOfDate", "configuration" }
      [] status = "ConfigurationAndSWHardeningNeeded" -> { "configuration", "hardening" }
      [] status = "Revoked"                      -> { "revoked" }

\* Hardening cannot help a platform that is out of date, nothing helps one
\* that is revoked.
Normalised(flags) ==
    CASE "revoked" \in flags   -> { "revoked" }
      [] "outOfDate" \in flags /\ "revoked" \notin flags -> flags \ { "hardening" }
      [] OTHER                 -> flags

\* A level all of whose SVNs another level reaches, and one of them exceeds.
Dominates(a, tcbInfoId, x, y) ==
    /\ x # y
    /\ AreSvnsHigherOrEqual(x.sgx, y.sgx, 0)
    /\ x.pceSvn >= y.pceSvn
    /\ tcbInfoId = "TDX" => AreSvnsHigherOrEqual(x.tdx, y.tdx, 0)

PlatformLevels(a, teeTcbSvns) ==
    LET matching == IF a.quote.teeType = "SGX"
                    THEN SgxMatchingLevels(a.tcbInfo, a.pckCert.tcb)
                    ELSE TdxMatchingLevels(a.tcbInfo, a.pckCert.tcb, teeTcbSvns)
    IN  { l \in matching : ~\E m \in matching : Dominates(a, a.tcbInfo.id, m, l) }

\* The levels of the other components: the QE, and the TDX module of a quote
\* whose TEE_TCB_SVN carries a module version.
QeLevels(a) ==
    UNION { { l \in identity.levels :
                /\ l.isvSvn <= a.quote.qeReport.isvSvn
                /\ \A m \in identity.levels :
                      m.isvSvn <= a.quote.qeReport.isvSvn =>
                        m.isvSvn < l.isvSvn \/ (m.isvSvn = l.isvSvn /\ m.tcbDate <= l.tcbDate) }
            : identity \in a.qeIdentity }

ModuleLevels(a, teeTcbSvns) ==
    IF a.quote.teeType = "SGX" THEN {} ELSE TdxModuleComponents(a.tcbInfo, teeTcbSvns)

Ratable(a, teeTcbSvns) ==
    /\ PlatformLevels(a, teeTcbSvns) # {}
    /\ a.qeIdentity # {} => QeLevels(a) # {}
    /\ a.quote.teeType = "TDX" => TdxModuleSupported(a.tcbInfo, teeTcbSvns)

\* The rating from one platform level: the flags of the components matter
\* only as far as they say out of date or revoked.
Rating(a, teeTcbSvns, level) ==
    LET components == QeLevels(a) \union ModuleLevels(a, teeTcbSvns)
    IN  [ flags |-> Normalised(Flags(level.status) \union
                               ((UNION { Flags(c.status) : c \in components })
                                   \intersect { "outOfDate", "revoked" })),
          tcbDate |-> Earliest({ level.tcbDate } \union { c.tcbDate : c \in components }),
          advisoryIds |-> level.advisoryIds \union UNION { c.advisoryIds : c \in components } ]

\* A relaunch is advised when it would bring an outdated TD up to date.
Verdict(launch, current) ==
    IF /\ "outOfDate" \in launch
       /\ current \intersect { "outOfDate", "revoked" } = {}
    THEN IF "configuration" \in launch \union current
         THEN "TCB_TD_RELAUNCH_ADVISED_CONFIGURATION_NEEDED"
         ELSE "TCB_TD_RELAUNCH_ADVISED"
    ELSE CHOOSE s \in EvaluatedStatuses :
            \E e \in TcbInfoStatuses : ToStatus(e) = s /\ Flags(e) = launch

(***************************************************************************)
(* What the caller's buffer receives: the span of the collateral used, and *)
(* both ratings.                                                           *)
(***************************************************************************)
Fits(rating) == Cardinality(rating.advisoryIds) <= MAX_ADVISORIES

Collateral(a) == { a.tcbInfo } \union a.qeIdentity

BufferDescribes(b, a, v, launch, current) ==
    LET items == Collateral(a)
    IN  /\ b.issueDateMin = Earliest({ i.issueDate : i \in items })
        /\ b.issueDateMax = Latest({ i.issueDate : i \in items })
        /\ b.expirationDate = Earliest({ i.nextUpdate : i \in items })
        /\ b.tcbEvaluationDataNumber = Earliest({ i.tcbEvaluationDataNumber : i \in items })
        /\ \E l \in b.launchTcb, c \in b.currentTcb :
            /\ l.tcbDate = launch.tcbDate /\ l.advisoryIds = launch.advisoryIds
            /\ c.tcbDate = current.tcbDate /\ c.advisoryIds = current.advisoryIds
            /\ l.tcbStatus \in TcbInfoStatuses => ToStatus(l.tcbStatus) = v
            /\ l.tcbStatus \notin TcbInfoStatuses => v \in RelaunchStatuses
            /\ Flags(c.tcbStatus) = current.flags

(***************************************************************************)
(* The specification.                                                      *)
(***************************************************************************)
Init == args \in Args /\ verdict = "none" /\ buffer = {}

Reject ==
    /\ verdict = "none"
    /\ ~Acceptable(args)
    /\ verdict' \in { e \in Defects : HasDefect(args, e) }
    /\ UNCHANGED <<args, buffer>>

\* SVNs below every known level.
RejectUnratable ==
    /\ verdict = "none"
    /\ Acceptable(args)
    /\ \/ ~Ratable(args, args.quote.teeTcbSvn)
       \/ HasCurrentTcb(args) /\ ~Ratable(args, args.quote.teeTcbSvn2)
    /\ verdict' = "TCB_NOT_SUPPORTED"
    /\ UNCHANGED <<args, buffer>>

Rate ==
    /\ verdict = "none"
    /\ Acceptable(args)
    /\ Ratable(args, args.quote.teeTcbSvn)
    /\ HasCurrentTcb(args) => Ratable(args, args.quote.teeTcbSvn2)
    /\ LET currentSvns == IF HasCurrentTcb(args) THEN args.quote.teeTcbSvn2
                                                 ELSE args.quote.teeTcbSvn
       IN  \E l \in PlatformLevels(args, args.quote.teeTcbSvn),
              c \in PlatformLevels(args, currentSvns) :
             LET launch  == Rating(args, args.quote.teeTcbSvn, l)
                 current == Rating(args, currentSvns, c)
                 v       == Verdict(launch.flags, current.flags)
             IN  IF ~BufferRequested(args)
                 THEN verdict' = v /\ UNCHANGED buffer
                 ELSE \/ /\ verdict' = v
                         /\ Cardinality(buffer') = 1
                         /\ \A b \in buffer' : BufferDescribes(b, args, v, launch, current)
                      \/ /\ ~Fits(launch) \/ ~Fits(current)
                         /\ verdict' = "INVALID_PARAMETER"
                         /\ UNCHANGED buffer
    /\ UNCHANGED args

Next == Reject \/ RejectUnratable \/ Rate

\* Every call returns; the fairness it takes is the implementation's.
Spec ==
    /\ Init /\ [][Next]_<<args, verdict, buffer>>
    /\ <>(verdict # "none")

===============================================================================
