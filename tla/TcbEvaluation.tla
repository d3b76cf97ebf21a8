---------------------------- MODULE TcbEvaluation ----------------------------
(***************************************************************************)
(* The evaluation of a platform's TCB against TCB Info, TDX module         *)
(* identities and QE identity (Verifiers/Checks/EvaluateTcb.cpp,           *)
(* TDRelaunchCheck.cpp, TdxModuleCheck.cpp) and the order in which the     *)
(* parsed collateral presents its levels (operator> of TcbLevel,           *)
(* TdxModuleTcbLevel and IdentityTcbLevel).                                *)
(*                                                                         *)
(* Every operator is pure: the state machines call them from their steps.  *)
(* SVN vectors are functions on SvnIndex, advisory lists are sets of       *)
(* advisory ids (VerificationCollateralInfo stores them in a std::set),    *)
(* dates are integers.                                                     *)
(***************************************************************************)
EXTENDS Integers, FiniteSets, Sequences

CONSTANT
    CPUSVN_BYTE_LEN     \* number of SVN components (16 in the code)

ASSUME SvnLengthAssumption ==
    CPUSVN_BYTE_LEN \in Nat /\ CPUSVN_BYTE_LEN >= 2

SvnIndex == 0 .. CPUSVN_BYTE_LEN - 1

TDX_MODULE_MINOR_SVN_INDEX == 0
TDX_MODULE_MAJOR_SVN_INDEX == 1

(***************************************************************************)
(* Statuses.                                                               *)
(***************************************************************************)

\* The tcbStatus values the TcbLevel parser accepts.
TcbInfoStatuses ==
    { "UpToDate", "OutOfDate", "ConfigurationNeeded", "Revoked",
      "OutOfDateConfigurationNeeded", "SWHardeningNeeded",
      "ConfigurationAndSWHardeningNeeded" }

\* The tcbStatus values the IdentityTcbLevel parser accepts.
IdentityStatuses == { "UpToDate", "OutOfDate", "Revoked" }

\* VALID_TDX_MODULE_STATUSES: the strings tdxEvaluateTCB can map. The parser
\* of TDX module levels accepts any string; the others make the lookup throw.
TdxModuleStatuses == { "UpToDate", "OutOfDate", "Revoked" }

\* EVALUATION_STATUS_TO_STATUS_MAP
ToStatus(evaluationStatus) ==
    CASE evaluationStatus = "NotSupported"        -> "TCB_NOT_SUPPORTED"
      [] evaluationStatus = "UpToDate"            -> "OK"
      [] evaluationStatus = "OutOfDate"           -> "TCB_OUT_OF_DATE"
      [] evaluationStatus = "ConfigurationNeeded" -> "TCB_CONFIGURATION_NEEDED"
      [] evaluationStatus = "Revoked"             -> "TCB_REVOKED"
      [] evaluationStatus = "OutOfDateConfigurationNeeded" ->
            "TCB_OUT_OF_DATE_CONFIGURATION_NEEDED"
      [] evaluationStatus = "SWHardeningNeeded"   -> "TCB_SW_HARDENING_NEEDED"
      [] evaluationStatus = "ConfigurationAndSWHardeningNeeded" ->
            "TCB_CONFIGURATION_AND_SW_HARDENING_NEEDED"

\* What a completed evaluation of one SVN set can yield.
EvaluatedStatuses == { ToStatus(s) : s \in TcbInfoStatuses }

RelaunchStatuses ==
    { "TCB_TD_RELAUNCH_ADVISED", "TCB_TD_RELAUNCH_ADVISED_CONFIGURATION_NEEDED" }

\* What checkTcbLevel returns once it has filled the collateral info:
\* the domain of printTCBStatus.
TcbVerdicts == EvaluatedStatuses \union RelaunchStatuses

(***************************************************************************)
(* Matching and ordering of levels.                                        *)
(***************************************************************************)

AreSvnsHigherOrEqual(svns, levelSvns, startIndex) ==
    \A i \in startIndex .. CPUSVN_BYTE_LEN - 1 : svns[i] >= levelSvns[i]

\* std::vector's lexicographic operator>
SvnsGreater(a, b) ==
    \E i \in SvnIndex : a[i] > b[i] /\ \A j \in 0 .. i - 1 : a[j] = b[j]

\* TcbLevel::operator>; tcbInfoId is TDX only for TCB Info version 3.
TcbLevelGreater(tcbInfoId, a, b) ==
    \/ SvnsGreater(a.sgx, b.sgx)
    \/ /\ a.sgx = b.sgx
       /\ \/ a.pceSvn > b.pceSvn
          \/ /\ tcbInfoId = "TDX"
             /\ a.pceSvn = b.pceSvn
             /\ SvnsGreater(a.tdx, b.tdx)

\* Fault: the set is ordered by std::less, as a set is by default.
FirstTcbLevel_Ascending(tcbInfoId, levels) ==
    CHOOSE l \in levels :
        \A other \in levels \ {l} : TcbLevelGreater(tcbInfoId, other, l)

\* The first element of a std::set ordered by std::greater<TcbLevel>.
FirstTcbLevel(tcbInfoId, levels) ==
    CHOOSE l \in levels :
        \A other \in levels \ {l} : TcbLevelGreater(tcbInfoId, l, other)

\* The levels that pass the SGX part of the loops in sgx/tdxEvaluateTCB.
SgxMatchingLevels(tcbInfo, platform) ==
    { l \in tcbInfo.levels :
        /\ AreSvnsHigherOrEqual(platform.sgx, l.sgx, 0)
        /\ platform.pceSvn >= l.pceSvn }

\* A TDX module with a major version has its own identity: components 0 and 1
\* of TEE_TCB_SVN are then left to it.
StartIndex(teeTcbSvns) == IF teeTcbSvns[TDX_MODULE_MAJOR_SVN_INDEX] > 0 THEN 2 ELSE 0

TdxMatchingLevels(tcbInfo, platform, teeTcbSvns) ==
    { l \in SgxMatchingLevels(tcbInfo, platform) :
        AreSvnsHigherOrEqual(teeTcbSvns, l.tdx, StartIndex(teeTcbSvns)) }

(***************************************************************************)
(* EnclaveIdentity::getTcbLevel: the first level, in descending order of   *)
(* (isvSvn, tcbDate), whose isvSvn does not exceed the given one. A throw  *)
(* of StatusNotSupportedException is the empty set of candidates.          *)
(***************************************************************************)
IdentityTcbLevelGreater(a, b) ==
    \/ a.isvSvn > b.isvSvn
    \/ a.isvSvn = b.isvSvn /\ a.tcbDate > b.tcbDate

IdentityCandidates(identity, isvSvn) ==
    { l \in identity.levels : l.isvSvn <= isvSvn }

GetIdentityTcbLevel(identity, isvSvn) ==
    LET candidates == IdentityCandidates(identity, isvSvn)
    IN  CHOOSE l \in candidates :
            \A other \in candidates \ {l} : IdentityTcbLevelGreater(l, other)

(***************************************************************************)
(* TDX module identities.                                                  *)
(***************************************************************************)

\* Positions of the identities for a module version ("TDX_" + hex version).
TdxModuleIdentityPositions(identities, version) ==
    { i \in DOMAIN identities : identities[i].version = version }

\* std::find_if returns the first one.
FindTdxModuleIdentity(identities, version) ==
    LET found == TdxModuleIdentityPositions(identities, version)
    IN  identities[CHOOSE i \in found : \A j \in found : i <= j]

\* Levels are ordered by isvSvn alone, descending.
TdxModuleCandidates(identity, minorSvn) ==
    { l \in identity.levels : minorSvn >= l.isvSvn }

TdxModuleTcbLevel(identity, minorSvn) ==
    LET candidates == TdxModuleCandidates(identity, minorSvn)
    IN  CHOOSE l \in candidates : \A other \in candidates : l.isvSvn >= other.isvSvn

(***************************************************************************)
(* Convergence of the platform's status with its components' statuses.     *)
(***************************************************************************)

\* Fault: out of date is looked for first and hides a revoked component.
ConvergeEvaluation_OutOfDateFirst(platformStatus, componentStatuses) ==
    CASE "OutOfDate" \in componentStatuses -> "OutOfDate"
      [] "OutOfDate" \notin componentStatuses /\ "Revoked" \in componentStatuses -> "Revoked"
      [] OTHER -> platformStatus

ConvergeEvaluation(platformStatus, componentStatuses) ==
    CASE "Revoked" \in componentStatuses -> "Revoked"
      [] /\ "Revoked" \notin componentStatuses
         /\ "OutOfDate" \in componentStatuses
         /\ platformStatus \in { "UpToDate", "SWHardeningNeeded" } -> "OutOfDate"
      [] /\ "Revoked" \notin componentStatuses
         /\ "OutOfDate" \in componentStatuses
         /\ platformStatus \in { "ConfigurationNeeded",
                                 "ConfigurationAndSWHardeningNeeded" } ->
            "OutOfDateConfigurationNeeded"
      [] OTHER -> platformStatus

ConvergeTcbStatuses(platformStatus, componentStatuses) ==
    ToStatus(ConvergeEvaluation(platformStatus, componentStatuses))

Earliest(dates) == CHOOSE d \in dates : \A e \in dates : d <= e
Latest(dates)   == CHOOSE d \in dates : \A e \in dates : d >= e

(***************************************************************************)
(* The two evaluations. The code returns an evaluation status and three    *)
(* out parameters; here the result is the set of at most one record, empty *)
(* when the evaluation returns STATUS_TCB_NOT_SUPPORTED (no level matches, *)
(* or an exception is caught).                                             *)
(***************************************************************************)

\* applyQeIdentity: the QE level, as a set of zero (no identity given) or one
\* component, or a failure when the QE's SVN is below every level.
QeSupported(qeIdentity, qeSvn) ==
    \A identity \in qeIdentity : IdentityCandidates(identity, qeSvn) # {}

QeComponents(qeIdentity, qeSvn) ==
    { GetIdentityTcbLevel(identity, qeSvn) : identity \in qeIdentity }

FinalizeTcbEvaluation(platformLevel, components) ==
    [ tcbStatus   |-> ConvergeTcbStatuses(platformLevel.status,
                                          { c.status : c \in components }),
      tcbDate     |-> Earliest({platformLevel.tcbDate} \union { c.tcbDate : c \in components }),
      advisoryIds |-> platformLevel.advisoryIds \union
                      UNION { c.advisoryIds : c \in components } ]

SgxEvaluateTCB(platform, qeSvn, tcbInfo, qeIdentity) ==
    LET matching == SgxMatchingLevels(tcbInfo, platform)
    IN  IF matching = {} \/ ~QeSupported(qeIdentity, qeSvn)
        THEN {}
        ELSE { FinalizeTcbEvaluation(FirstTcbLevel(tcbInfo.id, matching),
                                     QeComponents(qeIdentity, qeSvn)) }

\* The TDX module's component: nothing for module version 0, otherwise the
\* level of the first identity of that version.
TdxModuleComponents(tcbInfo, teeTcbSvns) ==
    LET version == teeTcbSvns[TDX_MODULE_MAJOR_SVN_INDEX]
    IN  IF version = 0
        THEN {}
        ELSE { TdxModuleTcbLevel(FindTdxModuleIdentity(tcbInfo.tdxModuleIdentities, version),
                                 teeTcbSvns[TDX_MODULE_MINOR_SVN_INDEX]) }

TdxModuleSupported(tcbInfo, teeTcbSvns) ==
    LET version    == teeTcbSvns[TDX_MODULE_MAJOR_SVN_INDEX]
        identities == tcbInfo.tdxModuleIdentities
        minorSvn   == teeTcbSvns[TDX_MODULE_MINOR_SVN_INDEX]
    IN  version > 0 =>
            /\ TdxModuleIdentityPositions(identities, version) # {}
            /\ TdxModuleCandidates(FindTdxModuleIdentity(identities, version), minorSvn) # {}
            /\ \A c \in TdxModuleComponents(tcbInfo, teeTcbSvns) : c.status \in TdxModuleStatuses

TdxEvaluateTCB(platform, qeSvn, teeTcbSvns, tcbInfo, qeIdentity) ==
    LET matching == TdxMatchingLevels(tcbInfo, platform, teeTcbSvns)
    IN  IF \/ matching = {}
           \/ ~TdxModuleSupported(tcbInfo, teeTcbSvns)
           \/ ~QeSupported(qeIdentity, qeSvn)
        THEN {}
        ELSE { FinalizeTcbEvaluation(FirstTcbLevel(tcbInfo.id, matching),
                                     TdxModuleComponents(tcbInfo, teeTcbSvns)
                                        \union QeComponents(qeIdentity, qeSvn)) }

(***************************************************************************)
(* TD relaunch: the TD was launched on an outdated TCB that has since been *)
(* updated under it (TD preserving update).                                *)
(***************************************************************************)
IsConfigurationNeeded(status) ==
    status \in { "TCB_CONFIGURATION_NEEDED", "TCB_OUT_OF_DATE_CONFIGURATION_NEEDED",
                 "TCB_CONFIGURATION_AND_SW_HARDENING_NEEDED",
                 "TCB_TD_RELAUNCH_ADVISED_CONFIGURATION_NEEDED" }

\* Fault: the current TCB is only asked not to be revoked.
RelaunchHelps_CurrentNotRevoked(launchStatus, currentStatus) ==
    /\ launchStatus \in { "TCB_OUT_OF_DATE", "TCB_OUT_OF_DATE_CONFIGURATION_NEEDED" }
    /\ currentStatus # "TCB_REVOKED"

RelaunchHelps(launchStatus, currentStatus) ==
    /\ launchStatus \in { "TCB_OUT_OF_DATE", "TCB_OUT_OF_DATE_CONFIGURATION_NEEDED" }
    /\ currentStatus \in { "OK", "TCB_SW_HARDENING_NEEDED", "TCB_CONFIGURATION_NEEDED",
                           "TCB_CONFIGURATION_AND_SW_HARDENING_NEEDED" }

CheckForRelaunch(launchStatus, currentStatus) ==
    CASE ~RelaunchHelps(launchStatus, currentStatus) -> launchStatus
      [] /\ RelaunchHelps(launchStatus, currentStatus)
         /\ IsConfigurationNeeded(launchStatus) \/ IsConfigurationNeeded(currentStatus) ->
            "TCB_TD_RELAUNCH_ADVISED_CONFIGURATION_NEEDED"
      [] OTHER -> "TCB_TD_RELAUNCH_ADVISED"

===============================================================================
