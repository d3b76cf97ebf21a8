----------------------- MODULE QuoteVerification_proofs -----------------------
(***************************************************************************)
(* Proofs about one call of sgxAttestationVerifyQuoteEx, for every set of  *)
(* calls, every number of SVN components and every advisory limit.         *)
(***************************************************************************)
EXTENDS QuoteVerification, FiniteSetTheorems, TLAPS

(***************************************************************************)
(* What has been established when the call reaches a check. ReachedX is    *)
(* the set of the checks from X on, in the order of the code.              *)
(***************************************************************************)
ReachedFill              == { "fill", "currentTcb" }
ReachedLaunchTcb         == { "launchTcb" } \union ReachedFill
ReachedQuoteSignature    == { "quoteSignature" } \union ReachedLaunchTcb
ReachedAttestKey         == { "attestKey" } \union ReachedQuoteSignature
ReachedQeIdentityMatch   == { "qeIdentityMatch" } \union ReachedAttestKey
ReachedQeReportData      == { "qeReportData" } \union ReachedQeIdentityMatch
ReachedQeReportSignature == { "qeReportSignature" } \union ReachedQeReportData
ReachedTdxModule         == { "tdxModule" } \union ReachedQeReportSignature
ReachedPckKey            == { "pckKey" } \union ReachedTdxModule
ReachedCertificationData == { "certificationData" } \union ReachedPckKey
ReachedTcbInfoMatch      == { "tcbInfoMatch" } \union ReachedCertificationData
ReachedRevocation        == { "revocation" } \union ReachedTcbInfoMatch
ReachedCrlIssuer         == { "crlIssuer" } \union ReachedRevocation
ReachedPckSubject        == { "pckSubject" } \union ReachedCrlIssuer
ReachedPckCert           == { "pckCert" } \union ReachedPckSubject
ReachedQeIdentity        == { "qeIdentity" } \union ReachedPckCert
ReachedTcbInfo           == { "tcbInfo" } \union ReachedQeIdentity
ReachedCrl               == { "crl" } \union ReachedTcbInfo
ReachedQuote             == { "quote" } \union ReachedCrl
ReachedBuffer            == { "buffer" } \union ReachedQuote

\* The conditions of WellFormed.
FormatsChecked ==
    /\ pc \in ReachedBuffer => ParametersPresent(args)
    /\ pc \in ReachedQuote => BufferParametersValid(args)
    /\ pc \in ReachedCrl => args.quote.parses
    /\ pc \in ReachedTcbInfo => args.crl.parses
    /\ pc \in ReachedQeIdentity => args.tcbInfo.parses
    /\ pc \in ReachedPckCert => QeIdentityParses(args)
    /\ pc \in ReachedPckSubject => args.pckCert.format = "ok"
    /\ pc \in ReachedPckKey => args.quote.certificationDataSizeMatches

\* The conditions of Genuine and of CollateralMatches.
EvidenceChecked ==
    /\ pc \in ReachedCrlIssuer => args.pckCert.subjectIsPck
    /\ pc \in ReachedRevocation => IssuerMatches(args)
    /\ pc \in ReachedTcbInfoMatch => ~IsRevoked(args)
    /\ pc \in ReachedCertificationData => TeeMatches(args) /\ PlatformMatches(args)
    /\ pc \in ReachedTdxModule => args.pckCert.pubKey # OffCurve
    /\ pc \in ReachedQeReportSignature => TdxModuleMatches(args)
    /\ pc \in ReachedQeReportData => QeReportSigned(args)
    /\ pc \in ReachedQeIdentityMatch => AttestKeyBound(args)
    /\ pc \in ReachedAttestKey => QeIdentityMatches(args)
    /\ pc \in ReachedQuoteSignature => args.quote.attestKey # OffCurve
    /\ pc \in ReachedLaunchTcb => QuoteSigned(args)

\* The inductive invariant: what the position in the call says of the
\* arguments, and what the status says of them once it is set. Neither
\* property is inductive without the first two conjuncts.
IInv == FormatsChecked /\ EvidenceChecked /\ ChainOfTrust /\ AuthenticatedBeforeJudged

(***************************************************************************)
(* Statuses.                                                               *)
(***************************************************************************)

\* The TCB verdicts, one by one.
LEMMA EvaluatedStatusesListed ==
    EvaluatedStatuses =
        { "OK", "TCB_OUT_OF_DATE", "TCB_CONFIGURATION_NEEDED", "TCB_REVOKED",
          "TCB_OUT_OF_DATE_CONFIGURATION_NEEDED", "TCB_SW_HARDENING_NEEDED",
          "TCB_CONFIGURATION_AND_SW_HARDENING_NEEDED" }
  BY DEF EvaluatedStatuses, TcbInfoStatuses, ToStatus

\* The two relaunch statuses are the only other ones.
LEMMA TcbVerdictsListed ==
    TcbVerdicts =
        { "OK", "TCB_OUT_OF_DATE", "TCB_CONFIGURATION_NEEDED", "TCB_REVOKED",
          "TCB_OUT_OF_DATE_CONFIGURATION_NEEDED", "TCB_SW_HARDENING_NEEDED",
          "TCB_CONFIGURATION_AND_SW_HARDENING_NEEDED", "TCB_TD_RELAUNCH_ADVISED",
          "TCB_TD_RELAUNCH_ADVISED_CONFIGURATION_NEEDED" }
  BY EvaluatedStatusesListed DEF TcbVerdicts, RelaunchStatuses

(***************************************************************************)
(* The order of the checks.                                                *)
(***************************************************************************)

\* The position sets, to be expanded together.
USE DEF ReachedFill, ReachedLaunchTcb, ReachedQuoteSignature, ReachedAttestKey,
        ReachedQeIdentityMatch, ReachedQeReportData, ReachedQeReportSignature,
        ReachedTdxModule, ReachedPckKey, ReachedCertificationData, ReachedTcbInfoMatch,
        ReachedRevocation, ReachedCrlIssuer, ReachedPckSubject, ReachedPckCert,
        ReachedQeIdentity, ReachedTcbInfo, ReachedCrl, ReachedQuote, ReachedBuffer

\* A call starts with nothing established and nothing said.
LEMMA InitIInv == Init => IInv
<1>. SUFFICES ASSUME pc = "parameters", status = "none" PROVE IInv
  BY DEF Init
<1>1. FormatsChecked
  BY DEF FormatsChecked
<1>2. EvidenceChecked
  BY DEF EvidenceChecked
<1>3. "none" \notin TcbVerdicts
  BY TcbVerdictsListed
<1>4. ChainOfTrust
  BY <1>3 DEF ChainOfTrust
<1>5. AuthenticatedBeforeJudged
  BY DEF AuthenticatedBeforeJudged
<1>. QED BY <1>1, <1>2, <1>4, <1>5 DEF IInv

\* Every check establishes its own condition and gives up none: one step per
\* check, and the evaluations, which find the evidence acceptable.
LEMMA NextIInv == IInv /\ [Next]_vars => IInv'
<1> SUFFICES ASSUME IInv, [Next]_vars
             PROVE  IInv'
  OBVIOUS
<1> USE DEF IInv, FormatsChecked, EvidenceChecked, ChainOfTrust, AuthenticatedBeforeJudged
<1>1. CASE CheckParameters
  BY <1>1, TcbVerdictsListed DEF CheckParameters, ApiCheck, Check
<1>2. CASE CheckBufferParameters
  BY <1>2, TcbVerdictsListed DEF CheckBufferParameters, ApiCheck, Check
<1>3. CASE ParseQuote
  BY <1>3, TcbVerdictsListed DEF ParseQuote, ApiCheck, Check
<1>4. CASE ParsePckCrl
  BY <1>4, TcbVerdictsListed DEF ParsePckCrl, ApiCheck, Check
<1>5. CASE ParseTcbInfo
  BY <1>5, TcbVerdictsListed DEF ParseTcbInfo, ApiCheck, Check
<1>6. CASE ParseQeIdentity
  BY <1>6, TcbVerdictsListed DEF ParseQeIdentity, ApiCheck, Check
<1>7. CASE ParsePckCert
  BY <1>7, TcbVerdictsListed DEF ParsePckCert, ApiCheck, Check
<1>8. CASE CheckPckSubject
  BY <1>8, TcbVerdictsListed DEF CheckPckSubject, VerifierCheck, Check
<1>9. CASE CheckCrlIssuer
  BY <1>9, TcbVerdictsListed DEF CheckCrlIssuer, VerifierCheck, Check
<1>10. CASE CheckRevocation
  BY <1>10, TcbVerdictsListed DEF CheckRevocation, VerifierCheck, Check
<1>11. CASE CheckTcbInfoMatches
  BY <1>11, TcbVerdictsListed DEF CheckTcbInfoMatches, VerifierCheck, Check
<1>12. CASE VerifyCertificationData
  BY <1>12, TcbVerdictsListed DEF VerifyCertificationData, VerifierCheck, Check
<1>13. CASE CheckPckKey
  BY <1>13, TcbVerdictsListed DEF CheckPckKey, VerifierCheck, Check
<1>14. CASE CheckTdxModule
  BY <1>14, TcbVerdictsListed DEF CheckTdxModule, VerifierCheck, Check
<1>15. CASE CheckQeReportSignature
  BY <1>15, TcbVerdictsListed DEF CheckQeReportSignature, VerifierCheck, Check
<1>16. CASE CheckQeReportData
  BY <1>16, TcbVerdictsListed DEF CheckQeReportData, VerifierCheck, Check
<1>17. CASE CheckQeIdentity
  BY <1>17, TcbVerdictsListed DEF CheckQeIdentity, Check
<1>18. CASE CheckAttestKey
  BY <1>18, TcbVerdictsListed DEF CheckAttestKey, VerifierCheck, Check
<1>19. CASE CheckQuoteSignature
  BY <1>19, TcbVerdictsListed DEF CheckQuoteSignature, VerifierCheck, Check
<1>20. CASE EvaluateLaunchTcb \/ EvaluateCurrentTcb \/ FillCollateralInfo
  <2>1. Acceptable(args)
    BY <1>20 DEF EvaluateLaunchTcb, EvaluateCurrentTcb, FillCollateralInfo,
                 Acceptable, WellFormed, Genuine, CollateralMatches
  <2>2. /\ args' = args
        /\ pc' \in ReachedFill \union { "verified" }
    BY <1>20 DEF EvaluateLaunchTcb, EvaluateCurrentTcb, FillCollateralInfo
  <2>3. FormatsChecked'
    BY <2>1, <2>2 DEF Acceptable, WellFormed
  <2>4. EvidenceChecked'
    BY <2>1, <2>2 DEF Acceptable, Genuine, CollateralMatches
  <2>5. ChainOfTrust'
    BY <2>1, <2>2
  <2>6. AuthenticatedBeforeJudged'
    BY <2>1, <2>2 DEF Acceptable, Genuine
  <2>. HIDE DEF IInv, FormatsChecked, EvidenceChecked, ChainOfTrust, AuthenticatedBeforeJudged
  <2>. QED BY <2>3, <2>4, <2>5, <2>6 DEF IInv
<1>21. CASE ReturnStatus
  BY <1>21, TcbVerdictsListed DEF ReturnStatus
<1>22. CASE UNCHANGED vars
  BY <1>22 DEF vars
<1>. HIDE DEF IInv, FormatsChecked, EvidenceChecked, ChainOfTrust, AuthenticatedBeforeJudged
<1>23. QED
  BY <1>1, <1>2, <1>3, <1>4, <1>5, <1>6, <1>7, <1>8, <1>9, <1>10, <1>11, <1>12, <1>13,
     <1>14, <1>15, <1>16, <1>17, <1>18, <1>19, <1>20, <1>21, <1>22 DEF Next

\* No TCB verdict without every check having succeeded: QuoteVerifier::verify
\* has no path to checkTcbLevel that skips one.
THEOREM ChainOfTrustHolds == Spec => []ChainOfTrust
<1>1. Init => IInv
  BY InitIInv
<1>2. IInv /\ [Next]_vars => IInv'
  BY NextIInv
<1>3. IInv => ChainOfTrust
  BY DEF IInv
<1>4. QED
  BY <1>1, <1>2, <1>3, PTL DEF Spec

\* An error about a part of the evidence is only given when the part is
\* authentic.
THEOREM AuthenticatedBeforeJudgedHolds == Spec => []AuthenticatedBeforeJudged
<1>1. Init => IInv
  BY InitIInv
<1>2. IInv /\ [Next]_vars => IInv'
  BY NextIInv
<1>3. IInv => AuthenticatedBeforeJudged
  BY DEF IInv
<1>4. QED
  BY <1>1, <1>2, <1>3, PTL DEF Spec

(***************************************************************************)
(* What the evaluations return. The levels of a call have a first element  *)
(* by LevelsAssumption.                                                    *)
(***************************************************************************)

\* The level found is one of the levels looked at.
LEMMA FirstTcbLevelFound ==
    ASSUME NEW a \in Args,
           NEW selection \in SUBSET a.tcbInfo.levels, selection # {}
    PROVE  FirstTcbLevel(a.tcbInfo.id, selection) \in selection
  BY LevelsAssumption DEF FirstTcbLevel

\* Convergence stays within the statuses of TCB info.
LEMMA ConvergenceStatus ==
    ASSUME NEW s \in TcbInfoStatuses, NEW components
    PROVE  ConvergeTcbStatuses(s, components) \in EvaluatedStatuses
<1>1. ConvergeEvaluation(s, components) \in TcbInfoStatuses
  BY DEF ConvergeEvaluation, TcbInfoStatuses
<1>2. QED
  BY <1>1 DEF ConvergeTcbStatuses, EvaluatedStatuses

\* An evaluation yields at most one record, with a status of its own.
LEMMA EvaluateResult ==
    ASSUME NEW a \in Args, NEW svns, NEW e \in Evaluate(a, svns)
    PROVE  e.tcbStatus \in EvaluatedStatuses /\ Evaluate(a, svns) = { e }
<1>1. \A level \in a.tcbInfo.levels : \A components :
        FinalizeTcbEvaluation(level, components).tcbStatus \in EvaluatedStatuses
  BY LevelsAssumption, ConvergenceStatus DEF FinalizeTcbEvaluation
<1>2. CASE a.quote.teeType = "SGX"
  <2> DEFINE matching == SgxMatchingLevels(a.tcbInfo, a.pckCert.tcb)
  <2>1. /\ matching # {}
        /\ Evaluate(a, svns) =
             { FinalizeTcbEvaluation(FirstTcbLevel(a.tcbInfo.id, matching),
                                     QeComponents(a.qeIdentity, a.quote.qeReport.isvSvn)) }
    BY <1>2 DEF Evaluate, SgxEvaluateTCB
  <2>2. FirstTcbLevel(a.tcbInfo.id, matching) \in a.tcbInfo.levels
    BY <2>1, FirstTcbLevelFound DEF SgxMatchingLevels
  <2>3. QED
    BY <1>1, <2>1, <2>2
<1>3. CASE a.quote.teeType # "SGX"
  <2> DEFINE matching == TdxMatchingLevels(a.tcbInfo, a.pckCert.tcb, svns)
             components == TdxModuleComponents(a.tcbInfo, svns)
                             \union QeComponents(a.qeIdentity, a.quote.qeReport.isvSvn)
  <2>1. /\ matching # {}
        /\ Evaluate(a, svns) =
             { FinalizeTcbEvaluation(FirstTcbLevel(a.tcbInfo.id, matching), components) }
    BY <1>3 DEF Evaluate, TdxEvaluateTCB
  <2>2. FirstTcbLevel(a.tcbInfo.id, matching) \in a.tcbInfo.levels
    BY <2>1, FirstTcbLevelFound DEF TdxMatchingLevels, SgxMatchingLevels
  <2>3. QED
    BY <1>1, <2>1, <2>2
<1>4. QED
  BY <1>2, <1>3

\* The advice is one of the verdicts.
LEMMA CheckForRelaunchStatus ==
    ASSUME NEW l \in EvaluatedStatuses, NEW c
    PROVE  CheckForRelaunch(l, c) \in TcbVerdicts
  BY DEF CheckForRelaunch, TcbVerdicts, RelaunchStatuses

(***************************************************************************)
(* The data of the call.                                                   *)
(***************************************************************************)
CollateralFields ==
    { "filled", "issueDates", "nextUpdates", "tcbEvalNumbers", "launchTcb", "currentTcb" }

\* What the launch and current records say about the filled collateral info.
Filled ==
    \E l \in launch, c \in CurrentOrLaunch :
        /\ status = LaunchStatus(l, c)
        /\ verCollInfo.launchTcb = { TcbEntry(l, status) }
        /\ verCollInfo.currentTcb = { TcbEntry(c, c.tcbStatus) }

Evaluations ==
    /\ launch # {} => launch = Evaluate(args, args.quote.teeTcbSvn)
    /\ current # {} => current = Evaluate(args, args.quote.teeTcbSvn2)

\* The inductive invariant of the types: the records come from the
\* evaluations, and a verdict goes with the filled collateral info.
DataInv ==
    /\ TypeOK
    /\ Evaluations
    /\ DOMAIN verCollInfo = CollateralFields
    /\ pc \in Checks => ~verCollInfo.filled /\ buffer = {}
    /\ status \in TcbVerdicts => verCollInfo.filled /\ Filled
    /\ pc = "verified" /\ verCollInfo.filled => status \in TcbVerdicts
    /\ buffer # {} => status \in TcbVerdicts /\ buffer = { Aggregate(verCollInfo) }
    /\ pc = "returned" /\ BufferRequested(args) /\ status \in TcbVerdicts => buffer # {}

LEMMA InitDataInv == Init => DataInv
  BY TcbVerdictsListed
  DEF Init, DataInv, TypeOK, Evaluations, CollateralFields, EmptyCollateralInfo, Checks

\* A check touches nothing but the position, the status and the dates.
CheckStep ==
    /\ pc \in Checks
    /\ \/ pc' \in Checks /\ UNCHANGED status
       \/ pc' \in { "verified", "returned" } /\ status' \in ErrorStatuses
    /\ verCollInfo' = verCollInfo \/ \E item : verCollInfo' = AddCollateral(verCollInfo, item)
    /\ UNCHANGED <<args, launch, current, buffer>>

LEMMA ChecksStep ==
    ASSUME \/ CheckParameters \/ CheckBufferParameters \/ ParseQuote \/ ParsePckCrl
           \/ ParseTcbInfo \/ ParseQeIdentity \/ ParsePckCert \/ CheckPckSubject
           \/ CheckCrlIssuer \/ CheckRevocation \/ CheckTcbInfoMatches
           \/ VerifyCertificationData \/ CheckPckKey \/ CheckTdxModule
           \/ CheckQeReportSignature \/ CheckQeReportData \/ CheckQeIdentity
           \/ CheckAttestKey \/ CheckQuoteSignature
    PROVE  CheckStep
  BY DEF CheckStep, Checks, ErrorStatuses, ApiCheck, VerifierCheck, Check,
         CheckParameters, CheckBufferParameters, ParseQuote, ParsePckCrl, ParseTcbInfo,
         ParseQeIdentity, ParsePckCert, CheckPckSubject, CheckCrlIssuer, CheckRevocation,
         CheckTcbInfoMatches, VerifyCertificationData, CheckPckKey, CheckTdxModule,
         CheckQeReportSignature, CheckQeReportData, CheckQeIdentity, CheckAttestKey,
         CheckQuoteSignature

LEMMA CheckStepDataInv == DataInv /\ CheckStep => DataInv'
<1> SUFFICES ASSUME DataInv, CheckStep
             PROVE  DataInv'
  OBVIOUS
<1>1. /\ DOMAIN verCollInfo' = CollateralFields
      /\ verCollInfo'.filled = verCollInfo.filled
  BY DEF DataInv, CheckStep, AddCollateral, CollateralFields
<1>2. /\ status' \notin TcbVerdicts
      /\ status' = "none" <=> pc' \in Checks
      /\ status' \in ErrorStatuses \union { "none" }
  BY TcbVerdictsListed DEF DataInv, TypeOK, CheckStep, ErrorStatuses, Checks
<1>3. QED
  BY <1>1, <1>2 DEF DataInv, TypeOK, Evaluations, CheckStep, Checks

LEMMA NextDataInv == DataInv /\ [Next]_vars => DataInv'
<1> SUFFICES ASSUME DataInv, [Next]_vars
             PROVE  DataInv'
  OBVIOUS
<1>1. CASE EvaluateLaunchTcb
  <2>1. /\ pc \in Checks
        /\ status = "none"
        /\ pc' \in { "verified", "fill", "currentTcb" }
        /\ status' = IF pc' = "verified" THEN "TCB_NOT_SUPPORTED" ELSE status
        /\ launch' = Evaluate(args, args.quote.teeTcbSvn)
        /\ UNCHANGED <<args, current, verCollInfo, buffer>>
    BY <1>1 DEF EvaluateLaunchTcb, DataInv, TypeOK, Checks
  <2>2. QED
    BY <2>1, TcbVerdictsListed DEF DataInv, TypeOK, Evaluations, Checks, ErrorStatuses
<1>2. CASE EvaluateCurrentTcb
  <2>1. /\ pc \in Checks
        /\ status = "none"
        /\ pc' \in { "verified", "fill" }
        /\ status' = IF pc' = "verified" THEN "TCB_NOT_SUPPORTED" ELSE status
        /\ current' = Evaluate(args, args.quote.teeTcbSvn2)
        /\ UNCHANGED <<args, launch, verCollInfo, buffer>>
    BY <1>2 DEF EvaluateCurrentTcb, DataInv, TypeOK, Checks
  <2>2. QED
    BY <2>1, TcbVerdictsListed DEF DataInv, TypeOK, Evaluations, Checks, ErrorStatuses
<1>3. CASE FillCollateralInfo
  <2>1. PICK l \in launch, c \in CurrentOrLaunch :
          /\ status' = LaunchStatus(l, c)
          /\ Fill(LaunchStatus(l, c), l, c)
    BY <1>3 DEF FillCollateralInfo
  <2>2. /\ pc = "fill" /\ pc' = "verified"
        /\ UNCHANGED <<args, launch, current, buffer>>
        /\ CurrentOrLaunch' = CurrentOrLaunch
    BY <1>3 DEF FillCollateralInfo, CurrentOrLaunch
  <2>3. l.tcbStatus \in EvaluatedStatuses
    BY EvaluateResult DEF DataInv, TypeOK, Evaluations
  <2>4. status' \in TcbVerdicts
    BY <2>1, <2>3, CheckForRelaunchStatus DEF LaunchStatus, TcbVerdicts
  <2>5. /\ DOMAIN verCollInfo' = CollateralFields
        /\ verCollInfo'.filled
        /\ verCollInfo'.filled \in BOOLEAN
        /\ verCollInfo'.launchTcb = { TcbEntry(l, status') }
        /\ verCollInfo'.currentTcb = { TcbEntry(c, c.tcbStatus) }
    BY <2>1 DEF Fill, AddCollateral, DataInv, CollateralFields
  <2>6. Filled'
    BY <2>1, <2>2, <2>5 DEF Filled, LaunchStatus
  <2>7. QED
    BY <2>2, <2>4, <2>5, <2>6, TcbVerdictsListed DEF DataInv, TypeOK, Evaluations, Checks
<1>4. CASE ReturnStatus
  <2>1. /\ pc = "verified" /\ pc' = "returned"
        /\ UNCHANGED <<args, launch, current, verCollInfo>>
        /\ buffer = {}
    BY <1>4 DEF ReturnStatus, DataInv, TypeOK
  <2>2. CASE UNCHANGED <<status, buffer>> /\ ~(BufferRequested(args) /\ verCollInfo.filled)
    BY <2>1, <2>2
    DEF DataInv, TypeOK, Evaluations, Checks, Filled, CurrentOrLaunch, LaunchStatus
  <2>3. CASE UNCHANGED status /\ verCollInfo.filled /\ buffer' = { Aggregate(verCollInfo) }
    BY <2>1, <2>3
    DEF DataInv, TypeOK, Evaluations, Checks, Filled, CurrentOrLaunch, LaunchStatus, Aggregate
  <2>4. CASE status' = "INVALID_PARAMETER" /\ UNCHANGED buffer
    BY <2>1, <2>4, TcbVerdictsListed
    DEF DataInv, TypeOK, Evaluations, Checks, ErrorStatuses
  <2>5. QED
    BY <1>4, <2>2, <2>3, <2>4 DEF ReturnStatus
<1>5. CASE UNCHANGED vars
  BY <1>5
  DEF vars, DataInv, TypeOK, Evaluations, Filled, CurrentOrLaunch, LaunchStatus, Aggregate
<1>6. QED
  BY <1>1, <1>2, <1>3, <1>4, <1>5, ChecksStep, CheckStepDataInv DEF Next

\* Type correctness, for every set of calls whose levels the parser accepts.
THEOREM TypeCorrect == Spec => []TypeOK
<1>1. DataInv => TypeOK
  BY DEF DataInv
<1>2. QED
  BY <1>1, InitDataInv, NextDataInv, PTL DEF Spec

\* The caller's buffer is written exactly for a verdict and shows that verdict.
THEOREM BufferAgreesWithVerdictHolds == Spec => []BufferAgreesWithVerdict
<1>1. DataInv => BufferAgreesWithVerdict
  <2> SUFFICES ASSUME DataInv
               PROVE  BufferAgreesWithVerdict
    OBVIOUS
  <2>1. ASSUME NEW b \in buffer, NEW l \in b.launchTcb
        PROVE  l.tcbStatus = PrintTCBStatus(status)
    <3>1. b.launchTcb = verCollInfo.launchTcb /\ status \in TcbVerdicts
      BY <2>1 DEF DataInv, Aggregate
    <3>2. PICK e : b.launchTcb = { TcbEntry(e, status) }
      BY <3>1 DEF DataInv, Filled
    <3>3. QED
      BY <2>1, <3>2 DEF TcbEntry
  <2>2. QED
    BY <2>1 DEF DataInv, BufferAgreesWithVerdict
<1>2. QED
  BY <1>1, InitDataInv, NextDataInv, PTL DEF Spec

\* What printTCBStatus shows of a status that needs no update is not a status
\* of a TCB that does.
LEMMA PrintedStatus ==
    ASSUME NEW s \in { "OK", "TCB_SW_HARDENING_NEEDED", "TCB_CONFIGURATION_NEEDED",
                       "TCB_CONFIGURATION_AND_SW_HARDENING_NEEDED" }
    PROVE  PrintTCBStatus(s) \in
             TcbInfoStatuses \ { "OutOfDate", "OutOfDateConfigurationNeeded", "Revoked" }
<1>1. PrintTCBStatus(s) = CHOOSE e \in TcbInfoStatuses : ToStatus(e) = s
  BY EvaluatedStatusesListed DEF PrintTCBStatus
<1>2. \E e \in TcbInfoStatuses : ToStatus(e) = s
  BY EvaluatedStatusesListed DEF EvaluatedStatuses
<1>3. \A e \in { "OutOfDate", "OutOfDateConfigurationNeeded", "Revoked" } : ToStatus(e) # s
  BY DEF ToStatus
<1>4. QED
  BY <1>1, <1>2, <1>3

\* A relaunch is advised only to a TD whose two TCBs differ, when its current
\* TCB needs no update.
THEOREM RelaunchAdviceSoundHolds == Spec => []RelaunchAdviceSound
<1>1. DataInv => RelaunchAdviceSound
  <2> SUFFICES ASSUME DataInv, status \in RelaunchStatuses
               PROVE  /\ HasCurrentTcb(args)
                      /\ args.quote.teeTcbSvn # args.quote.teeTcbSvn2
                      /\ \A b \in buffer : \A c \in b.currentTcb :
                            c.tcbStatus \in TcbInfoStatuses \
                              { "OutOfDate", "OutOfDateConfigurationNeeded", "Revoked" }
    BY DEF RelaunchAdviceSound
  <2>1. PICK l \in launch, c \in CurrentOrLaunch :
          /\ status = LaunchStatus(l, c)
          /\ verCollInfo.currentTcb = { TcbEntry(c, c.tcbStatus) }
    BY DEF DataInv, Filled, TcbVerdicts
  <2>2. /\ l.tcbStatus \in EvaluatedStatuses
        /\ launch = { l } /\ launch = Evaluate(args, args.quote.teeTcbSvn)
    BY EvaluateResult DEF DataInv, TypeOK, Evaluations
  <2>3. HasCurrentTcb(args)
    BY <2>1, <2>2, EvaluatedStatusesListed DEF LaunchStatus, RelaunchStatuses
  <2>4. current = { c } /\ current = Evaluate(args, args.quote.teeTcbSvn2)
    BY <2>1, <2>3, EvaluateResult DEF CurrentOrLaunch, DataInv, TypeOK, Evaluations
  <2>5. RelaunchHelps(l.tcbStatus, c.tcbStatus)
    BY <2>1, <2>2, <2>3, EvaluatedStatusesListed
    DEF LaunchStatus, CheckForRelaunch, RelaunchStatuses
  <2>6. args.quote.teeTcbSvn # args.quote.teeTcbSvn2
    <3> SUFFICES ASSUME args.quote.teeTcbSvn = args.quote.teeTcbSvn2
                 PROVE  FALSE
      OBVIOUS
    <3>1. l = c
      BY <2>2, <2>4
    <3>2. QED
      BY <2>5, <3>1 DEF RelaunchHelps
  <2>7. ASSUME NEW b \in buffer, NEW e \in b.currentTcb
        PROVE  e.tcbStatus \in TcbInfoStatuses \
                 { "OutOfDate", "OutOfDateConfigurationNeeded", "Revoked" }
    <3>1. e.tcbStatus = PrintTCBStatus(c.tcbStatus)
      BY <2>1, <2>7 DEF DataInv, Aggregate, TcbEntry
    <3>2. QED
      BY <2>5, <3>1, PrintedStatus DEF RelaunchHelps
  <2>8. QED
    BY <2>3, <2>6, <2>7
<1>2. QED
  BY <1>1, InitDataInv, NextDataInv, PTL DEF Spec

(***************************************************************************)
(* The weakest part.                                                       *)
(***************************************************************************)
Components(a, svns) ==
    Appraisal!ModuleLevels(a, svns) \union QeComponents(a.qeIdentity, a.quote.qeReport.isvSvn)

Statuses(components) == { c.status : c \in components }

\* The abstract specification looks modules up as the code does.
LEMMA SameModules ==
    ASSUME NEW tcbInfo, NEW svns
    PROVE  Appraisal!TdxModuleComponents(tcbInfo, svns) = TdxModuleComponents(tcbInfo, svns)
  BY DEF TdxModuleComponents, FindTdxModuleIdentity, TdxModuleIdentityPositions, TdxModuleTcbLevel,
     TdxModuleCandidates, TDX_MODULE_MAJOR_SVN_INDEX, TDX_MODULE_MINOR_SVN_INDEX,
     Appraisal!TdxModuleComponents, Appraisal!FindTdxModuleIdentity,
     Appraisal!TdxModuleIdentityPositions, Appraisal!TdxModuleTcbLevel,
     Appraisal!TdxModuleCandidates, Appraisal!TDX_MODULE_MAJOR_SVN_INDEX,
     Appraisal!TDX_MODULE_MINOR_SVN_INDEX

\* A rating converges the status of a platform level with those of all components.
LEMMA EvaluateConverges ==
    ASSUME NEW a \in Args, NEW svns, NEW e \in Evaluate(a, svns),
           svns[TDX_MODULE_MAJOR_SVN_INDEX] \in Nat
    PROVE  /\ \E s \in TcbInfoStatuses :
                e.tcbStatus = ConvergeTcbStatuses(s, Statuses(Components(a, svns)))
           /\ QeSupported(a.qeIdentity, a.quote.qeReport.isvSvn)
           /\ Statuses(Appraisal!ModuleLevels(a, svns)) \subseteq TdxModuleStatuses
<1> DEFINE qe == QeComponents(a.qeIdentity, a.quote.qeReport.isvSvn)
<1>1. \A level, components :
        FinalizeTcbEvaluation(level, components).tcbStatus
            = ConvergeTcbStatuses(level.status, Statuses(components))
  BY DEF FinalizeTcbEvaluation, Statuses
<1>2. \A level \in a.tcbInfo.levels : level.status \in TcbInfoStatuses
  BY LevelsAssumption
<1>3. CASE a.quote.teeType = "SGX"
  <2> DEFINE matching == SgxMatchingLevels(a.tcbInfo, a.pckCert.tcb)
             first == FirstTcbLevel(a.tcbInfo.id, matching)
  <2>1. /\ matching # {} /\ e = FinalizeTcbEvaluation(first, qe)
        /\ QeSupported(a.qeIdentity, a.quote.qeReport.isvSvn)
    BY <1>3 DEF Evaluate, SgxEvaluateTCB
  <2>2. first \in a.tcbInfo.levels
    BY <2>1, FirstTcbLevelFound DEF SgxMatchingLevels
  <2>3. Appraisal!ModuleLevels(a, svns) = {} /\ Components(a, svns) = qe
    BY <1>3 DEF Appraisal!ModuleLevels, Components
  <2>. HIDE DEF matching, first, qe
  <2>4. first.status \in TcbInfoStatuses
    BY <1>2, <2>2
  <2>. QED BY <1>1, <2>1, <2>3, <2>4 DEF Statuses
<1>4. CASE a.quote.teeType # "SGX"
  <2> DEFINE matching == TdxMatchingLevels(a.tcbInfo, a.pckCert.tcb, svns)
             first == FirstTcbLevel(a.tcbInfo.id, matching)
             module == TdxModuleComponents(a.tcbInfo, svns)
  <2>1. /\ matching # {} /\ e = FinalizeTcbEvaluation(first, module \union qe)
        /\ QeSupported(a.qeIdentity, a.quote.qeReport.isvSvn)
        /\ TdxModuleSupported(a.tcbInfo, svns)
    BY <1>4 DEF Evaluate, TdxEvaluateTCB
  <2>2. first \in a.tcbInfo.levels
    BY <2>1, FirstTcbLevelFound DEF TdxMatchingLevels, SgxMatchingLevels
  <2>3. Appraisal!ModuleLevels(a, svns) = module /\ Components(a, svns) = module \union qe
    BY <1>4, SameModules DEF Appraisal!ModuleLevels, Components
  <2>4. \A c \in module : c.status \in TdxModuleStatuses
    <3>1. svns[TDX_MODULE_MAJOR_SVN_INDEX] = 0 => module = {}
      BY DEF TdxModuleComponents
    <3>2. CASE svns[TDX_MODULE_MAJOR_SVN_INDEX] > 0
      BY <2>1, <3>2 DEF TdxModuleSupported
    <3>. QED BY <3>1, <3>2
  <2>. HIDE DEF matching, first, qe, module
  <2>5. first.status \in TcbInfoStatuses
    BY <1>2, <2>2
  <2>. QED BY <1>1, <2>1, <2>3, <2>4, <2>5 DEF Statuses
<1>. QED BY <1>3, <1>4

\* The level that getTcbLevel finds first is the one that no other reaches.
LEMMA QeLevelsAreFound ==
    ASSUME NEW a \in Args, QeSupported(a.qeIdentity, a.quote.qeReport.isvSvn)
    PROVE  /\ Appraisal!QeLevels(a) \subseteq QeComponents(a.qeIdentity, a.quote.qeReport.isvSvn)
           /\ Statuses(Appraisal!QeLevels(a)) \subseteq IdentityStatuses
<1> DEFINE svn == a.quote.qeReport.isvSvn
<1>1. ASSUME NEW x \in Appraisal!QeLevels(a)
      PROVE  /\ x \in QeComponents(a.qeIdentity, svn)
             /\ x.status \in IdentityStatuses
  <2>1. PICK identity \in a.qeIdentity :
          /\ x \in identity.levels /\ x.isvSvn <= svn
          /\ \A m \in identity.levels :
                m.isvSvn <= svn =>
                  m.isvSvn < x.isvSvn \/ (m.isvSvn = x.isvSvn /\ m.tcbDate <= x.tcbDate)
    BY DEF Appraisal!QeLevels
  <2> DEFINE candidates == IdentityCandidates(identity, svn)
             found == GetIdentityTcbLevel(identity, svn)
  <2>2. /\ \A l \in identity.levels :
              l.status \in IdentityStatuses /\ l.isvSvn \in Int /\ l.tcbDate \in Int
        /\ \A selection \in SUBSET identity.levels :
              selection # {} =>
                \E l \in selection : \A other \in selection \ {l} :
                    IdentityTcbLevelGreater(l, other)
    BY EvidenceAssumption
  <2>3. candidates \in SUBSET identity.levels /\ x \in candidates
    BY <2>1 DEF IdentityCandidates
  <2>4. found \in candidates /\ \A other \in candidates \ {found} : IdentityTcbLevelGreater(found, other)
    <3>1. \E l \in candidates : \A other \in candidates \ {l} : IdentityTcbLevelGreater(l, other)
      BY <2>2, <2>3
    <3>2. found = CHOOSE l \in candidates :
                    \A other \in candidates \ {l} : IdentityTcbLevelGreater(l, other)
      BY DEF GetIdentityTcbLevel
    <3>. HIDE DEF candidates, found
    <3>. QED BY <3>1, <3>2
  <2>5. found.isvSvn <= svn /\ found \in identity.levels
    BY <2>4 DEF IdentityCandidates
  <2>. HIDE DEF candidates, found
  <2>6. x = found
    BY <2>1, <2>2, <2>3, <2>4, <2>5 DEF IdentityTcbLevelGreater
  <2>7. found \in QeComponents(a.qeIdentity, svn)
    BY DEF QeComponents, found
  <2>. QED BY <2>1, <2>2, <2>6, <2>7
<1>. QED BY <1>1 DEF Statuses

\* What convergence makes of a component that is revoked or out of date, whatever the
\* platform's status.
LEMMA ConvergenceKeepsTheWorst ==
    ASSUME NEW s \in TcbInfoStatuses, NEW components
    PROVE  LET rated == ConvergeTcbStatuses(s, components)
           IN  /\ "Revoked" \in components => rated = "TCB_REVOKED"
               /\ "OutOfDate" \in components =>
                     rated \in { "TCB_OUT_OF_DATE", "TCB_OUT_OF_DATE_CONFIGURATION_NEEDED",
                                   "TCB_REVOKED" }
  BY DEF ConvergeTcbStatuses, ConvergeEvaluation, TcbInfoStatuses, ToStatus

\* The QE and the TDX module are never hidden by the platform or by the advice to relaunch:
\* convergeTcbStatus keeps the worst, and CheckForRelaunch advises nothing when both
\* evaluations have met the same QE that is out of date.
THEOREM WeakestPartDecidesHolds == Spec => []WeakestPartDecides
<1>1. DataInv => WeakestPartDecides
  <2>. SUFFICES ASSUME DataInv, status \in TcbVerdicts
                PROVE  /\ "Revoked" \in QeStatuses \union LaunchModuleStatuses => status = "TCB_REVOKED"
                       /\ "OutOfDate" \in QeStatuses =>
                            status \in { "TCB_OUT_OF_DATE", "TCB_OUT_OF_DATE_CONFIGURATION_NEEDED",
                                         "TCB_REVOKED" }
                       /\ status = "OK" => QeStatuses \union LaunchModuleStatuses \subseteq { "UpToDate" }
    BY DEF WeakestPartDecides
  <2> DEFINE svns == args.quote.teeTcbSvn
             svns2 == args.quote.teeTcbSvn2
             parts == Statuses(Components(args, svns))
  <2>1. PICK l \in launch, c \in CurrentOrLaunch : status = LaunchStatus(l, c)
    BY DEF DataInv, Filled
  <2>2. /\ args \in Args
        /\ l \in Evaluate(args, svns)
        /\ HasCurrentTcb(args) => c \in Evaluate(args, svns2)
        /\ svns[TDX_MODULE_MAJOR_SVN_INDEX] \in Nat /\ svns2[TDX_MODULE_MAJOR_SVN_INDEX] \in Nat
    BY <2>1, EvidenceAssumption DEF DataInv, TypeOK, Evaluations, CurrentOrLaunch
  <2>. HIDE DEF svns, svns2
  <2>3. /\ QeSupported(args.qeIdentity, args.quote.qeReport.isvSvn)
        /\ LaunchModuleStatuses \subseteq TdxModuleStatuses
        /\ \E s \in TcbInfoStatuses : l.tcbStatus = ConvergeTcbStatuses(s, parts)
    BY <2>2, EvaluateConverges DEF LaunchModuleStatuses, Statuses, svns
  <2>4. /\ QeStatuses \subseteq IdentityStatuses
        /\ QeStatuses \subseteq parts /\ LaunchModuleStatuses \subseteq parts
        /\ QeStatuses \subseteq Statuses(Components(args, svns2))
    BY <2>2, <2>3, QeLevelsAreFound
    DEF QeStatuses, LaunchModuleStatuses, Statuses, Components, svns
  <2>5. HasCurrentTcb(args) =>
          \E s \in TcbInfoStatuses :
             c.tcbStatus = ConvergeTcbStatuses(s, Statuses(Components(args, svns2)))
    BY <2>2, EvaluateConverges
  <2>. HIDE DEF parts
  <2>6. /\ "Revoked" \in QeStatuses \union LaunchModuleStatuses => l.tcbStatus = "TCB_REVOKED"
        /\ "OutOfDate" \in QeStatuses \union LaunchModuleStatuses =>
              l.tcbStatus \in { "TCB_OUT_OF_DATE", "TCB_OUT_OF_DATE_CONFIGURATION_NEEDED",
                                "TCB_REVOKED" }
    BY <2>3, <2>4, ConvergenceKeepsTheWorst
  <2>7. "OutOfDate" \in QeStatuses /\ HasCurrentTcb(args) =>
           c.tcbStatus \in { "TCB_OUT_OF_DATE", "TCB_OUT_OF_DATE_CONFIGURATION_NEEDED",
                             "TCB_REVOKED" }
    BY <2>4, <2>5, ConvergenceKeepsTheWorst
  <2>8. \/ status = l.tcbStatus
        \/ /\ HasCurrentTcb(args) /\ RelaunchHelps(l.tcbStatus, c.tcbStatus)
           /\ status \in RelaunchStatuses
    BY <2>1 DEF LaunchStatus, CheckForRelaunch, RelaunchStatuses
  <2>9. "Revoked" \in QeStatuses \union LaunchModuleStatuses => status = "TCB_REVOKED"
    BY <2>6, <2>8 DEF RelaunchHelps
  <2>10. "OutOfDate" \in QeStatuses =>
            status \in { "TCB_OUT_OF_DATE", "TCB_OUT_OF_DATE_CONFIGURATION_NEEDED", "TCB_REVOKED" }
    BY <2>6, <2>7, <2>8 DEF RelaunchHelps
  <2>11. status = "OK" => QeStatuses \union LaunchModuleStatuses \subseteq { "UpToDate" }
    <3>1. status = "OK" => status = l.tcbStatus
      BY <2>8 DEF RelaunchStatuses
    <3>. QED BY <2>3, <2>4, <2>6, <3>1 DEF IdentityStatuses, TdxModuleStatuses
  <2>. QED BY <2>9, <2>10, <2>11
<1>. QED BY <1>1, InitDataInv, NextDataInv, PTL DEF Spec

(***************************************************************************)
(* The dates.                                                              *)
(***************************************************************************)
\* The collateral info has recorded the items and nothing else.
Recorded(info, items) ==
    /\ info.issueDates = { i.issueDate : i \in items }
    /\ info.nextUpdates = { i.nextUpdate : i \in items }
    /\ info.tcbEvalNumbers = { i.tcbEvaluationDataNumber : i \in items }

\* The inductive invariant: of which items the info has the dates.
DatesInv ==
    /\ pc \in Checks \ ReachedAttestKey => Recorded(verCollInfo, {})
    /\ pc \in ReachedAttestKey => Recorded(verCollInfo, args.qeIdentity)
    /\ verCollInfo.filled => Recorded(verCollInfo, Appraisal!Collateral(args))

LEMMA InitDatesInv == Init => DatesInv
  BY DEF Init, DatesInv, Recorded, EmptyCollateralInfo

\* One item more.
LEMMA AddsOne ==
    ASSUME NEW info, DOMAIN info = CollateralFields, NEW items, NEW item, Recorded(info, items)
    PROVE  LET added == AddCollateral(info, item)
           IN  /\ Recorded(added, items \union { item })
               /\ added.filled = info.filled /\ DOMAIN added = CollateralFields
  BY DEF Recorded, AddCollateral, CollateralFields

LEMMA NextDatesInv == DataInv /\ DatesInv /\ [Next]_vars => DatesInv'
<1>. SUFFICES ASSUME DataInv, DatesInv, [Next]_vars PROVE DatesInv'
  OBVIOUS
<1>1. /\ DOMAIN verCollInfo = CollateralFields
      /\ pc \in Checks => ~verCollInfo.filled
      /\ args \in Args
  BY DEF DataInv, TypeOK
<1>2. CASE \/ CheckParameters \/ CheckBufferParameters \/ ParseQuote \/ ParsePckCrl
           \/ ParseTcbInfo \/ ParseQeIdentity \/ ParsePckCert \/ CheckPckSubject
           \/ CheckCrlIssuer \/ CheckRevocation \/ CheckTcbInfoMatches
           \/ VerifyCertificationData \/ CheckPckKey \/ CheckTdxModule
           \/ CheckQeReportSignature \/ CheckQeReportData
  <2>1. /\ pc \in Checks \ ReachedAttestKey
        /\ pc' \in (Checks \ ReachedAttestKey) \union { "verified", "returned" }
        /\ UNCHANGED <<args, verCollInfo>>
    BY <1>2 DEF Checks, ApiCheck, VerifierCheck, Check, CheckParameters, CheckBufferParameters,
       ParseQuote, ParsePckCrl, ParseTcbInfo, ParseQeIdentity, ParsePckCert, CheckPckSubject,
       CheckCrlIssuer, CheckRevocation, CheckTcbInfoMatches, VerifyCertificationData, CheckPckKey,
       CheckTdxModule, CheckQeReportSignature, CheckQeReportData
  <2>2. pc' \notin ReachedAttestKey /\ ~verCollInfo'.filled
    BY <1>1, <2>1
  <2>3. Recorded(verCollInfo', {})
    BY <2>1 DEF DatesInv
  <2>. QED BY <2>2, <2>3 DEF DatesInv
<1>3. CASE CheckQeIdentity
  <2>1. /\ pc = "qeIdentityMatch" /\ pc \in Checks \ ReachedAttestKey /\ UNCHANGED args
        /\ pc' = IF QeIdentityMatches(args) THEN "attestKey" ELSE "verified"
    BY <1>3 DEF CheckQeIdentity, Check, Checks
  <2>2. Recorded(verCollInfo, {}) /\ ~verCollInfo.filled
    BY <1>1, <2>1 DEF DatesInv
  <2>3. CASE QeIdentityMatches(args) /\ args.qeIdentity # {}
    <3>1. PICK identity \in args.qeIdentity : verCollInfo' = AddCollateral(verCollInfo, identity)
      BY <1>3, <2>3 DEF CheckQeIdentity
    <3>2. args.qeIdentity = {} \union { identity }
      BY <1>1, <3>1, EvidenceAssumption
    <3>3. Recorded(verCollInfo', args.qeIdentity) /\ ~verCollInfo'.filled
      BY <1>1, <2>2, <3>1, <3>2, AddsOne
    <3>. QED BY <2>1, <2>3, <3>3 DEF DatesInv
  <2>4. CASE ~(QeIdentityMatches(args) /\ args.qeIdentity # {})
    <3>1. UNCHANGED verCollInfo
      BY <1>3, <2>4 DEF CheckQeIdentity
    <3>. QED BY <2>1, <2>2, <2>4, <3>1 DEF DatesInv, Checks
  <2>. QED BY <2>3, <2>4
<1>4. CASE CheckAttestKey \/ CheckQuoteSignature \/ EvaluateLaunchTcb \/ EvaluateCurrentTcb
  <2>1. /\ pc \in ReachedAttestKey /\ pc \in Checks
        /\ pc' \in ReachedAttestKey \union { "verified" }
        /\ UNCHANGED <<args, verCollInfo>>
    BY <1>4 DEF Checks, VerifierCheck, Check, CheckAttestKey, CheckQuoteSignature, EvaluateLaunchTcb,
       EvaluateCurrentTcb
  <2>2. Recorded(verCollInfo, args.qeIdentity) /\ ~verCollInfo.filled
    BY <1>1, <2>1 DEF DatesInv
  <2>. QED BY <2>1, <2>2 DEF DatesInv, Checks
<1>5. CASE FillCollateralInfo
  <2>1. pc = "fill" /\ pc' = "verified" /\ UNCHANGED args
    BY <1>5 DEF FillCollateralInfo
  <2>2. PICK l, c : Fill(LaunchStatus(l, c), l, c)
    BY <1>5 DEF FillCollateralInfo
  <2> DEFINE added == AddCollateral(verCollInfo, args.tcbInfo)
  <2>3. Recorded(added, args.qeIdentity \union { args.tcbInfo }) /\ DOMAIN added = CollateralFields
    BY <1>1, <2>1, AddsOne DEF DatesInv
  <2>4. args.qeIdentity \union { args.tcbInfo } = Appraisal!Collateral(args)
    BY DEF Appraisal!Collateral
  <2>5. verCollInfo' = [ added EXCEPT !.filled = TRUE,
                                      !.launchTcb = { TcbEntry(l, LaunchStatus(l, c)) },
                                      !.currentTcb = { TcbEntry(c, c.tcbStatus) } ]
    BY <2>2 DEF Fill
  <2>. HIDE DEF added
  <2>6. Recorded(verCollInfo', Appraisal!Collateral(args))
    BY <2>3, <2>4, <2>5 DEF Recorded, CollateralFields
  <2>. QED BY <2>1, <2>6 DEF DatesInv, Checks, Appraisal!Collateral
<1>6. CASE ReturnStatus
  BY <1>6 DEF ReturnStatus, DatesInv, Checks, Appraisal!Collateral
<1>7. CASE UNCHANGED vars
  BY <1>7 DEF vars, DatesInv, Appraisal!Collateral
<1>. QED BY <1>2, <1>3, <1>4, <1>5, <1>6, <1>7 DEF Next

\* One or two numbers have an earliest and a latest.
LEMMA Extremes ==
    ASSUME NEW x \in Int, NEW y \in Int
    PROVE  /\ Earliest({ x, y }) <= x /\ Earliest({ x, y }) <= y
           /\ x <= Latest({ x, y }) /\ y <= Latest({ x, y })
<1>1. \E d \in { x, y } : \A e \in { x, y } : d <= e
  OBVIOUS
<1>2. \E d \in { x, y } : \A e \in { x, y } : d >= e
  OBVIOUS
<1>. QED BY <1>1, <1>2 DEF Earliest, Latest

\* What sgxAttestationVerifyQuoteEx puts into the caller's buffer spans the dates and numbers of
\* the TCB info and of the QE identity, if one was given, on every path to a verdict.
THEOREM BufferSpansCollateralHolds == Spec => []BufferSpansCollateral
<1>1. DataInv /\ DatesInv => BufferSpansCollateral
  <2>. SUFFICES ASSUME DataInv, DatesInv, NEW b \in buffer, NEW item \in Appraisal!Collateral(args)
                PROVE  /\ b.expirationDate <= item.nextUpdate
                       /\ b.issueDateMin <= item.issueDate /\ item.issueDate <= b.issueDateMax
                       /\ b.tcbEvaluationDataNumber <= item.tcbEvaluationDataNumber
    BY DEF BufferSpansCollateral
  <2>1. /\ b = Aggregate(verCollInfo) /\ args \in Args
        /\ Recorded(verCollInfo, Appraisal!Collateral(args))
    BY DEF DataInv, TypeOK, DatesInv
  <2>2. PICK other : Appraisal!Collateral(args) = { args.tcbInfo, other }
    <3>1. CASE args.qeIdentity = {}
      BY <3>1 DEF Appraisal!Collateral
    <3>2. CASE args.qeIdentity # {}
      <4>1. PICK identity : identity \in args.qeIdentity
        BY <3>2
      <4>2. args.qeIdentity = { identity }
        BY <2>1, <4>1, EvidenceAssumption
      <4>. QED BY <4>2 DEF Appraisal!Collateral
    <3>. QED BY <3>1, <3>2
  <2>3. \A i \in Appraisal!Collateral(args) :
          i.issueDate \in Int /\ i.nextUpdate \in Int /\ i.tcbEvaluationDataNumber \in Int
    BY <2>1, EvidenceAssumption DEF Appraisal!Collateral
  <2>4. /\ verCollInfo.issueDates = { args.tcbInfo.issueDate, other.issueDate }
        /\ verCollInfo.nextUpdates = { args.tcbInfo.nextUpdate, other.nextUpdate }
        /\ verCollInfo.tcbEvalNumbers = { args.tcbInfo.tcbEvaluationDataNumber,
                                          other.tcbEvaluationDataNumber }
    BY <2>1, <2>2 DEF Recorded
  <2>5. /\ b.issueDateMin = Earliest(verCollInfo.issueDates)
        /\ b.issueDateMax = Latest(verCollInfo.issueDates)
        /\ b.expirationDate = Earliest(verCollInfo.nextUpdates)
        /\ b.tcbEvaluationDataNumber = Earliest(verCollInfo.tcbEvalNumbers)
    BY <2>1 DEF Aggregate
  <2>6. item \in { args.tcbInfo, other }
    BY <2>2
  <2>7. /\ args.tcbInfo.issueDate \in Int /\ other.issueDate \in Int
        /\ args.tcbInfo.nextUpdate \in Int /\ other.nextUpdate \in Int
        /\ args.tcbInfo.tcbEvaluationDataNumber \in Int /\ other.tcbEvaluationDataNumber \in Int
    BY <2>2, <2>3
  <2> DEFINE x == args.tcbInfo
  <2>8. /\ b.issueDateMin <= x.issueDate /\ b.issueDateMin <= other.issueDate
        /\ x.issueDate <= b.issueDateMax /\ other.issueDate <= b.issueDateMax
    <3>1. /\ b.issueDateMin = Earliest({ x.issueDate, other.issueDate })
          /\ b.issueDateMax = Latest({ x.issueDate, other.issueDate })
      BY <2>4, <2>5
    <3>. QED BY <2>7, <3>1, Extremes
  <2>9. b.expirationDate <= x.nextUpdate /\ b.expirationDate <= other.nextUpdate
    <3>1. b.expirationDate = Earliest({ x.nextUpdate, other.nextUpdate })
      BY <2>4, <2>5
    <3>. QED BY <2>7, <3>1, Extremes
  <2>10. /\ b.tcbEvaluationDataNumber <= x.tcbEvaluationDataNumber
         /\ b.tcbEvaluationDataNumber <= other.tcbEvaluationDataNumber
    <3>1. b.tcbEvaluationDataNumber
            = Earliest({ x.tcbEvaluationDataNumber, other.tcbEvaluationDataNumber })
      BY <2>4, <2>5
    <3>. QED BY <2>7, <3>1, Extremes
  <2>. QED BY <2>6, <2>8, <2>9, <2>10
<1>2. DataInv /\ DatesInv /\ [Next]_vars => (DataInv /\ DatesInv)'
  BY NextDataInv, NextDatesInv
<1>. QED BY <1>1, <1>2, InitDataInv, InitDatesInv, PTL DEF Spec

(***************************************************************************)
(* The abstract specification. QuoteAppraisal is instantiated: its copies  *)
(* of the operators of QuoteChecks and TcbEvaluation mean the same.        *)
(***************************************************************************)
LEMMA SameStatuses ==
    /\ Appraisal!TcbInfoStatuses = TcbInfoStatuses
    /\ Appraisal!EvaluatedStatuses = EvaluatedStatuses
    /\ Appraisal!RelaunchStatuses = RelaunchStatuses
    /\ \A s : Appraisal!ToStatus(s) = ToStatus(s)
    /\ \A dates : Appraisal!Earliest(dates) = Earliest(dates)
    /\ \A dates : Appraisal!Latest(dates) = Latest(dates)
    /\ \A S : Appraisal!Cardinality(S) = Cardinality(S)
<1>1. \A s : Appraisal!ToStatus(s) = ToStatus(s)
  BY DEF Appraisal!ToStatus, ToStatus
<1>2. Appraisal!TcbInfoStatuses = TcbInfoStatuses
  BY DEF Appraisal!TcbInfoStatuses, TcbInfoStatuses
<1>3. Appraisal!EvaluatedStatuses = EvaluatedStatuses
  BY <1>1, <1>2 DEF Appraisal!EvaluatedStatuses, EvaluatedStatuses
<1>4. \A dates : Appraisal!Earliest(dates) = Earliest(dates)
  BY DEF Appraisal!Earliest, Earliest
<1>5. \A dates : Appraisal!Latest(dates) = Latest(dates)
  BY DEF Appraisal!Latest, Latest
<1>6. \A S : Appraisal!Cardinality(S) = Cardinality(S)
  BY DEF Appraisal!Cardinality, Cardinality
<1>7. Appraisal!RelaunchStatuses = RelaunchStatuses
  BY DEF Appraisal!RelaunchStatuses, RelaunchStatuses
<1>. QED BY <1>1, <1>2, <1>3, <1>4, <1>5, <1>6, <1>7

LEMMA SameSelections ==
    /\ \A identity, svn :
          Appraisal!IdentityCandidates(identity, svn) = IdentityCandidates(identity, svn)
    /\ \A identity, svn :
          Appraisal!GetIdentityTcbLevel(identity, svn) = GetIdentityTcbLevel(identity, svn)
    /\ \A identities, version :
          Appraisal!TdxModuleIdentityPositions(identities, version)
              = TdxModuleIdentityPositions(identities, version)
    /\ \A identities, version :
          Appraisal!FindTdxModuleIdentity(identities, version)
              = FindTdxModuleIdentity(identities, version)
<1>1. \A identity, svn :
         Appraisal!IdentityCandidates(identity, svn) = IdentityCandidates(identity, svn)
  BY DEF Appraisal!IdentityCandidates, IdentityCandidates
<1>2. \A identity, svn :
         Appraisal!GetIdentityTcbLevel(identity, svn) = GetIdentityTcbLevel(identity, svn)
  BY DEF Appraisal!GetIdentityTcbLevel, GetIdentityTcbLevel, Appraisal!IdentityCandidates,
     IdentityCandidates, Appraisal!IdentityTcbLevelGreater, IdentityTcbLevelGreater
<1>3. \A identities, version :
         Appraisal!TdxModuleIdentityPositions(identities, version)
             = TdxModuleIdentityPositions(identities, version)
  BY DEF Appraisal!TdxModuleIdentityPositions, TdxModuleIdentityPositions
<1>4. \A identities, version :
         Appraisal!FindTdxModuleIdentity(identities, version)
             = FindTdxModuleIdentity(identities, version)
  BY DEF Appraisal!TdxModuleIdentityPositions, TdxModuleIdentityPositions,
     Appraisal!FindTdxModuleIdentity, FindTdxModuleIdentity
<1>. QED BY <1>1, <1>2, <1>3, <1>4

LEMMA SameChecks ==
    ASSUME NEW a
    PROVE  /\ Appraisal!ParametersPresent(a) = ParametersPresent(a)
           /\ Appraisal!BufferRequested(a) = BufferRequested(a)
           /\ Appraisal!BufferParametersValid(a) = BufferParametersValid(a)
           /\ Appraisal!QeIdentityParses(a) = QeIdentityParses(a)
           /\ Appraisal!IssuerMatches(a) = IssuerMatches(a)
           /\ Appraisal!IsRevoked(a) = IsRevoked(a)
           /\ Appraisal!TeeMatches(a) = TeeMatches(a)
           /\ Appraisal!PlatformMatches(a) = PlatformMatches(a)
           /\ Appraisal!TdxModuleMatches(a) = TdxModuleMatches(a)
           /\ Appraisal!QeReportSigned(a) = QeReportSigned(a)
           /\ Appraisal!AttestKeyBound(a) = AttestKeyBound(a)
           /\ Appraisal!QeIdentityMatches(a) = QeIdentityMatches(a)
           /\ Appraisal!QuoteSigned(a) = QuoteSigned(a)
           /\ Appraisal!HasCurrentTcb(a) = HasCurrentTcb(a)
           /\ Appraisal!OffCurve = OffCurve
<1>1. /\ Appraisal!ParametersPresent(a) = ParametersPresent(a)
      /\ Appraisal!BufferRequested(a) = BufferRequested(a)
      /\ Appraisal!BufferParametersValid(a) = BufferParametersValid(a)
      /\ Appraisal!QeIdentityParses(a) = QeIdentityParses(a)
      /\ Appraisal!HasCurrentTcb(a) = HasCurrentTcb(a)
  BY DEF Appraisal!ParametersPresent, ParametersPresent, Appraisal!BufferRequested, BufferRequested,
     Appraisal!BufferParametersValid, BufferParametersValid, Appraisal!QeIdentityParses,
     QeIdentityParses, Appraisal!HasCurrentTcb, HasCurrentTcb, Appraisal!BODY_TD_REPORT15_TYPE,
     BODY_TD_REPORT15_TYPE
<1>2. /\ Appraisal!IssuerMatches(a) = IssuerMatches(a)
      /\ Appraisal!IsRevoked(a) = IsRevoked(a)
      /\ Appraisal!TeeMatches(a) = TeeMatches(a)
      /\ Appraisal!PlatformMatches(a) = PlatformMatches(a)
  BY DEF Appraisal!IssuerMatches, IssuerMatches, Appraisal!IsRevoked, IsRevoked,
     Appraisal!TeeMatches, TeeMatches, Appraisal!PlatformMatches, PlatformMatches
<1>3. /\ Appraisal!QeReportSigned(a) = QeReportSigned(a)
      /\ Appraisal!AttestKeyBound(a) = AttestKeyBound(a)
      /\ Appraisal!QuoteSigned(a) = QuoteSigned(a)
      /\ Appraisal!OffCurve = OffCurve
  BY DEF Appraisal!QeReportSigned, QeReportSigned, Appraisal!AttestKeyBound, AttestKeyBound,
     Appraisal!QuoteSigned, QuoteSigned, Appraisal!VerifySha256EcdsaSignature,
     VerifySha256EcdsaSignature, Appraisal!Sign, Sign, Appraisal!Sha256, Sha256,
     Appraisal!OffCurve, OffCurve
<1>4. Appraisal!TdxModuleMatches(a) = TdxModuleMatches(a)
  <2>1. Appraisal!ReferenceTdxModules(a) = ReferenceTdxModules(a)
    BY SameSelections DEF Appraisal!ReferenceTdxModules, ReferenceTdxModules,
       Appraisal!TDX_MODULE_MAJOR_SVN_INDEX, TDX_MODULE_MAJOR_SVN_INDEX
  <2>. QED BY <2>1 DEF Appraisal!TdxModuleMatches, TdxModuleMatches, Appraisal!UsesTdxTcbInfo,
              UsesTdxTcbInfo
<1>5. Appraisal!QeIdentityMatches(a) = QeIdentityMatches(a)
  <2>1. \A identity, report :
           Appraisal!VerifyEnclaveReport(identity, report) = VerifyEnclaveReport(identity, report)
    BY SameSelections DEF Appraisal!VerifyEnclaveReport, VerifyEnclaveReport,
       Appraisal!MiscSelectMatches, MiscSelectMatches, Appraisal!AttributesMatch, AttributesMatch,
       Appraisal!applyMask, applyMask, Appraisal!MrSignerMatches, MrSignerMatches,
       Appraisal!NoMrSigner, NoMrSigner, Appraisal!IsvProdIdMatches, IsvProdIdMatches
  <2>. QED BY <2>1 DEF Appraisal!QeIdentityMatches, QeIdentityMatches, Appraisal!MismatchResults,
              MismatchResults
<1>. QED BY <1>1, <1>2, <1>3, <1>4, <1>5

LEMMA SameAcceptable ==
    ASSUME NEW a
    PROVE  Appraisal!Acceptable(a) = Acceptable(a)
  BY SameChecks DEF Appraisal!Acceptable, Acceptable, Appraisal!WellFormed, WellFormed,
     Appraisal!Genuine, Genuine, Appraisal!CollateralMatches, CollateralMatches

\* What each error says of the call.
LEMMA DefectsSay ==
    ASSUME NEW a
    PROVE  /\ Appraisal!HasDefect(a, "MISSING_PARAMETERS") = ~ParametersPresent(a)
           /\ Appraisal!HasDefect(a, "INVALID_PARAMETER") = ~BufferParametersValid(a)
           /\ Appraisal!HasDefect(a, "UNSUPPORTED_QUOTE_FORMAT")
                = (\/ ~a.quote.parses \/ ~a.quote.certificationDataSizeMatches
                   \/ a.quote.attestKey = OffCurve)
           /\ Appraisal!HasDefect(a, "UNSUPPORTED_PCK_RL_FORMAT") = ~a.crl.parses
           /\ Appraisal!HasDefect(a, "UNSUPPORTED_TCB_INFO_FORMAT") = ~a.tcbInfo.parses
           /\ Appraisal!HasDefect(a, "UNSUPPORTED_QE_IDENTITY_FORMAT") = ~QeIdentityParses(a)
           /\ Appraisal!HasDefect(a, "UNSUPPORTED_PCK_CERT_FORMAT")
                = (a.pckCert.format = "FormatException")
           /\ Appraisal!HasDefect(a, "INVALID_PCK_CERT")
                = (\/ a.pckCert.format = "InvalidExtensionException"
                   \/ ~a.pckCert.subjectIsPck \/ a.pckCert.pubKey = OffCurve)
           /\ Appraisal!HasDefect(a, "INVALID_PCK_CRL") = ~IssuerMatches(a)
           /\ Appraisal!HasDefect(a, "PCK_REVOKED") = IsRevoked(a)
           /\ Appraisal!HasDefect(a, "TCB_INFO_MISMATCH") = ~(TeeMatches(a) /\ PlatformMatches(a))
           /\ Appraisal!HasDefect(a, "TDX_MODULE_MISMATCH") = ~TdxModuleMatches(a)
           /\ Appraisal!HasDefect(a, "INVALID_QE_REPORT_SIGNATURE") = ~QeReportSigned(a)
           /\ Appraisal!HasDefect(a, "INVALID_QE_REPORT_DATA") = ~AttestKeyBound(a)
           /\ Appraisal!HasDefect(a, "QE_IDENTITY_MISMATCH") = ~QeIdentityMatches(a)
           /\ Appraisal!HasDefect(a, "INVALID_QUOTE_SIGNATURE") = ~QuoteSigned(a)
  BY SameChecks DEF Appraisal!HasDefect

\* A call with a defect is not acceptable.
LEMMA DefectsMatter ==
    ASSUME NEW a, NEW e \in Appraisal!Defects, Appraisal!HasDefect(a, e)
    PROVE  ~Acceptable(a)
  BY DefectsSay DEF Appraisal!Defects, Acceptable, WellFormed, Genuine, CollateralMatches

(***************************************************************************)
(* Ratings: flags for statuses, levels that no other dominates for the     *)
(* first ones of the sets.                                                 *)
(***************************************************************************)
\* The flags of a status tell which it is.
LEMMA FlagsTell ==
    ASSUME NEW s \in TcbInfoStatuses
    PROVE  /\ "revoked" \in Appraisal!Flags(s) <=> s = "Revoked"
           /\ "outOfDate" \in Appraisal!Flags(s) <=> s \in { "OutOfDate", "OutOfDateConfigurationNeeded" }
           /\ "configuration" \in Appraisal!Flags(s) <=>
                 s \in { "ConfigurationNeeded", "OutOfDateConfigurationNeeded",
                         "ConfigurationAndSWHardeningNeeded" }
           /\ "hardening" \in Appraisal!Flags(s) <=>
                 s \in { "SWHardeningNeeded", "ConfigurationAndSWHardeningNeeded" }
           /\ Appraisal!Flags(s) \subseteq { "revoked", "outOfDate", "configuration", "hardening" }
  BY DEF Appraisal!Flags, TcbInfoStatuses

\* No two statuses have the same flags or are returned as the same.
LEMMA StatusesDiffer ==
    ASSUME NEW s \in TcbInfoStatuses, NEW t \in TcbInfoStatuses,
           Appraisal!Flags(s) = Appraisal!Flags(t) \/ ToStatus(s) = ToStatus(t)
    PROVE  s = t
<1>1. CASE Appraisal!Flags(s) = Appraisal!Flags(t)
  BY <1>1, FlagsTell DEF TcbInfoStatuses
<1>2. CASE ToStatus(s) = ToStatus(t)
  BY <1>2 DEF TcbInfoStatuses, ToStatus
<1>. QED BY <1>1, <1>2

\* The flags of components count as far as they say revoked or out of date.
ComponentFlags(components) ==
    (UNION { Appraisal!Flags(c.status) : c \in components }) \intersect { "outOfDate", "revoked" }

LEMMA ComponentFlagsAre ==
    ASSUME NEW components, Statuses(components) \subseteq { "UpToDate", "OutOfDate", "Revoked" }
    PROVE  /\ ComponentFlags(components) \subseteq { "outOfDate", "revoked" }
           /\ "revoked" \in ComponentFlags(components) <=> "Revoked" \in Statuses(components)
           /\ "outOfDate" \in ComponentFlags(components) <=> "OutOfDate" \in Statuses(components)
<1>1. \A c \in components : c.status \in { "UpToDate", "OutOfDate", "Revoked" }
  BY DEF Statuses
<1>2. /\ \A c \in components : "revoked" \in Appraisal!Flags(c.status) <=> c.status = "Revoked"
      /\ \A c \in components : "outOfDate" \in Appraisal!Flags(c.status) <=> c.status = "OutOfDate"
  BY <1>1, FlagsTell DEF TcbInfoStatuses
<1>. QED BY <1>2 DEF ComponentFlags, Statuses

\* The tables of convergeTcbStatus are a union of flags.
LEMMA ConvergenceIsUnion ==
    ASSUME NEW s \in TcbInfoStatuses, NEW components,
           Statuses(components) \subseteq { "UpToDate", "OutOfDate", "Revoked" }
    PROVE  /\ ConvergeEvaluation(s, Statuses(components)) \in TcbInfoStatuses
           /\ Appraisal!Normalised(Appraisal!Flags(s) \union ComponentFlags(components))
                = Appraisal!Flags(ConvergeEvaluation(s, Statuses(components)))
<1> DEFINE parts == Statuses(components)
           worse == ComponentFlags(components)
           rated == ConvergeEvaluation(s, parts)
           all == Appraisal!Flags(s) \union worse
<1>1. rated \in TcbInfoStatuses
  BY DEF ConvergeEvaluation, TcbInfoStatuses
<1>2. /\ worse \subseteq { "outOfDate", "revoked" }
      /\ "revoked" \in worse <=> "Revoked" \in parts
      /\ "outOfDate" \in worse <=> "OutOfDate" \in parts
  BY ComponentFlagsAre
<1>3. /\ \A f \in all : f \in { "revoked", "outOfDate", "configuration", "hardening" }
      /\ "revoked" \in all <=> s = "Revoked" \/ "Revoked" \in parts
      /\ "outOfDate" \in all <=>
            s \in { "OutOfDate", "OutOfDateConfigurationNeeded" } \/ "OutOfDate" \in parts
      /\ "configuration" \in all <=>
            s \in { "ConfigurationNeeded", "OutOfDateConfigurationNeeded",
                    "ConfigurationAndSWHardeningNeeded" }
      /\ "hardening" \in all <=> s \in { "SWHardeningNeeded", "ConfigurationAndSWHardeningNeeded" }
  BY <1>2, FlagsTell
<1>. HIDE DEF worse, all, parts
<1>4. CASE "revoked" \in all
  <2>1. rated = "Revoked"
    BY <1>3, <1>4 DEF ConvergeEvaluation
  <2>2. Appraisal!Normalised(all) = { "revoked" }
    BY <1>4 DEF Appraisal!Normalised
  <2>3. Appraisal!Flags(rated) = { "revoked" }
    BY <2>1 DEF Appraisal!Flags
  <2>. QED BY <1>1, <2>2, <2>3 DEF parts, all, worse
<1>5. CASE "revoked" \notin all /\ "outOfDate" \in all
  <2>1. Appraisal!Normalised(all) = all \ { "hardening" }
    BY <1>5 DEF Appraisal!Normalised
  <2>2. rated = IF "configuration" \in all THEN "OutOfDateConfigurationNeeded" ELSE "OutOfDate"
    BY <1>3, <1>5 DEF ConvergeEvaluation, TcbInfoStatuses
  <2>3. Appraisal!Flags(rated) = IF "configuration" \in all THEN { "outOfDate", "configuration" }
                                                            ELSE { "outOfDate" }
    BY <2>2 DEF Appraisal!Flags
  <2>4. all \ { "hardening" } = IF "configuration" \in all THEN { "outOfDate", "configuration" }
                                                           ELSE { "outOfDate" }
    BY <1>3, <1>5
  <2>. QED BY <1>1, <2>1, <2>3, <2>4 DEF parts, all, worse
<1>6. CASE "revoked" \notin all /\ "outOfDate" \notin all
  <2>1. Appraisal!Normalised(all) = all
    BY <1>6 DEF Appraisal!Normalised
  <2>2. rated = s /\ worse = {}
    <3>1. "Revoked" \notin parts /\ "OutOfDate" \notin parts
      BY <1>3, <1>6
    <3>. QED BY <1>2, <3>1 DEF ConvergeEvaluation
  <2>3. all = Appraisal!Flags(s)
    BY <2>2 DEF all
  <2>. QED BY <1>1, <2>1, <2>2, <2>3 DEF parts, all, worse
<1>. QED BY <1>4, <1>5, <1>6

\* A vector that is greater is not reached, component by component.
LEMMA GreaterIsNotReached ==
    ASSUME NEW x \in [ SvnIndex -> Nat ], NEW y \in [ SvnIndex -> Nat ], SvnsGreater(x, y)
    PROVE  ~Appraisal!AreSvnsHigherOrEqual(y, x, 0)
<1>1. PICK i \in SvnIndex : x[i] > y[i]
  BY DEF SvnsGreater
<1>2. x[i] \in Nat /\ y[i] \in Nat /\ ~(y[i] >= x[i])
  BY <1>1
<1>. QED BY <1>1, <1>2 DEF Appraisal!AreSvnsHigherOrEqual, SvnIndex

\* The first level of those that match is one that no other dominates.
LEMMA FirstIsUndominated ==
    ASSUME NEW a \in Args, NEW selection \in SUBSET a.tcbInfo.levels, selection # {}
    PROVE  LET first == FirstTcbLevel(a.tcbInfo.id, selection)
           IN  /\ first \in selection
               /\ ~\E m \in selection : Appraisal!Dominates(a, a.tcbInfo.id, m, first)
<1> DEFINE first == FirstTcbLevel(a.tcbInfo.id, selection)
<1>1. first \in selection /\ \A other \in selection \ { first } : TcbLevelGreater(a.tcbInfo.id, first, other)
  BY LevelsAssumption DEF FirstTcbLevel
<1>. HIDE DEF first
<1>2. ASSUME NEW m \in selection, Appraisal!Dominates(a, a.tcbInfo.id, m, first)
      PROVE  FALSE
  <2>1. TcbLevelGreater(a.tcbInfo.id, first, m)
    BY <1>1, <1>2 DEF Appraisal!Dominates
  <2>2. /\ Appraisal!AreSvnsHigherOrEqual(m.sgx, first.sgx, 0)
        /\ m.pceSvn >= first.pceSvn
        /\ a.tcbInfo.id = "TDX" => Appraisal!AreSvnsHigherOrEqual(m.tdx, first.tdx, 0)
    BY <1>2 DEF Appraisal!Dominates
  <2>3. /\ m.sgx \in [ SvnIndex -> Nat ] /\ first.sgx \in [ SvnIndex -> Nat ]
        /\ m.pceSvn \in Nat /\ first.pceSvn \in Nat
        /\ a.tcbInfo.id = "TDX" => m.tdx \in [ SvnIndex -> Nat ] /\ first.tdx \in [ SvnIndex -> Nat ]
    BY <1>1, <1>2, FormatsAssumption
  <2>4. ~SvnsGreater(first.sgx, m.sgx)
    BY <2>2, <2>3, GreaterIsNotReached
  <2>5. ~(first.pceSvn > m.pceSvn)
    BY <2>2, <2>3
  <2>6. a.tcbInfo.id = "TDX" => ~SvnsGreater(first.tdx, m.tdx)
    BY <2>2, <2>3, GreaterIsNotReached
  <2>. QED BY <2>1, <2>4, <2>5, <2>6 DEF TcbLevelGreater
<1>. QED BY <1>1, <1>2 DEF first

\* The QE's component is the level that no other reaches.
LEMMA QeComponentsAreLevels ==
    ASSUME NEW a \in Args, QeSupported(a.qeIdentity, a.quote.qeReport.isvSvn)
    PROVE  QeComponents(a.qeIdentity, a.quote.qeReport.isvSvn) = Appraisal!QeLevels(a)
<1> DEFINE svn == a.quote.qeReport.isvSvn
<1>. SUFFICES ASSUME NEW identity \in a.qeIdentity
              PROVE  GetIdentityTcbLevel(identity, svn) \in Appraisal!QeLevels(a)
  BY QeLevelsAreFound DEF QeComponents
<1> DEFINE candidates == IdentityCandidates(identity, svn)
           found == GetIdentityTcbLevel(identity, svn)
<1>1. /\ \A l \in identity.levels : l.isvSvn \in Int /\ l.tcbDate \in Int
      /\ \A selection \in SUBSET identity.levels :
            selection # {} =>
              \E l \in selection : \A other \in selection \ {l} :
                  IdentityTcbLevelGreater(l, other)
  BY EvidenceAssumption
<1>2. candidates # {} /\ candidates \in SUBSET identity.levels
  BY DEF QeSupported, IdentityCandidates
<1>3. found \in candidates /\ \A other \in candidates \ { found } : IdentityTcbLevelGreater(found, other)
  <2>1. \E l \in candidates : \A other \in candidates \ { l } : IdentityTcbLevelGreater(l, other)
    BY <1>1, <1>2
  <2>2. found = CHOOSE l \in candidates :
                  \A other \in candidates \ { l } : IdentityTcbLevelGreater(l, other)
    BY DEF GetIdentityTcbLevel
  <2>. HIDE DEF candidates, found
  <2>. QED BY <2>1, <2>2
<1>4. /\ found \in identity.levels /\ found.isvSvn <= svn
      /\ \A m \in identity.levels : m.isvSvn <= svn => m \in candidates
  BY <1>3 DEF IdentityCandidates
<1>. HIDE DEF candidates, found
<1>5. ASSUME NEW m \in identity.levels, m.isvSvn <= svn
      PROVE  m.isvSvn < found.isvSvn \/ (m.isvSvn = found.isvSvn /\ m.tcbDate <= found.tcbDate)
  BY <1>1, <1>3, <1>4, <1>5 DEF IdentityTcbLevelGreater
<1>6. found \in { l \in identity.levels :
                    /\ l.isvSvn <= svn
                    /\ \A m \in identity.levels :
                          m.isvSvn <= svn =>
                            m.isvSvn < l.isvSvn \/ (m.isvSvn = l.isvSvn /\ m.tcbDate <= l.tcbDate) }
  BY <1>4, <1>5
<1>. QED BY <1>6 DEF Appraisal!QeLevels, found

\* Without a candidate, there is no level.
LEMMA NoQeLevels ==
    ASSUME NEW a \in Args, ~QeSupported(a.qeIdentity, a.quote.qeReport.isvSvn)
    PROVE  a.qeIdentity # {} /\ Appraisal!QeLevels(a) = {}
<1>1. PICK identity \in a.qeIdentity : IdentityCandidates(identity, a.quote.qeReport.isvSvn) = {}
  BY DEF QeSupported
<1>2. a.qeIdentity = { identity }
  BY <1>1, EvidenceAssumption
<1>. QED BY <1>1, <1>2 DEF Appraisal!QeLevels, IdentityCandidates

\* The levels that the platform reaches.
Matching(a, svns) ==
    IF a.quote.teeType = "SGX" THEN SgxMatchingLevels(a.tcbInfo, a.pckCert.tcb)
                               ELSE TdxMatchingLevels(a.tcbInfo, a.pckCert.tcb, svns)

ModuleSupported(a, svns) == a.quote.teeType = "TDX" => TdxModuleSupported(a.tcbInfo, svns)

QeIsSupported(a) == QeSupported(a.qeIdentity, a.quote.qeReport.isvSvn)

LEMMA SameLevels ==
    ASSUME NEW a, NEW svns
    PROVE  /\ Appraisal!PlatformLevels(a, svns)
                = { l \in Matching(a, svns) :
                      ~\E m \in Matching(a, svns) : Appraisal!Dominates(a, a.tcbInfo.id, m, l) }
           /\ Appraisal!TdxModuleSupported(a.tcbInfo, svns) = TdxModuleSupported(a.tcbInfo, svns)
           /\ Matching(a, svns) \subseteq a.tcbInfo.levels
<1>1. /\ Appraisal!SgxMatchingLevels(a.tcbInfo, a.pckCert.tcb)
           = SgxMatchingLevels(a.tcbInfo, a.pckCert.tcb)
      /\ Appraisal!TdxMatchingLevels(a.tcbInfo, a.pckCert.tcb, svns)
           = TdxMatchingLevels(a.tcbInfo, a.pckCert.tcb, svns)
  BY DEF Appraisal!SgxMatchingLevels, SgxMatchingLevels, Appraisal!TdxMatchingLevels,
     TdxMatchingLevels, Appraisal!AreSvnsHigherOrEqual, AreSvnsHigherOrEqual, Appraisal!StartIndex,
     StartIndex, Appraisal!TDX_MODULE_MAJOR_SVN_INDEX, TDX_MODULE_MAJOR_SVN_INDEX
<1>2. Appraisal!TdxModuleSupported(a.tcbInfo, svns) = TdxModuleSupported(a.tcbInfo, svns)
  BY SameModules, SameSelections DEF Appraisal!TdxModuleSupported, TdxModuleSupported,
     Appraisal!TdxModuleCandidates, TdxModuleCandidates, Appraisal!TdxModuleStatuses,
     TdxModuleStatuses, Appraisal!TDX_MODULE_MAJOR_SVN_INDEX, TDX_MODULE_MAJOR_SVN_INDEX,
     Appraisal!TDX_MODULE_MINOR_SVN_INDEX, TDX_MODULE_MINOR_SVN_INDEX
<1>3. Matching(a, svns) \subseteq a.tcbInfo.levels
  BY DEF Matching, SgxMatchingLevels, TdxMatchingLevels
<1>. QED BY <1>1, <1>2, <1>3 DEF Appraisal!PlatformLevels, Matching

\* What an evaluation rates: the first of the levels the platform reaches.
LEMMA EvaluateIs ==
    ASSUME NEW a \in Args, NEW svns
    PROVE  Evaluate(a, svns) =
             IF Matching(a, svns) = {} \/ ~ModuleSupported(a, svns) \/ ~QeIsSupported(a) THEN {}
             ELSE { FinalizeTcbEvaluation(FirstTcbLevel(a.tcbInfo.id, Matching(a, svns)),
                                          Components(a, svns)) }
<1>1. a.quote.teeType \in { "SGX", "TDX" }
  BY FormatsAssumption
<1>2. CASE a.quote.teeType = "SGX"
  <2>1. Components(a, svns) = QeComponents(a.qeIdentity, a.quote.qeReport.isvSvn)
    BY <1>2 DEF Components, Appraisal!ModuleLevels
  <2>. QED BY <1>2, <2>1 DEF Evaluate, SgxEvaluateTCB, Matching, ModuleSupported, QeIsSupported
<1>3. CASE a.quote.teeType = "TDX"
  <2>1. Components(a, svns) = TdxModuleComponents(a.tcbInfo, svns)
                                \union QeComponents(a.qeIdentity, a.quote.qeReport.isvSvn)
    BY <1>3, SameModules DEF Components, Appraisal!ModuleLevels
  <2>. QED BY <1>3, <2>1 DEF Evaluate, TdxEvaluateTCB, Matching, ModuleSupported, QeIsSupported
<1>. QED BY <1>1, <1>2, <1>3

\* A call is rated when it can be.
LEMMA RatableIs ==
    ASSUME NEW a \in Args, NEW svns
    PROVE  Appraisal!Ratable(a, svns) = (Evaluate(a, svns) # {})
<1>1. Appraisal!PlatformLevels(a, svns) # {} <=> Matching(a, svns) # {}
  <2>1. ASSUME Matching(a, svns) # {} PROVE Appraisal!PlatformLevels(a, svns) # {}
    <3>1. PICK first : /\ first \in Matching(a, svns)
                       /\ ~\E m \in Matching(a, svns) : Appraisal!Dominates(a, a.tcbInfo.id, m, first)
      BY <2>1, SameLevels, FirstIsUndominated
    <3>. QED BY <3>1, SameLevels
  <2>2. Appraisal!PlatformLevels(a, svns) \subseteq Matching(a, svns)
    <3>1. Appraisal!PlatformLevels(a, svns)
            = { l \in Matching(a, svns) :
                  ~\E m \in Matching(a, svns) : Appraisal!Dominates(a, a.tcbInfo.id, m, l) }
      BY SameLevels
    <3>. QED BY <3>1
  <2>. QED BY <2>1, <2>2
<1>2. (a.qeIdentity # {} => Appraisal!QeLevels(a) # {}) <=> QeIsSupported(a)
  <2>1. ASSUME QeIsSupported(a), a.qeIdentity # {} PROVE Appraisal!QeLevels(a) # {}
    <3>1. QeComponents(a.qeIdentity, a.quote.qeReport.isvSvn) = Appraisal!QeLevels(a)
      BY <2>1, QeComponentsAreLevels DEF QeIsSupported
    <3>2. PICK identity : identity \in a.qeIdentity
      BY <2>1
    <3>3. GetIdentityTcbLevel(identity, a.quote.qeReport.isvSvn)
            \in QeComponents(a.qeIdentity, a.quote.qeReport.isvSvn)
      BY <3>2 DEF QeComponents
    <3>. QED BY <3>1, <3>3
  <2>. QED BY <2>1, NoQeLevels DEF QeIsSupported
<1>3. (a.quote.teeType = "TDX" => Appraisal!TdxModuleSupported(a.tcbInfo, svns))
        <=> ModuleSupported(a, svns)
  BY SameLevels DEF ModuleSupported
<1>4. Appraisal!Ratable(a, svns) <=>
        Matching(a, svns) # {} /\ QeIsSupported(a) /\ ModuleSupported(a, svns)
  BY <1>1, <1>2, <1>3 DEF Appraisal!Ratable
<1>5. Appraisal!Ratable(a, svns) \in BOOLEAN
  BY DEF Appraisal!Ratable
<1>. QED BY <1>4, <1>5, EvaluateIs

\* The rating is that of a level that no other dominates.
LEMMA EvaluateRates ==
    ASSUME NEW a \in Args, NEW svns, NEW e \in Evaluate(a, svns),
           svns[TDX_MODULE_MAJOR_SVN_INDEX] \in Nat
    PROVE  \E level \in Appraisal!PlatformLevels(a, svns), s \in TcbInfoStatuses :
             /\ e.tcbStatus = ToStatus(s)
             /\ Appraisal!Rating(a, svns, level).flags = Appraisal!Flags(s)
             /\ Appraisal!Rating(a, svns, level).tcbDate = e.tcbDate
             /\ Appraisal!Rating(a, svns, level).advisoryIds = e.advisoryIds
<1> DEFINE level == FirstTcbLevel(a.tcbInfo.id, Matching(a, svns))
           components == Components(a, svns)
           s == ConvergeEvaluation(level.status, Statuses(components))
<1>1. /\ Matching(a, svns) # {} /\ QeIsSupported(a)
      /\ e = FinalizeTcbEvaluation(level, components)
  BY EvaluateIs
<1>2. /\ level \in Matching(a, svns) /\ level \in a.tcbInfo.levels
      /\ level \in Appraisal!PlatformLevels(a, svns)
  BY <1>1, SameLevels, FirstIsUndominated
<1>3. level.status \in TcbInfoStatuses
  BY <1>2, LevelsAssumption
<1>4. components = Appraisal!QeLevels(a) \union Appraisal!ModuleLevels(a, svns)
  BY <1>1, QeComponentsAreLevels DEF Components, QeIsSupported
<1>5. Statuses(components) \subseteq { "UpToDate", "OutOfDate", "Revoked" }
  BY <1>1, <1>4, QeLevelsAreFound, EvaluateConverges DEF Statuses, IdentityStatuses,
     TdxModuleStatuses, QeIsSupported
<1>. HIDE DEF level, components
<1>6. /\ s \in TcbInfoStatuses
      /\ Appraisal!Normalised(Appraisal!Flags(level.status) \union ComponentFlags(components))
           = Appraisal!Flags(s)
  BY <1>3, <1>5, ConvergenceIsUnion
<1>7. /\ e.tcbStatus = ToStatus(s)
      /\ e.tcbDate = Earliest({ level.tcbDate } \union { c.tcbDate : c \in components })
      /\ e.advisoryIds = level.advisoryIds \union UNION { c.advisoryIds : c \in components }
  BY <1>1 DEF FinalizeTcbEvaluation, ConvergeTcbStatuses, Statuses
<1>8. Appraisal!Rating(a, svns, level)
        = [ flags |-> Appraisal!Normalised(Appraisal!Flags(level.status) \union ComponentFlags(components)),
            tcbDate |-> Earliest({ level.tcbDate } \union { c.tcbDate : c \in components }),
            advisoryIds |-> level.advisoryIds \union UNION { c.advisoryIds : c \in components } ]
  BY <1>4, SameStatuses DEF Appraisal!Rating, ComponentFlags
<1>. HIDE DEF s
<1>. QED BY <1>2, <1>6, <1>7, <1>8

\* The status of printTCBStatus is the one that was found.
LEMMA PrintedIs ==
    ASSUME NEW s \in TcbInfoStatuses
    PROVE  PrintTCBStatus(ToStatus(s)) = s
<1>1. ToStatus(s) \in EvaluatedStatuses
  BY DEF EvaluatedStatuses
<1>2. PrintTCBStatus(ToStatus(s)) = CHOOSE e \in TcbInfoStatuses : ToStatus(e) = ToStatus(s)
  BY <1>1, EvaluatedStatusesListed DEF PrintTCBStatus
<1>. QED BY <1>2, StatusesDiffer

\* What checkForRelaunch makes of two ratings.
LEMMA VerdictIs ==
    ASSUME NEW s \in TcbInfoStatuses, NEW t \in TcbInfoStatuses
    PROVE  /\ Appraisal!Verdict(Appraisal!Flags(s), Appraisal!Flags(t))
                = CheckForRelaunch(ToStatus(s), ToStatus(t))
           /\ Appraisal!Verdict(Appraisal!Flags(s), Appraisal!Flags(s)) = ToStatus(s)
<1>1. (CHOOSE v \in Appraisal!EvaluatedStatuses :
         \E e \in Appraisal!TcbInfoStatuses :
            Appraisal!ToStatus(e) = v /\ Appraisal!Flags(e) = Appraisal!Flags(s)) = ToStatus(s)
  <2> DEFINE Named(v) == \E e \in Appraisal!TcbInfoStatuses :
                            Appraisal!ToStatus(e) = v /\ Appraisal!Flags(e) = Appraisal!Flags(s)
  <2>1. ToStatus(s) \in Appraisal!EvaluatedStatuses /\ Named(ToStatus(s))
    BY SameStatuses DEF EvaluatedStatuses
  <2>2. \A v : Named(v) => v = ToStatus(s)
    BY SameStatuses, StatusesDiffer
  <2>. HIDE DEF Named
  <2>3. (CHOOSE v \in Appraisal!EvaluatedStatuses : Named(v)) = ToStatus(s)
    BY <2>1, <2>2
  <2>. QED BY <2>3 DEF Named
<1> DEFINE helps == /\ "outOfDate" \in Appraisal!Flags(s)
                    /\ Appraisal!Flags(t) \intersect { "outOfDate", "revoked" } = {}
           needed == "configuration" \in Appraisal!Flags(s) \union Appraisal!Flags(t)
<1>2. Appraisal!Verdict(Appraisal!Flags(s), Appraisal!Flags(t))
        = IF helps THEN IF needed THEN "TCB_TD_RELAUNCH_ADVISED_CONFIGURATION_NEEDED"
                                  ELSE "TCB_TD_RELAUNCH_ADVISED"
                   ELSE ToStatus(s)
  BY <1>1 DEF Appraisal!Verdict
<1>3. helps <=> /\ s \in { "OutOfDate", "OutOfDateConfigurationNeeded" }
                /\ t \notin { "OutOfDate", "OutOfDateConfigurationNeeded", "Revoked" }
  BY FlagsTell
<1>4. needed <=> \/ s \in { "ConfigurationNeeded", "OutOfDateConfigurationNeeded",
                            "ConfigurationAndSWHardeningNeeded" }
                 \/ t \in { "ConfigurationNeeded", "OutOfDateConfigurationNeeded",
                            "ConfigurationAndSWHardeningNeeded" }
  BY FlagsTell
<1>. HIDE DEF helps, needed
<1>5. helps <=> RelaunchHelps(ToStatus(s), ToStatus(t))
  BY <1>3 DEF RelaunchHelps, ToStatus, TcbInfoStatuses
<1>6. needed <=> IsConfigurationNeeded(ToStatus(s)) \/ IsConfigurationNeeded(ToStatus(t))
  BY <1>4 DEF IsConfigurationNeeded, ToStatus, TcbInfoStatuses
<1>7. Appraisal!Verdict(Appraisal!Flags(s), Appraisal!Flags(t))
        = CheckForRelaunch(ToStatus(s), ToStatus(t))
  BY <1>2, <1>5, <1>6 DEF CheckForRelaunch
<1>8. Appraisal!Verdict(Appraisal!Flags(s), Appraisal!Flags(s)) = ToStatus(s)
  BY <1>1 DEF Appraisal!Verdict
<1>. QED BY <1>7, <1>8

(***************************************************************************)
(* The refinement: no step shows before the last one, which gives the      *)
(* verdict and writes the buffer. RefusalInv is what a refusal that is     *)
(* under way says.                                                         *)
(***************************************************************************)
Unratable ==
    \/ ~Appraisal!Ratable(args, args.quote.teeTcbSvn)
    \/ HasCurrentTcb(args) /\ ~Appraisal!Ratable(args, args.quote.teeTcbSvn2)

Refused(s) ==
    \/ s \in Appraisal!Defects /\ Appraisal!HasDefect(args, s)
    \/ s = "TCB_NOT_SUPPORTED" /\ Unratable

RefusalInv ==
    /\ pc = "verified" /\ status \in ErrorStatuses => Refused(status)
    /\ pc = "currentTcb" => HasCurrentTcb(args)

\* The checks of verify name a defect.
LEMMA ChecksRefuse ==
    ASSUME \/ CheckParameters \/ CheckBufferParameters \/ ParseQuote \/ ParsePckCrl
           \/ ParseTcbInfo \/ ParseQeIdentity \/ ParsePckCert \/ CheckPckSubject
           \/ CheckCrlIssuer \/ CheckRevocation \/ CheckTcbInfoMatches
           \/ VerifyCertificationData \/ CheckPckKey \/ CheckTdxModule
           \/ CheckQeReportSignature \/ CheckQeReportData \/ CheckQeIdentity
           \/ CheckAttestKey \/ CheckQuoteSignature,
           args \in Args, pc' \in { "verified", "returned" }
    PROVE  status' \in Appraisal!Defects /\ Appraisal!HasDefect(args, status')
<1>. USE DefectsSay DEF Check, ApiCheck, VerifierCheck, Appraisal!Defects
<1>1. CASE CheckParameters \/ CheckBufferParameters \/ ParseQuote \/ ParsePckCrl
           \/ ParseTcbInfo \/ ParseQeIdentity
  BY <1>1 DEF CheckParameters, CheckBufferParameters, ParseQuote, ParsePckCrl, ParseTcbInfo,
     ParseQeIdentity
<1>2. CASE ParsePckCert
  BY <1>2, FormatsAssumption DEF ParsePckCert
<1>3. CASE CheckPckSubject \/ CheckCrlIssuer \/ CheckRevocation \/ CheckTcbInfoMatches
           \/ VerifyCertificationData \/ CheckPckKey \/ CheckTdxModule
  BY <1>3 DEF CheckPckSubject, CheckCrlIssuer, CheckRevocation, CheckTcbInfoMatches,
     VerifyCertificationData, CheckPckKey, CheckTdxModule
<1>4. CASE CheckQeReportSignature \/ CheckQeReportData \/ CheckQeIdentity
           \/ CheckAttestKey \/ CheckQuoteSignature
  BY <1>4 DEF CheckQeReportSignature, CheckQeReportData, CheckQeIdentity, CheckAttestKey,
     CheckQuoteSignature
<1>. QED BY <1>1, <1>2, <1>3, <1>4

\* The evaluations refuse what cannot be rated.
LEMMA EvaluationsRefuse ==
    ASSUME DataInv, RefusalInv, EvaluateLaunchTcb \/ EvaluateCurrentTcb, pc' = "verified"
    PROVE  status' = "TCB_NOT_SUPPORTED" /\ Unratable /\ UNCHANGED args
<1>. args \in Args
  BY DEF DataInv, TypeOK
<1>1. CASE EvaluateLaunchTcb
  BY <1>1, RatableIs DEF EvaluateLaunchTcb, Unratable
<1>2. CASE EvaluateCurrentTcb
  BY <1>2, RatableIs DEF EvaluateCurrentTcb, Unratable, RefusalInv
<1>. QED BY <1>1, <1>2

LEMMA InitRefusalInv == Init => RefusalInv
  BY DEF Init, RefusalInv

LEMMA NextRefusalInv == DataInv /\ RefusalInv /\ [Next]_vars => RefusalInv'
<1>. SUFFICES ASSUME DataInv, RefusalInv, [Next]_vars PROVE RefusalInv'
  OBVIOUS
<1>1. args \in Args /\ args' = args
  <2>1. args \in Args
    BY DEF DataInv, TypeOK
  <2>2. CASE EvaluateLaunchTcb \/ EvaluateCurrentTcb \/ FillCollateralInfo \/ ReturnStatus
             \/ UNCHANGED vars
    BY <2>1, <2>2
    DEF EvaluateLaunchTcb, EvaluateCurrentTcb, FillCollateralInfo, ReturnStatus, vars
  <2>. QED BY <2>1, <2>2, ChecksStep DEF Next, CheckStep
<1>2. /\ Unratable' = Unratable
      /\ Refused(status)' = Refused(status')
  BY <1>1 DEF Unratable, Refused
<1>3. CASE \/ CheckParameters \/ CheckBufferParameters \/ ParseQuote \/ ParsePckCrl
           \/ ParseTcbInfo \/ ParseQeIdentity \/ ParsePckCert \/ CheckPckSubject
           \/ CheckCrlIssuer \/ CheckRevocation \/ CheckTcbInfoMatches
           \/ VerifyCertificationData \/ CheckPckKey \/ CheckTdxModule
           \/ CheckQeReportSignature \/ CheckQeReportData \/ CheckQeIdentity
           \/ CheckAttestKey \/ CheckQuoteSignature
  <2>1. pc' # "currentTcb"
    BY <1>3 DEF Check, ApiCheck, VerifierCheck, CheckParameters, CheckBufferParameters, ParseQuote,
       ParsePckCrl, ParseTcbInfo, ParseQeIdentity, ParsePckCert, CheckPckSubject, CheckCrlIssuer,
       CheckRevocation, CheckTcbInfoMatches, VerifyCertificationData, CheckPckKey, CheckTdxModule,
       CheckQeReportSignature, CheckQeReportData, CheckQeIdentity, CheckAttestKey,
       CheckQuoteSignature
  <2>2. pc' = "verified" => Refused(status')
    BY <1>1, <1>3, ChecksRefuse DEF Refused
  <2>. QED BY <1>2, <2>1, <2>2 DEF RefusalInv
<1>4. CASE EvaluateLaunchTcb \/ EvaluateCurrentTcb
  <2>1. pc' = "currentTcb" => HasCurrentTcb(args)
    BY <1>4 DEF EvaluateLaunchTcb, EvaluateCurrentTcb
  <2>2. pc' = "verified" => Refused(status')
    BY <1>4, EvaluationsRefuse DEF Refused
  <2>. QED BY <1>1, <1>2, <2>1, <2>2 DEF RefusalInv
<1>5. CASE FillCollateralInfo
  <2>1. PICK l \in launch, c \in CurrentOrLaunch : status' = LaunchStatus(l, c) /\ pc' = "verified"
    BY <1>5 DEF FillCollateralInfo
  <2>2. l.tcbStatus \in EvaluatedStatuses
    BY <1>1, EvaluateResult DEF DataInv, Evaluations
  <2>3. status' \in TcbVerdicts
    BY <2>1, <2>2, CheckForRelaunchStatus DEF LaunchStatus, TcbVerdicts
  <2>. QED BY <2>1, <2>3, TcbVerdictsListed DEF RefusalInv, ErrorStatuses
<1>6. CASE ReturnStatus
  BY <1>6 DEF ReturnStatus, RefusalInv
<1>7. CASE UNCHANGED vars
  BY <1>1, <1>2, <1>7 DEF vars, RefusalInv
<1>. QED BY <1>3, <1>4, <1>5, <1>6, <1>7 DEF Next

\* A refusal that is returned is one that the abstract specification may give.
LEMMA RefusalRefines ==
    ASSUME args \in Args, pc # "returned", pc' = "returned", UNCHANGED <<args, buffer>>,
           Refused(status'), status' = "TCB_NOT_SUPPORTED" => Acceptable(args)
    PROVE  Appraisal!Next
<1>1. CASE status' \in Appraisal!Defects /\ Appraisal!HasDefect(args, status')
  <2>1. ~Appraisal!Acceptable(args)
    BY <1>1, DefectsMatter, SameAcceptable
  <2>. QED BY <1>1, <2>1 DEF Appraisal!Next, Appraisal!Reject
<1>2. CASE status' = "TCB_NOT_SUPPORTED" /\ Unratable
  <2>1. Appraisal!Acceptable(args)
    BY <1>2, SameAcceptable
  <2>2. Appraisal!HasCurrentTcb(args) = HasCurrentTcb(args)
    BY SameChecks
  <2>. QED BY <1>2, <2>1, <2>2 DEF Appraisal!Next, Appraisal!RejectUnratable, Unratable
<1>. QED BY <1>1, <1>2 DEF Refused

\* The buffer of a rated call describes the two ratings.
LEMMA BufferIs ==
    ASSUME NEW a \in Args, NEW s \in TcbInfoStatuses, NEW t \in TcbInfoStatuses,
           NEW l, NEW c, NEW v, NEW ratedLaunch, NEW ratedCurrent, NEW info,
           l.tcbDate = ratedLaunch.tcbDate, l.advisoryIds = ratedLaunch.advisoryIds,
           c.tcbDate = ratedCurrent.tcbDate, c.advisoryIds = ratedCurrent.advisoryIds,
           c.tcbStatus = ToStatus(t), ratedCurrent.flags = Appraisal!Flags(t),
           v \in RelaunchStatuses \/ v = ToStatus(s),
           Recorded(info, Appraisal!Collateral(a)),
           info.launchTcb = { TcbEntry(l, v) }, info.currentTcb = { TcbEntry(c, c.tcbStatus) }
    PROVE  Appraisal!BufferDescribes(Aggregate(info), a, v, ratedLaunch, ratedCurrent)
<1> DEFINE b == Aggregate(info)
           shown == TcbEntry(l, v)
           shownCurrent == TcbEntry(c, c.tcbStatus)
<1>1. /\ b.issueDateMin = Appraisal!Earliest({ i.issueDate : i \in Appraisal!Collateral(a) })
      /\ b.issueDateMax = Appraisal!Latest({ i.issueDate : i \in Appraisal!Collateral(a) })
      /\ b.expirationDate = Appraisal!Earliest({ i.nextUpdate : i \in Appraisal!Collateral(a) })
      /\ b.tcbEvaluationDataNumber
           = Appraisal!Earliest({ i.tcbEvaluationDataNumber : i \in Appraisal!Collateral(a) })
  BY SameStatuses DEF Aggregate, Recorded
<1>2. b.launchTcb = { shown } /\ b.currentTcb = { shownCurrent }
  BY DEF Aggregate
<1>3. /\ shown.tcbDate = ratedLaunch.tcbDate /\ shown.advisoryIds = ratedLaunch.advisoryIds
      /\ shownCurrent.tcbDate = ratedCurrent.tcbDate
      /\ shownCurrent.advisoryIds = ratedCurrent.advisoryIds
      /\ shown.tcbStatus = PrintTCBStatus(v)
      /\ shownCurrent.tcbStatus = PrintTCBStatus(ToStatus(t))
  BY DEF TcbEntry
<1>4. Appraisal!Flags(shownCurrent.tcbStatus) = ratedCurrent.flags
  BY <1>3, PrintedIs
<1>5. /\ shown.tcbStatus \in Appraisal!TcbInfoStatuses => Appraisal!ToStatus(shown.tcbStatus) = v
      /\ shown.tcbStatus \notin Appraisal!TcbInfoStatuses => v \in Appraisal!RelaunchStatuses
  <2>1. CASE v \in RelaunchStatuses
    <3>1. shown.tcbStatus \notin TcbInfoStatuses
      <4>1. v \notin EvaluatedStatuses
        BY <2>1, EvaluatedStatusesListed DEF RelaunchStatuses
      <4>2. PrintTCBStatus(v) \in { "TDRelaunchAdvised", "TDRelaunchAdvisedConfigurationNeeded" }
        BY <2>1, <4>1 DEF PrintTCBStatus, RelaunchStatuses
      <4>. QED BY <1>3, <4>2 DEF TcbInfoStatuses
    <3>. QED BY <2>1, <3>1, SameStatuses
  <2>2. CASE v = ToStatus(s)
    <3>1. shown.tcbStatus = s
      BY <1>3, <2>2, PrintedIs
    <3>. QED BY <2>2, <3>1, SameStatuses
  <2>. QED BY <2>1, <2>2
<1>. HIDE DEF b, shown, shownCurrent
<1>6. Appraisal!BufferDescribes(b, a, v, ratedLaunch, ratedCurrent)
  BY <1>1, <1>2, <1>3, <1>4, <1>5 DEF Appraisal!BufferDescribes
<1>. QED BY <1>6 DEF b

\* A verdict that is returned is one that the abstract specification may give.
LEMMA VerdictRefines ==
    ASSUME IInv, DataInv, DatesInv, status \in TcbVerdicts, ReturnStatus
    PROVE  Appraisal!Next
<1> DEFINE svns == args.quote.teeTcbSvn
           currentSvns == IF HasCurrentTcb(args) THEN args.quote.teeTcbSvn2 ELSE args.quote.teeTcbSvn
<1>1. /\ args \in Args /\ Acceptable(args) /\ pc = "verified" /\ pc' = "returned"
      /\ verCollInfo.filled /\ buffer = {} /\ UNCHANGED args
      /\ Recorded(verCollInfo, Appraisal!Collateral(args))
  BY DEF IInv, ChainOfTrust, DataInv, DatesInv, TypeOK, ReturnStatus
<1>2. PICK l \in launch, c \in CurrentOrLaunch :
        /\ status = LaunchStatus(l, c)
        /\ verCollInfo.launchTcb = { TcbEntry(l, status) }
        /\ verCollInfo.currentTcb = { TcbEntry(c, c.tcbStatus) }
  BY DEF DataInv, Filled
<1>3. /\ l \in Evaluate(args, svns)
      /\ c \in Evaluate(args, currentSvns)
      /\ ~HasCurrentTcb(args) => c = l
  <2>1. launch = Evaluate(args, svns)
    BY <1>2 DEF DataInv, Evaluations
  <2>2. CASE HasCurrentTcb(args)
    BY <1>2, <2>1, <2>2 DEF DataInv, Evaluations, CurrentOrLaunch
  <2>3. CASE ~HasCurrentTcb(args)
    <3>1. c \in launch
      BY <1>2, <2>3 DEF CurrentOrLaunch
    <3>2. launch = { l }
      BY <1>1, <1>2, <2>1, EvaluateResult
    <3>. QED BY <1>2, <2>1, <2>3, <3>1, <3>2
  <2>. QED BY <2>2, <2>3
<1>4. svns[TDX_MODULE_MAJOR_SVN_INDEX] \in Nat /\ currentSvns[TDX_MODULE_MAJOR_SVN_INDEX] \in Nat
  BY <1>1, EvidenceAssumption
<1>. HIDE DEF svns, currentSvns
<1>5. PICK x \in Appraisal!PlatformLevels(args, svns), s \in TcbInfoStatuses :
        /\ l.tcbStatus = ToStatus(s)
        /\ Appraisal!Rating(args, svns, x).flags = Appraisal!Flags(s)
        /\ Appraisal!Rating(args, svns, x).tcbDate = l.tcbDate
        /\ Appraisal!Rating(args, svns, x).advisoryIds = l.advisoryIds
  BY <1>1, <1>3, <1>4, EvaluateRates
<1>6. PICK y \in Appraisal!PlatformLevels(args, currentSvns), t \in TcbInfoStatuses :
        /\ c.tcbStatus = ToStatus(t)
        /\ Appraisal!Rating(args, currentSvns, y).flags = Appraisal!Flags(t)
        /\ Appraisal!Rating(args, currentSvns, y).tcbDate = c.tcbDate
        /\ Appraisal!Rating(args, currentSvns, y).advisoryIds = c.advisoryIds
  BY <1>1, <1>3, <1>4, EvaluateRates
<1> DEFINE ratedLaunch == Appraisal!Rating(args, svns, x)
           ratedCurrent == Appraisal!Rating(args, currentSvns, y)
<1>7. status = Appraisal!Verdict(ratedLaunch.flags, ratedCurrent.flags)
  <2>1. CASE HasCurrentTcb(args)
    BY <1>2, <1>5, <1>6, <2>1, VerdictIs DEF LaunchStatus
  <2>2. CASE ~HasCurrentTcb(args)
    <3>1. s = t
      BY <1>3, <1>5, <1>6, <2>2, StatusesDiffer
    <3>. QED BY <1>2, <1>5, <1>6, <2>2, <3>1, VerdictIs DEF LaunchStatus
  <2>. QED BY <2>1, <2>2
<1>8. status \in RelaunchStatuses \/ status = ToStatus(s)
  BY <1>2, <1>5 DEF LaunchStatus, CheckForRelaunch, RelaunchStatuses
<1>. HIDE DEF ratedLaunch, ratedCurrent
<1>9. /\ ratedLaunch.tcbDate = l.tcbDate /\ ratedLaunch.advisoryIds = l.advisoryIds
      /\ ratedCurrent.tcbDate = c.tcbDate /\ ratedCurrent.advisoryIds = c.advisoryIds
      /\ ratedCurrent.flags = Appraisal!Flags(t)
  BY <1>5, <1>6 DEF ratedLaunch, ratedCurrent
<1>10. Appraisal!BufferDescribes(Aggregate(verCollInfo), args, status, ratedLaunch, ratedCurrent)
  BY <1>1, <1>2, <1>6, <1>8, <1>9, BufferIs
<1>11. AdvisoriesFit(verCollInfo) <=> Appraisal!Fits(ratedLaunch) /\ Appraisal!Fits(ratedCurrent)
  <2>1. verCollInfo.launchTcb \union verCollInfo.currentTcb
          = { TcbEntry(l, status), TcbEntry(c, c.tcbStatus) }
    BY <1>2
  <2>2. /\ TcbEntry(l, status).advisoryIds = ratedLaunch.advisoryIds
        /\ TcbEntry(c, c.tcbStatus).advisoryIds = ratedCurrent.advisoryIds
    BY <1>9 DEF TcbEntry
  <2>. QED BY <2>1, <2>2, SameStatuses DEF AdvisoriesFit, Appraisal!Fits
<1>12. \/ /\ ~Appraisal!BufferRequested(args)
          /\ status' = status /\ UNCHANGED buffer
       \/ /\ Appraisal!BufferRequested(args)
          /\ status' = status
          /\ Appraisal!Cardinality(buffer') = 1
          /\ \A b \in buffer' :
                Appraisal!BufferDescribes(b, args, status, ratedLaunch, ratedCurrent)
       \/ /\ Appraisal!BufferRequested(args)
          /\ ~Appraisal!Fits(ratedLaunch) \/ ~Appraisal!Fits(ratedCurrent)
          /\ status' = "INVALID_PARAMETER" /\ UNCHANGED buffer
  <2>1. Appraisal!BufferRequested(args) = BufferRequested(args)
    BY SameChecks
  <2>2. CASE ~BufferRequested(args)
    BY <2>1, <2>2 DEF ReturnStatus
  <2>3. CASE BufferRequested(args) /\ AdvisoriesFit(verCollInfo)
    <3>1. buffer' = { Aggregate(verCollInfo) } /\ status' = status
      BY <1>1, <2>3 DEF ReturnStatus
    <3>2. Appraisal!Cardinality(buffer') = 1
      <4>1. Appraisal!Cardinality(buffer') = Cardinality(buffer')
        BY SameStatuses
      <4>. QED BY <3>1, <4>1, FS_Singleton
    <3>. QED BY <1>10, <2>1, <2>3, <3>1, <3>2
  <2>4. CASE BufferRequested(args) /\ ~AdvisoriesFit(verCollInfo)
    BY <1>1, <1>11, <2>1, <2>4 DEF ReturnStatus
  <2>. QED BY <2>2, <2>3, <2>4
<1>13. /\ Appraisal!Acceptable(args)
       /\ Appraisal!Ratable(args, svns)
       /\ HasCurrentTcb(args) => Appraisal!Ratable(args, args.quote.teeTcbSvn2)
       /\ Appraisal!HasCurrentTcb(args) = HasCurrentTcb(args)
  BY <1>1, <1>3, RatableIs, SameAcceptable, SameChecks DEF currentSvns
<1>14. Appraisal!Rate
  <2>1. (IF pc = "returned" THEN status ELSE "none") = "none" /\ pc' = "returned"
    BY <1>1
  <2>. QED BY <1>1, <1>7, <1>12, <1>13, <2>1
           DEF Appraisal!Rate, svns, currentSvns, ratedLaunch, ratedCurrent
<1>. QED BY <1>14 DEF Appraisal!Next

\* A call is pending until it returns.
Answer == IF pc = "returned" THEN status ELSE "none"

LEMMA InitRefines == Init => Appraisal!Init
  BY DEF Init, Appraisal!Init

\* A step shows nothing, or the refusal or the verdict of the abstract specification.
LEMMA NextRefines ==
    IInv /\ DataInv /\ DatesInv /\ RefusalInv /\ [Next]_vars
        => [Appraisal!Next]_<<args, Answer, buffer>>
<1>. SUFFICES ASSUME IInv, DataInv, DatesInv, RefusalInv, [Next]_vars
              PROVE  Appraisal!Next \/ UNCHANGED <<args, Answer, buffer>>
  OBVIOUS
<1>1. args \in Args /\ (pc = "verified" => status \in ErrorStatuses \union TcbVerdicts)
  BY DEF DataInv, TypeOK, Checks
<1>2. CASE \/ CheckParameters \/ CheckBufferParameters \/ ParseQuote \/ ParsePckCrl
           \/ ParseTcbInfo \/ ParseQeIdentity \/ ParsePckCert \/ CheckPckSubject
           \/ CheckCrlIssuer \/ CheckRevocation \/ CheckTcbInfoMatches
           \/ VerifyCertificationData \/ CheckPckKey \/ CheckTdxModule
           \/ CheckQeReportSignature \/ CheckQeReportData \/ CheckQeIdentity
           \/ CheckAttestKey \/ CheckQuoteSignature
  <2>1. pc \in Checks /\ pc' \in Checks \union { "verified", "returned" }
        /\ UNCHANGED <<args, buffer>>
    BY <1>2, ChecksStep DEF CheckStep
  <2>2. CASE pc' # "returned"
    BY <2>1, <2>2 DEF Answer, Checks
  <2>3. CASE pc' = "returned"
    <3>1. status' \in Appraisal!Defects /\ Appraisal!HasDefect(args, status')
      BY <1>1, <1>2, <2>3, ChecksRefuse
    <3>2. status' # "TCB_NOT_SUPPORTED"
      BY <3>1 DEF Appraisal!Defects
    <3>. QED BY <1>1, <2>1, <2>3, <3>1, <3>2, RefusalRefines DEF Refused, Checks
  <2>. QED BY <2>2, <2>3
<1>3. CASE EvaluateLaunchTcb \/ EvaluateCurrentTcb \/ FillCollateralInfo
  <2>1. pc # "returned" /\ pc' # "returned" /\ UNCHANGED <<args, buffer>>
    BY <1>3 DEF EvaluateLaunchTcb, EvaluateCurrentTcb, FillCollateralInfo
  <2>. QED BY <2>1 DEF Answer
<1>4. CASE ReturnStatus
  <2>1. CASE status \in TcbVerdicts
    BY <1>4, <2>1, VerdictRefines
  <2>2. CASE status \notin TcbVerdicts
    <3>1. /\ pc = "verified" /\ pc' = "returned" /\ status \in ErrorStatuses
          /\ ~verCollInfo.filled
      BY <1>1, <1>4, <2>2 DEF ReturnStatus, DataInv
    <3>2. UNCHANGED <<args, status, buffer>>
      BY <1>4, <3>1 DEF ReturnStatus
    <3>3. /\ Refused(status')
          /\ status' = "TCB_NOT_SUPPORTED" => Acceptable(args)
      BY <3>1, <3>2 DEF RefusalInv, IInv, ChainOfTrust
    <3>. QED BY <1>1, <3>1, <3>2, <3>3, RefusalRefines
  <2>. QED BY <2>1, <2>2
<1>5. CASE UNCHANGED vars
  BY <1>5 DEF vars, Answer
<1>. QED BY <1>2, <1>3, <1>4, <1>5 DEF Next

\* A call that returns does what QuoteAppraisal promises: a refusal names an actual defect, a
\* verdict is the rating of a level that no other dominates, the buffer is written with it. That
\* a call returns is a liveness property of the fair specification.
THEOREM ImplementsAppraisalHolds == Spec /\ <>(pc = "returned") => ImplementsAppraisal
<1> DEFINE Inv == IInv /\ DataInv /\ DatesInv /\ RefusalInv
<1>1. Init => Inv /\ Appraisal!Init
  BY InitIInv, InitDataInv, InitDatesInv, InitRefusalInv, InitRefines
<1>2. Inv /\ [Next]_vars => Inv'
  BY NextIInv, NextDataInv, NextDatesInv, NextRefusalInv
<1>3. Inv /\ [Next]_vars => [Appraisal!Next]_<<args, Answer, buffer>>
  BY NextRefines
<1>4. Inv /\ pc = "returned" => Answer # "none"
  BY DEF DataInv, TypeOK, Answer, Checks
<1>. HIDE DEF Inv
<1>. QED BY <1>1, <1>2, <1>3, <1>4, PTL DEF Spec, ImplementsAppraisal, Appraisal!Spec, Answer

=============================================================================
