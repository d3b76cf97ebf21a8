----------------------------- MODULE QuoteChecks -----------------------------
(***************************************************************************)
(* The conditions Verifiers/QuoteVerifier.cpp tests on the arguments of    *)
(* one verification, one operator per check, and their conjunctions. The   *)
(* state machine QuoteVerification makes the checks in the code's order;   *)
(* the specification QuoteAppraisal only says what they amount to.         *)
(*                                                                         *)
(* The argument a of a check is the record of a call:                      *)
(*   missingParameter, buffer   the C parameters                           *)
(*   quote                      the fields Quote::parse extracts           *)
(*   pckCert, crl, tcbInfo      the parsed collateral                      *)
(*   qeIdentity                 the optional QE identity (0 or 1 record)   *)
(* Cryptography is symbolic: a signature is the pair of its key and of the *)
(* data it covers, a SHA-256 digest is the tuple of what was hashed.       *)
(***************************************************************************)
EXTENDS EnclaveReportVerifier

(***************************************************************************)
(* Symbolic cryptography, in place of the OpensslHelpers over OpenSSL.     *)
(***************************************************************************)
OffCurve == "off-curve"     \* bytes that are no point of P-256

Sign(key, data) == [key |-> key, data |-> data]

VerifySha256EcdsaSignature(signature, data, key) == signature = Sign(key, data)

Sha256(a, b) == <<a, b>>

(***************************************************************************)
(* The conditions the code tests, one operator per check.                  *)
(***************************************************************************)
BufferRequested(a) == a.buffer \notin { "null", "null-with-size" }

ParametersPresent(a) == ~a.missingParameter

BufferParametersValid(a) == a.buffer \notin { "null-with-size", "too-small" }

QeIdentityParses(a) == \A identity \in a.qeIdentity : identity.parses

IssuerMatches(a) == a.crl.issuerHasCA /\ a.crl.issuer = a.pckCert.issuer

IsRevoked(a) == a.pckCert.serialNumber \in a.crl.revoked

TeeMatches(a) ==
    IF a.tcbInfo.version >= 3 THEN a.tcbInfo.id = a.quote.teeType
                              ELSE a.quote.teeType # "TDX"

PlatformMatches(a) ==
    a.pckCert.fmspc = a.tcbInfo.fmspc /\ a.pckCert.pceId = a.tcbInfo.pceId

UsesTdxTcbInfo(a) == a.tcbInfo.version >= 3 /\ a.tcbInfo.id = "TDX"

\* The module whose MRSIGNER and ATTRIBUTES the quote must show: the TDX
\* module identity of its major version, or tdxModule for version 0.
ReferenceTdxModules(a) ==
    LET version    == a.quote.teeTcbSvn[TDX_MODULE_MAJOR_SVN_INDEX]
        identities == a.tcbInfo.tdxModuleIdentities
    IN  IF a.quote.version > 3 /\ version > 0
        THEN IF TdxModuleIdentityPositions(identities, version) = {}
             THEN {}
             ELSE { FindTdxModuleIdentity(identities, version) }
        ELSE { a.tcbInfo.tdxModule }

TdxModuleMatches(a) ==
    UsesTdxTcbInfo(a) =>
        \E module \in ReferenceTdxModules(a) :
            /\ a.quote.mrSignerSeam = module.mrSigner
            /\ a.quote.seamAttributes = {}
            /\ a.quote.seamAttributes = module.attributes

QeReportSigned(a) ==
    VerifySha256EcdsaSignature(a.quote.qeReportSignature, a.quote.qeReport,
                               a.pckCert.pubKey)

AttestKeyBound(a) ==
    a.quote.qeReport.reportData = Sha256(a.quote.attestKey, a.quote.qeAuthData)

\* checks 4.1.2.5.15 and 4.1.2.5.16: ISVSVN results do not fail here
QeIdentityMatches(a) ==
    \A identity \in a.qeIdentity :
        /\ identity.id = IF a.quote.teeType = "TDX" THEN "TD_QE" ELSE "QE"
        /\ VerifyEnclaveReport(identity, a.quote.qeReport) \notin MismatchResults

QuoteSigned(a) ==
    VerifySha256EcdsaSignature(a.quote.quoteSignature, a.quote.signedData,
                               a.quote.attestKey)

BODY_TD_REPORT15_TYPE == 3

HasCurrentTcb(a) ==
    a.quote.teeType = "TDX" /\ a.quote.bodyType >= BODY_TD_REPORT15_TYPE

Evaluate(a, teeTcbSvns) ==
    IF a.quote.teeType = "SGX"
    THEN SgxEvaluateTCB(a.pckCert.tcb, a.quote.qeReport.isvSvn, a.tcbInfo, a.qeIdentity)
    ELSE TdxEvaluateTCB(a.pckCert.tcb, a.quote.qeReport.isvSvn, teeTcbSvns,
                        a.tcbInfo, a.qeIdentity)

(***************************************************************************)
(* What the checks amount to.                                              *)
(***************************************************************************)

\* What must be true of the arguments before any TCB verdict is given: every
\* link from the quote's signature up to the PCK certificate, and the match
\* of each piece of collateral with the platform and the TEE.
Genuine(a) ==
    /\ QuoteSigned(a)
    /\ AttestKeyBound(a)
    /\ QeReportSigned(a)
    /\ a.quote.attestKey # OffCurve
    /\ a.pckCert.pubKey # OffCurve
    /\ a.pckCert.subjectIsPck
    /\ IssuerMatches(a)
    /\ ~IsRevoked(a)

CollateralMatches(a) ==
    /\ TeeMatches(a)
    /\ PlatformMatches(a)
    /\ TdxModuleMatches(a)
    /\ QeIdentityMatches(a)

WellFormed(a) ==
    /\ ParametersPresent(a)
    /\ BufferParametersValid(a)
    /\ a.quote.parses
    /\ a.crl.parses
    /\ a.tcbInfo.parses
    /\ QeIdentityParses(a)
    /\ a.pckCert.format = "ok"
    /\ a.quote.certificationDataSizeMatches

Acceptable(a) == WellFormed(a) /\ Genuine(a) /\ CollateralMatches(a)

===============================================================================
