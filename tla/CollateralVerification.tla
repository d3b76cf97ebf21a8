------------------------ MODULE CollateralVerification ------------------------
(***************************************************************************)
(* One call of an API function that verifies collateral rather than a      *)
(* quote: sgxAttestationVerifyPCKCertificate, ...VerifyTCBInfo,            *)
(* ...VerifyEnclaveIdentity and ...VerifyPCKRevocationList                 *)
(* (QuoteVerification.cpp), with the verifiers they run (PckCertVerifier,  *)
(* TCBSigningChain, TCBInfoVerifier, EnclaveIdentityVerifier,              *)
(* PckCrlVerifier). Every check that can end a call is an action; the      *)
(* functions share the checks they share in the code.                      *)
(*                                                                         *)
(* A call is a record: api, time (NoTime for none, or 0, in an enclave),   *)
(* missingParameter, chain, crls (one, or root and intermediate CRL),      *)
(* trustedRoot, and body, the signed JSON document (0 or 1 record).        *)
(***************************************************************************)
EXTENDS CertificateChain

CONSTANT Calls      \* the calls considered

Apis == { "PCKCertificate", "TCBInfo", "EnclaveIdentity", "PCKRevocationList" }

ASSUME CallsAssumption ==
    \A c \in Calls :
        /\ c.api \in Apis
        /\ Len(c.chain) \in Nat /\ DOMAIN c.chain = 1 .. Len(c.chain)
        /\ \A i \in DOMAIN c.chain : c.chain[i].info.subject \in DOMAIN CommonNamePhrases

VARIABLES
    call,       \* the arguments of the call
    pc,         \* the check about to be made
    status      \* the status returned, "none" until then

vars == <<call, pc, status>>

NoTime == -1

\* A call is given one document or none and as many CRLs as its function takes; what
\* could be parsed has dates that are numbers.
ASSUME EvidenceAssumption ==
    \A c \in Calls :
        /\ c.time \in Int /\ c.time >= NoTime
        /\ ~c.missingParameter =>
              /\ \A a, b \in c.body : a = b
              /\ c.body = {} <=> c.api \in { "PCKCertificate", "PCKRevocationList" }
              /\ DOMAIN c.crls = IF c.api = "PCKCertificate" THEN 1 .. 2 ELSE 1 .. 1
        /\ \A i \in DOMAIN c.chain : c.chain[i].info.notAfter \in Int
        /\ \A i \in DOMAIN c.crls : c.crls[i].notBefore \in Int /\ c.crls[i].notAfter \in Int
        /\ \A body \in c.body : body.nextUpdate \in Int

EXPECTED_CERTIFICATE_COUNT_IN_PCK_CHAIN == 3
EXPECTED_CERTIFICATE_COUNT_IN_TCB_CHAIN == 2

VerifiesPck      == call.api = "PCKCertificate"
VerifiesCrl      == call.api = "PCKRevocationList"
VerifiesTcbInfo  == call.api = "TCBInfo"
VerifiesIdentity == call.api = "EnclaveIdentity"
VerifiesBody     == VerifiesTcbInfo \/ VerifiesIdentity

Root         == GetRootCert(call.chain)
Intermediate == GetIntermediateCert(call.chain)
Pck          == GetPckCert(call.chain)
Topmost      == GetTopmostCert(call.chain)
RootCrl      == call.crls[1]
IntermediateCrl == call.crls[2]

Init ==
    /\ call \in Calls
    /\ pc = IF call.api = "PCKRevocationList" THEN "parameters" ELSE "time"
    /\ status = "none"

\* One check: it holds and the next one is made, or the call returns.
Check(here, condition, error, next) ==
    /\ pc = here
    /\ IF condition THEN pc' = next /\ UNCHANGED status
                    ELSE pc' = "returned" /\ status' = error
    /\ UNCHANGED call

\* The last check of a call.
Finish(here, condition, error) ==
    /\ pc = here
    /\ pc' = "returned"
    /\ status' = IF condition THEN "OK" ELSE error
    /\ UNCHANGED call

(***************************************************************************)
(* The API functions: parameters and parsing.                              *)
(***************************************************************************)
CheckTime == Check("time", call.time # NoTime, "INVALID_PARAMETER", "parameters")

CheckParameters ==
    Check("parameters", ~call.missingParameter,
          IF VerifiesCrl THEN "SGX_CRL_UNSUPPORTED_FORMAT" ELSE "UNSUPPORTED_CERT_FORMAT",
          CASE VerifiesPck -> "chain" [] VerifiesCrl -> "crls" [] VerifiesBody -> "body")

BodyFormatError(format) ==
    CASE format = "FormatException" ->
            IF VerifiesTcbInfo THEN "SGX_TCB_INFO_UNSUPPORTED_FORMAT"
                               ELSE "SGX_ENCLAVE_IDENTITY_UNSUPPORTED_FORMAT"
      [] format = "InvalidExtensionException" ->
            IF VerifiesTcbInfo THEN "SGX_TCB_INFO_INVALID" ELSE "SGX_ENCLAVE_IDENTITY_INVALID"
      [] OTHER -> "SGX_ENCLAVE_IDENTITY_UNSUPPORTED_VERSION"

ParseBody ==
    \E body \in call.body :
        Check("body", body.format = "ok", BodyFormatError(body.format), "chain")

ParseCertChain ==
    Check("chain", ParseChain(call.chain) = "OK",
          IF VerifiesCrl THEN "SGX_CA_CERT_UNSUPPORTED_FORMAT" ELSE ParseChain(call.chain),
          IF VerifiesCrl THEN "trustedRoot" ELSE "length")

CheckChainLength ==
    Check("length",
          Len(call.chain) = IF VerifiesPck THEN EXPECTED_CERTIFICATE_COUNT_IN_PCK_CHAIN
                                           ELSE EXPECTED_CERTIFICATE_COUNT_IN_TCB_CHAIN,
          "UNSUPPORTED_CERT_FORMAT", "crls")

ParseCrls ==
    Check("crls", \A i \in DOMAIN call.crls : call.crls[i].parses,
          "SGX_CRL_UNSUPPORTED_FORMAT",
          IF VerifiesCrl THEN "chain" ELSE "trustedRoot")

TrustedRootFormatError(format) ==
    CASE ~VerifiesBody -> "TRUSTED_ROOT_CA_UNSUPPORTED_FORMAT"
      [] VerifiesBody /\ format = "FormatException" -> "UNSUPPORTED_CERT_FORMAT"
      [] VerifiesBody /\ format # "FormatException" -> "SGX_ROOT_CA_INVALID_EXTENSIONS"

ParseTrustedRoot ==
    Check("trustedRoot", call.trustedRoot.format = "ok",
          TrustedRootFormatError(call.trustedRoot.format),
          IF VerifiesCrl THEN "issuerRoot" ELSE "root")

(***************************************************************************)
(* PckCertVerifier and TCBSigningChain: the certificates.                  *)
(***************************************************************************)
FindRoot ==
    Check("root", \E root \in Root : CommonNameContains(root.info.subject, SGX_ROOT_CA_CN_PHRASE),
          "SGX_ROOT_CA_MISSING",
          IF VerifiesPck THEN "intermediate" ELSE "rootSignature")

FindIntermediate ==
    Check("intermediate", Intermediate # {}, "SGX_INTERMEDIATE_CA_MISSING", "pck")

FindPck == Check("pck", Pck # {}, "SGX_PCK_MISSING", "rootSignature")

VerifyRoot ==
    Check("rootSignature", \A root \in Root : VerifyRootCACert(root),
          "SGX_ROOT_CA_INVALID_ISSUER",
          IF VerifiesPck THEN "intermediateSignature" ELSE "signingCert")

VerifyIntermediate ==
    Check("intermediateSignature",
          \A intermediate \in Intermediate, root \in Root : IssuedBy(intermediate, root),
          "SGX_INTERMEDIATE_CA_INVALID_ISSUER", "pckSignature")

\* Fault: the issuer is compared, the signature is not checked.
VerifyPckCert_IssuerOnly ==
    Check("pckSignature",
          \A pck \in Pck, intermediate \in Intermediate :
              pck.info.issuer = intermediate.info.subject,
          "SGX_PCK_INVALID_ISSUER", "trustedRootIssuer")

VerifyPckCert ==
    Check("pckSignature",
          \A pck \in Pck, intermediate \in Intermediate : IssuedBy(pck, intermediate),
          "SGX_PCK_INVALID_ISSUER", "trustedRootIssuer")

FindTcbSigningCert ==
    Check("signingCert",
          \E cert \in Topmost : CommonNameContains(cert.info.subject, SGX_TCB_SIGNING_CN_PHRASE),
          "SGX_TCB_SIGNING_CERT_MISSING", "signingSignature")

VerifyTcbSigningCert ==
    Check("signingSignature", \A cert \in Topmost, root \in Root : IssuedBy(cert, root),
          "SGX_TCB_SIGNING_CERT_INVALID_ISSUER", "rootCrl")

CheckTrustedRootIssuer ==
    Check("trustedRootIssuer", SelfIssued(call.trustedRoot), "TRUSTED_ROOT_CA_INVALID",
          "trustedRootSignature")

CompareTrustedRoot ==
    Check("trustedRootSignature", \A root \in Root : SameSignature(root, call.trustedRoot),
          IF VerifiesPck THEN "SGX_PCK_CERT_CHAIN_UNTRUSTED"
                         ELSE "SGX_TCB_SIGNING_CERT_CHAIN_UNTRUSTED",
          IF VerifiesPck THEN "rootCrl" ELSE "bodySignature")

(***************************************************************************)
(* The CRLs, then the dates. TCBSigningChain looks at the root CA's CRL    *)
(* before it compares the root with the trusted one, PckCertVerifier after.*)
(***************************************************************************)
CrlError(crl, issuer) == CHOOSE error \in { VerifyCrl(crl, ca) : ca \in issuer } : TRUE

CrlVerified(crl, issuer) == \A ca \in issuer : VerifyCrl(crl, ca) = "OK"

VerifyRootCrl ==
    Check("rootCrl", CrlVerified(RootCrl, Root), CrlError(RootCrl, Root),
          IF VerifiesPck THEN "intermediateCrl" ELSE "signingRevoked")

\* Fault: revocation is read from the intermediate CRL as it comes.
VerifyIntermediateCrl_Skipped ==
    Check("intermediateCrl", TRUE, "SGX_CRL_UNKNOWN_ISSUER", "intermediateRevoked")

VerifyIntermediateCrl ==
    Check("intermediateCrl", CrlVerified(IntermediateCrl, Intermediate),
          CrlError(IntermediateCrl, Intermediate), "intermediateRevoked")

CheckIntermediateRevoked ==
    Check("intermediateRevoked", \A cert \in Intermediate : ~IsRevoked(RootCrl, cert),
          "SGX_INTERMEDIATE_CA_REVOKED", "pckRevoked")

CheckPckRevoked ==
    Check("pckRevoked", \A cert \in Pck : ~IsRevoked(IntermediateCrl, cert),
          "SGX_PCK_REVOKED", "chainExpired")

CheckTcbSigningRevoked ==
    Check("signingRevoked", \A cert \in Topmost : ~IsRevoked(RootCrl, cert),
          "SGX_TCB_SIGNING_CERT_REVOKED", "trustedRootIssuer")

VerifyBodySignature ==
    Check("bodySignature",
          \A cert \in Topmost, body \in call.body : body.signedBy = cert.info.key,
          IF VerifiesTcbInfo THEN "TCB_INFO_INVALID_SIGNATURE"
                             ELSE "SGX_ENCLAVE_IDENTITY_INVALID_SIGNATURE",
          "chainExpired")

CertsUsed == IF VerifiesPck THEN Root \union Intermediate \union Pck ELSE Root \union Topmost

CheckChainExpired ==
    Check("chainExpired", \A cert \in CertsUsed : ~CertExpired(cert, call.time),
          IF VerifiesPck THEN "SGX_PCK_CERT_CHAIN_EXPIRED" ELSE "SGX_SIGNING_CERT_CHAIN_EXPIRED",
          "crlExpired")

CrlsCurrent == \A i \in DOMAIN call.crls : ~CrlExpired(call.crls[i], call.time)

CheckCrlExpired ==
    IF VerifiesPck THEN Finish("crlExpired", CrlsCurrent, "SGX_CRL_EXPIRED")
                   ELSE Check("crlExpired", CrlsCurrent, "SGX_CRL_EXPIRED", "bodyExpired")

CheckBodyExpired ==
    Finish("bodyExpired", \A body \in call.body : call.time <= body.nextUpdate,
           IF VerifiesTcbInfo THEN "SGX_TCB_INFO_EXPIRED" ELSE "SGX_ENCLAVE_IDENTITY_EXPIRED")

(***************************************************************************)
(* PckCrlVerifier::verify(crl, chain, trustedRoot).                        *)
(***************************************************************************)
NamedRoot == GetBySubject(call.chain, ROOT_CA_SUBJECT)

FindIssuerRoot == Check("issuerRoot", NamedRoot # {}, "SGX_ROOT_CA_INVALID", "issuerRootSignature")

VerifyIssuerRoot ==
    Check("issuerRootSignature", \A root \in NamedRoot : VerifyRootCACert(root),
          "SGX_CA_CERT_INVALID", "issuerLength")

KnownCrlIssuer == RootCrl.issuer \in { ROOT_CA_SUBJECT, PLATFORM_CA_SUBJECT, PROCESSOR_CA_SUBJECT }

CheckIssuerChainLength ==
    Check("issuerLength",
          KnownCrlIssuer /\ Len(call.chain) = IF RootCrl.issuer = ROOT_CA_SUBJECT THEN 1 ELSE 2,
          IF KnownCrlIssuer THEN "SGX_CA_CERT_UNSUPPORTED_FORMAT" ELSE "SGX_CRL_UNKNOWN_ISSUER",
          IF RootCrl.issuer = ROOT_CA_SUBJECT THEN "crlIssuer" ELSE "issuerIntermediate")

VerifyIssuerIntermediate ==
    Check("issuerIntermediate",
          \E ca \in Topmost :
             /\ ca.info.subject \in { PLATFORM_CA_SUBJECT, PROCESSOR_CA_SUBJECT }
             /\ \A root \in NamedRoot : IssuedBy(ca, root),
          IF Topmost = {} THEN "SGX_INTERMEDIATE_CA_MISSING" ELSE "SGX_CA_CERT_INVALID",
          "crlIssuer")

VerifyCrlIssuer ==
    Check("crlIssuer", Topmost # {} /\ CrlVerified(RootCrl, Topmost),
          IF Topmost = {} THEN "SGX_CRL_UNKNOWN_ISSUER" ELSE CrlError(RootCrl, Topmost),
          "crlTrustedRoot")

CheckCrlTrustedRoot ==
    Check("crlTrustedRoot",
          call.trustedRoot.info.subject = ROOT_CA_SUBJECT /\ VerifyRootCACert(call.trustedRoot),
          "TRUSTED_ROOT_CA_INVALID", "crlRoot")

CompareCrlRoot ==
    Finish("crlRoot", \E root \in Root : SameSignature(root, call.trustedRoot),
           IF Root = {} THEN "SGX_ROOT_CA_MISSING" ELSE "SGX_ROOT_CA_UNTRUSTED")

(***************************************************************************)
(* The specification.                                                      *)
(***************************************************************************)
ParseStep ==
    \/ CheckTime
    \/ CheckParameters
    \/ ParseBody
    \/ ParseCertChain
    \/ CheckChainLength
    \/ ParseCrls
    \/ ParseTrustedRoot

CertificateStep ==
    \/ FindRoot
    \/ FindIntermediate
    \/ FindPck
    \/ VerifyRoot
    \/ VerifyIntermediate
    \/ VerifyPckCert
    \/ FindTcbSigningCert
    \/ VerifyTcbSigningCert
    \/ CheckTrustedRootIssuer
    \/ CompareTrustedRoot

RevocationAndDateStep ==
    \/ VerifyRootCrl
    \/ VerifyIntermediateCrl
    \/ CheckIntermediateRevoked
    \/ CheckPckRevoked
    \/ CheckTcbSigningRevoked
    \/ VerifyBodySignature
    \/ CheckChainExpired
    \/ CheckCrlExpired
    \/ CheckBodyExpired

CrlIssuerStep ==
    \/ FindIssuerRoot
    \/ VerifyIssuerRoot
    \/ CheckIssuerChainLength
    \/ VerifyIssuerIntermediate
    \/ VerifyCrlIssuer
    \/ CheckCrlTrustedRoot
    \/ CompareCrlRoot

Next ==
    \/ ParseStep
    \/ CertificateStep
    \/ RevocationAndDateStep
    \/ CrlIssuerStep

Spec == Init /\ [][Next]_vars

(***************************************************************************)
(* Correctness.                                                            *)
(***************************************************************************)
Trust ==
    INSTANCE CollateralTrust WITH verdict <- IF pc = "returned" THEN status ELSE "none"

\* The checks, in no particular order.
ParsePoints == { "time", "parameters", "body", "chain", "length", "crls", "trustedRoot" }
CertificatePoints ==
    { "root", "intermediate", "pck", "rootSignature", "intermediateSignature",
      "pckSignature", "signingCert", "signingSignature", "trustedRootIssuer",
      "trustedRootSignature" }
RevocationPoints ==
    { "rootCrl", "intermediateCrl", "intermediateRevoked", "pckRevoked", "signingRevoked" }
CrlIssuerPoints ==
    { "issuerRoot", "issuerRootSignature", "issuerLength", "issuerIntermediate", "crlIssuer",
      "crlTrustedRoot", "crlRoot" }
DatePoints == { "bodySignature", "chainExpired", "crlExpired", "bodyExpired" }
Points ==
    ParsePoints \union CertificatePoints \union RevocationPoints \union CrlIssuerPoints
        \union DatePoints

\* A call that is still running has no status yet; one that has returned has
\* one, and an API function only makes its own checks.
TypeOK ==
    /\ call \in Calls
    /\ pc \in Points \union { "returned" }
    /\ status = "none" <=> pc # "returned"
    /\ pc \in CrlIssuerPoints => VerifiesCrl
    /\ pc \in { "bodySignature", "bodyExpired", "signingCert", "signingRevoked" } => VerifiesBody

\* A certificate chain is accepted, or said to be merely expired, only if the
\* trusted root has signed it down to the last certificate: the root the
\* chain is anchored in is the one all signatures lead to, whichever
\* certificates the chain holds and in whatever order.
AnchoredInTrustedRoot ==
    status \in Trust!ExpiredStatuses \union { "OK" } =>
        \E root \in Trust!Certificates(call) :
            /\ SameSignature(root, call.trustedRoot)
            /\ VerifyRootCACert(root)
            /\ \A cert \in Trust!Certificates(call) :
                  \/ IssuedBy(cert, root)
                  \/ VerifiesPck /\ \E ca \in Intermediate : IssuedBy(ca, root) /\ IssuedBy(cert, ca)

\* A PCK certificate is called revoked only on the word of a CRL that its own
\* issuer signed, under the trusted root: a CRL from anywhere else can stop
\* nobody's platform.
PckRevokedByItsIssuer ==
    status \in { "SGX_PCK_REVOKED", "SGX_INTERMEDIATE_CA_REVOKED" } =>
        /\ \E root \in Root, ca \in Intermediate :
              /\ SameSignature(root, call.trustedRoot)
              /\ Trust!Genuine(RootCrl, root) /\ Trust!Genuine(IntermediateCrl, ca)
        /\ \E cert \in Trust!Certificates(call) :
              IsRevoked(RootCrl, cert) \/ IsRevoked(IntermediateCrl, cert)

\* The statuses QuoteVerification.h lists for sgxAttestationVerifyTCBInfo, less
\* their STATUS_ prefix.
DocumentedTcbInfoStatuses ==
    { "OK", "INVALID_PARAMETER", "UNSUPPORTED_CERT_FORMAT", "SGX_TCB_INFO_INVALID",
      "TCB_INFO_INVALID_SIGNATURE", "SGX_ROOT_CA_MISSING", "SGX_ROOT_CA_INVALID",
      "SGX_ROOT_CA_INVALID_EXTENSIONS", "SGX_ROOT_CA_INVALID_ISSUER",
      "SGX_INTERMEDIATE_CA_MISSING", "SGX_INTERMEDIATE_CA_INVALID",
      "SGX_INTERMEDIATE_CA_INVALID_EXTENSIONS", "SGX_INTERMEDIATE_CA_INVALID_ISSUER",
      "SGX_INTERMEDIATE_CA_REVOKED", "TRUSTED_ROOT_CA_INVALID", "SGX_PCK_CERT_CHAIN_UNTRUSTED",
      "SGX_CRL_UNSUPPORTED_FORMAT", "SGX_CRL_UNKNOWN_ISSUER", "SGX_CRL_INVALID",
      "SGX_CRL_INVALID_EXTENSIONS", "SGX_CRL_INVALID_SIGNATURE", "SGX_TCB_INFO_EXPIRED",
      "SGX_SIGNING_CERT_CHAIN_EXPIRED", "SGX_CRL_EXPIRED" }

\* The header's list for sgxAttestationVerifyTCBInfo is complete (it is not: it
\* names the statuses of an intermediate CA and of the PCK chain where the code
\* returns those of the TCB signing certificate, and leaves out
\* STATUS_SGX_TCB_INFO_UNSUPPORTED_FORMAT).
TcbInfoStatusDocumented ==
    VerifiesTcbInfo /\ pc = "returned" => status \in DocumentedTcbInfoStatuses

\* The call as a whole does what CollateralTrust promises.
ImplementsTrust == Trust!Spec
===============================================================================
