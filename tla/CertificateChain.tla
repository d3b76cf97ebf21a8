--------------------------- MODULE CertificateChain ---------------------------
(***************************************************************************)
(* Certificates, CRLs and certificate chains, as the verifiers of the      *)
(* collateral see them (CertVerification/CertificateChain.cpp,             *)
(* Verifiers/CommonVerifier.cpp, PckParser/CrlStore.cpp).                  *)
(*                                                                         *)
(* A certificate is a record:                                              *)
(*   format     how Certificate::parse ends: "ok" or the exception thrown  *)
(*   sgxFormat  the same for the SGX extensions, parsed for a PCK only     *)
(*   info       what is signed: subject, issuer, key, serialNumber,        *)
(*              notAfter                                                   *)
(*   signature  the key that made it and the data it covers                *)
(* Signature bytes can be copied, so two certificates may carry the same   *)
(* signature; it is valid for the one whose info it covers.                *)
(* A CRL is a record with parses, issuer, hasRequiredExtensions, revoked   *)
(* (serial numbers), notBefore, notAfter and signedBy (the key).           *)
(***************************************************************************)
EXTENDS Integers, Sequences, FiniteSets, FiniteSetsExt

(***************************************************************************)
(* Distinguished names, compared without their raw form, and the phrases   *)
(* their common names contain.                                             *)
(***************************************************************************)
SGX_ROOT_CA_CN_PHRASE      == "SGX Root CA"
SGX_INTERMEDIATE_CN_PHRASE == "CA"
SGX_PCK_CN_PHRASE          == "SGX PCK Certificate"
SGX_TCB_SIGNING_CN_PHRASE  == "SGX TCB Signing"

ROOT_CA_SUBJECT      == "Intel SGX Root CA"
PLATFORM_CA_SUBJECT  == "Intel SGX PCK Platform CA"
PROCESSOR_CA_SUBJECT == "Intel SGX PCK Processor CA"
PCK_SUBJECT          == "Intel SGX PCK Certificate"
TCB_SUBJECT          == "Intel SGX TCB Signing"
OtherCaSubject       == "Some CA"
OtherSubject         == "Someone"

\* The phrase is looked for anywhere in the common name: a root CA is also
\* found when an intermediate CA is asked for.
CommonNamePhrases ==
    [ name \in { ROOT_CA_SUBJECT, PLATFORM_CA_SUBJECT, PROCESSOR_CA_SUBJECT, PCK_SUBJECT,
                 TCB_SUBJECT, OtherCaSubject, OtherSubject } |->
        CASE name = ROOT_CA_SUBJECT -> { SGX_ROOT_CA_CN_PHRASE, SGX_INTERMEDIATE_CN_PHRASE }
          [] name = PCK_SUBJECT     -> { SGX_PCK_CN_PHRASE }
          [] name = TCB_SUBJECT     -> { SGX_TCB_SIGNING_CN_PHRASE }
          [] name = OtherSubject    -> {}
          [] OTHER                  -> { SGX_INTERMEDIATE_CN_PHRASE } ]

CommonNameContains(name, phrase) == phrase \in CommonNamePhrases[name]

SelfIssued(cert) == cert.info.subject = cert.info.issuer

(***************************************************************************)
(* Signatures.                                                             *)
(***************************************************************************)
SignatureOf(key, info) == [ key |-> key, info |-> info ]

\* crypto::verifySha256EcdsaSignature over getInfo()
SignatureValid(cert, key) == cert.signature = SignatureOf(key, cert.info)

VerifyRootCACert(root) == SelfIssued(root) /\ SignatureValid(root, root.info.key)

IssuedBy(cert, issuer) ==
    cert.info.issuer = issuer.info.subject /\ SignatureValid(cert, issuer.info.key)

\* The trusted root is recognised by the bytes of its signature alone.
SameSignature(cert, trusted) == cert.signature = trusted.signature

(***************************************************************************)
(* CertificateChain::parse and the certificates it selects. A selection is *)
(* a set of at most one certificate, empty for a null pointer.             *)
(***************************************************************************)
Chosen(chain, positions) == IF positions = {} THEN {} ELSE { chain[Max(positions)] }

\* The last certificate that names itself as issuer.
GetRootCert(chain) ==
    Chosen(chain, { i \in DOMAIN chain : SelfIssued(chain[i]) })

\* The last certificate that issued no other of the chain.
GetTopmostCert(chain) ==
    Chosen(chain, { i \in DOMAIN chain :
                      \A j \in DOMAIN chain :
                          \/ chain[j].info.subject = chain[i].info.subject
                          \/ chain[j].info.issuer # chain[i].info.subject })

PckPositions(chain) ==
    { i \in DOMAIN chain : CommonNameContains(chain[i].info.subject, SGX_PCK_CN_PHRASE) }

GetPckCert(chain) == Chosen(chain, PckPositions(chain))

\* The first intermediate CA.
GetIntermediateCert(chain) ==
    LET positions == { i \in DOMAIN chain :
                         /\ ~SelfIssued(chain[i])
                         /\ CommonNameContains(chain[i].info.subject,
                                               SGX_INTERMEDIATE_CN_PHRASE) }
    IN  IF positions = {} THEN {} ELSE { chain[Min(positions)] }

\* CertificateChain::get, for one subject: the first that has it.
GetBySubject(chain, subject) ==
    LET positions == { i \in DOMAIN chain : chain[i].info.subject = subject }
    IN  IF positions = {} THEN {} ELSE { chain[Min(positions)] }

\* A certificate without its extensions has no known role: the status is a
\* guess from its place in the chain.
GuessedExtensionError(chain, position) ==
    CASE position = 1 -> "SGX_ROOT_CA_INVALID_EXTENSIONS"
      [] position = 2 /\ Len(chain) = 2 -> "SGX_TCB_SIGNING_CERT_INVALID_EXTENSIONS"
      [] position = 2 /\ Len(chain) # 2 -> "SGX_INTERMEDIATE_CA_INVALID_EXTENSIONS"
      [] OTHER -> "SGX_PCK_INVALID_EXTENSIONS"

ParseChain(chain) ==
    LET malformed == { i \in DOMAIN chain : chain[i].format # "ok" }
        badPck    == { i \in PckPositions(chain) : chain[i].sgxFormat # "ok" }
    IN  CASE malformed # {} ->
                IF chain[Min(malformed)].format = "FormatException"
                THEN "UNSUPPORTED_CERT_FORMAT"
                ELSE GuessedExtensionError(chain, Min(malformed))
          [] malformed = {} /\ badPck # {} ->
                IF chain[Min(badPck)].sgxFormat = "FormatException"
                THEN "UNSUPPORTED_CERT_FORMAT" ELSE "SGX_PCK_INVALID_EXTENSIONS"
          [] malformed = {} /\ badPck = {} ->
                IF Len(chain) = 0 THEN "UNSUPPORTED_CERT_FORMAT" ELSE "OK"

(***************************************************************************)
(* CRLs.                                                                   *)
(***************************************************************************)
\* The issuer must match in every field.
CrlIssuerIs(crl, cert) == crl.issuer = cert.info.subject

\* PckCrlVerifier::verify(crl, cert)
VerifyCrl(crl, cert) ==
    CASE ~CrlIssuerIs(crl, cert) -> "SGX_CRL_UNKNOWN_ISSUER"
      [] CrlIssuerIs(crl, cert) /\ ~crl.hasRequiredExtensions -> "SGX_CRL_INVALID_EXTENSIONS"
      [] CrlIssuerIs(crl, cert) /\ crl.hasRequiredExtensions ->
            IF crl.signedBy = cert.info.key THEN "OK" ELSE "SGX_CRL_INVALID_SIGNATURE"

IsRevoked(crl, cert) == cert.info.serialNumber \in crl.revoked

\* Validity::isValid: both ends of the period are inside it.
CrlExpired(crl, time) == ~(crl.notBefore <= time /\ time <= crl.notAfter)

\* Fault: the last second of the validity is lost.
CertExpired_AtNotAfter(cert, time) == time >= cert.info.notAfter

CertExpired(cert, time) == time > cert.info.notAfter

===============================================================================
