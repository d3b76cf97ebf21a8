--------------------- MODULE CollateralVerification_proofs ---------------------
(***************************************************************************)
(* Proofs about the calls that verify collateral, for every set of calls:  *)
(* chains of any length, any certificates, CRLs and documents.             *)
(***************************************************************************)
EXTENDS CollateralVerification, FiniteSetTheorems, TLAPS

(***************************************************************************)
(* The order of the checks, per API function. PckX and BodyX are the       *)
(* checks from X on.                                                       *)
(***************************************************************************)
PckDates          == { "chainExpired", "crlExpired" }
PckRevocation     == { "intermediateRevoked", "pckRevoked" } \union PckDates
PckIntermediateCrl == { "intermediateCrl" } \union PckRevocation
PckRootCrl        == { "rootCrl" } \union PckIntermediateCrl
PckTrustedRoot    == { "trustedRootIssuer", "trustedRootSignature" } \union PckRootCrl
PckSignature      == { "pckSignature" } \union PckTrustedRoot
PckIntermediateSignature == { "intermediateSignature" } \union PckSignature
PckRootSignature  == { "rootSignature" } \union PckIntermediateSignature
PckFindPck        == { "pck" } \union PckRootSignature
PckFindIntermediate == { "intermediate" } \union PckFindPck
PckCrls           == { "crls", "trustedRoot", "root" } \union PckFindIntermediate

BodyDates         == { "bodySignature", "chainExpired", "crlExpired", "bodyExpired" }
BodyTrustedRoot   == { "signingRevoked", "trustedRootIssuer", "trustedRootSignature" }
                        \union BodyDates
BodyRootCrl       == { "rootCrl" } \union BodyTrustedRoot
BodySigning       == { "signingSignature" } \union BodyRootCrl
BodyFindSigning   == { "signingCert" } \union BodySigning
BodyRootSignature == { "rootSignature" } \union BodyFindSigning
BodyCrls          == { "crls", "trustedRoot", "root" } \union BodyRootSignature

CrlTrustedRoot    == { "crlTrustedRoot", "crlRoot" }
CrlIssuerFound    == { "crlIssuer" } \union CrlTrustedRoot
CrlIntermediate   == { "issuerIntermediate" }
CrlLength         == { "issuerLength" } \union CrlIntermediate \union CrlIssuerFound
CrlRootSignature  == { "issuerRootSignature" } \union CrlLength

(***************************************************************************)
(* What a call has established.                                            *)
(***************************************************************************)
\* Which checks are whose.
ChecksOwned ==
    /\ pc \in Points \union { "returned" }
    /\ VerifiesPck => pc \in ParsePoints \union PckCrls \union { "returned" }
    /\ VerifiesBody => pc \in ParsePoints \union BodyCrls \union { "returned" }
    /\ VerifiesCrl => pc \in ParsePoints \union CrlIssuerPoints \union { "returned" }
    /\ VerifiesCrl => pc \notin { "time", "length" }
    /\ VerifiesPck => pc # "body"
    /\ VerifiesCrl => pc # "body"

RootFound(c) ==
    \E root \in GetRootCert(c.chain) : CommonNameContains(root.info.subject, SGX_ROOT_CA_CN_PHRASE)

RootVerified(c) == \A root \in GetRootCert(c.chain) : VerifyRootCACert(root)

IntermediateVerified(c) ==
    \A intermediate \in GetIntermediateCert(c.chain), root \in GetRootCert(c.chain) :
        IssuedBy(intermediate, root)

PckVerified(c) ==
    \A pck \in GetPckCert(c.chain), intermediate \in GetIntermediateCert(c.chain) :
        IssuedBy(pck, intermediate)

SigningFound(c) ==
    \E cert \in GetTopmostCert(c.chain) :
        CommonNameContains(cert.info.subject, SGX_TCB_SIGNING_CN_PHRASE)

SigningVerified(c) ==
    \A cert \in GetTopmostCert(c.chain), root \in GetRootCert(c.chain) : IssuedBy(cert, root)

RootTrusted(c) == \A root \in GetRootCert(c.chain) : SameSignature(root, c.trustedRoot)

\* A PCK chain that leads to the trusted root, and one whose CRLs are genuine.
PckAnchored(c) ==
    /\ Len(c.chain) = 3
    /\ RootFound(c) /\ GetIntermediateCert(c.chain) # {} /\ GetPckCert(c.chain) # {}
    /\ RootVerified(c) /\ IntermediateVerified(c) /\ PckVerified(c) /\ RootTrusted(c)

RootCrlGenuine(c) == CrlVerified(c.crls[1], GetRootCert(c.chain))

IntermediateCrlGenuine(c) == CrlVerified(c.crls[2], GetIntermediateCert(c.chain))

SomeRevoked(c) ==
    \/ \E cert \in GetIntermediateCert(c.chain) : IsRevoked(c.crls[1], cert)
    \/ \E cert \in GetPckCert(c.chain) : IsRevoked(c.crls[2], cert)

SigningAnchored(c) ==
    /\ Len(c.chain) = 2
    /\ RootFound(c) /\ RootVerified(c) /\ SigningFound(c) /\ SigningVerified(c) /\ RootTrusted(c)

\* The chain of a CRL issuer: the root alone, or the root and a CA.
RootNamed(c) == GetBySubject(c.chain, ROOT_CA_SUBJECT) # {}

NamedRootVerified(c) ==
    \A root \in GetBySubject(c.chain, ROOT_CA_SUBJECT) : VerifyRootCACert(root)

CaFound(c) ==
    \E ca \in GetTopmostCert(c.chain) :
        /\ ca.info.subject \in { PLATFORM_CA_SUBJECT, PROCESSOR_CA_SUBJECT }
        /\ \A root \in GetBySubject(c.chain, ROOT_CA_SUBJECT) : IssuedBy(ca, root)

IssuerChain(c) == Len(c.chain) = 1 \/ (Len(c.chain) = 2 /\ CaFound(c))

CrlAnchored(c) ==
    /\ RootNamed(c) /\ NamedRootVerified(c) /\ IssuerChain(c)
    /\ \E root \in GetRootCert(c.chain) : SameSignature(root, c.trustedRoot)

PckChecked ==
    VerifiesPck =>
        /\ pc \in PckCrls => Len(call.chain) = 3
        /\ pc \in PckFindIntermediate => RootFound(call)
        /\ pc \in PckFindPck => GetIntermediateCert(call.chain) # {}
        /\ pc \in PckRootSignature => GetPckCert(call.chain) # {}
        /\ pc \in PckIntermediateSignature => RootVerified(call)
        /\ pc \in PckSignature => IntermediateVerified(call)
        /\ pc \in PckTrustedRoot => PckVerified(call)
        /\ pc \in PckRootCrl => RootTrusted(call)
        /\ pc \in PckIntermediateCrl => RootCrlGenuine(call)
        /\ pc \in PckRevocation => IntermediateCrlGenuine(call)

BodyChecked ==
    VerifiesBody =>
        /\ pc \in BodyCrls => Len(call.chain) = 2
        /\ pc \in BodyRootSignature => RootFound(call)
        /\ pc \in BodyFindSigning => RootVerified(call)
        /\ pc \in BodySigning => SigningFound(call)
        /\ pc \in BodyRootCrl => SigningVerified(call)
        /\ pc \in BodyDates => RootTrusted(call)

CrlChecked ==
    VerifiesCrl =>
        /\ pc \in CrlRootSignature => RootNamed(call)
        /\ pc \in CrlLength => NamedRootVerified(call)
        /\ pc \in CrlIntermediate => Len(call.chain) = 2
        /\ pc \in CrlIssuerFound => IssuerChain(call)

RevokedStatuses == { "SGX_PCK_REVOKED", "SGX_INTERMEDIATE_CA_REVOKED" }

AcceptedStatuses == Trust!ExpiredStatuses \union { "OK" }

\* What the status says, in the terms of the checks.
StatusExplained ==
    /\ status = "none" <=> pc # "returned"
    /\ status \in AcceptedStatuses =>
          /\ VerifiesPck => PckAnchored(call)
          /\ VerifiesBody => SigningAnchored(call)
          /\ VerifiesCrl => CrlAnchored(call)
    /\ status \in RevokedStatuses =>
          /\ VerifiesPck /\ PckAnchored(call)
          /\ RootCrlGenuine(call) /\ IntermediateCrlGenuine(call) /\ SomeRevoked(call)

\* The inductive invariant.
IInv ==
    /\ call \in Calls
    /\ ChecksOwned
    /\ PckChecked /\ BodyChecked /\ CrlChecked
    /\ StatusExplained

(***************************************************************************)
(* The statuses that stand for a failed check.                             *)
(***************************************************************************)
FinalStatuses == { "none" } \union AcceptedStatuses \union RevokedStatuses

LEMMA FinalStatusesListed ==
    /\ AcceptedStatuses = { "OK", "SGX_PCK_CERT_CHAIN_EXPIRED", "SGX_SIGNING_CERT_CHAIN_EXPIRED",
                            "SGX_CRL_EXPIRED", "SGX_TCB_INFO_EXPIRED",
                            "SGX_ENCLAVE_IDENTITY_EXPIRED" }
    /\ RevokedStatuses = { "SGX_PCK_REVOKED", "SGX_INTERMEDIATE_CA_REVOKED" }
    /\ FinalStatuses = { "none" } \union AcceptedStatuses \union RevokedStatuses
  BY DEF FinalStatuses, AcceptedStatuses, RevokedStatuses, Trust!ExpiredStatuses

\* A chain that does not parse is neither accepted nor revoked.
LEMMA ParseChainError ==
    ASSUME NEW chain, ParseChain(chain) # "OK"
    PROVE  ParseChain(chain) \notin FinalStatuses
  BY FinalStatusesListed DEF ParseChain, GuessedExtensionError

\* Nor is anything said of a certificate by a CRL that is not genuine.
LEMMA CrlErrorResult ==
    ASSUME NEW crl, NEW issuer, ~CrlVerified(crl, issuer),
           \A ca, cb \in issuer : ca = cb
    PROVE  CrlError(crl, issuer) \notin FinalStatuses
<1>1. PICK ca \in issuer : VerifyCrl(crl, ca) # "OK"
  BY DEF CrlVerified
<1>2. { VerifyCrl(crl, cb) : cb \in issuer } = { VerifyCrl(crl, ca) }
  BY <1>1
<1>3. CrlError(crl, issuer) = VerifyCrl(crl, ca)
  BY <1>2 DEF CrlError
<1>4. VerifyCrl(crl, ca) \in { "OK", "SGX_CRL_UNKNOWN_ISSUER", "SGX_CRL_INVALID_EXTENSIONS",
                               "SGX_CRL_INVALID_SIGNATURE" }
  BY DEF VerifyCrl
<1>5. QED
  BY <1>1, <1>3, <1>4, FinalStatusesListed

\* A chain selects at most one certificate for each role.
LEMMA OneSelected ==
    ASSUME NEW chain
    PROVE  /\ \A c, d \in GetRootCert(chain) : c = d
           /\ \A c, d \in GetTopmostCert(chain) : c = d
           /\ \A c, d \in GetIntermediateCert(chain) : c = d
  BY DEF GetRootCert, GetTopmostCert, GetIntermediateCert, Chosen

(***************************************************************************)
(* The order of the checks.                                                *)
(***************************************************************************)
USE DEF PckDates, PckRevocation, PckIntermediateCrl, PckRootCrl, PckTrustedRoot, PckSignature,
        PckIntermediateSignature, PckRootSignature, PckFindPck, PckFindIntermediate, PckCrls,
        BodyDates, BodyTrustedRoot, BodyRootCrl, BodySigning, BodyFindSigning,
        BodyRootSignature, BodyCrls, CrlTrustedRoot, CrlIssuerFound, CrlIntermediate,
        CrlLength, CrlRootSignature,
        Points, ParsePoints, CertificatePoints, RevocationPoints, CrlIssuerPoints, DatePoints,
        Apis, VerifiesPck, VerifiesBody, VerifiesCrl, VerifiesTcbInfo, VerifiesIdentity

\* A call starts with nothing established and nothing said.
LEMMA InitIInv == Init => IInv
  BY CallsAssumption, FinalStatusesListed
  DEF Init, IInv, ChecksOwned, PckChecked, BodyChecked, CrlChecked, StatusExplained

\* Parsing says nothing of trust: it ends in an error or goes on.
LEMMA ParseStepIInv == IInv /\ ParseStep => IInv'
<1> SUFFICES ASSUME IInv, ParseStep PROVE IInv'
  OBVIOUS
<1> USE CallsAssumption, FinalStatusesListed
    DEF IInv, ChecksOwned, PckChecked, BodyChecked, CrlChecked, StatusExplained, Check
<1>1. CASE CheckTime
  BY <1>1 DEF CheckTime
<1>2. CASE CheckParameters
  BY <1>2 DEF CheckParameters
<1>3. CASE ParseBody
  BY <1>3 DEF ParseBody, BodyFormatError
<1>4. CASE ParseCertChain
  BY <1>4, ParseChainError DEF ParseCertChain
<1>5. CASE CheckChainLength
  <2>1. Len(call.chain) = (IF VerifiesPck THEN EXPECTED_CERTIFICATE_COUNT_IN_PCK_CHAIN
                                          ELSE EXPECTED_CERTIFICATE_COUNT_IN_TCB_CHAIN)
          <=> \/ VerifiesPck /\ Len(call.chain) = 3
              \/ ~VerifiesPck /\ Len(call.chain) = 2
    BY DEF EXPECTED_CERTIFICATE_COUNT_IN_PCK_CHAIN, EXPECTED_CERTIFICATE_COUNT_IN_TCB_CHAIN
  <2>2. QED
    BY <1>5, <2>1 DEF CheckChainLength
<1>6. CASE ParseCrls
  BY <1>6 DEF ParseCrls
<1>7. CASE ParseTrustedRoot
  BY <1>7 DEF ParseTrustedRoot, TrustedRootFormatError
<1>8. QED
  BY <1>1, <1>2, <1>3, <1>4, <1>5, <1>6, <1>7 DEF ParseStep

\* Each certificate check establishes its link of the chain.
LEMMA CertificateStepIInv == IInv /\ CertificateStep => IInv'
<1> SUFFICES ASSUME IInv, CertificateStep PROVE IInv'
  OBVIOUS
<1> USE CallsAssumption, FinalStatusesListed
    DEF IInv, ChecksOwned, PckChecked, BodyChecked, CrlChecked, StatusExplained, Check,
        Root, Intermediate, Pck, Topmost
<1>1. CASE FindRoot
  BY <1>1 DEF FindRoot, RootFound
<1>2. CASE FindIntermediate
  BY <1>2 DEF FindIntermediate
<1>3. CASE FindPck
  BY <1>3 DEF FindPck
<1>4. CASE VerifyRoot
  BY <1>4 DEF VerifyRoot, RootVerified
<1>5. CASE VerifyIntermediate
  BY <1>5 DEF VerifyIntermediate, IntermediateVerified
<1>6. CASE VerifyPckCert
  BY <1>6 DEF VerifyPckCert, PckVerified
<1>7. CASE FindTcbSigningCert
  BY <1>7 DEF FindTcbSigningCert, SigningFound
<1>8. CASE VerifyTcbSigningCert
  BY <1>8 DEF VerifyTcbSigningCert, SigningVerified
<1>9. CASE CheckTrustedRootIssuer
  BY <1>9 DEF CheckTrustedRootIssuer
<1>10. CASE CompareTrustedRoot
  BY <1>10 DEF CompareTrustedRoot, RootTrusted
<1>11. QED
  BY <1>1, <1>2, <1>3, <1>4, <1>5, <1>6, <1>7, <1>8, <1>9, <1>10 DEF CertificateStep

\* Revocation is judged from CRLs already found genuine; dates come last.
LEMMA RevocationAndDateStepIInv == IInv /\ RevocationAndDateStep => IInv'
<1> SUFFICES ASSUME IInv, RevocationAndDateStep PROVE IInv'
  OBVIOUS
<1> USE CallsAssumption, FinalStatusesListed
    DEF IInv, ChecksOwned, PckChecked, BodyChecked, CrlChecked, StatusExplained, Check, Finish,
        Root, Intermediate, Pck, Topmost, RootCrl, IntermediateCrl
<1>1. CASE VerifyRootCrl
  BY <1>1, OneSelected, CrlErrorResult DEF VerifyRootCrl, RootCrlGenuine
<1>2. CASE VerifyIntermediateCrl
  BY <1>2, OneSelected, CrlErrorResult DEF VerifyIntermediateCrl, IntermediateCrlGenuine
<1>3. CASE CheckIntermediateRevoked
  BY <1>3 DEF CheckIntermediateRevoked, SomeRevoked, PckAnchored
<1>4. CASE CheckPckRevoked
  BY <1>4 DEF CheckPckRevoked, SomeRevoked, PckAnchored
<1>5. CASE CheckTcbSigningRevoked
  BY <1>5 DEF CheckTcbSigningRevoked
<1>6. CASE VerifyBodySignature
  BY <1>6 DEF VerifyBodySignature
<1>7. CASE CheckChainExpired
  BY <1>7 DEF CheckChainExpired, PckAnchored, SigningAnchored
<1>8. CASE CheckCrlExpired
  BY <1>8 DEF CheckCrlExpired, PckAnchored, SigningAnchored
<1>9. CASE CheckBodyExpired
  BY <1>9 DEF CheckBodyExpired, SigningAnchored
<1>10. QED
  BY <1>1, <1>2, <1>3, <1>4, <1>5, <1>6, <1>7, <1>8, <1>9 DEF RevocationAndDateStep

\* The checks of a CRL's issuer.
LEMMA CrlIssuerStepIInv == IInv /\ CrlIssuerStep => IInv'
<1> SUFFICES ASSUME IInv, CrlIssuerStep PROVE IInv'
  OBVIOUS
<1> USE CallsAssumption, FinalStatusesListed
    DEF IInv, ChecksOwned, PckChecked, BodyChecked, CrlChecked, StatusExplained, Check, Finish,
        Root, Topmost, NamedRoot, RootCrl
<1>1. CASE FindIssuerRoot
  BY <1>1 DEF FindIssuerRoot, RootNamed
<1>2. CASE VerifyIssuerRoot
  BY <1>2 DEF VerifyIssuerRoot, NamedRootVerified
<1>3. CASE CheckIssuerChainLength
  <2>1. Len(call.chain) = (IF RootCrl.issuer = ROOT_CA_SUBJECT THEN 1 ELSE 2)
          <=> \/ RootCrl.issuer = ROOT_CA_SUBJECT /\ Len(call.chain) = 1
              \/ RootCrl.issuer # ROOT_CA_SUBJECT /\ Len(call.chain) = 2
    OBVIOUS
  <2>2. QED
    BY <1>3, <2>1 DEF CheckIssuerChainLength, IssuerChain
<1>4. CASE VerifyIssuerIntermediate
  BY <1>4 DEF VerifyIssuerIntermediate, CaFound, IssuerChain
<1>5. CASE VerifyCrlIssuer
  BY <1>5, OneSelected, CrlErrorResult DEF VerifyCrlIssuer
<1>6. CASE CheckCrlTrustedRoot
  BY <1>6 DEF CheckCrlTrustedRoot
<1>7. CASE CompareCrlRoot
  BY <1>7 DEF CompareCrlRoot, CrlAnchored
<1>8. QED
  BY <1>1, <1>2, <1>3, <1>4, <1>5, <1>6, <1>7 DEF CrlIssuerStep

\* The invariant survives every step.
LEMMA NextIInv == IInv /\ [Next]_vars => IInv'
<1> SUFFICES ASSUME IInv, [Next]_vars PROVE IInv'
  OBVIOUS
<1>1. CASE UNCHANGED vars
  BY <1>1 DEF vars, IInv, ChecksOwned, PckChecked, BodyChecked, CrlChecked, StatusExplained
<1>2. QED
  BY <1>1, ParseStepIInv, CertificateStepIInv, RevocationAndDateStepIInv, CrlIssuerStepIInv
  DEF Next

THEOREM Invariance == Spec => []IInv
  BY InitIInv, NextIInv, PTL DEF Spec

\* Each API function only makes its own checks, and it has a status exactly
\* when it has returned.
THEOREM TypeCorrect == Spec => []TypeOK
<1>1. IInv => TypeOK
  BY CallsAssumption DEF IInv, ChecksOwned, StatusExplained, TypeOK
<1>2. QED
  BY <1>1, Invariance, PTL

(***************************************************************************)
(* Chains of two or three certificates. Whatever a chain selects is one of *)
(* its certificates, and certificates in different roles are different     *)
(* ones: so the roles account for the whole chain.                         *)
(***************************************************************************)

\* The greatest and the least of at most three positions are among them.
LEMMA Extremes ==
    ASSUME NEW S \in SUBSET (1 .. 3), S # {}
    PROVE  Max(S) \in S /\ Min(S) \in S
<1>0. \A x \in S : x \in Int /\ (x = 1 \/ x = 2 \/ x = 3)
  OBVIOUS
<1>1. \E x \in S : \A y \in S : x >= y
  <2>1. CASE 3 \in S
    BY <1>0, <2>1
  <2>2. CASE 3 \notin S /\ 2 \in S
    BY <1>0, <2>2
  <2>3. CASE 3 \notin S /\ 2 \notin S
    <3>1. PICK x \in S : TRUE
      OBVIOUS
    <3>2. \A y \in S : y = 1
      BY <1>0, <2>3
    <3>3. QED
      BY <3>1, <3>2
  <2>4. QED
    BY <2>1, <2>2, <2>3
<1>2. \E x \in S : \A y \in S : x <= y
  <2>1. CASE 1 \in S
    BY <1>0, <2>1
  <2>2. CASE 1 \notin S /\ 2 \in S
    BY <1>0, <2>2
  <2>3. CASE 1 \notin S /\ 2 \notin S
    <3>1. PICK x \in S : TRUE
      OBVIOUS
    <3>2. \A y \in S : y = 3
      BY <1>0, <2>3
    <3>3. QED
      BY <3>1, <3>2
  <2>4. QED
    BY <2>1, <2>2, <2>3
<1>3. QED
  BY <1>1, <1>2 DEF Max, Min

ShortChain(chain) == Len(chain) \in 1 .. 3 /\ DOMAIN chain = 1 .. Len(chain)

\* What is selected stands somewhere in the chain and has the property it is
\* selected for.
LEMMA Selected ==
    ASSUME NEW chain, ShortChain(chain)
    PROVE  /\ \A c \in GetRootCert(chain) :
                 SelfIssued(c) /\ \E i \in DOMAIN chain : c = chain[i]
           /\ \A c \in GetTopmostCert(chain) : \E i \in DOMAIN chain : c = chain[i]
           /\ \A c \in GetPckCert(chain) : \E i \in DOMAIN chain : c = chain[i]
           /\ \A c \in GetIntermediateCert(chain) :
                 ~SelfIssued(c) /\ \E i \in DOMAIN chain : c = chain[i]
           /\ \A c \in GetBySubject(chain, ROOT_CA_SUBJECT) :
                 c.info.subject = ROOT_CA_SUBJECT /\ \E i \in DOMAIN chain : c = chain[i]
<1> DEFINE Roots == { i \in DOMAIN chain : SelfIssued(chain[i]) }
           Tops == { i \in DOMAIN chain :
                       \A j \in DOMAIN chain :
                           \/ chain[j].info.subject = chain[i].info.subject
                           \/ chain[j].info.issuer # chain[i].info.subject }
           Cas == { i \in DOMAIN chain :
                      /\ ~SelfIssued(chain[i])
                      /\ CommonNameContains(chain[i].info.subject, SGX_INTERMEDIATE_CN_PHRASE) }
           Named == { i \in DOMAIN chain : chain[i].info.subject = ROOT_CA_SUBJECT }
<1>1. \A S \in SUBSET DOMAIN chain : S # {} => Max(S) \in S /\ Min(S) \in S
  BY Extremes DEF ShortChain
<1>2. \A c \in GetRootCert(chain) : Roots # {} /\ c = chain[Max(Roots)]
  BY DEF GetRootCert, Chosen
<1>3. \A c \in GetTopmostCert(chain) : Tops # {} /\ c = chain[Max(Tops)]
  BY DEF GetTopmostCert, Chosen
<1>4. \A c \in GetPckCert(chain) : PckPositions(chain) # {} /\ c = chain[Max(PckPositions(chain))]
  BY DEF GetPckCert, Chosen
<1>5. \A c \in GetIntermediateCert(chain) : Cas # {} /\ c = chain[Min(Cas)]
  BY DEF GetIntermediateCert
<1>6. \A c \in GetBySubject(chain, ROOT_CA_SUBJECT) : Named # {} /\ c = chain[Min(Named)]
  BY DEF GetBySubject
<1>7. PckPositions(chain) \subseteq DOMAIN chain
  BY DEF PckPositions
<1>8. \A c \in GetRootCert(chain) : SelfIssued(c) /\ \E i \in DOMAIN chain : c = chain[i]
  <2>1. Roots \in SUBSET DOMAIN chain /\ \A i \in Roots : SelfIssued(chain[i])
    OBVIOUS
  <2> HIDE DEF Roots
  <2>2. QED
    BY <1>1, <1>2, <2>1
<1>9. \A c \in GetTopmostCert(chain) : \E i \in DOMAIN chain : c = chain[i]
  <2>1. Tops \in SUBSET DOMAIN chain
    OBVIOUS
  <2> HIDE DEF Tops
  <2>2. QED
    BY <1>1, <1>3, <2>1
<1>10. \A c \in GetPckCert(chain) : \E i \in DOMAIN chain : c = chain[i]
  BY <1>1, <1>4, <1>7
<1>11. \A c \in GetIntermediateCert(chain) :
          ~SelfIssued(c) /\ \E i \in DOMAIN chain : c = chain[i]
  <2>1. Cas \in SUBSET DOMAIN chain /\ \A i \in Cas : ~SelfIssued(chain[i])
    OBVIOUS
  <2> HIDE DEF Cas
  <2>2. QED
    BY <1>1, <1>5, <2>1
<1>12. \A c \in GetBySubject(chain, ROOT_CA_SUBJECT) :
          c.info.subject = ROOT_CA_SUBJECT /\ \E i \in DOMAIN chain : c = chain[i]
  <2>1. Named \in SUBSET DOMAIN chain /\ \A i \in Named : chain[i].info.subject = ROOT_CA_SUBJECT
    OBVIOUS
  <2> HIDE DEF Named
  <2>2. QED
    BY <1>1, <1>6, <2>1
<1>13. QED
  BY <1>8, <1>9, <1>10, <1>11, <1>12

\* The anchor of a chain: a root with the trusted one's signature, from which
\* every certificate follows.
Anchor(c, root) ==
    /\ SameSignature(root, c.trustedRoot)
    /\ VerifyRootCACert(root)
    /\ \A cert \in Trust!Certificates(c) :
          \/ IssuedBy(cert, root)
          \/ /\ c.api = "PCKCertificate"
             /\ \E ca \in GetIntermediateCert(c.chain) : IssuedBy(ca, root) /\ IssuedBy(cert, ca)

\* Root, intermediate CA and PCK certificate are three certificates, and so all of a chain.
LEMMA PckRolesAreTheChain ==
    ASSUME NEW c, ShortChain(c.chain), DOMAIN c.chain = 1 .. 3,
           NEW root \in GetRootCert(c.chain), NEW ca \in GetIntermediateCert(c.chain),
           NEW pck \in GetPckCert(c.chain),
           VerifyRootCACert(root), IssuedBy(ca, root), IssuedBy(pck, ca)
    PROVE  Trust!Certificates(c) = { root, ca, pck }
<1>1. SelfIssued(root) /\ ~SelfIssued(ca)
  BY Selected
<1>2. root # ca /\ pck # ca /\ pck # root
  BY <1>1 DEF IssuedBy, SelfIssued
<1>3. PICK i \in 1 .. 3, j \in 1 .. 3, k \in 1 .. 3 :
        root = c.chain[i] /\ ca = c.chain[j] /\ pck = c.chain[k]
  BY Selected
<1>4. i # j /\ j # k /\ i # k
  BY <1>2, <1>3
<1>5. \A n \in 1 .. 3 : n = i \/ n = j \/ n = k
  BY <1>3, <1>4
<1>6. QED
  BY <1>3, <1>5 DEF Trust!Certificates

\* A PCK chain hangs on its root.
LEMMA PckChainAnchor ==
    ASSUME NEW c \in Calls, c.api = "PCKCertificate", PckAnchored(c)
    PROVE  \E root \in Trust!Certificates(c) : Anchor(c, root)
<1>1. ShortChain(c.chain) /\ DOMAIN c.chain = 1 .. 3
  BY CallsAssumption DEF PckAnchored, ShortChain
<1>2. PICK root \in GetRootCert(c.chain), ca \in GetIntermediateCert(c.chain),
           pck \in GetPckCert(c.chain) : TRUE
  BY DEF PckAnchored, RootFound
<1>3. /\ VerifyRootCACert(root) /\ SameSignature(root, c.trustedRoot)
      /\ IssuedBy(ca, root) /\ IssuedBy(pck, ca)
  BY <1>2 DEF PckAnchored, RootVerified, RootTrusted, IntermediateVerified, PckVerified
<1>4. Trust!Certificates(c) = { root, ca, pck }
  BY <1>1, <1>2, <1>3, PckRolesAreTheChain
<1>5. IssuedBy(root, root)
  BY <1>3 DEF VerifyRootCACert, IssuedBy, SelfIssued
<1>6. QED
  BY <1>2, <1>3, <1>4, <1>5 DEF Anchor

\* A signing certificate is named differently from the root: the two are all of a chain.
LEMMA SigningRolesAreTheChain ==
    ASSUME NEW c \in Calls, ShortChain(c.chain), DOMAIN c.chain = 1 .. 2,
           NEW root \in GetRootCert(c.chain), NEW signing \in GetTopmostCert(c.chain),
           CommonNameContains(root.info.subject, SGX_ROOT_CA_CN_PHRASE),
           CommonNameContains(signing.info.subject, SGX_TCB_SIGNING_CN_PHRASE)
    PROVE  Trust!Certificates(c) = { root, signing }
<1>1. PICK i \in 1 .. 2, j \in 1 .. 2 : root = c.chain[i] /\ signing = c.chain[j]
  BY Selected
<1>2. \A name \in DOMAIN CommonNamePhrases :
        ~(/\ CommonNameContains(name, SGX_ROOT_CA_CN_PHRASE)
          /\ CommonNameContains(name, SGX_TCB_SIGNING_CN_PHRASE))
  BY DEF CommonNameContains, CommonNamePhrases, SGX_ROOT_CA_CN_PHRASE,
         SGX_TCB_SIGNING_CN_PHRASE, SGX_INTERMEDIATE_CN_PHRASE, SGX_PCK_CN_PHRASE,
         ROOT_CA_SUBJECT, PCK_SUBJECT, TCB_SUBJECT, OtherSubject
<1>3. root # signing
  <2>1. root.info.subject \in DOMAIN CommonNamePhrases
    BY <1>1, CallsAssumption
  <2>2. QED
    BY <1>2, <2>1
<1>4. \A n \in 1 .. 2 : n = i \/ n = j
  BY <1>1, <1>3
<1>5. QED
  BY <1>1, <1>4 DEF Trust!Certificates

\* The two hang together.
LEMMA SigningChainAnchor ==
    ASSUME NEW c \in Calls, SigningAnchored(c)
    PROVE  \E root \in Trust!Certificates(c) : Anchor(c, root)
<1>1. ShortChain(c.chain) /\ DOMAIN c.chain = 1 .. 2
  BY CallsAssumption DEF SigningAnchored, ShortChain
<1>2. PICK root \in GetRootCert(c.chain) :
        CommonNameContains(root.info.subject, SGX_ROOT_CA_CN_PHRASE)
  BY DEF SigningAnchored, RootFound
<1>3. PICK signing \in GetTopmostCert(c.chain) :
        CommonNameContains(signing.info.subject, SGX_TCB_SIGNING_CN_PHRASE)
  BY DEF SigningAnchored, SigningFound
<1>4. /\ VerifyRootCACert(root) /\ SameSignature(root, c.trustedRoot)
      /\ IssuedBy(signing, root)
  BY <1>2, <1>3 DEF SigningAnchored, RootVerified, RootTrusted, SigningVerified
<1>5. Trust!Certificates(c) = { root, signing }
  BY <1>1, <1>2, <1>3, SigningRolesAreTheChain
<1>6. IssuedBy(root, root)
  BY <1>4 DEF VerifyRootCACert, IssuedBy, SelfIssued
<1>7. QED
  BY <1>4, <1>5, <1>6 DEF Anchor

\* The root that vouches for a CRL's issuer is the one compared with the
\* trusted root: the chain has no other that names itself.
LEMMA CrlChainAnchor ==
    ASSUME NEW c \in Calls, CrlAnchored(c)
    PROVE  \E root \in Trust!Certificates(c) : Anchor(c, root)
<1>1. ShortChain(c.chain)
  BY CallsAssumption DEF CrlAnchored, IssuerChain, ShortChain
<1>2. PICK named \in GetBySubject(c.chain, ROOT_CA_SUBJECT) : VerifyRootCACert(named)
  BY DEF CrlAnchored, RootNamed, NamedRootVerified
<1>3. PICK root \in GetRootCert(c.chain) : SameSignature(root, c.trustedRoot)
  BY DEF CrlAnchored
<1>4. PICK i \in DOMAIN c.chain, j \in DOMAIN c.chain : named = c.chain[i] /\ root = c.chain[j]
  BY <1>1, <1>2, <1>3, Selected
<1>5. SelfIssued(root) /\ named.info.subject = ROOT_CA_SUBJECT
  BY <1>1, <1>2, <1>3, Selected
<1>6. IssuedBy(named, named)
  BY <1>2 DEF VerifyRootCACert, IssuedBy, SelfIssued
<1>7. CASE Len(c.chain) = 1
  <2>1. Trust!Certificates(c) = { named } /\ root = named
    BY <1>1, <1>4, <1>7 DEF Trust!Certificates, ShortChain
  <2>2. QED
    BY <1>2, <1>3, <1>6, <2>1 DEF Anchor
<1>8. CASE Len(c.chain) = 2 /\ CaFound(c)
  <2>1. PICK ca \in GetTopmostCert(c.chain) :
          ca.info.subject \in { PLATFORM_CA_SUBJECT, PROCESSOR_CA_SUBJECT } /\ IssuedBy(ca, named)
    BY <1>2, <1>8 DEF CaFound
  <2>2. PICK k \in DOMAIN c.chain : ca = c.chain[k]
    BY <1>1, <2>1, Selected
  <2>3. ~SelfIssued(ca) /\ ca # named
    BY <1>5, <2>1 DEF SelfIssued, IssuedBy, ROOT_CA_SUBJECT, PLATFORM_CA_SUBJECT,
                      PROCESSOR_CA_SUBJECT
  <2>4. \A n \in DOMAIN c.chain : n = i \/ n = k
    BY <1>1, <1>4, <1>8, <2>2, <2>3 DEF ShortChain
  <2>5. root = named
    BY <1>4, <1>5, <2>2, <2>3, <2>4
  <2>6. Trust!Certificates(c) = { named, ca }
    BY <1>4, <2>2, <2>4 DEF Trust!Certificates
  <2>7. QED
    BY <1>2, <1>3, <1>6, <2>1, <2>5, <2>6 DEF Anchor
<1>9. QED
  BY <1>7, <1>8 DEF CrlAnchored, IssuerChain

\* Accepted or merely expired collateral hangs, certificate by certificate,
\* on the trusted root.
THEOREM AnchoredInTrustedRootHolds == Spec => []AnchoredInTrustedRoot
<1>1. IInv => AnchoredInTrustedRoot
  <2> SUFFICES ASSUME IInv, status \in AcceptedStatuses
               PROVE  \E root \in Trust!Certificates(call) : Anchor(call, root)
    BY DEF AnchoredInTrustedRoot, Anchor, AcceptedStatuses, Intermediate
  <2>1. CASE VerifiesPck
    BY <2>1, PckChainAnchor DEF IInv, StatusExplained
  <2>2. CASE VerifiesBody
    BY <2>2, SigningChainAnchor DEF IInv, StatusExplained
  <2>3. CASE VerifiesCrl
    BY <2>3, CrlChainAnchor DEF IInv, StatusExplained
  <2>4. QED
    BY <2>1, <2>2, <2>3, CallsAssumption DEF IInv
<1>2. QED
  BY <1>1, Invariance, PTL

\* A CRL that passes verification is the CA's own.
LEMMA VerifiedCrlGenuine ==
    ASSUME NEW crl, NEW ca, VerifyCrl(crl, ca) = "OK"
    PROVE  Trust!Genuine(crl, ca)
  BY DEF VerifyCrl, CrlIssuerIs, Trust!Genuine

\* Only a genuine CRL of the issuer, under the trusted root, makes a
\* certificate revoked.
THEOREM PckRevokedByItsIssuerHolds == Spec => []PckRevokedByItsIssuer
<1>1. IInv => PckRevokedByItsIssuer
  <2> SUFFICES ASSUME IInv, status \in RevokedStatuses
               PROVE  /\ \E root \in Root, ca \in Intermediate :
                            /\ SameSignature(root, call.trustedRoot)
                            /\ Trust!Genuine(RootCrl, root)
                            /\ Trust!Genuine(IntermediateCrl, ca)
                      /\ \E cert \in Trust!Certificates(call) :
                            IsRevoked(RootCrl, cert) \/ IsRevoked(IntermediateCrl, cert)
    BY DEF PckRevokedByItsIssuer, RevokedStatuses
  <2> USE DEF Root, Intermediate, RootCrl, IntermediateCrl
  <2>1. /\ PckAnchored(call) /\ RootCrlGenuine(call) /\ IntermediateCrlGenuine(call)
        /\ SomeRevoked(call)
    BY DEF IInv, StatusExplained
  <2>2. PICK root \in Root, ca \in Intermediate : SameSignature(root, call.trustedRoot)
    BY <2>1 DEF PckAnchored, RootFound, RootTrusted
  <2>3. Trust!Genuine(RootCrl, root) /\ Trust!Genuine(IntermediateCrl, ca)
    BY <2>1, <2>2, VerifiedCrlGenuine DEF RootCrlGenuine, IntermediateCrlGenuine, CrlVerified
  <2>4. ShortChain(call.chain)
    BY <2>1, CallsAssumption DEF IInv, PckAnchored, ShortChain
  <2>5. \A cert \in GetIntermediateCert(call.chain) \union GetPckCert(call.chain) :
          cert \in Trust!Certificates(call)
    BY <2>4, Selected DEF Trust!Certificates
  <2>6. QED
    BY <2>1, <2>2, <2>3, <2>5 DEF SomeRevoked
<1>2. QED
  BY <1>1, Invariance, PTL

(***************************************************************************)
(* The calls implement CollateralTrust. First, without states: a call      *)
(* passes all checks but those of dates exactly if its collateral is       *)
(* trusted, whichever way the code picks certificates out of the chain.    *)
(***************************************************************************)
CaSubjects == { ROOT_CA_SUBJECT, PLATFORM_CA_SUBJECT, PROCESSOR_CA_SUBJECT, OtherCaSubject }

\* Which names have which phrase.
LEMMA PhrasesNameRoles ==
    ASSUME NEW name \in DOMAIN CommonNamePhrases
    PROVE  /\ CommonNameContains(name, SGX_ROOT_CA_CN_PHRASE) <=> name = ROOT_CA_SUBJECT
           /\ CommonNameContains(name, SGX_PCK_CN_PHRASE) <=> name = PCK_SUBJECT
           /\ CommonNameContains(name, SGX_TCB_SIGNING_CN_PHRASE) <=> name = TCB_SUBJECT
           /\ CommonNameContains(name, SGX_INTERMEDIATE_CN_PHRASE) <=> name \in CaSubjects
  BY DEF CommonNameContains, CommonNamePhrases, SGX_ROOT_CA_CN_PHRASE, CaSubjects,
         SGX_TCB_SIGNING_CN_PHRASE, SGX_INTERMEDIATE_CN_PHRASE, SGX_PCK_CN_PHRASE,
         ROOT_CA_SUBJECT, PCK_SUBJECT, TCB_SUBJECT, OtherSubject, OtherCaSubject,
         PLATFORM_CA_SUBJECT, PROCESSOR_CA_SUBJECT

\* A role is found if the chain has a certificate for it, and what is found has it.
LEMMA RootSelected ==
    ASSUME NEW chain, ShortChain(chain)
    PROVE  /\ \A c \in GetRootCert(chain) : SelfIssued(c) /\ \E i \in DOMAIN chain : c = chain[i]
           /\ \A i \in DOMAIN chain : SelfIssued(chain[i]) => GetRootCert(chain) # {}
<1>1. \A i \in DOMAIN chain : SelfIssued(chain[i]) => GetRootCert(chain) # {}
  BY DEF GetRootCert, Chosen
<1>2. QED
  BY <1>1, Selected

LEMMA PckSelected ==
    ASSUME NEW chain, ShortChain(chain)
    PROVE  /\ \A c \in GetPckCert(chain) :
                 /\ CommonNameContains(c.info.subject, SGX_PCK_CN_PHRASE)
                 /\ \E i \in DOMAIN chain : c = chain[i]
           /\ \A i \in DOMAIN chain :
                 CommonNameContains(chain[i].info.subject, SGX_PCK_CN_PHRASE)
                    => GetPckCert(chain) # {}
<1>1. PckPositions(chain) \in SUBSET DOMAIN chain
  BY DEF PckPositions
<1>2. PckPositions(chain) # {} => Max(PckPositions(chain)) \in PckPositions(chain)
  BY <1>1, Extremes DEF ShortChain
<1>3. QED
  BY <1>1, <1>2 DEF GetPckCert, Chosen, PckPositions

LEMMA IntermediateSelected ==
    ASSUME NEW chain, ShortChain(chain)
    PROVE  /\ \A c \in GetIntermediateCert(chain) :
                 /\ CommonNameContains(c.info.subject, SGX_INTERMEDIATE_CN_PHRASE)
                 /\ ~SelfIssued(c)
                 /\ \E i \in DOMAIN chain : c = chain[i]
           /\ \A i \in DOMAIN chain :
                 /\ ~SelfIssued(chain[i])
                 /\ CommonNameContains(chain[i].info.subject, SGX_INTERMEDIATE_CN_PHRASE)
                 => GetIntermediateCert(chain) # {}
<1> DEFINE Cas == { i \in DOMAIN chain :
                      /\ ~SelfIssued(chain[i])
                      /\ CommonNameContains(chain[i].info.subject, SGX_INTERMEDIATE_CN_PHRASE) }
<1>1. Cas # {} => Min(Cas) \in Cas
  <2>1. Cas \in SUBSET (1 .. 3)
    BY DEF ShortChain
  <2> HIDE DEF Cas
  <2>2. QED
    BY <2>1, Extremes
<1>2. GetIntermediateCert(chain) = IF Cas = {} THEN {} ELSE { chain[Min(Cas)] }
  BY DEF GetIntermediateCert
<1>3. QED
  BY <1>1, <1>2

IssuedNoOther(chain, cert) ==
    \A j \in DOMAIN chain :
        chain[j].info.subject = cert.info.subject \/ chain[j].info.issuer # cert.info.subject

LEMMA TopmostSelected ==
    ASSUME NEW chain, ShortChain(chain)
    PROVE  /\ \A c \in GetTopmostCert(chain) :
                 IssuedNoOther(chain, c) /\ \E i \in DOMAIN chain : c = chain[i]
           /\ \A i \in DOMAIN chain : IssuedNoOther(chain, chain[i]) => GetTopmostCert(chain) # {}
<1> DEFINE Tops == { i \in DOMAIN chain : IssuedNoOther(chain, chain[i]) }
<1>1. Tops # {} => Max(Tops) \in Tops
  <2>1. Tops \in SUBSET (1 .. 3)
    BY DEF ShortChain
  <2> HIDE DEF Tops
  <2>2. QED
    BY <2>1, Extremes
<1>2. GetTopmostCert(chain) = IF Tops = {} THEN {} ELSE { chain[Max(Tops)] }
  BY DEF GetTopmostCert, Chosen, IssuedNoOther
<1>3. QED
  BY <1>1, <1>2

LEMMA NamedSelected ==
    ASSUME NEW chain, ShortChain(chain)
    PROVE  /\ \A c \in GetBySubject(chain, ROOT_CA_SUBJECT) :
                 c.info.subject = ROOT_CA_SUBJECT /\ \E i \in DOMAIN chain : c = chain[i]
           /\ \A i \in DOMAIN chain :
                 chain[i].info.subject = ROOT_CA_SUBJECT => GetBySubject(chain, ROOT_CA_SUBJECT) # {}
<1>1. \A i \in DOMAIN chain :
         chain[i].info.subject = ROOT_CA_SUBJECT => GetBySubject(chain, ROOT_CA_SUBJECT) # {}
  BY DEF GetBySubject
<1>2. QED
  BY <1>1, Selected

\* CertificateChain::parse refuses exactly what is empty or has a certificate that cannot be parsed.
LEMMA ChainParses ==
    ASSUME NEW c \in Calls
    PROVE  ParseChain(c.chain) = "OK" <=>
             /\ Len(c.chain) # 0
             /\ \A cert \in Trust!Certificates(c) :
                   cert.format = "ok" /\ (cert.info.subject = PCK_SUBJECT => cert.sgxFormat = "ok")
<1> DEFINE malformed == { i \in DOMAIN c.chain : c.chain[i].format # "ok" }
           badPck == { i \in PckPositions(c.chain) : c.chain[i].sgxFormat # "ok" }
<1>1. \A i \in DOMAIN c.chain :
        CommonNameContains(c.chain[i].info.subject, SGX_PCK_CN_PHRASE)
            <=> c.chain[i].info.subject = PCK_SUBJECT
  BY CallsAssumption, PhrasesNameRoles
<1>2. (malformed = {} /\ badPck = {}) <=>
        \A cert \in Trust!Certificates(c) :
           cert.format = "ok" /\ (cert.info.subject = PCK_SUBJECT => cert.sgxFormat = "ok")
  BY <1>1 DEF PckPositions, Trust!Certificates
<1>3. malformed = {} /\ badPck = {} => (ParseChain(c.chain) = "OK" <=> Len(c.chain) # 0)
  BY DEF ParseChain
<1>4. ~(malformed = {} /\ badPck = {}) => ParseChain(c.chain) # "OK"
  <2>1. CASE malformed # {}
    BY <2>1 DEF ParseChain, GuessedExtensionError
  <2>2. CASE malformed = {} /\ badPck # {}
    BY <2>2 DEF ParseChain
  <2>3. QED
    BY <2>1, <2>2
<1>5. QED
  BY <1>2, <1>3, <1>4

(***************************************************************************)
(* The checks of each function, dates aside.                               *)
(***************************************************************************)
IntermediateUnrevoked(c) == \A cert \in GetIntermediateCert(c.chain) : ~IsRevoked(c.crls[1], cert)
PckUnrevoked(c) == \A cert \in GetPckCert(c.chain) : ~IsRevoked(c.crls[2], cert)

PckPasses(c) ==
    /\ Trust!Parsed(c) /\ PckAnchored(c) /\ SelfIssued(c.trustedRoot)
    /\ RootCrlGenuine(c) /\ IntermediateCrlGenuine(c)
    /\ IntermediateUnrevoked(c) /\ PckUnrevoked(c)

SigningUnrevoked(c) == \A cert \in GetTopmostCert(c.chain) : ~IsRevoked(c.crls[1], cert)
BodySigned(c) ==
    \A cert \in GetTopmostCert(c.chain), body \in c.body : body.signedBy = cert.info.key

SigningPasses(c) ==
    /\ Trust!Parsed(c) /\ SigningAnchored(c) /\ SelfIssued(c.trustedRoot)
    /\ RootCrlGenuine(c) /\ SigningUnrevoked(c) /\ BodySigned(c)

IssuerKnown(c) ==
    /\ c.crls[1].issuer \in { ROOT_CA_SUBJECT, PLATFORM_CA_SUBJECT, PROCESSOR_CA_SUBJECT }
    /\ c.crls[1].issuer = ROOT_CA_SUBJECT => Len(c.chain) = 1
    /\ c.crls[1].issuer # ROOT_CA_SUBJECT => Len(c.chain) = 2 /\ CaFound(c)

TopmostCrlGenuine(c) ==
    GetTopmostCert(c.chain) # {} /\ CrlVerified(c.crls[1], GetTopmostCert(c.chain))

TrustedRootNamed(c) ==
    c.trustedRoot.info.subject = ROOT_CA_SUBJECT /\ VerifyRootCACert(c.trustedRoot)

CrlPasses(c) ==
    /\ Trust!Parsed(c) /\ RootNamed(c) /\ NamedRootVerified(c) /\ IssuerKnown(c)
    /\ TopmostCrlGenuine(c) /\ TrustedRootNamed(c)
    /\ \E root \in GetRootCert(c.chain) : SameSignature(root, c.trustedRoot)

\* CollateralTrust speaks of certificates in the same words as the code.
LEMMA SameNames ==
    /\ Trust!ROOT_CA_SUBJECT = ROOT_CA_SUBJECT /\ Trust!PCK_SUBJECT = PCK_SUBJECT
    /\ Trust!PLATFORM_CA_SUBJECT = PLATFORM_CA_SUBJECT
    /\ Trust!PROCESSOR_CA_SUBJECT = PROCESSOR_CA_SUBJECT
    /\ Trust!SGX_INTERMEDIATE_CN_PHRASE = SGX_INTERMEDIATE_CN_PHRASE
    /\ Trust!SGX_PCK_CN_PHRASE = SGX_PCK_CN_PHRASE
    /\ Trust!SGX_TCB_SIGNING_CN_PHRASE = SGX_TCB_SIGNING_CN_PHRASE
    /\ \A name, phrase : Trust!CommonNameContains(name, phrase) <=> CommonNameContains(name, phrase)
<1>1. Trust!CommonNamePhrases = CommonNamePhrases
  BY DEF Trust!CommonNamePhrases, CommonNamePhrases, Trust!SGX_ROOT_CA_CN_PHRASE,
         SGX_ROOT_CA_CN_PHRASE, Trust!SGX_TCB_SIGNING_CN_PHRASE, SGX_TCB_SIGNING_CN_PHRASE,
         Trust!SGX_INTERMEDIATE_CN_PHRASE, SGX_INTERMEDIATE_CN_PHRASE, Trust!SGX_PCK_CN_PHRASE,
         SGX_PCK_CN_PHRASE, Trust!ROOT_CA_SUBJECT, ROOT_CA_SUBJECT, Trust!PCK_SUBJECT, PCK_SUBJECT,
         Trust!TCB_SUBJECT, TCB_SUBJECT, Trust!OtherSubject, OtherSubject, Trust!OtherCaSubject,
         OtherCaSubject, Trust!PLATFORM_CA_SUBJECT, PLATFORM_CA_SUBJECT,
         Trust!PROCESSOR_CA_SUBJECT, PROCESSOR_CA_SUBJECT
<1>2. QED
  BY <1>1 DEF Trust!CommonNameContains, CommonNameContains, Trust!SGX_TCB_SIGNING_CN_PHRASE,
         SGX_TCB_SIGNING_CN_PHRASE, Trust!SGX_INTERMEDIATE_CN_PHRASE, SGX_INTERMEDIATE_CN_PHRASE,
         Trust!SGX_PCK_CN_PHRASE, SGX_PCK_CN_PHRASE, Trust!ROOT_CA_SUBJECT, ROOT_CA_SUBJECT,
         Trust!PCK_SUBJECT, PCK_SUBJECT, Trust!PLATFORM_CA_SUBJECT, PLATFORM_CA_SUBJECT,
         Trust!PROCESSOR_CA_SUBJECT, PROCESSOR_CA_SUBJECT

LEMMA SameChecks ==
    /\ \A cert : Trust!SelfIssued(cert) <=> SelfIssued(cert)
    /\ \A cert : Trust!VerifyRootCACert(cert) <=> VerifyRootCACert(cert)
    /\ \A cert, issuer : Trust!IssuedBy(cert, issuer) <=> IssuedBy(cert, issuer)
    /\ \A cert, trusted : Trust!SameSignature(cert, trusted) <=> SameSignature(cert, trusted)
    /\ \A crl, cert : Trust!IsRevoked(crl, cert) <=> IsRevoked(crl, cert)
  BY DEF Trust!SelfIssued, SelfIssued, Trust!VerifyRootCACert, VerifyRootCACert,
         Trust!IssuedBy, IssuedBy, Trust!SameSignature, SameSignature, Trust!IsRevoked, IsRevoked,
         Trust!SignatureValid, SignatureValid, Trust!SignatureOf, SignatureOf

TrustedRootIs(c, root) ==
    /\ root.info.subject = ROOT_CA_SUBJECT
    /\ VerifyRootCACert(root)
    /\ SelfIssued(c.trustedRoot) /\ SameSignature(root, c.trustedRoot)

\* A chain of trust, by its certificates.
PckTrust(c, root, ca, pck) ==
    /\ Trust!Certificates(c) = { root, ca, pck }
    /\ TrustedRootIs(c, root)
    /\ IssuedBy(ca, root) /\ IssuedBy(pck, ca)
    /\ ~SelfIssued(ca)
    /\ CommonNameContains(ca.info.subject, SGX_INTERMEDIATE_CN_PHRASE)
    /\ CommonNameContains(pck.info.subject, SGX_PCK_CN_PHRASE)
    /\ Trust!Genuine(c.crls[1], root) /\ Trust!Genuine(c.crls[2], ca)
    /\ ~IsRevoked(c.crls[1], ca) /\ ~IsRevoked(c.crls[2], pck)

SigningTrust(c, root, signing) ==
    /\ Trust!Certificates(c) = { root, signing }
    /\ TrustedRootIs(c, root)
    /\ IssuedBy(signing, root)
    /\ CommonNameContains(signing.info.subject, SGX_TCB_SIGNING_CN_PHRASE)
    /\ Trust!Genuine(c.crls[1], root) /\ ~IsRevoked(c.crls[1], signing)
    /\ \A body \in c.body : body.signedBy = signing.info.key

CrlTrust(c, root, ca) ==
    /\ Trust!Certificates(c) = { root, ca }
    /\ Len(c.chain) = Cardinality({ root, ca })
    /\ TrustedRootIs(c, root)
    /\ TrustedRootNamed(c)
    /\ \/ ca = root
       \/ /\ ca.info.subject \in { PLATFORM_CA_SUBJECT, PROCESSOR_CA_SUBJECT }
          /\ IssuedBy(ca, root)
    /\ Trust!Genuine(c.crls[1], ca)

LEMMA SameCardinality == \A S : Trust!Cardinality(S) = Cardinality(S)
  BY DEF Trust!Cardinality, Cardinality

LEMMA SameRoot == \A c, root : Trust!IsTrustedRoot(c, root) <=> TrustedRootIs(c, root)
  BY SameNames, SameChecks DEF Trust!IsTrustedRoot, TrustedRootIs

\* The chains that CollateralTrust looks for are these.
LEMMA PckChains ==
    ASSUME NEW c
    PROVE  Trust!PckChain(c) # {} <=> \E root, ca, pck : PckTrust(c, root, ca, pck)
<1>1. ASSUME NEW path \in Trust!PckChain(c)
      PROVE  PckTrust(c, path[1], path[2], path[3])
  BY SameNames, SameChecks, SameRoot DEF Trust!PckChain, PckTrust
<1>2. ASSUME NEW root, NEW ca, NEW pck, PckTrust(c, root, ca, pck)
      PROVE  <<root, ca, pck>> \in Trust!PckChain(c)
  <2>1. root \in Trust!Certificates(c) /\ ca \in Trust!Certificates(c) /\ pck \in Trust!Certificates(c)
    BY <1>2 DEF PckTrust
  <2>2. QED
    BY <1>2, <2>1, SameNames, SameChecks, SameRoot DEF Trust!PckChain, PckTrust
<1>3. QED
  BY <1>1, <1>2

LEMMA SigningChains ==
    ASSUME NEW c
    PROVE  Trust!SigningChain(c) # {} <=> \E root, signing : SigningTrust(c, root, signing)
<1>1. ASSUME NEW path \in Trust!SigningChain(c)
      PROVE  SigningTrust(c, path[1], path[2])
  BY SameNames, SameChecks, SameRoot DEF Trust!SigningChain, SigningTrust
<1>2. ASSUME NEW root, NEW signing, SigningTrust(c, root, signing)
      PROVE  <<root, signing>> \in Trust!SigningChain(c)
  <2>1. root \in Trust!Certificates(c) /\ signing \in Trust!Certificates(c)
    BY <1>2 DEF SigningTrust
  <2>2. QED
    BY <1>2, <2>1, SameNames, SameChecks, SameRoot DEF Trust!SigningChain, SigningTrust
<1>3. QED
  BY <1>1, <1>2

LEMMA CrlChains ==
    ASSUME NEW c
    PROVE  Trust!CrlChain(c) # {} <=> \E root, ca : CrlTrust(c, root, ca)
<1>1. ASSUME NEW path \in Trust!CrlChain(c)
      PROVE  CrlTrust(c, path[1], path[2])
  BY SameNames, SameChecks, SameRoot, SameCardinality
  DEF Trust!CrlChain, CrlTrust, TrustedRootNamed
<1>2. ASSUME NEW root, NEW ca, CrlTrust(c, root, ca)
      PROVE  <<root, ca>> \in Trust!CrlChain(c)
  <2>1. root \in Trust!Certificates(c) /\ ca \in Trust!Certificates(c)
    BY <1>2 DEF CrlTrust
  <2>2. QED
    BY <1>2, <2>1, SameNames, SameChecks, SameRoot, SameCardinality
    DEF Trust!CrlChain, CrlTrust, TrustedRootNamed
<1>3. QED
  BY <1>1, <1>2

\* A CRL passes PckCrlVerifier::verify exactly if it is the CA's own.
LEMMA CrlVerifies ==
    ASSUME NEW crl, NEW ca
    PROVE  VerifyCrl(crl, ca) = "OK" <=> Trust!Genuine(crl, ca)
  BY DEF VerifyCrl, CrlIssuerIs, Trust!Genuine

\* The only certificate of a role is found in a chain that has it somewhere.
LEMMA PckRolesFound ==
    ASSUME NEW c \in Calls, Len(c.chain) = 3, NEW root, NEW ca, NEW pck,
           Trust!Certificates(c) = { root, ca, pck },
           root.info.subject = ROOT_CA_SUBJECT, SelfIssued(root),
           IssuedBy(ca, root), IssuedBy(pck, ca), ~SelfIssued(ca),
           CommonNameContains(ca.info.subject, SGX_INTERMEDIATE_CN_PHRASE),
           CommonNameContains(pck.info.subject, SGX_PCK_CN_PHRASE)
    PROVE  /\ GetRootCert(c.chain) = { root }
           /\ GetIntermediateCert(c.chain) = { ca }
           /\ GetPckCert(c.chain) = { pck }
<1>1. ShortChain(c.chain)
  BY CallsAssumption DEF ShortChain
<1>2. PICK i \in DOMAIN c.chain, j \in DOMAIN c.chain, k \in DOMAIN c.chain :
        root = c.chain[i] /\ ca = c.chain[j] /\ pck = c.chain[k]
  BY DEF Trust!Certificates
<1>3. \A n \in DOMAIN c.chain : c.chain[n] \in { root, ca, pck }
  BY DEF Trust!Certificates
<1>4. /\ root.info.subject \in DOMAIN CommonNamePhrases
      /\ ca.info.subject \in DOMAIN CommonNamePhrases
      /\ pck.info.subject \in DOMAIN CommonNamePhrases
  BY <1>2, CallsAssumption
<1>5. pck.info.subject = PCK_SUBJECT /\ ca.info.subject \in CaSubjects
  BY <1>4, PhrasesNameRoles
<1>6. PCK_SUBJECT \notin CaSubjects /\ ROOT_CA_SUBJECT \in CaSubjects /\ ROOT_CA_SUBJECT # PCK_SUBJECT
  BY DEF CaSubjects, PCK_SUBJECT, ROOT_CA_SUBJECT, PLATFORM_CA_SUBJECT, PROCESSOR_CA_SUBJECT,
         OtherCaSubject
<1>7. ~SelfIssued(pck)
  BY <1>5, <1>6 DEF SelfIssued, IssuedBy
<1>8. GetRootCert(c.chain) = { root }
  <2>1. GetRootCert(c.chain) # {}
    BY <1>1, <1>2, RootSelected
  <2>2. \A cert \in GetRootCert(c.chain) : cert = root
    BY <1>1, <1>3, <1>7, RootSelected
  <2>3. QED
    BY <2>1, <2>2
<1>9. GetIntermediateCert(c.chain) = { ca }
  <2>1. GetIntermediateCert(c.chain) # {}
    BY <1>1, <1>2, IntermediateSelected
  <2>2. ~CommonNameContains(pck.info.subject, SGX_INTERMEDIATE_CN_PHRASE)
    BY <1>4, <1>5, <1>6, PhrasesNameRoles
  <2>3. \A cert \in GetIntermediateCert(c.chain) : cert = ca
    BY <1>1, <1>3, <2>2, IntermediateSelected
  <2>4. QED
    BY <2>1, <2>3
<1>10. GetPckCert(c.chain) = { pck }
  <2>1. GetPckCert(c.chain) # {}
    BY <1>1, <1>2, PckSelected
  <2>2. /\ ~CommonNameContains(root.info.subject, SGX_PCK_CN_PHRASE)
        /\ ~CommonNameContains(ca.info.subject, SGX_PCK_CN_PHRASE)
    BY <1>4, <1>5, <1>6, PhrasesNameRoles
  <2>3. \A cert \in GetPckCert(c.chain) : cert = pck
    BY <1>1, <1>3, <2>2, PckSelected
  <2>4. QED
    BY <2>1, <2>3
<1>11. QED
  BY <1>8, <1>9, <1>10

\* PckCertVerifier passes a PCK certificate exactly if its chain is trusted.
LEMMA PckPassesIfTrusted ==
    ASSUME NEW c \in Calls, c.api = "PCKCertificate"
    PROVE  Trust!Trusted(c) <=> PckPasses(c)
<1> USE DEF Trust!Trusted, TrustedRootIs
<1>1. ASSUME Trust!Trusted(c) PROVE PckPasses(c)
  <2>1. PICK root, ca, pck : PckTrust(c, root, ca, pck)
    BY <1>1, PckChains
  <2>2. /\ Trust!Certificates(c) = { root, ca, pck }
        /\ TrustedRootIs(c, root)
        /\ IssuedBy(ca, root) /\ IssuedBy(pck, ca)
        /\ ~SelfIssued(ca)
        /\ CommonNameContains(ca.info.subject, SGX_INTERMEDIATE_CN_PHRASE)
        /\ CommonNameContains(pck.info.subject, SGX_PCK_CN_PHRASE)
        /\ Trust!Genuine(c.crls[1], root) /\ Trust!Genuine(c.crls[2], ca)
        /\ ~IsRevoked(c.crls[1], ca) /\ ~IsRevoked(c.crls[2], pck)
    BY <2>1 DEF PckTrust
  <2>3. /\ GetRootCert(c.chain) = { root } /\ GetIntermediateCert(c.chain) = { ca }
        /\ GetPckCert(c.chain) = { pck } /\ Len(c.chain) = 3
    <3>1. Len(c.chain) = 3
      BY <1>1
    <3>2. root.info.subject = ROOT_CA_SUBJECT /\ SelfIssued(root)
      BY <2>2 DEF VerifyRootCACert
    <3>3. QED
      BY <2>2, <3>1, <3>2, PckRolesFound
  <2>4. CommonNameContains(root.info.subject, SGX_ROOT_CA_CN_PHRASE)
    <3>1. root.info.subject = ROOT_CA_SUBJECT /\ ROOT_CA_SUBJECT \in DOMAIN CommonNamePhrases
      BY <2>2 DEF CommonNamePhrases
    <3>2. QED
      BY <3>1, PhrasesNameRoles
  <2>5. PckAnchored(c)
    BY <2>2, <2>3, <2>4 DEF PckAnchored, RootFound, RootVerified, IntermediateVerified,
                            PckVerified, RootTrusted
  <2>6. QED
    BY <1>1, <2>2, <2>3, <2>5, CrlVerifies
    DEF PckPasses, RootCrlGenuine, IntermediateCrlGenuine, CrlVerified, IntermediateUnrevoked,
        PckUnrevoked
<1>2. ASSUME PckPasses(c) PROVE Trust!Trusted(c)
  <2>1. ShortChain(c.chain) /\ DOMAIN c.chain = 1 .. 3
    BY <1>2, CallsAssumption DEF PckPasses, PckAnchored, ShortChain
  <2>2. PICK root \in GetRootCert(c.chain), ca \in GetIntermediateCert(c.chain),
             pck \in GetPckCert(c.chain) :
               CommonNameContains(root.info.subject, SGX_ROOT_CA_CN_PHRASE)
    BY <1>2 DEF PckPasses, PckAnchored, RootFound
  <2>3. /\ VerifyRootCACert(root) /\ SameSignature(root, c.trustedRoot)
        /\ IssuedBy(ca, root) /\ IssuedBy(pck, ca)
    BY <1>2, <2>2
    DEF PckPasses, PckAnchored, RootVerified, RootTrusted, IntermediateVerified, PckVerified
  <2>4. SelfIssued(root) /\ ~SelfIssued(ca)
    BY <2>1, <2>2, Selected
  <2>5. Trust!Certificates(c) = { root, ca, pck }
    BY <2>1, <2>2, <2>3, <2>4, PckRolesAreTheChain
  <2>6. root.info.subject = ROOT_CA_SUBJECT
    <3>1. root \in Trust!Certificates(c)
      BY <2>5
    <3>2. root.info.subject \in DOMAIN CommonNamePhrases
      BY <3>1, CallsAssumption DEF Trust!Certificates
    <3>3. QED
      BY <2>2, <3>2, PhrasesNameRoles
  <2>7. /\ CommonNameContains(ca.info.subject, SGX_INTERMEDIATE_CN_PHRASE)
        /\ CommonNameContains(pck.info.subject, SGX_PCK_CN_PHRASE)
    BY <2>1, <2>2, IntermediateSelected, PckSelected
  <2>8. /\ Trust!Genuine(c.crls[1], root) /\ Trust!Genuine(c.crls[2], ca)
        /\ ~IsRevoked(c.crls[1], ca) /\ ~IsRevoked(c.crls[2], pck)
    BY <1>2, <2>2, CrlVerifies
    DEF PckPasses, RootCrlGenuine, IntermediateCrlGenuine, CrlVerified, IntermediateUnrevoked,
        PckUnrevoked
  <2>9. TrustedRootIs(c, root)
    BY <1>2, <2>3, <2>6 DEF PckPasses
  <2>10. PckTrust(c, root, ca, pck)
    BY <2>3, <2>4, <2>5, <2>7, <2>8, <2>9 DEF PckTrust
  <2>11. QED
    BY <1>2, <2>10, PckChains DEF PckPasses, PckAnchored
<1>3. QED
  BY <1>1, <1>2

\* The same for a signing certificate under its root.
LEMMA SigningRolesFound ==
    ASSUME NEW c \in Calls, Len(c.chain) = 2, NEW root, NEW signing,
           Trust!Certificates(c) = { root, signing },
           root.info.subject = ROOT_CA_SUBJECT, SelfIssued(root), IssuedBy(signing, root),
           CommonNameContains(signing.info.subject, SGX_TCB_SIGNING_CN_PHRASE)
    PROVE  GetRootCert(c.chain) = { root } /\ GetTopmostCert(c.chain) = { signing }
<1>1. ShortChain(c.chain)
  BY CallsAssumption DEF ShortChain
<1>2. PICK i \in DOMAIN c.chain, j \in DOMAIN c.chain : root = c.chain[i] /\ signing = c.chain[j]
  BY DEF Trust!Certificates
<1>3. \A n \in DOMAIN c.chain : c.chain[n] \in { root, signing }
  BY DEF Trust!Certificates
<1>4. signing.info.subject = TCB_SUBJECT /\ TCB_SUBJECT # ROOT_CA_SUBJECT
  BY <1>2, CallsAssumption, PhrasesNameRoles DEF TCB_SUBJECT, ROOT_CA_SUBJECT
<1>5. ~SelfIssued(signing) /\ root.info.issuer = ROOT_CA_SUBJECT
      /\ signing.info.issuer = ROOT_CA_SUBJECT
  BY <1>4 DEF SelfIssued, IssuedBy
<1>6. GetRootCert(c.chain) = { root }
  <2>1. GetRootCert(c.chain) # {}
    BY <1>1, <1>2, RootSelected
  <2>2. \A cert \in GetRootCert(c.chain) : cert = root
    BY <1>1, <1>3, <1>5, RootSelected
  <2>3. QED
    BY <2>1, <2>2
<1>7. GetTopmostCert(c.chain) = { signing }
  <2>1. IssuedNoOther(c.chain, signing)
    BY <1>3, <1>4, <1>5 DEF IssuedNoOther
  <2>2. ~IssuedNoOther(c.chain, root)
    BY <1>2, <1>4, <1>5 DEF IssuedNoOther
  <2>3. GetTopmostCert(c.chain) # {}
    BY <1>1, <1>2, <2>1, TopmostSelected
  <2>4. \A cert \in GetTopmostCert(c.chain) : cert = signing
    BY <1>1, <1>3, <2>2, TopmostSelected
  <2>5. QED
    BY <2>3, <2>4
<1>8. QED
  BY <1>6, <1>7

\* TCBSigningChain and the check of the document's signature pass exactly if they are trusted.
LEMMA SigningPassesIfTrusted ==
    ASSUME NEW c \in Calls, c.api \in { "TCBInfo", "EnclaveIdentity" }
    PROVE  Trust!Trusted(c) <=> SigningPasses(c)
<1> USE DEF TrustedRootIs
<1>0. Trust!Trusted(c) <=> Trust!Parsed(c) /\ Len(c.chain) = 2 /\ Trust!SigningChain(c) # {}
  BY DEF Trust!Trusted
<1>1. ASSUME Trust!Trusted(c) PROVE SigningPasses(c)
  <2>1. PICK root, signing : SigningTrust(c, root, signing)
    BY <1>0, <1>1, SigningChains
  <2>2. /\ Trust!Certificates(c) = { root, signing }
        /\ TrustedRootIs(c, root)
        /\ IssuedBy(signing, root)
        /\ CommonNameContains(signing.info.subject, SGX_TCB_SIGNING_CN_PHRASE)
        /\ Trust!Genuine(c.crls[1], root) /\ ~IsRevoked(c.crls[1], signing)
        /\ \A body \in c.body : body.signedBy = signing.info.key
    BY <2>1 DEF SigningTrust
  <2>3. GetRootCert(c.chain) = { root } /\ GetTopmostCert(c.chain) = { signing } /\ Len(c.chain) = 2
    BY <1>0, <1>1, <2>2, SigningRolesFound DEF VerifyRootCACert
  <2>4. CommonNameContains(root.info.subject, SGX_ROOT_CA_CN_PHRASE)
    <3>1. root.info.subject = ROOT_CA_SUBJECT /\ ROOT_CA_SUBJECT \in DOMAIN CommonNamePhrases
      BY <2>2 DEF CommonNamePhrases
    <3>2. QED
      BY <3>1, PhrasesNameRoles
  <2>5. SigningAnchored(c)
    BY <2>2, <2>3, <2>4
    DEF SigningAnchored, RootFound, RootVerified, SigningFound, SigningVerified, RootTrusted
  <2>6. QED
    BY <1>0, <1>1, <2>2, <2>3, <2>5, CrlVerifies
    DEF SigningPasses, RootCrlGenuine, CrlVerified, SigningUnrevoked, BodySigned
<1>2. ASSUME SigningPasses(c) PROVE Trust!Trusted(c)
  <2>1. ShortChain(c.chain) /\ DOMAIN c.chain = 1 .. 2
    BY <1>2, CallsAssumption DEF SigningPasses, SigningAnchored, ShortChain
  <2>2. PICK root \in GetRootCert(c.chain) :
          CommonNameContains(root.info.subject, SGX_ROOT_CA_CN_PHRASE)
    BY <1>2 DEF SigningPasses, SigningAnchored, RootFound
  <2>3. PICK signing \in GetTopmostCert(c.chain) :
          CommonNameContains(signing.info.subject, SGX_TCB_SIGNING_CN_PHRASE)
    BY <1>2 DEF SigningPasses, SigningAnchored, SigningFound
  <2>4. VerifyRootCACert(root) /\ SameSignature(root, c.trustedRoot) /\ IssuedBy(signing, root)
    BY <1>2, <2>2, <2>3 DEF SigningPasses, SigningAnchored, RootVerified, RootTrusted, SigningVerified
  <2>5. Trust!Certificates(c) = { root, signing }
    BY <2>1, <2>2, <2>3, SigningRolesAreTheChain
  <2>6. root.info.subject = ROOT_CA_SUBJECT
    <3>1. root \in Trust!Certificates(c)
      BY <2>5
    <3>2. root.info.subject \in DOMAIN CommonNamePhrases
      BY <3>1, CallsAssumption DEF Trust!Certificates
    <3>3. QED
      BY <2>2, <3>2, PhrasesNameRoles
  <2>7. /\ Trust!Genuine(c.crls[1], root) /\ ~IsRevoked(c.crls[1], signing)
        /\ \A body \in c.body : body.signedBy = signing.info.key
    BY <1>2, <2>2, <2>3, CrlVerifies
    DEF SigningPasses, RootCrlGenuine, CrlVerified, SigningUnrevoked, BodySigned
  <2>8. SigningTrust(c, root, signing)
    BY <1>2, <2>3, <2>4, <2>5, <2>6, <2>7 DEF SigningTrust, SigningPasses
  <2>9. QED
    BY <1>0, <1>2, <2>8, SigningChains DEF SigningPasses, SigningAnchored
<1>3. QED
  BY <1>1, <1>2

\* The certificates of a CRL's issuer, by their roles: the root alone, or with one CA.
LEMMA IssuerRolesFound ==
    ASSUME NEW c \in Calls, NEW root, NEW ca, CrlTrust(c, root, ca)
    PROVE  /\ GetRootCert(c.chain) = { root } /\ GetTopmostCert(c.chain) = { ca }
           /\ GetBySubject(c.chain, ROOT_CA_SUBJECT) = { root }
           /\ Len(c.chain) = IF ca = root THEN 1 ELSE 2
<1>1. Len(c.chain) = IF ca = root THEN 1 ELSE 2
  <2>1. CASE ca = root
    <3>1. { root, ca } = { root }
      BY <2>1
    <3>2. QED
      BY <2>1, <3>1, FS_Singleton DEF CrlTrust
  <2>2. CASE ca # root
    <3>1. { root, ca } = { root } \union { ca } /\ ca \notin { root }
      BY <2>2
    <3>2. Cardinality({ root }) = 1 /\ IsFiniteSet({ root })
      BY FS_Singleton
    <3>3. Cardinality({ root } \union { ca }) = 1 + 1
      BY <3>1, <3>2, FS_AddElement
    <3>4. Len(c.chain) = Cardinality({ root, ca })
      BY DEF CrlTrust
    <3>5. Cardinality({ root, ca }) = 2
      BY <3>1, <3>3
    <3>6. QED
      BY <2>2, <3>4, <3>5
  <2>3. QED
    BY <2>1, <2>2
<1>2. ShortChain(c.chain)
  BY <1>1, CallsAssumption DEF ShortChain
<1>3. PICK i \in DOMAIN c.chain, j \in DOMAIN c.chain : root = c.chain[i] /\ ca = c.chain[j]
  BY DEF Trust!Certificates, CrlTrust
<1>4. \A n \in DOMAIN c.chain : c.chain[n] \in { root, ca }
  BY DEF Trust!Certificates, CrlTrust
<1>5. root.info.subject = ROOT_CA_SUBJECT /\ root.info.issuer = ROOT_CA_SUBJECT /\ SelfIssued(root)
  BY DEF CrlTrust, TrustedRootIs, VerifyRootCACert, SelfIssued
<1>6. ca # root => /\ ca.info.subject # ROOT_CA_SUBJECT /\ ca.info.issuer = ROOT_CA_SUBJECT
                   /\ ~SelfIssued(ca)
  BY <1>5 DEF CrlTrust, SelfIssued, IssuedBy, ROOT_CA_SUBJECT, PLATFORM_CA_SUBJECT,
              PROCESSOR_CA_SUBJECT
<1>7. GetRootCert(c.chain) = { root }
  <2>1. GetRootCert(c.chain) # {}
    BY <1>2, <1>3, <1>5, RootSelected
  <2>2. \A cert \in GetRootCert(c.chain) : cert = root
    BY <1>2, <1>4, <1>6, RootSelected
  <2>3. QED
    BY <2>1, <2>2
<1>8. GetBySubject(c.chain, ROOT_CA_SUBJECT) = { root }
  <2>1. GetBySubject(c.chain, ROOT_CA_SUBJECT) # {}
    BY <1>2, <1>3, <1>5, NamedSelected
  <2>2. \A cert \in GetBySubject(c.chain, ROOT_CA_SUBJECT) : cert = root
    BY <1>2, <1>4, <1>6, NamedSelected
  <2>3. QED
    BY <2>1, <2>2
<1>9. GetTopmostCert(c.chain) = { ca }
  <2>1. IssuedNoOther(c.chain, ca)
    BY <1>4, <1>5, <1>6 DEF IssuedNoOther
  <2>2. ca # root => ~IssuedNoOther(c.chain, root)
    BY <1>3, <1>5, <1>6 DEF IssuedNoOther
  <2>3. GetTopmostCert(c.chain) # {}
    BY <1>2, <1>3, <2>1, TopmostSelected
  <2>4. \A cert \in GetTopmostCert(c.chain) : cert = ca
    BY <1>2, <1>4, <2>2, TopmostSelected
  <2>5. QED
    BY <2>3, <2>4
<1>10. QED
  BY <1>1, <1>7, <1>8, <1>9

\* And the other way round: what PckCrlVerifier has checked is such a chain.
LEMMA IssuerRolesTrusted ==
    ASSUME NEW c \in Calls, CrlPasses(c)
    PROVE  \E root, ca : CrlTrust(c, root, ca)
<1>1. ShortChain(c.chain)
  BY CallsAssumption DEF CrlPasses, IssuerKnown, ShortChain
<1>2. PICK named \in GetBySubject(c.chain, ROOT_CA_SUBJECT) : VerifyRootCACert(named)
  BY DEF CrlPasses, RootNamed, NamedRootVerified
<1>3. PICK root \in GetRootCert(c.chain) : SameSignature(root, c.trustedRoot)
  BY DEF CrlPasses
<1>4. PICK topmost \in GetTopmostCert(c.chain) : Trust!Genuine(c.crls[1], topmost)
  BY CrlVerifies DEF CrlPasses, TopmostCrlGenuine, CrlVerified
<1>5. PICK i \in DOMAIN c.chain, j \in DOMAIN c.chain, k \in DOMAIN c.chain :
        named = c.chain[i] /\ root = c.chain[j] /\ topmost = c.chain[k]
  BY <1>1, <1>2, <1>3, <1>4, Selected
<1>6. SelfIssued(root) /\ named.info.subject = ROOT_CA_SUBJECT
  BY <1>1, <1>2, <1>3, Selected
<1>7. SelfIssued(c.trustedRoot) /\ TrustedRootNamed(c)
  BY DEF CrlPasses, TrustedRootNamed, VerifyRootCACert
<1>8. CASE c.crls[1].issuer = ROOT_CA_SUBJECT
  <2>1. Len(c.chain) = 1
    BY <1>8 DEF CrlPasses, IssuerKnown
  <2>2. Trust!Certificates(c) = { named } /\ root = named /\ topmost = named
    BY <1>1, <1>5, <2>1 DEF Trust!Certificates, ShortChain
  <2>3. { named, named } = { named } /\ Cardinality({ named }) = 1
    BY FS_Singleton
  <2>4. CrlTrust(c, named, named)
    BY <1>2, <1>3, <1>4, <1>6, <1>7, <2>1, <2>2, <2>3 DEF CrlTrust, TrustedRootIs
  <2>5. QED
    BY <2>4
<1>9. CASE c.crls[1].issuer # ROOT_CA_SUBJECT
  <2>1. Len(c.chain) = 2 /\ CaFound(c)
    BY <1>9 DEF CrlPasses, IssuerKnown
  <2>2. /\ topmost.info.subject \in { PLATFORM_CA_SUBJECT, PROCESSOR_CA_SUBJECT }
        /\ IssuedBy(topmost, named)
    BY <1>2, <1>4, <2>1, OneSelected DEF CaFound
  <2>3. ~SelfIssued(topmost) /\ topmost # named
    BY <1>6, <2>2 DEF SelfIssued, IssuedBy, ROOT_CA_SUBJECT, PLATFORM_CA_SUBJECT,
                      PROCESSOR_CA_SUBJECT
  <2>4. \A n \in DOMAIN c.chain : n = i \/ n = k
    BY <1>1, <1>5, <2>1, <2>3 DEF ShortChain
  <2>5. root = named
    BY <1>5, <1>6, <2>3, <2>4
  <2>6. Trust!Certificates(c) = { named, topmost }
    BY <1>5, <2>4 DEF Trust!Certificates
  <2>7. Cardinality({ named, topmost }) = 2
    <3>1. { named, topmost } = { named } \union { topmost } /\ topmost \notin { named }
      BY <2>3
    <3>2. Cardinality({ named }) = 1 /\ IsFiniteSet({ named })
      BY FS_Singleton
    <3>3. Cardinality({ named } \union { topmost }) = 1 + 1
      BY <3>1, <3>2, FS_AddElement
    <3>4. QED
      BY <3>1, <3>3
  <2>8. CrlTrust(c, named, topmost)
    BY <1>2, <1>3, <1>4, <1>6, <1>7, <2>1, <2>2, <2>5, <2>6, <2>7 DEF CrlTrust, TrustedRootIs
  <2>9. QED
    BY <2>8
<1>10. QED
  BY <1>8, <1>9

\* PckCrlVerifier passes a CRL exactly if its issuer's chain is trusted.
LEMMA CrlPassesIfTrusted ==
    ASSUME NEW c \in Calls, c.api = "PCKRevocationList"
    PROVE  Trust!Trusted(c) <=> CrlPasses(c)
<1>0. Trust!Trusted(c) <=> Trust!Parsed(c) /\ Trust!CrlChain(c) # {}
  BY DEF Trust!Trusted
<1>1. ASSUME Trust!Trusted(c) PROVE CrlPasses(c)
  <2>1. PICK root, ca : CrlTrust(c, root, ca)
    BY <1>0, <1>1, CrlChains
  <2>2. /\ GetRootCert(c.chain) = { root } /\ GetTopmostCert(c.chain) = { ca }
        /\ GetBySubject(c.chain, ROOT_CA_SUBJECT) = { root }
        /\ Len(c.chain) = IF ca = root THEN 1 ELSE 2
    BY <2>1, IssuerRolesFound
  <2>3. IssuerKnown(c)
    <3>1. ca # root => CaFound(c)
      BY <2>1, <2>2 DEF CrlTrust, CaFound
    <3>2. c.crls[1].issuer = ca.info.subject /\ root.info.subject = ROOT_CA_SUBJECT
      BY <2>1 DEF CrlTrust, Trust!Genuine, TrustedRootIs
    <3>3. ca # root => ca.info.subject \in { PLATFORM_CA_SUBJECT, PROCESSOR_CA_SUBJECT }
      BY <2>1 DEF CrlTrust
    <3>4. QED
      BY <2>2, <3>1, <3>2, <3>3 DEF IssuerKnown, ROOT_CA_SUBJECT, PLATFORM_CA_SUBJECT,
                                    PROCESSOR_CA_SUBJECT
  <2>4. TopmostCrlGenuine(c)
    BY <2>1, <2>2, CrlVerifies DEF TopmostCrlGenuine, CrlVerified, CrlTrust
  <2>5. QED
    BY <1>0, <1>1, <2>1, <2>2, <2>3, <2>4
    DEF CrlPasses, RootNamed, NamedRootVerified, CrlTrust, TrustedRootIs
<1>2. ASSUME CrlPasses(c) PROVE Trust!Trusted(c)
  BY <1>0, <1>2, IssuerRolesTrusted, CrlChains DEF CrlPasses
<1>3. QED
  BY <1>1, <1>2

(***************************************************************************)
(* Then, with states: what each check adds to what is known of the call,   *)
(* until it can be answered.                                               *)
(***************************************************************************)
Verifying == CertificatePoints \union RevocationPoints \union CrlIssuerPoints \union DatePoints

\* What has been parsed; a CRL's verification parses the CRL before the chain.
ParseChecked ==
    /\ ~VerifiesCrl /\ pc \notin { "time", "returned" } => call.time # NoTime
    /\ pc \notin { "time", "parameters", "returned" } => ~call.missingParameter
    /\ VerifiesBody /\ pc \notin { "time", "parameters", "body", "returned" } =>
          \A body \in call.body : body.format = "ok"
    /\ (pc \in Verifying \union { "length", "trustedRoot" } \/ (~VerifiesCrl /\ pc = "crls")) =>
          ParseChain(call.chain) = "OK"
    /\ (pc \in Verifying \union { "trustedRoot" } \/ (VerifiesCrl /\ pc = "chain")) =>
          \A i \in DOMAIN call.crls : call.crls[i].parses
    /\ pc \in Verifying => call.trustedRoot.format = "ok"

CertsCurrent(c) == \A cert \in Trust!Certificates(c) : c.time <= cert.info.notAfter

CrlsInForce(c) == \A i \in DOMAIN c.crls : c.time \in c.crls[i].notBefore .. c.crls[i].notAfter

BodyCurrent(c) == \A body \in c.body : c.time <= body.nextUpdate

\* What the verifiers have established, beyond IInv.
PckTrusted ==
    VerifiesPck =>
        /\ pc \in { "trustedRootSignature" } \union PckRootCrl => SelfIssued(call.trustedRoot)
        /\ pc \in { "pckRevoked" } \union PckDates => IntermediateUnrevoked(call)
        /\ pc \in PckDates => PckUnrevoked(call)
        /\ pc = "crlExpired" => CertsCurrent(call)

BodyTrusted ==
    VerifiesBody =>
        /\ pc \in BodyTrustedRoot => RootCrlGenuine(call)
        /\ pc \in BodyTrustedRoot \ { "signingRevoked" } => SigningUnrevoked(call)
        /\ pc \in BodyTrustedRoot \ { "signingRevoked", "trustedRootIssuer" } =>
              SelfIssued(call.trustedRoot)
        /\ pc \in BodyDates \ { "bodySignature" } => BodySigned(call)
        /\ pc \in { "crlExpired", "bodyExpired" } => CertsCurrent(call)
        /\ pc = "bodyExpired" => CrlsInForce(call)

CrlTrusted ==
    VerifiesCrl =>
        /\ pc = "issuerIntermediate" =>
              call.crls[1].issuer \in { PLATFORM_CA_SUBJECT, PROCESSOR_CA_SUBJECT }
        /\ pc \in CrlIssuerFound => IssuerKnown(call)
        /\ pc \in CrlTrustedRoot => TopmostCrlGenuine(call)
        /\ pc = "crlRoot" => TrustedRootNamed(call)

Answered == pc = "returned" => Trust!Answers(call, status)

\* The inductive invariant of the refinement.
TInv == IInv /\ ParseChecked /\ PckTrusted /\ BodyTrusted /\ CrlTrusted /\ Answered

\* A status other than those of acceptance and expiration refuses, which is
\* the answer for collateral that is not trusted.
LEMMA Refusal ==
    ASSUME NEW c, NEW answer, answer \notin AcceptedStatuses \union { "none" }, ~Trust!Trusted(c)
    PROVE  Trust!Answers(c, answer)
  BY DEF Trust!Answers, AcceptedStatuses

LEMMA ExpiredAnswer ==
    ASSUME NEW c, NEW answer, answer \in Trust!ExpiredStatuses, Trust!Trusted(c), ~Trust!Current(c)
    PROVE  Trust!Answers(c, answer)
  BY DEF Trust!Answers, Trust!ExpiredStatuses

LEMMA AcceptedAnswer ==
    ASSUME NEW c, Trust!Trusted(c), Trust!Current(c)
    PROVE  Trust!Answers(c, "OK")
  BY DEF Trust!Answers, Trust!ExpiredStatuses

\* Each API function's verifier decides trust.
LEMMA PassesIfTrusted ==
    ASSUME NEW c \in Calls
    PROVE  /\ c.api = "PCKCertificate" => (Trust!Trusted(c) <=> PckPasses(c))
           /\ c.api \in { "TCBInfo", "EnclaveIdentity" } => (Trust!Trusted(c) <=> SigningPasses(c))
           /\ c.api = "PCKRevocationList" => (Trust!Trusted(c) <=> CrlPasses(c))
           /\ c.api \in Apis
  BY CallsAssumption, PckPassesIfTrusted, SigningPassesIfTrusted, CrlPassesIfTrusted

\* Trusted collateral has been parsed, from a chain that is not empty.
LEMMA TrustedParses ==
    ASSUME NEW c \in Calls, Trust!Trusted(c)
    PROVE  /\ c.api # "PCKRevocationList" => c.time # NoTime
           /\ ~c.missingParameter
           /\ ParseChain(c.chain) = "OK"
           /\ \A i \in DOMAIN c.crls : c.crls[i].parses
           /\ c.trustedRoot.format = "ok"
           /\ \A body \in c.body : body.format = "ok"
           /\ c.api = "PCKCertificate" => Len(c.chain) = 3
           /\ c.api \in { "TCBInfo", "EnclaveIdentity" } => Len(c.chain) = 2
<1>1. Trust!Parsed(c)
  BY DEF Trust!Trusted
<1>2. Len(c.chain) \in 1 .. 3
  BY PassesIfTrusted
  DEF PckPasses, PckAnchored, SigningPasses, SigningAnchored, CrlPasses, IssuerKnown
<1>3. ParseChain(c.chain) = "OK"
  <2>1. Len(c.chain) # 0
    BY <1>2
  <2>2. \A cert \in Trust!Certificates(c) :
           cert.format = "ok" /\ (cert.info.subject = PCK_SUBJECT => cert.sgxFormat = "ok")
    BY <1>1, SameNames DEF Trust!Parsed
  <2>3. QED
    BY <2>1, <2>2, ChainParses
<1>4. Trust!Parsed(c) => /\ c.api # "PCKRevocationList" => c.time # NoTime
                         /\ ~c.missingParameter
                         /\ \A i \in DOMAIN c.crls : c.crls[i].parses
                         /\ c.trustedRoot.format = "ok"
                         /\ \A body \in c.body : body.format = "ok"
  BY EvidenceAssumption DEF Trust!Parsed, NoTime
<1>5. /\ c.api = "PCKCertificate" => Len(c.chain) = 3
      /\ c.api \in { "TCBInfo", "EnclaveIdentity" } => Len(c.chain) = 2
  BY PassesIfTrusted DEF PckPasses, PckAnchored, SigningPasses, SigningAnchored
<1>6. QED
  BY <1>1, <1>3, <1>4, <1>5

\* Once the verifiers run, everything has been parsed.
LEMMA ParsedIfVerifying ==
    ASSUME call \in Calls, ParseChecked, pc \in Verifying, VerifiesBody \/ call.body = {}
    PROVE  Trust!Parsed(call)
<1>1. /\ ~VerifiesCrl => call.time # NoTime
      /\ ~call.missingParameter
      /\ VerifiesBody => \A body \in call.body : body.format = "ok"
      /\ ParseChain(call.chain) = "OK"
      /\ \A i \in DOMAIN call.crls : call.crls[i].parses
      /\ call.trustedRoot.format = "ok"
  BY DEF ParseChecked, Verifying
<1>2. ~VerifiesCrl => call.time >= 0
  BY <1>1, EvidenceAssumption DEF NoTime
<1>3. \A cert \in Trust!Certificates(call) :
         cert.format = "ok" /\ (cert.info.subject = PCK_SUBJECT => cert.sgxFormat = "ok")
  BY <1>1, ChainParses
<1>4. QED
  BY <1>1, <1>2, <1>3, SameNames DEF Trust!Parsed

\* The chain's certificates are those that the dates are checked of.
LEMMA PckDatesChecked ==
    ASSUME NEW c \in Calls, c.api = "PCKCertificate", PckPasses(c)
    PROVE  GetRootCert(c.chain) \union GetIntermediateCert(c.chain) \union GetPckCert(c.chain)
             = Trust!Certificates(c)
<1>1. PICK root, ca, pck : PckTrust(c, root, ca, pck)
  BY PckPassesIfTrusted, PckChains DEF Trust!Trusted
<1>2. /\ GetRootCert(c.chain) = { root } /\ GetIntermediateCert(c.chain) = { ca }
      /\ GetPckCert(c.chain) = { pck }
  <2>1. Len(c.chain) = 3
    BY DEF PckPasses, PckAnchored
  <2>2. /\ Trust!Certificates(c) = { root, ca, pck }
        /\ root.info.subject = ROOT_CA_SUBJECT /\ SelfIssued(root)
        /\ IssuedBy(ca, root) /\ IssuedBy(pck, ca) /\ ~SelfIssued(ca)
        /\ CommonNameContains(ca.info.subject, SGX_INTERMEDIATE_CN_PHRASE)
        /\ CommonNameContains(pck.info.subject, SGX_PCK_CN_PHRASE)
    BY <1>1 DEF PckTrust, TrustedRootIs, VerifyRootCACert
  <2>3. QED
    BY <2>1, <2>2, PckRolesFound
<1>3. QED
  BY <1>1, <1>2 DEF PckTrust

LEMMA SigningDatesChecked ==
    ASSUME NEW c \in Calls, c.api \in { "TCBInfo", "EnclaveIdentity" }, SigningPasses(c)
    PROVE  GetRootCert(c.chain) \union GetTopmostCert(c.chain) = Trust!Certificates(c)
<1>1. PICK root, signing : SigningTrust(c, root, signing)
  BY SigningPassesIfTrusted, SigningChains DEF Trust!Trusted
<1>2. GetRootCert(c.chain) = { root } /\ GetTopmostCert(c.chain) = { signing }
  <2>1. Len(c.chain) = 2
    BY DEF SigningPasses, SigningAnchored
  <2>2. /\ Trust!Certificates(c) = { root, signing }
        /\ root.info.subject = ROOT_CA_SUBJECT /\ SelfIssued(root) /\ IssuedBy(signing, root)
        /\ CommonNameContains(signing.info.subject, SGX_TCB_SIGNING_CN_PHRASE)
    BY <1>1 DEF SigningTrust, TrustedRootIs, VerifyRootCACert
  <2>3. QED
    BY <2>1, <2>2, SigningRolesFound
<1>3. QED
  BY <1>1, <1>2 DEF SigningTrust

LEMMA CertDates ==
    ASSUME NEW c \in Calls
    PROVE  (\A cert \in Trust!Certificates(c) : ~CertExpired(cert, c.time)) <=> CertsCurrent(c)
<1>1. \A cert \in Trust!Certificates(c) : cert.info.notAfter \in Int /\ c.time \in Int
  BY EvidenceAssumption DEF Trust!Certificates
<1>2. QED
  BY <1>1 DEF CertExpired, CertsCurrent

LEMMA CrlDates ==
    ASSUME NEW c \in Calls
    PROVE  (\A i \in DOMAIN c.crls : ~CrlExpired(c.crls[i], c.time)) <=> CrlsInForce(c)
<1>1. \A i \in DOMAIN c.crls :
         c.crls[i].notBefore \in Int /\ c.crls[i].notAfter \in Int /\ c.time \in Int
  BY EvidenceAssumption
<1>2. QED
  BY <1>1 DEF CrlExpired, CrlsInForce

LEMMA CurrentIs ==
    ASSUME NEW c
    PROVE  Trust!Current(c) <=> \/ c.api = "PCKRevocationList"
                                \/ CertsCurrent(c) /\ CrlsInForce(c) /\ BodyCurrent(c)
  BY DEF Trust!Current, CertsCurrent, CrlsInForce, BodyCurrent

\* Parsing either goes on, having parsed one thing more, or refuses what
\* cannot be trusted.
LEMMA ParseStepTInv ==
    TInv /\ ParseStep => (ParseChecked /\ PckTrusted /\ BodyTrusted /\ CrlTrusted /\ Answered)'
<1> SUFFICES ASSUME TInv, ParseStep
             PROVE  (ParseChecked /\ PckTrusted /\ BodyTrusted /\ CrlTrusted /\ Answered)'
  OBVIOUS
<1> USE DEF ParseChecked, PckTrusted, BodyTrusted, CrlTrusted, Answered, Check, Verifying
<1>0. call \in Calls /\ ChecksOwned /\ call.api \in Apis
  BY CallsAssumption DEF TInv, IInv
<1>1. CASE CheckTime
  <2>1. call.time = NoTime /\ ~VerifiesCrl => Trust!Answers(call, "INVALID_PARAMETER")
    BY <1>0, TrustedParses, Refusal, FinalStatusesListed
  <2>2. pc = "time" => ~VerifiesCrl
    BY <1>0 DEF ChecksOwned
  <2>3. QED
    BY <1>1, <1>0, <2>1, <2>2 DEF CheckTime
<1>2. CASE CheckParameters
  <2>1. ASSUME call.missingParameter, NEW error,
               error \in { "SGX_CRL_UNSUPPORTED_FORMAT", "UNSUPPORTED_CERT_FORMAT" }
        PROVE  Trust!Answers(call, error)
    BY <1>0, <2>1, TrustedParses, Refusal, FinalStatusesListed
  <2>2. QED
    BY <1>2, <1>0, <2>1 DEF CheckParameters, TInv
<1>3. CASE ParseBody
  <2>1. PICK body \in call.body :
          Check("body", body.format = "ok", BodyFormatError(body.format), "chain")
    BY <1>3 DEF ParseBody
  <2>2. \A other \in call.body : other = body
    <3>1. ~call.missingParameter
      BY <2>1 DEF TInv
    <3>2. QED
      BY <1>0, <3>1, EvidenceAssumption
  <2>3. BodyFormatError(body.format) \notin FinalStatuses
    BY FinalStatusesListed DEF BodyFormatError
  <2>4. body.format # "ok" => Trust!Answers(call, BodyFormatError(body.format))
    BY <1>0, <2>3, TrustedParses, Refusal DEF FinalStatuses
  <2>5. QED
    BY <1>0, <2>1, <2>2, <2>4 DEF TInv, ChecksOwned
<1>4. CASE ParseCertChain
  <2>1. ASSUME NEW error, error \notin FinalStatuses, ParseChain(call.chain) # "OK"
        PROVE  Trust!Answers(call, error)
    BY <1>0, <2>1, TrustedParses, Refusal DEF FinalStatuses
  <2>2. ParseChain(call.chain) # "OK" =>
          /\ Trust!Answers(call, "SGX_CA_CERT_UNSUPPORTED_FORMAT")
          /\ Trust!Answers(call, ParseChain(call.chain))
    BY <2>1, ParseChainError, FinalStatusesListed
  <2>3. QED
    BY <1>4, <1>0, <2>2 DEF ParseCertChain, TInv, ChecksOwned
<1>5. CASE CheckChainLength
  <2>1. Len(call.chain) = (IF VerifiesPck THEN EXPECTED_CERTIFICATE_COUNT_IN_PCK_CHAIN
                                          ELSE EXPECTED_CERTIFICATE_COUNT_IN_TCB_CHAIN)
          <=> \/ VerifiesPck /\ Len(call.chain) = 3
              \/ ~VerifiesPck /\ Len(call.chain) = 2
    BY DEF EXPECTED_CERTIFICATE_COUNT_IN_PCK_CHAIN, EXPECTED_CERTIFICATE_COUNT_IN_TCB_CHAIN
  <2>2. ~VerifiesCrl /\ ~(\/ VerifiesPck /\ Len(call.chain) = 3
                          \/ ~VerifiesPck /\ Len(call.chain) = 2)
          => Trust!Answers(call, "UNSUPPORTED_CERT_FORMAT")
    BY <1>0, TrustedParses, Refusal, FinalStatusesListed
  <2>3. QED
    BY <1>5, <1>0, <2>1, <2>2 DEF CheckChainLength, TInv, ChecksOwned
<1>6. CASE ParseCrls
  <2>1. ~(\A i \in DOMAIN call.crls : call.crls[i].parses)
          => Trust!Answers(call, "SGX_CRL_UNSUPPORTED_FORMAT")
    BY <1>0, TrustedParses, Refusal, FinalStatusesListed
  <2>2. QED
    BY <1>6, <1>0, <2>1 DEF ParseCrls, TInv, ChecksOwned
<1>7. CASE ParseTrustedRoot
  <2>1. TrustedRootFormatError(call.trustedRoot.format) \notin FinalStatuses
    BY FinalStatusesListed DEF TrustedRootFormatError
  <2>2. call.trustedRoot.format # "ok"
          => Trust!Answers(call, TrustedRootFormatError(call.trustedRoot.format))
    BY <1>0, <2>1, TrustedParses, Refusal DEF FinalStatuses
  <2>3. QED
    BY <1>7, <1>0, <2>2 DEF ParseTrustedRoot, TInv, ChecksOwned
<1>8. QED
  BY <1>1, <1>2, <1>3, <1>4, <1>5, <1>6, <1>7 DEF ParseStep

\* What fails a check of its verifier is not trusted, and is refused.
LEMMA FailedCheckRefuses ==
    ASSUME call \in Calls, NEW error, error \notin AcceptedStatuses \union { "none" },
           \/ VerifiesPck /\ ~PckPasses(call)
           \/ VerifiesBody /\ ~SigningPasses(call)
           \/ VerifiesCrl /\ ~CrlPasses(call)
    PROVE  Trust!Answers(call, error)
  BY PassesIfTrusted, Refusal

\* The same of each check of a certificate.
LEMMA CertificateStepTInv ==
    TInv /\ CertificateStep => (ParseChecked /\ PckTrusted /\ BodyTrusted /\ CrlTrusted /\ Answered)'
<1> SUFFICES ASSUME TInv, CertificateStep
             PROVE  (ParseChecked /\ PckTrusted /\ BodyTrusted /\ CrlTrusted /\ Answered)'
  OBVIOUS
<1> USE DEF ParseChecked, PckTrusted, BodyTrusted, CrlTrusted, Answered, Check, Verifying,
            Root, Intermediate, Pck, Topmost
<1>0. call \in Calls /\ ChecksOwned /\ call.api \in Apis
  BY CallsAssumption DEF TInv, IInv
<1>1. CASE FindRoot
  <2>1. ~VerifiesCrl
    BY <1>0, <1>1 DEF FindRoot, ChecksOwned
  <2>2. ~RootFound(call) => Trust!Answers(call, "SGX_ROOT_CA_MISSING")
    BY <1>0, <2>1, FailedCheckRefuses, FinalStatusesListed
    DEF PckPasses, PckAnchored, SigningPasses, SigningAnchored
  <2>3. QED
    BY <1>0, <1>1, <2>1, <2>2 DEF FindRoot, TInv, RootFound
<1>2. CASE FindIntermediate
  <2>1. VerifiesPck
    BY <1>0, <1>2 DEF FindIntermediate, ChecksOwned
  <2>2. Intermediate = {} => Trust!Answers(call, "SGX_INTERMEDIATE_CA_MISSING")
    BY <1>0, <2>1, FailedCheckRefuses, FinalStatusesListed DEF PckPasses, PckAnchored
  <2>3. QED
    BY <1>0, <1>2, <2>1, <2>2 DEF FindIntermediate, TInv
<1>3. CASE FindPck
  <2>1. VerifiesPck
    BY <1>0, <1>3 DEF FindPck, ChecksOwned
  <2>2. Pck = {} => Trust!Answers(call, "SGX_PCK_MISSING")
    BY <1>0, <2>1, FailedCheckRefuses, FinalStatusesListed DEF PckPasses, PckAnchored
  <2>3. QED
    BY <1>0, <1>3, <2>1, <2>2 DEF FindPck, TInv
<1>4. CASE VerifyRoot
  <2>1. ~VerifiesCrl
    BY <1>0, <1>4 DEF VerifyRoot, ChecksOwned
  <2>2. ~RootVerified(call) => Trust!Answers(call, "SGX_ROOT_CA_INVALID_ISSUER")
    BY <1>0, <2>1, FailedCheckRefuses, FinalStatusesListed
    DEF PckPasses, PckAnchored, SigningPasses, SigningAnchored
  <2>3. QED
    BY <1>0, <1>4, <2>1, <2>2 DEF VerifyRoot, TInv, RootVerified
<1>5. CASE VerifyIntermediate
  <2>1. VerifiesPck
    BY <1>0, <1>5 DEF VerifyIntermediate, ChecksOwned
  <2>2. ~IntermediateVerified(call) => Trust!Answers(call, "SGX_INTERMEDIATE_CA_INVALID_ISSUER")
    BY <1>0, <2>1, FailedCheckRefuses, FinalStatusesListed DEF PckPasses, PckAnchored
  <2>3. QED
    BY <1>0, <1>5, <2>1, <2>2 DEF VerifyIntermediate, TInv, IntermediateVerified
<1>6. CASE VerifyPckCert
  <2>1. VerifiesPck
    BY <1>0, <1>6 DEF VerifyPckCert, ChecksOwned
  <2>2. ~PckVerified(call) => Trust!Answers(call, "SGX_PCK_INVALID_ISSUER")
    BY <1>0, <2>1, FailedCheckRefuses, FinalStatusesListed DEF PckPasses, PckAnchored
  <2>3. QED
    BY <1>0, <1>6, <2>1, <2>2 DEF VerifyPckCert, TInv, PckVerified
<1>7. CASE FindTcbSigningCert
  <2>1. VerifiesBody
    BY <1>0, <1>7 DEF FindTcbSigningCert, ChecksOwned
  <2>2. ~SigningFound(call) => Trust!Answers(call, "SGX_TCB_SIGNING_CERT_MISSING")
    BY <1>0, <2>1, FailedCheckRefuses, FinalStatusesListed DEF SigningPasses, SigningAnchored
  <2>3. QED
    BY <1>0, <1>7, <2>1, <2>2 DEF FindTcbSigningCert, TInv, SigningFound
<1>8. CASE VerifyTcbSigningCert
  <2>1. VerifiesBody
    BY <1>0, <1>8 DEF VerifyTcbSigningCert, ChecksOwned
  <2>2. ~SigningVerified(call) => Trust!Answers(call, "SGX_TCB_SIGNING_CERT_INVALID_ISSUER")
    BY <1>0, <2>1, FailedCheckRefuses, FinalStatusesListed DEF SigningPasses, SigningAnchored
  <2>3. QED
    BY <1>0, <1>8, <2>1, <2>2 DEF VerifyTcbSigningCert, TInv, SigningVerified
<1>9. CASE CheckTrustedRootIssuer
  <2>1. ~VerifiesCrl
    BY <1>0, <1>9 DEF CheckTrustedRootIssuer, ChecksOwned
  <2>2. ~SelfIssued(call.trustedRoot) => Trust!Answers(call, "TRUSTED_ROOT_CA_INVALID")
    BY <1>0, <2>1, FailedCheckRefuses, FinalStatusesListed DEF PckPasses, SigningPasses
  <2>3. QED
    BY <1>0, <1>9, <2>1, <2>2 DEF CheckTrustedRootIssuer, TInv
<1>10. CASE CompareTrustedRoot
  <2>1. ~VerifiesCrl
    BY <1>0, <1>10 DEF CompareTrustedRoot, ChecksOwned
  <2>2. ~RootTrusted(call) => /\ Trust!Answers(call, "SGX_PCK_CERT_CHAIN_UNTRUSTED")
                              /\ Trust!Answers(call, "SGX_TCB_SIGNING_CERT_CHAIN_UNTRUSTED")
    BY <1>0, <2>1, FailedCheckRefuses, FinalStatusesListed
    DEF PckPasses, PckAnchored, SigningPasses, SigningAnchored
  <2>3. QED
    BY <1>0, <1>10, <2>1, <2>2 DEF CompareTrustedRoot, TInv, RootTrusted
<1>11. QED
  BY <1>1, <1>2, <1>3, <1>4, <1>5, <1>6, <1>7, <1>8, <1>9, <1>10 DEF CertificateStep

\* By the time the dates are looked at, the collateral is trusted.
LEMMA PckPassesByDates == TInv /\ VerifiesPck /\ pc \in PckDates => PckPasses(call) /\ Trust!Trusted(call)
<1> SUFFICES ASSUME TInv, VerifiesPck, pc \in PckDates PROVE PckPasses(call) /\ Trust!Trusted(call)
  OBVIOUS
<1>0. call \in Calls
  BY DEF TInv, IInv
<1>1. Trust!Parsed(call)
  <2>1. pc \in Verifying
    BY DEF Verifying
  <2>2. ~call.missingParameter
    BY DEF TInv, ParseChecked
  <2>3. call.body = {}
    BY <1>0, <2>2, EvidenceAssumption
  <2>4. QED
    BY <1>0, <2>1, <2>3, ParsedIfVerifying DEF TInv
<1>2. PckAnchored(call) /\ RootCrlGenuine(call) /\ IntermediateCrlGenuine(call)
  BY DEF TInv, IInv, PckChecked, PckAnchored
<1>3. SelfIssued(call.trustedRoot) /\ IntermediateUnrevoked(call) /\ PckUnrevoked(call)
  BY DEF TInv, PckTrusted
<1>4. PckPasses(call)
  BY <1>1, <1>2, <1>3 DEF PckPasses
<1>5. QED
  BY <1>0, <1>4, PckPassesIfTrusted

LEMMA SigningPassesByDates ==
    TInv /\ VerifiesBody /\ pc \in BodyDates \ { "bodySignature" } =>
        SigningPasses(call) /\ Trust!Trusted(call)
<1> SUFFICES ASSUME TInv, VerifiesBody, pc \in BodyDates \ { "bodySignature" }
             PROVE  SigningPasses(call) /\ Trust!Trusted(call)
  OBVIOUS
<1>0. call \in Calls
  BY DEF TInv, IInv
<1>1. Trust!Parsed(call)
  <2>1. pc \in Verifying
    BY DEF Verifying
  <2>2. QED
    BY <1>0, <2>1, ParsedIfVerifying DEF TInv
<1>2. SigningAnchored(call)
  BY DEF TInv, IInv, BodyChecked, SigningAnchored
<1>3. RootCrlGenuine(call) /\ SelfIssued(call.trustedRoot) /\ SigningUnrevoked(call) /\ BodySigned(call)
  BY DEF TInv, BodyTrusted
<1>4. SigningPasses(call)
  BY <1>1, <1>2, <1>3 DEF SigningPasses
<1>5. QED
  BY <1>0, <1>4, SigningPassesIfTrusted

\* Revocation still refuses; from then on, only the dates are left to decide.
LEMMA RevocationAndDateStepTInv ==
    TInv /\ RevocationAndDateStep =>
        (ParseChecked /\ PckTrusted /\ BodyTrusted /\ CrlTrusted /\ Answered)'
<1> SUFFICES ASSUME TInv, RevocationAndDateStep
             PROVE  (ParseChecked /\ PckTrusted /\ BodyTrusted /\ CrlTrusted /\ Answered)'
  OBVIOUS
<1> USE DEF ParseChecked, PckTrusted, BodyTrusted, CrlTrusted, Answered, Check, Finish, Verifying,
            Root, Intermediate, Pck, Topmost, RootCrl, IntermediateCrl
<1>0. call \in Calls /\ ChecksOwned /\ call.api \in Apis
  BY CallsAssumption DEF TInv, IInv
<1>1. CASE VerifyRootCrl
  <2>1. ~VerifiesCrl
    BY <1>0, <1>1 DEF VerifyRootCrl, ChecksOwned
  <2>2. ~RootCrlGenuine(call) => Trust!Answers(call, CrlError(RootCrl, Root))
    <3>1. ASSUME ~RootCrlGenuine(call) PROVE CrlError(RootCrl, Root) \notin FinalStatuses
      BY <3>1, OneSelected, CrlErrorResult DEF RootCrlGenuine
    <3>2. QED
      BY <1>0, <2>1, <3>1, FailedCheckRefuses DEF FinalStatuses, PckPasses, SigningPasses
  <2>3. QED
    BY <1>0, <1>1, <2>1, <2>2 DEF VerifyRootCrl, TInv, RootCrlGenuine
<1>2. CASE VerifyIntermediateCrl
  <2>1. VerifiesPck
    BY <1>0, <1>2 DEF VerifyIntermediateCrl, ChecksOwned
  <2>2. ~IntermediateCrlGenuine(call)
          => Trust!Answers(call, CrlError(IntermediateCrl, Intermediate))
    <3>1. ASSUME ~IntermediateCrlGenuine(call)
          PROVE  CrlError(IntermediateCrl, Intermediate) \notin FinalStatuses
      BY <3>1, OneSelected, CrlErrorResult DEF IntermediateCrlGenuine
    <3>2. QED
      BY <1>0, <2>1, <3>1, FailedCheckRefuses DEF FinalStatuses, PckPasses
  <2>3. QED
    BY <1>0, <1>2, <2>1, <2>2 DEF VerifyIntermediateCrl, TInv, IntermediateCrlGenuine
<1>3. CASE CheckIntermediateRevoked
  <2>1. VerifiesPck
    BY <1>0, <1>3 DEF CheckIntermediateRevoked, ChecksOwned
  <2>2. ~IntermediateUnrevoked(call) => Trust!Answers(call, "SGX_INTERMEDIATE_CA_REVOKED")
    BY <1>0, <2>1, FailedCheckRefuses, FinalStatusesListed DEF PckPasses
  <2>3. QED
    BY <1>0, <1>3, <2>1, <2>2 DEF CheckIntermediateRevoked, TInv, IntermediateUnrevoked
<1>4. CASE CheckPckRevoked
  <2>1. VerifiesPck
    BY <1>0, <1>4 DEF CheckPckRevoked, ChecksOwned
  <2>2. ~PckUnrevoked(call) => Trust!Answers(call, "SGX_PCK_REVOKED")
    BY <1>0, <2>1, FailedCheckRefuses, FinalStatusesListed DEF PckPasses
  <2>3. QED
    BY <1>0, <1>4, <2>1, <2>2 DEF CheckPckRevoked, TInv, PckUnrevoked
<1>5. CASE CheckTcbSigningRevoked
  <2>1. VerifiesBody
    BY <1>0, <1>5 DEF CheckTcbSigningRevoked, ChecksOwned
  <2>2. ~SigningUnrevoked(call) => Trust!Answers(call, "SGX_TCB_SIGNING_CERT_REVOKED")
    BY <1>0, <2>1, FailedCheckRefuses, FinalStatusesListed DEF SigningPasses
  <2>3. QED
    BY <1>0, <1>5, <2>1, <2>2 DEF CheckTcbSigningRevoked, TInv, SigningUnrevoked
<1>6. CASE VerifyBodySignature
  <2>1. VerifiesBody
    BY <1>0, <1>6 DEF VerifyBodySignature, ChecksOwned
  <2>2. ~BodySigned(call) => /\ Trust!Answers(call, "TCB_INFO_INVALID_SIGNATURE")
                             /\ Trust!Answers(call, "SGX_ENCLAVE_IDENTITY_INVALID_SIGNATURE")
    BY <1>0, <2>1, FailedCheckRefuses, FinalStatusesListed DEF SigningPasses
  <2>3. QED
    BY <1>0, <1>6, <2>1, <2>2 DEF VerifyBodySignature, TInv, BodySigned
<1>7. CASE CheckChainExpired
  <2>1. ~VerifiesCrl
    BY <1>0, <1>7 DEF CheckChainExpired, ChecksOwned
  <2>2. Trust!Trusted(call) /\ CertsUsed = Trust!Certificates(call)
    BY <1>0, <1>7, <2>1, PckPassesByDates, SigningPassesByDates, PckDatesChecked,
       SigningDatesChecked
    DEF CheckChainExpired, CertsUsed
  <2>3. (\A cert \in CertsUsed : ~CertExpired(cert, call.time)) <=> CertsCurrent(call)
    BY <1>0, <2>2, CertDates
  <2>4. ~CertsCurrent(call) => /\ Trust!Answers(call, "SGX_PCK_CERT_CHAIN_EXPIRED")
                               /\ Trust!Answers(call, "SGX_SIGNING_CERT_CHAIN_EXPIRED")
    BY <2>1, <2>2, CurrentIs, ExpiredAnswer DEF Trust!ExpiredStatuses
  <2>5. QED
    BY <1>0, <1>7, <2>1, <2>3, <2>4 DEF CheckChainExpired, TInv
<1>8. CASE CheckCrlExpired
  <2>1. ~VerifiesCrl /\ pc = "crlExpired"
    BY <1>0, <1>8 DEF CheckCrlExpired, ChecksOwned
  <2>2. Trust!Trusted(call) /\ CertsCurrent(call)
    BY <1>0, <2>1, PckPassesByDates, SigningPassesByDates DEF TInv
  <2>3. CrlsCurrent <=> CrlsInForce(call)
    BY <1>0, CrlDates DEF CrlsCurrent
  <2>4. ~CrlsInForce(call) => Trust!Answers(call, "SGX_CRL_EXPIRED")
    BY <2>1, <2>2, CurrentIs, ExpiredAnswer DEF Trust!ExpiredStatuses
  <2>5. VerifiesPck => BodyCurrent(call)
    <3>1. ~call.missingParameter
      BY <2>1 DEF TInv
    <3>2. QED
      BY <1>0, <3>1, EvidenceAssumption DEF BodyCurrent
  <2>6. VerifiesPck /\ CrlsInForce(call) => Trust!Answers(call, "OK")
    BY <2>2, <2>5, CurrentIs, AcceptedAnswer
  <2>7. QED
    BY <1>0, <1>8, <2>1, <2>2, <2>3, <2>4, <2>6 DEF CheckCrlExpired, TInv
<1>9. CASE CheckBodyExpired
  <2>1. VerifiesBody /\ pc = "bodyExpired"
    BY <1>0, <1>9 DEF CheckBodyExpired, ChecksOwned
  <2>2. Trust!Trusted(call) /\ CertsCurrent(call) /\ CrlsInForce(call)
    BY <1>0, <2>1, SigningPassesByDates DEF TInv
  <2>3. BodyCurrent(call) => Trust!Answers(call, "OK")
    BY <2>2, CurrentIs, AcceptedAnswer
  <2>4. ~BodyCurrent(call) => /\ Trust!Answers(call, "SGX_TCB_INFO_EXPIRED")
                              /\ Trust!Answers(call, "SGX_ENCLAVE_IDENTITY_EXPIRED")
    BY <2>1, <2>2, CurrentIs, ExpiredAnswer DEF Trust!ExpiredStatuses
  <2>5. QED
    BY <1>0, <1>9, <2>1, <2>3, <2>4 DEF CheckBodyExpired, TInv, BodyCurrent
<1>10. QED
  BY <1>1, <1>2, <1>3, <1>4, <1>5, <1>6, <1>7, <1>8, <1>9 DEF RevocationAndDateStep

\* A CRL's issuer is checked without dates.
LEMMA CrlIssuerStepTInv ==
    TInv /\ CrlIssuerStep => (ParseChecked /\ PckTrusted /\ BodyTrusted /\ CrlTrusted /\ Answered)'
<1> SUFFICES ASSUME TInv, CrlIssuerStep
             PROVE  (ParseChecked /\ PckTrusted /\ BodyTrusted /\ CrlTrusted /\ Answered)'
  OBVIOUS
<1> USE DEF ParseChecked, PckTrusted, BodyTrusted, CrlTrusted, Answered, Check, Finish, Verifying,
            Root, Topmost, NamedRoot, RootCrl
<1>0. call \in Calls /\ ChecksOwned /\ call.api \in Apis
  BY CallsAssumption DEF TInv, IInv
<1>1. VerifiesCrl
  BY <1>0 DEF CrlIssuerStep, FindIssuerRoot, VerifyIssuerRoot, CheckIssuerChainLength,
              VerifyIssuerIntermediate, VerifyCrlIssuer, CheckCrlTrustedRoot, CompareCrlRoot,
              ChecksOwned
<1>2. ASSUME NEW error, error \notin FinalStatuses, ~CrlPasses(call)
      PROVE  Trust!Answers(call, error)
  BY <1>0, <1>1, <1>2, FailedCheckRefuses DEF FinalStatuses
<1>3. CASE FindIssuerRoot
  <2>1. ~RootNamed(call) => Trust!Answers(call, "SGX_ROOT_CA_INVALID")
    BY <1>2, FinalStatusesListed DEF CrlPasses
  <2>2. QED
    BY <1>0, <1>1, <1>3, <2>1 DEF FindIssuerRoot, TInv, RootNamed
<1>4. CASE VerifyIssuerRoot
  <2>1. ~NamedRootVerified(call) => Trust!Answers(call, "SGX_CA_CERT_INVALID")
    BY <1>2, FinalStatusesListed DEF CrlPasses
  <2>2. QED
    BY <1>0, <1>1, <1>4, <2>1 DEF VerifyIssuerRoot, TInv, NamedRootVerified
<1>5. CASE CheckIssuerChainLength
  <2>1. Len(call.chain) = (IF RootCrl.issuer = ROOT_CA_SUBJECT THEN 1 ELSE 2)
          <=> \/ RootCrl.issuer = ROOT_CA_SUBJECT /\ Len(call.chain) = 1
              \/ RootCrl.issuer # ROOT_CA_SUBJECT /\ Len(call.chain) = 2
    OBVIOUS
  <2>2. ~(KnownCrlIssuer /\ \/ RootCrl.issuer = ROOT_CA_SUBJECT /\ Len(call.chain) = 1
                            \/ RootCrl.issuer # ROOT_CA_SUBJECT /\ Len(call.chain) = 2)
          => /\ Trust!Answers(call, "SGX_CA_CERT_UNSUPPORTED_FORMAT")
             /\ Trust!Answers(call, "SGX_CRL_UNKNOWN_ISSUER")
    BY <1>2, FinalStatusesListed DEF CrlPasses, IssuerKnown, KnownCrlIssuer
  <2>3. QED
    BY <1>0, <1>1, <1>5, <2>1, <2>2 DEF CheckIssuerChainLength, KnownCrlIssuer, IssuerKnown, TInv
<1>6. CASE VerifyIssuerIntermediate
  <2>1. RootCrl.issuer # ROOT_CA_SUBJECT /\ Len(call.chain) = 2
    <3>1. RootCrl.issuer \in { PLATFORM_CA_SUBJECT, PROCESSOR_CA_SUBJECT }
      BY <1>1, <1>6 DEF VerifyIssuerIntermediate, TInv
    <3>2. Len(call.chain) = 2
      BY <1>1, <1>6 DEF VerifyIssuerIntermediate, TInv, IInv, CrlChecked
    <3>3. QED
      BY <3>1, <3>2 DEF ROOT_CA_SUBJECT, PLATFORM_CA_SUBJECT, PROCESSOR_CA_SUBJECT
  <2>2. ~CaFound(call) => /\ Trust!Answers(call, "SGX_INTERMEDIATE_CA_MISSING")
                          /\ Trust!Answers(call, "SGX_CA_CERT_INVALID")
    BY <1>2, <2>1, FinalStatusesListed DEF CrlPasses, IssuerKnown
  <2>3. QED
    BY <1>0, <1>1, <1>6, <2>1, <2>2 DEF VerifyIssuerIntermediate, CaFound, IssuerKnown, TInv
<1>7. CASE VerifyCrlIssuer
  <2>1. ASSUME Topmost = {} PROVE Trust!Answers(call, "SGX_CRL_UNKNOWN_ISSUER")
    BY <1>2, <2>1, FinalStatusesListed DEF CrlPasses, TopmostCrlGenuine
  <2>2. ASSUME ~CrlVerified(RootCrl, Topmost)
        PROVE  Trust!Answers(call, CrlError(RootCrl, Topmost))
    <3>1. CrlError(RootCrl, Topmost) \notin FinalStatuses
      BY <2>2, OneSelected, CrlErrorResult
    <3>2. QED
      BY <1>2, <2>2, <3>1 DEF CrlPasses, TopmostCrlGenuine
  <2>3. QED
    BY <1>0, <1>1, <1>7, <2>1, <2>2 DEF VerifyCrlIssuer, TopmostCrlGenuine, TInv
<1>8. CASE CheckCrlTrustedRoot
  <2>1. ~TrustedRootNamed(call) => Trust!Answers(call, "TRUSTED_ROOT_CA_INVALID")
    BY <1>2, FinalStatusesListed DEF CrlPasses
  <2>2. QED
    BY <1>0, <1>1, <1>8, <2>1 DEF CheckCrlTrustedRoot, TrustedRootNamed, TInv
<1>9. CASE CompareCrlRoot
  <2>1. pc = "crlRoot"
    BY <1>9 DEF CompareCrlRoot
  <2>2. Trust!Parsed(call)
    <3>1. ~call.missingParameter
      BY <2>1 DEF TInv
    <3>2. call.body = {}
      BY <1>0, <1>1, <3>1, EvidenceAssumption
    <3>3. QED
      BY <1>0, <2>1, <3>2, ParsedIfVerifying DEF TInv
  <2>3. (\E root \in Root : SameSignature(root, call.trustedRoot)) => CrlPasses(call)
    BY <1>1, <2>1, <2>2 DEF TInv, IInv, CrlChecked, CrlPasses
  <2>4. CrlPasses(call) => Trust!Answers(call, "OK")
    BY <1>0, <1>1, PassesIfTrusted, CurrentIs, AcceptedAnswer
  <2>5. ~(\E root \in Root : SameSignature(root, call.trustedRoot)) =>
          /\ Trust!Answers(call, "SGX_ROOT_CA_MISSING")
          /\ Trust!Answers(call, "SGX_ROOT_CA_UNTRUSTED")
    BY <1>2, FinalStatusesListed DEF CrlPasses
  <2>6. QED
    BY <1>0, <1>1, <1>9, <2>3, <2>4, <2>5 DEF CompareCrlRoot, TInv
<1>10. QED
  BY <1>3, <1>4, <1>5, <1>6, <1>7, <1>8, <1>9 DEF CrlIssuerStep

LEMMA InitTInv == Init => TInv
<1>1. Init => ParseChecked /\ PckTrusted /\ BodyTrusted /\ CrlTrusted /\ Answered
  BY DEF Init, ParseChecked, PckTrusted, BodyTrusted, CrlTrusted, Answered, Verifying
<1>2. QED
  BY <1>1, InitIInv DEF TInv

LEMMA NextTInv == TInv /\ [Next]_vars => TInv'
<1> SUFFICES ASSUME TInv, [Next]_vars PROVE TInv'
  OBVIOUS
<1>1. IInv'
  BY NextIInv DEF TInv
<1>2. CASE UNCHANGED vars
  BY <1>1, <1>2 DEF vars, TInv, ParseChecked, PckTrusted, BodyTrusted, CrlTrusted, Answered
<1>3. CASE Next
  BY <1>1, <1>3, ParseStepTInv, CertificateStepTInv, RevocationAndDateStepTInv, CrlIssuerStepTInv
  DEF Next, TInv
<1>4. QED
  BY <1>2, <1>3

\* Every step is a check of a call that is still running, and leaves its arguments alone.
LEMMA NextIsACheck == TInv /\ Next => pc # "returned" /\ UNCHANGED call
<1> SUFFICES ASSUME TInv, Next PROVE pc # "returned" /\ UNCHANGED call
  OBVIOUS
<1> USE DEF Check, Finish
<1>1. CASE ParseStep
  BY <1>1 DEF ParseStep, CheckTime, CheckParameters, ParseBody, ParseCertChain, CheckChainLength,
              ParseCrls, ParseTrustedRoot
<1>2. CASE CertificateStep
  BY <1>2 DEF CertificateStep, FindRoot, FindIntermediate, FindPck, VerifyRoot,
              VerifyIntermediate, VerifyPckCert, FindTcbSigningCert, VerifyTcbSigningCert,
              CheckTrustedRootIssuer, CompareTrustedRoot
<1>3. CASE RevocationAndDateStep
  BY <1>3 DEF RevocationAndDateStep, VerifyRootCrl, VerifyIntermediateCrl,
              CheckIntermediateRevoked, CheckPckRevoked, CheckTcbSigningRevoked,
              VerifyBodySignature, CheckChainExpired, CheckCrlExpired, CheckBodyExpired
<1>4. CASE CrlIssuerStep
  BY <1>4 DEF CrlIssuerStep, FindIssuerRoot, VerifyIssuerRoot, CheckIssuerChainLength,
              VerifyIssuerIntermediate, VerifyCrlIssuer, CheckCrlTrustedRoot, CompareCrlRoot
<1>5. QED
  BY <1>1, <1>2, <1>3, <1>4 DEF Next

\* The checks, made one after the other with their early returns, amount to
\* the one answer CollateralTrust promises: OK exactly for collateral that is
\* trusted and current, an expiration exactly for collateral that is trusted
\* and no longer current, a refusal for everything else.
THEOREM ImplementsTrustHolds == Spec => ImplementsTrust
<1>1. Init => Trust!Init
  BY DEF Init, Trust!Init
<1>2. TInv /\ TInv' /\ [Next]_vars
        => [Trust!Next]_<<call, IF pc = "returned" THEN status ELSE "none">>
  <2> SUFFICES ASSUME TInv, TInv', [Next]_vars
               PROVE  [Trust!Next]_<<call, IF pc = "returned" THEN status ELSE "none">>
    OBVIOUS
  <2>1. CASE UNCHANGED vars
    BY <2>1 DEF vars
  <2>2. CASE Next /\ pc' # "returned"
    BY <2>2, NextIsACheck
  <2>3. CASE Next /\ pc' = "returned"
    <3>1. pc # "returned" /\ UNCHANGED call
      BY <2>3, NextIsACheck
    <3>2. Trust!Answers(call', status')
      BY <2>3 DEF TInv, Answered
    <3>3. QED
      BY <2>3, <3>1, <3>2 DEF Trust!Next
  <2>4. QED
    BY <2>1, <2>2, <2>3
<1>3. QED
  BY <1>1, <1>2, InitTInv, NextTInv, PTL DEF Spec, ImplementsTrust, Trust!Spec

===============================================================================
