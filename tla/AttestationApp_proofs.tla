------------------------- MODULE AttestationApp_proofs -------------------------
(***************************************************************************)
(* Proofs about the application, for every set of files and replacements,  *)
(* any number of them, and every command line: of runVerification alone    *)
(* and called by main.                                                     *)
(***************************************************************************)
EXTENDS Main, TLAPS

(***************************************************************************)
(* What follows from the verdicts on one evidence f, without states.       *)
(***************************************************************************)
\* The calls of runVerification have all accepted f.
Accepted(f) ==
    /\ CollateralOk(PckArguments(f))
    /\ CollateralOk(TcbInfoArguments(f))
    /\ options.qeIdentity => CollateralOk(IdentityArguments(f, f.qeIdentity))
    /\ QuoteOk(QuoteArguments(f))

ChainsRead(f) == IsChain(f.pckCert) /\ IsChain(f.pckSigningChain) /\ IsChain(f.tcbSigningCert)

\* A common name that contains one phrase of a role contains none of another's.
LEMMA Phrases ==
    ASSUME NEW name \in DOMAIN CommonNamePhrases
    PROVE  /\ CommonNameContains(name, SGX_PCK_CN_PHRASE) =>
                ~CommonNameContains(name, SGX_INTERMEDIATE_CN_PHRASE)
           /\ CommonNameContains(name, SGX_PCK_CN_PHRASE) => name # ROOT_CA_SUBJECT
           /\ CommonNameContains(name, SGX_TCB_SIGNING_CN_PHRASE) => name # ROOT_CA_SUBJECT
  BY DEF CommonNamePhrases, CommonNameContains, ROOT_CA_SUBJECT, PLATFORM_CA_SUBJECT,
     PROCESSOR_CA_SUBJECT, PCK_SUBJECT, TCB_SUBJECT, OtherCaSubject, OtherSubject,
     SGX_ROOT_CA_CN_PHRASE, SGX_INTERMEDIATE_CN_PHRASE, SGX_PCK_CN_PHRASE, SGX_TCB_SIGNING_CN_PHRASE

\* One sequence behind another.
LEMMA Concatenated ==
    ASSUME NEW S, NEW a \in Seq(S), NEW b \in Seq(S)
    PROVE  /\ Len(a) \in Nat /\ Len(b) \in Nat
           /\ DOMAIN a = 1..Len(a) /\ DOMAIN b = 1..Len(b)
           /\ DOMAIN (a \o b) = 1..(Len(a) + Len(b))
           /\ \A i \in 1..Len(a) : (a \o b)[i] = a[i]
           /\ \A i \in 1..Len(b) : (a \o b)[Len(a) + i] = b[i]
           /\ b # << >> => Len(b) >= 1 /\ Head(b) = b[1]
  OBVIOUS

\* The first certificate of the PCK file is one of the chain that is verified.
LEMMA HeadInChain ==
    ASSUME NEW f, IsChain(f.pckCert), IsChain(f.pckSigningChain), f.pckCert # << >>
    PROVE  /\ Head(f.pckCert) \in Certificates(PckArguments(f))
           /\ \A cert \in Certificates(PckArguments(f)) :
                 cert.info.subject \in DOMAIN CommonNamePhrases
<1> DEFINE both == f.pckSigningChain \o f.pckCert
           m == Len(f.pckSigningChain)
           n == Len(f.pckCert)
<1>1. PICK S : f.pckSigningChain \in Seq(S) /\ f.pckCert \in Seq(S)
  <2> DEFINE A == { f.pckSigningChain[i] : i \in DOMAIN f.pckSigningChain }
             B == { f.pckCert[i] : i \in DOMAIN f.pckCert }
  <2>1. f.pckSigningChain \in Seq(A) /\ f.pckCert \in Seq(B)
    BY DEF IsChain
  <2>2. \A x, y, z : x \in Seq(y) => x \in Seq(y \union z)
    OBVIOUS
  <2>3. f.pckSigningChain \in Seq(A \union B) /\ f.pckCert \in Seq(B \union A)
    <3>. HIDE DEF A, B
    <3>. QED BY <2>1, <2>2
  <2>4. A \union B = B \union A
    OBVIOUS
  <2>. HIDE DEF A, B
  <2>. QED BY <2>3, <2>4
<1>2. Certificates(PckArguments(f)) = { both[i] : i \in DOMAIN both }
  BY DEF Certificates, PckArguments, Arguments
<1>3. /\ m \in Nat /\ n \in Nat /\ n >= 1
      /\ DOMAIN f.pckSigningChain = 1..m /\ DOMAIN f.pckCert = 1..n
      /\ DOMAIN both = 1..(m + n)
      /\ \A i \in 1..m : both[i] = f.pckSigningChain[i]
      /\ \A i \in 1..n : both[m + i] = f.pckCert[i]
      /\ Head(f.pckCert) = f.pckCert[1]
  <2> DEFINE a == f.pckSigningChain
             b == f.pckCert
  <2>1. a \in Seq(S) /\ b \in Seq(S) /\ b # << >>
    BY <1>1
  <2>. HIDE DEF a, b
  <2>2. /\ Len(a) \in Nat /\ Len(b) \in Nat
        /\ DOMAIN a = 1..Len(a) /\ DOMAIN b = 1..Len(b)
        /\ DOMAIN (a \o b) = 1..(Len(a) + Len(b))
        /\ \A i \in 1..Len(a) : (a \o b)[i] = a[i]
        /\ \A i \in 1..Len(b) : (a \o b)[Len(a) + i] = b[i]
        /\ Len(b) >= 1 /\ Head(b) = b[1]
    BY <2>1, Concatenated
  <2>. QED BY <2>2 DEF a, b
<1>4. Head(f.pckCert) = both[m + 1] /\ m + 1 \in DOMAIN both
  <2>. HIDE DEF m, n, both
  <2>. QED BY <1>3
<1>5. ASSUME NEW i \in DOMAIN both
      PROVE  both[i].info.subject \in DOMAIN CommonNamePhrases
  <2>1. CASE i \in 1..m
    <3>. HIDE DEF m, n, both
    <3>. QED BY <2>1, <1>3 DEF IsChain
  <2>2. CASE i \in (m + 1)..(m + n)
    <3>. HIDE DEF m, n, both
    <3>1. i - m \in 1..n /\ m + (i - m) = i
      BY <2>2, <1>3
    <3>2. both[i] = f.pckCert[i - m]
      BY <3>1, <1>3
    <3>. QED BY <3>1, <3>2, <1>3 DEF IsChain
  <2>3. i \in 1..m \/ i \in (m + 1)..(m + n)
    <3>. HIDE DEF m, n, both
    <3>. QED BY <1>3
  <2>. QED BY <2>1, <2>2, <2>3
<1>. QED BY <1>2, <1>4, <1>5

\* What AcceptedMeansTrusted says of the evidence q, f being what was read.
TrustedEvidence(f, q) ==
    /\ \E path \in PckChain(PckArguments(f)) :
          /\ path[3] = Head(q.pckCert)
          /\ path[3].info.key = q.quote.signedBy
          /\ Genuine(q.crl, path[2])
          /\ ~IsRevoked(q.crl, path[3])
          /\ q.tcbInfo.fmspc = path[3].info.fmspc
          /\ options.expirationDate <= path[3].info.notAfter
    /\ \E path \in SigningChain(TcbInfoArguments(f)) :
          \A document \in { q.tcbInfo } \union q.qeIdentity :
              /\ document.signedBy = path[2].info.key
              /\ options.expirationDate <= document.nextUpdate
    /\ \A identity \in q.qeIdentity : identity.enclave = q.quote.qe
    /\ options.qeIdentity => q.qeIdentity # {}

\* The chain that verifyPCKCertificate accepts ends in the certificate that verifyQuote
\* rates the platform by, for no CA's name is that of a PCK certificate.
LEMMA PckPart ==
    ASSUME NEW f, IsChain(f.pckCert), IsChain(f.pckSigningChain), Accepted(f)
    PROVE  \E path \in PckChain(PckArguments(f)) :
             /\ path[3] = Head(f.pckCert)
             /\ path[3].info.key = f.quote.signedBy
             /\ Genuine(f.intermediateCaCrl, path[2])
             /\ ~IsRevoked(f.intermediateCaCrl, path[3])
             /\ f.tcbInfo.fmspc = path[3].info.fmspc
             /\ options.expirationDate <= path[3].info.notAfter
<1> DEFINE c == PckArguments(f)
           pck == Head(f.pckCert)
<1>1. /\ c.api = "PCKCertificate" /\ c.time = options.expirationDate
      /\ c.crls[2] = f.intermediateCaCrl
  BY DEF PckArguments, Arguments
<1>2. Trusted(c) /\ Current(c)
  BY DEF Accepted, CollateralOk
<1>3. Rated(QuoteArguments(f))
  BY DEF Accepted, QuoteOk
<1>4. /\ f.pckCert # << >>
      /\ CommonNameContains(pck.info.subject, SGX_PCK_CN_PHRASE)
      /\ ~IsRevoked(f.intermediateCaCrl, pck)
      /\ f.tcbInfo.fmspc = pck.info.fmspc
      /\ f.quote.signedBy = pck.info.key
  BY <1>3 DEF Rated, QuoteArguments
<1>5. /\ pck \in Certificates(c)
      /\ \A cert \in Certificates(c) : cert.info.subject \in DOMAIN CommonNamePhrases
  BY <1>4, HeadInChain
<1>. HIDE DEF c, pck
<1>6. PckChain(c) # {}
  BY <1>1, <1>2 DEF Trusted
<1>7. PICK root \in Certificates(c), ca \in Certificates(c), last \in Certificates(c) :
          << root, ca, last >> \in PckChain(c)
  BY <1>6 DEF PckChain
<1>8. /\ Certificates(c) = { root, ca, last }
      /\ root.info.subject = ROOT_CA_SUBJECT
      /\ CommonNameContains(ca.info.subject, SGX_INTERMEDIATE_CN_PHRASE)
      /\ Genuine(c.crls[2], ca)
  BY <1>7 DEF PckChain, IsTrustedRoot
<1>9. pck = last
  <2>1. pck \in DOMAIN [ x \in { root, ca, last } |-> x ]
    BY <1>5, <1>8
  <2>2. pck # root
    BY <1>4, <1>5, <1>8, Phrases
  <2>3. pck # ca
    BY <1>4, <1>5, <1>8, Phrases
  <2>. QED BY <2>1, <2>2, <2>3
<1>10. options.expirationDate <= last.info.notAfter
  BY <1>1, <1>2, <1>7 DEF Current
<1>11. << root, ca, last >>[2] = ca /\ << root, ca, last >>[3] = last
  OBVIOUS
<1>12. /\ << root, ca, last >>[3] = pck
       /\ pck.info.key = f.quote.signedBy
       /\ Genuine(f.intermediateCaCrl, << root, ca, last >>[2])
       /\ ~IsRevoked(f.intermediateCaCrl, pck)
       /\ f.tcbInfo.fmspc = pck.info.fmspc
       /\ options.expirationDate <= pck.info.notAfter
  BY <1>1, <1>4, <1>8, <1>9, <1>10, <1>11
<1>. QED BY <1>7, <1>12 DEF c, pck

\* The signer of a chain that begins with the trusted root is the one certificate that is
\* no root: the same for the TCB info and for an identity given with the same chain.
LEMMA SigningPart ==
    ASSUME NEW f, IsChain(f.tcbSigningCert), Accepted(f), options.qeIdentity \in BOOLEAN
    PROVE  /\ \E path \in SigningChain(TcbInfoArguments(f)) :
                 \A document \in { f.tcbInfo } \union IdentityPassed(f) :
                     /\ document.signedBy = path[2].info.key
                     /\ options.expirationDate <= document.nextUpdate
           /\ options.qeIdentity => IdentityPassed(f) # {}
<1> DEFINE c == TcbInfoArguments(f)
           d == IdentityArguments(f, f.qeIdentity)
<1>1. /\ c.api = "TCBInfo" /\ d.api = "EnclaveIdentity"
      /\ c.time = options.expirationDate /\ d.time = options.expirationDate
      /\ c.body = { f.tcbInfo } /\ d.body = { f.qeIdentity }
      /\ c.chain = f.tcbSigningCert /\ d.chain = f.tcbSigningCert
  BY DEF TcbInfoArguments, IdentityArguments, Arguments
<1>2. /\ Trusted(c) /\ Current(c)
      /\ options.qeIdentity => Trusted(d) /\ Current(d)
  BY DEF Accepted, CollateralOk
<1>3. /\ Certificates(c) = Certificates(d)
      /\ \A cert \in Certificates(c) : cert.info.subject \in DOMAIN CommonNamePhrases
  BY <1>1 DEF Certificates, IsChain
<1>4. IdentityPassed(f) = IF ~options.qeIdentity THEN {}
                          ELSE { identity \in { f.qeIdentity } : identity.format # "empty" }
  BY DEF IdentityPassed
<1>. HIDE DEF c, d
<1>5. SigningChain(c) # {} /\ (options.qeIdentity => SigningChain(d) # {} /\ Parsed(d))
  BY <1>1, <1>2 DEF Trusted
<1>6. PICK root \in Certificates(c), signer \in Certificates(c) : << root, signer >> \in SigningChain(c)
  BY <1>5 DEF SigningChain
<1>7. /\ Certificates(c) = { root, signer }
      /\ f.tcbInfo.signedBy = signer.info.key
      /\ root.info.subject = ROOT_CA_SUBJECT
      /\ CommonNameContains(signer.info.subject, SGX_TCB_SIGNING_CN_PHRASE)
  BY <1>1, <1>6 DEF SigningChain, IsTrustedRoot
<1>8. options.expirationDate <= f.tcbInfo.nextUpdate
  BY <1>1, <1>2 DEF Current
<1>9. ASSUME options.qeIdentity
      PROVE  /\ f.qeIdentity.signedBy = signer.info.key
             /\ options.expirationDate <= f.qeIdentity.nextUpdate
             /\ f.qeIdentity.format # "empty"
  <2>1. PICK root2 \in Certificates(d), signer2 \in Certificates(d) :
            << root2, signer2 >> \in SigningChain(d)
    BY <1>5, <1>9 DEF SigningChain
  <2>2. /\ Certificates(d) = { root2, signer2 }
        /\ f.qeIdentity.signedBy = signer2.info.key
        /\ root2.info.subject = ROOT_CA_SUBJECT
        /\ CommonNameContains(signer2.info.subject, SGX_TCB_SIGNING_CN_PHRASE)
    BY <1>1, <2>1 DEF SigningChain, IsTrustedRoot
  <2>3. signer2 # root /\ signer2 \in { root, signer }
    BY <1>3, <1>7, <2>2, Phrases
  <2>4. options.expirationDate <= f.qeIdentity.nextUpdate
    BY <1>1, <1>2, <1>9 DEF Current
  <2>5. f.qeIdentity.format # "empty"
    BY <1>1, <1>5, <1>9 DEF Parsed
  <2>. QED BY <2>2, <2>3, <2>4, <2>5
<1>10. << root, signer >>[2] = signer
  OBVIOUS
<1>11. \A document \in { f.tcbInfo } \union IdentityPassed(f) :
          /\ document.signedBy = << root, signer >>[2].info.key
          /\ options.expirationDate <= document.nextUpdate
  BY <1>4, <1>7, <1>8, <1>9, <1>10
<1>12. options.qeIdentity => IdentityPassed(f) # {}
  BY <1>4, <1>9
<1>. QED BY <1>6, <1>11, <1>12 DEF c

\* What all calls accept is what the property asks for.
LEMMA AcceptedIsTrusted ==
    ASSUME NEW f, ChainsRead(f), Accepted(f), options.qeIdentity \in BOOLEAN
    PROVE  TrustedEvidence(f, QuoteArguments(f))
<1>1. \A identity \in IdentityPassed(f) : identity.enclave = f.quote.qe
  BY DEF Accepted, QuoteOk, Rated, QuoteArguments
<1>2. /\ QuoteArguments(f).pckCert = f.pckCert
      /\ QuoteArguments(f).quote = f.quote
      /\ QuoteArguments(f).crl = f.intermediateCaCrl
      /\ QuoteArguments(f).tcbInfo = f.tcbInfo
      /\ QuoteArguments(f).qeIdentity = IdentityPassed(f)
  BY DEF QuoteArguments
<1>. QED BY <1>1, <1>2, PckPart, SigningPart DEF TrustedEvidence, ChainsRead

(***************************************************************************)
(* The inductive invariant: what has been read and what has been answered  *)
(* when runVerification stands at a step. A verdict is kept with the       *)
(* contents it is about, as they are in read: no later step writes those.  *)
(***************************************************************************)
PckSteps ==
    { "pckSigningChain", "rootCaCrl", "rootCaCrlAgain", "intermediateCaCrl",
      "intermediateCaCrlAgain", "trustedRootCACert", "verifyPCKCertificate" }
TcbSteps   == { "tcbInfo", "tcbSigningCert", "verifyTCBInfo" }
QeSteps    == { "qeIdentity", "verifyQeIdentity" }
QuoteSteps == { "qveIdentity", "verifyQveIdentity", "quote", "verifyQuote" }
EndSteps   == { "save", "status" }

AfterTcb == QeSteps \union QuoteSteps \union EndSteps
AfterPck == TcbSteps \union AfterTcb

StepsInv ==
    /\ step \in { "parse", "pckCert", "returned" } \union PckSteps \union AfterPck
    /\ result \in { "none", "TRUE", "FALSE", "terminated" }
    /\ result = "none" <=> step # "returned"

FilesInv ==
    /\ DOMAIN files = Files /\ DOMAIN read = Files
    /\ \A f \in Files : IsContent(f, files[f])
    /\ options.qeIdentity \in BOOLEAN

PckCertInv      == step \in PckSteps \union AfterPck => IsChain(read.pckCert)
SigningChainInv == step \in (PckSteps \ { "pckSigningChain" }) \union AfterPck =>
                       IsChain(read.pckSigningChain)
TcbSigningInv   == step \in { "verifyTCBInfo" } \union AfterTcb => IsChain(read.tcbSigningCert)

PckInv ==
    step \in AfterPck => "verifyPCKCertificate" \in failed \/ CollateralOk(PckArguments(read))
TcbInv ==
    step \in AfterTcb => "verifyTCBInfo" \in failed \/ CollateralOk(TcbInfoArguments(read))
QeInv ==
    step \in QuoteSteps \union EndSteps /\ options.qeIdentity =>
        "verifyQeIdentity" \in failed \/ CollateralOk(IdentityArguments(read, read.qeIdentity))
QuoteInv ==
    step \in EndSteps =>
        /\ judged = { QuoteArguments(read) }
        /\ "verifyQuote" \in failed \/ QuoteOk(QuoteArguments(read))

SavedInv ==
    /\ step \notin { "status", "returned" } => saved = {}
    /\ step = "status" => saved = CollateralInfoToSave
    /\ \A q \in saved : q \in judged /\ Rated(q)

ResultInv ==
    result = "TRUE" =>
        /\ ChainsRead(read) /\ Accepted(read)
        /\ judged = { QuoteArguments(read) }
        /\ saved = CollateralInfoToSave

IInv ==
    /\ StepsInv /\ FilesInv
    /\ PckCertInv /\ SigningChainInv /\ TcbSigningInv
    /\ PckInv /\ TcbInv /\ QeInv /\ QuoteInv
    /\ SavedInv /\ ResultInv

\* What is invariant says what the property does.
LEMMA InvariantImplies == IInv => AcceptedMeansTrusted /\ SavedInfoIsTheJudgedOne
<1>. SUFFICES ASSUME IInv PROVE AcceptedMeansTrusted /\ SavedInfoIsTheJudgedOne
  OBVIOUS
<1>1. AcceptedMeansTrusted
  <2>. SUFFICES ASSUME result = "TRUE"
                PROVE  \E q \in judged : TrustedEvidence(read, q)
    BY DEF AcceptedMeansTrusted, TrustedEvidence
  <2>1. ChainsRead(read) /\ Accepted(read) /\ judged = { QuoteArguments(read) }
    BY DEF IInv, ResultInv
  <2>2. TrustedEvidence(read, QuoteArguments(read))
    BY <2>1, AcceptedIsTrusted DEF IInv, FilesInv
  <2>. QED BY <2>1, <2>2
<1>2. SavedInfoIsTheJudgedOne
  <2>1. \A q \in saved : q \in judged /\ Rated(q)
    BY DEF IInv, SavedInv
  <2>2. ASSUME result = "TRUE", options.verCollInfo PROVE saved = judged
    <3>1. judged = { QuoteArguments(read) } /\ saved = CollateralInfoToSave /\ Accepted(read)
      BY <2>2 DEF IInv, ResultInv
    <3>2. Rated(QuoteArguments(read))
      BY <3>1 DEF Accepted, QuoteOk
    <3>3. CollateralInfoToSave = { q \in judged : Rated(q) }
      BY <2>2 DEF CollateralInfoToSave
    <3>. QED BY <3>1, <3>2, <3>3
  <2>. QED BY <2>1, <2>2 DEF SavedInfoIsTheJudgedOne
<1>. QED BY <1>1, <1>2

\* At the start nothing is read and nothing said.
LEMMA InitInvariant == Init => IInv
<1>. SUFFICES ASSUME Init PROVE IInv
  OBVIOUS
<1>. USE DEF Init
<1>1. StepsInv
  BY DEF StepsInv, PckSteps, AfterPck
<1>2. FilesInv
  BY OptionsAssumption, ContentsAssumption DEF FilesInv, NothingRead
<1>3. /\ PckCertInv /\ SigningChainInv /\ TcbSigningInv
      /\ PckInv /\ TcbInv /\ QeInv /\ QuoteInv /\ SavedInv /\ ResultInv
  BY DEF PckCertInv, SigningChainInv, TcbSigningInv, PckInv, TcbInv, QeInv, QuoteInv, SavedInv,
     ResultInv, PckSteps, TcbSteps, QeSteps, QuoteSteps, EndSteps, AfterTcb, AfterPck
<1>. QED BY <1>1, <1>2, <1>3 DEF IInv

(***************************************************************************)
(* What a step leaves of the arguments.                                    *)
(***************************************************************************)
PckFiles == { "pckCert", "pckSigningChain", "rootCaCrl", "intermediateCaCrl", "trustedRootCACert" }
TcbFiles == { "rootCaCrl", "trustedRootCACert", "tcbSigningCert", "tcbInfo" }
QeFiles  == { "rootCaCrl", "trustedRootCACert", "tcbSigningCert", "qeIdentity" }

\* A call's arguments are those it had if its files have not been read again.
LEMMA SameArguments ==
    ASSUME UNCHANGED options
    PROVE  /\ (\A f \in PckFiles : read'[f] = read[f]) =>
                 CollateralOk(PckArguments(read))' = CollateralOk(PckArguments(read))
           /\ (\A f \in TcbFiles : read'[f] = read[f]) =>
                 CollateralOk(TcbInfoArguments(read))' = CollateralOk(TcbInfoArguments(read))
           /\ (\A f \in QeFiles : read'[f] = read[f]) =>
                 CollateralOk(IdentityArguments(read, read.qeIdentity))'
                     = CollateralOk(IdentityArguments(read, read.qeIdentity))
<1>1. ASSUME \A f \in PckFiles : read'[f] = read[f]
      PROVE  PckArguments(read)' = PckArguments(read)
  BY <1>1 DEF PckArguments, Arguments, PckFiles
<1>2. ASSUME \A f \in TcbFiles : read'[f] = read[f]
      PROVE  TcbInfoArguments(read)' = TcbInfoArguments(read)
  BY <1>2 DEF TcbInfoArguments, Arguments, TcbFiles
<1>3. ASSUME \A f \in QeFiles : read'[f] = read[f]
      PROVE  IdentityArguments(read, read.qeIdentity)' = IdentityArguments(read, read.qeIdentity)
  BY <1>3 DEF IdentityArguments, Arguments, QeFiles
<1>. QED BY <1>1, <1>2, <1>3 DEF CollateralOk

\* Nothing that is said of the evidence changes while it is neither read nor judged.
LEMMA SameEvidence ==
    ASSUME UNCHANGED <<options, read>>
    PROVE  /\ CollateralOk(PckArguments(read))' = CollateralOk(PckArguments(read))
           /\ CollateralOk(TcbInfoArguments(read))' = CollateralOk(TcbInfoArguments(read))
           /\ CollateralOk(IdentityArguments(read, read.qeIdentity))'
                  = CollateralOk(IdentityArguments(read, read.qeIdentity))
           /\ QuoteArguments(read)' = QuoteArguments(read)
           /\ QuoteOk(QuoteArguments(read))' = QuoteOk(QuoteArguments(read))
           /\ ChainsRead(read)' = ChainsRead(read)
           /\ Accepted(read)' = Accepted(read)
           /\ UNCHANGED judged => UNCHANGED CollateralInfoToSave
<1>1. /\ CollateralOk(PckArguments(read))' = CollateralOk(PckArguments(read))
      /\ CollateralOk(TcbInfoArguments(read))' = CollateralOk(TcbInfoArguments(read))
      /\ CollateralOk(IdentityArguments(read, read.qeIdentity))'
             = CollateralOk(IdentityArguments(read, read.qeIdentity))
  BY SameArguments
<1>2. QuoteArguments(read)' = QuoteArguments(read)
  BY DEF QuoteArguments, IdentityPassed
<1>3. QuoteOk(QuoteArguments(read))' = QuoteOk(QuoteArguments(read))
  BY <1>2 DEF QuoteOk
<1>. QED BY <1>1, <1>2, <1>3 DEF ChainsRead, Accepted, CollateralInfoToSave

\* A step that returns without accepting leaves nothing to be said.
LEMMA ReturnsWithout ==
    ASSUME IInv, step' = "returned", result' \in { "FALSE", "terminated" },
           UNCHANGED <<files, options, read, judged, saved>>
    PROVE  IInv'
<1>1. StepsInv' /\ FilesInv' /\ ResultInv' /\ SavedInv'
  BY DEF IInv, StepsInv, FilesInv, ResultInv, SavedInv
<1>2. /\ PckCertInv' /\ SigningChainInv' /\ TcbSigningInv'
      /\ PckInv' /\ TcbInv' /\ QeInv' /\ QuoteInv'
  BY DEF PckCertInv, SigningChainInv, TcbSigningInv, PckInv, TcbInv, QeInv, QuoteInv,
     PckSteps, TcbSteps, QeSteps, QuoteSteps, EndSteps, AfterTcb, AfterPck
<1>. QED BY <1>1, <1>2 DEF IInv

\* A file read before its collateral is verified: no verdict is about it yet.
LEMMA ReadPreserves ==
    ASSUME IInv, NEW file \in Files, NEW content,
           file \in ChainFiles => IsChain(content),
           read' = [ read EXCEPT ![file] = content ],
           UNCHANGED <<files, options, failed, judged, saved, result>>,
           \/ /\ step = "pckCert" /\ file = "pckCert" /\ step' = "pckSigningChain"
           \/ /\ step = "pckSigningChain" /\ file = "pckSigningChain" /\ step' = "rootCaCrl"
           \/ /\ step \in { "rootCaCrl", "rootCaCrlAgain", "intermediateCaCrl",
                            "intermediateCaCrlAgain", "trustedRootCACert" }
              /\ file \in PckFiles \ ChainFiles
              /\ step' \in PckSteps \ { "pckSigningChain" }
           \/ /\ step = "tcbInfo" /\ file = "tcbInfo" /\ step' = "tcbSigningCert"
           \/ /\ step = "tcbSigningCert" /\ file = "tcbSigningCert" /\ step' = "verifyTCBInfo"
           \/ /\ step = "qeIdentity" /\ file = "qeIdentity" /\ step' = "verifyQeIdentity"
           \/ /\ step = "qveIdentity" /\ file = "qveIdentity" /\ step' = "verifyQveIdentity"
           \/ /\ step = "quote" /\ file = "quote" /\ step' = "verifyQuote"
    PROVE  IInv'
<1>. USE DEF PckSteps, TcbSteps, QeSteps, QuoteSteps, EndSteps, AfterTcb, AfterPck
<1>1. /\ DOMAIN read = Files
      /\ \A f \in Files : read'[f] = IF f = file THEN content ELSE read[f]
  BY DEF IInv, FilesInv
<1>2. /\ \A f \in PckFiles \union TcbFiles \union QeFiles :
            f # file => read'[f] = read[f]
      /\ \A f \in ChainFiles : read'[f] = IF f = file THEN content ELSE read[f]
  BY <1>1 DEF PckFiles, TcbFiles, QeFiles, ChainFiles, Files, CrlFiles
<1>3. /\ step \in AfterPck => \A f \in PckFiles : read'[f] = read[f]
      /\ step \in AfterTcb => \A f \in TcbFiles : read'[f] = read[f]
      /\ step \in QuoteSteps => \A f \in QeFiles : read'[f] = read[f]
  BY <1>2 DEF PckFiles, TcbFiles, QeFiles, ChainFiles
<1>4. StepsInv' /\ FilesInv' /\ SavedInv' /\ ResultInv' /\ QuoteInv'
  <2>1. StepsInv' /\ step' \notin EndSteps \union { "returned" } /\ result # "TRUE"
    BY DEF IInv, StepsInv
  <2>2. FilesInv' /\ SavedInv' /\ ResultInv' /\ QuoteInv'
    BY <2>1 DEF IInv, FilesInv, SavedInv, ResultInv, QuoteInv
  <2>. QED BY <2>1, <2>2
<1>5. PckCertInv' /\ SigningChainInv' /\ TcbSigningInv'
  BY <1>2 DEF IInv, PckCertInv, SigningChainInv, TcbSigningInv, ChainFiles, PckFiles
<1>6. PckInv' /\ TcbInv' /\ QeInv'
  <2>1. PckInv'
    <3>1. step' \in AfterPck => step \in AfterPck
      OBVIOUS
    <3>. QED BY <3>1, <1>3, SameArguments DEF IInv, PckInv
  <2>2. TcbInv'
    <3>1. step' \in AfterTcb => step \in AfterTcb
      OBVIOUS
    <3>. QED BY <3>1, <1>3, SameArguments DEF IInv, TcbInv
  <2>3. QeInv'
    <3>1. step' \in QuoteSteps \union EndSteps => step \in QuoteSteps
      OBVIOUS
    <3>. QED BY <3>1, <1>3, SameArguments DEF IInv, QeInv
  <2>. QED BY <2>1, <2>2, <2>3
<1>. QED BY <1>4, <1>5, <1>6 DEF IInv

\* readContent, of each of the files.
LEMMA ReadFilePreserves == IInv /\ ReadFile => IInv'
<1>. SUFFICES ASSUME IInv, ReadFile PROVE IInv'
  OBVIOUS
<1>1. PICK file \in Files :
          /\ step = file
          /\ IF files[file] = Missing
             THEN Return("FALSE") /\ UNCHANGED read
             ELSE /\ read' = [ read EXCEPT ![file] =
                                 IF file \in CrlFiles THEN CrlGivenAs("PEM", files[file])
                                                      ELSE files[file] ]
                  /\ step' = AfterRead(file)
                  /\ UNCHANGED result
          /\ UNCHANGED <<files, options, failed, judged, saved, replacements>>
  BY DEF ReadFile
<1>2. CASE files[file] = Missing
  BY <1>1, <1>2, ReturnsWithout DEF Return
<1>3. CASE files[file] # Missing
  <2> DEFINE content == IF file \in CrlFiles THEN CrlGivenAs("PEM", files[file]) ELSE files[file]
  <2>1. file \in ChainFiles => IsChain(content)
    BY <1>3 DEF IInv, FilesInv, IsContent, ChainFiles, CrlFiles
  <2>2. read' = [ read EXCEPT ![file] = content ] /\ step' = AfterRead(file)
    BY <1>1, <1>3
  <2>. HIDE DEF content
  <2>3. \/ /\ step = "pckCert" /\ file = "pckCert" /\ step' = "pckSigningChain"
        \/ /\ step = "pckSigningChain" /\ file = "pckSigningChain" /\ step' = "rootCaCrl"
        \/ /\ step \in { "rootCaCrl", "rootCaCrlAgain", "intermediateCaCrl",
                         "intermediateCaCrlAgain", "trustedRootCACert" }
           /\ file \in PckFiles \ ChainFiles
           /\ step' \in PckSteps \ { "pckSigningChain" }
        \/ /\ step = "tcbInfo" /\ file = "tcbInfo" /\ step' = "tcbSigningCert"
        \/ /\ step = "tcbSigningCert" /\ file = "tcbSigningCert" /\ step' = "verifyTCBInfo"
        \/ /\ step = "qeIdentity" /\ file = "qeIdentity" /\ step' = "verifyQeIdentity"
        \/ /\ step = "qveIdentity" /\ file = "qveIdentity" /\ step' = "verifyQveIdentity"
        \/ /\ step = "quote" /\ file = "quote" /\ step' = "verifyQuote"
    BY <1>1, <2>2 DEF AfterRead, NextCrlStep, SecondRead, NextStep, Files, CrlFiles, PckFiles,
       ChainFiles, PckSteps
  <2>. QED BY <1>1, <1>3, <2>1, <2>2, <2>3, ReadPreserves
<1>. QED BY <1>2, <1>3

\* readBinaryContent, of the two CRLs.
LEMMA ReadCrlAgainPreserves == IInv /\ ReadCrlAgain => IInv'
<1>. SUFFICES ASSUME IInv, ReadCrlAgain PROVE IInv'
  OBVIOUS
<1>1. PICK file \in CrlFiles :
          /\ step = SecondRead[file]
          /\ IF files[file] = Missing
             THEN Return("FALSE") /\ UNCHANGED read
             ELSE /\ read' = [ read EXCEPT ![file] = CrlGivenAs("DER", files[file]) ]
                  /\ step' = NextCrlStep[file]
                  /\ UNCHANGED result
          /\ UNCHANGED <<files, options, failed, judged, saved, replacements>>
  BY DEF ReadCrlAgain
<1>2. CASE files[file] = Missing
  BY <1>1, <1>2, ReturnsWithout DEF Return
<1>3. CASE files[file] # Missing
  <2>1. /\ file \in Files /\ file \notin ChainFiles
        /\ step \in { "rootCaCrlAgain", "intermediateCaCrlAgain" }
        /\ file \in PckFiles \ ChainFiles
        /\ step' \in PckSteps \ { "pckSigningChain" }
    BY <1>1, <1>3 DEF Files, CrlFiles, ChainFiles, PckFiles, SecondRead, NextCrlStep, PckSteps
  <2> DEFINE content == CrlGivenAs("DER", files[file])
  <2>2. read' = [ read EXCEPT ![file] = content ] /\ UNCHANGED result
    BY <1>1, <1>3
  <2>. HIDE DEF content
  <2>. QED BY <1>1, <2>1, <2>2, ReadPreserves
<1>. QED BY <1>2, <1>3

\* The calls of the library: an acceptance is one of what has been read, and nothing that
\* it was about is read again. failed only grows.
LEMMA VerifyPreserves ==
    ASSUME IInv,
           \/ VerifyPCKCertificate \/ VerifyTCBInfo \/ VerifyQeIdentity \/ VerifyQveIdentity
           \/ VerifyQuote
    PROVE  IInv'
<1>. USE DEF PckSteps, TcbSteps, QeSteps, QuoteSteps, EndSteps, AfterTcb, AfterPck
<1>1. /\ UNCHANGED <<files, options, read, saved, result>>
      /\ failed \subseteq failed'
      /\ \/ /\ step = "verifyPCKCertificate" /\ step' = "tcbInfo" /\ UNCHANGED judged
            /\ "verifyPCKCertificate" \in failed' \/ CollateralOk(PckArguments(read))
         \/ /\ step = "verifyTCBInfo" /\ UNCHANGED judged
            /\ step' = AfterTcbInfo
            /\ "verifyTCBInfo" \in failed' \/ CollateralOk(TcbInfoArguments(read))
         \/ /\ step = "verifyQeIdentity" /\ step' = AfterQeIdentity /\ UNCHANGED judged
            /\ \/ "verifyQeIdentity" \in failed'
               \/ CollateralOk(IdentityArguments(read, read.qeIdentity))
         \/ step = "verifyQveIdentity" /\ step' = "quote" /\ UNCHANGED judged
         \/ /\ step = "verifyQuote" /\ step' = "save"
            /\ judged' = { QuoteArguments(read) }
            /\ "verifyQuote" \in failed' \/ QuoteOk(QuoteArguments(read))
  BY DEF VerifyPCKCertificate, VerifyTCBInfo, VerifyQeIdentity, VerifyQveIdentity, VerifyQuote,
     Verify
<1>2. \/ step = "verifyPCKCertificate" /\ step' = "tcbInfo"
      \/ step = "verifyTCBInfo" /\ step' = "qeIdentity"
      \/ step = "verifyTCBInfo" /\ step' \in QuoteSteps /\ ~options.qeIdentity
      \/ step = "verifyQeIdentity" /\ step' \in QuoteSteps
      \/ step = "verifyQveIdentity" /\ step' \in QuoteSteps
      \/ step = "verifyQuote" /\ step' = "save"
  BY <1>1 DEF AfterTcbInfo, AfterQeIdentity, IInv, FilesInv
<1>3. StepsInv' /\ FilesInv' /\ ResultInv' /\ SavedInv'
  <2>1. StepsInv' /\ FilesInv' /\ result' # "TRUE"
    BY <1>1, <1>2 DEF IInv, StepsInv, FilesInv
  <2>2. saved' = {} /\ step' # "status"
    BY <1>1, <1>2 DEF IInv, SavedInv
  <2>. QED BY <2>1, <2>2 DEF ResultInv, SavedInv
<1>4. PckCertInv' /\ SigningChainInv' /\ TcbSigningInv'
  BY <1>1, <1>2 DEF IInv, PckCertInv, SigningChainInv, TcbSigningInv
<1>5. PckInv' /\ TcbInv' /\ QeInv'
  <2>1. /\ CollateralOk(PckArguments(read))' = CollateralOk(PckArguments(read))
        /\ CollateralOk(TcbInfoArguments(read))' = CollateralOk(TcbInfoArguments(read))
        /\ CollateralOk(IdentityArguments(read, read.qeIdentity))'
               = CollateralOk(IdentityArguments(read, read.qeIdentity))
    BY <1>1, SameEvidence
  <2>2. PckInv'
    BY <1>1, <1>2, <2>1 DEF IInv, PckInv
  <2>3. TcbInv'
    BY <1>1, <1>2, <2>1 DEF IInv, TcbInv
  <2>4. QeInv'
    BY <1>1, <1>2, <2>1 DEF IInv, QeInv
  <2>. QED BY <2>2, <2>3, <2>4
<1>6. QuoteInv'
  <2>1. /\ QuoteArguments(read)' = QuoteArguments(read)
        /\ QuoteOk(QuoteArguments(read))' = QuoteOk(QuoteArguments(read))
    BY <1>1, SameEvidence
  <2>. QED BY <1>1, <1>2, <2>1 DEF QuoteInv
<1>. QED BY <1>3, <1>4, <1>5, <1>6 DEF IInv

\* The file of the info is written from what was judged, if it can be.
LEMMA SavePreserves == IInv /\ SaveCollateralInfo => IInv'
<1>. SUFFICES ASSUME IInv, SaveCollateralInfo PROVE IInv'
  OBVIOUS
<1>. USE DEF PckSteps, TcbSteps, QeSteps, QuoteSteps, EndSteps, AfterTcb, AfterPck
<1>1. step = "save" /\ UNCHANGED <<files, options, read, failed, judged>>
  BY DEF SaveCollateralInfo
<1>2. CASE saved' = CollateralInfoToSave /\ step' = "status" /\ UNCHANGED result
  <2>1. /\ CollateralOk(PckArguments(read))' = CollateralOk(PckArguments(read))
        /\ CollateralOk(TcbInfoArguments(read))' = CollateralOk(TcbInfoArguments(read))
        /\ CollateralOk(IdentityArguments(read, read.qeIdentity))'
               = CollateralOk(IdentityArguments(read, read.qeIdentity))
        /\ QuoteArguments(read)' = QuoteArguments(read)
        /\ QuoteOk(QuoteArguments(read))' = QuoteOk(QuoteArguments(read))
        /\ UNCHANGED CollateralInfoToSave
    BY <1>1, SameEvidence
  <2>2. StepsInv' /\ FilesInv' /\ result' # "TRUE"
    BY <1>1, <1>2 DEF IInv, StepsInv, FilesInv
  <2>3. SavedInv'
    <3>1. \A q \in CollateralInfoToSave : q \in judged /\ Rated(q)
      BY DEF CollateralInfoToSave
    <3>. QED BY <1>1, <1>2, <2>1, <3>1 DEF SavedInv
  <2>4. PckCertInv' /\ SigningChainInv' /\ TcbSigningInv'
    BY <1>1, <1>2 DEF IInv, PckCertInv, SigningChainInv, TcbSigningInv
  <2>5. PckInv' /\ TcbInv' /\ QeInv' /\ QuoteInv'
    BY <1>1, <1>2, <2>1 DEF IInv, PckInv, TcbInv, QeInv, QuoteInv
  <2>6. ResultInv'
    BY <2>2 DEF ResultInv
  <2>. QED BY <2>2, <2>3, <2>4, <2>5, <2>6 DEF IInv
<1>3. CASE Return("FALSE") /\ UNCHANGED saved
  BY <1>1, <1>3, ReturnsWithout DEF Return
<1>. QED BY <1>2, <1>3 DEF SaveCollateralInfo

\* The verdict: true when none of the calls has failed.
LEMMA ReturnResultPreserves == IInv /\ ReturnResult => IInv'
<1>. SUFFICES ASSUME IInv, ReturnResult PROVE IInv'
  OBVIOUS
<1>. USE DEF PckSteps, TcbSteps, QeSteps, QuoteSteps, EndSteps, AfterTcb, AfterPck
<1>1. /\ step = "status" /\ step' = "returned"
      /\ result' = IF failed = {} THEN "TRUE" ELSE "FALSE"
      /\ UNCHANGED <<files, options, read, failed, judged, saved>>
  BY DEF ReturnResult, Return
<1>2. CASE failed # {}
  BY <1>1, <1>2, ReturnsWithout
<1>3. CASE failed = {}
  <2>1. ChainsRead(read)
    BY <1>1 DEF IInv, PckCertInv, SigningChainInv, TcbSigningInv, ChainsRead
  <2>2. Accepted(read)
    BY <1>1, <1>3 DEF IInv, PckInv, TcbInv, QeInv, QuoteInv, Accepted
  <2>3. judged = { QuoteArguments(read) } /\ saved = CollateralInfoToSave
    BY <1>1 DEF IInv, QuoteInv, SavedInv
  <2>4. /\ ChainsRead(read)' /\ Accepted(read)'
        /\ judged' = { QuoteArguments(read)' } /\ saved' = CollateralInfoToSave'
    BY <1>1, <2>1, <2>2, <2>3, SameEvidence
  <2>5. ResultInv'
    BY <2>4 DEF ResultInv
  <2>6. StepsInv' /\ FilesInv' /\ SavedInv'
    BY <1>1 DEF IInv, StepsInv, FilesInv, SavedInv
  <2>7. /\ PckCertInv' /\ SigningChainInv' /\ TcbSigningInv'
        /\ PckInv' /\ TcbInv' /\ QeInv' /\ QuoteInv'
    BY <1>1 DEF PckCertInv, SigningChainInv, TcbSigningInv, PckInv, TcbInv, QeInv, QuoteInv
  <2>. QED BY <2>5, <2>6, <2>7 DEF IInv
<1>. QED BY <1>2, <1>3

\* Nothing that is said rests on what is in a file now.
LEMMA ReplacePreserves == IInv /\ ReplaceFile => IInv'
<1>. SUFFICES ASSUME IInv, ReplaceFile PROVE IInv'
  OBVIOUS
<1>1. PICK file \in Files :
          \E content \in Contents[file] : files' = [ files EXCEPT ![file] = content ]
  BY DEF ReplaceFile
<1>2. UNCHANGED <<options, step, read, failed, judged, saved, result>>
  BY DEF ReplaceFile
<1>3. FilesInv'
  BY <1>1, <1>2, ContentsAssumption DEF IInv, FilesInv
<1>4. StepsInv'
  BY <1>2 DEF IInv, StepsInv
<1>5. PckCertInv' /\ SigningChainInv' /\ TcbSigningInv'
  BY <1>2 DEF IInv, PckCertInv, SigningChainInv, TcbSigningInv
<1>6. PckInv' /\ TcbInv' /\ QeInv' /\ QuoteInv'
  BY <1>2, SameEvidence DEF IInv, PckInv, TcbInv, QeInv, QuoteInv
<1>7. SavedInv' /\ ResultInv'
  BY <1>2, SameEvidence DEF IInv, SavedInv, ResultInv
<1>. QED BY <1>3, <1>4, <1>5, <1>6, <1>7 DEF IInv

LEMMA RunPreserves == IInv /\ RunVerification => IInv'
<1>. SUFFICES ASSUME IInv, RunVerification PROVE IInv'
  OBVIOUS
<1>1. CASE ReadFile
  BY <1>1, ReadFilePreserves
<1>2. CASE ReadCrlAgain
  BY <1>2, ReadCrlAgainPreserves
<1>3. CASE VerifyPCKCertificate \/ VerifyTCBInfo \/ VerifyQeIdentity \/ VerifyQveIdentity
           \/ VerifyQuote
  BY <1>3, VerifyPreserves
<1>4. CASE EcallFails
  BY <1>4, ReturnsWithout DEF EcallFails
<1>5. CASE SaveCollateralInfo
  BY <1>5, SavePreserves
<1>6. CASE ReturnResult
  BY <1>6, ReturnResultPreserves
<1>. QED BY <1>1, <1>2, <1>3, <1>4, <1>5, <1>6 DEF RunVerification

LEMMA StutterPreserves == IInv /\ UNCHANGED vars => IInv'
<1>. SUFFICES ASSUME IInv, UNCHANGED vars PROVE IInv'
  OBVIOUS
<1>1. /\ UNCHANGED <<files, options, step, read, failed, judged, saved, result>>
  BY DEF vars
<1>2. StepsInv' /\ FilesInv' /\ PckCertInv' /\ SigningChainInv' /\ TcbSigningInv'
  BY <1>1 DEF IInv, StepsInv, FilesInv, PckCertInv, SigningChainInv, TcbSigningInv
<1>3. PckInv' /\ TcbInv' /\ QeInv' /\ QuoteInv' /\ SavedInv' /\ ResultInv'
  BY <1>1, SameEvidence DEF IInv, PckInv, TcbInv, QeInv, QuoteInv, SavedInv, ResultInv
<1>. QED BY <1>2, <1>3 DEF IInv

\* The invariant of runVerification, with any number of files replaced at any time.
THEOREM VerificationInvariant == Spec => []IInv
<1>1. IInv /\ [Next]_vars => IInv'
  BY RunPreserves, ReplacePreserves, StutterPreserves DEF Next
<1>. QED BY InitInvariant, <1>1, PTL DEF Spec

(***************************************************************************)
(* runVerification as main calls it.                                       *)
(***************************************************************************)
LEMMA MainInitInvariant == MainInit => IInv
<1>. SUFFICES ASSUME MainInit PROVE IInv
  OBVIOUS
<1>. USE DEF MainInit
<1>1. StepsInv
  BY DEF StepsInv
<1>2. FilesInv
  BY DEF FilesInv, NothingRead, NoOptions, IsContent
<1>3. /\ PckCertInv /\ SigningChainInv /\ TcbSigningInv
      /\ PckInv /\ TcbInv /\ QeInv /\ QuoteInv /\ SavedInv /\ ResultInv
  BY DEF PckCertInv, SigningChainInv, TcbSigningInv, PckInv, TcbInv, QeInv, QuoteInv, SavedInv,
     ResultInv, PckSteps, TcbSteps, QeSteps, QuoteSteps, EndSteps, AfterTcb, AfterPck
<1>. QED BY <1>1, <1>2, <1>3 DEF IInv

\* The call: files as they may be, the options of the command line, and nothing read.
LEMMA CallPreserves == IInv /\ CallRunVerification => IInv'
<1>. SUFFICES ASSUME IInv, CallRunVerification PROVE IInv'
  OBVIOUS
<1>1. /\ step = "parse" /\ step' = "pckCert"
      /\ files' \in Starts /\ options' = AppOptions
      /\ UNCHANGED <<read, failed, judged, saved, result>>
  BY DEF CallRunVerification
<1>2. StepsInv' /\ result' # "TRUE"
  BY <1>1 DEF IInv, StepsInv
<1>3. options'.qeIdentity \in BOOLEAN
  BY <1>1 DEF AppOptions
<1>4. FilesInv'
  BY <1>1, <1>3, ContentsAssumption DEF IInv, FilesInv
<1>5. SavedInv' /\ ResultInv'
  BY <1>1, <1>2 DEF IInv, SavedInv, ResultInv
<1>6. /\ PckCertInv' /\ SigningChainInv' /\ TcbSigningInv'
      /\ PckInv' /\ TcbInv' /\ QeInv' /\ QuoteInv'
  BY <1>1 DEF PckCertInv, SigningChainInv, TcbSigningInv, PckInv, TcbInv, QeInv, QuoteInv,
     PckSteps, TcbSteps, QeSteps, QuoteSteps, EndSteps, AfterTcb, AfterPck
<1>. QED BY <1>2, <1>4, <1>5, <1>6 DEF IInv

THEOREM MainInvariant == MainSpec => []IInv
<1>1. ASSUME IInv, [MainNext]_mainVars PROVE IInv'
  <2>1. CASE UNCHANGED vars
    BY <1>1, <2>1, StutterPreserves
  <2>2. CASE EnclaveFails
    BY <1>1, <2>2, ReturnsWithout DEF EnclaveFails, Return
  <2>3. CASE CallRunVerification
    BY <1>1, <2>3, CallPreserves
  <2>4. CASE ReturnAtOnce
    BY <1>1, <2>4, ReturnsWithout DEF ReturnAtOnce, Return
  <2>5. CASE RunVerification
    BY <1>1, <2>5, RunPreserves
  <2>6. CASE ReplaceFile
    BY <1>1, <2>6, ReplacePreserves
  <2>. QED BY <1>1, <2>1, <2>2, <2>3, <2>4, <2>5, <2>6 DEF MainNext, MainThread, mainVars
<1>. QED BY MainInitInvariant, <1>1, PTL DEF MainSpec

(***************************************************************************)
(* While nobody has touched the files, what has been read is what they     *)
(* hold, and every verdict so far is one on the files.                     *)
(***************************************************************************)
PckOk == CollateralOk(PckArguments(files))
TcbOk == CollateralOk(TcbInfoArguments(files))
QeOk  == CollateralOk(IdentityArguments(files, files.qeIdentity))
QveOk == CollateralOk(IdentityArguments(files, files.qveIdentity))
JudgedOk == QuoteOk(QuoteArguments(files))

ReadAs(file) == files[file] # Missing /\ read[file] = files[file]

PckRead ==
    /\ step \in PckSteps \union AfterPck => ReadAs("pckCert")
    /\ step \in (PckSteps \ { "pckSigningChain" }) \union AfterPck => ReadAs("pckSigningChain")
    /\ step \in { "intermediateCaCrl", "intermediateCaCrlAgain", "trustedRootCACert",
                  "verifyPCKCertificate" } \union AfterPck => ReadAs("rootCaCrl")
    /\ step \in { "trustedRootCACert", "verifyPCKCertificate" } \union AfterPck =>
          ReadAs("intermediateCaCrl")
    /\ step \in { "verifyPCKCertificate" } \union AfterPck => ReadAs("trustedRootCACert")

\* A CRL is read again only if it was not in PEM form.
CrlUnread ==
    /\ step = "rootCaCrlAgain" =>
          files.rootCaCrl # Missing /\ files.rootCaCrl.encoding # "PEM"
    /\ step = "intermediateCaCrlAgain" =>
          files.intermediateCaCrl # Missing /\ files.intermediateCaCrl.encoding # "PEM"

RestRead ==
    /\ step \in { "tcbSigningCert", "verifyTCBInfo" } \union AfterTcb => ReadAs("tcbInfo")
    /\ step \in { "verifyTCBInfo" } \union AfterTcb => ReadAs("tcbSigningCert")
    /\ options.qeIdentity /\ step \in { "verifyQeIdentity" } \union QuoteSteps \union EndSteps =>
          ReadAs("qeIdentity")
    /\ options.qveIdentity /\ step \in (QuoteSteps \ { "qveIdentity" }) \union EndSteps =>
          ReadAs("qveIdentity")
    /\ step \in { "verifyQuote" } \union EndSteps => ReadAs("quote")

\* The optional files are read only if they are named.
OptionalSteps ==
    /\ step \in QeSteps => options.qeIdentity
    /\ step \in { "qveIdentity", "verifyQveIdentity" } => options.qveIdentity

FailedRightly ==
    /\ failed \subseteq Verifications
    /\ "verifyPCKCertificate" \in failed => ~PckOk
    /\ "verifyTCBInfo" \in failed => ~TcbOk
    /\ "verifyQeIdentity" \in failed => options.qeIdentity /\ ~QeOk
    /\ "verifyQveIdentity" \in failed => options.qveIdentity /\ ~QveOk
    /\ "verifyQuote" \in failed => ~JudgedOk

PassedRightly ==
    /\ step \in AfterPck => "verifyPCKCertificate" \in failed \/ PckOk
    /\ step \in AfterTcb => "verifyTCBInfo" \in failed \/ TcbOk
    /\ options.qeIdentity /\ step \in QuoteSteps \union EndSteps =>
          "verifyQeIdentity" \in failed \/ QeOk
    /\ options.qveIdentity /\ step \in { "quote", "verifyQuote" } \union EndSteps =>
          "verifyQveIdentity" \in failed \/ QveOk
    /\ step \in EndSteps => "verifyQuote" \in failed \/ JudgedOk

Answer ==
    /\ result = "TRUE" => FilesAcceptable
    /\ result = "FALSE" => ~FilesAcceptable \/ (options.verCollInfo /\ saved = {})

AsItStands ==
    PckRead /\ CrlUnread /\ RestRead /\ OptionalSteps /\ FailedRightly /\ PassedRightly /\ Answer

UndisturbedInv ==
    /\ replacements \in Nat
    /\ step = "parse" => failed = {}
    /\ replacements = 0 => AsItStands

\* The verdicts on the files stay while the files do.
LEMMA SameFiles ==
    ASSUME UNCHANGED <<files, options>>
    PROVE  /\ PckOk' = PckOk /\ TcbOk' = TcbOk /\ QeOk' = QeOk /\ QveOk' = QveOk
           /\ JudgedOk' = JudgedOk
           /\ FilesAcceptable' = FilesAcceptable
<1>1. /\ PckArguments(files)' = PckArguments(files)
      /\ TcbInfoArguments(files)' = TcbInfoArguments(files)
      /\ IdentityArguments(files, files.qeIdentity)' = IdentityArguments(files, files.qeIdentity)
      /\ IdentityArguments(files, files.qveIdentity)' = IdentityArguments(files, files.qveIdentity)
  BY DEF PckArguments, TcbInfoArguments, IdentityArguments, Arguments
<1>2. QuoteArguments(files)' = QuoteArguments(files)
  BY DEF QuoteArguments, IdentityPassed
<1>3. QuoteOk(QuoteArguments(files))' = QuoteOk(QuoteArguments(files))
  BY <1>2 DEF QuoteOk
<1>4. NamedFiles' = NamedFiles
  BY DEF NamedFiles
<1>. QED BY <1>1, <1>3, <1>4 DEF PckOk, TcbOk, QeOk, QveOk, JudgedOk, FilesAcceptable, CollateralOk

\* A CRL in PEM form that is passed on as text, and any other that is passed on as the bytes
\* of its file, is to the library what it is.
LEMMA GivenAsItIs ==
    ASSUME NEW crl, IsCrl(crl)
    PROVE  /\ crl.encoding = "PEM" => CrlGivenAs("PEM", crl) = crl
           /\ crl.encoding # "PEM" => CrlGivenAs("DER", crl) = crl
  BY DEF IsCrl, CrlGivenAs

\* A step that returns without accepting, because a file is missing, because the info that
\* was asked for is not written, or for the enclave.
LEMMA ReturnsAsItStands ==
    ASSUME AsItStands, step' = "returned",
           \/ result' = "terminated"
           \/ result' = "FALSE" /\ (~FilesAcceptable \/ (options.verCollInfo /\ saved = {})),
           UNCHANGED <<files, options, read, failed, judged, saved>>
    PROVE  AsItStands'
<1>1. Answer'
  BY SameFiles DEF Answer
<1>2. FailedRightly'
  BY SameFiles DEF AsItStands, FailedRightly
<1>3. PckRead' /\ CrlUnread' /\ RestRead' /\ OptionalSteps' /\ PassedRightly'
  BY DEF PckRead, CrlUnread, RestRead, OptionalSteps, PassedRightly,
     PckSteps, TcbSteps, QeSteps, QuoteSteps, EndSteps, AfterTcb, AfterPck
<1>. QED BY <1>1, <1>2, <1>3 DEF AsItStands

\* A file that is read: it is what it is, or a CRL that will be read again.
LEMMA ReadAsItStands ==
    ASSUME IInv, AsItStands, NEW file \in Files, NEW content,
           files[file] # Missing,
           read' = [ read EXCEPT ![file] = content ],
           UNCHANGED <<files, options, failed, judged, saved, result>>,
           \/ /\ content = files[file]
              /\ \/ step = "pckCert" /\ file = "pckCert" /\ step' = "pckSigningChain"
                 \/ step = "pckSigningChain" /\ file = "pckSigningChain" /\ step' = "rootCaCrl"
                 \/ /\ step \in { "rootCaCrl", "rootCaCrlAgain" } /\ file = "rootCaCrl"
                    /\ step' = "intermediateCaCrl"
                 \/ /\ step \in { "intermediateCaCrl", "intermediateCaCrlAgain" }
                    /\ file = "intermediateCaCrl" /\ step' = "trustedRootCACert"
                 \/ /\ step = "trustedRootCACert" /\ file = "trustedRootCACert"
                    /\ step' = "verifyPCKCertificate"
                 \/ step = "tcbInfo" /\ file = "tcbInfo" /\ step' = "tcbSigningCert"
                 \/ step = "tcbSigningCert" /\ file = "tcbSigningCert" /\ step' = "verifyTCBInfo"
                 \/ step = "qeIdentity" /\ file = "qeIdentity" /\ step' = "verifyQeIdentity"
                 \/ step = "qveIdentity" /\ file = "qveIdentity" /\ step' = "verifyQveIdentity"
                 \/ step = "quote" /\ file = "quote" /\ step' = "verifyQuote"
           \/ /\ files[file].encoding # "PEM"
              /\ \/ step = "rootCaCrl" /\ file = "rootCaCrl" /\ step' = "rootCaCrlAgain"
                 \/ /\ step = "intermediateCaCrl" /\ file = "intermediateCaCrl"
                    /\ step' = "intermediateCaCrlAgain"
    PROVE  AsItStands'
<1>. USE DEF PckSteps, TcbSteps, QeSteps, QuoteSteps, EndSteps, AfterTcb, AfterPck
<1>1. /\ DOMAIN read = Files
      /\ \A f \in Files : read'[f] = IF f = file THEN content ELSE read[f]
  BY DEF IInv, FilesInv
<1>2. /\ \A f \in Files : f # file => ReadAs(f)' = ReadAs(f)
      /\ content = files[file] => ReadAs(file)'
  BY <1>1 DEF ReadAs
<1>3. result' = "none" /\ result = "none"
  BY DEF IInv, StepsInv
<1>4. PckRead'
  <2>1. PckRead
    BY DEF AsItStands
  <2>2. CASE step \in { "pckCert", "pckSigningChain", "rootCaCrl", "rootCaCrlAgain" }
    BY <1>2, <2>1, <2>2 DEF PckRead, Files, CrlFiles
  <2>3. CASE step \in { "intermediateCaCrl", "intermediateCaCrlAgain", "trustedRootCACert" }
    BY <1>2, <2>1, <2>3 DEF PckRead, Files, CrlFiles
  <2>4. CASE step \in AfterPck
    BY <1>2, <2>1, <2>4 DEF PckRead, Files, CrlFiles
  <2>. QED BY <2>2, <2>3, <2>4
<1>5. CrlUnread'
  BY DEF CrlUnread
<1>6. RestRead'
  <2>1. RestRead
    BY DEF AsItStands
  <2>2. CASE step \in { "pckCert" } \union PckSteps \union TcbSteps
    BY <1>2, <2>1, <2>2 DEF RestRead, Files, CrlFiles
  <2>3. CASE step \in QeSteps \union QuoteSteps
    BY <1>2, <2>1, <2>3 DEF RestRead, Files, CrlFiles
  <2>. QED BY <2>2, <2>3
<1>7. OptionalSteps'
  BY DEF AsItStands, OptionalSteps
<1>8. FailedRightly'
  BY SameFiles DEF AsItStands, FailedRightly
<1>9. PassedRightly'
  BY SameFiles DEF AsItStands, PassedRightly
<1>10. Answer'
  BY <1>3 DEF Answer
<1>. QED BY <1>4, <1>5, <1>6, <1>7, <1>8, <1>9, <1>10 DEF AsItStands

\* readContent, while nobody touches the files.
LEMMA ReadFileAsItStands == IInv /\ AsItStands /\ ReadFile => AsItStands'
<1>. SUFFICES ASSUME IInv, AsItStands, ReadFile PROVE AsItStands'
  OBVIOUS
<1>1. PICK file \in Files :
          /\ step = file
          /\ IF files[file] = Missing
             THEN Return("FALSE") /\ UNCHANGED read
             ELSE /\ read' = [ read EXCEPT ![file] =
                                 IF file \in CrlFiles THEN CrlGivenAs("PEM", files[file])
                                                      ELSE files[file] ]
                  /\ step' = AfterRead(file)
                  /\ UNCHANGED result
          /\ UNCHANGED <<files, options, failed, judged, saved, replacements>>
  BY DEF ReadFile
<1>2. CASE files[file] = Missing
  <2>1. file \in NamedFiles
    BY <1>1 DEF NamedFiles, AsItStands, OptionalSteps, QeSteps
  <2>2. ~FilesAcceptable
    BY <1>2, <2>1 DEF FilesAcceptable
  <2>. QED BY <1>1, <1>2, <2>2, ReturnsAsItStands DEF Return
<1>3. CASE files[file] # Missing /\ file \notin CrlFiles
  <2>1. read' = [ read EXCEPT ![file] = files[file] ] /\ step' = NextStep[file]
    BY <1>1, <1>3 DEF AfterRead
  <2>2. \/ step = "pckCert" /\ file = "pckCert" /\ step' = "pckSigningChain"
        \/ step = "pckSigningChain" /\ file = "pckSigningChain" /\ step' = "rootCaCrl"
        \/ /\ step = "trustedRootCACert" /\ file = "trustedRootCACert"
           /\ step' = "verifyPCKCertificate"
        \/ step = "tcbInfo" /\ file = "tcbInfo" /\ step' = "tcbSigningCert"
        \/ step = "tcbSigningCert" /\ file = "tcbSigningCert" /\ step' = "verifyTCBInfo"
        \/ step = "qeIdentity" /\ file = "qeIdentity" /\ step' = "verifyQeIdentity"
        \/ step = "qveIdentity" /\ file = "qveIdentity" /\ step' = "verifyQveIdentity"
        \/ step = "quote" /\ file = "quote" /\ step' = "verifyQuote"
    BY <1>1, <1>3, <2>1 DEF NextStep, Files
  <2>. QED BY <1>1, <1>3, <2>1, <2>2, ReadAsItStands
<1>4. CASE files[file] # Missing /\ file \in CrlFiles
  <2>1. IsCrl(files[file])
    BY <1>4 DEF IInv, FilesInv, IsContent
  <2> DEFINE content == CrlGivenAs("PEM", files[file])
  <2>2. /\ read' = [ read EXCEPT ![file] = content ]
        /\ files[file].encoding = "PEM" => content = files[file]
    BY <1>1, <1>4, <2>1, GivenAsItIs
  <2>. HIDE DEF content
  <2>3. \/ /\ files[file].encoding = "PEM"
           /\ \/ step = "rootCaCrl" /\ file = "rootCaCrl" /\ step' = "intermediateCaCrl"
              \/ /\ step = "intermediateCaCrl" /\ file = "intermediateCaCrl"
                 /\ step' = "trustedRootCACert"
        \/ /\ files[file].encoding # "PEM"
           /\ \/ step = "rootCaCrl" /\ file = "rootCaCrl" /\ step' = "rootCaCrlAgain"
              \/ /\ step = "intermediateCaCrl" /\ file = "intermediateCaCrl"
                 /\ step' = "intermediateCaCrlAgain"
    BY <1>1, <1>4 DEF AfterRead, CrlFiles, NextCrlStep, SecondRead
  <2>. QED BY <1>1, <1>4, <2>2, <2>3, ReadAsItStands
<1>. QED BY <1>2, <1>3, <1>4

\* readBinaryContent, while nobody touches the files: the CRL is still not in PEM form.
LEMMA ReadCrlAgainAsItStands == IInv /\ AsItStands /\ ReadCrlAgain => AsItStands'
<1>. SUFFICES ASSUME IInv, AsItStands, ReadCrlAgain PROVE AsItStands'
  OBVIOUS
<1>1. PICK file \in CrlFiles :
          /\ step = SecondRead[file]
          /\ IF files[file] = Missing
             THEN Return("FALSE") /\ UNCHANGED read
             ELSE /\ read' = [ read EXCEPT ![file] = CrlGivenAs("DER", files[file]) ]
                  /\ step' = NextCrlStep[file]
                  /\ UNCHANGED result
          /\ UNCHANGED <<files, options, failed, judged, saved, replacements>>
  BY DEF ReadCrlAgain
<1>2. /\ \/ file = "rootCaCrl" /\ step = "rootCaCrlAgain"
         \/ file = "intermediateCaCrl" /\ step = "intermediateCaCrlAgain"
      /\ files[file] # Missing /\ files[file].encoding # "PEM"
      /\ file \in Files
  BY <1>1 DEF CrlFiles, SecondRead, AsItStands, CrlUnread, Files
<1>3. IsCrl(files[file])
  BY <1>1, <1>2 DEF IInv, FilesInv, IsContent
<1>4. read' = [ read EXCEPT ![file] = files[file] ] /\ step' = NextCrlStep[file]
  BY <1>1, <1>2, <1>3, GivenAsItIs
<1>5. \/ file = "rootCaCrl" /\ step' = "intermediateCaCrl"
      \/ file = "intermediateCaCrl" /\ step' = "trustedRootCACert"
  BY <1>2, <1>4 DEF NextCrlStep
<1>. QED BY <1>1, <1>2, <1>4, <1>5, ReadAsItStands

\* What a call is given has all been read: it is what the files hold.
LEMMA VerdictsOnFiles ==
    ASSUME AsItStands
    PROVE  /\ step = "verifyPCKCertificate" => CollateralOk(PckArguments(read)) = PckOk
           /\ step = "verifyTCBInfo" => CollateralOk(TcbInfoArguments(read)) = TcbOk
           /\ step = "verifyQeIdentity" =>
                 CollateralOk(IdentityArguments(read, read.qeIdentity)) = QeOk
           /\ step = "verifyQveIdentity" =>
                 CollateralOk(IdentityArguments(read, read.qveIdentity)) = QveOk
           /\ step = "verifyQuote" => QuoteOk(QuoteArguments(read)) = JudgedOk
<1>. USE DEF PckSteps, TcbSteps, QeSteps, QuoteSteps, EndSteps, AfterTcb, AfterPck
<1>1. ASSUME step = "verifyPCKCertificate" PROVE PckArguments(read) = PckArguments(files)
  <2>1. \A f \in PckFiles : read[f] = files[f]
    BY <1>1 DEF AsItStands, PckRead, ReadAs, PckFiles
  <2>. QED BY <2>1 DEF PckFiles, PckArguments, Arguments
<1>2. ASSUME step \in { "verifyTCBInfo" } \union AfterTcb
      PROVE  \A f \in { "rootCaCrl", "trustedRootCACert", "tcbSigningCert", "tcbInfo", "pckCert",
                        "intermediateCaCrl" } : read[f] = files[f]
  BY <1>2 DEF AsItStands, PckRead, RestRead, ReadAs
<1>3. ASSUME step = "verifyTCBInfo" PROVE TcbInfoArguments(read) = TcbInfoArguments(files)
  BY <1>2, <1>3 DEF TcbInfoArguments, Arguments
<1>4. ASSUME step = "verifyQeIdentity"
      PROVE  IdentityArguments(read, read.qeIdentity) = IdentityArguments(files, files.qeIdentity)
  <2>1. read.qeIdentity = files.qeIdentity
    BY <1>4 DEF AsItStands, RestRead, OptionalSteps, ReadAs
  <2>. QED BY <1>2, <1>4, <2>1 DEF IdentityArguments, Arguments
<1>5. ASSUME step = "verifyQveIdentity"
      PROVE  IdentityArguments(read, read.qveIdentity) = IdentityArguments(files, files.qveIdentity)
  <2>1. read.qveIdentity = files.qveIdentity
    BY <1>5 DEF AsItStands, RestRead, OptionalSteps, ReadAs
  <2>. QED BY <1>2, <1>5, <2>1 DEF IdentityArguments, Arguments
<1>6. ASSUME step = "verifyQuote" PROVE QuoteArguments(read) = QuoteArguments(files)
  <2>1. read.quote = files.quote /\ (options.qeIdentity => read.qeIdentity = files.qeIdentity)
    BY <1>6 DEF AsItStands, RestRead, ReadAs
  <2>2. IdentityPassed(read) = IdentityPassed(files)
    BY <2>1 DEF IdentityPassed
  <2>. QED BY <1>2, <1>6, <2>1, <2>2 DEF QuoteArguments
<1>. QED BY <1>1, <1>3, <1>4, <1>5, <1>6 DEF PckOk, TcbOk, QeOk, QveOk, JudgedOk

\* The calls of the library, while nobody touches the files.
LEMMA VerifyAsItStands ==
    ASSUME IInv, AsItStands,
           \/ VerifyPCKCertificate \/ VerifyTCBInfo \/ VerifyQeIdentity \/ VerifyQveIdentity
           \/ VerifyQuote
    PROVE  AsItStands'
<1>. USE DEF PckSteps, TcbSteps, QeSteps, QuoteSteps, EndSteps, AfterTcb, AfterPck
<1>1. /\ UNCHANGED <<files, options, read, saved, result>>
      /\ \/ /\ step = "verifyPCKCertificate" /\ step' = "tcbInfo"
            /\ failed' = IF PckOk THEN failed ELSE failed \union { step }
         \/ /\ step = "verifyTCBInfo" /\ step' = AfterTcbInfo
            /\ failed' = IF TcbOk THEN failed ELSE failed \union { step }
         \/ /\ step = "verifyQeIdentity" /\ step' = AfterQeIdentity
            /\ failed' = IF QeOk THEN failed ELSE failed \union { step }
         \/ /\ step = "verifyQveIdentity" /\ step' = "quote"
            /\ failed' = IF QveOk THEN failed ELSE failed \union { step }
         \/ /\ step = "verifyQuote" /\ step' = "save"
            /\ failed' = IF JudgedOk THEN failed ELSE failed \union { step }
  BY VerdictsOnFiles DEF VerifyPCKCertificate, VerifyTCBInfo, VerifyQeIdentity,
     VerifyQveIdentity, VerifyQuote, Verify
<1>2. \/ step = "verifyPCKCertificate" /\ step' = "tcbInfo"
      \/ step = "verifyTCBInfo" /\ step' = "qeIdentity" /\ options.qeIdentity
      \/ step = "verifyTCBInfo" /\ step' = "qveIdentity" /\ ~options.qeIdentity /\ options.qveIdentity
      \/ step = "verifyTCBInfo" /\ step' = "quote" /\ ~options.qeIdentity /\ ~options.qveIdentity
      \/ step = "verifyQeIdentity" /\ step' = "qveIdentity" /\ options.qveIdentity
      \/ step = "verifyQeIdentity" /\ step' = "quote" /\ ~options.qveIdentity
      \/ step = "verifyQveIdentity" /\ step' = "quote"
      \/ step = "verifyQuote" /\ step' = "save"
  BY <1>1 DEF AfterTcbInfo, AfterQeIdentity
<1>3. \A f \in Files : ReadAs(f)' = ReadAs(f)
  BY <1>1 DEF ReadAs
<1>4. PckRead'
  BY <1>2, <1>3 DEF AsItStands, PckRead, Files, CrlFiles
<1>5. CrlUnread' /\ OptionalSteps'
  BY <1>1, <1>2 DEF CrlUnread, OptionalSteps
<1>6. RestRead'
  BY <1>1, <1>2, <1>3 DEF AsItStands, RestRead, Files, CrlFiles
<1>7. FailedRightly'
  <2>1. \A v \in failed' : v \in failed \/ v = step
    BY <1>1
  <2>2. /\ failed \subseteq Verifications
        /\ step \in Verifications
        /\ step = "verifyQeIdentity" => options.qeIdentity
        /\ step = "verifyQveIdentity" => options.qveIdentity
    BY <1>1 DEF AsItStands, FailedRightly, OptionalSteps, Verifications
  <2>3. /\ step = "verifyPCKCertificate" /\ step \in failed' => step \in failed \/ ~PckOk
        /\ step = "verifyTCBInfo" /\ step \in failed' => step \in failed \/ ~TcbOk
        /\ step = "verifyQeIdentity" /\ step \in failed' => step \in failed \/ ~QeOk
        /\ step = "verifyQveIdentity" /\ step \in failed' => step \in failed \/ ~QveOk
        /\ step = "verifyQuote" /\ step \in failed' => step \in failed \/ ~JudgedOk
    BY <1>1
  <2>4. failed' \subseteq Verifications
    BY <2>1, <2>2
  <2>5. /\ "verifyPCKCertificate" \in failed' => ~PckOk
        /\ "verifyTCBInfo" \in failed' => ~TcbOk
        /\ "verifyQeIdentity" \in failed' => options.qeIdentity /\ ~QeOk
        /\ "verifyQveIdentity" \in failed' => options.qveIdentity /\ ~QveOk
        /\ "verifyQuote" \in failed' => ~JudgedOk
    BY <2>1, <2>2, <2>3 DEF AsItStands, FailedRightly
  <2>. QED BY <1>1, <2>4, <2>5, SameFiles DEF FailedRightly
<1>8. PassedRightly'
  <2>1. PassedRightly
    BY DEF AsItStands
  <2>2. /\ failed \subseteq failed'
        /\ step = "verifyPCKCertificate" => "verifyPCKCertificate" \in failed' \/ PckOk
        /\ step = "verifyTCBInfo" => "verifyTCBInfo" \in failed' \/ TcbOk
        /\ step = "verifyQeIdentity" => "verifyQeIdentity" \in failed' \/ QeOk
        /\ step = "verifyQveIdentity" => "verifyQveIdentity" \in failed' \/ QveOk
        /\ step = "verifyQuote" => "verifyQuote" \in failed' \/ JudgedOk
    BY <1>1
  <2>. QED BY <1>1, <1>2, <2>1, <2>2, SameFiles DEF PassedRightly
<1>9. Answer'
  BY <1>1, <1>2 DEF IInv, StepsInv, Answer
<1>. QED BY <1>4, <1>5, <1>6, <1>7, <1>8, <1>9 DEF AsItStands

\* The info is saved, or there is nothing where it was asked for.
LEMMA SaveAsItStands == IInv /\ AsItStands /\ SaveCollateralInfo => AsItStands'
<1>. SUFFICES ASSUME IInv, AsItStands, SaveCollateralInfo PROVE AsItStands'
  OBVIOUS
<1>1. step = "save" /\ UNCHANGED <<files, options, read, failed, judged>>
  BY DEF SaveCollateralInfo
<1>2. CASE step' = "status" /\ UNCHANGED result
  <2>1. \A f \in Files : ReadAs(f)' = ReadAs(f)
    BY <1>1 DEF ReadAs
  <2>2. PckRead' /\ RestRead'
    BY <1>1, <1>2, <2>1 DEF AsItStands, PckRead, RestRead, Files, CrlFiles,
       PckSteps, TcbSteps, QeSteps, QuoteSteps, EndSteps, AfterTcb, AfterPck
  <2>3. CrlUnread' /\ OptionalSteps'
    BY <1>2 DEF CrlUnread, OptionalSteps, QeSteps
  <2>4. FailedRightly' /\ PassedRightly'
    BY <1>1, <1>2, SameFiles DEF AsItStands, FailedRightly, PassedRightly,
       PckSteps, TcbSteps, QeSteps, QuoteSteps, EndSteps, AfterTcb, AfterPck
  <2>5. Answer'
    BY <1>1, <1>2 DEF IInv, StepsInv, Answer
  <2>. QED BY <2>2, <2>3, <2>4, <2>5 DEF AsItStands
<1>3. CASE CollateralInfoToSave # {} /\ Return("FALSE") /\ UNCHANGED saved
  <2>1. options.verCollInfo
    BY <1>3 DEF CollateralInfoToSave
  <2>2. saved = {}
    BY <1>1 DEF IInv, SavedInv
  <2>. QED BY <1>1, <1>3, <2>1, <2>2, ReturnsAsItStands DEF Return
<1>. QED BY <1>2, <1>3 DEF SaveCollateralInfo

\* The verdict on what has been read is the one on the files.
LEMMA ReturnResultAsItStands == IInv /\ AsItStands /\ ReturnResult => AsItStands'
<1>. SUFFICES ASSUME IInv, AsItStands, ReturnResult PROVE AsItStands'
  OBVIOUS
<1>. USE DEF PckSteps, TcbSteps, QeSteps, QuoteSteps, EndSteps, AfterTcb, AfterPck
<1>1. /\ step = "status" /\ step' = "returned"
      /\ result' = IF failed = {} THEN "TRUE" ELSE "FALSE"
      /\ UNCHANGED <<files, options, read, failed, judged, saved>>
  BY DEF ReturnResult, Return
<1>2. CASE failed # {}
  <2>1. ~FilesAcceptable
    BY <1>2 DEF AsItStands, FailedRightly, Verifications, FilesAcceptable, PckOk, TcbOk, QeOk,
       QveOk, JudgedOk
  <2>. QED BY <1>1, <1>2, <2>1, ReturnsAsItStands
<1>3. CASE failed = {}
  <2>1. \A f \in NamedFiles : files[f] # Missing
    <3>. SUFFICES ASSUME NEW f \in NamedFiles PROVE ReadAs(f)
      BY DEF ReadAs
    <3>1. /\ f \in Files
          /\ f = "qeIdentity" => options.qeIdentity
          /\ f = "qveIdentity" => options.qveIdentity
      BY DEF NamedFiles
    <3>. QED BY <1>1, <3>1 DEF AsItStands, PckRead, RestRead, Files, CrlFiles
  <2>2. /\ PckOk /\ TcbOk /\ JudgedOk
        /\ options.qeIdentity => QeOk
        /\ options.qveIdentity => QveOk
    BY <1>1, <1>3 DEF AsItStands, PassedRightly
  <2>3. FilesAcceptable
    BY <2>1, <2>2 DEF FilesAcceptable, PckOk, TcbOk, QeOk, QveOk, JudgedOk
  <2>4. Answer'
    BY <1>1, <1>3, <2>3, SameFiles DEF Answer
  <2>5. FailedRightly'
    BY <1>1, SameFiles DEF AsItStands, FailedRightly
  <2>6. PckRead' /\ CrlUnread' /\ RestRead' /\ OptionalSteps' /\ PassedRightly'
    BY <1>1 DEF PckRead, CrlUnread, RestRead, OptionalSteps, PassedRightly
  <2>. QED BY <2>4, <2>5, <2>6 DEF AsItStands
<1>. QED BY <1>2, <1>3

\* No step of runVerification replaces a file; all others that do so count it.
LEMMA RunUndisturbed == IInv /\ UndisturbedInv /\ RunVerification => UndisturbedInv'
<1>. SUFFICES ASSUME IInv, UndisturbedInv, RunVerification PROVE UndisturbedInv'
  OBVIOUS
<1>1. UNCHANGED replacements /\ step # "parse" /\ step' # "parse"
  BY DEF RunVerification, ReadFile, ReadCrlAgain, VerifyPCKCertificate, VerifyTCBInfo,
     VerifyQeIdentity, VerifyQveIdentity, VerifyQuote, Verify, EcallFails, SaveCollateralInfo,
     ReturnResult, Return, AfterRead, NextStep, NextCrlStep, SecondRead, AfterTcbInfo,
     AfterQeIdentity, Files, CrlFiles
<1>2. ASSUME replacements = 0 PROVE AsItStands'
  <2>. AsItStands
    BY <1>2 DEF UndisturbedInv
  <2>1. CASE EcallFails
    BY <2>1, ReturnsAsItStands DEF EcallFails
  <2>. QED BY <2>1, ReadFileAsItStands, ReadCrlAgainAsItStands, VerifyAsItStands, SaveAsItStands,
              ReturnResultAsItStands DEF RunVerification
<1>. QED BY <1>1, <1>2 DEF UndisturbedInv

\* Who replaces a file counts it.
LEMMA ReplaceDisturbs == UndisturbedInv /\ ReplaceFile => UndisturbedInv'
  BY DEF UndisturbedInv, ReplaceFile

\* What happens before runVerification is called, and a step of somebody else.
LEMMA OthersUndisturbed ==
    ASSUME IInv, UndisturbedInv,
           CallRunVerification \/ ReturnAtOnce \/ EnclaveFails \/ UNCHANGED vars
    PROVE  UndisturbedInv'
<1>1. UNCHANGED replacements
  BY DEF CallRunVerification, ReturnAtOnce, EnclaveFails, vars
<1>2. CASE CallRunVerification
  <2>1. /\ step' = "pckCert" /\ failed' = {} /\ result' = "none"
    BY <1>2 DEF CallRunVerification, UndisturbedInv, IInv, StepsInv
  <2>2. AsItStands'
    BY <2>1 DEF AsItStands, PckRead, CrlUnread, RestRead, OptionalSteps, FailedRightly,
       PassedRightly, Answer, PckSteps, TcbSteps, QeSteps, QuoteSteps, EndSteps, AfterTcb, AfterPck
  <2>. QED BY <1>1, <2>1, <2>2 DEF UndisturbedInv
<1>3. CASE ReturnAtOnce \/ EnclaveFails
  <2>1. /\ step' = "returned" /\ result' = "terminated"
        /\ UNCHANGED <<files, options, read, failed, judged, saved>>
    BY <1>3 DEF ReturnAtOnce, EnclaveFails, Return
  <2>. QED BY <1>1, <2>1, ReturnsAsItStands DEF UndisturbedInv
<1>4. CASE UNCHANGED vars
  <2>1. UNCHANGED <<files, options, step, read, failed, saved, result>>
    BY <1>4 DEF vars
  <2>2. ASSUME AsItStands PROVE AsItStands'
    <3>1. \A f : ReadAs(f)' = ReadAs(f)
      BY <2>1 DEF ReadAs
    <3>2. PckRead' /\ CrlUnread' /\ RestRead' /\ OptionalSteps'
      BY <2>1, <2>2, <3>1 DEF AsItStands, PckRead, CrlUnread, RestRead, OptionalSteps
    <3>3. FailedRightly' /\ PassedRightly' /\ Answer'
      BY <2>1, <2>2, SameFiles DEF AsItStands, FailedRightly, PassedRightly, Answer
    <3>. QED BY <3>2, <3>3 DEF AsItStands
  <2>. QED BY <1>1, <2>1, <2>2 DEF UndisturbedInv
<1>. QED BY <1>2, <1>3, <1>4

\* main starts with nothing read and nothing said.
LEMMA UndisturbedInit == MainInit => UndisturbedInv
  BY DEF MainInit, UndisturbedInv, AsItStands, PckRead, CrlUnread, RestRead, OptionalSteps,
     FailedRightly, PassedRightly, Answer, PckSteps, TcbSteps, QeSteps, QuoteSteps, EndSteps,
     AfterTcb, AfterPck

\* While nobody touches the files, AppCore::runVerification, which reads them one by one and a
\* CRL twice if it is in DER form (AppCore.cpp:71-133), and hands them to five calls, answers
\* what is right of all of them together: for every content of the files and every command line.
THEOREM UndisturbedVerdictHolds == MainSpec => []UndisturbedVerdict
<1>1. IInv /\ UndisturbedInv /\ [MainNext]_mainVars => UndisturbedInv'
  BY RunUndisturbed, ReplaceDisturbs, OthersUndisturbed DEF MainNext, MainThread, mainVars
<1>2. UndisturbedInv => UndisturbedVerdict
  BY DEF UndisturbedInv, AsItStands, Answer, UndisturbedVerdict
<1>. QED BY MainInvariant, UndisturbedInit, <1>1, <1>2, PTL DEF MainSpec

\* "Verification results: true" (main.cpp:71), whatever the files hold, whenever and how often
\* they are replaced while AppCore::runVerification reads them one by one, and whatever the
\* command line: the evidence the quote was judged by is trusted and current.
THEOREM AcceptedMeansTrustedHolds == MainSpec => []AcceptedMeansTrusted
  BY MainInvariant, InvariantImplies, PTL

\* The file of the collateral info (AppCore.cpp:133-137) is about the evidence that was
\* judged, and is there when the quote was accepted and it was asked for.
THEOREM SavedInfoIsTheJudgedOneHolds == MainSpec => []SavedInfoIsTheJudgedOne
  BY MainInvariant, InvariantImplies, PTL
=============================================================================
