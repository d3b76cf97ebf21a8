---------------------------- MODULE AttestationApp ----------------------------
(***************************************************************************)
(* The sample application (AppCore.cpp, FileReader.cpp,                    *)
(* AttestationLibraryAdapter.cpp, EnclaveAdapter.cpp): it reads collateral *)
(* and quote from files, one read at a time, and calls the library, which  *)
(* keeps no state, once per piece of collateral and once for the quote.    *)
(* Nothing locks the files: whoever downloads collateral may replace or    *)
(* delete any of them between two reads. That the evidence of one verdict  *)
(* hangs together is up to the application alone: the library's            *)
(* verifyQuote looks neither at the signature of the TCB info, nor at that *)
(* of the CRL or the identity.                                             *)
(***************************************************************************)
EXTENDS TrustedCollateral

CONSTANTS
    Starts,           \* files as they may be when the application starts
    Contents,         \* file -> what it may be replaced with
    Options,          \* the command lines
    Enclave,          \* built to call the library inside an enclave (SGX_TRUSTED)
    MaxReplacements,  \* bound on the replacements of files during a run
    Missing           \* a file that cannot be opened

CrlFiles == { "rootCaCrl", "intermediateCaCrl" }

Files ==
    CrlFiles \union { "pckCert", "pckSigningChain", "trustedRootCACert", "tcbInfo",
                      "tcbSigningCert", "qeIdentity", "qveIdentity", "quote" }

ChainFiles == { "pckCert", "pckSigningChain", "tcbSigningCert" }

\* What can be read from a file of certificates.
IsChain(chain) ==
    /\ chain \in Seq({ chain[i] : i \in DOMAIN chain })
    /\ \A i \in DOMAIN chain : chain[i].info.subject \in DOMAIN CommonNamePhrases

\* And from a file of a CRL: what parses does so as PEM or as DER.
IsCrl(crl) ==
    /\ crl = [ field \in DOMAIN crl |-> crl[field] ]
    /\ { "parses", "encoding" } \subseteq DOMAIN crl
    /\ crl.parses \in BOOLEAN
    /\ crl.parses => crl.encoding \in { "PEM", "DER" }

IsContent(file, content) ==
    \/ content = Missing
    \/ (file \in ChainFiles => IsChain(content)) /\ (file \in CrlFiles => IsCrl(content))

ASSUME ContentsAssumption ==
    /\ \A start \in Starts :
          DOMAIN start = Files /\ \A file \in Files : IsContent(file, start[file])
    /\ \A file \in Files : \A content \in Contents[file] : IsContent(file, content)

ASSUME OptionsAssumption == \A o \in Options : o.qeIdentity \in BOOLEAN

VARIABLES
    files,         \* file -> contents
    options,       \* AppOptions: which optional files are named, expirationDate
    step,          \* where runVerification is
    read,          \* file -> contents as read, Missing before
    failed,        \* the verifications whose status is not STATUS_OK
    judged,        \* the arguments of verifyQuote, when it was called
    saved,         \* what the file of the verification collateral info is about
    result,        \* "none", TRUE or FALSE as a string, or "terminated"
    replacements

vars == <<files, options, step, read, failed, judged, saved, result, replacements>>

(***************************************************************************)
(* Arguments of the library's calls, from the contents f of the files.     *)
(***************************************************************************)
Arguments(f, api, chain, crls, body) ==
    [ api |-> api, time |-> options.expirationDate, missingParameter |-> FALSE,
      chain |-> chain, crls |-> crls, trustedRoot |-> f.trustedRootCACert, body |-> body ]

\* One string: the signing chain, then the certificate.
PckArguments(f) ==
    Arguments(f, "PCKCertificate", f.pckSigningChain \o f.pckCert,
              << f.rootCaCrl, f.intermediateCaCrl >>, {})

TcbInfoArguments(f) ==
    Arguments(f, "TCBInfo", f.tcbSigningCert, << f.rootCaCrl >>, { f.tcbInfo })

IdentityArguments(f, identity) ==
    Arguments(f, "EnclaveIdentity", f.tcbSigningCert, << f.rootCaCrl >>, { identity })

\* No identity and an empty one are both passed as a null pointer.
IdentityPassed(f) ==
    IF ~options.qeIdentity THEN {}
    ELSE { identity \in { f.qeIdentity } : identity.format # "empty" }

\* Fault: TCB info is read again for the quote.
QuoteArguments_Reread(f) ==
    [ quote |-> f.quote, pckCert |-> f.pckCert, crl |-> f.intermediateCaCrl,
      tcbInfo |-> IF files.tcbInfo = Missing THEN f.tcbInfo ELSE files.tcbInfo,
      qeIdentity |-> IdentityPassed(f) ]

QuoteArguments(f) ==
    [ quote |-> f.quote, pckCert |-> f.pckCert, crl |-> f.intermediateCaCrl,
      tcbInfo |-> f.tcbInfo, qeIdentity |-> IdentityPassed(f) ]

(***************************************************************************)
(* The library's answers.                                                  *)
(***************************************************************************)
CollateralOk(c) == Trusted(c) /\ Current(c)

\* verifyQuote rates the platform: the first certificate given is the PCK
\* certificate, whatever follows it.
Rated(q) ==
    /\ q.quote.parses
    /\ q.crl.parses
    /\ q.tcbInfo.format = "ok"
    /\ \A identity \in q.qeIdentity : identity.format = "ok"
    /\ q.pckCert # << >>
    /\ LET pck == Head(q.pckCert)
       IN  /\ pck.format = "ok" /\ pck.sgxFormat = "ok"
           /\ CommonNameContains(pck.info.subject, SGX_PCK_CN_PHRASE)
           /\ CommonNameContains(q.crl.issuer, SGX_INTERMEDIATE_CN_PHRASE)
           /\ q.crl.issuer = pck.info.issuer
           /\ ~IsRevoked(q.crl, pck)
           /\ q.tcbInfo.fmspc = pck.info.fmspc
           /\ q.quote.signedBy = pck.info.key
    /\ \A identity \in q.qeIdentity : identity.enclave = q.quote.qe

QuoteOk(q) == Rated(q) /\ q.tcbInfo.upToDate

(***************************************************************************)
(* runVerification.                                                        *)
(***************************************************************************)
NothingRead == [ f \in Files |-> Missing ]

Init ==
    /\ files \in Starts
    /\ options \in Options
    /\ step = "pckCert"
    /\ read = NothingRead
    /\ failed = {}
    /\ judged = {}
    /\ saved = {}
    /\ result = "none"
    /\ replacements = 0

Return(value) == step' = "returned" /\ result' = value

NextCrlStep == [ rootCaCrl |-> "intermediateCaCrl", intermediateCaCrl |-> "trustedRootCACert" ]

SecondRead == [ rootCaCrl |-> "rootCaCrlAgain", intermediateCaCrl |-> "intermediateCaCrlAgain" ]

NextStep ==
    [ pckCert           |-> "pckSigningChain",
      pckSigningChain   |-> "rootCaCrl",
      trustedRootCACert |-> "verifyPCKCertificate",
      tcbInfo           |-> "tcbSigningCert",
      tcbSigningCert    |-> "verifyTCBInfo",
      qeIdentity        |-> "verifyQeIdentity",
      qveIdentity       |-> "verifyQveIdentity",
      quote             |-> "verifyQuote" ]

\* Fault: a CRL that is not in PEM form is read again until it is.
AfterRead_UntilPem(file) ==
    IF file \in CrlFiles
    THEN IF files[file].encoding = "PEM" THEN NextCrlStep[file] ELSE file
    ELSE NextStep[file]

\* Fault: a CRL in DER form is passed on as it is.
AfterRead_Unconverted(file) ==
    IF file \in CrlFiles THEN NextCrlStep[file] ELSE NextStep[file]

AfterRead(file) ==
    IF file \in CrlFiles
    THEN IF files[file].encoding = "PEM" THEN NextCrlStep[file] ELSE SecondRead[file]
    ELSE NextStep[file]

\* What the library makes of a CRL given as text, and of one given as the
\* hexadecimal form of the file's bytes.
CrlGivenAs(encoding, crl) == [ crl EXCEPT !.parses = @ /\ crl.encoding = encoding ]

\* readContent. A file that cannot be opened is the end: ReadFileException.
ReadFile ==
    \E file \in Files :
        /\ step = file
        /\ IF files[file] = Missing
           THEN Return("FALSE") /\ UNCHANGED read
           ELSE /\ read' = [ read EXCEPT ![file] =
                               IF file \in CrlFiles THEN CrlGivenAs("PEM", files[file])
                                                    ELSE files[file] ]
                /\ step' = AfterRead(file)
                /\ UNCHANGED result
        /\ UNCHANGED <<files, options, failed, judged, saved, replacements>>

\* readBinaryContent of a CRL that did not start like PEM when it was read.
\* If it has become PEM by now, its hexadecimal form is no CRL.
ReadCrlAgain ==
    \E file \in CrlFiles :
        /\ step = SecondRead[file]
        /\ IF files[file] = Missing
           THEN Return("FALSE") /\ UNCHANGED read
           ELSE /\ read' = [ read EXCEPT ![file] = CrlGivenAs("DER", files[file]) ]
                /\ step' = NextCrlStep[file]
                /\ UNCHANGED result
        /\ UNCHANGED <<files, options, failed, judged, saved, replacements>>

Verify(here, ok, next) ==
    /\ step = here
    /\ failed' = IF ok THEN failed ELSE failed \union { here }
    /\ step' = next
    /\ UNCHANGED <<files, options, read, saved, result, replacements>>

VerifyPCKCertificate ==
    Verify("verifyPCKCertificate", CollateralOk(PckArguments(read)), "tcbInfo") /\ UNCHANGED judged

AfterQeIdentity == IF options.qveIdentity THEN "qveIdentity" ELSE "quote"

AfterTcbInfo == IF options.qeIdentity THEN "qeIdentity" ELSE AfterQeIdentity

VerifyTCBInfo ==
    Verify("verifyTCBInfo", CollateralOk(TcbInfoArguments(read)), AfterTcbInfo) /\ UNCHANGED judged

VerifyQeIdentity ==
    /\ Verify("verifyQeIdentity", CollateralOk(IdentityArguments(read, read.qeIdentity)),
              AfterQeIdentity)
    /\ UNCHANGED judged

VerifyQveIdentity ==
    /\ Verify("verifyQveIdentity", CollateralOk(IdentityArguments(read, read.qveIdentity)), "quote")
    /\ UNCHANGED judged

VerifyQuote ==
    /\ Verify("verifyQuote", QuoteOk(QuoteArguments(read)), "save")
    /\ judged' = { QuoteArguments(read) }

\* An ecall that fails throws std::runtime_error, which nobody catches.
EcallFails ==
    /\ Enclave
    /\ step \in { "verifyPCKCertificate", "verifyTCBInfo", "verifyQeIdentity",
                  "verifyQveIdentity", "verifyQuote" }
    /\ step' = "returned" /\ result' = "terminated"
    /\ UNCHANGED <<files, options, read, failed, judged, saved, replacements>>

\* Fault: the buffer is saved as it is, filled or not.
CollateralInfoToSave_Unfilled == IF options.verCollInfo THEN judged ELSE {}

\* The info is saved whenever the quote was rated, with collateral that
\* failed its own verification too.
CollateralInfoToSave ==
    IF options.verCollInfo THEN { q \in judged : Rated(q) } ELSE {}

SaveCollateralInfo ==
    /\ step = "save"
    /\ \/ /\ saved' = CollateralInfoToSave
          /\ step' = "status" /\ UNCHANGED result
       \/ /\ CollateralInfoToSave # {}      \* the file cannot be opened
          /\ Return("FALSE") /\ UNCHANGED saved
    /\ UNCHANGED <<files, options, read, failed, judged, replacements>>

ReturnResult ==
    /\ step = "status"
    /\ Return(IF failed = {} THEN "TRUE" ELSE "FALSE")
    /\ UNCHANGED <<files, options, read, failed, judged, saved, replacements>>

RunVerification ==
    \/ ReadFile \/ ReadCrlAgain
    \/ VerifyPCKCertificate \/ VerifyTCBInfo \/ VerifyQeIdentity \/ VerifyQveIdentity
    \/ VerifyQuote \/ EcallFails
    \/ SaveCollateralInfo \/ ReturnResult

(***************************************************************************)
(* The environment.                                                        *)
(***************************************************************************)
ReplaceFile ==
    /\ step # "returned"
    /\ replacements < MaxReplacements
    /\ \E file \in Files : \E content \in Contents[file] :
          /\ content # files[file]
          /\ files' = [ files EXCEPT ![file] = content ]
    /\ replacements' = replacements + 1
    /\ UNCHANGED <<options, step, read, failed, judged, saved, result>>

Next == RunVerification \/ ReplaceFile

\* The application is one thread that blocks on nothing.
Spec == Init /\ [][Next]_vars /\ WF_vars(RunVerification)

(***************************************************************************)
(* Properties.                                                             *)
(***************************************************************************)
Verifications ==
    { "verifyPCKCertificate", "verifyTCBInfo", "verifyQeIdentity", "verifyQveIdentity",
      "verifyQuote" }

Steps ==
    Files \union Verifications
          \union { "rootCaCrlAgain", "intermediateCaCrlAgain", "save", "status", "returned" }

\* Types of the variables of AppCore::runVerification, and what ends it: an
\* answer is given exactly when it has returned.
TypeOK ==
    /\ options \in Options
    /\ step \in Steps
    /\ DOMAIN files = Files /\ DOMAIN read = Files
    /\ failed \subseteq Verifications
    /\ Cardinality(judged) <= 1
    /\ saved \subseteq judged
    /\ result \in { "none", "TRUE", "FALSE", "terminated" }
    /\ result = "none" <=> step # "returned"
    /\ replacements \in 0 .. MaxReplacements

\* "Verification results: true" (main.cpp) means, whatever happened to the
\* files in the meantime, that the very evidence the quote was judged by is
\* trusted and current: the PCK certificate ends a chain from the trusted
\* root and signed the quote's QE, the CRL it was looked up in is its
\* issuer's, the TCB info of its platform and the QE's identity, if one was
\* asked for, come from a signer under the same root.
AcceptedMeansTrusted ==
    result = "TRUE" =>
        \E q \in judged :
            /\ \E path \in PckChain(PckArguments(read)) :
                  /\ path[3] = Head(q.pckCert)
                  /\ path[3].info.key = q.quote.signedBy
                  /\ Genuine(q.crl, path[2])
                  /\ ~IsRevoked(q.crl, path[3])
                  /\ q.tcbInfo.fmspc = path[3].info.fmspc
                  /\ options.expirationDate <= path[3].info.notAfter
            /\ \E path \in SigningChain(TcbInfoArguments(read)) :
                  \A document \in { q.tcbInfo } \union q.qeIdentity :
                      /\ document.signedBy = path[2].info.key
                      /\ options.expirationDate <= document.nextUpdate
            /\ \A identity \in q.qeIdentity : identity.enclave = q.quote.qe
            /\ options.qeIdentity => q.qeIdentity # {}

\* The file of the verification collateral info is written for a rated quote
\* only, is about the evidence it was judged by, and is not missing after a
\* quote was accepted with the option given.
SavedInfoIsTheJudgedOne ==
    /\ \A q \in saved : q \in judged /\ Rated(q)
    /\ result = "TRUE" /\ options.verCollInfo => saved = judged

\* The evidence of the files as they are.
NamedFiles ==
    Files \ ((IF options.qeIdentity THEN {} ELSE { "qeIdentity" }) \union
             (IF options.qveIdentity THEN {} ELSE { "qveIdentity" }))

FilesAcceptable ==
    /\ \A file \in NamedFiles : files[file] # Missing
    /\ CollateralOk(PckArguments(files))
    /\ CollateralOk(TcbInfoArguments(files))
    /\ options.qeIdentity => CollateralOk(IdentityArguments(files, files.qeIdentity))
    /\ options.qveIdentity => CollateralOk(IdentityArguments(files, files.qveIdentity))
    /\ QuoteOk(QuoteArguments(files))

\* As long as nobody touches the files, reading them piece by piece, and the
\* CRLs twice if they are in DER form, gives the verdict on the files as they
\* are: only a file of the collateral info that cannot be written turns an
\* acceptance into a failure.
UndisturbedVerdict ==
    replacements = 0 =>
        /\ result = "TRUE" => FilesAcceptable
        /\ result = "FALSE" => ~FilesAcceptable \/ (options.verCollInfo /\ saved = {})

\* runVerification returns, or the process ends, on all files and under all
\* replacements of them.
EventuallyReturns == <>(result # "none")
===============================================================================
