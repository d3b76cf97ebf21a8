--------------------------- MODULE MCAttestationApp ---------------------------
(***************************************************************************)
(* Two generations of collateral and a few spoiled files. A run starts on  *)
(* the files of either generation, or on these with one file spoiled, and  *)
(* any file may be replaced while the application is at work.              *)
(***************************************************************************)
EXTENDS Main

Certificate(subject, issuer, key, signer, serialNumber) ==
    LET info == [ subject |-> subject, issuer |-> issuer, key |-> key, fmspc |-> "here",
                  serialNumber |-> serialNumber, notAfter |-> 20 ]
    IN  [ format |-> "ok", sgxFormat |-> "ok", info |-> info,
          signature |-> SignatureOf(signer, info) ]

GoodRoot    == Certificate(ROOT_CA_SUBJECT, ROOT_CA_SUBJECT, "root", "root", 1)
OtherRoot   == Certificate(ROOT_CA_SUBJECT, ROOT_CA_SUBJECT, "other", "other", 1)
GoodCa      == Certificate(PLATFORM_CA_SUBJECT, ROOT_CA_SUBJECT, "ca", "root", 2)
GoodPck     == Certificate(PCK_SUBJECT, PLATFORM_CA_SUBJECT, "pck", "ca", 3)
NewPck      == Certificate(PCK_SUBJECT, PLATFORM_CA_SUBJECT, "new", "ca", 4)
GoodSigning == Certificate(TCB_SUBJECT, ROOT_CA_SUBJECT, "signing", "root", 5)

Crl(encoding, issuer, signer, revoked, notAfter) ==
    [ parses |-> TRUE, encoding |-> encoding, issuer |-> issuer, signedBy |-> signer,
      revoked |-> revoked, hasRequiredExtensions |-> TRUE, notBefore |-> 5,
      notAfter |-> notAfter ]

CaCrl(encoding, revoked) == Crl(encoding, PLATFORM_CA_SUBJECT, "ca", revoked, 25)

TcbInfo(signer, nextUpdate, upToDate) ==
    [ format |-> "ok", signedBy |-> signer, nextUpdate |-> nextUpdate, fmspc |-> "here",
      upToDate |-> upToDate ]

Identity(format, signer, enclave) ==
    [ format |-> format, signedBy |-> signer, nextUpdate |-> 24, enclave |-> enclave ]

Quote(signer) == [ parses |-> TRUE, signedBy |-> signer, qe |-> "qe" ]

OldFiles ==
    [ pckCert |-> << GoodPck >>, pckSigningChain |-> << GoodRoot, GoodCa >>,
      rootCaCrl |-> Crl("PEM", ROOT_CA_SUBJECT, "root", {}, 25),
      intermediateCaCrl |-> CaCrl("PEM", {}),
      trustedRootCACert |-> GoodRoot,
      tcbInfo |-> TcbInfo("signing", 24, TRUE), tcbSigningCert |-> << GoodRoot, GoodSigning >>,
      qeIdentity |-> Identity("ok", "signing", "qe"),
      qveIdentity |-> Identity("ok", "signing", "qve"),
      quote |-> Quote("pck") ]

\* The old PCK is revoked, the platform is out of date, CRLs come as DER.
NewFiles ==
    [ OldFiles EXCEPT
        !.pckCert = << NewPck >>,
        !.rootCaCrl = Crl("DER", ROOT_CA_SUBJECT, "root", {}, 25),
        !.intermediateCaCrl = CaCrl("DER", { 3 }),
        !.tcbInfo = TcbInfo("signing", 24, FALSE),
        !.quote = Quote("new") ]

Spoiled ==
    [ pckCert |-> { << GoodPck, GoodCa >>, << GoodCa, GoodPck >>, << >> },
      pckSigningChain |-> { << GoodRoot >>, << OtherRoot, GoodCa >> },
      rootCaCrl |-> { Crl("PEM", ROOT_CA_SUBJECT, "root", {}, 9) },
      intermediateCaCrl |-> { Crl("PEM", PLATFORM_CA_SUBJECT, "other", {}, 25) },
      trustedRootCACert |-> { OtherRoot },
      tcbInfo |-> { TcbInfo("other", 24, TRUE), TcbInfo("signing", 9, TRUE) },
      tcbSigningCert |-> { << OtherRoot, GoodSigning >> },
      qeIdentity |-> { Identity("ok", "other", "qe"), Identity("ok", "signing", "qve"),
                       Identity("empty", "signing", "qe") },
      qveIdentity |-> { Identity("FormatException", "signing", "qve") },
      quote |-> { [ Quote("pck") EXCEPT !.parses = FALSE ] } ]

McContents ==
    [ file \in Files |-> { OldFiles[file], NewFiles[file], Missing } \union Spoiled[file] ]

\* One file spoiled, with a content that is a spoiled form of that file.
McStarts ==
    UNION { UNION { { [ f EXCEPT ![file] = content ] : content \in McContents[file] }
                    : file \in Files }
            : f \in { OldFiles, NewFiles } }

McOptions ==
    [ qeIdentity : BOOLEAN, qveIdentity : BOOLEAN, verCollInfo : BOOLEAN,
      expirationDate : { 10 } ]

(***************************************************************************)
(* The table of AppOptionsParser.cpp: the pieces tell "pckSignChain" from  *)
(* "pckCert", "tcbSignChain" from "tcbInfo" and both from                  *)
(* "trustedRootCaCert", "qeIdentity" from "qveIdentity" and both from      *)
(* "quote". Three errors fit instead of twenty.                            *)
(***************************************************************************)
McLongopts ==
    << << "t", "rustedRootCaCert" >>, << "p", "ckSignChain" >>, << "p", "ckCert" >>,
       << "t", "cb", "SignChain" >>, << "t", "cb", "Info" >>,
       << "q", "eIdentity" >>, << "q", "ve", "Identity" >>,
       << "rootCaCrl" >>, << "intermediateCaCrl" >>, << "q", "uote" >>,
       << "verification", "CollateralInfo" >>, << "expirationDate" >>, << "h", "elp" >> >>

McDefaults ==
    [ o \in 1..12 |-> CASE o \in { 6, 7, 11 } -> << >> [] o = 12 -> << "10" >> [] OTHER -> << "default", "file" >> ]

McNumeral == [ n \in { "10", "0" } |-> 10 ]

\* Options as they are meant to be given, which the line may repeat.
McOptionWords ==
    { << "-", "-", "q", "eIdentity", "=", "f" >>, << "-", "-", "q", "ve", "=", "v" >>,
      << "-", "-", "verification", "=", "g" >>, << "-", "-", "expirationDate" >>,
      << "10", "f" >>, << "-", "-" >> }

\* Words of every other kind; some are good as arguments, too.
McWords ==
    McOptionWords \union
    { << "-", "-", "q", "eIdentity" >>, << "-", "-", "q", "eIdentity", "=" >>, << "-", "-", "q" >>,
      << "-", "-", "h" >>, << "-", "-", "h", "elp", "=", "f" >>, << "-", "h" >>,
      << "-", "h", "h" >>, << "-", "x", "h" >>, << "-", "h", "-" >>,
      << "-", "-", "none" >>, << "-" >>, << >>, << "f" >> }

ShortLines ==
    UNION { [ 1..n -> McWords ] : n \in 0..2 } \union [ 1..3 -> McOptionWords ]

\* Words that are options and words that are none, in every order.
MixedLines ==
    { [ i \in DOMAIN kinds |->
          CASE kinds[i] = "stray"    -> << "word", ToString(i) >>
            [] kinds[i] = "option"   -> << "-", "-" >> \o McLongopts[i] \o << "=", "f" >>
            [] kinds[i] = "argument" -> << "-", "-" >> \o McLongopts[i] ]
      : kinds \in UNION { [ 1..n -> { "stray", "option", "argument" } ] : n \in 4..5 } }

McLines == ShortLines \union MixedLines
===============================================================================
