----------------------------- MODULE MCCollateral -----------------------------
(***************************************************************************)
(* Calls for TLC. ChainCalls puts every short sequence over a small        *)
(* universe of certificates, genuine and not, into otherwise genuine       *)
(* calls; EvidenceCalls keeps the certificates genuine, in any order, and  *)
(* ranges over the CRLs, the document, the trusted root and the time.      *)
(***************************************************************************)
EXTENDS CollateralVerification

Certificate(subject, issuer, key, signer, serialNumber, notAfter) ==
    LET info == [ subject |-> subject, issuer |-> issuer, key |-> key,
                  serialNumber |-> serialNumber, notAfter |-> notAfter ]
    IN  [ format |-> "ok", sgxFormat |-> "ok", info |-> info,
          signature |-> SignatureOf(signer, info) ]

GoodRoot == Certificate(ROOT_CA_SUBJECT, ROOT_CA_SUBJECT, "root", "root", 1, 22)
GoodCa   == Certificate(PLATFORM_CA_SUBJECT, ROOT_CA_SUBJECT, "ca", "root", 2, 20)
GoodPck  == Certificate(PCK_SUBJECT, PLATFORM_CA_SUBJECT, "pck", "ca", 3, 18)
GoodSigning == Certificate(TCB_SUBJECT, ROOT_CA_SUBJECT, "signing", "root", 4, 19)

\* A root of the same name with a key of its own, and one that carries the
\* bytes of the genuine signature.
OtherRoot  == Certificate(ROOT_CA_SUBJECT, ROOT_CA_SUBJECT, "other", "other", 1, 22)
CopiedRoot == [ OtherRoot EXCEPT !.signature = GoodRoot.signature ]
StrangeRoot == Certificate(OtherCaSubject, OtherCaSubject, "other", "other", 5, 22)

OtherCa     == Certificate(PLATFORM_CA_SUBJECT, ROOT_CA_SUBJECT, "ca", "other", 2, 20)
ForeignCa   == Certificate(PLATFORM_CA_SUBJECT, OtherCaSubject, "ca", "other", 2, 20)
NamelessCa  == Certificate(OtherSubject, ROOT_CA_SUBJECT, "ca", "root", 2, 20)
OtherPck    == Certificate(PCK_SUBJECT, PLATFORM_CA_SUBJECT, "pck", "other", 3, 18)
RootPck     == Certificate(PCK_SUBJECT, ROOT_CA_SUBJECT, "pck", "root", 3, 18)
SelfPck     == Certificate(PCK_SUBJECT, PCK_SUBJECT, "pck", "pck", 3, 18)
NotSgxPck   == [ GoodPck EXCEPT !.sgxFormat = "InvalidExtensionException" ]
NoPem       == [ GoodPck EXCEPT !.format = "FormatException" ]
NoExtension == [ GoodCa EXCEPT !.format = "InvalidExtensionException" ]
OtherSigning == Certificate(TCB_SUBJECT, ROOT_CA_SUBJECT, "signing", "other", 4, 19)
ForeignSigning == Certificate(TCB_SUBJECT, OtherCaSubject, "signing", "other", 4, 19)

PckUniverse ==
    { GoodRoot, GoodCa, GoodPck, OtherRoot, CopiedRoot, StrangeRoot, OtherCa, ForeignCa,
      NamelessCa, OtherPck, RootPck, SelfPck, NotSgxPck, NoPem, NoExtension }

SigningUniverse ==
    { GoodRoot, GoodSigning, OtherRoot, CopiedRoot, StrangeRoot, OtherSigning, ForeignSigning,
      GoodCa, NoPem, NoExtension }

IssuerUniverse ==
    { GoodRoot, GoodCa, OtherRoot, CopiedRoot, OtherCa, NamelessCa, StrangeRoot, ForeignCa,
      GoodSigning, NoPem }

Tuples(S, lengths) == UNION { [ 1 .. n -> S ] : n \in lengths }

Crl(issuer, signer, revoked) ==
    [ parses |-> TRUE, issuer |-> issuer, signedBy |-> signer, revoked |-> revoked,
      hasRequiredExtensions |-> TRUE, notBefore |-> 5, notAfter |-> 25 ]

GoodRootCrl == Crl(ROOT_CA_SUBJECT, "root", { 9 })
GoodCaCrl   == Crl(PLATFORM_CA_SUBJECT, "ca", { 1 })

Spoiled(crl) ==
    { crl, [ crl EXCEPT !.parses = FALSE ], [ crl EXCEPT !.hasRequiredExtensions = FALSE ],
      [ crl EXCEPT !.signedBy = "other" ], [ crl EXCEPT !.issuer = PROCESSOR_CA_SUBJECT ],
      [ crl EXCEPT !.issuer = OtherCaSubject ],
      [ crl EXCEPT !.notAfter = 14 ], [ crl EXCEPT !.revoked = { 2 } ],
      [ crl EXCEPT !.revoked = { 3 } ], [ crl EXCEPT !.revoked = { 4 } ],
      [ crl EXCEPT !.revoked = { 3 }, !.signedBy = "other" ] }

Body(format, signer, nextUpdate) ==
    [ format |-> format, signedBy |-> signer, nextUpdate |-> nextUpdate ]

Call(api, time, chain, crls, trustedRoot, body) ==
    [ api |-> api, time |-> time, missingParameter |-> FALSE, chain |-> chain, crls |-> crls,
      trustedRoot |-> trustedRoot, body |-> body ]

BodyApis == { "TCBInfo", "EnclaveIdentity" }

GoodBody == Body("ok", "signing", 24)

ChainCalls ==
    { Call("PCKCertificate", 10, chain, << GoodRootCrl, GoodCaCrl >>, GoodRoot, {}) :
        chain \in Tuples(PckUniverse, 0 .. 3) }
    \union { Call("TCBInfo", 10, chain, << GoodRootCrl >>, GoodRoot, { GoodBody }) :
        chain \in Tuples(SigningUniverse, 0 .. 3) }
    \union { Call("PCKRevocationList", NoTime, chain, << crl >>, trustedRoot, {}) :
        chain \in Tuples(IssuerUniverse, 0 .. 2), crl \in { GoodRootCrl, GoodCaCrl },
        trustedRoot \in { GoodRoot, CopiedRoot, StrangeRoot } }

Orders(certs) == { s \in [ 1 .. Cardinality(certs) -> certs ] : \A c \in certs : \E i \in DOMAIN s : s[i] = c }

TrustedRoots == { GoodRoot, OtherRoot, StrangeRoot, GoodCa, NoPem, NoExtension }

Times == { NoTime, 4, 5, 14, 15, 18, 19, 20, 21, 24, 25, 26 }

EvidenceCalls ==
    { Call("PCKCertificate", time, chain, << rootCrl, caCrl >>, trustedRoot, {}) :
        time \in Times, chain \in Orders({ GoodRoot, GoodCa, GoodPck }) ,
        rootCrl \in { GoodRootCrl, [ GoodRootCrl EXCEPT !.notAfter = 14 ] },
        caCrl \in Spoiled(GoodCaCrl), trustedRoot \in { GoodRoot, OtherRoot } }
    \union { Call("PCKCertificate", 10, << GoodRoot, GoodCa, GoodPck >>, << rootCrl, caCrl >>,
                  trustedRoot, {}) :
        rootCrl \in Spoiled(GoodRootCrl), caCrl \in Spoiled(GoodCaCrl),
        trustedRoot \in TrustedRoots }
    \union { Call(api, time, chain, << crl >>, trustedRoot, { body }) :
        api \in BodyApis, time \in Times, chain \in Orders({ GoodRoot, GoodSigning }),
        crl \in Spoiled(GoodRootCrl), trustedRoot \in { GoodRoot, OtherRoot },
        body \in { GoodBody, Body("ok", "other", 24), Body("ok", "signing", 18) } }
    \union { Call(api, 10, << GoodRoot, GoodSigning >>, << GoodRootCrl >>, trustedRoot,
                  { Body(format, "signing", 24) }) :
        api \in BodyApis, trustedRoot \in TrustedRoots,
        format \in { "ok", "FormatException", "InvalidExtensionException" } }
    \union { Call("EnclaveIdentity", 10, << GoodRoot, GoodSigning >>, << GoodRootCrl >>, GoodRoot,
                  { Body("InvalidVersionException", "signing", 24) }) }
    \union { Call("PCKRevocationList", NoTime, chain, << crl >>, trustedRoot, {}) :
        chain \in Orders({ GoodRoot, GoodCa }), crl \in Spoiled(GoodCaCrl),
        trustedRoot \in TrustedRoots }
    \union { [ Call(api, 10, << GoodRoot >>, << GoodRootCrl >>, GoodRoot, { GoodBody })
                 EXCEPT !.missingParameter = TRUE ] :
        api \in BodyApis \union { "PCKCertificate", "PCKRevocationList" } }

\* Named once more, so that TLC computes the set once.
AllCalls == ChainCalls \union EvidenceCalls
CollateralCalls == AllCalls
===============================================================================
