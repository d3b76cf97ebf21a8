--------------------------- MODULE TrustedCollateral ---------------------------
(***************************************************************************)
(* What it takes for a call's collateral to be trusted and to be current,  *)
(* independently of the way the code picks certificates out of a chain:    *)
(* some chain of trust runs from the trusted root through the certificates *)
(* given, in whatever order they were given, to the thing verified. Calls  *)
(* are the records of CollateralVerification.                              *)
(***************************************************************************)
EXTENDS CertificateChain

Certificates(c) == { c.chain[i] : i \in DOMAIN c.chain }

Parsed(c) ==
    /\ ~c.missingParameter
    /\ c.api # "PCKRevocationList" => c.time >= 0
    /\ \A cert \in Certificates(c) :
          cert.format = "ok" /\ (cert.info.subject = PCK_SUBJECT => cert.sgxFormat = "ok")
    /\ \A i \in DOMAIN c.crls : c.crls[i].parses
    /\ c.trustedRoot.format = "ok"
    /\ \A body \in c.body : body.format = "ok"

\* A root of the chain that is the trusted one.
IsTrustedRoot(c, root) ==
    /\ root.info.subject = ROOT_CA_SUBJECT
    /\ VerifyRootCACert(root)
    /\ SelfIssued(c.trustedRoot) /\ SameSignature(root, c.trustedRoot)

\* A CRL that really comes from the CA.
Genuine(crl, ca) ==
    crl.issuer = ca.info.subject /\ crl.signedBy = ca.info.key /\ crl.hasRequiredExtensions

PckChain(c) ==
    { path \in Certificates(c) \X Certificates(c) \X Certificates(c) :
        LET root == path[1]  ca == path[2]  pck == path[3]
        IN  /\ Certificates(c) = { root, ca, pck }
            /\ IsTrustedRoot(c, root)
            /\ IssuedBy(ca, root) /\ IssuedBy(pck, ca)
            /\ ~SelfIssued(ca)
            /\ CommonNameContains(ca.info.subject, SGX_INTERMEDIATE_CN_PHRASE)
            /\ CommonNameContains(pck.info.subject, SGX_PCK_CN_PHRASE)
            /\ Genuine(c.crls[1], root) /\ Genuine(c.crls[2], ca)
            /\ ~IsRevoked(c.crls[1], ca) /\ ~IsRevoked(c.crls[2], pck) }

SigningChain(c) ==
    { path \in Certificates(c) \X Certificates(c) :
        LET root == path[1]  signing == path[2]
        IN  /\ Certificates(c) = { root, signing }
            /\ IsTrustedRoot(c, root)
            /\ IssuedBy(signing, root)
            /\ CommonNameContains(signing.info.subject, SGX_TCB_SIGNING_CN_PHRASE)
            /\ Genuine(c.crls[1], root) /\ ~IsRevoked(c.crls[1], signing)
            /\ \A body \in c.body : body.signedBy = signing.info.key }

CrlChain(c) ==
    { path \in Certificates(c) \X Certificates(c) :
        LET root == path[1]  ca == path[2]
        IN  /\ Certificates(c) = { root, ca } /\ Len(c.chain) = Cardinality({ root, ca })
            /\ IsTrustedRoot(c, root)
            /\ c.trustedRoot.info.subject = ROOT_CA_SUBJECT /\ VerifyRootCACert(c.trustedRoot)
            /\ \/ ca = root
               \/ /\ ca.info.subject \in { PLATFORM_CA_SUBJECT, PROCESSOR_CA_SUBJECT }
                  /\ IssuedBy(ca, root)
            /\ Genuine(c.crls[1], ca) }

Trusted(c) ==
    /\ Parsed(c)
    /\ CASE c.api = "PCKCertificate"    -> Len(c.chain) = 3 /\ PckChain(c) # {}
         [] c.api = "PCKRevocationList" -> CrlChain(c) # {}
         [] OTHER                       -> Len(c.chain) = 2 /\ SigningChain(c) # {}

\* Nothing the verdict rests on has expired, and no CRL is from the future.
Current(c) ==
    \/ c.api = "PCKRevocationList"
    \/ /\ \A cert \in Certificates(c) : c.time <= cert.info.notAfter
       /\ \A i \in DOMAIN c.crls : c.time \in c.crls[i].notBefore .. c.crls[i].notAfter
       /\ \A body \in c.body : c.time <= body.nextUpdate
===============================================================================
