------------------------- MODULE MCQuoteVerification -------------------------
(***************************************************************************)
(* Calls for TLC. A call is built from a specimen: a record that says of   *)
(* each part of the evidence how it is. FaultArgs starts from three        *)
(* genuine quotes (SGX version 3, TDX version 4, TD report 1.5 in version  *)
(* 5) and spoils up to two parts; AllArgs adds genuine evidence over the   *)
(* SVNs and statuses that decide the TCB verdict.                          *)
(***************************************************************************)
EXTENDS QuoteVerification, TLC

(***************************************************************************)
(* SVNs, and the TCB levels published for the platform.                    *)
(***************************************************************************)
Svns(a, b, c) == (0 :> a) @@ (1 :> b) @@ (2 :> c)

Level(sgx, tdx, pceSvn, levelStatus, date, advisories) ==
    [ sgx |-> sgx, tdx |-> tdx, pceSvn |-> pceSvn, status |-> levelStatus,
      tcbDate |-> date, advisoryIds |-> advisories ]

IdentityLevel(isvSvn, levelStatus, date, advisories) ==
    [ isvSvn |-> isvSvn, status |-> levelStatus, tcbDate |-> date,
      advisoryIds |-> advisories ]

(***************************************************************************)
(* The genuine specimen.                                                   *)
(***************************************************************************)
GoodQuote(kind) ==
    [ kind |-> kind, parameters |-> "given", buffer |-> "fits", quoteBytes |-> "good",
      certificationData |-> "good", pck |-> "good", crl |-> "good", tcbInfo |-> "good",
      qeIdentity |-> "good", seam |-> "good", qeReport |-> "good", attestKey |-> "good",
      quoteSignature |-> "good", platform |-> "current", advisories |-> {"SA-1"},
      levelStatus |-> "OutOfDate", topStatus |-> "UpToDate",
      qeStatus |-> "UpToDate", moduleStatus |-> "UpToDate",
      launchSvns |-> Svns(1, 1, 1), currentSvns |-> Svns(1, 1, 2) ]

Kinds == { "SGX", "TDX4", "TDX5" }

IsTdx(s) == s.kind # "SGX"

(***************************************************************************)
(* From a specimen to a call.                                              *)
(***************************************************************************)
QeReport(s) ==
    [ miscSelect |-> {}, attributes |-> { "INIT" }, mrSigner |-> "intel",
      isvProdId |-> 1, isvSvn |-> IF s.qeIdentity = "newer" THEN 1 ELSE 2,
      reportData |-> IF s.qeReport = "other-data" THEN Sha256("other-key", "auth")
                     ELSE Sha256(IF s.attestKey = "off-curve" THEN OffCurve ELSE "attest-key",
                                 "auth") ]

QuoteOf(s) ==
    LET attestKey == IF s.attestKey = "off-curve" THEN OffCurve ELSE "attest-key"
    IN  [ parses |-> s.quoteBytes = "good",
          version |-> CASE s.kind = "SGX" -> 3 [] s.kind = "TDX4" -> 4 [] s.kind = "TDX5" -> 5,
          teeType |-> IF IsTdx(s) THEN "TDX" ELSE "SGX",
          bodyType |-> CASE s.kind = "SGX" -> 1 [] s.kind = "TDX4" -> 2 [] s.kind = "TDX5" -> 3,
          teeTcbSvn  |-> IF IsTdx(s) THEN s.launchSvns ELSE Svns(0, 0, 0),
          teeTcbSvn2 |-> IF s.kind = "TDX5" THEN s.currentSvns ELSE Svns(0, 0, 0),
          mrSignerSeam |-> IF s.seam = "other-signer" THEN "other" ELSE "seam",
          seamAttributes |-> IF s.seam = "attributes" THEN { 0 } ELSE {},
          qeReport |-> QeReport(s),
          qeReportSignature |->
            Sign(CASE s.qeReport = "other-signer" -> "other-key"
                   [] s.pck = "off-curve"         -> OffCurve
                   [] OTHER                       -> "pck-key", QeReport(s)),
          attestKey |-> attestKey,
          qeAuthData |-> "auth",
          signedData |-> "header and body",
          quoteSignature |->
            Sign(IF s.quoteSignature = "other-key" THEN "other-key" ELSE attestKey,
                 IF s.quoteSignature = "other-data" THEN "other" ELSE "header and body"),
          certificationDataSizeMatches |-> s.certificationData = "good" ]

PckCertOf(s) ==
    [ format |-> CASE s.pck = "malformed"     -> "FormatException"
                   [] s.pck = "bad-extension" -> "InvalidExtensionException"
                   [] OTHER                   -> "ok",
      subjectIsPck |-> s.pck # "not-pck",
      issuer |-> "processor-ca",
      serialNumber |-> 7,
      fmspc |-> IF s.pck = "other-platform" THEN "other" ELSE "fmspc",
      pceId |-> IF s.pck = "other-pce" THEN "other" ELSE "pceid",
      pubKey |-> IF s.pck = "off-curve" THEN OffCurve ELSE "pck-key",
      tcb |-> CASE s.platform = "current"  -> [ sgx |-> Svns(1, 1, 0), pceSvn |-> 2 ]
                [] s.platform = "old"      -> [ sgx |-> Svns(1, 0, 0), pceSvn |-> 2 ]
                [] s.platform = "old-pce"  -> [ sgx |-> Svns(1, 1, 0), pceSvn |-> 1 ]
                [] s.platform = "unknown"  -> [ sgx |-> Svns(0, 1, 0), pceSvn |-> 2 ] ]

CrlOf(s) ==
    [ parses |-> s.crl # "malformed",
      issuerHasCA |-> s.crl # "no-ca",
      issuer |-> IF s.crl \in { "other-issuer", "other-issuer-revoking" } THEN "platform-ca" ELSE "processor-ca",
      revoked |-> IF s.crl \in { "revoking", "other-issuer-revoking" } THEN { 7 } ELSE {} ]

\* Two levels that neither dominates, between a top level and a floor.
LevelsOf(s) ==
    { Level(Svns(1, 1, 0), Svns(1, 0, 2), 2, s.topStatus, 40, {}),
      Level(Svns(1, 0, 0), Svns(0, 0, 1), 2, s.levelStatus, 30, s.advisories),
      Level(Svns(1, 0, 0), Svns(0, 1, 0), 1, "OutOfDate", 20, { "SA-2" }),
      Level(Svns(1, 0, 0), Svns(0, 0, 0), 1, "Revoked", 10, { "SA-3" }) }

SgxLevelsOf(s) == { l \in LevelsOf(s) : l.tdx # Svns(0, 1, 0) }

TcbInfoOf(s) ==
    LET tdx == IF s.tcbInfo \in { "other-tee", "version-2" } THEN ~IsTdx(s) ELSE IsTdx(s)
    IN  [ parses |-> s.tcbInfo # "malformed",
          version |-> IF s.tcbInfo = "version-2" THEN 2 ELSE 3,
          id |-> IF tdx /\ s.tcbInfo # "version-2" THEN "TDX" ELSE "SGX",
          fmspc |-> "fmspc", pceId |-> "pceid",
          levels |-> IF tdx /\ s.tcbInfo # "version-2" THEN LevelsOf(s) ELSE SgxLevelsOf(s),
          tdxModule |-> [ mrSigner |-> "seam", attributes |-> {} ],
          tdxModuleIdentities |->
            IF s.tcbInfo = "no-modules" THEN <<>>
            ELSE << [ version |-> 1, mrSigner |-> "seam",
                      attributes |-> IF s.seam = "attributes-expected" THEN { 0 } ELSE {},
                      levels |-> { IdentityLevel(2, "UpToDate", 50, {}),
                                   IdentityLevel(1, s.moduleStatus, 15, { "SA-4" }) } ],
                    [ version |-> 1, mrSigner |-> "other", attributes |-> {},
                      levels |-> { IdentityLevel(0, "UpToDate", 60, {}) } ] >>,
          issueDate |-> 100, nextUpdate |-> 130, tcbEvaluationDataNumber |-> 17 ]

QeIdentityOf(s) ==
    IF s.qeIdentity = "absent" THEN {}
    ELSE { [ parses |-> s.qeIdentity # "malformed",
             id |-> IF IsTdx(s) = (s.qeIdentity # "other-id") THEN "TD_QE" ELSE "QE",
             miscselect |-> IF s.qeIdentity = "other-misc" THEN { 1 } ELSE {},
             miscselectMask |-> { 1 },
             attributes |-> IF s.qeIdentity = "other-attributes" THEN { "DEBUG" } ELSE { "INIT" },
             attributesMask |-> { "INIT", "DEBUG" },
             mrSigner |-> CASE s.qeIdentity = "other-signer" -> "other"
                            [] s.qeIdentity = "no-signer"    -> NoMrSigner
                            [] OTHER                         -> "intel",
             isvProdId |-> IF s.qeIdentity = "other-product" THEN 2 ELSE 1,
             levels |-> { IdentityLevel(2, s.qeStatus, 25, { "SA-5" }),
                          IdentityLevel(2, "Revoked", 5, {}) },
             issueDate |-> 90, nextUpdate |-> 120, tcbEvaluationDataNumber |-> 18 ] }

CallOf(s) ==
    [ missingParameter |-> s.parameters = "missing",
      buffer |-> s.buffer,
      quote |-> QuoteOf(s),
      pckCert |-> PckCertOf(s),
      crl |-> CrlOf(s),
      tcbInfo |-> TcbInfoOf(s),
      qeIdentity |-> QeIdentityOf(s) ]

(***************************************************************************)
(* Spoiled specimens: up to two parts are not as they should be.           *)
(***************************************************************************)
Faults ==
    { <<"parameters", "missing">> }
    \union ({ "buffer" } \X { "null", "null-with-size", "too-small" })
    \union ({ "quoteBytes" } \X { "malformed" })
    \union ({ "certificationData" } \X { "other-size" })
    \union ({ "pck" } \X { "malformed", "bad-extension", "not-pck", "other-platform",
                           "other-pce", "off-curve" })
    \union ({ "crl" } \X { "malformed", "no-ca", "other-issuer", "revoking",
                           "other-issuer-revoking" })
    \union ({ "tcbInfo" } \X { "malformed", "version-2", "other-tee", "no-modules" })
    \union ({ "qeIdentity" } \X { "absent", "malformed", "other-id", "other-misc",
                                  "other-attributes", "other-signer", "no-signer",
                                  "other-product", "newer" })
    \union ({ "seam" } \X { "other-signer", "attributes", "attributes-expected" })
    \union ({ "qeReport" } \X { "other-signer", "other-data" })
    \union ({ "attestKey" } \X { "off-curve" })
    \union ({ "quoteSignature" } \X { "other-key", "other-data" })
    \union ({ "platform" } \X { "old", "unknown" })

Spoil(s, fault) == [ s EXCEPT ![fault[1]] = fault[2] ]

FaultSpecimens ==
    { Spoil(Spoil(GoodQuote(kind), f), g) : kind \in Kinds, f, g \in Faults }

FaultCalls == { CallOf(s) : s \in FaultSpecimens }

\* A name of its own, which TLC evaluates once and not at each use of Args.
FaultArgs == FaultCalls

(***************************************************************************)
(* Genuine specimens whose TCB varies, in what the kind of quote has.      *)
(***************************************************************************)
TcbSpecimens(kind, modules, launches, nows) ==
    { [ GoodQuote(kind) EXCEPT
          !.platform = platform, !.topStatus = top, !.levelStatus = level,
          !.qeIdentity = qe[1], !.qeStatus = qe[2], !.moduleStatus = module,
          !.launchSvns = launched, !.currentSvns = now, !.advisories = advisories ] :
        platform \in { "current", "old" },
        top \in { "UpToDate", "ConfigurationNeeded", "SWHardeningNeeded",
                  "ConfigurationAndSWHardeningNeeded" },
        level \in { "OutOfDate", "OutOfDateConfigurationNeeded", "SWHardeningNeeded" },
        qe \in ({ "good" } \X IdentityStatuses) \union { <<"absent", "UpToDate">> },
        module \in modules, launched \in launches, now \in nows,
        advisories \in { {}, { "SA-1" } } }

Modules  == { "OutOfDate", "Revoked", "Unknown" }
Launches == { Svns(0, 0, 1), Svns(1, 1, 0), Svns(1, 1, 2) }
Nows     == { Svns(1, 0, 2), Svns(2, 1, 2), Svns(0, 1, 2) }

AllCalls ==
    { CallOf(s) :
        s \in UNION { FaultSpecimens,
                      TcbSpecimens("SGX", { "Unknown" }, { Svns(0, 0, 1) }, { Svns(1, 0, 2) }),
                      TcbSpecimens("TDX4", Modules, Launches, { Svns(1, 0, 2) }),
                      TcbSpecimens("TDX5", Modules, Launches, Nows) } }

AllArgs == AllCalls
===============================================================================
