------------------------ MODULE EnclaveReportVerifier ------------------------
(***************************************************************************)
(* Verifiers/EnclaveReportVerifier.cpp: an enclave report checked against  *)
(* an Enclave Identity. It is reached from QuoteVerifier (for the QE       *)
(* report) and from sgxAttestationVerifyEnclaveReport (for the QvE).       *)
(*                                                                         *)
(* MISCSELECT and ATTRIBUTES are bit vectors; a bit vector is the set of   *)
(* the positions of its ones, so that "a & mask" is a \intersect mask.     *)
(***************************************************************************)
EXTENDS TcbEvaluation

MiscSelectMatches(identity, report) ==
    report.miscSelect \intersect identity.miscselectMask = identity.miscselect

\* Octet by octet; both are of one length.
applyMask(base, mask) == base \intersect mask

AttributesMatch(identity, report) ==
    applyMask(report.attributes, identity.attributesMask) = identity.attributes

\* An identity may come without MRSIGNER: the check is then skipped.
NoMrSigner == "no-mrsigner"

MrSignerMatches(identity, report) ==
    identity.mrSigner \in { NoMrSigner, report.mrSigner }

IsvProdIdMatches(identity, report) == report.isvProdId = identity.isvProdId

\* EnclaveReportVerifier::verify, in the order of its checks.
VerifyEnclaveReport(identity, report) ==
    IF ~MiscSelectMatches(identity, report) THEN "MISCSELECT_MISMATCH"
    ELSE IF ~AttributesMatch(identity, report) THEN "ATTRIBUTES_MISMATCH"
    ELSE IF ~MrSignerMatches(identity, report) THEN "MRSIGNER_MISMATCH"
    ELSE IF ~IsvProdIdMatches(identity, report) THEN "ISVPRODID_MISMATCH"
    ELSE IF IdentityCandidates(identity, report.isvSvn) = {} THEN "ISVSVN_NOT_SUPPORTED"
    ELSE LET level == GetIdentityTcbLevel(identity, report.isvSvn)
         IN  CASE level.status = "UpToDate" -> "OK"
               [] level.status = "Revoked"  -> "ISVSVN_REVOKED"
               [] OTHER                     -> "ISVSVN_OUT_OF_DATE"

MismatchResults ==
    { "MISCSELECT_MISMATCH", "ATTRIBUTES_MISMATCH", "MRSIGNER_MISMATCH",
      "ISVPRODID_MISMATCH" }

===============================================================================
