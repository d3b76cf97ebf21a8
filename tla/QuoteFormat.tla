------------------------------ MODULE QuoteFormat ------------------------------
(***************************************************************************)
(* The format of a quote, as positions in its bytes: what the parser of    *)
(* module QuoteParser, which walks over them with a cursor, is to accept.  *)
(*                                                                         *)
(* A quote is a record: size, the fields of the header the parser looks at *)
(* (version, attestationKeyType, teeType, qeVendorId), those of the body   *)
(* descriptor (bodyType, bodySize), and words, the numbers that stand at   *)
(* positions which depend on the numbers before them. A number is found at *)
(* the position of its first byte only.                                    *)
(***************************************************************************)
EXTENDS Integers

(***************************************************************************)
(* QuoteConstants.h                                                        *)
(***************************************************************************)
TEE_TYPE_SGX == 0
TEE_TYPE_TDX == 129
QUOTE_VERSION_3 == 3
QUOTE_VERSION_4 == 4
QUOTE_VERSION_5 == 5
ECDSA_256_WITH_P256_CURVE == 2
PCK_ID_QE_REPORT_CERTIFICATION_DATA == 6
INTEL_QE_VENDOR_ID == "Intel"

BODY_SGX_ENCLAVE_REPORT_TYPE == 1
BODY_TD_REPORT10_TYPE   == 2
BODY_TD_REPORT15_TYPE   == 3
BODY_TD_REPORT15EX_TYPE == 4
ALLOWED_BODY_TYPES == 1 .. 4

HEADER_BYTE_LEN          == 48
BODY_BYTE_SIZE           == 6
ENCLAVE_REPORT_BYTE_LEN  == 384
TD_REPORT10_BYTE_LEN     == 584
TD_REPORT15_BYTE_LEN     == 648
TD_REPORT15EX_BYTE_LEN   == 885
AUTH_DATA_SIZE_BYTE_LEN  == 4
ECDSA_SIGNATURE_BYTE_LEN == 64
ECDSA_PUBKEY_BYTE_LEN    == 64
QE_AUTH_DATA_SIZE_BYTE_LEN == 2
CERTIFICATION_DATA_TYPE_BYTE_LEN == 2
CERTIFICATION_DATA_SIZE_BYTE_LEN == 4

CertificationHeaderLen == CERTIFICATION_DATA_TYPE_BYTE_LEN + CERTIFICATION_DATA_SIZE_BYTE_LEN

QUOTE_MIN_BYTE_LEN ==
    HEADER_BYTE_LEN + ENCLAVE_REPORT_BYTE_LEN + AUTH_DATA_SIZE_BYTE_LEN
      + ECDSA_SIGNATURE_BYTE_LEN + ECDSA_PUBKEY_BYTE_LEN + ENCLAVE_REPORT_BYTE_LEN
      + ECDSA_SIGNATURE_BYTE_LEN + QE_AUTH_DATA_SIZE_BYTE_LEN + CertificationHeaderLen

Filler == 1    \* any number that is not at the position of a field

Word(q, position) == IF position \in DOMAIN q.words THEN q.words[position] ELSE Filler

(***************************************************************************)
(* Positions.                                                              *)
(***************************************************************************)
HasBody(q) == q.version > QUOTE_VERSION_4

HasQeReportCertificationData(q) == q.version > QUOTE_VERSION_3

ReportType(q) ==
    IF HasBody(q) THEN q.bodyType
    ELSE IF q.teeType = TEE_TYPE_SGX THEN BODY_SGX_ENCLAVE_REPORT_TYPE
    ELSE IF q.teeType = TEE_TYPE_TDX THEN BODY_TD_REPORT10_TYPE
    ELSE 0

ReportLength(type) ==
    IF type = BODY_SGX_ENCLAVE_REPORT_TYPE THEN ENCLAVE_REPORT_BYTE_LEN
    ELSE IF type = BODY_TD_REPORT10_TYPE   THEN TD_REPORT10_BYTE_LEN
    ELSE IF type = BODY_TD_REPORT15_TYPE   THEN TD_REPORT15_BYTE_LEN
    ELSE IF type = BODY_TD_REPORT15EX_TYPE THEN TD_REPORT15EX_BYTE_LEN
    ELSE 0

ReportAt(q) == HEADER_BYTE_LEN + (IF HasBody(q) THEN BODY_BYTE_SIZE ELSE 0)

AuthDataSizeAt(q) == ReportAt(q) + ReportLength(ReportType(q))

AuthDataAt(q) == AuthDataSizeAt(q) + AUTH_DATA_SIZE_BYTE_LEN

AuthDataEnd(q) == AuthDataAt(q) + Word(q, AuthDataSizeAt(q))

AttestKeyAt(q) == AuthDataAt(q) + ECDSA_SIGNATURE_BYTE_LEN

AfterAttestKey(q) == AttestKeyAt(q) + ECDSA_PUBKEY_BYTE_LEN

\* From version 4 on, QE report and all that follows it are themselves the
\* certification data of the quote.
QeReportAt(q) ==
    AfterAttestKey(q) + (IF HasQeReportCertificationData(q) THEN CertificationHeaderLen ELSE 0)

OuterEnd(q) == QeReportAt(q) + Word(q, AfterAttestKey(q) + CERTIFICATION_DATA_TYPE_BYTE_LEN)

QeReportSignatureAt(q) == QeReportAt(q) + ENCLAVE_REPORT_BYTE_LEN

QeAuthDataSizeAt(q) == QeReportSignatureAt(q) + ECDSA_SIGNATURE_BYTE_LEN

QeAuthDataAt(q) == QeAuthDataSizeAt(q) + QE_AUTH_DATA_SIZE_BYTE_LEN

CertificationAt(q) == QeAuthDataAt(q) + Word(q, QeAuthDataSizeAt(q))

CertificationDataAt(q) == CertificationAt(q) + CertificationHeaderLen

CertificationEnd(q) ==
    CertificationDataAt(q) + Word(q, CertificationAt(q) + CERTIFICATION_DATA_TYPE_BYTE_LEN)

(***************************************************************************)
(* The format.                                                             *)
(***************************************************************************)
BodyFits(q) ==
    HasBody(q) => q.bodyType \in ALLOWED_BODY_TYPES /\ q.bodySize = ReportLength(q.bodyType)

\* Bytes may follow the authentication data, and bytes may follow the
\* certification data inside the authentication data, but not inside that of
\* a QE report.
Parsable(q) ==
    /\ q.size >= QUOTE_MIN_BYTE_LEN
    /\ BodyFits(q)
    /\ AuthDataEnd(q) <= q.size
    /\ q.version = QUOTE_VERSION_3 => CertificationEnd(q) <= AuthDataEnd(q)
    /\ HasQeReportCertificationData(q) =>
          OuterEnd(q) <= AuthDataEnd(q) /\ CertificationEnd(q) = OuterEnd(q)

Supported(q) ==
    /\ q.version \in { QUOTE_VERSION_3, QUOTE_VERSION_4, QUOTE_VERSION_5 }
    /\ q.attestationKeyType = ECDSA_256_WITH_P256_CURVE
    /\ q.teeType \in { TEE_TYPE_SGX, TEE_TYPE_TDX }
    /\ q.qeVendorId = INTEL_QE_VENDOR_ID
    /\ q.version = QUOTE_VERSION_3 => q.teeType = TEE_TYPE_SGX
    /\ HasQeReportCertificationData(q) =>
          Word(q, AfterAttestKey(q)) = PCK_ID_QE_REPORT_CERTIFICATION_DATA
    /\ Word(q, CertificationAt(q)) \in 1 .. 5
    /\ HasBody(q) => (q.teeType = TEE_TYPE_SGX <=> q.bodyType = BODY_SGX_ENCLAVE_REPORT_TYPE)

WellFormed(q) == Parsable(q) /\ Supported(q)

Region(start, length) == << start, start + length >>

\* Where the parts are that verification works on.
Layout(q) ==
    [ signedData        |-> Region(0, AuthDataSizeAt(q)),
      quoteSignature    |-> Region(AuthDataAt(q), ECDSA_SIGNATURE_BYTE_LEN),
      attestKeyData     |-> Region(AttestKeyAt(q), ECDSA_PUBKEY_BYTE_LEN),
      qeReport          |-> Region(QeReportAt(q), ENCLAVE_REPORT_BYTE_LEN),
      qeReportSignature |-> Region(QeReportSignatureAt(q), ECDSA_SIGNATURE_BYTE_LEN),
      qeAuthData        |-> Region(QeAuthDataAt(q), Word(q, QeAuthDataSizeAt(q))),
      certificationData |->
        Region(CertificationDataAt(q),
               Word(q, CertificationAt(q) + CERTIFICATION_DATA_TYPE_BYTE_LEN)) ]
===============================================================================
