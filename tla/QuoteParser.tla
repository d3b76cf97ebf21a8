------------------------------ MODULE QuoteParser ------------------------------
(***************************************************************************)
(* Quote::parse and Quote::validate (QuoteVerification/Quote.cpp,          *)
(* QuoteStructures.cpp, QuoteParsers.h): a cursor runs over the bytes of a *)
(* quote, each structure checks that what it takes is there, sizes are     *)
(* read, then the cursor goes back and the structure that starts with them *)
(* is read as a whole, with limits of its own.                             *)
(***************************************************************************)
EXTENDS QuoteFormat

CONSTANT Quotes     \* what parse may be given

\* Sizes and the numbers in a quote are unsigned. The C API takes the length of
\* a quote as a uint32_t, and sizes are added as size_t: the conversions to
\* unsigned in QuoteParsers.h lose nothing.
ASSUME QuotesAssumption ==
    \A q \in Quotes :
        /\ q.size \in Nat /\ q.version \in Nat /\ q.bodySize \in Nat
        /\ \A position \in DOMAIN q.words : q.words[position] \in Nat

RegionNames ==
    { "signedData", "quoteSignature", "attestKeyData", "qeReport", "qeReportSignature",
      "qeAuthData", "certificationData" }

VARIABLES
    quote,      \* the bytes given to parse
    pc,         \* the part that is read next
    from,       \* the cursor
    limit,      \* the end of the structure the cursor is in
    size,       \* localAuthDataSize, authSize or qeCertSize: the last size read
    outerType,  \* authDataV4.certificationData.type
    certType,   \* certificationData.type
    regions,    \* part -> the bytes it was copied from
    touched     \* the bytes the last step looked at

vars == <<quote, pc, from, limit, size, outerType, certType, regions, touched>>

(***************************************************************************)
(* Bytes the insert functions take, field by field (QuoteStructures.cpp).  *)
(***************************************************************************)
HeaderFields == 2 + 2 + 4 + 2 + 2 + 16 + 20

BodyFields == 2 + 4

EnclaveReportFields == 16 + 4 + 28 + 16 + 32 + 32 + 32 + 96 + 2 + 2 + 60 + 64

TDReport10Fields == 16 + 48 + 48 + 8 + 8 + 8 + 48 + 48 + 48 + 48 + 48 + 48 + 48 + 48 + 64

TDReport15Fields == TDReport10Fields + 16 + 48

TDReport15ExFields == TDReport15Fields + 1 + 32 + 48 + 48 + 8 + 16 + 16 + 12 + 48 + 8

ReportFields(type) ==
    IF type = BODY_SGX_ENCLAVE_REPORT_TYPE THEN EnclaveReportFields
    ELSE IF type = BODY_TD_REPORT10_TYPE   THEN TDReport10Fields
    ELSE IF type = BODY_TD_REPORT15_TYPE   THEN TDReport15Fields
    ELSE TDReport15ExFields

(***************************************************************************)
(* Steps of the cursor.                                                    *)
(***************************************************************************)
Decided == { "rejected", "accepted" }

Reject ==
    /\ pc' = "rejected"
    /\ UNCHANGED <<quote, from, limit, size, outerType, certType, regions, touched>>

\* copyAndAdvance(val, from, amount, totalEnd) for a structure of fixed size,
\* then copyAndAdvance of its fields against its own end. A structure whose
\* fields are fewer bytes than its size leaves the cursor inside it.
Take(amount, fields, next) ==
    /\ pc' = next
    /\ from' = from + fields
    /\ touched' = Region(from, fields)
    /\ UNCHANGED <<quote, limit, size, outerType, certType>>

Fits(amount, fields) == limit - from >= amount /\ fields <= amount

TakeInto(region, amount, next) ==
    IF Fits(amount, amount)
    THEN Take(amount, amount, next)
         /\ regions' = [ regions EXCEPT ![region] = Region(from, amount) ]
    ELSE Reject

\* Fault: the size is believed before it is known to be there.
ReadSize_Unchecked(skip, width, next) ==
    /\ size' = Word(quote, from + skip)
    /\ from' = from + skip + width
    /\ touched' = Region(from + skip, width)
    /\ pc' = next
    /\ UNCHANGED <<quote, limit, outerType, certType, regions>>

\* A number after skip bytes that are not looked at.
ReadSize(skip, width, next) ==
    IF limit - from >= skip /\ limit - (from + skip) >= width
    THEN /\ size' = Word(quote, from + skip)
         /\ from' = from + skip + width
         /\ touched' = Region(from + skip, width)
         /\ pc' = next
         /\ UNCHANGED <<quote, limit, outerType, certType, regions>>
    ELSE Reject

\* The cursor goes back over the size to the start of the structure, which is
\* then given exactly the bytes its size asks for and reads the size again.
SizedStart(headerLen) == from - headerLen

SizedFits(headerLen, skip) ==
    /\ limit - SizedStart(headerLen) >= size + headerLen
    /\ Word(quote, SizedStart(headerLen) + skip) = size

(***************************************************************************)
(* Quote::parse.                                                           *)
(***************************************************************************)
NoRegions == [ name \in RegionNames |-> Region(0, 0) ]

Init ==
    /\ quote \in Quotes
    /\ pc = "header"
    /\ from = 0 /\ limit = quote.size /\ size = 0
    /\ outerType = 0 /\ certType = 0
    /\ regions = NoRegions
    /\ touched = Region(0, 0)

ParseHeader ==
    /\ pc = "header"
    /\ IF quote.size >= QUOTE_MIN_BYTE_LEN /\ Fits(HEADER_BYTE_LEN, HeaderFields)
       THEN /\ Take(HEADER_BYTE_LEN, HeaderFields,
                    IF quote.version > QUOTE_VERSION_4 THEN "body" ELSE "report")
            /\ UNCHANGED regions
       ELSE Reject

ParseBody ==
    /\ pc = "body"
    /\ IF Fits(BODY_BYTE_SIZE, BodyFields) /\ BodyFits(quote)
       THEN Take(BODY_BYTE_SIZE, BodyFields, "report") /\ UNCHANGED regions
       ELSE Reject

\* Fault: the body descriptor is left out of what is signed.
SignedLength_WithoutBody(type) == HEADER_BYTE_LEN + ReportLength(type)

SignedLength(type) ==
    HEADER_BYTE_LEN + (IF HasBody(quote) THEN BODY_BYTE_SIZE ELSE 0) + ReportLength(type)

\* What is signed is copied from the start of the quote, up to the end of its
\* report. A TEE type that is not known yet means no report, for validate.
ParseReport ==
    /\ pc = "report"
    /\ LET type == ReportType(quote)
       IN  IF type = 0
           THEN /\ pc' = "authDataSize"
                /\ UNCHANGED <<quote, from, limit, size, outerType, certType, regions, touched>>
           ELSE IF Fits(ReportLength(type), ReportFields(type))
           THEN /\ Take(ReportLength(type), ReportFields(type), "authDataSize")
                /\ regions' = [ regions EXCEPT !.signedData = Region(0, SignedLength(type)) ]
           ELSE Reject

\* Bytes may follow what is declared, a declared size beyond the end is refused.
ParseAuthDataSize ==
    /\ pc = "authDataSize"
    /\ LET declared == Word(quote, from)
           start    == from + AUTH_DATA_SIZE_BYTE_LEN
       IN  IF /\ limit - from >= AUTH_DATA_SIZE_BYTE_LEN
              /\ declared <= limit - start
           THEN /\ size' = declared /\ from' = start
                /\ touched' = Region(from, AUTH_DATA_SIZE_BYTE_LEN)
                /\ limit' = start + declared
                /\ pc' = IF quote.version < QUOTE_VERSION_3 THEN "validate" ELSE "signature"
                /\ UNCHANGED <<quote, outerType, certType, regions>>
           ELSE Reject

ParseSignature ==
    pc = "signature" /\ TakeInto("quoteSignature", ECDSA_SIGNATURE_BYTE_LEN, "attestKey")

ParseAttestKey ==
    /\ pc = "attestKey"
    /\ TakeInto("attestKeyData", ECDSA_PUBKEY_BYTE_LEN,
                IF HasQeReportCertificationData(quote) THEN "outerSize" ELSE "qeReport")

(***************************************************************************)
(* From version 4 on: certification data that hold a QE report and its own *)
(* certification data. The data are copied; the cursor goes on in the copy.*)
(***************************************************************************)
ParseOuterSize ==
    /\ pc = "outerSize"
    /\ ReadSize(CERTIFICATION_DATA_TYPE_BYTE_LEN, CERTIFICATION_DATA_SIZE_BYTE_LEN, "outerData")

ParseOuterData ==
    /\ pc = "outerData"
    /\ LET start == SizedStart(CertificationHeaderLen)
           data  == start + CertificationHeaderLen
       IN  IF SizedFits(CertificationHeaderLen, CERTIFICATION_DATA_TYPE_BYTE_LEN)
           THEN /\ outerType' = Word(quote, start)
                /\ touched' = Region(start, CertificationHeaderLen + size)
                /\ from' = data /\ limit' = data + size
                /\ pc' = "qeReport"
                /\ UNCHANGED <<quote, size, certType, regions>>
           ELSE Reject

ParseQeReport ==
    pc = "qeReport" /\ TakeInto("qeReport", ENCLAVE_REPORT_BYTE_LEN, "qeReportSignature")

ParseQeReportSignature ==
    /\ pc = "qeReportSignature"
    /\ TakeInto("qeReportSignature", ECDSA_SIGNATURE_BYTE_LEN, "qeAuthSize")

ParseQeAuthSize ==
    pc = "qeAuthSize" /\ ReadSize(0, QE_AUTH_DATA_SIZE_BYTE_LEN, "qeAuthData")

ParseQeAuthData ==
    /\ pc = "qeAuthData"
    /\ LET start == SizedStart(QE_AUTH_DATA_SIZE_BYTE_LEN)
           data  == start + QE_AUTH_DATA_SIZE_BYTE_LEN
       IN  IF SizedFits(QE_AUTH_DATA_SIZE_BYTE_LEN, 0)
           THEN /\ touched' = Region(start, QE_AUTH_DATA_SIZE_BYTE_LEN + size)
                /\ from' = data + size
                /\ regions' = [ regions EXCEPT !.qeAuthData = Region(data, size) ]
                /\ pc' = "certSize"
                /\ UNCHANGED <<quote, limit, size, outerType, certType>>
           ELSE Reject

ParseCertSize ==
    /\ pc = "certSize"
    /\ ReadSize(CERTIFICATION_DATA_TYPE_BYTE_LEN, CERTIFICATION_DATA_SIZE_BYTE_LEN, "certData")

\* Fault: bytes after the certification data of a QE report are accepted.
NothingLeft_Ignored(end) == TRUE

NothingLeft(end) == HasQeReportCertificationData(quote) => end = limit

ParseCertData ==
    /\ pc = "certData"
    /\ LET start == SizedStart(CertificationHeaderLen)
           data  == start + CertificationHeaderLen
       IN  IF /\ SizedFits(CertificationHeaderLen, CERTIFICATION_DATA_TYPE_BYTE_LEN)
              /\ NothingLeft(data + size)
           THEN /\ certType' = Word(quote, start)
                /\ touched' = Region(start, CertificationHeaderLen + size)
                /\ from' = data + size
                /\ regions' = [ regions EXCEPT !.certificationData = Region(data, size) ]
                /\ pc' = "validate"
                /\ UNCHANGED <<quote, limit, size, outerType>>
           ELSE Reject

(***************************************************************************)
(* Quote::validate.                                                        *)
(***************************************************************************)
Acceptable ==
    /\ quote.version \in { QUOTE_VERSION_3, QUOTE_VERSION_4, QUOTE_VERSION_5 }
    /\ quote.attestationKeyType = ECDSA_256_WITH_P256_CURVE
    /\ quote.teeType \in { TEE_TYPE_SGX, TEE_TYPE_TDX }
    /\ quote.qeVendorId = INTEL_QE_VENDOR_ID
    /\ quote.version = QUOTE_VERSION_3 =>
          quote.teeType = TEE_TYPE_SGX /\ certType >= 1 /\ certType <= 5
    /\ quote.version \in { QUOTE_VERSION_4, QUOTE_VERSION_5 } =>
          /\ outerType = PCK_ID_QE_REPORT_CERTIFICATION_DATA
          /\ certType >= 1 /\ certType <= 5
    /\ quote.version = QUOTE_VERSION_5 =>
          /\ quote.bodyType \in ALLOWED_BODY_TYPES
          /\ quote.teeType = TEE_TYPE_SGX => quote.bodyType = BODY_SGX_ENCLAVE_REPORT_TYPE
          /\ quote.teeType # TEE_TYPE_SGX => quote.bodyType # BODY_SGX_ENCLAVE_REPORT_TYPE

Validate ==
    /\ pc = "validate"
    /\ pc' = IF Acceptable THEN "accepted" ELSE "rejected"
    /\ UNCHANGED <<quote, from, limit, size, outerType, certType, regions, touched>>

Next ==
    \/ ParseHeader \/ ParseBody \/ ParseReport \/ ParseAuthDataSize
    \/ ParseSignature \/ ParseAttestKey \/ ParseOuterSize \/ ParseOuterData
    \/ ParseQeReport \/ ParseQeReportSignature
    \/ ParseQeAuthSize \/ ParseQeAuthData \/ ParseCertSize \/ ParseCertData
    \/ Validate

Spec == Init /\ [][Next]_vars

(***************************************************************************)
(* Properties.                                                             *)
(***************************************************************************)
Parts ==
    { "header", "body", "report", "authDataSize", "signature", "attestKey", "outerSize",
      "outerData", "qeReport", "qeReportSignature", "qeAuthSize", "qeAuthData", "certSize",
      "certData", "validate" }

\* Types of the variables of Quote::parse. Positions are numbers of bytes
\* from the start of the quote.
TypeOK ==
    /\ quote \in Quotes
    /\ pc \in Parts \union Decided
    /\ from \in Nat /\ limit \in Nat /\ size \in Nat
    /\ outerType \in Nat /\ certType \in Nat
    /\ regions \in [ RegionNames -> Nat \X Nat ]
    /\ touched \in Nat \X Nat

\* Whatever sizes the quote declares, the cursor never leaves the structure
\* it is in, nor the quote, and no byte is looked at beyond its end: neither
\* on the way, nor when the cursor goes back over a size and the structure
\* that starts there is read as a whole (QuoteParsers.h, the checks of what
\* is available).
CursorStaysInside ==
    /\ from <= limit /\ limit <= quote.size
    /\ touched[1] <= touched[2] /\ touched[2] <= quote.size

\* The cursor's walk accepts exactly the quotes of the format that module
\* QuoteFormat states by positions: no size on the way is taken from the
\* wrong place, and none is checked against the wrong end.
AcceptsTheFormat ==
    /\ pc = "accepted" => WellFormed(quote)
    /\ pc = "rejected" => ~WellFormed(quote)

\* The parts of an accepted quote are those of its format: the signed data are
\* its header, body and report and nothing else, attestation key and QE
\* authentication data, which are hashed together, come from where the quote
\* has them (Quote.cpp 173-200).
PartsAreWhereTheyBelong ==
    pc = "accepted" => \A name \in RegionNames : regions[name] = Layout(quote)[name]
===============================================================================
