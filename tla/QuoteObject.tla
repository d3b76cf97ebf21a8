------------------------------ MODULE QuoteObject ------------------------------
(***************************************************************************)
(* What a parsed quote answers: the fields that the insert functions fill  *)
(* (QuoteStructures.cpp, ByteOperands.cpp), the getters of Quote, rawBlob, *)
(* over which the signature of the QE report is verified, and the two      *)
(* calls of the C API that hand the certification data of a quote to the   *)
(* caller (QuoteVerification.cpp 530-599).                                 *)
(*                                                                         *)
(* A byte of the quote is told by its position. Numbers are read and       *)
(* written byte by byte with shifts, BYTE being 256.                       *)
(***************************************************************************)
EXTENDS QuoteParser, SequencesExt

CONSTANTS
    BYTE,           \* the values of a byte
    ByteAt(_)       \* the byte of the quote at a position

ASSUME QuoteObjectAssumption ==
    /\ BYTE \in Nat \ {0, 1}
    /\ \A length \in { q.size : q \in Quotes } :
         \A position \in 0..(length - 1) : ByteAt(position) \in 0..(BYTE - 1)

VARIABLES
    answer,     \* what the last call of the API returned, [call, status]
    output      \* what the caller's pointers point to, [size, type, data]

objectVars == <<vars, answer, output>>

Bytes(position, count) == [ k \in 1..count |-> ByteAt(position + k - 1) ]

(***************************************************************************)
(* ByteOperands.cpp.                                                       *)
(***************************************************************************)
\* The values of two, three and four bytes.
BYTES_2 == BYTE * BYTE
BYTES_3 == BYTE * BYTES_2
BYTES_4 == BYTE * BYTES_3

swapBytes16(val) == ((val * BYTE) % BYTES_2) + val \div BYTE

swapBytes32(val) ==
    ((val * BYTES_3) % BYTES_4)
      + (((val * BYTE) % BYTES_3) - ((val * BYTE) % BYTES_2))
      + (((val \div BYTE) % BYTES_2) - ((val \div BYTE) % BYTE))
      + val \div BYTES_3

toUint16(leftMostByte, rightMostByte) == rightMostByte + leftMostByte * BYTE

toUint32(leftMostByte, leftByte, rightByte, rightMostByte) ==
    toUint16(rightByte, rightMostByte) + toUint16(leftMostByte, leftByte) * BYTES_2

toArray16(val) == << (val \div BYTE) % BYTE, val % BYTE >>

toArray32(val) ==
    << (val \div BYTES_3) % BYTE, (val \div BYTES_2) % BYTE, (val \div BYTE) % BYTE, val % BYTE >>

(***************************************************************************)
(* Structures: their members, with the bytes of each, the order in which   *)
(* insert fills them and that in which rawBlob writes them.                *)
(***************************************************************************)
Width ==
    [ cpuSvn |-> 16, miscSelect |-> 4, reserved1 |-> 28, attributes |-> 16, mrEnclave |-> 32,
      reserved2 |-> 32, mrSigner |-> 32, reserved3 |-> 96, isvProdID |-> 2, isvSvn |-> 2,
      reserved4 |-> 60, reportData |-> 64, teeTcbSvn |-> 16, mrSeam |-> 48,
      mrSignerSeam |-> 48, seamAttributes |-> 8, tdAttributes |-> 8, xFAM |-> 8,
      mrTd |-> 48, mrConfigId |-> 48, mrOwner |-> 48, mrOwnerConfig |-> 48,
      rtMr0 |-> 48, rtMr1 |-> 48, rtMr2 |-> 48, rtMr3 |-> 48,
      teeTcbSvn2 |-> 16, mrServiceTd |-> 48, vmid |-> 1, tdId |-> 32, devInfo |-> 48,
      initServTdHash |-> 48, initServTdAttributes |-> 8, initCpuSvn |-> 16,
      initTeeTcbSvn |-> 16, initTeeFmspc |-> 12, curServTdHash |-> 48,
      curServTdAttributes |-> 8 ]

Uint16Fields == { "isvProdID", "isvSvn" }
Uint32Fields == { "miscSelect" }

EnclaveReportInsert ==
    << "cpuSvn", "miscSelect", "reserved1", "attributes", "mrEnclave", "reserved2",
       "mrSigner", "reserved3", "isvProdID", "isvSvn", "reserved4", "reportData" >>

TDReport10Insert ==
    << "teeTcbSvn", "mrSeam", "mrSignerSeam", "seamAttributes", "tdAttributes", "xFAM",
       "mrTd", "mrConfigId", "mrOwner", "mrOwnerConfig", "rtMr0", "rtMr1", "rtMr2",
       "rtMr3", "reportData" >>

TDReport15Insert == TDReport10Insert \o << "teeTcbSvn2", "mrServiceTd" >>

TDReport15ExInsert ==
    TDReport15Insert
      \o << "vmid", "tdId", "devInfo", "initServTdHash", "initServTdAttributes", "initCpuSvn",
            "initTeeTcbSvn", "initTeeFmspc", "curServTdHash", "curServTdAttributes" >>

InsertOrder ==
    << EnclaveReportInsert, TDReport10Insert, TDReport15Insert, TDReport15ExInsert >>

\* copyAndAdvance of a member.
Inserted(name, position) ==
    IF name \in Uint16Fields
    THEN swapBytes16(toUint16(ByteAt(position), ByteAt(position + 1)))
    ELSE IF name \in Uint32Fields
    THEN swapBytes32(toUint32(ByteAt(position), ByteAt(position + 1), ByteAt(position + 2), ByteAt(position + 3)))
    ELSE Bytes(position, Width[name])

\* Where from is when the turn of a member comes, and after the last.
Starts(order, position) ==
    LET At[k \in 1..(Len(order) + 1)] == IF k = 1 THEN position ELSE At[k - 1] + Width[order[k - 1]]
    IN  At

\* The structure that insert fills from a position.
Insert(type, position) ==
    LET order == InsertOrder[type]
        at    == Starts(order, position)
    IN  [ name \in { order[k] : k \in DOMAIN order } |->
            Inserted(name, at[CHOOSE k \in DOMAIN order : order[k] = name]) ]

\* A structure that was not filled: the initializers of Quote.h, {}.
Empty(type) ==
    [ name \in { InsertOrder[type][k] : k \in DOMAIN InsertOrder[type] } |->
        IF name \in Uint16Fields \union Uint32Fields THEN 0 ELSE [ k \in 1..Width[name] |-> 0 ] ]

\* Fault: a number is written the way it is kept.
Written_Unswapped(structure, name) ==
    IF name \in Uint16Fields THEN toArray16(structure[name])
    ELSE IF name \in Uint32Fields THEN toArray32(structure[name])
    ELSE structure[name]

Written(structure, name) ==
    IF name \in Uint16Fields THEN toArray16(swapBytes16(structure[name]))
    ELSE IF name \in Uint32Fields THEN toArray32(swapBytes32(structure[name]))
    ELSE structure[name]

WriteAll(structure, order) == FlattenSeq([ k \in DOMAIN order |-> Written(structure, order[k]) ])

EnclaveReportBlob(r) ==
    WriteAll(r, << "cpuSvn", "miscSelect", "reserved1", "attributes", "mrEnclave", "reserved2",
                   "mrSigner", "reserved3", "isvProdID", "isvSvn", "reserved4", "reportData" >>)

TDReport10Blob(r) ==
    WriteAll(r, << "teeTcbSvn", "mrSeam", "mrSignerSeam", "seamAttributes", "tdAttributes", "xFAM",
                   "mrTd", "mrConfigId", "mrOwner", "mrOwnerConfig", "rtMr0", "rtMr1", "rtMr2",
                   "rtMr3", "reportData" >>)

TDReport15Blob(r) == TDReport10Blob(r) \o WriteAll(r, << "teeTcbSvn2", "mrServiceTd" >>)

TDReport15ExBlob(r) ==
    TDReport15Blob(r)
      \o WriteAll(r, << "vmid", "tdId", "devInfo", "initServTdHash", "initServTdAttributes",
                        "initCpuSvn", "initTeeTcbSvn", "initTeeFmspc", "curServTdHash",
                        "curServTdAttributes" >>)

rawBlob(type, r) ==
    CASE type = BODY_SGX_ENCLAVE_REPORT_TYPE -> EnclaveReportBlob(r)
      [] type = BODY_TD_REPORT10_TYPE        -> TDReport10Blob(r)
      [] type = BODY_TD_REPORT15_TYPE        -> TDReport15Blob(r)
      [] type = BODY_TD_REPORT15EX_TYPE      -> TDReport15ExBlob(r)

(***************************************************************************)
(* The object. parse fills the structure of the report it found; the others *)
(* stay as they were constructed.                                          *)
(***************************************************************************)
Report(type) == IF type = ReportType(quote) THEN Insert(type, ReportAt(quote)) ELSE Empty(type)

getEnclaveReport == Report(BODY_SGX_ENCLAVE_REPORT_TYPE)
getTdReport10   == Report(BODY_TD_REPORT10_TYPE)
getTdReport15   == Report(BODY_TD_REPORT15_TYPE)
getTdReport15Ex == Report(BODY_TD_REPORT15EX_TYPE)

getQeReport == Insert(BODY_SGX_ENCLAVE_REPORT_TYPE, regions["qeReport"][1])

\* getSignedData, getAttestKeyData, ...: the bytes copied into a member.
Part(name) == Bytes(regions[name][1], regions[name][2] - regions[name][1])

getCertificationData ==
    LET data == Part("certificationData")
    IN  [ type |-> certType, parsedDataSize |-> Len(data), data |-> data ]

\* The TD report that a getter looks into, by version and body type.
TdReport ==
    IF quote.version <= QUOTE_VERSION_4 THEN getTdReport10
    ELSE CASE quote.bodyType = BODY_TD_REPORT10_TYPE -> getTdReport10
           [] quote.bodyType = BODY_TD_REPORT15_TYPE -> getTdReport15
           [] OTHER -> getTdReport15Ex

getTeeTcbSvn == IF quote.version < QUOTE_VERSION_4 THEN [ k \in 1..16 |-> 0 ] ELSE TdReport.teeTcbSvn

getTeeTcbSvn2 ==
    IF quote.bodyType = BODY_TD_REPORT15_TYPE THEN getTdReport15.teeTcbSvn2 ELSE getTdReport15Ex.teeTcbSvn2

\* Not of version 3: they have no TD report.
getMrSignerSeam == TdReport.mrSignerSeam

getSeamAttributes == TdReport.seamAttributes

(***************************************************************************)
(* The calls for the certification data. The caller may give null          *)
(* pointers, and any size: that which it was told or another.              *)
(***************************************************************************)
Nothing == [ size |-> << >>, type |-> << >>, data |-> << >> ]

NotCalled == [ call |-> "none", status |-> "none" ]

ObjectInit ==
    /\ Init
    /\ answer = NotCalled
    /\ output = Nothing

Parse ==
    /\ answer = NotCalled
    /\ Next
    /\ UNCHANGED <<answer, output>>

MissingParameters ==
    /\ pc = "header" /\ answer = NotCalled
    /\ \E call \in { "size", "data" } : answer' = [ call |-> call, status |-> "MISSING_PARAMETERS" ]
    /\ UNCHANGED <<vars, output>>

GetQECertificationDataSize ==
    /\ pc \in Decided /\ answer = NotCalled
    /\ IF pc = "rejected"
       THEN /\ answer' = [ call |-> "size", status |-> "UNSUPPORTED_QUOTE_FORMAT" ]
            /\ UNCHANGED output
       ELSE /\ answer' = [ call |-> "size", status |-> "OK" ]
            /\ output' = [ output EXCEPT !.size = << getCertificationData.parsedDataSize >> ]
    /\ UNCHANGED vars

\* What a caller may take for the size: what it was told, if it asked.
SizesGiven == { 0, 1, 9 } \union { output.size[k] : k \in DOMAIN output.size }

GetQECertificationData ==
    /\ pc \in Decided /\ answer.call # "data" /\ answer.status # "MISSING_PARAMETERS"
    /\ \E qeCertificationDataSize \in SizesGiven :
         IF pc = "rejected"
         THEN /\ answer' = [ call |-> "data", status |-> "UNSUPPORTED_QUOTE_FORMAT" ]
              /\ UNCHANGED output
         ELSE IF qeCertificationDataSize # getCertificationData.parsedDataSize
         THEN /\ answer' = [ call |-> "data", status |-> "INVALID_QE_CERTIFICATION_DATA_SIZE" ]
              /\ UNCHANGED output
         ELSE /\ answer' = [ call |-> "data", status |-> "OK" ]
              /\ output' = [ output EXCEPT !.type = << getCertificationData.type >>,
                                           !.data = getCertificationData.data ]
    /\ UNCHANGED vars

ObjectNext == Parse \/ MissingParameters \/ GetQECertificationDataSize \/ GetQECertificationData

ObjectSpec == ObjectInit /\ [][ObjectNext]_objectVars

(***************************************************************************)
(* Properties.                                                             *)
(***************************************************************************)
\* Positions in the report of a TD.
MR_SIGNER_SEAM_AT  == 64
SEAM_ATTRIBUTES_AT == 112
TEE_TCB_SVN_2_AT   == TD_REPORT10_BYTE_LEN

\* A quote that was accepted answers what stands in it, byte for byte: rawBlob
\* puts the bytes of a report together again from fields that were read as
\* numbers and swapped (QuoteStructures.cpp 48-251; the signature of the QE
\* report is verified over its result, QuoteVerifier.cpp:219); the getters
\* look into the one structure of four that was filled (Quote.cpp 368-441);
\* and the caller is given the certification data, and not a byte more than
\* it has room for, exactly if both calls see the same size.
QuoteAnswersAsItStands ==
    /\ (pc = "accepted" /\ answer = NotCalled) =>
         LET type == ReportType(quote)
             at   == ReportAt(quote)
         IN  /\ rawBlob(BODY_SGX_ENCLAVE_REPORT_TYPE, getQeReport)
                  = Bytes(QeReportAt(quote), ENCLAVE_REPORT_BYTE_LEN)
             /\ rawBlob(type, Report(type)) = Bytes(at, ReportLength(type))
             /\ (quote.teeType = TEE_TYPE_TDX) =>
                  /\ getTeeTcbSvn = Bytes(at, 16)
                  /\ getMrSignerSeam = Bytes(at + MR_SIGNER_SEAM_AT, 48)
                  /\ getSeamAttributes = Bytes(at + SEAM_ATTRIBUTES_AT, 8)
                  /\ type \in { BODY_TD_REPORT15_TYPE, BODY_TD_REPORT15EX_TYPE } =>
                       getTeeTcbSvn2 = Bytes(at + TEE_TCB_SVN_2_AT, 16)
    /\ output # Nothing => WellFormed(quote)
    /\ output.type # << >> =>
         LET certificationData == Layout(quote)["certificationData"]
         IN  /\ output.data = Bytes(certificationData[1], certificationData[2] - certificationData[1])
             /\ output.type = << Word(quote, CertificationAt(quote)) >>
             /\ output.size # << >> => output.size = << Len(output.data) >>
===============================================================================
