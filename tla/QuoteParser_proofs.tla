--------------------------- MODULE QuoteParser_proofs ---------------------------
(***************************************************************************)
(* For every quote, whatever sizes it declares: the parser's cursor stays  *)
(* inside the quote, and the quotes accepted are exactly those of the      *)
(* format of module QuoteFormat, their parts read from where they belong.  *)
(* And for every quote, whatever its bytes: blobs, getters and the calls   *)
(* for the certification data answer what stands in it.                    *)
(***************************************************************************)
EXTENDS QuoteObject, NaturalsInduction, WellFoundedInduction, TLAPS

(***************************************************************************)
(* The walk in terms of the format: at every part, the cursor is at the    *)
(* position and under the limit the format gives that part, what was read  *)
(* so far was read from where it belongs, and the checks so far are those  *)
(* of the format.                                                          *)
(***************************************************************************)
BeforeReport == { "header", "body", "report" }

\* Parts of the authentication data, with its end as their limit or, inside
\* the certification data of a quote, with the end of these.
OuterParts == { "signature", "attestKey", "outerSize", "outerData" }

QeParts == { "qeReport", "qeReportSignature", "qeAuthSize", "qeAuthData", "certSize", "certData" }

QeLimit(q) == IF HasQeReportCertificationData(q) THEN OuterEnd(q) ELSE AuthDataEnd(q)

CursorFollowsTheFormat ==
    /\ pc = "header"            => from = 0
    /\ pc = "body"              => from = HEADER_BYTE_LEN
    /\ pc = "report"            => from = ReportAt(quote)
    /\ pc = "authDataSize"      => from = AuthDataSizeAt(quote)
    /\ pc = "signature"         => from = AuthDataAt(quote)
    /\ pc = "attestKey"         => from = AttestKeyAt(quote)
    /\ pc = "outerSize"         => from = AfterAttestKey(quote)
    /\ pc = "outerData"         => from = AfterAttestKey(quote) + CertificationHeaderLen
    /\ pc = "qeReport"          => from = QeReportAt(quote)
    /\ pc = "qeReportSignature" => from = QeReportSignatureAt(quote)
    /\ pc = "qeAuthSize"        => from = QeAuthDataSizeAt(quote)
    /\ pc = "qeAuthData"        => from = QeAuthDataAt(quote)
    /\ pc = "certSize"          => from = CertificationAt(quote)
    /\ pc = "certData"          => from = CertificationDataAt(quote)
    /\ pc \in BeforeReport \union { "authDataSize" } => limit = quote.size
    /\ pc \in OuterParts => limit = AuthDataEnd(quote)
    /\ pc \in QeParts => limit = QeLimit(quote)

SizeIsTheDeclaredOne ==
    /\ pc = "outerData"  =>
          size = Word(quote, AfterAttestKey(quote) + CERTIFICATION_DATA_TYPE_BYTE_LEN)
    /\ pc = "qeAuthData" => size = Word(quote, QeAuthDataSizeAt(quote))
    /\ pc = "certData"   =>
          size = Word(quote, CertificationAt(quote) + CERTIFICATION_DATA_TYPE_BYTE_LEN)

ChecksSoFar ==
    /\ pc \notin { "header", "rejected" } => quote.size >= QUOTE_MIN_BYTE_LEN
    /\ pc = "body" => HasBody(quote)
    /\ pc \notin { "header", "body", "rejected" } => BodyFits(quote)
    /\ pc \in OuterParts \union QeParts \union { "validate", "accepted" } =>
          AuthDataEnd(quote) <= quote.size
    /\ pc \in OuterParts \union QeParts => quote.version >= QUOTE_VERSION_3
    /\ pc \in { "outerSize", "outerData" } => HasQeReportCertificationData(quote)
    /\ pc \in QeParts => QeLimit(quote) <= AuthDataEnd(quote)
    /\ pc \in QeParts \union { "validate", "accepted" } /\ HasQeReportCertificationData(quote) =>
          outerType = Word(quote, AfterAttestKey(quote))
    /\ pc \in { "validate", "accepted" } =>
          /\ quote.version >= QUOTE_VERSION_3 =>
                Parsable(quote) /\ certType = Word(quote, CertificationAt(quote))
    /\ pc = "accepted" => WellFormed(quote)
    /\ pc = "rejected" => ~WellFormed(quote)

AuthParts == OuterParts \union QeParts \union { "validate", "accepted" }

Copied(name, pending) ==
    pc \in AuthParts \ pending /\ quote.version >= QUOTE_VERSION_3 =>
        regions[name] = Layout(quote)[name]

\* Parts already copied: those that stand before the cursor.
RegionsSoFar ==
    /\ pc \notin BeforeReport \union { "rejected" } /\ ReportType(quote) # 0 =>
          regions["signedData"] = Layout(quote)["signedData"]
    /\ Copied("quoteSignature", { "signature" })
    /\ Copied("attestKeyData", { "signature", "attestKey" })
    /\ Copied("qeReport", OuterParts \union { "qeReport" })
    /\ Copied("qeReportSignature", OuterParts \union { "qeReport", "qeReportSignature" })
    /\ Copied("qeAuthData", OuterParts \union (QeParts \ { "certSize", "certData" }))
    /\ Copied("certificationData", OuterParts \union QeParts)

IInv ==
    /\ TypeOK /\ CursorStaysInside /\ CursorFollowsTheFormat
    /\ SizeIsTheDeclaredOne /\ ChecksSoFar /\ RegionsSoFar

(***************************************************************************)
(* Facts about positions.                                                  *)
(***************************************************************************)

\* Numbers read from a quote are naturals, wherever they are read.
LEMMA WordType == ASSUME NEW q \in Quotes, NEW p PROVE Word(q, p) \in Nat
  BY QuotesAssumption DEF Word, Filler

\* Positions of the format follow each other by fixed lengths and the sizes read.
LEMMA Positions ==
    ASSUME NEW q \in Quotes
    PROVE  /\ ReportLength(ReportType(q)) \in Nat
           /\ ReportAt(q) \in Nat /\ ReportAt(q) >= 48
           /\ AuthDataSizeAt(q) \in Nat
           /\ AuthDataSizeAt(q) = ReportAt(q) + ReportLength(ReportType(q))
           /\ AuthDataAt(q) = AuthDataSizeAt(q) + 4
           /\ AuthDataEnd(q) = AuthDataAt(q) + Word(q, AuthDataSizeAt(q))
           /\ AttestKeyAt(q) = AuthDataAt(q) + 64
           /\ AfterAttestKey(q) = AttestKeyAt(q) + 64
           /\ HasQeReportCertificationData(q) => QeReportAt(q) = AfterAttestKey(q) + 6
           /\ ~HasQeReportCertificationData(q) => QeReportAt(q) = AfterAttestKey(q)
           /\ OuterEnd(q) = QeReportAt(q) + Word(q, AfterAttestKey(q) + 2)
           /\ QeReportSignatureAt(q) = QeReportAt(q) + 384
           /\ QeAuthDataSizeAt(q) = QeReportSignatureAt(q) + 64
           /\ QeAuthDataAt(q) = QeAuthDataSizeAt(q) + 2
           /\ CertificationAt(q) = QeAuthDataAt(q) + Word(q, QeAuthDataSizeAt(q))
           /\ CertificationDataAt(q) = CertificationAt(q) + 6
           /\ CertificationEnd(q) = CertificationDataAt(q) + Word(q, CertificationAt(q) + 2)
  <1>1. ReportLength(ReportType(q)) \in Nat
    BY DEF ReportLength, ENCLAVE_REPORT_BYTE_LEN, TD_REPORT10_BYTE_LEN, TD_REPORT15_BYTE_LEN,
           TD_REPORT15EX_BYTE_LEN
  <1>2. ReportAt(q) \in Nat /\ ReportAt(q) >= 48
    BY DEF ReportAt, HEADER_BYTE_LEN, BODY_BYTE_SIZE
  <1>3. AuthDataSizeAt(q) = ReportAt(q) + ReportLength(ReportType(q))
    BY DEF AuthDataSizeAt
  <1>4. /\ AuthDataAt(q) = AuthDataSizeAt(q) + 4
        /\ AuthDataEnd(q) = AuthDataAt(q) + Word(q, AuthDataSizeAt(q))
        /\ AttestKeyAt(q) = AuthDataAt(q) + 64
        /\ AfterAttestKey(q) = AttestKeyAt(q) + 64
    BY DEF AuthDataAt, AuthDataEnd, AttestKeyAt, AfterAttestKey, AUTH_DATA_SIZE_BYTE_LEN,
           ECDSA_SIGNATURE_BYTE_LEN, ECDSA_PUBKEY_BYTE_LEN
  <1>5. AfterAttestKey(q) \in Nat
    BY <1>1, <1>2, <1>3, <1>4
  <1>6. /\ HasQeReportCertificationData(q) => QeReportAt(q) = AfterAttestKey(q) + 6
        /\ ~HasQeReportCertificationData(q) => QeReportAt(q) = AfterAttestKey(q)
        /\ OuterEnd(q) = QeReportAt(q) + Word(q, AfterAttestKey(q) + 2)
    BY <1>5 DEF QeReportAt, OuterEnd, CertificationHeaderLen, CERTIFICATION_DATA_TYPE_BYTE_LEN,
           CERTIFICATION_DATA_SIZE_BYTE_LEN
  <1>7. /\ QeReportSignatureAt(q) = QeReportAt(q) + 384
        /\ QeAuthDataSizeAt(q) = QeReportSignatureAt(q) + 64
        /\ QeAuthDataAt(q) = QeAuthDataSizeAt(q) + 2
        /\ CertificationAt(q) = QeAuthDataAt(q) + Word(q, QeAuthDataSizeAt(q))
        /\ CertificationDataAt(q) = CertificationAt(q) + 6
        /\ CertificationEnd(q) = CertificationDataAt(q) + Word(q, CertificationAt(q) + 2)
    BY DEF QeReportSignatureAt, QeAuthDataSizeAt, QeAuthDataAt, CertificationAt,
           CertificationDataAt, CertificationEnd, ENCLAVE_REPORT_BYTE_LEN,
           ECDSA_SIGNATURE_BYTE_LEN, QE_AUTH_DATA_SIZE_BYTE_LEN, CertificationHeaderLen,
           CERTIFICATION_DATA_TYPE_BYTE_LEN, CERTIFICATION_DATA_SIZE_BYTE_LEN
  <1> QED
    BY <1>1, <1>2, <1>3, <1>4, <1>5, <1>6, <1>7

USE DEF HEADER_BYTE_LEN, BODY_BYTE_SIZE, AUTH_DATA_SIZE_BYTE_LEN, ECDSA_SIGNATURE_BYTE_LEN,
        ECDSA_PUBKEY_BYTE_LEN, ENCLAVE_REPORT_BYTE_LEN, QE_AUTH_DATA_SIZE_BYTE_LEN,
        CERTIFICATION_DATA_TYPE_BYTE_LEN, CERTIFICATION_DATA_SIZE_BYTE_LEN,
        CertificationHeaderLen

\* The parts of the layout, one by one.
LEMMA LayoutParts ==
    ASSUME NEW q
    PROVE  /\ Layout(q)["signedData"] = << 0, 0 + AuthDataSizeAt(q) >>
           /\ Layout(q)["quoteSignature"] = << AuthDataAt(q), AuthDataAt(q) + 64 >>
           /\ Layout(q)["attestKeyData"] = << AttestKeyAt(q), AttestKeyAt(q) + 64 >>
           /\ Layout(q)["qeReport"] = << QeReportAt(q), QeReportAt(q) + 384 >>
           /\ Layout(q)["qeReportSignature"] =
                 << QeReportSignatureAt(q), QeReportSignatureAt(q) + 64 >>
           /\ Layout(q)["qeAuthData"] =
                 << QeAuthDataAt(q), QeAuthDataAt(q) + Word(q, QeAuthDataSizeAt(q)) >>
           /\ Layout(q)["certificationData"] =
                 << CertificationDataAt(q),
                    CertificationDataAt(q) + Word(q, CertificationAt(q) + 2) >>
  BY DEF Layout, Region

\* A quote that parses has room for all its parts.
LEMMA Room ==
    ASSUME NEW q \in Quotes, q.version >= QUOTE_VERSION_3, Parsable(q)
    PROVE  /\ AuthDataEnd(q) <= q.size
           /\ AuthDataEnd(q) - AuthDataAt(q) >= 64
           /\ AuthDataEnd(q) - AttestKeyAt(q) >= 64
           /\ HasQeReportCertificationData(q) =>
                 AuthDataEnd(q) - AfterAttestKey(q) >= 6 + Word(q, AfterAttestKey(q) + 2)
           /\ QeLimit(q) - QeReportAt(q) >= 384
           /\ QeLimit(q) - QeReportSignatureAt(q) >= 64
           /\ QeLimit(q) - QeAuthDataSizeAt(q) >= 2 + Word(q, QeAuthDataSizeAt(q))
           /\ QeLimit(q) - CertificationAt(q) >= 6 + Word(q, CertificationAt(q) + 2)
           /\ HasQeReportCertificationData(q) => CertificationEnd(q) = QeLimit(q)
  <1>1. q.version \in Nat
    BY QuotesAssumption
  <1>2. q.version = 3 \/ HasQeReportCertificationData(q)
    BY <1>1 DEF HasQeReportCertificationData, QUOTE_VERSION_3
  <1>3. /\ Word(q, AuthDataSizeAt(q)) \in Nat
        /\ Word(q, AfterAttestKey(q) + 2) \in Nat
        /\ Word(q, QeAuthDataSizeAt(q)) \in Nat
        /\ Word(q, CertificationAt(q) + 2) \in Nat
    BY WordType
  <1>4. AuthDataEnd(q) \in Int /\ CertificationEnd(q) \in Int /\ OuterEnd(q) \in Int
    BY <1>3, Positions
  <1> QED
    BY <1>1, <1>2, <1>3, <1>4, Positions
    DEF Parsable, QeLimit, HasQeReportCertificationData, QUOTE_VERSION_3

\* A check that fails only on quotes outside the format may reject.
LEMMA RejectKeeps == ASSUME IInv, Reject, ~WellFormed(quote) PROVE IInv'
  BY DEF IInv, Reject, TypeOK, CursorStaysInside, CursorFollowsTheFormat, SizeIsTheDeclaredOne,
         ChecksSoFar, RegionsSoFar, Copied, AuthParts, Parts, Decided, BeforeReport, OuterParts,
         QeParts

\* ParseSignature.
LEMMA SignatureStep == ASSUME IInv, ParseSignature PROVE IInv'
  <1>1. /\ quote \in Quotes /\ pc = "signature"
        /\ from = AuthDataAt(quote) /\ limit = AuthDataEnd(quote)
        /\ from \in Nat /\ limit \in Nat /\ quote.version >= QUOTE_VERSION_3
    BY DEF IInv, ParseSignature, TypeOK, CursorFollowsTheFormat, ChecksSoFar,
           SizeIsTheDeclaredOne, BeforeReport, OuterParts, QeParts, CertificationHeaderLen
  <1>2. CASE Fits(64, 64)
    <2>1. /\ pc' = "attestKey"
          /\ from' = AttestKeyAt(quote)
          /\ from' = from + 64 /\ touched' = << from, from + 64 >>
          /\ regions' = [ regions EXCEPT !["quoteSignature"] = << from, from + 64 >> ]
          /\ UNCHANGED <<quote, limit, size, outerType, certType>>
      BY <1>1, <1>2, Positions DEF ParseSignature, TakeInto, Take, Region
    <2>2. TypeOK'
      BY <1>1, <2>1, Positions, WordType DEF IInv, TypeOK, Parts, RegionNames
    <2>3. CursorStaysInside'
      BY <1>1, <1>2, <2>1, QuotesAssumption, WordType DEF IInv, TypeOK, CursorStaysInside, Fits
    <2>4. CursorFollowsTheFormat' /\ SizeIsTheDeclaredOne' /\ ChecksSoFar'
      BY <1>1, <1>2, <2>1, Positions 
      DEF IInv, CursorFollowsTheFormat, SizeIsTheDeclaredOne, ChecksSoFar,
          QeLimit, BeforeReport, OuterParts, QeParts, QUOTE_VERSION_3
    <2>5. RegionsSoFar'
      BY <1>1, <2>1, LayoutParts DEF IInv, TypeOK, RegionsSoFar, Copied, RegionNames, AuthParts,
         OuterParts, QeParts, BeforeReport
    <2> QED  BY <2>2, <2>3, <2>4, <2>5 DEF IInv
  <1>3. CASE ~Fits(64, 64)
    <2>1. ~WellFormed(quote)
      BY <1>1, <1>3, Room, QuotesAssumption DEF Fits, WellFormed, QeLimit
    <2> QED  BY <1>1, <1>3, <2>1, RejectKeeps DEF ParseSignature, TakeInto
  <1> QED  BY <1>2, <1>3

\* ParseAttestKey: from here on, versions differ.
LEMMA AttestKeyStep == ASSUME IInv, ParseAttestKey PROVE IInv'
  <1>1. /\ quote \in Quotes /\ pc = "attestKey"
        /\ from = AttestKeyAt(quote) /\ limit = AuthDataEnd(quote)
        /\ from \in Nat /\ limit \in Nat /\ quote.version >= QUOTE_VERSION_3
    BY DEF IInv, ParseAttestKey, TypeOK, CursorFollowsTheFormat, ChecksSoFar,
           SizeIsTheDeclaredOne, BeforeReport, OuterParts, QeParts, CertificationHeaderLen
  <1>2. CASE Fits(64, 64)
    <2>1. /\ pc' = (IF HasQeReportCertificationData(quote) THEN "outerSize" ELSE "qeReport")
          /\ from' = AfterAttestKey(quote)
          /\ from' = from + 64 /\ touched' = << from, from + 64 >>
          /\ regions' = [ regions EXCEPT !["attestKeyData"] = << from, from + 64 >> ]
          /\ UNCHANGED <<quote, limit, size, outerType, certType>>
      BY <1>1, <1>2, Positions DEF ParseAttestKey, TakeInto, Take, Region
    <2>2. TypeOK'
      BY <1>1, <2>1, Positions, WordType DEF IInv, TypeOK, Parts, RegionNames
    <2>3. CursorStaysInside'
      BY <1>1, <1>2, <2>1, QuotesAssumption, WordType DEF IInv, TypeOK, CursorStaysInside, Fits
    <2>4. CursorFollowsTheFormat' /\ SizeIsTheDeclaredOne' /\ ChecksSoFar'
      BY <1>1, <1>2, <2>1, Positions 
      DEF IInv, CursorFollowsTheFormat, SizeIsTheDeclaredOne, ChecksSoFar,
          QeLimit, BeforeReport, OuterParts, QeParts, QUOTE_VERSION_3
    <2>5. RegionsSoFar'
      BY <1>1, <2>1, LayoutParts DEF IInv, TypeOK, RegionsSoFar, Copied, RegionNames, AuthParts,
         OuterParts, QeParts, BeforeReport
    <2> QED  BY <2>2, <2>3, <2>4, <2>5 DEF IInv
  <1>3. CASE ~Fits(64, 64)
    <2>1. ~WellFormed(quote)
      BY <1>1, <1>3, Room, QuotesAssumption DEF Fits, WellFormed, QeLimit
    <2> QED  BY <1>1, <1>3, <2>1, RejectKeeps DEF ParseAttestKey, TakeInto
  <1> QED  BY <1>2, <1>3

\* ParseOuterSize.
LEMMA OuterSizeStep == ASSUME IInv, ParseOuterSize PROVE IInv'
  <1>1. /\ quote \in Quotes /\ pc = "outerSize"
        /\ from = AfterAttestKey(quote) /\ limit = AuthDataEnd(quote)
        /\ from \in Nat /\ limit \in Nat /\ quote.version >= QUOTE_VERSION_3
        /\ HasQeReportCertificationData(quote)
    BY DEF IInv, ParseOuterSize, TypeOK, CursorFollowsTheFormat, ChecksSoFar,
           SizeIsTheDeclaredOne, BeforeReport, OuterParts, QeParts, CertificationHeaderLen
  <1>2. CASE limit - from >= 2 /\ limit - (from + 2) >= 4
    <2>1. /\ pc' = "outerData" /\ from' = AfterAttestKey(quote) + 6
          /\ from' = from + 6 /\ size' = Word(quote, from + 2)
          /\ touched' = << from + 2, from + 2 + 4 >>
          /\ UNCHANGED <<quote, limit, outerType, certType, regions>>
      BY <1>1, <1>2, Positions DEF ParseOuterSize, ReadSize, Region
    <2>2. size' \in Nat
      BY <1>1, <2>1, WordType
    <2>3. TypeOK'
      BY <1>1, <2>1, <2>2 DEF IInv, TypeOK, Parts
    <2>4. CursorStaysInside'
      BY <1>1, <1>2, <2>1, QuotesAssumption DEF IInv, CursorStaysInside
    <2>5. CursorFollowsTheFormat' /\ SizeIsTheDeclaredOne' /\ ChecksSoFar'
      BY <1>1, <2>1 
      DEF IInv, CursorFollowsTheFormat, SizeIsTheDeclaredOne, ChecksSoFar,
          QeLimit, BeforeReport, OuterParts, QeParts, QUOTE_VERSION_3
    <2>6. RegionsSoFar'
      BY <1>1, <2>1 DEF IInv, RegionsSoFar, Copied, AuthParts, OuterParts, QeParts, BeforeReport
    <2> QED  BY <2>3, <2>4, <2>5, <2>6 DEF IInv
  <1>3. CASE ~(limit - from >= 2 /\ limit - (from + 2) >= 4)
    <2>1. ~WellFormed(quote)
      BY <1>1, <1>3, Room, Positions, WordType DEF WellFormed
    <2> QED  BY <1>1, <1>3, <2>1, RejectKeeps DEF ParseOuterSize, ReadSize
  <1> QED  BY <1>2, <1>3

\* ParseQeReport.
LEMMA QeReportStep == ASSUME IInv, ParseQeReport PROVE IInv'
  <1>1. /\ quote \in Quotes /\ pc = "qeReport"
        /\ from = QeReportAt(quote) /\ limit = QeLimit(quote)
        /\ from \in Nat /\ limit \in Nat /\ quote.version >= QUOTE_VERSION_3
    BY DEF IInv, ParseQeReport, TypeOK, CursorFollowsTheFormat, ChecksSoFar,
           SizeIsTheDeclaredOne, BeforeReport, OuterParts, QeParts, CertificationHeaderLen
  <1>2. CASE Fits(384, 384)
    <2>1. /\ pc' = "qeReportSignature"
          /\ from' = QeReportSignatureAt(quote)
          /\ from' = from + 384 /\ touched' = << from, from + 384 >>
          /\ regions' = [ regions EXCEPT !["qeReport"] = << from, from + 384 >> ]
          /\ UNCHANGED <<quote, limit, size, outerType, certType>>
      BY <1>1, <1>2, Positions DEF ParseQeReport, TakeInto, Take, Region
    <2>2. TypeOK'
      BY <1>1, <2>1, Positions, WordType DEF IInv, TypeOK, Parts, RegionNames
    <2>3. CursorStaysInside'
      BY <1>1, <1>2, <2>1, QuotesAssumption, WordType DEF IInv, TypeOK, CursorStaysInside, Fits
    <2>4. CursorFollowsTheFormat' /\ SizeIsTheDeclaredOne' /\ ChecksSoFar'
      BY <1>1, <1>2, <2>1, Positions 
      DEF IInv, CursorFollowsTheFormat, SizeIsTheDeclaredOne, ChecksSoFar,
          QeLimit, BeforeReport, OuterParts, QeParts, QUOTE_VERSION_3
    <2>5. RegionsSoFar'
      BY <1>1, <2>1, LayoutParts DEF IInv, TypeOK, RegionsSoFar, Copied, RegionNames, AuthParts,
         OuterParts, QeParts, BeforeReport
    <2> QED  BY <2>2, <2>3, <2>4, <2>5 DEF IInv
  <1>3. CASE ~Fits(384, 384)
    <2>1. ~WellFormed(quote)
      BY <1>1, <1>3, Room, QuotesAssumption DEF Fits, WellFormed, QeLimit
    <2> QED  BY <1>1, <1>3, <2>1, RejectKeeps DEF ParseQeReport, TakeInto
  <1> QED  BY <1>2, <1>3

\* ParseQeReportSignature.
LEMMA QeReportSignatureStep == ASSUME IInv, ParseQeReportSignature PROVE IInv'
  <1>1. /\ quote \in Quotes /\ pc = "qeReportSignature"
        /\ from = QeReportSignatureAt(quote) /\ limit = QeLimit(quote)
        /\ from \in Nat /\ limit \in Nat /\ quote.version >= QUOTE_VERSION_3
    BY DEF IInv, ParseQeReportSignature, TypeOK, CursorFollowsTheFormat, ChecksSoFar,
           SizeIsTheDeclaredOne, BeforeReport, OuterParts, QeParts, CertificationHeaderLen
  <1>2. CASE Fits(64, 64)
    <2>1. /\ pc' = "qeAuthSize"
          /\ from' = QeAuthDataSizeAt(quote)
          /\ from' = from + 64 /\ touched' = << from, from + 64 >>
          /\ regions' = [ regions EXCEPT !["qeReportSignature"] = << from, from + 64 >> ]
          /\ UNCHANGED <<quote, limit, size, outerType, certType>>
      BY <1>1, <1>2, Positions DEF ParseQeReportSignature, TakeInto, Take, Region
    <2>2. TypeOK'
      BY <1>1, <2>1, Positions, WordType DEF IInv, TypeOK, Parts, RegionNames
    <2>3. CursorStaysInside'
      BY <1>1, <1>2, <2>1, QuotesAssumption, WordType DEF IInv, TypeOK, CursorStaysInside, Fits
    <2>4. CursorFollowsTheFormat' /\ SizeIsTheDeclaredOne' /\ ChecksSoFar'
      BY <1>1, <1>2, <2>1, Positions 
      DEF IInv, CursorFollowsTheFormat, SizeIsTheDeclaredOne, ChecksSoFar,
          QeLimit, BeforeReport, OuterParts, QeParts, QUOTE_VERSION_3
    <2>5. RegionsSoFar'
      BY <1>1, <2>1, LayoutParts DEF IInv, TypeOK, RegionsSoFar, Copied, RegionNames, AuthParts,
         OuterParts, QeParts, BeforeReport
    <2> QED  BY <2>2, <2>3, <2>4, <2>5 DEF IInv
  <1>3. CASE ~Fits(64, 64)
    <2>1. ~WellFormed(quote)
      BY <1>1, <1>3, Room, QuotesAssumption DEF Fits, WellFormed, QeLimit
    <2> QED  BY <1>1, <1>3, <2>1, RejectKeeps DEF ParseQeReportSignature, TakeInto
  <1> QED  BY <1>2, <1>3

\* ParseQeAuthSize.
LEMMA QeAuthSizeStep == ASSUME IInv, ParseQeAuthSize PROVE IInv'
  <1>1. /\ quote \in Quotes /\ pc = "qeAuthSize"
        /\ from = QeAuthDataSizeAt(quote) /\ limit = QeLimit(quote)
        /\ from \in Nat /\ limit \in Nat /\ quote.version >= QUOTE_VERSION_3
    BY DEF IInv, ParseQeAuthSize, TypeOK, CursorFollowsTheFormat, ChecksSoFar,
           SizeIsTheDeclaredOne, BeforeReport, OuterParts, QeParts, CertificationHeaderLen
  <1>2. CASE limit - from >= 0 /\ limit - (from + 0) >= 2
    <2>1. /\ pc' = "qeAuthData" /\ from' = QeAuthDataAt(quote)
          /\ from' = from + 2 /\ size' = Word(quote, from)
          /\ touched' = << from, from + 2 >>
          /\ UNCHANGED <<quote, limit, outerType, certType, regions>>
      BY <1>1, <1>2, Positions, from + 0 = from DEF ParseQeAuthSize, ReadSize, Region
    <2>2. size' \in Nat
      BY <1>1, <2>1, WordType
    <2>3. TypeOK'
      BY <1>1, <2>1, <2>2 DEF IInv, TypeOK, Parts
    <2>4. CursorStaysInside'
      BY <1>1, <1>2, <2>1, QuotesAssumption DEF IInv, CursorStaysInside
    <2>5. CursorFollowsTheFormat' /\ SizeIsTheDeclaredOne' /\ ChecksSoFar'
      BY <1>1, <2>1 
      DEF IInv, CursorFollowsTheFormat, SizeIsTheDeclaredOne, ChecksSoFar,
          QeLimit, BeforeReport, OuterParts, QeParts, QUOTE_VERSION_3
    <2>6. RegionsSoFar'
      BY <1>1, <2>1 DEF IInv, RegionsSoFar, Copied, AuthParts, OuterParts, QeParts, BeforeReport
    <2> QED  BY <2>3, <2>4, <2>5, <2>6 DEF IInv
  <1>3. CASE ~(limit - from >= 0 /\ limit - (from + 0) >= 2)
    <2>1. ~WellFormed(quote)
      BY <1>1, <1>3, Room, Positions, WordType DEF WellFormed
    <2> QED  BY <1>1, <1>3, <2>1, RejectKeeps DEF ParseQeAuthSize, ReadSize
  <1> QED  BY <1>2, <1>3

\* ParseCertSize.
LEMMA CertSizeStep == ASSUME IInv, ParseCertSize PROVE IInv'
  <1>1. /\ quote \in Quotes /\ pc = "certSize"
        /\ from = CertificationAt(quote) /\ limit = QeLimit(quote)
        /\ from \in Nat /\ limit \in Nat /\ quote.version >= QUOTE_VERSION_3
    BY DEF IInv, ParseCertSize, TypeOK, CursorFollowsTheFormat, ChecksSoFar,
           SizeIsTheDeclaredOne, BeforeReport, OuterParts, QeParts, CertificationHeaderLen
  <1>2. CASE limit - from >= 2 /\ limit - (from + 2) >= 4
    <2>1. /\ pc' = "certData" /\ from' = CertificationDataAt(quote)
          /\ from' = from + 6 /\ size' = Word(quote, from + 2)
          /\ touched' = << from + 2, from + 2 + 4 >>
          /\ UNCHANGED <<quote, limit, outerType, certType, regions>>
      BY <1>1, <1>2, Positions DEF ParseCertSize, ReadSize, Region
    <2>2. size' \in Nat
      BY <1>1, <2>1, WordType
    <2>3. TypeOK'
      BY <1>1, <2>1, <2>2 DEF IInv, TypeOK, Parts
    <2>4. CursorStaysInside'
      BY <1>1, <1>2, <2>1, QuotesAssumption DEF IInv, CursorStaysInside
    <2>5. CursorFollowsTheFormat' /\ SizeIsTheDeclaredOne' /\ ChecksSoFar'
      BY <1>1, <2>1 
      DEF IInv, CursorFollowsTheFormat, SizeIsTheDeclaredOne, ChecksSoFar,
          QeLimit, BeforeReport, OuterParts, QeParts, QUOTE_VERSION_3
    <2>6. RegionsSoFar'
      BY <1>1, <2>1 DEF IInv, RegionsSoFar, Copied, AuthParts, OuterParts, QeParts, BeforeReport
    <2> QED  BY <2>3, <2>4, <2>5, <2>6 DEF IInv
  <1>3. CASE ~(limit - from >= 2 /\ limit - (from + 2) >= 4)
    <2>1. ~WellFormed(quote)
      BY <1>1, <1>3, Room, Positions, WordType DEF WellFormed
    <2> QED  BY <1>1, <1>3, <2>1, RejectKeeps DEF ParseCertSize, ReadSize
  <1> QED  BY <1>2, <1>3

\* ParseHeader.
LEMMA HeaderStep == ASSUME IInv, ParseHeader PROVE IInv'
  <1>1. /\ quote \in Quotes /\ pc = "header" /\ from = 0 /\ limit = quote.size
        /\ quote.size \in Nat /\ quote.version \in Nat
    BY QuotesAssumption DEF IInv, ParseHeader, TypeOK, CursorFollowsTheFormat, BeforeReport
  <1>2. QUOTE_MIN_BYTE_LEN \in Nat /\ QUOTE_MIN_BYTE_LEN >= 48 /\ HeaderFields = 48
    BY DEF QUOTE_MIN_BYTE_LEN, HeaderFields
  <1>3. CASE quote.size >= QUOTE_MIN_BYTE_LEN /\ Fits(48, HeaderFields)
    <2>1. /\ pc' = (IF quote.version > QUOTE_VERSION_4 THEN "body" ELSE "report")
          /\ from' = 48 /\ touched' = << 0, 48 >>
          /\ UNCHANGED <<quote, limit, size, outerType, certType, regions>>
      BY <1>1, <1>2, <1>3 DEF ParseHeader, Take, Region
    <2>2. TypeOK'
      BY <1>1, <2>1 DEF IInv, TypeOK, Parts
    <2>3. CursorStaysInside'
      BY <1>1, <1>2, <1>3, <2>1 DEF CursorStaysInside
    <2>4. CursorFollowsTheFormat' /\ SizeIsTheDeclaredOne' /\ ChecksSoFar'
      BY <1>1, <1>3, <2>1 DEF CursorFollowsTheFormat, SizeIsTheDeclaredOne, ChecksSoFar,
         ReportAt, HasBody, BodyFits, BeforeReport, OuterParts, QeParts
    <2>5. RegionsSoFar'
      BY <1>1, <2>1 DEF RegionsSoFar, Copied, AuthParts, OuterParts, QeParts, BeforeReport
    <2> QED  BY <2>2, <2>3, <2>4, <2>5 DEF IInv
  <1>4. CASE ~(quote.size >= QUOTE_MIN_BYTE_LEN /\ Fits(48, HeaderFields))
    <2>1. ~WellFormed(quote)
      BY <1>1, <1>2, <1>4 DEF Fits, WellFormed, Parsable
    <2> QED  BY <1>1, <1>4, <2>1, RejectKeeps DEF ParseHeader
  <1> QED  BY <1>3, <1>4

\* ParseBody.
LEMMA BodyStep == ASSUME IInv, ParseBody PROVE IInv'
  <1>1. /\ quote \in Quotes /\ pc = "body" /\ from = 48 /\ limit = quote.size
        /\ quote.size \in Nat /\ HasBody(quote) /\ quote.size >= QUOTE_MIN_BYTE_LEN
    BY QuotesAssumption
    DEF IInv, ParseBody, TypeOK, CursorFollowsTheFormat, ChecksSoFar, BeforeReport
  <1>2. QUOTE_MIN_BYTE_LEN \in Nat /\ QUOTE_MIN_BYTE_LEN >= 54 /\ BodyFields = 6
    BY DEF QUOTE_MIN_BYTE_LEN, BodyFields
  <1>3. Fits(6, BodyFields)
    BY <1>1, <1>2 DEF Fits
  <1>4. CASE BodyFits(quote)
    <2>1. /\ pc' = "report" /\ from' = 54 /\ touched' = << 48, 54 >>
          /\ UNCHANGED <<quote, limit, size, outerType, certType, regions>>
      BY <1>1, <1>2, <1>3, <1>4 DEF ParseBody, Take, Region
    <2>2. TypeOK'
      BY <1>1, <2>1 DEF IInv, TypeOK, Parts
    <2>3. CursorStaysInside'
      BY <1>1, <1>2, <2>1 DEF CursorStaysInside
    <2>4. CursorFollowsTheFormat' /\ SizeIsTheDeclaredOne' /\ ChecksSoFar'
      BY <1>1, <1>4, <2>1 DEF CursorFollowsTheFormat, SizeIsTheDeclaredOne, ChecksSoFar,
         ReportAt, BeforeReport, OuterParts, QeParts
    <2>5. RegionsSoFar'
      BY <1>1, <2>1 DEF RegionsSoFar, Copied, AuthParts, OuterParts, QeParts, BeforeReport
    <2> QED  BY <2>2, <2>3, <2>4, <2>5 DEF IInv
  <1>5. CASE ~BodyFits(quote)
    BY <1>1, <1>5, RejectKeeps DEF ParseBody, WellFormed, Parsable
  <1> QED  BY <1>4, <1>5

\* A report of a known type is read in full, and what is signed ends with it.
LEMMA ReportLengths ==
    ASSUME NEW q \in Quotes, BodyFits(q), ReportType(q) # 0
    PROVE  /\ ReportFields(ReportType(q)) = ReportLength(ReportType(q))
           /\ ReportLength(ReportType(q)) \in Nat
  <1>1. ReportType(q) \in 1 .. 4
    BY DEF BodyFits, ReportType, ALLOWED_BODY_TYPES, BODY_SGX_ENCLAVE_REPORT_TYPE,
           BODY_TD_REPORT10_TYPE
  <1> QED
    BY <1>1
    DEF ReportFields, ReportLength, EnclaveReportFields, TDReport10Fields, TDReport15Fields,
        TDReport15ExFields, TD_REPORT10_BYTE_LEN, TD_REPORT15_BYTE_LEN, TD_REPORT15EX_BYTE_LEN,
        BODY_SGX_ENCLAVE_REPORT_TYPE, BODY_TD_REPORT10_TYPE, BODY_TD_REPORT15_TYPE,
        BODY_TD_REPORT15EX_TYPE

\* ParseReport.
LEMMA ReportStep == ASSUME IInv, ParseReport PROVE IInv'
  <1> DEFINE type == ReportType(quote)
             len  == ReportLength(type)
  <1>1. /\ quote \in Quotes /\ pc = "report" /\ from = ReportAt(quote) /\ limit = quote.size
        /\ from \in Nat /\ limit \in Nat
        /\ BodyFits(quote) /\ quote.size >= QUOTE_MIN_BYTE_LEN
    BY DEF IInv, ParseReport, TypeOK, CursorFollowsTheFormat, ChecksSoFar, BeforeReport
  <1>2. AuthDataSizeAt(quote) = from + len /\ len \in Nat
    BY <1>1, Positions
  <1>3. CASE type = 0
    <2>1. /\ pc' = "authDataSize"
          /\ UNCHANGED <<quote, from, limit, size, outerType, certType, regions, touched>>
      BY <1>1, <1>3 DEF ParseReport
    <2>2. from = AuthDataSizeAt(quote)
      BY <1>1, <1>2, <1>3 DEF ReportLength, BODY_SGX_ENCLAVE_REPORT_TYPE, BODY_TD_REPORT10_TYPE,
         BODY_TD_REPORT15_TYPE, BODY_TD_REPORT15EX_TYPE
    <2>3. TypeOK' /\ CursorStaysInside'
      BY <1>1, <2>1 DEF IInv, TypeOK, Parts, CursorStaysInside
    <2>4. CursorFollowsTheFormat' /\ SizeIsTheDeclaredOne' /\ ChecksSoFar'
      BY <1>1, <2>1, <2>2 DEF CursorFollowsTheFormat, SizeIsTheDeclaredOne, ChecksSoFar,
         BeforeReport, OuterParts, QeParts
    <2>5. RegionsSoFar'
      BY <1>1, <1>3, <2>1 DEF RegionsSoFar, Copied, AuthParts, OuterParts, QeParts
    <2> QED  BY <2>3, <2>4, <2>5 DEF IInv
  <1>4. CASE type # 0 /\ limit - from >= len
    <2>1. ReportFields(type) = len
      BY <1>1, <1>4, ReportLengths
    <2>2. Fits(len, ReportFields(type))
      BY <1>2, <1>4, <2>1 DEF Fits
    <2>3. SignedLength(type) = AuthDataSizeAt(quote)
      BY <1>1, <1>2 DEF SignedLength, ReportAt
    <2>4. /\ pc' = "authDataSize" /\ from' = from + len /\ touched' = << from, from + len >>
          /\ regions' = [ regions EXCEPT !["signedData"] = << 0, 0 + AuthDataSizeAt(quote) >> ]
          /\ UNCHANGED <<quote, limit, size, outerType, certType>>
      BY <1>1, <1>4, <2>1, <2>2, <2>3 DEF ParseReport, Take, Region
    <2>5. from' \in Nat /\ AuthDataSizeAt(quote) \in Nat
      BY <1>1, <1>2, <2>4
    <2>6. TypeOK'
      BY <1>1, <2>4, <2>5 DEF IInv, TypeOK, Parts, RegionNames
    <2>7. CursorStaysInside'
      BY <1>1, <1>2, <1>4, <2>4 DEF IInv, CursorStaysInside
    <2>8. CursorFollowsTheFormat' /\ SizeIsTheDeclaredOne' /\ ChecksSoFar'
      BY <1>1, <1>2, <2>4 DEF CursorFollowsTheFormat, SizeIsTheDeclaredOne, ChecksSoFar,
         BeforeReport, OuterParts, QeParts
    <2>9. RegionsSoFar'
      BY <1>1, <2>4, LayoutParts
      DEF IInv, TypeOK, RegionsSoFar, RegionNames, Copied, AuthParts, OuterParts, QeParts
    <2> QED  BY <2>6, <2>7, <2>8, <2>9 DEF IInv
  <1>5. CASE type # 0 /\ ~(limit - from >= len)
    <2>1. ~WellFormed(quote)
      BY <1>1, <1>2, <1>5, Positions, WordType DEF WellFormed, Parsable
    <2>2. ~Fits(len, ReportFields(type))
      BY <1>5 DEF Fits
    <2> QED  BY <1>1, <1>5, <2>1, <2>2, RejectKeeps DEF ParseReport
  <1> QED  BY <1>3, <1>4, <1>5

\* ParseAuthDataSize.
LEMMA AuthDataSizeStep == ASSUME IInv, ParseAuthDataSize PROVE IInv'
  <1> DEFINE declared == Word(quote, from)
  <1>1. /\ quote \in Quotes /\ pc = "authDataSize"
        /\ from = AuthDataSizeAt(quote) /\ limit = quote.size
        /\ from \in Nat /\ limit \in Nat /\ declared \in Nat
        /\ quote.version \in Nat /\ BodyFits(quote) /\ quote.size >= QUOTE_MIN_BYTE_LEN
    BY QuotesAssumption, WordType
    DEF IInv, ParseAuthDataSize, TypeOK, CursorFollowsTheFormat, ChecksSoFar
  <1>2. /\ AuthDataAt(quote) = from + 4 /\ AuthDataEnd(quote) = from + 4 + declared
    BY <1>1, Positions
  <1>3. CASE limit - from >= 4 /\ declared <= limit - (from + 4)
    <2>1. /\ pc' = (IF quote.version < QUOTE_VERSION_3 THEN "validate" ELSE "signature")
          /\ from' = from + 4 /\ limit' = from + 4 + declared /\ size' = declared
          /\ touched' = << from, from + 4 >>
          /\ UNCHANGED <<quote, outerType, certType, regions>>
      BY <1>1, <1>3 DEF ParseAuthDataSize, Region
    <2>2. TypeOK'
      BY <1>1, <2>1 DEF IInv, TypeOK, Parts
    <2>3. CursorStaysInside'
      BY <1>1, <1>3, <2>1 DEF CursorStaysInside
    <2>4. AuthDataEnd(quote) <= quote.size
      BY <1>1, <1>2, <1>3
    <2>5. CursorFollowsTheFormat' /\ SizeIsTheDeclaredOne' /\ ChecksSoFar'
      BY <1>1, <1>2, <2>1, <2>4 DEF CursorFollowsTheFormat, SizeIsTheDeclaredOne, ChecksSoFar,
         BeforeReport, OuterParts, QeParts, HasQeReportCertificationData, QUOTE_VERSION_3
    <2>6. RegionsSoFar'
      BY <1>1, <2>1
      DEF IInv, RegionsSoFar, Copied, AuthParts, OuterParts, QeParts, BeforeReport,
          QUOTE_VERSION_3
    <2> QED  BY <2>2, <2>3, <2>5, <2>6 DEF IInv
  <1>4. CASE ~(limit - from >= 4 /\ declared <= limit - (from + 4))
    <2>1. ~WellFormed(quote)
      BY <1>1, <1>2, <1>4 DEF WellFormed, Parsable
    <2> QED  BY <1>1, <1>4, <2>1, RejectKeeps DEF ParseAuthDataSize
  <1> QED  BY <1>3, <1>4

\* ParseOuterData: the size read again is the one read before.
LEMMA OuterDataStep == ASSUME IInv, ParseOuterData PROVE IInv'
  <1>1. /\ quote \in Quotes /\ pc = "outerData"
        /\ from = AfterAttestKey(quote) + 6 /\ limit = AuthDataEnd(quote)
        /\ size = Word(quote, AfterAttestKey(quote) + 2)
        /\ from \in Nat /\ limit \in Nat /\ size \in Nat /\ limit <= quote.size
        /\ quote.size \in Nat
        /\ quote.version >= QUOTE_VERSION_3 /\ HasQeReportCertificationData(quote)
    BY QuotesAssumption
    DEF IInv, ParseOuterData, TypeOK, CursorStaysInside, CursorFollowsTheFormat, ChecksSoFar,
        SizeIsTheDeclaredOne, OuterParts, QeParts
  <1>2. /\ from - 6 = AfterAttestKey(quote) /\ AfterAttestKey(quote) \in Nat
        /\ QeReportAt(quote) = from /\ OuterEnd(quote) = from + size
        /\ QeLimit(quote) = from + size
    BY <1>1, Positions DEF QeLimit
  <1>3. SizedStart(6) = AfterAttestKey(quote)
    BY <1>2 DEF SizedStart
  <1>4. CASE limit - AfterAttestKey(quote) >= size + 6
    <2>1. /\ pc' = "qeReport" /\ from' = from /\ limit' = from + size
          /\ outerType' = Word(quote, AfterAttestKey(quote))
          /\ touched' = << AfterAttestKey(quote), from + size >>
          /\ UNCHANGED <<quote, size, certType, regions>>
      <3>1. SizedFits(6, 2)
        BY <1>1, <1>3, <1>4 DEF SizedFits
      <3>2. AfterAttestKey(quote) + (6 + size) = from + size
        BY <1>1, <1>2
      <3> QED
        BY <1>1, <1>3, <3>1, <3>2 DEF ParseOuterData, Region
    <2>2. TypeOK'
      BY <1>1, <1>2, <2>1, WordType DEF IInv, TypeOK, Parts
    <2>3. CursorStaysInside'
      BY <1>1, <1>2, <1>4, <2>1 DEF CursorStaysInside
    <2>4. QeLimit(quote) <= AuthDataEnd(quote)
      BY <1>1, <1>2, <1>4
    <2>5. CursorFollowsTheFormat' /\ SizeIsTheDeclaredOne'
      BY <1>1, <1>2, <2>1 DEF CursorFollowsTheFormat, SizeIsTheDeclaredOne,
         BeforeReport, OuterParts, QeParts
    <2>6. ChecksSoFar'
      BY <1>1, <2>1, <2>4 DEF IInv, ChecksSoFar, QeLimit, OuterParts, QeParts
    <2>7. RegionsSoFar'
      BY <1>1, <2>1 DEF IInv, RegionsSoFar, Copied, AuthParts, OuterParts, QeParts, BeforeReport
    <2> QED  BY <2>2, <2>3, <2>5, <2>6, <2>7 DEF IInv
  <1>5. CASE ~(limit - AfterAttestKey(quote) >= size + 6)
    <2>1. ~WellFormed(quote)
      BY <1>1, <1>2, <1>5, Room DEF WellFormed
    <2>2. ~SizedFits(6, 2)
      BY <1>3, <1>5 DEF SizedFits
    <2> QED  BY <1>1, <2>1, <2>2, RejectKeeps DEF ParseOuterData
  <1> QED  BY <1>4, <1>5

\* ParseQeAuthData.
LEMMA QeAuthDataStep == ASSUME IInv, ParseQeAuthData PROVE IInv'
  <1>1. /\ quote \in Quotes /\ pc = "qeAuthData"
        /\ from = QeAuthDataAt(quote) /\ limit = QeLimit(quote)
        /\ size = Word(quote, QeAuthDataSizeAt(quote))
        /\ from \in Nat /\ limit \in Nat /\ size \in Nat /\ limit <= quote.size
        /\ quote.size \in Nat /\ quote.version >= QUOTE_VERSION_3
    BY QuotesAssumption
    DEF IInv, ParseQeAuthData, TypeOK, CursorStaysInside, CursorFollowsTheFormat, ChecksSoFar,
        SizeIsTheDeclaredOne, OuterParts, QeParts
  <1>2. /\ from - 2 = QeAuthDataSizeAt(quote) /\ QeAuthDataSizeAt(quote) \in Nat
        /\ QeAuthDataSizeAt(quote) + 0 = QeAuthDataSizeAt(quote)
        /\ CertificationAt(quote) = from + size
    BY <1>1, Positions
  <1>3. SizedStart(2) = QeAuthDataSizeAt(quote)
    BY <1>2 DEF SizedStart
  <1>4. CASE limit - QeAuthDataSizeAt(quote) >= size + 2
    <2>1. /\ pc' = "certSize" /\ from' = from + size
          /\ touched' = << QeAuthDataSizeAt(quote), from + size >>
          /\ regions' = [ regions EXCEPT !["qeAuthData"] = << from, from + size >> ]
          /\ UNCHANGED <<quote, limit, size, outerType, certType>>
      <3>1. SizedFits(2, 0)
        BY <1>1, <1>2, <1>3, <1>4 DEF SizedFits
      <3>2. /\ QeAuthDataSizeAt(quote) + (2 + size) = from + size
            /\ QeAuthDataSizeAt(quote) + 2 = from
        BY <1>1, <1>2
      <3> QED
        BY <1>1, <1>3, <3>1, <3>2 DEF ParseQeAuthData, Region
    <2>2. TypeOK'
      BY <1>1, <1>2, <2>1 DEF IInv, TypeOK, Parts, RegionNames
    <2>3. CursorStaysInside'
      BY <1>1, <1>2, <1>4, <2>1 DEF CursorStaysInside
    <2>4. CursorFollowsTheFormat' /\ SizeIsTheDeclaredOne' /\ ChecksSoFar'
      BY <1>1, <1>2, <2>1 DEF IInv, CursorFollowsTheFormat, SizeIsTheDeclaredOne, ChecksSoFar,
         QeLimit, BeforeReport, OuterParts, QeParts
    <2>5. RegionsSoFar'
      BY <1>1, <2>1, LayoutParts DEF IInv, TypeOK, RegionsSoFar, Copied, RegionNames, AuthParts,
         OuterParts, QeParts, BeforeReport
    <2> QED  BY <2>2, <2>3, <2>4, <2>5 DEF IInv
  <1>5. CASE ~(limit - QeAuthDataSizeAt(quote) >= size + 2)
    <2>1. ~WellFormed(quote)
      BY <1>1, <1>2, <1>5, Room DEF WellFormed
    <2>2. ~SizedFits(2, 0)
      BY <1>3, <1>5 DEF SizedFits
    <2> QED  BY <1>1, <2>1, <2>2, RejectKeeps DEF ParseQeAuthData
  <1> QED  BY <1>4, <1>5

\* ParseCertData: all of the format has been seen.
LEMMA CertDataStep == ASSUME IInv, ParseCertData PROVE IInv'
  <1>1. /\ quote \in Quotes /\ pc = "certData"
        /\ from = CertificationDataAt(quote) /\ limit = QeLimit(quote)
        /\ size = Word(quote, CertificationAt(quote) + 2)
        /\ from \in Nat /\ limit \in Nat /\ size \in Nat /\ limit <= quote.size
        /\ quote.size \in Nat /\ quote.version \in Nat
    BY QuotesAssumption
    DEF IInv, ParseCertData, TypeOK, CursorStaysInside, CursorFollowsTheFormat,
        SizeIsTheDeclaredOne, OuterParts, QeParts
  <1>2. /\ quote.size >= QUOTE_MIN_BYTE_LEN /\ BodyFits(quote) /\ quote.version >= QUOTE_VERSION_3
        /\ AuthDataEnd(quote) <= quote.size /\ QeLimit(quote) <= AuthDataEnd(quote)
    BY <1>1 DEF IInv, ChecksSoFar, QeParts
  <1>3. /\ from - 6 = CertificationAt(quote) /\ CertificationAt(quote) \in Int
        /\ CertificationEnd(quote) = from + size
    BY <1>1, Positions, WordType
  <1>4. SizedStart(6) = CertificationAt(quote)
    BY <1>3 DEF SizedStart
  <1>5. /\ CertificationAt(quote) + 6 = from
        /\ CertificationAt(quote) + (6 + size) = from + size
    BY <1>1, <1>3
  <1>6. CASE limit - CertificationAt(quote) >= size + 6 /\ NothingLeft(from + size)
    <2>1. /\ pc' = "validate" /\ from' = from + size
          /\ certType' = Word(quote, CertificationAt(quote))
          /\ touched' = << CertificationAt(quote), from + size >>
          /\ regions' = [ regions EXCEPT !["certificationData"] = << from, from + size >> ]
          /\ UNCHANGED <<quote, limit, size, outerType>>
      <3>1. SizedFits(6, 2)
        BY <1>1, <1>4, <1>6 DEF SizedFits
      <3> QED
        BY <1>1, <1>4, <1>5, <1>6, <3>1 DEF ParseCertData, Region
    <2>2. CertificationAt(quote) \in Nat
      BY <1>1, <1>3, Positions, WordType
    <2>3. TypeOK'
      BY <1>1, <2>1, <2>2, WordType DEF IInv, TypeOK, Parts, RegionNames
    <2>4. CursorStaysInside'
      BY <1>1, <1>3, <1>6, <2>1 DEF CursorStaysInside
    <2>5. Parsable(quote)
      <3>1. CASE HasQeReportCertificationData(quote)
        BY <1>1, <1>2, <1>3, <1>6, <3>1
        DEF Parsable, NothingLeft, QeLimit, HasQeReportCertificationData, QUOTE_VERSION_3
      <3>2. CASE ~HasQeReportCertificationData(quote)
        <4>1. CertificationEnd(quote) <= limit
          BY <1>1, <1>3, <1>6
        <4> QED  BY <1>1, <1>2, <4>1, <3>2 DEF Parsable, QeLimit
      <3> QED  BY <3>1, <3>2
    <2>6. CursorFollowsTheFormat' /\ SizeIsTheDeclaredOne'
      BY <2>1 DEF CursorFollowsTheFormat, SizeIsTheDeclaredOne, BeforeReport, OuterParts, QeParts
    <2>7. ChecksSoFar'
      BY <1>1, <1>2, <2>1, <2>5 DEF IInv, ChecksSoFar, OuterParts, QeParts
    <2>8. RegionsSoFar'
      BY <1>1, <2>1, LayoutParts DEF IInv, TypeOK, RegionsSoFar, Copied, RegionNames, AuthParts,
         OuterParts, QeParts, BeforeReport
    <2> QED  BY <2>3, <2>4, <2>6, <2>7, <2>8 DEF IInv
  <1>7. CASE ~(limit - CertificationAt(quote) >= size + 6 /\ NothingLeft(from + size))
    <2>1. ~WellFormed(quote)
      BY <1>1, <1>2, <1>3, <1>7, Room DEF WellFormed, NothingLeft
    <2>2. ~(SizedFits(6, 2) /\ NothingLeft(from + size))
      BY <1>4, <1>7 DEF SizedFits
    <2> QED  BY <1>1, <1>4, <1>5, <2>1, <2>2, RejectKeeps DEF ParseCertData
  <1> QED  BY <1>6, <1>7

\* Quote::validate accepts what the format supports, whichever way it says so.
LEMMA ValidateStep == ASSUME IInv, Validate PROVE IInv'
  <1>1. /\ quote \in Quotes /\ pc = "validate" /\ quote.version \in Nat /\ certType \in Nat
        /\ UNCHANGED <<quote, from, limit, size, outerType, certType, regions, touched>>
        /\ pc' = (IF Acceptable THEN "accepted" ELSE "rejected")
    BY QuotesAssumption DEF IInv, Validate, TypeOK
  <1>2. /\ quote.version >= QUOTE_VERSION_3 =>
              Parsable(quote) /\ certType = Word(quote, CertificationAt(quote))
        /\ HasQeReportCertificationData(quote) => outerType = Word(quote, AfterAttestKey(quote))
    BY <1>1 DEF IInv, ChecksSoFar
  <1>3. Acceptable <=> Supported(quote) /\ quote.version >= QUOTE_VERSION_3
    BY <1>1, <1>2
    DEF Acceptable, Supported, HasBody, HasQeReportCertificationData, QUOTE_VERSION_3,
        QUOTE_VERSION_4, QUOTE_VERSION_5, TEE_TYPE_SGX, TEE_TYPE_TDX, ReportType, BodyFits,
        Parsable
  <1>4. Acceptable <=> WellFormed(quote)
    BY <1>2, <1>3 DEF WellFormed, Supported, QUOTE_VERSION_3, QUOTE_VERSION_4, QUOTE_VERSION_5
  <1>5. TypeOK' /\ CursorStaysInside' /\ CursorFollowsTheFormat' /\ SizeIsTheDeclaredOne'
    BY <1>1 DEF IInv, TypeOK, Parts, Decided, CursorStaysInside, CursorFollowsTheFormat,
       SizeIsTheDeclaredOne, BeforeReport, OuterParts, QeParts
  <1>6. ChecksSoFar'
    BY <1>1, <1>4 DEF IInv, ChecksSoFar, OuterParts, QeParts
  <1>7. RegionsSoFar'
    BY <1>1 DEF IInv, RegionsSoFar, Copied, AuthParts, OuterParts, QeParts, BeforeReport
  <1> QED  BY <1>5, <1>6, <1>7 DEF IInv

(***************************************************************************)
(* The invariant is inductive.                                             *)
(***************************************************************************)
LEMMA Initial == Init => IInv
  <1> SUFFICES ASSUME Init PROVE IInv
    OBVIOUS
  <1>1. quote \in Quotes /\ quote.size \in Nat
    BY QuotesAssumption DEF Init
  <1>2. TypeOK /\ CursorStaysInside
    BY <1>1 DEF Init, TypeOK, CursorStaysInside, NoRegions, Region, Parts
  <1>3. CursorFollowsTheFormat /\ SizeIsTheDeclaredOne /\ ChecksSoFar /\ RegionsSoFar
    BY DEF Init, CursorFollowsTheFormat, SizeIsTheDeclaredOne, ChecksSoFar, RegionsSoFar, Copied,
       AuthParts, BeforeReport, OuterParts, QeParts
  <1> QED  BY <1>2, <1>3 DEF IInv

LEMMA Invariance == IInv /\ [Next]_vars => IInv'
  <1> SUFFICES ASSUME IInv, [Next]_vars PROVE IInv'
    OBVIOUS
  <1>1. CASE UNCHANGED vars
    BY <1>1 DEF IInv, vars, TypeOK, CursorStaysInside, CursorFollowsTheFormat,
       SizeIsTheDeclaredOne, ChecksSoFar, RegionsSoFar, Copied
  <1>2. CASE Next
    BY <1>2, HeaderStep, BodyStep, ReportStep, AuthDataSizeStep, SignatureStep, AttestKeyStep,
       OuterSizeStep, OuterDataStep, QeReportStep, QeReportSignatureStep, QeAuthSizeStep,
       QeAuthDataStep, CertSizeStep, CertDataStep, ValidateStep DEF Next
  <1> QED  BY <1>1, <1>2

THEOREM InvariantHolds == Spec => []IInv
  BY Initial, Invariance, PTL DEF Spec

\* Positions, sizes and types are naturals at every step of Quote::parse.
THEOREM TypeCorrect == Spec => []TypeOK
  <1>1. IInv => TypeOK
    BY DEF IInv
  <1> QED  BY <1>1, InvariantHolds, PTL

\* For every quote: no step of Quote::parse looks beyond its end.
THEOREM CursorStaysInsideHolds == Spec => []CursorStaysInside
  <1>1. IInv => CursorStaysInside
    BY DEF IInv
  <1> QED  BY <1>1, InvariantHolds, PTL

\* For every quote: parse and validate accept it only if it is of the format,
\* and reject it only if it is not.
THEOREM AcceptsTheFormatHolds == Spec => []AcceptsTheFormat
  <1>1. IInv => AcceptsTheFormat
    BY DEF IInv, ChecksSoFar, AcceptsTheFormat
  <1> QED  BY <1>1, InvariantHolds, PTL

\* The parts of an accepted quote, from the invariant.
LEMMA AcceptedParts ==
    ASSUME IInv, pc = "accepted"
    PROVE  \A name \in RegionNames : regions[name] = Layout(quote)[name]
<1>1. WellFormed(quote)
  BY DEF IInv, ChecksSoFar
<1>2. quote.version >= QUOTE_VERSION_3
  BY <1>1 DEF WellFormed, Supported, QUOTE_VERSION_3, QUOTE_VERSION_4, QUOTE_VERSION_5
<1>3. ReportType(quote) # 0
  BY <1>1 DEF WellFormed, Supported, Parsable, BodyFits, ReportType, ALLOWED_BODY_TYPES,
     BODY_SGX_ENCLAVE_REPORT_TYPE, BODY_TD_REPORT10_TYPE
<1>. QED
  BY <1>2, <1>3 DEF IInv, RegionsSoFar, Copied, AuthParts, OuterParts, QeParts, BeforeReport, RegionNames

\* For every quote that is accepted: each part was copied from its place.
THEOREM PartsAreWhereTheyBelongHolds == Spec => []PartsAreWhereTheyBelong
  <1>1. IInv => PartsAreWhereTheyBelong
    BY AcceptedParts DEF PartsAreWhereTheyBelong
  <1> QED  BY <1>1, InvariantHolds, PTL

(***************************************************************************)
(* What an accepted quote answers. Lengths are given by name from here on. *)
(***************************************************************************)
HIDE DEF HEADER_BYTE_LEN, BODY_BYTE_SIZE, AUTH_DATA_SIZE_BYTE_LEN, ECDSA_SIGNATURE_BYTE_LEN,
         ECDSA_PUBKEY_BYTE_LEN, ENCLAVE_REPORT_BYTE_LEN, QE_AUTH_DATA_SIZE_BYTE_LEN,
         CERTIFICATION_DATA_TYPE_BYTE_LEN, CERTIFICATION_DATA_SIZE_BYTE_LEN,
         CertificationHeaderLen

(***************************************************************************)
(* Lists and loops. What a recursive function computes is shown by the     *)
(* least place where it would differ.                                      *)
(***************************************************************************)
LEMMA LeastNumber ==
    ASSUME NEW S \in SUBSET Nat, S # {}
    PROVE  \E i \in S : \A j \in S : i <= j
<1> DEFINE R == { pair \in Nat \X Nat : pair[1] < pair[2] }
<1>1. IsWellFoundedOn(R, Nat)
  BY NatLessThanWellFounded DEF OpToRel
<1>2. \A x, y \in Nat : << x, y >> \in R <=> x < y
  OBVIOUS
<1>. HIDE DEF R
<1>3. PICK x \in S : \A y \in S : << y, x >> \notin R
  BY <1>1, WFMin
<1>4. \A y \in S : ~(y < x)
  BY <1>2, <1>3
<1>. QED BY <1>4

\* A set of numbers is all of 1 .. n if it has the first and, with each, the next.
LEMMA FromTheFirst ==
    ASSUME NEW n \in Nat, NEW S, 1 \in S, \A k \in 1 .. (n - 1) : k \in S => k + 1 \in S
    PROVE  1 .. n \subseteq S
<1> DEFINE T == { k \in 1 .. n : k \notin S }
<1>1. CASE T = {}
  BY <1>1
<1>2. CASE T # {}
  <2>1. T \in SUBSET Nat
    OBVIOUS
  <2>2. PICK i \in T : \A j \in T : i <= j
    BY <1>2, <2>1, LeastNumber
  <2>3. i \in 1 .. n /\ i # 1 /\ i - 1 \in 1 .. (n - 1) /\ (i - 1) + 1 = i
    BY <2>2
  <2>4. i - 1 \notin T
    BY <2>2, <2>3
  <2>5. i - 1 \in S
    BY <2>3, <2>4
  <2>6. i \in S
    BY <2>3, <2>5
  <2>. QED BY <2>2, <2>6
<1>. QED BY <1>1, <1>2

\* The places of the first m of n parts, w wide.
Placing(f, m, w, position) ==
    /\ f \in [ 1 .. (m + 1) -> Nat ] /\ f[1] = position
    /\ \A k \in 1 .. m : f[k + 1] = f[k] + w[k]

LEMMA PlacesExist ==
    ASSUME NEW n \in Nat, NEW w \in [ 1 .. n -> Nat ], NEW position \in Nat
    PROVE  \E f : Placing(f, n, w, position)
<1> DEFINE S == { m \in Nat : m \in 1 .. (n + 1) /\ \E f : Placing(f, m - 1, w, position) }
<1>1. 1 \in S
  <2>1. Placing([ k \in 1 .. (0 + 1) |-> position ], 0, w, position)
    BY DEF Placing
  <2>. QED BY <2>1
<1>2. ASSUME NEW m \in 1 .. n, m \in S PROVE m + 1 \in S
  <2>1. PICK f : Placing(f, m - 1, w, position)
    BY <1>2
  <2> DEFINE g == [ k \in 1 .. (m + 1) |-> IF k = m + 1 THEN f[m] + w[m] ELSE f[k] ]
  <2>2. f \in [ 1 .. m -> Nat ] /\ f[1] = position /\ \A k \in 1 .. (m - 1) : f[k + 1] = f[k] + w[k]
    BY <2>1 DEF Placing
  <2>3. f[m] + w[m] \in Nat
    BY <2>2
  <2>4. g \in [ 1 .. (m + 1) -> Nat ] /\ g[1] = position
    BY <2>2, <2>3
  <2>5. \A k \in 1 .. m : g[k + 1] = g[k] + w[k]
    BY <2>2
  <2>6. Placing(g, m, w, position)
    BY <2>4, <2>5 DEF Placing
  <2>. QED BY <2>6
<1>3. 1 .. (n + 1) \subseteq S
  <2>1. \A k \in 1 .. ((n + 1) - 1) : k \in S => k + 1 \in S
    BY <1>2
  <2>2. n + 1 \in Nat
    OBVIOUS
  <2>. HIDE DEF S
  <2>. QED BY <1>1, <2>1, <2>2, FromTheFirst
<1>4. n + 1 \in S /\ (n + 1) - 1 = n
  BY <1>3
<1>. QED BY <1>4

\* The cursor of insert, from member to member.
LEMMA StartsAre ==
    ASSUME NEW order, NEW n \in Nat, Len(order) = n, \A k \in 1 .. n : Width[order[k]] \in Nat,
           NEW position \in Nat, NEW at, at = Starts(order, position)
    PROVE  Placing(at, n, [ k \in 1 .. n |-> Width[order[k]] ], position)
<1> DEFINE w == [ k \in 1 .. n |-> Width[order[k]] ]
<1>1. PICK f : Placing(f, n, w, position)
  BY PlacesExist
<1>2. f = [ k \in 1 .. (n + 1) |-> IF k = 1 THEN position ELSE f[k - 1] + Width[order[k - 1]] ]
  <2>1. \A k \in 2 .. (n + 1) : f[k] = f[k - 1] + Width[order[k - 1]]
    <3>. SUFFICES ASSUME NEW k \in 2 .. (n + 1) PROVE f[k] = f[k - 1] + Width[order[k - 1]]
      OBVIOUS
    <3>1. k - 1 \in 1 .. n /\ (k - 1) + 1 = k
      OBVIOUS
    <3>2. f[(k - 1) + 1] = f[k - 1] + w[k - 1]
      BY <1>1, <3>1 DEF Placing
    <3>. QED BY <3>1, <3>2
  <2>2. f \in [ 1 .. (n + 1) -> Nat ] /\ f[1] = position
    BY <1>1 DEF Placing
  <2>. QED BY <2>1, <2>2
<1> DEFINE Turn(h) ==
             [ k \in 1 .. (n + 1) |-> IF k = 1 THEN position ELSE h[k - 1] + Width[order[k - 1]] ]
<1>3. at = Turn(at)
  BY <1>2 DEF Starts
<1>5. ASSUME NEW h, h = Turn(h)
      PROVE  h[1] = position /\ \A k \in 1 .. n : h[k + 1] = h[k] + Width[order[k]]
  <2>1. Turn(h)[1] = position
    OBVIOUS
  <2>2. ASSUME NEW k \in 1 .. n PROVE Turn(h)[k + 1] = h[k] + Width[order[k]]
    <3>1. k + 1 \in 1 .. (n + 1) /\ k + 1 # 1 /\ (k + 1) - 1 = k
      OBVIOUS
    <3>2. Turn(h)[k + 1] = h[(k + 1) - 1] + Width[order[(k + 1) - 1]]
      BY <3>1
    <3>. QED BY <3>1, <3>2
  <2>. HIDE DEF Turn
  <2>. QED BY <1>5, <2>1, <2>2
<1>4. at = f
  <2> DEFINE S == { k \in 1 .. (n + 1) : at[k] = f[k] }
  <2>0. /\ at[1] = position /\ \A k \in 1 .. n : at[k + 1] = at[k] + Width[order[k]]
        /\ f[1] = position /\ \A k \in 1 .. n : f[k + 1] = f[k] + Width[order[k]]
    <3>1. f = Turn(f)
      BY <1>2
    <3>. HIDE DEF Turn
    <3>. QED BY <1>3, <1>5, <3>1
  <2>1. 1 \in S
    BY <2>0
  <2>2. ASSUME NEW k \in 1 .. ((n + 1) - 1), k \in S PROVE k + 1 \in S
    <3>1. k + 1 \in 1 .. (n + 1) /\ k \in 1 .. n /\ at[k] = f[k]
      BY <2>2
    <3>. QED BY <2>0, <3>1
  <2>3. 1 .. (n + 1) \subseteq S
    <3>. HIDE DEF S
    <3>1. n + 1 \in Nat
      OBVIOUS
    <3>. QED BY <2>1, <2>2, <3>1, FromTheFirst
  <2>. QED BY <1>2, <1>3, <2>3
<1>. QED BY <1>1, <1>4

(***************************************************************************)
(* Bytes, one after another.                                               *)
(***************************************************************************)
LEMMA BytesAre ==
    ASSUME NEW p \in Nat, NEW a \in Nat
    PROVE  /\ Len(Bytes(p, a)) = a /\ DOMAIN Bytes(p, a) = 1 .. a
           /\ \A k \in 1 .. a : Bytes(p, a)[k] = ByteAt(p + k - 1)
  BY DEF Bytes

LEMMA BytesJoin ==
    ASSUME NEW p \in Nat, NEW a \in Nat, NEW b \in Nat
    PROVE  Bytes(p, a) \o Bytes(p + a, b) = Bytes(p, a + b)
<1> DEFINE u == Bytes(p, a)
           v == Bytes(p + a, b)
<1>1. \A k \in 1 .. b : v[k] = ByteAt(p + (a + k) - 1)
  <2>. SUFFICES ASSUME NEW k \in 1 .. b PROVE v[k] = ByteAt(p + (a + k) - 1)
    OBVIOUS
  <2>1. (p + a) + k - 1 = p + (a + k) - 1 /\ p + a \in Nat
    OBVIOUS
  <2>2. v[k] = ByteAt((p + a) + k - 1)
    BY <2>1, BytesAre
  <2>. QED BY <2>1, <2>2
<1>2. u \o v = [ k \in 1 .. (a + b) |-> IF k <= a THEN u[k] ELSE v[k - a] ]
  <2>1. Len(u) = a /\ Len(v) = b
    BY BytesAre
  <2>2. u = [ k \in 1 .. a |-> u[k] ] /\ v = [ k \in 1 .. b |-> v[k] ]
    BY DEF Bytes
  <2>. HIDE DEF u, v
  <2>. QED BY <2>1, <2>2
<1>3. \A k \in 1 .. (a + b) : (IF k <= a THEN u[k] ELSE v[k - a]) = ByteAt(p + k - 1)
  <2>. SUFFICES ASSUME NEW k \in 1 .. (a + b)
                PROVE  (IF k <= a THEN u[k] ELSE v[k - a]) = ByteAt(p + k - 1)
    OBVIOUS
  <2>1. CASE k <= a
    BY <2>1, BytesAre
  <2>2. CASE ~(k <= a)
    <3>1. k - a \in 1 .. b /\ a + (k - a) = k
      BY <2>2
    <3>2. v[k - a] = ByteAt(p + (a + (k - a)) - 1)
      BY <1>1, <3>1
    <3>. QED BY <2>2, <3>1, <3>2
  <2>. QED BY <2>1, <2>2
<1>. HIDE DEF u, v
<1>4. u \o v = [ k \in 1 .. (a + b) |-> ByteAt(p + k - 1) ]
  BY <1>2, <1>3
<1>. QED BY <1>4 DEF Bytes, u, v

\* What the first sequences make, one after another.
Joined(g, seqs, n) == g[1] = seqs[1] /\ \A i \in 2 .. n : g[i] = g[i - 1] \o seqs[i]

LEMMA Flattened ==
    ASSUME NEW seqs, NEW n \in Nat \ {0}, Len(seqs) = n, NEW g, Joined(g, seqs, n)
    PROVE  FlattenSeq(seqs) = g[n]
<1>0. g[1] = seqs[1] /\ \A i \in 2 .. n : g[i] = g[i - 1] \o seqs[i]
  BY DEF Joined
<1> DEFINE e == [ i \in 1 .. n |-> g[i] ]
           Turn(h) == [ i \in 1 .. n |-> IF i = 1 THEN seqs[i] ELSE h[i - 1] \o seqs[i] ]
<1>1. e = Turn(e)
  <2>1. DOMAIN e = 1 .. n /\ e = [ i \in 1 .. n |-> e[i] ] /\ \A i \in 1 .. n : e[i] = g[i]
    OBVIOUS
  <2>2. ASSUME NEW i \in 1 .. n PROVE e[i] = (IF i = 1 THEN seqs[i] ELSE e[i - 1] \o seqs[i])
    <3>1. CASE i = 1
      BY <1>0, <2>1, <3>1
    <3>2. CASE i # 1
      <4>1. i \in 2 .. n /\ i - 1 \in 1 .. n
        BY <3>2
      <4>2. e[i] = g[i] /\ e[i - 1] = g[i - 1] /\ g[i] = g[i - 1] \o seqs[i]
        BY <1>0, <4>1
      <4>. HIDE DEF e
      <4>. QED BY <3>2, <4>2
    <3>. QED BY <3>1, <3>2
  <2>. HIDE DEF e
  <2>. QED BY <2>1, <2>2
<1>2. PICK h : h = Turn(h) /\ FlattenSeq(seqs) = h[n]
  <2>. HIDE DEF e
  <2>. QED BY <1>1 DEF FlattenSeq
<1>3. h[1] = seqs[1] /\ \A k \in 1 .. (n - 1) : h[k + 1] = h[k] \o seqs[k + 1]
  <2>1. Turn(h)[1] = seqs[1]
    OBVIOUS
  <2>2. ASSUME NEW k \in 1 .. (n - 1) PROVE Turn(h)[k + 1] = h[k] \o seqs[k + 1]
    <3>1. k + 1 \in 1 .. n /\ k + 1 # 1 /\ (k + 1) - 1 = k
      OBVIOUS
    <3>2. Turn(h)[k + 1] = h[(k + 1) - 1] \o seqs[k + 1]
      BY <3>1
    <3>. QED BY <3>1, <3>2
  <2>. HIDE DEF Turn
  <2>. QED BY <1>2, <2>1, <2>2
<1>. HIDE DEF e, Turn
<1> DEFINE S == { i \in 1 .. n : g[i] = h[i] }
<1>4. 1 \in S
  BY <1>0, <1>3
<1>5. ASSUME NEW k \in 1 .. (n - 1), k \in S PROVE k + 1 \in S
  <2>1. k + 1 \in 2 .. n /\ k + 1 \in 1 .. n /\ (k + 1) - 1 = k /\ g[k] = h[k]
    BY <1>5
  <2>2. g[k + 1] = g[k] \o seqs[k + 1]
    BY <1>0, <2>1
  <2>3. g[k + 1] = h[k + 1]
    BY <1>3, <2>1, <2>2
  <2>. QED BY <2>1, <2>3
<1>6. 1 .. n \subseteq S
  <2>. HIDE DEF S
  <2>. QED BY <1>4, <1>5, FromTheFirst
<1>. QED BY <1>2, <1>6

\* u and v make w, one after the other.
Follow(u, v, w) == u \o v = w

LEMMA BytesFollow ==
    ASSUME NEW p \in Nat, NEW a \in Nat, NEW b \in Nat
    PROVE  Follow(Bytes(p, a), Bytes(p + a, b), Bytes(p, a + b))
  BY BytesJoin DEF Follow

LEMMA FollowSame == ASSUME NEW u, NEW v, NEW x, NEW y, Follow(u, v, x), Follow(u, v, y) PROVE x = y
  BY DEF Follow

\* Sequences of bytes from place to place, w long.
Rows(seqs, n, place, w) ==
    /\ Len(seqs) = n /\ place \in [ 1 .. (n + 1) -> Nat ] /\ w \in [ 1 .. n -> Nat ]
    /\ \A k \in 1 .. n : place[k + 1] = place[k] + w[k] /\ seqs[k] = Bytes(place[k], w[k])

LEMMA BytesFlattened ==
    ASSUME NEW seqs, NEW n \in Nat \ {0}, NEW place, NEW w, Rows(seqs, n, place, w)
    PROVE  /\ place[n + 1] - place[1] \in Nat
           /\ FlattenSeq(seqs) = Bytes(place[1], place[n + 1] - place[1])
<1> DEFINE p == place[1]
           S == { k \in 1 .. (n + 1) : p <= place[k] }
           g == [ i \in 1 .. n |-> Bytes(p, place[i + 1] - p) ]
<1>. /\ Len(seqs) = n /\ place \in [ 1 .. (n + 1) -> Nat ] /\ w \in [ 1 .. n -> Nat ]
     /\ \A k \in 1 .. n : place[k + 1] = place[k] + w[k]
     /\ \A k \in 1 .. n : seqs[k] = Bytes(place[k], w[k])
  BY DEF Rows
<1>0. p \in Nat /\ \A k \in 1 .. (n + 1) : place[k] \in Nat
  OBVIOUS
<1>1. 1 .. (n + 1) \subseteq S
  <2>1. 1 \in S
    OBVIOUS
  <2>2. \A k \in 1 .. ((n + 1) - 1) : k \in S => k + 1 \in S
    BY SMTT(30)
  <2>3. n + 1 \in Nat
    OBVIOUS
  <2>. HIDE DEF S
  <2>. QED BY <2>1, <2>2, <2>3, FromTheFirst
<1>2. \A k \in 1 .. (n + 1) : place[k] - p \in Nat /\ p + (place[k] - p) = place[k]
  BY <1>0, <1>1, SMTT(30)
<1>3. g[1] = seqs[1]
  <2>1. place[1 + 1] - p = w[1]
    BY <1>0
  <2>. QED BY <2>1
<1>4. ASSUME NEW i \in 2 .. n PROVE g[i] = g[i - 1] \o seqs[i]
  <2> DEFINE a == place[i] - p
             b == w[i]
  <2>1. i \in 1 .. n /\ i \in 1 .. (n + 1) /\ i - 1 \in 1 .. n /\ (i - 1) + 1 = i
    OBVIOUS
  <2>2. g[i - 1] = Bytes(p, a)
    BY <2>1
  <2>3. a \in Nat /\ b \in Nat /\ p + a = place[i]
    <3>1. place[i] - p \in Nat /\ p + (place[i] - p) = place[i] /\ w[i] \in Nat
      BY <1>2, <2>1
    <3>. QED BY <3>1
  <2>4. place[i + 1] - p = a + b
    BY <1>0, <2>1, SMTT(30)
  <2>5. g[i] = Bytes(p, a + b)
    BY <2>1, <2>4
  <2>6. seqs[i] = Bytes(p + a, b)
    BY <2>1, <2>3
  <2>. HIDE DEF g, a, b, p
  <2>7. Follow(Bytes(p, a), Bytes(p + a, b), Bytes(p, a + b))
    BY <1>0, <2>3, BytesFollow
  <2>. QED BY <2>2, <2>5, <2>6, <2>7 DEF Follow
<1>5. g[n] = Bytes(p, place[n + 1] - p)
  OBVIOUS
<1>. HIDE DEF g
<1>6. FlattenSeq(seqs) = g[n]
  <2>1. \A i \in 2 .. n : g[i] = g[i - 1] \o seqs[i]
    BY <1>4
  <2>2. Joined(g, seqs, n)
    BY <1>3, <2>1 DEF Joined
  <2>. QED BY <2>2, Flattened
<1>. QED BY <1>2, <1>5, <1>6

(***************************************************************************)
(* Numbers of two and of four bytes.                                       *)
(***************************************************************************)
Byte == 0 .. (BYTE - 1)

LEMMA Multiples ==
    ASSUME NEW m \in Nat \ {0}, NEW a \in Int, NEW b \in Int, a < b
    PROVE  a * m + m <= b * m
<1>1. PICK c \in Nat : b = a + 1 + c
  BY b - a - 1 \in Nat
<1>2. b * m = a * m + m + c * m /\ c * m \in Nat /\ a * m \in Int
  BY <1>1
<1>. QED BY <1>2

LEMMA DivisionIs ==
    ASSUME NEW m \in Nat \ {0}, NEW q \in Int, NEW r \in 0 .. (m - 1)
    PROVE  (q * m + r) \div m = q /\ (q * m + r) % m = r
<1> DEFINE x == q * m + r
           d == x \div m
           e == x % m
<1>1. x \in Int
  OBVIOUS
<1>2. d \in Int /\ e \in 0 .. (m - 1) /\ x = d * m + e
  <2>. HIDE DEF x
  <2>. QED BY <1>1
<1>3. d = q
  <2> DEFINE dm == d * m
             qm == q * m
  <2>1. dm \in Int /\ qm \in Int /\ qm + r = dm + e
    BY <1>2
  <2>2. (d < q => dm + m <= qm) /\ (q < d => qm + m <= dm)
    <3>. HIDE DEF d
    <3>. QED BY <1>2, Multiples
  <2>. HIDE DEF dm, qm, d, e
  <2>. QED BY <1>2, <2>1, <2>2
<1>4. e = r
  BY <1>2, <1>3
<1>. QED BY <1>3, <1>4

LEMMA Powers ==
    /\ BYTE \in Nat \ {0, 1} /\ BYTES_2 \in Nat \ {0} /\ BYTES_3 \in Nat \ {0} /\ BYTES_4 \in Nat \ {0}
<1>1. BYTE \in Nat \ {0, 1}
  BY QuoteObjectAssumption
<1>0. ASSUME NEW a \in Nat \ {0}, NEW b \in Nat \ {0} PROVE a * b \in Nat \ {0}
  OBVIOUS
<1>2. BYTES_2 \in Nat \ {0}
  BY <1>0, <1>1 DEF BYTES_2
<1>3. BYTES_3 \in Nat \ {0}
  BY <1>0, <1>1, <1>2 DEF BYTES_3
<1>4. BYTES_4 \in Nat \ {0}
  BY <1>0, <1>1, <1>3 DEF BYTES_4
<1>. QED BY <1>1, <1>2, <1>3, <1>4

\* x is q times m, and r.
Divided(x, m, q, r) == m \in Nat \ {0} /\ q \in Int /\ r \in 0 .. (m - 1) /\ x = q * m + r

LEMMA DividedIs ==
    ASSUME NEW x, NEW m, NEW q, NEW r, Divided(x, m, q, r)
    PROVE  x \div m = q /\ x % m = r
  BY DivisionIs DEF Divided

\* A digit above less than m.
LEMMA DigitAbove ==
    ASSUME NEW m \in Nat \ {0}, NEW n \in Nat \ {0}, NEW low \in 0 .. (m - 1), NEW high \in 0 .. (n - 1)
    PROVE  low + high * m \in 0 .. (n * m - 1)
<1>1. high * m + m <= n * m
  BY Multiples
<1>2. high * m \in Nat /\ n * m \in Nat
  OBVIOUS
<1> DEFINE h == high * m
           k == n * m
<1>. HIDE DEF h, k
<1>3. h + m <= k /\ h \in Nat /\ k \in Nat
  BY <1>1, <1>2 DEF h, k
<1>4. low + h \in 0 .. (k - 1)
  BY <1>3
<1>. QED BY <1>4 DEF h, k

LEMMA Swap16 ==
    ASSUME NEW high \in Byte, NEW low \in Byte
    PROVE  swapBytes16(toUint16(high, low)) = toUint16(low, high)
<1> DEFINE val == toUint16(high, low)
<1>1. /\ BYTE \in Nat \ {0} /\ high \in Int /\ low \in Int
      /\ high \in 0 .. (BYTE - 1) /\ low \in 0 .. (BYTE - 1)
  BY Powers DEF Byte
<1>2. val \div BYTE = high
  <2>1. val = high * BYTE + low
    BY <1>1 DEF toUint16
  <2>. HIDE DEF val
  <2>. QED BY <1>1, <2>1, DivisionIs
<1>3. (val * BYTE) % BYTES_2 = low * BYTE
  <2>1. val * BYTE = high * BYTES_2 + low * BYTE
    BY <1>1 DEF toUint16, BYTES_2
  <2>2. low * BYTE \in 0 .. (BYTES_2 - 1)
    <3>1. 0 + low * BYTE \in 0 .. (BYTE * BYTE - 1)
      BY <1>1, DigitAbove
    <3>. QED BY <1>1, <3>1 DEF BYTES_2
  <2>3. BYTES_2 \in Nat \ {0}
    BY Powers
  <2> DEFINE rest == low * BYTE
  <2>. HIDE DEF val, rest
  <2>4. (high * BYTES_2 + rest) % BYTES_2 = rest
    BY <1>1, <2>2, <2>3, DivisionIs DEF rest
  <2>. QED BY <2>1, <2>4 DEF rest
<1>4. low * BYTE + high = high + low * BYTE
  BY <1>1
<1>. HIDE DEF val
<1>5. swapBytes16(val) = high + low * BYTE
  BY <1>2, <1>3, <1>4 DEF swapBytes16
<1>. QED BY <1>5 DEF toUint16, val

LEMMA Array16 ==
    ASSUME NEW high \in Byte, NEW low \in Byte
    PROVE  toArray16(toUint16(high, low)) = << high, low >>
<1> DEFINE val == toUint16(high, low)
<1>1. /\ BYTE \in Nat \ {0} /\ high \in Int /\ low \in Int
      /\ high \in 0 .. (BYTE - 1) /\ low \in 0 .. (BYTE - 1)
  BY Powers DEF Byte
<1>2. val \div BYTE = high /\ val % BYTE = low
  <2>1. val = high * BYTE + low
    BY <1>1 DEF toUint16
  <2>. HIDE DEF val
  <2>. QED BY <1>1, <2>1, DivisionIs
<1>3. high % BYTE = high
  BY <1>1
<1>. HIDE DEF val
<1>4. toArray16(val) = << high, low >>
  BY <1>2, <1>3 DEF toArray16
<1>. QED BY <1>4 DEF val

\* A number of four bytes, the least first.
Four(d0, d1, d2, d3) == d0 + d1 * BYTE + d2 * BYTES_2 + d3 * BYTES_3

LEMMA FourIs ==
    ASSUME NEW d0 \in Byte, NEW d1 \in Byte, NEW d2 \in Byte, NEW d3 \in Byte
    PROVE  toUint32(d3, d2, d1, d0) = Four(d0, d1, d2, d3)
<1>1. BYTE \in Nat /\ d0 \in Int /\ d1 \in Int /\ d2 \in Int /\ d3 \in Int
  BY Powers DEF Byte
<1>2. (d2 + d3 * BYTE) * (BYTE * BYTE) = d2 * (BYTE * BYTE) + d3 * (BYTE * (BYTE * BYTE))
  BY <1>1
<1>. QED BY <1>1, <1>2 DEF toUint32, toUint16, Four, BYTES_2, BYTES_3

\* Its bytes, by division.
LEMMA FourDigits ==
    ASSUME NEW d0 \in Byte, NEW d1 \in Byte, NEW d2 \in Byte, NEW d3 \in Byte
    PROVE  LET val == Four(d0, d1, d2, d3)
           IN  /\ val \in Nat
               /\ val % BYTE = d0 /\ val \div BYTE = d1 + d2 * BYTE + d3 * BYTES_2
               /\ val % BYTES_2 = d0 + d1 * BYTE /\ val \div BYTES_2 = d2 + d3 * BYTE
               /\ val % BYTES_3 = d0 + d1 * BYTE + d2 * BYTES_2 /\ val \div BYTES_3 = d3
<1> DEFINE val == Four(d0, d1, d2, d3)
<1>1. /\ BYTE \in Nat \ {0} /\ d0 \in 0 .. (BYTE - 1) /\ d1 \in 0 .. (BYTE - 1)
      /\ d2 \in 0 .. (BYTE - 1) /\ d3 \in 0 .. (BYTE - 1)
      /\ d0 \in Nat /\ d1 \in Nat /\ d2 \in Nat /\ d3 \in Nat
      /\ BYTES_2 \in Nat \ {0} /\ BYTES_3 \in Nat \ {0}
  BY Powers DEF Byte
<1>2. d0 + d1 * BYTE \in 0 .. (BYTES_2 - 1)
  BY <1>1, DigitAbove DEF BYTES_2
<1>3. (d0 + d1 * BYTE) + d2 * BYTES_2 \in 0 .. (BYTES_3 - 1)
  BY <1>1, <1>2, DigitAbove DEF BYTES_3
<1>4. val = (d1 + d2 * BYTE + d3 * BYTES_2) * BYTE + d0 /\ d1 + d2 * BYTE + d3 * BYTES_2 \in Nat
  BY <1>1 DEF Four, BYTES_2, BYTES_3
<1>5. val = (d2 + d3 * BYTE) * BYTES_2 + (d0 + d1 * BYTE) /\ d2 + d3 * BYTE \in Nat
  BY <1>1 DEF Four, BYTES_3
<1>6. val = d3 * BYTES_3 + ((d0 + d1 * BYTE) + d2 * BYTES_2)
  BY <1>1 DEF Four
<1>7. val \in Nat
  BY <1>4, <1>1
<1> DEFINE q1 == d1 + d2 * BYTE + d3 * BYTES_2
           q2 == d2 + d3 * BYTE
           r2 == d0 + d1 * BYTE
           r3 == (d0 + d1 * BYTE) + d2 * BYTES_2
<1>. HIDE DEF val
<1>8. Divided(val, BYTE, q1, d0)
  BY <1>1, <1>4 DEF Divided
<1>9. Divided(val, BYTES_2, q2, r2)
  BY <1>1, <1>2, <1>5 DEF Divided
<1>10. Divided(val, BYTES_3, d3, r3)
  BY <1>1, <1>3, <1>6 DEF Divided
<1>. HIDE DEF q1, q2, r2, r3
<1>11. /\ val % BYTE = d0 /\ val \div BYTE = q1 /\ val % BYTES_2 = r2 /\ val \div BYTES_2 = q2
       /\ val % BYTES_3 = r3 /\ val \div BYTES_3 = d3
  BY <1>8, <1>9, <1>10, DividedIs
<1>. QED BY <1>7, <1>11 DEF val, q1, q2, r2, r3

LEMMA Swap32 ==
    ASSUME NEW d0 \in Byte, NEW d1 \in Byte, NEW d2 \in Byte, NEW d3 \in Byte
    PROVE  swapBytes32(Four(d0, d1, d2, d3)) = Four(d3, d2, d1, d0)
<1> DEFINE val == Four(d0, d1, d2, d3)
<1>1. /\ BYTE \in Nat \ {0} /\ d0 \in 0 .. (BYTE - 1) /\ d1 \in 0 .. (BYTE - 1)
      /\ d2 \in 0 .. (BYTE - 1) /\ d3 \in 0 .. (BYTE - 1)
      /\ d0 \in Nat /\ d1 \in Nat /\ d2 \in Nat /\ d3 \in Nat
      /\ BYTES_2 \in Nat \ {0} /\ BYTES_3 \in Nat \ {0} /\ BYTES_4 \in Nat \ {0}
      /\ 0 \in 0 .. (BYTE - 1)
  BY Powers DEF Byte
<1>2. /\ val \in Nat
      /\ val \div BYTE = d1 + d2 * BYTE + d3 * BYTES_2
      /\ val \div BYTES_3 = d3
  BY FourDigits
<1>3. (val * BYTES_3) % BYTES_4 = d0 * BYTES_3
  <2> DEFINE q == d1 + d2 * BYTE + d3 * BYTES_2
             r == d0 * BYTES_3
  <2>1. val * BYTES_3 = q * BYTES_4 + r /\ q \in Nat
    BY <1>1 DEF Four, BYTES_2, BYTES_3, BYTES_4
  <2>2. r \in 0 .. (BYTES_4 - 1)
    <3>1. 0 \in 0 .. (BYTES_3 - 1)
      BY <1>1
    <3>2. 0 + d0 * BYTES_3 \in 0 .. (BYTE * BYTES_3 - 1)
      BY <1>1, <3>1, DigitAbove
    <3>. QED BY <1>1, <3>2 DEF BYTES_4
  <2>3. Divided(val * BYTES_3, BYTES_4, q, r)
    BY <1>1, <2>1, <2>2 DEF Divided
  <2>. HIDE DEF q, r, val
  <2>. QED BY <2>3, DividedIs DEF r
<1>4. (val * BYTE) % BYTES_3 = d0 * BYTE + d1 * BYTES_2
  <2> DEFINE q == d2 + d3 * BYTE
             r == d0 * BYTE + d1 * BYTES_2
  <2>1. val * BYTE = q * BYTES_3 + r /\ q \in Nat
    BY <1>1 DEF Four, BYTES_2, BYTES_3
  <2>2. r \in 0 .. (BYTES_3 - 1)
    <3>1. 0 + d0 * BYTE \in 0 .. (BYTES_2 - 1)
      BY <1>1, DigitAbove DEF BYTES_2
    <3>2. (0 + d0 * BYTE) + d1 * BYTES_2 \in 0 .. (BYTES_3 - 1)
      BY <1>1, <3>1, DigitAbove DEF BYTES_3
    <3>. QED BY <1>1, <3>2
  <2>3. Divided(val * BYTE, BYTES_3, q, r)
    BY <1>1, <2>1, <2>2 DEF Divided
  <2>. HIDE DEF q, r, val
  <2>. QED BY <2>3, DividedIs DEF r
<1>5. (val * BYTE) % BYTES_2 = d0 * BYTE
  <2> DEFINE q == d1 + d2 * BYTE + d3 * BYTES_2
             r == d0 * BYTE
  <2>1. val * BYTE = q * BYTES_2 + r /\ q \in Nat
    BY <1>1 DEF Four, BYTES_2, BYTES_3
  <2>2. r \in 0 .. (BYTES_2 - 1)
    <3>1. 0 + d0 * BYTE \in 0 .. (BYTES_2 - 1)
      BY <1>1, DigitAbove DEF BYTES_2
    <3>. QED BY <1>1, <3>1
  <2>3. Divided(val * BYTE, BYTES_2, q, r)
    BY <1>1, <2>1, <2>2 DEF Divided
  <2>. HIDE DEF q, r, val
  <2>. QED BY <2>3, DividedIs DEF r
<1>6. (val \div BYTE) % BYTES_2 = d1 + d2 * BYTE /\ (val \div BYTE) % BYTE = d1
  <2> DEFINE q == d2 + d3 * BYTE
             r == d1 + d2 * BYTE
  <2>1. val \div BYTE = d3 * BYTES_2 + r /\ val \div BYTE = q * BYTE + d1 /\ q \in Nat
    BY <1>1, <1>2 DEF BYTES_2
  <2>2. r \in 0 .. (BYTES_2 - 1)
    BY <1>1, DigitAbove DEF BYTES_2
  <2>3. Divided(val \div BYTE, BYTES_2, d3, r) /\ Divided(val \div BYTE, BYTE, q, d1)
    BY <1>1, <2>1, <2>2 DEF Divided
  <2>. HIDE DEF q, r, val
  <2>. QED BY <2>3, DividedIs DEF r
<1> DEFINE p0 == d0 * BYTES_3
           p1 == d1 * BYTES_2
           p2 == d2 * BYTE
           p00 == d0 * BYTE
<1>7. p0 \in Nat /\ p1 \in Nat /\ p2 \in Nat /\ p00 \in Nat /\ d1 \in Nat /\ d3 \in Nat
  BY <1>1
<1>. HIDE DEF val
<1>8. swapBytes32(val) = p0 + ((p00 + p1) - p00) + ((d1 + p2) - d1) + d3
  BY <1>2, <1>3, <1>4, <1>5, <1>6 DEF swapBytes32
<1>9. Four(d3, d2, d1, d0) = d3 + p2 + p1 + p0
  BY DEF Four
<1>. HIDE DEF p0, p1, p2, p00
<1>. QED BY <1>7, <1>8, <1>9 DEF val

LEMMA Array32 ==
    ASSUME NEW d0 \in Byte, NEW d1 \in Byte, NEW d2 \in Byte, NEW d3 \in Byte
    PROVE  toArray32(Four(d3, d2, d1, d0)) = << d0, d1, d2, d3 >>
<1> DEFINE val == Four(d3, d2, d1, d0)
<1>1. /\ BYTE \in Nat \ {0} /\ d0 \in 0 .. (BYTE - 1) /\ d1 \in 0 .. (BYTE - 1)
      /\ d2 \in 0 .. (BYTE - 1) /\ d0 \in Nat /\ d1 \in Nat /\ d2 \in Nat
      /\ BYTES_2 \in Nat
  BY Powers DEF Byte
<1>2. /\ val \div BYTES_3 = d0 /\ val \div BYTES_2 = d1 + d0 * BYTE
      /\ val \div BYTE = d2 + d1 * BYTE + d0 * BYTES_2 /\ val % BYTE = d3
  BY FourDigits
<1>3. d0 % BYTE = d0
  BY <1>1
<1>4. (val \div BYTES_2) % BYTE = d1
  <2>1. val \div BYTES_2 = d0 * BYTE + d1
    BY <1>1, <1>2
  <2>. HIDE DEF val
  <2>. QED BY <1>1, <2>1, DivisionIs
<1>5. (val \div BYTE) % BYTE = d2
  <2> DEFINE q == d1 + d0 * BYTE
  <2>1. val \div BYTE = q * BYTE + d2 /\ q \in Nat
    BY <1>1, <1>2 DEF BYTES_2
  <2>2. Divided(val \div BYTE, BYTE, q, d2)
    BY <1>1, <2>1 DEF Divided
  <2>. HIDE DEF val, q
  <2>. QED BY <2>2, DividedIs
<1>. HIDE DEF val
<1>6. toArray32(val) = << d0, d1, d2, d3 >>
  BY <1>2, <1>3, <1>4, <1>5 DEF toArray32
<1>. QED BY <1>6 DEF val

(***************************************************************************)
(* Structures: filled member by member, written member by member.          *)
(***************************************************************************)
\* A member that was filled from a position is written as it stood there.
LEMMA WrittenAsItStood ==
    ASSUME NEW r, NEW name \in DOMAIN Width, NEW p \in Nat, r[name] = Inserted(name, p),
           \A k \in p .. (p + Width[name] - 1) : ByteAt(k) \in Byte
    PROVE  Written(r, name) = Bytes(p, Width[name])
<1>1. CASE name \in Uint16Fields
  <2>1. Width[name] = 2
    BY <1>1 DEF Uint16Fields, Width
  <2>2. ByteAt(p) \in Byte /\ ByteAt(p + 1) \in Byte
    BY <2>1
  <2>3. swapBytes16(r[name]) = toUint16(ByteAt(p), ByteAt(p + 1))
    BY <1>1, <2>2, Swap16 DEF Inserted
  <2>4. Written(r, name) = << ByteAt(p), ByteAt(p + 1) >>
    BY <1>1, <2>2, <2>3, Array16 DEF Written
  <2>5. Bytes(p, 2) = << ByteAt(p), ByteAt(p + 1) >>
    BY DEF Bytes
  <2>. QED BY <2>1, <2>4, <2>5
<1>2. CASE name \in Uint32Fields
  <2>1. Width[name] = 4 /\ name \notin Uint16Fields
    BY <1>2 DEF Uint16Fields, Uint32Fields, Width
  <2> DEFINE b0 == ByteAt(p)
             b1 == ByteAt(p + 1)
             b2 == ByteAt(p + 2)
             b3 == ByteAt(p + 3)
  <2>2. b0 \in Byte /\ b1 \in Byte /\ b2 \in Byte /\ b3 \in Byte
    BY <2>1
  <2>3. r[name] = swapBytes32(toUint32(b0, b1, b2, b3))
    BY <1>2, <2>1 DEF Inserted
  <2>5. Bytes(p, 4) = << b0, b1, b2, b3 >>
    BY DEF Bytes
  <2>. HIDE DEF b0, b1, b2, b3
  <2>4. toArray32(swapBytes32(r[name])) = << b0, b1, b2, b3 >>
    <3>1. toUint32(b0, b1, b2, b3) = Four(b3, b2, b1, b0)
      BY <2>2, FourIs
    <3>2. r[name] = Four(b0, b1, b2, b3)
      BY <2>2, <2>3, <3>1, Swap32
    <3>3. swapBytes32(r[name]) = Four(b3, b2, b1, b0)
      BY <2>2, <3>2, Swap32
    <3>. QED BY <2>2, <3>3, Array32
  <2>6. Written(r, name) = << b0, b1, b2, b3 >>
    BY <1>2, <2>1, <2>4 DEF Written
  <2>. QED BY <2>1, <2>5, <2>6
<1>3. CASE name \notin Uint16Fields /\ name \notin Uint32Fields
  BY <1>3 DEF Inserted, Written
<1>. QED BY <1>1, <1>2, <1>3

\* Members, each with its width and none twice.
Members(order, n) ==
    /\ Len(order) = n /\ DOMAIN order = 1 .. n
    /\ \A k \in 1 .. n : order[k] \in DOMAIN Width /\ Width[order[k]] \in Nat
    /\ \A k, l \in 1 .. n : order[k] = order[l] => k = l

LEMMA OrderHasMembers ==
    /\ Members(EnclaveReportInsert, 12) /\ Members(TDReport10Insert, 15)
    /\ Members(TDReport15Insert, 17) /\ Members(TDReport15ExInsert, 27)
<1>1. Members(EnclaveReportInsert, 12)
  BY DEF Members, EnclaveReportInsert, Width
<1>2. Members(TDReport10Insert, 15)
  BY DEF Members, TDReport10Insert, Width
<1>3. Members(TDReport15Insert, 17)
  BY DEF Members, TDReport10Insert, TDReport15Insert, Width
<1>4. Members(TDReport15ExInsert, 27)
  BY DEF Members, TDReport10Insert, TDReport15Insert, TDReport15ExInsert, Width
<1>. QED BY <1>1, <1>2, <1>3, <1>4

\* The widest place comes last.
LEMMA PlacesGrow ==
    ASSUME NEW n \in Nat, NEW f \in [ 1 .. (n + 1) -> Nat ], \A k \in 1 .. n : f[k] <= f[k + 1]
    PROVE  \A k \in 1 .. (n + 1) : f[k] <= f[n + 1]
<1> DEFINE S == { m \in 1 .. (n + 1) : \A k \in 1 .. m : f[k] <= f[m] }
<1>1. 1 \in S
  OBVIOUS
<1>2. ASSUME NEW m \in 1 .. ((n + 1) - 1), m \in S PROVE m + 1 \in S
  <2>1. m + 1 \in 1 .. (n + 1) /\ f[m] <= f[m + 1] /\ \A k \in 1 .. m : f[k] <= f[m]
    BY <1>2
  <2>2. ASSUME NEW k \in 1 .. (m + 1) PROVE f[k] <= f[m + 1]
    <3>1. CASE k = m + 1
      <4>1. f[m + 1] \in Nat
        BY <2>1
      <4>. QED BY <3>1, <4>1
    <3>2. CASE k # m + 1
      <4>1. k \in 1 .. m /\ k \in 1 .. (n + 1) /\ m \in 1 .. (n + 1)
        BY <3>2
      <4>2. f[k] \in Nat /\ f[m] \in Nat /\ f[m + 1] \in Nat /\ f[k] <= f[m]
        BY <2>1, <4>1
      <4>. QED BY <2>1, <4>2
    <3>. QED BY <3>1, <3>2
  <2>3. \A k \in 1 .. (m + 1) : f[k] <= f[m + 1]
    BY <2>2
  <2>. QED BY <2>1, <2>3
<1>3. n + 1 \in Nat /\ n + 1 \in 1 .. (n + 1)
  OBVIOUS
<1>4. 1 .. (n + 1) \subseteq S
  <2>. HIDE DEF S
  <2>. QED BY <1>1, <1>2, <1>3, FromTheFirst
<1>. QED BY <1>3, <1>4

\* Members of a structure, written as they stand from place to place.
Laid(r, order, n, f) ==
    /\ Len(order) = n /\ f \in [ 1 .. (n + 1) -> Nat ]
    /\ \A k \in 1 .. n : /\ Width[order[k]] \in Nat /\ f[k + 1] = f[k] + Width[order[k]]
                         /\ Written(r, order[k]) = Bytes(f[k], Width[order[k]])

\* The bytes from a position up to another are there.
Readable(p, end) == \A k \in p .. (end - 1) : ByteAt(k) \in Byte

LEMMA Filled ==
    ASSUME NEW type, NEW n \in Nat, NEW order, order = InsertOrder[type], Members(order, n),
           NEW p \in Nat, NEW at, at = Starts(order, p), Readable(p, at[n + 1])
    PROVE  /\ Laid(Insert(type, p), order, n, at) /\ at[1] = p
           /\ \A k \in 1 .. n : Insert(type, p)[order[k]] = Inserted(order[k], at[k])
<1> DEFINE r == Insert(type, p)
           w == [ k \in 1 .. n |-> Width[order[k]] ]
<1>1. /\ at \in [ 1 .. (n + 1) -> Nat ] /\ at[1] = p
      /\ \A k \in 1 .. n : at[k + 1] = at[k] + Width[order[k]] /\ Width[order[k]] \in Nat
  <2>1. Len(order) = n /\ \A k \in 1 .. n : Width[order[k]] \in Nat
    BY DEF Members
  <2>2. Placing(at, n, w, p)
    BY <2>1, StartsAre
  <2>. QED BY <2>1, <2>2 DEF Placing
<1>2. ASSUME NEW k \in 1 .. n PROVE r[order[k]] = Inserted(order[k], at[k])
  <2>1. DOMAIN order = 1 .. n /\ \A l \in 1 .. n : order[l] = order[k] => l = k
    BY DEF Members
  <2>2. (CHOOSE l \in DOMAIN order : order[l] = order[k]) = k
    BY <2>1
  <2>3. order[k] \in { order[l] : l \in DOMAIN order }
    BY <2>1
  <2>. QED BY <2>2, <2>3 DEF Insert
<1>3. ASSUME NEW k \in 1 .. n PROVE Written(r, order[k]) = Bytes(at[k], Width[order[k]])
  <2>1. order[k] \in DOMAIN Width
    BY DEF Members
  <2>2. k \in 1 .. (n + 1) /\ k + 1 \in 1 .. (n + 1)
    OBVIOUS
  <2>3. ASSUME NEW l \in 1 .. n PROVE at[l] \in Nat /\ at[l] <= at[l + 1]
    <3>1. l \in 1 .. (n + 1) /\ at[l + 1] = at[l] + Width[order[l]] /\ Width[order[l]] \in Nat
      BY <1>1
    <3>2. at[l] \in Nat
      BY <1>1, <3>1
    <3>. QED BY <3>1, <3>2
  <2>4. at[k + 1] <= at[n + 1]
    BY <1>1, <2>2, <2>3, PlacesGrow
  <2>5. p <= at[k]
    <3> DEFINE S == { l \in 1 .. (n + 1) : p <= at[l] }
    <3>1. 1 \in S
      BY <1>1
    <3>4. ASSUME NEW l \in 1 .. ((n + 1) - 1), l \in S PROVE l + 1 \in S
      <4>1. l \in 1 .. n /\ l + 1 \in 1 .. (n + 1) /\ p <= at[l]
        BY <3>4
      <4>2. at[l] \in Nat /\ at[l + 1] \in Nat /\ at[l] <= at[l + 1]
        BY <1>1, <2>3, <4>1
      <4>. QED BY <4>1, <4>2
    <3>2. n + 1 \in Nat
      OBVIOUS
    <3>3. 1 .. (n + 1) \subseteq S
      <4>. HIDE DEF S
      <4>. QED BY <3>1, <3>2, <3>4, FromTheFirst
    <3>. QED BY <2>2, <3>3
  <2>6. \A b \in at[k] .. (at[k] + Width[order[k]] - 1) : ByteAt(b) \in Byte
    <3>1. /\ at[k + 1] = at[k] + Width[order[k]] /\ at[k] \in Nat
          /\ Width[order[k]] \in Nat /\ at[n + 1] \in Nat
      BY <1>1, <2>2
    <3>. QED BY <2>4, <2>5, <3>1 DEF Readable
  <2>7. at[k] \in Nat
    BY <1>1, <2>2
  <2>. HIDE DEF r
  <2>. QED BY <1>2, <2>1, <2>6, <2>7, WrittenAsItStood
<1>4. Laid(r, order, n, at)
  BY <1>1, <1>3 DEF Laid, Members
<1>. QED BY <1>1, <1>2, <1>4

\* The list sub is order from the member after o on.
PartOf(sub, m, order, o) ==
    Len(sub) = m /\ DOMAIN sub = 1 .. m /\ \A k \in 1 .. m : sub[k] = order[o + k]

LEMMA PartWritten ==
    ASSUME NEW r, NEW order, NEW n \in Nat, NEW f, Laid(r, order, n, f),
           NEW sub, NEW m \in Nat \ {0}, NEW o \in Nat, o + m <= n, PartOf(sub, m, order, o)
    PROVE  /\ f[o + 1] \in Nat /\ f[o + m + 1] - f[o + 1] \in Nat
           /\ WriteAll(r, sub) = Bytes(f[o + 1], f[o + m + 1] - f[o + 1])
<1> DEFINE seqs == [ k \in DOMAIN sub |-> Written(r, sub[k]) ]
           place == [ k \in 1 .. (m + 1) |-> f[o + k] ]
           w == [ k \in 1 .. m |-> Width[order[o + k]] ]
<1>1. Len(seqs) = m
  BY DEF PartOf
<1>2. place \in [ 1 .. (m + 1) -> Nat ]
  BY DEF Laid
<1>3. ASSUME NEW k \in 1 .. m
      PROVE  w[k] \in Nat /\ place[k + 1] = place[k] + w[k] /\ seqs[k] = Bytes(place[k], w[k])
  <2>1. o + k \in 1 .. n /\ o + (k + 1) = (o + k) + 1 /\ k + 1 \in 1 .. (m + 1) /\ k \in 1 .. (m + 1)
    OBVIOUS
  <2>2. sub[k] = order[o + k] /\ k \in DOMAIN sub
    BY DEF PartOf
  <2>3. /\ Width[order[o + k]] \in Nat /\ f[(o + k) + 1] = f[o + k] + Width[order[o + k]]
        /\ Written(r, order[o + k]) = Bytes(f[o + k], Width[order[o + k]])
    BY <2>1 DEF Laid
  <2>. QED BY <2>1, <2>2, <2>3
<1>4. w \in [ 1 .. m -> Nat ]
  BY <1>3
<1>5. place[1] = f[o + 1] /\ place[m + 1] = f[o + m + 1]
  <2>1. o + (m + 1) = o + m + 1 /\ 1 \in 1 .. (m + 1) /\ m + 1 \in 1 .. (m + 1)
    OBVIOUS
  <2>. QED BY <2>1
<1>6. WriteAll(r, sub) = FlattenSeq(seqs)
  BY DEF WriteAll
<1>7. place[1] \in Nat
  BY <1>2
<1>9. Rows(seqs, m, place, w)
  <2>. HIDE DEF seqs, place, w
  <2>. QED BY <1>1, <1>2, <1>3, <1>4 DEF Rows
<1>. HIDE DEF seqs, place, w
<1>8. place[m + 1] - place[1] \in Nat /\ FlattenSeq(seqs) = Bytes(place[1], place[m + 1] - place[1])
  BY <1>9, BytesFlattened
<1>. QED BY <1>5, <1>6, <1>7, <1>8

\* Where the members stand that the getters and the ends of reports need.
Widths(order, n) == [ k \in 1 .. n |-> Width[order[k]] ]

LEMMA EnclaveReportPlaces ==
    ASSUME NEW p \in Nat, NEW f, Placing(f, 12, Widths(EnclaveReportInsert, 12), p)
    PROVE  f[13] = p + ENCLAVE_REPORT_BYTE_LEN
<1> DEFINE w == Widths(EnclaveReportInsert, 12)
<1>1. /\ w[1] = 16 /\ w[2] = 4 /\ w[3] = 28 /\ w[4] = 16 /\ w[5] = 32 /\ w[6] = 32 /\ w[7] = 32
      /\ w[8] = 96 /\ w[9] = 2 /\ w[10] = 2 /\ w[11] = 60 /\ w[12] = 64
  BY DEF Widths, EnclaveReportInsert, Width
<1>. HIDE DEF w
<1>2. \A k \in 1 .. 12 : f[k + 1] = f[k] + w[k]
  BY DEF Placing, w
<1>3. /\ f[1] = p /\ f[2] = f[1] + w[1] /\ f[3] = f[2] + w[2] /\ f[4] = f[3] + w[3]
      /\ f[5] = f[4] + w[4] /\ f[6] = f[5] + w[5] /\ f[7] = f[6] + w[6] /\ f[8] = f[7] + w[7]
      /\ f[9] = f[8] + w[8] /\ f[10] = f[9] + w[9] /\ f[11] = f[10] + w[10]
      /\ f[12] = f[11] + w[11] /\ f[13] = f[12] + w[12]
  <2>1. f[1] = p
    BY DEF Placing
  <2>. QED BY <1>2, <2>1
<1>. QED BY <1>1, <1>3 DEF ENCLAVE_REPORT_BYTE_LEN

\* The members of a TD report of version 1.0, with which the others begin.
LEMMA TdReport10Places ==
    ASSUME NEW p \in Nat, NEW order, NEW n \in Nat, n >= 15,
           \A k \in 1 .. 15 : order[k] = TDReport10Insert[k],
           NEW f, Placing(f, n, Widths(order, n), p)
    PROVE  /\ f[3] = p + MR_SIGNER_SEAM_AT /\ f[4] = p + SEAM_ATTRIBUTES_AT
           /\ f[16] = p + TD_REPORT10_BYTE_LEN
<1> DEFINE w == Widths(order, n)
<1>1. /\ w[1] = 16 /\ w[2] = 48 /\ w[3] = 48 /\ w[4] = 8 /\ w[5] = 8 /\ w[6] = 8 /\ w[7] = 48
      /\ w[8] = 48 /\ w[9] = 48 /\ w[10] = 48 /\ w[11] = 48 /\ w[12] = 48 /\ w[13] = 48
      /\ w[14] = 48 /\ w[15] = 64
  <2> DEFINE v == [ k \in 1 .. 15 |-> Width[TDReport10Insert[k]] ]
  <2>1. \A k \in 1 .. 15 : w[k] = v[k]
    BY SMTT(30) DEF Widths
  <2>2. /\ v[1] = 16 /\ v[2] = 48 /\ v[3] = 48 /\ v[4] = 8 /\ v[5] = 8 /\ v[6] = 8 /\ v[7] = 48
        /\ v[8] = 48 /\ v[9] = 48 /\ v[10] = 48 /\ v[11] = 48 /\ v[12] = 48 /\ v[13] = 48
        /\ v[14] = 48 /\ v[15] = 64
    BY DEF TDReport10Insert, Width
  <2>. HIDE DEF w, v
  <2>. QED BY <2>1, <2>2
<1>. HIDE DEF w
<1>2. \A k \in 1 .. n : f[k + 1] = f[k] + w[k]
  BY DEF Placing, w
<1>3. /\ f[1] = p /\ f[2] = f[1] + w[1] /\ f[3] = f[2] + w[2] /\ f[4] = f[3] + w[3]
      /\ f[5] = f[4] + w[4] /\ f[6] = f[5] + w[5] /\ f[7] = f[6] + w[6] /\ f[8] = f[7] + w[7]
      /\ f[9] = f[8] + w[8] /\ f[10] = f[9] + w[9] /\ f[11] = f[10] + w[10]
      /\ f[12] = f[11] + w[11] /\ f[13] = f[12] + w[12] /\ f[14] = f[13] + w[13]
      /\ f[15] = f[14] + w[14] /\ f[16] = f[15] + w[15]
  <2>1. f[1] = p
    BY DEF Placing
  <2>. QED BY <1>2, <2>1
<1>. QED BY <1>1, <1>3 DEF MR_SIGNER_SEAM_AT, SEAM_ATTRIBUTES_AT, TD_REPORT10_BYTE_LEN

LEMMA TdReport15Places ==
    ASSUME NEW p \in Nat, NEW order, NEW n \in Nat, n >= 17,
           \A k \in 1 .. 17 : order[k] = TDReport15Insert[k],
           NEW f, Placing(f, n, Widths(order, n), p)
    PROVE  f[17] = p + TD_REPORT10_BYTE_LEN + 16 /\ f[18] = p + TD_REPORT15_BYTE_LEN
<1> DEFINE w == Widths(order, n)
<1>1. \A k \in 1 .. 15 : order[k] = TDReport10Insert[k]
  BY DEF TDReport15Insert, TDReport10Insert
<1>2. f[16] = p + TD_REPORT10_BYTE_LEN
  BY <1>1, TdReport10Places
<1>3. w[16] = 16 /\ w[17] = 48
  BY SMTT(30) DEF Widths, TDReport15Insert, TDReport10Insert, Width
<1>. HIDE DEF w
<1>4. \A k \in 1 .. n : f[k + 1] = f[k] + w[k]
  BY DEF Placing, w
<1>5. f[17] = f[16] + w[16] /\ f[18] = f[17] + w[17]
  BY <1>4
<1>. QED BY <1>2, <1>3, <1>5 DEF TD_REPORT10_BYTE_LEN, TD_REPORT15_BYTE_LEN

LEMMA TdReport15ExPlaces ==
    ASSUME NEW p \in Nat, NEW f, Placing(f, 27, Widths(TDReport15ExInsert, 27), p)
    PROVE  f[28] = p + TD_REPORT15EX_BYTE_LEN
<1> DEFINE w == Widths(TDReport15ExInsert, 27)
<1>1. \A k \in 1 .. 17 : TDReport15ExInsert[k] = TDReport15Insert[k]
  BY DEF TDReport15ExInsert, TDReport15Insert, TDReport10Insert
<1>2. f[18] = p + TD_REPORT15_BYTE_LEN
  BY <1>1, TdReport15Places
<1>3. /\ w[18] = 1 /\ w[19] = 32 /\ w[20] = 48 /\ w[21] = 48 /\ w[22] = 8 /\ w[23] = 16
      /\ w[24] = 16 /\ w[25] = 12 /\ w[26] = 48 /\ w[27] = 8
  BY DEF Widths, TDReport15ExInsert, TDReport15Insert, TDReport10Insert, Width
<1>. HIDE DEF w
<1>4. \A k \in 1 .. 27 : f[k + 1] = f[k] + w[k]
  BY DEF Placing, w
<1>5. /\ f[19] = f[18] + w[18] /\ f[20] = f[19] + w[19] /\ f[21] = f[20] + w[20]
      /\ f[22] = f[21] + w[21] /\ f[23] = f[22] + w[22] /\ f[24] = f[23] + w[23]
      /\ f[25] = f[24] + w[24] /\ f[26] = f[25] + w[25] /\ f[27] = f[26] + w[26]
      /\ f[28] = f[27] + w[27]
  BY <1>4
<1>. QED BY <1>2, <1>3, <1>5 DEF TD_REPORT15_BYTE_LEN, TD_REPORT15EX_BYTE_LEN

(***************************************************************************)
(* The four reports.                                                       *)
(***************************************************************************)
LEMMA RawBlobIs ==
    ASSUME NEW r
    PROVE  /\ rawBlob(1, r) = EnclaveReportBlob(r) /\ rawBlob(2, r) = TDReport10Blob(r)
           /\ rawBlob(3, r) = TDReport15Blob(r) /\ rawBlob(4, r) = TDReport15ExBlob(r)
  BY DEF rawBlob, BODY_SGX_ENCLAVE_REPORT_TYPE, BODY_TD_REPORT10_TYPE, BODY_TD_REPORT15_TYPE,
         BODY_TD_REPORT15EX_TYPE

LEMMA EnclaveReportStands ==
    ASSUME NEW p \in Nat, Readable(p, p + ENCLAVE_REPORT_BYTE_LEN)
    PROVE  rawBlob(BODY_SGX_ENCLAVE_REPORT_TYPE, Insert(BODY_SGX_ENCLAVE_REPORT_TYPE, p))
             = Bytes(p, ENCLAVE_REPORT_BYTE_LEN)
<1> DEFINE order == EnclaveReportInsert
           at == Starts(order, p)
           r == Insert(1, p)
<1>1. Members(order, 12) /\ order = InsertOrder[1]
  BY OrderHasMembers DEF InsertOrder
<1>2. Placing(at, 12, Widths(order, 12), p)
  <2>1. Len(order) = 12 /\ \A k \in 1 .. 12 : Width[order[k]] \in Nat
    BY <1>1 DEF Members
  <2>. HIDE DEF order
  <2>. QED BY <2>1, StartsAre DEF Widths
<1>3. at[13] = p + ENCLAVE_REPORT_BYTE_LEN
  BY <1>2, EnclaveReportPlaces
<1>. HIDE DEF order, at, r
<1>4. Laid(r, order, 12, at) /\ at[1] = p
  <2>1. Readable(p, at[12 + 1])
    BY <1>3
  <2>. QED BY <1>1, <2>1, Filled DEF at, r
<1>5. WriteAll(r, order) = Bytes(at[1], at[13] - at[1])
  <2>1. PartOf(order, 12, order, 0)
    BY <1>1 DEF PartOf, Members
  <2>2. /\ at[0 + 1] \in Nat /\ at[0 + 12 + 1] - at[0 + 1] \in Nat
        /\ WriteAll(r, order) = Bytes(at[0 + 1], at[0 + 12 + 1] - at[0 + 1])
    BY <1>4, <2>1, PartWritten
  <2>. QED BY <2>2
<1>6. at[13] - at[1] = ENCLAVE_REPORT_BYTE_LEN
  BY <1>3, <1>4 DEF ENCLAVE_REPORT_BYTE_LEN
<1>7. rawBlob(1, r) = WriteAll(r, order)
  BY RawBlobIs DEF EnclaveReportBlob, order, EnclaveReportInsert
<1>. QED BY <1>4, <1>5, <1>6, <1>7 DEF r, BODY_SGX_ENCLAVE_REPORT_TYPE

\* A structure that was filled from a position on, in order.
FilledFrom(r, order, n, p, f) ==
    /\ Placing(f, n, Widths(order, n), p) /\ Laid(r, order, n, f)
    /\ \A k \in 1 .. n : r[order[k]] = Inserted(order[k], f[k])

LEMMA InsertFillsFrom ==
    ASSUME NEW type, NEW n \in Nat, NEW order, order = InsertOrder[type], Members(order, n),
           NEW p \in Nat, NEW length \in Nat, Readable(p, p + length),
           \A f : Placing(f, n, Widths(order, n), p) => f[n + 1] = p + length
    PROVE  \E f : FilledFrom(Insert(type, p), order, n, p, f)
<1> DEFINE at == Starts(order, p)
<1>1. Placing(at, n, Widths(order, n), p)
  <2>1. Len(order) = n /\ \A k \in 1 .. n : Width[order[k]] \in Nat
    BY DEF Members
  <2>. QED BY <2>1, StartsAre DEF Widths
<1>2. Readable(p, at[n + 1])
  BY <1>1
<1>3. /\ Laid(Insert(type, p), order, n, at)
      /\ \A k \in 1 .. n : Insert(type, p)[order[k]] = Inserted(order[k], at[k])
  <2>1. at = Starts(order, p)
    OBVIOUS
  <2>. HIDE DEF at
  <2>2. Laid(Insert(type, p), order, n, at)
    BY <1>2, <2>1, Filled
  <2>3. \A k \in 1 .. n : Insert(type, p)[order[k]] = Inserted(order[k], at[k])
    BY <1>2, <2>1, Filled
  <2>. QED BY <2>2, <2>3
<1>. QED BY <1>1, <1>3 DEF FilledFrom

LEMMA TdReport10BlobIs ==
    ASSUME NEW p \in Nat, NEW order, NEW n \in Nat, n >= 15,
           \A k \in 1 .. 15 : order[k] = TDReport10Insert[k],
           NEW r, NEW f, FilledFrom(r, order, n, p, f)
    PROVE  TDReport10Blob(r) = Bytes(p, TD_REPORT10_BYTE_LEN)
<1>1. Placing(f, n, Widths(order, n), p) /\ Laid(r, order, n, f)
  BY DEF FilledFrom
<1>2. f[16] = p + TD_REPORT10_BYTE_LEN
  BY <1>1, TdReport10Places
<1>3. f[1] = p
  BY <1>1 DEF Placing
<1>4. PartOf(TDReport10Insert, 15, order, 0)
  <2>1. \A k \in 1 .. 15 : order[0 + k] = TDReport10Insert[k]
    OBVIOUS
  <2>2. Len(TDReport10Insert) = 15 /\ DOMAIN TDReport10Insert = 1 .. 15
    BY OrderHasMembers DEF Members
  <2>. QED BY <2>1, <2>2 DEF PartOf
<1>5. WriteAll(r, TDReport10Insert) = Bytes(f[0 + 1], f[0 + 15 + 1] - f[0 + 1])
  BY <1>1, <1>4, PartWritten
<1>6. f[0 + 1] = p /\ f[0 + 15 + 1] - f[0 + 1] = TD_REPORT10_BYTE_LEN
  BY <1>2, <1>3 DEF TD_REPORT10_BYTE_LEN
<1>. QED BY <1>5, <1>6 DEF TDReport10Blob, TDReport10Insert

LEMMA TdReport15BlobIs ==
    ASSUME NEW p \in Nat, NEW order, NEW n \in Nat, n >= 17,
           \A k \in 1 .. 17 : order[k] = TDReport15Insert[k],
           NEW r, NEW f, FilledFrom(r, order, n, p, f)
    PROVE  TDReport15Blob(r) = Bytes(p, TD_REPORT15_BYTE_LEN)
<1> DEFINE sub == << "teeTcbSvn2", "mrServiceTd" >>
<1>1. Placing(f, n, Widths(order, n), p) /\ Laid(r, order, n, f)
  BY DEF FilledFrom
<1>2. \A k \in 1 .. 15 : order[k] = TDReport10Insert[k]
  BY DEF TDReport10Insert, TDReport15Insert
<1>3. f[16] = p + TD_REPORT10_BYTE_LEN /\ f[18] = p + TD_REPORT15_BYTE_LEN
  <2>1. f[16] = p + TD_REPORT10_BYTE_LEN
    BY <1>1, <1>2, TdReport10Places
  <2>2. f[18] = p + TD_REPORT15_BYTE_LEN
    BY <1>1, TdReport15Places
  <2>. QED BY <2>1, <2>2
<1>4. TDReport10Blob(r) = Bytes(p, TD_REPORT10_BYTE_LEN)
  BY <1>2, TdReport10BlobIs
<1>5. PartOf(sub, 2, order, 15)
  <2>1. order[15 + 1] = "teeTcbSvn2" /\ order[15 + 2] = "mrServiceTd"
    BY DEF TDReport10Insert, TDReport15Insert
  <2>. QED BY <2>1 DEF PartOf
<1>. HIDE DEF sub
<1>6. WriteAll(r, sub) = Bytes(f[15 + 1], f[15 + 2 + 1] - f[15 + 1])
  BY <1>1, <1>5, PartWritten
<1>7. f[15 + 1] = p + 584 /\ f[15 + 2 + 1] - f[15 + 1] = 64
  BY <1>3 DEF TD_REPORT10_BYTE_LEN, TD_REPORT15_BYTE_LEN
<1>8. Follow(Bytes(p, 584), Bytes(p + 584, 64), Bytes(p, 648))
  <2> DEFINE a == 584
             b == 64
  <2>1. a \in Nat /\ b \in Nat /\ a + b = 648
    OBVIOUS
  <2>. HIDE DEF a, b
  <2>2. Follow(Bytes(p, a), Bytes(p + a, b), Bytes(p, a + b))
    BY <2>1, BytesFollow
  <2>. QED BY <2>1, <2>2 DEF a, b
<1>9. Follow(Bytes(p, 584), Bytes(p + 584, 64), TDReport15Blob(r))
  <2>1. TDReport15Blob(r) = TDReport10Blob(r) \o WriteAll(r, sub)
    BY DEF TDReport15Blob, sub
  <2>2. TDReport10Blob(r) = Bytes(p, 584)
    BY <1>4 DEF TD_REPORT10_BYTE_LEN
  <2>3. WriteAll(r, sub) = Bytes(p + 584, 64)
    BY <1>6, <1>7
  <2>. QED BY <2>1, <2>2, <2>3 DEF Follow
<1>10. TDReport15Blob(r) = Bytes(p, 648)
  BY <1>8, <1>9, FollowSame
<1>. QED BY <1>10 DEF TD_REPORT15_BYTE_LEN

LEMMA TdReport15ExBlobIs ==
    ASSUME NEW p \in Nat, NEW r, NEW f, FilledFrom(r, TDReport15ExInsert, 27, p, f)
    PROVE  TDReport15ExBlob(r) = Bytes(p, TD_REPORT15EX_BYTE_LEN)
<1> DEFINE order == TDReport15ExInsert
           sub == << "vmid", "tdId", "devInfo", "initServTdHash", "initServTdAttributes", "initCpuSvn",
                     "initTeeTcbSvn", "initTeeFmspc", "curServTdHash", "curServTdAttributes" >>
<1>1. Placing(f, 27, Widths(order, 27), p) /\ Laid(r, order, 27, f)
  BY DEF FilledFrom
<1>2. \A k \in 1 .. 17 : order[k] = TDReport15Insert[k]
  BY DEF TDReport10Insert, TDReport15Insert, TDReport15ExInsert
<1>3. f[18] = p + TD_REPORT15_BYTE_LEN /\ f[28] = p + TD_REPORT15EX_BYTE_LEN
  <2>1. f[18] = p + TD_REPORT15_BYTE_LEN
    BY <1>1, <1>2, TdReport15Places
  <2>2. f[28] = p + TD_REPORT15EX_BYTE_LEN
    BY <1>1, TdReport15ExPlaces
  <2>. QED BY <2>1, <2>2
<1>4. TDReport15Blob(r) = Bytes(p, TD_REPORT15_BYTE_LEN)
  BY <1>2, TdReport15BlobIs
<1>5. PartOf(sub, 10, order, 17)
  BY DEF PartOf, TDReport10Insert, TDReport15Insert, TDReport15ExInsert
<1>. HIDE DEF sub, order
<1>6. WriteAll(r, sub) = Bytes(f[17 + 1], f[17 + 10 + 1] - f[17 + 1])
  BY <1>1, <1>5, PartWritten
<1>7. f[17 + 1] = p + 648 /\ f[17 + 10 + 1] - f[17 + 1] = 237
  BY <1>3 DEF TD_REPORT15EX_BYTE_LEN, TD_REPORT15_BYTE_LEN
<1>8. Follow(Bytes(p, 648), Bytes(p + 648, 237), Bytes(p, 885))
  <2> DEFINE a == 648
             b == 237
  <2>1. a \in Nat /\ b \in Nat /\ a + b = 885
    OBVIOUS
  <2>. HIDE DEF a, b
  <2>2. Follow(Bytes(p, a), Bytes(p + a, b), Bytes(p, a + b))
    BY <2>1, BytesFollow
  <2>. QED BY <2>1, <2>2 DEF a, b
<1>9. Follow(Bytes(p, 648), Bytes(p + 648, 237), TDReport15ExBlob(r))
  <2>1. TDReport15ExBlob(r) = TDReport15Blob(r) \o WriteAll(r, sub)
    BY DEF TDReport15ExBlob, sub
  <2>2. TDReport15Blob(r) = Bytes(p, 648)
    BY <1>4 DEF TD_REPORT15_BYTE_LEN
  <2>3. WriteAll(r, sub) = Bytes(p + 648, 237)
    BY <1>6, <1>7
  <2>. QED BY <2>1, <2>2, <2>3 DEF Follow
<1>10. TDReport15ExBlob(r) = Bytes(p, 885)
  BY <1>8, <1>9, FollowSame
<1>. QED BY <1>10 DEF TD_REPORT15EX_BYTE_LEN

\* What the getters look for in a TD report.
LEMMA TdReportAnswers ==
    ASSUME NEW p \in Nat, NEW order, NEW n \in Nat, n >= 15,
           \A k \in 1 .. 15 : order[k] = TDReport10Insert[k],
           NEW r, NEW f, FilledFrom(r, order, n, p, f)
    PROVE  /\ r.teeTcbSvn = Bytes(p, 16)
           /\ r.mrSignerSeam = Bytes(p + MR_SIGNER_SEAM_AT, 48)
           /\ r.seamAttributes = Bytes(p + SEAM_ATTRIBUTES_AT, 8)
<1>1. Placing(f, n, Widths(order, n), p)
  BY DEF FilledFrom
<1>2. f[3] = p + MR_SIGNER_SEAM_AT /\ f[4] = p + SEAM_ATTRIBUTES_AT
  BY <1>1, TdReport10Places
<1>3. f[1] = p
  BY <1>1 DEF Placing
<1>4. order[1] = "teeTcbSvn" /\ order[3] = "mrSignerSeam" /\ order[4] = "seamAttributes"
  BY DEF TDReport10Insert
<1>5. /\ r[order[1]] = Inserted(order[1], f[1]) /\ r[order[3]] = Inserted(order[3], f[3])
      /\ r[order[4]] = Inserted(order[4], f[4])
  BY DEF FilledFrom
<1>6. ASSUME NEW x
      PROVE  /\ Inserted("teeTcbSvn", x) = Bytes(x, 16) /\ Inserted("mrSignerSeam", x) = Bytes(x, 48)
             /\ Inserted("seamAttributes", x) = Bytes(x, 8)
  <2>1. Width["teeTcbSvn"] = 16 /\ Width["mrSignerSeam"] = 48 /\ Width["seamAttributes"] = 8
    BY DEF Width
  <2>. QED BY <2>1 DEF Inserted, Uint16Fields, Uint32Fields
<1>. QED BY <1>2, <1>3, <1>4, <1>5, <1>6

LEMMA TdReport15Answers ==
    ASSUME NEW p \in Nat, NEW order, NEW n \in Nat, n >= 17,
           \A k \in 1 .. 17 : order[k] = TDReport15Insert[k],
           NEW r, NEW f, FilledFrom(r, order, n, p, f)
    PROVE  r.teeTcbSvn2 = Bytes(p + TEE_TCB_SVN_2_AT, 16)
<1>1. Placing(f, n, Widths(order, n), p)
  BY DEF FilledFrom
<1>2. \A k \in 1 .. 15 : order[k] = TDReport10Insert[k]
  BY DEF TDReport10Insert, TDReport15Insert
<1>3. f[16] = p + TEE_TCB_SVN_2_AT
  BY <1>1, <1>2, TdReport10Places DEF TEE_TCB_SVN_2_AT
<1>4. order[16] = "teeTcbSvn2"
  BY DEF TDReport10Insert, TDReport15Insert
<1>5. r[order[16]] = Inserted(order[16], f[16])
  BY DEF FilledFrom
<1>6. ASSUME NEW x PROVE Inserted("teeTcbSvn2", x) = Bytes(x, 16)
  <2>1. Width["teeTcbSvn2"] = 16
    BY DEF Width
  <2>. QED BY <2>1 DEF Inserted, Uint16Fields, Uint32Fields
<1>. QED BY <1>3, <1>4, <1>5, <1>6

\* A TD report that was read answers what stands in it.
TdStands(type, r, p) ==
    /\ rawBlob(type, r) = Bytes(p, ReportLength(type))
    /\ r.teeTcbSvn = Bytes(p, 16)
    /\ r.mrSignerSeam = Bytes(p + MR_SIGNER_SEAM_AT, 48)
    /\ r.seamAttributes = Bytes(p + SEAM_ATTRIBUTES_AT, 8)
    /\ type \in { 3, 4 } => r.teeTcbSvn2 = Bytes(p + TEE_TCB_SVN_2_AT, 16)

LEMMA ReportLengthIs ==
    /\ ReportLength(1) = ENCLAVE_REPORT_BYTE_LEN /\ ReportLength(2) = TD_REPORT10_BYTE_LEN
    /\ ReportLength(3) = TD_REPORT15_BYTE_LEN /\ ReportLength(4) = TD_REPORT15EX_BYTE_LEN
    /\ ENCLAVE_REPORT_BYTE_LEN \in Nat /\ TD_REPORT10_BYTE_LEN \in Nat
    /\ TD_REPORT15_BYTE_LEN \in Nat /\ TD_REPORT15EX_BYTE_LEN \in Nat
  BY DEF ReportLength, BODY_SGX_ENCLAVE_REPORT_TYPE, BODY_TD_REPORT10_TYPE, BODY_TD_REPORT15_TYPE,
         BODY_TD_REPORT15EX_TYPE, ENCLAVE_REPORT_BYTE_LEN, TD_REPORT10_BYTE_LEN,
         TD_REPORT15_BYTE_LEN, TD_REPORT15EX_BYTE_LEN

LEMMA OrdersBeginAlike ==
    /\ \A k \in 1 .. 15 : TDReport15Insert[k] = TDReport10Insert[k]
    /\ \A k \in 1 .. 15 : TDReport15ExInsert[k] = TDReport10Insert[k]
    /\ \A k \in 1 .. 17 : TDReport15ExInsert[k] = TDReport15Insert[k]
<1>1. \A k \in 1 .. 15 : TDReport15Insert[k] = TDReport10Insert[k]
  BY DEF TDReport10Insert, TDReport15Insert
<1>2. \A k \in 1 .. 17 : TDReport15ExInsert[k] = TDReport15Insert[k]
  BY DEF TDReport10Insert, TDReport15Insert, TDReport15ExInsert
<1>. QED BY <1>1, <1>2

LEMMA TdReportStands ==
    ASSUME NEW type \in 2 .. 4, NEW p \in Nat, Readable(p, p + ReportLength(type))
    PROVE  TdStands(type, Insert(type, p), p)
<1>0. /\ InsertOrder[2] = TDReport10Insert /\ InsertOrder[3] = TDReport15Insert
      /\ InsertOrder[4] = TDReport15ExInsert
  BY DEF InsertOrder
<1>1. CASE type = 2
  <2> DEFINE r == Insert(2, p)
  <2>1. Readable(p, p + TD_REPORT10_BYTE_LEN)
    BY <1>1, ReportLengthIs
  <2>2. ASSUME NEW f, Placing(f, 15, Widths(TDReport10Insert, 15), p)
        PROVE  f[15 + 1] = p + TD_REPORT10_BYTE_LEN
    BY <2>2, TdReport10Places
  <2>. HIDE DEF r
  <2>3. PICK f : FilledFrom(r, TDReport10Insert, 15, p, f)
    BY <1>0, <2>1, <2>2, OrderHasMembers, ReportLengthIs, InsertFillsFrom DEF r
  <2>4. TDReport10Blob(r) = Bytes(p, TD_REPORT10_BYTE_LEN)
    BY <2>3, TdReport10BlobIs
  <2>5. /\ r.teeTcbSvn = Bytes(p, 16) /\ r.mrSignerSeam = Bytes(p + MR_SIGNER_SEAM_AT, 48)
        /\ r.seamAttributes = Bytes(p + SEAM_ATTRIBUTES_AT, 8)
    BY <2>3, TdReportAnswers
  <2>6. TdStands(2, r, p)
    BY <2>4, <2>5, RawBlobIs, ReportLengthIs DEF TdStands
  <2>. QED BY <1>1, <2>6 DEF r
<1>2. CASE type = 3
  <2> DEFINE r == Insert(3, p)
  <2>1. Readable(p, p + TD_REPORT15_BYTE_LEN)
    BY <1>2, ReportLengthIs
  <2>2. ASSUME NEW f, Placing(f, 17, Widths(TDReport15Insert, 17), p)
        PROVE  f[17 + 1] = p + TD_REPORT15_BYTE_LEN
    BY <2>2, TdReport15Places
  <2>. HIDE DEF r
  <2>3. PICK f : FilledFrom(r, TDReport15Insert, 17, p, f)
    BY <1>0, <2>1, <2>2, OrderHasMembers, ReportLengthIs, InsertFillsFrom DEF r
  <2>4. TDReport15Blob(r) = Bytes(p, TD_REPORT15_BYTE_LEN)
    BY <2>3, TdReport15BlobIs
  <2>5. /\ r.teeTcbSvn = Bytes(p, 16) /\ r.mrSignerSeam = Bytes(p + MR_SIGNER_SEAM_AT, 48)
        /\ r.seamAttributes = Bytes(p + SEAM_ATTRIBUTES_AT, 8)
    <3>1. \A k \in 1 .. 15 : TDReport15Insert[k] = TDReport10Insert[k]
      BY OrdersBeginAlike
    <3>. QED BY <2>3, <3>1, TdReportAnswers
  <2>6. r.teeTcbSvn2 = Bytes(p + TEE_TCB_SVN_2_AT, 16)
    BY <2>3, TdReport15Answers
  <2>7. TdStands(3, r, p)
    BY <2>4, <2>5, <2>6, RawBlobIs, ReportLengthIs DEF TdStands
  <2>. QED BY <1>2, <2>7 DEF r
<1>3. CASE type = 4
  <2> DEFINE r == Insert(4, p)
  <2>1. Readable(p, p + TD_REPORT15EX_BYTE_LEN)
    BY <1>3, ReportLengthIs
  <2>2. ASSUME NEW f, Placing(f, 27, Widths(TDReport15ExInsert, 27), p)
        PROVE  f[27 + 1] = p + TD_REPORT15EX_BYTE_LEN
    BY <2>2, TdReport15ExPlaces
  <2>. HIDE DEF r
  <2>3. PICK f : FilledFrom(r, TDReport15ExInsert, 27, p, f)
    BY <1>0, <2>1, <2>2, OrderHasMembers, ReportLengthIs, InsertFillsFrom DEF r
  <2>4. TDReport15ExBlob(r) = Bytes(p, TD_REPORT15EX_BYTE_LEN)
    BY <2>3, TdReport15ExBlobIs
  <2>5. /\ r.teeTcbSvn = Bytes(p, 16) /\ r.mrSignerSeam = Bytes(p + MR_SIGNER_SEAM_AT, 48)
        /\ r.seamAttributes = Bytes(p + SEAM_ATTRIBUTES_AT, 8)
    <3>1. \A k \in 1 .. 15 : TDReport15ExInsert[k] = TDReport10Insert[k]
      BY OrdersBeginAlike
    <3>. QED BY <2>3, <3>1, TdReportAnswers
  <2>6. r.teeTcbSvn2 = Bytes(p + TEE_TCB_SVN_2_AT, 16)
    <3>1. \A k \in 1 .. 17 : TDReport15ExInsert[k] = TDReport15Insert[k]
      BY OrdersBeginAlike
    <3>. QED BY <2>3, <3>1, TdReport15Answers
  <2>7. TdStands(4, r, p)
    BY <2>4, <2>5, <2>6, RawBlobIs, ReportLengthIs DEF TdStands
  <2>. QED BY <1>3, <2>7 DEF r
<1>. QED BY <1>1, <1>2, <1>3

(***************************************************************************)
(* The object: what the caller holds is of an accepted quote.              *)
(***************************************************************************)
Outputs ==
    [ size : { << >>, << Len(Part("certificationData")) >> },
      type : { << >>, << certType >> }, data : { << >>, Part("certificationData") } ]

ObjectInv ==
    /\ IInv
    /\ output = Nothing \/ (pc = "accepted" /\ answer # NotCalled)
    /\ output \in Outputs
    /\ output.type # << >> => output.data = Part("certificationData")

LEMMA ObjectInitial == ObjectInit => ObjectInv
  BY Initial DEF ObjectInit, ObjectInv, Outputs, Nothing

LEMMA NothingIs == Nothing.size = << >> /\ Nothing.type = << >> /\ Nothing.data = << >>
  BY DEF Nothing

LEMMA ObjectInvariance == ObjectInv /\ [ObjectNext]_objectVars => ObjectInv'
<1>. SUFFICES ASSUME ObjectInv, [ObjectNext]_objectVars PROVE ObjectInv'
  OBVIOUS
<1>1. CASE UNCHANGED objectVars
  <2>1. UNCHANGED vars /\ UNCHANGED answer /\ UNCHANGED output
    BY <1>1 DEF objectVars
  <2>2. IInv'
    BY <2>1, Invariance DEF ObjectInv
  <2>3. UNCHANGED pc /\ UNCHANGED certType /\ UNCHANGED regions
    BY <2>1 DEF vars
  <2>. QED BY <2>1, <2>2, <2>3 DEF ObjectInv, Outputs, Part
<1>2. CASE Parse
  <2>1. IInv'
    BY <1>2, Invariance DEF Parse, ObjectInv
  <2>2. output = Nothing /\ output' = Nothing
    BY <1>2 DEF Parse, ObjectInv
  <2>. QED BY <2>1, <2>2 DEF ObjectInv, Outputs, Nothing
<1>3. CASE UNCHANGED vars /\ (MissingParameters \/ GetQECertificationDataSize \/ GetQECertificationData)
  <2>1. IInv'
    BY <1>3, Invariance DEF ObjectInv
  <2>2. UNCHANGED pc /\ UNCHANGED certType /\ UNCHANGED regions
    BY <1>3 DEF vars
  <2>3. UNCHANGED Outputs /\ UNCHANGED Part("certificationData")
    BY <2>2 DEF Outputs, Part
  <2>4. answer' # NotCalled
    BY <1>3 DEF MissingParameters, GetQECertificationDataSize, GetQECertificationData, NotCalled
  <2>5. CASE UNCHANGED output
    BY <2>1, <2>2, <2>3, <2>4, <2>5 DEF ObjectInv
  <2>6. CASE pc = "accepted" /\ output' = [ output EXCEPT !.size = << Len(Part("certificationData")) >> ]
    <3>1. output' \in Outputs /\ output'.type = output.type /\ output'.data = output.data
      BY <2>6 DEF ObjectInv, Outputs
    <3>. QED BY <2>1, <2>2, <2>3, <2>4, <2>6, <3>1 DEF ObjectInv
  <2>7. CASE /\ pc = "accepted"
             /\ output' = [ output EXCEPT !.type = << certType >>, !.data = Part("certificationData") ]
    <3>1. output' \in Outputs /\ output'.data = Part("certificationData")
      BY <2>7 DEF ObjectInv, Outputs
    <3>. QED BY <2>1, <2>2, <2>3, <2>4, <2>7, <3>1 DEF ObjectInv
  <2>8. CASE GetQECertificationDataSize
    <3>1. \/ UNCHANGED output
          \/ /\ pc = "accepted"
             /\ output' = [ output EXCEPT !.size = << Len(Part("certificationData")) >> ]
      BY <2>8 DEF GetQECertificationDataSize, getCertificationData, Decided
    <3>. QED BY <2>5, <2>6, <3>1
  <2>9. CASE GetQECertificationData
    <3>1. \/ UNCHANGED output
          \/ /\ pc = "accepted"
             /\ output' = [ output EXCEPT !.type = << certType >>, !.data = Part("certificationData") ]
      BY <2>9 DEF GetQECertificationData, getCertificationData, Decided
    <3>. QED BY <2>5, <2>7, <3>1
  <2>10. CASE MissingParameters
    BY <2>5, <2>10 DEF MissingParameters
  <2>. QED BY <1>3, <2>8, <2>9, <2>10
<1>4. CASE MissingParameters \/ GetQECertificationDataSize \/ GetQECertificationData
  BY <1>3, <1>4 DEF MissingParameters, GetQECertificationDataSize, GetQECertificationData
<1>. QED BY <1>1, <1>2, <1>4 DEF ObjectNext

\* What is accepted has bytes for both of its reports.
LEMMA ReportsAreRead ==
    ASSUME IInv, pc = "accepted"
    PROVE  /\ QeReportAt(quote) \in Nat /\ ReportAt(quote) \in Nat
           /\ Readable(QeReportAt(quote), QeReportAt(quote) + ENCLAVE_REPORT_BYTE_LEN)
           /\ Readable(ReportAt(quote), ReportAt(quote) + ReportLength(ReportType(quote)))
<1>1. quote \in Quotes /\ quote.size \in Nat /\ WellFormed(quote)
  BY QuotesAssumption DEF IInv, TypeOK, ChecksSoFar
<1>2. \A k \in 0 .. (quote.size - 1) : ByteAt(k) \in Byte
  BY <1>1, QuoteObjectAssumption DEF Byte
<1>3. quote.version >= QUOTE_VERSION_3 /\ Parsable(quote)
  BY <1>1 DEF WellFormed, Supported, QUOTE_VERSION_3, QUOTE_VERSION_4, QUOTE_VERSION_5
<1> DEFINE q == quote
           w1 == Word(q, AuthDataSizeAt(q))
           w2 == Word(q, AfterAttestKey(q) + 2)
<1>4. w1 \in Nat /\ w2 \in Nat
  BY <1>1, WordType
<1>5. /\ ReportLength(ReportType(q)) \in Nat /\ ReportAt(q) \in Nat
      /\ AuthDataSizeAt(q) = ReportAt(q) + ReportLength(ReportType(q))
      /\ AuthDataAt(q) = AuthDataSizeAt(q) + 4 /\ AuthDataEnd(q) = AuthDataAt(q) + w1
      /\ AttestKeyAt(q) = AuthDataAt(q) + 64 /\ AfterAttestKey(q) = AttestKeyAt(q) + 64
      /\ QeReportAt(q) = AfterAttestKey(q) + 6 \/ QeReportAt(q) = AfterAttestKey(q)
      /\ OuterEnd(q) = QeReportAt(q) + w2
  BY <1>1, Positions
<1>6. AuthDataEnd(q) <= q.size /\ QeLimit(q) - QeReportAt(q) >= 384
  BY <1>1, <1>3, Room
<1>7. QeLimit(q) <= q.size
  <2>1. HasQeReportCertificationData(q) => OuterEnd(q) <= AuthDataEnd(q)
    BY <1>3 DEF Parsable
  <2>. HIDE DEF q, w1, w2
  <2>. QED BY <1>1, <1>4, <1>5, <1>6, <2>1 DEF QeLimit, q
<1>8. QeReportAt(q) \in Nat /\ QeReportAt(q) + 384 <= q.size
      /\ ReportAt(q) + ReportLength(ReportType(q)) <= q.size
  <2>1. QeLimit(q) \in Int
    BY <1>4, <1>5 DEF QeLimit
  <2>. HIDE DEF q, w1, w2
  <2>. QED BY <1>1, <1>4, <1>5, <1>6, <1>7, <2>1 DEF q
<1>. QED BY <1>1, <1>2, <1>5, <1>8 DEF Readable, ENCLAVE_REPORT_BYTE_LEN

\* A quote's type of report, and the structure its getters look into.
LEMMA AcceptedTypes ==
    ASSUME IInv, pc = "accepted"
    PROVE  LET type == ReportType(quote)
               r    == Insert(type, ReportAt(quote))
           IN  /\ type \in 1 .. 4 /\ Report(type) = r
               /\ (quote.teeType = TEE_TYPE_TDX) =>
                    /\ type \in 2 .. 4 /\ TdReport = r /\ getTeeTcbSvn = r.teeTcbSvn
                    /\ type \in { 3, 4 } => getTeeTcbSvn2 = r.teeTcbSvn2
<1> DEFINE type == ReportType(quote)
           r == Insert(type, ReportAt(quote))
<1>1. WellFormed(quote) /\ quote.version \in Nat
  BY QuotesAssumption DEF IInv, TypeOK, ChecksSoFar
<1>2. /\ quote.version \in { 3, 4, 5 } /\ quote.teeType \in { 0, 129 }
      /\ quote.version = 3 => quote.teeType = 0
      /\ quote.version = 5 => quote.bodyType \in 1 .. 4 /\ (quote.teeType = 0 <=> quote.bodyType = 1)
  BY <1>1 DEF WellFormed, Supported, Parsable, BodyFits, HasBody, ALLOWED_BODY_TYPES, QUOTE_VERSION_3,
     QUOTE_VERSION_4, QUOTE_VERSION_5, TEE_TYPE_SGX, TEE_TYPE_TDX, BODY_SGX_ENCLAVE_REPORT_TYPE
<1>3. /\ quote.version = 5 => type = quote.bodyType
      /\ quote.version # 5 /\ quote.teeType = 0 => type = 1
      /\ quote.version # 5 /\ quote.teeType = 129 => type = 2
  BY <1>2 DEF ReportType, HasBody, QUOTE_VERSION_4, TEE_TYPE_SGX, TEE_TYPE_TDX,
     BODY_SGX_ENCLAVE_REPORT_TYPE, BODY_TD_REPORT10_TYPE
<1>4. type \in 1 .. 4
  BY <1>2, <1>3
<1>5. Report(type) = r
  BY DEF Report
<1>. HIDE DEF type, r
<1>6. ASSUME quote.teeType = TEE_TYPE_TDX
      PROVE  /\ type \in 2 .. 4 /\ TdReport = r /\ getTeeTcbSvn = r.teeTcbSvn
             /\ type \in { 3, 4 } => getTeeTcbSvn2 = r.teeTcbSvn2
  <2>1. quote.teeType = 129
    BY <1>6 DEF TEE_TYPE_TDX
  <2>2. CASE quote.version = 4
    <3>1. type = 2
      BY <1>3, <2>1, <2>2
    <3>2. TdReport = Report(2)
      BY <2>2 DEF TdReport, getTdReport10, QUOTE_VERSION_4, BODY_TD_REPORT10_TYPE
    <3>3. getTeeTcbSvn = TdReport.teeTcbSvn
      BY <2>2 DEF getTeeTcbSvn, QUOTE_VERSION_4
    <3>. QED BY <1>5, <3>1, <3>2, <3>3
  <2>3. CASE quote.version = 5
    <3>1. type = quote.bodyType /\ type \in 2 .. 4
      BY <1>2, <1>3, <2>1, <2>3
    <3>2. TdReport = Report(type)
      BY <2>3, <3>1 DEF TdReport, getTdReport10, getTdReport15, getTdReport15Ex, QUOTE_VERSION_4,
         BODY_TD_REPORT10_TYPE, BODY_TD_REPORT15_TYPE, BODY_TD_REPORT15EX_TYPE
    <3>3. getTeeTcbSvn = TdReport.teeTcbSvn
      BY <2>3 DEF getTeeTcbSvn, QUOTE_VERSION_4
    <3>4. type \in { 3, 4 } => getTeeTcbSvn2 = Report(type).teeTcbSvn2
      BY <3>1 DEF getTeeTcbSvn2, getTdReport15, getTdReport15Ex, BODY_TD_REPORT15_TYPE,
         BODY_TD_REPORT15EX_TYPE
    <3>. QED BY <1>5, <3>1, <3>2, <3>3, <3>4
  <2>. QED BY <1>2, <2>1, <2>2, <2>3
<1>. QED BY <1>4, <1>5, <1>6 DEF type, r

LEMMA ObjectAnswers == ASSUME ObjectInv PROVE QuoteAnswersAsItStands
<1>0. IInv
  BY DEF ObjectInv
<1>1. ASSUME pc = "accepted"
      PROVE  /\ WellFormed(quote)
             /\ regions["qeReport"][1] = QeReportAt(quote)
             /\ regions["certificationData"] = Layout(quote)["certificationData"]
             /\ certType = Word(quote, CertificationAt(quote))
  <2>1. /\ regions["qeReport"] = Layout(quote)["qeReport"]
        /\ regions["certificationData"] = Layout(quote)["certificationData"]
    BY <1>0, <1>1, AcceptedParts DEF RegionNames
  <2>2. WellFormed(quote)
    BY <1>0, <1>1 DEF IInv, ChecksSoFar
  <2>3. quote.version >= QUOTE_VERSION_3
    BY <2>2 DEF WellFormed, Supported, QUOTE_VERSION_3, QUOTE_VERSION_4, QUOTE_VERSION_5
  <2>4. certType = Word(quote, CertificationAt(quote))
    BY <1>0, <1>1, <2>3 DEF IInv, ChecksSoFar
  <2>. QED BY <2>1, <2>2, <2>4, LayoutParts
<1>2. ASSUME pc = "accepted"
      PROVE  rawBlob(BODY_SGX_ENCLAVE_REPORT_TYPE, getQeReport)
               = Bytes(QeReportAt(quote), ENCLAVE_REPORT_BYTE_LEN)
  BY <1>0, <1>1, <1>2, ReportsAreRead, EnclaveReportStands DEF getQeReport
<1> DEFINE type == ReportType(quote)
           at == ReportAt(quote)
           r == Insert(type, at)
<1>3. ASSUME pc = "accepted"
      PROVE  /\ rawBlob(type, Report(type)) = Bytes(at, ReportLength(type))
             /\ (quote.teeType = TEE_TYPE_TDX) =>
                  /\ getTeeTcbSvn = Bytes(at, 16)
                  /\ getMrSignerSeam = Bytes(at + MR_SIGNER_SEAM_AT, 48)
                  /\ getSeamAttributes = Bytes(at + SEAM_ATTRIBUTES_AT, 8)
                  /\ type \in { BODY_TD_REPORT15_TYPE, BODY_TD_REPORT15EX_TYPE } =>
                       getTeeTcbSvn2 = Bytes(at + TEE_TCB_SVN_2_AT, 16)
  <2>1. /\ type \in 1 .. 4 /\ Report(type) = r
        /\ (quote.teeType = TEE_TYPE_TDX) =>
             /\ type \in 2 .. 4 /\ TdReport = r /\ getTeeTcbSvn = r.teeTcbSvn
             /\ type \in { 3, 4 } => getTeeTcbSvn2 = r.teeTcbSvn2
    BY <1>0, <1>3, AcceptedTypes
  <2>2. at \in Nat /\ Readable(at, at + ReportLength(type))
    BY <1>0, <1>3, ReportsAreRead
  <2>. HIDE DEF type, at
  <2>3. CASE type = 1
    <3>1. rawBlob(1, Insert(1, at)) = Bytes(at, ReportLength(1))
      BY <2>2, <2>3, ReportLengthIs, EnclaveReportStands DEF BODY_SGX_ENCLAVE_REPORT_TYPE
    <3>. QED BY <2>1, <2>3, <3>1
  <2>4. CASE type \in 2 .. 4
    <3>1. TdStands(type, r, at)
      BY <2>2, <2>4, TdReportStands
    <3>. HIDE DEF r
    <3>2. getMrSignerSeam = TdReport.mrSignerSeam /\ getSeamAttributes = TdReport.seamAttributes
      BY DEF getMrSignerSeam, getSeamAttributes
    <3>. QED BY <2>1, <3>1, <3>2 DEF TdStands, BODY_TD_REPORT15_TYPE, BODY_TD_REPORT15EX_TYPE
  <2>. QED BY <2>1, <2>3, <2>4
<1>4. output # Nothing => WellFormed(quote)
  BY <1>1 DEF ObjectInv
<1>5. ASSUME output.type # << >>
      PROVE  LET certificationData == Layout(quote)["certificationData"]
             IN  /\ output.data
                      = Bytes(certificationData[1], certificationData[2] - certificationData[1])
                 /\ output.type = << Word(quote, CertificationAt(quote)) >>
                 /\ output.size # << >> => output.size = << Len(output.data) >>
  <2>1. pc = "accepted"
    BY <1>5, NothingIs DEF ObjectInv
  <2>2. output.data = Part("certificationData")
    BY <1>5 DEF ObjectInv
  <2>3. output.type = << certType >> /\ output.size \in { << >>, << Len(Part("certificationData")) >> }
    BY <1>5 DEF ObjectInv, Outputs
  <2>. QED BY <1>1, <2>1, <2>2, <2>3 DEF Part
<1>. QED BY <1>2, <1>3, <1>4, <1>5 DEF QuoteAnswersAsItStands

\* For every quote, whatever its bytes: the blobs, getters and the two calls of
\* the API (Quote.cpp 368-441, QuoteStructures.cpp 48-251, QuoteVerification.cpp
\* 530-599) answer what stands in an accepted quote, byte for byte.
THEOREM QuoteAnswersAsItStandsHolds == ObjectSpec => []QuoteAnswersAsItStands
<1>1. ObjectInit => ObjectInv
  BY ObjectInitial
<1>2. ObjectInv /\ [ObjectNext]_objectVars => ObjectInv'
  BY ObjectInvariance
<1>3. ObjectInv => QuoteAnswersAsItStands
  BY ObjectAnswers
<1>. QED BY <1>1, <1>2, <1>3, PTL DEF ObjectSpec
===============================================================================
