----------------------------- MODULE MCQuoteParser -----------------------------
(***************************************************************************)
(* Quotes for TLC: laid out as the format asks, of every version, TEE and  *)
(* report, then bent: declared sizes, the quote's size and the numbers that *)
(* are compared are a little, or far, off.                                 *)
(***************************************************************************)
EXTENDS QuoteObject, FiniteSets, TLC

Header(version, teeType, bodyType) ==
    [ version |-> version, teeType |-> teeType, bodyType |-> bodyType,
      attestationKeyType |-> ECDSA_256_WITH_P256_CURVE, qeVendorId |-> INTEL_QE_VENDOR_ID,
      bodySize |-> ReportLength(bodyType) ]

Headers ==
    { Header(version, teeType, 0) : version \in 2 .. 4, teeType \in { 0, 129, 5 } }
    \union { Header(version, teeType, bodyType) :
               version \in 5 .. 6, teeType \in { 0, 129, 5 }, bodyType \in 0 .. 5 }

Sizes == { "quote", "authData", "outer", "qeAuthData", "certificationData" }

\* The quote with header h, and with what each size is off by.
Quote(h, qeLen, certLen, typeOfOuter, typeOfInner, off) ==
    LET certAt   == QeAuthDataAt(h) + qeLen
        certEnd  == certAt + CertificationHeaderLen + certLen
        outer    == (AfterAttestKey(h) :> typeOfOuter)
                    @@ (AfterAttestKey(h) + 2 :> certEnd - QeReportAt(h) + off["outer"])
        words    == (AuthDataSizeAt(h) :> certEnd - AuthDataAt(h) + off["authData"])
                    @@ (QeAuthDataSizeAt(h) :> qeLen + off["qeAuthData"])
                    @@ (certAt :> typeOfInner)
                    @@ (certAt + 2 :> certLen + off["certificationData"])
    IN  [ words |-> IF HasQeReportCertificationData(h) THEN words @@ outer ELSE words,
          size |-> certEnd + off["quote"] ]
        @@ h

Exact == [ s \in Sizes |-> 0 ]

\* Up to two sizes off by one, or one that is far off.
Deviations ==
    { off \in [ Sizes -> -1 .. 1 ] : Cardinality({ s \in Sizes : off[s] # 0 }) <= 2 }
    \union { [ Exact EXCEPT ![s] = d ] : s \in Sizes, d \in { 5, 10000 } }
    \union { [ Exact EXCEPT !["quote"] = -d ] : d \in { 6, 200, 500, 600 } }
    \union { [ Exact EXCEPT !["quote"] = 3, !["authData"] = 3, !["outer"] = 3 ] }

NoNegativeSizes(q) == q.size >= 0 /\ \A position \in DOMAIN q.words : q.words[position] >= 0

Bent ==
    { Quote(h, qeLen, certLen, 6, 5, off) :
        h \in Headers, qeLen \in { 0, 32 }, certLen \in { 0, 9 }, off \in Deviations }

Odd ==
    { Quote(h, 32, 9, typeOfOuter, typeOfInner, Exact) :
        h \in Headers, typeOfOuter \in { 5, 6 }, typeOfInner \in { 0, 1, 5, 6 } }
    \union { [ Quote(h, 32, 9, 6, 5, Exact) EXCEPT !.attestationKeyType = 3 ] : h \in Headers }
    \union { [ Quote(h, 32, 9, 6, 5, Exact) EXCEPT !.qeVendorId = "other" ] : h \in Headers }
    \union { [ Quote(h, 32, 9, 6, 5, Exact) EXCEPT !.bodySize = @ + 1 ] : h \in Headers }

AllQuotes == { q \in Bent \union Odd : NoNegativeSizes(q) }
McQuotes == AllQuotes

\* A byte is the sum of the digits of its position, so that neighbours differ and
\* so do fields whose distance is a power of the base.
McByteAt(position) ==
    (position + position \div BYTE + position \div BYTES_2 + position \div BYTES_3 + position \div BYTES_4) % BYTE
===============================================================================
