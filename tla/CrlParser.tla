------------------------------- MODULE CrlParser -------------------------------
(***************************************************************************)
(* CrlStore::parse (CrlStore.cpp) with the functions of PckParser.cpp, and *)
(* what AppCore.cpp does with the file of a CRL before: the text is read   *)
(* as PEM or, when the words of the PEM header are not at its start, as    *)
(* DER in hexadecimal digits; then the store is filled member by member,   *)
(* and an exception leaves it filled up to there.                          *)
(***************************************************************************)
EXTENDS Integers, Sequences, FiniteSets

CONSTANTS
    CrlTexts,          \* texts of CRLs
    Serials,           \* serial numbers of certificates looked up, as octets
    CrlTimes,          \* times a CRL may be asked about: days since 1970, and seconds
    CRL_SECONDS_IN_A_DAY

VARIABLES
    crlText,
    fromFile,     \* the application reads the text from a file
    crlStep,
    crl,          \* _crl: what OpenSSL has decoded, empty before
    store         \* the other members of CrlStore that are set

crlVars == <<crlText, fromFile, crlStep, crl, store>>

(***************************************************************************)
(* Octets written as hexadecimal digits and read back: bytesToHexString of *)
(* the library (Bytes.h) and its twin in the application (AppCore.cpp),    *)
(* and hexStringToBytes (Bytes.h). Octets are numbers below 256, a text is *)
(* a sequence of letters.                                                  *)
(***************************************************************************)
\* hex[]
UpperDigits ==
    << "0", "1", "2", "3", "4", "5", "6", "7", "8", "9", "A", "B", "C", "D", "E", "F" >>

LowerDigits ==
    << "0", "1", "2", "3", "4", "5", "6", "7", "8", "9", "a", "b", "c", "d", "e", "f" >>

bytesToHexString(octets) ==
    [ k \in 1 .. 2 * Len(octets) |->
        LET c == octets[(k + 1) \div 2]
        IN  UpperDigits[(IF k % 2 = 1 THEN c \div 16 ELSE c % 16) + 1] ]

\* The value of a letter; none if it throws.
asciiToValue(letter) ==
    { value \in 0 .. 15 : letter \in { UpperDigits[value + 1], LowerDigits[value + 1] } }

\* Fault: the digits of an octet are taken in the other order.
Octet_Swapped(first, second) ==
    { (high + low * 16) % 256 : high \in asciiToValue(first), low \in asciiToValue(second) }

\* The first digit of two is the higher one; an octet is cut to its eight bits.
Octet(first, second) ==
    { (low + high * 16) % 256 : high \in asciiToValue(first), low \in asciiToValue(second) }

\* All octets or, if the number of letters is odd or one is no digit, none.
hexStringToBytes(letters) ==
    LET octets == [ k \in 1 .. Len(letters) \div 2 |-> Octet(letters[2 * k - 1], letters[2 * k]) ]
    IN  IF Len(letters) % 2 = 1 \/ \E k \in DOMAIN octets : octets[k] = { } THEN << >>
        ELSE [ k \in DOMAIN octets |-> CHOOSE octet \in octets[k] : TRUE ]

(***************************************************************************)
(* Texts.  A text has the form "PEM", with some characters before the      *)
(* header, "hex" or "binary"; its letters, or its octets in a file; its    *)
(* content, the CRL that OpenSSL decodes, if it can, as a set, from the    *)
(* PEM text or from the DER octets der.                                    *)
(***************************************************************************)
PEM_SEARCH_LIMIT == 12
HEADER_OFFSET    == 11   \* of "X509 CRL" in "-----BEGIN X509 CRL-----"

\* AppCore::runVerification: a file that does not begin with the header is passed
\* on as the digits of its octets, whatever is in it.
TextPassed ==
    IF ~fromFile \/ (crlText.form = "PEM" /\ crlText.before = 0) THEN crlText
    ELSE [ crlText EXCEPT !.form = "hex", !.letters = bytesToHexString(crlText.octets) ]

\* str2X509Crl: the last place the words are found at is not after PEM_SEARCH_LIMIT.
ReadAsPem(txt) == txt.form = "PEM" /\ HEADER_OFFSET + txt.before <= PEM_SEARCH_LIMIT

\* hexStringToBytes gives nothing for what are no digits, and the write fails.
Decoded(txt) ==
    IF ReadAsPem(txt) \/ hexStringToBytes(txt.letters) = txt.der THEN txt.content ELSE { }

(***************************************************************************)
(* Members.                                                                *)
(***************************************************************************)
\* getNameEntry: the first of its kind; one that is longer or shorter in UTF-8 than
\* in the certificate is taken for none.
getNameEntry(name, nid) ==
    LET found == { k \in DOMAIN name : name[k].nid = nid }
    IN  IF found = {} THEN ""
        ELSE LET entry == name[CHOOSE k \in found : \A j \in found : k <= j]
             IN  IF entry.encoding = "wide" THEN "" ELSE entry.value

NameNids == { "commonName", "countryName", "organizationName", "localityName",
              "stateOrProvinceName" }

\* x509NameToString, as RFC 2253 has it: every entry, the last one first; an encoding is
\* not told apart.
x509NameToString(name) ==
    [ k \in DOMAIN name |-> <<name[Len(name) + 1 - k].nid, name[Len(name) + 1 - k].value>> ]

\* struct Issuer
getIssuer(name) ==
    [ raw |-> x509NameToString(name), entries |-> [ nid \in NameNids |-> getNameEntry(name, nid) ] ]

\* asn1TimeToTimet: days and seconds since 1970, the seconds with the sign of the days.
asn1TimeToTimet(time) == time.day * CRL_SECONDS_IN_A_DAY + time.sec

IsTime(time) == time.format = "valid"

asn1TimePeriodToValidity(begin, end) ==
    [ notBeforeTime |-> asn1TimeToTimet(begin), notAfterTime |-> asn1TimeToTimet(end) ]

\* getExtension: a known extension has its text, an unknown one its octets.
getExtension(ext) ==
    [ opensslNid |-> ext.nid,
      value |-> IF ext.nid = "undef" \/ ~ext.printable THEN ext.octets ELSE "text" ]

getExtensions(exts) == [ k \in DOMAIN exts |-> getExtension(exts[k]) ]

\* Fault: the loop stops short of the last entry.
getRevoked_ButLast(entries) ==
    [ k \in 1..(Len(entries) - 1) |-> [ serialNumber |-> entries[k] ] ]

\* An entry of the list: the octets of its serial number as OpenSSL keeps them, zero as
\* one octet.
RevokedEntry(serialNumber) == [ serialNumber |-> serialNumber ]

getRevoked(entries) == [ k \in DOMAIN entries |-> RevokedEntry(entries[k]) ]

\* A signature that cannot be decoded has no r and no s, unlike that of a certificate,
\* and is no reason to refuse the CRL.
DecodedSignature(sig) ==
    [ rawDer |-> sig.octets,
      r |-> IF sig.decodes THEN sig.r ELSE << >>, s |-> IF sig.decodes THEN sig.s ELSE << >> ]

getSignature(sig) ==
    IF sig.octets = << >> THEN [ rawDer |-> << >>, r |-> << >>, s |-> << >> ]
    ELSE DecodedSignature(sig)

(***************************************************************************)
(* What OpenSSL makes of a text. The seconds of a time have the sign of    *)
(* its days. A PEM text has a dash in it, and only a binary file has the   *)
(* octets of the DER.                                                      *)
(***************************************************************************)
IsName(name) == name \in Seq([ nid : STRING, value : STRING, encoding : { "ascii", "wide" } ])

IsMoment(time) ==
    /\ time.day \in Int
    /\ time.sec \in (1 - CRL_SECONDS_IN_A_DAY)..(CRL_SECONDS_IN_A_DAY - 1)
    /\ time.day < 0 => time.sec <= 0
    /\ time.day > 0 => time.sec >= 0

IsList(list) == list \in Seq({ list[k] : k \in DOMAIN list })

IsOctetString(octets) == octets \in Seq(0..255)

IsDecodedCrl(c) ==
    /\ IsName(c.issuer)
    /\ IsTime(c.lastUpdate) => IsMoment(c.lastUpdate)
    /\ IsTime(c.nextUpdate) => IsMoment(c.nextUpdate)
    /\ IsList(c.extensions) /\ IsList(c.revoked)

IsCrlText(txt) ==
    /\ txt.form \in { "PEM", "hex", "binary" }
    /\ txt = [ form |-> txt.form, before |-> txt.before, letters |-> txt.letters,
               octets |-> txt.octets, der |-> txt.der, content |-> txt.content ]
    /\ txt.before \in Nat
    /\ txt.letters \in Seq(STRING) /\ IsOctetString(txt.octets) /\ IsOctetString(txt.der)
    /\ txt.der # << >> /\ (txt.octets = txt.der <=> txt.form = "binary")
    /\ txt.form = "PEM" => \E k \in DOMAIN txt.letters : txt.letters[k] = "-"
    /\ \A c \in txt.content : IsDecodedCrl(c) /\ txt.content = { c }

ASSUME CrlsAssumption ==
    /\ CRL_SECONDS_IN_A_DAY \in Nat \ { 0 }
    /\ \A txt \in CrlTexts : IsCrlText(txt)
    /\ \A time \in CrlTimes : IsMoment(time)

(***************************************************************************)
(* parse.                                                                  *)
(***************************************************************************)
CrlStart ==
    /\ crlText.form = "binary" => fromFile
    /\ crlStep = "decode"
    /\ crl = { }
    /\ store = << >>

CrlInit == crlText \in CrlTexts /\ fromFile \in BOOLEAN /\ CrlStart

CrlMembers == << "issuer", "validity", "extensions", "revoked", "signature", "crlNum" >>

Decode ==
    /\ crlStep = "decode"
    /\ crl' = Decoded(TextPassed)
    /\ crlStep' = IF crl' = { } THEN "refused" ELSE "issuer"
    /\ UNCHANGED <<crlText, fromFile, store>>

TheCrl == CHOOSE c \in crl : TRUE

\* The members whose getter throws for some CRLs.
Readable(member) ==
    CASE member = "validity" -> IsTime(TheCrl.lastUpdate) /\ IsTime(TheCrl.nextUpdate)
      [] member = "crlNum"   -> TheCrl.crlNumber # { }
      [] OTHER               -> TRUE

ValueOf(member) ==
    CASE member = "issuer"     -> getIssuer(TheCrl.issuer)
      [] member = "validity"   -> asn1TimePeriodToValidity(TheCrl.lastUpdate, TheCrl.nextUpdate)
      [] member = "extensions" -> getExtensions(TheCrl.extensions)
      [] member = "revoked"    -> getRevoked(TheCrl.revoked)
      [] member = "signature"  -> getSignature(TheCrl.signature)
      [] OTHER                 -> TheCrl.crlNumber

NextMember(k) == IF k = Len(CrlMembers) THEN "parsed" ELSE CrlMembers[k + 1]

\* A getter, and the member it fills.
SetMember(k) ==
    /\ crlStep = CrlMembers[k]
    /\ IF Readable(CrlMembers[k])
       THEN /\ store' = Append(store, ValueOf(CrlMembers[k]))
            /\ crlStep' = NextMember(k)
       ELSE crlStep' = "refused" /\ UNCHANGED store
    /\ UNCHANGED <<crlText, fromFile, crl>>

CrlNext == Decode \/ \E k \in DOMAIN CrlMembers : SetMember(k)

CrlSpec == CrlInit /\ [][CrlNext]_crlVars

(***************************************************************************)
(* What is asked of a parsed CRL.                                          *)
(***************************************************************************)
Parsed == crlStep = "parsed"

\* Certificate::setSerialNumber: the octets of a number, none for zero.
bn2Vec(octets) == IF octets = <<0>> THEN << >> ELSE octets

isRevoked(serial) == \E k \in DOMAIN store[4] : store[4][k].serialNumber = bn2Vec(serial)

isValid(time) == store[2].notBeforeTime <= time /\ time <= store[2].notAfterTime

CRL_REQUIRED_EXTENSIONS == << "crl_number", "authority_key_identifier" >>

checkStandardExtensions(nids) ==
    /\ Len(nids) <= Len(store[3])
    /\ \A i \in DOMAIN nids : \E k \in DOMAIN store[3] : store[3][k].opensslNid = nids[i]

(***************************************************************************)
(* Properties.                                                             *)
(***************************************************************************)
\* A certificate is found revoked exactly when its serial number is in the CRL
\* (CrlStore.cpp:130): the two numbers are read by different functions, the one of the
\* CRL by its octets (PckParser.cpp:395), the one of the certificate through a BIGNUM
\* (Certificate.cpp:174), which agree for every number but zero, no number for a
\* certificate, and no entry of the list is lost.
RevokedIsFound ==
    Parsed =>
        \A serial \in Serials \ { <<0>> } :
            isRevoked(serial) = \E k \in DOMAIN TheCrl.revoked : TheCrl.revoked[k] = serial

Chronological(a, b) == a.day < b.day \/ (a.day = b.day /\ a.sec <= b.sec)

IsComplete(c) == IsTime(c.lastUpdate) /\ IsTime(c.nextUpdate) /\ c.crlNumber # { }

Spells(letters, octets) ==
    /\ Len(letters) = 2 * Len(octets)
    /\ \A k \in DOMAIN octets :
          LET Digits(value) == { UpperDigits[value + 1], LowerDigits[value + 1] }
          IN  /\ letters[2 * k - 1] \in Digits(octets[k] \div 16)
              /\ letters[2 * k] \in Digits(octets[k] % 16)

\* A CRL is parsed when it has its dates and its number, whatever its signature, and
\* from a text only if it is one: from a binary file always, for its octets come through
\* the digits as they were (AppCore.cpp:42, Bytes.h:76); from digits if they are, in
\* either case, all of its DER; a PEM file that does not begin with its header is
\* turned into digits by the application (AppCore.cpp:91) and refused by the library,
\* which would have taken one character more before the header (PckParser.cpp:476).
\* What is parsed is valid from one date to the other, before 1970 too, and its issuer
\* is that of the first entries of its name; it has the extensions that the verifier asks
\* for if both are among those of the text, whatever else is there (CommonVerifier.cpp:46).
CrlIsReadAsItStands ==
    /\ crlStep \in { "parsed", "refused" } =>
          Parsed = /\ \E c \in crlText.content : IsComplete(c)
                   /\ crlText.form = "PEM" => crlText.before <= IF fromFile THEN 0 ELSE 1
                   /\ crlText.form = "hex" => ~fromFile /\ Spells(crlText.letters, crlText.der)
    /\ Parsed =>
          /\ crl = crlText.content
          /\ checkStandardExtensions(CRL_REQUIRED_EXTENSIONS) =
                ({ "crl_number", "authority_key_identifier" }
                   \subseteq { TheCrl.extensions[k].nid : k \in DOMAIN TheCrl.extensions })
          /\ \A time \in CrlTimes :
                isValid(asn1TimeToTimet(time)) <=>
                    /\ Chronological(TheCrl.lastUpdate, time)
                    /\ Chronological(time, TheCrl.nextUpdate)
          /\ \A k \in DOMAIN TheCrl.issuer :
                LET entry == TheCrl.issuer[k]
                IN  /\ entry.nid \in NameNids /\ entry.encoding # "wide"
                    /\ \A j \in 1..(k - 1) : TheCrl.issuer[j].nid # entry.nid
                    => store[1].entries[entry.nid] = entry.value
===============================================================================
