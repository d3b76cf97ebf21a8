---------------------------- MODULE X509Certificate ----------------------------
(***************************************************************************)
(* Certificate::Certificate of AttestationParsers and the classes that it  *)
(* is made of: the setters in their order, the first that throws ends it.  *)
(* Much of it does again what PckParser.cpp does for a CRL (CrlParser),    *)
(* and the verifiers compare what the one has read with what the other     *)
(* has: names with names, serial numbers with serial numbers.              *)
(***************************************************************************)
EXTENDS CrlParser

CONSTANTS
    X509Texts,         \* certificates: what OpenSSL decodes from a text
    IssuerNames        \* names of issuers, as entries

VARIABLES
    x509,              \* the text that is read
    setter,            \* the setter that is next, "parsed" or "refused"
    thrown,            \* the exceptions thrown, at most one
    certMembers,       \* the members that are set, in the order of the setters
    crlIssuer          \* the issuer of a CRL that the certificate is held against

x509Vars == <<x509, setter, thrown, certMembers, crlIssuer>>

(***************************************************************************)
(* Classes.                                                                *)
(***************************************************************************)
Octets255 == 0..255

OctetStrings == Seq(Octets255)

DistinguishedNameClass ==
    [ raw : Seq(STRING \X STRING), entries : [ NameNids -> STRING ] ]

ValidityClass == [ notBeforeTime : Int, notAfterTime : Int ]

ExtensionClass == [ nid : STRING, name : STRING, value : OctetStrings ]

SignatureClass == [ rawDer : OctetStrings, r : OctetStrings, s : OctetStrings ]

CertificateClass ==
    [ version : Nat, subject : DistinguishedNameClass, issuer : DistinguishedNameClass,
      validity : ValidityClass, extensions : Seq(ExtensionClass), signature : SignatureClass,
      serialNumber : OctetStrings, pubKey : OctetStrings, info : STRING,
      crlDistributionPoint : OctetStrings ]

(***************************************************************************)
(* DistinguishedName.                                                      *)
(***************************************************************************)
\* X509_NAME_get_index_by_NID, 0 when there is none.
IndexOf(name, nid) ==
    IF \E k \in DOMAIN name : name[k].nid = nid
    THEN CHOOSE k \in DOMAIN name : name[k].nid = nid /\ \A j \in 1..(k - 1) : name[j].nid # nid
    ELSE 0

\* Fault: an entry whose length in UTF-8 is another is taken as it is.
NameEntryText_Wide(name, nid) ==
    LET position == IndexOf(name, nid)
    IN  IF position = 0 THEN "" ELSE name[position].value

\* getNameEntry of ParserUtils.cpp.
NameEntryText(name, nid) ==
    LET position == IndexOf(name, nid)
    IN  IF position = 0 THEN ""
        ELSE IF name[position].encoding = "wide" THEN "" ELSE name[position].value

\* x509NameToString of ParserUtils.cpp, the same text once more.
NameText(name) == x509NameToString(name)

DistinguishedName(name) ==
    [ raw |-> NameText(name), entries |-> [ nid \in NameNids |-> NameEntryText(name, nid) ] ]

\* operator==; the order of the entries may differ.
SameName(a, b) == a.entries = b.entries

(***************************************************************************)
(* Extension. Its text is what OpenSSL prints for it.                      *)
(***************************************************************************)
NewLines == {10, 13}

Kept(text) == { k \in DOMAIN text : text[k] \notin NewLines }

KeptUpTo(text, k) == Kept(text) \intersect 1..k

\* std::copy_if: the n-th letter is the one up to which n are kept.
WithoutNewLines(text) ==
    [ n \in 1..Cardinality(Kept(text)) |->
        text[CHOOSE k \in Kept(text) : Cardinality(KeptUpTo(text, k)) = n] ]

\* The value is as long as the text was: zeros stand at its end for the new lines.
PrintedValue(text) ==
    LET kept == WithoutNewLines(text)
    IN  [ k \in DOMAIN text |-> IF k <= Len(kept) THEN kept[k] ELSE 0 ]

ExtensionObject(ext) ==
    [ nid |-> ext.nid, name |-> ext.name,
      value |-> IF ext.nid = "undef" \/ ~ext.printable THEN ext.octets ELSE PrintedValue(ext.text) ]

RequiredNids ==
    { "authority_key_identifier", "crl_distribution_points", "subject_key_identifier",
      "key_usage", "basic_constraints" }

NidsOf(extensions) == { extensions[k].nid : k \in DOMAIN extensions }

\* Fault: the whole value is taken.
UpToZero_All(value) == value

\* std::find of a zero, and what is before it.
UpToZero(value) ==
    LET zeros == { k \in DOMAIN value : value[k] = 0 }
    IN  IF zeros = {} THEN value
        ELSE SubSeq(value, 1, (CHOOSE k \in zeros : \A j \in zeros : k <= j) - 1)

CrlDistributionPoint(extensions) ==
    LET first == CHOOSE k \in DOMAIN extensions :
                    /\ extensions[k].nid = "crl_distribution_points"
                    /\ \A j \in 1..(k - 1) : extensions[j].nid # "crl_distribution_points"
    IN  UpToZero(ExtensionObject(extensions[first]).value)

(***************************************************************************)
(* Signature, validity and serial number.                                  *)
(***************************************************************************)
SignatureObject(sig) == [ rawDer |-> sig.octets, r |-> bn2Vec(sig.r), s |-> bn2Vec(sig.s) ]

\* asn1TimeToTimet and asn1TimePeriodToCTime of ParserUtils.cpp.
asn1TimePeriodToCTime(begin, end) == << asn1TimeToTimet(begin), asn1TimeToTimet(end) >>

ValidityObject(period) == [ notBeforeTime |-> period[1], notAfterTime |-> period[2] ]

SerialNumber(octets) == bn2Vec(octets)

\* What OpenSSL makes of a certificate and of the issuer of a CRL.
DecodedExtensions ==
    [ nid : STRING, name : STRING, printable : BOOLEAN, octets : OctetStrings, text : OctetStrings ]

IsDecodedX509(c) ==
    /\ IsName(c.subject) /\ IsName(c.issuer)
    /\ { c.pubKey, c.serialNumber, c.signature.octets, c.signature.r, c.signature.s }
          \subseteq OctetStrings
    /\ c.tbs \in STRING /\ c.version \in Nat
    /\ IsTime(c.notBefore) => IsMoment(c.notBefore)
    /\ IsTime(c.notAfter) => IsMoment(c.notAfter)
    /\ c.extensions \in Seq(DecodedExtensions)

ASSUME X509Assumption ==
    /\ \A c \in X509Texts : IsDecodedX509(c)
    /\ \A name \in IssuerNames : IsName(name)
    /\ "" \in STRING /\ << >> \notin Serials

(***************************************************************************)
(* The constructor.                                                        *)
(***************************************************************************)
Setters ==
    << "pubKey", "info", "signature", "version", "serialNumber", "subject", "issuer",
       "validity", "extensions", "crlDistributionPoint" >>

\* The exception that a setter throws for this certificate, if any.
Throws(member) ==
    CASE member = "signature" /\ (x509.signature.octets = << >> \/ ~x509.signature.decodes)
            -> { "FormatException" }
      [] member = "validity" /\ ~(IsTime(x509.notBefore) /\ IsTime(x509.notAfter))
            -> { "FormatException" }
      [] member = "extensions" /\ ~(RequiredNids \subseteq NidsOf(x509.extensions))
            -> { "InvalidExtensionException" }
      [] OTHER -> {}

MemberOf(member) ==
    CASE member = "pubKey"       -> x509.pubKey
      [] member = "info"         -> x509.tbs
      [] member = "signature"    -> SignatureObject(x509.signature)
      [] member = "version"      -> x509.version + 1
      [] member = "serialNumber" -> SerialNumber(x509.serialNumber)
      [] member = "subject"      -> DistinguishedName(x509.subject)
      [] member = "issuer"       -> DistinguishedName(x509.issuer)
      [] member = "validity"     ->
            ValidityObject(asn1TimePeriodToCTime(x509.notBefore, x509.notAfter))
      [] member = "extensions"   ->
            [ k \in DOMAIN x509.extensions |-> ExtensionObject(x509.extensions[k]) ]
      [] OTHER                   -> CrlDistributionPoint(x509.extensions)

X509Start ==
    /\ setter = "decode"
    /\ thrown = {}
    /\ certMembers = << >>

X509Init == x509 \in X509Texts /\ crlIssuer \in IssuerNames /\ X509Start

Refuse(exceptions) ==
    /\ setter' = "refused"
    /\ thrown' = exceptions
    /\ UNCHANGED <<x509, certMembers, crlIssuer>>

DecodePem ==
    /\ setter = "decode"
    /\ IF x509.decodes
       THEN setter' = Setters[1] /\ UNCHANGED <<x509, thrown, certMembers, crlIssuer>>
       ELSE Refuse({ "FormatException" })

\* One setter.
Set(k) ==
    /\ setter = Setters[k]
    /\ IF Throws(Setters[k]) # {} THEN Refuse(Throws(Setters[k]))
       ELSE /\ certMembers' = Append(certMembers, MemberOf(Setters[k]))
            /\ setter' = IF k = Len(Setters) THEN "parsed" ELSE Setters[k + 1]
            /\ UNCHANGED <<x509, thrown, crlIssuer>>

X509Next == DecodePem \/ \E k \in DOMAIN Setters : Set(k)

X509Spec == X509Init /\ [][X509Next]_x509Vars

\* The accessors.
Member(name) == certMembers[CHOOSE k \in DOMAIN Setters : Setters[k] = name]

CertificateObject ==
    [ version |-> Member("version"), subject |-> Member("subject"), issuer |-> Member("issuer"),
      validity |-> Member("validity"), extensions |-> Member("extensions"),
      signature |-> Member("signature"), serialNumber |-> Member("serialNumber"),
      pubKey |-> Member("pubKey"), info |-> Member("info"),
      crlDistributionPoint |-> Member("crlDistributionPoint") ]

(***************************************************************************)
(* What the verifiers ask of it.                                           *)
(***************************************************************************)
\* CommonVerifier::verifyRootCACert, before the signature.
IsSelfSigned == SameName(Member("issuer"), Member("subject"))

\* PckCrlVerifier::verify, the issuer of a CRL and the subject of a certificate.
IssuedBySubject ==
    LET issuer == getIssuer(crlIssuer) IN
    /\ issuer.raw = Member("subject").raw
    /\ issuer.entries = Member("subject").entries

\* QuoteVerifier::verify, the issuer of a CRL and the issuer of a certificate.
SameIssuer == getIssuer(crlIssuer).raw = Member("issuer").raw

(***************************************************************************)
(* Properties.                                                             *)
(***************************************************************************)
IsReadable ==
    /\ x509.decodes
    /\ x509.signature.octets # << >> /\ x509.signature.decodes
    /\ IsTime(x509.notBefore) /\ IsTime(x509.notAfter)
    /\ RequiredNids \subseteq NidsOf(x509.extensions)

\* The first extension of its kind.
IsThePoint(k) ==
    /\ x509.extensions[k].nid = "crl_distribution_points"
    /\ \A j \in 1..(k - 1) : x509.extensions[j].nid # "crl_distribution_points"

\* A certificate is read (Certificate.cpp:131-152) exactly if nothing that is asked of it
\* is missing, and InvalidExtensionException means that all but its extensions is well
\* formed. The CRL distribution point is the first one's text without its new lines and
\* without the zeros that stand for them (Extension.cpp:128-134, Certificate.cpp:295-299);
\* if that cannot be printed, its octets up to the first zero. The dates are compared as
\* those of a CRL are, and a serial number that a CRL lists is the one of the certificate.
CertificateIsReadAsItStands ==
    /\ setter \in { "parsed", "refused" } => (setter = "parsed" <=> IsReadable)
    /\ thrown = { "InvalidExtensionException" } =>
          /\ ~(RequiredNids \subseteq NidsOf(x509.extensions))
          /\ x509.decodes /\ x509.signature.decodes /\ IsTime(x509.notAfter)
    /\ setter = "parsed" =>
          /\ CertificateObject \in CertificateClass
          /\ \E k \in DOMAIN x509.extensions :
                LET point == x509.extensions[k] IN
                /\ IsThePoint(k)
                /\ point.printable /\ 0 \notin { point.text[j] : j \in DOMAIN point.text }
                     => Member("crlDistributionPoint") = WithoutNewLines(point.text)
                /\ ~point.printable =>
                     \A j \in DOMAIN Member("crlDistributionPoint") : point.octets[j] # 0
          /\ \A time \in CrlTimes :
                Member("validity").notBeforeTime <= asn1TimeToTimet(time) <=>
                    Chronological(x509.notBefore, time)
          /\ \A serial \in Serials \ { <<0>> } :
                RevokedEntry(serial).serialNumber = Member("serialNumber") <=>
                    serial = x509.serialNumber

\* A CRL and a certificate are read by different code (PckParser.cpp:214-276,
\* ParserUtils.cpp:117-186), and certificates are compared by five entries without regard
\* to their order (DistinguishedName.cpp:84-90), a CRL and a certificate by their whole
\* text (PckCrlVerifier.cpp:54-59, QuoteVerifier.cpp:75): a CRL is taken for one of the
\* subject exactly if it says the same name, in any encoding; a name that a CRL's issuer
\* and a certificate's subject share makes the same object, so that the five further
\* comparisons never refuse what the text has let pass unless the encodings differ; and
\* certificates that a CRL ties together are never apart in the chain.
PlainName(name) == \A k \in DOMAIN name : name[k].encoding # "wide"

NamesAreJudgedAlike ==
    setter = "parsed" =>
        /\ IssuedBySubject => x509NameToString(x509.subject) = x509NameToString(crlIssuer)
        /\ x509.subject = crlIssuer => IssuedBySubject
        /\ PlainName(x509.subject) /\ PlainName(crlIssuer) =>
              IssuedBySubject = (x509NameToString(x509.subject) = x509NameToString(crlIssuer))
        /\ IssuedBySubject /\ SameIssuer /\ PlainName(x509.issuer) /\ PlainName(x509.subject)
              => IsSelfSigned
===============================================================================
