----------------------------- MODULE X509_proofs -----------------------------
(***************************************************************************)
(* Proofs about what is read from X.509 texts: the constructors of PCK     *)
(* certificates, for every list of extensions in every order, and every    *)
(* number of components; then CRLs, the names of certificates, and chains. *)
(***************************************************************************)
EXTENDS PckCertificateParser, PemChain, X509Certificate,
        FiniteSetTheorems, SequenceTheorems, WellFoundedInduction, TLAPS

(***************************************************************************)
(* Lists of checks.                                                        *)
(***************************************************************************)

\* Every set of numbers has a least one.
LEMMA LeastNumber ==
    ASSUME NEW S \in SUBSET Nat, S # {}
    PROVE  \E i \in S : \A j \in S : i <= j
<1> DEFINE R == { pair \in Nat \X Nat : pair[1] < pair[2] }
<1>1. IsWellFoundedOn(R, Nat)
  BY NatLessThanWellFounded DEF OpToRel
<1>2. \A x, y \in Nat : <<x, y>> \in R <=> x < y
  OBVIOUS
<1>. HIDE DEF R
<1>3. PICK x \in S : \A y \in S : <<y, x>> \notin R
  BY <1>1, WFMin
<1>4. \A y \in S : ~(y < x)
  BY <1>2, <1>3
<1>. QED BY <1>4

\* The exception is that of the first check that does not hold.
LEMMA FirstFailureIs ==
    ASSUME NEW n \in Nat, NEW checks, DOMAIN checks = 1 .. n
    PROVE  \/ FirstFailure(checks) = None /\ \A i \in 1 .. n : checks[i].holds
           \/ \E i \in 1 .. n :
                 /\ ~checks[i].holds
                 /\ \A j \in 1 .. i - 1 : checks[j].holds
                 /\ FirstFailure(checks) = checks[i].otherwise
<1> DEFINE failed == { i \in DOMAIN checks : ~checks[i].holds }
<1>1. CASE failed = {}
  BY <1>1 DEF FirstFailure
<1>2. CASE failed # {}
  <2>0. failed \in SUBSET Nat
    OBVIOUS
  <2>1. \E i \in failed : \A j \in failed : i <= j
    BY <1>2, <2>0, LeastNumber
  <2> DEFINE first == CHOOSE i \in failed : \A j \in failed : i <= j
  <2>2. first \in failed /\ \A j \in failed : first <= j
    BY <2>1
  <2>3. FirstFailure(checks) = checks[first].otherwise
    BY <1>2 DEF FirstFailure
  <2>. HIDE DEF first
  <2>4. first \in 1 .. n /\ ~checks[first].holds /\ \A j \in 1 .. first - 1 : checks[j].holds
    BY <2>2
  <2>. QED BY <2>3, <2>4
<1>. QED BY <1>1, <1>2

Exceptions == { Format, Extension }

Checklist == Seq([ holds : BOOLEAN, otherwise : Exceptions ])

\* Every check of a list has one of the two exceptions.
LEMMA CheckTypes ==
    ASSUME NEW checks \in Checklist
    PROVE  /\ Len(checks) \in Nat
           /\ DOMAIN checks = 1 .. Len(checks)
           /\ \A i \in 1 .. Len(checks) :
                (checks[i].holds \in BOOLEAN) /\ checks[i].otherwise \in Exceptions
<1> DEFINE S == [ holds : BOOLEAN, otherwise : Exceptions ]
<1>1. checks \in Seq(S)
  BY DEF Checklist
<1>2. \A c \in S : (c.holds \in BOOLEAN) /\ c.otherwise \in Exceptions
  OBVIOUS
<1>. HIDE DEF S
<1>3. Len(checks) \in Nat /\ DOMAIN checks = 1 .. Len(checks)
  BY <1>1
<1>4. \A i \in 1 .. Len(checks) : checks[i] \in S
  BY <1>1
<1>. QED BY <1>2, <1>3, <1>4

\* No check, and one.
LEMMA NoCheck == <<>> \in Checklist /\ FirstFailure(<<>>) = None
<1>1. <<>> \in Checklist
  BY DEF Checklist
<1>2. FirstFailure(<<>>) = None
  BY DEF FirstFailure
<1>. QED BY <1>1, <1>2

LEMMA OneCheck ==
    ASSUME NEW a \in BOOLEAN, NEW e \in Exceptions
    PROVE  Check(a, e) \in Checklist /\ FirstFailure(Check(a, e)) = IF a THEN None ELSE e
<1> DEFINE checks == Check(a, e)
<1>1. /\ checks \in Checklist /\ DOMAIN checks = 1 .. 1
      /\ checks[1].holds = a /\ checks[1].otherwise = e
  BY DEF Check, Checklist
<1>. HIDE DEF checks
<1>2. \/ FirstFailure(checks) = None /\ \A i \in 1 .. 1 : checks[i].holds
      \/ \E i \in 1 .. 1 :
            /\ ~checks[i].holds
            /\ FirstFailure(checks) = checks[i].otherwise
  BY <1>1, FirstFailureIs
<1>3. FirstFailure(checks) = IF a THEN None ELSE e
  BY <1>1, <1>2
<1>. QED BY <1>1, <1>3 DEF checks

\* A list of checks followed by one more.
LEMMA OneMoreCheck ==
    ASSUME NEW first \in Checklist, NEW a \in BOOLEAN, NEW e \in Exceptions
    PROVE  /\ first \o Check(a, e) \in Checklist
           /\ FirstFailure(first \o Check(a, e)) =
                IF FirstFailure(first) = None THEN IF a THEN None ELSE e
                ELSE FirstFailure(first)
<1> DEFINE checks == first \o Check(a, e)
           n == Len(first)
<1>1. checks \in Checklist
  BY DEF Check, Checklist
<1>2. /\ n \in Nat
      /\ DOMAIN checks = 1 .. n + 1
      /\ checks[n + 1].holds = a /\ checks[n + 1].otherwise = e
      /\ \A i \in 1 .. n : checks[i] = first[i]
  BY DEF Check, Checklist
<1>3. /\ DOMAIN first = 1 .. n
      /\ None \notin Exceptions
      /\ \A i \in 1 .. n : first[i].otherwise \in Exceptions
  BY CheckTypes DEF None, Exceptions, Format, Extension
<1>. HIDE DEF checks, n
<1>4. \/ FirstFailure(checks) = None /\ \A i \in 1 .. n + 1 : checks[i].holds
      \/ \E i \in 1 .. n + 1 :
            /\ ~checks[i].holds
            /\ \A j \in 1 .. i - 1 : checks[j].holds
            /\ FirstFailure(checks) = checks[i].otherwise
  BY <1>2, FirstFailureIs
<1>5. \/ FirstFailure(first) = None /\ \A i \in 1 .. n : first[i].holds
      \/ \E i \in 1 .. n :
            /\ ~first[i].holds
            /\ \A j \in 1 .. i - 1 : first[j].holds
            /\ FirstFailure(first) = first[i].otherwise
  BY <1>2, <1>3, FirstFailureIs
<1>6. CASE FirstFailure(first) = None
  <2>1. \A i \in 1 .. n : first[i].holds
    BY <1>3, <1>5, <1>6
  <2>2. \A i \in 1 .. n + 1 : i = n + 1 \/ i \in 1 .. n
    BY <1>2
  <2>3. FirstFailure(checks) = IF a THEN None ELSE e
    <3>1. CASE a
      BY <1>2, <1>4, <2>1, <2>2, <3>1
    <3>2. CASE ~a
      BY <1>2, <1>4, <2>1, <2>2, <3>2
    <3>. QED BY <3>1, <3>2
  <2>. QED BY <1>1, <1>6, <2>3 DEF checks
<1>7. CASE FirstFailure(first) # None
  <2>1. PICK i \in 1 .. n :
          /\ ~first[i].holds
          /\ \A j \in 1 .. i - 1 : first[j].holds
          /\ FirstFailure(first) = first[i].otherwise
    BY <1>5, <1>7
  <2>2. /\ i \in 1 .. n + 1
        /\ ~checks[i].holds
        /\ \A j \in 1 .. i - 1 : checks[j].holds
        /\ FirstFailure(first) = checks[i].otherwise
    BY <1>2, <2>1
  <2>3. PICK k \in 1 .. n + 1 :
          /\ ~checks[k].holds
          /\ \A j \in 1 .. k - 1 : checks[j].holds
          /\ FirstFailure(checks) = checks[k].otherwise
    BY <1>4, <2>2
  <2>4. k = i
    BY <1>2, <2>2, <2>3
  <2>5. FirstFailure(checks) = FirstFailure(first)
    BY <2>2, <2>3, <2>4
  <2>. QED BY <1>1, <1>7, <2>5 DEF checks
<1>. QED BY <1>6, <1>7

(***************************************************************************)
(* What the checks of each stage find.                                     *)
(***************************************************************************)
IsSigned(c) == c.pem /\ c.signature = "ECDSA" /\ c.validity = "times"

\* What Certificate::Certificate throws.
LEMMA CertificateFails ==
    ASSUME certificate.pem \in BOOLEAN
    PROVE  FirstFailure(CertificateChecks) =
             IF IsSigned(certificate)
             THEN IF REQUIRED_X509_EXTENSIONS \subseteq certificate.extensions
                  THEN None ELSE Extension
             ELSE Format
<1> DEFINE one   == Check(certificate.pem, Format)
           two   == one \o Check(certificate.signature # "empty", Format)
           three == two \o Check(certificate.signature = "ECDSA", Format)
           four  == three \o Check(certificate.validity = "times", Format)
           hasAll == REQUIRED_X509_EXTENSIONS \subseteq certificate.extensions
           all   == four \o Check(hasAll, Extension)
<1>1. CertificateChecks = all
  BY DEF CertificateChecks
<1>2. Format \in Exceptions /\ Extension \in Exceptions /\ None # Format /\ None # Extension
  BY DEF None, Exceptions, Format, Extension
<1>3. one \in Checklist /\ FirstFailure(one) = IF certificate.pem THEN None ELSE Format
  BY <1>2, OneCheck
<1>. HIDE DEF one
<1>4. /\ two \in Checklist
      /\ FirstFailure(two) = IF certificate.pem /\ certificate.signature # "empty"
                             THEN None ELSE Format
  BY <1>2, <1>3, OneMoreCheck
<1>. HIDE DEF two
<1>5. /\ three \in Checklist
      /\ FirstFailure(three) = IF certificate.pem /\ certificate.signature = "ECDSA"
                               THEN None ELSE Format
  BY <1>2, <1>4, OneMoreCheck
<1>. HIDE DEF three
<1>6. four \in Checklist /\ FirstFailure(four) = IF IsSigned(certificate) THEN None ELSE Format
  BY <1>2, <1>5, OneMoreCheck DEF IsSigned
<1>7. (hasAll) \in BOOLEAN
  OBVIOUS
<1>. HIDE DEF four, hasAll
<1>8. FirstFailure(all) = IF IsSigned(certificate) THEN IF hasAll THEN None ELSE Extension
                          ELSE Format
  BY <1>2, <1>6, <1>7, OneMoreCheck
<1>. QED BY <1>1, <1>8 DEF hasAll

\* How many entries each reader takes.
CountsOf(reader) ==
    CASE reader = Pck -> { PROCESSOR_CA_EXTENSION_COUNT, PLATFORM_CA_EXTENSION_COUNT }
      [] reader = Processor -> { PROCESSOR_CA_EXTENSION_COUNT }
      [] reader = Platform  -> { PLATFORM_CA_EXTENSION_COUNT }
      [] reader = "Tcb"     -> { TCB_SEQUENCE_LEN }
      [] OTHER -> Nat

Readers == { Pck, Processor, Platform, "Tcb", "Configuration" }

\* What a list of a wrong length is refused with, after other checks.
LEMMA CountFails ==
    ASSUME NEW reader \in Readers, NEW count, reader = "Configuration" => count \in Nat,
           NEW first \in Checklist
    PROVE  FirstFailure(first \o CountChecks(reader, count)) =
             IF FirstFailure(first) = None
             THEN IF count \in CountsOf(reader) THEN None ELSE Extension
             ELSE FirstFailure(first)
<1>1. Extension \in Exceptions
  BY DEF Exceptions
<1>2. CASE reader = "Configuration"
  <2>1. CountChecks(reader, count) = <<>>
    BY <1>2 DEF CountChecks, Pck, Processor, Platform
  <2>2. first \o <<>> = first
    BY DEF Checklist
  <2>3. CountsOf(reader) = Nat
    BY <1>2 DEF CountsOf, Pck, Processor, Platform
  <2>. QED BY <1>2, <2>1, <2>2, <2>3
<1>3. CASE reader # "Configuration"
  <2> DEFINE fits == count \in CountsOf(reader)
  <2>1. CountChecks(reader, count) = Check(fits, Extension)
    <3>1. CASE reader = Pck
      BY <3>1 DEF CountChecks, CountsOf, Pck, Processor, Platform
    <3>2. CASE reader = Processor
      BY <3>2 DEF CountChecks, CountsOf, Pck, Processor, Platform
    <3>3. CASE reader = Platform
      BY <3>3 DEF CountChecks, CountsOf, Pck, Processor, Platform
    <3>4. CASE reader = "Tcb"
      BY <3>4 DEF CountChecks, CountsOf, Pck, Processor, Platform
    <3>. QED BY <1>3, <3>1, <3>2, <3>3, <3>4 DEF Readers
  <2>2. (fits) \in BOOLEAN
    OBVIOUS
  <2>. HIDE DEF fits
  <2>3. FirstFailure(first \o CountChecks(reader, count)) =
          IF FirstFailure(first) = None THEN IF fits THEN None ELSE Extension
          ELSE FirstFailure(first)
    BY <1>1, <2>1, <2>2, OneMoreCheck
  <2>. QED BY <2>3 DEF fits
<1>. QED BY <1>2, <1>3

HasExtensions == certificate.sgx # <<>> /\ Head(certificate.sgx).type = "sequence"

\* What getSgxExtensions throws.
LEMMA ExtensionsFail ==
    /\ SgxExtensionsChecks \in Checklist
    /\ FirstFailure(SgxExtensionsChecks) =
         IF certificate.sgx = <<>> THEN Extension
         ELSE IF Head(certificate.sgx).type = "unreadable" THEN Extension
         ELSE IF Head(certificate.sgx).type = "sequence" THEN None
         ELSE Format
<1>1. Format \in Exceptions /\ Extension \in Exceptions /\ None # Format /\ None # Extension
  BY DEF None, Exceptions, Format, Extension
<1>2. CASE certificate.sgx = <<>>
  BY <1>1, <1>2, OneCheck DEF SgxExtensionsChecks
<1>3. CASE certificate.sgx # <<>>
  <2> DEFINE readable == Head(certificate.sgx).type # "unreadable"
             sequence == Head(certificate.sgx).type = "sequence"
  <2>1. SgxExtensionsChecks = Check(readable, Extension) \o Check(sequence, Format)
    BY <1>3 DEF SgxExtensionsChecks
  <2>2. sequence => readable
    OBVIOUS
  <2>3. (readable \in BOOLEAN) /\ (sequence \in BOOLEAN)
    OBVIOUS
  <2>4. Head(certificate.sgx).type = "unreadable" <=> ~readable
    OBVIOUS
  <2>5. Head(certificate.sgx).type = "sequence" <=> sequence
    OBVIOUS
  <2>. HIDE DEF readable, sequence
  <2>6. /\ SgxExtensionsChecks \in Checklist
        /\ FirstFailure(SgxExtensionsChecks) =
             IF readable THEN IF sequence THEN None ELSE Format ELSE Extension
    BY <1>1, <2>1, <2>3, OneCheck, OneMoreCheck
  <2>. QED BY <1>3, <2>4, <2>5, <2>6
<1>. QED BY <1>2, <1>3

\* What an entry that cannot be read is refused with.
LEMMA EntryFails ==
    ASSUME NEW reader, NEW entry
    PROVE  FirstFailure(EntryChecks(reader, entry)) =
             IF entry.shape = "notSequence" THEN Format
             ELSE IF entry.shape = "notPair" THEN Extension
             ELSE IF entry.shape = "noObject" /\ reader # Platform THEN Format
             ELSE None
<1> DEFINE isSequence == entry.shape # "notSequence"
           isPair     == entry.shape # "notPair"
           isNamed    == entry.shape = "noObject" => reader = Platform
<1>1. Format \in Exceptions /\ Extension \in Exceptions /\ None # Format /\ None # Extension
  BY DEF None, Exceptions, Format, Extension
<1>2. EntryChecks(reader, entry) =
        Check(isSequence, Format) \o Check(isPair, Extension) \o Check(isNamed, Format)
  BY DEF EntryChecks
<1>3. (isSequence \in BOOLEAN) /\ (isPair \in BOOLEAN) /\ (isNamed \in BOOLEAN)
  OBVIOUS
<1>4. /\ entry.shape = "notSequence" <=> ~isSequence
      /\ entry.shape = "notPair" <=> ~isPair
      /\ entry.shape = "noObject" /\ reader # Platform <=> ~isNamed
  OBVIOUS
<1>. HIDE DEF isSequence, isPair, isNamed
<1>5. /\ Check(isSequence, Format) \o Check(isPair, Extension) \in Checklist
      /\ FirstFailure(Check(isSequence, Format) \o Check(isPair, Extension)) =
           IF isSequence THEN IF isPair THEN None ELSE Extension ELSE Format
  BY <1>1, <1>3, OneCheck, OneMoreCheck
<1>6. FirstFailure(EntryChecks(reader, entry)) =
        IF isSequence THEN IF isPair THEN IF isNamed THEN None ELSE Format ELSE Extension
        ELSE Format
  BY <1>1, <1>2, <1>3, <1>5, OneMoreCheck
<1>. QED BY <1>4, <1>6

(***************************************************************************)
(* The invariant.                                                          *)
(***************************************************************************)

\* What a reader demands of an entry. Platform's relies on its base class for names.
IsEntry(reader, entry) ==
    /\ entry.shape \notin { "notSequence", "notPair" }
    /\ reader # Platform => entry.shape # "noObject"

Fits(reader, entry) ==
    /\ IsEntry(reader, entry)
    /\ entry.oid \in RequiredOf(reader) => HasType(entry.oid, entry.value)

\* The width of a member.
Width(oid) ==
    IF oid \in SgxTcbComponents THEN 0 .. BYTE_COUNT - 1
    ELSE IF oid = PCESVN THEN 0 .. UINT_COUNT - 1
    ELSE IF oid = SGX_TYPE THEN IntNumbers
    ELSE Int

AreMembers(found) ==
    DOMAIN found \subseteq Members /\ \A oid \in DOMAIN found : found[oid] \in Width(oid)

\* A list of which the entries before its position have been read.
ListInv(list) ==
    /\ list = [ reader |-> list.reader, entries |-> list.entries, position |-> list.position,
                expected |-> list.expected, found |-> list.found ]
    /\ AreEntries(list.entries)
    /\ list.position \in 1 .. Len(list.entries) + 1
    /\ \A k \in 1 .. list.position - 1 : Fits(list.reader, list.entries[k])
    /\ list.expected = { oid \in RequiredOf(list.reader) :
                           \A k \in 1 .. list.position - 1 : list.entries[k].oid # oid }
    /\ AreMembers(list.found)

\* The list of extensions.
OuterInv(outer) ==
    /\ HasExtensions
    /\ Reader # Processor
    /\ Len(SgxExtensions) \in CountsOf(Reader)
    /\ outer.reader = Reader
    /\ outer.entries = SgxExtensions
    /\ ListInv(outer)

\* A TCB or a configuration, the value of the entry at the position of the outer list.
InnerInv(inner, outer) ==
    LET entry == outer.entries[outer.position] IN
    /\ outer.position <= Len(outer.entries)
    /\ IsEntry(Reader, entry)
    /\ entry.oid \in RequiredOf(Reader) \intersect Nested
    /\ entry.value.type = "sequence"
    /\ inner.reader = NestedReader(entry.oid)
    /\ inner.entries = entry.value.entries
    /\ entry.oid = TCB => Len(inner.entries) = TCB_SEQUENCE_LEN
    /\ ListInv(inner)

ListsInv ==
    \/ lists = << lists[1] >> /\ OuterInv(lists[1])
    \/ lists = << lists[1], lists[2] >> /\ OuterInv(lists[2]) /\ InnerInv(lists[1], lists[2])

\* What the pass of class PckCertificate leaves behind.
PckPassInv ==
    /\ HasExtensions
    /\ Len(SgxExtensions) \in CountsOf(Pck)
    /\ IsListOf(SgxExtensions, RequiredOf(Pck), HasType)

\* Why an exception is thrown.
Justified(failure) ==
    /\ failure \in Exceptions
    /\ ~IsOfProfile(certificate, class)
    /\ failure = Format => ~AllHaveTypes(certificate)
    /\ failure = Extension => LacksExtensions(certificate, class)

TypesInv ==
    /\ class \in Classes
    /\ certificate \in Certificates
    /\ pc \in { "certificate", "extensions", "entries", "accepted", "refused" }
    /\ pass \in { "constructor", "base", "own" }
    /\ exception \in Exceptions \union { None }
    /\ AreMembers(members)

\* At each point: what has been read fits, and all that is required of what has been read
\* to its end is there; what is refused does not fit.
IInv ==
    /\ TypesInv
    /\ TypeOK
    /\ pc \notin { "certificate", "refused" } => IsCertificate(certificate)
    /\ pc = "certificate" => pass = "constructor"
    /\ pass # "constructor" => class # Pck /\ PckPassInv
    /\ pc \notin { "entries", "refused" } => lists = <<>>
    /\ pc = "entries" => ListsInv
    /\ pc = "accepted" => IsOfProfile(certificate, class)
    /\ pc # "refused" => exception = None
    /\ pc = "refused" => Justified(exception)

(***************************************************************************)
(* Names and entries.                                                      *)
(***************************************************************************)
LEMMA Required ==
    /\ RequiredOf(Pck) = PCK_REQUIRED_SGX_EXTENSIONS
    /\ RequiredOf(Processor) = {}
    /\ RequiredOf(Platform) = PLATFORM_PCK_REQUIRED_SGX_EXTENSIONS
    /\ RequiredOf("Tcb") = TCB_REQUIRED_SGX_EXTENSIONS
    /\ RequiredOf("Configuration") = CONFIGURATION_REQUIRED_SGX_EXTENSIONS
BY DEF RequiredOf, Pck, Processor, Platform

\* Names of members of nested objects are longer than those of the objects.
LEMMA NamesDiffer ==
    /\ TCB # CONFIGURATION
    /\ RequiredOf(Pck) \intersect Nested = { TCB }
    /\ RequiredOf(Platform) \intersect Nested = { CONFIGURATION }
    /\ RequiredOf(Pck) \intersect RequiredOf(Platform) = {}
    /\ \A oid \in RequiredOf(Pck) \union RequiredOf(Platform) : Len(oid) = 1
    /\ \A oid \in RequiredOf("Tcb") \union RequiredOf("Configuration") :
         Len(oid) = 2 /\ oid \notin Nested
    /\ \A oid \in RequiredOf("Tcb") : oid[1] = 2
    /\ \A oid \in RequiredOf("Configuration") : oid[1] = 7
<1>1. ASSUME NEW i \in Nat, NEW j \in Nat
      PROVE  Len(Append(<<i>>, j)) = 2 /\ Append(<<i>>, j)[1] = i /\ Append(<<i>>, j)[2] = j
  OBVIOUS
<1>2. /\ RequiredOf(Pck) = { <<1>>, <<3>>, <<4>>, <<5>>, <<2>> }
      /\ RequiredOf(Platform) = { <<6>>, <<7>> }
      /\ Nested = { <<2>>, <<7>> }
      /\ TCB = <<2>> /\ CONFIGURATION = <<7>>
  BY Required DEF PCK_REQUIRED_SGX_EXTENSIONS, PLATFORM_PCK_REQUIRED_SGX_EXTENSIONS, Nested,
       PPID, TCB, PCEID, FMSPC, SGX_TYPE, PLATFORM_INSTANCE_ID, CONFIGURATION
<1>3. \A oid \in RequiredOf("Tcb") : Len(oid) = 2 /\ oid[1] = 2
  BY <1>1, Required, PckAssumption DEF TCB_REQUIRED_SGX_EXTENSIONS, SgxTcbComponents,
       SGX_TCB_COMP_SVN, PCESVN, CPUSVN, TCB
<1>4. \A oid \in RequiredOf("Configuration") : Len(oid) = 2 /\ oid[1] = 7
  BY <1>1, Required DEF CONFIGURATION_REQUIRED_SGX_EXTENSIONS, ConfigurationFlags, CONFIGURATION
<1>5. \A i : Len(<<i>>) = 1
  OBVIOUS
<1>. QED BY <1>2, <1>3, <1>4, <1>5

LEMMA EntriesAre ==
    ASSUME NEW entries, AreEntries(entries)
    PROVE  /\ Len(entries) \in Nat
           /\ DOMAIN entries = 1 .. Len(entries)
           /\ \A k \in 1 .. Len(entries) :
                entries[k].shape \in Shapes /\ entries[k].value.value \in Int
<1> DEFINE S == { entries[k] : k \in DOMAIN entries }
<1>1. entries \in Seq(S)
  BY DEF AreEntries
<1>. HIDE DEF S
<1>2. Len(entries) \in Nat /\ DOMAIN entries = 1 .. Len(entries)
  BY <1>1
<1>. QED BY <1>2 DEF AreEntries

\* What OpenSSL makes of the extensions.
LEMMA DecodedIsList ==
    ASSUME certificate \in Certificates, HasExtensions
    PROVE  /\ AreEntries(SgxExtensions)
           /\ \A k \in DOMAIN SgxExtensions :
                SgxExtensions[k].value.type = "sequence"
                  => AreEntries(SgxExtensions[k].value.entries)
BY CertificatesAssumption DEF IsDecoded, HasExtensions, SgxExtensions

(***************************************************************************)
(* What is refused does not fit, and the exception says why.               *)
(***************************************************************************)
LEMMA Wants ==
    ASSUME class \in Classes
    PROVE  /\ Counts(class) = CountsOf(class)
           /\ Counts(class) \subseteq CountsOf(Pck)
           /\ RequiredBy(class) = RequiredOf(Pck) \union
                                    (IF class = Platform THEN RequiredOf(Platform) ELSE {})
<1>1. Counts(class) = CountsOf(class) /\ Counts(class) \subseteq CountsOf(Pck)
  BY DEF Classes, Counts, CountsOf, Pck, Processor, Platform, PROCESSOR_CA_EXTENSION_COUNT,
         PLATFORM_CA_EXTENSION_COUNT
<1>. QED BY <1>1, Required DEF RequiredBy

LEMMA UnsignedIsRefused ==
    /\ ~IsSigned(certificate) => Justified(Format)
    /\ ~(REQUIRED_X509_EXTENSIONS \subseteq certificate.extensions) => Justified(Extension)
<1>1. IsOfProfile(certificate, class) => IsCertificate(certificate)
  BY Zenon DEF IsOfProfile
<1>2. IsCertificate(certificate)
        => IsSigned(certificate) /\ REQUIRED_X509_EXTENSIONS \subseteq certificate.extensions
  BY Zenon DEF IsCertificate, IsSigned
<1>3. AllHaveTypes(certificate) => IsSigned(certificate)
  BY Zenon DEF AllHaveTypes, IsSigned
<1>4. ~(REQUIRED_X509_EXTENSIONS \subseteq certificate.extensions)
        => LacksExtensions(certificate, class)
  BY Zenon DEF LacksExtensions
<1>. QED BY <1>1, <1>2, <1>3, <1>4 DEF Justified, Exceptions, Format, Extension

LEMMA ExtensionsAreRefused ==
    /\ certificate.sgx = <<>> => Justified(Extension)
    /\ Head(certificate.sgx).type = "unreadable" => Justified(Extension)
    /\ certificate.sgx # <<>> /\ Head(certificate.sgx).type # "sequence" => Justified(Format)
<1>1. /\ certificate.sgx = <<>> => LacksExtensions(certificate, class)
      /\ Head(certificate.sgx).type = "unreadable" => LacksExtensions(certificate, class)
  BY Zenon DEF LacksExtensions
<1>2. IsOfProfile(certificate, class)
        => certificate.sgx # <<>> /\ Head(certificate.sgx).type = "sequence"
  BY Zenon DEF IsOfProfile
<1>3. certificate.sgx # <<>> /\ Head(certificate.sgx).type # "sequence"
        => ~AllHaveTypes(certificate)
  BY Zenon DEF AllHaveTypes
<1>. QED BY <1>1, <1>2, <1>3 DEF Justified, Exceptions, Format, Extension

LEMMA CountIsRefused ==
    ASSUME HasExtensions, Len(SgxExtensions) \notin Counts(class)
    PROVE  Justified(Extension)
BY SMTT(30) DEF HasExtensions, SgxExtensions, Justified, Exceptions, Format, Extension, IsOfProfile,
       LacksExtensions

\* The properties' words for the entries of the list of extensions.
LEMMA ListHasTypes ==
    ASSUME HasExtensions, AllHaveTypes(certificate), NEW k \in DOMAIN SgxExtensions
    PROVE  LET entry == SgxExtensions[k] IN
           /\ entry.shape = "pair"
           /\ entry.oid \in Nested =>
                /\ entry.value.type = "sequence"
                /\ \A l \in DOMAIN entry.value.entries :
                     /\ entry.value.entries[l].shape = "pair"
                     /\ entry.value.entries[l].oid \in RequiredOf(NestedReader(entry.oid))
                          => HasSimpleType(entry.value.entries[l].oid,
                                           entry.value.entries[l].value)
           /\ entry.oid \in Simple(Pck) \union Simple(Platform)
                => HasSimpleType(entry.oid, entry.value)
<1>1. certificate.sgx # <<>> /\ SgxExtensions = Head(certificate.sgx).entries
  BY DEF HasExtensions, SgxExtensions
<1>. QED BY <1>1 DEF AllHaveTypes

LEMMA ListIsOfProfile ==
    ASSUME HasExtensions, IsOfProfile(certificate, class)
    PROVE  /\ \A k \in DOMAIN SgxExtensions : SgxExtensions[k].shape = "pair"
           /\ \A k \in DOMAIN SgxExtensions :
                SgxExtensions[k].oid \in RequiredBy(class)
                  => HasType(SgxExtensions[k].oid, SgxExtensions[k].value)
           /\ RequiredBy(class) \subseteq OidsOf(SgxExtensions)
<1>1. SgxExtensions = Head(certificate.sgx).entries
  BY DEF HasExtensions, SgxExtensions
<1>2. IsListOf(SgxExtensions, RequiredBy(class), HasType)
  BY <1>1 DEF IsOfProfile
<1>. QED BY <1>2 DEF IsListOf

\* When extensions are said to lack.
LEMMA ListLacks ==
    ASSUME HasExtensions
    PROVE  /\ Lacks(SgxExtensions, RequiredBy(class)) => LacksExtensions(certificate, class)
           /\ \A k \in DOMAIN SgxExtensions :
                LET oid     == SgxExtensions[k].oid
                    entries == SgxExtensions[k].value.entries
                IN  /\ oid \in Nested /\ Lacks(entries, RequiredOf(NestedReader(oid)))
                         => LacksExtensions(certificate, class)
                    /\ oid = TCB /\ oid \in Nested /\ Len(entries) # TCB_SEQUENCE_LEN
                         => LacksExtensions(certificate, class)
<1>1. SgxExtensions = Head(certificate.sgx).entries
  BY DEF HasExtensions, SgxExtensions
<1>. QED BY <1>1 DEF LacksExtensions

LEMMA LackIsRefused ==
    ASSUME HasExtensions, ~(RequiredBy(class) \subseteq OidsOf(SgxExtensions))
    PROVE  Justified(Extension)
<1>1. ~IsOfProfile(certificate, class)
  BY ListIsOfProfile
<1>2. LacksExtensions(certificate, class)
  BY ListLacks DEF Lacks
<1>. QED BY <1>1, <1>2 DEF Justified, Exceptions, Format, Extension

LEMMA EntryIsRefused ==
    ASSUME HasExtensions, NEW k \in DOMAIN SgxExtensions
    PROVE  /\ SgxExtensions[k].shape \in { "notSequence", "noObject" } => Justified(Format)
           /\ SgxExtensions[k].shape = "notPair" => Justified(Extension)
<1>1. SgxExtensions[k].shape # "pair" => ~IsOfProfile(certificate, class)
  BY ListIsOfProfile
<1>2. SgxExtensions[k].shape # "pair" => ~AllHaveTypes(certificate)
  BY ListHasTypes
<1>3. SgxExtensions[k].shape = "notPair" => LacksExtensions(certificate, class)
  BY ListLacks DEF Lacks
<1>. QED BY <1>1, <1>2, <1>3 DEF Justified, Exceptions, Format, Extension

LEMMA ValueIsRefused ==
    ASSUME HasExtensions, class \in Classes, NEW k \in DOMAIN SgxExtensions,
           SgxExtensions[k].oid \in RequiredBy(class) \ Nested,
           ~HasSimpleType(SgxExtensions[k].oid, SgxExtensions[k].value)
    PROVE  Justified(Format)
<1>1. ~IsOfProfile(certificate, class)
  BY ListIsOfProfile DEF HasType
<1>2. SgxExtensions[k].oid \in Simple(Pck) \union Simple(Platform)
  BY Wants DEF Simple
<1>3. ~AllHaveTypes(certificate)
  BY <1>2, ListHasTypes
<1>. QED BY <1>1, <1>3 DEF Justified, Exceptions, Format, Extension

\* What is wrong with a TCB or a configuration is wrong with the certificate.
LEMMA NestedIsRefused ==
    ASSUME HasExtensions, NEW k \in DOMAIN SgxExtensions,
           SgxExtensions[k].oid \in RequiredBy(class) \intersect Nested
    PROVE  LET oid == SgxExtensions[k].oid
               v   == SgxExtensions[k].value
           IN  /\ v.type # "sequence" => Justified(Format)
               /\ oid = TCB /\ Len(v.entries) # TCB_SEQUENCE_LEN => Justified(Extension)
               /\ ~(RequiredOf(NestedReader(oid)) \subseteq OidsOf(v.entries))
                    => Justified(Extension)
               /\ \A l \in DOMAIN v.entries :
                    /\ v.entries[l].shape \in { "notSequence", "noObject" } => Justified(Format)
                    /\ v.entries[l].shape = "notPair" => Justified(Extension)
                    /\ v.entries[l].oid \in RequiredOf(NestedReader(oid))
                         => HasSimpleType(v.entries[l].oid, v.entries[l].value) \/ Justified(Format)
<1> DEFINE oid == SgxExtensions[k].oid
           v   == SgxExtensions[k].value
<1>1. IsOfProfile(certificate, class) => HasType(oid, v)
  BY ListIsOfProfile
<1>2. HasType(oid, v) =>
        /\ v.type = "sequence"
        /\ oid = TCB => Len(v.entries) = TCB_SEQUENCE_LEN
        /\ IsListOf(v.entries, RequiredOf(NestedReader(oid)), HasSimpleType)
  BY DEF HasType
<1>3. AllHaveTypes(certificate) =>
        /\ v.type = "sequence"
        /\ \A l \in DOMAIN v.entries :
             /\ v.entries[l].shape = "pair"
             /\ v.entries[l].oid \in RequiredOf(NestedReader(oid))
                  => HasSimpleType(v.entries[l].oid, v.entries[l].value)
  BY ListHasTypes
<1>4. /\ Lacks(v.entries, RequiredOf(NestedReader(oid))) => LacksExtensions(certificate, class)
      /\ oid = TCB /\ Len(v.entries) # TCB_SEQUENCE_LEN => LacksExtensions(certificate, class)
  BY ListLacks
<1>5. IsOfProfile(certificate, class) =>
        /\ v.type = "sequence"
        /\ oid = TCB => Len(v.entries) = TCB_SEQUENCE_LEN
        /\ \A l \in DOMAIN v.entries : v.entries[l].shape = "pair"
        /\ \A l \in DOMAIN v.entries :
             v.entries[l].oid \in RequiredOf(NestedReader(oid))
               => HasSimpleType(v.entries[l].oid, v.entries[l].value)
        /\ RequiredOf(NestedReader(oid)) \subseteq OidsOf(v.entries)
  BY <1>1, <1>2 DEF IsListOf
<1>. HIDE DEF oid, v
<1>6. /\ ~IsOfProfile(certificate, class) /\ ~AllHaveTypes(certificate) => Justified(Format)
      /\ ~IsOfProfile(certificate, class) /\ LacksExtensions(certificate, class)
           => Justified(Extension)
  BY DEF Justified, Exceptions, Format, Extension
<1>7. /\ v.type # "sequence" => Justified(Format)
      /\ oid = TCB /\ Len(v.entries) # TCB_SEQUENCE_LEN => Justified(Extension)
      /\ ~(RequiredOf(NestedReader(oid)) \subseteq OidsOf(v.entries)) => Justified(Extension)
  BY <1>3, <1>4, <1>5, <1>6 DEF Lacks
<1>8. ASSUME NEW l \in DOMAIN v.entries
      PROVE  /\ v.entries[l].shape \in { "notSequence", "noObject" } => Justified(Format)
             /\ v.entries[l].shape = "notPair" => Justified(Extension)
             /\ v.entries[l].oid \in RequiredOf(NestedReader(oid))
                  => HasSimpleType(v.entries[l].oid, v.entries[l].value) \/ Justified(Format)
  BY <1>3, <1>4, <1>5, <1>6 DEF Lacks
<1>. QED BY <1>7, <1>8 DEF oid, v

(***************************************************************************)
(* The steps.                                                              *)
(***************************************************************************)
LEMMA ThrowInv ==
    ASSUME IInv, NEW failure, Throw(failure), Justified(failure)
    PROVE  IInv'
<1>1. failure # None /\ failure \in Exceptions
  BY DEF Justified, Exceptions, Format, Extension, None
<1>2. /\ pc' = "refused" /\ exception' = failure /\ class' = class /\ certificate' = certificate
      /\ pass' = pass /\ lists' = lists /\ members' = members
  BY DEF Throw
<1>3. Justified(failure)'
  BY <1>2 DEF Justified
<1>4. TypesInv'
  BY <1>1, <1>2 DEF IInv, TypesInv, AreMembers
<1>5. TypeOK'
  BY <1>1, <1>2 DEF IInv, TypeOK, Exceptions
<1>6. pass # "constructor" => (class # Pck)' /\ PckPassInv'
  BY <1>2 DEF IInv, PckPassInv, HasExtensions, SgxExtensions
<1>. QED BY <1>2, <1>3, <1>4, <1>5, <1>6 DEF IInv

\* Whoever reads requires nothing that the class does not require.
LEMMA ReaderIs ==
    ASSUME IInv
    PROVE  /\ Reader \in Classes
           /\ RequiredOf(Reader) \subseteq RequiredBy(class)
           /\ Counts(class) \subseteq CountsOf(Reader)
           /\ pass = "own" => Reader = class /\ class # Pck
           /\ pass # "own" => Reader = Pck
<1>1. class \in Classes /\ (pass = "own" => class # Pck)
  BY DEF IInv, TypesInv
<1>2. Pck \in Classes
  BY DEF Classes
<1>3. CASE pass = "own"
  <2>1. Reader = class
    BY <1>3 DEF Reader
  <2>2. class = Processor \/ class = Platform
    BY <1>1, <1>3 DEF Classes
  <2>. QED BY <1>1, <1>3, <2>1, <2>2, Wants, Required
<1>4. CASE pass # "own"
  <2>1. Reader = Pck
    BY <1>4 DEF Reader
  <2>. QED BY <1>1, <1>2, <1>4, <2>1, Wants
<1>. QED BY <1>3, <1>4

LEMMA InitInv == Init => IInv
<1>. SUFFICES ASSUME Init PROVE IInv
  OBVIOUS
<1>1. /\ class \in Classes /\ certificate \in Certificates
      /\ exception = None /\ pass = "constructor" /\ lists = <<>> /\ members = Empty
      /\ pc \in { "certificate", "extensions" }
  BY DEF Init, Start, FromCertificate
<1>2. DOMAIN members = {}
  BY <1>1 DEF Empty
<1>3. pc = "extensions" => IsCertificate(certificate)
  <2>1. pc = "extensions" => FirstFailure(CertificateChecks) = None
    BY DEF Init, Start, FromCertificate
  <2>2. certificate.pem \in BOOLEAN
    BY <1>1, CertificatesAssumption DEF IsDecoded
  <2>3. None # Format /\ None # Extension
    BY DEF None, Format, Extension
  <2>. QED BY <2>1, <2>2, <2>3, CertificateFails DEF IsCertificate, IsSigned
<1>4. TypesInv
  BY <1>1, <1>2 DEF TypesInv, AreMembers
<1>5. TypeOK
  <2>1. Len(lists) = 0 /\ DOMAIN lists = {}
    BY <1>1
  <2>. QED BY <1>1, <1>2, <2>1 DEF TypeOK
<1>. QED BY <1>1, <1>3, <1>4, <1>5 DEF IInv

LEMMA ReadCertificateInv ==
    ASSUME IInv, ReadCertificate
    PROVE  IInv'
<1> DEFINE failure == FirstFailure(CertificateChecks)
<1>1. certificate \in Certificates /\ class \in Classes
  BY DEF IInv, TypesInv
<1>2. certificate.pem \in BOOLEAN
  BY <1>1, CertificatesAssumption DEF IsDecoded
<1>3. failure = IF IsSigned(certificate)
                THEN IF REQUIRED_X509_EXTENSIONS \subseteq certificate.extensions
                     THEN None ELSE Extension
                ELSE Format
  BY <1>2, CertificateFails
<1>4. IF failure = None
      THEN /\ pc' = "extensions"
           /\ UNCHANGED <<class, certificate, exception, pass, lists, members>>
      ELSE Throw(failure)
  BY DEF ReadCertificate
<1>. HIDE DEF failure
<1>5. CASE failure = None
  <2>1. IsCertificate(certificate)
    BY <1>3, <1>5 DEF IsCertificate, IsSigned, None, Format, Extension
  <2>2. /\ pc' = "extensions" /\ class' = class /\ certificate' = certificate
        /\ exception' = exception /\ pass' = pass /\ lists' = lists /\ members' = members
        /\ pc = "certificate"
    BY <1>4, <1>5 DEF ReadCertificate
  <2>3. IsCertificate(certificate)'
    BY <2>1, <2>2
  <2>4. TypesInv'
    BY <2>2 DEF IInv, TypesInv, AreMembers
  <2>5. TypeOK'
    BY <2>2 DEF IInv, TypeOK
  <2>. QED BY <2>2, <2>3, <2>4, <2>5 DEF IInv
<1>6. CASE failure # None
  <2>1. Justified(failure)
    BY <1>3, <1>6, UnsignedIsRefused
  <2>. QED BY <1>4, <1>6, <2>1, ThrowInv
<1>. QED BY <1>5, <1>6

\* While a list is read, only the lists change.
LEMMA ListTypes ==
    ASSUME NEW list, ListInv(list)
    PROVE  /\ list.position \in 1 .. Len(list.entries) + 1
           /\ list.expected \subseteq RequiredOf(list.reader)
           /\ \A oid \in DOMAIN list.found \intersect SgxTcbComponents :
                list.found[oid] \in 0 .. BYTE_COUNT - 1
BY DEF ListInv, AreMembers, Width

\* A step that changes nothing but the lists keeps all else.
LEMMA ReadingInv ==
    ASSUME IInv, pc \in { "extensions", "entries" }, pc' = "entries", ListsInv',
           UNCHANGED <<class, certificate, exception, pass, members>>
    PROVE  IInv'
<1>1. TypesInv'
  BY DEF IInv, TypesInv, AreMembers
<1>2. IsCertificate(certificate)'
  BY DEF IInv
<1>3. pass # "constructor" => (class # Pck)' /\ PckPassInv'
  BY DEF IInv, PckPassInv, HasExtensions, SgxExtensions
<1>4. exception' = None
  BY DEF IInv
<1>5. /\ lists' = << lists'[1] >> \/ lists' = << lists'[1], lists'[2] >>
      /\ ListInv(lists'[1])
      /\ lists' = << lists'[1], lists'[2] >> => lists' = << lists'[1] >> \/ ListInv(lists'[2])
  BY DEF ListsInv, OuterInv, InnerInv
<1>6. /\ Len(lists') <= 2
      /\ \A k \in DOMAIN lists' : ListInv(lists'[k])
  <2>1. CASE lists' = << lists'[1] >>
    BY <1>5, <2>1
  <2>2. CASE lists' = << lists'[1], lists'[2] >> /\ lists' # << lists'[1] >>
    <3>1. Len(lists') = 2 /\ DOMAIN lists' = { 1, 2 }
      BY <2>2
    <3>. QED BY <1>5, <2>2, <3>1
  <2>. QED BY <1>5, <2>1, <2>2
<1>7. TypeOK'
  BY <1>6, ListTypes DEF IInv, TypeOK
<1>. QED BY <1>1, <1>2, <1>3, <1>4, <1>7 DEF IInv

LEMMA OneListFollows ==
    ASSUME UNCHANGED <<class, certificate, pass>>,
           NEW outer, OuterInv(outer), lists' = << outer >>
    PROVE  ListsInv'
<1>1. OuterInv(outer)'
  BY DEF OuterInv, HasExtensions, SgxExtensions, Reader
<1>. QED BY <1>1 DEF ListsInv

LEMMA TwoListsFollow ==
    ASSUME UNCHANGED <<class, certificate, pass>>,
           NEW outer, OuterInv(outer), NEW inner, InnerInv(inner, outer),
           lists' = << inner, outer >>
    PROVE  ListsInv'
<1>1. OuterInv(outer)'
  BY DEF OuterInv, HasExtensions, SgxExtensions, Reader
<1>2. InnerInv(inner, outer)'
  BY DEF InnerInv, Reader
<1>. QED BY <1>1, <1>2 DEF ListsInv

LEMMA OpenExtensionsInv ==
    ASSUME IInv, OpenExtensions
    PROVE  IInv'
<1> DEFINE first   == IF pass = "own" THEN <<>> ELSE SgxExtensionsChecks
           failure == FirstFailure(first \o CountChecks(Reader, Len(SgxExtensions)))
           list    == List(Reader, SgxExtensions, members)
<1>1. /\ pc = "extensions" /\ class \in Classes /\ certificate \in Certificates
      /\ lists = <<>> /\ IsCertificate(certificate) /\ exception = None
      /\ AreMembers(members)
  BY DEF OpenExtensions, IInv, TypesInv
<1>2. None # Format /\ None # Extension
  BY DEF None, Format, Extension
<1>3. /\ Reader \in Classes
      /\ Counts(class) \subseteq CountsOf(Reader)
      /\ pass = "own" => Reader = class /\ class # Pck /\ PckPassInv
      /\ pass # "own" => Reader = Pck
  BY ReaderIs DEF IInv
<1>4. first \in Checklist /\ (FirstFailure(first) = None => HasExtensions)
  <2>1. CASE pass = "own"
    BY <1>3, <2>1, NoCheck DEF PckPassInv
  <2>2. CASE pass # "own"
    BY <1>2, <2>2, ExtensionsFail DEF HasExtensions
  <2>. QED BY <2>1, <2>2
<1>5. FirstFailure(first) # None => Justified(FirstFailure(first))
  <2>1. CASE pass = "own"
    BY <2>1, NoCheck
  <2>2. CASE pass # "own"
    BY <2>2, ExtensionsFail, ExtensionsAreRefused
  <2>. QED BY <2>1, <2>2
<1>6. failure = IF FirstFailure(first) = None
                THEN IF Len(SgxExtensions) \in CountsOf(Reader) THEN None ELSE Extension
                ELSE FirstFailure(first)
  <2>1. Reader \in Readers /\ Reader # "Configuration"
    BY <1>3 DEF Readers, Classes, Pck, Processor, Platform
  <2>. HIDE DEF first
  <2>. QED BY <1>4, <2>1, CountFails
<1>7. IF failure # None THEN Throw(failure)
      ELSE /\ IF Reader = Processor
              THEN pc' = "accepted" /\ UNCHANGED lists
              ELSE pc' = "entries" /\ lists' = << list >>
           /\ UNCHANGED <<class, certificate, exception, pass, members>>
  BY DEF OpenExtensions
<1>. HIDE DEF first, failure
<1>8. CASE failure # None
  <2>1. Justified(failure)
    BY <1>3, <1>4, <1>5, <1>6, <1>8, CountIsRefused
  <2>. QED BY <1>7, <1>8, <2>1, ThrowInv
<1>9. CASE failure = None
  <2>1. HasExtensions /\ Len(SgxExtensions) \in CountsOf(Reader)
    BY <1>2, <1>4, <1>6, <1>9
  <2>2. /\ class' = class /\ certificate' = certificate /\ exception' = exception
        /\ pass' = pass /\ members' = members
        /\ IF Reader = Processor
           THEN pc' = "accepted" /\ lists' = lists
           ELSE pc' = "entries" /\ lists' = << list >>
    BY <1>7, <1>9
  <2>3. TypesInv'
    BY <1>1, <2>2 DEF IInv, TypesInv, AreMembers
  <2>4. IsCertificate(certificate)'
    BY <1>1, <2>2
  <2>5. pass # "constructor" => (class # Pck)' /\ PckPassInv'
    BY <2>2 DEF IInv, PckPassInv, HasExtensions, SgxExtensions
  <2>6. CASE Reader = Processor
    <3>1. pass = "own" /\ class = Processor
      BY <1>3, <2>6 DEF Pck, Processor
    <3>2. IsOfProfile(certificate, class)
      <4>1. Len(SgxExtensions) \in Counts(class)
        BY <1>1, <2>1, <2>6, <3>1, Wants
      <4>2. IsListOf(SgxExtensions, RequiredBy(class), HasType)
        <5>1. RequiredBy(class) = RequiredOf(Pck)
          BY <1>1, <3>1, Wants DEF Processor, Platform
        <5>2. IsListOf(SgxExtensions, RequiredOf(Pck), HasType)
          BY <1>3, <3>1 DEF PckPassInv
        <5>. QED BY <5>1, <5>2
      <4>. QED BY <1>1, <2>1, <4>1, <4>2 DEF IsOfProfile, HasExtensions, SgxExtensions
    <3>3. TypeOK'
      BY <2>2, <2>6 DEF IInv, TypeOK
    <3>4. IsOfProfile(certificate, class)'
      BY <2>2, <3>2
    <3>5. pc' = "accepted" /\ lists' = <<>>
      BY <1>1, <2>2, <2>6
    <3>. QED BY <1>1, <2>2, <2>3, <2>4, <2>5, <3>3, <3>4, <3>5 DEF IInv
  <2>7. CASE Reader # Processor
    <3>1. lists' = << list >> /\ pc' = "entries"
      BY <2>2, <2>7
    <3>2. /\ list.reader = Reader /\ list.entries = SgxExtensions /\ list.position = 1
          /\ list.expected = RequiredOf(Reader) /\ list.found = members
          /\ list = [ reader |-> list.reader, entries |-> list.entries,
                      position |-> list.position, expected |-> list.expected,
                      found |-> list.found ]
      BY DEF List
    <3>. HIDE DEF list
    <3>3. AreEntries(list.entries) /\ Len(list.entries) \in Nat
      BY <1>1, <2>1, <3>2, DecodedIsList, EntriesAre
    <3>4. ListInv(list)
      BY <1>1, <3>2, <3>3 DEF ListInv
    <3>5. OuterInv(list)
      BY <2>1, <2>7, <3>2, <3>4 DEF OuterInv
    <3>. QED BY <1>1, <2>2, <3>1, <3>5, OneListFollows, ReadingInv
  <2>. QED BY <2>6, <2>7
<1>. QED BY <1>8, <1>9

\* One more entry of a list has been read.
LEMMA ListAdvances ==
    ASSUME NEW list, ListInv(list), list.position <= Len(list.entries),
           Fits(list.reader, list.entries[list.position]),
           NEW new,
           new = [ reader |-> new.reader, entries |-> new.entries, position |-> new.position,
                   expected |-> new.expected, found |-> new.found ],
           new.reader = list.reader, new.entries = list.entries,
           new.position = list.position + 1,
           new.expected = list.expected \ { list.entries[list.position].oid },
           AreMembers(new.found)
    PROVE  ListInv(new)
<1>1. /\ Len(list.entries) \in Nat
      /\ list.position \in 1 .. Len(list.entries)
      /\ \A k \in 1 .. list.position : k = list.position \/ k \in 1 .. list.position - 1
  BY EntriesAre DEF ListInv
<1>2. new.position \in 1 .. Len(new.entries) + 1 /\ new.position - 1 = list.position
  BY <1>1
<1>3. \A k \in 1 .. list.position - 1 : Fits(list.reader, list.entries[k])
  BY DEF ListInv
<1>4. \A k \in 1 .. new.position - 1 : Fits(new.reader, new.entries[k])
  BY <1>1, <1>2, <1>3
<1>5. list.expected = { oid \in RequiredOf(list.reader) :
                          \A k \in 1 .. list.position - 1 : list.entries[k].oid # oid }
  BY DEF ListInv
<1>6. new.expected = { oid \in RequiredOf(new.reader) :
                         \A k \in 1 .. new.position - 1 : new.entries[k].oid # oid }
  BY <1>1, <1>2, <1>5
<1>. QED BY <1>2, <1>4, <1>6 DEF ListInv

\* Lists of one list and of two.
LEMMA ShortLists ==
    ASSUME NEW a, NEW b
    PROVE  /\ Head(<<a>>) = a /\ Len(<<a>>) = 1 /\ Tail(<<a>>) = <<>>
           /\ Head(<<a, b>>) = a /\ Len(<<a, b>>) = 2 /\ Tail(<<a, b>>) = <<b>>
           /\ <<a>> \o <<>> = <<a>> /\ <<a>> \o <<b>> = <<a, b>>
<1>1. /\ Head(<<a>>) = a /\ Len(<<a>>) = 1
      /\ Head(<<a, b>>) = a /\ Len(<<a, b>>) = 2
  OBVIOUS
<1>2. <<a>> \in Seq({a, b}) /\ <<a, b>> \in Seq({a, b})
  OBVIOUS
<1>3. Tail(<<a>>) = <<>>
  BY <1>1, <1>2
<1>4. Tail(<<a, b>>) = <<b>>
  BY <1>1, <1>2
<1>5. <<a>> \o <<>> = <<a>>
  BY <1>2
<1>6. <<a>> \o <<b>> = <<a, b>>
  <2> DEFINE both == <<a>> \o <<b>>
  <2>1. both \in Seq({a, b}) /\ Len(both) = 2 /\ both[1] = a /\ both[2] = b
    OBVIOUS
  <2>. HIDE DEF both
  <2>2. both = <<a, b>>
    BY <2>1
  <2>. QED BY <2>2 DEF both
<1>. QED BY <1>1, <1>3, <1>4, <1>5, <1>6

\* The list that is read lies in no other, or is the value of an entry of the outer one.
LEMMA TopIs ==
    ASSUME IInv, pc = "entries"
    PROVE  /\ \/ /\ lists = << Top >> /\ Len(lists) = 1 /\ Tail(lists) = <<>>
                 /\ OuterInv(Top)
              \/ /\ lists = << Top, lists[2] >> /\ Len(lists) = 2 /\ Tail(lists) = << lists[2] >>
                 /\ OuterInv(lists[2]) /\ InnerInv(Top, lists[2])
           /\ ListInv(Top)
           /\ Top.reader \in Readers \ { Processor }
<1>1. ListsInv
  BY DEF IInv
<1>2. CASE lists = << lists[1] >> /\ OuterInv(lists[1])
  <2>1. Top = lists[1] /\ Len(lists) = 1 /\ Tail(lists) = <<>>
    BY <1>2, ShortLists, Zenon DEF Top
  <2>2. Top.reader \in Readers \ { Processor }
    BY <1>2, <2>1, ReaderIs DEF OuterInv, Readers, Classes
  <2>. QED BY <1>2, <2>1, <2>2 DEF OuterInv
<1>3. CASE lists = << lists[1], lists[2] >> /\ OuterInv(lists[2]) /\ InnerInv(lists[1], lists[2])
  <2>1. Top = lists[1] /\ Len(lists) = 2 /\ Tail(lists) = << lists[2] >>
    <3> DEFINE x == lists[1]
               y == lists[2]
    <3>1. lists = << x, y >>
      BY <1>3
    <3>. HIDE DEF x, y
    <3>2. Head(lists) = x /\ Len(lists) = 2 /\ Tail(lists) = << y >>
      BY <3>1, ShortLists, Zenon
    <3>. QED BY <3>2 DEF Top, x, y
  <2>2. Top.reader \in { "Tcb", "Configuration" }
    BY <1>3, <2>1 DEF InnerInv, NestedReader
  <2>. QED BY <1>3, <2>1, <2>2 DEF InnerInv, Readers, Processor
<1>. QED BY <1>1, <1>2, <1>3 DEF ListsInv

\* The entry that is read next.
LEMMA EntryIs ==
    ASSUME IInv, pc = "entries", ~AtEnd
    PROVE  /\ Top.position \in DOMAIN Top.entries
           /\ Top.position <= Len(Top.entries)
           /\ Entry = Top.entries[Top.position]
           /\ Entry.shape \in Shapes /\ Entry.value.value \in Int
<1>1. ListInv(Top)
  BY TopIs
<1>2. Len(Top.entries) \in Nat /\ Top.position \in 1 .. Len(Top.entries)
  BY <1>1, EntriesAre DEF ListInv, AtEnd
<1>3. AreEntries(Top.entries)
  BY <1>1 DEF ListInv
<1>. QED BY <1>2, <1>3, EntriesAre DEF Entry

\* What is thrown for the entry that is read next is justified.
LEMMA TopEntryIsRefused ==
    ASSUME IInv, pc = "entries", ~AtEnd
    PROVE  /\ Entry.shape \in { "notSequence", "noObject" } => Justified(Format)
           /\ Entry.shape = "notPair" => Justified(Extension)
           /\ Entry.oid \in RequiredOf(Top.reader) \ Nested
                => HasSimpleType(Entry.oid, Entry.value) \/ Justified(Format)
<1>1. class \in Classes /\ RequiredOf(Reader) \subseteq RequiredBy(class)
  BY ReaderIs DEF IInv, TypesInv
<1>2. CASE OuterInv(Top)
  <2>1. Entry = SgxExtensions[Top.position] /\ Top.position \in DOMAIN SgxExtensions
    BY <1>2, EntryIs DEF OuterInv
  <2>2. HasExtensions /\ Top.reader = Reader
    BY <1>2 DEF OuterInv
  <2>. QED BY <1>1, <2>1, <2>2, EntryIsRefused, ValueIsRefused
<1>3. CASE OuterInv(lists[2]) /\ InnerInv(Top, lists[2])
  <2> DEFINE k == lists[2].position
  <2>1. /\ HasExtensions
        /\ lists[2].entries = SgxExtensions
        /\ ListInv(lists[2])
        /\ k <= Len(SgxExtensions)
        /\ Top.entries = SgxExtensions[k].value.entries
        /\ Top.reader = NestedReader(SgxExtensions[k].oid)
        /\ SgxExtensions[k].oid \in RequiredOf(Reader) \intersect Nested
    BY <1>3 DEF OuterInv, InnerInv
  <2>2. k \in DOMAIN SgxExtensions
    BY <2>1, EntriesAre DEF ListInv
  <2>. HIDE DEF k
  <2>3. SgxExtensions[k].oid \in RequiredBy(class) \intersect Nested
    BY <1>1, <2>1
  <2>. QED BY <2>1, <2>2, <2>3, EntryIs, NestedIsRefused
<1>. QED BY <1>2, <1>3, TopIs

\* A step that reads one more entry of the top list, and it fits.
LEMMA TopAdvances ==
    ASSUME IInv, pc = "entries", ~AtEnd, Fits(Top.reader, Entry),
           UNCHANGED <<class, certificate, pc, exception, pass, members>>,
           NEW new, lists' = << new >> \o Tail(lists),
           new = [ reader |-> new.reader, entries |-> new.entries, position |-> new.position,
                   expected |-> new.expected, found |-> new.found ],
           new.reader = Top.reader, new.entries = Top.entries,
           new.position = Top.position + 1,
           new.expected = Top.expected \ { Entry.oid },
           AreMembers(new.found)
    PROVE  IInv'
<1>1. ListInv(new)
  BY TopIs, EntryIs, ListAdvances
<1>2. CASE Tail(lists) = <<>> /\ OuterInv(Top)
  <2>1. lists' = << new >>
    BY <1>2, ShortLists, Zenon
  <2>2. OuterInv(new)
    BY <1>1, <1>2 DEF OuterInv
  <2>. QED BY <2>1, <2>2, OneListFollows, ReadingInv
<1>3. CASE Tail(lists) = << lists[2] >> /\ OuterInv(lists[2]) /\ InnerInv(Top, lists[2])
  <2> DEFINE outer == lists[2]
  <2>1. OuterInv(outer) /\ InnerInv(Top, outer) /\ lists' = << new >> \o << outer >>
    BY <1>3
  <2>. HIDE DEF outer
  <2>2. InnerInv(new, outer)
    BY <1>1, <2>1 DEF InnerInv
  <2>3. lists' = << new, outer >>
    BY <2>1, ShortLists
  <2>4. ListsInv'
    BY <2>1, <2>2, <2>3, TwoListsFollow
  <2>. QED BY <2>4, ReadingInv
<1>. QED BY <1>2, <1>3, TopIs

LEMMA RefuseEntryInv ==
    ASSUME IInv, RefuseEntry
    PROVE  IInv'
<1> DEFINE failure == FirstFailure(EntryChecks(Top.reader, Entry))
<1>1. pc = "entries" /\ ~AtEnd /\ failure # None /\ Throw(failure)
  BY DEF RefuseEntry
<1>2. failure = IF Entry.shape = "notSequence" THEN Format
                ELSE IF Entry.shape = "notPair" THEN Extension
                ELSE IF Entry.shape = "noObject" /\ Top.reader # Platform THEN Format
                ELSE None
  BY EntryFails
<1>. HIDE DEF failure
<1>3. Justified(failure)
  BY <1>1, <1>2, TopEntryIsRefused
<1>. QED BY <1>1, <1>3, ThrowInv

LEMMA NamedIsEntry ==
    ASSUME Named
    PROVE  pc = "entries" /\ ~AtEnd /\ IsEntry(Top.reader, Entry)
<1>1. None # Format /\ None # Extension
  BY DEF None, Format, Extension
<1>. QED BY <1>1, EntryFails DEF Named, IsEntry

LEMMA SkipUnknownInv ==
    ASSUME IInv, SkipUnknown
    PROVE  IInv'
<1> DEFINE new == [ Top EXCEPT !.position = @ + 1 ]
<1>1. /\ pc = "entries" /\ ~AtEnd /\ IsEntry(Top.reader, Entry)
      /\ Entry.oid \notin RequiredOf(Top.reader)
      /\ lists' = << new >> \o Tail(lists)
      /\ UNCHANGED <<class, certificate, pc, exception, pass, members>>
  BY NamedIsEntry DEF SkipUnknown
<1>2. Fits(Top.reader, Entry)
  BY <1>1 DEF Fits
<1>3. ListInv(Top)
  BY <1>1, TopIs
<1>4. /\ new = [ reader |-> new.reader, entries |-> new.entries, position |-> new.position,
                 expected |-> new.expected, found |-> new.found ]
      /\ new.reader = Top.reader /\ new.entries = Top.entries
      /\ new.position = Top.position + 1
      /\ new.expected = Top.expected /\ new.found = Top.found
  BY <1>3 DEF ListInv
<1>. HIDE DEF new
<1>5. Top.expected = Top.expected \ { Entry.oid } /\ AreMembers(new.found)
  BY <1>1, <1>3, <1>4 DEF ListInv
<1>. QED BY <1>1, <1>2, <1>4, <1>5, TopAdvances

\* An entry that is kept.
LEMMA WithIs ==
    ASSUME NEW list, NEW oid, NEW found, NEW new, new = With(list, oid, found),
           list = [ reader |-> list.reader, entries |-> list.entries, position |-> list.position,
                    expected |-> list.expected, found |-> list.found ]
    PROVE  /\ new = [ reader |-> new.reader, entries |-> new.entries, position |-> new.position,
                      expected |-> new.expected, found |-> new.found ]
           /\ new.reader = list.reader /\ new.entries = list.entries
           /\ new.position = list.position + 1
           /\ new.expected = list.expected \ { oid } /\ new.found = Over(found, list.found)
<1>1. ASSUME NEW next, NEW rest, NEW all,
             new = [ list EXCEPT !.position = next, !.found = all, !.expected = rest ]
      PROVE  /\ new = [ reader |-> new.reader, entries |-> new.entries,
                        position |-> new.position, expected |-> new.expected,
                        found |-> new.found ]
             /\ new.reader = list.reader /\ new.entries = list.entries
             /\ new.position = next /\ new.expected = rest /\ new.found = all
  BY <1>1
<1>2. new = [ list EXCEPT !.position = list.position + 1, !.found = Over(found, list.found),
                          !.expected = list.expected \ { oid } ]
  BY DEF With
<1>. QED BY <1>1, <1>2

\* The lowest bits of a number are an int, and of an int the number itself.
LEMMA IntIs ==
    ASSUME NEW n \in Int
    PROVE  /\ AsInt(n) \in IntNumbers
           /\ n \in IntNumbers => AsInt(n) = n
<1> DEFINE half == UINT_COUNT \div 2
<1>1. UINT_COUNT \in Nat \ {0} /\ half \in Nat /\ UINT_COUNT = 2 * half
  BY PckAssumption
<1>2. AsInt(n) = ((n + half) % UINT_COUNT) - half /\ IntNumbers = -half .. half - 1
  BY DEF AsInt, IntNumbers
<1>. HIDE DEF half
<1>3. (n + half) % UINT_COUNT \in 0 .. UINT_COUNT - 1
  BY <1>1
<1>4. n + half \in 0 .. UINT_COUNT - 1 => (n + half) % UINT_COUNT = n + half
  BY <1>1
<1>. QED BY <1>1, <1>2, <1>3, <1>4

\* A component is kept as a byte, the SVN of the PCE as an unsigned integer, the type as an
\* int.
LEMMA ConvertedHasWidth ==
    ASSUME NEW oid, NEW v, v.value \in Int
    PROVE  Converted(oid, v) \in Width(oid)
<1>1. /\ AsLong(v.value) \in Int
      /\ BYTE_COUNT \in Nat \ {0} /\ UINT_COUNT \in Nat \ {0}
  BY PckAssumption DEF AsLong
<1>2. /\ AsLong(v.value) % BYTE_COUNT \in 0 .. BYTE_COUNT - 1
      /\ AsLong(v.value) % UINT_COUNT \in 0 .. UINT_COUNT - 1
  BY <1>1
<1>3. AsInt(AsLong(v.value)) \in IntNumbers
  BY <1>1, IntIs
<1>. QED BY <1>2, <1>3 DEF Converted, Width

\* What is not nested is kept under its own name.
LEMMA SimpleAreMembers ==
    /\ \A reader \in Readers : Simple(reader) \subseteq Members
    /\ \A reader \in Readers : Simple(reader) = RequiredOf(reader) \ Nested
    /\ RequiredOf("Tcb") \subseteq Members /\ RequiredOf("Configuration") \subseteq Members
BY NamesDiffer, Required DEF Simple, Members, Readers

LEMMA ReadValueInv ==
    ASSUME IInv, ReadValue
    PROVE  IInv'
<1> DEFINE oid   == Entry.oid
           value == Converted(oid, Entry.value)
           single == [ x \in { oid } |-> value ]
           new   == With(Top, oid, single)
<1>1. /\ pc = "entries" /\ ~AtEnd /\ IsEntry(Top.reader, Entry)
      /\ oid \in RequiredOf(Top.reader) \ Nested
      /\ IF HasSimpleType(oid, Entry.value)
         THEN /\ lists' = << new >> \o Tail(lists)
              /\ UNCHANGED <<class, certificate, pc, exception, pass, members>>
         ELSE Throw(Format)
  BY NamedIsEntry DEF ReadValue, Stored
<1>2. CASE ~HasSimpleType(oid, Entry.value)
  <2>1. Justified(Format)
    BY <1>1, <1>2, TopEntryIsRefused
  <2>. QED BY <1>1, <1>2, <2>1, ThrowInv
<1>3. CASE HasSimpleType(oid, Entry.value)
  <2>1. Fits(Top.reader, Entry)
    BY <1>1, <1>3 DEF Fits, HasType
  <2>2. ListInv(Top) /\ Top.reader \in Readers /\ Entry.value.value \in Int
    BY <1>1, TopIs, EntryIs
  <2>3. /\ new = [ reader |-> new.reader, entries |-> new.entries, position |-> new.position,
                   expected |-> new.expected, found |-> new.found ]
        /\ new.reader = Top.reader /\ new.entries = Top.entries
        /\ new.position = Top.position + 1
        /\ new.expected = Top.expected \ { oid } /\ new.found = Over(single, Top.found)
    <3> DEFINE top == Top
    <3>1. /\ top = [ reader |-> top.reader, entries |-> top.entries,
                     position |-> top.position, expected |-> top.expected,
                     found |-> top.found ]
          /\ new = With(top, oid, single)
      BY <2>2 DEF ListInv
    <3>. HIDE DEF top, oid, single, new
    <3>2. /\ new = [ reader |-> new.reader, entries |-> new.entries,
                     position |-> new.position, expected |-> new.expected,
                     found |-> new.found ]
          /\ new.reader = top.reader /\ new.entries = top.entries
          /\ new.position = top.position + 1
          /\ new.expected = top.expected \ { oid } /\ new.found = Over(single, top.found)
      BY <3>1, WithIs
    <3>. QED BY <3>2 DEF top
  <2>4. AreMembers(new.found)
    <3>1. AreMembers(Top.found)
      BY <2>2 DEF ListInv
    <3>2. oid \in Members
      BY <1>1, <2>2, SimpleAreMembers
    <3>3. value \in Width(oid)
      BY <2>2, ConvertedHasWidth
    <3>. HIDE DEF oid, value, new
    <3> DEFINE found == Over(single, Top.found)
    <3>4. /\ DOMAIN found = { oid } \union DOMAIN Top.found
          /\ \A x \in DOMAIN found : found[x] = IF x = oid THEN value ELSE Top.found[x]
      BY DEF Over
    <3>. HIDE DEF found
    <3>5. AreMembers(found)
      BY <3>1, <3>2, <3>3, <3>4 DEF AreMembers
    <3>. QED BY <2>3, <3>5 DEF found
  <2>5. /\ lists' = << new >> \o Tail(lists)
        /\ UNCHANGED <<class, certificate, pc, exception, pass, members>>
    BY <1>1, <1>3
  <2>. HIDE DEF new
  <2>. QED BY <1>1, <2>1, <2>3, <2>4, <2>5, TopAdvances
<1>. QED BY <1>2, <1>3

LEMMA OpenNestedInv ==
    ASSUME IInv, OpenNested
    PROVE  IInv'
<1> DEFINE reader  == NestedReader(Entry.oid)
           entries == Entry.value.entries
           isSequence == Entry.value.type = "sequence"
           first   == Check(isSequence, Format)
           failure == FirstFailure(first \o CountChecks(reader, Len(entries)))
           inner   == List(reader, entries, Empty)
<1>1. /\ pc = "entries" /\ ~AtEnd /\ IsEntry(Top.reader, Entry)
      /\ Entry.oid \in RequiredOf(Top.reader) \intersect Nested
      /\ IF failure # None THEN Throw(failure)
         ELSE /\ lists' = << inner >> \o lists
              /\ UNCHANGED <<class, certificate, pc, exception, pass, members>>
  BY NamedIsEntry DEF OpenNested
<1>2. /\ lists = << Top >> /\ OuterInv(Top)
      /\ Top.reader = Reader
  <2>1. ASSUME InnerInv(Top, lists[2]) PROVE FALSE
    <3>1. Top.reader \in { "Tcb", "Configuration" }
      BY <2>1 DEF InnerInv, NestedReader
    <3>. QED BY <1>1, <3>1, NamesDiffer
  <2>2. lists = << Top >> /\ OuterInv(Top)
    BY <1>1, <2>1, TopIs
  <2>. QED BY <2>2 DEF OuterInv
<1>3. /\ HasExtensions
      /\ Entry = SgxExtensions[Top.position]
      /\ Top.position \in DOMAIN SgxExtensions
      /\ Top.position <= Len(Top.entries)
      /\ Entry = Top.entries[Top.position]
      /\ certificate \in Certificates
      /\ Entry.oid \in RequiredBy(class) \intersect Nested
  BY <1>1, <1>2, EntryIs, ReaderIs DEF OuterInv, IInv, TypesInv
<1>4. isSequence => AreEntries(entries) /\ Len(entries) \in Nat
  BY <1>3, DecodedIsList, EntriesAre
<1>5. /\ ~isSequence => Justified(Format)
      /\ Entry.oid = TCB /\ Len(entries) # TCB_SEQUENCE_LEN => Justified(Extension)
  BY <1>3, NestedIsRefused
<1>6. /\ reader \in { "Tcb", "Configuration" }
      /\ reader = "Tcb" <=> Entry.oid = TCB
  BY DEF NestedReader
<1>7. Format \in Exceptions /\ Extension \in Exceptions /\ None # Format /\ None # Extension
  BY DEF None, Exceptions, Format, Extension
<1>8. failure = IF isSequence
                THEN IF reader = "Tcb" => Len(entries) = TCB_SEQUENCE_LEN THEN None ELSE Extension
                ELSE Format
  <2>1. (isSequence) \in BOOLEAN
    OBVIOUS
  <2>. HIDE DEF isSequence, entries, reader
  <2>2. first \in Checklist /\ FirstFailure(first) = IF isSequence THEN None ELSE Format
    BY <1>7, <2>1, OneCheck
  <2>. HIDE DEF first
  <2>3. reader \in Readers
    BY <1>6 DEF Readers
  <2>4. CASE isSequence
    <3>1. failure = IF Len(entries) \in CountsOf(reader) THEN None ELSE Extension
      BY <1>4, <2>2, <2>3, <2>4, CountFails
    <3>2. Len(entries) \in CountsOf(reader)
            <=> (reader = "Tcb" => Len(entries) = TCB_SEQUENCE_LEN)
      BY <1>4, <1>6, <2>4 DEF CountsOf, Pck, Processor, Platform
    <3>. QED BY <2>4, <3>1, <3>2
  <2>5. CASE ~isSequence /\ reader = "Tcb"
    BY <1>7, <2>2, <2>3, <2>5, CountFails
  <2>6. CASE ~isSequence /\ reader = "Configuration"
    <3>1. CountChecks(reader, Len(entries)) = <<>>
      BY <2>6 DEF CountChecks, Pck, Processor, Platform
    <3>2. first \o <<>> = first
      BY <2>2 DEF Checklist
    <3>. QED BY <2>2, <2>6, <3>1, <3>2
  <2>. QED BY <1>6, <2>4, <2>5, <2>6
<1>. HIDE DEF failure, first
<1>9. CASE failure # None
  <2>1. Justified(failure)
    BY <1>5, <1>6, <1>8, <1>9
  <2>. QED BY <1>1, <1>9, <2>1, ThrowInv
<1>10. CASE failure = None
  <2>1. isSequence /\ (Entry.oid = TCB => Len(entries) = TCB_SEQUENCE_LEN)
    BY <1>6, <1>7, <1>8, <1>10
  <2>2. /\ lists' = << inner >> \o lists
        /\ UNCHANGED <<class, certificate, pc, exception, pass, members>>
    BY <1>1, <1>10
  <2>3. /\ inner = [ reader |-> inner.reader, entries |-> inner.entries,
                     position |-> inner.position, expected |-> inner.expected,
                     found |-> inner.found ]
        /\ inner.reader = reader /\ inner.entries = entries /\ inner.position = 1
        /\ inner.expected = RequiredOf(reader) /\ inner.found = Empty
    BY DEF List
  <2>4. AreMembers(Empty)
    BY DEF AreMembers, Empty
  <2>. HIDE DEF inner
  <2>5. ListInv(inner)
    BY <1>4, <2>1, <2>3, <2>4 DEF ListInv
  <2>6. InnerInv(inner, Top)
    BY <1>1, <1>2, <1>3, <2>1, <2>3, <2>5 DEF InnerInv
  <2>7. lists' = << inner, Top >>
    <3> DEFINE outer == Top
    <3>1. lists' = << inner >> \o << outer >>
      BY <1>2, <2>2
    <3>. HIDE DEF outer
    <3>2. lists' = << inner, outer >>
      BY <3>1, ShortLists
    <3>. QED BY <3>2 DEF outer
  <2>8. ListsInv'
    <3> DEFINE outer == Top
    <3>1. OuterInv(outer) /\ InnerInv(inner, outer) /\ lists' = << inner, outer >>
      BY <1>2, <2>6, <2>7
    <3>. HIDE DEF outer
    <3>. QED BY <2>2, <3>1, TwoListsFollow
  <2>. QED BY <1>1, <2>2, <2>8, ReadingInv
<1>. QED BY <1>9, <1>10

\* A list that was read to its end has what its reader requires, or it does not.
LEMMA AtEndIs ==
    ASSUME NEW list, ListInv(list), list.position > Len(list.entries)
    PROVE  /\ \A k \in DOMAIN list.entries : Fits(list.reader, list.entries[k])
           /\ list.expected = {} <=> RequiredOf(list.reader) \subseteq OidsOf(list.entries)
<1>1. /\ Len(list.entries) \in Nat
      /\ DOMAIN list.entries = 1 .. Len(list.entries)
      /\ list.position = Len(list.entries) + 1
  BY EntriesAre DEF ListInv
<1>2. /\ \A k \in 1 .. list.position - 1 : Fits(list.reader, list.entries[k])
      /\ list.expected = { oid \in RequiredOf(list.reader) :
                             \A k \in 1 .. list.position - 1 : list.entries[k].oid # oid }
  BY DEF ListInv
<1>3. list.position - 1 = Len(list.entries)
  BY <1>1
<1>4. list.expected = { oid \in RequiredOf(list.reader) :
                          \A k \in DOMAIN list.entries : list.entries[k].oid # oid }
  BY <1>1, <1>2, <1>3
<1>. QED BY <1>1, <1>2, <1>3, <1>4 DEF OidsOf

\* Of a list with names, every entry is a pair.
LEMMA FittingIsPair ==
    ASSUME NEW reader, reader # Platform, NEW entry, Fits(reader, entry), entry.shape \in Shapes
    PROVE  entry.shape = "pair"
BY DEF Fits, IsEntry, Shapes

\* What is put over members of the right width leaves them so.
LEMMA OverAreMembers ==
    ASSUME NEW later, AreMembers(later), NEW earlier, AreMembers(earlier)
    PROVE  AreMembers(Over(later, earlier))
<1> DEFINE found == Over(later, earlier)
<1>1. /\ DOMAIN found = DOMAIN later \union DOMAIN earlier
      /\ \A x \in DOMAIN found : found[x] = IF x \in DOMAIN later THEN later[x] ELSE earlier[x]
  BY DEF Over
<1>. HIDE DEF found
<1>2. AreMembers(found)
  BY <1>1 DEF AreMembers
<1>. QED BY <1>2 DEF found

LEMMA CloseNestedInv ==
    ASSUME IInv, CloseNested
    PROVE  IInv'
<1> DEFINE outer == lists[2]
           inner == Top
           entry == outer.entries[outer.position]
<1>1. pc = "entries" /\ AtEnd /\ Len(lists) = 2
  BY DEF CloseNested
<1>2. lists = << inner, outer >> /\ OuterInv(outer) /\ InnerInv(inner, outer)
  BY <1>1, TopIs
<1>3. /\ IF inner.expected # {} THEN Throw(Extension)
         ELSE /\ lists' = << With(outer, entry.oid, inner.found) >>
              /\ UNCHANGED <<class, certificate, pc, exception, pass, members>>
      /\ inner.position > Len(inner.entries)
  BY <1>1 DEF CloseNested, AtEnd
<1>4. class \in Classes /\ RequiredOf(Reader) \subseteq RequiredBy(class)
  BY ReaderIs DEF IInv, TypesInv
<1>. HIDE DEF outer, inner
<1>5. /\ HasExtensions /\ ListInv(outer) /\ ListInv(inner)
      /\ outer.reader = Reader /\ outer.entries = SgxExtensions
      /\ outer.position <= Len(outer.entries)
      /\ IsEntry(Reader, entry)
      /\ entry.oid \in RequiredOf(Reader) \intersect Nested
      /\ entry.value.type = "sequence"
      /\ inner.reader = NestedReader(entry.oid)
      /\ inner.entries = entry.value.entries
      /\ entry.oid = TCB => Len(inner.entries) = TCB_SEQUENCE_LEN
  BY <1>2 DEF OuterInv, InnerInv
<1>6. outer.position \in DOMAIN SgxExtensions /\ entry = SgxExtensions[outer.position]
  BY <1>5, EntriesAre DEF ListInv
<1>7. /\ \A k \in DOMAIN inner.entries : Fits(inner.reader, inner.entries[k])
      /\ inner.expected = {} <=> RequiredOf(inner.reader) \subseteq OidsOf(inner.entries)
  BY <1>3, <1>5, AtEndIs
<1>8. inner.reader \in { "Tcb", "Configuration" }
  BY <1>5 DEF NestedReader
<1>9. CASE inner.expected # {}
  <2>1. entry.oid \in RequiredBy(class) \intersect Nested
    BY <1>4, <1>5
  <2>2. Justified(Extension)
    BY <1>5, <1>6, <1>7, <1>9, <2>1, NestedIsRefused
  <2>. QED BY <1>3, <1>9, <2>2, ThrowInv
<1>10. CASE inner.expected = {}
  <2>1. IsListOf(inner.entries, RequiredOf(inner.reader), HasSimpleType)
    <3>1. AreEntries(inner.entries) /\ inner.reader # Platform
      BY <1>5, <1>8 DEF ListInv, Platform
    <3>2. \A k \in DOMAIN inner.entries : inner.entries[k].shape = "pair"
      BY <1>7, <3>1, EntriesAre, FittingIsPair
    <3>3. ASSUME NEW k \in DOMAIN inner.entries,
                 inner.entries[k].oid \in RequiredOf(inner.reader)
          PROVE  HasSimpleType(inner.entries[k].oid, inner.entries[k].value)
      <4>1. HasType(inner.entries[k].oid, inner.entries[k].value)
        BY <1>7, <3>3 DEF Fits
      <4>2. inner.entries[k].oid \notin Nested
        BY <1>8, <3>3, NamesDiffer
      <4>. QED BY <4>1, <4>2 DEF HasType
    <3>. QED BY <1>7, <1>10, <3>2, <3>3 DEF IsListOf
  <2>2. Fits(outer.reader, entry)
    <3>1. HasType(entry.oid, entry.value)
      BY <1>5, <2>1 DEF HasType
    <3>. QED BY <1>5, <3>1 DEF Fits
  <2> DEFINE new == With(outer, entry.oid, inner.found)
  <2>3. /\ lists' = << new >>
        /\ UNCHANGED <<class, certificate, pc, exception, pass, members>>
    BY <1>3, <1>10
  <2>4. /\ new = [ reader |-> new.reader, entries |-> new.entries, position |-> new.position,
                   expected |-> new.expected, found |-> new.found ]
        /\ new.reader = outer.reader /\ new.entries = outer.entries
        /\ new.position = outer.position + 1
        /\ new.expected = outer.expected \ { entry.oid }
        /\ new.found = Over(inner.found, outer.found)
    <3>1. outer = [ reader |-> outer.reader, entries |-> outer.entries,
                    position |-> outer.position, expected |-> outer.expected,
                    found |-> outer.found ]
      BY <1>5 DEF ListInv
    <3> DEFINE oid == entry.oid
               found == inner.found
    <3>2. new = With(outer, oid, found)
      OBVIOUS
    <3>. HIDE DEF oid, found, new
    <3>3. /\ new = [ reader |-> new.reader, entries |-> new.entries,
                     position |-> new.position, expected |-> new.expected,
                     found |-> new.found ]
          /\ new.reader = outer.reader /\ new.entries = outer.entries
          /\ new.position = outer.position + 1
          /\ new.expected = outer.expected \ { oid } /\ new.found = Over(found, outer.found)
      BY <3>1, <3>2, WithIs
    <3>. QED BY <3>3 DEF oid, found
  <2>. HIDE DEF new, entry
  <2>5. AreMembers(new.found)
    BY <1>5, <2>4, OverAreMembers DEF ListInv
  <2>6. entry = outer.entries[outer.position]
    BY DEF entry
  <2>7. ListInv(new)
    BY <1>5, <2>2, <2>4, <2>5, <2>6, ListAdvances
  <2>8. OuterInv(new)
    BY <1>2, <2>4, <2>7 DEF OuterInv
  <2>. QED BY <1>1, <2>3, <2>8, OneListFollows, ReadingInv
<1>. QED BY <1>9, <1>10

LEMMA CloseExtensionsInv ==
    ASSUME IInv, CloseExtensions
    PROVE  IInv'
<1> DEFINE top == Top
<1>1. pc = "entries" /\ AtEnd /\ Len(lists) = 1
  BY DEF CloseExtensions
<1>2. OuterInv(top)
  BY <1>1, TopIs
<1>3. /\ IF top.expected # {} THEN Throw(Extension)
         ELSE /\ members' = top.found
              /\ lists' = <<>>
              /\ IF NextPass = "none"
                 THEN pc' = "accepted" /\ UNCHANGED pass
                 ELSE pc' = "extensions" /\ pass' = NextPass
              /\ UNCHANGED <<class, certificate, exception>>
      /\ top.position > Len(top.entries)
  BY <1>1 DEF CloseExtensions, AtEnd
<1>4. /\ class \in Classes /\ RequiredOf(Reader) \subseteq RequiredBy(class)
      /\ Reader \in Classes
      /\ pass = "own" => Reader = class /\ class # Pck /\ PckPassInv
      /\ pass # "own" => Reader = Pck
      /\ IsCertificate(certificate) /\ exception = None
      /\ certificate \in Certificates /\ pass \in { "constructor", "base", "own" }
  BY <1>1, ReaderIs DEF IInv, TypesInv
<1>. HIDE DEF top
<1>5. /\ HasExtensions /\ ListInv(top) /\ Reader # Processor
      /\ Len(SgxExtensions) \in CountsOf(Reader)
      /\ top.reader = Reader /\ top.entries = SgxExtensions
  BY <1>2 DEF OuterInv
<1>6. /\ \A k \in DOMAIN SgxExtensions : Fits(Reader, SgxExtensions[k])
      /\ top.expected = {} <=> RequiredOf(Reader) \subseteq OidsOf(SgxExtensions)
  BY <1>3, <1>5, AtEndIs
<1>7. CASE top.expected # {}
  <2>1. ~(RequiredBy(class) \subseteq OidsOf(SgxExtensions))
    BY <1>4, <1>6, <1>7
  <2>2. Justified(Extension)
    BY <1>5, <2>1, LackIsRefused
  <2>. QED BY <1>3, <1>7, <2>2, ThrowInv
<1>8. CASE top.expected = {}
  <2>1. /\ members' = top.found /\ lists' = <<>> /\ class' = class
        /\ certificate' = certificate /\ exception' = exception
        /\ IF NextPass = "none"
           THEN pc' = "accepted" /\ pass' = pass
           ELSE pc' = "extensions" /\ pass' = NextPass
    BY <1>3, <1>8
  <2>2. AreEntries(SgxExtensions) /\ DOMAIN SgxExtensions = 1 .. Len(SgxExtensions)
    BY <1>5, EntriesAre DEF ListInv
  <2>3. Reader = Pck => PckPassInv
    <3>. SUFFICES ASSUME Reader = Pck PROVE PckPassInv
      OBVIOUS
    <3>1. Reader # Platform
      BY DEF Pck, Platform
    <3>2. \A k \in DOMAIN SgxExtensions : SgxExtensions[k].shape = "pair"
      BY <1>6, <2>2, <3>1, EntriesAre, FittingIsPair
    <3>3. IsListOf(SgxExtensions, RequiredOf(Pck), HasType)
      BY <1>6, <1>8, <3>2 DEF IsListOf, Fits
    <3>. QED BY <1>5, <3>3 DEF PckPassInv
  <2>4. PckPassInv
    BY <1>4, <2>3
  <2>5. NextPass \in { "none", "base", "own" }
        /\ (NextPass = "none" => class = Pck \/ pass = "own")
        /\ (NextPass # "none" => class # Pck)
    <3>1. CASE pass = "constructor" /\ class # Pck
      BY <3>1 DEF NextPass
    <3>2. CASE pass = "base"
      BY <3>2 DEF NextPass, IInv
    <3>3. CASE ~(pass = "constructor" /\ class # Pck) /\ pass # "base"
      BY <1>4, <3>3 DEF NextPass
    <3>. QED BY <3>1, <3>2, <3>3
  <2>6. NextPass = "none" => IsOfProfile(certificate, class)
    <3>. SUFFICES ASSUME NextPass = "none" PROVE IsOfProfile(certificate, class)
      OBVIOUS
    <3>1. Len(SgxExtensions) \in Counts(class)
      BY <1>4, <1>5, <2>5, Wants
    <3>2. IsListOf(SgxExtensions, RequiredBy(class), HasType)
      <4>1. IsListOf(SgxExtensions, RequiredOf(Pck), HasType)
        BY <2>4 DEF PckPassInv
      <4>2. CASE class = Pck
        <5>1. RequiredBy(class) = RequiredOf(Pck)
          BY <1>4, <4>2, Wants DEF Pck, Platform
        <5>. QED BY <4>1, <5>1
      <4>3. CASE class # Pck
        <5>1. Reader = class /\ class = Platform
          BY <1>4, <1>5, <2>5, <4>3 DEF Classes
        <5>2. RequiredBy(class) = RequiredOf(Pck) \union RequiredOf(Platform)
          BY <1>4, <5>1, Wants
        <5>3. /\ \A k \in DOMAIN SgxExtensions :
                   SgxExtensions[k].oid \in RequiredOf(Platform)
                     => HasType(SgxExtensions[k].oid, SgxExtensions[k].value)
              /\ RequiredOf(Platform) \subseteq OidsOf(SgxExtensions)
          BY <1>6, <1>8, <5>1 DEF Fits
        <5>. QED BY <4>1, <5>2, <5>3 DEF IsListOf
      <4>. QED BY <4>2, <4>3
    <3>. QED BY <1>4, <1>5, <3>1, <3>2 DEF IsOfProfile, HasExtensions, SgxExtensions
  <2>7. AreMembers(members)'
    <3>1. AreMembers(top.found)
      BY <1>5 DEF ListInv
    <3>. QED BY <2>1, <3>1
  <2>8. TypesInv'
    BY <1>4, <2>1, <2>5, <2>7 DEF TypesInv
  <2>9. TypeOK'
    <3>1. Len(lists') = 0 /\ DOMAIN lists' = {}
      BY <2>1
    <3>2. TypesInv'
      BY <2>8
    <3>. QED BY <2>1, <3>1, <3>2 DEF TypeOK, TypesInv, AreMembers, Exceptions
  <2>10. IsCertificate(certificate)' /\ PckPassInv'
    BY <1>4, <2>1, <2>4 DEF PckPassInv, HasExtensions, SgxExtensions
  <2>11. pass' # "constructor" => class # Pck
    BY <1>4, <2>1, <2>5 DEF IInv
  <2>12. pc' = "accepted" => IsOfProfile(certificate, class)'
    BY <2>1, <2>6
  <2>13. pc' \in { "accepted", "extensions" }
    BY <2>1
  <2>. QED BY <1>4, <2>1, <2>8, <2>9, <2>10, <2>11, <2>12, <2>13 DEF IInv
<1>. QED BY <1>7, <1>8

\* Every step keeps the invariant, and so does no step.
LEMMA NextInv ==
    ASSUME IInv, Next
    PROVE  IInv'
BY ReadCertificateInv, OpenExtensionsInv, RefuseEntryInv, SkipUnknownInv, ReadValueInv,
   OpenNestedInv, CloseNestedInv, CloseExtensionsInv DEF Next

LEMMA StutterInv ==
    ASSUME IInv, UNCHANGED vars
    PROVE  IInv'
<1>1. /\ class' = class /\ certificate' = certificate /\ pc' = pc /\ exception' = exception
      /\ pass' = pass /\ lists' = lists /\ members' = members
  BY DEF vars
<1>2. TypesInv'
  BY <1>1 DEF IInv, TypesInv, AreMembers
<1>3. TypeOK'
  BY <1>1 DEF IInv, TypeOK
<1>4. pass # "constructor" => (class # Pck)' /\ PckPassInv'
  BY <1>1 DEF IInv, PckPassInv, HasExtensions, SgxExtensions
<1>5. pc = "entries" => ListsInv'
  BY <1>1 DEF IInv, ListsInv, OuterInv, InnerInv, HasExtensions, SgxExtensions, Reader
<1>6. /\ pc \notin { "certificate", "refused" } => IsCertificate(certificate)'
      /\ pc = "accepted" => IsOfProfile(certificate, class)'
      /\ pc = "refused" => Justified(exception)'
  BY <1>1 DEF IInv, Justified
<1>. QED BY <1>1, <1>2, <1>3, <1>4, <1>5, <1>6 DEF IInv

LEMMA IInvHolds == Spec => []IInv
<1>1. IInv /\ [Next]_vars => IInv'
  BY NextInv, StutterInv
<1>. QED BY <1>1, InitInv, PTL DEF Spec

\* What the constructors hold, at each point, has its type: a component of a TCB is a byte
\* and a list lies at most in one other (Tcb.cpp, Configuration.cpp).
THEOREM TypeCorrect == Spec => []TypeOK
<1>1. IInv => TypeOK
  BY DEF IInv
<1>. QED BY <1>1, IInvHolds, PTL

\* The constructors accept a certificate of their class and nothing else, whatever the
\* order of its extensions, how often one is repeated and how many components a TCB has
\* (PckCertificate.cpp, ProcessorPckCertificate.cpp, PlatformPckCertificate.cpp).
THEOREM AcceptsTheProfileHolds == Spec => []AcceptsTheProfile
<1>1. IInv => AcceptsTheProfile
  BY DEF IInv, AcceptsTheProfile, Justified
<1>. QED BY <1>1, IInvHolds, PTL

\* What is called malformed has a type that it should not have and what is said to lack
\* extensions does lack some (CertificateChain.cpp:113-122 tells the two apart).
THEOREM ExceptionTellsTheCauseHolds == Spec => []ExceptionTellsTheCause
<1>1. None # Format /\ None # Extension
  BY DEF None, Format, Extension
<1>2. IInv => ExceptionTellsTheCause
  BY <1>1 DEF IInv, ExceptionTellsTheCause, Justified
<1>. QED BY <1>2, IInvHolds, PTL

(***************************************************************************)
(* What was found: the last entry of each name, up to where a list is read. *)
(***************************************************************************)
IsLast(entries, length, k) == \A l \in k + 1 .. length : entries[l].oid # entries[k].oid

HasValues(reader, entries, length, found) ==
    \A k \in 1 .. length :
      entries[k].oid \in Simple(reader) /\ IsLast(entries, length, k) =>
        /\ entries[k].oid \in DOMAIN found
        /\ found[entries[k].oid] = Converted(entries[k].oid, entries[k].value)

HasNested(reader, entries, length, found) ==
    \A k \in 1 .. length :
      entries[k].oid \in RequiredOf(reader) \intersect Nested /\ IsLast(entries, length, k) =>
        LET nested == NestedReader(entries[k].oid)
            list   == entries[k].value.entries
        IN  RequiredOf(nested) \subseteq DOMAIN found /\ HasValues(nested, list, Len(list), found)

\* What was found says what the entries up to that length say.
Tells(reader, entries, length, found) ==
    HasValues(reader, entries, length, found) /\ HasNested(reader, entries, length, found)

\* The members that an entry with this name is for, and those that a list is for.
MembersBy(oid) == IF oid \in Nested THEN RequiredOf(NestedReader(oid)) ELSE { oid }
MembersOf(reader) == UNION { MembersBy(oid) : oid \in RequiredOf(reader) }

\* Platform's list begins with what its base class found in it.
OuterData(outer) ==
    /\ Tells(outer.reader, outer.entries, outer.position - 1, outer.found)
    /\ outer.reader = Platform => Tells(Pck, outer.entries, Len(outer.entries), outer.found)
    /\ DOMAIN outer.found \subseteq
         MembersOf(Pck) \union (IF outer.reader = Platform THEN MembersOf(Platform) ELSE {})

InnerData(inner) ==
    /\ Tells(inner.reader, inner.entries, inner.position - 1, inner.found)
    /\ DOMAIN inner.found \subseteq MembersOf(inner.reader)

ListsData ==
    \/ lists = << lists[1] >> /\ OuterData(lists[1])
    \/ lists = << lists[1], lists[2] >> /\ OuterData(lists[2]) /\ InnerData(lists[1])

MembersData ==
    /\ pass # "constructor" \/ pc = "accepted" =>
         Tells(Pck, SgxExtensions, Len(SgxExtensions), members)
    /\ pc = "accepted" /\ class = Platform =>
         Tells(Platform, SgxExtensions, Len(SgxExtensions), members)
    /\ DOMAIN members \subseteq
         MembersOf(Pck)
           \union (IF class = Platform /\ pc = "accepted" THEN MembersOf(Platform) ELSE {})

DataInv == MembersData /\ (pc = "entries" => ListsData)

(***************************************************************************)
(* Lemmas about what was found.                                            *)
(***************************************************************************)

\* The members of different entries of a list are different ones.
LEMMA MembersDiffer ==
    /\ \A reader \in Readers : \A a, b \in RequiredOf(reader) :
         a # b => MembersBy(a) \intersect MembersBy(b) = {}
    /\ \A a \in RequiredOf(Pck), b \in RequiredOf(Platform) :
         MembersBy(a) \intersect MembersBy(b) = {}
    /\ MembersOf("Tcb") = RequiredOf("Tcb")
    /\ MembersOf("Configuration") = RequiredOf("Configuration")
<1>1. ASSUME NEW a \in RequiredOf(Pck) \union RequiredOf(Platform),
             NEW b \in RequiredOf(Pck) \union RequiredOf(Platform), a # b
      PROVE  MembersBy(a) \intersect MembersBy(b) = {}
  <2>1. /\ a \in Nested => a = TCB \/ a = CONFIGURATION
        /\ b \in Nested => b = TCB \/ b = CONFIGURATION
    BY DEF Nested
  <2>2. NestedReader(TCB) = "Tcb" /\ NestedReader(CONFIGURATION) = "Configuration"
    BY NamesDiffer DEF NestedReader
  <2>3. RequiredOf("Tcb") \intersect RequiredOf("Configuration") = {}
    BY NamesDiffer
  <2>4. \A oid \in RequiredOf("Tcb") \union RequiredOf("Configuration") : oid # a /\ oid # b
    BY NamesDiffer
  <2>. QED BY <1>1, <2>1, <2>2, <2>3, <2>4 DEF MembersBy
<1>2. ASSUME NEW oid \in RequiredOf("Tcb") \union RequiredOf("Configuration")
      PROVE  MembersBy(oid) = { oid }
  BY NamesDiffer DEF MembersBy
<1>3. RequiredOf(Pck) \intersect RequiredOf(Platform) = {} /\ RequiredOf(Processor) = {}
  BY NamesDiffer, Required
<1>. QED BY <1>1, <1>2, <1>3 DEF Readers, MembersOf

\* Of the entries with a name one is the last.
LEMMA LastExists ==
    ASSUME NEW entries, NEW length \in Nat, NEW k \in 1 .. length
    PROVE  \E j \in 1 .. length : entries[j].oid = entries[k].oid /\ IsLast(entries, length, j)
<1> DEFINE S == { i \in Nat : i < length /\ entries[length - i].oid = entries[k].oid }
<1>1. S \in SUBSET Nat /\ length - k \in S
  <2>1. length - k \in Nat /\ length - k < length /\ length - (length - k) = k
    OBVIOUS
  <2>. QED BY <2>1
<1>2. PICK i \in S : \A j \in S : i <= j
  BY <1>1, LeastNumber
<1>3. length - i \in 1 .. length /\ entries[length - i].oid = entries[k].oid
  BY <1>2
<1>4. ASSUME NEW l \in length - i + 1 .. length, entries[l].oid = entries[length - i].oid
      PROVE  FALSE
  <2>1. length - l \in Nat /\ length - l < length /\ length - (length - l) = l /\ length - l < i
    BY <1>2
  <2>2. length - l \in S
    BY <1>3, <1>4, <2>1
  <2>. QED BY <1>2, <2>1, <2>2
<1>. QED BY <1>3, <1>4 DEF IsLast

\* What is written elsewhere leaves what was found as it is.
LEMMA FoundStays ==
    ASSUME NEW reader, NEW entries, NEW length, NEW old, NEW new,
           Tells(reader, entries, length, old),
           \A oid \in RequiredOf(reader) : \A x \in MembersBy(oid) :
             x \in DOMAIN old => x \in DOMAIN new /\ new[x] = old[x]
    PROVE  Tells(reader, entries, length, new)
<1>1. HasValues(reader, entries, length, new)
  BY DEF Tells, HasValues, MembersBy, Simple
<1>2. ASSUME NEW k \in 1 .. length,
             entries[k].oid \in RequiredOf(reader) \intersect Nested, IsLast(entries, length, k)
      PROVE  LET nested == NestedReader(entries[k].oid)
                 list   == entries[k].value.entries
             IN  /\ RequiredOf(nested) \subseteq DOMAIN new
                 /\ HasValues(nested, list, Len(list), new)
  <2> DEFINE nested == NestedReader(entries[k].oid)
             list   == entries[k].value.entries
  <2>1. RequiredOf(nested) \subseteq DOMAIN old /\ HasValues(nested, list, Len(list), old)
    BY <1>2 DEF Tells, HasNested
  <2>2. \A x \in RequiredOf(nested) : x \in DOMAIN old => x \in DOMAIN new /\ new[x] = old[x]
    BY <1>2 DEF MembersBy
  <2>. HIDE DEF nested, list
  <2>3. RequiredOf(nested) \subseteq DOMAIN new /\ HasValues(nested, list, Len(list), new)
    BY <2>1, <2>2 DEF HasValues, Simple
  <2>. QED BY <2>3 DEF nested, list
<1>. QED BY <1>1, <1>2 DEF Tells, HasNested

\* What an entry says of the object.
EntryTells(reader, entry, found) ==
    /\ entry.oid \in Simple(reader) =>
         entry.oid \in DOMAIN found /\ found[entry.oid] = Converted(entry.oid, entry.value)
    /\ entry.oid \in RequiredOf(reader) \intersect Nested =>
         LET nested == NestedReader(entry.oid)
             list   == entry.value.entries
         IN  RequiredOf(nested) \subseteq DOMAIN found /\ HasValues(nested, list, Len(list), found)

\* One more entry is told, and what it writes is its own.
LEMMA OneMoreIsTold ==
    ASSUME NEW reader, NEW entries, NEW p \in Nat \ {0}, NEW old, NEW new,
           Tells(reader, entries, p - 1, old),
           EntryTells(reader, entries[p], new),
           \A oid \in RequiredOf(reader) : oid # entries[p].oid => \A x \in MembersBy(oid) :
             x \in DOMAIN old => x \in DOMAIN new /\ new[x] = old[x]
    PROVE  Tells(reader, entries, p, new)
<1>1. \A k \in 1 .. p : k = p \/ k \in 1 .. p - 1
  OBVIOUS
<1>2. ASSUME NEW k \in 1 .. p - 1, IsLast(entries, p, k)
      PROVE  IsLast(entries, p - 1, k) /\ entries[k].oid # entries[p].oid
  <2>1. p \in k + 1 .. p /\ \A l \in k + 1 .. p - 1 : l \in k + 1 .. p
    OBVIOUS
  <2>. QED BY <1>2, <2>1 DEF IsLast
<1>3. ASSUME NEW k \in 1 .. p, entries[k].oid \in Simple(reader), IsLast(entries, p, k)
      PROVE  /\ entries[k].oid \in DOMAIN new
             /\ new[entries[k].oid] = Converted(entries[k].oid, entries[k].value)
  <2>1. CASE k = p
    BY <1>3, <2>1 DEF EntryTells
  <2>2. CASE k \in 1 .. p - 1
    <3>1. IsLast(entries, p - 1, k) /\ entries[k].oid # entries[p].oid
      BY <1>2, <1>3, <2>2
    <3>2. /\ entries[k].oid \in DOMAIN old
          /\ old[entries[k].oid] = Converted(entries[k].oid, entries[k].value)
      BY <1>3, <2>2, <3>1 DEF Tells, HasValues
    <3>3. entries[k].oid \in RequiredOf(reader) /\ entries[k].oid \in MembersBy(entries[k].oid)
      BY <1>3 DEF Simple, MembersBy
    <3>. QED BY <3>1, <3>2, <3>3
  <2>. QED BY <1>1, <2>1, <2>2
<1>4. ASSUME NEW k \in 1 .. p,
             entries[k].oid \in RequiredOf(reader) \intersect Nested, IsLast(entries, p, k)
      PROVE  LET nested == NestedReader(entries[k].oid)
                 list   == entries[k].value.entries
             IN  /\ RequiredOf(nested) \subseteq DOMAIN new
                 /\ HasValues(nested, list, Len(list), new)
  <2>1. CASE k = p
    BY <1>4, <2>1 DEF EntryTells
  <2>2. CASE k \in 1 .. p - 1
    <3> DEFINE nested == NestedReader(entries[k].oid)
               list   == entries[k].value.entries
    <3>1. IsLast(entries, p - 1, k) /\ entries[k].oid # entries[p].oid
      BY <1>2, <1>4, <2>2
    <3>2. RequiredOf(nested) \subseteq DOMAIN old /\ HasValues(nested, list, Len(list), old)
      BY <1>4, <2>2, <3>1 DEF Tells, HasNested
    <3>3. \A x \in RequiredOf(nested) : x \in DOMAIN old => x \in DOMAIN new /\ new[x] = old[x]
      BY <1>4, <3>1 DEF MembersBy
    <3>. HIDE DEF nested, list
    <3>4. RequiredOf(nested) \subseteq DOMAIN new /\ HasValues(nested, list, Len(list), new)
      BY <3>2, <3>3 DEF HasValues, Simple
    <3>. QED BY <3>4 DEF nested, list
  <2>. QED BY <1>1, <2>1, <2>2
<1>. QED BY <1>3, <1>4 DEF Tells, HasValues, HasNested

\* What an entry leaves as it is.
Writes(reader, entry, old, new) ==
    IF entry.oid \in RequiredOf(reader)
    THEN /\ DOMAIN new = DOMAIN old \union MembersBy(entry.oid)
         /\ \A x \in DOMAIN old \ MembersBy(entry.oid) : new[x] = old[x]
    ELSE new = old

\* An entry leaves the members of all other names alone, and Platform's those of its base.
LEMMA EntryWrites ==
    ASSUME NEW reader \in Readers, NEW entry, NEW old, NEW new, Writes(reader, entry, old, new)
    PROVE  /\ \A oid \in RequiredOf(reader) : oid # entry.oid => \A x \in MembersBy(oid) :
                x \in DOMAIN old => x \in DOMAIN new /\ new[x] = old[x]
           /\ reader = Platform => \A oid \in RequiredOf(Pck) : \A x \in MembersBy(oid) :
                x \in DOMAIN old => x \in DOMAIN new /\ new[x] = old[x]
           /\ DOMAIN new \subseteq DOMAIN old \union MembersOf(reader)
<1>1. CASE entry.oid \in RequiredOf(reader)
  <2>1. \A oid \in RequiredOf(reader) : oid # entry.oid
          => MembersBy(oid) \intersect MembersBy(entry.oid) = {}
    BY <1>1, MembersDiffer
  <2>2. reader = Platform => \A oid \in RequiredOf(Pck) :
          MembersBy(oid) \intersect MembersBy(entry.oid) = {}
    BY <1>1, MembersDiffer
  <2>3. MembersBy(entry.oid) \subseteq MembersOf(reader)
    BY <1>1 DEF MembersOf
  <2>4. /\ DOMAIN new = DOMAIN old \union MembersBy(entry.oid)
        /\ \A x \in DOMAIN old \ MembersBy(entry.oid) : new[x] = old[x]
    BY <1>1 DEF Writes
  <2>. QED BY <2>1, <2>2, <2>3, <2>4
<1>2. CASE entry.oid \notin RequiredOf(reader)
  BY <1>2 DEF Writes
<1>. QED BY <1>1, <1>2

LEMMA OuterDataAdvances ==
    ASSUME NEW list, OuterData(list),
           list.reader \in { Pck, Platform }, list.position \in Nat \ {0},
           NEW new, new.reader = list.reader, new.entries = list.entries,
           new.position = list.position + 1,
           EntryTells(list.reader, list.entries[list.position], new.found),
           Writes(list.reader, list.entries[list.position], list.found, new.found)
    PROVE  OuterData(new)
<1> DEFINE p     == list.position
           entry == list.entries[p]
<1>1. /\ \A oid \in RequiredOf(list.reader) : oid # entry.oid => \A x \in MembersBy(oid) :
           x \in DOMAIN list.found => x \in DOMAIN new.found /\ new.found[x] = list.found[x]
      /\ list.reader = Platform => \A oid \in RequiredOf(Pck) : \A x \in MembersBy(oid) :
           x \in DOMAIN list.found => x \in DOMAIN new.found /\ new.found[x] = list.found[x]
      /\ DOMAIN new.found \subseteq DOMAIN list.found \union MembersOf(list.reader)
  BY EntryWrites DEF Readers
<1>2. Tells(list.reader, list.entries, p - 1, list.found)
  BY DEF OuterData
<1>3. Tells(list.reader, list.entries, p, new.found)
  BY <1>1, <1>2, OneMoreIsTold
<1>4. list.reader = Platform => Tells(Pck, list.entries, Len(list.entries), new.found)
  BY <1>1, FoundStays DEF OuterData
<1>5. new.position - 1 = p
  OBVIOUS
<1>. HIDE DEF p
<1>6. DOMAIN new.found \subseteq
        MembersOf(Pck) \union (IF new.reader = Platform THEN MembersOf(Platform) ELSE {})
  BY <1>1 DEF OuterData
<1>. QED BY <1>3, <1>4, <1>5, <1>6 DEF OuterData

LEMMA InnerDataAdvances ==
    ASSUME NEW list, InnerData(list), list.reader \in Readers, list.position \in Nat \ {0},
           NEW new, new.reader = list.reader, new.entries = list.entries,
           new.position = list.position + 1,
           EntryTells(list.reader, list.entries[list.position], new.found),
           Writes(list.reader, list.entries[list.position], list.found, new.found)
    PROVE  InnerData(new)
<1> DEFINE p == list.position
<1>1. /\ \A oid \in RequiredOf(list.reader) :
           oid # list.entries[p].oid => \A x \in MembersBy(oid) :
             x \in DOMAIN list.found => x \in DOMAIN new.found /\ new.found[x] = list.found[x]
      /\ DOMAIN new.found \subseteq DOMAIN list.found \union MembersOf(list.reader)
  BY EntryWrites
<1>2. Tells(list.reader, list.entries, p - 1, list.found)
  BY DEF InnerData
<1>3. Tells(list.reader, list.entries, p, new.found)
  BY <1>1, <1>2, OneMoreIsTold
<1>4. new.position - 1 = p
  OBVIOUS
<1>. HIDE DEF p
<1>. QED BY <1>1, <1>3, <1>4 DEF InnerData

\* Members that do not change say the same.
LEMMA MembersStay ==
    ASSUME DataInv, pc # "accepted", pc' # "accepted",
           UNCHANGED <<class, certificate, pass, members>>
    PROVE  MembersData'
BY DEF DataInv, MembersData, SgxExtensions

LEMMA OneDataFollows ==
    ASSUME NEW outer, OuterData(outer), lists' = << outer >>
    PROVE  ListsData'
BY DEF ListsData

LEMMA TwoDataFollow ==
    ASSUME NEW outer, OuterData(outer), NEW inner, InnerData(inner), lists' = << inner, outer >>
    PROVE  ListsData'
BY DEF ListsData

\* A step that reads one more entry of the top list, and keeps what it says.
LEMMA TopDataAdvances ==
    ASSUME IInv, DataInv, pc = "entries", ~AtEnd,
           UNCHANGED <<class, certificate, pc, exception, pass, members>>,
           NEW new, lists' = << new >> \o Tail(lists),
           new.reader = Top.reader, new.entries = Top.entries,
           new.position = Top.position + 1,
           EntryTells(Top.reader, Entry, new.found),
           Writes(Top.reader, Entry, Top.found, new.found)
    PROVE  DataInv'
<1>1. /\ Top.position \in Nat \ {0} /\ Entry = Top.entries[Top.position]
      /\ Top.reader \in Readers /\ ListsData
  <2>1. Top.position \in DOMAIN Top.entries /\ AreEntries(Top.entries)
    BY EntryIs, TopIs DEF ListInv
  <2>. QED BY <2>1, EntryIs, EntriesAre, TopIs DEF DataInv
<1>2. MembersData'
  BY MembersStay
<1>3. CASE lists = << Top >> /\ Len(lists) = 1 /\ Tail(lists) = <<>> /\ OuterInv(Top)
  <2>1. Top.reader \in { Pck, Platform }
    BY <1>3, ReaderIs DEF OuterInv, Classes
  <2>2. OuterData(Top)
    BY <1>1, <1>3 DEF ListsData
  <2>3. OuterData(new)
    BY <1>1, <2>1, <2>2, OuterDataAdvances
  <2>4. lists' = << new >>
    BY <1>3, ShortLists, Zenon
  <2>. QED BY <1>2, <2>3, <2>4, OneDataFollows DEF DataInv
<1>4. CASE /\ lists = << Top, lists[2] >> /\ Len(lists) = 2 /\ Tail(lists) = << lists[2] >>
           /\ OuterInv(lists[2]) /\ InnerInv(Top, lists[2])
  <2> DEFINE outer == lists[2]
  <2>1. OuterData(outer) /\ InnerData(Top)
    BY <1>1, <1>4 DEF ListsData
  <2>2. InnerData(new)
    BY <1>1, <2>1, InnerDataAdvances
  <2>3. lists' = << new >> \o << outer >>
    BY <1>4
  <2>. HIDE DEF outer
  <2>4. lists' = << new, outer >>
    BY <2>3, ShortLists
  <2>. QED BY <1>2, <2>1, <2>2, <2>4, TwoDataFollow DEF DataInv
<1>. QED BY <1>3, <1>4, TopIs

\* A step that throws.
LEMMA ThrowData ==
    ASSUME DataInv, pc # "accepted", NEW failure, Throw(failure)
    PROVE  DataInv'
BY MembersStay DEF Throw, DataInv

LEMMA InitData == Init => DataInv
<1>. SUFFICES ASSUME Init PROVE DataInv
  OBVIOUS
<1>1. /\ pass = "constructor" /\ members = Empty /\ pc \in { "certificate", "extensions" }
  BY DEF Init, Start, FromCertificate
<1>2. DOMAIN members = {}
  BY <1>1 DEF Empty
<1>. QED BY <1>1, <1>2 DEF DataInv, MembersData

\* With no entry read, all that was read is told.
LEMMA NothingIsTold ==
    ASSUME NEW reader, NEW entries, NEW found
    PROVE  Tells(reader, entries, 0, found)
BY DEF Tells, HasValues, HasNested

LEMMA OpenExtensionsData ==
    ASSUME IInv, DataInv, OpenExtensions
    PROVE  DataInv'
<1> DEFINE failure == FirstFailure(
                        (IF pass = "own" THEN <<>> ELSE SgxExtensionsChecks)
                          \o CountChecks(Reader, Len(SgxExtensions)))
           list    == List(Reader, SgxExtensions, members)
<1>1. pc = "extensions" /\ MembersData
  BY DEF OpenExtensions, DataInv
<1>2. IF failure # None THEN Throw(failure)
      ELSE /\ IF Reader = Processor
              THEN pc' = "accepted" /\ UNCHANGED lists
              ELSE pc' = "entries" /\ lists' = << list >>
           /\ UNCHANGED <<class, certificate, exception, pass, members>>
  BY DEF OpenExtensions
<1>3. /\ Reader \in Classes
      /\ pass = "own" => Reader = class /\ class # Pck
      /\ pass # "own" => Reader = Pck
  BY ReaderIs
<1>. HIDE DEF failure
<1>4. CASE failure # None
  BY <1>1, <1>2, <1>4, ThrowData
<1>5. CASE failure = None /\ Reader = Processor
  <2>1. pass = "own" /\ class = Processor
    BY <1>3, <1>5 DEF Pck, Processor
  <2>2. /\ pc' = "accepted" /\ class' = class /\ certificate' = certificate
        /\ pass' = pass /\ members' = members
    BY <1>2, <1>5
  <2>3. class # Platform
    BY <2>1 DEF Processor, Platform
  <2>4. /\ Tells(Pck, SgxExtensions, Len(SgxExtensions), members)
        /\ DOMAIN members \subseteq MembersOf(Pck)
    BY <1>1, <2>1, <2>3 DEF MembersData
  <2>. QED BY <2>2, <2>3, <2>4 DEF DataInv, MembersData, SgxExtensions
<1>6. CASE failure = None /\ Reader # Processor
  <2>1. /\ pc' = "entries" /\ lists' = << list >>
        /\ UNCHANGED <<class, certificate, pass, members>>
    BY <1>2, <1>6
  <2>2. MembersData'
    BY <1>1, <2>1, MembersStay
  <2>3. /\ list.reader = Reader /\ list.entries = SgxExtensions /\ list.position = 1
        /\ list.found = members
    BY DEF List
  <2>. HIDE DEF list
  <2>4. Reader = Platform => pass = "own"
    BY <1>3 DEF Pck, Platform
  <2>5. OuterData(list)
    <3>1. Tells(list.reader, list.entries, list.position - 1, list.found)
      BY <2>3, NothingIsTold
    <3>2. list.reader = Platform => Tells(Pck, list.entries, Len(list.entries), list.found)
      BY <1>1, <2>3, <2>4 DEF MembersData
    <3>3. DOMAIN list.found \subseteq MembersOf(Pck)
      BY <1>1, <2>3 DEF MembersData
    <3>. QED BY <3>1, <3>2, <3>3 DEF OuterData
  <2>. QED BY <2>1, <2>2, <2>5, OneDataFollows DEF DataInv
<1>. QED BY <1>4, <1>5, <1>6

LEMMA SkipUnknownData ==
    ASSUME IInv, DataInv, SkipUnknown
    PROVE  DataInv'
<1> DEFINE new == [ Top EXCEPT !.position = @ + 1 ]
<1>1. /\ pc = "entries" /\ ~AtEnd
      /\ Entry.oid \notin RequiredOf(Top.reader)
      /\ lists' = << new >> \o Tail(lists)
      /\ UNCHANGED <<class, certificate, pc, exception, pass, members>>
  BY NamedIsEntry DEF SkipUnknown
<1>2. /\ new.reader = Top.reader /\ new.entries = Top.entries
      /\ new.position = Top.position + 1 /\ new.found = Top.found
  BY <1>1, TopIs DEF ListInv
<1>. HIDE DEF new
<1>3. EntryTells(Top.reader, Entry, new.found)
  BY <1>1 DEF EntryTells, Simple
<1>4. Writes(Top.reader, Entry, Top.found, new.found)
  BY <1>1, <1>2 DEF Writes
<1>. QED BY <1>1, <1>2, <1>3, <1>4, TopDataAdvances

\* What an entry was found to be, put over what was there.
LEMMA OverWrites ==
    ASSUME NEW reader, NEW entry, entry.oid \in RequiredOf(reader),
           NEW later, DOMAIN later = MembersBy(entry.oid), NEW earlier,
           NEW all, all = Over(later, earlier)
    PROVE  /\ Writes(reader, entry, earlier, all)
           /\ DOMAIN later \subseteq DOMAIN all
           /\ \A x \in DOMAIN later : all[x] = later[x]
BY DEF Over, Writes

LEMMA ReadValueData ==
    ASSUME IInv, DataInv, ReadValue
    PROVE  DataInv'
<1> DEFINE oid    == Entry.oid
           value  == Converted(oid, Entry.value)
           single == [ x \in { oid } |-> value ]
           new    == With(Top, oid, single)
<1>1. /\ pc = "entries" /\ ~AtEnd
      /\ oid \in RequiredOf(Top.reader) \ Nested
      /\ IF HasSimpleType(oid, Entry.value)
         THEN /\ lists' = << new >> \o Tail(lists)
              /\ UNCHANGED <<class, certificate, pc, exception, pass, members>>
         ELSE Throw(Format)
  BY NamedIsEntry DEF ReadValue, Stored
<1>2. CASE ~HasSimpleType(oid, Entry.value)
  BY <1>1, <1>2, ThrowData
<1>3. CASE HasSimpleType(oid, Entry.value)
  <2>1. /\ new.reader = Top.reader /\ new.entries = Top.entries
        /\ new.position = Top.position + 1 /\ new.found = Over(single, Top.found)
    <3> DEFINE top == Top
    <3>1. /\ top = [ reader |-> top.reader, entries |-> top.entries,
                     position |-> top.position, expected |-> top.expected,
                     found |-> top.found ]
          /\ new = With(top, oid, single)
      BY <1>1, TopIs DEF ListInv
    <3>. HIDE DEF top, oid, single, new
    <3>2. /\ new.reader = top.reader /\ new.entries = top.entries
          /\ new.position = top.position + 1 /\ new.found = Over(single, top.found)
      BY <3>1, WithIs
    <3>. QED BY <3>2 DEF top
  <2>2. DOMAIN single = { oid } /\ single[oid] = value
    OBVIOUS
  <2>3. MembersBy(oid) = { oid }
    BY <1>1 DEF MembersBy
  <2>4. /\ lists' = << new >> \o Tail(lists)
        /\ UNCHANGED <<class, certificate, pc, exception, pass, members>>
    BY <1>1, <1>3
  <2>. HIDE DEF new, single
  <2>5. /\ Writes(Top.reader, Entry, Top.found, new.found)
        /\ oid \in DOMAIN new.found /\ new.found[oid] = value
    <3> DEFINE entry == Entry
               reader == Top.reader
               earlier == Top.found
               all == new.found
    <3>1. /\ entry.oid = oid /\ oid \in RequiredOf(reader)
          /\ DOMAIN single = MembersBy(entry.oid)
          /\ all = Over(single, earlier)
      BY <1>1, <2>1, <2>2, <2>3
    <3>. HIDE DEF entry, reader, earlier, all, oid, value
    <3>2. /\ Writes(reader, entry, earlier, all)
          /\ DOMAIN single \subseteq DOMAIN all
          /\ \A x \in DOMAIN single : all[x] = single[x]
      BY <3>1, OverWrites
    <3>3. oid \in DOMAIN all /\ all[oid] = value
      BY <2>2, <3>2
    <3>. QED BY <3>2, <3>3 DEF entry, reader, earlier, all
  <2>6. EntryTells(Top.reader, Entry, new.found)
    BY <1>1, <2>5 DEF EntryTells
  <2>. QED BY <1>1, <2>1, <2>4, <2>5, <2>6, TopDataAdvances
<1>. QED BY <1>2, <1>3

\* In a TCB or a configuration nothing is nested.
LEMMA NestedIsSimple ==
    ASSUME NEW oid
    PROVE  /\ NestedReader(oid) \in { "Tcb", "Configuration" }
           /\ Simple(NestedReader(oid)) = RequiredOf(NestedReader(oid))
           /\ MembersOf(NestedReader(oid)) = RequiredOf(NestedReader(oid))
<1>1. NestedReader(oid) \in { "Tcb", "Configuration" }
  BY DEF NestedReader
<1>. QED BY <1>1, NamesDiffer, MembersDiffer DEF Simple

LEMMA OpenNestedData ==
    ASSUME IInv, DataInv, OpenNested
    PROVE  DataInv'
<1> DEFINE reader  == NestedReader(Entry.oid)
           failure == FirstFailure(
                        Check(Entry.value.type = "sequence", Format)
                          \o CountChecks(reader, Len(Entry.value.entries)))
           inner   == List(reader, Entry.value.entries, Empty)
           outer   == Top
<1>1. /\ pc = "entries" /\ ~AtEnd
      /\ Entry.oid \in RequiredOf(Top.reader) \intersect Nested
      /\ IF failure # None THEN Throw(failure)
         ELSE /\ lists' = << inner >> \o lists
              /\ UNCHANGED <<class, certificate, pc, exception, pass, members>>
  BY NamedIsEntry DEF OpenNested
<1>. HIDE DEF failure
<1>2. CASE failure # None
  BY <1>1, <1>2, ThrowData
<1>3. CASE failure = None
  <2>1. lists = << outer >>
    <3>1. ASSUME InnerInv(Top, lists[2]) PROVE FALSE
      <4>1. Top.reader \in { "Tcb", "Configuration" }
        BY <3>1 DEF InnerInv, NestedReader
      <4>. QED BY <1>1, <4>1, NamesDiffer
    <3>. QED BY <1>1, <3>1, TopIs
  <2>2. OuterData(outer)
    <3>1. lists[1] = outer /\ Len(lists) = 1
      BY <2>1
    <3>2. lists = << lists[1], lists[2] >> => Len(lists) = 2
      BY ShortLists, Zenon
    <3>. QED BY <1>1, <3>1, <3>2 DEF DataInv, ListsData
  <2>3. inner.position = 1 /\ inner.reader = reader /\ DOMAIN inner.found = {}
    BY DEF List, Empty
  <2>4. lists' = << inner >> \o << outer >>
    BY <1>1, <1>3, <2>1
  <2>5. UNCHANGED <<class, certificate, pc, pass, members>>
    BY <1>1, <1>3
  <2>. HIDE DEF inner, outer
  <2>6. InnerData(inner)
    BY <2>3, NothingIsTold DEF InnerData
  <2>7. lists' = << inner, outer >>
    BY <2>4, ShortLists
  <2>8. ListsData'
    BY <2>2, <2>6, <2>7, TwoDataFollow
  <2>9. MembersData'
    BY <1>1, <2>5, MembersStay
  <2>. QED BY <2>8, <2>9 DEF DataInv
<1>. QED BY <1>2, <1>3

\* A TCB or a configuration that was read to its end has all its members.
LEMMA InnerIsWhole ==
    ASSUME NEW inner, ListInv(inner), inner.reader \in { "Tcb", "Configuration" },
           InnerData(inner), inner.position > Len(inner.entries), inner.expected = {}
    PROVE  /\ DOMAIN inner.found = RequiredOf(inner.reader)
           /\ HasValues(inner.reader, inner.entries, Len(inner.entries), inner.found)
<1> DEFINE n == Len(inner.entries)
<1>1. n \in Nat /\ DOMAIN inner.entries = 1 .. n /\ inner.position - 1 = n
  BY EntriesAre DEF ListInv
<1>2. HasValues(inner.reader, inner.entries, n, inner.found)
  BY <1>1 DEF InnerData, Tells
<1>3. /\ Simple(inner.reader) = RequiredOf(inner.reader)
      /\ MembersOf(inner.reader) = RequiredOf(inner.reader)
  BY NamesDiffer, MembersDiffer DEF Simple
<1>4. ASSUME NEW oid \in RequiredOf(inner.reader)
      PROVE  oid \in DOMAIN inner.found
  <2>1. PICK k \in 1 .. n : inner.entries[k].oid = oid
    BY <1>1, AtEndIs DEF OidsOf
  <2>2. PICK j \in 1 .. n :
          inner.entries[j].oid = inner.entries[k].oid /\ IsLast(inner.entries, n, j)
    BY <1>1, LastExists
  <2>. QED BY <1>2, <1>3, <2>1, <2>2 DEF HasValues
<1>5. DOMAIN inner.found \subseteq RequiredOf(inner.reader)
  BY <1>3 DEF InnerData
<1>. QED BY <1>2, <1>4, <1>5

LEMMA CloseNestedData ==
    ASSUME IInv, DataInv, CloseNested
    PROVE  DataInv'
<1> DEFINE outer == lists[2]
           inner == Top
           entry == outer.entries[outer.position]
           new   == With(outer, entry.oid, inner.found)
<1>1. pc = "entries" /\ AtEnd /\ Len(lists) = 2
  BY DEF CloseNested
<1>2. lists = << inner, outer >> /\ OuterInv(outer) /\ InnerInv(inner, outer)
  BY <1>1, TopIs
<1>3. /\ IF inner.expected # {} THEN Throw(Extension)
         ELSE /\ lists' = << new >>
              /\ UNCHANGED <<class, certificate, pc, exception, pass, members>>
      /\ inner.position > Len(inner.entries)
  BY <1>1 DEF CloseNested, AtEnd
<1>4. CASE inner.expected # {}
  BY <1>1, <1>3, <1>4, ThrowData
<1>5. CASE inner.expected = {}
  <2>1. OuterData(outer) /\ InnerData(inner)
    <3>1. lists # << lists[1] >>
      <4>1. Len(<< lists[1] >>) = 1
        OBVIOUS
      <4>. QED BY <1>1, <4>1
    <3>2. lists[1] = inner
      BY <1>2
    <3>. QED BY <1>1, <3>1, <3>2 DEF DataInv, ListsData
  <2>2. lists' = << new >> /\ UNCHANGED <<class, certificate, pc, pass, members>>
    BY <1>3, <1>5
  <2>. HIDE DEF outer, inner
  <2>3. /\ ListInv(outer) /\ ListInv(inner) /\ outer.reader \in { Pck, Platform }
        /\ entry.oid \in RequiredOf(outer.reader) \intersect Nested
        /\ inner.reader = NestedReader(entry.oid)
        /\ inner.entries = entry.value.entries
    BY <1>2, ReaderIs DEF OuterInv, InnerInv, Classes
  <2>4. inner.reader \in { "Tcb", "Configuration" }
    BY <2>3 DEF NestedReader
  <2>5. /\ DOMAIN inner.found = RequiredOf(inner.reader)
        /\ HasValues(inner.reader, inner.entries, Len(inner.entries), inner.found)
    BY <1>3, <1>5, <2>1, <2>3, <2>4, InnerIsWhole
  <2>6. /\ new.reader = outer.reader /\ new.entries = outer.entries
        /\ new.position = outer.position + 1
        /\ new.found = Over(inner.found, outer.found)
    <3>1. outer = [ reader |-> outer.reader, entries |-> outer.entries,
                    position |-> outer.position, expected |-> outer.expected,
                    found |-> outer.found ]
      BY <2>3 DEF ListInv
    <3> DEFINE oid == entry.oid
               found == inner.found
    <3>2. new = With(outer, oid, found)
      OBVIOUS
    <3>. HIDE DEF oid, found, new
    <3>3. /\ new.reader = outer.reader /\ new.entries = outer.entries
          /\ new.position = outer.position + 1
          /\ new.found = Over(found, outer.found)
      BY <3>1, <3>2, WithIs
    <3>. QED BY <3>3 DEF found
  <2>. HIDE DEF new, entry
  <2>7. MembersBy(entry.oid) = RequiredOf(inner.reader)
    BY <2>3 DEF MembersBy
  <2>8. /\ Writes(outer.reader, entry, outer.found, new.found)
        /\ DOMAIN inner.found \subseteq DOMAIN new.found
        /\ \A x \in DOMAIN inner.found : new.found[x] = inner.found[x]
    BY <2>3, <2>5, <2>6, <2>7, OverWrites
  <2>9. HasValues(inner.reader, inner.entries, Len(inner.entries), new.found)
    BY <2>5, <2>8 DEF HasValues
  <2>10. EntryTells(outer.reader, entry, new.found)
    <3>1. entry.oid \notin Simple(outer.reader)
      BY <2>3 DEF Simple
    <3>2. RequiredOf(inner.reader) \subseteq DOMAIN new.found
      BY <2>5, <2>8
    <3>. QED BY <2>3, <2>9, <3>1, <3>2 DEF EntryTells
  <2>11. outer.position \in Nat \ {0} /\ entry = outer.entries[outer.position]
    <3>1. AreEntries(outer.entries) /\ outer.position \in 1 .. Len(outer.entries) + 1
      BY <2>3 DEF ListInv
    <3>. QED BY <3>1, EntriesAre DEF entry
  <2>12. OuterData(new)
    BY <2>1, <2>3, <2>6, <2>8, <2>10, <2>11, OuterDataAdvances
  <2>13. MembersData'
    BY <1>1, <2>2, MembersStay
  <2>. QED BY <2>2, <2>12, <2>13, OneDataFollows DEF DataInv
<1>. QED BY <1>4, <1>5

LEMMA CloseExtensionsData ==
    ASSUME IInv, DataInv, CloseExtensions
    PROVE  DataInv'
<1> DEFINE top == Top
<1>1. pc = "entries" /\ AtEnd /\ Len(lists) = 1
  BY DEF CloseExtensions
<1>2. lists = << top >> /\ OuterInv(top)
  BY <1>1, TopIs
<1>3. /\ IF top.expected # {} THEN Throw(Extension)
         ELSE /\ members' = top.found
              /\ lists' = <<>>
              /\ IF NextPass = "none"
                 THEN pc' = "accepted" /\ UNCHANGED pass
                 ELSE pc' = "extensions" /\ pass' = NextPass
              /\ UNCHANGED <<class, certificate, exception>>
      /\ top.position > Len(top.entries)
  BY <1>1 DEF CloseExtensions, AtEnd
<1>4. OuterData(top)
  <2>1. lists[1] = top
    BY <1>2
  <2>2. Len(<< lists[1], lists[2] >>) = 2
    OBVIOUS
  <2>. QED BY <1>1, <2>1, <2>2 DEF DataInv, ListsData
<1>5. /\ class \in Classes /\ Reader \in Classes
      /\ pass = "own" => Reader = class /\ class # Pck
      /\ pass # "own" => Reader = Pck
      /\ pass \in { "constructor", "base", "own" }
  BY ReaderIs DEF IInv, TypesInv
<1>. HIDE DEF top
<1>6. CASE top.expected # {}
  BY <1>1, <1>3, <1>6, ThrowData
<1>7. CASE top.expected = {}
  <2>1. /\ members' = top.found /\ class' = class /\ certificate' = certificate
        /\ IF NextPass = "none" THEN pc' = "accepted" ELSE pc' = "extensions"
    BY <1>3, <1>7
  <2>2. /\ top.reader = Reader /\ top.entries = SgxExtensions
        /\ top.position - 1 = Len(SgxExtensions)
        /\ Reader # Processor
    BY <1>2, <1>3, EntriesAre DEF OuterInv, ListInv
  <2>3. Tells(Reader, SgxExtensions, Len(SgxExtensions), top.found)
    BY <1>4, <2>2 DEF OuterData
  <2>4. Reader = Platform => Tells(Pck, SgxExtensions, Len(SgxExtensions), top.found)
    BY <1>4, <2>2 DEF OuterData
  <2>5. Reader = Pck \/ Reader = Platform
    BY <1>5, <2>2 DEF Classes
  <2>6. Tells(Pck, SgxExtensions, Len(SgxExtensions), members)'
    BY <2>1, <2>3, <2>4, <2>5 DEF SgxExtensions
  <2>7. NextPass = "none" => class = Pck \/ pass = "own"
    BY <1>5 DEF NextPass
  <2>8. pass = "own" => NextPass = "none"
    BY DEF NextPass
  <2>9. pc' = "accepted" /\ class = Platform
          => Tells(Platform, SgxExtensions, Len(SgxExtensions), members)'
    <3>1. pc' = "accepted" /\ class = Platform => Reader = Platform
      BY <1>5, <2>1, <2>7 DEF Pck, Platform
    <3>. QED BY <2>1, <2>3, <3>1 DEF SgxExtensions
  <2>10. Reader = Platform => class = Platform /\ pc' = "accepted"
    BY <1>5, <2>1, <2>8 DEF Pck, Platform
  <2>11. DOMAIN members' \subseteq
           MembersOf(Pck)
             \union (IF class = Platform /\ pc' = "accepted" THEN MembersOf(Platform) ELSE {})
    BY <1>4, <2>1, <2>2, <2>10 DEF OuterData
  <2>. QED BY <2>1, <2>6, <2>9, <2>11 DEF DataInv, MembersData
<1>. QED BY <1>6, <1>7

LEMMA NextData ==
    ASSUME IInv, DataInv, Next
    PROVE  DataInv'
<1>1. CASE ReadCertificate
  <2> DEFINE failure == FirstFailure(CertificateChecks)
  <2>1. /\ pc = "certificate"
        /\ IF failure = None
           THEN /\ pc' = "extensions"
                /\ UNCHANGED <<class, certificate, exception, pass, lists, members>>
           ELSE Throw(failure)
    BY <1>1 DEF ReadCertificate
  <2>. HIDE DEF failure
  <2>. QED BY <2>1, ThrowData, MembersStay DEF DataInv
<1>2. CASE RefuseEntry
  BY <1>2, ThrowData DEF RefuseEntry
<1>. QED BY <1>1, <1>2, OpenExtensionsData, SkipUnknownData, ReadValueData, OpenNestedData,
         CloseNestedData, CloseExtensionsData DEF Next

LEMMA DataHolds == Spec => []DataInv
<1>1. IInv /\ DataInv /\ [Next]_vars => DataInv'
  <2>1. ASSUME DataInv, UNCHANGED vars PROVE DataInv'
    BY <2>1 DEF vars, DataInv, MembersData, ListsData, SgxExtensions
  <2>. QED BY <2>1, NextData
<1>. QED BY <1>1, InitData, IInvHolds, PTL DEF Spec

(***************************************************************************)
(* What the accessors answer.                                              *)
(***************************************************************************)

\* The last value of a name is that of the last entry with the name.
LEMMA LastIsChosen ==
    ASSUME NEW entries, AreEntries(entries), NEW k \in 1 .. Len(entries),
           IsLast(entries, Len(entries), k)
    PROVE  /\ LastValue(entries, entries[k].oid) = entries[k].value
           /\ k \in DOMAIN entries
           /\ \A j \in DOMAIN entries :
                /\ entries[j].oid = entries[k].oid
                /\ \A l \in j + 1 .. Len(entries) : entries[l].oid # entries[k].oid
                => j = k
<1> DEFINE oid     == entries[k].oid
           last(j) == entries[j].oid = oid /\ \A l \in j + 1 .. Len(entries) : entries[l].oid # oid
           chosen  == CHOOSE j \in DOMAIN entries : last(j)
<1>1. DOMAIN entries = 1 .. Len(entries) /\ Len(entries) \in Nat
  BY EntriesAre
<1>2. k \in DOMAIN entries /\ last(k)
  BY <1>1 DEF IsLast
<1>3. chosen \in DOMAIN entries /\ last(chosen)
  BY <1>2
<1>4. ASSUME NEW j \in DOMAIN entries, last(j) PROVE j = k
  <2>1. ~(j < k)
    <3>1. j < k => k \in j + 1 .. Len(entries)
      BY <1>1
    <3>. QED BY <1>2, <1>4, <3>1
  <2>2. ~(k < j)
    <3>1. k < j => j \in k + 1 .. Len(entries)
      BY <1>1
    <3>. QED BY <1>2, <1>4, <3>1
  <2>. QED BY <1>1, <2>1, <2>2
<1>5. chosen = k
  BY <1>3, <1>4
<1>6. LastValue(entries, oid) = entries[chosen].value
  BY DEF LastValue
<1>. QED BY <1>2, <1>4, <1>5, <1>6

\* Of a name in a list there is a last entry.
LEMMA LastEntry ==
    ASSUME NEW entries, AreEntries(entries), NEW oid \in OidsOf(entries)
    PROVE  \E k \in 1 .. Len(entries) :
             /\ entries[k].oid = oid /\ IsLast(entries, Len(entries), k)
             /\ LastValue(entries, oid) = entries[k].value
<1>1. Len(entries) \in Nat /\ DOMAIN entries = 1 .. Len(entries)
  BY EntriesAre
<1>2. PICK j \in 1 .. Len(entries) : entries[j].oid = oid
  BY <1>1 DEF OidsOf
<1>3. PICK k \in 1 .. Len(entries) :
        entries[k].oid = entries[j].oid /\ IsLast(entries, Len(entries), k)
  BY <1>1, LastExists
<1>. QED BY <1>2, <1>3, LastIsChosen

\* A member is what the last entry with its name says.
LEMMA ToldValue ==
    ASSUME NEW reader, NEW entries, AreEntries(entries), NEW found,
           HasValues(reader, entries, Len(entries), found),
           NEW oid \in Simple(reader), oid \in OidsOf(entries)
    PROVE  oid \in DOMAIN found /\ found[oid] = Converted(oid, LastValue(entries, oid))
BY LastEntry DEF HasValues

\* A member of what is accepted is what the certificate says.
LEMMA MemberIs ==
    ASSUME IInv, DataInv, pc = "accepted", NEW reader \in { Pck, Platform },
           reader = Platform => class = Platform
    PROVE  /\ \A oid \in Simple(reader) :
                oid \in DOMAIN members
                  /\ members[oid] = Converted(oid, LastValue(SgxExtensions, oid))
           /\ \A oid \in RequiredOf(reader) \intersect Nested :
                LET list == LastValue(SgxExtensions, oid).entries IN
                /\ \E k \in 1 .. Len(SgxExtensions) :
                     /\ SgxExtensions[k].oid = oid
                     /\ IsLast(SgxExtensions, Len(SgxExtensions), k)
                     /\ list = SgxExtensions[k].value.entries
                /\ \A x \in RequiredOf(NestedReader(oid)) :
                     x \in DOMAIN members /\ members[x] = Converted(x, LastValue(list, x))
<1>1. /\ class \in Classes /\ certificate \in Certificates
      /\ IsOfProfile(certificate, class)
  BY DEF IInv, TypesInv
<1>2. HasExtensions
  BY <1>1 DEF IsOfProfile, HasExtensions
<1>3. /\ RequiredBy(class) \subseteq OidsOf(SgxExtensions)
      /\ \A k \in DOMAIN SgxExtensions :
           SgxExtensions[k].oid \in RequiredBy(class)
             => HasType(SgxExtensions[k].oid, SgxExtensions[k].value)
  BY <1>1, <1>2, ListIsOfProfile
<1>4. RequiredOf(reader) \subseteq RequiredBy(class)
  BY <1>1, Wants
<1>5. Tells(reader, SgxExtensions, Len(SgxExtensions), members)
  BY DEF DataInv, MembersData
<1>6. /\ AreEntries(SgxExtensions)
      /\ \A k \in DOMAIN SgxExtensions :
           SgxExtensions[k].value.type = "sequence" => AreEntries(SgxExtensions[k].value.entries)
  BY <1>1, <1>2, DecodedIsList
<1>7. ASSUME NEW oid \in Simple(reader)
      PROVE  oid \in DOMAIN members
               /\ members[oid] = Converted(oid, LastValue(SgxExtensions, oid))
  <2>1. oid \in OidsOf(SgxExtensions)
    BY <1>3, <1>4 DEF Simple
  <2>. QED BY <1>5, <1>6, <2>1, ToldValue DEF Tells
<1>8. ASSUME NEW oid \in RequiredOf(reader) \intersect Nested
      PROVE  LET list == LastValue(SgxExtensions, oid).entries IN
             /\ \E k \in 1 .. Len(SgxExtensions) :
                  /\ SgxExtensions[k].oid = oid
                  /\ IsLast(SgxExtensions, Len(SgxExtensions), k)
                  /\ list = SgxExtensions[k].value.entries
             /\ \A x \in RequiredOf(NestedReader(oid)) :
                  x \in DOMAIN members /\ members[x] = Converted(x, LastValue(list, x))
  <2> DEFINE list   == LastValue(SgxExtensions, oid).entries
             nested == NestedReader(oid)
  <2>1. PICK k \in 1 .. Len(SgxExtensions) :
          /\ SgxExtensions[k].oid = oid /\ IsLast(SgxExtensions, Len(SgxExtensions), k)
          /\ LastValue(SgxExtensions, oid) = SgxExtensions[k].value
    BY <1>3, <1>4, <1>6, LastEntry
  <2>2. k \in DOMAIN SgxExtensions /\ list = SgxExtensions[k].value.entries
    BY <1>6, <2>1, EntriesAre
  <2>3. HasType(oid, SgxExtensions[k].value)
    BY <1>3, <1>4, <2>1, <2>2
  <2>4. /\ SgxExtensions[k].value.type = "sequence"
        /\ RequiredOf(nested) \subseteq OidsOf(list)
    BY <2>2, <2>3 DEF HasType, IsListOf
  <2>5. AreEntries(list)
    BY <1>6, <2>2, <2>4
  <2>6. HasValues(nested, list, Len(list), members)
    BY <1>5, <2>1, <2>2 DEF Tells, HasNested
  <2>7. Simple(nested) = RequiredOf(nested)
    BY NestedIsSimple
  <2>. HIDE DEF list, nested
  <2>8. \A x \in RequiredOf(nested) :
          x \in DOMAIN members /\ members[x] = Converted(x, LastValue(list, x))
    BY <2>4, <2>5, <2>6, <2>7, ToldValue
  <2>. QED BY <2>1, <2>2, <2>8 DEF list, nested
<1>. QED BY <1>7, <1>8

\* The members of the two lists of extensions.
LEMMA MembersAre ==
    /\ NestedReader(TCB) = "Tcb" /\ NestedReader(CONFIGURATION) = "Configuration"
    /\ MembersOf(Pck) = Simple(Pck) \union RequiredOf("Tcb")
    /\ MembersOf(Platform) = Simple(Platform) \union RequiredOf("Configuration")
<1>1. NestedReader(TCB) = "Tcb" /\ NestedReader(CONFIGURATION) = "Configuration"
  BY NamesDiffer DEF NestedReader
<1>2. /\ RequiredOf(Pck) = Simple(Pck) \union { TCB } /\ TCB \in Nested
      /\ RequiredOf(Platform) = Simple(Platform) \union { CONFIGURATION }
      /\ CONFIGURATION \in Nested
  BY NamesDiffer DEF Simple
<1>3. \A oid \in Simple(Pck) \union Simple(Platform) : MembersBy(oid) = { oid }
  BY DEF Simple, MembersBy
<1>4. MembersBy(TCB) = RequiredOf("Tcb") /\ MembersBy(CONFIGURATION) = RequiredOf("Configuration")
  BY <1>1, <1>2 DEF MembersBy
<1>. QED BY <1>1, <1>2, <1>3, <1>4 DEF MembersOf

\* What is accepted has all its members and no others.
LEMMA AllMembers ==
    ASSUME IInv, DataInv, pc = "accepted"
    PROVE  DOMAIN members =
             Simple(Pck) \union RequiredOf("Tcb")
               \union (IF class = Platform THEN Simple(Platform) \union RequiredOf("Configuration")
                       ELSE {})
<1>1. Simple(Pck) \union RequiredOf("Tcb") \subseteq DOMAIN members
  <2>1. TCB \in RequiredOf(Pck) \intersect Nested
    BY NamesDiffer
  <2>2. Pck # Platform
    BY DEF Pck, Platform
  <2>. QED BY <2>1, <2>2, MemberIs, MembersAre
<1>2. class = Platform =>
        Simple(Platform) \union RequiredOf("Configuration") \subseteq DOMAIN members
  <2>1. CONFIGURATION \in RequiredOf(Platform) \intersect Nested
    BY NamesDiffer
  <2>. QED BY <2>1, MemberIs, MembersAre
<1>. QED BY <1>1, <1>2, MembersAre DEF DataInv, MembersData

\* A member is the converted value that the certificate has for it.
LEMMA MemberIsCertified ==
    ASSUME IInv, DataInv, pc = "accepted", NEW oid \in DOMAIN members
    PROVE  members[oid] = Converted(oid, InCertificate(oid))
<1>1. ASSUME NEW reader \in { Pck, Platform }, reader = Platform => class = Platform,
             oid \in Simple(reader)
      PROVE  members[oid] = Converted(oid, InCertificate(oid))
  <2>1. Len(oid) = 1
    BY <1>1, NamesDiffer DEF Simple
  <2>2. InCertificate(oid) = LastValue(SgxExtensions, oid)
    BY <2>1 DEF InCertificate
  <2>. QED BY <1>1, <2>2, MemberIs
<1>2. CASE oid \in RequiredOf("Tcb")
  <2>1. Len(oid) # 1 /\ << oid[1] >> = TCB /\ TCB \in RequiredOf(Pck) \intersect Nested
    BY <1>2, NamesDiffer DEF TCB
  <2>2. InCertificate(oid) = LastValue(LastValue(SgxExtensions, TCB).entries, oid)
    BY <2>1, Zenon DEF InCertificate
  <2>3. Pck # Platform
    BY DEF Pck, Platform
  <2>. QED BY <1>2, <2>1, <2>2, <2>3, MemberIs, MembersAre
<1>3. CASE class = Platform /\ oid \in RequiredOf("Configuration")
  <2>1. /\ Len(oid) # 1 /\ << oid[1] >> = CONFIGURATION
        /\ CONFIGURATION \in RequiredOf(Platform) \intersect Nested
    BY <1>3, NamesDiffer DEF CONFIGURATION
  <2>2. InCertificate(oid) = LastValue(LastValue(SgxExtensions, CONFIGURATION).entries, oid)
    BY <2>1, Zenon DEF InCertificate
  <2>. QED BY <1>3, <2>1, <2>2, MemberIs, MembersAre
<1>4. Pck # Platform
  BY DEF Pck, Platform
<1>. QED BY <1>1, <1>2, <1>3, <1>4, AllMembers

\* Names of components are as different as their numbers.
LEMMA ComponentNames ==
    /\ \A i, j \in Nat : SGX_TCB_COMP_SVN(i) = SGX_TCB_COMP_SVN(j) => i = j
    /\ \A i \in Nat : SGX_TCB_COMP_SVN(i) \in SgxTcbComponents <=> i \in 1 .. COMPONENTS
    /\ PCESVN \notin SgxTcbComponents
    /\ SgxTcbComponents \subseteq RequiredOf("Tcb")
    /\ PCESVN \in RequiredOf("Tcb") /\ CPUSVN \in RequiredOf("Tcb")
    /\ \A i \in 1 .. 3 : Append(CONFIGURATION, i) \in RequiredOf("Configuration")
<1>1. \A i, j \in Nat : Append(TCB, i) = Append(TCB, j) => i = j
  <2>1. ASSUME NEW i \in Nat PROVE Append(TCB, i)[2] = i
    BY DEF TCB
  <2>. QED BY <2>1
<1>2. SgxTcbComponents = { Append(TCB, i) : i \in 1 .. COMPONENTS }
      /\ PCESVN = Append(TCB, COMPONENTS + 1)
  BY DEF SgxTcbComponents, SGX_TCB_COMP_SVN, PCESVN
<1>3. \A i \in Nat : SGX_TCB_COMP_SVN(i) \in SgxTcbComponents <=> i \in 1 .. COMPONENTS
  BY <1>1, <1>2, PckAssumption DEF SGX_TCB_COMP_SVN
<1>4. PCESVN \notin SgxTcbComponents
  BY <1>1, <1>2, PckAssumption
<1>5. /\ SgxTcbComponents \subseteq RequiredOf("Tcb")
      /\ PCESVN \in RequiredOf("Tcb") /\ CPUSVN \in RequiredOf("Tcb")
  BY Required DEF TCB_REQUIRED_SGX_EXTENSIONS
<1>6. \A i \in 1 .. 3 : Append(CONFIGURATION, i) \in RequiredOf("Configuration")
  BY Required DEF CONFIGURATION_REQUIRED_SGX_EXTENSIONS, ConfigurationFlags
<1>. QED BY <1>1, <1>3, <1>4, <1>5, <1>6 DEF SGX_TCB_COMP_SVN

\* What there is room for is not changed.
LEMMA ConvertedIs ==
    ASSUME NEW oid, NEW v
    PROVE  HasRoom(oid, v.value) => Converted(oid, v) = v.value
<1> DEFINE n == v.value
<1>1. /\ BYTE_COUNT \in Nat /\ UINT_COUNT \in Nat /\ LONG_COUNT \in Nat
      /\ 0 < BYTE_COUNT /\ BYTE_COUNT < UINT_COUNT /\ BYTE_COUNT <= LONG_COUNT \div 2
  BY PckAssumption
<1>2. IsLong(n) => AsLong(n) = n
  BY DEF AsLong
<1>. HIDE DEF n
<1>3. n \in 0 .. BYTE_COUNT - 1 => AsLong(n) % BYTE_COUNT = n
  <2>1. n \in 0 .. BYTE_COUNT - 1 => IsLong(n)
    BY <1>1 DEF IsLong
  <2>. QED BY <1>1, <1>2, <2>1
<1>4. n \in 0 .. UINT_COUNT - 1 /\ IsLong(n) => AsLong(n) % UINT_COUNT = n
  BY <1>1, <1>2
<1>5. n \in IntNumbers /\ IsLong(n) => AsInt(AsLong(n)) = n
  <2>1. IntNumbers \subseteq Int
    BY <1>1 DEF IntNumbers
  <2>. QED BY <1>2, <2>1, IntIs
<1>. QED BY <1>3, <1>4, <1>5 DEF Converted, HasRoom, n

LEMMA MembersAreCertified ==
    ASSUME IInv, DataInv
    PROVE  MembersAreTheCertificates
<1>1. pc = "accepted" =>
        DOMAIN members = Simple(Pck) \union RequiredOf("Tcb")
          \union (IF class = Platform THEN Simple(Platform) \union RequiredOf("Configuration")
                  ELSE {})
  BY AllMembers
<1>2. ASSUME pc = "accepted", NEW oid \in DOMAIN members
      PROVE  LET n == InCertificate(oid).value
             IN  /\ HasRoom(oid, n) => members[oid] = n
                 /\ oid \in SgxTcbComponents => members[oid] \in 0 .. BYTE_COUNT - 1
  <2> DEFINE v == InCertificate(oid)
  <2>1. members[oid] = Converted(oid, v)
    BY <1>2, MemberIsCertified
  <2>2. oid \in SgxTcbComponents => members[oid] \in 0 .. BYTE_COUNT - 1
    BY DEF IInv, TypesInv, AreMembers, Width
  <2>. HIDE DEF v
  <2>3. HasRoom(oid, v.value) => members[oid] = v.value
    BY <2>1, ConvertedIs
  <2>. QED BY <2>2, <2>3 DEF v
<1>3. ASSUME pc = "entries", Top.position <= Len(Top.entries), Top.reader = Platform
      PROVE  Entry.shape # "noObject"
  <2>1. OuterInv(Top)
    <3>1. InnerInv(Top, lists[2]) => Top.reader \in { "Tcb", "Configuration" }
      BY DEF InnerInv, NestedReader
    <3>. QED BY <1>3, <3>1, TopIs DEF Platform
  <2>2. Reader = Platform /\ Top.entries = SgxExtensions
    BY <1>3, <2>1 DEF OuterInv
  <2>3. pass = "own"
    BY <2>2, ReaderIs DEF Pck, Platform
  <2>4. PckPassInv
    BY <2>3 DEF IInv
  <2>5. Top.position \in DOMAIN Top.entries
    BY <1>3, <2>1, EntriesAre DEF OuterInv, ListInv
  <2>. QED BY <2>2, <2>4, <2>5 DEF PckPassInv, IsListOf, Entry
<1>. QED BY <1>1, <1>2, <1>3 DEF MembersAreTheCertificates

\* The name of the type is one number long, those in a list within the list two.
LEMMA TypeIsNoSvn ==
    /\ SGX_TYPE \notin SgxTcbComponents /\ SGX_TYPE # PCESVN
    /\ SGX_TYPE \notin RequiredOf("Configuration")
<1>1. SGX_TYPE \in RequiredOf(Pck)
  BY Required DEF PCK_REQUIRED_SGX_EXTENSIONS
<1>. QED BY <1>1, NamesDiffer, ComponentNames

\* Members have their width.
LEMMA WidthsAre ==
    ASSUME IInv, NEW oid \in DOMAIN members
    PROVE  /\ members[oid] \in Int
           /\ oid \in SgxTcbComponents => members[oid] \in 0 .. BYTE_COUNT - 1
           /\ oid = PCESVN => members[oid] \in 0 .. UINT_COUNT - 1
           /\ oid = SGX_TYPE => members[oid] \in IntNumbers
<1>1. members[oid] \in Width(oid)
  BY DEF IInv, TypesInv, AreMembers
<1>2. IntNumbers \subseteq Int
  BY PckAssumption DEF IntNumbers
<1>3. SGX_TYPE \notin SgxTcbComponents /\ SGX_TYPE # PCESVN
  BY TypeIsNoSvn
<1>4. CASE oid \in SgxTcbComponents
  BY <1>1, <1>3, <1>4, ComponentNames, PckAssumption DEF Width
<1>5. CASE oid = PCESVN
  BY <1>1, <1>3, <1>5, ComponentNames, PckAssumption DEF Width
<1>6. CASE oid = SGX_TYPE
  BY <1>1, <1>2, <1>3, <1>6 DEF Width
<1>7. CASE oid \notin SgxTcbComponents /\ oid # PCESVN /\ oid # SGX_TYPE
  BY <1>1, <1>7 DEF Width
<1>. QED BY <1>4, <1>5, <1>6, <1>7

\* What PckCertificate and Tcb answer.
LEMMA PckObjectIs ==
    ASSUME IInv, DataInv, pc = "accepted"
    PROVE  /\ PckCertificateObject \in PckCertificateClass
           /\ \A n \in -1 .. COMPONENTS :
                (PckTcbComponentSvn(TcbObject, n) # {}) <=>
                  SGX_TCB_COMP_SVN(n + 1) \in DOMAIN members \intersect SgxTcbComponents
           /\ \A n \in SgxComponentNumbers :
                LET svn == InCertificate(SGX_TCB_COMP_SVN(n + 1)).value
                IN  svn \in 0 .. BYTE_COUNT - 1 => PckTcbComponentSvn(TcbObject, n) = { svn }
<1>1. /\ Simple(Pck) \union RequiredOf("Tcb") \subseteq DOMAIN members
      /\ { PPID, PCEID, FMSPC, SGX_TYPE } \subseteq Simple(Pck)
  <2>1. { PPID, PCEID, FMSPC, SGX_TYPE } \subseteq Simple(Pck)
    BY Required DEF Simple, PCK_REQUIRED_SGX_EXTENSIONS, Nested, PPID, PCEID, FMSPC, SGX_TYPE,
         TCB, CONFIGURATION
  <2>. QED BY <2>1, AllMembers
<1>2. \A n \in SgxComponentNumbers : SGX_TCB_COMP_SVN(n + 1) \in SgxTcbComponents
  BY ComponentNames, PckAssumption DEF SgxComponentNumbers
<1>3. \A n \in SgxComponentNumbers : members[SGX_TCB_COMP_SVN(n + 1)] \in 0 .. BYTE_COUNT - 1
  BY <1>1, <1>2, WidthsAre, ComponentNames
<1>4. members[CPUSVN] \in Int /\ members[PCESVN] \in 0 .. UINT_COUNT - 1
  BY <1>1, WidthsAre, ComponentNames
<1>5. TcbObject \in TcbClass
  BY <1>3, <1>4 DEF TcbObject, TcbClass
<1>6. /\ members[PPID] \in Int /\ members[PCEID] \in Int
      /\ members[FMSPC] \in Int /\ members[SGX_TYPE] \in IntNumbers
  BY <1>1, WidthsAre
<1>7. PckCertificateObject \in PckCertificateClass
  BY <1>5, <1>6 DEF PckCertificateObject, PckCertificateClass
<1>8. ASSUME NEW n \in SgxComponentNumbers
      PROVE  PckTcbComponentSvn(TcbObject, n) = { members[SGX_TCB_COMP_SVN(n + 1)] }
  BY <1>8 DEF PckTcbComponentSvn, TcbObject
<1>9. ASSUME NEW n \in -1 .. COMPONENTS
      PROVE  (PckTcbComponentSvn(TcbObject, n) # {}) <=>
               SGX_TCB_COMP_SVN(n + 1) \in DOMAIN members \intersect SgxTcbComponents
  <2>1. CASE n \in SgxComponentNumbers
    <3>1. SGX_TCB_COMP_SVN(n + 1) \in DOMAIN members \intersect SgxTcbComponents
      BY <1>1, <1>2, <2>1, ComponentNames
    <3>. QED BY <1>8, <2>1, <3>1
  <2>2. CASE n \notin SgxComponentNumbers
    <3>1. n + 1 \in Nat /\ n + 1 \notin 1 .. COMPONENTS
      BY <2>2, PckAssumption DEF SgxComponentNumbers
    <3>. QED BY <2>2, <3>1, ComponentNames DEF PckTcbComponentSvn
  <2>. QED BY <2>1, <2>2
<1>10. ASSUME NEW n \in SgxComponentNumbers,
              InCertificate(SGX_TCB_COMP_SVN(n + 1)).value \in 0 .. BYTE_COUNT - 1
       PROVE  PckTcbComponentSvn(TcbObject, n) = { InCertificate(SGX_TCB_COMP_SVN(n + 1)).value }
  <2> DEFINE oid == SGX_TCB_COMP_SVN(n + 1)
             v   == InCertificate(oid)
  <2>1. oid \in SgxTcbComponents /\ oid \in DOMAIN members
    BY <1>1, <1>2, ComponentNames
  <2>2. members[oid] = Converted(oid, v)
    BY <2>1, MemberIsCertified
  <2>3. Converted(oid, v) = v.value
    BY <1>10, <2>1, ConvertedIs, ComponentNames, TypeIsNoSvn DEF HasRoom
  <2>. QED BY <1>8, <2>2, <2>3
<1>. QED BY <1>7, <1>9, <1>10

\* What PlatformPckCertificate and Configuration answer.
LEMMA PlatformObjectIs ==
    ASSUME IInv, DataInv, pc = "accepted", class = Platform
    PROVE  LET flag(n) == LastValue(CertifiedConfiguration, Append(CONFIGURATION, n)).value # 0 IN
           /\ PlatformPckCertificateObject \in PlatformPckCertificateClass
           /\ PlatformPckCertificateObject.configuration =
                [ dynamicPlatform |-> flag(1), cachedKeys |-> flag(2), smtEnabled |-> flag(3) ]
<1> DEFINE list == LastValue(SgxExtensions, CONFIGURATION).entries
           flag(n) == LastValue(CertifiedConfiguration, Append(CONFIGURATION, n)).value # 0
<1>1. CONFIGURATION \in RequiredOf(Platform) \intersect Nested
  BY NamesDiffer
<1>2. /\ \E k \in 1 .. Len(SgxExtensions) :
           /\ SgxExtensions[k].oid = CONFIGURATION
           /\ IsLast(SgxExtensions, Len(SgxExtensions), k)
           /\ list = SgxExtensions[k].value.entries
      /\ \A x \in RequiredOf("Configuration") : members[x] = Converted(x, LastValue(list, x))
  BY <1>1, MemberIs, MembersAre
<1>3. CertifiedConfiguration = list
  <2>1. PICK k \in 1 .. Len(SgxExtensions) :
          /\ SgxExtensions[k].oid = CONFIGURATION
          /\ IsLast(SgxExtensions, Len(SgxExtensions), k)
          /\ list = SgxExtensions[k].value.entries
    BY <1>2
  <2>2. AreEntries(SgxExtensions)
    BY DecodedIsList DEF IInv, TypesInv, IsOfProfile, HasExtensions
  <2> DEFINE chosen == CHOOSE j \in DOMAIN SgxExtensions :
               /\ SgxExtensions[j].oid = CONFIGURATION
               /\ \A l \in j + 1 .. Len(SgxExtensions) : SgxExtensions[l].oid # CONFIGURATION
  <2>3. chosen = k
    <3>1. /\ k \in DOMAIN SgxExtensions
          /\ \A l \in k + 1 .. Len(SgxExtensions) : SgxExtensions[l].oid # CONFIGURATION
      BY <2>1, <2>2, LastIsChosen DEF IsLast
    <3>2. /\ chosen \in DOMAIN SgxExtensions /\ SgxExtensions[chosen].oid = CONFIGURATION
          /\ \A l \in chosen + 1 .. Len(SgxExtensions) : SgxExtensions[l].oid # CONFIGURATION
      BY <2>1, <3>1
    <3>. HIDE DEF chosen
    <3>. QED BY <2>1, <2>2, <3>2, LastIsChosen
  <2>4. CertifiedConfiguration = SgxExtensions[chosen].value.entries
    BY DEF CertifiedConfiguration
  <2>. QED BY <2>1, <2>3, <2>4
<1>4. ASSUME NEW i \in 1 .. 3
      PROVE  (members[Append(CONFIGURATION, i)] # 0) = flag(i)
  <2> DEFINE x == Append(CONFIGURATION, i)
  <2>1. x \in RequiredOf("Configuration")
    BY ComponentNames
  <2>. HIDE DEF x
  <2>2. x \notin SgxTcbComponents /\ x # PCESVN /\ x # SGX_TYPE
    BY <2>1, ComponentNames, NamesDiffer, TypeIsNoSvn
  <2>3. members[x] = LastValue(list, x).value
    BY <1>2, <2>1, <2>2, ConvertedIs DEF HasRoom
  <2>. QED BY <1>3, <2>3 DEF x
<1>. HIDE DEF flag
<1>5. ConfigurationObject =
        [ dynamicPlatform |-> flag(1), cachedKeys |-> flag(2), smtEnabled |-> flag(3) ]
  <2>1. /\ (members[Append(CONFIGURATION, 1)] # 0) = flag(1)
        /\ (members[Append(CONFIGURATION, 2)] # 0) = flag(2)
        /\ (members[Append(CONFIGURATION, 3)] # 0) = flag(3)
    BY <1>4
  <2>. QED BY <2>1, Zenon DEF ConfigurationObject
<1>6. ConfigurationObject \in ConfigurationClass
  BY DEF ConfigurationObject, ConfigurationClass
<1>7. members[PLATFORM_INSTANCE_ID] \in Int
  <2>1. PLATFORM_INSTANCE_ID \in Simple(Platform)
    BY Required DEF Simple, PLATFORM_PCK_REQUIRED_SGX_EXTENSIONS, Nested, PLATFORM_INSTANCE_ID,
         TCB, CONFIGURATION
  <2>. QED BY <2>1, AllMembers, WidthsAre
<1>8. /\ PlatformPckCertificateObject \in PlatformPckCertificateClass
      /\ PlatformPckCertificateObject.configuration = ConfigurationObject
  BY <1>6, <1>7 DEF PlatformPckCertificateObject, PlatformPckCertificateClass
<1>. QED BY <1>5, <1>8 DEF flag

\* What a caller is answered through the objects of an accepted certificate is what the last
\* entry with the name says, in the list of extensions or in the last TCB or configuration of
\* it, although the object is filled by two classes and up to three times
\* (PckCertificate.cpp:126-190, Tcb.cpp:122-231, PlatformPckCertificate.cpp:82-123).
THEOREM ObjectsAnswerAsCertifiedHolds == Spec => []ObjectsAnswerAsCertified
<1>1. IInv /\ DataInv => ObjectsAnswerAsCertified
  BY MembersAreCertified, PckObjectIs, PlatformObjectIs, Zenon DEF ObjectsAnswerAsCertified
<1>. QED BY <1>1, IInvHolds, DataHolds, PTL

(***************************************************************************)
(* Lists that grow.                                                        *)
(***************************************************************************)
\* A list that another element is appended to.
LEMMA AppendsOne ==
    ASSUME NEW n \in Nat, NEW S, NEW list \in [ 1 .. n -> S ], NEW e \in S
    PROVE  /\ Append(list, e) \in [ 1 .. n + 1 -> S ]
           /\ Append(list, e)[n + 1] = e
           /\ \A k \in 1 .. n : Append(list, e)[k] = list[k]
<1>1. list \in Seq(S) /\ Len(list) = n
  BY LenProperties, SeqDef
<1>2. /\ Append(list, e) \in Seq(S) /\ Len(Append(list, e)) = n + 1
      /\ \A i \in 1 .. n : Append(list, e)[i] = list[i]
      /\ Append(list, e)[n + 1] = e
  BY <1>1, AppendProperties
<1>3. Append(list, e) \in [ 1 .. n + 1 -> S ]
  BY <1>2, LenProperties
<1>. QED BY <1>2, <1>3

\* Intervals that are the same have the same end.
LEMMA SameEnd == \A m, n \in Nat : 1 .. m = 1 .. n => m = n
<1> SUFFICES ASSUME NEW m \in Nat, NEW n \in Nat, 1 .. m = 1 .. n
             PROVE  m = n
  OBVIOUS
<1>1. CASE m < n
  <2>1. n \in 1 .. n /\ n \notin 1 .. m
    BY <1>1
  <2>. QED BY <2>1
<1>2. CASE n < m
  <2>1. m \in 1 .. m /\ m \notin 1 .. n
    BY <1>2
  <2>. QED BY <2>1
<1>. QED BY <1>1, <1>2

(***************************************************************************)
(* Names.                                                                  *)
(***************************************************************************)
\* A name has a length, and its entries stand at 1 to it.
LEMMA NameIndices ==
    ASSUME NEW name, IsName(name)
    PROVE  Len(name) \in Nat /\ DOMAIN name = 1 .. Len(name)
BY DEF IsName

\* The first entry of a kind, and its text.
IsFirst(name, nid, i) ==
    i \in DOMAIN name /\ name[i].nid = nid /\ \A j \in 1 .. i - 1 : name[j].nid # nid

EntryText(entry) == IF entry.encoding = "wide" THEN "" ELSE entry.value

LEMMA FirstEntry ==
    ASSUME NEW name, IsName(name), NEW nid, NEW i, IsFirst(name, nid, i)
    PROVE  /\ getNameEntry(name, nid) = EntryText(name[i])
           /\ NameEntryText(name, nid) = EntryText(name[i])
<1> DEFINE found == { k \in DOMAIN name : name[k].nid = nid }
<1>1. Len(name) \in Nat /\ DOMAIN name = 1 .. Len(name)
  BY NameIndices
<1>2. i \in 1 .. Len(name) /\ name[i].nid = nid /\ \A j \in 1 .. i - 1 : name[j].nid # nid
  BY <1>1 DEF IsFirst
<1>3. IndexOf(name, nid) = i
  <2>1. \A k \in DOMAIN name :
           name[k].nid = nid /\ (\A j \in 1 .. k - 1 : name[j].nid # nid) => k = i
    BY <1>1, <1>2
  <2>. QED BY <1>1, <1>2, <2>1 DEF IndexOf
<1>4. found # {} /\ (CHOOSE k \in found : \A j \in found : k <= j) = i
  <2>1. i \in found /\ \A j \in found : i <= j
    BY <1>1, <1>2
  <2>2. \A k \in found : (\A j \in found : k <= j) => k = i
    BY <1>1, <1>2, <2>1
  <2>. QED BY <2>1, <2>2
<1>5. getNameEntry(name, nid) = EntryText(name[i])
  <2> DEFINE first == CHOOSE k \in found : \A j \in found : k <= j
  <2>1. getNameEntry(name, nid)
          = IF found = {} THEN ""
            ELSE IF name[first].encoding = "wide" THEN "" ELSE name[first].value
    BY DEF getNameEntry
  <2>2. found # {} /\ first = i
    BY <1>4
  <2>. HIDE DEF found, first
  <2>. QED BY <2>1, <2>2 DEF EntryText
<1>6. NameEntryText(name, nid) = EntryText(name[i])
  <2>1. i # 0
    BY <1>2
  <2>. QED BY <2>1, <1>3, Zenon DEF NameEntryText, EntryText
<1>. QED BY <1>5, <1>6

\* No entry of a kind.
LEMMA NoEntry ==
    ASSUME NEW name, NEW nid, \A k \in DOMAIN name : name[k].nid # nid
    PROVE  getNameEntry(name, nid) = "" /\ NameEntryText(name, nid) = ""
BY DEF getNameEntry, NameEntryText, IndexOf

\* Every kind has a first entry or none.
LEMMA FirstOrNone ==
    ASSUME NEW name, IsName(name), NEW nid
    PROVE  (\A k \in DOMAIN name : name[k].nid # nid) \/ \E i : IsFirst(name, nid, i)
<1> DEFINE found == { k \in DOMAIN name : name[k].nid = nid }
<1>1. Len(name) \in Nat /\ DOMAIN name = 1 .. Len(name)
  BY NameIndices
<1>2. CASE found = {}
  BY <1>2
<1>3. CASE found # {}
  <2>1. found \in SUBSET Nat
    BY <1>1
  <2>2. PICK i \in found : \A j \in found : i <= j
    BY <1>3, <2>1, LeastNumber
  <2>3. \A j \in 1 .. i - 1 : name[j].nid # nid
    BY <1>1, <2>2
  <2>. QED BY <2>2, <2>3 DEF IsFirst
<1>. QED BY <1>2, <1>3

\* PckParser.cpp and ParserUtils.cpp find the same entry.
LEMMA NameEntriesAgree ==
    ASSUME NEW name, IsName(name)
    PROVE  getIssuer(name) = DistinguishedName(name)
<1>1. ASSUME NEW nid \in NameNids
      PROVE  getNameEntry(name, nid) = NameEntryText(name, nid)
  <2>1. CASE \A k \in DOMAIN name : name[k].nid # nid
    BY <2>1, NoEntry
  <2>2. CASE \E i : IsFirst(name, nid, i)
    BY <2>2, FirstEntry
  <2>. QED BY <2>1, <2>2, FirstOrNone
<1>2. [ nid \in NameNids |-> getNameEntry(name, nid) ]
        = [ nid \in NameNids |-> NameEntryText(name, nid) ]
  BY <1>1
<1>. QED BY <1>2 DEF getIssuer, DistinguishedName, NameText

\* The place of an entry counted from the end of a list.
LEMMA FromTheEnd ==
    ASSUME NEW n \in Nat, NEW k \in 1 .. n
    PROVE  n + 1 - k \in 1 .. n /\ n + 1 - (n + 1 - k) = k
OBVIOUS

\* Names that have the same text, in plain encodings, have the same entries.
LEMMA PlainNamesAgree ==
    ASSUME NEW a, NEW b, IsName(a), IsName(b), PlainName(a), PlainName(b),
           x509NameToString(a) = x509NameToString(b)
    PROVE  getIssuer(a).entries = getIssuer(b).entries
<1>0. Len(a) \in Nat /\ DOMAIN a = 1 .. Len(a)
  BY NameIndices
<1>1. /\ Len(a) \in Nat /\ DOMAIN a = 1 .. Len(a)
      /\ Len(b) \in Nat /\ DOMAIN b = 1 .. Len(b)
  <2>1. Len(b) \in Nat /\ DOMAIN b = 1 .. Len(b)
    BY NameIndices
  <2>. QED BY <1>0, <2>1
<1>2. Len(a) = Len(b)
  <2>1. DOMAIN x509NameToString(a) = 1 .. Len(a) /\ DOMAIN x509NameToString(b) = 1 .. Len(b)
    BY <1>1 DEF x509NameToString
  <2>2. 1 .. Len(a) = 1 .. Len(b)
    BY <2>1
  <2>3. Len(a) \in Nat /\ Len(b) \in Nat
    BY <1>1
  <2>. QED BY <2>2, <2>3, SameEnd, Zenon
<1>3. ASSUME NEW k \in 1 .. Len(a)
      PROVE  a[k].nid = b[k].nid /\ a[k].value = b[k].value
  <2> DEFINE j == Len(a) + 1 - k
  <2>1. j \in 1 .. Len(a) /\ Len(a) + 1 - j = k
    BY <1>1, FromTheEnd, Zenon
  <2>. HIDE DEF j
  <2>2. x509NameToString(a)[j] = <<a[k].nid, a[k].value>>
    BY <1>1, <2>1 DEF x509NameToString
  <2>3. x509NameToString(b)[j] = <<b[k].nid, b[k].value>>
    BY <1>1, <1>2, <2>1 DEF x509NameToString
  <2>. QED BY <2>2, <2>3
<1>4. ASSUME NEW nid \in NameNids
      PROVE  getNameEntry(a, nid) = getNameEntry(b, nid)
  <2>1. CASE \A k \in DOMAIN a : a[k].nid # nid
    <3>1. \A k \in DOMAIN b : b[k].nid # nid
      BY <1>1, <1>2, <1>3, <2>1
    <3>2. getNameEntry(b, nid) = ""
      BY <3>1, NoEntry
    <3>3. getNameEntry(a, nid) = ""
      BY <2>1, NoEntry
    <3>. QED BY <3>2, <3>3
  <2>2. CASE \E i : IsFirst(a, nid, i)
    <3>1. PICK i : IsFirst(a, nid, i)
      BY <2>2
    <3>2. i \in 1 .. Len(a) /\ IsFirst(b, nid, i)
      BY <1>1, <1>2, <1>3, <3>1 DEF IsFirst
    <3>3. a[i].value = b[i].value /\ a[i].encoding # "wide" /\ b[i].encoding # "wide"
      BY <1>1, <1>2, <1>3, <3>2 DEF PlainName
    <3>4. EntryText(a[i]) = EntryText(b[i])
      BY <3>3 DEF EntryText
    <3>5. getNameEntry(a, nid) = EntryText(a[i])
      BY <3>1, FirstEntry
    <3>6. getNameEntry(b, nid) = EntryText(b[i])
      BY <3>2, FirstEntry
    <3>. QED BY <3>4, <3>5, <3>6
  <2>. QED BY <2>1, <2>2, FirstOrNone
<1>. QED BY <1>4 DEF getIssuer

(***************************************************************************)
(* Digits.                                                                 *)
(***************************************************************************)
DigitsOf(value) == { UpperDigits[value + 1], LowerDigits[value + 1] }

\* A letter is the digit of at most one value.
LEMMA DigitsDiffer ==
    \A v, w \in 0 .. 15 : DigitsOf(v) \intersect DigitsOf(w) # {} => v = w
BY DEF DigitsOf, UpperDigits, LowerDigits

\* A dash is no digit.
LEMMA DashIsNoDigit == \A v \in 0 .. 15 : "-" \notin DigitsOf(v)
BY DEF DigitsOf, UpperDigits, LowerDigits

LEMMA ValueOfDigit ==
    ASSUME NEW letter, NEW v \in 0 .. 15, letter \in DigitsOf(v)
    PROVE  asciiToValue(letter) = { v }
BY DigitsDiffer DEF asciiToValue, DigitsOf

LEMMA HalvesOfOctet ==
    ASSUME NEW o \in 0 .. 255
    PROVE  /\ o \div 16 \in 0 .. 15 /\ o % 16 \in 0 .. 15
           /\ ((o % 16) + (o \div 16) * 16) % 256 = o
OBVIOUS

\* Two letters are read as an octet exactly if they are its digits.
LEMMA OctetOfDigits ==
    ASSUME NEW first, NEW second, NEW o \in 0 .. 255,
           first \in DigitsOf(o \div 16), second \in DigitsOf(o % 16)
    PROVE  Octet(first, second) = { o }
<1>1. asciiToValue(first) = { o \div 16 } /\ asciiToValue(second) = { o % 16 }
  BY HalvesOfOctet, ValueOfDigit
<1>2. Octet(first, second) = { ((o % 16) + (o \div 16) * 16) % 256 }
  BY <1>1 DEF Octet
<1>. QED BY <1>2, HalvesOfOctet

LEMMA DigitsOfOctet ==
    ASSUME NEW first, NEW second, NEW o \in Octet(first, second)
    PROVE  first \in DigitsOf(o \div 16) /\ second \in DigitsOf(o % 16)
<1>1. PICK high \in asciiToValue(first), low \in asciiToValue(second) :
         o = (low + high * 16) % 256
  BY DEF Octet
<1>2. /\ high \in 0 .. 15 /\ first \in DigitsOf(high)
      /\ low \in 0 .. 15 /\ second \in DigitsOf(low)
  BY DEF asciiToValue, DigitsOf
<1>3. o = low + high * 16
  BY <1>1, <1>2
<1>4. o \div 16 = high /\ o % 16 = low
  BY <1>2, <1>3
<1>. QED BY <1>2, <1>4

LEMMA OctetIsOne ==
    ASSUME NEW first, NEW second, NEW o \in Octet(first, second)
    PROVE  o \in 0 .. 255 /\ Octet(first, second) = { o }
<1>1. o \in 0 .. 255
  <2>1. PICK high \in asciiToValue(first), low \in asciiToValue(second) :
           o = (low + high * 16) % 256
    BY DEF Octet
  <2>2. high \in 0 .. 15 /\ low \in 0 .. 15
    BY DEF asciiToValue
  <2>. QED BY <2>1, <2>2
<1>. QED BY <1>1, DigitsOfOctet, OctetOfDigits

LEMMA OctetsAre ==
    ASSUME NEW octets, IsOctetString(octets)
    PROVE  /\ Len(octets) \in Nat /\ DOMAIN octets = 1 .. Len(octets)
           /\ \A k \in 1 .. Len(octets) : octets[k] \in 0 .. 255
<1>1. octets \in Seq(0 .. 255)
  BY DEF IsOctetString
<1>2. /\ Len(octets) \in Nat /\ DOMAIN octets = 1 .. Len(octets)
      /\ octets \in [ 1 .. Len(octets) -> 0 .. 255 ]
  BY <1>1, LenProperties, Zenon
<1>. QED BY <1>2

\* Digits that spell octets are two of each.
LEMMA SpelledLength ==
    ASSUME NEW letters, NEW octets, Spells(letters, octets)
    PROVE  Len(letters) = 2 * Len(octets)
BY DEF Spells

\* A letter is the first or the second of its octet.
LEMMA Halves ==
    ASSUME NEW n \in Nat, NEW k \in 1 .. 2 * n
    PROVE  \E j \in 1 .. n : k = 2 * j - 1 \/ k = 2 * j
<1> DEFINE j == (k + 1) \div 2
<1>1. j \in 1 .. n /\ (k = 2 * j - 1 \/ k = 2 * j)
  OBVIOUS
<1>. HIDE DEF j
<1>. QED BY <1>1

\* What is read from digits is what they spell.
LEMMA HexReads ==
    ASSUME NEW S, NEW letters \in Seq(S), NEW der, IsOctetString(der), der # << >>
    PROVE  hexStringToBytes(letters) = der <=> Spells(letters, der)
<1> DEFINE n == Len(letters) \div 2
           octets == [ k \in 1 .. n |-> Octet(letters[2 * k - 1], letters[2 * k]) ]
           read == [ k \in 1 .. n |-> CHOOSE o \in octets[k] : TRUE ]
<1>1. /\ Len(letters) \in Nat /\ n \in Nat
      /\ Len(letters) % 2 = 1 \/ Len(letters) = 2 * n
  BY LenProperties
<1>2. Len(der) \in Nat /\ DOMAIN der = 1 .. Len(der) /\ \A k \in 1 .. Len(der) : der[k] \in 0 .. 255
  BY OctetsAre
<1>3. hexStringToBytes(letters)
        = IF Len(letters) % 2 = 1 \/ \E k \in 1 .. n : octets[k] = { } THEN << >> ELSE read
  <2>1. hexStringToBytes(letters)
          = IF Len(letters) % 2 = 1 \/ \E k \in DOMAIN octets : octets[k] = { } THEN << >>
            ELSE [ k \in DOMAIN octets |-> CHOOSE octet \in octets[k] : TRUE ]
    BY DEF hexStringToBytes
  <2>2. DOMAIN octets = 1 .. n
    OBVIOUS
  <2>3. read = [ k \in 1 .. n |-> CHOOSE octet \in octets[k] : TRUE ]
    OBVIOUS
  <2>. HIDE DEF n, octets, read
  <2>. QED BY <2>1, <2>2, <2>3
<1>. HIDE DEF n
<1>4. ASSUME hexStringToBytes(letters) = der
      PROVE  Spells(letters, der)
  <2>1. Len(letters) % 2 # 1 /\ (\A k \in 1 .. n : octets[k] # { }) /\ der = read
    BY <1>3, <1>4
  <2>2. Len(der) = n
    <3>1. 1 .. Len(der) = 1 .. n
      BY <1>2, <2>1
    <3>. QED BY <1>1, <1>2, <3>1, SameEnd, Zenon
  <2>3. ASSUME NEW k \in 1 .. n
        PROVE  /\ letters[2 * k - 1] \in DigitsOf(der[k] \div 16)
               /\ letters[2 * k] \in DigitsOf(der[k] % 16)
    <3>1. der[k] \in Octet(letters[2 * k - 1], letters[2 * k])
      <4>1. octets[k] = Octet(letters[2 * k - 1], letters[2 * k])
        OBVIOUS
      <4>2. der[k] = CHOOSE o \in octets[k] : TRUE
        BY <2>1
      <4>. QED BY <2>1, <4>1, <4>2
    <3>. QED BY <3>1, DigitsOfOctet
  <2>4. Len(letters) = 2 * Len(der)
    BY <1>1, <2>1, <2>2
  <2>. QED BY <1>2, <2>2, <2>3, <2>4, Zenon DEF Spells, DigitsOf
<1>5. ASSUME Spells(letters, der)
      PROVE  hexStringToBytes(letters) = der
  <2>1. Len(letters) = 2 * Len(der)
    BY <1>5, SpelledLength, Zenon
  <2>2. n = Len(der) /\ Len(letters) % 2 # 1
    <3>1. \A m \in Nat : (2 * m) \div 2 = m /\ (2 * m) % 2 # 1
      OBVIOUS
    <3>. QED BY <1>2, <2>1, <3>1 DEF n
  <2>3. ASSUME NEW k \in 1 .. n
        PROVE  octets[k] = { der[k] }
    <3>1. /\ letters[2 * k - 1] \in DigitsOf(der[k] \div 16)
          /\ letters[2 * k] \in DigitsOf(der[k] % 16)
      BY <1>2, <1>5, <2>2 DEF Spells, DigitsOf
    <3>. QED BY <1>2, <2>2, <3>1, OctetOfDigits
  <2>4. hexStringToBytes(letters) = read
    BY <1>3, <2>2, <2>3
  <2>5. \A k \in 1 .. n : read[k] = der[k]
    BY <2>3
  <2>6. DOMAIN read = 1 .. n
    OBVIOUS
  <2>7. der \in [ 1 .. n -> 0 .. 255 ]
    BY <2>2, LenProperties DEF IsOctetString
  <2>8. read = [ k \in 1 .. n |-> read[k] ]
    OBVIOUS
  <2>. HIDE DEF read
  <2>9. read = der
    BY <2>5, <2>7, <2>8
  <2>. QED BY <2>4, <2>9
<1>. QED BY <1>4, <1>5

\* What is written in digits is spelled by them.
LEMMA HexWrites ==
    ASSUME NEW octets, IsOctetString(octets)
    PROVE  \E S : bytesToHexString(octets) \in Seq(S) /\ Spells(bytesToHexString(octets), octets)
<1> DEFINE n == Len(octets)
           letters == bytesToHexString(octets)
           S == { letters[k] : k \in 1 .. 2 * n }
<1>1. n \in Nat /\ DOMAIN octets = 1 .. n /\ \A k \in 1 .. n : octets[k] \in 0 .. 255
  BY OctetsAre
<1>. HIDE DEF n
<1>2. letters = [ k \in 1 .. 2 * n |->
                    LET c == octets[(k + 1) \div 2]
                    IN  UpperDigits[(IF k % 2 = 1 THEN c \div 16 ELSE c % 16) + 1] ]
  BY DEF bytesToHexString, n
<1>3. ASSUME NEW k \in 1 .. n
      PROVE  /\ letters[2 * k - 1] = UpperDigits[(octets[k] \div 16) + 1]
             /\ letters[2 * k] = UpperDigits[(octets[k] % 16) + 1]
  <2>1. /\ 2 * k - 1 \in 1 .. 2 * n /\ ((2 * k - 1) + 1) \div 2 = k /\ (2 * k - 1) % 2 = 1
        /\ 2 * k \in 1 .. 2 * n /\ (2 * k + 1) \div 2 = k /\ (2 * k) % 2 # 1
    BY <1>1
  <2>. HIDE DEF letters
  <2>. QED BY <1>2, <2>1
<1>. HIDE DEF letters
<1>4. letters \in [ 1 .. 2 * n -> S ]
  BY <1>2
<1>5. 2 * n \in Nat
  BY <1>1
<1>. HIDE DEF S
<1>6. letters \in Seq(S)
  BY <1>4, <1>5, SeqDef
<1>7. Len(letters) = 2 * n
  BY <1>4, <1>5, <1>6, LenProperties, SameEnd
<1>8. Spells(letters, octets)
  BY <1>1, <1>3, <1>7 DEF Spells, n
<1>. QED BY <1>6, <1>8 DEF letters

(***************************************************************************)
(* Texts.                                                                  *)
(***************************************************************************)
TextIsTaken ==
    /\ crlText.form = "PEM" => crlText.before <= IF fromFile THEN 0 ELSE 1
    /\ crlText.form = "hex" => ~fromFile /\ Spells(crlText.letters, crlText.der)

\* The application and the library between them take a text, or they do not.
LEMMA TextDecoded ==
    ASSUME IsCrlText(crlText), fromFile \in BOOLEAN, crlText.form = "binary" => fromFile
    PROVE  Decoded(TextPassed) = IF TextIsTaken THEN crlText.content ELSE { }
<1>1. /\ crlText.form \in { "PEM", "hex", "binary" } /\ crlText.before \in Nat
      /\ IsOctetString(crlText.octets) /\ IsOctetString(crlText.der) /\ crlText.der # << >>
      /\ crlText.letters \in Seq(STRING)
      /\ crlText.octets = crlText.der <=> crlText.form = "binary"
  BY DEF IsCrlText
<1>2. hexStringToBytes(crlText.letters) = crlText.der <=> Spells(crlText.letters, crlText.der)
  BY <1>1, HexReads
<1>3. CASE crlText.form = "PEM" /\ crlText.before <= IF fromFile THEN 0 ELSE 1
  <2>1. TextPassed = crlText
    BY <1>1, <1>3 DEF TextPassed
  <2>2. ReadAsPem(crlText)
    BY <1>1, <1>3 DEF ReadAsPem, HEADER_OFFSET, PEM_SEARCH_LIMIT
  <2>. QED BY <1>3, <2>1, <2>2 DEF Decoded, TextIsTaken
<1>4. CASE ~fromFile /\ crlText.form = "PEM" /\ crlText.before > 1
  <2>1. TextPassed = crlText
    BY <1>4 DEF TextPassed
  <2>2. ~ReadAsPem(crlText)
    BY <1>1, <1>4 DEF ReadAsPem, HEADER_OFFSET, PEM_SEARCH_LIMIT
  <2>3. ~Spells(crlText.letters, crlText.der)
    <3>1. PICK k \in DOMAIN crlText.letters : crlText.letters[k] = "-"
      BY <1>4 DEF IsCrlText
    <3>2. SUFFICES ASSUME Spells(crlText.letters, crlText.der)
                   PROVE  FALSE
      OBVIOUS
    <3>3. /\ Len(crlText.der) \in Nat /\ DOMAIN crlText.der = 1 .. Len(crlText.der)
          /\ \A j \in 1 .. Len(crlText.der) : crlText.der[j] \in 0 .. 255
      BY <1>1, OctetsAre
    <3>4. k \in 1 .. 2 * Len(crlText.der)
      BY <1>1, <3>1, <3>2, LenProperties DEF Spells
    <3>5. PICK j \in 1 .. Len(crlText.der) : k = 2 * j - 1 \/ k = 2 * j
      BY <3>3, <3>4, Halves
    <3>6. crlText.letters[k] \in DigitsOf(crlText.der[j] \div 16)
            \/ crlText.letters[k] \in DigitsOf(crlText.der[j] % 16)
      BY <3>2, <3>3, <3>5 DEF Spells, DigitsOf
    <3>7. crlText.der[j] \div 16 \in 0 .. 15 /\ crlText.der[j] % 16 \in 0 .. 15
      BY <3>3, HalvesOfOctet
    <3>. QED BY <3>1, <3>6, <3>7, DashIsNoDigit
  <2>. QED BY <1>1, <1>2, <1>4, <2>1, <2>2, <2>3 DEF Decoded, TextIsTaken
<1>5. CASE ~fromFile /\ crlText.form = "hex"
  <2>1. TextPassed = crlText /\ ~ReadAsPem(crlText)
    BY <1>5 DEF TextPassed, ReadAsPem
  <2>. QED BY <1>2, <1>5, <2>1 DEF Decoded, TextIsTaken
<1>6. CASE fromFile /\ (crlText.form = "PEM" => crlText.before > 0)
  <2> DEFINE digits == bytesToHexString(crlText.octets)
  <2>1. TextPassed = [ crlText EXCEPT !.form = "hex", !.letters = digits ]
    BY <1>1, <1>6 DEF TextPassed
  <2>2. /\ TextPassed.form = "hex" /\ TextPassed.letters = digits
        /\ TextPassed.der = crlText.der /\ TextPassed.content = crlText.content
    <3>1. crlText = [ form |-> crlText.form, before |-> crlText.before,
                      letters |-> crlText.letters, octets |-> crlText.octets,
                      der |-> crlText.der, content |-> crlText.content ]
      BY DEF IsCrlText
    <3>. HIDE DEF digits
    <3>. QED BY <2>1, <3>1
  <2>3. PICK S : digits \in Seq(S) /\ Spells(digits, crlText.octets)
    BY <1>1, HexWrites
  <2>4. hexStringToBytes(digits) = crlText.der <=> crlText.form = "binary"
    <3>1. CASE crlText.form = "binary"
      <4>1. crlText.octets = crlText.der
        BY <1>1, <3>1
      <4>. QED BY <1>1, <2>3, <3>1, <4>1, HexReads
    <3>2. CASE crlText.form # "binary"
      <4>1. CASE crlText.octets = << >>
        <5>1. Len(digits) = 0
          BY <2>3, <4>1 DEF Spells
        <5>2. ~Spells(digits, crlText.der)
          <6>1. Len(crlText.der) \in Nat \ { 0 }
            BY <1>1, EmptySeq DEF IsOctetString
          <6>. QED BY <5>1, <6>1 DEF Spells
        <5>. QED BY <1>1, <2>3, <3>2, <5>2, HexReads
      <4>2. CASE crlText.octets # << >>
        <5>1. hexStringToBytes(digits) = crlText.octets
          BY <1>1, <2>3, <4>2, HexReads
        <5>. QED BY <1>1, <3>2, <5>1
      <4>. QED BY <4>1, <4>2
    <3>. QED BY <3>1, <3>2
  <2>5. ~ReadAsPem(TextPassed)
    BY <2>2 DEF ReadAsPem
  <2>6. Decoded(TextPassed) = IF crlText.form = "binary" THEN crlText.content ELSE { }
    BY <2>2, <2>4, <2>5 DEF Decoded
  <2>. QED BY <1>1, <1>6, <2>6 DEF TextIsTaken
<1>. QED BY <1>1, <1>3, <1>4, <1>5, <1>6

(***************************************************************************)
(* The store.                                                              *)
(***************************************************************************)
CrlMemberNames == { CrlMembers[k] : k \in 1 .. 6 }

StoreUpTo(n) ==
    /\ store \in [ 1 .. n -> { ValueOf(CrlMembers[k]) : k \in 1 .. 6 } ]
    /\ \A k \in 1 .. n : store[k] = ValueOf(CrlMembers[k])

ReadUpTo(n) ==
    /\ TextIsTaken
    /\ crl = crlText.content /\ crl # { }
    /\ \A k \in 1 .. n : Readable(CrlMembers[k])
    /\ StoreUpTo(n)

\* The members set so far, in their order, or what is wrong.
CrlInv ==
    /\ crlText \in CrlTexts /\ fromFile \in BOOLEAN /\ (crlText.form = "binary" => fromFile)
    /\ crlStep \in { "decode", "refused", "parsed" } \union CrlMemberNames
    /\ crlStep = "decode" => store = << >>
    /\ \A k \in 1 .. 6 : crlStep = CrlMembers[k] => ReadUpTo(k - 1)
    /\ crlStep = "parsed" => ReadUpTo(6)
    /\ crlStep = "refused" => ~(TextIsTaken /\ \E c \in crlText.content : IsComplete(c))

LEMMA CrlMemberPlaces ==
    /\ Len(CrlMembers) = 6 /\ DOMAIN CrlMembers = 1 .. 6
    /\ \A k \in 1 .. 6 : CrlMembers[k] \notin { "decode", "refused", "parsed" }
    /\ \A j, k \in 1 .. 6 : CrlMembers[j] = CrlMembers[k] => j = k
BY DEF CrlMembers

LEMMA CrlInvInit == CrlInit => CrlInv
BY CrlMemberPlaces DEF CrlInit, CrlStart, CrlInv

LEMMA CrlMembersKept ==
    ASSUME NEW n \in Nat, ReadUpTo(n), UNCHANGED <<crlText, fromFile, crl, store>>
    PROVE  ReadUpTo(n)'
<1>1. TheCrl' = TheCrl
  BY DEF TheCrl
<1>2. \A m : ValueOf(m)' = ValueOf(m) /\ Readable(m)' = Readable(m)
  BY <1>1 DEF ValueOf, Readable
<1>3. TextIsTaken'
  BY DEF ReadUpTo, TextIsTaken
<1>4. { ValueOf(CrlMembers[k]) : k \in 1 .. 6 }' = { ValueOf(CrlMembers[k]) : k \in 1 .. 6 }
  BY <1>2
<1>5. store' = store /\ crl' = crl /\ crlText' = crlText
  OBVIOUS
<1>6. StoreUpTo(n)'
  <2>1. StoreUpTo(n)
    BY DEF ReadUpTo
  <2>2. \A k \in 1 .. n : store'[k] = ValueOf(CrlMembers[k])'
    BY <1>2, <1>5, <2>1 DEF StoreUpTo
  <2>3. store' \in [ 1 .. n -> { ValueOf(CrlMembers[k]) : k \in 1 .. 6 }' ]
    BY <1>4, <1>5, <2>1 DEF StoreUpTo
  <2>. QED BY <2>2, <2>3 DEF StoreUpTo
<1>7. \A k \in 1 .. n : Readable(CrlMembers[k])'
  BY <1>2 DEF ReadUpTo
<1>8. crl' = crlText'.content /\ crl' # { }
  BY <1>5 DEF ReadUpTo
<1>. QED BY <1>3, <1>6, <1>7, <1>8 DEF ReadUpTo

\* The CRL that a text holds is the only one.
LEMMA OneCrl ==
    ASSUME CrlInv, crl = crlText.content, crl # { }
    PROVE  crlText.content = { TheCrl } /\ IsDecodedCrl(TheCrl)
<1>1. IsCrlText(crlText)
  BY CrlsAssumption DEF CrlInv
<1>2. TheCrl \in crl
  BY DEF TheCrl
<1>. QED BY <1>1, <1>2 DEF IsCrlText

LEMMA CrlInvStep == CrlInv /\ [CrlNext]_crlVars => CrlInv'
<1> SUFFICES ASSUME CrlInv, [CrlNext]_crlVars
             PROVE  CrlInv'
  OBVIOUS
<1>1. CASE Decode
  <2>1. /\ crlStep = "decode" /\ store = << >>
        /\ crl' = Decoded(TextPassed) /\ UNCHANGED <<crlText, fromFile, store>>
        /\ crlStep' = IF crl' = { } THEN "refused" ELSE "issuer"
    BY <1>1 DEF Decode, CrlInv
  <2>2. IsCrlText(crlText)
    BY CrlsAssumption DEF CrlInv
  <2>3. crl' = IF TextIsTaken THEN crlText.content ELSE { }
    BY <2>1, <2>2, TextDecoded DEF CrlInv
  <2>4. TextIsTaken' = TextIsTaken
    BY <2>1 DEF TextIsTaken
  <2>5. CASE crl' = { }
    <3>1. ~(TextIsTaken /\ \E c \in crlText.content : IsComplete(c))'
      BY <2>1, <2>3, <2>4, <2>5
    <3>2. crlStep' = "refused"
      BY <2>1, <2>5
    <3>. QED BY <2>1, <3>1, <3>2, CrlMemberPlaces DEF CrlInv
  <2>6. CASE crl' # { }
    <3>1. crlStep' = CrlMembers[1]
      BY <2>1, <2>6 DEF CrlMembers
    <3>2. ReadUpTo(0)'
      BY <2>1, <2>3, <2>4, <2>6 DEF ReadUpTo, StoreUpTo
    <3>. QED BY <2>1, <3>1, <3>2, CrlMemberPlaces DEF CrlInv, CrlMemberNames
  <2>. QED BY <2>5, <2>6
<1>2. ASSUME NEW k \in DOMAIN CrlMembers, SetMember(k)
      PROVE  CrlInv'
  <2>0. k \in 1 .. 6 /\ k - 1 \in Nat
    BY CrlMemberPlaces
  <2>1. ReadUpTo(k - 1)
    BY <1>2, <2>0 DEF CrlInv, SetMember
  <2>2. UNCHANGED <<crlText, fromFile, crl>>
    BY <1>2 DEF SetMember
  <2>3. TextIsTaken' = TextIsTaken /\ TheCrl' = TheCrl
    BY <2>2 DEF TextIsTaken, TheCrl
  <2>4. \A m : ValueOf(m)' = ValueOf(m) /\ Readable(m)' = Readable(m)
    BY <2>3 DEF ValueOf, Readable
  <2>5. CASE ~Readable(CrlMembers[k])
    <3>1. crlStep' = "refused" /\ UNCHANGED store
      BY <1>2, <2>5 DEF SetMember
    <3>2. crlText.content = { TheCrl }
      BY <2>1, OneCrl DEF ReadUpTo
    <3>3. ~IsComplete(TheCrl)
      BY <2>0, <2>5 DEF Readable, IsComplete, CrlMembers
    <3>4. ~(TextIsTaken /\ \E c \in crlText.content : IsComplete(c))'
      BY <2>2, <3>2, <3>3
    <3>. QED BY <2>2, <3>1, <3>4, CrlMemberPlaces DEF CrlInv
  <2>6. CASE Readable(CrlMembers[k])
    <3> DEFINE S == { ValueOf(CrlMembers[j]) : j \in 1 .. 6 }
               e == ValueOf(CrlMembers[k])
    <3>1. store' = Append(store, e) /\ crlStep' = NextMember(k)
      BY <1>2, <2>6 DEF SetMember
    <3>2. store \in [ 1 .. k - 1 -> S ] /\ \A j \in 1 .. k - 1 : store[j] = ValueOf(CrlMembers[j])
      BY <2>1 DEF ReadUpTo, StoreUpTo
    <3>3. e \in S
      BY <2>0
    <3>4. S' = S
      BY <2>4
    <3>. HIDE DEF S, e
    <3>5. /\ Append(store, e) \in [ 1 .. (k - 1) + 1 -> S ]
          /\ Append(store, e)[(k - 1) + 1] = e
          /\ \A j \in 1 .. k - 1 : Append(store, e)[j] = store[j]
      <4>1. \A n \in Nat : \A list \in [ 1 .. n -> S ] :
               /\ Append(list, e) \in [ 1 .. n + 1 -> S ]
               /\ Append(list, e)[n + 1] = e
               /\ \A j \in 1 .. n : Append(list, e)[j] = list[j]
        BY <3>3, AppendsOne, SMTT(30)
      <4>. QED BY <2>0, <3>2, <4>1
    <3>6. store' \in [ 1 .. k -> S' ]
      BY <2>0, <3>1, <3>4, <3>5
    <3>7. \A j \in 1 .. k : store'[j] = ValueOf(CrlMembers[j])
      BY <2>0, <3>1, <3>2, <3>5 DEF e
    <3>8. StoreUpTo(k)'
      <4>1. \A j \in 1 .. k : store'[j] = ValueOf(CrlMembers[j])'
        BY <2>4, <3>7
      <4>. QED BY <3>6, <4>1 DEF StoreUpTo, S
    <3>9. \A j \in 1 .. k : Readable(CrlMembers[j])'
      <4>1. \A j \in 1 .. k : Readable(CrlMembers[j])
        BY <2>0, <2>1, <2>6 DEF ReadUpTo
      <4>. QED BY <2>4, <4>1
    <3>10. ReadUpTo(k)'
      <4>1. (crl = crlText.content /\ crl # { } /\ TextIsTaken)'
        BY <2>1, <2>2, <2>3 DEF ReadUpTo
      <4>. QED BY <3>8, <3>9, <4>1 DEF ReadUpTo
    <3>11. CASE k = 6
      <4>1. crlStep' = "parsed"
        BY <3>1, <3>11, CrlMemberPlaces DEF NextMember
      <4>. QED BY <2>2, <3>10, <3>11, <4>1, CrlMemberPlaces DEF CrlInv
    <3>12. CASE k # 6
      <4>1. crlStep' = CrlMembers[k + 1] /\ k + 1 \in 1 .. 6
        BY <2>0, <3>1, <3>12, CrlMemberPlaces DEF NextMember
      <4>2. \A j \in 1 .. 6 : crlStep' = CrlMembers[j] => ReadUpTo(j - 1)'
        <5> SUFFICES ASSUME NEW j \in 1 .. 6, crlStep' = CrlMembers[j]
                     PROVE  ReadUpTo(j - 1)'
          OBVIOUS
        <5>1. j = k + 1
          BY <4>1, CrlMemberPlaces
        <5>2. j - 1 = k
          BY <2>0, <5>1
        <5>. QED BY <3>10, <5>2
      <4>. QED BY <2>2, <4>1, <4>2, CrlMemberPlaces DEF CrlInv, CrlMemberNames
    <3>. QED BY <3>11, <3>12
  <2>. QED BY <2>5, <2>6
<1>3. CASE UNCHANGED crlVars
  <2>1. UNCHANGED <<crlText, fromFile, crlStep, crl, store>>
    BY <1>3 DEF crlVars
  <2>2. \A n \in Nat : ReadUpTo(n) => ReadUpTo(n)'
    BY <2>1, CrlMembersKept
  <2>3. \A k \in 1 .. 6 : crlStep' = CrlMembers[k] => ReadUpTo(k - 1)'
    <3>1. \A k \in 1 .. 6 : k - 1 \in Nat
      OBVIOUS
    <3>. QED BY <2>1, <2>2, <3>1 DEF CrlInv
  <2>4. TextIsTaken' = TextIsTaken
    BY <2>1 DEF TextIsTaken
  <2>. QED BY <2>1, <2>2, <2>3, <2>4 DEF CrlInv
<1>. QED BY <1>1, <1>2, <1>3 DEF CrlNext

(***************************************************************************)
(* What is asked of a CRL that has been parsed.                            *)
(***************************************************************************)
LEMMA StoreOfParsed ==
    ASSUME CrlInv, Parsed
    PROVE  /\ store[1] = getIssuer(TheCrl.issuer)
           /\ store[2] = asn1TimePeriodToValidity(TheCrl.lastUpdate, TheCrl.nextUpdate)
           /\ store[3] = getExtensions(TheCrl.extensions)
           /\ store[4] = getRevoked(TheCrl.revoked)
           /\ IsTime(TheCrl.lastUpdate) /\ IsTime(TheCrl.nextUpdate) /\ TheCrl.crlNumber # { }
           /\ TextIsTaken /\ crl = crlText.content /\ crl = { TheCrl } /\ IsDecodedCrl(TheCrl)
<1>1. ReadUpTo(6)
  BY DEF CrlInv, Parsed
<1>2. /\ store[1] = ValueOf("issuer") /\ store[2] = ValueOf("validity")
      /\ store[3] = ValueOf("extensions") /\ store[4] = ValueOf("revoked")
      /\ Readable("validity") /\ Readable("crlNum")
  <2>1. \A k \in 1 .. 6 : store[k] = ValueOf(CrlMembers[k]) /\ Readable(CrlMembers[k])
    BY <1>1 DEF ReadUpTo, StoreUpTo
  <2>. QED BY <2>1 DEF CrlMembers
<1>3. /\ IsTime(TheCrl.lastUpdate) /\ IsTime(TheCrl.nextUpdate) /\ TheCrl.crlNumber # { }
  BY <1>2 DEF Readable
<1>4. crl = { TheCrl } /\ IsDecodedCrl(TheCrl) /\ TextIsTaken /\ crl = crlText.content
  BY <1>1, OneCrl DEF ReadUpTo
<1>5. /\ ValueOf("issuer") = getIssuer(TheCrl.issuer)
      /\ ValueOf("validity") = asn1TimePeriodToValidity(TheCrl.lastUpdate, TheCrl.nextUpdate)
      /\ ValueOf("extensions") = getExtensions(TheCrl.extensions)
      /\ ValueOf("revoked") = getRevoked(TheCrl.revoked)
  BY DEF ValueOf
<1>. QED BY <1>2, <1>3, <1>4, <1>5

\* The seconds tell the order of two times, before 1970 too.
LEMMA TimesInOrder ==
    ASSUME NEW a, NEW b, IsMoment(a), IsMoment(b)
    PROVE  asn1TimeToTimet(a) <= asn1TimeToTimet(b) <=> Chronological(a, b)
<1> DEFINE s == CRL_SECONDS_IN_A_DAY
<1>1. s \in Nat /\ s > 0
  BY CrlsAssumption
<1>2. ASSUME NEW d \in Int, NEW e \in Int, d < e
      PROVE  d * s \in Int /\ e * s \in Int /\ d * s + s <= e * s
  <2>. HIDE DEF s
  <2>1. PICK m \in Nat : e = d + 1 + m
    <3>1. e - d - 1 \in Nat /\ e = d + 1 + (e - d - 1)
      BY <1>2
    <3>. QED BY <3>1
  <2>2. e * s = d * s + s + m * s
    BY <1>1, <2>1
  <2>3. m * s \in Nat
    BY <1>1
  <2>4. d * s \in Int
    BY <1>1
  <2>. QED BY <1>1, <2>2, <2>3, <2>4
<1>3. ASSUME NEW x, NEW y, IsMoment(x), IsMoment(y), x.day < y.day
      PROVE  asn1TimeToTimet(x) < asn1TimeToTimet(y)
  <2>1. /\ x.day * s \in Int /\ y.day * s \in Int
        /\ x.day * s + s <= y.day * s
    BY <1>2, <1>3 DEF IsMoment
  <2> DEFINE p == x.day * s
             q == y.day * s
  <2>2. asn1TimeToTimet(x) = p + x.sec /\ asn1TimeToTimet(y) = q + y.sec
    BY DEF asn1TimeToTimet
  <2>3. x.sec - y.sec < s /\ x.sec \in Int /\ y.sec \in Int
    BY <1>1, <1>3 DEF IsMoment
  <2>4. p \in Int /\ q \in Int /\ p + s <= q
    BY <2>1
  <2>. HIDE DEF s, p, q
  <2>. QED BY <1>1, <2>2, <2>3, <2>4
<1>4. /\ a.day \in Int /\ b.day \in Int /\ a.sec \in Int /\ b.sec \in Int
      /\ asn1TimeToTimet(a) \in Int /\ asn1TimeToTimet(b) \in Int
  BY <1>1 DEF IsMoment, asn1TimeToTimet
<1>5. CASE a.day < b.day
  BY <1>3, <1>4, <1>5 DEF Chronological
<1>6. CASE b.day < a.day
  BY <1>3, <1>4, <1>6 DEF Chronological
<1>7. CASE a.day = b.day
  <2> DEFINE p == a.day * s
  <2>1. asn1TimeToTimet(a) = p + a.sec /\ asn1TimeToTimet(b) = p + b.sec /\ p \in Int
    BY <1>1, <1>4, <1>7 DEF asn1TimeToTimet
  <2>. HIDE DEF p
  <2>. QED BY <1>4, <1>7, <2>1 DEF Chronological
<1>. QED BY <1>4, <1>5, <1>6, <1>7

\* A list as OpenSSL has it.
LEMMA ListIndices ==
    ASSUME NEW list, IsList(list)
    PROVE  Len(list) \in Nat /\ DOMAIN list = 1 .. Len(list)
BY LenProperties DEF IsList

\* A certificate is revoked exactly if its serial number is among those of the CRL
\* (CrlStore.cpp:130), for CRLs of every length.
THEOREM RevokedIsFoundHolds == CrlSpec => []RevokedIsFound
<1>1. CrlInv => RevokedIsFound
  <2> SUFFICES ASSUME CrlInv, Parsed, NEW serial \in Serials \ { << 0 >> }
               PROVE  isRevoked(serial) =
                        \E k \in DOMAIN TheCrl.revoked : TheCrl.revoked[k] = serial
    BY DEF RevokedIsFound
  <2>1. store[4] = getRevoked(TheCrl.revoked)
    BY StoreOfParsed
  <2>2. bn2Vec(serial) = serial
    BY DEF bn2Vec
  <2>3. DOMAIN store[4] = DOMAIN TheCrl.revoked
    BY <2>1 DEF getRevoked
  <2>4. \A k \in DOMAIN TheCrl.revoked : store[4][k].serialNumber = TheCrl.revoked[k]
    BY <2>1 DEF getRevoked, RevokedEntry
  <2>. QED BY <2>2, <2>3, <2>4 DEF isRevoked
<1>. QED BY <1>1, CrlInvInit, CrlInvStep, PTL DEF CrlSpec

\* The extensions asked for are found if and only if they are there.
LEMMA ExtensionsFound ==
    ASSUME CrlInv, Parsed
    PROVE  checkStandardExtensions(CRL_REQUIRED_EXTENSIONS) <=>
              { "crl_number", "authority_key_identifier" }
                 \subseteq { TheCrl.extensions[k].nid : k \in DOMAIN TheCrl.extensions }
<1>1. store[3] = getExtensions(TheCrl.extensions) /\ IsList(TheCrl.extensions)
  BY StoreOfParsed DEF IsDecodedCrl
<1> DEFINE n == Len(TheCrl.extensions)
<1>2. n \in Nat /\ DOMAIN TheCrl.extensions = 1 .. n
  BY <1>1, ListIndices
<1>3. DOMAIN store[3] = 1 .. n
  BY <1>1, <1>2 DEF getExtensions
<1>4. \A k \in 1 .. n : store[3][k].opensslNid = TheCrl.extensions[k].nid
  BY <1>1, <1>2 DEF getExtensions, getExtension
<1>5. Len(store[3]) = n
  <2> DEFINE S == { getExtension(TheCrl.extensions[k]) : k \in 1 .. n }
  <2>1. store[3] \in [ 1 .. n -> S ]
    BY <1>1, <1>2 DEF getExtensions
  <2>. HIDE DEF S, n
  <2>2. store[3] \in Seq(S)
    BY <1>2, <2>1, SeqDef
  <2>3. Len(store[3]) \in Nat /\ 1 .. Len(store[3]) = 1 .. n
    BY <1>3, <2>2, LenProperties
  <2>. QED BY <1>2, <2>3, SameEnd
<1>. HIDE DEF n
<1>6. /\ DOMAIN CRL_REQUIRED_EXTENSIONS = 1 .. 2 /\ Len(CRL_REQUIRED_EXTENSIONS) = 2
      /\ CRL_REQUIRED_EXTENSIONS[1] = "crl_number"
      /\ CRL_REQUIRED_EXTENSIONS[2] = "authority_key_identifier"
  BY DEF CRL_REQUIRED_EXTENSIONS
<1>7. checkStandardExtensions(CRL_REQUIRED_EXTENSIONS) <=>
         /\ 2 <= n
         /\ \E k \in 1 .. n : TheCrl.extensions[k].nid = "crl_number"
         /\ \E k \in 1 .. n : TheCrl.extensions[k].nid = "authority_key_identifier"
  <2>1. checkStandardExtensions(CRL_REQUIRED_EXTENSIONS) <=>
          /\ 2 <= n
          /\ \A i \in 1 .. 2 :
                \E k \in 1 .. n : TheCrl.extensions[k].nid = CRL_REQUIRED_EXTENSIONS[i]
    <3> DEFINE Found(i) == \E k \in DOMAIN store[3] :
                             store[3][k].opensslNid = CRL_REQUIRED_EXTENSIONS[i]
    <3>1. checkStandardExtensions(CRL_REQUIRED_EXTENSIONS) <=>
            /\ Len(CRL_REQUIRED_EXTENSIONS) <= Len(store[3])
            /\ \A i \in DOMAIN CRL_REQUIRED_EXTENSIONS : Found(i)
      BY DEF checkStandardExtensions
    <3>2. \A i : Found(i) <=>
            \E k \in 1 .. n : TheCrl.extensions[k].nid = CRL_REQUIRED_EXTENSIONS[i]
      BY <1>3, <1>4
    <3>. HIDE DEF Found
    <3>. QED BY <1>5, <1>6, <3>1, <3>2, Zenon
  <2>. QED BY <1>6, <2>1
<1>8. ASSUME NEW j \in 1 .. n, TheCrl.extensions[j].nid = "crl_number",
             NEW k \in 1 .. n, TheCrl.extensions[k].nid = "authority_key_identifier"
      PROVE  2 <= n
  <2>1. j # k
    BY <1>8
  <2>. QED BY <1>2, <2>1
<1>. QED BY <1>2, <1>7, <1>8

\* A CRL is parsed exactly if its text can be taken and has what the store needs, and what
\* the store answers is what the text says (CrlStore.cpp, PckParser.cpp, AppCore.cpp), for
\* texts, names and lists of every length.
THEOREM CrlIsReadAsItStandsHolds == CrlSpec => []CrlIsReadAsItStands
<1>1. CrlInv => CrlIsReadAsItStands
  <2> SUFFICES ASSUME CrlInv
               PROVE  CrlIsReadAsItStands
    OBVIOUS
  <2>1. ASSUME crlStep \in { "parsed", "refused" }
        PROVE  Parsed <=> TextIsTaken /\ \E c \in crlText.content : IsComplete(c)
    <3>1. CASE Parsed
      <4>1. IsComplete(TheCrl) /\ TheCrl \in crlText.content /\ TextIsTaken
        BY <3>1, StoreOfParsed DEF IsComplete
      <4>. QED BY <3>1, <4>1
    <3>2. CASE ~Parsed
      BY <2>1, <3>2 DEF Parsed, CrlInv
    <3>. QED BY <3>1, <3>2
  <2>2. ASSUME Parsed
        PROVE  /\ crl = crlText.content
               /\ \A time \in CrlTimes :
                     isValid(asn1TimeToTimet(time)) <=>
                        /\ Chronological(TheCrl.lastUpdate, time)
                        /\ Chronological(time, TheCrl.nextUpdate)
               /\ \A k \in DOMAIN TheCrl.issuer :
                     LET entry == TheCrl.issuer[k]
                     IN  /\ entry.nid \in NameNids /\ entry.encoding # "wide"
                         /\ \A j \in 1 .. (k - 1) : TheCrl.issuer[j].nid # entry.nid
                         => store[1].entries[entry.nid] = entry.value
    <3>1. IsMoment(TheCrl.lastUpdate) /\ IsMoment(TheCrl.nextUpdate) /\ IsName(TheCrl.issuer)
      BY <2>2, StoreOfParsed DEF IsDecodedCrl
    <3>2. ASSUME NEW time \in CrlTimes
          PROVE  isValid(asn1TimeToTimet(time)) <=>
                    /\ Chronological(TheCrl.lastUpdate, time)
                    /\ Chronological(time, TheCrl.nextUpdate)
      <4>1. IsMoment(time)
        BY CrlsAssumption
      <4>2. /\ store[2].notBeforeTime = asn1TimeToTimet(TheCrl.lastUpdate)
            /\ store[2].notAfterTime = asn1TimeToTimet(TheCrl.nextUpdate)
        BY <2>2, StoreOfParsed DEF asn1TimePeriodToValidity
      <4>. QED BY <3>1, <4>1, <4>2, TimesInOrder DEF isValid
    <3>3. ASSUME NEW k \in DOMAIN TheCrl.issuer, TheCrl.issuer[k].nid \in NameNids,
                 TheCrl.issuer[k].encoding # "wide",
                 \A j \in 1 .. (k - 1) : TheCrl.issuer[j].nid # TheCrl.issuer[k].nid
          PROVE  store[1].entries[TheCrl.issuer[k].nid] = TheCrl.issuer[k].value
      <4>1. store[1].entries[TheCrl.issuer[k].nid]
              = getNameEntry(TheCrl.issuer, TheCrl.issuer[k].nid)
        BY <2>2, <3>3, StoreOfParsed DEF getIssuer
      <4>2. IsFirst(TheCrl.issuer, TheCrl.issuer[k].nid, k)
        BY <3>3 DEF IsFirst
      <4>3. getNameEntry(TheCrl.issuer, TheCrl.issuer[k].nid) = EntryText(TheCrl.issuer[k])
        BY <3>1, <4>2, FirstEntry
      <4>. QED BY <3>3, <4>1, <4>3 DEF EntryText
    <3>. QED BY <2>2, <3>2, <3>3, StoreOfParsed
  <2>3. Parsed \in BOOLEAN /\ checkStandardExtensions(CRL_REQUIRED_EXTENSIONS) \in BOOLEAN
    BY DEF Parsed, checkStandardExtensions
  <2>. QED BY <2>1, <2>2, <2>3, ExtensionsFound DEF CrlIsReadAsItStands, TextIsTaken
<1>. QED BY <1>1, CrlInvInit, CrlInvStep, PTL DEF CrlSpec

(***************************************************************************)
(* The certificate.                                                        *)
(***************************************************************************)
SetterNames == { Setters[k] : k \in 1 .. 10 }

MembersUpTo(n) ==
    /\ certMembers \in [ 1 .. n -> { MemberOf(Setters[k]) : k \in 1 .. 10 } ]
    /\ \A k \in 1 .. n : certMembers[k] = MemberOf(Setters[k])

\* The members set so far, in their order.
MembersInv ==
    /\ x509 \in X509Texts /\ crlIssuer \in IssuerNames
    /\ setter \in { "decode", "refused", "parsed" } \union SetterNames
    /\ setter = "decode" => certMembers = << >>
    /\ \A k \in 1 .. 10 : setter = Setters[k] => MembersUpTo(k - 1)
    /\ setter = "parsed" => MembersUpTo(10)

\* Each setter has its place.
LEMMA SetterPlaces ==
    /\ Len(Setters) = 10 /\ DOMAIN Setters = 1 .. 10
    /\ \A k \in 1 .. 10 : Setters[k] \notin { "decode", "refused", "parsed" }
    /\ \A j, k \in 1 .. 10 : Setters[j] = Setters[k] => j = k
BY DEF Setters

LEMMA MembersInvInit == X509Init => MembersInv
BY SetterPlaces DEF X509Init, X509Start, MembersInv

LEMMA MembersKept ==
    ASSUME NEW n \in Nat, MembersUpTo(n), UNCHANGED <<x509, certMembers>>
    PROVE  MembersUpTo(n)'
<1>1. \A k \in 1 .. 10 : MemberOf(Setters[k])' = MemberOf(Setters[k])
  BY DEF MemberOf
<1>2. { MemberOf(Setters[k]) : k \in 1 .. 10 }' = { MemberOf(Setters[k]) : k \in 1 .. 10 }
  BY <1>1
<1>3. certMembers' = certMembers
  OBVIOUS
<1>4. \A k \in 1 .. n : certMembers'[k] = MemberOf(Setters[k])'
  <2>1. \A k \in 1 .. n : certMembers[k] = MemberOf(Setters[k])
    BY DEF MembersUpTo
  <2>. QED BY <1>3, <2>1 DEF MemberOf
<1>. QED BY <1>2, <1>3, <1>4 DEF MembersUpTo

LEMMA MembersInvStep == MembersInv /\ [X509Next]_x509Vars => MembersInv'
<1> SUFFICES ASSUME MembersInv, [X509Next]_x509Vars
             PROVE  MembersInv'
  OBVIOUS
<1>1. CASE DecodePem
  <2>1. CASE setter' = Setters[1] /\ UNCHANGED <<x509, thrown, certMembers, crlIssuer>>
    <3>1. MembersUpTo(0)'
      BY <1>1, <2>1 DEF MembersInv, MembersUpTo, DecodePem
    <3>. QED BY <2>1, <3>1, SetterPlaces DEF MembersInv, SetterNames
  <2>2. CASE Refuse({ "FormatException" })
    BY <2>2, SetterPlaces DEF MembersInv, Refuse
  <2>. QED BY <1>1, <2>1, <2>2 DEF DecodePem
<1>2. ASSUME NEW k \in DOMAIN Setters, Set(k)
      PROVE  MembersInv'
  <2>0. k \in 1 .. 10
    BY SetterPlaces
  <2>1. CASE Refuse(Throws(Setters[k]))
    BY <2>1, SetterPlaces DEF MembersInv, Refuse
  <2>2. CASE /\ certMembers' = Append(certMembers, MemberOf(Setters[k]))
             /\ setter' = IF k = Len(Setters) THEN "parsed" ELSE Setters[k + 1]
             /\ UNCHANGED <<x509, thrown, crlIssuer>>
    <3> DEFINE S == { MemberOf(Setters[j]) : j \in 1 .. 10 }
               e == MemberOf(Setters[k])
    <3>1. /\ certMembers \in [ 1 .. k - 1 -> S ]
          /\ \A j \in 1 .. k - 1 : certMembers[j] = MemberOf(Setters[j])
      BY <1>2, <2>0 DEF MembersInv, MembersUpTo, Set
    <3>2. e \in S
      BY <2>0
    <3>3. S' = S /\ \A j \in 1 .. 10 : MemberOf(Setters[j])' = MemberOf(Setters[j])
      BY <2>2 DEF MemberOf
    <3>4. certMembers' = Append(certMembers, e)
      BY <2>2
    <3>. HIDE DEF S, e
    <3>5. /\ Append(certMembers, e) \in [ 1 .. (k - 1) + 1 -> S ]
          /\ Append(certMembers, e)[(k - 1) + 1] = e
          /\ \A j \in 1 .. k - 1 : Append(certMembers, e)[j] = certMembers[j]
      <4>1. k - 1 \in Nat
        BY <2>0
      <4>. QED BY <3>1, <3>2, <4>1, AppendsOne
    <3>6. certMembers' \in [ 1 .. k -> S' ]
      BY <2>0, <3>3, <3>4, <3>5
    <3>7. \A j \in 1 .. k : certMembers'[j] = MemberOf(Setters[j])
      BY <2>0, <3>1, <3>4, <3>5 DEF e
    <3>8. MembersUpTo(k)'
      BY <2>0, <3>3, <3>6, <3>7 DEF MembersUpTo, S
    <3>9. CASE k = 10
      <4>1. setter' = "parsed"
        BY <2>2, <3>9, SetterPlaces
      <4>. QED BY <2>2, <3>8, <3>9, <4>1, SetterPlaces DEF MembersInv
    <3>10. CASE k # 10
      <4>1. setter' = Setters[k + 1] /\ k + 1 \in 1 .. 10
        BY <2>0, <2>2, <3>10, SetterPlaces
      <4>2. \A j \in 1 .. 10 : setter' = Setters[j] => MembersUpTo(j - 1)'
        <5> SUFFICES ASSUME NEW j \in 1 .. 10, setter' = Setters[j]
                     PROVE  MembersUpTo(j - 1)'
          OBVIOUS
        <5>1. j = k + 1
          BY <4>1, SetterPlaces
        <5>2. j - 1 = k
          BY <5>1, <2>0
        <5>. QED BY <3>8, <5>2
      <4>. QED BY <2>2, <4>1, <4>2, SetterPlaces DEF MembersInv, SetterNames
    <3>. QED BY <3>9, <3>10
  <2>. QED BY <1>2, <2>1, <2>2 DEF Set
<1>3. CASE UNCHANGED x509Vars
  <2>1. UNCHANGED <<x509, certMembers, setter, crlIssuer>>
    BY <1>3 DEF x509Vars
  <2>2. \A n \in Nat : MembersUpTo(n) => MembersUpTo(n)'
    BY <2>1, MembersKept
  <2>3. \A k \in 1 .. 10 : setter' = Setters[k] => MembersUpTo(k - 1)'
    <3>1. \A k \in 1 .. 10 : k - 1 \in Nat
      OBVIOUS
    <3>. QED BY <2>1, <2>2, <3>1 DEF MembersInv
  <2>. QED BY <2>1, <2>2, <2>3 DEF MembersInv
<1>. QED BY <1>1, <1>2, <1>3 DEF X509Next

\* The accessors of a certificate that has been read.
LEMMA MembersOfParsed ==
    ASSUME MembersInv, setter = "parsed"
    PROVE  /\ Member("subject") = DistinguishedName(x509.subject)
           /\ Member("issuer") = DistinguishedName(x509.issuer)
<1>1. \A k \in 1 .. 10 : certMembers[k] = MemberOf(Setters[k])
  BY DEF MembersInv, MembersUpTo
<1>2. (CHOOSE k \in DOMAIN Setters : Setters[k] = "subject") = 6
  BY DEF Setters
<1>3. (CHOOSE k \in DOMAIN Setters : Setters[k] = "issuer") = 7
  BY DEF Setters
<1>4. Member("subject") = MemberOf("subject") /\ Member("issuer") = MemberOf("issuer")
  BY <1>1, <1>2, <1>3 DEF Member, Setters
<1>. QED BY <1>4 DEF MemberOf

\* What two names of a certificate and of a CRL have in common is the same whether the
\* code of CRLs has read them or that of certificates (PckParser.cpp:214-276,
\* ParserUtils.cpp:117-186, DistinguishedName.cpp:84-90), for all names of every length.
THEOREM NamesAreJudgedAlikeHolds == X509Spec => []NamesAreJudgedAlike
<1>1. MembersInv => NamesAreJudgedAlike
  <2> SUFFICES ASSUME MembersInv, setter = "parsed"
               PROVE  /\ IssuedBySubject =>
                           x509NameToString(x509.subject) = x509NameToString(crlIssuer)
                      /\ x509.subject = crlIssuer => IssuedBySubject
                      /\ PlainName(x509.subject) /\ PlainName(crlIssuer) =>
                           IssuedBySubject =
                              (x509NameToString(x509.subject) = x509NameToString(crlIssuer))
                      /\ IssuedBySubject /\ SameIssuer
                            /\ PlainName(x509.issuer) /\ PlainName(x509.subject)
                           => IsSelfSigned
    BY DEF NamesAreJudgedAlike
  <2>1. IsName(x509.subject) /\ IsName(x509.issuer) /\ IsName(crlIssuer)
    BY X509Assumption DEF MembersInv, IsDecodedX509
  <2>2. /\ Member("subject") = getIssuer(x509.subject)
        /\ Member("issuer") = getIssuer(x509.issuer)
    BY <2>1, MembersOfParsed, NameEntriesAgree
  <2>3. \A name : getIssuer(name).raw = x509NameToString(name)
    BY DEF getIssuer
  <2>4. IssuedBySubject <=> /\ x509NameToString(crlIssuer) = x509NameToString(x509.subject)
                            /\ getIssuer(crlIssuer).entries = getIssuer(x509.subject).entries
    BY <2>2, <2>3 DEF IssuedBySubject
  <2>5. SameIssuer <=> x509NameToString(crlIssuer) = x509NameToString(x509.issuer)
    BY <2>2, <2>3 DEF SameIssuer
  <2>6. IsSelfSigned <=> getIssuer(x509.issuer).entries = getIssuer(x509.subject).entries
    BY <2>2 DEF IsSelfSigned, SameName
  <2>7. ASSUME PlainName(x509.subject), PlainName(crlIssuer),
               x509NameToString(x509.subject) = x509NameToString(crlIssuer)
        PROVE  IssuedBySubject
    BY <2>1, <2>4, <2>7, PlainNamesAgree
  <2>8. ASSUME IssuedBySubject, SameIssuer, PlainName(x509.issuer), PlainName(x509.subject)
        PROVE  IsSelfSigned
    BY <2>1, <2>4, <2>5, <2>6, <2>8, PlainNamesAgree
  <2>9. IssuedBySubject \in BOOLEAN
    BY DEF IssuedBySubject
  <2>. QED BY <2>4, <2>7, <2>8, <2>9
<1>. QED BY <1>1, MembersInvInit, MembersInvStep, PTL DEF X509Spec

(***************************************************************************)
(* Which certificates are read, and what they answer.                      *)
(***************************************************************************)
PassedUpTo(n) == x509.decodes /\ \A k \in 1 .. n : Throws(Setters[k]) = {}

\* The setters so far have not thrown, or the one that has is the first that does.
ThrownInv ==
    /\ setter \in { "decode", "refused", "parsed" } \union SetterNames
    /\ setter # "refused" => thrown = {}
    /\ \A k \in 1 .. 10 : setter = Setters[k] => PassedUpTo(k - 1)
    /\ setter = "parsed" => PassedUpTo(10)
    /\ setter = "refused" =>
          \/ ~x509.decodes /\ thrown = { "FormatException" }
          \/ \E k \in 1 .. 10 :
                PassedUpTo(k - 1) /\ thrown = Throws(Setters[k]) /\ Throws(Setters[k]) # {}

LEMMA ThrownInvInit == X509Init => ThrownInv
BY SetterPlaces DEF X509Init, X509Start, ThrownInv

LEMMA PassedKept ==
    ASSUME UNCHANGED x509
    PROVE  /\ \A n \in Int : PassedUpTo(n)' <=> PassedUpTo(n)
           /\ \A k \in 1 .. 10 : Throws(Setters[k])' = Throws(Setters[k])
BY DEF PassedUpTo, Throws

LEMMA ThrownInvStep == ThrownInv /\ [X509Next]_x509Vars => ThrownInv'
<1> SUFFICES ASSUME ThrownInv, [X509Next]_x509Vars
             PROVE  ThrownInv'
  OBVIOUS
<1>0. x509' = x509
  BY DEF X509Next, x509Vars, DecodePem, Set, Refuse
<1>a. /\ \A n \in Int : PassedUpTo(n)' <=> PassedUpTo(n)
      /\ \A k \in 1 .. 10 : Throws(Setters[k])' = Throws(Setters[k])
  BY <1>0, PassedKept
<1>1. CASE DecodePem
  <2>1. CASE x509.decodes
    <3>1. setter' = Setters[1] /\ thrown' = thrown
      BY <1>1, <2>1 DEF DecodePem
    <3>2. PassedUpTo(0)
      BY <2>1 DEF PassedUpTo
    <3>3. thrown' = {}
      BY <1>1, <3>1 DEF DecodePem, ThrownInv
    <3>. QED BY <1>a, <3>1, <3>2, <3>3, SetterPlaces DEF ThrownInv, SetterNames
  <2>2. CASE ~x509.decodes
    BY <1>0, <1>1, <2>2, SetterPlaces DEF DecodePem, Refuse, ThrownInv
  <2>. QED BY <2>1, <2>2
<1>2. ASSUME NEW k \in DOMAIN Setters, Set(k)
      PROVE  ThrownInv'
  <2>0. k \in 1 .. 10 /\ PassedUpTo(k - 1) /\ thrown = {} /\ k - 1 \in Int
    BY <1>2, SetterPlaces DEF Set, ThrownInv
  <2>1. CASE Throws(Setters[k]) # {}
    <3>1. setter' = "refused" /\ thrown' = Throws(Setters[k])
      BY <1>2, <2>1 DEF Set, Refuse
    <3>2. PassedUpTo(k - 1)' /\ thrown' = Throws(Setters[k])' /\ Throws(Setters[k])' # {}
      BY <1>a, <2>0, <2>1, <3>1
    <3>. QED BY <2>0, <3>1, <3>2, SetterPlaces DEF ThrownInv
  <2>2. CASE Throws(Setters[k]) = {}
    <3>1. PassedUpTo(k)'
      BY <1>a, <2>0, <2>2 DEF PassedUpTo
    <3>2. /\ setter' = IF k = 10 THEN "parsed" ELSE Setters[k + 1]
          /\ thrown' = {}
      BY <1>2, <2>0, <2>2, SetterPlaces DEF Set
    <3>3. CASE k = 10
      BY <3>1, <3>2, <3>3, SetterPlaces DEF ThrownInv
    <3>4. CASE k # 10
      <4>1. setter' = Setters[k + 1] /\ k + 1 \in 1 .. 10
        BY <2>0, <3>2, <3>4
      <4>2. \A j \in 1 .. 10 : setter' = Setters[j] => PassedUpTo(j - 1)'
        <5> SUFFICES ASSUME NEW j \in 1 .. 10, setter' = Setters[j]
                     PROVE  PassedUpTo(j - 1)'
          OBVIOUS
        <5>1. j = k + 1
          BY <4>1, SetterPlaces
        <5>2. j - 1 = k
          BY <2>0, <5>1
        <5>. QED BY <3>1, <5>2
      <4>. QED BY <3>2, <4>1, <4>2, SetterPlaces DEF ThrownInv, SetterNames
    <3>. QED BY <3>3, <3>4
  <2>. QED BY <2>1, <2>2
<1>3. CASE UNCHANGED x509Vars
  <2>1. setter' = setter /\ thrown' = thrown
    BY <1>3 DEF x509Vars
  <2>2. \A k \in 1 .. 10 : PassedUpTo(k - 1)' <=> PassedUpTo(k - 1)
    BY <1>a
  <2>. QED BY <1>0, <1>a, <2>1, <2>2 DEF ThrownInv
<1>. QED BY <1>1, <1>2, <1>3 DEF X509Next

\* What each setter asks for.
LEMMA ThrowsAre ==
    /\ \A k \in 1 .. 10 : k \notin { 3, 8, 9 } => Throws(Setters[k]) = {}
    /\ Throws(Setters[3]) = IF x509.signature.octets = << >> \/ ~x509.signature.decodes
                            THEN { "FormatException" } ELSE {}
    /\ Throws(Setters[8]) = IF IsTime(x509.notBefore) /\ IsTime(x509.notAfter)
                            THEN {} ELSE { "FormatException" }
    /\ Throws(Setters[9]) = IF RequiredNids \subseteq NidsOf(x509.extensions)
                            THEN {} ELSE { "InvalidExtensionException" }
<1>1. /\ Setters[3] = "signature" /\ Setters[8] = "validity" /\ Setters[9] = "extensions"
      /\ \A k \in 1 .. 10 : k \notin { 3, 8, 9 } =>
            Setters[k] \notin { "signature", "validity", "extensions" }
  BY DEF Setters
<1>2. \A member : member \notin { "signature", "validity", "extensions" } => Throws(member) = {}
  BY DEF Throws
<1>3. \A k \in 1 .. 10 : k \notin { 3, 8, 9 } => Throws(Setters[k]) = {}
  BY <1>1, <1>2
<1>4. Throws("signature") = IF x509.signature.octets = << >> \/ ~x509.signature.decodes
                            THEN { "FormatException" } ELSE {}
  BY DEF Throws
<1>5. Throws("validity") = IF IsTime(x509.notBefore) /\ IsTime(x509.notAfter)
                           THEN {} ELSE { "FormatException" }
  BY DEF Throws
<1>6. Throws("extensions") = IF RequiredNids \subseteq NidsOf(x509.extensions)
                             THEN {} ELSE { "InvalidExtensionException" }
  BY DEF Throws
<1>. QED BY <1>1, <1>3, <1>4, <1>5, <1>6

LEMMA ReadableIs == PassedUpTo(10) <=> IsReadable
<1>1. PassedUpTo(10) <=> /\ x509.decodes /\ Throws(Setters[3]) = {}
                         /\ Throws(Setters[8]) = {} /\ Throws(Setters[9]) = {}
  <2>1. \A k \in 1 .. 10 : k \notin { 3, 8, 9 } => Throws(Setters[k]) = {}
    BY ThrowsAre
  <2>2. (\A k \in 1 .. 10 : Throws(Setters[k]) = {}) <=>
           \A k \in { 3, 8, 9 } : Throws(Setters[k]) = {}
    BY <2>1
  <2>. QED BY <2>2 DEF PassedUpTo
<1>. QED BY <1>1, ThrowsAre DEF IsReadable

\* A certificate is refused for what it lacks.
LEMMA RefusedIs ==
    ASSUME ThrownInv, setter = "refused"
    PROVE  /\ ~IsReadable
           /\ thrown = { "InvalidExtensionException" } =>
                 /\ ~(RequiredNids \subseteq NidsOf(x509.extensions))
                 /\ x509.decodes /\ x509.signature.decodes /\ IsTime(x509.notAfter)
<1>1. CASE ~x509.decodes /\ thrown = { "FormatException" }
  BY <1>1 DEF IsReadable
<1>2. ASSUME NEW k \in 1 .. 10, PassedUpTo(k - 1), thrown = Throws(Setters[k]),
             Throws(Setters[k]) # {}
      PROVE  /\ ~PassedUpTo(10)
             /\ thrown = { "InvalidExtensionException" } =>
                   /\ ~(RequiredNids \subseteq NidsOf(x509.extensions))
                   /\ x509.decodes /\ x509.signature.decodes /\ IsTime(x509.notAfter)
  <2>1. ~PassedUpTo(10)
    BY <1>2 DEF PassedUpTo
  <2>2. ASSUME thrown = { "InvalidExtensionException" }
        PROVE  /\ ~(RequiredNids \subseteq NidsOf(x509.extensions))
               /\ x509.decodes /\ x509.signature.decodes /\ IsTime(x509.notAfter)
    <3>1. k = 9
      <4>1. "FormatException" # "InvalidExtensionException"
        OBVIOUS
      <4>2. Throws(Setters[3]) # thrown /\ Throws(Setters[8]) # thrown
        BY <2>2, <4>1, ThrowsAre
      <4>3. k \in { 3, 8, 9 }
        BY <1>2, ThrowsAre
      <4>. QED BY <1>2, <4>2, <4>3
    <3>2. x509.decodes /\ Throws(Setters[3]) = {} /\ Throws(Setters[8]) = {}
      BY <1>2, <3>1 DEF PassedUpTo
    <3>. QED BY <1>2, <3>1, <3>2, ThrowsAre
  <2>. QED BY <2>1, <2>2
<1>. QED BY <1>1, <1>2, ReadableIs DEF ThrownInv

\* Of the members of a set of positions, each number up to their own is the rank of one.
LEMMA RankFound ==
    ASSUME NEW n \in Nat, NEW S \in SUBSET (1 .. n)
    PROVE  /\ Cardinality(S) \in 0 .. n
           /\ \A i \in 1 .. Cardinality(S) : \E k \in S : Cardinality(S \intersect 1 .. k) = i
<1>1. IsFiniteSet(1 .. n) /\ Cardinality(1 .. n) = n
  BY FS_Interval
<1>2. IsFiniteSet(S) /\ Cardinality(S) <= n
  BY <1>1, FS_Subset
<1>3. Cardinality(S) \in Nat
  BY <1>2, FS_CardinalityType
<1>4. \A m \in Nat : IsFiniteSet(S \intersect 1 .. m) /\ Cardinality(S \intersect 1 .. m) \in Nat
  <2> SUFFICES ASSUME NEW m \in Nat
               PROVE  /\ IsFiniteSet(S \intersect 1 .. m)
                      /\ Cardinality(S \intersect 1 .. m) \in Nat
    OBVIOUS
  <2>1. IsFiniteSet(S \intersect 1 .. m)
    BY <1>2, FS_Subset
  <2>. QED BY <2>1, FS_CardinalityType
<1>5. ASSUME NEW i \in 1 .. Cardinality(S)
      PROVE  \E k \in S : Cardinality(S \intersect 1 .. k) = i
  <2> DEFINE Enough == { m \in Nat : Cardinality(S \intersect 1 .. m) >= i }
  <2>1. n \in Enough
    <3>1. S \intersect 1 .. n = S
      OBVIOUS
    <3>. QED BY <1>3, <3>1
  <2>2. PICK m \in Enough : \A j \in Enough : m <= j
    <3>1. Enough \in SUBSET Nat /\ Enough # {}
      BY <2>1
    <3>. HIDE DEF Enough
    <3>. QED BY <3>1, LeastNumber
  <2>3. m # 0
    <3>1. S \intersect 1 .. 0 = {}
      OBVIOUS
    <3>2. Cardinality(S \intersect 1 .. 0) = 0
      BY <3>1, FS_EmptySet
    <3>. QED BY <1>3, <2>2, <3>2
  <2> DEFINE before == S \intersect 1 .. (m - 1)
  <2>4. m - 1 \in Nat /\ m - 1 \notin Enough
    BY <2>2, <2>3
  <2>5. IsFiniteSet(before) /\ Cardinality(before) \in Nat /\ Cardinality(before) < i
    BY <1>3, <1>4, <2>4
  <2>6. Cardinality(S \intersect 1 .. m) >= i
    BY <2>2
  <2>7. m \in S
    <3> SUFFICES ASSUME m \notin S
                 PROVE  FALSE
      OBVIOUS
    <3>1. S \intersect 1 .. m = before
      BY <2>2
    <3>. HIDE DEF before
    <3>. QED BY <1>3, <2>5, <2>6, <3>1
  <2>8. S \intersect 1 .. m = before \union { m } /\ m \notin before
    BY <2>2, <2>7
  <2>. HIDE DEF before, Enough
  <2>9. Cardinality(S \intersect 1 .. m) = Cardinality(before) + 1
    BY <2>5, <2>8, FS_AddElement
  <2>10. Cardinality(S \intersect 1 .. m) = i
    <3> DEFINE a == Cardinality(before)
               b == Cardinality(S \intersect 1 .. m)
    <3>1. a \in Nat /\ a < i /\ b >= i /\ b = a + 1 /\ i \in Nat
      BY <1>3, <2>5, <2>6, <2>9
    <3>. HIDE DEF a, b
    <3>2. b = i
      BY <3>1
    <3>. QED BY <3>2 DEF b
  <2>. QED BY <2>7, <2>10, Zenon
<1>. QED BY <1>2, <1>3, <1>5

\* The letters of a text.
LEMMA TextIndices ==
    ASSUME NEW text \in OctetStrings
    PROVE  /\ Len(text) \in Nat /\ DOMAIN text = 1 .. Len(text)
           /\ \A k \in 1 .. Len(text) : text[k] \in Octets255
<1>1. text \in Seq(Octets255)
  BY DEF OctetStrings
<1>. QED BY <1>1, LenProperties

\* A list of octets.
LEMMA OctetStringIs ==
    ASSUME NEW n \in Nat, NEW list \in [ 1 .. n -> Octets255 ]
    PROVE  list \in OctetStrings /\ Len(list) = n
<1>1. list \in Seq(Octets255)
  BY SeqDef
<1>2. Len(list) \in Nat /\ DOMAIN list = 1 .. Len(list)
  BY <1>1, LenProperties
<1>3. 1 .. Len(list) = 1 .. n
  BY <1>2
<1>. QED BY <1>1, <1>2, <1>3, SameEnd DEF OctetStrings

\* What is kept are letters of the text, no more than it has.
LEMMA LettersKept ==
    ASSUME NEW text \in OctetStrings
    PROVE  /\ Cardinality(Kept(text)) \in 0 .. Len(text)
           /\ WithoutNewLines(text) \in [ 1 .. Cardinality(Kept(text)) -> Octets255 ]
           /\ Len(WithoutNewLines(text)) = Cardinality(Kept(text))
           /\ \A n \in 1 .. Cardinality(Kept(text)) :
                 \E k \in DOMAIN text : WithoutNewLines(text)[n] = text[k]
<1> DEFINE S == Kept(text)
           c == Cardinality(Kept(text))
           At(n) == CHOOSE k \in S : Cardinality(KeptUpTo(text, k)) = n
<1>1. /\ Len(text) \in Nat /\ DOMAIN text = 1 .. Len(text)
      /\ \A k \in 1 .. Len(text) : text[k] \in Octets255
  BY TextIndices
<1>2. S \in SUBSET (1 .. Len(text))
  BY <1>1 DEF Kept
<1>3. \A k : KeptUpTo(text, k) = S \intersect 1 .. k
  BY DEF KeptUpTo
<1>4. c \in 0 .. Len(text) /\ \A i \in 1 .. c : \E k \in S : Cardinality(S \intersect 1 .. k) = i
  <2>. HIDE DEF S
  <2>1. Cardinality(S) = c
    BY DEF S
  <2>. QED BY <1>1, <1>2, <2>1, RankFound
<1>5. ASSUME NEW n \in 1 .. c
      PROVE  At(n) \in S
  <2>1. \E k \in S : Cardinality(KeptUpTo(text, k)) = n
    BY <1>3, <1>4
  <2>. HIDE DEF S
  <2>. QED BY <2>1
<1>6. WithoutNewLines(text) = [ n \in 1 .. c |-> text[At(n)] ]
  BY DEF WithoutNewLines
<1>. HIDE DEF At, S, c
<1>7. \A n \in 1 .. c : At(n) \in 1 .. Len(text)
  BY <1>2, <1>5
<1>8. WithoutNewLines(text) \in [ 1 .. c -> Octets255 ]
  BY <1>1, <1>6, <1>7
<1>9. \A n \in 1 .. c : \E k \in DOMAIN text : WithoutNewLines(text)[n] = text[k]
  BY <1>1, <1>6, <1>7
<1>10. Len(WithoutNewLines(text)) = c
  BY <1>1, <1>4, <1>8, OctetStringIs
<1>. QED BY <1>4, <1>8, <1>9, <1>10 DEF c

\* A printed value is what is kept, and zeros.
LEMMA PrintedIs ==
    ASSUME NEW text \in OctetStrings
    PROVE  /\ PrintedValue(text) \in OctetStrings
           /\ Len(PrintedValue(text)) = Len(text)
           /\ \A k \in 1 .. Len(text) :
                 PrintedValue(text)[k] = IF k <= Cardinality(Kept(text))
                                         THEN WithoutNewLines(text)[k] ELSE 0
<1> DEFINE kept == WithoutNewLines(text)
           c == Cardinality(Kept(text))
<1>1. Len(text) \in Nat /\ DOMAIN text = 1 .. Len(text)
  BY TextIndices
<1>2. c \in 0 .. Len(text) /\ Len(kept) = c /\ kept \in [ 1 .. c -> Octets255 ]
  BY LettersKept
<1>3. PrintedValue(text) = [ k \in 1 .. Len(text) |-> IF k <= c THEN kept[k] ELSE 0 ]
  <2>1. PrintedValue(text) = [ k \in DOMAIN text |-> IF k <= Len(kept) THEN kept[k] ELSE 0 ]
    BY DEF PrintedValue
  <2>. HIDE DEF kept, c
  <2>. QED BY <1>1, <1>2, <2>1
<1>. HIDE DEF kept, c
<1>4. PrintedValue(text) \in [ 1 .. Len(text) -> Octets255 ]
  <2>1. 0 \in Octets255
    BY DEF Octets255
  <2>2. \A k \in 1 .. Len(text) : (IF k <= c THEN kept[k] ELSE 0) \in Octets255
    <3>1. \A k \in 1 .. Len(text) : k <= c => kept[k] \in Octets255
      BY <1>1, <1>2
    <3>. QED BY <2>1, <3>1
  <2>. QED BY <1>3, <2>2
<1>5. PrintedValue(text) \in OctetStrings /\ Len(PrintedValue(text)) = Len(text)
  BY <1>1, <1>4, OctetStringIs
<1>. QED BY <1>3, <1>5 DEF c, kept

\* The octets before the first zero.
LEMMA UpToZeroIs ==
    ASSUME NEW value \in OctetStrings
    PROVE  \E n \in 0 .. Len(value) :
              /\ UpToZero(value) = [ k \in 1 .. n |-> value[k] ]
              /\ UpToZero(value) \in OctetStrings
              /\ \A k \in 1 .. n : value[k] # 0
              /\ n < Len(value) => value[n + 1] = 0
<1> DEFINE zeros == { k \in DOMAIN value : value[k] = 0 }
           Least(k) == k \in zeros /\ \A j \in zeros : k <= j
<1>1. /\ Len(value) \in Nat /\ DOMAIN value = 1 .. Len(value)
      /\ \A k \in 1 .. Len(value) : value[k] \in Octets255
  BY TextIndices
<1>2. UpToZero(value) = IF zeros = {} THEN value
                        ELSE SubSeq(value, 1, (CHOOSE k \in zeros : \A j \in zeros : k <= j) - 1)
  BY DEF UpToZero
<1>3. CASE zeros = {}
  <2>1. UpToZero(value) = value
    BY <1>2, <1>3
  <2>2. value = [ k \in 1 .. Len(value) |-> value[k] ]
    <3>1. value \in Seq(Octets255)
      BY DEF OctetStrings
    <3>2. value \in [ 1 .. Len(value) -> Octets255 ]
      BY <3>1, LenProperties
    <3>. QED BY <3>2
  <2>3. \A k \in 1 .. Len(value) : value[k] # 0
    BY <1>1, <1>3
  <2>. QED BY <1>1, <2>1, <2>2, <2>3
<1>4. CASE zeros # {}
  <2>1. PICK first \in zeros : \A j \in zeros : first <= j
    <3>1. zeros \in SUBSET Nat
      BY <1>1
    <3>. HIDE DEF zeros
    <3>. QED BY <1>4, <3>1, LeastNumber
  <2>2. (CHOOSE k \in zeros : \A j \in zeros : k <= j) = first
    <3>1. \A k \in zeros : (\A j \in zeros : k <= j) => k = first
      BY <1>1, <2>1
    <3>. HIDE DEF zeros
    <3>. QED BY <2>1, <3>1
  <2>3. first \in 1 .. Len(value) /\ value[first] = 0
    BY <1>1
  <2> DEFINE n == first - 1
  <2>4. n \in 0 .. Len(value) /\ n \in Nat /\ n < Len(value) /\ n + 1 = first /\ n \in Int
    BY <1>1, <2>3
  <2>5. UpToZero(value) = SubSeq(value, 1, n)
    BY <1>2, <1>4, <2>2
  <2>6. \A k \in 1 .. n : value[k] # 0
    BY <1>1, <2>1, <2>3
  <2>. HIDE DEF n
  <2>7. \A k \in 1 .. n : value[k] \in Octets255
    BY <1>1, <2>4
  <2>8. /\ SubSeq(value, 1, n) \in Seq(Octets255)
        /\ Len(SubSeq(value, 1, n)) = IF 1 <= n THEN n - 1 + 1 ELSE 0
        /\ \A k \in 1 .. n - 1 + 1 : SubSeq(value, 1, n)[k] = value[1 + k - 1]
    <3>1. 1 \in Int
      OBVIOUS
    <3>. QED BY <2>4, <2>7, <3>1, SubSeqProperties
  <2>9. Len(SubSeq(value, 1, n)) = n
    BY <2>4, <2>8
  <2>10. SubSeq(value, 1, n) \in [ 1 .. n -> Octets255 ]
    BY <2>8, <2>9, LenProperties
  <2>11. \A k \in 1 .. n : SubSeq(value, 1, n)[k] = value[k]
    BY <2>4, <2>8
  <2>12. UpToZero(value) = [ k \in 1 .. n |-> value[k] ]
    BY <2>5, <2>10, <2>11
  <2>13. UpToZero(value) \in OctetStrings
    BY <2>5, <2>8 DEF OctetStrings
  <2>14. value[n + 1] = 0
    BY <2>3, <2>4
  <2>. QED BY <2>4, <2>6, <2>12, <2>13, <2>14
<1>. QED BY <1>3, <1>4

\* Of a printed value without zeros of its own, what is kept is before the first one.
LEMMA PrintedUpToZero ==
    ASSUME NEW text \in OctetStrings, \A k \in DOMAIN text : text[k] # 0
    PROVE  UpToZero(PrintedValue(text)) = WithoutNewLines(text)
<1> DEFINE kept == WithoutNewLines(text)
           value == PrintedValue(text)
           c == Cardinality(Kept(text))
<1>1. /\ value \in OctetStrings /\ Len(value) = Len(text) /\ Len(text) \in Nat
      /\ \A k \in 1 .. Len(text) : value[k] = IF k <= c THEN kept[k] ELSE 0
  BY PrintedIs, TextIndices
<1>2. /\ c \in 0 .. Len(text) /\ kept \in [ 1 .. c -> Octets255 ]
      /\ \A n \in 1 .. c : kept[n] # 0
  <2>1. \A n \in 1 .. c : \E k \in DOMAIN text : kept[n] = text[k]
    BY LettersKept
  <2>. HIDE DEF kept, c
  <2>2. \A n \in 1 .. c : kept[n] # 0
    BY <2>1
  <2>. QED BY <2>2, LettersKept DEF kept, c
<1>. HIDE DEF kept, value, c
<1>3. PICK n \in 0 .. Len(value) :
         /\ UpToZero(value) = [ k \in 1 .. n |-> value[k] ]
         /\ \A k \in 1 .. n : value[k] # 0
         /\ n < Len(value) => value[n + 1] = 0
  BY <1>1, UpToZeroIs
<1>4. n = c
  <2>1. ~(n < c)
    <3> SUFFICES ASSUME n < c
                 PROVE  FALSE
      OBVIOUS
    <3>1. n < Len(value) /\ n + 1 \in 1 .. c /\ n + 1 \in 1 .. Len(text)
      BY <1>1, <1>2, <1>3
    <3>2. value[n + 1] = kept[n + 1]
      BY <1>1, <1>2, <3>1
    <3>. QED BY <1>2, <1>3, <3>1, <3>2
  <2>2. ~(c < n)
    <3> SUFFICES ASSUME c < n
                 PROVE  FALSE
      OBVIOUS
    <3>1. n \in 1 .. Len(text) /\ n \in 1 .. n /\ ~(n <= c)
      BY <1>1, <1>2, <1>3
    <3>2. value[n] = 0
      BY <1>1, <3>1
    <3>. QED BY <1>3, <3>1, <3>2
  <2>. QED BY <1>1, <1>2, <1>3, <2>1, <2>2
<1>5. \A k \in 1 .. c : value[k] = kept[k]
  BY <1>1, <1>2
<1>6. UpToZero(value) = kept
  BY <1>2, <1>3, <1>4, <1>5
<1>. QED BY <1>6 DEF kept, value

LEMMA MemberValues ==
    ASSUME MembersInv, setter = "parsed"
    PROVE  /\ Member("pubKey") = x509.pubKey /\ Member("info") = x509.tbs
           /\ Member("signature") = SignatureObject(x509.signature)
           /\ Member("version") = x509.version + 1
           /\ Member("serialNumber") = bn2Vec(x509.serialNumber)
           /\ Member("validity") =
                 [ notBeforeTime |-> asn1TimeToTimet(x509.notBefore),
                   notAfterTime |-> asn1TimeToTimet(x509.notAfter) ]
           /\ Member("extensions") =
                 [ k \in DOMAIN x509.extensions |-> ExtensionObject(x509.extensions[k]) ]
           /\ Member("crlDistributionPoint") = CrlDistributionPoint(x509.extensions)
<1>1. \A k \in 1 .. 10 : certMembers[k] = MemberOf(Setters[k])
  BY DEF MembersInv, MembersUpTo
<1>2. \A k \in 1 .. 10 : Member(Setters[k]) = MemberOf(Setters[k])
  <2> SUFFICES ASSUME NEW k \in 1 .. 10
               PROVE  Member(Setters[k]) = MemberOf(Setters[k])
    OBVIOUS
  <2>1. \A j \in DOMAIN Setters : Setters[j] = Setters[k] <=> j = k
    BY SetterPlaces
  <2>2. k \in DOMAIN Setters
    BY SetterPlaces
  <2>3. (CHOOSE j \in DOMAIN Setters : Setters[j] = Setters[k]) = k
    BY <2>1, <2>2
  <2>. QED BY <1>1, <2>3 DEF Member
<1>3. /\ Setters[1] = "pubKey" /\ Setters[2] = "info" /\ Setters[3] = "signature"
      /\ Setters[4] = "version" /\ Setters[5] = "serialNumber" /\ Setters[8] = "validity"
      /\ Setters[9] = "extensions" /\ Setters[10] = "crlDistributionPoint"
  BY DEF Setters
<1>4. \A name \in { "pubKey", "info", "signature", "version", "serialNumber", "validity",
                    "extensions", "crlDistributionPoint" } : Member(name) = MemberOf(name)
  <2>1. \A k \in { 1, 2, 3, 4, 5, 8, 9, 10 } : Member(Setters[k]) = MemberOf(Setters[k])
    BY <1>2
  <2>. QED BY <1>3, <2>1, Zenon
<1>5. MemberOf("pubKey") = x509.pubKey /\ MemberOf("info") = x509.tbs
  BY DEF MemberOf
<1>6. MemberOf("signature") = SignatureObject(x509.signature)
  BY DEF MemberOf
<1>7. MemberOf("version") = x509.version + 1
  BY DEF MemberOf
<1>8. MemberOf("serialNumber") = bn2Vec(x509.serialNumber)
  BY DEF MemberOf, SerialNumber
<1>9. MemberOf("validity") = [ notBeforeTime |-> asn1TimeToTimet(x509.notBefore),
                               notAfterTime |-> asn1TimeToTimet(x509.notAfter) ]
  <2>1. MemberOf("validity") = ValidityObject(asn1TimePeriodToCTime(x509.notBefore, x509.notAfter))
    BY DEF MemberOf
  <2>. QED BY <2>1 DEF ValidityObject, asn1TimePeriodToCTime
<1>10. MemberOf("extensions")
         = [ k \in DOMAIN x509.extensions |-> ExtensionObject(x509.extensions[k]) ]
  BY DEF MemberOf
<1>11. MemberOf("crlDistributionPoint") = CrlDistributionPoint(x509.extensions)
  BY DEF MemberOf
<1>. QED BY <1>4, <1>5, <1>6, <1>7, <1>8, <1>9, <1>10, <1>11

\* A name has the type of its class.
LEMMA NameHasItsType ==
    ASSUME NEW name, IsName(name)
    PROVE  DistinguishedName(name) \in DistinguishedNameClass
<1> DEFINE Entries == [ nid : STRING, value : STRING, encoding : { "ascii", "wide" } ]
<1>1. /\ Len(name) \in Nat /\ DOMAIN name = 1 .. Len(name)
      /\ \A k \in 1 .. Len(name) : name[k].nid \in STRING /\ name[k].value \in STRING
  <2>1. name \in Seq(Entries)
    BY DEF IsName
  <2>. HIDE DEF Entries
  <2>2. /\ Len(name) \in Nat /\ DOMAIN name = 1 .. Len(name)
        /\ \A k \in 1 .. Len(name) : name[k] \in Entries
    BY <2>1, LenProperties
  <2>. QED BY <2>2 DEF Entries
<1>2. NameText(name) \in Seq(STRING \X STRING)
  <2>1. \A k \in 1 .. Len(name) : Len(name) + 1 - k \in 1 .. Len(name)
    BY <1>1
  <2>2. NameText(name) =
          [ k \in 1 .. Len(name) |-> << name[Len(name) + 1 - k].nid, name[Len(name) + 1 - k].value >> ]
    BY <1>1 DEF NameText, x509NameToString
  <2>3. NameText(name) \in [ 1 .. Len(name) -> STRING \X STRING ]
    BY <1>1, <2>1, <2>2
  <2>. QED BY <1>1, <2>3, SeqDef
<1>3. \A nid \in NameNids : NameEntryText(name, nid) \in STRING
  <2> SUFFICES ASSUME NEW nid \in NameNids
               PROVE  NameEntryText(name, nid) \in STRING
    OBVIOUS
  <2>1. CASE \A k \in DOMAIN name : name[k].nid # nid
    <3>1. NameEntryText(name, nid) = ""
      BY <2>1, NoEntry
    <3>. QED BY <3>1, X509Assumption
  <2>2. ASSUME NEW i, IsFirst(name, nid, i)
        PROVE  NameEntryText(name, nid) \in STRING
    <3>1. /\ i \in DOMAIN name
          /\ NameEntryText(name, nid) = IF name[i].encoding = "wide" THEN "" ELSE name[i].value
      BY <2>2, FirstEntry DEF IsFirst, EntryText
    <3>. QED BY <1>1, <3>1, X509Assumption
  <2>. QED BY <2>1, <2>2, FirstOrNone
<1>4. [ nid \in NameNids |-> NameEntryText(name, nid) ] \in [ NameNids -> STRING ]
  BY <1>3
<1>. QED BY <1>2, <1>4 DEF DistinguishedName, DistinguishedNameClass

\* So has an extension.
LEMMA ExtensionHasItsType ==
    ASSUME NEW ext \in DecodedExtensions
    PROVE  ExtensionObject(ext) \in ExtensionClass
<1>1. /\ ext.nid \in STRING /\ ext.name \in STRING /\ ext.octets \in OctetStrings
      /\ ext.text \in OctetStrings
  BY DEF DecodedExtensions
<1>2. PrintedValue(ext.text) \in OctetStrings
  BY <1>1, PrintedIs
<1>. QED BY <1>1, <1>2 DEF ExtensionObject, ExtensionClass

LEMMA NumberIsOctets ==
    ASSUME NEW octets \in OctetStrings
    PROVE  bn2Vec(octets) \in OctetStrings
<1>1. << >> \in OctetStrings
  BY DEF OctetStrings
<1>. QED BY <1>1 DEF bn2Vec

\* A certificate that can be read has a distribution point; the first is taken.
LEMMA PointIsFound ==
    ASSUME IsDecodedX509(x509), RequiredNids \subseteq NidsOf(x509.extensions)
    PROVE  \E k \in DOMAIN x509.extensions :
              /\ x509.extensions[k] \in DecodedExtensions
              /\ IsThePoint(k)
              /\ CrlDistributionPoint(x509.extensions)
                    = UpToZero(ExtensionObject(x509.extensions[k]).value)
<1> DEFINE exts == x509.extensions
           Points == { k \in DOMAIN exts : exts[k].nid = "crl_distribution_points" }
<1>1. /\ Len(exts) \in Nat /\ DOMAIN exts = 1 .. Len(exts)
      /\ \A k \in 1 .. Len(exts) : exts[k] \in DecodedExtensions
  <2>1. exts \in Seq(DecodedExtensions)
    BY DEF IsDecodedX509
  <2>. HIDE DEF exts
  <2>. QED BY <2>1, LenProperties
<1>2. PICK k \in Points : \A j \in Points : k <= j
  <2>1. "crl_distribution_points" \in NidsOf(exts)
    BY DEF RequiredNids
  <2>2. Points # {}
    BY <2>1 DEF NidsOf
  <2>3. Points \in SUBSET Nat
    BY <1>1
  <2>. HIDE DEF Points
  <2>. QED BY <2>2, <2>3, LeastNumber
<1> DEFINE First(j) == /\ exts[j].nid = "crl_distribution_points"
                       /\ \A i \in 1 .. (j - 1) : exts[i].nid # "crl_distribution_points"
<1>3. k \in DOMAIN exts /\ First(k)
  BY <1>1, <1>2
<1>4. \A j \in DOMAIN exts : First(j) => j = k
  <2> SUFFICES ASSUME NEW j \in DOMAIN exts, First(j)
               PROVE  j = k
    OBVIOUS
  <2>1. j \in 1 .. Len(exts) /\ k \in 1 .. Len(exts) /\ k <= j
    BY <1>1, <1>2
  <2>2. ~(k < j)
    BY <1>3, <2>1
  <2>. QED BY <2>1, <2>2
<1>5. (CHOOSE j \in DOMAIN exts : First(j)) = k
  <2>. HIDE DEF First, exts
  <2>. QED BY <1>3, <1>4
<1>6. CrlDistributionPoint(exts) = UpToZero(ExtensionObject(exts[k]).value)
  BY <1>5 DEF CrlDistributionPoint
<1>. QED BY <1>1, <1>3, <1>6 DEF IsThePoint

\* The members of a certificate that has been read have their types.
LEMMA CertificateHasItsType ==
    ASSUME MembersInv, setter = "parsed", IsReadable
    PROVE  CertificateObject \in CertificateClass
<1>1. /\ IsDecodedX509(x509)
      /\ IsName(x509.subject) /\ IsName(x509.issuer)
      /\ IsMoment(x509.notBefore) /\ IsMoment(x509.notAfter)
  <2>1. IsDecodedX509(x509)
    BY X509Assumption DEF MembersInv
  <2>. QED BY <2>1 DEF IsDecodedX509, IsReadable
<1>2. /\ x509.pubKey \in OctetStrings /\ x509.serialNumber \in OctetStrings
      /\ x509.signature.octets \in OctetStrings /\ x509.signature.r \in OctetStrings
      /\ x509.signature.s \in OctetStrings
      /\ x509.tbs \in STRING /\ x509.version \in Nat
      /\ x509.extensions \in Seq(DecodedExtensions)
  BY <1>1 DEF IsDecodedX509
<1>3. /\ Member("subject") \in DistinguishedNameClass
      /\ Member("issuer") \in DistinguishedNameClass
  BY <1>1, MembersOfParsed, NameHasItsType
<1>4. Member("validity") \in ValidityClass
  <2>1. \A time : IsMoment(time) => asn1TimeToTimet(time) \in Int
    BY CrlsAssumption DEF IsMoment, asn1TimeToTimet
  <2>2. asn1TimeToTimet(x509.notBefore) \in Int /\ asn1TimeToTimet(x509.notAfter) \in Int
    BY <1>1, <2>1
  <2>. QED BY <2>2, MemberValues DEF ValidityClass
<1>5. Member("extensions") \in Seq(ExtensionClass)
  <2> DEFINE exts == x509.extensions
  <2>1. /\ Len(exts) \in Nat /\ DOMAIN exts = 1 .. Len(exts)
        /\ \A k \in 1 .. Len(exts) : exts[k] \in DecodedExtensions
    <3>1. exts \in Seq(DecodedExtensions)
      BY <1>2
    <3>. HIDE DEF exts
    <3>. QED BY <3>1, LenProperties
  <2>2. \A k \in 1 .. Len(exts) : ExtensionObject(exts[k]) \in ExtensionClass
    BY <2>1, ExtensionHasItsType
  <2>3. Member("extensions") = [ k \in 1 .. Len(exts) |-> ExtensionObject(exts[k]) ]
    BY <2>1, MemberValues
  <2>. HIDE DEF exts
  <2>4. Member("extensions") \in [ 1 .. Len(exts) -> ExtensionClass ]
    BY <2>2, <2>3
  <2>. QED BY <2>1, <2>4, SeqDef
<1>6. Member("signature") \in SignatureClass
  <2>1. bn2Vec(x509.signature.r) \in OctetStrings /\ bn2Vec(x509.signature.s) \in OctetStrings
    BY <1>2, NumberIsOctets
  <2>. QED BY <1>2, <2>1, MemberValues DEF SignatureObject, SignatureClass
<1>7. Member("serialNumber") \in OctetStrings
  BY <1>2, NumberIsOctets, MemberValues
<1>8. Member("crlDistributionPoint") \in OctetStrings
  <2>1. PICK k \in DOMAIN x509.extensions :
           /\ x509.extensions[k] \in DecodedExtensions
           /\ CrlDistributionPoint(x509.extensions)
                 = UpToZero(ExtensionObject(x509.extensions[k]).value)
    BY <1>1, PointIsFound DEF IsReadable
  <2>2. ExtensionObject(x509.extensions[k]).value \in OctetStrings
    BY <2>1, ExtensionHasItsType DEF ExtensionClass
  <2>3. CrlDistributionPoint(x509.extensions) \in OctetStrings
    BY <2>1, <2>2, UpToZeroIs
  <2>. QED BY <2>3, MemberValues
<1>9. Member("version") \in Nat /\ Member("info") \in STRING /\ Member("pubKey") \in OctetStrings
  BY <1>2, MemberValues
<1>. QED BY <1>3, <1>4, <1>5, <1>6, <1>7, <1>8, <1>9 DEF CertificateObject, CertificateClass

\* The distribution point is the first one's text without its new lines, or what is before
\* the first zero of its octets.
LEMMA PointIsRead ==
    ASSUME MembersInv, setter = "parsed", IsReadable
    PROVE  \E k \in DOMAIN x509.extensions :
              LET point == x509.extensions[k] IN
              /\ IsThePoint(k)
              /\ point.printable /\ 0 \notin { point.text[j] : j \in DOMAIN point.text }
                   => Member("crlDistributionPoint") = WithoutNewLines(point.text)
              /\ ~point.printable =>
                   \A j \in DOMAIN Member("crlDistributionPoint") : point.octets[j] # 0
<1>1. IsDecodedX509(x509)
  BY X509Assumption DEF MembersInv
<1>2. PICK k \in DOMAIN x509.extensions :
         /\ x509.extensions[k] \in DecodedExtensions
         /\ IsThePoint(k)
         /\ CrlDistributionPoint(x509.extensions)
               = UpToZero(ExtensionObject(x509.extensions[k]).value)
  BY <1>1, PointIsFound DEF IsReadable
<1> DEFINE point == x509.extensions[k]
<1>3. point.octets \in OctetStrings /\ point.text \in OctetStrings
  BY <1>2 DEF DecodedExtensions
<1>4. point.nid # "undef"
  BY <1>2 DEF IsThePoint
<1>5. ExtensionObject(point).value = IF point.printable THEN PrintedValue(point.text) ELSE point.octets
  BY <1>4 DEF ExtensionObject
<1>6. Member("crlDistributionPoint") = UpToZero(ExtensionObject(point).value)
  BY <1>2, MemberValues
<1>. HIDE DEF point
<1>7. ASSUME point.printable, 0 \notin { point.text[j] : j \in DOMAIN point.text }
      PROVE  Member("crlDistributionPoint") = WithoutNewLines(point.text)
  <2>1. \A j \in DOMAIN point.text : point.text[j] # 0
    BY <1>7
  <2>. QED BY <1>3, <1>5, <1>6, <1>7, <2>1, PrintedUpToZero
<1>8. ASSUME ~point.printable
      PROVE  \A j \in DOMAIN Member("crlDistributionPoint") : point.octets[j] # 0
  <2>1. Member("crlDistributionPoint") = UpToZero(point.octets)
    BY <1>5, <1>6, <1>8
  <2>2. PICK n \in 0 .. Len(point.octets) :
           /\ UpToZero(point.octets) = [ j \in 1 .. n |-> point.octets[j] ]
           /\ \A j \in 1 .. n : point.octets[j] # 0
    BY <1>3, UpToZeroIs
  <2>. QED BY <2>1, <2>2
<1>. QED BY <1>2, <1>7, <1>8 DEF point

\* A certificate is read exactly if nothing is missing that is asked of it, and answers
\* what OpenSSL has made of it (Certificate.cpp:131-152, Extension.cpp:128-134), for texts
\* and lists of every length.
THEOREM CertificateIsReadAsItStandsHolds == X509Spec => []CertificateIsReadAsItStands
<1>1. MembersInv /\ ThrownInv => CertificateIsReadAsItStands
  <2> SUFFICES ASSUME MembersInv, ThrownInv
               PROVE  CertificateIsReadAsItStands
    OBVIOUS
  <2>1. setter = "parsed" => IsReadable
    BY ReadableIs DEF ThrownInv
  <2>2. setter = "refused" => ~IsReadable
    BY RefusedIs
  <2>3. ASSUME thrown = { "InvalidExtensionException" }
        PROVE  /\ ~(RequiredNids \subseteq NidsOf(x509.extensions))
               /\ x509.decodes /\ x509.signature.decodes /\ IsTime(x509.notAfter)
    <3>1. setter = "refused"
      BY <2>3 DEF ThrownInv
    <3>. QED BY <2>3, <3>1, RefusedIs
  <2>4. ASSUME setter = "parsed"
        PROVE  /\ \A time \in CrlTimes :
                     Member("validity").notBeforeTime <= asn1TimeToTimet(time) <=>
                         Chronological(x509.notBefore, time)
               /\ \A serial \in Serials \ { << 0 >> } :
                     RevokedEntry(serial).serialNumber = Member("serialNumber") <=>
                         serial = x509.serialNumber
    <3>1. IsMoment(x509.notBefore)
      <4>1. IsDecodedX509(x509)
        BY X509Assumption DEF MembersInv
      <4>. QED BY <2>1, <2>4, <4>1 DEF IsDecodedX509, IsReadable
    <3>2. \A time \in CrlTimes : IsMoment(time)
      BY CrlsAssumption
    <3>3. Member("validity").notBeforeTime = asn1TimeToTimet(x509.notBefore)
      BY <2>4, MemberValues
    <3>4. \A time \in CrlTimes :
             Member("validity").notBeforeTime <= asn1TimeToTimet(time) <=>
                 Chronological(x509.notBefore, time)
      BY <3>1, <3>2, <3>3, TimesInOrder
    <3>5. \A serial \in Serials \ { << 0 >> } :
             RevokedEntry(serial).serialNumber = Member("serialNumber") <=>
                 serial = x509.serialNumber
      <4>1. Member("serialNumber") = bn2Vec(x509.serialNumber)
        BY <2>4, MemberValues
      <4>2. << >> \notin Serials
        BY X509Assumption
      <4>. QED BY <4>1, <4>2 DEF RevokedEntry, bn2Vec
    <3>. QED BY <3>4, <3>5
  <2>5. setter = "parsed" => CertificateObject \in CertificateClass
    BY <2>1, CertificateHasItsType
  <2>6. ASSUME setter = "parsed"
        PROVE  \E k \in DOMAIN x509.extensions :
                  LET point == x509.extensions[k] IN
                  /\ IsThePoint(k)
                  /\ point.printable /\ 0 \notin { point.text[j] : j \in DOMAIN point.text }
                       => Member("crlDistributionPoint") = WithoutNewLines(point.text)
                  /\ ~point.printable =>
                       \A j \in DOMAIN Member("crlDistributionPoint") : point.octets[j] # 0
    BY <2>1, <2>6, PointIsRead
  <2>. QED BY <2>1, <2>2, <2>3, <2>4, <2>5, <2>6, Zenon DEF CertificateIsReadAsItStands
<1>. QED BY <1>1, MembersInvInit, MembersInvStep, ThrownInvInit, ThrownInvStep, PTL DEF X509Spec

(***************************************************************************)
(* Chains.                                                                 *)
(***************************************************************************)
\* The positions of a text.
LEMMA ChainIndices ==
    ASSUME NEW txt \in ChainTexts
    PROVE  Len(txt) \in Nat /\ Len(txt) + 1 < Npos /\ DOMAIN txt = 1 .. Len(txt)
BY ChainsAssumption, LenProperties

\* A marker is found at the first place there is one, if there is one.
LEMMA Found ==
    ASSUME NEW txt \in ChainTexts, NEW token, NEW from \in Nat \ { 0 }
    PROVE  \/ /\ Find(txt, token, from) = Npos
              /\ \A k \in from .. Len(txt) : txt[k] # token
           \/ /\ Find(txt, token, from) \in from .. Len(txt)
              /\ Find(txt, token, from) # Npos
              /\ txt[Find(txt, token, from)] = token
              /\ \A k \in from .. Find(txt, token, from) - 1 : txt[k] # token
<1> DEFINE found == { k \in from .. Len(txt) : txt[k] = token }
           first == CHOOSE k \in found : \A j \in found : k <= j
<1>1. Len(txt) \in Nat /\ Len(txt) + 1 < Npos
  BY ChainIndices
<1>2. Find(txt, token, from) = IF found = {} THEN Npos ELSE first
  BY DEF Find
<1>3. CASE found = {}
  BY <1>2, <1>3
<1>4. CASE found # {}
  <2>1. found \in SUBSET Nat
    BY <1>1
  <2>2. first \in found /\ \A j \in found : first <= j
    <3>1. \E k \in found : \A j \in found : k <= j
      BY <1>4, <2>1, LeastNumber
    <3>. QED BY <3>1
  <2>3. Find(txt, token, from) = first
    BY <1>2, <1>4
  <2>. HIDE DEF first
  <2>4. first \in from .. Len(txt) /\ txt[first] = token /\ first # Npos
    BY <1>1, <2>2 DEF Npos
  <2>5. \A k \in from .. first - 1 : txt[k] # token
    BY <1>1, <2>2, <2>4
  <2>. QED BY <2>3, <2>4, <2>5
<1>. QED BY <1>3, <1>4

\* What is skipped is text.
LEMMA Skipped ==
    ASSUME NEW txt \in ChainTexts, NEW from \in Nat \ { 0 }, NEW last \in from .. Len(txt),
           txt[last] # "text"
    PROVE  /\ SkipToDash(txt, from) \in from .. last
           /\ \A j \in from .. SkipToDash(txt, from) - 1 : txt[j] = "text"
<1> DEFINE others == { k \in from .. Len(txt) : txt[k] # "text" }
           start  == SkipToDash(txt, from)
<1>1. Len(txt) \in Nat
  BY ChainIndices
<1>2. last \in others /\ others \in SUBSET Nat
  BY <1>1
<1>3. PICK i \in others : \A j \in others : i <= j
  BY <1>2, LeastNumber
<1>4. \A j \in from .. i - 1 : txt[j] = "text"
  BY <1>1, <1>3
<1>5. /\ start \in from .. Len(txt) /\ txt[start] # "text"
      /\ \A j \in from .. start - 1 : txt[j] = "text"
  <2>1. \E k \in from .. Len(txt) : txt[k] # "text" /\ \A j \in from .. k - 1 : txt[j] = "text"
    BY <1>3, <1>4
  <2>. QED BY <2>1 DEF SkipToDash
<1>. HIDE DEF start
<1>6. start <= last
  BY <1>1, <1>5
<1>. QED BY <1>1, <1>5, <1>6 DEF start

(***************************************************************************)
(* Pieces.                                                                 *)
(***************************************************************************)
Positions == 1 .. Len(chainText)

IsPiece(piece) ==
    /\ piece \in Positions \X Positions
    /\ chainText[piece[2]] = "END"
    /\ HasBegin(chainText, piece[1], piece[2])
    /\ \A j \in piece[1] .. piece[2] - 1 : chainText[j] # "END"

ArePieces(pieces) ==
    \E n \in Nat :
        /\ pieces \in [ 1 .. n -> Positions \X Positions ]
        /\ \A k \in 1 .. n : IsPiece(pieces[k])
        /\ \A i, k \in 1 .. n : i < k => pieces[i][2] < pieces[k][1]

\* Every certificate up to a place ends a piece.
Covers(pieces, place) ==
    \A b \in Blocks(chainText) :
        b[2] <= place => \E k \in DOMAIN pieces : pieces[k][2] = b[2]

\* Between two turns of the loop the next end marker has been found, and what is before
\* the place where the next piece may begin has been cut.
LoopInv ==
    /\ foundEndPos \in Positions /\ newStartPos \in 1 .. foundEndPos
    /\ chainText[foundEndPos] = "END"
    /\ \A j \in newStartPos .. foundEndPos - 1 : chainText[j] # "END"
    /\ \A k \in DOMAIN certStrs : certStrs[k][2] < newStartPos
    /\ Covers(certStrs, newStartPos - 1)
    /\ \A b \in Blocks(chainText) : b[2] = foundEndPos => b[1] >= newStartPos
    /\ certStrs = << >> => HasBegin(chainText, newStartPos, foundEndPos)

\* When it is done, every certificate has been cut or the chain has been given up.
SplitInv ==
    /\ chainText \in ChainTexts
    /\ splitStep \in { "start", "loop", "done" }
    /\ splitStep = "start" => certStrs = << >>
    /\ ArePieces(certStrs)
    /\ splitStep = "loop" => LoopInv
    /\ splitStep = "done" =>
          \/ certStrs # << >> /\ Covers(certStrs, Len(chainText))
          \/ certStrs = << >> /\ (IsWellFormed(chainText) => Blocks(chainText) = {})

LEMMA NoPieces == ArePieces(<< >>)
<1>1. << >> \in [ 1 .. 0 -> Positions \X Positions ]
  OBVIOUS
<1>. QED BY <1>1 DEF ArePieces

LEMMA SplitInvInit == SplitInit => SplitInv
BY NoPieces DEF SplitInit, SplitStart, SplitInv

\* A certificate stands in its text.
LEMMA BlockIs ==
    ASSUME chainText \in ChainTexts, NEW b \in Blocks(chainText)
    PROVE  /\ b \in Positions \X Positions /\ b[1] < b[2]
           /\ chainText[b[1]] = "BEGIN" /\ chainText[b[2]] = "END"
           /\ \A k \in (b[1] + 1) .. (b[2] - 1) : chainText[k] \notin { "BEGIN", "END" }
BY DEF Blocks, Positions

\* An end marker before a begin marker, or right after another, is no certificate's.
LEMMA FirstTurn ==
    ASSUME SplitInv, FindFirst
    PROVE  SplitInv'
<1> DEFINE begPos == Find(chainText, "BEGIN", 1)
           endPos == Find(chainText, "END", 1)
<1>1. /\ newStartPos' = begPos /\ foundEndPos' = endPos /\ UNCHANGED chainText
      /\ IF begPos = Npos \/ endPos = Npos \/ begPos >= endPos
         THEN Split(<< >>)
         ELSE splitStep' = "loop" /\ UNCHANGED certStrs
      /\ certStrs = << >> /\ chainText \in ChainTexts
  BY DEF FindFirst, SplitInv
<1>2. Len(chainText) \in Nat /\ Len(chainText) + 1 < Npos /\ DOMAIN chainText = 1 .. Len(chainText)
  BY <1>1, ChainIndices
<1>3. \/ begPos = Npos /\ \A k \in 1 .. Len(chainText) : chainText[k] # "BEGIN"
      \/ /\ begPos \in 1 .. Len(chainText) /\ begPos # Npos /\ chainText[begPos] = "BEGIN"
         /\ \A k \in 1 .. begPos - 1 : chainText[k] # "BEGIN"
  BY <1>1, Found
<1>4. \/ endPos = Npos /\ \A k \in 1 .. Len(chainText) : chainText[k] # "END"
      \/ /\ endPos \in 1 .. Len(chainText) /\ endPos # Npos /\ chainText[endPos] = "END"
         /\ \A k \in 1 .. endPos - 1 : chainText[k] # "END"
  BY <1>1, Found
<1>. HIDE DEF begPos, endPos
<1>5. certStrs' = << >>
  BY <1>1 DEF Split
<1>6. CASE begPos = Npos \/ endPos = Npos \/ begPos >= endPos
  <2>1. splitStep' = "done"
    BY <1>1, <1>6 DEF Split
  <2>2. ASSUME IsWellFormed(chainText), NEW b \in Blocks(chainText)
        PROVE  FALSE
    <3>1. /\ b[1] \in 1 .. Len(chainText) /\ b[2] \in 1 .. Len(chainText)
          /\ chainText[b[1]] = "BEGIN" /\ chainText[b[2]] = "END"
      BY <1>1, BlockIs DEF Positions
    <3>2. /\ begPos \in 1 .. Len(chainText) /\ endPos \in 1 .. Len(chainText)
          /\ chainText[endPos] = "END" /\ begPos >= endPos
          /\ \A k \in 1 .. begPos - 1 : chainText[k] # "BEGIN"
      BY <1>3, <1>4, <1>6, <3>1
    <3>3. PICK c \in Blocks(chainText) : endPos \in { c[1], c[2] }
      BY <1>2, <2>2, <3>2 DEF IsWellFormed
    <3>4. /\ c[1] \in 1 .. Len(chainText) /\ c[2] \in 1 .. Len(chainText)
          /\ c[1] < c[2] /\ chainText[c[1]] = "BEGIN"
      BY <1>1, BlockIs DEF Positions
    <3>. QED BY <3>2, <3>3, <3>4
  <2>3. ArePieces(<< >>)'
    BY NoPieces, <1>1 DEF ArePieces, IsPiece, Positions
  <2>. QED BY <1>1, <1>5, <2>1, <2>2, <2>3 DEF SplitInv
<1>7. CASE ~(begPos = Npos \/ endPos = Npos \/ begPos >= endPos)
  <2>1. splitStep' = "loop"
    BY <1>1, <1>7
  <2>2. /\ begPos \in 1 .. Len(chainText) /\ endPos \in 1 .. Len(chainText) /\ begPos < endPos
        /\ chainText[begPos] = "BEGIN" /\ chainText[endPos] = "END"
        /\ \A k \in 1 .. begPos - 1 : chainText[k] # "BEGIN"
        /\ \A k \in 1 .. endPos - 1 : chainText[k] # "END"
    BY <1>3, <1>4, <1>7
  <2>3. ASSUME NEW b \in Blocks(chainText)
        PROVE  b[2] >= endPos /\ b[1] >= begPos
    <3>1. /\ b[1] \in 1 .. Len(chainText) /\ b[2] \in 1 .. Len(chainText)
          /\ chainText[b[1]] = "BEGIN" /\ chainText[b[2]] = "END"
      BY <1>1, BlockIs DEF Positions
    <3>. QED BY <2>2, <3>1
  <2>4. HasBegin(chainText, begPos, endPos)
    BY <2>2 DEF HasBegin
  <2>5. Covers(<< >>, begPos - 1)
    <3>1. \A b \in Blocks(chainText) : ~(b[2] <= begPos - 1)
      <4> SUFFICES ASSUME NEW b \in Blocks(chainText)
                   PROVE  ~(b[2] <= begPos - 1)
        OBVIOUS
      <4>1. b[2] >= endPos /\ b[2] \in 1 .. Len(chainText)
        BY <1>1, <2>3, BlockIs DEF Positions
      <4>. QED BY <2>2, <4>1
    <3>. QED BY <3>1 DEF Covers
  <2>6. LoopInv'
    BY <1>1, <1>5, <2>2, <2>3, <2>4, <2>5 DEF LoopInv, Positions, Covers
  <2>7. ArePieces(<< >>)'
    BY NoPieces, <1>1 DEF ArePieces, IsPiece, Positions
  <2>. QED BY <1>1, <1>5, <2>1, <2>6, <2>7 DEF SplitInv
<1>. QED BY <1>6, <1>7

\* A piece more.
LEMMA OnePieceMore ==
    ASSUME NEW pieces, ArePieces(pieces), NEW piece, IsPiece(piece),
           \A k \in DOMAIN pieces : pieces[k][2] < piece[1]
    PROVE  /\ ArePieces(Append(pieces, piece))
           /\ Append(pieces, piece) # << >>
           /\ \E k \in DOMAIN Append(pieces, piece) : Append(pieces, piece)[k] = piece
           /\ \A k \in DOMAIN pieces :
                 k \in DOMAIN Append(pieces, piece) /\ Append(pieces, piece)[k] = pieces[k]
           /\ \A k \in DOMAIN Append(pieces, piece) :
                 Append(pieces, piece)[k] = piece \/ k \in DOMAIN pieces
<1> DEFINE more == Append(pieces, piece)
           S    == Positions \X Positions
<1>1. PICK n \in Nat : /\ pieces \in [ 1 .. n -> S ]
                       /\ \A k \in 1 .. n : IsPiece(pieces[k])
                       /\ \A i, k \in 1 .. n : i < k => pieces[i][2] < pieces[k][1]
  BY DEF ArePieces
<1>2. piece \in S
  BY DEF IsPiece
<1>. HIDE DEF S
<1>3. /\ more \in [ 1 .. n + 1 -> S ] /\ more[n + 1] = piece
      /\ \A k \in 1 .. n : more[k] = pieces[k]
  BY <1>1, <1>2, AppendsOne
<1>. HIDE DEF more
<1>4. DOMAIN more = 1 .. n + 1 /\ DOMAIN pieces = 1 .. n
  BY <1>1, <1>3
<1>5. \A k \in 1 .. n + 1 : IsPiece(more[k])
  BY <1>1, <1>3
<1>6. \A i, k \in 1 .. n + 1 : i < k => more[i][2] < more[k][1]
  <2> SUFFICES ASSUME NEW i \in 1 .. n + 1, NEW k \in 1 .. n + 1, i < k
               PROVE  more[i][2] < more[k][1]
    OBVIOUS
  <2>1. i \in 1 .. n /\ more[i] = pieces[i]
    BY <1>1, <1>3
  <2>2. CASE k = n + 1
    BY <1>3, <1>4, <2>1, <2>2
  <2>3. CASE k # n + 1
    <3>1. k \in 1 .. n /\ more[k] = pieces[k]
      BY <1>1, <1>3, <2>3
    <3>. QED BY <1>1, <2>1, <3>1
  <2>. QED BY <2>2, <2>3
<1>7. ArePieces(more)
  <2>1. n + 1 \in Nat
    BY <1>1
  <2>. QED BY <1>3, <1>5, <1>6, <2>1 DEF ArePieces, S
<1>8. more # << >> /\ n + 1 \in DOMAIN more
  BY <1>1, <1>4
<1>9. \A k \in DOMAIN more : more[k] = piece \/ k \in DOMAIN pieces
  BY <1>1, <1>3, <1>4
<1>. QED BY <1>1, <1>3, <1>4, <1>7, <1>8, <1>9 DEF more

LEMMA LaterTurn ==
    ASSUME SplitInv, NextPiece
    PROVE  SplitInv'
<1> DEFINE start  == SkipToDash(chainText, newStartPos)
           next   == Find(chainText, "END", foundEndPos + 1)
           piece  == <<start, foundEndPos>>
           pieces == IF HasBegin(chainText, start, foundEndPos)
                     THEN Append(certStrs, piece) ELSE certStrs
<1>1. /\ splitStep = "loop" /\ LoopInv /\ ArePieces(certStrs) /\ chainText \in ChainTexts
      /\ newStartPos' = foundEndPos + 1 /\ foundEndPos' = next /\ UNCHANGED chainText
      /\ IF next = foundEndPos + 1 THEN Split(<< >>)
         ELSE certStrs' = pieces /\ splitStep' = IF next = Npos THEN "done" ELSE "loop"
  BY DEF NextPiece, SplitInv
<1>2. Len(chainText) \in Nat /\ Len(chainText) + 1 < Npos /\ DOMAIN chainText = 1 .. Len(chainText)
  BY <1>1, ChainIndices
<1>3. /\ foundEndPos \in 1 .. Len(chainText) /\ newStartPos \in 1 .. foundEndPos
      /\ chainText[foundEndPos] = "END"
      /\ \A j \in newStartPos .. foundEndPos - 1 : chainText[j] # "END"
  BY <1>1 DEF LoopInv, Positions
<1>4. \/ next = Npos /\ \A k \in foundEndPos + 1 .. Len(chainText) : chainText[k] # "END"
      \/ /\ next \in foundEndPos + 1 .. Len(chainText) /\ next # Npos /\ chainText[next] = "END"
         /\ \A k \in foundEndPos + 1 .. next - 1 : chainText[k] # "END"
  <2>1. foundEndPos + 1 \in Nat \ { 0 }
    BY <1>2, <1>3
  <2>. QED BY <1>1, <2>1, Found
<1>5. /\ start \in newStartPos .. foundEndPos
      /\ \A j \in newStartPos .. start - 1 : chainText[j] = "text"
  <2>1. newStartPos \in Nat \ { 0 } /\ foundEndPos \in newStartPos .. Len(chainText)
        /\ chainText[foundEndPos] # "text"
    BY <1>2, <1>3
  <2>. QED BY <1>1, <2>1, Skipped
<1>. HIDE DEF start, next
\* The piece has a begin marker if there is one since the last piece.
<1>6. ASSUME HasBegin(chainText, newStartPos, foundEndPos)
      PROVE  HasBegin(chainText, start, foundEndPos)
  <2>1. PICK k \in newStartPos .. foundEndPos : chainText[k] = "BEGIN"
    BY <1>6 DEF HasBegin
  <2>2. k \in start .. foundEndPos
    BY <1>2, <1>3, <1>5, <2>1
  <2>. QED BY <2>1, <2>2 DEF HasBegin
<1>7. CASE next = foundEndPos + 1
  <2>1. splitStep' = "done" /\ certStrs' = << >>
    BY <1>1, <1>7 DEF Split
  <2>2. ASSUME IsWellFormed(chainText)
        PROVE  FALSE
    <3>1. next \in 1 .. Len(chainText) /\ chainText[next] = "END"
      BY <1>2, <1>3, <1>4, <1>7 DEF Npos
    <3>2. PICK c \in Blocks(chainText) : next \in { c[1], c[2] }
      BY <1>2, <2>2, <3>1 DEF IsWellFormed
    <3>3. /\ c[1] \in 1 .. Len(chainText) /\ c[2] \in 1 .. Len(chainText)
          /\ c[1] < c[2] /\ chainText[c[1]] = "BEGIN"
          /\ \A k \in (c[1] + 1) .. (c[2] - 1) : chainText[k] \notin { "BEGIN", "END" }
      BY <1>1, BlockIs DEF Positions
    <3>. QED BY <1>2, <1>3, <1>7, <3>1, <3>2, <3>3
  <2>3. ArePieces(<< >>)'
    BY NoPieces, <1>1 DEF ArePieces, IsPiece, Positions
  <2>. QED BY <1>1, <2>1, <2>2, <2>3 DEF SplitInv
<1>8. CASE next # foundEndPos + 1
  <2>1. certStrs' = pieces /\ splitStep' = IF next = Npos THEN "done" ELSE "loop"
    BY <1>1, <1>8
  <2>2. /\ ArePieces(pieces) /\ pieces # << >>
        /\ \A k \in DOMAIN pieces : pieces[k][2] < foundEndPos + 1
        /\ \A k \in DOMAIN certStrs : k \in DOMAIN pieces /\ pieces[k] = certStrs[k]
        /\ HasBegin(chainText, start, foundEndPos) =>
              \E k \in DOMAIN pieces : pieces[k][2] = foundEndPos
    <3>0. \A k \in DOMAIN certStrs : certStrs[k] \in Positions \X Positions
      BY <1>1 DEF ArePieces
    <3>1. CASE HasBegin(chainText, start, foundEndPos)
      <4>1. IsPiece(piece)
        BY <1>2, <1>3, <1>5, <3>1 DEF IsPiece, Positions
      <4>2. \A k \in DOMAIN certStrs : certStrs[k][2] < piece[1]
        <5>1. \A k \in DOMAIN certStrs : certStrs[k][2] < newStartPos /\ certStrs[k][2] \in Nat
          BY <1>1, <3>0 DEF LoopInv, Positions
        <5>. QED BY <1>2, <1>3, <1>5, <5>1
      <4>3. piece[2] = foundEndPos
        OBVIOUS
      <4>4. pieces = Append(certStrs, piece)
        BY <3>1
      <4>5. \A k \in DOMAIN certStrs : certStrs[k][2] < foundEndPos + 1
        <5>1. \A k \in DOMAIN certStrs : certStrs[k][2] < newStartPos /\ certStrs[k][2] \in Nat
          BY <1>1, <3>0 DEF LoopInv, Positions
        <5>. QED BY <1>2, <1>3, <5>1
      <4>. HIDE DEF piece, pieces
      <4>6. /\ ArePieces(pieces) /\ pieces # << >>
            /\ \E k \in DOMAIN pieces : pieces[k] = piece
            /\ \A k \in DOMAIN certStrs : k \in DOMAIN pieces /\ pieces[k] = certStrs[k]
            /\ \A k \in DOMAIN pieces : pieces[k] = piece \/ k \in DOMAIN certStrs
        BY <1>1, <4>1, <4>2, <4>4, OnePieceMore
      <4>7. \A k \in DOMAIN pieces : pieces[k][2] < foundEndPos + 1
        <5>1. foundEndPos < foundEndPos + 1
          BY <1>2, <1>3
        <5>. QED BY <4>3, <4>5, <4>6, <5>1
      <4>. QED BY <4>3, <4>6, <4>7
    <3>2. CASE ~HasBegin(chainText, start, foundEndPos)
      <4>1. pieces = certStrs
        BY <3>2
      <4>2. certStrs # << >>
        BY <1>1, <1>6, <3>2 DEF LoopInv
      <4>3. \A k \in DOMAIN certStrs : certStrs[k][2] < foundEndPos + 1
        <5>1. \A k \in DOMAIN certStrs : certStrs[k][2] < newStartPos /\ certStrs[k][2] \in Nat
          BY <1>1, <3>0 DEF LoopInv, Positions
        <5>. QED BY <1>2, <1>3, <5>1
      <4>. QED BY <1>1, <3>2, <4>1, <4>2, <4>3
    <3>. QED BY <3>1, <3>2
  <2>. HIDE DEF pieces
  <2>3. Covers(pieces, foundEndPos)
    <3> SUFFICES ASSUME NEW b \in Blocks(chainText), b[2] <= foundEndPos
                 PROVE  \E k \in DOMAIN pieces : pieces[k][2] = b[2]
      BY DEF Covers
    <3>1. /\ b[1] \in 1 .. Len(chainText) /\ b[2] \in 1 .. Len(chainText) /\ b[1] < b[2]
          /\ chainText[b[1]] = "BEGIN" /\ chainText[b[2]] = "END"
      BY <1>1, BlockIs DEF Positions
    <3>2. CASE b[2] <= newStartPos - 1
      <4>1. \E k \in DOMAIN certStrs : certStrs[k][2] = b[2]
        BY <1>1, <3>2 DEF LoopInv, Covers
      <4>. QED BY <2>2, <4>1
    <3>3. CASE ~(b[2] <= newStartPos - 1)
      <4>1. b[2] = foundEndPos
        BY <1>2, <1>3, <3>1, <3>3
      <4>2. b[1] >= newStartPos
        BY <1>1, <4>1 DEF LoopInv
      <4>3. HasBegin(chainText, newStartPos, foundEndPos)
        BY <1>2, <1>3, <3>1, <4>1, <4>2 DEF HasBegin
      <4>. QED BY <1>6, <2>2, <4>1, <4>3
    <3>. QED BY <3>2, <3>3
  <2>4. ArePieces(certStrs)'
    <3>1. chainText' = chainText /\ certStrs' = pieces
      BY <1>1, <2>1
    <3>2. ArePieces(pieces)
      BY <2>2
    <3>. QED BY <3>1, <3>2 DEF ArePieces, IsPiece, Positions
  <2>5. CASE next = Npos
    <3>1. Covers(pieces, Len(chainText))
      <4> SUFFICES ASSUME NEW b \in Blocks(chainText)
                   PROVE  \E k \in DOMAIN pieces : pieces[k][2] = b[2]
        BY DEF Covers
      <4>1. b[2] \in 1 .. Len(chainText) /\ chainText[b[2]] = "END"
        BY <1>1, BlockIs DEF Positions
      <4>2. \A k \in foundEndPos + 1 .. Len(chainText) : chainText[k] # "END"
        BY <1>2, <1>3, <1>4, <2>5
      <4>3. b[2] <= foundEndPos
        BY <1>2, <1>3, <4>1, <4>2
      <4>. QED BY <2>3, <4>3 DEF Covers
    <3>2. Covers(certStrs, Len(chainText))'
      BY <1>1, <2>1, <3>1 DEF Covers
    <3>3. splitStep' = "done"
      BY <2>1, <2>5
    <3>. QED BY <1>1, <2>1, <2>2, <2>4, <3>2, <3>3 DEF SplitInv
  <2>6. CASE next # Npos
    <3>1. /\ next \in foundEndPos + 1 .. Len(chainText) /\ chainText[next] = "END"
          /\ \A k \in foundEndPos + 1 .. next - 1 : chainText[k] # "END"
      BY <1>4, <2>6
    <3>2. ASSUME NEW b \in Blocks(chainText), b[2] = next
          PROVE  b[1] >= foundEndPos + 1
      <4>1. /\ b[1] \in 1 .. Len(chainText) /\ chainText[b[1]] = "BEGIN"
            /\ \A k \in (b[1] + 1) .. (b[2] - 1) : chainText[k] \notin { "BEGIN", "END" }
        BY <1>1, BlockIs DEF Positions
      <4>. QED BY <1>2, <1>3, <3>1, <3>2, <4>1
    <3>3. foundEndPos + 1 - 1 = foundEndPos
      BY <1>2, <1>3
    <3>4. LoopInv'
      <4>1. (foundEndPos \in Positions /\ newStartPos \in 1 .. foundEndPos)'
        BY <1>1, <1>2, <1>3, <3>1 DEF Positions
      <4>2. Covers(certStrs, newStartPos - 1)'
        <5>1. newStartPos' - 1 = foundEndPos
          <6>1. newStartPos' = foundEndPos + 1
            BY <1>1
          <6>2. foundEndPos \in Nat
            BY <1>2, <1>3
          <6>. QED BY <6>1, <6>2
        <5>2. \A b \in Blocks(chainText)' :
                 b[2] <= foundEndPos => \E k \in DOMAIN certStrs' : certStrs'[k][2] = b[2]
          BY <1>1, <2>1, <2>3 DEF Covers
        <5>. QED BY <5>1, <5>2 DEF Covers
      <4>. QED BY <1>1, <2>1, <2>2, <3>1, <3>2, <4>1, <4>2 DEF LoopInv
    <3>5. splitStep' = "loop"
      BY <2>1, <2>6
    <3>. QED BY <1>1, <2>4, <3>4, <3>5 DEF SplitInv
  <2>. QED BY <2>5, <2>6
<1>. QED BY <1>7, <1>8

LEMMA SplitInvStep == SplitInv /\ [SplitNext]_splitVars => SplitInv'
<1> SUFFICES ASSUME SplitInv, [SplitNext]_splitVars
             PROVE  SplitInv'
  OBVIOUS
<1>1. CASE FindFirst
  BY <1>1, FirstTurn
<1>2. CASE NextPiece
  BY <1>2, LaterTurn
<1>3. CASE UNCHANGED splitVars
  <2>1. UNCHANGED <<chainText, splitStep, newStartPos, foundEndPos, certStrs>>
    BY <1>3 DEF splitVars
  <2>2. ArePieces(certStrs)'
    BY <2>1 DEF SplitInv, ArePieces, IsPiece, Positions
  <2>3. LoopInv => LoopInv'
    BY <2>1 DEF LoopInv, Positions, Covers
  <2>. QED BY <2>1, <2>2, <2>3 DEF SplitInv, Covers
<1>. QED BY <1>1, <1>2, <1>3 DEF SplitNext

\* A piece ends with the certificate that its last begin marker opens.
LEMMA PieceHoldsBlock ==
    ASSUME chainText \in ChainTexts, NEW piece, IsPiece(piece)
    PROVE  \E b \in Blocks(chainText) : piece[1] <= b[1] /\ b[2] = piece[2]
<1> DEFINE first == piece[1]
           last  == piece[2]
           distances == { last - k : k \in { j \in first .. last : chainText[j] = "BEGIN" } }
<1>1. /\ first \in 1 .. Len(chainText) /\ last \in 1 .. Len(chainText)
      /\ chainText[last] = "END" /\ piece \in Positions \X Positions
      /\ \A j \in first .. last - 1 : chainText[j] # "END"
  BY DEF IsPiece, Positions
<1>2. Len(chainText) \in Nat
  BY ChainIndices
<1>3. \E k \in first .. last : chainText[k] = "BEGIN"
  BY DEF IsPiece, HasBegin
<1>. HIDE DEF first, last
<1>4. distances # {} /\ distances \in SUBSET Nat
  BY <1>1, <1>2, <1>3
<1>5. PICK d \in distances : \A e \in distances : d <= e
  BY <1>4, LeastNumber
<1>6. PICK k \in first .. last : chainText[k] = "BEGIN" /\ d = last - k
  BY <1>5
<1>7. \A j \in k + 1 .. last - 1 : chainText[j] \notin { "BEGIN", "END" }
  <2> SUFFICES ASSUME NEW j \in k + 1 .. last - 1
               PROVE  chainText[j] # "BEGIN" /\ chainText[j] # "END"
    OBVIOUS
  <2>1. j \in first .. last - 1
    BY <1>1, <1>6
  <2>2. chainText[j] # "END"
    BY <1>1, <2>1
  <2>3. ASSUME chainText[j] = "BEGIN"
        PROVE  FALSE
    <3>1. last - j \in distances
      BY <1>1, <2>1, <2>3
    <3>2. d <= last - j
      BY <1>5, <3>1
    <3>. QED BY <1>1, <1>6, <2>1, <3>2
  <2>. QED BY <2>2, <2>3
<1>8. k < last
  BY <1>1, <1>6
<1>9. <<k, last>> \in Blocks(chainText)
  BY <1>1, <1>2, <1>6, <1>7, <1>8 DEF Blocks
<1>. QED BY <1>6, <1>9 DEF first, last

\* A certificate is known by its end.
LEMMA BlockOfEnd ==
    ASSUME chainText \in ChainTexts, NEW b \in Blocks(chainText), NEW c \in Blocks(chainText),
           b[2] = c[2]
    PROVE  b = c
<1>1. /\ b[1] \in 1 .. Len(chainText) /\ c[1] \in 1 .. Len(chainText)
      /\ b[1] < b[2] /\ c[1] < c[2]
      /\ chainText[b[1]] = "BEGIN" /\ chainText[c[1]] = "BEGIN"
      /\ \A k \in (b[1] + 1) .. (b[2] - 1) : chainText[k] \notin { "BEGIN", "END" }
      /\ \A k \in (c[1] + 1) .. (c[2] - 1) : chainText[k] \notin { "BEGIN", "END" }
      /\ b[2] \in 1 .. Len(chainText)
      /\ b \in Positions \X Positions /\ c \in Positions \X Positions
  BY BlockIs DEF Positions
<1>2. Len(chainText) \in Nat
  BY ChainIndices
<1>3. b[1] = c[1]
  BY <1>1, <1>2
<1>. QED BY <1>1, <1>3

\* A finite set that a list goes through without a double is as large as it is long.
LEMMA SetOfList ==
    ASSUME NEW n \in Nat, NEW T, NEW f \in [ 1 .. n -> T ],
           \A t \in T : \E i \in 1 .. n : f[i] = t,
           \A i, j \in 1 .. n : i # j => f[i] # f[j]
    PROVE  Cardinality(T) = n
<1>1. f \in Surjection(1 .. n, T) /\ f \in Injection(1 .. n, T)
  BY DEF Surjection, Injection, IsInjective
<1>2. IsFiniteSet(1 .. n) /\ Cardinality(1 .. n) = n
  BY FS_Interval
<1>. QED BY <1>1, <1>2, FS_Surjection

\* No certificate of a chain is lost, read twice or mixed with another
\* (CertificateChain.cpp:187), for texts of every length.
THEOREM SplitsTheChainHolds == SplitSpec => []SplitsTheChain
<1>1. SplitInv => SplitsTheChain
  <2> SUFFICES ASSUME SplitInv, splitStep = "done"
               PROVE  /\ IsWellFormed(chainText) => Len(certStrs) = Cardinality(Blocks(chainText))
                      /\ certStrs # << >> =>
                            \A b \in Blocks(chainText) :
                               Cardinality({ k \in DOMAIN certStrs : certStrs[k][2] = b[2] }) = 1
                      /\ \A k \in DOMAIN certStrs :
                            /\ \E b \in Blocks(chainText) :
                                  certStrs[k][1] <= b[1] /\ b[2] = certStrs[k][2]
                            /\ \A j \in certStrs[k][1] .. (certStrs[k][2] - 1) :
                                  chainText[j] # "END"
                            /\ k > 1 => certStrs[k - 1][2] < certStrs[k][1]
    BY DEF SplitsTheChain
  <2>1. PICK n \in Nat : /\ certStrs \in [ 1 .. n -> Positions \X Positions ]
                         /\ \A k \in 1 .. n : IsPiece(certStrs[k])
                         /\ \A i, k \in 1 .. n : i < k => certStrs[i][2] < certStrs[k][1]
    BY DEF SplitInv, ArePieces
  <2>2. DOMAIN certStrs = 1 .. n /\ Len(certStrs) = n /\ chainText \in ChainTexts
    <3>1. certStrs \in Seq(Positions \X Positions)
      BY <2>1, SeqDef
    <3>2. Len(certStrs) \in Nat /\ 1 .. Len(certStrs) = 1 .. n
      BY <2>1, <3>1, LenProperties
    <3>. QED BY <2>1, <3>2, SameEnd DEF SplitInv
  <2>3. \A k \in 1 .. n : \E b \in Blocks(chainText) :
           certStrs[k][1] <= b[1] /\ b[2] = certStrs[k][2]
    BY <2>1, <2>2, PieceHoldsBlock
  <2>4. \A i, k \in 1 .. n : i # k => certStrs[i][2] # certStrs[k][2]
    <3>1. \A i, k \in 1 .. n : i < k => certStrs[i][2] < certStrs[k][2]
      <4> SUFFICES ASSUME NEW i \in 1 .. n, NEW k \in 1 .. n, i < k
                   PROVE  certStrs[i][2] < certStrs[k][2]
        OBVIOUS
      <4>1. certStrs[i][2] < certStrs[k][1]
        BY <2>1
      <4>2. PICK b \in Blocks(chainText) : certStrs[k][1] <= b[1] /\ b[2] = certStrs[k][2]
        BY <2>3
      <4>3. b[1] \in Nat /\ b[2] \in Nat /\ b[1] < b[2]
        BY <2>2, BlockIs DEF Positions
      <4>4. certStrs[i][2] \in Nat /\ certStrs[k][1] \in Nat
        BY <2>1 DEF Positions
      <4>. QED BY <4>1, <4>2, <4>3, <4>4
    <3>2. \A k \in 1 .. n : certStrs[k][2] \in Nat
      BY <2>1 DEF Positions
    <3> SUFFICES ASSUME NEW i \in 1 .. n, NEW k \in 1 .. n, i # k
                 PROVE  certStrs[i][2] # certStrs[k][2]
      OBVIOUS
    <3>3. i < k \/ k < i
      BY <2>1
    <3>. QED BY <3>1, <3>2, <3>3
  <2>5. ASSUME certStrs # << >>, NEW b \in Blocks(chainText)
        PROVE  \E k \in 1 .. n : certStrs[k][2] = b[2]
    <3>1. b[2] <= Len(chainText)
      BY <2>2, BlockIs, ChainIndices DEF Positions
    <3>. QED BY <2>2, <2>5, <3>1 DEF SplitInv, Covers
  <2>6. ASSUME certStrs # << >>, NEW b \in Blocks(chainText)
        PROVE  Cardinality({ k \in DOMAIN certStrs : certStrs[k][2] = b[2] }) = 1
    <3>1. PICK k \in 1 .. n : certStrs[k][2] = b[2]
      BY <2>5, <2>6
    <3>2. { j \in DOMAIN certStrs : certStrs[j][2] = b[2] } = { k }
      BY <2>2, <2>4, <3>1
    <3>. QED BY <3>2, FS_Singleton
  <2>7. ASSUME IsWellFormed(chainText)
        PROVE  Len(certStrs) = Cardinality(Blocks(chainText))
    <3>1. CASE certStrs = << >>
      <4>1. Blocks(chainText) = {}
        BY <2>7, <3>1 DEF SplitInv
      <4>. QED BY <3>1, <4>1, FS_EmptySet
    <3>2. CASE certStrs # << >>
      <4> DEFINE f == [ k \in 1 .. n |-> CHOOSE b \in Blocks(chainText) : b[2] = certStrs[k][2] ]
      <4>1. \A k \in 1 .. n : f[k] \in Blocks(chainText) /\ f[k][2] = certStrs[k][2]
        <5> SUFFICES ASSUME NEW k \in 1 .. n
                     PROVE  f[k] \in Blocks(chainText) /\ f[k][2] = certStrs[k][2]
          OBVIOUS
        <5>1. \E b \in Blocks(chainText) : b[2] = certStrs[k][2]
          BY <2>3
        <5>. QED BY <5>1
      <4>2. f = [ k \in 1 .. n |-> f[k] ]
        OBVIOUS
      <4>. HIDE DEF f
      <4>3. f \in [ 1 .. n -> Blocks(chainText) ]
        BY <4>1, <4>2
      <4>4. \A b \in Blocks(chainText) : \E k \in 1 .. n : f[k] = b
        <5> SUFFICES ASSUME NEW b \in Blocks(chainText)
                     PROVE  \E k \in 1 .. n : f[k] = b
          OBVIOUS
        <5>1. PICK k \in 1 .. n : certStrs[k][2] = b[2]
          BY <2>5, <3>2
        <5>2. f[k] \in Blocks(chainText) /\ f[k][2] = b[2]
          BY <4>1, <5>1
        <5>3. f[k] = b
          BY <2>2, <5>2, BlockOfEnd
        <5>. QED BY <5>3
      <4>5. \A i, k \in 1 .. n : i # k => f[i] # f[k]
        BY <2>4, <4>1
      <4>6. Cardinality(Blocks(chainText)) = n
        BY <4>3, <4>4, <4>5, SetOfList
      <4>. QED BY <2>2, <4>6
    <3>. QED BY <3>1, <3>2
  <2>8. ASSUME NEW k \in DOMAIN certStrs
        PROVE  /\ \E b \in Blocks(chainText) : certStrs[k][1] <= b[1] /\ b[2] = certStrs[k][2]
               /\ \A j \in certStrs[k][1] .. (certStrs[k][2] - 1) : chainText[j] # "END"
               /\ k > 1 => certStrs[k - 1][2] < certStrs[k][1]
    <3>1. k \in 1 .. n
      BY <2>2
    <3>2. ASSUME k > 1
          PROVE  certStrs[k - 1][2] < certStrs[k][1]
      <4>1. k - 1 \in 1 .. n /\ k - 1 < k
        BY <2>1, <3>1, <3>2
      <4>. QED BY <2>1, <3>1, <4>1
    <3>. QED BY <2>1, <2>3, <3>1, <3>2 DEF IsPiece
  <2>. QED BY <2>6, <2>7, <2>8
<1>. QED BY <1>1, SplitInvInit, SplitInvStep, PTL DEF SplitSpec
=============================================================================
