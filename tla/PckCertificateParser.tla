------------------------- MODULE PckCertificateParser -------------------------
(***************************************************************************)
(* The X509 part of AttestationParsers: the constructors of Certificate,   *)
(* PckCertificate, ProcessorPckCertificate and PlatformPckCertificate,     *)
(* with Tcb and Configuration, over the SGX extensions of a certificate.   *)
(* A derived class reads everything that its base class has read again,    *)
(* then what is its own; a list of extensions is in no particular order    *)
(* and what it lacks is known when it ends.  The accessors of the objects  *)
(* are functions of what was read; one that may throw is the set of what   *)
(* it returns.                                                             *)
(***************************************************************************)
EXTENDS Integers, Sequences, FiniteSets, TLC

CONSTANTS
    COMPONENTS,         \* components of a TCB, 16
    BYTE_COUNT,         \* values of a uint8_t
    UINT_COUNT,         \* values of a uint32_t, and of an int
    LONG_COUNT,         \* values of a long
    Certificates        \* what the parsers may be given

ASSUME PckAssumption ==
    /\ COMPONENTS \in Nat \ {0}
    /\ BYTE_COUNT \in Nat /\ UINT_COUNT \in Nat /\ LONG_COUNT \in Nat
    /\ 0 < BYTE_COUNT /\ BYTE_COUNT < UINT_COUNT /\ 2 * BYTE_COUNT <= LONG_COUNT
    /\ UINT_COUNT % 2 = 0

VARIABLES
    class,          \* whose constructor was called
    certificate,    \* what it was given
    pc,
    exception,      \* what was thrown
    pass,           \* whose setMembers reads the extensions
    lists,          \* the list that is read and, above it, the one it is in
    members         \* what the object holds after a pass

vars == <<class, certificate, pc, exception, pass, lists, members>>

(***************************************************************************)
(* Object identifiers, without the prefix SGX_EXTENSION.                   *)
(***************************************************************************)
PPID     == <<1>>
TCB      == <<2>>
PCEID    == <<3>>
FMSPC    == <<4>>
SGX_TYPE == <<5>>
PLATFORM_INSTANCE_ID == <<6>>
CONFIGURATION        == <<7>>

SGX_TCB_COMP_SVN(i) == Append(TCB, i)
PCESVN == Append(TCB, COMPONENTS + 1)
CPUSVN == Append(TCB, COMPONENTS + 2)

SgxTcbComponents == { SGX_TCB_COMP_SVN(i) : i \in 1 .. COMPONENTS }
ConfigurationFlags == { Append(CONFIGURATION, i) : i \in 1 .. 3 }

PCK_REQUIRED_SGX_EXTENSIONS == { PPID, PCEID, FMSPC, SGX_TYPE, TCB }
PLATFORM_PCK_REQUIRED_SGX_EXTENSIONS == { PLATFORM_INSTANCE_ID, CONFIGURATION }
TCB_REQUIRED_SGX_EXTENSIONS == SgxTcbComponents \union { PCESVN, CPUSVN }
CONFIGURATION_REQUIRED_SGX_EXTENSIONS == ConfigurationFlags
TCB_SEQUENCE_LEN == COMPONENTS + 2

PROCESSOR_CA_EXTENSION_COUNT == 5
PLATFORM_CA_EXTENSION_COUNT  == 7

REQUIRED_X509_EXTENSIONS ==
    { "authority_key_identifier", "crl_distribution_points", "subject_key_identifier",
      "key_usage", "basic_constraints" }

(***************************************************************************)
(* Values. All have a type, the length in bytes of their content, a value  *)
(* and, if the type is "sequence", entries. The shape of an entry is       *)
(* "pair" if it is a sequence of an object and a value, "noObject" if its  *)
(* first part is something else (it has then an identifier that nobody     *)
(* knows), "notPair" if it is a sequence of another length and             *)
(* "notSequence" if it is none or cannot be read as one.                   *)
(***************************************************************************)
Shapes == { "pair", "noObject", "notPair", "notSequence" }

AreEntries(entries) ==
    /\ entries \in Seq({ entries[k] : k \in DOMAIN entries })
    /\ \A k \in DOMAIN entries : entries[k].shape \in Shapes /\ entries[k].value.value \in Int

\* What OpenSSL makes of a certificate, and of the first extension with the name.
IsDecoded(c) ==
    /\ c.pem \in BOOLEAN
    /\ c.sgx \in Seq({ c.sgx[k] : k \in DOMAIN c.sgx })
    /\ c.sgx # <<>> /\ Head(c.sgx).type = "sequence" =>
         /\ AreEntries(Head(c.sgx).entries)
         /\ \A k \in DOMAIN Head(c.sgx).entries :
              LET v == Head(c.sgx).entries[k].value
              IN  v.type = "sequence" => AreEntries(v.entries)

ASSUME CertificatesAssumption == \A c \in Certificates : IsDecoded(c)

Pck       == "PckCertificate"
Processor == "ProcessorPckCertificate"
Platform  == "PlatformPckCertificate"
Classes   == { Pck, Processor, Platform }

OctetLength == PPID :> 16 @@ PCEID :> 2 @@ FMSPC :> 6 @@ PLATFORM_INSTANCE_ID :> 16
                 @@ CPUSVN :> 16

\* validateOid
IsOctets(v, length) == v.type = "octets" /\ v.length = length

HasSimpleType(oid, v) ==
    \/ oid \in DOMAIN OctetLength /\ IsOctets(v, OctetLength[oid])
    \/ oid = SGX_TYPE /\ v.type = "enumerated"
    \/ oid \in SgxTcbComponents \union { PCESVN } /\ v.type = "integer"
    \/ oid \in ConfigurationFlags /\ v.type = "boolean"

\* ASN1_INTEGER_get returns -1 for what does not fit. So does ASN1_ENUMERATED_get, or, for
\* what has too many bytes, the highest unsigned number, which is the int -1 too.
IsLong(n) == -(LONG_COUNT \div 2) <= n /\ n < LONG_COUNT \div 2
AsLong(n) == IF IsLong(n) THEN n ELSE -1

\* static_cast<int>: the lowest bits, as a number with a sign. The enumeration SgxType has
\* names for three numbers and is given any: its objects have the bits of the int in every
\* build (a test has 999, PckCertificateUT.cpp:270), since no build limits enumerations to
\* the values that C++ guarantees them.
IntNumbers == -(UINT_COUNT \div 2) .. UINT_COUNT \div 2 - 1
AsInt(n) == ((n + UINT_COUNT \div 2) % UINT_COUNT) - UINT_COUNT \div 2

\* oidToByte, oidToUInt, oidToBytes, oidToEnum
Converted(oid, v) ==
    IF oid \in SgxTcbComponents THEN AsLong(v.value) % BYTE_COUNT
    ELSE IF oid = PCESVN THEN AsLong(v.value) % UINT_COUNT
    ELSE IF oid = SGX_TYPE THEN AsInt(AsLong(v.value))
    ELSE v.value

(***************************************************************************)
(* Checks.                                                                 *)
(***************************************************************************)
Format    == "FormatException"
Extension == "InvalidExtensionException"
None      == "none"

Check(holds, otherwise) == << [ holds |-> holds, otherwise |-> otherwise ] >>

FirstFailure(checks) ==
    LET failed == { i \in DOMAIN checks : ~checks[i].holds }
    IN  IF failed = {} THEN None
        ELSE checks[CHOOSE i \in failed : \A j \in failed : i <= j].otherwise

\* Certificate::Certificate; what X509 always has is not looked at here.
CertificateChecks ==
    Check(certificate.pem, Format)
      \o Check(certificate.signature # "empty", Format)
      \o Check(certificate.signature = "ECDSA", Format)
      \o Check(certificate.validity = "times", Format)
      \o Check(REQUIRED_X509_EXTENSIONS \subseteq certificate.extensions, Extension)

\* getSgxExtensions, for the first extension with that identifier.
SgxExtensionsChecks ==
    IF certificate.sgx = <<>> THEN Check(FALSE, Extension)
    ELSE Check(Head(certificate.sgx).type # "unreadable", Extension)
           \o Check(Head(certificate.sgx).type = "sequence", Format)

SgxExtensions ==
    IF certificate.sgx = <<>> THEN <<>> ELSE Head(certificate.sgx).entries

\* What each setMembers and each nested constructor knows and needs.
RequiredOf(reader) ==
    CASE reader = Pck       -> PCK_REQUIRED_SGX_EXTENSIONS
      [] reader = Platform  -> PLATFORM_PCK_REQUIRED_SGX_EXTENSIONS
      [] reader = "Tcb"     -> TCB_REQUIRED_SGX_EXTENSIONS
      [] reader = "Configuration" -> CONFIGURATION_REQUIRED_SGX_EXTENSIONS
      [] OTHER -> {}

Nested == { TCB, CONFIGURATION }
NestedReader(oid) == IF oid = TCB THEN "Tcb" ELSE "Configuration"

\* Fault: a TCB of another length is said to be malformed.
CountChecks_TcbFormat(reader, count) ==
    Check(reader = "Tcb" => count = TCB_SEQUENCE_LEN, Format)
      \o Check(reader = Pck => count \in { 5, 7 }, Extension)
      \o Check(reader = Processor => count = 5, Extension)
      \o Check(reader = Platform => count = 7, Extension)

CountChecks(reader, count) ==
    LET expectedIn(counts) == Check(count \in counts, Extension) IN
    CASE reader = Pck -> expectedIn({ PROCESSOR_CA_EXTENSION_COUNT, PLATFORM_CA_EXTENSION_COUNT })
      [] reader = Processor -> expectedIn({ PROCESSOR_CA_EXTENSION_COUNT })
      [] reader = Platform  -> expectedIn({ PLATFORM_CA_EXTENSION_COUNT })
      [] reader = "Tcb"     -> expectedIn({ TCB_SEQUENCE_LEN })
      [] OTHER -> <<>>

\* PlatformPckCertificate::setMembers relies on its base class for names.
EntryChecks(reader, entry) ==
    Check(entry.shape # "notSequence", Format)
      \o Check(entry.shape # "notPair", Extension)
      \o Check(entry.shape = "noObject" => reader = Platform, Format)

(***************************************************************************)
(* Steps.                                                                  *)
(***************************************************************************)
Empty == [ oid \in {} |-> 0 ]

List(reader, entries, found) ==
    [ reader |-> reader, entries |-> entries, position |-> 1,
      expected |-> RequiredOf(reader), found |-> found ]

Reader == IF pass = "own" THEN class ELSE Pck

Top == Head(lists)
\* Fault: the last entry is not read.
AtEnd_Early == Top.position >= Len(Top.entries)

AtEnd == Top.position > Len(Top.entries)
Entry == Top.entries[Top.position]

Stored(oid) == oid

\* What is read later takes the place of what was read before.
Over(later, earlier) ==
    [ oid \in DOMAIN later \union DOMAIN earlier |->
        IF oid \in DOMAIN later THEN later[oid] ELSE earlier[oid] ]

With(list, oid, found) ==
    [ list EXCEPT !.position = @ + 1, !.found = Over(found, @), !.expected = @ \ { oid } ]

Throw(thrown) ==
    /\ pc' = "refused"
    /\ exception' = thrown
    /\ UNCHANGED <<class, certificate, pass, lists, members>>

\* The constructors that are given a Certificate begin after what its own has checked.
FromCertificate == pc = "extensions" /\ FirstFailure(CertificateChecks) = None

Start ==
    /\ pc = "certificate" \/ FromCertificate
    /\ exception = None
    /\ pass = "constructor"
    /\ lists = <<>>
    /\ members = Empty

Init == class \in Classes /\ certificate \in Certificates /\ Start

ReadCertificate ==
    /\ pc = "certificate"
    /\ LET failure == FirstFailure(CertificateChecks) IN
       IF failure = None
       THEN /\ pc' = "extensions"
            /\ UNCHANGED <<class, certificate, exception, pass, lists, members>>
       ELSE Throw(failure)

\* getSgxExtensions, which is called once for "base" and "own", and the
\* beginning of setMembers.
OpenExtensions ==
    /\ pc = "extensions"
    /\ LET failure == FirstFailure(
                        (IF pass = "own" THEN <<>> ELSE SgxExtensionsChecks)
                          \o CountChecks(Reader, Len(SgxExtensions)))
       IN  IF failure # None THEN Throw(failure)
           ELSE /\ IF Reader = Processor
                   THEN pc' = "accepted" /\ UNCHANGED lists
                   ELSE pc' = "entries" /\ lists' = << List(Reader, SgxExtensions, members) >>
                /\ UNCHANGED <<class, certificate, exception, pass, members>>

RefuseEntry ==
    /\ pc = "entries" /\ ~AtEnd
    /\ LET failure == FirstFailure(EntryChecks(Top.reader, Entry)) IN
       /\ failure # None
       /\ Throw(failure)

Named ==
    /\ pc = "entries" /\ ~AtEnd
    /\ FirstFailure(EntryChecks(Top.reader, Entry)) = None

SkipUnknown ==
    /\ Named
    /\ Entry.oid \notin RequiredOf(Top.reader)
    /\ lists' = << [ Top EXCEPT !.position = @ + 1 ] >> \o Tail(lists)
    /\ UNCHANGED <<class, certificate, pc, exception, pass, members>>

ReadValue ==
    /\ Named
    /\ Entry.oid \in RequiredOf(Top.reader) \ Nested
    /\ IF HasSimpleType(Entry.oid, Entry.value)
       THEN /\ lists' = << With(Top, Entry.oid,
                                [ oid \in { Stored(Entry.oid) } |->
                                    Converted(Entry.oid, Entry.value) ]) >>
                         \o Tail(lists)
            /\ UNCHANGED <<class, certificate, pc, exception, pass, members>>
       ELSE Throw(Format)

\* The beginning of Tcb::Tcb and Configuration::Configuration.
OpenNested ==
    /\ Named
    /\ Entry.oid \in RequiredOf(Top.reader) \intersect Nested
    /\ LET reader  == NestedReader(Entry.oid)
           failure == FirstFailure(
                        Check(Entry.value.type = "sequence", Format)
                          \o CountChecks(reader, Len(Entry.value.entries)))
       IN  IF failure # None THEN Throw(failure)
           ELSE /\ lists' = << List(reader, Entry.value.entries, Empty) >> \o lists
                /\ UNCHANGED <<class, certificate, pc, exception, pass, members>>

CloseNested ==
    /\ pc = "entries" /\ AtEnd /\ Len(lists) = 2
    /\ IF Top.expected # {} THEN Throw(Extension)
       ELSE LET outer == lists[2] IN
            /\ lists' = << With(outer, outer.entries[outer.position].oid, Top.found) >>
            /\ UNCHANGED <<class, certificate, pc, exception, pass, members>>

NextPass ==
    CASE pass = "constructor" /\ class # Pck -> "base"
      [] pass = "base" -> "own"
      [] OTHER -> "none"

CloseExtensions ==
    /\ pc = "entries" /\ AtEnd /\ Len(lists) = 1
    /\ IF Top.expected # {} THEN Throw(Extension)
       ELSE /\ members' = Top.found
            /\ lists' = <<>>
            /\ IF NextPass = "none"
               THEN pc' = "accepted" /\ UNCHANGED pass
               ELSE pc' = "extensions" /\ pass' = NextPass
            /\ UNCHANGED <<class, certificate, exception>>

Next ==
    \/ ReadCertificate \/ OpenExtensions \/ RefuseEntry
    \/ SkipUnknown \/ ReadValue \/ OpenNested \/ CloseNested \/ CloseExtensions

Spec == Init /\ [][Next]_vars

(***************************************************************************)
(* What a certificate of each class is.                                    *)
(***************************************************************************)
OidsOf(entries) == { entries[k].oid : k \in DOMAIN entries }

IsListOf(entries, required, fits(_, _)) ==
    /\ \A k \in DOMAIN entries : entries[k].shape = "pair"
    /\ \A k \in DOMAIN entries : entries[k].oid \in required
                                   => fits(entries[k].oid, entries[k].value)
    /\ required \subseteq OidsOf(entries)

HasType(oid, v) ==
    IF oid \in Nested
    THEN /\ v.type = "sequence"
         /\ oid = TCB => Len(v.entries) = TCB_SEQUENCE_LEN
         /\ IsListOf(v.entries, RequiredOf(NestedReader(oid)), HasSimpleType)
    ELSE HasSimpleType(oid, v)

IsCertificate(c) ==
    /\ c.pem /\ c.signature = "ECDSA" /\ c.validity = "times"
    /\ REQUIRED_X509_EXTENSIONS \subseteq c.extensions

Counts(k) == CASE k = Pck -> { 5, 7 } [] k = Processor -> { 5 } [] k = Platform -> { 7 }

RequiredBy(k) ==
    PCK_REQUIRED_SGX_EXTENSIONS
      \union (IF k = Platform THEN PLATFORM_PCK_REQUIRED_SGX_EXTENSIONS ELSE {})

IsOfProfile(c, k) ==
    /\ IsCertificate(c)
    /\ c.sgx # <<>>
    /\ Head(c.sgx).type = "sequence"
    /\ Len(Head(c.sgx).entries) \in Counts(k)
    /\ IsListOf(Head(c.sgx).entries, RequiredBy(k), HasType)

(***************************************************************************)
(* Classes of the objects. Octets are the values they were made with.      *)
(***************************************************************************)
SgxComponentNumbers == 0 .. COMPONENTS - 1

TcbClass ==
    [ cpuSvn : Int, cpuSvnComponents : [ SgxComponentNumbers -> 0 .. BYTE_COUNT - 1 ],
      pceSvn : 0 .. UINT_COUNT - 1 ]

ConfigurationClass ==
    [ dynamicPlatform : BOOLEAN, cachedKeys : BOOLEAN, smtEnabled : BOOLEAN ]

PckCertificateClass == [ ppid : Int, pceId : Int, fmspc : Int, sgxType : IntNumbers, tcb : TcbClass ]

PlatformPckCertificateClass == [ platformInstanceId : Int, configuration : ConfigurationClass ]

(***************************************************************************)
(* Objects of what was accepted.                                           *)
(***************************************************************************)
TcbObject ==
    [ cpuSvn |-> members[CPUSVN],
      cpuSvnComponents |-> [ n \in SgxComponentNumbers |-> members[SGX_TCB_COMP_SVN(n + 1)] ],
      pceSvn |-> members[PCESVN] ]

\* Fault: the second and the third flag are exchanged.
ConfigurationObject_Swapped ==
    [ dynamicPlatform |-> members[Append(CONFIGURATION, 1)] # 0,
      cachedKeys |-> members[Append(CONFIGURATION, 3)] # 0,
      smtEnabled |-> members[Append(CONFIGURATION, 2)] # 0 ]

ConfigurationObject ==
    [ dynamicPlatform |-> members[Append(CONFIGURATION, 1)] # 0,
      cachedKeys |-> members[Append(CONFIGURATION, 2)] # 0,
      smtEnabled |-> members[Append(CONFIGURATION, 3)] # 0 ]

PckCertificateObject ==
    [ ppid |-> members[PPID], pceId |-> members[PCEID], fmspc |-> members[FMSPC],
      sgxType |-> members[SGX_TYPE], tcb |-> TcbObject ]

PlatformPckCertificateObject ==
    [ platformInstanceId |-> members[PLATFORM_INSTANCE_ID],
      configuration |-> ConfigurationObject ]

\* std::vector::at throws for a number that no component has.
PckTcbComponentSvn(tcb, n) ==
    IF n \in SgxComponentNumbers THEN { tcb.cpuSvnComponents[n] } ELSE {}

(***************************************************************************)
(* Properties.                                                             *)
(***************************************************************************)
Simple(reader) == RequiredOf(reader) \ Nested
Members == Simple(Pck) \union Simple(Platform) \union RequiredOf("Tcb")
             \union RequiredOf("Configuration")

\* Everything has its type: the objects' members are of the width that they
\* have in the code, and a list that is read lies at most in one other list.
TypeOK ==
    /\ class \in Classes
    /\ pc \in { "certificate", "extensions", "entries", "accepted", "refused" }
    /\ exception \in { None, Format, Extension }
    /\ pass \in { "constructor", "base", "own" }
    /\ Len(lists) <= 2
    /\ \A k \in DOMAIN lists :
         /\ lists[k].position \in 1 .. Len(lists[k].entries) + 1
         /\ lists[k].expected \subseteq RequiredOf(lists[k].reader)
         /\ \A oid \in DOMAIN lists[k].found \intersect SgxTcbComponents :
              lists[k].found[oid] \in 0 .. BYTE_COUNT - 1
    /\ DOMAIN members \subseteq Members

\* The constructors (PckCertificate.cpp, ProcessorPckCertificate.cpp,
\* PlatformPckCertificate.cpp) accept what is a certificate of their class
\* and nothing else, in whatever order the extensions are.
AcceptsTheProfile ==
    /\ pc = "accepted" => IsOfProfile(certificate, class)
    /\ pc = "refused"  => ~IsOfProfile(certificate, class)

\* What the accessors return is in the certificate under their identifier:
\* in the last entry of it, and complete although the object is filled up to
\* three times (PckCertificate.cpp:126-190, Tcb.cpp:122-231). A number that its member has
\* room for is not changed, and a component is kept as a byte. The class of platforms turns names into
\* text without a look at their type (PlatformPckCertificate.cpp:107-109): it comes only
\* to names that its base class has looked at.
LastValue(entries, oid) ==
    entries[CHOOSE k \in DOMAIN entries :
              entries[k].oid = oid /\ \A l \in k + 1 .. Len(entries) : entries[l].oid # oid].value

HasRoom(oid, n) ==
    /\ oid \in SgxTcbComponents => n \in 0 .. BYTE_COUNT - 1
    /\ oid = PCESVN   => IsLong(n) /\ n \in 0 .. UINT_COUNT - 1
    /\ oid = SGX_TYPE => IsLong(n) /\ n \in IntNumbers

InCertificate(oid) ==
    IF Len(oid) = 1 THEN LastValue(SgxExtensions, oid)
    ELSE LastValue(LastValue(SgxExtensions, << oid[1] >>).entries, oid)

MembersAreTheCertificates ==
    /\ pc = "accepted" =>
         DOMAIN members = Simple(Pck) \union RequiredOf("Tcb")
           \union (IF class = Platform THEN Simple(Platform) \union RequiredOf("Configuration") ELSE {})
    /\ pc = "accepted" =>
         \A oid \in DOMAIN members :
           LET n == InCertificate(oid).value
           IN  /\ HasRoom(oid, n) => members[oid] = n
               /\ oid \in SgxTcbComponents => members[oid] \in 0 .. BYTE_COUNT - 1
    /\ pc = "entries" /\ Top.position <= Len(Top.entries) /\ Top.reader = Platform
         => Entry.shape # "noObject"

CertifiedConfiguration == SgxExtensions[CHOOSE k \in DOMAIN SgxExtensions :
    /\ SgxExtensions[k].oid = CONFIGURATION
    /\ \A j \in k + 1 .. Len(SgxExtensions) : SgxExtensions[j].oid # CONFIGURATION ].value.entries

\* Besides what MembersAreTheCertificates says: what a caller is answered through the
\* object of a PCK certificate (PckCertificate.cpp 51-74, Tcb.cpp 55-73, Configuration.cpp
\* 56-69, PlatformPckCertificate.cpp 56-64) is what the certificate says. A component that
\* the certificate has is answered and no other; a flag is on only if the last entry for it
\* in the last configuration of the list, whatever the order, says so.
ObjectsAnswerAsCertified ==
    /\ MembersAreTheCertificates
    /\ pc = "accepted" =>
         /\ PckCertificateObject \in PckCertificateClass
         /\ \A n \in -1 .. COMPONENTS :
              (PckTcbComponentSvn(TcbObject, n) # {}) <=>
                SGX_TCB_COMP_SVN(n + 1) \in DOMAIN members \intersect SgxTcbComponents
         /\ \A n \in SgxComponentNumbers :
              LET svn == InCertificate(SGX_TCB_COMP_SVN(n + 1)).value
              IN  svn \in 0 .. BYTE_COUNT - 1 => PckTcbComponentSvn(TcbObject, n) = { svn }
    /\ pc = "accepted" /\ class = Platform =>
         LET flag(n) == LastValue(CertifiedConfiguration, Append(CONFIGURATION, n)).value # 0 IN
         /\ PlatformPckCertificateObject \in PlatformPckCertificateClass
         /\ PlatformPckCertificateObject.configuration =
              [ dynamicPlatform |-> flag(1), cachedKeys |-> flag(2), smtEnabled |-> flag(3) ]

\* The library reports FormatException and InvalidExtensionException as
\* different statuses (CertificateChain.cpp:113-122): what has the types that
\* it should is never called malformed, and what has all extensions, in their
\* number, is never said to lack one.
AllHaveTypes(c) ==
    /\ c.pem /\ c.signature = "ECDSA" /\ c.validity = "times"
    /\ c.sgx # <<>> =>
         /\ Head(c.sgx).type = "sequence"
         /\ \A k \in DOMAIN Head(c.sgx).entries :
              LET entry == Head(c.sgx).entries[k] IN
              /\ entry.shape = "pair"
              /\ entry.oid \in Nested =>
                   /\ entry.value.type = "sequence"
                   /\ \A l \in DOMAIN entry.value.entries :
                        /\ entry.value.entries[l].shape = "pair"
                        /\ entry.value.entries[l].oid \in RequiredOf(NestedReader(entry.oid))
                             => HasSimpleType(entry.value.entries[l].oid, entry.value.entries[l].value)
              /\ entry.oid \in Simple(Pck) \union Simple(Platform) => HasSimpleType(entry.oid, entry.value)

Lacks(entries, required) ==
    ~(required \subseteq OidsOf(entries)) \/ \E k \in DOMAIN entries : entries[k].shape = "notPair"

LacksExtensions(c, k) ==
    \/ ~(REQUIRED_X509_EXTENSIONS \subseteq c.extensions)
    \/ c.sgx = <<>>
    \/ Head(c.sgx).type = "unreadable"
    \/ Len(Head(c.sgx).entries) \notin Counts(k)
    \/ Lacks(Head(c.sgx).entries, RequiredBy(k))
    \/ \E j \in DOMAIN Head(c.sgx).entries :
         LET entry == Head(c.sgx).entries[j] IN
         /\ entry.oid \in Nested
         /\ \/ Lacks(entry.value.entries, RequiredOf(NestedReader(entry.oid)))
            \/ entry.oid = TCB /\ Len(entry.value.entries) # TCB_SEQUENCE_LEN

ExceptionTellsTheCause ==
    /\ exception = Format => ~AllHaveTypes(certificate)
    /\ exception = Extension => LacksExtensions(certificate, class)
===============================================================================
