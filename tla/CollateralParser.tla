--------------------------- MODULE CollateralParser ---------------------------
(***************************************************************************)
(* TcbInfo::parse and EnclaveIdentity::parse (Json/ of AttestationParsers):*)
(* the constructors check one thing after the other, and the first check   *)
(* that fails throws its own kind of exception, which the library turns    *)
(* into its status. Levels are put one by one into a std::set that the     *)
(* levels' operator> orders, and getTcbLevel looks them up there.          *)
(***************************************************************************)
EXTENDS CollateralFormat

CONSTANTS
    Documents,      \* what the parsers may be given
    Platforms       \* whose level is looked up in what was parsed

\* The constructors are given what JsonParser::parse has accepted.
ASSUME DocumentsAssumption == \A d \in Documents : IsJsonDocument(d)

VARIABLES
    document,
    pc,                 \* the part that is read next
    exception,          \* what was thrown
    next,               \* position in the array that is being read
    levels,             \* _tcbLevels, _identityTcbLevels
    moduleIdentities    \* _tdxModuleIdentities

vars == <<document, pc, exception, next, levels, moduleIdentities>>

(***************************************************************************)
(* Checks.                                                                 *)
(***************************************************************************)
Format    == "FormatException"
Extension == "InvalidExtensionException"
BadVersion == "InvalidVersionException"
None == "none"

Check(holds, otherwise) == << [ holds |-> holds, otherwise |-> otherwise ] >>

FirstFailure(checks) ==
    LET failed == { i \in DOMAIN checks : ~checks[i].holds }
    IN  IF failed = {} THEN None
        ELSE checks[CHOOSE i \in failed : \A j \in failed : i <= j].otherwise

\* A field that is there and reads as its kind. The getters of JsonParser
\* throw FormatException themselves when the parent is no object.
Required(parent, field, kind, missing, invalid) ==
    Check(parent.type = "object", Format) \o Check(Has(parent, field), missing)
      \o Check(Reads(Field(parent, field), kind), invalid)

TextAmong(parent, field, values, otherwise) ==
    Check(IsTextOf(Field(parent, field), values), otherwise)

NumberAmong(parent, field, values, otherwise) ==
    Check(IsNumberOf(Field(parent, field), values), otherwise)

(***************************************************************************)
(* Fields of the documents, in the order of the constructors.              *)
(***************************************************************************)
MissingSignature == IF document.kind = "TcbInfo" THEN Extension ELSE Format

EnvelopeChecks ==
    Check(document.root.type = "object", Format)
      \o Required(document.root, BodyName(document), "object", Format, Format)
      \o Check(Has(document.root, "signature"), MissingSignature)

SignatureChecks ==
    Check(IsSignature(Field(document.root, "signature")), Extension)
      \o Check(Has(Body(document), "tcbLevels"), Extension)

IsVersion(n) == IsNumberOf(Field(Body(document), "version"), { n })

TcbInfoChecks ==
    LET info == Body(document) IN
    Required(info, "version", "uint", Format, Extension)
      \o NumberAmong(info, "version", { 2, 3 }, Extension)
      \o (IF IsVersion(3)
          THEN Required(info, "id", "string", Format, Extension)
                 \o TextAmong(info, "id", { SGX_ID, TDX_ID }, Extension)
          ELSE <<>>)
      \o Required(info, "issueDate", "date", Format, Extension)
      \o Required(info, "nextUpdate", "date", Format, Extension)
      \o Required(info, "fmspc", "hex12", Format, Extension)
      \o Required(info, "pceId", "hex4", Format, Extension)
      \o SignatureChecks
      \o Required(info, "tcbType", "int", Format, Extension)
      \o NumberAmong(info, "tcbType", { 0 }, Extension)
      \o Required(info, "tcbEvaluationDataNumber", "uint", Format, Extension)

IdChecks ==
    Required(Body(document), "id", "string", Extension, Extension)
      \o TextAmong(Body(document), "id", EnclaveIDs, Extension)

VersionChecks ==
    Required(Body(document), "version", "uint", Extension, Extension)
      \o NumberAmong(Body(document), "version", { 2 }, BadVersion)

ContentChecks ==
    LET needs(field, kind) == Required(Body(document), field, kind, Extension, Extension) IN
    needs("issueDate", "date") \o needs("nextUpdate", "date")
      \o needs("tcbEvaluationDataNumber", "uint")
      \o needs("miscselect", "hex8") \o needs("miscselectMask", "hex8")
      \o needs("attributes", "hex32") \o needs("attributesMask", "hex32")
      \o needs("mrsigner", "hex64") \o needs("isvprodid", "uint")

EnclaveIdentityChecks == IdChecks \o VersionChecks \o ContentChecks \o SignatureChecks

(***************************************************************************)
(* Levels.                                                                 *)
(***************************************************************************)
\* static_cast<uint8_t>
Svns(d, tcb, components) == [ i \in SvnIndex |-> SvnsOf(d, tcb, components)[i] % UINT8_COUNT ]

TcbLevelCommonChecks(v) ==
    Required(v, "tcbDate", "date", Format, Extension)
      \o Check(OptionalOf(v, "advisoryIDs", "strings"), Extension)
      \o Required(v, "tcbStatus", "string", Format, Format)
      \o TextAmong(v, "tcbStatus", TcbInfoStatuses, Extension)
      \o Check(Has(v, "tcb"), Format)

\* For each component, that it is there and that it is a number.
SetCpuSvnChecks(tcb) ==
    [ k \in 1 .. 2 * CPUSVN_BYTE_LEN |->
        LET name == SvnName((k - 1) \div 2) IN
        IF k % 2 = 1 THEN [ holds |-> Has(tcb, name), otherwise |-> Format ]
        ELSE [ holds |-> Reads(Field(tcb, name), "uint"), otherwise |-> Extension ] ]

PceSvnChecks(tcb) == Required(tcb, "pcesvn", "uint", Format, Format)

SetTcbComponentsChecks(tcb) ==
    Check(AreTcbComponents(Field(tcb, "sgxtcbcomponents")), Format)
      \o Check(IsTdx(document) => AreTcbComponents(Field(tcb, "tdxtcbcomponents")), Format)

TcbLevelChecks(v) ==
    LET tcb == Field(v, "tcb") IN
    TcbLevelCommonChecks(v)
      \o Check(tcb.type = "object", Format)
      \o (IF IsVersion(2) THEN SetCpuSvnChecks(tcb) \o PceSvnChecks(tcb)
          ELSE PceSvnChecks(tcb) \o SetTcbComponentsChecks(tcb))

TcbLevel(v) ==
    LET level == SignedLevel(v, document) IN
    [ level EXCEPT
        !.sgx = Svns(document, Field(v, "tcb"), "sgxtcbcomponents"),
        !.tdx = IF IsTdx(document) THEN Svns(document, Field(v, "tcb"), "tdxtcbcomponents")
                ELSE @ ]

IdentityTcbLevelChecks(v) ==
    Check(v.type = "object", Format)
      \o Check(Has(v, "tcb"), Format)
      \o Required(Field(v, "tcb"), "isvsvn", "uint", Format, Extension)
      \o Required(v, "tcbDate", "date", Format, Extension)
      \o Required(v, "tcbStatus", "string", Format, Extension)
      \o TextAmong(v, "tcbStatus", IdentityStatuses, Extension)
      \o Check(OptionalOf(v, "advisoryIDs", "strings"), Extension)

LevelChecks(v) ==
    IF document.kind = "TcbInfo" THEN TcbLevelChecks(v) ELSE IdentityTcbLevelChecks(v)

Level(v) == IF document.kind = "TcbInfo" THEN TcbLevel(v) ELSE SignedLevel(v, document)

LevelGreater(a, b) ==
    IF document.kind = "TcbInfo" THEN TcbLevelGreater(Id(document), a, b)
    ELSE IdentityTcbLevelGreater(a, b)

\* Fault: emplace's result is not looked at.
Insertable_Always(level) == TRUE

\* std::set::emplace inserts what compares equal to nothing it has.
Insertable(level) == \A l \in levels : LevelGreater(l, level) \/ LevelGreater(level, l)

(***************************************************************************)
(* Steps.                                                                  *)
(***************************************************************************)
Decided == { "accepted", "refused" }

Throw(thrown) ==
    /\ pc' = "refused"
    /\ exception' = thrown
    /\ UNCHANGED <<document, next, levels, moduleIdentities>>

Goto(part) ==
    /\ pc' = part
    /\ next' = 1
    /\ UNCHANGED <<document, exception, levels, moduleIdentities>>

Init ==
    /\ document \in Documents
    /\ pc = "envelope"
    /\ exception = None
    /\ next = 1
    /\ levels = {}
    /\ moduleIdentities = <<>>

Pass(part, checks, then) ==
    /\ pc = part
    /\ IF FirstFailure(checks) = None THEN Goto(then) ELSE Throw(FirstFailure(checks))

ReadEnvelope == Pass("envelope", EnvelopeChecks, "fields")

ReadTcbInfo ==
    /\ document.kind = "TcbInfo"
    /\ Pass("fields", TcbInfoChecks, "tdxPart")

ReadEnclaveIdentity ==
    /\ document.kind = "EnclaveIdentity"
    /\ Pass("fields", EnclaveIdentityChecks, "levelsArray")

\* parsePartV3; version 2 has none of it, and is not even asked.
TdxPartChecks ==
    LET info == Body(document) IN
    IF IsTdx(document)
    THEN Check(Has(info, "tdxModule"), Extension)
           \o Check(IsTdxModule(Field(info, "tdxModule")), Format)
           \o Check(OptionalOf(info, "tdxModuleIdentities", "array"), Extension)
    ELSE IF IsVersion(3)
    THEN Check(~Has(info, "tdxModule"), Extension)
           \o Check(~Has(info, "tdxModuleIdentities"), Extension)
    ELSE <<>>

HasModuleIdentities == IsTdx(document) /\ Has(Body(document), "tdxModuleIdentities")

ReadTdxPart ==
    Pass("tdxPart", TdxPartChecks,
         IF HasModuleIdentities THEN "moduleIdentities" ELSE "levelsArray")

\* Id and statuses may be any string.
ModuleIdentity(v) ==
    LET read(l) == [ isvSvn |-> ModuleLevelSvn(l), status |-> Field(l, "tcbStatus") ]
        elements == Field(v, "tcbLevels").elements
    IN  [ id |-> Field(v, "id"),
          levels |-> { read(elements[i]) : i \in DOMAIN elements } ]

ReadModuleIdentity ==
    LET identities == Field(Body(document), "tdxModuleIdentities").elements IN
    /\ pc = "moduleIdentities"
    /\ next \in DOMAIN identities
    /\ IF IsModuleIdentity(identities[next])
       THEN /\ moduleIdentities' = Append(moduleIdentities, ModuleIdentity(identities[next]))
            /\ next' = next + 1
            /\ UNCHANGED <<document, pc, exception, levels>>
       ELSE Throw(Format)

EndModuleIdentities ==
    /\ pc = "moduleIdentities"
    /\ next \notin DOMAIN Field(Body(document), "tdxModuleIdentities").elements
    /\ Pass("moduleIdentities", Check(moduleIdentities # <<>>, Extension), "levelsArray")

ReadLevelsArray ==
    Pass("levelsArray", Check(Reads(Field(Body(document), "tcbLevels"), "array"), Extension),
         "levels")

ReadLevel ==
    LET element == JsonLevels(document)[next]
        failure == FirstFailure(LevelChecks(element))
    IN
    /\ pc = "levels"
    /\ next \in DOMAIN JsonLevels(document)
    /\ IF failure # None THEN Throw(failure)
       ELSE IF ~Insertable(Level(element)) THEN Throw(Extension)
       ELSE /\ levels' = levels \union { Level(element) }
            /\ next' = next + 1
            /\ UNCHANGED <<document, pc, exception, moduleIdentities>>

\* isWithinJsonDepthLimit walks the body with a stack of its own, before the
\* body is written again, recursively, as what is signed.
EndChecks ==
    Check(levels # {}, Extension) \o Check(document.nesting <= MAX_JSON_DEPTH, Extension)

EndLevels ==
    /\ pc = "levels"
    /\ next \notin DOMAIN JsonLevels(document)
    /\ Pass("levels", EndChecks, "accepted")

Next ==
    \/ ReadEnvelope
    \/ ReadTcbInfo \/ ReadTdxPart \/ ReadModuleIdentity \/ EndModuleIdentities
    \/ ReadEnclaveIdentity
    \/ ReadLevelsArray \/ ReadLevel \/ EndLevels

Spec == Init /\ [][Next]_vars

(***************************************************************************)
(* The objects that TcbInfo::parse and EnclaveIdentity::parse return, and  *)
(* what their accessors say. A TCB level keeps the SVNs of SGX up to three *)
(* times, for callers of the older and of the newer interface; which copy  *)
(* an accessor answers from, and whether it answers at all, depends on the *)
(* version and the id of the TCB info.                                     *)
(*                                                                         *)
(* Of bytes only the number is kept, of a string that is a date or is      *)
(* hexadecimal digits only that it is. An accessor is the set of what it   *)
(* returns, which is empty when it throws FormatException.                 *)
(***************************************************************************)
V2 == 2
V3 == 3

FMSPC_BYTE_LEN == 6
PCEID_BYTE_LEN == 2

(***************************************************************************)
(* The classes: the values that an object's members may have.              *)
(***************************************************************************)
Bytes(count) == { count }

TcbComponentClass == [ svn : 0 .. UINT8_COUNT - 1, category : STRING, type : STRING ]

TcbComponentArrays == [ SvnIndex -> TcbComponentClass ]

TdxModuleClass ==
    [ mrsigner : Bytes(48), attributes : Bytes(8), attributesMask : Bytes(8) ]

\* What a default constructor leaves.
NoTdxModule == [ mrsigner |-> 0, attributes |-> 0, attributesMask |-> 0 ]

TdxModuleTcbClass == [ isvsvn : 0 .. UINT16_MAX ]

TdxModuleTcbLevelClass ==
    [ tcb : TdxModuleTcbClass, tcbDate : Int, tcbStatus : STRING, advisoryIDs : Seq(STRING) ]

TdxModuleIdentityClass ==
    [ id : STRING, mrsigner : Bytes(48), attributes : Bytes(8), attributesMask : Bytes(8),
      tcbLevels : SUBSET TdxModuleTcbLevelClass ]

TcbLevelClass ==
    [ id : { SGX_ID, TDX_ID }, version : { V2, V3 },
      cpuSvn : [ SvnIndex -> 0 .. UINT8_COUNT - 1 ], cpuSvnComponents : TcbComponentArrays,
      sgxTcbComponents : TcbComponentArrays \union { <<>> },
      tdxTcbComponents : TcbComponentArrays \union { <<>> },
      pceSvn : Nat, status : TcbInfoStatuses, tcbDate : Int, advisoryIDs : Seq(STRING) ]

TcbInfoClass ==
    [ id : { SGX_ID, TDX_ID }, version : { V2, V3 }, issueDate : Int, nextUpdate : Int,
      fmspc : Bytes(FMSPC_BYTE_LEN), pceId : Bytes(PCEID_BYTE_LEN),
      tcbLevels : SUBSET TcbLevelClass, signature : Bytes(ECDSA_P256_SIGNATURE_BYTE_LEN),
      tdxModule : TdxModuleClass \union { NoTdxModule },
      tdxModuleIdentities : Seq(TdxModuleIdentityClass),
      tcbType : { 0 }, tcbEvaluationDataNumber : Nat ]

TcbStatusEnum ==
    { "UpToDate", "ConfigurationNeeded", "OutOfDate", "OutOfDateConfigurationNeeded", "Revoked" }

IdentityTcbLevelClass ==
    [ isvSvn : Nat, tcbDate : Int, tcbStatus : TcbStatusEnum, advisoryIds : Seq(STRING) ]

EnclaveIdentityClass ==
    [ id : EnclaveIDs, version : { V2 }, issueDate : Int, nextUpdate : Int,
      tcbEvaluationDataNumber : Nat, attributes : Bytes(16), attributesMask : Bytes(16),
      miscselect : Bytes(4), miscselectMask : Bytes(4), mrSigner : Bytes(32), isvProdId : Nat,
      identityTcbLevels : SUBSET IdentityTcbLevelClass,
      signature : Bytes(ECDSA_P256_SIGNATURE_BYTE_LEN) ]

(***************************************************************************)
(* The constructors, for documents that they accept.                       *)
(***************************************************************************)
StringOf(v) == IF v.reads = "text" THEN v.text ELSE v.reads

ASSUME StringsAssumption == { "", "date", "hex" } \subseteq STRING

\* The members of a class are empty where an optional field is missing.
StringField(v, field) == IF Has(v, field) THEN StringOf(Field(v, field)) ELSE ""

StringVecField(v, field) ==
    IF Has(v, field)
    THEN LET strings == Field(v, field).elements
         IN  [ i \in DOMAIN strings |-> StringOf(strings[i]) ]
    ELSE <<>>

BytesField(v, field) == Field(v, field).length \div 2

TcbComponentObject(v) ==
    [ svn |-> Field(v, "svn").number % UINT8_COUNT,
      category |-> StringField(v, "category"), type |-> StringField(v, "type") ]

TcbComponents(tcb, name) ==
    [ i \in SvnIndex |-> TcbComponentObject(Field(tcb, name).elements[i + 1]) ]

TdxModuleObject(v) ==
    [ mrsigner |-> BytesField(v, "mrsigner"), attributes |-> BytesField(v, "attributes"),
      attributesMask |-> BytesField(v, "attributesMask") ]

TdxModuleTcbLevelObject(v) ==
    [ tcb |-> [ isvsvn |-> ModuleLevelSvn(v) ], tcbDate |-> Field(v, "tcbDate").time,
      tcbStatus |-> StringField(v, "tcbStatus"), advisoryIDs |-> StringVecField(v, "advisoryIDs") ]

TdxModuleIdentityObject(v) ==
    LET elements == Field(v, "tcbLevels").elements IN
    [ id |-> StringField(v, "id"), mrsigner |-> BytesField(v, "mrsigner"),
      attributes |-> BytesField(v, "attributes"),
      attributesMask |-> BytesField(v, "attributesMask"),
      tcbLevels |-> { TdxModuleTcbLevelObject(elements[i]) : i \in DOMAIN elements } ]

\* Fault: the copy that both versions answer from is only made in version 3.
CpuSvnComponents_V3Only(tcb) ==
    IF IsVersion(V2) THEN <<>> ELSE TcbComponents(tcb, "sgxtcbcomponents")

\* _cpuSvnComponents; in version 2 a component is a number without a name.
CpuSvnComponents(tcb) ==
    IF IsVersion(V2)
    THEN LET svns == Svns(document, tcb, "sgxtcbcomponents")
         IN  [ i \in SvnIndex |-> [ svn |-> svns[i], category |-> "", type |-> "" ] ]
    ELSE TcbComponents(tcb, "sgxtcbcomponents")

TcbLevelObject(v) ==
    LET tcb == Field(v, "tcb") IN
    [ id |-> Id(document), version |-> Version(document),
      cpuSvn |-> Svns(document, tcb, "sgxtcbcomponents"),
      cpuSvnComponents |-> CpuSvnComponents(tcb),
      sgxTcbComponents |->
          IF IsVersion(V2) THEN <<>> ELSE TcbComponents(tcb, "sgxtcbcomponents"),
      tdxTcbComponents |->
          IF IsTdx(document) THEN TcbComponents(tcb, "tdxtcbcomponents") ELSE <<>>,
      pceSvn |-> Field(tcb, "pcesvn").number, status |-> StringField(v, "tcbStatus"),
      tcbDate |-> Field(v, "tcbDate").time, advisoryIDs |-> StringVecField(v, "advisoryIDs") ]

\* Every status that the constructor lets pass has a value of the enumeration.
parseStringToTcbStatus(name) == CHOOSE status \in TcbStatusEnum : status = name

IdentityTcbLevelObject(v) ==
    [ isvSvn |-> Field(Field(v, "tcb"), "isvsvn").number, tcbDate |-> Field(v, "tcbDate").time,
      tcbStatus |-> parseStringToTcbStatus(StringField(v, "tcbStatus")),
      advisoryIds |-> StringVecField(v, "advisoryIDs") ]

TcbInfoObject ==
    LET info == Body(document)
        identities ==
            IF HasModuleIdentities THEN Field(info, "tdxModuleIdentities").elements ELSE <<>>
    IN  [ id |-> Id(document), version |-> Version(document),
          issueDate |-> Field(info, "issueDate").time,
          nextUpdate |-> Field(info, "nextUpdate").time,
          fmspc |-> BytesField(info, "fmspc"), pceId |-> BytesField(info, "pceId"),
          tcbLevels |->
              { TcbLevelObject(JsonLevels(document)[i]) : i \in DOMAIN JsonLevels(document) },
          signature |-> BytesField(document.root, "signature"),
          tdxModule |->
              IF IsTdx(document) THEN TdxModuleObject(Field(info, "tdxModule")) ELSE NoTdxModule,
          tdxModuleIdentities |->
              [ i \in DOMAIN identities |-> TdxModuleIdentityObject(identities[i]) ],
          tcbType |-> Field(info, "tcbType").number,
          tcbEvaluationDataNumber |-> Field(info, "tcbEvaluationDataNumber").number ]

EnclaveIdentityObject ==
    LET identity == Body(document) IN
    [ id |-> StringField(identity, "id"), version |-> Version(document),
      issueDate |-> Field(identity, "issueDate").time,
      nextUpdate |-> Field(identity, "nextUpdate").time,
      tcbEvaluationDataNumber |-> Field(identity, "tcbEvaluationDataNumber").number,
      attributes |-> BytesField(identity, "attributes"),
      attributesMask |-> BytesField(identity, "attributesMask"),
      miscselect |-> BytesField(identity, "miscselect"),
      miscselectMask |-> BytesField(identity, "miscselectMask"),
      mrSigner |-> BytesField(identity, "mrsigner"),
      isvProdId |-> Field(identity, "isvprodid").number,
      identityTcbLevels |->
          { IdentityTcbLevelObject(JsonLevels(document)[i]) : i \in DOMAIN JsonLevels(document) },
      signature |-> BytesField(document.root, "signature") ]

(***************************************************************************)
(* The accessors that depend on the version or the id.                     *)
(***************************************************************************)
\* TcbInfo
getId(info) == IF info.version = V3 THEN { info.id } ELSE {}

getTdxModule(info) ==
    IF info.version >= V3 /\ info.id = TDX_ID THEN { info.tdxModule } ELSE {}

getTdxModuleIdentities(info) ==
    IF info.version >= V3 /\ info.id = TDX_ID THEN { info.tdxModuleIdentities } ELSE {}

\* TcbLevel
getSgxTcbComponentSvn(level, n) == IF n < CPUSVN_BYTE_LEN THEN { level.cpuSvn[n] } ELSE {}

getSgxTcbComponents(level) ==
    IF level.version < V2 THEN {}
    ELSE IF level.version = V2 THEN { level.cpuSvnComponents } ELSE { level.sgxTcbComponents }

getSgxTcbComponent(level, n) ==
    IF n < CPUSVN_BYTE_LEN THEN { components[n] : components \in getSgxTcbComponents(level) }
    ELSE {}

getTdxTcbComponents(level) ==
    IF level.version >= V3 /\ level.id = TDX_ID THEN { level.tdxTcbComponents } ELSE {}

getTdxTcbComponent(level, n) ==
    IF n < CPUSVN_BYTE_LEN THEN { components[n] : components \in getTdxTcbComponents(level) }
    ELSE {}

(***************************************************************************)
(* Properties.                                                             *)
(***************************************************************************)
Parts ==
    { "envelope", "fields", "tdxPart", "moduleIdentities", "levelsArray", "levels" }

\* Types of the variables. A level that was read has the numbers of its kind
\* of document, and SVNs of components that are bytes (TcbComponent::_svn).
TypeOK ==
    /\ document.kind \in { "TcbInfo", "EnclaveIdentity" }
    /\ pc \in Parts \union Decided
    /\ exception \in { None, Format, Extension, BadVersion }
    /\ pc = "refused" <=> exception # None
    /\ next \in Nat
    /\ \A l \in levels :
          IF document.kind = "EnclaveIdentity" THEN l.isvSvn \in Nat
          ELSE /\ l.sgx \in [ SvnIndex -> 0 .. UINT8_COUNT - 1 ]
               /\ l.tdx \in [ SvnIndex -> 0 .. UINT8_COUNT - 1 ]
    /\ \A i \in DOMAIN moduleIdentities :
          \A l \in moduleIdentities[i].levels : l.isvSvn \in 0 .. UINT16_MAX

OfNewerVersion ==
    /\ document.kind = "EnclaveIdentity"
    /\ Has(document.root, "signature")
    /\ IsTextOf(Field(Body(document), "id"), EnclaveIDs)
    /\ Reads(Field(Body(document), "version"), "uint") /\ Version(document) # 2

\* The constructors' checks, one after the other, each with an exception of
\* its own, let exactly the documents of the format pass: nothing is read of
\* a part that was not checked, no part goes unchecked in one of the versions,
\* and levels are refused as duplicates exactly if they are (TcbInfo.cpp
\* 156-425, EnclaveIdentity.cpp 148-281).
\* An enclave identity of a version yet to come, and no other document, is
\* reported as being of that version (InvalidVersionException,
\* EnclaveIdentity.cpp 193-200), whatever fields the new version has changed.
AcceptsTheFormat ==
    /\ pc = "accepted" => WellFormed(document)
    /\ pc = "refused" => ~WellFormed(document)
    /\ pc \in Decided => (exception = BadVersion <=> OfNewerVersion)

SignedLevels ==
    { SignedLevel(JsonLevels(document)[i], document) : i \in DOMAIN JsonLevels(document) }

SvnsAreBytes(l) ==
    document.kind = "TcbInfo" =>
        \A i \in SvnIndex : l.sgx[i] < UINT8_COUNT /\ l.tdx[i] < UINT8_COUNT

\* What is evaluated is what was signed: the levels of an accepted document
\* are, number for number, those of its JSON text, whatever order they came in,
\* as long as SVNs of components fit the byte they are kept in
\* (TcbComponent.cpp:67, TcbLevel.cpp:443 cut greater ones).
LevelsAreSigned ==
    pc = "accepted" =>
        /\ Cardinality(levels) = Len(JsonLevels(document))
        /\ (\A l \in SignedLevels : SvnsAreBytes(l)) => levels = SignedLevels

AtLeast(a, b) == \A i \in SvnIndex : a[i] >= b[i]

IsMetBy(l, platform) ==
    IF document.kind = "EnclaveIdentity" THEN platform.isvSvn >= l.isvSvn
    ELSE /\ AtLeast(platform.sgx, l.sgx)
         /\ AtLeast(platform.tdx, l.tdx)
         /\ platform.pceSvn >= l.pceSvn

Surpasses(a, b) ==
    /\ a # b
    /\ IF document.kind = "EnclaveIdentity"
       THEN a.isvSvn > b.isvSvn \/ (a.isvSvn = b.isvSvn /\ a.tcbDate >= b.tcbDate)
       ELSE AtLeast(a.sgx, b.sgx) /\ AtLeast(a.tdx, b.tdx) /\ a.pceSvn >= b.pceSvn

ChosenLevel(met) ==
    IF document.kind = "TcbInfo" THEN FirstTcbLevel(Id(document), met)
    ELSE CHOOSE l \in met : \A other \in met \ {l} : LevelGreater(l, other)

\* The level found by walking the set in its order, the first that a platform
\* meets, is never surpassed by another level of the signed document that the
\* platform meets as well: a comparison of levels one number after the other
\* does not put a lower level before a higher one (TcbLevel.cpp 102-113,
\* IdentityTcbLevel.cpp 140-146).
HighestLevelIsChosen ==
    pc = "accepted" /\ (\A l \in SignedLevels : SvnsAreBytes(l)) =>
        \A platform \in Platforms :
            LET met == { l \in levels : IsMetBy(l, platform) } IN
            met # {} =>
                \A l \in SignedLevels :
                    IsMetBy(l, platform) => ~Surpasses(l, ChosenLevel(met))

SvnsOfComponents(components) == [ i \in SvnIndex |-> components[i].svn ]

LevelAnswers(level) ==
    /\ level \in TcbLevelClass
    /\ \E components \in getSgxTcbComponents(level) : SvnsOfComponents(components) = level.cpuSvn
    /\ \A i \in SvnIndex :
         { c.svn : c \in getSgxTcbComponent(level, i) } = getSgxTcbComponentSvn(level, i)
    /\ getSgxTcbComponent(level, CPUSVN_BYTE_LEN) = {}
    /\ (getTdxTcbComponents(level) # {}) <=> IsTdx(document)
    /\ \A i \in SvnIndex : (getTdxTcbComponent(level, i) # {}) <=> IsTdx(document)

\* The level of the set that an object stands for.
Compared(level) ==
    [ sgx |-> level.cpuSvn,
      tdx |-> IF IsTdx(document) THEN SvnsOfComponents(level.tdxTcbComponents)
              ELSE [ i \in SvnIndex |-> 0 ],
      pceSvn |-> level.pceSvn, tcbDate |-> level.tcbDate, status |-> level.status ]

\* Whichever accessor a caller uses, the old one for the SVNs of SGX or the new
\* one, for all components or for one, it answers the same, and it answers what
\* was signed: the copies of a level do not come apart in either version
\* (TcbLevel.cpp 115-196, 363-372, 443-444). What is asked of TDX is answered for TCB
\* info of TDX only, even if a document of version 2 says that it is TDX's
\* (TcbInfo.cpp 60-72, 124-152), and then with what the TDX module has to have.
ObjectsAnswerAsSigned ==
    /\ LevelsAreSigned
    /\ pc = "accepted" /\ document.kind = "TcbInfo" =>
         LET info == TcbInfoObject IN
         /\ info \in TcbInfoClass
         /\ \A level \in info.tcbLevels : LevelAnswers(level)
         /\ { Compared(level) : level \in info.tcbLevels } = levels
         /\ getId(info) = IF IsVersion(V2) THEN {} ELSE { Id(document) }
         /\ IsTdx(document) => getTdxModule(info) \subseteq TdxModuleClass \ { NoTdxModule }
         /\ (getTdxModule(info) # {}) <=> IsTdx(document)
         /\ IsTdx(document) =>
              \E identities \in getTdxModuleIdentities(info) :
                /\ Len(identities) = Len(moduleIdentities)
                /\ \A i \in DOMAIN identities :
                     Cardinality(identities[i].tcbLevels) = Cardinality(moduleIdentities[i].levels)
    /\ pc = "accepted" /\ document.kind = "EnclaveIdentity" =>
         /\ EnclaveIdentityObject \in EnclaveIdentityClass
         /\ { [ isvSvn |-> l.isvSvn, tcbDate |-> l.tcbDate, status |-> l.tcbStatus ] :
                l \in EnclaveIdentityObject.identityTcbLevels } = levels
===============================================================================
