--------------------------- MODULE CollateralFormat ---------------------------
(***************************************************************************)
(* The JSON documents of the collateral, TCB info and enclave identity:    *)
(* what the parsers of Json/ tell apart in a JSON value, the getters of    *)
(* Json/JsonParser.cpp, and the format of both documents, stated without   *)
(* an order of checks: what module CollateralParser is to accept.          *)
(*                                                                         *)
(* A JSON value is a record with its type and its content. A string also   *)
(* has its length and what it reads as: a date, hexadecimal digits, or     *)
(* some other text. A number is one that an int32_t holds; every other     *)
(* value, a real or a greater number among them, is of type "other".       *)
(***************************************************************************)
EXTENDS TcbEvaluation

Object(members) == [ type |-> "object", members |-> members ]
Array(elements) == [ type |-> "array", elements |-> elements ]
Number(n)       == [ type |-> "number", number |-> n ]
Text(s)         == [ type |-> "string", reads |-> "text", text |-> s, length |-> 9 ]
Date(time)      == [ type |-> "string", reads |-> "date", time |-> time, length |-> 20 ]
Hex(digits)     == [ type |-> "string", reads |-> "hex", length |-> digits ]
Other           == [ type |-> "other" ]
Absent          == [ type |-> "absent" ]

(***************************************************************************)
(* Getters of JsonParser.                                                  *)
(***************************************************************************)
Has(parent, field) == parent.type = "object" /\ field \in DOMAIN parent.members

Field(parent, field) == IF Has(parent, field) THEN parent.members[field] ELSE Absent

HexDigits ==
    [ hex4 |-> 4, hex8 |-> 8, hex12 |-> 12, hex16 |-> 16, hex32 |-> 32, hex64 |-> 64,
      hex96 |-> 96 ]

Reads(v, kind) ==
    \/ kind \in { "object", "array", "string" } /\ v.type = kind
    \/ /\ kind = "strings" /\ v.type = "array"
       /\ \A i \in DOMAIN v.elements : v.elements[i].type = "string"
    \/ kind = "date" /\ v.type = "string" /\ v.reads = "date"
    \/ /\ kind \in DOMAIN HexDigits
       /\ v.type = "string" /\ v.reads = "hex" /\ v.length = HexDigits[kind]
    \/ kind = "int" /\ v.type = "number"
    \/ kind = "uint" /\ v.type = "number" /\ v.number >= 0

IsTextOf(v, values) == v.type = "string" /\ v.reads = "text" /\ v.text \in values

IsNumberOf(v, values) == v.type = "number" /\ v.number \in values

OptionalOf(parent, field, kind) == Has(parent, field) => Reads(Field(parent, field), kind)

\* What rapidjson makes of strings, arrays and numbers, of the members of an object.
IsJsonString(v) ==
    /\ v.reads \in { "text", "date", "hex" }
    /\ v.reads = "text" => v.text \in STRING
    /\ v.reads = "date" => v.time \in Int

IsJsonValue(v) ==
    /\ v.type = "array" =>
          /\ v.elements \in Seq({ v.elements[i] : i \in DOMAIN v.elements })
          /\ \A i \in DOMAIN v.elements :
                v.elements[i].type = "string" => IsJsonString(v.elements[i])
    /\ v.type = "number" => v.number \in Int
    /\ v.type = "string" => IsJsonString(v)

HasJsonValues(v) ==
    v.type = "object" => \A field \in DOMAIN v.members : IsJsonValue(v.members[field])

(***************************************************************************)
(* Values the documents may hold.                                          *)
(***************************************************************************)
SGX_ID == "SGX"
TDX_ID == "TDX"

EnclaveIDs == { "QE", "QVE", "TD_QE" }

ECDSA_P256_SIGNATURE_BYTE_LEN == 64

MAX_JSON_DEPTH == 32    \* MAX_TCB_INFO_JSON_DEPTH, MAX_ENCLAVE_IDENTITY_JSON_DEPTH

UINT16_MAX == 65535
UINT8_COUNT == 256

\* The names of version 2; CPUSVN_BYTE_LEN of them are read.
SgxTcbSvnNames ==
    << "sgxtcbcomp01svn", "sgxtcbcomp02svn", "sgxtcbcomp03svn", "sgxtcbcomp04svn",
       "sgxtcbcomp05svn", "sgxtcbcomp06svn", "sgxtcbcomp07svn", "sgxtcbcomp08svn",
       "sgxtcbcomp09svn", "sgxtcbcomp10svn", "sgxtcbcomp11svn", "sgxtcbcomp12svn",
       "sgxtcbcomp13svn", "sgxtcbcomp14svn", "sgxtcbcomp15svn", "sgxtcbcomp16svn" >>

SvnName(i) == SgxTcbSvnNames[i + 1]    \* i \in SvnIndex

IsSignature(v) == v.type = "string" /\ v.length = 2 * ECDSA_P256_SIGNATURE_BYTE_LEN

(***************************************************************************)
(* A document: its kind, the root of its JSON text (of another type than   *)
(* object when the text is no JSON), and nesting, how deep the deepest     *)
(* value of its body is, the body itself being at depth 1.                 *)
(***************************************************************************)
BodyName(d) == IF d.kind = "TcbInfo" THEN "tcbInfo" ELSE "enclaveIdentity"

Body(d) == Field(d.root, BodyName(d))

Version(d) == Field(Body(d), "version").number

\* TCB info of version 2 is of SGX, whatever id it has.
Id(d) == IF d.kind = "TcbInfo" /\ Version(d) = 2 THEN SGX_ID ELSE Field(Body(d), "id").text

IsTdx(d) == d.kind = "TcbInfo" /\ Id(d) = TDX_ID

JsonLevels(d) == Field(Body(d), "tcbLevels").elements

HaveJsonValues(parent, field) ==
    Reads(Field(parent, field), "array") =>
        \A i \in DOMAIN Field(parent, field).elements :
            HasJsonValues(Field(parent, field).elements[i])

\* A document as the reader leaves it, down to the SVNs of its levels.
IsJsonDocument(d) ==
    /\ d.kind \in { "TcbInfo", "EnclaveIdentity" }
    /\ d.nesting \in Nat
    /\ HasJsonValues(Body(d))
    /\ HaveJsonValues(Body(d), "tcbLevels") /\ HaveJsonValues(Body(d), "tdxModuleIdentities")
    /\ Reads(Field(Body(d), "tcbLevels"), "array") =>
          \A i \in DOMAIN JsonLevels(d) :
             LET tcb == Field(JsonLevels(d)[i], "tcb") IN
             /\ HasJsonValues(tcb)
             /\ \A components \in { "sgxtcbcomponents", "tdxtcbcomponents" } :
                   HaveJsonValues(tcb, components)
    /\ Reads(Field(Body(d), "tdxModuleIdentities"), "array") =>
          \A i \in DOMAIN Field(Body(d), "tdxModuleIdentities").elements :
             HaveJsonValues(Field(Body(d), "tdxModuleIdentities").elements[i], "tcbLevels")

(***************************************************************************)
(* TCB levels.                                                             *)
(***************************************************************************)
IsTcbComponent(v) ==
    /\ v.type = "object"
    /\ Reads(Field(v, "svn"), "uint")
    /\ OptionalOf(v, "category", "string")
    /\ OptionalOf(v, "type", "string")

AreTcbComponents(v) ==
    /\ v.type = "array"
    /\ Len(v.elements) = CPUSVN_BYTE_LEN
    /\ \A i \in DOMAIN v.elements : IsTcbComponent(v.elements[i])

HasLevelFields(v, statuses) ==
    /\ v.type = "object"
    /\ Reads(Field(v, "tcbDate"), "date")
    /\ OptionalOf(v, "advisoryIDs", "strings")
    /\ IsTextOf(Field(v, "tcbStatus"), statuses)

IsTcbLevel(v, d) ==
    LET tcb == Field(v, "tcb") IN
    /\ HasLevelFields(v, TcbInfoStatuses)
    /\ Reads(Field(tcb, "pcesvn"), "uint")
    /\ Version(d) = 2 => \A i \in SvnIndex : Reads(Field(tcb, SvnName(i)), "uint")
    /\ Version(d) = 3 => AreTcbComponents(Field(tcb, "sgxtcbcomponents"))
    /\ IsTdx(d) => AreTcbComponents(Field(tcb, "tdxtcbcomponents"))

IsIdentityLevel(v) ==
    /\ HasLevelFields(v, IdentityStatuses)
    /\ Reads(Field(Field(v, "tcb"), "isvsvn"), "uint")

\* The numbers of a level as the document has them.
SvnsOf(d, tcb, components) ==
    [ i \in SvnIndex |->
        IF Version(d) = 2 THEN Field(tcb, SvnName(i)).number
        ELSE Field(Field(tcb, components).elements[i + 1], "svn").number ]

SignedLevel(v, d) ==
    LET tcb == Field(v, "tcb") IN
    IF d.kind = "EnclaveIdentity"
    THEN [ isvSvn |-> Field(tcb, "isvsvn").number,
           tcbDate |-> Field(v, "tcbDate").time, status |-> Field(v, "tcbStatus").text ]
    ELSE [ sgx |-> SvnsOf(d, tcb, "sgxtcbcomponents"),
           tdx |-> IF IsTdx(d) THEN SvnsOf(d, tcb, "tdxtcbcomponents")
                   ELSE [ i \in SvnIndex |-> 0 ],
           pceSvn |-> Field(tcb, "pcesvn").number,
           tcbDate |-> Field(v, "tcbDate").time, status |-> Field(v, "tcbStatus").text ]

(***************************************************************************)
(* TDX module identities. All that their constructors refuse, they refuse  *)
(* with a FormatException: no order of checks shows.                       *)
(***************************************************************************)
IsModuleLevel(v) ==
    LET isvsvn == Field(Field(v, "tcb"), "isvsvn") IN
    /\ v.type = "object"
    /\ IsNumberOf(isvsvn, 0 .. UINT16_MAX)
    /\ Reads(Field(v, "tcbDate"), "date")
    /\ Reads(Field(v, "tcbStatus"), "string")
    /\ OptionalOf(v, "advisoryIDs", "strings")

ModuleLevelSvn(v) == Field(Field(v, "tcb"), "isvsvn").number

AreModuleLevels(v) ==
    /\ v.type = "array" /\ v.elements # <<>>
    /\ \A i \in DOMAIN v.elements : IsModuleLevel(v.elements[i])
    /\ \A i, j \in DOMAIN v.elements :
          i # j => ModuleLevelSvn(v.elements[i]) # ModuleLevelSvn(v.elements[j])

IsTdxModule(v) ==
    /\ v.type = "object"
    /\ Reads(Field(v, "mrsigner"), "hex96")
    /\ Reads(Field(v, "attributes"), "hex16")
    /\ Reads(Field(v, "attributesMask"), "hex16")

IsModuleIdentity(v) ==
    /\ IsTdxModule(v)
    /\ Reads(Field(v, "id"), "string")
    /\ AreModuleLevels(Field(v, "tcbLevels"))

(***************************************************************************)
(* The format.                                                             *)
(***************************************************************************)
TcbInfoFields ==
    [ version |-> "uint", issueDate |-> "date", nextUpdate |-> "date", fmspc |-> "hex12",
      pceId |-> "hex4", tcbType |-> "int", tcbEvaluationDataNumber |-> "uint",
      tcbLevels |-> "array" ]

EnclaveIdentityFields ==
    [ id |-> "string", version |-> "uint", issueDate |-> "date", nextUpdate |-> "date",
      tcbEvaluationDataNumber |-> "uint", miscselect |-> "hex8", miscselectMask |-> "hex8",
      attributes |-> "hex32", attributesMask |-> "hex32", mrsigner |-> "hex64",
      isvprodid |-> "uint", tcbLevels |-> "array" ]

HasFields(v, fields) == \A f \in DOMAIN fields : Reads(Field(v, f), fields[f])

TdxPartFits(d) ==
    LET identities == Field(Body(d), "tdxModuleIdentities") IN
    IF IsTdx(d)
    THEN /\ IsTdxModule(Field(Body(d), "tdxModule"))
         /\ Has(Body(d), "tdxModuleIdentities") =>
               /\ identities.type = "array" /\ identities.elements # <<>>
               /\ \A i \in DOMAIN identities.elements : IsModuleIdentity(identities.elements[i])
    ELSE ~Has(Body(d), "tdxModule") /\ ~Has(Body(d), "tdxModuleIdentities")

IsTcbInfo(d) ==
    /\ HasFields(Body(d), TcbInfoFields)
    /\ Version(d) \in { 2, 3 }
    /\ IsNumberOf(Field(Body(d), "tcbType"), {0})
    /\ Version(d) = 3 =>
          IsTextOf(Field(Body(d), "id"), { SGX_ID, TDX_ID }) /\ TdxPartFits(d)
    /\ \A i \in DOMAIN JsonLevels(d) : IsTcbLevel(JsonLevels(d)[i], d)

IsEnclaveIdentity(d) ==
    /\ HasFields(Body(d), EnclaveIdentityFields)
    /\ IsTextOf(Field(Body(d), "id"), EnclaveIDs)
    /\ Version(d) = 2
    /\ \A i \in DOMAIN JsonLevels(d) : IsIdentityLevel(JsonLevels(d)[i])

\* What two levels of one document may not have in common: the numbers they
\* are for. An SVN of a TCB component is a byte to the parser, and levels of
\* an enclave identity may share an SVN if their dates differ.
Mark(v, d) ==
    LET level == SignedLevel(v, d)
        bytes(svns) == [ i \in SvnIndex |-> svns[i] % UINT8_COUNT ]
    IN  IF d.kind = "EnclaveIdentity" THEN << level.isvSvn, level.tcbDate >>
        ELSE << bytes(level.sgx), bytes(level.tdx), level.pceSvn >>

WellFormed(d) ==
    /\ Reads(Body(d), "object")
    /\ IsSignature(Field(d.root, "signature"))
    /\ d.kind = "TcbInfo" => IsTcbInfo(d)
    /\ d.kind = "EnclaveIdentity" => IsEnclaveIdentity(d)
    /\ JsonLevels(d) # <<>>
    /\ \A i, j \in DOMAIN JsonLevels(d) :
          i # j => Mark(JsonLevels(d)[i], d) # Mark(JsonLevels(d)[j], d)
    /\ d.nesting <= MAX_JSON_DEPTH
===============================================================================
