------------------------ MODULE CollateralParser_proofs ------------------------
(***************************************************************************)
(* Proofs about TcbInfo::parse and EnclaveIdentity::parse, for every JSON  *)
(* document, every number of SVN components and every number of levels.    *)
(***************************************************************************)
EXTENDS CollateralParser, FiniteSetTheorems, WellFoundedInduction, TLAPS

\* Every set of numbers has a least one: induction, where it is needed, is by a least
\* counterexample.
LEMMA LeastNumber ==
    ASSUME NEW S \in SUBSET Nat, S # {}
    PROVE  \E i \in S : \A j \in S : i <= j
<1> DEFINE R == { pair \in Nat \X Nat : pair[1] < pair[2] }
<1>1. IsWellFoundedOn(R, Nat)
  BY NatLessThanWellFounded DEF OpToRel
<1>2. \A x, y \in Nat : <<x, y>> \in R <=> x < y
  OBVIOUS
<1>. HIDE DEF R
<1>3. PICK x \in S : \A y \in S : <<y, x>> \notin R
  BY <1>1, WFMin
<1>4. \A y \in S : ~(y < x)
  BY <1>2, <1>3
<1>. QED BY <1>4

(***************************************************************************)
(* Lists of checks: what FirstFailure makes of one check and of two lists. *)
(***************************************************************************)
Exceptions == { Format, Extension, BadVersion }

Checklist == Seq([ holds : BOOLEAN, otherwise : Exceptions ])

LEMMA CheckTypes ==
    ASSUME NEW checks \in Checklist, NEW i \in DOMAIN checks
    PROVE  checks[i].holds \in BOOLEAN /\ checks[i].otherwise \in Exceptions
<1> DEFINE S == [ holds : BOOLEAN, otherwise : Exceptions ]
<1>1. checks \in Seq(S)
  BY DEF Checklist
<1>. HIDE DEF S
<1>2. checks[i] \in S
  BY <1>1
<1>. QED BY <1>2 DEF S

LEMMA FirstFailureIs ==
    ASSUME NEW checks \in Checklist
    PROVE  \/ FirstFailure(checks) = None /\ \A i \in DOMAIN checks : checks[i].holds
           \/ \E i \in DOMAIN checks :
                 /\ ~checks[i].holds
                 /\ \A j \in DOMAIN checks : j < i => checks[j].holds
                 /\ FirstFailure(checks) = checks[i].otherwise
<1> DEFINE failed == { i \in DOMAIN checks : ~checks[i].holds }
<1>1. CASE failed = {}
  BY <1>1 DEF FirstFailure
<1>2. CASE failed # {}
  <2>1. failed \in SUBSET Nat
    BY DEF Checklist
  <2>2. \E i \in failed : \A j \in failed : i <= j
    BY <1>2, <2>1, LeastNumber
  <2> DEFINE first == CHOOSE i \in failed : \A j \in failed : i <= j
  <2>3. first \in failed /\ \A j \in failed : first <= j
    BY <2>2
  <2>4. FirstFailure(checks) = checks[first].otherwise
    BY <1>2 DEF FirstFailure
  <2>. HIDE DEF first
  <2>5. \A j \in DOMAIN checks : j < first => checks[j].holds
    BY <2>1, <2>3
  <2>. QED BY <2>3, <2>4, <2>5
<1>. QED BY <1>1, <1>2

\* There is only one failure that all checks before it come before.
LEMMA FirstFailureIsUnique ==
    ASSUME NEW checks \in Checklist, NEW i \in DOMAIN checks, ~checks[i].holds,
           \A j \in DOMAIN checks : j < i => checks[j].holds
    PROVE  FirstFailure(checks) = checks[i].otherwise
<1>1. PICK k \in DOMAIN checks :
        /\ ~checks[k].holds
        /\ \A j \in DOMAIN checks : j < k => checks[j].holds
        /\ FirstFailure(checks) = checks[k].otherwise
  BY FirstFailureIs
<1>2. i \in Nat /\ k \in Nat
  BY DEF Checklist
<1>3. i = k
  BY <1>1, <1>2
<1>. QED BY <1>1, <1>3

LEMMA FirstFailureKinds ==
    ASSUME NEW checks \in Checklist
    PROVE  FirstFailure(checks) \in Exceptions \union { None }
<1>. QED BY CheckTypes, FirstFailureIs

\* The empty list and a list of one check.
LEMMA OneCheck ==
    ASSUME NEW holds \in BOOLEAN, NEW otherwise \in Exceptions
    PROVE  /\ Check(holds, otherwise) \in Checklist
           /\ FirstFailure(Check(holds, otherwise)) = IF holds THEN None ELSE otherwise
<1> DEFINE checks == Check(holds, otherwise)
<1>1. /\ checks \in Checklist /\ DOMAIN checks = { 1 }
      /\ checks[1].holds = holds /\ checks[1].otherwise = otherwise
  BY DEF Check, Checklist
<1>. HIDE DEF checks
<1>2. FirstFailure(checks) = IF holds THEN None ELSE otherwise
  BY <1>1, FirstFailureIs
<1>. QED BY <1>1, <1>2 DEF checks

LEMMA NoCheck == <<>> \in Checklist /\ FirstFailure(<<>>) = None
<1>1. <<>> \in Checklist
  BY DEF Checklist
<1>. QED BY <1>1, FirstFailureIs

\* One list after the other.
LEMMA MoreChecks ==
    ASSUME NEW first \in Checklist, NEW second \in Checklist
    PROVE  /\ first \o second \in Checklist
           /\ FirstFailure(first \o second) = IF FirstFailure(first) = None
                                              THEN FirstFailure(second) ELSE FirstFailure(first)
<1> DEFINE both == first \o second
<1>1. both \in Checklist
  BY DEF Checklist
<1>2. /\ Len(first) \in Nat /\ Len(second) \in Nat
      /\ DOMAIN first = 1 .. Len(first) /\ DOMAIN second = 1 .. Len(second)
      /\ DOMAIN both = 1 .. Len(first) + Len(second)
      /\ \A i \in 1 .. Len(first) : both[i] = first[i]
      /\ \A i \in 1 .. Len(second) : both[Len(first) + i] = second[i]
      /\ \A i \in DOMAIN both : i <= Len(first) \/ i - Len(first) \in 1 .. Len(second)
  BY DEF Checklist
<1>3. None \notin Exceptions /\ \A i \in DOMAIN first : first[i].otherwise \in Exceptions
  BY CheckTypes DEF None, Exceptions, Format, Extension, BadVersion
<1>. HIDE DEF both
<1>4. CASE FirstFailure(first) # None
  <2>1. PICK i \in DOMAIN first :
          /\ ~first[i].holds
          /\ \A j \in DOMAIN first : j < i => first[j].holds
          /\ FirstFailure(first) = first[i].otherwise
    BY <1>4, FirstFailureIs
  <2>2. /\ i \in DOMAIN both /\ ~both[i].holds /\ both[i].otherwise = first[i].otherwise
        /\ \A j \in DOMAIN both : j < i => both[j].holds
    <3>1. i \in 1 .. Len(first) /\ both[i] = first[i] /\ i \in DOMAIN both
      BY <1>2
    <3>2. \A j \in DOMAIN both : j < i => j \in 1 .. Len(first)
      BY <1>2
    <3>. QED BY <1>2, <2>1, <3>1, <3>2
  <2>3. FirstFailure(both) = both[i].otherwise
    BY <1>1, <2>2, FirstFailureIsUnique
  <2>. QED BY <1>1, <1>4, <2>1, <2>2, <2>3 DEF both
<1>5. CASE FirstFailure(first) = None
  <2>1. \A i \in DOMAIN first : first[i].holds
    BY <1>3, <1>5, FirstFailureIs
  <2>2. CASE \A i \in DOMAIN second : second[i].holds
    <3>1. \A i \in DOMAIN both : both[i].holds
      BY <1>2, <2>1, <2>2
    <3>2. FirstFailure(both) = None
      BY <1>1, <3>1, FirstFailureIs
    <3>3. FirstFailure(second) = None
      BY <2>2, FirstFailureIs
    <3>. QED BY <1>1, <1>5, <3>2, <3>3 DEF both
  <2>3. CASE ~\A i \in DOMAIN second : second[i].holds
    <3>1. PICK i \in DOMAIN second :
            /\ ~second[i].holds
            /\ \A j \in DOMAIN second : j < i => second[j].holds
            /\ FirstFailure(second) = second[i].otherwise
      BY <2>3, FirstFailureIs
    <3> DEFINE k == Len(first) + i
    <3>2. k \in DOMAIN both /\ both[k] = second[i]
      BY <1>2
    <3>3. ASSUME NEW j \in DOMAIN both, j < k
          PROVE  both[j].holds
      <4>1. CASE j <= Len(first)
        BY <1>2, <2>1, <4>1
      <4>2. CASE j - Len(first) \in 1 .. Len(second)
        <5>1. both[j] = second[j - Len(first)] /\ j - Len(first) < i
          BY <1>2, <3>3, <4>2
        <5>. QED BY <1>2, <3>1, <4>2, <5>1
      <4>. QED BY <1>2, <4>1, <4>2
    <3>. HIDE DEF k
    <3>4. FirstFailure(both) = both[k].otherwise
      BY <1>1, <3>1, <3>2, <3>3, FirstFailureIsUnique
    <3>. QED BY <1>1, <1>5, <3>1, <3>2, <3>4 DEF both
  <2>. QED BY <2>2, <2>3
<1>. QED BY <1>4, <1>5


\* What a list of two parts lets pass, and when it throws InvalidVersionException.
LEMMA TwoParts ==
    ASSUME NEW first \in Checklist, NEW second \in Checklist
    PROVE  /\ first \o second \in Checklist
           /\ FirstFailure(first \o second) = None <=>
                 FirstFailure(first) = None /\ FirstFailure(second) = None
           /\ FirstFailure(first \o second) = BadVersion <=>
                 \/ FirstFailure(first) = BadVersion
                 \/ FirstFailure(first) = None /\ FirstFailure(second) = BadVersion
<1>1. None # BadVersion
  BY DEF None, BadVersion
<1>2. /\ first \o second \in Checklist
      /\ FirstFailure(first \o second) = IF FirstFailure(first) = None
                                         THEN FirstFailure(second) ELSE FirstFailure(first)
  BY MoreChecks
<1>. QED BY <1>1, <1>2

(***************************************************************************)
(* What the checks of single fields let pass.                              *)
(***************************************************************************)

\* The exceptions of all checks but the one of an enclave identity's version.
Ordinary == { Format, Extension }

Passes(checks) == FirstFailure(checks) = None

\* A list of checks that throws nothing but ordinary exceptions.
IsOrdinary(checks) == checks \in Checklist /\ FirstFailure(checks) # BadVersion

LEMMA AbsentReadsAsNothing ==
    ASSUME NEW kind
    PROVE  ~Reads(Absent, kind)
BY DEF Reads, Absent

LEMMA OnlyObjectsHaveFields ==
    ASSUME NEW v, NEW field, NEW kind, Reads(Field(v, field), kind)
    PROVE  v.type = "object" /\ Has(v, field)
<1>1. Field(v, field) # Absent
  BY AbsentReadsAsNothing
<1>. QED BY <1>1 DEF Field, Has

LEMMA CheckPasses ==
    ASSUME NEW holds \in BOOLEAN, NEW otherwise \in Ordinary
    PROVE  /\ IsOrdinary(Check(holds, otherwise))
           /\ Passes(Check(holds, otherwise)) <=> holds
<1>1. /\ None # otherwise /\ otherwise # BadVersion /\ None # BadVersion
      /\ otherwise \in Exceptions
  BY DEF Ordinary, Exceptions, None, Format, Extension, BadVersion
<1>2. /\ Check(holds, otherwise) \in Checklist
      /\ FirstFailure(Check(holds, otherwise)) = IF holds THEN None ELSE otherwise
  BY <1>1, OneCheck
<1>. QED BY <1>1, <1>2 DEF IsOrdinary, Passes

LEMMA NothingPasses == IsOrdinary(<<>>) /\ Passes(<<>>)
<1>1. None # BadVersion
  BY DEF None, BadVersion
<1>. QED BY <1>1, NoCheck DEF IsOrdinary, Passes

LEMMA BothPass ==
    ASSUME NEW first, NEW second, IsOrdinary(first), IsOrdinary(second)
    PROVE  /\ IsOrdinary(first \o second)
           /\ Passes(first \o second) <=> Passes(first) /\ Passes(second)
BY TwoParts DEF IsOrdinary, Passes

LEMMA RequiredPasses ==
    ASSUME NEW v, NEW field, NEW kind, NEW missing \in Ordinary, NEW invalid \in Ordinary
    PROVE  /\ IsOrdinary(Required(v, field, kind, missing, invalid))
           /\ Passes(Required(v, field, kind, missing, invalid)) <=> Reads(Field(v, field), kind)
<1> DEFINE isObject == Check(v.type = "object", Format)
           isThere  == Check(Has(v, field), missing)
           reads    == Check(Reads(Field(v, field), kind), invalid)
<1>1. IsOrdinary(isObject) /\ (Passes(isObject) <=> v.type = "object")
  BY CheckPasses DEF Ordinary
<1>2. IsOrdinary(isThere) /\ (Passes(isThere) <=> Has(v, field))
  <2>1. Has(v, field) \in BOOLEAN
    BY DEF Has
  <2>. QED BY <2>1, CheckPasses
<1>3. IsOrdinary(reads) /\ (Passes(reads) <=> Reads(Field(v, field), kind))
  <2>1. Reads(Field(v, field), kind) \in BOOLEAN
    BY DEF Reads
  <2>. QED BY <2>1, CheckPasses
<1>4. Required(v, field, kind, missing, invalid) = isObject \o isThere \o reads
  BY DEF Required
<1>. HIDE DEF isObject, isThere, reads
<1>5. /\ IsOrdinary(isObject \o isThere)
      /\ Passes(isObject \o isThere) <=> v.type = "object" /\ Has(v, field)
  BY <1>1, <1>2, BothPass
<1>6. /\ IsOrdinary(isObject \o isThere \o reads)
      /\ Passes(isObject \o isThere \o reads) <=>
            v.type = "object" /\ Has(v, field) /\ Reads(Field(v, field), kind)
  BY <1>3, <1>5, BothPass
<1>. QED BY <1>4, <1>6, OnlyObjectsHaveFields

LEMMA TextPasses ==
    ASSUME NEW v, NEW field, NEW values, NEW otherwise \in Ordinary
    PROVE  /\ IsOrdinary(TextAmong(v, field, values, otherwise))
           /\ Passes(TextAmong(v, field, values, otherwise)) <=>
                 IsTextOf(Field(v, field), values)
<1>1. IsTextOf(Field(v, field), values) \in BOOLEAN
  BY DEF IsTextOf
<1>. QED BY <1>1, CheckPasses DEF TextAmong

LEMMA NumberPasses ==
    ASSUME NEW v, NEW field, NEW values, NEW otherwise \in Ordinary
    PROVE  /\ IsOrdinary(NumberAmong(v, field, values, otherwise))
           /\ Passes(NumberAmong(v, field, values, otherwise)) <=>
                 IsNumberOf(Field(v, field), values)
<1>1. IsNumberOf(Field(v, field), values) \in BOOLEAN
  BY DEF IsNumberOf
<1>. QED BY <1>1, CheckPasses DEF NumberAmong

(***************************************************************************)
(* What the stages of the constructors let pass: the same demands, without *)
(* their order and their exceptions.                                       *)
(***************************************************************************)
ReadsAs(field, kind) == Reads(Field(Body(document), field), kind)

EnvelopeFits == Reads(Body(document), "object") /\ Has(document.root, "signature")

SignatureFits ==
    IsSignature(Field(document.root, "signature")) /\ Has(Body(document), "tcbLevels")

TcbInfoFieldsFit ==
    /\ ReadsAs("version", "uint") /\ IsNumberOf(Field(Body(document), "version"), { 2, 3 })
    /\ IsVersion(3) => IsTextOf(Field(Body(document), "id"), { SGX_ID, TDX_ID })
    /\ ReadsAs("issueDate", "date") /\ ReadsAs("nextUpdate", "date")
    /\ ReadsAs("fmspc", "hex12") /\ ReadsAs("pceId", "hex4")
    /\ SignatureFits
    /\ ReadsAs("tcbType", "int") /\ IsNumberOf(Field(Body(document), "tcbType"), { 0 })
    /\ ReadsAs("tcbEvaluationDataNumber", "uint")

IdFits == IsTextOf(Field(Body(document), "id"), EnclaveIDs)

VersionFits == ReadsAs("version", "uint") /\ IsVersion(2)

ContentFits ==
    /\ ReadsAs("issueDate", "date") /\ ReadsAs("nextUpdate", "date")
    /\ ReadsAs("tcbEvaluationDataNumber", "uint")
    /\ ReadsAs("miscselect", "hex8") /\ ReadsAs("miscselectMask", "hex8")
    /\ ReadsAs("attributes", "hex32") /\ ReadsAs("attributesMask", "hex32")
    /\ ReadsAs("mrsigner", "hex64") /\ ReadsAs("isvprodid", "uint")

EnclaveIdentityFieldsFit == IdFits /\ VersionFits /\ ContentFits /\ SignatureFits

\* The array of module identities is read later, one by one.
TdxPartIsThere ==
    /\ IsTdx(document) =>
          /\ IsTdxModule(Field(Body(document), "tdxModule"))
          /\ OptionalOf(Body(document), "tdxModuleIdentities", "array")
    /\ ~IsTdx(document) /\ IsVersion(3) =>
          ~Has(Body(document), "tdxModule") /\ ~Has(Body(document), "tdxModuleIdentities")

LEMMA OrdinaryExceptions == Format \in Ordinary /\ Extension \in Ordinary
BY DEF Ordinary

LEMMA TextsAreStrings ==
    ASSUME NEW v, NEW field, NEW values, IsTextOf(Field(v, field), values)
    PROVE  Reads(Field(v, field), "string")
BY DEF IsTextOf, Reads

LEMMA SignaturePasses ==
    IsOrdinary(SignatureChecks) /\ (Passes(SignatureChecks) <=> SignatureFits)
<1> DEFINE signature == Check(IsSignature(Field(document.root, "signature")), Extension)
           isThere   == Check(Has(Body(document), "tcbLevels"), Extension)
<1>1. IsOrdinary(signature)
      /\ (Passes(signature) <=> IsSignature(Field(document.root, "signature")))
  <2>1. IsSignature(Field(document.root, "signature")) \in BOOLEAN
    BY DEF IsSignature
  <2>. QED BY <2>1, OrdinaryExceptions, CheckPasses
<1>2. IsOrdinary(isThere) /\ (Passes(isThere) <=> Has(Body(document), "tcbLevels"))
  <2>1. Has(Body(document), "tcbLevels") \in BOOLEAN
    BY DEF Has
  <2>. QED BY <2>1, OrdinaryExceptions, CheckPasses
<1>3. SignatureChecks = signature \o isThere
  BY DEF SignatureChecks
<1>. HIDE DEF signature, isThere
<1>. QED BY <1>1, <1>2, <1>3, BothPass DEF SignatureFits

LEMMA EnvelopePasses ==
    IsOrdinary(EnvelopeChecks) /\ (Passes(EnvelopeChecks) <=> EnvelopeFits)
<1> DEFINE isObject  == Check(document.root.type = "object", Format)
           body      == Required(document.root, BodyName(document), "object", Format, Format)
           signature == Check(Has(document.root, "signature"), MissingSignature)
<1>1. IsOrdinary(isObject) /\ (Passes(isObject) <=> document.root.type = "object")
  BY OrdinaryExceptions, CheckPasses
<1>2. IsOrdinary(body) /\ (Passes(body) <=> Reads(Body(document), "object"))
  BY OrdinaryExceptions, RequiredPasses DEF Body
<1>3. IsOrdinary(signature) /\ (Passes(signature) <=> Has(document.root, "signature"))
  <2>1. Has(document.root, "signature") \in BOOLEAN
    BY DEF Has
  <2>2. MissingSignature \in Ordinary
    BY OrdinaryExceptions DEF MissingSignature
  <2>. QED BY <2>1, <2>2, CheckPasses
<1>4. EnvelopeChecks = isObject \o body \o signature
  BY DEF EnvelopeChecks
<1>5. Has(document.root, "signature") => document.root.type = "object"
  BY DEF Has
<1>. HIDE DEF isObject, body, signature
<1>6. /\ IsOrdinary(isObject \o body)
      /\ Passes(isObject \o body) <=>
            document.root.type = "object" /\ Reads(Body(document), "object")
  BY <1>1, <1>2, BothPass
<1>. QED BY <1>3, <1>4, <1>5, <1>6, BothPass DEF EnvelopeFits

LEMMA TcbInfoPasses ==
    IsOrdinary(TcbInfoChecks) /\ (Passes(TcbInfoChecks) <=> TcbInfoFieldsFit)
<1> DEFINE info == Body(document)
           needs(field, kind) == Required(info, field, kind, Format, Extension)
           versions == NumberAmong(info, "version", { 2, 3 }, Extension)
           names    == TextAmong(info, "id", { SGX_ID, TDX_ID }, Extension)
           id       == IF IsVersion(3) THEN needs("id", "string") \o names ELSE <<>>
           sgxType  == NumberAmong(info, "tcbType", { 0 }, Extension)
           version  == needs("version", "uint") \o versions \o id
           dates    == version \o needs("issueDate", "date") \o needs("nextUpdate", "date")
           ids      == dates \o needs("fmspc", "hex12") \o needs("pceId", "hex4")
           types    == ids \o SignatureChecks \o needs("tcbType", "int") \o sgxType
<1>1. \A field, kind : IsOrdinary(needs(field, kind))
                       /\ (Passes(needs(field, kind)) <=> ReadsAs(field, kind))
  BY OrdinaryExceptions, RequiredPasses DEF ReadsAs
<1>2. IsOrdinary(versions)
      /\ (Passes(versions) <=> IsNumberOf(Field(info, "version"), { 2, 3 }))
  BY OrdinaryExceptions, NumberPasses
<1>3. IsOrdinary(sgxType) /\ (Passes(sgxType) <=> IsNumberOf(Field(info, "tcbType"), { 0 }))
  BY OrdinaryExceptions, NumberPasses
<1>4. IsOrdinary(names)
      /\ (Passes(names) <=> IsTextOf(Field(info, "id"), { SGX_ID, TDX_ID }))
  BY OrdinaryExceptions, TextPasses
<1>5. IsTextOf(Field(info, "id"), { SGX_ID, TDX_ID }) => ReadsAs("id", "string")
  BY TextsAreStrings DEF ReadsAs
<1>6. TcbInfoChecks = types \o needs("tcbEvaluationDataNumber", "uint")
  BY DEF TcbInfoChecks
<1>. HIDE DEF info, needs, versions, names, sgxType
<1>7. /\ IsOrdinary(id)
      /\ Passes(id) <=> (IsVersion(3) => IsTextOf(Field(info, "id"), { SGX_ID, TDX_ID }))
  <2>1. CASE IsVersion(3)
    <3>1. id = needs("id", "string") \o names
      BY <2>1
    <3>. HIDE DEF id
    <3>. QED BY <1>1, <1>4, <1>5, <2>1, <3>1, BothPass
  <2>2. CASE ~IsVersion(3)
    BY <2>2, NothingPasses
  <2>. QED BY <2>1, <2>2
<1>. HIDE DEF id
<1>8. /\ IsOrdinary(version)
      /\ Passes(version) <=>
            /\ ReadsAs("version", "uint") /\ IsNumberOf(Field(info, "version"), { 2, 3 })
            /\ IsVersion(3) => IsTextOf(Field(info, "id"), { SGX_ID, TDX_ID })
  BY <1>1, <1>2, <1>7, BothPass
<1>. HIDE DEF version
<1>9. /\ IsOrdinary(dates)
      /\ Passes(dates) <=>
            Passes(version) /\ ReadsAs("issueDate", "date") /\ ReadsAs("nextUpdate", "date")
  BY <1>1, <1>8, BothPass
<1>. HIDE DEF dates
<1>10. /\ IsOrdinary(ids)
       /\ Passes(ids) <=> Passes(dates) /\ ReadsAs("fmspc", "hex12") /\ ReadsAs("pceId", "hex4")
  BY <1>1, <1>9, BothPass
<1>. HIDE DEF ids
<1>11. /\ IsOrdinary(types)
       /\ Passes(types) <=>
             /\ Passes(ids) /\ SignatureFits
             /\ ReadsAs("tcbType", "int") /\ IsNumberOf(Field(info, "tcbType"), { 0 })
  BY <1>1, <1>3, <1>10, SignaturePasses, BothPass
<1>. HIDE DEF types
<1>12. /\ IsOrdinary(TcbInfoChecks)
       /\ Passes(TcbInfoChecks) <=> Passes(types) /\ ReadsAs("tcbEvaluationDataNumber", "uint")
  BY <1>1, <1>6, <1>11, BothPass
<1>. QED BY <1>8, <1>9, <1>10, <1>11, <1>12 DEF TcbInfoFieldsFit, info

LEMMA IdPasses == IsOrdinary(IdChecks) /\ (Passes(IdChecks) <=> IdFits)
<1> DEFINE id    == Required(Body(document), "id", "string", Extension, Extension)
           names == TextAmong(Body(document), "id", EnclaveIDs, Extension)
<1>1. IsOrdinary(id) /\ (Passes(id) <=> ReadsAs("id", "string"))
  BY OrdinaryExceptions, RequiredPasses DEF ReadsAs
<1>2. IsOrdinary(names) /\ (Passes(names) <=> IdFits)
  BY OrdinaryExceptions, TextPasses DEF IdFits
<1>3. IdFits => ReadsAs("id", "string")
  BY TextsAreStrings DEF IdFits, ReadsAs
<1>4. IdChecks = id \o names
  BY DEF IdChecks
<1>. HIDE DEF id, names
<1>. QED BY <1>1, <1>2, <1>3, <1>4, BothPass

\* The one check that throws InvalidVersionException.
LEMMA VersionPasses ==
    /\ VersionChecks \in Checklist
    /\ Passes(VersionChecks) <=> VersionFits
    /\ FirstFailure(VersionChecks) = BadVersion <=> ReadsAs("version", "uint") /\ ~IsVersion(2)
<1> DEFINE version == Required(Body(document), "version", "uint", Extension, Extension)
           two     == NumberAmong(Body(document), "version", { 2 }, BadVersion)
<1>1. IsOrdinary(version) /\ (Passes(version) <=> ReadsAs("version", "uint"))
  BY OrdinaryExceptions, RequiredPasses DEF ReadsAs
<1>2. /\ two \in Checklist
      /\ FirstFailure(two) = IF IsVersion(2) THEN None ELSE BadVersion
  <2>1. two = Check(IsVersion(2), BadVersion)
    BY DEF NumberAmong, IsVersion
  <2>2. IsVersion(2) \in BOOLEAN /\ BadVersion \in Exceptions
    BY DEF IsVersion, IsNumberOf, Exceptions
  <2>. HIDE DEF two
  <2>. QED BY <2>1, <2>2, OneCheck
<1>3. VersionChecks = version \o two
  BY DEF VersionChecks
<1>4. None # BadVersion
  BY DEF None, BadVersion
<1>. HIDE DEF version, two
<1>. QED BY <1>1, <1>2, <1>3, <1>4, TwoParts DEF IsOrdinary, Passes, VersionFits

LEMMA ContentPasses == IsOrdinary(ContentChecks) /\ (Passes(ContentChecks) <=> ContentFits)
<1> DEFINE needs(field, kind) == Required(Body(document), field, kind, Extension, Extension)
           dates    == needs("issueDate", "date") \o needs("nextUpdate", "date")
                         \o needs("tcbEvaluationDataNumber", "uint")
           select   == dates \o needs("miscselect", "hex8") \o needs("miscselectMask", "hex8")
           attributes ==
               select \o needs("attributes", "hex32") \o needs("attributesMask", "hex32")
<1>1. \A field, kind : IsOrdinary(needs(field, kind))
                       /\ (Passes(needs(field, kind)) <=> ReadsAs(field, kind))
  BY OrdinaryExceptions, RequiredPasses DEF ReadsAs
<1>2. ContentChecks = attributes \o needs("mrsigner", "hex64") \o needs("isvprodid", "uint")
  BY DEF ContentChecks
<1>. HIDE DEF needs
<1>3. /\ IsOrdinary(dates)
      /\ Passes(dates) <=>
            /\ ReadsAs("issueDate", "date") /\ ReadsAs("nextUpdate", "date")
            /\ ReadsAs("tcbEvaluationDataNumber", "uint")
  BY <1>1, BothPass
<1>. HIDE DEF dates
<1>4. /\ IsOrdinary(select)
      /\ Passes(select) <=>
            Passes(dates) /\ ReadsAs("miscselect", "hex8") /\ ReadsAs("miscselectMask", "hex8")
  BY <1>1, <1>3, BothPass
<1>. HIDE DEF select
<1>5. /\ IsOrdinary(attributes)
      /\ Passes(attributes) <=>
            Passes(select) /\ ReadsAs("attributes", "hex32") /\ ReadsAs("attributesMask", "hex32")
  BY <1>1, <1>4, BothPass
<1>. HIDE DEF attributes
<1>6. /\ IsOrdinary(ContentChecks)
      /\ Passes(ContentChecks) <=>
            Passes(attributes) /\ ReadsAs("mrsigner", "hex64") /\ ReadsAs("isvprodid", "uint")
  BY <1>1, <1>2, <1>5, BothPass
<1>. QED BY <1>3, <1>4, <1>5, <1>6 DEF ContentFits

LEMMA EnclaveIdentityPasses ==
    /\ EnclaveIdentityChecks \in Checklist
    /\ Passes(EnclaveIdentityChecks) <=> EnclaveIdentityFieldsFit
    /\ FirstFailure(EnclaveIdentityChecks) = BadVersion <=>
          IdFits /\ ReadsAs("version", "uint") /\ ~IsVersion(2)
<1> DEFINE head == IdChecks \o VersionChecks
           most == head \o ContentChecks
<1>1. /\ head \in Checklist
      /\ FirstFailure(head) = None <=> IdFits /\ VersionFits
      /\ FirstFailure(head) = BadVersion <=> IdFits /\ ReadsAs("version", "uint") /\ ~IsVersion(2)
  BY IdPasses, VersionPasses, TwoParts DEF IsOrdinary, Passes
<1>2. EnclaveIdentityChecks = most \o SignatureChecks
  BY DEF EnclaveIdentityChecks
<1>. HIDE DEF head
<1>3. /\ most \in Checklist
      /\ FirstFailure(most) = None <=> IdFits /\ VersionFits /\ ContentFits
      /\ FirstFailure(most) = BadVersion <=> IdFits /\ ReadsAs("version", "uint") /\ ~IsVersion(2)
  BY <1>1, ContentPasses, TwoParts DEF IsOrdinary, Passes
<1>. HIDE DEF most
<1>. QED BY <1>2, <1>3, SignaturePasses, TwoParts
         DEF IsOrdinary, Passes, EnclaveIdentityFieldsFit

LEMMA TdxPartPasses ==
    IsOrdinary(TdxPartChecks) /\ (Passes(TdxPartChecks) <=> TdxPartIsThere)
<1> DEFINE info == Body(document)
           isThere    == Check(Has(info, "tdxModule"), Extension)
           isModule   == Check(IsTdxModule(Field(info, "tdxModule")), Format)
           identities == Check(OptionalOf(info, "tdxModuleIdentities", "array"), Extension)
           noModule   == Check(~Has(info, "tdxModule"), Extension)
           noIdentities == Check(~Has(info, "tdxModuleIdentities"), Extension)
<1>1. \A field : Has(info, field) \in BOOLEAN /\ (~Has(info, field)) \in BOOLEAN
  BY DEF Has
<1>2. IsTdxModule(Field(info, "tdxModule")) \in BOOLEAN
  BY DEF IsTdxModule
<1>3. OptionalOf(info, "tdxModuleIdentities", "array") \in BOOLEAN
  BY DEF OptionalOf
<1>4. IsTdxModule(Field(info, "tdxModule")) => Has(info, "tdxModule")
  BY DEF IsTdxModule, Field, Absent
<1>5. TdxPartChecks = IF IsTdx(document) THEN isThere \o isModule \o identities
                      ELSE IF IsVersion(3) THEN noModule \o noIdentities ELSE <<>>
  BY DEF TdxPartChecks
<1>6. IsOrdinary(isThere) /\ (Passes(isThere) <=> Has(info, "tdxModule"))
  BY <1>1, OrdinaryExceptions, CheckPasses
<1>7. IsOrdinary(isModule) /\ (Passes(isModule) <=> IsTdxModule(Field(info, "tdxModule")))
  BY <1>2, OrdinaryExceptions, CheckPasses
<1>8. IsOrdinary(identities)
      /\ (Passes(identities) <=> OptionalOf(info, "tdxModuleIdentities", "array"))
  BY <1>3, OrdinaryExceptions, CheckPasses
<1>9. IsOrdinary(noModule) /\ (Passes(noModule) <=> ~Has(info, "tdxModule"))
  BY <1>1, OrdinaryExceptions, CheckPasses
<1>10. IsOrdinary(noIdentities) /\ (Passes(noIdentities) <=> ~Has(info, "tdxModuleIdentities"))
  BY <1>1, OrdinaryExceptions, CheckPasses
<1>. HIDE DEF info, isThere, isModule, identities, noModule, noIdentities
<1>11. CASE IsTdx(document)
  <2>1. IsOrdinary(isThere \o isModule)
        /\ (Passes(isThere \o isModule) <=> IsTdxModule(Field(info, "tdxModule")))
    BY <1>4, <1>6, <1>7, BothPass
  <2>. QED BY <1>5, <1>8, <1>11, <2>1, BothPass DEF TdxPartIsThere, info
<1>12. CASE ~IsTdx(document) /\ IsVersion(3)
  BY <1>5, <1>9, <1>10, <1>12, BothPass DEF TdxPartIsThere, info
<1>13. CASE ~IsTdx(document) /\ ~IsVersion(3)
  BY <1>5, <1>13, NothingPasses DEF TdxPartIsThere
<1>. QED BY <1>11, <1>12, <1>13

(***************************************************************************)
(* Levels.                                                                 *)
(***************************************************************************)
LEMMA AllPass ==
    ASSUME NEW checks \in Checklist, \A i \in DOMAIN checks : checks[i].otherwise \in Ordinary
    PROVE  IsOrdinary(checks) /\ (Passes(checks) <=> \A i \in DOMAIN checks : checks[i].holds)
<1>1. None \notin Ordinary /\ BadVersion \notin Ordinary /\ None # BadVersion
  BY DEF Ordinary, None, Format, Extension, BadVersion
<1>. QED BY <1>1, FirstFailureIs DEF IsOrdinary, Passes

\* The checks of the SVNs of version 2 come in pairs, one for each component.
LEMMA CpuSvnPasses ==
    ASSUME NEW tcb
    PROVE  /\ IsOrdinary(SetCpuSvnChecks(tcb))
           /\ Passes(SetCpuSvnChecks(tcb)) <=>
                 \A i \in SvnIndex : Reads(Field(tcb, SvnName(i)), "uint")
<1> DEFINE checks == SetCpuSvnChecks(tcb)
           name(k) == SvnName((k - 1) \div 2)
           n == 2 * CPUSVN_BYTE_LEN
<1>1. n \in Nat /\ CPUSVN_BYTE_LEN \in Nat
  BY SvnLengthAssumption
<1>2. /\ DOMAIN checks = 1 .. n
      /\ \A k \in 1 .. n :
            checks[k] = IF k % 2 = 1 THEN [ holds |-> Has(tcb, name(k)), otherwise |-> Format ]
                        ELSE [ holds |-> Reads(Field(tcb, name(k)), "uint"),
                               otherwise |-> Extension ]
  BY DEF SetCpuSvnChecks
<1>3. \A field : Has(tcb, field) \in BOOLEAN /\ Reads(Field(tcb, field), "uint") \in BOOLEAN
  BY DEF Has, Reads
<1>. HIDE DEF name
<1>4. \A k \in 1 .. n : checks[k] \in [ holds : BOOLEAN, otherwise : Exceptions ]
  <2>1. Format \in Exceptions /\ Extension \in Exceptions
    BY DEF Exceptions
  <2>. QED BY <1>2, <1>3, <2>1
<1>5. checks \in Checklist
  <2>1. checks = [ k \in 1 .. n |-> checks[k] ]
    BY DEF SetCpuSvnChecks
  <2>. DEFINE S == [ holds : BOOLEAN, otherwise : Exceptions ]
  <2>2. \A k \in 1 .. n : checks[k] \in S
    BY <1>4
  <2>. HIDE DEF S, checks
  <2>3. checks \in Seq(S)
    BY <1>1, <2>1, <2>2
  <2>. QED BY <2>3 DEF S, Checklist
<1>6. \A k \in DOMAIN checks : checks[k].otherwise \in Ordinary
  BY <1>2, OrdinaryExceptions
<1>. HIDE DEF checks
<1>7. IsOrdinary(checks) /\ (Passes(checks) <=> \A k \in DOMAIN checks : checks[k].holds)
  BY <1>5, <1>6, AllPass
<1>8. ASSUME \A k \in DOMAIN checks : checks[k].holds, NEW i \in SvnIndex
      PROVE  Reads(Field(tcb, SvnName(i)), "uint")
  <2> DEFINE k == 2 * i + 2
  <2>1. k \in 1 .. n /\ k % 2 # 1 /\ (k - 1) \div 2 = i
    BY SvnLengthAssumption DEF SvnIndex
  <2>2. checks[k] = [ holds |-> Reads(Field(tcb, name(k)), "uint"), otherwise |-> Extension ]
    BY <1>2, <2>1
  <2>3. name(k) = SvnName(i)
    BY <2>1 DEF name
  <2>. HIDE DEF k
  <2>. QED BY <1>2, <1>8, <2>1, <2>2, <2>3
<1>9. ASSUME \A i \in SvnIndex : Reads(Field(tcb, SvnName(i)), "uint"), NEW k \in DOMAIN checks
      PROVE  checks[k].holds
  <2>1. (k - 1) \div 2 \in SvnIndex
    BY <1>1, <1>2 DEF SvnIndex
  <2>2. Reads(Field(tcb, name(k)), "uint")
    BY <1>9, <2>1 DEF name
  <2>3. Has(tcb, name(k))
    BY <2>2, OnlyObjectsHaveFields
  <2>. QED BY <1>2, <2>2, <2>3
<1>. QED BY <1>7, <1>8, <1>9 DEF checks

\* The fields all levels have.
LEMMA LevelFields ==
    ASSUME NEW v, NEW statuses
    PROVE  HasLevelFields(v, statuses) <=>
              /\ Reads(Field(v, "tcbDate"), "date")
              /\ OptionalOf(v, "advisoryIDs", "strings")
              /\ IsTextOf(Field(v, "tcbStatus"), statuses)
BY OnlyObjectsHaveFields DEF HasLevelFields

LEMMA TcbLevelCommonPasses ==
    ASSUME NEW v
    PROVE  /\ IsOrdinary(TcbLevelCommonChecks(v))
           /\ Passes(TcbLevelCommonChecks(v)) <=>
                 HasLevelFields(v, TcbInfoStatuses) /\ Has(v, "tcb")
<1> DEFINE date       == Required(v, "tcbDate", "date", Format, Extension)
           advisories == Check(OptionalOf(v, "advisoryIDs", "strings"), Extension)
           status     == Required(v, "tcbStatus", "string", Format, Format)
           statuses   == TextAmong(v, "tcbStatus", TcbInfoStatuses, Extension)
           tcb        == Check(Has(v, "tcb"), Format)
           dated      == date \o advisories \o status
<1>1. IsOrdinary(date) /\ (Passes(date) <=> Reads(Field(v, "tcbDate"), "date"))
  BY OrdinaryExceptions, RequiredPasses
<1>2. IsOrdinary(advisories) /\ (Passes(advisories) <=> OptionalOf(v, "advisoryIDs", "strings"))
  <2>1. OptionalOf(v, "advisoryIDs", "strings") \in BOOLEAN
    BY DEF OptionalOf
  <2>. QED BY <2>1, OrdinaryExceptions, CheckPasses
<1>3. IsOrdinary(status) /\ (Passes(status) <=> Reads(Field(v, "tcbStatus"), "string"))
  BY OrdinaryExceptions, RequiredPasses
<1>4. IsOrdinary(statuses)
      /\ (Passes(statuses) <=> IsTextOf(Field(v, "tcbStatus"), TcbInfoStatuses))
  BY OrdinaryExceptions, TextPasses
<1>5. IsOrdinary(tcb) /\ (Passes(tcb) <=> Has(v, "tcb"))
  <2>1. Has(v, "tcb") \in BOOLEAN
    BY DEF Has
  <2>. QED BY <2>1, OrdinaryExceptions, CheckPasses
<1>6. TcbLevelCommonChecks(v) = dated \o statuses \o tcb
  BY DEF TcbLevelCommonChecks
<1>7. IsTextOf(Field(v, "tcbStatus"), TcbInfoStatuses) => Reads(Field(v, "tcbStatus"), "string")
  BY TextsAreStrings
<1>. HIDE DEF date, advisories, status, statuses, tcb
<1>8. /\ IsOrdinary(dated)
      /\ Passes(dated) <=>
            /\ Reads(Field(v, "tcbDate"), "date") /\ OptionalOf(v, "advisoryIDs", "strings")
            /\ Reads(Field(v, "tcbStatus"), "string")
  BY <1>1, <1>2, <1>3, BothPass
<1>. HIDE DEF dated
<1>9. /\ IsOrdinary(TcbLevelCommonChecks(v))
      /\ Passes(TcbLevelCommonChecks(v)) <=>
            /\ Passes(dated) /\ Has(v, "tcb")
            /\ IsTextOf(Field(v, "tcbStatus"), TcbInfoStatuses)
  BY <1>4, <1>5, <1>6, <1>8, BothPass
<1>. QED BY <1>7, <1>8, <1>9, LevelFields

LEMMA TcbComponentsPass ==
    ASSUME NEW tcb
    PROVE  /\ IsOrdinary(SetTcbComponentsChecks(tcb))
           /\ Passes(SetTcbComponentsChecks(tcb)) <=>
                 /\ AreTcbComponents(Field(tcb, "sgxtcbcomponents"))
                 /\ IsTdx(document) => AreTcbComponents(Field(tcb, "tdxtcbcomponents"))
<1> DEFINE sgx == Check(AreTcbComponents(Field(tcb, "sgxtcbcomponents")), Format)
           tdx == Check(IsTdx(document) => AreTcbComponents(Field(tcb, "tdxtcbcomponents")), Format)
<1>1. IsOrdinary(sgx) /\ (Passes(sgx) <=> AreTcbComponents(Field(tcb, "sgxtcbcomponents")))
  <2>1. AreTcbComponents(Field(tcb, "sgxtcbcomponents")) \in BOOLEAN
    BY DEF AreTcbComponents
  <2>. QED BY <2>1, OrdinaryExceptions, CheckPasses
<1>2. IsOrdinary(tdx)
      /\ (Passes(tdx) <=> (IsTdx(document) => AreTcbComponents(Field(tcb, "tdxtcbcomponents"))))
  BY OrdinaryExceptions, CheckPasses
<1>3. SetTcbComponentsChecks(tcb) = sgx \o tdx
  BY DEF SetTcbComponentsChecks
<1>. HIDE DEF sgx, tdx
<1>. QED BY <1>1, <1>2, <1>3, BothPass

LEMMA TcbLevelPasses ==
    ASSUME TcbInfoFieldsFit, NEW v
    PROVE  /\ IsOrdinary(TcbLevelChecks(v))
           /\ Passes(TcbLevelChecks(v)) <=> IsTcbLevel(v, document)
<1> DEFINE tcb      == Field(v, "tcb")
           isObject == Check(tcb.type = "object", Format)
           head     == TcbLevelCommonChecks(v) \o isObject
           svns     == IF IsVersion(2) THEN SetCpuSvnChecks(tcb) \o PceSvnChecks(tcb)
                       ELSE PceSvnChecks(tcb) \o SetTcbComponentsChecks(tcb)
<1>1. /\ Version(document) \in { 2, 3 }
      /\ IsVersion(2) <=> Version(document) = 2
  BY DEF TcbInfoFieldsFit, IsVersion, IsNumberOf, Version
<1>2. IsOrdinary(PceSvnChecks(tcb))
      /\ (Passes(PceSvnChecks(tcb)) <=> Reads(Field(tcb, "pcesvn"), "uint"))
  BY OrdinaryExceptions, RequiredPasses DEF PceSvnChecks
<1>3. IsOrdinary(isObject) /\ (Passes(isObject) <=> tcb.type = "object")
  BY OrdinaryExceptions, CheckPasses
<1>4. Reads(Field(tcb, "pcesvn"), "uint") => tcb.type = "object" /\ Has(v, "tcb")
  <2>1. Absent.type # "object"
    BY DEF Absent
  <2>. QED BY <2>1, OnlyObjectsHaveFields DEF Field
<1>5. IsVersion(2) => ~IsTdx(document)
  BY <1>1 DEF IsTdx, Id, SGX_ID, TDX_ID
<1>6. TcbLevelChecks(v) = head \o svns
  BY DEF TcbLevelChecks
<1>7. IsTcbLevel(v, document) <=>
        /\ HasLevelFields(v, TcbInfoStatuses)
        /\ Reads(Field(tcb, "pcesvn"), "uint")
        /\ Version(document) = 2 => \A i \in SvnIndex : Reads(Field(tcb, SvnName(i)), "uint")
        /\ Version(document) = 3 => AreTcbComponents(Field(tcb, "sgxtcbcomponents"))
        /\ IsTdx(document) => AreTcbComponents(Field(tcb, "tdxtcbcomponents"))
  BY DEF IsTcbLevel
<1>. HIDE DEF tcb, isObject
<1>8. /\ IsOrdinary(head)
      /\ Passes(head) <=>
            HasLevelFields(v, TcbInfoStatuses) /\ Has(v, "tcb") /\ tcb.type = "object"
  BY <1>3, TcbLevelCommonPasses, BothPass
<1>9. /\ IsOrdinary(svns)
      /\ Passes(svns) <=>
            /\ Reads(Field(tcb, "pcesvn"), "uint")
            /\ Version(document) = 2 => \A i \in SvnIndex : Reads(Field(tcb, SvnName(i)), "uint")
            /\ Version(document) = 3 => AreTcbComponents(Field(tcb, "sgxtcbcomponents"))
            /\ IsTdx(document) => AreTcbComponents(Field(tcb, "tdxtcbcomponents"))
  <2>1. CASE IsVersion(2)
    <3>1. svns = SetCpuSvnChecks(tcb) \o PceSvnChecks(tcb)
      BY <2>1
    <3>. HIDE DEF svns
    <3>. QED BY <1>1, <1>2, <1>5, <2>1, <3>1, CpuSvnPasses, BothPass
  <2>2. CASE ~IsVersion(2)
    <3>1. svns = PceSvnChecks(tcb) \o SetTcbComponentsChecks(tcb)
      BY <2>2
    <3>. HIDE DEF svns
    <3>. QED BY <1>1, <1>2, <2>2, <3>1, TcbComponentsPass, BothPass
  <2>. QED BY <2>1, <2>2
<1>. HIDE DEF head, svns
<1>. QED BY <1>4, <1>6, <1>7, <1>8, <1>9, BothPass

LEMMA IdentityLevelPasses ==
    ASSUME NEW v
    PROVE  /\ IsOrdinary(IdentityTcbLevelChecks(v))
           /\ Passes(IdentityTcbLevelChecks(v)) <=> IsIdentityLevel(v)
<1> DEFINE tcb        == Field(v, "tcb")
           isObject   == Check(v.type = "object", Format)
           hasTcb     == Check(Has(v, "tcb"), Format)
           isvsvn     == Required(tcb, "isvsvn", "uint", Format, Extension)
           date       == Required(v, "tcbDate", "date", Format, Extension)
           status     == Required(v, "tcbStatus", "string", Format, Extension)
           statuses   == TextAmong(v, "tcbStatus", IdentityStatuses, Extension)
           advisories == Check(OptionalOf(v, "advisoryIDs", "strings"), Extension)
           head       == isObject \o hasTcb \o isvsvn
           most       == head \o date \o status
<1>1. IsOrdinary(isObject) /\ (Passes(isObject) <=> v.type = "object")
  BY OrdinaryExceptions, CheckPasses
<1>2. IsOrdinary(hasTcb) /\ (Passes(hasTcb) <=> Has(v, "tcb"))
  <2>1. Has(v, "tcb") \in BOOLEAN
    BY DEF Has
  <2>. QED BY <2>1, OrdinaryExceptions, CheckPasses
<1>3. IsOrdinary(isvsvn) /\ (Passes(isvsvn) <=> Reads(Field(tcb, "isvsvn"), "uint"))
  BY OrdinaryExceptions, RequiredPasses
<1>4. IsOrdinary(date) /\ (Passes(date) <=> Reads(Field(v, "tcbDate"), "date"))
  BY OrdinaryExceptions, RequiredPasses
<1>5. IsOrdinary(status) /\ (Passes(status) <=> Reads(Field(v, "tcbStatus"), "string"))
  BY OrdinaryExceptions, RequiredPasses
<1>6. IsOrdinary(statuses)
      /\ (Passes(statuses) <=> IsTextOf(Field(v, "tcbStatus"), IdentityStatuses))
  BY OrdinaryExceptions, TextPasses
<1>7. IsOrdinary(advisories) /\ (Passes(advisories) <=> OptionalOf(v, "advisoryIDs", "strings"))
  <2>1. OptionalOf(v, "advisoryIDs", "strings") \in BOOLEAN
    BY DEF OptionalOf
  <2>. QED BY <2>1, OrdinaryExceptions, CheckPasses
<1>8. IdentityTcbLevelChecks(v) = most \o statuses \o advisories
  BY DEF IdentityTcbLevelChecks
<1>9. Reads(Field(tcb, "isvsvn"), "uint") => Has(v, "tcb")
  <2>1. Absent.type # "object"
    BY DEF Absent
  <2>. QED BY <2>1, OnlyObjectsHaveFields DEF Field
<1>10. Reads(Field(v, "tcbDate"), "date") => v.type = "object"
  BY OnlyObjectsHaveFields
<1>11. IsTextOf(Field(v, "tcbStatus"), IdentityStatuses) => Reads(Field(v, "tcbStatus"), "string")
  BY TextsAreStrings
<1>12. IsIdentityLevel(v) <=>
          HasLevelFields(v, IdentityStatuses) /\ Reads(Field(tcb, "isvsvn"), "uint")
  BY DEF IsIdentityLevel
<1>. HIDE DEF tcb, isObject, hasTcb, isvsvn, date, status, statuses, advisories
<1>13. /\ IsOrdinary(head)
       /\ Passes(head) <=>
             v.type = "object" /\ Has(v, "tcb") /\ Reads(Field(tcb, "isvsvn"), "uint")
  BY <1>1, <1>2, <1>3, BothPass
<1>. HIDE DEF head
<1>14. /\ IsOrdinary(most)
       /\ Passes(most) <=>
             /\ Passes(head)
             /\ Reads(Field(v, "tcbDate"), "date") /\ Reads(Field(v, "tcbStatus"), "string")
  BY <1>4, <1>5, <1>13, BothPass
<1>. HIDE DEF most
<1>15. /\ IsOrdinary(IdentityTcbLevelChecks(v))
       /\ Passes(IdentityTcbLevelChecks(v)) <=>
             /\ Passes(most)
             /\ IsTextOf(Field(v, "tcbStatus"), IdentityStatuses)
             /\ OptionalOf(v, "advisoryIDs", "strings")
  BY <1>6, <1>7, <1>8, <1>14, BothPass
<1>16. HasLevelFields(v, IdentityStatuses) <=>
          /\ Reads(Field(v, "tcbDate"), "date")
          /\ OptionalOf(v, "advisoryIDs", "strings")
          /\ IsTextOf(Field(v, "tcbStatus"), IdentityStatuses)
  BY LevelFields
<1>. QED BY <1>9, <1>10, <1>11, <1>12, <1>13, <1>14, <1>15, <1>16

(***************************************************************************)
(* The format, stage by stage.                                             *)
(***************************************************************************)
FieldsFit ==
    IF document.kind = "TcbInfo" THEN TcbInfoFieldsFit ELSE EnclaveIdentityFieldsFit

JsonModuleIdentities == Field(Body(document), "tdxModuleIdentities").elements

ModuleIdentitiesFit ==
    HasModuleIdentities =>
        /\ JsonModuleIdentities # <<>>
        /\ \A i \in DOMAIN JsonModuleIdentities : IsModuleIdentity(JsonModuleIdentities[i])

LevelFits(v) ==
    IF document.kind = "TcbInfo" THEN IsTcbLevel(v, document) ELSE IsIdentityLevel(v)

LevelsFit == \A i \in DOMAIN JsonLevels(document) : LevelFits(JsonLevels(document)[i])

MarksDiffer ==
    \A i, j \in DOMAIN JsonLevels(document) :
        i # j => Mark(JsonLevels(document)[i], document) # Mark(JsonLevels(document)[j], document)

LEMMA NumbersAreNatural ==
    ASSUME NEW v, NEW field, HasJsonValues(v), Reads(Field(v, field), "uint")
    PROVE  Field(v, field).number \in Nat
<1>1. v.type = "object" /\ Has(v, field)
  BY OnlyObjectsHaveFields
<1>2. IsJsonValue(Field(v, field))
  BY <1>1 DEF HasJsonValues, Has, Field
<1>3. Field(v, field).type = "number" /\ Field(v, field).number >= 0
  BY DEF Reads, HexDigits
<1>. QED BY <1>2, <1>3 DEF IsJsonValue, IsJsonString

LEMMA DatesAreTimes ==
    ASSUME NEW v, NEW field, HasJsonValues(v), Reads(Field(v, field), "date")
    PROVE  Field(v, field).time \in Int
<1>1. v.type = "object" /\ Has(v, field)
  BY OnlyObjectsHaveFields
<1>2. IsJsonValue(Field(v, field))
  BY <1>1 DEF HasJsonValues, Has, Field
<1>3. Field(v, field).type = "string" /\ Field(v, field).reads = "date"
  BY DEF Reads, HexDigits
<1>. QED BY <1>2, <1>3 DEF IsJsonValue, IsJsonString

LEMMA ArraysAreSequences ==
    ASSUME NEW v, NEW field, HasJsonValues(v), Reads(Field(v, field), "array")
    PROVE  /\ Len(Field(v, field).elements) \in Nat
           /\ DOMAIN Field(v, field).elements = 1 .. Len(Field(v, field).elements)
           /\ Field(v, field).elements = <<>> <=> Len(Field(v, field).elements) = 0
<1>1. v.type = "object" /\ Has(v, field)
  BY OnlyObjectsHaveFields
<1>2. IsJsonValue(Field(v, field))
  BY <1>1 DEF HasJsonValues, Has, Field
<1>3. Field(v, field).type = "array"
  BY DEF Reads, HexDigits
<1> DEFINE elements == Field(v, field).elements
           S == { elements[i] : i \in DOMAIN elements }
<1>4. elements \in Seq(S)
  BY <1>2, <1>3 DEF IsJsonValue, IsJsonString
<1>. HIDE DEF elements, S
<1>5. Len(elements) \in Nat /\ DOMAIN elements = 1 .. Len(elements)
  BY <1>4
<1>6. elements = <<>> <=> Len(elements) = 0
  BY <1>4
<1>. QED BY <1>5, <1>6 DEF elements

LEMMA TcbInfoParts ==
    ASSUME document.kind = "TcbInfo"
    PROVE  Reads(Body(document), "object") /\ IsSignature(Field(document.root, "signature"))
           /\ IsTcbInfo(document)
           <=>
           EnvelopeFits /\ TcbInfoFieldsFit /\ TdxPartIsThere /\ ModuleIdentitiesFit
           /\ ReadsAs("tcbLevels", "array") /\ LevelsFit
<1> DEFINE info == Body(document)
<1>1. HasFields(info, TcbInfoFields) <=>
        /\ ReadsAs("version", "uint")
        /\ ReadsAs("issueDate", "date") /\ ReadsAs("nextUpdate", "date")
        /\ ReadsAs("fmspc", "hex12") /\ ReadsAs("pceId", "hex4")
        /\ ReadsAs("tcbType", "int")
        /\ ReadsAs("tcbEvaluationDataNumber", "uint")
        /\ ReadsAs("tcbLevels", "array")
  BY DEF HasFields, TcbInfoFields, ReadsAs
<1>2. ReadsAs("version", "uint") =>
        /\ IsVersion(3) <=> Version(document) = 3
        /\ IsNumberOf(Field(info, "version"), { 2, 3 }) <=> Version(document) \in { 2, 3 }
  BY DEF ReadsAs, Reads, HexDigits, IsVersion, IsNumberOf, Version
<1>3. ReadsAs("tcbLevels", "array") => Has(info, "tcbLevels")
  BY OnlyObjectsHaveFields DEF ReadsAs
<1>4. Reads(info, "object") /\ IsSignature(Field(document.root, "signature")) =>
        EnvelopeFits
  BY DEF EnvelopeFits, IsSignature, Field, Absent
<1>5. Version(document) = 2 => ~IsTdx(document)
  BY DEF IsTdx, Id, SGX_ID, TDX_ID
<1>6. Reads(Field(info, "tdxModuleIdentities"), "array")
        <=> Field(info, "tdxModuleIdentities").type = "array"
  BY DEF Reads, HexDigits
<1>7. Version(document) \in { 2, 3 } /\ (IsVersion(3) <=> Version(document) = 3) =>
        ((Version(document) = 3 => TdxPartFits(document)) <=> TdxPartIsThere /\ ModuleIdentitiesFit)
  <2>1. CASE IsTdx(document)
    BY <1>5, <1>6, <2>1
       DEF TdxPartFits, TdxPartIsThere, ModuleIdentitiesFit, HasModuleIdentities, OptionalOf,
           JsonModuleIdentities
  <2>2. CASE ~IsTdx(document)
    BY <2>2 DEF TdxPartFits, TdxPartIsThere, ModuleIdentitiesFit, HasModuleIdentities
  <2>. QED BY <2>1, <2>2
<1>8. LevelsFit <=>
        \A i \in DOMAIN JsonLevels(document) : IsTcbLevel(JsonLevels(document)[i], document)
  BY DEF LevelsFit, LevelFits
<1>9. IsTcbInfo(document) <=>
        /\ HasFields(info, TcbInfoFields)
        /\ Version(document) \in { 2, 3 }
        /\ IsNumberOf(Field(info, "tcbType"), {0})
        /\ Version(document) = 3 => IsTextOf(Field(info, "id"), { SGX_ID, TDX_ID })
        /\ Version(document) = 3 => TdxPartFits(document)
        /\ LevelsFit
  BY <1>8 DEF IsTcbInfo
<1>10. TcbInfoFieldsFit <=>
        /\ ReadsAs("version", "uint") /\ IsNumberOf(Field(info, "version"), { 2, 3 })
        /\ IsVersion(3) => IsTextOf(Field(info, "id"), { SGX_ID, TDX_ID })
        /\ ReadsAs("issueDate", "date") /\ ReadsAs("nextUpdate", "date")
        /\ ReadsAs("fmspc", "hex12") /\ ReadsAs("pceId", "hex4")
        /\ IsSignature(Field(document.root, "signature")) /\ Has(info, "tcbLevels")
        /\ ReadsAs("tcbType", "int") /\ IsNumberOf(Field(info, "tcbType"), { 0 })
        /\ ReadsAs("tcbEvaluationDataNumber", "uint")
  BY DEF TcbInfoFieldsFit, SignatureFits
<1>11. EnvelopeFits => Reads(info, "object")
  BY DEF EnvelopeFits
<1>. HIDE DEF info
<1>. QED BY <1>1, <1>2, <1>3, <1>4, <1>7, <1>9, <1>10, <1>11 DEF info

LEMMA EnclaveIdentityParts ==
    ASSUME document.kind = "EnclaveIdentity"
    PROVE  Reads(Body(document), "object") /\ IsSignature(Field(document.root, "signature"))
           /\ IsEnclaveIdentity(document)
           <=>
           EnvelopeFits /\ EnclaveIdentityFieldsFit /\ ReadsAs("tcbLevels", "array") /\ LevelsFit
<1> DEFINE identity == Body(document)
<1>1. HasFields(identity, EnclaveIdentityFields) <=>
        /\ ReadsAs("id", "string") /\ ReadsAs("version", "uint") /\ ContentFits
        /\ ReadsAs("tcbLevels", "array")
  BY DEF HasFields, EnclaveIdentityFields, ReadsAs, ContentFits
<1>2. ReadsAs("version", "uint") => (IsVersion(2) <=> Version(document) = 2)
  BY DEF ReadsAs, Reads, HexDigits, IsVersion, IsNumberOf, Version
<1>3. ReadsAs("tcbLevels", "array") => Has(identity, "tcbLevels")
  BY OnlyObjectsHaveFields DEF ReadsAs
<1>4. Reads(identity, "object") /\ IsSignature(Field(document.root, "signature")) =>
        EnvelopeFits
  BY DEF EnvelopeFits, IsSignature, Field, Absent
<1>5. IdFits => ReadsAs("id", "string")
  BY TextsAreStrings DEF IdFits, ReadsAs
<1>6. LevelsFit <=>
        \A i \in DOMAIN JsonLevels(document) : IsIdentityLevel(JsonLevels(document)[i])
  BY DEF LevelsFit, LevelFits
<1>7. IsEnclaveIdentity(document) <=>
        /\ HasFields(identity, EnclaveIdentityFields)
        /\ IdFits /\ Version(document) = 2 /\ LevelsFit
  BY <1>6 DEF IsEnclaveIdentity, IdFits
<1>8. EnvelopeFits => Reads(identity, "object")
  BY DEF EnvelopeFits
<1>. HIDE DEF identity
<1>. QED BY <1>1, <1>2, <1>3, <1>4, <1>5, <1>7, <1>8
         DEF EnclaveIdentityFieldsFit, VersionFits, SignatureFits, identity

\* A document is well formed exactly if every stage finds what it asks for.
LEMMA FormatByStages ==
    ASSUME document.kind \in { "TcbInfo", "EnclaveIdentity" }
    PROVE  WellFormed(document) <=>
              /\ EnvelopeFits /\ FieldsFit
              /\ document.kind = "TcbInfo" => TdxPartIsThere /\ ModuleIdentitiesFit
              /\ ReadsAs("tcbLevels", "array")
              /\ LevelsFit /\ MarksDiffer
              /\ JsonLevels(document) # <<>> /\ document.nesting <= MAX_JSON_DEPTH
<1>1. CASE document.kind = "TcbInfo"
  BY <1>1, TcbInfoParts DEF WellFormed, FieldsFit, MarksDiffer
<1>2. CASE document.kind = "EnclaveIdentity"
  BY <1>2, EnclaveIdentityParts DEF WellFormed, FieldsFit, MarksDiffer
<1>. QED BY <1>1, <1>2

(***************************************************************************)
(* The order of levels.                                                    *)
(***************************************************************************)
SvnVector == [ SvnIndex -> 0 .. UINT8_COUNT - 1 ]

\* A level of the document's kind; without TDX it has no TDX SVNs.
IsLevel(l) ==
    IF document.kind = "TcbInfo"
    THEN /\ l.sgx \in SvnVector /\ l.tdx \in SvnVector /\ l.pceSvn \in Int
         /\ ~IsTdx(document) => l.tdx = [ i \in SvnIndex |-> 0 ]
    ELSE l.isvSvn \in Nat /\ l.tcbDate \in Int

\* The numbers a level is for, as Mark has them.
Numbers(l) ==
    IF document.kind = "TcbInfo" THEN << l.sgx, l.tdx, l.pceSvn >> ELSE << l.isvSvn, l.tcbDate >>

LEMMA SvnVectorsCompare ==
    ASSUME NEW a \in SvnVector, NEW b \in SvnVector
    PROVE  /\ a # b => SvnsGreater(a, b) \/ SvnsGreater(b, a)
           /\ SvnsGreater(a, b) => a # b /\ ~SvnsGreater(b, a)
<1>1. SvnIndex \in SUBSET Nat /\ \A i \in SvnIndex : \A j \in 0 .. i - 1 : j \in SvnIndex /\ j < i
  BY SvnLengthAssumption DEF SvnIndex
<1>2. \A i \in SvnIndex : a[i] \in Int /\ b[i] \in Int
  BY DEF SvnVector
<1>3. ASSUME a # b
      PROVE  SvnsGreater(a, b) \/ SvnsGreater(b, a)
  <2> DEFINE differ == { i \in SvnIndex : a[i] # b[i] }
  <2>1. differ # {}
    BY <1>3 DEF SvnVector
  <2>2. differ \in SUBSET Nat
    BY <1>1
  <2>3. PICK i \in differ : \A j \in differ : i <= j
    BY <2>1, <2>2, LeastNumber
  <2>4. \A j \in 0 .. i - 1 : a[j] = b[j]
    BY <1>1, <2>3
  <2>5. i \in SvnIndex /\ (a[i] > b[i] \/ b[i] > a[i])
    BY <1>2, <2>3
  <2>. QED BY <2>4, <2>5 DEF SvnsGreater
<1>4. ASSUME SvnsGreater(a, b)
      PROVE  a # b /\ ~SvnsGreater(b, a)
  <2>1. PICK i \in SvnIndex : a[i] > b[i] /\ \A j \in 0 .. i - 1 : a[j] = b[j]
    BY <1>4 DEF SvnsGreater
  <2>2. ASSUME NEW k \in SvnIndex, b[k] > a[k], \A j \in 0 .. k - 1 : b[j] = a[j]
        PROVE  FALSE
    <3>1. CASE i < k
      <4>1. i \in 0 .. k - 1
        BY <1>1, <3>1 DEF SvnIndex
      <4>. QED BY <1>2, <2>1, <2>2, <4>1
    <3>2. CASE k < i
      <4>1. k \in 0 .. i - 1
        BY <1>1, <3>2 DEF SvnIndex
      <4>. QED BY <1>2, <2>1, <2>2, <4>1
    <3>3. CASE i = k
      BY <1>2, <2>1, <2>2, <3>3
    <3>. QED BY <1>1, <3>1, <3>2, <3>3
  <2>3. ~SvnsGreater(b, a)
    BY <2>2 DEF SvnsGreater
  <2>4. a # b
    BY <1>2, <2>1
  <2>. QED BY <2>3, <2>4
<1>. QED BY <1>3, <1>4

LEMMA SvnVectorsAreOrdered ==
    ASSUME NEW a \in SvnVector, NEW b \in SvnVector, NEW c \in SvnVector,
           SvnsGreater(a, b), SvnsGreater(b, c)
    PROVE  SvnsGreater(a, c)
<1>1. \A i \in SvnIndex : a[i] \in Int /\ b[i] \in Int /\ c[i] \in Int
  BY DEF SvnVector
<1>2. PICK i \in SvnIndex : a[i] > b[i] /\ \A j \in 0 .. i - 1 : a[j] = b[j]
  BY DEF SvnsGreater
<1>3. PICK k \in SvnIndex : b[k] > c[k] /\ \A j \in 0 .. k - 1 : b[j] = c[j]
  BY DEF SvnsGreater
<1>4. i \in Int /\ k \in Int
  BY SvnLengthAssumption DEF SvnIndex
<1>5. CASE i < k
  <2>1. i \in 0 .. k - 1 /\ \A j \in 0 .. i - 1 : j \in 0 .. k - 1
    BY <1>4, <1>5, SvnLengthAssumption DEF SvnIndex
  <2>2. a[i] > c[i] /\ \A j \in 0 .. i - 1 : a[j] = c[j]
    BY <1>1, <1>2, <1>3, <2>1
  <2>. QED BY <2>2 DEF SvnsGreater
<1>6. CASE k < i
  <2>1. k \in 0 .. i - 1 /\ \A j \in 0 .. k - 1 : j \in 0 .. i - 1
    BY <1>4, <1>6, SvnLengthAssumption DEF SvnIndex
  <2>2. a[k] > c[k] /\ \A j \in 0 .. k - 1 : a[j] = c[j]
    BY <1>1, <1>2, <1>3, <2>1
  <2>. QED BY <2>2 DEF SvnsGreater
<1>7. CASE i = k
  <2>1. a[i] > c[i] /\ \A j \in 0 .. i - 1 : a[j] = c[j]
    BY <1>1, <1>2, <1>3, <1>7
  <2>. QED BY <2>1 DEF SvnsGreater
<1>. QED BY <1>4, <1>5, <1>6, <1>7

\* Two levels of different numbers are in order, one way and not the other.
LEMMA LevelsCompare ==
    ASSUME document.kind \in { "TcbInfo", "EnclaveIdentity" },
           NEW a, NEW b, IsLevel(a), IsLevel(b)
    PROVE  /\ Numbers(a) # Numbers(b) <=> LevelGreater(a, b) \/ LevelGreater(b, a)
           /\ LevelGreater(a, b) => ~LevelGreater(b, a)
<1>1. CASE document.kind = "TcbInfo"
  <2>1. /\ a.sgx \in SvnVector /\ a.tdx \in SvnVector /\ a.pceSvn \in Int
        /\ b.sgx \in SvnVector /\ b.tdx \in SvnVector /\ b.pceSvn \in Int
        /\ ~IsTdx(document) => a.tdx = b.tdx
    BY <1>1 DEF IsLevel
  <2>2. Id(document) = "TDX" <=> IsTdx(document)
    BY <1>1 DEF IsTdx, TDX_ID
  <2>3. /\ a.sgx # b.sgx <=> SvnsGreater(a.sgx, b.sgx) \/ SvnsGreater(b.sgx, a.sgx)
        /\ ~(SvnsGreater(a.sgx, b.sgx) /\ SvnsGreater(b.sgx, a.sgx))
        /\ a.tdx # b.tdx <=> SvnsGreater(a.tdx, b.tdx) \/ SvnsGreater(b.tdx, a.tdx)
        /\ ~(SvnsGreater(a.tdx, b.tdx) /\ SvnsGreater(b.tdx, a.tdx))
    BY <2>1, SvnVectorsCompare
  <2>4. Numbers(a) = Numbers(b) <=> a.sgx = b.sgx /\ a.tdx = b.tdx /\ a.pceSvn = b.pceSvn
    BY <1>1 DEF Numbers
  <2>5. \A x, y : LevelGreater(x, y) <=>
          \/ SvnsGreater(x.sgx, y.sgx)
          \/ x.sgx = y.sgx /\ x.pceSvn > y.pceSvn
          \/ /\ IsTdx(document)
             /\ x.sgx = y.sgx /\ x.pceSvn = y.pceSvn /\ SvnsGreater(x.tdx, y.tdx)
    BY <1>1, <2>2 DEF LevelGreater, TcbLevelGreater
  <2>. QED BY <2>1, <2>3, <2>4, <2>5
<1>2. CASE document.kind = "EnclaveIdentity"
  <2>1. /\ a.isvSvn \in Int /\ a.tcbDate \in Int /\ b.isvSvn \in Int /\ b.tcbDate \in Int
    BY <1>2 DEF IsLevel
  <2>2. Numbers(a) = Numbers(b) <=> a.isvSvn = b.isvSvn /\ a.tcbDate = b.tcbDate
    BY <1>2 DEF Numbers
  <2>. QED BY <1>2, <2>1, <2>2 DEF LevelGreater, IdentityTcbLevelGreater
<1>. QED BY <1>1, <1>2

LEMMA LevelsAreOrdered ==
    ASSUME document.kind \in { "TcbInfo", "EnclaveIdentity" },
           NEW a, NEW b, NEW c, IsLevel(a), IsLevel(b), IsLevel(c),
           LevelGreater(a, b), LevelGreater(b, c)
    PROVE  LevelGreater(a, c)
<1>1. CASE document.kind = "TcbInfo"
  <2>1. /\ a.sgx \in SvnVector /\ a.tdx \in SvnVector /\ a.pceSvn \in Int
        /\ b.sgx \in SvnVector /\ b.tdx \in SvnVector /\ b.pceSvn \in Int
        /\ c.sgx \in SvnVector /\ c.tdx \in SvnVector /\ c.pceSvn \in Int
    BY <1>1 DEF IsLevel
  <2>2. /\ SvnsGreater(a.sgx, b.sgx) /\ SvnsGreater(b.sgx, c.sgx) => SvnsGreater(a.sgx, c.sgx)
        /\ SvnsGreater(a.tdx, b.tdx) /\ SvnsGreater(b.tdx, c.tdx) => SvnsGreater(a.tdx, c.tdx)
    BY <2>1, SvnVectorsAreOrdered
  <2>3. \A x, y : LevelGreater(x, y) <=>
          \/ SvnsGreater(x.sgx, y.sgx)
          \/ x.sgx = y.sgx /\ x.pceSvn > y.pceSvn
          \/ /\ Id(document) = "TDX"
             /\ x.sgx = y.sgx /\ x.pceSvn = y.pceSvn /\ SvnsGreater(x.tdx, y.tdx)
    BY <1>1 DEF LevelGreater, TcbLevelGreater
  <2>. QED BY <2>1, <2>2, <2>3
<1>2. CASE document.kind = "EnclaveIdentity"
  <2>1. /\ a.isvSvn \in Int /\ a.tcbDate \in Int /\ b.isvSvn \in Int /\ b.tcbDate \in Int
        /\ c.isvSvn \in Int /\ c.tcbDate \in Int
    BY <1>2 DEF IsLevel
  <2>. QED BY <1>2, <2>1 DEF LevelGreater, IdentityTcbLevelGreater
<1>. QED BY <1>1, <1>2

LEMMA ComponentsAreNumbers ==
    ASSUME NEW tcb, NEW components, HasJsonValues(tcb), AreTcbComponents(Field(tcb, components)),
           \A k \in DOMAIN Field(tcb, components).elements :
               HasJsonValues(Field(tcb, components).elements[k])
    PROVE  \A i \in SvnIndex : Field(Field(tcb, components).elements[i + 1], "svn").number \in Nat
<1> DEFINE elements == Field(tcb, components).elements
<1>1. Reads(Field(tcb, components), "array")
  BY DEF AreTcbComponents, Reads
<1>2. DOMAIN elements = 1 .. CPUSVN_BYTE_LEN
  BY <1>1, ArraysAreSequences DEF AreTcbComponents
<1>3. \A i \in SvnIndex : i + 1 \in DOMAIN elements
  BY <1>2, SvnLengthAssumption DEF SvnIndex
<1>4. \A k \in DOMAIN elements :
        HasJsonValues(elements[k]) /\ Reads(Field(elements[k], "svn"), "uint")
  BY DEF AreTcbComponents, IsTcbComponent
<1>5. \A k \in DOMAIN elements : Field(elements[k], "svn").number \in Nat
  BY <1>4, NumbersAreNatural
<1>. QED BY <1>3, <1>5

LEMMA TcbLevelIsRead ==
    ASSUME document.kind = "TcbInfo", IsJsonDocument(document), TcbInfoFieldsFit,
           ReadsAs("tcbLevels", "array"),
           NEW i \in DOMAIN JsonLevels(document), IsTcbLevel(JsonLevels(document)[i], document)
    PROVE  /\ IsLevel(Level(JsonLevels(document)[i]))
           /\ Numbers(Level(JsonLevels(document)[i])) = Mark(JsonLevels(document)[i], document)
           /\ SvnsAreBytes(SignedLevel(JsonLevels(document)[i], document)) =>
                 Level(JsonLevels(document)[i]) = SignedLevel(JsonLevels(document)[i], document)
<1> DEFINE v      == JsonLevels(document)[i]
           tcb    == Field(v, "tcb")
           signed == SignedLevel(v, document)
           sgx    == SvnsOf(document, tcb, "sgxtcbcomponents")
           tdx    == IF IsTdx(document) THEN SvnsOf(document, tcb, "tdxtcbcomponents")
                     ELSE [ j \in SvnIndex |-> 0 ]
           bytes(svns) == [ j \in SvnIndex |-> svns[j] % UINT8_COUNT ]
<1>1. Version(document) \in { 2, 3 }
  BY DEF TcbInfoFieldsFit, IsNumberOf, Version
<1>2. Version(document) = 2 => ~IsTdx(document)
  BY DEF IsTdx, Id, SGX_ID, TDX_ID
<1>3. /\ HasJsonValues(v) /\ HasJsonValues(tcb)
      /\ \A components \in { "sgxtcbcomponents", "tdxtcbcomponents" } :
            Reads(Field(tcb, components), "array") =>
               \A k \in DOMAIN Field(tcb, components).elements :
                  HasJsonValues(Field(tcb, components).elements[k])
  BY DEF IsJsonDocument, HaveJsonValues, ReadsAs, JsonLevels
<1>4. /\ Reads(Field(tcb, "pcesvn"), "uint")
      /\ Version(document) = 2 => \A j \in SvnIndex : Reads(Field(tcb, SvnName(j)), "uint")
      /\ Version(document) = 3 => AreTcbComponents(Field(tcb, "sgxtcbcomponents"))
      /\ IsTdx(document) => AreTcbComponents(Field(tcb, "tdxtcbcomponents"))
  BY DEF IsTcbLevel
<1>. HIDE DEF v, tcb
<1>5. Field(tcb, "pcesvn").number \in Nat
  BY <1>3, <1>4, NumbersAreNatural
<1>6. \A components \in { "sgxtcbcomponents", "tdxtcbcomponents" } :
        AreTcbComponents(Field(tcb, components)) =>
           \A j \in SvnIndex : Field(Field(tcb, components).elements[j + 1], "svn").number \in Nat
  <2>1. \A x : AreTcbComponents(x) => Reads(x, "array")
    BY DEF AreTcbComponents, Reads
  <2>. QED BY <1>3, <2>1, ComponentsAreNumbers
<1>7. sgx \in [ SvnIndex -> Nat ]
  <2>1. CASE Version(document) = 2
    <3>1. \A j \in SvnIndex : Field(tcb, SvnName(j)).number \in Nat
      BY <1>3, <1>4, <2>1, NumbersAreNatural
    <3>. QED BY <2>1, <3>1 DEF SvnsOf
  <2>2. CASE Version(document) = 3
    BY <1>4, <1>6, <2>2 DEF SvnsOf
  <2>. QED BY <1>1, <2>1, <2>2
<1>8. tdx \in [ SvnIndex -> Nat ]
  <2>1. CASE IsTdx(document)
    BY <1>1, <1>2, <1>4, <1>6, <2>1 DEF SvnsOf
  <2>2. CASE ~IsTdx(document)
    BY <2>2
  <2>. QED BY <2>1, <2>2
<1>9. signed = [ sgx |-> sgx, tdx |-> tdx, pceSvn |-> Field(tcb, "pcesvn").number,
                 tcbDate |-> Field(v, "tcbDate").time, status |-> Field(v, "tcbStatus").text ]
  BY DEF SignedLevel, tcb
<1>10. \A j \in SvnIndex : 0 % UINT8_COUNT = 0
  BY DEF UINT8_COUNT
<1>11. Level(v) = [ sgx |-> bytes(sgx), tdx |-> bytes(tdx), pceSvn |-> signed.pceSvn,
                    tcbDate |-> signed.tcbDate, status |-> signed.status ]
  <2>1. Level(v) = [ signed EXCEPT
                       !.sgx = Svns(document, tcb, "sgxtcbcomponents"),
                       !.tdx = IF IsTdx(document)
                               THEN Svns(document, tcb, "tdxtcbcomponents") ELSE @ ]
    BY DEF Level, TcbLevel, tcb
  <2>2. Svns(document, tcb, "sgxtcbcomponents") = bytes(sgx)
    BY DEF Svns
  <2>3. (IF IsTdx(document) THEN Svns(document, tcb, "tdxtcbcomponents") ELSE tdx) = bytes(tdx)
    <3>1. CASE IsTdx(document)
      BY <3>1 DEF Svns
    <3>2. CASE ~IsTdx(document)
      <4>1. \A j \in SvnIndex : bytes(tdx)[j] = 0
        BY <1>10, <3>2
      <4>. QED BY <3>2, <4>1
    <3>. QED BY <3>1, <3>2
  <2>. HIDE DEF signed, sgx, tdx, bytes
  <2>. QED BY <1>9, <2>1, <2>2, <2>3
<1>. HIDE DEF sgx, tdx
<1>12. bytes(sgx) \in SvnVector /\ bytes(tdx) \in SvnVector
  <2>1. \A n \in Nat : n % UINT8_COUNT \in 0 .. UINT8_COUNT - 1
    BY DEF UINT8_COUNT
  <2>2. \A j \in SvnIndex : sgx[j] \in Nat /\ tdx[j] \in Nat
    BY <1>7, <1>8
  <2>. QED BY <2>1, <2>2 DEF SvnVector
<1>13. ~IsTdx(document) => bytes(tdx) = [ j \in SvnIndex |-> 0 ]
  BY <1>10 DEF tdx
<1>14. Mark(v, document) = << bytes(sgx), bytes(tdx), signed.pceSvn >>
  BY <1>9 DEF Mark
<1>15. SvnsAreBytes(signed) => bytes(sgx) = sgx /\ bytes(tdx) = tdx
  <2>1. SUFFICES ASSUME SvnsAreBytes(signed)
                 PROVE  bytes(sgx) = sgx /\ bytes(tdx) = tdx
    OBVIOUS
  <2>2. \A j \in SvnIndex : sgx[j] \in 0 .. 255 /\ tdx[j] \in 0 .. 255
    BY <1>7, <1>8, <1>9, <2>1 DEF SvnsAreBytes, UINT8_COUNT
  <2>3. \A j \in SvnIndex : bytes(sgx)[j] = sgx[j] /\ bytes(tdx)[j] = tdx[j]
    BY <2>2 DEF UINT8_COUNT
  <2>. QED BY <1>7, <1>8, <2>3
<1>. HIDE DEF bytes, signed
<1>16. IsLevel(Level(v))
  BY <1>5, <1>9, <1>11, <1>12, <1>13 DEF IsLevel
<1>17. Numbers(Level(v)) = Mark(v, document)
  BY <1>11, <1>14 DEF Numbers
<1>18. SvnsAreBytes(signed) => Level(v) = signed
  BY <1>9, <1>11, <1>15
<1>. QED BY <1>16, <1>17, <1>18 DEF v, signed

LEMMA IdentityLevelIsRead ==
    ASSUME document.kind = "EnclaveIdentity", IsJsonDocument(document),
           ReadsAs("tcbLevels", "array"),
           NEW i \in DOMAIN JsonLevels(document), IsIdentityLevel(JsonLevels(document)[i])
    PROVE  /\ IsLevel(Level(JsonLevels(document)[i]))
           /\ Numbers(Level(JsonLevels(document)[i])) = Mark(JsonLevels(document)[i], document)
           /\ Level(JsonLevels(document)[i]) = SignedLevel(JsonLevels(document)[i], document)
<1> DEFINE v   == JsonLevels(document)[i]
           tcb == Field(v, "tcb")
<1>1. HasJsonValues(v) /\ HasJsonValues(tcb)
  BY DEF IsJsonDocument, HaveJsonValues, ReadsAs, JsonLevels
<1>2. Reads(Field(tcb, "isvsvn"), "uint") /\ Reads(Field(v, "tcbDate"), "date")
  BY DEF IsIdentityLevel, HasLevelFields
<1>3. Level(v) = SignedLevel(v, document)
  BY DEF Level
<1>4. SignedLevel(v, document) =
        [ isvSvn |-> Field(tcb, "isvsvn").number,
          tcbDate |-> Field(v, "tcbDate").time, status |-> Field(v, "tcbStatus").text ]
  BY DEF SignedLevel
<1>. HIDE DEF v, tcb
<1>5. Field(tcb, "isvsvn").number \in Nat /\ Field(v, "tcbDate").time \in Int
  BY <1>1, <1>2, NumbersAreNatural, DatesAreTimes
<1>6. IsLevel(Level(v)) /\ Numbers(Level(v)) = Mark(v, document)
  BY <1>3, <1>4, <1>5 DEF IsLevel, Numbers, Mark
<1>. QED BY <1>3, <1>6 DEF v

\* What is kept of a level that fits: its numbers, and nothing but them decides
\* whether it is a duplicate.
LEMMA LevelIsRead ==
    ASSUME document \in Documents, FieldsFit, ReadsAs("tcbLevels", "array"),
           NEW i \in DOMAIN JsonLevels(document), LevelFits(JsonLevels(document)[i])
    PROVE  /\ IsLevel(Level(JsonLevels(document)[i]))
           /\ Numbers(Level(JsonLevels(document)[i])) = Mark(JsonLevels(document)[i], document)
           /\ SvnsAreBytes(SignedLevel(JsonLevels(document)[i], document)) =>
                 Level(JsonLevels(document)[i]) = SignedLevel(JsonLevels(document)[i], document)
<1>1. IsJsonDocument(document) /\ document.kind \in { "TcbInfo", "EnclaveIdentity" }
  BY DocumentsAssumption DEF IsJsonDocument
<1>2. CASE document.kind = "TcbInfo"
  BY <1>1, <1>2, TcbLevelIsRead DEF FieldsFit, LevelFits
<1>3. CASE document.kind = "EnclaveIdentity"
  BY <1>1, <1>3, IdentityLevelIsRead DEF LevelFits
<1>. QED BY <1>1, <1>2, <1>3

(***************************************************************************)
(* The inductive invariant: what was read so far fits, and all of it was   *)
(* kept; what is refused does not fit.                                     *)
(***************************************************************************)
FittingIdentities ==
    { ModuleIdentity(JsonModuleIdentities[i]) :
        i \in { k \in DOMAIN JsonModuleIdentities : IsModuleIdentity(JsonModuleIdentities[k]) } }

Types ==
    /\ document \in Documents
    /\ pc \in Parts \union Decided
    /\ exception \in Exceptions \union { None }
    /\ pc = "refused" <=> exception # None
    /\ next \in Nat \ {0}

StagesFit ==
    /\ pc \notin { "envelope", "refused" } => EnvelopeFits
    /\ pc \notin { "envelope", "fields", "refused" } => FieldsFit
    /\ pc \in { "tdxPart", "moduleIdentities" } => document.kind = "TcbInfo"
    /\ pc \in { "moduleIdentities", "levelsArray", "levels", "accepted" } =>
          (document.kind = "TcbInfo" => TdxPartIsThere)
    /\ pc \in { "levelsArray", "levels", "accepted" } =>
          (document.kind = "TcbInfo" => ModuleIdentitiesFit)
    /\ pc \in { "levels", "accepted" } => ReadsAs("tcbLevels", "array")

IdentitiesRead(n) ==
    /\ n <= Len(JsonModuleIdentities)
    /\ Len(moduleIdentities) = n
    /\ \A i \in 1 .. n : IsModuleIdentity(JsonModuleIdentities[i])

IdentitiesInv ==
    /\ moduleIdentities \in Seq(FittingIdentities)
    /\ pc \in { "envelope", "fields", "tdxPart" } => moduleIdentities = <<>>
    /\ pc = "moduleIdentities" => HasModuleIdentities /\ IdentitiesRead(next - 1)

LevelsRead(n) ==
    /\ n <= Len(JsonLevels(document))
    /\ levels = { Level(JsonLevels(document)[i]) : i \in 1 .. n }
    /\ IsFiniteSet(levels) /\ Cardinality(levels) = n
    /\ \A i \in 1 .. n : LevelFits(JsonLevels(document)[i])
    /\ \A i, j \in 1 .. n :
          i # j => Mark(JsonLevels(document)[i], document) # Mark(JsonLevels(document)[j], document)

LevelsInv ==
    /\ \A l \in levels : IsLevel(l)
    /\ pc \in { "envelope", "fields", "tdxPart", "moduleIdentities", "levelsArray" } => levels = {}
    /\ pc = "levels" => LevelsRead(next - 1)
    /\ pc = "accepted" => /\ LevelsRead(Len(JsonLevels(document))) /\ levels # {}
                          /\ document.nesting <= MAX_JSON_DEPTH

VerdictInv ==
    /\ pc = "refused" => ~WellFormed(document)
    /\ pc \in Decided => (exception = BadVersion <=> OfNewerVersion)

IInv == Types /\ StagesFit /\ IdentitiesInv /\ LevelsInv /\ VerdictInv

(***************************************************************************)
(* Facts the steps need.                                                   *)
(***************************************************************************)
LEMMA DocumentIsJson ==
    ASSUME document \in Documents
    PROVE  IsJsonDocument(document) /\ document.kind \in { "TcbInfo", "EnclaveIdentity" }
BY DocumentsAssumption DEF IsJsonDocument

LEMMA LevelsAreASequence ==
    ASSUME document \in Documents, ReadsAs("tcbLevels", "array")
    PROVE  /\ Len(JsonLevels(document)) \in Nat
           /\ DOMAIN JsonLevels(document) = 1 .. Len(JsonLevels(document))
           /\ JsonLevels(document) = <<>> <=> Len(JsonLevels(document)) = 0
<1>1. HasJsonValues(Body(document))
  BY DocumentIsJson DEF IsJsonDocument
<1>. QED BY <1>1, ArraysAreSequences DEF ReadsAs, JsonLevels

LEMMA IdentitiesAreASequence ==
    ASSUME document \in Documents, TdxPartIsThere, HasModuleIdentities
    PROVE  /\ Len(JsonModuleIdentities) \in Nat
           /\ DOMAIN JsonModuleIdentities = 1 .. Len(JsonModuleIdentities)
           /\ JsonModuleIdentities = <<>> <=> Len(JsonModuleIdentities) = 0
<1>1. HasJsonValues(Body(document))
  BY DocumentIsJson DEF IsJsonDocument
<1>2. Reads(Field(Body(document), "tdxModuleIdentities"), "array")
  BY DEF TdxPartIsThere, HasModuleIdentities, OptionalOf
<1>. QED BY <1>1, <1>2, ArraysAreSequences DEF JsonModuleIdentities

LEMMA ReadVersionIsNumber ==
    ASSUME ReadsAs("version", "uint")
    PROVE  IsVersion(2) <=> Version(document) = 2
BY DEF ReadsAs, Reads, HexDigits, IsVersion, IsNumberOf, Version

\* A document whose fields fit is of a version the parser knows.
LEMMA FittingIsNotNewer ==
    ASSUME FieldsFit
    PROVE  ~OfNewerVersion
<1>1. CASE document.kind = "EnclaveIdentity"
  BY <1>1, ReadVersionIsNumber DEF FieldsFit, EnclaveIdentityFieldsFit, VersionFits, OfNewerVersion
<1>. QED BY <1>1 DEF OfNewerVersion

LEMMA NewerHasEnvelope ==
    ASSUME OfNewerVersion
    PROVE  EnvelopeFits
<1>1. Reads(Field(Body(document), "id"), "string")
  BY TextsAreStrings DEF OfNewerVersion
<1>2. Body(document).type = "object"
  BY <1>1, OnlyObjectsHaveFields
<1>. QED BY <1>2 DEF EnvelopeFits, OfNewerVersion, Reads

\* Everything that is said of the document stays true of it.
LEMMA DocumentStays ==
    ASSUME document' = document
    PROVE  /\ EnvelopeFits' <=> EnvelopeFits
           /\ FieldsFit' <=> FieldsFit
           /\ TdxPartIsThere' <=> TdxPartIsThere
           /\ HasModuleIdentities' <=> HasModuleIdentities
           /\ ModuleIdentitiesFit' <=> ModuleIdentitiesFit
           /\ JsonModuleIdentities' = JsonModuleIdentities
           /\ FittingIdentities' = FittingIdentities
           /\ ReadsAs("tcbLevels", "array")' <=> ReadsAs("tcbLevels", "array")
           /\ OfNewerVersion' <=> OfNewerVersion
           /\ \A v : LevelFits(v)' <=> LevelFits(v)
           /\ \A v : Level(v)' = Level(v)
           /\ \A l : IsLevel(l)' <=> IsLevel(l)
<1>1. EnvelopeFits' <=> EnvelopeFits
  BY DEF EnvelopeFits
<1>2. \A field, kind : ReadsAs(field, kind)' <=> ReadsAs(field, kind)
  BY DEF ReadsAs
<1>3. \A n : IsVersion(n)' <=> IsVersion(n)
  BY DEF IsVersion
<1>4. SignatureFits' <=> SignatureFits
  BY DEF SignatureFits
<1>5. TcbInfoFieldsFit' <=> TcbInfoFieldsFit
  BY <1>2, <1>3, <1>4 DEF TcbInfoFieldsFit
<1>6. EnclaveIdentityFieldsFit' <=> EnclaveIdentityFieldsFit
  BY <1>2, <1>3, <1>4 DEF EnclaveIdentityFieldsFit, IdFits, VersionFits, ContentFits
<1>7. FieldsFit' <=> FieldsFit
  BY <1>5, <1>6 DEF FieldsFit
<1>8. TdxPartIsThere' <=> TdxPartIsThere
  BY <1>3 DEF TdxPartIsThere
<1>9. HasModuleIdentities' <=> HasModuleIdentities
  BY DEF HasModuleIdentities
<1>10. JsonModuleIdentities' = JsonModuleIdentities
  BY DEF JsonModuleIdentities
<1>11. FittingIdentities' = FittingIdentities
  BY <1>10 DEF FittingIdentities
<1>12. ModuleIdentitiesFit' <=> ModuleIdentitiesFit
  BY <1>9, <1>10 DEF ModuleIdentitiesFit
<1>13. OfNewerVersion' <=> OfNewerVersion
  BY DEF OfNewerVersion
<1>14. \A v : LevelFits(v)' <=> LevelFits(v)
  BY DEF LevelFits
<1>15. \A v : Level(v)' = Level(v)
  BY DEF Level, TcbLevel
<1>16. \A l : IsLevel(l)' <=> IsLevel(l)
  BY DEF IsLevel, SvnVector
<1>. QED BY <1>1, <1>2, <1>7, <1>8, <1>9, <1>10, <1>11, <1>12, <1>13, <1>14, <1>15, <1>16

LEMMA LevelsStayRead ==
    ASSUME document' = document, levels' = levels, NEW n
    PROVE  LevelsRead(n)' <=> LevelsRead(n)
<1>1. { Level(JsonLevels(document)[i])' : i \in 1 .. n }
      = { Level(JsonLevels(document)[i]) : i \in 1 .. n }
  BY DocumentStays
<1>2. \A v : LevelFits(v)' <=> LevelFits(v)
  BY DocumentStays
<1>. QED BY <1>1, <1>2 DEF LevelsRead

LEMMA InitIInv == Init => IInv
<1>. SUFFICES ASSUME Init PROVE IInv
  OBVIOUS
<1>1. Types
  BY DEF Init, Types, Parts, Exceptions
<1>2. moduleIdentities \in Seq(FittingIdentities)
  BY DEF Init
<1>. QED BY <1>1, <1>2 DEF Init, IInv, StagesFit, IdentitiesInv, LevelsInv, VerdictInv, Decided

(***************************************************************************)
(* The steps.                                                              *)
(***************************************************************************)

\* A step that refuses a document that is not well formed, with the exception it deserves.
LEMMA Refusal ==
    ASSUME IInv, NEW thrown \in Exceptions, Throw(thrown),
           ~WellFormed(document), thrown = BadVersion <=> OfNewerVersion
    PROVE  IInv'
<1>1. /\ pc' = "refused" /\ exception' = thrown
      /\ document' = document /\ next' = next
      /\ levels' = levels /\ moduleIdentities' = moduleIdentities
  BY DEF Throw
<1>2. None \notin Exceptions
  BY DEF None, Exceptions, Format, Extension, BadVersion
<1>3. Types'
  BY <1>1, <1>2 DEF IInv, Types, Parts, Decided
<1>4. StagesFit'
  BY <1>1 DEF StagesFit
<1>5. IdentitiesInv'
  BY <1>1, DocumentStays DEF IInv, IdentitiesInv
<1>6. LevelsInv'
  BY <1>1, DocumentStays DEF IInv, LevelsInv
<1>7. VerdictInv'
  BY <1>1, DocumentStays DEF VerdictInv
<1>. QED BY <1>3, <1>4, <1>5, <1>6, <1>7 DEF IInv

\* A check that fails throws one of the parser's exceptions.
LEMMA Failures ==
    ASSUME NEW checks, IsOrdinary(checks), ~Passes(checks)
    PROVE  FirstFailure(checks) \in Exceptions /\ FirstFailure(checks) # BadVersion
BY FirstFailureKinds DEF IsOrdinary, Passes

LEMMA ReadEnvelopeStep ==
    ASSUME IInv, ReadEnvelope
    PROVE  IInv'
<1> DEFINE failure == FirstFailure(EnvelopeChecks)
<1>1. pc = "envelope"
  BY DEF ReadEnvelope, Pass
<1>2. CASE failure = None
  <2>1. /\ pc' = "fields" /\ next' = 1 /\ document' = document /\ exception' = exception
        /\ levels' = levels /\ moduleIdentities' = moduleIdentities
    BY <1>2 DEF ReadEnvelope, Pass, Goto
  <2>2. EnvelopeFits'
    BY <1>2, <2>1, EnvelopePasses, DocumentStays DEF Passes
  <2>3. Types'
    BY <1>1, <2>1 DEF IInv, Types, Parts
  <2>4. StagesFit'
    BY <2>1, <2>2 DEF StagesFit
  <2>5. IdentitiesInv'
    BY <1>1, <2>1, DocumentStays DEF IInv, IdentitiesInv
  <2>6. LevelsInv' /\ VerdictInv'
    BY <1>1, <2>1 DEF IInv, LevelsInv, VerdictInv, Decided
  <2>. QED BY <2>3, <2>4, <2>5, <2>6 DEF IInv
<1>3. CASE failure # None
  <2>1. Throw(failure)
    BY <1>3 DEF ReadEnvelope, Pass
  <2>2. ~EnvelopeFits
    BY <1>3, EnvelopePasses DEF Passes
  <2>3. failure \in Exceptions /\ failure # BadVersion
    BY <1>3, EnvelopePasses, Failures DEF Passes
  <2>4. ~OfNewerVersion
    BY <2>2, NewerHasEnvelope
  <2>5. ~WellFormed(document)
    BY <2>2, DocumentIsJson, FormatByStages DEF IInv, Types
  <2>. QED BY <2>1, <2>3, <2>4, <2>5, Refusal
<1>. QED BY <1>2, <1>3

LEMMA ReadTcbInfoStep ==
    ASSUME IInv, ReadTcbInfo
    PROVE  IInv'
<1> DEFINE failure == FirstFailure(TcbInfoChecks)
<1>1. pc = "fields" /\ document.kind = "TcbInfo"
  BY DEF ReadTcbInfo, Pass
<1>2. CASE failure = None
  <2>1. /\ pc' = "tdxPart" /\ next' = 1 /\ document' = document /\ exception' = exception
        /\ levels' = levels /\ moduleIdentities' = moduleIdentities
    BY <1>2 DEF ReadTcbInfo, Pass, Goto
  <2>2. FieldsFit' /\ EnvelopeFits'
    BY <1>1, <1>2, <2>1, TcbInfoPasses, DocumentStays DEF Passes, FieldsFit, IInv, StagesFit
  <2>3. Types'
    BY <1>1, <2>1 DEF IInv, Types, Parts
  <2>4. StagesFit'
    BY <1>1, <2>1, <2>2 DEF StagesFit
  <2>5. IdentitiesInv'
    BY <1>1, <2>1, DocumentStays DEF IInv, IdentitiesInv
  <2>6. LevelsInv' /\ VerdictInv'
    BY <1>1, <2>1 DEF IInv, LevelsInv, VerdictInv, Decided
  <2>. QED BY <2>3, <2>4, <2>5, <2>6 DEF IInv
<1>3. CASE failure # None
  <2>1. Throw(failure)
    BY <1>3 DEF ReadTcbInfo, Pass
  <2>2. ~FieldsFit
    BY <1>1, <1>3, TcbInfoPasses DEF Passes, FieldsFit
  <2>3. failure \in Exceptions /\ failure # BadVersion
    BY <1>3, TcbInfoPasses, Failures DEF Passes
  <2>4. ~OfNewerVersion
    BY <1>1 DEF OfNewerVersion
  <2>5. ~WellFormed(document)
    BY <2>2, DocumentIsJson, FormatByStages DEF IInv, Types
  <2>. QED BY <2>1, <2>3, <2>4, <2>5, Refusal
<1>. QED BY <1>2, <1>3

LEMMA ReadEnclaveIdentityStep ==
    ASSUME IInv, ReadEnclaveIdentity
    PROVE  IInv'
<1> DEFINE failure == FirstFailure(EnclaveIdentityChecks)
<1>1. pc = "fields" /\ document.kind = "EnclaveIdentity"
  BY DEF ReadEnclaveIdentity, Pass
<1>2. CASE failure = None
  <2>1. /\ pc' = "levelsArray" /\ next' = 1 /\ document' = document /\ exception' = exception
        /\ levels' = levels /\ moduleIdentities' = moduleIdentities
    BY <1>2 DEF ReadEnclaveIdentity, Pass, Goto
  <2>2. FieldsFit' /\ EnvelopeFits'
    BY <1>1, <1>2, <2>1, EnclaveIdentityPasses, DocumentStays
       DEF Passes, FieldsFit, IInv, StagesFit
  <2>3. Types'
    BY <1>1, <2>1 DEF IInv, Types, Parts
  <2>4. StagesFit'
    BY <1>1, <2>1, <2>2 DEF StagesFit
  <2>5. IdentitiesInv'
    BY <1>1, <2>1, DocumentStays DEF IInv, IdentitiesInv
  <2>6. LevelsInv' /\ VerdictInv'
    BY <1>1, <2>1 DEF IInv, LevelsInv, VerdictInv, Decided
  <2>. QED BY <2>3, <2>4, <2>5, <2>6 DEF IInv
<1>3. CASE failure # None
  <2>1. Throw(failure)
    BY <1>3 DEF ReadEnclaveIdentity, Pass
  <2>2. ~FieldsFit
    BY <1>1, <1>3, EnclaveIdentityPasses DEF Passes, FieldsFit
  <2>3. failure \in Exceptions
    BY <1>3, EnclaveIdentityPasses, FirstFailureKinds
  <2>4. failure = BadVersion <=> OfNewerVersion
    <3>1. Has(document.root, "signature")
      BY <1>1 DEF IInv, StagesFit, EnvelopeFits
    <3>2. OfNewerVersion <=> IdFits /\ ReadsAs("version", "uint") /\ Version(document) # 2
      BY <1>1, <3>1 DEF OfNewerVersion, IdFits, ReadsAs
    <3>. QED BY <3>2, EnclaveIdentityPasses, ReadVersionIsNumber
  <2>5. ~WellFormed(document)
    BY <2>2, DocumentIsJson, FormatByStages DEF IInv, Types
  <2>. QED BY <2>1, <2>3, <2>4, <2>5, Refusal
<1>. QED BY <1>2, <1>3

LEMMA ReadTdxPartStep ==
    ASSUME IInv, ReadTdxPart
    PROVE  IInv'
<1> DEFINE failure == FirstFailure(TdxPartChecks)
<1>1. /\ pc = "tdxPart" /\ document.kind = "TcbInfo"
      /\ EnvelopeFits /\ FieldsFit
  BY DEF ReadTdxPart, Pass, IInv, StagesFit
<1>2. CASE failure = None
  <2> DEFINE then == IF HasModuleIdentities THEN "moduleIdentities" ELSE "levelsArray"
  <2>1. /\ pc' = then /\ next' = 1 /\ document' = document /\ exception' = exception
        /\ levels' = levels /\ moduleIdentities' = moduleIdentities
    BY <1>2 DEF ReadTdxPart, Pass, Goto
  <2>2. TdxPartIsThere
    BY <1>2, TdxPartPasses DEF Passes
  <2>3. Types'
    BY <1>1, <2>1 DEF IInv, Types, Parts
  <2>4. FieldsFit' /\ EnvelopeFits' /\ TdxPartIsThere' /\ document'.kind = "TcbInfo"
    BY <1>1, <2>1, <2>2, DocumentStays
  <2>5. pc' = "levelsArray" => ModuleIdentitiesFit'
    BY <2>1, DocumentStays DEF ModuleIdentitiesFit
  <2>6. StagesFit'
    BY <2>1, <2>4, <2>5 DEF StagesFit
  <2>7. IdentitiesInv'
    <3>1. moduleIdentities = <<>> /\ moduleIdentities' \in Seq(FittingIdentities')
      BY <1>1, <2>1, DocumentStays DEF IInv, IdentitiesInv
    <3>2. ASSUME HasModuleIdentities
          PROVE  HasModuleIdentities' /\ IdentitiesRead(0)'
      <4>1. Len(JsonModuleIdentities) \in Nat
        BY <2>2, <3>2, IdentitiesAreASequence DEF IInv, Types
      <4>2. IdentitiesRead(0)
        BY <3>1, <4>1 DEF IdentitiesRead
      <4>. QED BY <2>1, <3>2, <4>2, DocumentStays DEF IdentitiesRead
    <3>3. next' - 1 = 0
      BY <2>1
    <3>. QED BY <2>1, <3>1, <3>2, <3>3 DEF IdentitiesInv
  <2>8. LevelsInv' /\ VerdictInv'
    BY <1>1, <2>1 DEF IInv, LevelsInv, VerdictInv, Decided
  <2>. QED BY <2>3, <2>6, <2>7, <2>8 DEF IInv
<1>3. CASE failure # None
  <2>1. Throw(failure)
    BY <1>3 DEF ReadTdxPart, Pass
  <2>2. ~TdxPartIsThere
    BY <1>3, TdxPartPasses DEF Passes
  <2>3. failure \in Exceptions /\ failure # BadVersion
    BY <1>3, TdxPartPasses, Failures DEF Passes
  <2>4. ~OfNewerVersion
    BY <1>1 DEF OfNewerVersion
  <2>5. ~WellFormed(document)
    BY <1>1, <2>2, DocumentIsJson, FormatByStages DEF IInv, Types
  <2>. QED BY <2>1, <2>3, <2>4, <2>5, Refusal
<1>. QED BY <1>2, <1>3

LEMMA ReadModuleIdentityStep ==
    ASSUME IInv, ReadModuleIdentity
    PROVE  IInv'
<1> DEFINE element == JsonModuleIdentities[next]
<1>1. /\ pc = "moduleIdentities" /\ document.kind = "TcbInfo"
      /\ EnvelopeFits /\ FieldsFit /\ TdxPartIsThere /\ HasModuleIdentities
      /\ IdentitiesRead(next - 1) /\ next \in Nat \ {0} /\ document \in Documents
  BY DEF ReadModuleIdentity, IInv, StagesFit, IdentitiesInv, Types
<1>2. /\ Len(JsonModuleIdentities) \in Nat
      /\ DOMAIN JsonModuleIdentities = 1 .. Len(JsonModuleIdentities)
  BY <1>1, IdentitiesAreASequence
<1>3. next \in DOMAIN JsonModuleIdentities
  BY DEF ReadModuleIdentity, JsonModuleIdentities
<1>4. CASE IsModuleIdentity(element)
  <2>1. /\ moduleIdentities' = Append(moduleIdentities, ModuleIdentity(element))
        /\ next' = next + 1 /\ pc' = pc /\ document' = document /\ exception' = exception
        /\ levels' = levels
    BY <1>4 DEF ReadModuleIdentity, JsonModuleIdentities
  <2>2. Types' /\ StagesFit' /\ LevelsInv' /\ VerdictInv'
    BY <1>1, <2>1, DocumentStays DEF IInv, Types, StagesFit, LevelsInv, VerdictInv, Decided
  <2>3. moduleIdentities \in Seq(FittingIdentities)
    BY DEF IInv, IdentitiesInv
  <2>4. ModuleIdentity(element) \in FittingIdentities
    BY <1>3, <1>4 DEF FittingIdentities
  <2>5. /\ moduleIdentities' \in Seq(FittingIdentities)
        /\ Len(moduleIdentities') = Len(moduleIdentities) + 1
    BY <2>1, <2>3, <2>4
  <2>6. \A i \in 1 .. next : IsModuleIdentity(JsonModuleIdentities[i])
    <3>1. \A i \in 1 .. next : i \in 1 .. next - 1 \/ i = next
      BY <1>1
    <3>. QED BY <1>1, <1>4, <3>1 DEF IdentitiesRead
  <2>7. IdentitiesRead(next - 1)'
    <3>1. /\ next' - 1 = next
          /\ Len(moduleIdentities') = next /\ next <= Len(JsonModuleIdentities)
      BY <1>1, <1>2, <1>3, <2>1, <2>5 DEF IdentitiesRead
    <3>2. JsonModuleIdentities' = JsonModuleIdentities
      BY <2>1, DocumentStays
    <3>. QED BY <2>6, <3>1, <3>2 DEF IdentitiesRead
  <2>8. IdentitiesInv'
    BY <1>1, <2>1, <2>5, <2>7, DocumentStays DEF IdentitiesInv
  <2>. QED BY <2>2, <2>8 DEF IInv
<1>5. CASE ~IsModuleIdentity(element)
  <2>1. Throw(Format)
    BY <1>5 DEF ReadModuleIdentity, JsonModuleIdentities
  <2>2. Format \in Exceptions /\ Format # BadVersion
    BY DEF Exceptions, Format, BadVersion
  <2>3. ~OfNewerVersion
    BY <1>1 DEF OfNewerVersion
  <2>4. ~ModuleIdentitiesFit
    BY <1>1, <1>3, <1>5 DEF ModuleIdentitiesFit
  <2>5. ~WellFormed(document)
    BY <1>1, <2>4, DocumentIsJson, FormatByStages
  <2>. QED BY <2>1, <2>2, <2>3, <2>5, Refusal
<1>. QED BY <1>4, <1>5

LEMMA EndModuleIdentitiesStep ==
    ASSUME IInv, EndModuleIdentities
    PROVE  IInv'
<1> DEFINE check   == Check(moduleIdentities # <<>>, Extension)
           failure == FirstFailure(check)
<1>1. /\ pc = "moduleIdentities" /\ document.kind = "TcbInfo"
      /\ EnvelopeFits /\ FieldsFit /\ TdxPartIsThere /\ HasModuleIdentities
      /\ IdentitiesRead(next - 1) /\ next \in Nat \ {0} /\ document \in Documents
  BY DEF EndModuleIdentities, IInv, StagesFit, IdentitiesInv, Types
<1>2. /\ Len(JsonModuleIdentities) \in Nat
      /\ DOMAIN JsonModuleIdentities = 1 .. Len(JsonModuleIdentities)
      /\ JsonModuleIdentities = <<>> <=> Len(JsonModuleIdentities) = 0
  BY <1>1, IdentitiesAreASequence
<1>3. next \notin DOMAIN JsonModuleIdentities
  BY DEF EndModuleIdentities, JsonModuleIdentities
<1>4. next - 1 = Len(JsonModuleIdentities)
  BY <1>1, <1>2, <1>3 DEF IdentitiesRead
<1>5. moduleIdentities # <<>> <=> JsonModuleIdentities # <<>>
  <2>1. moduleIdentities \in Seq(FittingIdentities)
    BY DEF IInv, IdentitiesInv
  <2>2. moduleIdentities = <<>> <=> Len(moduleIdentities) = 0
    BY <2>1
  <2>. QED BY <1>1, <1>2, <1>4, <2>2 DEF IdentitiesRead
<1>6. IsOrdinary(check) /\ (Passes(check) <=> moduleIdentities # <<>>)
  BY OrdinaryExceptions, CheckPasses
<1>7. Pass("moduleIdentities", check, "levelsArray")
  BY DEF EndModuleIdentities
<1>. HIDE DEF check
<1>8. CASE failure = None
  <2>1. /\ pc' = "levelsArray" /\ next' = 1 /\ document' = document /\ exception' = exception
        /\ levels' = levels /\ moduleIdentities' = moduleIdentities
    BY <1>7, <1>8 DEF Pass, Goto
  <2>2. ModuleIdentitiesFit
    BY <1>1, <1>2, <1>4, <1>5, <1>6, <1>8 DEF Passes, ModuleIdentitiesFit, IdentitiesRead
  <2>3. /\ FieldsFit' /\ EnvelopeFits' /\ TdxPartIsThere' /\ ModuleIdentitiesFit'
        /\ document'.kind = "TcbInfo"
    BY <1>1, <2>1, <2>2, DocumentStays
  <2>4. Types'
    BY <1>1, <2>1 DEF IInv, Types, Parts
  <2>5. StagesFit'
    BY <2>1, <2>3 DEF StagesFit
  <2>6. IdentitiesInv'
    BY <2>1, DocumentStays DEF IInv, IdentitiesInv
  <2>7. LevelsInv' /\ VerdictInv'
    BY <1>1, <2>1 DEF IInv, LevelsInv, VerdictInv, Decided
  <2>. QED BY <2>4, <2>5, <2>6, <2>7 DEF IInv
<1>9. CASE failure # None
  <2>1. Throw(failure)
    BY <1>7, <1>9 DEF Pass
  <2>2. failure \in Exceptions /\ failure # BadVersion
    BY <1>6, <1>9, Failures DEF Passes
  <2>3. ~ModuleIdentitiesFit
    BY <1>1, <1>5, <1>6, <1>9 DEF Passes, ModuleIdentitiesFit
  <2>4. ~OfNewerVersion
    BY <1>1 DEF OfNewerVersion
  <2>5. ~WellFormed(document)
    BY <1>1, <2>3, DocumentIsJson, FormatByStages
  <2>. QED BY <2>1, <2>2, <2>4, <2>5, Refusal
<1>. QED BY <1>8, <1>9

LEMMA ReadLevelsArrayStep ==
    ASSUME IInv, ReadLevelsArray
    PROVE  IInv'
<1> DEFINE check   == Check(Reads(Field(Body(document), "tcbLevels"), "array"), Extension)
           failure == FirstFailure(check)
<1>1. /\ pc = "levelsArray" /\ EnvelopeFits /\ FieldsFit /\ levels = {} /\ document \in Documents
      /\ document.kind = "TcbInfo" => TdxPartIsThere /\ ModuleIdentitiesFit
  BY DEF ReadLevelsArray, Pass, IInv, StagesFit, LevelsInv, Types
<1>2. IsOrdinary(check) /\ (Passes(check) <=> ReadsAs("tcbLevels", "array"))
  <2>1. ReadsAs("tcbLevels", "array") \in BOOLEAN
    BY DEF ReadsAs, Reads
  <2>. QED BY <2>1, OrdinaryExceptions, CheckPasses DEF ReadsAs
<1>3. Pass("levelsArray", check, "levels")
  BY DEF ReadLevelsArray
<1>. HIDE DEF check
<1>4. CASE failure = None
  <2>1. /\ pc' = "levels" /\ next' = 1 /\ document' = document /\ exception' = exception
        /\ levels' = levels /\ moduleIdentities' = moduleIdentities
    BY <1>3, <1>4 DEF Pass, Goto
  <2>2. ReadsAs("tcbLevels", "array")
    BY <1>2, <1>4 DEF Passes
  <2>3. /\ FieldsFit' /\ EnvelopeFits' /\ ReadsAs("tcbLevels", "array")'
        /\ document'.kind = "TcbInfo" => TdxPartIsThere' /\ ModuleIdentitiesFit'
    BY <1>1, <2>1, <2>2, DocumentStays
  <2>4. Types'
    BY <1>1, <2>1 DEF IInv, Types, Parts
  <2>5. StagesFit'
    BY <2>1, <2>3 DEF StagesFit
  <2>6. IdentitiesInv'
    BY <2>1, DocumentStays DEF IInv, IdentitiesInv
  <2>7. LevelsInv'
    <3>1. Len(JsonLevels(document)) \in Nat
      BY <1>1, <2>2, LevelsAreASequence
    <3>2. levels' = {} /\ next' - 1 = 0 /\ document' = document
      BY <1>1, <2>1
    <3>3. IsFiniteSet({}) /\ Cardinality({}) = 0
      BY FS_EmptySet
    <3>4. LevelsRead(next - 1)'
      BY <3>1, <3>2, <3>3 DEF LevelsRead
    <3>. QED BY <2>1, <3>2, <3>4 DEF LevelsInv
  <2>8. VerdictInv'
    BY <2>1 DEF VerdictInv, Decided
  <2>. QED BY <2>4, <2>5, <2>6, <2>7, <2>8 DEF IInv
<1>5. CASE failure # None
  <2>1. Throw(failure)
    BY <1>3, <1>5 DEF Pass
  <2>2. failure \in Exceptions /\ failure # BadVersion
    BY <1>2, <1>5, Failures DEF Passes
  <2>3. ~OfNewerVersion
    BY <1>1, FittingIsNotNewer
  <2>4. ~WellFormed(document)
    BY <1>1, <1>2, <1>5, DocumentIsJson, FormatByStages DEF Passes
  <2>. QED BY <2>1, <2>2, <2>3, <2>4, Refusal
<1>. QED BY <1>4, <1>5

LEMMA LevelPasses ==
    ASSUME document \in Documents, FieldsFit, NEW v
    PROVE  IsOrdinary(LevelChecks(v)) /\ (Passes(LevelChecks(v)) <=> LevelFits(v))
<1>1. CASE document.kind = "TcbInfo"
  BY <1>1, TcbLevelPasses DEF FieldsFit, LevelChecks, LevelFits
<1>2. CASE document.kind = "EnclaveIdentity"
  BY <1>2, IdentityLevelPasses DEF LevelChecks, LevelFits
<1>. QED BY <1>1, <1>2, DocumentIsJson

\* A level is put into the set exactly if no level before it has its mark.
LEMMA InsertableIsNew ==
    ASSUME document \in Documents, FieldsFit, ReadsAs("tcbLevels", "array"),
           NEW n \in DOMAIN JsonLevels(document), LevelsRead(n - 1),
           LevelFits(JsonLevels(document)[n])
    PROVE  Insertable(Level(JsonLevels(document)[n])) <=>
              \A i \in 1 .. n - 1 :
                 Mark(JsonLevels(document)[i], document) # Mark(JsonLevels(document)[n], document)
<1> DEFINE level(i) == Level(JsonLevels(document)[i])
           mark(i)  == Mark(JsonLevels(document)[i], document)
<1>1. /\ Len(JsonLevels(document)) \in Nat
      /\ DOMAIN JsonLevels(document) = 1 .. Len(JsonLevels(document))
  BY LevelsAreASequence
<1>2. \A i \in 1 .. n : i \in DOMAIN JsonLevels(document) /\ LevelFits(JsonLevels(document)[i])
  <2>1. \A i \in 1 .. n : i \in 1 .. n - 1 \/ i = n
    BY <1>1
  <2>. QED BY <1>1, <2>1 DEF LevelsRead
<1>3. \A i \in 1 .. n : IsLevel(level(i)) /\ Numbers(level(i)) = mark(i)
  BY <1>2, LevelIsRead
<1>4. levels = { level(i) : i \in 1 .. n - 1 }
  BY DEF LevelsRead
<1>5. \A i \in 1 .. n - 1 : i \in 1 .. n
  BY <1>1
<1>6. n \in 1 .. n
  BY <1>1
<1>. HIDE DEF level, mark
<1>7. \A i \in 1 .. n - 1 :
        mark(i) # mark(n) <=> LevelGreater(level(i), level(n)) \/ LevelGreater(level(n), level(i))
  BY <1>3, <1>5, <1>6, DocumentIsJson, LevelsCompare
<1>8. Insertable(level(n)) <=>
        \A i \in 1 .. n - 1 : LevelGreater(level(i), level(n)) \/ LevelGreater(level(n), level(i))
  BY <1>4 DEF Insertable
<1>. QED BY <1>7, <1>8 DEF level, mark

LEMMA ReadLevelStep ==
    ASSUME IInv, ReadLevel
    PROVE  IInv'
<1> DEFINE element == JsonLevels(document)[next]
           failure == FirstFailure(LevelChecks(element))
<1>1. /\ pc = "levels" /\ EnvelopeFits /\ FieldsFit /\ document \in Documents
      /\ document.kind = "TcbInfo" => TdxPartIsThere /\ ModuleIdentitiesFit
      /\ ReadsAs("tcbLevels", "array")
      /\ LevelsRead(next - 1) /\ next \in Nat \ {0}
      /\ next \in DOMAIN JsonLevels(document)
  BY DEF ReadLevel, IInv, StagesFit, LevelsInv, Types
<1>2. /\ Len(JsonLevels(document)) \in Nat
      /\ DOMAIN JsonLevels(document) = 1 .. Len(JsonLevels(document))
  BY <1>1, LevelsAreASequence
<1>3. ~OfNewerVersion
  BY <1>1, FittingIsNotNewer
<1>4. IsOrdinary(LevelChecks(element)) /\ (Passes(LevelChecks(element)) <=> LevelFits(element))
  BY <1>1, LevelPasses
<1>5. CASE failure # None
  <2>1. Throw(failure)
    BY <1>5 DEF ReadLevel
  <2>2. failure \in Exceptions /\ failure # BadVersion
    BY <1>4, <1>5, Failures DEF Passes
  <2>3. ~LevelsFit
    BY <1>1, <1>4, <1>5 DEF Passes, LevelsFit
  <2>4. ~WellFormed(document)
    BY <1>1, <2>3, DocumentIsJson, FormatByStages
  <2>. QED BY <1>3, <2>1, <2>2, <2>4, Refusal
<1>6. CASE failure = None
  <2>1. LevelFits(element)
    BY <1>4, <1>6 DEF Passes
  <2>2. Insertable(Level(element)) <=>
          \A i \in 1 .. next - 1 :
             Mark(JsonLevels(document)[i], document) # Mark(element, document)
    BY <1>1, <2>1, InsertableIsNew
  <2>3. CASE ~Insertable(Level(element))
    <3>1. Throw(Extension)
      BY <1>6, <2>3 DEF ReadLevel
    <3>2. Extension \in Exceptions /\ Extension # BadVersion
      BY DEF Exceptions, Extension, BadVersion
    <3>3. PICK i \in 1 .. next - 1 :
             Mark(JsonLevels(document)[i], document) = Mark(element, document)
      BY <2>2, <2>3
    <3>4. i \in DOMAIN JsonLevels(document) /\ i # next
      BY <1>1, <1>2
    <3>5. ~MarksDiffer
      BY <1>1, <3>3, <3>4 DEF MarksDiffer
    <3>6. ~WellFormed(document)
      BY <1>1, <3>5, DocumentIsJson, FormatByStages
    <3>. QED BY <1>3, <3>1, <3>2, <3>6, Refusal
  <2>4. CASE Insertable(Level(element))
    <3>1. /\ levels' = levels \union { Level(element) } /\ next' = next + 1
          /\ document' = document /\ pc' = pc /\ exception' = exception
          /\ moduleIdentities' = moduleIdentities
      BY <1>6, <2>4 DEF ReadLevel
    <3>2. Types' /\ StagesFit' /\ IdentitiesInv' /\ VerdictInv'
      BY <1>1, <3>1, DocumentStays
         DEF IInv, Types, StagesFit, IdentitiesInv, VerdictInv, Decided
    <3>3. IsLevel(Level(element))
      BY <1>1, <2>1, LevelIsRead
    <3>4. \A l \in levels' : IsLevel(l)'
      BY <3>1, <3>3, DocumentStays DEF IInv, LevelsInv
    <3>5. Level(element) \notin levels
      <4>1. ~LevelGreater(Level(element), Level(element))
        BY <1>1, <3>3, DocumentIsJson, LevelsCompare
      <4>. QED BY <2>4, <4>1 DEF Insertable
    <3>6. IsFiniteSet(levels') /\ Cardinality(levels') = next
      <4>1. IsFiniteSet(levels) /\ Cardinality(levels) = next - 1
        BY <1>1 DEF LevelsRead
      <4>2. IsFiniteSet(levels \union { Level(element) })
            /\ Cardinality(levels \union { Level(element) }) = (next - 1) + 1
        BY <3>5, <4>1, FS_AddElement
      <4>. QED BY <1>1, <3>1, <4>2
    <3>7. \A i \in 1 .. next : i \in 1 .. next - 1 \/ i = next
      BY <1>1
    <3>8. levels' = { Level(JsonLevels(document)[i]) : i \in 1 .. next }
      <4>1. levels = { Level(JsonLevels(document)[i]) : i \in 1 .. next - 1 }
        BY <1>1 DEF LevelsRead
      <4>2. next \in 1 .. next /\ \A i \in 1 .. next - 1 : i \in 1 .. next
        BY <1>1
      <4>. QED BY <3>1, <3>7, <4>1, <4>2
    <3>9. \A i \in 1 .. next : LevelFits(JsonLevels(document)[i])
      BY <1>1, <2>1, <3>7 DEF LevelsRead
    <3>10. \A i, j \in 1 .. next :
              i # j => Mark(JsonLevels(document)[i], document)
                       # Mark(JsonLevels(document)[j], document)
      BY <1>1, <2>2, <2>4, <3>7 DEF LevelsRead
    <3>11. LevelsRead(next - 1)'
      <4>1. next' - 1 = next /\ next <= Len(JsonLevels(document))
        BY <1>1, <1>2, <3>1
      <4>2. levels' = { Level(JsonLevels(document)[i])' : i \in 1 .. next }
        BY <3>1, <3>8, DocumentStays
      <4>3. \A i \in 1 .. next : LevelFits(JsonLevels(document)[i])'
        BY <3>1, <3>9, DocumentStays
      <4>. QED BY <3>1, <3>6, <3>10, <4>1, <4>2, <4>3 DEF LevelsRead
    <3>12. LevelsInv'
      BY <1>1, <3>1, <3>4, <3>11 DEF LevelsInv
    <3>. QED BY <3>2, <3>12 DEF IInv
  <2>. QED BY <2>3, <2>4
<1>. QED BY <1>5, <1>6

LEMMA EndLevelsStep ==
    ASSUME IInv, EndLevels
    PROVE  IInv'
<1> DEFINE some    == Check(levels # {}, Extension)
           shallow == Check(document.nesting <= MAX_JSON_DEPTH, Extension)
           failure == FirstFailure(EndChecks)
<1>1. /\ pc = "levels" /\ EnvelopeFits /\ FieldsFit /\ document \in Documents
      /\ document.kind = "TcbInfo" => TdxPartIsThere /\ ModuleIdentitiesFit
      /\ ReadsAs("tcbLevels", "array")
      /\ LevelsRead(next - 1) /\ next \in Nat \ {0}
      /\ next \notin DOMAIN JsonLevels(document)
  BY DEF EndLevels, IInv, StagesFit, LevelsInv, Types
<1>2. /\ Len(JsonLevels(document)) \in Nat
      /\ DOMAIN JsonLevels(document) = 1 .. Len(JsonLevels(document))
      /\ JsonLevels(document) = <<>> <=> Len(JsonLevels(document)) = 0
  BY <1>1, LevelsAreASequence
<1>3. next - 1 = Len(JsonLevels(document))
  BY <1>1, <1>2 DEF LevelsRead
<1> DEFINE n == Len(JsonLevels(document))
<1>4. LevelsRead(n)
  BY <1>1, <1>3
<1>. HIDE DEF n
<1>5. levels # {} <=> JsonLevels(document) # <<>>
  <2>1. IsFiniteSet(levels) /\ Cardinality(levels) = n
    BY <1>4 DEF LevelsRead
  <2>2. levels = {} <=> n = 0
    BY <2>1, FS_EmptySet
  <2>. QED BY <1>2, <2>2 DEF n
<1>6. LevelsFit /\ MarksDiffer
  BY <1>2, <1>4 DEF LevelsRead, LevelsFit, MarksDiffer, n
<1>7. IsOrdinary(some) /\ (Passes(some) <=> levels # {})
  BY OrdinaryExceptions, CheckPasses
<1>8. IsOrdinary(shallow) /\ (Passes(shallow) <=> document.nesting <= MAX_JSON_DEPTH)
  <2>1. document.nesting \in Nat
    BY <1>1, DocumentIsJson DEF IsJsonDocument
  <2>2. (document.nesting <= MAX_JSON_DEPTH) \in BOOLEAN
    BY <2>1 DEF MAX_JSON_DEPTH
  <2>. QED BY <2>2, OrdinaryExceptions, CheckPasses
<1>9. EndChecks = some \o shallow
  BY DEF EndChecks
<1>. HIDE DEF some, shallow
<1>10. /\ IsOrdinary(EndChecks)
       /\ Passes(EndChecks) <=> levels # {} /\ document.nesting <= MAX_JSON_DEPTH
  BY <1>7, <1>8, <1>9, BothPass
<1>11. ~OfNewerVersion
  BY <1>1, FittingIsNotNewer
<1>12. CASE failure = None
  <2>1. /\ pc' = "accepted" /\ next' = 1 /\ document' = document /\ exception' = exception
        /\ levels' = levels /\ moduleIdentities' = moduleIdentities
    BY <1>12 DEF EndLevels, Pass, Goto
  <2>2. levels # {} /\ document.nesting <= MAX_JSON_DEPTH
    BY <1>10, <1>12 DEF Passes
  <2>3. /\ FieldsFit' /\ EnvelopeFits' /\ ReadsAs("tcbLevels", "array")'
        /\ document'.kind = "TcbInfo" => TdxPartIsThere' /\ ModuleIdentitiesFit'
    BY <1>1, <2>1, DocumentStays
  <2>4. Types'
    BY <1>1, <2>1 DEF IInv, Types, Decided
  <2>5. StagesFit'
    BY <2>1, <2>3 DEF StagesFit
  <2>6. IdentitiesInv'
    BY <2>1, DocumentStays DEF IInv, IdentitiesInv
  <2>7. LevelsInv'
    <3>1. \A l \in levels' : IsLevel(l)'
      <4>1. \A l \in levels : IsLevel(l)
        BY DEF IInv, LevelsInv
      <4>. QED BY <2>1, <4>1, DocumentStays
    <3>2. LevelsRead(Len(JsonLevels(document)))'
      <4>1. document' = document /\ levels' = levels
        BY <2>1
      <4>. QED BY <1>4, <4>1, LevelsStayRead DEF n
    <3>. QED BY <2>1, <2>2, <3>1, <3>2 DEF LevelsInv
  <2>8. VerdictInv'
    <3>1. exception = None
      BY <1>1 DEF IInv, Types
    <3>2. None # BadVersion
      BY DEF None, BadVersion
    <3>. QED BY <1>11, <2>1, <3>1, <3>2, DocumentStays DEF VerdictInv
  <2>. QED BY <2>4, <2>5, <2>6, <2>7, <2>8 DEF IInv
<1>13. CASE failure # None
  <2>1. Throw(failure)
    BY <1>13 DEF EndLevels, Pass
  <2>2. failure \in Exceptions /\ failure # BadVersion
    BY <1>10, <1>13, Failures DEF Passes
  <2>3. ~(JsonLevels(document) # <<>> /\ document.nesting <= MAX_JSON_DEPTH)
    BY <1>5, <1>10, <1>13 DEF Passes
  <2>4. ~WellFormed(document)
    BY <1>1, <2>3, DocumentIsJson, FormatByStages
  <2>. QED BY <1>11, <2>1, <2>2, <2>4, Refusal
<1>. QED BY <1>12, <1>13

LEMMA StutterStep ==
    ASSUME IInv, UNCHANGED vars
    PROVE  IInv'
<1>1. /\ document' = document /\ pc' = pc /\ exception' = exception /\ next' = next
      /\ levels' = levels /\ moduleIdentities' = moduleIdentities
  BY DEF vars
<1>2. Types' /\ StagesFit' /\ VerdictInv'
  BY <1>1, DocumentStays DEF IInv, Types, StagesFit, VerdictInv
<1>3. IdentitiesInv'
  BY <1>1, DocumentStays DEF IInv, IdentitiesInv, IdentitiesRead
<1>4. \A n : LevelsRead(n)' <=> LevelsRead(n)
  BY <1>1, LevelsStayRead
<1>5. LevelsInv'
  <2>1. \A l \in levels' : IsLevel(l)'
    BY <1>1, DocumentStays DEF IInv, LevelsInv
  <2>2. pc = "levels" => LevelsRead(next - 1)'
    BY <1>1, <1>4 DEF IInv, LevelsInv, LevelsRead
  <2>. QED BY <1>1, <1>4, <2>1, <2>2 DEF IInv, LevelsInv
<1>. QED BY <1>2, <1>3, <1>5 DEF IInv

LEMMA NextIInv == IInv /\ [Next]_vars => IInv'
BY ReadEnvelopeStep, ReadTcbInfoStep, ReadTdxPartStep, ReadModuleIdentityStep,
   EndModuleIdentitiesStep, ReadEnclaveIdentityStep, ReadLevelsArrayStep, ReadLevelStep,
   EndLevelsStep, StutterStep
   DEF Next

LEMMA Invariance == Spec => []IInv
BY InitIInv, NextIInv, PTL DEF Spec

(***************************************************************************)
(* The theorems.                                                           *)
(***************************************************************************)

\* The types of what the parsers keep: SVNs of components are bytes, whatever numbers the
\* document has.
THEOREM TypeCorrect == Spec => []TypeOK
<1>1. IInv => TypeOK
  <2>. SUFFICES ASSUME IInv PROVE TypeOK
    OBVIOUS
  <2>1. /\ document.kind \in { "TcbInfo", "EnclaveIdentity" }
        /\ pc \in Parts \union Decided
        /\ exception \in { None, Format, Extension, BadVersion }
        /\ pc = "refused" <=> exception # None
        /\ next \in Nat
    BY DocumentIsJson DEF IInv, Types, Exceptions
  <2>2. ASSUME NEW l \in levels
        PROVE  IF document.kind = "EnclaveIdentity" THEN l.isvSvn \in Nat
               ELSE /\ l.sgx \in [ SvnIndex -> 0 .. UINT8_COUNT - 1 ]
                    /\ l.tdx \in [ SvnIndex -> 0 .. UINT8_COUNT - 1 ]
    <3>1. IsLevel(l)
      BY DEF IInv, LevelsInv
    <3>. QED BY <2>1, <3>1 DEF IsLevel, SvnVector
  <2>3. ASSUME NEW i \in DOMAIN moduleIdentities, NEW l \in moduleIdentities[i].levels
        PROVE  l.isvSvn \in 0 .. UINT16_MAX
    <3>1. moduleIdentities[i] \in FittingIdentities
      BY DEF IInv, IdentitiesInv
    <3>2. PICK k \in DOMAIN JsonModuleIdentities :
             /\ IsModuleIdentity(JsonModuleIdentities[k])
             /\ moduleIdentities[i] = ModuleIdentity(JsonModuleIdentities[k])
      BY <3>1 DEF FittingIdentities
    <3> DEFINE elements == Field(JsonModuleIdentities[k], "tcbLevels").elements
    <3>3. PICK n \in DOMAIN elements : l.isvSvn = ModuleLevelSvn(elements[n])
      BY <3>2 DEF ModuleIdentity
    <3>4. IsModuleLevel(elements[n])
      BY <3>2 DEF IsModuleIdentity, AreModuleLevels
    <3>. QED BY <3>3, <3>4 DEF IsModuleLevel, ModuleLevelSvn, IsNumberOf
  <2>. QED BY <2>1, <2>2, <2>3 DEF TypeOK
<1>. QED BY <1>1, Invariance, PTL

\* The constructors of TcbInfo and EnclaveIdentity let exactly the documents of the format
\* pass, and report a version yet to come, and nothing else, as such.
THEOREM AcceptsTheFormatHolds == Spec => []AcceptsTheFormat
<1>1. IInv => AcceptsTheFormat
  <2>. SUFFICES ASSUME IInv PROVE AcceptsTheFormat
    OBVIOUS
  <2>1. ASSUME pc = "accepted"
        PROVE  WellFormed(document)
    <3> DEFINE n == Len(JsonLevels(document))
    <3>1. /\ EnvelopeFits /\ FieldsFit /\ document \in Documents
          /\ document.kind = "TcbInfo" => TdxPartIsThere /\ ModuleIdentitiesFit
          /\ ReadsAs("tcbLevels", "array")
      BY <2>1 DEF IInv, Types, StagesFit
    <3>2. DOMAIN JsonLevels(document) = 1 .. n /\ (JsonLevels(document) = <<>> <=> n = 0)
      BY <3>1, LevelsAreASequence
    <3>3. LevelsRead(n) /\ levels # {} /\ document.nesting <= MAX_JSON_DEPTH
      BY <2>1 DEF IInv, LevelsInv
    <3>. HIDE DEF n
    <3>4. LevelsFit /\ MarksDiffer
      BY <3>2, <3>3 DEF LevelsRead, LevelsFit, MarksDiffer
    <3>5. JsonLevels(document) # <<>>
      <4>1. IsFiniteSet(levels) /\ Cardinality(levels) = n
        BY <3>3 DEF LevelsRead
      <4>. QED BY <3>2, <3>3, <4>1, FS_EmptySet
    <3>. QED BY <3>1, <3>3, <3>4, <3>5, DocumentIsJson, FormatByStages
  <2>. QED BY <2>1 DEF AcceptsTheFormat, IInv, VerdictInv
<1>. QED BY <1>1, Invariance, PTL

\* Among finitely many levels of different numbers one comes before all others.
LEMMA GreatestLevel ==
    ASSUME document.kind \in { "TcbInfo", "EnclaveIdentity" },
           NEW S, IsFiniteSet(S), S # {}, \A l \in S : IsLevel(l),
           \A a, b \in S : a # b => Numbers(a) # Numbers(b)
    PROVE  \E l \in S : \A other \in S \ {l} : LevelGreater(l, other)
<1> DEFINE below(l) == { m \in S : LevelGreater(l, m) }
           rank(l)  == Cardinality(S) - Cardinality(below(l))
           ranks    == { rank(l) : l \in S }
<1>1. \A l \in S : below(l) \in SUBSET S
  OBVIOUS
<1>2. \A l \in S : /\ IsFiniteSet(below(l)) /\ Cardinality(below(l)) \in Nat
                   /\ Cardinality(below(l)) <= Cardinality(S)
  BY <1>1, FS_Subset, FS_CardinalityType
<1>3. Cardinality(S) \in Nat
  BY FS_CardinalityType
<1>4. ASSUME NEW a \in S, NEW b \in S, LevelGreater(a, b)
      PROVE  rank(a) < rank(b)
  <2>1. below(b) \in SUBSET below(a)
    BY <1>4, LevelsAreOrdered
  <2>2. b \in below(a) /\ b \notin below(b)
    BY <1>4, LevelsCompare
  <2>3. /\ Cardinality(below(b)) <= Cardinality(below(a))
        /\ Cardinality(below(a)) # Cardinality(below(b))
    <3>. HIDE DEF below
    <3>. QED BY <1>2, <2>1, <2>2, FS_Subset
  <2>. HIDE DEF below
  <2>. QED BY <1>2, <1>3, <2>3
<1>5. ranks \in SUBSET Nat /\ ranks # {}
  <2>. HIDE DEF below
  <2>. QED BY <1>2, <1>3
<1>6. PICK r \in ranks : \A other \in ranks : r <= other
  BY <1>5, LeastNumber
<1>7. PICK l \in S : rank(l) = r
  OBVIOUS
<1>8. ASSUME NEW other \in S \ {l}
      PROVE  LevelGreater(l, other)
  <2>1. LevelGreater(l, other) \/ LevelGreater(other, l)
    BY LevelsCompare
  <2>2. rank(other) \in ranks /\ rank(l) \in Nat /\ rank(other) \in Nat
    BY <1>5
  <2>. HIDE DEF rank, ranks
  <2>3. ~(rank(other) < rank(l))
    BY <1>6, <1>7, <2>2
  <2>4. ~LevelGreater(other, l)
    BY <1>4, <2>3
  <2>. QED BY <2>1, <2>4
<1>. QED BY <1>8

\* The order of levels never puts a level before one that surpasses it.
LEMMA SurpassingComesFirst ==
    ASSUME document.kind \in { "TcbInfo", "EnclaveIdentity" },
           NEW a, NEW b, IsLevel(a), IsLevel(b), Surpasses(a, b)
    PROVE  ~LevelGreater(b, a)
<1>1. CASE document.kind = "TcbInfo"
  <2>1. /\ a.sgx \in SvnVector /\ a.tdx \in SvnVector /\ a.pceSvn \in Int
        /\ b.sgx \in SvnVector /\ b.tdx \in SvnVector /\ b.pceSvn \in Int
    BY <1>1 DEF IsLevel
  <2>2. AtLeast(a.sgx, b.sgx) /\ AtLeast(a.tdx, b.tdx) /\ a.pceSvn >= b.pceSvn
    BY <1>1 DEF Surpasses
  <2>3. ASSUME NEW x \in SvnVector, NEW y \in SvnVector, AtLeast(x, y)
        PROVE  ~SvnsGreater(y, x)
    <3>1. \A i \in SvnIndex : x[i] \in Int /\ y[i] \in Int /\ x[i] >= y[i]
      BY <2>3 DEF SvnVector, AtLeast
    <3>. QED BY <3>1 DEF SvnsGreater
  <2>4. ~SvnsGreater(b.sgx, a.sgx) /\ ~SvnsGreater(b.tdx, a.tdx)
    BY <2>1, <2>2, <2>3
  <2>. QED BY <1>1, <2>1, <2>2, <2>4 DEF LevelGreater, TcbLevelGreater
<1>2. CASE document.kind = "EnclaveIdentity"
  <2>1. /\ a.isvSvn \in Int /\ a.tcbDate \in Int /\ b.isvSvn \in Int /\ b.tcbDate \in Int
    BY <1>2 DEF IsLevel
  <2>. QED BY <1>2, <2>1 DEF Surpasses, LevelGreater, IdentityTcbLevelGreater
<1>. QED BY <1>1, <1>2

\* The levels of an accepted document, and those of its JSON text.
LEMMA AcceptedLevels ==
    ASSUME IInv, pc = "accepted"
    PROVE  /\ IsFiniteSet(levels) /\ Cardinality(levels) = Len(JsonLevels(document))
           /\ \A a, b \in levels : a # b => Numbers(a) # Numbers(b)
           /\ (\A l \in SignedLevels : SvnsAreBytes(l)) => levels = SignedLevels
<1> DEFINE n == Len(JsonLevels(document))
<1>1. FieldsFit /\ document \in Documents /\ ReadsAs("tcbLevels", "array")
  BY DEF IInv, Types, StagesFit
<1>2. DOMAIN JsonLevels(document) = 1 .. n
  BY <1>1, LevelsAreASequence
<1> DEFINE level(i)  == Level(JsonLevels(document)[i])
           mark(i)   == Mark(JsonLevels(document)[i], document)
           signed(i) == SignedLevel(JsonLevels(document)[i], document)
<1>. HIDE DEF n
<1>3. /\ levels = { level(i) : i \in 1 .. n }
      /\ \A i, j \in 1 .. n : i # j => mark(i) # mark(j)
      /\ \A i \in 1 .. n : LevelFits(JsonLevels(document)[i])
      /\ IsFiniteSet(levels) /\ Cardinality(levels) = n
  <2>1. LevelsRead(n)
    BY DEF IInv, LevelsInv, n
  <2>. QED BY <2>1 DEF LevelsRead
<1>4. \A i \in 1 .. n : /\ Numbers(level(i)) = mark(i)
                        /\ SvnsAreBytes(signed(i)) => level(i) = signed(i)
  BY <1>1, <1>2, <1>3, LevelIsRead
<1>5. SignedLevels = { signed(i) : i \in 1 .. n }
  BY <1>2 DEF SignedLevels
<1>. HIDE DEF level, mark, signed
<1>6. \A a, b \in levels : a # b => Numbers(a) # Numbers(b)
  BY <1>3, <1>4
<1>7. (\A l \in SignedLevels : SvnsAreBytes(l)) => levels = SignedLevels
  BY <1>3, <1>4, <1>5
<1>. QED BY <1>3, <1>6, <1>7 DEF n

\* What is evaluated is what was signed: no level of an accepted document is lost, doubled
\* or changed, as long as its SVNs fit the byte they are kept in.
THEOREM LevelsAreSignedHolds == Spec => []LevelsAreSigned
<1>1. IInv => LevelsAreSigned
  BY AcceptedLevels DEF LevelsAreSigned
<1>. QED BY <1>1, Invariance, PTL

\* The level that is looked up for a platform is not surpassed by another that the platform
\* meets: the order of the std::set agrees with the order of the numbers.
THEOREM HighestLevelIsChosenHolds == Spec => []HighestLevelIsChosen
<1>1. IInv => HighestLevelIsChosen
  <2>. SUFFICES ASSUME IInv, pc = "accepted", \A l \in SignedLevels : SvnsAreBytes(l),
                       NEW platform \in Platforms,
                       { l \in levels : IsMetBy(l, platform) } # {},
                       NEW l \in SignedLevels, IsMetBy(l, platform)
                PROVE  ~Surpasses(l, ChosenLevel({ m \in levels : IsMetBy(m, platform) }))
    BY DEF HighestLevelIsChosen
  <2> DEFINE met    == { m \in levels : IsMetBy(m, platform) }
             chosen == ChosenLevel(met)
  <2>1. document.kind \in { "TcbInfo", "EnclaveIdentity" }
    BY DocumentIsJson DEF IInv, Types
  <2>2. /\ IsFiniteSet(levels) /\ levels = SignedLevels
        /\ \A a, b \in levels : a # b => Numbers(a) # Numbers(b)
        /\ \A m \in levels : IsLevel(m)
    BY AcceptedLevels DEF IInv, LevelsInv
  <2>3. met \in SUBSET levels /\ l \in met
    BY <2>2
  <2>4. IsFiniteSet(met)
    BY <2>2, <2>3, FS_Subset
  <2>. HIDE DEF met
  <2>5. \E m \in met : \A other \in met \ {m} : LevelGreater(m, other)
    BY <2>1, <2>2, <2>3, <2>4, GreatestLevel
  <2>6. chosen \in met /\ \A other \in met \ {chosen} : LevelGreater(chosen, other)
    <3>1. CASE document.kind = "TcbInfo"
      <4>1. \A a, b : LevelGreater(a, b) <=> TcbLevelGreater(Id(document), a, b)
        BY <3>1 DEF LevelGreater
      <4>2. chosen = CHOOSE m \in met :
                       \A other \in met \ {m} : TcbLevelGreater(Id(document), m, other)
        BY <3>1 DEF ChosenLevel, FirstTcbLevel
      <4>. HIDE DEF chosen
      <4>3. \E m \in met : \A other \in met \ {m} : TcbLevelGreater(Id(document), m, other)
        BY <2>5, <4>1
      <4>4. /\ chosen \in met
            /\ \A other \in met \ {chosen} : TcbLevelGreater(Id(document), chosen, other)
        BY <4>2, <4>3
      <4>. QED BY <4>1, <4>4
    <3>2. CASE document.kind = "EnclaveIdentity"
      <4>1. chosen = CHOOSE m \in met : \A other \in met \ {m} : LevelGreater(m, other)
        BY <3>2 DEF ChosenLevel
      <4>. HIDE DEF chosen
      <4>. QED BY <2>5, <4>1
    <3>. QED BY <2>1, <3>1, <3>2
  <2>. HIDE DEF chosen
  <2>7. ASSUME Surpasses(l, chosen)
        PROVE  FALSE
    <3>1. l # chosen
      BY <2>7 DEF Surpasses
    <3>2. LevelGreater(chosen, l)
      BY <2>3, <2>6, <3>1
    <3>3. IsLevel(l) /\ IsLevel(chosen)
      BY <2>2, <2>3, <2>6
    <3>. QED BY <2>1, <2>7, <3>2, <3>3, SurpassingComesFirst
  <2>. QED BY <2>7 DEF chosen, met
<1>. QED BY <1>1, Invariance, PTL

(***************************************************************************)
(* The objects. The module identities that were read stand for those of    *)
(* the document, one for one: an invariant of its own, on top of IInv.     *)
(***************************************************************************)
IdentitiesKept ==
    /\ \A i \in DOMAIN moduleIdentities :
          moduleIdentities[i] = ModuleIdentity(JsonModuleIdentities[i])
    /\ ~HasModuleIdentities => moduleIdentities = <<>>
    /\ pc \in { "levelsArray", "levels", "accepted" } /\ HasModuleIdentities =>
          Len(moduleIdentities) = Len(JsonModuleIdentities)

LEMMA InitIdentitiesKept == Init => IdentitiesKept
<1>1. DOMAIN <<>> = {}
  OBVIOUS
<1>. QED BY <1>1 DEF Init, IdentitiesKept

LEMMA ReadKeepsIdentities ==
    ASSUME IInv, IdentitiesKept, ReadModuleIdentity
    PROVE  IdentitiesKept'
<1> DEFINE element == JsonModuleIdentities[next]
<1>1. pc = "moduleIdentities" /\ HasModuleIdentities /\ IdentitiesRead(next - 1)
  BY DEF ReadModuleIdentity, IInv, IdentitiesInv
<1>2. CASE IsModuleIdentity(element)
  <2>1. /\ moduleIdentities' = Append(moduleIdentities, ModuleIdentity(element))
        /\ pc' = pc /\ document' = document
    BY <1>2 DEF ReadModuleIdentity, JsonModuleIdentities
  <2>2. moduleIdentities \in Seq(FittingIdentities) /\ Len(moduleIdentities) = next - 1
        /\ next \in Nat
    BY <1>1 DEF IInv, IdentitiesInv, IdentitiesRead, Types
  <2>3. /\ DOMAIN moduleIdentities' = 1 .. next
        /\ moduleIdentities'[next] = ModuleIdentity(element)
        /\ \A i \in 1 .. next - 1 :
              i \in DOMAIN moduleIdentities /\ moduleIdentities'[i] = moduleIdentities[i]
    <3> DEFINE m == ModuleIdentity(element)
    <3>1. moduleIdentities' = Append(moduleIdentities, m)
      BY <2>1
    <3>. HIDE DEF m
    <3>. QED BY <2>2, <3>1 DEF m
  <2>4. \A i \in 1 .. next : i \in 1 .. next - 1 \/ i = next
    BY <2>2
  <2>5. \A i \in DOMAIN moduleIdentities' :
           moduleIdentities'[i] = ModuleIdentity(JsonModuleIdentities[i])
    <3>. HIDE DEF element
    <3>1. \A i \in 1 .. next - 1 :
            moduleIdentities'[i] = ModuleIdentity(JsonModuleIdentities[i])
      BY <2>3 DEF IdentitiesKept
    <3>. QED BY <2>3, <2>4, <3>1 DEF element
  <2>6. /\ JsonModuleIdentities' = JsonModuleIdentities /\ HasModuleIdentities'
        /\ \A v : ModuleIdentity(v)' = ModuleIdentity(v)
    BY <1>1, <2>1, DocumentStays DEF ModuleIdentity
  <2>. QED BY <1>1, <2>1, <2>5, <2>6 DEF IdentitiesKept
<1>3. CASE ~IsModuleIdentity(element)
  <2>1. /\ moduleIdentities' = moduleIdentities /\ document' = document /\ pc' = "refused"
    BY <1>3 DEF ReadModuleIdentity, JsonModuleIdentities, Throw
  <2>2. JsonModuleIdentities' = JsonModuleIdentities /\ HasModuleIdentities'
    BY <1>1, <2>1, DocumentStays
  <2>. QED BY <2>1, <2>2 DEF IdentitiesKept
<1>. QED BY <1>2, <1>3

LEMMA NextIdentitiesKept == IInv /\ IdentitiesKept /\ [Next]_vars => IdentitiesKept'
<1>. SUFFICES ASSUME IInv, IdentitiesKept, [Next]_vars PROVE IdentitiesKept'
  OBVIOUS
<1>1. ASSUME document' = document, moduleIdentities' = moduleIdentities,
             pc' \in { "levelsArray", "levels", "accepted" } /\ HasModuleIdentities =>
                Len(moduleIdentities) = Len(JsonModuleIdentities)
      PROVE  IdentitiesKept'
  <2>1. /\ JsonModuleIdentities' = JsonModuleIdentities
        /\ HasModuleIdentities' <=> HasModuleIdentities
    BY <1>1, DocumentStays
  <2>. QED BY <1>1, <2>1 DEF IdentitiesKept
<1>2. CASE ReadModuleIdentity
  BY <1>2, ReadKeepsIdentities
<1>3. ASSUME NEW part, NEW checks, NEW then, Pass(part, checks, then)
      PROVE  /\ document' = document /\ moduleIdentities' = moduleIdentities /\ pc = part
             /\ pc' = then \/ pc' = "refused"
  BY <1>3 DEF Pass, Goto, Throw
<1>4. CASE ReadEnvelope
  BY <1>1, <1>3, <1>4 DEF ReadEnvelope
<1>5. CASE ReadTcbInfo
  BY <1>1, <1>3, <1>5 DEF ReadTcbInfo
<1>6. CASE ReadEnclaveIdentity
  <2>1. ~HasModuleIdentities
    BY <1>6 DEF ReadEnclaveIdentity, HasModuleIdentities, IsTdx
  <2>. QED BY <1>1, <1>3, <1>6, <2>1 DEF ReadEnclaveIdentity
<1>7. CASE ReadTdxPart
  <2>1. HasModuleIdentities => pc' \in { "moduleIdentities", "refused" }
    BY <1>3, <1>7 DEF ReadTdxPart
  <2>. QED BY <1>1, <1>3, <1>7, <2>1 DEF ReadTdxPart
<1>8. CASE EndModuleIdentities
  <2>1. /\ pc = "moduleIdentities" /\ document.kind = "TcbInfo" /\ TdxPartIsThere
        /\ HasModuleIdentities /\ IdentitiesRead(next - 1) /\ document \in Documents
        /\ next \in Nat \ {0}
    BY <1>8 DEF EndModuleIdentities, IInv, StagesFit, IdentitiesInv, Types
  <2>2. /\ Len(JsonModuleIdentities) \in Nat
        /\ DOMAIN JsonModuleIdentities = 1 .. Len(JsonModuleIdentities)
    BY <2>1, IdentitiesAreASequence
  <2>3. next \notin DOMAIN JsonModuleIdentities
    BY <1>8 DEF EndModuleIdentities, JsonModuleIdentities
  <2>4. Len(moduleIdentities) = Len(JsonModuleIdentities)
    BY <2>1, <2>2, <2>3 DEF IdentitiesRead
  <2>. QED BY <1>1, <1>3, <1>8, <2>4 DEF EndModuleIdentities
<1>9. CASE ReadLevelsArray
  BY <1>1, <1>3, <1>9 DEF ReadLevelsArray, IdentitiesKept
<1>10. CASE ReadLevel
  <2>1. /\ pc = "levels" /\ document' = document /\ moduleIdentities' = moduleIdentities
        /\ pc' \in { "levels", "refused" }
    BY <1>10 DEF ReadLevel, Throw
  <2>. QED BY <1>1, <2>1 DEF IdentitiesKept
<1>11. CASE EndLevels
  BY <1>1, <1>3, <1>11 DEF EndLevels, IdentitiesKept
<1>12. CASE UNCHANGED vars
  BY <1>1, <1>12 DEF vars, IdentitiesKept
<1>. QED BY <1>2, <1>4, <1>5, <1>6, <1>7, <1>8, <1>9, <1>10, <1>11, <1>12 DEF Next

LEMMA IdentitiesAreKept == Spec => []IdentitiesKept
BY InitIdentitiesKept, NextIdentitiesKept, Invariance, PTL DEF Spec

(***************************************************************************)
(* What the getters make of fields that fit.                               *)
(***************************************************************************)
LEMMA FieldsAreJson ==
    ASSUME NEW v, NEW field, HasJsonValues(v), Has(v, field)
    PROVE  IsJsonValue(Field(v, field))
BY DEF HasJsonValues, Has, Field

LEMMA JsonStrings ==
    ASSUME NEW v, IsJsonString(v)
    PROVE  StringOf(v) \in STRING
BY StringsAssumption DEF IsJsonString, StringOf

LEMMA TextsAreRead ==
    ASSUME NEW v, NEW field, NEW values, IsTextOf(Field(v, field), values)
    PROVE  /\ StringField(v, field) = Field(v, field).text /\ Field(v, field).text \in values
<1>1. Has(v, field)
  BY TextsAreStrings, OnlyObjectsHaveFields
<1>. QED BY <1>1 DEF IsTextOf, StringField, StringOf

LEMMA StringsAreRead ==
    ASSUME NEW v, NEW field, HasJsonValues(v), OptionalOf(v, field, "string")
    PROVE  StringField(v, field) \in STRING
<1>1. CASE Has(v, field)
  <2>1. Field(v, field).type = "string"
    BY <1>1 DEF OptionalOf, Reads, HexDigits
  <2>2. IsJsonString(Field(v, field))
    BY <1>1, <2>1, FieldsAreJson DEF IsJsonValue
  <2>. QED BY <1>1, <2>2, JsonStrings DEF StringField
<1>2. CASE ~Has(v, field)
  BY <1>2, StringsAssumption DEF StringField
<1>. QED BY <1>1, <1>2

LEMMA StringVectorsAreRead ==
    ASSUME NEW v, NEW field, HasJsonValues(v), OptionalOf(v, field, "strings")
    PROVE  StringVecField(v, field) \in Seq(STRING)
<1>1. CASE Has(v, field)
  <2> DEFINE strings == Field(v, field).elements
  <2>1. /\ Field(v, field).type = "array"
        /\ \A i \in DOMAIN strings : strings[i].type = "string"
    BY <1>1 DEF OptionalOf, Reads, HexDigits
  <2>2. \A i \in DOMAIN strings : StringOf(strings[i]) \in STRING
    BY <1>1, <2>1, FieldsAreJson, JsonStrings DEF IsJsonValue
  <2>3. Reads(Field(v, field), "array")
    BY <2>1 DEF Reads
  <2>4. Len(strings) \in Nat /\ DOMAIN strings = 1 .. Len(strings)
    BY <2>3, ArraysAreSequences
  <2>5. StringVecField(v, field) = [ i \in DOMAIN strings |-> StringOf(strings[i]) ]
    BY <1>1 DEF StringVecField
  <2>. HIDE DEF strings
  <2>6. StringVecField(v, field) \in [ 1 .. Len(strings) -> STRING ]
    BY <2>2, <2>4, <2>5
  <2>. QED BY <2>4, <2>6
<1>2. CASE ~Has(v, field)
  BY <1>2 DEF StringVecField
<1>. QED BY <1>1, <1>2

LEMMA BytesAreRead ==
    ASSUME NEW v, NEW field, NEW kind \in DOMAIN HexDigits, Reads(Field(v, field), kind)
    PROVE  BytesField(v, field) = HexDigits[kind] \div 2
BY DEF Reads, HexDigits, BytesField

(***************************************************************************)
(* TCB levels.                                                             *)
(***************************************************************************)
LEMMA ComponentsAreRead ==
    ASSUME NEW tcb, NEW components, HasJsonValues(tcb), HaveJsonValues(tcb, components),
           AreTcbComponents(Field(tcb, components)), Version(document) = 3
    PROVE  /\ TcbComponents(tcb, components) \in TcbComponentArrays
           /\ SvnsOfComponents(TcbComponents(tcb, components)) = Svns(document, tcb, components)
<1> DEFINE elements == Field(tcb, components).elements
<1>1. Reads(Field(tcb, components), "array")
  BY DEF AreTcbComponents, Reads
<1>2. DOMAIN elements = 1 .. CPUSVN_BYTE_LEN
  BY <1>1, ArraysAreSequences DEF AreTcbComponents
<1>3. \A i \in SvnIndex : i + 1 \in DOMAIN elements
  BY <1>2, SvnLengthAssumption DEF SvnIndex
<1>4. \A k \in DOMAIN elements : HasJsonValues(elements[k]) /\ IsTcbComponent(elements[k])
  BY <1>1 DEF AreTcbComponents, HaveJsonValues
<1>5. ASSUME NEW c, HasJsonValues(c), IsTcbComponent(c)
      PROVE  TcbComponentObject(c) \in TcbComponentClass
  <2>1. Field(c, "svn").number \in Nat
    BY <1>5, NumbersAreNatural DEF IsTcbComponent
  <2>2. Field(c, "svn").number % UINT8_COUNT \in 0 .. UINT8_COUNT - 1
    BY <2>1 DEF UINT8_COUNT
  <2>3. StringField(c, "category") \in STRING /\ StringField(c, "type") \in STRING
    BY <1>5, StringsAreRead DEF IsTcbComponent
  <2>. QED BY <2>2, <2>3 DEF TcbComponentObject, TcbComponentClass
<1>. HIDE DEF elements
<1>6. TcbComponents(tcb, components) = [ i \in SvnIndex |-> TcbComponentObject(elements[i + 1]) ]
  BY DEF TcbComponents, elements
<1>7. TcbComponents(tcb, components) \in TcbComponentArrays
  BY <1>3, <1>4, <1>5, <1>6 DEF TcbComponentArrays
<1>8. \A i \in SvnIndex :
        TcbComponents(tcb, components)[i].svn
          = Field(Field(tcb, components).elements[i + 1], "svn").number % UINT8_COUNT
  BY <1>6 DEF TcbComponentObject, elements
<1>9. Svns(document, tcb, components) =
        [ i \in SvnIndex |->
            Field(Field(tcb, components).elements[i + 1], "svn").number % UINT8_COUNT ]
  BY DEF Svns, SvnsOf
<1>. QED BY <1>7, <1>8, <1>9 DEF SvnsOfComponents

LEMMA VersionAndId ==
    ASSUME document.kind = "TcbInfo", TcbInfoFieldsFit
    PROVE  /\ Version(document) \in { 2, 3 } /\ Id(document) \in { SGX_ID, TDX_ID }
           /\ IsVersion(2) <=> Version(document) = 2
           /\ IsTdx(document) <=> Id(document) = TDX_ID
           /\ IsTdx(document) => Version(document) = 3
<1>1. /\ Version(document) \in { 2, 3 }
      /\ IsVersion(2) <=> Version(document) = 2
      /\ IsVersion(3) <=> Version(document) = 3
  BY DEF TcbInfoFieldsFit, IsVersion, IsNumberOf, Version
<1>2. CASE Version(document) = 2
  BY <1>1, <1>2 DEF Id, IsTdx, SGX_ID, TDX_ID
<1>3. CASE Version(document) = 3
  <2>1. Field(Body(document), "id").text \in { SGX_ID, TDX_ID }
    BY <1>1, <1>3 DEF TcbInfoFieldsFit, IsTextOf
  <2>. QED BY <1>1, <1>3, <2>1 DEF Id, IsTdx
<1>. QED BY <1>1, <1>2, <1>3

LEMMA TcbLevelAnswers ==
    ASSUME document.kind = "TcbInfo", IsJsonDocument(document), TcbInfoFieldsFit,
           ReadsAs("tcbLevels", "array"),
           NEW i \in DOMAIN JsonLevels(document), IsTcbLevel(JsonLevels(document)[i], document)
    PROVE  /\ TcbLevelObject(JsonLevels(document)[i]) \in TcbLevelClass
           /\ LevelAnswers(TcbLevelObject(JsonLevels(document)[i]))
           /\ Compared(TcbLevelObject(JsonLevels(document)[i])) = Level(JsonLevels(document)[i])
<1> DEFINE v      == JsonLevels(document)[i]
           tcb    == Field(v, "tcb")
           level  == TcbLevelObject(v)
           sgx    == Svns(document, tcb, "sgxtcbcomponents")
           tdx    == Svns(document, tcb, "tdxtcbcomponents")
<1>1. /\ HasJsonValues(v) /\ HasJsonValues(tcb)
      /\ HaveJsonValues(tcb, "sgxtcbcomponents") /\ HaveJsonValues(tcb, "tdxtcbcomponents")
  BY DEF IsJsonDocument, HaveJsonValues, ReadsAs, JsonLevels
<1>2. /\ HasLevelFields(v, TcbInfoStatuses)
      /\ Reads(Field(tcb, "pcesvn"), "uint")
      /\ Version(document) = 2 => \A j \in SvnIndex : Reads(Field(tcb, SvnName(j)), "uint")
      /\ Version(document) = 3 => AreTcbComponents(Field(tcb, "sgxtcbcomponents"))
      /\ IsTdx(document) => AreTcbComponents(Field(tcb, "tdxtcbcomponents"))
  BY DEF IsTcbLevel
<1>3. /\ Version(document) \in { 2, 3 } /\ Id(document) \in { SGX_ID, TDX_ID }
      /\ IsVersion(2) <=> Version(document) = 2
      /\ IsTdx(document) <=> Id(document) = TDX_ID
      /\ IsTdx(document) => Version(document) = 3
  BY VersionAndId
<1>4. level = [ id |-> Id(document), version |-> Version(document), cpuSvn |-> sgx,
                cpuSvnComponents |-> CpuSvnComponents(tcb),
                sgxTcbComponents |->
                    IF IsVersion(V2) THEN <<>> ELSE TcbComponents(tcb, "sgxtcbcomponents"),
                tdxTcbComponents |->
                    IF IsTdx(document) THEN TcbComponents(tcb, "tdxtcbcomponents") ELSE <<>>,
                pceSvn |-> Field(tcb, "pcesvn").number, status |-> StringField(v, "tcbStatus"),
                tcbDate |-> Field(v, "tcbDate").time,
                advisoryIDs |-> StringVecField(v, "advisoryIDs") ]
  BY DEF TcbLevelObject
<1>5. Level(v) = [ sgx |-> sgx,
                   tdx |-> IF IsTdx(document) THEN tdx ELSE [ j \in SvnIndex |-> 0 ],
                   pceSvn |-> Field(tcb, "pcesvn").number,
                   tcbDate |-> Field(v, "tcbDate").time, status |-> Field(v, "tcbStatus").text ]
  <2> DEFINE signedSgx == SvnsOf(document, tcb, "sgxtcbcomponents")
             signedTdx == IF IsTdx(document) THEN SvnsOf(document, tcb, "tdxtcbcomponents")
                          ELSE [ j \in SvnIndex |-> 0 ]
             newTdx    == IF IsTdx(document) THEN tdx ELSE signedTdx
             signed    == SignedLevel(v, document)
  <2>1. signed = [ sgx |-> signedSgx, tdx |-> signedTdx, pceSvn |-> Field(tcb, "pcesvn").number,
                   tcbDate |-> Field(v, "tcbDate").time, status |-> Field(v, "tcbStatus").text ]
    BY DEF SignedLevel
  <2>2. Level(v) = [ signed EXCEPT !.sgx = sgx, !.tdx = IF IsTdx(document) THEN tdx ELSE @ ]
    BY DEF Level, TcbLevel
  <2>3. newTdx = IF IsTdx(document) THEN tdx ELSE [ j \in SvnIndex |-> 0 ]
    OBVIOUS
  <2>4. signed.tdx = signedTdx
    BY <2>1
  <2>. HIDE DEF v, tcb, sgx, tdx, signedSgx, signedTdx, signed
  <2>5. Level(v) = [ signed EXCEPT !.sgx = sgx, !.tdx = newTdx ]
    BY <2>2, <2>4
  <2>. HIDE DEF newTdx
  <2>6. Level(v) = [ sgx |-> sgx, tdx |-> newTdx, pceSvn |-> Field(tcb, "pcesvn").number,
                     tcbDate |-> Field(v, "tcbDate").time, status |-> Field(v, "tcbStatus").text ]
    BY <2>1, <2>5
  <2>. QED BY <2>3, <2>6
<1>. HIDE DEF v, tcb, level, tdx
<1>6. /\ Field(tcb, "pcesvn").number \in Nat /\ Field(v, "tcbDate").time \in Int
      /\ StringField(v, "tcbStatus") = Field(v, "tcbStatus").text
      /\ StringField(v, "tcbStatus") \in TcbInfoStatuses
      /\ StringVecField(v, "advisoryIDs") \in Seq(STRING)
  <2>1. /\ Reads(Field(v, "tcbDate"), "date") /\ OptionalOf(v, "advisoryIDs", "strings")
        /\ IsTextOf(Field(v, "tcbStatus"), TcbInfoStatuses)
    BY <1>2 DEF HasLevelFields
  <2>. QED BY <1>1, <1>2, <2>1, NumbersAreNatural, DatesAreTimes, TextsAreRead,
              StringVectorsAreRead
<1>7. Version(document) = 3 =>
         /\ TcbComponents(tcb, "sgxtcbcomponents") \in TcbComponentArrays
         /\ SvnsOfComponents(TcbComponents(tcb, "sgxtcbcomponents")) = sgx
  BY <1>1, <1>2, ComponentsAreRead
<1>8. IsTdx(document) =>
         /\ TcbComponents(tcb, "tdxtcbcomponents") \in TcbComponentArrays
         /\ SvnsOfComponents(TcbComponents(tcb, "tdxtcbcomponents")) = tdx
  BY <1>1, <1>2, <1>3, ComponentsAreRead DEF tdx
<1>9. sgx \in [ SvnIndex -> 0 .. UINT8_COUNT - 1 ]
  <2>1. \A j \in SvnIndex : SvnsOf(document, tcb, "sgxtcbcomponents")[j] \in Nat
    <3>1. CASE Version(document) = 2
      BY <1>1, <1>2, <3>1, NumbersAreNatural DEF SvnsOf
    <3>2. CASE Version(document) = 3
      <4>1. Reads(Field(tcb, "sgxtcbcomponents"), "array")
        BY <1>2, <3>2 DEF AreTcbComponents, Reads
      <4>2. \A k \in DOMAIN Field(tcb, "sgxtcbcomponents").elements :
              HasJsonValues(Field(tcb, "sgxtcbcomponents").elements[k])
        BY <1>1, <4>1 DEF HaveJsonValues
      <4>. QED BY <1>1, <1>2, <3>2, <4>2, ComponentsAreNumbers DEF SvnsOf
    <3>. QED BY <1>3, <3>1, <3>2
  <2>2. \A n \in Nat : n % UINT8_COUNT \in 0 .. UINT8_COUNT - 1
    BY DEF UINT8_COUNT
  <2>. QED BY <2>1, <2>2 DEF Svns
<1>. HIDE DEF sgx
<1>10. CpuSvnComponents(tcb) \in TcbComponentArrays
       /\ SvnsOfComponents(CpuSvnComponents(tcb)) = sgx
  <2>1. CASE Version(document) = 2
    <3>1. CpuSvnComponents(tcb) =
            [ j \in SvnIndex |-> [ svn |-> sgx[j], category |-> "", type |-> "" ] ]
      BY <1>3, <2>1 DEF CpuSvnComponents, V2, sgx
    <3>2. \A j \in SvnIndex : sgx[j] \in 0 .. UINT8_COUNT - 1
      BY <1>9
    <3>3. CpuSvnComponents(tcb) \in TcbComponentArrays
      <4>1. \A j \in SvnIndex :
              [ svn |-> sgx[j], category |-> "", type |-> "" ] \in TcbComponentClass
        BY <3>2, StringsAssumption DEF TcbComponentClass
      <4>. QED BY <3>1, <4>1 DEF TcbComponentArrays
    <3>4. sgx = [ j \in SvnIndex |-> sgx[j] ]
      BY <1>9
    <3>5. \A j \in SvnIndex : CpuSvnComponents(tcb)[j].svn = sgx[j]
      <4> DEFINE nameless(svn) == [ svn |-> svn, category |-> "", type |-> "" ]
      <4>1. \A svn : nameless(svn).svn = svn
        OBVIOUS
      <4>2. \A j \in SvnIndex : CpuSvnComponents(tcb)[j] = nameless(sgx[j])
        BY <3>1
      <4>. HIDE DEF nameless
      <4>. QED BY <4>1, <4>2
    <3>6. SvnsOfComponents(CpuSvnComponents(tcb)) = [ j \in SvnIndex |-> sgx[j] ]
      BY <3>5 DEF SvnsOfComponents
    <3>. QED BY <3>3, <3>4, <3>6
  <2>2. CASE Version(document) = 3
    BY <1>3, <1>7, <2>2 DEF CpuSvnComponents, V2
  <2>. QED BY <1>3, <2>1, <2>2
<1>11. level \in TcbLevelClass
  <2> DEFINE sgxArray == IF IsVersion(V2) THEN <<>> ELSE TcbComponents(tcb, "sgxtcbcomponents")
             tdxArray == IF IsTdx(document) THEN TcbComponents(tcb, "tdxtcbcomponents") ELSE <<>>
  <2>1. sgxArray \in TcbComponentArrays \union { <<>> }
    BY <1>3, <1>7 DEF V2
  <2>2. tdxArray \in TcbComponentArrays \union { <<>> }
    BY <1>8
  <2>3. Version(document) \in { V2, V3 }
    BY <1>3 DEF V2, V3
  <2>. HIDE DEF sgxArray, tdxArray
  <2>4. level = [ id |-> Id(document), version |-> Version(document), cpuSvn |-> sgx,
                  cpuSvnComponents |-> CpuSvnComponents(tcb), sgxTcbComponents |-> sgxArray,
                  tdxTcbComponents |-> tdxArray, pceSvn |-> Field(tcb, "pcesvn").number,
                  status |-> StringField(v, "tcbStatus"), tcbDate |-> Field(v, "tcbDate").time,
                  advisoryIDs |-> StringVecField(v, "advisoryIDs") ]
    BY <1>4 DEF sgxArray, tdxArray
  <2>. QED BY <1>3, <1>6, <1>9, <1>10, <2>1, <2>2, <2>3, <2>4 DEF TcbLevelClass
<1>12. \E components :
         /\ getSgxTcbComponents(level) = { components } /\ SvnsOfComponents(components) = sgx
  <2>1. CASE Version(document) = 2
    BY <1>4, <1>10, <2>1 DEF getSgxTcbComponents, V2
  <2>2. CASE Version(document) = 3
    BY <1>3, <1>4, <1>7, <2>2 DEF getSgxTcbComponents, V2
  <2>. QED BY <1>3, <2>1, <2>2
<1>13. getTdxTcbComponents(level) =
         IF IsTdx(document) THEN { TcbComponents(tcb, "tdxtcbcomponents") } ELSE {}
  <2>1. /\ level.version = Version(document) /\ level.id = Id(document)
        /\ IsTdx(document) => level.tdxTcbComponents = TcbComponents(tcb, "tdxtcbcomponents")
    BY <1>4
  <2>2. CASE IsTdx(document)
    BY <1>3, <2>1, <2>2 DEF getTdxTcbComponents, V3
  <2>3. CASE ~IsTdx(document)
    BY <1>3, <2>1, <2>3 DEF getTdxTcbComponents
  <2>. QED BY <2>2, <2>3
<1>14. \A j \in SvnIndex : j < CPUSVN_BYTE_LEN
  BY SvnLengthAssumption DEF SvnIndex
<1>15. LevelAnswers(level)
  <2>1. PICK components :
          getSgxTcbComponents(level) = { components } /\ SvnsOfComponents(components) = sgx
    BY <1>12
  <2>2. level.cpuSvn = sgx
    BY <1>4
  <2>3. ASSUME NEW j \in SvnIndex
        PROVE  { c.svn : c \in getSgxTcbComponent(level, j) } = getSgxTcbComponentSvn(level, j)
    <3>1. getSgxTcbComponent(level, j) = { components[j] }
      BY <1>14, <2>1 DEF getSgxTcbComponent
    <3>2. components[j].svn = sgx[j]
      BY <2>1 DEF SvnsOfComponents
    <3>3. getSgxTcbComponentSvn(level, j) = { sgx[j] }
      BY <1>14, <2>2 DEF getSgxTcbComponentSvn
    <3>. QED BY <3>1, <3>2, <3>3
  <2>4. getSgxTcbComponent(level, CPUSVN_BYTE_LEN) = {}
    BY SvnLengthAssumption DEF getSgxTcbComponent
  <2>5. (getTdxTcbComponents(level) # {}) <=> IsTdx(document)
    BY <1>13
  <2>6. \A j \in SvnIndex : (getTdxTcbComponent(level, j) # {}) <=> IsTdx(document)
    BY <1>13, <1>14 DEF getTdxTcbComponent
  <2>. QED BY <1>11, <2>1, <2>2, <2>3, <2>4, <2>5, <2>6 DEF LevelAnswers
<1>16. Compared(level) = Level(v)
  <2>1. Compared(level) =
          [ sgx |-> sgx,
            tdx |-> IF IsTdx(document) THEN SvnsOfComponents(TcbComponents(tcb, "tdxtcbcomponents"))
                    ELSE [ j \in SvnIndex |-> 0 ],
            pceSvn |-> Field(tcb, "pcesvn").number, tcbDate |-> Field(v, "tcbDate").time,
            status |-> StringField(v, "tcbStatus") ]
    BY <1>4 DEF Compared
  <2>. QED BY <1>5, <1>6, <1>8, <2>1
<1>. QED BY <1>11, <1>15, <1>16 DEF level, v

(***************************************************************************)
(* TDX modules and their identities.                                       *)
(***************************************************************************)
LEMMA DistinctElements ==
    ASSUME NEW n \in Nat, NEW T, NEW f \in [ 1 .. n -> T ],
           \A t \in T : \E i \in 1 .. n : f[i] = t,
           \A i, j \in 1 .. n : i # j => f[i] # f[j]
    PROVE  Cardinality(T) = n
<1>1. f \in Surjection(1 .. n, T) /\ f \in Injection(1 .. n, T)
  BY DEF Surjection, Injection, IsInjective
<1>2. IsFiniteSet(1 .. n) /\ Cardinality(1 .. n) = n
  BY FS_Interval
<1>. QED BY <1>1, <1>2, FS_Surjection

LEMMA TdxModulesAreRead ==
    ASSUME NEW v, IsTdxModule(v)
    PROVE  TdxModuleObject(v) \in TdxModuleClass /\ TdxModuleObject(v) # NoTdxModule
<1>1. /\ BytesField(v, "mrsigner") = 48 /\ BytesField(v, "attributes") = 8
      /\ BytesField(v, "attributesMask") = 8
  BY BytesAreRead DEF IsTdxModule, HexDigits
<1>2. TdxModuleObject(v) = [ mrsigner |-> 48, attributes |-> 8, attributesMask |-> 8 ]
  BY <1>1 DEF TdxModuleObject
<1>. QED BY <1>2 DEF TdxModuleClass, NoTdxModule, Bytes

LEMMA ModuleLevelsAreRead ==
    ASSUME NEW v, HasJsonValues(v), IsModuleLevel(v)
    PROVE  TdxModuleTcbLevelObject(v) \in TdxModuleTcbLevelClass
<1>1. ModuleLevelSvn(v) \in 0 .. UINT16_MAX
  BY DEF IsModuleLevel, ModuleLevelSvn, IsNumberOf
<1>2. [ isvsvn |-> ModuleLevelSvn(v) ] \in TdxModuleTcbClass
  BY <1>1 DEF TdxModuleTcbClass
<1>3. Field(v, "tcbDate").time \in Int
  BY DatesAreTimes DEF IsModuleLevel
<1>4. StringField(v, "tcbStatus") \in STRING
  BY StringsAreRead DEF IsModuleLevel, OptionalOf
<1>5. StringVecField(v, "advisoryIDs") \in Seq(STRING)
  BY StringVectorsAreRead DEF IsModuleLevel
<1>. QED BY <1>2, <1>3, <1>4, <1>5 DEF TdxModuleTcbLevelObject, TdxModuleTcbLevelClass

LEMMA ModuleIdentitiesAreRead ==
    ASSUME NEW v, HasJsonValues(v), HaveJsonValues(v, "tcbLevels"), IsModuleIdentity(v)
    PROVE  /\ TdxModuleIdentityObject(v) \in TdxModuleIdentityClass
           /\ Cardinality(TdxModuleIdentityObject(v).tcbLevels)
                = Cardinality(ModuleIdentity(v).levels)
<1> DEFINE elements == Field(v, "tcbLevels").elements
           n        == Len(elements)
           object(i) == TdxModuleTcbLevelObject(elements[i])
           read(i)  == [ isvSvn |-> ModuleLevelSvn(elements[i]),
                         status |-> Field(elements[i], "tcbStatus") ]
           objects  == [ i \in 1 .. n |-> object(i) ]
           reads    == [ i \in 1 .. n |-> read(i) ]
<1>1. Reads(Field(v, "tcbLevels"), "array")
  BY DEF IsModuleIdentity, AreModuleLevels, Reads
<1>2. n \in Nat /\ DOMAIN elements = 1 .. n
  BY <1>1, ArraysAreSequences
<1>3. \A i \in 1 .. n : HasJsonValues(elements[i]) /\ IsModuleLevel(elements[i])
  BY <1>1, <1>2 DEF HaveJsonValues, IsModuleIdentity, AreModuleLevels
<1>4. \A i, j \in 1 .. n : i # j => ModuleLevelSvn(elements[i]) # ModuleLevelSvn(elements[j])
  BY <1>2 DEF IsModuleIdentity, AreModuleLevels
<1>5. TdxModuleIdentityObject(v) =
        [ id |-> StringField(v, "id"), mrsigner |-> BytesField(v, "mrsigner"),
          attributes |-> BytesField(v, "attributes"),
          attributesMask |-> BytesField(v, "attributesMask"),
          tcbLevels |-> { object(i) : i \in DOMAIN elements } ]
  BY DEF TdxModuleIdentityObject
<1>6. ModuleIdentity(v).levels = { read(i) : i \in DOMAIN elements }
  BY DEF ModuleIdentity
<1>. HIDE DEF elements, n
<1>7. \A i \in 1 .. n : object(i) \in TdxModuleTcbLevelClass
  BY <1>3, ModuleLevelsAreRead
<1>8. \A i, j \in 1 .. n : i # j => object(i) # object(j) /\ read(i) # read(j)
  <2>1. \A i : object(i).tcb.isvsvn = ModuleLevelSvn(elements[i])
    BY DEF TdxModuleTcbLevelObject
  <2>2. \A i : read(i).isvSvn = ModuleLevelSvn(elements[i])
    OBVIOUS
  <2>. HIDE DEF object, read
  <2>. QED BY <1>4, <2>1, <2>2
<1>. HIDE DEF object, read
<1> DEFINE setOfObjects == { object(i) : i \in DOMAIN elements }
           setOfReads   == { read(i) : i \in DOMAIN elements }
<1>9. /\ objects \in [ 1 .. n -> setOfObjects ]
      /\ \A o \in setOfObjects : \E i \in 1 .. n : objects[i] = o
      /\ \A i, j \in 1 .. n : i # j => objects[i] # objects[j]
  BY <1>2, <1>8
<1>10. /\ reads \in [ 1 .. n -> setOfReads ]
       /\ \A r \in setOfReads : \E i \in 1 .. n : reads[i] = r
       /\ \A i, j \in 1 .. n : i # j => reads[i] # reads[j]
  BY <1>2, <1>8
<1>. HIDE DEF objects, reads, setOfObjects, setOfReads
<1>11. Cardinality(setOfObjects) = n /\ Cardinality(setOfReads) = n
  BY <1>2, <1>9, <1>10, DistinctElements
<1>12. /\ BytesField(v, "mrsigner") = 48 /\ BytesField(v, "attributes") = 8
       /\ BytesField(v, "attributesMask") = 8
  BY BytesAreRead DEF IsModuleIdentity, IsTdxModule, HexDigits
<1>13. StringField(v, "id") \in STRING
  BY StringsAreRead DEF IsModuleIdentity, OptionalOf
<1>14. setOfObjects \in SUBSET TdxModuleTcbLevelClass
  BY <1>2, <1>7 DEF setOfObjects
<1>15. TdxModuleIdentityObject(v) \in TdxModuleIdentityClass
  BY <1>5, <1>12, <1>13, <1>14 DEF TdxModuleIdentityClass, Bytes, setOfObjects
<1>. QED BY <1>5, <1>6, <1>11, <1>15 DEF setOfObjects, setOfReads

(***************************************************************************)
(* The objects of accepted documents.                                      *)
(***************************************************************************)
LEMMA TcbLevelObjects ==
    ASSUME IInv, pc = "accepted", document.kind = "TcbInfo"
    PROVE  /\ TcbInfoObject.tcbLevels \in SUBSET TcbLevelClass
           /\ \A level \in TcbInfoObject.tcbLevels : LevelAnswers(level)
           /\ { Compared(level) : level \in TcbInfoObject.tcbLevels } = levels
<1> DEFINE n == Len(JsonLevels(document))
           object(i) == TcbLevelObject(JsonLevels(document)[i])
<1>1. /\ TcbInfoFieldsFit /\ document \in Documents /\ ReadsAs("tcbLevels", "array")
      /\ IsJsonDocument(document)
  BY DocumentIsJson DEF IInv, Types, StagesFit, FieldsFit
<1>2. DOMAIN JsonLevels(document) = 1 .. n
  BY <1>1, LevelsAreASequence
<1>3. /\ levels = { Level(JsonLevels(document)[i]) : i \in 1 .. n }
      /\ \A i \in 1 .. n : IsTcbLevel(JsonLevels(document)[i], document)
  BY DEF IInv, LevelsInv, LevelsRead, LevelFits
<1>4. TcbInfoObject.tcbLevels = { object(i) : i \in DOMAIN JsonLevels(document) }
  BY DEF TcbInfoObject
<1>. HIDE DEF n
<1>5. \A i \in 1 .. n : /\ object(i) \in TcbLevelClass /\ LevelAnswers(object(i))
                        /\ Compared(object(i)) = Level(JsonLevels(document)[i])
  BY <1>1, <1>2, <1>3, TcbLevelAnswers
<1>. HIDE DEF object
<1>. QED BY <1>2, <1>3, <1>4, <1>5

LEMMA ModuleIdentityObjects ==
    ASSUME IInv, IdentitiesKept, pc = "accepted", document.kind = "TcbInfo"
    PROVE  /\ TcbInfoObject.tdxModuleIdentities \in Seq(TdxModuleIdentityClass)
           /\ Len(TcbInfoObject.tdxModuleIdentities) = Len(moduleIdentities)
           /\ \A i \in DOMAIN TcbInfoObject.tdxModuleIdentities :
                 Cardinality(TcbInfoObject.tdxModuleIdentities[i].tcbLevels)
                   = Cardinality(moduleIdentities[i].levels)
<1> DEFINE object(i)  == TdxModuleIdentityObject(JsonModuleIdentities[i])
           identities == IF HasModuleIdentities THEN JsonModuleIdentities ELSE <<>>
<1>1. TcbInfoObject.tdxModuleIdentities =
        [ i \in DOMAIN identities |-> TdxModuleIdentityObject(identities[i]) ]
  BY DEF TcbInfoObject, JsonModuleIdentities
<1>2. /\ document \in Documents /\ TdxPartIsThere /\ ModuleIdentitiesFit
      /\ IsJsonDocument(document)
  BY DocumentIsJson DEF IInv, Types, StagesFit
<1>3. CASE HasModuleIdentities
  <2> DEFINE n == Len(JsonModuleIdentities)
  <2>1. n \in Nat /\ DOMAIN JsonModuleIdentities = 1 .. n
    BY <1>2, <1>3, IdentitiesAreASequence
  <2>2. Reads(Field(Body(document), "tdxModuleIdentities"), "array")
    BY <1>2, <1>3 DEF TdxPartIsThere, HasModuleIdentities, OptionalOf
  <2>3. \A i \in 1 .. n : /\ HasJsonValues(JsonModuleIdentities[i])
                          /\ HaveJsonValues(JsonModuleIdentities[i], "tcbLevels")
                          /\ IsModuleIdentity(JsonModuleIdentities[i])
    BY <1>2, <1>3, <2>1, <2>2
       DEF IsJsonDocument, HaveJsonValues, JsonModuleIdentities, ModuleIdentitiesFit
  <2>. HIDE DEF n
  <2>4. \A i \in 1 .. n : /\ object(i) \in TdxModuleIdentityClass
                          /\ Cardinality(object(i).tcbLevels)
                               = Cardinality(ModuleIdentity(JsonModuleIdentities[i]).levels)
    BY <2>3, ModuleIdentitiesAreRead
  <2>5. TcbInfoObject.tdxModuleIdentities = [ i \in 1 .. n |-> object(i) ]
    BY <1>1, <1>3, <2>1
  <2>. HIDE DEF object
  <2>6. Len(moduleIdentities) = n /\ moduleIdentities \in Seq(FittingIdentities)
    BY <1>3 DEF IdentitiesKept, IInv, IdentitiesInv, n
  <2>7. DOMAIN moduleIdentities = 1 .. n
    BY <2>6
  <2>8. \A i \in 1 .. n : moduleIdentities[i] = ModuleIdentity(JsonModuleIdentities[i])
    BY <2>7 DEF IdentitiesKept
  <2>9. TcbInfoObject.tdxModuleIdentities \in [ 1 .. n -> TdxModuleIdentityClass ]
    BY <2>4, <2>5
  <2>10. /\ TcbInfoObject.tdxModuleIdentities \in Seq(TdxModuleIdentityClass)
         /\ Len(TcbInfoObject.tdxModuleIdentities) = n
    BY <2>1, <2>9
  <2>. QED BY <2>4, <2>5, <2>6, <2>8, <2>10
<1>4. CASE ~HasModuleIdentities
  <2>1. TcbInfoObject.tdxModuleIdentities = <<>> /\ moduleIdentities = <<>>
    BY <1>1, <1>4 DEF IdentitiesKept
  <2>. QED BY <2>1
<1>. QED BY <1>3, <1>4

LEMMA TcbInfoAnswers ==
    ASSUME IInv, IdentitiesKept, pc = "accepted", document.kind = "TcbInfo"
    PROVE  /\ TcbInfoObject \in TcbInfoClass
           /\ getId(TcbInfoObject) = IF IsVersion(V2) THEN {} ELSE { Id(document) }
           /\ IsTdx(document) =>
                 getTdxModule(TcbInfoObject) \subseteq TdxModuleClass \ { NoTdxModule }
           /\ (getTdxModule(TcbInfoObject) # {}) <=> IsTdx(document)
           /\ IsTdx(document) =>
                 getTdxModuleIdentities(TcbInfoObject) = { TcbInfoObject.tdxModuleIdentities }
<1> DEFINE info    == Body(document)
           object  == TcbInfoObject
           tdxModule ==
               IF IsTdx(document) THEN TdxModuleObject(Field(info, "tdxModule")) ELSE NoTdxModule
<1>1. /\ EnvelopeFits /\ TcbInfoFieldsFit /\ TdxPartIsThere /\ document \in Documents
      /\ HasJsonValues(info)
  BY DocumentIsJson DEF IInv, Types, StagesFit, FieldsFit, IsJsonDocument
<1>2. /\ Version(document) \in { 2, 3 } /\ Id(document) \in { SGX_ID, TDX_ID }
      /\ IsVersion(2) <=> Version(document) = 2
      /\ IsTdx(document) <=> Id(document) = TDX_ID
      /\ IsTdx(document) => Version(document) = 3
  BY <1>1, VersionAndId
<1>3. /\ object.id = Id(document) /\ object.version = Version(document)
      /\ object.tdxModule = tdxModule
  BY DEF TcbInfoObject
<1>4. /\ Field(info, "issueDate").time \in Int /\ Field(info, "nextUpdate").time \in Int
      /\ Field(info, "tcbEvaluationDataNumber").number \in Nat
  BY <1>1, DatesAreTimes, NumbersAreNatural DEF TcbInfoFieldsFit, ReadsAs
<1>5. BytesField(info, "fmspc") = 6 /\ BytesField(info, "pceId") = 2
  BY <1>1, BytesAreRead DEF TcbInfoFieldsFit, ReadsAs, HexDigits
<1>6. BytesField(document.root, "signature") = 64
  BY <1>1 DEF TcbInfoFieldsFit, SignatureFits, IsSignature, BytesField,
              ECDSA_P256_SIGNATURE_BYTE_LEN
<1>7. Field(info, "tcbType").number = 0
  BY <1>1 DEF TcbInfoFieldsFit, IsNumberOf
<1>8. IsTdx(document) => tdxModule \in TdxModuleClass \ { NoTdxModule }
  BY <1>1, TdxModulesAreRead DEF TdxPartIsThere
<1>9. tdxModule \in TdxModuleClass \union { NoTdxModule }
  BY <1>8
<1>10. object = [ id |-> Id(document), version |-> Version(document),
                  issueDate |-> Field(info, "issueDate").time,
                  nextUpdate |-> Field(info, "nextUpdate").time,
                  fmspc |-> BytesField(info, "fmspc"), pceId |-> BytesField(info, "pceId"),
                  tcbLevels |-> object.tcbLevels,
                  signature |-> BytesField(document.root, "signature"),
                  tdxModule |-> tdxModule, tdxModuleIdentities |-> object.tdxModuleIdentities,
                  tcbType |-> Field(info, "tcbType").number,
                  tcbEvaluationDataNumber |-> Field(info, "tcbEvaluationDataNumber").number ]
  BY DEF TcbInfoObject
<1>11. /\ object.tcbLevels \in SUBSET TcbLevelClass
       /\ object.tdxModuleIdentities \in Seq(TdxModuleIdentityClass)
  BY TcbLevelObjects, ModuleIdentityObjects
<1>. HIDE DEF info, object, tdxModule
<1>12. object \in TcbInfoClass
  BY <1>2, <1>4, <1>5, <1>6, <1>7, <1>9, <1>10, <1>11
     DEF TcbInfoClass, Bytes, FMSPC_BYTE_LEN, PCEID_BYTE_LEN, ECDSA_P256_SIGNATURE_BYTE_LEN,
         V2, V3
<1>13. getId(object) = IF IsVersion(V2) THEN {} ELSE { Id(document) }
  BY <1>2, <1>3 DEF getId, V2, V3
<1>14. getTdxModule(object) = IF IsTdx(document) THEN { tdxModule } ELSE {}
  <2>1. CASE IsTdx(document)
    BY <1>2, <1>3, <2>1 DEF getTdxModule, V3
  <2>2. CASE ~IsTdx(document)
    BY <1>2, <1>3, <2>2 DEF getTdxModule
  <2>. QED BY <2>1, <2>2
<1>15. IsTdx(document) => getTdxModuleIdentities(object) = { object.tdxModuleIdentities }
  BY <1>2, <1>3 DEF getTdxModuleIdentities, V3
<1>. QED BY <1>8, <1>12, <1>13, <1>14, <1>15 DEF object

LEMMA IdentityLevelAnswers ==
    ASSUME document.kind = "EnclaveIdentity", IsJsonDocument(document),
           ReadsAs("tcbLevels", "array"),
           NEW i \in DOMAIN JsonLevels(document), IsIdentityLevel(JsonLevels(document)[i])
    PROVE  LET level == IdentityTcbLevelObject(JsonLevels(document)[i]) IN
           /\ level \in IdentityTcbLevelClass
           /\ [ isvSvn |-> level.isvSvn, tcbDate |-> level.tcbDate, status |-> level.tcbStatus ]
                = Level(JsonLevels(document)[i])
<1> DEFINE v     == JsonLevels(document)[i]
           tcb   == Field(v, "tcb")
           level == IdentityTcbLevelObject(v)
           text  == Field(v, "tcbStatus").text
<1>1. HasJsonValues(v) /\ HasJsonValues(tcb)
  BY DEF IsJsonDocument, HaveJsonValues, ReadsAs, JsonLevels
<1>2. /\ Reads(Field(tcb, "isvsvn"), "uint") /\ Reads(Field(v, "tcbDate"), "date")
      /\ OptionalOf(v, "advisoryIDs", "strings")
      /\ IsTextOf(Field(v, "tcbStatus"), IdentityStatuses)
  BY DEF IsIdentityLevel, HasLevelFields
<1>3. level = [ isvSvn |-> Field(tcb, "isvsvn").number, tcbDate |-> Field(v, "tcbDate").time,
                tcbStatus |-> parseStringToTcbStatus(StringField(v, "tcbStatus")),
                advisoryIds |-> StringVecField(v, "advisoryIDs") ]
  BY DEF IdentityTcbLevelObject
<1>4. Level(v) = [ isvSvn |-> Field(tcb, "isvsvn").number,
                   tcbDate |-> Field(v, "tcbDate").time, status |-> text ]
  BY DEF Level, SignedLevel
<1>. HIDE DEF v, tcb, level
<1>5. StringField(v, "tcbStatus") = text /\ text \in TcbStatusEnum
  BY <1>2, TextsAreRead DEF IdentityStatuses, TcbStatusEnum
<1>. HIDE DEF text
<1>6. parseStringToTcbStatus(text) = text
  BY <1>5 DEF parseStringToTcbStatus
<1>7. /\ Field(tcb, "isvsvn").number \in Nat /\ Field(v, "tcbDate").time \in Int
      /\ StringVecField(v, "advisoryIDs") \in Seq(STRING)
  BY <1>1, <1>2, NumbersAreNatural, DatesAreTimes, StringVectorsAreRead
<1>8. level \in IdentityTcbLevelClass
  BY <1>3, <1>5, <1>6, <1>7 DEF IdentityTcbLevelClass
<1>9. [ isvSvn |-> level.isvSvn, tcbDate |-> level.tcbDate, status |-> level.tcbStatus ]
        = Level(v)
  BY <1>3, <1>4, <1>5, <1>6
<1>. QED BY <1>8, <1>9 DEF level, v

LEMMA EnclaveIdentityAnswers ==
    ASSUME IInv, pc = "accepted", document.kind = "EnclaveIdentity"
    PROVE  /\ EnclaveIdentityObject \in EnclaveIdentityClass
           /\ { [ isvSvn |-> l.isvSvn, tcbDate |-> l.tcbDate, status |-> l.tcbStatus ] :
                  l \in EnclaveIdentityObject.identityTcbLevels } = levels
<1> DEFINE identity  == Body(document)
           n         == Len(JsonLevels(document))
           object(i) == IdentityTcbLevelObject(JsonLevels(document)[i])
           compared(l) ==
               [ isvSvn |-> l.isvSvn, tcbDate |-> l.tcbDate, status |-> l.tcbStatus ]
           identityLevels == { object(i) : i \in DOMAIN JsonLevels(document) }
<1>1. /\ EnclaveIdentityFieldsFit /\ document \in Documents /\ ReadsAs("tcbLevels", "array")
      /\ IsJsonDocument(document) /\ HasJsonValues(identity)
  BY DocumentIsJson DEF IInv, Types, StagesFit, FieldsFit, IsJsonDocument
<1>2. DOMAIN JsonLevels(document) = 1 .. n
  BY <1>1, LevelsAreASequence
<1>3. /\ levels = { Level(JsonLevels(document)[i]) : i \in 1 .. n }
      /\ \A i \in 1 .. n : IsIdentityLevel(JsonLevels(document)[i])
  BY DEF IInv, LevelsInv, LevelsRead, LevelFits
<1>. HIDE DEF n
<1>4. \A i \in 1 .. n : /\ object(i) \in IdentityTcbLevelClass
                        /\ compared(object(i)) = Level(JsonLevels(document)[i])
  BY <1>1, <1>2, <1>3, IdentityLevelAnswers
<1>. HIDE DEF object, compared
<1>5. /\ identityLevels \in SUBSET IdentityTcbLevelClass
      /\ { compared(l) : l \in identityLevels } = levels
  BY <1>2, <1>3, <1>4
<1>6. EnclaveIdentityObject =
        [ id |-> StringField(identity, "id"), version |-> Version(document),
          issueDate |-> Field(identity, "issueDate").time,
          nextUpdate |-> Field(identity, "nextUpdate").time,
          tcbEvaluationDataNumber |-> Field(identity, "tcbEvaluationDataNumber").number,
          attributes |-> BytesField(identity, "attributes"),
          attributesMask |-> BytesField(identity, "attributesMask"),
          miscselect |-> BytesField(identity, "miscselect"),
          miscselectMask |-> BytesField(identity, "miscselectMask"),
          mrSigner |-> BytesField(identity, "mrsigner"),
          isvProdId |-> Field(identity, "isvprodid").number,
          identityTcbLevels |-> identityLevels,
          signature |-> BytesField(document.root, "signature") ]
  BY DEF EnclaveIdentityObject, object
<1>. HIDE DEF identity, identityLevels
<1>7. /\ IdFits /\ VersionFits /\ ContentFits /\ SignatureFits
  BY <1>1 DEF EnclaveIdentityFieldsFit
<1>8. StringField(identity, "id") \in EnclaveIDs
  BY <1>7, TextsAreRead DEF IdFits, identity
<1>9. Version(document) = 2
  BY <1>7, ReadVersionIsNumber DEF VersionFits
<1>10. /\ Field(identity, "issueDate").time \in Int /\ Field(identity, "nextUpdate").time \in Int
       /\ Field(identity, "tcbEvaluationDataNumber").number \in Nat
       /\ Field(identity, "isvprodid").number \in Nat
  BY <1>1, <1>7, DatesAreTimes, NumbersAreNatural DEF ContentFits, ReadsAs, identity
<1>11. /\ BytesField(identity, "attributes") = 16 /\ BytesField(identity, "attributesMask") = 16
       /\ BytesField(identity, "miscselect") = 4 /\ BytesField(identity, "miscselectMask") = 4
       /\ BytesField(identity, "mrsigner") = 32
  BY <1>7, BytesAreRead DEF ContentFits, ReadsAs, HexDigits, identity
<1>12. BytesField(document.root, "signature") = 64
  BY <1>7 DEF SignatureFits, IsSignature, BytesField, ECDSA_P256_SIGNATURE_BYTE_LEN
<1>13. EnclaveIdentityObject \in EnclaveIdentityClass
  BY <1>5, <1>6, <1>8, <1>9, <1>10, <1>11, <1>12
     DEF EnclaveIdentityClass, Bytes, ECDSA_P256_SIGNATURE_BYTE_LEN, V2
<1>14. EnclaveIdentityObject.identityTcbLevels = identityLevels
  BY <1>6
<1>. QED BY <1>5, <1>13, <1>14 DEF compared

\* The objects that TcbInfo::parse and EnclaveIdentity::parse return have members in the
\* ranges of their classes, and what their accessors answer, the older and the newer ones,
\* is what was signed: no copy of a level's SVNs differs from another, and what belongs to
\* TDX is answered for TDX alone (TcbLevel.cpp 115-196, TcbInfo.cpp 60-72 and 124-152).
THEOREM ObjectsAnswerAsSignedHolds == Spec => []ObjectsAnswerAsSigned
<1>1. IInv /\ IdentitiesKept /\ LevelsAreSigned => ObjectsAnswerAsSigned
  <2>. SUFFICES ASSUME IInv, IdentitiesKept, LevelsAreSigned, pc = "accepted"
                PROVE  ObjectsAnswerAsSigned
    BY DEF ObjectsAnswerAsSigned
  <2>1. CASE document.kind = "TcbInfo"
    <3>1. IsTdx(document) =>
            \E identities \in getTdxModuleIdentities(TcbInfoObject) :
              /\ Len(identities) = Len(moduleIdentities)
              /\ \A i \in DOMAIN identities :
                   Cardinality(identities[i].tcbLevels) = Cardinality(moduleIdentities[i].levels)
      BY <2>1, ModuleIdentityObjects, TcbInfoAnswers
    <3>2. document.kind # "EnclaveIdentity"
      BY <2>1
    <3>. QED BY <2>1, <3>1, <3>2, TcbLevelObjects, TcbInfoAnswers DEF ObjectsAnswerAsSigned
  <2>2. CASE document.kind = "EnclaveIdentity"
    <3>1. document.kind # "TcbInfo"
      BY <2>2
    <3>. QED BY <2>2, <3>1, EnclaveIdentityAnswers DEF ObjectsAnswerAsSigned
  <2>3. document.kind \in { "TcbInfo", "EnclaveIdentity" }
    BY DocumentIsJson DEF IInv, Types
  <2>. QED BY <2>1, <2>2, <2>3
<1>. QED BY <1>1, Invariance, IdentitiesAreKept, LevelsAreSignedHolds, PTL

===============================================================================
