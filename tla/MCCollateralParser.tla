-------------------------- MODULE MCCollateralParser --------------------------
(***************************************************************************)
(* Documents for TLC: right ones of every kind and version, with one field *)
(* of one object missing or of another type, with two of their fields      *)
(* wrong at once, and with all lists of up to three levels whose numbers   *)
(* are near each other.                                                    *)
(***************************************************************************)
EXTENDS CollateralParser, TLC

With(v, field, new) ==
    [ v EXCEPT !.members = [ f \in DOMAIN @ \union {field} |-> IF f = field THEN new ELSE @[f] ] ]

Without(v, field) == [ v EXCEPT !.members = [ f \in DOMAIN @ \ {field} |-> @[f] ] ]

WrongValues ==
    { Other, Text("unknown"), Number(-1), Number(1), Number(7), Number(70000), Date(3), Hex(14),
      Array(<<>>), Array(<<Other>>), Object(<<>>) }

\* v with field missing, or there but wrong.
Bends(v, field) == { Without(v, field) } \union { With(v, field, w) : w \in WrongValues }

AllBends(v) == UNION { Bends(v, field) : field \in DOMAIN v.members }

(***************************************************************************)
(* Right values.                                                           *)
(***************************************************************************)
Component(svn) ==
    Object([ svn |-> Number(svn), category |-> Text("BIOS"), type |-> Text("late") ])

Components(svns) == Array([ i \in DOMAIN svns |-> Component(svns[i]) ])

LevelObject(tcb, date, status) ==
    Object([ tcb |-> Object(tcb), tcbDate |-> Date(date), tcbStatus |-> Text(status),
             advisoryIDs |-> Array(<<Text("INTEL-SA")>>) ])

LevelV2(sgx, pceSvn) ==
    [ sgxtcbcomp01svn |-> Number(sgx[1]), sgxtcbcomp02svn |-> Number(sgx[2]),
      pcesvn |-> Number(pceSvn) ]

LevelSgx(sgx, pceSvn) == [ sgxtcbcomponents |-> Components(sgx), pcesvn |-> Number(pceSvn) ]

LevelTdx(sgx, tdx, pceSvn) ==
    LevelSgx(sgx, pceSvn) @@ [ tdxtcbcomponents |-> Components(tdx) ]

ModuleLevel(svn) == LevelObject([ isvsvn |-> Number(svn) ], 1, "UpToDate")

Module == Object([ mrsigner |-> Hex(96), attributes |-> Hex(16), attributesMask |-> Hex(16) ])

ModuleIdentityOf(moduleLevels) ==
    With(With(Module, "id", Text("TDX_01")), "tcbLevels", Array(moduleLevels))

TcbInfo(version, id, jsonLevels) ==
    Object([ version |-> Number(version), id |-> Text(id), issueDate |-> Date(1),
             nextUpdate |-> Date(2), fmspc |-> Hex(12), pceId |-> Hex(4),
             tcbType |-> Number(0), tcbEvaluationDataNumber |-> Number(1),
             tcbLevels |-> Array(jsonLevels) ])

TdxInfo(jsonLevels, identities) ==
    With(With(TcbInfo(3, "TDX", jsonLevels), "tdxModule", Module),
         "tdxModuleIdentities", Array(identities))

Identity(jsonLevels) ==
    Object([ id |-> Text("QE"), version |-> Number(2), issueDate |-> Date(1),
             nextUpdate |-> Date(2), tcbEvaluationDataNumber |-> Number(1),
             miscselect |-> Hex(8), miscselectMask |-> Hex(8), attributes |-> Hex(32),
             attributesMask |-> Hex(32), mrsigner |-> Hex(64), isvprodid |-> Number(1),
             tcbLevels |-> Array(jsonLevels) ])

Root(kind, body) ==
    Object((IF kind = "TcbInfo" THEN "tcbInfo" ELSE "enclaveIdentity") :> body
           @@ "signature" :> Hex(128))

Document(kind, body) == [ kind |-> kind, root |-> Root(kind, body), nesting |-> 7 ]

(***************************************************************************)
(* Documents.                                                              *)
(***************************************************************************)
V2Level  == LevelObject(LevelV2(<<1, 1>>, 1), 1, "UpToDate")
SgxLevel == LevelObject(LevelSgx(<<1, 1>>, 1), 1, "UpToDate")
TdxLevel == LevelObject(LevelTdx(<<1, 1>>, <<1, 1>>, 1), 1, "UpToDate")
IdLevel  == LevelObject([ isvsvn |-> Number(1) ], 1, "UpToDate")

AModuleIdentity == ModuleIdentityOf(<<ModuleLevel(1), ModuleLevel(0)>>)

Right ==
    { Document("TcbInfo", TcbInfo(2, "unknown", <<V2Level>>)),
      Document("TcbInfo", TcbInfo(2, "TDX", <<V2Level>>)),
      Document("TcbInfo", TcbInfo(3, "SGX", <<SgxLevel>>)),
      Document("TcbInfo", TdxInfo(<<TdxLevel>>, <<AModuleIdentity>>)),
      Document("TcbInfo", Without(TdxInfo(<<TdxLevel>>, <<>>), "tdxModuleIdentities")),
      Document("EnclaveIdentity", Identity(<<IdLevel>>)) }

\* A fault in root, in the body, or in both; documents nested near the limit.
BentRoots ==
    { [ d EXCEPT !.root = r ] : r \in UNION { AllBends(d.root) : d \in Right } \union { Other },
                                d \in Right }

BentBodies ==
    { Document(d.kind, b) : b \in UNION { AllBends(Body(d)) : d \in Right }, d \in Right }

TwiceBentBodies ==
    UNION { { Document(d.kind, With(b, "version", Number(n))) :
                b \in AllBends(Body(d)), n \in { 2, 3, 4 } } : d \in Right }

UnsignedBodies ==
    UNION { { [ Document(d.kind, b) EXCEPT !.root = With(@, "signature", Text("short")) ] :
                b \in AllBends(Body(d)) } : d \in Right }

Nested == { [ d EXCEPT !.nesting = n ] : d \in Right, n \in { 31, 32, 33 } }

\* Faults in a level, its tcb, a component; a second level that is right.
BentTcbs(level) == { With(level, "tcb", tcb) : tcb \in AllBends(level.members.tcb) }

BentComponents(level, field) ==
    { With(level, "tcb", With(level.members.tcb, field, components)) :
        components \in
            { Array(<<Component(1), c>>) : c \in AllBends(Component(1)) \union { Other } }
            \union { Array(<<Component(1)>>) } }

BentLevels(level) == { Other } \union AllBends(level) \union BentTcbs(level)

BentLevelDocuments ==
    { Document("TcbInfo", TcbInfo(2, "SGX", <<l>>)) : l \in BentLevels(V2Level) }
    \union { Document("TcbInfo", TcbInfo(3, "SGX", <<l>>)) :
               l \in BentLevels(SgxLevel) \union BentComponents(SgxLevel, "sgxtcbcomponents") }
    \union { Document("TcbInfo", TdxInfo(<<l>>, <<AModuleIdentity>>)) :
               l \in BentLevels(TdxLevel) \union BentComponents(TdxLevel, "tdxtcbcomponents") }
    \union { Document("EnclaveIdentity", Identity(<<l>>)) : l \in BentLevels(IdLevel) }

BentModules ==
    { Document("TcbInfo", With(TdxInfo(<<TdxLevel>>, <<AModuleIdentity>>), "tdxModule", m)) :
        m \in AllBends(Module) }
    \union
    { Document("TcbInfo", TdxInfo(<<TdxLevel>>, identities)) :
        identities \in
            { <<AModuleIdentity, m>> : m \in AllBends(AModuleIdentity) \union { Other } }
            \union { <<ModuleIdentityOf(<<l, ModuleLevel(2)>>)>> :
                       l \in BentLevels(ModuleLevel(1)) }
            \union { <<>>, <<ModuleIdentityOf(<<ModuleLevel(1), ModuleLevel(1)>>)>>,
                     <<ModuleIdentityOf(<<>>)>> } }

\* Lists of levels. The numbers of a TDX level decide one after the other.
Svn == { <<0, 2>>, <<1, 0>>, <<1, 256>> }

SgxLevels ==
    { LevelObject(LevelSgx(sgx, pceSvn), 1, status) :
        sgx \in Svn, pceSvn \in 0 .. 1, status \in { "UpToDate", "SWHardeningNeeded" } }

V2Levels == { LevelObject(LevelV2(sgx, pceSvn), 1, "UpToDate") : sgx \in Svn, pceSvn \in 0 .. 1 }

TdxLevels ==
    { LevelObject(LevelTdx(<<1, second>>, tdx, pceSvn), 1, "Revoked") :
        second \in 0 .. 1, tdx \in { <<0, 1>>, <<1, 0>> }, pceSvn \in 0 .. 1 }

IdLevels ==
    { LevelObject([ isvsvn |-> Number(svn) ], date, status) :
        svn \in 0 .. 2, date \in 1 .. 2, status \in { "UpToDate", "Revoked" } }

Lists(set) == UNION { [ 1 .. n -> set ] : n \in 0 .. 2 }

ListsOfThree(set) == Lists(set) \union [ 1 .. 3 -> set ]

LevelLists ==
    { Document("TcbInfo", TcbInfo(2, "SGX", list)) : list \in Lists(V2Levels) }
    \union { Document("TcbInfo", TcbInfo(3, "SGX", list)) : list \in Lists(SgxLevels) }
    \union { Document("TcbInfo", TdxInfo(list, <<AModuleIdentity>>)) :
               list \in ListsOfThree(TdxLevels) }
    \union { Document("EnclaveIdentity", Identity(list)) : list \in ListsOfThree(IdLevels) }

McDocuments ==
    Right \union BentRoots \union BentBodies \union TwiceBentBodies \union UnsignedBodies
    \union Nested \union BentLevelDocuments \union BentModules \union LevelLists

McPlatforms ==
    { [ sgx |-> [ i \in SvnIndex |-> sgx[i + 1] ], tdx |-> [ i \in SvnIndex |-> tdx[i + 1] ],
        pceSvn |-> pceSvn, isvSvn |-> isvSvn ] :
        sgx \in { <<0, 2>>, <<1, 0>>, <<1, 1>>, <<1, 2>> },
        tdx \in { <<0, 1>>, <<1, 0>>, <<1, 1>> },
        pceSvn \in 0 .. 1, isvSvn \in 0 .. 2 }
===============================================================================
