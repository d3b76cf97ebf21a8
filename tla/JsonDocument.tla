----------------------------- MODULE JsonDocument -----------------------------
(***************************************************************************)
(* What TcbInfo and EnclaveIdentity do with the document that JsonReader   *)
(* has built: fields of the body are read by their names, the depth of the *)
(* body is measured, and the body is written again.  What is written is    *)
(* what the signature of the collateral is verified over.  Two fields that *)
(* an EnclaveIdentity needs stand for all, a number and a text; what is    *)
(* accepted as their values is in CollateralParser.                        *)
(***************************************************************************)
EXTENDS JsonReader

CONSTANTS
    BODY, VERSION, ID,  \* names of members, as characters
    MAX_JSON_DEPTH      \* MAX_TCB_INFO_JSON_DEPTH, MAX_ENCLAVE_IDENTITY_JSON_DEPTH

VARIABLES
    jsonStep,
    fields,     \* what the getters have given
    toVisit,    \* stack of isWithinJsonDepthLimit: values and their depths
    calls,      \* of Accept that have not returned: the value and how many items are written
    writer      \* level_stack_ and os_ of the writer

jsonVars == <<jsonText, rest, state, scopes, values, error, jsonStep, fields, toVisit, calls, writer>>

(***************************************************************************)
(* JsonParser.                                                             *)
(***************************************************************************)
\* Fault: the last member of a name is found.
FindMember_Last(v, name) ==
    LET named == { k \in DOMAIN v.items : v.items[k].name = name }
    IN  IF named = { } THEN { } ELSE { v.items[CHOOSE k \in named : \A j \in named : j <= k].value }

\* DoFindMember: the first member of that name and length, if any.
FindMember(v, name) ==
    LET named == { k \in DOMAIN v.items : v.items[k].name = name }
    IN  IF named = { } THEN { } ELSE { v.items[CHOOSE k \in named : \A j \in named : k <= j].value }

\* A std::string made of GetString() ends at the first NUL.
GetString(chars) ==
    LET ends == { k \in DOMAIN chars : chars[k] = "NUL" }
    IN  IF ends = { } THEN chars ELSE SubSeq(chars, 1, (CHOOSE k \in ends : \A j \in ends : k <= j) - 1)

\* getUintFieldOf and getStringFieldOf with a field that is needed: what was read, if it was.
getUintFieldOf(parent, name) ==
    { v.number : v \in { w \in FindMember(parent, name) : "Uint" \in w.is } }

getStringFieldOf(parent, name) ==
    { GetString(v.chars) : v \in { w \in FindMember(parent, name) : w.type = "string" } }

\* getField for the body, which has to be an object.
Bodies ==
    IF values[1].type # "object" THEN { }
    ELSE { v \in FindMember(values[1], BODY) : v.type = "object" }

TheBody == CHOOSE v \in Bodies : TRUE

\* The parsers refuse the text without any of them.
ReadFields ==
    /\ jsonStep = "reading" /\ Parsed
    /\ IF \/ Bodies = { }
          \/ getUintFieldOf(TheBody, VERSION) = { } \/ getStringFieldOf(TheBody, ID) = { }
       THEN jsonStep' = "refused" /\ UNCHANGED <<fields, toVisit>>
       ELSE /\ \E n \in getUintFieldOf(TheBody, VERSION), chars \in getStringFieldOf(TheBody, ID) :
                  fields' = [ version |-> n, id |-> chars ]
            /\ toVisit' = << [ value |-> TheBody, depth |-> 1 ] >>
            /\ jsonStep' = "depth"
    /\ UNCHANGED <<jsonText, readerVars, calls, writer>>

(***************************************************************************)
(* isWithinJsonDepthLimit.                                                 *)
(***************************************************************************)
\* Fault: an object is let in at the depth of the limit.
TooDeep_ByOne(node) == node.value.items # << >> /\ node.depth > MAX_JSON_DEPTH

TooDeep(node) == node.value.items # << >> /\ node.depth >= MAX_JSON_DEPTH

Below(node) ==
    [ k \in DOMAIN node.value.items |-> [ value |-> node.value.items[k].value, depth |-> node.depth + 1 ] ]

Visit ==
    /\ jsonStep = "depth" /\ toVisit # << >>
    /\ IF TooDeep(Last(toVisit)) THEN jsonStep' = "tooDeep" /\ UNCHANGED toVisit
       ELSE toVisit' = Front(toVisit) \o Below(Last(toVisit)) /\ UNCHANGED jsonStep
    /\ UNCHANGED <<jsonText, readerVars, fields, calls, writer>>

(***************************************************************************)
(* Writer.                                                                 *)
(***************************************************************************)
IsContainer(v) == v.type \in { "object", "array" }

EscapedAs == [ quote |-> "short", newline |-> "short", backslash |-> "short", unit |-> "u", NUL |-> "u" ]

\* WriteString: what may not stand in a string is escaped, by four digits if it has no
\* short form; all else stands as it is, as the target is UTF-8.
StringLexeme(chars) ==
    [ Lexeme("\"") EXCEPT !.pieces =
        [ k \in DOMAIN chars |->
            [ how |-> IF chars[k] \in DOMAIN EscapedAs THEN EscapedAs[chars[k]] ELSE "plain",
              ch |-> chars[k] ] ] ]

RECURSIVE Decimal(_)
Decimal(n) == IF n < 10 THEN << n >> ELSE Append(Decimal(n \div 10), n % 10)

\* i32toa, u32toa, i64toa, u64toa.
IntegerLexeme(n) ==
    [ Lexeme(IF n < 0 THEN "minus" ELSE "digit") EXCEPT !.digits = Decimal(IF n < 0 THEN -n ELSE n) ]

DoubleLexeme == [ Lexeme("digit") EXCEPT !.digits = << 1 >>, !.tail = "double" ]

\* The calls of a scalar's Accept.
ScalarLexeme(v) ==
    CASE v.type = "string" -> StringLexeme(v.chars)
      [] v.type = "number" /\ "Double" \in v.is -> DoubleLexeme
      [] v.type = "number" -> IntegerLexeme(v.number)
      [] OTHER -> Lexeme(CHOOSE c \in DOMAIN Words : Words[c] = v.type)

Opening(v) == Lexeme(IF v.type = "object" THEN "{" ELSE "[")
Closing(v) == Lexeme(IF v.type = "object" THEN "}" ELSE "]")

\* Prefix: names and values of an object are counted together.
Prefix(w) ==
    IF w.levels = << >> THEN w
    ELSE LET level == Last(w.levels)
             mark  == IF level.valueCount = 0 THEN << >>
                      ELSE IF level.inArray \/ level.valueCount % 2 = 0 THEN << Lexeme(",") >>
                      ELSE << Lexeme(":") >>
         IN  [ levels |-> [ w.levels EXCEPT ![Len(w.levels)].valueCount = @ + 1 ],
               os |-> w.os \o mark ]

Put(w, lex) == [ Prefix(w) EXCEPT !.os = Append(@, lex) ]

\* StartObject and StartArray, or the call for a scalar.
Begin(w, v) ==
    IF ~IsContainer(v) THEN Put(w, ScalarLexeme(v))
    ELSE [ Put(w, Opening(v)) EXCEPT
             !.levels = Append(@, [ inArray |-> v.type = "array", valueCount |-> 0 ]) ]

AcceptCall(v) == [ value |-> v, done |-> 0 ]

NoOutput == [ levels |-> << >>, os |-> << >> ]

StartWriting ==
    /\ jsonStep = "depth" /\ toVisit = << >>
    /\ writer' = Begin(NoOutput, TheBody)
    /\ calls' = << AcceptCall(TheBody) >>
    /\ jsonStep' = "writing"
    /\ UNCHANGED <<jsonText, readerVars, fields, toVisit>>

Running == Last(calls)

\* Accept: the next member or element; the call for an object or an array in it begins.
AcceptItem ==
    /\ jsonStep = "writing" /\ Running.done < Len(Running.value.items)
    /\ LET item  == Running.value.items[Running.done + 1]
           named == IF Running.value.type = "object" THEN Put(writer, StringLexeme(item.name)) ELSE writer
       IN  /\ writer' = Begin(named, item.value)
           /\ calls' = [ calls EXCEPT ![Len(calls)].done = @ + 1 ]
                         \o (IF IsContainer(item.value) THEN << AcceptCall(item.value) >> ELSE << >>)
    /\ UNCHANGED <<jsonText, readerVars, fields, toVisit, jsonStep>>

\* EndObject, EndArray.
AcceptReturns ==
    /\ jsonStep = "writing" /\ Running.done = Len(Running.value.items)
    /\ writer' = [ levels |-> Front(writer.levels), os |-> Append(writer.os, Closing(Running.value)) ]
    /\ calls' = Front(calls)
    /\ jsonStep' = IF Len(calls) = 1 THEN "written" ELSE "writing"
    /\ UNCHANGED <<jsonText, readerVars, fields, toVisit>>

JsonStart ==
    /\ jsonStep = "reading"
    /\ fields = [ version |-> 0, id |-> << >> ]
    /\ toVisit = << >>
    /\ calls = << >>
    /\ writer = NoOutput
    /\ ReaderStart

JsonInit == jsonText \in JsonTexts /\ JsonStart

\* A turn of the reader; a text that cannot be parsed is refused.
ReadText ==
    /\ jsonStep = "reading"
    /\ ReaderNext
    /\ jsonStep' = IF error' # NoError THEN "refused" ELSE "reading"
    /\ UNCHANGED <<jsonText, fields, toVisit, calls, writer>>

JsonNext == ReadText \/ ReadFields \/ Visit \/ StartWriting \/ AcceptItem \/ AcceptReturns

JsonDone == jsonStep \in { "refused", "tooDeep", "written" }

(***************************************************************************)
(* The text a value has, and the shortest spelling of a text: no spaces,   *)
(* no more escapes than the characters need, integers as far as 64 bits    *)
(* hold them.                                                              *)
(***************************************************************************)
RECURSIVE Lexemes(_)
Lexemes(v) ==
    IF ~IsContainer(v) THEN << ScalarLexeme(v) >>
    ELSE LET name(k) == IF v.type = "array" THEN << >>
                        ELSE << StringLexeme(v.items[k].name), Lexeme(":") >>
             item(k) == name(k) \o Lexemes(v.items[k].value)
             listed  == [ k \in DOMAIN v.items |-> IF k = 1 THEN item(k) ELSE << Lexeme(",") >> \o item(k) ]
         IN  << Opening(v) >> \o FlattenSeq(listed) \o << Closing(v) >>

NormalNumber(lex) ==
    LET n == FoldLeft(LAMBDA sum, digit : 10 * sum + digit, 0, lex.digits)
        signed == IF lex.first = "minus" THEN -n ELSE n
    IN  IF lex.digits = << >> \/ (Head(lex.digits) = 0 /\ Len(lex.digits) > 1)
             \/ lex.tail \in DOMAIN NumberErrors THEN lex
        ELSE IF lex.tail = "double" \/ IntegerValue(signed).is = { } THEN DoubleLexeme
        ELSE IntegerLexeme(signed)

NormalLexeme(lex) ==
    CASE lex.first = "\"" ->
           LET read == ParseString(lex) IN IF read.error = NoError THEN StringLexeme(read.value.chars) ELSE lex
      [] lex.first \in { "minus", "digit" } -> NormalNumber(lex)
      [] OTHER -> lex

Normal(txt) ==
    LET black == SelectSeq(SubSeq(txt, 1, SelectInSeq(Append(txt, Lexeme("NUL")), LAMBDA lex : lex.first = "NUL") - 1),
                           LAMBDA lex : lex.first # "space")
    IN  [ k \in DOMAIN black |-> NormalLexeme(black[k]) ]

(***************************************************************************)
(* The grammar of RFC 8259.                                                *)
(***************************************************************************)
IsString(lex) ==
    LET how(k) == lex.pieces[k].how IN
    /\ lex.first = "\"" /\ lex.whole
    /\ \A k \in DOMAIN lex.pieces :
         /\ how(k) \notin { "noEscape", "noHex" }
         /\ how(k) = "plain" => lex.pieces[k].ch \notin { "NUL", "newline", "unit" }
         /\ how(k) = "high" => k < Len(lex.pieces) /\ how(k + 1) = "low"
         /\ how(k) = "low" => k > 1 /\ how(k - 1) = "high"

IsNumber(lex) ==
    /\ lex.first \in { "minus", "digit" } /\ lex.digits # << >>
    /\ Head(lex.digits) = 0 => Len(lex.digits) = 1
    /\ lex.tail \in { "none", "double" }

IsWord(lex) == lex.first \in DOMAIN Words /\ lex.whole

\* The place behind the value, and behind the list of items with its closing bracket,
\* that begins at a place of a text; 0 when there is none.
RECURSIVE ValueEnd(_, _), ItemsEnd(_, _, _)
ValueEnd(txt, k) ==
    CASE k > Len(txt) -> 0
      [] k <= Len(txt) /\ txt[k].first \in { "{", "[" } ->
           LET closing == IF txt[k].first = "{" THEN "}" ELSE "]" IN
           IF Peek(SubSeq(txt, k + 1, Len(txt))) = closing THEN k + 2 ELSE ItemsEnd(txt, k + 1, closing)
      [] OTHER -> IF IsString(txt[k]) \/ IsNumber(txt[k]) \/ IsWord(txt[k]) THEN k + 1 ELSE 0

ItemsEnd(txt, k, closing) ==
    LET named == k + 1 <= Len(txt) /\ IsString(txt[k]) /\ txt[k + 1].first = ":"
        end   == IF closing = "]" THEN ValueEnd(txt, k) ELSE IF named THEN ValueEnd(txt, k + 2) ELSE 0
        mark  == Peek(SubSeq(txt, end, Len(txt)))
    IN  IF end = 0 THEN 0
        ELSE IF mark = closing THEN end + 1
        ELSE IF mark = "," THEN ItemsEnd(txt, end + 1, closing) ELSE 0

IsJson(txt) == ValueEnd(txt, 1) = Len(txt) + 1

\* How many objects and arrays are around the place in a text.
Level(txt, place) ==
    Cardinality({ k \in 1..(place - 1) : txt[k].first \in { "{", "[" } })
      - Cardinality({ k \in 1..(place - 1) : txt[k].first \in { "}", "]" } })

\* What stands in the text of an object behind the first member of the name.
Named(txt, name) ==
    LET places == { k \in 2..(Len(txt) - 2) :
                      txt[k] = StringLexeme(name) /\ txt[k + 1] = Lexeme(":") /\ Level(txt, k) = 1 }
    IN  txt[(CHOOSE k \in places : \A j \in places : k <= j) + 2]

RECURSIVE Height(_)
Height(v) ==
    1 + (IF v.items = << >> THEN 0
         ELSE LET heights == { Height(v.items[k].value) : k \in DOMAIN v.items }
              IN  CHOOSE h \in heights : \A other \in heights : other <= h)

\* The iterative reader accepts the texts of the grammar and no others, whatever their
\* whitespace, escapes and spelling of numbers, except numbers too big for a double, and
\* builds the document that the text spells (reader.h:2191, document.h:2800).
TextMeansTheDocument ==
    /\ Parsed => Len(values) = 1 /\ scopes = << >> /\ Normal(jsonText) = Lexemes(values[1])
    /\ jsonStep # "reading" => (error = NoError) = IsJson(Normal(jsonText))

\* What the signature is verified over holds, behind the first member of its name, the
\* version and the id that were read from the document, and stands in the text as the
\* first body (TcbInfo.cpp:330, EnclaveIdentity.cpp:275).
SignedIsRead ==
    jsonStep = "written" =>
        /\ Named(writer.os, VERSION) = IntegerLexeme(fields.version)
        /\ GetString(ParseString(Named(writer.os, ID)).value.chars) = fields.id
        /\ LET txt == Normal(jsonText)
               bodies == { k \in 3..Len(txt) : txt[k - 2] = StringLexeme(BODY) /\ txt[k - 1] = Lexeme(":")
                                                 /\ Level(txt, k) = 1 }
               first == CHOOSE k \in bodies : \A j \in bodies : k <= j
           IN  writer.os = SubSeq(txt, first, first + Len(writer.os) - 1)

\* The calls of Accept, which is recursive, are never more than the limit, the one for a
\* scalar included; and only a body that would need more is refused (JsonParser.cpp:47).
WritingStaysShallow ==
    /\ jsonStep = "writing" =>
         /\ Len(calls) <= MAX_JSON_DEPTH
         /\ Running.value.items # << >> => Len(calls) < MAX_JSON_DEPTH
    /\ jsonStep = "tooDeep" => Height(TheBody) > MAX_JSON_DEPTH
===============================================================================
