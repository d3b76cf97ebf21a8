------------------------------ MODULE JsonReader ------------------------------
(***************************************************************************)
(* JsonParser::parse: rapidjson's iterative reader (reader.h) turns the    *)
(* text into calls of the document (document.h), which keeps values on a   *)
(* stack.  A text is a sequence of lexemes, and one turn of the loop is    *)
(* one action.                                                             *)
(*                                                                         *)
(* A lexeme is what follows its first character `first`: of a string the   *)
(* pieces up to its closing quotation mark, of a number the digits of the  *)
(* integer part and what comes after them, of a word if it is whole.       *)
(***************************************************************************)
EXTENDS Integers, Sequences, SequencesExt, FiniteSets

CONSTANTS
    JsonTexts,      \* texts that are parsed
    NUMBER_BITS     \* of int and of unsigned; an int64_t has twice as many

VARIABLES
    jsonText,
    rest,           \* the text from the place of the stream on
    state,          \* IterativeParsingState
    scopes,         \* the reader's stack: the state to return to, the members so far
    values,         \* the document's stack
    error           \* parseResult_

readerVars == <<rest, state, scopes, values, error>>

NoError == "None"

(***************************************************************************)
(* Values of the document.  The members of an object and the elements of   *)
(* an array are its items; the name of an element is empty.                *)
(***************************************************************************)
JsonValue(type) == [ type |-> type, is |-> { }, number |-> 0, chars |-> << >>, items |-> << >> ]

StringValue(chars) == [ JsonValue("string") EXCEPT !.chars = chars ]

NumberValue(flags, n) == [ JsonValue("number") EXCEPT !.is = flags, !.number = n ]

\* The constructors of GenericValue: the types that hold the number.
IntegerTypes ==
    [ Int    |-> << -(2^(NUMBER_BITS - 1)), 2^(NUMBER_BITS - 1) - 1 >>,
      Uint   |-> << 0, 2^NUMBER_BITS - 1 >>,
      Int64  |-> << -(2^(2 * NUMBER_BITS - 1)), 2^(2 * NUMBER_BITS - 1) - 1 >>,
      Uint64 |-> << 0, 2^(2 * NUMBER_BITS) - 1 >> ]

IntegerValue(n) ==
    NumberValue({ t \in DOMAIN IntegerTypes : IntegerTypes[t][1] <= n /\ n <= IntegerTypes[t][2] }, n)

\* What a double holds is left out; no getter of the parsers reads one.
DoubleValue == NumberValue({ "Double" }, 0)

(***************************************************************************)
(* Lexemes.                                                                *)
(***************************************************************************)
Lexeme(first) == [ first |-> first, pieces |-> << >>, whole |-> TRUE, digits |-> << >>, tail |-> "none" ]

\* Peek: nothing is read past the first NUL or the end.
Peek(txt) == IF txt = << >> THEN "NUL" ELSE Head(txt).first

SkipWhitespace(txt) ==
    LET black == { k \in DOMAIN txt : txt[k].first # "space" }
    IN  IF black = { } THEN << >>
        ELSE SubSeq(txt, CHOOSE k \in black : \A j \in black : k <= j, Len(txt))

Tokenize(first) ==
    CASE first = "[" -> "LeftBracket"
      [] first = "]" -> "RightBracket"
      [] first = "{" -> "LeftCurlyBracket"
      [] first = "}" -> "RightCurlyBracket"
      [] first = "," -> "Comma"
      [] first = ":" -> "Colon"
      [] first = "\"" -> "String"
      [] OTHER -> "Scalar"      \* the tokens of the words and of a number

Scalars == { "String", "Scalar" }

(***************************************************************************)
(* ParseString.  A piece is a character as it stands, an escaped one, or   *)
(* \u with four digits that are a character, half of a pair or no digits.  *)
(***************************************************************************)
ReadOk(v, left) == [ error |-> NoError, value |-> v, left |-> left ]
ReadFails(code) == [ error |-> code, value |-> JsonValue("null"), left |-> << >> ]

\* ParseStringToStream, one piece (or a pair of them) at a time.
RECURSIVE Chars(_, _, _)
Chars(pieces, whole, got) ==
    IF pieces = << >>
    THEN IF whole THEN ReadOk(StringValue(got), << >>) ELSE ReadFails("StringMissQuotationMark")
    ELSE LET p == Head(pieces) IN
         CASE p.how = "plain" /\ p.ch = "NUL" -> ReadFails("StringMissQuotationMark")
           [] p.how = "plain" /\ p.ch \in { "newline", "unit" } -> ReadFails("StringInvalidEncoding")
           [] p.how = "noEscape" -> ReadFails("StringEscapeInvalid")
           [] p.how = "noHex" -> ReadFails("StringUnicodeEscapeInvalidHex")
           [] p.how = "low" -> ReadFails("StringUnicodeSurrogateInvalid")
           [] p.how = "high" ->
                IF Len(pieces) > 1 /\ pieces[2].how = "noHex"
                THEN ReadFails("StringUnicodeEscapeInvalidHex")
                ELSE IF Len(pieces) > 1 /\ pieces[2].how = "low"
                     THEN Chars(Tail(Tail(pieces)), whole, Append(got, "astral"))
                     ELSE ReadFails("StringUnicodeSurrogateInvalid")
           [] OTHER -> Chars(Tail(pieces), whole, Append(got, p.ch))

ParseString(lex) == Chars(lex.pieces, lex.whole, << >>)

(***************************************************************************)
(* ParseNumber.                                                            *)
(***************************************************************************)
\* The number with one more digit is not above the limit.
MoreDigits(n, digit, limit) ==
    n < limit \div 10 \/ (n = limit \div 10 /\ digit <= limit % 10)

RECURSIVE ParseDigits(_, _, _)
ParseDigits(n, digits, limit) ==
    IF digits = << >> \/ ~MoreDigits(n, Head(digits), limit)
    THEN [ n |-> n, left |-> digits ]
    ELSE ParseDigits(n * 10 + Head(digits), Tail(digits), limit)

Limit(minus, bits) == IF minus THEN 2^(bits - 1) ELSE 2^bits - 1

\* A number that begins with 0 ends there; one that does not fit into 32 bits is read on
\* in 64, and one that does not fit there as a double.
ParseInteger(minus, digits) ==
    IF Head(digits) = 0 THEN [ n |-> 0, left |-> Tail(digits), fits |-> TRUE ]
    ELSE LET short == ParseDigits(Head(digits), Tail(digits), Limit(minus, NUMBER_BITS))
             long  == ParseDigits(short.n, short.left, Limit(minus, 2 * NUMBER_BITS))
         IN  [ n |-> long.n, left |-> << >>, fits |-> long.left = << >> ]

NumberErrors ==
    [ noFraction |-> "NumberMissFraction", noExponent |-> "NumberMissExponent",
      tooBig |-> "NumberTooBig" ]

ParseNumber(lex) ==
    IF lex.first \notin { "minus", "digit" } \/ lex.digits = << >> THEN ReadFails("ValueInvalid")
    ELSE LET minus == lex.first = "minus"
             int   == ParseInteger(minus, lex.digits)
         IN  IF int.left # << >>
             THEN ReadOk(IntegerValue(0), << [ lex EXCEPT !.first = "digit", !.digits = int.left ] >>)
             ELSE IF lex.tail \in DOMAIN NumberErrors THEN ReadFails(NumberErrors[lex.tail])
             ELSE IF lex.tail = "double" \/ ~int.fits THEN ReadOk(DoubleValue, << >>)
             ELSE ReadOk(IntegerValue(IF minus THEN -int.n ELSE int.n), << >>)

Words == [ n |-> "null", t |-> "true", f |-> "false" ]

\* ParseNull, ParseTrue and ParseFalse.
ParseWord(lex) ==
    IF lex.whole THEN ReadOk(JsonValue(Words[lex.first]), << >>) ELSE ReadFails("ValueInvalid")

ParseValue(lex) ==
    CASE lex.first \in DOMAIN Words -> ParseWord(lex)
      [] lex.first = "\"" -> ParseString(lex)
      [] OTHER -> ParseNumber(lex)

(***************************************************************************)
(* IterativeParse.                                                         *)
(***************************************************************************)
AwaitsValue == { "Start", "ArrayInitial", "ElementDelimiter", "KeyValueDelimiter" }

\* The state after a value of an array, after one of a member, and after the root.
AfterValue(s) ==
    CASE s \in { "ArrayInitial", "ElementDelimiter" } -> "Element"
      [] s = "KeyValueDelimiter" -> "MemberValue"
      [] OTHER -> "Value"

Predict(s, token) ==
    CASE s \in AwaitsValue /\ token = "LeftBracket" -> "ArrayInitial"
      [] s \in AwaitsValue /\ token = "LeftCurlyBracket" -> "ObjectInitial"
      [] s \in AwaitsValue /\ token \in Scalars -> AfterValue(s)
      [] s \in { "ArrayInitial", "ElementDelimiter", "Element" } /\ token = "RightBracket" -> "ArrayFinish"
      [] s = "Element" /\ token = "Comma" -> "ElementDelimiter"
      [] s \in { "ObjectInitial", "MemberDelimiter" } /\ token = "String" -> "MemberKey"
      [] s \in { "ObjectInitial", "MemberDelimiter", "MemberValue" } /\ token = "RightCurlyBracket" -> "ObjectFinish"
      [] s = "MemberKey" /\ token = "Colon" -> "KeyValueDelimiter"
      [] s = "MemberValue" /\ token = "Comma" -> "MemberDelimiter"
      [] OTHER -> "Error"

Parsing  == error = NoError /\ Peek(rest) # "NUL"
Foreseen == Predict(state, Tokenize(Peek(rest)))

Take == SkipWhitespace(Tail(rest))

\* HandleError.
StateErrors ==
    [ Start |-> "DocumentEmpty", Finish |-> "DocumentRootNotSingular",
      ObjectInitial |-> "ObjectMissName", MemberDelimiter |-> "ObjectMissName",
      MemberKey |-> "ObjectMissColon", MemberValue |-> "ObjectMissCommaOrCurlyBracket",
      KeyValueDelimiter |-> "ValueInvalid", ArrayInitial |-> "ValueInvalid",
      ElementDelimiter |-> "ValueInvalid", Element |-> "ArrayMissCommaOrSquareBracket" ]

Fail(code) == error' = code /\ UNCHANGED <<rest, state, scopes, values>>

\* StartObject, StartArray.
Open ==
    /\ Parsing /\ Foreseen \in { "ObjectInitial", "ArrayInitial" }
    /\ scopes' = Append(scopes, [ return |-> IF state = "Start" THEN "Finish" ELSE AfterValue(state),
                                  count |-> 0 ])
    /\ values' = Append(values, JsonValue(IF Foreseen = "ObjectInitial" THEN "object" ELSE "array"))
    /\ state' = Foreseen
    /\ rest' = Take
    /\ UNCHANGED error

\* A name, or a value that is neither object nor array.
ReadScalar ==
    /\ Parsing /\ Foreseen \in { "MemberKey", "MemberValue", "Element", "Value" }
    /\ LET read == ParseValue(Head(rest)) IN
       IF read.error # NoError THEN Fail(read.error)
       ELSE /\ values' = Append(values, read.value)
            /\ state' = IF Foreseen = "Value" THEN "Finish" ELSE Foreseen
            /\ rest' = SkipWhitespace(read.left \o Tail(rest))
            /\ UNCHANGED <<scopes, error>>

Delimit ==
    /\ Parsing /\ Foreseen \in { "KeyValueDelimiter", "MemberDelimiter", "ElementDelimiter" }
    /\ scopes' = IF Foreseen = "KeyValueDelimiter" THEN scopes
                 ELSE [ scopes EXCEPT ![Len(scopes)].count = @ + 1 ]
    /\ state' = Foreseen
    /\ rest' = Take
    /\ UNCHANGED <<values, error>>

\* Fault: a comma before the closing bracket is left alone.
TrailingComma_Allowed == FALSE

\* The flag kParseTrailingCommasFlag is not set.
TrailingComma == state \in { "MemberDelimiter", "ElementDelimiter" }

\* The commas, and the last member when there is one.
Counted(scope) == scope.count + (IF state \in { "MemberValue", "Element" } THEN 1 ELSE 0)

\* EndArray, EndObject: the values above the opened one become its items; a member is a
\* pair of them.
Collect(stack, count, width) ==
    LET open == Len(stack) - count * width
        item(k) == IF width = 1 THEN [ name |-> << >>, value |-> stack[open + k] ]
                   ELSE [ name |-> stack[open + 2 * k - 1].chars, value |-> stack[open + 2 * k] ]
    IN  [ SubSeq(stack, 1, open) EXCEPT ![open].items = [ k \in 1..count |-> item(k) ] ]

Close ==
    /\ Parsing /\ Foreseen \in { "ObjectFinish", "ArrayFinish" }
    /\ IF TrailingComma
       THEN Fail(IF Foreseen = "ObjectFinish" THEN "ObjectMissName" ELSE "ValueInvalid")
       ELSE /\ values' = Collect(values, Counted(Last(scopes)), IF Foreseen = "ObjectFinish" THEN 2 ELSE 1)
            /\ state' = Last(scopes).return
            /\ scopes' = Front(scopes)
            /\ rest' = Take
            /\ UNCHANGED error

ReadError == Parsing /\ Foreseen = "Error" /\ Fail(StateErrors[state])

EndOfFile ==
    /\ error = NoError /\ Peek(rest) = "NUL"
    /\ state # "Finish"
    /\ Fail(StateErrors[state])

ReaderStart ==
    /\ state = "Start"
    /\ scopes = << >>
    /\ values = << >>
    /\ error = NoError
    /\ rest = SkipWhitespace(jsonText)

ReaderNext == Open \/ ReadScalar \/ Delimit \/ Close \/ ReadError \/ EndOfFile

\* HasParseError is false, and the only value on the stack is the root.
Parsed == error = NoError /\ state = "Finish" /\ Peek(rest) = "NUL"
===============================================================================
