----------------------------- MODULE MCTimeUtils -----------------------------
(***************************************************************************)
(* TLC instance of the texts of collateral.                                *)
(*                                                                         *)
(* TimeUtils: a day of eight seconds, so that the years up to 9999 fit.  A *)
(* year, a month and a day at every boundary of the calendar at one time   *)
(* of the day, the times of the day on a few days, and texts that are no   *)
(* dates.                                                                  *)
(*                                                                         *)
(* JsonDocument: int of 8 bits and int64_t of 16, so that numbers at the   *)
(* limits of both are short; bodies with one member more of every kind,    *)
(* with members twice and with lists and objects up to one level too deep; *)
(* their texts with every lexeme dropped, doubled or replaced, and with    *)
(* strings and numbers spelled in other ways.                              *)
(*                                                                         *)
(* JsonNumbers: base three, with 2^15 and 2^30 for 2^32 and 2^64, so that  *)
(* the digits above the eighth and the sixteenth are one and up to three.  *)
(*                                                                         *)
(* JsonMemory: a stack of three cells, chunks of four, and up to five      *)
(* events, so that stacks grow twice and blocks have chunks of their own.  *)
(***************************************************************************)
EXTENDS TimeUtils, JsonDocument, JsonNumbers, JsonMemory

Four(n) == << n \div 1000, (n \div 100) % 10, (n \div 10) % 10, n % 10 >>
Two(n)  == << n \div 10, n % 10 >>

Text(year, mon, mday, hour, min, sec) ==
    [ year |-> Four(year), mon |-> Two(mon), mday |-> Two(mday), hour |-> Two(hour),
      min |-> Two(min), sec |-> Two(sec), separators |-> TRUE, after |-> 0 ]

McDates ==
    { Text(year, mon, mday, 0, 0, 0) :
        year \in { 0, 1899, 1900, 1969, 1970, 1972, 2000, 2024, 2025, 2100, 2400, 9999 },
        mon \in { 0, 1, 2, 3, 12, 13 }, mday \in { 0, 1, 28, 29, 30, 31, 32 } }

McTimesOfDay ==
    { Text(d[1], d[2], d[3], hour, min, sec) :
        d \in { <<1969, 12, 31>>, <<1970, 1, 1>>, <<2024, 2, 29>> },
        hour \in 0..2, min \in 0..2, sec \in 0..2 }

\* ':' follows '9'; '-' is three characters before '0'.
McOddTexts ==
    LET date == Text(2024, 2, 29, 1, 1, 1)
    IN  { [ date EXCEPT !.mday = <<1, 10>> ], [ date EXCEPT !.mday = <<3, -3>> ],
          [ date EXCEPT !.mon = <<0, -3>> ], [ date EXCEPT !.year = <<10, 10, 10, 10>> ],
          [ date EXCEPT !.sec = <<1, -9>> ], [ date EXCEPT !.separators = FALSE ],
          [ date EXCEPT !.after = -1 ], [ date EXCEPT !.after = 1 ] }

McTexts == McDates \union McTimesOfDay \union McOddTexts

(***************************************************************************)
(* Documents.                                                              *)
(***************************************************************************)
McBody    == <<"body">>
McVersion == <<"version">>
McId      == <<"id">>

Member(name, v) == << [ name |-> name, value |-> v ] >>
Object(members) == [ JsonValue("object") EXCEPT !.items = members ]
Array(elements) ==
    [ JsonValue("array") EXCEPT !.items = [ k \in DOMAIN elements |-> [ name |-> << >>, value |-> elements[k] ] ] ]

Version(n) == Member(McVersion, IntegerValue(n))
Id(chars)  == Member(McId, StringValue(chars))
Right      == Version(3) \o Id(<<"S", "X">>)

Document(members) == Object(Member(McBody, Object(members)) \o Member(<<"sig">>, StringValue(<<"0">>)))

One == IntegerValue(1)

OddNames == { << >>, <<"version", "NUL">>, <<"NUL">>, <<"quote">>, <<"astral">>, <<"id", "X">> }

OddStrings == { << >>, <<"NUL", "S">>, <<"S", "NUL">>, <<"quote", "backslash">>, <<"newline", "unit">>, <<"astral">> }

OddNumbers == { -32768, -129, -128, -1, 0, 10, 127, 128, 255, 256, 32767, 65535 }

Values ==
    { JsonValue("null"), JsonValue("true"), JsonValue("false"), DoubleValue,
      Array(<< >>), Object(<< >>), Array(<<One, One>>), Array(<<Array(<< >>), Object(<< >>)>>),
      Array(<<Array(<<One>>)>>), Object(Member(<<"x">>, Object(Member(<<"x">>, One)))),
      Array(<<Object(<< >>), One, Object(Right)>>) }
      \union { StringValue(chars) : chars \in OddStrings } \union { IntegerValue(n) : n \in OddNumbers }

McDocuments ==
    { Document(Right \o Member(<<"x">>, v)) : v \in Values }
      \union { Document(Member(McVersion, v) \o Id(<<"S">>)) : v \in Values }
      \union { Document(Version(3) \o Member(McId, v)) : v \in Values }
      \union { Document(Member(name, v) \o Right) : name \in OddNames, v \in { One, Object(Version(2)) } }
      \union { Document(Version(2) \o Right), Document(Right \o Id(<<"T">>) \o Version(2)),
               Document(<< >>), Object(<< >>), Array(<<Document(Right)>>), One, StringValue(<<"S">>),
               Object(Member(McBody, Object(Right)) \o Member(McBody, Object(Version(2)))),
               Object(Member(McBody, One) \o Member(McBody, Object(Right))),
               Object(Member(<<"x">>, Object(Member(McBody, One))) \o Member(McBody, Object(Right))) }

(***************************************************************************)
(* Texts.                                                                  *)
(***************************************************************************)
Plain(chars) == [ k \in DOMAIN chars |-> [ how |-> "plain", ch |-> chars[k] ] ]
Quoted(pieces) == [ Lexeme("\"") EXCEPT !.pieces = pieces ]
Digits10(first, digits, tail) == [ Lexeme(first) EXCEPT !.digits = digits, !.tail = tail ]

Piece(how) == [ how |-> how, ch |-> "S" ]
Hows == { "plain", "short", "u", "noEscape", "noHex", "high", "low" }

McSpelledStrings ==
    { Quoted(<<Piece(a), Piece(b)>>) : a \in Hows, b \in Hows }
      \union { Quoted(Plain(<<ch>>)) : ch \in { "NUL", "newline", "unit" } }
      \union { [ Quoted(Plain(<<"S">>)) EXCEPT !.whole = FALSE ] }

McSpelledNumbers ==
    { Digits10(first, digits, tail) :
        first \in { "minus", "digit" },
        digits \in { << >>, <<0>>, <<0, 0>>, <<0, 1>>, <<1, 0>>, <<1, 2, 7>>, <<1, 2, 8>>, <<1, 2, 9>>,
                     <<2, 5, 5>>, <<2, 5, 6>>, <<1, 2, 8, 0>>, <<3, 2, 7, 6, 8>>, <<3, 2, 7, 6, 9>>,
                     <<6, 5, 5, 3, 5>>, <<6, 5, 5, 3, 6>>, <<6, 5, 5, 3, 5, 0>> },
        tail \in { "none", "double", "noFraction", "noExponent", "tooBig" } }

McLexemes ==
    { Lexeme(c) : c \in { "[", "]", "{", "}", ",", ":", "space", "NUL", "other", "n" } }
      \union { [ Lexeme("t") EXCEPT !.whole = FALSE ], StringLexeme(McVersion), IntegerLexeme(2) }

Edited ==
    { Document(Right), Document(Version(3) \o Id(<<"S">>) \o Member(<<"x">>, Array(<<One, Object(<< >>)>>))) }

McJsonTexts ==
    { Lexemes(d) : d \in McDocuments }
      \union UNION { { RemoveAt(Lexemes(d), k) : k \in DOMAIN Lexemes(d) } : d \in Edited }
      \union UNION { { InsertAt(Lexemes(d), k, lex) : k \in 1..(Len(Lexemes(d)) + 1), lex \in McLexemes } : d \in Edited }
      \union UNION { { ReplaceAt(Lexemes(d), k, lex) : k \in DOMAIN Lexemes(d), lex \in McLexemes } : d \in Edited }
      \union { ReplaceAt(Lexemes(Document(Right)), 6, lex) : lex \in McSpelledNumbers }
      \union { ReplaceAt(Lexemes(Document(Right)), 10, lex) : lex \in McSpelledStrings }
      \union { << lex >> : lex \in McSpelledNumbers \union McSpelledStrings } \union { << >> }

(***************************************************************************)
(* Numbers, around every power of ten and at the ends of the types.        *)
(***************************************************************************)
\* The most digits a number has in base three, and a place for a sign.
McRoom == [ WriteInt |-> 11, WriteUint |-> 10, WriteInt64 |-> 20, WriteUint64 |-> 19 ]

Integers(count) ==
    LET magnitudes == UNION { { n - 1, n, n + 1, 2 * n - 1, 2 * n } : n \in { BASE^k : k \in 0..18 } }
                        \union { count - 1, count \div 2, count \div 2 - 1 }
    IN  { n \in magnitudes : n < count } \union { -n : n \in { m \in magnitudes : 2 * m <= count } }

McNumbers32 == Integers(UINT32_VALUES)
McNumbers64 == Integers(UINT64_VALUES)

McStringLengths == { 1, 2, 5 }

(***************************************************************************)
(* A date is read, then a document, a number is written and the memory of  *)
(* a document used; of the first three two are always the same.            *)
(***************************************************************************)
AnyDate   == CHOOSE d \in McOddTexts : ~d.separators
AnyNumber == [ call |-> "WriteUint", value |-> 0 ]

AllInit ==
    /\ \/ jsonText = << >> /\ number = AnyNumber /\ written = << >> /\ text \in Texts
       \/ text = AnyDate /\ number = AnyNumber /\ written = << >> /\ jsonText \in JsonTexts
       \/ text = AnyDate /\ jsonText = << >> /\ NumberStart
    /\ Start
    /\ JsonStart
    /\ MemoryStart

ReadDate == Next /\ UNCHANGED <<jsonVars, numberVars, memoryVars>>

AllNext ==
    \/ ReadDate
    \/ Judged /\ JsonNext /\ UNCHANGED <<vars, numberVars, memoryVars>>
    \/ Judged /\ JsonDone /\ WriteNumber /\ UNCHANGED <<vars, jsonVars, memoryVars>>
    \/ /\ text = AnyDate /\ jsonText = << >> /\ number = AnyNumber
       /\ Judged /\ JsonDone /\ written # << >>
       /\ MemoryNext /\ UNCHANGED <<vars, jsonVars, numberVars>>

allVars == <<vars, jsonVars, numberVars, memoryVars>>

AllSpec == AllInit /\ [][AllNext]_allVars /\ WF_allVars(ReadDate)
===============================================================================
