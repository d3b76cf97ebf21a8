----------------------------- MODULE CommandLine -----------------------------
(***************************************************************************)
(* The command line of the sample application: AppOptionsParser::parse and *)
(* the functions of argtable3.c that it calls. arg_parse copies the words, *)
(* getopt_long takes the options out of the copy, moving the words that    *)
(* are none behind those that are (permute_args), and arg_parse_untagged   *)
(* complains about what is left, since the table has tagged options only.  *)
(*                                                                         *)
(* A word is a sequence of pieces: "-", "=", parts of names and values. A  *)
(* piece stands for the characters that no two names tell apart, so that a *)
(* beginning of a name is a beginning of the sequence. The name of the     *)
(* program, argv[0], is left out, so positions are those of the code.      *)
(***************************************************************************)
EXTENDS Integers, Sequences, SequencesExt, FiniteSetsExt

CONSTANTS
    Lines,          \* the command lines
    Longopts,       \* the names of the table, in its order, each a sequence of pieces
    Defaults,       \* option -> its text when it is not given
    MaxErrors,      \* arg_end(20)
    Numeral,        \* the pieces that std::stoll reads, -> number
    Posixly         \* values of: POSIXLY_CORRECT is in the environment

\* AppOptionsParser.cpp:77-80; the last entry is arg_lit0("h", "help").
Opts == DOMAIN Longopts
Help == Len(Longopts)
Valued == Opts \ { Help }
ExpirationDate == Help - 1

ASSUME CommandLineAssumption ==
    /\ MaxErrors \in Nat \ {0} /\ Len(Longopts) > 2
    /\ \A i, j \in Opts : i # j => Longopts[i] # Longopts[j]
    /\ DOMAIN Defaults = Valued
    /\ Posixly \subseteq BOOLEAN

\* What arg_strn and arg_litn make for the options of the table.
arg_strn(name) ==
    [ longopts |-> name, shortopts |-> {}, hasValue |-> TRUE, mincount |-> 0, maxcount |-> 1 ]

arg_litn(name, letter) ==
    [ longopts |-> name, shortopts |-> { letter }, hasValue |-> FALSE, mincount |-> 0, maxcount |-> 1 ]

Table == [ o \in Opts |-> IF o = Help THEN arg_litn(Longopts[o], "h") ELSE arg_strn(Longopts[o]) ]

\* alloc_longoptions: what getopt_long is told of the options that have a name.
LongOptions == [ o \in Opts |-> [ name |-> Table[o].longopts, has_arg |-> Table[o].hasValue ] ]

\* alloc_shortoptions: the letters that it is told of.
ShortOptions == UNION { Table[o].shortopts : o \in Opts }

\* Whose letter it is.
find_shortoption(letter) == { o \in Opts : letter \in Table[o].shortopts }

VARIABLES
    commandLine,    \* the words as they were given
    argv,           \* the copy, which getopt_long rearranges
    optind,         \* the word that is looked at next
    place,          \* what is left of a word of short options
    nonoptStart,    \* the words that are no options, up to nonoptEnd;
    nonoptEnd,      \* 0 is the code's -1
    match,          \* the option that the long name at hand stands for, in a set
    given,          \* option -> {} or its text, in a set
    errors,         \* arg_end: what was wrong, with the word
    posixly,
    parsing         \* where parse is

clVars == <<commandLine, argv, optind, place, nonoptStart, nonoptEnd, match, given, errors,
            posixly, parsing>>

Nothing == << >>

\* Nothing is given and nothing wrong.
arg_reset == given = [ o \in Opts |-> {} ] /\ errors = << >>

CommandLineStart ==
    /\ argv = commandLine
    /\ optind = 1
    /\ place = Nothing
    /\ nonoptStart = 0 /\ nonoptEnd = 0
    /\ match = {}
    /\ arg_reset
    /\ parsing = "tagged"

CommandLineInit ==
    /\ commandLine \in Lines /\ posixly \in Posixly
    /\ CommandLineStart

(***************************************************************************)
(* permute_args exchanges two neighbouring blocks in place: the positions  *)
(* fall into as many cycles as the greatest common divisor of the lengths  *)
(* says, and the words of each move on by one place of their cycle.        *)
(***************************************************************************)
Euclid[a \in Nat, b \in Nat] == IF a % b = 0 THEN b ELSE Euclid[b, a % b]

gcd(a, b) == Euclid[a, b]

permute_args(start, middle, stop, words) ==
    LET nnonopts == middle - start
        nopts    == stop - middle
        ncycle   == gcd(nnonopts, nopts)
        cyclelen == (stop - start) \div ncycle
        At(k)    == start + (k % (stop - start))
        Cycle(i) == { At(nnonopts + i + j * nopts) : j \in 1..cyclelen }
        moved    == UNION { Cycle(i) : i \in 0..(ncycle - 1) }
    IN  [ k \in DOMAIN words |-> words[IF k \in moved THEN At(k - start + nnonopts) ELSE k] ]

(***************************************************************************)
(* Errors.                                                                 *)
(***************************************************************************)
Error(kind, word) == [ kind |-> kind, word |-> word ]

LimitReached == Error("ARG_ELIMIT", Nothing)

arg_register_error(list, error) ==
    IF Len(list) < MaxErrors THEN Append(list, error)
    ELSE [ list EXCEPT ![MaxErrors] = LimitReached ]

(***************************************************************************)
(* parse_long_options: the option that a name, cut short or not, stands    *)
(* for. An exact match ends the search; two others before it are one too   *)
(* many.                                                                   *)
(***************************************************************************)
Exact(name) == { o \in Opts : LongOptions[o].name = name }

Partial(name) ==
    { o \in Opts : /\ IsPrefix(name, LongOptions[o].name) /\ LongOptions[o].name # name
                   /\ \A exact \in Exact(name) : o < exact }

LongMatch(name) ==
    IF Cardinality(Partial(name)) > 1 THEN {}
    ELSE IF Exact(name) # {} THEN Exact(name) ELSE Partial(name)

EqualsAt(text) == SelectInSeq(text, LAMBDA piece : piece = "=")

NameIn(text) == IF EqualsAt(text) = 0 THEN text ELSE SubSeq(text, 1, EqualsAt(text) - 1)

ArgumentIn(text) == SubSeq(text, EqualsAt(text) + 1, Len(text))

(***************************************************************************)
(* The scan functions of the table, and the check functions.               *)
(***************************************************************************)
\* Fault: an option that is given again replaces what was given.
Scanned_Last(o, text, errs) ==
    /\ given' = [ given EXCEPT ![o] = { text } ]
    /\ errors' = errs

Scanned(o, text, errs) ==
    IF Cardinality(given[o]) < Table[o].maxcount
    THEN /\ given' = [ given EXCEPT ![o] = { text } ]
         /\ errors' = errs
    ELSE /\ errors' = arg_register_error(errs, Error("EMAXCOUNT", text))
         /\ UNCHANGED given

arg_parse_check(errs) ==
    LET missing == SelectSeq([ o \in Opts |-> o ],
                             LAMBDA o : Cardinality(given[o]) < Table[o].mincount)
    IN  FoldLeft(LAMBDA list, o : arg_register_error(list, Error("EMINCOUNT", Longopts[o])), errs, missing)

Complain(kind, word) ==
    /\ errors' = arg_register_error(errors, Error(kind, word))
    /\ UNCHANGED given

(***************************************************************************)
(* getopt_long, which is called until it returns -1.                       *)
(***************************************************************************)
\* A word that is no option: one without a dash, or the dash alone.
IsNonOption(word) == ~IsPrefix(<< "-" >>, word) \/ word = << "-" >>

\* FLAG_PERMUTE: words that are no options may stand before options.
Permutes == ~posixly

Fresh == parsing = "tagged" /\ place = Nothing

\* The words skipped so far go behind the options up to stop.
Permuted(stop, end) == permute_args(nonoptStart, end, stop, argv)

\* getopt_long returns -1: what is not an option starts at optind.
Stop(stop, end) ==
    /\ IF end # 0
       THEN /\ argv' = Permuted(stop, end)
            /\ optind' = stop - (end - nonoptStart)
       ELSE /\ optind' = IF stop > Len(argv) /\ nonoptStart # 0 THEN nonoptStart ELSE stop
            /\ UNCHANGED argv
    /\ nonoptStart' = 0 /\ nonoptEnd' = 0
    /\ parsing' = "untagged"
    /\ UNCHANGED <<commandLine, place, match, given, errors, posixly>>

EndOfLine ==
    /\ Fresh /\ optind > Len(argv)
    /\ Stop(optind, nonoptEnd)

\* With POSIXLY_CORRECT the first of them ends the options.
SkipNonOption ==
    /\ Fresh /\ optind <= Len(argv) /\ IsNonOption(argv[optind])
    /\ Permutes
    /\ IF nonoptEnd # 0
       THEN /\ argv' = Permuted(optind, nonoptEnd)
            /\ nonoptStart' = optind - (nonoptEnd - nonoptStart)
            /\ nonoptEnd' = 0
       ELSE /\ nonoptStart' = IF nonoptStart = 0 THEN optind ELSE nonoptStart
            /\ UNCHANGED <<argv, nonoptEnd>>
    /\ optind' = optind + 1
    /\ UNCHANGED <<commandLine, place, match, given, errors, posixly, parsing>>

StopAtNonOption ==
    /\ Fresh /\ optind <= Len(argv) /\ IsNonOption(argv[optind])
    /\ ~Permutes
    /\ parsing' = "untagged"
    /\ UNCHANGED <<commandLine, argv, optind, place, nonoptStart, nonoptEnd, match, given,
                   errors, posixly>>

\* The first option after words that are none ends their block.
BlockEnd == IF place = Nothing /\ nonoptStart # 0 /\ nonoptEnd = 0 THEN optind ELSE nonoptEnd

DoubleDash ==
    /\ Fresh /\ optind <= Len(argv) /\ argv[optind] = << "-", "-" >>
    /\ Stop(optind + 1, BlockEnd)

\* What follows the dash, or the letters that were read.
Letters == IF place = Nothing THEN Tail(argv[optind]) ELSE place

AtOption ==
    /\ parsing = "tagged" /\ optind <= Len(argv)
    /\ Fresh => ~IsNonOption(argv[optind]) /\ argv[optind] # << "-", "-" >>
    /\ nonoptEnd' = BlockEnd
    /\ UNCHANGED <<commandLine, argv, nonoptStart, posixly>>

\* One letter.
ShortOption ==
    /\ AtOption /\ Head(Letters) # "-"
    /\ place' = Tail(Letters)
    /\ optind' = IF Tail(Letters) = Nothing THEN optind + 1 ELSE optind
    /\ UNCHANGED <<match, parsing>>
    /\ IF Head(Letters) \in ShortOptions
       THEN \E o \in find_shortoption(Head(Letters)) : Scanned(o, Nothing, errors)
       ELSE Complain("unknown letter", << Head(Letters) >>)

LongName ==
    /\ AtOption /\ Head(Letters) = "-"
    /\ match' = LongMatch(NameIn(Tail(Letters)))
    /\ place' = Tail(Letters)
    /\ parsing' = "long"
    /\ UNCHANGED <<optind, given, errors>>

HasText(text) == EqualsAt(text) # 0

EndOfOption(next) ==
    /\ parsing = "long"
    /\ optind' = next
    /\ place' = Nothing
    /\ parsing' = "tagged"
    /\ UNCHANGED <<commandLine, argv, nonoptStart, nonoptEnd, match, posixly>>

UnknownOption ==
    /\ match = {}
    /\ EndOfOption(optind + 1)
    /\ Complain("ARG_ELONGOPT", argv[optind])

TakesText == \E o \in match : LongOptions[o].has_arg

OptionAlone ==
    /\ match # {} /\ ~TakesText
    /\ EndOfOption(optind + 1)
    /\ IF HasText(place) THEN Complain("ARG_EMISSARG", argv[optind])
       ELSE \E o \in match : Scanned(o, Nothing, errors)

OptionWithoutText ==
    /\ TakesText
    /\ ~HasText(place) /\ optind = Len(argv)
    /\ EndOfOption(optind + 1)
    /\ Complain("ARG_EMISSARG", argv[optind])

\* An empty text is complained of and taken all the same.
TakeText(text, word) ==
    \E o \in match :
        Scanned(o, text, IF text # Nothing THEN errors
                         ELSE arg_register_error(errors, Error("ARG_EMISSARG", word)))

OptionWithText ==
    /\ TakesText
    /\ \/ /\ HasText(place)
          /\ EndOfOption(optind + 1)
          /\ TakeText(ArgumentIn(place), argv[optind])
       \/ /\ ~HasText(place) /\ optind < Len(argv)
          /\ EndOfOption(optind + 2)
          /\ TakeText(argv[optind + 1], argv[optind + 1])

(***************************************************************************)
(* The rest of arg_parse: arg_parse_untagged and, if nothing was wrong,    *)
(* arg_parse_check; then what parse makes of it.                           *)
(***************************************************************************)
UntaggedWord ==
    /\ parsing = "untagged" /\ optind <= Len(argv)
    /\ Complain("ARG_ENOMATCH", argv[optind])
    /\ optind' = optind + 1
    /\ UNCHANGED <<commandLine, argv, place, nonoptStart, nonoptEnd, match, posixly, parsing>>

\* The text of an option in AppOptions.
TextOf(o) == IF given[o] = {} THEN Defaults[o] ELSE CHOOSE text \in given[o] : TRUE

\* std::stoll reads what the text starts with.
IsNumber(text) == text # Nothing /\ text[1] \in DOMAIN Numeral

\* AppOptionsParser.cpp:95-137: help is printed for errors, too.
Outcome(errs) ==
    IF errs # << >> THEN "refused"
    ELSE IF given[Help] # {} THEN "helped"
    ELSE IF ~IsNumber(TextOf(ExpirationDate)) THEN "refused"
    ELSE "parsed"

ParseReturns ==
    /\ parsing = "untagged" /\ optind > Len(argv)
    /\ errors' = IF errors = << >> THEN arg_parse_check(errors) ELSE errors
    /\ parsing' = Outcome(errors')
    /\ UNCHANGED <<commandLine, argv, optind, place, nonoptStart, nonoptEnd, match, given, posixly>>

CommandLineNext ==
    \/ EndOfLine \/ SkipNonOption \/ StopAtNonOption \/ DoubleDash
    \/ ShortOption \/ LongName
    \/ UnknownOption \/ OptionAlone \/ OptionWithoutText \/ OptionWithText
    \/ UntaggedWord \/ ParseReturns

Answered == parsing \in { "refused", "helped", "parsed" }

(***************************************************************************)
(* The same line read from left to right.                                  *)
(***************************************************************************)
IsLong(word) == IsPrefix(<< "-", "-" >>, word) /\ Len(word) > 2

\* The options that a word can be meant for: the one of this name, or those whose names
\* begin like this. Of the letters, "h" alone is one.
Meant(word) ==
    LET name == NameIn(SubSeq(word, 3, Len(word)))
    IN  CASE IsLong(word) /\ Exact(name) # {} -> Exact(name)
          [] IsLong(word) /\ Exact(name) = {} -> { o \in Opts : IsPrefix(name, Longopts[o]) }
          [] OTHER                            -> { o \in { Help } : word = << "-", "h" >> }

\* A line as a sequence of options and their texts. A word is the argument of the one
\* before if that one takes an argument and is not one itself; "--" ends the options.
LeftToRight(line) ==
    LET words  == DOMAIN line
        meant  == [ i \in words |-> Meant(line[i]) ]
        takes(i) == ~HasText(line[i]) /\ \E o \in Valued : meant[i] = { o }
        begins[i \in words] == i = 1 \/ ~begins[i - 1] \/ ~takes(i - 1)
        ends   == { i \in words : /\ begins[i]
                                  /\ \/ line[i] = << "-", "-" >>
                                     \/ posixly /\ IsNonOption(line[i]) }
        end    == IF ends = {} THEN Len(line) + 1 ELSE Min(ends)
        options == { i \in words : begins[i] /\ i < end /\ ~IsNonOption(line[i]) }
        strays == { i \in words : i > end \/ (begins[i] /\ IsNonOption(line[i])) }
        inOrder == SelectSeq([ i \in words |-> i ], LAMBDA i : i \in strays)
        text(i) == IF ~takes(i) THEN SubSeq(line[i], EqualsAt(line[i]) + 1, Len(line[i]))
                   ELSE IF i < Len(line) THEN line[i + 1] ELSE Nothing
    IN  [ stray |-> [ k \in DOMAIN inOrder |-> line[inOrder[k]] ],
          unknown |-> { line[i] : i \in { k \in options : Cardinality(meant[k]) # 1 } },
          texts |-> [ o \in Valued |->
                        { << i, text(i) >> : i \in { k \in options : meant[k] = { o } } } ],
          help |-> { << i, HasText(line[i]) >> : i \in { k \in options : meant[k] = { Help } } } ]

\* A line that says what each option is to be, in one way.
IsClear(reading) ==
    /\ reading.stray = << >> /\ reading.unknown = {}
    /\ \A o \in Valued :
          /\ Cardinality(reading.texts[o]) <= 1
          /\ \A t \in reading.texts[o] : t[2] # Nothing
    /\ Cardinality(reading.help) <= 1
    /\ \A h \in reading.help : ~h[2]

TextFor(reading, o) ==
    IF reading.texts[o] = {} THEN Defaults[o] ELSE (CHOOSE t \in reading.texts[o] : TRUE)[2]

\* The words that are complained of for being no options, and that none got lost: they are
\* at the end of argv, the other words, in their order, in front of them.
StraysAreReported(stray) ==
    LET reported == SelectSeq(errors, LAMBDA error : error.kind = "ARG_ENOMATCH")
        others(line) == SelectSeq(line, LAMBDA word : ~Contains(stray, word))
    IN  /\ IsSuffix(stray, argv)
        /\ others(argv) = others(commandLine)
        /\ ~Contains(errors, LimitReached) => [ i \in DOMAIN reported |-> reported[i].word ] = stray

\* The application runs with exactly what the words of the line say, each option given
\* once, in full or by a beginning that fits no other, with its text after "=" or as the
\* next word, whatever words stand between (argtable3.c:4060); every other line is
\* refused (AppOptionsParser.cpp:92), one that asks for help answered with it. However
\* often getopt_long exchanges blocks of words (argtable3.c:431), no word gets lost or
\* changes places with one of its kind, and each that is no option is complained of in
\* turn, until the list of errors is full.
OptionsAreTheWords ==
    Answered =>
        LET reading == LeftToRight(commandLine)
        IN  /\ StraysAreReported(reading.stray)
            /\ Len(errors) <= MaxErrors
            /\ parsing = IF ~IsClear(reading) THEN "refused"
                         ELSE IF reading.help # {} THEN "helped"
                         ELSE IF ~IsNumber(TextFor(reading, ExpirationDate)) THEN "refused"
                         ELSE IF \A o \in Valued : TextOf(o) = TextFor(reading, o) THEN "parsed"
                         ELSE "mistaken"
===============================================================================
