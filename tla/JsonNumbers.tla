------------------------------ MODULE JsonNumbers ------------------------------
(***************************************************************************)
(* How rapidjson writes integers: i32toa, u32toa, i64toa and u64toa of     *)
(* internal/itoa.h, and the room that Writer<StringBuffer> takes for them. *)
(* The digits come two at a time from a table, in groups of four; which of *)
(* the leading ones are written depends on comparisons with powers of ten, *)
(* one for every length. The numbers of a body are signed as these digits. *)
(*                                                                         *)
(* Ten is the constant BASE, and the widths are given by how many values   *)
(* they hold, so that a small base reaches every branch with numbers that  *)
(* can be enumerated.                                                      *)
(***************************************************************************)
EXTENDS Integers, SequencesExt

CONSTANTS
    BASE,           \* ten
    UINT32_VALUES,  \* 2^32
    UINT64_VALUES,  \* 2^64
    ROOM,           \* what is pushed for a number, by the call that writes it
    Numbers32,      \* the int32_t and uint32_t that are written, signed ones negative or not
    Numbers64       \* the int64_t and uint64_t

\* The most digits a number has.
MAX_DIGITS == 20

\* The powers of ten that the code spells, kTen8 to kTen16 and those below.
TenTo[k \in 0..MAX_DIGITS] == IF k = 0 THEN 1 ELSE BASE * TenTo[k - 1]

\* Unsigned numbers have no more digits than there is room for, signed ones need it for the sign too.
ASSUME JsonNumbersAssumption ==
    /\ BASE \in Nat \ {0, 1}
    /\ UINT32_VALUES \in Nat /\ UINT32_VALUES <= TenTo[10]
    /\ UINT64_VALUES \in Nat /\ UINT64_VALUES \div TenTo[16] < TenTo[4]
    /\ ROOM \in [ { "WriteInt", "WriteUint", "WriteInt64", "WriteUint64" } -> Nat ]
    /\ ROOM["WriteUint"] \in 1..MAX_DIGITS /\ UINT32_VALUES <= TenTo[ROOM["WriteUint"]]
    /\ ROOM["WriteInt"] - 1 \in 1..MAX_DIGITS /\ UINT32_VALUES <= TenTo[ROOM["WriteInt"] - 1]
    /\ ROOM["WriteUint64"] \in 1..MAX_DIGITS /\ UINT64_VALUES <= TenTo[ROOM["WriteUint64"]]
    /\ ROOM["WriteInt64"] - 1 \in 1..MAX_DIGITS /\ UINT64_VALUES <= TenTo[ROOM["WriteInt64"] - 1]
    /\ \A n \in Numbers32 : n \in Int /\ 2 * n >= -UINT32_VALUES /\ n < UINT32_VALUES
    /\ \A n \in Numbers64 : n \in Int /\ n >= -(UINT64_VALUES \div 2) /\ n < UINT64_VALUES

VARIABLES
    number,     \* what is to be written, [call, value]
    written     \* the characters, a digit as its value, or none yet

numberVars == <<number, written>>

\* No digit: the sign.
Minus == -1

(***************************************************************************)
(* Groups of digits.                                                       *)
(***************************************************************************)
\* GetDigitsLut: the digits of the numbers below a hundred, one pair behind the other.
cDigitsLut == [ k \in 0..(2 * TenTo[2] - 1) |-> IF k % 2 = 0 THEN (k \div 2) \div BASE ELSE (k \div 2) % BASE ]

Pair(d) == << cDigitsLut[2 * d], cDigitsLut[2 * d + 1] >>

FourDigits(n) == Pair(n \div TenTo[2]) \o Pair(n % TenTo[2])

EightDigits(n) == FourDigits(n \div TenTo[4]) \o FourDigits(n % TenTo[4])

\* Fault: a leading digit is written when the number is greater than its power of ten.
Leading_Greater(value, digits, always) ==
    FlattenSeq([ k \in 1..Len(digits) |->
        IF k > Len(digits) - always \/ value > TenTo[Len(digits) - k] THEN << digits[k] >> ELSE << >> ])

\* The last digits always, one before them only if the number is as great as its power of ten.
Leading(value, digits, always) ==
    FlattenSeq([ k \in 1..Len(digits) |->
        IF k > Len(digits) - always \/ value >= TenTo[Len(digits) - k] THEN << digits[k] >> ELSE << >> ])

(***************************************************************************)
(* The functions of itoa.h.                                                *)
(***************************************************************************)
UpToEightDigits(value) ==
    IF value < TenTo[4] THEN Leading(value, FourDigits(value), 1) ELSE Leading(value, EightDigits(value), 5)

u32toa(value) ==
    LET a == value \div TenTo[8]
    IN  IF value < TenTo[8]
        THEN UpToEightDigits(value)
        ELSE (IF a >= BASE THEN Pair(a) ELSE << a >>) \o EightDigits(value % TenTo[8])

\* The digits above the sixteenth.
TopOf(a) ==
    CASE a < BASE -> << a >>
      [] a >= BASE /\ a < TenTo[2] -> Pair(a)
      [] a >= TenTo[2] /\ a < TenTo[3] -> << a \div TenTo[2] >> \o Pair(a % TenTo[2])
      [] OTHER -> Pair(a \div TenTo[2]) \o Pair(a % TenTo[2])

u64toa(value) ==
    LET kTen16 == TenTo[16]
        low    == value % kTen16
    IN  IF value < TenTo[8] THEN UpToEightDigits(value)
        ELSE IF value < kTen16
        THEN Leading(value, EightDigits(value \div TenTo[8]) \o EightDigits(value % TenTo[8]), 9)
        ELSE TopOf(value \div kTen16) \o EightDigits(low \div TenTo[8]) \o EightDigits(low % TenTo[8])

\* ~u + 1 of a number converted to unsigned.
Negated(value, values) == (values - 1 - (value + values) + 1) % values

i32toa(value) == IF value < 0 THEN << Minus >> \o u32toa(Negated(value, UINT32_VALUES)) ELSE u32toa(value)

i64toa(value) == IF value < 0 THEN << Minus >> \o u64toa(Negated(value, UINT64_VALUES)) ELSE u64toa(value)

(***************************************************************************)
(* The calls of the writer.                                                *)
(***************************************************************************)
NumbersOf(call) ==
    CASE call = "WriteInt"    -> { n \in Numbers32 : 2 * n < UINT32_VALUES }
      [] call = "WriteUint"   -> { n \in Numbers32 : n >= 0 }
      [] call = "WriteInt64"  -> { n \in Numbers64 : n < UINT64_VALUES \div 2 }
      [] call = "WriteUint64" -> { n \in Numbers64 : n >= 0 }

TextOf(n) ==
    CASE n.call = "WriteInt"    -> i32toa(n.value)
      [] n.call = "WriteUint"   -> u32toa(n.value)
      [] n.call = "WriteInt64"  -> i64toa(n.value)
      [] n.call = "WriteUint64" -> u64toa(n.value)

NumberStart ==
    /\ number \in UNION { { [ call |-> call, value |-> n ] : n \in NumbersOf(call) } : call \in DOMAIN ROOM }
    /\ written = << >>

WriteNumber ==
    /\ written = << >>
    /\ written' = TextOf(number)
    /\ UNCHANGED number

NumberSpec == NumberStart /\ [][WriteNumber]_numberVars

(***************************************************************************)
(* Properties.                                                             *)
(***************************************************************************)
DigitsOf(chars) == IF chars[1] = Minus THEN Tail(chars) ELSE chars

\* What digits read as, from the first on.
ValueOf(digits) ==
    LET sum[k \in 0..Len(digits)] == IF k = 0 THEN 0 ELSE BASE * sum[k - 1] + digits[k]
    IN  sum[Len(digits)]

\* What is written for an integer reads as that integer, the least one, which
\* has no positive counterpart, and every power of ten and its neighbours
\* included; no zero leads, the groups are complete, and there is room in the
\* buffer, which is taken before the length is known (itoa.h:37, 116, writer.h:514).
NumbersAreWrittenInDecimal ==
    written # << >> =>
        LET digits == DigitsOf(written)
        IN  /\ (written[1] = Minus) = (number.value < 0)
            /\ ValueOf(digits) = (IF number.value < 0 THEN -number.value ELSE number.value)
            /\ \A k \in DOMAIN digits : digits[k] \in 0..(BASE - 1)
            /\ digits[1] = 0 => Len(digits) = 1
            /\ Len(written) <= ROOM[number.call]
===============================================================================
