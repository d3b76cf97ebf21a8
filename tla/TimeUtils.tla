------------------------------ MODULE TimeUtils ------------------------------
(***************************************************************************)
(* Dates of collateral (TimeUtils.cpp, the getDateFieldOf of JsonParser):  *)
(* the enclave build validates a text, reads it again and asks for its     *)
(* seconds since 1970, which is three calls of mktime; the other build     *)
(* uses a regular expression, std::get_time and timegm.                    *)
(***************************************************************************)
EXTENDS GMTime

CONSTANTS
    Texts   \* texts as records: the characters of each number as their distance from
            \* '0', whether the six separators are in place, characters after the 'Z'

VARIABLES
    text,
    stage,   \* "validate", "read" and "epoch", then "ok" or "invalid"
    epoch    \* what getDateFieldOf returns

vars == <<clock, text, stage, epoch>>

TmFields == { "year", "mon", "mday", "hour", "min", "sec" }

NoTime == [ f \in TmFields |-> 0 ]

\* qvlStringToNum: any character has a value, a digit or not.
qvlStringToNum(chars) ==
    LET num[k \in 0..Len(chars)] == IF k = 0 THEN 0 ELSE num[k - 1] * 10 + chars[k]
    IN  num[Len(chars)]

\* Characters have values, and so few of them make a year that int and time_t hold it.
ASSUME TextsAssumption ==
    /\ \A length \in { SECSPERMIN, MINSPERHOUR, HOURSPERDAY, EPOCH_YEAR } : length <= INT_MAX
    /\ (EPOCH_YEAR - TM_YEAR_BASE) * DAYSPERLYEAR * SECSPERDAY <= TIME_MAX
    /\ \A txt \in Texts :
          /\ \A f \in TmFields : txt[f] \in Seq(Int)
          /\ qvlStringToNum(txt.year) <= INT_MAX
          /\ (qvlStringToNum(txt.year) + 1 - EPOCH_YEAR) * DAYSPERLYEAR * SECSPERDAY <= TIME_MAX

\* The numbers of a text as the fields of a struct tm.
Numbers(txt) ==
    [ year |-> qvlStringToNum(txt.year) - TM_YEAR_BASE, mon |-> qvlStringToNum(txt.mon) - 1,
      mday |-> qvlStringToNum(txt.mday), hour |-> qvlStringToNum(txt.hour),
      min  |-> qvlStringToNum(txt.min),  sec  |-> qvlStringToNum(txt.sec) ]

\* What is tested of a text before mktime is called.
InRange(txt) ==
    LET n == Numbers(txt)
    IN  /\ txt.after >= 0
        /\ txt.separators
        /\ n.year >= 0
        /\ n.mon \in 0..11
        /\ n.mday \in 1..31
        /\ n.hour \in 0..(HOURSPERDAY - 1)
        /\ n.min \in 0..(MINSPERHOUR - 1)
        /\ n.sec \in 0..(SECSPERMIN - 1)

Start ==
    /\ stage = "validate"
    /\ pc = "parse"
    /\ epoch = 0
    /\ tm = NoTime
    /\ yourtm = NoTime
    /\ norm = FALSE
    /\ probing = FALSE
    /\ y = EPOCH_YEAR
    /\ t = 0 /\ lo = 0 /\ hi = 0 /\ saved = 0
    /\ tdays = 0 /\ rem = 0 /\ ret = 0

Init == text \in Texts /\ Start

\* qvlStringToTime up to its call of mktime.
Parse ==
    /\ pc = "parse"
    /\ IF InRange(text) THEN Call(Numbers(text)) /\ UNCHANGED ret
       ELSE pc' = "returned" /\ ret' = -1 /\ UNCHANGED <<tm, norm>>
    /\ UNCHANGED <<yourtm, y, t, lo, hi, saved, tdays, rem, probing, text, stage, epoch>>

\* Fault: a date mktime has changed is taken as changed.
TimeRead_Normalised == ret # -1

\* qvlStringToTime after mktime: a date it has changed is not one.
TimeRead == ret # -1 /\ tm = Numbers(text)

Validated ==
    /\ pc = "returned" /\ stage = "validate"
    /\ IF TimeRead THEN stage' = "read" /\ pc' = "parse"
                   ELSE stage' = "invalid" /\ UNCHANGED pc
    /\ UNCHANGED <<tm, yourtm, norm, y, t, lo, hi, saved, tdays, rem, probing, ret, text, epoch>>

\* getTimeFromString has returned; getEpochTimeFromString calls mktime with it.
Read ==
    /\ pc = "returned" /\ stage = "read"
    /\ stage' = "epoch"
    /\ Call(IF TimeRead THEN tm ELSE NoTime)
    /\ UNCHANGED <<yourtm, y, t, lo, hi, saved, tdays, rem, probing, ret, text, epoch>>

Epoch ==
    /\ pc = "returned" /\ stage = "epoch"
    /\ stage' = "ok"
    /\ epoch' = ret
    /\ UNCHANGED <<clock, text>>

Next ==
    \/ Parse
    \/ Step /\ UNCHANGED <<text, stage, epoch>>
    \/ Validated
    \/ Read
    \/ Epoch

\* The process parses to the end: nothing in it waits.
Spec == Init /\ [][Next]_vars /\ WF_vars(Next)

(***************************************************************************)
(* The other build.                                                        *)
(***************************************************************************)
\* The seconds since 1970 of a date that exists.
SecondsSince1970(time) ==
    LET year == time.year + TM_YEAR_BASE
        days == 365 * (year - 1970) + (year - 1969) \div 4 - (year - 1901) \div 100
                  + (year - 1601) \div 400 + MonthStart(year, time.mon) + time.mday - 1
    IN  ((days * HOURSPERDAY + time.hour) * MINSPERHOUR + time.min) * SECSPERMIN + time.sec

Exists(time) ==
    /\ time.mon \in 0..11
    /\ time.mday \in 1..MonthLength(time.year + TM_YEAR_BASE, time.mon)
    /\ time.hour \in 0..(HOURSPERDAY - 1)
    /\ time.min \in 0..(MINSPERHOUR - 1)
    /\ time.sec \in 0..(SECSPERMIN - 1)

Digits(txt) ==
    \A f \in TmFields : \A k \in DOMAIN txt[f] : txt[f][k] \in 0..9

\* standard::isValidTimeString: timegm leaves alone exactly the dates that exist.
StandardValid(txt) ==
    /\ Digits(txt) /\ txt.separators /\ txt.after = 0
    /\ Exists(Numbers(txt))

(***************************************************************************)
(* Properties.                                                             *)
(***************************************************************************)
\* The variables have their types, and the fields of a struct tm are numbers.
TypeOK ==
    /\ pc \in { "parse", "fields", "months", "years", "returned" }
    /\ stage \in { "validate", "read", "epoch", "ok", "invalid" }
    /\ tm \in [ TmFields -> Int ] /\ yourtm \in [ TmFields -> Int ]
    /\ norm \in BOOLEAN /\ probing \in BOOLEAN
    /\ y \in Int /\ t \in Int /\ lo \in Int /\ hi \in Int /\ saved \in Int
    /\ tdays \in Int /\ rem \in Int /\ ret \in Int /\ epoch \in Int

Judged == stage \in { "ok", "invalid" }

DaysBefore(year) ==
    (year - EPOCH_YEAR) * DAYSPERNYEAR + leaps_thru_end_of(year - 1)
      - leaps_thru_end_of(EPOCH_YEAR - 1)

\* The loop of timesub over the years (GMTime.cpp:219) guesses a number of years and
\* corrects for their leap days: no turn gains or loses a day, before 1970, across a
\* century or after it.
DayKept == pc = "years" => DaysBefore(y) + tdays = Quot(t, SECSPERDAY)

\* The enclave takes more texts than the other build, text after the 'Z' and
\* characters that are no digits among them, but never for another second than that
\* of a date that exists: isValidTimeString guards the getters against a date mktime
\* would move (TimeUtils.cpp:318).  A date of 1970 or later in the form of the JSON
\* files is valid in one build exactly when it is in the other (TimeUtilsUT.cpp
\* compares them for a few dates).
BuildsAgree ==
    Judged =>
        /\ stage = "ok" =>
              /\ Exists(Numbers(text)) /\ tm = Numbers(text)
              /\ epoch = SecondsSince1970(tm)
        /\ Digits(text) /\ text.after = 0 /\ Numbers(text).year >= 70 =>
              (stage = "ok") = StandardValid(text)

\* Every text is judged: the search finds its time (GMTime.cpp:491).
EveryTextIsJudged == <>Judged
===============================================================================
