-------------------------------- MODULE GMTime --------------------------------
(***************************************************************************)
(* The clock of the enclave build (GMTime.cpp, cut down from tzcode): a    *)
(* broken-down time from a number of seconds since 1970 (timesub), found a *)
(* year at a time, and the number of seconds of a broken-down time         *)
(* (time2sub), found by a binary search over every time_t there is: each   *)
(* probe calls timesub and compares.  The search has no exit for a time it *)
(* cannot find: the test of lo against hi is commented out in the source   *)
(* (GMTime.cpp:520).  One action is one turn of a loop.                    *)
(*                                                                         *)
(* The lengths of a minute, an hour and a day are parameters, so that a    *)
(* calendar with its century years fits into TLC's integers, and so are    *)
(* the widths of time_t and int.                                           *)
(***************************************************************************)
EXTENDS Integers, Sequences, FiniteSets, TLC

CONSTANTS
    SECSPERMIN, MINSPERHOUR, HOURSPERDAY,
    TIME_BIT,   \* the bits of a time_t
    INT_MAX     \* the greatest int; LONG_MAX of GMTime.cpp is the same number

ASSUME ClockAssumption ==
    /\ SECSPERMIN \in Nat \ {0} /\ MINSPERHOUR \in Nat \ {0} /\ HOURSPERDAY \in Nat \ {0}
    /\ TIME_BIT \in Nat \ {0} /\ INT_MAX \in Nat

INT_MIN == -INT_MAX - 1

MONSPERYEAR    == 12
DAYSPERNYEAR   == 365
DAYSPERLYEAR   == 366
EPOCH_YEAR     == 1970
TM_YEAR_BASE   == 1900
SECSPERHOUR    == SECSPERMIN * MINSPERHOUR
SECSPERDAY     == SECSPERHOUR * HOURSPERDAY

VARIABLES
    pc,       \* where the call of mktime is
    tm,       \* the caller's struct tm
    yourtm,   \* what is searched for
    norm,     \* do_norm_secs: time2's second try
    y,        \* the year, in the loops of time2sub and of timesub
    t,        \* the time_t probed
    lo, hi,   \* bounds of the search
    saved,    \* saved_seconds
    tdays, rem,
    probing,  \* timesub is called by the search, not for its result
    ret       \* the value of mktime

clock == <<pc, tm, yourtm, norm, y, t, lo, hi, saved, tdays, rem, probing, ret>>

(***************************************************************************)
(* Integers of C.                                                          *)
(***************************************************************************)
Quot(a, b) == IF a >= 0 THEN a \div b ELSE -((-a) \div b)

IsInt(i) == INT_MIN <= i /\ i <= INT_MAX

(***************************************************************************)
(* The calendar.                                                           *)
(***************************************************************************)
isleap(year) == year % 4 = 0 /\ (year % 100 # 0 \/ year % 400 = 0)

mon_lengths(year) ==
    << 31, IF isleap(year) THEN 29 ELSE 28, 31, 30, 31, 30, 31, 31, 30, 31, 30, 31 >>

year_lengths(year) == IF isleap(year) THEN DAYSPERLYEAR ELSE DAYSPERNYEAR

\* Day of the year the month starts on; months are counted from 0.
MonthStart(year, mon) ==
    << 0, 31, 59, 90, 120, 151, 181, 212, 243, 273, 304, 334 >>[mon + 1]
      + IF mon > 1 /\ isleap(year) THEN 1 ELSE 0

leaps_thru_end_of(year) ==
    LET leaps(n) == n \div 4 - n \div 100 + n \div 400
    IN  IF year >= 0 THEN leaps(year) ELSE -(leaps(-(year + 1)) + 1)

(***************************************************************************)
(* timesub.                                                                *)
(***************************************************************************)
CallTimesub(time, forSearch) ==
    /\ pc' = "years"
    /\ probing' = forSearch
    /\ y' = EPOCH_YEAR
    /\ tdays' = Quot(time, SECSPERDAY)
    /\ rem' = time - Quot(time, SECSPERDAY) * SECSPERDAY

tdelta == Quot(tdays, DAYSPERLYEAR)
idelta == IF tdelta # 0 THEN tdelta ELSE IF tdays < 0 THEN -1 ELSE 1

InYear == 0 <= tdays /\ tdays < year_lengths(y)

\* A turn of the loop over the years.
YearStep ==
    /\ pc = "years" /\ ~InYear
    /\ IsInt(tdelta) /\ IsInt(y + idelta)
    /\ tdays' = tdays - idelta * DAYSPERNYEAR
                  - (leaps_thru_end_of(y + idelta - 1) - leaps_thru_end_of(y - 1))
    /\ y' = y + idelta
    /\ UNCHANGED <<pc, tm, yourtm, norm, t, lo, hi, saved, rem, probing, ret>>

\* The rest of timesub, the time being in year y.  What the truncating division
\* left may be negative: a day back, and a year back when it was the year's first.
BrokenDown ==
    LET back  == rem < 0
        left  == IF back THEN rem + SECSPERDAY ELSE rem
        year  == IF back /\ tdays = 0 THEN y - 1 ELSE y
        idays == IF ~back THEN tdays
                 ELSE IF tdays = 0 THEN year_lengths(year) - 1 ELSE tdays - 1
        mon   == CHOOSE m \in 0..11 : /\ MonthStart(year, m) <= idays
                                      /\ idays < MonthStart(year, m) + mon_lengths(year)[m + 1]
    IN  [ year |-> year - TM_YEAR_BASE, mon |-> mon,
          mday |-> idays - MonthStart(year, mon) + 1,
          hour |-> left \div SECSPERHOUR,
          min  |-> (left % SECSPERHOUR) \div SECSPERMIN,
          sec  |-> left % SECSPERMIN ]

\* timesub has the answer, or gives up: the year is no int (NULL).
TimesubEnds     == pc = "years" /\ InYear
TimesubGivesUp  == pc = "years" /\ ~InYear /\ ~(IsInt(tdelta) /\ IsInt(y + idelta))
ResultFits      == IsInt(BrokenDown.year)

(***************************************************************************)
(* time2sub: the fields brought into their ranges.                         *)
(***************************************************************************)
Call(time) ==
    /\ pc' = "fields"
    /\ tm' = time
    /\ norm' = FALSE

WRONG == -1

\* time2 tries again with seconds normalised, then time1 gives up.
Fails ==
    IF norm THEN pc' = "returned" /\ ret' = WRONG /\ UNCHANGED norm
            ELSE pc' = "fields" /\ norm' = TRUE /\ UNCHANGED ret

\* normalize_overflow in turn for seconds, minutes, hours and months.
Fields ==
    /\ pc = "fields"
    /\ LET sec  == IF norm THEN tm.sec % SECSPERMIN ELSE tm.sec
           min  == IF norm THEN tm.min + tm.sec \div SECSPERMIN ELSE tm.min
           hour == tm.hour + min \div MINSPERHOUR
           mday == tm.mday + hour \div HOURSPERDAY
           year == tm.year + tm.mon \div MONSPERYEAR
       IN  IF \A i \in { min, hour, mday, year, year + TM_YEAR_BASE } : IsInt(i)
           THEN /\ yourtm' = [ tm EXCEPT !.sec = sec, !.min = min % MINSPERHOUR,
                                         !.hour = hour % HOURSPERDAY, !.mday = mday,
                                         !.mon = tm.mon % MONSPERYEAR ]
                /\ y' = year + TM_YEAR_BASE
                /\ pc' = "months"
                /\ UNCHANGED <<norm, ret>>
           ELSE Fails /\ UNCHANGED <<yourtm, y>>
    /\ UNCHANGED <<tm, t, lo, hi, saved, tdays, rem, probing>>

MonthLength(year, mon) == mon_lengths(year)[mon + 1]

\* A turn of the loop over the months.  The two loops over whole years before it
\* never turn: a day of the month is between 1 and 31 in what is passed to mktime.
MonthStep ==
    /\ pc = "months"
    /\ yourtm.mday > MonthLength(y, yourtm.mon)
    /\ yourtm' = [ yourtm EXCEPT !.mday = @ - MonthLength(y, yourtm.mon),
                                 !.mon  = (@ + 1) % MONSPERYEAR ]
    /\ IF yourtm.mon + 1 < MONSPERYEAR THEN UNCHANGED <<y, pc, norm, ret>>
       ELSE IF IsInt(y + 1) THEN y' = y + 1 /\ UNCHANGED <<pc, norm, ret>>
       ELSE Fails /\ UNCHANGED y
    /\ UNCHANGED <<tm, t, lo, hi, saved, tdays, rem, probing>>

(***************************************************************************)
(* time2sub: the search.                                                   *)
(***************************************************************************)
\* lo *= 2 in a signed time_t: after TIME_BIT - 1 turns it has wrapped.
TIME_MIN == -(2^(TIME_BIT - 1))
TIME_MAX == 2^(TIME_BIT - 1) - 1

Middle(low, high) ==
    LET m == Quot(low, 2) + Quot(high, 2)
    IN  IF m < low THEN low ELSE IF m > high THEN high ELSE m

\* A second out of its minute is set aside, so that the search can find the rest.
SecondInMinute(sec, year) ==
    IF 0 <= sec /\ sec < SECSPERMIN THEN [ sec |-> sec, saved |-> 0 ]
    ELSE IF year < EPOCH_YEAR THEN [ sec |-> SECSPERMIN - 1, saved |-> sec + 1 - SECSPERMIN ]
    ELSE [ sec |-> 0, saved |-> sec ]

StartSearch ==
    /\ pc = "months"
    /\ yourtm.mday <= MonthLength(y, yourtm.mon)
    /\ IF IsInt(y - TM_YEAR_BASE)
       THEN LET s == SecondInMinute(yourtm.sec, y)
            IN  /\ yourtm' = [ yourtm EXCEPT !.year = y - TM_YEAR_BASE, !.sec = s.sec ]
                /\ saved' = s.saved
                /\ lo' = TIME_MIN
                /\ hi' = TIME_MAX
                /\ t' = Middle(TIME_MIN, TIME_MAX)
                /\ CallTimesub(Middle(TIME_MIN, TIME_MAX), TRUE)
                /\ UNCHANGED <<norm, ret>>
       ELSE Fails /\ UNCHANGED <<yourtm, saved, lo, hi, t, probing, y, tdays, rem>>
    /\ UNCHANGED tm

\* tmcomp: the first field that differs decides.
Before(a, b) ==
    LET fields == <<"year", "mon", "mday", "hour", "min", "sec">>
    IN  \E k \in DOMAIN fields : /\ a[fields[k]] < b[fields[k]]
                                 /\ \A j \in 1..(k - 1) : a[fields[j]] = b[fields[j]]

\* Fault: the bound probed is not moved past.
NextBounds_Stuck(late) ==
    IF late THEN hi' = t /\ UNCHANGED lo ELSE lo' = t /\ UNCHANGED hi

\* A time before or after the one searched for becomes a bound.  A probe that is
\* a bound already is moved by one, and the bound with it.
NextBounds(late) ==
    LET moved == IF t = lo THEN t + 1 ELSE IF t = hi THEN t - 1 ELSE t
        low   == IF t = lo THEN lo + 1 ELSE lo
        high  == IF t # lo /\ t = hi THEN hi - 1 ELSE hi
    IN  IF late THEN hi' = moved /\ lo' = low ELSE lo' = moved /\ hi' = high

NextProbe(late) ==
    /\ NextBounds(late)
    /\ t' = Middle(lo', hi')
    /\ CallTimesub(Middle(lo', hi'), TRUE)

\* A time timesub cannot break down is too far from 1970 on its side.
Late == IF TimesubEnds /\ ResultFits THEN Before(yourtm, BrokenDown) ELSE t > 0

TimesubReturns == TimesubEnds \/ TimesubGivesUp

ProbeMisses ==
    /\ probing /\ TimesubReturns
    /\ TimesubEnds /\ ResultFits => Before(yourtm, BrokenDown) \/ Before(BrokenDown, yourtm)
    /\ NextProbe(Late)
    /\ UNCHANGED <<tm, yourtm, norm, saved, ret>>

\* The time is found: the seconds set aside are added and the caller's struct is
\* filled by a last timesub.
ProbeHits ==
    /\ probing /\ TimesubEnds /\ ResultFits
    /\ ~Before(yourtm, BrokenDown) /\ ~Before(BrokenDown, yourtm)
    /\ IF t + saved \in TIME_MIN..TIME_MAX
       THEN /\ t' = t + saved
            /\ CallTimesub(t + saved, FALSE)
            /\ UNCHANGED <<norm, ret>>
       ELSE Fails /\ UNCHANGED <<t, probing, y, tdays, rem>>
    /\ UNCHANGED <<tm, yourtm, lo, hi, saved>>

Return ==
    /\ ~probing /\ TimesubReturns
    /\ IF TimesubEnds /\ ResultFits
       THEN pc' = "returned" /\ ret' = t /\ tm' = BrokenDown /\ UNCHANGED norm
       ELSE Fails /\ UNCHANGED tm
    /\ UNCHANGED <<yourtm, y, t, lo, hi, saved, tdays, rem, probing>>

\* A step of mktime.
Step ==
    Fields \/ MonthStep \/ StartSearch \/ YearStep \/ ProbeMisses \/ ProbeHits \/ Return
===============================================================================
