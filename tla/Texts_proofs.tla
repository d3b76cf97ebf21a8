----------------------------- MODULE Texts_proofs -----------------------------
(***************************************************************************)
(* Proofs about the texts of collateral.                                   *)
(*                                                                         *)
(* The clock of the enclave build, for every text, every length of a day   *)
(* and every width of time_t: the search of time2sub probes times TLC has  *)
(* not seen.  The loop of timesub loses no day, and three calls of mktime  *)
(* judge a text as the other build does.                                   *)
(*                                                                         *)
(* The memory under a parsed document, for every heap, every alignment,    *)
(* every capacity and every number of events: the stacks that realloc      *)
(* moves and the blocks of the pool keep what they were given.             *)
(***************************************************************************)
EXTENDS TimeUtils, JsonMemory,
        NaturalsInduction, WellFoundedInduction, SequenceTheorems, TLAPS

(***************************************************************************)
(* Numbers.                                                                *)
(***************************************************************************)
LEMMA LeastNumber ==
    ASSUME NEW S \in SUBSET Nat, S # {}
    PROVE  \E i \in S : \A j \in S : i <= j
<1> DEFINE R == { pair \in Nat \X Nat : pair[1] < pair[2] }
<1>1. IsWellFoundedOn(R, Nat)
  BY NatLessThanWellFounded DEF OpToRel
<1>2. \A x, e \in Nat : << x, e >> \in R <=> x < e
  OBVIOUS
<1>. HIDE DEF R
<1>3. PICK x \in S : \A e \in S : << e, x >> \notin R
  BY <1>1, WFMin
<1>4. \A e \in S : ~(e < x)
  BY <1>2, <1>3
<1>. QED BY <1>4

\* A set of numbers is all of 0 .. n if it has the first and, with each, the next.
LEMMA FromZero ==
    ASSUME NEW n \in Nat, NEW S, 0 \in S, \A k \in 0 .. (n - 1) : k \in S => k + 1 \in S
    PROVE  0 .. n \subseteq S
<1> DEFINE T == { k \in 0 .. n : k \notin S }
<1>1. CASE T = {}
  BY <1>1
<1>2. CASE T # {}
  <2>1. T \in SUBSET Nat
    OBVIOUS
  <2>2. PICK i \in T : \A j \in T : i <= j
    BY <1>2, <2>1, LeastNumber
  <2>3. i \in 0 .. n /\ i # 0 /\ i - 1 \in 0 .. (n - 1) /\ (i - 1) + 1 = i
    BY <2>2
  <2>4. i - 1 \notin T
    BY <2>2, <2>3
  <2>5. i - 1 \in S
    BY <2>3, <2>4
  <2>6. i \in S
    BY <2>3, <2>5
  <2>. QED BY <2>2, <2>6
<1>. QED BY <1>1, <1>2

LEMMA Multiples ==
    ASSUME NEW m \in Nat \ {0}, NEW a \in Int, NEW b \in Int, a < b
    PROVE  a * m + m <= b * m
<1>1. PICK c \in Nat : b = a + 1 + c
  BY b - a - 1 \in Nat
<1>2. b * m = a * m + m + c * m /\ c * m \in Nat /\ a * m \in Int
  BY <1>1
<1>. QED BY <1>2

\* Of a number below n times m, what is divided off and what remains.
LEMMA DividedOff ==
    ASSUME NEW m \in Nat \ {0}, NEW n \in Nat \ {0}, NEW x \in Nat, x < n * m
    PROVE  /\ x \div m \in 0 .. (n - 1) /\ x % m \in 0 .. (m - 1)
           /\ x = (x \div m) * m + (x % m)
           /\ (x >= m) = (x \div m >= 1)
<1> DEFINE q == x \div m
           r == x % m
<1>1. q \in Int /\ r \in 0 .. (m - 1) /\ x = q * m + r
  OBVIOUS
<1> DEFINE qm == q * m
           nm == n * m
<1>2. qm \in Int /\ nm \in Int /\ x = qm + r /\ x < nm
  BY <1>1
<1>3. (q < 0 => qm + m <= 0 * m) /\ (n < q => nm + m <= qm) /\ (0 < q => 0 * m + m <= qm) /\ (n = q => nm = qm)
  <2>. HIDE DEF q
  <2>. QED BY <1>1, Multiples
<1>4. 0 * m = 0 /\ (q = 0 => qm = 0)
  BY <1>1
<1>. HIDE DEF q, r, qm, nm
<1>5. q \in 0 .. (n - 1) /\ (x >= m) = (q >= 1)
  BY <1>1, <1>2, <1>3, <1>4
<1>. QED BY <1>1, <1>5 DEF q, r

(***************************************************************************)
(* The clock.                                                              *)
(***************************************************************************)
\* What TIME_BIT, the lengths and the divisions of C are.
LEMMA Numerals ==
    /\ SECSPERMIN \in Nat \ {0} /\ SECSPERHOUR \in Nat \ {0} /\ SECSPERDAY \in Nat \ {0}
    /\ TIME_MIN \in Int /\ TIME_MAX \in Int
<1>1. \A a, b \in Nat \ {0} : a * b \in Nat \ {0}
  OBVIOUS
<1>2. SECSPERMIN \in Nat \ {0} /\ SECSPERHOUR \in Nat \ {0} /\ SECSPERDAY \in Nat \ {0}
  BY <1>1, ClockAssumption DEF SECSPERHOUR, SECSPERDAY
<1>3. TIME_MIN \in Int /\ TIME_MAX \in Int
  <2>1. \A n \in Nat : 2^n \in Int
    OBVIOUS
  <2>2. TIME_BIT - 1 \in Nat
    BY ClockAssumption
  <2>3. 2^(TIME_BIT - 1) \in Int
    BY <2>1, <2>2
  <2>. QED BY <2>3 DEF TIME_MIN, TIME_MAX
<1>. QED BY <1>2, <1>3

LEMMA QuotIsInt == ASSUME NEW a \in Int, NEW b \in Nat \ {0} PROVE Quot(a, b) \in Int
  BY DEF Quot

LEMMA LeapsAreInt == ASSUME NEW year \in Int PROVE leaps_thru_end_of(year) \in Int
  BY DEF leaps_thru_end_of

LEMMA MiddleIsInt == ASSUME NEW low \in Int, NEW high \in Int PROVE Middle(low, high) \in Int
  BY QuotIsInt DEF Middle

\* The inductive invariant: the times probed are numbers, for which the seconds set aside
\* have to be, which come from the caller's struct tm.
SecondsInv ==
    /\ "sec" \in DOMAIN tm /\ tm.sec \in Int
    /\ pc = "months" => "sec" \in DOMAIN yourtm /\ yourtm.sec \in Int
    /\ t \in Int /\ lo \in Int /\ hi \in Int /\ saved \in Int
    /\ pc = "years" => y \in Int /\ tdays \in Int /\ rem \in Int

ClockInv == SecondsInv /\ DayKept

\* timesub starts with all days still to be placed.
LEMMA CallTimesubKeeps ==
    ASSUME NEW time \in Int, NEW forSearch, CallTimesub(time, forSearch), t' = time
    PROVE  /\ DayKept'
           /\ pc' = "years" /\ y' \in Int /\ tdays' \in Int /\ rem' \in Int
<1>1. Quot(time, SECSPERDAY) \in Int /\ SECSPERDAY \in Int
  BY Numerals, QuotIsInt
<1>2. \A a, b \in Int : a * b \in Int
  OBVIOUS
<1>3. pc' = "years" /\ y' \in Int /\ tdays' \in Int /\ rem' \in Int
  BY <1>1, <1>2 DEF CallTimesub, EPOCH_YEAR
<1>4. DaysBefore(EPOCH_YEAR) = 0
  BY LeapsAreInt DEF DaysBefore, EPOCH_YEAR, DAYSPERNYEAR
<1>5. DayKept'
  BY <1>1, <1>4 DEF CallTimesub, DayKept, DaysBefore
<1>. QED BY <1>3, <1>5

\* A turn of timesub's loop moves days from those to be placed to those of whole years.
LEMMA YearStepKeeps == ClockInv /\ YearStep => ClockInv'
<1>. SUFFICES ASSUME ClockInv, YearStep PROVE ClockInv'
  OBVIOUS
<1>1. y \in Int /\ tdays \in Int /\ rem \in Int /\ pc = "years" /\ pc' = "years"
  BY DEF ClockInv, SecondsInv, YearStep
<1>2. idelta \in Int
  BY <1>1, QuotIsInt DEF idelta, tdelta, DAYSPERLYEAR
<1> DEFINE here  == leaps_thru_end_of(y - 1)
           there == leaps_thru_end_of(y + idelta - 1)
           first == leaps_thru_end_of(EPOCH_YEAR - 1)
<1>3. here \in Int /\ there \in Int /\ first \in Int
  BY <1>1, <1>2, LeapsAreInt DEF EPOCH_YEAR
<1>4. /\ y' = y + idelta
      /\ tdays' = tdays - idelta * 365 - (there - here)
      /\ UNCHANGED <<tm, yourtm, t, lo, hi, saved, rem, pc>>
  BY DEF YearStep, DAYSPERNYEAR
<1>5. (y - EPOCH_YEAR) * 365 + here - first + tdays = Quot(t, SECSPERDAY)
  BY <1>1 DEF ClockInv, DayKept, DaysBefore, DAYSPERNYEAR
<1>6. leaps_thru_end_of(y' - 1) = there
  <2>1. y' - 1 = y + idelta - 1
    BY <1>1, <1>2, <1>4
  <2>. QED BY <2>1
<1>. HIDE DEF here, there, first
<1>7. (y' - EPOCH_YEAR) * 365 + there - first + tdays' = Quot(t, SECSPERDAY)
  BY <1>1, <1>2, <1>3, <1>4, <1>5 DEF EPOCH_YEAR
<1>8. DayKept'
  BY <1>4, <1>6, <1>7 DEF DayKept, DaysBefore, DAYSPERNYEAR, first
<1>9. y' \in Int /\ tdays' \in Int /\ rem' \in Int
  BY <1>1, <1>2, <1>3, <1>4
<1>. QED BY <1>1, <1>4, <1>8, <1>9 DEF ClockInv, SecondsInv

\* A step that ends the call, or tries again, looks at no year.
LEMMA LeavesTheLoop ==
    ASSUME ClockInv, pc' \in { "parse", "fields", "returned" },
           "sec" \in DOMAIN tm', tm'.sec \in Int, UNCHANGED <<lo, hi, saved>>, t' \in Int
    PROVE  ClockInv'
  BY DEF ClockInv, SecondsInv, DayKept

LEMMA FailsLeaves == Fails => pc' \in { "fields", "returned" }
  BY DEF Fails

\* The time the loop has broken down has a second.
LEMMA BrokenDownSecond ==
    ASSUME ClockInv, pc = "years"
    PROVE  "sec" \in DOMAIN BrokenDown /\ BrokenDown.sec \in Int
<1>1. rem \in Int /\ SECSPERDAY \in Int /\ SECSPERMIN \in Nat \ {0}
  BY Numerals DEF ClockInv, SecondsInv
<1>2. BrokenDown.sec = (IF rem < 0 THEN rem + SECSPERDAY ELSE rem) % SECSPERMIN
  BY DEF BrokenDown
<1>3. "sec" \in DOMAIN BrokenDown
  BY DEF BrokenDown
<1>. QED BY <1>1, <1>2, <1>3

\* time2sub up to its search: the second is one of the text, or a part of it.
LEMMA FieldsKeep == ClockInv /\ Fields => ClockInv'
<1>. SUFFICES ASSUME ClockInv, Fields PROVE ClockInv'
  OBVIOUS
<1>1. /\ UNCHANGED <<tm, t, lo, hi, saved>>
      /\ "sec" \in DOMAIN tm /\ tm.sec \in Int /\ t \in Int
  BY DEF Fields, ClockInv, SecondsInv
<1>2. CASE pc' = "months"
  <2> DEFINE sec == IF norm THEN tm.sec % SECSPERMIN ELSE tm.sec
  <2>1. "sec" \in DOMAIN yourtm' /\ yourtm'.sec = sec
    BY <1>1, <1>2, FailsLeaves DEF Fields
  <2>2. sec \in Int
    BY <1>1, Numerals
  <2>. QED BY <1>1, <1>2, <2>1, <2>2 DEF ClockInv, SecondsInv, DayKept
<1>3. CASE pc' # "months"
  <2>1. pc' \in { "fields", "returned" }
    BY <1>3, FailsLeaves DEF Fields
  <2>. QED BY <1>1, <2>1, LeavesTheLoop
<1>. QED BY <1>2, <1>3

LEMMA MonthStepKeeps == ClockInv /\ MonthStep => ClockInv'
<1>. SUFFICES ASSUME ClockInv, MonthStep PROVE ClockInv'
  OBVIOUS
<1>1. /\ UNCHANGED <<tm, t, lo, hi, saved>>
      /\ "sec" \in DOMAIN yourtm' /\ yourtm'.sec \in Int
      /\ "sec" \in DOMAIN tm /\ tm.sec \in Int /\ t \in Int
  BY DEF MonthStep, ClockInv, SecondsInv
<1>2. pc' \in { "months", "fields", "returned" }
  BY FailsLeaves DEF MonthStep
<1>. QED BY <1>1, <1>2 DEF ClockInv, SecondsInv, DayKept

LEMMA StartSearchKeeps == ClockInv /\ StartSearch => ClockInv'
<1>. SUFFICES ASSUME ClockInv, StartSearch PROVE ClockInv'
  OBVIOUS
<1>1. /\ UNCHANGED tm /\ pc = "months"
      /\ "sec" \in DOMAIN tm /\ tm.sec \in Int /\ yourtm.sec \in Int /\ t \in Int
  BY DEF StartSearch, ClockInv, SecondsInv
<1>2. CASE IsInt(y - TM_YEAR_BASE)
  <2>1. SecondInMinute(yourtm.sec, y).saved \in Int
    BY <1>1, Numerals DEF SecondInMinute
  <2>2. Middle(TIME_MIN, TIME_MAX) \in Int /\ TIME_MIN \in Int /\ TIME_MAX \in Int
    BY Numerals, MiddleIsInt
  <2>3. /\ saved' \in Int /\ lo' \in Int /\ hi' \in Int
        /\ t' = Middle(TIME_MIN, TIME_MAX) /\ t' \in Int
        /\ CallTimesub(t', TRUE)
    BY <1>2, <2>1, <2>2 DEF StartSearch
  <2>4. DayKept' /\ pc' = "years" /\ y' \in Int /\ tdays' \in Int /\ rem' \in Int
    BY <1>2, <2>2, CallTimesubKeeps DEF StartSearch
  <2>. QED BY <1>1, <2>3, <2>4 DEF ClockInv, SecondsInv
<1>3. CASE ~IsInt(y - TM_YEAR_BASE)
  <2>1. Fails /\ UNCHANGED <<tm, saved, lo, hi, t>>
    BY <1>3 DEF StartSearch
  <2>. QED BY <1>1, <2>1, FailsLeaves, LeavesTheLoop
<1>. QED BY <1>2, <1>3

\* The search: every probe is a number, and begins again at 1970.
LEMMA ProbeMissesKeeps == ClockInv /\ ProbeMisses => ClockInv'
<1>. SUFFICES ASSUME ClockInv, ProbeMisses PROVE ClockInv'
  OBVIOUS
<1>1. /\ UNCHANGED <<tm, saved>>
      /\ "sec" \in DOMAIN tm /\ tm.sec \in Int /\ saved \in Int
      /\ t \in Int /\ lo \in Int /\ hi \in Int
      /\ NextProbe(Late)
  BY DEF ProbeMisses, ClockInv, SecondsInv
<1>2. lo' \in Int /\ hi' \in Int
  BY <1>1 DEF NextProbe, NextBounds
<1>3. t' = Middle(lo', hi') /\ t' \in Int
  BY <1>1, <1>2, MiddleIsInt DEF NextProbe
<1>4. CallTimesub(Middle(lo', hi'), TRUE)
  BY <1>1 DEF NextProbe
<1>5. DayKept' /\ pc' = "years" /\ y' \in Int /\ tdays' \in Int /\ rem' \in Int
  <2> DEFINE time == Middle(lo', hi')
  <2>1. time \in Int /\ t' = time /\ CallTimesub(time, TRUE)
    BY <1>3, <1>4
  <2>. HIDE DEF time
  <2>. QED BY <2>1, CallTimesubKeeps
<1>. QED BY <1>1, <1>2, <1>3, <1>5 DEF ClockInv, SecondsInv

LEMMA ProbeHitsKeeps == ClockInv /\ ProbeHits => ClockInv'
<1>. SUFFICES ASSUME ClockInv, ProbeHits PROVE ClockInv'
  OBVIOUS
<1>1. /\ UNCHANGED <<tm, lo, hi, saved>>
      /\ "sec" \in DOMAIN tm /\ tm.sec \in Int /\ saved \in Int
      /\ t \in Int /\ lo \in Int /\ hi \in Int
  BY DEF ProbeHits, ClockInv, SecondsInv
<1>2. CASE t + saved \in TIME_MIN..TIME_MAX
  <2>1. t + saved \in Int
    BY <1>1
  <2>2. t' = t + saved /\ CallTimesub(t + saved, FALSE)
    BY <1>2, Zenon DEF ProbeHits
  <2>3. DayKept' /\ pc' = "years" /\ y' \in Int /\ tdays' \in Int /\ rem' \in Int
    BY <2>1, <2>2, CallTimesubKeeps
  <2>. QED BY <1>1, <2>1, <2>2, <2>3 DEF ClockInv, SecondsInv
<1>3. CASE t + saved \notin TIME_MIN..TIME_MAX
  <2>1. Fails /\ UNCHANGED t
    BY <1>3 DEF ProbeHits
  <2>. QED BY <1>1, <2>1, FailsLeaves, LeavesTheLoop
<1>. QED BY <1>2, <1>3

LEMMA ReturnKeeps == ClockInv /\ Return => ClockInv'
<1>. SUFFICES ASSUME ClockInv, Return PROVE ClockInv'
  OBVIOUS
<1>1. /\ UNCHANGED <<t, lo, hi, saved>> /\ pc = "years"
      /\ "sec" \in DOMAIN tm /\ tm.sec \in Int /\ t \in Int
  BY DEF Return, TimesubReturns, TimesubEnds, TimesubGivesUp, ClockInv, SecondsInv
<1>2. \/ pc' = "returned" /\ tm' = BrokenDown
      \/ Fails /\ UNCHANGED tm
  BY DEF Return
<1>3. pc' \in { "fields", "returned" } /\ "sec" \in DOMAIN tm' /\ tm'.sec \in Int
  BY <1>1, <1>2, FailsLeaves, BrokenDownSecond
<1>. QED BY <1>1, <1>3, LeavesTheLoop

LEMMA StepKeeps == ClockInv /\ Step => ClockInv'
  BY FieldsKeep, MonthStepKeeps, StartSearchKeeps, YearStepKeeps, ProbeMissesKeeps, ProbeHitsKeeps,
     ReturnKeeps DEF Step

\* Between the calls: only a text in range is passed on, and its second is one.
LEMMA ParseKeeps == ClockInv /\ Parse => ClockInv'
<1>. SUFFICES ASSUME ClockInv, Parse PROVE ClockInv'
  OBVIOUS
<1>1. UNCHANGED <<t, lo, hi, saved>> /\ t \in Int /\ "sec" \in DOMAIN tm /\ tm.sec \in Int
  BY DEF Parse, ClockInv, SecondsInv
<1>2. CASE InRange(text)
  <2>1. /\ Numbers(text).sec \in 0..(SECSPERMIN - 1)
    BY <1>2 DEF InRange
  <2>2. tm' = Numbers(text) /\ pc' = "fields"
    BY <1>2 DEF Parse, Call
  <2>3. "sec" \in DOMAIN Numbers(text)
    BY DEF Numbers
  <2>. QED BY <1>1, <2>1, <2>2, <2>3, LeavesTheLoop
<1>3. CASE ~InRange(text)
  <2>1. pc' = "returned" /\ UNCHANGED tm
    BY <1>3 DEF Parse
  <2>. QED BY <1>1, <2>1, LeavesTheLoop
<1>. QED BY <1>2, <1>3

LEMMA ReadKeeps == ClockInv /\ Read => ClockInv'
<1>. SUFFICES ASSUME ClockInv, Read PROVE ClockInv'
  OBVIOUS
<1>1. /\ UNCHANGED <<t, lo, hi, saved>> /\ t \in Int /\ "sec" \in DOMAIN tm /\ tm.sec \in Int
      /\ pc' = "fields" /\ tm' \in { tm, NoTime }
  BY DEF Read, Call, ClockInv, SecondsInv
<1>2. "sec" \in DOMAIN NoTime /\ NoTime.sec \in Int
  BY DEF NoTime, TmFields
<1>. QED BY <1>1, <1>2, LeavesTheLoop

LEMMA ValidatedKeeps == ClockInv /\ Validated => ClockInv'
<1>. SUFFICES ASSUME ClockInv, Validated PROVE ClockInv'
  OBVIOUS
<1>1. /\ UNCHANGED <<tm, t, lo, hi, saved>> /\ t \in Int /\ "sec" \in DOMAIN tm /\ tm.sec \in Int
      /\ pc' \in { "parse", "returned" }
  BY DEF Validated, ClockInv, SecondsInv
<1>. QED BY <1>1, LeavesTheLoop

\* The loop over the years of timesub (GMTime.cpp:219) loses no day of any time_t that the
\* search of time2sub probes, from the least to the greatest, whatever its width.
THEOREM DayKeptHolds == Spec => []DayKept
<1>1. Init => ClockInv
  BY DEF Init, Start, ClockInv, SecondsInv, DayKept, NoTime, TmFields, EPOCH_YEAR
<1>2. ClockInv /\ [Next]_vars => ClockInv'
  <2>. SUFFICES ASSUME ClockInv, [Next]_vars PROVE ClockInv'
    OBVIOUS
  <2>1. CASE Step
    BY <2>1, StepKeeps
  <2>2. CASE Parse
    BY <2>2, ParseKeeps
  <2>3. CASE Validated
    BY <2>3, ValidatedKeeps
  <2>4. CASE Read
    BY <2>4, ReadKeeps
  <2>5. CASE Epoch \/ UNCHANGED vars
    <3>1. UNCHANGED clock
      BY <2>5 DEF Epoch, vars
    <3>. QED BY <3>1 DEF clock, ClockInv, SecondsInv, DayKept, DaysBefore
  <2>. QED BY <2>1, <2>2, <2>3, <2>4, <2>5 DEF Next
<1>3. ClockInv => DayKept
  BY DEF ClockInv
<1>. QED BY <1>1, <1>2, <1>3, PTL DEF Spec

(***************************************************************************)
(* The calendar of the clock.                                              *)
(***************************************************************************)
\* The leap years up to a year, before and after the year zero alike.
LeapYears(year) == year \div 4 - year \div 100 + year \div 400

LEMMA DivisionUnique ==
    ASSUME NEW m \in Nat \ {0}, NEW x \in Int
    PROVE  x \div m \in Int /\ x % m \in 0 .. (m - 1) /\ x = (x \div m) * m + (x % m)
  OBVIOUS

LEMMA LeapsAre == ASSUME NEW year \in Int PROVE leaps_thru_end_of(year) = LeapYears(year)
<1>1. CASE year >= 0
  BY <1>1 DEF leaps_thru_end_of, LeapYears
<1>2. CASE year < 0
  <2> DEFINE n == -(year + 1)
  <2>1. n \in Nat
    BY <1>2
  <2>2. /\ year \div 4 = -(n \div 4) - 1
        /\ year \div 100 = -(n \div 100) - 1
        /\ year \div 400 = -(n \div 400) - 1
    BY <1>2
  <2>3. n \div 4 \in Int /\ n \div 100 \in Int /\ n \div 400 \in Int
    BY <2>1
  <2>4. leaps_thru_end_of(year) = -((n \div 4 - n \div 100 + n \div 400) + 1)
    BY <1>2 DEF leaps_thru_end_of
  <2>. HIDE DEF n
  <2>. QED BY <2>2, <2>3, <2>4 DEF LeapYears
<1>. QED BY <1>1, <1>2

LEMMA LeapYearsType == ASSUME NEW year \in Int PROVE LeapYears(year) \in Int
  BY DEF LeapYears

LEMMA LeapYearsStep ==
    ASSUME NEW year \in Int
    PROVE  LeapYears(year) = LeapYears(year - 1) + (IF isleap(year) THEN 1 ELSE 0)
<1>1. year \div 4 = (year - 1) \div 4 + (IF year % 4 = 0 THEN 1 ELSE 0)
  OBVIOUS
<1>2. year \div 100 = (year - 1) \div 100 + (IF year % 100 = 0 THEN 1 ELSE 0)
  OBVIOUS
<1>3. year \div 400 = (year - 1) \div 400 + (IF year % 400 = 0 THEN 1 ELSE 0)
  OBVIOUS
<1>4. (year % 400 = 0 => year % 100 = 0) /\ (year % 100 = 0 => year % 4 = 0)
  OBVIOUS
<1>5. /\ (year - 1) \div 4 \in Int /\ (year - 1) \div 100 \in Int /\ (year - 1) \div 400 \in Int
  OBVIOUS
<1>. QED BY <1>1, <1>2, <1>3, <1>4, <1>5 DEF LeapYears, isleap

\* Of any years in a row, none is a leap year more than once.
LEMMA LeapYearsGrow ==
    ASSUME NEW year \in Int, NEW n \in Nat
    PROVE  LeapYears(year) <= LeapYears(year + n) /\ LeapYears(year + n) <= LeapYears(year) + n
<1> DEFINE S == { k \in Nat : LeapYears(year) <= LeapYears(year + k) /\ LeapYears(year + k) <= LeapYears(year) + k }
<1>1. 0 \in S
  BY LeapYearsType
<1>2. ASSUME NEW k \in 0 .. (n - 1), k \in S PROVE k + 1 \in S
  <2>1. year + k \in Int /\ year + (k + 1) \in Int /\ (year + (k + 1)) - 1 = year + k
    OBVIOUS
  <2>2. LeapYears(year + (k + 1)) = LeapYears(year + k) + (IF isleap(year + (k + 1)) THEN 1 ELSE 0)
    BY <2>1, LeapYearsStep
  <2>3. LeapYears(year + k) \in Int /\ LeapYears(year) \in Int
    BY <2>1, LeapYearsType
  <2>. QED BY <1>2, <2>2, <2>3
<1>3. 0 .. n \subseteq S
  <2>. HIDE DEF S
  <2>. QED BY <1>1, <1>2, FromZero
<1>4. n \in S
  <2>. HIDE DEF S
  <2>. QED BY <1>3
<1>. QED BY <1>4

LEMMA DaysBeforeIs ==
    ASSUME NEW year \in Int
    PROVE  /\ DaysBefore(year) = 365 * (year - 1970) + LeapYears(year - 1) - LeapYears(1969)
           /\ DaysBefore(year) \in Int
<1>1. leaps_thru_end_of(year - 1) = LeapYears(year - 1) /\ leaps_thru_end_of(1969) = LeapYears(1969)
  BY LeapsAre
<1>2. LeapYears(year - 1) \in Int /\ LeapYears(1969) \in Int
  BY LeapYearsType
<1>3. EPOCH_YEAR - 1 = 1969
  BY DEF EPOCH_YEAR
<1>4. DaysBefore(year) = (year - 1970) * 365 + LeapYears(year - 1) - LeapYears(1969)
  BY <1>1, <1>3 DEF DaysBefore, EPOCH_YEAR, DAYSPERNYEAR
<1>. QED BY <1>2, <1>4

LEMMA YearLength ==
    ASSUME NEW year \in Int
    PROVE  DaysBefore(year + 1) = DaysBefore(year) + year_lengths(year)
<1>1. /\ DaysBefore(year) = 365 * (year - 1970) + LeapYears(year - 1) - LeapYears(1969)
      /\ DaysBefore(year + 1) = 365 * ((year + 1) - 1970) + LeapYears((year + 1) - 1) - LeapYears(1969)
  BY DaysBeforeIs
<1>2. (year + 1) - 1 = year
  OBVIOUS
<1>3. LeapYears(year) = LeapYears(year - 1) + (IF isleap(year) THEN 1 ELSE 0)
  BY LeapYearsStep
<1>4. LeapYears(year - 1) \in Int /\ LeapYears(1969) \in Int
  BY LeapYearsType
<1>. QED BY <1>1, <1>2, <1>3, <1>4 DEF year_lengths, DAYSPERLYEAR, DAYSPERNYEAR

LEMMA YearsInARow ==
    ASSUME NEW year \in Int, NEW n \in Nat
    PROVE  /\ DaysBefore(year + n) >= DaysBefore(year) + 365 * n
           /\ DaysBefore(year + n) <= DaysBefore(year) + 366 * n
           /\ DaysBefore(year) \in Int /\ DaysBefore(year + n) \in Int
<1>1. /\ DaysBefore(year) = 365 * (year - 1970) + LeapYears(year - 1) - LeapYears(1969)
      /\ DaysBefore(year + n) = 365 * ((year + n) - 1970) + LeapYears((year + n) - 1) - LeapYears(1969)
      /\ DaysBefore(year) \in Int /\ DaysBefore(year + n) \in Int
  BY DaysBeforeIs
<1>2. (year + n) - 1 = (year - 1) + n /\ year - 1 \in Int
  OBVIOUS
<1>3. LeapYears(year - 1) <= LeapYears((year - 1) + n) /\ LeapYears((year - 1) + n) <= LeapYears(year - 1) + n
  BY <1>2, LeapYearsGrow
<1>4. LeapYears(year - 1) \in Int /\ LeapYears(1969) \in Int /\ LeapYears((year - 1) + n) \in Int
  BY <1>2, LeapYearsType
<1>. QED BY <1>1, <1>2, <1>3, <1>4

\* Later years begin later.
LEMMA YearsInOrder ==
    ASSUME NEW a \in Int, NEW b \in Int, a <= b
    PROVE  DaysBefore(a) <= DaysBefore(b) /\ DaysBefore(a) \in Int /\ DaysBefore(b) \in Int
<1>1. b - a \in Nat /\ a + (b - a) = b
  OBVIOUS
<1>2. DaysBefore(a + (b - a)) >= DaysBefore(a) + 365 * (b - a) /\ DaysBefore(a) \in Int /\ DaysBefore(a + (b - a)) \in Int
  BY <1>1, YearsInARow, ZenonT(60)
<1>. QED BY <1>1, <1>2

LEMMA EpochBegins == DaysBefore(1970) = 0
<1>1. LeapYears(1970 - 1) = LeapYears(1969) /\ LeapYears(1969) \in Int
  BY LeapYearsType
<1>. QED BY <1>1, DaysBeforeIs

LEMMA MonthOfYear ==
    ASSUME NEW year \in Int, NEW m \in 0 .. 11
    PROVE  /\ MonthStart(year, m) \in Nat /\ MonthLength(year, m) \in 28 .. 31
           /\ MonthStart(year, m) + MonthLength(year, m) <= year_lengths(year)
           /\ year_lengths(year) \in 365 .. 366
  BY DEF MonthStart, MonthLength, mon_lengths, year_lengths, DAYSPERLYEAR, DAYSPERNYEAR

LEMMA MonthsInOrder ==
    ASSUME NEW year \in Int, NEW m \in 0 .. 11, NEW n \in 0 .. 11, m < n
    PROVE  MonthStart(year, m) + MonthLength(year, m) <= MonthStart(year, n)
  BY DEF MonthStart, MonthLength, mon_lengths

\* Each day of a year is in one month.
LEMMA MonthOfDay ==
    ASSUME NEW year \in Int, NEW d \in Nat, d < year_lengths(year)
    PROVE  \E m \in 0 .. 11 : MonthStart(year, m) <= d /\ d < MonthStart(year, m) + mon_lengths(year)[m + 1]
  BY DEF MonthStart, MonthLength, mon_lengths, year_lengths, DAYSPERLYEAR, DAYSPERNYEAR

(***************************************************************************)
(* The seconds of dates.                                                   *)
(***************************************************************************)
Dates ==
    { time \in [ year : Int, mon : Int, mday : Int, hour : Int, min : Int, sec : Int ] : Exists(time) }

DayOf(time) ==
    DaysBefore(time.year + TM_YEAR_BASE) + MonthStart(time.year + TM_YEAR_BASE, time.mon) + time.mday - 1

LEMMA SecondsAre ==
    ASSUME NEW time \in Dates
    PROVE  /\ SecondsSince1970(time)
                = ((DayOf(time) * HOURSPERDAY + time.hour) * MINSPERHOUR + time.min) * SECSPERMIN + time.sec
           /\ DayOf(time) \in Int /\ SecondsSince1970(time) \in Int
<1> DEFINE year == time.year + 1900
<1>1. /\ time.year \in Int /\ time.mon \in 0 .. 11 /\ time.mday \in Int /\ time.hour \in Int
      /\ time.min \in Int /\ time.sec \in Int /\ year \in Int
  BY DEF Dates, Exists
<1>2. DaysBefore(year) = 365 * (year - 1970) + LeapYears(year - 1) - LeapYears(1969) /\ DaysBefore(year) \in Int
  BY <1>1, DaysBeforeIs, SMTT(30)
<1>3. LeapYears(1969) = 477
  BY DEF LeapYears
<1>4. /\ (year - 1969) \div 4 = (year - 1) \div 4 - 492
      /\ (year - 1901) \div 100 = (year - 1) \div 100 - 19
      /\ (year - 1601) \div 400 = (year - 1) \div 400 - 4
      /\ (year - 1) \div 4 \in Int /\ (year - 1) \div 100 \in Int /\ (year - 1) \div 400 \in Int
  <2>. HIDE DEF year
  <2>. QED BY <1>1
<1>5. MonthStart(year, time.mon) \in Nat
  <2> DEFINE m == time.mon
  <2>1. year \in Int /\ m \in 0 .. 11
    BY <1>1
  <2>. HIDE DEF year, m
  <2>2. MonthStart(year, m) \in Nat
    BY <2>1, MonthOfYear
  <2>. QED BY <2>2 DEF m
<1> DEFINE days == 365 * (year - 1970) + (year - 1969) \div 4 - (year - 1901) \div 100
                     + (year - 1601) \div 400 + MonthStart(year, time.mon) + time.mday - 1
<1>6. days = DayOf(time)
  <2>1. DayOf(time) = DaysBefore(year) + MonthStart(year, time.mon) + time.mday - 1
    BY DEF DayOf, TM_YEAR_BASE
  <2>2. LeapYears(year - 1) = (year - 1) \div 4 - (year - 1) \div 100 + (year - 1) \div 400
    BY DEF LeapYears
  <2>. HIDE DEF year
  <2>. QED BY <1>1, <1>2, <1>3, <1>4, <1>5, <2>1, <2>2
<1>7. SecondsSince1970(time) = ((days * HOURSPERDAY + time.hour) * MINSPERHOUR + time.min) * SECSPERMIN + time.sec
  BY DEF SecondsSince1970, TM_YEAR_BASE
<1>8. days \in Int
  <2>. HIDE DEF year
  <2>. QED BY <1>1, <1>4, <1>5
<1>9. HOURSPERDAY \in Nat /\ MINSPERHOUR \in Nat /\ SECSPERMIN \in Nat
  BY ClockAssumption
<1>10. \A d, h, m, s, x, u, w \in Int : ((d * h + x) * m + u) * s + w \in Int
  OBVIOUS
<1>. HIDE DEF days, year
<1>11. ((days * HOURSPERDAY + time.hour) * MINSPERHOUR + time.min) * SECSPERMIN + time.sec \in Int
  BY <1>1, <1>8, <1>9, <1>10
<1>. QED BY <1>6, <1>7, <1>8, <1>11

\* What a number of whole units and a rest are compared by.
LEMMA WholeUnitsFirst ==
    ASSUME NEW m \in Nat \ {0}, NEW a \in Int, NEW b \in Int, a < b, NEW c \in 0 .. (m - 1), NEW d \in 0 .. (m - 1)
    PROVE  a * m + c < b * m + d
<1> DEFINE p == a * m
           q == b * m
<1>1. p + m <= q /\ p \in Int /\ q \in Int
  BY Multiples
<1>. HIDE DEF p, q
<1>. QED BY <1>1 DEF p, q

LEMMA RemainderIs ==
    ASSUME NEW m \in Nat \ {0}, NEW a \in Int, NEW c \in 0 .. (m - 1), NEW x \in Int, x = a * m + c
    PROVE  x % m = c /\ x \div m = a
<1> DEFINE b == x \div m
           d == x % m
<1>1. b \in Int /\ d \in 0 .. (m - 1) /\ x = b * m + d
  BY DivisionUnique
<1>. HIDE DEF b, d
<1>2. ~(a < b) /\ ~(b < a)
  <2>1. a < b => a * m + c < b * m + d
    BY <1>1, WholeUnitsFirst
  <2>2. b < a => b * m + d < a * m + c
    BY <1>1, WholeUnitsFirst
  <2> DEFINE p == a * m
             q == b * m
  <2>3. p \in Int /\ q \in Int
    BY <1>1
  <2>. HIDE DEF p, q
  <2>. QED BY <1>1, <2>1, <2>2, <2>3 DEF p, q
<1>3. a = b
  BY <1>1, <1>2
<1>4. c = d
  <2> DEFINE p == a * m
  <2>1. p \in Int /\ x = p + c /\ x = p + d
    BY <1>1, <1>3
  <2>. HIDE DEF p
  <2>. QED BY <1>1, <2>1
<1>. QED BY <1>3, <1>4 DEF b, d

LEMMA DateFields ==
    ASSUME NEW time \in Dates
    PROVE  /\ time.year \in Int /\ time.mon \in 0 .. 11
           /\ time.mday \in 1 .. MonthLength(time.year + TM_YEAR_BASE, time.mon)
           /\ time.hour \in 0 .. (HOURSPERDAY - 1) /\ time.min \in 0 .. (MINSPERHOUR - 1)
           /\ time.sec \in 0 .. (SECSPERMIN - 1)
           /\ time.year + TM_YEAR_BASE \in Int
  BY DEF Dates, Exists, TM_YEAR_BASE

\* A date is of its year.
LEMMA DayOfItsYear ==
    ASSUME NEW time \in Dates
    PROVE  /\ DaysBefore(time.year + TM_YEAR_BASE) <= DayOf(time)
           /\ DayOf(time) < DaysBefore(time.year + TM_YEAR_BASE + 1)
           /\ DayOf(time) \in Int
<1> DEFINE year == time.year + TM_YEAR_BASE
<1>1. year \in Int /\ time.mon \in 0 .. 11 /\ time.mday \in 1 .. MonthLength(year, time.mon)
  BY DateFields
<1>2. DayOf(time) = DaysBefore(year) + MonthStart(year, time.mon) + time.mday - 1
  BY DEF DayOf
<1>. HIDE DEF year
<1>3. DaysBefore(year + 1) = DaysBefore(year) + year_lengths(year) /\ DaysBefore(year) \in Int
  BY <1>1, YearLength, DaysBeforeIs
<1>4. /\ MonthStart(year, time.mon) + MonthLength(year, time.mon) <= year_lengths(year)
      /\ MonthStart(year, time.mon) \in Nat /\ MonthLength(year, time.mon) \in 28 .. 31
      /\ year_lengths(year) \in 365 .. 366
  BY <1>1, MonthOfYear, ZenonT(60)
<1>. QED BY <1>1, <1>2, <1>3, <1>4 DEF year

\* tmcomp compares the years first, then the months and so on.
LEMMA BeforeIs ==
    ASSUME NEW a \in Dates, NEW b \in Dates
    PROVE  Before(a, b) <=>
             ( \/ a.year < b.year
               \/ a.year = b.year /\ a.mon < b.mon
               \/ a.year = b.year /\ a.mon = b.mon /\ a.mday < b.mday
               \/ a.year = b.year /\ a.mon = b.mon /\ a.mday = b.mday /\ a.hour < b.hour
               \/ a.year = b.year /\ a.mon = b.mon /\ a.mday = b.mday /\ a.hour = b.hour /\ a.min < b.min
               \/ /\ a.year = b.year /\ a.mon = b.mon /\ a.mday = b.mday /\ a.hour = b.hour
                  /\ a.min = b.min /\ a.sec < b.sec )
<1> DEFINE fields == << "year", "mon", "mday", "hour", "min", "sec" >>
           First(k) == a[fields[k]] < b[fields[k]] /\ \A j \in 1 .. (k - 1) : a[fields[j]] = b[fields[j]]
<1>1. Before(a, b) <=> \E k \in 1 .. 6 : First(k)
  <2>1. DOMAIN fields = 1 .. 6
    OBVIOUS
  <2>2. Before(a, b) <=> \E k \in DOMAIN fields : First(k)
    BY Zenon DEF Before
  <2>. HIDE DEF First, fields
  <2>. QED BY <2>1, <2>2, Zenon
<1>2. /\ fields[1] = "year" /\ fields[2] = "mon" /\ fields[3] = "mday"
      /\ fields[4] = "hour" /\ fields[5] = "min" /\ fields[6] = "sec"
  OBVIOUS
<1>3. \A k : k \in 1 .. 6 <=> k = 1 \/ k = 2 \/ k = 3 \/ k = 4 \/ k = 5 \/ k = 6
  OBVIOUS
<1>4. (\E k \in 1 .. 6 : First(k)) <=> (First(1) \/ First(2) \/ First(3) \/ First(4) \/ First(5) \/ First(6))
  <2>. HIDE DEF First
  <2>. QED BY <1>3, Zenon
<1>. HIDE DEF fields
<1> DEFINE Same(j) == a[fields[j]] = b[fields[j]]
<1>5. /\ \A j : j \notin 1 .. (1 - 1)
      /\ \A j : j \in 1 .. (2 - 1) <=> j = 1
      /\ \A j : j \in 1 .. (3 - 1) <=> j = 1 \/ j = 2
      /\ \A j : j \in 1 .. (4 - 1) <=> j = 1 \/ j = 2 \/ j = 3
      /\ \A j : j \in 1 .. (5 - 1) <=> j = 1 \/ j = 2 \/ j = 3 \/ j = 4
      /\ \A j : j \in 1 .. (6 - 1) <=> j = 1 \/ j = 2 \/ j = 3 \/ j = 4 \/ j = 5
  OBVIOUS
<1>6. /\ (\A j \in 1 .. (1 - 1) : Same(j))
      /\ (\A j \in 1 .. (2 - 1) : Same(j)) <=> Same(1)
      /\ (\A j \in 1 .. (3 - 1) : Same(j)) <=> Same(1) /\ Same(2)
      /\ (\A j \in 1 .. (4 - 1) : Same(j)) <=> Same(1) /\ Same(2) /\ Same(3)
      /\ (\A j \in 1 .. (5 - 1) : Same(j)) <=> Same(1) /\ Same(2) /\ Same(3) /\ Same(4)
      /\ (\A j \in 1 .. (6 - 1) : Same(j)) <=> Same(1) /\ Same(2) /\ Same(3) /\ Same(4) /\ Same(5)
  <2>. HIDE DEF Same
  <2>. QED BY <1>5, Zenon
<1>7. /\ Same(1) <=> a.year = b.year
      /\ Same(2) <=> a.mon = b.mon
      /\ Same(3) <=> a.mday = b.mday
      /\ Same(4) <=> a.hour = b.hour
      /\ Same(5) <=> a.min = b.min
  BY <1>2, Zenon
<1>8. /\ First(1) <=> a.year < b.year
      /\ First(2) <=> Same(1) /\ a.mon < b.mon
      /\ First(3) <=> Same(1) /\ Same(2) /\ a.mday < b.mday
      /\ First(4) <=> Same(1) /\ Same(2) /\ Same(3) /\ a.hour < b.hour
      /\ First(5) <=> Same(1) /\ Same(2) /\ Same(3) /\ Same(4) /\ a.min < b.min
      /\ First(6) <=> Same(1) /\ Same(2) /\ Same(3) /\ Same(4) /\ Same(5) /\ a.sec < b.sec
  BY <1>2, <1>6, Zenon
<1>. HIDE DEF First, Same
<1>. QED BY <1>1, <1>4, <1>7, <1>8, Zenon

\* Of two dates that are not the same one is before the other.
LEMMA NotBeforeIsSame ==
    ASSUME NEW a \in Dates, NEW b \in Dates, ~Before(a, b), ~Before(b, a)
    PROVE  a = b
<1>1. /\ a.year \in Int /\ a.mon \in Int /\ a.mday \in Int /\ a.hour \in Int /\ a.min \in Int /\ a.sec \in Int
      /\ b.year \in Int /\ b.mon \in Int /\ b.mday \in Int /\ b.hour \in Int /\ b.min \in Int /\ b.sec \in Int
  BY DEF Dates
<1>2. /\ ~(a.year < b.year) /\ ~(b.year < a.year)
      /\ a.year = b.year => ~(a.mon < b.mon) /\ ~(b.mon < a.mon)
      /\ a.year = b.year /\ a.mon = b.mon => ~(a.mday < b.mday) /\ ~(b.mday < a.mday)
      /\ a.year = b.year /\ a.mon = b.mon /\ a.mday = b.mday => ~(a.hour < b.hour) /\ ~(b.hour < a.hour)
      /\ a.year = b.year /\ a.mon = b.mon /\ a.mday = b.mday /\ a.hour = b.hour => ~(a.min < b.min) /\ ~(b.min < a.min)
      /\ a.year = b.year /\ a.mon = b.mon /\ a.mday = b.mday /\ a.hour = b.hour /\ a.min = b.min
            => ~(a.sec < b.sec) /\ ~(b.sec < a.sec)
  BY BeforeIs, Zenon
<1>3. \A i, j \in Int : ~(i < j) /\ ~(j < i) => i = j
  OBVIOUS
<1>4. a.year = b.year /\ a.mon = b.mon /\ a.mday = b.mday /\ a.hour = b.hour /\ a.min = b.min /\ a.sec = b.sec
  BY <1>1, <1>2, <1>3, Zenon
<1>. QED BY <1>4 DEF Dates

\* Earlier dates have fewer seconds.
LEMMA SecondsInOrder ==
    ASSUME NEW a \in Dates, NEW b \in Dates, Before(a, b)
    PROVE  SecondsSince1970(a) < SecondsSince1970(b)
<1> DEFINE H == HOURSPERDAY
           M == MINSPERHOUR
           Q == SECSPERMIN
           i == DayOf(a)
           j == DayOf(b)
<1>1. H \in Nat \ {0} /\ M \in Nat \ {0} /\ Q \in Nat \ {0}
  BY ClockAssumption
<1>2. /\ a.hour \in 0 .. (H - 1) /\ a.min \in 0 .. (M - 1) /\ a.sec \in 0 .. (Q - 1) /\ i \in Int
      /\ b.hour \in 0 .. (H - 1) /\ b.min \in 0 .. (M - 1) /\ b.sec \in 0 .. (Q - 1) /\ j \in Int
  BY DateFields, SecondsAre
<1>3. /\ a.year \in Int /\ b.year \in Int /\ a.mon \in 0 .. 11 /\ b.mon \in 0 .. 11
      /\ a.mday \in 1 .. MonthLength(a.year + TM_YEAR_BASE, a.mon)
      /\ b.mday \in 1 .. MonthLength(b.year + TM_YEAR_BASE, b.mon)
      /\ a.year + TM_YEAR_BASE \in Int /\ b.year + TM_YEAR_BASE \in Int
  BY DateFields
<1>4. a.year < b.year => i < j
  <2>. SUFFICES ASSUME a.year < b.year PROVE i < j
    OBVIOUS
  <2>1. DaysBefore(a.year + TM_YEAR_BASE + 1) <= DaysBefore(b.year + TM_YEAR_BASE)
        /\ DaysBefore(a.year + TM_YEAR_BASE + 1) \in Int /\ DaysBefore(b.year + TM_YEAR_BASE) \in Int
    <3>1. a.year + TM_YEAR_BASE + 1 \in Int /\ a.year + TM_YEAR_BASE + 1 <= b.year + TM_YEAR_BASE
      BY <1>3 DEF TM_YEAR_BASE
    <3>. QED BY <1>3, <3>1, YearsInOrder
  <2>2. i < DaysBefore(a.year + TM_YEAR_BASE + 1) /\ DaysBefore(b.year + TM_YEAR_BASE) <= j
    BY DayOfItsYear
  <2>. HIDE DEF i, j
  <2>. QED BY <1>2, <2>1, <2>2
<1>5. a.year = b.year /\ a.mon < b.mon => i < j
  <2>. SUFFICES ASSUME a.year = b.year, a.mon < b.mon PROVE i < j
    OBVIOUS
  <2> DEFINE year == a.year + TM_YEAR_BASE
  <2>1. year \in Int /\ a.mday <= MonthLength(year, a.mon) /\ b.mday >= 1 /\ a.mday \in Int /\ b.mday \in Int
    BY <1>3
  <2>2. i = DaysBefore(year) + MonthStart(year, a.mon) + a.mday - 1 /\ j = DaysBefore(year) + MonthStart(year, b.mon) + b.mday - 1
    BY DEF DayOf
  <2>. HIDE DEF year, i, j
  <2>3. MonthStart(year, a.mon) + MonthLength(year, a.mon) <= MonthStart(year, b.mon)
    BY <1>3, <2>1, MonthsInOrder, Zenon
  <2>4. /\ MonthStart(year, a.mon) \in Nat /\ MonthLength(year, a.mon) \in 28 .. 31 /\ MonthStart(year, b.mon) \in Nat
    BY <1>3, <2>1, MonthOfYear, Zenon
  <2>5. DaysBefore(year) \in Int
    BY <2>1, DaysBeforeIs
  <2>. QED BY <2>1, <2>2, <2>3, <2>4, <2>5
<1>6. a.year = b.year /\ a.mon = b.mon => j - i = b.mday - a.mday
  <2>. SUFFICES ASSUME a.year = b.year, a.mon = b.mon PROVE j - i = b.mday - a.mday
    OBVIOUS
  <2> DEFINE year == a.year + TM_YEAR_BASE
             first == MonthStart(year, a.mon)
  <2>1. year \in Int /\ a.mday \in Int /\ b.mday \in Int
    BY <1>3
  <2>2. i = DaysBefore(year) + first + a.mday - 1 /\ j = DaysBefore(year) + first + b.mday - 1
    BY DEF DayOf
  <2>. HIDE DEF year, i, j
  <2>3. first \in Nat
    BY <1>3, <2>1, MonthOfYear, Zenon
  <2>4. DaysBefore(year) \in Int
    BY <2>1, DaysBeforeIs
  <2>. HIDE DEF first
  <2>. QED BY <2>1, <2>2, <2>3, <2>4
<1>7. \/ i < j
      \/ i = j /\ a.hour < b.hour
      \/ i = j /\ a.hour = b.hour /\ a.min < b.min
      \/ i = j /\ a.hour = b.hour /\ a.min = b.min /\ a.sec < b.sec
  <2>. HIDE DEF i, j
  <2>1. a.mday \in Int /\ b.mday \in Int
    BY <1>3
  <2>2. \/ a.year < b.year
        \/ a.year = b.year /\ a.mon < b.mon
        \/ a.year = b.year /\ a.mon = b.mon /\ a.mday < b.mday
        \/ a.year = b.year /\ a.mon = b.mon /\ a.mday = b.mday /\ a.hour < b.hour
        \/ a.year = b.year /\ a.mon = b.mon /\ a.mday = b.mday /\ a.hour = b.hour /\ a.min < b.min
        \/ a.year = b.year /\ a.mon = b.mon /\ a.mday = b.mday /\ a.hour = b.hour /\ a.min = b.min /\ a.sec < b.sec
    BY BeforeIs, Zenon
  <2>3. \A m, n \in Int : j - i = n - m => (m < n => i < j) /\ (m = n => i = j)
    BY <1>2
  <2>4. a.year = b.year /\ a.mon = b.mon => (a.mday < b.mday => i < j) /\ (a.mday = b.mday => i = j)
    BY <1>6, <2>1, <2>3, Zenon
  <2>. QED BY <1>4, <1>5, <2>2, <2>4, Zenon
<1> DEFINE ia == i * H + a.hour
           ja == j * H + b.hour
           ma == ia * M + a.min
           mb == ja * M + b.min
<1>8. SecondsSince1970(a) = ma * Q + a.sec /\ SecondsSince1970(b) = mb * Q + b.sec
  BY SecondsAre
<1>. HIDE DEF i, j, H, M, Q
<1>9. ia \in Int /\ ja \in Int /\ (i < j => ia < ja) /\ (i = j /\ a.hour < b.hour => ia < ja)
      /\ (i = j /\ a.hour = b.hour => ia = ja)
  BY <1>1, <1>2, WholeUnitsFirst
<1>. HIDE DEF ia, ja
<1>10. ma \in Int /\ mb \in Int /\ (ia < ja => ma < mb) /\ (ia = ja /\ a.min < b.min => ma < mb)
       /\ (ia = ja /\ a.min = b.min => ma = mb)
  BY <1>1, <1>2, <1>9, WholeUnitsFirst
<1>. HIDE DEF ma, mb
<1>11. ma < mb \/ (ma = mb /\ a.sec < b.sec)
  BY <1>7, <1>9, <1>10
<1>12. ma < mb => ma * Q + a.sec < mb * Q + b.sec
  BY <1>1, <1>2, <1>10, WholeUnitsFirst
<1>13. ma = mb /\ a.sec < b.sec => ma * Q + a.sec < mb * Q + b.sec
  <2>1. ma * Q \in Int
    BY <1>1, <1>10
  <2> DEFINE p == ma * Q
  <2>. HIDE DEF p
  <2>2. ASSUME ma = mb PROVE mb * Q = p
    BY <2>2 DEF p
  <2>. QED BY <1>2, <2>1, <2>2 DEF p
<1>. QED BY <1>8, <1>11, <1>12, <1>13

(***************************************************************************)
(* What timesub breaks down.                                               *)
(***************************************************************************)
\* The loop of timesub is done, with days of year y and seconds left.
YearFound(q) ==
    /\ y \in Int /\ tdays \in Int /\ rem \in Int /\ t \in Int /\ q \in Int
    /\ 0 <= tdays /\ tdays < year_lengths(y) /\ DaysBefore(y) + tdays = q
    /\ t = q * SECSPERDAY + rem
    /\ rem < SECSPERDAY /\ -rem < SECSPERDAY

Backward == rem < 0
SecondsLeft == IF Backward THEN rem + SECSPERDAY ELSE rem
YearOf == IF Backward /\ tdays = 0 THEN y - 1 ELSE y
DayOfYear == IF ~Backward THEN tdays ELSE IF tdays = 0 THEN year_lengths(YearOf) - 1 ELSE tdays - 1
MonthOf == CHOOSE m \in 0..11 : /\ MonthStart(YearOf, m) <= DayOfYear
                                /\ DayOfYear < MonthStart(YearOf, m) + mon_lengths(YearOf)[m + 1]

LEMMA BrokenDownParts ==
    BrokenDown = [ year |-> YearOf - TM_YEAR_BASE, mon |-> MonthOf,
                   mday |-> DayOfYear - MonthStart(YearOf, MonthOf) + 1,
                   hour |-> SecondsLeft \div SECSPERHOUR,
                   min  |-> (SecondsLeft % SECSPERHOUR) \div SECSPERMIN,
                   sec  |-> SecondsLeft % SECSPERMIN ]
  BY Zenon DEF BrokenDown, YearOf, MonthOf, DayOfYear, SecondsLeft, Backward

\* The seconds of a day as hours, minutes and seconds.
LEMMA TimeOfDay ==
    ASSUME NEW left \in 0 .. (SECSPERDAY - 1)
    PROVE  /\ left \div SECSPERHOUR \in 0 .. (HOURSPERDAY - 1)
           /\ (left % SECSPERHOUR) \div SECSPERMIN \in 0 .. (MINSPERHOUR - 1)
           /\ left % SECSPERMIN \in 0 .. (SECSPERMIN - 1)
           /\ left = ((left \div SECSPERHOUR) * MINSPERHOUR + (left % SECSPERHOUR) \div SECSPERMIN) * SECSPERMIN
                       + (left % SECSPERMIN)
<1> DEFINE hour == left \div SECSPERHOUR
           rest == left % SECSPERHOUR
           mins == rest \div SECSPERMIN
           secs == rest % SECSPERMIN
<1>1. /\ SECSPERMIN \in Nat \ {0} /\ MINSPERHOUR \in Nat \ {0} /\ HOURSPERDAY \in Nat \ {0}
      /\ SECSPERHOUR \in Nat \ {0} /\ SECSPERDAY \in Nat \ {0}
  BY Numerals, ClockAssumption
<1>2. left \in Nat /\ left < HOURSPERDAY * SECSPERHOUR
  <2>1. SECSPERDAY = HOURSPERDAY * SECSPERHOUR
    <3>1. \A a, b \in Nat : a * b = b * a
      OBVIOUS
    <3>. QED BY <1>1, <3>1 DEF SECSPERDAY
  <2>. QED BY <1>1, <2>1
<1>3. hour \in 0 .. (HOURSPERDAY - 1) /\ rest \in 0 .. (SECSPERHOUR - 1) /\ left = hour * SECSPERHOUR + rest
  BY <1>1, <1>2, DividedOff
<1>. HIDE DEF hour, rest
<1>4. rest \in Nat /\ rest < MINSPERHOUR * SECSPERMIN
  <2>1. SECSPERHOUR = MINSPERHOUR * SECSPERMIN
    <3>1. \A a, b \in Nat : a * b = b * a
      OBVIOUS
    <3>. QED BY <1>1, <3>1 DEF SECSPERHOUR
  <2>. QED BY <1>1, <1>3, <2>1
<1>5. mins \in 0 .. (MINSPERHOUR - 1) /\ secs \in 0 .. (SECSPERMIN - 1) /\ rest = mins * SECSPERMIN + secs
  BY <1>1, <1>4, DividedOff
<1>. HIDE DEF mins, secs
<1>6. left = (hour * MINSPERHOUR + mins) * SECSPERMIN + secs
  <2>1. \A h, m, q \in Int : h * (q * m) + mins * q + secs = (h * m + mins) * q + secs
    BY <1>5
  <2>. QED BY <1>1, <1>3, <1>5, <2>1 DEF SECSPERHOUR
<1>7. left % SECSPERMIN = secs
  <2>1. hour * MINSPERHOUR + mins \in Int
    BY <1>1, <1>3, <1>5
  <2> DEFINE a == hour * MINSPERHOUR + mins
  <2>2. left = a * SECSPERMIN + secs
    BY <1>6
  <2>. HIDE DEF a
  <2>3. a \in Int /\ SECSPERMIN \in Nat \ {0} /\ left \in Int
    BY <1>1, <1>2, <2>1 DEF a
  <2>. QED BY <1>5, <2>2, <2>3, RemainderIs, Zenon
<1>. QED BY <1>1, <1>3, <1>5, <1>6, <1>7 DEF hour, rest, mins, secs

LEMMA BrokenDownIs ==
    ASSUME NEW q, YearFound(q)
    PROVE  /\ BrokenDown \in Dates /\ SecondsSince1970(BrokenDown) = t
           /\ BrokenDown.year + TM_YEAR_BASE = YearOf /\ YearOf \in Int
<1>0. /\ y \in Int /\ tdays \in Int /\ rem \in Int /\ t \in Int /\ q \in Int
      /\ 0 <= tdays /\ tdays < year_lengths(y) /\ DaysBefore(y) + tdays = q
      /\ t = q * SECSPERDAY + rem /\ rem < SECSPERDAY /\ -rem < SECSPERDAY
  BY DEF YearFound
<1>1. SECSPERDAY \in Nat \ {0}
  BY Numerals
<1> DEFINE year == YearOf
           d == DayOfYear
           left == SecondsLeft
           m == MonthOf
<1>2. year \in Int /\ left \in 0 .. (SECSPERDAY - 1)
  BY <1>0, <1>1 DEF YearOf, SecondsLeft, Backward
<1>3. /\ d \in Nat /\ d < year_lengths(year)
      /\ DaysBefore(year) + d = (IF rem < 0 THEN q - 1 ELSE q)
  <2>1. CASE ~(rem < 0)
    BY <1>0, <2>1 DEF DayOfYear, YearOf, Backward
  <2>2. CASE rem < 0 /\ tdays # 0
    <3>1. year = y /\ d = tdays - 1
      BY <2>2 DEF DayOfYear, YearOf, Backward
    <3>. HIDE DEF year, d
    <3>2. DaysBefore(y) \in Int /\ year_lengths(y) \in Int
      BY <1>0, DaysBeforeIs DEF year_lengths, DAYSPERLYEAR, DAYSPERNYEAR
    <3>. QED BY <1>0, <2>2, <3>1, <3>2
  <2>3. CASE rem < 0 /\ tdays = 0
    <3>1. year = y - 1 /\ d = year_lengths(year) - 1
      BY <2>3 DEF DayOfYear, YearOf, Backward
    <3>2. year_lengths(year) \in 365 .. 366
      BY DEF year_lengths, DAYSPERLYEAR, DAYSPERNYEAR
    <3>3. year + 1 = y
      BY <1>0, <3>1
    <3>. HIDE DEF year, d
    <3>4. DaysBefore(y) = DaysBefore(year) + year_lengths(year) /\ DaysBefore(year) \in Int
      BY <1>2, <3>3, YearLength, DaysBeforeIs
    <3>. QED BY <1>0, <2>3, <3>1, <3>2, <3>4
  <2>. QED BY <2>1, <2>2, <2>3
<1>4. m \in 0 .. 11 /\ MonthStart(year, m) <= d /\ d < MonthStart(year, m) + mon_lengths(year)[m + 1]
  <2> DEFINE Falls(k) == MonthStart(year, k) <= d /\ d < MonthStart(year, k) + mon_lengths(year)[k + 1]
  <2>1. \E k \in 0 .. 11 : Falls(k)
    <3>. HIDE DEF year, d
    <3>. QED BY <1>2, <1>3, MonthOfDay, Zenon
  <2>2. m = CHOOSE k \in 0 .. 11 : Falls(k)
    BY Zenon DEF MonthOf
  <2>. HIDE DEF Falls, m
  <2>3. m \in 0 .. 11 /\ Falls(m)
    BY <2>1, <2>2, Zenon
  <2>. QED BY <2>3, Zenon DEF Falls
<1> DEFINE hour == left \div SECSPERHOUR
           mins == (left % SECSPERHOUR) \div SECSPERMIN
           secs == left % SECSPERMIN
           mday == d - MonthStart(year, m) + 1
<1>5. BrokenDown = [ year |-> year - TM_YEAR_BASE, mon |-> m, mday |-> mday, hour |-> hour, min |-> mins, sec |-> secs ]
  BY BrokenDownParts
<1>. HIDE DEF year, d, left, m
<1>6. /\ hour \in 0 .. (HOURSPERDAY - 1) /\ mins \in 0 .. (MINSPERHOUR - 1) /\ secs \in 0 .. (SECSPERMIN - 1)
      /\ left = (hour * MINSPERHOUR + mins) * SECSPERMIN + secs
  BY <1>2, TimeOfDay
<1>7. MonthStart(year, m) \in Nat
  BY <1>2, <1>4, MonthOfYear, Zenon
<1>8. mday \in 1 .. MonthLength(year, m) /\ MonthLength(year, m) \in Int
  <2>1. MonthLength(year, m) = mon_lengths(year)[m + 1]
    BY DEF MonthLength
  <2>2. MonthLength(year, m) \in 28 .. 31
    BY <1>2, <1>4, MonthOfYear, Zenon
  <2>. QED BY <1>3, <1>4, <1>7, <2>1, <2>2
<1>9. HOURSPERDAY \in Nat \ {0} /\ MINSPERHOUR \in Nat \ {0} /\ SECSPERMIN \in Nat \ {0}
  BY ClockAssumption
<1>. HIDE DEF hour, mins, secs, mday
<1>10. (year - TM_YEAR_BASE) + TM_YEAR_BASE = year
  BY <1>2 DEF TM_YEAR_BASE
<1>11. BrokenDown \in Dates
  <2>1. BrokenDown \in [ year : Int, mon : Int, mday : Int, hour : Int, min : Int, sec : Int ]
    BY <1>2, <1>4, <1>5, <1>6, <1>8 DEF TM_YEAR_BASE
  <2>2. Exists(BrokenDown)
    BY <1>4, <1>5, <1>6, <1>8, <1>10 DEF Exists
  <2>. QED BY <2>1, <2>2 DEF Dates
<1> DEFINE day == IF rem < 0 THEN q - 1 ELSE q
<1>12. DayOf(BrokenDown) = day
  <2>1. DayOf(BrokenDown) = DaysBefore(year) + MonthStart(year, m) + mday - 1
    BY <1>5, <1>10 DEF DayOf
  <2>2. mday = d - MonthStart(year, m) + 1
    BY DEF mday
  <2>3. DaysBefore(year) \in Int
    BY <1>2, DaysBeforeIs
  <2>. QED BY <1>3, <1>7, <2>1, <2>2, <2>3
<1>13. SecondsSince1970(BrokenDown) = ((day * HOURSPERDAY + hour) * MINSPERHOUR + mins) * SECSPERMIN + secs
  BY <1>5, <1>11, <1>12, SecondsAre
<1>14. t = day * SECSPERDAY + left
  <2>1. (q - 1) * SECSPERDAY = q * SECSPERDAY - SECSPERDAY
    BY <1>0, <1>1
  <2> DEFINE p == q * SECSPERDAY
  <2>2. p \in Int
    BY <1>0, <1>1
  <2>3. t = p + rem /\ (q - 1) * SECSPERDAY = p - SECSPERDAY
    BY <1>0, <2>1
  <2>. HIDE DEF p
  <2>4. CASE rem < 0
    BY <1>0, <1>1, <2>2, <2>3, <2>4 DEF left, SecondsLeft, Backward
  <2>5. CASE ~(rem < 0)
    BY <1>0, <1>1, <2>2, <2>3, <2>5 DEF left, SecondsLeft, Backward, p
  <2>. QED BY <2>4, <2>5
<1>15. day \in Int
  BY <1>0
<1>. HIDE DEF day
<1>16. day * SECSPERDAY + left = ((day * HOURSPERDAY + hour) * MINSPERHOUR + mins) * SECSPERMIN + secs
  <2>1. \A h, m1, q1, x, v, w, z \in Int : x * (q1 * m1 * h) + ((v * m1 + w) * q1 + z) = ((x * h + v) * m1 + w) * q1 + z
    OBVIOUS
  <2>2. left = (hour * MINSPERHOUR + mins) * SECSPERMIN + secs /\ hour \in Int /\ mins \in Int /\ secs \in Int
    BY <1>6
  <2>3. SECSPERDAY = SECSPERMIN * MINSPERHOUR * HOURSPERDAY
    BY DEF SECSPERDAY, SECSPERHOUR
  <2>. QED BY <1>9, <1>15, <2>1, <2>2, <2>3
<1>. QED BY <1>2, <1>5, <1>10, <1>11, <1>13, <1>14, <1>16 DEF year

(***************************************************************************)
(* The loop of timesub over the years.                                     *)
(***************************************************************************)
\* The loop never runs past the year it looks for.
LoopInv ==
    pc = "years" =>
        /\ rem = t - Quot(t, SECSPERDAY) * SECSPERDAY
        /\ IsInt(y)
        /\ t >= 0 => tdays >= 0 /\ y >= EPOCH_YEAR
        /\ t < 0 => tdays < year_lengths(y) /\ y <= EPOCH_YEAR

LEMMA QuotIs ==
    ASSUME NEW a \in Int, NEW m \in Nat \ {0}
    PROVE  /\ Quot(a, m) \in Int
           /\ a - Quot(a, m) * m < m /\ -(a - Quot(a, m) * m) < m /\ a - Quot(a, m) * m \in Int
           /\ a >= 0 => Quot(a, m) >= 0 /\ a - Quot(a, m) * m >= 0
           /\ a < 0 => Quot(a, m) <= 0 /\ a - Quot(a, m) * m <= 0
<1> DEFINE q == Quot(a, m)
<1>1. CASE a >= 0
  <2> DEFINE b == a \div m
             c == a % m
  <2>1. b \in Int /\ c \in 0 .. (m - 1) /\ a = b * m + c
    BY DivisionUnique
  <2>2. q = b
    BY <1>1 DEF Quot
  <2>. HIDE DEF b, c
  <2>3. a - b * m = c
    BY <2>1
  <2>4. ~(b < 0)
    <3>1. b < 0 => b * m + m <= 0 * m
      BY <2>1, Multiples
    <3> DEFINE p == b * m
    <3>2. p \in Int /\ 0 * m = 0 /\ a = p + c /\ (b < 0 => p + m <= 0 * m)
      BY <2>1, <3>1
    <3>. HIDE DEF p
    <3>. QED BY <1>1, <2>1, <3>2
  <2>. HIDE DEF q
  <2>. QED BY <1>1, <2>1, <2>2, <2>3, <2>4 DEF q
<1>2. CASE a < 0
  <2> DEFINE d == -a
             b == d \div m
             c == d % m
  <2>0. d \in Nat
    BY <1>2
  <2>1. b \in Int /\ c \in 0 .. (m - 1) /\ d = b * m + c
    BY <2>0, DivisionUnique
  <2>2. q = -b
    BY <1>2 DEF Quot
  <2>. HIDE DEF b, c
  <2>3. a - (-b) * m = -c
    <3>1. (-b) * m = -(b * m)
      BY <2>1
    <3> DEFINE p == b * m
    <3>2. p \in Int /\ d = p + c /\ (-b) * m = -p
      BY <2>1, <3>1
    <3>. HIDE DEF p
    <3>. QED BY <2>1, <3>2
  <2>4. ~(b < 0)
    <3>1. b < 0 => b * m + m <= 0 * m
      BY <2>1, Multiples
    <3> DEFINE p == b * m
    <3>2. p \in Int /\ 0 * m = 0 /\ d = p + c /\ (b < 0 => p + m <= 0 * m)
      BY <2>1, <3>1
    <3>. HIDE DEF p
    <3>. QED BY <2>0, <2>1, <3>2
  <2>. HIDE DEF q
  <2>. QED BY <1>2, <2>1, <2>2, <2>3, <2>4 DEF q
<1>. QED BY <1>1, <1>2

LEMMA Lengths ==
    /\ SECSPERDAY \in Nat \ {0} /\ INT_MAX \in Nat /\ 1970 <= INT_MAX
    /\ SECSPERMIN <= INT_MAX /\ MINSPERHOUR <= INT_MAX /\ HOURSPERDAY <= INT_MAX
    /\ SECSPERMIN \in Nat \ {0} /\ MINSPERHOUR \in Nat \ {0} /\ HOURSPERDAY \in Nat \ {0}
  BY Numerals, ClockAssumption, TextsAssumption DEF EPOCH_YEAR

LEMMA YearLengths == ASSUME NEW year \in Int PROVE year_lengths(year) \in 365 .. 366
  BY DEF year_lengths, DAYSPERLYEAR, DAYSPERNYEAR

\* timesub begins in 1970.
LEMMA CallTimesubLoops ==
    ASSUME NEW time \in Int, NEW forSearch, CallTimesub(time, forSearch), t' = time
    PROVE  LoopInv'
<1> DEFINE q == Quot(time, SECSPERDAY)
<1>1. q \in Int /\ (time >= 0 => q >= 0) /\ (time < 0 => q <= 0)
  BY Lengths, QuotIs
<1>2. y' = 1970 /\ tdays' = q /\ rem' = time - q * SECSPERDAY
  BY DEF CallTimesub, EPOCH_YEAR
<1>. HIDE DEF q
<1>3. IsInt(y)'
  BY <1>2, Lengths DEF IsInt, INT_MIN
<1>4. year_lengths(y') \in 365 .. 366
  BY <1>2, YearLengths
<1>. QED BY <1>1, <1>2, <1>3, <1>4 DEF LoopInv, q, EPOCH_YEAR

\* The days between two years, as the loop counts them.
LEMMA YearStepIs ==
    ASSUME ClockInv, pc = "years"
    PROVE  /\ tdays \in Int /\ y \in Int /\ t \in Int /\ idelta \in Int /\ DaysBefore(y) \in Int
           /\ DaysBefore(y) + tdays = Quot(t, SECSPERDAY)
           /\ tdays >= 0 => tdelta >= 0 /\ 366 * tdelta <= tdays
           /\ tdays < 0 => tdelta <= 0 /\ 366 * tdelta >= tdays
           /\ tdelta \in Int
           /\ tdelta # 0 => idelta = tdelta
           /\ tdelta = 0 => idelta = (IF tdays < 0 THEN -1 ELSE 1)
<1>1. tdays \in Int /\ y \in Int /\ t \in Int
  BY DEF ClockInv, SecondsInv
<1>2. DaysBefore(y) + tdays = Quot(t, SECSPERDAY)
  BY DEF ClockInv, DayKept
<1>3. /\ tdelta \in Int
      /\ tdays >= 0 => tdelta >= 0 /\ 366 * tdelta <= tdays
      /\ tdays < 0 => tdelta <= 0 /\ 366 * tdelta >= tdays
  <2>1. tdelta = Quot(tdays, 366)
    BY DEF tdelta, DAYSPERLYEAR
  <2>. HIDE DEF tdelta
  <2>. QED BY <1>1, <2>1 DEF Quot
<1>4. /\ tdelta # 0 => idelta = tdelta
      /\ tdelta = 0 => idelta = (IF tdays < 0 THEN -1 ELSE 1)
  BY DEF idelta
<1>. HIDE DEF tdelta, idelta
<1>. QED BY <1>1, <1>2, <1>3, <1>4, DaysBeforeIs

LEMMA YearStepLoops ==
    ASSUME ClockInv, ClockInv', LoopInv, YearStep
    PROVE  LoopInv'
<1>0. pc = "years" /\ pc' = "years" /\ ~InYear /\ y' = y + idelta /\ IsInt(y + idelta) /\ UNCHANGED << t, rem >>
  BY DEF YearStep
<1>1. /\ tdays \in Int /\ y \in Int /\ t \in Int /\ idelta \in Int /\ DaysBefore(y) \in Int
      /\ DaysBefore(y) + tdays = Quot(t, SECSPERDAY)
      /\ tdays >= 0 => tdelta >= 0 /\ 366 * tdelta <= tdays
      /\ tdays < 0 => tdelta <= 0 /\ 366 * tdelta >= tdays
      /\ tdelta \in Int
      /\ tdelta # 0 => idelta = tdelta
      /\ tdelta = 0 => idelta = (IF tdays < 0 THEN -1 ELSE 1)
  BY <1>0, YearStepIs
<1>2. tdays' \in Int /\ DaysBefore(y') + tdays' = Quot(t, SECSPERDAY)
  BY <1>0 DEF ClockInv, SecondsInv, DayKept, DaysBefore
<1>3. year_lengths(y) \in 365 .. 366 /\ (tdays < 0 \/ tdays >= year_lengths(y))
  BY <1>0, <1>1, YearLengths DEF InYear
<1>4. /\ rem = t - Quot(t, SECSPERDAY) * SECSPERDAY
      /\ t >= 0 => tdays >= 0 /\ y >= 1970
      /\ t < 0 => tdays < year_lengths(y) /\ y <= 1970
  BY <1>0 DEF LoopInv, EPOCH_YEAR
<1>. HIDE DEF tdelta, idelta
<1> DEFINE k == idelta
           next == y + k
<1>5. next \in Int /\ y' = next /\ DaysBefore(next) \in Int /\ DaysBefore(y') = DaysBefore(next)
  BY <1>0, <1>1, DaysBeforeIs
<1>6. CASE t >= 0
  <2>1. k \in Nat /\ k >= 1 /\ tdays >= 365
    BY <1>1, <1>3, <1>4, <1>6
  <2>2. DaysBefore(next) <= DaysBefore(y) + 366 * k
    BY <1>1, <2>1, YearsInARow, ZenonT(60)
  <2>3. tdays' >= 0
    <3>1. CASE tdelta # 0
      <4>. HIDE DEF next
      <4>. QED BY <1>1, <1>2, <1>5, <2>1, <2>2, <3>1
    <3>2. CASE tdelta = 0
      <4>1. next = y + 1
        BY <1>1, <2>1, <3>2
      <4>. HIDE DEF next
      <4>2. DaysBefore(next) = DaysBefore(y) + year_lengths(y)
        BY <1>1, <4>1, YearLength
      <4>. QED BY <1>1, <1>2, <1>3, <1>4, <1>5, <1>6, <4>2
    <3>. QED BY <3>1, <3>2
  <2>4. y' >= 1970
    BY <1>1, <1>4, <1>5, <1>6, <2>1
  <2>. QED BY <1>0, <1>1, <1>4, <1>5, <1>6, <2>3, <2>4 DEF LoopInv, EPOCH_YEAR
<1>7. CASE t < 0
  <2>1. k \in Int /\ -k \in Nat /\ -k >= 1 /\ tdays < 0
    BY <1>1, <1>3, <1>4, <1>7
  <2>2. DaysBefore(y) <= DaysBefore(next) + 366 * (-k)
    <3>1. next + (-k) = y
      BY <1>1, <2>1
    <3>. HIDE DEF next, k
    <3>2. DaysBefore(next + (-k)) <= DaysBefore(next) + 366 * (-k)
      BY <1>5, <2>1, YearsInARow
    <3>. QED BY <3>1, <3>2
  <2>3. year_lengths(next) \in 365 .. 366
    BY <1>5, YearLengths
  <2>4. tdays' < year_lengths(next)
    <3>1. CASE tdelta # 0
      <4>1. 366 * (-k) <= -tdays
        BY <1>1, <2>1, <3>1
      <4>. HIDE DEF next, k
      <4>. QED BY <1>1, <1>2, <1>5, <2>1, <2>2, <2>3, <4>1
    <3>2. CASE tdelta = 0
      <4>1. next + 1 = y
        BY <1>1, <2>1, <3>2
      <4>. HIDE DEF next
      <4>2. DaysBefore(y) = DaysBefore(next) + year_lengths(next)
        BY <1>5, <4>1, YearLength
      <4>. QED BY <1>1, <1>2, <1>5, <2>1, <2>3, <4>2
    <3>. QED BY <3>1, <3>2
  <2>5. y' <= 1970
    BY <1>1, <1>4, <1>5, <1>7, <2>1
  <2>6. year_lengths(y') = year_lengths(next)
    BY <1>5
  <2>. HIDE DEF next, k
  <2>. QED BY <1>0, <1>1, <1>4, <1>5, <1>7, <2>4, <2>5, <2>6 DEF LoopInv, EPOCH_YEAR
<1>. QED BY <1>1, <1>6, <1>7

LEMMA EndsInItsYear ==
    ASSUME ClockInv, LoopInv, TimesubEnds
    PROVE  /\ YearFound(Quot(t, SECSPERDAY)) /\ IsInt(y) /\ (t >= 0 => y >= 1970) /\ t \in Int
           /\ BrokenDown \in Dates /\ SecondsSince1970(BrokenDown) = t
<1> DEFINE q == Quot(t, SECSPERDAY)
<1>1. pc = "years" /\ InYear
  BY DEF TimesubEnds
<1>2. y \in Int /\ tdays \in Int /\ rem \in Int /\ t \in Int /\ DaysBefore(y) + tdays = q
  BY <1>1 DEF ClockInv, SecondsInv, DayKept
<1>3. q \in Int /\ t - q * SECSPERDAY < SECSPERDAY /\ -(t - q * SECSPERDAY) < SECSPERDAY
  BY <1>2, Lengths, QuotIs
<1>4. rem = t - q * SECSPERDAY /\ IsInt(y) /\ (t >= 0 => y >= 1970)
  BY <1>1 DEF LoopInv, EPOCH_YEAR
<1>. HIDE DEF q
<1>5. t = q * SECSPERDAY + rem
  BY <1>2, <1>3, <1>4, Lengths
<1>6. YearFound(q)
  BY <1>1, <1>2, <1>3, <1>4, <1>5 DEF YearFound, InYear
<1>7. BrokenDown \in Dates /\ SecondsSince1970(BrokenDown) = t
  BY <1>6, BrokenDownIs
<1>. QED BY <1>2, <1>4, <1>6, <1>7 DEF q

\* A date is of its day.
LEMMA SecondsOfItsDay ==
    ASSUME NEW time \in Dates
    PROVE  /\ DayOf(time) * SECSPERDAY <= SecondsSince1970(time)
           /\ SecondsSince1970(time) < (DayOf(time) + 1) * SECSPERDAY
           /\ DayOf(time) \in Int /\ SecondsSince1970(time) \in Int
<1> DEFINE H == HOURSPERDAY
           M == MINSPERHOUR
           Q == SECSPERMIN
           d == DayOf(time)
           ia == d * H + time.hour
           ma == ia * M + time.min
<1>1. H \in Nat \ {0} /\ M \in Nat \ {0} /\ Q \in Nat \ {0}
  BY ClockAssumption
<1>2. /\ time.hour \in 0 .. (H - 1) /\ time.min \in 0 .. (M - 1) /\ time.sec \in 0 .. (Q - 1) /\ d \in Int
      /\ SecondsSince1970(time) = ma * Q + time.sec /\ SecondsSince1970(time) \in Int
  BY DateFields, SecondsAre
<1>3. SECSPERDAY = Q * M * H
  BY DEF SECSPERDAY, SECSPERHOUR
<1>. HIDE DEF H, M, Q, d
<1>4. ASSUME NEW a \in Int, NEW b \in Int, NEW m \in Nat \ {0}, NEW c \in 0 .. (m - 1)
      PROVE  /\ a <= b => a * m <= b * m + c
             /\ b < a => b * m + c < a * m
             /\ b * m + c \in Int
  <2>1. a < b => a * m + m <= b * m
    BY Multiples
  <2>2. b < a => b * m + m <= a * m
    BY Multiples
  <2>3. a * m \in Int /\ b * m \in Int /\ (a = b => a * m = b * m)
    OBVIOUS
  <2> DEFINE p == a * m
             r == b * m
  <2>. HIDE DEF p, r
  <2>4. (a < b => p + m <= r) /\ (b < a => r + m <= p) /\ p \in Int /\ r \in Int /\ (a = b => p = r)
    BY <2>1, <2>2, <2>3 DEF p, r
  <2>5. (a <= b => p <= r + c) /\ (b < a => r + c < p) /\ r + c \in Int
    BY <2>4
  <2>. QED BY <2>5 DEF p, r
<1>5. d * H <= ia /\ ia < (d + 1) * H /\ ia \in Int
  <2>1. d + 1 \in Int /\ d <= d /\ d < d + 1
    BY <1>2
  <2>. QED BY <1>1, <1>2, <1>4, <2>1
<1>. HIDE DEF ia
<1>6. (d * H) * M <= ma /\ ma < ((d + 1) * H) * M /\ ma \in Int
  <2>1. d * H \in Int /\ (d + 1) * H \in Int
    BY <1>1, <1>2
  <2>. QED BY <1>1, <1>2, <1>4, <1>5, <2>1
<1>. HIDE DEF ma
<1>7. /\ ((d * H) * M) * Q <= ma * Q + time.sec
      /\ ma * Q + time.sec < (((d + 1) * H) * M) * Q
  <2>1. (d * H) * M \in Int /\ ((d + 1) * H) * M \in Int
    BY <1>1, <1>2
  <2>. QED BY <1>1, <1>2, <1>4, <1>6, <2>1
<1>8. \A x \in Int : ((x * H) * M) * Q = x * (Q * M * H)
  BY <1>1
<1>9. ((d * H) * M) * Q = d * SECSPERDAY /\ (((d + 1) * H) * M) * Q = (d + 1) * SECSPERDAY
  <2>1. d + 1 \in Int
    BY <1>2
  <2>. QED BY <1>2, <1>3, <1>8, <2>1
<1>. QED BY <1>2, <1>7, <1>9 DEF d

\* A year from 1900 on that int holds: what the numbers of a text in range are.
Countable(time) == 1900 <= time.year + TM_YEAR_BASE /\ time.year + TM_YEAR_BASE <= INT_MAX

\* Where timesub has no answer it was called for a time before or after all those that count.
LEMMA NoAnswerIsFar ==
    ASSUME ClockInv, LoopInv, TimesubReturns, ~(TimesubEnds /\ ResultFits),
           NEW time \in Dates, Countable(time)
    PROVE  /\ t > 0 => SecondsSince1970(time) < t
           /\ t <= 0 => t < SecondsSince1970(time)
           /\ t \in Int /\ SecondsSince1970(time) \in Int
<1> DEFINE q == Quot(t, SECSPERDAY)
           s == SecondsSince1970(time)
           Q == SECSPERDAY
           year == time.year + TM_YEAR_BASE
<1>1. pc = "years"
  BY DEF TimesubReturns, TimesubEnds, TimesubGivesUp
<1>2. /\ y \in Int /\ tdays \in Int /\ t \in Int /\ idelta \in Int /\ tdelta \in Int /\ DaysBefore(y) + tdays = q
      /\ (tdays >= 0 => tdelta >= 0 /\ 366 * tdelta <= tdays)
      /\ (tdays < 0 => tdelta <= 0 /\ 366 * tdelta >= tdays)
      /\ (tdelta # 0 => idelta = tdelta) /\ (tdelta = 0 => idelta = (IF tdays < 0 THEN -1 ELSE 1))
  BY <1>1, YearStepIs
<1>3. /\ rem = t - q * Q /\ IsInt(y)
      /\ t >= 0 => tdays >= 0 /\ y >= 1970
      /\ t < 0 => tdays < year_lengths(y) /\ y <= 1970
  BY <1>1 DEF LoopInv, EPOCH_YEAR
<1>4. Q \in Nat \ {0} /\ INT_MAX \in Nat /\ 1970 <= INT_MAX
  BY Lengths
<1>5. q \in Int /\ (t >= 0 => q * Q <= t) /\ (t < 0 => t <= q * Q)
  <2>1. q \in Int /\ (t >= 0 => t - q * Q >= 0) /\ (t < 0 => t - q * Q <= 0)
    <3>1. t \in Int
      BY <1>2
    <3>2. SECSPERDAY \in Nat \ {0}
      BY Lengths
    <3>3. (t >= 0 => q >= 0 /\ t - q * Q >= 0) /\ (t < 0 => q <= 0 /\ t - q * Q <= 0) /\ q \in Int
      BY <3>1, <3>2, QuotIs, Zenon
    <3>. QED BY <3>3, Zenon
  <2> DEFINE p == q * Q
  <2>2. p \in Int
    BY <1>4, <2>1
  <2>3. (t >= 0 => t - p >= 0) /\ (t < 0 => t - p <= 0)
    BY <2>1
  <2>4. (t >= 0 => p <= t) /\ (t < 0 => t <= p)
    <3>. HIDE DEF p, q
    <3>. QED BY <1>2, <2>2, <2>3
  <2>. QED BY <2>1, <2>4
<1>6. /\ DayOf(time) * Q <= s /\ s < (DayOf(time) + 1) * Q /\ DayOf(time) \in Int /\ s \in Int
      /\ DaysBefore(year) <= DayOf(time) /\ DayOf(time) < DaysBefore(year + 1)
      /\ year \in Int /\ 1900 <= year /\ year <= INT_MAX
  BY SecondsOfItsDay, DayOfItsYear, DateFields DEF Countable
<1>. HIDE DEF q, s, Q, year, idelta, tdelta
<1>7. year_lengths(y) \in 365 .. 366 /\ DaysBefore(y) \in Int
  BY <1>2, YearLengths, DaysBeforeIs
<1>8. (t >= 0 /\ q >= DaysBefore(INT_MAX + 1)) \/ (t < 0 /\ q < DaysBefore(1900))
  <2>1. CASE TimesubEnds /\ ~ResultFits
    <3>1. YearFound(Quot(t, SECSPERDAY)) /\ InYear
      BY <2>1, EndsInItsYear DEF TimesubEnds
    <3>2. BrokenDown.year + 1900 = YearOf /\ YearOf \in Int /\ BrokenDown.year \in Int
      BY <3>1, BrokenDownIs, DateFields DEF TM_YEAR_BASE
    <3>3. YearOf = y \/ YearOf = y - 1
      BY DEF YearOf
    <3>4. ~IsInt(BrokenDown.year)
      BY <2>1 DEF ResultFits
    <3>5. y + 1 <= 1900
      <4>1. y <= INT_MAX /\ ~(-INT_MAX - 1 <= BrokenDown.year /\ BrokenDown.year <= INT_MAX)
        BY <1>3, <3>4 DEF IsInt, INT_MIN
      <4>. QED BY <1>2, <1>4, <3>2, <3>3, <4>1
    <3>6. DaysBefore(y + 1) <= DaysBefore(1900) /\ DaysBefore(y + 1) \in Int /\ DaysBefore(1900) \in Int
      <4> DEFINE j == y + 1
      <4>1. j \in Int /\ j <= 1900
        BY <1>2, <3>5
      <4>. HIDE DEF j
      <4>2. DaysBefore(j) <= DaysBefore(1900) /\ DaysBefore(j) \in Int /\ DaysBefore(1900) \in Int
        BY <4>1, YearsInOrder
      <4>. QED BY <4>2 DEF j
    <3>7. DaysBefore(y + 1) = DaysBefore(y) + year_lengths(y)
      BY <1>2, YearLength
    <3>8. t < 0
      BY <1>2, <1>3, <3>5
    <3>9. tdays < year_lengths(y)
      BY <3>1 DEF InYear
    <3>. QED BY <1>2, <1>7, <3>6, <3>7, <3>8, <3>9
  <2>2. CASE TimesubGivesUp
    <3>1. ~InYear /\ ~(IsInt(tdelta) /\ IsInt(y + idelta))
      BY <2>2 DEF TimesubGivesUp
    <3>2. tdays < 0 \/ tdays >= year_lengths(y)
      BY <1>2, <1>7, <3>1 DEF InYear
    <3>3. ~(-INT_MAX - 1 <= tdelta /\ tdelta <= INT_MAX /\ -INT_MAX - 1 <= y + idelta /\ y + idelta <= INT_MAX)
      BY <3>1 DEF IsInt, INT_MIN
    <3>4. -INT_MAX - 1 <= y /\ y <= INT_MAX
      BY <1>3 DEF IsInt, INT_MIN
    <3>5. CASE t >= 0
      <4>1. tdays >= year_lengths(y) /\ idelta >= 1 /\ idelta \in Nat /\ y + idelta >= INT_MAX + 1
        BY <1>2, <1>3, <1>4, <1>7, <3>2, <3>3, <3>5
      <4>2. DaysBefore(y + idelta) <= q
        <5>1. CASE tdelta # 0
          <6>1. DaysBefore(y + idelta) <= DaysBefore(y) + 366 * idelta /\ DaysBefore(y + idelta) \in Int
            BY <1>2, <4>1, YearsInARow
          <6>. QED BY <1>2, <1>7, <4>1, <5>1, <6>1
        <5>2. CASE tdelta = 0
          <6>1. idelta = 1
            BY <1>2, <1>7, <4>1, <5>2
          <6>2. DaysBefore(y + 1) = DaysBefore(y) + year_lengths(y)
            BY <1>2, YearLength
          <6>. QED BY <1>2, <1>7, <4>1, <6>1, <6>2
        <5>. QED BY <5>1, <5>2
      <4>3. DaysBefore(INT_MAX + 1) <= DaysBefore(y + idelta) /\ DaysBefore(INT_MAX + 1) \in Int
            /\ DaysBefore(y + idelta) \in Int
        <5> DEFINE i == INT_MAX + 1
                   j == y + idelta
        <5>1. i \in Int /\ j \in Int /\ i <= j
          BY <1>2, <1>4, <4>1
        <5>. HIDE DEF i, j
        <5>2. DaysBefore(i) <= DaysBefore(j) /\ DaysBefore(i) \in Int /\ DaysBefore(j) \in Int
          BY <5>1, YearsInOrder
        <5>. QED BY <5>2 DEF i, j
      <4>. QED BY <1>5, <3>5, <4>2, <4>3
    <3>6. CASE t < 0
      <4>1. tdays < 0 /\ -idelta \in Nat /\ -idelta >= 1
        BY <1>2, <1>3, <1>7, <3>2, <3>6
      <4>2. CASE tdelta # 0
        <5>1. y + idelta <= 1900 /\ y + idelta \in Int /\ 366 * (-idelta) <= -tdays
          BY <1>2, <1>3, <1>4, <3>3, <3>4, <3>6, <4>1, <4>2
        <5> DEFINE j == y + idelta
                   k == -idelta
        <5>2. j \in Int /\ k \in Nat /\ j + k = y /\ j <= 1900
          BY <1>2, <4>1, <5>1
        <5>. HIDE DEF j, k
        <5>3. DaysBefore(j + k) <= DaysBefore(j) + 366 * k /\ DaysBefore(j) \in Int
          BY <5>2, YearsInARow
        <5>4. DaysBefore(j) <= DaysBefore(1900) /\ DaysBefore(1900) \in Int
          BY <5>2, YearsInOrder
        <5>5. 366 * k <= -tdays
          BY <5>1 DEF k
        <5>6. q <= DaysBefore(j)
          BY <1>2, <1>5, <1>7, <5>2, <5>3, <5>5
        <5>7. j < 1900
          BY <1>2, <1>3, <1>4, <3>3, <3>4, <3>6, <4>1, <4>2 DEF j
        <5>8. DaysBefore(j + 1) <= DaysBefore(1900) /\ DaysBefore(j + 1) = DaysBefore(j) + year_lengths(j)
              /\ year_lengths(j) \in 365 .. 366
          <6>1. j + 1 \in Int /\ j + 1 <= 1900
            BY <5>2, <5>7
          <6>. QED BY <5>2, <6>1, YearsInOrder, YearLength, YearLengths
        <5>. QED BY <1>5, <3>6, <5>3, <5>4, <5>6, <5>8
      <4>3. CASE tdelta = 0
        <5>1. idelta = -1 /\ y <= 1900
          BY <1>2, <1>4, <3>3, <3>4, <4>1, <4>3
        <5>2. DaysBefore(y) <= DaysBefore(1900) /\ DaysBefore(1900) \in Int
          BY <1>2, <5>1, YearsInOrder
        <5>. QED BY <1>2, <1>5, <1>7, <3>6, <4>1, <5>2
      <4>. QED BY <4>2, <4>3
    <3>. QED BY <1>2, <3>5, <3>6
  <2>. QED BY <2>1, <2>2 DEF TimesubReturns
<1>9. DaysBefore(1900) <= DayOf(time) /\ DayOf(time) + 1 <= DaysBefore(INT_MAX + 1)
      /\ DaysBefore(1900) \in Int /\ DaysBefore(INT_MAX + 1) \in Int
  <2> DEFINE i == INT_MAX + 1
             j == year + 1
  <2>1. i \in Int /\ j \in Int /\ j <= i /\ year \in Int /\ 1900 <= year
    BY <1>4, <1>6
  <2>2. DayOf(time) < DaysBefore(j)
    BY <1>6
  <2>. HIDE DEF i, j
  <2>3. DaysBefore(j) <= DaysBefore(i) /\ DaysBefore(i) \in Int /\ DaysBefore(j) \in Int
    BY <2>1, YearsInOrder
  <2>4. DaysBefore(1900) <= DaysBefore(year) /\ DaysBefore(1900) \in Int /\ DaysBefore(year) \in Int
    BY <2>1, YearsInOrder
  <2>5. DaysBefore(1900) <= DayOf(time) /\ DayOf(time) + 1 <= DaysBefore(i)
    BY <1>6, <2>2, <2>3, <2>4
  <2>. QED BY <2>3, <2>4, <2>5 DEF i
<1>10. \A a, b \in Int : a <= b => a * Q <= b * Q
  <2>. SUFFICES ASSUME NEW a \in Int, NEW b \in Int, a <= b PROVE a * Q <= b * Q
    OBVIOUS
  <2>1. a < b => a * Q + Q <= b * Q
    BY <1>4, Multiples
  <2> DEFINE p == a * Q
             r == b * Q
  <2>2. p \in Int /\ r \in Int /\ (a = b => p = r) /\ (a < b => p + Q <= r)
    BY <1>4, <2>1
  <2>. HIDE DEF p, r
  <2>3. p <= r
    BY <1>4, <2>2
  <2>. QED BY <2>3 DEF p, r
<1>11. CASE t >= 0 /\ q >= DaysBefore(INT_MAX + 1)
  <2>1. (DayOf(time) + 1) * Q <= q * Q
    <3>1. DayOf(time) + 1 \in Int /\ DayOf(time) + 1 <= q
      BY <1>5, <1>6, <1>9, <1>11
    <3>. QED BY <1>5, <1>10, <3>1
  <2>2. s < t
    <3> DEFINE p == (DayOf(time) + 1) * Q
               r == q * Q
    <3>1. p \in Int /\ r \in Int /\ s < p /\ p <= r /\ r <= t
      BY <1>4, <1>5, <1>6, <1>11, <2>1
    <3>. HIDE DEF p, r
    <3>. QED BY <1>2, <1>6, <3>1
  <2>3. t # 0
    <3>1. CASE t = 0
      <4>1. tdays < 0 \/ tdays >= year_lengths(y) \/ ~(tdays >= 0 /\ y >= 1970) \/ TimesubEnds
        BY <1>1, <1>2, <1>7 DEF TimesubEnds, InYear
      <4>2. q = 0
        <5>1. 0 \div SECSPERDAY = 0
          <6>1. 0 = 0 * SECSPERDAY + 0 /\ 0 \in 0 .. (SECSPERDAY - 1) /\ SECSPERDAY \in Nat \ {0}
            BY Lengths
          <6>. QED BY <6>1, RemainderIs
        <5>. QED BY <3>1, <5>1 DEF q, Quot
      <4>3. DaysBefore(1970) <= DaysBefore(INT_MAX + 1) /\ DaysBefore(1970) + 365 <= DaysBefore(INT_MAX + 1)
        <5> DEFINE i == INT_MAX + 1
        <5>1. i \in Int /\ 1971 <= i
          BY <1>4
        <5>. HIDE DEF i
        <5>2. DaysBefore(1971) <= DaysBefore(i) /\ DaysBefore(i) \in Int /\ DaysBefore(1971) \in Int
          BY <5>1, YearsInOrder
        <5>3. DaysBefore(1970 + 1) = DaysBefore(1970) + year_lengths(1970) /\ year_lengths(1970) \in 365 .. 366
          BY YearLength, YearLengths
        <5>4. 1970 + 1 = 1971
          OBVIOUS
        <5>. QED BY <5>2, <5>3, <5>4, EpochBegins DEF i
      <4>. QED BY <1>9, <1>11, <4>2, <4>3, EpochBegins
    <3>. QED BY <3>1
  <2>. QED BY <1>2, <1>6, <1>11, <2>2, <2>3 DEF s
<1>12. CASE t < 0 /\ q < DaysBefore(1900)
  <2>1. q * Q + Q <= DayOf(time) * Q
    <3>1. q < DayOf(time)
      BY <1>5, <1>6, <1>9, <1>12
    <3>. QED BY <1>4, <1>5, <1>6, <3>1, Multiples
  <2>2. t < s
    <3> DEFINE p == DayOf(time) * Q
               r == q * Q
    <3>1. p \in Int /\ r \in Int /\ p <= s /\ r + Q <= p /\ t <= r
      BY <1>4, <1>5, <1>6, <1>12, <2>1
    <3>. HIDE DEF p, r
    <3>. QED BY <1>2, <1>4, <1>6, <3>1
  <2>. QED BY <1>2, <1>6, <1>12, <2>2 DEF s
<1>. QED BY <1>8, <1>11, <1>12

(***************************************************************************)
(* The numbers of a text.                                                  *)
(***************************************************************************)
\* f is what the first n characters amount to.
Adding(f, chars, n) ==
    f \in [ 0 .. n -> Int ] /\ f[0] = 0 /\ \A k \in 1 .. n : f[k] = f[k - 1] * 10 + chars[k]

LEMMA CharactersAdd == ASSUME NEW chars \in Seq(Int) PROVE \E f : Adding(f, chars, Len(chars))
<1> DEFINE len == Len(chars)
           S == { n \in Nat : n <= len => \E f : Adding(f, chars, n) }
<1>0. len \in Nat /\ \A k \in 1 .. len : chars[k] \in Int
  OBVIOUS
<1>1. 0 \in S
  <2>1. Adding([ k \in 0 .. 0 |-> 0 ], chars, 0)
    BY DEF Adding
  <2>. QED BY <2>1
<1>2. ASSUME NEW n \in 0 .. (len - 1), n \in S PROVE n + 1 \in S
  <2>0. n \in Nat /\ n <= len /\ n + 1 \in 1 .. len
    BY <1>0
  <2>1. PICK f : Adding(f, chars, n)
    BY <1>2, <2>0
  <2> DEFINE p == f[n] * 10 + chars[n + 1]
             g == [ k \in 0 .. (n + 1) |-> IF k = n + 1 THEN p ELSE f[k] ]
  <2>2. f \in [ 0 .. n -> Int ] /\ f[0] = 0 /\ \A k \in 1 .. n : f[k] = f[k - 1] * 10 + chars[k]
    BY <2>1 DEF Adding
  <2>3. p \in Int
    <3>1. f[n] \in Int /\ chars[n + 1] \in Int
      BY <1>0, <2>0, <2>2
    <3>. QED BY <3>1
  <2>4. g \in [ 0 .. (n + 1) -> Int ] /\ g[0] = 0 /\ g[n + 1] = p
    <3>. HIDE DEF p
    <3>. QED BY <2>0, <2>2, <2>3
  <2>5. \A k \in 1 .. (n + 1) : g[k] = g[k - 1] * 10 + chars[k]
    <3>. SUFFICES ASSUME NEW k \in 1 .. (n + 1) PROVE g[k] = g[k - 1] * 10 + chars[k]
      OBVIOUS
    <3>1. CASE k = n + 1
      <4>1. g[k - 1] = f[n] /\ g[k] = p
        BY <2>0, <3>1
      <4>. QED BY <3>1, <4>1
    <3>2. CASE k # n + 1
      <4>1. k \in 1 .. n /\ g[k] = f[k] /\ g[k - 1] = f[k - 1]
        BY <2>0, <3>2
      <4>. HIDE DEF g
      <4>. QED BY <2>2, <4>1
    <3>. QED BY <3>1, <3>2
  <2>6. Adding(g, chars, n + 1)
    <3>. HIDE DEF g
    <3>. QED BY <2>4, <2>5 DEF Adding
  <2>. QED BY <2>0, <2>6
<1>3. 0 .. len \subseteq S
  <2>. HIDE DEF S, len
  <2>. QED BY <1>0, <1>1, <1>2, FromZero
<1>4. len \in S
  <2>. HIDE DEF S
  <2>. QED BY <1>0, <1>3
<1>. QED BY <1>0, <1>4

LEMMA NumberIsInt == ASSUME NEW chars \in Seq(Int) PROVE qvlStringToNum(chars) \in Int
<1>1. PICK f : Adding(f, chars, Len(chars))
  BY CharactersAdd
<1> DEFINE n == Len(chars)
           Turn(h) == [ k \in 0 .. n |-> IF k = 0 THEN 0 ELSE h[k - 1] * 10 + chars[k] ]
           num == CHOOSE h : h = Turn(h)
<1>2. n \in Nat /\ f \in [ 0 .. n -> Int ] /\ f[0] = 0 /\ \A k \in 1 .. n : f[k] = f[k - 1] * 10 + chars[k]
  BY <1>1 DEF Adding
<1>3. f = Turn(f)
  <2>1. \A k \in 0 .. n : f[k] = (IF k = 0 THEN 0 ELSE f[k - 1] * 10 + chars[k])
    BY <1>2
  <2>2. f = [ k \in 0 .. n |-> f[k] ]
    BY <1>2
  <2>. HIDE DEF n
  <2>. QED BY <2>1, <2>2
<1>4. num = Turn(num)
  <2>. HIDE DEF Turn
  <2>. QED BY <1>3
<1>5. qvlStringToNum(chars) = num[n]
  BY DEF qvlStringToNum
<1>. HIDE DEF num
<1>6. num[0] = 0 /\ DOMAIN num = 0 .. n
  <2>1. Turn(num)[0] = 0 /\ DOMAIN Turn(num) = 0 .. n
    BY <1>2
  <2>. HIDE DEF Turn
  <2>. QED BY <1>4, <2>1
<1>7. ASSUME NEW k \in 1 .. n PROVE num[k] = num[k - 1] * 10 + chars[k]
  <2>1. Turn(num)[k] = num[k - 1] * 10 + chars[k]
    BY <1>2
  <2>. HIDE DEF Turn
  <2>. QED BY <1>4, <2>1
<1> DEFINE S == { k \in 0 .. n : num[k] = f[k] }
<1>8. 0 .. n \subseteq S
  <2>1. 0 \in S
    BY <1>2, <1>6
  <2>2. ASSUME NEW k \in 0 .. (n - 1), k \in S PROVE k + 1 \in S
    <3>1. k + 1 \in 1 .. n /\ (k + 1) - 1 = k /\ num[k] = f[k] /\ k + 1 \in 0 .. n
      BY <1>2, <2>2
    <3>2. num[k + 1] = f[k + 1]
      BY <1>2, <1>7, <3>1
    <3>. QED BY <3>1, <3>2
  <2>. HIDE DEF S, n
  <2>. QED BY <1>2, <2>1, <2>2, FromZero
<1>9. n \in 0 .. n
  BY <1>2
<1>10. num[n] = f[n] /\ f[n] \in Int
  <2>1. n \in S
    <3>. HIDE DEF S, n
    <3>. QED BY <1>8, <1>9
  <2>. QED BY <1>2, <1>9, <2>1
<1>. QED BY <1>5, <1>10

\* The text names a date that is there.
Sought == text \in Texts /\ InRange(text) /\ Exists(Numbers(text))

LEMMA SoughtIs ==
    ASSUME Sought
    PROVE  /\ Numbers(text) \in Dates /\ Countable(Numbers(text))
           /\ SecondsSince1970(Numbers(text)) \in TIME_MIN .. TIME_MAX
           /\ Numbers(text).year >= 70 => SecondsSince1970(Numbers(text)) >= 0
<1> DEFINE n == Numbers(text)
           year == n.year + TM_YEAR_BASE
           s == SecondsSince1970(n)
           Q == SECSPERDAY
<1>1. text \in Texts /\ InRange(text) /\ Exists(n)
  BY DEF Sought
<1>2. /\ n.year = qvlStringToNum(text.year) - 1900
      /\ n = [ year |-> n.year, mon |-> n.mon, mday |-> n.mday, hour |-> n.hour, min |-> n.min, sec |-> n.sec ]
  BY DEF Numbers, TM_YEAR_BASE
<1>3. text.year \in Seq(Int) /\ qvlStringToNum(text.year) <= INT_MAX
      /\ (qvlStringToNum(text.year) + 1 - 1970) * 366 * Q <= TIME_MAX
  BY <1>1, TextsAssumption DEF TmFields, EPOCH_YEAR, DAYSPERLYEAR
<1>4. n.year \in Int
  <2>1. qvlStringToNum(text.year) \in Int
    BY <1>3, NumberIsInt
  <2>. QED BY <1>2, <2>1
<1>5. /\ n.year >= 0 /\ n.mon \in 0 .. 11 /\ n.mday \in 1 .. 31
      /\ n.hour \in 0 .. (HOURSPERDAY - 1) /\ n.min \in 0 .. (MINSPERHOUR - 1) /\ n.sec \in 0 .. (SECSPERMIN - 1)
  BY <1>1 DEF InRange
<1>6. n \in Dates
  <2>1. HOURSPERDAY \in Nat /\ MINSPERHOUR \in Nat /\ SECSPERMIN \in Nat
    BY Lengths
  <2>2. /\ n.year \in Int /\ n.mon \in Int /\ n.mday \in Int /\ n.hour \in Int /\ n.min \in Int /\ n.sec \in Int
    BY <1>4, <1>5, <2>1
  <2>. HIDE DEF n
  <2>. QED BY <1>1, <1>2, <2>2 DEF Dates
<1>. HIDE DEF n
<1>7. year \in Int /\ 1900 <= year /\ year <= INT_MAX /\ year = qvlStringToNum(text.year)
  <2>1. qvlStringToNum(text.year) \in Int
    BY <1>3, NumberIsInt
  <2>. QED BY <1>2, <1>3, <1>4, <1>5, <2>1 DEF TM_YEAR_BASE
<1>8. Countable(n)
  BY <1>7 DEF Countable
<1>9. Q \in Nat \ {0} /\ TIME_MIN \in Int /\ TIME_MAX \in Int /\ TIME_MIN = -TIME_MAX - 1
  <2>1. TIME_MIN = -TIME_MAX - 1
    <3>1. \A a \in Int : -a = -(a - 1) - 1
      OBVIOUS
    <3> DEFINE a == 2^(TIME_BIT - 1)
    <3>2. a \in Int
      <4>1. TIME_BIT - 1 \in Nat
        BY ClockAssumption
      <4>2. \A k \in Nat : 2^k \in Int
        OBVIOUS
      <4>. QED BY <4>1, <4>2
    <3>3. TIME_MIN = -a /\ TIME_MAX = a - 1
      BY DEF TIME_MIN, TIME_MAX
    <3>. HIDE DEF a
    <3>. QED BY <3>1, <3>2, <3>3
  <2>. QED BY <2>1, Numerals
<1>10. /\ DayOf(n) * Q <= s /\ s < (DayOf(n) + 1) * Q /\ DayOf(n) \in Int /\ s \in Int
       /\ DaysBefore(year) <= DayOf(n) /\ DayOf(n) < DaysBefore(year + 1)
  BY <1>6, SecondsOfItsDay, DayOfItsYear
<1>11. 70 * 366 * Q <= TIME_MAX
  BY TextsAssumption DEF EPOCH_YEAR, TM_YEAR_BASE, DAYSPERLYEAR
<1>. HIDE DEF year, s, Q
<1>12. ASSUME NEW a \in Int, NEW b \in Int, a <= b PROVE a * Q <= b * Q
  <2>1. a < b => a * Q + Q <= b * Q
    BY <1>9, Multiples
  <2> DEFINE p == a * Q
             r == b * Q
  <2>2. p \in Int /\ r \in Int /\ (a = b => p = r) /\ (a < b => p + Q <= r)
    BY <1>9, <2>1
  <2>. HIDE DEF p, r
  <2>3. p <= r
    BY <1>9, <1>12, <2>2
  <2>. QED BY <2>3 DEF p, r
<1>13. TIME_MIN <= s
  <2>1. -25620 <= DayOf(n)
    <3>1. DaysBefore(1900) <= DaysBefore(year) /\ DaysBefore(1900) \in Int /\ DaysBefore(year) \in Int
      BY <1>7, YearsInOrder
    <3>2. DaysBefore(1900 + 70) <= DaysBefore(1900) + 366 * 70
      <4> DEFINE a == 1900
                 k == 70
      <4>1. a \in Int /\ k \in Nat
        OBVIOUS
      <4>. HIDE DEF a, k
      <4>2. DaysBefore(a + k) <= DaysBefore(a) + 366 * k
        BY <4>1, YearsInARow
      <4>. QED BY <4>2 DEF a, k
    <3>3. 1900 + 70 = 1970 /\ 366 * 70 = 25620
      OBVIOUS
    <3>. QED BY <1>10, <3>1, <3>2, <3>3, EpochBegins
  <2>2. (-25620) * Q <= DayOf(n) * Q
    BY <1>10, <1>12, <2>1
  <2>3. 70 * 366 * Q = 25620 * Q /\ (-25620) * Q = -(25620 * Q) /\ 25620 * Q \in Int
    BY <1>9
  <2> DEFINE p == DayOf(n) * Q
             r == 25620 * Q
  <2>4. p \in Int /\ r \in Int /\ r <= TIME_MAX /\ -r <= p /\ p <= s
    BY <1>9, <1>10, <1>11, <2>2, <2>3
  <2>. HIDE DEF p, r
  <2>. QED BY <1>9, <1>10, <2>4
<1>14. s <= TIME_MAX
  <2> DEFINE k == year + 1 - 1970
  <2>1. CASE year >= 1970
    <3>1. k \in Nat /\ 1970 + k = year + 1
      BY <1>7, <2>1
    <3>2. DaysBefore(1970 + k) <= DaysBefore(1970) + 366 * k
      <4>. HIDE DEF k
      <4>. QED BY <3>1, YearsInARow
    <3>3. DayOf(n) + 1 <= k * 366 /\ k * 366 \in Int
      <4>. HIDE DEF k
      <4>1. DaysBefore(1970 + k) = DaysBefore(year + 1)
        BY <3>1
      <4>2. DaysBefore(year + 1) \in Int
        BY <1>7, DaysBeforeIs
      <4>. QED BY <1>10, <3>1, <3>2, <4>1, <4>2, EpochBegins
    <3>4. (DayOf(n) + 1) * Q <= (k * 366) * Q
      <4> DEFINE a == DayOf(n) + 1
                 b == k * 366
      <4>1. a \in Int /\ b \in Int /\ a <= b
        BY <1>10, <3>3
      <4>. HIDE DEF a, b
      <4>2. a * Q <= b * Q
        BY <1>12, <4>1
      <4>. QED BY <4>2 DEF a, b
    <3>5. (k * 366) * Q <= TIME_MAX
      BY <1>3, <1>7
    <3> DEFINE p == (DayOf(n) + 1) * Q
               r == (k * 366) * Q
    <3>6. p \in Int /\ r \in Int /\ s < p /\ p <= r /\ r <= TIME_MAX
      BY <1>9, <1>10, <3>3, <3>4, <3>5
    <3>. HIDE DEF p, r
    <3>. QED BY <1>9, <1>10, <3>6
  <2>2. CASE year < 1970
    <3>1. DaysBefore(year + 1) <= DaysBefore(1970) /\ DaysBefore(year + 1) \in Int
      <4> DEFINE j == year + 1
      <4>1. j \in Int /\ j <= 1970
        BY <1>7, <2>2
      <4>. HIDE DEF j
      <4>2. DaysBefore(j) <= DaysBefore(1970) /\ DaysBefore(j) \in Int
        BY <4>1, YearsInOrder
      <4>. QED BY <4>2 DEF j
    <3>2. DayOf(n) + 1 <= 0 /\ DayOf(n) + 1 \in Int
      BY <1>10, <3>1, EpochBegins
    <3>3. (DayOf(n) + 1) * Q <= 0 * Q
      <4> DEFINE a == DayOf(n) + 1
      <4>. HIDE DEF a
      <4>1. a * Q <= 0 * Q
        BY <1>12, <3>2 DEF a
      <4>. QED BY <4>1 DEF a
    <3> DEFINE p == (DayOf(n) + 1) * Q
               r == 25620 * Q
    <3>4. p \in Int /\ s < p /\ p <= 0 /\ 0 <= r /\ r <= TIME_MAX /\ r \in Int
      BY <1>9, <1>10, <1>11, <3>2, <3>3
    <3>. HIDE DEF p, r
    <3>. QED BY <1>9, <1>10, <3>4
  <2>. QED BY <1>7, <2>1, <2>2
<1>15. n.year >= 70 => s >= 0
  <2>. SUFFICES ASSUME n.year >= 70 PROVE s >= 0
    OBVIOUS
  <2>1. 1970 <= year
    BY <1>4 DEF year, TM_YEAR_BASE
  <2>2. DaysBefore(1970) <= DaysBefore(year) /\ DaysBefore(year) \in Int
    BY <1>7, <2>1, YearsInOrder
  <2>3. 0 * Q <= DayOf(n) * Q
    <3> DEFINE a == DayOf(n)
    <3>1. a \in Int /\ 0 <= a
      BY <1>10, <2>2, EpochBegins
    <3>. HIDE DEF a
    <3>2. 0 * Q <= a * Q
      BY <1>12, <3>1
    <3>. QED BY <3>2 DEF a
  <2> DEFINE p == DayOf(n) * Q
  <2>4. p \in Int /\ 0 <= p /\ p <= s
    BY <1>9, <1>10, <2>3
  <2>. HIDE DEF p
  <2>. QED BY <1>10, <2>4
<1>16. s \in TIME_MIN .. TIME_MAX
  BY <1>9, <1>10, <1>13, <1>14
<1>. QED BY <1>6, <1>8, <1>15, <1>16 DEF n, s

(***************************************************************************)
(* The three calls of mktime.                                              *)
(***************************************************************************)
\* What the text names, and the second that is.
Named == Numbers(text)

Seconds == SecondsSince1970(Named)

Asked == stage \in { "validate", "read", "epoch" }

\* What the stage of a text says of it.
StagesInv ==
    /\ text \in Texts
    /\ stage \in { "validate", "read", "epoch", "ok", "invalid" }
    /\ pc \in { "parse", "fields", "months", "years", "returned" }
    /\ pc # "returned" => Asked
    /\ pc \in { "fields", "months", "years" } => InRange(text)
    /\ pc = "returned" => ret = WRONG \/ (InRange(text) /\ tm \in Dates)
    /\ stage \in { "read", "epoch", "ok" } => Sought /\ Seconds # WRONG
    /\ stage = "ok" => tm = Named /\ epoch = Seconds
    /\ stage = "invalid" => ~(Sought /\ Seconds # WRONG)

\* A call that looks for a date that is there finds it: the search never loses it from
\* between its bounds.
FoundInv ==
    Sought /\ Asked =>
        /\ pc = "fields" => tm = Named /\ ~norm
        /\ pc = "months" => yourtm = Named /\ y = Named.year + TM_YEAR_BASE
        /\ pc = "years" => yourtm = Named /\ saved = 0
        /\ pc = "years" /\ probing =>
              /\ TIME_MIN <= lo /\ lo <= t /\ t <= hi /\ hi <= TIME_MAX
              /\ lo <= Seconds /\ Seconds <= hi
        /\ pc = "years" /\ ~probing => t = Seconds
        /\ pc = "returned" => tm = Named /\ ret = Seconds

CallsInv == ClockInv /\ LoopInv /\ StagesInv /\ FoundInv

LEMMA TextStays ==
    ASSUME UNCHANGED text
    PROVE  Sought' = Sought /\ Named' = Named /\ Seconds' = Seconds /\ InRange(text)' = InRange(text)
  BY DEF Sought, Named, Seconds

LEMMA NamedIs ==
    ASSUME Sought
    PROVE  /\ Named \in Dates /\ Countable(Named) /\ InRange(text) /\ text \in Texts
           /\ Seconds \in TIME_MIN .. TIME_MAX /\ (Named.year >= 70 => Seconds >= 0)
           /\ Named = [ year |-> Named.year, mon |-> Named.mon, mday |-> Named.mday,
                        hour |-> Named.hour, min |-> Named.min, sec |-> Named.sec ]
<1>1. Named = [ year |-> Named.year, mon |-> Named.mon, mday |-> Named.mday,
                hour |-> Named.hour, min |-> Named.min, sec |-> Named.sec ]
  BY DEF Named, Numbers
<1>. QED BY <1>1, SoughtIs, Zenon DEF Sought, Named, Seconds

LEMMA NamedFields ==
    ASSUME Sought
    PROVE  /\ Named.year \in Nat /\ Named.year + 1900 <= INT_MAX /\ Named.mon \in 0 .. 11
           /\ Named.mday \in 1 .. 31 /\ Named.mday <= MonthLength(Named.year + TM_YEAR_BASE, Named.mon)
           /\ Named.hour \in 0 .. (HOURSPERDAY - 1) /\ Named.min \in 0 .. (MINSPERHOUR - 1)
           /\ Named.sec \in 0 .. (SECSPERMIN - 1)
<1> DEFINE n == Named
           year == n.year + TM_YEAR_BASE
<1>1. n \in Dates /\ Countable(n)
  BY NamedIs
<1>2. n.mday \in 1 .. 31
  BY DEF Sought, InRange, Named
<1>. HIDE DEF n
<1>3. /\ n.year \in Int /\ n.mon \in 0 .. 11 /\ n.mday \in 1 .. MonthLength(year, n.mon)
      /\ n.hour \in 0 .. (HOURSPERDAY - 1) /\ n.min \in 0 .. (MINSPERHOUR - 1) /\ n.sec \in 0 .. (SECSPERMIN - 1)
      /\ year \in Int
  BY <1>1, DateFields
<1>4. n.year \in Nat /\ n.year + 1900 <= INT_MAX
  BY <1>1, <1>3 DEF Countable, TM_YEAR_BASE
<1>5. n.mday <= MonthLength(year, n.mon)
  <2>1. MonthLength(year, n.mon) \in 28 .. 31
    BY <1>3, MonthOfYear
  <2>. QED BY <1>3, <2>1
<1>. QED BY <1>2, <1>3, <1>4, <1>5 DEF n

\* A step of mktime leaves the stage alone.
LEMMA StagesStay ==
    ASSUME StagesInv, pc \in { "fields", "months", "years" }, UNCHANGED <<text, stage, epoch>>,
           pc' \in { "fields", "months", "years", "returned" },
           pc' = "returned" => ret' = WRONG \/ tm' \in Dates
    PROVE  StagesInv' /\ Asked /\ Asked' /\ stage' = stage
<1>1. Sought' = Sought /\ Named' = Named /\ Seconds' = Seconds /\ InRange(text') = InRange(text)
  BY TextStays
<1>2. Asked /\ Asked' /\ InRange(text) /\ text' \in Texts /\ stage' = stage
  BY DEF StagesInv, Asked
<1>. QED BY <1>1, <1>2 DEF StagesInv, Asked

LEMMA FailsIs == Fails => pc' = "fields" \/ (pc' = "returned" /\ ret' = WRONG)
  BY DEF Fails

\* The invariant of a step that looks at no year.
LEMMA NoYear == ASSUME pc' # "years" PROVE LoopInv'
  BY DEF LoopInv

\* Nothing is left over where every field is in its range.
LEMMA FieldsCall ==
    ASSUME CallsInv, Fields, UNCHANGED <<text, stage, epoch>>
    PROVE  LoopInv' /\ StagesInv' /\ FoundInv'
<1>1. pc = "fields" /\ UNCHANGED tm /\ pc' \in { "months", "fields", "returned" }
      /\ (pc' = "returned" => ret' = WRONG)
  BY FailsIs DEF Fields
<1>2. LoopInv'
  BY <1>1, NoYear
<1>3. StagesInv' /\ Asked /\ Asked' /\ stage' = stage
  BY <1>1, StagesStay DEF CallsInv
<1>4. Sought' = Sought /\ Named' = Named
  BY TextStays
<1>5. ASSUME Sought PROVE pc' = "months" /\ yourtm' = Named /\ y' = Named.year + TM_YEAR_BASE
  <2> DEFINE n == Named
  <2>1. tm = n /\ ~norm
    BY <1>1, <1>3, <1>5 DEF CallsInv, FoundInv
  <2>2. /\ n.year \in Nat /\ n.year + 1900 <= INT_MAX /\ n.mon \in 0 .. 11 /\ n.mday \in 1 .. 31
        /\ n.hour \in 0 .. (HOURSPERDAY - 1) /\ n.min \in 0 .. (MINSPERHOUR - 1) /\ n.sec \in 0 .. (SECSPERMIN - 1)
    BY <1>5, NamedFields
  <2>3. n = [ year |-> n.year, mon |-> n.mon, mday |-> n.mday, hour |-> n.hour, min |-> n.min, sec |-> n.sec ]
    BY <1>5, NamedIs
  <2>. HIDE DEF n
  <2>4. /\ MINSPERHOUR \in Nat \ {0} /\ HOURSPERDAY \in Nat \ {0} /\ INT_MAX \in Nat /\ 1970 <= INT_MAX
        /\ MINSPERHOUR <= INT_MAX /\ HOURSPERDAY <= INT_MAX
    BY Lengths
  <2>5. ASSUME NEW m \in Nat \ {0}, NEW c \in 0 .. (m - 1) PROVE c \div m = 0 /\ c % m = c
    <3>1. c = 0 * m + c
      OBVIOUS
    <3>. QED BY <3>1, RemainderIs
  <2>6. /\ n.min \div MINSPERHOUR = 0 /\ n.min % MINSPERHOUR = n.min
        /\ n.hour \div HOURSPERDAY = 0 /\ n.hour % HOURSPERDAY = n.hour
        /\ n.mon \div 12 = 0 /\ n.mon % 12 = n.mon
    <3>1. \A m \in Nat \ {0} : \A c \in 0 .. (m - 1) : c \div m = 0 /\ c % m = c
      BY <2>5, Zenon
    <3>2. /\ n.min \div MINSPERHOUR = 0 /\ n.min % MINSPERHOUR = n.min
          /\ n.hour \div HOURSPERDAY = 0 /\ n.hour % HOURSPERDAY = n.hour
      <4> DEFINE min == n.min
                 hour == n.hour
      <4>1. min \in 0 .. (MINSPERHOUR - 1) /\ hour \in 0 .. (HOURSPERDAY - 1)
        BY <2>2
      <4>. HIDE DEF min, hour
      <4>2. min \div MINSPERHOUR = 0 /\ min % MINSPERHOUR = min
        BY <2>4, <3>1, <4>1
      <4>3. hour \div HOURSPERDAY = 0 /\ hour % HOURSPERDAY = hour
        BY <2>4, <3>1, <4>1
      <4>. QED BY <4>2, <4>3 DEF min, hour
    <3>3. n.mon \div 12 = 0 /\ n.mon % 12 = n.mon
      BY <2>2
    <3>. QED BY <3>2, <3>3
  <2>7. /\ n.hour + n.min \div MINSPERHOUR = n.hour
        /\ n.mday + (n.hour + n.min \div MINSPERHOUR) \div HOURSPERDAY = n.mday
        /\ n.year + n.mon \div 12 = n.year
    <3>1. n.hour + 0 = n.hour /\ n.mday + 0 = n.mday /\ n.year + 0 = n.year
      BY <2>2, <2>4
    <3>. QED BY <2>6, <3>1
  <2>8. IsInt(n.min) /\ IsInt(n.hour) /\ IsInt(n.mday) /\ IsInt(n.year) /\ IsInt(n.year + TM_YEAR_BASE)
    BY <2>2, <2>4 DEF IsInt, INT_MIN, TM_YEAR_BASE
  <2>9. /\ yourtm' = [ n EXCEPT !.sec = n.sec, !.min = n.min, !.hour = n.hour, !.mday = n.mday, !.mon = n.mon ]
        /\ y' = n.year + TM_YEAR_BASE
        /\ pc' = "months"
    <3> DEFINE hour == n.hour + n.min \div MINSPERHOUR
               mday == n.mday + hour \div HOURSPERDAY
               year == n.year + n.mon \div 12
    <3>1. /\ n.min % MINSPERHOUR = n.min /\ hour % HOURSPERDAY = n.hour /\ mday = n.mday /\ n.mon % 12 = n.mon
          /\ year = n.year /\ hour = n.hour
      BY <2>6, <2>7
    <3>2. IF \A i \in { n.min, hour, mday, year, year + TM_YEAR_BASE } : IsInt(i)
          THEN /\ yourtm' = [ n EXCEPT !.sec = n.sec, !.min = n.min % MINSPERHOUR,
                                       !.hour = hour % HOURSPERDAY, !.mday = mday, !.mon = n.mon % 12 ]
               /\ y' = year + TM_YEAR_BASE
               /\ pc' = "months"
          ELSE TRUE
      BY <2>1, Zenon DEF Fields, MONSPERYEAR
    <3>. HIDE DEF hour, mday, year
    <3>3. \A i \in { n.min, hour, mday, year, year + TM_YEAR_BASE } : IsInt(i)
      BY <2>8, <3>1
    <3>. QED BY <3>1, <3>2, <3>3
  <2>. QED BY <2>3, <2>9 DEF n
<1>6. FoundInv'
  BY <1>3, <1>4, <1>5 DEF FoundInv
<1>. QED BY <1>2, <1>3, <1>6

LEMMA MonthStepCall ==
    ASSUME CallsInv, MonthStep, UNCHANGED <<text, stage, epoch>>
    PROVE  LoopInv' /\ StagesInv' /\ FoundInv'
<1>1. pc = "months" /\ UNCHANGED tm /\ pc' \in { "months", "fields", "returned" }
      /\ (pc' = "returned" => ret' = WRONG) /\ yourtm.mday > MonthLength(y, yourtm.mon)
  BY FailsIs DEF MonthStep
<1>2. LoopInv'
  BY <1>1, NoYear
<1>3. StagesInv' /\ Asked /\ Asked' /\ stage' = stage
  BY <1>1, StagesStay DEF CallsInv
<1>4. Sought' = Sought
  BY TextStays
<1>5. ~Sought
  <2>. SUFFICES ASSUME Sought PROVE FALSE
    OBVIOUS
  <2>1. yourtm = Named /\ y = Named.year + TM_YEAR_BASE
    BY <1>1, <1>3 DEF CallsInv, FoundInv
  <2> DEFINE length == MonthLength(Named.year + TM_YEAR_BASE, Named.mon)
  <2>2. Named.mday <= length /\ Named.mday \in Int /\ Named.year + TM_YEAR_BASE \in Int /\ Named.mon \in 0 .. 11
    BY NamedFields DEF TM_YEAR_BASE
  <2>3. length \in 28 .. 31
    BY <2>2, MonthOfYear, Zenon
  <2>4. Named.mday > length
    BY <1>1, <2>1
  <2>. HIDE DEF length
  <2>. QED BY <2>2, <2>3, <2>4
<1>. QED BY <1>2, <1>3, <1>4, <1>5 DEF FoundInv

\* A probe lies between its bounds.
LEMMA MiddleIsBetween ==
    ASSUME NEW low \in Int, NEW high \in Int, low <= high
    PROVE  low <= Middle(low, high) /\ Middle(low, high) <= high /\ Middle(low, high) \in Int
<1> DEFINE m == Quot(low, 2) + Quot(high, 2)
<1>1. m \in Int
  BY QuotIsInt
<1>2. Middle(low, high) = IF m < low THEN low ELSE IF m > high THEN high ELSE m
  BY DEF Middle
<1>. HIDE DEF m
<1>. QED BY <1>1, <1>2

LEMMA StartSearchCall ==
    ASSUME CallsInv, StartSearch, UNCHANGED <<text, stage, epoch>>
    PROVE  LoopInv' /\ StagesInv' /\ FoundInv'
<1>1. pc = "months" /\ UNCHANGED tm
  BY DEF StartSearch
<1>2. TIME_MIN \in Int /\ TIME_MAX \in Int /\ Middle(TIME_MIN, TIME_MAX) \in Int
  BY Numerals, MiddleIsInt
<1> DEFINE m == Middle(TIME_MIN, TIME_MAX)
<1>3. CASE IsInt(y - TM_YEAR_BASE)
  <2>1. /\ yourtm' = [ yourtm EXCEPT !.year = y - TM_YEAR_BASE, !.sec = SecondInMinute(yourtm.sec, y).sec ]
        /\ saved' = SecondInMinute(yourtm.sec, y).saved
        /\ lo' = TIME_MIN /\ hi' = TIME_MAX /\ t' = m /\ CallTimesub(m, TRUE)
    BY <1>3, Zenon DEF StartSearch
  <2>. HIDE DEF m
  <2>2. LoopInv' /\ pc' = "years" /\ probing'
    BY <1>2, <2>1, CallTimesubLoops DEF CallTimesub, m
  <2>3. StagesInv' /\ Asked /\ Asked' /\ stage' = stage
    BY <1>1, <2>2, StagesStay DEF CallsInv
  <2>4. Sought' = Sought /\ Named' = Named /\ Seconds' = Seconds
    BY TextStays
  <2>5. ASSUME Sought
        PROVE  /\ yourtm' = Named /\ saved' = 0
               /\ TIME_MIN <= lo' /\ lo' <= t' /\ t' <= hi' /\ hi' <= TIME_MAX
               /\ lo' <= Seconds /\ Seconds <= hi'
    <3> DEFINE n == Named
    <3>1. yourtm = n /\ y = n.year + TM_YEAR_BASE
      BY <1>1, <2>3, <2>5 DEF CallsInv, FoundInv
    <3>2. n.year \in Nat /\ n.sec \in 0 .. (SECSPERMIN - 1) /\ SECSPERMIN \in Nat
      BY <2>5, NamedFields, Lengths
    <3>3. n = [ year |-> n.year, mon |-> n.mon, mday |-> n.mday, hour |-> n.hour, min |-> n.min, sec |-> n.sec ]
          /\ Seconds \in TIME_MIN .. TIME_MAX
      BY <2>5, NamedIs
    <3>. HIDE DEF n
    <3>4. y - TM_YEAR_BASE = n.year
      BY <3>1, <3>2 DEF TM_YEAR_BASE
    <3>5. SecondInMinute(n.sec, y) = [ sec |-> n.sec, saved |-> 0 ]
      BY <3>2 DEF SecondInMinute
    <3>6. yourtm' = [ n EXCEPT !.year = n.year, !.sec = n.sec ] /\ saved' = 0
      <4> DEFINE r == SecondInMinute(yourtm.sec, y)
      <4>1. r = [ sec |-> n.sec, saved |-> 0 ]
        BY <3>1, <3>5, Zenon
      <4>2. yourtm' = [ yourtm EXCEPT !.year = y - TM_YEAR_BASE, !.sec = r.sec ] /\ saved' = r.saved
        BY <2>1, Zenon
      <4>. HIDE DEF r
      <4>3. r.sec = n.sec /\ r.saved = 0
        BY <4>1
      <4>4. yourtm' = [ yourtm EXCEPT !.year = n.year, !.sec = n.sec ]
        BY <3>4, <4>2, <4>3, Zenon
      <4>. QED BY <3>1, <4>2, <4>3, <4>4, Zenon
    <3>7. yourtm' = n
      BY <3>3, <3>6
    <3>8. TIME_MIN <= m /\ m <= TIME_MAX
      BY <1>2, <3>3, MiddleIsBetween DEF m
    <3>. QED BY <1>2, <2>1, <3>3, <3>6, <3>7, <3>8 DEF n
  <2>6. FoundInv'
    BY <2>2, <2>3, <2>4, <2>5 DEF FoundInv
  <2>. QED BY <2>2, <2>3, <2>6
<1>4. CASE ~IsInt(y - TM_YEAR_BASE)
  <2>1. Fails
    BY <1>4 DEF StartSearch
  <2>2. pc' \in { "fields", "returned" } /\ (pc' = "returned" => ret' = WRONG)
    BY <2>1, FailsIs
  <2>3. LoopInv'
    BY <2>2, NoYear
  <2>4. StagesInv' /\ Asked /\ Asked' /\ stage' = stage
    BY <1>1, <2>2, StagesStay DEF CallsInv
  <2>5. Sought' = Sought
    BY TextStays
  <2>6. ~Sought
    <3>. SUFFICES ASSUME Sought PROVE FALSE
      OBVIOUS
    <3>1. y = Named.year + TM_YEAR_BASE
      BY <1>1, <2>4 DEF CallsInv, FoundInv
    <3>2. Named.year \in Nat /\ Named.year + 1900 <= INT_MAX /\ INT_MAX \in Nat
      BY NamedFields, Lengths
    <3> DEFINE year == Named.year
    <3>. HIDE DEF year
    <3>3. y = year + 1900 /\ year \in Nat /\ year + 1900 <= INT_MAX /\ INT_MAX \in Nat
      BY <3>1, <3>2 DEF year, TM_YEAR_BASE
    <3>. QED BY <1>4, <3>3 DEF IsInt, INT_MIN, TM_YEAR_BASE
  <2>. QED BY <2>3, <2>4, <2>5, <2>6 DEF FoundInv
<1>. QED BY <1>3, <1>4

LEMMA YearStepCall ==
    ASSUME CallsInv, ClockInv', YearStep, UNCHANGED <<text, stage, epoch>>
    PROVE  LoopInv' /\ StagesInv' /\ FoundInv'
<1>1. pc = "years" /\ pc' = "years" /\ UNCHANGED <<tm, yourtm, norm, t, lo, hi, saved, probing, ret>>
  BY DEF YearStep
<1>2. LoopInv'
  BY YearStepLoops DEF CallsInv
<1>3. StagesInv' /\ Asked /\ Asked' /\ stage' = stage
  BY <1>1, StagesStay DEF CallsInv
<1>4. Sought' = Sought /\ Named' = Named /\ Seconds' = Seconds
  BY TextStays
<1>. QED BY <1>1, <1>2, <1>3, <1>4 DEF CallsInv, FoundInv

\* Where timesub comes to an end in a search for a date that is there.
LEMMA ProbeIs ==
    ASSUME CallsInv, pc = "years", Sought, TimesubReturns
    PROVE  /\ yourtm = Named /\ saved = 0 /\ t \in Int /\ Seconds \in Int
           /\ Before(yourtm, BrokenDown) /\ TimesubEnds /\ ResultFits => Seconds < t
           /\ Before(BrokenDown, yourtm) /\ TimesubEnds /\ ResultFits => t < Seconds
           /\ ~Before(yourtm, BrokenDown) /\ ~Before(BrokenDown, yourtm) /\ TimesubEnds => t = Seconds
           /\ ~(TimesubEnds /\ ResultFits) => (t > 0 => Seconds < t) /\ (t <= 0 => t < Seconds)
<1>1. Asked /\ ClockInv /\ LoopInv
  BY DEF CallsInv, StagesInv
<1>2. yourtm = Named /\ saved = 0
  BY <1>1 DEF CallsInv, FoundInv
<1>3. Named \in Dates /\ Countable(Named) /\ Seconds = SecondsSince1970(Named) /\ Seconds \in Int
  <2>1. Named \in Dates /\ Countable(Named)
    BY NamedIs
  <2>. QED BY <2>1, SecondsAre DEF Seconds
<1>4. t \in Int
  BY <1>1 DEF ClockInv, SecondsInv
<1>5. TimesubEnds => BrokenDown \in Dates /\ SecondsSince1970(BrokenDown) = t
  BY <1>1, EndsInItsYear
<1>6. ~(TimesubEnds /\ ResultFits) => (t > 0 => Seconds < t) /\ (t <= 0 => t < Seconds)
  BY <1>1, <1>3, NoAnswerIsFar
<1> DEFINE found == BrokenDown
<1>7. TimesubEnds => found \in Dates /\ SecondsSince1970(found) = t
  BY <1>5
<1>. HIDE DEF found
<1>8. TimesubEnds /\ Before(yourtm, found) => Seconds < t
  BY <1>2, <1>3, <1>7, SecondsInOrder
<1>9. TimesubEnds /\ Before(found, yourtm) => t < Seconds
  BY <1>2, <1>3, <1>7, SecondsInOrder
<1>10. TimesubEnds /\ ~Before(yourtm, found) /\ ~Before(found, yourtm) => t = Seconds
  <2>. SUFFICES ASSUME TimesubEnds, ~Before(yourtm, found), ~Before(found, yourtm) PROVE t = Seconds
    OBVIOUS
  <2>1. found = Named
    BY <1>2, <1>3, <1>7, NotBeforeIsSame, Zenon
  <2>. QED BY <1>3, <1>7, <2>1
<1>. QED BY <1>2, <1>3, <1>4, <1>6, <1>8, <1>9, <1>10 DEF found

LEMMA ProbeMissesCall ==
    ASSUME CallsInv, ProbeMisses, UNCHANGED <<text, stage, epoch>>
    PROVE  LoopInv' /\ StagesInv' /\ FoundInv'
<1>1. /\ pc = "years" /\ probing /\ TimesubReturns /\ UNCHANGED <<tm, yourtm, norm, saved, ret>>
      /\ (TimesubEnds /\ ResultFits => Before(yourtm, BrokenDown) \/ Before(BrokenDown, yourtm))
      /\ NextBounds(Late) /\ t' = Middle(lo', hi') /\ CallTimesub(Middle(lo', hi'), TRUE)
  BY DEF ProbeMisses, NextProbe, TimesubReturns, TimesubEnds, TimesubGivesUp
<1>2. t \in Int /\ lo \in Int /\ hi \in Int
  BY DEF CallsInv, ClockInv, SecondsInv
<1>3. lo' \in Int /\ hi' \in Int
  BY <1>1, <1>2 DEF NextBounds
<1>4. LoopInv' /\ pc' = "years" /\ probing'
  <2> DEFINE m == Middle(lo', hi')
  <2>1. m \in Int /\ t' = m /\ CallTimesub(m, TRUE)
    BY <1>1, <1>3, MiddleIsInt
  <2>. HIDE DEF m
  <2>. QED BY <2>1, CallTimesubLoops DEF CallTimesub
<1>5. StagesInv' /\ Asked /\ Asked' /\ stage' = stage
  BY <1>1, <1>4, StagesStay DEF CallsInv
<1>6. Sought' = Sought /\ Named' = Named /\ Seconds' = Seconds
  BY TextStays
<1>7. ASSUME Sought
      PROVE  /\ yourtm' = Named /\ saved' = 0
             /\ TIME_MIN <= lo' /\ lo' <= t' /\ t' <= hi' /\ hi' <= TIME_MAX
             /\ lo' <= Seconds /\ Seconds <= hi'
  <2>1. /\ yourtm = Named /\ saved = 0 /\ t \in Int /\ Seconds \in Int
        /\ (Before(yourtm, BrokenDown) /\ TimesubEnds /\ ResultFits => Seconds < t)
        /\ (Before(BrokenDown, yourtm) /\ TimesubEnds /\ ResultFits => t < Seconds)
        /\ (~(TimesubEnds /\ ResultFits) => (t > 0 => Seconds < t) /\ (t <= 0 => t < Seconds))
    BY <1>1, <1>7, ProbeIs
  <2>2. /\ TIME_MIN <= lo /\ lo <= t /\ t <= hi /\ hi <= TIME_MAX
        /\ lo <= Seconds /\ Seconds <= hi
    BY <1>1, <1>5, <1>7 DEF CallsInv, FoundInv
  <2>3. (Late /\ Seconds < t) \/ (~Late /\ t < Seconds)
    <3>1. CASE TimesubEnds /\ ResultFits
      <4>1. Late <=> Before(yourtm, BrokenDown)
        BY <3>1, Zenon DEF Late
      <4>. QED BY <1>1, <2>1, <3>1, <4>1
    <3>2. CASE ~(TimesubEnds /\ ResultFits)
      <4>1. Late <=> t > 0
        BY <3>2, Zenon DEF Late
      <4>. QED BY <2>1, <3>2, <4>1
    <3>. QED BY <3>1, <3>2
  <2>4. TIME_MIN \in Int /\ TIME_MAX \in Int
    BY Numerals
  <2>5. /\ TIME_MIN <= lo' /\ hi' <= TIME_MAX /\ lo' <= Seconds /\ Seconds <= hi'
    <3>1. CASE Late
      BY <1>1, <1>2, <2>1, <2>2, <2>3, <2>4, <3>1 DEF NextBounds
    <3>2. CASE ~Late
      BY <1>1, <1>2, <2>1, <2>2, <2>3, <2>4, <3>2 DEF NextBounds
    <3>. QED BY <3>1, <3>2
  <2>6. lo' <= t' /\ t' <= hi'
    <3>1. lo' <= hi'
      BY <1>3, <2>1, <2>5
    <3>. QED BY <1>1, <1>3, <3>1, MiddleIsBetween
  <2>. QED BY <1>1, <2>1, <2>5, <2>6
<1>8. FoundInv'
  BY <1>4, <1>5, <1>6, <1>7 DEF FoundInv
<1>. QED BY <1>4, <1>5, <1>8

LEMMA ProbeHitsCall ==
    ASSUME CallsInv, ProbeHits, UNCHANGED <<text, stage, epoch>>
    PROVE  LoopInv' /\ StagesInv' /\ FoundInv'
<1>1. /\ pc = "years" /\ TimesubReturns /\ TimesubEnds /\ ResultFits /\ UNCHANGED <<tm, yourtm, lo, hi, saved>>
      /\ ~Before(yourtm, BrokenDown) /\ ~Before(BrokenDown, yourtm)
  BY DEF ProbeHits, TimesubReturns, TimesubEnds
<1>2. t \in Int /\ saved \in Int /\ t + saved \in Int
  BY DEF CallsInv, ClockInv, SecondsInv
<1>3. Sought' = Sought /\ Named' = Named /\ Seconds' = Seconds
  BY TextStays
<1>4. Sought => t = Seconds /\ saved = 0 /\ yourtm = Named /\ Seconds \in TIME_MIN .. TIME_MAX
  BY <1>1, ProbeIs, NamedIs
<1>5. CASE t + saved \in TIME_MIN .. TIME_MAX
  <2>1. t' = t + saved /\ CallTimesub(t + saved, FALSE)
    BY <1>5, Zenon DEF ProbeHits
  <2>2. LoopInv' /\ pc' = "years" /\ ~probing'
    <3> DEFINE time == t + saved
    <3>1. time \in Int /\ t' = time /\ CallTimesub(time, FALSE)
      BY <1>2, <2>1
    <3>. HIDE DEF time
    <3>. QED BY <3>1, CallTimesubLoops DEF CallTimesub
  <2>3. StagesInv' /\ Asked /\ Asked' /\ stage' = stage
    BY <1>1, <2>2, StagesStay DEF CallsInv
  <2>4. Sought => t' = Seconds /\ saved' = 0 /\ yourtm' = Named
    BY <1>1, <1>2, <1>4, <2>1
  <2>5. FoundInv'
    BY <1>3, <2>2, <2>3, <2>4 DEF FoundInv
  <2>. QED BY <2>2, <2>3, <2>5
<1>6. CASE ~(t + saved \in TIME_MIN .. TIME_MAX)
  <2>1. Fails
    BY <1>6 DEF ProbeHits
  <2>2. pc' \in { "fields", "returned" } /\ (pc' = "returned" => ret' = WRONG)
    BY <2>1, FailsIs
  <2>3. LoopInv'
    BY <2>2, NoYear
  <2>4. StagesInv' /\ Asked /\ Asked' /\ stage' = stage
    BY <1>1, <2>2, StagesStay DEF CallsInv
  <2>5. ~Sought
    BY <1>2, <1>4, <1>6
  <2>. QED BY <1>3, <2>3, <2>4, <2>5 DEF FoundInv
<1>. QED BY <1>5, <1>6

LEMMA ReturnCall ==
    ASSUME CallsInv, Return, UNCHANGED <<text, stage, epoch>>
    PROVE  LoopInv' /\ StagesInv' /\ FoundInv'
<1>1. pc = "years" /\ ~probing /\ TimesubReturns
  BY DEF Return, TimesubReturns, TimesubEnds, TimesubGivesUp
<1>2. Sought' = Sought /\ Named' = Named /\ Seconds' = Seconds
  BY TextStays
<1>3. pc' \in { "fields", "returned" }
  BY FailsIs DEF Return
<1>4. LoopInv'
  BY <1>3, NoYear
<1>5. ClockInv /\ LoopInv /\ Asked
  BY <1>1 DEF CallsInv, StagesInv
<1>6. CASE TimesubEnds /\ ResultFits
  <2>1. pc' = "returned" /\ ret' = t /\ tm' = BrokenDown
    BY <1>6, Zenon DEF Return
  <2>2. BrokenDown \in Dates /\ SecondsSince1970(BrokenDown) = t
    BY <1>5, <1>6, EndsInItsYear
  <2>3. StagesInv' /\ Asked' /\ stage' = stage
    BY <1>1, <2>1, <2>2, StagesStay DEF CallsInv
  <2>4. ASSUME Sought PROVE tm' = Named /\ ret' = Seconds
    <3> DEFINE found == BrokenDown
    <3>1. t = Seconds /\ t \in Int
      BY <1>1, <1>5, <2>4 DEF CallsInv, FoundInv, ClockInv, SecondsInv
    <3>2. Named \in Dates /\ Seconds = SecondsSince1970(Named)
      BY <2>4, NamedIs DEF Seconds
    <3>3. found \in Dates /\ SecondsSince1970(found) = t
      BY <2>2
    <3>. HIDE DEF found
    <3>4. ~Before(found, Named) /\ ~Before(Named, found)
      <4>1. Before(found, Named) => t < t
        BY <3>1, <3>2, <3>3, SecondsInOrder
      <4>2. Before(Named, found) => t < t
        BY <3>1, <3>2, <3>3, SecondsInOrder
      <4>. QED BY <3>1, <4>1, <4>2
    <3>5. found = Named
      BY <3>2, <3>3, <3>4, NotBeforeIsSame, Zenon
    <3>. QED BY <2>1, <3>1, <3>5 DEF found
  <2>5. FoundInv'
    BY <1>2, <2>1, <2>3, <2>4 DEF FoundInv
  <2>. QED BY <1>4, <2>3, <2>5
<1>7. CASE ~(TimesubEnds /\ ResultFits)
  <2>1. Fails /\ UNCHANGED tm
    BY <1>7 DEF Return
  <2>2. pc' = "returned" => ret' = WRONG
    BY <2>1, FailsIs
  <2>3. StagesInv' /\ Asked' /\ stage' = stage
    BY <1>1, <1>3, <2>2, StagesStay DEF CallsInv
  <2>4. ~Sought
    <3>. SUFFICES ASSUME Sought PROVE FALSE
      OBVIOUS
    <3>1. t = Seconds
      BY <1>1, <1>5 DEF CallsInv, FoundInv
    <3>2. t \in Int /\ (t > 0 => Seconds < t) /\ (t <= 0 => t < Seconds)
      BY <1>1, <1>7, ProbeIs
    <3>. QED BY <3>1, <3>2
  <2>. QED BY <1>2, <1>4, <2>3, <2>4 DEF FoundInv
<1>. QED BY <1>6, <1>7

\* Only a text in range gets as far as mktime.
LEMMA ParseCall ==
    ASSUME CallsInv, Parse
    PROVE  LoopInv' /\ StagesInv' /\ FoundInv'
<1>1. pc = "parse" /\ UNCHANGED <<text, stage, epoch>> /\ Asked /\ Asked' /\ text \in Texts
  BY DEF Parse, CallsInv, StagesInv, Asked
<1>2. Sought' = Sought /\ Named' = Named /\ Seconds' = Seconds /\ InRange(text') = InRange(text)
  BY <1>1, TextStays
<1>3. CASE InRange(text)
  <2>1. pc' = "fields" /\ tm' = Named /\ norm' = FALSE
    BY <1>3, Zenon DEF Parse, Call, Named
  <2>2. LoopInv'
    BY <2>1, NoYear
  <2>3. StagesInv'
    BY <1>1, <1>2, <1>3, <2>1 DEF CallsInv, StagesInv, Asked
  <2>4. FoundInv'
    BY <1>2, <2>1 DEF FoundInv
  <2>. QED BY <2>2, <2>3, <2>4
<1>4. CASE ~InRange(text)
  <2>1. pc' = "returned" /\ ret' = WRONG
    BY <1>4, Zenon DEF Parse, WRONG
  <2>2. LoopInv'
    BY <2>1, NoYear
  <2>3. StagesInv'
    BY <1>1, <1>2, <2>1 DEF CallsInv, StagesInv, Asked
  <2>4. ~Sought
    BY <1>4 DEF Sought
  <2>5. FoundInv'
    BY <1>2, <2>4 DEF FoundInv
  <2>. QED BY <2>2, <2>3, <2>5
<1>. QED BY <1>3, <1>4

\* A date mktime has not changed is one that is there.
LEMMA ReadIs ==
    ASSUME CallsInv, pc = "returned", Asked
    PROVE  TimeRead <=> (Sought /\ Seconds # WRONG)
<1>1. ret = WRONG \/ (InRange(text) /\ tm \in Dates)
  BY DEF CallsInv, StagesInv
<1>2. text \in Texts
  BY DEF CallsInv, StagesInv
<1>3. TimeRead <=> ret # WRONG /\ tm = Named
  BY DEF TimeRead, WRONG, Named
<1>4. TimeRead => Sought
  BY <1>1, <1>2, <1>3 DEF Sought, Dates, Named
<1>5. Sought => tm = Named /\ ret = Seconds
  BY DEF CallsInv, FoundInv
<1>. QED BY <1>3, <1>4, <1>5

LEMMA ValidatedCall ==
    ASSUME CallsInv, Validated
    PROVE  LoopInv' /\ StagesInv' /\ FoundInv'
<1>1. pc = "returned" /\ stage = "validate" /\ UNCHANGED <<tm, ret, text, epoch>> /\ Asked
  BY DEF Validated, Asked
<1>2. TimeRead <=> (Sought /\ Seconds # WRONG)
  BY <1>1, ReadIs
<1>3. Sought' = Sought /\ Named' = Named /\ Seconds' = Seconds /\ InRange(text') = InRange(text)
  BY <1>1, TextStays
<1>4. \/ TimeRead /\ stage' = "read" /\ pc' = "parse"
      \/ ~TimeRead /\ stage' = "invalid" /\ pc' = "returned"
  BY <1>1 DEF Validated
<1>5. text \in Texts /\ (ret = WRONG \/ (InRange(text) /\ tm \in Dates))
  BY <1>1 DEF CallsInv, StagesInv
<1>6. LoopInv'
  BY <1>4, NoYear
<1>7. StagesInv'
  BY <1>1, <1>2, <1>3, <1>4, <1>5 DEF StagesInv, Asked
<1>8. FoundInv'
  BY <1>4 DEF FoundInv, Asked
<1>. QED BY <1>6, <1>7, <1>8

LEMMA ReadCall ==
    ASSUME CallsInv, Read
    PROVE  LoopInv' /\ StagesInv' /\ FoundInv'
<1>1. /\ pc = "returned" /\ stage = "read" /\ stage' = "epoch" /\ UNCHANGED <<text, epoch>>
      /\ pc' = "fields" /\ norm' = FALSE /\ tm' = (IF TimeRead THEN tm ELSE NoTime) /\ Asked
  BY DEF Read, Call, Asked
<1>2. Sought /\ Seconds # WRONG /\ text \in Texts
  BY <1>1 DEF CallsInv, StagesInv
<1>3. Sought' = Sought /\ Named' = Named /\ Seconds' = Seconds /\ InRange(text') = InRange(text)
  BY <1>1, TextStays
<1>4. tm' = Named
  <2>1. TimeRead
    BY <1>1, <1>2, ReadIs
  <2>. QED BY <1>1, <2>1 DEF TimeRead, Named
<1>5. LoopInv'
  BY <1>1, NoYear
<1>6. InRange(text)
  BY <1>2 DEF Sought
<1>7. StagesInv'
  BY <1>1, <1>2, <1>3, <1>6 DEF StagesInv, Asked
<1>8. FoundInv'
  BY <1>1, <1>3, <1>4 DEF FoundInv
<1>. QED BY <1>5, <1>7, <1>8

LEMMA EpochCall ==
    ASSUME CallsInv, Epoch
    PROVE  LoopInv' /\ StagesInv' /\ FoundInv'
<1>1. /\ pc = "returned" /\ stage = "epoch" /\ stage' = "ok" /\ epoch' = ret
      /\ UNCHANGED <<text, pc, tm, ret>> /\ Asked
  BY DEF Epoch, clock, Asked
<1>2. Sought /\ Seconds # WRONG /\ text \in Texts
  BY <1>1 DEF CallsInv, StagesInv
<1>3. Sought' = Sought /\ Named' = Named /\ Seconds' = Seconds /\ InRange(text') = InRange(text)
  BY <1>1, TextStays
<1>4. tm = Named /\ ret = Seconds /\ (ret = WRONG \/ (InRange(text) /\ tm \in Dates))
  BY <1>1, <1>2 DEF CallsInv, FoundInv, StagesInv
<1>5. LoopInv'
  BY <1>1, NoYear
<1>6. StagesInv'
  BY <1>1, <1>2, <1>3, <1>4 DEF StagesInv, Asked
<1>7. FoundInv'
  BY <1>1 DEF FoundInv, Asked
<1>. QED BY <1>5, <1>6, <1>7

\* A text the other build takes names a date that is there.
LEMMA StandardIsSought ==
    ASSUME text \in Texts, StandardValid(text), Numbers(text).year >= 70
    PROVE  Sought /\ Seconds # WRONG
<1> DEFINE n == Numbers(text)
           year == n.year + TM_YEAR_BASE
<1>1. Exists(n) /\ text.separators /\ text.after = 0
  BY DEF StandardValid
<1>2. n.year \in Int
  <2>1. text.year \in Seq(Int)
    BY TextsAssumption DEF TmFields
  <2>2. qvlStringToNum(text.year) \in Int
    BY <2>1, NumberIsInt
  <2>3. n.year = qvlStringToNum(text.year) - 1900
    BY DEF Numbers, TM_YEAR_BASE
  <2>. QED BY <2>2, <2>3
<1>. HIDE DEF n
<1>3. /\ n.mon \in 0 .. 11 /\ n.mday \in 1 .. MonthLength(year, n.mon)
      /\ n.hour \in 0 .. (HOURSPERDAY - 1) /\ n.min \in 0 .. (MINSPERHOUR - 1) /\ n.sec \in 0 .. (SECSPERMIN - 1)
  BY <1>1 DEF Exists
<1>4. n.mday \in 1 .. 31
  <2>1. year \in Int
    BY <1>2 DEF TM_YEAR_BASE
  <2>. HIDE DEF year
  <2>2. MonthLength(year, n.mon) \in 28 .. 31
    BY <1>3, <2>1, MonthOfYear, Zenon
  <2>. QED BY <1>3, <2>2
<1>5. n.year >= 0 /\ n.year >= 70
  BY <1>2 DEF n
<1>6. InRange(text)
  BY <1>1, <1>3, <1>4, <1>5 DEF InRange, n
<1>7. Sought
  BY <1>1, <1>6 DEF Sought, n
<1>8. Seconds \in Int /\ Seconds >= 0
  <2>1. Named.year >= 70
    BY <1>5 DEF Named, n
  <2>2. Seconds \in TIME_MIN .. TIME_MAX /\ (Named.year >= 70 => Seconds >= 0)
    BY <1>7, NamedIs
  <2>. QED BY <2>1, <2>2
<1>. QED BY <1>7, <1>8 DEF WRONG

LEMMA CallsAgree == ASSUME CallsInv PROVE BuildsAgree
<1>. SUFFICES ASSUME Judged PROVE BuildsAgree
  BY DEF BuildsAgree
<1>1. stage = "ok" => Sought /\ tm = Named /\ epoch = Seconds
  BY DEF CallsInv, StagesInv
<1>2. stage = "ok" => Exists(Numbers(text)) /\ tm = Numbers(text) /\ epoch = SecondsSince1970(tm)
  BY <1>1 DEF Sought, Named, Seconds
<1>3. ASSUME Digits(text), text.after = 0, Numbers(text).year >= 70
      PROVE  (stage = "ok") = StandardValid(text)
  <2>1. stage = "ok" => StandardValid(text)
    BY <1>1, <1>3 DEF StandardValid, Sought, InRange
  <2>2. StandardValid(text) => stage = "ok"
    <3>. SUFFICES ASSUME StandardValid(text) PROVE stage = "ok"
      OBVIOUS
    <3>1. Sought /\ Seconds # WRONG
      BY <1>3, StandardIsSought DEF CallsInv, StagesInv
    <3>. QED BY <3>1 DEF CallsInv, StagesInv, Judged
  <2>3. StandardValid(text) \in BOOLEAN
    BY DEF StandardValid, Digits
  <2>. QED BY <2>1, <2>2, <2>3
<1>. QED BY <1>2, <1>3 DEF BuildsAgree

\* The enclave build's three calls of mktime judge a text as the other build does where both
\* are meant to, and never take one for another second than that of the date it names
\* (TimeUtils.cpp:318, GMTime.cpp:491): the search, whatever the width of time_t, keeps the
\* second between its bounds and stops at no other.
THEOREM BuildsAgreeHolds == Spec => []BuildsAgree
<1>1. Init => CallsInv
  <2>. SUFFICES ASSUME Init PROVE CallsInv
    OBVIOUS
  <2>1. pc = "parse" /\ stage = "validate" /\ text \in Texts
    BY DEF Init, Start
  <2>2. ClockInv
    BY DEF Init, Start, ClockInv, SecondsInv, DayKept, NoTime, TmFields, EPOCH_YEAR
  <2>. QED BY <2>1, <2>2 DEF CallsInv, LoopInv, StagesInv, FoundInv, Asked
<1>2. CallsInv /\ [Next]_vars => CallsInv'
  <2>. SUFFICES ASSUME CallsInv, [Next]_vars PROVE CallsInv'
    OBVIOUS
  <2>1. ClockInv
    BY DEF CallsInv
  <2>2. CASE Step /\ UNCHANGED <<text, stage, epoch>>
    <3>1. ClockInv'
      BY <2>1, <2>2, StepKeeps
    <3>2. LoopInv' /\ StagesInv' /\ FoundInv'
      BY <2>2, <3>1, FieldsCall, MonthStepCall, StartSearchCall, YearStepCall, ProbeMissesCall, ProbeHitsCall,
         ReturnCall DEF Step
    <3>. QED BY <3>1, <3>2 DEF CallsInv
  <2>3. CASE Parse
    BY <2>1, <2>3, ParseKeeps, ParseCall DEF CallsInv
  <2>4. CASE Validated
    BY <2>1, <2>4, ValidatedKeeps, ValidatedCall DEF CallsInv
  <2>5. CASE Read
    BY <2>1, <2>5, ReadKeeps, ReadCall DEF CallsInv
  <2>6. CASE Epoch
    <3>1. ClockInv'
      <4>1. UNCHANGED clock
        BY <2>6 DEF Epoch
      <4>. QED BY <2>1, <4>1 DEF clock, ClockInv, SecondsInv, DayKept, DaysBefore
    <3>. QED BY <2>6, <3>1, EpochCall DEF CallsInv
  <2>7. CASE UNCHANGED vars
    <3>1. UNCHANGED <<text, stage, epoch>> /\ UNCHANGED clock
      BY <2>7 DEF vars
    <3>2. Sought' = Sought /\ Named' = Named /\ Seconds' = Seconds /\ InRange(text') = InRange(text)
      BY <3>1, TextStays
    <3>3. ClockInv'
      BY <2>1, <3>1 DEF clock, ClockInv, SecondsInv, DayKept, DaysBefore
    <3>4. LoopInv'
      BY <3>1 DEF clock, CallsInv, LoopInv
    <3>5. StagesInv' /\ FoundInv'
      BY <3>1, <3>2 DEF clock, CallsInv, StagesInv, FoundInv, Asked
    <3>. QED BY <3>3, <3>4, <3>5 DEF CallsInv
  <2>. QED BY <2>2, <2>3, <2>4, <2>5, <2>6, <2>7 DEF Next
<1>3. CallsInv => BuildsAgree
  BY CallsAgree
<1>. QED BY <1>1, <1>2, <1>3, PTL DEF Spec

(***************************************************************************)
(* The memory. Cells and blocks of the heap.                               *)
(***************************************************************************)
(***************************************************************************)
(* The heap.                                                               *)
(***************************************************************************)
Cell == 0 .. (HEAP - 1)

Heaps == [ blocks : SUBSET [ at : Nat, size : Nat \ {0} ], cells : [ Cell -> Int ] ]

\* What one heap holds from at on is content, the rest is what the other holds.
IsWritten(h, g, at, content) ==
    \A c \in Cell : g.cells[c] = IF at <= c /\ c < at + Len(content)
                               THEN content[c - at + 1] ELSE h.cells[c]

Block(at, size) == [ at |-> at, size |-> size ]

\* Two blocks that share no cell.
Beside(b, c) == b.at + b.size <= c.at \/ c.at + c.size <= b.at

Aligned(at) == at % ALIGNMENT = 0

HeapOK(h) ==
    /\ h \in Heaps
    /\ \A b \in h.blocks : b.at + b.size <= HEAP /\ Aligned(b.at)
    /\ \A b, c \in h.blocks : b = c \/ Beside(b, c)

\* What a block holds in one heap it holds in the other.
KeptIn(b, h, g) == \A c \in Cell : b.at <= c /\ c < b.at + b.size => g.cells[c] = h.cells[c]

\* The blocks that do not begin at place keep what they hold.
OthersKept(h, g, place) == \A b \in h.blocks : b.at # place => KeptIn(b, h, g)

LEMMA Sizes ==
    /\ HEAP \in Nat \ {0} /\ ALIGNMENT \in Nat \ {0}
    /\ SHARED_DATA \in Nat \ {0} /\ CHUNK_HEADER \in Nat \ {0}
    /\ kDefaultChunkCapacity \in Nat \ {0} /\ kDefaultStackCapacity \in Nat \ {0}
    /\ MaxSize \in Nat /\ MAX_EVENTS \in Nat /\ MAX_LETTERS \in Nat
    /\ StringLengths \subseteq Nat
  BY JsonMemoryAssumption

LEMMA HeapSize == HEAP \in Nat \ {0}
  BY Sizes

LEMMA HeaderSize == CHUNK_HEADER \in Nat \ {0}
  BY Sizes

LEMMA DefaultSizes == kDefaultChunkCapacity \in Nat \ {0} /\ kDefaultStackCapacity \in Nat \ {0}
  BY Sizes

\* What lies between the two ends of a part of the heap is a cell of that part.
LEMMA Spot ==
    ASSUME NEW first \in Nat, NEW end \in Nat, NEW at \in Int, NEW n \in Nat, NEW k \in 1 .. n,
           first <= at, at + n <= end, end <= HEAP
    PROVE  at + k - 1 \in Cell /\ first <= at + k - 1 /\ at + k - 1 < end
<1> DEFINE c == at + k - 1
<1>1. c \in Int /\ first <= c /\ c < end
  OBVIOUS
<1>2. HEAP \in Int
  BY HeapSize
<1>. HIDE DEF c
<1>3. 0 <= c /\ c <= HEAP - 1
  BY <1>1, <1>2
<1>4. c \in Cell
  BY <1>1, <1>2, <1>3 DEF Cell
<1>. QED BY <1>1, <1>4 DEF c

LEMMA Division ==
    ASSUME NEW d \in Nat \ {0}, NEW n \in Int
    PROVE  \E q \in Int : \E r \in 0 .. (d - 1) : n = d * q + r /\ q = n \div d /\ r = n % d
<1>1. n = d * (n \div d) + (n % d) /\ n % d \in 0 .. (d - 1) /\ n \div d \in Int
  OBVIOUS
<1>. QED BY <1>1

LEMMA MultiplesGrow ==
    ASSUME NEW d \in Nat \ {0}, NEW a \in Int, NEW b \in Int, a < b
    PROVE  d * a + d <= d * b
<1>1. PICK c \in Nat : b = a + 1 + c
  BY b - a - 1 \in Nat
<1>2. d * b = d * a + d + d * c /\ d * c \in Nat /\ d * a \in Int
  BY <1>1
<1>. QED BY <1>2

LEMMA MultiplesDivide ==
    ASSUME NEW d \in Nat \ {0}, NEW k \in Int, NEW n \in Int, n = d * k
    PROVE  n % d = 0
<1>1. PICK q \in Int : \E r \in 0 .. (d - 1) : n = d * q + r /\ r = n % d
  BY Division
<1>2. PICK r \in 0 .. (d - 1) : n = d * q + r /\ r = n % d
  BY <1>1
<1>3. k = q
  <2> DEFINE dk == d * k
             dq == d * q
  <2>1. dk \in Int /\ dq \in Int /\ dk = dq + r
    BY <1>2
  <2>2. (k < q => dk + d <= dq) /\ (q < k => dq + d <= dk)
    BY MultiplesGrow
  <2>. HIDE DEF dk, dq
  <2>. QED BY <2>1, <2>2
<1>. QED BY <1>2, <1>3

LEMMA DivisionIsExact ==
    ASSUME NEW d \in Nat \ {0}, NEW n \in Int, n % d = 0
    PROVE  \E q \in Int : n = d * q
<1>1. PICK q \in Int : \E r \in 0 .. (d - 1) : n = d * q + r /\ r = n % d
  BY Division
<1>2. n = d * q + 0
  BY <1>1
<1>3. d * q \in Int
  OBVIOUS
<1>. QED BY <1>2, <1>3

LEMMA MultiplesAdd ==
    ASSUME NEW d \in Nat \ {0}, NEW a \in Int, NEW b \in Int, a % d = 0, b % d = 0
    PROVE  (a + b) % d = 0
<1>1. PICK p \in Int : a = d * p
  BY DivisionIsExact
<1>2. PICK q \in Int : b = d * q
  BY DivisionIsExact
<1>3. a + b = d * (p + q) /\ p + q \in Int /\ a + b \in Int
  BY <1>1, <1>2
<1>. HIDE <1>1, <1>2
<1>. QED BY <1>3, MultiplesDivide

LEMMA AlignedSums ==
    ASSUME NEW a \in Int, NEW b \in Int, Aligned(a), Aligned(b)
    PROVE  Aligned(a + b)
  BY Sizes, MultiplesAdd DEF Aligned

LEMMA AlignedParts == Aligned(SHARED_DATA) /\ Aligned(CHUNK_HEADER) /\ Aligned(0)
<1>1. 0 % ALIGNMENT = 0
  BY Sizes, MultiplesDivide, 0 = ALIGNMENT * 0
<1>. QED BY <1>1, JsonMemoryAssumption DEF Aligned

LEMMA AlignedSizes ==
    ASSUME NEW n \in Nat, NEW up, up = AlignedSize(n)
    PROVE  up \in Nat /\ n <= up /\ Aligned(up)
<1> DEFINE d == ALIGNMENT
<1>0. d \in Nat \ {0} /\ up = ((n + d - 1) \div d) * d
  BY Sizes DEF AlignedSize
<1>. HIDE DEF d
<1>1. PICK q \in Int : \E r \in 0 .. (d - 1) : n + d - 1 = d * q + r /\ q = (n + d - 1) \div d
  BY <1>0, Division
<1>2. PICK r \in 0 .. (d - 1) : n + d - 1 = d * q + r
  BY <1>1
<1>3. up = d * q /\ d * q \in Int
  BY <1>0, <1>1
<1>4. up \in Int /\ n + d - 1 = up + r
  BY <1>2, <1>3
<1>5. up \in Nat /\ n <= up
  BY <1>0, <1>4
<1>6. up % d = 0
  BY <1>0, <1>3, <1>4, MultiplesDivide
<1>. QED BY <1>5, <1>6 DEF Aligned, d

LEMMA BlocksOf ==
    ASSUME NEW h, HeapOK(h), NEW b \in h.blocks
    PROVE  /\ b.at \in Nat /\ b.size \in Nat \ {0} /\ b = Block(b.at, b.size)
           /\ b.at + b.size <= HEAP /\ Aligned(b.at)
  BY DEF HeapOK, Heaps, Block

\* Blocks that begin at one place are one.
LEMMA PlacesTellBlocks ==
    ASSUME NEW h, HeapOK(h), NEW b \in h.blocks, NEW c \in h.blocks, b.at = c.at
    PROVE  b = c
<1>1. ~Beside(b, c)
  BY BlocksOf, Sizes DEF Beside
<1>. QED BY <1>1 DEF HeapOK

LEMMA FreeIsBeside ==
    ASSUME NEW h, HeapOK(h), NEW size \in Nat \ {0}, NEW at \in Free(h, size)
    PROVE  /\ at \in Nat /\ at + size <= HEAP /\ Aligned(at)
           /\ \A b \in h.blocks : Beside(Block(at, size), b) /\ b.at # at
<1>1. at \in Nat /\ at + size <= HEAP /\ Aligned(at) /\ Span(at, size) \intersect Taken(h) = {}
  BY Sizes DEF Free, Aligned
<1>2. ASSUME NEW b \in h.blocks PROVE Beside(Block(at, size), b) /\ b.at # at
  <2>1. \A c : c \in Span(at, size) => c \notin Span(b.at, b.size)
    BY <1>1 DEF Taken
  <2>2. at \in Span(at, size) /\ b.at \in Span(b.at, b.size)
    BY <1>1, BlocksOf DEF Span
  <2>3. at \notin Span(b.at, b.size) /\ b.at \notin Span(at, size)
    BY <2>1, <2>2
  <2>. QED BY <1>1, <2>3, BlocksOf, Sizes DEF Span, Beside, Block
<1>. QED BY <1>1, <1>2

LEMMA PlacesAreFree == ASSUME NEW h, NEW size, NEW at \in Places(h, size) PROVE at \in Free(h, size)
  BY DEF Places

\* A new block beside all others, the cells as they are.
LEMMA BlockIsAdded ==
    ASSUME NEW h, HeapOK(h), NEW size \in Nat \ {0}, NEW at \in Free(h, size),
           NEW g, g = [ h EXCEPT !.blocks = @ \union { Block(at, size) } ]
    PROVE  /\ HeapOK(g) /\ g.blocks = h.blocks \union { Block(at, size) } /\ g.cells = h.cells
<1>1. /\ at \in Nat /\ at + size <= HEAP /\ Aligned(at)
      /\ \A b \in h.blocks : Beside(Block(at, size), b) /\ b.at # at
  BY FreeIsBeside
<1>2. h \in Heaps
  BY DEF HeapOK
<1>3. g.blocks = h.blocks \union { Block(at, size) } /\ g.cells = h.cells
  BY <1>2 DEF Heaps
<1>4. g \in Heaps
  BY <1>1, <1>2, <1>3 DEF Heaps, Block
<1>5. Block(at, size).at = at /\ Block(at, size).size = size
  BY DEF Block
<1>6. \A b \in g.blocks : b.at + b.size <= HEAP /\ Aligned(b.at)
  BY <1>1, <1>3, <1>5, BlocksOf
<1>7. \A b, c \in g.blocks : b = c \/ Beside(b, c)
  BY <1>1, <1>3 DEF HeapOK, Beside
<1>. QED BY <1>3, <1>4, <1>6, <1>7 DEF HeapOK

LEMMA MallocGives ==
    ASSUME NEW h, HeapOK(h), NEW size \in Nat \ {0}, NEW r \in Malloc(h, size)
    PROVE  /\ r.at \in Nat /\ Aligned(r.at) /\ r.at + size <= HEAP /\ HeapOK(r.heap)
           /\ r.heap.blocks = h.blocks \union { Block(r.at, size) } /\ r.heap.cells = h.cells
           /\ \A b \in h.blocks : Beside(Block(r.at, size), b) /\ b.at # r.at
<1>1. PICK at \in Free(h, size) :
          r = [ heap |-> [ h EXCEPT !.blocks = @ \union { Block(at, size) } ], at |-> at ]
  BY PlacesAreFree DEF Malloc, Block
<1>2. r.at = at /\ r.heap = [ h EXCEPT !.blocks = @ \union { Block(at, size) } ]
  BY <1>1
<1>. QED BY <1>2, FreeIsBeside, BlockIsAdded

LEMMA WriteWrites ==
    ASSUME NEW h, HeapOK(h), NEW at \in Nat, NEW content \in Seq(Int), at + Len(content) <= HEAP,
           NEW g, g = Write(h, at, content)
    PROVE  /\ HeapOK(g) /\ g.blocks = h.blocks
           /\ IsWritten(h, g, at, content)
<1>1. h \in Heaps /\ DOMAIN h.cells = Cell
  BY DEF HeapOK, Heaps
<1>2. /\ g.blocks = h.blocks
      /\ g.cells = [ c \in Cell |-> IF c \in Span(at, Len(content)) THEN content[c - at + 1] ELSE h.cells[c] ]
  BY <1>1 DEF Heaps, Write
<1>3. \A c \in Cell : c \in Span(at, Len(content)) <=> at <= c /\ c < at + Len(content)
  BY DEF Span, Cell
<1>4. \A c \in Cell : at <= c /\ c < at + Len(content) => content[c - at + 1] \in Int
  BY DEF Cell
<1>5. g.cells \in [ Cell -> Int ]
  BY <1>1, <1>2, <1>3, <1>4 DEF Heaps
<1>6. g \in Heaps
  BY <1>1, <1>2, <1>5 DEF Heaps, Write
<1>. QED BY <1>2, <1>3, <1>6 DEF HeapOK, IsWritten

LEMMA BlocksAreFreed ==
    ASSUME NEW h, HeapOK(h), NEW places, NEW g, g = FreeBlocks(h, places)
    PROVE  /\ HeapOK(g) /\ g.blocks = { b \in h.blocks : b.at \notin places }
           /\ \A b \in g.blocks : KeptIn(b, h, g)
<1> DEFINE given == { b \in h.blocks : b.at \in places }
<1>1. h \in Heaps /\ DOMAIN h.cells = Cell
  BY DEF HeapOK, Heaps
<1>2. g = [ blocks |-> h.blocks \ given,
            cells |-> [ c \in Cell |-> IF \E b \in given : c \in Span(b.at, b.size)
                                       THEN Unwritten ELSE h.cells[c] ] ]
  BY <1>1 DEF FreeBlocks
<1>3. g.blocks = { b \in h.blocks : b.at \notin places }
  BY <1>2
<1>4. g.cells \in [ Cell -> Int ]
  BY <1>1, <1>2 DEF Heaps, Unwritten
<1>5. g \in Heaps
  BY <1>1, <1>2, <1>4 DEF Heaps
<1>6. HeapOK(g)
  BY <1>3, <1>5 DEF HeapOK
<1>7. ASSUME NEW b \in g.blocks, NEW c \in Cell, b.at <= c, c < b.at + b.size
      PROVE  g.cells[c] = h.cells[c]
  <2>1. ASSUME NEW d \in given PROVE c \notin Span(d.at, d.size)
    <3>1. b # d /\ b \in h.blocks /\ d \in h.blocks
      BY <1>3
    <3>2. Beside(b, d)
      BY <3>1 DEF HeapOK
    <3>3. b.at \in Nat /\ b.size \in Nat /\ d.at \in Nat /\ d.size \in Nat
      BY <3>1, BlocksOf
    <3>. QED BY <3>2, <3>3, <1>7 DEF Beside, Span, Cell
  <2>. QED BY <1>2, <2>1
<1>. QED BY <1>3, <1>6, <1>7 DEF KeptIn

LEMMA FreeBlockFrees ==
    ASSUME NEW h, HeapOK(h), NEW at, NEW g, g = FreeBlock(h, at)
    PROVE  /\ HeapOK(g) /\ g.blocks = { b \in h.blocks : b.at # at }
           /\ \A b \in g.blocks : KeptIn(b, h, g)
  BY BlocksAreFreed DEF FreeBlock

\* What is reallocated takes its content with it and leaves the other blocks alone.
LEMMA ReallocMoves ==
    ASSUME NEW h, HeapOK(h), NEW at, NEW size \in Nat, NEW newSize \in Nat \ {0}, size <= newSize,
           at = NULL => size = 0, at # NULL => Block(at, size) \in h.blocks,
           NEW r \in Realloc(h, at, size, newSize)
    PROVE  /\ HeapOK(r.heap) /\ r.at \in Nat
           /\ \A b : b \in r.heap.blocks <=> (b \in h.blocks /\ b.at # at) \/ b = Block(r.at, newSize)
           /\ \A b \in h.blocks : b.at # at => KeptIn(b, h, r.heap) /\ b.at # r.at
           /\ \A k \in 0 .. (size - 1) : r.heap.cells[r.at + k] = h.cells[at + k]
<1>1. CASE at = NULL
  <2>1. r \in Malloc(h, newSize)
    BY <1>1 DEF Realloc
  <2>2. \A b \in h.blocks : b.at # at
    BY <1>1, BlocksOf DEF NULL
  <2>3. r.heap.cells = h.cells /\ size = 0
    BY <1>1, <2>1, MallocGives
  <2>. QED BY <2>1, <2>2, <2>3, MallocGives DEF KeptIn
<1>2. CASE at # NULL
  <2> DEFINE kept == Content(h, at, size)
             freed == FreeBlock(h, at)
  <2>1. /\ HeapOK(freed) /\ freed.blocks = { b \in h.blocks : b.at # at }
        /\ \A b \in freed.blocks : KeptIn(b, h, freed)
    BY FreeBlockFrees
  <2>2. at \in Nat /\ at + size <= HEAP
    BY <1>2, BlocksOf DEF Block
  <2>3. kept \in Seq(Int) /\ Len(kept) = size /\ \A k \in 1 .. size : kept[k] = h.cells[at + k - 1]
    <3>1. \A k \in 1 .. size : at + k - 1 \in Cell
      BY <2>2, HeapSize DEF Cell
    <3>2. h.cells \in [ Cell -> Int ]
      BY DEF HeapOK, Heaps
    <3>3. kept = [ k \in 1 .. size |-> h.cells[at + k - 1] ]
      BY DEF Content
    <3>. HIDE DEF kept
    <3>. QED BY <3>1, <3>2, <3>3
  <2>. HIDE DEF kept, freed
  <2>4. PICK to \in Free(freed, newSize) :
            r = [ heap |-> Write([ freed EXCEPT !.blocks = @ \union { Block(to, newSize) } ], to, kept),
                  at |-> to ]
    <3>1. \A q \in Malloc(h, newSize) : q.at \in Free(freed, newSize)
      <4>. SUFFICES ASSUME NEW q \in Malloc(h, newSize) PROVE q.at \in Free(freed, newSize)
        OBVIOUS
      <4>1. q.at \in Places(h, newSize)
        BY DEF Malloc
      <4>2. q.at \in Free(h, newSize)
        BY <4>1, PlacesAreFree
      <4>3. Taken(freed) \subseteq Taken(h)
        BY <2>1 DEF Taken
      <4>. QED BY <4>2, <4>3 DEF Free
    <3>2. (IF size < newSize THEN size ELSE newSize) = size
      OBVIOUS
    <3>. QED BY <1>2, <3>1, <3>2 DEF Realloc, kept, freed, Block
  <2> DEFINE grown == [ freed EXCEPT !.blocks = @ \union { Block(to, newSize) } ]
  <2>5. /\ HeapOK(grown) /\ grown.blocks = freed.blocks \union { Block(to, newSize) }
        /\ grown.cells = freed.cells
    BY <2>1, BlockIsAdded
  <2>6. /\ to \in Nat /\ to + newSize <= HEAP
        /\ \A b \in freed.blocks : Beside(Block(to, newSize), b) /\ b.at # to
    BY <2>1, FreeIsBeside
  <2>7. r.at = to /\ r.heap = Write(grown, to, kept)
    BY <2>4
  <2>. HIDE DEF grown
  <2>8. to + Len(kept) <= HEAP
    BY <2>3, <2>6, Sizes
  <2>9. /\ HeapOK(r.heap) /\ r.heap.blocks = grown.blocks
        /\ \A c \in Cell : r.heap.cells[c] = IF to <= c /\ c < to + size
                                             THEN kept[c - to + 1] ELSE freed.cells[c]
    <3>1. HeapOK(grown) /\ to \in Nat /\ kept \in Seq(Int) /\ r.heap = Write(grown, to, kept)
      BY <2>3, <2>5, <2>6, <2>7
    <3>2. HeapOK(r.heap) /\ r.heap.blocks = grown.blocks /\ IsWritten(grown, r.heap, to, kept)
      BY <2>8, <3>1, WriteWrites
    <3>. QED BY <3>2, <2>3, <2>5 DEF IsWritten
  <2>10. ASSUME NEW b \in h.blocks, b.at # at PROVE KeptIn(b, h, r.heap) /\ b.at # to
    <3>1. b \in freed.blocks /\ KeptIn(b, h, freed) /\ Beside(Block(to, newSize), b) /\ b.at # to
      BY <2>1, <2>6, <2>10
    <3>2. \A c \in Cell : b.at <= c /\ c < b.at + b.size => ~(to <= c /\ c < to + size)
      BY <3>1, <2>6, BlocksOf DEF Beside, Block, Cell
    <3>. QED BY <3>1, <3>2, <2>9 DEF KeptIn
  <2>11. ASSUME NEW k \in 0 .. (size - 1) PROVE r.heap.cells[to + k] = h.cells[at + k]
    <3>1. to + k \in Cell /\ to <= to + k /\ to + k < to + size
      BY <2>6, HeapSize DEF Cell
    <3>2. k + 1 \in 1 .. size /\ to + k - to + 1 = k + 1 /\ at + (k + 1) - 1 = at + k
      BY <2>2, <2>6
    <3>3. r.heap.cells[to + k] = kept[k + 1]
      <4>1. \A c \in Cell : to <= c /\ c < to + size => r.heap.cells[c] = kept[c - to + 1]
        BY <2>9
      <4>2. r.heap.cells[to + k] = kept[to + k - to + 1]
        BY <2>6, <3>1, <4>1
      <4>. QED BY <2>6, <3>2, <4>2
    <3>4. kept[k + 1] = h.cells[at + k]
      BY <3>2, <2>3
    <3>. QED BY <3>3, <3>4
  <2>. QED BY <2>1, <2>5, <2>6, <2>7, <2>9, <2>10, <2>11
<1>. QED BY <1>1, <1>2

(***************************************************************************)
(* The memory: each block of the heap is that of one stack or one chunk.   *)
(***************************************************************************)
Names == { "document", "reader", "buffer" }

Memories ==
    [ heap : Heaps, stacks : [ Names -> [ at : Int, size : Nat, capacity : Nat ] ],
      chunks : Seq([ at : Nat, capacity : Nat, size : Nat ]) ]

\* The last chunk is in one block with what the copies of a pool share.
BlockOfChunk(chunks_, k) ==
    IF k = Len(chunks_)
    THEN Block(chunks_[k].at - SHARED_DATA, SHARED_DATA + CHUNK_HEADER)
    ELSE Block(chunks_[k].at, CHUNK_HEADER + chunks_[k].capacity)

StackOK(m, name) ==
    /\ m.stacks[name].size <= m.stacks[name].capacity
    /\ m.stacks[name].at = NULL => m.stacks[name].capacity = 0
    /\ m.stacks[name].at # NULL => Block(m.stacks[name].at, m.stacks[name].capacity) \in m.heap.blocks

ChunkOK(m, k) ==
    /\ BlockOfChunk(m.chunks, k) \in m.heap.blocks
    /\ m.chunks[k].size <= m.chunks[k].capacity
    /\ k = Len(m.chunks) => m.chunks[k].capacity = 0
    /\ Aligned(m.chunks[k].at) /\ Aligned(m.chunks[k].size)

OwnersApart(m) ==
    /\ \A a, b \in Names : a # b /\ m.stacks[a].at # NULL => m.stacks[a].at # m.stacks[b].at
    /\ \A a \in Names, k \in DOMAIN m.chunks : m.stacks[a].at # BlockOfChunk(m.chunks, k).at
    /\ \A j, k \in DOMAIN m.chunks :
         j # k => BlockOfChunk(m.chunks, j).at # BlockOfChunk(m.chunks, k).at

MemoryOK(m) ==
    /\ m \in Memories
    /\ HeapOK(m.heap)
    /\ \A name \in Names : StackOK(m, name)
    /\ \A k \in DOMAIN m.chunks : ChunkOK(m, k)
    /\ OwnersApart(m)
    /\ \A b \in m.heap.blocks : \/ \E name \in Names : b.at = m.stacks[name].at
                                \/ \E k \in DOMAIN m.chunks : b.at = BlockOfChunk(m.chunks, k).at

LEMMA StacksOf ==
    ASSUME NEW m, MemoryOK(m), NEW name \in Names
    PROVE  /\ m.stacks[name] \in [ at : Int, size : Nat, capacity : Nat ]
           /\ m.stacks[name].at \in Int /\ m.stacks[name].size \in Nat
           /\ m.stacks[name].capacity \in Nat /\ m.stacks[name].size <= m.stacks[name].capacity
           /\ m.stacks[name].at = NULL => m.stacks[name].size = 0 /\ m.stacks[name].capacity = 0
           /\ m.stacks[name].at # NULL =>
                /\ Block(m.stacks[name].at, m.stacks[name].capacity) \in m.heap.blocks
                /\ m.stacks[name].at \in Nat /\ m.stacks[name].capacity \in Nat \ {0}
                /\ m.stacks[name].at + m.stacks[name].capacity <= HEAP
<1>1. m.stacks[name] \in [ at : Int, size : Nat, capacity : Nat ] /\ StackOK(m, name) /\ HeapOK(m.heap)
  BY DEF MemoryOK, Memories
<1>2. ASSUME Block(m.stacks[name].at, m.stacks[name].capacity) \in m.heap.blocks
      PROVE  /\ m.stacks[name].at \in Nat /\ m.stacks[name].capacity \in Nat \ {0}
             /\ m.stacks[name].at + m.stacks[name].capacity <= HEAP
  BY <1>1, <1>2, BlocksOf DEF Block
<1>. QED BY <1>1, <1>2 DEF StackOK

LEMMA ElementsOf ==
    ASSUME NEW S, NEW q \in Seq(S), NEW k \in DOMAIN q
    PROVE  DOMAIN q = 1 .. Len(q) /\ Len(q) \in Nat /\ k \in 1 .. Len(q) /\ q[k] \in S
  OBVIOUS

LEMMA ChunksOf ==
    ASSUME NEW m, MemoryOK(m), NEW k \in DOMAIN m.chunks
    PROVE  /\ DOMAIN m.chunks = 1 .. Len(m.chunks) /\ Len(m.chunks) \in Nat /\ k \in 1 .. Len(m.chunks)
           /\ m.chunks[k] \in [ at : Nat, capacity : Nat, size : Nat ]
           /\ m.chunks[k].at \in Nat /\ m.chunks[k].capacity \in Nat /\ m.chunks[k].size \in Nat
           /\ ChunkOK(m, k) /\ m.chunks[k].size <= m.chunks[k].capacity
           /\ BlockOfChunk(m.chunks, k) \in m.heap.blocks
           /\ BlockOfChunk(m.chunks, k).at <= m.chunks[k].at
           /\ BlockOfChunk(m.chunks, k).at + BlockOfChunk(m.chunks, k).size
                = m.chunks[k].at + CHUNK_HEADER + m.chunks[k].capacity
           /\ m.chunks[k].at + CHUNK_HEADER + m.chunks[k].capacity <= HEAP
<1>1. m.chunks \in Seq([ at : Nat, capacity : Nat, size : Nat ]) /\ ChunkOK(m, k) /\ HeapOK(m.heap)
  BY DEF MemoryOK, Memories
<1>2. /\ DOMAIN m.chunks = 1 .. Len(m.chunks) /\ Len(m.chunks) \in Nat /\ k \in 1 .. Len(m.chunks)
      /\ m.chunks[k] \in [ at : Nat, capacity : Nat, size : Nat ]
  BY <1>1, ElementsOf
<1>3. /\ m.chunks[k].at \in Nat /\ m.chunks[k].capacity \in Nat /\ m.chunks[k].size \in Nat
      /\ m.chunks[k].size <= m.chunks[k].capacity /\ BlockOfChunk(m.chunks, k) \in m.heap.blocks
  BY <1>1, <1>2 DEF ChunkOK
<1>4. /\ BlockOfChunk(m.chunks, k).at <= m.chunks[k].at
      /\ BlockOfChunk(m.chunks, k).at + BlockOfChunk(m.chunks, k).size
           = m.chunks[k].at + CHUNK_HEADER + m.chunks[k].capacity
  <2>1. CASE k = Len(m.chunks)
    <3>1. BlockOfChunk(m.chunks, k) = Block(m.chunks[k].at - SHARED_DATA, SHARED_DATA + CHUNK_HEADER)
      BY <2>1 DEF BlockOfChunk
    <3>2. m.chunks[k].capacity = 0
      BY <1>1, <2>1 DEF ChunkOK
    <3>. QED BY <1>3, <3>1, <3>2, Sizes DEF Block
  <2>2. CASE k # Len(m.chunks)
    BY <1>3, <2>2, Sizes DEF BlockOfChunk, Block
  <2>. QED BY <2>1, <2>2
<1>5. BlockOfChunk(m.chunks, k).at + BlockOfChunk(m.chunks, k).size <= HEAP
  BY <1>1, <1>3, BlocksOf
<1>. QED BY <1>1, <1>2, <1>3, <1>4, <1>5

\* What a stack has room for, filled or not, is as it was.
StackKept(m, r, name) ==
    /\ r.stacks[name] = m.stacks[name]
    /\ KeptIn(Block(m.stacks[name].at, m.stacks[name].capacity), m.heap, r.heap)

\* Nothing but one stack has changed.
OnlyMoves(m, r, name) ==
    /\ MemoryOK(r)
    /\ r.chunks = m.chunks
    /\ \A other \in Names \ {name} : StackKept(m, r, other)
    /\ \A k \in DOMAIN m.chunks : KeptIn(BlockOfChunk(m.chunks, k), m.heap, r.heap)

\* A memory with the blocks of another, and the stacks where they were, is as sound.
LEMMA SameBlocks ==
    ASSUME NEW m, MemoryOK(m), NEW g \in Memories, HeapOK(g.heap),
           g.heap.blocks = m.heap.blocks, g.chunks = m.chunks,
           \A name \in Names : /\ g.stacks[name].at = m.stacks[name].at
                               /\ g.stacks[name].capacity = m.stacks[name].capacity
                               /\ g.stacks[name].size <= g.stacks[name].capacity
    PROVE  MemoryOK(g)
<1>1. \A name \in Names : StackOK(g, name)
  BY DEF MemoryOK, StackOK
<1>2. \A k \in DOMAIN g.chunks : ChunkOK(g, k)
  BY DEF MemoryOK, ChunkOK
<1>3. OwnersApart(g)
  BY DEF MemoryOK, OwnersApart
<1>. QED BY <1>1, <1>2, <1>3 DEF MemoryOK

LEMMA ResizeMoves ==
    ASSUME NEW m, MemoryOK(m), NEW name \in Names, NEW newCapacity \in Nat \ {0},
           m.stacks[name].capacity <= newCapacity, NEW r \in Resize(m, name, newCapacity)
    PROVE  /\ OnlyMoves(m, r, name)
           /\ r.stacks[name].at # NULL /\ r.stacks[name].size = m.stacks[name].size
           /\ r.stacks[name].capacity = newCapacity
           /\ \A k \in 0 .. (m.stacks[name].capacity - 1) :
                r.heap.cells[r.stacks[name].at + k] = m.heap.cells[m.stacks[name].at + k]
<1> DEFINE s == m.stacks[name]
<1>1. PICK q \in Realloc(m.heap, s.at, s.capacity, newCapacity) :
          r = [ m EXCEPT !.heap = q.heap,
                         !.stacks[name] = [ at |-> q.at, size |-> s.size, capacity |-> newCapacity ] ]
  BY DEF Resize
<1>2. m \in Memories /\ HeapOK(m.heap)
  BY DEF MemoryOK
<1>3. /\ HeapOK(q.heap) /\ q.at \in Nat
      /\ \A b : b \in q.heap.blocks <=>
                  (b \in m.heap.blocks /\ b.at # s.at) \/ b = Block(q.at, newCapacity)
      /\ \A b \in m.heap.blocks : b.at # s.at => KeptIn(b, m.heap, q.heap) /\ b.at # q.at
      /\ \A k \in 0 .. (s.capacity - 1) : q.heap.cells[q.at + k] = m.heap.cells[s.at + k]
  <2>1. /\ s.capacity \in Nat /\ s.capacity <= newCapacity /\ (s.at = NULL => s.capacity = 0)
        /\ (s.at # NULL => Block(s.at, s.capacity) \in m.heap.blocks)
    BY StacksOf
  <2>2. q \in Realloc(m.heap, s.at, s.capacity, newCapacity)
    OBVIOUS
  <2>. HIDE DEF s
  <2>. QED BY <1>2, <2>1, <2>2, ReallocMoves
<1>4. /\ r.heap = q.heap /\ r.chunks = m.chunks
      /\ r.stacks = [ m.stacks EXCEPT ![name] = [ at |-> q.at, size |-> s.size, capacity |-> newCapacity ] ]
  BY <1>1, <1>2 DEF Memories
<1>5. /\ r.stacks[name] = [ at |-> q.at, size |-> s.size, capacity |-> newCapacity ]
      /\ \A other \in Names \ {name} : r.stacks[other] = m.stacks[other]
  BY <1>2, <1>4 DEF Memories
<1>6. r \in Memories
  <2>1. q.heap \in Heaps /\ q.at \in Int /\ s.size \in Nat
    BY <1>3, StacksOf DEF HeapOK
  <2>. HIDE DEF s
  <2>. QED BY <1>1, <1>2, <2>1 DEF Memories
<1>7. \A other \in Names \ {name} : m.stacks[other].at # NULL =>
         m.stacks[other].at # s.at /\ m.stacks[other].at # q.at
  <2>. SUFFICES ASSUME NEW other \in Names \ {name}, m.stacks[other].at # NULL
                PROVE  m.stacks[other].at # s.at /\ m.stacks[other].at # q.at
    OBVIOUS
  <2>1. m.stacks[other].at # s.at
    BY DEF MemoryOK, OwnersApart
  <2>2. Block(m.stacks[other].at, m.stacks[other].capacity) \in m.heap.blocks
    BY StacksOf
  <2>. QED BY <1>3, <2>1, <2>2 DEF Block
<1>8. \A k \in DOMAIN m.chunks : /\ BlockOfChunk(m.chunks, k) \in m.heap.blocks
                                /\ BlockOfChunk(m.chunks, k).at # s.at
                                /\ BlockOfChunk(m.chunks, k).at # q.at
  BY <1>3, ChunksOf DEF MemoryOK, OwnersApart
<1>. HIDE DEF s
<1>9. \A other \in Names : StackOK(r, other)
  <2>1. StackOK(r, name)
    <3>1. s.size <= newCapacity /\ q.at # NULL
      BY <1>3, StacksOf DEF s, NULL
    <3>. QED BY <1>3, <1>4, <1>5, <3>1 DEF StackOK
  <2>2. ASSUME NEW other \in Names \ {name} PROVE StackOK(r, other)
    <3>1. StackOK(m, other)
      BY DEF MemoryOK
    <3>. QED BY <1>3, <1>4, <1>5, <1>7, <3>1 DEF StackOK, Block
  <2>. QED BY <2>1, <2>2
<1>10. \A k \in DOMAIN r.chunks : ChunkOK(r, k)
  <2>. SUFFICES ASSUME NEW k \in DOMAIN m.chunks PROVE ChunkOK(r, k)
    BY <1>4
  <2>1. ChunkOK(m, k)
    BY DEF MemoryOK
  <2>2. BlockOfChunk(m.chunks, k) \in q.heap.blocks
    BY <1>3, <1>8
  <2>. QED BY <1>4, <2>1, <2>2 DEF ChunkOK
<1>11. OwnersApart(r)
  <2>1. \A a, b \in Names : a # b /\ r.stacks[a].at # NULL => r.stacks[a].at # r.stacks[b].at
    <3>. SUFFICES ASSUME NEW a \in Names, NEW b \in Names, a # b, r.stacks[a].at # NULL
                  PROVE  r.stacks[a].at # r.stacks[b].at
      OBVIOUS
    <3>1. q.at # NULL
      BY <1>3 DEF NULL
    <3>. QED BY <1>5, <1>7, <3>1 DEF MemoryOK, OwnersApart
  <2>2. \A a \in Names, k \in DOMAIN r.chunks : r.stacks[a].at # BlockOfChunk(r.chunks, k).at
    BY <1>4, <1>5, <1>8 DEF MemoryOK, OwnersApart
  <2>. QED BY <1>4, <2>1, <2>2 DEF MemoryOK, OwnersApart
<1>12. \A b \in r.heap.blocks : \/ \E other \in Names : b.at = r.stacks[other].at
                               \/ \E k \in DOMAIN r.chunks : b.at = BlockOfChunk(r.chunks, k).at
  <2>. SUFFICES ASSUME NEW b \in r.heap.blocks
                PROVE  \/ \E other \in Names : b.at = r.stacks[other].at
                       \/ \E k \in DOMAIN r.chunks : b.at = BlockOfChunk(r.chunks, k).at
    OBVIOUS
  <2>1. CASE b = Block(q.at, newCapacity)
    BY <1>5, <2>1 DEF Block
  <2>2. CASE b \in m.heap.blocks /\ b.at # s.at
    <3>1. \/ \E other \in Names : b.at = m.stacks[other].at
          \/ \E k \in DOMAIN m.chunks : b.at = BlockOfChunk(m.chunks, k).at
      BY <2>2 DEF MemoryOK
    <3>. QED BY <1>4, <1>5, <2>2, <3>1 DEF s
  <2>. QED BY <1>3, <1>4, <2>1, <2>2
<1>13. MemoryOK(r)
  BY <1>3, <1>4, <1>6, <1>9, <1>10, <1>11, <1>12 DEF MemoryOK
<1>14. ASSUME NEW other \in Names \ {name} PROVE StackKept(m, r, other)
  <2>1. CASE m.stacks[other].at = NULL
    <3>1. m.stacks[other].capacity = 0
      BY <2>1, StacksOf
    <3>. QED BY <1>5, <2>1, <3>1 DEF StackKept, KeptIn, Block, Cell, NULL
  <2>2. CASE m.stacks[other].at # NULL
    <3>1. /\ Block(m.stacks[other].at, m.stacks[other].capacity) \in m.heap.blocks
          /\ Block(m.stacks[other].at, m.stacks[other].capacity).at # s.at
      BY <1>7, <2>2, StacksOf DEF Block
    <3>. QED BY <1>3, <1>4, <1>5, <3>1 DEF StackKept
  <2>. QED BY <2>1, <2>2
<1>15. OnlyMoves(m, r, name)
  BY <1>3, <1>4, <1>8, <1>13, <1>14 DEF OnlyMoves
<1>16. \A k \in 0 .. (s.capacity - 1) :
          r.heap.cells[r.stacks[name].at + k] = m.heap.cells[s.at + k]
  BY <1>3, <1>4, <1>5
<1>. QED BY <1>3, <1>5, <1>15, <1>16 DEF s, NULL

Writing(m, at, content) == [ m EXCEPT !.heap = Write(@, at, content) ]

\* What is written within a block leaves the others.
LEMMA WriteInBlock ==
    ASSUME NEW m, MemoryOK(m), NEW b \in m.heap.blocks, NEW at \in Nat, NEW content \in Seq(Int),
           b.at <= at, at + Len(content) <= b.at + b.size,
           NEW g, g = Writing(m, at, content)
    PROVE  /\ MemoryOK(g) /\ g.stacks = m.stacks /\ g.chunks = m.chunks
           /\ g.heap.blocks = m.heap.blocks
           /\ OthersKept(m.heap, g.heap, b.at) /\ IsWritten(m.heap, g.heap, at, content)
<1>1. m \in Memories /\ HeapOK(m.heap)
  BY DEF MemoryOK
<1>2. /\ b.at \in Nat /\ b.size \in Nat /\ b.at + b.size <= HEAP
      /\ at + Len(content) <= HEAP /\ Len(content) \in Nat
  BY <1>1, BlocksOf, HeapSize
<1>3. g.heap = Write(m.heap, at, content) /\ g.stacks = m.stacks /\ g.chunks = m.chunks
  BY <1>1 DEF Memories, Writing
<1>4. /\ HeapOK(g.heap) /\ g.heap.blocks = m.heap.blocks
      /\ IsWritten(m.heap, g.heap, at, content)
  BY <1>1, <1>2, <1>3, WriteWrites
<1>5. g \in Memories
  <2>1. g.heap \in Heaps
    BY <1>4 DEF HeapOK
  <2>. QED BY <1>1, <1>3, <2>1 DEF Memories, Writing
<1>6. MemoryOK(g)
  <2>1. \A name \in Names : m.stacks[name].size <= m.stacks[name].capacity
    BY StacksOf
  <2>. QED BY <1>3, <1>4, <1>5, <2>1, SameBlocks
<1>7. ASSUME NEW d \in m.heap.blocks, d.at # b.at PROVE KeptIn(d, m.heap, g.heap)
  <2>1. Beside(b, d)
    BY <1>1, <1>7 DEF HeapOK
  <2>2. d.at \in Nat /\ d.size \in Nat
    BY <1>1, BlocksOf
  <2>3. \A c \in Cell : d.at <= c /\ c < d.at + d.size => ~(at <= c /\ c < at + Len(content))
    BY <1>2, <2>1, <2>2 DEF Beside, Cell
  <2>. QED BY <1>4, <2>3 DEF KeptIn, IsWritten
<1>. QED BY <1>3, <1>4, <1>6, <1>7 DEF OthersKept

\* A stack and a chunk have blocks of their own.
LEMMA StacksHaveBlocks ==
    ASSUME NEW m, MemoryOK(m), NEW name \in Names, m.stacks[name].at # NULL,
           NEW g, MemoryOK(g), g.chunks = m.chunks,
           \A other \in Names \ {name} : g.stacks[other] = m.stacks[other],
           OthersKept(m.heap, g.heap, m.stacks[name].at)
    PROVE  OnlyMoves(m, g, name)
<1>1. ASSUME NEW other \in Names \ {name} PROVE StackKept(m, g, other)
  <2>1. CASE m.stacks[other].at = NULL
    <3>1. m.stacks[other].capacity = 0
      BY <2>1, StacksOf
    <3>. QED BY <2>1, <3>1 DEF StackKept, KeptIn, Block, Cell, NULL
  <2>2. CASE m.stacks[other].at # NULL
    <3>1. m.stacks[other].at # m.stacks[name].at
      BY DEF MemoryOK, OwnersApart
    <3>2. /\ Block(m.stacks[other].at, m.stacks[other].capacity) \in m.heap.blocks
          /\ Block(m.stacks[other].at, m.stacks[other].capacity).at # m.stacks[name].at
      BY <2>2, <3>1, StacksOf DEF Block
    <3>. QED BY <3>2 DEF StackKept, OthersKept
  <2>. QED BY <2>1, <2>2
<1>2. ASSUME NEW k \in DOMAIN m.chunks PROVE KeptIn(BlockOfChunk(m.chunks, k), m.heap, g.heap)
  <2>1. BlockOfChunk(m.chunks, k) \in m.heap.blocks
    BY ChunksOf
  <2>2. BlockOfChunk(m.chunks, k).at # m.stacks[name].at
    BY DEF MemoryOK, OwnersApart
  <2>. QED BY <2>1, <2>2 DEF OthersKept
<1>. QED BY <1>1, <1>2 DEF OnlyMoves

\* The stack has what is pushed above what it had.
Grows(m, r, name, content) ==
    /\ OnlyMoves(m, r, name)
    /\ r.stacks[name].at # NULL
    /\ r.stacks[name].size = m.stacks[name].size + Len(content)
    /\ \A k \in 0 .. (m.stacks[name].size - 1) :
         r.heap.cells[r.stacks[name].at + k] = m.heap.cells[m.stacks[name].at + k]
    /\ \A k \in 1 .. Len(content) :
         r.heap.cells[r.stacks[name].at + m.stacks[name].size + (k - 1)] = content[k]

LEMMA PushUnsafeGrows ==
    ASSUME NEW m, MemoryOK(m), NEW name \in Names, NEW content \in Seq(Int), Len(content) > 0,
           m.stacks[name].size + Len(content) <= m.stacks[name].capacity,
           NEW r, r = PushUnsafe(m, name, content)
    PROVE  Grows(m, r, name, content)
<1> DEFINE s == m.stacks[name]
           g == Writing(m, s.at + s.size, content)
<1>1. /\ s.at \in Nat /\ s.size \in Nat /\ s.capacity \in Nat /\ s.at # NULL
      /\ s.at + s.capacity <= HEAP /\ Block(s.at, s.capacity) \in m.heap.blocks /\ Len(content) \in Nat
  <2>1. s.size \in Nat /\ s.capacity \in Nat /\ Len(content) \in Nat /\ s.capacity > 0
    BY StacksOf
  <2>2. s.at # NULL
    BY <2>1, StacksOf
  <2>. QED BY <2>1, <2>2, StacksOf
<1>0. s.size + Len(content) <= s.capacity
  OBVIOUS
<1>2. m \in Memories
  BY DEF MemoryOK
<1>3. /\ r.heap = g.heap /\ r.chunks = g.chunks
      /\ r.stacks = [ g.stacks EXCEPT ![name].size = @ + Len(content) ]
      /\ r = [ g EXCEPT !.stacks[name].size = @ + Len(content) ]
  BY <1>2 DEF Memories, PushUnsafe, Writing
<1>. HIDE DEF s
<1> DEFINE to == s.at + s.size
           b == Block(s.at, s.capacity)
<1>t. /\ to \in Nat /\ s.at <= to /\ to + Len(content) <= s.at + s.capacity /\ b.at = s.at
      /\ b.size = s.capacity /\ b \in m.heap.blocks /\ to + Len(content) <= HEAP
  BY <1>0, <1>1, HeapSize DEF Block
<1>4. /\ MemoryOK(g) /\ g.stacks = m.stacks /\ g.chunks = m.chunks
      /\ g.heap.blocks = m.heap.blocks
      /\ OthersKept(m.heap, g.heap, s.at) /\ IsWritten(m.heap, g.heap, to, content)
  <2>1. g = Writing(m, to, content)
    OBVIOUS
  <2>. HIDE DEF g, to, b
  <2>2. b.at <= to /\ to + Len(content) <= b.at + b.size
    BY <1>t
  <2>. QED BY <1>t, <2>1, <2>2, WriteInBlock
<1>. HIDE DEF g
<1>5. /\ r.stacks[name] = [ s EXCEPT !.size = @ + Len(content) ]
      /\ \A other \in Names \ {name} : r.stacks[other] = m.stacks[other]
  BY <1>2, <1>3, <1>4 DEF Memories, s
<1>6. /\ r.stacks[name].at = s.at /\ r.stacks[name].capacity = s.capacity
      /\ r.stacks[name].size = s.size + Len(content)
  <2>1. s \in [ at : Int, size : Nat, capacity : Nat ]
    BY StacksOf DEF s
  <2>. QED BY <1>5, <2>1
<1>7. MemoryOK(r)
  <2>1. g \in Memories
    BY <1>4 DEF MemoryOK
  <2>2. r \in Memories
    <3>1. s.size + Len(content) \in Nat
      BY <1>1
    <3>2. g.stacks[name].size = s.size
      BY <1>4 DEF s
    <3>3. r.stacks \in [ Names -> [ at : Int, size : Nat, capacity : Nat ] ]
      <4>1. g.stacks[name] \in [ at : Int, size : Nat, capacity : Nat ]
        BY <2>1 DEF Memories
      <4>2. [ g.stacks[name] EXCEPT !.size = @ + Len(content) ] \in [ at : Int, size : Nat, capacity : Nat ]
        BY <3>1, <3>2, <4>1
      <4>. QED BY <1>3, <2>1, <4>2 DEF Memories
    <3>. QED BY <1>3, <2>1, <3>3 DEF Memories
  <2>3. HeapOK(r.heap) /\ r.heap.blocks = g.heap.blocks /\ r.chunks = g.chunks
    BY <1>3, <1>4 DEF MemoryOK
  <2>4. \A other \in Names : /\ r.stacks[other].at = g.stacks[other].at
                             /\ r.stacks[other].capacity = g.stacks[other].capacity
                             /\ r.stacks[other].size <= r.stacks[other].capacity
    <3>2. ASSUME NEW other \in Names \ {name}
          PROVE  r.stacks[other] = g.stacks[other] /\ r.stacks[other].size <= r.stacks[other].capacity
      BY <1>4, <1>5, StacksOf
    <3>. QED BY <1>0, <1>4, <1>6, <3>2 DEF s
  <2>. QED BY <1>4, <2>2, <2>3, <2>4, SameBlocks
<1>8. OnlyMoves(m, r, name)
  BY <1>1, <1>3, <1>4, <1>5, <1>7, StacksHaveBlocks DEF s
<1>9. ASSUME NEW k \in 0 .. (s.size - 1) PROVE r.heap.cells[s.at + k] = m.heap.cells[s.at + k]
  <2>1. s.at + k \in Cell /\ ~(to <= s.at + k)
    BY <1>0, <1>1, HeapSize, SMTT(30) DEF Cell
  <2>. QED BY <1>3, <1>4, <2>1 DEF IsWritten
<1>10. ASSUME NEW k \in 1 .. Len(content) PROVE r.heap.cells[s.at + s.size + (k - 1)] = content[k]
  <2> DEFINE c == to + (k - 1)
  <2>1. c \in Cell /\ to <= c /\ c < to + Len(content) /\ c - to + 1 = k
    <3>1. to \in Nat /\ to + Len(content) <= HEAP /\ Len(content) \in Nat
      BY <1>1, <1>t
    <3>. HIDE DEF to
    <3>. QED BY <3>1, HeapSize DEF Cell
  <2>. HIDE DEF c
  <2>2. g.heap.cells[c] = content[c - to + 1]
    BY <1>4, <2>1 DEF IsWritten
  <2>. QED BY <1>3, <2>1, <2>2 DEF c
<1>. QED BY <1>1, <1>6, <1>8, <1>9, <1>10 DEF Grows, s

LEMMA MovesTwice ==
    ASSUME NEW m, NEW g, NEW r, NEW name \in Names, OnlyMoves(m, g, name), OnlyMoves(g, r, name)
    PROVE  OnlyMoves(m, r, name)
<1>1. MemoryOK(r) /\ r.chunks = m.chunks
  BY DEF OnlyMoves
<1>2. ASSUME NEW other \in Names \ {name} PROVE StackKept(m, r, other)
  <2>1. StackKept(m, g, other) /\ StackKept(g, r, other)
    BY DEF OnlyMoves
  <2>. QED BY <2>1 DEF StackKept, KeptIn
<1>3. ASSUME NEW k \in DOMAIN m.chunks PROVE KeptIn(BlockOfChunk(m.chunks, k), m.heap, r.heap)
  <2>1. /\ KeptIn(BlockOfChunk(m.chunks, k), m.heap, g.heap)
        /\ KeptIn(BlockOfChunk(m.chunks, k), g.heap, r.heap)
    BY DEF OnlyMoves
  <2>. QED BY <2>1 DEF KeptIn
<1>. QED BY <1>1, <1>2, <1>3 DEF OnlyMoves

LEMMA PushGrows ==
    ASSUME NEW m, MemoryOK(m), NEW name \in Names, NEW content \in Seq(Int), Len(content) > 0,
           NEW r \in Push(m, name, content)
    PROVE  Grows(m, r, name, content)
<1> DEFINE s == m.stacks[name]
           count == Len(content)
<1>0. s.size \in Nat /\ s.capacity \in Nat /\ s.size <= s.capacity /\ count \in Nat
  BY StacksOf
<1>1. PICK g \in Reserve(m, name, count) : r = PushUnsafe(g, name, content)
  BY DEF Push
<1>2. CASE ~(count > s.capacity - s.size)
  <2>1. g = m
    BY <1>2 DEF Reserve
  <2>2. s.size + count <= s.capacity
    BY <1>0, <1>2
  <2>. QED BY <1>1, <2>1, <2>2, PushUnsafeGrows
<1>3. CASE count > s.capacity - s.size
  <2> DEFINE grown == IF s.at = NULL THEN kDefaultStackCapacity
                      ELSE s.capacity + (s.capacity + 1) \div 2
             newCapacity == Larger(grown, s.size + count)
  <2>1. g \in Resize(m, name, newCapacity)
    BY <1>3 DEF Reserve, Expand
  <2>2. grown \in Nat
    BY <1>0, DefaultSizes
  <2>. HIDE DEF grown
  <2>3. newCapacity \in Nat \ {0} /\ s.capacity <= newCapacity /\ s.size + count <= newCapacity
    BY <1>0, <1>3, <2>2, SMTT(30) DEF Larger
  <2>. HIDE DEF newCapacity
  <2>4. /\ OnlyMoves(m, g, name)
        /\ g.stacks[name].at # NULL /\ g.stacks[name].size = s.size
        /\ g.stacks[name].capacity = newCapacity
        /\ \A k \in 0 .. (s.capacity - 1) :
             g.heap.cells[g.stacks[name].at + k] = m.heap.cells[s.at + k]
    BY <2>1, <2>3, ResizeMoves
  <2>5. Grows(g, r, name, content)
    <3>1. MemoryOK(g) /\ g.stacks[name].size + count <= g.stacks[name].capacity
      BY <2>3, <2>4 DEF OnlyMoves
    <3>. QED BY <1>1, <3>1, PushUnsafeGrows
  <2>6. OnlyMoves(m, r, name)
    BY <2>4, <2>5, MovesTwice DEF Grows
  <2>7. ASSUME NEW k \in 0 .. (s.size - 1)
        PROVE  r.heap.cells[r.stacks[name].at + k] = m.heap.cells[s.at + k]
    <3>1. k \in 0 .. (s.capacity - 1)
      BY <1>0
    <3>2. k \in 0 .. (g.stacks[name].size - 1)
      BY <2>4
    <3>. QED BY <2>4, <2>5, <3>1, <3>2 DEF Grows
  <2>. QED BY <2>4, <2>5, <2>6, <2>7 DEF Grows
<1>. QED BY <1>2, <1>3

\* A stack that only loses from its top.
Shrinks(m, r, name, size) ==
    /\ OnlyMoves(m, r, name)
    /\ r.heap = m.heap
    /\ r.stacks[name].at = m.stacks[name].at /\ r.stacks[name].capacity = m.stacks[name].capacity
    /\ r.stacks[name].size = size

LEMMA StackIsCut ==
    ASSUME NEW m, MemoryOK(m), NEW name \in Names, NEW size \in Nat, size <= m.stacks[name].size,
           NEW r, r = [ m EXCEPT !.stacks[name].size = size ]
    PROVE  Shrinks(m, r, name, size)
<1>1. m \in Memories /\ m.stacks[name] \in [ at : Int, size : Nat, capacity : Nat ]
  BY DEF MemoryOK, Memories
<1>2. /\ r.heap = m.heap /\ r.chunks = m.chunks
      /\ r.stacks = [ m.stacks EXCEPT ![name] = [ @ EXCEPT !.size = size ] ]
  BY <1>1 DEF Memories
<1>3. [ m.stacks[name] EXCEPT !.size = size ] \in [ at : Int, size : Nat, capacity : Nat ]
  BY <1>1
<1>4. r.stacks \in [ Names -> [ at : Int, size : Nat, capacity : Nat ] ]
  BY <1>1, <1>2, <1>3 DEF Memories
<1>5. r \in Memories
  BY <1>1, <1>2, <1>4 DEF Memories
<1>6. /\ r.stacks[name] = [ m.stacks[name] EXCEPT !.size = size ]
      /\ \A other \in Names \ {name} : r.stacks[other] = m.stacks[other]
  BY <1>1, <1>2 DEF Memories
<1>7. /\ r.stacks[name].at = m.stacks[name].at /\ r.stacks[name].capacity = m.stacks[name].capacity
      /\ r.stacks[name].size = size
  BY <1>1, <1>6
<1>8. MemoryOK(r)
  <2>1. \A other \in Names : /\ r.stacks[other].at = m.stacks[other].at
                             /\ r.stacks[other].capacity = m.stacks[other].capacity
                             /\ r.stacks[other].size <= r.stacks[other].capacity
    <3>1. size <= m.stacks[name].capacity
      BY StacksOf
    <3>2. \A other \in Names : m.stacks[other].size <= m.stacks[other].capacity
      BY StacksOf
    <3>. QED BY <1>6, <1>7, <3>1, <3>2
  <2>2. HeapOK(r.heap) /\ r.heap.blocks = m.heap.blocks
    BY <1>2 DEF MemoryOK
  <2>. QED BY <1>2, <1>5, <2>1, <2>2, SameBlocks
<1>9. OnlyMoves(m, r, name)
  BY <1>2, <1>6, <1>8 DEF OnlyMoves, StackKept, KeptIn
<1>. QED BY <1>2, <1>7, <1>9 DEF Shrinks

LEMMA PopShrinks ==
    ASSUME NEW m, MemoryOK(m), NEW name \in Names, NEW count \in Nat,
           count <= m.stacks[name].size, NEW r, r = Pop(m, name, count)
    PROVE  Shrinks(m, r, name, m.stacks[name].size - count)
<1> DEFINE size == m.stacks[name].size - count
<1>1. size \in Nat /\ size <= m.stacks[name].size
  BY StacksOf
<1>2. r = [ m EXCEPT !.stacks[name].size = size ]
  BY DEF Pop
<1>. HIDE DEF size
<1>3. Shrinks(m, r, name, size)
  BY <1>1, <1>2, StackIsCut
<1>. QED BY <1>3 DEF size

LEMMA ClearShrinks ==
    ASSUME NEW m, MemoryOK(m), NEW name \in Names, NEW r, r = Clear(m, name)
    PROVE  Shrinks(m, r, name, 0)
<1>1. 0 \in Nat /\ 0 <= m.stacks[name].size
  BY StacksOf
<1>. QED BY <1>1, StackIsCut DEF Clear

(***************************************************************************)
(* A stack goes; the pool comes, grows and goes.                           *)
(***************************************************************************)
LEMMA StackIsDestroyed ==
    ASSUME NEW m, MemoryOK(m), NEW name \in Names, NEW r, r = DestroyStack(m, name)
    PROVE  OnlyMoves(m, r, name) /\ r.stacks[name] = NoStack
<1> DEFINE s == m.stacks[name]
<1>1. m \in Memories /\ HeapOK(m.heap)
  BY DEF MemoryOK
<1>2. /\ r.heap = FreeBlock(m.heap, s.at) /\ r.chunks = m.chunks
      /\ r.stacks = [ m.stacks EXCEPT ![name] = NoStack ]
  BY <1>1 DEF Memories, DestroyStack
<1>3. /\ HeapOK(r.heap) /\ r.heap.blocks = { b \in m.heap.blocks : b.at # s.at }
      /\ \A b \in r.heap.blocks : KeptIn(b, m.heap, r.heap)
  BY <1>1, <1>2, FreeBlockFrees
<1>4. /\ r.stacks[name] = NoStack
      /\ \A other \in Names \ {name} : r.stacks[other] = m.stacks[other]
  BY <1>1, <1>2 DEF Memories
<1>5. r \in Memories
  <2>1. NoStack \in [ at : Int, size : Nat, capacity : Nat ]
    BY DEF NoStack, NULL
  <2>2. r.heap \in Heaps
    BY <1>3 DEF HeapOK
  <2>. QED BY <1>1, <1>2, <2>1, <2>2 DEF Memories, DestroyStack
<1>. HIDE DEF s
<1>6. ASSUME NEW other \in Names \ {name}, m.stacks[other].at # NULL
      PROVE  /\ m.stacks[other].at # s.at
             /\ Block(m.stacks[other].at, m.stacks[other].capacity) \in r.heap.blocks
  <2>1. m.stacks[other].at # s.at
    BY <1>6 DEF MemoryOK, OwnersApart, s
  <2>2. Block(m.stacks[other].at, m.stacks[other].capacity) \in m.heap.blocks
    BY <1>6, StacksOf
  <2>. QED BY <1>3, <2>1, <2>2 DEF Block
<1>7. ASSUME NEW k \in DOMAIN m.chunks
      PROVE  BlockOfChunk(m.chunks, k) \in r.heap.blocks /\ BlockOfChunk(m.chunks, k).at # s.at
  <2>1. BlockOfChunk(m.chunks, k) \in m.heap.blocks
    BY ChunksOf
  <2>2. BlockOfChunk(m.chunks, k).at # s.at
    BY DEF MemoryOK, OwnersApart, s
  <2>. QED BY <1>3, <2>1, <2>2
<1>8. \A other \in Names : StackOK(r, other)
  <2>1. StackOK(r, name)
    BY <1>4 DEF StackOK, NoStack, NULL
  <2>2. ASSUME NEW other \in Names \ {name} PROVE StackOK(r, other)
    <3>1. StackOK(m, other)
      BY DEF MemoryOK
    <3>. QED BY <1>4, <1>6, <3>1 DEF StackOK
  <2>. QED BY <2>1, <2>2
<1>9. \A k \in DOMAIN r.chunks : ChunkOK(r, k)
  <2>. SUFFICES ASSUME NEW k \in DOMAIN m.chunks PROVE ChunkOK(r, k)
    BY <1>2
  <2>1. ChunkOK(m, k)
    BY DEF MemoryOK
  <2>. QED BY <1>2, <1>7, <2>1 DEF ChunkOK
<1>10. OwnersApart(r)
  <2>1. \A a, b \in Names : a # b /\ r.stacks[a].at # NULL => r.stacks[a].at # r.stacks[b].at
    <3>. SUFFICES ASSUME NEW a \in Names, NEW b \in Names, a # b, r.stacks[a].at # NULL
                  PROVE  r.stacks[a].at # r.stacks[b].at
      OBVIOUS
    <3>1. a # name /\ NoStack.at = NULL
      BY <1>4 DEF NoStack
    <3>. QED BY <1>4, <3>1 DEF MemoryOK, OwnersApart
  <2>2. ASSUME NEW a \in Names, NEW k \in DOMAIN r.chunks
        PROVE  r.stacks[a].at # BlockOfChunk(r.chunks, k).at
    <3>1. BlockOfChunk(r.chunks, k).at \in Nat
      BY <1>1, <1>2, ChunksOf, BlocksOf
    <3>2. NoStack.at = NULL /\ NULL \notin Nat
      BY DEF NoStack, NULL
    <3>. QED BY <1>2, <1>4, <3>1, <3>2 DEF MemoryOK, OwnersApart
  <2>. QED BY <1>2, <2>1, <2>2 DEF MemoryOK, OwnersApart
<1>11. \A b \in r.heap.blocks : \/ \E other \in Names : b.at = r.stacks[other].at
                               \/ \E k \in DOMAIN r.chunks : b.at = BlockOfChunk(r.chunks, k).at
  <2>. SUFFICES ASSUME NEW b \in m.heap.blocks, b.at # s.at
                PROVE  \/ \E other \in Names : b.at = r.stacks[other].at
                       \/ \E k \in DOMAIN r.chunks : b.at = BlockOfChunk(r.chunks, k).at
    BY <1>3
  <2>1. \/ \E other \in Names : b.at = m.stacks[other].at
        \/ \E k \in DOMAIN m.chunks : b.at = BlockOfChunk(m.chunks, k).at
    BY DEF MemoryOK
  <2>. QED BY <1>2, <1>4, <2>1 DEF s
<1>12. MemoryOK(r)
  BY <1>3, <1>5, <1>8, <1>9, <1>10, <1>11 DEF MemoryOK
<1>13. ASSUME NEW other \in Names \ {name} PROVE StackKept(m, r, other)
  <2>1. CASE m.stacks[other].at = NULL
    <3>1. m.stacks[other].capacity = 0
      BY <2>1, StacksOf
    <3>. QED BY <1>4, <2>1, <3>1 DEF StackKept, KeptIn, Block, Cell, NULL
  <2>2. CASE m.stacks[other].at # NULL
    BY <1>3, <1>4, <1>6, <2>2 DEF StackKept
  <2>. QED BY <2>1, <2>2
<1>14. OnlyMoves(m, r, name)
  BY <1>2, <1>3, <1>7, <1>12, <1>13 DEF OnlyMoves
<1>. QED BY <1>4, <1>14

\* The blocks of a memory are all there, with what they hold.
AllKept(m, r) == m.heap.blocks \subseteq r.heap.blocks /\ \A b \in m.heap.blocks : KeptIn(b, m.heap, r.heap)

\* The header of every chunk but the last, which is in the block of the shared data.
HeadersHold(m) ==
    \A k \in DOMAIN m.chunks : k < Len(m.chunks) =>
        \A i \in 0 .. (CHUNK_HEADER - 1) : m.heap.cells[m.chunks[k].at + i] = Header

\* What has been handed out by the pool.
InChunk(chunk, at, length) ==
    Buffer(chunk) <= at /\ at + length <= Buffer(chunk) + chunk.size

Placed(m, at, length) == \E k \in DOMAIN m.chunks : InChunk(m.chunks[k], at, length)

Chunk(at, capacity, size) == [ at |-> at, capacity |-> capacity, size |-> size ]

LEMMA PoolIsConstructed ==
    ASSUME NEW m, MemoryOK(m), m.chunks = << >>, NEW r \in ConstructPool(m)
    PROVE  /\ MemoryOK(r) /\ r.stacks = m.stacks /\ Len(r.chunks) = 1
           /\ AllKept(m, r) /\ r.heap.cells = m.heap.cells
<1>1. m \in Memories /\ HeapOK(m.heap) /\ SHARED_DATA + CHUNK_HEADER \in Nat \ {0}
  BY Sizes DEF MemoryOK
<1>2. PICK q \in Malloc(m.heap, SHARED_DATA + CHUNK_HEADER) :
          r = [ m EXCEPT !.heap = q.heap, !.chunks = << Chunk(q.at + SHARED_DATA, 0, 0) >> ]
  BY DEF ConstructPool, Chunk
<1>3. r.heap = q.heap /\ r.stacks = m.stacks /\ r.chunks = << Chunk(q.at + SHARED_DATA, 0, 0) >>
  BY <1>1, <1>2 DEF Memories
<1> DEFINE size == SHARED_DATA + CHUNK_HEADER
<1>4. /\ q.at \in Nat /\ Aligned(q.at) /\ q.at + size <= HEAP /\ HeapOK(q.heap)
      /\ q.heap.blocks = m.heap.blocks \union { Block(q.at, size) } /\ q.heap.cells = m.heap.cells
      /\ \A b \in m.heap.blocks : Beside(Block(q.at, size), b) /\ b.at # q.at
  BY <1>1, MallocGives
<1>. HIDE DEF size
<1>5. /\ Len(r.chunks) = 1 /\ DOMAIN r.chunks = {1} /\ r.chunks[1] = Chunk(q.at + SHARED_DATA, 0, 0)
      /\ q.at + SHARED_DATA \in Nat
  BY <1>3, <1>4, Sizes
<1>6. BlockOfChunk(r.chunks, 1) = Block(q.at, size)
  <2>1. (q.at + SHARED_DATA) - SHARED_DATA = q.at
    BY <1>4, Sizes
  <2>. QED BY <1>5, <2>1 DEF BlockOfChunk, size, Chunk
<1>7. r \in Memories
  <2>1. r.chunks \in Seq([ at : Nat, capacity : Nat, size : Nat ])
    BY <1>3, <1>5 DEF Chunk
  <2>2. q.heap \in Heaps
    BY <1>4 DEF HeapOK
  <2>. QED BY <1>1, <1>2, <1>3, <2>1, <2>2 DEF Memories
<1>8. \A name \in Names : StackOK(r, name)
  BY <1>3, <1>4 DEF MemoryOK, StackOK
<1>9. ChunkOK(r, 1)
  <2>1. Aligned(q.at + SHARED_DATA) /\ Aligned(0)
    <3>1. q.at \in Int /\ SHARED_DATA \in Int
      BY <1>4, Sizes
    <3>. QED BY <1>4, <3>1, AlignedParts, AlignedSums, Zenon
  <2>. QED BY <1>3, <1>4, <1>5, <1>6, <2>1 DEF ChunkOK, Chunk
<1>10. OwnersApart(r)
  <2>1. ASSUME NEW name \in Names PROVE r.stacks[name].at # q.at
    <3>1. CASE m.stacks[name].at = NULL
      BY <1>3, <1>4, <3>1 DEF NULL
    <3>2. CASE m.stacks[name].at # NULL
      <4>1. Block(m.stacks[name].at, m.stacks[name].capacity) \in m.heap.blocks
        BY <3>2, StacksOf
      <4>. QED BY <1>3, <1>4, <4>1 DEF Block
    <3>. QED BY <3>1, <3>2
  <2>2. Block(q.at, size).at = q.at
    BY DEF Block
  <2>. QED BY <1>3, <1>5, <1>6, <2>1, <2>2 DEF MemoryOK, OwnersApart
<1>11. \A b \in r.heap.blocks : \/ \E name \in Names : b.at = r.stacks[name].at
                               \/ \E k \in DOMAIN r.chunks : b.at = BlockOfChunk(r.chunks, k).at
  <2>1. \A b \in m.heap.blocks : \E name \in Names : b.at = m.stacks[name].at
    BY DEF MemoryOK
  <2>. QED BY <1>3, <1>4, <1>5, <1>6, <2>1
<1>12. MemoryOK(r)
  BY <1>3, <1>4, <1>5, <1>7, <1>8, <1>9, <1>10, <1>11 DEF MemoryOK
<1>. QED BY <1>3, <1>4, <1>5, <1>12 DEF AllKept, KeptIn

LEMMA PoolIsDestroyed ==
    ASSUME NEW m, MemoryOK(m), m.chunks # << >>, \A name \in Names : m.stacks[name].at = NULL,
           NEW r, r = DestroyPool(m)
    PROVE  MemoryOK(r) /\ r.heap.blocks = {} /\ r.chunks = << >> /\ r.stacks = m.stacks
<1> DEFINE first == Len(m.chunks)
           places == { m.chunks[k].at : k \in 1 .. (first - 1) }
           last == m.chunks[first].at - SHARED_DATA
<1>1. m \in Memories /\ HeapOK(m.heap)
  BY DEF MemoryOK
<1>2. first \in Nat \ {0} /\ DOMAIN m.chunks = 1 .. first /\ first \in DOMAIN m.chunks
  BY <1>1 DEF Memories
<1>3. /\ r.heap = FreeBlock(FreeBlocks(m.heap, places), last)
      /\ r.stacks = m.stacks /\ r.chunks = << >>
  <2>1. /\ ClearPool(m).heap = FreeBlocks(m.heap, places) /\ ClearPool(m).stacks = m.stacks
        /\ ClearPool(m).chunks = << [ m.chunks[first] EXCEPT !.size = 0 ] >>
    BY <1>1 DEF Memories, ClearPool
  <2>2. ClearPool(m).chunks[1].at = m.chunks[first].at
    <3>1. m.chunks[first] \in [ at : Nat, capacity : Nat, size : Nat ]
      BY <1>2, ChunksOf
    <3>. QED BY <2>1, <3>1
  <2>3. ClearPool(m) = [ m EXCEPT !.heap = ClearPool(m).heap, !.chunks = ClearPool(m).chunks ]
    BY <1>1, <2>1 DEF Memories, ClearPool
  <2>. QED BY <1>1, <2>1, <2>2, <2>3 DEF Memories, DestroyPool
<1>4. HeapOK(r.heap) /\ r.heap.blocks = { b \in m.heap.blocks : b.at \notin places /\ b.at # last }
  <2> DEFINE g == FreeBlocks(m.heap, places)
  <2>. HIDE DEF places, last
  <2>1. HeapOK(g) /\ g.blocks = { b \in m.heap.blocks : b.at \notin places }
    BY <1>1, BlocksAreFreed
  <2>. HIDE DEF g
  <2>2. HeapOK(r.heap) /\ r.heap.blocks = { b \in g.blocks : b.at # last }
    BY <1>3, <2>1, FreeBlockFrees DEF g
  <2>. QED BY <2>1, <2>2
<1>5. ASSUME NEW b \in m.heap.blocks PROVE b.at \in places \/ b.at = last
  <2>1. b.at # NULL
    BY <1>1, BlocksOf DEF NULL
  <2>2. PICK k \in DOMAIN m.chunks : b.at = BlockOfChunk(m.chunks, k).at
    BY <2>1 DEF MemoryOK
  <2>3. CASE k = first
    BY <2>2, <2>3 DEF BlockOfChunk, Block
  <2>4. CASE k # first
    <3>1. k \in 1 .. (first - 1)
      BY <1>2, <2>4
    <3>. QED BY <2>2, <2>4, <3>1 DEF BlockOfChunk, Block
  <2>. QED BY <2>3, <2>4
<1>6. r.heap.blocks = {}
  BY <1>4, <1>5
<1>7. r \in Memories
  <2>1. r.heap \in Heaps
    BY <1>4 DEF HeapOK
  <2>2. r = [ m EXCEPT !.heap = r.heap, !.chunks = << >> ]
    BY <1>1, <1>3 DEF Memories, DestroyPool, ClearPool
  <2>3. << >> \in Seq([ at : Nat, capacity : Nat, size : Nat ])
    OBVIOUS
  <2>4. [ m EXCEPT !.heap = r.heap ] \in Memories
    BY <1>1, <2>1 DEF Memories
  <2>. QED BY <2>2, <2>3, <2>4 DEF Memories
<1>8. \A name \in Names : StackOK(r, name)
  BY <1>3 DEF MemoryOK, StackOK
<1>. QED BY <1>3, <1>4, <1>6, <1>7, <1>8 DEF MemoryOK, OwnersApart

LEMMA ConstantTexts ==
    ASSUME NEW n \in Nat, NEW x \in Int, NEW piece, piece = [ k \in 1 .. n |-> x ]
    PROVE  piece \in Seq(Int) /\ Len(piece) = n /\ \A k \in 1 .. n : piece[k] = x
  OBVIOUS

LEMMA HeaderIsText ==
    /\ HeaderCells \in Seq(Int) /\ Len(HeaderCells) = CHUNK_HEADER
    /\ \A k \in 1 .. CHUNK_HEADER : HeaderCells[k] = Header
<1>1. CHUNK_HEADER \in Nat /\ Header \in Int /\ HeaderCells = [ k \in 1 .. CHUNK_HEADER |-> Header ]
  BY Sizes DEF Header, HeaderCells
<1>. QED BY <1>1, ConstantTexts

LEMMA Prepended ==
    ASSUME NEW S, NEW q \in Seq(S), NEW e \in S, NEW s, s = << e >> \o q, NEW n, n = Len(q)
    PROVE  /\ s \in Seq(S) /\ Len(s) = n + 1 /\ s[1] = e /\ n \in Nat
           /\ DOMAIN s = 1 .. (n + 1) /\ DOMAIN q = 1 .. n
           /\ \A k \in 1 .. n : s[k + 1] = q[k] /\ (k + 1 = Len(s) <=> k = Len(q))
<1>1. s \in Seq(S) /\ Len(s) = n + 1 /\ s[1] = e /\ n \in Nat
  OBVIOUS
<1>2. ASSUME NEW k \in 1 .. n PROVE s[k + 1] = q[k]
  <2>1. s[k + 1] = q[k + 1 - 1] /\ k + 1 - 1 = k
    OBVIOUS
  <2>. QED BY <2>1
<1>. QED BY <1>1, <1>2

LEMMA ChunkIsAdded ==
    ASSUME NEW m, MemoryOK(m), m.chunks # << >>, NEW capacity \in Nat,
           NEW r \in AddChunk(m, capacity)
    PROVE  /\ MemoryOK(r) /\ r.stacks = m.stacks /\ AllKept(m, r)
           /\ r.chunks = << r.chunks[1] >> \o m.chunks
           /\ r.chunks[1].capacity = capacity /\ r.chunks[1].size = 0
           /\ \A i \in 0 .. (CHUNK_HEADER - 1) : r.heap.cells[r.chunks[1].at + i] = Header
<1> DEFINE size == CHUNK_HEADER + capacity
           n == Len(m.chunks)
<1>1. m \in Memories /\ HeapOK(m.heap) /\ size \in Nat \ {0}
  BY HeapSize, HeaderSize DEF MemoryOK
<1>2. PICK q \in Malloc(m.heap, size) :
          r = [ m EXCEPT !.heap = Write(q.heap, q.at, HeaderCells),
                         !.chunks = << Chunk(q.at, capacity, 0) >> \o @ ]
  BY DEF AddChunk, Chunk
<1> DEFINE new == Chunk(q.at, capacity, 0)
<1>3. r.heap = Write(q.heap, q.at, HeaderCells) /\ r.stacks = m.stacks /\ r.chunks = << new >> \o m.chunks
  BY <1>1, <1>2 DEF Memories
<1>. HIDE DEF size
<1>4. /\ q.at \in Nat /\ Aligned(q.at) /\ q.at + size <= HEAP /\ HeapOK(q.heap)
      /\ q.heap.blocks = m.heap.blocks \union { Block(q.at, size) } /\ q.heap.cells = m.heap.cells
      /\ \A b \in m.heap.blocks : Beside(Block(q.at, size), b) /\ b.at # q.at
  BY <1>1, MallocGives
<1>5. /\ HeapOK(r.heap) /\ r.heap.blocks = q.heap.blocks
      /\ IsWritten(q.heap, r.heap, q.at, HeaderCells)
  <2>1. q.at + Len(HeaderCells) <= HEAP
    BY <1>4, HeaderIsText, HeapSize, HeaderSize DEF size
  <2>. QED BY <1>3, <1>4, <2>1, HeaderIsText, WriteWrites
<1>6. AllKept(m, r)
  <2>. SUFFICES ASSUME NEW b \in m.heap.blocks PROVE KeptIn(b, m.heap, r.heap)
    BY <1>4, <1>5 DEF AllKept
  <2>1. b.at \in Nat /\ b.size \in Nat /\ Beside(Block(q.at, size), b)
    BY <1>1, <1>4, BlocksOf
  <2>2. \A c \in Cell : b.at <= c /\ c < b.at + b.size => ~(q.at <= c /\ c < q.at + CHUNK_HEADER)
    BY <1>4, <2>1, HeapSize, HeaderSize DEF Beside, Block, Cell, size
  <2>. QED BY <1>4, <1>5, <2>2, HeaderIsText DEF KeptIn, IsWritten
<1>7. ASSUME NEW i \in 0 .. (CHUNK_HEADER - 1) PROVE r.heap.cells[q.at + i] = Header
  <2> DEFINE c == q.at + i
  <2>1. c \in Cell /\ q.at <= c /\ c < q.at + CHUNK_HEADER /\ c - q.at + 1 \in 1 .. CHUNK_HEADER
    BY <1>4, HeapSize, HeaderSize, SMTT(30) DEF Cell, size
  <2>. HIDE DEF c
  <2>2. r.heap.cells[c] = HeaderCells[c - q.at + 1]
    BY <1>5, <2>1, HeaderIsText DEF IsWritten
  <2>. QED BY <2>1, <2>2, HeaderIsText DEF c
<1>8. /\ m.chunks \in Seq([ at : Nat, capacity : Nat, size : Nat ]) /\ n \in Nat \ {0}
      /\ new \in [ at : Nat, capacity : Nat, size : Nat ] /\ DOMAIN m.chunks = 1 .. n
  <2>1. m.chunks \in Seq([ at : Nat, capacity : Nat, size : Nat ])
    BY <1>1 DEF Memories
  <2>2. new \in [ at : Nat, capacity : Nat, size : Nat ]
    BY <1>4 DEF Chunk
  <2>. QED BY <2>1, <2>2
<1>9. /\ r.chunks \in Seq([ at : Nat, capacity : Nat, size : Nat ]) /\ Len(r.chunks) = n + 1
      /\ r.chunks[1] = new /\ DOMAIN r.chunks = 1 .. (n + 1)
      /\ \A k \in 1 .. n : r.chunks[k + 1] = m.chunks[k] /\ (k + 1 = Len(r.chunks) <=> k = Len(m.chunks))
      /\ n = Len(m.chunks)
  <2> DEFINE S == [ at : Nat, capacity : Nat, size : Nat ]
  <2>1. /\ m.chunks \in Seq(S) /\ new \in S /\ r.chunks = << new >> \o m.chunks
        /\ n = Len(m.chunks)
    BY <1>3, <1>8
  <2>. HIDE DEF new, n, S
  <2>2. /\ r.chunks \in Seq(S) /\ Len(r.chunks) = n + 1 /\ r.chunks[1] = new
        /\ DOMAIN r.chunks = 1 .. (n + 1)
        /\ \A k \in 1 .. n : r.chunks[k + 1] = m.chunks[k] /\ (k + 1 = Len(r.chunks) <=> k = Len(m.chunks))
    BY <2>1, Prepended
  <2>. QED BY <2>1, <2>2 DEF S
<1>. HIDE DEF n
<1>10. new.at = q.at /\ new.capacity = capacity /\ new.size = 0
  BY DEF Chunk
<1>. HIDE DEF new
<1>11. BlockOfChunk(r.chunks, 1) = Block(q.at, size)
  BY <1>8, <1>9, <1>10 DEF BlockOfChunk, size
<1>12. ASSUME NEW k \in 1 .. n PROVE BlockOfChunk(r.chunks, k + 1) = BlockOfChunk(m.chunks, k)
  <2>1. r.chunks[k + 1] = m.chunks[k] /\ (k + 1 = Len(r.chunks) <=> k = Len(m.chunks))
    BY <1>9
  <2>. QED BY <2>1 DEF BlockOfChunk
<1>13. \A j \in DOMAIN r.chunks : j = 1 \/ \E k \in 1 .. n : j = k + 1
  <2>. SUFFICES ASSUME NEW j \in 1 .. (n + 1), j # 1 PROVE \E k \in 1 .. n : j = k + 1
    BY <1>9
  <2>1. j - 1 \in 1 .. n /\ j = (j - 1) + 1
    BY <1>8
  <2>. QED BY <2>1
<1>14. r \in Memories
  <2>1. r.heap \in Heaps
    BY <1>5 DEF HeapOK
  <2>. QED BY <1>1, <1>2, <1>3, <1>9, <2>1 DEF Memories
<1>15. \A name \in Names : StackOK(r, name)
  BY <1>3, <1>4, <1>5 DEF MemoryOK, StackOK
<1>16. \A j \in DOMAIN r.chunks : ChunkOK(r, j)
  <2>1. ChunkOK(r, 1)
    <3>1. 1 # Len(r.chunks) /\ Block(q.at, size) \in r.heap.blocks /\ capacity >= 0
      BY <1>4, <1>5, <1>8, <1>9
    <3>. QED BY <1>4, <1>9, <1>10, <1>11, <3>1, AlignedParts DEF ChunkOK
  <2>2. ASSUME NEW k \in 1 .. n PROVE ChunkOK(r, k + 1)
    <3>1. ChunkOK(m, k)
      BY <1>8 DEF MemoryOK
    <3>2. BlockOfChunk(r.chunks, k + 1) \in r.heap.blocks
      BY <1>4, <1>5, <1>12, <3>1 DEF ChunkOK
    <3>3. r.chunks[k + 1] = m.chunks[k] /\ (k + 1 = Len(r.chunks) <=> k = Len(m.chunks))
      BY <1>9
    <3>. QED BY <3>1, <3>2, <3>3 DEF ChunkOK
  <2>. QED BY <1>13, <2>1, <2>2
<1>17. OwnersApart(r)
  <2>1. ASSUME NEW name \in Names PROVE r.stacks[name].at # q.at
    <3>1. CASE m.stacks[name].at = NULL
      BY <1>3, <1>4, <3>1 DEF NULL
    <3>2. CASE m.stacks[name].at # NULL
      <4>1. Block(m.stacks[name].at, m.stacks[name].capacity) \in m.heap.blocks
        BY <3>2, StacksOf
      <4>. QED BY <1>3, <1>4, <4>1 DEF Block
    <3>. QED BY <3>1, <3>2
  <2>2. Block(q.at, size).at = q.at
    BY DEF Block
  <2>3. ASSUME NEW k \in 1 .. n PROVE BlockOfChunk(m.chunks, k).at # q.at
    BY <1>4, <1>8, ChunksOf
  <2>4. \A a \in Names, j \in DOMAIN r.chunks : r.stacks[a].at # BlockOfChunk(r.chunks, j).at
    <3>1. \A a \in Names, k \in 1 .. n : m.stacks[a].at # BlockOfChunk(m.chunks, k).at
      BY <1>8 DEF MemoryOK, OwnersApart
    <3>. QED BY <1>3, <1>11, <1>12, <1>13, <2>1, <2>2, <3>1
  <2>5. \A i, j \in DOMAIN r.chunks :
           i # j => BlockOfChunk(r.chunks, i).at # BlockOfChunk(r.chunks, j).at
    <3>1. \A i, j \in 1 .. n : i # j => BlockOfChunk(m.chunks, i).at # BlockOfChunk(m.chunks, j).at
      BY <1>8 DEF MemoryOK, OwnersApart
    <3>. QED BY <1>11, <1>12, <1>13, <2>2, <2>3, <3>1
  <2>. QED BY <1>3, <2>4, <2>5 DEF MemoryOK, OwnersApart
<1>18. \A b \in r.heap.blocks : \/ \E name \in Names : b.at = r.stacks[name].at
                               \/ \E j \in DOMAIN r.chunks : b.at = BlockOfChunk(r.chunks, j).at
  <2>. SUFFICES ASSUME NEW b \in r.heap.blocks
                PROVE  \/ \E name \in Names : b.at = r.stacks[name].at
                       \/ \E j \in DOMAIN r.chunks : b.at = BlockOfChunk(r.chunks, j).at
    OBVIOUS
  <2>1. CASE b = Block(q.at, size)
    <3>1. 1 \in DOMAIN r.chunks
      BY <1>8, <1>9
    <3>. QED BY <1>11, <2>1, <3>1
  <2>2. CASE b \in m.heap.blocks
    <3>1. \/ \E name \in Names : b.at = m.stacks[name].at
          \/ \E k \in 1 .. n : b.at = BlockOfChunk(m.chunks, k).at
      BY <1>8, <2>2 DEF MemoryOK
    <3>2. \A k \in 1 .. n : k + 1 \in DOMAIN r.chunks
      BY <1>8, <1>9
    <3>. QED BY <1>3, <1>12, <3>1, <3>2
  <2>. QED BY <1>4, <1>5, <2>1, <2>2
<1>19. MemoryOK(r)
  BY <1>5, <1>14, <1>15, <1>16, <1>17, <1>18 DEF MemoryOK
<1>. QED BY <1>3, <1>6, <1>7, <1>9, <1>10, <1>19

\* What was handed out is in the block of its chunk, behind the header.
LEMMA PlacedIsInBlock ==
    ASSUME NEW m, MemoryOK(m), NEW k \in DOMAIN m.chunks, NEW at \in Int, NEW length \in Int,
           InChunk(m.chunks[k], at, length)
    PROVE  /\ BlockOfChunk(m.chunks, k) \in m.heap.blocks
           /\ BlockOfChunk(m.chunks, k).at \in Nat /\ BlockOfChunk(m.chunks, k).size \in Nat
           /\ m.chunks[k].at \in Nat /\ m.chunks[k].at + CHUNK_HEADER <= at
           /\ BlockOfChunk(m.chunks, k).at <= m.chunks[k].at
           /\ at + length <= BlockOfChunk(m.chunks, k).at + BlockOfChunk(m.chunks, k).size
           /\ BlockOfChunk(m.chunks, k).at + BlockOfChunk(m.chunks, k).size <= HEAP
<1>1. HeapOK(m.heap)
  BY DEF MemoryOK
<1>. QED BY <1>1, ChunksOf, BlocksOf, HeapSize, HeaderSize, SMTT(30) DEF Buffer, InChunk

LEMMA AddedChunkKeeps ==
    ASSUME NEW m, MemoryOK(m), m.chunks # << >>, NEW capacity \in Nat,
           NEW r \in AddChunk(m, capacity)
    PROVE  /\ \A at, length \in Int : Placed(m, at, length) => Placed(r, at, length)
           /\ HeadersHold(m) => HeadersHold(r)
<1> DEFINE n == Len(m.chunks)
<1>1. /\ MemoryOK(r) /\ AllKept(m, r) /\ r.chunks = << r.chunks[1] >> \o m.chunks
      /\ \A i \in 0 .. (CHUNK_HEADER - 1) : r.heap.cells[r.chunks[1].at + i] = Header
  BY ChunkIsAdded, SMTT(30)
<1>2. /\ Len(r.chunks) = n + 1 /\ n \in Nat /\ DOMAIN r.chunks = 1 .. (n + 1) /\ DOMAIN m.chunks = 1 .. n
      /\ \A k \in 1 .. n : r.chunks[k + 1] = m.chunks[k]
  <2> DEFINE S == [ at : Nat, capacity : Nat, size : Nat ]
             new == r.chunks[1]
  <2>1. m.chunks \in Seq(S) /\ r.chunks \in Seq(S)
    BY <1>1 DEF MemoryOK, Memories
  <2>2. r.chunks = << new >> \o m.chunks
    BY <1>1
  <2>3. new \in S
    <3>1. 1 \in DOMAIN r.chunks
      BY <2>1, <2>2
    <3>. HIDE DEF S
    <3>2. r.chunks[1] \in S
      BY <2>1, <3>1, ElementsOf
    <3>. QED BY <3>2
  <2>. HIDE DEF S, new
  <2>4. n = Len(m.chunks)
    OBVIOUS
  <2>. HIDE DEF n
  <2>. QED BY <2>1, <2>2, <2>3, <2>4, Prepended
<1>. HIDE DEF n
<1>3. ASSUME NEW at \in Int, NEW length \in Int, Placed(m, at, length) PROVE Placed(r, at, length)
  <2>1. PICK k \in 1 .. n : InChunk(m.chunks[k], at, length)
    BY <1>2, <1>3 DEF Placed
  <2>2. k + 1 \in DOMAIN r.chunks /\ r.chunks[k + 1] = m.chunks[k]
    BY <1>2
  <2>. QED BY <2>1, <2>2 DEF Placed
<1>4. ASSUME HeadersHold(m), NEW j \in DOMAIN r.chunks, j < Len(r.chunks),
             NEW i \in 0 .. (CHUNK_HEADER - 1)
      PROVE  r.heap.cells[r.chunks[j].at + i] = Header
  <2>1. CASE j = 1
    BY <1>1, <2>1
  <2>2. CASE j # 1
    <3> DEFINE k == j - 1
    <3>1. k \in 1 .. n /\ j = k + 1 /\ k < n
      BY <1>2, <1>4, <2>2
    <3>. HIDE DEF k
    <3>2. r.chunks[j] = m.chunks[k] /\ k \in DOMAIN m.chunks /\ k < Len(m.chunks)
      BY <1>2, <3>1 DEF n
    <3>3. m.heap.cells[m.chunks[k].at + i] = Header
      BY <1>4, <3>2 DEF HeadersHold
    <3>4. KeptIn(BlockOfChunk(m.chunks, k), m.heap, r.heap)
      BY <1>1, <3>2, ChunksOf DEF AllKept
    <3>5. /\ m.chunks[k].at + i \in Cell /\ BlockOfChunk(m.chunks, k).at <= m.chunks[k].at + i
          /\ m.chunks[k].at + i < BlockOfChunk(m.chunks, k).at + BlockOfChunk(m.chunks, k).size
      <4>1. HeapOK(m.heap)
        BY DEF MemoryOK
      <4>2. /\ m.chunks[k].at \in Nat /\ m.chunks[k].capacity \in Nat
            /\ BlockOfChunk(m.chunks, k) \in m.heap.blocks
            /\ BlockOfChunk(m.chunks, k).at <= m.chunks[k].at
            /\ BlockOfChunk(m.chunks, k).at + BlockOfChunk(m.chunks, k).size
                  = m.chunks[k].at + CHUNK_HEADER + m.chunks[k].capacity
            /\ m.chunks[k].at + CHUNK_HEADER + m.chunks[k].capacity <= HEAP
        BY <3>2, ChunksOf
      <4> DEFINE b == BlockOfChunk(m.chunks, k)
                 at == m.chunks[k].at
                 capacity2 == m.chunks[k].capacity
      <4>3. b.at \in Nat /\ b.size \in Nat
        BY <4>1, <4>2, BlocksOf
      <4>4. /\ at \in Nat /\ capacity2 \in Nat /\ b.at <= at
            /\ b.at + b.size = at + CHUNK_HEADER + capacity2 /\ at + CHUNK_HEADER + capacity2 <= HEAP
        BY <4>2
      <4>. HIDE DEF b, at, capacity2
      <4>5. i \in Nat /\ i < CHUNK_HEADER /\ HEAP \in Nat /\ CHUNK_HEADER \in Nat
        BY Sizes
      <4>6. at + i \in Cell /\ b.at <= at + i /\ at + i < b.at + b.size
        BY <4>3, <4>4, <4>5, SMTT(30) DEF Cell
      <4>. QED BY <4>6 DEF b, at
    <3>. QED BY <3>2, <3>3, <3>4, <3>5 DEF KeptIn
  <2>. QED BY <2>1, <2>2
<1>. QED BY <1>3, <1>4 DEF HeadersHold

\* Room for n cells in the chunk at the head, all of it handed out.
HasRoom(m, at, n) ==
    m.chunks # << >> /\ at \in Nat /\ InChunk(m.chunks[1], at, n)

LEMMA HeadReplaced ==
    ASSUME NEW S, NEW q \in Seq(S), q # << >>, NEW e \in S, NEW s, s = [ q EXCEPT ![1] = e ],
           NEW n, n = Len(q)
    PROVE  /\ s \in Seq(S) /\ Len(s) = n /\ DOMAIN s = 1 .. n /\ s[1] = e
           /\ \A k \in 1 .. n : k # 1 => s[k] = q[k]
  OBVIOUS

LEMMA ChunkGrows ==
    ASSUME NEW c \in [ at : Nat, capacity : Nat, size : Nat ], NEW size \in Nat
    PROVE  /\ [ c EXCEPT !.size = @ + size ] = Chunk(c.at, c.capacity, c.size + size)
           /\ Chunk(c.at, c.capacity, c.size + size) \in [ at : Nat, capacity : Nat, size : Nat ]
  BY DEF Chunk

HandingOut(m, size) == [ m EXCEPT !.chunks[1].size = @ + size ]

LEMMA HeadGrows ==
    ASSUME NEW m, MemoryOK(m), m.chunks # << >>, NEW size \in Nat, Aligned(size),
           m.chunks[1].size + size <= m.chunks[1].capacity,
           NEW r, r = HandingOut(m, size),
           NEW to, to = Buffer(m.chunks[1]) + m.chunks[1].size
    PROVE  /\ MemoryOK(r) /\ r.heap = m.heap /\ r.stacks = m.stacks
           /\ Aligned(to) /\ HasRoom(r, to, size)
           /\ \A at, length \in Int : Placed(m, at, length) =>
                Placed(r, at, length) /\ (at + length <= to \/ to + size <= at)
           /\ HeadersHold(m) => HeadersHold(r)
<1> DEFINE n == Len(m.chunks)
           c == m.chunks[1]
<1>1. /\ m \in Memories /\ HeapOK(m.heap) /\ m.chunks \in Seq([ at : Nat, capacity : Nat, size : Nat ])
      /\ n \in Nat \ {0} /\ DOMAIN m.chunks = 1 .. n /\ 1 \in DOMAIN m.chunks
  BY DEF MemoryOK, Memories
<1>2. /\ c \in [ at : Nat, capacity : Nat, size : Nat ]
      /\ c.at \in Nat /\ c.size \in Nat /\ c.capacity \in Nat
      /\ Aligned(c.at) /\ Aligned(c.size)
  BY <1>1, ChunksOf DEF ChunkOK
<1>3. /\ r.heap = m.heap /\ r.stacks = m.stacks
      /\ r.chunks = [ m.chunks EXCEPT ![1].size = @ + size ]
  BY <1>1 DEF Memories, HandingOut
<1>4. /\ r.chunks = [ m.chunks EXCEPT ![1] = Chunk(c.at, c.capacity, c.size + size) ]
      /\ Chunk(c.at, c.capacity, c.size + size) \in [ at : Nat, capacity : Nat, size : Nat ]
  BY <1>2, <1>3, ChunkGrows
<1>5. /\ Len(r.chunks) = n /\ DOMAIN r.chunks = 1 .. n
      /\ r.chunks[1] = Chunk(c.at, c.capacity, c.size + size)
      /\ \A k \in 1 .. n : k # 1 => r.chunks[k] = m.chunks[k]
      /\ r.chunks \in Seq([ at : Nat, capacity : Nat, size : Nat ])
  <2> DEFINE e == Chunk(c.at, c.capacity, c.size + size)
             S == [ at : Nat, capacity : Nat, size : Nat ]
  <2>2. r.chunks = [ m.chunks EXCEPT ![1] = e ] /\ e \in S /\ m.chunks \in Seq(S) /\ n = Len(m.chunks)
    BY <1>1, <1>4
  <2>. HIDE DEF e, S, n, c
  <2>3. /\ r.chunks \in Seq(S) /\ Len(r.chunks) = n /\ DOMAIN r.chunks = 1 .. n /\ r.chunks[1] = e
        /\ \A k \in 1 .. n : k # 1 => r.chunks[k] = m.chunks[k]
    BY <2>2, HeadReplaced
  <2>. QED BY <2>3 DEF e, S
<1>6. /\ r.chunks[1].at = c.at /\ r.chunks[1].capacity = c.capacity /\ r.chunks[1].size = c.size + size
      /\ r.chunks # << >>
  BY <1>1, <1>5 DEF Chunk
<1>7. Aligned(c.size + size) /\ Aligned(to) /\ to \in Nat /\ to = c.at + CHUNK_HEADER + c.size
  <2>1. c.size \in Int /\ size \in Int /\ c.at \in Int /\ CHUNK_HEADER \in Int /\ c.at + CHUNK_HEADER \in Int
    BY <1>2, HeapSize, HeaderSize
  <2>2. Aligned(c.size + size) /\ Aligned(c.at + CHUNK_HEADER)
    BY <1>2, <2>1, AlignedParts, AlignedSums, Zenon
  <2>3. Aligned((c.at + CHUNK_HEADER) + c.size)
    BY <1>2, <2>1, <2>2, AlignedSums, Zenon
  <2>4. to = (c.at + CHUNK_HEADER) + c.size /\ to \in Nat
    BY <2>1, <1>2, HeapSize, HeaderSize DEF Buffer
  <2>. HIDE DEF c
  <2>. QED BY <2>2, <2>3, <2>4
<1>8. c.size + size <= c.capacity
  OBVIOUS
<1>. HIDE DEF c, n
<1>9. \A k \in 1 .. n : /\ BlockOfChunk(r.chunks, k) = BlockOfChunk(m.chunks, k)
                       /\ r.chunks[k].at = m.chunks[k].at
                       /\ r.chunks[k].capacity = m.chunks[k].capacity
  <2>1. \A k \in 1 .. n : /\ r.chunks[k].at = m.chunks[k].at
                         /\ r.chunks[k].capacity = m.chunks[k].capacity
    BY <1>5, <1>6 DEF c
  <2>2. Len(r.chunks) = Len(m.chunks)
    BY <1>5 DEF n
  <2>. QED BY <2>1, <2>2 DEF BlockOfChunk
<1>10. MemoryOK(r)
  <2>1. r \in Memories
    <3>1. r = [ m EXCEPT !.chunks = r.chunks ]
      BY <1>1, <1>3 DEF Memories, HandingOut
    <3>. QED BY <1>1, <1>5, <3>1 DEF Memories
  <2>2. \A name \in Names : StackOK(r, name)
    BY <1>3 DEF MemoryOK, StackOK
  <2>3. ASSUME NEW k \in 1 .. n PROVE ChunkOK(r, k)
    <3>1. ChunkOK(m, k)
      BY <1>1 DEF MemoryOK
    <3>2. Len(r.chunks) = Len(m.chunks)
      BY <1>5 DEF n
    <3>3. r.chunks[k].size <= r.chunks[k].capacity /\ Aligned(r.chunks[k].size)
      <4>1. CASE k = 1
        BY <1>6, <1>7, <1>8, <4>1
      <4>2. CASE k # 1
        <5>1. r.chunks[k] = m.chunks[k]
          BY <1>1, <1>5, <4>2
        <5>. QED BY <3>1, <5>1 DEF ChunkOK
      <4>. QED BY <4>1, <4>2
    <3>. QED BY <1>3, <1>9, <3>1, <3>2, <3>3 DEF ChunkOK
  <2>4. OwnersApart(r)
    <3>1. OwnersApart(m) /\ DOMAIN m.chunks = 1 .. n /\ DOMAIN r.chunks = 1 .. n /\ r.stacks = m.stacks
      BY <1>1, <1>3, <1>5 DEF MemoryOK
    <3>2. \A k \in 1 .. n : BlockOfChunk(r.chunks, k) = BlockOfChunk(m.chunks, k)
      BY <1>9
    <3>. QED BY <3>1, <3>2 DEF OwnersApart
  <2>5. \A b \in r.heap.blocks : \/ \E name \in Names : b.at = r.stacks[name].at
                                \/ \E k \in DOMAIN r.chunks : b.at = BlockOfChunk(r.chunks, k).at
    <3>1. /\ DOMAIN m.chunks = 1 .. n /\ DOMAIN r.chunks = 1 .. n /\ r.stacks = m.stacks
          /\ r.heap = m.heap
          /\ \A b \in m.heap.blocks : \/ \E name \in Names : b.at = m.stacks[name].at
                                      \/ \E k \in DOMAIN m.chunks : b.at = BlockOfChunk(m.chunks, k).at
      BY <1>1, <1>3, <1>5 DEF MemoryOK
    <3>2. \A k \in 1 .. n : BlockOfChunk(r.chunks, k) = BlockOfChunk(m.chunks, k)
      BY <1>9
    <3>. QED BY <3>1, <3>2
  <2>. QED BY <1>1, <1>3, <1>5, <2>1, <2>2, <2>3, <2>4, <2>5 DEF MemoryOK
<1>11. HasRoom(r, to, size)
  BY <1>2, <1>6, <1>7, HeapSize, HeaderSize DEF HasRoom, InChunk, Buffer
<1>12. ASSUME NEW at \in Int, NEW length \in Int, Placed(m, at, length)
       PROVE  Placed(r, at, length) /\ (at + length <= to \/ to + size <= at)
  <2>1. PICK k \in 1 .. n : InChunk(m.chunks[k], at, length)
    BY <1>1, <1>12 DEF Placed
  <2>2. CASE k = 1
    <3>1. at + length <= to
      BY <2>1, <2>2 DEF InChunk
    <3>2. 1 \in DOMAIN r.chunks
      BY <1>1, <1>2, <1>5, <2>1, <2>2
    <3>3. InChunk(m.chunks[1], at, length)
      BY <2>1, <2>2
    <3>4. InChunk(r.chunks[1], at, length)
      BY <1>2, <1>6, <3>3, HeapSize, HeaderSize, SMTT(30) DEF Buffer, InChunk, c
    <3>. QED BY <3>1, <3>2, <3>4 DEF Placed
  <2>3. CASE k # 1
    <3>1. r.chunks[k] = m.chunks[k] /\ k \in DOMAIN r.chunks
      BY <1>1, <1>5, <2>3
    <3> DEFINE b == BlockOfChunk(m.chunks, k)
               d == BlockOfChunk(m.chunks, 1)
    <3>2. /\ b \in m.heap.blocks /\ b.at \in Nat /\ b.size \in Nat /\ b.at <= at
          /\ at + length <= b.at + b.size
      <4>1. k \in DOMAIN m.chunks
        BY <1>1
      <4>2. /\ b \in m.heap.blocks /\ b.at \in Nat /\ b.size \in Nat /\ b.at <= m.chunks[k].at
            /\ m.chunks[k].at \in Nat /\ m.chunks[k].at + CHUNK_HEADER <= at
            /\ at + length <= b.at + b.size
        BY <2>1, <4>1, PlacedIsInBlock
      <4>. QED BY <4>2, Sizes
    <3>3. d \in m.heap.blocks /\ d.at \in Nat /\ d.size \in Nat /\ d.at <= to /\ to + size <= d.at + d.size
      <4>1. /\ d \in m.heap.blocks /\ d.at <= c.at /\ d.at + d.size = c.at + CHUNK_HEADER + c.capacity
        BY <1>1, ChunksOf DEF c
      <4>2. d.at \in Nat /\ d.size \in Nat
        BY <1>1, <4>1, BlocksOf
      <4>. QED BY <1>2, <1>7, <1>8, <4>1, <4>2, Sizes, SMTT(30)
    <3>4. Beside(b, d)
      <4>1. b.at # d.at
        BY <1>1, <2>3 DEF MemoryOK, OwnersApart
      <4>. QED BY <1>1, <3>2, <3>3, <4>1 DEF HeapOK
    <3>. HIDE DEF b, d
    <3>5. at + length <= to \/ to + size <= at
      BY <1>7, <3>2, <3>3, <3>4, SMTT(30) DEF Beside
    <3>. QED BY <2>1, <3>1, <3>5 DEF Placed
  <2>. QED BY <2>2, <2>3
<1>13. HeadersHold(m) => HeadersHold(r)
  <2>1. /\ DOMAIN m.chunks = 1 .. n /\ DOMAIN r.chunks = 1 .. n /\ r.heap = m.heap
        /\ Len(r.chunks) = Len(m.chunks)
    BY <1>1, <1>3, <1>5 DEF n
  <2>2. \A k \in 1 .. n : r.chunks[k].at = m.chunks[k].at
    BY <1>9
  <2>. QED BY <2>1, <2>2 DEF HeadersHold
<1>. QED BY <1>3, <1>7, <1>10, <1>11, <1>12, <1>13

\* What Malloc of the pool does to the memory when it answers with a place for n cells.
PoolGives(m, r, to, n) ==
    /\ MemoryOK(r) /\ r.stacks = m.stacks /\ AllKept(m, r)
    /\ Aligned(to) /\ HasRoom(r, to, n)
    /\ \A at, length \in Int : Placed(m, at, length) =>
         Placed(r, at, length) /\ (at + length <= to \/ to + n <= at)
    /\ HeadersHold(m) => HeadersHold(r)

LEMMA PoolMallocGives ==
    ASSUME NEW m, MemoryOK(m), m.chunks # << >>, NEW n \in Nat \ {0}, NEW q \in PoolMalloc(m, n)
    PROVE  PoolGives(m, q.memory, q.at, n)
<1> DEFINE size == AlignedSize(n)
           head == m.chunks[1]
           capacity == Larger(kDefaultChunkCapacity, size)
<1>1. size \in Nat /\ n <= size /\ Aligned(size)
  BY AlignedSizes
<1>. HIDE DEF size
<1>2. capacity \in Nat /\ size <= capacity
  BY <1>1, Sizes DEF Larger
<1>. HIDE DEF capacity
<1>3. PICK r : /\ r \in IF head.size + size > head.capacity THEN AddChunk(m, capacity) ELSE {m}
               /\ q = [ memory |-> HandingOut(r, size), at |-> Buffer(r.chunks[1]) + r.chunks[1].size ]
  BY DEF PoolMalloc, HandingOut, size, capacity
<1>4. q.memory = HandingOut(r, size) /\ q.at = Buffer(r.chunks[1]) + r.chunks[1].size
  BY <1>3
<1>5. /\ MemoryOK(r) /\ r.chunks # << >> /\ r.stacks = m.stacks /\ AllKept(m, r)
      /\ r.chunks[1].size + size <= r.chunks[1].capacity
      /\ \A at, length \in Int : Placed(m, at, length) => Placed(r, at, length)
      /\ HeadersHold(m) => HeadersHold(r)
  <2>1. CASE head.size + size > head.capacity
    <3>1. r \in AddChunk(m, capacity)
      BY <1>3, <2>1
    <3>2. /\ MemoryOK(r) /\ r.stacks = m.stacks /\ AllKept(m, r)
          /\ r.chunks = << r.chunks[1] >> \o m.chunks
          /\ r.chunks[1].capacity = capacity /\ r.chunks[1].size = 0
      BY <1>2, <3>1, ChunkIsAdded
    <3>3. /\ \A at, length \in Int : Placed(m, at, length) => Placed(r, at, length)
          /\ HeadersHold(m) => HeadersHold(r)
      BY <1>2, <3>1, AddedChunkKeeps
    <3>4. r.chunks # << >>
      <4>1. m.chunks \in Seq([ at : Nat, capacity : Nat, size : Nat ])
        BY DEF MemoryOK, Memories
      <4>. HIDE DEF head
      <4>. QED BY <3>2, <4>1
    <3>5. r.chunks[1].size + size <= r.chunks[1].capacity
      BY <1>1, <1>2, <3>2
    <3>. QED BY <3>2, <3>3, <3>4, <3>5
  <2>2. CASE ~(head.size + size > head.capacity)
    <3>1. r = m
      BY <1>3, <2>2
    <3>2. 1 \in DOMAIN m.chunks
      BY DEF MemoryOK, Memories
    <3>3. head.size \in Nat /\ head.capacity \in Nat
      BY <3>2, ChunksOf
    <3>4. head.size + size <= head.capacity
      BY <1>1, <2>2, <3>3
    <3>. QED BY <3>1, <3>4 DEF AllKept, KeptIn
  <2>. QED BY <2>1, <2>2
<1> DEFINE g == q.memory
           to == q.at
<1>6. /\ MemoryOK(g) /\ g.heap = r.heap /\ g.stacks = r.stacks
      /\ Aligned(to) /\ HasRoom(g, to, size)
      /\ \A at, length \in Int : Placed(r, at, length) =>
           Placed(g, at, length) /\ (at + length <= to \/ to + size <= at)
      /\ HeadersHold(r) => HeadersHold(g)
  BY <1>1, <1>4, <1>5, HeadGrows
<1>. HIDE DEF g, to
<1>7. HasRoom(g, to, n)
  <2>1. 1 \in DOMAIN g.chunks
    BY <1>6 DEF MemoryOK, Memories, HasRoom
  <2> DEFINE buffer == Buffer(g.chunks[1])
             filled == g.chunks[1].size
  <2>2. buffer \in Nat /\ filled \in Nat
    BY <1>6, <2>1, ChunksOf, HeapSize, HeaderSize DEF Buffer
  <2>3. g.chunks # << >> /\ to \in Nat /\ buffer <= to /\ to + size <= buffer + filled
    BY <1>6 DEF HasRoom, InChunk
  <2>. HIDE DEF buffer, filled
  <2>4. to + n <= buffer + filled
    BY <1>1, <2>2, <2>3
  <2>. QED BY <2>3, <2>4 DEF HasRoom, InChunk, buffer, filled
<1>8. \A at, length \in Int : Placed(m, at, length) =>
         Placed(g, at, length) /\ (at + length <= to \/ to + n <= at)
  <2>1. to \in Nat
    BY <1>6 DEF HasRoom
  <2>. QED BY <1>1, <1>5, <1>6, <2>1
<1>9. AllKept(m, g)
  BY <1>5, <1>6 DEF AllKept
<1>. QED BY <1>5, <1>6, <1>7, <1>8, <1>9 DEF PoolGives, g, to

\* What is written where the pool had room leaves the stacks and the headers.
LEMMA WriteInPool ==
    ASSUME NEW m, MemoryOK(m), NEW to, NEW content \in Seq(Int), HasRoom(m, to, Len(content)),
           NEW g, g = Writing(m, to, content)
    PROVE  /\ MemoryOK(g) /\ g.stacks = m.stacks /\ g.chunks = m.chunks
           /\ \A name \in Names : StackKept(m, g, name)
           /\ IsWritten(m.heap, g.heap, to, content)
           /\ HeadersHold(m) => HeadersHold(g)
<1> DEFINE n == Len(content)
           b == BlockOfChunk(m.chunks, 1)
<1>1. n \in Nat /\ to \in Nat /\ m.chunks # << >>
  BY DEF HasRoom
<1>2. 1 \in DOMAIN m.chunks
  BY <1>1 DEF MemoryOK, Memories
<1>3. /\ b \in m.heap.blocks /\ b.at \in Nat /\ b.size \in Nat
      /\ m.chunks[1].at \in Nat /\ m.chunks[1].at + CHUNK_HEADER <= to
      /\ b.at <= m.chunks[1].at /\ to + n <= b.at + b.size /\ b.at + b.size <= HEAP
  <2>1. InChunk(m.chunks[1], to, n)
    BY DEF HasRoom
  <2>2. to \in Int /\ n \in Int
    BY <1>1
  <2>. HIDE DEF n
  <2>. QED BY <1>2, <2>1, <2>2, PlacedIsInBlock
<1>4. b.at <= to
  BY <1>1, <1>3, Sizes
<1>. HIDE DEF b
<1>5. /\ MemoryOK(g) /\ g.stacks = m.stacks /\ g.chunks = m.chunks
      /\ OthersKept(m.heap, g.heap, b.at) /\ IsWritten(m.heap, g.heap, to, content)
  BY <1>1, <1>3, <1>4, WriteInBlock
<1>6. ASSUME NEW name \in Names PROVE StackKept(m, g, name)
  <2>1. CASE m.stacks[name].at = NULL
    <3>1. m.stacks[name].capacity = 0
      BY <2>1, StacksOf
    <3>. QED BY <1>5, <2>1, <3>1 DEF StackKept, KeptIn, Block, Cell, NULL
  <2>2. CASE m.stacks[name].at # NULL
    <3>1. m.stacks[name].at # b.at
      BY <1>2 DEF MemoryOK, OwnersApart, b
    <3>2. /\ Block(m.stacks[name].at, m.stacks[name].capacity) \in m.heap.blocks
          /\ Block(m.stacks[name].at, m.stacks[name].capacity).at # b.at
      BY <2>2, <3>1, StacksOf DEF Block
    <3>. QED BY <1>5, <3>2 DEF StackKept, OthersKept
  <2>. QED BY <2>1, <2>2
<1>7. ASSUME HeadersHold(m), NEW k \in DOMAIN m.chunks, k < Len(m.chunks),
             NEW i \in 0 .. (CHUNK_HEADER - 1)
      PROVE  g.heap.cells[m.chunks[k].at + i] = Header
  <2> DEFINE c == m.chunks[k].at + i
             d == BlockOfChunk(m.chunks, k)
  <2>1. /\ m.chunks[k].at \in Nat /\ m.chunks[k].capacity \in Nat
        /\ d \in m.heap.blocks /\ d.at <= m.chunks[k].at
        /\ d.at + d.size = m.chunks[k].at + CHUNK_HEADER + m.chunks[k].capacity
        /\ m.chunks[k].at + CHUNK_HEADER + m.chunks[k].capacity <= HEAP
    BY ChunksOf
  <2>2. d.at \in Nat /\ d.size \in Nat
    BY <2>1, BlocksOf DEF MemoryOK
  <2>. HIDE DEF d
  <2>3. i \in Nat /\ i < CHUNK_HEADER /\ HEAP \in Nat /\ CHUNK_HEADER \in Nat
    BY Sizes
  <2>4. c \in Cell /\ d.at <= c /\ c < d.at + d.size
    <3> DEFINE at == m.chunks[k].at
               capacity == m.chunks[k].capacity
    <3>1. /\ at \in Nat /\ capacity \in Nat /\ d.at <= at
          /\ d.at + d.size = at + CHUNK_HEADER + capacity /\ at + CHUNK_HEADER + capacity <= HEAP
      BY <2>1
    <3>. HIDE DEF at, capacity
    <3>2. at + i \in Cell /\ d.at <= at + i /\ at + i < d.at + d.size
      BY <2>2, <2>3, <3>1 DEF Cell
    <3>. QED BY <3>2 DEF at
  <2>5. m.heap.cells[c] = Header
    BY <1>7 DEF HeadersHold
  <2>6. g.heap.cells[c] = m.heap.cells[c]
    <3>1. CASE k = 1
      <4>1. c < to
        BY <1>1, <1>3, <2>3, <3>1
      <4>. HIDE DEF c
      <4>. QED BY <1>5, <2>4, <4>1, <1>1 DEF IsWritten, Cell
    <3>2. CASE k # 1
      <4>1. d.at # b.at
        BY <1>2, <3>2 DEF MemoryOK, OwnersApart, b, d
      <4>. HIDE DEF c
      <4>. QED BY <1>5, <2>1, <2>4, <4>1 DEF OthersKept, KeptIn
    <3>. QED BY <3>1, <3>2
  <2>. QED BY <2>5, <2>6
<1>8. HeadersHold(m) => HeadersHold(g)
  BY <1>5, <1>7 DEF HeadersHold
<1>. QED BY <1>5, <1>6, <1>8

InStack(m, name, to, count) ==
    /\ to \in Int /\ count > 0 /\ m.stacks[name].at <= to
    /\ to + count <= m.stacks[name].at + m.stacks[name].size

\* What is written in a stack leaves the rest.
LEMMA WriteOnStack ==
    ASSUME NEW m, MemoryOK(m), NEW name \in Names, NEW to, NEW content \in Seq(Int),
           NEW count, count = Len(content), InStack(m, name, to, count),
           NEW g, g = Writing(m, to, content)
    PROVE  /\ OnlyMoves(m, g, name) /\ g.stacks = m.stacks
           /\ IsWritten(m.heap, g.heap, to, content)
<1> DEFINE s == m.stacks[name]
           b == Block(s.at, s.capacity)
<1>1. /\ s.at \in Nat /\ s.size \in Nat /\ s.capacity \in Nat /\ s.at # NULL
      /\ s.size <= s.capacity /\ b \in m.heap.blocks /\ b.at = s.at /\ b.size = s.capacity
  <2>0. s.size \in Nat /\ s.capacity \in Nat /\ s.at \in Int /\ Len(content) \in Nat
    BY StacksOf
  <2>1. /\ s.size \in Nat /\ s.at \in Int /\ Len(content) \in Nat /\ to \in Int /\ Len(content) > 0
        /\ s.at <= to /\ to + Len(content) <= s.at + s.size
    BY <2>0 DEF InStack
  <2>2. s.size > 0
    BY <2>1
  <2>3. s.at # NULL
    BY <2>2, StacksOf
  <2>. QED BY <2>1, <2>3, StacksOf DEF Block
<1>2. to \in Nat /\ b.at <= to /\ to + Len(content) <= b.at + b.size
  <2>1. /\ s.at <= to /\ to + Len(content) <= s.at + s.size /\ Len(content) \in Nat
        /\ to \in Int
    BY DEF InStack
  <2>. HIDE DEF s, b
  <2>. QED BY <1>1, <2>1
<1>. HIDE DEF b, s
<1>3. /\ MemoryOK(g) /\ g.stacks = m.stacks /\ g.chunks = m.chunks
      /\ OthersKept(m.heap, g.heap, b.at) /\ IsWritten(m.heap, g.heap, to, content)
  BY <1>1, <1>2, WriteInBlock
<1>4. OnlyMoves(m, g, name)
  BY <1>1, <1>3, StacksHaveBlocks DEF s
<1>. QED BY <1>3, <1>4

(***************************************************************************)
(* What was intended, and what the memory shows of it.                     *)
(***************************************************************************)
Intentions ==
    [ values : Seq(Int \X Int), levels : Seq(Nat), scanned : Nat, events : Nat,
      letters : Seq(Int), root : Seq(Int), blocks : SUBSET [ at : Int, content : Seq(Int) ] ]

Shows(m, at, content) == \A k \in 1 .. Len(content) : m.heap.cells[at + k - 1] = content[k]

\* The values that wait on the stack of the document.
ValuesAt(m, values) ==
    /\ m.stacks["document"].size = Len(values) * VALUE
    /\ \A k \in 1 .. Len(values) : Shows(m, m.stacks["document"].at + (k - 1) * VALUE, values[k])

Twice(x) == << x, x >>

\* What the reader returns to, and the letters of the string that it reads.
LevelsAt(m, values, levels) ==
    \A k \in 1 .. Len(levels) :
        Shows(m, m.stacks["reader"].at + 2 * (k - 1), Twice(values[levels[k]][1]))

ScannedAt(m, levels, scanned, letter) ==
    /\ m.stacks["reader"].size = 2 * Len(levels) + scanned
    /\ \A k \in 0 .. (scanned - 1) :
         m.heap.cells[m.stacks["reader"].at + (2 * Len(levels) + k)] = letter

LettersAt(m, letters) ==
    /\ m.stacks["buffer"].size = Len(letters)
    /\ Shows(m, m.stacks["buffer"].at, letters)

BlocksAt(m, blocks) ==
    \A b \in blocks :
        Placed(m, b.at, Len(b.content)) /\ Aligned(b.at) /\ Shows(m, b.at, b.content)
        /\ Len(b.content) > 0

(***************************************************************************)
(* What stays when the memory changes elsewhere.                           *)
(***************************************************************************)
\* The first cells of a stack are what they were, wherever it is.
FirstKept(m, r, name, size) ==
    \A k \in 0 .. (size - 1) :
        r.heap.cells[r.stacks[name].at + k] = m.heap.cells[m.stacks[name].at + k]

LEMMA KeptStack ==
    ASSUME NEW m, MemoryOK(m), NEW name \in Names, NEW r, StackKept(m, r, name)
    PROVE  /\ r.stacks[name] = m.stacks[name]
           /\ FirstKept(m, r, name, m.stacks[name].capacity)
           /\ FirstKept(m, r, name, m.stacks[name].size)
<1> DEFINE s == m.stacks[name]
<1>1. r.stacks[name] = s /\ KeptIn(Block(s.at, s.capacity), m.heap, r.heap)
  BY DEF StackKept
<1>2. ASSUME NEW k \in 0 .. (s.capacity - 1) PROVE r.heap.cells[s.at + k] = m.heap.cells[s.at + k]
  <2>1. s.capacity \in Nat /\ s.capacity > 0
    BY StacksOf
  <2>2. s.at # NULL
    BY <2>1, StacksOf
  <2>3. s.at \in Nat /\ s.at + s.capacity <= HEAP
    BY <2>2, StacksOf
  <2>. HIDE DEF s
  <2>4. s.at + k \in Cell /\ s.at <= s.at + k /\ s.at + k < s.at + s.capacity
    BY <2>1, <2>3, HeapSize DEF Cell
  <2>. QED BY <1>1, <2>4 DEF KeptIn, Block
<1>3. s.size \in Nat /\ s.capacity \in Nat /\ s.size <= s.capacity
  BY StacksOf
<1>. QED BY <1>1, <1>2, <1>3 DEF FirstKept

Offset(m, name, from) == m.stacks[name].at + from

Fits(from, content, size) == from \in Nat /\ Len(content) \in Nat /\ from + Len(content) <= size

LEMMA ShowsFirst ==
    ASSUME NEW m, NEW r, NEW name \in Names, NEW size \in Nat, FirstKept(m, r, name, size),
           m.stacks[name].at \in Int, r.stacks[name].at \in Int,
           NEW from, NEW content, Fits(from, content, size), Shows(m, Offset(m, name, from), content)
    PROVE  Shows(r, Offset(r, name, from), content)
<1> DEFINE a == m.stacks[name].at
           b == r.stacks[name].at
           n == Len(content)
<1>. SUFFICES ASSUME NEW k \in 1 .. n PROVE r.heap.cells[(b + from) + k - 1] = content[k]
  BY DEF Shows, Offset
<1>1. a \in Int /\ b \in Int /\ n \in Nat /\ from \in Nat /\ from + n <= size
  BY DEF Fits
<1>2. m.heap.cells[(a + from) + k - 1] = content[k]
  BY DEF Shows, Offset
<1>3. \A i \in 0 .. (size - 1) : r.heap.cells[b + i] = m.heap.cells[a + i]
  BY DEF FirstKept
<1>. HIDE DEF a, b, n
<1>4. /\ from + k - 1 \in 0 .. (size - 1)
      /\ a + (from + k - 1) = (a + from) + k - 1 /\ b + (from + k - 1) = (b + from) + k - 1
  BY <1>1
<1>5. r.heap.cells[b + (from + k - 1)] = m.heap.cells[a + (from + k - 1)]
  BY <1>3, <1>4
<1>. QED BY <1>2, <1>4, <1>5

LEMMA Pairs ==
    ASSUME NEW x \in Int \X Int
    PROVE  /\ x \in Seq(Int) /\ Len(x) = 2 /\ x[1] \in Int /\ x[2] \in Int
           /\ x = << x[1], x[2] >>
<1>1. PICK a \in Int, b \in Int : x = << a, b >>
  OBVIOUS
<1>2. << a, b >> \in Seq(Int) /\ Len(<< a, b >>) = 2 /\ << a, b >>[1] = a /\ << a, b >>[2] = b
  OBVIOUS
<1>. QED BY <1>1, <1>2

LEMMA TwiceIs ==
    ASSUME NEW x \in Int
    PROVE  /\ Twice(x) \in Seq(Int) /\ Len(Twice(x)) = 2
           /\ Twice(x)[1] = x /\ Twice(x)[2] = x
  BY DEF Twice

\* Enough of the stack is kept for the values that are on it.
FirstValuesAt(m, values, n) ==
    \A k \in 1 .. n : Shows(m, m.stacks["document"].at + (k - 1) * VALUE, values[k])

LEMMA ValuesFirst ==
    ASSUME NEW m, NEW r, NEW values \in Seq(Int \X Int),
           m.stacks["document"].at \in Int, r.stacks["document"].at \in Int,
           NEW size \in Nat, FirstKept(m, r, "document", size),
           NEW n \in Nat, n <= Len(values), n * VALUE <= size,
           FirstValuesAt(m, values, n)
    PROVE  FirstValuesAt(r, values, n)
<1>. SUFFICES ASSUME NEW k \in 1 .. n
              PROVE  Shows(r, r.stacks["document"].at + (k - 1) * VALUE, values[k])
  BY DEF FirstValuesAt
<1>1. "document" \in Names
  BY DEF Names
<1>2. k \in 1 .. Len(values) /\ Len(values) \in Nat
  OBVIOUS
<1>3. Shows(m, m.stacks["document"].at + (k - 1) * VALUE, values[k])
  BY DEF FirstValuesAt
<1>4. values[k] \in Int \X Int
  BY <1>2
<1>5. Len(values[k]) = 2
  BY <1>4, Pairs
<1> DEFINE from == (k - 1) * VALUE
           content == values[k]
<1>6. from \in Nat /\ from + 2 <= size
  BY DEF VALUE
<1>7. Shows(m, Offset(m, "document", from), content) /\ Fits(from, content, size)
  BY <1>3, <1>5, <1>6 DEF Offset, Fits
<1>. HIDE DEF from, content
<1>8. Shows(r, Offset(r, "document", from), content)
  BY <1>1, <1>7, ShowsFirst
<1>. QED BY <1>8 DEF from, content, Offset

LEMMA ValuesStay ==
    ASSUME NEW m, MemoryOK(m), NEW values \in Seq(Int \X Int), NEW r,
           StackKept(m, r, "document"), ValuesAt(m, values)
    PROVE  ValuesAt(r, values)
<1>0. "document" \in Names
  BY DEF Names
<1>1. /\ r.stacks["document"] = m.stacks["document"]
      /\ FirstKept(m, r, "document", m.stacks["document"].size)
  BY <1>0, KeptStack
<1>2. m.stacks["document"].at \in Int /\ m.stacks["document"].size \in Nat
  BY <1>0, StacksOf
<1>3. Len(values) \in Nat /\ m.stacks["document"].size = Len(values) * VALUE
  BY DEF ValuesAt
<1>4. \A k \in 1 .. Len(values) : Shows(r, r.stacks["document"].at + (k - 1) * VALUE, values[k])
  <2> DEFINE n == Len(values)
             size == m.stacks["document"].size
  <2>1. n \in Nat /\ n <= Len(values) /\ n * VALUE <= size /\ size \in Nat
    BY <1>2, <1>3 DEF VALUE
  <2>2. FirstKept(m, r, "document", size) /\ r.stacks["document"].at \in Int
    BY <1>1, <1>2
  <2>3. FirstValuesAt(m, values, n)
    BY DEF ValuesAt, FirstValuesAt
  <2>. HIDE DEF n, size
  <2>4. FirstValuesAt(r, values, n)
    BY <1>2, <2>1, <2>2, <2>3, ValuesFirst
  <2>. QED BY <2>4 DEF n, FirstValuesAt
<1>. QED BY <1>1, <1>3, <1>4 DEF ValuesAt

\* Each level began with a value that still waits.
LevelsIn(values, levels) == \A k \in 1 .. Len(levels) : levels[k] \in 1 .. Len(values)

LEMMA LevelsFirst ==
    ASSUME NEW m, NEW r, NEW values \in Seq(Int \X Int), NEW levels \in Seq(Nat),
           m.stacks["reader"].at \in Int, r.stacks["reader"].at \in Int,
           NEW size \in Nat, FirstKept(m, r, "reader", size), 2 * Len(levels) <= size,
           LevelsIn(values, levels),
           LevelsAt(m, values, levels)
    PROVE  LevelsAt(r, values, levels)
<1>. SUFFICES ASSUME NEW k \in 1 .. Len(levels)
              PROVE  Shows(r, r.stacks["reader"].at + 2 * (k - 1), Twice(values[levels[k]][1]))
  BY DEF LevelsAt
<1>1. "reader" \in Names
  BY DEF Names
<1>2. Shows(m, m.stacks["reader"].at + 2 * (k - 1), Twice(values[levels[k]][1]))
  BY DEF LevelsAt
<1>3. values[levels[k]] \in Int \X Int
  <2>1. levels[k] \in 1 .. Len(values)
    BY DEF LevelsIn
  <2>. QED BY <2>1
<1>4. values[levels[k]][1] \in Int
  BY <1>3, Pairs
<1> DEFINE content == Twice(values[levels[k]][1])
<1>5. Len(content) = 2
  BY <1>4, TwiceIs
<1>6. Len(levels) \in Nat
  OBVIOUS
<1> DEFINE from == 2 * (k - 1)
<1>7. Shows(m, Offset(m, "reader", from), content) /\ Fits(from, content, size)
  BY <1>2, <1>5, <1>6 DEF Offset, Fits
<1>. HIDE DEF content, from
<1>8. Shows(r, Offset(r, "reader", from), content)
  BY <1>1, <1>7, ShowsFirst
<1>. QED BY <1>8 DEF content, from, Offset

LEMMA ReaderStays ==
    ASSUME NEW m, MemoryOK(m), NEW values \in Seq(Int \X Int), NEW levels \in Seq(Nat), NEW r,
           StackKept(m, r, "reader"), NEW scanned \in Nat, NEW letter,
           LevelsIn(values, levels),
           LevelsAt(m, values, levels), ScannedAt(m, levels, scanned, letter)
    PROVE  LevelsAt(r, values, levels) /\ ScannedAt(r, levels, scanned, letter)
<1>0. "reader" \in Names
  BY DEF Names
<1>1. /\ r.stacks["reader"] = m.stacks["reader"]
      /\ FirstKept(m, r, "reader", m.stacks["reader"].size)
  BY <1>0, KeptStack
<1>2. m.stacks["reader"].at \in Int /\ m.stacks["reader"].size \in Nat
  BY <1>0, StacksOf
<1>3. Len(levels) \in Nat /\ m.stacks["reader"].size = 2 * Len(levels) + scanned
  BY DEF ScannedAt
<1>4. 2 * Len(levels) <= m.stacks["reader"].size
  BY <1>3
<1>5. LevelsAt(r, values, levels)
  <2> DEFINE size == m.stacks["reader"].size
  <2>1. size \in Nat /\ 2 * Len(levels) <= size /\ FirstKept(m, r, "reader", size)
        /\ r.stacks["reader"].at \in Int
    BY <1>1, <1>2, <1>4
  <2>. HIDE DEF size
  <2>. QED BY <1>2, <2>1, LevelsFirst
<1>6. ASSUME NEW k \in 0 .. (scanned - 1)
      PROVE  r.heap.cells[r.stacks["reader"].at + (2 * Len(levels) + k)] = letter
  <2>1. 2 * Len(levels) + k \in 0 .. (m.stacks["reader"].size - 1)
    BY <1>3
  <2>. QED BY <1>1, <2>1 DEF FirstKept, ScannedAt
<1>. QED BY <1>1, <1>3, <1>5, <1>6 DEF ScannedAt

\* The chunks keep what they hold.
PoolKept(m, r) ==
    /\ r.chunks = m.chunks
    /\ \A k \in DOMAIN m.chunks : KeptIn(BlockOfChunk(m.chunks, k), m.heap, r.heap)

LEMMA PoolStays ==
    ASSUME NEW m, MemoryOK(m), NEW r, PoolKept(m, r),
           NEW blocks \in SUBSET [ at : Int, content : Seq(Int) ]
    PROVE  /\ HeadersHold(m) => HeadersHold(r)
           /\ BlocksAt(m, blocks) => BlocksAt(r, blocks)
<1>1. ASSUME HeadersHold(m), NEW k \in DOMAIN m.chunks, k < Len(m.chunks),
             NEW i \in 0 .. (CHUNK_HEADER - 1)
      PROVE  r.heap.cells[m.chunks[k].at + i] = Header
  <2> DEFINE at == m.chunks[k].at
             capacity == m.chunks[k].capacity
             d == BlockOfChunk(m.chunks, k)
  <2>1. /\ at \in Nat /\ capacity \in Nat
        /\ d \in m.heap.blocks /\ d.at <= at
        /\ d.at + d.size = at + CHUNK_HEADER + capacity
        /\ at + CHUNK_HEADER + capacity <= HEAP
    BY ChunksOf
  <2>2. d.at \in Nat /\ d.size \in Nat
    BY <2>1, BlocksOf DEF MemoryOK
  <2>3. i \in Nat /\ i < CHUNK_HEADER /\ HEAP \in Nat /\ CHUNK_HEADER \in Nat
    BY Sizes
  <2>4. m.heap.cells[at + i] = Header /\ KeptIn(d, m.heap, r.heap)
    BY <1>1 DEF HeadersHold, PoolKept
  <2>. HIDE DEF at, capacity, d
  <2>5. at + i \in Cell /\ d.at <= at + i /\ at + i < d.at + d.size
    BY <2>1, <2>2, <2>3 DEF Cell
  <2>6. r.heap.cells[at + i] = Header
    BY <2>4, <2>5 DEF KeptIn
  <2>. QED BY <2>6 DEF at
<1>2. ASSUME BlocksAt(m, blocks), NEW b \in blocks, NEW k \in 1 .. Len(b.content)
      PROVE  r.heap.cells[b.at + k - 1] = b.content[k]
  <2> DEFINE n == Len(b.content)
             to == b.at
  <2>1. n \in Nat /\ to \in Int /\ k \in 1 .. n
    OBVIOUS
  <2>2. Placed(m, to, n) /\ m.heap.cells[to + k - 1] = b.content[k]
    BY <1>2 DEF BlocksAt, Shows
  <2>3. PICK j \in DOMAIN m.chunks : InChunk(m.chunks[j], to, n)
    BY <2>2 DEF Placed
  <2> DEFINE d == BlockOfChunk(m.chunks, j)
  <2>. HIDE DEF n, to
  <2>4. /\ d.at \in Nat /\ d.size \in Nat /\ m.chunks[j].at \in Nat
        /\ m.chunks[j].at + CHUNK_HEADER <= to /\ d.at <= m.chunks[j].at
        /\ to + n <= d.at + d.size /\ d.at + d.size <= HEAP
    BY <2>1, <2>3, PlacedIsInBlock
  <2>5. KeptIn(d, m.heap, r.heap)
    BY DEF PoolKept
  <2>. HIDE DEF d
  <2>6. to + k - 1 \in Cell /\ d.at <= to + k - 1 /\ to + k - 1 < d.at + d.size
    <3> DEFINE end == d.at + d.size
    <3>1. d.at \in Nat /\ end \in Nat /\ d.at <= to /\ to + n <= end /\ end <= HEAP
      <4>. DEFINE head == m.chunks[j].at
                  low == d.at
                  size == d.size
      <4>1. /\ low \in Nat /\ size \in Nat /\ head \in Nat /\ head + CHUNK_HEADER <= to /\ low <= head
            /\ to + n <= low + size /\ low + size <= HEAP
        BY <2>4
      <4>. HIDE DEF head, low, size
      <4>2. low \in Nat /\ low + size \in Nat /\ low <= to /\ to + n <= low + size /\ low + size <= HEAP
        BY <2>1, <4>1, HeaderSize, SMTT(30)
      <4>. QED BY <4>2 DEF low, size
    <3>. HIDE DEF end
    <3>2. to + k - 1 \in Cell /\ d.at <= to + k - 1 /\ to + k - 1 < end
      BY <2>1, <3>1, Spot
    <3>. QED BY <3>2 DEF end
  <2>7. r.heap.cells[to + k - 1] = b.content[k]
    BY <2>2, <2>5, <2>6 DEF KeptIn
  <2>. QED BY <2>7 DEF to
<1>3. r.chunks = m.chunks
  BY DEF PoolKept
<1>4. HeadersHold(m) => HeadersHold(r)
  BY <1>1, <1>3 DEF HeadersHold
<1>5. BlocksAt(m, blocks) => BlocksAt(r, blocks)
  <2>1. \A at, length : Placed(m, at, length) => Placed(r, at, length)
    BY <1>3 DEF Placed
  <2>. QED BY <1>2, <2>1 DEF BlocksAt, Shows
<1>. QED BY <1>4, <1>5

(***************************************************************************)
(* The stacks as they are pushed and written.                              *)
(***************************************************************************)
\* The first n of some values, and one more.
Puts(values, n, more, value) ==
    /\ more \in Seq(Int \X Int) /\ Len(more) = n + 1
    /\ \A k \in 1 .. n : more[k] = values[k]
    /\ more[n + 1] = value

LEMMA UpToNext == ASSUME NEW n \in Nat, NEW k \in 1 .. (n + 1) PROVE k \in 1 .. n \/ k = n + 1
  OBVIOUS

LEMMA CellOf ==
    ASSUME NEW a \in Nat, NEW room \in Nat, a + room <= HEAP, NEW i \in Int, 0 <= i, i < room
    PROVE  a + i \in Cell
<1>1. HEAP \in Nat
  BY Sizes
<1>. QED BY <1>1 DEF Cell

LEMMA ValuesGrow ==
    ASSUME NEW m, MemoryOK(m), NEW values \in Seq(Int \X Int), ValuesAt(m, values),
           NEW value \in Int \X Int, NEW r, Grows(m, r, "document", value),
           NEW more, Puts(values, Len(values), more, value)
    PROVE  ValuesAt(r, more)
<1>1. "document" \in Names /\ MemoryOK(r)
  BY DEF Names, Grows, OnlyMoves
<1> DEFINE n == Len(values)
           s == m.stacks["document"]
           grown == r.stacks["document"]
<1>2. s.at \in Int /\ grown.at \in Int /\ n \in Nat /\ s.size = n * VALUE /\ s.size \in Nat
  BY <1>1, StacksOf DEF ValuesAt
<1>3. /\ grown.size = s.size + 2 /\ FirstKept(m, r, "document", s.size)
      /\ \A k \in 1 .. 2 : r.heap.cells[grown.at + s.size + (k - 1)] = value[k]
  BY Pairs DEF Grows, FirstKept
<1>4. more \in Seq(Int \X Int) /\ Len(more) = n + 1 /\ more[n + 1] = value
      /\ \A k \in 1 .. n : more[k] = values[k]
  BY DEF Puts
<1>5. ASSUME NEW k \in 1 .. n PROVE Shows(r, grown.at + (k - 1) * VALUE, more[k])
  <2>1. n \in Nat /\ n <= Len(values) /\ n * VALUE <= s.size /\ s.size \in Nat
    BY <1>2 DEF VALUE
  <2>2. m.stacks["document"].at \in Int /\ r.stacks["document"].at \in Int
    BY <1>2
  <2>3. FirstValuesAt(m, values, n)
    BY DEF ValuesAt, FirstValuesAt
  <2>. HIDE DEF n, s
  <2>4. FirstValuesAt(r, values, n)
    BY <1>3, <2>1, <2>2, <2>3, ValuesFirst
  <2>. QED BY <1>4, <2>4 DEF FirstValuesAt, grown
<1>6. ASSUME NEW k \in Int, k = n + 1 PROVE Shows(r, grown.at + (k - 1) * VALUE, more[k])
  <2>. SUFFICES ASSUME NEW i \in 1 .. 2 PROVE r.heap.cells[grown.at + (k - 1) * VALUE + i - 1] = value[i]
    BY <1>4, <1>6, Pairs DEF Shows
  <2>. HIDE DEF n, s, grown
  <2>1. grown.at + (k - 1) * VALUE + i - 1 = grown.at + s.size + (i - 1)
    BY <1>2, <1>6 DEF VALUE
  <2>. QED BY <1>3, <2>1
<1>7. grown.size = (n + 1) * VALUE
  BY <1>2, <1>3 DEF VALUE
<1>. HIDE DEF n, s, grown
<1>8. \A k \in 1 .. (n + 1) : Shows(r, grown.at + (k - 1) * VALUE, more[k])
  <2>. SUFFICES ASSUME NEW k \in 1 .. (n + 1) PROVE Shows(r, grown.at + (k - 1) * VALUE, more[k])
    OBVIOUS
  <2>1. k \in 1 .. n \/ k = n + 1
    BY <1>2, UpToNext
  <2>2. CASE k \in 1 .. n
    BY <1>5, <2>2
  <2>3. CASE k = n + 1
    BY <1>2, <1>6, <2>3
  <2>. QED BY <2>1, <2>2, <2>3
<1>9. grown.size = Len(more) * VALUE /\ Len(more) = n + 1
  BY <1>4, <1>7
<1>. QED BY <1>8, <1>9 DEF ValuesAt, grown

\* A value is written over the one at the top.
LEMMA ValueWritten ==
    ASSUME NEW m, MemoryOK(m), NEW values \in Seq(Int \X Int), NEW n \in Nat, n <= Len(values),
           m.stacks["document"].size = (n + 1) * VALUE,
           FirstValuesAt(m, values, n),
           NEW value \in Int \X Int, NEW to, to = m.stacks["document"].at + n * VALUE,
           NEW r, r = Writing(m, to, value), NEW more, Puts(values, n, more, value)
    PROVE  OnlyMoves(m, r, "document") /\ ValuesAt(r, more)
<1>1. "document" \in Names
  BY DEF Names
<1> DEFINE s == m.stacks["document"]
<1>2. s.at \in Int /\ s.size \in Nat /\ s.capacity \in Nat /\ s.size <= s.capacity
  BY <1>1, StacksOf
<1>3. s.size > 0 /\ s.size = 2 * n + 2 /\ to = s.at + 2 * n
  BY DEF VALUE
<1>4. s.at \in Nat /\ s.at + s.capacity <= HEAP
  <2>1. s.at # NULL
    BY <1>1, <1>2, <1>3, StacksOf
  <2>. QED BY <1>1, <2>1, StacksOf
<1>5. OnlyMoves(m, r, "document") /\ r.stacks = m.stacks /\ IsWritten(m.heap, r.heap, to, value)
  <2>1. value \in Seq(Int) /\ Len(value) = 2
    BY Pairs
  <2>. HIDE DEF s
  <2>2. to \in Int /\ s.at <= to /\ to + Len(value) <= s.at + s.size /\ Len(value) > 0
    BY <1>2, <1>3, <2>1
  <2>3. InStack(m, "document", to, Len(value))
    BY <2>2 DEF s, InStack
  <2> DEFINE count == Len(value)
  <2>4. InStack(m, "document", to, count) /\ count = Len(value) /\ value \in Seq(Int)
    BY <2>1, <2>3
  <2>. HIDE DEF count
  <2>. QED BY <1>1, <2>4, WriteOnStack
<1>6. more \in Seq(Int \X Int) /\ Len(more) = n + 1 /\ more[n + 1] = value
      /\ \A k \in 1 .. n : more[k] = values[k]
  BY DEF Puts
<1>7. Len(value) = 2
  BY Pairs
<1>8. \A c \in Cell : r.heap.cells[c] = IF to <= c /\ c < to + 2 THEN value[c - to + 1] ELSE m.heap.cells[c]
  BY <1>5, <1>7 DEF IsWritten
<1>9. ASSUME NEW k \in 1 .. n PROVE Shows(r, s.at + (k - 1) * VALUE, more[k])
  <2>1. more[k] = values[k] /\ Shows(m, s.at + (k - 1) * VALUE, values[k])
    BY <1>6 DEF FirstValuesAt
  <2>2. Len(values[k]) = 2
    BY Pairs, SMTT(30)
  <2>3. ASSUME NEW i \in 1 .. 2
        PROVE  r.heap.cells[s.at + (k - 1) * VALUE + i - 1] = values[k][i]
    <3> DEFINE c == s.at + (k - 1) * VALUE + i - 1
    <3>1. m.heap.cells[c] = values[k][i]
      BY <2>1, <2>2 DEF Shows
    <3>2. c \in Cell /\ c < to
      <4> DEFINE j == (k - 1) * VALUE + i - 1
                 a == s.at
      <4>1. j \in Int /\ 0 <= j /\ j < 2 * n
        BY DEF VALUE
      <4>2. c = s.at + j
        <5>1. a \in Int
          BY <1>2
        <5>. HIDE DEF a
        <5>2. a + (k - 1) * VALUE + i - 1 = a + ((k - 1) * VALUE + i - 1)
          BY <5>1 DEF VALUE
        <5>. QED BY <5>2 DEF a
      <4>. HIDE DEF c, s, j
      <4>3. j < s.capacity
        <5> DEFINE size == s.size
                   capacity == s.capacity
        <5>1. size = 2 * n + 2 /\ size <= capacity /\ capacity \in Nat
          BY <1>2, <1>3
        <5>. HIDE DEF size, capacity
        <5>2. j < capacity
          BY <4>1, <5>1
        <5>. QED BY <5>2 DEF capacity
      <4>4. c \in Cell
        BY <1>2, <1>4, <4>1, <4>2, <4>3, CellOf
      <4>5. c < to
        BY <1>2, <1>3, <4>1, <4>2, SMTT(30)
      <4>. QED BY <4>4, <4>5
    <3>. HIDE DEF c
    <3>3. r.heap.cells[c] = m.heap.cells[c]
      BY <1>8, <3>2, <1>2, <1>3 DEF Cell
    <3>. QED BY <3>1, <3>3 DEF c
  <2>. QED BY <2>1, <2>2, <2>3 DEF Shows
<1>10. Shows(r, s.at + (n + 1 - 1) * VALUE, more[n + 1])
  <2>. SUFFICES ASSUME NEW i \in 1 .. 2 PROVE r.heap.cells[s.at + (n + 1 - 1) * VALUE + i - 1] = value[i]
    BY <1>6, <1>7 DEF Shows
  <2> DEFINE c == s.at + (n + 1 - 1) * VALUE + i - 1
  <2>1. c \in Cell /\ to <= c /\ c < to + 2 /\ c - to + 1 = i
    <3> DEFINE j == 2 * n + i - 1
    <3>1. j \in Int /\ 0 <= j /\ j < 2 * n + 2
      OBVIOUS
    <3>2. c = s.at + j
      BY <1>2 DEF VALUE
    <3>3. j < s.capacity
      <4>. HIDE DEF s, j
      <4>. QED BY <1>2, <1>3, <3>1
    <3>4. c \in Cell
      <4>. HIDE DEF s, j, c
      <4>. QED BY <1>2, <1>4, <3>1, <3>2, <3>3, CellOf
    <3>5. to <= c /\ c < to + 2 /\ c - to + 1 = i
      <4>. HIDE DEF s, c
      <4>. QED BY <1>2, <1>3, <3>2, SMTT(30)
    <3>. QED BY <3>4, <3>5
  <2>. HIDE DEF c
  <2>2. r.heap.cells[c] = value[i]
    BY <1>8, <2>1
  <2>. QED BY <2>2 DEF c
<1>11. \A k \in 1 .. (n + 1) : Shows(r, s.at + (k - 1) * VALUE, more[k])
  <2>. HIDE DEF s
  <2>. SUFFICES ASSUME NEW k \in 1 .. (n + 1) PROVE Shows(r, s.at + (k - 1) * VALUE, more[k])
    OBVIOUS
  <2>1. k \in 1 .. n \/ k = n + 1
    BY UpToNext
  <2>2. CASE k \in 1 .. n
    BY <1>9, <2>2
  <2>3. CASE k = n + 1
    BY <1>10, <2>3
  <2>. QED BY <2>1, <2>2, <2>3
<1>. QED BY <1>5, <1>6, <1>11 DEF ValuesAt

LEMMA OneGrows ==
    ASSUME NEW m, MemoryOK(m), NEW name \in Names, NEW n, n = m.stacks[name].size,
           NEW x \in Int, NEW r, Grows(m, r, name, << x >>)
    PROVE  /\ MemoryOK(r) /\ r.stacks[name].at \in Nat
           /\ r.stacks[name].size = n + 1
           /\ FirstKept(m, r, name, n)
           /\ r.heap.cells[r.stacks[name].at + n] = x
<1>1. MemoryOK(r) /\ r.stacks[name].at # NULL
  BY DEF Grows, OnlyMoves
<1>2. r.stacks[name].at \in Nat
  BY <1>1, StacksOf
<1>3. Len(<< x >>) = 1 /\ << x >>[1] = x
  OBVIOUS
<1>4. /\ r.stacks[name].size = m.stacks[name].size + 1
      /\ r.heap.cells[r.stacks[name].at + m.stacks[name].size + (1 - 1)] = x
  BY <1>3 DEF Grows
<1> DEFINE a == r.stacks[name].at
<1>5. a + n + (1 - 1) = a + n
  <2>1. a \in Nat /\ n \in Nat
    BY <1>2, StacksOf
  <2>. HIDE DEF a
  <2>. QED BY <2>1
<1>. QED BY <1>1, <1>2, <1>4, <1>5 DEF Grows, FirstKept

LEMMA FirstKeptTwice ==
    ASSUME NEW m, NEW g, NEW r, NEW name, NEW size \in Nat, NEW more \in Nat, size <= more,
           FirstKept(m, g, name, size), FirstKept(g, r, name, more)
    PROVE  FirstKept(m, r, name, size)
<1>. SUFFICES ASSUME NEW k \in 0 .. (size - 1)
              PROVE  r.heap.cells[r.stacks[name].at + k] = m.heap.cells[m.stacks[name].at + k]
  BY DEF FirstKept
<1>1. k \in 0 .. (more - 1)
  OBVIOUS
<1>. QED BY <1>1 DEF FirstKept

LEMMA LetterGrows ==
    ASSUME NEW m, MemoryOK(m), NEW values \in Seq(Int \X Int), NEW levels \in Seq(Nat),
           LevelsIn(values, levels),
           NEW scanned \in Nat, NEW letter \in Int,
           LevelsAt(m, values, levels), ScannedAt(m, levels, scanned, letter),
           NEW r, Grows(m, r, "reader", << letter >>)
    PROVE  LevelsAt(r, values, levels) /\ ScannedAt(r, levels, scanned + 1, letter)
<1> DEFINE n == 2 * Len(levels)
           size == m.stacks["reader"].size
<1>1. "reader" \in Names
  BY DEF Names
<1>2. /\ MemoryOK(r) /\ r.stacks["reader"].at \in Nat
      /\ r.stacks["reader"].size = size + 1
      /\ FirstKept(m, r, "reader", size)
      /\ r.heap.cells[r.stacks["reader"].at + size] = letter
  BY <1>1, OneGrows, SMTT(30)
<1>3. n \in Nat /\ size = n + scanned /\ size \in Nat /\ n <= size /\ m.stacks["reader"].at \in Int
  BY <1>1, StacksOf DEF ScannedAt
<1>4. LevelsAt(r, values, levels)
  <2>1. r.stacks["reader"].at \in Int
    BY <1>2
  <2>2. 2 * Len(levels) <= size
    BY <1>3
  <2>. HIDE DEF size
  <2>. QED BY <1>2, <1>3, <2>1, <2>2, LevelsFirst
<1>5. ASSUME NEW k \in 0 .. scanned
      PROVE  r.heap.cells[r.stacks["reader"].at + (n + k)] = letter
  <2>1. CASE k = scanned
    BY <1>2, <1>3, <2>1
  <2>2. CASE k # scanned
    <3>1. k \in 0 .. (scanned - 1)
      BY <2>2
    <3>2. m.heap.cells[m.stacks["reader"].at + (n + k)] = letter
      BY <3>1 DEF ScannedAt
    <3>3. n + k \in 0 .. (size - 1)
      <4>. HIDE DEF n, size
      <4>. QED BY <1>3, <3>1
    <3>. HIDE DEF n, size
    <3>. QED BY <1>2, <3>2, <3>3 DEF FirstKept
  <2>. QED BY <2>1, <2>2
<1>6. r.stacks["reader"].size = n + (scanned + 1) /\ (scanned + 1) - 1 = scanned
  <2>. HIDE DEF n, size
  <2>. QED BY <1>2, <1>3
<1>. QED BY <1>4, <1>5, <1>6 DEF ScannedAt

\* One level is added, and what is to be read of the others is not changed.
LevelPuts(values, levels, l, more, further, x) ==
    /\ \A k \in 1 .. l : more[further[k]] = values[levels[k]]
    /\ Len(further) = l + 1 /\ more[further[l + 1]][1] = x

\* The reader keeps two cells for a list or an object.
LEMMA LevelGrows ==
    ASSUME NEW m, MemoryOK(m), NEW values \in Seq(Int \X Int), NEW levels \in Seq(Nat),
           LevelsIn(values, levels),
           NEW x \in Int, LevelsAt(m, values, levels),
           NEW l, l = Len(levels), NEW letter, ScannedAt(m, levels, 0, letter),
           NEW g, Grows(m, g, "reader", << x >>), NEW r, Grows(g, r, "reader", << x >>),
           NEW more, NEW further, LevelPuts(values, levels, l, more, further, x)
    PROVE  LevelsAt(r, more, further) /\ r.stacks["reader"].size = 2 * Len(further)
<1> DEFINE n == m.stacks["reader"].size
<1>1. "reader" \in Names /\ l \in Nat
  BY DEF Names
<1>b. n = 2 * l /\ n \in Nat
  BY <1>1, StacksOf DEF ScannedAt
<1>2. /\ MemoryOK(g) /\ g.stacks["reader"].at \in Nat
      /\ g.stacks["reader"].size = n + 1
      /\ FirstKept(m, g, "reader", n)
      /\ g.heap.cells[g.stacks["reader"].at + n] = x
  BY <1>1, OneGrows
<1> DEFINE next == g.stacks["reader"].size
<1>a. next \in Nat /\ n <= next /\ next = n + 1
  BY <1>2, <1>b
<1>3. /\ MemoryOK(r) /\ r.stacks["reader"].at \in Nat
      /\ r.stacks["reader"].size = next + 1
      /\ FirstKept(g, r, "reader", next)
      /\ r.heap.cells[r.stacks["reader"].at + next] = x
  BY <1>1, <1>2, <1>a, OneGrows
<1>. HIDE DEF n, next
<1>4. r.heap.cells[r.stacks["reader"].at + n] = x
  <2>1. n \in 0 .. (next - 1)
    BY <1>a, <1>b
  <2>. QED BY <1>2, <1>3, <2>1 DEF FirstKept
<1>5. FirstKept(m, r, "reader", n)
  BY <1>2, <1>3, <1>a, <1>b, FirstKeptTwice
<1>6. LevelsAt(r, values, levels)
  <2>1. m.stacks["reader"].at \in Int /\ r.stacks["reader"].at \in Int
    BY <1>1, <1>3, StacksOf
  <2>2. 2 * Len(levels) <= n
    BY <1>1, <1>b
  <2>. QED BY <1>b, <1>5, <2>1, <2>2, LevelsFirst
<1>7. ASSUME NEW k \in 1 .. l
      PROVE  Shows(r, r.stacks["reader"].at + 2 * (k - 1), Twice(more[further[k]][1]))
  BY <1>6 DEF LevelsAt, LevelPuts
<1>8. ASSUME NEW k \in Int, k = l + 1
      PROVE  Shows(r, r.stacks["reader"].at + 2 * (k - 1), Twice(more[further[k]][1]))
  <2> DEFINE a == r.stacks["reader"].at
             kind == more[further[k]][1]
  <2>1. kind = x
    BY <1>8 DEF LevelPuts
  <2>2. a \in Nat
    BY <1>3
  <2>3. r.heap.cells[a + n] = x /\ r.heap.cells[a + next] = x
    BY <1>3, <1>4
  <2>. HIDE DEF a, kind
  <2>4. /\ (a + 2 * (k - 1)) + 1 - 1 = a + n
        /\ (a + 2 * (k - 1)) + 2 - 1 = a + next
    BY <1>1, <1>8, <1>a, <1>b, <2>2
  <2>5. Shows(r, a + 2 * (k - 1), Twice(x))
    <3>1. SUFFICES ASSUME NEW i \in 1 .. 2
                   PROVE  r.heap.cells[(a + 2 * (k - 1)) + i - 1] = Twice(x)[i]
      BY TwiceIs DEF Shows
    <3>2. i = 1 \/ i = 2
      OBVIOUS
    <3>. QED BY <2>3, <2>4, <3>2, TwiceIs
  <2>. QED BY <2>1, <2>5 DEF a, kind
<1>9. r.stacks["reader"].size = 2 * Len(further)
  BY <1>1, <1>3, <1>a, <1>b DEF LevelPuts
<1>10. ASSUME NEW k \in 1 .. (l + 1)
       PROVE  Shows(r, r.stacks["reader"].at + 2 * (k - 1), Twice(more[further[k]][1]))
  <2>1. k \in 1 .. l \/ k = l + 1
    BY <1>1, UpToNext
  <2>. QED BY <1>7, <1>8, <2>1
<1>. QED BY <1>9, <1>10 DEF LevelsAt, LevelPuts

\* A text was written where the pool had room for it.
WrittenInPool(m, g, to, content) ==
    /\ MemoryOK(g) /\ g.stacks = m.stacks /\ g.chunks = m.chunks
    /\ \A name \in Names : StackKept(m, g, name)
    /\ IsWritten(m.heap, g.heap, to, content)
    /\ HeadersHold(m) => HeadersHold(g)

HasLength(content, n) == content \in Seq(Int) /\ Len(content) = n

\* Written in two parts, one after the other.
LEMMA WrittenTwice ==
    ASSUME NEW h, NEW g, NEW r, NEW at \in Nat, NEW content \in Seq(Int), NEW n \in Nat,
           n = Len(content), NEW x \in Int,
           IsWritten(h, g, at, content), IsWritten(g, r, at + n, << x >>)
    PROVE  IsWritten(h, r, at, Append(content, x))
<1> DEFINE piece == Append(content, x)
<1>1. /\ Len(piece) = n + 1 /\ piece[n + 1] = x
      /\ \A k \in 1 .. n : piece[k] = content[k]
  OBVIOUS
<1>2. Len(<< x >>) = 1 /\ << x >>[1] = x
  OBVIOUS
<1>3. ASSUME NEW c \in Cell
      PROVE  r.cells[c] = IF at <= c /\ c < at + Len(piece) THEN piece[c - at + 1] ELSE h.cells[c]
  <2>1. c \in Int
    BY HeapSize DEF Cell
  <2>. HIDE DEF piece
  <2>2. CASE c = at + n
    <3>1. r.cells[c] = << x >>[c - (at + n) + 1]
      BY <1>2, <2>1, <2>2 DEF IsWritten
    <3>2. c - (at + n) + 1 = 1 /\ c - at + 1 = n + 1 /\ at <= c /\ c < at + Len(piece)
      BY <1>1, <2>1, <2>2
    <3>. QED BY <1>1, <1>2, <3>1, <3>2
  <2>3. CASE c # at + n
    <3>1. ~ (at + n <= c /\ c < (at + n) + Len(<< x >>))
      BY <1>2, <2>1, <2>3
    <3>2. r.cells[c] = g.cells[c]
      BY <3>1 DEF IsWritten
    <3>3. g.cells[c] = IF at <= c /\ c < at + n THEN content[c - at + 1] ELSE h.cells[c]
      BY DEF IsWritten
    <3>4. (at <= c /\ c < at + Len(piece)) <=> (at <= c /\ c < at + n)
      BY <1>1, <2>1, <2>3
    <3>5. at <= c /\ c < at + n => c - at + 1 \in 1 .. n
      BY <2>1
    <3>. QED BY <1>1, <3>2, <3>3, <3>4, <3>5
  <2>. QED BY <2>2, <2>3
<1>. HIDE DEF piece
<1>4. IsWritten(h, r, at, piece)
  BY <1>3 DEF IsWritten
<1>. QED BY <1>4 DEF piece

LEMMA RoomForBoth ==
    ASSUME NEW m, NEW to, NEW n \in Nat, HasRoom(m, to, n + 1), MemoryOK(m)
    PROVE  to \in Nat /\ to + n \in Nat /\ HasRoom(m, to, n) /\ HasRoom(m, to + n, 1)
<1>1. to \in Nat /\ m.chunks # << >> /\ InChunk(m.chunks[1], to, n + 1)
  BY DEF HasRoom
<1> DEFINE a == Buffer(m.chunks[1])
           b == m.chunks[1].size
<1>2. 1 \in DOMAIN m.chunks
  BY <1>1 DEF MemoryOK, Memories
<1>3. a \in Nat /\ b \in Nat
  BY <1>2, ChunksOf, HeapSize, HeaderSize DEF Buffer
<1>4. a <= to /\ to + (n + 1) <= a + b
  BY <1>1 DEF InChunk
<1>. HIDE DEF a, b
<1>5. a <= to /\ to + n <= a + b /\ a <= to + n /\ to + n + 1 <= a + b /\ to + n \in Nat
  BY <1>1, <1>3, <1>4
<1>. QED BY <1>1, <1>5 DEF a, b, HasRoom, InChunk

LEMMA StacksKeptTwice ==
    ASSUME NEW m, NEW g, NEW r, NEW name, StackKept(m, g, name), StackKept(g, r, name)
    PROVE  StackKept(m, r, name)
  BY DEF StackKept, KeptIn, Block

LEMMA TextIsWritten ==
    ASSUME NEW m, MemoryOK(m), NEW to, NEW content \in Seq(Int), NEW n \in Nat, n = Len(content),
           HasRoom(m, to, n), NEW g, g = Writing(m, to, content)
    PROVE  WrittenInPool(m, g, to, content)
  BY WriteInPool DEF WrittenInPool

\* The letters of a string, and what ends them.
LEMMA StringIsWritten ==
    ASSUME NEW m, MemoryOK(m), NEW to, NEW content \in Seq(Int), NEW n \in Nat, n = Len(content),
           HasRoom(m, to, n + 1), NEW g, g = Writing(m, to, content),
           NEW x \in Int, NEW r, r = Writing(g, to + n, << x >>)
    PROVE  WrittenInPool(m, r, to, Append(content, x))
<1>1. to \in Nat /\ to + n \in Nat /\ HasRoom(m, to, n) /\ HasRoom(m, to + n, 1)
  BY RoomForBoth
<1>2. WrittenInPool(m, g, to, content)
  BY <1>1, TextIsWritten
<1>3. HasRoom(g, to + n, 1) /\ MemoryOK(g)
  BY <1>1, <1>2 DEF WrittenInPool, HasRoom
<1> DEFINE last == << x >>
<1>4. last \in Seq(Int) /\ Len(last) = 1
  OBVIOUS
<1>. HIDE DEF last
<1>5. WrittenInPool(g, r, to + n, last)
  <2>1. r = Writing(g, to + n, last)
    BY DEF last
  <2>. QED BY <1>1, <1>3, <1>4, <2>1, TextIsWritten
<1>6. IsWritten(m.heap, r.heap, to, Append(content, x))
  <2>1. IsWritten(m.heap, g.heap, to, content) /\ IsWritten(g.heap, r.heap, to + n, << x >>)
    BY <1>2, <1>5 DEF WrittenInPool, last
  <2>. QED BY <1>1, <2>1, WrittenTwice
<1>7. \A name \in Names : StackKept(m, r, name)
  BY <1>2, <1>5, StacksKeptTwice DEF WrittenInPool
<1>. QED BY <1>2, <1>5, <1>6, <1>7 DEF WrittenInPool

LEMMA PoolLeavesStacks ==
    ASSUME NEW m, MemoryOK(m), NEW r, r.stacks = m.stacks, AllKept(m, r), NEW name \in Names
    PROVE  StackKept(m, r, name)
<1>1. CASE m.stacks[name].at # NULL
  BY <1>1, StacksOf DEF AllKept, StackKept
<1>2. CASE m.stacks[name].at = NULL
  <2>1. m.stacks[name].capacity = 0
    BY <1>2, StacksOf
  <2>2. Block(NULL, 0).at = NULL /\ Block(NULL, 0).size = 0
    BY DEF Block
  <2>3. \A c \in Cell : ~ (NULL <= c /\ c < NULL + 0)
    BY HeapSize DEF Cell, NULL
  <2>. QED BY <1>2, <2>1, <2>2, <2>3 DEF StackKept, KeptIn
<1>. QED BY <1>1, <1>2

\* What a text that is written leaves of what a block of the pool holds.
LEMMA OtherBlockStays ==
    ASSUME NEW m, MemoryOK(m), NEW p, NEW to, NEW n \in Nat \ {0}, PoolGives(m, p, to, n),
           NEW content \in Seq(Int), n = Len(content), NEW g, WrittenInPool(p, g, to, content),
           NEW at \in Int, NEW piece \in Seq(Int), Placed(m, at, Len(piece)), Shows(m, at, piece)
    PROVE  Placed(g, at, Len(piece)) /\ Shows(g, at, piece)
<1> DEFINE length == Len(piece)
<1>1. length \in Nat /\ to \in Nat
  BY DEF PoolGives, HasRoom
<1>2. Placed(p, at, length) /\ (at + length <= to \/ to + n <= at)
  BY <1>1 DEF PoolGives
<1>3. Placed(g, at, length)
  BY <1>2 DEF Placed, WrittenInPool
<1>4. ASSUME NEW k \in 1 .. length PROVE g.heap.cells[at + k - 1] = piece[k]
  <2>1. PICK j \in DOMAIN m.chunks : InChunk(m.chunks[j], at, length)
    BY DEF Placed
  <2> DEFINE b == BlockOfChunk(m.chunks, j)
             c == at + k - 1
  <2>2. /\ b \in m.heap.blocks /\ b.at \in Nat /\ b.size \in Nat
        /\ m.chunks[j].at \in Nat /\ m.chunks[j].at + CHUNK_HEADER <= at
        /\ b.at <= m.chunks[j].at
        /\ at + length <= b.at + b.size /\ b.at + b.size <= HEAP
    BY <1>1, <2>1, PlacedIsInBlock
  <2>3. HEAP \in Nat /\ CHUNK_HEADER \in Nat
    BY Sizes
  <2>. HIDE DEF length, b, c
  <2>4. k \in Nat /\ 1 <= k /\ k <= length
    BY <1>1, <1>4
  <2>5. b.at <= at + k - 1 /\ at + k - 1 < b.at + b.size /\ at + k - 1 \in Cell
    <3> DEFINE end == b.at + b.size
    <3>1. b.at \in Nat /\ end \in Nat /\ b.at <= at /\ at + length <= end /\ end <= HEAP
      <4>. DEFINE head == m.chunks[j].at
                  low == b.at
                  size == b.size
      <4>1. /\ low \in Nat /\ size \in Nat /\ head \in Nat /\ head + CHUNK_HEADER <= at /\ low <= head
            /\ at + length <= low + size /\ low + size <= HEAP
        BY <2>2
      <4>. HIDE DEF head, low, size
      <4>2. low \in Nat /\ low + size \in Nat /\ low <= at /\ at + length <= low + size /\ low + size <= HEAP
        BY <1>1, <2>3, <4>1, SMTT(30)
      <4>. QED BY <4>2 DEF low, size
    <3>2. k \in 1 .. length
      BY <1>4 DEF length
    <3>. HIDE DEF end
    <3>3. at + k - 1 \in Cell /\ b.at <= at + k - 1 /\ at + k - 1 < end
      BY <1>1, <3>1, <3>2, Spot
    <3>. QED BY <3>3 DEF end
  <2>6. ~ (to <= at + k - 1 /\ at + k - 1 < to + n)
    BY <1>1, <1>2, <2>4
  <2>7. g.heap.cells[at + k - 1] = p.heap.cells[at + k - 1]
    BY <2>5, <2>6 DEF WrittenInPool, IsWritten
  <2>8. p.heap.cells[at + k - 1] = m.heap.cells[at + k - 1]
    <3>1. KeptIn(b, m.heap, p.heap)
      BY <2>2 DEF PoolGives, AllKept
    <3>. QED BY <2>5, <3>1 DEF KeptIn
  <2>9. m.heap.cells[at + k - 1] = piece[k]
    BY <1>4 DEF Shows, length
  <2>. QED BY <2>7, <2>8, <2>9
<1>. QED BY <1>3, <1>4 DEF Shows

PoolBlocks == SUBSET [ at : Int, content : Seq(Int) ]

\* The pool of a memory was given some blocks, the stacks are as they were.
PoolFilled(m, g, more) ==
    /\ MemoryOK(g) /\ g.chunks # << >> /\ g.stacks = m.stacks
    /\ \A name \in Names : StackKept(m, g, name)
    /\ HeadersHold(m) => HeadersHold(g)
    /\ BlocksAt(g, more)

NewBlock(at, content) == IF at = NULL THEN {} ELSE { [ at |-> at, content |-> content ] }

\* A block of the pool is handed out and filled.
LEMMA PoolTextWritten ==
    ASSUME NEW m, MemoryOK(m), NEW p, NEW to, NEW n \in Nat \ {0}, PoolGives(m, p, to, n),
           NEW content, HasLength(content, n), NEW g, WrittenInPool(p, g, to, content),
           NEW blocks \in PoolBlocks, BlocksAt(m, blocks)
    PROVE  to \in Nat /\ PoolFilled(m, g, blocks \union NewBlock(to, content))
<1>. content \in Seq(Int) /\ n = Len(content)
  BY DEF HasLength
<1>1. /\ MemoryOK(g) /\ g.chunks # << >> /\ to \in Nat /\ g.stacks = m.stacks
      /\ HeadersHold(m) => HeadersHold(g)
  BY DEF WrittenInPool, PoolGives, HasRoom
<1>2. \A name \in Names : StackKept(m, g, name)
  <2>1. \A name \in Names : StackKept(m, p, name)
    BY PoolLeavesStacks DEF PoolGives
  <2>2. \A name \in Names : StackKept(p, g, name)
    BY DEF WrittenInPool
  <2>. QED BY <2>1, <2>2, StacksKeptTwice
<1>3. ASSUME NEW b \in blocks
      PROVE  /\ Placed(g, b.at, Len(b.content)) /\ Aligned(b.at) /\ Shows(g, b.at, b.content)
             /\ Len(b.content) > 0
  <2>1. b.at \in Int /\ b.content \in Seq(Int)
    BY DEF PoolBlocks
  <2>2. /\ Placed(m, b.at, Len(b.content)) /\ Aligned(b.at) /\ Shows(m, b.at, b.content)
        /\ Len(b.content) > 0
    BY DEF BlocksAt
  <2>. QED BY <2>1, <2>2, OtherBlockStays
<1>4. Placed(g, to, n)
  <2>1. HasRoom(g, to, n)
    BY DEF PoolGives, WrittenInPool, HasRoom
  <2>2. 1 \in DOMAIN g.chunks
    BY <1>1 DEF MemoryOK, Memories
  <2>. QED BY <2>1, <2>2 DEF HasRoom, Placed
<1>5. Shows(g, to, content)
  <2>. SUFFICES ASSUME NEW k \in 1 .. n PROVE g.heap.cells[to + k - 1] = content[k]
    BY DEF Shows
  <2>1. PICK j \in DOMAIN g.chunks : InChunk(g.chunks[j], to, n)
    BY <1>4 DEF Placed
  <2> DEFINE b == BlockOfChunk(g.chunks, j)
  <2>2. to \in Int /\ n \in Int
    BY <1>1
  <2>5. to + n <= b.at + b.size /\ b.at + b.size <= HEAP /\ b.at \in Nat /\ b.size \in Nat
    BY <1>1, <2>1, <2>2, PlacedIsInBlock
  <2>. HIDE DEF b
  <2>3. HEAP \in Nat
    BY Sizes
  <2>4. to + k - 1 \in Cell /\ to <= to + k - 1 /\ to + k - 1 < to + n /\ (to + k - 1) - to + 1 = k
    BY <1>1, <2>5, <2>3 DEF Cell
  <2>. QED BY <2>4 DEF WrittenInPool, IsWritten
<1>6. Aligned(to)
  BY DEF PoolGives
<1> DEFINE new == [ at |-> to, content |-> content ]
<1>7. new.at = to /\ new.content = content
  OBVIOUS
<1>. HIDE DEF new
<1>8. BlocksAt(g, blocks \union {new})
  BY <1>3, <1>4, <1>5, <1>6, <1>7 DEF BlocksAt
<1>9. NewBlock(to, content) = {new}
  BY <1>1 DEF new, NewBlock, NULL
<1>. QED BY <1>1, <1>2, <1>8, <1>9 DEF PoolFilled

\* What is read of a stack from where the stack was.
LEMMA StackIsRead ==
    ASSUME NEW m, MemoryOK(m), NEW name \in Names, NEW r, StackKept(m, r, name),
           NEW o, NEW content, NEW n, HasLength(content, n),
           Fits(o, content, m.stacks[name].capacity), Shows(m, Offset(m, name, o), content)
    PROVE  Content(r.heap, Offset(m, name, o), n) = content
<1>1. r.stacks[name] = m.stacks[name] /\ FirstKept(m, r, name, m.stacks[name].capacity)
  BY KeptStack
<1>2. m.stacks[name].at \in Int /\ r.stacks[name].at \in Int /\ m.stacks[name].capacity \in Nat
  BY <1>1, StacksOf
<1> DEFINE capacity == m.stacks[name].capacity
<1>3. capacity \in Nat /\ FirstKept(m, r, name, capacity) /\ Fits(o, content, capacity)
  BY <1>1, <1>2
<1>. HIDE DEF capacity
<1>4. Shows(r, Offset(r, name, o), content)
  BY <1>2, <1>3, ShowsFirst
<1>5. Offset(r, name, o) = Offset(m, name, o)
  BY <1>1 DEF Offset
<1> DEFINE a == Offset(m, name, o)
<1>6. Shows(r, a, content)
  BY <1>4, <1>5
<1>. HIDE DEF a
<1>7. Content(r.heap, a, n) = content
  BY <1>6 DEF Shows, Content, HasLength
<1>. QED BY <1>7 DEF a

LEMMA WritingTwice ==
    ASSUME NEW m \in Memories, NEW a, NEW s, NEW b, NEW grown
    PROVE  [ m EXCEPT !.heap = Write(Write(@, a, s), b, grown) ] = Writing(Writing(m, a, s), b, grown)
  BY DEF Writing, Memories

LEMMA WritingIsMemory ==
    ASSUME NEW m, MemoryOK(m), NEW a \in Nat, NEW s \in Seq(Int), a + Len(s) <= HEAP
    PROVE  Writing(m, a, s) \in Memories
<1> DEFINE g == Write(m.heap, a, s)
<1>1. HeapOK(g)
  BY WriteWrites DEF MemoryOK
<1>2. g \in Heaps
  BY <1>1 DEF HeapOK
<1>. HIDE DEF g
<1>3. [ m EXCEPT !.heap = g ] \in Memories
  BY <1>2 DEF MemoryOK, Memories
<1>. QED BY <1>3 DEF g, Writing

LEMMA WritingNothing ==
    ASSUME NEW m, MemoryOK(m), NEW a \in Int, NEW s, s = << >>
    PROVE  Writing(m, a, s) = m
<1> DEFINE cells == [ c \in DOMAIN m.heap.cells |->
                        IF c \in Span(a, Len(s)) THEN s[c - a + 1] ELSE m.heap.cells[c] ]
<1>1. Len(s) = 0
  OBVIOUS
<1>2. Span(a, Len(s)) = {}
  BY <1>1 DEF Span
<1>3. m \in Memories /\ m.heap \in Heaps
  BY DEF MemoryOK, HeapOK
<1>4. cells = m.heap.cells
  BY <1>2, <1>3 DEF Heaps
<1>5. Write(m.heap, a, s) = [ m.heap EXCEPT !.cells = cells ]
  BY DEF Write
<1>. HIDE DEF cells
<1>6. Write(m.heap, a, s) = m.heap
  BY <1>3, <1>4, <1>5 DEF Heaps
<1>. QED BY <1>3, <1>6 DEF Writing, Memories

\* What a value is set to.
ValueIsSet(m, r, at, what, blocks, content) ==
    /\ r.block \in Int
    /\ \E g : /\ PoolFilled(m, g, blocks \union NewBlock(r.block, content))
              /\ r.memory = Writing(g, at, << what, r.block >>)

LEMMA NothingFilled ==
    ASSUME NEW m, MemoryOK(m), m.chunks # << >>, NEW blocks, BlocksAt(m, blocks), NEW content
    PROVE  PoolFilled(m, m, blocks \union NewBlock(NULL, content))
<1>1. blocks \union NewBlock(NULL, content) = blocks
  BY DEF NewBlock
<1>. QED BY <1>1 DEF PoolFilled, StackKept, KeptIn

LongString(p, at, what, from, n) ==
    [ memory |-> [ Copied(p.memory, from, n, p.at) EXCEPT
                     !.heap = Write(Write(@, p.at + n, << Terminator >>), at, << what, p.at >>) ],
      block |-> p.at ]

Elements(p, at, what, from, n) ==
    [ memory |-> [ Copied(p.memory, from, n, p.at) EXCEPT !.heap = Write(@, at, << what, p.at >>) ],
      block |-> p.at ]

LEMMA StringIsSet ==
    ASSUME NEW m, MemoryOK(m), m.chunks # << >>,
           NEW blocks \in PoolBlocks, BlocksAt(m, blocks),
           NEW name \in Names, NEW o, NEW letters \in Seq(Int), NEW n \in Nat, n = Len(letters),
           Fits(o, letters, m.stacks[name].capacity), Shows(m, Offset(m, name, o), letters),
           NEW at, NEW what \in Int, NEW from, from = Offset(m, name, o),
           NEW r \in SetStringRaw(m, at, what, from, n)
    PROVE  ValueIsSet(m, r, at, what, blocks, Append(letters, Terminator))
<1> DEFINE piece == Append(letters, Terminator)
<1>1. CASE n <= MaxSize
  <2>1. r.block = NULL /\ r.memory = Writing(m, at, << what, NULL >>)
    BY <1>1 DEF SetStringRaw, Writing
  <2>2. PoolFilled(m, m, blocks \union NewBlock(NULL, piece))
    BY NothingFilled
  <2>. HIDE DEF piece
  <2>3. r.block \in Int
    BY <2>1 DEF NULL
  <2>4. ValueIsSet(m, r, at, what, blocks, piece)
    BY <2>1, <2>2, <2>3 DEF ValueIsSet
  <2>. QED BY <2>4 DEF piece
<1>2. CASE ~ (n <= MaxSize)
  <2>1. PICK p \in PoolMalloc(m, n + 1) :
             /\ r.block = p.at
             /\ r.memory = [ Copied(p.memory, from, n, p.at) EXCEPT
                               !.heap = Write(Write(@, p.at + n, << Terminator >>), at, << what, p.at >>) ]
    <3>1. SetStringRaw(m, at, what, from, n) =
            { LongString(p, at, what, from, n) : p \in PoolMalloc(m, n + 1) }
      BY <1>2 DEF SetStringRaw, LongString
    <3>2. PICK p \in PoolMalloc(m, n + 1) : r = LongString(p, at, what, from, n)
      BY <3>1
    <3>. QED BY <3>2 DEF LongString
  <2> DEFINE q == p.memory
             to == p.at
             size == n + 1
  <2>a. size \in Nat \ {0} /\ p \in PoolMalloc(m, size)
    BY <2>1
  <2>. HIDE DEF size
  <2>b. PoolGives(m, p.memory, p.at, size)
    BY <2>a, PoolMallocGives
  <2>2. PoolGives(m, q, to, n + 1)
    BY <2>b DEF size
  <2>. HIDE DEF q, to
  <2>3. StackKept(m, q, name) /\ MemoryOK(q) /\ to \in Nat /\ HasRoom(q, to, n + 1)
    BY <2>2, PoolLeavesStacks DEF PoolGives, HasRoom
  <2>4. Content(q.heap, from, n) = letters
    <3>1. HasLength(letters, n)
      BY DEF HasLength
    <3>. QED BY <2>3, <3>1, StackIsRead
  <2> DEFINE g == Writing(q, to, letters)
             f == Writing(g, to + n, << Terminator >>)
  <2>5. WrittenInPool(q, f, to, piece)
    <3>1. Terminator \in Int
      BY DEF Terminator
    <3>. QED BY <2>3, <3>1, StringIsWritten
  <2>6. Copied(q, from, n, to) = g
    BY <2>4 DEF Copied, Writing
  <2>7. g \in Memories
    <3>1. HasRoom(q, to, n)
      BY <2>3, RoomForBoth
    <3>2. MemoryOK(g)
      BY <2>3, <3>1, WriteInPool
    <3>. QED BY <3>2 DEF MemoryOK
  <2>8. r.block = to /\ r.memory = Writing(f, at, << what, to >>)
    <3>. HIDE DEF g
    <3>1. r.memory = [ g EXCEPT !.heap = Write(Write(@, to + n, << Terminator >>), at, << what, to >>) ]
      BY <2>1, <2>6 DEF q, to
    <3>2. r.memory = Writing(Writing(g, to + n, << Terminator >>), at, << what, to >>)
      BY <2>7, <3>1, WritingTwice
    <3>. QED BY <2>1, <3>2 DEF to
  <2>9. piece \in Seq(Int) /\ Len(piece) = n + 1
    BY DEF Terminator
  <2>. HIDE DEF f, g, piece
  <2>10. PoolFilled(m, f, blocks \union NewBlock(to, piece))
    <3>1. HasLength(piece, size) /\ PoolGives(m, q, to, size) /\ size \in Nat \ {0}
      BY <2>2, <2>9, <2>a DEF size, HasLength
    <3>. QED BY <2>5, <3>1, PoolTextWritten
  <2>12. r.block \in Int
    BY <2>3, <2>8
  <2>13. /\ PoolFilled(m, f, blocks \union NewBlock(r.block, piece))
         /\ r.memory = Writing(f, at, << what, r.block >>)
    BY <2>8, <2>10
  <2>14. ValueIsSet(m, r, at, what, blocks, piece)
    BY <2>12, <2>13 DEF ValueIsSet
  <2>. QED BY <2>14 DEF piece
<1>. QED BY <1>1, <1>2

LEMMA ArrayIsSet ==
    ASSUME NEW m, MemoryOK(m), m.chunks # << >>,
           NEW blocks \in PoolBlocks, BlocksAt(m, blocks),
           NEW name \in Names, NEW o, NEW elements, NEW count \in Nat,
           HasLength(elements, count * VALUE),
           Fits(o, elements, m.stacks[name].capacity), Shows(m, Offset(m, name, o), elements),
           NEW at, NEW what \in Int, NEW from, from = Offset(m, name, o),
           NEW r \in SetArrayRaw(m, at, what, from, count)
    PROVE  ValueIsSet(m, r, at, what, blocks, elements)
<1> DEFINE n == count * VALUE
<1>a. n \in Nat /\ HasLength(elements, n)
  BY DEF VALUE
<1>1. PICK p \in PoolMalloc(m, n) :
           /\ r.block = p.at
           /\ r.memory = [ Copied(p.memory, from, n, p.at) EXCEPT !.heap = Write(@, at, << what, p.at >>) ]
  <2>1. SetArrayRaw(m, at, what, from, count) = { Elements(p, at, what, from, n) : p \in PoolMalloc(m, n) }
    BY DEF SetArrayRaw, Elements
  <2>2. PICK p \in PoolMalloc(m, n) : r = Elements(p, at, what, from, n)
    BY <2>1
  <2>. QED BY <2>2 DEF Elements
<1>. HIDE DEF n
<1>2. r.memory = Writing(Copied(p.memory, from, n, p.at), at, << what, r.block >>)
  BY <1>1 DEF Writing
<1>3. CASE n = 0
  <2>1. p.memory = m /\ p.at = NULL
    BY <1>1, <1>3 DEF PoolMalloc
  <2>2. elements = << >>
    BY <1>3, <1>a DEF HasLength
  <2>3. StackKept(m, m, name)
    BY DEF StackKept, KeptIn
  <2>4. Content(m.heap, from, n) = elements
    BY <1>a, <2>3, StackIsRead
  <2>5. Copied(m, from, n, NULL) = Writing(m, NULL, elements)
    BY <2>4 DEF Copied, Writing
  <2>6. Writing(m, NULL, elements) = m
    BY <2>2, WritingNothing DEF NULL
  <2>7. PoolFilled(m, m, blocks \union NewBlock(NULL, elements))
    BY NothingFilled
  <2>8. r.block \in Int /\ r.block = NULL
    BY <1>1, <2>1 DEF NULL
  <2>9. r.memory = Writing(m, at, << what, r.block >>)
    BY <1>2, <2>1, <2>5, <2>6
  <2>. QED BY <2>7, <2>8, <2>9 DEF ValueIsSet
<1>4. CASE n # 0
  <2> DEFINE q == p.memory
             to == p.at
  <2>1. n \in Nat \ {0} /\ PoolGives(m, q, to, n)
    BY <1>1, <1>4, <1>a, PoolMallocGives
  <2>. HIDE DEF q, to
  <2>2. StackKept(m, q, name) /\ MemoryOK(q) /\ to \in Nat /\ HasRoom(q, to, n)
    BY <2>1, PoolLeavesStacks DEF PoolGives, HasRoom
  <2>3. Content(q.heap, from, n) = elements
    BY <1>a, <2>2, StackIsRead
  <2> DEFINE g == Writing(q, to, elements)
  <2>4. WrittenInPool(q, g, to, elements)
    BY <1>a, <2>2, TextIsWritten DEF HasLength
  <2>5. Copied(q, from, n, to) = g
    BY <2>3 DEF Copied, Writing
  <2>. HIDE DEF g
  <2>6. PoolFilled(m, g, blocks \union NewBlock(to, elements))
    BY <1>a, <2>1, <2>4, PoolTextWritten
  <2>8. r.block = to /\ r.block \in Int /\ r.memory = Writing(g, at, << what, r.block >>)
    BY <1>1, <1>2, <2>2, <2>5 DEF q, to
  <2>. QED BY <2>6, <2>8 DEF ValueIsSet
<1>. QED BY <1>3, <1>4

LEMMA OneStackMoves ==
    ASSUME NEW m, NEW r, NEW name, OnlyMoves(m, r, name)
    PROVE  MemoryOK(r) /\ PoolKept(m, r) /\ r.chunks = m.chunks
  BY DEF OnlyMoves, PoolKept

LEMMA StacksApart ==
    /\ "document" \in Names /\ "reader" \in Names /\ "buffer" \in Names
    /\ "document" \in Names \ {"reader"} /\ "document" \in Names \ {"buffer"}
    /\ "reader" \in Names \ {"document"} /\ "reader" \in Names \ {"buffer"}
    /\ "buffer" \in Names \ {"document"} /\ "buffer" \in Names \ {"reader"}
  BY DEF Names

\* The value at the top of the document's stack is set.
LEMMA SetValueIsWritten ==
    ASSUME NEW m, MemoryOK(m), NEW at, NEW what \in Int, NEW r,
           NEW blocks \in PoolBlocks, NEW content \in Seq(Int),
           ValueIsSet(m, r, at, what, blocks, content),
           NEW values \in Seq(Int \X Int), NEW n \in Nat, n <= Len(values),
           m.stacks["document"].size = (n + 1) * VALUE, FirstValuesAt(m, values, n),
           at = m.stacks["document"].at + n * VALUE,
           NEW more, Puts(values, n, more, << what, r.block >>)
    PROVE  /\ MemoryOK(r.memory) /\ r.memory.chunks # << >>
           /\ ValuesAt(r.memory, more)
           /\ BlocksAt(r.memory, blocks \union NewBlock(r.block, content))
           /\ HeadersHold(m) => HeadersHold(r.memory)
           /\ StackKept(m, r.memory, "reader") /\ StackKept(m, r.memory, "buffer")
<1> DEFINE added == blocks \union NewBlock(r.block, content)
           value == << what, r.block >>
<1>1. r.block \in Int
  BY DEF ValueIsSet
<1>2. PICK g : PoolFilled(m, g, added) /\ r.memory = Writing(g, at, value)
  BY DEF ValueIsSet
<1>3. added \in PoolBlocks
  BY <1>1 DEF PoolBlocks, NewBlock
<1>4. value \in Int \X Int
  BY <1>1
<1>. HIDE DEF added, value
<1>5. /\ MemoryOK(g) /\ g.chunks # << >> /\ g.stacks = m.stacks
      /\ \A name \in Names : StackKept(m, g, name)
      /\ HeadersHold(m) => HeadersHold(g)
      /\ BlocksAt(g, added)
  BY <1>2 DEF PoolFilled
<1>6. FirstValuesAt(g, values, n)
  <2> DEFINE size == m.stacks["document"].size
  <2>1. size \in Nat /\ n * VALUE <= size /\ m.stacks["document"].at \in Int
        /\ g.stacks["document"].at \in Int
    BY <1>5, StacksApart, StacksOf DEF VALUE
  <2>2. FirstKept(m, g, "document", size)
    BY <1>5, StacksApart, KeptStack
  <2>. HIDE DEF size
  <2>. QED BY <2>1, <2>2, ValuesFirst
<1>7. OnlyMoves(g, r.memory, "document") /\ ValuesAt(r.memory, more)
  <2>1. /\ g.stacks["document"].size = (n + 1) * VALUE
        /\ at = g.stacks["document"].at + n * VALUE
        /\ Puts(values, n, more, value)
    BY <1>5 DEF value
  <2>. QED BY <1>2, <1>4, <1>5, <1>6, <2>1, ValueWritten
<1>8. MemoryOK(r.memory) /\ PoolKept(g, r.memory) /\ r.memory.chunks = g.chunks
  BY <1>7, OneStackMoves
<1>9. BlocksAt(r.memory, added) /\ (HeadersHold(g) => HeadersHold(r.memory))
  BY <1>3, <1>5, <1>8, PoolStays DEF PoolBlocks
<1>10. StackKept(m, r.memory, "reader") /\ StackKept(m, r.memory, "buffer")
  <2>1. StackKept(g, r.memory, "reader") /\ StackKept(g, r.memory, "buffer")
    BY <1>7, StacksApart DEF OnlyMoves
  <2>2. StackKept(m, g, "reader") /\ StackKept(m, g, "buffer")
    BY <1>5, StacksApart
  <2>. QED BY <2>1, <2>2, StacksKeptTwice
<1>. QED BY <1>5, <1>7, <1>8, <1>9, <1>10 DEF added

(***************************************************************************)
(* The inductive invariant.                                                *)
(***************************************************************************)
\* Later levels began with later values.
LevelsOK(values, levels) ==
    /\ LevelsIn(values, levels)
    /\ \A j, k \in 1 .. Len(levels) : j < k => levels[j] < levels[k]
    /\ levels # << >> => levels[1] = 1
    /\ levels = << >> => Len(values) <= 1

Refers(value, blocks) == value[2] = NULL \/ \E b \in blocks : b.at = value[2]

AllRefer(values, blocks) == \A k \in 1 .. Len(values) : Refers(values[k], blocks)

ParseInv(m, i) ==
    /\ ValuesAt(m, i.values)
    /\ LevelsAt(m, i.values, i.levels)
    /\ ScannedAt(m, i.levels, i.scanned, i.events + 1)
    /\ LevelsOK(i.values, i.levels)
    /\ AllRefer(i.values, i.blocks)

Kept(m, i) == MemoryOK(m) /\ HeadersHold(m) /\ i \in Intentions /\ BlocksAt(m, i.blocks)

Parsing(m, i) ==
    /\ Kept(m, i) /\ m.chunks # << >>
    /\ m.stacks["buffer"] = NoStack /\ i.letters = << >>
    /\ ParseInv(m, i)

\* Nothing waits.
Idle(m, i) ==
    /\ Kept(m, i)
    /\ m.stacks["reader"] = NoStack
    /\ i.values = << >> /\ i.levels = << >> /\ i.scanned = 0

Unborn(m, i) ==
    /\ Idle(m, i) /\ m.chunks = << >> /\ i.letters = << >>
    /\ m.stacks["document"] = NoStack /\ m.stacks["buffer"] = NoStack

Failed(m, i) == Idle(m, i) /\ m.chunks # << >>

Parsed(m, i) == Failed(m, i) /\ LettersAt(m, i.letters) /\ Refers(i.root, i.blocks)

\* The terminator stands behind the letters.
Ended(m, letters) ==
    /\ m.stacks["buffer"].at # NULL /\ Len(letters) < m.stacks["buffer"].capacity
    /\ m.heap.cells[m.stacks["buffer"].at + Len(letters)] = Terminator

Gone(m, i) ==
    /\ Kept(m, i) /\ m.chunks = << >> /\ m.heap.blocks = {}
    /\ i.values = << >> /\ i.levels = << >> /\ i.scanned = 0 /\ i.blocks = {}

LifeInv(m, l, i) ==
    \/ l = "none" /\ Unborn(m, i)
    \/ l = "parsing" /\ Parsing(m, i)
    \/ l = "parsed" /\ Parsed(m, i)
    \/ l = "written" /\ Parsed(m, i) /\ Ended(m, i.letters)
    \/ l = "failed" /\ Failed(m, i)
    \/ l = "gone" /\ Gone(m, i)

MemoryInv == LifeInv(Memory, life, intended)

\* What is intended after an event.
Intending(i, values, levels, blocks) ==
    [ i EXCEPT !.values = values, !.levels = levels, !.scanned = 0,
               !.blocks = @ \union blocks, !.events = i.events + 1 ]

LEMMA IntentionsOf ==
    ASSUME NEW i \in Intentions
    PROVE  /\ i.values \in Seq(Int \X Int) /\ i.levels \in Seq(Nat) /\ i.scanned \in Nat
           /\ i.events \in Nat /\ i.letters \in Seq(Int) /\ i.root \in Seq(Int)
           /\ i.blocks \in PoolBlocks
  BY DEF Intentions, PoolBlocks

LEMMA IntendingIs ==
    ASSUME NEW i \in Intentions, NEW values \in Seq(Int \X Int), NEW levels \in Seq(Nat),
           NEW blocks \in PoolBlocks, NEW j, j = Intending(i, values, levels, blocks)
    PROVE  /\ j \in Intentions /\ j.values = values /\ j.levels = levels /\ j.scanned = 0
           /\ j.blocks = i.blocks \union blocks /\ j.events = i.events + 1 /\ j.letters = i.letters
<1> DEFINE all == i.blocks \union blocks
           event == i.events + 1
<1>1. all \in PoolBlocks /\ event \in Nat
  BY IntentionsOf DEF PoolBlocks
<1>2. j = [ i EXCEPT !.values = values, !.levels = levels, !.scanned = 0, !.blocks = all, !.events = event ]
  BY DEF Intending
<1>. HIDE DEF all, event
<1>3. j = [ values |-> values, levels |-> levels, scanned |-> 0, events |-> event,
            letters |-> i.letters, root |-> i.root, blocks |-> all ]
  BY <1>2 DEF Intentions
<1>4. i.letters \in Seq(Int) /\ i.root \in Seq(Int)
  BY IntentionsOf
<1>5. j \in Intentions
  <2> DEFINE texts == Seq(Int)
             pairs == Seq(Int \X Int)
             naturals == Seq(Nat)
             places == PoolBlocks
  <2>1. /\ values \in pairs /\ levels \in naturals /\ i.letters \in texts /\ i.root \in texts
        /\ all \in places
    BY <1>1, <1>4
  <2>2. Intentions = [ values : pairs, levels : naturals, scanned : Nat, events : Nat,
                       letters : texts, root : texts, blocks : places ]
    BY DEF Intentions, PoolBlocks
  <2>. HIDE DEF texts, pairs, naturals, places
  <2>. QED BY <1>1, <1>3, <2>1, <2>2
<1>. QED BY <1>3, <1>5 DEF all, event

LEMMA IntendingNoBlock ==
    ASSUME NEW i \in Intentions, NEW values \in Seq(Int \X Int), NEW levels \in Seq(Nat),
           NEW j, j = Intending(i, values, levels, {})
    PROVE  /\ j \in Intentions /\ j.values = values /\ j.levels = levels /\ j.scanned = 0
           /\ j.blocks = i.blocks /\ j.events = i.events + 1 /\ j.letters = i.letters
<1> DEFINE none == {}
<1>1. none \in PoolBlocks /\ i.blocks \union none = i.blocks
  BY DEF PoolBlocks
<1>2. j = Intending(i, values, levels, none)
  OBVIOUS
<1>. HIDE DEF none
<1>3. /\ j \in Intentions /\ j.values = values /\ j.levels = levels /\ j.scanned = 0
      /\ j.blocks = i.blocks \union none /\ j.events = i.events + 1 /\ j.letters = i.letters
  BY <1>1, <1>2, IntendingIs
<1>. QED BY <1>1, <1>3

LEMMA ParsingIs ==
    ASSUME NEW m, NEW i, Parsing(m, i)
    PROVE  /\ MemoryOK(m) /\ HeadersHold(m) /\ i \in Intentions /\ BlocksAt(m, i.blocks)
           /\ m.chunks # << >> /\ m.stacks["buffer"] = NoStack /\ i.letters = << >>
           /\ ValuesAt(m, i.values) /\ LevelsAt(m, i.values, i.levels)
           /\ ScannedAt(m, i.levels, i.scanned, i.events + 1)
           /\ LevelsOK(i.values, i.levels) /\ LevelsIn(i.values, i.levels)
           /\ AllRefer(i.values, i.blocks)
  BY DEF Parsing, Kept, ParseInv, LevelsOK

\* Putting a value behind the others.
LEMMA Appended ==
    ASSUME NEW values \in Seq(Int \X Int), NEW value \in Int \X Int,
           NEW more, more = Append(values, value)
    PROVE  Puts(values, Len(values), more, value)
  BY DEF Puts

LEMMA MoreRefer ==
    ASSUME NEW values \in Seq(Int \X Int), NEW n \in Nat, n <= Len(values), NEW more, NEW value,
           NEW blocks, NEW all, blocks \subseteq all, AllRefer(values, blocks),
           Puts(values, n, more, value), Refers(value, all)
    PROVE  AllRefer(more, all)
<1>1. Len(more) = n + 1 /\ more[n + 1] = value /\ \A k \in 1 .. n : more[k] = values[k]
  BY DEF Puts
<1>. SUFFICES ASSUME NEW k \in 1 .. (n + 1) PROVE Refers(more[k], all)
  BY <1>1 DEF AllRefer
<1>2. CASE k \in 1 .. n
  <2>1. Refers(values[k], blocks) /\ more[k] = values[k]
    BY <1>1, <1>2 DEF AllRefer
  <2>. QED BY <2>1 DEF Refers
<1>3. CASE k = n + 1
  BY <1>1, <1>3
<1>. QED BY <1>2, <1>3, UpToNext

\* A value among the elements of the last level, or the root.
LEMMA LevelsStayOK ==
    ASSUME NEW values \in Seq(Int \X Int), NEW levels \in Seq(Nat), LevelsOK(values, levels),
           levels # << >> \/ values = << >>, NEW more, NEW value, Puts(values, Len(values), more, value)
    PROVE  LevelsOK(more, levels) /\ LevelsIn(values, levels) /\ LevelsIn(more, levels)
<1>1. Len(more) = Len(values) + 1 /\ Len(values) \in Nat
  BY DEF Puts
<1>2. LevelsIn(more, levels)
  BY <1>1 DEF LevelsOK, LevelsIn
<1>3. levels = << >> => Len(more) <= 1
  BY <1>1
<1>. QED BY <1>2, <1>3 DEF LevelsOK

LEMMA LevelsReadAlike ==
    ASSUME NEW m, NEW values \in Seq(Int \X Int), NEW levels \in Seq(Nat), LevelsIn(values, levels),
           LevelsAt(m, values, levels), NEW more, NEW value, Puts(values, Len(values), more, value)
    PROVE  LevelsAt(m, more, levels)
<1>. SUFFICES ASSUME NEW k \in 1 .. Len(levels)
              PROVE  Shows(m, m.stacks["reader"].at + 2 * (k - 1), Twice(more[levels[k]][1]))
  BY DEF LevelsAt
<1>1. levels[k] \in 1 .. Len(values)
  BY DEF LevelsIn
<1>2. more[levels[k]] = values[levels[k]]
  BY <1>1 DEF Puts
<1>. QED BY <1>2 DEF LevelsAt

LEMMA NoneScanned ==
    ASSUME NEW m, NEW levels, NEW a, NEW b, ScannedAt(m, levels, 0, a)
    PROVE  ScannedAt(m, levels, 0, b)
  BY DEF ScannedAt

\* What growing a stack leaves of the rest.
LEMMA PoolStaysIntended ==
    ASSUME NEW m, NEW i, Parsing(m, i), NEW r, NEW name, OnlyMoves(m, r, name)
    PROVE  MemoryOK(r) /\ HeadersHold(r) /\ BlocksAt(r, i.blocks) /\ r.chunks # << >>
<1>1. MemoryOK(m) /\ HeadersHold(m) /\ i \in Intentions /\ BlocksAt(m, i.blocks) /\ m.chunks # << >>
  BY ParsingIs
<1>2. MemoryOK(r) /\ PoolKept(m, r) /\ r.chunks = m.chunks
  BY OneStackMoves
<1>3. i.blocks \in SUBSET [ at : Int, content : Seq(Int) ]
  BY <1>1, IntentionsOf DEF PoolBlocks
<1>. QED BY <1>1, <1>2, <1>3, PoolStays

LEMMA PlainIsRead ==
    ASSUME NEW m, NEW i, Parsing(m, i), i.scanned = 0, i.levels # << >> \/ i.values = << >>,
           NEW event, event = i.events + 1,
           NEW r \in Push(m, "document", << event, NULL >>),
           NEW j, j = Intending(i, Append(i.values, << event, NULL >>), i.levels, {})
    PROVE  Parsing(r, j)
<1> DEFINE value == << event, NULL >>
           more == Append(i.values, value)
           values == i.values
           levels == i.levels
<1>1. /\ MemoryOK(m) /\ HeadersHold(m) /\ i \in Intentions /\ BlocksAt(m, i.blocks)
      /\ m.chunks # << >> /\ m.stacks["buffer"] = NoStack /\ i.letters = << >>
      /\ ValuesAt(m, values) /\ LevelsAt(m, values, levels)
      /\ ScannedAt(m, levels, i.scanned, i.events + 1)
      /\ LevelsOK(values, levels) /\ LevelsIn(values, levels)
      /\ AllRefer(values, i.blocks)
  BY ParsingIs
<1>2. values \in Seq(Int \X Int) /\ levels \in Seq(Nat) /\ i.events \in Nat /\ event \in Int
  BY <1>1, IntentionsOf
<1>3. value \in Int \X Int /\ value \in Seq(Int) /\ Len(value) > 0 /\ value[2] = NULL
  BY <1>2 DEF NULL
<1>4. Puts(values, Len(values), more, value) /\ more \in Seq(Int \X Int)
  BY <1>2, <1>3, Appended DEF Puts
<1>5. r \in Push(m, "document", value) /\ j = Intending(i, more, levels, {})
  OBVIOUS
<1>. HIDE DEF value, more, values, levels
<1>6. Grows(m, r, "document", value)
  BY <1>1, <1>3, <1>5, StacksApart, PushGrows
<1>7. OnlyMoves(m, r, "document")
  BY <1>6 DEF Grows
<1>8. MemoryOK(r) /\ HeadersHold(r) /\ BlocksAt(r, i.blocks) /\ r.chunks # << >>
  BY <1>7, PoolStaysIntended
<1>9. ValuesAt(r, more)
  BY <1>1, <1>2, <1>3, <1>4, <1>6, ValuesGrow
<1>10. StackKept(m, r, "reader") /\ StackKept(m, r, "buffer")
  BY <1>7, StacksApart DEF OnlyMoves
<1>11. ScannedAt(m, levels, 0, event + 1)
  BY <1>1, NoneScanned
<1>12. LevelsAt(r, values, levels) /\ ScannedAt(r, levels, 0, event + 1)
  BY <1>1, <1>2, <1>10, <1>11, ReaderStays
<1>13. LevelsAt(r, more, levels)
  BY <1>1, <1>2, <1>4, <1>12, LevelsReadAlike
<1>14. LevelsOK(more, levels)
  <2>1. levels # << >> \/ values = << >>
    BY DEF levels, values
  <2>. QED BY <1>1, <1>2, <1>4, <2>1, LevelsStayOK
<1>15. /\ j \in Intentions /\ j.values = more /\ j.levels = levels /\ j.scanned = 0
       /\ j.blocks = i.blocks /\ j.events = event /\ j.letters = i.letters
  BY <1>1, <1>2, <1>4, <1>5, IntendingNoBlock
<1>16. AllRefer(more, i.blocks)
  <2>1. Refers(value, i.blocks) /\ Len(values) \in Nat
    BY <1>2, <1>3 DEF Refers
  <2> DEFINE n == Len(values)
             blocks == i.blocks
  <2>2. n \in Nat /\ n <= Len(values) /\ blocks \subseteq blocks /\ Puts(values, n, more, value)
        /\ Refers(value, blocks) /\ AllRefer(values, blocks)
    BY <1>1, <1>4, <2>1
  <2>. HIDE DEF n, blocks
  <2>3. AllRefer(more, blocks)
    BY <1>2, <2>2, MoreRefer
  <2>. QED BY <2>3 DEF blocks
<1>17. r.stacks["buffer"] = NoStack
  BY <1>1, <1>10 DEF StackKept
<1>. QED BY <1>1, <1>8, <1>9, <1>12, <1>13, <1>14, <1>15, <1>16, <1>17 DEF Parsing, Kept, ParseInv

LEMMA ScanningIs ==
    ASSUME NEW i \in Intentions, NEW j, j = [ i EXCEPT !.scanned = @ + 1 ]
    PROVE  /\ j \in Intentions /\ j.values = i.values /\ j.levels = i.levels /\ j.scanned = i.scanned + 1
           /\ j.blocks = i.blocks /\ j.events = i.events /\ j.letters = i.letters
<1> DEFINE n == i.scanned + 1
           texts == Seq(Int)
           pairs == Seq(Int \X Int)
           naturals == Seq(Nat)
<1>1. n \in Nat
  BY IntentionsOf
<1>2. j = [ i EXCEPT !.scanned = n ]
  OBVIOUS
<1>3. Intentions = [ values : pairs, levels : naturals, scanned : Nat, events : Nat,
                     letters : texts, root : texts, blocks : PoolBlocks ]
  BY DEF Intentions, PoolBlocks
<1>. HIDE DEF n, texts, pairs, naturals
<1>4. /\ j \in Intentions /\ j.values = i.values /\ j.levels = i.levels /\ j.scanned = n
      /\ j.blocks = i.blocks /\ j.events = i.events /\ j.letters = i.letters
  BY <1>1, <1>2, <1>3
<1>. QED BY <1>4 DEF n

LEMMA LetterIsRead ==
    ASSUME NEW m, NEW i, Parsing(m, i), NEW event, event = i.events + 1,
           NEW r \in Push(m, "reader", << event >>),
           NEW j, j = [ i EXCEPT !.scanned = @ + 1 ]
    PROVE  Parsing(r, j)
<1> DEFINE values == i.values
           levels == i.levels
           scanned == i.scanned
           letter == << event >>
<1>1. /\ MemoryOK(m) /\ HeadersHold(m) /\ i \in Intentions /\ BlocksAt(m, i.blocks)
      /\ m.chunks # << >> /\ m.stacks["buffer"] = NoStack /\ i.letters = << >>
      /\ ValuesAt(m, values) /\ LevelsAt(m, values, levels)
      /\ ScannedAt(m, levels, scanned, event)
      /\ LevelsOK(values, levels) /\ LevelsIn(values, levels)
      /\ AllRefer(values, i.blocks)
  BY ParsingIs
<1>2. /\ values \in Seq(Int \X Int) /\ levels \in Seq(Nat) /\ scanned \in Nat /\ event \in Int
      /\ letter \in Seq(Int) /\ Len(letter) > 0
  BY <1>1, IntentionsOf
<1>3. r \in Push(m, "reader", letter)
  OBVIOUS
<1>4. /\ j \in Intentions /\ j.values = values /\ j.levels = levels /\ j.scanned = scanned + 1
      /\ j.blocks = i.blocks /\ j.events = i.events /\ j.letters = i.letters
  BY <1>1, ScanningIs
<1>. HIDE DEF values, levels, scanned, letter
<1>5. Grows(m, r, "reader", letter)
  BY <1>1, <1>2, <1>3, StacksApart, PushGrows
<1>6. OnlyMoves(m, r, "reader")
  BY <1>5 DEF Grows
<1>7. MemoryOK(r) /\ HeadersHold(r) /\ BlocksAt(r, i.blocks) /\ r.chunks # << >>
  BY <1>6, PoolStaysIntended
<1>8. LevelsAt(r, values, levels) /\ ScannedAt(r, levels, scanned + 1, event)
  BY <1>1, <1>2, <1>5, LetterGrows DEF letter
<1>9. StackKept(m, r, "document") /\ StackKept(m, r, "buffer")
  BY <1>6, StacksApart DEF OnlyMoves
<1>10. ValuesAt(r, values)
  BY <1>1, <1>2, <1>9, ValuesStay
<1>11. r.stacks["buffer"] = NoStack
  BY <1>1, <1>9 DEF StackKept
<1>. QED BY <1>1, <1>4, <1>7, <1>8, <1>10, <1>11 DEF Parsing, Kept, ParseInv

\* A list or an object begins with the value that is pushed for it.
LEMMA LevelStarts ==
    ASSUME NEW values \in Seq(Int \X Int), NEW levels \in Seq(Nat), LevelsOK(values, levels),
           levels # << >> \/ values = << >>,
           NEW value \in Int \X Int, NEW more, Puts(values, Len(values), more, value),
           NEW further, further = Append(levels, Len(values) + 1)
    PROVE  /\ further \in Seq(Nat) /\ LevelsOK(more, further)
           /\ LevelPuts(more, levels, Len(levels), more, further, value[1])
<1> DEFINE n == Len(values)
           l == Len(levels)
<1>0. n \in Nat /\ l \in Nat
  OBVIOUS
<1>1. n \in Nat /\ l \in Nat /\ Len(more) = n + 1 /\ more[n + 1] = value
  <2>. HIDE DEF l
  <2>. QED BY <1>0, Zenon DEF Puts
<1>2. /\ further \in Seq(Nat) /\ Len(further) = l + 1 /\ further[l + 1] = n + 1
      /\ \A k \in 1 .. l : further[k] = levels[k]
  OBVIOUS
<1>3. /\ \A k \in 1 .. l : levels[k] \in 1 .. n
      /\ \A j, k \in 1 .. l : j < k => levels[j] < levels[k]
      /\ levels # << >> => levels[1] = 1
  BY DEF LevelsOK, LevelsIn
<1>4. l = 0 => levels = << >> /\ n = 0
  OBVIOUS
<1>5. l # 0 => levels # << >>
  OBVIOUS
<1>. HIDE DEF n, l
<1>6. LevelPuts(more, levels, l, more, further, value[1])
  BY <1>1, <1>2 DEF LevelPuts
<1>7. ASSUME NEW k \in 1 .. (l + 1) PROVE further[k] \in 1 .. (n + 1) /\ (k # l + 1 => further[k] <= n)
  <2>1. k \in 1 .. l \/ k = l + 1
    BY <1>1, UpToNext
  <2>. QED BY <1>1, <1>2, <1>3, <2>1, SMTT(30)
<1>8. ASSUME NEW j \in 1 .. (l + 1), NEW k \in 1 .. (l + 1), j < k PROVE further[j] < further[k]
  <2>1. CASE k = l + 1
    <3> DEFINE a == further[j]
               b == further[k]
    <3>1. a <= n /\ a \in Int /\ b = n + 1
      BY <1>1, <1>2, <1>7, <1>8, <2>1, SMTT(30)
    <3>. HIDE DEF a, b
    <3>2. a < b
      BY <1>1, <3>1
    <3>. QED BY <3>2 DEF a, b
  <2>2. CASE k # l + 1
    <3>1. j \in 1 .. l /\ k \in 1 .. l
      BY <1>1, <1>8, <2>2
    <3>. QED BY <1>2, <1>3, <1>8, <3>1
  <2>. QED BY <2>1, <2>2
<1>9. further[1] = 1
  <2>1. CASE l = 0
    BY <1>2, <1>4, <2>1
  <2>2. CASE l # 0
    BY <1>1, <1>2, <1>3, <1>5, <2>2
  <2>. QED BY <2>1, <2>2
<1>10. further # << >>
  BY <1>1, <1>2, SMTT(30)
<1>11. LevelsOK(more, further)
  BY <1>1, <1>2, <1>7, <1>8, <1>9, <1>10 DEF LevelsOK, LevelsIn
<1>. QED BY <1>2, <1>6, <1>11 DEF l

LEMMA StartIsRead ==
    ASSUME NEW m, NEW i, Parsing(m, i), i.scanned = 0, i.levels # << >> \/ i.values = << >>,
           NEW event, event = i.events + 1,
           NEW p \in Push(m, "document", << event, NULL >>),
           NEW q \in Push(p, "reader", << event >>), NEW r \in Push(q, "reader", << event >>),
           NEW j, j = Intending(i, Append(i.values, << event, NULL >>),
                                Append(i.levels, Len(i.values) + 1), {})
    PROVE  Parsing(r, j)
<1> DEFINE more == Append(i.values, << event, NULL >>)
           further == Append(i.levels, Len(i.values) + 1)
           g == Intending(i, more, i.levels, {})
           levels == i.levels
           letter == << event >>
<1>1. Parsing(p, g)
  BY PlainIsRead
<1>2. /\ i \in Intentions /\ i.values \in Seq(Int \X Int) /\ levels \in Seq(Nat) /\ event \in Int
      /\ LevelsOK(i.values, levels)
  BY ParsingIs, IntentionsOf
<1>3. /\ << event, NULL >> \in Int \X Int /\ << event, NULL >>[1] = event
      /\ letter \in Seq(Int) /\ Len(letter) > 0
  BY <1>2 DEF NULL
<1>4. Puts(i.values, Len(i.values), more, << event, NULL >>)
  BY <1>2, <1>3, Appended
<1>5. /\ further \in Seq(Nat) /\ LevelsOK(more, further)
      /\ LevelPuts(more, levels, Len(levels), more, further, event)
  <2> DEFINE value == << event, NULL >>
  <2>1. value \in Int \X Int /\ Puts(i.values, Len(i.values), more, value) /\ value[1] = event
    BY <1>3, <1>4
  <2>. HIDE DEF value
  <2>2. /\ further \in Seq(Nat) /\ LevelsOK(more, further)
        /\ LevelPuts(more, levels, Len(levels), more, further, value[1])
    BY <1>2, <2>1, LevelStarts
  <2>. QED BY <2>1, <2>2
<1>6. more \in Seq(Int \X Int)
  BY <1>4 DEF Puts
<1>9. /\ q \in Push(p, "reader", letter) /\ r \in Push(q, "reader", letter)
      /\ g = Intending(i, more, levels, {}) /\ j = Intending(i, more, further, {})
  OBVIOUS
<1>. HIDE DEF g, levels, letter, more, further
<1>7. /\ g \in Intentions /\ g.values = more /\ g.levels = levels /\ g.scanned = 0
      /\ g.blocks = i.blocks /\ g.events = event /\ g.letters = i.letters
  BY <1>2, <1>6, <1>9, IntendingNoBlock, SMTT(30)
<1>8. /\ j \in Intentions /\ j.values = more /\ j.levels = further /\ j.scanned = 0
      /\ j.blocks = i.blocks /\ j.events = event /\ j.letters = i.letters
  BY <1>2, <1>5, <1>6, <1>9, IntendingNoBlock, SMTT(30)
<1>10. /\ MemoryOK(p) /\ HeadersHold(p) /\ BlocksAt(p, i.blocks)
       /\ p.chunks # << >> /\ p.stacks["buffer"] = NoStack /\ i.letters = << >>
       /\ ValuesAt(p, more) /\ LevelsAt(p, more, levels)
       /\ ScannedAt(p, levels, 0, event + 1) /\ LevelsIn(more, levels)
       /\ AllRefer(more, i.blocks)
  <2>1. /\ MemoryOK(p) /\ HeadersHold(p) /\ BlocksAt(p, g.blocks)
        /\ p.chunks # << >> /\ p.stacks["buffer"] = NoStack /\ g.letters = << >>
        /\ ValuesAt(p, g.values) /\ LevelsAt(p, g.values, g.levels)
        /\ ScannedAt(p, g.levels, g.scanned, g.events + 1) /\ LevelsIn(g.values, g.levels)
        /\ AllRefer(g.values, g.blocks)
    BY <1>1, ParsingIs
  <2>. QED BY <1>7, <2>1
<1>11. Grows(p, q, "reader", letter)
  BY <1>3, <1>9, <1>10, StacksApart, PushGrows
<1>12. OnlyMoves(p, q, "reader") /\ MemoryOK(q)
  BY <1>11 DEF Grows, OnlyMoves
<1>13. Grows(q, r, "reader", letter)
  BY <1>3, <1>9, <1>12, StacksApart, PushGrows
<1>14. OnlyMoves(p, r, "reader")
  <2>1. OnlyMoves(q, r, "reader")
    BY <1>13 DEF Grows
  <2>. QED BY <1>12, <2>1, StacksApart, MovesTwice
<1>15. MemoryOK(r) /\ HeadersHold(r) /\ BlocksAt(r, g.blocks) /\ r.chunks # << >>
  BY <1>1, <1>14, PoolStaysIntended
<1>16. LevelsAt(r, more, further) /\ r.stacks["reader"].size = 2 * Len(further)
  <2> DEFINE l == Len(levels)
  <2>1. LevelPuts(more, levels, l, more, further, event) /\ l = Len(levels)
    BY <1>5
  <2>. HIDE DEF l
  <2>2. Grows(p, q, "reader", << event >>) /\ Grows(q, r, "reader", << event >>)
    BY <1>11, <1>13 DEF letter
  <2>. QED BY <1>2, <1>6, <1>10, <2>1, <2>2, LevelGrows
<1>17. ScannedAt(r, further, 0, event + 1)
  BY <1>5, <1>16 DEF ScannedAt
<1>18. StackKept(p, r, "document") /\ StackKept(p, r, "buffer")
  BY <1>14, StacksApart DEF OnlyMoves
<1>19. ValuesAt(r, more)
  BY <1>6, <1>10, <1>18, ValuesStay
<1>20. r.stacks["buffer"] = NoStack
  BY <1>10, <1>18 DEF StackKept
<1>. QED BY <1>5, <1>7, <1>8, <1>10, <1>15, <1>16, <1>17, <1>19, <1>20 DEF Parsing, Kept, ParseInv

\* The value at the top of the document's stack can be set: n values are below it,
\* and the reader is at the end of a string, a list or an object.
ReadyFor(m, i, values, n, levels) ==
    /\ MemoryOK(m) /\ HeadersHold(m) /\ BlocksAt(m, i.blocks)
    /\ m.chunks # << >> /\ m.stacks["buffer"] = NoStack
    /\ m.stacks["document"].size = (n + 1) * VALUE /\ FirstValuesAt(m, values, n)
    /\ LevelsAt(m, values, levels) /\ ScannedAt(m, levels, 0, 0)
    /\ LevelsIn(values, levels)

LevelsBelow(levels, n) == \A k \in 1 .. Len(levels) : levels[k] \in 1 .. n

LEMMA LevelsReadSame ==
    ASSUME NEW m, NEW values, NEW levels, NEW n,
           LevelsBelow(levels, n), LevelsAt(m, values, levels), NEW more, NEW value,
           Puts(values, n, more, value)
    PROVE  LevelsAt(m, more, levels)
<1>. SUFFICES ASSUME NEW k \in 1 .. Len(levels)
              PROVE  Shows(m, m.stacks["reader"].at + 2 * (k - 1), Twice(more[levels[k]][1]))
  BY DEF LevelsAt
<1>1. levels[k] \in 1 .. n
  BY DEF LevelsBelow
<1>2. more[levels[k]] = values[levels[k]]
  BY <1>1 DEF Puts
<1>. QED BY <1>2 DEF LevelsAt

LEMMA NewBlockRefers ==
    ASSUME NEW block \in Int, NEW what, NEW content \in Seq(Int), NEW blocks
    PROVE  /\ NewBlock(block, content) \in PoolBlocks
           /\ Refers(<< what, block >>, blocks \union NewBlock(block, content))
<1>1. << what, block >>[2] = block
  OBVIOUS
<1>2. CASE block = NULL
  BY <1>1, <1>2 DEF NewBlock, PoolBlocks, Refers
<1>3. CASE block # NULL
  <2> DEFINE b == [ at |-> block, content |-> content ]
  <2>1. b \in [ at : Int, content : Seq(Int) ] /\ b.at = block
    OBVIOUS
  <2>2. NewBlock(block, content) = {b}
    BY <1>3 DEF NewBlock
  <2>. HIDE DEF b
  <2>. QED BY <1>1, <2>1, <2>2 DEF PoolBlocks, Refers
<1>. QED BY <1>2, <1>3

\* A string, a list or an object is complete.
LEMMA ValueIsRead ==
    ASSUME NEW m, NEW i \in Intentions, i.letters = << >>, AllRefer(i.values, i.blocks),
           NEW n \in Nat, n <= Len(i.values), NEW further \in Seq(Nat), LevelsBelow(further, n),
           ReadyFor(m, i, i.values, n, further),
           NEW at, at = m.stacks["document"].at + n * VALUE,
           NEW event, event = i.events + 1, NEW content \in Seq(Int), NEW r,
           ValueIsSet(m, r, at, event, i.blocks, content),
           NEW more, Puts(i.values, n, more, << event, r.block >>), LevelsOK(more, further),
           NEW j, j = Intending(i, more, further, NewBlock(r.block, content))
    PROVE  Parsing(r.memory, j)
<1> DEFINE values == i.values
           blocks == i.blocks
           g == r.memory
           block == r.block
           new == NewBlock(block, content)
           value == << event, block >>
<1>1. /\ values \in Seq(Int \X Int) /\ blocks \in PoolBlocks /\ event \in Int
      /\ block \in Int
  BY IntentionsOf DEF ValueIsSet
<1>2. new \in PoolBlocks /\ Refers(value, blocks \union new)
  BY <1>1, NewBlockRefers
<1>3. more \in Seq(Int \X Int)
  BY DEF Puts
<1>4. /\ MemoryOK(m) /\ HeadersHold(m) /\ BlocksAt(m, blocks)
      /\ m.chunks # << >> /\ m.stacks["buffer"] = NoStack
      /\ m.stacks["document"].size = (n + 1) * VALUE /\ FirstValuesAt(m, values, n)
      /\ LevelsAt(m, values, further) /\ ScannedAt(m, further, 0, 0)
      /\ LevelsIn(values, further)
  BY DEF ReadyFor
<1>5. /\ n <= Len(values) /\ Puts(values, n, more, value)
      /\ ValueIsSet(m, r, at, event, blocks, content) /\ AllRefer(values, blocks)
      /\ j = Intending(i, more, further, new)
  OBVIOUS
<1>6. /\ MemoryOK(g) /\ g.chunks # << >> /\ ValuesAt(g, more)
      /\ BlocksAt(g, blocks \union new)
      /\ HeadersHold(m) => HeadersHold(g)
      /\ StackKept(m, g, "reader") /\ StackKept(m, g, "buffer")
  BY <1>1, <1>4, <1>5, SetValueIsWritten
<1>. HIDE DEF values, blocks, g, block, new, value
<1>7. LevelsAt(g, values, further) /\ ScannedAt(g, further, 0, 0)
  BY <1>1, <1>4, <1>6, ReaderStays
<1>8. LevelsAt(g, more, further) /\ ScannedAt(g, further, 0, event + 1)
  BY <1>5, <1>7, LevelsReadSame, NoneScanned
<1>9. AllRefer(more, blocks \union new)
  <2> DEFINE all == blocks \union new
  <2>1. blocks \subseteq all /\ Refers(value, all)
    BY <1>2
  <2>. HIDE DEF all
  <2>2. AllRefer(more, all)
    BY <1>1, <1>5, <2>1, MoreRefer
  <2>. QED BY <2>2 DEF all
<1>10. /\ j \in Intentions /\ j.values = more /\ j.levels = further /\ j.scanned = 0
       /\ j.blocks = blocks \union new /\ j.events = event /\ j.letters = i.letters
  BY <1>2, <1>3, <1>5, IntendingIs DEF blocks
<1>11. g.stacks["buffer"] = NoStack
  BY <1>4, <1>6 DEF StackKept
<1>12. Parsing(g, j)
  BY <1>4, <1>6, <1>8, <1>9, <1>10, <1>11 DEF Parsing, Kept, ParseInv
<1>. QED BY <1>12 DEF g

Letters(n, x) == [ k \in 1 .. n |-> x ]

LEMMA LettersShown ==
    ASSUME NEW m, NEW levels \in Seq(Nat), NEW n \in Nat, NEW x \in Int,
           m.stacks["reader"].at \in Int, ScannedAt(m, levels, n, x)
    PROVE  Shows(m, Offset(m, "reader", 2 * Len(levels)), Letters(n, x))
<1> DEFINE letters == Letters(n, x)
           o == 2 * Len(levels)
<1>0. o \in Nat
  OBVIOUS
<1> DEFINE a == m.stacks["reader"].at
<1>1. Len(letters) = n /\ \A k \in 1 .. n : letters[k] = x
  BY DEF Letters
<1>2. \A k \in 0 .. (n - 1) : m.heap.cells[a + (o + k)] = x
  BY DEF ScannedAt
<1>3. a \in Int
  OBVIOUS
<1>. HIDE DEF a, o, letters
<1>4. ASSUME NEW k \in 1 .. n PROVE m.heap.cells[(a + o) + k - 1] = x
  <2>1. k - 1 \in 0 .. (n - 1) /\ (a + o) + k - 1 = a + (o + (k - 1))
    BY <1>0, <1>3
  <2>. QED BY <1>2, <2>1
<1>5. Shows(m, Offset(m, "reader", o), letters)
  BY <1>1, <1>4 DEF Shows, Offset, a
<1>. QED BY <1>5 DEF o, letters

\* The letters of a string are still behind the top of the stack they were popped from.
LettersBehind(m, levels, letters) ==
    /\ Fits(2 * Len(levels), letters, m.stacks["reader"].capacity)
    /\ Shows(m, Offset(m, "reader", 2 * Len(levels)), letters)

\* Nothing is being read.
Between(m, i, values, levels) ==
    /\ MemoryOK(m) /\ HeadersHold(m) /\ BlocksAt(m, i.blocks)
    /\ m.chunks # << >> /\ m.stacks["buffer"] = NoStack
    /\ ValuesAt(m, values) /\ LevelsAt(m, values, levels) /\ ScannedAt(m, levels, 0, 0)
    /\ LevelsIn(values, levels)

LEMMA StringEnds ==
    ASSUME NEW m, NEW i, Parsing(m, i), NEW read \in Push(m, "reader", << Terminator >>),
           NEW popped, popped = Pop(read, "reader", i.scanned + 1),
           NEW letters, letters = Letters(i.scanned, i.events + 1)
    PROVE  /\ Between(popped, i, i.values, i.levels)
           /\ LettersBehind(popped, i.levels, letters)
           /\ Top(popped, "reader") = Offset(popped, "reader", 2 * Len(i.levels))
<1> DEFINE values == i.values
           levels == i.levels
           scanned == i.scanned
           event == i.events + 1
           o == 2 * Len(levels)
           n == m.stacks["reader"].size
<1>1. /\ MemoryOK(m) /\ HeadersHold(m) /\ i \in Intentions /\ BlocksAt(m, i.blocks)
      /\ m.chunks # << >> /\ m.stacks["buffer"] = NoStack /\ i.letters = << >>
      /\ ValuesAt(m, values) /\ LevelsAt(m, values, levels)
      /\ ScannedAt(m, levels, scanned, event)
      /\ LevelsOK(values, levels) /\ LevelsIn(values, levels)
      /\ AllRefer(values, i.blocks)
  BY ParsingIs
<1>2. values \in Seq(Int \X Int) /\ levels \in Seq(Nat) /\ scanned \in Nat /\ event \in Int
  BY <1>1, IntentionsOf
<1>3. o \in Nat /\ n = o + scanned /\ n \in Nat /\ o <= n
  BY <1>1, <1>2 DEF ScannedAt
<1>4. Terminator \in Int /\ << Terminator >> \in Seq(Int) /\ Len(<< Terminator >>) > 0
  BY DEF Terminator
<1>5. Grows(m, read, "reader", << Terminator >>)
  <2> DEFINE last == << Terminator >>
  <2>1. last \in Seq(Int) /\ Len(last) > 0 /\ read \in Push(m, "reader", last)
    BY <1>4
  <2>. HIDE DEF last
  <2>2. Grows(m, read, "reader", last)
    BY <1>1, <2>1, StacksApart, PushGrows
  <2>. QED BY <2>2 DEF last
<1>6. popped = Pop(read, "reader", scanned + 1)
  OBVIOUS
<1>7. Len(letters) = scanned /\ letters = Letters(scanned, event)
  BY <1>2 DEF Letters
<1>8. o = 2 * Len(levels)
  OBVIOUS
<1>. HIDE DEF values, levels, scanned, event, o, n
<1>9. /\ MemoryOK(read) /\ read.stacks["reader"].at \in Nat
      /\ read.stacks["reader"].size = n + 1
      /\ FirstKept(m, read, "reader", n)
  BY <1>1, <1>4, <1>5, StacksApart, OneGrows DEF n
<1>10. Shrinks(read, popped, "reader", o)
  <2> DEFINE count == scanned + 1
             size == read.stacks["reader"].size
  <2>1. count \in Nat /\ count <= size /\ size - count = o
    BY <1>2, <1>3, <1>9
  <2>2. popped = Pop(read, "reader", count) /\ size = read.stacks["reader"].size
    BY <1>6
  <2>. HIDE DEF count, size
  <2>3. Shrinks(read, popped, "reader", size - count)
    BY <1>9, <2>1, <2>2, StacksApart, PopShrinks
  <2>. QED BY <2>1, <2>3
<1>11. /\ OnlyMoves(read, popped, "reader") /\ popped.heap = read.heap
       /\ popped.stacks["reader"].at = read.stacks["reader"].at
       /\ popped.stacks["reader"].capacity = read.stacks["reader"].capacity
       /\ popped.stacks["reader"].size = o
  BY <1>10 DEF Shrinks
<1>12. OnlyMoves(m, popped, "reader")
  <2>1. OnlyMoves(m, read, "reader")
    BY <1>5 DEF Grows
  <2>. QED BY <1>11, <2>1, StacksApart, MovesTwice
<1>13. MemoryOK(popped) /\ HeadersHold(popped) /\ BlocksAt(popped, i.blocks) /\ popped.chunks # << >>
  BY <1>12, PoolStaysIntended
<1>14. StackKept(m, popped, "document") /\ StackKept(m, popped, "buffer")
  BY <1>12, StacksApart DEF OnlyMoves
<1>15. ValuesAt(popped, values) /\ popped.stacks["buffer"] = NoStack
  BY <1>1, <1>2, <1>14, ValuesStay DEF StackKept
<1>16. FirstKept(m, popped, "reader", n)
  BY <1>9, <1>11 DEF FirstKept
<1>17. m.stacks["reader"].at \in Int /\ popped.stacks["reader"].at \in Int
  BY <1>1, <1>9, <1>11, StacksApart, StacksOf
<1>18. LevelsAt(popped, values, levels)
  <2>1. 2 * Len(levels) <= n
    BY <1>3, <1>8
  <2>. QED BY <1>1, <1>2, <1>3, <1>16, <1>17, <2>1, LevelsFirst
<1>19. ScannedAt(popped, levels, 0, 0)
  BY <1>3, <1>8, <1>11 DEF ScannedAt
<1>20. Shows(m, Offset(m, "reader", o), letters)
  BY <1>1, <1>2, <1>7, <1>8, <1>17, LettersShown
<1>21. Fits(o, letters, n) /\ Fits(o, letters, popped.stacks["reader"].capacity)
  <2> DEFINE capacity == read.stacks["reader"].capacity
  <2>1. n + 1 <= capacity /\ capacity \in Nat
    BY <1>9, StacksApart, StacksOf
  <2>. HIDE DEF capacity
  <2>2. o + scanned <= n /\ o + scanned <= capacity
    BY <1>2, <1>3, <2>1
  <2>3. Fits(o, letters, n) /\ Fits(o, letters, capacity)
    BY <1>2, <1>3, <1>7, <2>2 DEF Fits
  <2>. QED BY <1>11, <2>3 DEF capacity
<1>22. Shows(popped, Offset(popped, "reader", o), letters)
  BY <1>3, <1>16, <1>17, <1>20, <1>21, StacksApart, ShowsFirst
<1>23. Top(popped, "reader") = Offset(popped, "reader", o)
  BY <1>11 DEF Top, Offset
<1>24. LettersBehind(popped, levels, letters)
  BY <1>8, <1>21, <1>22 DEF LettersBehind
<1>25. Between(popped, i, values, levels)
  BY <1>1, <1>13, <1>15, <1>18, <1>19 DEF Between
<1>. QED BY <1>8, <1>23, <1>24, <1>25 DEF values, levels

LEMMA BetweenIs ==
    ASSUME NEW m, NEW i, NEW values, NEW levels, Between(m, i, values, levels)
    PROVE  /\ MemoryOK(m) /\ HeadersHold(m) /\ BlocksAt(m, i.blocks)
           /\ m.chunks # << >> /\ m.stacks["buffer"] = NoStack
           /\ ValuesAt(m, values) /\ LevelsAt(m, values, levels) /\ ScannedAt(m, levels, 0, 0)
           /\ LevelsIn(values, levels)
  BY DEF Between

\* A place for the string is pushed; the letters are where they were.
LEMMA PlaceIsPushed ==
    ASSUME NEW m, NEW i \in Intentions, NEW values \in Seq(Int \X Int), NEW levels \in Seq(Nat),
           Between(m, i, values, levels), NEW letters, LettersBehind(m, levels, letters),
           NEW r \in Push(m, "document", << Unwritten, Unwritten >>)
    PROVE  /\ ReadyFor(r, i, values, Len(values), levels)
           /\ LettersBehind(r, levels, letters)
           /\ Offset(r, "reader", 2 * Len(levels)) = Offset(m, "reader", 2 * Len(levels))
<1> DEFINE blank == << Unwritten, Unwritten >>
           more == Append(values, blank)
           n == Len(values)
           blocks == i.blocks
<1>1. /\ MemoryOK(m) /\ HeadersHold(m) /\ BlocksAt(m, blocks)
      /\ m.chunks # << >> /\ m.stacks["buffer"] = NoStack
      /\ ValuesAt(m, values) /\ LevelsAt(m, values, levels) /\ ScannedAt(m, levels, 0, 0)
      /\ LevelsIn(values, levels)
  BY BetweenIs
<1>2. blank \in Int \X Int /\ blank \in Seq(Int) /\ Len(blank) > 0 /\ n \in Nat /\ blocks \in PoolBlocks
  BY IntentionsOf DEF Unwritten
<1>3. Puts(values, n, more, blank) /\ r \in Push(m, "document", blank)
  BY <1>2, Appended
<1>. HIDE DEF blank, more, blocks
<1>4. Grows(m, r, "document", blank)
  BY <1>1, <1>2, <1>3, StacksApart, PushGrows
<1>5. OnlyMoves(m, r, "document")
  BY <1>4 DEF Grows
<1>6. MemoryOK(r) /\ PoolKept(m, r) /\ r.chunks = m.chunks
  BY <1>5, OneStackMoves
<1>7. BlocksAt(r, blocks) /\ HeadersHold(r)
  BY <1>1, <1>2, <1>6, PoolStays DEF PoolBlocks
<1>8. ValuesAt(r, more)
  BY <1>1, <1>2, <1>3, <1>4, ValuesGrow
<1>9. r.stacks["document"].size = (n + 1) * VALUE /\ FirstValuesAt(r, values, n)
  <2>1. Len(more) = n + 1 /\ \A k \in 1 .. n : more[k] = values[k]
    BY <1>3 DEF Puts
  <2>. HIDE DEF n
  <2>2. r.stacks["document"].size = (n + 1) * VALUE
        /\ \A k \in 1 .. (n + 1) : Shows(r, r.stacks["document"].at + (k - 1) * VALUE, more[k])
    BY <1>8, <2>1 DEF ValuesAt
  <2>3. \A k \in 1 .. n : k \in 1 .. (n + 1)
    BY <1>2
  <2>. QED BY <2>1, <2>2, <2>3 DEF FirstValuesAt
<1>10. StackKept(m, r, "reader") /\ StackKept(m, r, "buffer")
  BY <1>5, StacksApart DEF OnlyMoves
<1>11. LevelsAt(r, values, levels) /\ ScannedAt(r, levels, 0, 0)
  BY <1>1, <1>10, ReaderStays
<1>12. r.stacks["buffer"] = NoStack /\ r.stacks["reader"] = m.stacks["reader"]
  BY <1>1, <1>10 DEF StackKept
<1>13. ReadyFor(r, i, values, n, levels)
  BY <1>1, <1>6, <1>7, <1>9, <1>11, <1>12 DEF ReadyFor, blocks
<1>14. LettersBehind(r, levels, letters)
  <2> DEFINE capacity == m.stacks["reader"].capacity
             o == 2 * Len(levels)
  <2>1. FirstKept(m, r, "reader", capacity)
    BY <1>1, <1>10, StacksApart, KeptStack
  <2>2. capacity \in Nat /\ m.stacks["reader"].at \in Int /\ r.stacks["reader"].at \in Int
        /\ capacity = r.stacks["reader"].capacity
    BY <1>1, <1>12, StacksApart, StacksOf
  <2>3. Fits(o, letters, capacity) /\ Shows(m, Offset(m, "reader", o), letters)
    BY DEF LettersBehind
  <2>. HIDE DEF capacity, o
  <2>4. Shows(r, Offset(r, "reader", o), letters)
    BY <2>1, <2>2, <2>3, StacksApart, ShowsFirst
  <2>. QED BY <2>2, <2>3, <2>4 DEF LettersBehind, o
<1>15. Offset(r, "reader", 2 * Len(levels)) = Offset(m, "reader", 2 * Len(levels))
  BY <1>12 DEF Offset
<1>. QED BY <1>13, <1>14, <1>15

Blank == << Unwritten, Unwritten >>

LEMMA StringIsReady ==
    ASSUME NEW m, NEW i, Parsing(m, i), NEW read \in Push(m, "reader", << Terminator >>),
           NEW popped, popped = Pop(read, "reader", i.scanned + 1),
           NEW pushed \in Push(popped, "document", Blank)
    PROVE  /\ ReadyFor(pushed, i, i.values, Len(i.values), i.levels)
           /\ LettersBehind(pushed, i.levels, Letters(i.scanned, i.events + 1))
           /\ Top(popped, "reader") = Offset(pushed, "reader", 2 * Len(i.levels))
<1> DEFINE values == i.values
           levels == i.levels
           letters == Letters(i.scanned, i.events + 1)
           o == 2 * Len(levels)
<1>1. i \in Intentions /\ values \in Seq(Int \X Int) /\ levels \in Seq(Nat)
  BY ParsingIs, IntentionsOf
<1>2. Between(popped, i, values, levels) /\ LettersBehind(popped, levels, letters)
      /\ Top(popped, "reader") = Offset(popped, "reader", o)
  BY StringEnds
<1>3. o = 2 * Len(levels) /\ pushed \in Push(popped, "document", << Unwritten, Unwritten >>)
  BY DEF Blank
<1>. HIDE DEF values, levels, letters, o
<1>4. /\ ReadyFor(pushed, i, values, Len(values), levels) /\ LettersBehind(pushed, levels, letters)
      /\ Offset(pushed, "reader", o) = Offset(popped, "reader", o)
  BY <1>1, <1>2, <1>3, PlaceIsPushed, ZenonT(30)
<1>. QED BY <1>2, <1>4 DEF values, levels, letters, o

LEMMA TopOfReady ==
    ASSUME NEW m, NEW i, NEW values, NEW n \in Nat, NEW levels, ReadyFor(m, i, values, n, levels)
    PROVE  Top(m, "document") - VALUE = m.stacks["document"].at + n * VALUE
<1> DEFINE a == m.stacks["document"].at
           size == m.stacks["document"].size
<1>1. a \in Int /\ size = (n + 1) * VALUE
  BY StacksApart, StacksOf DEF ReadyFor
<1>2. Top(m, "document") = a + size
  BY DEF Top
<1>. HIDE DEF a, size
<1>3. (a + size) - VALUE = a + n * VALUE
  BY <1>1 DEF VALUE
<1>. QED BY <1>2, <1>3 DEF a

Text(length, x) == Append(Letters(length, x), Terminator)

LEMMA TextIs ==
    ASSUME NEW length \in Nat, NEW x \in Int
    PROVE  /\ Letters(length, x) \in Seq(Int) /\ Len(Letters(length, x)) = length
           /\ Text(length, x) \in Seq(Int)
  BY DEF Letters, Text, Terminator

LEMMA ReadyStringIsSet ==
    ASSUME NEW m, NEW i, NEW values, NEW n, NEW levels, ReadyFor(m, i, values, n, levels),
           i.blocks \in PoolBlocks, NEW length \in Nat, NEW event \in Int,
           LettersBehind(m, levels, Letters(length, event)), NEW at,
           NEW from, from = Offset(m, "reader", 2 * Len(levels)),
           NEW r \in SetStringRaw(m, at, event, from, length)
    PROVE  ValueIsSet(m, r, at, event, i.blocks, Text(length, event))
<1> DEFINE o == 2 * Len(levels)
           letters == Letters(length, event)
           blocks == i.blocks
<1>1. MemoryOK(m) /\ m.chunks # << >> /\ BlocksAt(m, blocks) /\ blocks \in PoolBlocks
  BY DEF ReadyFor
<1>2. Fits(o, letters, m.stacks["reader"].capacity) /\ Shows(m, Offset(m, "reader", o), letters)
      /\ from = Offset(m, "reader", o)
  BY DEF LettersBehind
<1>3. letters \in Seq(Int) /\ length = Len(letters)
  BY TextIs
<1>. HIDE DEF o, letters, blocks
<1>4. ValueIsSet(m, r, at, event, blocks, Append(letters, Terminator))
  BY <1>1, <1>2, <1>3, StacksApart, StringIsSet
<1>. QED BY <1>4 DEF blocks, letters, Text

\* A value is put behind the others, or in the place of the last ones.
LEMMA StringIsRead ==
    ASSUME NEW m, NEW i, Parsing(m, i), i.levels # << >> \/ i.values = << >>,
           NEW read \in Push(m, "reader", << Terminator >>),
           NEW popped, popped = Pop(read, "reader", i.scanned + 1),
           NEW pushed \in Push(popped, "document", Blank),
           NEW r \in SetStringRaw(pushed, Top(pushed, "document") - VALUE, i.events + 1,
                                  Top(popped, "reader"), i.scanned)
    PROVE  Parsing(r.memory, Intending(i, Append(i.values, << i.events + 1, r.block >>), i.levels,
                                       NewBlock(r.block, Text(i.scanned, i.events + 1))))
<1> DEFINE values == i.values
           levels == i.levels
           n == Len(values)
           length == i.scanned
           event == i.events + 1
           piece == Text(length, event)
           at == Top(pushed, "document") - VALUE
           from == Top(popped, "reader")
           value == << event, r.block >>
           more == Append(values, value)
           j == Intending(i, more, levels, NewBlock(r.block, piece))
<1>1. /\ i \in Intentions /\ i.letters = << >> /\ LevelsOK(values, levels) /\ AllRefer(values, i.blocks)
      /\ LevelsIn(values, levels)
  BY ParsingIs
<1>2. values \in Seq(Int \X Int) /\ levels \in Seq(Nat) /\ i.blocks \in PoolBlocks
      /\ length \in Nat /\ i.events \in Nat
  BY <1>1, IntentionsOf
<1>3. event \in Int /\ n \in Nat /\ n <= Len(values)
  BY <1>2
<1>4. /\ ReadyFor(pushed, i, values, n, levels) /\ LettersBehind(pushed, levels, Letters(length, event))
      /\ from = Offset(pushed, "reader", 2 * Len(levels))
  BY StringIsReady
<1>5. /\ r \in SetStringRaw(pushed, at, event, from, length) /\ event = i.events + 1
      /\ at = Top(pushed, "document") - VALUE /\ n = Len(values)
      /\ levels # << >> \/ values = << >>
  OBVIOUS
<1>6. piece \in Seq(Int)
  BY <1>2, <1>3, TextIs
<1>. HIDE DEF values, levels, n, length, event, at, from
<1>7. at = pushed.stacks["document"].at + n * VALUE
  BY <1>3, <1>4, <1>5, TopOfReady
<1>8. ValueIsSet(pushed, r, at, event, i.blocks, piece)
  BY <1>2, <1>3, <1>4, <1>5, ReadyStringIsSet
<1>9. value \in Int \X Int
  <2>1. r.block \in Int
    BY <1>8 DEF ValueIsSet
  <2>. QED BY <1>3, <2>1
<1>. HIDE DEF piece, value
<1>10. Puts(values, n, more, value)
  BY <1>2, <1>5, <1>9, Appended
<1>. HIDE DEF more, j
<1>11. LevelsOK(more, levels)
  BY <1>1, <1>2, <1>5, <1>10, LevelsStayOK
<1>12. LevelsBelow(levels, n)
  BY <1>1, <1>5 DEF LevelsIn, LevelsBelow
<1>13. j = Intending(i, more, levels, NewBlock(r.block, piece))
  BY DEF j
<1>14. Parsing(r.memory, j)
  BY <1>1, <1>2, <1>3, <1>4, <1>5, <1>6, <1>7, <1>8, <1>10, <1>11, <1>12, <1>13, ValueIsRead
     DEF values, value
<1>. QED BY <1>14 DEF j, more, value, values, event, piece, length, levels

ListElements(values, level, count) ==
    [ k \in 1 .. (count * VALUE) |-> values[level + 1 + ((k - 1) \div VALUE)][1 + ((k - 1) % VALUE)] ]

\* The values above the one that began a list, cell by cell.
LEMMA ElementsShown ==
    ASSUME NEW m, NEW values \in Seq(Int \X Int), ValuesAt(m, values), m.stacks["document"].at \in Int,
           NEW level \in Nat, NEW count \in Nat, level + count = Len(values)
    PROVE  /\ HasLength(ListElements(values, level, count), count * VALUE)
           /\ Shows(m, Offset(m, "document", level * VALUE), ListElements(values, level, count))
<1> DEFINE elements == ListElements(values, level, count)
           n == Len(values)
           a == m.stacks["document"].at
<1>1. n \in Nat /\ level + count = n /\ a \in Int
  OBVIOUS
<1>2. \A j \in 1 .. n : values[j] \in Int \X Int /\ Shows(m, a + (j - 1) * VALUE, values[j])
  BY DEF ValuesAt
<1>. HIDE DEF n, a
<1>3. ASSUME NEW k \in 1 .. (count * 2)
      PROVE  /\ values[level + 1 + ((k - 1) \div 2)][1 + ((k - 1) % 2)] \in Int
             /\ m.heap.cells[(a + level * 2) + k - 1] =
                    values[level + 1 + ((k - 1) \div 2)][1 + ((k - 1) % 2)]
  <2> DEFINE before == k - 1
  <2>1. before \in Int /\ 0 <= before /\ before < count * 2
    OBVIOUS
  <2>. HIDE DEF before
  <2>2. PICK q \in Int : \E rest \in 0 .. 1 : before = 2 * q + rest /\ q = before \div 2 /\ rest = before % 2
    BY <2>1, Division
  <2>3. PICK rest \in 0 .. 1 : before = 2 * q + rest /\ q = before \div 2 /\ rest = before % 2
    BY <2>2
  <2>4. 0 <= q /\ q < count
    BY <2>1, <2>3
  <2> DEFINE j == level + 1 + q
             i == 1 + rest
  <2>5. j \in 1 .. n /\ i \in 1 .. 2
    BY <1>1, <2>4
  <2>6. values[j] \in Int \X Int /\ Shows(m, a + (j - 1) * VALUE, values[j])
    BY <1>2, <2>5
  <2>7. Len(values[j]) = 2 /\ values[j][i] \in Int
    <3> DEFINE v == values[j]
    <3>1. v \in Int \X Int
      BY <2>6
    <3>2. i = 1 \/ i = 2
      BY <2>5
    <3>. HIDE DEF v, i
    <3>3. Len(v) = 2 /\ v[1] \in Int /\ v[2] \in Int
      BY <3>1, Pairs
    <3>4. v[i] \in Int
      BY <3>2, <3>3
    <3>. QED BY <3>3, <3>4 DEF v
  <2>8. m.heap.cells[(a + (j - 1) * VALUE) + i - 1] = values[j][i]
    <3>. HIDE DEF j, i
    <3>. QED BY <2>5, <2>6, <2>7 DEF Shows
  <2>9. (a + (j - 1) * VALUE) + i - 1 = (a + level * 2) + before
    BY <1>1, <2>3 DEF VALUE
  <2>10. (a + level * 2) + k - 1 = (a + level * 2) + before
    BY <1>1 DEF before
  <2>. QED BY <2>3, <2>7, <2>8, <2>9, <2>10 DEF before
<1>4. elements = [ k \in 1 .. (count * 2) |-> values[level + 1 + ((k - 1) \div 2)][1 + ((k - 1) % 2)] ]
  BY DEF ListElements, VALUE
<1>5. HasLength(elements, count * 2)
  <2> DEFINE size == count * 2
             At(k) == values[level + 1 + ((k - 1) \div 2)][1 + ((k - 1) % 2)]
  <2>1. size \in Nat /\ \A k \in 1 .. size : At(k) \in Int
    BY <1>3
  <2>2. elements = [ k \in 1 .. size |-> At(k) ]
    BY <1>4
  <2>. HIDE DEF size, At, elements
  <2>3. elements \in Seq(Int) /\ Len(elements) = size
    BY <2>1, <2>2
  <2>. QED BY <2>3 DEF HasLength, size
<1>6. ASSUME NEW k \in 1 .. (count * 2)
      PROVE  m.heap.cells[(a + level * 2) + k - 1] = elements[k]
  BY <1>3, <1>4, Zenon
<1>7. Len(elements) = count * 2
  BY <1>5 DEF HasLength
<1>. HIDE DEF elements
<1>8. Shows(m, Offset(m, "document", level * 2), elements)
  BY <1>6, <1>7 DEF Shows, Offset, a
<1>. QED BY <1>5, <1>8 DEF elements, VALUE

EndsAt(levels, l, level, further) ==
    /\ level = levels[l + 1]
    /\ further = SubSeq(levels, 1, l)

\* The values and the levels that are left when a list ends.
LEMMA LevelEnds ==
    ASSUME NEW values \in Seq(Int \X Int), NEW levels \in Seq(Nat), LevelsOK(values, levels),
           NEW l \in Nat, l + 1 = Len(levels), NEW level, NEW further, EndsAt(levels, l, level, further)
    PROVE  /\ level \in 1 .. Len(values)
           /\ further \in Seq(Nat) /\ Len(further) = l
           /\ \A k \in 1 .. l : further[k] = levels[k]
           /\ LevelsIn(values, further) /\ LevelsBelow(further, level - 1)
           /\ \A more, value : Puts(values, level - 1, more, value) => LevelsOK(more, further)
<1> DEFINE n == Len(values)
<1>1. /\ further \in Seq(Nat) /\ Len(further) = l
      /\ \A k \in 1 .. l : further[k] = levels[k]
      /\ level = levels[l + 1]
  BY DEF EndsAt
<1>2. /\ \A k \in 1 .. (l + 1) : levels[k] \in 1 .. n
      /\ \A j, k \in 1 .. (l + 1) : j < k => levels[j] < levels[k]
      /\ levels # << >> => levels[1] = 1
  BY DEF LevelsOK, LevelsIn
<1>3. levels # << >>
  OBVIOUS
<1>4. n \in Nat /\ level \in 1 .. n
  BY <1>1, <1>2
<1>. HIDE DEF n
<1>5. ASSUME NEW k \in 1 .. l
      PROVE  further[k] \in 1 .. n /\ further[k] \in 1 .. (level - 1)
  <2>1. k \in 1 .. (l + 1) /\ l + 1 \in 1 .. (l + 1) /\ k < l + 1
    OBVIOUS
  <2>2. levels[k] \in 1 .. n /\ levels[k] < level
    BY <1>1, <1>2, <2>1
  <2>. QED BY <1>1, <1>4, <2>2
<1>6. LevelsIn(values, further) /\ LevelsBelow(further, level - 1)
  BY <1>1, <1>5 DEF LevelsIn, LevelsBelow, n
<1>7. ASSUME NEW more, NEW value, Puts(values, level - 1, more, value)
      PROVE  LevelsOK(more, further)
  <2>1. Len(more) = (level - 1) + 1
    BY <1>7 DEF Puts
  <2>2. Len(more) = level
    BY <1>4, <2>1
  <2>3. LevelsIn(more, further)
    BY <1>1, <1>4, <1>5, <2>2 DEF LevelsIn
  <2>4. \A j, k \in 1 .. l : j < k => further[j] < further[k]
    <3>. SUFFICES ASSUME NEW j \in 1 .. l, NEW k \in 1 .. l, j < k PROVE further[j] < further[k]
      OBVIOUS
    <3>1. j \in 1 .. (l + 1) /\ k \in 1 .. (l + 1)
      OBVIOUS
    <3>. QED BY <1>1, <1>2, <3>1
  <2>5. further # << >> => further[1] = 1
    <3>. SUFFICES ASSUME further # << >> PROVE further[1] = 1
      OBVIOUS
    <3>1. 1 \in 1 .. l
      BY <1>1
    <3>. QED BY <1>1, <1>2, <1>3, <3>1
  <2>6. further = << >> => Len(more) <= 1
    <3>. SUFFICES ASSUME further = << >> PROVE Len(more) <= 1
      OBVIOUS
    <3>1. l = 0
      BY <1>1
    <3>2. level = 1
      BY <1>1, <1>2, <1>3, <3>1
    <3>. QED BY <2>2, <3>2
  <2>. QED BY <1>1, <2>3, <2>4, <2>5, <2>6 DEF LevelsOK
<1>. QED BY <1>1, <1>4, <1>6, <1>7 DEF n

\* What the stack of the document had behind the elements that are popped.
ElementsBehind(m, level, elements) ==
    /\ Fits(level * VALUE, elements, m.stacks["document"].capacity)
    /\ Shows(m, Offset(m, "document", level * VALUE), elements)

\* The reader pops what it kept of a level.
LEMMA LevelIsPopped ==
    ASSUME NEW m, NEW i, Parsing(m, i), i.scanned = 0,
           NEW l \in Nat, l + 1 = Len(i.levels),
           NEW g, g = Pop(m, "reader", 1), NEW r, r = Pop(g, "reader", 1)
    PROVE  /\ OnlyMoves(m, r, "reader") /\ r.heap = m.heap
           /\ r.stacks["reader"].at = m.stacks["reader"].at
           /\ r.stacks["reader"].size = 2 * l /\ 2 * l <= m.stacks["reader"].size
<1> DEFINE size == m.stacks["reader"].size
<1>1. MemoryOK(m) /\ ScannedAt(m, i.levels, 0, i.events + 1)
  BY ParsingIs
<1>2. size = 2 * l + 2
  BY <1>1 DEF ScannedAt
<1>3. Shrinks(m, g, "reader", size - 1)
  <2>1. 1 \in Nat /\ 1 <= size
    BY <1>2
  <2>2. size = m.stacks["reader"].size
    OBVIOUS
  <2>. HIDE DEF size
  <2>. QED BY <1>1, <2>1, <2>2, StacksApart, PopShrinks
<1>. HIDE DEF size
<1> DEFINE next == size - 1
<1>4. next = g.stacks["reader"].size /\ 1 <= next /\ MemoryOK(g)
  BY <1>2, <1>3 DEF Shrinks, OnlyMoves
<1>5. next - 1 = 2 * l /\ 2 * l <= size
  BY <1>2
<1>. HIDE DEF next
<1>6. Shrinks(g, r, "reader", next - 1)
  <2>1. 1 \in Nat
    OBVIOUS
  <2>. QED BY <1>4, <2>1, StacksApart, PopShrinks
<1>7. OnlyMoves(m, g, "reader") /\ OnlyMoves(g, r, "reader")
  BY <1>3, <1>6 DEF Shrinks
<1>8. OnlyMoves(m, r, "reader")
  BY <1>7, StacksApart, MovesTwice
<1>. QED BY <1>3, <1>5, <1>6, <1>8 DEF Shrinks, size

\* The list that ends: its own place, its elements, the levels that stay open.
LevelOf(i) == i.levels[Len(i.levels)]
FurtherOf(i) == SubSeq(i.levels, 1, Len(i.levels) - 1)
CountOf(i) == Len(i.values) - LevelOf(i)
ListOf(i) == ListElements(i.values, LevelOf(i), CountOf(i))
LevelPopped(m) == Pop(Pop(m, "reader", 1), "reader", 1)
ListPopped(m, i) == Pop(LevelPopped(m), "document", CountOf(i) * VALUE)

\* LevelEnds, of what was put there.
LEMMA LevelOfEnds ==
    ASSUME NEW m, NEW i, Parsing(m, i), NEW l \in Nat, l + 1 = Len(i.levels)
    PROVE  /\ LevelOf(i) \in 1 .. Len(i.values) /\ LevelOf(i) - 1 \in Nat
           /\ CountOf(i) \in Nat /\ LevelOf(i) + CountOf(i) = Len(i.values)
           /\ FurtherOf(i) \in Seq(Nat) /\ Len(FurtherOf(i)) = l
           /\ \A k \in 1 .. l : FurtherOf(i)[k] = i.levels[k]
           /\ LevelsIn(i.values, FurtherOf(i)) /\ LevelsBelow(FurtherOf(i), LevelOf(i) - 1)
           /\ \A more, value : Puts(i.values, LevelOf(i) - 1, more, value) => LevelsOK(more, FurtherOf(i))
<1> DEFINE values == i.values
           levels == i.levels
           level == levels[l + 1]
           further == SubSeq(levels, 1, l)
<1>1. i \in Intentions /\ LevelsOK(values, levels)
  BY ParsingIs
<1>2. values \in Seq(Int \X Int) /\ levels \in Seq(Nat)
  BY <1>1, IntentionsOf
<1>3. l + 1 = Len(levels) /\ Len(levels) - 1 = l
  OBVIOUS
<1>. HIDE DEF values, levels
<1>4. LevelOf(i) = level /\ FurtherOf(i) = further /\ CountOf(i) = Len(values) - level
  BY <1>3 DEF LevelOf, FurtherOf, CountOf, values, levels
<1>5. EndsAt(levels, l, level, further)
  BY DEF EndsAt
<1>. HIDE DEF level, further
<1>6. /\ level \in 1 .. Len(values)
      /\ further \in Seq(Nat) /\ Len(further) = l
      /\ \A k \in 1 .. l : further[k] = levels[k]
      /\ LevelsIn(values, further) /\ LevelsBelow(further, level - 1)
      /\ \A more, value : Puts(values, level - 1, more, value) => LevelsOK(more, further)
  BY <1>1, <1>2, <1>3, <1>5, LevelEnds, SMTT(30)
<1> DEFINE n == Len(values)
<1>7. n \in Nat
  BY <1>2
<1>8. level - 1 \in Nat /\ n - level \in Nat /\ level + (n - level) = n
  <2>. HIDE DEF n
  <2>. QED BY <1>6, <1>7 DEF n
<1>. QED BY <1>4, <1>6, <1>8 DEF n, values, levels

LEMMA ListIsReady ==
    ASSUME NEW m, NEW i, Parsing(m, i), i.scanned = 0, NEW l \in Nat, l + 1 = Len(i.levels)
    PROVE  /\ ReadyFor(ListPopped(m, i), i, i.values, LevelOf(i) - 1, FurtherOf(i))
           /\ ElementsBehind(ListPopped(m, i), LevelOf(i), ListOf(i))
           /\ HasLength(ListOf(i), CountOf(i) * VALUE)
           /\ Top(ListPopped(m, i), "document") = Offset(ListPopped(m, i), "document", LevelOf(i) * VALUE)
<1> DEFINE values == i.values
           levels == i.levels
           blocks == i.blocks
           n == Len(values)
           level == LevelOf(i)
           count == CountOf(i)
           further == FurtherOf(i)
           elements == ListOf(i)
           g == LevelPopped(m)
           r == ListPopped(m, i)
<1>1. /\ MemoryOK(m) /\ HeadersHold(m) /\ i \in Intentions /\ BlocksAt(m, blocks)
      /\ m.chunks # << >> /\ m.stacks["buffer"] = NoStack
      /\ ValuesAt(m, values) /\ LevelsAt(m, values, levels)
      /\ LevelsOK(values, levels) /\ LevelsIn(values, levels)
  BY ParsingIs
<1>2. values \in Seq(Int \X Int) /\ levels \in Seq(Nat) /\ blocks \in PoolBlocks /\ n \in Nat
  BY <1>1, IntentionsOf
<1>3. /\ level \in 1 .. n /\ further \in Seq(Nat) /\ Len(further) = l
      /\ \A k \in 1 .. l : further[k] = levels[k]
      /\ LevelsIn(values, further) /\ count \in Nat /\ level + count = n /\ level - 1 \in Nat
  BY LevelOfEnds
<1>5. /\ r = Pop(g, "document", count * VALUE) /\ n = Len(values) /\ l + 1 = Len(levels)
      /\ elements = ListElements(values, level, count)
  BY DEF ListPopped, ListOf
<1>6. /\ OnlyMoves(m, g, "reader") /\ g.heap = m.heap
      /\ g.stacks["reader"].at = m.stacks["reader"].at
      /\ g.stacks["reader"].size = 2 * l /\ 2 * l <= m.stacks["reader"].size
  BY LevelIsPopped DEF LevelPopped
<1>. HIDE DEF values, levels, blocks, n, level, count, further, elements, g, r
<1>4. level \in Nat /\ level - 1 <= n
  BY <1>2, <1>3
<1>7. StackKept(m, g, "document") /\ StackKept(m, g, "buffer") /\ MemoryOK(g)
  BY <1>6, StacksApart DEF OnlyMoves
<1>8. ValuesAt(g, values)
  BY <1>1, <1>2, <1>7, ValuesStay
<1>9. /\ g.stacks["document"].size = n * 2 /\ g.stacks["document"].at \in Int
      /\ g.stacks["document"].capacity \in Nat
      /\ g.stacks["document"].size <= g.stacks["document"].capacity
  BY <1>5, <1>7, <1>8, StacksApart, StacksOf DEF ValuesAt, VALUE
<1>10. Shrinks(g, r, "document", level * 2)
  <2> DEFINE cut == count * VALUE
             size == g.stacks["document"].size
  <2>2. /\ size = g.stacks["document"].size /\ r = Pop(g, "document", cut)
        /\ size = n * 2 /\ cut = count * 2
    BY <1>5, <1>9 DEF VALUE
  <2>. HIDE DEF cut, size
  <2>1. cut \in Nat /\ cut <= size /\ size - cut = level * 2
    BY <1>2, <1>3, <1>4, <2>2
  <2>3. Shrinks(g, r, "document", size - cut)
    BY <1>7, <2>1, <2>2, StacksApart, PopShrinks
  <2>. QED BY <2>1, <2>3
<1>11. /\ OnlyMoves(g, r, "document") /\ r.heap = g.heap
       /\ r.stacks["document"].at = g.stacks["document"].at
       /\ r.stacks["document"].capacity = g.stacks["document"].capacity
       /\ r.stacks["document"].size = level * 2
  BY <1>10 DEF Shrinks
<1>12. MemoryOK(r) /\ PoolKept(m, r) /\ r.chunks = m.chunks
  <2>1. MemoryOK(g) /\ PoolKept(m, g) /\ g.chunks = m.chunks
    BY <1>6, OneStackMoves
  <2>2. MemoryOK(r) /\ PoolKept(g, r) /\ r.chunks = g.chunks
    BY <1>11, OneStackMoves
  <2>3. PoolKept(m, r)
    BY <1>6, <1>11, <2>1, <2>2 DEF PoolKept, KeptIn
  <2>. QED BY <2>1, <2>2, <2>3
<1>13. BlocksAt(r, blocks) /\ HeadersHold(r)
  BY <1>1, <1>2, <1>12, PoolStays DEF PoolBlocks
<1>14. StackKept(g, r, "reader") /\ StackKept(g, r, "buffer")
  BY <1>11, StacksApart DEF OnlyMoves
<1>15. r.stacks["buffer"] = NoStack
  BY <1>1, <1>7, <1>14 DEF StackKept
<1>16. r.stacks["reader"].at = m.stacks["reader"].at /\ r.stacks["reader"].size = 2 * l
       /\ m.stacks["reader"].at \in Int
  BY <1>1, <1>6, <1>14, StacksApart, StacksOf DEF StackKept
<1>17. LevelsAt(r, values, further)
  <2>1. \A k \in 1 .. l : k \in 1 .. (l + 1)
    OBVIOUS
  <2>2. \A k \in 1 .. l : Shows(m, m.stacks["reader"].at + 2 * (k - 1), Twice(values[further[k]][1]))
    BY <1>1, <1>3, <1>5, <2>1 DEF LevelsAt
  <2>. QED BY <1>3, <1>6, <1>11, <1>16, <2>2 DEF LevelsAt, Shows
<1>18. ScannedAt(r, further, 0, 0)
  BY <1>3, <1>16 DEF ScannedAt
<1>19. r.stacks["document"].size = ((level - 1) + 1) * VALUE
  BY <1>4, <1>11 DEF VALUE
<1>20. FirstValuesAt(r, values, level - 1)
  <2>1. \A k \in 1 .. (level - 1) : k \in 1 .. n
    BY <1>2, <1>4
  <2>2. \A k \in 1 .. n : Shows(g, g.stacks["document"].at + (k - 1) * VALUE, values[k])
    BY <1>5, <1>8 DEF ValuesAt
  <2>3. \A k \in 1 .. (level - 1) : Shows(g, g.stacks["document"].at + (k - 1) * VALUE, values[k])
    BY <2>1, <2>2
  <2>. QED BY <1>11, <2>3 DEF FirstValuesAt, Shows
<1>21. ReadyFor(r, i, values, level - 1, further)
  BY <1>1, <1>3, <1>12, <1>13, <1>15, <1>17, <1>18, <1>19, <1>20 DEF ReadyFor, blocks
<1>22. HasLength(elements, count * VALUE) /\ Shows(g, Offset(g, "document", level * VALUE), elements)
  BY <1>2, <1>3, <1>4, <1>5, <1>8, <1>9, ElementsShown
<1>23. Shows(r, Offset(r, "document", level * VALUE), elements)
  BY <1>11, <1>22 DEF Shows, Offset
<1>24. Fits(level * VALUE, elements, r.stacks["document"].capacity)
  <2> DEFINE capacity == r.stacks["document"].capacity
  <2>1. n * 2 <= capacity /\ capacity \in Nat
    BY <1>9, <1>11
  <2>. HIDE DEF capacity
  <2>2. Len(elements) = count * 2
    BY <1>22 DEF HasLength, VALUE
  <2>3. level * 2 \in Nat /\ count * 2 \in Nat /\ level * 2 + count * 2 <= capacity
    BY <1>2, <1>3, <1>4, <2>1, SMTT(30)
  <2>4. Fits(level * 2, elements, capacity)
    BY <2>2, <2>3 DEF Fits
  <2>. QED BY <2>4 DEF capacity, VALUE
<1>25. Top(r, "document") = Offset(r, "document", level * VALUE)
  BY <1>11 DEF Top, Offset, VALUE
<1>. QED BY <1>21, <1>22, <1>23, <1>24, <1>25 DEF ElementsBehind, values, level, count, further, elements, r

LEMMA ListIsSet ==
    ASSUME NEW m, NEW i, NEW values, NEW n, NEW levels, ReadyFor(m, i, values, n, levels),
           i.blocks \in PoolBlocks, NEW level, NEW count \in Nat, NEW elements, NEW event \in Int,
           ElementsBehind(m, level, elements), HasLength(elements, count * VALUE),
           NEW at, NEW from, from = Offset(m, "document", level * VALUE),
           NEW r \in SetArrayRaw(m, at, event, from, count)
    PROVE  ValueIsSet(m, r, at, event, i.blocks, elements)
<1> DEFINE o == level * VALUE
           blocks == i.blocks
<1>1. MemoryOK(m) /\ m.chunks # << >> /\ BlocksAt(m, blocks) /\ blocks \in PoolBlocks
  BY DEF ReadyFor
<1>2. Fits(o, elements, m.stacks["document"].capacity) /\ Shows(m, Offset(m, "document", o), elements)
      /\ from = Offset(m, "document", o)
  BY DEF ElementsBehind
<1>. HIDE DEF o, blocks
<1>3. ValueIsSet(m, r, at, event, blocks, elements)
  BY <1>1, <1>2, StacksApart, ArrayIsSet
<1>. QED BY <1>3 DEF blocks

LEMMA FirstOnes ==
    ASSUME NEW S, NEW q \in Seq(S), NEW n \in Nat, n <= Len(q), NEW first, first = SubSeq(q, 1, n)
    PROVE  first \in Seq(S) /\ Len(first) = n /\ \A k \in 1 .. n : first[k] = q[k]
  OBVIOUS

\* Putting a value in the place of the last ones.
LEMMA Replaced ==
    ASSUME NEW values \in Seq(Int \X Int), NEW n \in Nat, n <= Len(values), NEW value \in Int \X Int,
           NEW more, more = Append(SubSeq(values, 1, n), value)
    PROVE  Puts(values, n, more, value)
<1> DEFINE S == Int \X Int
           first == SubSeq(values, 1, n)
<1>1. values \in Seq(S) /\ value \in S /\ more = Append(first, value)
  OBVIOUS
<1>. HIDE DEF S
<1>2. first \in Seq(S) /\ Len(first) = n /\ \A k \in 1 .. n : first[k] = values[k]
  BY <1>1, FirstOnes
<1>. HIDE DEF first
<1>3. /\ more \in Seq(S) /\ Len(more) = n + 1 /\ more[n + 1] = value
      /\ \A k \in 1 .. n : more[k] = first[k]
  BY <1>1, <1>2
<1>. QED BY <1>2, <1>3 DEF Puts, S

\* The value that the list becomes, and what is left above it.
LEMMA ListIsRead ==
    ASSUME NEW m, NEW i, Parsing(m, i), i.scanned = 0, i.levels # << >>,
           NEW r \in SetArrayRaw(ListPopped(m, i), Top(ListPopped(m, i), "document") - VALUE, i.events + 1,
                                 Top(ListPopped(m, i), "document"), CountOf(i))
    PROVE  Parsing(r.memory, Intending(i, Append(SubSeq(i.values, 1, LevelOf(i) - 1),
                                                 << i.events + 1, r.block >>),
                                       FurtherOf(i), NewBlock(r.block, ListOf(i))))
<1> DEFINE values == i.values
           popped == ListPopped(m, i)
           level == LevelOf(i)
           n == level - 1
           count == CountOf(i)
           further == FurtherOf(i)
           elements == ListOf(i)
           event == i.events + 1
           at == Top(popped, "document") - VALUE
           from == Top(popped, "document")
           value == << event, r.block >>
           before == SubSeq(values, 1, n)
           more == Append(before, value)
           j == Intending(i, more, further, NewBlock(r.block, elements))
<1>1. /\ i \in Intentions /\ i.letters = << >> /\ AllRefer(values, i.blocks)
  BY ParsingIs
<1>2. values \in Seq(Int \X Int) /\ i.blocks \in PoolBlocks /\ i.events \in Nat
  BY <1>1, IntentionsOf
<1>3. event \in Int
  BY <1>2
<1> DEFINE l == Len(i.levels) - 1
<1>4. l \in Nat /\ l + 1 = Len(i.levels)
  <2>1. i.levels \in Seq(Nat)
    BY <1>1, IntentionsOf
  <2>. QED BY <2>1
<1>. HIDE DEF l
<1>5. /\ level \in 1 .. Len(values) /\ n \in Nat
      /\ count \in Nat /\ level + count = Len(values)
      /\ further \in Seq(Nat) /\ LevelsBelow(further, n)
      /\ \A q, v : Puts(values, n, q, v) => LevelsOK(q, further)
  BY <1>4, LevelOfEnds
<1>6. /\ ReadyFor(popped, i, values, n, further) /\ ElementsBehind(popped, level, elements)
      /\ from = Offset(popped, "document", level * VALUE)
      /\ HasLength(elements, count * VALUE)
  BY <1>4, ListIsReady
<1>7. /\ r \in SetArrayRaw(popped, at, event, from, count) /\ event = i.events + 1
      /\ at = Top(popped, "document") - VALUE
      /\ elements = ListElements(values, level, count)
  BY DEF ListOf
<1>. HIDE DEF popped, level, count, further, elements, at, from
<1>8. n <= Len(values) /\ level = n + 1 /\ level \in Nat
  <2> DEFINE all == Len(values)
  <2>1. level \in 1 .. all /\ all \in Nat
    BY <1>2, <1>5
  <2>. HIDE DEF all
  <2>2. n <= all /\ level = n + 1 /\ level \in Nat
    BY <2>1
  <2>. QED BY <2>2 DEF all
<1>9. ValueIsSet(popped, r, at, event, i.blocks, elements)
  BY <1>2, <1>3, <1>5, <1>6, <1>7, ListIsSet
<1>10. at = popped.stacks["document"].at + n * VALUE
  <2>. HIDE DEF n
  <2>. QED BY <1>5, <1>6, <1>7, TopOfReady
<1>11. elements \in Seq(Int)
  BY <1>6 DEF HasLength
<1>12. value \in Int \X Int
  <2>1. r.block \in Int
    BY <1>9 DEF ValueIsSet
  <2>. QED BY <1>3, <2>1
<1>. HIDE DEF n, value
<1>13. more = Append(SubSeq(values, 1, n), value)
  BY DEF more
<1>. HIDE DEF values, more
<1>14. Puts(values, n, more, value)
  BY <1>2, <1>5, <1>8, <1>12, <1>13, Replaced DEF values
<1>. HIDE DEF j
<1>15. LevelsOK(more, further)
  BY <1>5, <1>14
<1>16. j = Intending(i, more, further, NewBlock(r.block, elements))
  BY DEF j
<1>17. Parsing(r.memory, j)
  BY <1>1, <1>5, <1>6, <1>7, <1>8, <1>9, <1>10, <1>11, <1>14, <1>15, <1>16, ValueIsRead DEF values, value
<1>. QED BY <1>17 DEF j, more, before, value, values, n, event, level, further, elements

\* ParseStream is left: the stacks of the document and of the reader go.
LEMMA ParseIsLeft ==
    ASSUME NEW m, MemoryOK(m), NEW r \in LeaveParse(m)
    PROVE  /\ MemoryOK(r) /\ PoolKept(m, r) /\ r.chunks = m.chunks
           /\ r.stacks["document"] = NoStack /\ r.stacks["reader"] = NoStack
           /\ r.stacks["buffer"] = m.stacks["buffer"]
<1> DEFINE g == Clear(m, "document")
           p == DestroyStack(g, "document")
           q == Clear(p, "reader")
<1>1. Shrinks(m, g, "document", 0)
  BY StacksApart, ClearShrinks
<1>2. g.stacks["document"].size = 0 /\ OnlyMoves(m, g, "document") /\ MemoryOK(g)
  BY <1>1 DEF Shrinks, OnlyMoves
<1>3. r = DestroyStack(q, "reader")
  <2>1. ShrinkToFit(g, "document") = {p}
    BY <1>2 DEF ShrinkToFit
  <2>. HIDE DEF p, g
  <2>. QED BY <2>1 DEF LeaveParse, g
<1>. HIDE DEF g
<1>4. OnlyMoves(g, p, "document") /\ p.stacks["document"] = NoStack /\ MemoryOK(p)
  <2>1. OnlyMoves(g, p, "document") /\ p.stacks["document"] = NoStack
    BY <1>2, StacksApart, StackIsDestroyed
  <2>. QED BY <2>1 DEF OnlyMoves
<1>. HIDE DEF p
<1>5. OnlyMoves(p, q, "reader") /\ MemoryOK(q)
  <2>1. Shrinks(p, q, "reader", 0)
    BY <1>4, StacksApart, ClearShrinks
  <2>. QED BY <2>1 DEF Shrinks, OnlyMoves
<1>. HIDE DEF q
<1>6. OnlyMoves(q, r, "reader") /\ r.stacks["reader"] = NoStack
  BY <1>3, <1>5, StacksApart, StackIsDestroyed
<1>7. OnlyMoves(m, p, "document") /\ OnlyMoves(p, r, "reader")
  BY <1>2, <1>4, <1>5, <1>6, StacksApart, MovesTwice
<1>8. /\ MemoryOK(p) /\ PoolKept(m, p) /\ p.chunks = m.chunks
      /\ MemoryOK(r) /\ PoolKept(p, r) /\ r.chunks = p.chunks
  BY <1>7, OneStackMoves
<1>9. PoolKept(m, r)
  BY <1>8 DEF PoolKept, KeptIn
<1>10. /\ StackKept(m, p, "buffer") /\ StackKept(p, r, "buffer") /\ StackKept(p, r, "document")
  BY <1>7, StacksApart DEF OnlyMoves
<1>. QED BY <1>4, <1>6, <1>8, <1>9, <1>10 DEF StackKept

LEMMA NotEmpty == ASSUME NEW S, NEW q \in Seq(S), q # << >> PROVE Len(q) \in Nat \ {0}
  OBVIOUS

\* What is intended when a parse ends.
Ending(i, root) == [ i EXCEPT !.values = << >>, !.levels = << >>, !.scanned = 0, !.root = root ]

LEMMA EndingIs ==
    ASSUME NEW i \in Intentions, NEW root \in Seq(Int)
    PROVE  /\ Ending(i, root) \in Intentions
           /\ Ending(i, root).values = << >> /\ Ending(i, root).levels = << >>
           /\ Ending(i, root).scanned = 0 /\ Ending(i, root).root = root
           /\ Ending(i, root).blocks = i.blocks /\ Ending(i, root).letters = i.letters
<1> DEFINE j == Ending(i, root)
<1>0. j = Ending(i, root)
  OBVIOUS
<1>. HIDE DEF j
<1>1. j = [ values |-> << >>, levels |-> << >>, scanned |-> 0, events |-> i.events,
            letters |-> i.letters, root |-> root, blocks |-> i.blocks ]
  BY <1>0 DEF Intentions, Ending
<1> DEFINE texts == Seq(Int)
           pairs == Seq(Int \X Int)
           naturals == Seq(Nat)
           none == << >>
<1>2. /\ none \in pairs /\ none \in naturals /\ i.letters \in texts /\ root \in texts
      /\ i.blocks \in PoolBlocks /\ i.events \in Nat
  BY IntentionsOf
<1>3. Intentions = [ values : pairs, levels : naturals, scanned : Nat, events : Nat,
                     letters : texts, root : texts, blocks : PoolBlocks ]
  BY DEF Intentions, PoolBlocks
<1>4. j = [ values |-> none, levels |-> none, scanned |-> 0, events |-> i.events,
            letters |-> i.letters, root |-> root, blocks |-> i.blocks ]
  BY <1>1
<1>. HIDE DEF texts, pairs, naturals, none
<1>5. j \in Intentions
  BY <1>2, <1>3, <1>4
<1>. QED BY <1>4, <1>5 DEF none, j

\* The root is what the last value was.
LEMMA RootIsTaken ==
    ASSUME NEW m, NEW i, Parsing(m, i), i.levels = << >>, i.values # << >>,
           NEW p, p = Pop(m, "document", VALUE), NEW root, root = Content(p.heap, Top(p, "document"), VALUE)
    PROVE  OnlyMoves(m, p, "document") /\ root \in Seq(Int) /\ Refers(root, i.blocks)
<1> DEFINE values == i.values
           a == m.stacks["document"].at
           size == m.stacks["document"].size
<1>1. /\ MemoryOK(m) /\ i \in Intentions /\ ValuesAt(m, values) /\ LevelsOK(values, i.levels)
      /\ AllRefer(values, i.blocks)
  BY ParsingIs
<1>2. values \in Seq(Int \X Int) /\ Len(values) = 1
  <2>1. values \in Seq(Int \X Int) /\ Len(values) <= 1 /\ values # << >>
    BY <1>1, IntentionsOf DEF LevelsOK
  <2>. HIDE DEF values
  <2> DEFINE n == Len(values)
  <2>2. n \in Nat \ {0} /\ n <= 1
    BY <2>1, NotEmpty
  <2>. HIDE DEF n
  <2>3. n = 1
    BY <2>2
  <2>. QED BY <2>1, <2>3 DEF n
<1>3. size = 2 /\ a \in Int /\ size = m.stacks["document"].size
  BY <1>1, <1>2, StacksApart, StacksOf DEF ValuesAt, VALUE
<1>. HIDE DEF values, size
<1>4. Shrinks(m, p, "document", 0)
  <2>1. 2 \in Nat /\ 2 <= size /\ size - 2 = 0 /\ p = Pop(m, "document", 2)
    BY <1>3 DEF VALUE
  <2>2. Shrinks(m, p, "document", size - 2)
    BY <1>1, <1>3, <2>1, StacksApart, PopShrinks
  <2>. QED BY <2>1, <2>2
<1>5. OnlyMoves(m, p, "document") /\ p.heap = m.heap /\ Top(p, "document") = a
  <2>1. OnlyMoves(m, p, "document") /\ p.heap = m.heap
        /\ p.stacks["document"].at = a /\ p.stacks["document"].size = 0
    BY <1>4 DEF Shrinks
  <2>. HIDE DEF a
  <2>. QED BY <1>3, <2>1 DEF Top
<1> DEFINE value == values[1]
<1>6. value \in Int \X Int /\ Refers(value, i.blocks) /\ Shows(m, a, value)
  <2>1. 1 \in 1 .. 1 /\ a + (1 - 1) * VALUE = a
    BY <1>3 DEF VALUE
  <2>2. Shows(m, a + (1 - 1) * VALUE, value)
    BY <1>1, <1>2, <2>1 DEF ValuesAt
  <2>3. Shows(m, a, value)
    <3>. HIDE DEF value, a
    <3>. QED BY <2>1, <2>2
  <2>4. value \in Int \X Int
    <3> DEFINE S == Int \X Int
    <3>1. values \in Seq(S) /\ Len(values) = 1
      BY <1>2
    <3>. HIDE DEF S
    <3>2. values[1] \in S
      BY <3>1, SMTT(30)
    <3>. QED BY <3>2 DEF S
  <2>. QED BY <1>1, <1>2, <2>1, <2>3, <2>4 DEF AllRefer
<1>. HIDE DEF value, a
<1>7. value \in Seq(Int) /\ Len(value) = 2 /\ value = << value[1], value[2] >>
      /\ value[1] \in Int /\ value[2] \in Int
  BY <1>6, Pairs
<1>8. m.heap.cells[a + 1 - 1] = value[1] /\ m.heap.cells[a + 2 - 1] = value[2]
  BY <1>6, <1>7 DEF Shows
<1>9. root = [ k \in 1 .. 2 |-> m.heap.cells[a + k - 1] ]
  BY <1>5 DEF Content, VALUE
<1>10. root = [ k \in 1 .. 2 |-> value[k] ]
  BY <1>8, <1>9
<1>11. root \in Seq(Int) /\ root[2] = value[2]
  BY <1>7, <1>10
<1>. QED BY <1>5, <1>6, <1>11 DEF Refers

LEMMA ParseIsFinished ==
    ASSUME NEW m, NEW i, Parsing(m, i), i.scanned = 0, i.levels = << >>, i.values # << >>,
           NEW p, p = Pop(m, "document", VALUE), NEW r \in LeaveParse(p)
    PROVE  Parsed(r, Ending(i, Content(p.heap, Top(p, "document"), VALUE)))
<1> DEFINE root == Content(p.heap, Top(p, "document"), VALUE)
           j == Ending(i, root)
<1>1. /\ i \in Intentions /\ m.chunks # << >> /\ m.stacks["buffer"] = NoStack /\ i.letters = << >>
      /\ MemoryOK(m) /\ HeadersHold(m) /\ BlocksAt(m, i.blocks)
  BY ParsingIs
<1>2. OnlyMoves(m, p, "document") /\ root \in Seq(Int) /\ Refers(root, i.blocks)
  BY RootIsTaken
<1>. HIDE DEF root
<1>4. /\ j \in Intentions /\ j.values = << >> /\ j.levels = << >> /\ j.scanned = 0
      /\ j.blocks = i.blocks /\ j.letters = i.letters /\ j.root = root
  BY <1>1, <1>2, EndingIs
<1>. HIDE DEF j
<1>5. MemoryOK(p) /\ HeadersHold(p) /\ BlocksAt(p, i.blocks) /\ p.chunks # << >>
  BY <1>2, PoolStaysIntended
<1>6. p.stacks["buffer"] = NoStack
  BY <1>1, <1>2, StacksApart DEF OnlyMoves, StackKept
<1>7. /\ MemoryOK(r) /\ PoolKept(p, r) /\ r.chunks = p.chunks
      /\ r.stacks["reader"] = NoStack /\ r.stacks["buffer"] = NoStack
  BY <1>5, <1>6, ParseIsLeft
<1>8. HeadersHold(r) /\ BlocksAt(r, i.blocks)
  <2>1. i.blocks \in SUBSET [ at : Int, content : Seq(Int) ]
    BY <1>1, IntentionsOf DEF PoolBlocks
  <2>. QED BY <1>5, <1>7, <2>1, PoolStays
<1>9. LettersAt(r, j.letters)
  BY <1>1, <1>4, <1>7 DEF LettersAt, NoStack, Shows
<1>10. Parsed(r, j)
  BY <1>2, <1>4, <1>5, <1>7, <1>8, <1>9 DEF Parsed, Failed, Idle, Kept
<1>. QED BY <1>10 DEF j, root

LEMMA ParseHasFailed ==
    ASSUME NEW m, NEW i, Parsing(m, i), NEW r \in LeaveParse(m)
    PROVE  Failed(r, Ending(i, i.root))
<1> DEFINE j == Ending(i, i.root)
<1>1. /\ i \in Intentions /\ m.chunks # << >>
      /\ MemoryOK(m) /\ HeadersHold(m) /\ BlocksAt(m, i.blocks)
  BY ParsingIs
<1>2. i.root \in Seq(Int)
  BY <1>1, IntentionsOf
<1>3. /\ j \in Intentions /\ j.values = << >> /\ j.levels = << >> /\ j.scanned = 0
      /\ j.blocks = i.blocks /\ j.letters = i.letters
  BY <1>1, <1>2, EndingIs
<1>. HIDE DEF j
<1>4. MemoryOK(r) /\ PoolKept(m, r) /\ r.chunks = m.chunks /\ r.stacks["reader"] = NoStack
  BY <1>1, ParseIsLeft
<1>5. HeadersHold(r) /\ BlocksAt(r, i.blocks)
  <2>1. i.blocks \in SUBSET [ at : Int, content : Seq(Int) ]
    BY <1>1, IntentionsOf DEF PoolBlocks
  <2>. QED BY <1>1, <1>4, <2>1, PoolStays
<1>. QED BY <1>1, <1>3, <1>4, <1>5 DEF Failed, Idle, Kept, j

(***************************************************************************)
(* The buffer that a body is written into; the end of the document.        *)
(***************************************************************************)
LEMMA BufferMoves ==
    ASSUME NEW m, NEW i, Failed(m, i), NEW r, OnlyMoves(m, r, "buffer")
    PROVE  /\ MemoryOK(r) /\ HeadersHold(r) /\ i \in Intentions /\ BlocksAt(r, i.blocks)
           /\ r.chunks # << >> /\ r.stacks["reader"] = NoStack
           /\ i.values = << >> /\ i.levels = << >> /\ i.scanned = 0
<1>1. /\ MemoryOK(m) /\ HeadersHold(m) /\ i \in Intentions /\ BlocksAt(m, i.blocks)
      /\ m.chunks # << >> /\ m.stacks["reader"] = NoStack
      /\ i.values = << >> /\ i.levels = << >> /\ i.scanned = 0
  BY DEF Failed, Idle, Kept
<1>2. MemoryOK(r) /\ PoolKept(m, r) /\ r.chunks = m.chunks
  BY OneStackMoves
<1>3. i.blocks \in SUBSET [ at : Int, content : Seq(Int) ]
  BY <1>1, IntentionsOf DEF PoolBlocks
<1>4. HeadersHold(r) /\ BlocksAt(r, i.blocks)
  BY <1>1, <1>2, <1>3, PoolStays
<1>5. r.stacks["reader"] = NoStack
  BY <1>1, StacksApart DEF OnlyMoves, StackKept
<1>. QED BY <1>1, <1>2, <1>4, <1>5

\* The letters, when another cell is behind them.
LEMMA LettersGrow ==
    ASSUME NEW m, MemoryOK(m), NEW letters \in Seq(Int), LettersAt(m, letters), NEW x \in Int,
           NEW n, n = Len(letters), NEW r \in Push(m, "buffer", << x >>)
    PROVE  /\ OnlyMoves(m, r, "buffer") /\ r.stacks["buffer"].at \in Nat
           /\ r.stacks["buffer"].size = n + 1
           /\ Shows(r, r.stacks["buffer"].at, letters)
           /\ r.heap.cells[r.stacks["buffer"].at + n] = x
<1> DEFINE one == << x >>
           a == m.stacks["buffer"].at
           b == r.stacks["buffer"].at
<1>1. one \in Seq(Int) /\ Len(one) > 0 /\ n \in Nat /\ r \in Push(m, "buffer", one)
  OBVIOUS
<1>. HIDE DEF one
<1>2. Grows(m, r, "buffer", one)
  BY <1>1, StacksApart, PushGrows
<1>3. n = m.stacks["buffer"].size
  BY DEF LettersAt
<1>4. /\ b \in Nat /\ r.stacks["buffer"].size = n + 1 /\ FirstKept(m, r, "buffer", n)
      /\ r.heap.cells[b + n] = x
  BY <1>2, <1>3, StacksApart, OneGrows DEF one
<1>5. a \in Int
  BY StacksApart, StacksOf
<1>6. ASSUME NEW k \in 1 .. n PROVE r.heap.cells[b + k - 1] = letters[k]
  <2> DEFINE before == k - 1
  <2>1. before \in 0 .. (n - 1) /\ b + k - 1 = b + before /\ a + k - 1 = a + before
    BY <1>1, <1>4, <1>5
  <2>2. m.heap.cells[a + k - 1] = letters[k]
    BY DEF LettersAt, Shows
  <2>. HIDE DEF before
  <2>3. r.heap.cells[b + before] = m.heap.cells[a + before]
    BY <1>4, <2>1 DEF FirstKept
  <2>. QED BY <2>1, <2>2, <2>3
<1>. QED BY <1>2, <1>4, <1>6 DEF Shows, Grows

Lettered(i, letter) == [ i EXCEPT !.letters = Append(i.letters, letter) ]

LEMMA LetteredIs ==
    ASSUME NEW i \in Intentions, NEW letter \in Int
    PROVE  /\ Lettered(i, letter) \in Intentions
           /\ Lettered(i, letter).values = i.values /\ Lettered(i, letter).levels = i.levels
           /\ Lettered(i, letter).scanned = i.scanned /\ Lettered(i, letter).root = i.root
           /\ Lettered(i, letter).blocks = i.blocks
           /\ Lettered(i, letter).letters = Append(i.letters, letter)
<1> DEFINE j == Lettered(i, letter)
           letters == Append(i.letters, letter)
<1>0. j = [ i EXCEPT !.letters = letters ] /\ letters \in Seq(Int)
  BY IntentionsOf DEF Lettered
<1>. HIDE DEF j, letters
<1> DEFINE texts == Seq(Int)
           pairs == Seq(Int \X Int)
           naturals == Seq(Nat)
<1>1. /\ i.values \in pairs /\ i.levels \in naturals /\ letters \in texts /\ i.root \in texts
      /\ i.blocks \in PoolBlocks /\ i.events \in Nat /\ i.scanned \in Nat
  BY <1>0, IntentionsOf
<1>2. Intentions = [ values : pairs, levels : naturals, scanned : Nat, events : Nat,
                     letters : texts, root : texts, blocks : PoolBlocks ]
  BY DEF Intentions, PoolBlocks
<1>3. j = [ values |-> i.values, levels |-> i.levels, scanned |-> i.scanned, events |-> i.events,
            letters |-> letters, root |-> i.root, blocks |-> i.blocks ]
  BY <1>0 DEF Intentions
<1>. HIDE DEF texts, pairs, naturals
<1>4. j \in Intentions
  BY <1>1, <1>2, <1>3
<1>. QED BY <1>3, <1>4 DEF j, letters

LEMMA LetterIsPut ==
    ASSUME NEW m, NEW i, Parsed(m, i), NEW letter, letter = Len(i.letters) + 1,
           NEW r \in Push(m, "buffer", << letter >>)
    PROVE  Parsed(r, Lettered(i, letter))
<1> DEFINE letters == i.letters
           n == Len(letters)
           j == Lettered(i, letter)
           more == Append(letters, letter)
<1>1. /\ Failed(m, i) /\ i \in Intentions /\ MemoryOK(m) /\ LettersAt(m, letters)
      /\ Refers(i.root, i.blocks)
  BY DEF Parsed, Failed, Idle, Kept
<1>2. letters \in Seq(Int) /\ n \in Nat /\ n = Len(letters) /\ letter = n + 1
  BY <1>1, IntentionsOf
<1>. HIDE DEF letters, n
<1>3. letter \in Int
  BY <1>2
<1>4. /\ OnlyMoves(m, r, "buffer") /\ r.stacks["buffer"].at \in Nat
      /\ r.stacks["buffer"].size = n + 1
      /\ Shows(r, r.stacks["buffer"].at, letters)
      /\ r.heap.cells[r.stacks["buffer"].at + n] = letter
  BY <1>1, <1>2, <1>3, LettersGrow
<1>5. /\ j \in Intentions /\ j.values = i.values /\ j.levels = i.levels /\ j.scanned = i.scanned
      /\ j.root = i.root /\ j.blocks = i.blocks /\ j.letters = more
  BY <1>1, <1>3, LetteredIs DEF letters
<1>6. Len(more) = n + 1 /\ more[n + 1] = letter /\ \A k \in 1 .. n : more[k] = letters[k]
  BY <1>2, <1>3
<1>. HIDE DEF j, more
<1>7. LettersAt(r, more)
  <2> DEFINE a == r.stacks["buffer"].at
  <2>1. a \in Nat /\ r.heap.cells[a + n] = letter /\ Shows(r, a, letters)
    BY <1>4
  <2>. HIDE DEF a
  <2>2. ASSUME NEW k \in 1 .. (n + 1) PROVE r.heap.cells[a + k - 1] = more[k]
    <3>1. CASE k \in 1 .. n
      BY <1>2, <1>6, <2>1, <3>1 DEF Shows
    <3>2. CASE k = n + 1
      <4>1. a + k - 1 = a + n
        BY <1>2, <2>1, <3>2
      <4>. QED BY <1>6, <2>1, <3>2, <4>1
    <3>. QED BY <1>2, <3>1, <3>2, UpToNext
  <2>. QED BY <1>4, <1>6, <2>2 DEF LettersAt, Shows, a
<1>8. /\ MemoryOK(r) /\ HeadersHold(r) /\ BlocksAt(r, i.blocks)
      /\ r.chunks # << >> /\ r.stacks["reader"] = NoStack
      /\ i.values = << >> /\ i.levels = << >> /\ i.scanned = 0
  BY <1>1, <1>4, BufferMoves
<1>9. Parsed(r, j)
  BY <1>1, <1>5, <1>7, <1>8 DEF Parsed, Failed, Idle, Kept
<1>. QED BY <1>9 DEF j

\* GetString: the terminator is above the letters, although it is popped.
LEMMA StringIsTaken ==
    ASSUME NEW m, NEW i, Parsed(m, i), NEW g \in Push(m, "buffer", << Terminator >>),
           NEW r, r = Pop(g, "buffer", 1)
    PROVE  Parsed(r, i) /\ Ended(r, i.letters)
<1> DEFINE letters == i.letters
           n == Len(letters)
           size == g.stacks["buffer"].size
           a == g.stacks["buffer"].at
<1>1. /\ Failed(m, i) /\ i \in Intentions /\ MemoryOK(m) /\ LettersAt(m, letters)
      /\ Refers(i.root, i.blocks)
  BY DEF Parsed, Failed, Idle, Kept
<1>2. letters \in Seq(Int) /\ n \in Nat /\ n = Len(letters) /\ Terminator \in Int
  BY <1>1, IntentionsOf DEF Terminator
<1>. HIDE DEF letters, n
<1>3. /\ OnlyMoves(m, g, "buffer") /\ a \in Nat /\ size = n + 1
      /\ Shows(g, a, letters) /\ g.heap.cells[a + n] = Terminator
  BY <1>1, <1>2, LettersGrow
<1>4. MemoryOK(g) /\ size <= g.stacks["buffer"].capacity /\ g.stacks["buffer"].capacity \in Nat
  <2>1. MemoryOK(g)
    BY <1>3 DEF OnlyMoves
  <2>. QED BY <2>1, StacksApart, StacksOf
<1>5. Shrinks(g, r, "buffer", n)
  <2>1. size = g.stacks["buffer"].size
    OBVIOUS
  <2>. HIDE DEF size, a
  <2>2. 1 \in Nat /\ 1 <= size /\ size - 1 = n
    BY <1>2, <1>3
  <2>3. Shrinks(g, r, "buffer", size - 1)
    BY <1>4, <2>1, <2>2, StacksApart, PopShrinks
  <2>. QED BY <2>2, <2>3
<1>6. /\ OnlyMoves(m, r, "buffer") /\ r.heap = g.heap
      /\ r.stacks["buffer"].at = a /\ r.stacks["buffer"].size = n
      /\ r.stacks["buffer"].capacity = g.stacks["buffer"].capacity
  BY <1>3, <1>5, StacksApart, MovesTwice DEF Shrinks
<1>7. LettersAt(r, letters)
  BY <1>2, <1>3, <1>6 DEF LettersAt, Shows
<1>8. Ended(r, letters)
  <2>1. a # NULL
    BY <1>3 DEF NULL
  <2> DEFINE capacity == g.stacks["buffer"].capacity
  <2>2. n + 1 <= capacity /\ capacity \in Nat
    BY <1>3, <1>4
  <2>. HIDE DEF capacity
  <2>3. n < capacity
    BY <1>2, <2>2
  <2>. QED BY <1>2, <1>3, <1>6, <2>1, <2>3 DEF Ended, capacity
<1>9. /\ MemoryOK(r) /\ HeadersHold(r) /\ BlocksAt(r, i.blocks)
      /\ r.chunks # << >> /\ r.stacks["reader"] = NoStack
      /\ i.values = << >> /\ i.levels = << >> /\ i.scanned = 0
  BY <1>1, <1>6, BufferMoves
<1>. QED BY <1>1, <1>7, <1>8, <1>9 DEF Parsed, Failed, Idle, Kept, letters

Released(i) == [ i EXCEPT !.blocks = {} ]

LEMMA ReleasedIs ==
    ASSUME NEW i \in Intentions
    PROVE  /\ Released(i) \in Intentions
           /\ Released(i).values = i.values /\ Released(i).levels = i.levels
           /\ Released(i).scanned = i.scanned /\ Released(i).blocks = {}
<1> DEFINE j == Released(i)
           none == {}
<1>0. j = [ i EXCEPT !.blocks = none ] /\ none \in PoolBlocks
  BY DEF Released, PoolBlocks
<1>. HIDE DEF j, none
<1> DEFINE texts == Seq(Int)
           pairs == Seq(Int \X Int)
           naturals == Seq(Nat)
<1>1. /\ i.values \in pairs /\ i.levels \in naturals /\ i.letters \in texts /\ i.root \in texts
      /\ i.events \in Nat /\ i.scanned \in Nat
  BY <1>0, IntentionsOf
<1>2. Intentions = [ values : pairs, levels : naturals, scanned : Nat, events : Nat,
                     letters : texts, root : texts, blocks : PoolBlocks ]
  BY DEF Intentions, PoolBlocks
<1>3. j = [ values |-> i.values, levels |-> i.levels, scanned |-> i.scanned, events |-> i.events,
            letters |-> i.letters, root |-> i.root, blocks |-> none ]
  BY <1>0 DEF Intentions
<1>. HIDE DEF texts, pairs, naturals
<1>4. j \in Intentions
  BY <1>0, <1>1, <1>2, <1>3
<1>. QED BY <1>3, <1>4 DEF j, none

LEMMA DocumentIsDestroyed ==
    ASSUME NEW m, NEW i, Failed(m, i),
           NEW r, r = DestroyPool(DestroyStack(DestroyStack(m, "buffer"), "document"))
    PROVE  Gone(r, Released(i))
<1> DEFINE g == DestroyStack(m, "buffer")
           q == DestroyStack(g, "document")
           j == Released(i)
<1>1. /\ MemoryOK(m) /\ i \in Intentions /\ m.chunks # << >> /\ m.stacks["reader"] = NoStack
      /\ i.values = << >> /\ i.levels = << >> /\ i.scanned = 0
  BY DEF Failed, Idle, Kept
<1>2. r = DestroyPool(q)
  OBVIOUS
<1>3. OnlyMoves(m, g, "buffer") /\ g.stacks["buffer"] = NoStack
  BY <1>1, StacksApart, StackIsDestroyed
<1>4. MemoryOK(g) /\ g.chunks = m.chunks /\ g.stacks["reader"] = NoStack
  BY <1>1, <1>3, StacksApart DEF OnlyMoves, StackKept
<1>. HIDE DEF g
<1>5. OnlyMoves(g, q, "document") /\ q.stacks["document"] = NoStack
  BY <1>4, StacksApart, StackIsDestroyed
<1>6. /\ MemoryOK(q) /\ q.chunks = g.chunks
      /\ q.stacks["reader"] = NoStack /\ q.stacks["buffer"] = NoStack
  BY <1>3, <1>4, <1>5, StacksApart DEF OnlyMoves, StackKept
<1>. HIDE DEF q
<1>7. \A name \in Names : q.stacks[name].at = NULL
  BY <1>5, <1>6 DEF Names, NoStack
<1>8. MemoryOK(r) /\ r.heap.blocks = {} /\ r.chunks = << >>
  BY <1>1, <1>2, <1>4, <1>6, <1>7, PoolIsDestroyed
<1>9. j \in Intentions /\ j.values = << >> /\ j.levels = << >> /\ j.scanned = 0 /\ j.blocks = {}
  BY <1>1, ReleasedIs
<1>. HIDE DEF j
<1>10. HeadersHold(r) /\ BlocksAt(r, j.blocks)
  <2>1. DOMAIN r.chunks = {}
    BY <1>8
  <2>. QED BY <1>9, <2>1 DEF HeadersHold, BlocksAt
<1>11. Gone(r, j)
  BY <1>8, <1>9, <1>10 DEF Gone, Kept
<1>. QED BY <1>11 DEF j

LEMMA DocumentIsConstructed ==
    ASSUME NEW m, NEW i, Unborn(m, i), NEW r \in ConstructPool(m)
    PROVE  Parsing(r, i)
<1>1. /\ MemoryOK(m) /\ HeadersHold(m) /\ i \in Intentions /\ BlocksAt(m, i.blocks)
      /\ m.chunks = << >> /\ m.stacks["document"] = NoStack
      /\ m.stacks["reader"] = NoStack /\ m.stacks["buffer"] = NoStack
      /\ i.values = << >> /\ i.levels = << >> /\ i.scanned = 0 /\ i.letters = << >>
  BY DEF Unborn, Idle, Kept
<1>2. MemoryOK(r) /\ r.stacks = m.stacks /\ Len(r.chunks) = 1
  BY <1>1, PoolIsConstructed
<1>3. i.blocks = {}
  <2>1. ASSUME NEW b \in i.blocks PROVE FALSE
    <3>1. Placed(m, b.at, Len(b.content))
      BY <1>1 DEF BlocksAt
    <3>2. DOMAIN m.chunks = {}
      BY <1>1
    <3>. QED BY <3>1, <3>2 DEF Placed
  <2>. QED BY <2>1
<1>4. BlocksAt(r, i.blocks)
  BY <1>3 DEF BlocksAt
<1>5. r.chunks # << >>
  BY <1>2
<1>6. HeadersHold(r)
  <2>. SUFFICES ASSUME NEW k \in DOMAIN r.chunks, k < Len(r.chunks) PROVE FALSE
    BY DEF HeadersHold
  <2>1. k \in 1 .. Len(r.chunks)
    BY <1>2, ChunksOf
  <2>. QED BY <1>2, <2>1
<1>7. ParseInv(r, i)
  <2>1. ValuesAt(r, i.values)
    BY <1>1, <1>2 DEF ValuesAt, NoStack, VALUE
  <2>2. LevelsAt(r, i.values, i.levels)
    BY <1>1 DEF LevelsAt
  <2>3. ScannedAt(r, i.levels, i.scanned, i.events + 1)
    BY <1>1, <1>2 DEF ScannedAt, NoStack
  <2>4. LevelsOK(i.values, i.levels)
    BY <1>1 DEF LevelsOK, LevelsIn
  <2>5. AllRefer(i.values, i.blocks)
    BY <1>1 DEF AllRefer
  <2>. QED BY <2>1, <2>2, <2>3, <2>4, <2>5 DEF ParseInv
<1>. QED BY <1>1, <1>2, <1>4, <1>5, <1>6, <1>7 DEF Parsing, Kept

StartsAs(m, i) ==
    /\ m = [ heap |-> [ blocks |-> {}, cells |-> [ c \in 0 .. (HEAP - 1) |-> Unwritten ] ],
             stacks |-> [ name \in { "document", "reader", "buffer" } |-> NoStack ], chunks |-> << >> ]
    /\ i = [ values |-> << >>, levels |-> << >>, blocks |-> {}, root |-> << >>, letters |-> << >>,
             scanned |-> 0, events |-> 0 ]

LEMMA NothingIsThere ==
    ASSUME NEW m, NEW i, StartsAs(m, i)
    PROVE  Unborn(m, i)
<1> DEFINE h == [ blocks |-> {}, cells |-> [ c \in Cell |-> Unwritten ] ]
           s == [ name \in Names |-> NoStack ]
           none == << >>
<1>1. m = [ heap |-> h, stacks |-> s, chunks |-> none ]
  BY DEF Cell, Names, StartsAs
<1>2. h \in Heaps /\ h.blocks = {}
  BY DEF Heaps, Unwritten
<1>3. NoStack \in [ at : Int, size : Nat, capacity : Nat ]
  BY DEF NoStack, NULL
<1>4. s \in [ Names -> [ at : Int, size : Nat, capacity : Nat ] ] /\ \A name \in Names : s[name] = NoStack
  BY <1>3
<1>5. none \in Seq([ at : Nat, capacity : Nat, size : Nat ]) /\ DOMAIN none = {}
  OBVIOUS
<1>. HIDE DEF h, s, none
<1>6. m \in Memories /\ m.heap = h /\ m.stacks = s /\ m.chunks = none
  <2> DEFINE tops == [ Names -> [ at : Int, size : Nat, capacity : Nat ] ]
             pieces == Seq([ at : Nat, capacity : Nat, size : Nat ])
  <2>1. s \in tops /\ none \in pieces /\ h \in Heaps
    BY <1>2, <1>4, <1>5
  <2>2. Memories = [ heap : Heaps, stacks : tops, chunks : pieces ]
    BY DEF Memories
  <2>. HIDE DEF tops, pieces
  <2>. QED BY <1>1, <2>1, <2>2
<1>7. MemoryOK(m)
  <2>1. HeapOK(m.heap)
    BY <1>2, <1>6 DEF HeapOK
  <2>2. \A name \in Names : StackOK(m, name)
    BY <1>4, <1>6 DEF StackOK, NoStack, NULL
  <2>3. \A k \in DOMAIN m.chunks : ChunkOK(m, k)
    BY <1>5, <1>6
  <2>4. OwnersApart(m)
    BY <1>4, <1>5, <1>6 DEF OwnersApart, NoStack, NULL
  <2>5. m.heap.blocks = {}
    BY <1>2, <1>6
  <2>. QED BY <1>6, <2>1, <2>2, <2>3, <2>4, <2>5 DEF MemoryOK
<1>8. HeadersHold(m)
  BY <1>5, <1>6 DEF HeadersHold
<1>9. i \in Intentions
  <2> DEFINE texts == Seq(Int)
             pairs == Seq(Int \X Int)
             naturals == Seq(Nat)
             nothing == {}
  <2>1. none \in pairs /\ none \in naturals /\ none \in texts /\ nothing \in PoolBlocks
    BY DEF none, PoolBlocks
  <2>2. Intentions = [ values : pairs, levels : naturals, scanned : Nat, events : Nat,
                       letters : texts, root : texts, blocks : PoolBlocks ]
    BY DEF Intentions, PoolBlocks
  <2>3. i = [ values |-> none, levels |-> none, blocks |-> nothing, root |-> none, letters |-> none,
              scanned |-> 0, events |-> 0 ]
    BY DEF none, StartsAs
  <2>. HIDE DEF texts, pairs, naturals, nothing
  <2>. QED BY <2>1, <2>2, <2>3
<1>10. BlocksAt(m, i.blocks)
  BY DEF BlocksAt, StartsAs
<1>11. \A name \in Names : m.stacks[name] = NoStack
  BY <1>4, <1>6
<1>12. m.chunks = << >>
  BY <1>6 DEF none
<1>13. i.values = << >> /\ i.levels = << >> /\ i.scanned = 0 /\ i.letters = << >>
  BY DEF StartsAs
<1>. QED BY <1>7, <1>8, <1>9, <1>10, <1>11, <1>12, <1>13, StacksApart DEF Unborn, Idle, Kept

(***************************************************************************)
(* The steps.                                                              *)
(***************************************************************************)
LEMMA MemoryOfNext ==
    ASSUME NEW m, MemoryOK(m), Becomes(m)
    PROVE  Memory' = m
<1>1. m \in Memories
  BY DEF MemoryOK
<1>2. m = [ heap |-> m.heap, stacks |-> m.stacks, chunks |-> m.chunks ]
  BY <1>1 DEF Memories
<1>. QED BY <1>2 DEF Becomes, Memory

LEMMA LifeOfNext ==
    ASSUME NEW m, MemoryOK(m), Becomes(m), LifeInv(m, life', intended')
    PROVE  MemoryInv'
<1>1. Memory' = m
  BY MemoryOfNext
<1>. QED BY <1>1 DEF MemoryInv

\* What is there before a step.
Present(m, i) == m = Memory /\ i = intended /\ LifeInv(m, life, i)

LEMMA ParsingBefore ==
    ASSUME NEW m, NEW i, Present(m, i), life = "parsing"
    PROVE  Parsing(m, i) /\ m = Memory /\ i = intended
  BY DEF Present, LifeInv

LEMMA ParsingNext ==
    ASSUME NEW r, Becomes(r), life' = "parsing", Parsing(r, intended')
    PROVE  MemoryInv'
<1>1. MemoryOK(r) /\ LifeInv(r, life', intended')
  BY DEF Parsing, Kept, LifeInv
<1>. QED BY <1>1, LifeOfNext

LEMMA PlainStep ==
    ASSUME NEW m, NEW i, Present(m, i), ReadPlain
    PROVE  MemoryInv'
<1> DEFINE event == i.events + 1
<1>1. /\ life = "parsing" /\ life' = "parsing" /\ intended.scanned = 0
      /\ intended.levels # << >> \/ intended.values = << >>
  BY DEF ReadPlain, Expected, NoString
<1>2. Parsing(m, i) /\ m = Memory /\ i = intended
  BY <1>1, ParsingBefore
<1>3. PICK r \in Push(m, "document", << event, NULL >>) : Becomes(r)
  BY <1>2 DEF ReadPlain, Event
<1>4. intended' = Intending(i, Append(i.values, << event, NULL >>), i.levels, {})
  BY <1>2 DEF ReadPlain, Intend, Event, Intending
<1>5. Parsing(r, intended')
  BY <1>1, <1>2, <1>4, PlainIsRead
<1>. QED BY <1>1, <1>3, <1>5, ParsingNext

LEMMA LetterStep ==
    ASSUME NEW m, NEW i, Present(m, i), ReadLetter
    PROVE  MemoryInv'
<1> DEFINE event == i.events + 1
<1>1. life = "parsing" /\ life' = "parsing"
  BY DEF ReadLetter, Expected
<1>2. Parsing(m, i) /\ m = Memory /\ i = intended
  BY <1>1, ParsingBefore
<1>3. PICK r \in Push(m, "reader", << event >>) : Becomes(r)
  BY <1>2 DEF ReadLetter, Event
<1>4. intended' = [ i EXCEPT !.scanned = @ + 1 ]
  BY <1>2 DEF ReadLetter
<1>5. Parsing(r, intended')
  BY <1>2, <1>4, LetterIsRead
<1>. QED BY <1>1, <1>3, <1>5, ParsingNext

LEMMA StartStep ==
    ASSUME NEW m, NEW i, Present(m, i), ReadStart
    PROVE  MemoryInv'
<1> DEFINE event == i.events + 1
<1>1. /\ life = "parsing" /\ life' = "parsing" /\ intended.scanned = 0
      /\ intended.levels # << >> \/ intended.values = << >>
  BY DEF ReadStart, Expected, NoString
<1>2. Parsing(m, i) /\ m = Memory /\ i = intended
  BY <1>1, ParsingBefore
<1>3. PICK p \in Push(m, "document", << event, NULL >>) :
        \E q \in Push(p, "reader", << event >>) : \E r \in Push(q, "reader", << event >>) : Becomes(r)
  BY <1>2 DEF ReadStart, Event
<1>4. PICK q \in Push(p, "reader", << event >>) : \E r \in Push(q, "reader", << event >>) : Becomes(r)
  BY <1>3
<1>5. PICK r \in Push(q, "reader", << event >>) : Becomes(r)
  BY <1>4
<1>6. intended' = Intending(i, Append(i.values, << event, NULL >>), Append(i.levels, Len(i.values) + 1), {})
  BY <1>2 DEF ReadStart, Intend, Event, Intending
<1>7. Parsing(r, intended')
  BY <1>1, <1>2, <1>6, StartIsRead
<1>. QED BY <1>1, <1>5, <1>7, ParsingNext

LEMMA IntendIs ==
    ASSUME NEW i, i = intended, NEW values, NEW levels, NEW blocks, Intend(values, levels, blocks)
    PROVE  intended' = Intending(i, values, levels, blocks)
  BY DEF Intend, Intending, Event

\* What the end of a string is: a result, and what is intended then.
StringDone(r) ==
    /\ Becomes(r.memory)
    /\ Intend(Append(intended.values, << Event, r.block >>), intended.levels,
              NewBlock(r.block, Text(intended.scanned, Event)))

LEMMA StringStep ==
    ASSUME NEW m, NEW i, Present(m, i), ReadString
    PROVE  MemoryInv'
<1> DEFINE event == i.events + 1
           length == i.scanned
<1>1. /\ life = "parsing" /\ life' = "parsing"
      /\ intended.levels # << >> \/ intended.values = << >>
  BY DEF ReadString, Expected
<1>2. Parsing(m, i) /\ m = Memory /\ i = intended
  BY <1>1, ParsingBefore
<1>3. PICK read \in Push(Memory, "reader", << Terminator >>) :
        \E pushed \in Push(Pop(read, "reader", intended.scanned + 1), "document", Blank) :
          \E r \in SetStringRaw(pushed, Top(pushed, "document") - VALUE, Event,
                                Top(Pop(read, "reader", intended.scanned + 1), "reader"), intended.scanned) :
            StringDone(r)
  BY DEF ReadString, StringDone, NewBlock, Text, Letters, Blank
<1> DEFINE popped == Pop(read, "reader", length + 1)
<1>4. PICK pushed \in Push(popped, "document", Blank) :
        \E r \in SetStringRaw(pushed, Top(pushed, "document") - VALUE, event, Top(popped, "reader"), length) :
          StringDone(r)
  BY <1>2, <1>3 DEF Event
<1>5. PICK r \in SetStringRaw(pushed, Top(pushed, "document") - VALUE, event, Top(popped, "reader"), length) :
        StringDone(r)
  BY <1>4
<1> DEFINE j == Intending(i, Append(i.values, << event, r.block >>), i.levels,
                          NewBlock(r.block, Text(length, event)))
<1>6. Parsing(r.memory, j)
  BY <1>1, <1>2, <1>3, <1>5, StringIsRead
<1>7. Becomes(r.memory) /\ intended' = j
  BY <1>2, <1>5, IntendIs DEF StringDone, Event
<1>. QED BY <1>1, <1>6, <1>7, ParsingNext

ListDone(r) ==
    /\ Becomes(r.memory)
    /\ Intend(Append(SubSeq(intended.values, 1, LevelOf(intended) - 1), << Event, r.block >>),
              FurtherOf(intended), NewBlock(r.block, ListOf(intended)))

LEMMA EndStep ==
    ASSUME NEW m, NEW i, Present(m, i), ReadEnd
    PROVE  MemoryInv'
<1> DEFINE event == i.events + 1
           popped == ListPopped(m, i)
<1>1. /\ life = "parsing" /\ life' = "parsing" /\ intended.scanned = 0 /\ intended.levels # << >>
  BY DEF ReadEnd, NoString
<1>2. Parsing(m, i) /\ m = Memory /\ i = intended
  BY <1>1, ParsingBefore
<1>3. \E r \in SetArrayRaw(ListPopped(Memory, intended),
                           Top(ListPopped(Memory, intended), "document") - VALUE,
                           Event, Top(ListPopped(Memory, intended), "document"), CountOf(intended)) :
        ListDone(r)
  BY DEF ReadEnd, ListDone, NewBlock, ListPopped, LevelPopped, LevelOf, CountOf, FurtherOf,
         ListOf, ListElements
<1>4. PICK r \in SetArrayRaw(popped, Top(popped, "document") - VALUE, event,
                             Top(popped, "document"), CountOf(i)) :
        ListDone(r)
  BY <1>2, <1>3 DEF Event
<1> DEFINE j == Intending(i, Append(SubSeq(i.values, 1, LevelOf(i) - 1), << event, r.block >>),
                          FurtherOf(i), NewBlock(r.block, ListOf(i)))
<1>5. Parsing(r.memory, j)
  BY <1>1, <1>2, <1>4, ListIsRead
<1>6. Becomes(r.memory) /\ intended' = j
  BY <1>2, <1>4, IntendIs DEF ListDone, Event
<1>. QED BY <1>1, <1>5, <1>6, ParsingNext

LEMMA ConstructStep ==
    ASSUME NEW m, NEW i, Present(m, i), ConstructDocument
    PROVE  MemoryInv'
<1>1. life = "none" /\ life' = "parsing" /\ intended' = intended
  BY DEF ConstructDocument
<1>2. Unborn(m, i) /\ m = Memory /\ i = intended
  BY <1>1 DEF Present, LifeInv
<1>3. PICK r \in ConstructPool(m) : Becomes(r)
  BY <1>2 DEF ConstructDocument
<1>4. Parsing(r, i)
  BY <1>2, DocumentIsConstructed
<1>. QED BY <1>1, <1>2, <1>3, <1>4, ParsingNext

LEMMA FinishedStep ==
    ASSUME NEW m, NEW i, Present(m, i), Finished
    PROVE  MemoryInv'
<1> DEFINE p == Pop(m, "document", VALUE)
           j == Ending(i, Content(p.heap, Top(p, "document"), VALUE))
<1>1. /\ life = "parsing" /\ life' = "parsed" /\ intended.scanned = 0
      /\ intended.levels = << >> /\ intended.values # << >>
  BY DEF Finished, NoString
<1>2. Parsing(m, i) /\ m = Memory /\ i = intended
  BY <1>1, ParsingBefore
<1>3. PICK r \in LeaveParse(p) : Becomes(r)
  BY <1>2 DEF Finished
<1>4. intended' = [ i EXCEPT !.values = << >>, !.root = Content(p.heap, Top(p, "document"), VALUE) ]
  BY <1>2 DEF Finished
<1>5. i \in Intentions /\ i.levels = << >> /\ i.scanned = 0
  BY <1>1, <1>2 DEF Parsing, Kept
<1>6. intended' = j
  <2> DEFINE root == Content(p.heap, Top(p, "document"), VALUE)
  <2>1. intended' = [ i EXCEPT !.values = << >>, !.root = root ]
    BY <1>4
  <2>. HIDE DEF root
  <2>2. intended' = Ending(i, root)
    BY <1>5, <2>1 DEF Ending, Intentions
  <2>. QED BY <2>2 DEF root
<1>7. Parsed(r, j)
  BY <1>1, <1>2, <1>3, ParseIsFinished
<1>. HIDE DEF j
<1>8. MemoryOK(r) /\ LifeInv(r, life', intended')
  BY <1>1, <1>6, <1>7 DEF Parsed, Failed, Idle, Kept, LifeInv
<1>. QED BY <1>3, <1>8, LifeOfNext

LEMMA FailedStep ==
    ASSUME NEW m, NEW i, Present(m, i), ParseFailed
    PROVE  MemoryInv'
<1> DEFINE j == Ending(i, i.root)
<1>1. life = "parsing" /\ life' = "failed"
  BY DEF ParseFailed
<1>2. Parsing(m, i) /\ m = Memory /\ i = intended
  BY <1>1, ParsingBefore
<1>3. PICK r \in LeaveParse(m) : Becomes(r)
  BY <1>2 DEF ParseFailed
<1>4. i \in Intentions
  BY <1>2 DEF Parsing, Kept
<1>5. intended' = j
  <2>1. intended' = [ i EXCEPT !.values = << >>, !.levels = << >>, !.scanned = 0 ]
    BY <1>2 DEF ParseFailed
  <2>. QED BY <1>4, <2>1 DEF Ending, Intentions
<1>6. Failed(r, j)
  BY <1>2, <1>3, ParseHasFailed
<1>. HIDE DEF j
<1>7. MemoryOK(r) /\ LifeInv(r, life', intended')
  BY <1>1, <1>5, <1>6 DEF Failed, Idle, Kept, LifeInv
<1>. QED BY <1>3, <1>7, LifeOfNext

LEMMA PutStep ==
    ASSUME NEW m, NEW i, Present(m, i), PutLetter
    PROVE  MemoryInv'
<1> DEFINE letter == Len(i.letters) + 1
           j == Lettered(i, letter)
<1>1. life = "parsed" /\ life' = "parsed"
  BY DEF PutLetter
<1>2. Parsed(m, i) /\ m = Memory /\ i = intended
  BY <1>1 DEF Present, LifeInv
<1>3. PICK r \in Push(m, "buffer", << letter >>) : Becomes(r)
  BY <1>2 DEF PutLetter
<1>4. intended' = j
  BY <1>2 DEF PutLetter, Lettered
<1>5. Parsed(r, j)
  BY <1>2, <1>3, LetterIsPut
<1>. HIDE DEF j
<1>6. MemoryOK(r) /\ LifeInv(r, life', intended')
  BY <1>1, <1>4, <1>5 DEF Parsed, Failed, Idle, Kept, LifeInv
<1>. QED BY <1>3, <1>6, LifeOfNext

LEMMA TakeStep ==
    ASSUME NEW m, NEW i, Present(m, i), TakeString
    PROVE  MemoryInv'
<1>1. life = "parsed" /\ life' = "written" /\ intended' = intended
  BY DEF TakeString
<1>2. Parsed(m, i) /\ m = Memory /\ i = intended
  BY <1>1 DEF Present, LifeInv
<1>3. PICK g \in Push(m, "buffer", << Terminator >>) : Becomes(Pop(g, "buffer", 1))
  BY <1>2 DEF TakeString
<1> DEFINE r == Pop(g, "buffer", 1)
<1>4. Parsed(r, i) /\ Ended(r, i.letters)
  BY <1>2, <1>3, StringIsTaken
<1>5. Becomes(r)
  BY <1>3
<1>. HIDE DEF r
<1>6. MemoryOK(r) /\ LifeInv(r, life', intended')
  BY <1>1, <1>2, <1>4 DEF Parsed, Failed, Idle, Kept, LifeInv
<1>. QED BY <1>5, <1>6, LifeOfNext

LEMMA DestroyStep ==
    ASSUME NEW m, NEW i, Present(m, i), DestroyDocument
    PROVE  MemoryInv'
<1>1. life \in { "written", "failed" } /\ life' = "gone"
  BY DEF DestroyDocument
<1>2. Failed(m, i) /\ m = Memory /\ i = intended
  BY <1>1 DEF Present, LifeInv, Parsed
<1>3. intended' = Released(i)
  BY <1>2 DEF DestroyDocument, Released
<1> DEFINE r == DestroyPool(DestroyStack(DestroyStack(m, "buffer"), "document"))
<1>4. Gone(r, Released(i))
  BY <1>2, DocumentIsDestroyed
<1>5. Becomes(r)
  BY <1>2 DEF DestroyDocument
<1>. HIDE DEF r
<1>6. MemoryOK(r) /\ LifeInv(r, life', intended')
  BY <1>1, <1>3, <1>4 DEF Gone, Kept, LifeInv
<1>. QED BY <1>5, <1>6, LifeOfNext

LEMMA MemoryStep ==
    ASSUME MemoryInv, [MemoryNext]_memoryVars
    PROVE  MemoryInv'
<1>1. PICK m, i : m = Memory /\ i = intended
  OBVIOUS
<1>2. Present(m, i)
  BY <1>1 DEF Present, MemoryInv
<1>3. CASE ConstructDocument
  BY <1>2, <1>3, ConstructStep
<1>4. CASE ReadPlain
  BY <1>2, <1>4, PlainStep
<1>5. CASE ReadLetter
  BY <1>2, <1>5, LetterStep
<1>6. CASE ReadString
  BY <1>2, <1>6, StringStep
<1>7. CASE ReadStart
  BY <1>2, <1>7, StartStep
<1>8. CASE ReadEnd
  BY <1>2, <1>8, EndStep
<1>9. CASE Finished
  BY <1>2, <1>9, FinishedStep
<1>10. CASE ParseFailed
  BY <1>2, <1>10, FailedStep
<1>11. CASE PutLetter
  BY <1>2, <1>11, PutStep
<1>12. CASE TakeString
  BY <1>2, <1>12, TakeStep
<1>13. CASE DestroyDocument
  BY <1>2, <1>13, DestroyStep
<1>14. CASE UNCHANGED memoryVars
  <2>1. Memory' = Memory /\ life' = life /\ intended' = intended
    BY <1>14 DEF memoryVars, Memory
  <2>. QED BY <2>1 DEF MemoryInv
<1>. QED BY <1>3, <1>4, <1>5, <1>6, <1>7, <1>8, <1>9, <1>10, <1>11, <1>12, <1>13, <1>14 DEF MemoryNext

LEMMA MemoryBegins ==
    ASSUME MemoryStart
    PROVE  MemoryInv
<1>1. PICK m, i : m = Memory /\ i = intended
  OBVIOUS
<1>2. StartsAs(m, i) /\ life = "none"
  BY <1>1 DEF MemoryStart, StartsAs, Memory
<1>3. Unborn(m, i)
  BY <1>2, NothingIsThere
<1>. QED BY <1>1, <1>2, <1>3 DEF MemoryInv, LifeInv

(***************************************************************************)
(* What the invariant says of the heap.                                    *)
(***************************************************************************)
Inside(m, at, n) == \E b \in m.heap.blocks : Span(at, n) \subseteq Span(b.at, b.size)

LEMMA ShownHolds ==
    ASSUME NEW m, m = Memory, NEW at, NEW content \in Seq(Int),
           Shows(m, at, content), Inside(m, at, Len(content))
    PROVE  Holds(at, content)
<1> DEFINE n == Len(content)
<1>1. heap = m.heap
  BY DEF Memory
<1>2. content = [ k \in 1 .. n |-> content[k] ]
  OBVIOUS
<1>3. Content(heap, at, n) = [ k \in 1 .. n |-> m.heap.cells[at + k - 1] ]
  BY <1>1 DEF Content
<1>4. \A k \in 1 .. n : m.heap.cells[at + k - 1] = content[k]
  BY DEF Shows
<1>5. Content(heap, at, n) = content
  <2>. HIDE DEF n
  <2>. QED BY <1>2, <1>3, <1>4
<1>. QED BY <1>1, <1>5 DEF Holds, Inside

LEMMA SpanWithin ==
    ASSUME NEW at \in Int, NEW n \in Nat, NEW from \in Int, NEW size \in Nat,
           from <= at, at + n <= from + size
    PROVE  Span(at, n) \subseteq Span(from, size)
  BY DEF Span

LEMMA PartInside ==
    ASSUME NEW m, NEW a \in Int, NEW capacity \in Nat, NEW from \in Nat, NEW n \in Nat,
           from + n <= capacity, Block(a, capacity) \in m.heap.blocks
    PROVE  Inside(m, a + from, n)
<1>1. Span(a + from, n) \subseteq Span(a, capacity)
  BY SpanWithin
<1>. QED BY <1>1 DEF Inside, Block

LEMMA NothingInside ==
    ASSUME NEW m, NEW at \in Int, NEW b \in m.heap.blocks
    PROVE  Inside(m, at, 0)
<1>1. Span(at, 0) = {}
  BY DEF Span
<1>. QED BY <1>1 DEF Inside

Room(m, name, n) == n <= m.stacks[name].capacity

\* A part of a stack is in a block; of nothing, any block will do.
LEMMA StackContains ==
    ASSUME NEW m, MemoryOK(m), m.chunks # << >>, NEW name \in Names, NEW from \in Nat, NEW n \in Nat,
           Room(m, name, from + n)
    PROVE  Inside(m, Offset(m, name, from), n)
<1> DEFINE a == m.stacks[name].at
           capacity == m.stacks[name].capacity
<1>0. from + n <= capacity
  BY DEF Room
<1>1. /\ a \in Int /\ capacity \in Nat
      /\ a = NULL => capacity = 0
      /\ a # NULL => Block(a, capacity) \in m.heap.blocks
  BY StacksOf
<1>2. Offset(m, name, from) = a + from
  BY DEF Offset
<1>. HIDE DEF a, capacity
<1>3. CASE a = NULL
  <2>1. n = 0 /\ a + from \in Int
    BY <1>0, <1>1, <1>3
  <2>2. 1 \in DOMAIN m.chunks
    <3>1. m.chunks \in Seq([ at : Nat, capacity : Nat, size : Nat ])
      BY DEF MemoryOK, Memories
    <3>. QED BY <3>1
  <2>3. BlockOfChunk(m.chunks, 1) \in m.heap.blocks
    BY <2>2, ChunksOf
  <2>. QED BY <1>2, <2>1, <2>3, NothingInside
<1>4. CASE a # NULL
  BY <1>0, <1>1, <1>2, <1>4, PartInside
<1>. QED BY <1>3, <1>4

LEMMA ChunkContains ==
    ASSUME NEW m, MemoryOK(m), NEW k \in DOMAIN m.chunks, NEW at \in Int, NEW n \in Nat,
           NEW c, c = m.chunks[k], InChunk(c, at, n)
    PROVE  Inside(m, at, n)
<1> DEFINE b == BlockOfChunk(m.chunks, k)
<1>1. /\ b \in m.heap.blocks /\ c.at \in Nat /\ c.size \in Nat /\ c.capacity \in Nat
      /\ c.size <= c.capacity /\ b.at <= c.at
      /\ b.at + b.size = c.at + CHUNK_HEADER + c.capacity
  BY ChunksOf
<1>2. b.at \in Nat /\ b.size \in Nat
  BY <1>1, BlocksOf DEF MemoryOK
<1>3. CHUNK_HEADER \in Nat
  BY HeaderSize
<1>4. c.at + CHUNK_HEADER <= at /\ at + n <= c.at + CHUNK_HEADER + c.size
  BY DEF InChunk, Buffer
<1> DEFINE from == b.at
           size == b.size
           start == c.at
           used == c.size
           capacity == c.capacity
<1>5. /\ start \in Nat /\ used \in Nat /\ capacity \in Nat /\ used <= capacity /\ from <= start
      /\ from + size = start + CHUNK_HEADER + capacity /\ from \in Nat /\ size \in Nat
      /\ start + CHUNK_HEADER <= at /\ at + n <= start + CHUNK_HEADER + used
  BY <1>1, <1>2, <1>4
<1>. HIDE DEF from, size, start, used, capacity
<1>6. from <= at /\ at + n <= from + size
  BY <1>3, <1>5
<1>7. Span(at, n) \subseteq Span(from, size)
  BY <1>5, <1>6, SpanWithin
<1>. QED BY <1>1, <1>7 DEF Inside, from, size

\* A part of a stack that shows what it was given.
LEMMA StackHolds ==
    ASSUME NEW m, m = Memory, MemoryOK(m), m.chunks # << >>, NEW name \in Names, NEW from \in Nat,
           NEW content \in Seq(Int), Room(m, name, from + Len(content)),
           NEW at, at = Offset(m, name, from), Shows(m, at, content)
    PROVE  Holds(at, content)
<1>1. Len(content) \in Nat
  OBVIOUS
<1>2. Inside(m, at, Len(content))
  BY <1>1, StackContains
<1>. QED BY <1>2, ShownHolds

LEMMA ValuesHold ==
    ASSUME NEW m, NEW i, m = Memory, i = intended, Parsing(m, i), NEW k \in DOMAIN i.values
    PROVE  Holds(m.stacks["document"].at + (k - 1) * VALUE, i.values[k])
<1> DEFINE values == i.values
           value == values[k]
           n == Len(values)
           from == (k - 1) * VALUE
           at == m.stacks["document"].at + from
<1>1. MemoryOK(m) /\ m.chunks # << >> /\ ValuesAt(m, values) /\ i \in Intentions
  BY ParsingIs
<1>2. n \in Nat /\ k \in 1 .. n /\ value \in Int \X Int
  <2> DEFINE S == Int \X Int
  <2>1. values \in Seq(S)
    BY <1>1, IntentionsOf
  <2>2. k \in DOMAIN values
    OBVIOUS
  <2>. HIDE DEF S, values
  <2>3. Len(values) \in Nat /\ k \in 1 .. Len(values) /\ values[k] \in S
    BY <2>1, <2>2
  <2>. QED BY <2>3 DEF S
<1>3. value \in Seq(Int) /\ Len(value) = 2
  BY <1>2, Pairs
<1>4. Shows(m, at, value) /\ m.stacks["document"].size = n * VALUE
  BY <1>1, <1>2 DEF ValuesAt
<1>5. from \in Nat /\ from + 2 <= n * 2
  BY <1>2 DEF VALUE
<1>6. Room(m, "document", from + Len(value))
  <2> DEFINE capacity == m.stacks["document"].capacity
             size == m.stacks["document"].size
  <2>1. size <= capacity /\ capacity \in Nat /\ size = n * 2
    BY <1>1, <1>4, StacksApart, StacksOf DEF VALUE
  <2>. HIDE DEF capacity, size, from, value
  <2>2. from + Len(value) <= capacity
    BY <1>2, <1>3, <1>5, <2>1
  <2>. QED BY <2>2 DEF Room, capacity
<1>7. at = Offset(m, "document", from)
  BY DEF Offset
<1>. HIDE DEF value, from, at
<1>8. Holds(at, value)
  BY <1>1, <1>3, <1>4, <1>5, <1>6, <1>7, StacksApart, StackHolds
<1>. QED BY <1>8 DEF at, from, value

LEMMA LevelsHold ==
    ASSUME NEW m, NEW i, m = Memory, i = intended, Parsing(m, i), NEW k \in DOMAIN i.levels
    PROVE  Holds(m.stacks["reader"].at + 2 * (k - 1), Twice(i.values[i.levels[k]][1]))
<1> DEFINE values == i.values
           levels == i.levels
           l == Len(levels)
           what == values[levels[k]][1]
           from == 2 * (k - 1)
           at == m.stacks["reader"].at + from
<1>1. /\ MemoryOK(m) /\ m.chunks # << >> /\ LevelsAt(m, values, levels) /\ i \in Intentions
      /\ LevelsIn(values, levels) /\ ScannedAt(m, levels, i.scanned, i.events + 1)
  BY ParsingIs
<1>2. values \in Seq(Int \X Int) /\ levels \in Seq(Nat) /\ i.scanned \in Nat
  BY <1>1, IntentionsOf
<1>3. l \in Nat /\ k \in 1 .. l
  <2>1. k \in DOMAIN levels
    OBVIOUS
  <2>. HIDE DEF levels
  <2>. QED BY <1>2, <2>1
<1>4. what \in Int
  <2> DEFINE S == Int \X Int
             j == levels[k]
  <2>1. j \in 1 .. Len(values) /\ values \in Seq(S)
    BY <1>1, <1>2, <1>3 DEF LevelsIn
  <2>. HIDE DEF S, j, values
  <2>2. values[j] \in S
    BY <2>1
  <2>3. values[j] \in Int \X Int
    BY <2>2 DEF S
  <2>4. values[j][1] \in Int
    BY <2>3, Pairs
  <2>. QED BY <2>4 DEF j
<1>5. Shows(m, at, Twice(what)) /\ m.stacks["reader"].size = 2 * l + i.scanned
  BY <1>1, <1>3 DEF LevelsAt, ScannedAt
<1>6. Twice(what) \in Seq(Int) /\ Len(Twice(what)) = 2
  BY <1>4, TwiceIs
<1>7. from \in Nat /\ from + 2 <= 2 * l
  BY <1>3
<1>8. Room(m, "reader", from + Len(Twice(what)))
  <2> DEFINE capacity == m.stacks["reader"].capacity
             size == m.stacks["reader"].size
             scanned == i.scanned
  <2>1. size <= capacity /\ capacity \in Nat /\ size = 2 * l + scanned /\ scanned \in Nat
    BY <1>1, <1>2, <1>5, StacksApart, StacksOf
  <2>. HIDE DEF capacity, size, from, what, l, scanned
  <2>2. from + Len(Twice(what)) <= capacity
    BY <1>3, <1>6, <1>7, <2>1
  <2>. QED BY <2>2 DEF Room, capacity
<1>9. at = Offset(m, "reader", from)
  BY DEF Offset
<1>. HIDE DEF what, from, at
<1>10. Holds(at, Twice(what))
  BY <1>1, <1>5, <1>6, <1>7, <1>8, <1>9, StacksApart, StackHolds
<1>. QED BY <1>10 DEF at, from, what

LEMMA ScannedHolds ==
    ASSUME NEW m, NEW i, m = Memory, i = intended, Parsing(m, i)
    PROVE  Holds(m.stacks["reader"].at + 2 * Len(i.levels), Letters(i.scanned, i.events + 1))
<1> DEFINE levels == i.levels
           n == i.scanned
           event == i.events + 1
           letters == Letters(n, event)
           from == 2 * Len(levels)
           at == m.stacks["reader"].at + from
<1>1. /\ MemoryOK(m) /\ m.chunks # << >> /\ i \in Intentions
      /\ ScannedAt(m, levels, n, event)
  BY ParsingIs
<1>2. n \in Nat /\ event \in Int /\ from \in Nat
  BY <1>1, IntentionsOf
<1>3. letters \in Seq(Int) /\ Len(letters) = n
  BY <1>2, TextIs
<1>4. m.stacks["reader"].at \in Int /\ at = Offset(m, "reader", from)
  BY <1>1, StacksApart, StacksOf DEF Offset
<1>5. Shows(m, at, letters)
  <2> DEFINE a == m.stacks["reader"].at
  <2>1. \A k \in 0 .. (n - 1) : m.heap.cells[a + (from + k)] = event
    BY <1>1 DEF ScannedAt
  <2>2. a \in Int /\ at = a + from
    BY <1>4
  <2>. HIDE DEF a, from, at, n, event
  <2>3. ASSUME NEW k \in 1 .. n PROVE m.heap.cells[at + k - 1] = letters[k]
    <3>1. at + k - 1 = a + (from + (k - 1)) /\ k - 1 \in 0 .. (n - 1)
      BY <1>2, <2>2
    <3>2. letters[k] = event
      BY <1>2 DEF Letters
    <3>. QED BY <2>1, <3>1, <3>2
  <2>. HIDE DEF letters
  <2>. QED BY <1>3, <2>3 DEF Shows
<1>6. Room(m, "reader", from + Len(letters))
  <2> DEFINE capacity == m.stacks["reader"].capacity
             size == m.stacks["reader"].size
  <2>1. size <= capacity /\ capacity \in Nat /\ size = from + n
    BY <1>1, StacksApart, StacksOf DEF ScannedAt
  <2>. HIDE DEF capacity, size, from, letters
  <2>2. from + Len(letters) <= capacity
    BY <1>3, <2>1
  <2>. QED BY <2>2 DEF Room, capacity
<1>. HIDE DEF letters, from, at
<1>7. Holds(at, letters)
  BY <1>1, <1>2, <1>3, <1>4, <1>5, <1>6, StacksApart, StackHolds
<1>. QED BY <1>7 DEF at, from, letters

\* What is in the pool.
LEMMA BlocksHold ==
    ASSUME NEW m, NEW i, m = Memory, i = intended, Kept(m, i), NEW b \in i.blocks
    PROVE  Holds(b.at, b.content) /\ b.at % ALIGNMENT = 0
<1>1. MemoryOK(m) /\ BlocksAt(m, i.blocks) /\ i \in Intentions
  BY DEF Kept
<1>2. b.at \in Int /\ b.content \in Seq(Int)
  BY <1>1, IntentionsOf DEF PoolBlocks
<1> DEFINE at == b.at
           content == b.content
           n == Len(content)
<1>3. Placed(m, at, n) /\ Aligned(at) /\ Shows(m, at, content)
  BY <1>1 DEF BlocksAt
<1>4. at \in Int /\ content \in Seq(Int) /\ n \in Nat
  BY <1>2
<1>. HIDE DEF at, content, n
<1>5. PICK k \in DOMAIN m.chunks : InChunk(m.chunks[k], at, n)
  BY <1>3 DEF Placed
<1>6. Inside(m, at, n)
  BY <1>1, <1>4, <1>5, ChunkContains
<1>7. Holds(at, content)
  BY <1>3, <1>4, <1>6, ShownHolds DEF n
<1>. QED BY <1>3, <1>7 DEF Aligned, at, content

LEMMA HeaderHolds ==
    ASSUME NEW m, NEW i, m = Memory, i = intended, Kept(m, i), NEW k \in 1 .. (Len(m.chunks) - 1)
    PROVE  Holds(m.chunks[k].at, HeaderCells)
<1> DEFINE at == m.chunks[k].at
           b == BlockOfChunk(m.chunks, k)
           from == b.at
           size == b.size
           capacity == m.chunks[k].capacity
<1>1. MemoryOK(m) /\ HeadersHold(m) /\ CHUNK_HEADER \in Nat
  BY HeapSize, HeaderSize DEF Kept
<1>2. k \in DOMAIN m.chunks /\ k < Len(m.chunks)
  <2> DEFINE S == [ at : Nat, capacity : Nat, size : Nat ]
             chunks_ == m.chunks
  <2>1. chunks_ \in Seq(S) /\ k \in 1 .. (Len(chunks_) - 1)
    BY <1>1 DEF MemoryOK, Memories
  <2>. HIDE DEF S, chunks_
  <2>2. k \in DOMAIN chunks_ /\ k < Len(chunks_)
    BY <2>1
  <2>. QED BY <2>2 DEF chunks_
<1>3. /\ b \in m.heap.blocks /\ at \in Nat /\ capacity \in Nat /\ from <= at
      /\ from + size = at + CHUNK_HEADER + capacity
  BY <1>1, <1>2, ChunksOf
<1>4. from \in Nat /\ size \in Nat
  BY <1>1, <1>3, BlocksOf DEF MemoryOK
<1>5. HeaderCells \in Seq(Int) /\ Len(HeaderCells) = CHUNK_HEADER
  BY <1>1 DEF HeaderCells, Header
<1>6. \A j \in 0 .. (CHUNK_HEADER - 1) : m.heap.cells[at + j] = Header
  BY <1>1, <1>2 DEF HeadersHold
<1>. HIDE DEF at, b, from, size, capacity
<1>7. Shows(m, at, HeaderCells)
  <2>1. ASSUME NEW j \in 1 .. CHUNK_HEADER PROVE m.heap.cells[at + j - 1] = HeaderCells[j]
    <3>1. j - 1 \in 0 .. (CHUNK_HEADER - 1) /\ at + j - 1 = at + (j - 1)
      BY <1>1, <1>3
    <3>2. HeaderCells[j] = Header
      BY DEF HeaderCells
    <3>. QED BY <1>6, <3>1, <3>2
  <2>. QED BY <1>5, <2>1 DEF Shows
<1>8. Inside(m, at, CHUNK_HEADER)
  <2>1. at + CHUNK_HEADER <= from + size
    BY <1>1, <1>3, <1>4
  <2>2. Span(at, CHUNK_HEADER) \subseteq Span(from, size)
    BY <1>1, <1>3, <1>4, <2>1, SpanWithin
  <2>. QED BY <1>3, <2>2 DEF Inside, from, size
<1>9. Holds(at, HeaderCells)
  BY <1>5, <1>7, <1>8, ShownHolds
<1>. QED BY <1>9 DEF at

LEMMA LettersHold ==
    ASSUME NEW m, NEW i, m = Memory, i = intended, Parsed(m, i)
    PROVE  Holds(m.stacks["buffer"].at, i.letters)
<1> DEFINE letters == i.letters
           at == m.stacks["buffer"].at
<1>1. MemoryOK(m) /\ m.chunks # << >> /\ i \in Intentions /\ LettersAt(m, letters)
  BY DEF Parsed, Failed, Idle, Kept
<1>2. letters \in Seq(Int) /\ 0 \in Nat
  BY <1>1, IntentionsOf
<1>3. /\ m.stacks["buffer"].size = Len(letters) /\ at \in Int /\ Shows(m, at, letters)
      /\ m.stacks["buffer"].size <= m.stacks["buffer"].capacity
  BY <1>1, StacksApart, StacksOf DEF LettersAt
<1>4. Room(m, "buffer", 0 + Len(letters))
  <2>1. 0 + Len(letters) = Len(letters)
    BY <1>2
  <2>. QED BY <1>3, <2>1 DEF Room
<1>5. at = Offset(m, "buffer", 0)
  BY <1>3 DEF Offset
<1>. HIDE DEF letters, at
<1>6. Holds(at, letters)
  BY <1>1, <1>2, <1>3, <1>4, <1>5, StacksApart, StackHolds
<1>. QED BY <1>6 DEF at, letters

LEMMA TextHolds ==
    ASSUME NEW m, NEW i, m = Memory, i = intended, Parsed(m, i), Ended(m, i.letters)
    PROVE  Holds(m.stacks["buffer"].at, Append(i.letters, Terminator))
<1> DEFINE letters == i.letters
           at == m.stacks["buffer"].at
           n == Len(letters)
           piece == Append(letters, Terminator)
<1>1. MemoryOK(m) /\ m.chunks # << >> /\ i \in Intentions /\ LettersAt(m, letters)
  BY DEF Parsed, Failed, Idle, Kept
<1>2. letters \in Seq(Int) /\ 0 \in Nat /\ n \in Nat /\ n = Len(letters) /\ Terminator \in Int
  BY <1>1, IntentionsOf DEF Terminator
<1>3. at \in Int /\ Shows(m, at, letters) /\ m.heap.cells[at + n] = Terminator
  BY <1>1, StacksApart, StacksOf DEF LettersAt, Ended
<1>. HIDE DEF letters, n
<1>4. /\ piece \in Seq(Int) /\ Len(piece) = n + 1 /\ piece[n + 1] = Terminator
      /\ \A k \in 1 .. n : piece[k] = letters[k]
  BY <1>2
<1>5. Room(m, "buffer", 0 + Len(piece))
  <2> DEFINE capacity == m.stacks["buffer"].capacity
  <2>1. n < capacity /\ capacity \in Nat
    BY <1>1, StacksApart, StacksOf DEF Ended, letters, n
  <2>. HIDE DEF capacity, piece
  <2>2. 0 + Len(piece) <= capacity
    BY <1>2, <1>4, <2>1
  <2>. QED BY <2>2 DEF Room, capacity
<1>6. at = Offset(m, "buffer", 0)
  BY <1>3 DEF Offset
<1>. HIDE DEF piece, at
<1>7. Shows(m, at, piece)
  <2>1. ASSUME NEW k \in 1 .. (n + 1) PROVE m.heap.cells[at + k - 1] = piece[k]
    <3>1. CASE k \in 1 .. n
      BY <1>2, <1>3, <1>4, <3>1 DEF Shows
    <3>2. CASE k = n + 1
      <4>1. at + k - 1 = at + n
        BY <1>2, <1>3, <3>2
      <4>. QED BY <1>3, <1>4, <3>2, <4>1
    <3>. QED BY <1>2, <3>1, <3>2, UpToNext
  <2>. QED BY <1>4, <2>1 DEF Shows
<1>8. Holds(at, piece)
  BY <1>1, <1>2, <1>4, <1>5, <1>6, <1>7, StacksApart, StackHolds
<1>. QED BY <1>8 DEF at, piece, letters

\* In every life of the document.
LEMMA EveryLife ==
    ASSUME NEW m, NEW i, Present(m, i)
    PROVE  /\ Kept(m, i)
           /\ life # "parsing" => i.values = << >>
           /\ life = "parsing" => Parsing(m, i)
           /\ life \in { "parsed", "written" } => Parsed(m, i)
           /\ life = "written" => Ended(m, i.letters)
           /\ life = "gone" => m.heap.blocks = {}
  BY DEF Present, LifeInv, Parsing, Unborn, Parsed, Failed, Idle, Gone

LEMMA MemoryIsKept ==
    ASSUME MemoryInv
    PROVE  MemoryKeepsWhatItIsGiven
<1>1. PICK m, i : m = Memory /\ i = intended
  OBVIOUS
<1>2. m = Memory /\ i = intended /\ Present(m, i)
  BY <1>1 DEF Present, MemoryInv
<1>3. heap = m.heap /\ stacks = m.stacks /\ chunks = m.chunks
  BY <1>1 DEF Memory
<1>4. /\ Kept(m, i)
      /\ life # "parsing" => i.values = << >>
      /\ life = "parsing" => Parsing(m, i)
      /\ life \in { "parsed", "written" } => Parsed(m, i)
      /\ life = "written" => Ended(m, i.letters)
      /\ life = "gone" => m.heap.blocks = {}
  BY <1>2, EveryLife
<1>5. \A k \in DOMAIN intended.values : Holds(stacks["document"].at + (k - 1) * VALUE, intended.values[k])
  <2>1. CASE life = "parsing"
    BY <1>2, <1>3, <1>4, <2>1, ValuesHold
  <2>2. CASE life # "parsing"
    <3>1. DOMAIN i.values = {}
      BY <1>4, <2>2
    <3>. QED BY <1>2, <3>1
  <2>. QED BY <2>1, <2>2
<1>6. ASSUME life = "parsing"
      PROVE  /\ stacks["document"].size = Len(intended.values) * VALUE
             /\ stacks["reader"].size = 2 * Len(intended.levels) + intended.scanned
             /\ Holds(stacks["reader"].at + 2 * Len(intended.levels),
                      [ k \in 1 .. intended.scanned |-> Event ])
             /\ \A k \in DOMAIN intended.levels :
                  Holds(stacks["reader"].at + 2 * (k - 1),
                        LET what == intended.values[intended.levels[k]][1] IN << what, what >>)
  <2>1. ValuesAt(m, i.values) /\ ScannedAt(m, i.levels, i.scanned, i.events + 1)
    BY <1>4, <1>6, ParsingIs
  <2>2. m.stacks["document"].size = Len(i.values) * VALUE
        /\ m.stacks["reader"].size = 2 * Len(i.levels) + i.scanned
    BY <2>1 DEF ValuesAt, ScannedAt
  <2>3. Holds(m.stacks["reader"].at + 2 * Len(i.levels), Letters(i.scanned, i.events + 1))
    BY <1>2, <1>4, <1>6, ScannedHolds
  <2>4. Holds(stacks["reader"].at + 2 * Len(intended.levels), [ k \in 1 .. intended.scanned |-> Event ])
    BY <1>2, <1>3, <2>3 DEF Letters, Event
  <2>5. \A k \in DOMAIN i.levels :
          Holds(m.stacks["reader"].at + 2 * (k - 1), Twice(i.values[i.levels[k]][1]))
    BY <1>2, <1>4, <1>6, LevelsHold
  <2>6. \A k \in DOMAIN intended.levels :
          Holds(stacks["reader"].at + 2 * (k - 1),
                LET what == intended.values[intended.levels[k]][1] IN << what, what >>)
    BY <1>2, <1>3, <2>5 DEF Twice
  <2>. QED BY <1>2, <1>3, <2>2, <2>4, <2>6
<1>7. \A b \in intended.blocks : Holds(b.at, b.content) /\ b.at % ALIGNMENT = 0
  BY <1>2, <1>4, BlocksHold
<1>8. \A k \in 1 .. (Len(chunks) - 1) : Holds(chunks[k].at, HeaderCells)
  BY <1>2, <1>3, <1>4, HeaderHolds
<1>9. intended.letters # << >> /\ life = "parsed" => Holds(stacks["buffer"].at, intended.letters)
  BY <1>2, <1>3, <1>4, LettersHold
<1>10. life = "written" => Holds(stacks["buffer"].at, Append(intended.letters, Terminator))
  BY <1>2, <1>3, <1>4, TextHolds
<1>11. life \in { "written", "parsed" } =>
         \/ intended.root[2] = NULL
         \/ \E b \in intended.blocks : b.at = intended.root[2]
  BY <1>2, <1>4 DEF Parsed, Refers
<1>12. life = "gone" => heap.blocks = {}
  BY <1>3, <1>4
<1>. QED BY <1>5, <1>6, <1>7, <1>8, <1>9, <1>10, <1>11, <1>12 DEF MemoryKeepsWhatItIsGiven

\* Whatever moves, is freed or is handed out, the values that wait on the stack of
\* the document, what the reader returns to, the letters and elements copied into
\* the pool, the headers of its chunks and the text with its terminator stay as they
\* were written, and a document that is destroyed leaves nothing on the heap.
THEOREM MemoryKeepsWhatItIsGivenHolds == MemorySpec => []MemoryKeepsWhatItIsGiven
<1>1. MemoryStart => MemoryInv
  BY MemoryBegins
<1>2. MemoryInv /\ [MemoryNext]_memoryVars => MemoryInv'
  BY MemoryStep
<1>3. MemoryInv => MemoryKeepsWhatItIsGiven
  BY MemoryIsKept
<1>. QED BY <1>1, <1>2, <1>3, PTL DEF MemorySpec
===============================================================================
