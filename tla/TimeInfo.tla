------------------------------ MODULE TimeInfo ------------------------------
(***************************************************************************)
(* SystemApi/TimeInfo: a moment packed into the 32 bits of six bit fields, *)
(* and the arithmetic on it.  A field keeps what fits (% 2^w); the year is *)
(* counted from 2000.  A text is its six numbers.                          *)
(* External: mktime and localtime_r, for a zone whose offset is fixed.     *)
(* The tm handed to mktime by the members has no tm_isdst: when the memory *)
(* happens to ask for summer time the result may be an hour early.         *)
(***************************************************************************)
EXTENDS Integers, Sequences

CONSTANTS
    ClockStarts,    \* the moments a TimeInfo is made from: <<y, mon, d, h, m, s>>
    ClockTexts,     \* the texts it is read from, moments or not
    ClockSeconds, ClockDays, ClockMonths, ClockYears,   \* what is added
    MaxClockOps     \* bound: operations

ASSUME ClockAssumption ==
    /\ ClockSeconds \subseteq Nat /\ MaxClockOps \in Nat
    /\ ClockDays \cup ClockMonths \cup ClockYears \subseteq Int

VARIABLES
    ti,             \* the object
    tiFrom,         \* history: the object before the last operation,
    tiOp, tiBy,     \* the operation and its argument in its own unit
    tiOps

tiVars == <<ti, tiFrom, tiOp, tiBy, tiOps>>

\* Assignment to the bit fields.
Packed(y, mon, d, h, m, s) ==
    [year |-> y % 64, mon |-> mon % 16, day |-> d % 32, hour |-> h % 32, min |-> m % 64, sec |-> s % 64]
FromInts(t) == Packed(t[1] - 2000, t[2], t[3], t[4], t[5], t[6])

-----------------------------------------------------------------------------
(* mktime and localtime_r, in seconds since 2000 *)

Leap(y) == y % 4 = 0
MonthLength(y, mon) ==
    CASE mon = 2 -> IF Leap(y) THEN 29 ELSE 28
      [] mon \in {4, 6, 9, 11} -> 30
      [] OTHER -> 31
YearStart(y) == (365 * y) + ((y + 3) \div 4)
MonthStart(y, mon) ==
    LET before[k \in 1..12] == IF k = 1 THEN 0 ELSE before[k - 1] + MonthLength(y, k - 1)
    IN  YearStart(y) + before[mon]

\* Fields out of range are carried over, as mktime does.
mktime(t) ==
    LET y == t.year + ((t.mon - 1) \div 12)
        mon == ((t.mon - 1) % 12) + 1
    IN  86400 * (MonthStart(y, mon) + t.day - 1) + 3600 * t.hour + 60 * t.min + t.sec
localtime(n) ==
    LET days == n \div 86400
        y == CHOOSE y \in ((days \div 366) - 1)..((days \div 365) + 1) :
                YearStart(y) <= days /\ days < YearStart(y + 1)
        mon == CHOOSE k \in 1..12 :
                MonthStart(y, k) <= days /\ days < MonthStart(y, k) + MonthLength(y, k)
    IN  Packed(y, mon, days - MonthStart(y, mon) + 1,
               (n % 86400) \div 3600, (n % 3600) \div 60, n % 60)

-----------------------------------------------------------------------------
(* The operators *)

Plus(t, n) == localtime(mktime(t) + n)
Difference(t, u) == mktime(t) - mktime(u)

\* Bug: the fields are declared the other way round.
MutantGetTimeOfNumber(t) ==
    <<t.sec * 2^9 + t.min * 2^4 + t.mon, t.hour * 2^12 + t.day * 2^6 + t.year>>
\* The 32 bits, as the upper 15 and the lower 17: ti_sec is the lowest field.
GetTimeOfNumber(t) ==
    <<t.year * 2^9 + t.mon * 2^5 + t.day, t.hour * 2^12 + t.min * 2^6 + t.sec>>
Less(t, u) ==
    LET a == GetTimeOfNumber(t)
        b == GetTimeOfNumber(u)
    IN  a[1] < b[1] \/ (a[1] = b[1] /\ a[2] < b[2])

\* February is cut to its length; the other months are not.
CutFebruary(t) ==
    IF t.mon = 2 /\ t.day > MonthLength(t.year, 2)
    THEN [t EXCEPT !.day = MonthLength(t.year, 2)] ELSE t
\* The sum is cut to four bits before it is looked at, and is never negative.
AddMonth(t, n) ==
    LET mon == (t.mon + n) % 16
    IN  CutFebruary(IF mon > 12 THEN [t EXCEPT !.mon = mon - 12, !.year = (@ + 1) % 64]
                    ELSE [t EXCEPT !.mon = mon])
AddYear(t, n) == CutFebruary([t EXCEPT !.year = (@ + n) % 64])

GetMaxDay(y, mon) == IF mon \in 1..12 THEN MonthLength(y, mon) ELSE -1

\* operator string, and the constructor that reads it: a text that is no moment gives now.
Text(t) == <<t.year + 2000, t.mon, t.day, t.hour, t.min, t.sec>>
Parsed(text, now) ==
    IF /\ text[2] \in 1..12 /\ text[3] <= GetMaxDay(text[1] - 2000, text[2])
       /\ text[4] \in 0..23 /\ text[5] \in 0..59 /\ text[6] \in 0..59
    THEN FromInts(text) ELSE now

-----------------------------------------------------------------------------

TiInit ==
    /\ \E t \in ClockStarts : ti = FromInts(t)
    /\ tiFrom = ti /\ tiOp = "made" /\ tiBy = 0 /\ tiOps = 0

Does(op, n, t) ==
    /\ tiOps < MaxClockOps /\ tiOps' = tiOps + 1
    /\ tiFrom' = ti /\ tiOp' = op /\ tiBy' = n /\ ti' = t

\* Without a tm_isdst mktime is an hour early, or not.
PlusSeconds(n) == Does("seconds", n, Plus(ti, n)) \/ Does("early", n, Plus(ti, n - 3600))
MinusSeconds(n) == Does("seconds", -n, Plus(ti, -n)) \/ Does("early", -n, Plus(ti, -n - 3600))
AddDay(d) == Does("seconds", 86400 * d, Plus(ti, 86400 * d)) \/ Does("early", 86400 * d, Plus(ti, 86400 * d - 3600))
Update == \E now \in ClockStarts : Does("update", 0, FromInts(now))
Reads == \E t \in ClockTexts, now \in ClockStarts : Does("update", 0, Parsed(t, FromInts(now)))

TiNext ==
    \/ \E n \in ClockSeconds : PlusSeconds(n) \/ MinusSeconds(n)
    \/ \E d \in ClockDays : AddDay(d)
    \/ \E n \in ClockMonths : Does("months", n, AddMonth(ti, n))
    \/ \E n \in ClockYears : Does("years", n, AddYear(ti, n))
    \/ Update \/ Reads

-----------------------------------------------------------------------------
(* Properties *)

TiTypeOK ==
    /\ ti \in [year : 0..63, mon : 0..15, day : 0..31, hour : 0..31, min : 0..63, sec : 0..63]
    /\ tiOps \in 0..MaxClockOps

Exists(t) ==
    /\ t.mon \in 1..12 /\ t.day \in 1..MonthLength(t.year, t.mon)
    /\ t.hour <= 23 /\ t.min <= 59 /\ t.sec <= 59

\* The seconds a member really adds.
Added == IF tiOp = "early" THEN tiBy - 3600 ELSE tiBy
InRange(n) == 0 <= n /\ n < 86400 * YearStart(64)
MonthCount(t) == 12 * t.year + t.mon

\* TimeInfo.cpp: from one moment of 2000 to 2063 to another, seconds and days are added
\* exactly (an hour less where tm_isdst is garbage), operator< on the packed fields is
\* the order of time and operator- its distance, and a moment survives its own text.
\* AddMonth moves by months as long as the sum is 1 to 15, AddYear by years, and the day
\* exists afterwards unless it is the 31st of a short month.
ClockSound ==
    /\ tiOp \in {"seconds", "early"} /\ Exists(tiFrom) /\ InRange(mktime(tiFrom) + Added) =>
          /\ Exists(ti) /\ Difference(ti, tiFrom) = Added
          /\ Less(tiFrom, ti) <=> Added > 0
          /\ Plus(ti, - Added) = tiFrom
    /\ Exists(ti) => \A now \in {tiFrom} : Parsed(Text(ti), now) = ti
    /\ tiOp = "months" /\ Exists(tiFrom) /\ tiFrom.mon + tiBy \in 1..15 /\ tiFrom.year < 63 =>
          /\ MonthCount(ti) = MonthCount(tiFrom) + tiBy
          /\ Exists(ti) \/ (ti.day = 31 /\ ti.mon \in {4, 6, 9, 11})
    /\ tiOp = "years" /\ Exists(tiFrom) /\ tiFrom.year + tiBy \in 0..63 =>
          Exists(ti) /\ MonthCount(ti) = MonthCount(tiFrom) + 12 * tiBy
=============================================================================
