--------------------------------- MODULE Dates ---------------------------------
(***************************************************************************)
(* Dates: the calendar of root/date.c and the methods of Date objects,     *)
(* dscript/ddate.c.  A time is a number of milliseconds since 1970 or NaN. *)
(* How many milliseconds, seconds and minutes make the next unit is up to  *)
(* the instance, days and years are as they are.                           *)
(*                                                                         *)
(* First the reader of date texts, root/dateparse.c.  A text is a sequence *)
(* of its words, numbers and marks: <<"word", w>>, <<"number", n>>,        *)
(* <<":">>.  The reader is a record: the fields it found, the token it     *)
(* looks at, the number that came with it, and the text that is left.      *)
(***************************************************************************)
EXTENDS Integers, Sequences, FiniteSets, TLC

CONSTANTS NaN,
          msPerSecond, SecondsPerMinute, MinutesPerHour,
          MaxTime,                     \* 8.64e15
          LocalTZA,                    \* what local time is ahead of UTC
          StandardDate, DaylightDate,  \* SYSTEMTIMEs of the time zone, and
          DaylightBias                 \* what daylight saving adds to local time

------------------------------------------------------------------------------
(* Reading a text *)

None == -30000   \* TZCORRECTION_NAN

\* Some of the words the table has, with the number of each.
NameToken ==
  [w \in {"jan", "feb", "mar", "apr", "may", "jun", "jul", "aug", "sep", "oct", "nov", "dec", "january", "june"} |-> "month"]
    @@ [w \in {"sun", "mon", "tue", "wed", "thu", "fri", "sat", "sunday"} |-> "weekday"]
    @@ [w \in {"am", "pm"} |-> "ampm"] @@ [w \in {"gmt", "utc", "z", "est", "cet"} |-> "tz"]
    @@ [w \in {"edt", "mest"} |-> "dsttz"] @@ ("dst" :> "dst")
NameNumber ==
  "jan" :> 1 @@ "feb" :> 2 @@ "mar" :> 3 @@ "apr" :> 4 @@ "may" :> 5 @@ "jun" :> 6 @@ "jul" :> 7 @@ "aug" :> 8
    @@ "sep" :> 9 @@ "oct" :> 10 @@ "nov" :> 11 @@ "dec" :> 12 @@ "january" :> 1 @@ "june" :> 6
    @@ "sun" :> 1 @@ "mon" :> 2 @@ "tue" :> 3 @@ "wed" :> 4 @@ "thu" :> 5 @@ "fri" :> 6 @@ "sat" :> 7 @@ "sunday" :> 1
    @@ "am" :> 1 @@ "pm" :> 2 @@ "gmt" :> 0 @@ "utc" :> 0 @@ "z" :> 0 @@ "est" :> 500 @@ "cet" :> -100
    @@ "edt" :> 500 @@ "mest" :> -100 @@ "dst" :> 0

classify(d, w) ==
  IF w \in DOMAIN NameToken THEN [d EXCEPT !.tok = NameToken[w], !.number = NameNumber[w]]
                            ELSE [d EXCEPT !.tok = "err"]

\* How much of the text is passed over from place i: blanks, commas, full stops and
\* comments, which nest.  A comment that does not end is an error.
RECURSIVE Skipped(_, _, _)
Skipped(s, i, nest) ==
  IF i > Len(s) THEN IF nest > 0 THEN -1 ELSE i
  ELSE IF s[i] = <<"(">> THEN Skipped(s, i + 1, nest + 1)
  ELSE IF nest > 0 THEN Skipped(s, i + 1, IF s[i] = <<")">> THEN nest - 1 ELSE nest)
  ELSE IF s[i] \in {<<",">>, <<".">>} THEN Skipped(s, i + 1, 0) ELSE i

TokenAt(d, i) ==
  IF i = -1 THEN [d EXCEPT !.tok = "err"]
  ELSE IF i > Len(d.text) THEN [d EXCEPT !.tok = "end", !.p = i]
  ELSE CASE d.text[i][1] = "number" -> [d EXCEPT !.tok = "number", !.number = d.text[i][2], !.p = i + 1]
         [] d.text[i][1] = "word"   -> classify([d EXCEPT !.p = i + 1], d.text[i][2])
         [] d.text[i][1] \in {":", "+", "-", "/"} -> [d EXCEPT !.tok = d.text[i][1], !.p = i + 1]
         [] OTHER -> [d EXCEPT !.tok = "err", !.p = i + 1]

nextToken(d) == TokenAt(d, Skipped(d.text, d.p, 0))
Error(d) == [d EXCEPT !.tok = "err"]

\* A number that has to be next, stored and passed; F and G say where it goes.
Number(d, F(_)) == IF d.tok = "number" THEN nextToken(F(d)) ELSE Error(d)
Year(d)    == [d EXCEPT !.year = d.number]
Minutes(d) == [d EXCEPT !.minutes = d.number]
Seconds(d) == [d EXCEPT !.seconds = d.number]
IfNumber(d, F(_)) == IF d.tok = "number" THEN nextToken(F(d)) ELSE d

------------------------------------------------------------------------------
(* Calendar dates and times of day: what follows n1 and a mark *)

\* Which of the numbers is the year is told from their sizes, if it can.
YearFirst(n1, n2, n3) == n1 > 12 \/ (n2 \in 1 .. 12 /\ n3 \in 1 .. 31)
YearLast(n1, n2, n3)  == (n1 \in 1 .. 12 /\ n2 \in 1 .. 31) \/ n3 > 31
ThreeNumbers(d, n1, n2) ==
  LET n3 == d.number
  IN  IF d.tok # "number" \/ (YearFirst(n1, n2, n3) <=> YearLast(n1, n2, n3)) THEN Error(d)
      ELSE nextToken(IF YearFirst(n1, n2, n3) THEN [d EXCEPT !.year = n1, !.month = n2, !.day = n3]
                                              ELSE [d EXCEPT !.month = n1, !.day = n2, !.year = n3])

AfterDayMonth(d) ==
  IF d.tok = "number" THEN nextToken(Year(d)) ELSE IF d.tok \in {"-", "/"} THEN Number(nextToken(d), Year) ELSE d
AfterTwo(d, n1, n2) ==
  IF d.tok \in {"-", "/"} THEN ThreeNumbers(nextToken(d), n1, n2) ELSE [d EXCEPT !.month = n1, !.day = n2]
parseCalendarDate(d, n1) ==
  CASE d.tok = "month"  -> AfterDayMonth(nextToken([d EXCEPT !.day = n1, !.month = d.number]))
    [] d.tok = "number" -> AfterTwo(nextToken(d), n1, d.number)
    [] OTHER            -> Error(d)

\* An offset counts what local time is behind.
Offset100(d, sign) == IF d.tok = "number" THEN nextToken([d EXCEPT !.tz = -sign * d.number]) ELSE Error(d)
Signed(d) == Offset100(nextToken(d), IF d.tok = "-" THEN -1 ELSE 1)

\* A zone of none may have an offset behind it, any may have DST.
AfterZone(d) ==
  IF d.tz = 0 /\ d.tok \in {"+", "-"} THEN Signed(d)
  ELSE IF d.tok = "dst" THEN nextToken([d EXCEPT !.tz = @ + 100]) ELSE d
AfterTime(d) ==
  CASE d.tok = "ampm"       -> nextToken([d EXCEPT !.ampm = d.number])
    [] d.tok \in {"+", "-"} -> Signed(d)
    [] d.tok = "tz"         -> AfterZone(nextToken([d EXCEPT !.tz = d.number]))
    [] d.tok = "dsttz"      -> nextToken([d EXCEPT !.tz = d.number])
    [] OTHER                -> d
AfterMinutes(d) ==
  CASE d.tok = "err" -> d
    [] d.tok = ":"   -> LET s == Number(nextToken(d), Seconds) IN IF s.tok = "err" THEN s ELSE AfterTime(s)
    [] OTHER         -> AfterTime([d EXCEPT !.seconds = 0])
parseTimeOfDay(d, n1) == AfterMinutes(Number([d EXCEPT !.hours = n1], Minutes))

------------------------------------------------------------------------------
(* parseString *)

\* Month and day, and the number behind them unless a time begins with it.
AfterMonthDay(d, back) ==
  IF d.tok # "number" THEN d
  ELSE LET e == nextToken(d)
       IN  IF e.tok = ":" THEN nextToken([e EXCEPT !.p = back]) ELSE [e EXCEPT !.year = d.number]
AfterMonth(d) ==
  IF d.tok = "number" THEN LET e == [d EXCEPT !.day = d.number] IN AfterMonthDay(nextToken(e), e.p) ELSE d

AfterNumber(d, n1) ==
  CASE d.tok \in {"-", "/"} -> parseCalendarDate(nextToken(d), n1)
    [] d.tok = ":"          -> parseTimeOfDay(nextToken(d), n1)
    [] d.tok = "ampm"       -> [d EXCEPT !.hours = n1, !.minutes = 0, !.seconds = 0, !.ampm = d.number]
    [] d.tok = "month"      -> IfNumber(nextToken([d EXCEPT !.day = n1, !.month = d.number]), Year)
    [] OTHER                -> [d EXCEPT !.year = n1]

RECURSIVE parseString(_)
parseString(d) ==
  CASE d.tok = "end"     -> [d EXCEPT !.ok = TRUE]
    [] d.tok \in {"-", "weekday"} -> parseString(nextToken(d))
    [] d.tok = "month"   -> parseString(AfterMonth(nextToken([d EXCEPT !.month = d.number])))
    [] d.tok = "number"  -> parseString(AfterNumber(nextToken(d), d.number))
    [] OTHER             -> [d EXCEPT !.ok = FALSE]

Unread(text) ==
  [text |-> text, p |-> 1, tok |-> "none", number |-> 0, ok |-> FALSE, year |-> -1, month |-> 0, day |-> 0,
   hours |-> 0, minutes |-> 0, seconds |-> 0, ampm |-> 0, tz |-> None]

InRange(d) ==
  /\ d.year # -1 /\ d.month \in 1 .. 12 /\ d.day \in 1 .. 31
  /\ d.hours \in 0 .. 23 /\ d.minutes \in 0 .. 59 /\ d.seconds \in 0 .. 59
  /\ d.tz # None => d.tz \in -1200 .. 1200 /\ d.tz % 100 = 0
  /\ d.ampm # 0 => d.hours <= 12

\* Half of the day: 12am is midnight and 12pm is noon.
Hour(d) ==
  CASE d.ampm = 0     -> d.hours
    [] d.hours < 12   -> IF d.ampm = 2 THEN d.hours + 12 ELSE d.hours
    [] OTHER          -> IF d.ampm = 1 THEN 0 ELSE d.hours
FullYear(y) == IF y >= 0 /\ y <= 99 THEN y + 1900 ELSE y

Settled(d) ==
  IF d.ok /\ InRange(d)
  THEN [d EXCEPT !.hours = Hour(d), !.tz = IF @ = None THEN None ELSE (IF @ < 0 THEN -((-@) \div 100) ELSE @ \div 100),
                 !.year = FullYear(@)]
  ELSE [d EXCEPT !.ok = FALSE]

ParsedDate(text) == Settled(parseString(nextToken(Unread(text))))

------------------------------------------------------------------------------
(* Units *)

HoursPerDay == 24
msPerMinute == SecondsPerMinute * msPerSecond
msPerHour   == MinutesPerHour * msPerMinute
msPerDay    == HoursPerDay * msPerHour

isfinite(x) == x # NaN

------------------------------------------------------------------------------
(* Time within the day *)

\* The remainder and quotient of C, towards zero.
Quotient(n, d) == IF n >= 0 THEN n \div d ELSE -((-n) \div d)
Remainder(n, d) == n - d * Quotient(n, d)

dmod(n, d) == LET r == Remainder(n, d) IN IF r < 0 THEN r + d ELSE r

HourFromTime(t)  == dmod(t \div msPerHour, HoursPerDay)
MinFromTime(t)   == dmod(t \div msPerMinute, MinutesPerHour)
SecFromTime(t)   == dmod(t \div msPerSecond, SecondsPerMinute)
msFromTime(t)    == dmod(t, msPerSecond)
TimeWithinDay(t) == dmod(t, msPerDay)

------------------------------------------------------------------------------
(* Days and years *)

Day(t) == t \div msPerDay
LeapYear(y) == IF y % 4 = 0 /\ (Remainder(y, 100) # 0 \/ Remainder(y, 400) = 0) THEN 1 ELSE 0
DayFromYear(y) == 365 * (y - 1970) + ((y - 1969) \div 4) - ((y - 1901) \div 100) + ((y - 1601) \div 400)
TimeFromYear(y) == msPerDay * DayFromYear(y)

\* A guess from the length of a year, here of whole days, and then year by year.
YearFromTime(t) ==
  LET up[y \in Int]   == IF TimeFromYear(y + 1) <= t THEN up[y + 1] ELSE y
      down[y \in Int] == IF TimeFromYear(y) > t THEN down[y - 1] ELSE y
      guess == 1970 + Quotient(Day(t) * 400, 146097)
  IN  IF TimeFromYear(guess) <= t THEN up[guess] ELSE down[guess - 1]

\* Days of a year without leap day before each month.
mdays == <<0, 31, 59, 90, 120, 151, 181, 212, 243, 273, 304, 334>>

DayInYear(t) == Day(t) - DayFromYear(YearFromTime(t))

\* January and February first, the others once the leap day is off.
MonthOfDay(day, leap) ==
  LET d == IF day < 59 THEN day ELSE day - leap
  IN  Cardinality({m \in 1 .. 11 : mdays[m + 1] <= d})
MonthFromTime(t) == MonthOfDay(DayInYear(t), LeapYear(YearFromTime(t)))

DateInMonth(day, month, leap) == day + 1 - mdays[month + 1] - (IF month >= 2 THEN leap ELSE 0)
DateFromTime(t) == DateInMonth(DayInYear(t), MonthFromTime(t), LeapYear(YearFromTime(t)))

WeekDay(t) == LET w == Remainder(Day(t) + 4, 7) IN IF w < 0 THEN w + 7 ELSE w

------------------------------------------------------------------------------
(* Making times *)

MakeTime(hour, min, sec, ms) ==
  IF \A x \in {hour, min, sec, ms} : isfinite(x)
  THEN hour * msPerHour + min * msPerMinute + sec * msPerSecond + ms ELSE NaN

\* The leap day is added for a month given as 2 or more, whichever month that comes to;
\* if the first of the month is not found there is no such day.
LeapDay(y, month) == IF LeapYear(y) = 1 /\ month >= 2 THEN msPerDay ELSE 0
FirstOfMonth(y, m, month) == TimeFromYear(y) + mdays[m + 1] * msPerDay + LeapDay(y, month)
Found(t, y, m) == YearFromTime(t) = y /\ MonthFromTime(t) = m /\ DateFromTime(t) = 1

DayOf(t, y, m, date) == IF Found(t, y, m) THEN Day(t) + date - 1 ELSE NaN
MakeDay(year, month, date) ==
  IF \E x \in {year, month, date} : ~ isfinite(x) THEN NaN
  ELSE LET y == year + (month \div 12)
           m == dmod(month, 12)
       IN  DayOf(FirstOfMonth(y, m, month), y, m, date)

MakeDate(day, time) == IF isfinite(day) /\ isfinite(time) THEN day * msPerDay + time ELSE NaN
TimeClip(time) == IF ~ isfinite(time) THEN NaN ELSE IF time > MaxTime \/ time < -MaxTime THEN NaN ELSE time

------------------------------------------------------------------------------
(* Local time, by the rules of Windows *)

\* A SYSTEMTIME of a certain year, or a week day of a week of a month in every year.
InMonth(st, wd) == LET n == 7 - wd + st.dayOfWeek
                   IN  (IF n >= 7 THEN n - 7 ELSE n) + (st.day - 1) * 7 + 1
SYSTEMTIME2d_time(st, t) ==
  IF st.year # 0
  THEN TimeClip(MakeDate(MakeDay(st.year, st.month - 1, st.day), MakeTime(st.hour, 0, 0, 0)))
  ELSE LET year == YearFromTime(t)
           wd   == WeekDay(MakeDate(MakeDay(year, st.month - 1, 1), 0))
       IN  TimeClip(MakeDate(MakeDay(year, st.month - 1, InMonth(st, wd)), 0))

DaylightSavingTA(dt) ==
  IF StandardDate.month = 0 \/ DaylightDate.month = 0 THEN 0
  ELSE IF SYSTEMTIME2d_time(DaylightDate, dt) <= dt /\ dt <= SYSTEMTIME2d_time(StandardDate, dt)
       THEN DaylightBias ELSE 0

LocalTime(t) == t + LocalTZA + DaylightSavingTA(t)
UTC(t) == IF isfinite(t) THEN t - LocalTZA - DaylightSavingTA(t - LocalTZA) ELSE NaN

------------------------------------------------------------------------------
(* Texts *)

WeekDays == <<"sun", "mon", "tue", "wed", "thu", "fri", "sat">>
Months   == <<"jan", "feb", "mar", "apr", "may", "jun", "jul", "aug", "sep", "oct", "nov", "dec">>

W(s) == <<"word", s>>
N(n) == <<"number", n>>
P(s) == <<s>>
YearText(y) == IF y < 0 THEN <<P("-"), N(-y)>> ELSE <<N(y)>>
Clock(t) == <<N(HourFromTime(t)), P(":"), N(MinFromTime(t)), P(":"), N(SecFromTime(t))>>

\* Hours and minutes of the offset are written together as a number of four digits.
Zone(offset) ==
  LET minutes == (IF offset < 0 THEN -offset ELSE offset) \div msPerMinute
  IN  <<W("gmt"), P(IF offset < 0 THEN "-" ELSE "+"),
        N(100 * (minutes \div MinutesPerHour) + (minutes % MinutesPerHour))>>

DateText(t) == <<W(WeekDays[WeekDay(t) + 1]), W(Months[MonthFromTime(t) + 1]), N(DateFromTime(t))>>
InvalidDate == <<W("invalid"), W("date")>>

Offset(time) == LocalTZA + DaylightSavingTA(time)
DateToString(time) ==
  IF ~ isfinite(time) THEN InvalidDate
  ELSE LET t == time + Offset(time)
       IN  DateText(t) \o Clock(t) \o Zone(Offset(time)) \o YearText(YearFromTime(t))
ToDateString(time) ==
  IF ~ isfinite(time) THEN InvalidDate
  ELSE LET t == time + Offset(time) IN DateText(t) \o YearText(YearFromTime(t))
ToTimeString(time) ==
  IF ~ isfinite(time) THEN InvalidDate
  ELSE LET t == time + Offset(time) IN Clock(t) \o Zone(Offset(time))
ToUTCString(t) ==
  <<W(WeekDays[WeekDay(t) + 1]), P(","), N(DateFromTime(t)), W(Months[MonthFromTime(t) + 1])>>
    \o YearText(YearFromTime(t)) \o Clock(t) \o <<W("utc")>>

\* toString and its like take local time, which dateToString takes back.
toString(v)     == IF isfinite(v) THEN DateToString(UTC(LocalTime(v))) ELSE InvalidDate
toDateString(v) == IF isfinite(v) THEN ToDateString(UTC(LocalTime(v))) ELSE InvalidDate
toTimeString(v) == IF isfinite(v) THEN ToTimeString(UTC(LocalTime(v))) ELSE InvalidDate
toUTCString(v)  == ToUTCString(IF isfinite(v) THEN v ELSE 0)

\* A text without time zone is of local time.
ParsedTime(d) ==
  LET time == MakeTime(d.hours, d.minutes, d.seconds, 0)
      day  == MakeDay(d.year, d.month - 1, d.day)
      n    == MakeDate(day, IF d.tz = None THEN time - LocalTZA ELSE time + d.tz * msPerHour)
  IN  TimeClip(IF d.tz = None /\ isfinite(n) THEN n - DaylightSavingTA(n) ELSE n)
parse(text) == LET d == ParsedDate(text) IN IF d.ok THEN ParsedTime(d) ELSE NaN

------------------------------------------------------------------------------
(* Date objects *)

\* A two-digit year is of the last century.
Century(year) == IF isfinite(year) /\ year >= 0 /\ year <= 99 THEN year + 1900 ELSE year

\* Arguments that are missing.
Arg(args, n, default) == IF n <= Len(args) THEN args[n] ELSE default

\* Seven numbers, of which the day of the month is 0 if missing.
Given(args, day) ==
  MakeDate(day, IF Len(args) > 3 THEN MakeTime(args[4], Arg(args, 5, 0), Arg(args, 6, 0), Arg(args, 7, 0)) ELSE 0)
DayGiven(args) == MakeDay(Century(args[1]), Arg(args, 2, 0), Arg(args, 3, 0))
DateUTC(args)   == TimeClip(Given(args, DayGiven(args)))
Construct(args) == IF Len(args) = 1 THEN TimeClip(args[1]) ELSE TimeClip(UTC(Given(args, DayGiven(args))))

\* getThisLocalTime and getThisTime: the time a method looks at.
ThisTime(utc, v) == IF utc THEN v ELSE LocalTime(v)
Got(utc, v, F(_)) == IF isfinite(v) THEN F(ThisTime(utc, v)) ELSE NaN

getYearOf(t) == LET n == YearFromTime(t) - 1900 IN IF n < 0 \/ n >= 100 THEN n + 1900 ELSE n
getYear(v)              == Got(FALSE, v, getYearOf)
getFullYear(utc, v)     == Got(utc, v, YearFromTime)
getMonth(utc, v)        == Got(utc, v, MonthFromTime)
getDate(utc, v)         == Got(utc, v, DateFromTime)
getDay(utc, v)          == Got(utc, v, WeekDay)
getHours(utc, v)        == Got(utc, v, HourFromTime)
getMinutes(utc, v)      == Got(utc, v, MinFromTime)
getSeconds(utc, v)      == Got(utc, v, SecFromTime)
getMilliseconds(utc, v) == Got(utc, v, msFromTime)
getTimezoneOffset(v)    == IF isfinite(v) THEN Quotient(v - LocalTime(v), msPerMinute) ELSE NaN

\* What a setter stores of the time it made.
StoredAsUTC(utc, time) == TimeClip(time)
Stored(utc, time) == TimeClip(IF utc THEN time ELSE UTC(time))
AtTime(utc, t, time) == Stored(utc, MakeDate(Day(t), time))
OnDay(utc, t, day)   == Stored(utc, MakeDate(day, TimeWithinDay(t)))

setTime(v, args) == TimeClip(Arg(args, 1, NaN))
setMilliseconds(utc, t, args) ==
  AtTime(utc, t, MakeTime(HourFromTime(t), MinFromTime(t), SecFromTime(t), Arg(args, 1, NaN)))
setSeconds(utc, t, args) ==
  AtTime(utc, t, MakeTime(HourFromTime(t), MinFromTime(t), Arg(args, 1, NaN), Arg(args, 2, msFromTime(t))))
setMinutes(utc, t, args) ==
  AtTime(utc, t, MakeTime(HourFromTime(t), Arg(args, 1, NaN), Arg(args, 2, SecFromTime(t)), Arg(args, 3, msFromTime(t))))
setHours(utc, t, args) ==
  AtTime(utc, t, MakeTime(Arg(args, 1, NaN), Arg(args, 2, MinFromTime(t)), Arg(args, 3, SecFromTime(t)),
                          Arg(args, 4, msFromTime(t))))
setDate(utc, t, args) == OnDay(utc, t, MakeDay(YearFromTime(t), MonthFromTime(t), Arg(args, 1, NaN)))
setMonth(utc, t, args) ==
  OnDay(utc, t, MakeDay(YearFromTime(t), Arg(args, 1, NaN), Arg(args, 2, DateFromTime(t))))
setFullYear(t, args) ==
  OnDay(FALSE, t, MakeDay(Arg(args, 1, NaN), Arg(args, 2, MonthFromTime(t)), Arg(args, 3, DateFromTime(t))))
\* The month is the third argument here, and the date the second.
setUTCFullYear(t, args) ==
  OnDay(TRUE, t, MakeDay(Arg(args, 1, NaN), Arg(args, 3, MonthFromTime(t)), Arg(args, 2, DateFromTime(t))))
setYear(t, args) ==
  IF args = <<>> THEN NaN ELSE OnDay(FALSE, t, MakeDay(Century(args[1]), MonthFromTime(t), DateFromTime(t)))

\* Setters of the year make a date of one that is invalid, the others leave it.
FromEpoch(utc, v) == IF isfinite(v) THEN ThisTime(utc, v) ELSE 0
IfValid(utc, v, F(_, _, _), args) == IF isfinite(v) THEN F(utc, ThisTime(utc, v), args) ELSE NaN
Set(op, utc, v, args) ==
  CASE op = "setTime"         -> setTime(v, args)
    [] op = "setMilliseconds" -> IfValid(utc, v, setMilliseconds, args)
    [] op = "setSeconds"      -> IfValid(utc, v, setSeconds, args)
    [] op = "setMinutes"      -> IfValid(utc, v, setMinutes, args)
    [] op = "setHours"        -> IfValid(utc, v, setHours, args)
    [] op = "setDate"         -> IfValid(utc, v, setDate, args)
    [] op = "setMonth"        -> IfValid(utc, v, setMonth, args)
    [] op = "setFullYear"     -> IF utc THEN setUTCFullYear(FromEpoch(TRUE, v), args)
                                        ELSE setFullYear(FromEpoch(FALSE, v), args)
    [] op = "setYear"         -> setYear(FromEpoch(FALSE, v), args)
==============================================================================
