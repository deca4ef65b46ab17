------------------------------ MODULE BuiltinsEcma ------------------------------
(***************************************************************************)
(* What ECMA-262 15.1.2, 15.1.3, 15.5.4, 15.7.4 and 15.9 say of the        *)
(* functions of Builtins, written for itself: the calendar by counting     *)
(* days, texts by what they stand for.                                     *)
(***************************************************************************)
EXTENDS Integers, Sequences, FiniteSets, SequencesExt, Folds

CONSTANTS NaN, msPerSecond, SecondsPerMinute, MinutesPerHour,
          LocalTZA, StandardDate, DaylightDate, DaylightBias

msPerHour == MinutesPerHour * SecondsPerMinute * msPerSecond
msPerDay  == 24 * msPerHour

------------------------------------------------------------------------------
(* The calendar *)

IsLeap(y) == (y % 4 = 0 /\ y % 100 # 0) \/ y % 400 = 0
DaysOf(y, m) == CASE m \in {4, 6, 9, 11} -> 30 [] m = 2 -> IF IsLeap(y) THEN 29 ELSE 28 [] OTHER -> 31

NewYear(y) == 365 * (y - 1970) + Cardinality({k \in 1970 .. y - 1 : IsLeap(k)}) - Cardinality({k \in y .. 1969 : IsLeap(k)})
MonthStart(y, m) == NewYear(y) + FoldFunction(+, 0, [k \in 1 .. m - 1 |-> DaysOf(y, k)])

\* Months and days count on past the ends of a year or month.
DayNumber(y, m, d) == MonthStart(y + ((m - 1) \div 12), ((m - 1) % 12) + 1) + d - 1
TimeOf(f) ==
  DayNumber(f.year, f.month, f.date) * msPerDay + f.hours * msPerHour + f.minutes * SecondsPerMinute * msPerSecond
    + f.seconds * msPerSecond + f.ms

\* For some centuries, the days past 365 in a year do not make up for more than another year.
YearOf(day) ==
  CHOOSE y \in {1970 + (day \div 365) + k : k \in -1 .. 1} : NewYear(y) <= day /\ day < NewYear(y + 1)
MonthOf(y, day) == CHOOSE m \in 1 .. 12 : MonthStart(y, m) <= day /\ day < MonthStart(y, m) + DaysOf(y, m)
FieldsIn(y, m, day, t) ==
  [year |-> y, month |-> m, date |-> day - MonthStart(y, m) + 1, hours |-> (t \div msPerHour) % 24,
   minutes |-> (t \div (SecondsPerMinute * msPerSecond)) % MinutesPerHour,
   seconds |-> (t \div msPerSecond) % SecondsPerMinute, ms |-> t % msPerSecond, day |-> (day + 4) % 7]
FieldsOf(t) ==
  LET day == t \div msPerDay
      y   == YearOf(day)
  IN  FieldsIn(y, MonthOf(y, day), day, t)

\* Daylight saving time lasts from one day to another, each the nth of a week day in a month
\* or a day of a certain year, and the hour of that.  When it changes is up to the rule (15.9.1.8);
\* the time of the rule is taken for UTC.
NthDay(y, st) ==
  LET first == DayNumber(y, st.month, 1)
  IN  CHOOSE d \in 1 .. 31 : (first + d + 3) % 7 = st.dayOfWeek /\ (d + 6) \div 7 = st.day
Change(y, st) ==
  (IF st.year # 0 THEN DayNumber(st.year, st.month, st.day) ELSE DayNumber(y, st.month, NthDay(y, st))) * msPerDay
    + st.hour * msPerHour
Ahead(t) ==
  LET y == YearOf(t \div msPerDay)
  IN  LocalTZA + (IF Change(y, DaylightDate) <= t /\ t <= Change(y, StandardDate) THEN DaylightBias ELSE 0)

\* The times whose local time is t: none in the hour that is left out, two in the one that comes twice.
AtLocal(t) == {v \in {t - LocalTZA, t - LocalTZA - DaylightBias} : v + Ahead(v) = t}
Fields(utc, v) == FieldsOf(IF utc THEN v ELSE v + Ahead(v))
TimesAt(utc, f) == IF utc THEN {TimeOf(f)} ELSE AtLocal(TimeOf(f))
Midnight(f) == [f EXCEPT !.hours = 0, !.minutes = 0, !.seconds = 0, !.ms = 0]

\* The fields a setter takes, the first of which is its own.
FieldsSet(op) ==
  CASE op = "setMilliseconds" -> <<"ms">>
    [] op = "setSeconds"      -> <<"seconds", "ms">>
    [] op = "setMinutes"      -> <<"minutes", "seconds", "ms">>
    [] op = "setHours"        -> <<"hours", "minutes", "seconds", "ms">>
    [] op = "setDate"         -> <<"date">>
    [] op = "setMonth"        -> <<"month", "date">>
    [] op \in {"setFullYear", "setYear"} -> <<"year", "month", "date">>
\* Months count from 0 in scripts.
ArgumentOf(op, args, k) ==
  IF FieldsSet(op)[k] = "month" THEN args[k] + 1
  ELSE IF op = "setYear" /\ args[k] \in 0 .. 99 THEN 1900 + args[k] ELSE args[k]
AfterSet(f, op, args) ==
  [x \in DOMAIN f |->
     LET at == {k \in DOMAIN args : FieldsSet(op)[k] = x} IN IF at = {} THEN f[x] ELSE ArgumentOf(op, args, CHOOSE k \in at : TRUE)]

------------------------------------------------------------------------------
(* Texts *)

Begins(s, sub, k) == k + Len(sub) <= Len(s) /\ SubSeq(s, k + 1, k + Len(sub)) = sub
LowestOf(S)  == IF S = {} THEN -1 ELSE CHOOSE k \in S : \A j \in S : k <= j
HighestOf(S) == IF S = {} THEN -1 ELSE CHOOSE k \in S : \A j \in S : j <= k
Within(k, s) == IF k < 0 THEN 0 ELSE IF k > Len(s) THEN Len(s) ELSE k
CharactersAt(s, ks) ==
  [j \in 1 .. Cardinality(ks) |-> s[CHOOSE k \in ks : Cardinality({i \in ks : i < k}) = j - 1]]
Range0(s, a, b) == CharactersAt(s, {k \in DOMAIN s : a < k /\ k <= b})
FromBack(s, k) == Within(IF k < 0 THEN Len(s) + k ELSE k, s)

\* What a call of a string's method returns.
StringMethod(q) ==
  LET s == q.text
      lower == IF q.a > q.b THEN q.b ELSE q.a
      upper == IF q.a > q.b THEN q.a ELSE q.b
  IN  CASE q.op = "charAt"      -> IF q.a \in 0 .. Len(s) - 1 THEN <<s[q.a + 1]>> ELSE <<>>
        [] q.op = "charCodeAt"  -> IF q.a \in 0 .. Len(s) - 1 THEN s[q.a + 1] ELSE NaN
        [] q.op = "concat"      -> [k \in 1 .. Len(s) + Len(q.sub) |-> IF k <= Len(s) THEN s[k] ELSE q.sub[k - Len(s)]]
        [] q.op = "indexOf"     -> LowestOf({k \in Within(q.a, s) .. Len(s) : Begins(s, q.sub, k)})
        [] q.op = "lastIndexOf" -> HighestOf({k \in 0 .. Within(q.a, s) : Begins(s, q.sub, k)})
        [] q.op = "slice"       -> Range0(s, FromBack(s, q.a), FromBack(s, q.b))
        [] q.op = "substring"   -> Range0(s, lower, upper)
        [] q.op = "substr"      -> LET a == FromBack(s, q.a) IN Range0(s, a, a + q.b)
        [] q.op = "toLowerCase" -> [k \in DOMAIN s |-> IF s[k] \in 65 .. 90 THEN s[k] + 32 ELSE s[k]]
        [] q.op = "toUpperCase" -> [k \in DOMAIN s |-> IF s[k] \in 97 .. 122 THEN s[k] - 32 ELSE s[k]]

\* ECMA-262 B.2.2: a text that escape may have written at index k.
HexCodes == 48 .. 57 \cup 65 .. 70 \cup 97 .. 102
HexDigit(c) == CHOOSE n \in 0 .. 15 : c \in {48 + n, 55 + n, 87 + n} \cap (IF n < 10 THEN 48 .. 57 ELSE 65 .. 70 \cup 97 .. 102)
HexValue(s) == FoldLeft(LAMBDA n, c : 16 * n + HexDigit(c), 0, s)
EscapeAt(s, k, mark, n) ==
  Begins(s, mark, k) /\ k + Len(mark) + n <= Len(s) /\ \A j \in 1 .. n : s[k + Len(mark) + j] \in HexCodes
UnescapedText(s) ==
  LET f[k \in 0 .. Len(s)] ==
        IF k = Len(s) THEN <<>>
        ELSE IF EscapeAt(s, k, <<37, 117>>, 4) THEN <<HexValue(SubSeq(s, k + 3, k + 6))>> \o f[k + 6]
        ELSE IF EscapeAt(s, k, <<37>>, 2) THEN <<HexValue(SubSeq(s, k + 2, k + 3))>> \o f[k + 3]
        ELSE <<s[k + 1]>> \o f[k + 1]
  IN  f[0]

\* UTF-16 that has its surrogates in pairs.
WellFormed(s) ==
  \A k \in DOMAIN s : /\ s[k] \in 55296 .. 56319 => k < Len(s) /\ s[k + 1] \in 56320 .. 57343
                      /\ s[k] \in 56320 .. 57343 => k > 1 /\ s[k - 1] \in 55296 .. 56319

\* UTF-8 and UTF-16 of codes.
UTF8(V) ==
  LET six(n) == 128 + ((V \div n) % 64)
  IN  CASE V < 128 -> <<V>> [] V \in 128 .. 2047 -> <<192 + V \div 64, six(1)>>
        [] V \in 2048 .. 65535 -> <<224 + V \div 4096, six(64), six(1)>>
        [] V >= 65536 -> <<240 + V \div 262144, six(4096), six(64), six(1)>>
UTF16(V) == IF V < 65536 THEN <<V>> ELSE <<55296 + (V - 65536) \div 1024, 56320 + (V % 1024)>>
HexText(n) == LET x(d) == IF d < 10 THEN 48 + d ELSE 55 + d IN <<37, x(n \div 16), x(n % 16)>>
OctetText(octets) == FlattenSeq([k \in DOMAIN octets |-> HexText(octets[k])])

\* A text of octets with none lost, or the first or last octet of its last code.
Lossy(octets, cut) == CASE cut = "none" -> octets [] cut = "first" -> Tail(octets) [] cut = "last" -> Front(octets)
CodesText(codes, cut) ==
  FlattenSeq([k \in DOMAIN codes |-> OctetText(IF k = Len(codes) THEN Lossy(UTF8(codes[k]), cut) ELSE UTF8(codes[k]))])

------------------------------------------------------------------------------
(* Decimal texts *)

DecimalOf(s) == FoldLeft(LAMBDA n, c : 10 * n + c - 48, 0, s)
IsDecimal(s) == s # <<>> /\ \A k \in DOMAIN s : s[k] \in 48 .. 57
Unsigned(s) == IF s # <<>> /\ s[1] = 45 THEN Tail(s) ELSE s
Without(s, c) == SelectSeq(s, LAMBDA x : x # c)
IndexIn(s, c) == IF \E k \in DOMAIN s : s[k] = c THEN CHOOSE k \in DOMAIN s : s[k] = c ELSE Len(s) + 1
BehindPoint(s) == IF 46 \in ToSet(s) THEN Len(s) - IndexIn(s, 46) ELSE 0

\* n is the whole number nearest to a fraction a / b, the larger of two.
Nearest(n, a, b) == 2 * a < (2 * n + 1) * b /\ (2 * n - 1) * b <= 2 * a

\* 15.7.4.5: n / 10 ^ f nearest to the number, with f digits behind the point.
IsFixed(s, x, f) ==
  LET a == IF x[1] < 0 THEN -x[1] ELSE x[1]
      m == Unsigned(s)
  IN  /\ (x[1] < 0) = (s[1] = 45)
      /\ IsDecimal(Without(m, 46)) /\ BehindPoint(m) = f /\ (m[1] = 48 => Len(m) = 1 \/ m[2] = 46)
      /\ Nearest(DecimalOf(Without(m, 46)), a * 10 ^ f, x[2])

\* The text of a number with an exponent, and its digits without leading zeros.
Mantissa(s) == SubSeq(Unsigned(s), 1, IndexIn(Unsigned(s), 101) - 1)
ExponentOf(s) ==
  LET u == Unsigned(s)
      k == IndexIn(u, 101)
  IN  IF k > Len(u) THEN 0 ELSE DecimalOf(SubSeq(u, k + 2, Len(u))) * (IF u[k + 1] = 45 THEN -1 ELSE 1)
\* The value is that of n, the number nearest of p digits, and x is 10 ^ e and less than ten times that.
Power(b, k) == IF k >= 0 THEN b * 10 ^ k ELSE b
Digitwise(s, x, p, e) ==
  LET a == IF x[1] < 0 THEN -x[1] ELSE x[1]
      n == DecimalOf(Without(Mantissa(s), 46))
      k == p - 1 - e
  IN  /\ (x[1] < 0) = (s[1] = 45)
      /\ IsDecimal(Without(Mantissa(s), 46)) /\ Nearest(n, Power(a, k), Power(x[2], -k))
      /\ ExponentOf(s) - BehindPoint(Mantissa(s)) = -k

\* The exponent of a number, and numbers whose text has p digits when rounded.
TensOf(x) == CHOOSE e \in 0 .. 9 : 10 ^ e * x[2] <= x[1] /\ x[1] < 10 ^ (e + 1) * x[2]
Rounds(x, p) ==
  LET k == p - 1 - TensOf(x) IN x[1] >= x[2] /\ 2 * Power(x[1], k) < (2 * 10 ^ p - 1) * Power(x[2], -k)
==============================================================================
