------------------------------- MODULE MCLibrary -------------------------------
(***************************************************************************)
(* The library of the language: arrays (darray.c), strings with regular    *)
(* expressions (dstring.c, regexp.c), and the functions whose answer only  *)
(* depends on their arguments (ddate.c, date.c, dateparse.c, dglobal.c,    *)
(* dnumber.c, dstring.c).  They share no state; which of them a script     *)
(* calls is chosen at first.  Behind the properties are the calls for TLC. *)
(***************************************************************************)
EXTENDS Array

CONSTANTS Jobs, Dollars,                                                       \* strings
          NaN, msPerSecond, SecondsPerMinute, MinutesPerHour, MaxTime, LocalTZA, StandardDate, DaylightDate,
          DaylightBias, BufferSize, Throws, FIXED_DIGITS, MaxDigits, Kinds, Questions(_),  \* functions
          v1, v2, foo, MaxLength                                               \* values, a name and a length of arrays

VARIABLES part,                                                       \* that is called
          job, pc, re, last, lastIndex, dc, i, offset, p, q, result,  \* strings
          asked, answer, answered                                     \* functions
stringVars == <<job, pc, re, last, lastIndex, dc, i, offset, p, q, result>>
builtinVars == <<asked, answer, answered>>
libraryVars == <<part, stringVars, arrayVars, builtinVars>>

Strings   == INSTANCE StringRegExp
Functions == INSTANCE Builtins

NoJob == [op |-> "none"]

LibraryInit ==
  /\ part \in {"string", "array", "function"}
  /\ Init
  /\ IF part = "string" THEN Strings!Init ELSE job = NoJob /\ Strings!Begin
  /\ IF part = "function" THEN Functions!Init ELSE asked = Functions!Unasked /\ Functions!Begin

StringStep   == part = "string" /\ Strings!Next /\ UNCHANGED <<part, arrayVars, builtinVars>>
ArrayStep    == part = "array" /\ Next /\ UNCHANGED <<part, stringVars, builtinVars>>
FunctionStep == part = "function" /\ Functions!Next /\ UNCHANGED <<part, stringVars, arrayVars>>

LibraryNext == StringStep \/ ArrayStep \/ FunctionStep
LibrarySpec == LibraryInit /\ [][LibraryNext]_libraryVars

------------------------------------------------------------------------------
(* Properties; LengthCovers and IsList are in Array. *)

\* What a search finds is one of the matches ECMA-262 15.10.2 has at that place, from regexp.c's
\* program run with its own backtracking; where Departs says, it need not be.
FoundIsMatch == Strings!FoundIsMatch

\* exec, search, match, replace and split return what 15.5.4 and 15.10.6 say, for patterns on
\* which the machine of regexp.c finds the first match of the standard.
StringsAgree == Strings!Agrees


\* The same of all patterns, as dstring.c:587 has it.
EachTurnLater == Strings!EachTurnLater

\* Dates tell, take and write their fields by the calendar and daylight saving time.
DatesRight == Functions!DatesRight

\* Strings are cut, found, escaped and encoded, and numbers read and written, as 15.1, 15.5 and 15.7 say.
TextsRight == Functions!TextsRight

------------------------------------------------------------------------------
(* Calls of strings: small patterns over two letters, and texts of up to four. *)

\* For what StringRegExp says of patterns alone, before there are jobs.
Patterns == INSTANCE StringRegExp WITH Jobs <- <<>>

Over(chars, n) == UNION {[1 .. k -> chars] : k \in 0 .. n}

la == <<"c", "a">>
lb == <<"c", "b">>
Dot == <<".">>
lab == <<"class", <<"a", "b">>, FALSE>>
notA == <<"class", <<"a">>, TRUE>>
G(n, t) == <<"group", n, t>>
Cat(s, t) == <<"cat", s, t>>
Or(s, t) == <<"or", s, t>>
Rep(S) == {<<"rep", t, k[1], k[2], k[3]>> : t \in S,
             k \in {<<0, Patterns!Inf, FALSE>>, <<1, Patterns!Inf, FALSE>>, <<0, 1, FALSE>>, <<2, 2, FALSE>>, <<1, Patterns!Inf, TRUE>>, <<0, 2, TRUE>>}}
Atoms == {la, lab, Dot, G(1, la), G(1, Cat(la, lb)), G(1, Or(la, lb)), G(1, Or(la, Cat(la, lb)))}
Pieces1 == Atoms \cup Rep(Atoms)
Trees == Pieces1 \cup {Cat(s, t) : s \in Pieces1, t \in {lb, notA}} \cup {Cat(t, s) : s \in Pieces1, t \in {la, Dot}}
           \cup {Or(s, t) : s \in Pieces1, t \in {lb, Cat(lb, la)}}
           \cup {Cat(G(1, s), G(2, t)) : s, t \in {lab, la, Cat(la, lb), Or(la, lb)}}
           \cup {Or(t, s) : s \in Pieces1, t \in {lb, Cat(lb, la)}}

Job == [op |-> "exec", tree |-> la, icase |-> FALSE, multi |-> FALSE, text |-> <<>>, behind |-> <<>>, global |-> FALSE,
        with |-> <<>>, fn |-> FALSE, inner |-> Patterns!None, sep |-> Patterns!None, limit |-> 100]
Esc(S) == {<<"esc", c>> : c \in S}
Classes2 == Esc({"d", "D", "s", "S", "w", "W"})
Others == {Cat(s, t) : s, t \in Classes2 \cup {<<"class", <<"a", "-", "c">>, FALSE>>, <<"class", <<"b", "_">>, TRUE>>, <<"c", "*">>}}
            \cup Rep(Classes2) \cup {Cat(G(1, s), <<"ref", 1>>) : s \in {lab, Cat(lab, lab), Or(la, lb)}}
            \cup {Cat(lb, Cat(t, s)) : t \in Esc({"b", "B"}), s \in {Dot, la}}
Anchored == {Cat(<<"^">>, s) : s \in Pieces1} \cup {Cat(s, <<"$">>) : s \in Pieces1}
AnyCase == Rep({la, lab}) \cup {Cat(la, lb), Cat(lb, lab), Cat(G(1, la), <<"ref", 1>>), notA}
Bracketed == {<<"class", <<"\\", e>>, neg>> : e \in {"d", "D", "s", "W", "n", "b"}, neg \in BOOLEAN}
AtWords == {Cat(t, s) : t \in Esc({"b", "B"}), s \in {la, Dot}}
Ones == {la, Dot, notA, <<"c", "B">>, <<"^">>, <<"$">>, <<"esc", "b">>, <<"esc", "B">>}
Mixed == Ones \cup {Cat(s, t) : s, t \in Ones} \cup {Or(s, t) : s, t \in Ones}
TwoGroups == {Cat(G(1, s), G(2, u)) : s, u \in {lab, la, Cat(la, lb), Or(la, lb)}}
NonEmpty == {t \in Trees : ~Patterns!MayBeEmpty(t)}
Of(S, n) == [1 .. n -> S]
ab == {"a", "b"}
MCJobs == <<
  {[Job EXCEPT !.tree = t, !.text = x] : t \in Trees, x \in Of(ab, 4) \cup {<<"a", "b", "b", "c">>, <<"b", "\n", "a">>, <<>>}},
  {[Job EXCEPT !.tree = t, !.text = x] : t \in Anchored, x \in Of(ab, 2) \cup {<<"a", "\n", "b">>, <<"a", "b", "a">>}},
  {[Job EXCEPT !.op = "search", !.tree = t, !.text = x] : t \in Others, x \in Of({"a", "b", "1", " ", "_", "*"}, 2) \cup Of(ab, 4)},
  {[Job EXCEPT !.op = "search", !.tree = Cat(<<"^">>, t), !.multi = TRUE, !.text = x] : t \in {la, Dot}, x \in Of({"a", "b", "\n"}, 4)},
  {[Job EXCEPT !.op = "search", !.tree = t, !.icase = TRUE, !.text = x] : t \in AnyCase, x \in Of({"a", "b", "A", "B", "c"}, 3)},
  {[Job EXCEPT !.op = o, !.tree = t, !.global = TRUE, !.text = x] : o \in {"match", "split"}, t \in Trees, x \in Of(ab, 3)},
  {[Job EXCEPT !.op = "split", !.tree = t, !.text = x, !.limit = n] : t \in TwoGroups, x \in Of(ab, 3) \cup {<<>>}, n \in 0 .. 4},
  {[Job EXCEPT !.op = "replace", !.tree = t, !.global = g, !.text = x, !.with = w] :
     g \in BOOLEAN, t \in Pieces1, x \in Of(ab, 3), w \in {<<"$", "&", "c">>, <<"$", "left">>, <<"c", "$", "right">>}},
  {[Job EXCEPT !.op = "replace", !.tree = t, !.global = g, !.text = x, !.with = w] :
     g \in BOOLEAN, t \in TwoGroups, x \in Of(ab, 3), w \in {<<"$", "2", "$", "1">>, <<"$", "1", "c">>}},
  {[Job EXCEPT !.op = "replace", !.tree = t, !.global = g, !.fn = TRUE, !.text = x, !.with = <<"c">>] :
     g \in BOOLEAN, t \in NonEmpty, x \in Of(ab, 3)},
  {[Job EXCEPT !.op = "replace", !.tree = t, !.fn = TRUE, !.text = x, !.with = <<"c">>, !.inner = y] :
     t \in NonEmpty, x \in Of(ab, 3), y \in {<<"a">>, <<"b", "b">>}},
  {[Job EXCEPT !.op = "search", !.tree = t, !.text = x] :
     t \in Bracketed \cup {Cat(s, la) : s \in Bracketed}, x \in Of({"a", "d", "1", " ", "\n", "bs"}, 2)},
  {[Job EXCEPT !.op = "match", !.tree = t, !.icase = c, !.multi = m, !.global = TRUE, !.text = x] :
     t \in Mixed, c, m \in BOOLEAN, x \in Of({"a", "B", "\n"}, 2)},
  {[Job EXCEPT !.op = "search", !.tree = t, !.text = x] : t \in AtWords, x \in Of({"a", " "}, 3)},
  {[Job EXCEPT !.op = o, !.tree = t, !.global = TRUE, !.text = x, !.behind = y] :
     o \in {"exec", "search", "match", "replace", "split"}, t \in {la, Cat(la, G(1, lb))}, x \in Of(ab, 2) \cup {<<>>},
     y \in {<<"b">>, <<"b", "a", "b">>}},
  {[Job EXCEPT !.op = "replace", !.tree = Cat(la, G(1, lb)), !.global = g, !.fn = TRUE, !.text = <<"a", "b">>, !.inner = y,
               !.behind = <<"b", "a", "b">>] : g \in BOOLEAN, y \in {<<"a">>, <<"a", "b", "a">>}},
  {[Job EXCEPT !.op = "replaceString", !.text = x, !.with = <<"c", "$", "&">>, !.sep = y] : x \in Of(ab, 3), y \in Of(ab, 2) \cup {<<>>}},
  {[Job EXCEPT !.op = "split", !.text = x, !.sep = y] : x \in Of(ab, 3), y \in Of(ab, 2) \cup {<<>>, <<"a">>}}
  >>

\* Matches of nothing at places of their own, and with a function.
MCTurnJobs == <<{[Job EXCEPT !.op = "replace", !.tree = <<"$">>, !.global = TRUE, !.fn = TRUE, !.text = <<"a", "b">>, !.with = <<"c">>]}>>

------------------------------------------------------------------------------
(* Calls of functions: dates of two centuries, small texts. *)

\* Daylight saving time from the first Sunday of April to the fourth of October.
Weekly(month, week) == [year |-> 0, month |-> month, dayOfWeek |-> 0, day |-> week, hour |-> 0]
MCDaylight == Weekly(4, 1)
MCStandard == Weekly(10, 4)
MCLocalTZA == -24

E == INSTANCE BuiltinsEcma WITH LocalTZA <- MCLocalTZA, StandardDate <- MCStandard, DaylightDate <- MCDaylight

------------------------------------------------------------------------------
(* Dates *)

Days == {E!DayNumber(y, md[1], md[2]) : y \in {1900, 1969, 1999, 2000, 2004},
           md \in {<<1, 1>>, <<2, 28>>, <<3, 1>>, <<4, 2>>, <<4, 3>>, <<7, 31>>, <<10, 22>>, <<10, 23>>, <<12, 31>>}}
Instants == {d * E!msPerDay + r : d \in Days, r \in {0, 1, 11, 13, 24, 150, E!msPerDay - 1}}
Afternoons == {d * E!msPerDay + r : d \in Days, r \in {149}}

Told(op) == {[of |-> "date", op |-> op, utc |-> u, v |-> v] : u \in BOOLEAN, v \in Instants}
Years == {[of |-> "date", op |-> "getYear", v |-> v] : v \in {v \in Instants : E!Fields(FALSE, v).year \in 1900 .. 1999}}

Small == {-1, 0, 1, 5}
Pairs(S) == {<<x>> : x \in S} \cup {<<x, y>> : x \in S, y \in {0, 4}}
SetArgs ==
  [setMilliseconds |-> {<<x>> : x \in Small}, setSeconds |-> Pairs(Small), setMinutes |-> Pairs(Small) \cup {<<2, 1, 0>>},
   setHours |-> Pairs({-1, 0, 2, 25}) \cup {<<23, 2, 1, 1>>}, setDate |-> {<<x>> : x \in {-1, 0, 1, 29, 32}},
   setMonth |-> {<<x>> : x \in {-11, -1, 0, 1, 2, 11, 12, 14, 23, 26}} \cup {<<1, 30>>, <<3, 2>>, <<14, 31>>},
   setFullYear |-> {<<2000>>, <<1900>>, <<2001>>}, setYear |-> {<<99>>, <<0>>, <<2000>>}]
Setters ==
  UNION {{[of |-> "date", op |-> op, utc |-> u, v |-> v, args |-> a] :
            u \in (IF op = "setYear" THEN {FALSE} ELSE BOOLEAN), v \in Afternoons, a \in SetArgs[op]} : op \in DOMAIN SetArgs}
    \cup {[of |-> "date", op |-> "setFullYear", utc |-> FALSE, v |-> v, args |-> a] :
            v \in Afternoons, a \in {<<2000, 1>>, <<2001, 11, 31>>, <<1900, 1, 29>>}}

Field(y, mo, d, h, mi, s, ms) ==
  [year |-> y, month |-> mo, date |-> d, hours |-> h, minutes |-> mi, seconds |-> s, ms |-> ms]
Dated == {<<y, md[1], md[2]>> : y \in {1999, 2000, 2001}, md \in {<<-1, 2>>, <<0, 1>>, <<1, 29>>, <<3, 2>>, <<6, 40>>, <<11, 31>>, <<12, 1>>, <<15, 3>>}}
Timed == {<<0, 0, 0, 0>>, <<2, 1, 0, 0>>, <<23, 2, 1, 1>>, <<25, 0, 0, 0>>}
Made == {[of |-> "date", op |-> op, args |-> d \o t, fields |-> Field(d[1], d[2] + 1, d[3], t[1], t[2], t[3], t[4])] :
           op \in {"UTC", "construct"}, d \in Dated, t \in Timed}
          \cup {[of |-> "date", op |-> op, args |-> <<d[1] - 1900>> \o Tail(d), fields |-> Field(d[1], d[2] + 1, d[3], 0, 0, 0, 0)] :
                  op \in {"UTC", "construct"}, d \in {x \in Dated : x[1] = 1999}}

\* Texts of a day and a time, and those with a zone of some hours ahead.
Num(n) == <<<<"number", n>>>>
Word(w) == <<<<"word", w>>>>
Mark(m) == <<<<m>>>>
MonthWords == <<"jan", "feb", "mar", "apr", "may", "jun", "jul", "aug", "sep", "oct", "nov", "dec">>
DayTexts(y, m, d) ==
  {Num(m) \o Mark("/") \o Num(d) \o Mark("/") \o Num(y), Num(y) \o Mark("-") \o Num(m) \o Mark("-") \o Num(d),
   Num(d) \o Word(MonthWords[m]) \o Num(y), Word("sun") \o Mark(",") \o Word(MonthWords[m]) \o Num(d) \o Num(y)}
TimeText(h, s) == Num(h) \o Mark(":") \o Num(2) \o (IF s = 0 THEN <<>> ELSE Mark(":") \o Num(s))
ClockTexts ==
  {<<TimeText(h, s), h, s>> : h \in {0, 2, 13, 23}, s \in {0, 1}}
    \cup {<<TimeText(h, 0) \o Word("pm"), (h % 12) + 12, 0>> : h \in {1, 11, 12}}
    \cup {<<TimeText(h, 0) \o Word("am"), h % 12, 0>> : h \in {1, 11, 12}}
Zones == {<<Word("gmt"), 0>>, <<Word("utc") \o Mark("+") \o Num(200), 2>>, <<Mark("-") \o Num(1100), -11>>, <<Word("est"), -5>>}
ParsedDays == {<<1999, 12, 31>>, <<2000, 2, 29>>, <<2000, 4, 2>>, <<1969, 7, 4>>}
ParsedIn(y, c) ==
  {[of |-> "date", op |-> "parse", text |-> x, times |-> E!AtLocal(E!TimeOf(Field(y[1], y[2], y[3], c[2], 2, c[3], 0)))] :
     x \in {d \o c[1] : d \in DayTexts(y[1], y[2], y[3])} \cup {c[1] \o d : d \in DayTexts(y[1], y[2], y[3])}}
ParsedZone(y, z) ==
  {[of |-> "date", op |-> "parse", text |-> d \o TimeText(5, 1) \o z[1],
    times |-> {E!TimeOf(Field(y[1], y[2], y[3], 5, 2, 1, 0)) - z[2] * E!msPerHour}] : d \in DayTexts(y[1], y[2], y[3])}
Parses == UNION {ParsedIn(y, c) : y \in ParsedDays, c \in ClockTexts} \cup UNION {ParsedZone(y, z) : y \in ParsedDays, z \in Zones}

------------------------------------------------------------------------------
(* Strings *)

Ask1(op, S, As) == {[of |-> "string", op |-> op, text |-> s, a |-> a] : s \in S, a \in As}
StringCalls ==
  Ask1("charAt", {<<>>, <<97, 98>>}, -1 .. 3) \cup Ask1("charCodeAt", {<<>>, <<97, 98>>}, -1 .. 3)
    \cup {[of |-> "string", op |-> o, text |-> s, sub |-> t, a |-> a] :
            o \in {"indexOf", "lastIndexOf"}, s \in Over({97, 98}, 3), t \in Over({97, 98}, 2), a \in -1 .. 5}
    \cup {[of |-> "string", op |-> o, text |-> s, a |-> a, b |-> b] :
            o \in {"slice", "substring"}, s \in {<<>>, <<97>>, <<97, 98, 99, 100>>}, a \in -5 .. 6, b \in -5 .. 6}
    \cup {[of |-> "string", op |-> "substr", text |-> <<97, 98, 99, 100>>, a |-> a, b |-> b] : a \in -4 .. 6, b \in -1 .. 6}
    \cup {[of |-> "string", op |-> o, text |-> s] : o \in {"toLowerCase", "toUpperCase"}, s \in Over({64, 65, 90, 91, 97}, 2)}
    \cup {[of |-> "string", op |-> o, text |-> s, sub |-> t] :
            o \in {"concat", "anchor", "bracket"}, s \in Over({97}, 3), t \in Over({66}, 3)}

------------------------------------------------------------------------------
(* Numbers and texts *)

Read(s, r, n) == [of |-> "text", op |-> "parseInt", text |-> s, radix |-> r, number |-> n]
Written == {<<<<49, 48>>, 2, 2>>, <<<<49, 48>>, 36, 36>>, <<<<102, 70>>, 16, 255>>, <<<<48, 120, 102>>, 16, 15>>,
            <<<<48, 88, 49, 48>>, 0, 16>>, <<<<48, 55, 49>>, 0, 57>>, <<<<48>>, 0, 0>>, <<<<49, 55>>, 0, 17>>, <<<<48, 120>>, 10, 0>>,
            <<<<55, 56>>, 8, 7>>, <<<<122>>, 36, 35>>}
ReadBack == {Read(pre \o sign[1] \o w[1] \o rest, w[2], sign[2] * w[3]) :
               w \in Written, pre \in {<<>>, <<32, 9>>}, rest \in {<<>>, <<46, 49>>, <<32>>}, sign \in {<<<<>>, 1>>, <<<<43>>, 1>>, <<<<45>>, -1>>}}
NoNumber == {Read(s, r, NaN) : s \in {<<>>, <<45>>, <<46>>, <<32, 43>>}, r \in {0, 10, 16, 1, 37}}
Radixes == {[of |-> "text", op |-> "toRadix", number |-> n, radix |-> r] : n \in 0 .. 40 \cup {255, 1295, 1296}, r \in 2 .. 36}

Text1(op, S) == {[of |-> "text", op |-> op, text |-> s] : s \in S}
Escapes == Text1("escape", Over({0, 37, 97, 43, 255, 256, 65535}, 3))
Unescapes == Text1("unescape", Over({37, 117, 48, 70}, 5) \cup {<<37, 117>> \o s : s \in Over({37, 48, 102, 103}, 5)})
Codes == {97, 35, 37, 127, 128, 2047, 2048, 55295, 55296, 56319, 56320, 57343, 57344, 65535}
Encodes == Text1("encodeURI", Over(Codes, 3)) \cup Text1("encodeURIComponent", Over(Codes, 2) \cup Over({97, 128, 65535}, 5))

ReservedHere == {36, 35}
DecodedTo(op, codes, cut) ==
  IF cut # "none" \/ (\E k \in DOMAIN codes : codes[k] > 1114111) THEN Throws
  ELSE E!FlattenSeq([k \in DOMAIN codes |->
         IF op = "decodeURI" /\ codes[k] \in ReservedHere THEN E!OctetText(E!UTF8(codes[k])) ELSE E!UTF16(codes[k])])
Decodes ==
  {[of |-> "text", op |-> op, text |-> E!CodesText(cs, cut), expected |-> DecodedTo(op, cs, cut)] :
     op \in {"decodeURI", "decodeURIComponent"}, cs \in Over({36, 35, 97, 128, 2047, 2048, 65535, 65536, 1114111, 1114112}, 3),
     cut \in {"none"}}
  \cup {[of |-> "text", op |-> op, text |-> E!CodesText(<<c, d>>, cut) \o x, expected |-> Throws] :
     op \in {"decodeURI", "decodeURIComponent"}, c \in {97, 2047}, d \in {128, 2048, 65535, 65536, 1114111}, cut \in {"first", "last"},
     x \in {<<>>, <<97, 97, 97>>}}

Fixed == {[of |-> "text", op |-> "toFixed", number |-> <<a, 8>>, digits |-> f] : a \in -20 .. 20 \cup {7999, 8001}, f \in 0 .. 2}
Positive == {<<a, b>> : a \in 1 .. 200, b \in {1, 3, 8}} \cup {<<a, 8>> : a \in {7999, 8001, 80000, 1234567}}
Digital(op, x, f, n) == [of |-> "text", op |-> op, number |-> x, digits |-> f, precision |-> n, exponent |-> E!TensOf(x)]
Exponentials == {Digital("toExponential", x, f, f + 1) : x \in {x \in Positive : \A n \in 1 .. 4 : E!Rounds(x, n)}, f \in 0 .. 3}
                  \cup {Digital("toExponential", <<x[1], 1>>, NaN, x[2]) : x \in {<<7, 1>>, <<120, 2>>, <<1050, 3>>, <<99999, 5>>}}
Precisions == {Digital("toPrecision", x, n, n) : x \in {x \in Positive : \A n \in 2 .. 5 : E!Rounds(x, n)}, n \in 2 .. 5}

Tellings == {"get", "offset", "toString", "toDateString", "toTimeString", "toUTCString"}
MCKinds == Tellings \cup {"getYear", "set", "make", "parse", "string", "parseInt", "none", "radix", "escape", "unescape",
                      "encode", "decode", "fixed", "exponential", "precision"}
MCQuestions(kind) ==
  CASE kind \in Tellings -> Told(kind) [] kind = "getYear" -> Years [] kind = "set" -> Setters [] kind = "make" -> Made
    [] kind = "parse" -> Parses [] kind = "string" -> StringCalls [] kind = "parseInt" -> ReadBack [] kind = "none" -> NoNumber
    [] kind = "radix" -> Radixes [] kind = "escape" -> Escapes [] kind = "unescape" -> Unescapes [] kind = "encode" -> Encodes
    [] kind = "decode" -> Decodes [] kind = "fixed" -> Fixed [] kind = "exponential" -> Exponentials
    [] kind = "precision" -> Precisions

------------------------------------------------------------------------------
(* Arrays *)

MCBefore(cmp, x, y) ==
  CASE cmp = "text"    -> x = v1 /\ y = v2
    [] cmp = "reverse" -> x = v2 /\ y = v1
    [] cmp = "same"    -> FALSE

MCAsUint32 == [x \in {foo} |-> 0]
MCWords == 32

Some  == {<<v1>>, <<v2, v1>>}
Lists == {<<>>, <<Undefined>>} \cup Some
Ends  == -4 .. 4
OtherArrays == {<<"array", <<v1>>>>, <<"array", <<Hole, v2>>>>, <<"array", <<v2, Hole>>>>, <<"value", v1>>}

MCCalls ==
  {<<o, vs>> : o \in {"new", "push", "unshift"}, vs \in Lists} \cup {<<o>> : o \in {"pop", "shift", "reverse"}}
    \cup {<<"put", k, v>> : k \in 0 .. MaxLength - 1, v \in {v1, v2, Undefined}}
    \cup {<<"delete", k>> : k \in 0 .. MaxLength} \cup {<<"length", n>> : n \in 0 .. MaxLength}
    \cup {<<"sort", cmp>> : cmp \in {"text", "reverse", "same"}} \cup {<<"join", v2>>}
    \cup {<<"slice", n, m>> : n, m \in Ends} \cup {<<"splice", n, m, vs>> : n \in Ends, m \in -1 .. 3, vs \in {<<>>} \cup Some}
    \cup {<<"concat", s>> : s \in {<<>>} \cup {<<x>> : x \in OtherArrays} \cup {<<x, y>> : x, y \in OtherArrays}}

Short == length <= MaxLength
==============================================================================
