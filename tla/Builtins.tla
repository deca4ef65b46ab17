-------------------------------- MODULE Builtins --------------------------------
(***************************************************************************)
(* Calls of the built-in functions whose answer depends on their arguments *)
(* alone: those of dates, strings and numbers and those of the global      *)
(* object that read and write texts.  A script asks, and is answered.      *)
(***************************************************************************)
EXTENDS Integers, Sequences, FiniteSets

CONSTANTS NaN, msPerSecond, SecondsPerMinute, MinutesPerHour, MaxTime,
          LocalTZA, StandardDate, DaylightDate, DaylightBias,
          BufferSize, Throws, FIXED_DIGITS, MaxDigits,
          Kinds, Questions(_)    \* the calls there are, of each kind a set

VARIABLES asked, answer, answered
builtinVars == <<asked, answer, answered>>

Dates == INSTANCE Dates
Texts == INSTANCE Globals
Spec262 == INSTANCE BuiltinsEcma

Unasked == [op |-> "none", of |-> "none"]

------------------------------------------------------------------------------
(* The functions *)

\* All that a date tells of itself.
Shown(utc, v) ==
  [year |-> Dates!getFullYear(utc, v), month |-> Dates!getMonth(utc, v) + 1, date |-> Dates!getDate(utc, v),
   hours |-> Dates!getHours(utc, v), minutes |-> Dates!getMinutes(utc, v), seconds |-> Dates!getSeconds(utc, v),
   ms |-> Dates!getMilliseconds(utc, v), day |-> Dates!getDay(utc, v)]

DateAnswer(q) ==
  CASE q.op = "get"       -> Shown(q.utc, q.v)
    [] q.op = "getYear"   -> Dates!getYear(q.v)
    [] q.op = "offset"    -> Dates!getTimezoneOffset(q.v)
    [] q.op = "UTC"       -> Dates!DateUTC(q.args)
    [] q.op = "construct" -> Dates!Construct(q.args)
    [] q.op = "parse"     -> Dates!parse(q.text)
    [] q.op = "toString"     -> Dates!toString(q.v)
    [] q.op = "toDateString" -> Dates!toDateString(q.v)
    [] q.op = "toTimeString" -> Dates!toTimeString(q.v)
    [] q.op = "toUTCString"  -> Dates!toUTCString(q.v)
    [] OTHER              -> Dates!Set(q.op, q.utc, q.v, q.args)

StringAnswer(q) ==
  CASE q.op = "charAt"      -> Texts!charAt(q.text, q.a)
    [] q.op = "charCodeAt"  -> Texts!charCodeAt(q.text, q.a)
    [] q.op = "concat"      -> Texts!concat(q.text, <<q.sub>>)
    [] q.op = "indexOf"     -> Texts!indexOf(q.text, q.sub, q.a)
    [] q.op = "lastIndexOf" -> Texts!lastIndexOf(q.text, q.sub, q.a)
    [] q.op = "slice"       -> Texts!slice(q.text, q.a, q.b)
    [] q.op = "substring"   -> Texts!substring(q.text, q.a, q.b)
    [] q.op = "substr"      -> Texts!substr(q.text, q.a, q.b)
    [] q.op = "toLowerCase" -> Texts!toLowerCase(q.text)
    [] q.op = "toUpperCase" -> Texts!toUpperCase(q.text)
    [] q.op = "anchor"      -> Texts!dstring_anchor(q.text, q.sub, q.sub, q.sub)
    [] q.op = "bracket"     -> Texts!dstring_bracket(q.text, q.sub)

TextAnswer(q) ==
  CASE q.op = "parseInt"     -> Texts!parseInt(q.text, q.radix)
    [] q.op = "toRadix"      -> Texts!parseInt(Texts!itoa(q.number, q.radix), q.radix)
    [] q.op = "escape"       -> Texts!escape(q.text)
    [] q.op = "unescape"     -> Texts!unescape(q.text)
    [] q.op = "encodeURI"          -> Texts!encodeURI(q.text)
    [] q.op = "encodeURIComponent" -> Texts!encodeURIComponent(q.text)
    [] q.op = "decodeURI"          -> Texts!decodeURI(q.text)
    [] q.op = "decodeURIComponent" -> Texts!decodeURIComponent(q.text)
    [] q.op = "toFixed"       -> Texts!toFixed(q.number, q.digits)
    [] q.op = "toExponential" -> Texts!toExponential(q.number, q.digits)
    [] q.op = "toPrecision"   -> Texts!toPrecision(q.number, q.digits)

AnswerTo(q) ==
  CASE q.of = "date" -> DateAnswer(q) [] q.of = "string" -> StringAnswer(q) [] q.of = "text" -> TextAnswer(q)

Begin == answer = NaN /\ answered = FALSE
Init == (\E kind \in Kinds : asked \in Questions(kind)) /\ Begin
Answer == ~ answered /\ answered' = TRUE /\ answer' = AnswerTo(asked) /\ UNCHANGED asked
Next == Answer
Spec == Init /\ [][Next]_builtinVars

------------------------------------------------------------------------------
(* Properties *)

\* A date that is parsed is at the second its text says; only texts with a year are read, and
\* not those of the hour that comes twice in a year.
SecondOf(t) == t - (t % msPerSecond)
Local(v) == v + Spec262!Ahead(v)
Once(v) == Spec262!AtLocal(Local(v)) = {v}

DateMarks(f) == <<<<"number", f.year>>, <<"/">>, <<"number", f.month>>, <<"/">>, <<"number", f.date>>>>
TextRead(q) ==
  CASE q.op = "toString"     -> Local(Dates!parse(answer)) = SecondOf(Local(q.v))
    [] q.op = "toDateString" -> Spec262!TimesAt(FALSE, Spec262!Midnight(Spec262!Fields(FALSE, q.v))) \subseteq {Dates!parse(answer)}
    [] q.op = "toTimeString" -> Dates!parse(answer \o DateMarks(Spec262!Fields(FALSE, q.v))) = SecondOf(q.v)
    [] q.op = "toUTCString"  -> Dates!parse(answer) = SecondOf(q.v)

\* A month past the ends of the year that comes to a leap year, to the other side of February:
\* date.c:342 adds the 29th by the month that was given, and then finds no such day.
MonthLost(f) ==
  LET month == f.month - 1
  IN Spec262!IsLeap(f.year + (month \div 12)) /\ (month >= 2) # (month % 12 >= 2)
MadeOf(utc, f) == MonthLost(f) \/ Spec262!TimesAt(utc, f) = {} \/ answer \in Spec262!TimesAt(utc, f)
SetTo(q) == MadeOf(q.utc, Spec262!AfterSet(Spec262!Fields(q.utc, q.v), q.op, q.args))

\* ECMA-262 15.9: dates tell their fields, setters change those they are to change and carry
\* what is too much into the next, but for the months of MonthLost, and what toUTCString
\* writes is read again, and what toString writes but for an hour that comes twice, by the
\* calendar of leap years and through the changes of daylight saving time, at midnight by UTC.
DatesRight ==
  answered /\ asked.of = "date" =>
    CASE asked.op = "get"       -> answer = Spec262!Fields(asked.utc, asked.v)
      [] asked.op = "getYear"   -> answer = Spec262!Fields(FALSE, asked.v).year - 1900
      [] asked.op = "offset"    -> asked.v - Local(asked.v) = answer * SecondsPerMinute * msPerSecond
      [] asked.op \in {"UTC", "construct"} -> MadeOf(asked.op = "UTC", asked.fields)
      [] asked.op = "parse"     -> answer \in asked.times \/ asked.times = {}
      [] asked.op = "toUTCString" -> TextRead(asked)
      [] asked.op \in {"toString", "toDateString", "toTimeString"} -> Once(asked.v) => TextRead(asked)
      [] OTHER                  -> SetTo(asked)

StringRight(q) ==
  IF q.op \in {"anchor", "bracket"} THEN Len(answer.text) = answer.length ELSE answer = Spec262!StringMethod(q)

\* A text that is encoded has only plain characters and octets in it, and is decoded to itself.
EncodedRight(q) ==
  /\ answer.lost <=> ~ Spec262!WellFormed(q.text)
  /\ answer.inside
  /\ ~ answer.lost => Texts!decodeURI(answer.text) = q.text \/ q.op = "encodeURIComponent"
  /\ ~ answer.lost => Texts!decodeURIComponent(answer.text) = q.text

TextRight(q) ==
  CASE q.op \in {"parseInt", "toRadix"} -> answer = q.number
    [] q.op = "escape"    -> Spec262!UnescapedText(answer) = q.text /\ Len(answer) = Texts!EscapedSize(q.text)
    [] q.op = "unescape"  -> answer = Spec262!UnescapedText(q.text)
    [] q.op \in {"encodeURI", "encodeURIComponent"} -> EncodedRight(q)
    [] q.op \in {"decodeURI", "decodeURIComponent"} -> answer = q.expected
    [] q.op = "toFixed"   -> Spec262!IsFixed(answer, q.number, q.digits)
    [] q.op \in {"toExponential", "toPrecision"} -> Spec262!Digitwise(answer, q.number, q.precision, q.exponent)

\* ECMA-262 15.1.2, 15.1.3, 15.5.4 and 15.7.4: parts and places of strings; numbers read as
\* they are written, in every radix; escape and encodeURI undone by what decodes, an error
\* exactly for what has no code, of octets no longer than they need be and of no surrogates;
\* nothing written outside of a buffer.
TextsRight ==
  answered /\ asked.of # "date" => IF asked.of = "string" THEN StringRight(asked) ELSE TextRight(asked)
==============================================================================
