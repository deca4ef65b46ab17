-------------------------------- MODULE Globals --------------------------------
(***************************************************************************)
(* Methods of strings, dscript/dstring.c, that take no regular expression, *)
(* functions of the global object, dscript/dglobal.c, that read and write  *)
(* texts, and the texts of numbers, dscript/dnumber.c.  A string or text   *)
(* is the sequence of its characters' codes; in memory a zero is behind    *)
(* it.  An index is the number of characters before it.                    *)
(***************************************************************************)
EXTENDS Integers, Sequences, FiniteSets, SequencesExt

LOCAL INSTANCE FiniteSetsExt

CONSTANTS NaN,
          BufferSize,  \* the characters of the buffer URI_Encode begins with
          Throws,      \* what a function gives that throws an URIError
          FIXED_DIGITS,   \* 20, and
          MaxDigits       \* 19, what fits into the integer the code rounds to

Least(S, default)    == IF S = {} THEN default ELSE Min(S)
Greatest(S, default) == IF S = {} THEN default ELSE Max(S)

\* Brought into the range from 0 to n.
Clamp(x, n) == IF x < 0 THEN 0 ELSE IF x > n THEN n ELSE x

\* memcpy and memcmp of n characters behind place k.
Copy(s, k, n) == SubSeq(s, k + 1, k + n)
Memory(s, k) == IF k < Len(s) THEN s[k + 1] ELSE 0
Same(s, k, sub) == \A j \in 0 .. Len(sub) - 1 : Memory(s, k + j) = sub[j + 1]

------------------------------------------------------------------------------
(* Looking up *)

charAt(s, pos)     == IF pos < 0 \/ Len(s) <= pos THEN <<>> ELSE <<s[pos + 1]>>
charCodeAt(s, pos) == IF pos < 0 \/ Len(s) <= pos THEN NaN ELSE s[pos + 1]

\* An empty string is found where the search begins.
indexOf(s, sub, position) ==
  LET pos == Clamp(position, Len(s))
  IN  IF sub = <<>> THEN pos ELSE Least({k \in pos .. Len(s) - Len(sub) : Same(s, k, sub)}, -1)

\* Begins at the end, also where no room is left: the zero there stops a comparison.
lastIndexOf(s, sub, position) ==
  LET pos == IF position = NaN THEN Len(s) ELSE Clamp(position, Len(s))
  IN  IF sub = <<>> THEN pos ELSE Greatest({k \in 0 .. pos : Same(s, k, sub)}, -1)

------------------------------------------------------------------------------
(* Parts *)

\* A place given from the end, brought into the string.
FromEnd(x, len) == IF x < 0 THEN Clamp(x + len, len) ELSE Clamp(x, len)
slice(s, start, end) ==
  LET from == FromEnd(start, Len(s))
      n    == FromEnd(end, Len(s)) - from
  IN  Copy(s, from, IF n < 0 THEN 0 ELSE n)

\* Ends the wrong way round are exchanged.
dstring_substring(s, start, end) ==
  LET a == Clamp(start, Len(s))
      b == Clamp(end, Len(s))
  IN  IF b < a THEN Copy(s, b, a - b) ELSE Copy(s, a, b - a)
substring(s, start, end) == dstring_substring(s, start, end)

\* The end is made of a start that may still be before the string.
substr(s, start, length) ==
  LET from == IF start < 0 THEN Len(s) + start ELSE start
  IN  dstring_substring(s, from, from + (IF length < 0 THEN 0 ELSE length))

concat(s, args) == s \o FlattenSeq(args)

------------------------------------------------------------------------------
(* Cases *)

toLower(c) == IF c \in 65 .. 90 THEN c + 32 ELSE c
toUpper(c) == IF c \in 97 .. 122 THEN c - 32 ELSE c

\* The new text is compared with what is behind the old one, which begins with a zero; if
\* that is the same the old text is kept.
tocase(s, F(_)) ==
  LET out == [k \in DOMAIN s |-> F(s[k])]
  IN  IF out = <<>> \/ out[1] = 0 THEN s ELSE out
toLowerCase(s) == tocase(s, toLower)
toUpperCase(s) == tocase(s, toUpper)

------------------------------------------------------------------------------
(* Tags around a text: pieces put one behind the other in memory of a length that *)
(* was computed before.  It has to be just enough.                                *)

Filled(length, pieces) == [length |-> length, text |-> FlattenSeq(pieces)]

dstring_anchor(s, tag, name, anchor) ==
  Filled(9 + 2 * Len(tag) + Len(name) + Len(anchor) + Len(s),
         <<<<"<">>, tag, <<" ">>, name, <<"=", "quote">>, anchor, <<"quote", ">">>, s, <<"<", "/">>, tag, <<">">>>>)
dstring_bracket(s, tag) ==
  Filled(5 + 2 * Len(tag) + Len(s), <<<<"<">>, tag, <<">">>, s, <<"<", "/">>, tag, <<">">>>>)

------------------------------------------------------------------------------
(* Characters *)

Digit(c) == CASE c \in 48 .. 57  -> c - 48
              [] c \in 65 .. 90  -> c - 65 + 10
              [] c \in 97 .. 122 -> c - 97 + 10
              [] OTHER           -> 99
TOHEX(n)    == IF n < 10 THEN 48 + n ELSE 65 + n - 10
isxdigit(c) == Digit(c) < 16

IsLetterOrDigit(c) == c \in 48 .. 57 \cup 65 .. 90 \cup 97 .. 122
isStrWhiteSpaceChar(c) == c \in {32, 9, 160, 12, 11, 13, 10, 8232, 8233}

\* Bits of a number, from bit n up.
Shifted(x, n) == x \div (2 ^ n)
Low(x, n) == x % (2 ^ n)

------------------------------------------------------------------------------
(* parseInt and toString *)

Behind(s, k) == SubSeq(s, k, Len(s))
Blanks(s) == Least({k \in 1 .. Len(s) : ~ isStrWhiteSpaceChar(s[k])}, Len(s) + 1)
IsHex(s) == Len(s) >= 2 /\ s[1] = 48 /\ s[2] \in {120, 88}

\* The radix and the text behind its prefix; a text that begins with 0 is octal.
Radix(s, radix) ==
  CASE radix \in {0, 16} /\ IsHex(s)   -> <<16, Behind(s, 3)>>
    [] radix # 0                       -> <<radix, s>>
    [] s # <<>> /\ s[1] # 48           -> <<10, s>>
    [] OTHER                           -> <<8, s>>

\* The number of the digits s begins with.
Digits(s, r) == SubSeq(s, 1, Least({k \in 1 .. Len(s) : r <= Digit(s[k])}, Len(s) + 1) - 1)
ValueOf(s, r) == LET f[k \in 0 .. Len(s)] == IF k = 0 THEN 0 ELSE f[k - 1] * r + Digit(s[k]) IN f[Len(s)]

Unsigned(radix, s) == LET d == Digits(s, radix) IN IF d = <<>> THEN NaN ELSE ValueOf(d, radix)
Negated(n, negative) == IF negative /\ n # NaN THEN -n ELSE n
WithRadix(r, negative) == Negated(Unsigned(r[1], r[2]), negative)
SignedInt(s, radix) ==
  IF s # <<>> /\ s[1] \in {43, 45} THEN WithRadix(Radix(Tail(s), radix), s[1] = 45) ELSE WithRadix(Radix(s, radix), FALSE)
parseInt(s, radix) ==
  IF radix # 0 /\ radix \notin 2 .. 36 THEN NaN ELSE SignedInt(Behind(s, Blanks(s)), radix)

\* itoa.  Of a negative number with another radix than 10, the word is written.
Letter(n) == IF n < 10 THEN 48 + n ELSE 97 + n - 10
itoa(n, radix) ==
  LET f[k \in Nat] == IF k < radix THEN <<Letter(k)>> ELSE Append(f[k \div radix], Letter(k % radix)) IN f[n]

------------------------------------------------------------------------------
(* escape and unescape *)

Percent(n)  == <<37, TOHEX(Shifted(n, 4)), TOHEX(Low(n, 4))>>
PercentU(c) == <<37, 117, TOHEX(Shifted(c, 12)), TOHEX(Low(Shifted(c, 8), 4)), TOHEX(Low(Shifted(c, 4), 4)), TOHEX(Low(c, 4))>>
Plain(c)    == IsLetterOrDigit(c) \/ c \in {42, 64, 45, 95, 43, 46, 47}   \* *@-_+./
Escaped(c)  == IF c >= 256 THEN PercentU(c) ELSE IF Plain(c) THEN <<c>> ELSE Percent(c)
escape(s)   == FlattenSeq([k \in DOMAIN s |-> Escaped(s[k])])

\* The length escape computes, before it writes.
EscapedSize(s) ==
  Len(s) + 2 * Cardinality({k \in DOMAIN s : s[k] < 256 /\ ~ Plain(s[k])}) + 5 * Cardinality({k \in DOMAIN s : s[k] >= 256})

\* n digits from index k on; no digit is read behind the zero that ends the text.
HexAt(s, k, n) == \A j \in k .. k + n - 1 : isxdigit(Memory(s, j))
HexOf(s, k, n) == ValueOf(Copy(s, k, n), 16)

\* The lengths are unsigned, so a text that is too short passes and fails at its end.
FitsShort(len, n, k) == len >= n /\ k < len - n
Fits(len, n, k) == len < n \/ k <= len - n
Unescaped(s, k) ==
  CASE Memory(s, k) # 37 -> <<s[k + 1], k + 1>>
    [] Memory(s, k) = 37 /\ Fits(Len(s), 6, k) /\ Memory(s, k + 1) = 117 ->
         IF HexAt(s, k + 2, 4) THEN <<HexOf(s, k + 2, 4), k + 6>> ELSE <<37, k + 1>>
    [] OTHER -> IF Fits(Len(s), 3, k) /\ HexAt(s, k + 1, 2) THEN <<HexOf(s, k + 1, 2), k + 3>> ELSE <<37, k + 1>>
unescape(s) ==
  LET f[k \in 0 .. Len(s)] == IF k = Len(s) THEN <<>> ELSE LET u == Unescaped(s, k) IN <<u[1]>> \o f[u[2]] IN f[0]

------------------------------------------------------------------------------
(* encodeURI and its like *)

URI_Reserved == {59, 47, 63, 58, 64, 38, 61, 43, 36, 44}         \* ;/?:@&=+$,
URI_Mark     == {45, 95, 46, 33, 126, 42, 39, 40, 41}            \* -_.!~*'()
URI_Hash     == {35}
URI_AlphaDigit == 48 .. 57 \cup 65 .. 90 \cup 97 .. 122

\* The octets of a code: up to 7 bits, then 5 + 6, 4 + 12 or 3 + 18.
Tail6(V, n) == 128 + Low(Shifted(V, n), 6)
OctetsOf(V) ==
  CASE V <= 127    -> <<V>>
    [] V \in 128 .. 2047      -> <<192 + Shifted(V, 6), Tail6(V, 0)>>
    [] V \in 2048 .. 65535    -> <<224 + Shifted(V, 12), Tail6(V, 6), Tail6(V, 0)>>
    [] V \in 65536 .. 2097151 -> <<240 + Shifted(V, 18), Tail6(V, 12), Tail6(V, 6), Tail6(V, 0)>>

\* The code at index k of a text: of two words if the first is a high surrogate.
IsHigh(c) == c \in 55296 .. 56319
IsLow(c)  == c \in 56320 .. 57343
Pair(c, d) == (c - 55296) * 1024 + (d - 56320) + 65536

\* A result: what is written, the size of the memory, whether all was written inside of it
\* and whether there is no code.
Unwritten == [text |-> <<>>, size |-> BufferSize - 1, inside |-> TRUE, lost |-> FALSE]
LostIn(R)  == [R EXCEPT !.lost = TRUE]
Grow(R, size) == [R EXCEPT !.size = size]
Write(R, t) == [R EXCEPT !.text = @ \o t, !.inside = @ /\ Len(R.text) + Len(t) <= R.size]

PutChar(R, c) == Write(IF Len(R.text) = R.size THEN Grow(R, 2 * R.size) ELSE R, <<c>>)
NeedsMore(R, n) == n >= R.size
PutOctets(R, octets) ==
  LET n == Len(R.text) + 3 * Len(octets)
  IN  Write(IF NeedsMore(R, n) THEN Grow(R, 2 * n) ELSE R, FlattenSeq([j \in DOMAIN octets |-> Percent(octets[j])]))

RECURSIVE EncodeFrom(_, _, _, _)
URI_EncodeRest(s, unescaped, k, R) == IF R.lost THEN R ELSE EncodeFrom(s, unescaped, k, R)
EncodeCode(s, k, R) ==
  CASE IsLow(s[k])  -> LostIn(R)
    [] IsHigh(s[k]) -> IF k < Len(s) /\ IsLow(Memory(s, k)) THEN PutOctets(R, OctetsOf(Pair(s[k], s[k + 1]))) ELSE LostIn(R)
    [] OTHER        -> PutOctets(R, OctetsOf(s[k]))
EncodeFrom(s, unescaped, k, R) ==
  IF k > Len(s) THEN R
  ELSE IF s[k] \in unescaped THEN EncodeFrom(s, unescaped, k + 1, PutChar(R, s[k]))
  ELSE URI_EncodeRest(s, unescaped, IF IsHigh(s[k]) THEN k + 2 ELSE k + 1, EncodeCode(s, k, R))
URI_Encode(s, unescaped) == EncodeFrom(s, unescaped, 1, Unwritten)

encodeURI(s)          == URI_Encode(s, URI_Reserved \cup URI_Hash \cup URI_AlphaDigit \cup URI_Mark)
encodeURIComponent(s) == URI_Encode(s, URI_AlphaDigit \cup URI_Mark)

------------------------------------------------------------------------------
(* decodeURI and its like *)

OctetAt(s, k) == HexOf(s, k + 1, 2)
IsOctet(s, k) == Memory(s, k) = 37 /\ k + 2 < Len(s) /\ HexAt(s, k + 1, 2)

\* How many octets one of eight bits begins: its leading ones, of which 2 to 4 will do.
Ones(B) == Cardinality({n \in 1 .. 8 : \A m \in 1 .. n : Low(Shifted(B, 8 - m), 1) = 1})

Continues(s, k) == IsOctet(s, k) /\ OctetAt(s, k) \in 128 .. 191
CodeOf(s, k, n) ==
  LET f[j \in 0 .. n - 1] ==
        IF j = 0 THEN Low(OctetAt(s, k), 7 - n) ELSE f[j - 1] * 64 + Low(OctetAt(s, k + 3 * j), 6)
  IN  f[n - 1]

\* What is written for the code of octets from k up to before e.
Words2(V) == <<55296 + Low(Shifted(V - 65536, 10), 10), 56320 + Low(V - 65536, 10)>>
Decoded(s, k, e, V, reserved) ==
  CASE V > 1114111             -> Throws
    [] V \in 65536 .. 1114111  -> Words2(V)
    [] OTHER -> IF V \in reserved THEN Copy(s, k, e - k) ELSE <<V>>

RECURSIVE DecodeFrom(_, _, _, _)
DecodeRest(s, k, piece, text, reserved) == IF piece = Throws THEN Throws ELSE DecodeFrom(s, k, text \o piece, reserved)
DecodeMany(s, k, n, text, reserved) ==
  IF n \in 2 .. 4 /\ (\A j \in 1 .. n - 1 : Continues(s, k + 3 * j))
  THEN DecodeRest(s, k + 3 * n, Decoded(s, k, k + 3 * n, CodeOf(s, k, n), reserved), text, reserved) ELSE Throws
DecodeOctet(s, k, text, reserved) ==
  IF OctetAt(s, k) < 128 THEN DecodeRest(s, k + 3, Decoded(s, k, k + 3, OctetAt(s, k), reserved), text, reserved)
  ELSE DecodeMany(s, k, Ones(OctetAt(s, k)), text, reserved)
DecodeFrom(s, k, text, reserved) ==
  IF k = Len(s) THEN text
  ELSE IF Memory(s, k) # 37 THEN DecodeFrom(s, k + 1, Append(text, s[k + 1]), reserved)
  ELSE IF IsOctet(s, k) THEN DecodeOctet(s, k, text, reserved) ELSE Throws
URI_Decode(s, reserved) == DecodeFrom(s, 0, <<>>, reserved)

decodeURI(s)          == URI_Decode(s, URI_Reserved \cup URI_Hash)
decodeURIComponent(s) == URI_Decode(s, {})

------------------------------------------------------------------------------
(* Decimal texts of numbers.  A number is a fraction <<a, b>>, b > 0, so that   *)
(* rounding is exact; the code has doubles.                                    *)

RangeError == <<"RangeError">>

\* x * 10 ^ k, by a fraction.
Scaled(x, k) == IF k >= 0 THEN <<x[1] * 10 ^ k, x[2]>> ELSE <<x[1], x[2] * 10 ^ (-k)>>
IsNegative(x) == x[1] < 0
Absolute(x) == IF x[1] < 0 THEN <<-x[1], x[2]>> ELSE x

Round(x) == (2 * x[1] + x[2]) \div (2 * x[2])
Sign(x) == IF IsNegative(x) THEN <<45>> ELSE <<>>
Zeros(n) == [j \in 1 .. n |-> 48]
ull_to_string(n) == itoa(n, 10)

\* (int) log10(x): towards zero, so one more than the exponent of a number below one.
AtLeastOne(x) == x[1] >= x[2]
Log10(x) ==
  IF AtLeastOne(x) THEN CHOOSE k \in 0 .. 9 : AtLeastOne(Scaled(x, -k)) /\ ~ AtLeastOne(Scaled(x, -k - 1))
  ELSE -(CHOOSE k \in 0 .. 9 : Scaled(x, k)[1] <= x[2] /\ Scaled(x, k + 1)[1] > x[2])
deconstruct_real(x, f) == [e |-> Log10(x), n |-> Round(Scaled(x, f - Log10(x)))]

------------------------------------------------------------------------------
(* toFixed.  Numbers from 10e21 on, which toString writes, are left out. *)

Pointed(m, k) == SubSeq(m, 1, k) \o <<46>> \o SubSeq(m, k + 1, Len(m))
Padded(m, f) == IF Len(m) <= f THEN Zeros(f + 1 - Len(m)) \o m ELSE m
WithPoint(m, f) == IF f = 0 THEN m ELSE Pointed(Padded(m, f), Len(Padded(m, f)) - f)
toFixed(x, f) ==
  IF f < 0 \/ f > FIXED_DIGITS THEN RangeError
  ELSE Sign(x) \o WithPoint(ull_to_string(Round(Scaled(Absolute(x), f))), f)

------------------------------------------------------------------------------
(* toExponential *)

\* A number without the zeros at its end, and how many are left behind the point.
Lopped(n, f) ==
  LET g[k \in 0 .. f] == IF k < f /\ n % 10 ^ (k + 1) = 0 THEN g[k + 1] ELSE k
  IN  <<n \div 10 ^ g[0], f - g[0]>>

\* No sign is written before an exponent but of one that is not negative.
ExponentText(e) == IF e < 0 THEN <<101, 45>> \o ull_to_string(-e) ELSE <<101, 43>> \o ull_to_string(e)
WithExponent(m, f, e) == (IF f = 0 THEN m ELSE <<m[1], 46>> \o SubSeq(m, 2, Len(m))) \o ExponentText(e)

AllDigits(d) == LET l == Lopped(d.n, MaxDigits) IN WithExponent(ull_to_string(l[1]), l[2], d.e)
Given(d, f) == WithExponent(ull_to_string(d.n), f, d.e)
toExponential(x, f) ==
  CASE f # NaN /\ (f < 0 \/ f > FIXED_DIGITS) -> RangeError
    [] x[1] = 0 -> WithExponent(Zeros(IF f = NaN THEN 1 ELSE f + 1), IF f = NaN THEN 0 ELSE f, 0)
    [] f = NaN  -> Sign(x) \o AllDigits(deconstruct_real(Absolute(x), MaxDigits))
    [] OTHER    -> Sign(x) \o Given(deconstruct_real(Absolute(x), f), f)

------------------------------------------------------------------------------
(* toPrecision *)

Precise(m, e, p) ==
  CASE e = p - 1 -> m
    [] e >= 0 /\ e # p - 1 -> Pointed(m, e + 1)
    [] e < 0     -> <<48, 46>> \o Zeros(-(e + 1)) \o m
PreciseOf(d, p) ==
  LET m == ull_to_string(d.n)
  IN  IF d.e < -6 \/ d.e >= p THEN <<m[1], 46>> \o SubSeq(m, 2, Len(m)) \o ExponentText(d.e) ELSE Precise(m, d.e, p)
toPrecision(x, p) ==
  CASE p < 1 \/ p > FIXED_DIGITS + 1 -> RangeError
    [] x[1] = 0 -> Precise(Zeros(p), 0, p)
    [] OTHER    -> Sign(x) \o PreciseOf(deconstruct_real(Absolute(x), p - 1), p)
==============================================================================
