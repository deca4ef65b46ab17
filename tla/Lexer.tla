--------------------------------- MODULE Lexer ---------------------------------
(***************************************************************************)
(* Tokens of a text, dscript/lexer.c.  A text is a sequence of characters; *)
(* a word, keyword or not, is one of them, and so is what a number or a    *)
(* string has between its ends.  A token is found from a place in the      *)
(* text, with no other state: peek, nextToken and rescan are places too.   *)
(***************************************************************************)
EXTENDS Integers, SequencesExt, FiniteSetsExt

Space      == {" ", "\t"}
Terminator == {"\n", "\r"}
Quote      == {"'", "\""}
Digit      == {"0", "1", "8"}
Hex        == Digit \cup {"a", "e"}
Exponent   == {"e", "E"}

Keyword == {
  "break", "case", "catch", "class", "const", "continue", "debugger", "default", "delete", "do",
  "else", "enum", "export", "extends", "false", "finally", "for", "function", "if", "import", "in",
  "instanceof", "new", "null", "return", "super", "switch", "this", "throw", "true", "try",
  "typeof", "var", "void", "while", "with", "abstract", "boolean", "byte", "char", "double",
  "final", "float", "goto", "implements", "int", "interface", "long", "native", "package",
  "private", "protected", "public", "short", "static", "synchronized", "throws", "transient"}
Letter == Keyword \cup {"a", "b", "c", "e", "f", "g", "i", "n", "x", "_", "$"}
Alnum  == Letter \cup Digit

Punctuator == {
  <<"{">>, <<"}">>, <<"(">>, <<")">>, <<"[">>, <<"]">>, <<";">>, <<",">>, <<"~">>, <<"?">>, <<":">>,
  <<".">>, <<"<">>, <<">">>, <<"<", "=">>, <<">", "=">>, <<"<", "<">>, <<">", ">">>,
  <<"<", "<", "=">>, <<">", ">", "=">>, <<">", ">", ">">>, <<">", ">", ">", "=">>,
  <<"=">>, <<"=", "=">>, <<"=", "=", "=">>, <<"!">>, <<"!", "=">>, <<"!", "=", "=">>,
  <<"+">>, <<"+", "+">>, <<"+", "=">>, <<"-">>, <<"-", "-">>, <<"-", "=">>,
  <<"*">>, <<"*", "=">>, <<"%">>, <<"%", "=">>, <<"/">>, <<"/", "=">>,
  <<"&">>, <<"&", "&">>, <<"&", "=">>, <<"|">>, <<"|", "|">>, <<"|", "=">>, <<"^">>, <<"^", "=">>}

\* A token: its kind, which is its spelling for words and punctuators; what it says; where it
\* begins and the text goes on; if a line ended before it; and a token pushed back behind it.
Token(t, says, from, to, nl) ==
  [t |-> t, says |-> says, from |-> from, to |-> to, nl |-> nl, behind |-> <<>>]
Error == Token("error", <<>>, 0, 0, FALSE)

\* The character at a place, and "eof" behind the text.
At(text, p) == IF p \in DOMAIN text THEN text[p] ELSE "eof"
Has(text, p, s) == \A i \in DOMAIN s : At(text, p + i - 1) = s[i]

\* The first place from p on where the text has none of chars.
While(text, p, chars) ==
  Min({q \in p .. Len(text) + 1 : At(text, q) \notin chars})
\* The first place from p on where the text has one of chars, or its end.
Until(text, p, chars) == Min({q \in p .. Len(text) + 1 : At(text, q) \in chars \cup {"eof"}})

------------------------------------------------------------------------------
(* Blanks *)

\* The end of a comment that begins at p, or 0 if it has none.
CommentEnd(text, p) ==
  LET ends == {q \in p + 2 .. Len(text) : Has(text, q, <<"*", "/">>)}
  IN IF ends = {} THEN 0 ELSE Min(ends) + 2
LineEnd(text, p) == Until(text, p, Terminator)

\* From p, the place of the next token, and if a line ended before it. A comment without end
\* is an error; a line comment may end with the text, and one that begins as HTML may not.
RECURSIVE Skip(_, _, _)
Skip(text, p, nl) ==
  IF At(text, p) \in Space THEN Skip(text, p + 1, nl)
  ELSE IF At(text, p) \in Terminator THEN Skip(text, p + 1, TRUE)
  ELSE IF Has(text, p, <<"/", "*">>)
  THEN LET q == CommentEnd(text, p)
       IN IF q = 0 THEN [p |-> 0, nl |-> nl]
          ELSE Skip(text, q, nl \/ \E i \in p .. q - 1 : text[i] \in Terminator)
  ELSE IF Has(text, p, <<"/", "/">>) \/ Has(text, p, <<"<", "!", "-", "-">>)
  THEN LET q == LineEnd(text, p)
       IN IF q <= Len(text) THEN Skip(text, q + 1, TRUE)
          ELSE [p |-> IF At(text, p) = "/" THEN q ELSE 0, nl |-> nl]
  ELSE [p |-> p, nl |-> nl]

------------------------------------------------------------------------------
(* Numbers, strings and regular expressions *)

\* The end of a number that begins at p, or 0 for a bad one. x is only looked at as the
\* second character, behind any digit.
ExponentEnd(text, p) ==
  LET q == IF At(text, p) \in {"+", "-"} THEN p + 1 ELSE p
  IN IF At(text, q) \in Digit THEN While(text, q, Digit) ELSE 0
NumberEnd(text, p) ==
  LET whole    == While(text, p, Digit)
      fraction == While(text, whole + 1, Digit)
  IN IF At(text, whole) = "x"
     THEN IF whole = p + 1 /\ At(text, whole + 1) \in Hex THEN While(text, whole + 1, Hex) ELSE 0
     ELSE IF At(text, whole) = "."
     THEN IF At(text, fraction) \in Exponent THEN ExponentEnd(text, fraction + 1) ELSE fraction
     ELSE IF At(text, whole) \in Exponent THEN ExponentEnd(text, whole + 1) ELSE whole

\* The value of a number is what strtoull makes of its digits: with a leading 0 they are octal
\* unless there is an 8 among them, and behind x they are hexadecimal.
Base(s) ==
  IF Len(s) > 1 /\ s[2] = "x" THEN 16
  ELSE IF s[1] = "0" /\ Range(s) \cap {"8", ".", "e", "E"} = {} THEN 8 ELSE 10
NumberSays(s) == IF Base(s) = 16 THEN <<16, SubSeq(s, 3, Len(s))>> ELSE <<Base(s), s>>

\* The characters that an escape is made of, from p on: up to three octal digits, x and two
\* hexadecimal ones, or any one character, which may end a line.
Octal == Digit \ {"8"}
EscapeEnd(text, p) ==
  IF At(text, p) \in Octal THEN Min({While(text, p, Octal), p + 3})
  ELSE IF At(text, p) # "x" THEN p + 1
  ELSE IF {At(text, p + 1), At(text, p + 2)} \subseteq Hex THEN p + 3 ELSE 0
Control == [a |-> 7, b |-> 8, f |-> 12, n |-> 10]
Escaped(s) ==
  IF s[1] \in Octal THEN <<8, s>>
  ELSE IF s[1] = "x" THEN <<16, Tail(s)>>
  ELSE IF s[1] \in DOMAIN Control THEN <<"control", Control[s[1]]>> ELSE s[1]

\* The end of a string that begins at p, and what it says. A line or the text ends no string.
RECURSIVE StringRest(_, _, _, _)
StringRest(text, p, quote, says) ==
  LET c == At(text, p)
      q == EscapeEnd(text, p + 1)
  IN IF c = quote THEN [to |-> p + 1, says |-> says]
     ELSE IF c \in Terminator \cup {"eof"} THEN [to |-> 0, says |-> says]
     ELSE IF c # "\\" THEN StringRest(text, p + 1, quote, Append(says, c))
     ELSE IF q \in {0, Len(text) + 2} THEN [to |-> 0, says |-> says]
     ELSE StringRest(text, q, quote, Append(says, Escaped(SubSeq(text, p + 1, q - 1))))

\* The end of a regular expression that begins at p, or 0 when none does.
RECURSIVE BodyEnd(_, _)
BodyEnd(text, p) ==
  LET c == At(text, p)
  IN IF c = "/" THEN p
     ELSE IF c \in Terminator \cup {"eof"} THEN 0
     ELSE IF c # "\\" THEN BodyEnd(text, p + 1)
     ELSE IF At(text, p + 1) \in Terminator \cup {"eof"} THEN 0 ELSE BodyEnd(text, p + 2)
regexp(text, p) ==
  LET q == BodyEnd(text, p + 1) IN IF q = 0 THEN 0 ELSE While(text, q + 1, Alnum)

------------------------------------------------------------------------------
(* Tokens *)

\* The longest punctuator at p.
MunchOne(text, p) == CHOOSE s \in Punctuator : Has(text, p, s) /\ Len(s) = 1
Munch(text, p) ==
  CHOOSE s \in Punctuator : Has(text, p, s) /\ \A r \in Punctuator : Has(text, p, r) => Len(r) <= Len(s)
IsPunctuator(text, p) == <<At(text, p)>> \in Punctuator

\* "-->" before nothing but blanks ends the text, for scripts between HTML comments.
Closing(text, p) ==
  Has(text, p, <<"-", "-", ">">>) /\ While(text, p + 3, Space \cup Terminator) > Len(text)

Spelling(s) == FoldLeft(LAMBDA a, b : a \o b, "", s)

\* The token of which the first character is c, at p.  A bad one has no end.
TokenAt(text, p, c, nl) ==
  LET Tok(t, says, to) == IF to = 0 THEN Error ELSE Token(t, says, p, to, nl)
      Says(to)    == SubSeq(text, p, to - 1)
      Real(to)    == Tok("real", IF to = 0 THEN <<>> ELSE NumberSays(Says(to)), to)
      WordTo(to)  == Tok(IF to = p + 1 /\ c \in Keyword THEN c ELSE "id", Says(to), to)
      String(s)   == Tok("string", s.says, s.to)
      Slashed(to) == Tok("regexp", Says(to), to)
      Spelled(s)  == Tok(Spelling(s), s, p + Len(s))
  IN IF c \in Digit \/ (c = "." /\ At(text, p + 1) \in Digit) THEN Real(NumberEnd(text, p))
     ELSE IF c \in Letter THEN WordTo(While(text, p, Alnum))
     ELSE IF c \in Quote THEN String(StringRest(text, p + 1, c, <<>>))
     ELSE IF c = "/" /\ At(text, p + 1) # "=" /\ regexp(text, p) # 0 THEN Slashed(regexp(text, p))
     ELSE IF IsPunctuator(text, p) THEN Spelled(Munch(text, p))
     ELSE Error

Behind(text, skip) ==
  IF skip.p = 0 THEN Error
  ELSE IF At(text, skip.p) = "eof" \/ Closing(text, skip.p) THEN Token("eof", <<>>, skip.p, Len(text) + 1, skip.nl)
  ELSE TokenAt(text, skip.p, At(text, skip.p), skip.nl)
scan(text, from) == Behind(text, Skip(text, from, FALSE))

\* Behind a token that was pushed back is that token; behind an error is nothing else.
nextToken(text, k) ==
  IF k.t = "error" THEN Error ELSE IF k.behind # <<>> THEN k.behind[1] ELSE scan(text, k.to)

\* The token is pushed back behind a semicolon.
insertSemicolon(k) ==
  [Token(";", <<>>, k.from, k.from, FALSE) EXCEPT !.behind = <<k>>]

\* A regular expression where none can be is a division: the text goes on behind its "/".
rescan(k) == [k EXCEPT !.t = "/", !.to = k.from + 1, !.behind = <<>>]
=============================================================================
