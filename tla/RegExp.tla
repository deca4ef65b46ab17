--------------------------------- MODULE RegExp ---------------------------------
(***************************************************************************)
(* Regular expressions, root/regexp.c: the code a pattern is compiled to,  *)
(* the filter that the optimizer puts before it, and the search.           *)
(*                                                                         *)
(* Patterns and texts are sequences of characters, each with a terminator  *)
(* behind it.  Both may be read past that: behind a pattern the model has  *)
(* another terminator, behind a text what the instance puts there.  Of the *)
(* alphabet, the escapes \f, \r, \t and \v are left out.  An instruction   *)
(* takes one place in the code, whatever its length in bytes.  A           *)
(* definition followed by the one it is named after is a broken form.      *)
(***************************************************************************)
EXTENDS Integers, SequencesExt, FiniteSetsExt

Digits == [d \in {"0", "1", "2", "3", "4", "6"} |->
             CASE d = "0" -> 0 [] d = "1" -> 1 [] d = "2" -> 2 [] d = "3" -> 3 [] d = "4" -> 4 [] d = "6" -> 6]
Upper  == [a |-> "A", b |-> "B", c |-> "C", d |-> "D", s |-> "S", u |-> "U", w |-> "W", x |-> "X"]
Lower  == [C \in Range(Upper) |-> CHOOSE c \in DOMAIN Upper : Upper[c] = C]
IsAlpha(c) == c \in DOMAIN Upper \cup DOMAIN Lower
IsSpace(c) == c \in {" ", "\n"}
IsWord(c)  == IsAlpha(c) \/ c \in DOMAIN Digits \/ c = "_"
ToUpper(c) == IF c \in DOMAIN Upper THEN Upper[c] ELSE c

Letters == <<"A", "B", "C", "D", "S", "U", "W", "X">>
LetterCode == <<65, 66, 67, 68, 83, 85, 87, 88>>
Code == [c \in DOMAIN Upper \cup DOMAIN Lower \cup DOMAIN Digits \cup {"eof", "bs", "\n", " ", "*", "-", "]", "_", "omega"} |->
  CASE c = "eof" -> 0 [] c = "bs" -> 8 [] c = "\n" -> 10 [] c = " " -> 32 [] c = "*" -> 42 [] c = "-" -> 45 [] c = "]" -> 93 [] c = "_" -> 95
    [] c = "omega" -> 969
    [] c \in DOMAIN Digits -> 48 + Digits[c]
    [] c \in DOMAIN Lower -> LetterCode[CHOOSE i \in DOMAIN Letters : Letters[i] = c]
    [] c \in DOMAIN Upper -> 32 + LetterCode[CHOOSE i \in DOMAIN Letters : Letters[i] = Upper[c]]]
Codes  == Range(Code)
Chr(k) == IF k \in Codes THEN CHOOSE c \in DOMAIN Code : Code[c] = k ELSE "other"
CodesOf(Class(_)) == {Code[c] : c \in {d \in DOMAIN Code : Class(d)}}
IsDigit(c) == c \in DOMAIN Digits

At(text, p) == IF p \in DOMAIN text THEN text[p] ELSE "eof"
Read(mem, p, n) == [k \in 1 .. n |-> At(mem, p + k - 1)]

------------------------------------------------------------------------------
(* The compiler *)

\* Where the compiler is in the pattern, the code so far, the groups so far and if there was
\* an error, which goes on at the next terminator.
Start(pattern, icase) ==
  [pat |-> pattern, p |-> 1, code |-> <<>>, np |-> 0, errors |-> FALSE, icase |-> icase]
Here(P)    == At(P.pat, P.p)
Ahead(P)   == At(P.pat, P.p + 1)
Go(P, n)   == [P EXCEPT !.p = @ + n]
Emit(P, i) == [P EXCEPT !.code = Append(@, i)]
Op(op)     == [op |-> op]
Bad(P)     == [P EXCEPT !.p = Max({@, Len(P.pat) + 1}), !.errors = TRUE]
Inf        == 100

RECURSIVE parseRegexp(_)

\* What follows a backslash stands for one character.
RECURSIVE Based(_, _, _, _)
Based(P, base, most, value) ==
  LET d == CASE Here(P) \in DOMAIN Digits -> Digits[Here(P)]
             [] Here(P) \in {"a", "b", "c", "d"} /\ base = 16 -> Code[Here(P)] - 87
             [] Here(P) \in {"A", "B", "C", "D"} /\ base = 16 -> Code[Here(P)] - 55
             [] OTHER -> base
  IN IF most = 0 \/ d >= base \/ (base = 8 /\ value * 8 + d >= 255)
     THEN [n |-> value, P |-> P, left |-> most] ELSE Based(Go(P, 1), base, most - 1, value * base + d)
Chars(ch, P)  == [c |-> ch, P |-> P]
Octal(o)      == Chars(Chr(o.n), o.P)
Hex(P, letter, x, none) == IF x.left \in none THEN Chars(letter, Go(P, 1)) ELSE Chars(Chr(x.n), x.P)
escape(P) ==
  CASE Here(P) = "b" -> Chars("bs", Go(P, 1))
    [] Here(P) = "n" -> Chars("\n", Go(P, 1))
    [] Here(P) = "c" /\ IsAlpha(Ahead(P)) -> Chars(Chr(Code[Ahead(P)] % 32), Go(P, 2))
    [] Here(P) = "c" /\ ~IsAlpha(Ahead(P)) -> Chars("other", Bad(P))
    [] Here(P) \in DOMAIN Digits -> Octal(Based(P, 8, 3, 0))
    [] Here(P) = "x" -> Hex(P, "x", Based(Go(P, 1), 16, 2, 0), {2})
    [] Here(P) = "u" -> Hex(P, "u", Based(Go(P, 1), 16, 4, 0), 1 .. 4)
    [] OTHER -> Chars(Here(P), Go(P, 1))

\* The characters after the first that a string takes: up to a special one, and if that
\* repeats what is before it, up to but one.
Repeats == {"{", "*", "+", "?"}
Special == Repeats \cup {"(", ")", "|", "[", "]", ".", "^", "$", "\\", "}", "eof"}
FollowRepeated(P) == Min({i \in P.p .. Len(P.pat) + 1 : At(P.pat, i) \in Special}) - P.p
Follow(P) ==
  LET q == Min({i \in P.p .. Len(P.pat) + 1 : At(P.pat, i) \in Special})
  IN IF At(P.pat, q) \in Repeats /\ q > P.p THEN q - 1 - P.p ELSE q - P.p
\* Letters are compared without regard to case, one at a time; what follows another character
\* is compared as it is.
InString(P, c) == IF Code[c] > 255 THEN 0 ELSE Follow(P)
Literal(P, c) ==
  IF P.icase /\ IsAlpha(c) THEN Emit(P, [op |-> "ichar", c |-> ToUpper(c)])
  ELSE IF InString(P, c) > 0
  THEN Go(Emit(P, [op |-> "string", s |-> <<c>> \o SubSeq(P.pat, P.p, P.p + InString(P, c) - 1)]), InString(P, c))
  ELSE Emit(P, [op |-> IF Code[c] > 255 THEN "wchar" ELSE "char", c |-> c])

\* A bitmap, and the greatest code it is for.
SetBit(r, k)  == [r EXCEPT !.bits = @ \cup {k}, !.maxc = Max({@, k + 1})]
SetMax(r, k)  == [r EXCEPT !.maxc = Max({@, k})]
SetBits(r, ks) == [r EXCEPT !.bits = @ \cup ks]
Bytes(maxc)   == IF maxc = 0 THEN 0 ELSE maxc \div 8 + 1
Ascii(ks)     == {k \in ks : k <= 127}

\* Of a class under way: rs is what a hyphen would mean, c and c2 are the last two codes.
ClassOf == [d |-> CodesOf(IsDigit), s |-> CodesOf(IsSpace), w |-> CodesOf(IsWord),
            D |-> Codes \ CodesOf(IsDigit), S |-> Codes \ CodesOf(IsSpace), W |-> Codes \ CodesOf(IsWord)]
Pending(R) ==
  CASE R.rs = "literal" -> SetBit(R, R.c)
    [] R.rs = "dash" -> SetBit(SetBit(R, Code["-"]), R.c)
    [] R.rs = "start" -> R
Member(R, k) ==
  CASE R.rs = "literal" -> [SetBit(R, R.c) EXCEPT !.c = k]
    [] R.rs = "start" -> [R EXCEPT !.c = k, !.rs = "literal"]
    [] R.rs = "dash" -> [SetMax(SetBits(R, {i \in Codes : R.c <= i /\ i <= k}), k) EXCEPT !.rs = "start"]
Hyphen(R) ==
  CASE R.rs = "start" -> Member(R, R.c2)
    [] R.rs = "literal" -> [R EXCEPT !.rs = "dash"]
    [] R.rs = "dash" -> [SetBit(SetBit(R, R.c), Code["-"]) EXCEPT !.rs = "start"]

RECURSIVE Members(_, _)
Add(P, R, k, after) == IF R.rs = "dash" /\ R.c > k THEN Members(Bad(P), R) ELSE Members(after, [Member(R, k) EXCEPT !.c2 = k])
Escaped(P, R, e)    == Add(P, R, Code[e.c], e.P)
\* The letter of a class is not passed: it comes next, as a character of its own.
Classed(P, R, class) == Members(Go(P, 1), [Pending(SetBits(R, Ascii(class) \ {0})) EXCEPT !.rs = "start"])
Members(P, R) ==
  CASE Here(P) = "]" -> [P |-> Go(P, 1), R |-> Pending(R)]
    [] Here(P) = "eof" -> [P |-> Bad(P), R |-> R]
    [] Here(P) = "\\" /\ Ahead(P) \in DOMAIN ClassOf -> Classed(P, SetMax(R, 127), ClassOf[Ahead(P)])
    [] Here(P) = "\\" /\ Ahead(P) \notin DOMAIN ClassOf -> Escaped(P, SetMax(R, 127), escape(Go(P, 1)))
    [] Here(P) = "-" -> Members(Go(P, 1), Hyphen(R))
    [] OTHER -> Add(P, R, Code[Here(P)], Go(P, 1))

\* Without regard to case, what either case of a letter has the other gets; the bytes that the
\* bitmap then grows by are not counted in it, and stand in the code behind it.
BothCases(bits) == bits \cup {Code[c] : c \in {d \in DOMAIN Upper : Code[Upper[d]] \in bits}}
                        \cup {Code[Upper[c]] : c \in {d \in DOMAIN Upper : Code[d] \in bits}}
Behind(R, bits) ==
  IF Bytes(R.maxc) >= 16 THEN <<>>
  ELSE <<Op(IF \E k \in bits : k \div 8 = Bytes(R.maxc) THEN "stray" ELSE "end")>>
Ranged(P, neg, done, bits) ==
  [done.P EXCEPT !.code = P.code \o <<[op |-> IF neg THEN "notbit" ELSE "bit", bits |-> bits, maxc |-> done.R.maxc]>>
                            \o (IF P.icase THEN Behind(done.R, bits) ELSE <<>>)]
InBrackets(P, neg, done) == Ranged(P, neg, done, IF P.icase THEN BothCases(done.R.bits) ELSE done.R.bits)
Leading(first, R) ==
  IF Here(first) \in {"]", "-"} THEN Members(Go(first, 1), [SetBit(R, Code[Here(first)]) EXCEPT !.c = Code[Here(first)]])
  ELSE Members(first, R)
NoMembers == [bits |-> {}, maxc |-> 0, c |-> -1, c2 |-> -1, rs |-> "start"]
parseRange(P) ==
  IF Ahead(P) = "^" THEN InBrackets(P, TRUE, Leading(Go(P, 2), SetBit(NoMembers, 0)))
  ELSE InBrackets(P, FALSE, Leading(Go(P, 1), NoMembers))

Classes == [d |-> "digit", D |-> "notdigit", s |-> "space", S |-> "notspace", w |-> "word", W |-> "notword",
            b |-> "boundary", B |-> "notboundary"]
Escapes == {"n", "c", "x", "u", "0"}
Grouped(inner, at) ==
  LET all == [inner EXCEPT !.code[at].len = Len(inner.code) - at]
  IN IF Here(inner) = ")" THEN Go(all, 1) ELSE Bad(all)
parseGroup(P) ==
  Grouped(parseRegexp([Emit(Go(P, 1), [op |-> "paren", len |-> 0, n |-> P.np + 1]) EXCEPT !.np = @ + 1]),
          Len(P.code) + 1)
EscapedAtom(x) == IF x.P.errors THEN x.P ELSE Literal(x.P, x.c)
Backslash(q, e) ==
  CASE e = "eof" -> Bad(q)
    [] e \in DOMAIN Classes -> Emit(Go(q, 1), Op(Classes[e]))
    [] e \in Escapes -> EscapedAtom(escape(q))
    [] e \in DOMAIN Digits \ {"0"} ->
         IF Digits[e] <= q.np THEN Emit(Go(q, 1), [op |-> "backref", n |-> Digits[e]]) ELSE Bad(q)
    [] OTHER -> Literal(Go(q, 1), e)
Atom(P, c, q) ==
  CASE c \in {"*", "+", "?"} -> Go(Bad(P), 1)
    [] c = "(" -> parseGroup(P)
    [] c = "[" -> parseRange(P)
    [] c = "." -> Emit(q, Op("any"))
    [] c = "^" -> Emit(q, Op("bol"))
    [] c = "$" -> Emit(q, Op("eol"))
    [] c = "\\" -> Backslash(q, Here(q))
    [] OTHER -> Literal(q, c)
parseAtom(P) == Atom(P, Here(P), Go(P, 1))

\* Least and most of a repetition, and where it ends.
RECURSIVE Decimal(_, _)
Decimal(P, n) == IF Here(P) \in DOMAIN Digits THEN Decimal(Go(P, 1), n * 10 + Digits[Here(P)]) ELSE [n |-> n, P |-> P]
Between(lo, hi)  == [n |-> lo.n, m |-> hi.n, P |-> IF Here(hi.P) = "}" THEN hi.P ELSE Bad(hi.P)]
FromTo(lo) ==
  CASE Here(lo.P) = "}" -> Between(lo, lo)
    [] Here(lo.P) = "," /\ Ahead(lo.P) = "}" -> [n |-> lo.n, m |-> Inf, P |-> Go(lo.P, 1)]
    [] Here(lo.P) = "," /\ Ahead(lo.P) \in DOMAIN Digits -> Between(lo, Decimal(Go(lo.P, 1), 0))
    [] OTHER -> [n |-> 0, m |-> 0, P |-> Bad(lo.P)]
Braces(P) == IF Here(P) \in DOMAIN Digits THEN FromTo(Decimal(P, 0)) ELSE [n |-> 0, m |-> 0, P |-> Bad(P)]
Bounds(P) ==
  CASE Here(P) = "*" -> [n |-> 0, m |-> Inf, P |-> P]
    [] Here(P) = "+" -> [n |-> 1, m |-> Inf, P |-> P]
    [] Here(P) = "?" -> [n |-> 0, m |-> 1, P |-> P]
    [] Here(P) = "{" -> Braces(Go(P, 1))
Loop(a, off, k, lazy) ==
  LET nm == [op |-> IF lazy THEN "nmq" ELSE "nm", len |-> Len(a.code) - off + 1, n |-> k.n, m |-> k.m]
  IN IF k.P.errors THEN k.P ELSE [Go(k.P, IF lazy THEN 2 ELSE 1) EXCEPT !.code = InsertAt(a.code, off, nm)]
Counted(a, off, k) == Loop(a, off, k, Ahead(k.P) = "?")
Repeated(a, off) ==
  IF Here(a) \notin Repeats THEN a
  ELSE IF Here(a) = "*" /\ Len(a.code) = off /\ a.code[off].op = "any" /\ Ahead(a) # "?"
  THEN [Go(a, 1) EXCEPT !.code[off] = Op("anystar")]
  ELSE Counted(a, off, Bounds(a))
parsePiece(P) == Repeated(parseAtom(P), Len(P.code) + 1)

\* An alternative is what comes before a bar, from the beginning of the group, against all that
\* comes behind.
RECURSIVE Pieces(_, _)
Alternative(after, at, off) == Pieces([after EXCEPT !.code[at].len = Len(after.code) - at], off)
Barred(P, before, off) ==
  Alternative(parseRegexp([Go(P, 1) EXCEPT !.code = Append(before, [op |-> "goto", len |-> 0])]), Len(before) + 1, off)
Pieces(P, off) ==
  CASE Here(P) = ")" -> P
    [] Here(P) = "eof" -> Emit(P, Op("end"))
    [] Here(P) = "|" -> Barred(P, InsertAt(P.code, off, [op |-> "or", len |-> Len(P.code) - off + 2]), off)
    [] OTHER -> Pieces(parsePiece(P), off)
parseRegexp(P) == Pieces(P, Len(P.code) + 1)

------------------------------------------------------------------------------
(* The optimizer *)

\* The codes that a match may begin with are added to r; ok says if they are all known.
RECURSIVE startchars(_, _, _, _)
Known(r)   == [ok |-> TRUE, r |-> r]
Unknown(r) == [ok |-> FALSE, r |-> r]
Whole(R, bits) == Known(SetBits(SetMax(R, 127), Ascii(bits)))
startchars(code, pc, end, r) ==
  LET i == code[pc]
      body == startchars(code, pc + 1, pc + 1 + i.len, r)
      left == startchars(code, pc + 1, end, r)
      One(cs) == Known(FoldSet(LAMBDA k, a : SetBit(a, k), r, Ascii(cs)))
      Map(bits) == LET m == IF i.maxc <= 127 THEN SetMax(r, i.maxc) ELSE r
                   IN Known(SetBits(m, {k \in bits : k < 8 * Bytes(IF i.maxc <= 127 THEN i.maxc ELSE m.maxc)}))
  IN IF pc = end THEN Known(r)
     ELSE CASE i.op \in {"char", "wchar"} -> One({Code[i.c]})
       [] i.op = "ichar" -> One({Code[i.c], Code[Lower[i.c]]})
       [] i.op = "string" -> One({Code[i.s[1]]})
       [] i.op = "bit" -> Map(i.bits)
       [] i.op = "notbit" -> Map(Codes \ i.bits)
       [] i.op = "or" -> IF left.ok THEN startchars(code, pc + 1 + i.len, end, left.r) ELSE left
       [] i.op = "goto" -> startchars(code, pc + 1 + i.len, end, r)
       [] i.op \in {"nm", "nmq"} ->
            IF body.ok /\ i.n = 0 THEN startchars(code, pc + 1 + i.len, end, body.r) ELSE body
       [] i.op = "paren" -> body
       [] i.op = "digit" -> Known(SetBits(SetMax(r, 57), ClassOf.d))
       [] i.op = "notdigit" -> Whole(r, ClassOf.D \cup {48})
       [] i.op \in {"space", "notspace", "word", "notword"} ->
            Whole(r, ClassOf[CHOOSE c \in DOMAIN Classes : Classes[c] = i.op])
       [] OTHER -> Unknown(r)

Filtered == {"or", "nm", "nmq", "paren", "goto"}
Filter(code, pos, s) ==
  IF code[pos].op \in Filtered /\ s.ok
  THEN InsertAt(code, pos, [op |-> "testbit", bits |-> s.r.bits, maxc |-> s.r.maxc]) ELSE code
OptimizedAt(code, pos) == Filter(code, pos, startchars(code, pos, 0, [bits |-> {}, maxc |-> 0]))
optimize(code) == OptimizedAt(code, Min({p \in DOMAIN code : code[p].op # "bol"}))

Compiled(P, icase, multi, bad) ==
  [code |-> IF bad THEN P.code ELSE optimize(P.code), np |-> P.np, errors |-> bad, icase |-> icase, multi |-> multi]
Parsed(P, icase, multi) == Compiled(P, icase, multi, P.errors \/ Here(P) # "eof")
compile(pattern, icase, multi) == Parsed(parseRegexp(Start(pattern, icase)), icase, multi)

------------------------------------------------------------------------------
(* The search.  A state is where in the text the match stands, what the groups matched and if *)
(* the last attempt succeeded; a failed one takes the position back, but not the groups.  E,  *)
(* where an attempt ends, is 0 for the end of the program.                                    *)

NoGroup == <<0, 0>>
Good(st)   == [st EXCEPT !.ok = TRUE]
Fail(st)   == [st EXCEPT !.ok = FALSE]
Move(st, n) == [st EXCEPT !.src = @ + n]
Single == {"char", "wchar", "ichar", "any", "bit", "notbit", "digit", "notdigit", "space", "notspace", "word", "notword"}
Takes(i, c) ==
  CASE i.op \in {"char", "wchar"} -> c = i.c
    [] i.op = "ichar" -> ToUpper(c) = i.c
    [] i.op = "any" -> c \notin {"eof", "\n"}
    [] i.op = "bit" -> Code[c] <= i.maxc /\ Code[c] \in i.bits
    [] i.op = "notbit" -> ~(Code[c] <= i.maxc /\ Code[c] \in i.bits)
    [] i.op = "digit" -> IsDigit(c)
    [] i.op = "space" -> IsSpace(c)
    [] i.op = "word" -> IsWord(c)
    [] i.op = "notdigit" -> c # "eof" /\ ~IsDigit(c)
    [] i.op = "notspace" -> c # "eof" /\ ~IsSpace(c)
    [] i.op = "notword" -> c # "eof" /\ ~IsWord(c)
Passes(r, i, p) ==
  LET c == At(r.mem, p)
      b == At(r.mem, p - 1)
  IN CASE i.op = "testbit" -> ~(Code[c] <= i.maxc /\ Code[c] \notin i.bits)
       [] i.op = "bol" -> p = 1 \/ (r.multi /\ b = "\n")
       [] i.op = "boundary" -> p = 1 \/ IsWord(b) # IsWord(c)
       [] i.op = "notboundary" -> p > 1 /\ IsWord(b) = IsWord(c)
Same(r, s, t) ==
  IF r.icase THEN [i \in DOMAIN s |-> ToUpper(s[i])] = [i \in DOMAIN t |-> ToUpper(t[i])] ELSE s = t

RECURSIVE run(_, _, _, _)
match(r, pc, E, st) == LET x == run(r, pc, E, st) IN IF x.ok THEN x ELSE [x EXCEPT !.src = st.src]

\* After one more time of what repeats, x, the rest of the program is tried; only if it fails
\* there, and succeeds where st was before, was it one time too many.
StopsBefore(r, rest, st, x) ==
  LET after  == match(r, rest, 0, x)
      before == match(r, rest, 0, [after EXCEPT !.src = st.src])
  IN IF after.ok THEN [stop |-> FALSE, st |-> after]
     ELSE [stop |-> before.ok, st |-> before]
RECURSIVE AnyStar(_, _, _), Least(_, _, _, _, _), Maximal(_, _, _, _, _), Minimal(_, _, _, _, _)
AnyStar(r, rest, st) ==
  LET t == StopsBefore(r, rest, st, Move(st, 1))
  IN IF At(r.mem, st.src) \in {"eof", "\n"} THEN st
     ELSE IF t.stop THEN [t.st EXCEPT !.src = st.src] ELSE AnyStar(r, rest, [t.st EXCEPT !.src = st.src + 1])
Least(r, pop, len, n, st) ==
  LET x == match(r, pop, pop + len, st)
  IN IF n = 0 THEN Good(st) ELSE IF x.ok THEN Least(r, pop, len, n - 1, x) ELSE x
Maximal(r, pop, len, n, st) ==
  LET x == match(r, pop, pop + len, st)
      t == StopsBefore(r, pop + len, st, x)
  IN IF n <= 0 THEN st
     ELSE IF ~x.ok \/ x.src = st.src THEN x
     ELSE IF t.stop THEN st
     ELSE Maximal(r, pop, len, n - 1, [t.st EXCEPT !.src = x.src])
Minimal(r, pop, len, n, st) ==
  LET rest == match(r, pop + len, 0, st)
      x    == match(r, pop, pop + len, rest)
  IN IF n <= 0 \/ rest.ok THEN st
     ELSE IF ~x.ok \/ x.src = st.src THEN x ELSE Minimal(r, pop, len, n - 1, x)

run(r, pc, E, st) ==
  LET i == r.code[pc]
      c == At(r.mem, st.src)
      pop  == pc + 1
      Then(x) == run(r, pop, E, x)
      Past(x) == run(r, pop + i.len, E, x)
      body == match(r, pop, pop + i.len, st)
      first == match(r, pop, E, st)
      rest  == match(r, E, 0, first)
      other == match(r, pop + i.len, 0, [rest EXCEPT !.src = st.src])
      least == Least(r, pop, i.len, i.n, st)
      more  == i.m - i.n
      group == SubSeq(r.mem, st.par[i.n][1], st.par[i.n][2] - 1)
  IN CASE pc = E \/ i.op = "end" -> Good(st)
       [] pc # E /\ i.op \in Single -> IF Takes(i, c) THEN Then(Move(st, 1)) ELSE Fail(st)
       [] pc # E /\ i.op = "string" ->
            IF Read(r.mem, st.src, Len(i.s)) = i.s THEN Then(Move(st, Len(i.s))) ELSE Fail(st)
       [] pc # E /\ i.op \in {"testbit", "bol", "boundary", "notboundary"} ->
            IF Passes(r, i, st.src) THEN Then(st) ELSE Fail(st)
       [] pc # E /\ i.op = "eol" ->
            CASE c = "eof" -> Then(st) [] c = "\n" /\ r.multi -> Then(Move(st, 1)) [] OTHER -> Fail(st)
       [] pc # E /\ i.op = "goto" -> Past(st)
       [] pc # E /\ i.op = "or" ->
            IF ~first.ok THEN Past([first EXCEPT !.src = st.src])
            ELSE IF E = 0 THEN first
            ELSE IF rest.ok THEN [rest EXCEPT !.src = first.src]
            ELSE IF other.ok THEN Past([other EXCEPT !.src = st.src])
            ELSE [Good(other) EXCEPT !.src = first.src]
       [] pc # E /\ i.op = "anystar" -> Then(AnyStar(r, pop, st))
       [] pc # E /\ i.op \in {"nm", "nmq"} ->
            IF ~least.ok THEN Fail(least)
            ELSE IF i.op = "nm" THEN Past(Maximal(r, pop, i.len, more, least))
            ELSE Past(Minimal(r, pop, i.len, more, least))
       [] pc # E /\ i.op = "paren" ->
            IF ~body.ok THEN body ELSE Past([body EXCEPT !.par[i.n] = <<st.src, body.src>>])
       [] pc # E /\ i.op = "backref" ->
            IF Same(r, Read(r.mem, st.src, Len(group)), group)
            THEN Then(Move(st, Len(group))) ELSE Fail(st)

\* The next place of a character, before the next terminator: 0 for none.
Strchr(mem, p, c) ==
  LET there == {q \in p .. Len(mem) : mem[q] = c /\ \A k \in p .. q : mem[k] # "eof"}
  IN IF there = {} THEN 0 ELSE Min(there)

\* A search for the first character goes on behind the place it stands at, be that the end of
\* the text: then in the memory behind it.
Lost == [ok |-> FALSE, from |-> 1, to |-> 1, par |-> <<>>]
RECURSIVE Attempts(_, _)
FirstChar(r) ==
  IF r.code[1].op = "char" /\ ~(r.icase /\ IsAlpha(r.code[1].c)) /\ r.code[1].c # "eof" THEN r.code[1].c ELSE "none"
NextLine(r, at) ==
  IF r.code[1].op \notin {"bol", "anystar"} THEN at ELSE IF r.multi THEN Strchr(r.mem, at, "\n") ELSE 0
GoOn(r, next) == IF next = 0 \/ At(r.mem, next) = "eof" THEN Lost ELSE Attempts(r, next + 1)
Attempted(r, at, x) ==
  IF x.ok THEN [ok |-> TRUE, from |-> at, to |-> x.src, par |-> x.par] ELSE GoOn(r, NextLine(r, at))
AttemptAt(r, at) ==
  IF at = 0 THEN Lost
  ELSE Attempted(r, at, match(r, 1, 0, [src |-> at, par |-> [n \in 1 .. r.np |-> NoGroup], ok |-> FALSE]))
Attempts(r, s) ==
  AttemptAt(r, IF FirstChar(r) \in {"none", At(r.mem, s)} THEN s ELSE Strchr(r.mem, s + 1, FirstChar(r)))
test(re, text, behind, start) ==
  IF start \notin 0 .. Len(text) THEN Lost
  ELSE Attempts([code |-> re.code, np |-> re.np, icase |-> re.icase, multi |-> re.multi,
                 mem |-> text \o <<"eof">> \o behind], start + 1)
==============================================================================
