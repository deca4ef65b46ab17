------------------------------ MODULE StringRegExp ------------------------------
(***************************************************************************)
(* The methods of strings that take a regular expression, dstring.c, and   *)
(* RegExp.prototype.exec, dregexp.c.  A call is a job; it goes round its   *)
(* loop one match at a time, and between two of them replace calls the     *)
(* script.  The engine's RegExp object has one place for where the last    *)
(* match was, which the calls of a script share.                           *)
(***************************************************************************)
EXTENDS RegExp

\* What a regular expression matches by ECMA-262 15.10.2, and how it is written.  A pattern is
\* a tree:
\*   <<"c", char>>  <<"class", chars, negated>>  <<"esc", letter>>  <<".">>  <<"^">>  <<"$">>
\*   <<"cat", p, q>>  <<"or", p, q>>  <<"group", n, p>>  <<"ref", n>>  <<"empty">>
\*   <<"rep", p, least, most, lazy>>

Count == [n \in 0 .. 3 |-> <<"0", "1", "2", "3">>[n + 1]]
RECURSIVE Pattern(_)
Suffix(n, m) ==
  CASE <<n, m>> = <<0, Inf>> -> <<"*">> [] <<n, m>> = <<1, Inf>> -> <<"+">> [] <<n, m>> = <<0, 1>> -> <<"?">>
    [] n = m -> <<"{", Count[n], "}">> [] m = Inf /\ n > 1 -> <<"{", Count[n], ",", "}">>
    [] OTHER -> <<"{", Count[n], ",", Count[m], "}">>
Pattern(t) ==
  CASE t[1] = "c" -> IF t[2] \in Special THEN <<"\\", t[2]>> ELSE <<t[2]>>
    [] t[1] = "class" -> <<"[">> \o (IF t[3] THEN <<"^">> ELSE <<>>) \o t[2] \o <<"]">>
    [] t[1] = "esc" -> <<"\\", t[2]>>
    [] t[1] \in {".", "^", "$"} -> <<t[1]>>
    [] t[1] = "empty" -> <<>>
    [] t[1] = "cat" -> Pattern(t[2]) \o Pattern(t[3])
    [] t[1] = "or" -> Pattern(t[2]) \o <<"|">> \o Pattern(t[3])
    [] t[1] = "group" -> <<"(">> \o Pattern(t[3]) \o <<")">>
    [] t[1] = "ref" -> <<"\\", Count[t[2]]>>
    [] t[1] = "rep" -> Pattern(t[2]) \o Suffix(t[3], t[4]) \o (IF t[5] THEN <<"?">> ELSE <<>>)

\* The nodes of a pattern, and its groups.
RECURSIVE Nodes(_)
Nodes(t) ==
  {t} \cup CASE t[1] = "group" -> Nodes(t[3])
            [] t[1] \in {"cat", "or"} -> Nodes(t[2]) \cup Nodes(t[3])
            [] t[1] = "rep" -> Nodes(t[2])
            [] OTHER -> {}
GroupsOf(t) == {n[2] : n \in {m \in Nodes(t) : m[1] = "group"}}

\* The ways in which t matches from where x stands, in the order in which they are tried.
RECURSIVE Ways(_, _, _), Times(_, _, _, _, _, _)
Each(xs, Op2(_)) == FlattenSeq([i \in DOMAIN xs |-> Op2(xs[i])])
Fold1(r, c) == IF r.icase THEN ToUpper(c) ELSE c
Part(text, p, n) == SubSeq(text, p, Min({p + n - 1, Len(text)}))
ClassEscape(e, c) ==
  CASE e = "d" -> IsDigit(c) [] e = "s" -> IsSpace(c) [] e = "w" -> IsWord(c)
    [] e = "D" -> ~IsDigit(c) [] e = "S" -> ~IsSpace(c) [] e = "W" -> ~IsWord(c)
    [] e = "n" -> c = "\n" [] e = "b" -> c = "bs"
InClass(w) ==
  CASE Len(w) = 3 /\ w[2] = "-" -> {c \in DOMAIN Code : Code[w[1]] <= Code[c] /\ Code[c] <= Code[w[3]]}
    [] Len(w) = 2 /\ w[1] = "\\" -> {c \in DOMAIN Code : ClassEscape(w[2], c)}
    [] OTHER -> Range(w)
OneOf(r, t, c) ==
  CASE t[1] = "c" -> Fold1(r, c) = Fold1(r, t[2])
    [] t[1] = "." -> c # "\n"
    [] t[1] = "class" -> (Fold1(r, c) \in {Fold1(r, m) : m \in InClass(t[2])}) # t[3]
    [] t[1] = "esc" -> ClassEscape(t[2], c)
Holds(r, t, p) ==
  LET c == At(r.text, p)
      b == At(r.text, p - 1)
  IN CASE t[1] = "^" -> p = 1 \/ (r.multi /\ b = "\n")
       [] t[1] = "$" -> p > Len(r.text) \/ (r.multi /\ c = "\n")
       [] t[1] = "esc" -> (IsWord(b) # IsWord(c)) = (t[2] = "b")
Ways(r, t, x) ==
  CASE t[1] = "empty" -> <<x>>
    [] t[1] \in {"^", "$"} \/ (t[1] = "esc" /\ t[2] \in {"b", "B"}) -> IF Holds(r, t, x.src) THEN <<x>> ELSE <<>>
    [] t[1] \in {"c", ".", "class"} \/ (t[1] = "esc" /\ t[2] \notin {"b", "B"}) ->
         IF x.src <= Len(r.text) /\ OneOf(r, t, r.text[x.src]) THEN <<[x EXCEPT !.src = @ + 1]>> ELSE <<>>
    [] t[1] = "cat" -> Each(Ways(r, t[2], x), LAMBDA y : Ways(r, t[3], y))
    [] t[1] = "or" -> Ways(r, t[2], x) \o Ways(r, t[3], x)
    [] t[1] = "group" -> Each(Ways(r, t[3], x), LAMBDA y : <<[y EXCEPT !.par[t[2]] = <<x.src, y.src>>]>>)
    [] t[1] = "ref" ->
         LET g == SubSeq(r.text, x.par[t[2]][1], x.par[t[2]][2] - 1)
         IN IF Same(r, Part(r.text, x.src, Len(g)), g) THEN <<[x EXCEPT !.src = @ + Len(g)]>> ELSE <<>>
    [] t[1] = "rep" -> Times(r, t[2], t[3], t[4], t[5], x)
Times(r, t, n, m, lazy, x) ==
  LET clear == [x EXCEPT !.par = [g \in DOMAIN @ |-> IF g \in GroupsOf(t) THEN NoGroup ELSE @[g]]]
      more  == Each(Ways(r, t, clear),
                    LAMBDA y : IF n = 0 /\ y.src = x.src THEN <<>> ELSE Times(r, t, Max({n - 1, 0}), m - 1, lazy, y))
  IN CASE m = 0 -> <<x>>
       [] m > 0 /\ n > 0 -> more
       [] m > 0 /\ n = 0 /\ lazy -> <<x>> \o more
       [] m > 0 /\ n = 0 /\ ~lazy -> more \o <<x>>

Earliest(ways, p) == IF ways = <<>> THEN Lost ELSE [ok |-> TRUE, from |-> p, to |-> ways[1].src, par |-> ways[1].par]
Ecma(t, text, icase, multi, p) ==
  Earliest(Ways([text |-> text, icase |-> icase, multi |-> multi], t,
                [src |-> p, par |-> [g \in 1 .. Cardinality(GroupsOf(t)) |-> NoGroup]]), p)

\* What comes next tells if a repetition goes on, whatever follows: the letters that a match
\* may begin with are told apart.
Letters3 == {"a", "b", "c"}
RECURSIVE First(_), MayBeEmpty(_), Decided(_, _)
MayBeEmpty(t) ==
  CASE t[1] = "cat" -> MayBeEmpty(t[2]) /\ MayBeEmpty(t[3])
    [] t[1] = "or" -> MayBeEmpty(t[2]) \/ MayBeEmpty(t[3])
    [] t[1] = "rep" -> t[3] = 0 \/ MayBeEmpty(t[2])
    [] t[1] = "group" -> MayBeEmpty(t[3])
    [] OTHER -> t[1] \in {"empty", "^", "$", "ref"} \/ (t[1] = "esc" /\ t[2] \in {"b", "B"})
First(t) ==
  CASE t[1] = "cat" -> First(t[2]) \cup (IF MayBeEmpty(t[2]) THEN First(t[3]) ELSE {})
    [] t[1] = "or" -> First(t[2]) \cup First(t[3])
    [] t[1] = "rep" -> First(t[2])
    [] t[1] = "group" -> First(t[3])
    [] OTHER -> {c \in Letters3 : t[1] \in {"c", ".", "class", "esc"} /\ ~MayBeEmpty(t) => OneOf([icase |-> FALSE], t, c)}
Decided(t, follow) ==
  CASE t[1] = "cat" -> Decided(t[2], First(t[3]) \cup (IF MayBeEmpty(t[3]) THEN follow ELSE {})) /\ Decided(t[3], follow)
    [] t[1] = "or" -> GroupsOf(t[2]) = {} /\ Decided(t[2], follow) /\ Decided(t[3], follow)
    [] t[1] = "group" -> ~MayBeEmpty(t[3]) /\ Decided(t[3], follow)
    [] t[1] = "rep" -> (t[5] \/ First(t[2]) \cap follow = {}) /\ ~MayBeEmpty(t[2])
                       /\ (t[2][1] = "group" => t[2][3][1] # "or")
    [] OTHER -> TRUE

------------------------------------------------------------------------------
CONSTANTS Jobs,     \* sets of calls: [op, tree, icase, multi, text, behind, global, with, fn, inner, sep, limit],
                    \* where behind is what the memory behind a text's terminator holds
          Dollars   \* how many of the groups the constructor keeps as $1, $2, ...: 9

VARIABLES job, pc,
          re,          \* the compiled pattern
          last,        \* RegExp::text and parens: of the last search
          lastIndex,   \* the property of the object
          dc,          \* the properties of the constructor
          i, offset,   \* locals of match and replace
          p, q,        \* locals of split
          result
vars == <<job, pc, re, last, lastIndex, dc, i, offset, p, q, result>>

None == <<"none">>
NoProgram == [code |-> <<>>]
substring(s, from, to) == SubSeq(s, from + 1, to)
Captured(s, x, n) == IF x.par[n] = NoGroup THEN <<>> ELSE SubSeq(s, x.par[n][1], x.par[n][2] - 1)

Begin ==
  /\ pc = "compile" /\ re = NoProgram
  /\ last = Lost /\ lastIndex = 0
  /\ dc = [lastMatch |-> <<>>, dollar |-> [n \in 1 .. Dollars |-> <<>>], lastParen |-> <<>>, index |-> -1]
  /\ i = 0 /\ offset = 0 /\ p = 0 /\ q = 0
  /\ result = IF job.op = "replace" THEN job.text ELSE <<>>
Init == (\E n \in DOMAIN Jobs : job \in Jobs[n]) /\ Begin

Is(op) == pc = op /\ UNCHANGED <<job, re>>
Returns(r) == pc' = "done" /\ result' = r

Compile ==
  /\ pc = "compile" /\ pc' = job.op
  /\ re' = compile(Pattern(job.tree), job.icase, job.multi)
  /\ UNCHANGED <<job, last, lastIndex, dc, i, offset, p, q, result>>

------------------------------------------------------------------------------
(* RegExp.prototype.exec *)

\* A search from a place the text does not have leaves the groups and where the match began.
Searched(s, from, x) == IF from <= Len(s) THEN x ELSE [last EXCEPT !.ok = FALSE, !.to = 1]
search(s, from) == Searched(s, from, test(re, s, job.behind, from))
Outside(s, x) == x.ok /\ x.to > Len(s) + 1

\* What a search sets in the constructor: of more groups than it has room for, the last.
Dollar(s, x) ==
  LET np   == Len(x.par)
      n(k) == IF np > Dollars THEN k + np - Dollars ELSE k
  IN [k \in 1 .. Dollars |-> IF k > np \/ x.par[n(k)] = NoGroup THEN None ELSE Captured(s, x, n(k))]
Statics(s, x) ==
  LET np == Len(x.par)
  IN [lastMatch |-> substring(s, x.from - 1, x.to - 1), dollar |-> Dollar(s, x), index |-> x.from - 1,
      lastParen |-> IF np = 0 THEN <<>> ELSE Dollar(s, x)[Min({np, Dollars})]]
Finds(s, x) == ~Outside(s, x) /\ last' = x /\ dc' = IF x.ok THEN Statics(s, x) ELSE dc
lasti == IF job.global THEN lastIndex ELSE 0
NextIndex(x) == IF ~x.ok THEN 0 ELSE IF job.global THEN x.to - 1 ELSE lastIndex

\* The array that exec returns has empty strings for the groups behind the last that is set.
Array(s, x) ==
  LET np == Len(x.par)
      d  == Dollar(s, x)
      nmatches == Max({0} \cup {k \in 1 .. Dollars : k <= np /\ d[k] # None})
  IN <<substring(s, x.from - 1, x.to - 1)>> \o
     [k \in 1 .. np |->
        CASE k > nmatches -> <<>>
          [] k <= nmatches /\ np <= Dollars -> d[k]
          [] k <= nmatches /\ np > Dollars /\ k > np - Dollars -> d[k - (np - Dollars)]
          [] OTHER -> IF x.par[k] = NoGroup THEN None ELSE Captured(s, x, k)]

Execs(s, x) == Finds(s, x) /\ lastIndex' = NextIndex(x) /\ Returns(IF x.ok THEN Array(s, x) ELSE <<None>>)
exec(s) == Execs(s, search(s, lasti))
Exec == Is("exec") /\ exec(job.text) /\ UNCHANGED <<i, offset, p, q>>

\* Of a match that ends behind the text, what is right of it has a length less than 0: copying
\* that ends the program.  Every call but split searches by exec.
CrashesOn(s, x) == Outside(s, x) /\ last' = x /\ pc' = "crashed"
Crash ==
  /\ CASE pc = "search" -> CrashesOn(job.text, search(job.text, 0))
       [] pc \in {"exec", "match", "replace"} -> CrashesOn(job.text, search(job.text, IF pc = "match" THEN i ELSE lasti))
       [] pc = "call" /\ job.inner # None -> CrashesOn(job.inner, search(job.inner, lasti))
       [] OTHER -> FALSE
  /\ UNCHANGED <<job, re, lastIndex, dc, i, offset, p, q, result>>

\* String.prototype.search
Searches(x) == Finds(job.text, x) /\ Returns(IF x.ok THEN x.from - 1 ELSE -1)
Search == Is("search") /\ Searches(search(job.text, 0)) /\ UNCHANGED <<lastIndex, i, offset, p, q>>

------------------------------------------------------------------------------
(* String.prototype.match *)

Consume(from, to) == IF to = from THEN to + 1 ELSE to

MatchOne == Is("match") /\ ~job.global /\ exec(job.text) /\ UNCHANGED <<i, offset, p, q>>
Matches(x) ==
  /\ Finds(job.text, x)
  /\ i' = IF x.ok THEN Consume(i, x.to - 1) ELSE i
  /\ lastIndex' = i'
  /\ IF x.ok THEN result' = Append(result, substring(job.text, x.from - 1, x.to - 1)) /\ UNCHANGED pc
     ELSE Returns(result)
MatchAll == Is("match") /\ job.global /\ Matches(search(job.text, i)) /\ UNCHANGED <<offset, p, q>>

------------------------------------------------------------------------------
(* String.prototype.replace *)

\* What a format stands for.  After "$0" and no digit, the next character is taken twice.
RECURSIVE replace3(_, _, _)
replace3(f, s, x) ==
  LET two   == Len(f) > 2 /\ f[3] \in DOMAIN Digits
      n     == IF two THEN 10 * Digits[f[2]] + Digits[f[3]] ELSE Digits[f[2]]
      After(k) == SubSeq(f, k, Len(f))
      group == IF n <= Len(x.par) THEN Captured(s, x, n) ELSE <<>>
  IN IF Len(f) < 2 THEN f
     ELSE IF f[1] # "$" THEN <<f[1]>> \o replace3(After(2), s, x)
     ELSE CASE f[2] = "&" -> substring(s, x.from - 1, x.to - 1) \o replace3(After(3), s, x)
            [] f[2] = "left" -> substring(s, 0, x.from - 1) \o replace3(After(3), s, x)
            [] f[2] = "right" -> substring(s, x.to - 1, Len(s)) \o replace3(After(3), s, x)
            [] f[2] \in DOMAIN Digits ->
                 IF n > 0 THEN group \o replace3(After(IF two THEN 4 ELSE 3), s, x)
                 ELSE <<"$", f[2]>> \o replace3(IF two \/ Len(f) = 2 THEN After(3) ELSE <<f[3]>> \o After(3), s, x)
            [] OTHER -> <<"$", f[2]>> \o replace3(After(3), s, x)
replace4(s, from, to, replacement) == substring(s, 0, from) \o replacement \o substring(s, to, Len(s))

\* The next match.  A function that makes the replacement is called with the groups; the loop
\* that passes them leaves i at their number.
Replaces(x) ==
  /\ Finds(job.text, x) /\ lastIndex' = NextIndex(x)
  /\ IF x.ok THEN pc' = (IF job.fn THEN "call" ELSE "insert") /\ UNCHANGED result ELSE Returns(result)
  /\ i' = IF x.ok /\ job.fn THEN Len(x.par) ELSE i
ReplaceNext == Is("replace") /\ Replaces(search(job.text, lasti)) /\ UNCHANGED <<offset, p, q>>

\* The function may itself match the regular expression.
Again(x) == Finds(job.inner, x) /\ lastIndex' = NextIndex(x)
Callback ==
  /\ Is("call") /\ pc' = "insert" /\ UNCHANGED <<i, offset, p, q, result>>
  /\ IF job.inner = None THEN UNCHANGED <<last, lastIndex, dc>> ELSE Again(search(job.inner, lasti))

Inserted(replacement, j) ==
  /\ result' = replace4(result, last.from - 1 + offset, last.to - 1 + offset, replacement)
  /\ IF job.global
     THEN /\ offset' = offset + Len(replacement) - (last.to - last.from)
          /\ i' = j /\ lastIndex' = j /\ pc' = "replace"
     ELSE pc' = "done" /\ UNCHANGED <<offset, i, lastIndex>>
Insert ==
  /\ Is("insert")
  /\ Inserted(IF job.fn THEN job.with ELSE replace3(job.with, job.text, last), Consume(i, lastIndex))
  /\ UNCHANGED <<last, dc, p, q>>

\* What is searched for may also be a string.
Occurs(s, sep, k) == k + Len(sep) <= Len(s) /\ substring(s, k, k + Len(sep)) = sep
ReplaceString ==
  LET at == {k \in 0 .. Len(job.text) : Occurs(job.text, job.sep, k)}
      x  == [ok |-> TRUE, from |-> Min(at) + 1, to |-> Min(at) + Len(job.sep) + 1, par |-> <<>>]
      replacement == IF job.fn THEN job.with ELSE replace3(job.with, job.text, x)
  IN /\ Is("replaceString")
     /\ Returns(IF at = {} THEN job.text ELSE replace4(job.text, x.from - 1, x.to - 1, replacement))
     /\ UNCHANGED <<last, lastIndex, dc, i, offset, p, q>>

------------------------------------------------------------------------------
(* String.prototype.split *)

SplitsNone(x) ==
  LET hit == IF job.sep = None THEN x.ok ELSE Occurs(job.text, job.sep, 0)
  IN /\ Returns(IF job.limit = 0 \/ hit THEN <<>> ELSE <<job.text>>)
     /\ last' = IF job.limit > 0 /\ job.sep = None THEN x ELSE last
SplitNone ==
  /\ Is("split") /\ (job.limit = 0 \/ job.text = <<>>)
  /\ SplitsNone(search(job.text, 0))
  /\ UNCHANGED <<lastIndex, dc, i, offset, p, q>>

\* One time round the loop, at q; what is between p and the separator goes to the result, with
\* the groups of the separator.  The last place of the text is not looked at.  Behind a match
\* that ends behind the text q never meets that place, but wraps round to it; what is copied then
\* has a length less than 0.
Separator ==
  IF job.sep = None THEN search(job.text, q)
  ELSE [ok |-> Occurs(job.text, job.sep, q), from |-> q + 1, to |-> q + Len(job.sep) + 1, par |-> <<>>]
Memory == job.text \o <<"eof">> \o job.behind
Parts(x) == result \o <<substring(Memory, p, x.from - 1)>> \o [k \in DOMAIN x.par |-> Captured(Memory, x, k)]
Splits(x) ==
  /\ last' = IF job.sep = None THEN x ELSE last
  /\ IF x.ok /\ x.to - 1 # p
     THEN /\ p' = x.to - 1 /\ q' = x.to - 1
          /\ IF Len(Parts(x)) >= job.limit THEN Returns(SubSeq(Parts(x), 1, job.limit))
             ELSE result' = Parts(x) /\ pc' = IF Outside(job.text, x) THEN "crashed" ELSE pc
     ELSE /\ q' = (IF x.ok THEN x.from ELSE q + 1)
          /\ UNCHANGED <<p, pc, result>>
Split ==
  /\ Is("split") /\ job.limit > 0 /\ job.text # <<>>
  /\ IF q = Len(job.text)
     THEN Returns(Append(result, substring(job.text, p, q))) /\ UNCHANGED <<last, p, q>>
     ELSE Splits(Separator)
  /\ UNCHANGED <<lastIndex, dc, i, offset>>

Next == Compile \/ Exec \/ Crash \/ Search \/ MatchOne \/ MatchAll \/ ReplaceNext \/ Callback \/ Insert \/ ReplaceString
          \/ SplitNone \/ Split
Spec == Init /\ [][Next]_vars

------------------------------------------------------------------------------
(* ECMA-262 15.5.4.10, .11, .14, 15.10.6.2: what each call returns *)

HitAt(k) ==
  IF job.sep = None THEN Ecma(job.tree, job.text, job.icase, job.multi, k)
  ELSE [ok |-> Part(job.text, k, Len(job.sep)) = job.sep, from |-> k, to |-> k + Len(job.sep), par |-> <<>>]
FirstOf(hits) == IF hits = {} THEN Lost ELSE HitAt(Min(hits))
FirstHit(k) == FirstOf({h \in k .. Len(job.text) + 1 : HitAt(h).ok})
Groups(x) == [n \in DOMAIN x.par |-> Captured(job.text, x, n)]
Hit(x) == SubSeq(job.text, x.from, x.to - 1)
RECURSIVE Hits(_), Ecma15_5_4_14(_, _)
Behind1(x) == IF ~x.ok THEN <<>> ELSE <<x>> \o Hits(IF x.to = x.from THEN x.to + 1 ELSE x.to)
Hits(k) == Behind1(FirstHit(k))
AllHits == IF job.global THEN Hits(1) ELSE SelectSeq(<<FirstHit(1)>>, LAMBDA x : x.ok)
Stands(n, x) ==
  CASE job.with[n] = "$" -> <<>>
    [] n > 1 /\ job.with[n - 1] = "$" ->
         CASE job.with[n] = "&" -> Hit(x)
           [] job.with[n] = "left" -> SubSeq(job.text, 1, x.from - 1)
           [] job.with[n] = "right" -> SubSeq(job.text, x.to, Len(job.text))
           [] OTHER -> Groups(x)[Digits[job.with[n]]]
    [] OTHER -> <<job.with[n]>>
With(x) == IF job.fn THEN job.with ELSE FlattenSeq([n \in DOMAIN job.with |-> Stands(n, x)])
RECURSIVE ReplacedFrom(_, _)
ReplacedFrom(b, xs) ==
  IF xs = <<>> THEN SubSeq(job.text, b, Len(job.text))
  ELSE SubSeq(job.text, b, xs[1].from - 1) \o With(xs[1]) \o ReplacedFrom(xs[1].to, Tail(xs))
Around(b, k, x) ==
  IF ~x.ok \/ x.to = b THEN Ecma15_5_4_14(b, k + 1)
  ELSE <<SubSeq(job.text, b, k - 1)>> \o Groups(x) \o Ecma15_5_4_14(x.to, x.to)
Ecma15_5_4_14(b, k) ==
  IF k <= Len(job.text) THEN Around(b, k, HitAt(k))
  ELSE IF job.text = <<>> /\ HitAt(1).ok THEN <<>> ELSE <<SubSeq(job.text, b, Len(job.text))>>
AsArray(x)  == IF x.ok THEN <<Hit(x)>> \o Groups(x) ELSE <<None>>
Place(x)    == IF x.ok THEN x.from - 1 ELSE -1
Limited(xs) == SubSeq(xs, 1, Min({job.limit, Len(xs)}))
AllOf(xs)   == [n \in DOMAIN xs |-> Hit(xs[n])]
Expected ==
  CASE job.op = "exec" \/ (job.op = "match" /\ ~job.global) -> AsArray(FirstHit(1))
    [] job.op = "match" /\ job.global -> AllOf(AllHits)
    [] job.op = "search" -> Place(FirstHit(1))
    [] job.op \in {"replace", "replaceString"} -> ReplacedFrom(1, AllHits)
    [] job.op = "split" -> Limited(Ecma15_5_4_14(1, 1))

\* Where regexp.c is known not to follow the standard: "$" takes the line end it stands before,
\* "\b" always holds at the beginning, the letter of a class in brackets is in them too, what
\* a group matched stays when it is tried again, a class without regard to case ends the program
\* of the pattern, and a search can go on behind the text.
Departs ==
  LET nodes == Nodes(job.tree)
  IN \/ job.multi /\ \E n \in nodes : n[1] = "$"
     \/ ~IsWord(At(job.text, 1)) /\ {<<"esc", "b">>, <<"esc", "B">>} \cap nodes # {}
     \/ \E n \in nodes : n[1] = "class" /\ n[2][1] = "\\" /\ n[2][2] \in DOMAIN ClassOf \cap Range(job.text)
     \/ \E n, m \in nodes : n[1] = "ref" /\ m[1] \in {"or", "rep"} /\ GroupsOf(m) # {}
     \/ job.icase /\ \E n \in nodes : n[1] = "cat" /\ \E m \in Nodes(n[2]) : m[1] = "class"
     \/ Outside(job.text, last)

\* Elsewhere, what is found is a match: one that backtracking could have come to.
FoundIsMatch ==
  last.ok /\ job.inner = None /\ job.sep = None /\ ~Departs =>
    \E w \in Range(Ways([text |-> job.text, icase |-> job.icase, multi |-> job.multi], job.tree,
                        [src |-> last.from, par |-> [n \in DOMAIN last.par |-> NoGroup]])) : w.src = last.to

Anchored == \E n \in Nodes(job.tree) : n[1] \in {"^", "$"} \/ n \in {<<"esc", "b">>, <<"esc", "B">>}

\* Where moreover what comes next always tells if a repetition goes on, each method returns what
\* ECMA-262 says, but that a group that took no part is there as the empty string.
Blank(r) == IF job.op \in {"search", "replace", "replaceString"} THEN r ELSE [n \in DOMAIN r |-> IF r[n] = None THEN <<>> ELSE r[n]]
Plain ==
  /\ Decided(job.tree, {}) /\ job.inner = None
  /\ job.op = "replace" /\ job.fn => GroupsOf(job.tree) = {}
  /\ job.global => ~MayBeEmpty(job.tree) \/ ~Anchored
  /\ job.icase => \A n \in Nodes(job.tree) : n[1] # "class"
Agrees == pc = "done" /\ Plain /\ ~Departs => Blank(result) = Blank(Expected)

\* "If no source was consumed, consume a character" (dstring.c:587): each round of match and
\* replace finds its match behind where the last one began, and split goes on, so that a call
\* comes to its end.
Later ==
  /\ pc \in {"match", "replace"} /\ last.ok /\ last'.ok /\ job.inner = None => last'.from > last.from
  /\ pc = "split" /\ pc' = "split" => q' > q \/ p' > p
EachTurnLater == [][Later]_vars

==============================================================================
