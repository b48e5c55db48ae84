-------------------------------- MODULE LuaLib ------------------------------
(***************************************************************************)
(* misc/luabash/lua/ltablib.c and lstrlib.c: sorting and the other table   *)
(* functions, and the matching of patterns by backtracking.                *)
(*                                                                         *)
(* The order that a program gives to sort may be any relation.  A pattern  *)
(* is a sequence of items; a character class is the set of its characters. *)
(***************************************************************************)
EXTENDS Integers, SequencesExt, FiniteSets

CONSTANTS Elem,        \* elements of the arrays
          MaxSort,     \* bound: length of an array
          Less,        \* what sort() is given to compare with, an order or not
          Char,
          MaxSubject,  \* bound: length of a subject
          Pattern      \* the patterns that are tried

NoMatch == -1
MatchError == -2

-----------------------------------------------------------------------------
(* table.sort().  An element beyond the array is nil, and the comparison    *)
(* raises an error; lt is the order.                                       *)

Swap(a, i, j) == [a EXCEPT ![i] = a[j], ![j] = a[i]]

\* "repeat ++i until a[i] >= P", "repeat --j until a[j] <= P".
RECURSIVE Up(_, _, _, _, _), Down(_, _, _, _, _)
Up(lt, a, u, P, i) == IF i + 1 \notin DOMAIN a THEN MatchError
                      ELSE IF <<a[i + 1], P>> \notin lt THEN i + 1
                      ELSE IF i + 1 > u THEN MatchError ELSE Up(lt, a, u, P, i + 1)
Down(lt, a, l, P, j) == IF j - 1 \notin DOMAIN a THEN MatchError
                        ELSE IF <<P, a[j - 1]>> \notin lt THEN j - 1
                        ELSE IF j - 1 < l THEN MatchError ELSE Down(lt, a, l, P, j - 1)

\* The pivot is in a[u - 1] and goes to where the scans meet.
RECURSIVE Partition(_, _, _, _, _, _, _)
Partition(lt, a, l, u, P, i, j) ==
  LET up == Up(lt, a, u, P, i)
      down == IF up = MatchError THEN MatchError ELSE Down(lt, a, l, P, j)
  IN IF MatchError \in {up, down} THEN [ok |-> FALSE, a |-> a, i |-> 0]
     ELSE IF down < up THEN [ok |-> TRUE, a |-> Swap(a, u - 1, up), i |-> up]
     ELSE Partition(lt, Swap(a, up, down), l, u, P, up, down)

MedianOf3(lt, a, l, u) ==
  LET ends == IF <<a[u], a[l]>> \in lt THEN Swap(a, l, u) ELSE a
      i == (l + u) \div 2
  IN IF u - l = 1 THEN ends
     ELSE IF <<ends[i], ends[l]>> \in lt THEN Swap(ends, i, l)
     ELSE IF <<ends[u], ends[i]>> \in lt THEN Swap(ends, i, u) ELSE ends

\* The smaller part by a call, then the larger one.
RECURSIVE auxsort(_, _, _, _)
auxsort(lt, a, l, u) ==
  IF l >= u THEN [ok |-> TRUE, a |-> a]
  ELSE LET m == MedianOf3(lt, a, l, u)
           i == (l + u) \div 2
           p == Partition(lt, Swap(m, i, u - 1), l, u, m[i], l, u - 1)
           left == [l |-> l, u |-> p.i - 1]
           right == [l |-> p.i + 1, u |-> u]
           small == IF p.i - l < u - p.i THEN left ELSE right
           large == IF small = left THEN right ELSE left
           first == auxsort(lt, p.a, small.l, small.u)
       IN IF u - l <= 2 THEN [ok |-> TRUE, a |-> m]
          ELSE IF ~p.ok THEN [ok |-> FALSE, a |-> p.a]
          ELSE IF ~first.ok THEN first ELSE auxsort(lt, first.a, large.l, large.u)
sort(lt, a) == auxsort(lt, a, 1, Len(a))

-----------------------------------------------------------------------------
(* table.insert() and table.remove(), and string.sub() and string.byte().   *)
(* A table is a function of its indices; the place of an element that is   *)
(* not there is nil.                                                       *)

NilItem == 0
Padded(t) == [i \in 1 .. MaxSort + 1 |-> IF i \in DOMAIN t THEN t[i] ELSE NilItem]
Held(t, i) == IF i \in DOMAIN t THEN t[i] ELSE NilItem

\* e is one more than the length; a position beyond it makes the table grow.
tinsert(t, n, pos, v) ==
  LET e == IF pos > n + 1 THEN pos ELSE n + 1
  IN [i \in DOMAIN t |-> IF i = pos THEN v ELSE IF i \in pos + 1 .. e THEN t[i - 1] ELSE t[i]]
\* Beyond the length it gives nil and takes the last element away.
tremove(t, n, pos) ==
  IF n = 0 THEN [result |-> NilItem, t |-> t]
  ELSE [result |-> Held(t, pos),
        t |-> [i \in DOMAIN t |-> IF i = n THEN NilItem ELSE IF i \in pos .. n - 1 THEN t[i + 1] ELSE t[i]]]

posrelat(pos, l) == IF pos >= 0 THEN pos ELSE l + pos + 1
AtLeast1(p) == IF p < 1 THEN 1 ELSE p
str_sub(S, from, to) ==
  LET end == posrelat(to, Len(S))
  IN SubSeq(S, AtLeast1(posrelat(from, Len(S))), IF end > Len(S) THEN Len(S) ELSE end)
\* The end is compared as an unsigned number: a negative one is large.
str_byte(S, from, to) ==
  LET end == posrelat(to, Len(S))
  IN SubSeq(S, AtLeast1(posrelat(from, Len(S))), IF end > Len(S) \/ end < 0 THEN Len(S) ELSE end)

-----------------------------------------------------------------------------
(* Patterns.  An item is [k: kind, set, rep]; ms is what match() changes:  *)
(* the captures, of which those up to level are in use.                    *)

Unfinished == -1
Position == -2
Capture(s, len) == [init |-> s, len |-> len]
NoCaptures == <<>>

Opened(ms) == {l \in DOMAIN ms : ms[l].len = Unfinished}
LastOf(S) == CHOOSE l \in S : \A k \in S : k <= l

CharOf(S, s) == IF s < Len(S) THEN S[s + 1] ELSE "end"
Matched(s, ms) == [at |-> s, ms |-> ms]
singlematch(S, s, item) == s < Len(S) /\ S[s + 1] \in item.set

\* The end of a balanced string at s.
RECURSIVE Balance(_, _, _, _, _)
Balance(S, s, b, e, cont) ==
  IF s >= Len(S) THEN NoMatch
  ELSE IF S[s + 1] = e THEN IF cont = 1 THEN s + 1 ELSE Balance(S, s + 1, b, e, cont - 1)
  ELSE Balance(S, s + 1, b, e, IF S[s + 1] = b THEN cont + 1 ELSE cont)
matchbalance(S, s, b, e) == IF CharOf(S, s) # b \/ s >= Len(S) THEN NoMatch ELSE Balance(S, s + 1, b, e, 1)

\* match_capture(): the same text again; a position has the length -2, which
\* is larger than any.
matchcapture(S, s, c) ==
  IF c.len # Position /\ Len(S) - s >= c.len /\ SubSeq(S, s + 1, s + c.len) = SubSeq(S, c.init + 1, c.init + c.len)
  THEN s + c.len ELSE NoMatch

RECURSIVE MaxCount(_, _, _)
MaxCount(S, s, item) == IF singlematch(S, s, item) THEN 1 + MaxCount(S, s + 1, item) ELSE 0

\* A failing match undoes its change of the captures and tries the next way.
RECURSIVE match(_, _, _, _), max_expand(_, _, _, _, _), min_expand(_, _, _, _, _)
match(S, ms, s, P) ==
  IF P = <<>> THEN Matched(s, ms)
  ELSE LET item == Head(P)
           rest == Tail(P)
           m == singlematch(S, s, item)
           goto(to) == IF to = NoMatch THEN Matched(NoMatch, ms) ELSE match(S, ms, to, rest)
       IN CASE item.k \in {"(", "()"} ->
                 LET r == match(S, Append(ms, Capture(s, IF item.k = "(" THEN Unfinished ELSE Position)), s, rest)
                 IN IF r.at = NoMatch THEN Matched(NoMatch, Front(r.ms)) ELSE r
            [] item.k = ")" ->
                 IF Opened(ms) = {} THEN Matched(MatchError, ms)
                 ELSE LET l == LastOf(Opened(ms))
                          r == match(S, [ms EXCEPT ![l].len = s - ms[l].init], s, rest)
                      IN IF r.at = NoMatch THEN Matched(NoMatch, [r.ms EXCEPT ![l].len = Unfinished]) ELSE r
            [] item.k = "back" -> IF item.n \notin DOMAIN ms \ Opened(ms) THEN Matched(MatchError, ms)
                                  ELSE goto(matchcapture(S, s, ms[item.n]))
            [] item.k = "%b" -> goto(matchbalance(S, s, item.b, item.e))
            [] item.k = "%f" -> goto(IF (s > 0 /\ S[s] \in item.set) \/ CharOf(S, s) \notin item.set THEN NoMatch ELSE s)
            [] item.k = "$" -> goto(IF s = Len(S) THEN s ELSE NoMatch)
            [] item.k = "set" /\ item.rep = "?" ->
                 LET r == match(S, ms, s + 1, rest)
                 IN IF ~m THEN match(S, ms, s, rest) ELSE IF r.at # NoMatch THEN r ELSE match(S, r.ms, s, rest)
            [] item.k = "set" /\ item.rep = "*" -> max_expand(S, ms, s, MaxCount(S, s, item), rest)
            [] item.k = "set" /\ item.rep = "+" ->
                 IF m THEN max_expand(S, ms, s + 1, MaxCount(S, s + 1, item), rest) ELSE Matched(NoMatch, ms)
            [] item.k = "set" /\ item.rep = "-" -> min_expand(S, ms, s, item, rest)
            [] OTHER -> goto(IF m THEN s + 1 ELSE NoMatch)
max_expand(S, ms, s, i, rest) ==
  LET r == match(S, ms, s + i, rest)
  IN IF r.at # NoMatch \/ i = 0 THEN r ELSE max_expand(S, r.ms, s, i - 1, rest)
min_expand(S, ms, s, item, rest) ==
  LET r == match(S, ms, s, rest)
  IN IF r.at # NoMatch \/ ~singlematch(S, s, item) THEN r ELSE min_expand(S, r.ms, s + 1, item, rest)

\* str_find_aux(): the first place where the pattern matches.
RECURSIVE str_find_aux(_, _, _, _)
str_find_aux(S, P, anchor, s) ==
  LET r == match(S, NoCaptures, s, P)
  IN IF r.at # NoMatch THEN <<s, r>> ELSE IF s = Len(S) \/ anchor THEN <<s, r>> ELSE str_find_aux(S, P, anchor, s + 1)

\* str_gsub() and gmatch(): the matches <<start, end>> one after the other; an
\* empty one lets a character through.  %0 is the whole match.
RECURSIVE gsub(_, _, _, _, _), gmatch(_, _, _)
gsub(S, P, s, found, b) ==
  LET e == match(S, NoCaptures, s, P).at
      here == IF e = NoMatch THEN found ELSE Append(found, <<s, e>>)
      out == IF e = NoMatch THEN b ELSE b \o SubSeq(S, s + 1, e)
  IN IF e > s THEN gsub(S, P, e, here, out)
     ELSE IF s < Len(S) THEN gsub(S, P, s + 1, here, Append(out, S[s + 1]))
     ELSE [found |-> here, result |-> out]
gmatch(S, P, s) ==
  LET e == match(S, NoCaptures, s, P).at
  IN IF s > Len(S) THEN <<>>
     ELSE IF e = NoMatch THEN gmatch(S, P, s + 1)
     ELSE <<<<s, e>>>> \o gmatch(S, P, IF e = s THEN s + 1 ELSE e)

-----------------------------------------------------------------------------
\* What a pattern means.  Where an item may end that begins at s, the preferred
\* end first, what it does to the captures, and all the ways to match.
Down1(hi, lo) == [i \in 1 .. hi - lo + 1 |-> hi + 1 - i]
Up1(lo, hi) == [i \in 1 .. hi - lo + 1 |-> lo + i - 1]
Balanced(S, s, e, item) ==
  LET count(x, k) == Cardinality({i \in s + 1 .. k : S[i] = x})
  IN /\ S[s + 1] = item.b /\ item.b # item.e /\ count(item.b, e) = count(item.e, e)
     /\ \A k \in s + 1 .. e - 1 : count(item.b, k) > count(item.e, k)
Ends(S, c, s, item) ==
  LET runs == {n \in 0 .. Len(S) - s : \A i \in s + 1 .. s + n : S[i] \in item.set}
      most == LastOf(runs)
      least(n) == IF most = 0 THEN 0 ELSE n
      one(n) == IF most = 0 THEN <<>> ELSE Down1(s + n, s + 1)
      if(b, e) == IF b THEN <<e>> ELSE <<>>
  IN CASE item.k \in {"(", "()", ")"} -> <<s>>
       [] item.k = "$" -> if(s = Len(S), s)
       [] item.k = "%f" -> if(CharOf(S, s) \in item.set /\ (s = 0 \/ S[s] \notin item.set), s)
       [] item.k = "%b" -> SetToSortSeq({e \in s + 2 .. Len(S) : Balanced(S, s, e, item)}, <)
       [] item.k = "back" -> LET n == c[item.n].len
                             IN if(n >= 0 /\ s + n <= Len(S) /\ \A i \in 1 .. n : S[s + i] = S[c[item.n].init + i], s + n)
       [] OTHER -> CASE item.rep = "?" -> Down1(s + least(1), s)
                     [] item.rep = "*" -> Down1(s + most, s)
                     [] item.rep = "+" -> one(most)
                     [] item.rep = "-" -> Up1(s, s + most)
                     [] OTHER -> one(1)
Captured(c, s, item) ==
  CASE item.k = "(" -> Append(c, Capture(s, Unfinished))
    [] item.k = "()" -> Append(c, Capture(s, Position))
    [] item.k = ")" -> [c EXCEPT ![LastOf(Opened(c))].len = s - c[LastOf(Opened(c))].init]
    [] OTHER -> c
RECURSIVE Ways(_, _, _, _)
Ways(S, c, s, P) ==
  IF P = <<>> THEN <<Matched(s, c)>>
  ELSE LET ends == Ends(S, c, s, Head(P))
       IN FoldLeft(LAMBDA ways, e : ways \o Ways(S, Captured(c, s, Head(P)), e, Tail(P)), <<>>, ends)

-----------------------------------------------------------------------------
(* The calls of the library that are tried, one in each behaviour.          *)

VARIABLES lib_call,   \* the function and its arguments
          returned,   \* whether it has returned
          lib_result  \* what it gave
lua_lib_vars == <<lib_call, returned, lib_result>>

Arrays == UNION {[1 .. n -> Elem] : n \in 0 .. MaxSort}
Subjects == UNION {[1 .. n -> Char] : n \in 0 .. MaxSubject}
Places == -MaxSubject - 1 .. MaxSubject + 1
LuaLibInit == /\ \/ lib_call \in [f : {"sort"}, lt : Less, a : Arrays]
                 \/ lib_call \in [f : {"insert", "remove"}, a : Arrays, pos : 1 .. MaxSort + 1, v : Elem]
                 \/ lib_call \in [f : {"match", "gsub"}, S : Subjects, P : Pattern]
                 \/ lib_call \in [f : {"sub", "byte"}, S : Subjects, from : Places, to : Places]
              /\ returned = FALSE /\ lib_result = <<>>
LibReturn(f, r) == lib_call.f = f /\ ~returned /\ returned' = TRUE /\ lib_result' = r /\ UNCHANGED lib_call

CallSort == LibReturn("sort", sort(lib_call.lt, lib_call.a))
CallInsert == LibReturn("insert", tinsert(Padded(lib_call.a), Len(lib_call.a), lib_call.pos, lib_call.v))
CallRemove == LibReturn("remove", tremove(Padded(lib_call.a), Len(lib_call.a), lib_call.pos))
CallMatch == LibReturn("match", [s \in 0 .. Len(lib_call.S) |-> match(lib_call.S, NoCaptures, s, lib_call.P)])
CallGsub == LibReturn("gsub", [sub |-> gsub(lib_call.S, lib_call.P, 0, <<>>, <<>>), each |-> gmatch(lib_call.S, lib_call.P, 0),
                        first |-> str_find_aux(lib_call.S, lib_call.P, FALSE, 0)])
CallSub == LibReturn("sub", str_sub(lib_call.S, lib_call.from, lib_call.to))
CallByte == LibReturn("byte", str_byte(lib_call.S, lib_call.from, lib_call.to))
LuaLibNext == CallSort \/ CallInsert \/ CallRemove \/ CallMatch \/ CallGsub \/ CallSub \/ CallByte
LuaLibSpec == LuaLibInit /\ [][LuaLibNext]_lua_lib_vars

LibReturned(f) == lib_call.f = f /\ returned

IsOrder(lt) == /\ \A x \in Elem : <<x, x>> \notin lt
               /\ \A x, y, z \in Elem : <<x, y>> \in lt /\ <<y, z>> \in lt => <<x, z>> \in lt
               /\ \A x, y, z \in Elem : <<x, y>> \notin lt /\ <<y, z>> \notin lt => <<x, z>> \notin lt
Counts(a) == [x \in Elem |-> Cardinality({i \in DOMAIN a : a[i] = x})]

\* By an order, any array is sorted.  Whatever relation is given instead of
\* one, the sorting comes to an end, perhaps in an error, and no element is
\* lost or doubled (ltablib.c:216,221).
SortRight ==
  LibReturned("sort") =>
    LET a == lib_result.a
        lt == lib_call.lt
    IN /\ Counts(a) = Counts(lib_call.a)
       /\ IsOrder(lt) => lib_result.ok /\ \A i, j \in DOMAIN a : i < j => <<a[j], a[i]>> \notin lt

\* Within the table, insert and remove move the elements after the place by
\* one and lose none (ltablib.c:104,127).
PlacesRight ==
  LibReturned("insert") \/ LibReturned("remove") =>
    LET a == lib_call.a
        p == lib_call.pos
    IN /\ LibReturned("insert") /\ p <= Len(a) + 1 => lib_result = Padded(InsertAt(a, p, lib_call.v))
       /\ LibReturned("remove") /\ p <= Len(a) => lib_result = [result |-> a[p], t |-> Padded(RemoveAt(a, p))]

\* sub gives the characters at the places that are asked for, counted from
\* either end; byte gives the same ones when the end is not before the start
\* of the string (lstrlib.c:45,114).
PartRight ==
  LibReturned("sub") \/ LibReturned("byte") =>
    LET l == Len(lib_call.S)
        from(i) == IF lib_call.from < 0 THEN i - l - 1 >= lib_call.from ELSE i >= lib_call.from
        to(i) == IF lib_call.to < 0 THEN i - l - 1 <= lib_call.to ELSE i <= lib_call.to
        meant == {i \in 1 .. l : from(i) /\ to(i)}
    IN lib_call.f = "sub" \/ lib_call.to >= -l - 1 =>
         lib_result = [n \in 1 .. Cardinality(meant) |-> lib_call.S[n - 1 + CHOOSE i \in meant : \A j \in meant : i <= j]]

\* However it goes back and undoes captures, match() finds the preferred way,
\* with its captures, or that there is none (lstrlib.c:300-362).
MatchRight ==
  LibReturned("match") =>
    \A s \in 0 .. Len(lib_call.S) :
      LET r == lib_result[s]
          ways == Ways(lib_call.S, NoCaptures, s, lib_call.P)
      IN IF ways = <<>> THEN r = Matched(NoMatch, NoCaptures) ELSE r = ways[1]

\* Searching and replacing go over the subject without overlap: gsub and gmatch
\* come to the same matches, and gsub leaves the rest of the text as it was.
ScanRight ==
  LibReturned("gsub") =>
    LET g == lib_result.sub
        first == lib_result.first
    IN /\ g.result = lib_call.S /\ g.found = lib_result.each
       /\ \A i \in 1 .. Len(g.found) - 1 : g.found[i][2] <= g.found[i + 1][1]
       /\ IF g.found = <<>> THEN first[2].at = NoMatch ELSE <<first[1], first[2].at>> = g.found[1]

LibraryRight == SortRight /\ PlacesRight /\ PartRight /\ MatchRight /\ ScanRight
=============================================================================
