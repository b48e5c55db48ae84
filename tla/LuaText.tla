-------------------------------- MODULE LuaText --------------------------------
(***************************************************************************)
(* The words of a Lua program (llex.c): names, numerals, strings with      *)
(* their escapes, long strings, comments, operators of up to three         *)
(* characters, and the numbers of the lines, which end in one or two       *)
(* characters.  string.format("%q") writes a string that is to be read     *)
(* again (lstrlib.c).                                                      *)
(*                                                                         *)
(* A text is a sequence of characters; those that are not told apart are   *)
(* one.  The buffer holds a word while it is read.  Reserved words are     *)
(* names, and of a numeral only its form is looked at.                     *)
(***************************************************************************)
EXTENDS Integers, Sequences, FiniteSets, SequencesExt

CONSTANTS
  Quoted,      \* strings written by string.format("%q")
  Bracketed,   \* [level, s]: long strings
  Plain        \* other texts

VARIABLES
  given,       \* [kind, level, s]: what the text was made from
  text,        \* the text
  ls,          \* the lexer: [rest, buff, line, error]
  ahead,       \* the token read in advance, or none
  tokens       \* those read: [k, s, line, to]

lua_text_vars == <<given, text, ls, ahead, tokens>>

EOZ == "EOZ"
NUL == "NUL"
Newline == {"\n", "\r"}
Digit == [d \in {"0", "1", "9"} |-> CASE d = "0" -> 0 [] d = "1" -> 1 [] OTHER -> 9]
Alpha == {"a", "n", "e", "E", "_"}
Blank == {" ", "\t"}
isdigit(c) == c \in DOMAIN Digit
isalnum(c) == isdigit(c) \/ c \in Alpha
MaxByte == 255
Byte(c) == CASE c = 0 -> NUL [] c = 10 -> "\n" [] OTHER -> "byte"

-----------------------------------------------------------------------------
(* What string.format("%q") writes, and a long string around s.            *)

Escaped(c) == CASE c \in {"\"", "\\", "\n"} -> <<"\\", c>>
                [] c = "\r" -> <<"\\", "r">>
                [] c = NUL -> <<"\\", "0", "0", "0">>
                [] OTHER -> <<c>>
addquoted(s) == <<"\"">> \o FlattenSeq([i \in DOMAIN s |-> Escaped(s[i])]) \o <<"\"">>
Signs(n) == [i \in 1 .. n |-> "="]
Bracket(n, s) == <<"[">> \o Signs(n) \o <<"[">> \o s \o <<"]">> \o Signs(n) \o <<"]">>

-----------------------------------------------------------------------------
(* The input.                                                              *)

luaX_setinput(s) == [rest |-> s, buff |-> <<>>, line |-> 1, error |-> "none"]
current(l) == IF l.rest = <<>> THEN EOZ ELSE Head(l.rest)
next(l) == IF l.rest = <<>> THEN l ELSE [l EXCEPT !.rest = Tail(@)]
save(l, c) == [l EXCEPT !.buff = Append(@, c)]
save_and_next(l) == next(save(l, current(l)))
luaX_lexerror(l, msg) == [l EXCEPT !.error = msg, !.rest = <<>>]
currIsNewline(l) == current(l) \in Newline
inclinenumber(l) ==
  LET m == next(l)
  IN [(IF currIsNewline(m) /\ current(m) # current(l) THEN next(m) ELSE m) EXCEPT !.line = l.line + 1]

\* A sign of the set is taken, if it comes.
check_next(l, set) == IF current(l) \in set THEN save_and_next(l) ELSE l
RECURSIVE save_all(_, _)
save_all(l, set) == IF current(l) \in set THEN save_all(save_and_next(l), set) ELSE l

-----------------------------------------------------------------------------
(* Numerals.                                                               *)

Digits(s) == s # <<>> /\ \A i \in DOMAIN s : isdigit(s[i])
\* strtod() takes all of it.
luaO_str2d(s) ==
  \E i \in 0 .. Len(s) :
    LET mantissa == SubSeq(s, 1, i)
        exponent == SubSeq(s, i + 1, Len(s))
        unsigned == IF Len(exponent) > 1 /\ exponent[2] \in {"+", "-"} THEN SubSeq(exponent, 3, Len(exponent))
                    ELSE SubSeq(exponent, 2, Len(exponent))
    IN /\ Digits(SelectSeq(mantissa, LAMBDA c : c # "."))
       /\ Cardinality({j \in DOMAIN mantissa : mantissa[j] = "."}) <= 1
       /\ exponent # <<>> => exponent[1] \in {"e", "E"} /\ Digits(unsigned)

read_numeral(l) ==
  LET number == save_all(l, DOMAIN Digit \cup {"."})
      e == check_next(number, {"e", "E"})
      signed == IF e = number THEN e ELSE check_next(e, {"+", "-"})
      all == save_all(signed, DOMAIN Digit \cup Alpha)
  IN IF luaO_str2d(all.buff) THEN all ELSE luaX_lexerror(all, "malformed number")

-----------------------------------------------------------------------------
(* Strings.                                                                *)

\* [l, count]: the level of a long bracket, or -1 minus what there was of it.
skip_sep(l) ==
  LET s == current(l)
      m == save_all(save_and_next(l), {"="})
      n == Len(m.buff) - Len(l.buff) - 1
  IN [l |-> m, count |-> IF current(m) = s THEN n ELSE -n - 1]

RECURSIVE long_rest(_, _, _)
long_rest(l, sep, comment) ==
  LET c == current(l)
      r == skip_sep(l)
      line == inclinenumber(save(l, "\n"))
  IN CASE c = EOZ -> luaX_lexerror(l, "unfinished")
       [] c = "[" -> IF r.count = sep /\ sep = 0 THEN luaX_lexerror(r.l, "nesting of [[...]] is deprecated")
                     ELSE long_rest(IF r.count = sep THEN save_and_next(r.l) ELSE r.l, sep, comment)
       [] c = "]" -> IF r.count = sep THEN save_and_next(r.l) ELSE long_rest(r.l, sep, comment)
       [] c \in Newline -> long_rest(IF comment THEN [line EXCEPT !.buff = <<>>] ELSE line, sep, comment)
       [] OTHER -> long_rest(IF comment THEN next(l) ELSE save_and_next(l), sep, comment)

\* A newline at the start is not part of it.
read_long_string(l, sep, comment) ==
  LET open == save_and_next(l)
  IN long_rest(IF currIsNewline(open) THEN inclinenumber(open) ELSE open, sep, comment)
Inner(buff, n) == SubSeq(buff, n + 1, Len(buff) - n)

RECURSIVE decimal(_, _, _)
decimal(l, c, i) ==
  IF i < 3 /\ isdigit(current(l)) THEN decimal(next(l), 10 * c + Digit[current(l)], i + 1)
  ELSE IF c > MaxByte THEN luaX_lexerror(l, "escape sequence too large")
  ELSE save(l, Byte(c))

escape(l) ==
  CASE current(l) = "n" -> next(save(l, "\n"))
    [] current(l) = "r" -> next(save(l, "\r"))
    [] current(l) = "a" -> next(save(l, "byte"))
    [] currIsNewline(l) -> inclinenumber(save(l, "\n"))
    [] current(l) = EOZ -> l
    [] isdigit(current(l)) -> decimal(l, 0, 0)
    [] OTHER -> save_and_next(l)

RECURSIVE read_string(_, _)
read_string(l, del) ==
  LET c == current(l)
  IN CASE l.error # "none" -> l
       [] l.error = "none" /\ (c = EOZ \/ c \in Newline) -> luaX_lexerror(l, "unfinished")
       [] l.error = "none" /\ c = del -> save_and_next(l)
       [] l.error = "none" /\ c = "\\" -> read_string(escape(next(l)), del)
       [] OTHER -> read_string(save_and_next(l), del)

-----------------------------------------------------------------------------
(* Tokens: [l, k, s].                                                      *)

Token(l, k, s) == [l |-> l, k |-> k, s |-> s]
RECURSIVE skip_line(_)
skip_line(l) == IF currIsNewline(l) \/ current(l) = EOZ THEN l ELSE skip_line(next(l))

\* From the character after --.
skip_comment(l) ==
  LET r == skip_sep(l)
      clean == [r.l EXCEPT !.buff = <<>>]
      long == read_long_string(clean, r.count, TRUE)
  IN IF current(l) # "[" THEN skip_line(l)
     ELSE IF r.count >= 0 THEN [long EXCEPT !.buff = <<>>]
     ELSE skip_line(clean)

RECURSIVE llex(_)
llex(l) ==
  LET c == current(l)
      two == check_next(save_and_next(l), {"="})
      sep == skip_sep(l)
      dots == check_next(save_and_next(l), {"."})
      all == check_next(dots, {"."})
      of(m, k) == Token(m, k, m.buff)
  IN CASE c = EOZ -> Token(l, "eos", <<>>)
       [] c \in Newline -> llex(inclinenumber(l))
       [] c \in Blank -> llex(next(l))
       [] c = "-" -> IF current(next(l)) = "-" THEN llex(skip_comment(next(next(l)))) ELSE of(save_and_next(l), "op")
       [] c = "[" -> IF sep.count >= 0
                     THEN LET m == read_long_string(sep.l, sep.count, FALSE) IN Token(m, "string", Inner(m.buff, 2 + sep.count))
                     ELSE IF sep.count = -1 THEN of(sep.l, "op")
                     ELSE of(luaX_lexerror(sep.l, "invalid long string delimiter"), "op")
       [] c \in {"=", "<", ">", "~"} -> of(two, "op")
       [] c \in {"\"", "'"} -> LET m == read_string(save_and_next(l), c) IN Token(m, "string", Inner(m.buff, 1))
       [] c = "." -> IF Len(dots.buff) > 1 THEN of(all, "op")
                     ELSE IF isdigit(current(dots)) THEN of(read_numeral(dots), "number") ELSE of(dots, "op")
       [] isdigit(c) -> of(read_numeral(l), "number")
       [] c \in Alpha -> of(save_all(l, DOMAIN Digit \cup Alpha), "name")
       [] OTHER -> of(save_and_next(l), "op")

-----------------------------------------------------------------------------
None == [k |-> "none"]
Read == LET t == llex([ls EXCEPT !.buff = <<>>])
        IN [l |-> t.l, t |-> [k |-> IF t.l.error = "none" THEN t.k ELSE "error", s |-> t.s,
                              line |-> t.l.line, to |-> Len(text) - Len(t.l.rest)]]
TextEnded == tokens # <<>> /\ Last(tokens).k \in {"eos", "error"}

\* The next token, which may have been looked at before.
luaX_next ==
  /\ ~TextEnded /\ UNCHANGED <<given, text>> /\ ahead' = None
  /\ IF ahead # None THEN tokens' = Append(tokens, ahead) /\ UNCHANGED ls
     ELSE LET r == Read IN tokens' = Append(tokens, r.t) /\ ls' = r.l
luaX_lookahead == /\ ~TextEnded /\ ahead = None /\ UNCHANGED <<given, text, tokens>>
                  /\ LET r == Read IN ahead' = r.t /\ ls' = r.l

LuaTextInit ==
  /\ \/ \E s \in Quoted : given = [kind |-> "quoted", level |-> 0, s |-> s] /\ text = addquoted(s)
     \/ \E b \in Bracketed : given = [kind |-> "long", level |-> b.level, s |-> b.s] /\ text = Bracket(b.level, b.s)
     \/ \E s \in Plain : given = [kind |-> "plain", level |-> 0, s |-> s] /\ text = s
  /\ ls = luaX_setinput(text) /\ ahead = None /\ tokens = <<>>
LuaTextNext == luaX_next \/ luaX_lookahead
LuaTextSpec == LuaTextInit /\ [][LuaTextNext]_lua_text_vars

-----------------------------------------------------------------------------
\* What string.format("%q") has written reads as the string it was given
\* (lstrlib.c:695).
QuotedReads == given.kind = "quoted" /\ TextEnded =>
                 /\ [i \in DOMAIN tokens |-> tokens[i].k] = <<"string", "eos">>
                 /\ tokens[1].s = given.s

RECURSIVE Lines(_)
\* The text with its line ends, of one or two characters, made one.
Lines(s) ==
  IF s = <<>> THEN <<>>
  ELSE IF Head(s) \notin Newline THEN <<Head(s)>> \o Lines(Tail(s))
  ELSE IF Len(s) > 1 /\ s[2] \in Newline \ {s[1]} THEN <<"\n">> \o Lines(SubSeq(s, 3, Len(s)))
  ELSE <<"\n">> \o Lines(Tail(s))

\* A long string is what stands between its brackets, without a line end at the
\* start, if it does not hold brackets of its level (llex.c:221).
Holds(s, b) == \E i \in 1 .. Len(s) - Len(b) + 1 : SubSeq(s, i, i + Len(b) - 1) = b
LongReads ==
  LET n == given.level
      close == <<"]">> \o Signs(n) \o <<"]">>
      lines == Lines(given.s)
  IN given.kind = "long" /\ TextEnded =>
       IF Holds(given.s \o SubSeq(close, 1, Len(close) - 1), close) \/ (n = 0 /\ Holds(given.s, <<"[", "[">>))
       THEN TRUE
       ELSE /\ [i \in DOMAIN tokens |-> tokens[i].k] = <<"string", "eos">>
            /\ tokens[1].s = IF lines # <<>> /\ lines[1] = "\n" THEN Tail(lines) ELSE lines

\* A token is on the line it ends on (llex.c:127).
LineRight == \A i \in DOMAIN tokens :
               tokens[i].k # "error" =>
                 LET before == Lines(SubSeq(text, 1, tokens[i].to))
                 IN tokens[i].line = 1 + Cardinality({j \in DOMAIN before : before[j] = "\n"})

Operators == {<<"=", "=">>, <<"<", "=">>, <<"~", "=">>, <<".", ".">>, <<".", ".", ".">>}
\* Without blanks and comments the tokens are the text, none of them could have
\* been longer (llex.c:332).
Longest ==
  given.kind = "plain" /\ TextEnded /\ Last(tokens).k = "eos" /\ ToSet(text) \cap ({" ", "\n", "\r", "[", "\""}) = {}
  /\ ~Holds(text, <<"-", "-">>) =>
    /\ FlattenSeq([i \in DOMAIN tokens |-> tokens[i].s]) = text
    /\ \A i \in 1 .. Len(tokens) - 2 :
         LET t == tokens[i]
             c == tokens[i + 1].s[1]
         IN CASE t.k = "op" -> Append(t.s, c) \notin Operators /\ (t.s = <<".">> => ~isdigit(c))
              [] OTHER -> ~isalnum(c)
TextRight == QuotedReads /\ LongReads /\ LineRight /\ Longest
=============================================================================
