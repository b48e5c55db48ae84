------------------------------- MODULE Formats ------------------------------
(***************************************************************************)
(* Small readers of formats: the serial Plug and Play ID (serpnp.c), file  *)
(* modes (modemuncher.c), netmasks (ipnm2nwbc.c), command lines            *)
(* (tokenize.c) and the lines of a compressed file (lzlib.c).  They are    *)
(* functions; a string is a sequence of characters.                        *)
(***************************************************************************)
EXTENDS Integers, SequencesExt, FiniteSets

CONSTANTS IdLen,       \* length of an EISA ID; 7 in the source
          SerialLen,   \* of a serial number; 8
          Width        \* bits of an octet; 8

Smallest(S) == CHOOSE i \in S : \A j \in S : i <= j
LongestOf(S) == CHOOSE s \in S : \A t \in S : Len(t) <= Len(s)

-----------------------------------------------------------------------------
(* serpnp: main() reads from "(" to ")", both of them in one of two codes. *)

\* A byte is [c, low]: the character, and whether it is 32 below its code.
\* read() returns nothing any more when the device is silent.
ReadId(bytes, size) ==
  LET begins == {i \in DOMAIN bytes : bytes[i].c = "("}
      begin == Smallest(begins)
      ends == {i \in begin + 1 .. Len(bytes) : bytes[i] = [c |-> ")", low |-> bytes[begin].low]}
      end == IF ends = {} THEN Len(bytes) ELSE Smallest(ends)
  IN IF begins = {} THEN <<"silent">>
     ELSE IF end - begin >= size THEN <<"overflow">>
     ELSE <<"id", SubSeq(bytes, begin, end)>>

\* pnpparse(): the fields of the ID, without the code.  garbage stands behind
\* it, where the test for the first optional field may read.
pnpparse(buf, garbage) ==
  LET at(i) == IF i + 1 \in DOMAIN buf THEN buf[i + 1] ELSE garbage
      n == Len(buf)
      nid == IF at(3 + IdLen - 1) = ")" THEN IdLen - 1 ELSE IdLen
      Stop(j, c) == LET s == {k \in j .. n - 1 : at(k) = c} IN IF s = {} THEN n - 3 ELSE Smallest(s)
      \* a field that begins at i, if there is a backslash, ends where c is
      field(i, c) == IF at(i) # "\\" THEN [from |-> i, to |-> i, there |-> FALSE]
                     ELSE [from |-> i + 1, to |-> Stop(i + 1, c), there |-> TRUE]
      serial == field(3 + IdLen, "\\")
      class == field(serial.to, "\\")
      drivers == field(class.to, "\\")
      star == IF drivers.there /\ at(drivers.from) = "*" THEN 1 ELSE 0
      descr == field(drivers.to, ";")
      part(f, skip) == IF f.there /\ f.to > f.from + skip + 1 THEN SubSeq(buf, f.from + skip + 1, f.to) ELSE <<>>
  IN [eisaid |-> SubSeq(buf, 4, 3 + nid),
      serial |-> IF serial.to - serial.from = SerialLen THEN part(serial, 0) ELSE <<>>,
      devclass |-> part(class, 0), compat |-> part(drivers, star), description |-> part(descr, 0)]

\* What main() says of the class: the device's own, or that of a known mouse.
ClassOf(id, mice) == IF id.devclass # <<>> THEN id.devclass
                     ELSE IF \E m \in mice : IsPrefix(id.eisaid, m) THEN <<"MOUSE">> ELSE <<>>

\* An ID as a device sends it: optional fields in their order, and the
\* checksum if there is one of them.
Field(f) == IF f = <<>> THEN <<>> ELSE <<"\\">> \o f
PnpId(eisa, serial, class, drivers, descr) ==
  <<"(", "1", "0">> \o eisa \o Field(serial) \o Field(class) \o Field(drivers) \o Field(descr)
    \o (IF serial \o class \o drivers \o descr = <<>> THEN <<>> ELSE <<"C", "S">>) \o <<")">>

\* Every field is found, whichever of the last ones are missing and whatever is
\* behind the ID, in either code and after noise; an ID that is one character
\* short, as some mice have it, is found as well.
PnpFieldsFound ==
  \A serial \in {<<>>, <<"s", "s">>}, class \in {<<>>, <<"c", "c">>}, drivers \in {<<>>, <<"d", "d">>, <<"*", "d", "d">>},
     descr \in {<<>>, <<"t", "t">>}, garbage \in {"\\", ")", "x"}, low \in BOOLEAN, short \in BOOLEAN :
    \* a field is there only if those before it are
    (class = <<>> => drivers = <<>>) /\ (drivers = <<>> => descr = <<>>) /\ (serial = <<>> => class = <<>>) =>
      LET eisa == IF short THEN <<"e", "i">> ELSE <<"e", "i", "s">>
          sent == [i \in 1 .. 3 |-> [c |-> "M", low |-> TRUE]]
                  \o [i \in DOMAIN PnpId(eisa, serial, class, drivers, descr) |->
                        [c |-> PnpId(eisa, serial, class, drivers, descr)[i], low |-> low]]
          read == ReadId(sent, 256)
          id == pnpparse([i \in DOMAIN read[2] |-> read[2][i].c], garbage)
      IN (short => serial = <<>>) =>
           /\ read[1] = "id"
           /\ id = [eisaid |-> eisa, serial |-> serial, devclass |-> class,
                    compat |-> SelectSeq(drivers, LAMBDA c : c # "*"), description |-> descr]
           /\ ClassOf(id, {<<"e", "i", "s">>}) = IF class = <<>> THEN <<"MOUSE">> ELSE class

-----------------------------------------------------------------------------
(* modemuncher: a mode is a set of bits, <<who, what>>.                    *)

Who == <<"u", "g", "o">>
What == <<"r", "w", "x">>
Special == {<<"u", "s">>, <<"g", "s">>, <<"o", "t">>}
ModeBits == {<<Who[i], What[j]>> : i, j \in 1 .. 3} \cup Special
modesel == [count \in 0 .. 8 |-> <<Who[1 + count \div 3], What[1 + (count % 3)]>>]

\* p has at least nine characters.  Others than those named change nothing.
rwxrwxrwx(m, p) ==
  LET is(count, c) == p[count + 1] = c
      bad == \E count \in (0 .. 8) \ {2, 5} : is(count, "s")
      on == {modesel[count] : count \in {k \in 0 .. 8 : is(k, modesel[k][2])}}
            \cup UNION {{<<who, "s">>, <<who, "x">>} : who \in {modesel[k][1] : k \in {l \in {2, 5} : is(l, "s")}}}
      off == {modesel[count] : count \in {k \in 0 .. 8 : is(k, "-")}}
  IN IF bad THEN [rc |-> -4, mode |-> m]
     ELSE [rc |-> 0, mode |-> ((m \ {<<"u", "s">>, <<"g", "s">>}) \cup on) \ off]

modechopper(m) ==
  [i \in 1 .. 9 |->
     LET b == modesel[i - 1]
         special == i \in {3, 6} /\ <<b[1], "s">> \in m
     IN IF special THEN IF b \in m THEN "s" ELSE "S"
        ELSE IF b \in m THEN b[2] ELSE "-"]

\* One clause of the other format: who, the operator, what.
affected_bits(who) == LET w == who \ {" "}
                      IN IF w = {} \/ "a" \in w THEN ModeBits ELSE {b \in ModeBits : b[1] \in w}
ch_mode(what) == {b \in ModeBits : b[2] \in what}
Apply(m, op, bits, change) ==
  IF change = {} THEN m
  ELSE IF op = "+" THEN m \cup (change \cap bits)
  ELSE IF op = "-" THEN m \ (change \cap bits)
  ELSE change \cap bits

\* From position i on.  A clause that is wrong leaves the changes of those
\* before it.
mode_munch(start, p) ==
  LET chr(i) == IF i \in DOMAIN p THEN p[i] ELSE "end"
      Past(i, C) == Smallest({k \in i .. Len(p) + 1 : chr(k) \notin C})
      set(i, k) == {chr(l) : l \in i .. k - 1}
      Clause[i \in 1 .. Len(p) + 1, m \in SUBSET ModeBits] ==
        LET op == Past(i, {"u", "g", "o", "a", " "})
            end == Past(op + 1, {"r", "w", "x", "s", " "})
            changed == Apply(m, chr(op), affected_bits(set(i, op)), ch_mode(set(op + 1, end)))
        IN IF chr(i) \in {"r", "-"} THEN rwxrwxrwx(m, SubSeq(p, i, Len(p)))
           ELSE IF chr(op) \notin {"+", "-", "="} THEN [rc |-> -1, mode |-> m]
           ELSE IF chr(end) \notin {"end", ","} THEN [rc |-> -2, mode |-> m]
           ELSE IF chr(end) = "," THEN Clause[end + 1, changed]
           ELSE [rc |-> 0, mode |-> changed]
  IN Clause[1, start]

\* A mode that is printed and read back is the same, unless set-id is on
\* without the execution it goes with; and clauses are applied in turn.
ModeRoundTrip ==
  /\ \A m \in SUBSET ModeBits, before \in {{}, ModeBits} :
       (\A who \in {"u", "g"} : <<who, "s">> \in m => <<who, "x">> \in m) =>
         LET back == mode_munch(before, modechopper(m))
         IN back.rc = 0 /\ back.mode \ {<<"o", "t">>} = m \ {<<"o", "t">>}
  /\ \A a, b \in {<<"u", "+", "w", "s">>, <<"=", "r">>, <<"g", "o", "-", "r", "x">>, <<"a", " ", "+", "x">>, <<"o", "w">>} :
       LET whole == mode_munch({<<"g", "r">>}, a \o <<",">> \o b)
           first == mode_munch({<<"g", "r">>}, a)
       IN whole = IF first.rc # 0 THEN first ELSE mode_munch(first.mode, b)

-----------------------------------------------------------------------------
(* ipnm2nwbc: an octet is the set of its bits, 0 the lowest.               *)

Octet == 0 .. Width - 1
getbits(n) == Cardinality(n)
setbits(n) == LET Shift[i \in 0 .. n] == IF i = 0 THEN {} ELSE {b - 1 : b \in Shift[i - 1] \ {0}} \cup {Width - 1}
              IN Shift[n]
Netmask(nmbits) == [i \in 1 .. 4 |-> LET n == nmbits - Width * (i - 1)
                                     IN IF n > 0 THEN setbits(IF n > Width THEN Width ELSE n) ELSE {}]
Network(ip, nm) == [i \in 1 .. 4 |-> ip[i] \cap nm[i]]
Broadcast(ip, nm) == [i \in 1 .. 4 |-> Network(ip, nm)[i] \cup (Octet \ nm[i])]

\* /n and the mask of n ones are the same, and network and broadcast are the
\* lowest and the highest address of the net.
Weight(a) == LET bits == {Width * (4 - i) + b : i \in 1 .. 4, b \in Octet}
                 has == {k \in bits : (k % Width) \in a[4 - (k \div Width)]}
             IN MapThenSumSet(LAMBDA k : 2 ^ k, has)
NetmaskRight ==
  \A n \in 0 .. 4 * Width, ip \in [1 .. 4 -> {{}, {0}, Octet}] :
    LET nm == Netmask(n)
    IN /\ MapThenSumSet(LAMBDA i : getbits(nm[i]), 1 .. 4) = n
       /\ Weight(Broadcast(ip, nm)) - Weight(Network(ip, nm)) = 2 ^ (4 * Width - n) - 1
       /\ Weight(Network(ip, nm)) % 2 ^ (4 * Width - n) = 0
       /\ Weight(ip) \in Weight(Network(ip, nm)) .. Weight(Broadcast(ip, nm))

-----------------------------------------------------------------------------
(* tokenize: the words of a command line; decode() does nothing.           *)

NoToken == -1

\* The loop over the string; a is [pos, last, esc, quote, tokens].
TokenStep(a, s, p) ==
  LET c == s[p]
      on == [a EXCEPT !.last = c]
  IN IF a.esc THEN [on EXCEPT !.esc = FALSE]
     ELSE IF c = "\\" THEN [on EXCEPT !.esc = TRUE]
     ELSE IF c = "\"" /\ a.quote THEN [on EXCEPT !.quote = FALSE]
     ELSE IF c = "\"" THEN [on EXCEPT !.quote = TRUE, !.pos = IF a.last = " " THEN p ELSE @]
     ELSE IF a.quote THEN on
     ELSE IF c = " " THEN [on EXCEPT !.tokens = IF a.last # " " THEN Append(@, SubSeq(s, a.pos, p - 1)) ELSE @]
     ELSE [on EXCEPT !.pos = IF a.last = " " THEN p ELSE @]

\* Behind the loop the last token is taken, whether it has been or not.
tokenize(s) ==
  LET end == FoldLeft(LAMBDA a, p : TokenStep(a, s, p),
                      [pos |-> NoToken, last |-> " ", esc |-> FALSE, quote |-> FALSE, tokens |-> <<>>],
                      [p \in DOMAIN s |-> p])
  IN IF end.pos = NoToken THEN end.tokens ELSE Append(end.tokens, SubSeq(s, end.pos, Len(s)))

\* The tokens are what stands between blanks that are neither quoted nor
\* escaped: of a string that does not end in such a blank, with no backslash at
\* the begin of a token or before a blank.
Escaped(s) == LET E[i \in 1 .. Len(s)] == i > 1 /\ s[i - 1] = "\\" /\ ~E[i - 1] IN E
TokensFound ==
  \A s \in UNION {[1 .. k -> {"a", " ", "\\", "\""}] : k \in 1 .. 6} :
    LET esc == Escaped(s)
        quotes(i) == Cardinality({j \in 1 .. i - 1 : s[j] = "\"" /\ ~esc[j]})
        blank == {i \in DOMAIN s : s[i] = " " /\ ~esc[i] /\ quotes(i) % 2 = 0}
        first == {i \in DOMAIN s \ blank : i = 1 \/ i - 1 \in blank}
        last(i) == LongestOf({t \in {SubSeq(s, i, j) : j \in i .. Len(s)} :
                                \A k \in i .. i + Len(t) - 1 : k \notin blank})
        plain == /\ Len(s) \notin blank
                 /\ \A i \in DOMAIN s : s[i] = "\\" /\ ~esc[i] =>
                      i \notin first /\ (i = Len(s) \/ s[i + 1] # " ")
        nth(n) == CHOOSE i \in first : Cardinality({j \in first : j < i}) = n - 1
    IN plain => tokenize(s) = [n \in 1 .. Cardinality(first) |-> last(nth(n))]

-----------------------------------------------------------------------------
(* lzlib: the iterator over the lines of a file, which zlib reads.         *)

\* gzgets(): as much as there is room for, to the end of a line.
gzgets(input, p, room) ==
  LET ends == {i \in p + 1 .. Len(input) : input[i] = "\n"}
      to == IF ends = {} THEN Len(input) ELSE Smallest(ends)
  IN IF to - p < room THEN to - p ELSE room - 1

\* ExtendBuffer(); the first buffer has min bytes (256 in the source).
Extended(size, min) == IF size < min THEN min ELSE 2 * size

\* One call reads from p on into a buffer of the given size.
NextInput(input, p, size, min) ==
  LET Fill[l \in Nat, b \in Nat] ==
        LET k == gzgets(input, p + l, b - l)
        IN IF k = 0 THEN [length |-> l, size |-> b, whole |-> FALSE]
           ELSE IF input[p + l + k] = "\n" THEN [length |-> l + k, size |-> b, whole |-> TRUE]
           ELSE Fill[l + k, Extended(b, min)]
  IN Fill[0, IF size = 0 THEN Extended(0, min) ELSE size]

\* The values of a loop over the lines: a last line without its newline gives
\* the value before it once more (nothing was pushed), and then it is the
\* status of the file.
gz_lines(input, min) ==
  LET Lines[p \in Nat, size \in Nat] ==
        LET got == NextInput(input, p, size, min)
        IN IF got.whole THEN <<SubSeq(input, p + 1, p + got.length - 1)>> \o Lines[p + got.length, got.size]
           ELSE IF got.length > 0 THEN <<"again", "status">> ELSE <<"status">>
  IN Lines[0, 0]

\* Every line that has its newline is read, and whole, however small the buffer
\* was for it or for those before it.
LinesRead ==
  \A input \in UNION {[1 .. k -> {"a", "\n"}] : k \in 0 .. 7}, min \in 2 .. 3 :
    LET lines == gz_lines(input, min)
        ends == {i \in DOMAIN input : input[i] = "\n"}
        nth(n) == CHOOSE i \in ends : Cardinality({j \in ends : j < i}) = n - 1
        begin(n) == IF n = 1 THEN 1 ELSE nth(n - 1) + 1
    IN SubSeq(lines, 1, Cardinality(ends)) = [n \in 1 .. Cardinality(ends) |-> SubSeq(input, begin(n), nth(n) - 1)]
-----------------------------------------------------------------------------
FormatsRead == PnpFieldsFound /\ ModeRoundTrip /\ NetmaskRight /\ TokensFound /\ LinesRead
=============================================================================
