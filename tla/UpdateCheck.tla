----------------------------- MODULE UpdateCheck ----------------------------
(***************************************************************************)
(* source/UpdateList.cc, main() on: for each package named, and for each   *)
(* of its downloads, a listing is fetched with curl into a temporary file  *)
(* (source/Curl.hh) and searched for newer versions.                       *)
(*                                                                         *)
(* A version is compared part by part, a part being a run of letters or of *)
(* digits; a string is there a sequence of characters.                     *)
(*                                                                         *)
(* The .desc files, the sed that translates addresses and curl are         *)
(* external; a listing is what curl leaves in the temporary file.          *)
(***************************************************************************)
EXTENDS Integers, SequencesExt, FiniteSets

CONSTANTS Digits,      \* a function: the digits that occur, with their values
          Letters,     \* a sequence: the letters that occur, in their order
          TooFar,      \* numbers this far apart are not compared; 100 in the source
          Patch90,     \* a patch level from which on a version is a beta; 90
          Alphabet,    \* the characters of the versions to look at
          Desc,        \* the packages, with the lines of their .desc files
          MaxNames,    \* bound: packages named
          CurlExit     \* what curl may exit with; 0 is success

VARIABLES
  names, url,  \* arguments: the packages, and an address or ""
  packages,    \* the packages to come
  package,     \* [name, infos, cv_url] of the present one
  dln,         \* how many of its downloads are done
  tmp,         \* the temporary files there are
  listing,     \* the address that is being fetched; "" if none is
  report       \* what was printed, of each download

update_check_vars == <<names, url, packages, package, dln, tmp, listing, report>>

-----------------------------------------------------------------------------
(* Which of the file names in a listing are newer versions of a file.      *)

isdigit(c) == c \in DOMAIN Digits
isalpha(c) == \E i \in DOMAIN Letters : Letters[i] = c
Code(c) == CHOOSE i \in DOMAIN Letters : Letters[i] = c
Number(val) == FoldLeft(LAMBDA n, c : 10 * n + Digits[c], 0, val)

-----------------------------------------------------------------------------
(* subversion.                                                             *)

\* The part from position i on, and where the next one starts: behind one
\* character that is neither letter nor digit; at the end there is another.
next_part(s, i) ==
  LET is(c) == IF i <= Len(s) /\ isdigit(s[i]) THEN isdigit(c) ELSE isalpha(c)
      run == {j \in i .. Len(s) : \A k \in i .. j : is(s[k])}
      end == i + Cardinality(run)
  IN [val |-> SubSeq(s, i, end - 1),
      next |-> IF end <= Len(s) /\ (isdigit(s[end]) \/ isalpha(s[end])) THEN end ELSE end + 1]

\* std::string's own order, of two runs of letters.
LettersBefore(a, b) == \E n \in 1 .. Len(b) :
                         /\ \A k \in 1 .. n - 1 : k \in DOMAIN a /\ a[k] = b[k]
                         /\ n \notin DOMAIN a \/ Code(a[n]) < Code(b[n])

Numeric(val) == val # <<>> /\ isdigit(val[1])
Alphabetic(val) == val # <<>> /\ isalpha(val[1])
SameClass(a, b) == (Numeric(a) /\ Numeric(b)) \/ (Alphabetic(a) /\ Alphabetic(b))
Distance(a, b) == LET d == Number(a) - Number(b) IN IF d < 0 THEN -d ELSE d

\* operator< and operator>: a number too far from another is always lower.
Lower(a, b) == IF ~SameClass(a, b) THEN Alphabetic(a)
               ELSE IF Numeric(a) THEN Distance(a, b) > TooFar \/ Number(a) < Number(b)
               ELSE LettersBefore(a, b)
Higher(a, b) == IF ~SameClass(a, b) THEN Alphabetic(b)
                ELSE IF Numeric(a) THEN Distance(a, b) <= TooFar /\ Number(a) > Number(b)
                ELSE LettersBefore(b, a)

-----------------------------------------------------------------------------
(* Version.                                                                *)

\* The first number, or the first behind '-' or '_' if that comes later; not at
\* the first character.
ExtractFromFilename(name) ==
  LET numbers == {i \in 2 .. Len(name) : isdigit(name[i])}
      first == CHOOSE i \in numbers : \A j \in numbers : i <= j
      dashed == {i \in numbers : i > first /\ name[i - 1] \in {"-", "_"}}
      start == IF dashed = {} THEN first ELSE CHOOSE i \in dashed : \A j \in dashed : i <= j
  IN IF numbers = {} THEN <<>> ELSE SubSeq(name, start, Len(name))

\* -1, 0 or 1.  When one of the two has no more parts, the other's next part
\* decides; the last test looks at subv_a, which is empty there.
compare(a, b) ==
  LET Parts[i \in 1 .. Len(a) + 2, j \in 1 .. Len(b) + 2] ==
        LET subv_a == next_part(a, i)
            subv_b == next_part(b, j)
        IN IF i <= Len(a) /\ j <= Len(b)
             THEN IF Lower(subv_a.val, subv_b.val) THEN -1
                  ELSE IF Higher(subv_a.val, subv_b.val) THEN 1
                  ELSE Parts[subv_a.next, subv_b.next]
           ELSE IF subv_a.val # <<>> THEN IF Numeric(subv_a.val) THEN 1 ELSE -1
           ELSE IF subv_b.val # <<>> THEN IF Numeric(subv_a.val) THEN 1 ELSE -1
           ELSE 0
  IN Parts[1, 1]

-----------------------------------------------------------------------------
(* ParseList().                                                            *)

At(s, t, i) == i + Len(t) - 1 <= Len(s) /\ SubSeq(s, i, i + Len(t) - 1) = t
Finds(s, t, from) == {i \in from .. Len(s) : At(s, t, i)}
Least(S) == CHOOSE i \in S : \A j \in S : i <= j
Greatest(S) == CHOOSE i \in S : \A j \in S : j <= i

\* The name of a file: prefix, version and the first of the suffixes in it.
Split(base, suffixes, noprefix) ==
  LET has == {n \in DOMAIN suffixes : Finds(base, suffixes[n], 1) # {}}
      suffix == IF has = {} THEN <<>> ELSE suffixes[Least(has)]
      templ == IF has = {} THEN base ELSE SubSeq(base, 1, Greatest(Finds(base, suffix, 1)) - 1)
      version == ExtractFromFilename(templ)
      prefix == IF version = <<>> THEN templ
                ELSE SubSeq(templ, 1, Greatest(Finds(templ, version, 1)) - 1)
  IN [prefix |-> IF noprefix THEN <<>> ELSE prefix, version |-> version, suffix |-> suffix]

\* The version that a word of the listing has, if it looks like the file.
MatchedVersion(word, f) ==
  LET starts == IF f.prefix = <<>> THEN {1} ELSE Finds(word, f.prefix, 1)
      idx == Least(starts)
      ends == IF f.suffix = <<>> THEN {Len(word)} ELSE Finds(word, f.suffix, idx + 1)
  IN IF word = <<>> \/ starts = {} \/ ends = {} THEN <<>>
     ELSE ExtractFromFilename(SubSeq(word, idx, Least(ends) - 1))

\* Betas, odd minor versions and patch levels from 90 on are not wanted.
Unwanted(v, o) ==
  LET major == next_part(v, 1)
      minor == next_part(v, major.next)
      patch == next_part(v, minor.next)
      atoi(val) == IF Numeric(val) THEN Number(val) ELSE 0
  IN \/ ~o.beta /\ \E b \in o.betas : Finds(v, b, 1) # {}
     \/ /\ major.val # <<>> /\ patch.val # <<>>
        /\ (~o.odd /\ atoi(minor.val) % 2 = 1) \/ atoi(patch.val) >= Patch90

Candidates(base, words, o) ==
  LET f == Split(base, o.suffixes, o.noprefix)
  IN {v \in {MatchedVersion(words[i], f) : i \in DOMAIN words} :
        v # <<>> /\ ~Unwanted(v, o)}

\* What is reported as the newest: the last after std::sort(), which is any
\* that no other is above, and any at all if there is none.
newer_versions(base, words, o) ==
  {v \in Candidates(base, words, o) :
     compare(v, Split(base, o.suffixes, o.noprefix).version) = 1}
Newest(base, words, o) ==
  LET newer == newer_versions(base, words, o)
      top == {v \in newer : \A w \in newer : compare(v, w) # -1}
  IN IF newer = {} THEN {<<>>} ELSE IF top = {} THEN newer ELSE top
-----------------------------------------------------------------------------
\* What is meant: the parts in turn, letters (beta, pre) below nothing and
\* nothing below a number.
PartsOf(s) ==
  LET class(c) == IF isdigit(c) THEN "digit" ELSE IF isalpha(c) THEN "alpha" ELSE "none"
      starts == {i \in DOMAIN s : class(s[i]) # "none"
                                  /\ (i = 1 \/ class(s[i - 1]) # class(s[i]))}
      nth(n) == CHOOSE i \in starts : Cardinality({j \in starts : j < i}) = n - 1
      length(i) == Cardinality({j \in i .. Len(s) : \A k \in i .. j : class(s[k]) = class(s[i])})
  IN [n \in 1 .. Cardinality(starts) |-> SubSeq(s, nth(n), nth(n) + length(nth(n)) - 1)]

Rank(p, n) == IF n \notin DOMAIN p THEN 1 ELSE IF Numeric(p[n]) THEN 2 ELSE 0
PartLess(p, q, n) ==
  \/ Rank(p, n) < Rank(q, n)
  \/ Rank(p, n) = 2 /\ Rank(q, n) = 2 /\ Number(p[n]) < Number(q[n])
  \/ Rank(p, n) = 0 /\ Rank(q, n) = 0 /\ LettersBefore(p[n], q[n])
Differ(p, q) == {n \in 1 .. Len(p) + Len(q) : PartLess(p, q, n) \/ PartLess(q, p, n)}
Older(p, q) == Differ(p, q) # {} /\ PartLess(p, q, Least(Differ(p, q)))

\* Versions without two separators in a row.
Proper == {s \in UNION {[1 .. k -> Alphabet] : k \in 1 .. 4} :
             /\ \A i \in DOMAIN s : isdigit(s[i]) \/ isalpha(s[i])
                                     \/ (i \notin {1, Len(s)} /\ (isdigit(s[i - 1]) \/ isalpha(s[i - 1])))}

\* The two cases in which the code takes p for the older one whatever is meant:
\* the numbers that decide are too far apart, and p has ended where q goes on,
\* be it with letters (the last test of compare() looks at the wrong part).
TakenForOlder(p, q) ==
  LET n == Least(Differ(p, q))
  IN /\ Differ(p, q) # {}
     /\ \/ n \notin DOMAIN p
        \/ Rank(p, n) = 2 /\ Rank(q, n) = 2 /\ Distance(p[n], q[n]) > TooFar

\* Versions are compared as they are meant, apart from those two cases
\* (UpdateList.cc:90-150, 251-263).
CompareAsMeant ==
  LET parts == [s \in Proper |-> PartsOf(s)]
  IN \A a, b \in Proper :
       compare(a, b) = IF TakenForOlder(parts[a], parts[b]) \/ Older(parts[a], parts[b]) THEN -1
                       ELSE IF Older(parts[b], parts[a]) THEN 1 ELSE 0

\* In a listing with other words around the names, the newest of the versions
\* that are wanted is found, or none if none is newer: for versions of three
\* numbers, with and without those of an odd second number.
Triples == {<<i, ".", j, ".", k>> : i, j \in DOMAIN Digits \ {"9"}, k \in DOMAIN Digits}
NewestFound ==
  LET name(v) == <<"a", "-">> \o v \o <<".", "b">>
      word(v) == <<"=">> \o name(v) \o <<">">>
      options(odd) == [suffixes |-> <<<<".", "b", "b">>, <<".", "b">>>>, noprefix |-> FALSE,
                       beta |-> FALSE, betas |-> {<<"b">>}, odd |-> odd]
      later(v, w) == Older(PartsOf(w), PartsOf(v))
  IN \A now, v, w \in Triples, odd \in BOOLEAN :
       LET asked == {x \in {v, w} : later(x, now) /\ Digits[x[5]] < Patch90
                                      /\ (odd \/ Digits[x[3]] % 2 = 0)}
       IN Newest(name(now), <<word(v), <<"=">>, word(w)>>, options(odd))
            = IF asked = {} THEN {<<>>} ELSE {x \in asked : \A y \in asked : ~later(y, x)}

-----------------------------------------------------------------------------
(* tag-parser.hh and desc-parser.hh: the tags of a .desc file, and the     *)
(* downloads that its [D] lines name.  A line is a comment or empty        *)
(* ("skip"), it has no tag ("garbage"), or it is [tag, value].             *)

\* The names of the registered tags, the empty ones included, in their order.
tags == <<{"COPY", ""}, {"I", "", "INFO"}, {"T", "", "TEXT"}, {"U", "", "URL"},
          {"A", "AUTH", "AUTHOR"}, {"M", "", "MAINTAINER"}, {"C", "", "CATEGORY"},
          {"F", "", "FLAGS"}, {"R", "ARCH", "ARCHITECTUR"}, {"K", "KERN", "KERNEL"},
          {"E", "DEP", "DEPENDENCY"}, {"L", "", "LICENCE"}, {"S", "", "STATUS"},
          {"V", "VER", "VERSION"}, {"P", "", "PRIORITY"}, {"D", "DOWN", "DOWNLOAD"},
          {"", "CV-URL"}, {"", "CV-FLAGS"}, {"SRC", "", "SRCPACKAGE"}, {"O", "", "CONF"}>>
Download == 16
CvUrl == 17

NoTag == 0
TagOf(line) == LET named == {i \in DOMAIN tags : line.tag \in tags[i]}
               IN IF named = {} THEN NoTag ELSE CHOOSE i \in named : \A j \in named : i <= j

\* Clear() and Parse(): each value is the lines of its tag; ok if every line
\* had a tag that is known.
Parse(lines) ==
  LET read(p, line) ==
        IF line.kind = "skip" THEN p
        ELSE IF line.kind = "garbage" \/ TagOf(line) = NoTag THEN [p EXCEPT !.ok = FALSE]
        ELSE [p EXCEPT !.value[TagOf(line)] = Append(@, line.value)]
  IN FoldLeft(read, [ok |-> TRUE, value |-> [i \in DOMAIN tags |-> <<>>]], lines)

\* A line of [D]: where the listing is, and what to download.  '!' gives the
\* whole address of a file that is stored under another name.
ParseLine(d) == [file |-> d.file, url |-> <<d.protocol, d.dir>>, protocol |-> d.protocol,
                 down_url |-> <<d.protocol, d.dir, IF d.bang THEN d.base ELSE d.file>>]

\* Without a [D] line there is still one download, of nothing.
NoInfo == [file |-> "", url |-> <<"", "">>, protocol |-> "", down_url |-> <<"", "", "">>]
download_infos(p) ==
  LET lines == p.value[Download]
  IN IF lines = <<>> THEN <<NoInfo>> ELSE [i \in DOMAIN lines |-> ParseLine(lines[i])]

\* The [D] lines count only if the whole file was understood.
ParsePackage(lines) == LET p == Parse(lines)
                       IN [infos |-> IF p.ok THEN download_infos(p) ELSE <<>>, cv_url |-> p.value[CvUrl]]
-----------------------------------------------------------------------------
(* main().                                                                 *)

NoPackage == [name |-> "", infos |-> <<>>, cv_url |-> <<>>]

UpdateCheckInit ==
  /\ names \in UNION {[1 .. k -> DOMAIN Desc] : k \in 1 .. MaxNames} /\ packages = names
  /\ url \in {<<"">>, <<"given">>} /\ package = NoPackage /\ dln = 0
  /\ tmp = 0 /\ listing = <<"">> /\ report = <<>>

Done == dln = Len(package.infos)

NextPackage ==
  /\ Done /\ packages # <<>> /\ listing = <<"">>
  /\ LET p == ParsePackage(Desc[Head(packages)])
     IN package' = [name |-> Head(packages), infos |-> p.infos, cv_url |-> p.cv_url]
  /\ packages' = Tail(packages) /\ dln' = 0
  /\ UNCHANGED <<names, url, tmp, listing, report>>

info == package.infos[dln + 1]
CanList == info.protocol \in {"http", "https", "ftp"}

SkipDownload == /\ ~Done /\ listing = <<"">> /\ ~CanList
                /\ dln' = dln + 1
                /\ UNCHANGED <<names, packages, url, package, tmp, listing, report>>

\* Check4Updates(), up to the fetching: --url goes before the address of the
\* .desc file, and that before the directory of the download.
StartListing ==
  /\ ~Done /\ listing = <<"">> /\ CanList
  /\ tmp' = tmp + 1
  /\ listing' = IF url # <<"">> THEN url ELSE IF package.cv_url # <<>> THEN package.cv_url ELSE info.url
  /\ UNCHANGED <<names, packages, url, package, dln, report>>

\* ExecCurl(): system() returns the exit status in its second byte, where no
\* case of the switch finds it; one that is below 256 is a signal.
Status(exit) == exit * 256
Message(rc) ==
  CASE rc = 0 -> "listing"
    [] rc = 1 -> "unsupported protocol"
    [] rc \in {3, 4, 49} -> "malformed url"
    [] rc \in {5, 6, 7, 35} -> "could not connect"
    [] rc \in {9, 10, 46} -> "access denied"
    [] rc = 22 -> "file does not exist"
    [] rc = 28 -> "timeout"
    [] OTHER -> "operation canceled"

\* GenList(): the exceptions are all caught, and the file goes.
EndListing(exit) ==
  /\ listing # <<"">> /\ listing' = <<"">>
  /\ report' = Append(report, [package |-> package.name, file |-> info.file, from |-> listing,
                               exit |-> exit, says |-> Message(Status(exit))])
  /\ tmp' = tmp - 1 /\ dln' = dln + 1
  /\ UNCHANGED <<names, packages, url, package>>

UpdateCheckNext == NextPackage \/ SkipDownload \/ StartListing \/ \E e \in CurlExit : EndListing(e)

UpdateCheckSpec == UpdateCheckInit /\ [][UpdateCheckNext]_update_check_vars

\* source/Download.cc has only this much of a download.
WouldDownload(i) == i.protocol \in {"http", "ftp"}
-----------------------------------------------------------------------------
\* Each download that can be listed is reported once, in the order of the
\* arguments and of the [D] lines, whatever became of the ones before it; those
\* of a .desc file with an error in it are not.
Of(name) ==
  LET p == Parse(Desc[name])
      lines == SelectSeq(p.value[Download], LAMBDA d : d.protocol \in {"http", "https", "ftp"})
  IN IF p.ok THEN [i \in DOMAIN lines |-> <<name, lines[i].file>>] ELSE <<>>
ReportsOnce ==
  LET begun == SubSeq(names, 1, Len(names) - Len(packages))
      due == FoldLeft(LAMBDA r, name : r \o Of(name), <<>>, begun)
      told == [i \in DOMAIN report |-> <<report[i].package, report[i].file>>]
  IN IsPrefix(told, due) /\ (Done => told = due)

\* No temporary file is left, and there is never more than one.
OneTemporary == tmp = IF listing = <<"">> THEN 0 ELSE 1

\* What failed is not taken for a listing.
FailureSeen == \A i \in DOMAIN report : (report[i].says = "listing") <=> (report[i].exit = 0)
=============================================================================
