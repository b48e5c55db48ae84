------------------------------- MODULE Textbox ------------------------------
(***************************************************************************)
(* misc/confdialog/textbox.c: dialog_textbox().                            *)
(*                                                                         *)
(* The file is read through a buffer of BUF_SIZE bytes, in pieces that     *)
(* need not end with a line.  page points behind the last line shown; the  *)
(* keys that go back walk from there over what is shown and further, and   *)
(* read the file again half a buffer earlier when they reach the           *)
(* beginning of the buffer.                                                *)
(***************************************************************************)
EXTENDS Widget, Sequences, FiniteSets, TLC

CONSTANTS BUF_SIZE,    \* bytes in the buffer (4 * 1024)
          MaxFile,     \* bound: bytes of the file
          MaxHeight,   \* bound: lines in the window
          MaxHscroll   \* how far the text can be moved sideways (MAX_LEN)

ASSUME TextboxAssumption == /\ BUF_SIZE \in Nat \ {0} /\ BUF_SIZE % 2 = 0
                            /\ MaxFile \in Nat /\ MaxHeight \in Nat \ {0}
                            /\ MaxHscroll \in Nat

VARIABLES
  contents, height,  \* arguments
  view,              \* the reading position, see View
  begin_reached, page_length

\* hscroll is scroll; screen[i] is where the line in row i begins, and hscroll
\* when it was printed.
text_vars == <<dialog, contents, height, view, begin_reached, page_length>>

file_size == Len(contents)

\* fpos: offset of the descriptor; got: bytes_read; page: index in the buffer;
\* end: end_reached.  The buffer holds the got bytes before fpos.
View == [fpos : Nat, got : Nat, page : Nat, end : BOOLEAN]

Base(v) == v.fpos - v.got
Position(v) == Base(v) + v.page

\* lseek() to from and read().
ReadAt(v, from, page) == LET n == Lesser(BUF_SIZE, file_size - from)
                         IN [v EXCEPT !.fpos = from + n, !.got = n, !.page = page]

\* get_line(): page moves behind the next '\n' or to the end of the file.
NextLine[v \in View] ==
  IF v.page = v.got
    THEN IF v.fpos < file_size THEN NextLine[ReadAt(v, v.fpos, 0)]
         ELSE [v EXCEPT !.end = TRUE]
    ELSE LET w == [v EXCEPT !.page = @ + 1, !.end = FALSE]
         IN IF contents[Position(v) + 1] = "\n" THEN w ELSE NextLine[w]
get_line(v) == NextLine[[v EXCEPT !.end = FALSE]]

RefillShort(v) == IF Base(v) < BUF_SIZE \div 2 THEN ReadAt(v, 0, BUF_SIZE \div 2)
                  ELSE ReadAt(v, Base(v) - BUF_SIZE \div 2, BUF_SIZE \div 2)
\* The page pointer is at the beginning of the buffer: half a buffer more is
\* read in front of it.
Refill(v) == IF Base(v) < BUF_SIZE \div 2 THEN ReadAt(v, 0, Base(v))
             ELSE ReadAt(v, Base(v) - BUF_SIZE \div 2, BUF_SIZE \div 2)

AtBegin(v) == v.page = 0 /\ Base(v) = 0

\* One character back, and again until it is the '\n' before n lines.
Back[n \in Nat, v \in View] ==
  IF n = 0 THEN [v |-> [v EXCEPT !.page = @ + 1], begin |-> FALSE]
  ELSE IF AtBegin(v) THEN [v |-> v, begin |-> TRUE]
  ELSE LET u == IF v.page = 0 THEN Refill(v) ELSE v
           w == [u EXCEPT !.page = @ - 1]
       IN IF contents[Position(w) + 1] = "\n" THEN Back[n - 1, w] ELSE Back[n, w]

\* If the end of the file is not shown, page is behind a '\n' to be skipped.
\* The code gives up if it is not.
back_lines(n, v) ==
  IF v.end THEN [ok |-> TRUE] @@ Back[n, v]
  ELSE IF AtBegin(v) THEN [ok |-> TRUE, v |-> v, begin |-> TRUE]
  ELSE LET u == IF v.page = 0 THEN Refill(v) ELSE v
           w == [u EXCEPT !.page = @ - 1]
       IN IF contents[Position(w) + 1] = "\n" THEN [ok |-> TRUE] @@ Back[n, w]
          ELSE [ok |-> FALSE, v |-> w, begin |-> FALSE]

\* print_page(): the views before each row, and behind the last one.
Lines(v, rows) == LET f[i \in 0 .. rows] == IF i = 0 THEN v ELSE get_line(f[i - 1]) IN f

\* page_length: the rows up to the one in which the file ends.
LengthOf(f, rows) == LET ends == {i \in 1 .. rows : f[i].end}
                     IN IF ends = {} THEN rows ELSE CHOOSE i \in ends : \A j \in ends : i <= j

Page(f, rows, h) == [i \in 1 .. rows |-> <<Position(f[i - 1]), h>>]

-----------------------------------------------------------------------------
\* ASCII files; height is what height - 4 is in the code.
TextInit == /\ mode = "text" /\ pc = "open"
            /\ \E n \in 0 .. MaxFile : contents \in [1 .. n -> {"c", "\n"}]
            /\ height \in 1 .. MaxHeight
            /\ view = [fpos |-> 0, got |-> 0, page |-> 0, end |-> FALSE]
            /\ begin_reached = TRUE /\ page_length = 0 /\ scroll = 0
            /\ button = 0 /\ screen = <<>> /\ result = "none"

constant == <<mode, contents, height, button>>

\* print_page() from v on.
PrintPage(v, begin, h) ==
  LET f == Lines(v, height) IN
  /\ view' = f[height] /\ begin_reached' = begin /\ scroll' = h
  /\ page_length' = LengthOf(f, height)
  /\ screen' = Page(f, height, h)
  /\ UNCHANGED <<constant, result>>

TextOpen == /\ pc = "open" /\ pc' = "loop"
            /\ PrintPage(ReadAt(view, 0, 0), TRUE, 0)

Ends(r) == /\ Closes /\ result' = r
           /\ UNCHANGED <<constant, view, begin_reached, page_length, scroll, screen>>

\* Go back n lines and print a page.
BackAndPrint(n, h) ==
  LET b == back_lines(n, view) IN
  \/ b.ok /\ Key /\ PrintPage(b.v, b.begin, h)
  \/ ~b.ok /\ Ends("Internal error in back_lines().")

TextHome == /\ Key /\ ~begin_reached
            /\ PrintPage(IF view.fpos > view.got THEN ReadAt(view, 0, 0)
                         ELSE [view EXCEPT !.page = 0], TRUE, scroll)

TextEnd ==
  LET v == IF view.fpos < file_size THEN ReadAt(view, file_size - BUF_SIZE, 0) ELSE view
      b == back_lines(height, [v EXCEPT !.page = v.got, !.end = TRUE])
  IN Key /\ PrintPage(b.v, b.begin, scroll)

\* The first row is printed, the others are moved down and only read.
TextUp ==
  /\ ~begin_reached
  /\ LET b == back_lines(page_length + 1, view)
         f == Lines(b.v, height)
     IN \/ /\ b.ok /\ Key
           /\ view' = f[height] /\ begin_reached' = b.begin
           /\ page_length' = LengthOf(f, height)
           /\ screen' = <<<<Position(b.v), scroll>>>> \o SubSeq(screen, 1, height - 1)
           /\ UNCHANGED <<constant, scroll, result>>
        \/ ~b.ok /\ Ends("Internal error in back_lines().")

TextPageUp == ~begin_reached /\ BackAndPrint(page_length + height, scroll)

\* page_length stays.
TextDown == /\ Key /\ ~view.end
            /\ view' = get_line(view) /\ begin_reached' = FALSE
            /\ screen' = Append(Tail(screen), <<Position(view), scroll>>)
            /\ UNCHANGED <<constant, page_length, scroll, result>>

TextPageDown == Key /\ ~view.end /\ PrintPage(view, FALSE, scroll)

Sideways == \/ scroll > 0 /\ BackAndPrint(page_length, scroll - 1)
            \/ scroll > 0 /\ BackAndPrint(page_length, 0)
            \/ scroll < MaxHscroll /\ BackAndPrint(page_length, scroll + 1)

\* 'e', 'x', '\n' and ESC.
TextExit == Ends("exit")

TextNext == /\ mode = "text"
            /\ \/ TextOpen \/ TextHome \/ TextEnd \/ TextUp \/ TextPageUp
               \/ TextDown \/ TextPageDown \/ Sideways \/ TextExit

TextSpec == TextInit /\ [][TextNext]_text_vars
-----------------------------------------------------------------------------
\* The walk back through the buffer never leaves it, nor the buffer the file,
\* and never finds what the code calls an internal error.
InBuffer == mode = "text" =>
              /\ view.page \in 0 .. view.got /\ view.got <= BUF_SIZE
              /\ view.fpos \in view.got .. file_size
              /\ result \in {"none", "exit"}

\* Where the lines begin: behind every '\n', also the last one.
Starts == {0} \cup {i \in 1 .. file_size : contents[i] = "\n"}
LineOf(p) == Cardinality({i \in Starts : i < p})

\* The rows show successive lines from the first row's on, wherever the buffer
\* was cut, all of them moved sideways alike; behind the end there is nothing.
TextFaithful ==
  mode = "text" /\ pc # "open" =>
    \A i \in 1 .. height :
      LET k == LineOf(screen[1][1]) + i - 1
      IN IF k < Cardinality(Starts)
           THEN screen[i][1] \in Starts /\ LineOf(screen[i][1]) = k /\ screen[i][2] = scroll
           ELSE screen[i][1] = file_size
=============================================================================
