------------------------------ MODULE ToolProofs -----------------------------
(***************************************************************************)
(* Invariants of the programs confdialog, cmd_wrapper, bprof, fl_stparse   *)
(* and ifenslave, each by itself: that they hold at the start, that every  *)
(* step keeps them, and what they give.                                    *)
(***************************************************************************)
EXTENDS Confdialog, CmdWrapper, BashProfiler, FlStparse, Ifenslave, PkgQueueProofs,
        SequenceTheorems, FiniteSetTheorems

-----------------------------------------------------------------------------
(* The lists of confdialog.                                                *)

Sized == item_no \in Nat \ {0} /\ list_height \in Nat \ {0}

\* What the keys of a menu rely on: the window and the mark lie where they
\* should, and the rows were painted for just there.
MenuInv ==
  mode = "menu" =>
    /\ Sized /\ scrltmp \in Int
    /\ pc = "open" => choice \in Items /\ scroll = 0
    /\ pc # "closed" => result = NoItem
    /\ pc # "open" => /\ scroll \in 0 .. item_no - max_choice
                      /\ choice \in 0 .. max_choice - 1
                      /\ screen = MenuPainted(scroll, choice)
    /\ result # NoItem => result.item = scroll + choice

\* The list shows as many items as there are, or as it has lines.
LEMMA WindowFits ==
  ASSUME Sized
  PROVE  /\ max_choice \in Nat \ {0} /\ max_choice <= item_no /\ max_choice <= list_height
         /\ max_choice = item_no \/ max_choice = list_height
BY DEF Sized, max_choice, Lesser

\* The start of a menu, from confdialog.scrltmp or in the middle, is a place
\* where the current entry is in the window (menubox.c:190-215).
LEMMA MenuStart ==
  ASSUME Sized, scrltmp \in Int, choice \in Items
  PROVE  /\ StartScroll \in 0 .. item_no - max_choice
         /\ choice - StartScroll \in 0 .. max_choice - 1
<1>1. /\ max_choice \in Nat \ {0} /\ max_choice <= item_no
      /\ item_no \in Nat /\ choice \in 0 .. item_no - 1
  BY WindowFits DEF Sized, Items
<1>2. CASE Restorable
  BY <1>1, <1>2 DEF StartScroll, Restorable
<1>3. CASE ~Restorable
  <2> DEFINE half == max_choice \div 2
  <2>1. half \in Nat /\ 2 * half <= max_choice /\ max_choice <= 2 * half + 1
    BY <1>1
  <2>2. StartScroll = IF choice < half THEN 0
                      ELSE IF choice >= item_no - half THEN item_no - max_choice ELSE choice - half
    BY <1>3 DEF StartScroll
  <2> HIDE DEF half
  <2> QED
    BY <1>1, <2>1, <2>2
<1> QED
  BY <1>2, <1>3

\* A key that scrolls to s and marks row c leaves the rows painted for there:
\* those that stay are moved, and the others are painted.
LEMMA MenuMoves ==
  ASSUME MenuInv, mode = "menu", NEW s \in 0 .. item_no - max_choice,
         NEW c \in 0 .. max_choice - 1, MenuMoveTo(s, c)
  PROVE  MenuInv' /\ pc = "loop" /\ scroll' + choice' = s + c
                  /\ scroll \in 0 .. item_no - max_choice /\ choice \in 0 .. max_choice - 1
<1>1. /\ pc = "loop" /\ pc' = "loop" /\ scroll' = s /\ choice' = c
      /\ mode' = mode /\ item_no' = item_no /\ list_height' = list_height /\ scrltmp' = scrltmp
      /\ result' = result
  BY DEF MenuMoveTo, Key, args
<1>2. /\ Sized /\ scroll \in 0 .. item_no - max_choice /\ choice \in 0 .. max_choice - 1
      /\ screen = MenuPainted(scroll, choice) /\ scrltmp \in Int /\ result = NoItem
  BY <1>1 DEF MenuInv
<1>3. max_choice' = max_choice /\ max_choice \in Nat \ {0} /\ max_choice <= item_no
  BY <1>1, <1>2, WindowFits DEF max_choice, Lesser
<1>4. screen' = [r \in 0 .. max_choice - 1 |-> <<s + r, r = c>>]
  <2> DEFINE before(r) == r + (s - scroll)
             unmarked == [screen EXCEPT ![choice] = <<scroll + choice, FALSE>>]
  <2>1. unmarked = [r \in 0 .. max_choice - 1 |-> <<scroll + r, FALSE>>]
    BY <1>2 DEF MenuPainted, Rows
  <2>2. screen' = [r \in 0 .. max_choice - 1 |-> IF r = c THEN <<s + c, TRUE>>
                                   ELSE IF before(r) \in 0 .. max_choice - 1 THEN unmarked[before(r)]
                                   ELSE <<s + r, FALSE>>]
    BY DEF MenuMoveTo, Rows
  <2> HIDE DEF unmarked
  <2>3. \A r \in 0 .. max_choice - 1 : before(r) \in 0 .. max_choice - 1 =>
          unmarked[before(r)] = <<s + r, FALSE>>
    <3> SUFFICES ASSUME NEW r \in 0 .. max_choice - 1, before(r) \in 0 .. max_choice - 1
                 PROVE  unmarked[before(r)] = <<s + r, FALSE>>
      OBVIOUS
    <3>1. scroll + before(r) = s + r
      BY <1>2, <1>3 DEF Sized
    <3> HIDE DEF before
    <3> QED
      BY <2>1, <3>1
  <2> QED
    BY <2>2, <2>3
<1>5. screen' = MenuPainted(s, c)'
  BY <1>1, <1>3, <1>4 DEF MenuPainted, Rows
<1> QED
  BY <1>1, <1>2, <1>3, <1>5 DEF MenuInv, MenuPainted, Rows, Sized

\* The cursor of ListCursor that a menu is.
MenuAt == scroll + choice
Clipped(i) == IF i < 0 THEN 0 ELSE IF i >= item_no THEN item_no - 1 ELSE i

\* One step of a menu: the invariant, and what the step is to the user.
LEMMA MenuStep ==
  ASSUME MenuInv, MenuNext
  PROVE  /\ MenuInv' /\ mode' = mode /\ UNCHANGED args
         /\ \/ MenuAt' = MenuAt
            \/ \E d \in {1, -1, max_choice, -max_choice} : MenuAt' = Clipped(MenuAt + d)
            \/ \E i \in 0 .. item_no - 1 : /\ i - MenuAt < max_choice /\ MenuAt - i < max_choice
                                            /\ MenuAt' = i
<1>0. mode = "menu" /\ Sized
  BY DEF MenuNext, MenuInv
<1>1. max_choice \in Nat \ {0} /\ max_choice <= item_no /\ item_no \in Nat \ {0}
  BY <1>0, WindowFits DEF Sized
<1>2. ASSUME pc # "open"
      PROVE  scroll \in 0 .. item_no - max_choice /\ choice \in 0 .. max_choice - 1
  BY <1>0, <1>2 DEF MenuInv
<1>a. CASE MenuOpen
  <2>1. /\ mode' = mode /\ item_no' = item_no /\ list_height' = list_height /\ UNCHANGED args
        /\ result' = result /\ pc = "open" /\ pc' = "loop"
        /\ scroll' = StartScroll /\ choice' = choice - StartScroll
        /\ screen' = MenuPainted(StartScroll, choice - StartScroll)
        /\ scrltmp' \in Int
    BY <1>a, <1>0 DEF MenuOpen, args, MenuInv, NoFile
  <2>2. /\ StartScroll \in 0 .. item_no - max_choice
        /\ choice - StartScroll \in 0 .. max_choice - 1
        /\ choice \in Int /\ scroll = 0 /\ result = NoItem
    BY <1>0, <2>1, MenuStart DEF MenuInv, Items, Sized
  <2>3. max_choice' = max_choice
    BY <2>1 DEF max_choice, Lesser
  <2>4. MenuInv'
    <3> HIDE DEF StartScroll
    <3>1. screen' = MenuPainted(scroll, choice)'
      BY <2>1, <2>3 DEF MenuPainted, Rows
    <3> QED
      BY <1>0, <2>1, <2>2, <2>3, <3>1 DEF MenuInv, Sized
  <2>5. MenuAt' = MenuAt
    BY <2>1, <2>2 DEF MenuAt
  <2> QED
    BY <2>1, <2>4, <2>5
<1>b. ASSUME NEW s \in 0 .. item_no - max_choice, NEW c \in 0 .. max_choice - 1, MenuMoveTo(s, c)
      PROVE  MenuInv' /\ mode' = mode /\ UNCHANGED args /\ MenuAt' = s + c /\ pc # "open"
  BY <1>0, <1>b, MenuMoves DEF MenuMoveTo, MenuAt
<1>c. CASE MenuUp
  <2>1. pc # "open"
    BY <1>c DEF MenuUp, MenuMoveTo, Key
  <2>2. CASE choice < 2 /\ scroll > 0
    <3>1. MenuMoveTo(scroll - 1, choice) /\ scroll - 1 \in 0 .. item_no - max_choice
      BY <1>c, <1>1, <1>2, <2>1, <2>2 DEF MenuUp
    <3>2. MenuInv' /\ mode' = mode /\ UNCHANGED args /\ MenuAt' = (scroll - 1) + choice
      BY <1>2, <2>1, <1>b, <3>1
    <3>3. MenuAt' = Clipped(MenuAt + -1)
      BY <1>1, <1>2, <2>1, <2>2, <3>2 DEF Clipped, MenuAt
    <3> QED
      BY <3>2, <3>3
  <2>3. CASE ~(choice < 2 /\ scroll > 0)
    <3>1. MenuMoveTo(scroll, Greater(choice - 1, 0)) /\ Greater(choice - 1, 0) \in 0 .. max_choice - 1
      BY <1>c, <1>1, <1>2, <2>1, <2>3 DEF MenuUp, Greater
    <3>2. MenuInv' /\ mode' = mode /\ UNCHANGED args /\ MenuAt' = scroll + Greater(choice - 1, 0)
      BY <1>2, <2>1, <1>b, <3>1
    <3>3. MenuAt' = Clipped(MenuAt + -1)
      BY <1>1, <1>2, <2>1, <2>3, <3>2 DEF Clipped, MenuAt, Greater
    <3> QED
      BY <3>2, <3>3
  <2> QED
    BY <2>2, <2>3
<1>d. CASE MenuDown
  <2>1. pc # "open"
    BY <1>d DEF MenuDown, MenuMoveTo, Key
  <2>2. CASE choice > max_choice - 3 /\ scroll + max_choice < item_no
    <3>1. MenuMoveTo(scroll + 1, choice) /\ scroll + 1 \in 0 .. item_no - max_choice
      BY <1>d, <1>1, <1>2, <2>1, <2>2 DEF MenuDown
    <3>2. MenuInv' /\ mode' = mode /\ UNCHANGED args /\ MenuAt' = (scroll + 1) + choice
      BY <1>2, <2>1, <1>b, <3>1
    <3>3. MenuAt' = Clipped(MenuAt + 1)
      BY <1>1, <1>2, <2>1, <2>2, <3>2 DEF Clipped, MenuAt
    <3> QED
      BY <3>2, <3>3
  <2>3. CASE ~(choice > max_choice - 3 /\ scroll + max_choice < item_no)
    <3>1. /\ MenuMoveTo(scroll, Lesser(choice + 1, max_choice - 1))
          /\ Lesser(choice + 1, max_choice - 1) \in 0 .. max_choice - 1
      BY <1>d, <1>1, <1>2, <2>1, <2>3 DEF MenuDown, Lesser
    <3>2. /\ MenuInv' /\ mode' = mode /\ UNCHANGED args
          /\ MenuAt' = scroll + Lesser(choice + 1, max_choice - 1)
      BY <1>2, <2>1, <1>b, <3>1
    <3>3. MenuAt' = Clipped(MenuAt + 1)
      BY <1>1, <1>2, <2>1, <2>3, <3>2 DEF Clipped, MenuAt, Lesser
    <3> QED
      BY <3>2, <3>3
  <2> QED
    BY <2>2, <2>3
<1>e. CASE MenuPpage
  <2> DEFINE n == Lesser(max_choice, scroll)
             c == Greater(choice - (max_choice - n), 0)
  <2>1. pc # "open" /\ MenuMoveTo(scroll - n, c)
    BY <1>e DEF MenuPpage, MenuMoveTo, Key
  <2>2. scroll - n \in 0 .. item_no - max_choice /\ c \in 0 .. max_choice - 1
    BY <1>1, <1>2, <2>1 DEF Lesser, Greater
  <2>3. (scroll - n) + c = Clipped(MenuAt + -max_choice)
    BY <1>1, <1>2, <2>1 DEF Clipped, MenuAt, Lesser, Greater
  <2> HIDE DEF n, c
  <2>4. MenuInv' /\ mode' = mode /\ UNCHANGED args /\ MenuAt' = (scroll - n) + c
    BY <1>b, <2>1, <2>2
  <2> QED
    BY <2>3, <2>4
<1>f. CASE MenuNpage
  <2> DEFINE n == Lesser(max_choice, item_no - max_choice - scroll)
             c == Lesser(choice + (max_choice - n), max_choice - 1)
  <2>1. pc # "open" /\ MenuMoveTo(scroll + n, c)
    BY <1>f DEF MenuNpage, MenuMoveTo, Key
  <2>2. scroll + n \in 0 .. item_no - max_choice /\ c \in 0 .. max_choice - 1
    BY <1>1, <1>2, <2>1 DEF Lesser
  <2>3. (scroll + n) + c = Clipped(MenuAt + max_choice)
    BY <1>1, <1>2, <2>1 DEF Clipped, MenuAt, Lesser
  <2> HIDE DEF n, c
  <2>4. MenuInv' /\ mode' = mode /\ UNCHANGED args /\ MenuAt' = (scroll + n) + c
    BY <1>b, <2>1, <2>2
  <2> QED
    BY <2>3, <2>4
<1>g. ASSUME NEW key \in Letter, MenuHotKey(key)
      PROVE  /\ MenuInv' /\ mode' = mode /\ UNCHANGED args
             /\ \E i \in 0 .. item_no - 1 : /\ i - MenuAt < max_choice /\ MenuAt - i < max_choice
                                            /\ MenuAt' = i
  <2>1. PICK r \in 0 .. max_choice - 1 : MenuMoveTo(scroll, r)
    BY <1>g DEF MenuHotKey, Below, Matches, Rows
  <2>2. pc # "open"
    BY <2>1 DEF MenuMoveTo, Key
  <2>3. MenuInv' /\ mode' = mode /\ UNCHANGED args /\ MenuAt' = scroll + r
    BY <1>b, <1>2, <2>1, <2>2
  <2>4. /\ scroll + r \in 0 .. item_no - 1
        /\ (scroll + r) - MenuAt < max_choice /\ MenuAt - (scroll + r) < max_choice
    BY <1>1, <1>2, <2>2 DEF MenuAt
  <2> QED
    BY <2>3, <2>4
<1>h. ASSUME UNCHANGED <<mode, args, scroll, choice, screen>>, scrltmp' \in Int,
             pc = "loop", pc' \in {"loop", "closed"},
             \/ result' = result
             \/ pc' = "closed" /\ result'.item = scroll + choice
      PROVE  MenuInv' /\ mode' = mode /\ UNCHANGED args /\ MenuAt' = MenuAt
  <2>1. /\ item_no' = item_no /\ list_height' = list_height /\ scroll' = scroll /\ choice' = choice
        /\ max_choice' = max_choice /\ screen' = screen /\ mode' = mode
    BY <1>h DEF args, max_choice, Lesser
  <2>2. MenuPainted(scroll, choice)' = MenuPainted(scroll, choice)
    BY <2>1 DEF MenuPainted, Rows
  <2> QED
    BY <1>0, <1>2, <1>h, <2>1, <2>2 DEF MenuInv, Sized, MenuAt
<1>i. ASSUME NEW d \in {1, -1}, MenuButton(d)
      PROVE  MenuInv' /\ mode' = mode /\ UNCHANGED args /\ MenuAt' = MenuAt
  <2>1. /\ UNCHANGED <<mode, args, scroll, choice, screen>> /\ scrltmp' \in Int
        /\ pc = "loop" /\ pc' = "loop" /\ result' = result
    BY <1>i, <1>0 DEF MenuButton, Key, MenuInv
  <2> QED
    BY <2>1, <1>h
<1>j. ASSUME NEW b, MenuReturn(b)
      PROVE  MenuInv' /\ mode' = mode /\ UNCHANGED args /\ MenuAt' = MenuAt
  <2>1. /\ UNCHANGED <<mode, args, scroll, choice, screen>> /\ scrltmp' \in Int
        /\ pc = "loop" /\ pc' = "closed" /\ result'.item = scroll + choice
    BY <1>j DEF MenuReturn, Closes, NoFile
  <2> QED
    BY <2>1, <1>h
<1>k. CASE MenuEscape
  <2>1. /\ UNCHANGED <<mode, args, scroll, choice, screen>> /\ scrltmp' \in Int
        /\ pc = "loop" /\ pc' = "closed" /\ result' = result
    BY <1>k DEF MenuEscape, Closes, NoFile
  <2> QED
    BY <2>1, <1>h
<1> QED
  <2>1. \/ MenuOpen \/ MenuUp \/ MenuDown \/ MenuPpage \/ MenuNpage
        \/ \E key \in Letter : MenuHotKey(key)
        \/ \E d \in {1, -1} : MenuButton(d)
        \/ \E b : MenuReturn(b)
        \/ MenuEscape
    BY DEF MenuNext
  <2> QED
    BY <2>1, <1>a, <1>c, <1>d, <1>e, <1>f, <1>g, <1>i, <1>j, <1>k

-----------------------------------------------------------------------------
\* The same of a check list or a radio list, of which the arrows are drawn
\* only when it scrolls.
CheckInv ==
  mode \in {"check", "radio"} =>
    /\ Sized /\ status \in [Items -> BOOLEAN]
    /\ pc # "closed" => result = NoEntries
    /\ pc # "open" => /\ scroll \in 0 .. item_no - max_choice
                      /\ choice \in 0 .. max_choice - 1
                      /\ screen = CheckPainted(scroll, choice, status)
                      /\ arrows = <<scroll > 0, scroll + max_choice < item_no>>
    /\ mode = "radio" /\ result # NoEntries => result = {scroll + choice}

\* The item a list starts with is one of its items.
LEMMA FirstOnInList ==
  ASSUME Sized
  PROVE  FirstOn \in 0 .. item_no - 1
<1> DEFINE later == On \ {0}
<1>1. later \subseteq Nat /\ later \subseteq 0 .. item_no - 1
  BY DEF On, Items, Sized
<1>2. FirstOn = IF later = {} THEN 0 ELSE CHOOSE i \in later : \A j \in later : i <= j
  BY DEF FirstOn
<1> HIDE DEF later
<1>3. CASE later = {}
  BY <1>2, <1>3 DEF Sized
<1>4. CASE later # {}
  <2>1. \E i \in later : \A j \in later : i <= j
    BY <1>1, <1>4, LeastNumber
  <2> QED
    BY <1>1, <1>2, <1>4, <2>1
<1> QED
  BY <1>3, <1>4

\* The selected entry: the one to be marked, until the list is drawn.
CheckAt == IF pc = "open" THEN FirstOn ELSE scroll + choice

\* One step of a check list: the invariant, and what the step is to the user.
LEMMA CheckStep ==
  ASSUME CheckInv, CheckNext
  PROVE  /\ CheckInv' /\ mode' = mode /\ UNCHANGED args
         /\ \/ CheckAt' = CheckAt
            \/ \E d \in {1, -1, max_choice, -max_choice} : CheckAt' = Clipped(CheckAt + d)
            \/ \E i \in 0 .. item_no - 1 : /\ i - CheckAt < max_choice /\ CheckAt - i < max_choice
                                            /\ CheckAt' = i
<1>0. mode \in {"check", "radio"} /\ Sized /\ status \in [Items -> BOOLEAN]
  BY DEF CheckNext, CheckInv
<1>1. /\ max_choice \in Nat \ {0} /\ max_choice <= item_no /\ item_no \in Nat \ {0}
      /\ list_height \in Nat /\ max_choice <= list_height
      /\ max_choice = item_no \/ max_choice = list_height
  BY <1>0, WindowFits DEF Sized
<1>2. ASSUME pc # "open"
      PROVE  /\ scroll \in 0 .. item_no - max_choice /\ choice \in 0 .. max_choice - 1
             /\ screen = CheckPainted(scroll, choice, status)
             /\ arrows = <<scroll > 0, scroll + max_choice < item_no>>
  BY <1>0, <1>2 DEF CheckInv
<1>3. ASSUME UNCHANGED args
      PROVE  /\ item_no' = item_no /\ list_height' = list_height /\ max_choice' = max_choice
             /\ Items' = Items /\ Rows' = Rows
  BY <1>3 DEF args, max_choice, Lesser, Items, Rows
<1>a. CASE CheckOpen
  <2>1. /\ mode' = mode /\ UNCHANGED args /\ result' = result /\ pc = "open" /\ pc' = "loop"
        /\ scroll' = (IF FirstOn >= list_height THEN FirstOn - list_height + 1 ELSE 0)
        /\ choice' = FirstOn - scroll'
        /\ screen' = CheckPainted(scroll', choice', status)
        /\ arrows' = print_arrows(scroll', choice')
        /\ status' = status
    BY <1>a DEF CheckOpen
  <2>2. FirstOn \in 0 .. item_no - 1
    BY <1>0, FirstOnInList
  <2>3. /\ scroll' \in 0 .. item_no - max_choice /\ choice' \in 0 .. max_choice - 1
        /\ scroll' + choice' = FirstOn
    BY <1>1, <2>1, <2>2
  <2>4. arrows' = <<scroll' > 0, scroll' + max_choice < item_no>>
    BY <1>1, <2>1, <2>2 DEF print_arrows
  <2>5. screen' = CheckPainted(scroll, choice, status)'
    BY <1>3, <2>1 DEF CheckPainted, Row
  <2>6. result' = NoEntries
    BY <1>0, <2>1 DEF CheckInv
  <2>7. CheckInv'
    BY <1>0, <1>3, <2>1, <2>3, <2>4, <2>5, <2>6 DEF CheckInv, Sized
  <2>8. CheckAt' = CheckAt
    BY <2>1, <2>3 DEF CheckAt
  <2> QED
    BY <2>1, <2>7, <2>8
<1>b. ASSUME NEW c \in 0 .. max_choice - 1, MarkRow(c)
      PROVE  CheckInv' /\ mode' = mode /\ UNCHANGED args /\ pc = "loop" /\ CheckAt' = scroll + c
  <2>1. /\ mode' = mode /\ UNCHANGED args /\ result' = result /\ pc = "loop" /\ pc' = "loop"
        /\ scroll' = scroll /\ choice' = c /\ arrows' = arrows /\ status' = status
        /\ screen' = [screen EXCEPT ![choice] = Row(scroll, status, choice, c),
                                    ![c] = Row(scroll, status, c, c)]
    BY <1>b DEF MarkRow, Key, unscrolled
  <2>2. /\ scroll \in 0 .. item_no - max_choice /\ choice \in 0 .. max_choice - 1
        /\ screen = CheckPainted(scroll, choice, status)
        /\ arrows = <<scroll > 0, scroll + max_choice < item_no>> /\ result = NoEntries
    BY <1>0, <1>2, <2>1 DEF CheckInv
  <2>3. screen' = CheckPainted(scroll, c, status)
    <3>1. \A r \in Rows : r \notin {choice, c} => Row(scroll, status, r, choice) = Row(scroll, status, r, c)
      BY DEF Row
    <3> QED
      BY <2>1, <2>2, <3>1 DEF CheckPainted, Rows
  <2>4. screen' = CheckPainted(scroll, choice, status)'
    BY <1>3, <2>1, <2>3 DEF CheckPainted, Row
  <2>5. CheckInv'
    BY <1>0, <1>3, <2>1, <2>2, <2>4 DEF CheckInv, Sized
  <2> QED
    BY <2>1, <2>5 DEF CheckAt
<1>c. ASSUME NEW d \in {1, -1}, ScrollBy(d), d = 1 => choice = max_choice - 1, d = -1 => choice = 0,
             scroll + d \in 0 .. item_no - max_choice
      PROVE  CheckInv' /\ mode' = mode /\ UNCHANGED args /\ pc = "loop" /\ CheckAt' = scroll + d + choice
  <2>1. /\ mode' = mode /\ UNCHANGED args /\ result' = result /\ pc = "loop" /\ pc' = "loop"
        /\ scroll' = scroll + d /\ choice' = choice /\ status' = status
        /\ arrows' = print_arrows(scroll', choice)
        /\ screen' = [r \in Rows |-> IF r = choice THEN Row(scroll', status, r, r)
                          ELSE [screen EXCEPT ![choice] = Row(scroll, status, choice, -1)][r + d]]
    BY <1>c DEF ScrollBy, Key, unscrolled
  <2>2. /\ scroll \in 0 .. item_no - max_choice /\ choice \in 0 .. max_choice - 1
        /\ screen = CheckPainted(scroll, choice, status)
        /\ result = NoEntries
    BY <1>0, <1>2, <2>1 DEF CheckInv
  <2>3. screen' = CheckPainted(scroll', choice, status)
    <3> DEFINE unmarked == [screen EXCEPT ![choice] = Row(scroll, status, choice, -1)]
    <3>1. unmarked = [r \in Rows |-> <<scroll + r, status[scroll + r], FALSE>>]
      <4>1. Row(scroll, status, choice, -1) = <<scroll + choice, status[scroll + choice], FALSE>>
        <5>1. (choice = -1) = FALSE
          BY <1>1, <2>2
        <5> QED
          BY <5>1 DEF Row
      <4>2. \A r \in Rows : r # choice =>
              Row(scroll, status, r, choice) = <<scroll + r, status[scroll + r], FALSE>>
        BY DEF Row
      <4> QED
        BY <2>2, <4>1, <4>2 DEF CheckPainted
    <3>2. screen' = [r \in Rows |-> IF r = choice THEN Row(scroll', status, r, r) ELSE unmarked[r + d]]
      BY <2>1
    <3> HIDE DEF unmarked
    <3>3. ASSUME NEW r \in Rows, r # choice
          PROVE  unmarked[r + d] = Row(scroll', status, r, choice)
      <4>1. r + d \in Rows /\ scroll + (r + d) = (scroll + d) + r
        BY <1>1, <1>c, <2>2, <3>3 DEF Rows
      <4>2. unmarked[r + d] = <<(scroll + d) + r, status[(scroll + d) + r], FALSE>>
        BY <3>1, <4>1
      <4> QED
        BY <2>1, <3>3, <4>2 DEF Row
    <3>4. ASSUME NEW r \in Rows, r = choice
          PROVE  Row(scroll', status, r, r) = Row(scroll', status, r, choice)
      BY <3>4
    <3> QED
      BY <3>2, <3>3, <3>4 DEF CheckPainted
  <2>4. screen' = CheckPainted(scroll, choice, status)'
    BY <1>3, <2>1, <2>3 DEF CheckPainted, Row
  <2>5. arrows' = <<scroll' > 0, scroll' + max_choice < item_no>>
    BY <1>1, <1>c, <2>1, <2>2 DEF print_arrows
  <2>6. CheckInv'
    BY <1>0, <1>3, <1>c, <2>1, <2>2, <2>4, <2>5 DEF CheckInv, Sized
  <2> QED
    BY <2>1, <2>6 DEF CheckAt
<1>d. CASE CheckUp
  <2>1. pc # "open" /\ pc = "loop"
    BY <1>d DEF CheckUp, MarkRow, ScrollBy, Key
  <2>2. CASE choice > 0 /\ MarkRow(choice - 1)
    <3>1. choice - 1 \in 0 .. max_choice - 1
      BY <1>1, <1>2, <2>1, <2>2
    <3>2. CheckInv' /\ mode' = mode /\ UNCHANGED args /\ CheckAt' = scroll + (choice - 1)
      BY <1>b, <2>2, <3>1
    <3>3. CheckAt' = Clipped(CheckAt + -1)
      BY <1>1, <1>2, <2>1, <2>2, <3>2 DEF Clipped, CheckAt
    <3> QED
      BY <3>2, <3>3
  <2>3. CASE choice = 0 /\ scroll > 0 /\ ScrollBy(-1)
    <3>1. scroll + -1 \in 0 .. item_no - max_choice
      BY <1>1, <1>2, <2>1, <2>3
    <3>2. CheckInv' /\ mode' = mode /\ UNCHANGED args /\ CheckAt' = scroll + -1 + choice
      BY <1>c, <2>3, <3>1
    <3>3. CheckAt' = Clipped(CheckAt + -1)
      BY <1>1, <1>2, <2>1, <2>3, <3>2 DEF Clipped, CheckAt
    <3> QED
      BY <3>2, <3>3
  <2> QED
    BY <1>d, <2>2, <2>3 DEF CheckUp
<1>e. CASE CheckDown
  <2>1. pc # "open" /\ pc = "loop"
    BY <1>e DEF CheckDown, MarkRow, ScrollBy, Key
  <2>2. CASE choice < max_choice - 1 /\ MarkRow(choice + 1)
    <3>1. choice + 1 \in 0 .. max_choice - 1
      BY <1>1, <1>2, <2>1, <2>2
    <3>2. CheckInv' /\ mode' = mode /\ UNCHANGED args /\ CheckAt' = scroll + (choice + 1)
      BY <1>b, <2>2, <3>1
    <3>3. CheckAt' = Clipped(CheckAt + 1)
      BY <1>1, <1>2, <2>1, <2>2, <3>2 DEF Clipped, CheckAt
    <3> QED
      BY <3>2, <3>3
  <2>3. CASE /\ choice = max_choice - 1 /\ scroll + choice < item_no - 1
             /\ ScrollBy(1)
    <3>1. scroll + 1 \in 0 .. item_no - max_choice
      BY <1>1, <1>2, <2>1, <2>3
    <3>2. CheckInv' /\ mode' = mode /\ UNCHANGED args /\ CheckAt' = scroll + 1 + choice
      BY <1>c, <2>3, <3>1
    <3>3. CheckAt' = Clipped(CheckAt + 1)
      BY <1>1, <1>2, <2>1, <2>3, <3>2 DEF Clipped, CheckAt
    <3> QED
      BY <3>2, <3>3
  <2> QED
    BY <1>e, <2>2, <2>3 DEF CheckDown
<1>f. ASSUME NEW key \in Letter, CheckHotKey(key)
      PROVE  /\ CheckInv' /\ mode' = mode /\ UNCHANGED args
             /\ \E i \in 0 .. item_no - 1 : /\ i - CheckAt < max_choice /\ CheckAt - i < max_choice
                                            /\ CheckAt' = i
  <2>1. PICK r \in 0 .. max_choice - 1 : MarkRow(r)
    BY <1>f DEF CheckHotKey, Matches, Rows
  <2>2. /\ CheckInv' /\ mode' = mode /\ UNCHANGED args /\ CheckAt' = scroll + r
        /\ pc = "loop" /\ pc # "open"
    BY <1>b, <2>1
  <2>3. /\ scroll + r \in 0 .. item_no - 1
        /\ (scroll + r) - CheckAt < max_choice /\ CheckAt - (scroll + r) < max_choice
    BY <1>1, <1>2, <2>2 DEF CheckAt
  <2> QED
    BY <2>2, <2>3
<1>g. CASE CheckSelect
  <2>1. /\ mode' = mode /\ UNCHANGED args /\ pc = "loop" /\ pc' = "closed"
        /\ scroll' = scroll /\ choice' = choice /\ arrows' = arrows
        /\ status' = Toggled /\ result' = {i \in Items : Toggled[i]}
        /\ screen' = IF mode = "check"
                       THEN [screen EXCEPT ![choice] = Row(scroll, Toggled, choice, choice)]
                       ELSE CheckPainted(scroll, choice, Toggled)
    BY <1>g DEF CheckSelect, Closes
  <2>2. /\ scroll \in 0 .. item_no - max_choice /\ choice \in 0 .. max_choice - 1
        /\ screen = CheckPainted(scroll, choice, status)
        /\ arrows = <<scroll > 0, scroll + max_choice < item_no>>
    BY <1>2, <2>1
  <2>3. scroll + choice \in Items
    BY <1>1, <2>2 DEF Items
  <2>4. CASE mode = "check"
    <3>1. Toggled = [status EXCEPT ![scroll + choice] = ~status[scroll + choice]]
      BY <2>4 DEF Toggled
    <3>2. Toggled \in [Items -> BOOLEAN]
          /\ \A r \in Rows : r # choice => Toggled[scroll + r] = status[scroll + r]
      <4>1. \A r \in Rows : scroll + r \in Items /\ (r # choice => scroll + r # scroll + choice)
        BY <1>1, <2>2 DEF Items, Rows
      <4> QED
        BY <1>0, <2>3, <3>1, <4>1
    <3> HIDE DEF Toggled
    <3>3. screen' = CheckPainted(scroll, choice, Toggled)
      BY <2>1, <2>2, <2>4, <3>2 DEF CheckPainted, Row, Rows
    <3>4. screen' = CheckPainted(scroll, choice, status)'
      BY <1>3, <2>1, <3>3 DEF CheckPainted, Row
    <3>5. CheckInv'
      BY <1>0, <1>3, <2>1, <2>2, <2>4, <3>2, <3>4 DEF CheckInv, Sized
    <3> QED
      BY <2>1, <3>5 DEF CheckAt
  <2>5. CASE mode = "radio"
    <3>1. Toggled = [j \in Items |-> j = scroll + choice]
      BY <2>5 DEF Toggled
    <3>2. Toggled \in [Items -> BOOLEAN] /\ result' = {scroll + choice}
      BY <2>1, <2>3, <3>1
    <3> HIDE DEF Toggled
    <3>3. screen' = CheckPainted(scroll, choice, Toggled)
      BY <2>1, <2>5
    <3>4. screen' = CheckPainted(scroll, choice, status)'
      BY <1>3, <2>1, <3>3 DEF CheckPainted, Row
    <3>5. CheckInv'
      BY <1>0, <1>3, <2>1, <2>2, <2>5, <3>2, <3>4 DEF CheckInv, Sized
    <3> QED
      BY <2>1, <3>5 DEF CheckAt
  <2> QED
    BY <1>0, <2>4, <2>5
<1>h. CASE CheckLeave
  <2>1. /\ mode' = mode /\ UNCHANGED args /\ pc = "loop" /\ pc' = "closed" /\ result' = result
        /\ scroll' = scroll /\ choice' = choice /\ arrows' = arrows /\ status' = status
        /\ screen' = screen
    BY <1>h DEF CheckLeave, Closes, unscrolled
  <2>2. CheckPainted(scroll, choice, status)' = CheckPainted(scroll, choice, status)
    BY <1>3, <2>1 DEF CheckPainted, Row
  <2>3. CheckInv'
    BY <1>0, <1>2, <1>3, <2>1, <2>2 DEF CheckInv, Sized
  <2> QED
    BY <2>1, <2>3 DEF CheckAt
<1> QED
  BY <1>a, <1>d, <1>e, <1>f, <1>g, <1>h DEF CheckNext

-----------------------------------------------------------------------------
\* The field of an input box: the buffer is empty from its end on, where the
\* cursor is, and each cell shows its byte.
InputInv ==
  mode = "input" =>
    /\ box_width \in Nat \ {0, 1} /\ instr \in [0 .. MAX_LEN -> Char \cup {NUL}]
    /\ pc = "open" => \E n \in 0 .. MAX_LEN : \A i \in 0 .. MAX_LEN : instr[i] = NUL <=> i >= n
    /\ pc # "open" => /\ scroll \in Nat /\ input_x \in 0 .. box_width - 1
                      /\ scroll + input_x <= MAX_LEN
                      /\ \A i \in 0 .. MAX_LEN : instr[i] = NUL <=> i >= scroll + input_x
                      /\ screen = [i \in Cells |-> Shown(instr, scroll, i)]

\* The string ends at its first NUL.
LEMMA LengthIs ==
  ASSUME NEW s, NEW n \in 0 .. MAX_LEN, \A i \in 0 .. MAX_LEN : s[i] = NUL <=> i >= n
  PROVE  Length(s) = n
<1>1. MAX_LEN \in Nat
  BY InputboxAssumption
<1> DEFINE P(k) == s[k] = NUL /\ \A j \in 0 .. k - 1 : s[j] # NUL
<1>2. P(n)
  BY <1>1
<1>3. ASSUME NEW k \in 0 .. MAX_LEN, P(k) PROVE k = n
  <2>1. ~(n < k)
    BY <1>1, <1>3, n < k => n \in 0 .. k - 1
  <2>2. k >= n
    BY <1>3
  <2> QED
    BY <1>1, <2>1, <2>2
<1>4. Length(s) = CHOOSE k \in 0 .. MAX_LEN : P(k)
  BY DEF Length
<1> HIDE DEF P
<1> QED
  BY <1>2, <1>3, <1>4

\* Every key keeps the input box's invariant.
LEMMA InputStep ==
  ASSUME InputInv, InputNext
  PROVE  InputInv' /\ mode' = mode
<1>0. /\ mode = "input" /\ box_width \in Nat \ {0, 1} /\ instr \in [0 .. MAX_LEN -> Char \cup {NUL}]
      /\ MAX_LEN \in Nat \ {0} /\ NUL \notin Char
  BY InputboxAssumption DEF InputNext, InputInv
<1>1. ASSUME pc # "open"
      PROVE  /\ scroll \in Nat /\ input_x \in 0 .. box_width - 1 /\ scroll + input_x <= MAX_LEN
             /\ \A i \in 0 .. MAX_LEN : instr[i] = NUL <=> i >= scroll + input_x
             /\ screen = [i \in Cells |-> Shown(instr, scroll, i)]
  BY <1>0, <1>1 DEF InputInv
<1>2. ASSUME mode' = mode, pc' # "open", box_width' = box_width,
             instr' \in [0 .. MAX_LEN -> Char \cup {NUL}], scroll' \in Nat,
             input_x' \in 0 .. box_width - 1, scroll' + input_x' <= MAX_LEN,
             \A i \in 0 .. MAX_LEN : instr'[i] = NUL <=> i >= scroll' + input_x',
             screen' = [i \in Cells |-> Shown(instr', scroll', i)]
      PROVE  InputInv' /\ mode' = mode
  <2>1. screen' = [i \in Cells |-> Shown(instr, scroll, i)]'
    BY <1>2 DEF Cells, Shown
  <2> QED
    BY <1>0, <1>2, <2>1 DEF InputInv
<1>a. CASE InputOpen
  <2> DEFINE n == Length(instr)
  <2>1. /\ pc = "open" /\ pc' = "loop" /\ mode' = mode /\ box_width' = box_width /\ instr' = instr
        /\ scroll' = Greater(n - box_width + 1, 0) /\ input_x' = n - scroll'
        /\ screen' = [i \in Cells |-> IF i < input_x' THEN instr[scroll' + i] ELSE Blank]
    BY <1>a DEF InputOpen
  <2>2. n \in 0 .. MAX_LEN /\ \A i \in 0 .. MAX_LEN : instr[i] = NUL <=> i >= n
    BY <1>0, <2>1, LengthIs DEF InputInv
  <2> HIDE DEF n
  <2>n. n \in Nat /\ n <= MAX_LEN /\ MAX_LEN \in Nat
    BY <1>0, <2>2
  <2>3. /\ scroll' \in Nat /\ input_x' \in 0 .. box_width - 1 /\ scroll' + input_x' = n
    BY <1>0, <2>1, <2>n DEF Greater
  <2>4. screen' = [i \in Cells |-> Shown(instr, scroll', i)]
    <3>1. ASSUME NEW i \in 0 .. box_width - 1
          PROVE  (IF i < input_x' THEN instr[scroll' + i] ELSE Blank) = Shown(instr, scroll', i)
      <4> DEFINE x == input_x'
                 s == scroll'
      <4>0. i \in Nat /\ x \in Nat /\ s \in Nat /\ s + x = n
        BY <1>0, <2>3
      <4>1. CASE i < x
        <5>1. s + i <= MAX_LEN
          <6> HIDE DEF x, s
          <6> QED
            BY <2>n, <4>0, <4>1
        <5> QED
          BY <4>1, <5>1 DEF Shown
      <4>2. CASE ~(i < x)
        <5>1. s + i <= MAX_LEN => s + i \in 0 .. MAX_LEN /\ s + i >= n
          <6> HIDE DEF x, s
          <6> QED
            BY <2>n, <4>0, <4>2
        <5> QED
          BY <2>2, <4>2, <5>1 DEF Shown, Blank
      <4> QED
        BY <4>1, <4>2
    <3> QED
      BY <2>1, <3>1 DEF Cells
  <2>5. \A i \in 0 .. MAX_LEN : instr'[i] = NUL <=> i >= scroll' + input_x'
    BY <2>1, <2>2, <2>3
  <2>6. scroll' + input_x' <= MAX_LEN
    BY <2>n, <2>3
  <2> QED
    BY <1>0, <1>2, <2>1, <2>3, <2>4, <2>5, <2>6
<1>b. ASSUME NEW c \in Char, Type(c) PROVE InputInv' /\ mode' = mode
  <2>1. /\ pc = "loop" /\ pc' = "loop" /\ mode' = mode /\ box_width' = box_width
        /\ scroll + input_x < MAX_LEN
        /\ instr' = [instr EXCEPT ![scroll + input_x] = c, ![scroll + input_x + 1] = NUL]
    BY <1>b DEF Type, Editing, Key, unedited
  <2>2. /\ scroll \in Nat /\ input_x \in 0 .. box_width - 1 /\ scroll + input_x <= MAX_LEN
        /\ \A i \in 0 .. MAX_LEN : instr[i] = NUL <=> i >= scroll + input_x
        /\ screen = [i \in Cells |-> Shown(instr, scroll, i)]
    BY <1>1, <2>1
  <2>3. /\ instr' \in [0 .. MAX_LEN -> Char \cup {NUL}]
        /\ \A i \in 0 .. MAX_LEN : i < scroll + input_x => instr'[i] = instr[i]
        /\ instr'[scroll + input_x] = c /\ instr'[scroll + input_x + 1] = NUL
        /\ \A i \in 0 .. MAX_LEN : i > scroll + input_x + 1 => instr'[i] = instr[i]
    BY <1>0, <2>1, <2>2
  <2>4. \A i \in 0 .. MAX_LEN : instr'[i] = NUL <=> i >= scroll + input_x + 1
    <3> SUFFICES ASSUME NEW i \in 0 .. MAX_LEN
                 PROVE  instr'[i] = NUL <=> i >= scroll + input_x + 1
      OBVIOUS
    <3>1. \/ i < scroll + input_x \/ i = scroll + input_x \/ i = scroll + input_x + 1
          \/ i > scroll + input_x + 1
      BY <1>0, <2>2
    <3> QED
      BY <1>0, <2>2, <2>3, <3>1
  <2>5. CASE /\ input_x = box_width - 1
             /\ scroll' = scroll + 1 /\ UNCHANGED input_x
             /\ screen' = [i \in Cells |-> IF i = input_x THEN screen[i] ELSE instr'[scroll' + i]]
    <3>1. ASSUME NEW i \in Cells
          PROVE  (IF i = input_x THEN screen[i] ELSE instr'[scroll' + i]) = Shown(instr', scroll', i)
      <4>1. i \in 0 .. box_width - 1 /\ (scroll + 1) + i <= MAX_LEN
        BY <1>0, <2>1, <2>2, <2>5 DEF Cells
      <4>2. Shown(instr', scroll', i) = instr'[scroll' + i]
        BY <2>5, <4>1 DEF Shown
      <4>3. CASE i = input_x
        <5>1. screen[i] = NUL
          <6>1. scroll + i \in 0 .. MAX_LEN /\ screen[i] = instr[scroll + i]
            BY <1>0, <2>2, <4>1, <4>3 DEF Shown
          <6> QED
            BY <1>0, <2>2, <4>3, <6>1
        <5>2. instr'[scroll' + i] = NUL
          <6>1. scroll' + i = scroll + input_x + 1
            BY <1>0, <2>2, <2>5, <4>3
          <6> QED
            BY <2>3, <6>1
        <5> QED
          BY <4>2, <4>3, <5>1, <5>2
      <4> QED
        BY <4>2, <4>3
    <3>2. screen' = [i \in Cells |-> Shown(instr', scroll', i)]
      BY <2>5, <3>1
    <3>3. scroll' \in Nat /\ scroll' + input_x' = scroll + input_x + 1
      BY <1>0, <2>2, <2>5
    <3>4. scroll' + input_x' <= MAX_LEN
      <4>1. scroll + input_x + 1 <= MAX_LEN
        BY <1>0, <2>1, <2>2
      <4> QED
        BY <3>3, <4>1
    <3>5. \A i \in 0 .. MAX_LEN : instr'[i] = NUL <=> i >= scroll' + input_x'
      BY <2>4, <3>3
    <3> QED
      BY <1>2, <2>1, <2>2, <2>3, <2>5, <3>2, <3>3, <3>4, <3>5
  <2>6. CASE /\ input_x < box_width - 1
             /\ input_x' = input_x + 1 /\ UNCHANGED scroll
             /\ screen' = [screen EXCEPT ![input_x] = c]
    <3>1. ASSUME NEW i \in Cells
          PROVE  screen'[i] = Shown(instr', scroll, i)
      <4>1. CASE i = input_x
        BY <1>0, <2>1, <2>2, <2>3, <2>6, <4>1 DEF Shown, Cells
      <4>2. CASE i # input_x
        <5>1. screen'[i] = Shown(instr, scroll, i)
          BY <2>2, <2>6, <4>2
        <5>2. ASSUME scroll + i <= MAX_LEN PROVE instr'[scroll + i] = instr[scroll + i]
          <6>1. scroll + i \in 0 .. MAX_LEN
            BY <1>0, <2>2, <5>2 DEF Cells
          <6>2. CASE scroll + i < scroll + input_x
            BY <2>3, <6>1, <6>2
          <6>3. CASE scroll + i = scroll + input_x + 1
            BY <1>0, <2>2, <2>3, <6>1, <6>3
          <6>4. CASE scroll + i > scroll + input_x + 1
            BY <2>3, <6>1, <6>4
          <6> QED
            BY <1>0, <2>2, <4>2, <6>1, <6>2, <6>3, <6>4 DEF Cells
        <5> QED
          BY <5>1, <5>2 DEF Shown
      <4> QED
        BY <4>1, <4>2
    <3>2. screen' = [i \in Cells |-> Shown(instr', scroll, i)]
      <4>1. screen' = [i \in Cells |-> screen'[i]]
        BY <2>2, <2>6
      <4> QED
        BY <3>1, <4>1
    <3>3. input_x' \in 0 .. box_width - 1 /\ scroll' \in Nat /\ scroll' + input_x' = scroll + input_x + 1
      BY <1>0, <2>2, <2>6
    <3>4. scroll' + input_x' <= MAX_LEN
      <4>1. scroll + input_x + 1 <= MAX_LEN
        BY <1>0, <2>1, <2>2
      <4> QED
        BY <3>3, <4>1
    <3>5. \A i \in 0 .. MAX_LEN : instr'[i] = NUL <=> i >= scroll' + input_x'
      BY <2>4, <3>3
    <3>6. screen' = [i \in Cells |-> Shown(instr', scroll', i)]
      BY <2>6, <3>2
    <3> QED
      BY <1>2, <2>1, <2>3, <3>3, <3>4, <3>5, <3>6
  <2> QED
    BY <1>b, <2>5, <2>6 DEF Type
<1>c. CASE Backspace
  <2>1. /\ pc = "loop" /\ pc' = "loop" /\ mode' = mode /\ box_width' = box_width
        /\ instr' = [instr EXCEPT ![scroll' + input_x'] = NUL]
    BY <1>c DEF Backspace, Editing, Key, unedited
  <2>2. /\ scroll \in Nat /\ input_x \in 0 .. box_width - 1 /\ scroll + input_x <= MAX_LEN
        /\ \A i \in 0 .. MAX_LEN : instr[i] = NUL <=> i >= scroll + input_x
        /\ screen = [i \in Cells |-> Shown(instr, scroll, i)]
    BY <1>1, <2>1
  <2>3. CASE /\ input_x = 0 /\ scroll > 0
             /\ scroll' = Greater(scroll - (box_width - 1), 0)
             /\ input_x' = Length(instr) - scroll'
             /\ screen' = [i \in Cells |-> IF i = input_x' THEN Blank ELSE Shown(instr, scroll', i)]
    <3>1. Length(instr) = scroll
      BY <1>0, <2>2, <2>3, LengthIs
    <3>2. /\ scroll' \in Nat /\ input_x' \in 0 .. box_width - 1 /\ scroll' + input_x' = scroll
      BY <1>0, <2>2, <2>3, <3>1 DEF Greater
    <3>3. instr' = instr
      BY <1>0, <2>1, <2>2, <2>3, <3>2
    <3>4. screen' = [i \in Cells |-> Shown(instr, scroll', i)]
      <4>1. Shown(instr, scroll', input_x') = Blank
        BY <1>0, <2>2, <2>3, <3>2 DEF Shown, Blank
      <4> QED
        BY <2>3, <4>1
    <3>5. \A i \in 0 .. MAX_LEN : instr'[i] = NUL <=> i >= scroll' + input_x'
      <4>1. scroll + input_x = scroll' + input_x'
        BY <1>0, <2>2, <2>3, <3>2
      <4> QED
        BY <2>2, <3>3, <4>1
    <3>6. scroll' + input_x' <= MAX_LEN /\ screen' = [i \in Cells |-> Shown(instr', scroll', i)]
      BY <1>0, <2>2, <2>3, <3>2, <3>3, <3>4
    <3> QED
      BY <1>0, <1>2, <2>1, <3>2, <3>3, <3>5, <3>6
  <2>4. CASE /\ input_x > 0
             /\ input_x' = input_x - 1 /\ UNCHANGED scroll
             /\ screen' = [screen EXCEPT ![input_x'] = Blank]
    <3> DEFINE x == input_x - 1
    <3>1. /\ x \in 0 .. box_width - 1 /\ scroll + x \in 0 .. MAX_LEN
          /\ instr' = [instr EXCEPT ![scroll + x] = NUL] /\ screen' = [screen EXCEPT ![x] = Blank]
          /\ scroll + x = (scroll + input_x) - 1
      BY <1>0, <2>1, <2>2, <2>4
    <3> HIDE DEF x
    <3>2. instr' \in [0 .. MAX_LEN -> Char \cup {NUL}]
      BY <1>0, <3>1
    <3>3. \A i \in 0 .. MAX_LEN : instr'[i] = NUL <=> i >= scroll + x
      <4> SUFFICES ASSUME NEW i \in 0 .. MAX_LEN PROVE instr'[i] = NUL <=> i >= scroll + x
        OBVIOUS
      <4>1. CASE i = scroll + x
        BY <1>0, <3>1, <4>1
      <4>2. CASE i # scroll + x
        <5>1. instr'[i] = instr[i]
          BY <1>0, <3>1, <4>2
        <5> QED
          BY <1>0, <2>2, <3>1, <4>2, <5>1
      <4> QED
        BY <4>1, <4>2
    <3>4. ASSUME NEW i \in Cells PROVE screen'[i] = Shown(instr', scroll, i)
      <4>1. CASE i = x
        BY <1>0, <2>2, <3>1, <4>1 DEF Shown, Blank, Cells
      <4>2. CASE i # x
        <5>1. screen'[i] = Shown(instr, scroll, i)
          BY <2>2, <3>1, <4>2
        <5>2. ASSUME scroll + i <= MAX_LEN PROVE instr'[scroll + i] = instr[scroll + i]
          BY <1>0, <2>2, <3>1, <4>2, <5>2 DEF Cells
        <5> QED
          BY <5>1, <5>2 DEF Shown
      <4> QED
        BY <4>1, <4>2
    <3>5. screen' = [i \in Cells |-> Shown(instr', scroll, i)]
      <4>1. screen' = [i \in Cells |-> screen'[i]]
        BY <2>2, <3>1
      <4> QED
        BY <3>4, <4>1
    <3>6. input_x' = x /\ scroll' = scroll
      BY <2>4 DEF x
    <3>7. /\ \A i \in 0 .. MAX_LEN : instr'[i] = NUL <=> i >= scroll' + input_x'
          /\ screen' = [i \in Cells |-> Shown(instr', scroll', i)]
      BY <3>3, <3>5, <3>6
    <3>8. scroll' + input_x' <= MAX_LEN
      BY <1>0, <3>1, <3>6
    <3> QED
      BY <1>2, <2>1, <2>2, <3>1, <3>2, <3>6, <3>7, <3>8
  <2> QED
    BY <1>c, <2>3, <2>4 DEF Backspace
<1>d. ASSUME pc = "loop", pc' # "open",
             UNCHANGED <<mode, box_width, instr, scroll, input_x, screen>>
      PROVE  InputInv' /\ mode' = mode
  <2>1. [i \in Cells |-> Shown(instr, scroll, i)]' = [i \in Cells |-> Shown(instr, scroll, i)]
    BY <1>d DEF Cells, Shown
  <2> QED
    BY <1>0, <1>1, <1>d, <2>1 DEF InputInv
<1>e. ASSUME NEW b, NEW l, Focus(b, l) PROVE InputInv' /\ mode' = mode
  BY <1>d, <1>e DEF Focus, Key
<1>f. ASSUME NEW r, InputCloses(r) PROVE InputInv' /\ mode' = mode
  BY <1>d, <1>f DEF InputCloses, Closes
<1> QED
  BY <1>a, <1>b, <1>c, <1>e, <1>f
    DEF InputNext, InputPrevious, InputFollowing, InputEnter, InputOk, InputEscape

-----------------------------------------------------------------------------
(* confdialog.                                                             *)

\* Together, whichever dialog was called; a program that is none of them leaves
\* what NoDialog says.
DialogInv == Sized /\ MenuInv /\ CheckInv /\ InputInv

\* The entry selected, as IsListCursor maps it.
Selected == IF Drawn \/ mode = "menu" THEN scroll + choice
            ELSE IF mode \in {"check", "radio"} THEN FirstOn ELSE 0

CursorStep ==
  \/ Selected' = Selected
  \/ \E d \in {1, -1, max_choice, -max_choice} : Selected' = Clipped(Selected + d)
  \/ \E i \in 0 .. item_no - 1 : /\ i - Selected < max_choice /\ Selected - i < max_choice
                                  /\ Selected' = i

\* It holds at the start, of a dialog and of a program that is none.
LEMMA DialogInit ==
  ASSUME ConfdialogInit \/ (mode = "msg" /\ NoList)
  PROVE  DialogInv /\ Selected \in 0 .. item_no - 1
<1>0. ListAssumption /\ InputboxAssumption
  BY ListAssumption, InputboxAssumption
<1>2. CASE MenuInit
  <2>1. DialogInv
    BY <1>0, <1>2 DEF MenuInit, DialogInv, Sized, Sizes, MenuInv, CheckInv, InputInv, ListAssumption,
                      NoFile, NoNumber
  <2> QED
    BY <1>2, <2>1 DEF MenuInit, Selected, DialogInv, Sized, Items
<1>3. CASE CheckInit
  <2>1. DialogInv
    BY <1>0, <1>3 DEF CheckInit, DialogInv, Sized, Sizes, MenuInv, CheckInv, InputInv, ListAssumption
  <2>2. FirstOn \in 0 .. item_no - 1
    BY <2>1, FirstOnInList DEF DialogInv
  <2> QED
    BY <1>3, <2>1, <2>2 DEF CheckInit, Selected, Drawn
<1>4. CASE InputInit /\ NoList
  <2>1. mode = "input" /\ pc = "open" /\ item_no = 1 /\ list_height = 1
    BY <1>4 DEF InputInit, NoList
  <2>2. box_width \in Nat \ {0, 1}
    BY <1>0, <1>4 DEF InputInit, InputboxAssumption
  <2>a. PICK n \in 0 .. MAX_LEN : \E t \in [0 .. n - 1 -> Char] :
               instr = [i \in 0 .. MAX_LEN |-> IF i < n THEN t[i] ELSE NUL]
    BY <1>4 DEF InputInit
  <2>3. PICK t \in [0 .. n - 1 -> Char] :
               instr = [i \in 0 .. MAX_LEN |-> IF i < n THEN t[i] ELSE NUL]
    BY <2>a
  <2>4. MAX_LEN \in Nat /\ NUL \notin Char
    BY InputboxAssumption
  <2>5. \A i \in 0 .. MAX_LEN : i < n => i \in 0 .. n - 1
    BY <2>4
  <2>6. \A i \in 0 .. MAX_LEN : instr[i] = NUL <=> i >= n
    BY <2>3, <2>4, <2>5
  <2>7. instr \in [0 .. MAX_LEN -> Char \cup {NUL}]
    BY <2>3, <2>4, <2>5
  <2>8. InputInv
    BY <2>1, <2>2, <2>6, <2>7 DEF InputInv
  <2> QED
    BY <2>1, <2>8 DEF DialogInv, Sized, MenuInv, CheckInv, Selected, Drawn
<1>5. CASE mode \in {"text", "yesno", "msg"} /\ NoList
  BY <1>5 DEF NoList, DialogInv, Sized, MenuInv, CheckInv, InputInv, Selected, Drawn
<1> QED
  BY <1>2, <1>3, <1>4, <1>5 DEF ConfdialogInit, TextInit, BoxInit

\* Every key keeps it, and moves the cursor as a key of a list does.
LEMMA DialogStep ==
  ASSUME DialogInv, ConfdialogNext \/ UNCHANGED confdialog_vars
  PROVE  DialogInv' /\ CursorStep /\ UNCHANGED args
<1>2. CASE MenuNext
  <2>1. /\ MenuInv' /\ mode' = mode /\ mode = "menu" /\ UNCHANGED args
        /\ \/ MenuAt' = MenuAt
           \/ \E d \in {1, -1, max_choice, -max_choice} : MenuAt' = Clipped(MenuAt + d)
           \/ \E i \in 0 .. item_no - 1 : /\ i - MenuAt < max_choice /\ MenuAt - i < max_choice
                                           /\ MenuAt' = i
    <3>1. mode = "menu"
      BY <1>2 DEF MenuNext
    <3> QED
      BY <1>2, <3>1, MenuStep DEF DialogInv
  <2>2. Selected = MenuAt /\ Selected' = MenuAt'
    BY <2>1 DEF Selected, MenuAt
  <2>3. Sized'
    BY <2>1 DEF DialogInv, Sized, args
  <2>4. CursorStep
    BY <2>1, <2>2 DEF CursorStep
  <2> QED
    BY <2>1, <2>3, <2>4 DEF DialogInv, CheckInv, InputInv
<1>3. CASE CheckNext
  <2>1. /\ CheckInv' /\ mode' = mode /\ mode \in {"check", "radio"} /\ UNCHANGED args
        /\ \/ CheckAt' = CheckAt
           \/ \E d \in {1, -1, max_choice, -max_choice} : CheckAt' = Clipped(CheckAt + d)
           \/ \E i \in 0 .. item_no - 1 : /\ i - CheckAt < max_choice /\ CheckAt - i < max_choice
                                           /\ CheckAt' = i
    <3>1. mode \in {"check", "radio"}
      BY <1>3 DEF CheckNext
    <3> QED
      BY <1>3, <3>1, CheckStep DEF DialogInv
  <2>2. Selected = CheckAt /\ Selected' = CheckAt'
    BY <2>1 DEF Selected, CheckAt, Drawn
  <2>3. Sized'
    BY <2>1 DEF DialogInv, Sized, args
  <2>4. CursorStep
    BY <2>1, <2>2 DEF CursorStep
  <2> QED
    BY <2>1, <2>3, <2>4 DEF DialogInv, MenuInv, InputInv
<1>4. CASE InputNext /\ UNCHANGED lists
  <2>1. InputInv' /\ mode' = mode /\ mode = "input" /\ UNCHANGED args
    <3>1. mode = "input"
      BY <1>4 DEF InputNext
    <3> QED
      BY <1>4, <3>1, InputStep DEF DialogInv, lists
  <2>2. Selected' = Selected
    BY <2>1 DEF Selected, Drawn
  <2> QED
    BY <2>1, <2>2 DEF DialogInv, Sized, args, MenuInv, CheckInv, CursorStep
<1>5. CASE (TextNext \/ BoxNext) /\ UNCHANGED lists
  <2>1. mode' = mode /\ mode \in {"text", "yesno", "msg"}
    BY <1>5 DEF TextNext, BoxNext, BoxButton, BoxKey, BoxReturns, TextOpen, TextHome, TextEnd, TextUp,
                TextPageUp, TextDown, TextPageDown, Sideways, TextExit, BackAndPrint, PrintPage, Ends,
                constant
  <2>2. Selected' = Selected /\ UNCHANGED args
    BY <1>5, <2>1 DEF Selected, Drawn, lists
  <2> QED
    BY <2>1, <2>2 DEF DialogInv, Sized, args, MenuInv, CheckInv, InputInv, CursorStep
<1>6. CASE UNCHANGED confdialog_vars
  <2>1. UNCHANGED <<mode, pc, scroll, button, screen, result, item_no, list_height, hot, choice,
                    scrltmp, status, arrows, box_width, instr, input_x>>
    BY <1>6 DEF confdialog_vars, dialog, lists, args, menu, checks, input
  <2>2. max_choice' = max_choice /\ Items' = Items /\ Rows' = Rows /\ Cells' = Cells
    BY <2>1 DEF max_choice, Lesser, Items, Rows, Cells
  <2>3. /\ MenuPainted(scroll, choice)' = MenuPainted(scroll, choice)
        /\ CheckPainted(scroll, choice, status)' = CheckPainted(scroll, choice, status)
        /\ [i \in Cells |-> Shown(instr, scroll, i)]' = [i \in Cells |-> Shown(instr, scroll, i)]
    BY <2>1, <2>2 DEF MenuPainted, CheckPainted, Row, Shown
  <2>4. FirstOn' = FirstOn
    BY <2>1, <2>2 DEF FirstOn, On
  <2>5. Selected' = Selected
    BY <2>1, <2>4 DEF Selected, Drawn
  <2>6. MenuInv' /\ Sized'
    BY <2>1, <2>2, <2>3 DEF DialogInv, MenuInv, Sized
  <2>7. CheckInv'
    BY <2>1, <2>2, <2>3 DEF DialogInv, CheckInv, Sized
  <2>8. InputInv'
    BY <2>1, <2>3 DEF DialogInv, InputInv
  <2> QED
    BY <2>1, <2>5, <2>6, <2>7, <2>8 DEF DialogInv, CursorStep, args
<1> QED
  BY <1>2, <1>3, <1>4, <1>5, <1>6 DEF ConfdialogNext

\* It gives what the dialogs promise.
LEMMA DialogsPromise ==
  ASSUME DialogInv
  PROVE  /\ MenuInWindow /\ MenuFaithful
         /\ CheckInWindow /\ CheckFaithful /\ ArrowsTrue /\ RadioPrintsOne
         /\ CursorAtEnd /\ InputFaithful
<1>1. MenuInWindow
  BY DEF DialogInv, MenuInv, MenuInWindow
<1>2. MenuFaithful
  <2> SUFFICES ASSUME mode = "menu", pc # "open"
               PROVE  /\ screen = MenuPainted(scroll, choice)
                      /\ result # NoItem => screen[choice][1] = result.item
    BY DEF MenuFaithful
  <2>1. /\ screen = MenuPainted(scroll, choice) /\ choice \in 0 .. max_choice - 1
        /\ result # NoItem => result.item = scroll + choice
    BY DEF DialogInv, MenuInv
  <2> QED
    BY <2>1 DEF MenuPainted, Rows
<1>3. CheckInWindow /\ CheckFaithful /\ RadioPrintsOne
  BY DEF DialogInv, CheckInv, CheckInWindow, CheckFaithful, RadioPrintsOne, Drawn
<1>4. ArrowsTrue
  <2> SUFFICES ASSUME Drawn
               PROVE  (arrows[1] <=> scroll > 0) /\ (arrows[2] <=> scroll + max_choice < item_no)
    BY DEF ArrowsTrue
  <2>1. arrows = <<scroll > 0, scroll + max_choice < item_no>>
    BY DEF DialogInv, CheckInv, Drawn
  <2> QED
    BY <2>1
<1>5. CursorAtEnd /\ InputFaithful
  BY DEF DialogInv, InputInv, CursorAtEnd, InputFaithful, Edited, Cells
<1> QED
  BY <1>1, <1>2, <1>3, <1>4, <1>5

-----------------------------------------------------------------------------
(* cmd_wrapper.                                                            *)

\* OTHERS_DONE is a beginning of OTHERS, and while the chain of passes goes on
\* the wrappers in it are those that have run.
WrapperInv ==
  /\ Others \in Seq(STRING) /\ done \in Seq(STRING) /\ Len(done) <= Len(Others)
  /\ \A i \in 1 .. Len(done) : done[i] = Others[i]
  /\ wpc \in {"wrapper", "other", "command"} => ran = done
  /\ wpc = "command" => done = Others

\* What the next wrapper is taken to be leads OTHERS_DONE on along OTHERS.
LEMMA OtherGoesOn ==
  ASSUME Others \in Seq(STRING), done \in Seq(STRING), Len(done) <= Len(Others),
         \A i \in 1 .. Len(done) : done[i] = Others[i]
  PROVE  /\ other \in Seq(STRING)
         /\ other = <<>> => done = Others
         /\ other # <<>> => /\ NewDone = done \o other /\ NewDone \in Seq(STRING)
                            /\ Len(NewDone) = Len(done) + Len(other)
                            /\ Len(NewDone) > Len(done) /\ Len(NewDone) <= Len(Others)
                            /\ \A i \in 1 .. Len(NewDone) : NewDone[i] = Others[i]
<1>1. CASE done = <<>> /\ Others # <<>>
  <2>1. other = <<Others[1]>> /\ Others[1] \in STRING /\ Len(Others) >= 1
    BY <1>1 DEF other
  <2>2. NewDone = done \o other
    BY <2>1 DEF NewDone
  <2>3. NewDone = <<Others[1]>>
    BY <1>1, <2>1, <2>2
  <2> QED
    BY <1>1, <2>1, <2>2, <2>3
<1>2. CASE ~(done = <<>> /\ Others # <<>>)
  <2> DEFINE left == SubSeq(Others, Len(done) + 1, Len(Others))
  <2>1. other = left
    BY <1>2 DEF other, Left
  <2>2. /\ left \in Seq(STRING) /\ Len(left) = Len(Others) - Len(done)
        /\ \A i \in 1 .. Len(left) : left[i] = Others[Len(done) + i]
    OBVIOUS
  <2> HIDE DEF left
  <2>3. CASE left = <<>>
    <3>1. Len(done) = Len(Others)
      BY <2>2, <2>3
    <3>2. done = Others
      BY <3>1
    <3> QED
      BY <2>1, <2>2, <2>3, <3>2
  <2>4. CASE left # <<>>
    <3>1. NewDone = done \o left /\ Len(left) > 0
      BY <2>1, <2>2, <2>4 DEF NewDone
    <3>2. NewDone \in Seq(STRING) /\ Len(NewDone) = Len(Others)
      BY <2>2, <3>1
    <3>3. \A i \in 1 .. Len(NewDone) : NewDone[i] = Others[i]
      BY <2>2, <3>1, <3>2
    <3> QED
      BY <2>1, <2>2, <2>4, <3>1, <3>2, <3>3
  <2> QED
    BY <2>3, <2>4
<1> QED
  BY <1>1, <1>2

\* One pass, or the step of the wrapper between two: the invariant, and that
\* less is left.
LEMMA WrapperStep ==
  ASSUME WrapperInv, CmdWrapperNext
  PROVE  WrapperInv' /\ PassesLeft' < PassesLeft
<1>1. /\ Others \in Seq(STRING) /\ done \in Seq(STRING) /\ Len(done) <= Len(Others)
      /\ \A i \in 1 .. Len(done) : done[i] = Others[i]
      /\ wpc \in {"wrapper", "other", "command"} => ran = done
      /\ Len(Others) \in Nat /\ Len(done) \in Nat
  BY DEF WrapperInv
<1>2. Others' = Others
  BY DEF CmdWrapperNext, main, OtherRuns, Others
<1>3. ASSUME wpc \in {"wrapper", "other"}, wpc' \notin {"wrapper", "other"}
      PROVE  PassesLeft' < PassesLeft
  <2>1. PassesLeft' = 0
    BY <1>3 DEF PassesLeft
  <2>2. PassesLeft >= 1 /\ PassesLeft \in Nat
    BY <1>1, <1>3 DEF PassesLeft
  <2> QED
    BY <2>1, <2>2
<1>4. ASSUME wpc \in {"wrapper", "other"}, wpc' \notin {"wrapper", "other", "command"}, done' \in {done, NewDone}
      PROVE  WrapperInv'
  <2>1. /\ done' \in Seq(STRING) /\ Len(done') <= Len(Others)
        /\ \A i \in 1 .. Len(done') : done'[i] = Others[i]
    <3>1. CASE done' = done
      BY <1>1, <3>1
    <3>2. CASE other = <<>>
      BY <1>1, <1>4, <3>2 DEF NewDone
    <3>3. CASE other # <<>> /\ done' = NewDone
      BY <1>1, <3>3, OtherGoesOn
    <3> QED
      BY <1>4, <3>1, <3>2, <3>3
  <2> QED
    BY <1>1, <1>2, <1>4, <2>1 DEF WrapperInv
<1>5. ASSUME NEW code \in {"exit 248", "exit 249", "exit 250"}, wpc = "wrapper", Exit(code)
      PROVE  WrapperInv' /\ PassesLeft' < PassesLeft
  BY <1>3, <1>4, <1>5 DEF Exit, env
<1>6. ASSUME NEW v, NEW out, wpc = "wrapper", other # <<>>, RunOther(v, out)
      PROVE  WrapperInv' /\ PassesLeft' < PassesLeft
  <2>1. /\ done' = NewDone /\ noloop' = noloop
        /\ IF OtherName \in Installed THEN wpc' = "other" /\ ran' = Append(ran, OtherName)
           ELSE wpc' = "exit 253"
    BY <1>6 DEF RunOther
  <2>2. /\ other \in Seq(STRING)
        /\ NewDone = done \o other /\ NewDone \in Seq(STRING)
        /\ Len(NewDone) > Len(done) /\ Len(NewDone) <= Len(Others) /\ Len(NewDone) \in Nat
        /\ \A i \in 1 .. Len(NewDone) : NewDone[i] = Others[i]
    BY <1>1, <1>6, OtherGoesOn
  <2>3. CASE OtherName \in Installed
    <3>1. Len(other) = 1 /\ OtherName = other[1]
      BY <2>3, CmdWrapperAssumption DEF OtherName
    <3>2. ran' = done'
      <4>1. other = <<other[1]>>
        BY <2>2, <3>1
      <4>2. Append(done, other[1]) = done \o <<other[1]>>
        BY <1>1, <2>2, <3>1
      <4> QED
        BY <1>1, <1>6, <2>1, <2>2, <2>3, <3>1, <4>1, <4>2
    <3>3. WrapperInv'
      BY <1>1, <1>2, <2>1, <2>2, <2>3, <3>2 DEF WrapperInv
    <3>4. PassesLeft' = 2 + (IF noloop THEN 0 ELSE 2) + 4 * (Len(Others) - Len(NewDone))
      BY <1>2, <2>1, <2>3 DEF PassesLeft
    <3>5. PassesLeft = 1 + (IF noloop THEN 0 ELSE 2) + 4 * (Len(Others) - Len(done))
      BY <1>6 DEF PassesLeft
    <3> QED
      BY <1>1, <2>2, <3>3, <3>4, <3>5
  <2>4. CASE OtherName \notin Installed
    BY <1>3, <1>4, <1>6, <2>1, <2>4
  <2> QED
    BY <2>3, <2>4
<1>7. ASSUME NEW v, NEW out, wpc = "wrapper", other = <<>>, RunCommand(v, out)
      PROVE  WrapperInv' /\ PassesLeft' < PassesLeft
  <2>1. done' = done /\ ran' = ran /\ done = Others
    BY <1>1, <1>7, OtherGoesOn DEF RunCommand
  <2>2. WrapperInv'
    BY <1>1, <1>2, <1>7, <2>1 DEF WrapperInv
  <2>3. \/ wpc' \notin {"wrapper", "other"}
        \/ wpc' = "wrapper" /\ ~noloop /\ noloop'
    BY <1>7 DEF RunCommand
  <2>4. CASE wpc' = "wrapper" /\ ~noloop /\ noloop'
    <3>1. PassesLeft' = 1 + 4 * (Len(Others) - Len(done))
      BY <1>2, <2>1, <2>4 DEF PassesLeft
    <3>2. PassesLeft = 3 + 4 * (Len(Others) - Len(done))
      BY <1>7, <2>4 DEF PassesLeft
    <3> QED
      BY <1>1, <2>2, <3>1, <3>2
  <2> QED
    BY <1>3, <1>7, <2>2, <2>3, <2>4
<1>8. CASE main
  <2>1. wpc = "wrapper"
    BY <1>8 DEF main
  <2>2. \/ \E code \in {"exit 248", "exit 249", "exit 250"} : Exit(code)
        \/ \E v, out : other # <<>> /\ RunOther(v, out)
        \/ \E v, out : other = <<>> /\ RunCommand(v, out)
    BY <1>8, Zenon DEF main
  <2> QED
    BY <1>5, <1>6, <1>7, <2>1, <2>2
<1>9. CASE OtherRuns
  <2>1. /\ wpc = "other" /\ done' = done /\ noloop' = noloop /\ ran' = ran
        /\ wpc' \in {"wrapper", "no command"}
    BY <1>9 DEF OtherRuns, env
  <2>2. WrapperInv'
    BY <1>1, <1>2, <2>1 DEF WrapperInv
  <2>3. CASE wpc' = "wrapper"
    <3>1. PassesLeft' = 1 + (IF noloop THEN 0 ELSE 2) + 4 * (Len(Others) - Len(done))
      BY <1>2, <2>1, <2>3 DEF PassesLeft
    <3>2. PassesLeft = 1 + 1 + (IF noloop THEN 0 ELSE 2) + 4 * (Len(Others) - Len(done))
      BY <2>1 DEF PassesLeft
    <3> QED
      BY <1>1, <2>2, <3>1, <3>2
  <2> QED
    BY <1>3, <2>1, <2>2, <2>3
<1> QED
  BY <1>8, <1>9 DEF CmdWrapperNext

\* It holds when the user calls the wrapper.
LEMMA WrapperStart ==
  ASSUME CmdWrapperInit
  PROVE  WrapperInv
<1>2. config \in [others : OtherLists, bypass : BOOLEAN, filter : {"", "cat", "fails"},
                     insert : Added, remove : Taken, append : Added]
  BY DEF CmdWrapperInit
<1>3. config.others \in OtherLists /\ OtherLists \subseteq Seq(STRING)
  BY <1>2, CmdWrapperAssumption
<1>4. Others \in Seq(STRING)
  <2>1. <<>> \in Seq(STRING)
    OBVIOUS
  <2> QED
    BY <1>3, <2>1, Zenon DEF Others
<1>5. done = <<>> /\ ran = <<>> /\ wpc = "wrapper"
  BY DEF CmdWrapperInit
<1>6. done \in Seq(STRING) /\ Len(done) = 0
  BY <1>5
<1>7. Len(done) <= Len(Others) /\ \A i \in 1 .. Len(done) : done[i] = Others[i]
  BY <1>4, <1>6
<1> QED
  BY <1>4, <1>5, <1>6, <1>7 DEF WrapperInv

-----------------------------------------------------------------------------
(* bprof.                                                                  *)

BprofEntry == [id : Id, count : Int, tv_sum : Int, tv_start : Int]

\* What an entry says of its id.
Accounts(e) == spent[e.id] = e.tv_sum + (IF e.id \in inside THEN clock - e.tv_start ELSE 0)

BprofInv ==
  /\ bprofent_list \in Seq(BprofEntry) /\ clock \in Int /\ inside \in SUBSET Id
  /\ spent \in [Id -> Int]
  /\ \A i, j \in DOMAIN bprofent_list : bprofent_list[i].id = bprofent_list[j].id => i = j
  /\ \A i \in DOMAIN bprofent_list : Accounts(bprofent_list[i])
  /\ \A name \in Id : ~Listed(name) => spent[name] = 0 /\ name \notin inside

\* The list with the id in it: one more entry at the head, or the same.
LEMMA WithIs ==
  ASSUME BprofInv, NEW name \in Id
  PROVE  /\ With(name) \in Seq(BprofEntry) /\ this(name) \in DOMAIN With(name)
         /\ With(name)[this(name)].id = name
         /\ \A i, j \in DOMAIN With(name) : With(name)[i].id = With(name)[j].id => i = j
         /\ \A i \in DOMAIN With(name) : Accounts(With(name)[i])
         /\ \A n \in Id : (\E i \in DOMAIN With(name) : With(name)[i].id = n)
                            <=> Listed(n) \/ n = name
<1> DEFINE entries == bprofent_list
           new == [id |-> name, count |-> 0, tv_sum |-> 0, tv_start |-> 0]
<1>1. /\ entries \in Seq(BprofEntry) /\ clock \in Int /\ inside \in SUBSET Id /\ spent \in [Id -> Int]
      /\ \A i, j \in DOMAIN entries : entries[i].id = entries[j].id => i = j
      /\ \A i \in DOMAIN entries : Accounts(entries[i])
      /\ \A n \in Id : ~Listed(n) => spent[n] = 0 /\ n \notin inside
  BY DEF BprofInv
<1>2. CASE Listed(name)
  <2>1. PICK k \in DOMAIN entries : entries[k].id = name
    BY <1>2 DEF Listed
  <2>2. /\ entries[k].id = name
        /\ \A j \in 1 .. k - 1 : entries[j].id # name
    BY <1>1, <2>1
  <2>3. this(name) = k
    <3>1. \A i \in DOMAIN entries : entries[i].id = name => i = k
      BY <1>1, <2>1
    <3> QED
      BY <1>2, <2>2, <3>1 DEF this, Entry
  <2>4. With(name) = entries
    BY <1>2 DEF With
  <2> QED
    BY <1>1, <1>2, <2>1, <2>3, <2>4 DEF Listed
<1>3. CASE ~Listed(name)
  <2>1. With(name) = <<new>> \o entries /\ this(name) = 1
    BY <1>3 DEF With, this
  <2>2. new \in BprofEntry /\ new.id = name
    BY DEF BprofEntry
  <2>3. Accounts(new)
    BY <1>1, <1>3 DEF Accounts
  <2>4. \A i \in DOMAIN entries : entries[i].id # name
    BY <1>3 DEF Listed
  <2> HIDE DEF new
  <2> DEFINE w == <<new>> \o entries
  <2>5. /\ w \in Seq(BprofEntry) /\ w[1] = new
        /\ \A i \in DOMAIN w : i # 1 => i - 1 \in DOMAIN entries /\ w[i] = entries[i - 1]
        /\ \A i \in DOMAIN entries : i + 1 \in DOMAIN w /\ w[i + 1] = entries[i]
        /\ 1 \in DOMAIN w /\ \A i \in DOMAIN w : i \in Nat
    BY <1>1, <2>2
  <2> HIDE DEF w
  <2>6. \A i, j \in DOMAIN w : w[i].id = w[j].id => i = j
    <3> SUFFICES ASSUME NEW i \in DOMAIN w, NEW j \in DOMAIN w, w[i].id = w[j].id
                 PROVE  i = j
      OBVIOUS
    <3>1. CASE i = 1
      BY <2>2, <2>4, <2>5, <3>1
    <3>2. CASE j = 1
      BY <2>2, <2>4, <2>5, <3>2
    <3>3. CASE i # 1 /\ j # 1
      <4>1. /\ i - 1 \in DOMAIN entries /\ w[i] = entries[i - 1] /\ i \in Nat
            /\ j - 1 \in DOMAIN entries /\ w[j] = entries[j - 1] /\ j \in Nat
        BY <2>5, <3>3
      <4>2. entries[i - 1].id = entries[j - 1].id
        BY <4>1
      <4>3. i - 1 = j - 1
        BY <1>1, <4>1, <4>2, Zenon
      <4> QED
        BY <4>1, <4>3
    <3> QED
      BY <3>1, <3>2, <3>3
  <2>7. \A i \in DOMAIN w : Accounts(w[i])
    BY <1>1, <2>3, <2>5, Zenon
  <2>8. ASSUME NEW n \in Id
        PROVE  (\E i \in DOMAIN w : w[i].id = n) <=> Listed(n) \/ n = name
    BY <2>2, <2>5 DEF Listed
  <2>9. With(name) = w
    BY <2>1 DEF w
  <2>10. this(name) \in DOMAIN w /\ w[this(name)].id = name
    BY <2>1, <2>2, <2>5
  <2> QED
    BY <2>5, <2>6, <2>7, <2>8, <2>9, <2>10, Zenon
<1> QED
  BY <1>2, <1>3

\* Every command of the profile keeps the entries' accounts.
LEMMA BprofStep ==
  ASSUME BprofInv, BprofNext
  PROVE  BprofInv'
<1>1. /\ bprofent_list \in Seq(BprofEntry) /\ clock \in Int /\ inside \in SUBSET Id /\ spent \in [Id -> Int]
      /\ \A i, j \in DOMAIN bprofent_list : bprofent_list[i].id = bprofent_list[j].id => i = j
      /\ \A i \in DOMAIN bprofent_list : Accounts(bprofent_list[i])
      /\ \A n \in Id : ~Listed(n) => spent[n] = 0 /\ n \notin inside
  BY DEF BprofInv
<1>2. CASE Tick
  <2>1. /\ clock' = clock + 1 /\ bprofent_list' = bprofent_list /\ inside' = inside
        /\ spent' = [i \in Id |-> IF i \in inside THEN spent[i] + 1 ELSE spent[i]]
    BY <1>2 DEF Tick
  <2>2. spent' \in [Id -> Int] /\ \A n \in Id : ~Listed(n) => spent'[n] = 0 /\ n \notin inside
    BY <1>1, <2>1
  <2>3. ASSUME NEW e \in BprofEntry, Accounts(e)
        PROVE  spent'[e.id] = e.tv_sum + (IF e.id \in inside' THEN clock' - e.tv_start ELSE 0)
    <3>1. e.id \in Id /\ e.tv_sum \in Int /\ e.tv_start \in Int
      BY DEF BprofEntry
    <3>2. spent[e.id] \in Int
      BY <1>1, <3>1
    <3>3. CASE e.id \in inside
      <4>1. spent'[e.id] = spent[e.id] + 1
        BY <2>1, <3>1, <3>3
      <4>2. spent[e.id] = e.tv_sum + (clock - e.tv_start)
        BY <2>3, <3>3 DEF Accounts
      <4>3. spent'[e.id] = e.tv_sum + (clock' - e.tv_start)
        BY <1>1, <2>1, <3>1, <3>2, <4>1, <4>2
      <4> QED
        BY <2>1, <3>3, <4>3
    <3>4. CASE e.id \notin inside
      BY <2>1, <2>3, <3>1, <3>4 DEF Accounts
    <3> QED
      BY <3>3, <3>4
  <2>4. \A i \in DOMAIN bprofent_list : bprofent_list[i] \in BprofEntry
    BY <1>1
  <2> QED
    BY <1>1, <2>1, <2>2, <2>3, <2>4 DEF BprofInv, Accounts, Listed
<1>3. ASSUME NEW name \in Id, NEW e \in BprofEntry, e.id = name,
             bprofent_list' = [With(name) EXCEPT ![this(name)] = e],
             clock' = clock, spent' = spent, inside' \in SUBSET Id,
             \A n \in Id : n # name => (n \in inside' <=> n \in inside),
             spent[name] = e.tv_sum + (IF name \in inside' THEN clock - e.tv_start ELSE 0)
      PROVE  BprofInv'
  <2> DEFINE w == With(name)
             k == this(name)
  <2>1. /\ w \in Seq(BprofEntry) /\ k \in DOMAIN w /\ w[k].id = name
        /\ \A i, j \in DOMAIN w : w[i].id = w[j].id => i = j
        /\ \A i \in DOMAIN w : Accounts(w[i])
        /\ \A n \in Id : (\E i \in DOMAIN w : w[i].id = n) <=> Listed(n) \/ n = name
    BY WithIs
  <2>2. bprofent_list' = [w EXCEPT ![k] = e]
    BY <1>3
  <2> HIDE DEF w, k
  <2>3. /\ bprofent_list' \in Seq(BprofEntry) /\ DOMAIN bprofent_list' = DOMAIN w
        /\ \A i \in DOMAIN w : bprofent_list'[i] = IF i = k THEN e ELSE w[i]
    <3>1. k \in 1 .. Len(w) /\ DOMAIN w = 1 .. Len(w)
      BY <2>1
    <3>2. [w EXCEPT ![k] = e] \in Seq(BprofEntry)
      BY <1>3, <2>1, <3>1, ExceptSeq
    <3> QED
      BY <2>1, <2>2, <3>2
  <2>4. \A i \in DOMAIN w : bprofent_list'[i].id = w[i].id
    BY <1>3, <2>1, <2>3
  <2>5. ASSUME NEW i \in DOMAIN w PROVE Accounts(bprofent_list[i])'
    <3>1. CASE i = k
      BY <1>3, <2>3, <3>1 DEF Accounts
    <3>2. CASE i # k
      <4>0. w[i] \in BprofEntry
        BY <2>1
      <4>1. w[i].id \in Id /\ w[i].id # name
        BY <2>1, <3>2, <4>0 DEF BprofEntry
      <4>2. bprofent_list'[i] = w[i] /\ Accounts(w[i])
        BY <2>1, <2>3, <3>2
      <4> QED
        BY <1>3, <4>1, <4>2 DEF Accounts
    <3> QED
      BY <3>1, <3>2
  <2>6. ASSUME NEW n \in Id, ~(\E i \in DOMAIN w : w[i].id = n)
        PROVE  spent'[n] = 0 /\ n \notin inside'
    BY <1>1, <1>3, <2>1, <2>6
  <2>7. ASSUME NEW n \in Id, ~Listed(n)' PROVE ~(\E i \in DOMAIN w : w[i].id = n)
    BY <2>3, <2>4, <2>7 DEF Listed
  <2>8. \A i, j \in DOMAIN bprofent_list' : bprofent_list'[i].id = bprofent_list'[j].id => i = j
    BY <2>1, <2>3, <2>4
  <2>9. \A n \in Id : ~Listed(n)' => spent'[n] = 0 /\ n \notin inside'
    BY <2>6, <2>7
  <2>10. \A i \in DOMAIN bprofent_list' : Accounts(bprofent_list[i])'
    BY <2>3, <2>5
  <2> QED
    BY <1>1, <1>3, <2>3, <2>8, <2>9, <2>10 DEF BprofInv
<1>4. ASSUME NEW name \in Id, bprof_start(name) PROVE BprofInv'
  <2> DEFINE w == With(name)
             k == this(name)
             e == [w[k] EXCEPT !.tv_start = clock]
  <2>1. /\ w \in Seq(BprofEntry) /\ k \in DOMAIN w /\ w[k].id = name /\ Accounts(w[k])
    BY WithIs
  <2>2. /\ name \notin inside /\ bprofent_list' = [w EXCEPT ![k].tv_start = clock]
        /\ inside' = inside \cup {name} /\ clock' = clock /\ spent' = spent
    BY <1>4 DEF bprof_start
  <2> HIDE DEF w, k
  <2>3. w[k] \in BprofEntry
    BY <2>1
  <2>4. /\ e \in BprofEntry /\ e.id = name /\ e.tv_sum = w[k].tv_sum /\ e.tv_start = clock
        /\ e.tv_sum \in Int
    BY <1>1, <2>1, <2>3 DEF BprofEntry
  <2>5. bprofent_list' = [w EXCEPT ![k] = e]
    BY <2>2
  <2> HIDE DEF e
  <2>6. spent[name] = e.tv_sum + (IF name \in inside' THEN clock - e.tv_start ELSE 0)
    BY <1>1, <2>1, <2>2, <2>4 DEF Accounts
  <2>7. bprofent_list' = [With(name) EXCEPT ![this(name)] = e]
    BY <2>5 DEF w, k
  <2> QED
    BY <1>1, <1>3, <2>2, <2>4, <2>6, <2>7
<1>5. ASSUME NEW name \in Id, bprof_stop(name) PROVE BprofInv'
  <2> DEFINE w == With(name)
             k == this(name)
             e == [w[k] EXCEPT !.tv_sum = @ + clock - w[k].tv_start, !.count = @ + 1]
  <2>1. /\ w \in Seq(BprofEntry) /\ k \in DOMAIN w /\ w[k].id = name /\ Accounts(w[k])
    BY WithIs
  <2>2. /\ name \in inside
        /\ bprofent_list' = [w EXCEPT ![k].tv_sum = @ + clock - w[k].tv_start, ![k].count = @ + 1]
        /\ inside' = inside \ {name} /\ clock' = clock /\ spent' = spent
    BY <1>5 DEF bprof_stop
  <2> HIDE DEF w, k
  <2>3. w[k] \in BprofEntry
    BY <2>1
  <2>a. w[k].tv_sum \in Int /\ w[k].tv_start \in Int /\ w[k].count \in Int
    BY <2>3 DEF BprofEntry
  <2>4. /\ e \in BprofEntry /\ e.id = name /\ e.tv_sum = w[k].tv_sum + clock - w[k].tv_start
        /\ e.tv_sum \in Int /\ w[k].tv_sum \in Int /\ w[k].tv_start \in Int
    <3>1. w[k].tv_sum + clock - w[k].tv_start \in Int /\ w[k].count + 1 \in Int
      BY <1>1, <2>a
    <3> QED
      BY <2>1, <2>3, <2>a, <3>1 DEF BprofEntry
  <2>5. bprofent_list' = [w EXCEPT ![k] = e]
    BY <2>1, <2>2
  <2> HIDE DEF e
  <2>6. spent[name] = e.tv_sum + (IF name \in inside' THEN clock - e.tv_start ELSE 0)
    BY <1>1, <2>1, <2>2, <2>4 DEF Accounts
  <2>7. bprofent_list' = [With(name) EXCEPT ![this(name)] = e]
    BY <2>5 DEF w, k
  <2> QED
    BY <1>1, <1>3, <2>2, <2>4, <2>6, <2>7
<1>6. ASSUME NEW name \in Id, bprof_print(name) PROVE BprofInv'
  <2> DEFINE w == With(name)
             k == this(name)
             e == w[k]
  <2>1. /\ w \in Seq(BprofEntry) /\ k \in DOMAIN w /\ w[k].id = name /\ Accounts(w[k])
    BY WithIs
  <2>2. bprofent_list' = w /\ inside' = inside /\ clock' = clock /\ spent' = spent
    BY <1>6 DEF bprof_print
  <2> HIDE DEF w, k
  <2>3. w[k] \in BprofEntry /\ w = [w EXCEPT ![k] = e]
    BY <2>1
  <2>4. spent[name] = e.tv_sum + (IF name \in inside' THEN clock - e.tv_start ELSE 0)
    BY <1>1, <2>1, <2>2 DEF Accounts
  <2>5. bprofent_list' = [With(name) EXCEPT ![this(name)] = e]
    BY <2>2, <2>3 DEF w, k
  <2> QED
    BY <1>1, <1>3, <2>1, <2>2, <2>3, <2>4, <2>5
<1> QED
  BY <1>2, <1>4, <1>5, <1>6 DEF BprofNext

\* The empty list accounts for nothing.
LEMMA BprofStart ==
  ASSUME BprofInit
  PROVE  BprofInv
<1>1. bprofent_list = <<>> /\ clock = 1 /\ inside = {} /\ spent = [i \in Id |-> 0]
  BY DEF BprofInit
<1>2. bprofent_list \in Seq(BprofEntry) /\ DOMAIN bprofent_list = {}
  BY <1>1
<1> QED
  BY <1>1, <1>2 DEF BprofInv

\* An account that is closed gives the time spent.
LEMMA SumsAreTimes ==
  ASSUME BprofInv
  PROVE  SumIsTimeSpent
<1> SUFFICES ASSUME NEW name \in Id \ inside
             PROVE  spent[name] = IF Listed(name) THEN bprofent_list[Entry(name)].tv_sum ELSE 0
  BY DEF SumIsTimeSpent
<1>1. CASE Listed(name)
  <2>1. /\ With(name) = bprofent_list /\ this(name) = Entry(name)
    BY <1>1 DEF With, this
  <2>2. /\ Entry(name) \in DOMAIN bprofent_list /\ bprofent_list[Entry(name)].id = name
        /\ Accounts(bprofent_list[Entry(name)]) /\ bprofent_list[Entry(name)] \in BprofEntry
    BY <2>1, WithIs
  <2> HIDE DEF Entry
  <2>3. bprofent_list[Entry(name)].tv_sum \in Int
    BY <2>2 DEF BprofEntry
  <2> QED
    BY <1>1, <2>2, <2>3 DEF Accounts
<1>2. CASE ~Listed(name)
  BY <1>2 DEF BprofInv
<1> QED
  BY <1>1, <1>2

-----------------------------------------------------------------------------
(* fl_stparse.                                                             *)

ProcEntry == [pid : Pid \cup {0}, cwd : Dir \cup {None}]

\* Besides what is promised: a fork whose line is still to come is that of a
\* process that waits for it, and if the child is followed then it has no slot
\* yet, its parent is followed too and they are in the same place.
StparseInv ==
  /\ dirOf \in [Pid -> Dir \cup {None}] /\ forking \in SUBSET (Pid \X Pid)
  /\ procs \in [Slot -> ProcEntry] /\ mycwd \in Dir \cup {None}
  /\ LoggedWhereItWas /\ TableSound
  /\ exit_code = "running" =>
       /\ \A f, g \in forking : f[2] = g[2] => f = g
       /\ \A f \in forking : f[1] \in Alive
       /\ \A f \in forking : f[2] \in sound =>
            SlotsOf(f[2]) = {} /\ f[1] \in sound /\ dirOf[f[2]] = dirOf[f[1]]
       /\ NoneLost

\* The slot found for a process is its own.
LEMMA FirstSlotIs ==
  ASSUME NEW p, SlotsOf(p) # {}
  PROVE  FirstSlot(p) \in Slot /\ procs[FirstSlot(p)].pid = p
<1> DEFINE S == SlotsOf(p)
<1>1. S \subseteq Nat /\ S # {}
  BY FlStparseAssumption DEF SlotsOf, Slot
<1>2. \E c \in S : \A d \in S : c <= d
  BY <1>1, LeastNumber
<1>3. FirstSlot(p) \in S
  BY <1>2 DEF FirstSlot
<1> QED
  BY <1>3 DEF SlotsOf

\* A slot that changes hands is of no matter to the other processes.
LEMMA OtherSlots ==
  ASSUME procs \in [Slot -> ProcEntry], NEW k \in Slot, NEW e \in ProcEntry,
         procs' = [procs EXCEPT ![k] = e]
  PROVE  /\ procs' \in [Slot -> ProcEntry]
         /\ \A q : q # procs[k].pid /\ q # e.pid =>
              /\ SlotsOf(q)' = SlotsOf(q) /\ FirstSlot(q)' = FirstSlot(q)
              /\ SlotsOf(q) # {} => procs'[FirstSlot(q)] = procs[FirstSlot(q)]
<1>1. procs' \in [Slot -> ProcEntry] /\ procs'[k] = e /\ \A c \in Slot : c # k => procs'[c] = procs[c]
  OBVIOUS
<1>2. ASSUME NEW q, q # procs[k].pid, q # e.pid
      PROVE  /\ SlotsOf(q)' = SlotsOf(q) /\ FirstSlot(q)' = FirstSlot(q)
             /\ SlotsOf(q) # {} => procs'[FirstSlot(q)] = procs[FirstSlot(q)]
  <2>1. SlotsOf(q)' = SlotsOf(q)
    BY <1>1, <1>2 DEF SlotsOf
  <2>2. FirstSlot(q)' = FirstSlot(q)
    BY <2>1 DEF FirstSlot
  <2>3. ASSUME SlotsOf(q) # {} PROVE procs'[FirstSlot(q)] = procs[FirstSlot(q)]
    BY <1>1, <1>2, <2>3, FirstSlotIs
  <2> QED
    BY <2>1, <2>2, <2>3
<1> QED
  BY <1>1, <1>2

\* The first process has the first slot.
LEMMA StparseStart ==
  ASSUME FlStparseInit
  PROVE  StparseInv
<1>0. /\ First \in Pid /\ Start \in Dir /\ ParserStart \in Dir /\ MAXPROCS \in Nat \ {0} /\ 0 \notin Pid
  BY FlStparseAssumption
<1>1. /\ dirOf = [p \in Pid |-> IF p = First THEN Start ELSE None] /\ forking = {}
      /\ procs = [c \in Slot |-> IF c = 0 THEN [pid |-> First, cwd |-> ParserStart] ELSE Free]
      /\ mycwd = ParserStart /\ logged = [dir |-> None, meant |-> None, sound |-> FALSE]
      /\ sound = IF Start = ParserStart THEN {First} ELSE {}
  BY DEF FlStparseInit
<1>2. /\ dirOf \in [Pid -> Dir \cup {None}] /\ forking \in SUBSET (Pid \X Pid)
      /\ procs \in [Slot -> ProcEntry] /\ mycwd \in Dir \cup {None}
  BY <1>0, <1>1 DEF ProcEntry, Free
<1>3. LoggedWhereItWas
  BY <1>1 DEF LoggedWhereItWas
<1>4. 0 \in Slot /\ procs[0].pid = First /\ procs[0].cwd = ParserStart
  BY <1>0, <1>1 DEF Slot
<1>5. SlotsOf(First) = {0}
  BY <1>0, <1>1, <1>4 DEF SlotsOf, Free
<1>6. FirstSlot(First) = 0
  BY <1>5 DEF FirstSlot
<1>7. TableSound
  BY <1>0, <1>1, <1>4, <1>6 DEF TableSound
<1>8. NoneLost
  BY <1>1, <1>5 DEF NoneLost, Alive
<1> QED
  BY <1>1, <1>2, <1>3, <1>7, <1>8 DEF StparseInv

\* Every line of the trace keeps the table and what it says of the processes.
LEMMA StparseStep ==
  ASSUME StparseInv, FlStparseNext
  PROVE  StparseInv'
<1>0. /\ dirOf \in [Pid -> Dir \cup {None}] /\ forking \in SUBSET (Pid \X Pid)
      /\ procs \in [Slot -> ProcEntry] /\ mycwd \in Dir \cup {None}
      /\ LoggedWhereItWas /\ TableSound /\ exit_code = "running"
      /\ \A f, g \in forking : f[2] = g[2] => f = g
      /\ \A f \in forking : f[1] \in Alive
      /\ \A f \in forking : f[2] \in sound =>
           SlotsOf(f[2]) = {} /\ f[1] \in sound /\ dirOf[f[2]] = dirOf[f[1]]
      /\ \A p \in Alive : SlotsOf(p) # {} \/ \E f \in forking : f[2] = p
      /\ 0 \notin Pid
  BY FlStparseAssumption DEF StparseInv, FlStparseNext, NoneLost
\* A process that is followed and has a slot is known, and is where its slot says.
<1>a. ASSUME NEW p \in Alive, p \in sound, SlotsOf(p) # {}
      PROVE  Known(p) /\ procs[FirstSlot(p)].cwd = dirOf[p]
  <2>1. Known(p)
    BY <1>0, <1>a DEF Known
  <2> QED
    BY <1>0, <1>a, <2>1 DEF TableSound
<1>b. ASSUME UNCHANGED procs
      PROVE  \A q : SlotsOf(q)' = SlotsOf(q) /\ FirstSlot(q)' = FirstSlot(q)
  <2>1. \A q : SlotsOf(q)' = SlotsOf(q)
    BY <1>b DEF SlotsOf
  <2> QED
    BY <2>1 DEF FirstSlot
<1>1. ASSUME NEW p \in Pid, NEW c \in Pid, Fork(p, c) PROVE StparseInv'
  <2>1. /\ p \in Alive /\ c \notin Alive /\ \A f \in forking : f[2] # c
        /\ dirOf' = [dirOf EXCEPT ![c] = dirOf[p]] /\ forking' = forking \cup {<<p, c>>}
        /\ sound' = IF p \in sound /\ SlotsOf(c) = {} THEN sound \cup {c} ELSE sound \ {c}
        /\ UNCHANGED <<procs, mycwd, logged, exit_code>>
    BY <1>1 DEF Fork
  <2>2. /\ dirOf' \in [Pid -> Dir \cup {None}] /\ forking' \in SUBSET (Pid \X Pid)
        /\ Alive' = Alive \cup {c} /\ \A q \in Pid : q # c => dirOf'[q] = dirOf[q]
        /\ dirOf'[c] = dirOf[p] /\ p # c
    BY <1>0, <2>1 DEF Alive
  <2>3. \A q : SlotsOf(q)' = SlotsOf(q) /\ FirstSlot(q)' = FirstSlot(q)
    BY <1>b, <2>1
  <2>4. TableSound'
    <3> SUFFICES ASSUME NEW q \in sound' \cap Alive', Known(q)'
                 PROVE  procs'[FirstSlot(q)'].cwd = dirOf'[q]
      BY DEF TableSound
    <3>0. <<p, c>> \in forking' /\ <<p, c>>[2] = c /\ \A f \in forking' : f[2] # q
      BY <2>1 DEF Known
    <3>1. q # c
      BY <3>0
    <3>2. q \in sound \cap Alive /\ Known(q)
      BY <2>1, <2>2, <2>3, <3>1 DEF Known
    <3> QED
      BY <1>0, <2>1, <2>2, <2>3, <3>1, <3>2 DEF TableSound, Alive
  <2>5. \A f \in forking' : f[1] \in Alive'
    BY <1>0, <2>1, <2>2
  <2>6. \A f, g \in forking' : f[2] = g[2] => f = g
    BY <1>0, <2>1
  <2>7. ASSUME NEW f \in forking', f[2] \in sound'
        PROVE  SlotsOf(f[2])' = {} /\ f[1] \in sound' /\ dirOf'[f[2]] = dirOf'[f[1]]
    <3>1. CASE f = <<p, c>>
      BY <2>1, <2>2, <2>3, <2>7, <3>1
    <3>2. CASE f \in forking
      <4>1. f[2] # c /\ f[1] # c /\ f[1] \in Pid /\ f[2] \in Pid
        BY <1>0, <2>1, <3>2
      <4>2. f[2] \in sound
        BY <2>1, <2>7, <4>1
      <4>3. SlotsOf(f[2]) = {} /\ f[1] \in sound /\ dirOf[f[2]] = dirOf[f[1]]
        BY <1>0, <3>2, <4>2
      <4> QED
        BY <2>1, <2>2, <2>3, <4>1, <4>3
    <3> QED
      BY <2>1, <3>1, <3>2
  <2>8. NoneLost'
    BY <1>0, <2>1, <2>2, <2>3 DEF NoneLost
  <2>9. LoggedWhereItWas'
    BY <1>0, <2>1 DEF LoggedWhereItWas
  <2> QED
    BY <1>0, <2>1, <2>2, <2>4, <2>5, <2>6, <2>7, <2>8, <2>9 DEF StparseInv
\* A process that is gone.
<1>2. ASSUME NEW p \in Pid, Kill(p) PROVE StparseInv'
  <2>1. /\ p \in Alive \ Blocked /\ \A f \in forking : f[2] # p
        /\ dirOf' = [dirOf EXCEPT ![p] = None] /\ sound' = sound \ {p}
        /\ UNCHANGED <<forking, procs, mycwd, logged, exit_code>>
    BY <1>2 DEF Kill
  <2>2. /\ dirOf' \in [Pid -> Dir \cup {None}]
        /\ Alive' = Alive \ {p} /\ \A q \in Pid : q # p => dirOf'[q] = dirOf[q]
    BY <1>0, <2>1 DEF Alive
  <2>3. \A q : SlotsOf(q)' = SlotsOf(q) /\ FirstSlot(q)' = FirstSlot(q)
    BY <1>b, <2>1
  <2>4. \A f \in forking : f[1] # p /\ f[2] # p /\ f[1] \in Pid /\ f[2] \in Pid
    BY <1>0, <2>1 DEF Blocked
  <2>5. TableSound'
    BY <1>0, <2>1, <2>2, <2>3 DEF TableSound, Known, Alive
  <2>6. ASSUME NEW f \in forking', f[2] \in sound'
        PROVE  SlotsOf(f[2])' = {} /\ f[1] \in sound' /\ dirOf'[f[2]] = dirOf'[f[1]]
    BY <1>0, <2>1, <2>2, <2>3, <2>4, <2>6
  <2>7. NoneLost' /\ LoggedWhereItWas'
    BY <1>0, <2>1, <2>2, <2>3 DEF NoneLost, LoggedWhereItWas
  <2> QED
    BY <1>0, <2>1, <2>2, <2>4, <2>5, <2>6, <2>7 DEF StparseInv
<1>3. ASSUME NEW p \in Pid, NEW c \in Pid, ForkLine(p, c) PROVE StparseInv'
  <2>1. /\ <<p, c>> \in forking /\ forking' = forking \ {<<p, c>>}
        /\ IF SlotsOf(p) = {} THEN Fails ELSE newproc(c, procs[FirstSlot(p)].cwd)
        /\ dirOf' = dirOf /\ sound' = sound
    BY <1>3 DEF ForkLine
  <2>2. Alive' = Alive /\ forking' \in SUBSET (Pid \X Pid)
    BY <1>0, <2>1 DEF Alive
  <2>3. c \in sound => SlotsOf(c) = {} /\ p \in sound /\ dirOf[c] = dirOf[p]
    BY <1>0, <2>1
  <2>c. \A f \in forking' : f[2] # c
    BY <1>0, <2>1
  <2>4. CASE SlotsOf(p) = {} \/ SlotsOf(0) = {}
    <3>1. exit_code' = "exit(1)" /\ UNCHANGED <<procs, mycwd, logged>>
      BY <2>1, <2>4 DEF Fails, newproc
    <3>2. \A q : SlotsOf(q)' = SlotsOf(q) /\ FirstSlot(q)' = FirstSlot(q)
      BY <1>b, <3>1
    <3>3. TableSound'
      <4> SUFFICES ASSUME NEW q \in sound' \cap Alive', Known(q)'
                   PROVE  procs'[FirstSlot(q)'].cwd = dirOf'[q]
        BY DEF TableSound
      <4>1. SlotsOf(q) # {} /\ q \in sound /\ q \in Alive
        BY <2>1, <2>2, <3>2 DEF Known
      <4> QED
        BY <1>a, <2>1, <3>1, <3>2, <4>1
    <3>4. LoggedWhereItWas'
      BY <1>0, <3>1 DEF LoggedWhereItWas
    <3> QED
      BY <1>0, <2>1, <2>2, <3>1, <3>3, <3>4 DEF StparseInv
  <2>5. CASE SlotsOf(p) # {} /\ SlotsOf(0) # {}
    <3> DEFINE k == FirstSlot(0)
               e == [pid |-> c, cwd |-> procs[FirstSlot(p)].cwd]
    <3>1. procs' = [procs EXCEPT ![k] = e] /\ UNCHANGED <<mycwd, logged, exit_code>>
      BY <2>1, <2>5 DEF newproc
    <3>2. k \in Slot /\ procs[k].pid = 0 /\ FirstSlot(p) \in Slot
      BY <2>5, FirstSlotIs
    <3>3. e \in ProcEntry /\ e.pid = c
      <4>1. procs[FirstSlot(p)] \in ProcEntry
        BY <1>0, <3>2
      <4> QED
        BY <4>1 DEF ProcEntry
    <3>4. e.cwd = procs[FirstSlot(p)].cwd
      OBVIOUS
    <3> HIDE DEF k, e
    <3>5. /\ procs' \in [Slot -> ProcEntry] /\ procs'[k] = e
          /\ \A q \in Pid : q # c =>
               /\ SlotsOf(q)' = SlotsOf(q) /\ FirstSlot(q)' = FirstSlot(q)
               /\ SlotsOf(q) # {} => procs'[FirstSlot(q)] = procs[FirstSlot(q)]
      <4>1. /\ procs' \in [Slot -> ProcEntry]
            /\ \A q : q # procs[k].pid /\ q # e.pid =>
                 /\ SlotsOf(q)' = SlotsOf(q) /\ FirstSlot(q)' = FirstSlot(q)
                 /\ SlotsOf(q) # {} => procs'[FirstSlot(q)] = procs[FirstSlot(q)]
        BY <1>0, <3>1, <3>2, <3>3, OtherSlots
      <4> QED
        BY <1>0, <3>1, <3>2, <3>3, <4>1
    <3>6. SlotsOf(c)' # {}
      BY <3>2, <3>3, <3>5 DEF SlotsOf
    <3>7. c \in sound => FirstSlot(c)' = k /\ e.cwd = dirOf[c]
      <4> SUFFICES ASSUME c \in sound PROVE FirstSlot(c)' = k /\ e.cwd = dirOf[c]
        OBVIOUS
      <4>1. SlotsOf(c) = {} /\ p \in sound /\ dirOf[c] = dirOf[p]
        BY <2>3
      <4>2. SlotsOf(c)' = {k}
        BY <1>0, <3>1, <3>2, <3>3, <4>1 DEF SlotsOf
      <4>3. FirstSlot(c)' = k
        <5>1. k <= k
          BY <3>2 DEF Slot
        <5> QED
          BY <4>2, <5>1 DEF FirstSlot
      <4>4. p \in Alive
        BY <1>0, <2>1
      <4> QED
        BY <1>a, <2>5, <3>4, <4>1, <4>3, <4>4
    <3>8. TableSound'
      <4> SUFFICES ASSUME NEW q \in sound' \cap Alive', Known(q)'
                   PROVE  procs'[FirstSlot(q)'].cwd = dirOf'[q]
        BY DEF TableSound
      <4>1. CASE q = c
        BY <2>1, <3>5, <3>7, <4>1
      <4>2. CASE q # c
        <5>1. q \in Pid /\ q \in Alive /\ q \in sound
          BY <2>1, <2>2 DEF Alive
        <5>2. SlotsOf(q) # {}
          BY <3>5, <4>2, <5>1 DEF Known
        <5> QED
          BY <1>a, <2>1, <3>5, <4>2, <5>1, <5>2
      <4> QED
        BY <4>1, <4>2
    <3>9. ASSUME NEW f \in forking', f[2] \in sound'
          PROVE  SlotsOf(f[2])' = {} /\ f[1] \in sound' /\ dirOf'[f[2]] = dirOf'[f[1]]
      <4>1. f \in forking /\ f[2] # c /\ f[2] \in Pid /\ f[2] \in sound
        BY <1>0, <2>1, <2>c, <3>9
      <4> QED
        BY <1>0, <2>1, <3>5, <4>1
    <3>10. NoneLost'
      <4> SUFFICES ASSUME NEW q \in Alive' PROVE SlotsOf(q)' # {} \/ \E f \in forking' : f[2] = q
        BY DEF NoneLost
      <4>1. CASE q = c
        BY <3>6, <4>1
      <4>2. CASE q # c
        BY <1>0, <2>1, <2>2, <3>5, <4>2 DEF Alive
      <4> QED
        BY <4>1, <4>2
    <3>11. LoggedWhereItWas'
      BY <1>0, <3>1 DEF LoggedWhereItWas
    <3> QED
      BY <1>0, <2>1, <2>2, <3>1, <3>5, <3>8, <3>9, <3>10, <3>11 DEF StparseInv
  <2> QED
    BY <2>4, <2>5
<1>4. ASSUME NEW p \in Pid, ExitLine(p) PROVE StparseInv'
  <2>1. /\ p \in Alive \ Blocked
        /\ dirOf' = [dirOf EXCEPT ![p] = None] /\ sound' = sound \ {p}
        /\ freeproc(p) /\ forking' = forking
    BY <1>4 DEF ExitLine
  <2>2. /\ dirOf' \in [Pid -> Dir \cup {None}]
        /\ Alive' = Alive \ {p} /\ \A q \in Pid : q # p => dirOf'[q] = dirOf[q]
    BY <1>0, <2>1 DEF Alive
  <2>3. \A f \in forking : f[1] # p /\ f[1] \in Pid /\ f[2] \in Pid
    BY <1>0, <2>1 DEF Blocked
  <2>4. CASE SlotsOf(p) = {}
    <3>1. exit_code' = "exit(1)" /\ UNCHANGED <<procs, mycwd, logged>>
      BY <2>1, <2>4 DEF Fails, freeproc
    <3>2. \A q : SlotsOf(q)' = SlotsOf(q) /\ FirstSlot(q)' = FirstSlot(q)
      BY <1>b, <3>1
    <3>3. TableSound' /\ LoggedWhereItWas'
      BY <1>0, <2>1, <2>2, <3>1, <3>2 DEF TableSound, Known, Alive, LoggedWhereItWas
    <3> QED
      BY <1>0, <2>1, <2>2, <3>1, <3>3 DEF StparseInv
  <2>5. CASE SlotsOf(p) # {}
    <3> DEFINE k == FirstSlot(p)
    <3>1. procs' = [procs EXCEPT ![k] = Free] /\ UNCHANGED <<mycwd, logged, exit_code>>
      BY <2>1, <2>5 DEF freeproc
    <3>2. k \in Slot /\ procs[k].pid = p
      BY <2>5, FirstSlotIs
    <3>3. Free \in ProcEntry /\ Free.pid = 0
      BY DEF ProcEntry, Free
    <3> HIDE DEF k
    <3>5. /\ procs' \in [Slot -> ProcEntry]
          /\ \A q \in Pid : q # p =>
               /\ SlotsOf(q)' = SlotsOf(q) /\ FirstSlot(q)' = FirstSlot(q)
               /\ SlotsOf(q) # {} => procs'[FirstSlot(q)] = procs[FirstSlot(q)]
      <4>1. /\ procs' \in [Slot -> ProcEntry]
            /\ \A q : q # procs[k].pid /\ q # Free.pid =>
                 /\ SlotsOf(q)' = SlotsOf(q) /\ FirstSlot(q)' = FirstSlot(q)
                 /\ SlotsOf(q) # {} => procs'[FirstSlot(q)] = procs[FirstSlot(q)]
        BY <1>0, <3>1, <3>2, <3>3, OtherSlots
      <4> QED
        BY <1>0, <3>1, <3>2, <3>3, <4>1
    <3>6. TableSound'
      <4> SUFFICES ASSUME NEW q \in sound' \cap Alive', Known(q)'
                   PROVE  procs'[FirstSlot(q)'].cwd = dirOf'[q]
        BY DEF TableSound
      <4>1. q \in Pid /\ q \in Alive /\ q \in sound /\ q # p
        BY <2>1, <2>2 DEF Alive
      <4>2. SlotsOf(q) # {}
        BY <3>5, <4>1 DEF Known
      <4> QED
        BY <1>a, <2>1, <2>2, <3>5, <4>1, <4>2
    <3>7. ASSUME NEW f \in forking', f[2] \in sound'
          PROVE  SlotsOf(f[2])' = {} /\ f[1] \in sound' /\ dirOf'[f[2]] = dirOf'[f[1]]
      <4>1. f \in forking /\ f[2] # p /\ f[2] \in sound /\ f[1] # p /\ f[1] \in Pid /\ f[2] \in Pid
        BY <2>1, <2>3, <3>7
      <4> QED
        BY <1>0, <2>1, <2>2, <3>5, <4>1
    <3>8. NoneLost'
      <4> SUFFICES ASSUME NEW q \in Alive' PROVE SlotsOf(q)' # {} \/ \E f \in forking' : f[2] = q
        BY DEF NoneLost
      <4> QED
        BY <1>0, <2>1, <2>2, <3>5 DEF Alive
    <3>9. LoggedWhereItWas'
      BY <1>0, <3>1 DEF LoggedWhereItWas
    <3> QED
      BY <1>0, <2>1, <2>2, <2>3, <3>1, <3>5, <3>6, <3>7, <3>8, <3>9 DEF StparseInv
  <2> QED
    BY <2>4, <2>5
<1>5. ASSUME NEW p \in Pid, NameLine(p) PROVE StparseInv'
  <2>1. /\ p \in Alive \ Blocked /\ UNCHANGED <<dirOf, forking, sound>>
        /\ IF SlotsOf(p) = {} THEN Fails
           ELSE /\ logged' = [dir |-> procs[FirstSlot(p)].cwd, meant |-> dirOf[p], sound |-> p \in sound]
                /\ UNCHANGED <<procs, mycwd, exit_code>>
    BY <1>5 DEF NameLine, kernel
  <2>2. UNCHANGED <<procs, mycwd>>
    BY <2>1 DEF Fails
  <2>3. \A q : SlotsOf(q)' = SlotsOf(q) /\ FirstSlot(q)' = FirstSlot(q)
    BY <1>b, <2>2
  <2>4. Alive' = Alive /\ TableSound'
    BY <1>0, <2>1, <2>2, <2>3 DEF Alive, TableSound, Known
  <2>5. LoggedWhereItWas'
    <3>1. CASE SlotsOf(p) = {}
      BY <1>0, <2>1, <3>1 DEF Fails, LoggedWhereItWas
    <3>2. CASE SlotsOf(p) # {}
      <4>1. p \in sound => procs[FirstSlot(p)].cwd = dirOf[p]
        BY <1>a, <2>1, <3>2
      <4> DEFINE followed == p \in sound
                 dir == procs[FirstSlot(p)].cwd
      <4>2. logged' = [dir |-> dir, meant |-> dirOf[p], sound |-> followed]
        BY <2>1, <3>2
      <4>3. followed => dir = dirOf[p]
        BY <4>1
      <4> HIDE DEF followed, dir
      <4>4. logged'.dir = dir /\ logged'.meant = dirOf[p] /\ logged'.sound = followed
        BY <4>2
      <4> QED
        BY <4>3, <4>4 DEF LoggedWhereItWas
    <3> QED
      BY <3>1, <3>2
  <2>6. NoneLost'
    BY <1>0, <2>1, <2>3, <2>4 DEF NoneLost
  <2> QED
    BY <1>0, <2>1, <2>2, <2>3, <2>4, <2>5, <2>6 DEF StparseInv
<1>6. ASSUME NEW p \in Pid, NEW t \in Target, ChdirLine(p, t) PROVE StparseInv'
  <2> DEFINE there == Dir \ gone
             from == procs[FirstSlot(p)].cwd
             at == IF from \in there THEN from ELSE mycwd
             to == Resolve(dirOf[p], t)
  <2>1. /\ p \in Alive \ Blocked
        /\ dirOf' = [dirOf EXCEPT ![p] = Chdir(dirOf[p], t, Dir)]
        /\ sound' = IF to \in gone \/ (dirOf[p] \in gone /\ ~t.abs) THEN sound \ {p}
                    ELSE IF t.abs /\ to \in Dir /\ Single(p) THEN sound \cup {p} ELSE sound
        /\ IF SlotsOf(p) = {} THEN Fails
           ELSE /\ mycwd' = Chdir(at, t, there)
                /\ procs' = [procs EXCEPT ![FirstSlot(p)].cwd = mycwd']
                /\ UNCHANGED <<logged, exit_code>>
        /\ forking' = forking
    BY <1>6 DEF ChdirLine
  <2>2. p \in Pid /\ dirOf[p] \in Dir /\ dirOf[p] # None
    BY <1>0, <2>1 DEF Alive
  <2>3. Chdir(dirOf[p], t, Dir) \in Dir
    BY <2>2 DEF Chdir
  <2>4. /\ dirOf' \in [Pid -> Dir \cup {None}] /\ dirOf'[p] = Chdir(dirOf[p], t, Dir)
        /\ \A q \in Pid : q # p => dirOf'[q] = dirOf[q]
        /\ \A q \in Pid : q # p => (q \in Alive' <=> q \in Alive)
        /\ Alive' \subseteq Alive
    BY <1>0, <2>1, <2>2, <2>3 DEF Alive
  <2>5. \A q : q # p => (q \in sound' <=> q \in sound)
    BY <2>1
  <2>6. \A f \in forking : f[1] # p /\ f[1] \in Pid /\ f[2] \in Pid
    BY <1>0, <2>1 DEF Blocked
  <2> HIDE DEF to, there, from, at
  <2>7. CASE SlotsOf(p) = {}
    <3>1. exit_code' = "exit(1)" /\ UNCHANGED <<procs, mycwd, logged>>
      BY <2>1, <2>7 DEF Fails
    <3>2. \A q : SlotsOf(q)' = SlotsOf(q) /\ FirstSlot(q)' = FirstSlot(q)
      BY <1>b, <3>1
    <3>3. TableSound'
      <4> SUFFICES ASSUME NEW q \in sound' \cap Alive', Known(q)'
                   PROVE  procs'[FirstSlot(q)'].cwd = dirOf'[q]
        BY DEF TableSound
      <4>1. q # p /\ SlotsOf(q) # {} /\ q \in Pid
        BY <2>7, <3>2 DEF Known, Alive
      <4>2. q \in sound /\ q \in Alive
        BY <2>4, <2>5, <4>1
      <4> QED
        BY <1>a, <2>4, <3>1, <3>2, <4>1, <4>2
    <3>4. LoggedWhereItWas'
      BY <1>0, <3>1 DEF LoggedWhereItWas
    <3> QED
      BY <1>0, <2>1, <2>4, <3>1, <3>3, <3>4 DEF StparseInv
  <2>8. CASE SlotsOf(p) # {}
    <3> DEFINE k == FirstSlot(p)
    <3>1. /\ mycwd' = Chdir(at, t, there) /\ procs' = [procs EXCEPT ![k].cwd = mycwd']
          /\ UNCHANGED <<logged, exit_code>>
      BY <2>1, <2>8
    <3>2. k \in Slot /\ procs[k].pid = p /\ procs[k] \in ProcEntry
      BY <1>0, <2>8, FirstSlotIs
    <3>3. mycwd' \in Dir \cup {None}
      <4>1. at \in Dir \cup {None}
        BY <1>0, <3>2 DEF at, there
      <4> QED
        BY <3>1, <4>1 DEF Chdir, there
    <3> HIDE DEF k
    <3>4. /\ procs' \in [Slot -> ProcEntry] /\ procs'[k].cwd = mycwd'
          /\ \A c \in Slot : procs'[c].pid = procs[c].pid
          /\ \A c \in Slot : c # k => procs'[c] = procs[c]
      BY <1>0, <3>1, <3>2, <3>3 DEF ProcEntry
    <3>5. \A q : SlotsOf(q)' = SlotsOf(q)
      BY <3>4 DEF SlotsOf
    <3>6. \A q : FirstSlot(q)' = FirstSlot(q)
      BY <3>5 DEF FirstSlot
    <3>7. \A q : q # p /\ SlotsOf(q) # {} => procs'[FirstSlot(q)] = procs[FirstSlot(q)]
      BY <3>2, <3>4, FirstSlotIs
    <3>8. \A f \in forking : f[2] \in sound => f[2] # p
      BY <1>0, <2>8
    <3>9. p \in sound' => p \in sound \/ \A f \in forking : f[2] # p
      BY <2>1 DEF Single
    <3>10. ASSUME p \in sound' PROVE mycwd' = dirOf'[p]
      <4>1. to \notin gone /\ (t.abs \/ dirOf[p] \notin gone)
        BY <2>1, <3>10
      <4>2. CASE t.abs
        <5>1. t.dir \in Dir /\ to = t.dir
          BY <4>2 DEF Target, to, Resolve
        <5>2. dirOf'[p] = t.dir
          BY <2>4, <4>2, <5>1 DEF Chdir, Resolve
        <5>3. mycwd' = t.dir
          BY <3>1, <4>1, <4>2, <5>1 DEF Chdir, Resolve, there
        <5> QED
          BY <5>2, <5>3
      <4>3. CASE ~t.abs
        <5>1. dirOf[p] \in there
          BY <2>2, <4>1, <4>3 DEF there
        <5>2. p \in sound
          BY <2>1, <3>10, <4>3
        <5>3. from = dirOf[p]
          BY <1>a, <2>1, <2>8, <5>2 DEF from
        <5>4. at = dirOf[p]
          BY <5>1, <5>3 DEF at
        <5>5. Resolve(dirOf[p], t) \in there <=> Resolve(dirOf[p], t) \in Dir
          BY <4>1 DEF there, to
        <5> QED
          BY <2>4, <3>1, <5>4, <5>5 DEF Chdir
      <4> QED
        BY <4>2, <4>3
    <3>11. TableSound'
      <4> SUFFICES ASSUME NEW q \in sound' \cap Alive', Known(q)'
                   PROVE  procs'[FirstSlot(q)'].cwd = dirOf'[q]
        BY DEF TableSound
      <4>1. CASE q = p
        BY <3>4, <3>6, <3>10, <4>1 DEF k
      <4>2. CASE q # p
        <5>1. q \in Pid /\ q \in Alive /\ q \in sound /\ SlotsOf(q) # {}
          BY <2>4, <2>5, <3>5, <4>2 DEF Known, Alive
        <5> QED
          BY <1>a, <2>4, <3>6, <3>7, <4>2, <5>1
      <4> QED
        BY <4>1, <4>2
    <3>12. ASSUME NEW f \in forking', f[2] \in sound'
           PROVE  SlotsOf(f[2])' = {} /\ f[1] \in sound' /\ dirOf'[f[2]] = dirOf'[f[1]]
      <4>1. f \in forking /\ f[1] # p /\ f[1] \in Pid /\ f[2] \in Pid
        BY <2>1, <2>6
      <4>2. f[2] # p
        BY <3>8, <3>9, <3>12, <4>1
      <4>3. f[2] \in sound
        BY <2>5, <3>12, <4>2
      <4> QED
        BY <1>0, <2>4, <2>5, <3>5, <4>1, <4>2, <4>3
    <3>13. \A f \in forking' : f[1] \in Alive'
      BY <1>0, <2>1, <2>4, <2>6
    <3>14. NoneLost'
      <4> SUFFICES ASSUME NEW q \in Alive' PROVE SlotsOf(q)' # {} \/ \E f \in forking' : f[2] = q
        BY DEF NoneLost
      <4> QED
        BY <1>0, <2>1, <2>4, <3>5
    <3>15. LoggedWhereItWas'
      BY <1>0, <3>1 DEF LoggedWhereItWas
    <3> QED
      BY <1>0, <2>1, <2>4, <3>1, <3>3, <3>4, <3>11, <3>12, <3>13, <3>14, <3>15 DEF StparseInv
  <2> QED
    BY <2>7, <2>8
<1> QED
  BY <1>1, <1>2, <1>3, <1>4, <1>5, <1>6 DEF FlStparseNext

-----------------------------------------------------------------------------
(* ifenslave.                                                              *)

Hardware == Iface \cup {NoMac}
Settings == [up : BOOLEAN, mac : Hardware, mtu : {DefaultMtu, BondMtu},
             addr : {"own", "master", "none"}, slave : BOOLEAN]

\* The places of the program: main(), and per interface those of enslave(),
\* release() and change_active().
Beginning == {"handshake", "master"}
Enslaving == {"slavemac", "slaveup", "masterdown", "mastermac", "masterup", "set", "bond"}
Undoing == {"undo_master_mac", "undo_slave_mac", "undo_mtu"}
Midway == {"mac"} \cup Enslaving \cup Undoing
Enslave == {"check", "addr", "mtu"} \cup Midway
Detach == {"release", "reldown", "relmtu"}

ToCome == {slaves[i] : i \in DOMAIN slaves}
Unread(s) == s \in ToCome /\ (epc \in Beginning \cup {"settings"} \/ s # now)

Bonds == [ismaster : BOOLEAN, up : BOOLEAN, ether : BOOLEAN, mac : Hardware, active : Hardware]

SettingTypes == iface \in [Iface -> Settings] /\ slave \in Settings /\ bond \in Bonds
FlagTypes ==
  /\ opt \in {"enslave", "detach", "change"} /\ abi_ver \in 0 .. 2
  /\ epc \in Beginning \cup Enslave \cup Detach \cup {"settings", "active", "out"}
  /\ res \in {0, 1} /\ failures \in Nat /\ master_hwaddr \in Hardware
  /\ hwaddr_set \in BOOLEAN /\ failure \in BOOLEAN /\ undone \in BOOLEAN
BondTypes == SettingTypes /\ FlagTypes

\* The arguments that are left are different ones.
ArgsLeft == slaves \in Seq(Iface) /\ \A i, j \in 1 .. Len(slaves) : slaves[i] = slaves[j] => i = j

\* What is called for what, and how far the arguments are.
Places ==
  /\ epc \in Enslave => opt = "enslave"
  /\ epc \in Detach => opt = "detach"
  /\ epc = "active" => opt = "change"
  /\ epc \in {"slavemac", "slaveup", "masterdown", "masterup", "undo_slave_mac"} => abi_ver = 0
  /\ epc # "out" => slaves # <<>>
  /\ (epc = "out" /\ res = 0 /\ opt # "change") => slaves = <<>>
  /\ (opt = "change" /\ epc # "out") => slaves = Slave

\* Before the loop nothing has been changed.
AtFirst ==
  epc \in Beginning =>
    /\ res = 0 /\ ~hwaddr_set /\ ~undone /\ master_hwaddr = NoMac /\ slaves = Slave
    /\ \/ iface = [s \in Iface |-> Own(s)]
       \/ bond.mac # NoMac /\ iface = [s \in Iface |-> Enslaved(bond.mac)]

\* An interface that is still to come has an address; only the present one can
\* have lost it.
HasAddress == /\ \A s \in Iface : Unread(s) => iface[s].mac # NoMac
              /\ epc \in {"check", "addr", "mtu", "mac", "masterdown", "mastermac"} => slave.mac # NoMac

\* hwaddr_set, and what it says of the bond.
AddressOfBond ==
  /\ (hwaddr_set \/ epc \in {"masterup", "set"}) => bond.mac # NoMac
  /\ epc \in {"slavemac", "slaveup", "bond"} => hwaddr_set
  /\ epc \in {"masterdown", "mastermac", "masterup", "set"} => ~hwaddr_set
  /\ (opt = "enslave" /\ epc \notin Beginning \cup {"out"} /\ ~undone) =>
       /\ ~hwaddr_set => \A s \in Iface : ~iface[s].slave
       /\ (abi_ver = 0 /\ master_hwaddr # NoMac) => hwaddr_set /\ bond.mac = master_hwaddr

\* The present interface is none of the bond's until the call that makes it one.
Present ==
  /\ epc = "check" => slave = iface[now]
  /\ epc \in Enslave \ {"check"} => ~iface[now].slave /\ ~slave.slave
  /\ epc = "addr" => slave.mtu = iface[now].mtu
  /\ epc \in {"mac"} \cup Enslaving => iface[now].mtu = BondMtu
  /\ (Refreshed /\ abi_ver = 0 /\ epc \in {"slaveup", "bond"}) => iface[now].mac = master_hwaddr
  /\ (Refreshed /\ abi_ver = 0 /\ epc = "bond") => iface[now].up
  /\ epc \in {"reldown", "relmtu"} => ~iface[now].slave
  /\ epc = "active" => slave.slave = iface[now].slave

\* Those that are no slaves are as they were, the present one excepted.
AsBefore ==
  opt = "enslave" =>
    /\ abi_ver > 0 => \A s \in Iface : ~iface[s].slave => iface[s].mac = s
    /\ failures <= 1 =>
         /\ \A s \in Iface : ~iface[s].slave /\ ~(epc \in Midway /\ s = now) => iface[s].mtu = DefaultMtu
         /\ (epc \in Enslave /\ ~slave.slave) => slave.mtu = DefaultMtu
    /\ epc \in Undoing => failures >= 1

\* Those that are done with are what was asked for, as long as no error was met.
DoneSoFar ==
  res = 0 =>
    CASE opt = "enslave" ->
           \A s \in Iface \ ToCome : iface[s].slave /\ iface[s].mtu = BondMtu /\ (Refreshed => iface[s].up)
      [] opt = "detach" -> \A s \in Iface \ ToCome : ~iface[s].slave
      [] OTHER -> epc = "out" => bond.active = Slave[1] /\ iface[Slave[1]].slave

BondInv ==
  /\ BondTypes /\ ArgsLeft /\ Places /\ AtFirst /\ HasAddress /\ AddressOfBond
  /\ Present /\ AsBefore /\ DoneSoFar /\ OneAddressUnlessUndone

\* The present interface, and those that are left when it is done with.
Turn ==
  /\ now \in Iface /\ now \in ToCome /\ ToCome \subseteq Iface /\ slaves # <<>>
  /\ slaves = Slave => ToCome = Iface /\ now = Slave[1]
  /\ slaves' = slaves => now' = now /\ ToCome' = ToCome
  /\ slaves' = Tail(slaves) => ToCome' = ToCome \ {now} /\ (slaves' = <<>> <=> Len(slaves) = 1)

\* A changed setting is one.
LEMMA ChangedSettings ==
  ASSUME NEW f \in Settings
  PROVE  /\ \A u \in BOOLEAN : [f EXCEPT !.up = u] \in Settings /\ [f EXCEPT !.slave = u] \in Settings
         /\ \A h \in Hardware : [f EXCEPT !.mac = h] \in Settings
         /\ \A n \in {DefaultMtu, BondMtu} : [f EXCEPT !.mtu = n] \in Settings
         /\ \A a \in {"own", "master", "none"} : [f EXCEPT !.addr = a] \in Settings
         /\ f.slave \in BOOLEAN /\ f.mac \in Hardware /\ f.mtu \in {DefaultMtu, BondMtu}
<1>1. /\ f.up \in BOOLEAN /\ f.mac \in Hardware /\ f.mtu \in {DefaultMtu, BondMtu}
      /\ f.addr \in {"own", "master", "none"} /\ f.slave \in BOOLEAN
      /\ f = [up |-> f.up, mac |-> f.mac, mtu |-> f.mtu, addr |-> f.addr, slave |-> f.slave]
  BY DEF Settings
<1>2. ASSUME NEW u \in BOOLEAN
      PROVE  [f EXCEPT !.up = u] \in Settings /\ [f EXCEPT !.slave = u] \in Settings
  <2>1. /\ [f EXCEPT !.up = u] = [up |-> u, mac |-> f.mac, mtu |-> f.mtu, addr |-> f.addr, slave |-> f.slave]
        /\ [f EXCEPT !.slave = u] = [up |-> f.up, mac |-> f.mac, mtu |-> f.mtu, addr |-> f.addr, slave |-> u]
    BY <1>1
  <2> QED
    BY <1>1, <2>1 DEF Settings
<1>3. ASSUME NEW h \in Hardware PROVE [f EXCEPT !.mac = h] \in Settings
  <2>1. [f EXCEPT !.mac = h] = [up |-> f.up, mac |-> h, mtu |-> f.mtu, addr |-> f.addr, slave |-> f.slave]
    BY <1>1
  <2> QED
    BY <1>1, <2>1 DEF Settings
<1>4. ASSUME NEW n \in {DefaultMtu, BondMtu} PROVE [f EXCEPT !.mtu = n] \in Settings
  <2>1. [f EXCEPT !.mtu = n] = [up |-> f.up, mac |-> f.mac, mtu |-> n, addr |-> f.addr, slave |-> f.slave]
    BY <1>1
  <2> QED
    BY <1>1, <2>1 DEF Settings
<1>5. ASSUME NEW a \in {"own", "master", "none"} PROVE [f EXCEPT !.addr = a] \in Settings
  <2>1. [f EXCEPT !.addr = a] = [up |-> f.up, mac |-> f.mac, mtu |-> f.mtu, addr |-> a, slave |-> f.slave]
    BY <1>1
  <2> QED
    BY <1>1, <2>1 DEF Settings
<1> QED
  BY <1>1, <1>2, <1>3, <1>4, <1>5

\* A changed bond is one.
LEMMA ChangedBond ==
  ASSUME bond \in Bonds
  PROVE  /\ \A u \in BOOLEAN : [bond EXCEPT !.up = u] \in Bonds
         /\ \A h \in Hardware : [bond EXCEPT !.mac = h] \in Bonds /\ [bond EXCEPT !.active = h] \in Bonds
         /\ bond.mac \in Hardware
<1>1. /\ bond.ismaster \in BOOLEAN /\ bond.up \in BOOLEAN /\ bond.ether \in BOOLEAN
      /\ bond.mac \in Hardware /\ bond.active \in Hardware
      /\ bond = [ismaster |-> bond.ismaster, up |-> bond.up, ether |-> bond.ether,
                 mac |-> bond.mac, active |-> bond.active]
  BY DEF Bonds
<1>2. ASSUME NEW u \in BOOLEAN PROVE [bond EXCEPT !.up = u] \in Bonds
  <2>1. [bond EXCEPT !.up = u] = [ismaster |-> bond.ismaster, up |-> u, ether |-> bond.ether,
                                  mac |-> bond.mac, active |-> bond.active]
    BY <1>1
  <2> QED
    BY <1>1, <2>1 DEF Bonds
<1>3. ASSUME NEW h \in Hardware
      PROVE  [bond EXCEPT !.mac = h] \in Bonds /\ [bond EXCEPT !.active = h] \in Bonds
  <2>1. /\ [bond EXCEPT !.mac = h] = [ismaster |-> bond.ismaster, up |-> bond.up, ether |-> bond.ether,
                                      mac |-> h, active |-> bond.active]
        /\ [bond EXCEPT !.active = h] = [ismaster |-> bond.ismaster, up |-> bond.up, ether |-> bond.ether,
                                         mac |-> bond.mac, active |-> h]
    BY <1>1
  <2> QED
    BY <1>1, <2>1 DEF Bonds
<1> QED
  BY <1>1, <1>2, <1>3

\* What the calls make of an interface, of what is read of it and of the bond.
LEMMA Changes ==
  ASSUME BondTypes, now \in Iface
  PROVE  /\ iface[now] \in Settings /\ slave \in Settings /\ bond \in Bonds
         /\ set_if_flags(now, TRUE) \in Settings /\ set_if_flags(now, FALSE) \in Settings
         /\ MasterAddr(now) \in Settings /\ clear_if_addr(now) \in Settings
         /\ get_slave_flags(now) \in Settings
         /\ [iface[now] EXCEPT !.mtu = BondMtu] \in Settings
         /\ [iface[now] EXCEPT !.mtu = DefaultMtu] \in Settings
         /\ [iface[now] EXCEPT !.mtu = slave.mtu] \in Settings
         /\ [iface[now] EXCEPT !.mac = master_hwaddr] \in Settings
         /\ [iface[now] EXCEPT !.mac = slave.mac] \in Settings
         /\ [iface[now] EXCEPT !.slave = TRUE] \in Settings
         /\ [iface[now] EXCEPT !.slave = TRUE, !.mac = bond.mac, !.up = TRUE] \in Settings
         /\ [iface EXCEPT ![now].slave = FALSE, ![now].mac = now] \in [Iface -> Settings]
         /\ [bond EXCEPT !.up = FALSE] \in Bonds /\ [bond EXCEPT !.up = TRUE] \in Bonds
         /\ [bond EXCEPT !.mac = slave.mac] \in Bonds /\ [bond EXCEPT !.mac = master_hwaddr] \in Bonds
         /\ [bond EXCEPT !.active = now] \in Bonds
<1>1. /\ iface \in [Iface -> Settings] /\ iface[now] \in Settings /\ slave \in Settings
      /\ bond \in Bonds /\ master_hwaddr \in Hardware /\ now \in Hardware
  BY DEF BondTypes, SettingTypes, FlagTypes, Hardware
<1>2. /\ iface[now].slave \in BOOLEAN /\ slave.mac \in Hardware /\ slave.mtu \in {DefaultMtu, BondMtu}
      /\ bond.mac \in Hardware
  BY <1>1, ChangedSettings, ChangedBond
<1>3. set_if_flags(now, TRUE) \in Settings /\ set_if_flags(now, FALSE) \in Settings
  BY <1>1, ChangedSettings DEF set_if_flags
<1>4. MasterAddr(now) \in Settings /\ clear_if_addr(now) \in Settings
  BY <1>1, ChangedSettings DEF MasterAddr, clear_if_addr
<1>5. get_slave_flags(now) \in Settings
  BY <1>1, <1>2, ChangedSettings, Zenon DEF get_slave_flags
<1>6. /\ [iface[now] EXCEPT !.mtu = BondMtu] \in Settings
      /\ [iface[now] EXCEPT !.mtu = DefaultMtu] \in Settings
      /\ [iface[now] EXCEPT !.mtu = slave.mtu] \in Settings
  BY <1>1, <1>2, ChangedSettings
<1>7. /\ [iface[now] EXCEPT !.mac = master_hwaddr] \in Settings
      /\ [iface[now] EXCEPT !.mac = slave.mac] \in Settings
  BY <1>1, <1>2, ChangedSettings
<1>8. /\ [iface[now] EXCEPT !.slave = TRUE] \in Settings
      /\ [iface[now] EXCEPT !.slave = TRUE, !.mac = bond.mac, !.up = TRUE] \in Settings
  <2>1. [iface[now] EXCEPT !.slave = TRUE] \in Settings
    BY <1>1, ChangedSettings
  <2>2. [[iface[now] EXCEPT !.slave = TRUE] EXCEPT !.mac = bond.mac] \in Settings
    BY <1>2, <2>1, ChangedSettings
  <2>3. [[[iface[now] EXCEPT !.slave = TRUE] EXCEPT !.mac = bond.mac] EXCEPT !.up = TRUE] \in Settings
    BY <2>2, ChangedSettings
  <2> QED
    BY <2>1, <2>3
<1>9. [iface EXCEPT ![now].slave = FALSE, ![now].mac = now] \in [Iface -> Settings]
  <2>1. [iface[now] EXCEPT !.slave = FALSE] \in Settings
    BY <1>1, ChangedSettings
  <2>2. [[iface[now] EXCEPT !.slave = FALSE] EXCEPT !.mac = now] \in Settings
    BY <1>1, <2>1, ChangedSettings
  <2> QED
    BY <1>1, <2>2
<1>10. /\ [bond EXCEPT !.up = FALSE] \in Bonds /\ [bond EXCEPT !.up = TRUE] \in Bonds
       /\ [bond EXCEPT !.mac = slave.mac] \in Bonds /\ [bond EXCEPT !.mac = master_hwaddr] \in Bonds
       /\ [bond EXCEPT !.active = now] \in Bonds
  BY <1>1, <1>2, ChangedBond
<1> QED
  BY <1>1, <1>3, <1>4, <1>5, <1>6, <1>7, <1>8, <1>9, <1>10

\* The arguments stay different ones, and one that is done with is gone.
LEMMA ArgumentsInTurn ==
  ASSUME BondInv, epc # "out"
  PROVE  Turn /\ (slaves' \in {slaves, Tail(slaves)} => ArgsLeft')
<1>1. slaves \in Seq(Iface) /\ slaves # <<>> /\ \A i, j \in 1 .. Len(slaves) : slaves[i] = slaves[j] => i = j
  BY DEF BondInv, ArgsLeft, Places
<1>2. Len(slaves) \in Nat \ {0} /\ now = slaves[1] /\ ToCome = {slaves[i] : i \in 1 .. Len(slaves)}
  BY <1>1 DEF now, ToCome
<1>3. now \in ToCome /\ ToCome \subseteq Iface
  BY <1>1, <1>2
<1>4. slaves = Slave => ToCome = Iface /\ now = Slave[1]
  BY <1>1, <1>2 DEF Iface, ToCome
<1>5. slaves' = slaves => now' = now /\ ToCome' = ToCome /\ ArgsLeft'
  BY <1>1 DEF now, ToCome, ArgsLeft
<1>6. ASSUME slaves' = Tail(slaves)
      PROVE  ArgsLeft' /\ ToCome' = ToCome \ {now} /\ (slaves' = <<>> <=> Len(slaves) = 1)
  <2> DEFINE t == Tail(slaves)
             n == Len(slaves)
  <2>a. t \in Seq(Iface) /\ Len(t) = n - 1 /\ n \in Nat \ {0} /\ \A i \in 1 .. n - 1 : t[i] = slaves[i + 1]
    BY <1>1, <1>2
  <2>1. t \in Seq(Iface) /\ Len(t) = n - 1 /\ n \in Nat \ {0} /\ DOMAIN t = 1 .. n - 1 /\ (t = <<>> <=> n = 1)
    <3> HIDE DEF t, n
    <3> QED
      BY <2>a
  <2>2. \A i, j \in 1 .. n : slaves[i] = slaves[j] => i = j
    BY <1>1
  <2>3. slaves' = t /\ ToCome' = {t[i] : i \in DOMAIN t} /\ ToCome = {slaves[i] : i \in 1 .. n} /\ now = slaves[1]
    BY <1>2, <1>6 DEF ToCome
  <2> HIDE DEF t, n
  <2>4. \A i, j \in 1 .. n - 1 : t[i] = t[j] => i = j
    <3>1. SUFFICES ASSUME NEW i \in 1 .. n - 1, NEW j \in 1 .. n - 1, t[i] = t[j] PROVE i = j
      OBVIOUS
    <3>2. i + 1 \in 1 .. n /\ j + 1 \in 1 .. n
      BY <2>1
    <3>3. slaves[i + 1] = slaves[j + 1]
      BY <2>a, <3>1
    <3>4. i + 1 = j + 1
      BY <2>2, <3>2, <3>3
    <3> QED
      BY <3>4
  <2>5. ArgsLeft'
    BY <2>1, <2>3, <2>4 DEF ArgsLeft
  <2>6. ASSUME NEW s PROVE s \in ToCome' <=> s \in ToCome \ {now}
    <3>1. \A i \in 1 .. n - 1 : i + 1 \in 1 .. n /\ slaves[i + 1] # slaves[1]
      BY <2>1, <2>2
    <3>2. ASSUME NEW i \in 1 .. n, slaves[i] # slaves[1] PROVE \E k \in 1 .. n - 1 : t[k] = slaves[i]
      <4>1. i - 1 \in 1 .. n - 1 /\ (i - 1) + 1 = i
        BY <2>1, <3>2
      <4> QED
        BY <2>a, <4>1
    <3>3. s \in ToCome' <=> \E k \in 1 .. n - 1 : t[k] = s
      BY <2>1, <2>3
    <3>4. s \in ToCome \ {now} <=> s # slaves[1] /\ \E k \in 1 .. n : slaves[k] = s
      BY <2>3
    <3>5. ASSUME NEW k \in 1 .. n - 1, t[k] = s PROVE s # slaves[1] /\ \E i \in 1 .. n : slaves[i] = s
      BY <2>a, <3>1, <3>5
    <3> QED
      BY <3>2, <3>3, <3>4, <3>5
  <2> QED
    BY <2>1, <2>3, <2>5, <2>6 DEF n
<1> QED
  BY <1>1, <1>2, <1>3, <1>4, <1>5, <1>6 DEF Turn


\* Every step leaves the arguments in turn.
LEMMA InTurn ==
  ASSUME BondInv, BondNext
  PROVE  Turn /\ ArgsLeft'
<1> USE DEF BondNext, Handshake, CheckMaster, SlaveSettings, enslave, IsSlave, set_if_down,
            set_if_addr, set_slave_mtu, Mac, set_slave_hwaddr, set_if_up, MasterDown,
            set_master_hwaddr, MasterUp, HwaddrSet, BondEnslave, UndoMasterMac, UndoSlaveMac,
            UndoMtu, NotSlave, BondRelease, ReleaseDown, ReleaseMtu, change_active,
            Change, ChangeBond, UndoSlave, Good, Fail, Next1, GoTo, Undo, Out,
            options, addresses, progress, Beginning, Enslaving, Undoing, Midway, Enslave, Detach
<1>1. epc # "out" /\ slaves' \in {slaves, Tail(slaves)}
  <2>1. epc # "out" /\ (slaves' = slaves \/ slaves' = Tail(slaves))
    BY Zenon
  <2> QED
    BY <2>1
<1> QED
  BY <1>1, ArgumentsInTurn

\* The records keep their fields and what these may hold.
LEMMA SettingTypesStep ==
  ASSUME BondInv, BondNext
  PROVE  SettingTypes'
<1> USE DEF BondNext, Handshake, CheckMaster, SlaveSettings, enslave, IsSlave, set_if_down,
            set_if_addr, set_slave_mtu, Mac, set_slave_hwaddr, set_if_up, MasterDown,
            set_master_hwaddr, MasterUp, HwaddrSet, BondEnslave, UndoMasterMac, UndoSlaveMac,
            UndoMtu, NotSlave, BondRelease, ReleaseDown, ReleaseMtu, change_active,
            Change, ChangeBond, UndoSlave, Good, Fail, Next1, GoTo, Undo, Out,
            options, addresses, progress, Beginning, Enslaving, Undoing, Midway, Enslave, Detach
<1>1. BondTypes /\ Turn
  BY InTurn DEF BondInv
<1>2. iface' \in [Iface -> Settings]
  BY <1>1, Changes DEF Turn, BondTypes, SettingTypes
<1>3. slave' \in Settings
  BY <1>1, Changes DEF Turn, BondTypes, SettingTypes, get_if_settings
<1>4. bond' \in Bonds
  BY <1>1, Changes DEF Turn, BondTypes, SettingTypes
<1> QED
  BY <1>2, <1>3, <1>4 DEF SettingTypes

\* So do the flags and the place.
LEMMA FlagTypesStep ==
  ASSUME BondInv, BondNext
  PROVE  FlagTypes'
<1> USE DEF BondNext, Handshake, CheckMaster, SlaveSettings, enslave, IsSlave, set_if_down,
            set_if_addr, set_slave_mtu, Mac, set_slave_hwaddr, set_if_up, MasterDown,
            set_master_hwaddr, MasterUp, HwaddrSet, BondEnslave, UndoMasterMac, UndoSlaveMac,
            UndoMtu, NotSlave, BondRelease, ReleaseDown, ReleaseMtu, change_active,
            Change, ChangeBond, UndoSlave, Good, Fail, Next1, GoTo, Undo, Out,
            options, addresses, progress, Beginning, Enslaving, Undoing, Midway, Enslave, Detach
<1>1. SettingTypes /\ FlagTypes
  BY DEF BondInv, BondTypes
<1>2. opt' \in {"enslave", "detach", "change"}
  BY <1>1 DEF FlagTypes
<1>3. abi_ver' \in 0 .. 2
  BY <1>1 DEF FlagTypes, get_drv_info
<1>4. epc' \in Beginning \cup Enslave \cup Detach \cup {"settings", "active", "out"}
  BY <1>1 DEF FlagTypes
<1>5. res' \in {0, 1}
  BY <1>1 DEF FlagTypes
<1>6. failures' \in Nat
  <2>1. failures' = failures \/ failures' = failures + 1
    BY Zenon
  <2> HIDE DEF BondNext
  <2> QED
    BY <1>1, <2>1 DEF FlagTypes
<1>7. hwaddr_set' \in BOOLEAN
  BY <1>1, Zenon DEF FlagTypes
<1>8. failure' \in BOOLEAN
  BY <1>1, Zenon DEF FlagTypes
<1>9. undone' \in BOOLEAN
  BY <1>1, Zenon DEF FlagTypes
<1>10. master_hwaddr' \in Hardware
  BY <1>1, ChangedBond DEF SettingTypes, FlagTypes
<1> QED
  BY <1>2, <1>3, <1>4, <1>5, <1>6, <1>7, <1>8, <1>9, <1>10 DEF FlagTypes

\* A call changes no interface but the present one.
LEMMA OthersKept ==
  ASSUME BondInv, BondNext
  PROVE  opt' = opt /\ \A s \in Iface : s # now => iface'[s] = iface[s]
<1> USE DEF BondNext, Handshake, CheckMaster, SlaveSettings, enslave, IsSlave, set_if_down,
            set_if_addr, set_slave_mtu, Mac, set_slave_hwaddr, set_if_up, MasterDown,
            set_master_hwaddr, MasterUp, HwaddrSet, BondEnslave, UndoMasterMac, UndoSlaveMac,
            UndoMtu, NotSlave, BondRelease, ReleaseDown, ReleaseMtu, change_active,
            Change, ChangeBond, UndoSlave, Good, Fail, Next1, GoTo, Undo, Out,
            options, addresses, progress, Beginning, Enslaving, Undoing, Midway, Enslave, Detach
<1>0. BondInv /\ Turn
  BY InTurn
<1>1. opt' = opt
  BY <1>0
<1>2. \A s \in Iface : s # now => iface'[s] = iface[s]
  BY <1>0 DEF BondInv, BondTypes, SettingTypes
<1> QED
  BY <1>1, <1>2

\* Which calls change what of the present interface.
LEMMA WhatChanges ==
  ASSUME BondInv, BondNext
  PROVE  /\ iface'[now].mac = iface[now].mac \/ epc \in {"slavemac", "undo_slave_mac", "bond", "release"}
         /\ iface'[now].mtu = iface[now].mtu \/ epc \in {"mtu", "undo_mtu", "relmtu"}
         /\ iface'[now].slave = iface[now].slave \/ epc \in {"bond", "release"}
         /\ iface'[now].up = iface[now].up \/ epc \in {"check", "slaveup", "bond", "reldown"}
<1> USE DEF BondNext, Handshake, CheckMaster, SlaveSettings, enslave, IsSlave, set_if_down,
            set_if_addr, set_slave_mtu, Mac, set_slave_hwaddr, set_if_up, MasterDown,
            set_master_hwaddr, MasterUp, HwaddrSet, BondEnslave, UndoMasterMac, UndoSlaveMac,
            UndoMtu, NotSlave, BondRelease, ReleaseDown, ReleaseMtu, change_active,
            Change, ChangeBond, UndoSlave, Good, Fail, Next1, GoTo, Undo, Out,
            options, addresses, progress, Beginning, Enslaving, Undoing, Midway, Enslave, Detach
<1>0. BondInv /\ Turn
  BY InTurn
<1> USE DEF set_if_flags, MasterAddr, clear_if_addr
<1>1. iface \in [Iface -> Settings] /\ now \in Iface
  BY <1>0 DEF BondInv, BondTypes, SettingTypes, Turn
<1>2. iface'[now].mac = iface[now].mac \/ epc \in {"slavemac", "undo_slave_mac", "bond", "release"}
  BY <1>1 DEF Settings
<1>3. iface'[now].mtu = iface[now].mtu \/ epc \in {"mtu", "undo_mtu", "relmtu"}
  BY <1>1 DEF Settings
<1>4. iface'[now].slave = iface[now].slave \/ epc \in {"bond", "release"}
  BY <1>1 DEF Settings
<1>5. iface'[now].up = iface[now].up \/ epc \in {"check", "slaveup", "bond", "reldown"}
  BY <1>1 DEF Settings
<1> QED
  BY <1>2, <1>3, <1>4, <1>5

\* The call that makes the present interface a slave.
LEMMA AtBond ==
  ASSUME BondInv, BondNext, epc = "bond"
  PROVE  /\ UNCHANGED <<abi_ver, master_hwaddr, bond, undone, hwaddr_set>>
         /\ \/ /\ iface'[now].slave /\ iface'[now].mtu = iface[now].mtu
               /\ IF abi_ver = 0 THEN iface'[now].mac = iface[now].mac /\ iface'[now].up = iface[now].up
                                 ELSE iface'[now].mac = bond.mac /\ iface'[now].up
               /\ res' = res /\ slaves' = Tail(slaves) /\ epc' \in {"settings", "out"}
            \/ iface' = iface /\ slaves' = slaves /\ epc' = "undo_master_mac"
<1>1. BondEnslave
  BY DEF BondNext, Handshake, CheckMaster, SlaveSettings, enslave, IsSlave, set_if_down,
     set_if_addr, set_slave_mtu, Mac, set_slave_hwaddr, set_if_up, MasterDown, set_master_hwaddr,
     MasterUp, HwaddrSet, UndoMasterMac, UndoSlaveMac, UndoMtu, NotSlave, BondRelease,
     ReleaseDown, ReleaseMtu, change_active, Change, ChangeBond, UndoSlave
<1>2. /\ iface \in [Iface -> Settings] /\ now \in Iface /\ bond.mac \in Hardware /\ abi_ver \in 0 .. 2
  BY InTurn, ChangedBond DEF BondInv, BondTypes, SettingTypes, FlagTypes, Turn
<1>3. UNCHANGED <<abi_ver, master_hwaddr, bond, undone, hwaddr_set>>
  BY <1>1 DEF BondEnslave, options, addresses
<1>4. CASE Good /\ Next1(FALSE) /\ iface' = [iface EXCEPT ![now] = IF abi_ver < 1 THEN [@ EXCEPT !.slave = TRUE]
                                             ELSE [@ EXCEPT !.slave = TRUE, !.mac = bond.mac, !.up = TRUE]]
  <2>1. res' = res /\ slaves' = Tail(slaves) /\ epc' \in {"settings", "out"}
    BY <1>4 DEF Next1
  <2>2. CASE abi_ver = 0
    BY <1>2, <1>3, <1>4, <2>1, <2>2 DEF Settings
  <2>3. CASE abi_ver # 0
    BY <1>2, <1>3, <1>4, <2>1, <2>3 DEF Settings
  <2> QED
    BY <2>2, <2>3
<1>5. CASE Fail /\ UNCHANGED iface /\ Undo("undo_master_mac")
  BY <1>3, <1>5 DEF Undo
<1> QED
  BY <1>1, <1>4, <1>5 DEF BondEnslave

\* Only a driver of ABI 0 leaves addresses and states to the program.
LEMMA LeftToProgram ==
  ASSUME BondInv, BondNext
  PROVE  (epc \in {"slavemac", "slaveup", "masterdown", "masterup", "undo_slave_mac"} => abi_ver = 0)'
<1> USE DEF BondNext, Handshake, CheckMaster, SlaveSettings, enslave, IsSlave, set_if_down,
            set_if_addr, set_slave_mtu, Mac, set_slave_hwaddr, set_if_up, MasterDown,
            set_master_hwaddr, MasterUp, HwaddrSet, BondEnslave, UndoMasterMac, UndoSlaveMac,
            UndoMtu, NotSlave, BondRelease, ReleaseDown, ReleaseMtu, change_active,
            Change, ChangeBond, UndoSlave, Good, Fail, Next1, GoTo, Undo, Out,
            options, addresses, progress, Beginning, Enslaving, Undoing, Midway, Enslave, Detach
<1>0. BondInv /\ Turn
  BY InTurn
<1>1. abi_ver \in 0 .. 2
  BY <1>0 DEF BondInv, BondTypes, FlagTypes
<1>2. abi_ver' = abi_ver \/ epc' = "master"
  BY <1>0, Zenon 
<1>3. CASE abi_ver = 0
  BY <1>2, <1>3
<1>4. CASE abi_ver # 0
  <2>1. epc \notin {"slavemac", "slaveup", "masterdown", "masterup", "undo_slave_mac"} /\ ~(abi_ver < 1)
    BY <1>0, <1>1, <1>4 DEF BondInv, Places
  <2>2. epc' \notin {"slavemac", "slaveup", "masterdown", "masterup", "undo_slave_mac"}
    BY <2>1
  <2> QED
    BY <2>2
<1> QED
  BY <1>3, <1>4

\* The places of main() and of what it calls.
LEMMA PlacesStep ==
  ASSUME BondInv, BondNext
  PROVE  Places'
<1> USE DEF BondNext, Handshake, CheckMaster, SlaveSettings, enslave, IsSlave, set_if_down,
            set_if_addr, set_slave_mtu, Mac, set_slave_hwaddr, set_if_up, MasterDown,
            set_master_hwaddr, MasterUp, HwaddrSet, BondEnslave, UndoMasterMac, UndoSlaveMac,
            UndoMtu, NotSlave, BondRelease, ReleaseDown, ReleaseMtu, change_active,
            Change, ChangeBond, UndoSlave, Good, Fail, Next1, GoTo, Undo, Out,
            options, addresses, progress, Beginning, Enslaving, Undoing, Midway, Enslave, Detach
<1>0. BondInv /\ Turn
  BY InTurn
<1>1. (epc \in Enslave => opt = "enslave")'
  BY <1>0 DEF Turn, BondInv, BondTypes, FlagTypes, Places, AtFirst
<1>2. (epc \in Detach => opt = "detach")'
  BY <1>0 DEF Turn, BondInv, BondTypes, FlagTypes, Places, AtFirst
<1>3. (epc = "active" => opt = "change")'
  BY <1>0 DEF Turn, BondInv, BondTypes, FlagTypes, Places, AtFirst
<1>4. (epc \in {"slavemac", "slaveup", "masterdown", "masterup", "undo_slave_mac"} => abi_ver = 0)'
  BY LeftToProgram
<1>5. (epc # "out" => slaves # <<>>)'
  BY <1>0 DEF Turn, BondInv, BondTypes, FlagTypes, Places, AtFirst
<1>6. (epc = "out" /\ res = 0 /\ opt # "change" => slaves = <<>>)'
  BY <1>0 DEF Turn, BondInv, BondTypes, FlagTypes, Places, AtFirst
<1>7. (opt = "change" /\ epc # "out" => slaves = Slave)'
  BY <1>0 DEF Turn, BondInv, BondTypes, FlagTypes, Places, AtFirst
<1> QED
  BY <1>1, <1>2, <1>3, <1>4, <1>5, <1>6, <1>7 DEF Places

\* main() changes nothing before its loop.
LEMMA AtFirstStep ==
  ASSUME BondInv, BondNext
  PROVE  AtFirst'
<1> USE DEF BondNext, Handshake, CheckMaster, SlaveSettings, enslave, IsSlave, set_if_down,
            set_if_addr, set_slave_mtu, Mac, set_slave_hwaddr, set_if_up, MasterDown,
            set_master_hwaddr, MasterUp, HwaddrSet, BondEnslave, UndoMasterMac, UndoSlaveMac,
            UndoMtu, NotSlave, BondRelease, ReleaseDown, ReleaseMtu, change_active,
            Change, ChangeBond, UndoSlave, Good, Fail, Next1, GoTo, Undo, Out,
            options, addresses, progress, Beginning, Enslaving, Undoing, Midway, Enslave, Detach
<1>0. BondInv /\ Turn
  BY InTurn
<1> QED
  BY <1>0 DEF Turn, BondInv, BondTypes, FlagTypes, Places, AtFirst

\* An address is read before it is given on.
LEMMA HasAddressStep ==
  ASSUME BondInv, BondNext
  PROVE  HasAddress'
<1> USE DEF BondNext, Handshake, CheckMaster, SlaveSettings, enslave, IsSlave, set_if_down,
            set_if_addr, set_slave_mtu, Mac, set_slave_hwaddr, set_if_up, MasterDown,
            set_master_hwaddr, MasterUp, HwaddrSet, BondEnslave, UndoMasterMac, UndoSlaveMac,
            UndoMtu, NotSlave, BondRelease, ReleaseDown, ReleaseMtu, change_active,
            Change, ChangeBond, UndoSlave, Good, Fail, Next1, GoTo, Undo, Out,
            options, addresses, progress, Beginning, Enslaving, Undoing, Midway, Enslave, Detach
<1>0. BondInv /\ Turn
  BY InTurn
<1>1. (\A s \in Iface : Unread(s) => iface[s].mac # NoMac)'
  BY <1>0 DEF Turn, BondInv, BondTypes, FlagTypes, HasAddress, SettingTypes, Bonds, Hardware,
     Settings, set_if_flags, MasterAddr, clear_if_addr, get_if_settings, get_slave_flags,
     DefaultMtu, BondMtu, Unread, AtFirst, Places, Own, Enslaved
<1>2. (epc \in {"check", "addr", "mtu", "mac", "masterdown", "mastermac"} => slave.mac # NoMac)'
  BY <1>0 DEF Turn, BondInv, BondTypes, FlagTypes, HasAddress, SettingTypes, Bonds, Hardware,
     Settings, set_if_flags, MasterAddr, clear_if_addr, get_if_settings, get_slave_flags,
     DefaultMtu, BondMtu, Unread, AtFirst, Places, Own, Enslaved
<1> QED
  BY <1>1, <1>2 DEF HasAddress

\* hwaddr_set follows the address of the bond.
LEMMA AddressOfBondStep ==
  ASSUME BondInv, BondNext
  PROVE  AddressOfBond'
<1> USE DEF BondNext, Handshake, CheckMaster, SlaveSettings, enslave, IsSlave, set_if_down,
            set_if_addr, set_slave_mtu, Mac, set_slave_hwaddr, set_if_up, MasterDown,
            set_master_hwaddr, MasterUp, HwaddrSet, BondEnslave, UndoMasterMac, UndoSlaveMac,
            UndoMtu, NotSlave, BondRelease, ReleaseDown, ReleaseMtu, change_active,
            Change, ChangeBond, UndoSlave, Good, Fail, Next1, GoTo, Undo, Out,
            options, addresses, progress, Beginning, Enslaving, Undoing, Midway, Enslave, Detach
<1>0. BondInv /\ Turn
  BY InTurn
<1>1. (hwaddr_set \/ epc \in {"masterup", "set"} => bond.mac # NoMac)'
  BY <1>0 DEF Turn, BondInv, BondTypes, FlagTypes, AddressOfBond, AtFirst, Own, HasAddress,
     Present, Unread, SettingTypes, Bonds, Hardware, Settings, Places, set_if_flags, MasterAddr,
     clear_if_addr, DefaultMtu, BondMtu
<1>2. (epc \in {"slavemac", "slaveup", "bond"} => hwaddr_set)'
  BY <1>0 DEF Turn, BondInv, BondTypes, FlagTypes, AddressOfBond, AtFirst, Own, HasAddress,
     Present, Unread, SettingTypes, Bonds, Hardware, Settings, Places, set_if_flags, MasterAddr,
     clear_if_addr, DefaultMtu, BondMtu
<1>3. (epc \in {"masterdown", "mastermac", "masterup", "set"} => ~hwaddr_set)'
  BY <1>0 DEF Turn, BondInv, BondTypes, FlagTypes, AddressOfBond, AtFirst, Own, HasAddress,
     Present, Unread, SettingTypes, Bonds, Hardware, Settings, Places, set_if_flags, MasterAddr,
     clear_if_addr, DefaultMtu, BondMtu
<1>4. (opt = "enslave" /\ epc \notin Beginning \cup {"out"} /\ ~undone /\ ~hwaddr_set =>
        \A s \in Iface : ~iface[s].slave)'
  BY <1>0 DEF Turn, BondInv, BondTypes, FlagTypes, AddressOfBond, AtFirst, Own, HasAddress,
     Present, Unread, SettingTypes, Bonds, Hardware, Settings, Places, set_if_flags, MasterAddr,
     clear_if_addr, DefaultMtu, BondMtu
<1>5. (opt = "enslave" /\ epc \notin Beginning \cup {"out"} /\ ~undone /\ abi_ver = 0 /\ master_hwaddr # NoMac =>
        hwaddr_set /\ bond.mac = master_hwaddr)'
  BY <1>0 DEF Turn, BondInv, BondTypes, FlagTypes, AddressOfBond, AtFirst, Own, HasAddress,
     Present, Unread, SettingTypes, Bonds, Hardware, Settings, Places, set_if_flags, MasterAddr,
     clear_if_addr, DefaultMtu, BondMtu
<1> QED
  BY <1>1, <1>2, <1>3, <1>4, <1>5 DEF AddressOfBond

\* How far the present interface is.
LEMMA PresentStep ==
  ASSUME BondInv, BondNext
  PROVE  Present'
<1> USE DEF BondNext, Handshake, CheckMaster, SlaveSettings, enslave, IsSlave, set_if_down,
            set_if_addr, set_slave_mtu, Mac, set_slave_hwaddr, set_if_up, MasterDown,
            set_master_hwaddr, MasterUp, HwaddrSet, BondEnslave, UndoMasterMac, UndoSlaveMac,
            UndoMtu, NotSlave, BondRelease, ReleaseDown, ReleaseMtu, change_active,
            Change, ChangeBond, UndoSlave, Good, Fail, Next1, GoTo, Undo, Out,
            options, addresses, progress, Beginning, Enslaving, Undoing, Midway, Enslave, Detach
<1>0. BondInv /\ Turn
  BY InTurn
<1>1. (epc = "check" => slave = iface[now])'
  BY <1>0 DEF Turn, BondInv, BondTypes, FlagTypes, Present, SettingTypes, Bonds, Hardware,
     Settings, Places, AddressOfBond, AtFirst, set_if_flags, MasterAddr, clear_if_addr,
     get_if_settings, get_slave_flags, DefaultMtu, BondMtu, Refreshed
<1>2. (epc \in Enslave \ {"check"} => ~iface[now].slave /\ ~slave.slave)'
  BY <1>0 DEF Turn, BondInv, BondTypes, FlagTypes, Present, SettingTypes, Bonds, Hardware,
     Settings, Places, AddressOfBond, AtFirst, set_if_flags, MasterAddr, clear_if_addr,
     get_if_settings, get_slave_flags, DefaultMtu, BondMtu, Refreshed
<1>3. (epc = "addr" => slave.mtu = iface[now].mtu)'
  BY <1>0 DEF Turn, BondInv, BondTypes, FlagTypes, Present, SettingTypes, Bonds, Hardware,
     Settings, Places, AddressOfBond, AtFirst, set_if_flags, MasterAddr, clear_if_addr,
     get_if_settings, get_slave_flags, DefaultMtu, BondMtu, Refreshed
<1>4. (epc \in {"mac"} \cup Enslaving => iface[now].mtu = BondMtu)'
  BY <1>0 DEF Turn, BondInv, BondTypes, FlagTypes, Present, SettingTypes, Bonds, Hardware,
     Settings, Places, AddressOfBond, AtFirst, set_if_flags, MasterAddr, clear_if_addr,
     get_if_settings, get_slave_flags, DefaultMtu, BondMtu, Refreshed
<1>5. (Refreshed /\ abi_ver = 0 /\ epc \in {"slaveup", "bond"} => iface[now].mac = master_hwaddr)'
  BY <1>0 DEF Turn, BondInv, BondTypes, FlagTypes, Present, SettingTypes, Bonds, Hardware,
     Settings, Places, AddressOfBond, AtFirst, set_if_flags, MasterAddr, clear_if_addr,
     get_if_settings, get_slave_flags, DefaultMtu, BondMtu, Refreshed
<1>6. (Refreshed /\ abi_ver = 0 /\ epc = "bond" => iface[now].up)'
  BY <1>0 DEF Turn, BondInv, BondTypes, FlagTypes, Present, SettingTypes, Bonds, Hardware,
     Settings, Places, AddressOfBond, AtFirst, set_if_flags, MasterAddr, clear_if_addr,
     get_if_settings, get_slave_flags, DefaultMtu, BondMtu, Refreshed
<1>7. (epc \in {"reldown", "relmtu"} => ~iface[now].slave)'
  BY <1>0 DEF Turn, BondInv, BondTypes, FlagTypes, Present, SettingTypes, Bonds, Hardware,
     Settings, Places, AddressOfBond, AtFirst, set_if_flags, MasterAddr, clear_if_addr,
     get_if_settings, get_slave_flags, DefaultMtu, BondMtu, Refreshed
<1>8. (epc = "active" => slave.slave = iface[now].slave)'
  BY <1>0 DEF Turn, BondInv, BondTypes, FlagTypes, Present, SettingTypes, Bonds, Hardware,
     Settings, Places, AddressOfBond, AtFirst, set_if_flags, MasterAddr, clear_if_addr,
     get_if_settings, get_slave_flags, DefaultMtu, BondMtu, Refreshed
<1> QED
  BY <1>1, <1>2, <1>3, <1>4, <1>5, <1>6, <1>7, <1>8 DEF Present

\* From ABI 1 on what is no slave has its own address.
LEMMA OwnAddress ==
  ASSUME BondInv, BondNext
  PROVE  (opt = "enslave" /\ abi_ver > 0 => \A s \in Iface : ~iface[s].slave => iface[s].mac = s)'
<1> USE DEF BondNext, Handshake, CheckMaster, SlaveSettings, enslave, IsSlave, set_if_down,
            set_if_addr, set_slave_mtu, Mac, set_slave_hwaddr, set_if_up, MasterDown,
            set_master_hwaddr, MasterUp, HwaddrSet, BondEnslave, UndoMasterMac, UndoSlaveMac,
            UndoMtu, NotSlave, BondRelease, ReleaseDown, ReleaseMtu, change_active,
            Change, ChangeBond, UndoSlave, Good, Fail, Next1, GoTo, Undo, Out,
            options, addresses, progress, Beginning, Enslaving, Undoing, Midway, Enslave, Detach
<1>0. BondInv /\ Turn
  BY InTurn
<1> SUFFICES ASSUME opt = "enslave", abi_ver' > 0, NEW s \in Iface, ~iface'[s].slave PROVE iface'[s].mac = s
  BY OthersKept
<1>1. epc \in Beginning => \A i \in Iface : ~iface[i].slave => iface[i].mac = i
  BY <1>0 DEF BondInv, AtFirst, Own, Enslaved
<1>2. abi_ver > 0 => \A i \in Iface : ~iface[i].slave => iface[i].mac = i
  BY <1>0 DEF BondInv, AsBefore
<1>3. CASE s # now
  BY <1>0, <1>1, <1>2, <1>3, OthersKept
<1>4. CASE s = now
  <2>1. abi_ver' = abi_ver \/ epc \in Beginning
    BY <1>0, Zenon
  <2>2. ~iface[now].slave => iface[now].mac = now
    BY <1>0, <1>1, <1>2, <2>1 DEF Turn
  <2>3. epc \notin {"slavemac", "undo_slave_mac"}
    BY <1>0, <2>1 DEF BondInv, Places
  <2>4. iface'[now] = iface[now] \/ iface'[now].slave \/ (iface'[now].mac = iface[now].mac /\ iface'[now].slave = iface[now].slave)
    <3>1. opt = "enslave" /\ epc # "release"
      BY <1>0 DEF BondInv, Places
    <3>2. CASE epc # "bond"
      BY <2>3, <3>1, <3>2, WhatChanges
    <3>3. CASE epc = "bond"
      BY <3>3, AtBond
    <3> QED
      BY <3>2, <3>3
  <2> QED
    BY <1>4, <2>2, <2>4
<1> QED
  BY <1>3, <1>4

\* What is no slave has its own MTU, unless it is being worked on.
LEMMA OwnMtu ==
  ASSUME BondInv, BondNext
  PROVE  (opt = "enslave" /\ failures <= 1 => \A s \in Iface : ~iface[s].slave /\ ~(epc \in Midway /\ s = now) => iface[s].mtu = DefaultMtu)'
<1> USE DEF BondNext, Handshake, CheckMaster, SlaveSettings, enslave, IsSlave, set_if_down,
            set_if_addr, set_slave_mtu, Mac, set_slave_hwaddr, set_if_up, MasterDown,
            set_master_hwaddr, MasterUp, HwaddrSet, BondEnslave, UndoMasterMac, UndoSlaveMac,
            UndoMtu, NotSlave, BondRelease, ReleaseDown, ReleaseMtu, change_active,
            Change, ChangeBond, UndoSlave, Good, Fail, Next1, GoTo, Undo, Out,
            options, addresses, progress, Beginning, Enslaving, Undoing, Midway, Enslave, Detach
<1>0. BondInv /\ Turn
  BY InTurn
<1> SUFFICES ASSUME opt = "enslave", failures' <= 1, NEW s \in Iface, ~iface'[s].slave, ~(epc' \in Midway /\ s = now') PROVE iface'[s].mtu = DefaultMtu
  BY OthersKept
<1>a. failures \in Nat /\ (failures' = failures \/ failures' = failures + 1)
  BY <1>0 DEF BondInv, BondTypes, FlagTypes
<1>1. failures <= 1 
  BY <1>a
<1>b. epc \in Undoing => failures >= 1
  BY <1>0 DEF BondInv, AsBefore
<1>c. epc \in Undoing => failures' = failures
  BY <1>a, <1>b
<1>2. \A i \in Iface : ~iface[i].slave /\ ~(epc \in Midway /\ i = now) => iface[i].mtu = DefaultMtu
  BY <1>0, <1>1 DEF BondInv, AsBefore
<1>3. CASE s # now
  BY <1>0, <1>1, <1>2, <1>3, OthersKept
<1>4. CASE s = now
  <2>1. epc \in Midway => slave.mtu = DefaultMtu /\ ~iface[now].slave
    BY <1>0, <1>1 DEF BondInv, Present, AsBefore
  <2>2. CASE epc = "undo_mtu"
    <3>1. iface' = [iface EXCEPT ![now] = [iface[now] EXCEPT !.mtu = slave.mtu]]
      BY <1>0, <1>c, <1>a, <2>2
    <3> QED
      BY <1>0, <1>4, <2>1, <2>2, <3>1 DEF BondInv, BondTypes, SettingTypes, Settings
  <2>3. CASE epc \in Midway /\ epc # "undo_mtu"
    <3>1. (epc' \in Midway /\ now' = now) \/ iface'[now].slave
      <4>1. CASE epc # "bond"
        <5>1. epc' \in Midway /\ slaves' = slaves
          BY <2>3, <4>1
        <5> QED
          BY <1>0, <5>1 DEF Turn
      <4>2. CASE epc = "bond"
        BY <1>0, <4>2, AtBond DEF Turn
      <4> QED
        BY <4>1, <4>2
    <3> QED
      BY <1>4, <3>1
  <2>4. CASE epc \notin Midway
    <3>1. iface'[now].mtu = iface[now].mtu \/ (epc' \in Midway /\ now' = now)
      <4>1. epc # "relmtu"
        BY <1>0 DEF BondInv, Places
      <4>2. epc = "mtu" => iface'[now].mtu = iface[now].mtu \/ (epc' \in Midway /\ slaves' = slaves)
        BY <1>0
      <4> QED
        BY <1>0, <2>4, <4>1, <4>2, WhatChanges DEF Turn
    <3>2. iface'[now].slave = iface[now].slave
      BY <1>0, <2>4, WhatChanges DEF BondInv, Places
    <3> QED
      BY <1>2, <1>4, <2>4, <3>1, <3>2
  <2> QED
    BY <2>2, <2>3, <2>4
<1> QED
  BY <1>3, <1>4

\* The roll-back has what it needs.
LEMMA AsBeforeStep ==
  ASSUME BondInv, BondNext
  PROVE  AsBefore'
<1> USE DEF BondNext, Handshake, CheckMaster, SlaveSettings, enslave, IsSlave, set_if_down,
            set_if_addr, set_slave_mtu, Mac, set_slave_hwaddr, set_if_up, MasterDown,
            set_master_hwaddr, MasterUp, HwaddrSet, BondEnslave, UndoMasterMac, UndoSlaveMac,
            UndoMtu, NotSlave, BondRelease, ReleaseDown, ReleaseMtu, change_active,
            Change, ChangeBond, UndoSlave, Good, Fail, Next1, GoTo, Undo, Out,
            options, addresses, progress, Beginning, Enslaving, Undoing, Midway, Enslave, Detach
<1>0. BondInv /\ Turn
  BY InTurn
<1>1. (opt = "enslave" /\ abi_ver > 0 => \A s \in Iface : ~iface[s].slave => iface[s].mac = s)'
  BY OwnAddress
<1>2. (opt = "enslave" /\ failures <= 1 =>
        \A s \in Iface : ~iface[s].slave /\ ~(epc \in Midway /\ s = now) => iface[s].mtu = DefaultMtu)'
  BY OwnMtu
<1>3. (opt = "enslave" /\ failures <= 1 /\ epc \in Enslave /\ ~slave.slave => slave.mtu = DefaultMtu)'
  BY <1>0 DEF Turn, BondInv, BondTypes, FlagTypes, AsBefore, SettingTypes, Bonds, Hardware,
     Settings, set_if_flags, MasterAddr, clear_if_addr, get_if_settings, get_slave_flags,
     DefaultMtu, BondMtu, Present, AtFirst, Places, Own, Enslaved
<1>4. (opt = "enslave" /\ epc \in Undoing => failures >= 1)'
  BY <1>0 DEF Turn, BondInv, BondTypes, FlagTypes, AsBefore, SettingTypes, Bonds, Hardware,
     Settings, set_if_flags, MasterAddr, clear_if_addr, get_if_settings, get_slave_flags,
     DefaultMtu, BondMtu, Present, AtFirst, Places, Own, Enslaved
<1> QED
  BY <1>1, <1>2, <1>3, <1>4 DEF AsBefore

\* As long as there is no error, those that are done with are complete slaves.
LEMMA EnslavedSoFar ==
  ASSUME BondInv, BondNext, res' = 0, opt = "enslave"
  PROVE  \A s \in Iface \ ToCome' : iface'[s].slave /\ iface'[s].mtu = BondMtu /\ (Refreshed' => iface'[s].up)
<1> USE DEF BondNext, Handshake, CheckMaster, SlaveSettings, enslave, IsSlave, set_if_down,
            set_if_addr, set_slave_mtu, Mac, set_slave_hwaddr, set_if_up, MasterDown,
            set_master_hwaddr, MasterUp, HwaddrSet, BondEnslave, UndoMasterMac, UndoSlaveMac,
            UndoMtu, NotSlave, BondRelease, ReleaseDown, ReleaseMtu, change_active,
            Change, ChangeBond, UndoSlave, Good, Fail, Next1, GoTo, Undo, Out,
            options, addresses, progress, Beginning, Enslaving, Undoing, Midway, Enslave, Detach
<1>0. BondInv /\ Turn
  BY InTurn
<1>1. epc # "out" /\ (slaves' = slaves \/ slaves' = Tail(slaves))
  BY <1>0, Zenon
<1>2. CASE slaves' = slaves
  <2>1. res = 0
    BY <1>0, <1>2 DEF BondInv, BondTypes, FlagTypes
  <2>2. ToCome' = ToCome /\ now \in ToCome
    BY <1>0, <1>2 DEF Turn
  <2>3. \A s \in Iface \ ToCome : iface'[s] = iface[s]
    BY <2>2, OthersKept
  <2>4. epc \in Beginning => Iface \subseteq ToCome
    BY <1>0 DEF Turn, BondInv, AtFirst
  <2>5. epc \notin Beginning => (Refreshed' => Refreshed)
    BY <1>0, Zenon DEF Refreshed, BondInv, BondTypes, FlagTypes
  <2> QED
    BY <1>0, <2>1, <2>2, <2>3, <2>4, <2>5 DEF BondInv, DoneSoFar
<1>3. CASE slaves' = Tail(slaves) /\ slaves' # slaves
  <2>1. epc \notin Detach \cup {"active"}
    BY <1>0 DEF BondInv, Places
  <2>2. epc = "bond"
    <3>1. ASSUME enslave PROVE res' = 1 \/ slaves' = slaves \/ epc = "bond"
      BY <3>1
    <3>2. ASSUME ~enslave PROVE res' = 1 \/ slaves' = slaves
      BY <2>1, <3>2
    <3>3. res' = 0 /\ 0 # 1
      OBVIOUS
    <3> HIDE DEF enslave
    <3> QED
      BY <1>3, <3>1, <3>2, <3>3
  <2>3. /\ UNCHANGED <<abi_ver, master_hwaddr, undone>> /\ res = 0
        /\ iface'[now].slave /\ iface'[now].mtu = iface[now].mtu
        /\ abi_ver = 0 => iface'[now].up = iface[now].up
        /\ abi_ver # 0 => iface'[now].up
    BY <1>3, <2>2, AtBond, Zenon
  <2>4. ToCome' = ToCome \ {now} /\ now \in Iface
    BY <1>0, <1>3 DEF Turn
  <2>5. \A s \in Iface \ ToCome : iface'[s] = iface[s]
    BY <1>0, OthersKept DEF Turn
  <2>6. Refreshed' = Refreshed
    BY <2>3 DEF Refreshed
  <2>7. iface[now].mtu = BondMtu /\ (abi_ver = 0 /\ Refreshed => iface[now].up)
    BY <1>0, <2>2 DEF BondInv, Present
  <2>8. \A s \in Iface \ ToCome : iface[s].slave /\ iface[s].mtu = BondMtu /\ (Refreshed => iface[s].up)
    BY <1>0, <2>3 DEF BondInv, DoneSoFar
  <2> QED
    BY <2>3, <2>4, <2>5, <2>6, <2>7, <2>8
<1> QED
  BY <1>1, <1>2, <1>3

\* The same of each of the three operations.
LEMMA DoneSoFarStep ==
  ASSUME BondInv, BondNext
  PROVE  DoneSoFar'
<1> USE DEF BondNext, Handshake, CheckMaster, SlaveSettings, enslave, IsSlave, set_if_down,
            set_if_addr, set_slave_mtu, Mac, set_slave_hwaddr, set_if_up, MasterDown,
            set_master_hwaddr, MasterUp, HwaddrSet, BondEnslave, UndoMasterMac, UndoSlaveMac,
            UndoMtu, NotSlave, BondRelease, ReleaseDown, ReleaseMtu, change_active,
            Change, ChangeBond, UndoSlave, Good, Fail, Next1, GoTo, Undo, Out,
            options, addresses, progress, Beginning, Enslaving, Undoing, Midway, Enslave, Detach
<1>0. BondInv /\ Turn
  BY InTurn
<1>1. (res = 0 /\ opt = "detach" => \A s \in Iface \ ToCome : ~iface[s].slave)'
  BY <1>0 DEF Turn, BondInv, BondTypes, FlagTypes, DoneSoFar, SettingTypes, Bonds, Hardware,
     Settings, set_if_flags, MasterAddr, clear_if_addr, get_if_settings, get_slave_flags,
     DefaultMtu, BondMtu, Present, AtFirst, Places, Own, Enslaved, Refreshed, AddressOfBond
<1>2. (res = 0 /\ opt = "change" /\ epc = "out" => bond.active = Slave[1] /\ iface[Slave[1]].slave)'
  BY <1>0 DEF Turn, BondInv, BondTypes, FlagTypes, DoneSoFar, SettingTypes, Bonds, Hardware,
     Settings, set_if_flags, MasterAddr, clear_if_addr, get_if_settings, get_slave_flags,
     DefaultMtu, BondMtu, Present, AtFirst, Places, Own, Enslaved, Refreshed, AddressOfBond
<1>3. opt' = opt /\ opt \in {"enslave", "detach", "change"}
  BY <1>0, OthersKept DEF BondInv, BondTypes, FlagTypes
<1>4. ASSUME opt = "enslave", res' = 0
      PROVE  \A s \in Iface \ ToCome' :
               iface'[s].slave /\ iface'[s].mtu = BondMtu /\ (Refreshed' => iface'[s].up)
  BY <1>4, EnslavedSoFar
<1> HIDE DEF BondNext
<1>5. CASE opt = "enslave"
  BY <1>3, <1>4, <1>5 DEF DoneSoFar
<1>6. CASE opt = "detach"
  BY <1>1, <1>3, <1>6 DEF DoneSoFar
<1>7. CASE opt = "change"
  BY <1>2, <1>3, <1>7 DEF DoneSoFar
<1> QED
  BY <1>3, <1>5, <1>6, <1>7

\* All slaves have the address of the bond, unless the roll-back took it back.
LEMMA OneAddressStep ==
  ASSUME BondInv, BondNext
  PROVE  OneAddressUnlessUndone'
<1> USE DEF BondNext, Handshake, CheckMaster, SlaveSettings, enslave, IsSlave, set_if_down,
            set_if_addr, set_slave_mtu, Mac, set_slave_hwaddr, set_if_up, MasterDown,
            set_master_hwaddr, MasterUp, HwaddrSet, BondEnslave, UndoMasterMac, UndoSlaveMac,
            UndoMtu, NotSlave, BondRelease, ReleaseDown, ReleaseMtu, change_active,
            Change, ChangeBond, UndoSlave, Good, Fail, Next1, GoTo, Undo, Out,
            options, addresses, progress, Beginning, Enslaving, Undoing, Midway, Enslave, Detach
<1>0. BondInv /\ Turn
  BY InTurn
<1>a. abi_ver' \in 0 .. 2
  BY <1>0 DEF BondInv, BondTypes, FlagTypes, get_drv_info
<1>1. ASSUME ~undone', abi_ver' > 0 PROVE OneAddress'
  <2>1. CASE epc = "handshake"
    <3>1. iface' = iface /\ bond' = bond
      BY <1>0, <2>1
    <3> QED
      BY <1>0, <2>1, <3>1 DEF BondInv, AtFirst, OneAddress, Own, Enslaved
  <2>2. CASE epc # "handshake"
    <3>1. abi_ver' = abi_ver /\ ~undone /\ (undone' = undone \/ \A s \in Iface : ~iface[s].slave)
      <4>1. abi_ver' = abi_ver
        BY <2>2, Zenon
      <4>2. undone' = undone \/ undone' = (undone \/ abi_ver = 0 \/ \E s \in Iface : iface[s].slave)
        BY Zenon
      <4>3. undone \in BOOLEAN
        BY <1>0 DEF BondInv, BondTypes, FlagTypes
      <4>4. ~undone /\ (undone' = undone \/ \A s \in Iface : ~iface[s].slave)
        <5> HIDE DEF BondNext
        <5>1. CASE undone' = undone
          BY <1>1, <5>1, Zenon
        <5>2. CASE undone' = (undone \/ abi_ver = 0 \/ \E s \in Iface : iface[s].slave)
          BY <1>1, <5>2, Zenon
        <5> QED
          BY <4>2, <5>1, <5>2, Zenon
      <4> QED
        BY <4>1, <4>4
    <3>2. \A s \in Iface : iface[s].slave => iface[s].mac = bond.mac
      BY <1>0, <1>1, <3>1 DEF BondInv, OneAddressUnlessUndone, OneAddress, Refreshed
    <3>3. CASE epc \in {"mastermac", "undo_master_mac"}
      <4>1. iface' = iface
        BY <1>0, <3>3
      <4>2. \A s \in Iface : ~iface[s].slave
        BY <1>0, <1>1, <3>1, <3>3 DEF BondInv, AddressOfBond, Places
      <4> QED
        BY <4>1, <4>2 DEF OneAddress
    <3>4. CASE epc \notin {"mastermac", "undo_master_mac"}
      <4>1. bond'.mac = bond.mac
        BY <1>0, <3>4 DEF BondInv, BondTypes, SettingTypes, Bonds
      <4>2. iface'[now].slave => iface'[now].mac = bond.mac
        <5>1. CASE epc = "bond"
          <6>1. abi_ver # 0
            BY <1>1, <3>1
          <6> QED
            BY <1>0, <3>2, <5>1, <6>1, AtBond, Zenon DEF Turn
        <5>2. CASE epc = "release"
          BY <1>0, <3>2, <5>2 DEF BondInv, BondTypes, SettingTypes, Settings, Turn
        <5>3. CASE epc \notin {"bond", "release"}
          <6>1. epc \notin {"slavemac", "undo_slave_mac"}
            BY <1>0, <1>1, <3>1 DEF BondInv, Places
          <6> QED
            BY <1>0, <3>2, <5>3, <6>1, WhatChanges DEF Turn
        <5> QED
          BY <5>1, <5>2, <5>3
      <4> QED
        BY <3>2, <4>1, <4>2, OthersKept DEF OneAddress
    <3> QED
      BY <3>3, <3>4
  <2> QED
    BY <2>1, <2>2
<1>2. (~undone /\ abi_ver = 0 /\ master_hwaddr # NoMac => OneAddress)'
  BY <1>0 DEF Turn, BondInv, BondTypes, FlagTypes, OneAddressUnlessUndone, SettingTypes, Bonds,
     Hardware, Settings, set_if_flags, MasterAddr, clear_if_addr, get_if_settings,
     get_slave_flags, DefaultMtu, BondMtu, Present, AtFirst, Places, Own, Enslaved, Refreshed,
     AddressOfBond, OneAddress
<1> QED
  BY <1>a, <1>1, <1>2 DEF OneAddressUnlessUndone, Refreshed

\* The invariant holds at the start.
LEMMA BondStart ==
  ASSUME BondInit
  PROVE  BondInv
<1> USE DEF Beginning, Enslaving, Undoing, Midway, Enslave, Detach, DefaultMtu, BondMtu
<1>1. Slave # <<>> /\ Slave \in Seq(STRING) /\ NoMac \notin Iface /\ \A i, j \in DOMAIN Slave : Slave[i] = Slave[j] => i = j
  BY IfenslaveAssumption DEF Iface
<1>2. Slave \in Seq(Iface) /\ DOMAIN Slave = 1 .. Len(Slave) /\ Slave[1] \in Iface /\ Len(Slave) \in Nat
  <2>1. \A i \in 1 .. Len(Slave) : Slave[i] \in Iface
    <3>1. DOMAIN Slave = 1 .. Len(Slave)
      BY <1>1
    <3> QED
      BY <3>1 DEF Iface
  <2>2. Slave \in Seq(Iface)
    BY <1>1, <2>1, SeqDef, ElementOfSeq 
  <2> QED
    BY <1>1, <2>1, <2>2
<1>3. slaves = Slave /\ ToCome = Iface /\ now = Slave[1]
  BY <1>1, <1>2 DEF BondInit, ToCome, Iface, now
<1>4. \A s \in Iface : Own(s) \in Settings /\ (bond.mac \in Hardware => Enslaved(bond.mac) \in Settings)
  BY DEF Settings, Own, Enslaved, Hardware
<1>5. bond \in Bonds
  BY <1>2 DEF BondInit, Bonds, Hardware
<1>6. BondTypes
  <2>1. SettingTypes
    BY <1>2, <1>4, <1>5, ChangedBond DEF BondInit, SettingTypes
  <2>2. FlagTypes
    <3>1. hwaddr_set \in BOOLEAN /\ failure \in BOOLEAN /\ undone \in BOOLEAN
      BY DEF BondInit
    <3>2. /\ opt \in {"enslave", "detach", "change"} /\ abi_ver \in 0 .. 2 /\ res \in {0, 1}
          /\ failures \in Nat /\ master_hwaddr \in Hardware /\ epc \in Beginning
      BY DEF BondInit, Hardware
    <3> QED
      BY <3>1, <3>2 DEF FlagTypes
  <2> QED
    BY <2>1, <2>2 DEF BondTypes
<1>7. ArgsLeft /\ Places /\ AtFirst
  BY <1>1, <1>2, <1>3 DEF BondInit, ArgsLeft, Places, AtFirst
<1>8. HasAddress /\ AddressOfBond /\ Present /\ AsBefore /\ DoneSoFar /\ OneAddressUnlessUndone
  BY <1>1, <1>2, <1>3 DEF BondInit, HasAddress, Unread, AddressOfBond, Present, AsBefore,
     DoneSoFar, OneAddressUnlessUndone, Refreshed, Own, Enslaved, OneAddress
<1> QED
  BY <1>6, <1>7, <1>8 DEF BondInv

\* Every step of ifenslave keeps its invariant.
LEMMA BondStep ==
  ASSUME BondInv, BondNext \/ UNCHANGED bond_vars
  PROVE  BondInv'
<1>1. CASE BondNext
  <2>1. BondTypes' /\ ArgsLeft'
    BY <1>1, SettingTypesStep, FlagTypesStep, InTurn DEF BondTypes
  <2>2. Places' /\ AtFirst' /\ HasAddress' /\ AddressOfBond' /\ Present'
    BY <1>1, PlacesStep, AtFirstStep, HasAddressStep, AddressOfBondStep, PresentStep
  <2>3. AsBefore' /\ DoneSoFar' /\ OneAddressUnlessUndone'
    BY <1>1, AsBeforeStep, DoneSoFarStep, OneAddressStep
  <2> QED
    BY <2>1, <2>2, <2>3 DEF BondInv
<1>2. CASE UNCHANGED bond_vars
  BY <1>2 DEF bond_vars, BondInv, BondTypes, SettingTypes, FlagTypes, ArgsLeft, Places, AtFirst,
     HasAddress, Unread, ToCome, now, AddressOfBond, Present, Refreshed, AsBefore, DoneSoFar,
     OneAddressUnlessUndone, OneAddress
<1> QED
  BY <1>1, <1>2

\* The slaves of a bond have its address and are rolled back or complete.
LEMMA BondPromise ==
  ASSUME BondInv
  PROVE  BondRight
<1> USE DEF Beginning, Enslaving, Undoing, Midway, Enslave, Detach, DefaultMtu, BondMtu
<1>1. epc = "out" /\ res = 0 /\ opt # "change" => ToCome = {}
  BY DEF BondInv, Places, ToCome
<1>2. SuccessMeansDone
  BY <1>1 DEF BondInv, DoneSoFar, SuccessMeansDone
<1>3. RolledBack
  BY DEF BondInv, AsBefore, RolledBack
<1>4. OneAddressUnlessUndone /\ HwaddrSetIsSo
  BY DEF BondInv, AddressOfBond, HwaddrSetIsSo
<1> QED
  BY <1>2, <1>3, <1>4 DEF BondRight

=============================================================================
