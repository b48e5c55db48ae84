------------------------------- MODULE Menubox ------------------------------
(***************************************************************************)
(* misc/confdialog/menubox.c: dialog_menu().                               *)
(*                                                                         *)
(* The window shows max_choice of the item_no entries, from the entry      *)
(* scroll on, and marks the one in its row choice.  It is never drawn      *)
(* anew: a key that scrolls moves the rows that stay, and paints the rows  *)
(* that come in and the two whose mark changes.  screen[r] is the entry    *)
(* that row r shows, and whether it is marked.                             *)
(***************************************************************************)
EXTENDS Widget

VARIABLE scrltmp    \* the number in confdialog.scrltmp, or one of the next two

NoNumber == -1
NoFile == -2

menu_vars == <<list, scrltmp>>

NoItem == [button |-> -1, item |-> -1]

\* A call; "current" is the entry to start with, kept in choice.
MenuInit == /\ mode = "menu" /\ pc = "open" /\ Sizes
            /\ scrltmp \in {NoFile, NoNumber} \cup 0 .. MaxItems
            /\ scroll = 0 /\ choice \in Items
            /\ button = 0 /\ result = NoItem
            /\ screen = [r \in Rows |-> <<-1, FALSE>>]

MenuPainted(s, c) == [r \in Rows |-> <<s + r, r = c>>]

\* confdialog.scrltmp is believed if the current entry is in the window then.
Restorable == /\ 0 <= scrltmp /\ scrltmp <= choice
              /\ choice < scrltmp + max_choice /\ scrltmp + max_choice <= item_no

\* Otherwise the current entry goes to the middle, unless it is near an end.
StartScroll ==
  LET half == max_choice \div 2 IN
  IF Restorable THEN scrltmp
  ELSE IF choice < half THEN 0
  ELSE IF choice >= item_no - half THEN item_no - max_choice ELSE choice - half

MenuOpen == /\ pc = "open" /\ pc' = "loop"
            /\ scroll' = StartScroll /\ choice' = choice - StartScroll
            /\ screen' = MenuPainted(StartScroll, choice - StartScroll)
            /\ scrltmp' = IF Restorable THEN scrltmp ELSE NoFile
            /\ UNCHANGED <<mode, args, button, result>>

\* print_item() on the marked row, wscrl() and print_item() on each row that
\* comes in, print_item() on the row to be marked.
MenuMoveTo(s, c) ==
  LET unmarked == [screen EXCEPT ![choice] = <<scroll + choice, FALSE>>]
      before(r) == r + (s - scroll)
  IN /\ Key
     /\ scroll' = s /\ choice' = c
     /\ screen' = [r \in Rows |-> IF r = c THEN <<s + c, TRUE>>
                                  ELSE IF before(r) \in Rows THEN unmarked[before(r)]
                                  ELSE <<s + r, FALSE>>]
     /\ UNCHANGED <<mode, args, scrltmp, button, result>>

\* The two rows next to an edge of the window are its margin: there the list
\* scrolls, as long as it can.
MenuUp == IF choice < 2 /\ scroll > 0
            THEN MenuMoveTo(scroll - 1, choice)
            ELSE MenuMoveTo(scroll, Greater(choice - 1, 0))

MenuDown == IF choice > max_choice - 3 /\ scroll + max_choice < item_no
              THEN MenuMoveTo(scroll + 1, choice)
              ELSE MenuMoveTo(scroll, Lesser(choice + 1, max_choice - 1))

\* max_choice times: scroll if there is more, else move the mark.
MenuPpage == LET n == Lesser(max_choice, scroll)
             IN MenuMoveTo(scroll - n, Greater(choice - (max_choice - n), 0))

MenuNpageUnclipped == MenuMoveTo(scroll + max_choice, choice)
MenuNpage == LET n == Lesser(max_choice, item_no - max_choice - scroll)
             IN MenuMoveTo(scroll + n, Lesser(choice + (max_choice - n), max_choice - 1))

\* The next row below the mark with the key, else the first one.
Below(key) == {r \in Matches(key) : r > choice}
MenuHotKey(key) ==
  LET candidates == IF Below(key) # {} THEN Below(key) ELSE Matches(key)
  IN \E r \in candidates : /\ \A q \in candidates : r <= q
                           /\ MenuMoveTo(scroll, r)

\* TAB is KEY_RIGHT.
MenuButton(d) == /\ Key
                 /\ button' = (button + d) % 3
                 /\ UNCHANGED <<mode, args, scrltmp, scroll, choice, screen, result>>

\* '\n', and ' ' and '?', which are Select and Help; scrltmp is written and
\* removed again.
MenuReturn(b) == /\ Closes
                 /\ button' = b
                 /\ result' = [button |-> b, item |-> scroll + choice]
                 /\ scrltmp' = NoFile
                 /\ UNCHANGED <<mode, args, scroll, choice, screen>>

MenuEscape == /\ Closes /\ scrltmp' = NoFile
              /\ UNCHANGED <<mode, args, scroll, choice, button, screen, result>>

MenuNext == /\ mode = "menu"
            /\ \/ MenuOpen
               \/ MenuUp \/ MenuDown \/ MenuPpage \/ MenuNpage
               \/ \E key \in Letter : MenuHotKey(key)
               \/ MenuButton(1) \/ MenuButton(-1)
               \/ MenuReturn(button) \/ MenuReturn(0) \/ MenuReturn(2)
               \/ MenuEscape

MenuSpec == MenuInit /\ [][MenuNext]_menu_vars
-----------------------------------------------------------------------------
\* The window never leaves the list, nor the mark the window, whatever was in
\* confdialog.scrltmp and whatever is typed.
MenuInWindow == mode = "menu" /\ pc # "open" =>
                  /\ scroll \in 0 .. item_no - max_choice
                  /\ choice \in 0 .. max_choice - 1

\* What the rows show, painted piece by piece, is the part of the list that the
\* keys act on, with one mark; what is printed in the end is the marked entry.
MenuFaithful == mode = "menu" /\ pc # "open" =>
                  /\ screen = MenuPainted(scroll, choice)
                  /\ result # NoItem => screen[choice][1] = result.item

\* Scrolling and moving the mark together are one cursor in the list.
MenuCursor == INSTANCE ListCursor WITH n <- item_no, page <- max_choice,
                                       selected <- scroll + choice
=============================================================================
