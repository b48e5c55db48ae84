------------------------------ MODULE Checklist -----------------------------
(***************************************************************************)
(* misc/confdialog/checklist.c: dialog_checklist(), for --checklist and    *)
(* for --radiolist.                                                        *)
(*                                                                         *)
(* Like the menu, but the rows also show whether their entry is on, and    *)
(* the scroll indicators are drawn only when the list scrolls.  screen[r]  *)
(* is the entry that row r shows, whether it is on and if it is marked.    *)
(***************************************************************************)
EXTENDS Widget

VARIABLES status,     \* status[i]: whether entry i is on
          arrows      \* whether "(-)" and "(+)" are shown

check_vars == <<list, status, arrows>>

NoEntries == {-1}     \* nothing printed; otherwise the entries

On == {i \in Items : status[i]}

\* The callers turn at most one entry of a radio list on.
CheckInit == /\ mode \in {"check", "radio"} /\ pc = "open" /\ Sizes
             /\ status \in [Items -> BOOLEAN]
             /\ mode = "radio" => \A i, j \in On : i = j
             /\ scroll = 0 /\ choice = 0 /\ button = 0
             /\ screen = [r \in Rows |-> <<-1, FALSE, FALSE>>]
             /\ arrows = <<FALSE, FALSE>> /\ result = NoEntries

Row(s, on, r, c) == <<s + r, on[s + r], r = c>>
CheckPainted(s, c, on) == [r \in Rows |-> Row(s, on, r, c)]

print_arrows(s, c) == <<s > 0, list_height < item_no /\ s + c < item_no - 1>>

\* "if (!choice && status[i]) choice = i": the first entry does not stay.
FirstOn == LET later == On \ {0}
           IN IF later = {} THEN 0 ELSE CHOOSE i \in later : \A j \in later : i <= j

CheckOpen == /\ pc = "open" /\ pc' = "loop"
             /\ scroll' = IF FirstOn >= list_height THEN FirstOn - list_height + 1 ELSE 0
             /\ choice' = FirstOn - scroll'
             /\ screen' = CheckPainted(scroll', choice', status)
             /\ arrows' = print_arrows(scroll', choice')
             /\ UNCHANGED <<mode, args, button, status, result>>

unscrolled == <<mode, args, button, status, result>>

\* The mark moves to row c.
MarkRow(c) == /\ Key
              /\ choice' = c
              /\ screen' = [screen EXCEPT ![choice] = Row(scroll, status, choice, c),
                                          ![c] = Row(scroll, status, c, c)]
              /\ UNCHANGED <<unscrolled, scroll, arrows>>

\* The list moves under the mark, which is in the first or the last row; in a
\* window of one row nothing is moved, the row is painted over.
ScrollBy(d) ==
  /\ Key
  /\ scroll' = scroll + d
  /\ LET unmarked == [screen EXCEPT ![choice] = Row(scroll, status, choice, -1)]
     IN screen' = [r \in Rows |-> IF r = choice THEN Row(scroll', status, r, r)
                                  ELSE unmarked[r + d]]
  /\ arrows' = print_arrows(scroll', choice)
  /\ UNCHANGED <<unscrolled, choice>>

CheckUp == \/ choice > 0 /\ MarkRow(choice - 1)
           \/ choice = 0 /\ scroll > 0 /\ ScrollBy(-1)

CheckDown == \/ choice < max_choice - 1 /\ MarkRow(choice + 1)
             \/ /\ choice = max_choice - 1 /\ scroll + choice < item_no - 1
                /\ ScrollBy(1)

\* The first row with the key, before the key is taken for a command.
CheckHotKey(key) == \E r \in Matches(key) : /\ \A q \in Matches(key) : r <= q
                                            /\ MarkRow(r)

ToggledAlso == LET i == scroll + choice IN [status EXCEPT ![i] = ~@]
\* ' ', 's' and '\n', unless an entry begins with it.
Toggled == LET i == scroll + choice IN
           IF mode = "check" THEN [status EXCEPT ![i] = ~@] ELSE [j \in Items |-> j = i]

\* Of a check list only the marked row is painted.
CheckSelect == /\ Closes
               /\ status' = Toggled
               /\ screen' = IF mode = "check"
                              THEN [screen EXCEPT ![choice] = Row(scroll, Toggled, choice, choice)]
                              ELSE CheckPainted(scroll, choice, Toggled)
               /\ result' = {i \in Items : Toggled[i]}
               /\ UNCHANGED <<mode, args, scroll, choice, button, arrows>>

\* 'h', 'x' and ESC.
CheckLeave == Closes /\ UNCHANGED <<unscrolled, scroll, choice, screen, arrows>>

CheckNext == /\ mode \in {"check", "radio"}
             /\ \/ CheckOpen
                \/ CheckUp \/ CheckDown
                \/ \E key \in Letter : CheckHotKey(key)
                \/ CheckSelect \/ CheckLeave

CheckSpec == CheckInit /\ [][CheckNext]_check_vars
-----------------------------------------------------------------------------
Drawn == mode \in {"check", "radio"} /\ pc # "open"

CheckInWindow == Drawn => /\ scroll \in 0 .. item_no - max_choice
                          /\ choice \in 0 .. max_choice - 1

\* The rows show the entries the keys act on and which of them are on, also
\* after the last toggle.
CheckFaithful == Drawn => screen = CheckPainted(scroll, choice, status)

\* "(-)" and "(+)" tell whether there is more above and below the window,
\* though they are not drawn when only the mark moves, and "(+)" is computed
\* from the mark.
ArrowsTrue == Drawn => /\ arrows[1] <=> scroll > 0
                       /\ arrows[2] <=> scroll + max_choice < item_no

\* A list of which one entry is to be chosen never prints two or none.
RadioPrintsOne == mode = "radio" /\ result # NoEntries => result = {scroll + choice}

\* Once drawn, the list is one cursor.
CheckCursor == INSTANCE ListCursor WITH n <- item_no, page <- max_choice,
                 selected <- IF pc = "open" THEN FirstOn ELSE scroll + choice
=============================================================================
