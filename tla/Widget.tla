------------------------------- MODULE Widget -------------------------------
(***************************************************************************)
(* What the dialogs of misc/confdialog have in common: a call of           *)
(* confdialog draws one dialog, reads keys until one of them ends it, and  *)
(* returns.                                                                *)
(***************************************************************************)
EXTENDS Integers

VARIABLES
  mode,      \* which dialog: "menu", "check", "radio", "input", "text", "yesno", "msg"
  pc,        \* "open": called, "loop": reading keys, "closed"
  scroll,    \* what of the contents is at the upper or left edge
  button,    \* the button selected
  screen,    \* what is shown, cell by cell or row by row
  result     \* what is returned and printed

dialog == <<mode, pc, scroll, button, screen, result>>

Lesser(a, b) == IF a < b THEN a ELSE b
Greater(a, b) == IF a > b THEN a ELSE b

\* pc of a step that reads a key, and of one that ends the dialog.
Key == pc = "loop" /\ pc' = "loop"
Closes == pc = "loop" /\ pc' = "closed"

-----------------------------------------------------------------------------
(* What menubox.c and checklist.c have in common: a list of which some     *)
(* rows are shown, one of them marked.                                     *)

CONSTANTS MaxItems,   \* bound: entries of a list
          Letter      \* what keys an entry can be found by

ASSUME ListAssumption == MaxItems \in Nat \ {0}

VARIABLES
  item_no, list_height, hot,   \* arguments: entries, rows, hot[i] of entry i
  choice                       \* the row that is marked

args == <<item_no, list_height, hot>>
list == <<dialog, args, choice>>

max_choice == Lesser(list_height, item_no)
Items == 0 .. item_no - 1
Rows == 0 .. max_choice - 1

Sizes == /\ item_no \in 1 .. MaxItems /\ list_height \in 1 .. MaxItems
         /\ hot \in [Items -> Letter]

\* The rows shown whose entry has the key.
Matches(key) == {r \in Rows : hot[scroll + r] = key}
=============================================================================
