----------------------------- MODULE LineViewer -----------------------------
(***************************************************************************)
(* What a pager promises: a window of height lines on the lines of a file, *)
(* of which there are always some to be seen, moved by lines and by pages  *)
(* and to both ends.  The text box of confdialog implements it with a      *)
(* buffer that holds a part of the file.                                   *)
(***************************************************************************)
EXTENDS Integers

VARIABLES lines,      \* of the file
          height,     \* of the window
          top         \* the line, from 0, in the first row

vars == <<lines, height, top>>

Init == lines \in Nat \ {0} /\ height \in Nat \ {0} /\ top = 0

AtEnd == top + height >= lines

Down == ~AtEnd /\ top' = top + 1
PageDown == ~AtEnd /\ top' = top + height
Up == top > 0 /\ top' = top - 1
PageUp == top' = IF top > height THEN top - height ELSE 0
Home == top' = 0
End == top' = IF lines > height THEN lines - height ELSE 0

Next == /\ Down \/ PageDown \/ Up \/ PageUp \/ Home \/ End
        /\ UNCHANGED <<lines, height>>

Spec == Init /\ [][Next]_vars
=============================================================================
