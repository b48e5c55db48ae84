----------------------------- MODULE ListCursor -----------------------------
(***************************************************************************)
(* What a scrolling list promises to its user: one entry out of n is       *)
(* selected, the arrow keys move the selection by one entry, the page keys *)
(* by one page, and a hot key takes it to an entry less than a page away;  *)
(* it never leaves the list.  How much of the list is on the screen, and   *)
(* where, does not show.  The menu and the check list of confdialog        *)
(* implement it.                                                           *)
(***************************************************************************)
EXTENDS Integers

VARIABLES n,          \* the entries of the list are 0 .. n - 1
          page,       \* the rows of the list's window
          selected

vars == <<n, page, selected>>

Clip(i) == IF i < 0 THEN 0 ELSE IF i >= n THEN n - 1 ELSE i

Init == /\ n \in Nat \ {0} /\ page \in 1 .. n
        /\ selected \in 0 .. n - 1

Step(d) == selected' = Clip(selected + d)

Jump == \E i \in 0 .. n - 1 : /\ i - selected < page /\ selected - i < page
                              /\ selected' = i

Next == /\ Step(1) \/ Step(-1) \/ Step(page) \/ Step(-page) \/ Jump
        /\ UNCHANGED <<n, page>>

Spec == Init /\ [][Next]_vars
=============================================================================
