------------------------------- MODULE Inputbox -----------------------------
(***************************************************************************)
(* misc/confdialog/inputbox.c: dialog_inputbox().                          *)
(*                                                                         *)
(* The text is edited at its end, in the buffer dialog_input_result; the   *)
(* field shows box_width cells of it from scroll on, each cell written     *)
(* when it changes.                                                        *)
(***************************************************************************)
EXTENDS Widget

CONSTANTS MAX_LEN,    \* the length of the longest text (2048)
          MaxWidth,   \* bound: width of the field
          Char        \* characters

NUL == "NUL"

ASSUME InputboxAssumption == /\ MAX_LEN \in Nat \ {0} /\ MaxWidth \in Nat \ {0, 1}
                             /\ NUL \notin Char

VARIABLES
  box_width,       \* from the argument width
  instr,           \* the buffer: instr[i], i in 0 .. MAX_LEN
  input_x,         \* the cell of the cursor
  lit              \* the button drawn as selected

input_vars == <<dialog, box_width, instr, input_x, lit>>

Blank == NUL        \* an end of string is shown as a blank
Cells == 0 .. box_width - 1

\* strlen(): up to the first NUL.
Length(s) == CHOOSE k \in 0 .. MAX_LEN : /\ s[k] = NUL
                                         /\ \A j \in 0 .. k - 1 : s[j] # NUL

\* What a cell shows of the buffer; a NUL does not end the showing.
Shown(s, from, i) == IF from + i <= MAX_LEN THEN s[from + i] ELSE Blank

InputInit == /\ mode = "input" /\ pc = "open"
             /\ box_width \in 2 .. MaxWidth
             /\ \E n \in 0 .. MAX_LEN : \E t \in [0 .. n - 1 -> Char] :
                  instr = [i \in 0 .. MAX_LEN |-> IF i < n THEN t[i] ELSE NUL]
             /\ scroll = 0 /\ input_x = 0 /\ button = -1 /\ lit = 0
             /\ screen = [i \in Cells |-> Blank] /\ result = "none"

\* Only the part that fits is shown of a long text, its end.
InputOpen == /\ pc = "open" /\ pc' = "loop"
             /\ LET n == Length(instr) IN
                /\ scroll' = Greater(n - box_width + 1, 0) /\ input_x' = n - scroll'
                /\ screen' = [i \in Cells |-> IF i < input_x' THEN instr[scroll' + i]
                                              ELSE Blank]
             /\ UNCHANGED <<mode, box_width, instr, button, lit, result>>

Editing == Key /\ button = -1
unedited == <<mode, box_width, button, lit, result>>

Type(c) ==
  /\ Editing /\ scroll + input_x < MAX_LEN
  /\ instr' = [instr EXCEPT ![scroll + input_x] = c, ![scroll + input_x + 1] = NUL]
  /\ \/ /\ input_x = box_width - 1
        /\ scroll' = scroll + 1 /\ UNCHANGED input_x
        /\ screen' = [i \in Cells |-> IF i = input_x THEN screen[i] ELSE instr'[scroll' + i]]
     \/ /\ input_x < box_width - 1
        /\ input_x' = input_x + 1 /\ UNCHANGED scroll
        /\ screen' = [screen EXCEPT ![input_x] = c]
  /\ UNCHANGED unedited

\* At the left edge of a scrolled field the text is first scrolled back: the
\* key takes no character then.
Backspace ==
  /\ Editing
  /\ \/ /\ input_x = 0 /\ scroll > 0
        /\ scroll' = Greater(scroll - (box_width - 1), 0)
        /\ input_x' = Length(instr) - scroll'
        /\ screen' = [i \in Cells |-> IF i = input_x' THEN Blank
                                      ELSE Shown(instr, scroll', i)]
     \/ /\ input_x > 0
        /\ input_x' = input_x - 1 /\ UNCHANGED scroll
        /\ screen' = [screen EXCEPT ![input_x'] = Blank]
  /\ instr' = [instr EXCEPT ![scroll' + input_x'] = NUL]
  /\ UNCHANGED unedited

Focus(b, l) == /\ Key
               /\ button' = b /\ lit' = l
               /\ UNCHANGED <<mode, box_width, instr, scroll, input_x, screen, result>>

\* KEY_UP, and KEY_LEFT outside the field.
InputPrevious == \/ button = -1 /\ Focus(1, 1)
                 \/ button = 0 /\ Focus(-1, 0)
                 \/ button = 1 /\ Focus(0, 0)

\* TAB and KEY_DOWN, and KEY_RIGHT outside the field.
InputFollowing == \/ button = -1 /\ Focus(1, 0)
                  \/ button = 0 /\ Focus(1, 1)
                  \/ button = 1 /\ Focus(-1, 0)

InputCloses(r) == /\ Closes /\ result' = r
                  /\ UNCHANGED <<mode, box_width, instr, scroll, input_x, button, lit, screen>>

\* '\n', and ' ' outside the field; j_inputbox() prints the text of an "ok".
InputEnter == InputCloses(IF button = 1 THEN "cancel" ELSE "ok")

\* 'o', 'x' outside the field, and ESC.
InputOk == button # -1 /\ InputCloses("ok")
InputEscape == InputCloses("escape")

InputNext == /\ mode = "input"
             /\ \/ InputOpen
                \/ (\E c \in Char : Type(c)) \/ Backspace
                \/ InputPrevious \/ InputFollowing
                \/ InputEnter \/ InputOk \/ InputEscape

InputSpec == InputInit /\ [][InputNext]_input_vars
-----------------------------------------------------------------------------
Edited == mode = "input" /\ pc # "open"

\* The cursor stays behind the last character, inside the field, and the buffer
\* is empty from there on: strlen() and the scrolling back, which shows whatever
\* it finds there, rely on it.
CursorAtEnd == Edited => /\ input_x \in Cells
                         /\ \A i \in 0 .. MAX_LEN : instr[i] = NUL <=> i >= scroll + input_x

\* The field shows the part of the text it stands for, however it was edited.
InputFaithful == Edited => \A i \in Cells : screen[i] = Shown(instr, scroll, i)

\* inputbox.c:224 says of the first TAB: Indicates "OK" button is selected.  What
\* is drawn as selected is what the Enter key means.
OkMeansOk == mode = "input" /\ result = "cancel" => lit = 1
=============================================================================
