------------------------------ MODULE Confdialog ----------------------------
(***************************************************************************)
(* misc/confdialog: main() finds the dialog that its arguments ask for and *)
(* calls it; the message and the question boxes, which have no state but   *)
(* their button, are here.                                                 *)
(***************************************************************************)
EXTENDS Menubox, Checklist, Inputbox, Textbox

LOCAL INSTANCE SequencesExt

lists == <<args, choice>>
menu == <<scrltmp>>
checks == <<status, arrows>>
input == <<box_width, instr, input_x, lit>>
textbox == <<contents, height, view, begin_reached, page_length>>

confdialog_vars == <<dialog, lists, menu, checks, input, textbox>>

-----------------------------------------------------------------------------
(* main(): the options come first, in any order; what is left is for the   *)
(* dialog.                                                                 *)

Usage == [title |-> "", back |-> "", clear |-> FALSE, dialog |-> <<>>]

\* The options of a, from the offset of o on; o.title and o.back are where the
\* texts were found.  (A --backtitle that comes last is not in the model: the
\* argument behind it is not looked for.)
Offsets == [offset : Nat, title : Nat, back : Nat, clear : BOOLEAN]
ParseCall[o \in Offsets, a \in Seq(STRING)] ==
  LET i == o.offset + 1
      left == Len(a) - o.offset
  IN IF left = 0 THEN Usage
     ELSE IF a[i] = "--title"
       THEN IF left < 2 \/ o.title # 0 THEN Usage
            ELSE ParseCall[[o EXCEPT !.title = i + 1, !.offset = i + 1], a]
     ELSE IF a[i] = "--backtitle"
       THEN IF o.back # 0 THEN Usage
            ELSE ParseCall[[o EXCEPT !.back = i + 1, !.offset = i + 1], a]
     ELSE IF a[i] = "--clear"
       THEN IF o.clear THEN Usage
            ELSE ParseCall[[o EXCEPT !.clear = TRUE, !.offset = i], a]
     ELSE [title |-> IF o.title = 0 THEN "" ELSE a[o.title],
           back |-> IF o.back = 0 THEN "" ELSE a[o.back],
           clear |-> o.clear, dialog |-> SubSeq(a, i, Len(a))]

dialog_call(a) == ParseCall[[offset |-> 0, title |-> 0, back |-> 0, clear |-> FALSE], a]

-----------------------------------------------------------------------------
(* yesno.c and msgbox.c.                                                   *)

BoxInit == /\ mode \in {"yesno", "msg"} /\ pc = "loop"
           /\ scroll = 0 /\ button = 0 /\ screen = 0 /\ result = "none"

BoxButton == /\ mode = "yesno" /\ Key
             /\ button' = 1 - button /\ screen' = button'
             /\ UNCHANGED <<mode, scroll, result>>

BoxReturns(r) == /\ Closes /\ result' = r
                 /\ UNCHANGED <<mode, scroll, button, screen>>

BoxKey == \/ mode = "yesno" /\ BoxReturns("yes")                          \* 'y'
          \/ mode = "yesno" /\ BoxReturns("no")                           \* 'n'
          \/ mode = "yesno" /\ BoxReturns(IF button = 0 THEN "yes" ELSE "no")
          \/ mode = "msg" /\ BoxReturns("ok")
          \/ BoxReturns("escape")

BoxNext == mode \in {"yesno", "msg"} /\ (BoxButton \/ BoxKey)

-----------------------------------------------------------------------------
NoList == /\ item_no = 1 /\ list_height = 1 /\ hot = <<>> /\ choice = 0
NoMenu == scrltmp = NoFile
NoChecks == status = <<>> /\ arrows = <<FALSE, FALSE>>
NoInput == box_width = 2 /\ instr = <<>> /\ input_x = 0 /\ lit = 0
NoText == /\ contents = <<>> /\ height = 1 /\ begin_reached = TRUE /\ page_length = 0
          /\ view = [fpos |-> 0, got |-> 0, page |-> 0, end |-> FALSE]

ConfdialogInit == \/ MenuInit /\ NoChecks /\ NoInput /\ NoText
                  \/ CheckInit /\ NoMenu /\ NoInput /\ NoText
                  \/ InputInit /\ NoList /\ NoMenu /\ NoChecks /\ NoText
                  \/ TextInit /\ NoList /\ NoMenu /\ NoChecks /\ NoInput
                  \/ BoxInit /\ NoList /\ NoMenu /\ NoChecks /\ NoInput /\ NoText

ConfdialogNext == \/ MenuNext /\ UNCHANGED <<checks, input, textbox>>
                  \/ CheckNext /\ UNCHANGED <<menu, input, textbox>>
                  \/ InputNext /\ UNCHANGED <<lists, menu, checks, textbox>>
                  \/ TextNext /\ UNCHANGED <<lists, menu, checks, input>>
                  \/ BoxNext /\ UNCHANGED <<lists, menu, checks, input, textbox>>

ConfdialogSpec == ConfdialogInit /\ [][ConfdialogNext]_confdialog_vars
-----------------------------------------------------------------------------
\* The options of a call: each at most once, the texts any two arguments.
Options(t, b) == {<<"--title", t>>, <<"--backtitle", b>>, <<"--clear">>}

\* The options may come in any order, and a text that looks like an option is a
\* text; an option too many is not taken for the dialog.
OptionsInAnyOrder ==
  \A t, b \in {"A", "--clear", "--title"} :
    \A s \in UNION {[1 .. k -> Options(t, b)] : k \in 1 .. 3} :
      LET given(o) == \E i \in DOMAIN s : s[i] = o
          twice == \E i, j \in DOMAIN s : i # j /\ s[i] = s[j]
          line == [title |-> IF given(<<"--title", t>>) THEN t ELSE "",
                   back |-> IF given(<<"--backtitle", b>>) THEN b ELSE "",
                   clear |-> given(<<"--clear">>), dialog |-> <<"--yesno", "Q">>]
      IN dialog_call(FlattenSeq(s) \o <<"--yesno", "Q">>) = IF twice THEN Usage ELSE line

\* Both lists, painted and scrolled in pieces, are one cursor in one list.
Cursor == INSTANCE ListCursor WITH
            n <- item_no, page <- max_choice,
            selected <- IF Drawn \/ mode = "menu" THEN scroll + choice
                        ELSE IF mode \in {"check", "radio"} THEN FirstOn ELSE 0
IsListCursor == Cursor!Spec

\* The text box, which holds a part of the file and finds the lines in it, is a
\* pager on the lines of the file.
Viewer == INSTANCE LineViewer WITH
            lines <- Cardinality(Starts),
            top <- IF mode = "text" /\ pc # "open" THEN LineOf(screen[1][1]) ELSE 0
IsLineViewer == Viewer!Spec
=============================================================================
