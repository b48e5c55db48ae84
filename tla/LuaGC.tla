-------------------------------- MODULE LuaGC -------------------------------
(***************************************************************************)
(* misc/luabash/lua/lgc.c, and the objects of lfunc.c and lstring.c: the   *)
(* incremental collector marks in steps, with the program running between  *)
(* them, ends the marking in one (atomic), and sweeps in steps; two whites *)
(* keep apart what is dead and what was made since.                        *)
(*                                                                         *)
(* An object has one field; Weak tables hold theirs weakly.  The collector *)
(* does its steps where the program allocates; here it may do them at any  *)
(* time.  Lists of which the order makes no difference are sets.           *)
(***************************************************************************)
EXTENDS Integers, FiniteSets

CONSTANTS Table, Weak, Function, String, Udata, Upval,  \* objects that may be made
          Global,                                       \* the table of globals
          Main,                                         \* the main thread
          Slots,                                        \* of its stack: 1 to their number
          Mixes,                                        \* bound: which objects one program makes
          NilRef

\* Objects of different types are different objects.
ASSUME LuaGCAssumption ==
  /\ Weak \subseteq Table /\ Global \in Table \ Weak /\ Slots \subseteq Nat \ {0}
  /\ Table \cap (Function \cup String \cup Udata \cup Upval \cup {Main}) = {}
  /\ Function \cap (String \cup Udata \cup Upval \cup {Main}) = {}
  /\ String \cap (Udata \cup Upval \cup {Main}) = {}
  /\ Udata \cap (Upval \cup {Main}) = {} /\ Main \notin Upval
  /\ NilRef \notin Table \cup Function \cup String \cup Udata \cup Upval \cup {Main}

VARIABLES
  usable,                 \* what this program makes
  made,                   \* the objects there are
  mark,                   \* of each: 0 or 1 (the whites), Gray, Black
  currentwhite,
  gcstate,                \* "pause", "propagate", "sweepstring", "sweep", "finalize"
  gray, grayagain, weak,  \* the lists
  unswept,
  ref,                    \* the field: of a closure its upvalue, of an upvalue its own value
  stack, level,           \* level: the slot an open upvalue stands for, 0 if closed
  finalized, tmudata,     \* userdata that had, or waits for, its finalizer
  wasted                  \* history: an object was used that had been freed

heap == <<made, ref>>
marks == <<mark, gray, grayagain, weak>>
program == <<stack, level>>
finalization == <<finalized, tmudata>>
lua_gc_vars == <<usable, heap, marks, currentwhite, gcstate, unswept, program, finalization, wasted>>

Obj == Table \cup Function \cup String \cup Udata \cup Upval \cup {Main}
Gray == 2
Black == 3
White == {0, 1}
otherwhite == 1 - currentwhite
isdead(o) == mark[o] = otherwhite
Open == {u \in Upval \cap made : level[u] # 0}
ValueOf(u) == IF level[u] # 0 THEN stack[level[u]] ELSE ref[u]

LuaGCStart ==
  /\ made = {Global, Main} /\ mark = [o \in Obj |-> 0] /\ currentwhite = 0 /\ gcstate = "pause"
  /\ gray = {} /\ grayagain = {} /\ weak = {} /\ unswept = {}
  /\ ref = [o \in Obj |-> NilRef] /\ stack = [s \in Slots |-> NilRef] /\ level = [u \in Upval |-> 0]
  /\ finalized = {} /\ tmudata = {} /\ wasted = FALSE
LuaGCInit == usable \in Mixes /\ LuaGCStart

-----------------------------------------------------------------------------
(* Marking: m is [mark, gray, grayagain, weak].                            *)

Marks == [mark |-> mark, gray |-> gray, grayagain |-> grayagain, weak |-> weak]
SetMarks(m) == mark' = m.mark /\ gray' = m.gray /\ grayagain' = m.grayagain /\ weak' = m.weak

Whites(m) == {o \in made : m.mark[o] \in White}

\* Those of the objects W that are come to from S, when each leads on to To[o].
Reached(W, S, To) ==
  {o \in W : \A D \in SUBSET W : (S \cap W) \cup UNION {To[p] \cap W : p \in D} \subseteq D => o \in D}

\* Userdata and upvalues are traversed at once; an open one stays gray.
AtOnce == [o \in Obj |-> IF o \in Udata THEN {ref[o]} ELSE IF o \in Upval THEN {ValueOf(o)} ELSE {}]
Marked(o) == IF o \in Udata \/ (o \in Upval /\ level[o] = 0) THEN Black ELSE Gray
Listed == Table \cup Function \cup {Main}
MarkAll(m, S) ==
  LET D == Reached(Whites(m), S, AtOnce)
  IN [m EXCEPT !.mark = [o \in Obj |-> IF o \in D THEN Marked(o) ELSE @[o]], !.gray = @ \cup (D \cap Listed)]

\* What the traversal of an object marks.  A table with weak values is not
\* traversed; it stays gray and is cleared in the end, and a thread stays gray
\* as there are no barriers for its stack.
traversetable(o) == IF o \in Weak THEN {} ELSE {ref[o]}
traverseclosure(o) == {ref[o]}
traversestack == {stack[s] : s \in Slots} \cup {Global}
Traversed == [o \in Obj |-> CASE o = Main -> traversestack
                            [] o \in Table -> traversetable(o)
                            [] o \in Function -> traverseclosure(o)
                            [] OTHER -> AtOnce[o]]
Done(o) == IF o \in Weak \cup {Main} THEN Gray ELSE IF o \in Listed THEN Black ELSE IF o \in String THEN Gray ELSE Marked(o)

propagatemark(m, o) ==
  MarkAll([m EXCEPT !.mark[o] = Done(o), !.gray = @ \ {o},
                    !.grayagain = @ \cup ({o} \cap {Main}), !.weak = @ \cup ({o} \cap Weak)], Traversed[o])

\* The same until no gray object is left, in any order.
ToTraverse(m) == m.gray \cup Reached(Whites(m), UNION {Traversed[o] : o \in m.gray}, Traversed)
propagateall(m) ==
  LET D == ToTraverse(m)
  IN [mark |-> [o \in Obj |-> IF o \in D THEN Done(o) ELSE m.mark[o]], gray |-> {},
      grayagain |-> m.grayagain \cup (D \cap {Main}), weak |-> m.weak \cup (D \cap Weak)]

markroot(m) == MarkAll([mark |-> m, gray |-> {}, grayagain |-> {}, weak |-> {}], {Main, Global})

StartCycle == /\ gcstate = "pause" /\ gcstate' = "propagate" /\ SetMarks(markroot(mark))
              /\ UNCHANGED <<heap, currentwhite, unswept, program, finalization, wasted>>

Propagate == /\ gcstate = "propagate" /\ \E o \in gray : SetMarks(propagatemark(Marks, o))
             /\ UNCHANGED <<heap, currentwhite, gcstate, unswept, program, finalization, wasted>>

isfinalizedWaiting(u) == u \in tmudata
isfinalized(u) == u \in finalized

\* The userdata that is to be finalized, and its marking, whatever it was.
luaC_separateudata(m) == {u \in Udata \cap made : m.mark[u] \in White /\ ~isfinalized(u)}
marktmu(m, all) == MarkAll([m EXCEPT !.mark = [o \in Obj |-> IF o \in all THEN currentwhite ELSE @[o]]], all)

\* What is taken out of a weak table.  Strings are marked and stay.
iscleared(m, v, gone) == v # NilRef /\ v \notin String /\ (m.mark[v] \in White \/ v \in gone)
cleartable(m, gone) == [o \in Obj |-> IF o \in m.weak /\ iscleared(m, ref[o], gone) THEN NilRef ELSE ref[o]]
stringmark(m) == [o \in Obj |-> IF o \in String /\ \E w \in m.weak : ref[w] = o THEN Gray ELSE m.mark[o]]

\* The end of the marking: again the values of open upvalues, the weak tables,
\* the running thread, what a barrier made gray; then the userdata that will be
\* finalized, with what it refers to.
remarkupvals(m) == MarkAll(m, {ValueOf(u) : u \in {u \in Open : m.mark[u] = Gray}})
atomic ==
  /\ gcstate = "propagate" /\ gray = {} /\ gcstate' = "sweepstring"
  /\ LET upvals == propagateall(remarkupvals(Marks))
         weaks == propagateall(MarkAll([upvals EXCEPT !.gray = upvals.weak, !.weak = {}], {Main}))
         again == propagateall([weaks EXCEPT !.gray = weaks.grayagain, !.grayagain = {}])
         all == tmudata \cup luaC_separateudata(again)
         end == propagateall(marktmu(again, all))
     IN /\ tmudata' = all /\ finalized' = finalized \cup all
        /\ ref' = cleartable(end, finalized \cup all)
        /\ SetMarks([end EXCEPT !.mark = stringmark(end)])
  /\ currentwhite' = otherwhite /\ unswept' = made
  /\ UNCHANGED <<made, program, wasted>>

-----------------------------------------------------------------------------
(* Sweeping.                                                               *)

\* Each that is not dead gets the current white; open upvalues are swept with
\* their thread.
Swept(S) == LET dead == {o \in S : isdead(o)}
            IN /\ made' = made \ dead /\ unswept' = unswept \ S
               /\ mark' = [o \in Obj |-> IF o \in S \ dead THEN currentwhite ELSE mark[o]]
               /\ ref' = [o \in Obj |-> IF o \in dead THEN NilRef ELSE ref[o]]
               /\ level' = [u \in Upval |-> IF u \in dead THEN 0 ELSE level[u]]
               /\ UNCHANGED <<gray, grayagain, weak, currentwhite, stack, finalization, wasted>>

SweepStrings == /\ gcstate = "sweepstring"
                /\ IF unswept \cap String = {} THEN gcstate' = "sweep" /\ Swept({})
                   ELSE gcstate' = gcstate /\ \E x \in unswept \cap String : Swept({x})

\* A closed upvalue has moved to the list of the others.
Sweep == /\ gcstate = "sweep"
         /\ LET listed == (unswept \cap made) \ Open
            IN IF listed = {} THEN gcstate' = "finalize" /\ Swept({})
               ELSE gcstate' = gcstate /\ \E o \in listed : Swept({o} \cup IF o = Main THEN Open ELSE {})

\* GCTM(): the finalizer is called, with the object on the stack.
Finalize(s) ==
  /\ gcstate = "finalize"
  /\ \E u \in tmudata : /\ tmudata' = tmudata \ {u}
                        /\ mark' = [mark EXCEPT ![u] = currentwhite]
                        /\ stack' = [stack EXCEPT ![s] = u]
                        /\ wasted' = (wasted \/ u \notin made)
  /\ UNCHANGED <<heap, gray, grayagain, weak, currentwhite, gcstate, unswept, level, finalized>>
EndCycle == /\ gcstate = "finalize" /\ tmudata = {} /\ gcstate' = "pause"
            /\ UNCHANGED <<heap, marks, currentwhite, unswept, program, finalization, wasted>>

\* luaC_fullgc(), up to its marking: what was marked is made white, or the
\* sweeping ended.
FullGC ==
  /\ gcstate # "finalize" /\ gcstate' = "propagate" /\ unswept' = {}
  /\ LET rest == IF gcstate \in {"pause", "propagate"} THEN made ELSE unswept
         dead == {o \in rest \cap made : isdead(o)}
         white == [o \in Obj |-> IF o \in rest \ dead THEN currentwhite ELSE mark[o]]
     IN /\ made' = made \ dead /\ SetMarks(markroot(white))
        /\ ref' = [o \in Obj |-> IF o \in dead THEN NilRef ELSE ref[o]]
        /\ level' = [u \in Upval |-> IF u \in dead THEN 0 ELSE level[u]]
  /\ UNCHANGED <<currentwhite, stack, finalization, wasted>>

Collector == StartCycle \/ Propagate \/ atomic \/ SweepStrings \/ Sweep \/ (\E s \in Slots : Finalize(s)) \/ EndCycle \/ FullGC

-----------------------------------------------------------------------------
(* The program, on what it has on the stack.                               *)

InSlot(s) == stack[s]
OnStack == {InSlot(s) : s \in Slots} \ {NilRef}
Uses(S) == wasted' = (wasted \/ \E o \in S \ {NilRef} : o \notin made)
Pushed(s, o) == stack' = [stack EXCEPT ![s] = o]
Quiet == UNCHANGED <<currentwhite, gcstate, unswept, finalization>>

\* luaC_link() of a table or userdata (with a finalizer).
New(s) == /\ \E o \in ((Table \cup Udata) \cap usable) \ (made \cup finalized) :
               /\ made' = made \cup {o} /\ mark' = [mark EXCEPT ![o] = currentwhite]
               /\ ref' = [ref EXCEPT ![o] = NilRef] /\ Pushed(s, o)
          /\ Quiet /\ UNCHANGED <<gray, grayagain, weak, level, wasted>>

\* luaS_newlstr(): a string that is there is used again, dead or not.
luaS_newlstr(s) ==
  \E x \in String \cap usable :
    /\ made' = made \cup {x} /\ Pushed(s, x)
    /\ mark' = [mark EXCEPT ![x] = IF x \notin made \/ isdead(x) THEN currentwhite ELSE @]
    /\ Quiet /\ UNCHANGED <<ref, gray, grayagain, weak, level, wasted>>

\* luaF_findupval() for slot l, and a closure that has it.
Closure(s, l) ==
  \E f \in (Function \cap usable) \ made :
    LET open == {u \in Open : level[u] = l}
    IN \E u \in IF open # {} THEN open ELSE Upval \ made :
         /\ made' = made \cup {f, u} /\ level' = [level EXCEPT ![u] = l]
         /\ mark' = [mark EXCEPT ![f] = currentwhite, ![u] = IF open = {} \/ isdead(u) THEN currentwhite ELSE @]
         /\ ref' = [ref EXCEPT ![f] = u] /\ Pushed(s, f)
         /\ Quiet /\ UNCHANGED <<gray, grayagain, weak, wasted>>

Get(s) == /\ \E o \in (OnStack \cap (Table \cup Udata)) \cup {Global} : ref[o] # NilRef /\ Pushed(s, ref[o]) /\ Uses({ref[o]})
          /\ Quiet /\ UNCHANGED <<heap, marks, level>>
GetUpval(s) == /\ \E f \in OnStack \cap Function : ValueOf(ref[f]) # NilRef /\ Pushed(s, ValueOf(ref[f])) /\ Uses({ref[f], ValueOf(ref[f])})
               /\ Quiet /\ UNCHANGED <<heap, marks, level>>
Pop(s) == /\ InSlot(s) # NilRef /\ Pushed(s, NilRef)
          /\ Quiet /\ UNCHANGED <<heap, marks, level, wasted>>

luaC_barriertNone(o, v) == Marks
\* The barriers: a black table becomes gray again; of another black object the
\* value is marked, or while sweeping the object made white.
luaC_barriert(o, v) == IF v # NilRef /\ mark[v] \in White /\ mark[o] = Black
                       THEN [Marks EXCEPT !.mark[o] = Gray, !.grayagain = @ \cup {o}] ELSE Marks
luaC_barrierf(m, o, v) == IF ~(v # NilRef /\ m.mark[v] \in White /\ m.mark[o] = Black) THEN m
                          ELSE IF gcstate = "propagate" THEN MarkAll(m, {v})
                          ELSE [m EXCEPT !.mark[o] = currentwhite]

Set(s) ==
  \E o \in (OnStack \cap (Table \cup Udata)) \cup {Global}, v \in {InSlot(s), NilRef} :
    /\ ref' = [ref EXCEPT ![o] = v]
    /\ SetMarks(IF o \in Table THEN luaC_barriert(o, v) ELSE luaC_barrierf(Marks, o, v))
    /\ Quiet /\ UNCHANGED <<made, program, wasted>>

SetUpval(s) ==
  \E f \in OnStack \cap Function :
    LET u == ref[f]
    IN /\ Uses({u}) /\ Quiet /\ UNCHANGED <<made, level>>
       /\ IF level[u] # 0 THEN Pushed(level[u], InSlot(s)) /\ UNCHANGED <<ref, marks>>
          ELSE /\ ref' = [ref EXCEPT ![u] = InSlot(s)] /\ UNCHANGED stack
               /\ SetMarks(luaC_barrierf(Marks, u, InSlot(s)))

\* luaF_close() and luaC_linkupval(): the upvalues of the slots that go get
\* their values; dead ones are freed, and the others
\* put before all objects, where the sweeping has been.
luaC_linkupval(S) ==
  IF gcstate = "propagate"
  THEN MarkAll([Marks EXCEPT !.mark = [o \in Obj |-> IF o \in S THEN Black ELSE @[o]]], {stack[level[u]] : u \in S})
  ELSE [Marks EXCEPT !.mark = [o \in Obj |-> IF o \in S THEN currentwhite ELSE @[o]]]
luaF_close(l) ==
  LET up == {u \in Open : level[u] >= l}
      dead == {u \in up : isdead(u)}
  IN /\ made' = made \ dead
     /\ ref' = [o \in Obj |-> IF o \in up \ dead THEN stack[level[o]] ELSE ref[o]]
     /\ level' = [u \in Upval |-> IF u \in up THEN 0 ELSE level[u]]
     /\ stack' = [s \in Slots |-> IF s >= l THEN NilRef ELSE stack[s]]
     /\ SetMarks(luaC_linkupval({u \in up : mark[u] = Gray}))
     /\ unswept' = unswept \ up
     /\ UNCHANGED <<currentwhite, gcstate, finalization, wasted>>

ProgramStep == \E s \in Slots : \/ New(s) \/ luaS_newlstr(s) \/ (\E l \in Slots : Closure(s, l)) \/ Get(s) \/ GetUpval(s)
                                \/ Pop(s) \/ Set(s) \/ SetUpval(s) \/ luaF_close(s)

LuaGCNext == UNCHANGED usable /\ (Collector \/ ProgramStep)
LuaGCSpec == LuaGCInit /\ [][LuaGCNext]_lua_gc_vars
-----------------------------------------------------------------------------
\* What an object refers to, weak references included.
References(o) == ({ref[o]} \cup IF o \in Upval THEN {ValueOf(o)} ELSE {}) \ {NilRef}

\* Nothing is freed that the program can still come to, whatever it did between
\* the steps: from the stack, the globals and the userdata that wait for their
\* finalizer all references lead to objects that are there (lgc.c:401, 671, 684;
\* lfunc.c:63; lstring.c:91).
NothingLiveFreed ==
  /\ ~wasted
  /\ \E live \in SUBSET made : /\ OnStack \cup {Global, Main} \cup tmudata \subseteq live
                               /\ \A o \in live : References(o) \subseteq live

\* While marking, no black object has a white value: the barriers see to it.
NoBlackToWhite ==
  gcstate = "propagate" => \A o \in made : mark[o] = Black /\ ref[o] # NilRef => mark[ref[o]] \notin White

\* What the assertions of the barriers say: none is needed between the cycles.
NoBlackAtRest == gcstate \in {"pause", "finalize"} => \A o \in made : mark[o] # Black

\* At the end of a cycle no dead object is left: two whites are enough.
AllSwept == gcstate \in {"pause", "propagate", "finalize"} => \A o \in made : ~isdead(o)
CollectorRight == NothingLiveFreed /\ NoBlackToWhite /\ NoBlackAtRest /\ AllSwept

\* What the collector follows: all references but those of weak tables.  The
\* program cannot come to u from its stack and the globals by such references.
Follows(o) == IF o \in Weak THEN {} ELSE References(o)
OutOfReach(u) == \E live \in SUBSET made : /\ OnStack \cup {Global, Main} \subseteq live /\ u \notin live
                                          /\ \A o \in live : Follows(o) \subseteq live

\* Userdata waits for its finalizer once in its life, also when the finalizer
\* brings it back, and when it begins to wait it is out of the program's reach,
\* whatever the program did between the steps of the marking (lgc.c:125, 529).
FinalizedOnce ==
  [][/\ finalized \subseteq finalized'
     /\ \A u \in tmudata' \ tmudata : u \in finalized' \ finalized /\ OutOfReach(u)]_lua_gc_vars
=============================================================================
