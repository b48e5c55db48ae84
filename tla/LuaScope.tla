------------------------------ MODULE LuaScope ------------------------------
(***************************************************************************)
(* The names of the Lua parser (lparser.c): a name is a local variable of  *)
(* the function that is being compiled, an upvalue, which is a local       *)
(* variable of an enclosing function reached through the closures in       *)
(* between, or a global.  A block whose variables a closure has taken must *)
(* close them however it is left: at its end, by break, or by the          *)
(* condition of repeat, which is read inside the block.                    *)
(*                                                                         *)
(* The state is the functions being compiled, the innermost last.  The     *)
(* program text is free: each action is a piece of it.                     *)
(***************************************************************************)
EXTENDS Integers, Sequences, SequencesExt

CONSTANTS
  VarName,   \* the names in the text
  MaxFunc,   \* how deeply functions nest
  MaxBlock,  \* and blocks in one function
  MaxVar,    \* the local variables of one function
  MaxOpen    \* functions, blocks and variables that are open together

VARIABLES
  funcs,     \* the functions: variables, blocks, upvalues, a pending local
  single,    \* what the last name was found to be
  closing    \* what the last exit from blocks closed

lua_scope_vars == <<funcs, single, closing>>

NoName == "none"
NoClose == -1
NoVar == [name |-> NoName, k |-> NoName, info |-> 0]
NoExit == [from |-> NoClose, taken |-> {}, kept |-> 0]

-----------------------------------------------------------------------------
(* Variables are numbered from 0, as their registers are.  A variable is   *)
(* taken when the code that makes a closure with it has been written.      *)

fs == Last(funcs)
nactvar(f) == Len(f.actvar)
SetTop(f) == funcs' = Append(Front(funcs), f)

\* The bound on what is open.
Size == FoldLeft(LAMBDA n, f : n + 1 + nactvar(f) + Len(f.bl), 0, funcs)
Room == Size < MaxOpen

\* open_func() and the parameters.
open_func(params) ==
  [actvar |-> [i \in DOMAIN params |-> [name |-> params[i], taken |-> FALSE]], pending |-> NoName,
   bl |-> <<>>, upvalues |-> <<>>]

LuaScopeInit == funcs = <<open_func(<<>>)>> /\ single = NoVar /\ closing = NoExit

Parse == single' = NoVar /\ closing' = NoExit

FunctionBody(params) == /\ Room /\ Len(funcs) < MaxFunc /\ funcs' = Append(funcs, open_func(params)) /\ Parse

\* local name; the variable is there only after the expression.
new_localvar(n) == /\ Room /\ fs.pending = NoName /\ nactvar(fs) < MaxVar
                   /\ SetTop([fs EXCEPT !.pending = n]) /\ Parse
adjustlocalvars == /\ fs.pending # NoName /\ Parse
                   /\ SetTop([fs EXCEPT !.actvar = Append(@, [name |-> fs.pending, taken |-> FALSE]), !.pending = NoName])
\* local function name, which the function itself sees
localfunc(n) == /\ Room /\ fs.pending = NoName /\ nactvar(fs) < MaxVar /\ Len(funcs) < MaxFunc /\ Parse
                /\ funcs' = Append(Append(Front(funcs), [fs EXCEPT !.actvar = Append(@, [name |-> n, taken |-> FALSE])]),
                                   open_func(<<>>))

-----------------------------------------------------------------------------
(* Blocks.                                                                 *)

enterblock(f, breakable) ==
  [f EXCEPT !.bl = Append(@, [breakable |-> breakable, upval |-> FALSE, nactvar |-> nactvar(f), repeat |-> FALSE])]
removevars(f, lev) == [f EXCEPT !.actvar = SubSeq(@, 1, lev)]
leaveblock(f) == [removevars(f, Last(f.bl).nactvar) EXCEPT !.bl = Front(@)]

Statement == fs.pending = NoName

Block == /\ Room /\ Statement /\ Len(fs.bl) < MaxBlock /\ SetTop(enterblock(fs, FALSE)) /\ Parse
\* A loop has a block that can be broken, and one for its variables.
Loop(repeat) == /\ Room /\ Statement /\ Len(fs.bl) + 1 < MaxBlock /\ Parse
                /\ LET f == enterblock(enterblock(fs, TRUE), FALSE)
                   IN SetTop([f EXCEPT !.bl[Len(f.bl)].repeat = repeat])

\* What leaving for a place with kept variables closes, and what it should.
Exit(f, from, kept) ==
  closing' = [from |-> from, taken |-> {i \in kept .. nactvar(f) - 1 : f.actvar[i + 1].taken}, kept |-> kept]

\* The end of a block, and of the loop it is the body of.
LeftWhole(f) == LET g == leaveblock(f)
                IN IF g.bl # <<>> /\ Last(g.bl).breakable THEN leaveblock(g) ELSE g
CloseOf(bl) == IF bl.upval THEN bl.nactvar ELSE NoClose
EndBlock == /\ Room /\ Statement /\ fs.bl # <<>> /\ ~Last(fs.bl).repeat /\ single' = NoVar
            /\ SetTop(LeftWhole(fs)) /\ Exit(fs, CloseOf(Last(fs.bl)), Last(fs.bl).nactvar)

\* The loop that break leaves, and the close that comes before the jump.
Breakable(f) == {i \in DOMAIN f.bl : f.bl[i].breakable}
BrokenLoop(f) == CHOOSE i \in Breakable(f) : \A j \in Breakable(f) : j <= i
breakstat(f) == LET l == BrokenLoop(f)
                IN IF \E i \in l + 1 .. Len(f.bl) : f.bl[i].upval THEN f.bl[l].nactvar ELSE NoClose
Break == /\ Statement /\ Breakable(fs) # {} /\ single' = NoVar /\ UNCHANGED funcs
         /\ Exit(fs, breakstat(fs), fs.bl[BrokenLoop(fs)].nactvar)

\* until: the condition has been read.  If it holds the loop is left, with a
\* break if there are variables to close, and if not the block ends.
Until == /\ Statement /\ fs.bl # <<>> /\ Last(fs.bl).repeat /\ single' = NoVar
         /\ \/ Exit(fs, IF Last(fs.bl).upval THEN breakstat(fs) ELSE NoClose, fs.bl[BrokenLoop(fs)].nactvar)
            \/ Exit(fs, CloseOf(Last(fs.bl)), Last(fs.bl).nactvar)
         /\ SetTop(LeftWhole(fs))

-----------------------------------------------------------------------------
(* Names.  [k, info, funcs]: found, with what the functions remember.      *)

searchvar(f, n) == {i \in 0 .. nactvar(f) - 1 : f.actvar[i + 1].name = n}
Latest(S) == CHOOSE i \in S : \A j \in S : j <= i

markupvalBelow(f, lev) ==
  LET own == {i \in DOMAIN f.bl : f.bl[i].nactvar < lev}
  IN IF own = {} THEN f ELSE [f EXCEPT !.bl[Latest(own)].upval = TRUE]
\* The block the variable belongs to must close it.
markupval(f, lev) ==
  LET own == {i \in DOMAIN f.bl : f.bl[i].nactvar <= lev}
  IN IF own = {} THEN f ELSE [f EXCEPT !.bl[Latest(own)].upval = TRUE]

\* [i, f]: the upvalue's number, an old or a new one.
indexupvalue(f, u) ==
  LET old == {i \in DOMAIN f.upvalues : f.upvalues[i].k = u.k /\ f.upvalues[i].info = u.info}
  IN IF old # {} THEN [i |-> (CHOOSE i \in old : TRUE) - 1, f |-> f]
     ELSE [i |-> Len(f.upvalues), f |-> [f EXCEPT !.upvalues = Append(@, u)]]

RECURSIVE singlevaraux(_, _, _, _)
singlevaraux(fns, d, n, base) ==
  IF d = 0 THEN [k |-> "global", info |-> 0, fns |-> fns]
  ELSE LET found == searchvar(fns[d], n)
           v == Latest(found)
           up == singlevaraux(fns, d - 1, n, FALSE)
           x == indexupvalue(up.fns[d], [k |-> up.k, info |-> up.info, name |-> n])
       IN IF found # {}
          THEN [k |-> "local", info |-> v, fns |-> IF base THEN fns ELSE [fns EXCEPT ![d] = markupval(@, v)]]
          ELSE IF up.k = "global" THEN up
          ELSE [k |-> "upvalue", info |-> x.i, fns |-> [up.fns EXCEPT ![d] = x.f]]

singlevar(n) == LET r == singlevaraux(funcs, Len(funcs), n, TRUE)
                IN /\ funcs' = r.fns /\ single' = [name |-> n, k |-> r.k, info |-> r.info] /\ closing' = NoExit

\* close_func() and pushclosure(): the code that makes the closure takes the
\* variables of the enclosing function.
pushclosure ==
  /\ Len(funcs) > 1 /\ Statement /\ fs.bl = <<>> /\ Parse
  /\ LET outer == funcs[Len(funcs) - 1]
         taken == {u.info : u \in {v \in ToSet(fs.upvalues) : v.k = "local"}}
     IN funcs' = Append(SubSeq(funcs, 1, Len(funcs) - 2),
                        [outer EXCEPT !.actvar = [i \in DOMAIN @ |-> [@[i] EXCEPT !.taken = @ \/ i - 1 \in taken]]])

LuaScopeNext ==
  \/ \E n \in VarName : new_localvar(n) \/ localfunc(n) \/ singlevar(n) \/ FunctionBody(<<n>>)
  \/ FunctionBody(<<>>) \/ adjustlocalvars \/ Block \/ (\E r \in BOOLEAN : Loop(r)) \/ EndBlock \/ Break \/ Until \/ pushclosure
LuaScopeSpec == LuaScopeInit /\ [][LuaScopeNext]_lua_scope_vars

-----------------------------------------------------------------------------
\* The variable that an operand stands for when the program runs: function and
\* register, followed through the closures.
RECURSIVE Denotes(_, _, _)
Denotes(d, k, info) == IF k = "local" THEN <<d, info>>
                       ELSE LET u == funcs[d].upvalues[info + 1] IN Denotes(d - 1, u.k, u.info)

\* The variable the text means: the latest of the innermost function.
Declares(n) == {d \in DOMAIN funcs : searchvar(funcs[d], n) # {}}
Meant(n) == LET d == Latest(Declares(n)) IN <<d, Latest(searchvar(funcs[d], n))>>

\* A name is compiled into the variable that the text means, through however many
\* functions, and what a function has noted for its upvalues stays true while the
\* functions around it are compiled (lparser.c:189).
NamesFound ==
  /\ single # NoVar => IF Declares(single.name) = {} THEN single.k = "global"
                       ELSE single.k # "global" /\ Denotes(Len(funcs), single.k, single.info) = Meant(single.name)
  /\ \A d \in DOMAIN funcs : \A i \in DOMAIN funcs[d].upvalues :
       LET v == Denotes(d, "upvalue", i - 1)
       IN v[2] < nactvar(funcs[v[1]]) /\ funcs[v[1]].actvar[v[2] + 1].name = funcs[d].upvalues[i].name

\* Whichever way a block is left, the variables that closures have taken are
\* closed, and none that is still there is (lparser.c:300, 983, 1025).
TakenAreClosed ==
  /\ \A v \in closing.taken : closing.from # NoClose /\ closing.from <= v
  /\ closing.from # NoClose => closing.from >= closing.kept

\* A block either has variables to close or can be broken (lparser.c:302).
NeverBoth == \A d \in DOMAIN funcs : \A i \in DOMAIN funcs[d].bl : ~(funcs[d].bl[i].breakable /\ funcs[d].bl[i].upval)
ScopeRight == NamesFound /\ TakenAreClosed /\ NeverBoth
=============================================================================
