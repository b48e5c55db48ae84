------------------------------- MODULE LuaCode -------------------------------
(***************************************************************************)
(* The code generator of Lua (lcode.c, with lparser.c for the statements   *)
(* and expressions): `and', `or', `not' and the comparisons become jumps,  *)
(* which wait in lists linked through the jumps themselves until it is     *)
(* known where they lead, and a test copies the value it tests only if     *)
(* someone wants it.  What is wanted is known after the instruction is     *)
(* written, so instructions are changed and taken back later.  Variables   *)
(* are registers, given out and taken back as the blocks begin and end.    *)
(*                                                                         *)
(* A function is compiled and its code run on the instructions of lvm.c.   *)
(* A statement is a record of its parts, an expression a sequence of       *)
(* tokens.  A jump holds where it leads, not how far that is.  A value is  *)
(* a number: nil, false, true, a table, the numerals, and closures; a      *)
(* constant's index is its value.  A function within the function uses one *)
(* of its variables and does nothing else.  Calls, concatenation and       *)
(* constructors are left out.                                              *)
(***************************************************************************)
EXTENDS Integers, Sequences, FiniteSets, SequencesExt

CONSTANT
  Source     \* sets of functions: statements, arguments, what is read, whether nil
             \* and false are told apart; without `-true' and its like (CheckerAccepts)

VARIABLES
  chunk,     \* the function that is compiled
  compiled,  \* whether it is
  lua_code   \* its instructions, registers and local variables

lua_code_vars == <<chunk, compiled, lua_code>>

NilValue == 0
False == 1
True == 2
isfalse(v) == v <= False
TableValue == 3
Numeral(n) == 100 + n
Number(v) == v - 100
isnumber(v) == v \in 50 .. 199
Closed(n) == 200 + n
isclosure(v) == v >= 200
Literal == [nil |-> NilValue, false |-> False, true |-> True,
            one |-> Numeral(1), two |-> Numeral(2), three |-> Numeral(3), minus |-> Numeral(-1)]
\* The parameters.  What is no variable is a global: g, and r, from which a
\* metamethod reads.
Params == <<"x", "y", "t">>

NO_JUMP == -1
NO_REG == 255
BITRK == 256
Order == [op \in {"==", "~=", "<", ">", "<=", ">="} |->
            CASE op \in {"==", "~="} -> "EQ" [] op \in {"<", ">"} -> "LT" [] OTHER -> "LE"]
Arithmetic == ("+" :> "ADD") @@ ("-" :> "SUB") @@ ("*" :> "MUL")
ISK(o) == o >= BITRK

I(op, A, B, C) == [op |-> op, A |-> A, B |-> B, C |-> C, to |-> NO_JUMP]
TMode == {"EQ", "LT", "LE", "TEST", "TESTSET", "TFORLOOP"}
exp(k, info) == [k |-> k, info |-> info, aux |-> 0, t |-> NO_JUMP, f |-> NO_JUMP]
hasjumps(e) == e.t # e.f
isnumeral(e) == e.k = "VKNUM" /\ e.t = NO_JUMP /\ e.f = NO_JUMP
Yes(b) == IF b THEN 1 ELSE 0

\* What a step makes of the function and of a value: a list or an expression.
Emitted(fs, v) == [fs |-> fs, v |-> v]
Then(r, Step(_, _)) == Step(r.fs, r.v)
\* What lua_assert() says.  An assertion that fails ends the compilation.
Sound(fs, b) == [fs EXCEPT !.sound = @ /\ b]

-----------------------------------------------------------------------------
(* The lists of jumps.  fs is the function being compiled.                 *)

pc(fs) == Len(fs.code)
Instr(fs, p) == fs.code[p + 1]
getjump(fs, p) == Instr(fs, p).to
fixjump(fs, p, dest) == [fs EXCEPT !.code[p + 1].to = dest]

RECURSIVE List(_, _)
List(fs, l) == IF l = NO_JUMP THEN <<>> ELSE <<l>> \o List(fs, getjump(fs, l))

\* The list l1 with l2 at its end.
concat(fs, l1, l2) ==
  IF l2 = NO_JUMP THEN Emitted(fs, l1)
  ELSE IF l1 = NO_JUMP THEN Emitted(fs, l2)
  ELSE Emitted(fixjump(fs, Last(List(fs, l1)), l2), l1)

getlabel(fs) == [fs EXCEPT !.lasttarget = pc(fs)]
patchtohere(fs, l) == Then(concat(fs, fs.jpc, l), LAMBDA g, j : [getlabel(g) EXCEPT !.jpc = j])

getjumpcontrol(fs, p) == IF p >= 1 /\ Instr(fs, p - 1).op \in TMode THEN p - 1 ELSE p

copies(fs, p) == Instr(fs, getjumpcontrol(fs, p)).op = "TESTSET"
need_value(fs, l) == \E p \in ToSet(List(fs, l)) : ~copies(fs, p)

\* A test that need not copy becomes one that does not.
Retested(i, reg) == IF i.op # "TESTSET" THEN i
                    ELSE IF reg # NO_REG /\ reg # i.B THEN [i EXCEPT !.A = reg]
                    ELSE I("TEST", i.B, 0, i.C)
patchtestreg(fs, p, reg) == [fs EXCEPT !.code[getjumpcontrol(fs, p) + 1] = Retested(@, reg)]

removevalues(fs, l) == FoldLeft(LAMBDA g, p : patchtestreg(g, p, NO_REG), fs, List(fs, l))

patchlistaux(fs, l, vtarget, reg, dtarget) ==
  FoldLeft(LAMBDA g, p : fixjump(patchtestreg(g, p, reg), p, IF copies(g, p) THEN vtarget ELSE dtarget),
           fs, List(fs, l))

dischargejpc(fs) == [patchlistaux(fs, fs.jpc, pc(fs), NO_REG, pc(fs)) EXCEPT !.jpc = NO_JUMP]
patchlist(fs, l, target) == IF target = pc(fs) THEN patchtohere(fs, l)
                            ELSE patchlistaux(fs, l, target, NO_REG, target)

luaK_code(fs, i) == [dischargejpc(fs) EXCEPT !.code = Append(@, i)]
\* A jump, which takes along those that lead to it.
luaK_jump(fs) == LET link(g) == concat(g, pc(g) - 1, fs.jpc)
                 IN link(luaK_code([fs EXCEPT !.jpc = NO_JUMP], I("JMP", 0, 0, 0)))
condjump(fs, i) == luaK_jump(luaK_code(fs, i))

-----------------------------------------------------------------------------
(* Expressions, which say where their values are to be had.                *)

luaK_checkstack(fs, n) == [fs EXCEPT !.maxstack = IF fs.freereg + n > @ THEN fs.freereg + n ELSE @]
reserveregs(fs, n) == [luaK_checkstack(fs, n) EXCEPT !.freereg = @ + n]
freereg(fs, reg) == IF ISK(reg) \/ reg < fs.nactvar THEN fs
                    ELSE Sound([fs EXCEPT !.freereg = @ - 1], reg = fs.freereg - 1)
freeexp(fs, e) == IF e.k = "VNONRELOC" THEN freereg(fs, e.info) ELSE fs

GetVar(fs, e) == IF e.k = "VGLOBAL" THEN luaK_code(fs, I("GETGLOBAL", 0, e.info, 0))
                 ELSE luaK_code(freereg(freereg(fs, e.aux), e.info), I("GETTABLE", 0, e.info, e.aux))
dischargevars(fs, e) ==
  CASE e.k = "VLOCAL" -> Emitted(fs, [e EXCEPT !.k = "VNONRELOC"])
    [] e.k \in {"VGLOBAL", "VINDEXED"} -> Emitted(GetVar(fs, e), [e EXCEPT !.k = "VRELOCABLE", !.info = pc(fs)])
    [] OTHER -> Emitted(fs, e)

\* nil of the n registers from reg on: nothing at the start of a function, and
\* after another one no instruction of its own.
luaK_nil(fs, reg, n) ==
  LET straight == pc(fs) > fs.lasttarget
      last == fs.code[pc(fs)]
  IN IF straight /\ pc(fs) = 0 /\ reg >= fs.nactvar THEN fs
     ELSE IF straight /\ pc(fs) > 0 /\ last.op = "LOADNIL" /\ last.A <= reg /\ reg <= last.B + 1
     THEN [fs EXCEPT !.code[pc(fs)].B = IF reg + n - 1 > @ THEN reg + n - 1 ELSE @]
     ELSE luaK_code(fs, I("LOADNIL", reg, reg + n - 1, 0))

Load(e, reg) == CASE e.k \in {"VFALSE", "VTRUE"} -> I("LOADBOOL", reg, Yes(e.k = "VTRUE"), 0)
                  [] e.k \in {"VK", "VKNUM"} -> I("LOADK", reg, e.info, 0)
                  [] e.k = "VNONRELOC" -> I("MOVE", reg, e.info, 0)
InReg(fs, e, reg) == CASE e.k = "VNIL" -> luaK_nil(fs, reg, 1)
                       [] e.k = "VRELOCABLE" -> [fs EXCEPT !.code[e.info + 1].A = reg]
                       [] e.k = "VNONRELOC" /\ e.info = reg -> fs
                       [] OTHER -> luaK_code(fs, Load(e, reg))
discharge2reg(fs, e, reg) ==
  Then(dischargevars(fs, e),
       LAMBDA g, d : IF d.k = "VJMP" THEN Emitted(g, d)
                     ELSE Emitted(InReg(g, d, reg), [d EXCEPT !.k = "VNONRELOC", !.info = reg]))

discharge2anyreg(fs, e) == IF e.k = "VNONRELOC" THEN Emitted(fs, e)
                           ELSE discharge2reg(reserveregs(fs, 1), e, fs.freereg)

code_label(fs, reg, b, jump) == luaK_code(getlabel(fs), I("LOADBOOL", reg, b, jump))
\* The jumps without a value are led to a false and a true: where these are.
Loads(fs, around, reg) ==
  Emitted(patchtohere(code_label(code_label(fs, reg, 0, 1), reg, 1, 0), around), pc(fs))
BothLoads(fs, e, reg) ==
  IF ~(need_value(fs, e.t) \/ need_value(fs, e.f)) THEN Emitted(fs, NO_JUMP)
  ELSE IF e.k = "VJMP" THEN Loads(fs, NO_JUMP, reg)
  ELSE Then(luaK_jump(fs), LAMBDA g, around : Loads(g, around, reg))

\* The value in reg, whichever way it came.
PatchBoth(fs, e, reg, p_f) ==
  LET p_t == IF p_f = NO_JUMP THEN p_f ELSE p_f + 1
  IN patchlistaux(patchlistaux(fs, e.f, pc(fs), reg, p_f), e.t, pc(fs), reg, p_t)
Joined(fs, e, reg) ==
  IF ~hasjumps(e) THEN fs
  ELSE Then(BothLoads(fs, e, reg), LAMBDA g, p_f : PatchBoth(getlabel(g), e, reg, p_f))
OwnJump(fs, e) == IF e.k # "VJMP" THEN Emitted(fs, e)
                  ELSE Then(concat(fs, e.t, e.info), LAMBDA g, l : Emitted(g, [e EXCEPT !.t = l]))
exp2reg(fs, e, reg) ==
  Then(Then(discharge2reg(fs, e, reg), OwnJump),
       LAMBDA g, d : Emitted(Joined(g, d, reg), exp("VNONRELOC", reg)))

exp2nextreg(fs, e) ==
  Then(dischargevars(fs, e),
       LAMBDA g, d : exp2reg(reserveregs(freeexp(g, d), 1), d, freeexp(g, d).freereg))

exp2anyreg(fs, e) ==
  Then(dischargevars(fs, e),
       LAMBDA g, d : IF d.k = "VNONRELOC" /\ ~hasjumps(d) THEN Emitted(g, d)
                     ELSE IF d.k = "VNONRELOC" /\ d.info >= g.nactvar THEN exp2reg(g, d, d.info)
                     ELSE exp2nextreg(g, d))

exp2val(fs, e) == IF hasjumps(e) THEN exp2anyreg(fs, e) ELSE dischargevars(fs, e)

Constant(e) == CASE e.k = "VNIL" -> NilValue
                 [] e.k = "VFALSE" -> False
                 [] e.k = "VTRUE" -> True
                 [] OTHER -> e.info
\* A register, or a constant.
exp2RK(fs, e) ==
  Then(exp2val(fs, e),
       LAMBDA g, d : IF d.k \in {"VKNUM", "VTRUE", "VFALSE", "VNIL", "VK"}
                     THEN Emitted(g, [d EXCEPT !.k = "VK", !.info = Constant(d)])
                     ELSE exp2anyreg(g, d))
RK(e) == IF e.k = "VK" THEN BITRK + e.info ELSE e.info
luaK_indexed(fs, e, key) ==
  Then(exp2RK(fs, key), LAMBDA g, k : Emitted(g, [e EXCEPT !.k = "VINDEXED", !.aux = RK(k)]))

\* A variable gets a value.
luaK_storevar(fs, var, e) ==
  LET global(g, d) == freeexp(luaK_code(g, I("SETGLOBAL", d.info, var.info, 0)), d)
      indexed(g, d) == freeexp(luaK_code(g, I("SETTABLE", var.info, var.aux, RK(d))), d)
  IN CASE var.k = "VLOCAL" -> exp2reg(freeexp(fs, e), e, var.info).fs
       [] var.k = "VGLOBAL" -> Then(exp2anyreg(fs, e), global)
       [] var.k = "VINDEXED" -> Then(exp2RK(fs, e), indexed)

invertjump(fs, e) == [fs EXCEPT !.code[getjumpcontrol(fs, e.info) + 1].A = 1 - @]

jumponcond(fs, e, cond) ==
  IF e.k = "VRELOCABLE" /\ Instr(fs, e.info).op = "NOT"
  THEN condjump([fs EXCEPT !.code = Front(@)], I("TEST", Instr(fs, e.info).B, 0, 1 - cond))
  ELSE Then(discharge2anyreg(fs, e),
            LAMBDA g, d : condjump(freeexp(g, d), I("TESTSET", NO_REG, d.info, cond)))

\* The jump that is taken if the value is false, or true; then the one way goes
\* on here, the other is the list.
JumpIfFalse(fs, e) == CASE e.k \in {"VK", "VKNUM", "VTRUE"} -> Emitted(fs, NO_JUMP)
                        [] e.k = "VFALSE" -> luaK_jump(fs)
                        [] e.k = "VJMP" -> Emitted(invertjump(fs, e), e.info)
                        [] OTHER -> jumponcond(fs, e, 0)
JumpIfTrue(fs, e) == CASE e.k \in {"VNIL", "VFALSE"} -> Emitted(fs, NO_JUMP)
                       [] e.k = "VTRUE" -> luaK_jump(fs)
                       [] e.k = "VJMP" -> Emitted(fs, e.info)
                       [] OTHER -> jumponcond(fs, e, 1)

TrueGoesOn(e, r) == Then(Then(r, LAMBDA g, j : concat(g, e.f, j)),
                         LAMBDA g, l : Emitted(patchtohere(g, e.t), [e EXCEPT !.f = l, !.t = NO_JUMP]))
luaK_goiftrue(fs, e0) == Then(dischargevars(fs, e0), LAMBDA g, e : TrueGoesOn(e, JumpIfFalse(g, e)))
FalseGoesOn(e, r) == Then(Then(r, LAMBDA g, j : concat(g, e.t, j)),
                          LAMBDA g, l : Emitted(patchtohere(g, e.f), [e EXCEPT !.t = l, !.f = NO_JUMP]))
luaK_goiffalse(fs, e0) == Then(dischargevars(fs, e0), LAMBDA g, e : FalseGoesOn(e, JumpIfTrue(g, e)))

Negated(fs, e) ==
  LET coded(g, d) == Emitted(g, [d EXCEPT !.k = "VRELOCABLE", !.info = pc(g) - 1])
  IN CASE e.k \in {"VNIL", "VFALSE"} -> Emitted(fs, [e EXCEPT !.k = "VTRUE"])
       [] e.k \in {"VK", "VKNUM", "VTRUE"} -> Emitted(fs, [e EXCEPT !.k = "VFALSE"])
       [] e.k = "VJMP" -> Emitted(invertjump(fs, e), e)
       [] OTHER -> Then(discharge2anyreg(fs, e),
                        LAMBDA g, d : coded(luaK_code(freeexp(g, d), I("NOT", 0, d.info, 0)), d))
codenot(fs, e) ==
  Then(Then(dischargevars(fs, e), Negated),
       LAMBDA g, d : Emitted(removevalues(removevalues(g, d.t), d.f), [d EXCEPT !.t = d.f, !.f = d.t]))

\* Numbers are computed at once.  What is on top of the other is given back first.
Arith(op, a, b) == CASE op = "ADD" -> a + b
                     [] op = "SUB" -> a - b
                     [] op = "MUL" -> a * b
                     [] op = "UNM" -> -a
constfolding(op, e1, e2) == [e1 EXCEPT !.info = Numeral(Arith(op, Number(e1.info), Number(e2.info)))]
Calculate(op, e1, e2, fs) ==
  LET g == IF RK(e1) > RK(e2) THEN freeexp(freeexp(fs, e1), e2) ELSE freeexp(freeexp(fs, e2), e1)
      i == I(op, 0, RK(e1), IF op = "UNM" THEN 0 ELSE RK(e2))
  IN Emitted(luaK_code(g, i), [e1 EXCEPT !.k = "VRELOCABLE", !.info = pc(g)])
SecondOperand(fs, op, e2) == IF op = "UNM" THEN Emitted(fs, exp("VNIL", 0)) ELSE exp2RK(fs, e2)
codearith(fs, op, e1, e2) ==
  IF isnumeral(e1) /\ isnumeral(e2) THEN Emitted(fs, constfolding(op, e1, e2))
  ELSE Then(SecondOperand(fs, op, e2),
            LAMBDA g, o2 : Then(exp2RK(g, e1), LAMBDA h, o1 : Calculate(op, o1, o2, h)))
luaK_prefix(fs, op, e) == IF op = "not" THEN codenot(fs, e)
                          ELSE codearith(fs, "UNM", e, exp("VKNUM", Numeral(0)))

\* > and >= are < and <= the other way round.
Comparison(op, cond, o1, o2) == IF cond = 0 /\ op # "EQ" THEN I(op, 1, o2, o1) ELSE I(op, cond, o1, o2)
Compared(r, e) == Emitted(r.fs, [e EXCEPT !.k = "VJMP", !.info = r.v])
Compare(op, cond, e1, r) ==
  Compared(condjump(freeexp(freeexp(r.fs, r.v), e1), Comparison(op, cond, RK(e1), RK(r.v))), e1)
BothOperands(op, cond, r, e2) == Compare(op, cond, r.v, exp2RK(r.fs, e2))
codecomp(fs, op, cond, e1, e2) == BothOperands(op, cond, exp2RK(fs, e1), e2)

luaK_infix(fs, op, e) == CASE op = "and" -> luaK_goiftrue(fs, e)
                           [] op = "or" -> luaK_goiffalse(fs, e)
                           [] op \in DOMAIN Arithmetic /\ isnumeral(e) -> Emitted(fs, e)
                           [] OTHER -> exp2RK(fs, e)

luaK_posfix(fs, op, e1, e2) ==
  LET and(e, r) == Then(r, LAMBDA g, l : Emitted(g, [e EXCEPT !.f = l]))
      or(e, r) == Then(r, LAMBDA g, l : Emitted(g, [e EXCEPT !.t = l]))
  IN CASE op = "and" -> Then(dischargevars(fs, e2), LAMBDA g, e : and(e, concat(g, e.f, e1.f)))
       [] op = "or" -> Then(dischargevars(fs, e2), LAMBDA g, e : or(e, concat(g, e.t, e1.t)))
       [] op \in DOMAIN Arithmetic -> codearith(fs, Arithmetic[op], e1, e2)
       [] OTHER -> codecomp(fs, Order[op], Yes(op \in {"==", "<", "<="}), e1, e2)

-----------------------------------------------------------------------------
(* Local variables and blocks.                                             *)

new_func == [code |-> <<>>, jpc |-> NO_JUMP, lasttarget |-> -1, freereg |-> 0, maxstack |-> 2,
             nactvar |-> 0, actvar |-> <<>>, locvars |-> <<>>, bl |-> <<>>, sound |-> TRUE]

\* The variable is there only when it is made active; then it has the next
\* register.
new_local(fs, name, n) ==
  [fs EXCEPT !.locvars = Append(@, [varname |-> name, startpc |-> 0, endpc |-> 0]),
             !.actvar = Append(SubSeq(@, 1, fs.nactvar + n), Len(fs.locvars) + 1)]
new_locals(fs, names) ==
  FoldLeft(LAMBDA g, n : new_local(g, names[n], n - 1), fs, [n \in DOMAIN names |-> n])
\* The variables from the n-th to the m-th.
getlocvars(fs, n, m) == {fs.actvar[i] : i \in n + 1 .. m}
adjust_locals(fs, n) ==
  LET started == getlocvars(fs, fs.nactvar, fs.nactvar + n)
  IN [fs EXCEPT !.nactvar = @ + n,
                !.locvars = [i \in DOMAIN @ |-> IF i \in started THEN [@[i] EXCEPT !.startpc = pc(fs)] ELSE @[i]]]
remove_vars(fs, level) ==
  LET ended == getlocvars(fs, level, fs.nactvar)
  IN [fs EXCEPT !.nactvar = level,
                !.locvars = [i \in DOMAIN @ |-> IF i \in ended THEN [@[i] EXCEPT !.endpc = pc(fs)] ELSE @[i]]]

LatestOf(S) == CHOOSE i \in S : \A j \in S : j <= i
single_var(fs, w) ==
  LET found == {i \in 0 .. fs.nactvar - 1 : fs.locvars[fs.actvar[i + 1]].varname = w}
  IN IF found = {} THEN exp("VGLOBAL", w) ELSE exp("VLOCAL", LatestOf(found))

enter_block(fs, isbreakable) ==
  LET bl == [breaklist |-> NO_JUMP, isbreakable |-> isbreakable, nactvar |-> fs.nactvar, upval |-> FALSE]
  IN Sound([fs EXCEPT !.bl = Append(@, bl)], fs.freereg = fs.nactvar)
leave_block(fs) ==
  LET bl == Last(fs.bl)
      g == remove_vars([fs EXCEPT !.bl = Front(@)], bl.nactvar)
      h == IF bl.upval THEN luaK_code(g, I("CLOSE", bl.nactvar, 0, 0)) ELSE g
  IN patchtohere(Sound([h EXCEPT !.freereg = bl.nactvar], ~(bl.isbreakable /\ bl.upval)), bl.breaklist)

\* A variable that a function within takes must be closed by its block.
mark_upval(fs, reg) ==
  LET own == {i \in DOMAIN fs.bl : fs.bl[i].nactvar <= reg}
  IN IF own = {} THEN fs ELSE [fs EXCEPT !.bl[LatestOf(own)].upval = TRUE]
\* The instruction after CLOSURE says what the upvalue is.
push_closure(fs, var) ==
  LET closure(g, nups) == luaK_code(g, I("CLOSURE", 0, nups, 0))
      taking(g) == luaK_code(closure(mark_upval(g, var.info), 1), I("MOVE", 0, var.info, 0))
  IN Emitted(IF var.k = "VGLOBAL" THEN closure(fs, 0) ELSE taking(fs), exp("VRELOCABLE", pc(fs)))

-----------------------------------------------------------------------------
(* The parser of expressions: [fs, v, ts], ts the tokens that are left.    *)

priority == [op \in {"==", "~=", "<", ">", "<=", ">=", "and", "or", "+", "-", "*"} |->
               CASE op = "or" -> 1
                 [] op = "and" -> 2
                 [] op \in {"+", "-"} -> 6
                 [] op = "*" -> 7
                 [] OTHER -> 3]
UNARY_PRIORITY == 8

Subexp(r, ts) == [fs |-> r.fs, v |-> r.v, ts |-> ts]

\* The parser calls itself for the parts of an expression and of a statement.
RECURSIVE Parsed(_, _, _)
prefixexp(fs, ts) ==
  LET closed(r) == Subexp(dischargevars(r.fs, r.v), Tail(r.ts))
  IN IF Head(ts) = "(" THEN closed(Parsed("subexpr", fs, <<Tail(ts), 0>>))
     ELSE Subexp(Emitted(fs, single_var(fs, Head(ts))), Tail(ts))
\* e[k]
yindex(e, r) == Subexp(Then(exp2val(r.fs, r.v), LAMBDA g, k : luaK_indexed(g, e, k)), Tail(r.ts))
RECURSIVE Indexed(_)
Indexed(r) ==
  IF r.ts = <<>> \/ Head(r.ts) # "[" THEN r
  ELSE Indexed(Then(exp2anyreg(r.fs, r.v), LAMBDA g, e : yindex(e, Parsed("subexpr", g, <<Tail(r.ts), 0>>))))
primaryexp(fs, ts) == Indexed(prefixexp(fs, ts))

simpleexp(fs, ts) ==
  LET w == Head(ts)
  IN CASE w = "nil" -> Subexp(Emitted(fs, exp("VNIL", 0)), Tail(ts))
       [] w = "true" -> Subexp(Emitted(fs, exp("VTRUE", 0)), Tail(ts))
       [] w = "false" -> Subexp(Emitted(fs, exp("VFALSE", 0)), Tail(ts))
       [] w \in DOMAIN Literal -> Subexp(Emitted(fs, exp("VKNUM", Literal[w])), Tail(ts))
       [] w = "function" -> Subexp(push_closure(fs, single_var(fs, ts[2])), Tail(Tail(ts)))
       [] OTHER -> Parsed("primaryexp", fs, <<ts>>)

Prefixed(op, r) == Subexp(luaK_prefix(r.fs, op, r.v), r.ts)
Unary(fs, ts) ==
  IF Head(ts) \notin {"not", "neg"} THEN simpleexp(fs, ts)
  ELSE Prefixed(Head(ts), Parsed("subexpr", fs, <<Tail(ts), UNARY_PRIORITY>>))

Posfixed(op, e1, r) == Subexp(luaK_posfix(r.fs, op, e1, r.v), r.ts)
Infixed(op, l, ts) == Posfixed(op, l.v, Parsed("subexpr", l.fs, <<ts, priority[op]>>))
\* r and the operators after it that bind tighter than limit.
RECURSIVE Binary(_, _)
Binary(r, limit) == IF r.ts = <<>> \/ Head(r.ts) \notin DOMAIN priority THEN r
                    ELSE IF priority[Head(r.ts)] <= limit THEN r
                    ELSE Binary(Infixed(Head(r.ts), luaK_infix(r.fs, Head(r.ts), r.v), Tail(r.ts)), limit)
subexpr(fs, ts, limit) == IF fs.sound THEN Binary(Unary(fs, ts), limit)
                          ELSE Subexp(Emitted(fs, exp("VNIL", 0)), ts)

-----------------------------------------------------------------------------
(* Statements.                                                             *)

expr(fs, e) == Parsed("subexpr", fs, <<e, 0>>)
\* The last one is left open.
explist1(fs, es) == FoldLeft(LAMBDA r, e : expr(Then(r, exp2nextreg).fs, e), expr(fs, Head(es)), Tail(es))
explist(fs, es) == IF es = <<>> THEN Emitted(fs, exp("VVOID", 0)) ELSE explist1(fs, es)

\* As many values as variables.
AddNils(fs, extra) == IF extra > 0 THEN luaK_nil(reserveregs(fs, extra), fs.freereg, extra) ELSE fs
adjust_assign(fs, nvars, nexps, e) ==
  AddNils(IF e.k = "VVOID" THEN fs ELSE exp2nextreg(fs, e).fs, nvars - nexps)

localstat(fs, s) ==
  adjust_locals(Then(explist(new_locals(fs, s.names), s.es),
                     LAMBDA g, e : adjust_assign(g, Len(s.names), Len(s.es), e)), Len(s.names))

StartsHere(fs) == [fs EXCEPT !.locvars[fs.actvar[fs.nactvar]].startpc = pc(fs)]
\* The function sees itself; an error message sees it only afterwards.
local_func(fs, s) ==
  LET g == adjust_locals(reserveregs(new_local(fs, s.name, 0), 1), 1)
  IN StartsHere(Then(push_closure(g, single_var(g, s.takes)),
                     LAMBDA h, b : luaK_storevar(h, exp("VLOCAL", fs.freereg), b)))

\* A local variable that gets a value while a table or key before it is the same
\* register: these use a copy.
check_conflict(fs, lhs, v) ==
  LET conflict == {i \in DOMAIN lhs : lhs[i].k = "VINDEXED" /\ v.info \in {lhs[i].info, lhs[i].aux}}
      copied(r) == IF r = v.info THEN fs.freereg ELSE r
      safe == [i \in DOMAIN lhs |-> IF i \notin conflict THEN lhs[i]
                                    ELSE [lhs[i] EXCEPT !.info = copied(@), !.aux = copied(@)]]
  IN IF v.k # "VLOCAL" \/ conflict = {} THEN Emitted(fs, lhs)
     ELSE Emitted(reserveregs(luaK_code(fs, I("MOVE", fs.freereg, v.info, 0)), 1), safe)

Targets(fs, vars) ==
  LET add(r, v) == Then(check_conflict(r.fs, r.v, v), LAMBDA h, lhs : Emitted(h, Append(lhs, v)))
      next(r, ts) == LET p == Parsed("primaryexp", r.fs, <<ts>>) IN add(Emitted(p.fs, r.v), p.v)
  IN FoldLeft(next, Emitted(fs, <<>>), vars)
\* The values are on the registers in their order; the last is stored first.
StoreAll(fs, lhs) ==
  FoldRight(LAMBDA v, g : luaK_storevar(g, v, exp("VNONRELOC", g.freereg - 1)), lhs, fs)
\* As many values as variables: the last need not have a register.
FirstStored(fs, lhs, e, nexps) ==
  LET surplus == IF nexps > Len(lhs) THEN nexps - Len(lhs) ELSE 0
  IN IF nexps = Len(lhs) THEN luaK_storevar(fs, Last(lhs), e)
     ELSE [adjust_assign(fs, Len(lhs), nexps, e) EXCEPT !.freereg = @ - surplus]
assignment(fs, s) ==
  LET left(lhs) == IF Len(s.es) = Len(lhs) THEN Front(lhs) ELSE lhs
  IN Then(Targets(fs, s.vars),
          LAMBDA g, lhs : Then(explist1(g, s.es),
                               LAMBDA h, e : StoreAll(FirstStored(h, lhs, e, Len(s.es)), left(lhs))))

cond(fs, e) ==
  LET test(g, v) == luaK_goiftrue(g, IF v.k = "VNIL" THEN [v EXCEPT !.k = "VFALSE"] ELSE v)
  IN Then(Then(expr(fs, e), test), LAMBDA g, v : Emitted(g, v.f))

break_stat(fs) ==
  LET l == LatestOf({i \in DOMAIN fs.bl : fs.bl[i].isbreakable})
      upval == \E i \in l + 1 .. Len(fs.bl) : fs.bl[i].upval
      g == IF upval THEN luaK_code(fs, I("CLOSE", fs.bl[l].nactvar, 0, 0)) ELSE fs
      listed(h, j) == Then(concat(h, h.bl[l].breaklist, j),
                           LAMBDA k, list : [k EXCEPT !.bl[l].breaklist = list])
  IN Then(luaK_jump(g), listed)

luaK_ret(fs, first, nret) == luaK_code(fs, I("RETURN", first, nret + 1, 0))
retstat(fs, s) ==
  LET nret == Len(s.es)
      one(g, e) == luaK_ret(g, e.info, 1)
      several(g, e) == luaK_ret(Sound(g, nret = g.freereg - g.nactvar), g.nactvar, nret)
  IN IF nret = 0 THEN luaK_ret(fs, 0, 0)
     ELSE IF nret = 1 THEN Then(Then(explist1(fs, s.es), exp2anyreg), one)
     ELSE Then(Then(explist1(fs, s.es), exp2nextreg), several)

code_block(fs, b) ==
  LET g == Parsed("chunk", enter_block(fs, FALSE), <<b>>)
  IN leave_block(Sound(g, Last(g.bl).breaklist = NO_JUMP))

JumpBack(fs, to) == Then(luaK_jump(fs), LAMBDA g, j : patchlist(g, j, to))
whilestat(fs, s) ==
  LET loop(g) == leave_block(JumpBack(code_block(enter_block(g, TRUE), s.b), pc(fs)))
  IN Then(cond(getlabel(fs), s.e), LAMBDA g, condexit : patchtohere(loop(g), condexit))

\* The condition is read inside the block.  If this has variables to close it is
\* left by a break when the condition holds, and closed before the next round.
repeatstat(fs, s) ==
  LET closing(g, condexit) == JumpBack(leave_block(patchtohere(break_stat(g), condexit)), pc(fs))
      end(g, condexit) == IF Last(g.bl).upval THEN closing(g, condexit)
                          ELSE patchlist(leave_block(g), condexit, pc(fs))
      entered == enter_block(enter_block(getlabel(fs), TRUE), FALSE)
  IN leave_block(Then(cond(Parsed("chunk", entered, <<s.b>>), s.e), end))

\* The control variables are active, the block has those that are declared.
forbody(fs, base, nvars, isnum, b) ==
  LET declared(g) == reserveregs(adjust_locals(enter_block(g, FALSE), nvars), nvars)
      body(g) == leave_block(code_block(declared(g), b))
      prepared(g) == IF isnum THEN Emitted(luaK_code(g, I("FORPREP", base, 0, 0)), pc(g))
                     ELSE luaK_jump(g)
      endfor(g) == IF isnum THEN Emitted(luaK_code(g, I("FORLOOP", base, 0, 0)), pc(g))
                   ELSE luaK_jump(luaK_code(g, I("TFORLOOP", base, 0, nvars)))
      loop(g, prep) == Then(endfor(patchtohere(body(g), prep)), LAMBDA h, e : patchlist(h, e, prep + 1))
  IN Then(prepared(adjust_locals(fs, 3)), loop)

ForControl == <<"(for index)", "(for limit)", "(for step)">>
ForListControl == <<"(for generator)", "(for state)", "(for control)">>
exp1(fs, e) == Then(expr(fs, e), exp2nextreg).fs
Stepped(fs, given) == IF given = 3 THEN fs
                      ELSE reserveregs(luaK_code(fs, I("LOADK", fs.freereg, Numeral(1), 0)), 1)
fornum(fs, s) ==
  forbody(Stepped(FoldLeft(exp1, new_locals(fs, Append(ForControl, s.name)), s.es), Len(s.es)),
          fs.freereg, 1, TRUE, s.b)
forlist(fs, s) ==
  forbody(luaK_checkstack(Then(explist1(new_locals(fs, ForListControl \o s.names), s.es),
                               LAMBDA g, e : adjust_assign(g, 3, Len(s.es), e)), 3),
          fs.freereg, Len(s.names), FALSE, s.b)
forstat(fs, s) ==
  LET g == enter_block(fs, TRUE) IN leave_block(IF s.k = "for" THEN fornum(g, s) ELSE forlist(g, s))

\* escapelist are the jumps over what is left, flist those of the last condition.
test_then_block(fs, arm) == Then(cond(fs, arm.e), LAMBDA g, flist : Emitted(code_block(g, arm.b), flist))
EscapeFrom(fs, escapelist, flist) ==
  Then(Then(luaK_jump(fs), LAMBDA g, j : concat(g, escapelist, j)),
       LAMBDA g, l : [fs |-> patchtohere(g, flist), v |-> l])
RECURSIVE IfArms(_, _, _, _)
IfArms(fs, arms, orelse, escapelist) ==
  LET next(g, l) == IfArms(g, Tail(arms), orelse, l)
      last(g, l) == patchtohere(code_block(g, orelse[1]), l)
      after(g, flist) ==
        IF ~g.sound THEN g
        ELSE IF Len(arms) > 1 THEN Then(EscapeFrom(g, escapelist, flist), next)
        ELSE IF orelse # <<>> THEN Then(EscapeFrom(g, escapelist, flist), last)
        ELSE Then(concat(g, escapelist, flist), patchtohere)
  IN Then(test_then_block(fs, Head(arms)), after)
ifstat(fs, s) == IfArms(fs, s.arms, s.orelse, NO_JUMP)

statement(fs, s) == CASE s.k = "local" -> localstat(fs, s)
                      [] s.k = "localfunc" -> local_func(fs, s)
                      [] s.k = "assign" -> assignment(fs, s)
                      [] s.k = "if" -> ifstat(fs, s)
                      [] s.k = "while" -> whilestat(fs, s)
                      [] s.k = "repeat" -> repeatstat(fs, s)
                      [] s.k \in {"for", "forin"} -> forstat(fs, s)
                      [] s.k = "do" -> code_block(fs, s.b)
                      [] s.k = "break" -> break_stat(fs)
                      [] s.k = "return" -> retstat(fs, s)
\* After each statement the registers are free but for the variables.
code_chunk(fs, b) ==
  LET after(g) == [Sound(g, g.maxstack >= g.freereg /\ g.freereg >= g.nactvar) EXCEPT !.freereg = g.nactvar]
  IN IF b = <<>> \/ ~fs.sound THEN fs
     ELSE Parsed("chunk", after(statement(fs, Head(b))), <<Tail(b)>>)
Parsed(part, fs, x) == CASE part = "chunk" -> code_chunk(fs, x[1])
                         [] part = "primaryexp" -> primaryexp(fs, x[1])
                         [] part = "subexpr" -> subexpr(fs, x[1], x[2])

parlist(fs) == LET g == adjust_locals(new_locals(fs, Params), Len(Params)) IN reserveregs(g, g.nactvar)
close_func(fs) == luaK_ret(remove_vars(fs, 0), 0, 0)

Compile ==
  /\ ~compiled /\ compiled' = TRUE /\ UNCHANGED chunk
  /\ \E fs \in {close_func(Parsed("chunk", parlist(new_func), <<chunk.b>>))} :
       lua_code' = [code |-> fs.code, maxstack |-> fs.maxstack, locvars |-> fs.locvars,
                    sound |-> fs.sound /\ fs.bl = <<>>]

LuaCodeInit == (\E functions \in Source : chunk \in functions) /\ compiled = FALSE /\ lua_code = <<>>
LuaCodeNext == Compile
LuaCodeSpec == LuaCodeInit /\ [][LuaCodeNext]_lua_code_vars

-----------------------------------------------------------------------------
(* The checker of code, which also finds out, for an error message, where  *)
(* a value came from (ldebug.c).                                           *)

MAXSTACK == 250
\* luaP_opmodes: the instructions that change register A, or count as if they
\* did; what B and C are: not used, a register, a register or a constant.
AMode == {"MOVE", "LOADK", "LOADBOOL", "LOADNIL", "GETGLOBAL", "GETTABLE", "ADD", "SUB", "MUL", "UNM", "NOT",
          "TEST", "TESTSET", "FORLOOP", "FORPREP", "CLOSURE"}
BMode(op) == CASE op \in {"MOVE", "LOADNIL", "GETTABLE", "UNM", "NOT", "TEST", "TESTSET"} -> "R"
               [] op \in {"SETTABLE", "ADD", "SUB", "MUL", "EQ", "LT", "LE"} -> "K"
               [] op \in {"TFORLOOP", "CLOSE"} -> "N"
               [] OTHER -> "U"
CMode(op) == CASE op \in {"GETTABLE", "SETTABLE", "ADD", "SUB", "MUL", "EQ", "LT", "LE"} -> "K"
               [] op \in {"MOVE", "LOADNIL", "UNM", "NOT", "RETURN", "CLOSE"} -> "N"
               [] OTHER -> "U"

checkArgMode(max, r, mode) == CASE mode = "N" -> r = 0
                                [] mode = "R" -> r < max
                                [] mode = "K" -> ISK(r) \/ r < max
                                [] OTHER -> TRUE

precheck(code, max) == max <= MAXSTACK /\ Last(code).op = "RETURN"
luaG_checkcode(code, max) ==
  /\ precheck(code, max)
  /\ \A n \in DOMAIN code :
       LET i == code[n]
       IN /\ i.A < max /\ checkArgMode(max, i.B, BMode(i.op)) /\ checkArgMode(max, i.C, CMode(i.op))
          /\ i.op \in {"JMP", "FORLOOP", "FORPREP"} => i.to \in 0 .. Len(code) - 1
          /\ i.op \in TMode => n + 1 < Len(code) /\ code[n + 1].op = "JMP"
          /\ i.op = "LOADBOOL" /\ i.C # 0 => n + 1 < Len(code)
          /\ i.op = "TFORLOOP" => i.C >= 1 /\ i.A + 2 + i.C < max
          /\ i.op \in {"FORLOOP", "FORPREP"} => i.A + 3 < max
          /\ i.op = "RETURN" /\ i.B > 1 => i.A + i.B - 2 < max
          /\ i.op = "CLOSURE" => n + i.B < Len(code) /\ \A j \in 1 .. i.B : code[n + j].op = "MOVE"

\* The last instruction before lastpc that changed the register, every jump
\* forward taken that does not pass lastpc.
RECURSIVE symbexec(_, _, _, _, _)
symbexec(code, lastpc, reg, p, last) ==
  LET i == code[p + 1]
      changes == \/ i.op \in AMode /\ i.A = reg
                 \/ i.op = "LOADNIL" /\ reg \in i.A .. i.B
                 \/ i.op = "TFORLOOP" /\ reg >= i.A + 2
      next == CASE i.op \in {"JMP", "FORLOOP", "FORPREP"} /\ p < i.to /\ i.to <= lastpc -> i.to
                [] i.op = "CLOSURE" -> p + 1 + i.B
                [] OTHER -> p + 1
  IN IF p >= lastpc THEN last ELSE symbexec(code, lastpc, reg, next, IF changes THEN p ELSE last)

\* The names of the variables that are active at p, in the order of their
\* registers (lfunc.c).
luaF_getlocalnames(locvars, p) ==
  LET later == {i \in DOMAIN locvars : locvars[i].startpc > p}
      before == IF later = {} THEN Len(locvars) ELSE (CHOOSE i \in later : \A j \in later : i <= j) - 1
      active == SelectSeq(SubSeq(locvars, 1, before), LAMBDA v : p < v.endpc)
  IN [i \in DOMAIN active |-> active[i].varname]

\* The register of a local variable, the global, or no name.
GlobalName == -1
NoObjName == -2
RECURSIVE getobjname(_, _, _)
getobjname(f, p, reg) ==
  LET i == f.code[symbexec(f.code, p, reg, 0, Len(f.code) - 1) + 1]
  IN IF reg < Len(luaF_getlocalnames(f.locvars, p)) THEN reg
     ELSE IF i.op = "GETGLOBAL" /\ i.B = "g" THEN GlobalName
     ELSE IF i.op = "MOVE" /\ i.B < i.A THEN getobjname(f, p, i.B)
     ELSE NoObjName

-----------------------------------------------------------------------------
(* The instructions (lvm.c) on a machine: p the next one, regs, the global *)
(* g, the table, what is still to be read, the upvalues, each with its     *)
(* register while it is open, and out, how it ended.                       *)

Registers == 0 .. 15
Keys == {False, True, TableValue} \cup 98 .. 104
Machine(regs, given) ==
  [p |-> 0, regs |-> regs, g |-> NilValue, table |-> [k \in Keys |-> NilValue], given |-> given,
   upvals |-> <<>>, out |-> "go", vals |-> <<>>]

End(m, out) == [m EXCEPT !.out = out]
Goto(m, q) == [m EXCEPT !.p = q]
SetReg(m, r, v) == [m EXCEPT !.regs[r] = v]
ReadGlobal(m, r) == IF m.given = <<>> THEN End(m, "stop")
                    ELSE SetReg([m EXCEPT !.given = Tail(@)], r, Head(m.given))
close_upvals(m, level) ==
  LET closed(u) == IF u.reg < level THEN u ELSE [reg |-> NO_JUMP, v |-> m.regs[u.reg]]
  IN [m EXCEPT !.upvals = [n \in DOMAIN @ |-> closed(@[n])]]
\* The function in r has the open upvalue of the register, or a new one.
findupval(m, r, level) ==
  LET open == {n \in DOMAIN m.upvals : m.upvals[n].reg = level}
      new == [m EXCEPT !.upvals = Append(@, [reg |-> level, v |-> NilValue])]
  IN IF open # {} THEN SetReg(m, r, Closed(CHOOSE n \in open : TRUE))
     ELSE SetReg(new, r, Closed(Len(new.upvals)))
\* i is the instruction after it.
NewClosure(m, r, nup, i) == IF nup = 0 THEN SetReg(m, r, Closed(0)) ELSE findupval(m, r, i.B)

FORPREP(m, i) ==
  IF \E r \in i.A .. i.A + 2 : ~isnumber(m.regs[r]) THEN End(m, "error")
  ELSE Goto(SetReg(m, i.A, Numeral(Number(m.regs[i.A]) - Number(m.regs[i.A + 2]))), i.to)
FORLOOP(m, i) ==
  LET step == Number(m.regs[i.A + 2])
      idx == Number(m.regs[i.A]) + step
      limit == Number(m.regs[i.A + 1])
  IN IF IF 0 < step THEN idx <= limit ELSE limit <= idx
     THEN Goto(SetReg(SetReg(m, i.A, Numeral(idx)), i.A + 3, Numeral(idx)), i.to)
     ELSE Goto(m, m.p + 1)
\* The generator gives what it reads, and its state.
TFORLOOP(f, m, i) ==
  LET cb == i.A + 3
      laid == [m EXCEPT !.regs = [r \in Registers |-> IF r \in cb .. cb + 2 THEN @[r - 3] ELSE @[r]]]
      read == ReadGlobal(laid, cb)
      extra == cb + 2 .. cb + i.C - 1
      results == [read EXCEPT !.regs = [r \in Registers |-> IF r \in extra THEN NilValue ELSE @[r]]]
  IN IF i.A + 6 > f.maxstack THEN End(m, "overflow")
     ELSE IF read.out # "go" THEN read
     ELSE IF results.regs[cb] = NilValue THEN Goto(results, m.p + 2)
     ELSE Goto(SetReg(results, cb - 1, results.regs[cb]), f.code[m.p + 2].to)

value(m, o) == IF ISK(o) THEN o - BITRK ELSE m.regs[o]
bool(p) == IF p THEN True ELSE False
Access(m, i) ==
  LET clear == [r \in Registers |-> IF r \in i.A .. i.B THEN NilValue ELSE m.regs[r]]
  IN CASE i.op = "MOVE" -> SetReg(m, i.A, m.regs[i.B])
       [] i.op = "LOADK" -> SetReg(m, i.A, i.B)
       [] i.op = "LOADBOOL" -> Goto(SetReg(m, i.A, bool(i.B = 1)), m.p + i.C)
       [] i.op = "LOADNIL" -> [m EXCEPT !.regs = clear]
       [] i.op = "GETGLOBAL" -> IF i.B = "g" THEN SetReg(m, i.A, m.g) ELSE ReadGlobal(m, i.A)
       [] i.op = "GETTABLE" -> IF m.regs[i.B] # TableValue THEN End(m, "error")
                               ELSE SetReg(m, i.A, m.table[value(m, i.C)])
       [] i.op = "SETGLOBAL" -> [m EXCEPT !.g = m.regs[i.A]]
       [] i.op = "SETTABLE" -> IF m.regs[i.A] # TableValue \/ value(m, i.B) = NilValue THEN End(m, "error")
                               ELSE [m EXCEPT !.table[value(m, i.B)] = value(m, i.C)]
Calculated(m, i) ==
  LET b == value(m, i.B)
      c == IF i.op = "UNM" THEN b ELSE value(m, i.C)
  IN IF ~(isnumber(b) /\ isnumber(c)) THEN End(m, "error")
     ELSE SetReg(m, i.A, Numeral(Arith(i.op, Number(b), Number(c))))
\* A jump is taken, or the one after a test if it comes out as it should.
Tested(f, m, i) ==
  LET b == value(m, i.B)
      c == value(m, i.C)
      on(r, taken) == IF taken THEN Goto(r, f.code[m.p + 2].to) ELSE Goto(r, m.p + 2)
      ordered(p) == IF isnumber(b) /\ isnumber(c) THEN on(m, Yes(p) = i.A) ELSE End(m, "error")
      differs(v) == Yes(isfalse(v)) # i.C
  IN CASE i.op = "EQ" -> on(m, Yes(b = c) = i.A)
       [] i.op = "LT" -> ordered(b < c)
       [] i.op = "LE" -> ordered(b <= c)
       [] i.op = "TEST" -> on(m, differs(m.regs[i.A]))
       [] i.op = "TESTSET" -> IF differs(b) THEN on(SetReg(m, i.A, b), TRUE) ELSE on(m, FALSE)
Return(m, i) ==
  LET vals == [n \in 1 .. i.B - 1 |-> m.regs[i.A + n - 1]]
  IN [close_upvals(m, 0) EXCEPT !.out = "return", !.vals = vals]

\* The instruction and, unless it says otherwise or there was an error, the next one.
Execute(f, m) ==
  LET i == f.code[m.p + 1]
      then(n) == IF n.out = "go" THEN Goto(n, n.p + 1) ELSE n
  IN CASE i.op \in TMode \ {"TFORLOOP"} -> Tested(f, m, i)
       [] i.op = "JMP" -> Goto(m, i.to)
       [] i.op = "RETURN" -> Return(m, i)
       [] i.op = "FORPREP" -> FORPREP(m, i)
       [] i.op = "FORLOOP" -> FORLOOP(m, i)
       [] i.op = "TFORLOOP" -> TFORLOOP(f, m, i)
       [] i.op = "NOT" -> then(SetReg(m, i.A, bool(isfalse(m.regs[i.B]))))
       [] i.op = "CLOSE" -> then(close_upvals(m, i.A))
       [] i.op = "CLOSURE" -> Goto(NewClosure(m, i.A, i.B, f.code[m.p + 2]), m.p + 1 + i.B)
       [] i.op \in {"ADD", "SUB", "MUL", "UNM"} -> then(Calculated(m, i))
       [] OTHER -> then(Access(m, i))

\* The registers whose values an instruction works on, but for an assignment: the
\* variables it reads may have new values when it stores.
Operands(i) == {o \in CASE i.op \in {"UNM", "NOT", "TESTSET", "GETTABLE"} -> {i.B}
                        [] i.op \in {"ADD", "SUB", "MUL", "EQ", "LT", "LE"} -> {i.B, i.C}
                        [] i.op = "TEST" -> {i.A}
                        [] OTHER -> {} : ~ISK(o)}
\* What getobjname() would call each operand of each instruction, and whether that
\* is its value.
Names(f) == [p \in 0 .. Len(f.code) - 1 |-> [o \in Operands(f.code[p + 1]) |-> getobjname(f, p, o)]]
IsNamed(names, m) ==
  \A o \in DOMAIN names :
     names[o] # NoObjName => m.regs[o] = IF names[o] = GlobalName THEN m.g ELSE m.regs[names[o]]

\* Up to 2^n instructions.  A function that executes more than 2^MAXSTEPS of them has
\* not ended, and does not agree with the source.
MAXSTEPS == 7
RECURSIVE Steps(_, _, _, _)
Steps(f, names, m, n) == IF m.out # "go" THEN m
                         ELSE IF n > 0 THEN Steps(f, names, Steps(f, names, m, n - 1), n - 1)
                         ELSE IF ~IsNamed(names[m.p], m) THEN End(m, "misnamed")
                         ELSE Execute(f, m)
luaV_execute(f, names, m) == Steps(f, names, m, MAXSTEPS)

-----------------------------------------------------------------------------
(* What the source means.  env are the variables, the latest last, each    *)
(* with its cell; of cells the values.                                     *)

RECURSIVE Depth(_, _)
Depth(ts, n) == CASE n = 0 -> 0
                  [] n > 0 /\ ts[n] \in {"(", "["} -> Depth(ts, n - 1) + 1
                  [] n > 0 /\ ts[n] \in {")", "]"} -> Depth(ts, n - 1) - 1
                  [] OTHER -> Depth(ts, n - 1)

CellOf(st, w) == LET found == {i \in DOMAIN st.env : st.env[i].name = w}
                 IN IF found = {} THEN 0 ELSE st.env[LatestOf(found)].cell
ValueOfName(st, w) == IF CellOf(st, w) = 0 THEN st.g ELSE st.cells[CellOf(st, w)]

Wrong == -1
\* Of two values, the one wrong if the other is.
Binop(op, a, b) ==
  LET ordered(p) == IF isnumber(a) /\ isnumber(b) THEN bool(p) ELSE Wrong
  IN CASE op = "and" -> IF isfalse(a) THEN a ELSE b
       [] op = "or" -> IF isfalse(a) THEN b ELSE a
       [] b = Wrong -> Wrong
       [] op = "==" -> bool(a = b)
       [] op = "~=" -> bool(a # b)
       [] op = "<" -> ordered(a < b)
       [] op = ">" -> ordered(a > b)
       [] op = "<=" -> ordered(a <= b)
       [] op = ">=" -> ordered(a >= b)
       [] isnumber(a) /\ isnumber(b) -> Numeral(Arith(Arithmetic[op], Number(a), Number(b)))
       [] OTHER -> Wrong
\* The operator that is applied last is the last of the weakest.
RECURSIVE Meaning(_, _)
Meaning(ts, st) ==
  LET ops == {n \in DOMAIN ts : ts[n] \in DOMAIN priority /\ Depth(ts, n) = 0}
      weak == {n \in ops : \A m \in ops : priority[ts[n]] <= priority[ts[m]]}
      last == LatestOf(weak)
      a == Meaning(SubSeq(ts, 1, last - 1), st)
      operand == Meaning(Tail(ts), st)
      b == Meaning(SubSeq(ts, last + 1, Len(ts)), st)
  IN IF ops # {} THEN IF a = Wrong THEN Wrong ELSE Binop(ts[last], a, b)
     ELSE CASE ts[1] = "not" -> IF operand = Wrong THEN Wrong ELSE bool(isfalse(operand))
            [] ts[1] = "neg" -> IF isnumber(operand) THEN Numeral(-Number(operand)) ELSE Wrong
            [] ts[1] = "(" -> Meaning(SubSeq(ts, 2, Len(ts) - 1), st)
            [] ts[1] \in DOMAIN Literal -> Literal[ts[1]]
            [] ts[1] = "function" -> Closed(CellOf(st, ts[2]))
            [] Len(ts) > 1 -> st.table[Meaning(SubSeq(ts, 3, Len(ts) - 1), st)]
            [] OTHER -> ValueOfName(st, ts[1])

\* [st, v]: an expression that only reads, or any other.
ValueGiven(st) == IF st.given = <<>> THEN [st |-> [st EXCEPT !.out = "stop"], v |-> NilValue]
                  ELSE [st |-> [st EXCEPT !.given = Tail(@)], v |-> Head(st.given)]
Failed(st) == [st EXCEPT !.out = "error"]
Eval(st, e) ==
  LET v == Meaning(e, st)
  IN IF e = <<"r">> THEN ValueGiven(st) ELSE [st |-> IF v = Wrong THEN Failed(st) ELSE st, v |-> v]
\* [st, v]: the values, as far as they are come to.
EvalAll(st, es) ==
  LET with(vals, a) == [st |-> a.st, v |-> Append(vals, a.v)]
      next(r, e) == IF r.st.out # "go" THEN r ELSE with(r.v, Eval(r.st, e))
  IN FoldLeft(next, [st |-> st, v |-> <<>>], es)
\* What is done with the values, if they could be had.
With(r, Do(_, _)) == IF r.st.out = "go" THEN Do(r.st, r.v) ELSE r.st

\* New variables, nil if there are too few values.
Bind(st, names, vals) ==
  [st EXCEPT !.env = @ \o [i \in DOMAIN names |-> [name |-> names[i], cell |-> Len(st.cells) + i]],
             !.cells = @ \o [i \in DOMAIN names |-> IF i \in DOMAIN vals THEN vals[i] ELSE NilValue]]
Store(st, target, key, v) ==
  CASE st.out # "go" -> st
    [] Len(target) > 1 /\ key = NilValue -> Failed(st)
    [] Len(target) > 1 /\ key # NilValue -> [st EXCEPT !.table[key] = v]
    [] Len(target) = 1 /\ CellOf(st, target[1]) = 0 -> [st EXCEPT !.g = v]
    [] OTHER -> [st EXCEPT !.cells[CellOf(st, target[1])] = v]
StoreValues(st, vars, keys, vals) ==
  FoldRight(LAMBDA n, r : Store(r, vars[n], keys[n], IF n \in DOMAIN vals THEN vals[n] ELSE NilValue),
            [n \in DOMAIN vars |-> n], st)

RECURSIVE ExecAll(_, _), While(_, _), Repeat(_, _), For(_, _, _, _), ForIn(_, _, _, _), If(_, _, _)
\* A block has its variables to itself.  A loop goes on after its body unless that
\* was left otherwise.
ExecBlock(st, b) ==
  LET r == ExecAll(st, b) IN IF r.out \in {"go", "break"} THEN [r EXCEPT !.env = st.env] ELSE r
Round(st, env, GoOn(_)) == CASE st.out = "go" -> GoOn(st)
                             [] st.out = "break" -> [st EXCEPT !.out = "go", !.env = env]
                             [] OTHER -> st
While(st, s) ==
  LET body(r, v) == IF isfalse(v) THEN r ELSE Round(ExecBlock(r, s.b), st.env, LAMBDA a : While(a, s))
  IN With(Eval(st, s.e), body)
Repeat(st, s) ==
  LET left(r) == [r EXCEPT !.env = st.env]
      until(r, v) == IF isfalse(v) THEN Repeat(left(r), s) ELSE left(r)
  IN Round(ExecAll(st, s.b), st.env, LAMBDA a : With(Eval(a, s.e), until))
\* env without the control variables: where the loop ends.
For(st, s, env, idx) ==
  LET control(n) == st.env[Len(env) + n].cell
      step == Number(st.cells[control(3)])
      limit == Number(st.cells[control(2)])
      counted == [st EXCEPT !.cells[control(1)] = Numeral(idx)]
      body == ExecBlock(Bind(counted, <<s.name>>, <<Numeral(idx)>>), s.b)
      again(a) == For([a EXCEPT !.env = st.env], s, env, idx + step)
  IN IF IF step > 0 THEN idx <= limit ELSE limit <= idx THEN Round(body, env, again)
     ELSE [st EXCEPT !.env = env]
ForIn(st, s, env, state) ==
  LET kept(r, v) == [r EXCEPT !.cells[st.env[Len(env) + 3].cell] = v]
      again(a) == ForIn([a EXCEPT !.env = st.env], s, env, state)
      body(r, v) == IF v = NilValue THEN [r EXCEPT !.env = env]
                    ELSE Round(ExecBlock(Bind(kept(r, v), s.names, <<v, state>>), s.b), env, again)
  IN With(ValueGiven(st), body)
If(st, arms, orelse) ==
  LET arm(r, v) == IF isfalse(v) THEN If(r, Tail(arms), orelse) ELSE ExecBlock(r, Head(arms).b)
  IN IF arms # <<>> THEN With(Eval(st, Head(arms).e), arm)
     ELSE IF orelse # <<>> THEN ExecBlock(st, orelse[1])
     ELSE st

LocalFunction(st, s) ==
  LET own == Bind(st, <<s.name>>, <<>>) IN [own EXCEPT !.cells[Len(own.cells)] = Closed(CellOf(own, s.takes))]
AssignAll(st, s) ==
  LET key(v) == IF Len(v) = 1 THEN NilValue ELSE Meaning(SubSeq(v, 3, Len(v) - 1), st)
      keys == [n \in DOMAIN s.vars |-> key(s.vars[n])]
  IN With(EvalAll(st, s.es), LAMBDA r, vals : StoreValues(r, s.vars, keys, vals))
NumericFor(st, s) ==
  LET begun(r, v) == IF \E n \in 1 .. 3 : ~isnumber(v[n]) THEN Failed(Bind(r, ForControl, v))
                     ELSE For(Bind(r, ForControl, v), s, st.env, Number(v[1]))
  IN With(EvalAll(st, s.es), LAMBDA r, v : begun(r, IF Len(v) = 3 THEN v ELSE Append(v, Numeral(1))))
GenericFor(st, s) ==
  With(EvalAll(st, s.es),
       LAMBDA r, v : ForIn(Bind(r, ForListControl, v), s, st.env, IF Len(v) > 1 THEN v[2] ELSE NilValue))

Exec(st, s) ==
  IF st.out # "go" THEN st
  ELSE CASE s.k = "local" -> With(EvalAll(st, s.es), LAMBDA r, v : Bind(r, s.names, v))
         [] s.k = "localfunc" -> LocalFunction(st, s)
         [] s.k = "assign" -> AssignAll(st, s)
         [] s.k = "if" -> If(st, s.arms, s.orelse)
         [] s.k = "while" -> While(st, s)
         [] s.k = "repeat" -> Repeat(st, s)
         [] s.k = "for" -> NumericFor(st, s)
         [] s.k = "forin" -> GenericFor(st, s)
         [] s.k = "do" -> ExecBlock(st, s.b)
         [] s.k = "break" -> [st EXCEPT !.out = "break"]
         [] s.k = "return" ->
              With(EvalAll(st, s.es), LAMBDA r, v : [r EXCEPT !.out = "return", !.vals = v])
ExecAll(st, b) == FoldLeft(Exec, st, b)

\* What a value shows: of a closure what its variable holds, and of nil and false
\* in a loose comparison only that they are false.
View(loose, v, Content(_)) ==
  LET held == Content(v - Closed(0))
  IN IF ~isclosure(v) THEN <<"value", IF loose /\ isfalse(v) THEN False ELSE v>>
     ELSE <<"closure", IF v = Closed(0) THEN NilValue ELSE IF isclosure(held) THEN NilValue ELSE held>>
OfMachine(m, n) == IF m.upvals[n].reg = NO_JUMP THEN m.upvals[n].v ELSE m.regs[m.upvals[n].reg]

\* The code of a function in Source does what the source means, whatever its
\* arguments and what it reads, but for what lcode.c:548 gets wrong: `((x and x) or
\* false) and true' gives nil where false is meant, since the jump of the constant
\* false takes along jumps that carry a value.  Where such a condition is (exact is
\* FALSE) nil and false are not told apart.  The rest is exact:
\* it ends in the same way and returns the same, the global and the table are
\* the same, every active variable has its value in its register and has its
\* name, and every closure has its own variable, of its block and its round.
\* The registers are clean when the function starts, and not when a loop comes
\* round (lcode.c:37).  What an error message would call the global or a local
\* variable is its value (ldebug.c:481).
Agree(m, st) ==
  LET env == IF st.out = "go" THEN <<>> ELSE st.env
      loose == ~chunk.exact
      run(v) == View(loose, v, LAMBDA n : OfMachine(m, n))
      meant(v) == View(loose, v, LAMBDA n : st.cells[n])
  IN /\ m.out = IF st.out = "go" THEN "return" ELSE st.out
     /\ [n \in DOMAIN m.vals |-> run(m.vals[n])] = [n \in DOMAIN st.vals |-> meant(st.vals[n])]
     /\ run(m.g) = meant(st.g) /\ m.given = st.given
     /\ \A k \in Keys : run(m.table[k]) = meant(st.table[k])
     /\ luaF_getlocalnames(lua_code.locvars, m.p) = [n \in DOMAIN env |-> env[n].name]
     /\ \A n \in DOMAIN env : run(m.regs[n - 1]) = meant(st.cells[env[n].cell])

CodeMeansSource ==
  compiled =>
    LET names == Names(lua_code)
        empty == [k \in Keys |-> NilValue]
    IN \A x \in chunk.x, y \in chunk.y, given \in chunk.given :
         LET args == <<x, y, TableValue>>
             regs == [n \in Registers |-> IF n + 1 \in DOMAIN args THEN args[n + 1] ELSE NilValue]
             start == Bind([env |-> <<>>, cells |-> <<>>, g |-> NilValue, table |-> empty, given |-> given,
                            out |-> "go", vals |-> <<>>], Params, args)
         IN Agree(luaV_execute(lua_code, names, Machine(regs, given)), ExecAll(start, chunk.b))

\* The checker lets through what the generator makes of a function in Source, where
\* no `-' stands before nil, false or true: that makes an UNM of a constant, which
\* the checker refuses (lcode.c:702 keeps strings from it, and not these).  And the
\* generator's assertions hold: no
\* jump list is forgotten, no test has lost its jump, no register is used that
\* was not reserved, they are given back in order, and no block both controls
\* variables and breaks (ldebug.c:317, lcode.c:218, lparser.c:303).
CheckerAccepts == compiled => luaG_checkcode(lua_code.code, lua_code.maxstack) /\ lua_code.sound
CodeRight == CodeMeansSource /\ CheckerAccepts
=============================================================================
