-------------------------------- MODULE LuaMC -------------------------------
(***************************************************************************)
(* The Lua that misc/luabash builds into the shell, part by part: the      *)
(* tables, the collector, the library, calls and coroutines, the builtin   *)
(* of the shell, and from text to bytecode and back.  A behaviour is one   *)
(* of one part, and part says which.                                       *)
(***************************************************************************)
EXTENDS LuaTable, LuaGC, LuaLib, LuaBash, LuaCode, LuaScope, LuaCall, LuaChunk, LuaText

VARIABLE part    \* what is looked at

-----------------------------------------------------------------------------
(* Values of the constants that a .cfg cannot write.                       *)

MCHash == [k \in {1, 2, 3, 101, 102} |->
             CASE k = 1 -> 0 [] k = 2 -> 2 [] k = 3 -> 5 [] k = 101 -> 3 [] k = 102 -> 5]

MCMixes == {{"w", "d"}, {"w", "x"}, {"f", "x"}, {"t"}}

\* All the orders of three elements are among them.
MCLess == {lt \in SUBSET (Elem \X Elem) : Cardinality(lt) <= 3 \/ lt = Elem \X Elem}

\* Patterns of lua_library: sets with repetitions, captures, %b and %f.
set(S, r) == [k |-> "set", set |-> S, rep |-> r]
one(k) == [k |-> k, set |-> {}, rep |-> "", b |-> "a", e |-> "b", n |-> 1]
Reps == {"", "?", "*", "+", "-"}
MCPattern ==
  UNION {{<<set({"a"}, r1), set({"a", "b"}, r2), set({"b"}, r3)>>,
          <<one("("), set({"a", "b"}, r1), one(")"), set({"a"}, r2), one("back")>>,
          <<one("("), set({"a"}, r1), one("("), set({"b"}, r2), one(")"),
            set({"a", "b"}, r3), one(")"), one("$")>>,
          <<set({"a"}, r1), one("()"), one("%b"), set({"b"}, r2)>>,
          <<[one("%f") EXCEPT !.set = {"a"}], set({"a"}, r1),
            [one("%f") EXCEPT !.set = {"b", "end"}]>>} : r1, r2, r3 \in Reps}

\* Expressions: two operators, with negations, on either side of parentheses.
Operand == {"x", "nil", "true"}
Not == {<<>>, <<"not">>}
Expressions ==
  UNION {
    {n \o <<a, o>> \o m \o <<b, p, c>>, n \o <<"(", a, o, b, ")", p, c>>,
     <<a, o>> \o n \o <<"(", b, p, c, ")">>, <<"not", a>>} :
       a, b, c \in Operand, n, m \in Not, o, p \in {"and", "or"}}
Comparisons ==
  UNION {
    {<<"(", a, o, b, ")", p, c>>, <<a, o, "not", "(", b, p, c, ")">>} :
       a \in {"g", "x"}, b \in {"x", "one"}, c \in {"g", "one"},
       o \in {"and", "or", "==", "<", ">="}, p \in {"and", "or", "~=", ">", "<="}}
Calculations ==
  UNION {
    {<<a, o, b, p, c>>, <<a, o, "(", b, p, c, ")">>, <<"neg", "(", a, p, b, ")", o, "neg", c>>,
     <<"(", a, "and", b, ")", o, c>>, <<a, o, "(", b, "or", c, ")">>} :
       a, c \in {"x", "two"}, b \in {"g", "two"}, o, p \in {"+", "-", "*"}}

\* Functions, of statements.
E(w) == <<w>>
local(names, es) == [k |-> "local", names |-> names, es |-> es]
assign(vars, es) == [k |-> "assign", vars |-> vars, es |-> es]
let(n, e) == assign(<<E(n)>>, <<e>>)
return(es) == [k |-> "return", es |-> es]
do(b) == [k |-> "do", b |-> b]
break == [k |-> "break"]
while(e, b) == [k |-> "while", e |-> e, b |-> b]
until(b, e) == [k |-> "repeat", e |-> e, b |-> b]
if(arms, orelse) == [k |-> "if", arms |-> arms, orelse |-> orelse]
arm(e, b) == [e |-> e, b |-> b]
for(n, es, b) == [k |-> "for", name |-> n, es |-> es, b |-> b]
forin(names, es, b) == [k |-> "forin", names |-> names, es |-> es, b |-> b]
localfunction(n, taken) == [k |-> "localfunc", name |-> n, takes |-> taken]

AnyValue == {NilValue, False, True, Numeral(1)}
Two == {NilValue, Numeral(1)}
Reads(n, S) == UNION {[1 .. k -> S] : k \in 0 .. n}
Fn(b, x, y, reads) == [b |-> b, x |-> x, y |-> y, given |-> reads, exact |-> TRUE]

\* An expression in each place it can stand in.
InPlaces(e, x, y) ==
  LET before == IF y = {NilValue} THEN <<>> ELSE <<let("g", E("y"))>>
  IN {Fn(before \o <<local(<<"z">>, <<e>>), return(<<E("x"), E("y"), E("z")>>)>>, x, y, {<<>>}),
      Fn(before \o <<let("x", e), return(<<E("x"), E("y")>>)>>, x, y, {<<>>}),
      Fn(before \o <<if(<<arm(e, <<let("x", E("true"))>>)>>, <<<<let("x", E("false"))>>>>)>>
             \o <<return(<<E("x")>>)>>, x, y, {<<>>}),
      Fn(before \o <<while(e, <<let("x", E("r"))>>), return(<<E("x")>>)>>, x, y, {<<True>>, <<NilValue>>}),
      Fn(before \o <<until(<<let("x", E("r"))>>, e), return(<<e>>)>>, {NilValue}, y, {<<v, NilValue>> : v \in x})}
ExpressionChunks == {InPlaces(e, AnyValue, {NilValue}) : e \in Expressions}
                    \cup {InPlaces(e, AnyValue, AnyValue) : e \in Comparisons}
                    \cup {InPlaces(e, Two, Two) : e \in Calculations}
\* Where a jump is put off past a constant false it keeps its own value.
PutOff == <<"(", "(", "x", "and", "x", ")", "or", "false", ")", "and", "true">>
InexactChunks == {[f EXCEPT !.exact = FALSE] : f \in InPlaces(PutOff, AnyValue, {NilValue})}

\* Loops: what a round takes into a closure, how it is left, what it declares last.
Take == {<<>>, <<let("g", <<"g", "or", "function", "z">>)>>,
         <<localfunction("f", "z"), let("g", <<"g", "or", "f">>)>>,
         <<do(<<local(<<"w">>, <<E("z")>>), let("g", <<"g", "or", "function", "w">>)>>)>>,
         <<let("x", <<"function", "z">>), let("z", E("one"))>>}
Out == {<<>>, <<if(<<arm(E("z"), <<break>>)>>, <<>>)>>,
        <<if(<<arm(E("z"), <<local(<<"w">>, <<E("x")>>), let("y", <<"function", "w">>), break>>)>>, <<>>)>>,
        <<if(<<arm(E("z"), <<return(<<E("z"), E("g")>>)>>)>>, <<>>)>>,
        <<if(<<arm(<<"z", "==", "x">>, <<break>>), arm(E("z"), <<local(<<"w">>, <<>>), let("x", E("w"))>>)>>,
             <<<<do(<<break>>)>>>>)>>}
Rest == {<<>>, <<local(<<"v">>, <<>>), let("y", E("v"))>>, <<local(<<"v", "u">>, <<E("z")>>), let("z", E("u"))>>}
Loops(b) == {while(E("r"), b), while(E("true"), b), until(b, E("r")), until(b, E("z")),
             for("i", <<E("one"), E("three")>>, b), for("z", <<E("two"), E("one"), E("minus")>>, b),
             forin(<<"i">>, <<E("x")>>, b), forin(<<"z", "i", "j">>, <<E("x"), E("y")>>, b)}
LoopChunks == {Fn(<<l, return(<<E("x"), E("y"), E("g")>>)>>, Two, {True}, Reads(3, Two)) :
                 l \in UNION {Loops(<<local(<<"z">>, <<E("r")>>)>> \o t \o o \o d) : t \in Take, o \in Out, d \in Rest}}

\* Assignments to several variables.
Var == {E("x"), E("y"), E("g"), E("t"), <<"t", "[", "x", "]">>, <<"t", "[", "y", "]">>}
Distinct(n) == {s \in [1 .. n -> Var] : \A i, j \in 1 .. n : i # j => s[i] # s[j]}
Values(n) == {E("x"), E("y"), <<"y", "or", "two">>} \cup IF n < 3 THEN {E("nil")} ELSE {}
AssignChunks == {Fn(<<assign(v, es), return(<<E("x"), E("y"), E("t"), E("g")>>)>>, {Numeral(1)}, {Numeral(2)}, {<<>>}) :
                   v \in UNION {Distinct(n) : n \in 1 .. 3}, es \in UNION {[1 .. n -> Values(n)] : n \in 1 .. 3}}
\* Variables without values, in a function that starts and after others.
Nils == {Fn(a \o <<local(SubSeq(<<"a", "b", "c">>, 1, n), es), local(<<"d">>, <<>>)>> \o b
              \o <<return(<<E("d"), E("a")>>)>>,
            Two, {True}, {<<>>}) :
          a, b \in {<<>>, <<local(<<"a", "b">>, <<>>)>>, <<if(<<arm(E("x"), <<local(<<"b">>, <<>>)>>)>>, <<>>)>>,
                    <<do(<<local(<<"b">>, <<E("x")>>)>>)>>},
          n \in 1 .. 3, es \in UNION {[1 .. m -> {E("x"), E("nil")}] : m \in 0 .. 3}}
\* And where a loop comes round to them.
NilRounds == {Fn(a \o <<l, return(<<E("x"), E("g")>>)>>, Two, {True}, Reads(3, Two)) :
                a \in {<<>>, <<local(<<"a">>, <<>>)>>, <<let("x", E("nil"))>>},
                l \in Loops(<<local(<<"z">>, <<>>), let("g", E("z")), let("z", E("r"))>>)}
MCSource == ExpressionChunks \cup {InexactChunks, LoopChunks, AssignChunks, Nils, NilRounds}

\* Functions: constants of every type, functions within functions, debug
\* information or none.
str(t, v) == [t |-> t, v |-> v]
fn(s, k, p, n) ==
  [source |-> s, sizes |-> <<1, 2>>, code |-> [i \in 1 .. n |-> 50 + i], k |-> k, p |-> p,
   lineinfo |-> [i \in 1 .. n |-> i],
   locvars |-> IF n > 1 THEN <<[varname |-> <<101>>, startpc |-> 0, endpc |-> n]>> ELSE <<>>,
   upvalues |-> IF n > 0 THEN <<<<102, 103>>>> ELSE <<>>]
S1 == <<64, 101>>
S2 == <<64, 102, 103>>
Ks == {<<>>, <<str(0, <<>>), str(4, <<101, 102>>)>>,
       <<str(1, <<1>>), str(3, <<7>>), str(4, <<>>)>>}
Leaf(s) == {fn(s, k, <<>>, n) : k \in Ks, n \in {0, 2}}
MCProgram == Leaf(S1) \cup {fn(S1, <<>>, <<g>>, 1) : g \in Leaf(S2)}
             \cup {fn(S1, k, <<fn(S1, k, <<>>, 1), fn(S2, <<>>, <<fn(S2, k, <<>>, 2)>>, 0)>>, 1) : k \in Ks}
MCPieces == {<<1>>, <<1000>>, <<3, 1, 2>>, <<2, 7>>}

\* Texts for the lexer.
UpTo(n, chars) == UNION {[1 .. k -> chars] : k \in 0 .. n}
MCQuoted == UpTo(3, {"a", "\"", "\\", "\n", "\r", "NUL", "0"})
MCBracketed == [level : 0 .. 1, s : UpTo(3, {"]", "=", "[", "\n", "\r", "a"})]
MCPlain == UpTo(4, {"=", "~", ".", "1", "e", "-", "a"})
           \cup {<<"-", "-">> \o s \o <<"a">> : s \in UpTo(4, {"[", "]", "\n", "\r", "-", "="})}
           \cup {<<"\"", "\\">> \o s \o <<"\"">> : s \in UpTo(4, {"1", "9", "\n", "\r", "n"})}

-----------------------------------------------------------------------------
(* A part that is not looked at; the collector, calls and the builtin rest   *)
(* at their start.                                                          *)

NoTable == tab = [array |-> <<>>, node |-> <<>>, lastfree |-> 1] /\ iter = Ended /\ visited = {}
NoLib == lib_call = [f |-> "none"] /\ returned = TRUE /\ lib_result = <<>>
NoCode == chunk = <<>> /\ compiled = TRUE /\ lua_code = <<>>
NoScope == funcs = <<>> /\ single = NoVar /\ closing = NoExit
NoChunk == function = <<>> /\ bytes = <<>> /\ whole = TRUE /\ loaded = Nothing
NoSource == given = <<>> /\ text = <<>> /\ ls = <<>> /\ ahead = None /\ tokens = <<>>

Init ==
  /\ part \in {"table", "gc", "library", "bash", "code", "scope", "call", "chunk", "text"}
  /\ IF part = "table" THEN LuaTableInit ELSE NoTable
  /\ LuaGCStart /\ IF part = "gc" THEN usable \in Mixes ELSE usable = {}
  /\ IF part = "library" THEN LuaLibInit ELSE NoLib
  /\ IF part = "code" THEN LuaCodeInit ELSE NoCode
  /\ LuaBashInit /\ LuaCallInit
  /\ IF part = "scope" THEN LuaScopeInit ELSE NoScope
  /\ IF part = "chunk" THEN LuaChunkInit ELSE NoChunk
  /\ IF part = "text" THEN LuaTextInit ELSE NoSource

data == <<lua_table_vars, lua_gc_vars, lua_lib_vars>>
calls == <<lua_bash_vars, lua_call_vars>>
compiler == <<lua_code_vars, lua_scope_vars, lua_chunk_vars, lua_text_vars>>
vars == <<part, data, calls, compiler>>

Next ==
  \/ /\ part = "table" /\ LuaTableNext
     /\ UNCHANGED <<part, lua_gc_vars, lua_lib_vars, calls, compiler>>
  \/ /\ part = "gc" /\ LuaGCNext
     /\ UNCHANGED <<part, lua_table_vars, lua_lib_vars, calls, compiler>>
  \/ /\ part = "library" /\ LuaLibNext
     /\ UNCHANGED <<part, lua_table_vars, lua_gc_vars, calls, compiler>>
  \/ /\ part = "bash" /\ LuaBashNext
     /\ UNCHANGED <<part, data, lua_call_vars, compiler>>
  \/ /\ part = "call" /\ LuaCallNext
     /\ UNCHANGED <<part, data, lua_bash_vars, compiler>>
  \/ /\ part = "code" /\ LuaCodeNext
     /\ UNCHANGED <<part, data, calls, lua_scope_vars, lua_chunk_vars, lua_text_vars>>
  \/ /\ part = "scope" /\ LuaScopeNext
     /\ UNCHANGED <<part, data, calls, lua_code_vars, lua_chunk_vars, lua_text_vars>>
  \/ /\ part = "chunk" /\ LuaChunkNext
     /\ UNCHANGED <<part, data, calls, lua_code_vars, lua_scope_vars, lua_text_vars>>
  \/ /\ part = "text" /\ LuaTextNext
     /\ UNCHANGED <<part, data, calls, lua_code_vars, lua_scope_vars, lua_chunk_vars>>

Spec == Init /\ [][Next]_vars
-----------------------------------------------------------------------------
(* What the parts promise, each if it is the one that is looked at; besides *)
(* there are IsMap, CollectorRight, CallsRight, BridgeRight, FinalizedOnce. *)

\* Tables find what was put into them and the library (sort, string matching)
\* does what its manual says, with any order and any pattern.
LuaDataRight ==
  /\ part = "table" => LuaTableRight
  /\ part = "library" => LibraryRight

\* The text that was written is read, names are bound to their variables, the
\* code of the functions in Source means what they mean (for InexactChunks only up
\* to nil and false, lcode.c:548; and `-true' is not among them, lcode.c:702), and a
\* dumped function loads again.
CompilerRight ==
  /\ part = "text" => TextRight
  /\ part = "scope" => ScopeRight
  /\ part = "code" => CodeRight
  /\ part = "chunk" => ChunkRight
=============================================================================
