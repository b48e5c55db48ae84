------------------------------- MODULE LuaBash ------------------------------
(***************************************************************************)
(* misc/luabash/bash/luabash.c: the shell builtin that runs Lua functions, *)
(* and the library by which these run shell functions, set variables and   *)
(* register themselves as shell functions.  All of it shares one Lua       *)
(* stack, also when the two languages call each other in turn.             *)
(***************************************************************************)
EXTENDS Integers, Sequences

CONSTANTS LuaFunction,   \* Lua functions of the chunk that is loaded
          BashVar,
          Word,          \* words of a command: "a b" is a word with a blank
          Result,        \* what Lua functions give: "nil", "true", "false", "number" or "string"
          MaxDepth,      \* bound: calls within calls
          MaxStack       \* bound: values on the Lua stack

VARIABLES initialized,
          defined,       \* Lua functions that the chunk has defined
          bash_function, \* shell functions that were registered
          bash_var,      \* values of the shell variables
          lua_stack,
          frames,        \* the calls in progress, the innermost last
          reported       \* the last call: what the function gave, what was seen, its status

lua_bash_vars == <<initialized, defined, bash_function, bash_var, lua_stack, frames, reported>>

Unset == "unset"
EXECUTION_SUCCESS == 0
EXECUTION_FAILURE == 1

\* The shell, at its prompt or in a function of its own; a Lua function at the
\* place func of the stack, with its arguments above it; call_bashfunction() at
\* the place func, with its words above it.
Bash == [k |-> "bash"]
LuaFrame(f, func, args) == [k |-> "lua", f |-> f, func |-> func, args |-> args]
Call(func, words) == [k |-> "call", f |-> "bash.call", func |-> func, args |-> words]

Running(k) == frames[Len(frames)].k = k
Innermost == frames[Len(frames)]
lua_gettop == Len(lua_stack)
Under(frame) == SubSeq(lua_stack, 1, frame.func - 1)
Outer(n) == SubSeq(frames, 1, Len(frames) - n)

LuaBashInit ==
  /\ initialized = FALSE /\ defined = {} /\ bash_function = {}
  /\ bash_var = [v \in BashVar |-> Unset] /\ lua_stack = <<>> /\ frames = <<Bash>>
  /\ reported = [gave |-> "none", seen |-> "none", status |-> EXECUTION_SUCCESS]

ExitStatus(value) == CASE value \in {"true", "nil", "string"} -> EXECUTION_SUCCESS
                       [] value = "number" -> 7
                       [] OTHER -> EXECUTION_FAILURE

\* A command has ended over this stack and these frames.  If it was run by
\* call_bashfunction(), this one gives the status to the Lua function that
\* called it, and its part of the stack is free again.
CommandEnded(values, callers, rc) ==
  LET caller == callers[Len(callers)]
  IN IF caller.k = "call"
     THEN lua_stack' = SubSeq(values, 1, caller.func - 1) /\ frames' = SubSeq(callers, 1, Len(callers) - 1)
     ELSE lua_stack' = values /\ frames' = callers

DeliverBottom(below, callers, value) ==
  LET values == Append(below, value)
      seen == values[1]
  IN /\ reported' = [gave |-> value, seen |-> seen, status |-> ExitStatus(seen)]
     /\ CommandEnded(values, callers, ExitStatus(seen))

\* lua_pcall() leaves one value where the function was, its result or the
\* message; call_function() looks at the top of the stack and leaves it there.
Deliver(below, callers, value) ==
  LET values == Append(below, value)
      seen == values[Len(values)]
  IN /\ reported' = [gave |-> value, seen |-> seen, status |-> ExitStatus(seen)]
     /\ CommandEnded(values, callers, ExitStatus(seen))

-----------------------------------------------------------------------------
\* What the shell does.

init_luabash == /\ Running("bash") /\ ~initialized /\ initialized' = TRUE
                /\ UNCHANGED <<defined, bash_function, bash_var, lua_stack, frames, reported>>

\* luabash load: if the chunk cannot be read, the message stays on the stack.
load_chunk ==
  /\ Running("bash") /\ Len(frames) < MaxDepth /\ lua_gettop < MaxStack
  /\ initialized' = TRUE
  /\ \/ lua_stack' = Append(lua_stack, "error") /\ UNCHANGED frames
     \/ /\ lua_stack' = Append(lua_stack, "chunk")
        /\ frames' = Append(frames, LuaFrame("chunk", lua_gettop + 1, <<>>))
  /\ UNCHANGED <<defined, bash_function, bash_var, reported>>

\* luabash call.  To call what is not defined is an error.
call_function(f, argv) ==
  /\ lua_gettop + 1 + Len(argv) <= MaxStack
  /\ IF initialized /\ f \in defined
     THEN /\ lua_stack' = lua_stack \o <<f>> \o argv
          /\ frames' = Append(frames, LuaFrame(f, lua_gettop + 1, argv))
          /\ UNCHANGED reported
     ELSE IF initialized THEN Deliver(lua_stack, frames, "error")
     ELSE CommandEnded(lua_stack, frames, EXECUTION_FAILURE) /\ UNCHANGED reported

\* The "$@" of a registered function is not quoted: the shell splits it.
SplitWord(w) == IF w = "a b" THEN <<"a", "b">> ELSE IF w = "" THEN <<>> ELSE <<w>>
\* (Here a command has one argument at most.)
SplitAll(words) == IF words = <<>> THEN <<>> ELSE SplitWord(words[1])

\* A command is a function that Lua has registered, the builtin, a function of
\* the shell, or anything else.
execute_command(words) ==
  /\ \/ words[1] \in bash_function /\ call_function(words[1], SplitAll(Tail(words)))
     \/ words[1] = "luabash" /\ call_function(words[2], SubSeq(words, 3, Len(words)))
     \/ words[1] = "script" /\ frames' = Append(frames, Bash) /\ UNCHANGED <<lua_stack, reported>>
     \/ words[1] = "true" /\ CommandEnded(lua_stack, frames, EXECUTION_SUCCESS) /\ UNCHANGED reported
  /\ UNCHANGED <<initialized, defined, bash_function, bash_var>>

Arguments == {<<>>} \cup {<<w>> : w \in Word}
CallsOf(f) == {<<f>> \o a : a \in Arguments}
Commands == {<<"script">>, <<"true">>}
              \cup UNION {CallsOf(f) \cup {<<"luabash">> \o c : c \in CallsOf(f)} : f \in LuaFunction}

ShellCommand == Running("bash") /\ Len(frames) < MaxDepth /\ \E words \in Commands : execute_command(words)
\* A function of the shell returns.
ShellReturn == /\ Running("bash") /\ Len(frames) > 1
               /\ \E rc \in {EXECUTION_SUCCESS, EXECUTION_FAILURE} : CommandEnded(lua_stack, Outer(1), rc)
               /\ UNCHANGED <<initialized, defined, bash_function, bash_var, reported>>

-----------------------------------------------------------------------------
\* What a Lua function does.

Define(f) == /\ Running("lua") /\ Innermost.f = "chunk" /\ f \notin defined /\ defined' = defined \cup {f}
             /\ UNCHANGED <<initialized, bash_function, bash_var, lua_stack, frames, reported>>
register_function(f) == /\ Running("lua") /\ bash_function' = bash_function \cup {f}
                        /\ UNCHANGED <<initialized, defined, bash_var, lua_stack, frames, reported>>
set_variable(v, w) == /\ Running("lua") /\ bash_var' = [bash_var EXCEPT ![v] = w]
                      /\ UNCHANGED <<initialized, defined, bash_function, lua_stack, frames, reported>>

\* bash.call(): the words are put into a list, which the shell then runs.
call_bashfunction(words) ==
  /\ Running("lua") /\ Len(frames) < MaxDepth /\ lua_gettop + 1 + Len(words) <= MaxStack
  /\ lua_stack' = lua_stack \o <<"bash.call">> \o words
  /\ frames' = Append(frames, Call(lua_gettop + 1, words))
  /\ UNCHANGED <<initialized, defined, bash_function, bash_var, reported>>
RunList == Running("call") /\ Len(frames) < MaxDepth /\ execute_command(Innermost.args)

\* An error ends the innermost lua_pcall(), which is that of call_function() or
\* of load_chunk().
BashReturn(value) ==
  /\ Running("lua")
  /\ IF Innermost.f = "chunk"
     THEN /\ lua_stack' = IF value = "error" THEN Append(Under(Innermost), value) ELSE Under(Innermost)
          /\ frames' = Outer(1) /\ UNCHANGED reported
     ELSE Deliver(Under(Innermost), Outer(1), value)
  /\ UNCHANGED <<initialized, defined, bash_function, bash_var>>

LuaBashNext ==
  \/ init_luabash \/ load_chunk \/ ShellCommand \/ ShellReturn \/ RunList
  \/ \E f \in LuaFunction : Define(f) \/ register_function(f)
  \/ \E v \in BashVar, w \in Word : set_variable(v, w)
  \/ \E words \in Commands : call_bashfunction(words)
  \/ \E value \in Result \cup {"error"} : BashReturn(value)
LuaBashSpec == LuaBashInit /\ [][LuaBashNext]_lua_bash_vars

-----------------------------------------------------------------------------
\* However deeply the shell and Lua call each other, and whatever the calls leave
\* on the stack, the arguments of every call in progress stay where they are
\* (luabash.c:463).
ArgumentsStay ==
  \A i \in DOMAIN frames : frames[i].k # "bash" =>
    SubSeq(lua_stack, frames[i].func, frames[i].func + Len(frames[i].args)) = <<frames[i].f>> \o frames[i].args

\* The status is made of the result of this very call, not of a value that an
\* earlier one has left (luabash.c:466).
ResultIsOwn == reported.seen = reported.gave

\* A Lua function runs at a place above all that its callers use, and is called by
\* the shell: it never runs before luabash is initialized (luabash.c:442).
CallsNest ==
  /\ \A i \in 1 .. Len(frames) - 1 : \A j \in i + 1 .. Len(frames) :
       frames[i].k # "bash" /\ frames[j].k # "bash" => frames[i].func + Len(frames[i].args) < frames[j].func
  /\ \A i \in DOMAIN frames : frames[i].k # "bash" => initialized

BridgeRight == ArgumentsStay /\ ResultIsOwn /\ CallsNest
=============================================================================
