------------------------------- MODULE LuaCall -------------------------------
(***************************************************************************)
(* Calls, errors and coroutines of Lua (ldo.c, the coroutine functions of  *)
(* lbaselib.c).  Every coroutine has its own stack of calls, but they all  *)
(* run on one C stack: a coroutine that resumes another waits in a C       *)
(* function.  An error is a longjmp() to the latest protected call, which  *)
(* puts back what the calls it cuts off have counted; a coroutine may      *)
(* yield only if no C function of it is waiting for a call.                *)
(*                                                                         *)
(* What is passed from one to the other is left out, and so is the growth  *)
(* of the stacks.  The program is called as luabash calls it, by a         *)
(* protected call of the main thread.                                      *)
(***************************************************************************)
EXTENDS Integers, Sequences, SequencesExt, FiniteSets

CONSTANTS
  Co, MainThread,  \* the coroutines and the main thread
  Handler,         \* the error functions of xpcall(), numbers from 1
  LUAI_MAXCCALLS,  \* the calls from C that may nest in a thread
  MaxFrames        \* the calls in progress in one

ASSUME LuaCallAssumption == /\ MainThread \notin Co /\ Handler \subseteq Nat \ {0}
                            /\ LUAI_MAXCCALLS \in Nat \ {0, 1}

VARIABLES
  created,   \* the coroutines there are
  co_status, \* "ok", "yield" or "error" of every thread
  fresh,     \* the coroutines that have not run: their function is on the stack
  ci,        \* the calls in progress of every thread
  nCcalls,   \* the calls from C it has counted
  errfunc,   \* its error function, or 0
  running,   \* the threads that run, each resumed by the one before
  thrown,    \* an error on its way: the function that has handled it
  catch      \* the last error caught: who handled it and who should

lua_call_vars == <<created, co_status, fresh, ci, nCcalls, errfunc, running, thrown, catch>>

Thread == Co \cup {MainThread}
NoError == -1
LuaFn == [k |-> "lua"]
\* A C function that calls one of Lua: a comparison of table.sort(), a metamethod.
C == [k |-> "C"]
Pcall(handler, L) == [k |-> "pcall", handler |-> handler, nCcalls |-> nCcalls[L], errfunc |-> errfunc[L]]
Resume(wrap) == [k |-> "resume", wrap |-> wrap]

L == Last(running)
frame == Last(ci[L])
PushFrames(th, added) == ci' = [ci EXCEPT ![th] = @ \o added]
CutFrames(th, n) == [ci EXCEPT ![th] = SubSeq(@, 1, n)]
Runs == thrown = NoError /\ frame = LuaFn
RoomFor(n) == Len(ci[L]) + n <= MaxFrames
coroutines == <<created, co_status, fresh, running>>

LuaCallInit ==
  /\ created = {} /\ fresh = {} /\ running = <<MainThread>> /\ thrown = NoError
  /\ co_status = [th \in Thread |-> "ok"] /\ nCcalls = [th \in Thread |-> IF th = MainThread THEN 1 ELSE 0]
  /\ errfunc = [th \in Thread |-> 0] /\ catch = [by |-> 0, at |-> 0]
  /\ ci = [th \in Thread |->
             IF th = MainThread THEN <<[k |-> "pcall", handler |-> 0, nCcalls |-> 0, errfunc |-> 0], LuaFn>> ELSE <<>>]

-----------------------------------------------------------------------------
(* Calls.                                                                  *)

\* luaG_errormsg(): the error function of the thread sees the error first.
Throw(th) == thrown' = errfunc[th]

\* OP_CALL of a Lua function, which takes nothing from the C stack.
luaD_precall == /\ Runs /\ RoomFor(1) /\ PushFrames(L, <<LuaFn>>)
                /\ UNCHANGED <<coroutines, nCcalls, errfunc, thrown, catch>>

\* luaD_call() by a C function; one too many is an error.
luaD_call(c) ==
  /\ Runs /\ nCcalls' = [nCcalls EXCEPT ![L] = @ + 1]
  /\ IF nCcalls[L] + 1 < LUAI_MAXCCALLS
     THEN RoomFor(2) /\ PushFrames(L, <<c, LuaFn>>) /\ UNCHANGED thrown
     ELSE PushFrames(L, <<c>>) /\ thrown' = IF c.k = "pcall" THEN c.handler ELSE errfunc[L]
  /\ UNCHANGED <<coroutines, catch>>
CallC == luaD_call(C) /\ UNCHANGED errfunc
\* luaD_pcall() of pcall() and xpcall()
luaD_pcall(handler) == luaD_call(Pcall(handler, L)) /\ errfunc' = [errfunc EXCEPT ![L] = handler]

\* The thread leaves lua_resume(), and the one before goes on.
Leaves == /\ running' = Front(running)
          /\ LET before == running[Len(running) - 1]
             IN ci' = [ci EXCEPT ![before] = Front(@)]

\* luaD_poscall(): the function returns, with the C function that has called it.
luaD_poscall ==
  /\ Runs /\ UNCHANGED <<created, fresh, thrown, catch>>
  /\ LET n == Len(ci[L])
         caller == ci[L][n - 1]
     IN \/ n > 1 /\ caller = LuaFn /\ ci' = CutFrames(L, n - 1) /\ UNCHANGED <<co_status, nCcalls, errfunc, running>>
        \/ /\ n > 1 /\ caller # LuaFn
           /\ ci' = CutFrames(L, IF n = 2 /\ L = MainThread THEN 1 ELSE n - 2) /\ nCcalls' = [nCcalls EXCEPT ![L] = @ - 1]
           /\ errfunc' = IF caller.k = "pcall" THEN [errfunc EXCEPT ![L] = caller.errfunc] ELSE errfunc
           /\ UNCHANGED <<co_status, running>>
        \/ /\ n = 1 /\ L # MainThread
           /\ running' = Front(running)
           /\ LET before == running[Len(running) - 1]
              IN ci' = [ci EXCEPT ![before] = Front(@), ![L] = <<>>]
           /\ UNCHANGED <<co_status, nCcalls, errfunc>>

\* luabash calls the next function.
CallFunction == /\ L = MainThread /\ thrown = NoError /\ Len(ci[MainThread]) = 1 /\ PushFrames(MainThread, <<LuaFn>>)
                /\ nCcalls' = [nCcalls EXCEPT ![MainThread] = @ + 1]
                /\ UNCHANGED <<coroutines, errfunc, thrown, catch>>

-----------------------------------------------------------------------------
(* Errors.                                                                 *)

ErrorCall == Runs /\ Throw(L) /\ UNCHANGED <<coroutines, ci, nCcalls, errfunc, catch>>

Protected(th) == {i \in DOMAIN ci[th] : ci[th][i].k = "pcall"}
TopOf(S) == CHOOSE i \in S : \A j \in S : j <= i

RestoredCaller(p) == UNCHANGED nCcalls /\ errfunc' = [errfunc EXCEPT ![L] = p.errfunc]
\* luaD_pcall() puts back what it found.
Restored(p) == /\ nCcalls' = [nCcalls EXCEPT ![L] = p.nCcalls]
               /\ errfunc' = [errfunc EXCEPT ![L] = p.errfunc]

\* luaD_throw() to the latest pcall() of the thread; the calls above it are gone.
Caught ==
  /\ thrown # NoError /\ Protected(L) # {}
  /\ LET i == TopOf(Protected(L))
         p == ci[L][i]
     IN /\ ci' = CutFrames(L, IF i = 1 /\ L = MainThread THEN 1 ELSE i - 1)
        /\ Restored(p)
        /\ catch' = [by |-> thrown, at |-> p.handler]
  /\ thrown' = NoError /\ UNCHANGED coroutines

\* ... or out of lua_resume(): the coroutine is dead, and a wrapped one hands the
\* error on.
Dies ==
  /\ thrown # NoError /\ Protected(L) = {}
  /\ co_status' = [co_status EXCEPT ![L] = "error"] /\ Leaves
  /\ LET before == running[Len(running) - 1]
     IN IF Last(ci[before]).wrap THEN Throw(before) ELSE thrown' = NoError
  /\ UNCHANGED <<created, fresh, nCcalls, errfunc, catch>>

-----------------------------------------------------------------------------
(* Coroutines.                                                             *)

luaB_cocreate(co) == /\ Runs /\ co \notin created /\ created' = created \cup {co} /\ fresh' = fresh \cup {co}
                     /\ UNCHANGED <<co_status, ci, nCcalls, errfunc, running, thrown, catch>>

Finished(co) == co_status[co] = "ok" /\ ci[co] = <<>> /\ co \notin fresh
Resumable(co) == co_status[co] = "yield" \/ (co_status[co] = "ok" /\ ci[co] = <<>> /\ ~Finished(co))

\* lua_resume(): what cannot be resumed is an error, for wrap() one of the caller.
auxresume(co, wrap) ==
  /\ Runs /\ co \in created /\ RoomFor(1) /\ UNCHANGED <<created, nCcalls, errfunc, catch>>
  /\ IF Resumable(co)
     THEN /\ running' = Append(running, co) /\ co_status' = [co_status EXCEPT ![co] = "ok"] /\ fresh' = fresh \ {co}
          /\ ci' = [ci EXCEPT ![L] = Append(@, Resume(wrap)),
                              ![co] = IF co_status[co] = "yield" THEN Front(@) ELSE <<LuaFn>>]
          /\ UNCHANGED thrown
     ELSE /\ thrown' = (IF wrap THEN errfunc[L] ELSE NoError)
          /\ UNCHANGED <<running, co_status, fresh, ci>>

lua_yield ==
  /\ Runs /\ RoomFor(1) /\ UNCHANGED <<created, fresh, nCcalls, errfunc, catch>>
  /\ IF nCcalls[L] > 0 THEN Throw(L) /\ UNCHANGED <<co_status, ci, running>>
     ELSE /\ co_status' = [co_status EXCEPT ![L] = "yield"] /\ running' = Front(running) /\ UNCHANGED thrown
          /\ LET before == running[Len(running) - 1]
             IN ci' = [ci EXCEPT ![before] = Front(@), ![L] = Append(@, [k |-> "yield"])]

luaB_costatus(co) ==
  CASE co = L -> "running"
    [] co # L /\ co_status[co] = "yield" -> "suspended"
    [] co # L /\ co_status[co] = "ok" /\ ci[co] # <<>> -> "normal"
    [] co # L /\ co_status[co] = "ok" /\ ci[co] = <<>> /\ co \in fresh -> "suspended"
    [] OTHER -> "dead"

LuaCallNext ==
  \/ luaD_precall \/ CallC \/ luaD_poscall \/ CallFunction \/ ErrorCall \/ Caught \/ Dies \/ lua_yield
  \/ \E h \in Handler \cup {0} : luaD_pcall(h)
  \/ \E co \in Co : luaB_cocreate(co) \/ \E wrap \in BOOLEAN : auxresume(co, wrap)
LuaCallSpec == LuaCallInit /\ [][LuaCallNext]_lua_call_vars

-----------------------------------------------------------------------------
\* The state of a coroutine is what became of it: only one runs, those that wait
\* for it to come back are normal, and only what has ended or failed is dead
\* (lbaselib.c:559).
StatusTrue ==
  thrown = NoError => \A co \in created :
    LET s == luaB_costatus(co)
    IN /\ (s = "running") = (co = L)
       /\ (s = "normal") = (co \in ToSet(Front(running)))
       /\ s = "suspended" => Resumable(co) /\ ~(co \in ToSet(running))
       /\ s = "dead" => ~Resumable(co)

Waiting(th) == Cardinality({i \in DOMAIN ci[th] : ci[th][i].k \in {"C", "pcall"} /\ (th # MainThread \/ i < Len(ci[th]))})

\* However calls end, by return, error or yield, what a thread has counted are the
\* C functions that wait in it, and its error function is that of its latest
\* protected call (ldo.c:427, 466).
CallsCounted ==
  thrown = NoError => \A th \in Thread :
    co_status[th] # "error" =>
      /\ nCcalls[th] = Waiting(th)
      /\ errfunc[th] = IF Protected(th) = {} THEN 0 ELSE ci[th][TopOf(Protected(th))].handler
      /\ nCcalls[th] < LUAI_MAXCCALLS

\* An error is handled by the function of the call that catches it (ldo.c:460).
HandledByCatcher == catch.by = catch.at

\* A coroutine that has yielded left no C function waiting (ldo.c:444).
NoCallInterrupted == \A co \in Co : co_status[co] = "yield" => ToSet(Front(ci[co])) \subseteq {LuaFn}
CallsRight == StatusTrue /\ CallsCounted /\ HandledByCatcher /\ NoCallInterrupted
=============================================================================
