----------------------------- MODULE ShellProofs ----------------------------
(***************************************************************************)
(* What runs in one shell: Build-Pkg keeps its promise to Build-Target, for*)
(* every configuration and any number of Ctrl-C; luabash finds what it put *)
(* on the stack, the calls of Lua end where they began, and its collector  *)
(* frees nothing that can be come to, for every program.                   *)
(***************************************************************************)
EXTENDS BuildPkg, LuaBash, LuaCall, LuaGC, SequenceTheorems, FiniteSetTheorems, TLAPS

-----------------------------------------------------------------------------
(* Build-Pkg.                                                              *)

Begun == Left \cup {"leftend", "finish"}

\* What each part of the script knows of the job's files, and that abort()
\* leaves no .log that could come back.
FilesInv ==
  /\ pc = "config" => files = {}
  /\ pc \in Begun => files = {"out"} \/ files = {"out", "log"}
  /\ pc = "verdict" => files = {"log"} \/ files = {"err"}
  /\ pc = "cache" => exit # "none"
  /\ pc = "cache" /\ exit = "success" => files = {"log"}
  /\ pc = "cache" /\ exit = "failure" => files = {"err"} \/ (files = {} /\ ~aborted /\ ~trapped)
  /\ pc \in {"start", "config", "build"} => ~aborted
  /\ pc \in {"start", "config"} => ~trapped
  /\ pc \in Begun \cup {"start", "config", "verdict"} => exit = "none"
  /\ aborted /\ pc \in Begun \cup {"verdict"} => "log" \notin files
  /\ aborted => exit # "success"

IInv == TypeOK /\ FilesInv

LEMMA AdmSteps == Len(AdmOrder) = 6
BY DEF AdmOrder

LEMMA InitInv == Init => IInv
<1> SUFFICES ASSUME Init PROVE IInv
  OBVIOUS
<1>1. TypeOK
  <2>1. written = 0 /\ written \in 0 .. Len(AdmOrder) /\ sigints \in Nat
    BY AdmSteps DEF Init
  <2>2. /\ adm \in [Adm -> {"old", "empty", "new"}]
        /\ files \subseteq File
    BY DEF Init
  <2>3. /\ pc \in Left \cup {"start", "config", "leftend", "finish", "verdict", "cache", "ended"}
        /\ pc # "register"
        /\ cache \in {"none", "ok", "error"}
        /\ exit \in {"none", "success", "failure", "died"}
    BY DEF Init
  <2>4. right \in BOOLEAN /\ aborted \in BOOLEAN /\ trapped \in BOOLEAN
    BY DEF Init
  <2> QED
    BY <2>1, <2>2, <2>3, <2>4, Zenon DEF TypeOK
<1>2. FilesInv
  BY DEF Init, FilesInv, Begun, Left
<1> QED
  BY <1>1, <1>2 DEF IInv

\* Every step keeps the types.
LEMMA TypeStep ==
  ASSUME TypeOK, [Next]_vars
  PROVE  TypeOK'
<1> USE DEF TypeOK, vars, inside, signal, Left, File
<1>1. CASE Denied
  BY <1>1, AdmSteps, BuildPkgAssumption DEF Denied
<1>2. CASE DeniedAgain
  BY <1>2, AdmSteps, BuildPkgAssumption DEF DeniedAgain, Leave
<1>3. CASE AlreadyBuilt
  BY <1>3, AdmSteps, BuildPkgAssumption DEF AlreadyBuilt
<1>4. CASE RemoveOldFiles
  BY <1>4, AdmSteps, BuildPkgAssumption DEF RemoveOldFiles, MayBuild
<1>5. CASE ConfigError
  BY <1>5, AdmSteps, BuildPkgAssumption DEF ConfigError
<1>6. CASE StartPipeline
  BY <1>6, AdmSteps, BuildPkgAssumption DEF StartPipeline
<1>7. CASE DebugExit
  BY <1>7, AdmSteps, BuildPkgAssumption DEF DebugExit
<1>8. CASE BuildSucceeds
  BY <1>8, AdmSteps, BuildPkgAssumption DEF BuildSucceeds
<1>9. CASE BuildFails
  BY <1>9, AdmSteps, BuildPkgAssumption DEF BuildFails
<1>10. CASE CheckLog
  BY <1>10, AdmSteps, BuildPkgAssumption DEF CheckLog, Abort
<1>11. CASE PostInstall
  BY <1>11, AdmSteps, BuildPkgAssumption DEF PostInstall
<1>12. CASE FilesOutside
  BY <1>12, AdmSteps, BuildPkgAssumption DEF FilesOutside, Abort
<1>13. CASE FilesInside
  BY <1>13, AdmSteps, BuildPkgAssumption DEF FilesInside
<1>14. CASE RegisterNext
  <2> USE <1>14 DEF RegisterNext, Registered
  <2>1. /\ pc = "register" /\ written' = written + 1
        /\ pc' = IF written' = Len(AdmOrder) THEN "paranoia" ELSE pc
    OBVIOUS
  <2>2. /\ written' \in 0 .. Len(AdmOrder)
        /\ pc' = "register" => written' < Len(AdmOrder)
        /\ pc' \in {"register", "paranoia"}
    BY <2>1, AdmSteps
  <2>3. adm' \in [Adm -> {"old", "empty", "new"}]
    OBVIOUS
  <2>4. UNCHANGED <<files, right, aborted, trapped, sigints, cache, exit>>
    OBVIOUS
  <2> QED
    BY <2>2, <2>3, <2>4
<1>15. CASE ParanoiaCheckFails
  BY <1>15, AdmSteps, BuildPkgAssumption DEF ParanoiaCheckFails, Abort
<1>16. CASE ParanoiaCheckPasses
  BY <1>16, AdmSteps, BuildPkgAssumption DEF ParanoiaCheckPasses
<1>17. CASE TrapExit
  BY <1>17, AdmSteps, BuildPkgAssumption DEF TrapExit
<1>18. CASE RightEnds
  BY <1>18, AdmSteps, BuildPkgAssumption DEF RightEnds
<1>19. CASE Finish
  BY <1>19, AdmSteps, BuildPkgAssumption DEF Finish, Leave
<1>20. CASE WriteCache
  BY <1>20, AdmSteps, BuildPkgAssumption DEF WriteCache, BuildTime
<1>21. CASE SigintInPipeline
  BY <1>21, AdmSteps, BuildPkgAssumption DEF SigintInPipeline
<1>22. CASE SigintAtStart
  BY <1>22, AdmSteps, BuildPkgAssumption DEF SigintAtStart
<1>23. CASE SigintOutside
  BY <1>23, AdmSteps, BuildPkgAssumption DEF SigintOutside, Leave
<1>24. CASE RenameOut
  BY <1>24, AdmSteps, BuildPkgAssumption DEF RenameOut, Verdict
<1>25. CASE SigintInOuter
  BY <1>25, AdmSteps, BuildPkgAssumption DEF SigintInOuter, BuildTime
<1>26. CASE UNCHANGED vars
  BY <1>26
<1> HIDE DEF TypeOK, vars
<1> QED
  BY <1>1, <1>2, <1>3, <1>4, <1>5, <1>6, <1>7, <1>8, <1>9, <1>10, <1>11, <1>12,
       <1>13, <1>14, <1>15, <1>16, <1>17, <1>18, <1>19, <1>20, <1>21, <1>22,
       <1>23, <1>24, <1>25, <1>26 DEF Next

\* Every step keeps what is known of the files.
LEMMA FilesStep ==
  ASSUME IInv, [Next]_vars
  PROVE  FilesInv'
<1> USE DEF IInv, TypeOK, FilesInv, Begun, vars, inside, signal, Left, File
<1>1. CASE Denied
  BY <1>1 DEF Denied
<1>2. CASE DeniedAgain
  BY <1>2 DEF DeniedAgain, Leave
<1>3. CASE AlreadyBuilt
  BY <1>3 DEF AlreadyBuilt
<1>4. CASE RemoveOldFiles
  BY <1>4 DEF RemoveOldFiles, MayBuild
<1>5. CASE ConfigError
  BY <1>5 DEF ConfigError
<1>6. CASE StartPipeline
  BY <1>6 DEF StartPipeline
<1>7. CASE DebugExit
  BY <1>7 DEF DebugExit
<1>8. CASE BuildSucceeds
  BY <1>8 DEF BuildSucceeds
<1>9. CASE BuildFails
  BY <1>9 DEF BuildFails
<1>10. CASE CheckLog
  BY <1>10 DEF CheckLog, Abort
<1>11. CASE PostInstall
  BY <1>11 DEF PostInstall
<1>12. CASE FilesOutside
  BY <1>12 DEF FilesOutside, Abort
<1>13. CASE FilesInside
  BY <1>13 DEF FilesInside
<1>14. CASE RegisterNext
  BY <1>14 DEF RegisterNext, Registered
<1>15. CASE ParanoiaCheckFails
  BY <1>15 DEF ParanoiaCheckFails, Abort
<1>16. CASE ParanoiaCheckPasses
  BY <1>16 DEF ParanoiaCheckPasses
<1>17. CASE TrapExit
  BY <1>17 DEF TrapExit
<1>18. CASE RightEnds
  BY <1>18 DEF RightEnds
<1>19. CASE Finish
  <2>1. /\ pc = "verdict" /\ pc' \in {"cache", "ended"}
        /\ exit' = IF "log" \in files THEN "success" ELSE "failure"
        /\ UNCHANGED <<files, aborted, trapped>>
    BY <1>19 DEF Finish, Leave
  <2>2. /\ files = {"log"} => exit' = "success" /\ ~aborted
        /\ files = {"err"} => exit' = "failure"
        /\ files = {"log"} \/ files = {"err"}
    BY <2>1
  <2>3. /\ pc' = "cache" => /\ exit' # "none"
                            /\ exit' = "success" => files' = {"log"}
                            /\ exit' = "failure" => files' = {"err"}
        /\ aborted' => exit' # "success"
    BY <2>1, <2>2
  <2> HIDE DEF IInv, TypeOK
  <2> QED
    BY <2>1, <2>3
<1>20. CASE WriteCache
  BY <1>20 DEF WriteCache
<1>21. CASE SigintInPipeline
  BY <1>21 DEF SigintInPipeline
<1>22. CASE SigintAtStart
  BY <1>22 DEF SigintAtStart
<1>23. CASE SigintOutside
  BY <1>23 DEF SigintOutside, Leave
<1>24. CASE RenameOut
  BY <1>24 DEF RenameOut, Verdict
<1>25. CASE SigintInOuter
  BY <1>25 DEF SigintInOuter
<1>26. CASE UNCHANGED vars
  BY <1>26
<1> HIDE DEF FilesInv, IInv, vars
<1> QED
  BY <1>1, <1>2, <1>3, <1>4, <1>5, <1>6, <1>7, <1>8, <1>9, <1>10, <1>11, <1>12,
       <1>13, <1>14, <1>15, <1>16, <1>17, <1>18, <1>19, <1>20, <1>21, <1>22,
       <1>23, <1>24, <1>25, <1>26 DEF Next

\* Every step is a step of JobVerdict, or leaves its state alone.
LEMMA PromiseStep ==
  ASSUME IInv, IInv', [Next]_vars
  PROVE  [Promise!Next]_(Promise!vars)
<1> USE DEF IInv, TypeOK, FilesInv, Begun, vars, inside, signal, Left, File,
     phase, Promise!Next, Promise!vars
<1>1. CASE Denied
  BY <1>1 DEF Denied, Promise!Denied
<1>2. CASE DeniedAgain
  BY <1>2 DEF DeniedAgain, Leave, Promise!Denied
<1>3. CASE AlreadyBuilt
  BY <1>3 DEF AlreadyBuilt, Promise!AlreadyBuilt
<1>4. CASE RemoveOldFiles
  BY <1>4 DEF RemoveOldFiles, MayBuild, Promise!Clear
<1>5. CASE ConfigError
  BY <1>5 DEF ConfigError, Promise!ConfigError
<1>6. CASE StartPipeline
  BY <1>6 DEF StartPipeline, Promise!Begin
<1>7. CASE DebugExit
  BY <1>7 DEF DebugExit
<1>8. CASE BuildSucceeds
  BY <1>8 DEF BuildSucceeds, Promise!TouchLog
<1>9. CASE BuildFails
  BY <1>9 DEF BuildFails
<1>10. CASE CheckLog
  BY <1>10 DEF CheckLog, Abort, Promise!Abort
<1>11. CASE PostInstall
  BY <1>11 DEF PostInstall
<1>12. CASE FilesOutside
  BY <1>12 DEF FilesOutside, Abort, Promise!Abort
<1>13. CASE FilesInside
  BY <1>13 DEF FilesInside
<1>14. CASE RegisterNext
  BY <1>14 DEF RegisterNext, Registered
<1>15. CASE ParanoiaCheckFails
  BY <1>15 DEF ParanoiaCheckFails, Abort, Promise!Abort
<1>16. CASE ParanoiaCheckPasses
  BY <1>16 DEF ParanoiaCheckPasses
<1>17. CASE TrapExit
  BY <1>17 DEF TrapExit
<1>18. CASE RightEnds
  BY <1>18 DEF RightEnds
<1>19. CASE Finish
  BY <1>19 DEF Finish, Leave, Promise!End
<1>20. CASE WriteCache
  BY <1>20 DEF WriteCache, Promise!Denied, Promise!End, Promise!Die
<1>21. CASE SigintInPipeline
  BY <1>21 DEF SigintInPipeline
<1>22. CASE SigintAtStart
  BY <1>22 DEF SigintAtStart, Promise!Die
<1>23. CASE SigintOutside
  BY <1>23 DEF SigintOutside, Leave, Promise!Die
<1>24. CASE RenameOut
  BY <1>24 DEF RenameOut, Verdict, Promise!Decide
<1>25. CASE SigintInOuter
  BY <1>25 DEF SigintInOuter, Promise!Die
<1>26. CASE UNCHANGED vars
  BY <1>26
<1> HIDE DEF IInv, vars, Promise!Next, Promise!vars
<1> QED
  BY <1>1, <1>2, <1>3, <1>4, <1>5, <1>6, <1>7, <1>8, <1>9, <1>10, <1>11, <1>12,
       <1>13, <1>14, <1>15, <1>16, <1>17, <1>18, <1>19, <1>20, <1>21, <1>22,
       <1>23, <1>24, <1>25, <1>26 DEF Next

\* The invariant holds in every behaviour.
THEOREM Invariance == Spec => []IInv
<1>1. IInv /\ [Next]_vars => IInv'
  <2> SUFFICES ASSUME IInv, [Next]_vars PROVE IInv'
    OBVIOUS
  <2>1. TypeOK'
    BY TypeStep DEF IInv
  <2>2. FilesInv'
    BY FilesStep
  <2> QED
    BY <2>1, <2>2 DEF IInv
<1> QED
  BY InitInv, <1>1, PTL DEF Spec

-----------------------------------------------------------------------------
\* How far the files in var/adm are, by how many steps are done.
AdmInv == /\ written >= 1 => adm["flists"] = "new"
          /\ written >= 3 => adm["dependencies"] = "new"
          /\ written >= 4 => adm["md5sums"] = "new"
          /\ written >= 5 => adm["packages"] = "new"
          /\ written >= 6 => adm["descs"] = "new"

\* Without a Ctrl-C the left side leaves a .log only when all of them are done.
LeftInv == /\ trapped => sigints # 0
           /\ pc = "build" => "log" \notin files
           /\ pc = "paranoia" => written = 6
           /\ pc \in {"leftend", "finish"} /\ "log" \in files /\ sigints = 0 => written = 6

\* The note of the build time is written last, and agrees with the end.
CacheInv == /\ cache = "none" \/ pc = "ended"
            /\ CacheAgreesWithExit

AllInv == AdmInv /\ LeftInv /\ CacheInv

\* A step that writes nothing in var/adm.
LEMMA AdmKept ==
  ASSUME AdmInv, UNCHANGED <<adm, written>>
  PROVE  AdmInv'
BY DEF AdmInv

\* One more file is written.
LEMMA AdmStep ==
  ASSUME TypeOK, AdmInv, RegisterNext
  PROVE  AdmInv'
<1>1. /\ AdmOrder[1] = "flists" /\ AdmOrder[2] = "md5clear" /\ AdmOrder[3] = "dependencies"
      /\ AdmOrder[4] = "md5sums" /\ AdmOrder[5] = "packages" /\ AdmOrder[6] = "descs"
  BY DEF AdmOrder
<1>2. written \in 0 .. 5 /\ written' = written + 1
  BY AdmSteps DEF TypeOK, RegisterNext
<1>3. adm \in [Adm -> {"old", "empty", "new"}]
  BY DEF TypeOK
<1>4. adm' = IF AdmOrder[written + 1] = "md5clear" THEN [adm EXCEPT !["md5sums"] = "empty"]
             ELSE [adm EXCEPT ![AdmOrder[written + 1]] = "new"]
  BY DEF RegisterNext
<1>5. CASE written = 0
  BY <1>1, <1>2, <1>3, <1>4, <1>5 DEF AdmInv, Adm
<1>6. CASE written = 1
  BY <1>1, <1>2, <1>3, <1>4, <1>6 DEF AdmInv, Adm
<1>7. CASE written = 2
  BY <1>1, <1>2, <1>3, <1>4, <1>7 DEF AdmInv, Adm
<1>8. CASE written = 3
  BY <1>1, <1>2, <1>3, <1>4, <1>8 DEF AdmInv, Adm
<1>9. CASE written = 4
  BY <1>1, <1>2, <1>3, <1>4, <1>9 DEF AdmInv, Adm
<1>10. CASE written = 5
  BY <1>1, <1>2, <1>3, <1>4, <1>10 DEF AdmInv, Adm
<1> QED
  BY <1>2, <1>5, <1>6, <1>7, <1>8, <1>9, <1>10

\* Every step keeps what is known of the left side and of the note.
LEMMA CompleteStep ==
  ASSUME IInv, AllInv, [Next]_vars
  PROVE  AllInv'
<1> USE AdmSteps DEF IInv, TypeOK, FilesInv, AllInv, LeftInv, CacheInv, CacheAgreesWithExit, Begun, Left, inside, signal
<1>1. CASE Denied
  BY <1>1, AdmKept DEF Denied
<1>2. CASE DeniedAgain
  BY <1>2, AdmKept DEF DeniedAgain, Leave
<1>3. CASE AlreadyBuilt
  BY <1>3, AdmKept DEF AlreadyBuilt
<1>4. CASE RemoveOldFiles
  BY <1>4, AdmKept DEF RemoveOldFiles
<1>5. CASE ConfigError
  BY <1>5, AdmKept DEF ConfigError
<1>6. CASE StartPipeline
  BY <1>6, AdmKept DEF StartPipeline
<1>7. CASE DebugExit
  BY <1>7, AdmKept DEF DebugExit
<1>8. CASE BuildSucceeds
  BY <1>8, AdmKept DEF BuildSucceeds
<1>9. CASE BuildFails
  BY <1>9, AdmKept DEF BuildFails
<1>10. CASE CheckLog
  BY <1>10, AdmKept DEF CheckLog, Abort
<1>11. CASE PostInstall
  BY <1>11, AdmKept DEF PostInstall
<1>12. CASE FilesOutside
  BY <1>12, AdmKept DEF FilesOutside, Abort
<1>13. CASE FilesInside
  BY <1>13, AdmKept DEF FilesInside
<1>14. CASE RegisterNext
  BY <1>14, AdmStep DEF RegisterNext, Registered
<1>15. CASE ParanoiaCheckFails
  BY <1>15, AdmKept DEF ParanoiaCheckFails, Abort
<1>16. CASE ParanoiaCheckPasses
  BY <1>16, AdmKept DEF ParanoiaCheckPasses
<1>17. CASE TrapExit
  BY <1>17, AdmKept DEF TrapExit
<1>18. CASE RightEnds
  BY <1>18, AdmKept DEF RightEnds
<1>19. CASE Finish
  BY <1>19, AdmKept DEF Finish, Leave
<1>20. CASE WriteCache
  BY <1>20, AdmKept DEF WriteCache, BuildTime
<1>21. CASE SigintInPipeline
  BY <1>21, AdmKept DEF SigintInPipeline
<1>22. CASE SigintAtStart
  BY <1>22, AdmKept DEF SigintAtStart
<1>23. CASE SigintOutside
  BY <1>23, AdmKept DEF SigintOutside, Leave
<1>24. CASE RenameOut
  BY <1>24, AdmKept DEF RenameOut, Verdict
<1>25. CASE SigintInOuter
  BY <1>25, AdmKept DEF SigintInOuter, BuildTime
<1>26. CASE UNCHANGED vars
  BY <1>26, AdmKept DEF vars
<1> HIDE DEF IInv, AllInv
<1> QED
  BY <1>1, <1>2, <1>3, <1>4, <1>5, <1>6, <1>7, <1>8, <1>9, <1>10, <1>11, <1>12,
       <1>13, <1>14, <1>15, <1>16, <1>17, <1>18, <1>19, <1>20, <1>21, <1>22,
       <1>23, <1>24, <1>25, <1>26 DEF Next

\* So it is in every state of every build.
LEMMA Completeness == Spec => []AllInv
<1>1. Init => AllInv
  BY DEF Init, AllInv, AdmInv, LeftInv, CacheInv, CacheAgreesWithExit
<1>2. IInv /\ AllInv /\ [Next]_vars => AllInv'
  BY CompleteStep
<1> QED
  BY <1>1, <1>2, Invariance, PTL DEF Spec

-----------------------------------------------------------------------------
(* The theorems *)

\* The types of the variables.
THEOREM TypeCorrect == Spec => []TypeOK
<1>1. IInv => TypeOK
  BY DEF IInv
<1> QED
  BY Invariance, <1>1, PTL

\* A build in which abort() was called never ends in success.
THEOREM AbortIsFinal == Spec => []AbortedFails
<1>1. IInv => AbortedFails
  BY DEF IInv, FilesInv, AbortedFails
<1> QED
  BY Invariance, <1>1, PTL

\* Build-Pkg implements JobVerdict: what Build-Target counts on.
THEOREM Implements == Spec => KeepsPromise
<1>1. Init => Promise!Init
  <2> SUFFICES ASSUME Init PROVE Promise!Init
    OBVIOUS
  <2>1. pc = "start" /\ files \in SUBSET File
    BY DEF Init
  <2>2. phase = "start"
    BY <2>1 DEF phase
  <2> QED
    BY <2>1, <2>2 DEF Promise!Init
<1>2. IInv /\ IInv' /\ [Next]_vars => [Promise!Next]_(Promise!vars)
  BY PromiseStep
<1> QED
  BY Invariance, <1>1, <1>2, PTL DEF Spec, KeepsPromise, Promise!Spec

\* A build that no Ctrl-C has hit is called a success only when all files in
\* var/adm are written and nothing has called abort() (Build-Pkg:502-506,961).
THEOREM CompleteOnSuccess == Spec => []SuccessIsComplete
<1>1. IInv /\ AllInv => SuccessIsComplete
  BY DEF IInv, FilesInv, Begun, AllInv, AdmInv, LeftInv, SuccessIsComplete, Adm
<1> QED
  BY <1>1, Invariance, Completeness, PTL

\* The build time is noted without ERROR after a success and with it after a
\* failure, but for a run denied before it did anything (Build-Pkg:314,961).
THEOREM CacheIsHonest == Spec => []CacheAgreesWithExit
<1>1. AllInv => CacheAgreesWithExit
  BY DEF AllInv, CacheInv
<1> QED
  BY <1>1, Completeness, PTL

-----------------------------------------------------------------------------
(* luabash.                                                                *)

StackValue == LuaFunction \cup Word \cup Result
                \cup {"chunk", "error", "bash.call", "luabash", "script", "true", "a", "b"}
Functions == LuaFunction \cup {"chunk", "bash.call"}
CallFrame == [k : {"lua", "call"}, f : Functions, func : Nat \ {0}, args : Seq(StackValue)]

\* The function and the arguments of a call lie where its frame says.
EndOf(fr) == fr.func + Len(fr.args)
Holds(held, fr) == /\ EndOf(fr) <= Len(held) /\ held[fr.func] = fr.f
                    /\ \A a \in 1 .. Len(fr.args) : held[fr.func + a] = fr.args[a]

\* The stack of the calls under the shell's own is that of their frames, each
\* above those before it.
Nested(held, fs) ==
  /\ held \in Seq(StackValue) /\ fs \in Seq({Bash} \cup CallFrame)
  /\ Len(fs) >= 1 /\ fs[1] = Bash
  /\ \A i \in 1 .. Len(fs) : fs[i] # Bash => Holds(held, fs[i])
  /\ \A i, j \in 1 .. Len(fs) : i < j /\ fs[i] # Bash /\ fs[j] # Bash => EndOf(fs[i]) < fs[j].func

Words(fs) == \A i \in 1 .. Len(fs) : fs[i].k = "call" => fs[i].args \in Commands

BashInv == /\ Nested(lua_stack, frames) /\ Words(frames)
           /\ initialized \in BOOLEAN /\ defined \subseteq LuaFunction
           /\ (\E i \in 1 .. Len(frames) : frames[i] # Bash) => initialized
           /\ reported.seen = reported.gave

\* A frame is the shell's or one of a call, with a function and arguments.
LEMMA FrameKind ==
  ASSUME NEW fr \in {Bash} \cup CallFrame
  PROVE  /\ fr = Bash <=> fr.k = "bash"
         /\ fr # Bash => /\ fr \in CallFrame /\ fr.k \in {"lua", "call"} /\ fr.func \in Nat \ {0}
                         /\ fr.args \in Seq(StackValue) /\ Len(fr.args) \in Nat
                         /\ EndOf(fr) \in Nat /\ EndOf(fr) >= fr.func
<1>1. Bash.k = "bash"
  BY DEF Bash
<1>2. ASSUME fr \in CallFrame
      PROVE  /\ fr.k \in {"lua", "call"} /\ fr.func \in Nat \ {0}
             /\ fr.args \in Seq(StackValue) /\ Len(fr.args) \in Nat
  BY <1>2 DEF CallFrame
<1> QED
  BY <1>1, <1>2 DEF EndOf

\* Where an argument of a call lies.
LEMMA Above ==
  ASSUME NEW func \in Nat, NEW n \in Nat, NEW a \in 1 .. n, NEW m \in Int, func + n <= m
  PROVE  func + a \in 1 .. m /\ a + func \in 1 .. m
OBVIOUS

\* What is pushed leaves the calls in progress alone.
LEMMA PushKeeps ==
  ASSUME NEW held, NEW fs, Nested(held, fs), NEW values \in Seq(StackValue)
  PROVE  Nested(held \o values, fs)
<1> DEFINE more == held \o values
<1>1. /\ held \in Seq(StackValue) /\ fs \in Seq({Bash} \cup CallFrame)
      /\ \A i \in 1 .. Len(fs) : fs[i] # Bash => Holds(held, fs[i])
  BY DEF Nested
<1>2. /\ more \in Seq(StackValue) /\ Len(more) >= Len(held)
      /\ \A i \in 1 .. Len(held) : more[i] = held[i]
  BY <1>1
<1> HIDE DEF more
<1>3. ASSUME NEW i \in 1 .. Len(fs), fs[i] # Bash
      PROVE  Holds(more, fs[i])
  <2> DEFINE fr == fs[i]
  <2>1. Holds(held, fr) /\ fr \in {Bash} \cup CallFrame /\ fr # Bash
    BY <1>1, <1>3
  <2> HIDE DEF fr
  <2>2. fr.func \in Nat \ {0} /\ Len(fr.args) \in Nat
    BY <2>1, FrameKind
  <2>3. Len(held) \in Nat /\ Len(more) \in Nat
    BY <1>1, <1>2
  <2>4. EndOf(fr) <= Len(held) /\ held[fr.func] = fr.f /\ fr.func + Len(fr.args) <= Len(held)
    BY <2>1 DEF Holds, EndOf
  <2>5. ASSUME NEW a \in 1 .. Len(fr.args) PROVE more[fr.func + a] = fr.args[a]
    <3>1. fr.func + a \in 1 .. Len(held)
      BY <2>2, <2>3, <2>4, Above
    <3>2. held[fr.func + a] = fr.args[a]
      BY <2>1 DEF Holds
    <3> QED
      BY <1>2, <3>1, <3>2
  <2>6. Holds(more, fr)
    <3>1. fr.func \in 1 .. Len(held) /\ EndOf(fr) \in Nat
      BY <2>2, <2>3, <2>4 DEF EndOf
    <3>2. more[fr.func] = fr.f
      BY <1>2, <2>4, <3>1
    <3>3. EndOf(fr) <= Len(more)
      BY <1>2, <2>3, <2>4, <3>1
    <3> QED
      BY <2>5, <3>2, <3>3 DEF Holds
  <2> QED
    BY <2>6 DEF fr
<1> QED
  BY <1>2, <1>3 DEF Nested, more

\* What a call pushes, as one sequence.
Said(f, given) == <<f>> \o given
AfterCall(held, f, given) == held \o <<f>> \o given

\* A call lays the function on the stack and its arguments above it.
LEMMA CallPushed ==
  ASSUME NEW S, NEW held \in Seq(S), NEW f \in S, NEW given \in Seq(S)
  PROVE  /\ Said(f, given) \in Seq(S) /\ AfterCall(held, f, given) = held \o Said(f, given)
         /\ Len(AfterCall(held, f, given)) = Len(held) + 1 + Len(given)
         /\ AfterCall(held, f, given)[Len(held) + 1] = f
         /\ \A a \in 1 .. Len(given) : AfterCall(held, f, given)[Len(held) + 1 + a] = given[a]
<1> DEFINE one == <<f>>
           base == held \o one
           more == base \o given
<1>1. one \in Seq(S) /\ Len(one) = 1 /\ one[1] = f
  OBVIOUS
<1>2. Len(held) \in Nat /\ Len(given) \in Nat
  OBVIOUS
<1> HIDE DEF one
<1>3. base \in Seq(S) /\ Len(base) = Len(held) + 1 /\ base[Len(held) + 1] = f
  <2>1. /\ base \in Seq(S) /\ Len(base) = Len(held) + Len(one)
        /\ \A i \in 1 .. Len(held) + Len(one) : base[i] = IF i <= Len(held) THEN held[i] ELSE one[i - Len(held)]
    BY <1>1, ConcatProperties
  <2> HIDE DEF base
  <2>2. /\ Len(held) + 1 \in 1 .. Len(held) + Len(one) /\ ~(Len(held) + 1 <= Len(held))
        /\ (Len(held) + 1) - Len(held) = 1 /\ Len(base) = Len(held) + 1
    BY <1>1, <1>2, <2>1
  <2> QED
    BY <1>1, <2>1, <2>2
<1>4. one \o given \in Seq(S) /\ base \o given = held \o (one \o given)
  BY <1>1, ConcatAssociative
<1> HIDE DEF base
<1>5. /\ Len(more) = Len(base) + Len(given)
      /\ \A i \in 1 .. Len(base) : more[i] = base[i]
      /\ \A a \in 1 .. Len(given) : more[Len(base) + a] = given[a]
  BY <1>2, <1>3
<1> HIDE DEF more
<1>6. Len(more) = Len(held) + 1 + Len(given) /\ more[Len(held) + 1] = f
  BY <1>2, <1>3, <1>5
<1>7. \A a \in 1 .. Len(given) : more[Len(held) + 1 + a] = given[a]
  BY <1>3, <1>5
<1> QED
  BY <1>4, <1>6, <1>7 DEF one, base, more, Said, AfterCall

\* A call puts its function and its arguments on top.
LEMMA CallNests ==
  ASSUME NEW held, NEW fs, Nested(held, fs), NEW fr \in CallFrame, fr.func = Len(held) + 1, fr.f \in StackValue
  PROVE  Nested(held \o <<fr.f>> \o fr.args, Append(fs, fr))
<1> DEFINE values == Said(fr.f, fr.args)
           more == AfterCall(held, fr.f, fr.args)
           longer == Append(fs, fr)
<1>1. /\ held \in Seq(StackValue) /\ fs \in Seq({Bash} \cup CallFrame) /\ Len(fs) >= 1 /\ fs[1] = Bash
      /\ \A i, j \in 1 .. Len(fs) : i < j /\ fs[i] # Bash /\ fs[j] # Bash => EndOf(fs[i]) < fs[j].func
      /\ \A i \in 1 .. Len(fs) : fs[i] # Bash => Holds(held, fs[i])
  BY DEF Nested
<1>2. fr.args \in Seq(StackValue) /\ fr.f \in StackValue /\ Len(fr.args) \in Nat
  BY DEF CallFrame
<1>3. /\ values \in Seq(StackValue) /\ more = held \o values
      /\ Len(more) = Len(held) + 1 + Len(fr.args) /\ more[Len(held) + 1] = fr.f
      /\ \A a \in 1 .. Len(fr.args) : more[Len(held) + 1 + a] = fr.args[a]
  <2> DEFINE f == fr.f
             given == fr.args
             S == StackValue
  <2>1. held \in Seq(S) /\ f \in S /\ given \in Seq(S)
    BY <1>1, <1>2
  <2> HIDE DEF f, given, S
  <2>2. /\ Said(f, given) \in Seq(S) /\ AfterCall(held, f, given) = held \o Said(f, given)
        /\ Len(AfterCall(held, f, given)) = Len(held) + 1 + Len(given)
        /\ AfterCall(held, f, given)[Len(held) + 1] = f
        /\ \A a \in 1 .. Len(given) : AfterCall(held, f, given)[Len(held) + 1 + a] = given[a]
    BY ONLY <2>1, CallPushed
  <2> QED
    BY <2>2 DEF f, given, S
<1>4. Nested(more, fs)
  BY <1>3, PushKeeps
<1>5. /\ longer \in Seq({Bash} \cup CallFrame) /\ Len(longer) = Len(fs) + 1
      /\ \A i \in 1 .. Len(fs) : longer[i] = fs[i]
      /\ longer[Len(fs) + 1] = fr
  BY <1>1
<1>6. Len(fs) \in Nat /\ Len(held) \in Nat
  BY <1>1
<1> HIDE DEF more, longer, values
<1>8. Holds(more, fr)
  <2>1. EndOf(fr) <= Len(more)
    <3>1. EndOf(fr) = fr.func + Len(fr.args) /\ fr.func = Len(held) + 1 /\ Len(more) = Len(held) + 1 + Len(fr.args)
      BY <1>3 DEF EndOf
    <3> DEFINE m == fr.func
               n == Len(fr.args)
               l == Len(held)
               k == Len(more)
               e == EndOf(fr)
    <3>2. e = m + n /\ m = l + 1 /\ k = l + 1 + n /\ n \in Nat /\ l \in Nat
      BY <1>2, <1>6, <3>1
    <3> HIDE DEF m, n, l, k, e
    <3>3. e <= k
      BY <3>2
    <3> QED
      BY <3>3 DEF k, e
  <2>2. more[fr.func] = fr.f
    BY <1>3
  <2>3. \A a \in 1 .. Len(fr.args) : more[fr.func + a] = fr.args[a]
    BY <1>3
  <2> QED
    BY <2>1, <2>2, <2>3 DEF Holds
<1>9. \A i \in 1 .. Len(fs) : fs[i] # Bash => Holds(more, fs[i]) /\ more \in Seq(StackValue)
  BY <1>4 DEF Nested
<1>10. \A i \in 1 .. Len(longer) : longer[i] # Bash => Holds(more, longer[i])
  BY <1>5, <1>6, <1>8, <1>9
<1>11. ASSUME NEW i \in 1 .. Len(fs), fs[i] # Bash
       PROVE  EndOf(fs[i]) < fr.func
  <2>1. EndOf(fs[i]) <= Len(held)
    BY <1>1, <1>11 DEF Holds
  <2>2. EndOf(fs[i]) \in Nat
    BY <1>1, <1>11, FrameKind
  <2> QED
    BY <1>6, <2>1, <2>2
<1>12. \A i, j \in 1 .. Len(longer) : i < j /\ longer[i] # Bash /\ longer[j] # Bash
                                     => EndOf(longer[i]) < longer[j].func
  <2> SUFFICES ASSUME NEW i \in 1 .. Len(longer), NEW j \in 1 .. Len(longer), i < j,
                      longer[i] # Bash, longer[j] # Bash
               PROVE  EndOf(longer[i]) < longer[j].func
    OBVIOUS
  <2>1. i \in 1 .. Len(fs) /\ longer[i] = fs[i]
    BY <1>5, <1>6
  <2>2. CASE j = Len(fs) + 1
    BY <1>5, <1>11, <2>1, <2>2
  <2>3. CASE j # Len(fs) + 1
    <3>1. j \in 1 .. Len(fs) /\ longer[j] = fs[j]
      BY <1>5, <1>6, <2>3
    <3> QED
      BY <1>1, <2>1, <3>1
  <2> QED
    BY <2>2, <2>3
<1>13. more \in Seq(StackValue)
  BY <1>4 DEF Nested
<1>14. Len(longer) >= 1 /\ longer[1] = Bash
  BY <1>1, <1>5, <1>6
<1>15. Nested(more, longer)
  BY <1>5, <1>10, <1>12, <1>13, <1>14 DEF Nested
<1> QED
  BY <1>15 DEF more, longer, AfterCall

\* The calls outside of the innermost one lie under it.
LEMMA ReturnNests ==
  ASSUME NEW held, NEW fs, Nested(held, fs), Len(fs) > 1
  PROVE  /\ Nested(held, SubSeq(fs, 1, Len(fs) - 1))
         /\ fs[Len(fs)] # Bash => Nested(SubSeq(held, 1, fs[Len(fs)].func - 1), SubSeq(fs, 1, Len(fs) - 1))
<1> DEFINE outer == SubSeq(fs, 1, Len(fs) - 1)
           last == fs[Len(fs)]
           under == SubSeq(held, 1, last.func - 1)
<1>1. /\ held \in Seq(StackValue) /\ fs \in Seq({Bash} \cup CallFrame) /\ Len(fs) > 1 /\ fs[1] = Bash
      /\ \A i, j \in 1 .. Len(fs) : i < j /\ fs[i] # Bash /\ fs[j] # Bash => EndOf(fs[i]) < fs[j].func
      /\ \A i \in 1 .. Len(fs) : fs[i] # Bash => Holds(held, fs[i])
      /\ Len(fs) \in Nat /\ Len(held) \in Nat
  BY DEF Nested
<1>2. /\ outer \in Seq({Bash} \cup CallFrame) /\ Len(outer) = Len(fs) - 1 /\ Len(outer) >= 1
      /\ \A i \in 1 .. Len(outer) : outer[i] = fs[i] /\ i \in 1 .. Len(fs)
  BY <1>1
<1> HIDE DEF outer
<1>3. Nested(held, outer)
  <2>1. \A i \in 1 .. Len(outer) : outer[i] # Bash => Holds(held, outer[i])
    BY <1>1, <1>2
  <2>2. \A i, j \in 1 .. Len(outer) : i < j /\ outer[i] # Bash /\ outer[j] # Bash
                                      => EndOf(outer[i]) < outer[j].func
    BY <1>1, <1>2
  <2>3. outer[1] = Bash
    BY <1>1, <1>2
  <2> QED
    BY <1>1, <1>2, <2>1, <2>2, <2>3 DEF Nested
<1>4. ASSUME last # Bash PROVE Nested(under, outer)
  <2>1. last \in {Bash} \cup CallFrame /\ Holds(held, last)
    BY <1>1, <1>4
  <2> HIDE DEF last
  <2>2. /\ last.func \in Nat \ {0} /\ last.func <= Len(held) /\ EndOf(last) \in Nat
    BY <1>1, <1>4, <2>1, FrameKind DEF Holds
  <2>3. /\ under \in Seq(StackValue) /\ Len(under) = last.func - 1
        /\ \A i \in 1 .. last.func - 1 : under[i] = held[i]
    BY <1>1, <2>2
  <2> HIDE DEF under
  <2>4. ASSUME NEW i \in 1 .. Len(outer), outer[i] # Bash
        PROVE  Holds(under, outer[i])
    <3> DEFINE fr == outer[i]
    <3>1. fr = fs[i] /\ i \in 1 .. Len(fs) /\ i < Len(fs)
      BY <1>1, <1>2
    <3>2. EndOf(fr) < last.func /\ Holds(held, fr) /\ fr \in {Bash} \cup CallFrame /\ fr # Bash
      BY <1>1, <1>4, <2>4, <3>1 DEF last
    <3> HIDE DEF fr
    <3>3. fr.func \in Nat \ {0} /\ Len(fr.args) \in Nat /\ EndOf(fr) \in Nat
      BY <3>2, FrameKind
    <3>4. EndOf(fr) <= Len(under)
      BY <2>2, <2>3, <3>2, <3>3
    <3>5. under[fr.func] = held[fr.func] /\ \A a \in 1 .. Len(fr.args) : under[fr.func + a] = held[fr.func + a]
      <4>1. fr.func + Len(fr.args) <= last.func - 1 /\ last.func - 1 \in Int
        BY <2>2, <3>2, <3>3 DEF EndOf
      <4>2. fr.func \in 1 .. last.func - 1
        BY <3>3, <4>1
      <4>3. ASSUME NEW a \in 1 .. Len(fr.args) PROVE fr.func + a \in 1 .. last.func - 1
        BY <3>3, <4>1, Above
      <4> QED
        BY <2>3, <4>2, <4>3
    <3>6. Holds(under, fr)
      BY <3>2, <3>4, <3>5 DEF Holds
    <3> QED
      BY <3>6 DEF fr
  <2> QED
    BY <1>3, <2>3, <2>4 DEF Nested
<1> QED
  BY <1>3, <1>4 DEF outer

\* A command that has ended ends the call that bash.call() is, too.
LEMMA CommandEndedNests ==
  ASSUME NEW held, NEW fs, Nested(held, fs), Words(fs), NEW rc, CommandEnded(held, fs, rc)
  PROVE  /\ Nested(lua_stack', frames') /\ Words(frames')
         /\ Len(frames') <= Len(fs) /\ \A i \in 1 .. Len(frames') : frames'[i] = fs[i]
<1>1. /\ fs \in Seq({Bash} \cup CallFrame) /\ Len(fs) >= 1 /\ fs[1] = Bash /\ Len(fs) \in Nat
      /\ fs[Len(fs)] \in {Bash} \cup CallFrame
  BY DEF Nested
<1>2. CASE fs[Len(fs)].k = "call"
  <2>1. fs[Len(fs)] # Bash /\ Len(fs) > 1
    BY <1>1, <1>2 DEF Bash
  <2>2. frames' = SubSeq(fs, 1, Len(fs) - 1) /\ lua_stack' = SubSeq(held, 1, fs[Len(fs)].func - 1)
    BY <1>2 DEF CommandEnded
  <2>3. Nested(lua_stack', frames')
    BY <2>1, <2>2, ReturnNests
  <2>4. Len(frames') = Len(fs) - 1 /\ \A i \in 1 .. Len(frames') : frames'[i] = fs[i] /\ i \in 1 .. Len(fs)
    BY <1>1, <2>1, <2>2
  <2> QED
    BY <1>1, <2>3, <2>4 DEF Words
<1>3. CASE fs[Len(fs)].k # "call"
  BY <1>1, <1>3 DEF CommandEnded
<1> QED
  BY <1>2, <1>3

\* What Lua gives back to the shell takes the frames off down to the shell's, and
\* the value reported is the one on top (luabash.c:466-479).
LEMMA DeliverNests ==
  ASSUME NEW held, NEW fs, Nested(held, fs), Words(fs), NEW value \in StackValue, Deliver(held, fs, value)
  PROVE  /\ Nested(lua_stack', frames') /\ Words(frames')
         /\ Len(frames') <= Len(fs) /\ \A i \in 1 .. Len(frames') : frames'[i] = fs[i]
         /\ reported'.seen = reported'.gave
<1> DEFINE values == Append(held, value)
<1>1. held \in Seq(StackValue)
  BY DEF Nested
<1>2. values = held \o <<value>> /\ values[Len(values)] = value /\ <<value>> \in Seq(StackValue)
  BY <1>1
<1>3. Nested(values, fs)
  BY <1>2, PushKeeps
<1>4. /\ reported'.gave = value /\ reported'.seen = values[Len(values)]
      /\ CommandEnded(values, fs, ExitStatus(values[Len(values)]))
  BY DEF Deliver
<1> HIDE DEF values
<1> QED
  BY <1>2, <1>3, <1>4, CommandEndedNests

\* A part of a sequence has elements of it.
LEMMA PartsIn ==
  ASSUME NEW S, NEW s \in Seq(S)
  PROVE  /\ Len(s) \in Nat /\ SubSeq(s, 3, Len(s)) \in Seq(S)
         /\ s # <<>> => Len(s) >= 1 /\ s[1] \in S
<1>1. Len(s) \in Nat /\ \A i \in 3 .. Len(s) : s[i] \in S
  OBVIOUS
<1>2. SubSeq(s, 3, Len(s)) \in Seq(S)
  BY <1>1, SubSeqProperties
<1>3. s # <<>> => Len(s) \in Nat \ {0} /\ s[1] \in S
  BY EmptySeq, ElementOfSeq
<1> QED
  BY <1>1, <1>2, <1>3

\* The words of a command are values of the stack.
LEMMA CommandWords ==
  ASSUME NEW words \in Commands
  PROVE  /\ words \in Seq(StackValue) /\ Len(words) \in Nat /\ Len(words) >= 1 /\ SplitAll(Tail(words)) \in Seq(StackValue)
         /\ words[1] = "luabash" => SubSeq(words, 3, Len(words)) \in Seq(StackValue)
<1> DEFINE More == {"chunk", "error", "bash.call", "luabash", "script", "true", "a", "b"}
<1>1. LuaFunction \cup Word \subseteq StackValue /\ More \subseteq StackValue
  BY DEF StackValue
<1>2. {"luabash", "script", "true", "a", "b"} \subseteq StackValue
  BY <1>1
<1>3. ASSUME NEW w \in StackValue PROVE SplitWord(w) \in Seq(StackValue)
  <2>1. <<"a", "b">> \in Seq(StackValue) /\ <<>> \in Seq(StackValue) /\ <<w>> \in Seq(StackValue)
    BY <1>2, <1>3
  <2> QED
    BY <2>1 DEF SplitWord
<1>4. ASSUME NEW w \in StackValue PROVE SplitAll(<<w>>) \in Seq(StackValue) /\ <<w>> \in Seq(StackValue)
  <2>1. SplitAll(<<w>>) = SplitWord(w)
    BY DEF SplitAll
  <2> QED
    BY <1>3, <2>1
<1>5. ASSUME NEW a \in Arguments
      PROVE  a \in Seq(StackValue) /\ Len(a) \in Nat /\ SplitAll(a) \in Seq(StackValue)
  <2>1. CASE a = <<>>
    BY <2>1 DEF SplitAll
  <2>2. CASE \E w \in Word : a = <<w>>
    BY <1>1, <1>4, <2>2
  <2> QED
    BY <2>1, <2>2 DEF Arguments
<1>6. ASSUME NEW f \in LuaFunction, NEW c \in CallsOf(f)
      PROVE  /\ c \in Seq(StackValue) /\ Len(c) \in Nat /\ Len(c) >= 1 /\ SplitAll(Tail(c)) \in Seq(StackValue)
             /\ SubSeq(c, 3, Len(c)) \in Seq(StackValue) /\ c[1] \in StackValue /\ c # <<>>
  <2>1. PICK a \in Arguments : c = <<f>> \o a
    BY DEF CallsOf
  <2>2. f \in StackValue /\ <<f>> \in Seq(StackValue) /\ a \in Seq(StackValue)
    BY <1>1, <1>4, <1>5
  <2>3. c \in Seq(StackValue) /\ Tail(c) = a /\ c # <<>>
    BY <2>1, <2>2
  <2>4. SplitAll(Tail(c)) \in Seq(StackValue)
    BY <1>5, <2>3
  <2> QED
    BY <2>3, <2>4, PartsIn
<1>7. CASE \E f \in LuaFunction : words \in CallsOf(f)
  BY <1>6, <1>7
<1>8. CASE \E f \in LuaFunction : \E c \in CallsOf(f) : words = <<"luabash">> \o c
  <2>1. PICK f \in LuaFunction : \E c \in CallsOf(f) : words = <<"luabash">> \o c
    BY <1>8
  <2>2. PICK c \in CallsOf(f) : words = <<"luabash">> \o c
    BY <2>1
  <2>3. c \in Seq(StackValue) /\ c[1] \in StackValue /\ c # <<>> /\ <<"luabash">> \in Seq(StackValue)
    BY <1>2, <1>6
  <2>4. words \in Seq(StackValue) /\ Tail(words) = c /\ words # <<>>
    BY <2>2, <2>3
  <2>5. SplitAll(c) \in Seq(StackValue)
    BY <1>3, <2>3 DEF SplitAll
  <2> QED
    BY <2>4, <2>5, PartsIn
<1>9. CASE words \in {<<"script">>, <<"true">>}
  <2>1. SplitAll(<<>>) = <<>>
    BY DEF SplitAll
  <2>2. PICK w \in {"script", "true"} : words = <<w>>
    BY <1>9
  <2>3. words \in Seq(StackValue) /\ words # <<>> /\ Tail(words) = <<>>
    BY <1>2, <2>2
  <2>4. SplitAll(Tail(words)) \in Seq(StackValue)
    BY <2>1, <2>3, EmptySeq
  <2> QED
    BY <2>3, <2>4, PartsIn
<1> QED
  <2>1. \/ words \in {<<"script">>, <<"true">>}
        \/ \E f \in LuaFunction : words \in CallsOf(f) \cup {<<"luabash">> \o c : c \in CallsOf(f)}
    <3> HIDE DEF CallsOf
    <3> QED
      BY DEF Commands
  <2> QED
    BY <1>7, <1>8, <1>9, <2>1

\* The builtin keeps the invariant, whatever the shell is in.
LEMMA CallFunctionNests ==
  ASSUME BashInv, NEW f, NEW given \in Seq(StackValue), call_function(f, given),
         initialized' = initialized, defined' = defined
  PROVE  BashInv'
<1>1. Nested(lua_stack, frames) /\ Words(frames) /\ lua_stack \in Seq(StackValue)
      /\ frames \in Seq({Bash} \cup CallFrame) /\ Len(frames) \in Nat /\ Len(lua_stack) \in Nat
  BY DEF BashInv, Nested
<1>2. CASE initialized /\ f \in defined
  <2> DEFINE fr == LuaFrame(f, lua_gettop + 1, given)
  <2>1. /\ lua_stack' = lua_stack \o <<f>> \o given /\ frames' = Append(frames, fr) /\ reported' = reported
    BY <1>2 DEF call_function
  <2>2. /\ fr \in CallFrame /\ fr.func = Len(lua_stack) + 1 /\ fr.f = f /\ fr.args = given /\ f \in StackValue
        /\ fr.k = "lua"
    BY <1>1, <1>2 DEF LuaFrame, CallFrame, BashInv, Functions, lua_gettop, StackValue
  <2> HIDE DEF fr
  <2>3. Nested(lua_stack', frames')
    BY <1>1, <2>1, <2>2, CallNests
  <2>4. Words(frames')
    <3>1. \A i \in 1 .. Len(frames') : (i \in 1 .. Len(frames) /\ frames'[i] = frames[i]) \/ frames'[i] = fr
      BY <1>1, <2>1
    <3> QED
      BY <1>1, <2>2, <3>1 DEF Words
  <2> QED
    BY <1>2, <2>1, <2>3, <2>4 DEF BashInv
<1>3. CASE initialized /\ f \notin defined
  <2>1. Deliver(lua_stack, frames, "error") /\ "error" \in StackValue
    BY <1>3 DEF call_function, StackValue
  <2>2. Nested(lua_stack', frames') /\ Words(frames') /\ reported'.seen = reported'.gave
    BY <1>1, <2>1, DeliverNests
  <2> QED
    BY <1>3, <2>2 DEF BashInv
<1>4. CASE ~initialized
  <2>1. CommandEnded(lua_stack, frames, EXECUTION_FAILURE) /\ reported' = reported
    BY <1>4 DEF call_function
  <2>2. /\ Nested(lua_stack', frames') /\ Words(frames')
        /\ Len(frames') <= Len(frames) /\ \A i \in 1 .. Len(frames') : frames'[i] = frames[i]
    BY <1>1, <2>1, CommandEndedNests
  <2>3. Len(frames') \in Nat
    BY <2>2 DEF Nested
  <2>4. \A i \in 1 .. Len(frames') : i \in 1 .. Len(frames)
    BY <1>1, <2>2, <2>3
  <2> QED
    BY <1>4, <2>1, <2>2, <2>4 DEF BashInv
<1> QED
  BY <1>2, <1>3, <1>4

\* A command of the shell keeps the invariant, whatever it calls.
LEMMA CommandNests ==
  ASSUME BashInv, NEW words \in Commands, execute_command(words)
  PROVE  BashInv'
<1>1. Nested(lua_stack, frames) /\ Words(frames)
      /\ frames \in Seq({Bash} \cup CallFrame) /\ Len(frames) \in Nat /\ Len(frames) >= 1
  BY DEF BashInv, Nested
<1>2. UNCHANGED <<initialized, defined>>
  BY DEF execute_command
<1>3. CASE words[1] \in bash_function /\ call_function(words[1], SplitAll(Tail(words)))
  BY <1>2, <1>3, CallFunctionNests, CommandWords
<1>4. CASE words[1] = "luabash" /\ call_function(words[2], SubSeq(words, 3, Len(words)))
  BY <1>2, <1>4, CallFunctionNests, CommandWords
<1>5. CASE frames' = Append(frames, Bash) /\ UNCHANGED <<lua_stack, reported>>
  <2>1. /\ frames' \in Seq({Bash} \cup CallFrame) /\ Len(frames') = Len(frames) + 1
        /\ \A i \in 1 .. Len(frames') : frames'[i] # Bash => i \in 1 .. Len(frames) /\ frames'[i] = frames[i]
        /\ frames'[1] = frames[1]
    BY <1>1, <1>5
  <2>2. Bash.k # "call"
    BY DEF Bash
  <2>3. Words(frames')
    BY <1>1, <2>1, <2>2 DEF Words
  <2>4. Nested(lua_stack', frames')
    BY <1>1, <1>5, <2>1 DEF Nested
  <2> QED
    BY <1>2, <1>5, <2>1, <2>3, <2>4 DEF BashInv
<1>6. CASE CommandEnded(lua_stack, frames, EXECUTION_SUCCESS) /\ UNCHANGED reported
  <2>2. /\ Nested(lua_stack', frames') /\ Words(frames')
        /\ Len(frames') <= Len(frames) /\ \A i \in 1 .. Len(frames') : frames'[i] = frames[i]
    BY <1>1, <1>6, CommandEndedNests
  <2>3. Len(frames') \in Nat
    BY <2>2 DEF Nested
  <2>4. \A i \in 1 .. Len(frames') : i \in 1 .. Len(frames)
    BY <1>1, <2>2, <2>3
  <2> QED
    BY <1>2, <1>6, <2>2, <2>4 DEF BashInv
<1> QED
  BY <1>3, <1>4, <1>5, <1>6 DEF execute_command

\* Every step of the shell or of Lua keeps the invariant.
LEMMA BashStep ==
  ASSUME BashInv, LuaBashNext
  PROVE  BashInv'
<1>1. /\ Nested(lua_stack, frames) /\ Words(frames) /\ initialized \in BOOLEAN /\ defined \subseteq LuaFunction
      /\ lua_stack \in Seq(StackValue) /\ Len(lua_stack) \in Nat
      /\ (\E i \in 1 .. Len(frames) : frames[i] # Bash) => initialized
      /\ frames \in Seq({Bash} \cup CallFrame) /\ Len(frames) \in Nat /\ Len(frames) >= 1
      /\ frames[1] = Bash /\ Len(frames) \in 1 .. Len(frames) /\ Innermost \in {Bash} \cup CallFrame
      /\ reported.seen = reported.gave
  BY DEF BashInv, Nested, Innermost
<1>2. ASSUME UNCHANGED <<lua_stack, frames, reported>>, initialized' \in BOOLEAN, initialized => initialized', defined' \subseteq LuaFunction
      PROVE  BashInv'
  <2>1. lua_stack' = lua_stack /\ frames' = frames /\ reported' = reported
    BY <1>2
  <2>2. (\E i \in 1 .. Len(frames') : frames'[i] # Bash) => initialized'
    BY <1>1, <1>2, <2>1
  <2>3. Nested(lua_stack', frames') /\ Words(frames')
    BY <1>1, <2>1
  <2> QED
    BY <1>1, <1>2, <2>1, <2>2, <2>3 DEF BashInv
<1>3. CASE init_luabash
  BY <1>1, <1>2, <1>3 DEF init_luabash
<1>4. CASE load_chunk
  <2>1. initialized' = TRUE /\ defined' = defined /\ reported' = reported
    BY <1>4 DEF load_chunk
  <2>2. CASE lua_stack' = Append(lua_stack, "error") /\ UNCHANGED frames
    <3>1. lua_stack' = lua_stack \o <<"error">> /\ <<"error">> \in Seq(StackValue)
      BY <1>1, <2>2 DEF StackValue
    <3>2. Nested(lua_stack', frames')
      BY <1>1, <2>2, <3>1, PushKeeps
    <3> QED
      BY <1>1, <2>1, <2>2, <3>2 DEF BashInv
  <2>3. CASE lua_stack' = Append(lua_stack, "chunk") /\ frames' = Append(frames, LuaFrame("chunk", lua_gettop + 1, <<>>))
    <3> DEFINE fr == LuaFrame("chunk", lua_gettop + 1, <<>>)
    <3>1. /\ fr \in CallFrame /\ fr.func = Len(lua_stack) + 1 /\ fr.f = "chunk" /\ fr.args = <<>>
          /\ fr.k = "lua" /\ "chunk" \in StackValue
      BY <1>1 DEF LuaFrame, CallFrame, Functions, lua_gettop, StackValue
    <3>2. frames' = Append(frames, fr)
      BY <2>3
    <3> HIDE DEF fr
    <3>3. lua_stack' = lua_stack \o <<fr.f>> \o fr.args
      BY <1>1, <2>3, <3>1
    <3>4. Nested(lua_stack', frames')
      BY <1>1, <3>1, <3>2, <3>3, CallNests
    <3>5. \A i \in 1 .. Len(frames') : (i \in 1 .. Len(frames) /\ frames'[i] = frames[i]) \/ frames'[i] = fr
      BY <1>1, <3>2
    <3> QED
      BY <1>1, <2>1, <3>1, <3>4, <3>5 DEF BashInv, Words
  <2> QED
    BY <1>4, <2>2, <2>3 DEF load_chunk
<1>5. CASE ShellCommand
  BY <1>5, CommandNests DEF ShellCommand
<1>6. CASE ShellReturn
  <2>1. PICK rc \in {EXECUTION_SUCCESS, EXECUTION_FAILURE} : CommandEnded(lua_stack, Outer(1), rc)
    BY <1>6 DEF ShellReturn
  <2>2. Len(frames) > 1 /\ UNCHANGED <<initialized, defined, reported>>
    BY <1>6 DEF ShellReturn
  <2>3. Outer(1) = SubSeq(frames, 1, Len(frames) - 1)
    BY DEF Outer
  <2>4. /\ Nested(lua_stack, Outer(1)) /\ Len(Outer(1)) = Len(frames) - 1
        /\ \A i \in 1 .. Len(Outer(1)) : Outer(1)[i] = frames[i] /\ i \in 1 .. Len(frames)
    <3>1. Nested(lua_stack, Outer(1))
      BY <1>1, <2>2, <2>3, ReturnNests
    <3> QED
      BY <1>1, <2>2, <2>3, <3>1
  <2>5. Words(Outer(1))
    BY <1>1, <2>4 DEF Words
  <2>6. /\ Nested(lua_stack', frames') /\ Words(frames')
        /\ Len(frames') <= Len(Outer(1)) /\ \A i \in 1 .. Len(frames') : frames'[i] = Outer(1)[i]
    BY <2>1, <2>4, <2>5, CommandEndedNests
  <2>7. Len(frames') \in Nat
    BY <2>6 DEF Nested
  <2>8. \A i \in 1 .. Len(frames') : frames'[i] = frames[i] /\ i \in 1 .. Len(frames)
    BY <1>1, <2>4, <2>6, <2>7
  <2> QED
    BY <1>1, <2>2, <2>6, <2>8 DEF BashInv
<1>7. CASE RunList
  <2>1. Innermost.args \in Commands
    BY <1>1, <1>7 DEF RunList, Running, Words, Innermost
  <2> QED
    BY <1>7, <2>1, CommandNests DEF RunList
<1>8. ASSUME NEW f \in LuaFunction, Define(f) \/ register_function(f) PROVE BashInv'
  BY <1>1, <1>2, <1>8 DEF Define, register_function
<1>9. ASSUME NEW v \in BashVar, NEW w \in Word, set_variable(v, w) PROVE BashInv'
  BY <1>1, <1>2, <1>9 DEF set_variable
<1>10. ASSUME NEW words \in Commands, call_bashfunction(words) PROVE BashInv'
  <2> DEFINE fr == Call(lua_gettop + 1, words)
  <2>1. /\ lua_stack' = lua_stack \o <<"bash.call">> \o words /\ frames' = Append(frames, fr)
        /\ UNCHANGED <<initialized, defined, reported>> /\ Innermost.k = "lua"
    BY <1>10 DEF call_bashfunction, Running, Innermost
  <2>2. words \in Seq(StackValue)
    BY CommandWords
  <2>3. /\ fr \in CallFrame /\ fr.func = Len(lua_stack) + 1 /\ fr.f = "bash.call" /\ fr.args = words
        /\ "bash.call" \in StackValue
    BY <1>1, <2>2 DEF Call, CallFrame, Functions, lua_gettop, StackValue
  <2> HIDE DEF fr
  <2>4. Nested(lua_stack', frames')
    BY <1>1, <2>1, <2>3, CallNests
  <2>5. \A i \in 1 .. Len(frames') : (i \in 1 .. Len(frames) /\ frames'[i] = frames[i]) \/ frames'[i] = fr
    BY <1>1, <2>1
  <2>6. Innermost # Bash
    BY <2>1 DEF Bash
  <2>7. initialized
    BY <1>1, <2>6 DEF Innermost
  <2> QED
    BY <1>1, <2>1, <2>3, <2>4, <2>5, <2>7 DEF BashInv, Words
<1>11. ASSUME NEW value \in Result \cup {"error"}, BashReturn(value) PROVE BashInv'
  <2>1. Innermost.k = "lua" /\ UNCHANGED <<initialized, defined>> /\ value \in StackValue
    BY <1>11 DEF BashReturn, Running, Innermost, StackValue
  <2>2. Innermost # Bash
    BY <2>1 DEF Bash
  <2>3. Len(frames) > 1 /\ initialized
    BY <1>1, <2>2 DEF Innermost
  <2>4. Outer(1) = SubSeq(frames, 1, Len(frames) - 1) /\ Under(Innermost) = SubSeq(lua_stack, 1, Innermost.func - 1)
    BY DEF Outer, Under
  <2>5. /\ Nested(Under(Innermost), Outer(1)) /\ Len(Outer(1)) = Len(frames) - 1
        /\ \A i \in 1 .. Len(Outer(1)) : Outer(1)[i] = frames[i] /\ i \in 1 .. Len(frames)
    <3>1. Nested(Under(Innermost), Outer(1))
      BY <1>1, <2>2, <2>3, <2>4, ReturnNests DEF Innermost
    <3> QED
      BY <1>1, <2>3, <2>4, <3>1
  <2>6. Words(Outer(1))
    BY <1>1, <2>5 DEF Words
  <2>7. CASE Innermost.f = "chunk"
    <3>1. /\ lua_stack' = IF value = "error" THEN Append(Under(Innermost), value) ELSE Under(Innermost)
          /\ frames' = Outer(1) /\ reported' = reported
      BY <1>11, <2>7 DEF BashReturn
    <3>2. Under(Innermost) \in Seq(StackValue)
      BY <2>5 DEF Nested
    <3>3. Append(Under(Innermost), value) = Under(Innermost) \o <<value>> /\ <<value>> \in Seq(StackValue)
      BY <2>1, <3>2
    <3>4. Nested(lua_stack', frames')
      BY <2>5, <3>1, <3>3, PushKeeps
    <3> QED
      BY <1>1, <2>1, <2>3, <2>6, <3>1, <3>4 DEF BashInv
  <2>8. CASE Innermost.f # "chunk"
    <3>1. Deliver(Under(Innermost), Outer(1), value)
      BY <1>11, <2>8 DEF BashReturn
    <3>2. Nested(lua_stack', frames') /\ Words(frames') /\ reported'.seen = reported'.gave
      BY <2>1, <2>5, <2>6, <3>1, DeliverNests
    <3> QED
      BY <1>1, <2>1, <2>3, <3>2 DEF BashInv
  <2> QED
    BY <2>7, <2>8
<1> QED
  BY <1>3, <1>4, <1>5, <1>6, <1>7, <1>8, <1>9, <1>10, <1>11 DEF LuaBashNext

\* However deeply the shell and Lua call each other, the arguments of every call
\* in progress stay where they are on the one Lua stack, above those of the calls
\* before, and the status of a call is made of its own result.
THEOREM BridgeHolds == LuaBashSpec => []BridgeRight
<1>1. LuaBashInit => BashInv
  <2> SUFFICES ASSUME LuaBashInit PROVE BashInv
    OBVIOUS
  <2>1. frames = <<Bash>> /\ lua_stack = <<>> /\ initialized = FALSE /\ defined = {}
        /\ reported.seen = "none" /\ reported.gave = "none"
    BY DEF LuaBashInit
  <2>2. frames \in Seq({Bash} \cup CallFrame) /\ Len(frames) = 1 /\ frames[1] = Bash /\ lua_stack \in Seq(StackValue)
    BY <2>1
  <2>3. Nested(lua_stack, frames) /\ Words(frames)
    BY <2>2 DEF Nested, Words, Bash
  <2> QED
    <3>1. (\E i \in 1 .. Len(frames) : frames[i] # Bash) => initialized
      BY <2>2
    <3> QED
      BY <2>1, <2>3, <3>1 DEF BashInv
<1>2. BashInv /\ [LuaBashNext]_lua_bash_vars => BashInv'
  <2>1. ASSUME BashInv, UNCHANGED lua_bash_vars PROVE BashInv'
    BY <2>1 DEF BashInv, lua_bash_vars
  <2> QED
    BY <2>1, BashStep
<1>3. BashInv => BridgeRight
  <2> SUFFICES ASSUME BashInv PROVE BridgeRight
    OBVIOUS
  <2>1. /\ frames \in Seq({Bash} \cup CallFrame) /\ lua_stack \in Seq(StackValue)
        /\ Len(frames) \in Nat /\ DOMAIN frames = 1 .. Len(frames) /\ Len(lua_stack) \in Nat
        /\ \A i \in 1 .. Len(frames) : frames[i] # Bash => Holds(lua_stack, frames[i])
        /\ \A i, j \in 1 .. Len(frames) : i < j /\ frames[i] # Bash /\ frames[j] # Bash => EndOf(frames[i]) < frames[j].func
        /\ \A i \in 1 .. Len(frames) : frames[i] \in {Bash} \cup CallFrame
        /\ \A i \in 1 .. Len(frames) : frames[i] # Bash <=> frames[i].k # "bash"
    <3>1. /\ frames \in Seq({Bash} \cup CallFrame) /\ lua_stack \in Seq(StackValue)
          /\ \A i \in 1 .. Len(frames) : frames[i] \in {Bash} \cup CallFrame
      BY DEF BashInv, Nested
    <3>2. ASSUME NEW i \in 1 .. Len(frames) PROVE frames[i] # Bash <=> frames[i].k # "bash"
      BY <3>1, FrameKind
    <3>3. /\ Len(frames) \in Nat /\ DOMAIN frames = 1 .. Len(frames) /\ Len(lua_stack) \in Nat
      BY <3>1
    <3>4. /\ \A i \in 1 .. Len(frames) : frames[i] # Bash => Holds(lua_stack, frames[i])
          /\ \A i, j \in 1 .. Len(frames) : i < j /\ frames[i] # Bash /\ frames[j] # Bash => EndOf(frames[i]) < frames[j].func
      BY DEF BashInv, Nested
    <3> QED
      BY <3>1, <3>2, <3>3, <3>4
  <2>2. ASSUME NEW i \in DOMAIN frames, frames[i].k # "bash"
        PROVE  SubSeq(lua_stack, frames[i].func, frames[i].func + Len(frames[i].args)) = <<frames[i].f>> \o frames[i].args
    <3> DEFINE fr == frames[i]
    <3>1. fr \in {Bash} \cup CallFrame /\ fr # Bash /\ Holds(lua_stack, fr)
      BY <2>1, <2>2
    <3> HIDE DEF fr
    <3>2. fr.func \in Nat \ {0} /\ fr.args \in Seq(StackValue) /\ Len(fr.args) \in Nat
      BY <3>1, FrameKind
    <3> DEFINE here == SubSeq(lua_stack, fr.func, fr.func + Len(fr.args))
               said == <<fr.f>> \o fr.args
    <3>3. /\ here \in Seq(StackValue) /\ Len(here) = Len(fr.args) + 1
          /\ \A a \in 1 .. Len(fr.args) + 1 : here[a] = lua_stack[fr.func + a - 1]
      <4> DEFINE m == fr.func
                 n == Len(fr.args)
      <4>1. m \in Nat \ {0} /\ n \in Nat /\ m + n <= Len(lua_stack)
        BY <3>1, <3>2 DEF Holds, EndOf
      <4>2. here = SubSeq(lua_stack, m, m + n)
        OBVIOUS
      <4> HIDE DEF m, n, here
      <4>3. here \in Seq(StackValue) /\ Len(here) = n + 1 /\ \A a \in 1 .. n + 1 : here[a] = lua_stack[m + a - 1]
        BY <2>1, <4>1, <4>2, SubSeqProperties
      <4> QED
        BY <4>3 DEF m, n
    <3>4. fr.f \in {fr.f} \cup StackValue /\ fr.args \in Seq({fr.f} \cup StackValue)
      BY <3>2
    <3>5. /\ said \in Seq({fr.f} \cup StackValue) /\ Len(said) = Len(fr.args) + 1
          /\ said[1] = fr.f /\ \A a \in 1 .. Len(fr.args) : said[a + 1] = fr.args[a]
      BY <3>2, <3>4
    <3> HIDE DEF here, said
    <3>6. ASSUME NEW a \in 1 .. Len(fr.args) + 1 PROVE here[a] = said[a]
      <4>1. CASE a = 1
        <5>1. fr.func + a - 1 = fr.func
          BY <3>2, <4>1
        <5> QED
          BY <3>1, <3>3, <3>5, <4>1, <5>1 DEF Holds
      <4>2. CASE a # 1
        <5>1. a - 1 \in 1 .. Len(fr.args) /\ fr.func + a - 1 = fr.func + (a - 1) /\ (a - 1) + 1 = a
          BY <3>2, <4>2
        <5>2. lua_stack[fr.func + (a - 1)] = fr.args[a - 1]
          BY <3>1, <5>1 DEF Holds
        <5>3. said[(a - 1) + 1] = fr.args[a - 1]
          BY <3>5, <5>1
        <5> QED
          BY <3>3, <5>1, <5>2, <5>3
      <4> QED
        BY <4>1, <4>2
    <3>7. here = said
      <4>1. DOMAIN here = 1 .. Len(fr.args) + 1 /\ DOMAIN said = 1 .. Len(fr.args) + 1
        BY <3>2, <3>3, <3>5
      <4>2. here = [a \in DOMAIN here |-> here[a]] /\ said = [a \in DOMAIN said |-> said[a]]
        BY <3>3, <3>5
      <4> QED
        BY <3>6, <4>1, <4>2
    <3> QED
      BY <3>7 DEF here, said, fr
  <2>3. ArgumentsStay
    BY <2>2 DEF ArgumentsStay
  <2>4. ResultIsOwn
    BY DEF BashInv, ResultIsOwn
  <2>5. CallsNest
    <3>1. \A i \in 1 .. Len(frames) - 1 : \A j \in i + 1 .. Len(frames) :
            frames[i].k # "bash" /\ frames[j].k # "bash" => frames[i].func + Len(frames[i].args) < frames[j].func
      BY <2>1 DEF EndOf
    <3>2. \A i \in DOMAIN frames : frames[i].k # "bash" => initialized
      BY <2>1 DEF BashInv
    <3> QED
      BY <3>1, <3>2 DEF CallsNest
  <2> QED
    BY <2>3, <2>4, <2>5 DEF BridgeRight
<1> QED
  BY <1>1, <1>2, <1>3, PTL DEF LuaBashSpec

-----------------------------------------------------------------------------
(* Calls, errors and coroutines of Lua.                                    *)

\* The frames of a thread's calls: a function of Lua or of C, a protected call,
\* and on top of one that does not run what it waits for.
CallBody == {LuaFn, C} \cup [k : {"pcall"}, handler : Handler \cup {0}, nCcalls : Nat, errfunc : Handler \cup {0}]
Tops == {[k |-> "resume", wrap |-> w] : w \in BOOLEAN} \cup {[k |-> "yield"]}
IsTop(fr) == fr.k \in {"resume", "yield"}
Waits(fr) == fr.k \in {"C", "pcall"}

\* The C functions that wait among the first n calls, and the error function of
\* the latest protected one of these.
CallsIn(s, n) == Cardinality({i \in 1 .. n : s[i].k \in {"C", "pcall"}})
HandlerIs(s, n, h) ==
  \/ h = 0 /\ \A i \in 1 .. n : s[i].k # "pcall"
  \/ \E i \in 1 .. n : s[i].k = "pcall" /\ s[i].handler = h /\ \A j \in i + 1 .. n : s[j].k # "pcall"

\* The calls in progress of a thread: every second one at least is of Lua, and a
\* protected call remembers what was counted under it.
FirstCall(th, s) ==
  IF th = MainThread THEN s # <<>> /\ s[1] = [k |-> "pcall", handler |-> 0, nCcalls |-> 0, errfunc |-> 0]
                     ELSE s # <<>> => s[1] = LuaFn
Frames(th, s) ==
  /\ s \in Seq(CallBody \cup Tops)
  /\ FirstCall(th, s)
  /\ \A i \in 1 .. Len(s) - 1 : s[i] \in CallBody /\ (s[i] # LuaFn => s[i + 1] = LuaFn)
  /\ \A i \in 1 .. Len(s) : s[i].k = "pcall" =>
       s[i].nCcalls = CallsIn(s, i - 1) /\ s[i].nCcalls < LUAI_MAXCCALLS /\ HandlerIs(s, i - 1, s[i].errfunc)

\* What the thread has counted, and its error function.  (Between two functions
\* the main thread has counted nothing.)
Counted(th, s) == IF th = MainThread /\ Len(s) = 1 THEN 0 ELSE CallsIn(s, Len(s))
Agrees(th, s, n, e) == Frames(th, s) /\ n = Counted(th, s) /\ HandlerIs(s, Len(s), e)

\* A thread at whose top a function of Lua runs, or the main thread between two.
Ready(th, s) == s # <<>> /\ s[Len(s)] \in CallBody /\ (s[Len(s)] = LuaFn \/ (th = MainThread /\ Len(s) = 1))

CallTypes ==
  /\ created \subseteq Co /\ fresh \subseteq created
  /\ co_status \in [Thread -> {"ok", "yield", "error"}] /\ nCcalls \in [Thread -> Nat]
  /\ errfunc \in [Thread -> Handler \cup {0}] /\ thrown \in {NoError, 0} \cup Handler
  /\ ci \in [Thread -> Seq(CallBody \cup Tops)]
  /\ running \in Seq(Thread) /\ running # <<>> /\ running[1] = MainThread
  /\ \A i \in 2 .. Len(running) : running[i] \in created
  /\ \A i, j \in 1 .. Len(running) : running[i] = running[j] => i = j

IsRunning(th) == \E i \in 1 .. Len(running) : running[i] = th

\* A thread that waits for the one it has resumed, and one that does not run.
WaitsForResume(th) == co_status[th] = "ok" /\ Len(ci[th]) > 1 /\ \E w \in BOOLEAN : ci[th][Len(ci[th])] = Resume(w)
Rests(th) == \/ co_status[th] = "ok" /\ ci[th] = <<>>
             \/ /\ co_status[th] = "yield" /\ th \in created \ fresh /\ nCcalls[th] = 0
                /\ Len(ci[th]) > 1 /\ ci[th][Len(ci[th])] = [k |-> "yield"]
             \/ co_status[th] = "error" /\ th \in created \ fresh

CallInv ==
  /\ CallTypes
  /\ \A th \in Thread : co_status[th] # "error" =>
       /\ Agrees(th, ci[th], nCcalls[th], errfunc[th])
       /\ nCcalls[th] >= LUAI_MAXCCALLS => th = L /\ thrown # NoError
  /\ \A i \in 1 .. Len(running) - 1 : WaitsForResume(running[i])
  /\ /\ co_status[L] = "ok" /\ ci[L] # <<>> /\ ci[L][Len(ci[L])] \in CallBody
     /\ thrown = NoError => Ready(L, ci[L])
  /\ \A th \in Thread : ~IsRunning(th) => Rests(th)
  /\ \A co \in fresh : ci[co] = <<>> /\ ~IsRunning(co)
  /\ thrown # NoError => thrown = errfunc[L]
  /\ catch.by = catch.at

\* The frames by their kinds.
LEMMA BodyKinds ==
  ASSUME NEW fr \in CallBody \cup Tops
  PROVE  /\ fr \in Tops <=> fr.k \in {"resume", "yield"}
         /\ fr = LuaFn <=> fr.k = "lua"
         /\ fr = C <=> fr.k = "C"
         /\ fr \in CallBody <=> fr.k \in {"lua", "C", "pcall"}
         /\ fr.k = "pcall" => fr.handler \in Handler \cup {0} /\ fr.nCcalls \in Nat /\ fr.errfunc \in Handler \cup {0}
<1> DEFINE P == [k : {"pcall"}, handler : Handler \cup {0}, nCcalls : Nat, errfunc : Handler \cup {0}]
<1>1. CASE fr \in Tops
  <2>1. fr.k \in {"resume", "yield"}
    BY <1>1 DEF Tops
  <2> QED
    BY <2>1 DEF CallBody, LuaFn, C
<1>2. CASE fr = LuaFn \/ fr = C
  BY <1>2 DEF CallBody, LuaFn, C, Tops
<1>3. CASE fr \in P
  <2>1. fr.k = "pcall" /\ fr.handler \in Handler \cup {0} /\ fr.nCcalls \in Nat /\ fr.errfunc \in Handler \cup {0}
    BY <1>3
  <2> QED
    BY <1>3, <2>1 DEF CallBody, LuaFn, C, Tops
<1> QED
  BY <1>1, <1>2, <1>3 DEF CallBody

\* Counting one call more.
LEMMA CallsInStep ==
  ASSUME NEW s, NEW n \in Nat
  PROVE  /\ CallsIn(s, 0) = 0 /\ CallsIn(s, n) \in Nat
         /\ Waits(s[n + 1]) => CallsIn(s, n + 1) = CallsIn(s, n) + 1
         /\ ~Waits(s[n + 1]) => CallsIn(s, n + 1) = CallsIn(s, n)
         /\ CallsIn(s, n) = 0 => \A i \in 1 .. n : ~Waits(s[i])
<1> DEFINE W(m) == {i \in 1 .. m : Waits(s[i])}
<1>1. ASSUME NEW m \in Nat PROVE IsFiniteSet(W(m)) /\ CallsIn(s, m) = Cardinality(W(m))
  <2>1. IsFiniteSet(1 .. m) /\ W(m) \in SUBSET (1 .. m)
    BY FS_Interval
  <2>2. CallsIn(s, m) = Cardinality(W(m))
    BY DEF CallsIn, Waits
  <2> HIDE DEF W
  <2> QED
    BY <2>1, <2>2, FS_Subset
<1>2. W(0) = {}
  OBVIOUS
<1>3. Waits(s[n + 1]) => W(n + 1) = W(n) \cup {n + 1}
  OBVIOUS
<1>4. ~Waits(s[n + 1]) => W(n + 1) = W(n)
  OBVIOUS
<1>5. n + 1 \notin W(n)
  OBVIOUS
<1>6. \A i \in 1 .. n : Waits(s[i]) => i \in W(n)
  OBVIOUS
<1> HIDE DEF W
<1>7. CallsIn(s, 0) = 0 /\ CallsIn(s, n) \in Nat
  BY <1>1, <1>2, FS_EmptySet, FS_CardinalityType
<1>8. Waits(s[n + 1]) => CallsIn(s, n + 1) = CallsIn(s, n) + 1
  <2>1. Cardinality(W(n) \cup {n + 1}) = Cardinality(W(n)) + 1
    BY <1>1, <1>5, FS_AddElement
  <2>2. CallsIn(s, n) = Cardinality(W(n)) /\ CallsIn(s, n + 1) = Cardinality(W(n + 1))
    BY <1>1
  <2> QED
    BY <1>3, <2>1, <2>2
<1>9. ~Waits(s[n + 1]) => CallsIn(s, n + 1) = CallsIn(s, n)
  <2>2. CallsIn(s, n) = Cardinality(W(n)) /\ CallsIn(s, n + 1) = Cardinality(W(n + 1))
    BY <1>1
  <2> QED
    BY <1>4, <2>2
<1>10. CallsIn(s, n) = 0 => \A i \in 1 .. n : ~Waits(s[i])
  BY <1>1, <1>6, FS_EmptySet
<1> QED
  BY <1>7, <1>8, <1>9, <1>10

\* The count and the error function depend on the first n frames alone.
LEMMA CallsInSame ==
  ASSUME NEW s, NEW t, NEW n \in Nat, \A i \in 1 .. n : s[i] = t[i]
  PROVE  CallsIn(s, n) = CallsIn(t, n) /\ \A h : HandlerIs(s, n, h) <=> HandlerIs(t, n, h)
<1>1. {i \in 1 .. n : s[i].k \in {"C", "pcall"}} = {i \in 1 .. n : t[i].k \in {"C", "pcall"}}
  OBVIOUS
<1>2. ASSUME NEW h PROVE HandlerIs(s, n, h) <=> HandlerIs(t, n, h)
  BY DEF HandlerIs
<1> QED
  BY <1>1, <1>2 DEF CallsIn

\* The error function with one call more.
LEMMA HandlerStep ==
  ASSUME NEW s, NEW n \in Nat, NEW h
  PROVE  /\ HandlerIs(s, 0, h) <=> h = 0
         /\ s[n + 1].k # "pcall" => (HandlerIs(s, n, h) <=> HandlerIs(s, n + 1, h))
         /\ s[n + 1].k = "pcall" => (HandlerIs(s, n + 1, h) <=> h = s[n + 1].handler)
<1>1. HandlerIs(s, 0, h) <=> h = 0
  BY DEF HandlerIs
<1>2. ASSUME s[n + 1].k # "pcall", HandlerIs(s, n, h) PROVE HandlerIs(s, n + 1, h)
  BY <1>2 DEF HandlerIs
<1>3. ASSUME s[n + 1].k # "pcall", HandlerIs(s, n + 1, h) PROVE HandlerIs(s, n, h)
  BY <1>3 DEF HandlerIs
<1>4. ASSUME s[n + 1].k = "pcall", HandlerIs(s, n + 1, h) PROVE h = s[n + 1].handler
  BY <1>4 DEF HandlerIs
<1>5. ASSUME s[n + 1].k = "pcall", h = s[n + 1].handler PROVE HandlerIs(s, n + 1, h)
  BY <1>5 DEF HandlerIs
<1> QED
  BY <1>1, <1>2, <1>3, <1>4, <1>5

\* A call more, on top.
LEMMA FramesPush ==
  ASSUME NEW th, NEW s, Frames(th, s), s # <<>>, s[Len(s)] \in CallBody,
         NEW fr \in CallBody \cup Tops, s[Len(s)] = LuaFn \/ fr = LuaFn,
         fr.k = "pcall" => /\ fr.nCcalls = CallsIn(s, Len(s)) /\ fr.nCcalls < LUAI_MAXCCALLS
                           /\ HandlerIs(s, Len(s), fr.errfunc)
  PROVE  /\ Frames(th, Append(s, fr)) /\ Len(Append(s, fr)) = Len(s) + 1
         /\ Append(s, fr)[Len(s) + 1] = fr
         /\ CallsIn(Append(s, fr), Len(s) + 1) = IF Waits(fr) THEN CallsIn(s, Len(s)) + 1 ELSE CallsIn(s, Len(s))
         /\ \A h : HandlerIs(Append(s, fr), Len(s) + 1, h)
                     <=> IF fr.k = "pcall" THEN h = fr.handler ELSE HandlerIs(s, Len(s), h)
<1> DEFINE t == Append(s, fr)
           n == Len(s)
<1>1. s \in Seq(CallBody \cup Tops) /\ n \in Nat /\ n >= 1
  BY DEF Frames
<1>2. /\ t \in Seq(CallBody \cup Tops) /\ Len(t) = n + 1 /\ t[n + 1] = fr /\ t # <<>>
      /\ \A i \in 1 .. n : t[i] = s[i]
  BY <1>1
<1>3. /\ FirstCall(th, s) /\ n \in 1 .. n /\ s[n] \in CallBody /\ (s[n] # LuaFn => fr = LuaFn)
      /\ \A i \in 1 .. n - 1 : s[i] \in CallBody /\ (s[i] # LuaFn => s[i + 1] = LuaFn)
      /\ \A i \in 1 .. n : s[i].k = "pcall" =>
            s[i].nCcalls = CallsIn(s, i - 1) /\ s[i].nCcalls < LUAI_MAXCCALLS /\ HandlerIs(s, i - 1, s[i].errfunc)
  BY <1>1 DEF Frames
<1> HIDE DEF t, n
<1>4. \A m \in 0 .. n : CallsIn(t, m) = CallsIn(s, m) /\ \A h : HandlerIs(t, m, h) <=> HandlerIs(s, m, h)
  <2> TAKE m \in 0 .. n
  <2>1. m \in Nat /\ \A i \in 1 .. m : s[i] = t[i]
    BY <1>1, <1>2
  <2> QED
    BY <2>1, CallsInSame
<1>5. n \in 0 .. n /\ \A i \in 1 .. n : i - 1 \in 0 .. n
  BY <1>1
<1>6. CallsIn(t, n + 1) = IF Waits(fr) THEN CallsIn(s, n) + 1 ELSE CallsIn(s, n)
  BY <1>1, <1>2, <1>4, <1>5, CallsInStep
<1>7. ASSUME NEW h PROVE HandlerIs(t, n + 1, h) <=> IF fr.k = "pcall" THEN h = fr.handler ELSE HandlerIs(s, n, h)
  BY <1>1, <1>2, <1>4, <1>5, HandlerStep
<1>8. FirstCall(th, t)
  <2>1. t[1] = s[1] /\ s # <<>>
    BY <1>1, <1>2
  <2> QED
    <3>1. CASE th = MainThread
      BY <1>2, <1>3, <2>1, <3>1 DEF FirstCall
    <3>2. CASE th # MainThread
      BY <1>2, <1>3, <2>1, <3>2 DEF FirstCall
    <3> QED
      BY <3>1, <3>2
<1>9. ASSUME NEW i \in 1 .. Len(t) - 1 PROVE t[i] \in CallBody /\ (t[i] # LuaFn => t[i + 1] = LuaFn)
  <2>1. CASE i = n
    <3>1. t[i] = s[n] /\ t[i + 1] = fr
      BY <1>1, <1>2, <1>3, <2>1
    <3>2. s[n] \in CallBody /\ (s[n] # LuaFn => fr = LuaFn)
      BY <1>3
    <3> QED
      BY <3>1, <3>2
  <2>2. CASE i # n
    <3>1. i \in 1 .. n - 1 /\ i \in 1 .. n /\ i + 1 \in 1 .. n
      BY <1>1, <1>2, <2>2
    <3> QED
      BY <1>2, <1>3, <3>1
  <2> QED
    BY <2>1, <2>2
<1>10. ASSUME NEW i \in 1 .. Len(t), t[i].k = "pcall"
       PROVE  t[i].nCcalls = CallsIn(t, i - 1) /\ t[i].nCcalls < LUAI_MAXCCALLS /\ HandlerIs(t, i - 1, t[i].errfunc)
  <2>1. CASE i = n + 1
    <3>1. i - 1 = n /\ t[i] = fr
      BY <1>1, <1>2, <2>1
    <3> QED
      BY <1>4, <1>5, <1>10, <3>1 DEF n
  <2>2. CASE i # n + 1
    <3>1. i \in 1 .. n /\ t[i] = s[i]
      BY <1>1, <1>2, <2>2
    <3> QED
      BY <1>3, <1>4, <1>5, <1>10, <3>1
  <2> QED
    BY <2>1, <2>2
<1>11. Frames(th, t)
  BY <1>2, <1>8, <1>9, <1>10 DEF Frames
<1> QED
  BY <1>2, <1>6, <1>7, <1>11 DEF t, n

\* What is left under the calls that end.
LEMMA FramesCut ==
  ASSUME NEW th, NEW s, Frames(th, s), NEW n \in 1 .. Len(s)
  PROVE  /\ Frames(th, SubSeq(s, 1, n)) /\ Len(SubSeq(s, 1, n)) = n /\ SubSeq(s, 1, n) # <<>>
         /\ SubSeq(s, 1, n)[n] = s[n]
         /\ CallsIn(SubSeq(s, 1, n), n) = CallsIn(s, n)
         /\ \A h : HandlerIs(SubSeq(s, 1, n), n, h) <=> HandlerIs(s, n, h)
<1> DEFINE t == SubSeq(s, 1, n)
<1>1. s \in Seq(CallBody \cup Tops) /\ Len(s) \in Nat /\ n \in Nat /\ n >= 1 /\ n <= Len(s)
  BY DEF Frames
<1>2. /\ t \in Seq(CallBody \cup Tops) /\ Len(t) = n /\ t # <<>>
      /\ \A i \in 1 .. n : t[i] = s[i] /\ i \in 1 .. Len(s)
  BY <1>1
<1>3. /\ FirstCall(th, s)
      /\ \A i \in 1 .. Len(s) - 1 : s[i] \in CallBody /\ (s[i] # LuaFn => s[i + 1] = LuaFn)
      /\ \A i \in 1 .. Len(s) : s[i].k = "pcall" =>
            s[i].nCcalls = CallsIn(s, i - 1) /\ s[i].nCcalls < LUAI_MAXCCALLS /\ HandlerIs(s, i - 1, s[i].errfunc)
  BY DEF Frames
<1> HIDE DEF t
<1>4. \A m \in 0 .. n : CallsIn(t, m) = CallsIn(s, m) /\ \A h : HandlerIs(t, m, h) <=> HandlerIs(s, m, h)
  <2> TAKE m \in 0 .. n
  <2>1. m \in Nat /\ \A i \in 1 .. m : s[i] = t[i]
    BY <1>1, <1>2
  <2> QED
    BY <2>1, CallsInSame
<1>5. n \in 0 .. n /\ \A i \in 1 .. n : i - 1 \in 0 .. n
  BY <1>1
<1>6. FirstCall(th, t)
  <2>1. t[1] = s[1] /\ s # <<>>
    BY <1>1, <1>2
  <2> QED
    BY <1>2, <1>3, <2>1 DEF FirstCall
<1>7. ASSUME NEW i \in 1 .. Len(t) - 1 PROVE t[i] \in CallBody /\ (t[i] # LuaFn => t[i + 1] = LuaFn)
  <2>1. i \in 1 .. n /\ i + 1 \in 1 .. n /\ i \in 1 .. Len(s) - 1
    BY <1>1, <1>2
  <2> QED
    BY <1>2, <1>3, <2>1
<1>8. ASSUME NEW i \in 1 .. Len(t), t[i].k = "pcall"
      PROVE  t[i].nCcalls = CallsIn(t, i - 1) /\ t[i].nCcalls < LUAI_MAXCCALLS /\ HandlerIs(t, i - 1, t[i].errfunc)
  <2>1. i \in 1 .. n /\ t[i] = s[i] /\ i \in 1 .. Len(s)
    BY <1>2
  <2> QED
    BY <1>3, <1>4, <1>5, <1>8, <2>1
<1>9. Frames(th, t)
  BY <1>2, <1>6, <1>7, <1>8 DEF Frames
<1>10. t[n] = s[n] /\ CallsIn(t, n) = CallsIn(s, n) /\ \A h : HandlerIs(t, n, h) <=> HandlerIs(s, n, h)
  BY <1>1, <1>2, <1>4, <1>5
<1> QED
  BY <1>2, <1>9, <1>10 DEF t

\* What lies under the calls of a thread: in the main one the protected call of
\* lua.c, in another the function it was created with.
LEMMA MainBase ==
  ASSUME NEW th, NEW s, Frames(th, s), s # <<>>
  PROVE  /\ s[Len(s)] = LuaFn => ~(th = MainThread /\ Len(s) = 1)
         /\ Len(s) \in Nat /\ Len(s) >= 1 /\ s[Len(s)] \in CallBody \cup Tops
         /\ th = MainThread => s[1].k = "pcall" /\ s[1].handler = 0 /\ s[1].nCcalls = 0 /\ s[1].errfunc = 0
         /\ th # MainThread => s[1] = LuaFn
<1>1. s \in Seq(CallBody \cup Tops) /\ FirstCall(th, s)
  BY DEF Frames
<1>2. Len(s) \in Nat /\ Len(s) >= 1 /\ s[Len(s)] \in CallBody \cup Tops
  BY <1>1
<1>3. th = MainThread => s[1].k = "pcall" /\ s[1].handler = 0 /\ s[1].nCcalls = 0 /\ s[1].errfunc = 0
  BY <1>1 DEF FirstCall
<1>4. th # MainThread => s[1] = LuaFn
  BY <1>1 DEF FirstCall
<1>5. LuaFn.k # "pcall"
  BY DEF LuaFn
<1> QED
  BY <1>2, <1>3, <1>4, <1>5

\* A function of Lua is called: it counts only as the main thread's
\* first, which lua_pcall calls.
LEMMA PushLua ==
  ASSUME NEW th, NEW s, NEW n, NEW e, Agrees(th, s, n, e), s # <<>>, s[Len(s)] \in CallBody
  PROVE  /\ Agrees(th, Append(s, LuaFn), IF th = MainThread /\ Len(s) = 1 THEN n + 1 ELSE n, e)
         /\ Len(Append(s, LuaFn)) = Len(s) + 1 /\ Append(s, LuaFn)[Len(s) + 1] = LuaFn
<1> DEFINE t == Append(s, LuaFn)
<1>1. Frames(th, s) /\ HandlerIs(s, Len(s), e) /\ n = Counted(th, s)
  BY DEF Agrees
<1>2. LuaFn \in CallBody \cup Tops /\ LuaFn.k # "pcall" /\ ~Waits(LuaFn)
  BY DEF LuaFn, CallBody, Waits
<1>3. Frames(th, t) /\ Len(t) = Len(s) + 1 /\ t[Len(s) + 1] = LuaFn
      /\ CallsIn(t, Len(s) + 1) = CallsIn(s, Len(s)) /\ HandlerIs(t, Len(s) + 1, e)
  BY <1>1, <1>2, FramesPush
<1> HIDE DEF t
<1>4. Len(s) \in Nat /\ Len(s) >= 1
  BY <1>1, MainBase
<1>5. CASE th = MainThread /\ Len(s) = 1
  <2>1. n = 0 /\ Waits(s[0 + 1]) /\ Len(t) # 1
    BY <1>1, <1>3, <1>5, MainBase DEF Counted, Waits
  <2>2. CallsIn(s, 1) = 1
    BY <2>1, CallsInStep
  <2>3. Counted(th, t) = n + 1
    BY <1>3, <1>5, <2>1, <2>2 DEF Counted
  <2> QED
    BY <1>3, <1>5, <2>3 DEF Agrees, t
<1>6. CASE ~(th = MainThread /\ Len(s) = 1)
  <2>1. n = CallsIn(s, Len(s)) /\ Counted(th, t) = n
    BY <1>1, <1>3, <1>4, <1>6 DEF Counted
  <2> QED
    BY <1>3, <1>6, <2>1 DEF Agrees, t
<1> QED
  BY <1>5, <1>6

\* A function of C is called from Lua and waits: it counts (ldo.c:369-380).
LEMMA PushWaiting ==
  ASSUME NEW th, NEW s, NEW n, NEW e, Agrees(th, s, n, e), s # <<>>, s[Len(s)] = LuaFn, n < LUAI_MAXCCALLS,
         NEW c \in CallBody, Waits(c), c.k = "pcall" => c.nCcalls = n /\ c.errfunc = e
  PROVE  /\ Agrees(th, Append(s, c), n + 1, IF c.k = "pcall" THEN c.handler ELSE e)
         /\ Len(Append(s, c)) = Len(s) + 1 /\ Append(s, c)[Len(s) + 1] = c
         /\ Len(s) >= 1 /\ Len(s) \in Nat
<1> DEFINE t == Append(s, c)
<1>1. Frames(th, s) /\ HandlerIs(s, Len(s), e) /\ n = Counted(th, s)
  BY DEF Agrees
<1>2. Len(s) \in Nat /\ Len(s) >= 1 /\ ~(th = MainThread /\ Len(s) = 1) /\ n = CallsIn(s, Len(s))
  BY <1>1, MainBase DEF Counted
<1>3. s[Len(s)] \in CallBody /\ c \in CallBody \cup Tops
  BY DEF CallBody
<1>4. /\ Frames(th, t) /\ Len(t) = Len(s) + 1 /\ t[Len(s) + 1] = c
      /\ CallsIn(t, Len(s) + 1) = CallsIn(s, Len(s)) + 1
      /\ \A h : HandlerIs(t, Len(s) + 1, h) <=> IF c.k = "pcall" THEN h = c.handler ELSE HandlerIs(s, Len(s), h)
  BY <1>1, <1>2, <1>3, FramesPush
<1> HIDE DEF t
<1>5. Counted(th, t) = n + 1
  BY <1>2, <1>4 DEF Counted
<1>6. HandlerIs(t, Len(s) + 1, IF c.k = "pcall" THEN c.handler ELSE e)
  BY <1>1, <1>4
<1> QED
  BY <1>2, <1>4, <1>5, <1>6 DEF Agrees, t

\* A resume or a yield goes on top of a Lua function and counts nothing.
LEMMA PushTop ==
  ASSUME NEW th, NEW s, NEW n, NEW e, Agrees(th, s, n, e), s # <<>>, s[Len(s)] = LuaFn, NEW fr \in Tops
  PROVE  /\ Agrees(th, Append(s, fr), n, e)
         /\ Len(Append(s, fr)) = Len(s) + 1 /\ Append(s, fr)[Len(s) + 1] = fr
         /\ Len(s) >= 1 /\ Len(s) \in Nat
<1> DEFINE t == Append(s, fr)
<1>1. Frames(th, s) /\ HandlerIs(s, Len(s), e) /\ n = Counted(th, s)
  BY DEF Agrees
<1>2. Len(s) \in Nat /\ Len(s) >= 1 /\ ~(th = MainThread /\ Len(s) = 1) /\ n = CallsIn(s, Len(s))
  BY <1>1, MainBase DEF Counted
<1>3. s[Len(s)] \in CallBody /\ fr \in CallBody \cup Tops
  BY DEF CallBody
<1>4. fr.k # "pcall" /\ ~Waits(fr)
  BY <1>3, BodyKinds DEF Waits
<1>5. /\ Frames(th, t) /\ Len(t) = Len(s) + 1 /\ t[Len(s) + 1] = fr
      /\ CallsIn(t, Len(s) + 1) = CallsIn(s, Len(s)) /\ HandlerIs(t, Len(s) + 1, e)
  BY <1>1, <1>2, <1>3, <1>4, FramesPush
<1> HIDE DEF t
<1>6. Counted(th, t) = n
  BY <1>2, <1>5 DEF Counted
<1> QED
  BY <1>2, <1>5, <1>6 DEF Agrees, t

\* What is on top goes; under it is a function of Lua.
LEMMA PopToLua ==
  ASSUME NEW th, NEW s, NEW n, NEW e, Agrees(th, s, n, e), Len(s) > 1, s[Len(s) - 1] = LuaFn,
         s[Len(s)].k \in {"lua", "resume", "yield"}
  PROVE  /\ Agrees(th, SubSeq(s, 1, Len(s) - 1), n, e) /\ Ready(th, SubSeq(s, 1, Len(s) - 1))
         /\ SubSeq(s, 1, Len(s) - 1)[Len(SubSeq(s, 1, Len(s) - 1))] = LuaFn
<1> DEFINE m == Len(s) - 1
           t == SubSeq(s, 1, m)
<1>1. Frames(th, s) /\ HandlerIs(s, Len(s), e) /\ n = Counted(th, s) /\ s # <<>>
  BY DEF Agrees
<1>2. Len(s) \in Nat /\ m \in 1 .. Len(s) /\ m \in Nat /\ m + 1 = Len(s)
  BY <1>1, MainBase
<1>3. n = CallsIn(s, Len(s)) /\ s[m + 1].k # "pcall" /\ ~Waits(s[m + 1]) /\ LuaFn \in CallBody
  BY <1>1, <1>2 DEF Counted, Waits, CallBody
<1>4. s[m] = LuaFn
  OBVIOUS
<1>5. Frames(th, t) /\ Len(t) = m /\ t # <<>> /\ t[m] = s[m]
      /\ CallsIn(t, m) = CallsIn(s, m) /\ \A h : HandlerIs(t, m, h) <=> HandlerIs(s, m, h)
  BY <1>1, <1>2, FramesCut
<1> HIDE DEF t, m
<1>6. CallsIn(s, m) = n /\ HandlerIs(s, m, e)
  BY <1>1, <1>2, <1>3, CallsInStep, HandlerStep
<1>7. ~(th = MainThread /\ Len(t) = 1)
  BY <1>4, <1>5, MainBase
<1>8. Counted(th, t) = n
  BY <1>5, <1>6, <1>7 DEF Counted
<1>9. Agrees(th, t, n, e) /\ Ready(th, t) /\ t[Len(t)] = LuaFn
  BY <1>3, <1>4, <1>5, <1>6, <1>8 DEF Agrees, Ready
<1> QED
  BY <1>9 DEF t, m

\* A function returns, and the C function that has called it.
LEMMA PopWaiting ==
  ASSUME NEW th, NEW s, NEW n, NEW e, Agrees(th, s, n, e), Len(s) > 1, s[Len(s)] = LuaFn, s[Len(s) - 1] # LuaFn,
         NEW t, t = SubSeq(s, 1, IF Len(s) = 2 /\ th = MainThread THEN 1 ELSE Len(s) - 2)
  PROVE  /\ Agrees(th, t, n - 1, IF s[Len(s) - 1].k = "pcall" THEN s[Len(s) - 1].errfunc ELSE e)
         /\ Ready(th, t) /\ n >= 1 /\ n \in Nat
<1> DEFINE m == Len(s) - 2
           c == s[Len(s) - 1]
           e2 == IF c.k = "pcall" THEN c.errfunc ELSE e
<1>1. Frames(th, s) /\ HandlerIs(s, Len(s), e) /\ n = Counted(th, s) /\ s # <<>>
  BY DEF Agrees
<1>2. Len(s) \in Nat /\ m \in Nat /\ m + 1 = Len(s) - 1 /\ (m + 1) + 1 = Len(s) /\ m + 1 \in Nat
      /\ Len(s) - 1 \in 1 .. Len(s) - 1 /\ Len(s) - 1 \in 1 .. Len(s) /\ m + 1 \in 1 .. Len(s)
  BY <1>1, MainBase
<1>3. n = CallsIn(s, Len(s)) /\ LuaFn.k # "pcall" /\ ~Waits(LuaFn) /\ LuaFn \in CallBody
  BY <1>1 DEF Counted, Waits, CallBody, LuaFn
<1>4. /\ \A i \in 1 .. Len(s) - 1 : s[i] \in CallBody /\ (s[i] # LuaFn => s[i + 1] = LuaFn)
      /\ \A i \in 1 .. Len(s) : s[i].k = "pcall" =>
            s[i].nCcalls = CallsIn(s, i - 1) /\ s[i].nCcalls < LUAI_MAXCCALLS /\ HandlerIs(s, i - 1, s[i].errfunc)
  BY <1>1 DEF Frames
<1>5. c = s[m + 1] /\ s[(m + 1) + 1] = LuaFn /\ c \in CallBody /\ c # LuaFn
  BY <1>2, <1>4
<1>6. Waits(c) /\ c \in CallBody \cup Tops
  BY <1>5, BodyKinds DEF Waits
<1>7. c.k = "pcall" => c.nCcalls = CallsIn(s, m) /\ HandlerIs(s, m, c.errfunc)
  <2>1. (m + 1) - 1 = m
    BY <1>2
  <2> QED
    BY <1>2, <1>4, <1>5, <2>1
<1> HIDE DEF m, c
<1>8. CallsIn(s, m) \in Nat /\ n = CallsIn(s, m) + 1 /\ HandlerIs(s, m + 1, e)
  <2>1. CallsIn(s, (m + 1) + 1) = CallsIn(s, m + 1)
    BY <1>2, <1>3, <1>5, CallsInStep
  <2>2. CallsIn(s, m + 1) = CallsIn(s, m) + 1 /\ CallsIn(s, m) \in Nat
    BY <1>2, <1>5, <1>6, CallsInStep
  <2>3. HandlerIs(s, m + 1, e)
    BY <1>1, <1>2, <1>3, <1>5, HandlerStep
  <2> QED
    BY <1>2, <1>3, <2>1, <2>2, <2>3
<1>9. HandlerIs(s, m, e2)
  <2>1. CASE c.k = "pcall"
    BY <1>7, <2>1
  <2>2. CASE c.k # "pcall"
    BY <1>2, <1>5, <1>8, <2>2, HandlerStep
  <2> QED
    BY <2>1, <2>2
<1>10. CASE Len(s) = 2 /\ th = MainThread
  <2>1. m = 0 /\ t = SubSeq(s, 1, 1) /\ m + 1 = 1
    BY <1>2, <1>10 DEF m
  <2>2. Frames(th, t) /\ Len(t) = 1 /\ t # <<>> /\ t[1] = s[1] /\ \A h : HandlerIs(t, 1, h) <=> HandlerIs(s, 1, h)
    <3> DEFINE one == 1
    <3>1. one \in 1 .. Len(s) /\ t = SubSeq(s, 1, one)
      BY <1>2, <2>1
    <3> HIDE DEF one
    <3>2. Frames(th, t) /\ Len(t) = one /\ t # <<>> /\ t[one] = s[one]
          /\ \A h : HandlerIs(t, one, h) <=> HandlerIs(s, one, h)
      <4>1. Frames(th, s)
        BY <1>1
      <4> QED
        BY ONLY <3>1, <4>1, FramesCut
    <3> QED
      BY <3>2 DEF one
  <2>3. c.k = "pcall" /\ c.handler = 0 /\ c.errfunc = 0
    BY <1>1, <1>5, <1>10, <2>1, MainBase
  <2>4. HandlerIs(s, 1, 0) /\ e2 = 0
    BY <1>5, <2>1, <2>3, HandlerStep
  <2>5. n - 1 = 0
    BY <1>8, <2>1, CallsInStep
  <2>6. Counted(th, t) = 0
    BY <1>10, <2>2 DEF Counted
  <2>7. Ready(th, t)
    BY <1>5, <1>10, <2>1, <2>2 DEF Ready
  <2> HIDE DEF e2
  <2>8. Agrees(th, t, n - 1, e2)
    BY <2>2, <2>4, <2>5, <2>6 DEF Agrees
  <2> QED
    BY <1>8, <2>7, <2>8 DEF e2, c
<1>11. CASE ~(Len(s) = 2 /\ th = MainThread)
  <2>1. m \in 1 .. Len(s) /\ t = SubSeq(s, 1, m)
    <3>1. m # 0
      <4>1. CASE th = MainThread
        BY <1>2, <1>11, <4>1
      <4>2. CASE th # MainThread
        BY <1>1, <1>5, <4>2, MainBase
      <4> QED
        BY <4>1, <4>2
    <3> QED
      BY <1>2, <1>11, <3>1 DEF m
  <2>2. Frames(th, t) /\ Len(t) = m /\ t # <<>> /\ t[m] = s[m] /\ CallsIn(t, m) = CallsIn(s, m)
        /\ \A h : HandlerIs(t, m, h) <=> HandlerIs(s, m, h)
    BY <1>1, <2>1, FramesCut
  <2>3. s[m] = LuaFn
    <3>1. m \in 1 .. Len(s) - 1
      BY <1>2, <2>1
    <3> QED
      BY <1>4, <1>5, <3>1
  <2>4. ~(th = MainThread /\ Len(t) = 1)
    BY <2>2, <2>3, MainBase
  <2>5. Counted(th, t) = n - 1
    BY <1>8, <2>2, <2>4 DEF Counted
  <2>6. Ready(th, t)
    BY <1>3, <2>2, <2>3 DEF Ready
  <2> HIDE DEF e2
  <2>7. Agrees(th, t, n - 1, e2)
    BY <1>9, <2>2, <2>5 DEF Agrees
  <2> QED
    BY <1>8, <2>6, <2>7 DEF e2, c
<1> QED
  BY <1>10, <1>11

\* An error goes to the latest protected call.
LatestIs(s, i) == /\ i \in 1 .. Len(s) /\ s[i].k = "pcall"
                  /\ \A j \in 1 .. Len(s) : s[j].k = "pcall" => j <= i
LeftUnder(th, s, i) == SubSeq(s, 1, IF i = 1 /\ th = MainThread THEN 1 ELSE i - 1)

\* What a protected call finds again when it catches an error (ldo.c:463-473).
LEMMA PopProtected ==
  ASSUME NEW th, NEW s, NEW n, NEW e, Agrees(th, s, n, e), NEW i, LatestIs(s, i)
  PROVE  /\ e = s[i].handler /\ s[i].nCcalls < LUAI_MAXCCALLS /\ s[i] \in CallBody
         /\ Agrees(th, LeftUnder(th, s, i), s[i].nCcalls, s[i].errfunc) /\ Ready(th, LeftUnder(th, s, i))
<1> DEFINE m == i - 1
           p == s[i]
           t == LeftUnder(th, s, i)
<1>t. t = SubSeq(s, 1, IF i = 1 /\ th = MainThread THEN 1 ELSE i - 1)
  BY DEF LeftUnder
<1>1. Frames(th, s) /\ HandlerIs(s, Len(s), e) /\ n = Counted(th, s)
  BY DEF Agrees
<1>0. /\ i \in 1 .. Len(s) /\ s[i].k = "pcall"
      /\ \A j \in 1 .. Len(s) : s[j].k = "pcall" => j <= i
  BY DEF LatestIs
<1>2. s # <<>> /\ Len(s) \in Nat /\ m \in Nat /\ m + 1 = i /\ s \in Seq(CallBody \cup Tops)
  BY <1>0, <1>1 DEF Frames
<1>3. /\ \A j \in 1 .. Len(s) - 1 : s[j] \in CallBody /\ (s[j] # LuaFn => s[j + 1] = LuaFn)
      /\ p.nCcalls = CallsIn(s, m) /\ p.nCcalls < LUAI_MAXCCALLS /\ HandlerIs(s, m, p.errfunc)
  BY <1>0, <1>1 DEF Frames
<1>4. p \in CallBody /\ p # LuaFn
  <2>1. p \in CallBody \cup Tops
    BY <1>0, <1>2
  <2> QED
    BY <1>0, <2>1, BodyKinds
<1>5. e = p.handler
  <2>1. \A k \in i + 1 .. Len(s) : s[k].k # "pcall"
    BY <1>0, <1>2
  <2>2. PICK k \in 1 .. Len(s) : s[k].k = "pcall" /\ s[k].handler = e /\ \A j \in k + 1 .. Len(s) : s[j].k # "pcall"
    BY <1>0, <1>1 DEF HandlerIs
  <2>3. k = i
    BY <1>0, <1>2, <2>2
  <2> QED
    BY <1>0, <2>2, <2>3
<1> HIDE DEF m, p, t
<1>6. CASE i = 1 /\ th = MainThread
  <2>1. m = 0 /\ t = SubSeq(s, 1, 1) /\ 1 \in 1 .. Len(s)
    BY <1>t, <1>0, <1>2, <1>6
  <2>2. Frames(th, t) /\ Len(t) = 1 /\ t # <<>> /\ t[1] = s[1] /\ \A h : HandlerIs(t, 1, h) <=> HandlerIs(s, 1, h)
    <3> DEFINE one == 1
    <3>1. one \in 1 .. Len(s) /\ t = SubSeq(s, 1, one)
      BY <1>0, <1>2, <2>1
    <3> HIDE DEF one
    <3>2. Frames(th, t) /\ Len(t) = one /\ t # <<>> /\ t[one] = s[one]
          /\ \A h : HandlerIs(t, one, h) <=> HandlerIs(s, one, h)
      BY <1>1, <3>1, FramesCut
    <3> QED
      BY <3>2 DEF one
  <2>3. p.k = "pcall" /\ p.handler = 0 /\ p.errfunc = 0 /\ p.nCcalls = 0
    BY <1>0, <1>1, <1>2, <1>6, MainBase DEF p
  <2>4. HandlerIs(s, 0 + 1, 0)
    BY <1>0, <1>6, <2>3, HandlerStep DEF p
  <2>5. Counted(th, t) = 0 /\ Ready(th, t)
    BY <1>0, <1>4, <1>6, <2>2 DEF Counted, Ready, p
  <2>6. Agrees(th, t, p.nCcalls, p.errfunc)
    BY <1>0, <2>2, <2>3, <2>4, <2>5 DEF Agrees
  <2> QED
    BY <1>0, <1>3, <1>4, <1>5, <2>5, <2>6 DEF p, t
<1>7. CASE ~(i = 1 /\ th = MainThread)
  <2>1. m \in 1 .. Len(s) /\ t = SubSeq(s, 1, m)
    <3>1. m # 0
      <4>1. CASE th = MainThread
        BY <1>0, <1>2, <1>7, <4>1
      <4>2. CASE th # MainThread
        BY <1>0, <1>1, <1>2, <1>4, <4>2, MainBase DEF p
      <4> QED
        BY <4>1, <4>2
    <3> QED
      BY <1>t, <1>0, <1>2, <1>7, <3>1 DEF m
  <2>2. Frames(th, t) /\ Len(t) = m /\ t # <<>> /\ t[m] = s[m] /\ CallsIn(t, m) = CallsIn(s, m)
        /\ \A h : HandlerIs(t, m, h) <=> HandlerIs(s, m, h)
    BY <1>0, <1>1, <2>1, FramesCut
  <2>3. s[m] = LuaFn
    <3>1. m \in 1 .. Len(s) - 1 /\ s[m + 1] # LuaFn
      BY <1>0, <1>2, <1>4, <2>1 DEF p
    <3> QED
      BY <1>0, <1>3, <3>1
  <2>4. ~(th = MainThread /\ Len(t) = 1)
    BY <1>0, <2>2, <2>3, MainBase
  <2>5. Counted(th, t) = p.nCcalls
    BY <1>0, <1>3, <2>2, <2>4 DEF Counted
  <2>6. Ready(th, t)
    BY <1>0, <2>2, <2>3 DEF Ready, CallBody
  <2>7. Agrees(th, t, p.nCcalls, p.errfunc)
    BY <1>0, <1>3, <2>2, <2>5 DEF Agrees
  <2> QED
    BY <1>0, <1>3, <1>4, <1>5, <2>6, <2>7 DEF p, t
<1> QED
  BY <1>0, <1>6, <1>7

\* What holds of the thread that runs, and of the one that waits for it.
LEMMA TheRunning ==
  ASSUME CallInv
  PROVE  /\ Len(running) \in Nat /\ Len(running) >= 1 /\ L = running[Len(running)] /\ L \in Thread /\ IsRunning(L)
         /\ co_status[L] = "ok" /\ ci[L] # <<>> /\ ci[L][Len(ci[L])] \in CallBody /\ frame = ci[L][Len(ci[L])]
         /\ Agrees(L, ci[L], nCcalls[L], errfunc[L]) /\ errfunc[L] \in Handler \cup {0} /\ nCcalls[L] \in Nat
         /\ \A i \in 1 .. Len(running) : running[i] \in Thread
         /\ thrown = NoError => nCcalls[L] < LUAI_MAXCCALLS /\ Ready(L, ci[L])
         /\ L # MainThread => /\ Len(running) > 1 /\ L \in created \ fresh
                             /\ running[Len(running) - 1] \in Thread \ {L} /\ WaitsForResume(running[Len(running) - 1])
<1>1. /\ running \in Seq(Thread) /\ Len(running) \in Nat /\ Len(running) >= 1 /\ running[1] = MainThread
      /\ nCcalls \in [Thread -> Nat] /\ errfunc \in [Thread -> Handler \cup {0}]
      /\ \A i \in 2 .. Len(running) : running[i] \in created
      /\ \A i, j \in 1 .. Len(running) : running[i] = running[j] => i = j
      /\ \A i \in 1 .. Len(running) - 1 : WaitsForResume(running[i])
      /\ \A co \in fresh : ~IsRunning(co)
  BY DEF CallInv, CallTypes
<1>2. L = running[Len(running)] /\ frame = ci[L][Len(ci[L])]
  BY DEF L, frame, Last
<1>3. \A i \in 1 .. Len(running) : running[i] \in Thread
  BY <1>1
<1>4. L \in Thread /\ IsRunning(L)
  BY <1>1, <1>2 DEF IsRunning
<1>5. L # MainThread => Len(running) > 1
  BY <1>1, <1>2
<1>6. ASSUME L # MainThread
      PROVE  /\ L \in created \ fresh
             /\ running[Len(running) - 1] \in Thread \ {L} /\ WaitsForResume(running[Len(running) - 1])
  <2>1. Len(running) \in 2 .. Len(running) /\ Len(running) - 1 \in 1 .. Len(running) - 1
        /\ Len(running) - 1 \in 1 .. Len(running) /\ Len(running) - 1 # Len(running) /\ Len(running) \in 1 .. Len(running)
    BY <1>1, <1>5, <1>6
  <2>2. L \in created \ fresh
    BY <1>1, <1>2, <1>4, <2>1
  <2>3. running[Len(running) - 1] # L
    BY <1>1, <1>2, <2>1
  <2> QED
    BY <1>1, <1>3, <2>1, <2>2, <2>3
<1>7. /\ co_status[L] = "ok" /\ ci[L] # <<>> /\ ci[L][Len(ci[L])] \in CallBody
      /\ thrown = NoError => Ready(L, ci[L])
  BY DEF CallInv
<1>8. errfunc[L] \in Handler \cup {0} /\ nCcalls[L] \in Nat
  BY <1>1, <1>4
<1>9. /\ Agrees(L, ci[L], nCcalls[L], errfunc[L])
      /\ nCcalls[L] >= LUAI_MAXCCALLS => thrown # NoError
  BY <1>4, <1>7 DEF CallInv
<1>10. thrown = NoError => nCcalls[L] < LUAI_MAXCCALLS
  BY <1>8, <1>9, LuaCallAssumption
<1> QED
  BY <1>1, <1>2, <1>3, <1>4, <1>5, <1>6, <1>7, <1>8, <1>9, <1>10

\* A step of the running thread in its own calls.
LEMMA OwnStep ==
  ASSUME CallInv, UNCHANGED <<created, co_status, fresh, running>>,
         NEW s, NEW n \in Nat, NEW e \in Handler \cup {0}, Agrees(L, s, n, e), s # <<>>, s[Len(s)] \in CallBody,
         ci' = [ci EXCEPT ![L] = s], nCcalls' = [nCcalls EXCEPT ![L] = n], errfunc' = [errfunc EXCEPT ![L] = e],
         thrown' = NoError => Ready(L, s) /\ n < LUAI_MAXCCALLS, thrown' # NoError => thrown' = e,
         catch'.by = catch'.at
  PROVE  CallInv'
<1>1. /\ created \subseteq Co /\ fresh \subseteq created
      /\ co_status \in [Thread -> {"ok", "yield", "error"}] /\ nCcalls \in [Thread -> Nat]
      /\ errfunc \in [Thread -> Handler \cup {0}]
      /\ ci \in [Thread -> Seq(CallBody \cup Tops)]
      /\ running \in Seq(Thread) /\ running # <<>> /\ running[1] = MainThread
      /\ \A i \in 2 .. Len(running) : running[i] \in created
      /\ \A i, j \in 1 .. Len(running) : running[i] = running[j] => i = j
  BY DEF CallInv, CallTypes
<1>2. L' = L
  BY DEF L
<1>3. L \in Thread /\ IsRunning(L) /\ Len(running) \in Nat /\ L = running[Len(running)] /\ Len(running) >= 1
  BY TheRunning
<1>4. s \in Seq(CallBody \cup Tops)
  BY DEF Agrees, Frames
<1>5. /\ ci' \in [Thread -> Seq(CallBody \cup Tops)] /\ ci'[L] = s /\ nCcalls'[L] = n /\ errfunc'[L] = e
      /\ nCcalls' \in [Thread -> Nat] /\ errfunc' \in [Thread -> Handler \cup {0}]
      /\ \A th \in Thread \ {L} : ci'[th] = ci[th] /\ nCcalls'[th] = nCcalls[th] /\ errfunc'[th] = errfunc[th]
  BY <1>1, <1>3, <1>4
<1>6. thrown' \in {NoError, 0} \cup Handler
  OBVIOUS
<1>7. CallTypes'
  BY <1>1, <1>5, <1>6 DEF CallTypes
<1>8. ASSUME NEW th \in Thread, co_status'[th] # "error"
      PROVE  /\ Agrees(th, ci'[th], nCcalls'[th], errfunc'[th])
             /\ nCcalls'[th] >= LUAI_MAXCCALLS => th = L' /\ thrown' # NoError
  <2>1. CASE th = L
    BY <1>2, <1>5, <2>1, LuaCallAssumption
  <2>2. CASE th # L
    BY <1>5, <1>8, <2>2 DEF CallInv
  <2> QED
    BY <2>1, <2>2
<1>9. ASSUME NEW i \in 1 .. Len(running) - 1 PROVE WaitsForResume(running[i])'
  <2>1. i \in 1 .. Len(running) /\ i # Len(running) /\ Len(running) \in 1 .. Len(running) /\ i \in 1 .. Len(running) - 1
    BY <1>3
  <2>2. running[i] \in Thread \ {L}
    BY <1>1, <1>3, <2>1
  <2>3. WaitsForResume(running[i])
    BY <2>1 DEF CallInv
  <2>4. ci'[running[i]] = ci[running[i]] /\ running'[i] = running[i]
    BY <1>5, <2>2
  <2> QED
    BY <2>3, <2>4 DEF WaitsForResume, Resume
<1>10. ASSUME NEW th \in Thread, ~IsRunning(th)' PROVE Rests(th)'
  <2>1. ~IsRunning(th) /\ th # L
    BY <1>3, <1>10 DEF IsRunning
  <2>2. Rests(th)
    BY <2>1 DEF CallInv
  <2> QED
    BY <1>5, <2>1, <2>2 DEF Rests
<1>11. ASSUME NEW co \in fresh' PROVE ci'[co] = <<>> /\ ~IsRunning(co)'
  <2>1. ci[co] = <<>> /\ ~IsRunning(co) /\ co \in Thread
    BY <1>1, <1>11 DEF CallInv, Thread
  <2>2. co # L
    BY <1>3, <2>1
  <2> QED
    BY <1>5, <2>1, <2>2 DEF IsRunning
<1>12. /\ co_status'[L'] = "ok" /\ ci'[L'] # <<>> /\ ci'[L'][Len(ci'[L'])] \in CallBody
       /\ thrown' = NoError => Ready(L', ci'[L'])
       /\ thrown' # NoError => thrown' = errfunc'[L']
  BY <1>2, <1>5, TheRunning
<1> QED
  BY <1>7, <1>8, <1>9, <1>10, <1>11, <1>12 DEF CallInv

\* All of a sequence but its last.
LEMMA FrontOf ==
  ASSUME NEW S, NEW s \in Seq(S), Len(s) > 1
  PROVE  /\ Front(s) \in Seq(S) /\ Len(Front(s)) = Len(s) - 1 /\ Front(s) # <<>> /\ Len(s) \in Nat
         /\ \A i \in 1 .. Len(s) - 1 : Front(s)[i] = s[i]
<1> DEFINE n == Len(s) - 1
<1>1. Len(s) \in Nat /\ n \in Nat /\ n >= 1 /\ \A i \in 1 .. n : s[i] \in S
  OBVIOUS
<1>2. Front(s) = SubSeq(s, 1, n)
  BY DEF Front
<1> HIDE DEF n
<1>3. SubSeq(s, 1, n) \in Seq(S) /\ Len(SubSeq(s, 1, n)) = n /\ \A i \in 1 .. n : SubSeq(s, 1, n)[i] = s[i]
  BY <1>1, SubSeqProperties
<1>4. SubSeq(s, 1, n) # <<>>
  BY <1>1, <1>3
<1> QED
  BY <1>1, <1>2, <1>3, <1>4 DEF n

\* A coroutine gives way to the thread that has resumed it.
LEMMA LeaveStep ==
  ASSUME CallInv, L # MainThread, UNCHANGED <<created, fresh, nCcalls, errfunc>>, running' = Front(running),
         NEW before, before = running[Len(running) - 1],
         NEW s \in Seq(CallBody \cup Tops), NEW st \in {"ok", "yield", "error"},
         st # "error" => Agrees(L, s, nCcalls[L], errfunc[L]) /\ nCcalls[L] < LUAI_MAXCCALLS,
         \/ st = "ok" /\ s = <<>>
         \/ st = "yield" /\ nCcalls[L] = 0 /\ Len(s) > 1 /\ s[Len(s)] = [k |-> "yield"]
         \/ st = "error",
         co_status' = [co_status EXCEPT ![L] = st],
         ci' = [ci EXCEPT ![before] = Front(@), ![L] = s],
         thrown' \in {NoError, errfunc[before]}, catch' = catch
  PROVE  CallInv'
<1>1. /\ created \subseteq Co /\ fresh \subseteq created
      /\ co_status \in [Thread -> {"ok", "yield", "error"}] /\ nCcalls \in [Thread -> Nat]
      /\ errfunc \in [Thread -> Handler \cup {0}]
      /\ ci \in [Thread -> Seq(CallBody \cup Tops)]
      /\ running \in Seq(Thread) /\ running[1] = MainThread
      /\ \A i \in 2 .. Len(running) : running[i] \in created
      /\ \A i, j \in 1 .. Len(running) : running[i] = running[j] => i = j
  BY DEF CallInv, CallTypes
<1>2. /\ L \in Thread /\ IsRunning(L) /\ Len(running) \in Nat /\ L = running[Len(running)] /\ Len(running) > 1
      /\ before \in Thread \ {L} /\ WaitsForResume(before) /\ L \in created \ fresh
  BY TheRunning
<1>3. /\ running' \in Seq(Thread) /\ Len(running') = Len(running) - 1 /\ running' # <<>>
      /\ \A i \in 1 .. Len(running) - 1 : running'[i] = running[i]
  BY <1>1, <1>2, FrontOf
<1>4. L' = before
  <2>1. L' = running'[Len(running')]
    BY DEF L, Last
  <2>2. Len(running) - 1 \in 1 .. Len(running) - 1
    BY <1>2
  <2> QED
    BY <1>3, <2>1, <2>2
<1>5. /\ co_status[before] = "ok" /\ Len(ci[before]) > 1
      /\ Agrees(before, ci[before], nCcalls[before], errfunc[before])
      /\ \E w \in BOOLEAN : ci[before][Len(ci[before])] = Resume(w)
      /\ ~(nCcalls[before] >= LUAI_MAXCCALLS)
  BY <1>2 DEF WaitsForResume, CallInv
<1>6. /\ Agrees(before, Front(ci[before]), nCcalls[before], errfunc[before])
      /\ Ready(before, Front(ci[before])) /\ Front(ci[before]) \in Seq(CallBody \cup Tops)
  <2> DEFINE sb == ci[before]
  <2>1. Frames(before, sb)
    BY <1>5 DEF Agrees
  <2>2. sb[Len(sb)].k = "resume" /\ sb[Len(sb)] # LuaFn
    BY <1>5 DEF Resume, LuaFn
  <2>3. sb \in Seq(CallBody \cup Tops) /\ \A i \in 1 .. Len(sb) - 1 : sb[i] # LuaFn => sb[i + 1] = LuaFn
    BY <2>1 DEF Frames
  <2>4. Len(sb) \in Nat /\ Len(sb) - 1 \in 1 .. Len(sb) - 1 /\ (Len(sb) - 1) + 1 = Len(sb)
    BY <1>5, <2>3
  <2>5. sb[Len(sb) - 1] = LuaFn
    BY <2>2, <2>3, <2>4
  <2>6. Agrees(before, SubSeq(sb, 1, Len(sb) - 1), nCcalls[before], errfunc[before])
        /\ Ready(before, SubSeq(sb, 1, Len(sb) - 1))
    BY <1>5, <2>2, <2>5, PopToLua
  <2>7. Front(ci[before]) = SubSeq(sb, 1, Len(sb) - 1)
    BY DEF Front
  <2> QED
    BY <2>6, <2>7 DEF Agrees, Frames
<1>7. /\ ci' \in [Thread -> Seq(CallBody \cup Tops)] /\ ci'[L] = s /\ ci'[before] = Front(ci[before])
      /\ \A th \in Thread \ {L, before} : ci'[th] = ci[th]
  BY <1>1, <1>2, <1>6
<1>8. /\ co_status' \in [Thread -> {"ok", "yield", "error"}] /\ co_status'[L] = st
      /\ \A th \in Thread \ {L} : co_status'[th] = co_status[th]
  BY <1>1, <1>2
<1>9. CallTypes'
  <2>1. \A i \in 2 .. Len(running') : running'[i] \in created
    <3>1. TAKE i \in 2 .. Len(running')
    <3>2. i \in 2 .. Len(running) /\ i \in 1 .. Len(running) - 1
      BY <1>2, <1>3
    <3> QED
      BY <1>1, <1>3, <3>2
  <2>2. running'[1] = MainThread
    BY <1>1, <1>2, <1>3
  <2>3. \A i, j \in 1 .. Len(running') : running'[i] = running'[j] => i = j
    <3>1. \A i \in 1 .. Len(running') : running'[i] = running[i] /\ i \in 1 .. Len(running)
      BY <1>2, <1>3
    <3>2. TAKE i, j \in 1 .. Len(running')
    <3>3. i \in 1 .. Len(running) /\ j \in 1 .. Len(running) /\ running'[i] = running[i] /\ running'[j] = running[j]
      BY <3>1
    <3> QED
      BY <1>1, <3>3
  <2>4. thrown' \in {NoError, 0} \cup Handler
    BY <1>1, <1>2
  <2> QED
    BY <1>1, <1>3, <1>7, <1>8, <2>1, <2>2, <2>3, <2>4 DEF CallTypes
<1>10. ASSUME NEW th \in Thread, co_status'[th] # "error"
       PROVE  /\ Agrees(th, ci'[th], nCcalls'[th], errfunc'[th])
              /\ nCcalls'[th] >= LUAI_MAXCCALLS => th = L' /\ thrown' # NoError
  <2>0. nCcalls[th] \in Nat /\ LUAI_MAXCCALLS \in Nat
    BY <1>1, LuaCallAssumption
  <2>1. CASE th = L
    BY <1>7, <1>8, <1>10, <2>0, <2>1
  <2>2. CASE th = before
    BY <1>5, <1>6, <1>7, <2>2
  <2>3. CASE th # L /\ th # before
    BY <1>7, <1>8, <1>10, <2>3 DEF CallInv
  <2> QED
    BY <2>1, <2>2, <2>3
<1>11. ASSUME NEW i \in 1 .. Len(running') - 1 PROVE WaitsForResume(running[i])' /\ running'[i] = running[i]
  <2>1. i \in 1 .. Len(running) /\ i \in 1 .. Len(running) - 1 /\ i # Len(running) /\ i # Len(running) - 1
        /\ Len(running) \in 1 .. Len(running) /\ Len(running) - 1 \in 1 .. Len(running)
    BY <1>2, <1>3
  <2>2. running[i] \in Thread \ {L, before}
    <3>1. running[i] \in Thread
      BY <1>1, <2>1
    <3>2. running[i] # running[Len(running)]
      BY <1>1, <2>1
    <3>3. running[i] # running[Len(running) - 1]
      BY <1>1, <2>1
    <3> QED
      BY <1>2, <3>1, <3>2, <3>3
  <2>3. WaitsForResume(running[i])
    BY <2>1 DEF CallInv
  <2>4. ci'[running[i]] = ci[running[i]] /\ running'[i] = running[i] /\ co_status'[running[i]] = co_status[running[i]]
    BY <1>3, <1>7, <1>8, <2>1, <2>2
  <2> QED
    BY <2>3, <2>4 DEF WaitsForResume, Resume
<1>12. ASSUME NEW th \in Thread, ~IsRunning(th)' PROVE Rests(th)'
  <2>1. CASE th = L
    BY <1>2, <1>7, <1>8, <2>1 DEF Rests
  <2>2. CASE th # L
    <3>1. ASSUME NEW i \in 1 .. Len(running), running[i] = th PROVE FALSE
      <4>1. i # Len(running)
        BY <1>2, <2>2, <3>1
      <4>2. i \in 1 .. Len(running') /\ running'[i] = th
        BY <1>2, <1>3, <3>1, <4>1
      <4> QED
        BY <1>12, <4>2 DEF IsRunning
    <3>2. ~IsRunning(th)
      BY <3>1 DEF IsRunning
    <3>3. Rests(th)
      BY <3>2 DEF CallInv
    <3>4. th # before
      <4>1. Len(running) - 1 \in 1 .. Len(running)
        BY <1>2
      <4> QED
        BY <3>1, <4>1
    <3> QED
      BY <1>7, <1>8, <2>2, <3>3, <3>4 DEF Rests
  <2> QED
    BY <2>1, <2>2
<1>13. ASSUME NEW co \in fresh' PROVE ci'[co] = <<>> /\ ~IsRunning(co)'
  <2>1. ci[co] = <<>> /\ ~IsRunning(co) /\ co \in Thread
    BY <1>1, <1>13 DEF CallInv, Thread
  <2>2. co # L /\ co # before
    BY <1>2, <1>5, <2>1
  <2>3. \A i \in 1 .. Len(running') : running'[i] = running[i] /\ i \in 1 .. Len(running)
    BY <1>2, <1>3
  <2>4. ~IsRunning(co)'
    BY <2>1, <2>3 DEF IsRunning
  <2> QED
    BY <1>7, <2>1, <2>2, <2>4
<1>14. /\ co_status'[L'] = "ok" /\ ci'[L'] # <<>> /\ ci'[L'][Len(ci'[L'])] \in CallBody
       /\ thrown' = NoError => Ready(L', ci'[L'])
       /\ thrown' # NoError => thrown' = errfunc'[L']
  <2>1. Front(ci[before]) # <<>> /\ Front(ci[before])[Len(Front(ci[before]))] \in CallBody
    BY <1>6 DEF Ready
  <2> QED
    BY <1>2, <1>4, <1>5, <1>6, <1>7, <1>8, <2>1
<1>15. catch'.by = catch'.at
  BY DEF CallInv
<1> QED
  BY <1>9, <1>10, <1>11, <1>12, <1>13, <1>14, <1>15 DEF CallInv

\* A coroutine goes on, or begins.
LEMMA ResumeStep ==
  ASSUME CallInv, Runs, NEW co \in created, NEW wrap \in BOOLEAN, Resumable(co),
         UNCHANGED <<created, nCcalls, errfunc, thrown, catch>>,
         running' = Append(running, co), co_status' = [co_status EXCEPT ![co] = "ok"], fresh' = fresh \ {co},
         ci' = [ci EXCEPT ![L] = Append(@, Resume(wrap)), ![co] = IF co_status[co] = "yield" THEN Front(@) ELSE <<LuaFn>>]
  PROVE  CallInv'
<1> DEFINE s == ci[L]
           up == Append(s, Resume(wrap))
           on == IF co_status[co] = "yield" THEN Front(ci[co]) ELSE <<LuaFn>>
<1>1. /\ created \subseteq Co /\ fresh \subseteq created
      /\ co_status \in [Thread -> {"ok", "yield", "error"}] /\ nCcalls \in [Thread -> Nat]
      /\ errfunc \in [Thread -> Handler \cup {0}] /\ thrown \in {NoError, 0} \cup Handler
      /\ ci \in [Thread -> Seq(CallBody \cup Tops)]
      /\ running \in Seq(Thread) /\ running[1] = MainThread
      /\ \A i \in 2 .. Len(running) : running[i] \in created
      /\ \A i, j \in 1 .. Len(running) : running[i] = running[j] => i = j
  BY DEF CallInv, CallTypes
<1>2. /\ L \in Thread /\ IsRunning(L) /\ Len(running) \in Nat /\ L = running[Len(running)] /\ Len(running) >= 1
      /\ co_status[L] = "ok" /\ s # <<>> /\ Agrees(L, s, nCcalls[L], errfunc[L])
      /\ thrown = NoError /\ nCcalls[L] < LUAI_MAXCCALLS /\ s[Len(s)] = LuaFn
  BY TheRunning DEF Runs
<1>3. co \in Thread /\ co # MainThread
  BY <1>1, LuaCallAssumption DEF Thread
<1>4. ~IsRunning(co) /\ co # L
  <2>1. ASSUME NEW i \in 1 .. Len(running), running[i] = co PROVE FALSE
    <3>1. CASE i = Len(running)
      BY <1>2, <2>1, <3>1 DEF Resumable
    <3>2. CASE i # Len(running)
      <4>1. i \in 1 .. Len(running) - 1
        BY <1>2, <3>2
      <4>2. WaitsForResume(co)
        BY <2>1, <4>1 DEF CallInv
      <4>3. ci[co] # <<>>
        BY <4>2 DEF WaitsForResume
      <4> QED
        BY <4>2, <4>3 DEF WaitsForResume, Resumable
    <3> QED
      BY <3>1, <3>2
  <2> QED
    BY <1>2, <2>1 DEF IsRunning
<1>5. /\ Agrees(L, up, nCcalls[L], errfunc[L]) /\ Len(up) > 1 /\ up[Len(up)] = Resume(wrap)
      /\ up \in Seq(CallBody \cup Tops)
  <2>1. Resume(wrap) \in Tops
    BY DEF Resume, Tops
  <2>2. /\ Agrees(L, up, nCcalls[L], errfunc[L]) /\ Len(up) = Len(s) + 1 /\ up[Len(s) + 1] = Resume(wrap)
        /\ Len(s) >= 1 /\ Len(s) \in Nat
    BY <1>2, <2>1, PushTop
  <2>3. up \in Seq(CallBody \cup Tops)
    BY <2>2, Zenon DEF Agrees, Frames
  <2>4. Len(up) > 1 /\ up[Len(up)] = Resume(wrap)
    BY <2>2
  <2> QED
    BY <2>2, <2>3, <2>4
<1>6. Agrees(co, ci[co], nCcalls[co], errfunc[co]) /\ ~(nCcalls[co] >= LUAI_MAXCCALLS)
  <2>1. co_status[co] # "error"
    BY DEF Resumable
  <2> QED
    BY <1>3, <1>4, <2>1 DEF CallInv
<1>7. Agrees(co, on, nCcalls[co], errfunc[co]) /\ Ready(co, on) /\ on \in Seq(CallBody \cup Tops)
  <2>1. CASE co_status[co] = "yield"
    <3> DEFINE sc == ci[co]
    <3>1. Len(sc) > 1 /\ sc[Len(sc)] = [k |-> "yield"]
      BY <1>3, <1>4, <2>1 DEF CallInv, Rests
    <3>2. sc[Len(sc)].k = "yield" /\ sc[Len(sc)] # LuaFn
      BY <3>1 DEF LuaFn
    <3>3. sc \in Seq(CallBody \cup Tops) /\ \A i \in 1 .. Len(sc) - 1 : sc[i] # LuaFn => sc[i + 1] = LuaFn
      BY <1>6 DEF Agrees, Frames
    <3>4. Len(sc) \in Nat /\ Len(sc) - 1 \in 1 .. Len(sc) - 1 /\ (Len(sc) - 1) + 1 = Len(sc)
      BY <3>1, <3>3
    <3>5. sc[Len(sc) - 1] = LuaFn
      BY <3>2, <3>3, <3>4
    <3>6. Agrees(co, SubSeq(sc, 1, Len(sc) - 1), nCcalls[co], errfunc[co]) /\ Ready(co, SubSeq(sc, 1, Len(sc) - 1))
      BY <1>6, <3>1, <3>2, <3>5, PopToLua
    <3>7. on = SubSeq(sc, 1, Len(sc) - 1)
      BY <2>1 DEF Front
    <3> QED
      BY <3>6, <3>7 DEF Agrees, Frames
  <2>2. CASE co_status[co] # "yield"
    <3>1. ci[co] = <<>> /\ on = <<LuaFn>>
      BY <2>2 DEF Resumable
    <3>2. nCcalls[co] = CallsIn(<<>>, 0) /\ HandlerIs(<<>>, 0, errfunc[co])
      BY <1>3, <1>6, <3>1 DEF Agrees, Counted
    <3>3. nCcalls[co] = 0 /\ errfunc[co] = 0
      BY <3>2, CallsInStep, HandlerStep
    <3> DEFINE one == <<LuaFn>>
    <3>4. LuaFn \in CallBody /\ LuaFn.k # "pcall" /\ ~Waits(LuaFn)
      BY DEF CallBody, LuaFn, Waits
    <3>5. one \in Seq(CallBody \cup Tops) /\ Len(one) = 1 /\ one[0 + 1] = LuaFn /\ one # <<>> /\ one[1] = LuaFn
      BY <3>4
    <3> HIDE DEF one
    <3>6. CallsIn(one, 0) = 0 /\ HandlerIs(one, 0, 0)
      BY CallsInStep, HandlerStep
    <3>7. CallsIn(one, 0 + 1) = 0 /\ HandlerIs(one, 0 + 1, 0)
      BY <3>4, <3>5, <3>6, CallsInStep, HandlerStep
    <3>8. FirstCall(co, one)
      BY <1>3, <3>5 DEF FirstCall
    <3>9. Frames(co, one)
      BY <3>4, <3>5, <3>8 DEF Frames
    <3>10. Agrees(co, one, 0, 0)
      BY <1>3, <3>5, <3>7, <3>9 DEF Agrees, Counted
    <3>11. Ready(co, one)
      BY <3>4, <3>5 DEF Ready
    <3> QED
      BY <3>1, <3>3, <3>5, <3>10, <3>11 DEF one
  <2> QED
    BY <2>1, <2>2
<1> HIDE DEF s, up, on
<1>8. ci' = [ci EXCEPT ![L] = up, ![co] = on]
  BY <1>4 DEF s, up, on
<1>9. /\ ci' \in [Thread -> Seq(CallBody \cup Tops)] /\ ci'[L] = up /\ ci'[co] = on
      /\ \A th \in Thread \ {L, co} : ci'[th] = ci[th]
  <2> DEFINE Stack == Seq(CallBody \cup Tops)
  <2>1. ci \in [Thread -> Stack] /\ L \in Thread /\ co \in Thread /\ co # L /\ up \in Stack /\ on \in Stack
    BY <1>1, <1>2, <1>3, <1>4, <1>5, <1>7
  <2> HIDE DEF Stack
  <2>2. /\ ci' \in [Thread -> Stack] /\ ci'[L] = up /\ ci'[co] = on
        /\ \A th \in Thread \ {L, co} : ci'[th] = ci[th]
    BY <1>8, <2>1
  <2> QED
    BY <2>2 DEF Stack
<1>10. /\ co_status' \in [Thread -> {"ok", "yield", "error"}] /\ co_status'[co] = "ok"
       /\ \A th \in Thread \ {co} : co_status'[th] = co_status[th]
  BY <1>1, <1>3
<1>11. /\ running' \in Seq(Thread) /\ Len(running') = Len(running) + 1 /\ running' # <<>>
       /\ \A i \in 1 .. Len(running) : running'[i] = running[i]
       /\ running'[Len(running) + 1] = co
  <2> DEFINE n == Len(running)
             longer == Append(running, co)
  <2>1. n \in Nat /\ running \in Seq(Thread) /\ co \in Thread
    BY <1>1, <1>2, <1>3
  <2>2. longer \in Seq(Thread) /\ Len(longer) = n + 1 /\ \A i \in 1 .. n : longer[i] = running[i]
    BY <2>1
  <2>3. longer[n + 1] = co
    BY <2>1
  <2>4. longer # <<>>
    BY <2>1
  <2> QED
    BY <2>2, <2>3, <2>4
<1>12. L' = co
  <2>1. L' = running'[Len(running')]
    BY DEF L, Last
  <2> QED
    BY <1>11, <2>1
<1>13. CallTypes'
  <2>1. \A i \in 2 .. Len(running') : running'[i] \in created
    <3>1. TAKE i \in 2 .. Len(running')
    <3>2. i = Len(running) + 1 \/ (i \in 2 .. Len(running) /\ i \in 1 .. Len(running))
      <4> DEFINE n == Len(running)
                 m == Len(running')
      <4>1. n \in Nat /\ n >= 1 /\ m = n + 1 /\ i \in 2 .. m
        BY <1>2, <1>11, <3>1
      <4> HIDE DEF n, m
      <4>2. i = n + 1 \/ (i \in 2 .. n /\ i \in 1 .. n)
        BY <4>1
      <4> QED
        BY <4>2 DEF n
    <3> QED
      BY <1>1, <1>11, <3>2
  <2>2. running'[1] = MainThread
    <3>1. 1 \in 1 .. Len(running)
      BY <1>2
    <3> QED
      BY <1>1, <1>11, <3>1
  <2>3. \A i, j \in 1 .. Len(running') : running'[i] = running'[j] => i = j
    <3>1. TAKE i, j \in 1 .. Len(running')
    <3>2. /\ i = Len(running) + 1 \/ (i \in 1 .. Len(running) /\ running'[i] = running[i] /\ running[i] # co)
          /\ j = Len(running) + 1 \/ (j \in 1 .. Len(running) /\ running'[j] = running[j] /\ running[j] # co)
      <4> DEFINE n == Len(running)
                 m == Len(running')
      <4>1. n \in Nat /\ n >= 1 /\ m = n + 1 /\ i \in 1 .. m /\ j \in 1 .. m
        BY <1>2, <1>11, <3>1
      <4>2. \A l \in 1 .. n : running'[l] = running[l] /\ running[l] # co
        BY <1>4, <1>11 DEF IsRunning
      <4> HIDE DEF n, m
      <4>3. (i = n + 1 \/ i \in 1 .. n) /\ (j = n + 1 \/ j \in 1 .. n)
        BY <4>1
      <4>4. /\ i = n + 1 \/ (i \in 1 .. n /\ running'[i] = running[i] /\ running[i] # co)
            /\ j = n + 1 \/ (j \in 1 .. n /\ running'[j] = running[j] /\ running[j] # co)
        BY <4>2, <4>3
      <4> QED
        BY <4>4 DEF n
    <3> QED
      BY <1>1, <1>11, <3>2
  <2> QED
    BY <1>1, <1>9, <1>10, <1>11, <2>1, <2>2, <2>3 DEF CallTypes
<1>14. ASSUME NEW th \in Thread, co_status'[th] # "error"
       PROVE  /\ Agrees(th, ci'[th], nCcalls'[th], errfunc'[th])
              /\ nCcalls'[th] >= LUAI_MAXCCALLS => th = L' /\ thrown' # NoError
  <2>0. nCcalls[th] \in Nat /\ LUAI_MAXCCALLS \in Nat
    BY <1>1, LuaCallAssumption
  <2>1. CASE th = L
    BY <1>2, <1>5, <1>9, <2>0, <2>1
  <2>2. CASE th = co
    BY <1>6, <1>7, <1>9, <2>2
  <2>3. CASE th # L /\ th # co
    BY <1>9, <1>10, <1>14, <2>3 DEF CallInv
  <2> QED
    BY <2>1, <2>2, <2>3
<1>15. ASSUME NEW i \in 1 .. Len(running') - 1 PROVE WaitsForResume(running[i])' /\ running'[i] = running[i]
  <2>1. i \in 1 .. Len(running) /\ running'[i] = running[i] /\ Len(running) \in 1 .. Len(running)
    BY <1>2, <1>11
  <2>2. running[i] \in Thread \ {co}
    BY <1>1, <1>4, <2>1 DEF IsRunning
  <2>3. CASE i = Len(running)
    <3>1. running[i] = L /\ running'[i] = L /\ L # co
      BY <1>2, <1>4, <2>1, <2>3
    <3>2. ci'[L] = up /\ co_status'[L] = "ok"
      BY <1>2, <1>4, <1>9, <1>10
    <3> QED
      BY <1>5, <3>1, <3>2 DEF WaitsForResume, Resume
  <2>4. CASE i # Len(running)
    <3>1. i \in 1 .. Len(running) - 1
      BY <1>2, <2>1, <2>4
    <3>2. WaitsForResume(running[i])
      BY <3>1 DEF CallInv
    <3>3. running[i] # L
      BY <1>1, <1>2, <2>1, <2>4
    <3>4. ci'[running[i]] = ci[running[i]] /\ co_status'[running[i]] = co_status[running[i]]
      BY <1>9, <1>10, <2>2, <3>3
    <3> QED
      BY <2>1, <3>2, <3>4 DEF WaitsForResume, Resume
  <2> QED
    BY <2>3, <2>4
<1>16. ASSUME NEW th \in Thread, ~IsRunning(th)' PROVE Rests(th)'
  <2>1. ~IsRunning(th) /\ th # co
    <3>1. Len(running) + 1 \in 1 .. Len(running')
      BY <1>2, <1>11
    <3>2. \A i \in 1 .. Len(running) : i \in 1 .. Len(running')
      BY <1>2, <1>11
    <3> QED
      BY <1>11, <1>16, <3>1, <3>2 DEF IsRunning
  <2>2. Rests(th) /\ th # L
    BY <1>2, <2>1 DEF CallInv
  <2> QED
    BY <1>9, <1>10, <2>1, <2>2 DEF Rests
<1>17. ASSUME NEW idle \in fresh' PROVE ci'[idle] = <<>> /\ ~IsRunning(idle)'
  <2>1. ci[idle] = <<>> /\ ~IsRunning(idle) /\ idle \in Thread /\ idle # co
    BY <1>1, <1>17 DEF CallInv, Thread
  <2>2. idle # L
    BY <1>2, <2>1
  <2>3. \A i \in 1 .. Len(running') : i = Len(running) + 1 \/ i \in 1 .. Len(running)
    BY <1>2, <1>11
  <2>4. ~IsRunning(idle)'
    BY <1>11, <2>1, <2>3 DEF IsRunning
  <2> QED
    BY <1>9, <2>1, <2>2, <2>4
<1>18. /\ co_status'[L'] = "ok" /\ ci'[L'] # <<>> /\ ci'[L'][Len(ci'[L'])] \in CallBody
       /\ thrown' = NoError => Ready(L', ci'[L'])
       /\ thrown' # NoError => thrown' = errfunc'[L']
  <2>1. on # <<>> /\ on[Len(on)] \in CallBody
    BY <1>7 DEF Ready
  <2> QED
    BY <1>2, <1>7, <1>9, <1>10, <1>12, <2>1
<1>19. catch'.by = catch'.at
  BY DEF CallInv
<1> QED
  BY <1>13, <1>14, <1>15, <1>16, <1>17, <1>18, <1>19 DEF CallInv

\* A new coroutine has no call and does not run.
LEMMA CreateStep ==
  ASSUME CallInv, NEW co \in Co, luaB_cocreate(co)
  PROVE  CallInv'
<1>1. /\ created' = created \cup {co} /\ fresh' = fresh \cup {co} /\ co \notin created
      /\ UNCHANGED <<co_status, ci, nCcalls, errfunc, running, thrown, catch>>
  BY DEF luaB_cocreate
<1>2. co \in Thread /\ co # MainThread /\ L' = L
  BY <1>1, LuaCallAssumption DEF Thread, L
<1>3. ~IsRunning(co)
  <2>1. running[1] = MainThread /\ \A i \in 2 .. Len(running) : running[i] \in created
    BY DEF CallInv, CallTypes
  <2>2. \A i \in 1 .. Len(running) : i = 1 \/ i \in 2 .. Len(running)
    BY TheRunning
  <2> QED
    BY <1>1, <1>2, <2>1, <2>2 DEF IsRunning
<1>4. ci[co] = <<>>
  BY <1>1, <1>2, <1>3 DEF CallInv, Rests
<1>5. CallTypes'
  BY <1>1 DEF CallInv, CallTypes
<1>6. ASSUME NEW th \in Thread, ~IsRunning(th)' PROVE Rests(th)'
  <2>1. ~IsRunning(th)
    BY <1>1, <1>6 DEF IsRunning
  <2>2. Rests(th)
    BY <2>1 DEF CallInv
  <2>3. CASE th = co
    BY <1>1, <1>4, <2>2, <2>3 DEF Rests
  <2>4. CASE th # co
    BY <1>1, <2>2, <2>4 DEF Rests
  <2> QED
    BY <2>3, <2>4
<1>7. ASSUME NEW idle \in fresh' PROVE ci'[idle] = <<>> /\ ~IsRunning(idle)'
  <2>1. ci[idle] = <<>> /\ ~IsRunning(idle)
    BY <1>1, <1>3, <1>4 DEF CallInv
  <2> QED
    BY <1>1, <2>1 DEF IsRunning
<1>8. \A th \in Thread : co_status'[th] # "error" =>
        /\ Agrees(th, ci'[th], nCcalls'[th], errfunc'[th])
        /\ nCcalls'[th] >= LUAI_MAXCCALLS => th = L' /\ thrown' # NoError
  BY <1>1, <1>2 DEF CallInv
<1>9. \A i \in 1 .. Len(running) - 1 : WaitsForResume(running[i])'
  BY <1>1 DEF CallInv, WaitsForResume, Resume
<1>10. /\ co_status'[L'] = "ok" /\ ci'[L'] # <<>> /\ ci'[L'][Len(ci'[L'])] \in CallBody
       /\ thrown' = NoError => Ready(L', ci'[L'])
       /\ thrown' # NoError => thrown' = errfunc'[L'] /\ catch'.by = catch'.at
  BY <1>1, <1>2 DEF CallInv
<1>11. catch'.by = catch'.at
  BY <1>1 DEF CallInv
<1> QED
  BY <1>1, <1>5, <1>6, <1>7, <1>8, <1>9, <1>10, <1>11 DEF CallInv

\* An error, or what a failed call leaves: the calls stay.
LEMMA ThrowStep ==
  ASSUME CallInv, thrown = NoError, UNCHANGED <<created, co_status, fresh, ci, running, nCcalls, errfunc, catch>>,
         thrown' \in {NoError, errfunc[L]}
  PROVE  CallInv'
<1>1. /\ nCcalls \in [Thread -> Nat] /\ errfunc \in [Thread -> Handler \cup {0}] /\ catch.by = catch.at
      /\ ci \in [Thread -> Seq(CallBody \cup Tops)]
  BY DEF CallInv, CallTypes
<1>2. /\ L \in Thread /\ Agrees(L, ci[L], nCcalls[L], errfunc[L]) /\ errfunc[L] \in Handler \cup {0}
      /\ nCcalls[L] \in Nat /\ nCcalls[L] < LUAI_MAXCCALLS /\ Ready(L, ci[L])
  BY TheRunning
<1>3. /\ ci' = [ci EXCEPT ![L] = ci[L]] /\ nCcalls' = [nCcalls EXCEPT ![L] = nCcalls[L]]
      /\ errfunc' = [errfunc EXCEPT ![L] = errfunc[L]]
  BY <1>1, <1>2
<1>4. ci[L] # <<>> /\ ci[L][Len(ci[L])] \in CallBody
  BY <1>2 DEF Ready
<1>5. UNCHANGED <<created, co_status, fresh, running>> /\ catch'.by = catch'.at
  BY <1>1
<1>6. thrown' # NoError => thrown' = errfunc[L]
  OBVIOUS
<1> DEFINE s == ci[L]
           n == nCcalls[L]
           e == errfunc[L]
<1>7. /\ n \in Nat /\ e \in Handler \cup {0} /\ Agrees(L, s, n, e) /\ s # <<>> /\ s[Len(s)] \in CallBody
      /\ ci' = [ci EXCEPT ![L] = s] /\ nCcalls' = [nCcalls EXCEPT ![L] = n] /\ errfunc' = [errfunc EXCEPT ![L] = e]
      /\ thrown' = NoError => Ready(L, s) /\ n < LUAI_MAXCCALLS
      /\ thrown' # NoError => thrown' = e
  BY <1>2, <1>3, <1>4, <1>6
<1> HIDE DEF s, n, e
<1> QED
  BY <1>5, <1>7, OwnStep

\* Two frames put on at once are put on one after the other.
LEMMA AddedCalls ==
  ASSUME NEW S, NEW s \in Seq(S), NEW a \in S, NEW b \in S
  PROVE  s \o <<a>> = Append(s, a) /\ s \o <<a, b>> = Append(Append(s, a), b)
OBVIOUS

\* A call of a Lua function, by Lua or by luabash.
LEMMA PrecallStep ==
  ASSUME CallInv, luaD_precall \/ CallFunction
  PROVE  CallInv'
<1> DEFINE s == ci[L]
           n == nCcalls[L]
           e == errfunc[L]
           t == Append(s, LuaFn)
           n2 == IF L = MainThread /\ Len(s) = 1 THEN n + 1 ELSE n
<1>1. /\ ci \in [Thread -> Seq(CallBody \cup Tops)] /\ nCcalls \in [Thread -> Nat]
      /\ errfunc \in [Thread -> Handler \cup {0}] /\ catch.by = catch.at
  BY DEF CallInv, CallTypes
<1>2. thrown = NoError /\ UNCHANGED <<created, co_status, fresh, running, errfunc, thrown, catch>>
  BY DEF luaD_precall, CallFunction, Runs, coroutines
<1>3. /\ L \in Thread /\ Agrees(L, s, n, e) /\ s # <<>> /\ s[Len(s)] \in CallBody /\ frame = s[Len(s)]
      /\ n \in Nat /\ n < LUAI_MAXCCALLS /\ e \in Handler \cup {0} /\ s \in Seq(CallBody \cup Tops)
  BY <1>1, <1>2, TheRunning
<1>4. Agrees(L, t, n2, e) /\ Len(t) = Len(s) + 1 /\ t[Len(s) + 1] = LuaFn
  BY <1>3, PushLua
<1>5. LuaFn \in CallBody /\ t # <<>> /\ s \o <<LuaFn>> = t
  <2>1. LuaFn \in CallBody
    BY DEF CallBody
  <2> QED
    BY <1>3, <2>1, AddedCalls
<1>6. ci' = [ci EXCEPT ![L] = t]
  <2>1. ci' = [ci EXCEPT ![L] = @ \o <<LuaFn>>]
    BY DEF luaD_precall, CallFunction, PushFrames
  <2> QED
    BY <1>5, <2>1
<1>7. nCcalls' = [nCcalls EXCEPT ![L] = n2]
  <2>1. CASE luaD_precall
    <3>1. ~(L = MainThread /\ Len(s) = 1)
      BY <1>3, <2>1, MainBase DEF luaD_precall, Runs, Agrees
    <3> QED
      BY <1>1, <1>3, <2>1, <3>1 DEF luaD_precall
  <2>2. CASE CallFunction
    BY <2>2 DEF CallFunction
  <2> QED
    BY <2>1, <2>2
<1>8. n2 \in Nat /\ n2 < LUAI_MAXCCALLS
  <2>1. CASE L = MainThread /\ Len(s) = 1
    <3>1. n = 0
      BY <1>3, <2>1 DEF Agrees, Counted
    <3> QED
      BY <2>1, <3>1, LuaCallAssumption
  <2>2. CASE ~(L = MainThread /\ Len(s) = 1)
    BY <1>3, <2>2
  <2> QED
    BY <2>1, <2>2
<1>9. errfunc' = [errfunc EXCEPT ![L] = e]
  BY <1>1, <1>2, <1>3
<1> HIDE DEF s, n, e, t, n2
<1>10. Ready(L, t) /\ t[Len(t)] \in CallBody
  BY <1>4, <1>5 DEF Ready
<1>11. thrown' = NoError /\ catch'.by = catch'.at
  BY <1>1, <1>2
<1> QED
  BY <1>2, <1>3, <1>4, <1>5, <1>6, <1>7, <1>8, <1>9, <1>10, <1>11, OwnStep

\* A call by a C function, protected or not.
LEMMA WaitingStep ==
  ASSUME CallInv, NEW c \in CallBody, Waits(c), c.k = "pcall" => c.nCcalls = nCcalls[L] /\ c.errfunc = errfunc[L],
         luaD_call(c), errfunc' = [errfunc EXCEPT ![L] = IF c.k = "pcall" THEN c.handler ELSE errfunc[L]]
  PROVE  CallInv'
<1> DEFINE s == ci[L]
           n == nCcalls[L]
           e == errfunc[L]
           e2 == IF c.k = "pcall" THEN c.handler ELSE e
           t == Append(s, c)
           u == Append(t, LuaFn)
<1>1. /\ ci \in [Thread -> Seq(CallBody \cup Tops)] /\ catch.by = catch.at
  BY DEF CallInv, CallTypes
<1>2. thrown = NoError /\ UNCHANGED <<created, co_status, fresh, running, catch>> /\ frame = LuaFn
  BY DEF luaD_call, Runs, coroutines
<1>3. /\ L \in Thread /\ Agrees(L, s, n, e) /\ s # <<>> /\ s[Len(s)] = LuaFn
      /\ n \in Nat /\ n < LUAI_MAXCCALLS /\ e \in Handler \cup {0} /\ s \in Seq(CallBody \cup Tops)
  BY <1>1, <1>2, TheRunning
<1>4. e2 \in Handler \cup {0} /\ e2 # NoError
  <2>1. c.k = "pcall" => c.handler \in Handler \cup {0}
    BY BodyKinds
  <2> QED
    BY <1>3, <2>1, LuaCallAssumption DEF NoError
<1>5. Agrees(L, t, n + 1, e2) /\ Len(t) = Len(s) + 1 /\ t[Len(s) + 1] = c /\ Len(s) >= 1 /\ Len(s) \in Nat
  BY <1>3, PushWaiting
<1>6. LuaFn \in CallBody /\ t # <<>> /\ s \o <<c>> = t /\ s \o <<c, LuaFn>> = u
  <2>1. LuaFn \in CallBody
    BY DEF CallBody
  <2> QED
    BY <1>3, <2>1, AddedCalls
<1>7. nCcalls' = [nCcalls EXCEPT ![L] = n + 1] /\ n + 1 \in Nat
  BY <1>3 DEF luaD_call
<1>8. errfunc' = [errfunc EXCEPT ![L] = e2] /\ catch'.by = catch'.at
  BY <1>1, <1>2
<1>9. CASE nCcalls[L] + 1 < LUAI_MAXCCALLS
  <2>1. ci' = [ci EXCEPT ![L] = u] /\ thrown' = NoError
    <3>1. ci' = [ci EXCEPT ![L] = @ \o <<c, LuaFn>>] /\ thrown' = NoError
      BY <1>2, <1>9 DEF luaD_call, PushFrames
    <3> QED
      BY <1>6, <3>1
  <2> HIDE DEF s, t, n, e, e2
  <2>2. t[Len(t)] \in CallBody /\ ~(L = MainThread /\ Len(t) = 1)
    BY <1>5
  <2>3. Agrees(L, u, n + 1, e2) /\ Len(u) = Len(t) + 1 /\ u[Len(t) + 1] = LuaFn
    BY <1>5, <1>6, <2>2, PushLua
  <2>4. u # <<>>
    BY <1>5, <2>3
  <2> HIDE DEF u
  <2>5. Ready(L, u) /\ u[Len(u)] \in CallBody
    BY <1>6, <2>3, <2>4 DEF Ready
  <2>6. n + 1 < LUAI_MAXCCALLS
    BY <1>9 DEF n
  <2> QED
    BY <1>2, <1>4, <1>7, <1>8, <2>1, <2>3, <2>4, <2>5, <2>6, OwnStep
<1>10. CASE ~(nCcalls[L] + 1 < LUAI_MAXCCALLS)
  <2>1. ci' = [ci EXCEPT ![L] = t] /\ thrown' = e2
    <3>1. ci' = [ci EXCEPT ![L] = @ \o <<c>>] /\ thrown' = IF c.k = "pcall" THEN c.handler ELSE errfunc[L]
      BY <1>10 DEF luaD_call, PushFrames
    <3> QED
      BY <1>6, <3>1
  <2> HIDE DEF s, t, n, e, e2
  <2>2. t[Len(t)] \in CallBody
    BY <1>5
  <2> QED
    BY <1>2, <1>4, <1>5, <1>6, <1>7, <1>8, <2>1, <2>2, OwnStep
<1> QED
  BY <1>9, <1>10

\* A function of C is called, or a protected call made.
LEMMA CallStep ==
  ASSUME CallInv, CallC \/ \E h \in Handler \cup {0} : luaD_pcall(h)
  PROVE  CallInv'
<1>1. errfunc \in [Thread -> Handler \cup {0}] /\ nCcalls \in [Thread -> Nat]
  BY DEF CallInv, CallTypes
<1>2. L \in Thread /\ errfunc[L] \in Handler \cup {0} /\ nCcalls[L] \in Nat
  BY TheRunning
<1>3. CASE CallC
  <2>1. C \in CallBody /\ Waits(C) /\ C.k # "pcall"
    BY DEF CallBody, C, Waits
  <2>2. luaD_call(C) /\ errfunc' = [errfunc EXCEPT ![L] = errfunc[L]]
    BY <1>1, <1>2, <1>3 DEF CallC
  <2>3. errfunc' = [errfunc EXCEPT ![L] = IF C.k = "pcall" THEN C.handler ELSE errfunc[L]]
    BY <2>1, <2>2
  <2> QED
    BY <2>1, <2>2, <2>3, WaitingStep
<1>4. CASE \E h \in Handler \cup {0} : luaD_pcall(h)
  <2>1. PICK h \in Handler \cup {0} : luaD_pcall(h)
    BY <1>4
  <2> DEFINE c == Pcall(h, L)
  <2>2. /\ c \in CallBody /\ c.k = "pcall" /\ c.handler = h /\ c.nCcalls = nCcalls[L] /\ c.errfunc = errfunc[L]
    BY <1>2 DEF Pcall, CallBody
  <2>3. luaD_call(c) /\ errfunc' = [errfunc EXCEPT ![L] = h]
    BY <2>1 DEF luaD_pcall
  <2> HIDE DEF c
  <2>4. Waits(c)
    BY <2>2 DEF Waits
  <2>5. errfunc' = [errfunc EXCEPT ![L] = IF c.k = "pcall" THEN c.handler ELSE errfunc[L]]
    BY <2>2, <2>3
  <2> QED
    BY <2>2, <2>3, <2>4, <2>5, WaitingStep
<1> QED
  BY <1>3, <1>4

\* A function returns: to its caller, or the coroutine to the one that resumed it.
LEMMA ReturnStep ==
  ASSUME CallInv, luaD_poscall
  PROVE  CallInv'
<1> DEFINE s == ci[L]
           n == nCcalls[L]
           e == errfunc[L]
           m == Len(s)
           before == running[Len(running) - 1]
<1>1. /\ ci \in [Thread -> Seq(CallBody \cup Tops)] /\ catch.by = catch.at /\ nCcalls \in [Thread -> Nat]
      /\ errfunc \in [Thread -> Handler \cup {0}] /\ co_status \in [Thread -> {"ok", "yield", "error"}]
  BY DEF CallInv, CallTypes
<1>2. thrown = NoError /\ frame = LuaFn /\ UNCHANGED <<created, fresh, thrown, catch>>
  BY DEF luaD_poscall, Runs
<1>3. /\ L \in Thread /\ Agrees(L, s, n, e) /\ s # <<>> /\ s[m] = LuaFn /\ co_status[L] = "ok"
      /\ n \in Nat /\ n < LUAI_MAXCCALLS /\ e \in Handler \cup {0} /\ s \in Seq(CallBody \cup Tops)
  BY <1>1, <1>2, TheRunning
<1>4. thrown' = NoError /\ catch'.by = catch'.at
  BY <1>1, <1>2
<1>5. CASE m > 1 /\ s[m - 1] = LuaFn /\ ci' = CutFrames(L, m - 1) /\ UNCHANGED <<co_status, nCcalls, errfunc, running>>
  <2> DEFINE t == SubSeq(s, 1, m - 1)
  <2>1. s[m].k = "lua"
    BY <1>3 DEF LuaFn
  <2>2. Agrees(L, t, n, e) /\ Ready(L, t)
    BY <1>3, <1>5, <2>1, PopToLua
  <2>3. ci' = [ci EXCEPT ![L] = t]
    BY <1>5 DEF CutFrames
  <2>4. nCcalls' = [nCcalls EXCEPT ![L] = n] /\ errfunc' = [errfunc EXCEPT ![L] = e]
    BY <1>1, <1>3, <1>5
  <2>5. UNCHANGED <<created, co_status, fresh, running>>
    BY <1>2, <1>5
  <2> HIDE DEF t, s, n, e, m
  <2>6. t # <<>> /\ t[Len(t)] \in CallBody
    BY <2>2 DEF Ready
  <2> QED
    BY <1>3, <1>4, <2>2, <2>3, <2>4, <2>5, <2>6, OwnStep
<1>6. CASE /\ m > 1 /\ s[m - 1] # LuaFn
           /\ ci' = CutFrames(L, IF m = 2 /\ L = MainThread THEN 1 ELSE m - 2) /\ nCcalls' = [nCcalls EXCEPT ![L] = @ - 1]
           /\ errfunc' = IF s[m - 1].k = "pcall" THEN [errfunc EXCEPT ![L] = s[m - 1].errfunc] ELSE errfunc
           /\ UNCHANGED <<co_status, running>>
  <2> DEFINE t == SubSeq(s, 1, IF m = 2 /\ L = MainThread THEN 1 ELSE m - 2)
             e2 == IF s[m - 1].k = "pcall" THEN s[m - 1].errfunc ELSE e
  <2>1. Agrees(L, t, n - 1, e2) /\ Ready(L, t) /\ n >= 1
    BY <1>3, <1>6, PopWaiting
  <2>2. ci' = [ci EXCEPT ![L] = t] /\ nCcalls' = [nCcalls EXCEPT ![L] = n - 1]
    BY <1>6 DEF CutFrames
  <2>3. errfunc' = [errfunc EXCEPT ![L] = e2]
    BY <1>1, <1>3, <1>6
  <2>4. UNCHANGED <<created, co_status, fresh, running>>
    BY <1>2, <1>6
  <2>5. n - 1 \in Nat /\ n - 1 < LUAI_MAXCCALLS
    BY <1>3, <2>1, LuaCallAssumption
  <2>6. e2 \in Handler \cup {0}
    <3>1. m - 1 \in 1 .. Len(s)
      BY <1>3, <1>6
    <3>2. s[m - 1] \in CallBody \cup Tops
      BY <1>3, <3>1
    <3> QED
      BY <1>3, <3>2, BodyKinds
  <2> HIDE DEF t, s, n, e, m, e2
  <2>7. t # <<>> /\ t[Len(t)] \in CallBody
    BY <2>1 DEF Ready
  <2> QED
    BY <1>4, <2>1, <2>2, <2>3, <2>4, <2>5, <2>6, <2>7, OwnStep
<1>7. CASE /\ m = 1 /\ L # MainThread /\ running' = Front(running)
           /\ ci' = [ci EXCEPT ![before] = Front(@), ![L] = <<>>]
           /\ UNCHANGED <<co_status, nCcalls, errfunc>>
  <2>1. CallsIn(s, 0 + 1) = n /\ HandlerIs(s, 0 + 1, e) /\ s[0 + 1] = LuaFn
    BY <1>3, <1>7 DEF Agrees, Counted
  <2>2. ~Waits(LuaFn) /\ LuaFn.k # "pcall"
    BY DEF LuaFn, Waits
  <2>3. n = 0 /\ e = 0
    BY <2>1, <2>2, CallsInStep, HandlerStep
  <2> DEFINE none == <<>>
  <2>4. none \in Seq(CallBody \cup Tops) /\ Len(none) = 0
    OBVIOUS
  <2>5. CallsIn(none, 0) = 0 /\ HandlerIs(none, 0, 0)
    BY CallsInStep, HandlerStep
  <2>6. Agrees(L, none, n, e)
    BY <1>7, <2>3, <2>4, <2>5 DEF Agrees, Frames, FirstCall, Counted
  <2>7. co_status' = [co_status EXCEPT ![L] = "ok"]
    BY <1>1, <1>3, <1>7
  <2>8. /\ ci' = [ci EXCEPT ![before] = Front(@), ![L] = none] /\ none = <<>>
        /\ UNCHANGED <<created, fresh, nCcalls, errfunc>> /\ thrown' \in {NoError, errfunc[before]} /\ catch' = catch
    BY <1>2, <1>4, <1>7
  <2>9. before = running[Len(running) - 1] /\ L # MainThread /\ running' = Front(running)
    BY <1>7
  <2> DEFINE ok == "ok"
  <2>10. ok = "ok" /\ ok \in {"ok", "yield", "error"} /\ co_status' = [co_status EXCEPT ![L] = ok]
    BY <2>7
  <2>11. Agrees(L, none, nCcalls[L], errfunc[L]) /\ nCcalls[L] < LUAI_MAXCCALLS
    BY <1>3, <2>6
  <2> HIDE DEF none, before, ok
  <2> QED
    BY <2>4, <2>8, <2>9, <2>10, <2>11, LeaveStep
<1> QED
  BY <1>5, <1>6, <1>7 DEF luaD_poscall

\* An error is caught by the latest protected call of the thread.
LEMMA CatchStep ==
  ASSUME CallInv, Caught
  PROVE  CallInv'
<1> DEFINE s == ci[L]
           n == nCcalls[L]
           e == errfunc[L]
           i == TopOf(Protected(L))
           p == s[i]
           t == SubSeq(s, 1, IF i = 1 /\ L = MainThread THEN 1 ELSE i - 1)
<1>1. /\ ci \in [Thread -> Seq(CallBody \cup Tops)]
      /\ thrown # NoError => thrown = errfunc[L]
  BY DEF CallInv, CallTypes
<1>2. /\ L \in Thread /\ Agrees(L, s, n, e) /\ s # <<>> /\ s \in Seq(CallBody \cup Tops)
      /\ e \in Handler \cup {0} /\ n \in Nat
  BY <1>1, TheRunning
<1>3. thrown # NoError /\ Protected(L) # {} /\ thrown' = NoError /\ UNCHANGED <<created, co_status, fresh, running>>
      /\ ci' = CutFrames(L, IF i = 1 /\ L = MainThread THEN 1 ELSE i - 1) /\ Restored(p)
      /\ catch' = [by |-> thrown, at |-> p.handler]
  BY DEF Caught, coroutines
<1>4. i \in 1 .. Len(s) /\ s[i].k = "pcall" /\ \A j \in 1 .. Len(s) : s[j].k = "pcall" => j <= i
  <2>1. Protected(L) = {j \in 1 .. Len(s) : s[j].k = "pcall"}
    BY <1>2 DEF Protected
  <2>2. PICK j \in 1 .. Len(s) : s[j].k = "pcall" /\ \A k \in j + 1 .. Len(s) : s[k].k # "pcall"
    BY <1>2, <1>3, <2>1 DEF Agrees, HandlerIs
  <2>3. Len(s) \in Nat
    BY <1>2
  <2>4. \A k \in Protected(L) : k <= j
    BY <2>1, <2>2, <2>3
  <2>5. j \in Protected(L) /\ \A k \in Protected(L) : k \in Int
    BY <2>1, <2>2
  <2>6. i \in Protected(L) /\ \A k \in Protected(L) : k <= i
    BY <2>4, <2>5 DEF TopOf
  <2> QED
    BY <2>1, <2>6
<1> HIDE DEF i
<1>5. /\ e = p.handler /\ p.nCcalls < LUAI_MAXCCALLS /\ p \in CallBody
      /\ Agrees(L, t, p.nCcalls, p.errfunc) /\ Ready(L, t)
  <2>1. t = LeftUnder(L, s, i) /\ p = s[i]
    BY DEF LeftUnder
  <2>2. Agrees(L, s, n, e)
    BY <1>2
  <2>3. LatestIs(s, i)
    BY <1>4 DEF LatestIs
  <2> HIDE DEF s, n, e, t, p
  <2>4. /\ e = s[i].handler /\ s[i].nCcalls < LUAI_MAXCCALLS /\ s[i] \in CallBody
        /\ Agrees(L, LeftUnder(L, s, i), s[i].nCcalls, s[i].errfunc) /\ Ready(L, LeftUnder(L, s, i))
    BY ONLY <2>2, <2>3, PopProtected
  <2> QED
    BY <2>1, <2>4
<1>6. p.nCcalls \in Nat /\ p.errfunc \in Handler \cup {0}
  BY <1>4, <1>5, BodyKinds
<1>7. /\ ci' = [ci EXCEPT ![L] = t] /\ nCcalls' = [nCcalls EXCEPT ![L] = p.nCcalls]
      /\ errfunc' = [errfunc EXCEPT ![L] = p.errfunc]
  BY <1>3 DEF CutFrames, Restored
<1>8. catch'.by = catch'.at
  BY <1>1, <1>3, <1>5
<1> HIDE DEF s, n, e, p, t
<1>9. t # <<>> /\ t[Len(t)] \in CallBody
  BY <1>5 DEF Ready
<1> QED
  BY <1>3, <1>5, <1>6, <1>7, <1>8, <1>9, OwnStep

\* An error no one protects from ends the coroutine, and goes to the one that
\* resumed it.
LEMMA DieStep ==
  ASSUME CallInv, Dies
  PROVE  CallInv'
<1> DEFINE s == ci[L]
           before == running[Len(running) - 1]
<1>1. ci \in [Thread -> Seq(CallBody \cup Tops)]
  BY DEF CallInv, CallTypes
<1>2. L \in Thread /\ s # <<>> /\ s \in Seq(CallBody \cup Tops) /\ Agrees(L, s, nCcalls[L], errfunc[L])
  BY <1>1, TheRunning
<1>3. /\ Protected(L) = {} /\ co_status' = [co_status EXCEPT ![L] = "error"] /\ running' = Front(running)
      /\ ci' = [ci EXCEPT ![before] = Front(@)] /\ thrown' \in {NoError, errfunc[before]}
      /\ UNCHANGED <<created, fresh, nCcalls, errfunc>> /\ catch' = catch
  BY DEF Dies, Leaves, Throw
<1>4. L # MainThread
  <2>1. SUFFICES ASSUME L = MainThread PROVE FALSE
    OBVIOUS
  <2>2. s[1].k = "pcall" /\ 1 \in DOMAIN s
    BY <1>2, <2>1, MainBase DEF Agrees
  <2> QED
    BY <1>3, <2>2 DEF Protected
<1>5. before \in Thread \ {L}
  BY <1>4, TheRunning
<1>6. ci' = [ci EXCEPT ![before] = Front(@), ![L] = s]
  BY <1>1, <1>2, <1>3, <1>5
<1> HIDE DEF s, before
<1>7. before = running[Len(running) - 1]
  BY DEF before
<1> QED
  BY <1>2, <1>3, <1>4, <1>6, <1>7, LeaveStep

\* A coroutine yields: it rests, and the one that resumed it runs.
LEMMA YieldStep ==
  ASSUME CallInv, lua_yield
  PROVE  CallInv'
<1> DEFINE s == ci[L]
           before == running[Len(running) - 1]
           t == Append(s, [k |-> "yield"])
<1>1. ci \in [Thread -> Seq(CallBody \cup Tops)]
  BY DEF CallInv, CallTypes
<1>2. thrown = NoError /\ frame = LuaFn /\ UNCHANGED <<created, fresh, nCcalls, errfunc, catch>>
  BY DEF lua_yield, Runs
<1>3. /\ L \in Thread /\ s # <<>> /\ s \in Seq(CallBody \cup Tops) /\ Agrees(L, s, nCcalls[L], errfunc[L])
      /\ nCcalls[L] \in Nat /\ s[Len(s)] = LuaFn /\ nCcalls[L] < LUAI_MAXCCALLS
  BY <1>1, <1>2, TheRunning
<1>4. CASE nCcalls[L] > 0
  <2>1. thrown' = errfunc[L] /\ UNCHANGED <<co_status, ci, running>>
    BY <1>4 DEF lua_yield, Throw
  <2> QED
    BY <1>2, <2>1, ThrowStep
<1>5. CASE ~(nCcalls[L] > 0)
  <2>1. nCcalls[L] = 0
    BY <1>3, <1>5
  <2>2. /\ co_status' = [co_status EXCEPT ![L] = "yield"] /\ running' = Front(running) /\ thrown' = thrown
        /\ ci' = [ci EXCEPT ![before] = Front(@), ![L] = Append(@, [k |-> "yield"])]
    BY <1>5 DEF lua_yield
  <2>3. L # MainThread
    <3>1. SUFFICES ASSUME L = MainThread PROVE FALSE
      OBVIOUS
    <3>2. Frames(L, s) /\ nCcalls[L] = Counted(L, s)
      BY <1>3 DEF Agrees
    <3>3. Waits(s[1]) /\ Len(s) \in Nat /\ 1 \in 1 .. Len(s) /\ ~(L = MainThread /\ Len(s) = 1)
      BY <1>3, <3>1, <3>2, MainBase DEF Waits
    <3>4. CallsIn(s, Len(s)) = 0
      BY <2>1, <3>2, <3>3 DEF Counted
    <3> QED
      BY <3>3, <3>4, CallsInStep
  <2>4. before \in Thread \ {L}
    BY <2>3, TheRunning
  <2>5. ci' = [ci EXCEPT ![before] = Front(@), ![L] = t]
    BY <1>1, <1>3, <2>2, <2>4
  <2> DEFINE y == [k |-> "yield"]
  <2>6. y \in Tops
    BY DEF Tops
  <2>7. Agrees(L, t, nCcalls[L], errfunc[L]) /\ Len(t) = Len(s) + 1 /\ t[Len(s) + 1] = y /\ Len(s) >= 1 /\ Len(s) \in Nat
    BY <1>3, <2>6, PushTop
  <2> HIDE DEF s, t, before
  <2>8. t \in Seq(CallBody \cup Tops)
    BY <2>7 DEF Agrees, Frames
  <2>9. Len(t) > 1 /\ t[Len(t)] = [k |-> "yield"]
    BY <2>7
  <2>10. before = running[Len(running) - 1] /\ thrown' \in {NoError, errfunc[before]}
    BY <1>2, <2>2 DEF before
  <2> QED
    BY <1>2, <1>3, <2>1, <2>2, <2>3, <2>5, <2>7, <2>8, <2>9, <2>10, LeaveStep
<1> QED
  BY <1>4, <1>5

\* Every step keeps the invariant.
LEMMA CallInvStep ==
  ASSUME CallInv, LuaCallNext
  PROVE  CallInv'
<1>1. CASE ErrorCall
  <2>1. thrown = NoError /\ thrown' = errfunc[L]
        /\ UNCHANGED <<created, co_status, fresh, ci, running, nCcalls, errfunc, catch>>
    BY <1>1 DEF ErrorCall, Runs, Throw, coroutines
  <2> QED
    BY <2>1, ThrowStep
<1>2. ASSUME NEW co \in Co, NEW wrap \in BOOLEAN, auxresume(co, wrap) PROVE CallInv'
  <2>1. Runs /\ thrown = NoError /\ co \in created /\ UNCHANGED <<created, nCcalls, errfunc, catch>>
    BY <1>2 DEF auxresume, Runs
  <2>2. CASE Resumable(co)
    <3>1. /\ running' = Append(running, co) /\ co_status' = [co_status EXCEPT ![co] = "ok"] /\ fresh' = fresh \ {co}
          /\ ci' = [ci EXCEPT ![L] = Append(@, Resume(wrap)),
                              ![co] = IF co_status[co] = "yield" THEN Front(@) ELSE <<LuaFn>>]
          /\ thrown' = thrown
      BY <1>2, <2>2 DEF auxresume
    <3> QED
      BY <2>1, <2>2, <3>1, ResumeStep
  <2>3. CASE ~Resumable(co)
    <3>1. thrown' \in {NoError, errfunc[L]} /\ UNCHANGED <<running, co_status, fresh, ci>>
      BY <1>2, <2>3 DEF auxresume
    <3> QED
      BY <2>1, <3>1, ThrowStep
  <2> QED
    BY <2>2, <2>3
<1> QED
  BY <1>1, <1>2, PrecallStep, CallStep, ReturnStep, CatchStep, DieStep, YieldStep, CreateStep DEF LuaCallNext

\* The invariant holds at the start.
LEMMA CallInvStart ==
  ASSUME LuaCallInit
  PROVE  CallInv
<1> DEFINE base == [k |-> "pcall", handler |-> 0, nCcalls |-> 0, errfunc |-> 0]
           first == <<base, LuaFn>>
           none == <<>>
<1>1. /\ created = {} /\ fresh = {} /\ running = <<MainThread>> /\ thrown = NoError
      /\ co_status = [th \in Thread |-> "ok"] /\ nCcalls = [th \in Thread |-> IF th = MainThread THEN 1 ELSE 0]
      /\ errfunc = [th \in Thread |-> 0] /\ catch = [by |-> 0, at |-> 0]
      /\ ci = [th \in Thread |-> IF th = MainThread THEN first ELSE none]
  BY DEF LuaCallInit
<1>2. base \in CallBody /\ LuaFn \in CallBody /\ LuaFn.k # "pcall" /\ ~Waits(LuaFn) /\ Waits(base) /\ base # LuaFn
  BY DEF CallBody, LuaFn, Waits
<1>3. /\ base.k = "pcall" /\ base.handler = 0 /\ base.nCcalls = 0 /\ base.errfunc = 0
  OBVIOUS
<1>4. /\ first \in Seq(CallBody \cup Tops) /\ Len(first) = 2 /\ first[0 + 1] = base /\ first[1 + 1] = LuaFn
      /\ first # <<>> /\ first[1] = base /\ first[2] = LuaFn
  BY <1>2
<1>5. FirstCall(MainThread, first)
  BY <1>4 DEF FirstCall
<1> HIDE DEF base, first
<1>6. CallsIn(first, 0) = 0 /\ CallsIn(first, 1) = 1 /\ CallsIn(first, 2) = 1
  <2>1. CallsIn(first, 0) = 0 /\ CallsIn(first, 0 + 1) = CallsIn(first, 0) + 1
    BY <1>2, <1>4, CallsInStep
  <2>2. CallsIn(first, 1 + 1) = CallsIn(first, 1)
    BY <1>2, <1>4, CallsInStep
  <2> QED
    BY <2>1, <2>2
<1>7. HandlerIs(first, 0, 0) /\ HandlerIs(first, 2, 0)
  <2>1. HandlerIs(first, 0, 0) /\ HandlerIs(first, 0 + 1, 0)
    BY <1>3, <1>4, HandlerStep
  <2>2. HandlerIs(first, 1, 0)
    BY <2>1
  <2>3. HandlerIs(first, 1 + 1, 0)
    BY <1>2, <1>4, <2>2, HandlerStep
  <2> QED
    BY <2>1, <2>3
<1>8. Frames(MainThread, first)
  <2>1. \A i \in 1 .. Len(first) - 1 : first[i] \in CallBody /\ (first[i] # LuaFn => first[i + 1] = LuaFn)
    BY <1>2, <1>4
  <2>2. ASSUME NEW i \in 1 .. Len(first), first[i].k = "pcall"
        PROVE  /\ first[i].nCcalls = CallsIn(first, i - 1) /\ first[i].nCcalls < LUAI_MAXCCALLS
               /\ HandlerIs(first, i - 1, first[i].errfunc)
    <3>1. i = 1 /\ i - 1 = 0 /\ first[i] = base
      BY <1>2, <1>4, <2>2
    <3> QED
      BY <1>3, <1>6, <1>7, <3>1, LuaCallAssumption
  <2> QED
    BY <1>4, <1>5, <2>1, <2>2 DEF Frames
<1>9. Agrees(MainThread, first, 1, 0)
  BY <1>4, <1>6, <1>7, <1>8 DEF Agrees, Counted
<1>10. none \in Seq(CallBody \cup Tops) /\ Len(none) = 0
  OBVIOUS
<1>11. ASSUME NEW th, th # MainThread PROVE Agrees(th, none, 0, 0)
  <2>1. CallsIn(none, 0) = 0 /\ HandlerIs(none, 0, 0)
    BY CallsInStep, HandlerStep
  <2> QED
    BY <1>10, <1>11, <2>1 DEF Agrees, Frames, FirstCall, Counted
<1> HIDE DEF none
<1>12. MainThread \in Thread /\ L = MainThread /\ Len(running) = 1 /\ running[1] = MainThread /\ running \in Seq(Thread)
       /\ running # <<>>
  <2>1. MainThread \in Thread
    BY DEF Thread
  <2>2. Len(running) = 1 /\ running[1] = MainThread
    BY <1>1
  <2>3. L = MainThread
    BY <2>2 DEF L, Last
  <2> QED
    BY <1>1, <2>1, <2>2, <2>3
<1>13. ci \in [Thread -> Seq(CallBody \cup Tops)] /\ ci[MainThread] = first
       /\ \A th \in Thread \ {MainThread} : ci[th] = none
  BY <1>1, <1>4, <1>10, <1>12
<1>14. CallTypes
  BY <1>1, <1>12, <1>13 DEF CallTypes
<1>15. \A th \in Thread : co_status[th] # "error" =>
         /\ Agrees(th, ci[th], nCcalls[th], errfunc[th])
         /\ nCcalls[th] >= LUAI_MAXCCALLS => th = L /\ thrown # NoError
  BY <1>1, <1>9, <1>11, <1>12, <1>13, LuaCallAssumption
<1>16. Ready(L, ci[L]) /\ ci[L] # <<>> /\ ci[L][Len(ci[L])] \in CallBody /\ co_status[L] = "ok"
  BY <1>1, <1>2, <1>4, <1>12, <1>13 DEF Ready
<1>17. \A th \in Thread : ~IsRunning(th) => Rests(th)
  <2>1. IsRunning(MainThread)
    BY <1>12 DEF IsRunning
  <2> QED
    BY <1>1, <1>13, <2>1 DEF Rests, none
<1>18. \A i \in 1 .. Len(running) - 1 : WaitsForResume(running[i])
  BY <1>12
<1>19. catch.by = catch.at
  BY <1>1
<1> QED
  BY <1>1, <1>14, <1>15, <1>16, <1>17, <1>18, <1>19 DEF CallInv

\* The invariant gives what CallsRight says.
LEMMA CallInvRight ==
  ASSUME CallInv
  PROVE  CallsRight
<1>1. /\ created \subseteq Co /\ fresh \subseteq created
      /\ co_status \in [Thread -> {"ok", "yield", "error"}] /\ nCcalls \in [Thread -> Nat]
      /\ errfunc \in [Thread -> Handler \cup {0}]
      /\ ci \in [Thread -> Seq(CallBody \cup Tops)]
      /\ running \in Seq(Thread) /\ running[1] = MainThread
      /\ \A i, j \in 1 .. Len(running) : running[i] = running[j] => i = j
      /\ \A i \in 1 .. Len(running) - 1 : WaitsForResume(running[i])
  BY DEF CallInv, CallTypes
<1>2. /\ Len(running) \in Nat /\ Len(running) >= 1 /\ L = running[Len(running)] /\ L \in Thread
      /\ co_status[L] = "ok" /\ ci[L] # <<>>
  BY TheRunning
<1>3. ToSet(Front(running)) = {running[i] : i \in 1 .. Len(running) - 1}
  <2>1. Front(running) = SubSeq(running, 1, Len(running) - 1)
    BY DEF Front
  <2>2. DOMAIN Front(running) = 1 .. Len(running) - 1 /\ \A i \in 1 .. Len(running) - 1 : Front(running)[i] = running[i]
    BY <1>1, <1>2, <2>1
  <2> QED
    BY <2>2 DEF ToSet
<1>4. ToSet(running) = {running[i] : i \in 1 .. Len(running)}
  BY <1>1 DEF ToSet
<1>5. StatusTrue
  <2>1. SUFFICES ASSUME thrown = NoError, NEW co \in created
        PROVE  LET s == luaB_costatus(co)
               IN /\ (s = "running") = (co = L)
                  /\ (s = "normal") = (co \in ToSet(Front(running)))
                  /\ s = "suspended" => Resumable(co) /\ ~(co \in ToSet(running))
                  /\ s = "dead" => ~Resumable(co)
    BY DEF StatusTrue
  <2>2. co \in Thread /\ co_status[co] \in {"ok", "yield", "error"}
    BY <1>1 DEF Thread
  <2>3. CASE co = L
    <3>1. luaB_costatus(co) = "running"
      BY <2>3 DEF luaB_costatus
    <3>2. \A i \in 1 .. Len(running) - 1 : running[i] # L
      <4>1. SUFFICES ASSUME NEW i \in 1 .. Len(running) - 1, running[i] = L PROVE FALSE
        OBVIOUS
      <4>2. i \in 1 .. Len(running) /\ Len(running) \in 1 .. Len(running) /\ i # Len(running)
        BY <1>1, <1>2
      <4>3. running[i] = running[Len(running)]
        BY <1>2, <4>1
      <4> QED
        BY <1>1, <4>2, <4>3
    <3>3. co \notin ToSet(Front(running))
      BY <1>3, <2>3, <3>2
    <3> QED
      BY <2>3, <3>1, <3>3
  <2>4. CASE co # L /\ IsRunning(co)
    <3>1. PICK i \in 1 .. Len(running) : running[i] = co
      BY <2>4 DEF IsRunning
    <3>2. i \in 1 .. Len(running) - 1
      BY <1>2, <2>4, <3>1
    <3>3. co \in ToSet(Front(running))
      BY <1>3, <3>1, <3>2
    <3>4. WaitsForResume(co)
      BY <1>1, <3>1, <3>2
    <3>5. co_status[co] = "ok" /\ ci[co] # <<>>
      BY <3>4 DEF WaitsForResume
    <3>6. luaB_costatus(co) = "normal"
      BY <2>4, <3>5 DEF luaB_costatus
    <3> QED
      BY <2>4, <3>3, <3>6
  <2>5. CASE ~IsRunning(co)
    <3>1. co # L /\ co \notin ToSet(Front(running)) /\ co \notin ToSet(running)
      <4>1. \A i \in 1 .. Len(running) - 1 : i \in 1 .. Len(running)
        BY <1>2
      <4> QED
        BY <1>2, <1>3, <1>4, <2>5, <4>1 DEF IsRunning
    <3>2. Rests(co)
      BY <2>2, <2>5 DEF CallInv
    <3>3. CASE co_status[co] = "yield"
      <4>1. luaB_costatus(co) = "suspended" /\ Resumable(co)
        BY <3>1, <3>3 DEF luaB_costatus, Resumable
      <4> QED
        BY <3>1, <4>1
    <3>4. CASE co_status[co] = "error"
      <4>1. luaB_costatus(co) = "dead" /\ ~Resumable(co)
        BY <3>1, <3>4 DEF luaB_costatus, Resumable
      <4> QED
        BY <3>1, <4>1
    <3>5. CASE co_status[co] = "ok"
      <4>1. ci[co] = <<>>
        BY <3>2, <3>5 DEF Rests
      <4>2. co \in fresh => luaB_costatus(co) = "suspended" /\ Resumable(co)
        BY <3>1, <3>5, <4>1 DEF luaB_costatus, Resumable, Finished
      <4>3. co \notin fresh => luaB_costatus(co) = "dead" /\ ~Resumable(co)
        BY <3>1, <3>5, <4>1 DEF luaB_costatus, Resumable, Finished
      <4> QED
        BY <3>1, <4>2, <4>3
    <3> QED
      BY <2>2, <3>3, <3>4, <3>5
  <2> QED
    BY <2>3, <2>4, <2>5
<1>6. CallsCounted
  <2>1. SUFFICES ASSUME thrown = NoError, NEW th \in Thread, co_status[th] # "error"
        PROVE  /\ nCcalls[th] = Waiting(th)
               /\ errfunc[th] = IF Protected(th) = {} THEN 0 ELSE ci[th][TopOf(Protected(th))].handler
               /\ nCcalls[th] < LUAI_MAXCCALLS
    BY DEF CallsCounted
  <2> DEFINE s == ci[th]
             n == nCcalls[th]
             e == errfunc[th]
  <2>2. /\ Agrees(th, s, n, e) /\ ~(n >= LUAI_MAXCCALLS) /\ n \in Nat
        /\ s \in Seq(CallBody \cup Tops) /\ Len(s) \in Nat /\ DOMAIN s = 1 .. Len(s)
    BY <1>1, <2>1 DEF CallInv
  <2>3. n < LUAI_MAXCCALLS
    BY <2>2, LuaCallAssumption
  <2>4. n = Waiting(th)
    <3> DEFINE W == {i \in DOMAIN s : s[i].k \in {"C", "pcall"} /\ (th # MainThread \/ i < Len(s))}
    <3>1. Waiting(th) = Cardinality(W)
      BY DEF Waiting
    <3>2. CASE th = MainThread /\ Len(s) = 1
      <4>1. W = {}
        BY <2>2, <3>2
      <4>2. n = 0
        BY <2>2, <3>2 DEF Agrees, Counted
      <4> QED
        BY <3>1, <4>1, <4>2, FS_EmptySet
    <3>3. CASE ~(th = MainThread /\ Len(s) = 1)
      <4>1. th = MainThread => ~Waits(s[Len(s)])
        <5>1. SUFFICES ASSUME th = MainThread PROVE ~Waits(s[Len(s)])
          OBVIOUS
        <5>2. IsRunning(th)
          BY <1>1, <1>2, <5>1 DEF IsRunning
        <5>3. CASE th = L
          <6>1. s[Len(s)] = LuaFn
            BY <2>1, <3>3, <5>1, <5>3, TheRunning DEF Ready
          <6> QED
            BY <6>1 DEF LuaFn, Waits
        <5>4. CASE th # L
          <6>1. PICK i \in 1 .. Len(running) : running[i] = th
            BY <5>2 DEF IsRunning
          <6>2. i \in 1 .. Len(running) - 1
            BY <1>2, <5>4, <6>1
          <6>3. WaitsForResume(th)
            BY <1>1, <6>1, <6>2
          <6> QED
            BY <6>3 DEF WaitsForResume, Resume, Waits
        <5> QED
          BY <5>3, <5>4
      <4>2. W = {i \in 1 .. Len(s) : s[i].k \in {"C", "pcall"}}
        <5>1. ASSUME NEW i \in 1 .. Len(s), s[i].k \in {"C", "pcall"} PROVE th # MainThread \/ i < Len(s)
          BY <2>2, <4>1, <5>1 DEF Waits
        <5> QED
          BY <2>2, <5>1
      <4>3. n = CallsIn(s, Len(s))
        BY <2>2, <3>3 DEF Agrees, Counted
      <4> QED
        BY <3>1, <4>2, <4>3 DEF CallsIn
    <3> QED
      BY <3>2, <3>3
  <2>5. e = IF Protected(th) = {} THEN 0 ELSE s[TopOf(Protected(th))].handler
    <3>1. Protected(th) = {i \in 1 .. Len(s) : s[i].k = "pcall"}
      BY <2>2 DEF Protected
    <3>2. HandlerIs(s, Len(s), e)
      BY <2>2 DEF Agrees
    <3>3. CASE e = 0 /\ \A i \in 1 .. Len(s) : s[i].k # "pcall"
      BY <3>1, <3>3
    <3>4. CASE \E i \in 1 .. Len(s) : s[i].k = "pcall" /\ s[i].handler = e /\ \A j \in i + 1 .. Len(s) : s[j].k # "pcall"
      <4>1. PICK i \in 1 .. Len(s) : s[i].k = "pcall" /\ s[i].handler = e /\ \A j \in i + 1 .. Len(s) : s[j].k # "pcall"
        BY <3>4
      <4>2. i \in Protected(th) /\ \A j \in Protected(th) : j <= i /\ j \in Int
        BY <2>2, <3>1, <4>1
      <4>3. TopOf(Protected(th)) \in Protected(th) /\ \A j \in Protected(th) : j <= TopOf(Protected(th))
        BY <4>2 DEF TopOf
      <4>4. TopOf(Protected(th)) = i
        <5> DEFINE k == TopOf(Protected(th))
        <5>1. k \in Int /\ k <= i
          BY <4>2, <4>3
        <5>2. i \in Int /\ i <= k
          BY <4>2, <4>3
        <5> HIDE DEF k
        <5>3. k = i
          BY <5>1, <5>2
        <5> QED
          BY <5>3 DEF k
      <4> QED
        BY <4>1, <4>2, <4>4
    <3> QED
      BY <3>2, <3>3, <3>4 DEF HandlerIs
  <2> QED
    BY <2>3, <2>4, <2>5
<1>7. HandledByCatcher
  BY DEF CallInv, HandledByCatcher
<1>8. NoCallInterrupted
  <2>1. SUFFICES ASSUME NEW co \in Co, co_status[co] = "yield" PROVE ToSet(Front(ci[co])) \subseteq {LuaFn}
    BY DEF NoCallInterrupted
  <2> DEFINE s == ci[co]
  <2>2. co \in Thread /\ co # MainThread
    BY LuaCallAssumption DEF Thread
  <2>3. ~IsRunning(co)
    <3>1. \A i \in 1 .. Len(running) : i = Len(running) \/ i \in 1 .. Len(running) - 1
      BY <1>2
    <3> QED
      BY <1>1, <1>2, <2>1, <3>1 DEF IsRunning, WaitsForResume
  <2>4. nCcalls[co] = 0 /\ Len(s) > 1
    BY <2>1, <2>2, <2>3 DEF CallInv, Rests
  <2>5. Agrees(co, s, nCcalls[co], errfunc[co])
    BY <2>1, <2>2 DEF CallInv
  <2>6. s \in Seq(CallBody \cup Tops) /\ \A i \in 1 .. Len(s) - 1 : s[i] \in CallBody
    BY <2>5 DEF Agrees, Frames
  <2>7. CallsIn(s, Len(s)) = 0 /\ Len(s) \in Nat
    BY <2>2, <2>4, <2>5, <2>6 DEF Agrees, Counted
  <2>8. ASSUME NEW i \in 1 .. Len(s) - 1 PROVE s[i] = LuaFn
    <3>1. ~Waits(s[i]) /\ s[i] \in CallBody
      BY <2>6, <2>7, CallsInStep
    <3>2. s[i] \in CallBody \cup Tops
      BY <3>1
    <3> QED
      BY <3>1, <3>2, BodyKinds DEF Waits
  <2>9. DOMAIN Front(s) = 1 .. Len(s) - 1 /\ \A i \in 1 .. Len(s) - 1 : Front(s)[i] = s[i]
    <3>1. Front(s) \in Seq(CallBody \cup Tops) /\ Len(Front(s)) = Len(s) - 1
          /\ \A i \in 1 .. Len(s) - 1 : Front(s)[i] = s[i]
      BY <2>4, <2>6, FrontOf
    <3> QED
      BY <3>1
  <2> QED
    BY <2>8, <2>9 DEF ToSet
<1> QED
  BY <1>5, <1>6, <1>7, <1>8 DEF CallsRight

\* However calls end, by return, error or yield, the state of every coroutine is
\* what became of it, what a thread has counted are the calls from C that wait in
\* it, an error goes to the function of the call that catches it, and a coroutine
\* that has yielded left no C function waiting.
THEOREM CallsHold == LuaCallSpec => []CallsRight
<1>1. LuaCallInit => CallInv
  BY CallInvStart
<1>2. CallInv /\ [LuaCallNext]_lua_call_vars => CallInv'
  <2>1. ASSUME CallInv, UNCHANGED lua_call_vars PROVE CallInv'
    <3>1. /\ created' = created /\ co_status' = co_status /\ fresh' = fresh /\ ci' = ci /\ nCcalls' = nCcalls
          /\ errfunc' = errfunc /\ running' = running /\ thrown' = thrown /\ catch' = catch
      BY <2>1 DEF lua_call_vars
    <3> QED
      BY <2>1, <3>1 DEF CallInv, CallTypes, WaitsForResume, Rests, IsRunning, L, Resume
  <2> QED
    BY <2>1, CallInvStep
<1>3. CallInv => CallsRight
  BY CallInvRight
<1> QED
  BY <1>1, <1>2, <1>3, PTL DEF LuaCallSpec

-----------------------------------------------------------------------------
(* The collector.                                                          *)

Values == Table \cup Function \cup String \cup Udata \cup {NilRef}

GCTypes ==
  /\ made \subseteq Obj /\ {Global, Main} \subseteq made
  /\ mark \in [Obj -> 0 .. 3] /\ currentwhite \in White
  /\ gcstate \in {"pause", "propagate", "sweepstring", "sweep", "finalize"}
  /\ gray \subseteq Listed /\ grayagain \subseteq Listed /\ weak \subseteq Weak
  /\ unswept \subseteq made
  /\ ref \in [Obj -> Values \cup Upval]
  /\ stack \in [Slots -> Values] /\ level \in [Upval -> Slots \cup {0}]
  /\ finalized \subseteq Udata /\ tmudata \subseteq finalized

\* Only closures refer to upvalues; an upvalue that is open has no value of its own.
RefTypes ==
  /\ \A o \in Table \cup Udata \cup Upval : ref[o] \in Values
  /\ \A f \in Function : ref[f] \in Upval \cup {NilRef} /\ (f \in made => ref[f] \in Upval)
  /\ \A o \in String \cup {Main} : ref[o] = NilRef
  /\ \A u \in Upval : u \notin made \/ level[u] # 0 => ref[u] = NilRef

\* What is not dead refers to nothing that is dead.
Alive == {o \in made : ~isdead(o)}
LiveRefs ==
  /\ ~wasted
  /\ {Global, Main} \cup OnStack \cup tmudata \subseteq Alive
  /\ \A o \in Alive : References(o) \subseteq Alive

\* What the sweeping has been at has the current white; what is dead is before
\* it, and open upvalues are if their thread is.
SweepInv ==
  /\ gcstate \in {"pause", "propagate", "finalize"} => unswept = {}
  /\ \A o \in made \ unswept : gcstate # "propagate" => mark[o] = currentwhite
  /\ \A o \in made : isdead(o) => o \in unswept
  /\ Main \notin unswept => Open \cap unswept = {}
  /\ \A u \in Open : mark[u] # Black

\* While marking: what is black has been traversed; what is gray will be.
ColouredAt(m, o) ==
  /\ m.mark[o] = Black => o \notin Weak \cup String \cup {Main} /\ (ref[o] # NilRef => m.mark[ref[o]] \notin White)
  /\ m.mark[o] = Gray => o \in String \cup Open \cup m.gray \cup m.grayagain \cup m.weak
Coloured(m) == \A o \in made : ColouredAt(m, o)
TriColour == gcstate = "propagate" => mark[Main] \notin White /\ Coloured(Marks)

GCInv == GCTypes /\ RefTypes /\ LiveRefs /\ SweepInv /\ TriColour

-----------------------------------------------------------------------------
(* What marking does to the marks.                                         *)

MarkRecs == [mark : [Obj -> 0 .. 3], gray : SUBSET Listed, grayagain : SUBSET Listed, weak : SUBSET Weak]

\* What is reached is among the objects asked for, and closed under To.
LEMMA ReachedHas ==
  ASSUME NEW W, NEW S, NEW To
  PROVE  /\ Reached(W, S, To) \subseteq W
         /\ S \cap W \subseteq Reached(W, S, To)
         /\ \A p \in Reached(W, S, To) : To[p] \cap W \subseteq Reached(W, S, To)
<1>1. Reached(W, S, To) \subseteq W /\ S \cap W \subseteq Reached(W, S, To)
  BY DEF Reached
<1>2. ASSUME NEW p \in Reached(W, S, To), NEW o \in To[p] \cap W
      PROVE  o \in Reached(W, S, To)
  <2>1. ASSUME NEW D \in SUBSET W, (S \cap W) \cup UNION {To[q] \cap W : q \in D} \subseteq D
        PROVE  o \in D
    <3>1. p \in D
      BY <2>1, <1>2 DEF Reached
    <3>2. o \in UNION {To[q] \cap W : q \in D}
      BY <3>1, <1>2
    <3> QED
      BY <2>1, <3>2
  <2> QED
    BY <2>1, <1>2 DEF Reached
<1> QED
  BY <1>1, <1>2

\* It is the least such set.
LEMMA ReachedLeast ==
  ASSUME NEW W, NEW S, NEW To, NEW E \in SUBSET W,
         S \cap W \subseteq E, \A p \in E : To[p] \cap W \subseteq E
  PROVE  Reached(W, S, To) \subseteq E
<1>1. (S \cap W) \cup UNION {To[p] \cap W : p \in E} \subseteq E
  OBVIOUS
<1> QED
  BY <1>1 DEF Reached

\* The kinds of objects, and the colours as numbers.
LEMMA Objects ==
  /\ Table \cup Function \cup String \cup Udata \cup Upval \cup {Main} = Obj
  /\ Listed \subseteq Obj /\ Listed \cap (String \cup Udata \cup Upval) = {}
  /\ NilRef \notin Obj /\ Gray = 2 /\ Black = 3 /\ White = {0, 1}
BY LuaGCAssumption DEF Obj, Listed, Gray, Black, White

\* What MarkAll changes: the marks of what it reaches, and the gray list.
LEMMA MarkAllFields ==
  ASSUME NEW m \in MarkRecs, NEW S, NEW D, D = Reached(Whites(m), S, AtOnce)
  PROVE  /\ MarkAll(m, S) \in MarkRecs
         /\ MarkAll(m, S).mark = [o \in Obj |-> IF o \in D THEN Marked(o) ELSE m.mark[o]]
         /\ MarkAll(m, S).gray = m.gray \cup (D \cap Listed)
         /\ MarkAll(m, S).grayagain = m.grayagain /\ MarkAll(m, S).weak = m.weak
<1> DEFINE mk == [o \in Obj |-> IF o \in D THEN Marked(o) ELSE m.mark[o]]
           gr == m.gray \cup (D \cap Listed)
<1>1. mk \in [Obj -> 0 .. 3] /\ gr \in SUBSET Listed
  BY Objects DEF MarkRecs, Marked
<1>2. MarkAll(m, S) = [m EXCEPT !.mark = mk, !.gray = gr]
  BY DEF MarkAll
<1> HIDE DEF mk, gr
<1>3. /\ m = [mark |-> m.mark, gray |-> m.gray, grayagain |-> m.grayagain, weak |-> m.weak]
      /\ m.grayagain \in SUBSET Listed /\ m.weak \in SUBSET Weak
  BY DEF MarkRecs
<1>4. MarkAll(m, S) = [mark |-> mk, gray |-> gr, grayagain |-> m.grayagain, weak |-> m.weak]
  BY <1>2, <1>3
<1> QED
  BY <1>1, <1>3, <1>4 DEF MarkRecs, mk, gr

\* What is marked stays so; what is marked now leads on to marked objects, or is
\* listed for it.
LEMMA MarkAllMarks ==
  ASSUME made \subseteq Obj, NEW m \in MarkRecs, NEW S, NEW n, n = MarkAll(m, S)
  PROVE  /\ n \in MarkRecs /\ n.grayagain = m.grayagain /\ n.weak = m.weak /\ m.gray \subseteq n.gray
         /\ \A o \in Obj : m.mark[o] \notin White => n.mark[o] = m.mark[o]
         /\ \A o \in Obj : n.mark[o] \in White => n.mark[o] = m.mark[o]
         /\ \A o \in made \cap S : n.mark[o] \notin White
         /\ \A o \in made : m.mark[o] \in White /\ n.mark[o] \notin White =>
              /\ n.mark[o] = Marked(o)
              /\ o \in Listed => o \in n.gray
              /\ \A v \in AtOnce[o] \cap made : n.mark[v] \notin White
<1> DEFINE D == Reached(Whites(m), S, AtOnce)
<1>1. /\ D \subseteq Whites(m) /\ S \cap Whites(m) \subseteq D
      /\ \A p \in D : AtOnce[p] \cap Whites(m) \subseteq D
  BY ReachedHas, Zenon
<1> HIDE DEF D
<1>2. /\ n \in MarkRecs
      /\ n.mark = [o \in Obj |-> IF o \in D THEN Marked(o) ELSE m.mark[o]]
      /\ n.gray = m.gray \cup (D \cap Listed)
      /\ n.grayagain = m.grayagain /\ n.weak = m.weak
  BY MarkAllFields DEF D
<1>3. \A o : Marked(o) \notin White
  BY DEF Marked, Gray, Black, White
<1>4. \A o \in D : o \in made /\ m.mark[o] \in White
  BY <1>1 DEF Whites
<1>5. \A o \in made : m.mark[o] \in White => o \in Whites(m)
  BY DEF Whites
<1>6. \A o \in Obj : n.mark[o] = IF o \in D THEN Marked(o) ELSE m.mark[o]
  BY <1>2
<1>7. \A o \in made : o \in D \/ m.mark[o] \notin White => n.mark[o] \notin White
  BY <1>3, <1>6
<1>8. \A o \in made \cap S : n.mark[o] \notin White
  BY <1>1, <1>5, <1>7
<1>9. \A o \in D : \A v \in AtOnce[o] \cap made : n.mark[v] \notin White
  BY <1>1, <1>5, <1>7
<1> QED
  BY <1>2, <1>3, <1>4, <1>6, <1>8, <1>9

\* Without upvalues to begin with, none is marked.
LEMMA MarkAllUpvals ==
  ASSUME made \subseteq Obj, RefTypes, NEW m \in MarkRecs, NEW S, NEW n, n = MarkAll(m, S), S \cap Upval = {}
  PROVE  \A u \in Upval : n.mark[u] = m.mark[u]
<1> DEFINE E == Whites(m) \ Upval
           D == Reached(Whites(m), S, AtOnce)
<1>1. S \cap Whites(m) \subseteq E
  OBVIOUS
<1>2. \A p \in E : AtOnce[p] \cap Whites(m) \subseteq E
  BY LuaGCAssumption DEF RefTypes, AtOnce, Values, Whites, Obj
<1> HIDE DEF E
<1>3. E \in SUBSET Whites(m)
  BY DEF E
<1>4. D \subseteq E
  BY <1>1, <1>2, <1>3, ReachedLeast
<1> HIDE DEF D
<1>5. n.mark = [o \in Obj |-> IF o \in D THEN Marked(o) ELSE m.mark[o]]
  BY MarkAllFields DEF D
<1> QED
  BY <1>4, <1>5, Objects DEF E

\* What propagateall() changes, field by field.
LEMMA PropagateallFields ==
  ASSUME NEW m, NEW D, D = ToTraverse(m)
  PROVE  propagateall(m) =
           [mark |-> [o \in Obj |-> IF o \in D THEN Done(o) ELSE m.mark[o]], gray |-> {},
            grayagain |-> m.grayagain \cup (D \cap {Main}), weak |-> m.weak \cup (D \cap Weak)]
BY DEF propagateall

\* propagateall() empties the gray list, takes no mark away, and leaves nothing
\* marked that has not been traversed.
LEMMA PropagateallMarks ==
  ASSUME made \subseteq Obj, NEW m \in MarkRecs, NEW n, n = propagateall(m)
  PROVE  /\ n \in MarkRecs /\ n.gray = {} /\ m.weak \subseteq n.weak
         /\ m.grayagain \subseteq n.grayagain /\ n.grayagain \subseteq m.grayagain \cup {Main}
         /\ \A o \in Obj : m.mark[o] \notin White => n.mark[o] \notin White
         /\ \A o \in Obj : n.mark[o] \in White => n.mark[o] = m.mark[o]
         /\ \A o \in Obj : n.mark[o] = m.mark[o] \/ n.mark[o] = Done(o)
         /\ \A o \in m.gray : n.mark[o] \notin White
         /\ \A o \in made : n.mark[o] \notin White => 
              \/ o \notin m.gray /\ m.mark[o] \notin White
              \/ /\ \A v \in Traversed[o] \cap made : n.mark[v] \notin White
                 /\ o \in Weak => o \in n.weak
<1> DEFINE T == UNION {Traversed[o] : o \in m.gray}
           R == Reached(Whites(m), T, Traversed)
           D == ToTraverse(m)
           mk == [o \in Obj |-> IF o \in D THEN Done(o) ELSE m.mark[o]]
           ga == m.grayagain \cup (D \cap {Main})
           wk == m.weak \cup (D \cap Weak)
<1>1. /\ R \subseteq Whites(m) /\ T \cap Whites(m) \subseteq R
      /\ \A p \in R : Traversed[p] \cap Whites(m) \subseteq R
  BY ReachedHas, Zenon
<1>2. n = [mark |-> mk, gray |-> {}, grayagain |-> ga, weak |-> wk]
  BY PropagateallFields, Zenon
<1>0. D = m.gray \cup R
  BY Zenon DEF ToTraverse
<1>3. \A o : Done(o) \notin White /\ Done(o) \in 0 .. 3
  BY DEF Done, Marked, Gray, Black, White
<1>4. \A p \in m.gray : Traversed[p] \cap Whites(m) \subseteq R
  BY <1>1
<1> HIDE DEF R, T, D
<1>5. \A p \in D : Traversed[p] \cap Whites(m) \subseteq D
  BY <1>0, <1>1, <1>4
<1>6. m.gray \subseteq D /\ \A o \in D : o \in m.gray \/ (o \in made /\ m.mark[o] \in White)
  BY <1>0, <1>1 DEF Whites
<1>7. \A o \in made : m.mark[o] \in White => o \in Whites(m)
  BY DEF Whites
<1>8. /\ mk \in [Obj -> 0 .. 3] /\ ga \subseteq Listed /\ wk \subseteq Weak
      /\ m.grayagain \subseteq ga /\ ga \subseteq m.grayagain \cup {Main} /\ m.weak \subseteq wk
  BY <1>3 DEF MarkRecs, Listed
<1>9. \A o \in Obj : mk[o] = IF o \in D THEN Done(o) ELSE m.mark[o]
  OBVIOUS
<1>10. \A o \in D \cap Weak : o \in wk
  OBVIOUS
<1> HIDE DEF mk, ga, wk
<1>11. n \in MarkRecs /\ n.mark = mk /\ n.gray = {} /\ n.grayagain = ga /\ n.weak = wk
  BY <1>2, <1>8 DEF MarkRecs
<1>12. \A o \in Obj : o \in D \/ m.mark[o] \notin White => n.mark[o] \notin White
  BY <1>3, <1>9, <1>11
<1>13. \A o \in D : \A v \in Traversed[o] \cap made : n.mark[v] \notin White
  BY <1>5, <1>7, <1>12
<1>14. \A o \in Obj : n.mark[o] \in White => o \notin D /\ n.mark[o] = m.mark[o]
  BY <1>3, <1>9, <1>11
<1>15. \A o \in made : n.mark[o] \notin White => 
              \/ o \notin m.gray /\ m.mark[o] \notin White
              \/ /\ \A v \in Traversed[o] \cap made : n.mark[v] \notin White
                 /\ o \in Weak => o \in n.weak
  BY <1>6, <1>9, <1>10, <1>11, <1>13
<1>16. \A o \in m.gray : n.mark[o] \notin White
  BY <1>6, <1>12, Objects DEF MarkRecs
<1> QED
  BY <1>8, <1>9, <1>11, <1>12, <1>14, <1>15, <1>16

\* What traversing an object marks, for each kind.
LEMMA LeadsTo ==
  ASSUME made \subseteq Obj
  PROVE  /\ \A o \in Obj \ Listed : Traversed[o] = AtOnce[o]
         /\ Traversed[Main] = traversestack /\ AtOnce[Main] = {}
         /\ \A o \in Weak : Traversed[o] = {} /\ AtOnce[o] = {}
         /\ \A o \in (Table \ Weak) \cup Function : Traversed[o] = {ref[o]} /\ AtOnce[o] = {}
         /\ \A o \in String : Traversed[o] = {}
         /\ \A o \in Udata : Traversed[o] = {ref[o]}
         /\ \A o \in Upval : Traversed[o] = {ValueOf(o)}
<1>1. \A o \in Obj : AtOnce[o] = IF o \in Udata THEN {ref[o]} ELSE IF o \in Upval THEN {ValueOf(o)} ELSE {}
  BY DEF AtOnce
<1>2. \A o \in Obj : Traversed[o] = IF o = Main THEN traversestack ELSE IF o \in Table THEN traversetable(o)
                                    ELSE IF o \in Function THEN {ref[o]} ELSE AtOnce[o]
  BY LuaGCAssumption DEF Traversed, traverseclosure, Obj
<1>3. \A o \in Obj \ Listed : Traversed[o] = AtOnce[o]
  BY <1>2 DEF Listed
<1> QED
  BY <1>1, <1>2, <1>3, LuaGCAssumption DEF Obj, traversetable

\* The colour an object gets when it is marked, and when it has been traversed.
LEMMA DoneOf ==
  /\ \A o \in Obj : Done(o) \in {Gray, Black} /\ Marked(o) \in {Gray, Black}
  /\ \A u \in Open : Done(u) = Gray /\ Marked(u) = Gray
  /\ \A o \in String \cup Weak \cup {Main} : Done(o) = Gray /\ Marked(o) = Gray
  /\ \A o \in Listed : Marked(o) = Gray
BY LuaGCAssumption DEF Done, Marked, Listed, Open

-----------------------------------------------------------------------------
(* The end of the marking, part by part: what is marked has been traversed,  *)
(* or is still to be.                                                        *)

Stage(m, E) ==
  /\ m \in MarkRecs
  /\ \A o \in made : m.mark[o] \notin White =>
       \/ o \in m.gray \cup m.grayagain \cup E
       \/ \A v \in Traversed[o] \cap made : m.mark[v] \notin White
  /\ \A o \in made \cap Weak : m.mark[o] \notin White => o \in m.gray \cup m.grayagain \cup m.weak
  /\ \A o \in made : m.mark[o] \in White => m.mark[o] = currentwhite
  /\ \A u \in Open : m.mark[u] # Black

\* Marking more keeps to the stage.
LEMMA StageMarkAll ==
  ASSUME made \subseteq Obj, NEW m, NEW S, NEW E, Stage(m, E)
  PROVE  Stage(MarkAll(m, S), E)
<1> DEFINE n == MarkAll(m, S)
<1>1. m \in MarkRecs
  BY DEF Stage
<1>2. /\ n \in MarkRecs /\ n.grayagain = m.grayagain /\ n.weak = m.weak /\ m.gray \subseteq n.gray
      /\ \A o \in Obj : m.mark[o] \notin White => n.mark[o] = m.mark[o]
      /\ \A o \in Obj : n.mark[o] \in White => n.mark[o] = m.mark[o]
      /\ \A o \in made : m.mark[o] \in White /\ n.mark[o] \notin White =>
              /\ n.mark[o] = Marked(o)
              /\ o \in Listed => o \in n.gray
              /\ \A v \in AtOnce[o] \cap made : n.mark[v] \notin White
  BY <1>1, MarkAllMarks
<1> HIDE DEF n
<1>3. ASSUME NEW o \in made, n.mark[o] \notin White
      PROVE  \/ o \in n.gray \cup n.grayagain \cup E
             \/ \A v \in Traversed[o] \cap made : n.mark[v] \notin White
  <2>1. CASE m.mark[o] \notin White
    BY <1>2, <2>1 DEF Stage
  <2>2. CASE m.mark[o] \in White
    BY <1>2, <1>3, <2>2, LeadsTo
  <2> QED
    BY <2>1, <2>2
<1>4. ASSUME NEW o \in made \cap Weak, n.mark[o] \notin White
      PROVE  o \in n.gray \cup n.grayagain \cup n.weak
  <2>1. o \in Listed
    BY LuaGCAssumption DEF Listed
  <2> QED
    BY <1>2, <1>4, <2>1 DEF Stage
<1>5. ASSUME NEW u \in Open
      PROVE  n.mark[u] # Black
  <2>1. u \in made /\ Marked(u) = Gray /\ Gray # Black /\ Black \notin White
    BY DoneOf, Objects DEF Open
  <2> QED
    BY <1>2, <2>1 DEF Stage
<1>6. \A o \in made : n.mark[o] \in White => n.mark[o] = currentwhite
  BY <1>2 DEF Stage
<1> QED
  BY <1>2, <1>3, <1>4, <1>5, <1>6 DEF Stage, n

\* So does propagating.
LEMMA StageAll ==
  ASSUME made \subseteq Obj, NEW m, Stage(m, {})
  PROVE  Stage(propagateall(m), {})
<1> DEFINE n == propagateall(m)
<1>1. m \in MarkRecs
  BY DEF Stage
<1>2. /\ n \in MarkRecs /\ n.gray = {} /\ m.weak \subseteq n.weak
      /\ m.grayagain \subseteq n.grayagain
      /\ \A o \in Obj : m.mark[o] \notin White => n.mark[o] \notin White
      /\ \A o \in Obj : n.mark[o] \in White => n.mark[o] = m.mark[o]
      /\ \A o \in Obj : n.mark[o] = m.mark[o] \/ n.mark[o] = Done(o)
      /\ \A o \in made : n.mark[o] \notin White => 
              \/ o \notin m.gray /\ m.mark[o] \notin White
              \/ /\ \A v \in Traversed[o] \cap made : n.mark[v] \notin White
                 /\ o \in Weak => o \in n.weak
  BY <1>1, PropagateallMarks
<1> HIDE DEF n
<1>3. ASSUME NEW o \in made, n.mark[o] \notin White
      PROVE  \/ o \in n.gray \cup n.grayagain
             \/ \A v \in Traversed[o] \cap made : n.mark[v] \notin White
  BY <1>2, <1>3 DEF Stage
<1>4. ASSUME NEW o \in made \cap Weak, n.mark[o] \notin White
      PROVE  o \in n.gray \cup n.grayagain \cup n.weak
  BY <1>2, <1>4 DEF Stage
<1>5. ASSUME NEW u \in Open
      PROVE  n.mark[u] # Black
  <2>1. u \in made /\ Done(u) = Gray /\ Gray # Black
    BY DoneOf, Objects DEF Open
  <2> QED
    BY <1>2, <2>1 DEF Stage
<1>6. \A o \in made : n.mark[o] \in White => n.mark[o] = currentwhite
  BY <1>2 DEF Stage
<1> QED
  BY <1>2, <1>3, <1>4, <1>5, <1>6 DEF Stage, n

\* The stage that atomic() begins with (lgc.c:529).
LEMMA StageStart ==
  ASSUME GCInv, gcstate = "propagate", gray = {}
  PROVE  Stage(remarkupvals(Marks), {}) /\ Main \in grayagain
<1> USE Objects
<1>1. /\ made \subseteq Obj /\ Marks \in MarkRecs /\ Main \in made
      /\ Marks.mark = mark /\ Marks.gray = {} /\ Marks.grayagain = grayagain /\ Marks.weak = weak
      /\ mark \in [Obj -> 0 .. 3] /\ currentwhite \in White
  BY DEF GCInv, GCTypes, Marks, MarkRecs
<1>2. \A o \in made :
    /\ mark[o] = Black => o \notin Weak \cup String \cup {Main} /\ (ref[o] # NilRef => mark[ref[o]] \notin White)
    /\ mark[o] = Gray => o \in String \cup Open \cup grayagain \cup weak
  BY <1>1 DEF GCInv, TriColour, Coloured, ColouredAt
<1>3. \A o \in Obj : mark[o] \notin White => mark[o] = Black \/ mark[o] = Gray
  BY <1>1
<1>4. \A u \in Open : u \in made /\ mark[u] # Black
  BY DEF GCInv, SweepInv, Open
<1>5. \A o \in made : mark[o] \in White => mark[o] = currentwhite
  BY <1>1 DEF GCInv, SweepInv, isdead, otherwhite
<1>6. weak \subseteq Weak /\ grayagain \subseteq Listed
  BY DEF GCInv, GCTypes
<1>7. \A o \in made : mark[o] \notin White => o \in grayagain \cup Open \/ \A v \in Traversed[o] \cap made : mark[v] \notin White
  <2> SUFFICES ASSUME NEW o \in made, mark[o] \notin White, o \notin grayagain, o \notin Open
               PROVE  \A v \in Traversed[o] \cap made : mark[v] \notin White
    OBVIOUS
  <2>1. CASE mark[o] = Gray
    <3>1. o \in String \cup Weak
      BY <1>2, <1>6, <2>1
    <3> QED
      BY <3>1, <1>1, LeadsTo
  <2>2. CASE mark[o] = Black
    <3>1. o \notin Weak \cup String \cup {Main} /\ (ref[o] # NilRef => mark[ref[o]] \notin White)
      BY <1>2, <2>2
    <3>2. o \in Upval => ValueOf(o) = ref[o]
      BY DEF Open, ValueOf
    <3>3. Traversed[o] = {ref[o]}
      BY <3>1, <3>2, <1>1, LeadsTo DEF Obj
    <3>4. NilRef \notin made
      BY <1>1
    <3> QED
      BY <3>1, <3>3, <3>4
  <2> QED
    BY <1>1, <1>3, <2>1, <2>2
<1>8. Stage(Marks, Open)
  <2>1. \A o \in made \cap Weak : mark[o] \notin White => o \in grayagain \cup weak
    <3> SUFFICES ASSUME NEW o \in made \cap Weak, mark[o] \notin White PROVE o \in grayagain \cup weak
      OBVIOUS
    <3>1. mark[o] = Gray
      BY <1>1, <1>2, <1>3
    <3>2. o \notin String \cup Open
      BY LuaGCAssumption DEF Open
    <3> QED
      BY <1>2, <3>1, <3>2
  <2> QED
    BY <1>1, <1>4, <1>5, <1>7, <2>1 DEF Stage
<1>9. Main \in grayagain
  <2>1. mark[Main] = Gray
    BY <1>1, <1>2, <1>3 DEF GCInv, TriColour
  <2>2. Main \notin String \cup Open \cup Weak
    BY LuaGCAssumption DEF Open
  <2> QED
    BY <1>1, <1>2, <1>6, <2>1, <2>2
<1>10. Stage(remarkupvals(Marks), {})
  <2> DEFINE S == {ValueOf(u) : u \in {u \in Open : Marks.mark[u] = Gray}}
             n == MarkAll(Marks, S)
  <2>1. Stage(n, Open)
    BY <1>1, <1>8, StageMarkAll
  <2>2. \A u \in Open : mark[u] = Gray => ValueOf(u) \in S
    BY <1>1
  <2> HIDE DEF S
  <2>3. /\ \A o \in made \cap S : n.mark[o] \notin White
        /\ \A o \in made : Marks.mark[o] \in White /\ n.mark[o] \notin White =>
              \A v \in AtOnce[o] \cap made : n.mark[v] \notin White
    BY <1>1, MarkAllMarks
  <2> HIDE DEF n
  <2>4. ASSUME NEW o \in Open, n.mark[o] \notin White
        PROVE  \A v \in Traversed[o] \cap made : n.mark[v] \notin White
    <3>1. Traversed[o] = {ValueOf(o)} /\ AtOnce[o] = {ValueOf(o)}
      BY <1>1, LeadsTo, LuaGCAssumption DEF Open, Listed, Obj
    <3>2. CASE mark[o] \in White
      BY <1>1, <1>4, <2>3, <2>4, <3>1, <3>2
    <3>3. CASE mark[o] = Gray
      BY <2>2, <2>3, <3>1, <3>3
    <3> QED
      BY <1>1, <1>3, <1>4, <3>2, <3>3
  <2>5. Stage(n, {})
    BY <2>1, <2>4 DEF Stage
  <2>6. n = remarkupvals(Marks)
    BY Zenon DEF n, S, remarkupvals
  <2> QED
    BY <2>5, <2>6
<1> QED
  BY <1>9, <1>10

\* What is marked in the end leads on to what is marked, and weak tables are listed.
Ended(m) ==
  /\ m \in MarkRecs
  /\ \A o \in made : m.mark[o] \notin White => \A v \in Traversed[o] \cap made : m.mark[v] \notin White
  /\ \A o \in made \cap Weak : m.mark[o] \notin White => o \in m.weak
  /\ \A o \in made : m.mark[o] \in White => m.mark[o] = currentwhite
  /\ \A u \in Open : m.mark[u] # Black
  /\ m.mark[Main] \notin White

\* Marking the userdata to be finalized, white again or not (lgc.c:115).
LEMMA MarkTmu ==
  ASSUME made \subseteq Obj, currentwhite \in White, NEW again, NEW all, NEW t, t = marktmu(again, all),
         Stage(again, {}), again.grayagain \subseteq {Main}, all \subseteq made \cap Udata
  PROVE  /\ Stage(t, {}) /\ t.grayagain \subseteq {Main}
         /\ \A o \in made : again.mark[o] \notin White \/ o \in all => t.mark[o] \notin White
<1>0. made \subseteq Obj /\ currentwhite \in White /\ Weak \subseteq Listed
  BY LuaGCAssumption DEF Listed
<1> DEFINE mk == [o \in Obj |-> IF o \in all THEN currentwhite ELSE again.mark[o]]
           w == [again EXCEPT !.mark = mk]
<1>1. again \in MarkRecs
  BY DEF Stage
<1>2. mk \in [Obj -> 0 .. 3]
  BY <1>0, <1>1, Objects DEF MarkRecs
<1>3. w = [again EXCEPT !.mark = [o \in Obj |-> IF o \in all THEN currentwhite ELSE @[o]]]
  BY <1>1 DEF MarkRecs
<1>4. \A o \in Obj : mk[o] = IF o \in all THEN currentwhite ELSE again.mark[o]
  OBVIOUS
<1> HIDE DEF mk
<1>5. w \in MarkRecs /\ w.mark = mk /\ w.gray = again.gray /\ w.grayagain = again.grayagain /\ w.weak = again.weak
  BY <1>1, <1>2 DEF MarkRecs
<1>6. t = MarkAll(w, all)
  BY <1>3, Zenon DEF marktmu
<1> HIDE DEF w
<1>7. /\ t \in MarkRecs /\ t.grayagain = w.grayagain /\ t.weak = w.weak /\ w.gray \subseteq t.gray
      /\ \A o \in Obj : w.mark[o] \notin White => t.mark[o] = w.mark[o]
      /\ \A o \in Obj : t.mark[o] \in White => t.mark[o] = w.mark[o]
      /\ \A o \in made \cap all : t.mark[o] \notin White
      /\ \A o \in made : w.mark[o] \in White /\ t.mark[o] \notin White =>
            /\ t.mark[o] = Marked(o)
            /\ o \in Listed => o \in t.gray
            /\ \A v \in AtOnce[o] \cap made : t.mark[v] \notin White
  BY <1>0, <1>5, <1>6, MarkAllMarks
<1>8. \A o \in made : again.mark[o] \notin White \/ o \in all => t.mark[o] \notin White
  BY <1>0, <1>4, <1>5, <1>7
<1>9. ASSUME NEW o \in made, t.mark[o] \notin White
      PROVE  \/ o \in t.gray \cup t.grayagain
             \/ \A v \in Traversed[o] \cap made : t.mark[v] \notin White
  <2>1. CASE w.mark[o] \in White
    BY <1>0, <1>7, <1>9, <2>1, LeadsTo
  <2>2. CASE w.mark[o] \notin White
    <3>1. again.mark[o] \notin White
      BY <1>0, <1>4, <1>5, <2>2
    <3> QED
      BY <1>5, <1>7, <1>8, <3>1 DEF Stage
  <2> QED
    BY <2>1, <2>2
<1>10. ASSUME NEW o \in made \cap Weak, t.mark[o] \notin White
       PROVE  o \in t.gray \cup t.grayagain \cup t.weak
  <2>1. o \in Listed /\ o \notin all
    BY <1>0, LuaGCAssumption
  <2>2. w.mark[o] = again.mark[o]
    BY <1>0, <1>4, <1>5, <2>1
  <2> QED
    BY <1>5, <1>7, <1>10, <2>1, <2>2 DEF Stage
<1>11. \A o \in made : t.mark[o] \in White => t.mark[o] = currentwhite
  BY <1>0, <1>4, <1>5, <1>7 DEF Stage
<1>12. ASSUME NEW u \in Open
       PROVE  t.mark[u] # Black
  <2>1. u \in made /\ u \in Obj /\ Marked(u) = Gray /\ Gray # Black /\ Black \notin White
    BY <1>0, DoneOf, Objects DEF Open
  <2>2. u \notin all
    BY LuaGCAssumption DEF Open
  <2>3. w.mark[u] = again.mark[u]
    BY <1>4, <1>5, <2>1, <2>2
  <2> QED
    BY <1>7, <2>1, <2>3 DEF Stage
<1> QED
  BY <1>5, <1>7, <1>8, <1>9, <1>10, <1>11, <1>12 DEF Stage

\* The last propagation leaves nothing to be traversed.
LEMMA EndMarks ==
  ASSUME made \subseteq Obj, Main \in made, NEW all, NEW t, NEW end, end = propagateall(t),
         Stage(t, {}), t.grayagain \subseteq {Main}, all \subseteq made, \A u \in all : t.mark[u] \notin White,
         t.mark[Main] \notin White, \A v \in Traversed[Main] \cap made : t.mark[v] \notin White
  PROVE  Ended(end) /\ \A u \in all : end.mark[u] \notin White
<1>1. Stage(end, {})
  BY StageAll
<1>2. t \in MarkRecs /\ end \in MarkRecs
  BY <1>1 DEF Stage
<1>3. end.gray = {} /\ end.grayagain \subseteq {Main}
  <2>1. end.gray = {} /\ end.grayagain \subseteq t.grayagain \cup {Main}
    BY <1>2, PropagateallMarks
  <2> QED
    BY <2>1
<1>4. \A o \in Obj : t.mark[o] \notin White => end.mark[o] \notin White
  BY <1>2, PropagateallMarks
<1>5. end.mark[Main] \notin White /\ \A v \in Traversed[Main] \cap made : end.mark[v] \notin White
  BY <1>4
<1>6. \A o \in made : end.mark[o] \notin White => \A v \in Traversed[o] \cap made : end.mark[v] \notin White
  <2> SUFFICES ASSUME NEW o \in made, end.mark[o] \notin White
               PROVE  \A v \in Traversed[o] \cap made : end.mark[v] \notin White
    OBVIOUS
  <2>1. \/ o \in end.gray \cup end.grayagain \cup {}
        \/ \A v \in Traversed[o] \cap made : end.mark[v] \notin White
    BY <1>1 DEF Stage
  <2>2. o \in end.gray \cup end.grayagain \cup {} => o = Main
    BY <1>3
  <2> QED
    BY <1>5, <2>1, <2>2
<1>7. \A o \in made \cap Weak : end.mark[o] \notin White => o \in end.weak
  BY <1>1, <1>3, LuaGCAssumption DEF Stage
<1>8. \A u \in all : end.mark[u] \notin White
  BY <1>4
<1>9. /\ \A o \in made : end.mark[o] \in White => end.mark[o] = currentwhite
      /\ \A u \in Open : end.mark[u] # Black
  BY <1>1 DEF Stage
<1> QED
  BY <1>2, <1>5, <1>6, <1>7, <1>8, <1>9 DEF Ended

\* The five propagations of atomic() in their order (lgc.c:529-548).
LEMMA AtomicEnd ==
  ASSUME GCInv, gcstate = "propagate", gray = {},
         NEW upvals, NEW weaks, NEW again, NEW all, NEW end,
         upvals = propagateall(remarkupvals(Marks)),
         weaks = propagateall(MarkAll([upvals EXCEPT !.gray = upvals.weak, !.weak = {}], {Main})),
         again = propagateall([weaks EXCEPT !.gray = weaks.grayagain, !.grayagain = {}]),
         all = tmudata \cup luaC_separateudata(again),
         end = propagateall(marktmu(again, all))
  PROVE  /\ Ended(end) /\ all \subseteq made \cap Udata /\ \A u \in all : end.mark[u] \notin White
         /\ again.mark[Main] \notin White
         /\ \A o \in made : again.mark[o] \notin White => \A v \in Traversed[o] \cap made : again.mark[v] \notin White
<1>0. made \subseteq Obj /\ Main \in made /\ Weak \subseteq Listed /\ currentwhite \in White
  BY LuaGCAssumption DEF GCInv, GCTypes, Listed
<1>1. Stage(upvals, {}) /\ Main \in upvals.grayagain /\ upvals.gray = {}
  <2> DEFINE r == remarkupvals(Marks)
             S == {ValueOf(u) : u \in {u \in Open : Marks.mark[u] = Gray}}
  <2>1. Stage(r, {}) /\ Main \in Marks.grayagain
    BY StageStart DEF Marks
  <2>2. Marks \in MarkRecs
    BY DEF GCInv, GCTypes, Marks, MarkRecs
  <2>3. r = MarkAll(Marks, S)
    BY Zenon DEF remarkupvals
  <2> HIDE DEF S, r
  <2>4. r.grayagain = Marks.grayagain
    BY <1>0, <2>2, <2>3, MarkAllMarks
  <2>5. r \in MarkRecs
    BY <2>1 DEF Stage
  <2>6. upvals = propagateall(r)
    BY DEF r
  <2>7. upvals.gray = {} /\ r.grayagain \subseteq upvals.grayagain
    BY <1>0, <2>5, <2>6, PropagateallMarks
  <2> QED
    BY <1>0, <2>1, <2>4, <2>6, <2>7, StageAll
<1>2. Stage(weaks, {}) /\ Main \in weaks.grayagain /\ weaks.gray = {}
  <2> DEFINE w == [upvals EXCEPT !.gray = upvals.weak, !.weak = {}]
             n == MarkAll(w, {Main})
  <2>1. upvals \in MarkRecs
    BY <1>1 DEF Stage
  <2>2. w \in MarkRecs /\ w.mark = upvals.mark /\ w.gray = upvals.weak /\ w.grayagain = upvals.grayagain /\ w.weak = {}
    BY <1>0, <2>1 DEF MarkRecs
  <2> HIDE DEF w
  <2>3. Stage(w, {})
    BY <1>1, <2>2 DEF Stage
  <2>4. Stage(n, {})
    BY <1>0, <2>3, StageMarkAll
  <2>5. n \in MarkRecs /\ n.grayagain = w.grayagain
    BY <1>0, <2>2, MarkAllMarks
  <2>6. weaks = propagateall(n)
    BY Zenon DEF n, w
  <2> HIDE DEF n
  <2>7. weaks.gray = {} /\ n.grayagain \subseteq weaks.grayagain
    BY <1>0, <2>5, <2>6, PropagateallMarks
  <2> QED
    BY <1>0, <1>1, <2>2, <2>4, <2>5, <2>6, <2>7, StageAll
<1>3. /\ Stage(again, {}) /\ again.gray = {} /\ again.grayagain \subseteq {Main}
      /\ again.mark[Main] \notin White /\ \A v \in Traversed[Main] \cap made : again.mark[v] \notin White
  <2> DEFINE w == [weaks EXCEPT !.gray = weaks.grayagain, !.grayagain = {}]
  <2>1. weaks \in MarkRecs
    BY <1>2 DEF Stage
  <2>2. w \in MarkRecs /\ w.mark = weaks.mark /\ w.gray = weaks.grayagain /\ w.grayagain = {} /\ w.weak = weaks.weak
    BY <1>0, <2>1 DEF MarkRecs
  <2> HIDE DEF w
  <2>3. Stage(w, {})
    BY <1>2, <2>2 DEF Stage
  <2>4. again = propagateall(w)
    BY Zenon DEF w
  <2>5. again.gray = {} /\ again.grayagain \subseteq w.grayagain \cup {Main}
    BY <1>0, <2>2, <2>4, PropagateallMarks
  <2>6. again.mark[Main] \notin White
    <3>1. Main \in w.gray
      BY <1>2, <2>2
    <3> QED
      BY <1>0, <2>2, <2>4, <3>1, PropagateallMarks
  <2>7. \A v \in Traversed[Main] \cap made : again.mark[v] \notin White
    <3>1. Main \in w.gray
      BY <1>2, <2>2
    <3> QED
      BY <1>0, <2>2, <2>4, <2>6, <3>1, PropagateallMarks
  <2> QED
    BY <1>0, <2>2, <2>3, <2>4, <2>5, <2>6, <2>7, StageAll
<1>4. all \subseteq made \cap Udata
  BY DEF GCInv, GCTypes, LiveRefs, Alive, luaC_separateudata
<1>5. PICK t : t = marktmu(again, all)
  OBVIOUS
<1>6. /\ Stage(t, {}) /\ t.grayagain \subseteq {Main}
      /\ \A o \in made : again.mark[o] \notin White \/ o \in all => t.mark[o] \notin White
  <2> HIDE DEF Traversed
  <2> QED
    BY <1>0, <1>3, <1>4, <1>5, MarkTmu
<1>7. end = propagateall(t)
  BY <1>5, Zenon
<1>8. /\ all \subseteq made /\ \A u \in all : t.mark[u] \notin White
      /\ t.mark[Main] \notin White /\ \A v \in Traversed[Main] \cap made : t.mark[v] \notin White
  BY <1>0, <1>3, <1>4, <1>6
<1>9. ASSUME NEW o \in made, again.mark[o] \notin White
      PROVE  \A v \in Traversed[o] \cap made : again.mark[v] \notin White
  <2> HIDE DEF Traversed
  <2>1. \/ o \in again.gray \cup again.grayagain \cup {}
        \/ \A v \in Traversed[o] \cap made : again.mark[v] \notin White
    BY <1>3, <1>9 DEF Stage
  <2>2. o \in again.gray \cup again.grayagain \cup {} => o = Main
    BY <1>3
  <2> QED
    BY <1>3, <2>1, <2>2
<1> QED
  <2>1. made \subseteq Obj /\ Main \in made /\ Stage(t, {}) /\ t.grayagain \subseteq {Main}
    BY <1>0, <1>6
  <2> HIDE <1>5
  <2>2. Ended(end) /\ \A u \in all : end.mark[u] \notin White
    BY <1>7, <1>8, <2>1, EndMarks, Zenon
  <2> QED
    BY <1>3, <1>4, <1>9, <2>2

-----------------------------------------------------------------------------
(* Types.                                                                  *)

\* The state at the start.
LEMMA GCInitInv == LuaGCStart => GCInv
<1> SUFFICES ASSUME LuaGCStart PROVE GCInv
  OBVIOUS
<1> USE DEF LuaGCStart
<1>1. GCTypes
  <2>1. {Global, Main} \subseteq Obj /\ NilRef \in Values
    BY LuaGCAssumption DEF Obj, Values
  <2> QED
    BY <2>1 DEF GCTypes, White
<1>2. RefTypes
  <2>1. \A o \in Table \cup Udata \cup Upval \cup Function \cup String \cup {Main} : ref[o] = NilRef
    BY DEF Obj
  <2>2. \A f \in Function : f \notin made
    BY LuaGCAssumption
  <2> QED
    BY <2>1, <2>2 DEF RefTypes, Values
<1>3. LiveRefs
  <2>1. Alive = {Global, Main}
    BY LuaGCAssumption DEF Alive, isdead, otherwhite, Obj
  <2>2. OnStack = {}
    BY DEF OnStack, InSlot
  <2>3. References(Global) = {} /\ References(Main) = {}
    BY LuaGCAssumption DEF References, Obj
  <2> QED
    BY <2>1, <2>2, <2>3 DEF LiveRefs
<1>4. SweepInv
  BY LuaGCAssumption DEF SweepInv, Open, isdead, otherwhite, Obj
<1>5. TriColour
  BY DEF TriColour
<1> QED
  BY <1>1, <1>2, <1>3, <1>4, <1>5 DEF GCInv

\* All that marks gives marks and lists of the right kind.
LEMMA MarkResults ==
  ASSUME GCTypes
  PROVE  /\ Marks \in MarkRecs
         /\ \A mk \in [Obj -> 0 .. 3] : markroot(mk) \in MarkRecs
         /\ \A o \in gray : propagatemark(Marks, o) \in MarkRecs
         /\ \A o \in Table, v \in Obj \cup {NilRef} : luaC_barriert(o, v) \in MarkRecs
         /\ \A o \in Obj, v \in Obj \cup {NilRef} : luaC_barrierf(Marks, o, v) \in MarkRecs
         /\ \A S \in SUBSET Upval : luaC_linkupval(S) \in MarkRecs
<1> USE Objects
<1>0. made \subseteq Obj /\ mark \in [Obj -> 0 .. 3] /\ currentwhite \in 0 .. 3 /\ Main \in Listed /\ Table \subseteq Listed
  BY DEF GCTypes, Listed
<1>1. Marks \in MarkRecs
  BY DEF GCTypes, Marks, MarkRecs
<1>2. ASSUME NEW mk \in [Obj -> 0 .. 3]
      PROVE  markroot(mk) \in MarkRecs
  <2>1. [mark |-> mk, gray |-> {}, grayagain |-> {}, weak |-> {}] \in MarkRecs
    BY DEF MarkRecs
  <2> QED
    BY <1>0, <2>1, MarkAllMarks DEF markroot
<1>3. ASSUME NEW o \in gray
      PROVE  propagatemark(Marks, o) \in MarkRecs
  <2> DEFINE m == [Marks EXCEPT !.mark[o] = Done(o), !.gray = @ \ {o},
                    !.grayagain = @ \cup ({o} \cap {Main}), !.weak = @ \cup ({o} \cap Weak)]
  <2>1. Done(o) \in 0 .. 3
    BY DEF Done, Marked
  <2>2. m \in MarkRecs
    BY <1>0, <1>1, <2>1 DEF MarkRecs
  <2> QED
    BY <1>0, <2>2, MarkAllMarks DEF propagatemark
<1>4. ASSUME NEW o \in Table, NEW v \in Obj \cup {NilRef}
      PROVE  luaC_barriert(o, v) \in MarkRecs
  <2>1. [Marks EXCEPT !.mark[o] = Gray, !.grayagain = @ \cup {o}] \in MarkRecs
    <3>1. o \in Listed /\ Gray \in 0 .. 3
      BY <1>0
    <3> HIDE DEF Gray
    <3>2. ASSUME NEW m \in MarkRecs
          PROVE  [m EXCEPT !.mark[o] = Gray, !.grayagain = @ \cup {o}] \in MarkRecs
      BY <3>1 DEF MarkRecs
    <3> QED
      BY <1>1, <3>2
  <2> QED
    BY <1>1, <2>1 DEF luaC_barriert
<1>5. ASSUME NEW o \in Obj, NEW v \in Obj \cup {NilRef}
      PROVE  luaC_barrierf(Marks, o, v) \in MarkRecs
  <2>1. [Marks EXCEPT !.mark[o] = currentwhite] \in MarkRecs
    BY <1>0, <1>1 DEF MarkRecs
  <2>2. MarkAll(Marks, {v}) \in MarkRecs
    BY <1>0, <1>1, MarkAllMarks
  <2> QED
    BY <1>1, <2>1, <2>2 DEF luaC_barrierf
<1>6. ASSUME NEW S \in SUBSET Upval
      PROVE  luaC_linkupval(S) \in MarkRecs
  <2>1. [Marks EXCEPT !.mark = [o \in Obj |-> IF o \in S THEN currentwhite ELSE @[o]]] \in MarkRecs
    <3>1. currentwhite \in 0 .. 3
      BY <1>0
    <3> QED
      BY <1>1, <3>1 DEF MarkRecs
  <2>2. [Marks EXCEPT !.mark = [o \in Obj |-> IF o \in S THEN Black ELSE @[o]]] \in MarkRecs
    <3>1. Black \in 0 .. 3
      OBVIOUS
    <3> HIDE DEF Black
    <3> QED
      BY <1>1, <3>1 DEF MarkRecs
  <2> QED
    BY <1>0, <2>1, <2>2, MarkAllMarks DEF luaC_linkupval
<1> QED
  BY <1>1, <1>2, <1>3, <1>4, <1>5, <1>6

\* So the state keeps its types when they are put into it.
LEMMA SetMarksTypes ==
  ASSUME NEW m \in MarkRecs, SetMarks(m)
  PROVE  mark' \in [Obj -> 0 .. 3] /\ gray' \subseteq Listed /\ grayagain' \subseteq Listed /\ weak' \subseteq Weak
BY DEF MarkRecs, SetMarks

\* What the program has and what it comes to.
LEMMA Holdings ==
  ASSUME GCTypes, RefTypes
  PROVE  /\ \A s \in Slots : InSlot(s) \in Values
         /\ OnStack \subseteq Values /\ OnStack \subseteq Obj
         /\ \A u \in Upval : ValueOf(u) \in Values
         /\ \A o \in Table \cup Udata \cup {Global} : ref[o] \in Values
         /\ Global \in Table \ Weak /\ Global # Main /\ NilRef \in Values
         /\ Values \subseteq Obj \cup {NilRef} /\ Values \cap Upval = {} /\ Main \notin Values
<1>1. /\ Values \subseteq Obj \cup {NilRef} /\ Values \cap Upval = {} /\ Main \notin Values /\ NilRef \in Values
      /\ Global \in Table \ Weak /\ Global # Main
  BY LuaGCAssumption DEF Values, Obj
<1>2. \A s \in Slots : InSlot(s) \in Values
  BY DEF GCTypes, InSlot
<1>3. OnStack \subseteq Values /\ NilRef \notin OnStack
  BY <1>2 DEF OnStack
<1>4. \A u \in Upval : ValueOf(u) \in Values
  BY DEF GCTypes, RefTypes, ValueOf
<1>5. \A o \in Table \cup Udata \cup {Global} : ref[o] \in Values
  BY <1>1 DEF RefTypes
<1> QED
  BY <1>1, <1>2, <1>3, <1>4, <1>5

\* Every step keeps the types.
LEMMA GCTypesStep ==
  ASSUME GCInv, LuaGCNext
  PROVE  GCTypes'
<1> USE DEF GCInv, GCTypes, heap, marks, program, finalization, Quiet, Pushed
<1>0. /\ made \subseteq Obj /\ Table \subseteq Obj /\ Udata \subseteq Obj /\ String \subseteq Obj /\ Function \subseteq Obj
      /\ Upval \subseteq Obj /\ currentwhite \in {0, 1} /\ currentwhite \in 0 .. 3 /\ Global \in made /\ Main \in made
      /\ Weak \subseteq Table /\ Main \notin Upval /\ Global \notin Upval /\ NilRef \in Values
      /\ Table \cup Udata \cup String \cup Function \subseteq Values
  BY LuaGCAssumption DEF Obj, White, Values
<1>1. CASE StartCycle
  BY <1>1, MarkResults, SetMarksTypes DEF StartCycle
<1>2. CASE Propagate
  BY <1>2, MarkResults, SetMarksTypes DEF Propagate
<1>3. CASE SweepStrings \/ Sweep
  <2>1. PICK S : /\ Swept(S) /\ S \subseteq Obj /\ gcstate' \in {"sweepstring", "sweep", "finalize"}
    <3>1. CASE SweepStrings
      BY <1>0, <3>1 DEF SweepStrings
    <3>2. CASE Sweep
      <4>1. Open \subseteq Obj
        BY <1>0 DEF Open
      <4> QED
        BY <1>0, <3>2, <4>1 DEF Sweep
    <3> QED
      BY <1>3, <3>1, <3>2
  <2>2. ~isdead(Global) /\ ~isdead(Main)
    BY DEF LiveRefs, Alive
  <2> DEFINE dead == {o \in S : isdead(o)}
  <2>3. /\ made' = made \ dead /\ unswept' = unswept \ S
        /\ mark' = [o \in Obj |-> IF o \in S \ dead THEN currentwhite ELSE mark[o]]
        /\ ref' = [o \in Obj |-> IF o \in dead THEN NilRef ELSE ref[o]]
        /\ level' = [u \in Upval |-> IF u \in dead THEN 0 ELSE level[u]]
        /\ UNCHANGED <<gray, grayagain, weak, currentwhite, stack, finalization, wasted>>
    BY <2>1, Zenon DEF Swept
  <2>4. dead \subseteq S /\ Global \notin dead /\ Main \notin dead
    BY <2>2
  <2> HIDE DEF dead
  <2>5. mark' \in [Obj -> 0 .. 3]
    BY <1>0, <2>3
  <2>6. ref' \in [Obj -> Values \cup Upval] /\ level' \in [Upval -> Slots \cup {0}]
    BY <1>0, <2>3
  <2> QED
    BY <1>0, <2>1, <2>3, <2>4, <2>5, <2>6
<1>4. ASSUME NEW s \in Slots, Finalize(s)
      PROVE  GCTypes'
  <2>1. tmudata \subseteq Values
    BY <1>0
  <2> QED
    BY <1>0, <1>4, <2>1 DEF Finalize
<1>5. CASE EndCycle
  BY <1>5 DEF EndCycle
<1>6. CASE FullGC
  <2> DEFINE rest == IF gcstate \in {"pause", "propagate"} THEN made ELSE unswept
             dead == {o \in rest \cap made : isdead(o)}
             white == [o \in Obj |-> IF o \in rest \ dead THEN currentwhite ELSE mark[o]]
  <2>1. /\ made' = made \ dead /\ SetMarks(markroot(white))
        /\ ref' = [o \in Obj |-> IF o \in dead THEN NilRef ELSE ref[o]]
        /\ level' = [u \in Upval |-> IF u \in dead THEN 0 ELSE level[u]]
        /\ gcstate' = "propagate" /\ unswept' = {}
        /\ UNCHANGED <<currentwhite, stack, finalization, wasted>>
    BY <1>6, Zenon DEF FullGC
  <2>2. white \in [Obj -> 0 .. 3]
    BY <1>0
  <2>3. Global \notin dead /\ Main \notin dead
    BY DEF LiveRefs, Alive
  <2> HIDE DEF white, dead
  <2>4. markroot(white) \in MarkRecs
    BY <2>2, MarkResults
  <2>5. ref' \in [Obj -> Values \cup Upval] /\ level' \in [Upval -> Slots \cup {0}]
    BY <1>0, <2>1
  <2> QED
    BY <1>0, <2>1, <2>3, <2>4, <2>5, SetMarksTypes
<1>7. ASSUME NEW s \in Slots, New(s)
      PROVE  GCTypes'
  BY <1>0, <1>7 DEF New
<1>8. ASSUME NEW s \in Slots, luaS_newlstr(s)
      PROVE  GCTypes'
  BY <1>0, <1>8 DEF luaS_newlstr
<1>9. ASSUME NEW s \in Slots, NEW l \in Slots, Closure(s, l)
      PROVE  GCTypes'
  <2>1. PICK f \in (Function \cap usable) \ made :
          \E u \in IF {u \in Open : level[u] = l} # {} THEN {u \in Open : level[u] = l} ELSE Upval \ made :
         /\ made' = made \cup {f, u} /\ level' = [level EXCEPT ![u] = l]
         /\ mark' = [mark EXCEPT ![f] = currentwhite, ![u] = IF {u2 \in Open : level[u2] = l} = {} \/ isdead(u) THEN currentwhite ELSE @]
         /\ ref' = [ref EXCEPT ![f] = u] /\ Pushed(s, f)
         /\ Quiet /\ UNCHANGED <<gray, grayagain, weak, wasted>>
    BY <1>9 DEF Closure
  <2>2. PICK u \in Upval :
         /\ made' = made \cup {f, u} /\ level' = [level EXCEPT ![u] = l]
         /\ mark' = [mark EXCEPT ![f] = currentwhite, ![u] = IF {u2 \in Open : level[u2] = l} = {} \/ isdead(u) THEN currentwhite ELSE @]
         /\ ref' = [ref EXCEPT ![f] = u] /\ Pushed(s, f)
         /\ Quiet /\ UNCHANGED <<gray, grayagain, weak, wasted>>
    BY <2>1 DEF Open
  <2>3. mark' \in [Obj -> 0 .. 3]
    BY <1>0, <2>2
  <2> QED
    BY <1>0, <2>1, <2>2, <2>3
<1>10. ASSUME NEW s \in Slots, Get(s) \/ GetUpval(s) \/ Pop(s)
       PROVE  GCTypes'
  <2>1. CASE Get(s)
    BY <1>0, <2>1, Holdings DEF Get
  <2>2. CASE GetUpval(s)
    <3>1. PICK f \in OnStack \cap Function : stack' = [stack EXCEPT ![s] = ValueOf(ref[f])] /\ ValueOf(ref[f]) # NilRef
      BY <2>2 DEF GetUpval
    <3>2. f \in made
      BY DEF LiveRefs, Alive
    <3>3. ValueOf(ref[f]) \in Values
      BY <3>2, Holdings DEF RefTypes
    <3> QED
      BY <1>0, <2>2, <3>1, <3>3 DEF GetUpval
  <2>3. CASE Pop(s)
    BY <1>0, <2>3 DEF Pop
  <2> QED
    BY <1>10, <2>1, <2>2, <2>3
<1>11. ASSUME NEW s \in Slots, Set(s)
       PROVE  GCTypes'
  <2>1. PICK o \in (OnStack \cap (Table \cup Udata)) \cup {Global}, v \in {InSlot(s), NilRef} :
          /\ ref' = [ref EXCEPT ![o] = v]
          /\ SetMarks(IF o \in Table THEN luaC_barriert(o, v) ELSE luaC_barrierf(Marks, o, v))
    BY <1>11 DEF Set
  <2>2. v \in Values /\ v \in Obj \cup {NilRef} /\ o \in Obj
    BY <1>0, Holdings
  <2>3. (IF o \in Table THEN luaC_barriert(o, v) ELSE luaC_barrierf(Marks, o, v)) \in MarkRecs
    BY <2>2, MarkResults
  <2>4. mark' \in [Obj -> 0 .. 3] /\ gray' \subseteq Listed /\ grayagain' \subseteq Listed /\ weak' \subseteq Weak
    BY <2>1, <2>3, SetMarksTypes
  <2>5. ref' \in [Obj -> Values \cup Upval]
    BY <2>1, <2>2
  <2>6. UNCHANGED <<made, stack, level, finalized, tmudata, currentwhite, gcstate, unswept>>
    BY <1>11 DEF Set
  <2> QED
    BY <1>0, <2>4, <2>5, <2>6
<1>12. ASSUME NEW s \in Slots, SetUpval(s)
       PROVE  GCTypes'
  <2>1. PICK f \in OnStack \cap Function :
          /\ UNCHANGED <<made, level>>
          /\ IF level[ref[f]] # 0 THEN Pushed(level[ref[f]], InSlot(s)) /\ UNCHANGED <<ref, marks>>
             ELSE /\ ref' = [ref EXCEPT ![ref[f]] = InSlot(s)] /\ UNCHANGED stack
                  /\ SetMarks(luaC_barrierf(Marks, ref[f], InSlot(s)))
    BY <1>12 DEF SetUpval
  <2>2. ref[f] \in Upval /\ InSlot(s) \in Values /\ InSlot(s) \in Obj \cup {NilRef}
    BY Holdings DEF LiveRefs, Alive, RefTypes
  <2>3. luaC_barrierf(Marks, ref[f], InSlot(s)) \in MarkRecs
    BY <1>0, <2>2, MarkResults
  <2>4. mark' \in [Obj -> 0 .. 3] /\ gray' \subseteq Listed /\ grayagain' \subseteq Listed /\ weak' \subseteq Weak
    BY <2>1, <2>3, SetMarksTypes
  <2> QED
    BY <1>0, <1>12, <2>1, <2>2, <2>4 DEF SetUpval
<1>13. ASSUME NEW l \in Slots, luaF_close(l)
       PROVE  GCTypes'
  <2> DEFINE up == {u \in Open : level[u] >= l}
             dead == {u \in up : isdead(u)}
             S == {u \in up : mark[u] = Gray}
  <2>1. /\ made' = made \ dead
        /\ ref' = [o \in Obj |-> IF o \in up \ dead THEN stack[level[o]] ELSE ref[o]]
        /\ level' = [u \in Upval |-> IF u \in up THEN 0 ELSE level[u]]
        /\ stack' = [s \in Slots |-> IF s >= l THEN NilRef ELSE stack[s]]
        /\ SetMarks(luaC_linkupval(S))
        /\ unswept' = unswept \ up
        /\ UNCHANGED <<currentwhite, gcstate, finalization, wasted>>
    BY <1>13, Zenon DEF luaF_close
  <2>2. /\ up \subseteq Upval /\ dead \subseteq up /\ S \in SUBSET Upval
        /\ \A u \in up : level[u] \in Slots
    BY DEF Open
  <2> HIDE DEF up, dead, S
  <2>3. mark' \in [Obj -> 0 .. 3] /\ gray' \subseteq Listed /\ grayagain' \subseteq Listed /\ weak' \subseteq Weak
    BY <2>1, <2>2, MarkResults, SetMarksTypes
  <2>4. \A o \in up : stack[level[o]] \in Values
    BY <2>2
  <2>5. ref' \in [Obj -> Values \cup Upval]
    BY <2>1, <2>4
  <2>6. stack' \in [Slots -> Values] /\ level' \in [Upval -> Slots \cup {0}]
    BY <1>0, <2>1
  <2>7. unswept' \subseteq made'
    BY <2>1, <2>2
  <2> QED
    BY <1>0, <2>1, <2>2, <2>3, <2>5, <2>6, <2>7
<1>14. CASE atomic
  <2> DEFINE upvals == propagateall(remarkupvals(Marks))
             weaks == propagateall(MarkAll([upvals EXCEPT !.gray = upvals.weak, !.weak = {}], {Main}))
             again == propagateall([weaks EXCEPT !.gray = weaks.grayagain, !.grayagain = {}])
             all == tmudata \cup luaC_separateudata(again)
             end == propagateall(marktmu(again, all))
  <2>1. /\ gcstate' = "sweepstring"
        /\ tmudata' = all /\ finalized' = finalized \cup all
        /\ ref' = cleartable(end, finalized \cup all)
        /\ SetMarks([end EXCEPT !.mark = stringmark(end)])
        /\ currentwhite' = otherwhite /\ unswept' = made
        /\ UNCHANGED <<made, program, wasted>>
    BY <1>14, Zenon DEF atomic
  <2>2. all \subseteq Udata
    BY DEF luaC_separateudata
  <2>3. end \in MarkRecs
    BY <1>14, AtomicEnd DEF Ended, atomic
  <2> HIDE DEF all, end
  <2>4. stringmark(end) \in [Obj -> 0 .. 3]
    BY <2>3, Objects DEF stringmark, MarkRecs
  <2>5. [end EXCEPT !.mark = stringmark(end)] \in MarkRecs
    BY <2>3, <2>4 DEF MarkRecs
  <2>6. mark' \in [Obj -> 0 .. 3] /\ gray' \subseteq Listed /\ grayagain' \subseteq Listed /\ weak' \subseteq Weak
    BY <2>1, <2>5, SetMarksTypes
  <2>7. ref' \in [Obj -> Values \cup Upval]
    BY <1>0, <2>1 DEF cleartable
  <2>8. currentwhite' \in White
    BY <1>0, <2>1 DEF otherwhite, White
  <2> QED
    BY <1>0, <2>1, <2>2, <2>6, <2>7, <2>8
<1> QED
  BY <1>1, <1>2, <1>3, <1>4, <1>5, <1>6, <1>7, <1>8, <1>9, <1>10, <1>11, <1>12, <1>13, <1>14, Zenon
     DEF LuaGCNext, Collector, ProgramStep

-----------------------------------------------------------------------------
(* The steps of the collector.                                             *)

\* All of the invariant but the types.
GCRest == RefTypes /\ LiveRefs /\ SweepInv /\ TriColour

\* The three kinds of colour exclude each other.
LEMMA Colours ==
  /\ Gray \notin White /\ Black \notin White /\ Gray # Black
  /\ White = {0, 1} /\ (currentwhite \in White => otherwhite \in White /\ otherwhite # currentwhite)
  /\ \A c \in White : currentwhite \in White => c = currentwhite \/ c = otherwhite
  /\ \A c \in 0 .. 3 : c \in White \/ c = Gray \/ c = Black
  /\ currentwhite \in White => currentwhite # Gray /\ currentwhite # Black
BY DEF Gray, Black, White, otherwhite

\* Between the cycles and while marking nothing is dead.
LEMMA NoneDead ==
  ASSUME GCInv, gcstate \in {"pause", "propagate", "finalize"}
  PROVE  /\ unswept = {} /\ Alive = made /\ \A o \in made : ~isdead(o)
         /\ \A o \in made : ref[o] # NilRef => ref[o] \in made
         /\ \A o \in made : mark[o] \in White => mark[o] = currentwhite
<1>1. unswept = {} /\ \A o \in made : ~isdead(o)
  BY DEF GCInv, SweepInv
<1>2. Alive = made
  BY <1>1 DEF Alive
<1>3. \A o \in made : ref[o] # NilRef => ref[o] \in made
  BY <1>2 DEF GCInv, LiveRefs, References
<1>4. \A o \in made : mark[o] \in White => mark[o] = currentwhite
  BY <1>1, Colours DEF isdead, GCInv, GCTypes
<1> QED
  BY <1>1, <1>2, <1>3, <1>4

\* Marking keeps the colours of a correct marking.
LEMMA MarkAllKeeps ==
  ASSUME GCTypes, RefTypes, \A o \in made : ref[o] # NilRef => ref[o] \in made,
         NEW m \in MarkRecs, NEW S, NEW n, n = MarkAll(m, S)
  PROVE  /\ \A o \in made : ColouredAt(m, o) => ColouredAt(n, o)
         /\ \A u \in Open : m.mark[u] # Black => n.mark[u] # Black
<1>0. made \subseteq Obj
  BY DEF GCTypes
<1>1. /\ n \in MarkRecs /\ n.grayagain = m.grayagain /\ n.weak = m.weak /\ m.gray \subseteq n.gray
      /\ \A o \in Obj : m.mark[o] \notin White => n.mark[o] = m.mark[o]
      /\ \A o \in Obj : n.mark[o] \in White => n.mark[o] = m.mark[o]
      /\ \A o \in made : m.mark[o] \in White /\ n.mark[o] \notin White =>
              /\ n.mark[o] = Marked(o)
              /\ o \in Listed => o \in n.gray
              /\ \A v \in AtOnce[o] \cap made : n.mark[v] \notin White
  BY <1>0, MarkAllMarks
<1>2. ASSUME NEW u \in Open, m.mark[u] # Black PROVE n.mark[u] # Black
  <2>1. u \in made /\ u \in Obj /\ Marked(u) = Gray
    BY <1>0, DoneOf DEF Open
  <2> QED
    BY <1>1, <1>2, <2>1, Colours
<1>3. ASSUME NEW o \in made, ColouredAt(m, o), n.mark[o] = Black
      PROVE  o \notin Weak \cup String \cup {Main} /\ (ref[o] # NilRef => n.mark[ref[o]] \notin White)
  <2>1. CASE m.mark[o] \notin White
    BY <1>0, <1>1, <1>3, <2>1, Colours DEF ColouredAt
  <2>2. CASE m.mark[o] \in White
    <3>1. Marked(o) = Black
      BY <1>1, <1>3, <2>2, Colours
    <3>2. o \notin Weak \cup String \cup {Main}
      BY <3>1, DoneOf, Colours
    <3>3. o \in Udata \/ (o \in Upval /\ level[o] = 0)
      BY <3>1, Colours DEF Marked
    <3>4. AtOnce[o] = {ref[o]}
      BY <1>0, <3>3, LuaGCAssumption DEF AtOnce, ValueOf
    <3> QED
      BY <1>1, <1>3, <2>2, <3>2, <3>4, Colours
  <2> QED
    BY <2>1, <2>2
<1>4. ASSUME NEW o \in made, ColouredAt(m, o), n.mark[o] = Gray
      PROVE  o \in String \cup Open \cup n.gray \cup n.grayagain \cup n.weak
  <2>1. CASE m.mark[o] \notin White
    BY <1>0, <1>1, <1>4, <2>1 DEF ColouredAt
  <2>2. CASE m.mark[o] \in White
    <3>1. Marked(o) = Gray /\ (o \in Listed => o \in n.gray)
      BY <1>1, <1>4, <2>2, Colours
    <3>2. o \in Obj /\ o \notin Udata /\ (o \in Upval => level[o] # 0)
      BY <1>0, <3>1, Colours DEF Marked
    <3> QED
      BY <3>1, <3>2 DEF Obj, Listed, Open
  <2> QED
    BY <2>1, <2>2
<1> QED
  BY <1>2, <1>3, <1>4 DEF ColouredAt

\* Steps that only mark.
LEMMA SameHeap ==
  ASSUME GCInv, UNCHANGED <<made, ref, currentwhite, stack, level, tmudata, wasted>>,
         \A o \in made : mark'[o] = otherwhite <=> mark[o] = otherwhite
  PROVE  RefTypes' /\ LiveRefs'
<1>1. RefTypes'
  BY DEF GCInv, RefTypes
<1>2. Alive' = Alive
  BY DEF Alive, isdead, otherwhite
<1>3. OnStack' = OnStack
  BY DEF OnStack, InSlot
<1>4. \A o : References(o)' = References(o)
  BY DEF References, ValueOf
<1>5. LiveRefs'
  BY <1>2, <1>3, <1>4 DEF GCInv, LiveRefs
<1> QED
  BY <1>1, <1>5

\* The marking begins: of the roots neither leads on at once.
LEMMA RootMarked ==
  ASSUME GCTypes, NEW mk \in [Obj -> 0 .. 3], mk[Main] \in White, mk[Global] \in White, NEW n, n = markroot(mk)
  PROVE  /\ n.mark = [o \in Obj |-> IF o \in {Main, Global} THEN Gray ELSE mk[o]]
         /\ n.gray = {Main, Global} /\ n.grayagain = {} /\ n.weak = {}
<1> DEFINE m == [mark |-> mk, gray |-> {}, grayagain |-> {}, weak |-> {}]
           S == {Main, Global}
           D == Reached(Whites(m), S, AtOnce)
<1>1. m \in MarkRecs /\ m.mark = mk /\ m.gray = {} /\ m.grayagain = {} /\ m.weak = {}
  BY DEF MarkRecs
<1>2. made \subseteq Obj /\ {Main, Global} \subseteq made /\ {Main, Global} \subseteq Listed
  BY LuaGCAssumption DEF GCTypes, Listed
<1> HIDE DEF m
<1>3. {Main, Global} \subseteq Whites(m)
  BY <1>1, <1>2 DEF Whites
<1>4. AtOnce[Main] = {} /\ AtOnce[Global] = {}
  BY <1>2, LeadsTo, LuaGCAssumption
<1>5. D \subseteq {Main, Global}
  <2>1. {Main, Global} \in SUBSET Whites(m)
    BY <1>3
  <2>2. {Main, Global} \cap Whites(m) \subseteq {Main, Global}
    OBVIOUS
  <2>3. \A p \in {Main, Global} : AtOnce[p] \cap Whites(m) \subseteq {Main, Global}
    BY <1>4
  <2> QED
    BY <2>1, <2>2, <2>3, ReachedLeast
<1>6. {Main, Global} \cap Whites(m) \subseteq D
  BY ReachedHas, Zenon
<1>7. D = {Main, Global}
  BY <1>3, <1>5, <1>6
<1>8. n = MarkAll(m, S)
  BY DEF markroot, m
<1> HIDE DEF D, S
<1>9. /\ n.mark = [o \in Obj |-> IF o \in D THEN Marked(o) ELSE m.mark[o]]
      /\ n.gray = m.gray \cup (D \cap Listed)
      /\ n.grayagain = m.grayagain /\ n.weak = m.weak
  <2>1. m \in MarkRecs
    BY <1>1
  <2>2. D = Reached(Whites(m), S, AtOnce)
    BY DEF D
  <2> QED
    BY <1>8, <2>1, <2>2, MarkAllFields
<1>10. \A o \in {Main, Global} : Marked(o) = Gray
  BY <1>2, DoneOf
<1>11. n.mark = [o \in Obj |-> IF o \in {Main, Global} THEN Gray ELSE mk[o]]
  BY <1>1, <1>7, <1>9, <1>10
<1> QED
  BY <1>1, <1>2, <1>7, <1>9, <1>11

\* A cycle starts.
LEMMA StartCycleInv == GCInv /\ StartCycle => GCRest'
<1> SUFFICES ASSUME GCInv, StartCycle PROVE GCRest'
  OBVIOUS
<1>1. /\ gcstate = "pause" /\ gcstate' = "propagate" /\ SetMarks(markroot(mark))
      /\ UNCHANGED <<made, ref, currentwhite, unswept, stack, level, tmudata, finalized, wasted>>
  BY DEF StartCycle, heap, program, finalization
<1>2. /\ made \subseteq Obj /\ {Main, Global} \subseteq made /\ mark \in [Obj -> 0 .. 3] /\ currentwhite \in White
      /\ unswept = {} /\ \A o \in made : ~isdead(o) /\ mark[o] = currentwhite
  BY <1>1, NoneDead DEF GCInv, GCTypes, SweepInv
<1>3. /\ \A o \in made : mark'[o] = IF o \in {Main, Global} THEN Gray ELSE currentwhite
      /\ gray' = {Main, Global}
  <2>1. mark[Main] \in White /\ mark[Global] \in White
    BY <1>2
  <2>2. /\ mark' = [o \in Obj |-> IF o \in {Main, Global} THEN Gray ELSE mark[o]]
        /\ gray' = {Main, Global}
    BY <1>1, <1>2, <2>1, RootMarked DEF SetMarks, GCInv
  <2> QED
    BY <1>2, <2>2
<1>4. \A o \in made : mark'[o] # otherwhite /\ mark'[o] # Black
  BY <1>2, <1>3, Colours
<1>5. RefTypes' /\ LiveRefs'
  BY <1>1, <1>2, <1>4, SameHeap DEF isdead
<1>6. SweepInv'
  BY <1>1, <1>2, <1>4 DEF SweepInv, isdead, otherwhite, Open
<1>7. TriColour'
  BY <1>1, <1>2, <1>3, <1>4, Colours DEF TriColour, Coloured, ColouredAt, Marks
<1> QED
  BY <1>5, <1>6, <1>7 DEF GCRest

\* Dead objects are freed, and nothing else that is alive changes.
LEMMA Freed ==
  ASSUME GCInv, NEW dead, dead \subseteq made, \A o \in dead : isdead(o),
         made' = made \ dead, Alive' = Alive,
         ref' = [o \in Obj |-> IF o \in dead THEN NilRef ELSE ref[o]],
         level' = [u \in Upval |-> IF u \in dead THEN 0 ELSE level[u]],
         UNCHANGED <<stack, tmudata, wasted>>
  PROVE  RefTypes' /\ LiveRefs' /\ Open' \subseteq Open
<1>1. /\ \A o \in Obj : ref'[o] = IF o \in dead THEN NilRef ELSE ref[o]
      /\ \A u \in Upval : level'[u] = IF u \in dead THEN 0 ELSE level[u]
      /\ Table \cup Udata \cup Upval \cup Function \cup String \cup {Main} \subseteq Obj /\ made \subseteq Obj
  BY DEF Obj, GCInv, GCTypes
<1>2. RefTypes'
  <2>1. \A o \in Table \cup Udata \cup Upval : ref'[o] \in Values
    BY <1>1 DEF GCInv, RefTypes, Values
  <2>2. \A f \in Function : ref'[f] \in Upval \cup {NilRef} /\ (f \in made' => ref'[f] \in Upval)
    BY <1>1 DEF GCInv, RefTypes
  <2>3. \A o \in String \cup {Main} : ref'[o] = NilRef
    BY <1>1 DEF GCInv, RefTypes
  <2>4. \A u \in Upval : u \notin made' \/ level'[u] # 0 => ref'[u] = NilRef
    BY <1>1 DEF GCInv, RefTypes
  <2> QED
    BY <2>1, <2>2, <2>3, <2>4 DEF RefTypes
<1>3. Open' \subseteq Open
  BY <1>1 DEF Open
<1>4. OnStack' = OnStack
  BY DEF OnStack, InSlot
<1>5. ASSUME NEW o \in Alive
      PROVE  References(o)' = References(o)
  <2>1. o \notin dead /\ o \in Obj
    BY <1>1 DEF Alive
  <2> QED
    BY <1>1, <2>1 DEF References, ValueOf
<1>6. LiveRefs'
  BY <1>4, <1>5 DEF GCInv, LiveRefs
<1> QED
  BY <1>2, <1>3, <1>6

\* A part is swept.
LEMMA SweepStepInv == GCInv /\ (SweepStrings \/ Sweep) => GCRest'
<1> SUFFICES ASSUME GCInv, SweepStrings \/ Sweep PROVE GCRest'
  OBVIOUS
<1>0. /\ made \subseteq Obj /\ Main \in made /\ Main \notin Open /\ unswept \subseteq made /\ currentwhite \in White
      /\ Main \notin unswept => Open \cap unswept = {}
  BY LuaGCAssumption DEF GCInv, GCTypes, SweepInv, Open
<1>1. PICK S : /\ Swept(S) /\ S \subseteq made /\ gcstate # "propagate" /\ gcstate' # "propagate" /\ gcstate' # "pause"
               /\ gcstate' = "finalize" => unswept \ S = {}
               /\ Main \notin unswept \ S => Open \cap (unswept \ S) = {}
  <2>1. CASE SweepStrings
    <3>1. Main \notin String
      BY LuaGCAssumption
    <3> QED
      BY <1>0, <2>1, <3>1 DEF SweepStrings
  <2>2. CASE Sweep
    <3> DEFINE listed == (unswept \cap made) \ Open
    <3>1. CASE listed = {}
      <4>1. unswept = {}
        BY <1>0, <3>1
      <4> QED
        BY <2>2, <3>1, <4>1 DEF Sweep
    <3>2. CASE listed # {}
      <4>1. PICK o \in listed : Swept({o} \cup IF o = Main THEN Open ELSE {}) /\ gcstate' = gcstate /\ gcstate = "sweep"
        BY <2>2, <3>2 DEF Sweep
      <4>2. Open \subseteq made
        BY DEF Open
      <4> QED
        BY <1>0, <4>1, <4>2
    <3> QED
      BY <3>1, <3>2
  <2> QED
    BY <2>1, <2>2
<1> DEFINE dead == {o \in S : isdead(o)}
<1>2. /\ made' = made \ dead /\ unswept' = unswept \ S
      /\ mark' = [o \in Obj |-> IF o \in S \ dead THEN currentwhite ELSE mark[o]]
      /\ ref' = [o \in Obj |-> IF o \in dead THEN NilRef ELSE ref[o]]
      /\ level' = [u \in Upval |-> IF u \in dead THEN 0 ELSE level[u]]
      /\ UNCHANGED <<gray, grayagain, weak, currentwhite, stack, tmudata, finalized, wasted>>
  BY <1>1, Zenon DEF Swept, finalization
<1>3. dead \subseteq S /\ dead \subseteq made /\ (\A o \in dead : isdead(o)) /\ \A o \in S : isdead(o) => o \in dead
  BY <1>1
<1> HIDE DEF dead
<1>4. \A o \in made : mark'[o] = IF o \in S \ dead THEN currentwhite ELSE mark[o]
  BY <1>0, <1>2
<1>5. \A o \in made' : o \in made /\ (isdead(o)' <=> isdead(o) /\ o \notin S)
  BY <1>0, <1>2, <1>3, <1>4, Colours DEF isdead, otherwhite
<1>6. Alive' = Alive
  BY <1>2, <1>3, <1>5 DEF Alive
<1>7. RefTypes' /\ LiveRefs' /\ Open' \subseteq Open
  BY <1>2, <1>3, <1>6, Freed
<1>8. SweepInv'
  <2>1. \A o \in made' \ unswept' : mark'[o] = currentwhite
    BY <1>1, <1>2, <1>3, <1>4 DEF GCInv, SweepInv
  <2>2. \A o \in made' : isdead(o)' => o \in unswept'
    BY <1>2, <1>5 DEF GCInv, SweepInv
  <2>3. \A u \in Open' : mark'[u] # Black
    <3>1. \A u \in Open : u \in made /\ mark[u] # Black
      BY DEF GCInv, SweepInv, Open
    <3> QED
      BY <1>0, <1>4, <1>7, <3>1, Colours
  <2>4. gcstate' \in {"pause", "propagate", "finalize"} => unswept' = {}
    BY <1>1, <1>2
  <2>5. Main \notin unswept' => Open' \cap unswept' = {}
    BY <1>1, <1>2, <1>7
  <2> QED
    BY <1>2, <2>1, <2>2, <2>3, <2>4, <2>5 DEF SweepInv
<1>9. TriColour'
  BY <1>1 DEF TriColour
<1> QED
  BY <1>7, <1>8, <1>9 DEF GCRest

\* luaC_fullgc() makes everything white and begins anew.
LEMMA FullGCInv == GCInv /\ FullGC => GCRest'
<1> SUFFICES ASSUME GCInv, FullGC PROVE GCRest'
  OBVIOUS
<1> DEFINE rest == IF gcstate \in {"pause", "propagate"} THEN made ELSE unswept
           dead == {o \in rest \cap made : isdead(o)}
           white == [o \in Obj |-> IF o \in rest \ dead THEN currentwhite ELSE mark[o]]
<1>0. /\ made \subseteq Obj /\ {Main, Global} \subseteq made /\ unswept \subseteq made /\ currentwhite \in White
      /\ mark \in [Obj -> 0 .. 3]
  BY DEF GCInv, GCTypes
<1>1. /\ made' = made \ dead /\ SetMarks(markroot(white))
      /\ ref' = [o \in Obj |-> IF o \in dead THEN NilRef ELSE ref[o]]
      /\ level' = [u \in Upval |-> IF u \in dead THEN 0 ELSE level[u]]
      /\ gcstate' = "propagate" /\ unswept' = {} /\ gcstate # "finalize"
      /\ UNCHANGED <<currentwhite, stack, tmudata, finalized, wasted>>
  BY Zenon DEF FullGC, finalization
<1>2. dead \subseteq made /\ (\A o \in dead : isdead(o)) /\ \A o \in made : isdead(o) => o \in dead
  BY <1>0 DEF GCInv, SweepInv
<1>3. white \in [Obj -> 0 .. 3]
  BY <1>0, Colours
<1>4. \A o \in made \ dead : white[o] = currentwhite
  <2>1. CASE gcstate \in {"pause", "propagate"}
    BY <1>0, <2>1
  <2>2. CASE gcstate \notin {"pause", "propagate"}
    BY <1>0, <2>2 DEF GCInv, SweepInv
  <2> QED
    BY <2>1, <2>2
<1>5. Main \notin dead /\ Global \notin dead
  BY <1>2 DEF GCInv, LiveRefs, Alive
<1> HIDE DEF rest, dead, white
<1>6. /\ mark' = [o \in Obj |-> IF o \in {Main, Global} THEN Gray ELSE white[o]]
      /\ gray' = {Main, Global}
  BY <1>0, <1>1, <1>3, <1>4, <1>5, RootMarked DEF SetMarks, GCInv
<1>7. \A o \in made' : mark'[o] = (IF o \in {Main, Global} THEN Gray ELSE currentwhite)
  BY <1>0, <1>1, <1>4, <1>6
<1>8. \A o \in made' : mark'[o] # otherwhite /\ mark'[o] # Black
  BY <1>0, <1>7, Colours
<1>9. Alive' = Alive
  <2>1. \A o \in made' : ~isdead(o)'
    BY <1>1, <1>8 DEF isdead, otherwhite
  <2> QED
    BY <1>1, <1>2, <2>1 DEF Alive
<1>10. RefTypes' /\ LiveRefs' /\ Open' \subseteq Open
  BY <1>1, <1>2, <1>9, Freed
<1>11. SweepInv'
  <2>1. \A u \in Open' : u \in made'
    BY DEF Open
  <2> QED
    BY <1>1, <1>8, <2>1 DEF SweepInv, isdead, otherwhite
<1>12. TriColour'
  <2>1. mark'[Main] = Gray
    BY <1>0, <1>6
  <2> QED
    BY <1>0, <1>1, <1>6, <1>7, <1>8, <2>1, Colours DEF TriColour, Coloured, ColouredAt, Marks
<1> QED
  BY <1>10, <1>11, <1>12 DEF GCRest

\* A gray object is traversed.
LEMMA PropagateInv == GCInv /\ Propagate => GCRest'
<1> SUFFICES ASSUME GCInv, Propagate PROVE GCRest'
  OBVIOUS
<1>1. /\ gcstate = "propagate" /\ gcstate' = "propagate"
      /\ UNCHANGED <<made, ref, currentwhite, unswept, stack, level, tmudata, finalized, wasted>>
  BY DEF Propagate, heap, program, finalization
<1>2. PICK o \in gray : SetMarks(propagatemark(Marks, o))
  BY DEF Propagate
<1>3. /\ GCTypes /\ RefTypes /\ \A p \in made : ref[p] # NilRef => ref[p] \in made
      /\ unswept = {} /\ \A p \in made : ~isdead(p)
  BY <1>1, NoneDead DEF GCInv
<1>4. made \subseteq Obj /\ o \in Listed /\ o \in Obj /\ currentwhite \in White
  BY <1>3, Objects DEF GCTypes
<1> DEFINE m == [Marks EXCEPT !.mark[o] = Done(o), !.gray = @ \ {o},
                    !.grayagain = @ \cup ({o} \cap {Main}), !.weak = @ \cup ({o} \cap Weak)]
           n == MarkAll(m, Traversed[o])
<1>5. mark' = n.mark /\ gray' = n.gray /\ grayagain' = n.grayagain /\ weak' = n.weak
  BY <1>2 DEF SetMarks, propagatemark
<1>6. /\ m \in MarkRecs /\ m.mark = [mark EXCEPT ![o] = Done(o)] /\ m.gray = gray \ {o}
      /\ m.grayagain = grayagain \cup ({o} \cap {Main}) /\ m.weak = weak \cup ({o} \cap Weak)
  <2>1. Marks \in MarkRecs
    BY <1>3, MarkResults
  <2>2. Done(o) \in 0 .. 3 /\ Main \in Listed
    BY <1>4, DoneOf, Objects DEF Listed
  <2>3. m \in MarkRecs
    BY <2>1, <2>2 DEF MarkRecs
  <2> QED
    BY <2>3 DEF Marks
<1> HIDE DEF m
<1>7. /\ \A p \in Obj : m.mark[p] \notin White => n.mark[p] = m.mark[p]
      /\ \A p \in Obj : n.mark[p] \in White => n.mark[p] = m.mark[p]
      /\ \A p \in made \cap Traversed[o] : n.mark[p] \notin White
      /\ m.gray \subseteq n.gray /\ n.grayagain = m.grayagain /\ n.weak = m.weak
  <2> DEFINE S == Traversed[o]
  <2>1. n = MarkAll(m, S)
    OBVIOUS
  <2> HIDE DEF S, n
  <2>0. m \in MarkRecs
    BY <1>6
  <2>2. /\ m.gray \subseteq n.gray /\ n.grayagain = m.grayagain /\ n.weak = m.weak
        /\ \A p \in Obj : m.mark[p] \notin White => n.mark[p] = m.mark[p]
        /\ \A p \in Obj : n.mark[p] \in White => n.mark[p] = m.mark[p]
    BY <1>4, <2>0, <2>1, MarkAllMarks
  <2>3. \A p \in made \cap S : n.mark[p] \notin White
    BY <1>4, <2>0, <2>1, MarkAllMarks
  <2> QED
    BY <2>2, <2>3 DEF S
<1> HIDE DEF n
<1>8. \A p \in Obj : m.mark[p] = IF p = o THEN Done(o) ELSE mark[p]
  BY <1>3, <1>6 DEF GCTypes
<1>9. Done(o) \in {Gray, Black} /\ mark[Main] \notin White /\ Coloured(Marks)
  BY <1>1, <1>4, DoneOf DEF GCInv, TriColour
<1>10. \A p \in made : n.mark[p] # otherwhite
  BY <1>3, <1>4, <1>7, <1>8, <1>9, Colours DEF isdead
<1>11. \A p \in Obj : mark[p] \notin White => n.mark[p] \notin White
  BY <1>7, <1>8, <1>9, Colours
<1>12. ASSUME NEW p \in made
       PROVE  ColouredAt(n, p)
  <2>1. CASE p = o
    <3>1. n.mark[o] = Done(o)
      BY <1>4, <1>7, <1>8, <1>9, Colours
    <3>2. CASE o \in Weak \cup {Main}
      BY <1>6, <1>7, <2>1, <3>1, <3>2, DoneOf, Colours DEF ColouredAt
    <3>3. CASE o \notin Weak \cup {Main}
      <4>1. Traversed[o] = {ref[o]} /\ Done(o) = Black /\ o \notin String
        BY <1>4, <3>3, LeadsTo, LuaGCAssumption DEF Listed, Done
      <4>2. ref[o] # NilRef => n.mark[ref[o]] \notin White
        BY <1>3, <1>7, <2>1, <4>1
      <4> QED
        BY <2>1, <3>1, <3>3, <4>1, <4>2, Colours DEF ColouredAt
    <3> QED
      BY <3>2, <3>3
  <2>2. CASE p # o
    <3>1. ColouredAt(Marks, p)
      BY <1>9 DEF Coloured
    <3>2. \A v \in Obj : mark[v] \notin White => m.mark[v] \notin White
      BY <1>8, <1>9, Colours
    <3>3. ref[p] # NilRef => ref[p] \in Obj
      BY <1>3, <1>4
    <3>4. m.mark[p] = mark[p] /\ Marks.mark = mark /\ Marks.gray = gray /\ Marks.grayagain = grayagain /\ Marks.weak = weak
      BY <1>4, <1>8, <2>2 DEF Marks
    <3>5. ColouredAt(m, p)
      BY <1>6, <2>2, <3>1, <3>2, <3>3, <3>4 DEF ColouredAt
    <3> QED
      BY <1>3, <1>6, <3>5, MarkAllKeeps DEF n
  <2> QED
    BY <2>1, <2>2
<1>13. \A u \in Open : n.mark[u] # Black
  <2>1. \A u \in Open : m.mark[u] # Black
    <3>1. \A u \in Open : u \in Obj /\ u # o
      BY <1>4, Objects DEF Open
    <3> QED
      BY <1>8, <3>1 DEF GCInv, SweepInv
  <2> QED
    BY <1>3, <1>6, <2>1, MarkAllKeeps DEF n
<1>14. RefTypes' /\ LiveRefs'
  BY <1>1, <1>3, <1>5, <1>10, SameHeap DEF isdead
<1>15. Open' = Open
  BY <1>1 DEF Open
<1>16. SweepInv'
  BY <1>1, <1>3, <1>5, <1>10, <1>13, <1>15 DEF SweepInv, isdead, otherwhite
<1>17. TriColour'
  <2>1. mark'[Main] \notin White
    BY <1>3, <1>4, <1>5, <1>9, <1>11 DEF GCTypes
  <2> QED
    BY <1>1, <1>5, <1>12, <1>15, <2>1 DEF TriColour, Coloured, ColouredAt, Marks
<1> QED
  BY <1>14, <1>16, <1>17 DEF GCRest

\* The cycle ends.
LEMMA EndCycleInv == GCInv /\ EndCycle => GCRest'
<1> SUFFICES ASSUME GCInv, EndCycle PROVE GCRest'
  OBVIOUS
<1>1. /\ gcstate = "finalize" /\ gcstate' = "pause"
      /\ UNCHANGED <<made, ref, mark, currentwhite, unswept, stack, level, tmudata, finalized, wasted>>
  BY DEF EndCycle, heap, program, finalization, marks
<1>2. RefTypes' /\ LiveRefs'
  BY <1>1, SameHeap
<1>3. SweepInv' /\ TriColour'
  BY <1>1 DEF GCInv, SweepInv, TriColour, Open, isdead, otherwhite
<1> QED
  BY <1>2, <1>3 DEF GCRest

\* A finalizer is called with its userdata.
LEMMA FinalizeInv == \A s \in Slots : GCInv /\ Finalize(s) => GCRest'
<1> SUFFICES ASSUME NEW s \in Slots, GCInv, Finalize(s) PROVE GCRest'
  OBVIOUS
<1>1. PICK u \in tmudata : /\ tmudata' = tmudata \ {u}
                           /\ mark' = [mark EXCEPT ![u] = currentwhite]
                           /\ stack' = [stack EXCEPT ![s] = u]
                           /\ wasted' = (wasted \/ u \notin made)
  BY DEF Finalize
<1>2. gcstate = "finalize" /\ gcstate' = "finalize" /\ UNCHANGED <<made, ref, currentwhite, unswept, level>>
  BY DEF Finalize, heap
<1>3. /\ unswept = {} /\ Alive = made /\ \A o \in made : ~isdead(o)
      /\ made \subseteq Obj /\ mark \in [Obj -> 0 .. 3] /\ currentwhite \in White /\ stack \in [Slots -> Values]
  BY <1>2, NoneDead DEF GCInv, GCTypes
<1>4. u \in made /\ u \in Udata /\ u # NilRef /\ ~wasted'
  BY <1>1, <1>3, Objects DEF GCInv, GCTypes, LiveRefs
<1>5. \A o \in made : mark'[o] = IF o = u THEN currentwhite ELSE mark[o]
  BY <1>1, <1>3
<1>6. \A o \in made : ~isdead(o)'
  BY <1>2, <1>3, <1>5, Colours DEF isdead, otherwhite
<1>7. Alive' = made
  BY <1>2, <1>6 DEF Alive
<1>8. RefTypes'
  BY <1>2 DEF GCInv, RefTypes
<1>9. LiveRefs'
  <2>1. OnStack' \subseteq made
    <3>1. \A t \in Slots : stack'[t] = IF t = s THEN u ELSE stack[t]
      BY <1>1, <1>3
    <3>2. \A t \in Slots : stack[t] # NilRef => stack[t] \in made
      BY <1>3 DEF GCInv, LiveRefs, OnStack, InSlot
    <3> QED
      BY <1>4, <3>1, <3>2 DEF OnStack, InSlot
  <2>2. ASSUME NEW o \in made
        PROVE  References(o)' \subseteq made
    <3>1. ref[o] # NilRef => ref[o] \in made
      BY <1>2, NoneDead
    <3>2. o \in Upval => ValueOf(o)' = NilRef \/ ValueOf(o)' \in made
      <4>1. o \in Upval => level[o] \in Slots \cup {0}
        BY DEF GCInv, GCTypes
      <4> QED
        BY <1>2, <2>1, <3>1, <4>1 DEF ValueOf, OnStack, InSlot
    <3> QED
      BY <1>2, <3>1, <3>2 DEF References
  <2>3. {Global, Main} \cup tmudata' \subseteq made
    BY <1>1, <1>3 DEF GCInv, LiveRefs
  <2> QED
    BY <1>4, <1>7, <2>1, <2>2, <2>3 DEF LiveRefs
<1>10. SweepInv'
  <2>1. Open' = Open /\ u \notin Open
    BY <1>2, <1>4, LuaGCAssumption DEF Open
  <2> QED
    BY <1>2, <1>3, <1>5, <1>6, <2>1 DEF GCInv, SweepInv, Open
<1>11. TriColour'
  BY <1>2 DEF TriColour
<1> QED
  BY <1>8, <1>9, <1>10, <1>11 DEF GCRest

-----------------------------------------------------------------------------
(* The steps of the program.                                               *)

\* What the program has in hand, and what it comes to from there, is alive.
LEMMA LiveFacts ==
  ASSUME GCInv
  PROVE  /\ \A t \in Slots : stack[t] \in Alive \cup {NilRef}
         /\ \A o \in Alive : ref[o] \in Alive \cup {NilRef}
         /\ \A u \in Alive \cap Upval : ValueOf(u) \in Alive \cup {NilRef}
         /\ \A f \in OnStack \cap Function : f \in made /\ ref[f] \in Alive /\ ref[f] \in Upval
         /\ Alive \subseteq made /\ made \subseteq Obj /\ NilRef \notin Obj /\ NilRef \notin Alive
         /\ OnStack \subseteq Alive /\ Global \in Alive /\ Main \in Alive /\ tmudata \subseteq Alive /\ ~wasted
<1>1. Alive \subseteq made /\ made \subseteq Obj /\ NilRef \notin Obj /\ NilRef \notin Alive
  BY Objects DEF Alive, GCInv, GCTypes
<1>2. OnStack \subseteq Alive /\ Global \in Alive /\ Main \in Alive /\ tmudata \subseteq Alive /\ ~wasted
  BY DEF GCInv, LiveRefs
<1>3. \A t \in Slots : stack[t] \in Alive \cup {NilRef}
  BY <1>2 DEF OnStack, InSlot
<1>4. \A o \in Alive : ref[o] \in Alive \cup {NilRef}
  BY DEF GCInv, LiveRefs, References
<1>5. \A u \in Alive \cap Upval : ValueOf(u) \in Alive \cup {NilRef}
  BY DEF GCInv, LiveRefs, References
<1>6. \A f \in OnStack \cap Function : f \in made /\ ref[f] \in Upval
  BY <1>1, <1>2 DEF GCInv, RefTypes
<1>7. \A f \in OnStack \cap Function : ref[f] \in Alive
  BY <1>2, <1>4, <1>6, LuaGCAssumption
<1> QED
  BY <1>1, <1>2, <1>3, <1>4, <1>5, <1>6, <1>7

\* Enough for the references to be to what is alive.
LEMMA LiveStep ==
  ASSUME GCTypes', ~wasted', \A t \in Slots : stack'[t] \in Alive' \cup {NilRef},
         \A o \in Alive' : ref'[o] \in Alive' \cup {NilRef},
         {Global, Main} \cup tmudata' \subseteq Alive'
  PROVE  LiveRefs'
<1>1. OnStack' \subseteq Alive'
  BY DEF OnStack, InSlot
<1>2. ASSUME NEW o \in Alive'
      PROVE  References(o)' \subseteq Alive'
  <2>1. o \in Upval => level'[o] = 0 \/ level'[o] \in Slots
    BY DEF GCTypes
  <2>2. o \in Upval => ValueOf(o)' \in Alive' \cup {NilRef}
    BY <2>1 DEF ValueOf
  <2> QED
    BY <2>2 DEF References
<1> QED
  BY <1>1, <1>2 DEF LiveRefs

\* Enough for the sweeping: no mark changes but to the current white, or of what
\* is still before the sweeping.
LEMMA SweepKept ==
  ASSUME GCInv, UNCHANGED <<gcstate, unswept, currentwhite>>,
         \A o \in made' : \/ mark'[o] = currentwhite
                          \/ o \in made /\ mark'[o] = mark[o]
                          \/ o \in made /\ mark'[o] \in {Gray, Black} /\ (gcstate = "propagate" \/ o \in unswept),
         Open' \cap unswept \subseteq Open,
         \A u \in Open' : mark'[u] # Black
  PROVE  SweepInv'
<1>1. currentwhite \in White
  BY DEF GCInv, GCTypes
<1>2. \A o \in made' : isdead(o)' => o \in unswept
  BY <1>1, Colours DEF GCInv, SweepInv, isdead, otherwhite
<1>3. \A o \in made' \ unswept : gcstate # "propagate" => mark'[o] = currentwhite
  BY DEF GCInv, SweepInv
<1>4. Main \notin unswept => Open' \cap unswept = {}
  BY DEF GCInv, SweepInv
<1> QED
  BY <1>2, <1>3, <1>4 DEF GCInv, SweepInv

\* Enough for the colours: all is as it was, and what is new is white.
LEMMA ColouredGrown ==
  ASSUME GCInv, made \subseteq made', Open \subseteq Open',
         UNCHANGED <<gcstate, gray, grayagain, weak, currentwhite>>,
         gcstate = "propagate" =>
           /\ \A o \in made : mark'[o] = mark[o] /\ ref'[o] = ref[o]
           /\ \A o \in made' \ made : mark'[o] = currentwhite
  PROVE  TriColour'
<1> SUFFICES ASSUME gcstate = "propagate"
             PROVE  mark'[Main] \notin White /\ Coloured(Marks)'
  BY DEF TriColour
<1>1. /\ \A o \in made : ref[o] # NilRef => ref[o] \in made
      /\ Main \in made /\ currentwhite \in White /\ mark[Main] \notin White /\ Coloured(Marks)
  BY NoneDead DEF GCInv, GCTypes, TriColour
<1>2. ASSUME NEW o \in made'
      PROVE  ColouredAt(Marks, o)'
  <2>1. CASE o \in made
    BY <1>1, <2>1 DEF Coloured, ColouredAt, Marks
  <2>2. CASE o \notin made
    BY <1>1, <2>2, Colours DEF ColouredAt, Marks
  <2> QED
    BY <2>1, <2>2
<1> QED
  BY <1>1, <1>2 DEF Coloured

\* A table or userdata is made.
LEMMA NewInv == \A s \in Slots : GCInv /\ GCTypes' /\ New(s) => GCRest'
<1> SUFFICES ASSUME NEW s \in Slots, GCInv, GCTypes', New(s) PROVE GCRest'
  OBVIOUS
<1>1. PICK o \in Table \cup Udata :
        /\ o \notin made /\ made' = made \cup {o} /\ mark' = [mark EXCEPT ![o] = currentwhite]
        /\ ref' = [ref EXCEPT ![o] = NilRef] /\ stack' = [stack EXCEPT ![s] = o]
  BY DEF New, Pushed
<1>2. UNCHANGED <<currentwhite, gcstate, unswept, tmudata, finalized, gray, grayagain, weak, level, wasted>>
  BY DEF New, Quiet, finalization
<1>3. /\ made \subseteq Obj /\ mark \in [Obj -> 0 .. 3] /\ ref \in [Obj -> Values \cup Upval] /\ stack \in [Slots -> Values]
      /\ currentwhite \in White /\ unswept \subseteq made /\ o \in Obj /\ o \notin Upval \cup Function \cup String \cup {Main}
      /\ Table \cup Udata \cup Upval \cup Function \cup String \cup {Main} \subseteq Obj
  BY LuaGCAssumption DEF GCInv, GCTypes, Obj
<1>4. /\ \A p \in Obj : mark'[p] = IF p = o THEN currentwhite ELSE mark[p]
      /\ \A p \in Obj : ref'[p] = IF p = o THEN NilRef ELSE ref[p]
      /\ \A t \in Slots : stack'[t] = IF t = s THEN o ELSE stack[t]
  BY <1>1, <1>3
<1>5. Alive' = Alive \cup {o}
  BY <1>1, <1>2, <1>3, <1>4, Colours DEF Alive, isdead, otherwhite
<1>6. Open' = Open
  BY <1>1, <1>2, <1>3 DEF Open
<1>7. RefTypes'
  BY <1>1, <1>2, <1>3, <1>4 DEF GCInv, RefTypes, Values
<1>8. LiveRefs'
  BY <1>1, <1>2, <1>3, <1>4, <1>5, LiveFacts, LiveStep
<1>9. SweepInv'
  <2>1. \A u \in Open : u \in Obj /\ u # o /\ mark[u] # Black
    BY <1>1, <1>3 DEF GCInv, SweepInv, Open
  <2> QED
    BY <1>1, <1>2, <1>3, <1>4, <1>6, <2>1, SweepKept
<1>10. TriColour'
  BY <1>1, <1>2, <1>3, <1>4, <1>6, ColouredGrown
<1> QED
  BY <1>7, <1>8, <1>9, <1>10 DEF GCRest

\* A string is made, or found again: if it is dead it is changed back (lstring.c:91).
LEMMA StringInv == \A s \in Slots : GCInv /\ GCTypes' /\ luaS_newlstr(s) => GCRest'
<1> SUFFICES ASSUME NEW s \in Slots, GCInv, GCTypes', luaS_newlstr(s) PROVE GCRest'
  OBVIOUS
<1>1. PICK x \in String :
        /\ made' = made \cup {x} /\ stack' = [stack EXCEPT ![s] = x]
        /\ mark' = [mark EXCEPT ![x] = IF x \notin made \/ isdead(x) THEN currentwhite ELSE @]
  BY DEF luaS_newlstr, Pushed
<1>2. UNCHANGED <<currentwhite, gcstate, unswept, tmudata, finalized, gray, grayagain, weak, level, wasted, ref>>
  BY DEF luaS_newlstr, Quiet, finalization
<1>3. /\ made \subseteq Obj /\ mark \in [Obj -> 0 .. 3] /\ stack \in [Slots -> Values]
      /\ currentwhite \in White /\ unswept \subseteq made /\ x \in Obj /\ x \notin Upval \cup Function \cup {Main}
  BY LuaGCAssumption DEF GCInv, GCTypes, Obj
<1>4. /\ \A p \in Obj : mark'[p] = IF p = x /\ (x \notin made \/ isdead(x)) THEN currentwhite ELSE mark[p]
      /\ \A t \in Slots : stack'[t] = IF t = s THEN x ELSE stack[t]
  BY <1>1, <1>3
<1>5. Alive' = Alive \cup {x}
  BY <1>1, <1>2, <1>3, <1>4, Colours DEF Alive, isdead, otherwhite
<1>6. Open' = Open
  BY <1>1, <1>2, <1>3 DEF Open
<1>7. RefTypes'
  BY <1>1, <1>2, <1>3 DEF GCInv, RefTypes
<1>8. LiveRefs'
  <2>1. ref[x] = NilRef
    BY DEF GCInv, RefTypes
  <2> QED
    BY <1>1, <1>2, <1>3, <1>4, <1>5, <2>1, LiveFacts, LiveStep
<1>9. SweepInv'
  <2>1. \A u \in Open : u \in Obj /\ u # x /\ mark[u] # Black
    BY <1>1, <1>3 DEF GCInv, SweepInv, Open
  <2> QED
    BY <1>1, <1>2, <1>3, <1>4, <1>6, <2>1, SweepKept
<1>10. TriColour'
  <2>1. gcstate = "propagate" => \A p \in made : ~isdead(p)
    BY NoneDead
  <2> QED
    BY <1>1, <1>2, <1>3, <1>4, <1>6, <2>1, ColouredGrown
<1> QED
  BY <1>7, <1>8, <1>9, <1>10 DEF GCRest

\* A closure is made, with the open upvalue of its slot or a new one (lfunc.c:53).
LEMMA ClosureInv == \A s, l \in Slots : GCInv /\ GCTypes' /\ Closure(s, l) => GCRest'
<1> SUFFICES ASSUME NEW s \in Slots, NEW l \in Slots, GCInv, GCTypes', Closure(s, l) PROVE GCRest'
  OBVIOUS
<1> DEFINE open == {u \in Open : level[u] = l}
<1>1. PICK f \in Function \ made, u \in IF open # {} THEN open ELSE Upval \ made :
         /\ made' = made \cup {f, u} /\ level' = [level EXCEPT ![u] = l]
         /\ mark' = [mark EXCEPT ![f] = currentwhite, ![u] = IF open = {} \/ isdead(u) THEN currentwhite ELSE @]
         /\ ref' = [ref EXCEPT ![f] = u] /\ stack' = [stack EXCEPT ![s] = f]
  BY DEF Closure, Pushed
<1>2. UNCHANGED <<currentwhite, gcstate, unswept, tmudata, finalized, gray, grayagain, weak, wasted>>
  BY DEF Closure, Quiet, finalization
<1>3. /\ made \subseteq Obj /\ mark \in [Obj -> 0 .. 3] /\ stack \in [Slots -> Values] /\ ref \in [Obj -> Values \cup Upval]
      /\ level \in [Upval -> Slots \cup {0}] /\ l # 0
      /\ currentwhite \in White /\ unswept \subseteq made /\ f \in Obj
      /\ Table \cup Udata \cup Upval \cup Function \cup String \cup {Main} \subseteq Obj
  BY LuaGCAssumption DEF GCInv, GCTypes, Obj
<1>4. u \in Upval /\ ((u \in Open /\ level[u] = l) \/ u \notin made) /\ (open = {} <=> u \notin made)
  BY <1>1 DEF Open
<1> HIDE DEF open
<1>5. f # u /\ f \notin Upval \cup Table \cup Udata \cup String \cup {Main} /\ u \notin Table \cup Udata \cup String \cup {Main} \cup Function
      /\ u \in Obj
  BY <1>3, <1>4, LuaGCAssumption
<1>6. /\ \A p \in Obj : mark'[p] = IF p = f \/ (p = u /\ (u \notin made \/ isdead(u))) THEN currentwhite ELSE mark[p]
      /\ \A p \in Obj : ref'[p] = IF p = f THEN u ELSE ref[p]
      /\ \A t \in Slots : stack'[t] = IF t = s THEN f ELSE stack[t]
      /\ \A w \in Upval : level'[w] = IF w = u THEN l ELSE level[w]
  BY <1>1, <1>3, <1>4, <1>5
<1>7. Alive' = Alive \cup {f, u}
  <2>1. \A p \in made' : ~isdead(p)' <=> p \in Alive \cup {f, u}
    BY <1>1, <1>2, <1>3, <1>4, <1>5, <1>6, Colours DEF Alive, isdead, otherwhite
  <2> QED
    BY <1>1, <2>1 DEF Alive
<1>8. Open' = Open \cup {u}
  BY <1>1, <1>3, <1>4, <1>5, <1>6 DEF Open
<1>9. ref[u] = NilRef
  BY <1>3, <1>4 DEF GCInv, RefTypes, Open
<1>10. RefTypes'
  <2>1. \A o \in Table \cup Udata \cup Upval : ref'[o] \in Values
    BY <1>3, <1>5, <1>6 DEF GCInv, RefTypes
  <2>2. \A g \in Function : ref'[g] \in Upval \cup {NilRef} /\ (g \in made' => ref'[g] \in Upval)
    BY <1>1, <1>3, <1>4, <1>5, <1>6 DEF GCInv, RefTypes
  <2>3. \A o \in String \cup {Main} : ref'[o] = NilRef
    BY <1>3, <1>5, <1>6 DEF GCInv, RefTypes
  <2>4. \A w \in Upval : w \notin made' \/ level'[w] # 0 => ref'[w] = NilRef
    BY <1>1, <1>3, <1>5, <1>6, <1>9 DEF GCInv, RefTypes
  <2> QED
    BY <2>1, <2>2, <2>3, <2>4 DEF RefTypes
<1>11. LiveRefs'
  BY <1>1, <1>2, <1>3, <1>4, <1>5, <1>6, <1>7, <1>9, LiveFacts, LiveStep
<1>12. SweepInv'
  <2>1. \A w \in Open : w \in Obj /\ w # f /\ mark[w] # Black /\ w \in made
    BY <1>1, <1>3 DEF GCInv, SweepInv, Open
  <2>2. \A w \in Open' : mark'[w] # Black
    BY <1>3, <1>4, <1>5, <1>6, <1>8, <2>1, Colours
  <2>3. Open' \cap unswept \subseteq Open
    BY <1>3, <1>4, <1>8
  <2>4. \A o \in made' : mark'[o] = currentwhite \/ (o \in made /\ mark'[o] = mark[o])
    BY <1>1, <1>3, <1>4, <1>5, <1>6
  <2> QED
    BY <1>2, <2>2, <2>3, <2>4, SweepKept
<1>13. TriColour'
  <2>1. gcstate = "propagate" => \A p \in made : ~isdead(p)
    BY NoneDead
  <2> QED
    BY <1>1, <1>2, <1>3, <1>4, <1>5, <1>6, <1>8, <2>1, ColouredGrown
<1> QED
  BY <1>10, <1>11, <1>12, <1>13 DEF GCRest

\* What only reads, and puts on the stack what is alive.
LEMMA ReadInv ==
  ASSUME GCInv, GCTypes', NEW s \in Slots, NEW v \in Alive \cup {NilRef}, stack' = [stack EXCEPT ![s] = v], ~wasted',
         UNCHANGED <<made, ref, mark, gray, grayagain, weak, level, currentwhite, gcstate, unswept, finalized, tmudata>>
  PROVE  GCRest'
<1>1. Alive' = Alive /\ Open' = Open
  BY DEF Alive, isdead, otherwhite, Open
<1>2. \A t \in Slots : stack'[t] = IF t = s THEN v ELSE stack[t]
  BY DEF GCInv, GCTypes
<1>3. RefTypes'
  BY DEF GCInv, RefTypes
<1>4. LiveRefs'
  BY <1>1, <1>2, LiveFacts, LiveStep
<1>5. SweepInv'
  BY <1>1 DEF GCInv, SweepInv, isdead, otherwhite
<1>6. TriColour'
  BY <1>1 DEF GCInv, TriColour, Coloured, ColouredAt, Marks
<1> QED
  BY <1>3, <1>4, <1>5, <1>6 DEF GCRest

\* A field or an upvalue is read, or a slot is cleared.
LEMMA GetInv == \A s \in Slots : GCInv /\ GCTypes' /\ (Get(s) \/ GetUpval(s) \/ Pop(s)) => GCRest'
<1> SUFFICES ASSUME NEW s \in Slots, GCInv, GCTypes', Get(s) \/ GetUpval(s) \/ Pop(s) PROVE GCRest'
  OBVIOUS
<1>1. UNCHANGED <<made, ref, mark, gray, grayagain, weak, level, currentwhite, gcstate, unswept, finalized, tmudata>>
  BY DEF Get, GetUpval, Pop, Quiet, heap, marks, finalization
<1>2. \E v \in Alive \cup {NilRef} : stack' = [stack EXCEPT ![s] = v] /\ ~wasted'
  <2>1. CASE Get(s)
    <3>1. PICK o \in (OnStack \cap (Table \cup Udata)) \cup {Global} : stack' = [stack EXCEPT ![s] = ref[o]] /\ Uses({ref[o]})
      BY <2>1 DEF Get, Pushed
    <3>2. ref[o] \in Alive \cup {NilRef}
      BY LiveFacts
    <3> QED
      BY <3>1, <3>2, LiveFacts DEF Uses
  <2>2. CASE GetUpval(s)
    <3>1. PICK f \in OnStack \cap Function :
            stack' = [stack EXCEPT ![s] = ValueOf(ref[f])] /\ Uses({ref[f], ValueOf(ref[f])})
      BY <2>2 DEF GetUpval, Pushed
    <3>2. ref[f] \in Alive /\ ValueOf(ref[f]) \in Alive \cup {NilRef}
      BY LiveFacts
    <3> QED
      BY <3>1, <3>2, LiveFacts DEF Uses
  <2>3. CASE Pop(s)
    BY <2>3, LiveFacts DEF Pop, Pushed
  <2> QED
    BY <2>1, <2>2, <2>3
<1> QED
  BY <1>1, <1>2, ReadInv

\* What the barriers come to.
LEMMA Barriers ==
  ASSUME GCInv, NEW o \in made, NEW v \in made \cup {NilRef}, NEW m,
         \/ o \in Table /\ m = luaC_barriert(o, v)
         \/ o \notin Table /\ m = luaC_barrierf(Marks, o, v),
         SetMarks(m)
  PROVE  \/ /\ mark' = mark /\ gray' = gray /\ grayagain' = grayagain /\ weak' = weak
            /\ ~(v # NilRef /\ mark[v] \in White /\ mark[o] = Black)
         \/ /\ o \in Table /\ mark[o] = Black
            /\ mark' = [mark EXCEPT ![o] = Gray] /\ gray' = gray /\ grayagain' = grayagain \cup {o} /\ weak' = weak
         \/ /\ gcstate # "propagate" /\ mark[o] = Black
            /\ mark' = [mark EXCEPT ![o] = currentwhite] /\ gray' = gray /\ grayagain' = grayagain /\ weak' = weak
         \/ /\ gcstate = "propagate" /\ mark[o] = Black /\ v # NilRef /\ o \notin Table
            /\ SetMarks(MarkAll(Marks, {v}))
<1> DEFINE hit == v # NilRef /\ mark[v] \in White /\ mark[o] = Black
<1>1. Marks = [mark |-> mark, gray |-> gray, grayagain |-> grayagain, weak |-> weak]
  BY DEF Marks
<1>2. CASE ~hit
  <2>1. m = Marks
    BY <1>1, <1>2 DEF luaC_barriert, luaC_barrierf
  <2> QED
    BY <1>1, <1>2, <2>1 DEF SetMarks
<1>3. CASE hit /\ o \in Table
  <2>1. m = [Marks EXCEPT !.mark[o] = Gray, !.grayagain = @ \cup {o}]
    BY <1>3 DEF luaC_barriert
  <2>2. m.mark = [mark EXCEPT ![o] = Gray] /\ m.gray = gray /\ m.grayagain = grayagain \cup {o} /\ m.weak = weak
    BY <1>1, <2>1
  <2> QED
    BY <1>3, <2>2 DEF SetMarks
<1>4. CASE hit /\ o \notin Table /\ gcstate = "propagate"
  <2>1. m = MarkAll(Marks, {v})
    BY <1>1, <1>4 DEF luaC_barrierf
  <2> QED
    BY <1>4, <2>1
<1>5. CASE hit /\ o \notin Table /\ gcstate # "propagate"
  <2>1. m = [Marks EXCEPT !.mark[o] = currentwhite]
    BY <1>1, <1>5 DEF luaC_barrierf
  <2>2. m.mark = [mark EXCEPT ![o] = currentwhite] /\ m.gray = gray /\ m.grayagain = grayagain /\ m.weak = weak
    BY <1>1, <2>1
  <2> QED
    BY <1>5, <2>2 DEF SetMarks
<1> QED
  BY <1>2, <1>3, <1>4, <1>5

\* An object gets its field.
LEMMA StoreInv ==
  ASSUME GCInv, GCTypes', NEW o \in Alive, NEW v \in Alive \cup {NilRef}, v \in Values,
         o \in Table \cup Udata \/ (o \in Upval /\ level[o] = 0),
         ref' = [ref EXCEPT ![o] = v],
         NEW m, (o \in Table /\ m = luaC_barriert(o, v)) \/ (o \notin Table /\ m = luaC_barrierf(Marks, o, v)),
         SetMarks(m), ~wasted',
         UNCHANGED <<made, stack, level, currentwhite, gcstate, unswept, finalized, tmudata>>
  PROVE  GCRest'
<1>0. /\ made \subseteq Obj /\ Alive \subseteq made /\ o \in made /\ o \in Obj /\ v \in made \cup {NilRef}
      /\ NilRef \notin Obj /\ currentwhite \in White
      /\ mark \in [Obj -> 0 .. 3] /\ ref \in [Obj -> Values \cup Upval]
  BY LiveFacts DEF GCInv, GCTypes
<1>1. \A p \in Obj : ref'[p] = IF p = o THEN v ELSE ref[p]
  BY <1>0
<1>2. Open' = Open
  BY DEF Open
<1>3. RefTypes'
  <2>1. Table \cup Udata \cup Upval \cup Function \cup String \cup {Main} \subseteq Obj
    BY DEF Obj
  <2>2. o \notin Function \cup String \cup {Main}
    BY LuaGCAssumption
  <2>3. o \in Upval => level[o] = 0
    BY LuaGCAssumption
  <2> QED
    BY <1>0, <1>1, <2>1, <2>2, <2>3 DEF GCInv, RefTypes
<1>4. ASSUME Alive' = Alive PROVE LiveRefs'
  BY <1>0, <1>1, <1>4, LiveFacts, LiveStep
<1>5. mark[o] = Black /\ gcstate # "propagate" => o \in unswept
  BY <1>0, Colours DEF GCInv, SweepInv
<1>6. \A u \in Open : mark[u] # Black /\ u \in made /\ (u = o => o \notin Upval)
  BY LuaGCAssumption DEF GCInv, SweepInv, Open
<1>7. /\ Marks.mark = mark /\ Marks.gray = gray /\ Marks.grayagain = grayagain /\ Marks.weak = weak
      /\ Marks' = [mark |-> mark', gray |-> gray', grayagain |-> grayagain', weak |-> weak']
  BY DEF Marks
<1>8. gcstate = "propagate" => /\ \A p \in made : ref[p] # NilRef => ref[p] \in made
                              /\ mark[Main] \notin White /\ Coloured(Marks) /\ Alive = made
  BY NoneDead DEF GCInv, TriColour
<1>9. CASE /\ mark' = mark /\ gray' = gray /\ grayagain' = grayagain /\ weak' = weak
           /\ ~(v # NilRef /\ mark[v] \in White /\ mark[o] = Black)
  <2>1. LiveRefs'
    BY <1>4, <1>9 DEF Alive, isdead, otherwhite
  <2>2. SweepInv'
    BY <1>2, <1>9 DEF GCInv, SweepInv, isdead, otherwhite
  <2>3. TriColour'
    BY <1>0, <1>1, <1>2, <1>7, <1>8, <1>9 DEF TriColour, Coloured, ColouredAt
  <2> QED
    BY <1>3, <2>1, <2>2, <2>3 DEF GCRest
<1>10. CASE /\ o \in Table /\ mark[o] = Black
            /\ mark' = [mark EXCEPT ![o] = Gray] /\ gray' = gray /\ grayagain' = grayagain \cup {o} /\ weak' = weak
  <2>1. \A p \in Obj : mark'[p] = IF p = o THEN Gray ELSE mark[p]
    BY <1>0, <1>10
  <2>2. Alive' = Alive
    BY <1>0, <1>10, <2>1, Colours DEF Alive, isdead, otherwhite
  <2>3. SweepInv'
    <3>1. \A u \in Open' : mark'[u] # Black
      BY <1>0, <1>2, <1>6, <2>1, Colours
    <3> QED
      BY <1>0, <1>2, <1>5, <1>10, <2>1, <3>1, SweepKept
  <2>4. TriColour'
    BY <1>0, <1>1, <1>2, <1>7, <1>8, <1>10, <2>1, Colours DEF TriColour, Coloured, ColouredAt
  <2> QED
    BY <1>3, <1>4, <2>2, <2>3, <2>4 DEF GCRest
<1>11. CASE /\ gcstate # "propagate" /\ mark[o] = Black
            /\ mark' = [mark EXCEPT ![o] = currentwhite] /\ gray' = gray /\ grayagain' = grayagain /\ weak' = weak
  <2>1. \A p \in Obj : mark'[p] = IF p = o THEN currentwhite ELSE mark[p]
    BY <1>0, <1>11
  <2>2. Alive' = Alive
    BY <1>0, <1>11, <2>1, Colours DEF Alive, isdead, otherwhite
  <2>3. SweepInv'
    <3>1. \A u \in Open' : mark'[u] # Black
      BY <1>0, <1>2, <1>6, <2>1, Colours
    <3> QED
      BY <1>0, <1>2, <2>1, <3>1, SweepKept
  <2>4. TriColour'
    BY <1>11 DEF TriColour
  <2> QED
    BY <1>3, <1>4, <2>2, <2>3, <2>4 DEF GCRest
<1>12. CASE /\ gcstate = "propagate" /\ mark[o] = Black /\ v # NilRef /\ o \notin Table
            /\ SetMarks(MarkAll(Marks, {v}))
  <2> DEFINE n == MarkAll(Marks, {v})
  <2>1. Marks \in MarkRecs
    BY MarkResults DEF GCInv
  <2>2. /\ \A p \in Obj : Marks.mark[p] \notin White => n.mark[p] = Marks.mark[p]
        /\ \A p \in Obj : n.mark[p] \in White => n.mark[p] = Marks.mark[p]
        /\ \A p \in made \cap {v} : n.mark[p] \notin White
        /\ n \in MarkRecs
    BY <1>0, <2>1, MarkAllMarks
  <2>3. /\ \A p \in made : ColouredAt(Marks, p) => ColouredAt(n, p)
        /\ \A u \in Open : Marks.mark[u] # Black => n.mark[u] # Black
    BY <1>8, <1>12, <2>1, MarkAllKeeps DEF GCInv
  <2>4. mark' = n.mark /\ gray' = n.gray /\ grayagain' = n.grayagain /\ weak' = n.weak
    BY <1>12 DEF SetMarks
  <2> HIDE DEF n
  <2>5. \A p \in made : ~isdead(p)
    BY <1>12, NoneDead
  <2>6. Alive' = Alive
    <3>1. \A p \in made : mark'[p] # otherwhite
      BY <1>0, <1>7, <2>2, <2>4, <2>5, Colours DEF isdead
    <3> QED
      BY <1>8, <1>12, <3>1 DEF Alive, isdead, otherwhite
  <2>7. SweepInv'
    <3>1. \A u \in Open' : mark'[u] # Black
      BY <1>2, <1>6, <1>7, <2>3, <2>4
    <3>2. \A p \in made : mark'[p] = mark[p] \/ mark'[p] \in {Gray, Black}
      <4>1. \A p \in Obj : n.mark[p] \in 0 .. 3
        BY <2>2 DEF MarkRecs
      <4> QED
        BY <1>0, <1>7, <2>2, <2>4, <4>1, Colours
    <3> QED
      BY <1>0, <1>2, <1>12, <3>1, <3>2, SweepKept
  <2>8. TriColour'
    <3>1. mark'[Main] \notin White
      BY <1>0, <1>7, <1>8, <1>12, <2>2, <2>4 DEF GCInv, GCTypes
    <3>2. ASSUME NEW p \in made PROVE ColouredAt(Marks, p)'
      <4>1. ColouredAt(n, p)
        BY <1>8, <1>12, <2>3 DEF Coloured
      <4>2. n.mark[v] \notin White
        BY <1>0, <1>12, <2>2
      <4>3. o \notin Weak \cup String \cup {Main} /\ n.mark[o] = Black
        BY <1>0, <1>7, <1>12, <2>2, LuaGCAssumption, Colours
      <4> QED
        BY <1>0, <1>1, <1>2, <1>7, <2>4, <4>1, <4>2, <4>3, Colours DEF ColouredAt
    <3> QED
      BY <3>1, <3>2 DEF TriColour, Coloured
  <2> QED
    BY <1>3, <1>4, <2>6, <2>7, <2>8 DEF GCRest
<1> QED
  BY <1>0, <1>9, <1>10, <1>11, <1>12, Barriers

\* A field is set, with the barrier for tables or the one for the others.
LEMMA SetInv == \A s \in Slots : GCInv /\ GCTypes' /\ Set(s) => GCRest'
<1> SUFFICES ASSUME NEW s \in Slots, GCInv, GCTypes', Set(s) PROVE GCRest'
  OBVIOUS
<1>1. PICK o \in (OnStack \cap (Table \cup Udata)) \cup {Global}, v \in {InSlot(s), NilRef} :
    /\ ref' = [ref EXCEPT ![o] = v]
    /\ SetMarks(IF o \in Table THEN luaC_barriert(o, v) ELSE luaC_barrierf(Marks, o, v))
  BY DEF Set
<1>2. UNCHANGED <<made, stack, level, currentwhite, gcstate, unswept, finalized, tmudata, wasted>>
  BY DEF Set, Quiet, program, finalization
<1>3. o \in Alive /\ o \in Table \cup Udata /\ v \in Alive \cup {NilRef} /\ v \in Values /\ ~wasted
  BY LiveFacts, Holdings DEF InSlot, GCInv
<1>4. PICK m : SetMarks(m) /\ m = IF o \in Table THEN luaC_barriert(o, v) ELSE luaC_barrierf(Marks, o, v)
  BY <1>1
<1>5. (o \in Table /\ m = luaC_barriert(o, v)) \/ (o \notin Table /\ m = luaC_barrierf(Marks, o, v))
  BY <1>4
<1> QED
  BY <1>1, <1>2, <1>3, <1>4, <1>5, StoreInv

\* An upvalue is set.
LEMMA SetUpvalInv == \A s \in Slots : GCInv /\ GCTypes' /\ SetUpval(s) => GCRest'
<1> SUFFICES ASSUME NEW s \in Slots, GCInv, GCTypes', SetUpval(s) PROVE GCRest'
  OBVIOUS
<1>1. PICK f \in OnStack \cap Function :
       /\ Uses({ref[f]})
       /\ IF level[ref[f]] # 0 THEN Pushed(level[ref[f]], InSlot(s)) /\ UNCHANGED <<ref, marks>>
          ELSE /\ ref' = [ref EXCEPT ![ref[f]] = InSlot(s)] /\ UNCHANGED stack
               /\ SetMarks(luaC_barrierf(Marks, ref[f], InSlot(s)))
  BY DEF SetUpval
<1>2. UNCHANGED <<made, level, currentwhite, gcstate, unswept, finalized, tmudata>>
  BY DEF SetUpval, Quiet, finalization
<1>3. /\ ref[f] \in Alive /\ ref[f] \in Upval /\ ref[f] \notin Table
      /\ InSlot(s) \in Alive \cup {NilRef} /\ InSlot(s) \in Values /\ ~wasted'
  <2>1. ref[f] \in Alive /\ ref[f] \in Upval /\ Alive \subseteq made /\ ~wasted
    BY LiveFacts
  <2>2. InSlot(s) \in Alive \cup {NilRef} /\ InSlot(s) \in Values
    BY LiveFacts, Holdings DEF InSlot, GCInv
  <2>3. ref[f] \notin Table
    BY <2>1, LuaGCAssumption
  <2>4. ~wasted'
    BY <1>1, <2>1 DEF Uses
  <2> QED
    BY <2>1, <2>2, <2>3, <2>4
<1>4. CASE level[ref[f]] # 0
  <2>1. level[ref[f]] \in Slots
    BY <1>3, <1>4 DEF GCInv, GCTypes
  <2>2. stack' = [stack EXCEPT ![level[ref[f]]] = InSlot(s)] /\ UNCHANGED <<ref, mark, gray, grayagain, weak>>
    BY <1>1, <1>4 DEF Pushed, marks
  <2> QED
    BY <1>2, <1>3, <2>1, <2>2, ReadInv
<1>5. CASE level[ref[f]] = 0
  BY <1>1, <1>2, <1>3, <1>5, StoreInv
<1> QED
  BY <1>4, <1>5

\* Closing upvalues: those that are marked count as closed ones that are.
LEMMA LinkMarks ==
  ASSUME GCInv, gcstate = "propagate", NEW S \in SUBSET Open, NEW n, n = luaC_linkupval(S)
  PROVE  /\ n \in MarkRecs
         /\ \A p \in Obj : p \in S => n.mark[p] = Black
         /\ \A u \in Upval \ S : n.mark[u] = mark[u]
         /\ \A u \in S : stack[level[u]] \in made => n.mark[stack[level[u]]] \notin White
         /\ \A p \in Obj : n.mark[p] \in White => n.mark[p] = mark[p]
         /\ \A p \in Obj : mark[p] \notin White => n.mark[p] \notin White
         /\ \A p \in made \ S : ColouredAt(n, p)
<1> DEFINE m == [Marks EXCEPT !.mark = [o \in Obj |-> IF o \in S THEN Black ELSE @[o]]]
           V == {stack[level[u]] : u \in S}
           mk == [o \in Obj |-> IF o \in S THEN Black ELSE mark[o]]
<1>1. /\ made \subseteq Obj /\ mark \in [Obj -> 0 .. 3] /\ Upval \subseteq Obj /\ S \subseteq Upval
      /\ GCTypes /\ RefTypes /\ NilRef \notin Obj
      /\ \A p \in made : ref[p] # NilRef => ref[p] \in made
  BY NoneDead, Objects DEF GCInv, GCTypes, Open, Obj
<1>2. mk \in [Obj -> 0 .. 3] /\ \A p \in Obj : mk[p] = IF p \in S THEN Black ELSE mark[p]
  BY <1>1, Objects
<1>3. m = [mark |-> mk, gray |-> gray, grayagain |-> grayagain, weak |-> weak]
  BY DEF Marks
<1>4. n = MarkAll(m, V)
  BY Zenon DEF luaC_linkupval
<1> HIDE DEF mk
<1>5. m.mark = mk /\ m.gray = gray /\ m.grayagain = grayagain /\ m.weak = weak
  BY <1>3
<1>6. m \in MarkRecs
  BY <1>1, <1>2, <1>3 DEF MarkRecs, GCTypes
<1> HIDE DEF m
<1>7. V \cap Upval = {}
  <2>1. \A u \in S : level[u] \in Slots
    BY DEF GCInv, GCTypes, Open
  <2>2. \A u \in S : stack[level[u]] \in Values
    BY <2>1 DEF GCInv, GCTypes
  <2> QED
    BY <1>1, <2>2, Holdings
<1>8. \A u \in S : stack[level[u]] \in V
  OBVIOUS
<1> HIDE DEF V
<1>9. /\ n \in MarkRecs
      /\ \A o \in Obj : m.mark[o] \notin White => n.mark[o] = m.mark[o]
      /\ \A o \in Obj : n.mark[o] \in White => n.mark[o] = m.mark[o]
      /\ \A o \in made \cap V : n.mark[o] \notin White
  BY <1>1, <1>4, <1>6, MarkAllMarks
<1>10. \A u \in Upval : n.mark[u] = m.mark[u]
  BY <1>1, <1>4, <1>6, <1>7, MarkAllUpvals
<1>11. \A p \in made : ColouredAt(m, p) => ColouredAt(n, p)
  BY <1>1, <1>4, <1>6, MarkAllKeeps
<1>12. ASSUME NEW p \in made \ S
       PROVE  ColouredAt(m, p)
  <2>1. ColouredAt(Marks, p) /\ Marks.mark = mark /\ Marks.gray = gray /\ Marks.grayagain = grayagain /\ Marks.weak = weak
    BY DEF GCInv, TriColour, Coloured, Marks
  <2>2. ref[p] # NilRef => ref[p] \in Obj
    BY <1>1
  <2> QED
    BY <1>1, <1>2, <1>5, <2>1, <2>2, Colours DEF ColouredAt
<1>13. \A p \in Obj : n.mark[p] \in White => n.mark[p] = mark[p]
  BY <1>2, <1>5, <1>9, Colours
<1>14. \A p \in Obj : mark[p] \notin White => n.mark[p] \notin White
  BY <1>2, <1>5, <1>9, Colours
<1>15. \A p \in Obj : p \in S => n.mark[p] = Black
  BY <1>2, <1>5, <1>9, Colours
<1>16. \A u \in Upval \ S : n.mark[u] = mark[u]
  BY <1>1, <1>2, <1>5, <1>10
<1> QED
  BY <1>8, <1>9, <1>11, <1>12, <1>13, <1>14, <1>15, <1>16

\* Upvalues are closed: the dead are freed, the others get a value of their own.
LEMMA CloseInv == \A l \in Slots : GCInv /\ GCTypes' /\ luaF_close(l) => GCRest'
<1> SUFFICES ASSUME NEW l \in Slots, GCInv, GCTypes', luaF_close(l) PROVE GCRest'
  OBVIOUS
<1> DEFINE up == {u \in Open : level[u] >= l}
           dead == {u \in up : isdead(u)}
           S == {u \in up : mark[u] = Gray}
<1>1. /\ made' = made \ dead
      /\ ref' = [o \in Obj |-> IF o \in up \ dead THEN stack[level[o]] ELSE ref[o]]
      /\ level' = [u \in Upval |-> IF u \in up THEN 0 ELSE level[u]]
      /\ stack' = [s \in Slots |-> IF s >= l THEN NilRef ELSE stack[s]]
      /\ SetMarks(luaC_linkupval(S))
      /\ unswept' = unswept \ up
      /\ UNCHANGED <<currentwhite, gcstate, tmudata, finalized, wasted>>
  BY Zenon DEF luaF_close, finalization
<1>2. /\ up \subseteq Open /\ dead \subseteq up /\ S \subseteq up /\ (\A u \in up : u \in S <=> mark[u] = Gray)
      /\ \A u \in up : u \in dead <=> isdead(u)
      /\ \A u \in Open : level[u] \in Slots /\ u \in Upval /\ u \in made /\ mark[u] # Black /\ ref[u] = NilRef
  BY DEF Open, GCInv, GCTypes, SweepInv, RefTypes
<1>3. \A u \in Open \ up : ~(level[u] >= l)
  OBVIOUS
<1> HIDE DEF up, dead, S
<1>4. /\ made \subseteq Obj /\ mark \in [Obj -> 0 .. 3] /\ ref \in [Obj -> Values \cup Upval] /\ currentwhite \in White
      /\ unswept \subseteq made /\ Upval \subseteq Obj /\ NilRef \notin Obj /\ Main \notin up /\ Global \notin up /\ Main \in made
      /\ Table \cup Udata \cup Upval \cup Function \cup String \cup {Main} \subseteq Obj
      /\ \A u \in up : u \notin Table \cup Udata \cup Function \cup String
  BY <1>2, Objects, LuaGCAssumption DEF GCInv, GCTypes
<1>5. /\ \A o \in Obj : ref'[o] = IF o \in up \ dead THEN stack[level[o]] ELSE ref[o]
      /\ \A u \in Upval : level'[u] = IF u \in up THEN 0 ELSE level[u]
      /\ \A s \in Slots : stack'[s] = NilRef \/ stack'[s] = stack[s]
  BY <1>1
<1>6. Open' = Open \ up
  BY <1>1, <1>2, <1>5 DEF Open
<1>7. \A u \in up : stack[level[u]] \in Alive \cup {NilRef} /\ stack[level[u]] \in Values
  BY <1>2, LiveFacts DEF GCInv, GCTypes
<1>8. RefTypes'
  <2>1. \A o \in Table \cup Udata \cup Upval : ref'[o] \in Values
    BY <1>4, <1>5, <1>7 DEF GCInv, RefTypes
  <2>2. \A f \in Function : ref'[f] \in Upval \cup {NilRef} /\ (f \in made' => ref'[f] \in Upval)
    BY <1>1, <1>4, <1>5 DEF GCInv, RefTypes
  <2>3. \A o \in String \cup {Main} : ref'[o] = NilRef
    BY <1>4, <1>5 DEF GCInv, RefTypes
  <2>4. \A u \in Upval : u \notin made' \/ level'[u] # 0 => ref'[u] = NilRef
    BY <1>1, <1>2, <1>4, <1>5 DEF GCInv, RefTypes
  <2> QED
    BY <2>1, <2>2, <2>3, <2>4 DEF RefTypes
<1>9. Marks.mark = mark /\ Marks.gray = gray /\ Marks.grayagain = grayagain /\ Marks.weak = weak
  BY DEF Marks
<1>10. CASE gcstate = "propagate"
  <2>1. PICK n : n = luaC_linkupval(S) /\ mark' = n.mark /\ gray' = n.gray /\ grayagain' = n.grayagain /\ weak' = n.weak
    BY <1>1 DEF SetMarks
  <2>2. S \in SUBSET Open
    BY <1>2
  <2>3. /\ \A p \in Obj : p \in S => n.mark[p] = Black
        /\ \A u \in Upval \ S : n.mark[u] = mark[u]
        /\ \A u \in S : stack[level[u]] \in made => n.mark[stack[level[u]]] \notin White
        /\ \A p \in Obj : n.mark[p] \in White => n.mark[p] = mark[p]
        /\ \A p \in Obj : mark[p] \notin White => n.mark[p] \notin White
        /\ \A p \in made \ S : ColouredAt(n, p)
    BY <1>10, <2>1, <2>2, LinkMarks
  <2>4. /\ unswept = {} /\ Alive = made /\ \A o \in made : ~isdead(o)
        /\ mark[Main] \notin White
    BY <1>10, NoneDead DEF GCInv, TriColour
  <2>5. dead = {} /\ made' = made
    BY <1>1, <1>2, <2>4
  <2>6. \A o \in made : mark'[o] # otherwhite
    BY <1>4, <2>1, <2>3, <2>4, Colours DEF isdead
  <2>7. Alive' = made
    BY <1>1, <2>5, <2>6 DEF Alive, isdead, otherwhite
  <2>8. LiveRefs'
    <3>1. \A o \in made : ref'[o] \in made \cup {NilRef}
      BY <1>4, <1>5, <1>7, <2>4, LiveFacts
    <3>2. \A s \in Slots : stack'[s] \in made \cup {NilRef}
      BY <1>5, <2>4, LiveFacts
    <3> QED
      BY <1>1, <2>4, <2>7, <3>1, <3>2, LiveFacts, LiveStep
  <2>9. SweepInv'
    <3>1. \A u \in Open' : mark'[u] # Black
      BY <1>2, <1>6, <2>1, <2>3
    <3> QED
      BY <1>1, <1>10, <2>4, <2>5, <2>6, <3>1 DEF SweepInv, isdead, otherwhite
  <2>10. TriColour'
    <3>1. mark'[Main] \notin White
      BY <1>4, <2>1, <2>3, <2>4
    <3>2. ASSUME NEW p \in made PROVE ColouredAt(Marks, p)'
      <4>1. /\ Marks'.mark = mark' /\ Marks'.gray = gray' /\ Marks'.grayagain = grayagain' /\ Marks'.weak = weak'
        BY DEF Marks
      <4>2. CASE p \in S
        <5>1. p \in up /\ p \notin dead /\ p \in Obj /\ p \in Upval
          BY <1>2, <1>4, <2>5, <4>2
        <5>2. ref'[p] = stack[level[p]] /\ mark'[p] = Black
          BY <1>5, <2>1, <2>3, <4>2, <5>1
        <5>3. p \notin Weak \cup String \cup {Main}
          BY <1>4, <5>1, LuaGCAssumption
        <5>4. ref'[p] # NilRef => mark'[ref'[p]] \notin White
          BY <1>7, <2>1, <2>3, <2>4, <4>2, <5>1, <5>2
        <5> QED
          BY <4>1, <5>2, <5>3, <5>4, Colours DEF ColouredAt
      <4>3. CASE p \in up \ S
        <5>1. mark'[p] = mark[p] /\ mark[p] # Gray /\ mark[p] # Black
          BY <1>2, <2>1, <2>3, <4>3
        <5> QED
          BY <4>1, <5>1 DEF ColouredAt
      <4>4. CASE p \notin up
        <5>1. ColouredAt(n, p) /\ ref'[p] = ref[p]
          BY <1>2, <1>4, <1>5, <2>3, <4>4
        <5> QED
          BY <1>6, <2>1, <4>1, <4>4, <5>1 DEF ColouredAt
      <4> QED
        BY <4>2, <4>3, <4>4
    <3> QED
      BY <2>5, <3>1, <3>2 DEF TriColour, Coloured
  <2> QED
    BY <1>8, <2>8, <2>9, <2>10 DEF GCRest
<1>11. CASE gcstate # "propagate"
  <2>1. luaC_linkupval(S) = [Marks EXCEPT !.mark = [o \in Obj |-> IF o \in S THEN currentwhite ELSE @[o]]]
    BY <1>11 DEF luaC_linkupval
  <2>2. luaC_linkupval(S).mark = [o \in Obj |-> IF o \in S THEN currentwhite ELSE mark[o]]
    BY <2>1 DEF Marks
  <2>3. mark' = [o \in Obj |-> IF o \in S THEN currentwhite ELSE mark[o]]
    BY <1>1, <2>2 DEF SetMarks
  <2>4. \A o \in Obj : mark'[o] = IF o \in S THEN currentwhite ELSE mark[o]
    BY <2>3
  <2>5. \A o \in made' : o \in made /\ (isdead(o)' <=> isdead(o))
    BY <1>1, <1>2, <1>4, <2>4, Colours DEF isdead, otherwhite
  <2>6. Alive' = Alive
    BY <1>1, <1>2, <2>5 DEF Alive
  <2>7. LiveRefs'
    <3>1. \A o \in Alive : ref'[o] \in Alive \cup {NilRef}
      BY <1>4, <1>5, <1>7, LiveFacts
    <3>2. \A s \in Slots : stack'[s] \in Alive \cup {NilRef}
      BY <1>5, LiveFacts
    <3> QED
      BY <1>1, <2>6, <3>1, <3>2, LiveFacts, LiveStep
  <2>8. SweepInv'
    <3>1. \A u \in Open' : mark'[u] # Black
      BY <1>2, <1>4, <1>6, <2>4, Colours
    <3>2. \A o \in made' \ unswept' : mark'[o] = currentwhite
      <4> SUFFICES ASSUME NEW o \in made' \ unswept' PROVE mark'[o] = currentwhite
        OBVIOUS
      <4>1. CASE o \in up
        BY <1>1, <1>2, <1>4, <2>4, <4>1, Colours DEF isdead
      <4>2. CASE o \notin up
        BY <1>1, <1>2, <1>4, <1>11, <2>4, <4>2 DEF GCInv, SweepInv
      <4> QED
        BY <4>1, <4>2
    <3>3. \A o \in made' : isdead(o)' => o \in unswept'
      BY <1>1, <1>2, <2>5 DEF GCInv, SweepInv
    <3>4. gcstate' \in {"pause", "propagate", "finalize"} => unswept' = {}
      BY <1>1 DEF GCInv, SweepInv
    <3>5. Main \notin unswept' => Open' \cap unswept' = {}
      BY <1>1, <1>4, <1>6 DEF GCInv, SweepInv
    <3> QED
      BY <1>1, <3>1, <3>2, <3>3, <3>4, <3>5 DEF SweepInv
  <2>9. TriColour'
    BY <1>1, <1>11 DEF TriColour
  <2> QED
    BY <1>8, <2>7, <2>8, <2>9 DEF GCRest
<1> QED
  BY <1>10, <1>11
-----------------------------------------------------------------------------
(* The end of the marking: what is white is dead from now on.              *)

\* No weak table keeps what is dead, but for strings, which are marked.
LEMMA Cleared ==
  ASSUME GCInv, gcstate = "propagate", NEW end, Ended(end), NEW gone, NEW mk, NEW rf,
         mk = stringmark(end), rf = cleartable(end, gone)
  PROVE  /\ \A o \in Obj : mk[o] = end.mark[o] \/ (o \in String /\ mk[o] = Gray)
         /\ \A o \in made : end.mark[o] \notin White => mk[o] \notin White
         /\ \A o \in Obj \ Weak : rf[o] = ref[o]
         /\ \A o \in Obj : rf[o] = ref[o] \/ rf[o] = NilRef
         /\ \A o \in made \cap Weak : mk[o] \notin White => rf[o] = NilRef \/ (rf[o] \in made /\ mk[rf[o]] \notin White)
<1>0. /\ made \subseteq Obj /\ NilRef \notin Obj /\ end.weak \subseteq Weak /\ Weak \subseteq Obj /\ Weak \cap String = {}
      /\ \A o \in made : ref[o] # NilRef => ref[o] \in made
  BY NoneDead, Objects, LuaGCAssumption DEF GCInv, GCTypes, Ended, MarkRecs
<1>1. /\ \A o \in Obj : mk[o] = IF o \in String /\ \E w \in end.weak : ref[w] = o THEN Gray ELSE end.mark[o]
      /\ \A o \in Obj : rf[o] = IF o \in end.weak /\ iscleared(end, ref[o], gone) THEN NilRef ELSE ref[o]
  BY DEF stringmark, cleartable
<1>2. /\ \A o \in Obj : mk[o] = end.mark[o] \/ (o \in String /\ mk[o] = Gray)
      /\ \A o \in made : end.mark[o] \notin White => mk[o] \notin White
      /\ \A o \in Obj \ Weak : rf[o] = ref[o]
      /\ \A o \in Obj : rf[o] = ref[o] \/ rf[o] = NilRef
  BY <1>0, <1>1, Colours
<1>3. ASSUME NEW o \in made \cap Weak, mk[o] \notin White, rf[o] # NilRef
      PROVE  rf[o] \in made /\ mk[rf[o]] \notin White
  <2>1. end.mark[o] \notin White
    BY <1>0, <1>2, <1>3
  <2>2. o \in end.weak
    BY <2>1 DEF Ended
  <2>3. rf[o] = ref[o] /\ ~iscleared(end, ref[o], gone) /\ ref[o] \in made
    BY <1>0, <1>1, <1>3, <2>2
  <2>4. ref[o] \in String \/ end.mark[ref[o]] \notin White
    BY <1>3, <2>3 DEF iscleared
  <2>5. CASE ref[o] \in String
    BY <1>0, <1>1, <2>2, <2>3, <2>5, Colours
  <2>6. CASE end.mark[ref[o]] \notin White
    BY <1>2, <2>3, <2>6
  <2> QED
    BY <2>4, <2>5, <2>6
<1> QED
  BY <1>2, <1>3

\* The end of the marking: all white objects become dead at once, but what is marked
\* refers to nothing white then.
LEMMA AtomicRest ==
  ASSUME GCInv, GCTypes', gcstate = "propagate", NEW end, Ended(end), NEW gone,
         NEW all, all \subseteq made \cap Udata, \A u \in all : end.mark[u] \notin White,
         mark' = stringmark(end), ref' = cleartable(end, gone), tmudata' = all,
         currentwhite' = otherwhite, unswept' = made, gcstate' = "sweepstring",
         UNCHANGED <<made, stack, level, wasted>>
  PROVE  GCRest'
<1>0. /\ made \subseteq Obj /\ currentwhite \in White /\ Main \in made /\ Global \in made /\ NilRef \notin Obj /\ Main \in Obj
      /\ Weak \subseteq Table /\ Global \notin Weak
      /\ Table \cup Udata \cup Upval \cup Function \cup String \cup {Main} = Obj
      /\ (String \cup {Main} \cup Upval \cup Function \cup Udata) \cap Weak = {}
  BY Objects, LuaGCAssumption DEF GCInv, GCTypes
<1>1. PICK mk, rf : mk = stringmark(end) /\ rf = cleartable(end, gone) /\ mark' = mk /\ ref' = rf
  OBVIOUS
<1>2. /\ \A o \in Obj : mk[o] = end.mark[o] \/ (o \in String /\ mk[o] = Gray)
      /\ \A o \in made : end.mark[o] \notin White => mk[o] \notin White
      /\ \A o \in Obj \ Weak : rf[o] = ref[o]
      /\ \A o \in Obj : rf[o] = ref[o] \/ rf[o] = NilRef
      /\ \A o \in made \cap Weak : mk[o] \notin White => rf[o] = NilRef \/ (rf[o] \in made /\ mk[rf[o]] \notin White)
  BY <1>1, Cleared
<1>3. /\ \A o \in made : end.mark[o] \notin White => \A v \in Traversed[o] \cap made : end.mark[v] \notin White
      /\ \A o \in made : end.mark[o] \in White => end.mark[o] = currentwhite
      /\ \A u \in Open : end.mark[u] # Black
      /\ end.mark[Main] \notin White
  BY DEF Ended
<1>4. otherwhite' = currentwhite
  BY <1>0 DEF otherwhite, White
<1>5. \A o \in made : mk[o] # currentwhite <=> mk[o] \notin White
  BY <1>0, <1>2, <1>3, Colours
<1>6. \A o : o \in Alive' <=> o \in made /\ mk[o] \notin White
  BY <1>1, <1>4, <1>5 DEF Alive, isdead
<1>7. /\ \A t \in Slots : stack[t] \in made \cup {NilRef}
      /\ \A o \in made : ref[o] \in made \cup {NilRef}
      /\ ~wasted
  BY NoneDead, LiveFacts
<1>8. RefTypes'
  <2>1. \A o \in Table \cup Udata \cup Upval : rf[o] \in Values
    BY <1>0, <1>2 DEF GCInv, RefTypes, Values
  <2>2. \A f \in Function : rf[f] \in Upval \cup {NilRef} /\ (f \in made => rf[f] \in Upval)
    BY <1>0, <1>2 DEF GCInv, RefTypes
  <2>3. \A o \in String \cup {Main} : rf[o] = NilRef
    BY <1>0, <1>2 DEF GCInv, RefTypes
  <2>4. \A u \in Upval : u \notin made \/ level[u] # 0 => rf[u] = NilRef
    BY <1>0, <1>2 DEF GCInv, RefTypes
  <2> QED
    BY <1>1, <2>1, <2>2, <2>3, <2>4 DEF RefTypes
<1>9. LiveRefs'
  <2>1. \A v \in traversestack \cap made : mk[v] \notin White
    BY <1>0, <1>2, <1>3, LeadsTo
  <2>2. Global \in Alive' /\ Main \in Alive' /\ tmudata' \subseteq Alive'
    BY <1>0, <1>2, <1>3, <1>6, <2>1 DEF traversestack
  <2>3. \A t \in Slots : stack'[t] \in Alive' \cup {NilRef}
    BY <1>6, <1>7, <2>1 DEF traversestack
  <2>4. ASSUME NEW o \in Alive' PROVE ref'[o] \in Alive' \cup {NilRef}
    <3>1. o \in made /\ mk[o] \notin White /\ o \in Obj
      BY <1>0, <1>6, <2>4
    <3>2. CASE o \in Weak
      BY <1>1, <1>2, <1>6, <3>1, <3>2
    <3>3. CASE o \in String \cup {Main}
      BY <1>0, <1>1, <1>2, <3>3 DEF GCInv, RefTypes
    <3>4. CASE o \in Upval \cap Open
      BY <1>0, <1>1, <1>2, <3>4 DEF GCInv, RefTypes, Open
    <3>5. CASE o \in ((Table \ Weak) \cup Function \cup Udata) \cup (Upval \ Open)
      <4>1. end.mark[o] \notin White
        BY <1>2, <3>1, <3>5, LuaGCAssumption
      <4>2. Traversed[o] = {ref[o]}
        <5>1. o \in Upval \ Open => ValueOf(o) = ref[o]
          BY <3>1 DEF Open, ValueOf
        <5> QED
          BY <1>0, <3>5, <5>1, LeadsTo
      <4>3. rf[o] = ref[o]
        BY <1>0, <1>2, <3>1, <3>5
      <4> QED
        BY <1>1, <1>2, <1>3, <1>6, <1>7, <3>1, <4>1, <4>2, <4>3
    <3> QED
      BY <1>0, <3>1, <3>2, <3>3, <3>4, <3>5
  <2> QED
    BY <1>7, <2>2, <2>3, <2>4, LiveStep
<1>10. SweepInv'
  <2>1. \A u \in Open' : mark'[u] # Black
    BY <1>0, <1>1, <1>2, <1>3, Colours DEF Open
  <2> QED
    BY <1>0, <2>1 DEF SweepInv, isdead
<1>11. TriColour'
  BY DEF TriColour
<1> QED
  BY <1>8, <1>9, <1>10, <1>11 DEF GCRest

\* atomic() is such an end, by the five propagations.
LEMMA AtomicInv ==
  ASSUME GCInv, GCTypes', atomic
  PROVE  GCRest'
<1> DEFINE upvals == propagateall(remarkupvals(Marks))
           weaks == propagateall(MarkAll([upvals EXCEPT !.gray = upvals.weak, !.weak = {}], {Main}))
           again == propagateall([weaks EXCEPT !.gray = weaks.grayagain, !.grayagain = {}])
           all == tmudata \cup luaC_separateudata(again)
           end == propagateall(marktmu(again, all))
<1>1. /\ gcstate = "propagate" /\ gray = {} /\ gcstate' = "sweepstring"
      /\ tmudata' = all
      /\ ref' = cleartable(end, finalized \cup all)
      /\ SetMarks([end EXCEPT !.mark = stringmark(end)])
      /\ currentwhite' = otherwhite /\ unswept' = made
      /\ UNCHANGED <<made, program, wasted>>
  BY Zenon DEF atomic
<1>2. Ended(end) /\ all \subseteq made \cap Udata /\ \A u \in all : end.mark[u] \notin White
  BY <1>1, AtomicEnd, Zenon
<1> HIDE DEF upvals, weaks, again, all, end
<1>3. mark' = stringmark(end)
  <2>1. end \in MarkRecs
    BY <1>2 DEF Ended
  <2>2. ASSUME NEW m \in MarkRecs, NEW mk PROVE [m EXCEPT !.mark = mk].mark = mk
    BY DEF MarkRecs
  <2> QED
    BY <1>1, <2>1, <2>2 DEF SetMarks
<1>4. UNCHANGED <<made, stack, level, wasted>>
  BY <1>1 DEF program
<1> QED
  BY <1>1, <1>2, <1>3, <1>4, AtomicRest
-----------------------------------------------------------------------------

\* Every step of the collector and of the program keeps the invariant.
LEMMA GCStep == GCInv /\ [LuaGCNext]_lua_gc_vars => GCInv'
<1> SUFFICES ASSUME GCInv, [LuaGCNext]_lua_gc_vars PROVE GCInv'
  OBVIOUS
<1>1. CASE UNCHANGED lua_gc_vars
  <2>1. /\ UNCHANGED <<made, ref, mark, gray, grayagain, weak, currentwhite, gcstate, unswept>>
        /\ UNCHANGED <<stack, level, finalized, tmudata, wasted>>
    BY <1>1 DEF lua_gc_vars, heap, marks, program, finalization
  <2>2. GCTypes'
    BY <2>1 DEF GCInv, GCTypes
  <2>3. RefTypes' /\ LiveRefs'
    BY <2>1, SameHeap
  <2>4. SweepInv'
    BY <2>1 DEF GCInv, SweepInv, Open, isdead, otherwhite
  <2>5. TriColour'
    BY <2>1 DEF GCInv, TriColour, Coloured, ColouredAt, Marks, Open
  <2> QED
    BY <2>2, <2>3, <2>4, <2>5 DEF GCInv
<1>2. CASE LuaGCNext
  <2>1. GCTypes'
    BY <1>2, GCTypesStep
  <2>2. ASSUME Collector PROVE GCRest'
    BY <2>1, <2>2, StartCycleInv, PropagateInv, AtomicInv, SweepStepInv, FinalizeInv, EndCycleInv, FullGCInv DEF Collector
  <2>3. ASSUME NEW s \in Slots,
               \/ New(s) \/ luaS_newlstr(s) \/ (\E l \in Slots : Closure(s, l)) \/ Get(s) \/ GetUpval(s)
               \/ Pop(s) \/ Set(s) \/ SetUpval(s) \/ luaF_close(s)
        PROVE  GCRest'
    BY <2>1, <2>3, NewInv, StringInv, ClosureInv, GetInv, SetInv, SetUpvalInv, CloseInv
  <2>4. GCRest'
    BY <1>2, <2>2, <2>3 DEF LuaGCNext, ProgramStep
  <2> QED
    BY <2>1, <2>4 DEF GCInv, GCRest
<1> QED
  BY <1>1, <1>2

\* The invariant says what a run checks.
LEMMA CollectorSound == GCInv => CollectorRight
<1> SUFFICES ASSUME GCInv PROVE CollectorRight
  OBVIOUS
<1>1. NothingLiveFreed
  BY DEF NothingLiveFreed, GCInv, LiveRefs, Alive
<1>2. NoBlackToWhite
  BY DEF NoBlackToWhite, GCInv, TriColour, Coloured, ColouredAt, Marks
<1>3. NoBlackAtRest
  BY Colours DEF NoBlackAtRest, GCInv, GCTypes, SweepInv
<1>4. AllSwept
  BY DEF AllSwept, GCInv, SweepInv
<1> QED
  BY <1>1, <1>2, <1>3, <1>4 DEF CollectorRight

\* Nothing that the program can come to is freed, no barrier is missing, and a
\* cycle ends with nothing black and nothing dead, whatever the program does
\* between the collector's steps and however many objects there are (lgc.c).
THEOREM CollectorHolds == LuaGCSpec => []CollectorRight
<1>1. LuaGCInit => GCInv
  BY GCInitInv DEF LuaGCInit
<1> QED
  BY <1>1, GCStep, CollectorSound, PTL DEF LuaGCSpec

\* What the last propagation before luaC_separateudata() has left white is out of
\* the program's reach.
LEMMA WhiteOutOfReach ==
  ASSUME GCInv, gcstate = "propagate", NEW m, m.mark[Main] \notin White,
         \A o \in made : m.mark[o] \notin White => \A v \in Traversed[o] \cap made : m.mark[v] \notin White,
         NEW u \in made, m.mark[u] \in White
  PROVE  OutOfReach(u)
<1> DEFINE live == {o \in made : m.mark[o] \notin White}
<1>1. /\ made \subseteq Obj /\ Main \in made /\ Global \in made
      /\ Table \cup Udata \cup Upval \cup Function \cup String \cup {Main} = Obj
  BY DEF GCInv, GCTypes, Obj
<1>2. /\ \A t \in Slots : stack[t] \in made \cup {NilRef}
      /\ \A o \in made : ref[o] \in made \cup {NilRef}
  BY NoneDead, LiveFacts
<1>3. OnStack \cup {Global, Main} \subseteq live
  <2>1. \A v \in traversestack \cap made : m.mark[v] \notin White
    BY <1>1, LeadsTo
  <2>2. \A o \in OnStack : o \in traversestack \cap made
    BY <1>2 DEF OnStack, InSlot, traversestack
  <2> QED
    BY <1>1, <2>1, <2>2 DEF traversestack
<1>4. ASSUME NEW o \in live PROVE Follows(o) \subseteq live
  <2>1. o \in made /\ o \in Obj /\ \A v \in Traversed[o] \cap made : m.mark[v] \notin White
    BY <1>1
  <2>2. CASE o \in Weak
    BY <2>2 DEF Follows
  <2>3. CASE o \in String \cup {Main}
    <3>1. ref[o] = NilRef /\ o \notin Upval
      BY <2>3, LuaGCAssumption DEF GCInv, RefTypes
    <3> QED
      BY <3>1 DEF Follows, References
  <2>4. CASE o \in Open
    <3>1. Traversed[o] = {ValueOf(o)} /\ ref[o] = NilRef /\ o \in Upval /\ ValueOf(o) \in made \cup {NilRef}
      BY <1>1, <1>2, <2>1, <2>4, LeadsTo, LuaGCAssumption DEF Open, ValueOf, GCInv, GCTypes, RefTypes
    <3> QED
      BY <2>1, <3>1 DEF Follows, References
  <2>5. CASE o \in ((Table \ Weak) \cup Function \cup Udata) \cup (Upval \ Open)
    <3>1. o \in Upval => ValueOf(o) = ref[o]
      BY <2>1, <2>5, LuaGCAssumption DEF Open, ValueOf
    <3>2. Traversed[o] = {ref[o]}
      BY <1>1, <2>1, <2>5, <3>1, LeadsTo, LuaGCAssumption
    <3> QED
      BY <1>2, <2>1, <3>1, <3>2 DEF Follows, References
  <2> QED
    BY <1>1, <2>1, <2>2, <2>3, <2>4, <2>5
<1>5. live \in SUBSET made /\ u \notin live
  OBVIOUS
<1> HIDE DEF live
<1> QED
  BY <1>3, <1>4, <1>5 DEF OutOfReach

\* Userdata begins to wait for its finalizer once, and out of the program's reach
\* (luaC_separateudata(), after all that can be reached is marked).
LEMMA FinalizedStep ==
  ASSUME GCInv, [LuaGCNext]_lua_gc_vars
  PROVE  /\ finalized \subseteq finalized'
         /\ \A u \in tmudata' \ tmudata : u \in finalized' \ finalized /\ OutOfReach(u)
<1>1. CASE atomic
  <2> DEFINE upvals == propagateall(remarkupvals(Marks))
             weaks == propagateall(MarkAll([upvals EXCEPT !.gray = upvals.weak, !.weak = {}], {Main}))
             again == propagateall([weaks EXCEPT !.gray = weaks.grayagain, !.grayagain = {}])
             all == tmudata \cup luaC_separateudata(again)
             end == propagateall(marktmu(again, all))
  <2>1. gcstate = "propagate" /\ gray = {} /\ tmudata' = all /\ finalized' = finalized \cup all
    BY <1>1, Zenon DEF atomic
  <2>2. /\ again.mark[Main] \notin White
        /\ \A o \in made : again.mark[o] \notin White => \A v \in Traversed[o] \cap made : again.mark[v] \notin White
    BY <2>1, AtomicEnd, Zenon
  <2>3. \A u \in all \ tmudata : u \in made /\ again.mark[u] \in White /\ u \notin finalized
    <3> HIDE DEF again
    <3> QED
      BY DEF luaC_separateudata, isfinalized
  <2> HIDE DEF again, all
  <2>4. \A u \in all \ tmudata : OutOfReach(u)
    BY <2>1, <2>2, <2>3, WhiteOutOfReach
  <2> QED
    BY <2>1, <2>3, <2>4
<1>2. CASE Collector /\ ~atomic
  BY <1>2 DEF Collector, StartCycle, Propagate, SweepStrings, Sweep, Swept, Finalize, EndCycle, FullGC, finalization
<1>3. CASE ProgramStep
  BY <1>3 DEF ProgramStep, New, luaS_newlstr, Closure, Get, GetUpval, Pop, Set, SetUpval, luaF_close, Quiet, finalization
<1>4. CASE UNCHANGED lua_gc_vars
  BY <1>4 DEF lua_gc_vars, finalization
<1> QED
  BY <1>1, <1>2, <1>3, <1>4 DEF LuaGCNext

\* A finalizer is called at most once, and of what the program had lost, whatever the
\* program does between the collector's steps and however many objects there are.
THEOREM FinalizersOnce == LuaGCSpec => FinalizedOnce
<1>1. LuaGCInit => GCInv
  BY GCInitInv DEF LuaGCInit
<1>2. GCInv /\ [LuaGCNext]_lua_gc_vars =>
        [/\ finalized \subseteq finalized'
         /\ \A u \in tmudata' \ tmudata : u \in finalized' \ finalized /\ OutOfReach(u)]_lua_gc_vars
  BY FinalizedStep
<1> QED
  BY <1>1, <1>2, GCStep, PTL DEF LuaGCSpec, FinalizedOnce
=============================================================================
