------------------------------ MODULE BuildPkg ------------------------------
(***************************************************************************)
(* scripts/Build-Pkg: one build of one package at one stage.               *)
(*                                                                         *)
(* The script is a pipeline of two processes between a preparation and an  *)
(* ending.  The left one builds the package, touches the .log file when    *)
(* the build function has succeeded, and then registers the package in     *)
(* var/adm; abort() only removes the .log again and does not stop it.  The *)
(* right one writes the output to the .out file.  The ending makes .out    *)
(* the .log or the .err file, by whether there is a .log.                  *)
(*                                                                         *)
(* A Ctrl-C reaches every process: outside the pipeline the script dies of *)
(* it, wherever it is; in the pipeline the right side ignores it and the   *)
(* left side leaves after the command it is in.  With a build time cache   *)
(* there are two scripts: the outer one, which takes the time, survives    *)
(* what the inner one dies of, and may die itself afterwards.              *)
(***************************************************************************)
EXTENDS Naturals, Sequences, FiniteSets

CONSTANTS
  CreateCache,   \* SDECFG_CREATE_CACHE = 1, and a stage after 0
  Norebuild,     \* the -norebuild option
  RetryBroken,   \* SDECFG_RETRY_BROKEN = 1
  MaxSigints     \* bound: Ctrl-C typed

ASSUME BuildPkgAssumption == /\ CreateCache \in BOOLEAN
                             /\ Norebuild \in BOOLEAN
                             /\ RetryBroken \in BOOLEAN
                             /\ MaxSigints \in Nat

File == {"log", "err", "out"}

\* The files of the package in var/adm, in the order they get their contents
\* (in a stage after 0, with SDECFG_FLIST = flwrapper).
Adm == {"flists", "dependencies", "md5sums", "packages", "descs"}
AdmOrder == <<"flists", "md5clear", "dependencies", "md5sums", "packages", "descs">>

VARIABLES
  files,     \* of the job in var/adm/logs
  adm,       \* adm[f]: "old" (or absent), "empty", "new"
  pc,        \* the script, with the left side of the pipeline
  written,   \* how many steps of AdmOrder are done
  right,     \* whether the right side of the pipeline runs
  aborted,   \* whether abort() has been called
  trapped,   \* whether a Ctrl-C has reached the left side
  sigints,   \* how many Ctrl-C have been typed
  cache,     \* the build time noted in var/adm/cache: "none", "ok", "error"
  exit       \* of the script that has ended: "success", "failure", "died"

vars == <<files, adm, pc, written, right, aborted, trapped, sigints, cache, exit>>

Left == {"build", "check", "post", "lists", "register", "paranoia"}

TypeOK == /\ files \subseteq File
          /\ adm \in [Adm -> {"old", "empty", "new"}]
          /\ pc \in Left \cup {"start", "config", "leftend", "finish", "verdict", "cache", "ended"}
          /\ written \in 0 .. Len(AdmOrder)
          /\ pc \in {"start", "config", "build", "check", "post", "lists"} => written = 0
          /\ pc = "register" => written < Len(AdmOrder)
          /\ right \in BOOLEAN /\ aborted \in BOOLEAN /\ trapped \in BOOLEAN
          /\ sigints \in Nat
          /\ cache \in {"none", "ok", "error"}
          /\ exit \in {"none", "success", "failure", "died"}

Init == /\ files \in SUBSET File
        /\ adm = [f \in Adm |-> "old"]
        /\ pc = "start" /\ written = 0 /\ right = FALSE
        /\ aborted = FALSE /\ trapped = FALSE /\ sigints = 0
        /\ cache = "none" /\ exit = "none"

inside == <<adm, written, right, aborted>>
signal == <<trapped, sigints>>

-----------------------------------------------------------------------------
\* Up to the pipeline.

\* The result of the inner run; a run with a cache file goes on from there.
Leave(e) == /\ exit' = e
            /\ pc' = IF CreateCache THEN "cache" ELSE "ended"

\* The wrappers cannot be built, the package has already failed, or there is
\* no such package.
Denied == /\ pc = "start"
          /\ exit' = "failure" /\ pc' = "ended"
          /\ UNCHANGED <<files, inside, signal, cache>>

\* Once it has removed the old files the script starts itself again, as the
\* "2nd run"; that one makes the same checks.
DeniedAgain == /\ pc = "config"
               /\ Leave("failure")
               /\ UNCHANGED <<files, inside, signal, cache>>

AlreadyBuilt == /\ pc = "start" /\ Norebuild /\ "log" \in files
                /\ exit' = "success" /\ pc' = "ended"
                /\ UNCHANGED <<files, inside, signal, cache>>

MayBuild == Norebuild => /\ "log" \notin files
                         /\ "err" \in files => RetryBroken

RemoveOldFiles == /\ pc = "start" /\ MayBuild
                  /\ files' = {} /\ cache' = "none"
                  /\ pc' = "config"
                  /\ UNCHANGED <<inside, signal, exit>>

\* abort() as functions.in has it, before the pipeline
ConfigError == /\ pc = "config"
               /\ files' = files \cup {"err"}
               /\ pc' = "verdict"
               /\ UNCHANGED <<inside, signal, cache, exit>>

StartPipeline == /\ pc = "config"
                 /\ files' = files \cup {"out"}
                 /\ right' = TRUE /\ pc' = "build"
                 /\ UNCHANGED <<adm, written, aborted, signal, cache, exit>>

-----------------------------------------------------------------------------
\* The left side.

\* A Ctrl-C runs the trap once the command in the foreground has ended.
CommandMayFollow == ~trapped

AbortKeepingLog == files' = files /\ aborted' = TRUE
Abort == files' = files \ {"log"} /\ aborted' = TRUE

\* -debug: everything is set up, and that is all
DebugExit == /\ pc = "build" /\ CommandMayFollow
             /\ pc' = "leftend"
             /\ UNCHANGED <<files, inside, signal, cache, exit>>

BuildSucceeds == /\ pc = "build"
                 /\ files' = files \cup {"log"}
                 /\ pc' = "check"
                 /\ UNCHANGED <<inside, signal, cache, exit>>

BuildFails == /\ pc = "build"
              /\ pc' = "check"
              /\ UNCHANGED <<files, inside, signal, cache, exit>>

CheckLog == /\ pc = "check" /\ CommandMayFollow
            /\ IF "log" \in files THEN UNCHANGED <<files, aborted>> ELSE Abort
            /\ pc' = "post"
            /\ UNCHANGED <<adm, written, right, signal, cache, exit>>

\* postinstall; every file of the package in var/adm is touched
PostInstall == /\ pc = "post" /\ CommandMayFollow
               /\ pc' = "lists"
               /\ UNCHANGED <<files, inside, signal, cache, exit>>

\* Files outside of the base directory, or outside of the top-level
\* directories a package may use.
FilesOutside == /\ pc = "lists" /\ CommandMayFollow
                /\ Abort
                /\ pc' = "register"
                /\ UNCHANGED <<adm, written, right, signal, cache, exit>>

FilesInside == /\ pc = "lists" /\ CommandMayFollow
               /\ pc' = "register"
               /\ UNCHANGED <<files, inside, signal, cache, exit>>

RegisteredOneTooLate == written' > Len(AdmOrder)
Registered == written' = Len(AdmOrder)

RegisterNext ==
  /\ pc = "register" /\ CommandMayFollow
  /\ LET f == AdmOrder[written + 1] IN
       adm' = IF f = "md5clear" THEN [adm EXCEPT !["md5sums"] = "empty"]
              ELSE [adm EXCEPT ![f] = "new"]
  /\ written' = written + 1
  /\ pc' = IF Registered THEN "paranoia" ELSE pc
  /\ UNCHANGED <<files, right, aborted, signal, cache, exit>>

ParanoiaCheckFails == /\ pc = "paranoia" /\ CommandMayFollow
                      /\ Abort
                      /\ pc' = "leftend"
                      /\ UNCHANGED <<adm, written, right, signal, cache, exit>>

ParanoiaCheckPasses == /\ pc = "paranoia" /\ CommandMayFollow
                       /\ pc' = "leftend"
                       /\ UNCHANGED <<files, inside, signal, cache, exit>>

\* trap 'echo "Got SIGINT (Ctrl-C). Aborting build."; exit 1' INT
TrapExit == /\ pc \in Left /\ trapped
            /\ pc' = "leftend"
            /\ UNCHANGED <<files, inside, signal, cache, exit>>

-----------------------------------------------------------------------------
\* The right side and the ending.

RightNeverEnds == FALSE
RightEnds == /\ pc = "leftend" /\ right
             /\ right' = FALSE /\ pc' = "finish"
             /\ UNCHANGED <<files, adm, written, aborted, signal, cache, exit>>

VerdictLosingErr == files \ {"out"}
VerdictKeepingOut == IF "log" \in files THEN files ELSE files \cup {"err"}
Verdict == IF "log" \in files THEN files \ {"out"} ELSE (files \ {"out"}) \cup {"err"}

\* The rename of .out, with the .log of the left side overwritten.
RenameOut == /\ pc = "finish"
             /\ files' = Verdict
             /\ pc' = "verdict"
             /\ UNCHANGED <<inside, signal, cache, exit>>

Finish == /\ pc = "verdict"
          /\ Leave(IF "log" \in files THEN "success" ELSE "failure")
          /\ UNCHANGED <<files, inside, signal, cache>>

\* The outer run of CreateCache: the build time, marked ERROR when there is a
\* .err file.
BuildTime == IF "err" \in files THEN "error" ELSE "ok"

WriteCache == /\ pc = "cache"
              /\ cache' = BuildTime
              /\ pc' = "ended"
              /\ UNCHANGED <<files, inside, signal, exit>>

-----------------------------------------------------------------------------
\* Ctrl-C

SigintInPipeline == /\ pc \in Left \cup {"leftend"} /\ sigints < MaxSigints
                    /\ sigints' = sigints + 1
                    /\ trapped' = (trapped \/ pc \in Left)
                    /\ UNCHANGED <<files, inside, pc, cache, exit>>

SigintAtStart == /\ pc = "start" /\ sigints < MaxSigints
                 /\ sigints' = sigints + 1
                 /\ exit' = "died" /\ pc' = "ended"
                 /\ UNCHANGED <<files, inside, trapped, cache>>

\* The inner run dies; time(1), which an outer run waits for, does not.
SigintOutside == /\ pc \in {"config", "finish", "verdict"} /\ sigints < MaxSigints
                 /\ sigints' = sigints + 1
                 /\ Leave("died")
                 /\ UNCHANGED <<files, inside, trapped, cache>>

\* The outer run dies, before or after it has noted the build time; the exit
\* status of the inner one is lost.
SigintInOuter == /\ pc = "cache" /\ sigints < MaxSigints
                 /\ sigints' = sigints + 1
                 /\ cache' \in {cache, BuildTime}
                 /\ exit' = "died" /\ pc' = "ended"
                 /\ UNCHANGED <<files, inside, trapped>>

Next == \/ Denied \/ DeniedAgain \/ AlreadyBuilt
        \/ RemoveOldFiles \/ ConfigError \/ StartPipeline
        \/ DebugExit \/ BuildSucceeds \/ BuildFails \/ CheckLog \/ PostInstall
        \/ FilesOutside \/ FilesInside \/ RegisterNext
        \/ ParanoiaCheckFails \/ ParanoiaCheckPasses \/ TrapExit
        \/ RightEnds \/ RenameOut \/ Finish \/ WriteCache
        \/ SigintInPipeline \/ SigintAtStart \/ SigintOutside \/ SigintInOuter

Spec == Init /\ [][Next]_vars

\* The script is a process that runs on; whether and when the user types
\* Ctrl-C is up to him.
FairSpec == Spec /\ WF_vars(Next /\ sigints' = sigints)

-----------------------------------------------------------------------------
(* Properties *)

\* How far the job is.  An outer run that is at the build time still has its
\* exit status to come, and the inner run can have died anywhere: the files
\* say how far it was.
phase == IF pc \in {"start", "ended"} THEN pc
         ELSE IF pc = "config" \/ (pc = "cache" /\ files = {}) THEN "cleared"
         ELSE IF pc = "verdict" \/ (pc = "cache" /\ "out" \notin files) THEN "decided"
         ELSE "begun"

Promise == INSTANCE JobVerdict
             WITH exit <- IF pc = "ended" THEN exit ELSE "none"

\* Whatever happens inside, and wherever Ctrl-C is typed, Build-Pkg treats the
\* job's files as its caller expects: it removes the old ones, ends with .log
\* or .err alone and the exit status that goes with it, or dies and leaves
\* the files as they were when it did (Build-Pkg:280,294-331,502-506,961-981).
KeepsPromise == Promise!Spec

\* A build that was not interrupted is called a success only when nothing has
\* called abort(), which does not stop the script, and every file of the
\* package in var/adm has been written (Build-Pkg:502-506,961).
SuccessIsComplete ==
  pc = "finish" /\ "log" \in files /\ sigints = 0 =>
    ~aborted /\ \A f \in Adm : adm[f] = "new"

\* abort() is never lost, whatever is done after it (Build-Pkg:502-506).
AbortedFails == aborted => exit # "success"

\* When Build-Pkg has come to an end of its own, for all the Ctrl-C before it,
\* the build time says the same as the exit status: no ERROR after a success,
\* ERROR after a failure - of a build that has left a file or in which abort()
\* or the trap was called.  The note asks for .err and the status for .log
\* (Build-Pkg:314,961).  Emerge-Pkg:176 asks the note whether the "former
\* build was broken".  Nothing is said of a second run that is denied before
\* it does anything, or of a run that dies: both leave a note without ERROR.
CacheAgreesWithExit ==
  pc = "ended" /\ cache # "none" =>
    /\ exit = "success" => cache = "ok"
    /\ exit = "failure" /\ (aborted \/ trapped \/ files # {}) => cache = "error"

\* "Got SIGINT (Ctrl-C). Aborting build." (Build-Pkg:509): a build that was
\* aborted this way is not a success.
InterruptFails == trapped => exit # "success"

\* Build-Pkg ends.
Ends == <>(pc = "ended")

=============================================================================
