---------------------------- MODULE BuildTarget ----------------------------
(***************************************************************************)
(* scripts/Build-Target: the loop that builds a whole distribution.        *)
(*                                                                         *)
(* A start of the script is a "run".  A loop run removes the error logs it *)
(* may retry and the leftover output files, then builds the job that       *)
(* Create-PkgQueue names until there is none, compresses every package     *)
(* that has reached its last stage in the background, and writes the       *)
(* package database at the end.  A job run (-job) builds the one job given *)
(* and leaves.  Between two steps the run may be killed, with the machine  *)
(* (the compressions die too) or without it (they go on); everything on    *)
(* disk stays, and the next run starts from that.                          *)
(*                                                                         *)
(* Build-Pkg is present with the steps that change the files of the job;   *)
(* BuildPkg.tla has the whole of it.                                       *)
(***************************************************************************)
EXTENDS PkgQueue

CONSTANTS
  ContinueOnErrorAfter,  \* SDECFG_CONTINUE_ON_ERROR_AFTER
  RetryBroken,           \* SDECFG_RETRY_BROKEN = 1
  NoBrokenDeps,          \* SDECFG_NOBROKENDEPS = 1
  PkgFileType,           \* SDECFG_PKGFILE_TYPE
  Modes,                 \* the kinds of run considered: "loop", "job"
  MaxRuns,               \* bound: starts of the script
  MaxCrashes             \* bound: runs killed

PkgFileTypes == {"tar.bz2", "tar.gz", "tar.lzo", "tar.lzma", "tar.xz",
                 "tar.zst", "gem", "none"}

ASSUME ConfigAssumption == /\ ContinueOnErrorAfter \in Stage
                           /\ RetryBroken \in BOOLEAN
                           /\ NoBrokenDeps \in BOOLEAN
                           /\ PkgFileType \in PkgFileTypes
                           /\ Modes \subseteq {"loop", "job"}

ASSUME BoundAssumption == MaxRuns \in Nat /\ MaxCrashes \in Nat

VARIABLES
  files,       \* files[j] \subseteq File: what job j has in var/adm/logs
  registered,  \* the jobs var/adm/packages records as built ("Build [s] at")
  pc,          \* where the run is; see Idle, Building below
  mode,        \* "loop", or "job" for a run with -job
  cur,         \* the job of pkgloop_package, when there is one
  rc,          \* the exit status of the last Build-Pkg
  denied,      \* whether a Build-Pkg of this run ended before it did anything
  own,         \* packages being compressed by this run
  orphans,     \* packages being compressed for runs that were killed
  tmp,         \* packages with a .tmp file in TOOLCHAIN/pkgs
  archive,     \* archive[p]: the binary package in TOOLCHAIN/pkgs
  db,          \* the packages listed in packages.db
  runs, crashes

vars == <<files, registered, pc, mode, cur, rc, denied, own, orphans, tmp,
          archive, db, runs, crashes>>

logs == <<files, registered>>
pkgs == <<own, orphans, tmp, archive>>
run  == <<mode, runs, crashes>>

NoJob == <<0, 0>>

Idle == {"off", "done", "aborted", "down"}
Building == {"removed", "begun", "built", "registered"}
Running == {"clean", "cleanout", "queue", "start", "check", "pkgfile",
            "wait", "database"} \cup Building

TypeOK == /\ files \in [Job -> SUBSET File]
          /\ registered \subseteq Job
          /\ pc \in Idle \cup Running
          /\ mode \in {"loop", "job"}
          /\ cur \in Job \cup {NoJob}
          /\ pc \in Building \cup {"start", "check", "pkgfile"} => cur \in Job
          /\ rc \in {0, 1}
          /\ denied \in BOOLEAN
          /\ own \subseteq Pkg /\ orphans \subseteq Pkg /\ tmp \subseteq Pkg
          /\ archive \in [Pkg -> {"none", "good", "bad"}]
          /\ db \subseteq Pkg
          /\ runs \in Nat /\ crashes \in Nat

InitMidway == /\ files = [j \in Job |-> {}]
              /\ registered = {}
              /\ pc = "start" /\ mode = "loop" /\ cur = NoJob
              /\ rc = 0 /\ denied = FALSE
              /\ own = {} /\ orphans = {} /\ tmp = {}
              /\ archive = [p \in Pkg |-> "none"]
              /\ db = {} /\ runs = 1 /\ crashes = 0
Init == /\ files = [j \in Job |-> {}]
        /\ registered = {}
        /\ pc = "off" /\ mode = "loop" /\ cur = NoJob
        /\ rc = 0 /\ denied = FALSE
        /\ own = {} /\ orphans = {} /\ tmp = {}
        /\ archive = [p \in Pkg |-> "none"]
        /\ db = {}
        /\ runs = 0 /\ crashes = 0

-----------------------------------------------------------------------------
\* pkgloop: the start of a run.

\* The script is a pipe into tee: it has not ended before the compressions it
\* started, which hold the pipe, have.
Ended == pc \in Idle /\ own = {}

StartLoop == /\ Ended /\ runs < MaxRuns /\ "loop" \in Modes
             /\ pc' = "clean" /\ mode' = "loop" /\ runs' = runs + 1
             /\ denied' = FALSE
             /\ UNCHANGED <<logs, cur, rc, pkgs, db, crashes>>

\* The error logs a run forgets.
RetriedAllowingOnlyBelow(j) == RetryBroken \/ j[1] < ContinueOnErrorAfter
RetriedIgnoringConfig(j) == TRUE
Retried(j) == RetryBroken \/ j[1] <= ContinueOnErrorAfter

RemoveErr(j) == /\ pc = "clean"
                /\ "err" \in files[j] /\ Retried(j)
                /\ files' = [files EXCEPT ![j] = @ \ {"err"}]
                /\ UNCHANGED <<registered, pc, cur, rc, denied, pkgs, db, run>>

ErrsRemoved == /\ pc = "clean"
               /\ \A j \in Job : "err" \in files[j] => ~Retried(j)
               /\ pc' = "cleanout"
               /\ UNCHANGED <<logs, cur, rc, denied, pkgs, db, run>>

RemoveOut(j) == /\ pc = "cleanout"
                /\ "out" \in files[j]
                /\ files' = [files EXCEPT ![j] = @ \ {"out"}]
                /\ UNCHANGED <<registered, pc, cur, rc, denied, pkgs, db, run>>

OutsRemoved == /\ pc = "cleanout"
               /\ \A j \in Job : "out" \notin files[j]
               /\ pc' = "queue"
               /\ UNCHANGED <<logs, cur, rc, denied, pkgs, db, run>>

\* A run with -job.  The two rm commands that should remove the old .log and
\* .err form one command on one (never existing) path, because of a stray
\* quotation mark at the end of each line; the files stay.
StartJob(j) == /\ Ended /\ runs < MaxRuns /\ "job" \in Modes
               /\ pc' = "start" /\ mode' = "job" /\ cur' = j
               /\ runs' = runs + 1 /\ denied' = FALSE
               /\ UNCHANGED <<logs, rc, pkgs, db, crashes>>

\* Create-PkgQueue -single
TakeNextJob == /\ pc = "queue"
               /\ \E j \in NextJob(files, NoBrokenDeps) : cur' = j
               /\ pc' = "start"
               /\ UNCHANGED <<logs, rc, denied, pkgs, db, run>>

QueueEmpty == /\ pc = "queue"
              /\ NextJob(files, NoBrokenDeps) = {}
              /\ pc' = "wait"
              /\ UNCHANGED <<logs, cur, rc, denied, pkgs, db, run>>

-----------------------------------------------------------------------------
\* pkgloop_action: scripts/Build-Pkg for the job.

JobFilesBecome(fs) == files' = [files EXCEPT ![cur] = fs]

\* It ends before it does anything for the job: Build-Tools has failed, the
\* package has no directory (any more), or the chroot cannot be entered.  The
\* script starts itself a second time, after it has removed the old files.
BuildPkgDenied == /\ pc \in {"start", "removed"}
                  /\ pc' = "check" /\ rc' = 1 /\ denied' = TRUE
                  /\ UNCHANGED <<logs, cur, pkgs, db, run>>

BuildPkgRemovesOldFiles == /\ pc = "start"
                           /\ JobFilesBecome({})
                           /\ pc' = "removed"
                           /\ UNCHANGED <<registered, cur, rc, denied, pkgs, db, run>>

\* abort of functions.in, while the package's configuration is read
BuildPkgConfigError == /\ pc = "removed"
                       /\ JobFilesBecome(files[cur] \cup {"err"})
                       /\ pc' = "check" /\ rc' = 1
                       /\ UNCHANGED <<registered, cur, denied, pkgs, db, run>>

BuildPkgOpensOut == /\ pc = "removed"
                    /\ JobFilesBecome(files[cur] \cup {"out"})
                    /\ pc' = "begun"
                    /\ UNCHANGED <<registered, cur, rc, denied, pkgs, db, run>>

\* The package's build function has gone through: touch of the .log file.
BuildPkgTouchesLog == /\ pc = "begun"
                      /\ JobFilesBecome(files[cur] \cup {"log"})
                      /\ pc' = "built"
                      /\ UNCHANGED <<registered, cur, rc, denied, pkgs, db, run>>

\* It has not; the script goes on all the same.
BuildPkgBuildFails == /\ pc = "begun"
                      /\ pc' = "built"
                      /\ UNCHANGED <<logs, cur, rc, denied, pkgs, db, run>>

\* abort of Build-Pkg: without .log the build has failed, whatever follows.
BuildPkgAborts == /\ pc \in {"built", "registered"}
                  /\ "log" \in files[cur]
                  /\ JobFilesBecome(files[cur] \ {"log"})
                  /\ UNCHANGED <<registered, pc, cur, rc, denied, pkgs, db, run>>

\* Lists, checksums, dependencies and the package description are written,
\* also for a failed build.
BuildPkgRegisters == /\ pc = "built"
                     /\ registered' = registered \cup {cur}
                     /\ pc' = "registered"
                     /\ UNCHANGED <<files, cur, rc, denied, pkgs, db, run>>

RegistrationPassedAtOnce == pc \in {"built", "registered"}
RegistrationPassed == pc = "registered"

BuildPkgEnds == /\ RegistrationPassed
                /\ IF "log" \in files[cur]
                   THEN JobFilesBecome(files[cur] \ {"out"}) /\ rc' = 0
                   ELSE JobFilesBecome((files[cur] \ {"out"}) \cup {"err"}) /\ rc' = 1
                /\ pc' = "check"
                /\ UNCHANGED <<registered, cur, denied, pkgs, db, run>>

-----------------------------------------------------------------------------
\* pkgloop_package, after Build-Pkg.

ErrorStopsBuildOnlyBelow == rc = 1 /\ cur[1] < ContinueOnErrorAfter
ErrorStopsBuild == rc = 1 /\ cur[1] <= ContinueOnErrorAfter

AbortOnError == /\ pc = "check" /\ ErrorStopsBuild
                /\ pc' = "aborted"
                /\ UNCHANGED <<logs, cur, rc, denied, pkgs, db, run>>

\* Neither .log nor .err: "Package build ended abnormally!"
NoResultOnlyOut == files[cur] = {"out"}
NoResultNever == FALSE
NoResult == files[cur] \cap {"log", "err"} = {}

AbortOnNoResult == /\ pc = "check" /\ ~ErrorStopsBuild /\ NoResult
                   /\ JobFilesBecome(files[cur] \cup {"err"})
                   /\ pc' = "aborted"
                   /\ UNCHANGED <<registered, cur, rc, denied, pkgs, db, run>>

ResultPresent == /\ pc = "check" /\ ~ErrorStopsBuild /\ ~NoResult
                 /\ pc' = "pkgfile"
                 /\ UNCHANGED <<logs, cur, rc, denied, pkgs, db, run>>

LastStage(p) == CHOOSE s \in Stages[p] : \A t \in Stages[p] : t <= s

NeedsPkgFile(j) == /\ j[1] > 0 /\ j[1] = LastStage(j[2])
                   /\ PkgFileType # "none"
                   /\ "err" \notin files[j]

\* After the job: on to the next one, or out of a job run.
AfterJob == pc' = IF mode = "job" THEN "done" ELSE "queue"

NoPkgFile == /\ pc = "pkgfile" /\ ~NeedsPkgFile(cur)
             /\ AfterJob
             /\ UNCHANGED <<logs, cur, rc, denied, pkgs, db, run>>

StartPkgFile == /\ pc = "pkgfile" /\ NeedsPkgFile(cur)
                /\ own' = own \cup {cur[2]}
                /\ tmp' = tmp \cup {cur[2]}
                /\ AfterJob
                /\ UNCHANGED <<logs, cur, rc, denied, orphans, archive, db, run>>

\* The program the type is compressed with; the one for tar.lzo is assigned
\* to a misspelt variable, so that the type's own name is taken for it.
CompressorOf == [t \in PkgFileTypes |->
  CASE t = "tar.bz2"  -> "bzip2"
    [] t = "tar.gz"   -> "gzip"
    [] t = "tar.lzo"  -> "lzo"
    [] t = "tar.lzma" -> "lzma"
    [] t = "tar.xz"   -> "xz"
    [] t = "tar.zst"  -> "zstd"
    [] t = "gem"      -> "bzip2"
    [] OTHER          -> "none"]
Compressors == {"bzip2", "gzip", "lzop", "lzma", "xz", "zstd"}

\* tar | compressor > tmp; mv tmp archive - whatever tar and the compressor
\* have returned.
Compressed(p) ==
  /\ archive' = IF p \notin tmp THEN archive
                ELSE [archive EXCEPT ![p] =
                        IF CompressorOf[PkgFileType] \in Compressors
                        THEN "good" ELSE "bad"]
  /\ tmp' = tmp \ {p}

OwnCompressionEnds(p) == /\ p \in own
                         /\ own' = own \ {p}
                         /\ Compressed(p)
                         /\ UNCHANGED <<logs, pc, cur, rc, denied, orphans, db, run>>

OrphanCompressionEnds(p) == /\ p \in orphans
                            /\ orphans' = orphans \ {p}
                            /\ Compressed(p)
                            /\ UNCHANGED <<logs, pc, cur, rc, denied, own, db, run>>

CompressionsWaitedForNone == TRUE
\* "wait for background compression jobs to finish"
CompressionsWaitedFor == own = {}

Wait == /\ pc = "wait" /\ CompressionsWaitedFor
        /\ pc' = "database"
        /\ UNCHANGED <<logs, cur, rc, denied, pkgs, db, run>>

\* target/generic/build.sh with create_package_db: the packages with a
\* description for which there is a binary package.
CreatePackageDb ==
  /\ pc = "database"
  /\ db' = IF PkgFileType = "none" THEN db
           ELSE {p \in Pkg : /\ \E j \in registered : j[2] = p
                             /\ archive[p] # "none"}
  /\ pc' = "done"
  /\ UNCHANGED <<logs, cur, rc, denied, pkgs, run>>

-----------------------------------------------------------------------------
\* The run is killed, by the user or with the machine.

Killed == /\ pc \in Running /\ crashes < MaxCrashes
          /\ pc' = "down" /\ crashes' = crashes + 1
          /\ UNCHANGED <<logs, mode, cur, rc, denied, tmp, archive, db, runs>>

Interrupt == /\ Killed
             /\ orphans' = orphans \cup own
             /\ own' = {}

PowerLoss == /\ Killed
             /\ orphans' = {}
             /\ own' = {}

-----------------------------------------------------------------------------
BuildPkgStep == \/ BuildPkgDenied \/ BuildPkgRemovesOldFiles
                \/ BuildPkgConfigError \/ BuildPkgOpensOut
                \/ BuildPkgTouchesLog \/ BuildPkgBuildFails
                \/ BuildPkgAborts \/ BuildPkgRegisters \/ BuildPkgEnds

RunStep == \/ \E j \in Job : RemoveErr(j) \/ RemoveOut(j)
           \/ ErrsRemoved \/ OutsRemoved
           \/ TakeNextJob \/ QueueEmpty
           \/ BuildPkgStep
           \/ AbortOnError \/ AbortOnNoResult \/ ResultPresent
           \/ NoPkgFile \/ StartPkgFile
           \/ Wait \/ CreatePackageDb

Next == \/ StartLoop
        \/ \E j \in Job : StartJob(j)
        \/ RunStep
        \/ \E p \in Pkg : OwnCompressionEnds(p) \/ OrphanCompressionEnds(p)
        \/ Interrupt \/ PowerLoss

Spec == Init /\ [][Next]_vars

\* A step the script can take is taken: it is one process, and the programs
\* it waits for (a package's build, tar, the compressor) end.
FairSpec == /\ Spec
            /\ WF_vars(RunStep)
            /\ \A p \in Pkg : WF_vars(OwnCompressionEnds(p))

-----------------------------------------------------------------------------
(* Properties *)

\* The job of a loop run, from the moment it is taken to the end of Build-Pkg.
JobInHand == mode = "loop" /\ pc \in Building \cup {"start"}

\* "A packages without dependencies automatically depend on all packages build
\* before it": when a loop run builds a job, every job of an earlier stage, and
\* every job before it in its own stage, has been built or has failed; only
\* NOBROKENDEPS may pass over a job, and in stage 9 only
\* (Create-PkgQueue:131; no dependency is known for any package).
EarlierJobsEnded ==
  JobInHand => \A k \in Job :
    Before(k, cur) => \/ ~Pending(k, files)
                      \/ NoBrokenDeps /\ k[1] = 9

\* A loop run builds a job of a stage after ContinueOnErrorAfter only when no
\* job of the stages up to it has failed or is missing, whatever the earlier
\* runs, killed ones too, have left behind (config.hlp:81, Build-Target:84,218).
LaterStagesOnlyAfterSuccess ==
  JobInHand /\ cur[1] > ContinueOnErrorAfter =>
    \A k \in Job : k[1] <= ContinueOnErrorAfter => "log" \in files[k]

\* A loop run that comes to its end leaves no job without a verdict, and none
\* of the early stages without success; only NOBROKENDEPS lets it leave
\* jobs unbuilt, and then there is a failed one to blame.
DoneHasBuiltEverything ==
  mode = "loop" /\ pc \in {"wait", "database", "done"} =>
    /\ \/ \A j \in Job : ~Pending(j, files)
       \/ NoBrokenDeps /\ \E j \in Job : "err" \in files[j]
    /\ \A j \in Job : "err" \in files[j] => j[1] > ContinueOnErrorAfter

\* When the database is written, every package whose last stage was built in
\* runs that were not killed has its binary package, and the other way round
\* (Build-Target:127,235).
PackagesComplete ==
  mode = "loop" /\ pc = "done" /\ crashes = 0 /\ PkgFileType # "none" /\ ~NoBrokenDeps =>
    db = {p \in Pkg : \E s \in Stage \ {0} :
                        <<s, p>> \in Job /\ s = LastStage(p) /\ "log" \in files[<<s, p>>]}

\* A job that has its .log has been registered - as long as no run was killed
\* between the touch of the .log and the end of Build-Pkg.
LoggedIsRegistered ==
  crashes = 0 /\ pc \notin Building =>
    \A j \in Job : "log" \in files[j] => j \in registered

\* A Build-Pkg that ended before it did anything for the job is never taken
\* for a build: the run goes no further (Build-Target:223-232).
AbnormalEndAborts ==
  pc \in {"pkgfile", "queue", "wait", "database", "done"} => ~denied

\* No binary package is made for a job after a Build-Pkg that did nothing for
\* it: there is no result then, and the build is to be broken off
\* (Build-Target:223-232).  In a -job run an old .log passes for the result.
DeniedIsNotPacked == denied => cur[2] \notin own

\* In loop runs a built job stays built and, unless the configuration says
\* otherwise, a failed one is not tried again (SDECFG_RETRY_BROKEN).
KeepsVerdicts ==
  mode' = "loop" =>
    \A j \in Job :
      /\ "log" \in files[j] /\ ~(JobInHand /\ j = cur) => "log" \in files'[j]
      /\ "err" \in files[j] /\ ~RetryBroken /\ j[1] > ContinueOnErrorAfter
         => "err" \in files'[j]
VerdictsKept == [][KeepsVerdicts]_vars

\* Every run ends, whatever Build-Pkg reports ("Fixed endless-loop if package
\* doesn't create *.err or *.log file", doc/CHANGELOG-2003).
RunEnds == pc \in Running ~> pc \in Idle

=============================================================================
