------------------------- MODULE BuildTargetProofs -------------------------
(***************************************************************************)
(* Theorems about Build-Target, for every package list, configuration,     *)
(* number of runs and number of killed runs.                               *)
(***************************************************************************)
EXTENDS BuildTarget, PkgQueueProofs

-----------------------------------------------------------------------------
(* The inductive invariant *)

\* A loop run past the removal of the old logs.
Cleaned == mode = "loop" /\ pc \in Building \cup
             {"queue", "start", "check", "pkgfile", "wait", "database", "done"}

\* Only the job in work has an output file.
OutOnlyInWork ==
  Cleaned => \A k \in Job : "out" \in files[k] =>
                              k = cur /\ pc \in {"begun", "built", "registered"}

\* An early job has an error log only when it has just failed, and then the
\* run is about to abort.
EarlyErrAborts ==
  Cleaned \/ (mode = "loop" /\ pc = "cleanout") =>
    \A k \in Job : k[1] <= ContinueOnErrorAfter /\ "err" \in files[k] =>
                     pc = "check" /\ k = cur /\ rc = 1

\* The job a loop run starts has neither .log nor .err, nor has it after a
\* Build-Pkg that did nothing.
StartedJobPending ==
  mode = "loop" /\ (pc \in {"start", "removed"} \/ (pc = "check" /\ denied)) => Pending(cur, files)

\* A Build-Pkg that did nothing is followed by nothing but the abort.
DeniedAtEnd == mode = "loop" /\ denied => pc \in {"check", "aborted", "down"}

\* A .log without registration belongs to the job in work, before any kill.
LogRegistered ==
  crashes = 0 => \A j \in Job : "log" \in files[j] =>
                    j \in registered \/ (j = cur /\ pc = "built")

ModeAllowed == "job" \notin Modes => mode = "loop"

Safe == /\ OutOnlyInWork
        /\ EarlyErrAborts
        /\ StartedJobPending
        /\ DeniedAtEnd
        /\ LogRegistered
        /\ EarlierJobsEnded
        /\ LaterStagesOnlyAfterSuccess
        /\ DoneHasBuiltEverything
        /\ ModeAllowed

IInv == TypeOK /\ Safe

\* Every step keeps the types.
LEMMA TypeOKStep ==
  ASSUME TypeOK, [Next]_vars
  PROVE  TypeOK'
<1> USE DEF TypeOK, Idle, Running, Building, logs, pkgs, run, vars, File
<1>1. CASE StartLoop
  <2>1. runs' \in Nat
    BY <1>1 DEF StartLoop
  <2>2. denied' \in BOOLEAN
    BY <1>1 DEF StartLoop
  <2> QED
    BY <1>1, <2>1, <2>2 DEF StartLoop, Ended
<1>2. ASSUME NEW j \in Job, StartJob(j) PROVE TypeOK'
  <2>1. runs' \in Nat
    BY <1>2 DEF StartJob
  <2>2. denied' \in BOOLEAN
    BY <1>2 DEF StartJob
  <2> QED
    BY <1>2, <2>1, <2>2 DEF StartJob, Ended
<1>3. ASSUME NEW j \in Job, RemoveErr(j) PROVE TypeOK'
  BY <1>3 DEF RemoveErr, Retried
<1>4. ASSUME NEW j \in Job, RemoveOut(j) PROVE TypeOK'
  BY <1>4 DEF RemoveOut
<1>5. CASE ErrsRemoved
  BY <1>5 DEF ErrsRemoved, Retried
<1>6. CASE OutsRemoved
  BY <1>6 DEF OutsRemoved
<1>7. CASE TakeNextJob
  BY <1>7 DEF TakeNextJob, NextJob
<1>8. CASE QueueEmpty
  BY <1>8 DEF QueueEmpty
<1>9. CASE BuildPkgDenied
  BY <1>9 DEF BuildPkgDenied
<1>10. CASE BuildPkgRemovesOldFiles
  BY <1>10 DEF BuildPkgRemovesOldFiles, JobFilesBecome
<1>11. CASE BuildPkgConfigError
  BY <1>11 DEF BuildPkgConfigError, JobFilesBecome
<1>12. CASE BuildPkgOpensOut
  BY <1>12 DEF BuildPkgOpensOut, JobFilesBecome
<1>13. CASE BuildPkgTouchesLog
  BY <1>13 DEF BuildPkgTouchesLog, JobFilesBecome
<1>14. CASE BuildPkgBuildFails
  BY <1>14 DEF BuildPkgBuildFails
<1>15. CASE BuildPkgAborts
  BY <1>15 DEF BuildPkgAborts, JobFilesBecome
<1>16. CASE BuildPkgRegisters
  BY <1>16 DEF BuildPkgRegisters
<1>17. CASE BuildPkgEnds
  BY <1>17 DEF BuildPkgEnds, JobFilesBecome, RegistrationPassed
<1>18. CASE AbortOnError
  BY <1>18 DEF AbortOnError, ErrorStopsBuild
<1>19. CASE AbortOnNoResult
  BY <1>19 DEF AbortOnNoResult, JobFilesBecome, ErrorStopsBuild, NoResult
<1>20. CASE ResultPresent
  BY <1>20 DEF ResultPresent, ErrorStopsBuild, NoResult
<1>21. CASE NoPkgFile
  BY <1>21 DEF NoPkgFile, AfterJob
<1>22. CASE StartPkgFile
  BY <1>22 DEF StartPkgFile, AfterJob, Job
<1>23. ASSUME NEW p \in Pkg, OwnCompressionEnds(p) PROVE TypeOK'
  BY <1>23 DEF OwnCompressionEnds, Compressed
<1>24. ASSUME NEW p \in Pkg, OrphanCompressionEnds(p) PROVE TypeOK'
  BY <1>24 DEF OrphanCompressionEnds, Compressed
<1>25. CASE Wait
  BY <1>25 DEF Wait, CompressionsWaitedFor
<1>26. CASE CreatePackageDb
  BY <1>26 DEF CreatePackageDb
<1>27. CASE Interrupt
  BY <1>27 DEF Interrupt, Killed
<1>28. CASE PowerLoss
  BY <1>28 DEF PowerLoss, Killed
<1>29. CASE UNCHANGED vars
  BY <1>29
<1> HIDE DEF TypeOK, vars
<1> QED
  BY <1>1, <1>2, <1>3, <1>4, <1>5, <1>6, <1>7, <1>8, <1>9, <1>10, <1>11, <1>12,
       <1>13, <1>14, <1>15, <1>16, <1>17, <1>18, <1>19, <1>20, <1>21, <1>22,
       <1>23, <1>24, <1>25, <1>26, <1>27, <1>28, <1>29 DEF Next, RunStep,
       BuildPkgStep

\* Every step keeps the other conjuncts.
LEMMA SafeStep ==
  ASSUME IInv, TypeOK', [Next]_vars
  PROVE  Safe'
<1> USE DEF IInv, Safe, TypeOK, OutOnlyInWork, EarlyErrAborts,
     StartedJobPending, DeniedAtEnd, LogRegistered, EarlierJobsEnded,
     LaterStagesOnlyAfterSuccess, DoneHasBuiltEverything, ModeAllowed, Cleaned,
     JobInHand, Idle, Running, Building, logs, pkgs, run, vars, File, Pending
<1>1. CASE StartLoop
  BY <1>1 DEF StartLoop, Ended
<1>2. ASSUME NEW j \in Job, StartJob(j) PROVE Safe'
  BY <1>2 DEF StartJob, Ended
<1>3. ASSUME NEW j \in Job, RemoveErr(j) PROVE Safe'
  BY <1>3 DEF RemoveErr, Retried
<1>4. ASSUME NEW j \in Job, RemoveOut(j) PROVE Safe'
  BY <1>4 DEF RemoveOut
<1>5. CASE ErrsRemoved
  BY <1>5 DEF ErrsRemoved, Retried
<1>6. CASE OutsRemoved
  BY <1>6 DEF OutsRemoved
<1>7. CASE TakeNextJob
  <2>1. PICK j \in NextJob(files, NoBrokenDeps) : cur' = j
    BY <1>7 DEF TakeNextJob
  <2>2. j \in Job /\ Buildable(j, files, NoBrokenDeps)
    BY <2>1 DEF NextJob
  <2>3. pc = "queue" /\ pc' = "start" /\ UNCHANGED <<files, registered, denied, mode, crashes>>
    BY <1>7 DEF TakeNextJob
  <2>4. ASSUME mode = "loop" PROVE \A k \in Job : "out" \notin files[k]
    BY <2>3, <2>4
  <2>5. EarlierJobsEnded'
    <3> SUFFICES ASSUME mode = "loop", NEW k \in Job, Before(k, j), Pending(k, files)
                 PROVE  NoBrokenDeps /\ k[1] = 9
      BY <2>1, <2>3
    <3>1. CASE ~NoBrokenDeps
      <4>1. NoBrokenDeps = FALSE
        BY <3>1, ConfigAssumption
      <4> QED
        BY <4>1, <2>1, <2>4, NextJobIsFirstPending
    <3>2. CASE NoBrokenDeps
      <4>1. k \in MissingBefore(j, files, NoBrokenDeps)
        BY DEF MissingBefore, Missing
      <4>2. OnlyStage9Pending(files)
        BY <4>1, <2>2 DEF Buildable
      <4> QED
        BY <4>2, <3>2 DEF OnlyStage9Pending
    <3> QED
      BY <3>1, <3>2
  <2>6. LaterStagesOnlyAfterSuccess'
    <3> SUFFICES ASSUME mode = "loop", j[1] > ContinueOnErrorAfter,
                        NEW k \in Job, k[1] <= ContinueOnErrorAfter
                 PROVE  "log" \in files[k]
      BY <2>1, <2>3
    <3>1. k[1] < j[1]
      <4>1. k[1] \in Int /\ j[1] \in Int /\ ContinueOnErrorAfter \in Int
        BY <2>2, ConfigAssumption DEF Job, Stage
      <4> QED
        BY <4>1
    <3>2. ~Pending(k, files)
      BY <3>1, <2>1, EarlierStagesEnded, ConfigAssumption
    <3>3. "err" \notin files[k]
      BY <2>3
    <3> QED
      BY <3>2, <3>3
  <2>7. StartedJobPending'
    BY <2>1, <2>2, <2>3 DEF Buildable
  <2>8. OutOnlyInWork' /\ EarlyErrAborts' /\ DeniedAtEnd' /\ LogRegistered'
        /\ DoneHasBuiltEverything' /\ ModeAllowed'
    BY <2>3
  <2> QED
    BY <2>5, <2>6, <2>7, <2>8
<1>8. CASE QueueEmpty
  <2>1. pc = "queue" /\ pc' = "wait" /\ NextJob(files, NoBrokenDeps) = {}
        /\ UNCHANGED <<files, registered, cur, rc, denied, mode, crashes>>
    BY <1>8 DEF QueueEmpty
  <2>2. DoneHasBuiltEverything'
    <3> SUFFICES ASSUME mode = "loop"
                 PROVE  /\ \/ \A j \in Job : ~Pending(j, files)
                           \/ NoBrokenDeps /\ \E j \in Job : "err" \in files[j]
                        /\ \A j \in Job : "err" \in files[j] => j[1] > ContinueOnErrorAfter
      BY <2>1
    <3>1. \A j \in Job : "err" \in files[j] => j[1] > ContinueOnErrorAfter
      <4>1. \A j \in Job : "err" \in files[j] => ~(j[1] <= ContinueOnErrorAfter)
        BY <2>1
      <4> QED
        BY <4>1, ConfigAssumption DEF Job, Stage
    <3>2. \A k \in Job : "out" \notin files[k]
      BY <2>1
    <3>3. SUFFICES ASSUME NEW p \in Job, Pending(p, files)
                   PROVE  NoBrokenDeps /\ \E j \in Job : "err" \in files[j]
      BY <3>1
    <3>4. NextJob(files, FALSE) # {}
      BY <3>2, <3>3, PendingIsOffered
    <3>5. NoBrokenDeps = TRUE
      BY <3>4, <2>1, ConfigAssumption
    <3> QED
      BY <3>4, <3>5, <2>1, NobrokendepsNeedsError
  <2>3. /\ OutOnlyInWork' /\ EarlyErrAborts' /\ StartedJobPending' /\ DeniedAtEnd'
        /\ LogRegistered' /\ EarlierJobsEnded' /\ LaterStagesOnlyAfterSuccess'
        /\ ModeAllowed'
    BY <2>1
  <2> QED
    BY <2>2, <2>3
<1>9. CASE BuildPkgDenied
  BY <1>9 DEF BuildPkgDenied
<1>10. CASE BuildPkgRemovesOldFiles
  BY <1>10 DEF BuildPkgRemovesOldFiles, JobFilesBecome
<1>11. CASE BuildPkgConfigError
  BY <1>11 DEF BuildPkgConfigError, JobFilesBecome
<1>12. CASE BuildPkgOpensOut
  BY <1>12 DEF BuildPkgOpensOut, JobFilesBecome
<1>13. CASE BuildPkgTouchesLog
  BY <1>13 DEF BuildPkgTouchesLog, JobFilesBecome
<1>14. CASE BuildPkgBuildFails
  BY <1>14 DEF BuildPkgBuildFails
<1>15. CASE BuildPkgAborts
  <2>1. files' = [files EXCEPT ![cur] = @ \ {"log"}] /\ cur \in Job
    BY <1>15 DEF BuildPkgAborts, JobFilesBecome
  <2>2. pc \in {"built", "registered"} /\ "log" \in files[cur]
        /\ UNCHANGED <<registered, pc, cur, rc, denied, mode, crashes>>
    BY <1>15 DEF BuildPkgAborts
  <2>3. \A k \in Job : k # cur => files'[k] = files[k]
    BY <2>1
  <2>4. files'[cur] = files[cur] \ {"log"}
    BY <2>1
  <2>5. OutOnlyInWork' /\ EarlyErrAborts' /\ StartedJobPending' /\ DeniedAtEnd'
        /\ DoneHasBuiltEverything' /\ ModeAllowed'
    BY <2>2, <2>3, <2>4
  <2>6. LogRegistered'
    BY <2>2, <2>3, <2>4
  <2>7. EarlierJobsEnded'
    BY <2>1, <2>2, <2>3, BeforeIsAsymmetric
  <2>8. LaterStagesOnlyAfterSuccess'
    <3>1. \A k \in Job : k[1] <= ContinueOnErrorAfter /\ cur[1] > ContinueOnErrorAfter
                           => k # cur
      BY <2>1, ConfigAssumption DEF Job, Stage
    <3> QED
      BY <2>2, <2>3, <3>1
  <2> QED
    BY <2>5, <2>6, <2>7, <2>8
<1>16. CASE BuildPkgRegisters
  BY <1>16 DEF BuildPkgRegisters
<1>17. CASE BuildPkgEnds
  BY <1>17 DEF BuildPkgEnds, JobFilesBecome, RegistrationPassed
<1>18. CASE AbortOnError
  BY <1>18 DEF AbortOnError, ErrorStopsBuild
<1>19. CASE AbortOnNoResult
  BY <1>19 DEF AbortOnNoResult, JobFilesBecome, ErrorStopsBuild, NoResult
<1>20. CASE ResultPresent
  BY <1>20 DEF ResultPresent, ErrorStopsBuild, NoResult
<1>21. CASE NoPkgFile
  BY <1>21 DEF NoPkgFile, AfterJob
<1>22. CASE StartPkgFile
  BY <1>22 DEF StartPkgFile, AfterJob
<1>23. ASSUME NEW p \in Pkg, OwnCompressionEnds(p) PROVE Safe'
  BY <1>23 DEF OwnCompressionEnds, Compressed
<1>24. ASSUME NEW p \in Pkg, OrphanCompressionEnds(p) PROVE Safe'
  BY <1>24 DEF OrphanCompressionEnds, Compressed
<1>25. CASE Wait
  BY <1>25 DEF Wait, CompressionsWaitedFor
<1>26. CASE CreatePackageDb
  BY <1>26 DEF CreatePackageDb
<1>27. CASE Interrupt
  BY <1>27 DEF Interrupt, Killed
<1>28. CASE PowerLoss
  BY <1>28 DEF PowerLoss, Killed
<1>29. CASE UNCHANGED vars
  BY <1>29
<1> HIDE DEF IInv, Safe, TypeOK, vars
<1> QED
  BY <1>1, <1>2, <1>3, <1>4, <1>5, <1>6, <1>7, <1>8, <1>9, <1>10, <1>11, <1>12,
       <1>13, <1>14, <1>15, <1>16, <1>17, <1>18, <1>19, <1>20, <1>21, <1>22,
       <1>23, <1>24, <1>25, <1>26, <1>27, <1>28, <1>29 DEF Next, RunStep,
       BuildPkgStep

\* No step of a loop run takes a verdict back that the configuration keeps.
LEMMA VerdictStep ==
  ASSUME IInv, [Next]_vars
  PROVE  KeepsVerdicts
<1> USE DEF KeepsVerdicts, IInv, Safe, TypeOK, StartedJobPending,
     EarlyErrAborts, Cleaned, JobInHand, Pending, Building, logs, run, vars
<1>1. CASE StartLoop
  BY <1>1 DEF StartLoop, Ended
<1>2. ASSUME NEW j \in Job, StartJob(j) PROVE KeepsVerdicts
  BY <1>2 DEF StartJob, Ended
<1>3. ASSUME NEW j \in Job, RemoveErr(j) PROVE KeepsVerdicts
  <2>1. \A i \in Job : i[1] <= ContinueOnErrorAfter => ~(i[1] > ContinueOnErrorAfter)
    BY ConfigAssumption DEF Job, Stage
  <2>2. \A i \in Job : i # j => files'[i] = files[i]
    BY <1>3 DEF RemoveErr
  <2>3. files'[j] = files[j] \ {"err"} /\ Retried(j)
    BY <1>3 DEF RemoveErr
  <2> QED
    BY <2>1, <2>2, <2>3 DEF Retried
<1>4. ASSUME NEW j \in Job, RemoveOut(j) PROVE KeepsVerdicts
  BY <1>4 DEF RemoveOut
<1>5. CASE ErrsRemoved
  BY <1>5 DEF ErrsRemoved, Retried
<1>6. CASE OutsRemoved
  BY <1>6 DEF OutsRemoved
<1>7. CASE TakeNextJob
  BY <1>7 DEF TakeNextJob
<1>8. CASE QueueEmpty
  BY <1>8 DEF QueueEmpty
<1>9. CASE BuildPkgDenied
  BY <1>9 DEF BuildPkgDenied
<1>10. CASE BuildPkgRemovesOldFiles
  BY <1>10 DEF BuildPkgRemovesOldFiles, JobFilesBecome
<1>11. CASE BuildPkgConfigError
  BY <1>11 DEF BuildPkgConfigError, JobFilesBecome
<1>12. CASE BuildPkgOpensOut
  BY <1>12 DEF BuildPkgOpensOut, JobFilesBecome
<1>13. CASE BuildPkgTouchesLog
  BY <1>13 DEF BuildPkgTouchesLog, JobFilesBecome
<1>14. CASE BuildPkgBuildFails
  BY <1>14 DEF BuildPkgBuildFails
<1>15. CASE BuildPkgAborts
  BY <1>15 DEF BuildPkgAborts, JobFilesBecome
<1>16. CASE BuildPkgRegisters
  BY <1>16 DEF BuildPkgRegisters
<1>17. CASE BuildPkgEnds
  BY <1>17 DEF BuildPkgEnds, JobFilesBecome, RegistrationPassed
<1>18. CASE AbortOnError
  BY <1>18 DEF AbortOnError, ErrorStopsBuild
<1>19. CASE AbortOnNoResult
  BY <1>19 DEF AbortOnNoResult, JobFilesBecome, ErrorStopsBuild, NoResult
<1>20. CASE ResultPresent
  BY <1>20 DEF ResultPresent, ErrorStopsBuild, NoResult
<1>21. CASE NoPkgFile
  BY <1>21 DEF NoPkgFile, AfterJob
<1>22. CASE StartPkgFile
  BY <1>22 DEF StartPkgFile, AfterJob
<1>23. ASSUME NEW p \in Pkg, OwnCompressionEnds(p) PROVE KeepsVerdicts
  BY <1>23 DEF OwnCompressionEnds, Compressed
<1>24. ASSUME NEW p \in Pkg, OrphanCompressionEnds(p) PROVE KeepsVerdicts
  BY <1>24 DEF OrphanCompressionEnds, Compressed
<1>25. CASE Wait
  BY <1>25 DEF Wait, CompressionsWaitedFor
<1>26. CASE CreatePackageDb
  BY <1>26 DEF CreatePackageDb
<1>27. CASE Interrupt
  BY <1>27 DEF Interrupt, Killed
<1>28. CASE PowerLoss
  BY <1>28 DEF PowerLoss, Killed
<1>29. CASE UNCHANGED vars
  BY <1>29
<1> HIDE DEF KeepsVerdicts, IInv, Safe, TypeOK, vars
<1> QED
  BY <1>1, <1>2, <1>3, <1>4, <1>5, <1>6, <1>7, <1>8, <1>9, <1>10, <1>11, <1>12,
       <1>13, <1>14, <1>15, <1>16, <1>17, <1>18, <1>19, <1>20, <1>21, <1>22,
       <1>23, <1>24, <1>25, <1>26, <1>27, <1>28, <1>29 DEF Next, RunStep,
       BuildPkgStep

LEMMA InitSafe == Init => IInv
<1> SUFFICES ASSUME Init PROVE IInv
  OBVIOUS
<1>1. TypeOK
  BY DEF Init, TypeOK, Idle, Running, Building
<1>2. pc = "off" /\ mode = "loop" /\ denied = FALSE
      /\ \A j \in Job : files[j] = {}
  BY DEF Init
<1>3. Safe
  BY <1>2 DEF Safe, OutOnlyInWork, EarlyErrAborts, StartedJobPending,
       DeniedAtEnd,
     LogRegistered, EarlierJobsEnded, LaterStagesOnlyAfterSuccess,
     DoneHasBuiltEverything, ModeAllowed, Cleaned, JobInHand, Building
<1> QED
  BY <1>1, <1>3 DEF IInv

\* The invariant holds in every behaviour of Build-Target.
THEOREM Invariance == Spec => []IInv
<1>1. IInv /\ [Next]_vars => IInv'
  <2> SUFFICES ASSUME IInv, [Next]_vars PROVE IInv'
    OBVIOUS
  <2>1. TypeOK'
    BY TypeOKStep DEF IInv
  <2> QED
    BY <2>1, SafeStep DEF IInv
<1> QED
  BY InitSafe, <1>1, PTL DEF Spec

-----------------------------------------------------------------------------
\* The last job of a package, the one that is followed by its binary package.
Last(j) == j[1] > 0 /\ j[1] = LastStage(j[2])

\* A package has its binary package, or will have it.
Packed(p) == p \in own \/ archive[p] # "none"

AtWork == pc \in Building \cup {"start", "check", "pkgfile"}

\* What the job in work has in var/adm/logs at each place of the loop.
VerdictInv ==
  /\ pc \in {"removed", "begun"} => files[cur] \cap {"log", "err"} = {}
  /\ pc \in {"built", "registered"} => "err" \notin files[cur]
  /\ pc = "check" /\ "log" \in files[cur] => rc = 0 /\ "err" \notin files[cur]
  /\ pc = "pkgfile" => ("log" \in files[cur]) # ("err" \in files[cur])

\* Every compression is of this run, and waited for before the end.
CompressInv == /\ orphans = {} /\ tmp = own
               /\ pc \in {"database", "done"} => own = {}

\* A binary package is of a package built to its last stage,
PackedBuilt == \A p \in Pkg : Packed(p) =>
  \E j \in Job : /\ j[2] = p /\ Last(j) /\ "log" \in files[j]
                 /\ ~(AtWork /\ j = cur)

\* and such a package has one, once the loop is through with it.
BuiltPacked == \A j \in Job : "log" \in files[j] /\ Last(j) =>
  \/ Packed(j[2])
  \/ j = cur /\ pc \in {"built", "registered", "check", "pkgfile"}

PackInv == crashes = 0 /\ PkgFileType # "none" =>
             VerdictInv /\ CompressInv /\ PackedBuilt /\ BuiltPacked

\* Every step of a loop run that is not killed keeps this.
LEMMA PackStep ==
  ASSUME TypeOK, StartedJobPending, ModeAllowed, "job" \notin Modes, PackInv, [Next]_vars,
         crashes' = 0, PkgFileType # "none"
  PROVE  PackInv'
<1> USE DEF PackInv, VerdictInv, CompressInv, PackedBuilt, BuiltPacked, Packed, AtWork,
     Last, TypeOK, StartedJobPending, ModeAllowed, Pending, Idle, Running, Building,
     File, logs, pkgs, run, vars
<1>1. CASE StartLoop
  BY <1>1 DEF StartLoop, Ended
<1>2. ASSUME NEW j \in Job, RemoveErr(j) PROVE PackInv'
  BY <1>2 DEF RemoveErr, Retried
<1>3. ASSUME NEW j \in Job, RemoveOut(j) PROVE PackInv'
  BY <1>3 DEF RemoveOut
<1>4. CASE ErrsRemoved
  BY <1>4 DEF ErrsRemoved
<1>5. CASE OutsRemoved
  BY <1>5 DEF OutsRemoved
<1>6. CASE TakeNextJob
  BY <1>6 DEF TakeNextJob, NextJob, Buildable
<1>7. CASE QueueEmpty
  BY <1>7 DEF QueueEmpty
<1>8. CASE BuildPkgDenied
  BY <1>8 DEF BuildPkgDenied
<1>9. CASE BuildPkgRemovesOldFiles
  BY <1>9 DEF BuildPkgRemovesOldFiles, JobFilesBecome
<1>10. CASE BuildPkgConfigError
  BY <1>10 DEF BuildPkgConfigError, JobFilesBecome
<1>11. CASE BuildPkgOpensOut
  BY <1>11 DEF BuildPkgOpensOut, JobFilesBecome
<1>12. CASE BuildPkgTouchesLog
  BY <1>12 DEF BuildPkgTouchesLog, JobFilesBecome
<1>13. CASE BuildPkgBuildFails
  BY <1>13 DEF BuildPkgBuildFails
<1>14. CASE BuildPkgAborts
  BY <1>14 DEF BuildPkgAborts, JobFilesBecome
<1>15. CASE BuildPkgRegisters
  BY <1>15 DEF BuildPkgRegisters
<1>16. CASE BuildPkgEnds
  BY <1>16 DEF BuildPkgEnds, JobFilesBecome, RegistrationPassed
<1>17. CASE AbortOnError
  BY <1>17 DEF AbortOnError, ErrorStopsBuild
<1>18. CASE AbortOnNoResult
  BY <1>18 DEF AbortOnNoResult, JobFilesBecome, ErrorStopsBuild, NoResult
<1>19. CASE ResultPresent
  BY <1>19 DEF ResultPresent, ErrorStopsBuild, NoResult
<1>20. CASE NoPkgFile
  BY <1>20 DEF NoPkgFile, AfterJob, NeedsPkgFile
<1>21. CASE StartPkgFile
  BY <1>21 DEF StartPkgFile, AfterJob, NeedsPkgFile
<1>22. ASSUME NEW p \in Pkg, OwnCompressionEnds(p) PROVE PackInv'
  BY <1>22 DEF OwnCompressionEnds, Compressed
<1>23. ASSUME NEW p \in Pkg, OrphanCompressionEnds(p) PROVE PackInv'
  BY <1>23 DEF OrphanCompressionEnds, Compressed
<1>24. CASE Wait
  BY <1>24 DEF Wait, CompressionsWaitedFor
<1>25. CASE CreatePackageDb
  BY <1>25 DEF CreatePackageDb
<1>26. CASE Interrupt
  BY <1>26 DEF Interrupt, Killed
<1>27. CASE PowerLoss
  BY <1>27 DEF PowerLoss, Killed
<1>28. CASE UNCHANGED vars
  BY <1>28
<1>29. \A j \in Job : ~StartJob(j)
  BY DEF StartJob
<1> HIDE DEF IInv, Safe, TypeOK, vars, PackInv
<1> QED
  BY <1>1, <1>2, <1>3, <1>4, <1>5, <1>6, <1>7, <1>8, <1>9, <1>10, <1>11, <1>12, <1>13, <1>14, <1>15, <1>16, <1>17, <1>18, <1>19, <1>20, <1>21, <1>22, <1>23, <1>24, <1>25, <1>26, <1>27, <1>28, <1>29 DEF Next, RunStep,
     BuildPkgStep

\* What CreatePackageDb lists is what has been built; and nothing of it changes
\* before the next run.
LEMMA DatabaseStep ==
  ASSUME TypeOK, LogRegistered, ModeAllowed, "job" \notin Modes, PackInv, [Next]_vars,
         crashes' = 0, PkgFileType # "none", PackagesComplete
  PROVE  PackagesComplete'
<1> SUFFICES ASSUME pc' = "done", ~NoBrokenDeps PROVE PackagesComplete'
  BY DEF PackagesComplete
<1>1. CASE CreatePackageDb
  <2>1. pc = "database" /\ UNCHANGED <<files, registered, archive, own, crashes>>
    BY <1>1 DEF CreatePackageDb, logs, pkgs, run
  <2>2. db' = {p \in Pkg : (\E j \in registered : j[2] = p) /\ archive[p] # "none"}
    BY <1>1, PkgFileType # "none" DEF CreatePackageDb
  <2>3. own = {} /\ PackedBuilt /\ BuiltPacked
    BY <2>1 DEF PackInv, CompressInv
  <2>4. ASSUME NEW p \in Pkg, archive[p] # "none"
        PROVE  \E s \in Stage \ {0} : <<s, p>> \in Job /\ s = LastStage(p) /\ "log" \in files[<<s, p>>]
    <3>1. PICK j \in Job : j[2] = p /\ Last(j) /\ "log" \in files[j]
      BY <2>3, <2>4 DEF PackedBuilt, Packed
    <3>2. j[1] \in Stage \ {0} /\ j = <<j[1], p>>
      BY <3>1 DEF Job, Stage, Last
    <3> QED
      BY <3>1, <3>2 DEF Last
  <2>5. ASSUME NEW p \in Pkg, NEW s \in Stage \ {0},
               <<s, p>> \in Job, s = LastStage(p), "log" \in files[<<s, p>>]
        PROVE  (\E j \in registered : j[2] = p) /\ archive[p] # "none"
    <3>1. Last(<<s, p>>)
      BY <2>5 DEF Last, Stage
    <3>2. archive[p] # "none"
      BY <3>1, <2>1, <2>3, <2>5 DEF BuiltPacked, Packed
    <3>3. <<s, p>> \in registered
      BY <2>1, <2>5 DEF LogRegistered
    <3> QED
      BY <3>2, <3>3
  <2> QED
    BY <2>1, <2>2, <2>4, <2>5 DEF PackagesComplete
<1>2. CASE ~CreatePackageDb
  <2> SUFFICES pc = "done" /\ UNCHANGED <<files, db, mode, crashes>>
    BY DEF PackagesComplete
  <2> USE DEF TypeOK, ModeAllowed, PackInv, CompressInv, Building, logs, pkgs, run, vars
  <2>1. mode = "loop" /\ \A j \in Job : ~StartJob(j)
    BY DEF StartJob
  <2>2. ~BuildPkgStep
    BY DEF BuildPkgStep, BuildPkgDenied, BuildPkgRemovesOldFiles, BuildPkgConfigError,
       BuildPkgOpensOut, BuildPkgTouchesLog, BuildPkgBuildFails, BuildPkgAborts,
       BuildPkgRegisters, BuildPkgEnds
  <2>3. ~RunStep
    BY <1>2, <2>1, <2>2 DEF RunStep, RemoveErr, RemoveOut, ErrsRemoved, OutsRemoved, TakeNextJob,
       QueueEmpty, AbortOnError, AbortOnNoResult, ResultPresent, NoPkgFile, StartPkgFile,
       AfterJob, Wait
  <2>4. ~StartLoop /\ ~Interrupt /\ ~PowerLoss
    BY DEF StartLoop, Interrupt, PowerLoss, Killed
  <2>5. ASSUME NEW p \in Pkg, OwnCompressionEnds(p) \/ OrphanCompressionEnds(p)
        PROVE  pc = "done" /\ UNCHANGED <<files, db, mode, crashes>>
    BY <2>5 DEF OwnCompressionEnds, OrphanCompressionEnds
  <2> HIDE DEF TypeOK, PackInv
  <2> QED
    BY <2>1, <2>3, <2>4, <2>5 DEF Next
<1> QED
  BY <1>1, <1>2

-----------------------------------------------------------------------------
(* The theorems *)

\* The types of the variables.
THEOREM TypeCorrect == Spec => []TypeOK
<1>1. IInv => TypeOK
  BY DEF IInv
<1> QED
  BY Invariance, <1>1, PTL

\* A loop run builds in the order of the stages and of the package list.
THEOREM OrderKept == Spec => []EarlierJobsEnded
<1>1. IInv => EarlierJobsEnded
  BY DEF IInv, Safe
<1> QED
  BY Invariance, <1>1, PTL

\* No job of a late stage is built on top of an early one that is missing or
\* has failed, whatever earlier, possibly killed, runs have left behind.
THEOREM LaterStagesGated == Spec => []LaterStagesOnlyAfterSuccess
<1>1. IInv => LaterStagesOnlyAfterSuccess
  BY DEF IInv, Safe
<1> QED
  BY Invariance, <1>1, PTL

\* A run that comes to its end has built everything it may.
THEOREM DoneComplete == Spec => []DoneHasBuiltEverything
<1>1. IInv => DoneHasBuiltEverything
  BY DEF IInv, Safe
<1> QED
  BY Invariance, <1>1, PTL

\* Without kills a .log file stands for a registered package.
THEOREM LogMeansRegistered == Spec => []LoggedIsRegistered
<1>1. IInv => LoggedIsRegistered
  BY DEF IInv, Safe, TypeOK, LogRegistered, LoggedIsRegistered, Building
<1> QED
  BY Invariance, <1>1, PTL

\* When only loop runs are started, a Build-Pkg that did nothing for its job
\* always stops the run (with -job it does not: see the run BuildTargetJob).
THEOREM AbnormalEndStopsLoop == ASSUME "job" \notin Modes
                                PROVE  Spec => []AbnormalEndAborts
<1>1. IInv => AbnormalEndAborts
  BY DEF IInv, Safe, DeniedAtEnd, ModeAllowed, AbnormalEndAborts
<1> QED
  BY Invariance, <1>1, PTL

\* Verdicts survive every loop run, and failed jobs are retried only when the
\* configuration says so.
THEOREM VerdictsSurvive == Spec => VerdictsKept
<1>1. IInv /\ [Next]_vars => [KeepsVerdicts]_vars
  BY VerdictStep DEF vars
<1> QED
  BY Invariance, <1>1, PTL DEF VerdictsKept, Spec

\* Loop runs that are not killed end with a database that lists every package
\* built to its last stage, and no other (Build-Target:127,235).
THEOREM PackagesAreComplete == ASSUME "job" \notin Modes
                               PROVE  Spec => []PackagesComplete
<1> DEFINE Inv == PackInv /\ PackagesComplete
<1>1. Init => Inv
  BY DEF Init, PackInv, VerdictInv, CompressInv, PackedBuilt, BuiltPacked, Packed, Building,
     PackagesComplete
<1>2. IInv /\ Inv /\ [Next]_vars => Inv'
  <2> SUFFICES ASSUME IInv, Inv, [Next]_vars PROVE Inv'
    OBVIOUS
  <2>1. CASE crashes' # 0 \/ PkgFileType = "none"
    BY <2>1 DEF PackInv, PackagesComplete
  <2>2. CASE crashes' = 0 /\ PkgFileType # "none"
    <3>1. PackInv'
      BY <2>2, PackStep DEF IInv, Safe
    <3>2. PackagesComplete'
      BY <2>2, <3>1, DatabaseStep DEF IInv, Safe
    <3> QED
      BY <3>1, <3>2
  <2> QED
    BY <2>1, <2>2
<1>3. Inv => PackagesComplete
  OBVIOUS
<1> QED
  BY Invariance, <1>1, <1>2, <1>3, PTL DEF Spec
=============================================================================
