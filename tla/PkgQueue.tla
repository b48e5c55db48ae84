------------------------------ MODULE PkgQueue ------------------------------
(***************************************************************************)
(* scripts/Create-PkgQueue: which jobs may be built next.                  *)
(*                                                                         *)
(* A job is a package at a build stage.  Its state is the set of files it  *)
(* has in var/adm/logs: "log" (built), "err" (failed), "out" (in work).    *)
(* The script scans the selected lines of config/<cfg>/packages once per   *)
(* stage, 0 to 9, and prints the jobs that may be built now; Build-Target  *)
(* runs it with -single and takes the first.                               *)
(*                                                                         *)
(* Scan is that program, line after line.  Buildable is what it amounts    *)
(* to, without the scan; PkgQueueProofs proves the two equal.              *)
(***************************************************************************)
EXTENDS Integers, Sequences, FiniteSets

CONSTANTS
  NPkg,        \* the number of selected ("X") lines of config/<cfg>/packages
  Stages,      \* Stages[p]: the stages line p is built in
  T2Debug      \* {the line of package t2-debug}, or {} when not selected

Stage == 0 .. 9
Pkg == 1 .. NPkg

ASSUME PkgAssumption == /\ NPkg \in Nat
                        /\ Stages \in [Pkg -> SUBSET Stage]
                        /\ T2Debug \subseteq Pkg

Job == {j \in Stage \X Pkg : j[1] \in Stages[j[2]]}

File == {"log", "err", "out"}

-----------------------------------------------------------------------------
\* The scan.

\* What the awk program carries from one line to the next: the printed jobs,
\* not_present, the two "earlier stage missing" flags, stage9_no_deps = "x".
ScanStart == [queue |-> << >>, absent |-> {}, absent0 |-> FALSE,
              absent01 |-> FALSE, nodeps9 |-> TRUE]

NotInWork(j, files) == "out" \notin files[j]

\* No build dependency is known to the script (its database is never filled),
\* so a package depends on everything before it, except in stage 9.
EarlierPresent(acc, j) == acc.absent = {} \/ (j[1] = 9 /\ acc.nodeps9)

EarlierStagesPresentOffByOne(acc, j) == /\ j[1] > 0 => ~acc.absent0
                                        /\ j[1] >= 1 => ~acc.absent01

\* The flags are already set for j itself when they are tested.
EarlierStagesPresent(acc, j) == /\ j[1] > 0 => ~acc.absent0
                                /\ j[1] >= 2 => ~acc.absent01

MayBuild(acc, j, files) ==
  /\ NotInWork(j, files)
  /\ j[2] \notin acc.absent
  /\ j[1] = 0 => acc.absent = {}
  /\ EarlierStagesPresent(acc, j)
  /\ EarlierPresent(acc, j)
  /\ j[2] \in T2Debug => acc.absent = {}

NotPresent(acc, j) == [acc EXCEPT !.absent = @ \cup {j[2]}]

CheckPackage(acc, j, files, nobrokendeps) ==
  IF j \notin Job THEN acc
  ELSE IF files[j] \cap {"log", "err"} = {} THEN
    LET here == [acc EXCEPT !.absent0 = @ \/ j[1] = 0,
                            !.absent01 = @ \/ j[1] <= 1,
                            !.nodeps9 = @ /\ j[1] = 9]
    IN  NotPresent([here EXCEPT !.queue = IF MayBuild(here, j, files)
                                          THEN Append(@, j) ELSE @], j)
  ELSE IF nobrokendeps /\ "err" \in files[j] THEN NotPresent(acc, j)
  ELSE acc

\* The i-th line read, all stages counted through.
LineRead(i) == <<(i - 1) \div NPkg, ((i - 1) % NPkg) + 1>>

\* What it carries after each line.
Scanning(files, nobrokendeps) ==
  LET after[i \in 0 .. 10 * NPkg] ==
        IF i = 0 THEN ScanStart
        ELSE CheckPackage(after[i - 1], LineRead(i), files, nobrokendeps)
  IN  after

Scan(files, nobrokendeps) == Scanning(files, nobrokendeps)[10 * NPkg].queue

-----------------------------------------------------------------------------
\* What the scan computes.

Before(j, k) == j[1] < k[1] \/ (j[1] = k[1] /\ j[2] < k[2])

Pending(j, files) == files[j] \cap {"log", "err"} = {}

MissingNotTestingErr(j, files, nobrokendeps) ==
  Pending(j, files) \/ nobrokendeps
Missing(j, files, nobrokendeps) ==
  Pending(j, files) \/ (nobrokendeps /\ "err" \in files[j])

\* Everything the scan has found missing before it reads j.
MissingBefore(j, files, nobrokendeps) ==
  {k \in Job : Before(k, j) /\ Missing(k, files, nobrokendeps)}

OnlyStage9Pending(files) == \A k \in Job : Pending(k, files) => k[1] = 9

Buildable(j, files, nobrokendeps) ==
  LET missing == MissingBefore(j, files, nobrokendeps) IN
  /\ Pending(j, files)
  /\ "out" \notin files[j]
  /\ \/ missing = {}
     \/ /\ j[1] = 9 /\ OnlyStage9Pending(files)
        /\ j[2] \notin {k[2] : k \in missing} \cup T2Debug

NextJobAny(files, nobrokendeps) ==
  {j \in Job : Buildable(j, files, nobrokendeps)}
\* The one job Build-Target gets (-single), as a set with at most one member.
NextJob(files, nobrokendeps) ==
  {j \in Job : /\ Buildable(j, files, nobrokendeps)
               /\ \A k \in Job : Before(k, j) => ~Buildable(k, files, nobrokendeps)}
=============================================================================
