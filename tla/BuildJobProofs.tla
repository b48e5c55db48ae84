--------------------------- MODULE BuildJobProofs ---------------------------
(***************************************************************************)
(* Build-Job: one builder per job, and one build per job, for any number   *)
(* of jobs, daemons and workers, and whichever of them die.                *)
(***************************************************************************)
EXTENDS BuildJob, TLAPS

\* Whatever is claimed has been posted, so that nothing is posted over it.
OnlyPosted ==
  /\ todo \subseteq Posted
  /\ \A j \in Job : begun[j] > 0 => j \in Posted
  /\ \A p \in Proc : pc[p] \in Holding => cur[p] \in Posted

\* A job that can still be claimed, or has just been, has not been begun.
FreshUntilBegun ==
  /\ \A j \in todo : begun[j] = 0
  /\ \A p \in Proc : pc[p] = "claimed" => begun[cur[p]] = 0

Safe == OneBuilder /\ BegunOnce /\ LockedWhileHeld /\ OnlyPosted /\ FreshUntilBegun

IInv == TypeOK /\ Safe

\* The jobs posted, before and after a new line is appended.
LEMMA PostedAppend ==
  ASSUME TypeOK, NEW j \in Job, queue' = Append(queue, j)
  PROVE  Posted' = Posted \cup {j}
<1>1. queue \in Seq(Job)
  BY DEF TypeOK
<1>2. DOMAIN queue' = 1 .. Len(queue) + 1 /\ DOMAIN queue = 1 .. Len(queue)
  BY <1>1
<1>3. \A i \in 1 .. Len(queue) : queue'[i] = queue[i]
  BY <1>1
<1>4. queue'[Len(queue) + 1] = j
  BY <1>1
<1>5. Len(queue) \in Nat
  BY <1>1
<1>6. \A x \in Posted' : x \in Posted \cup {j}
  BY <1>2, <1>3, <1>4, <1>5 DEF Posted
<1>7. \A x \in Posted : x \in Posted'
  BY <1>2, <1>3, <1>5 DEF Posted
<1>8. j \in Posted'
  BY <1>2, <1>4, <1>5 DEF Posted
<1> QED
  BY <1>6, <1>7, <1>8

LEMMA PostedKept == ASSUME UNCHANGED queue PROVE Posted' = Posted
BY DEF Posted

LEMMA InitInv == Init => IInv
<1> SUFFICES ASSUME Init PROVE IInv
  OBVIOUS
<1>1. TypeOK
  <2>1. \A p \in Proc : pc[p] = "off" /\ cur[p] = NoJob /\ line[p] = 1
    BY DEF Init
  <2>2. \A d \in Daemon : pc[d] # "seen"
    BY <2>1 DEF Proc
  <2>3. \A p \in Proc : pc[p] \notin Working
    BY <2>1 DEF Working, Holding
  <2>4. /\ queue \in Seq(Job) /\ begun \in [Job -> Nat] /\ crashes \in Nat
        /\ line \in [Proc -> Nat \ {0}]
    BY DEF Init
  <2>5. /\ pc \in [Proc -> {"off"} \cup Scanning \cup Working]
        /\ cur \in [Proc -> Job \cup {NoJob}]
    BY DEF Init
  <2>6. /\ open \in BOOLEAN /\ stat \subseteq Daemon /\ built \subseteq Job
        /\ jobs \subseteq Job /\ todo \subseteq Job /\ lock \subseteq Job
    BY DEF Init
  <2> QED
    BY <2>2, <2>3, <2>4, <2>5, <2>6 DEF TypeOK
<1>2. OneBuilder /\ LockedWhileHeld
  BY DEF Init, OneBuilder, LockedWhileHeld, Holding
<1>3. BegunOnce
  BY DEF Init, BegunOnce
<1>4. OnlyPosted /\ FreshUntilBegun
  BY DEF Init, OnlyPosted, FreshUntilBegun, Holding
<1> QED
  BY <1>1, <1>2, <1>3, <1>4 DEF IInv, Safe

\* Every step keeps the types.
LEMMA TypeStep ==
  ASSUME TypeOK, [Next]_vars
  PROVE  TypeOK'
<1> USE BuildJobAssumption DEF TypeOK, vars, master, history, Proc, Working,
     Holding, Scanning
<1>1. ASSUME NEW j \in Job, Post(j) PROVE TypeOK'
  <2>1. queue' \in Seq(Job) /\ Len(queue') = Len(queue) + 1 /\ Len(queue) \in Nat
    BY <1>1 DEF Post
  <2> QED
    BY <1>1, <2>1 DEF Post
<1>2. CASE RemoveQueue
  BY <1>2 DEF RemoveQueue
<1>3. ASSUME NEW d \in Daemon, RemoveStat(d) PROVE TypeOK'
  BY <1>3 DEF RemoveStat
<1>4. ASSUME NEW d \in Daemon, StartDaemon(d) PROVE TypeOK'
  BY <1>4 DEF StartDaemon, GoesTo
<1>5. ASSUME NEW d \in Daemon, OpenQueue(d) PROVE TypeOK'
  BY <1>5 DEF OpenQueue, FirstLine, GoesTo
<1>6. ASSUME NEW d \in Daemon, EndDaemon(d) PROVE TypeOK'
  BY <1>6 DEF EndDaemon, GoesTo
<1>7. ASSUME NEW d \in Daemon, EndOfQueue(d) PROVE TypeOK'
  BY <1>7 DEF EndOfQueue, GoesTo
<1>8. ASSUME NEW d \in Daemon, SeesJob(d) PROVE TypeOK'
  BY <1>8 DEF SeesJob, GoesTo
<1>9. ASSUME NEW d \in Daemon, PassesLine(d) PROVE TypeOK'
  <2>1. line' \in [Proc -> Nat \ {0}]
    BY <1>9 DEF PassesLine, NextLine
  <2>2. pc' \in [Proc -> {"off"} \cup Scanning \cup Working] /\ pc'[d] = "scan"
    BY <1>9 DEF PassesLine, GoesTo
  <2>3. \A p \in Proc : pc'[p] \in Working => cur'[p] \in Job
    BY <1>9, <2>2 DEF PassesLine, GoesTo
  <2>4. UNCHANGED <<queue, open, jobs, todo, lock, stat, cur, begun, built, crashes>>
    BY <1>9 DEF PassesLine
  <2>5. \A e \in Daemon : pc'[e] = "seen" => e # d /\ line'[e] = line[e] /\ pc[e] = "seen"
    BY <1>9, <2>2 DEF PassesLine, NextLine, GoesTo
  <2>6. \A e \in Daemon : pc'[e] = "seen" => line'[e] <= Len(queue')
    BY <2>4, <2>5
  <2> HIDE DEF Working, Holding, Scanning, Proc
  <2> QED
    BY <2>1, <2>2, <2>3, <2>4, <2>6
<1>10. ASSUME NEW d \in Daemon, CallsWorker(d) PROVE TypeOK'
  <2>1. Read(d) \in Job
    <3>1. queue \in Seq(Job) /\ line[d] \in Nat \ {0}
      OBVIOUS
    <3>2. line[d] <= Len(queue)
      BY <1>10 DEF CallsWorker
    <3> QED
      BY <3>1, <3>2 DEF Read
  <2> QED
    BY <1>10, <2>1 DEF CallsWorker, GoesTo
<1>11. ASSUME NEW c \in Caller, NEW j \in Job, CalledByHand(c, j) PROVE TypeOK'
  BY <1>11 DEF CalledByHand, GoesTo
<1>12. ASSUME NEW p \in Proc, FindsJob(p) PROVE TypeOK'
  BY <1>12 DEF FindsJob, GoesTo
<1>13. ASSUME NEW p \in Proc, NoSuchJob(p) PROVE TypeOK'
  BY <1>13 DEF NoSuchJob, WorkerEnds, GoesTo
<1>14. ASSUME NEW p \in Proc, Claim(p) PROVE TypeOK'
  BY <1>14 DEF Claim, Mv, MvSucceeds, GoesTo
<1>15. ASSUME NEW p \in Proc, LockedByOther(p) PROVE TypeOK'
  BY <1>15 DEF LockedByOther, WorkerEnds, GoesTo
<1>16. ASSUME NEW p \in Proc, Begin(p) PROVE TypeOK'
  BY <1>16 DEF Begin, GoesTo
<1>17. ASSUME NEW p \in Proc, BuildEnds(p) PROVE TypeOK'
  BY <1>17 DEF BuildEnds, GoesTo
<1>18. ASSUME NEW p \in Proc, RemoveLock(p) PROVE TypeOK'
  BY <1>18 DEF RemoveLock, GoesTo
<1>19. ASSUME NEW p \in Proc, RemoveJob(p) PROVE TypeOK'
  BY <1>19 DEF RemoveJob, WorkerEnds, GoesTo
<1>20. ASSUME NEW p \in Proc, WorkerDies(p) PROVE TypeOK'
  BY <1>20 DEF WorkerDies, Crash, WorkerEnds, GoesTo
<1>21. ASSUME NEW p \in Proc, HostDies(p) PROVE TypeOK'
  BY <1>21 DEF HostDies, Crash, GoesTo
<1>22. CASE UNCHANGED vars
  BY <1>22
<1> HIDE DEF TypeOK, vars
<1> QED
  BY <1>1, <1>2, <1>3, <1>4, <1>5, <1>6, <1>7, <1>8, <1>9, <1>10, <1>11, <1>12,
       <1>13, <1>14, <1>15, <1>16, <1>17, <1>18, <1>19, <1>20, <1>21, <1>22
     DEF Next, DaemonStep, WorkerStep

\* Every step keeps one builder and one build per job.
LEMMA SafeStep ==
  ASSUME IInv, TypeOK', [Next]_vars
  PROVE  Safe'
<1> USE BuildJobAssumption DEF IInv, TypeOK, Safe, OneBuilder, BegunOnce,
     LockedWhileHeld, OnlyPosted, FreshUntilBegun, vars, master, history, Proc,
     Working, Holding, Scanning
<1>1. ASSUME NEW j \in Job, Post(j) PROVE Safe'
  <2>1. Posted' = Posted \cup {j}
    BY <1>1, PostedAppend DEF Post
  <2>2. begun[j] = 0
    BY <1>1 DEF Post
  <2> QED
    BY <1>1, <2>1, <2>2 DEF Post
<1>2. CASE RemoveQueue
  BY <1>2, PostedKept DEF RemoveQueue
<1>3. ASSUME NEW d \in Daemon, RemoveStat(d) PROVE Safe'
  BY <1>3, PostedKept DEF RemoveStat
<1>4. ASSUME NEW d \in Daemon, StartDaemon(d) PROVE Safe'
  BY <1>4, PostedKept DEF StartDaemon, GoesTo
<1>5. ASSUME NEW d \in Daemon, OpenQueue(d) PROVE Safe'
  BY <1>5, PostedKept DEF OpenQueue, FirstLine, GoesTo
<1>6. ASSUME NEW d \in Daemon, EndDaemon(d) PROVE Safe'
  BY <1>6, PostedKept DEF EndDaemon, GoesTo
<1>7. ASSUME NEW d \in Daemon, EndOfQueue(d) PROVE Safe'
  BY <1>7, PostedKept DEF EndOfQueue, GoesTo
<1>8. ASSUME NEW d \in Daemon, SeesJob(d) PROVE Safe'
  BY <1>8, PostedKept DEF SeesJob, GoesTo
<1>9. ASSUME NEW d \in Daemon, PassesLine(d) PROVE Safe'
  BY <1>9, PostedKept DEF PassesLine, GoesTo, NextLine
<1>10. ASSUME NEW d \in Daemon, CallsWorker(d) PROVE Safe'
  BY <1>10, PostedKept DEF CallsWorker, GoesTo, Read
<1>11. ASSUME NEW c \in Caller, NEW j \in Job, CalledByHand(c, j) PROVE Safe'
  BY <1>11, PostedKept DEF CalledByHand, GoesTo
<1>12. ASSUME NEW p \in Proc, FindsJob(p) PROVE Safe'
  BY <1>12, PostedKept DEF FindsJob, GoesTo
<1>13. ASSUME NEW p \in Proc, NoSuchJob(p) PROVE Safe'
  BY <1>13, PostedKept DEF NoSuchJob, WorkerEnds, GoesTo
<1>14. ASSUME NEW p \in Proc, Claim(p) PROVE Safe'
  BY <1>14, PostedKept DEF Claim, Mv, MvSucceeds, GoesTo
<1>15. ASSUME NEW p \in Proc, LockedByOther(p) PROVE Safe'
  BY <1>15, PostedKept DEF LockedByOther, WorkerEnds, GoesTo
<1>16. ASSUME NEW p \in Proc, Begin(p) PROVE Safe'
  BY <1>16, PostedKept DEF Begin, GoesTo
<1>17. ASSUME NEW p \in Proc, BuildEnds(p) PROVE Safe'
  BY <1>17, PostedKept DEF BuildEnds, GoesTo
<1>18. ASSUME NEW p \in Proc, RemoveLock(p) PROVE Safe'
  BY <1>18, PostedKept DEF RemoveLock, GoesTo
<1>19. ASSUME NEW p \in Proc, RemoveJob(p) PROVE Safe'
  BY <1>19, PostedKept DEF RemoveJob, WorkerEnds, GoesTo
<1>20. ASSUME NEW p \in Proc, WorkerDies(p) PROVE Safe'
  BY <1>20, PostedKept DEF WorkerDies, Crash, WorkerEnds, GoesTo
<1>21. ASSUME NEW p \in Proc, HostDies(p) PROVE Safe'
  BY <1>21, PostedKept DEF HostDies, Crash, GoesTo
<1>22. CASE UNCHANGED vars
  BY <1>22, PostedKept
<1> HIDE DEF IInv, TypeOK, Safe, vars
<1> QED
  BY <1>1, <1>2, <1>3, <1>4, <1>5, <1>6, <1>7, <1>8, <1>9, <1>10, <1>11, <1>12,
       <1>13, <1>14, <1>15, <1>16, <1>17, <1>18, <1>19, <1>20, <1>21, <1>22
     DEF Next, DaemonStep, WorkerStep

\* The invariant holds in every behaviour.
THEOREM Invariance == Spec => []IInv
<1>1. IInv /\ [Next]_vars => IInv'
  BY TypeStep, SafeStep DEF IInv
<1> QED
  BY InitInv, <1>1, PTL DEF Spec

\* What a worker gives up has been built; and without a crash no job is lost.
EndedBuilt == \A p \in Proc : pc[p] \in {"unlock", "rmjob"} => cur[p] \in built

\* A job that is not lost: it waits, is in work, or has been built.
Waits(j) == j \in todo /\ j \in jobs
InWork(j) == \E p \in Proc : pc[p] \in Holding /\ cur[p] = j
Kept == /\ \A j \in Posted : Waits(j) \/ InWork(j) \/ j \in built
        /\ \A j \in lock : InWork(j)

\* A step of p that only changes its place, and not whether it holds a job,
\* keeps all this.
Moves(p) ==
  /\ pc[p] \notin Holding /\ pc'[p] \notin Holding \cup {"rmjob"}
  /\ \A q \in Proc \ {p} : pc'[q] = pc[q] /\ cur'[q] = cur[q]
  /\ UNCHANGED <<queue, jobs, todo, lock, built>>

LEMMA MovesKeep ==
  ASSUME NEW p \in Proc, Moves(p), EndedBuilt
  PROVE  EndedBuilt' /\ (Kept => Kept')
<1>1. Posted' = Posted
  BY PostedKept DEF Moves
<1>2. \A q \in Proc : pc[q] \in Holding => pc'[q] \in Holding /\ cur'[q] = cur[q]
  BY DEF Moves
<1>3. \A j : InWork(j) => InWork(j)'
  BY <1>2 DEF InWork
<1>4. EndedBuilt'
  BY DEF EndedBuilt, Moves, Holding
<1>5. Kept => Kept'
  BY <1>1, <1>3 DEF Kept, Waits, Moves
<1> QED
  BY <1>4, <1>5

\* Every step keeps the jobs.
LEMMA KeptStep ==
  ASSUME TypeOK, EndedBuilt, [Next]_vars
  PROVE  EndedBuilt' /\ (crashes' = 0 => crashes = 0 /\ (Kept => Kept'))
<1> DEFINE Goal == EndedBuilt' /\ (crashes' = 0 => crashes = 0 /\ (Kept => Kept'))
<1>0. /\ pc \in [Proc -> {"off"} \cup Scanning \cup Working]
      /\ cur \in [Proc -> Job \cup {NoJob}] /\ crashes \in Nat
      /\ Daemon \subseteq Proc /\ Caller \subseteq Proc
  BY DEF TypeOK, Proc
<1> USE DEF master, history
<1>1. ASSUME NEW j \in Job, Post(j) PROVE Goal
  <2>1. Posted' = Posted \cup {j}
    BY <1>1, PostedAppend DEF Post
  <2>2. UNCHANGED <<pc, cur, lock, built, crashes>> /\ jobs' = jobs \cup {j} /\ todo' = todo \cup {j}
    BY <1>1 DEF Post
  <2> QED
    BY <2>1, <2>2 DEF EndedBuilt, Kept, Waits, InWork
<1>2. CASE RemoveQueue
  <2>1. UNCHANGED <<queue, pc, cur, jobs, todo, lock, built, crashes>>
    BY <1>2 DEF RemoveQueue
  <2> QED
    BY <2>1, PostedKept DEF EndedBuilt, Kept, Waits, InWork
<1>3. ASSUME NEW d \in Daemon, RemoveStat(d) PROVE Goal
  <2>1. UNCHANGED <<queue, pc, cur, jobs, todo, lock, built, crashes>>
    BY <1>3 DEF RemoveStat
  <2> QED
    BY <2>1, PostedKept DEF EndedBuilt, Kept, Waits, InWork
<1>4. ASSUME NEW d \in Daemon, StartDaemon(d) PROVE Goal
  <2>1. Moves(d) /\ crashes' = crashes
    BY <1>4, <1>0 DEF StartDaemon, GoesTo, Moves, Holding
  <2> QED
    BY <1>0, <2>1, MovesKeep
<1>5. ASSUME NEW d \in Daemon, OpenQueue(d) PROVE Goal
  <2>1. Moves(d) /\ crashes' = crashes
    BY <1>5, <1>0 DEF OpenQueue, GoesTo, Moves, Holding
  <2> QED
    BY <1>0, <2>1, MovesKeep
<1>6. ASSUME NEW d \in Daemon, EndDaemon(d) PROVE Goal
  <2>1. Moves(d) /\ crashes' = crashes
    BY <1>6, <1>0 DEF EndDaemon, GoesTo, Moves, Holding
  <2> QED
    BY <1>0, <2>1, MovesKeep
<1>7. ASSUME NEW d \in Daemon, EndOfQueue(d) PROVE Goal
  <2>1. Moves(d) /\ crashes' = crashes
    BY <1>7, <1>0 DEF EndOfQueue, GoesTo, Moves, Holding
  <2> QED
    BY <1>0, <2>1, MovesKeep
<1>8. ASSUME NEW d \in Daemon, SeesJob(d) PROVE Goal
  <2>1. Moves(d) /\ crashes' = crashes
    BY <1>8, <1>0 DEF SeesJob, GoesTo, Moves, Holding
  <2> QED
    BY <1>0, <2>1, MovesKeep
<1>9. ASSUME NEW d \in Daemon, PassesLine(d) PROVE Goal
  <2>1. Moves(d) /\ crashes' = crashes
    BY <1>9, <1>0 DEF PassesLine, NextLine, GoesTo, Moves, Holding
  <2> QED
    BY <1>0, <2>1, MovesKeep
<1>10. ASSUME NEW d \in Daemon, CallsWorker(d) PROVE Goal
  <2>1. Moves(d) /\ crashes' = crashes
    BY <1>10, <1>0 DEF CallsWorker, Read, GoesTo, Moves, Holding
  <2> QED
    BY <1>0, <2>1, MovesKeep
<1>11. ASSUME NEW c \in Caller, NEW j \in Job, CalledByHand(c, j) PROVE Goal
  <2>1. Moves(c) /\ crashes' = crashes
    BY <1>11, <1>0 DEF CalledByHand, GoesTo, Moves, Holding
  <2> QED
    BY <1>0, <2>1, MovesKeep
<1>12. ASSUME NEW p \in Proc, FindsJob(p) PROVE Goal
  <2>1. Moves(p) /\ crashes' = crashes
    BY <1>12, <1>0 DEF FindsJob, GoesTo, Moves, Holding
  <2> QED
    BY <2>1, MovesKeep
<1>13. ASSUME NEW p \in Proc, NoSuchJob(p) PROVE Goal
  <2>1. Moves(p) /\ crashes' = crashes
    BY <1>13, <1>0 DEF NoSuchJob, WorkerEnds, GoesTo, Moves, Holding
  <2> QED
    BY <2>1, MovesKeep
<1>14. ASSUME NEW p \in Proc, LockedByOther(p) PROVE Goal
  <2>1. Moves(p) /\ crashes' = crashes
    BY <1>14, <1>0 DEF LockedByOther, WorkerEnds, GoesTo, Moves, Holding
  <2> QED
    BY <2>1, MovesKeep
<1>15. ASSUME NEW p \in Proc, Claim(p) PROVE Goal
  <2>1. /\ pc[p] = "claim" /\ pc' = [pc EXCEPT ![p] = "claimed"]
        /\ todo' = todo \ {cur[p]} /\ lock' = lock \cup {cur[p]}
        /\ UNCHANGED <<queue, jobs, cur, built, crashes>>
    BY <1>15 DEF Claim, Mv, GoesTo
  <2>2. \A j : InWork(j) => InWork(j)'
    BY <1>0, <2>1 DEF InWork, Holding
  <2>3. InWork(cur[p])'
    BY <1>0, <2>1 DEF InWork, Holding
  <2> QED
    BY <1>0, <2>1, <2>2, <2>3, PostedKept DEF EndedBuilt, Kept, Waits
<1>16. ASSUME NEW p \in Proc, Begin(p) PROVE Goal
  <2>1. /\ pc[p] = "claimed" /\ pc' = [pc EXCEPT ![p] = "building"]
        /\ lock' = lock \cup {cur[p]}
        /\ UNCHANGED <<queue, jobs, todo, cur, built, crashes>>
    BY <1>16 DEF Begin, GoesTo
  <2>2. \A j : InWork(j) => InWork(j)'
    BY <1>0, <2>1 DEF InWork, Holding
  <2>3. InWork(cur[p])'
    BY <1>0, <2>1 DEF InWork, Holding
  <2> QED
    BY <1>0, <2>1, <2>2, <2>3, PostedKept DEF EndedBuilt, Kept, Waits
<1>17. ASSUME NEW p \in Proc, BuildEnds(p) PROVE Goal
  <2>1. /\ pc[p] = "building" /\ pc' = [pc EXCEPT ![p] = "unlock"]
        /\ built' = built \cup {cur[p]}
        /\ UNCHANGED <<queue, jobs, todo, lock, cur, crashes>>
    BY <1>17 DEF BuildEnds, GoesTo
  <2>2. \A j : InWork(j) => InWork(j)'
    BY <1>0, <2>1 DEF InWork, Holding
  <2> QED
    BY <1>0, <2>1, <2>2, PostedKept DEF EndedBuilt, Kept, Waits
<1>18. ASSUME NEW p \in Proc, RemoveLock(p) PROVE Goal
  <2>1. /\ pc[p] = "unlock" /\ pc' = [pc EXCEPT ![p] = "rmjob"]
        /\ lock' = lock \ {cur[p]}
        /\ UNCHANGED <<queue, jobs, todo, cur, built, crashes>>
    BY <1>18 DEF RemoveLock, GoesTo
  <2>2. \A j : j # cur[p] /\ InWork(j) => InWork(j)'
    BY <1>0, <2>1 DEF InWork, Holding
  <2>3. cur[p] \in built
    BY <2>1 DEF EndedBuilt
  <2> QED
    BY <1>0, <2>1, <2>2, <2>3, PostedKept DEF EndedBuilt, Kept, Waits
<1>19. ASSUME NEW p \in Proc, RemoveJob(p) PROVE Goal
  <2>1. /\ pc[p] = "rmjob" /\ pc'[p] \in {"loop", "off"}
        /\ \A q \in Proc \ {p} : pc'[q] = pc[q] /\ cur'[q] = cur[q]
        /\ jobs' = jobs \ {cur[p]}
        /\ UNCHANGED <<queue, todo, lock, built, crashes>>
    BY <1>19, <1>0 DEF RemoveJob, WorkerEnds, GoesTo
  <2>2. \A j : InWork(j) => InWork(j)'
    BY <1>0, <2>1 DEF InWork, Holding
  <2>3. cur[p] \in built
    BY <2>1 DEF EndedBuilt
  <2> QED
    BY <1>0, <2>1, <2>2, <2>3, PostedKept DEF EndedBuilt, Kept, Waits
<1>20. ASSUME NEW p \in Proc, WorkerDies(p) PROVE Goal
  <2>1. /\ pc'[p] \in {"loop", "off"} /\ crashes' = crashes + 1 /\ built' = built
        /\ \A q \in Proc \ {p} : pc'[q] = pc[q] /\ cur'[q] = cur[q]
    BY <1>20, <1>0 DEF WorkerDies, WorkerEnds, Crash, GoesTo
  <2> QED
    BY <1>0, <2>1 DEF EndedBuilt
<1>21. ASSUME NEW p \in Proc, HostDies(p) PROVE Goal
  <2>1. /\ pc'[p] \in {"loop", "off"} /\ crashes' = crashes + 1 /\ built' = built
        /\ \A q \in Proc \ {p} : pc'[q] = pc[q] /\ cur'[q] = cur[q]
    BY <1>21, <1>0 DEF HostDies, Crash, GoesTo
  <2> QED
    BY <1>0, <2>1 DEF EndedBuilt
<1>22. CASE UNCHANGED vars
  BY <1>22, PostedKept DEF vars, EndedBuilt, Kept, Waits, InWork
<1> QED
  BY <1>1, <1>2, <1>3, <1>4, <1>5, <1>6, <1>7, <1>8, <1>9, <1>10, <1>11, <1>12,
     <1>13, <1>14, <1>15, <1>16, <1>17, <1>18, <1>19, <1>20, <1>21, <1>22
     DEF Next, DaemonStep, WorkerStep

-----------------------------------------------------------------------------
(* The theorems *)

\* The types of the variables.
THEOREM TypeCorrect == Spec => []TypeOK
<1>1. IInv => TypeOK
  BY DEF IInv
<1> QED
  BY Invariance, <1>1, PTL

\* No job is built by two workers at a time (Build-Job:99).
THEOREM MutualExclusion == Spec => []OneBuilder
<1>1. IInv => OneBuilder
  BY DEF IInv, Safe
<1> QED
  BY Invariance, <1>1, PTL

\* No job is begun twice, whichever workers and hosts die (Build-Job:98,99).
THEOREM AtMostOnce == Spec => []BegunOnce
<1>1. IInv => BegunOnce
  BY DEF IInv, Safe
<1> QED
  BY Invariance, <1>1, PTL

\* A job in work is locked (Build-Job:99,118).
THEOREM HeldIsLocked == Spec => []LockedWhileHeld
<1>1. IInv => LockedWhileHeld
  BY DEF IInv, Safe
<1> QED
  BY Invariance, <1>1, PTL

\* Without a crash every posted job waits, is in work or has been built, and a
\* .lock belongs to a job in work (Build-Job:99,118).
THEOREM NothingLost == Spec => []NoJobLost
<1> DEFINE Inv == IInv /\ EndedBuilt /\ (crashes = 0 => Kept)
<1>1. Init => Inv
  <2> SUFFICES ASSUME Init PROVE EndedBuilt /\ Kept
    BY InitInv
  <2>1. Posted = {} /\ lock = {} /\ \A p \in Proc : pc[p] = "off"
    BY DEF Init, Posted
  <2> QED
    BY <2>1 DEF EndedBuilt, Kept
<1>2. Inv /\ [Next]_vars => Inv'
  BY TypeStep, SafeStep, KeptStep DEF IInv
<1>3. Inv => NoJobLost
  BY DEF NoJobLost, Kept, Waits, InWork
<1> QED
  BY <1>1, <1>2, <1>3, PTL DEF Spec
=============================================================================
