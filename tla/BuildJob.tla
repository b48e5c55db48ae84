------------------------------ MODULE BuildJob ------------------------------
(***************************************************************************)
(* scripts/Build-Job: jobs of one build taken by processes on many hosts.  *)
(*                                                                         *)
(* The hosts share a directory.  For each job that may be built the master *)
(* node puts down a <job>.job file (a shell script) and a <job>.todo file  *)
(* and a line in queue.txt; the master is not in this repository.  A       *)
(* daemon reads queue.txt again and again and calls a worker for the first *)
(* job with a .job and without a .lock; a worker can also be called by     *)
(* hand.  The worker claims the job by renaming its .todo to .lock, builds *)
(* it, and removes .lock and .job.                                         *)
(***************************************************************************)
EXTENDS Naturals, Sequences, FiniteSets

CONSTANTS
  Job,         \* the jobs the master may put down
  Daemon,      \* the daemons
  Caller,      \* workers called by hand, or by another job scheduler
  NoJob,       \* not a job
  MaxCrashes   \* bound: workers and hosts that die

Proc == Daemon \cup Caller

ASSUME BuildJobAssumption == /\ Daemon \cap Caller = {}
                             /\ NoJob \notin Job
                             /\ MaxCrashes \in Nat

VARIABLES
  queue,     \* the lines of queue.txt
  open,      \* whether queue.txt and use_build_job_daemon are there
  jobs, todo, lock,  \* the jobs with a .job, .todo, .lock file
  stat,      \* the daemons with a .stat file
  pc,        \* pc[p]: where the process, with its worker, is
  line,      \* line[d]: the line of queue.txt a daemon is at
  cur,       \* cur[p]: the job of the worker
  begun,     \* begun[j]: how many times the build of j was begun (a history)
  built,     \* the jobs whose build has ended, well or not (a history)
  crashes

vars == <<queue, open, jobs, todo, lock, stat, pc, line, cur, begun, built, crashes>>

master == <<queue, open>>
history == <<begun, built, crashes>>

\* A worker between the rename and the removal of the .lock
Holding == {"claimed", "building", "unlock"}
Working == {"start", "claim", "rmjob"} \cup Holding
Scanning == {"loop", "scan", "seen"}

TypeOK == /\ queue \in Seq(Job) /\ open \in BOOLEAN
          /\ jobs \subseteq Job /\ todo \subseteq Job /\ lock \subseteq Job
          /\ stat \subseteq Daemon
          /\ pc \in [Proc -> {"off"} \cup Scanning \cup Working]
          /\ line \in [Proc -> Nat \ {0}]
          /\ \A d \in Daemon : pc[d] = "seen" => line[d] <= Len(queue)
          /\ cur \in [Proc -> Job \cup {NoJob}]
          /\ \A p \in Proc : pc[p] \in Working => cur[p] \in Job
          /\ begun \in [Job -> Nat] /\ built \subseteq Job
          /\ crashes \in Nat

Init == /\ queue = << >> /\ open = TRUE
        /\ jobs = {} /\ todo = {} /\ lock = {} /\ stat = {}
        /\ pc = [p \in Proc |-> "off"]
        /\ line = [p \in Proc |-> 1]
        /\ cur = [p \in Proc |-> NoJob]
        /\ begun = [j \in Job |-> 0] /\ built = {}
        /\ crashes = 0

Posted == {queue[i] : i \in DOMAIN queue}

-----------------------------------------------------------------------------
\* The master node.

Post(j) == /\ open /\ j \notin Posted
           /\ queue' = Append(queue, j)
           /\ jobs' = jobs \cup {j} /\ todo' = todo \cup {j}
           /\ UNCHANGED <<open, lock, stat, pc, line, cur, history>>

RemoveQueue == /\ open
               /\ open' = FALSE
               /\ UNCHANGED <<queue, jobs, todo, lock, stat, pc, line, cur, history>>

\* Somebody removes the daemon's .stat file, to stop it.
RemoveStat(d) == /\ d \in stat
                 /\ stat' = stat \ {d}
                 /\ UNCHANGED <<master, jobs, todo, lock, pc, line, cur, history>>

-----------------------------------------------------------------------------
\* Build-Job -daemon

GoesTo(p, where) == pc' = [pc EXCEPT ![p] = where]

StartDaemon(d) == /\ pc[d] = "off" /\ open
                  /\ stat' = stat \cup {d}
                  /\ GoesTo(d, "loop")
                  /\ UNCHANGED <<master, jobs, todo, lock, line, cur, history>>

GoesOnWithStat(d) == d \in stat
GoesOn(d) == open /\ d \in stat

FirstLineZero == 0
FirstLine == 1

OpenQueue(d) == /\ pc[d] = "loop" /\ GoesOn(d)
                /\ line' = [line EXCEPT ![d] = FirstLine]
                /\ GoesTo(d, "scan")
                /\ UNCHANGED <<master, jobs, todo, lock, stat, cur, history>>

EndDaemon(d) == /\ pc[d] = "loop" /\ ~GoesOn(d)
                /\ stat' = stat \ {d}
                /\ GoesTo(d, "off")
                /\ UNCHANGED <<master, jobs, todo, lock, line, cur, history>>

Read(d) == queue[line[d]]

\* The last line has been read; sleep 3.
EndOfQueue(d) == /\ pc[d] = "scan" /\ line[d] > Len(queue)
                 /\ GoesTo(d, "loop")
                 /\ UNCHANGED <<master, jobs, todo, lock, stat, line, cur, history>>

\* [ -f $qdir/$qid.job -a ! -f $qdir/$qid.lock ]
SeesJob(d) == /\ pc[d] = "scan" /\ line[d] <= Len(queue)
              /\ Read(d) \in jobs
              /\ GoesTo(d, "seen")
              /\ UNCHANGED <<master, jobs, todo, lock, stat, line, cur, history>>

NextLineForgotten(d) == line' = line
NextLine(d) == line' = [line EXCEPT ![d] = @ + 1]

PassesLine(d) == /\ \/ /\ pc[d] = "scan" /\ line[d] <= Len(queue)
                       /\ Read(d) \notin jobs
                    \/ pc[d] = "seen" /\ Read(d) \in lock
                 /\ NextLine(d)
                 /\ GoesTo(d, "scan")
                 /\ UNCHANGED <<master, jobs, todo, lock, stat, cur, history>>

CallsWorker(d) == /\ pc[d] = "seen" /\ Read(d) \notin lock
                  /\ cur' = [cur EXCEPT ![d] = Read(d)]
                  /\ GoesTo(d, "start")
                  /\ UNCHANGED <<master, jobs, todo, lock, stat, line, history>>

-----------------------------------------------------------------------------
\* Build-Job <job>, called by a daemon or by hand

CalledByHand(c, j) == /\ pc[c] = "off"
                      /\ cur' = [cur EXCEPT ![c] = j]
                      /\ GoesTo(c, "start")
                      /\ UNCHANGED <<master, jobs, todo, lock, stat, line, history>>

WorkerEnds(p) == /\ GoesTo(p, IF p \in Daemon THEN "loop" ELSE "off")
                 /\ cur' = [cur EXCEPT ![p] = NoJob]

FindsJob(p) == /\ pc[p] = "start" /\ cur[p] \in jobs
               /\ GoesTo(p, "claim")
               /\ UNCHANGED <<master, jobs, todo, lock, stat, line, cur, history>>

NoSuchJob(p) == /\ pc[p] = "start" /\ cur[p] \notin jobs
                /\ WorkerEnds(p)
                /\ UNCHANGED <<master, jobs, todo, lock, stat, line, history>>

MvUnchecked(p) == TRUE
\* mv $qdir/$qid.todo $qdir/$qid.lock
MvSucceeds(p) == cur[p] \in todo

MvAsRm(p) == todo' = todo \ {cur[p]} /\ lock' = lock
MvAsCp(p) == todo' = todo /\ lock' = lock \cup {cur[p]}
Mv(p) == todo' = todo \ {cur[p]} /\ lock' = lock \cup {cur[p]}

Claim(p) == /\ pc[p] = "claim" /\ MvSucceeds(p)
            /\ Mv(p)
            /\ GoesTo(p, "claimed")
            /\ UNCHANGED <<master, jobs, stat, line, cur, history>>

LockedByOther(p) == /\ pc[p] = "claim" /\ ~MvSucceeds(p)
                    /\ WorkerEnds(p)
                    /\ UNCHANGED <<master, jobs, todo, lock, stat, line, history>>

\* The .job file is read, the .lock file written (anew) and the build begun.
Begin(p) == /\ pc[p] = "claimed"
            /\ lock' = lock \cup {cur[p]}
            /\ begun' = [begun EXCEPT ![cur[p]] = @ + 1]
            /\ GoesTo(p, "building")
            /\ UNCHANGED <<master, jobs, todo, stat, line, cur, built, crashes>>

BuildEnds(p) == /\ pc[p] = "building"
                /\ built' = built \cup {cur[p]}
                /\ GoesTo(p, "unlock")
                /\ UNCHANGED <<master, jobs, todo, lock, stat, line, cur, begun, crashes>>

RemoveLockForgotten(p) == /\ pc[p] = "unlock"
                          /\ GoesTo(p, "rmjob")
                          /\ UNCHANGED <<master, jobs, todo, lock, stat, line, cur, history>>
\* rm -f $qdir/$qid.lock $qdir/$qid.job
RemoveLock(p) == /\ pc[p] = "unlock"
                 /\ lock' = lock \ {cur[p]}
                 /\ GoesTo(p, "rmjob")
                 /\ UNCHANGED <<master, jobs, todo, stat, line, cur, history>>

RemoveJob(p) == /\ pc[p] = "rmjob"
                /\ jobs' = jobs \ {cur[p]}
                /\ WorkerEnds(p)
                /\ UNCHANGED <<master, todo, lock, stat, line, history>>

-----------------------------------------------------------------------------
\* The worker is killed, or leaves in the middle of the build; or its host
\* goes down.  No file is removed.

Crash == crashes < MaxCrashes /\ crashes' = crashes + 1

WorkerDies(p) == /\ pc[p] \in Working /\ Crash
                 /\ WorkerEnds(p)
                 /\ UNCHANGED <<master, jobs, todo, lock, stat, line, begun, built>>

HostDies(p) == /\ pc[p] # "off" /\ Crash
               /\ GoesTo(p, "off")
               /\ cur' = [cur EXCEPT ![p] = NoJob]
               /\ UNCHANGED <<master, jobs, todo, lock, stat, line, begun, built>>

-----------------------------------------------------------------------------
WorkerStep(p) == \/ FindsJob(p) \/ NoSuchJob(p) \/ Claim(p) \/ LockedByOther(p)
                 \/ Begin(p) \/ BuildEnds(p) \/ RemoveLock(p) \/ RemoveJob(p)

DaemonStep(d) == \/ OpenQueue(d) \/ EndDaemon(d) \/ EndOfQueue(d)
                 \/ SeesJob(d) \/ PassesLine(d) \/ CallsWorker(d)

Next == \/ \E j \in Job : Post(j)
        \/ RemoveQueue
        \/ \E d \in Daemon : RemoveStat(d) \/ StartDaemon(d) \/ DaemonStep(d)
        \/ \E c \in Caller, j \in Job : CalledByHand(c, j)
        \/ \E p \in Proc : WorkerStep(p) \/ WorkerDies(p) \/ HostDies(p)

Spec == Init /\ [][Next]_vars

\* A process that runs goes on, and builds end.  Nobody has to start or to
\* call anything.
FairSpec == /\ Spec
            /\ \A d \in Daemon : WF_vars(DaemonStep(d))
            /\ \A p \in Proc : WF_vars(WorkerStep(p))

-----------------------------------------------------------------------------
(* Properties *)

\* "Job locked by other build proc": no job is built by two at a time, although
\* the daemons test and claim in two steps (Build-Job:80,99).
OneBuilder ==
  \A p, q \in Proc :
    p # q /\ pc[p] \in Holding /\ pc[q] \in Holding => cur[p] # cur[q]

\* No job is begun twice: not by a worker that saw the .job file before the
\* one who builds it removed it, not after a crash (Build-Job:98,99,118).
BegunOnce == \A j \in Job : begun[j] <= 1

\* A job in work is seen as locked, from the claim to the end of the build,
\* and what is claimed or built cannot be claimed again.
LockedWhileHeld ==
  \A p \in Proc : pc[p] \in Holding => cur[p] \in lock /\ cur[p] \notin todo

\* Without a crash no job is lost: it waits to be claimed, some worker has it,
\* or it has been built; no .lock outlives its worker to hide a job.
NoJobLost ==
  crashes = 0 =>
    /\ \A j \in Posted : \/ j \in todo /\ j \in jobs
                         \/ \E p \in Proc : pc[p] \in Holding /\ cur[p] = j
                         \/ j \in built
    /\ \A j \in lock : \E p \in Proc : pc[p] \in Holding /\ cur[p] = j

\* A posted job gets built while there is one daemon nobody stops, as long as
\* no worker dies (a .lock left behind would keep every daemon off).
JobsGetBuilt ==
  \A j \in Job, d \in Daemon :
    (j \in Posted /\ d \in stat) ~> (j \in built \/ ~open \/ d \notin stat)

\* "Queue has been removed. exit now."
DaemonsLeave == ~open ~> \A d \in Daemon : pc[d] = "off"
=============================================================================
