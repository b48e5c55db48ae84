------------------------------ MODULE FlStparse -----------------------------
(***************************************************************************)
(* misc/tools-source/fl_stparse.c: the names of the files that a traced    *)
(* build has opened, from the lines strace has written.                    *)
(*                                                                         *)
(* The lines give names relative to where the process was then, so the     *)
(* program follows the working directory of every process, in a table by   *)
(* process number, and it does so later, when directories may be gone.     *)
(* The processes, and which lines strace writes of them, are external: a   *)
(* fork is reported by its parent when it returns, which may be after the  *)
(* first lines of the child, and a process that is killed has no last      *)
(* line.                                                                   *)
(***************************************************************************)
EXTENDS Integers, SequencesExt, FiniteSets

CONSTANTS Pid, First,    \* process numbers, the first process traced
          Dir,           \* directories: sequences of names
          Start,         \* where the first process was when tracing began
          ParserStart,   \* where the program is started
          MAXPROCS       \* 512 in the source

ASSUME FlStparseAssumption == /\ First \in Pid /\ Start \in Dir /\ ParserStart \in Dir
                              /\ <<>> \in Dir /\ MAXPROCS \in Nat \ {0}
                              /\ 0 \notin Pid

VARIABLES
  dirOf,     \* of each process: where it is, or None
  forking,   \* the <<parent, child>> whose line is still to come
  gone,      \* directories that are gone when the program runs
  procs,     \* the table: procs[c] = [pid, cwd]
  mycwd,     \* where the program is
  logged,    \* the last name logged: in what directory, and which was meant
  sound,     \* processes whose directory the lines determine
  exit_code  \* "running", "exit(1)"

kernel == <<dirOf, forking, gone>>
fl_stparse_vars == <<kernel, procs, mycwd, logged, sound, exit_code>>

None == <<"none">>
Slot == 0 .. MAXPROCS - 1
Free == [pid |-> 0, cwd |-> None]
Alive == {p \in Pid : dirOf[p] # None}
Blocked == {f[1] : f \in forking}

\* Where chdir(t) leads from d, t absolute or relative; if there is no such
\* directory, chdir() fails and leaves things as they are.
Name == UNION {{d[i] : i \in DOMAIN d} : d \in Dir}
Target == [abs : {TRUE}, dir : Dir] \cup [abs : {FALSE}, dir : {<<n>> : n \in Name \cup {".."}}]
Resolve(d, t) == IF t.abs THEN t.dir
                 ELSE IF t.dir # <<"..">> THEN d \o t.dir
                 ELSE IF d = <<>> THEN <<>> ELSE Front(d)
Chdir(d, t, there) == IF Resolve(d, t) \in there THEN Resolve(d, t) ELSE d

-----------------------------------------------------------------------------
(* The table.                                                              *)

SlotsOf(pid) == {c \in Slot : procs[c].pid = pid}
\* The loops stop at the first slot; slots of no process have the number 0.
FirstSlot(pid) == CHOOSE c \in SlotsOf(pid) : \A d \in SlotsOf(pid) : c <= d

\* No second entry: not even one of a killed process, or one still to come.
Single(p) == Cardinality(SlotsOf(p)) = 1 /\ \A f \in forking : f[2] # p

Fails == /\ exit_code' = "exit(1)" /\ UNCHANGED <<procs, mycwd, logged>>

newprocHere(pid, cwd) ==
  IF SlotsOf(0) = {} THEN Fails
  ELSE /\ procs' = [procs EXCEPT ![FirstSlot(0)] = [pid |-> pid, cwd |-> mycwd]]
       /\ UNCHANGED <<mycwd, logged, exit_code>>
newproc(pid, cwd) ==
  IF SlotsOf(0) = {} THEN Fails
  ELSE /\ procs' = [procs EXCEPT ![FirstSlot(0)] = [pid |-> pid, cwd |-> cwd]]
       /\ UNCHANGED <<mycwd, logged, exit_code>>

freeproc(pid) ==
  IF SlotsOf(pid) = {} THEN Fails
  ELSE /\ procs' = [procs EXCEPT ![FirstSlot(pid)] = Free]
       /\ UNCHANGED <<mycwd, logged, exit_code>>

-----------------------------------------------------------------------------
FlStparseInit ==
  /\ dirOf = [p \in Pid |-> IF p = First THEN Start ELSE None]
  /\ forking = {} /\ gone \in SUBSET (Dir \ {<<>>, ParserStart})
  /\ procs = [c \in Slot |-> IF c = 0 THEN [pid |-> First, cwd |-> ParserStart] ELSE Free]
  /\ mycwd = ParserStart
  /\ logged = [dir |-> None, meant |-> None, sound |-> FALSE]
  /\ sound = IF Start = ParserStart THEN {First} ELSE {}
  /\ exit_code = "running"

\* A process forks (external); nothing is written yet.  The number may be one
\* that a killed process had, if its own fork has been reported since.
Fork(p, c) == /\ p \in Alive \ Blocked /\ c \notin Alive
              /\ \A f \in forking : f[2] # c
              /\ dirOf' = [dirOf EXCEPT ![c] = dirOf[p]]
              /\ forking' = forking \cup {<<p, c>>}
              /\ sound' = IF p \in sound /\ SlotsOf(c) = {} THEN sound \cup {c} ELSE sound \ {c}
              /\ UNCHANGED <<gone, procs, mycwd, logged, exit_code>>

\* A process is killed (external): no line.
Kill(p) == /\ p \in Alive \ Blocked
           /\ \A f \in forking : f[2] # p
           /\ dirOf' = [dirOf EXCEPT ![p] = None] /\ sound' = sound \ {p}
           /\ UNCHANGED <<forking, gone, procs, mycwd, logged, exit_code>>

\* "fork() = ", "vfork() = " and "<... fork resumed> ) = ".
ForkLine(p, c) == /\ <<p, c>> \in forking
                  /\ forking' = forking \ {<<p, c>>}
                  /\ IF SlotsOf(p) = {} THEN Fails ELSE newproc(c, procs[FirstSlot(p)].cwd)
                  /\ UNCHANGED <<dirOf, gone, sound>>

\* "_exit(" and "exit_group(".
ExitLine(p) == /\ p \in Alive \ Blocked
               /\ dirOf' = [dirOf EXCEPT ![p] = None] /\ sound' = sound \ {p}
               /\ freeproc(p)
               /\ UNCHANGED <<forking, gone>>

\* "chdir(", also one that failed.  The program goes there itself, from the
\* directory of the process; it does not look whether it can.
ChdirLine(p, t) ==
  LET there == Dir \ gone
      from == procs[FirstSlot(p)].cwd
      at == IF from \in there THEN from ELSE mycwd
      to == Resolve(dirOf[p], t)
  IN /\ p \in Alive \ Blocked
     /\ dirOf' = [dirOf EXCEPT ![p] = Chdir(@, t, Dir)]
     /\ sound' = IF to \in gone \/ (dirOf[p] \in gone /\ ~t.abs) THEN sound \ {p}
                 ELSE IF t.abs /\ to \in Dir /\ Single(p) THEN sound \cup {p} ELSE sound
     /\ IF SlotsOf(p) = {} THEN Fails
        ELSE /\ mycwd' = Chdir(at, t, there)
             /\ procs' = [procs EXCEPT ![FirstSlot(p)].cwd = mycwd']
             /\ UNCHANGED <<logged, exit_code>>
     /\ UNCHANGED <<forking, gone>>

\* "open(", "mkdir(", "link(" and so on with a relative name, which is logged
\* with the directory in front.  (An absolute one is logged as it is.)
NameLine(p) == /\ p \in Alive \ Blocked
               /\ IF SlotsOf(p) = {} THEN Fails
                  ELSE /\ logged' = [dir |-> procs[FirstSlot(p)].cwd, meant |-> dirOf[p], sound |-> p \in sound]
                       /\ UNCHANGED <<procs, mycwd, exit_code>>
               /\ UNCHANGED <<kernel, sound>>

FlStparseNext == /\ exit_code = "running"
                 /\ \/ \E p, c \in Pid : Fork(p, c) \/ ForkLine(p, c)
                    \/ \E p \in Pid : Kill(p) \/ ExitLine(p) \/ NameLine(p)
                    \/ \E p \in Pid, t \in Target : ChdirLine(p, t)

FlStparseSpec == FlStparseInit /\ [][FlStparseNext]_fl_stparse_vars
-----------------------------------------------------------------------------
Known(p) == SlotsOf(p) # {} /\ \A f \in forking : f[2] # p

\* A name is logged where the process really was: if the process, or one it
\* descends from, has been followed from the start or from an absolute chdir
\* on, none of its directories is gone, and its number is not one of a process
\* that was killed.
LoggedWhereItWas == logged.sound => logged.dir = logged.meant

\* The same of every entry, so that it holds of the next name too.
TableSound == \A p \in sound \cap Alive : Known(p) => procs[FirstSlot(p)].cwd = dirOf[p]

\* The table loses no process, and fills with no others than those that live or
\* were killed: the program stops only if a child's line comes before its
\* parent's, or for lack of slots.
NoneLost == exit_code = "running" =>
              \A p \in Alive : SlotsOf(p) # {} \/ \E f \in forking : f[2] = p
=============================================================================
