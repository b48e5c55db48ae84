# TLA+ models of the T2 build system

T2 (t2-trunk) is a system for building Linux distributions from source.  A
configuration says which packages are built and in which stages; shell scripts
under `scripts/` build the tools, download the sources, work out the order of
the jobs, build every package in a sandbox and make binary packages and a
database of them.  Everything that lasts is a file: the scripts are started,
killed, started again, on one or on several hosts, and decide from the files
alone what is left to do.  That protocol of files is the first thing this project
models.  The second are the programs in C and C++ of the repository: those that
the scripts use (dialogs, wrappers, readers of file lists), those that a built
system gets (boot log, bonding, remote shell), and the Lua that `misc/luabash`
builds into the shell.

The modules are translated from the sources as they are; where a comment or a
help text of the repository says something else, a run shows the difference
(see *Findings*), or a paragraph says it.

## 1. Inventory

| Component | State it keeps | Operations | Hard behaviour | What makes it correct |
|---|---|---|---|---|
| **Create-PkgQueue** (`scripts/Create-PkgQueue`) | flags carried from line to line of one scan | scan all packages stage by stage, print the jobs that may be built | the flags are set and tested for the same line; failed jobs may or may not count as missing | offers only jobs whose predecessors have ended, never one in work, always something when something is left |
| **Build-Target** (`scripts/Build-Target`, `functions.in`, `target/generic/build.sh`) | `var/adm/logs/*.{log,err,out}`, `TOOLCHAIN/pkgs`, `packages.db` | clean-up, build loop, `-job`, background compression, wait, database | runs killed anywhere, restarts that see only files, background processes that outlive the run, abort limits compared in three places | order of jobs, no later stage on a failed early one, end means done, database complete |
| **Build-Pkg** (`scripts/Build-Pkg`) | the job's three log files, `var/adm/*/<pkg>`, `var/adm/cache` | remove old files, two runs of itself, pipeline of build and log, register, verdict, build time | `abort()` in a pipeline does not stop the script; Ctrl-C reaches each process differently | `.log` exactly for a build that succeeded and was registered; the exit status says the same |
| **Build-Job** (`scripts/Build-Job`) | a shared directory: `queue.txt`, `.job .todo .lock .stat` files | daemon loop, claim, build, clean up; the master node is external | many hosts, test and claim in separate steps, workers that die | one builder per job, one build per job, every job built, daemons leave |
| **Download** (`scripts/Download`) | the archive, source, `.incomplete`, `.cksum-err`, `.extck-err`, `.lock` files | fetch (mirror, origin, resume), type check, checksum, recompress | the lock is tested and set in two steps, Ctrl-C only removes the lock, kills between any two files | what a build takes was checked and is whole; error files are about bad files; no lock is left |
| **Build-Tools** (`scripts/Build-Tools`) | the tools directory, `.lastupdate` | decide whether out of date, rebuild | two builds at a time, rebuild broken off | never uses half-built tools |
| **fl_wrapper** (`misc/tools-source/fl_wrapper.c.sh`, `fl_wrapper_execl.c`) | log of a process | wrap every call that changes a file; bring the calls of exec together | variable arguments, search along PATH | every argument arrives, the first program that runs is run |
| **fl_wrparse, fl_stparse** (`misc/tools-source`) | the directory read into; a table of processes | read file names, read traces | lines of several processes interleave, forks are reported late, processes are killed, the table is full | the file meant, and no other |
| **cmd_wrapper** (`misc/tools-source/cmd_wrapper.c`) | its environment, argument vector | insert, remove, append arguments; run the next program | runs wrappers that run it again | every argument of the user's arrives, each other program runs once, in order, and the command does |
| **bash_profiler** | list of times | start, stop | nested and repeated starts | the sum is the time spent |
| **confdialog** (`misc/confdialog`) | what the window shows, the scroll position, a buffer of the file | keys | nothing is redrawn but what changes; half-buffers read forward and back; state kept from an earlier call | what is on the screen is the list, or the lines of the file |
| **PkgGraph** (`source/dependency.cc`) | priorities in a graph | recursive priority, drawing | circles, names without a package | the length of the longest path where there is one |
| **UpdateList** (`source/UpdateList.cc`, `Curl.hh`, `desc-parser.hh`) | a temporary file, the package at hand | fetch listings, compare versions | every exit status of curl, one object for all packages | newer versions found, every download reported once |
| **rc, btee** (`package/base/sysvinit`, `sysfiles`) | a pipe, a buffer, the log | run an init script, copy its output | daemons keep the pipe, the log is not writable at first | the log is what was printed; btee leaves |
| **xctrld, tcp-client, ccat, cdromchk** (`misc/archive`) | connection and pipes | relay, copy | two loops around select(), a shell that ends, processes that do not | bytes in order, none twice |
| **ifenslave** (`package/network/ifenslave`) | the bond and its slaves in the kernel | enslave, release, change | each of a dozen calls may fail; three ABIs | one address in the bond, a slave is complete or as it was |
| **Formats** (`serpnp.c`, `modemuncher.c`, `tokenize.c`, `lzlib.c`, `ipnm2nwbc.c`) | — | functions | ends of buffers | what a writer wrote is read |
| **Lua** (`misc/luabash/lua`) | tables, objects and their colours, calls of every coroutine | table access, collector steps, compiling, calls, errors | the collector stops anywhere; nodes move; jumps wait for their targets; errors cut through C calls and coroutines | nothing in use is freed; a table is a map; code means the source; a caught error leaves the caller as it was |
| **luabash** (`misc/luabash/bash`) | one Lua stack for both languages | shell calls Lua, Lua calls shell | they nest | arguments and results belong to their call |
| **posix binding, Download.cc** | none | one system call each; prints | — | — |
| **Hooks, variable helpers** (`scripts/functions.in`) | hook arrays, variables | `hook_add`, `hook_eval`, `var_append` | textual order of numbers | order of priority |
| **Emerge-Pkg** | sets of packages to install | closure over dependencies | circles | equals the closure |
| **Config** | configuration variables | menu, rules | — | — |
| **Reports, ISO creation, source maintenance** | none that lasts | text in, text out | — | — |
| **Recipes, architectures, targets** | data | — | — | — |

How they interact.  Build-Target calls Create-PkgQueue before every job and
Build-Pkg for it; they share `var/adm/logs`.  Build-Pkg calls Build-Tools at its
start, and runs the package's recipe, which goes through cmd_wrapper and
fl_wrapper.  Download fills the directory Build-Pkg takes archives from, before
or in a build.  Build-Job runs jobs the master has put down, each of them a
`Build-Target -job`.  Emerge-Pkg calls Build-Pkg for installed packages.  Config
asks its questions through confdialog.  cmd_wrapper and fl_wrapper stand between
a build and the programs it calls, fl_wrparse and fl_stparse make of what they
noted the list of the package's files.  UpdateList reads the package
descriptions.  The programs of the built system and the Lua interpreter share
nothing with the scripts: each runs in processes of its own.

## 2. Modules

| Module | Models | Lines of the code |
|---|---|---|
| `PkgQueue` | the scan (`Scan`), and what it amounts to without a scan (`Buildable`, `NextJob`) | Create-PkgQueue 46-189 |
| `BuildTarget` (extends `PkgQueue`) | the build loop, job runs, kills and restarts | Build-Target 71-327, functions.in, Build-Pkg where it touches the job's files |
| `BuildTargetMC` | small distributions | |
| `BuildPkg` | one package build | Build-Pkg 60-981 |
| `JobVerdict` | abstract: what Build-Pkg promises about the job's files and its exit status | |
| `BuildJob` | daemons and workers on a shared queue | Build-Job 20-122 |
| `Download` | `download_file`, `download_file_now`, `cksum_chk` for one file and several processes | Download 218-240, 316-691 |
| `BuildTools` | the stamp, the removal and the rebuild of the tools by several calls | Build-Tools 38-398 |
| `ListCursor`, `LineViewer` | abstract: a cursor in a list; a pager on the lines of a file | |
| `Widget`, `Menubox`, `Checklist`, `Inputbox`, `Textbox`, `Confdialog` | the dialogs, key by key | misc/confdialog |
| `FlFunctions`, `FlStparse` | exec functions and file names; traces | misc/tools-source/fl_\*.c |
| `CmdWrapper`, `BashProfiler` | the chain of wrappers; the profiler | cmd_wrapper.c, bash_profiler.c |
| `PkgGraph` | priorities and picture | source/dependency.cc |
| `UpdateCheck` | comparison of versions; the check of all packages | source/UpdateList.cc, Curl.hh, \*-parser.hh |
| `BootLog` | rc, the script and its daemons, btee | rc.c, btee.c |
| `Relay` | xctrld and tcp-client with what is between them; copying | misc/archive |
| `Ifenslave` | each ioctl() of the program and its roll-back | ifenslave.c |
| `Formats` | functions of five readers | serpnp.c, modemuncher.c, tokenize.c, lzlib.c, ipnm2nwbc.c |
| `ProgramsMC` | all these, one per behaviour, and one run of the scan on every state of the log directory | |
| `LuaMap` | abstract: a map that may be traversed while it is changed | |
| `LuaTable`, `LuaGC` | the table; the collector | ltable.c, lgc.c, lfunc.c, lstring.c |
| `LuaText`, `LuaScope`, `LuaCode`, `LuaChunk` | from text to code: words, names, jumps, precompiled chunks | llex.c, lparser.c, lcode.c, ldebug.c, ldump.c, lundump.c, lzio.c |
| `LuaCall`, `LuaLib`, `LuaBash` | calls, errors, coroutines; the library; the bridge to the shell | ldo.c, lbaselib.c, lstrlib.c, ltablib.c, luabash.c |
| `LuaMC` | the parts of Lua, one per behaviour | |
| `PkgQueueProofs`, `BuildTargetProofs`, `BuildJobProofs`, `DownloadProofs`, `BuildToolsProofs` | theorems about the scripts | |
| `ShellProofs` | theorems about Build-Pkg, luabash and the calls of Lua | |
| `ToolProofs` | lemmas about the programs of `ProgramsMC`, one invariant for each | |
| `ProgramsProofs` | theorems about `ProgramsMC`, from these | |

**PkgQueue.**  A job is a pair of stage and line of the packages file; `files[j]`
is which of its `.log`, `.err` and `.out` are in `var/adm/logs`.  `Scan` folds
`CheckPackage` over the lines read, with the record `acc` for the awk variables
`not_present`, `stage_0_missing` and the like.  The dependency database is never
filled by the code (the reading is commented out), so "no dependency known, all
packages before it" is the only branch.

**BuildTarget.**  `pc` is the place of the one script; each step that changes a
file is an action (`RemoveErr`, `RemoveOut`, the Build-Pkg steps, `.err` written
by the loop, a compression begun and ended).  `own` are the compressions of this
run, `orphans` those a killed run has left behind: the script's pipe into `tee`
keeps it from ending before its own, but a kill does not take them along.  The
job comes from `NextJob` of `PkgQueue`, which `OffersInTurn` ties to the scan, and
`ScanIsBuildable` proves to be the first job it prints.  `denied` is a history: this run has met a Build-Pkg that did nothing.

**BuildPkg.**  The script starts itself a second time (and a third, for the build
time); `pc = "start"` is the first, `"config"` the second before the pipeline,
`"cache"` the outer one that takes the time.  In the pipeline `pc` follows the
left side, `right` says whether the right side still reads.  `"finish"` is the
ending up to the rename of `.out` (964, 977), `"verdict"` from there to the exit
status (967, 980).  `AdmOrder` is the
order in which the files of the package in `var/adm` are written, `md5clear`
the emptying of the checksums before they are written anew.  `adm`, `aborted`
and `trapped` are what the properties ask for.  A Ctrl-C may come at every `pc` but
`"ended"`: at `"start"`, `"config"`, `"finish"` and `"verdict"` the script dies of it
(and an outer one goes on with its build time, since time(1) ignores it), in the
pipeline it sets the trap off, at `"cache"` it kills the outer script with the verdict
already there.

**BuildJob.**  `jobs`, `todo`, `lock` and `stat` are the files by their suffix.
The rename of `.todo` to `.lock` is the one atomic step (`Mv`); everything else,
the two tests of a daemon too, is a step of its own.  The master (`Post`,
`RemoveQueue`) and the administrator (`RemoveStat`) are external.

**Download.**  A file has a base name (`gz` for what the URL holds, `bz` for the
archive; one and the same for `.zst`) and a suffix; its content is none, empty, a
part, good or bad.  Each program the script calls is a step, the compressor
three.  A decompressor or a compressor may fail (`DecompressFails`,
`CompressFails`) and the script goes on with what was written, as it does after a
Ctrl-C.  Two histories: `raced`, two processes have held the lock at a time, which
the test and set of the lock file cannot rule out; `cut`, which of the two kinds of
program has ended before its work was done.

**BuildTools.**  `tool[t]` is the version of the source tree a tool was built
from, `stamp` the file `.lastupdate`, `newer` the answer of `find -newer`.  The
tools of `wrapper/` are put in place by a rename; `tmp[p]` is the file call `p`
has not renamed yet, which another call's clean-up of that directory sweeps away.
The lines of the `pkg_*.conf` files (`conf`) are appended in place.  Histories say
what a property must exempt: `raced`, two calls have worked at the same time;
`spoilt`, a clean-up was killed or met another call's work; `missed`, a source
file was changed while tools were built.  Assumed: fl_wrapper makes the file
lists, and `SDEDEBUG_TOOLS_SKIP` is not set.

**Dialogs.**  `screen` is what the window shows, and no action assigns it the whole
list: as in the code a key paints the rows that come in and those whose mark
changes.  `MenuFaithful`, `CheckFaithful`, `InputFaithful` and `TextFaithful` say
that it shows all the same what a complete repaint would.  In the text box
`view` is the buffer's place in the file, how much was read and the reading
pointer; the file is any sequence of bytes and line ends up to `MaxFile`.  `scrltmp`
is the number an earlier call has left in `confdialog.scrltmp`, of the same list
or another.  `IsListCursor` is the refinement of menu and lists to a cursor in a list,
`TextBoxRight` that of the text box to a pager on lines (`LineViewer`).

**FlStparse.**  `dirOf` is where the kernel has each process, `procs` what the table
says.  Lines come in the order strace writes them: `forking` are the forks whose
line is still to come.  `sound` are the processes whose directory the lines
written so far determine; of those every name must be logged where it was.

**CmdWrapper.**  A step is one pass through `main()`; `wpc` says what runs next.
`PassesLeft` counts what is still to come; `WrapperEnds` says each pass lowers it.

**PkgGraph.**  The stack of `GetPriority()` is the variable `stack`.  The graphs are
all those of up to `MaxNodes` packages with up to `MaxDeps` dependencies each,
circles and unknown names among them.

**BootLog, Relay.**  Each `read()`, `write()`, `open()` and each end of a process is a
step; a daemon writes between any two.

**Ifenslave.**  `epc` names the next ioctl(); each may fail, `MaxFail` times in all.
Histories: `failures` counts them, `undone` notes that the roll-back has taken
back an address another slave has.

**LuaTable, LuaMap.**  `tab.node` is the vector with its `next` fields and `lastfree`
the pointer into it; the map is what it holds.  The traversal is `next()`, with
assignments to existing keys between its steps.

**LuaGC.**  Each step of `singlestep()`, each barrier and each assignment of the
program is an action; `mark` are the colours, with two whites.  What a marking
comes to is the least set closed under the references it follows (`Reached`), so that
the order of the lists does not show.  `wasted` notes the use of a freed object.  The collector may run whenever the program can
allocate; the sizes that trigger it are left out.

**LuaCode.**  A function, of statements, is compiled by operators with the names of
those in `lparser.c` and `lcode.c` into `lua_code`: expressions, local variables,
assignments to several variables, blocks, functions that take a variable, all loops,
`break`, `return`.  `fs` is the `FuncState`, and `fs.sound` says whether every
`lua_assert()` held.  The code is then run on the instructions of `lvm.c`, for all
arguments and all values it may read, and compared with what the source means
(`ExecAll`, written without a thought of registers; where a function has `exact` FALSE,
nil and false are not told apart, see section 6): how it ended, what it returned, the
global, the table, what the closures hold, and at the end which local variables are
active and what their registers hold.  It is given to the checker of `ldebug.c`, and at
each operand the name an error message would give it is compared with its value.

**LuaCall.**  `running` are the threads on the C stack, `ci` the calls of each; an
error takes away calls until the one that catches it.

Some operators, as `CksumUnchecked` or `RefillShort`, are used by no other
definition: they are mutated forms of the definition after them, and
`PROJECT.json` names the property each of them violates.

## 3. Runs

All runs set `CHECK_DEADLOCK FALSE`: a script that has ended, and a bound on
starts, kills or calls that is used up, are legitimate ends.

| Run | Instance | Shows |
|---|---|---|
| `build_target` | 4 packages on both sides of the limit, loop runs: 3 starts, 2 kills anywhere | order, abort rules, complete database, verdicts kept from run to run |
| `build_target_live` | 2 packages, `RETRY_BROKEN`, `NOBROKENDEPS`, type `gem`, loop and job runs: 3 starts, 1 kill | every run ends; a loop run that ends has done its work |
| `build_target_job` | 2 packages, job runs, 2 starts | violation: a Build-Pkg that did nothing, and the package packed from the `.log` of the run before |
| `build_pkg` | build time, `-norebuild`, 2 Ctrl-C at any step of the inner and the outer run | implements `JobVerdict`; success only when registered; abort never lost; the note of the build time agrees with the exit status; ends |
| `build_pkg_sigint` | 1 Ctrl-C | violation: an aborted build reported as success |
| `build_job` | 2 daemons, 1 caller, 2 jobs, 1 death of a worker or host | one builder, one build, locked while held, no job lost without a death |
| `build_job_live` | the same without deaths | jobs get built, daemons leave |
| `download` | 2 processes, 3 calls, mirror, failing decompressors and compressors, 1 Ctrl-C, 1 kill | the archive was checked, and is whole unless a compressor was cut short; error files are about bad files when no program was; locks are freed; the source is given up only for a whole archive, as `.cksum-err`, or after a compressor was cut short |
| `download_sigint` | 1 process, 3 calls, 1 Ctrl-C | violation: a good file noted as bad |
| `build_tools` | 2 calls, each any number of times, 1 change of the sources, 1 kill, 1 failure | the stamp means whole and fresh tools; a race loses no renamed tool |
| `programs` | one program per behaviour, see below | windows show the list; names are found where they are; wrappers end; a package has a priority above what it depends on, circles among themselves apart; versions compare as meant but for two named cases; the log is whole; bonds are rolled back; the scan of the job queue prints exactly the buildable jobs, stage by stage, and never nothing while something is left |
| `lua` | one part per behaviour, see below | a table is a map; the collector frees nothing in use and finalizes once, and only what is out of reach; the code of the functions in `Source` means what they mean, up to nil and false where `exact` is FALSE and without `-true` and its like (`lcode.c` 548 and 702, section 6); chunks load; errors and coroutines leave their callers as they were |

Why these bounds are enough to meet the interesting cases.

* *Packages.*  The scan tells apart stage 0, stage 1, stages 2-8, stage 9,
  earlier lines, earlier stages of the same line and t2-debug.  `MCStages` in
  `ProgramsMC` has each of them, and a job before and after each.  In
  `BuildTargetMC` `ContinueOnErrorAfter` is 4 and the jobs are in stages 0, 2, 4
  (the limit itself), 5 and 9.
* *Runs and kills.*  What a restart finds is left by one killed run; a second
  killed run meets the leftovers of the first during its clean-up; the third
  start ends normally.
* *Ctrl-C.*  The first sets the trap's pending state, or kills the inner run; the
  second can hit the ending (before or after the rename) or the outer script.  Nothing
  counts beyond two.
* *Daemons and callers.*  Two daemons race at test and claim, the caller is a
  third claimant that has not tested; two jobs let one be passed over.
* *Downloads.*  Two calls at a time and a third that meets what they left; the
  programs may fail at every call.
* *Dialogs.*  Lists of up to 4 entries in windows of 1 to 3 rows scroll and do not;
  a file of 7 bytes with a buffer of 4 is read forward and back in overlapping
  halves, with lines that span two of them.
* *Traces.*  Two processes and a third slot in a table for three; directories that
  are gone when the trace is read.
* *Wrappers.*  Lists of others with none, one, two, one twice and one that is not
  installed; conditional words that meet what an earlier one inserted.
* *Graphs.*  Three packages are enough for a circle that is entered from outside,
  and for two paths of different length.
* *Boot log and relay.*  Texts longer than the buffer, so that a read ends within it,
  and the end mark falls on each place of a buffer.
* *Bonding.*  Three interfaces: the first sets the address, the second fails, the
  third meets what the roll-back has left; two failures put one into the roll-back.
* *Tables.*  Three indexes and two names with colliding places: chains of every
  shape in up to four nodes, both rehashes, indexes that move between the parts.
* *Collector.*  Up to two objects besides the globals and the stack: a black one that
  gets a white one, weak tables with collectable keys, a closure with an upvalue
  that closes, a finalizer that resurrects.
* *Code.*  Two operators with negations around operands of every kind, in each of
  five places (initial value, assignment, `if`, `while`, `repeat`): every way two jump
  lists can meet.  Comparisons and sums likewise.  Eight loops whose bodies take a
  variable into a closure, leave the loop and declare more variables in every
  combination, with up to three values to read, hence up to three rounds.  Assignments
  of up to three values to up to three of six variables, of which two are in a table
  whose name and keys are assigned to as well.  Variables without values at the start
  of a function, after each other and after jumps.  No function executes more than 128
  instructions (`MAXSTEPS`); one that did would fail `CodeRight`, not be cut off.
* *Scopes.*  Three functions deep, three blocks, two variables: an upvalue of an
  upvalue, and a block left by break from within another.
* *Calls.*  Two coroutines besides the main thread, one error function, a limit of 3
  for nested C calls: every kind of call below and above a resume.
* *Tools.*  A process calls again after each end, so that two processes give a
  race, and any number of later calls that meet what a broken one left behind.

## 4. Fairness

* `BuildTarget!FairSpec`: weak fairness of the script's next step and of each of
  its compressions.  The script is one sequential process, and the packages'
  builds and the compressors it waits for are assumed to end.  Starting a run,
  killing it and compressions of killed runs are not fair.
* `BuildPkg!FairSpec`: weak fairness of all but typing Ctrl-C.
* `BuildJob!FairSpec`: weak fairness of each daemon and each worker: the process
  runs on, and its build ends.  Nobody has to start a daemon, post a job, call a
  worker or remove the queue.
* `Download` has no liveness property: curl may be retried or wait without end.
* `BuildTools` has none: each call is straight-line code, and whether the next
  one repairs a broken one is what its safety properties ask.

* `programs` and `lua` have no fairness and no liveness property: that a wrapper
  chain ends is stated as a measure that each pass lowers (`WrapperEnds`), that
  btee leaves as what it will find (`WillLeave`).

## 5. What is proved

Constants are as the named assumptions say: any number of packages and any
stages for them (`PkgAssumption`), any limit and options (`ConfigAssumption`),
any sets of daemons and callers that have no member in common
(`BuildJobAssumption`), any bounds.  Of the programs: lists of strings for OTHERS,
and no program installed whose name is what `cmd_wrapper` cannot write into it
(`CmdWrapperAssumption`); no process numbered 0, which marks a free slot
(`FlStparseAssumption`); no NUL among the characters typed (`InputboxAssumption`);
interfaces that are named once each, and addresses other than the empty one
(`IfenslaveAssumption`, see *Findings* for why); error functions that are places on
the stack, not 0, a main thread that is no coroutine and a limit above 1
(`LuaCallAssumption`); the objects of Lua have one kind each (`LuaGCAssumption`).

**PkgQueueProofs.**  `NextJobIsFirstPending`: what the loop is given is the first
pending job, or one of stage 9 when only stage 9 is left.
`PendingIsOffered`: when nothing is in work, and a failed job does not count as
missing, something is offered as long as something is pending.
`EarlierStagesEnded`: a buildable job has nothing pending in earlier stages but,
with `-nobrokendeps`, in stage 9.  `ScanIsBuildable`: what the scan prints, line by
line with its flags carried on, is the list of the buildable jobs.  That takes an
induction over the lines and stages: the flags after each line are those of the
jobs before it, and if they were not, there would be a first line after which
they are not (`LeastNumber`).

**BuildTargetProofs.**  The inductive invariant `IInv` is `TypeOK` and `Safe`.  The
properties are not inductive alone: that a job in hand has only ended jobs before
it needs to be carried over every file the run touches in between, and that needs
`OutOnlyInWork` (an output file belongs to the job in hand once the clean-up is
over), `StartedJobPending`, `EarlyErrAborts` (between jobs there is no error up to
the limit: the three comparisons agree) and `DeniedAtEnd`.  One step per action,
and per conjunct the action disturbs (`SafeStep`).  From it: `TypeCorrect`,
`OrderKept`, `LaterStagesGated`, `DoneComplete`, `LogMeansRegistered`,
`VerdictsSurvive` (an action property), and `AbnormalEndStopsLoop` for
configurations without job runs (with them it is false, see below).
`PackagesAreComplete`, also without job runs, needs `PackInv` beside `IInv`: what the
job in work has at each place (`VerdictInv`), that every compression is of this run
and waited for (`CompressInv`), that a binary package, or one in the making, is of a
package whose last job has its `.log` and is not in work (`PackedBuilt`), and that such
a job has one unless the loop is not through with it (`BuiltPacked`).

**ShellProofs, Build-Pkg.**  `IInv` is `TypeOK` and `FilesInv`, which says what files there
are at each place (none before the pipeline, no `.err` in it, `.out`
all along, one file from the verdict on) and that `aborted` excludes `.log` from then on.  From it
`AbortIsFinal`, for any number of Ctrl-C, and `Implements`: Build-Pkg implements
`JobVerdict` (`PromiseStep` maps each action to a step or a stutter).  `phase` maps
the outer run, whose exit status is still to come, by the files: none, with `.out`, or a
verdict; that the verdict is decided before the status tells it, and that Build-Pkg may
die in between, is part of what `JobVerdict` says.  `AllInv` adds
how far the files of var/adm are at each place (`AdmInv`), that the left side of the
pipe leaves `.log` behind only when all are written (`LeftInv`), and that the build
time is noted last and as `BuildPkg` has ended (`CacheInv`); from it `CompleteOnSuccess` and `CacheIsHonest`.

**ShellProofs, Lua.**  `BashInv` says that the one stack of Lua is divided among the
calls in progress: each frame's function and arguments lie where the frame says, and
each frame above those before it (`Nested`).  What is pushed and returned in between
lies above them all, so that every call, however deep, still finds its own
(`BridgeHolds`).  `CallInv` is about the frames of each thread of Lua.  Every second
one is a function of Lua (`Frames`), a protected call remembers how many C calls and
which error function there were under it, and the counters agree with the frames
(`Agrees`).  That an error restores what its protected call remembered is then right
for any number of frames it cuts through.  Of the threads, those on the C stack but
the last wait in a resume, and all others rest: not begun, yielded, or dead.  The
error in flight goes to the error function of the thread that runs.  None of it is
inductive alone: a thread that is resumed must have counted right while it rested.
From it `CallsHold`, for any number of coroutines, error functions and nested calls.

`GCInv` is about the collector.  What is not dead refers to nothing dead, nor does
the stack (`LiveRefs`); the sweep has left the current white behind it, and what is
dead is still before it, open upvalues with their thread (`SweepInv`); while marking,
what is black has been traversed and refers to nothing white, and what is gray is on a
list, or needs none (`TriColour`).  The steps of the program keep it by the barriers
(`StoreInv`).  The step that matters is `atomic()`, which turns all white objects into
dead ones at once: `Stage` says of each of its five propagations that what is marked
has been traversed or is on one of the lists still to come, and `Ended` that none is
left at the end, so that what is marked refers to what is marked, and weak tables have
been cleared of the rest (`Cleared`).  From it `CollectorHolds` and `FinalizersOnce`;
for the second, what is still white when `luaC_separateudata()` runs is out of reach
of the program (`WhiteOutOfReach`), and it queues nothing else.  All this holds
for any numbers of objects of each kind and slots of the stack.

**BuildJobProofs.**  `IInv` adds to the properties `OnlyPosted` (a file of a job
means it was posted) and `FreshUntilBegun` (a job with a `.todo`, or claimed and
not yet begun, has not been begun): that the claim is of a job never begun is what
makes `BegunOnce` inductive.  From it `MutualExclusion`, `AtMostOnce`,
`HeldIsLocked`, for any number of hosts, workers and deaths.  `LockedWhileHeld` and
the type invariants are proved for every instance and not checked again by runs.
`NothingLost`, without crashes: every posted job waits, is in work or has been built
(`Kept`); it goes from the second to the third only because a worker gives up a job
after it has been built (`EndedBuilt`).

**BuildToolsProofs.**  `IInv` is `TypeOK` and `Alone`.  As long as no two calls
have worked at a time, one call at most is at work (`OneBusy`) and the lines of
`pkg_*.conf` are as far as its place says (`LinesSoFar`); when no clean-up was
spoilt either, what it has passed is built (`MadeSoFar`, `NotSwept`), the stamp is
gone while it builds (`StampTaken`) and, where it is, there are whole tools or a
clean-up that will remove it (`StampVouches`).  The last two need each other: a
stamp that outlived the start of the work would vouch for half-built tools.  From
it `StampIsHonest`, for any number of calls, changes, kills and failures.
`FreshSoFar` and `StampFresh` say the same of the version of the sources the tools
are built from, and give `StampIsFresh`.  When calls race, nothing of `Alone` is left;
`RaceInv` is what still holds: a clean-up has no other call beside it (`CleanAlone`),
what a call has passed is built (`MadeSoFar`), a call whose unfinished wrapper was swept
away finds a finished one (`MvSafe`), and the stamp vouches for whole tools or a clean-up
that takes it away
(`StampWhole`).  From it `WholeInRaces`.

**DownloadProofs.**  `IInv` is `TypeOK` and four parts.  `OneLocked`: as long as no
two calls have held the lock at a time, one process is between `WriteLock` and
`Unlock`; `LockHasOwner`: a lock file has such a process, unless one was killed.
`PlaceInv`: so what the owner relies on still holds when it acts (there is no
source where it fetches one, what it has decompressed is what is in the file or a
part a cut-off decompressor has written, what it compresses is good), through kills
and Ctrl-C.  `StoredInv` says where contents come from: the source is what the
server holds, the archive is that, or is being written, or is good, or is what a
failed compressor left (`Unfinished`), and may be bad only while somebody is on the
way to checking it (`Working`).  None is inductive without those before it.  From it
`LocksFreed`, `ArchiveVerified`, `CksumErrHonest` and the action property
`SourceSafe`, for any number of processes, calls, Ctrl-C, failing programs and
kills; `ArchiveVerified` and `CksumErrHonest` only while nothing was killed.

**ToolProofs, ProgramsProofs.**  One program runs in each behaviour of `ProgramsMC`
and no other takes a step (`OneProgram`), so that each has an invariant of its own.

* *Job queue.*  `PrintsBuildable` and `JobsInTurn`: `ScanIsBuildable` carried over to the
  program, for every state of the log directory.
* *Dialogs.*  `MenuInv` and `CheckInv` say that the window lies in the list, that the
  mark lies in the window, and that the rows on the screen were painted for just that
  scroll position and mark.  The step is `MenuMoves`: the rows that stay are moved, the
  others painted, and the result is what a whole repaint would give.  `InputInv`
  says that the buffer is empty from its end on and that each cell shows its byte.
  From them `ListsAndInput`, and `ImplementsListCursor`: every key moves the cursor of
  `ListCursor` or leaves it alone, in lists and windows of any size.
* *cmd_wrapper.*  `WrapperInv`: what OTHERS_DONE holds is a beginning of OTHERS, and
  the wrappers in it are those that have run.  So a pass leads on along OTHERS or is
  the last, and `PassesLeft` goes down (`WrapperComesToAnEnd`).
* *bprof.*  Each entry's sum, with the time since its start while it is started, is the
  time spent on its id so far.
* *fl_stparse.*  `StparseInv`: besides what is promised, a fork whose line is still to
  come is that of a process that waits for it, the child has no slot yet and is where
  its parent is.  Without that the line that makes the child's slot could not be
  known to be right.
* *ifenslave.*  `BondInv`.  `Places` says which calls an option and an ABI can come to,
  `ArgsLeft` and `AtFirst` what is as at the start.  `HasAddress`: an interface not
  read yet has an address, so that the bond is never given none.  `AddressOfBond`: what
  the roll-back and the next slave go by, `hwaddr_set` and the copy of the address,
  agrees with the bond at each call.  `Present`: how far the slave whose turn it is has
  come.  `AsBefore`: what has not become a slave is as it was.  `DoneSoFar`: those
  before it are complete.  That all slaves have one address (`OneAddressUnlessUndone`)
  rests on the middle three: only a slave that has got the bond's address is put in,
  and the address is taken back only from a bond without others, unless `undone`
  says so.

`StatefulToolsSound` brings the last three and the order of the wrappers together,
for any processes, directories, ids, wrappers, interfaces and numbers of failing calls.

**Only model-checked.**  Liveness (`RunEnds`, `Ends`, `JobsGetBuilt`,
`DaemonsLeave`): out of the prover's reach.  What recursive definitions compute: the
text box, whose lines and half-buffers are read by recursion (`TextBoxRight`), the
priorities of `PkgGraph` (`SourceToolsRight`), and all of Lua that compiles, counts
or traverses its tables (`LuaDataRight`, `CompilerRight`, `IsMap`), whose modules
declare recursive operators.  `UpdateCheck`, `BootLog`
and `Relay` (in `SourceToolsRight`, `TargetToolsRight`) fold over texts; their
properties, and the functions on formats and arguments, are checked on texts of the
length of their buffers and beyond.

## 6. Findings

1. `build_target_job`: the two `rm` commands of a job run (Build-Target 111-112)
   end in a stray quotation mark each and remove nothing; with the `.log` of
   an earlier run in place, a Build-Pkg that did nothing counts as a build, and the
   package is packed once more.
2. `build_pkg_sigint`: a Ctrl-C between the touch of `.log` and the end of the
   registration stops the registration, and the build is reported as a success.
3. `download_sigint`: the INT trap of Download does not exit; a Ctrl-C that hits
   the decompressor makes a good file `.cksum-err`, which blocks every later
   download of it.  So does a decompressor that fails by itself.

What a property must exempt says as much.  `VerifiedAtRest`, `PackagesComplete`
and `LoggedIsRegistered` are stated for runs without a kill, because one at the
wrong place leaves an archive that is not whole, a package without its binary
package, or a `.log` without registration, and no later run notices.
`VerifiedAtRest` and `SourceKept` also exempt a compressor that failed or met a
Ctrl-C: `$compressor < src/down.$$.dat > "$bzfile"; rm -f "$gzfile"` (Download 491,
501, 510, 518, 527, 536) looks at no status, so a full disk leaves a part of an
archive, removes the source, and every later call finds the archive there (332).
`CacheAgreesWithExit` says nothing of a Build-Pkg whose second run is denied, or dies,
before there is an `.err` file: its build time is noted without ERROR (Build-Pkg 314),
and `Emerge-Pkg` 176 does not see that the build was broken.
`WholeDespiteRace` leaves out the `pkg_*.conf` files: two calls that rebuild the
tools at a time both append to them and may leave lines twice.  `StampMeansFresh`
leaves out a change during the rebuild: `.lastupdate` is touched at its end, so
that the changed file is older and never found.  And for the type `tar.lzo`
Build-Target 259 assigns the compressor to a misspelt variable
(`comrpessor=lzop`), so that `archive` is `"bad"` for every package.

What else the modelling has met, in the code as it is modelled:

* `Create-PkgQueue` 137-138: "t2-debug must be build _after_ all other packages",
  but the test waits for the jobs scanned before it only; `base/99-final`, with a
  higher priority number, comes later.
* `xctrld.c`: the last output of a shell that has ended is lost, because
  `waitpid()` is asked first; the end of the connection makes the loop spin; a
  partial `write()` is repeated from the start of the buffer (`xctrld.c` 89,
  `tcp-client.c` 71).  The model takes `write()` as blocking until all is written.
* `btee.c` 85 writes its zero one byte behind a full buffer.
* `fl_stparse.c`: the child's lines before the line of its fork end the program;
  the first process is taken to be in the directory fl_stparse is started in.
* `fl_wrparse.c`: a name directly below "/" is not found (`chdir("")`).
* `cmd_wrapper.c`: INSERT and APPEND are applied again in every pass; what a failing
  FILTER has printed is used (396); a conditional REMOVE sees inserted arguments;
  a string is allocated one byte short (251).
* `UpdateList.cc` 251-263 tests the first version's suffix where the second's is
  meant, so that 1.0 is older than 1.0beta, and a number more than 100 away is "always
  lower" on both sides (111, 143); `CompareAsMeant` names these pairs
  (`TakenForOlder`) and says what the code makes of them; `Curl.hh` 63 replaces as many characters as there are before an "&" instead of
  one; its 67-91 compare curl's exit status with what `system()` returns, which is 256
  times as much, so that a timeout is never reported as one.
* `inputbox.c` 222-225: from the input line, Tab or Down selects Cancel but draws OK as
  selected (the comment says "OK"); Enter then cancels.  `OkMeansOk` in `Inputbox`
  states what it should be, and does not hold.  `confdialog.c` reads past its
  arguments when `--backtitle` comes last.
* `modemuncher.c` 124 takes a clause that starts with "-" or "r" for "rwxrwxrwx";
  "u=r" clears the other classes.  `tokenize.c` 90 gives the last word twice when the
  line ends in a blank.  `lzlib.c` 211 gives a last line without a newline twice.
* `luabash.c`: a call never takes its result off the stack (466-478); a registered
  function passes its arguments on unquoted (317).
* `lstrlib.c` 114: `string.byte` with an end before the start of the string gives all of it;
  `ltablib.c` 118-131: `table.remove` beyond the end takes the last element away.
* `ldo.c` 417-438: there is no limit on coroutines that resume each other; resuming a
  normal one changes the top of its frame (409) before it is refused.  `lzio.c` 28: an
  empty piece ends a chunk.
* `lcode.c` 548: the jump `luaK_goiftrue()` writes for a constant false takes along the
  jumps that lead to it, which carry a value.  `((x and x) or false) and true` is false
  when `x` is nil, and the code gives nil.  Such a function has `exact`
  FALSE in `Source` and is compared up to nil and false; with TRUE, `CodeRight` fails.
* `lcode.c` 702 looks for strings only (`VK`, not `VTRUE`, `VFALSE`, `VNIL`), so that
  `-true` compiles to an `UNM` of a constant, which `lvm.c` 496 takes for a register that
  does not exist and `luaG_checkcode()` refuses.  `Source` has no such expression; with
  one, `CodeRight` fails.
* `lparser.c` 902: the copy that `check_conflict()` makes is all that keeps the old
  value; an error message about it gives the name of the variable, which has a new
  value by then.
* `ifenslave.c`: an interface that is named twice and could not be enslaved the first
  time may have been left without an address, and gives that to the bond the second
  time; `IfenslaveAssumption` leaves such command lines out.  With ABI 0 and a bond
  without an address, the second slave gets the
  address that was read before the first one was set (747, 792-816); a later slave
  that cannot be enslaved takes the bond's address back (830-839).  `BondRight`
  leaves out just that (`undone`).


## 7. Not modelled, and why

The content of lists, checksums and descriptions (wording and text processing);
the menu of Config (one-line assignments); reports, ISO creation and maintenance
of the source tree (no state that lasts); recipes (data: the outcome of a build
is nondeterministic).  In Build-Pkg: chroot set-up, `-update` with its backup, and the loop over several
packages in one call (126-134), with its own comparison with the limit up to which
errors stop a build; Build-Target never calls it so.
In Build-Tools: the text of the wrappers, the new run of Config,
`SDEDEBUG_TOOLS_SKIP`, the making of directories.  In Build-Target: the final
search for lingering files, images, umount.  In Download: choice of a mirror,
alternative directories, version control, option parsing; its exit status is
taken from a misspelt variable (Download 1017) and is not used by the callers
modelled.

The wrappers that `fl_wrapper.c.sh` generates: their text comes from the
prototypes of the host's C library, and each does the same around one call.  The
drawing of frames, colours and wrapped text (`util.c`).  `lposix.c`, `md5.c`: one
function per system call, arithmetic.  Of Lua: the code of calls, of functions
with variable arguments, of concatenation and of table constructors, and the main loop
of `lvm.c` for them (calls and their errors are in `LuaCall`, upvalues within upvalues
in `LuaScope`), `lapi.c` as such (its functions are used where the
parts call them), io, os, math and debug libraries, loading of C libraries, the
stand-alone programs, number formatting, memory limits.  These are either
straight-line code or would need the data that the models abstract from.
`Hooks` and `Emerge-Pkg`: sequential closures over text; they remain to be done.

## 8. Plan

Done: the scripts of the build with their proofs, the programs in C and C++ with
the proofs of those that keep state from step to step, the parts of Lua that keep
state.  What would come next, in this order:

1. Proofs for what is left: the refinement of `LuaMap`, and `BootLog`, `Relay` and
   `UpdateCheck` in a form that folds do not hide.
2. `Emerge` and `Hooks`: closure and order against reference definitions.
3. Composition: Build-Target's Build-Pkg steps shown to implement `JobVerdict` for
   the job in hand.
