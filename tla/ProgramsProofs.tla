--------------------------- MODULE ProgramsProofs ---------------------------
(***************************************************************************)
(* What the programs of ProgramsMC promise for every value of the          *)
(* constants.                                                              *)
(***************************************************************************)
EXTENDS ProgramsMC, ToolProofs

\* The program that runs stays the one that was started, and while it runs no
\* other takes a step.
LEMMA OneProgram ==
  ASSUME [Next]_vars
  PROVE  /\ tool' = tool
         /\ tool = "pkg_queue" => CreatePkgQueue \/ UNCHANGED queue_vars
         /\ tool = "cmd_wrapper" => CmdWrapperNext \/ UNCHANGED cmd_wrapper_vars
         /\ tool = "bprof" => BprofNext \/ UNCHANGED bprof_vars
         /\ tool = "fl_stparse" => FlStparseNext \/ UNCHANGED fl_stparse_vars
         /\ tool = "ifenslave" => BondNext \/ UNCHANGED bond_vars
<1>1. CASE Next
  <2>1. tool' = tool /\ (tool = "pkg_queue" => CreatePkgQueue)
    BY <1>1, Zenon DEF Next
  <2>2. /\ tool = "cmd_wrapper" => CmdWrapperNext
        /\ tool = "bprof" => BprofNext
    BY <1>1, Zenon DEF Next
  <2>3. /\ tool = "fl_stparse" => FlStparseNext
        /\ tool = "ifenslave" => BondNext
    BY <1>1, Zenon DEF Next
  <2> QED
    BY <2>1, <2>2, <2>3
<1>2. CASE UNCHANGED vars
  BY <1>2 DEF vars, file_tools, hosts
<1> QED
  BY <1>1, <1>2

-----------------------------------------------------------------------------
(* Create-PkgQueue.                                                        *)

\* Nothing is printed before the scan, and then what it came to.
QueuePrinted ==
  tool = "pkg_queue" =>
    /\ files \in [Job -> SUBSET File]
    /\ nobrokendeps \in BOOLEAN /\ printed_queue \in BOOLEAN
    /\ queue = IF printed_queue THEN Scan(files, nobrokendeps) ELSE << >>

THEOREM QueuePrintedInvariant == Spec => []QueuePrinted
<1>1. Init => QueuePrinted
  <2>1. JobFiles \subseteq SUBSET File
    BY DEF JobFiles, File
  <2> QED
    BY <2>1 DEF Init, QueueInit, QueuePrinted
<1>2. QueuePrinted /\ [Next]_vars => QueuePrinted'
  <2> SUFFICES ASSUME QueuePrinted, [Next]_vars, tool' = "pkg_queue"
               PROVE  /\ files' \in [Job -> SUBSET File]
                      /\ nobrokendeps' \in BOOLEAN /\ printed_queue' \in BOOLEAN
                      /\ queue' = IF printed_queue' THEN Scan(files', nobrokendeps')
                                                    ELSE << >>
    BY DEF QueuePrinted
  <2>1. tool = "pkg_queue" /\ (CreatePkgQueue \/ UNCHANGED queue_vars)
    BY OneProgram
  <2>2. CASE CreatePkgQueue
    <3>1. /\ printed_queue' /\ printed_queue' \in BOOLEAN
          /\ queue' = Scan(files, nobrokendeps)
          /\ files' = files /\ nobrokendeps' = nobrokendeps
      BY <2>2 DEF CreatePkgQueue
    <3> QED
      BY <2>1, <3>1 DEF QueuePrinted
  <2>3. CASE UNCHANGED queue_vars
    BY <2>1, <2>3 DEF queue_vars, QueuePrinted
  <2> QED
    BY <2>1, <2>2, <2>3
<1> QED
  BY <1>1, <1>2, PTL DEF Spec

\* Create-PkgQueue offers what may be built and nothing else, in order.
THEOREM PrintsBuildable == Spec => []ScanPrintsBuildable
<1>1. QueuePrinted => ScanPrintsBuildable
  <2> SUFFICES ASSUME QueuePrinted, tool = "pkg_queue", printed_queue
               PROVE  /\ Queued = {j \in Job : Buildable(j, files, nobrokendeps)}
                      /\ \A i, k \in DOMAIN queue : i < k => Before(queue[i], queue[k])
                      /\ NextJob(files, nobrokendeps) = {queue[i] : i \in DOMAIN queue \cap {1}}
    BY DEF ScanPrintsBuildable
  <2>1. queue = Scan(files, nobrokendeps) /\ nobrokendeps \in BOOLEAN
    BY DEF QueuePrinted
  <2> QED
    BY <2>1, ScanIsBuildable DEF Queued
<1> QED
  BY <1>1, QueuePrintedInvariant, PTL

\* No job goes before one it has to wait for, and only in stage 9 are there two
\* at a time.
THEOREM RespectsStages == Spec => []StagesRespected
<1>1. QueuePrinted => StagesRespected
  <2> SUFFICES ASSUME QueuePrinted, tool = "pkg_queue", NEW j \in Queued
               PROVE  /\ \A k \in Queued : j # k => /\ j[1] = 9 /\ k[1] = 9
                                                    /\ OnlyStage9Pending(files)
                      /\ \A k \in Job : /\ Before(k, j)
                                        /\ k[2] = j[2] \/ (k[1] <= 1 /\ k[1] < j[1])
                                        => ~Pending(k, files)
    BY DEF StagesRespected, ParallelOnlyInStage9, EarlierStagesFirst
  <2>1. Queued = {i \in Job : Buildable(i, files, nobrokendeps)}
    BY ScanIsBuildable DEF QueuePrinted, Queued
  <2>2. \A k \in Job : Pending(k, files) => Missing(k, files, nobrokendeps)
    BY DEF Missing
  <2>3. \A k \in Job : k \in Queued => Pending(k, files)
    BY <2>1 DEF Buildable
  <2>4. ASSUME NEW i \in Queued, NEW k \in Queued, Before(k, i)
        PROVE  i[1] = 9 /\ k[1] = 9 /\ OnlyStage9Pending(files)
    <3>1. k \in MissingBefore(i, files, nobrokendeps)
      BY <2>1, <2>2, <2>3, <2>4 DEF MissingBefore
    <3>2. i[1] = 9 /\ OnlyStage9Pending(files)
      BY <2>1, <3>1 DEF Buildable
    <3> QED
      BY <2>1, <2>3, <3>2 DEF OnlyStage9Pending
  <2>5. ASSUME NEW k \in Queued, j # k
        PROVE  j[1] = 9 /\ k[1] = 9 /\ OnlyStage9Pending(files)
    <3>1. Before(j, k) \/ Before(k, j)
      BY <2>1, <2>5 DEF Before, Job, Stage, Pkg
    <3> QED
      BY <2>4, <3>1
  <2>6. ASSUME NEW k \in Job, Before(k, j), Pending(k, files),
               k[2] = j[2] \/ (k[1] <= 1 /\ k[1] < j[1])
        PROVE  FALSE
    <3>1. k \in MissingBefore(j, files, nobrokendeps)
      BY <2>2, <2>6 DEF MissingBefore
    <3>2. /\ j[1] = 9 /\ OnlyStage9Pending(files)
          /\ j[2] \notin {i[2] : i \in MissingBefore(j, files, nobrokendeps)}
      BY <2>1, <3>1 DEF Buildable
    <3>3. k[1] = 9
      BY <2>6, <3>2 DEF OnlyStage9Pending
    <3> QED
      BY <2>6, <3>1, <3>2, <3>3
  <2> QED
    BY <2>5, <2>6
<1> QED
  BY <1>1, QueuePrintedInvariant, PTL

\* As long as something is left to build, nothing is in work and failed
\* packages are ignored, a job is offered.
THEOREM OffersSomething == Spec => []SomethingOffered
<1>1. QueuePrinted => SomethingOffered
  <2> SUFFICES ASSUME QueuePrinted, tool = "pkg_queue", printed_queue, ~nobrokendeps,
                      NEW p \in Job, Pending(p, files),
                      \A j \in Job : "out" \notin files[j], queue = << >>
               PROVE  FALSE
    BY DEF SomethingOffered
  <2>1. /\ files \in [Job -> SUBSET File]
        /\ queue = Scan(files, nobrokendeps) /\ nobrokendeps \in BOOLEAN
        /\ nobrokendeps = FALSE
    BY DEF QueuePrinted
  <2>2. NextJob(files, nobrokendeps) = {queue[i] : i \in DOMAIN queue \cap {1}}
    BY <2>1, ScanIsBuildable
  <2>3. NextJob(files, FALSE) = {}
    <3>1. DOMAIN queue = {}
      OBVIOUS
    <3> QED
      BY <2>1, <2>2, <3>1
  <2> QED
    BY <2>1, <2>3, PendingIsOffered
<1> QED
  BY <1>1, QueuePrintedInvariant, PTL

\* Create-PkgQueue offers the jobs in turn: just those that may be built, none
\* before one it has to wait for, and always one as long as there is something
\* to build.
THEOREM JobsInTurn == Spec => []OffersInTurn
<1>1. ScanPrintsBuildable /\ StagesRespected /\ SomethingOffered => OffersInTurn
  BY DEF OffersInTurn
<1> QED
  BY <1>1, PrintsBuildable, RespectsStages, OffersSomething, PTL

-----------------------------------------------------------------------------
(* confdialog.                                                             *)

\* A program that is no dialog leaves confdialog as NoDialog says.
LEMMA DialogStart ==
  ASSUME Init
  PROVE  ConfdialogInit \/ (mode = "msg" /\ NoList)
BY DEF Init, NoDialog

LEMMA DialogTurn ==
  ASSUME [Next]_vars
  PROVE  ConfdialogNext \/ UNCHANGED confdialog_vars
<1>1. CASE Next
  BY <1>1, Zenon DEF Next
<1>2. CASE UNCHANGED vars
  BY <1>2 DEF vars
<1> QED
  BY <1>1, <1>2

\* The invariant of the dialogs (ToolProofs).
THEOREM DialogInvariant == Spec => []DialogInv
<1>1. Init => DialogInv
  BY DialogStart, DialogInit
<1>2. DialogInv /\ [Next]_vars => DialogInv'
  BY DialogTurn, DialogStep
<1> QED
  BY <1>1, <1>2, PTL DEF Spec

\* What the lists show and return is what the keys have taken them to, and what
\* the input box keeps is what was typed.
THEOREM ListsAndInput == Spec => []DialogsFaithful
<1>1. DialogInv => DialogsFaithful
  BY DialogsPromise DEF DialogsFaithful
<1> QED
  BY <1>1, DialogInvariant, PTL

\* Menus, check lists and radio lists, their windows and their painting, are a
\* cursor on the entries.
THEOREM ImplementsListCursor == Spec => IsListCursor
<1>1. Init => Cursor!Init
  <2> SUFFICES ASSUME Init PROVE Cursor!Init
    OBVIOUS
  <2>1. Sized /\ Selected \in 0 .. item_no - 1
    BY DialogStart, DialogInit DEF DialogInv
  <2>2. max_choice \in Nat \ {0} /\ max_choice <= item_no /\ item_no \in Nat \ {0}
    BY <2>1, WindowFits DEF Sized
  <2> QED
    BY <2>1, <2>2 DEF Cursor!Init, Selected
<1>2. DialogInv /\ [Next]_vars => [Cursor!Next]_(Cursor!vars)
  <2> SUFFICES ASSUME DialogInv, [Next]_vars
               PROVE  Cursor!Next \/ UNCHANGED Cursor!vars
    OBVIOUS
  <2>1. CursorStep /\ UNCHANGED args
    BY DialogTurn, DialogStep
  <2>2. item_no' = item_no /\ max_choice' = max_choice
    BY <2>1 DEF args, max_choice, Lesser
  <2>3. CASE Selected' = Selected
    BY <2>2, <2>3 DEF Cursor!vars, Selected
  <2>4. ASSUME NEW d, Selected' = Clipped(Selected + d) PROVE Cursor!Step(d)
    BY <2>4 DEF Cursor!Step, Cursor!Clip, Clipped, Selected
  <2>5. CASE \E i \in 0 .. item_no - 1 : /\ i - Selected < max_choice /\ Selected - i < max_choice
                                  /\ Selected' = i
    BY <2>2, <2>5 DEF Cursor!Next, Cursor!Jump, Selected
  <2> QED
    BY <2>1, <2>2, <2>3, <2>4, <2>5 DEF CursorStep, Cursor!Next
<1> QED
  BY <1>1, <1>2, DialogInvariant, PTL DEF Spec, IsListCursor, Cursor!Spec

-----------------------------------------------------------------------------
(* fl_stparse, cmd_wrapper, bprof and ifenslave.                           *)

StatefulToolsInv ==
  /\ tool = "cmd_wrapper" => WrapperInv
  /\ tool = "bprof" => BprofInv
  /\ tool = "fl_stparse" => StparseInv
  /\ tool = "ifenslave" => BondInv

\* Whichever of the four runs, its invariant holds at the start and after
\* every step.
THEOREM StatefulToolsInvariant == Spec => []StatefulToolsInv
<1>1. Init => StatefulToolsInv
  <2> SUFFICES ASSUME Init PROVE StatefulToolsInv
    OBVIOUS
  <2>1. /\ tool = "bprof" => BprofInit
        /\ tool = "fl_stparse" => FlStparseInit
        /\ tool = "cmd_wrapper" => CmdWrapperInit
        /\ tool = "ifenslave" => BondInit
    BY DEF Init
  <2> QED
    BY <2>1, BprofStart, StparseStart, WrapperStart, BondStart DEF StatefulToolsInv
<1>2. (tool = "bprof" => BprofInv) /\ [Next]_vars => (tool = "bprof" => BprofInv)'
  <2> SUFFICES ASSUME BprofInv, [Next]_vars, tool = "bprof" PROVE BprofInv'
    BY OneProgram
  <2>1. CASE UNCHANGED bprof_vars
    <3>1. UNCHANGED <<bprofent_list, clock, inside, spent>>
      BY <2>1 DEF bprof_vars
    <3> QED
      BY <3>1 DEF BprofInv, Accounts, Listed
  <2> QED
    BY <2>1, OneProgram, BprofStep
<1>3. (tool = "fl_stparse" => StparseInv) /\ [Next]_vars => (tool = "fl_stparse" => StparseInv)'
  <2> SUFFICES ASSUME StparseInv, [Next]_vars, tool = "fl_stparse" PROVE StparseInv'
    BY OneProgram
  <2>1. CASE UNCHANGED fl_stparse_vars
    <3>1. UNCHANGED <<dirOf, forking, procs, mycwd, logged, sound, exit_code>>
      BY <2>1 DEF fl_stparse_vars, kernel
    <3>2. \A q : SlotsOf(q)' = SlotsOf(q)
      BY <3>1 DEF SlotsOf
    <3>3. \A q : FirstSlot(q)' = FirstSlot(q)
      BY <3>2 DEF FirstSlot
    <3>4. Alive' = Alive
      BY <3>1 DEF Alive
    <3>5. LoggedWhereItWas' /\ TableSound'
      BY <3>1, <3>2, <3>3, <3>4 DEF StparseInv, LoggedWhereItWas, TableSound, Known
    <3>6. NoneLost => NoneLost'
      BY <3>1, <3>2, <3>4 DEF NoneLost
    <3> QED
      BY <3>1, <3>2, <3>4, <3>5, <3>6 DEF StparseInv
  <2> QED
    BY <2>1, OneProgram, StparseStep
<1>4. (tool = "cmd_wrapper" => WrapperInv) /\ [Next]_vars => (tool = "cmd_wrapper" => WrapperInv)'
  <2> SUFFICES ASSUME WrapperInv, [Next]_vars, tool = "cmd_wrapper" PROVE WrapperInv'
    BY OneProgram
  <2>1. CASE UNCHANGED cmd_wrapper_vars
    <3>1. UNCHANGED <<config, done, ran, wpc>>
      BY <2>1 DEF cmd_wrapper_vars, env
    <3>2. Others' = Others
      BY <3>1 DEF Others
    <3> QED
      BY <3>1, <3>2 DEF WrapperInv
  <2> QED
    BY <2>1, OneProgram, WrapperStep
<1>5. (tool = "ifenslave" => BondInv) /\ [Next]_vars => (tool = "ifenslave" => BondInv)'
  BY OneProgram, BondStep
<1> QED
  BY <1>1, <1>2, <1>3, <1>4, <1>5, PTL DEF Spec, StatefulToolsInv

\* fl_stparse logs a name where the process was that opened it, whatever the
\* order of the lines; the other wrappers run in the order of OTHERS, once each
\* and before the command; the profiler's sums are the times spent; the slaves
\* of a bond have its address and are rolled back or complete.
THEOREM StatefulToolsSound == Spec => []StatefulToolsRight
<1>1. StatefulToolsInv => StatefulToolsRight
  <2> SUFFICES ASSUME StatefulToolsInv PROVE StatefulToolsRight
    OBVIOUS
  <2>1. ASSUME tool = "fl_stparse" PROVE LoggedWhereItWas /\ TableSound /\ NoneLost
    BY <2>1 DEF StatefulToolsInv, StparseInv, NoneLost
  <2>2. ASSUME tool = "cmd_wrapper" PROVE OthersInOrder
    BY <2>2 DEF StatefulToolsInv, WrapperInv, OthersInOrder
  <2>3. ASSUME tool = "bprof" PROVE SumIsTimeSpent
    BY <2>3, SumsAreTimes DEF StatefulToolsInv
  <2>4. ASSUME tool = "ifenslave" PROVE BondRight
    BY <2>4, BondPromise DEF StatefulToolsInv
  <2> QED
    BY <2>1, <2>2, <2>3, <2>4 DEF StatefulToolsRight
<1> QED
  BY <1>1, StatefulToolsInvariant, PTL

\* The chain of passes of cmd_wrapper ends, whatever PATH is: each pass leaves
\* fewer to come.
THEOREM WrapperComesToAnEnd == Spec => WrapperEnds
<1>1. StatefulToolsInv /\ [Next]_vars => [tool = "cmd_wrapper" => PassesLeft' < PassesLeft]_cmd_wrapper_vars
  <2> SUFFICES ASSUME StatefulToolsInv, [Next]_vars, tool = "cmd_wrapper"
               PROVE  PassesLeft' < PassesLeft \/ UNCHANGED cmd_wrapper_vars
    OBVIOUS
  <2> QED
    BY OneProgram, WrapperStep DEF StatefulToolsInv
<1> QED
  BY <1>1, StatefulToolsInvariant, PTL DEF Spec, WrapperEnds
=============================================================================
