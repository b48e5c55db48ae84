----------------------------- MODULE ProgramsMC -----------------------------
(***************************************************************************)
(* The programs that do one thing and end: those in C and C++ that the     *)
(* distribution brings along, and the script Create-PkgQueue.  They run in *)
(* processes of their own and share nothing: a behaviour is one of one of  *)
(* them, and tool says which.  The functions of FlFunctions and Formats,   *)
(* and the versions of UpdateCheck, are looked at by themselves.           *)
(***************************************************************************)
EXTENDS PkgQueue, Confdialog, FlStparse, CmdWrapper, FlFunctions, BashProfiler, PkgGraph,
        UpdateCheck, BootLog, Relay, Formats, Ifenslave

VARIABLES
  tool,            \* the program that runs
  files,           \* Create-PkgQueue: the files of each job in var/adm/logs
  nobrokendeps,    \* whether -nobrokendeps was given
  printed_queue,   \* whether it has run
  queue            \* what it printed

-----------------------------------------------------------------------------
(* Values of the constants that a .cfg cannot write.                       *)

MCDir == {<<>>, <<"a">>, <<"a", "a">>}
MCStart == <<"a">>
MCParserStart == <<>>

MCOtherLists == {<<>>, <<"o1">>, <<"o1", "o2">>, <<"o1", "o2", "o1">>, <<"none">>}
Piece(if, then, else) == [if |-> if, then |-> then, else |-> else]
MCAdded == {<<>>, <<Piece(Always, {"x"}, {})>>,
            <<Piece({"a"}, {}, {"x"}), Piece(Always, {"x"}, {})>>}
MCTaken == {<<>>, <<Piece(Always, {"a"}, {})>>, <<Piece({"x"}, {"a"}, {"x"})>>}

MCTree == {<<>>, <<"r">>, <<"r", "d">>, <<"r", "e">>, <<"rx">>}
MCEmpty == {<<"r", "e">>}
MCFile == {<<d, "f">> : d \in MCTree \ MCEmpty}
MCLink == {[at |-> <<<<>>, "l">>, to |-> <<"r", "d">>],
           [at |-> <<<<"r">>, "l">>, to |-> <<"rx">>]}
MCReads == [abs : BOOLEAN, last : {"", "f", "d", "e", "l"},
            dir : UNION {[1 .. k -> {"r", "rx", "d", "l", ".."}] : k \in 0 .. 3}]

MCDigits == [d \in {"1", "2", "9"} |-> CASE d = "1" -> 1 [] d = "2" -> 2 [] d = "9" -> 9]
MCLetters == <<"a", "b">>
MCAlphabet == {"1", "2", "a", "."}

\* Lines of .desc files: other tags, and [D] lines with their five fields.
Text(t) == [kind |-> "tag", tag |-> t, value |-> t]
Fetch(tag, f, p, bang) ==
  [kind |-> "tag", tag |-> tag,
   value |-> [file |-> f, bang |-> bang, protocol |-> p, dir |-> "dir", base |-> "base"]]
MCDesc ==
  [ok |-> <<[kind |-> "skip"], Text("COPY"), Fetch("D", "f1", "http", FALSE), Text("I"),
            Fetch("D", "f2", "svn", FALSE), Fetch("DOWNLOAD", "f3", "ftp", TRUE)>>,
   bad |-> <<Fetch("D", "f4", "http", FALSE), Text("XXX")>>,
   none |-> <<Text("CV-URL")>>,
   cv |-> <<Text("CV-URL"), Fetch("D", "f5", "https", FALSE)>>]

\* A toolchain package, a base package, an ordinary one and t2-debug.
MCStages == <<{0, 1, 9}, {2, 9}, {5}, {9}>>
MCT2Debug == {4}

MCTyped == <<1, 0, 2>>
MCPrinted == <<3, 0, 4>>
MCBanner == <<9>>
MCSlave == <<"eth0", "eth1", "eth2">>

-----------------------------------------------------------------------------
(* Create-PkgQueue, on every state the log directory can be in.            *)

\* Not begun, in work, built, failed, or stopped between the creation of the
\* .log file and the end of the build.
JobFiles == {{}, {"out"}, {"log"}, {"err"}, {"log", "out"}}

QueueInit == /\ files \in [Job -> JobFiles]
             /\ nobrokendeps \in BOOLEAN
             /\ printed_queue = FALSE
             /\ queue = << >>

CreatePkgQueue == /\ ~printed_queue
                  /\ printed_queue' = TRUE
                  /\ queue' = Scan(files, nobrokendeps)
                  /\ UNCHANGED <<files, nobrokendeps>>

Queued == {queue[i] : i \in DOMAIN queue}

\* Two jobs are offered at the same time in stage 9 only, and only when
\* nothing of an earlier stage is left to build (Create-PkgQueue:105,126,131).
ParallelOnlyInStage9 ==
  \A j, k \in Queued : j # k => /\ j[1] = 9 /\ k[1] = 9
                                /\ OnlyStage9Pending(files)

\* A job is offered only when no job of its package in an earlier stage, and
\* no job of stage 0 or 1 at all, is still to be built or in work
\* (Create-PkgQueue:74,113,118).
EarlierStagesFirst ==
  \A j \in Queued, k \in Job :
    /\ Before(k, j)
    /\ k[2] = j[2] \/ (k[1] <= 1 /\ k[1] < j[1])
    => ~Pending(k, files)

-----------------------------------------------------------------------------
(* A program that does not run.                                            *)

NoDialog == mode = "msg" /\ BoxInit /\ NoList /\ NoMenu /\ NoChecks /\ NoInput /\ NoText
NoStparse == /\ dirOf = <<>> /\ forking = {} /\ gone = {} /\ procs = <<>> /\ mycwd = <<>>
             /\ logged = None /\ sound = {} /\ exit_code = "none"
NoWrapper == /\ config = <<>> /\ user = <<>> /\ done = <<>> /\ noloop = FALSE /\ path = <<>>
             /\ argv = <<>> /\ newargc = NEWARGC /\ ran = <<>> /\ wpc = "none"
NoBprof == bprofent_list = <<>> /\ clock = 0 /\ inside = {} /\ spent = <<>>
NoPkgGraph == /\ depend = <<>> /\ wanted = Unknown /\ priority = <<>>
              /\ stack = <<>> /\ needed = <<>> /\ gpc = "none"
NoUpdateCheck == /\ names = <<>> /\ url = "" /\ packages = <<>> /\ package = <<>>
                 /\ dln = 0 /\ tmp = 0 /\ listing = <<"">> /\ report = <<>>
NoBoot == /\ output = <<>> /\ written = 0 /\ rpc = "none" /\ use_btee = TRUE /\ holders = {}
          /\ bpc = "none" /\ seen = 0 /\ buffer = <<>> /\ pos = 0 /\ killme = 0
          /\ log = <<>> /\ lastOpen = TRUE /\ dropped = FALSE
NoRelay == /\ typed = 0 /\ printed = 0 /\ upward = <<>> /\ down = <<>> /\ p_in = <<>>
           /\ p_out = <<>> /\ taken = <<>> /\ shown = <<>> /\ shell = "none"
           /\ background = FALSE /\ session = "none" /\ client = "none"
NoBond == /\ opt = "none" /\ abi_ver = 0 /\ bond = <<>> /\ iface = <<>> /\ hwaddr_set = FALSE
          /\ master_hwaddr = NoMac /\ slaves = <<>> /\ slave = <<>> /\ epc = "none"
          /\ failure = FALSE /\ res = 0 /\ failures = 0 /\ undone = FALSE

NoQueue == files = <<>> /\ nobrokendeps = FALSE /\ printed_queue = FALSE /\ queue = <<>>

Init ==
  /\ tool \in {"confdialog", "fl_stparse", "cmd_wrapper", "bprof", "pkg_graph", "update_list",
               "rc", "xctrl", "ifenslave", "pkg_queue"}
  /\ IF tool = "confdialog" THEN ConfdialogInit ELSE NoDialog
  /\ IF tool = "fl_stparse" THEN FlStparseInit ELSE NoStparse
  /\ IF tool = "cmd_wrapper" THEN CmdWrapperInit ELSE NoWrapper
  /\ IF tool = "bprof" THEN BprofInit ELSE NoBprof
  /\ IF tool = "pkg_graph" THEN PkgGraphInit ELSE NoPkgGraph
  /\ IF tool = "update_list" THEN UpdateCheckInit ELSE NoUpdateCheck
  /\ IF tool = "rc" THEN BootInit ELSE NoBoot
  /\ IF tool = "xctrl" THEN RelayInit ELSE NoRelay
  /\ IF tool = "ifenslave" THEN BondInit ELSE NoBond
  /\ IF tool = "pkg_queue" THEN QueueInit ELSE NoQueue

source_tools == <<pkg_graph_vars, update_check_vars>>
hosts == <<boot_vars, relay_vars, bond_vars>>
file_tools == <<fl_stparse_vars, cmd_wrapper_vars, bprof_vars>>
queue_vars == <<files, nobrokendeps, printed_queue, queue>>
vars == <<tool, confdialog_vars, file_tools, source_tools, hosts, queue_vars>>

Next ==
  \/ /\ tool = "confdialog" /\ ConfdialogNext
     /\ UNCHANGED <<tool, file_tools, source_tools, hosts, queue_vars>>
  \/ /\ tool = "fl_stparse" /\ FlStparseNext
     /\ UNCHANGED <<tool, confdialog_vars, cmd_wrapper_vars, bprof_vars, source_tools, hosts, queue_vars>>
  \/ /\ tool = "cmd_wrapper" /\ CmdWrapperNext
     /\ UNCHANGED <<tool, confdialog_vars, fl_stparse_vars, bprof_vars, source_tools, hosts, queue_vars>>
  \/ /\ tool = "bprof" /\ BprofNext
     /\ UNCHANGED <<tool, confdialog_vars, fl_stparse_vars, cmd_wrapper_vars, source_tools, hosts, queue_vars>>
  \/ /\ tool = "pkg_graph" /\ PkgGraphNext
     /\ UNCHANGED <<tool, confdialog_vars, file_tools, update_check_vars, hosts, queue_vars>>
  \/ /\ tool = "update_list" /\ UpdateCheckNext
     /\ UNCHANGED <<tool, confdialog_vars, file_tools, pkg_graph_vars, hosts, queue_vars>>
  \/ /\ tool = "rc" /\ BootNext
     /\ UNCHANGED <<tool, confdialog_vars, file_tools, source_tools, relay_vars, bond_vars, queue_vars>>
  \/ /\ tool = "xctrl" /\ RelayNext
     /\ UNCHANGED <<tool, confdialog_vars, file_tools, source_tools, boot_vars, bond_vars, queue_vars>>
  \/ /\ tool = "ifenslave" /\ BondNext
     /\ UNCHANGED <<tool, confdialog_vars, file_tools, source_tools, boot_vars, relay_vars, queue_vars>>
  \/ /\ tool = "pkg_queue" /\ CreatePkgQueue
     /\ UNCHANGED <<tool, confdialog_vars, file_tools, source_tools, hosts>>

Spec == Init /\ [][Next]_vars
-----------------------------------------------------------------------------
(* What the programs promise, each if it is the one that runs.             *)

\* What a list shows and returns is the part of its entries that the keys have
\* taken it to, however it was scrolled, painted and toggled, and what an input
\* box shows and keeps is the text that was typed (menubox.c, checklist.c,
\* inputbox.c).
DialogsFaithful ==
  /\ MenuInWindow /\ MenuFaithful
  /\ CheckInWindow /\ CheckFaithful /\ ArrowsTrue /\ RadioPrintsOne
  /\ CursorAtEnd /\ InputFaithful

\* The text box, with half a buffer of the file, is a pager on its lines: it
\* never leaves the buffer, and the rows show the lines (textbox.c).
TextBoxRight == [](InBuffer /\ TextFaithful) /\ IsLineViewer

\* fl_stparse finds the directories of interleaved processes, the other wrappers
\* run once each and before the command, the profiler's sums are the times spent,
\* the slaves of a bond have its address and are rolled back or complete.
StatefulToolsRight ==
  /\ tool = "fl_stparse" => LoggedWhereItWas /\ TableSound /\ NoneLost
  /\ tool = "cmd_wrapper" => OthersInOrder
  /\ tool = "bprof" => SumIsTimeSpent
  /\ tool = "ifenslave" => BondRight

\* A wrapper that runs wrappers that run it again comes to the command: every
\* pass (cmd_wrapper.c:339-445) leaves fewer to come.
WrapperEnds == [][tool = "cmd_wrapper" => PassesLeft' < PassesLeft]_cmd_wrapper_vars

\* The priorities of PkgGraph put each package above what it depends on, but for
\* the members of one circle among each other, and are depths where there is no
\* circle behind; its picture can be read; UpdateList compares versions as they
\* are meant, apart from two cases it always takes one way (TakenForOlder), and
\* reports every download once, whatever curl said of the others; the wrappers pass on
\* every argument and environment, fl_wrparse finds the names below the root,
\* and the options of confdialog may come in any order.
SourceToolsRight ==
  /\ tool = "pkg_graph" => PriorityIsDepth /\ PictureReadable /\ NoCircularCall
  /\ tool = "update_list" => ReportsOnce /\ OneTemporary /\ FailureSeen
  /\ tool = "cmd_wrapper" => CommandRuns /\ UserArgsKept /\ ArgvFits
  /\ CompareAsMeant /\ NewestFound
  /\ CleanKeepsWords /\ VarargsArrive /\ FirstThatRuns /\ OwnsWhatItNamed /\ EmptyDirsOnlyWithD
  /\ OptionsInAnyOrder

\* Create-PkgQueue prints exactly the buildable jobs, in the order of the stages
\* and of the packages file, and its first line is the job -single takes.
ScanPrintsBuildable ==
  tool = "pkg_queue" /\ printed_queue =>
    /\ Queued = {j \in Job : Buildable(j, files, nobrokendeps)}
    /\ \A i, k \in DOMAIN queue : i < k => Before(queue[i], queue[k])
    /\ NextJob(files, nobrokendeps) = {queue[i] : i \in DOMAIN queue \cap {1}}

\* No job goes before one it has to wait for, and only in stage 9 are there two
\* at a time.
StagesRespected == tool = "pkg_queue" => ParallelOnlyInStage9 /\ EarlierStagesFirst

\* As long as something is left to build, nothing is in work and failed
\* packages are ignored, a job is offered: the build loop never stops early.
SomethingOffered ==
  /\ tool = "pkg_queue" /\ printed_queue /\ ~nobrokendeps
  /\ \E j \in Job : Pending(j, files)
  /\ \A j \in Job : "out" \notin files[j]
  => queue # << >>

\* The jobs are offered in turn: all that may be built, none too early, and
\* always one.
OffersInTurn == ScanPrintsBuildable /\ StagesRespected /\ SomethingOffered

\* The boot log is what was printed and btee leaves; the relayed bytes are the
\* ones typed and printed; the readers of formats find what writers wrote.
TargetToolsRight ==
  /\ tool = "rc" => BootLogRight
  /\ tool = "xctrl" => Faithful
  /\ CopiesChecked /\ FormatsRead
=============================================================================
