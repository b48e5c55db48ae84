----------------------------- MODULE BuildTools -----------------------------
(***************************************************************************)
(* scripts/Build-Tools: builds the wrappers and small tools of one tools   *)
(* directory anew when a file of the source tree is newer than its stamp,  *)
(* .lastupdate.  Every Build-Pkg calls it, so that calls may run at the    *)
(* same time, each with a part of the work of the other before its eyes.   *)
(*                                                                         *)
(* Assumed: fl_wrapper creates the file lists; SDEDEBUG_TOOLS_SKIP is not  *)
(* set.  That Config is run again is not modelled.                         *)
(***************************************************************************)
EXTENDS Naturals, Sequences

CONSTANTS
  Proc,        \* the calls of Build-Tools
  MaxEdits,    \* bound: changes of the source tree
  MaxKills,    \* bound: calls that are killed
  MaxFailures  \* bound: calls that fail

ASSUME BoundAssumption == MaxEdits \in Nat /\ MaxKills \in Nat /\ MaxFailures \in Nat

\* The tools that are put in place by a rename, and the lines of the
\* pkg_*.conf files, in the order they are appended in.
Tool == {"wrapper", "bin", "fl_wrapper", "parse-config", "wrapper-config"}
Line == {"package", "target"}
AllLines == <<"package", "target">>

VARIABLES
  src,      \* how often the source tree has been changed, plus one
  tool,     \* tool[t]: the src it was built from, 0 when it is not there
  conf,     \* the lines of the pkg_*.conf files
  tmp,      \* tmp[p]: the same of the wrapper p has not renamed yet
  stamp,    \* whether .lastupdate is there
  newer,    \* whether a file has changed since it was touched
  pc,
  raced,    \* whether two calls have worked at the same time (a history)
  spoilt,   \* whether a clean-up was killed, or met another call's work
            \* (a history)
  missed,   \* whether a file has changed while tools were built (a history)
  kills, failures

vars == <<src, tool, conf, tmp, stamp, newer, pc, raced, spoilt, missed, kills, failures>>

tools == <<tool, conf, tmp>>
tree == <<src, newer, missed>>
faults == <<raced, spoilt, kills, failures>>

Cleaning == {"clean wrapper", "clean bin", "clean lib", "clean stamp"}
Making == {"cc", "mv", "sweep", "libc", "ldd", "test", "rm conf", "touch"}
            \cup (Tool \ {"wrapper"}) \cup Line
Busy == Cleaning \cup Making

TypeOK == /\ src \in Nat \ {0}
          /\ tool \in [Tool -> 0 .. src] /\ tmp \in [Proc -> 0 .. src]
          /\ conf \in Seq(Line)
          /\ stamp \in BOOLEAN /\ newer \in BOOLEAN /\ missed \in BOOLEAN
          /\ raced \in BOOLEAN /\ spoilt \in BOOLEAN
          /\ pc \in [Proc -> {"off", "start", "searched", "rm stamp", "need", "use"} \cup Busy]
          /\ kills \in Nat /\ failures \in Nat
          /\ ~raced => Len(conf) <= Len(AllLines)

Init == /\ src = 1 /\ newer = FALSE /\ stamp = FALSE
        /\ tool = [t \in Tool |-> 0] /\ conf = << >>
        /\ tmp = [p \in Proc |-> 0]
        /\ pc = [p \in Proc |-> "off"]
        /\ raced = FALSE /\ spoilt = FALSE /\ missed = FALSE
        /\ kills = 0 /\ failures = 0

NobodyBusy == \A p \in Proc : pc[p] \notin Busy

-----------------------------------------------------------------------------
\* Is there anything to do?

Goes(p, from, to) == pc[p] = from /\ pc' = [pc EXCEPT ![p] = to]

Others(p, places) == \E q \in Proc \ {p} : pc[q] \in places

\* Called by a Build-Pkg, or by hand
Call(p) == /\ Goes(p, "off", "start")
           /\ UNCHANGED <<tools, stamp, tree, faults>>

\* "Found new/updated files in source tree"
FoundNewer(p) == /\ Goes(p, "start", "rm stamp") /\ stamp /\ newer
                 /\ UNCHANGED <<tools, stamp, tree, faults>>

FoundNothing(p) == /\ Goes(p, "start", "searched") /\ ~(stamp /\ newer)
                   /\ UNCHANGED <<tools, stamp, tree, faults>>

RmStamp(p) == /\ Goes(p, "rm stamp", "searched")
              /\ stamp' = FALSE
              /\ UNCHANGED <<tools, tree, faults>>

NoCleanup(p) == /\ Goes(p, "searched", "need")
                /\ UNCHANGED <<tools, stamp, tree, faults>>

\* The call was one with -cleanup.
Cleanup(p) == /\ Goes(p, "searched", "clean wrapper")
              /\ raced' = (raced \/ Others(p, Busy))
              /\ spoilt' = (spoilt \/ Others(p, Busy))
              /\ UNCHANGED <<tools, stamp, tree, kills, failures>>

CleanWrapper(p) == /\ Goes(p, "clean wrapper", "clean bin")
                   /\ tool' = [tool EXCEPT !["wrapper"] = 0]
                   /\ tmp' = [q \in Proc |-> 0]
                   /\ UNCHANGED <<conf, stamp, tree, faults>>

CleanBin(p) == /\ Goes(p, "clean bin", "clean lib")
               /\ tool' = [tool EXCEPT !["bin"] = 0]
               /\ UNCHANGED <<conf, tmp, stamp, tree, faults>>

CleanLib(p) == /\ Goes(p, "clean lib", "clean stamp")
               /\ tool' = [tool EXCEPT !["fl_wrapper"] = 0, !["parse-config"] = 0]
               /\ UNCHANGED <<conf, tmp, stamp, tree, faults>>

CleanStamp(p) == /\ Goes(p, "clean stamp", "need")
                 /\ stamp' = FALSE
                 /\ UNCHANGED <<tools, tree, faults>>

NothingNeededTouching(p) == /\ Goes(p, "need", "use") /\ stamp
                            /\ newer' = FALSE
                            /\ UNCHANGED <<tools, stamp, src, missed, faults>>
NothingNeeded(p) == /\ Goes(p, "need", "use") /\ stamp
                    /\ UNCHANGED <<tools, stamp, tree, faults>>

MakeTouchingFirst(p) == /\ Goes(p, "need", "cc") /\ ~stamp
                        /\ stamp' = TRUE
                        /\ missed' = FALSE
                        /\ raced' = (raced \/ Others(p, Busy))
                        /\ spoilt' = (spoilt \/ Others(p, Cleaning))
                        /\ UNCHANGED <<tools, src, newer, kills, failures>>
Make(p) == /\ Goes(p, "need", "cc") /\ ~stamp
           /\ missed' = FALSE
           /\ raced' = (raced \/ Others(p, Busy))
           /\ spoilt' = (spoilt \/ Others(p, Cleaning))
           /\ UNCHANGED <<tools, stamp, src, newer, kills, failures>>

-----------------------------------------------------------------------------
\* The tools, one after the other.

CcRemovingOld(p) == /\ Goes(p, "cc", "mv")
                    /\ tmp' = [tmp EXCEPT ![p] = src]
                    /\ tool' = [tool EXCEPT !["wrapper"] = 0]
                    /\ UNCHANGED <<conf, stamp, tree, faults>>
Cc(p) == /\ Goes(p, "cc", "mv")
         /\ tmp' = [tmp EXCEPT ![p] = src]
         /\ UNCHANGED <<tool, conf, stamp, tree, faults>>

\* mv wrapper/tmp.$$ wrapper/cmd_wrapper: that it fails goes unnoticed
Mv(p) == /\ Goes(p, "mv", "sweep")
         /\ tool' = IF tmp[p] = 0 THEN tool ELSE [tool EXCEPT !["wrapper"] = tmp[p]]
         /\ tmp' = [tmp EXCEPT ![p] = 0]
         /\ UNCHANGED <<conf, stamp, tree, faults>>

\* What else there is in wrapper/ is removed: the unfinished work of others.
Sweep(p) == /\ Goes(p, "sweep", "bin")
            /\ tmp' = [q \in Proc |-> 0]
            /\ UNCHANGED <<tool, conf, stamp, tree, faults>>

\* What comes after each tool that is built into a file of its own.
Following == [t \in Tool \ {"wrapper"} |->
  CASE t = "bin" -> "libc"
    [] t = "fl_wrapper" -> "test"
    [] t = "parse-config" -> "rm conf"
    [] t = "wrapper-config" -> "touch"]

BuildTool(p) == /\ pc[p] \in Tool \ {"wrapper"}
                /\ Goes(p, pc[p], Following[pc[p]])
                /\ tool' = [tool EXCEPT ![pc[p]] = src]
                /\ UNCHANGED <<conf, tmp, stamp, tree, faults>>

\* Which libc do programs use?  The program that tells lies in wrapper/ too,
\* and when it has been swept away the call aborts.
CcHello(p) == /\ Goes(p, "libc", "ldd")
              /\ tmp' = [tmp EXCEPT ![p] = src]
              /\ UNCHANGED <<tool, conf, stamp, tree, faults>>

LibcFound(p) == /\ Goes(p, "ldd", "fl_wrapper") /\ tmp[p] # 0
                /\ tmp' = [tmp EXCEPT ![p] = 0]
                /\ UNCHANGED <<tool, conf, stamp, tree, faults>>

LibcNotFound(p) == /\ Goes(p, "ldd", "off") /\ tmp[p] = 0
                   /\ UNCHANGED <<tools, stamp, tree, faults>>

TestPassed(p) == /\ Goes(p, "test", "parse-config")
                 /\ UNCHANGED <<tools, stamp, tree, faults>>

Fails == failures < MaxFailures /\ failures' = failures + 1

\* "Detected a problem with the flist wrapper lib on your system."
TestFailed(p) == /\ Goes(p, "test", "off") /\ Fails
                 /\ tool' = [tool EXCEPT !["fl_wrapper"] = 0]
                 /\ UNCHANGED <<conf, tmp, stamp, tree, raced, spoilt, kills>>

\* A compiler fails.
CcFailed(p) == /\ pc[p] \in {"cc", "bin", "fl_wrapper"} /\ Fails
               /\ Goes(p, pc[p], "off")
               /\ UNCHANGED <<tools, stamp, tree, raced, spoilt, kills>>

RmConfForgotten(p) == /\ Goes(p, "rm conf", "package")
                      /\ UNCHANGED <<tools, stamp, tree, faults>>
RmConf(p) == /\ Goes(p, "rm conf", "package")
             /\ conf' = << >>
             /\ UNCHANGED <<tool, tmp, stamp, tree, faults>>

AppendLine(p) == /\ \/ Goes(p, "package", "target")
                    \/ Goes(p, "target", "wrapper-config")
                 /\ conf' = Append(conf, pc[p])
                 /\ UNCHANGED <<tool, tmp, stamp, tree, faults>>

Touch(p) == /\ Goes(p, "touch", "use")
            /\ stamp' = TRUE /\ newer' = FALSE
            /\ UNCHANGED <<tools, src, missed, faults>>

\* The Build-Pkg that called is over.
Leave(p) == /\ Goes(p, "use", "off")
            /\ UNCHANGED <<tools, stamp, tree, faults>>

-----------------------------------------------------------------------------
Edit == /\ src <= MaxEdits
        /\ src' = src + 1 /\ newer' = TRUE
        /\ missed' = (missed \/ ~NobodyBusy)
        /\ UNCHANGED <<tools, stamp, pc, faults>>

Kill(p) == /\ pc[p] # "off" /\ kills < MaxKills
           /\ Goes(p, pc[p], "off")
           /\ kills' = kills + 1
           /\ spoilt' = (spoilt \/ pc[p] \in Cleaning)
           /\ UNCHANGED <<tools, stamp, tree, raced, failures>>

Step(p) == \/ Call(p) \/ FoundNewer(p) \/ FoundNothing(p) \/ RmStamp(p)
           \/ NoCleanup(p) \/ Cleanup(p)
           \/ CleanWrapper(p) \/ CleanBin(p) \/ CleanLib(p) \/ CleanStamp(p)
           \/ NothingNeeded(p) \/ Make(p)
           \/ Cc(p) \/ Mv(p) \/ Sweep(p) \/ BuildTool(p)
           \/ CcHello(p) \/ LibcFound(p) \/ LibcNotFound(p)
           \/ TestPassed(p) \/ TestFailed(p) \/ CcFailed(p)
           \/ RmConf(p) \/ AppendLine(p) \/ Touch(p) \/ Leave(p) \/ Kill(p)

Next == Edit \/ \E p \in Proc : Step(p)

Spec == Init /\ [][Next]_vars

-----------------------------------------------------------------------------
(* Properties *)

Whole == \A t \in Tool : tool[t] # 0
Settled == stamp /\ NobodyBusy

\* The stamp is there only with all the tools, whatever call was killed or has
\* failed in the middle of its work (Build-Tools:73,99,397).
StampMeansWhole == Settled /\ ~raced /\ ~spoilt => Whole /\ conf = AllLines

\* And the tools were built from the sources as they are, unless a source is
\* newer than the stamp and the next call will find it, or was changed while
\* they were built (Build-Tools:55-60,397).
StampMeansFresh ==
  Settled /\ ~raced /\ ~spoilt /\ ~newer /\ ~missed => \A t \in Tool : tool[t] = src

\* Two calls that build the tools at the same time do not lose one of them
\* that is put in place by a rename, although each removes the unfinished
\* wrappers of the other (Build-Tools:269-278).
WholeDespiteRace == Settled /\ ~spoilt /\ kills = 0 /\ failures = 0 => Whole
=============================================================================
