-------------------------- MODULE BuildToolsProofs --------------------------
(***************************************************************************)
(* Proofs about BuildTools: type correctness, and that the stamp vouches   *)
(* for the tools, for every number of calls, changes, kills and failures.  *)
(***************************************************************************)
EXTENDS BuildTools, SequenceTheorems, TLAPS

-----------------------------------------------------------------------------
\* The inductive invariant.

\* The places of a call that has built a tool.
HasParse == {"rm conf", "package", "target", "wrapper-config", "touch"}
HasFl == {"test", "parse-config"} \cup HasParse
HasBin == {"libc", "ldd", "fl_wrapper"} \cup HasFl
HasWrapper == {"sweep", "bin"} \cup HasBin

OneBusy == \A p, q \in Proc : pc[p] \in Busy /\ pc[q] \in Busy => p = q

MadeSoFar == \A p \in Proc :
  /\ pc[p] \in HasWrapper => tool["wrapper"] # 0
  /\ pc[p] \in HasBin => tool["bin"] # 0
  /\ pc[p] \in HasFl => tool["fl_wrapper"] # 0
  /\ pc[p] \in HasParse => tool["parse-config"] # 0
  /\ pc[p] = "touch" => tool["wrapper-config"] # 0

NotSwept == \A p \in Proc : pc[p] = "mv" => tmp[p] # 0

LinesSoFar == Len(conf) <= 2 /\ \A p \in Proc :
  /\ pc[p] = "package" => conf = << >>
  /\ pc[p] = "target" => conf = <<"package">>
  /\ pc[p] \in {"wrapper-config", "touch"} => conf = AllLines

StampTaken == \A p \in Proc : pc[p] \in Making => ~stamp

StampVouches == stamp => \/ Whole /\ conf = AllLines
                         \/ \E p \in Proc : pc[p] \in Cleaning

Alone == /\ ~raced => OneBusy /\ LinesSoFar
         /\ ~raced /\ ~spoilt => MadeSoFar /\ NotSwept /\ StampTaken /\ StampVouches

IInv == TypeOK /\ Alone

\* TypeOK in two parts, as the provers take them.
Types == /\ src \in Nat \ {0}
         /\ tool \in [Tool -> 0 .. src] /\ tmp \in [Proc -> 0 .. src]
         /\ conf \in Seq(Line)
         /\ pc \in [Proc -> {"off", "start", "searched", "rm stamp", "need", "use"} \cup Busy]
         /\ kills \in Nat /\ failures \in Nat

Flags == /\ stamp \in BOOLEAN /\ newer \in BOOLEAN /\ missed \in BOOLEAN
         /\ raced \in BOOLEAN /\ spoilt \in BOOLEAN

-----------------------------------------------------------------------------
\* Versions of the source tree are counted from 1; 0 stands for no file.
LEMMA Versions == \A n \in Nat : /\ 0 \in 0 .. n /\ n \in 0 .. n
                                 /\ 0 .. n \subseteq 0 .. (n + 1)
                                 /\ n + 1 \in Nat \ {0}
  OBVIOUS

\* The two lines, appended in order (Build-Tools:360-384), make a whole file.
LEMMA Lines == /\ << >> \in Seq(Line) /\ Len(<< >>) <= 2
               /\ \A s \in Seq(Line), x \in Line : Append(s, x) \in Seq(Line)
               /\ Append(<< >>, "package") = <<"package">> /\ Len(<<"package">>) <= 2
               /\ Append(<<"package">>, "target") = AllLines /\ Len(AllLines) <= 2
<1>1. << >> \in Seq(Line) /\ Len(<< >>) <= 2
  OBVIOUS
<1>2. \A s \in Seq(Line), x \in Line : Append(s, x) \in Seq(Line)
  OBVIOUS
<1>3. Append(<< >>, "package") = <<"package">> /\ Len(<<"package">>) <= 2
  OBVIOUS
<1>4. Append(<<"package">>, "target") = AllLines
  <2> DEFINE s == Append(<<"package">>, "target")
  <2>1. s \in Seq({"package", "target"}) /\ AllLines \in Seq({"package", "target"})
    BY DEF AllLines
  <2>2. Len(s) = 2 /\ s[1] = "package" /\ s[2] = "target"
    OBVIOUS
  <2>3. Len(AllLines) = 2 /\ AllLines[1] = "package" /\ AllLines[2] = "target"
    BY DEF AllLines
  <2>4. \A i \in 1 .. Len(s) : s[i] = AllLines[i]
    BY <2>2, <2>3
  <2> HIDE DEF s
  <2>5. s = AllLines
    BY <2>1, <2>2, <2>3, <2>4, SeqEqual
  <2> QED
    BY <2>5 DEF s
<1>5. Len(AllLines) <= 2
  BY DEF AllLines
<1> QED
  BY <1>1, <1>2, <1>3, <1>4, <1>5

\* The invariant holds before the first call of Build-Tools.
LEMMA InitInv == Init => IInv
<1> SUFFICES ASSUME Init PROVE IInv
  OBVIOUS
<1>1. Types
  BY DEF Init, Types
<1>2. Flags
  BY DEF Init, Flags
<1>3. Len(conf) <= Len(AllLines)
  BY DEF Init, AllLines
<1>4. OneBusy /\ LinesSoFar
  BY DEF Init, OneBusy, LinesSoFar, Busy, Cleaning, Making, Tool, Line
<1>5. MadeSoFar /\ NotSwept
  BY DEF Init, MadeSoFar, NotSwept, HasWrapper, HasBin, HasFl, HasParse
<1>6. StampTaken /\ StampVouches
  BY DEF Init, StampTaken, StampVouches
<1> QED
  BY <1>1, <1>2, <1>3, <1>4, <1>5, <1>6 DEF IInv, TypeOK, Types, Flags, Alone

\* Every step keeps the types: first of what is counted or named,
LEMMA TypesStep ==
  ASSUME Types, [Next]_vars
  PROVE  Types'
<1> USE DEF Types, tools, tree, faults, Goes
<1>0. src \in Nat /\ 0 \in 0 .. src /\ src \in 0 .. src
  BY Versions
<1>1. Cleaning \cup {"cc", "mv", "sweep", "libc", "ldd", "test", "rm conf", "touch", "bin",
                   "fl_wrapper", "parse-config", "wrapper-config", "package", "target"} \subseteq Busy
  BY DEF Busy, Making, Tool, Line
<1>3. kills \in Nat /\ failures \in Nat /\ \A n \in Nat : n + 1 \in Nat
  BY Versions
<1>2. \A t \in Tool \ {"wrapper"} : Following[t] \in Busy
  BY <1>1 DEF Following, Tool
<1>u. CASE UNCHANGED vars
  BY <1>u DEF vars
<1>e. CASE Edit
  <2>1. src' = src + 1
    BY <1>e DEF Edit
  <2>2. 0 .. src \subseteq 0 .. src' /\ src' \in Nat \ {0}
    BY <2>1, <1>0, Versions
  <2> QED
    BY <1>e, <2>1, <2>2 DEF Edit
<1>s. ASSUME NEW p \in Proc, Step(p) PROVE Types'
  <2>1. CASE Call(p)
    BY <2>1, <1>1 DEF Call
  <2>2. CASE FoundNewer(p)
    BY <2>2, <1>1 DEF FoundNewer
  <2>3. CASE FoundNothing(p)
    BY <2>3, <1>1 DEF FoundNothing
  <2>4. CASE RmStamp(p)
    BY <2>4, <1>1 DEF RmStamp
  <2>5. CASE NoCleanup(p)
    BY <2>5, <1>1 DEF NoCleanup
  <2>6. CASE Cleanup(p)
    BY <2>6, <1>1 DEF Cleanup, Cleaning
  <2>7. CASE CleanWrapper(p)
    <3>1. pc' \in [Proc -> {"off", "start", "searched", "rm stamp", "need", "use"} \cup Busy]
      BY <2>7, <1>1 DEF CleanWrapper, Cleaning
    <3>2. src' = src /\ tool' \in [Tool -> 0 .. src] /\ tmp' \in [Proc -> 0 .. src]
      BY <2>7, <1>0 DEF CleanWrapper
    <3>3. conf' \in Seq(Line)
      BY <2>7 DEF CleanWrapper
    <3>4. kills' \in Nat /\ failures' \in Nat
      BY <2>7 DEF CleanWrapper
    <3> QED
      BY <3>1, <3>2, <3>3, <3>4
  <2>8. CASE CleanBin(p)
    <3>1. pc' \in [Proc -> {"off", "start", "searched", "rm stamp", "need", "use"} \cup Busy]
      BY <2>8, <1>1 DEF CleanBin, Cleaning
    <3>2. src' = src /\ tool' \in [Tool -> 0 .. src] /\ tmp' \in [Proc -> 0 .. src]
      BY <2>8, <1>0 DEF CleanBin
    <3>3. conf' \in Seq(Line)
      BY <2>8 DEF CleanBin
    <3>4. kills' \in Nat /\ failures' \in Nat
      BY <2>8 DEF CleanBin
    <3> QED
      BY <3>1, <3>2, <3>3, <3>4
  <2>9. CASE CleanLib(p)
    <3>1. pc' \in [Proc -> {"off", "start", "searched", "rm stamp", "need", "use"} \cup Busy]
      BY <2>9, <1>1 DEF CleanLib, Cleaning
    <3>2. src' = src /\ tool' \in [Tool -> 0 .. src] /\ tmp' \in [Proc -> 0 .. src]
      BY <2>9, <1>0 DEF CleanLib
    <3>3. conf' \in Seq(Line)
      BY <2>9 DEF CleanLib
    <3>4. kills' \in Nat /\ failures' \in Nat
      BY <2>9 DEF CleanLib
    <3> QED
      BY <3>1, <3>2, <3>3, <3>4
  <2>10. CASE CleanStamp(p)
    BY <2>10, <1>1 DEF CleanStamp
  <2>11. CASE NothingNeeded(p)
    BY <2>11, <1>1 DEF NothingNeeded
  <2>12. CASE Make(p)
    BY <2>12, <1>1 DEF Make
  <2>13. CASE Cc(p)
    <3>1. pc' \in [Proc -> {"off", "start", "searched", "rm stamp", "need", "use"} \cup Busy]
      BY <2>13, <1>1 DEF Cc
    <3>2. src' = src /\ tool' \in [Tool -> 0 .. src] /\ tmp' \in [Proc -> 0 .. src]
      BY <2>13, <1>0 DEF Cc
    <3>3. conf' \in Seq(Line)
      BY <2>13 DEF Cc
    <3>4. kills' \in Nat /\ failures' \in Nat
      BY <2>13 DEF Cc
    <3> QED
      BY <3>1, <3>2, <3>3, <3>4
  <2>14. CASE Mv(p)
    <3>1. pc' \in [Proc -> {"off", "start", "searched", "rm stamp", "need", "use"} \cup Busy]
      BY <2>14, <1>1 DEF Mv
    <3>2. src' = src /\ tool' \in [Tool -> 0 .. src] /\ tmp' \in [Proc -> 0 .. src]
      BY <2>14, <1>0 DEF Mv
    <3>3. conf' \in Seq(Line)
      BY <2>14 DEF Mv
    <3>4. kills' \in Nat /\ failures' \in Nat
      BY <2>14 DEF Mv
    <3> QED
      BY <3>1, <3>2, <3>3, <3>4
  <2>15. CASE Sweep(p)
    <3>1. pc' \in [Proc -> {"off", "start", "searched", "rm stamp", "need", "use"} \cup Busy]
      BY <2>15, <1>1 DEF Sweep
    <3>2. src' = src /\ tool' \in [Tool -> 0 .. src] /\ tmp' \in [Proc -> 0 .. src]
      BY <2>15, <1>0 DEF Sweep
    <3>3. conf' \in Seq(Line)
      BY <2>15 DEF Sweep
    <3>4. kills' \in Nat /\ failures' \in Nat
      BY <2>15 DEF Sweep
    <3> QED
      BY <3>1, <3>2, <3>3, <3>4
  <2>16. CASE BuildTool(p)
    <3>1. pc' \in [Proc -> {"off", "start", "searched", "rm stamp", "need", "use"} \cup Busy]
      BY <2>16, <1>1, <1>2 DEF BuildTool
    <3>2. src' = src /\ tool' \in [Tool -> 0 .. src] /\ tmp' \in [Proc -> 0 .. src]
      BY <2>16, <1>0 DEF BuildTool
    <3>3. conf' \in Seq(Line)
      BY <2>16 DEF BuildTool
    <3>4. kills' \in Nat /\ failures' \in Nat
      BY <2>16 DEF BuildTool
    <3> QED
      BY <3>1, <3>2, <3>3, <3>4
  <2>17. CASE CcHello(p)
    <3>1. pc' \in [Proc -> {"off", "start", "searched", "rm stamp", "need", "use"} \cup Busy]
      BY <2>17, <1>1 DEF CcHello
    <3>2. src' = src /\ tool' \in [Tool -> 0 .. src] /\ tmp' \in [Proc -> 0 .. src]
      BY <2>17, <1>0 DEF CcHello
    <3>3. conf' \in Seq(Line)
      BY <2>17 DEF CcHello
    <3>4. kills' \in Nat /\ failures' \in Nat
      BY <2>17 DEF CcHello
    <3> QED
      BY <3>1, <3>2, <3>3, <3>4
  <2>18. CASE LibcFound(p)
    <3>1. pc' \in [Proc -> {"off", "start", "searched", "rm stamp", "need", "use"} \cup Busy]
      BY <2>18, <1>1 DEF LibcFound
    <3>2. src' = src /\ tool' \in [Tool -> 0 .. src] /\ tmp' \in [Proc -> 0 .. src]
      BY <2>18, <1>0 DEF LibcFound
    <3>3. conf' \in Seq(Line)
      BY <2>18 DEF LibcFound
    <3>4. kills' \in Nat /\ failures' \in Nat
      BY <2>18 DEF LibcFound
    <3> QED
      BY <3>1, <3>2, <3>3, <3>4
  <2>19. CASE LibcNotFound(p)
    BY <2>19, <1>1 DEF LibcNotFound
  <2>20. CASE TestPassed(p)
    BY <2>20, <1>1 DEF TestPassed
  <2>21. CASE TestFailed(p)
    <3>1. pc' \in [Proc -> {"off", "start", "searched", "rm stamp", "need", "use"} \cup Busy]
      BY <2>21, <1>1 DEF TestFailed, Fails
    <3>2. src' = src /\ tool' \in [Tool -> 0 .. src] /\ tmp' \in [Proc -> 0 .. src]
      BY <2>21, <1>0 DEF TestFailed
    <3>3. conf' \in Seq(Line)
      BY <2>21 DEF TestFailed
    <3>4. kills' \in Nat /\ failures' \in Nat
      BY <2>21, <1>3, Zenon DEF TestFailed, Fails
    <3> QED
      BY <3>1, <3>2, <3>3, <3>4
  <2>22. CASE CcFailed(p)
    <3>1. pc' \in [Proc -> {"off", "start", "searched", "rm stamp", "need", "use"} \cup Busy]
      BY <2>22, <1>1 DEF CcFailed, Fails
    <3>2. src' = src /\ tool' \in [Tool -> 0 .. src] /\ tmp' \in [Proc -> 0 .. src]
      BY <2>22, <1>0 DEF CcFailed
    <3>3. conf' \in Seq(Line)
      BY <2>22 DEF CcFailed
    <3>4. kills' \in Nat /\ failures' \in Nat
      BY <2>22, <1>3, Zenon DEF CcFailed, Fails
    <3> QED
      BY <3>1, <3>2, <3>3, <3>4
  <2>23. CASE RmConf(p)
    <3>1. pc' \in [Proc -> {"off", "start", "searched", "rm stamp", "need", "use"} \cup Busy]
      BY <2>23, <1>1 DEF RmConf
    <3>2. src' = src /\ tool' \in [Tool -> 0 .. src] /\ tmp' \in [Proc -> 0 .. src]
      BY <2>23, <1>0 DEF RmConf
    <3>3. conf' \in Seq(Line)
      BY <2>23, Lines DEF RmConf
    <3>4. kills' \in Nat /\ failures' \in Nat
      BY <2>23 DEF RmConf
    <3> QED
      BY <3>1, <3>2, <3>3, <3>4
  <2>24. CASE AppendLine(p)
    <3>1. pc' \in [Proc -> {"off", "start", "searched", "rm stamp", "need", "use"} \cup Busy]
      BY <2>24, <1>1 DEF AppendLine, Line
    <3>2. src' = src /\ tool' \in [Tool -> 0 .. src] /\ tmp' \in [Proc -> 0 .. src]
      BY <2>24, <1>0 DEF AppendLine
    <3>3. conf' \in Seq(Line)
      BY <2>24, Lines DEF AppendLine, Line
    <3>4. kills' \in Nat /\ failures' \in Nat
      BY <2>24 DEF AppendLine
    <3> QED
      BY <3>1, <3>2, <3>3, <3>4
  <2>25. CASE Touch(p)
    BY <2>25, <1>1 DEF Touch
  <2>26. CASE Leave(p)
    BY <2>26, <1>1 DEF Leave
  <2>27. CASE Kill(p)
    <3>1. pc' \in [Proc -> {"off", "start", "searched", "rm stamp", "need", "use"} \cup Busy]
      BY <2>27, <1>1 DEF Kill
    <3>2. src' = src /\ tool' \in [Tool -> 0 .. src] /\ tmp' \in [Proc -> 0 .. src]
      BY <2>27, <1>0 DEF Kill
    <3>3. conf' \in Seq(Line)
      BY <2>27 DEF Kill
    <3>4. kills' \in Nat /\ failures' \in Nat
      BY <2>27, <1>3, Zenon DEF Kill
    <3> QED
      BY <3>1, <3>2, <3>3, <3>4
  <2> QED
    BY <1>s, <2>1, <2>2, <2>3, <2>4, <2>5, <2>6, <2>7, <2>8, <2>9, <2>10,
         <2>11, <2>12, <2>13, <2>14, <2>15, <2>16, <2>17, <2>18, <2>19, <2>20,
         <2>21, <2>22, <2>23, <2>24, <2>25, <2>26, <2>27 DEF Step
<1> QED
  BY <1>u, <1>e, <1>s DEF Next

\* then of what is true or false; and no history is taken back.
LEMMA FlagsStep ==
  ASSUME Flags, [Next]_vars
  PROVE  /\ Flags'
         /\ ~raced' => ~raced
         /\ ~spoilt' => ~spoilt
<1> DEFINE Kept == Flags' /\ (~raced' => ~raced) /\ (~spoilt' => ~spoilt)
<1> USE DEF Flags, tree, faults
<1>u. CASE UNCHANGED vars
  BY <1>u DEF vars
<1>e. CASE Edit
  BY <1>e, Zenon DEF Edit
<1>s. ASSUME NEW p \in Proc, Step(p) PROVE Kept
  <2>1. CASE Call(p)
    BY <2>1, Zenon DEF Call
  <2>2. CASE FoundNewer(p)
    BY <2>2, Zenon DEF FoundNewer
  <2>3. CASE FoundNothing(p)
    BY <2>3, Zenon DEF FoundNothing
  <2>4. CASE RmStamp(p)
    BY <2>4, Zenon DEF RmStamp
  <2>5. CASE NoCleanup(p)
    BY <2>5, Zenon DEF NoCleanup
  <2>6. CASE Cleanup(p)
    BY <2>6, Zenon DEF Cleanup
  <2>7. CASE CleanWrapper(p)
    BY <2>7, Zenon DEF CleanWrapper
  <2>8. CASE CleanBin(p)
    BY <2>8, Zenon DEF CleanBin
  <2>9. CASE CleanLib(p)
    BY <2>9, Zenon DEF CleanLib
  <2>10. CASE CleanStamp(p)
    BY <2>10, Zenon DEF CleanStamp
  <2>11. CASE NothingNeeded(p)
    BY <2>11, Zenon DEF NothingNeeded
  <2>12. CASE Make(p)
    BY <2>12, Zenon DEF Make
  <2>13. CASE Cc(p)
    BY <2>13, Zenon DEF Cc
  <2>14. CASE Mv(p)
    BY <2>14, Zenon DEF Mv
  <2>15. CASE Sweep(p)
    BY <2>15, Zenon DEF Sweep
  <2>16. CASE BuildTool(p)
    BY <2>16, Zenon DEF BuildTool
  <2>17. CASE CcHello(p)
    BY <2>17, Zenon DEF CcHello
  <2>18. CASE LibcFound(p)
    BY <2>18, Zenon DEF LibcFound
  <2>19. CASE LibcNotFound(p)
    BY <2>19, Zenon DEF LibcNotFound
  <2>20. CASE TestPassed(p)
    BY <2>20, Zenon DEF TestPassed
  <2>21. CASE TestFailed(p)
    BY <2>21, Zenon DEF TestFailed
  <2>22. CASE CcFailed(p)
    BY <2>22, Zenon DEF CcFailed
  <2>23. CASE RmConf(p)
    BY <2>23, Zenon DEF RmConf
  <2>24. CASE AppendLine(p)
    BY <2>24, Zenon DEF AppendLine
  <2>25. CASE Touch(p)
    BY <2>25, Zenon DEF Touch
  <2>26. CASE Leave(p)
    BY <2>26, Zenon DEF Leave
  <2>27. CASE Kill(p)
    BY <2>27, Zenon DEF Kill
  <2> QED
    BY <1>s, <2>1, <2>2, <2>3, <2>4, <2>5, <2>6, <2>7, <2>8, <2>9, <2>10,
         <2>11, <2>12, <2>13, <2>14, <2>15, <2>16, <2>17, <2>18, <2>19, <2>20,
         <2>21, <2>22, <2>23, <2>24, <2>25, <2>26, <2>27 DEF Step
<1> QED
  BY <1>u, <1>e, <1>s DEF Next

\* While no two calls have worked at the same time, only one does.
LEMMA BusyStep ==
  ASSUME Types, OneBusy, LinesSoFar, [Next]_vars, ~raced'
  PROVE  OneBusy' /\ LinesSoFar'
<1> USE DEF Types, Goes
<1>0. ASSUME NEW p \in Proc, NEW w, pc' = [pc EXCEPT ![p] = w],
             \/ pc[p] \in Busy
             \/ w \notin Busy
             \/ \A q \in Proc \ {p} : pc[q] \notin Busy
      PROVE  OneBusy'
  BY <1>0 DEF OneBusy
<1>u. CASE UNCHANGED vars
  BY <1>u DEF vars, OneBusy, LinesSoFar
<1>e. CASE Edit
  BY <1>e DEF Edit, tools, OneBusy, LinesSoFar
<1>s. ASSUME NEW p \in Proc, Step(p) PROVE OneBusy' /\ LinesSoFar'
  <2>1. CASE Call(p)
    <3>1. OneBusy'
      BY <2>1, <1>0 DEF Call, Busy, Making, Cleaning, Tool, Line
    <3>2. LinesSoFar'
      BY <2>1 DEF Call, tools, LinesSoFar
    <3> QED
      BY <3>1, <3>2
  <2>2. CASE FoundNewer(p)
    <3>1. OneBusy'
      BY <2>2, <1>0 DEF FoundNewer, Busy, Making, Cleaning, Tool, Line
    <3>2. LinesSoFar'
      BY <2>2 DEF FoundNewer, tools, LinesSoFar
    <3> QED
      BY <3>1, <3>2
  <2>3. CASE FoundNothing(p)
    <3>1. OneBusy'
      BY <2>3, <1>0 DEF FoundNothing, Busy, Making, Cleaning, Tool, Line
    <3>2. LinesSoFar'
      BY <2>3 DEF FoundNothing, tools, LinesSoFar
    <3> QED
      BY <3>1, <3>2
  <2>4. CASE RmStamp(p)
    <3>1. OneBusy'
      BY <2>4, <1>0 DEF RmStamp, Busy, Making, Cleaning, Tool, Line
    <3>2. LinesSoFar'
      BY <2>4 DEF RmStamp, tools, LinesSoFar
    <3> QED
      BY <3>1, <3>2
  <2>5. CASE NoCleanup(p)
    <3>1. OneBusy'
      BY <2>5, <1>0 DEF NoCleanup, Busy, Making, Cleaning, Tool, Line
    <3>2. LinesSoFar'
      BY <2>5 DEF NoCleanup, tools, LinesSoFar
    <3> QED
      BY <3>1, <3>2
  <2>6. CASE Cleanup(p)
    <3>1. OneBusy'
      BY <2>6, <1>0 DEF Cleanup, Others
    <3>2. LinesSoFar'
      BY <2>6 DEF Cleanup, tools, LinesSoFar
    <3> QED
      BY <3>1, <3>2
  <2>7. CASE CleanWrapper(p)
    <3>1. OneBusy'
      BY <2>7, <1>0 DEF CleanWrapper, Busy, Making, Cleaning, Tool, Line
    <3>2. LinesSoFar'
      BY <2>7 DEF CleanWrapper, LinesSoFar
    <3> QED
      BY <3>1, <3>2
  <2>8. CASE CleanBin(p)
    <3>1. OneBusy'
      BY <2>8, <1>0 DEF CleanBin, Busy, Making, Cleaning, Tool, Line
    <3>2. LinesSoFar'
      BY <2>8 DEF CleanBin, LinesSoFar
    <3> QED
      BY <3>1, <3>2
  <2>9. CASE CleanLib(p)
    <3>1. OneBusy'
      BY <2>9, <1>0 DEF CleanLib, Busy, Making, Cleaning, Tool, Line
    <3>2. LinesSoFar'
      BY <2>9 DEF CleanLib, LinesSoFar
    <3> QED
      BY <3>1, <3>2
  <2>10. CASE CleanStamp(p)
    <3>1. OneBusy'
      BY <2>10, <1>0 DEF CleanStamp, Busy, Making, Cleaning, Tool, Line
    <3>2. LinesSoFar'
      BY <2>10 DEF CleanStamp, tools, LinesSoFar
    <3> QED
      BY <3>1, <3>2
  <2>11. CASE NothingNeeded(p)
    <3>1. OneBusy'
      BY <2>11, <1>0 DEF NothingNeeded, Busy, Making, Cleaning, Tool, Line
    <3>2. LinesSoFar'
      BY <2>11 DEF NothingNeeded, tools, LinesSoFar
    <3> QED
      BY <3>1, <3>2
  <2>12. CASE Make(p)
    <3>1. OneBusy'
      BY <2>12, <1>0 DEF Make, Others
    <3>2. LinesSoFar'
      BY <2>12 DEF Make, tools, LinesSoFar
    <3> QED
      BY <3>1, <3>2
  <2>13. CASE Cc(p)
    <3>1. OneBusy'
      BY <2>13, <1>0 DEF Cc, Busy, Making, Cleaning, Tool, Line
    <3>2. LinesSoFar'
      BY <2>13 DEF Cc, LinesSoFar
    <3> QED
      BY <3>1, <3>2
  <2>14. CASE Mv(p)
    <3>1. OneBusy'
      BY <2>14, <1>0 DEF Mv, Busy, Making, Cleaning, Tool, Line
    <3>2. LinesSoFar'
      BY <2>14 DEF Mv, LinesSoFar
    <3> QED
      BY <3>1, <3>2
  <2>15. CASE Sweep(p)
    <3>1. OneBusy'
      BY <2>15, <1>0 DEF Sweep, Busy, Making, Cleaning, Tool, Line
    <3>2. LinesSoFar'
      BY <2>15 DEF Sweep, LinesSoFar
    <3> QED
      BY <3>1, <3>2
  <2>16. CASE BuildTool(p)
    <3>1. OneBusy'
      BY <2>16, <1>0 DEF BuildTool, Busy, Making
    <3>2. LinesSoFar'
      BY <2>16 DEF BuildTool, LinesSoFar, Tool, Following
    <3> QED
      BY <3>1, <3>2
  <2>17. CASE CcHello(p)
    <3>1. OneBusy'
      BY <2>17, <1>0 DEF CcHello, Busy, Making, Cleaning, Tool, Line
    <3>2. LinesSoFar'
      BY <2>17 DEF CcHello, LinesSoFar
    <3> QED
      BY <3>1, <3>2
  <2>18. CASE LibcFound(p)
    <3>1. OneBusy'
      BY <2>18, <1>0 DEF LibcFound, Busy, Making, Cleaning, Tool, Line
    <3>2. LinesSoFar'
      BY <2>18 DEF LibcFound, LinesSoFar
    <3> QED
      BY <3>1, <3>2
  <2>19. CASE LibcNotFound(p)
    <3>1. OneBusy'
      BY <2>19, <1>0 DEF LibcNotFound, Busy, Making, Cleaning, Tool, Line
    <3>2. LinesSoFar'
      BY <2>19 DEF LibcNotFound, tools, LinesSoFar
    <3> QED
      BY <3>1, <3>2
  <2>20. CASE TestPassed(p)
    <3>1. OneBusy'
      BY <2>20, <1>0 DEF TestPassed, Busy, Making, Cleaning, Tool, Line
    <3>2. LinesSoFar'
      BY <2>20 DEF TestPassed, tools, LinesSoFar
    <3> QED
      BY <3>1, <3>2
  <2>21. CASE TestFailed(p)
    <3>1. OneBusy'
      BY <2>21, <1>0 DEF TestFailed, Busy, Making, Cleaning, Tool, Line
    <3>2. LinesSoFar'
      BY <2>21 DEF TestFailed, LinesSoFar
    <3> QED
      BY <3>1, <3>2
  <2>22. CASE CcFailed(p)
    <3>1. OneBusy'
      BY <2>22, <1>0 DEF CcFailed, Busy, Making, Cleaning, Tool, Line
    <3>2. LinesSoFar'
      BY <2>22 DEF CcFailed, tools, LinesSoFar
    <3> QED
      BY <3>1, <3>2
  <2>23. CASE RmConf(p)
    <3>1. OneBusy'
      BY <2>23, <1>0 DEF RmConf, Busy, Making, Cleaning, Tool, Line
    <3>2. \A q \in Proc \ {p} : pc[q] \notin Busy /\ pc'[q] = pc[q]
      BY <2>23 DEF RmConf, OneBusy, Busy, Making, Line
    <3>3. \A q \in Proc \ {p} :
            pc[q] \notin {"package", "target", "wrapper-config", "touch"}
      BY <3>2 DEF Busy, Making, Tool, Line
    <3>4. conf' = << >> /\ Len(conf') <= 2 /\ pc'[p] = "package"
      BY <2>23, Lines DEF RmConf
    <3>5. LinesSoFar'
      BY <3>2, <3>3, <3>4 DEF LinesSoFar
    <3> QED
      BY <3>1, <3>5
  <2>24. CASE AppendLine(p)
    <3>1. OneBusy'
      BY <2>24, <1>0 DEF AppendLine, Busy, Making, Cleaning, Tool, Line
    <3>2. \A q \in Proc \ {p} : pc[q] \notin Busy /\ pc'[q] = pc[q]
      BY <2>24 DEF AppendLine, OneBusy, Busy, Making, Line
    <3>3. \A q \in Proc \ {p} :
            pc[q] \notin {"package", "target", "wrapper-config", "touch"}
      BY <3>2 DEF Busy, Making, Tool, Line
    <3>4. Len(conf') <= 2 /\ (pc'[p] = "target" => conf' = <<"package">>)
          /\ (pc'[p] = "wrapper-config" => conf' = AllLines)
          /\ pc'[p] \in {"target", "wrapper-config"}
      BY <2>24, Lines DEF AppendLine, LinesSoFar
    <3>5. LinesSoFar'
      BY <3>2, <3>3, <3>4 DEF LinesSoFar
    <3> QED
      BY <3>1, <3>5
  <2>25. CASE Touch(p)
    <3>1. OneBusy'
      BY <2>25, <1>0 DEF Touch, Busy, Making, Cleaning, Tool, Line
    <3>2. LinesSoFar'
      BY <2>25 DEF Touch, tools, LinesSoFar
    <3> QED
      BY <3>1, <3>2
  <2>26. CASE Leave(p)
    <3>1. OneBusy'
      BY <2>26, <1>0 DEF Leave, Busy, Making, Cleaning, Tool, Line
    <3>2. LinesSoFar'
      BY <2>26 DEF Leave, tools, LinesSoFar
    <3> QED
      BY <3>1, <3>2
  <2>27. CASE Kill(p)
    <3>1. OneBusy'
      BY <2>27, <1>0 DEF Kill, Busy, Making, Cleaning, Tool, Line
    <3>2. LinesSoFar'
      BY <2>27 DEF Kill, tools, LinesSoFar
    <3> QED
      BY <3>1, <3>2
  <2> QED
    BY <1>s, <2>1, <2>2, <2>3, <2>4, <2>5, <2>6, <2>7, <2>8, <2>9, <2>10,
         <2>11, <2>12, <2>13, <2>14, <2>15, <2>16, <2>17, <2>18, <2>19, <2>20,
         <2>21, <2>22, <2>23, <2>24, <2>25, <2>26, <2>27 DEF Step
<1> QED
  BY <1>u, <1>e, <1>s DEF Next

\* A call that works alone finds what it has built so far.
LEMMA MadeStep ==
  ASSUME Types, OneBusy, MadeSoFar, NotSwept, [Next]_vars, ~raced'
  PROVE  MadeSoFar' /\ NotSwept'
<1> USE DEF Types, OneBusy, MadeSoFar, NotSwept, Goes, HasWrapper, HasBin,
     HasFl, HasParse
<1>u. CASE UNCHANGED vars
  BY <1>u DEF vars
<1>e. CASE Edit
  BY <1>e DEF Edit, tools
<1>s. ASSUME NEW p \in Proc, Step(p) PROVE MadeSoFar' /\ NotSwept'
  <2>1. CASE Call(p)
    BY <2>1 DEF Call, tools
  <2>2. CASE FoundNewer(p)
    BY <2>2 DEF FoundNewer, tools
  <2>3. CASE FoundNothing(p)
    BY <2>3 DEF FoundNothing, tools
  <2>4. CASE RmStamp(p)
    BY <2>4 DEF RmStamp, tools
  <2>5. CASE NoCleanup(p)
    BY <2>5 DEF NoCleanup, tools
  <2>6. CASE Cleanup(p)
    BY <2>6 DEF Cleanup, tools
  <2>7. CASE CleanWrapper(p)
    BY <2>7 DEF CleanWrapper, Busy, Making, Cleaning, Tool, Line
  <2>8. CASE CleanBin(p)
    BY <2>8 DEF CleanBin, Busy, Making, Cleaning, Tool, Line
  <2>9. CASE CleanLib(p)
    BY <2>9 DEF CleanLib, Busy, Making, Cleaning, Tool, Line
  <2>10. CASE CleanStamp(p)
    BY <2>10 DEF CleanStamp, tools
  <2>11. CASE NothingNeeded(p)
    BY <2>11 DEF NothingNeeded, tools
  <2>12. CASE Make(p)
    BY <2>12 DEF Make, tools
  <2>13. CASE Cc(p)
    BY <2>13 DEF Cc, Busy, Making, Cleaning, Tool, Line
  <2>14. CASE Mv(p)
    BY <2>14 DEF Mv, Busy, Making, Cleaning, Tool, Line
  <2>15. CASE Sweep(p)
    BY <2>15 DEF Sweep, Busy, Making, Cleaning, Tool, Line
  <2>16. CASE BuildTool(p)
    BY <2>16 DEF BuildTool, Busy, Making, Cleaning, Tool, Line, Following
  <2>17. CASE CcHello(p)
    BY <2>17 DEF CcHello, Busy, Making, Cleaning, Tool, Line
  <2>18. CASE LibcFound(p)
    BY <2>18 DEF LibcFound, Busy, Making, Cleaning, Tool, Line
  <2>19. CASE LibcNotFound(p)
    BY <2>19 DEF LibcNotFound, tools
  <2>20. CASE TestPassed(p)
    BY <2>20 DEF TestPassed, tools
  <2>21. CASE TestFailed(p)
    BY <2>21 DEF TestFailed, Busy, Making, Cleaning, Tool, Line
  <2>22. CASE CcFailed(p)
    BY <2>22 DEF CcFailed, tools
  <2>23. CASE RmConf(p)
    BY <2>23 DEF RmConf, Busy, Making, Cleaning, Tool, Line
  <2>24. CASE AppendLine(p)
    BY <2>24 DEF AppendLine, Busy, Making, Cleaning, Tool, Line
  <2>25. CASE Touch(p)
    BY <2>25 DEF Touch, tools
  <2>26. CASE Leave(p)
    BY <2>26 DEF Leave, tools
  <2>27. CASE Kill(p)
    BY <2>27 DEF Kill, tools
  <2> QED
    BY <1>s, <2>1, <2>2, <2>3, <2>4, <2>5, <2>6, <2>7, <2>8, <2>9, <2>10,
         <2>11, <2>12, <2>13, <2>14, <2>15, <2>16, <2>17, <2>18, <2>19, <2>20,
         <2>21, <2>22, <2>23, <2>24, <2>25, <2>26, <2>27 DEF Step
<1> QED
  BY <1>u, <1>e, <1>s DEF Next

\* The stamp is taken away before the tools are, and given back last.
LEMMA StampStep ==
  ASSUME Types, OneBusy, LinesSoFar, MadeSoFar, StampTaken, StampVouches,
         [Next]_vars, ~raced', ~spoilt'
  PROVE  StampTaken' /\ StampVouches'
<1> USE DEF Types, StampTaken, StampVouches, Whole, Goes
<1>u. CASE UNCHANGED vars
  BY <1>u DEF vars
<1>e. CASE Edit
  BY <1>e DEF Edit, tools
<1>s. ASSUME NEW p \in Proc, Step(p) PROVE StampTaken' /\ StampVouches'
  <2>1. CASE Call(p)
    BY <2>1 DEF Call, tools, Busy, Making, Cleaning, Tool, Line
  <2>2. CASE FoundNewer(p)
    BY <2>2 DEF FoundNewer, tools, Busy, Making, Cleaning, Tool, Line
  <2>3. CASE FoundNothing(p)
    BY <2>3 DEF FoundNothing, tools, Busy, Making, Cleaning, Tool, Line
  <2>4. CASE RmStamp(p)
    BY <2>4 DEF RmStamp, tools, Busy, Making, Cleaning, Tool, Line
  <2>5. CASE NoCleanup(p)
    BY <2>5 DEF NoCleanup, tools, Busy, Making, Cleaning, Tool, Line
  <2>6. CASE Cleanup(p)
    BY <2>6 DEF Cleanup, tools, Busy, Making, Cleaning, Tool, Line, Others,
         OneBusy
  <2>7. CASE CleanWrapper(p)
    BY <2>7 DEF CleanWrapper, Busy, Making, Cleaning, Tool, Line, OneBusy
  <2>8. CASE CleanBin(p)
    BY <2>8 DEF CleanBin, Busy, Making, Cleaning, Tool, Line, OneBusy
  <2>9. CASE CleanLib(p)
    BY <2>9 DEF CleanLib, Busy, Making, Cleaning, Tool, Line, OneBusy
  <2>10. CASE CleanStamp(p)
    BY <2>10 DEF CleanStamp, tools, Busy, Making, Cleaning, Tool, Line, OneBusy
  <2>11. CASE NothingNeeded(p)
    BY <2>11 DEF NothingNeeded, tools, Busy, Making, Cleaning, Tool, Line
  <2>12. CASE Make(p)
    BY <2>12 DEF Make, tools, Busy, Making, Cleaning, Tool, Line, Others,
         OneBusy
  <2>13. CASE Cc(p)
    BY <2>13 DEF Cc, Busy, Making, Cleaning, Tool, Line, OneBusy
  <2>14. CASE Mv(p)
    BY <2>14 DEF Mv, Busy, Making, Cleaning, Tool, Line, OneBusy
  <2>15. CASE Sweep(p)
    BY <2>15 DEF Sweep, Busy, Making, Cleaning, Tool, Line, OneBusy
  <2>16. CASE BuildTool(p)
    BY <2>16 DEF BuildTool, Busy, Making, Cleaning, Tool, Line, OneBusy,
         Following
  <2>17. CASE CcHello(p)
    BY <2>17 DEF CcHello, Busy, Making, Cleaning, Tool, Line, OneBusy
  <2>18. CASE LibcFound(p)
    BY <2>18 DEF LibcFound, Busy, Making, Cleaning, Tool, Line, OneBusy
  <2>19. CASE LibcNotFound(p)
    BY <2>19 DEF LibcNotFound, tools, Busy, Making, Cleaning, Tool, Line
  <2>20. CASE TestPassed(p)
    BY <2>20 DEF TestPassed, tools, Busy, Making, Cleaning, Tool, Line
  <2>21. CASE TestFailed(p)
    BY <2>21 DEF TestFailed, Busy, Making, Cleaning, Tool, Line, OneBusy, Fails
  <2>22. CASE CcFailed(p)
    BY <2>22 DEF CcFailed, tools, Busy, Making, Cleaning, Tool, Line, Fails
  <2>23. CASE RmConf(p)
    BY <2>23 DEF RmConf, Busy, Making, Cleaning, Tool, Line, OneBusy
  <2>24. CASE AppendLine(p)
    BY <2>24 DEF AppendLine, Busy, Making, Cleaning, Tool, Line, OneBusy
  <2>25. CASE Touch(p)
    BY <2>25 DEF Touch, tools, Busy, Making, Cleaning, Tool, Line, OneBusy,
         LinesSoFar, MadeSoFar, HasWrapper, HasBin, HasFl, HasParse
  <2>26. CASE Leave(p)
    BY <2>26 DEF Leave, tools, Busy, Making, Cleaning, Tool, Line
  <2>27. CASE Kill(p)
    BY <2>27 DEF Kill, tools, Busy, Making, Cleaning, Tool, Line, OneBusy
  <2> QED
    BY <1>s, <2>1, <2>2, <2>3, <2>4, <2>5, <2>6, <2>7, <2>8, <2>9, <2>10,
         <2>11, <2>12, <2>13, <2>14, <2>15, <2>16, <2>17, <2>18, <2>19, <2>20,
         <2>21, <2>22, <2>23, <2>24, <2>25, <2>26, <2>27 DEF Step
<1> QED
  BY <1>u, <1>e, <1>s DEF Next

\* Each step of each call (Build-Tools:55-398) keeps the invariant.
LEMMA InvStep == IInv /\ [Next]_vars => IInv'
<1> SUFFICES ASSUME IInv, [Next]_vars PROVE IInv'
  OBVIOUS
<1>1. Types /\ Flags
  BY DEF IInv, TypeOK, Types, Flags
<1>2. Types'
  BY <1>1, TypesStep
<1>3. Flags' /\ (~raced' => ~raced) /\ (~spoilt' => ~spoilt)
  BY <1>1, FlagsStep
<1>4. ~raced' => OneBusy' /\ LinesSoFar'
  BY <1>1, <1>3, BusyStep DEF IInv, Alone
<1>5. ~raced' /\ ~spoilt' => MadeSoFar' /\ NotSwept'
  BY <1>1, <1>3, MadeStep DEF IInv, Alone
<1>6. ~raced' /\ ~spoilt' => StampTaken' /\ StampVouches'
  BY <1>1, <1>3, StampStep DEF IInv, Alone
<1>7. Alone'
  BY <1>4, <1>5, <1>6 DEF Alone
<1>8. ~raced' => (Len(conf) <= Len(AllLines))'
  BY <1>4 DEF LinesSoFar, AllLines
<1> QED
  BY <1>2, <1>3, <1>7, <1>8 DEF IInv, TypeOK, Types, Flags

-----------------------------------------------------------------------------
\* The tools are not only there but built from the sources as they are.
FreshSoFar == ~missed => \A p \in Proc :
  /\ pc[p] = "mv" => tmp[p] = src
  /\ pc[p] \in HasWrapper => tool["wrapper"] = src
  /\ pc[p] \in HasBin => tool["bin"] = src
  /\ pc[p] \in HasFl => tool["fl_wrapper"] = src
  /\ pc[p] \in HasParse => tool["parse-config"] = src
  /\ pc[p] = "touch" => tool["wrapper-config"] = src

StampFresh == stamp /\ ~newer /\ ~missed => \/ \A t \in Tool : tool[t] = src
                                            \/ \E p \in Proc : pc[p] \in Cleaning

\* A call builds from the sources of the moment; a change meanwhile is missed.
LEMMA FreshStep ==
  ASSUME Types, OneBusy, NotSwept, FreshSoFar, [Next]_vars, ~raced'
  PROVE  FreshSoFar'
<1> USE DEF Types, OneBusy, NotSwept, FreshSoFar, Goes, HasWrapper, HasBin, HasFl, HasParse
<1>u. CASE UNCHANGED vars
  BY <1>u DEF vars
<1>e. CASE Edit
  BY <1>e DEF Edit, NobodyBusy, tools, tree, faults, Busy, Making, Cleaning, Tool, Line
<1>s. ASSUME NEW p \in Proc, Step(p) PROVE FreshSoFar'
  <2>1. CASE Call(p)
    BY <2>1 DEF Call, tools, tree, faults, Busy, Making, Cleaning, Tool, Line
  <2>2. CASE FoundNewer(p)
    BY <2>2 DEF FoundNewer, tools, tree, faults, Busy, Making, Cleaning, Tool, Line
  <2>3. CASE FoundNothing(p)
    BY <2>3 DEF FoundNothing, tools, tree, faults, Busy, Making, Cleaning, Tool, Line
  <2>4. CASE RmStamp(p)
    BY <2>4 DEF RmStamp, tools, tree, faults, Busy, Making, Cleaning, Tool, Line
  <2>5. CASE NoCleanup(p)
    BY <2>5 DEF NoCleanup, tools, tree, faults, Busy, Making, Cleaning, Tool, Line
  <2>6. CASE Cleanup(p)
    BY <2>6 DEF Cleanup, Others, tools, tree, faults, Busy, Making, Cleaning, Tool, Line
  <2>7. CASE CleanWrapper(p)
    BY <2>7 DEF CleanWrapper, tools, tree, faults, Busy, Making, Cleaning, Tool, Line
  <2>8. CASE CleanBin(p)
    BY <2>8 DEF CleanBin, tools, tree, faults, Busy, Making, Cleaning, Tool, Line
  <2>9. CASE CleanLib(p)
    BY <2>9 DEF CleanLib, tools, tree, faults, Busy, Making, Cleaning, Tool, Line
  <2>10. CASE CleanStamp(p)
    BY <2>10 DEF CleanStamp, tools, tree, faults, Busy, Making, Cleaning, Tool, Line
  <2>11. CASE NothingNeeded(p)
    BY <2>11 DEF NothingNeeded, tools, tree, faults, Busy, Making, Cleaning, Tool, Line
  <2>12. CASE Make(p)
    BY <2>12 DEF Make, Others, tools, tree, faults, Busy, Making, Cleaning, Tool, Line
  <2>13. CASE Cc(p)
    BY <2>13 DEF Cc, tools, tree, faults, Busy, Making, Cleaning, Tool, Line
  <2>14. CASE Mv(p)
    BY <2>14 DEF Mv, tools, tree, faults, Busy, Making, Cleaning, Tool, Line
  <2>15. CASE Sweep(p)
    BY <2>15 DEF Sweep, tools, tree, faults, Busy, Making, Cleaning, Tool, Line
  <2>16. CASE BuildTool(p)
    BY <2>16 DEF BuildTool, Following, tools, tree, faults, Busy, Making, Cleaning, Tool, Line
  <2>17. CASE CcHello(p)
    BY <2>17 DEF CcHello, tools, tree, faults, Busy, Making, Cleaning, Tool, Line
  <2>18. CASE LibcFound(p)
    BY <2>18 DEF LibcFound, tools, tree, faults, Busy, Making, Cleaning, Tool, Line
  <2>19. CASE LibcNotFound(p)
    BY <2>19 DEF LibcNotFound, tools, tree, faults, Busy, Making, Cleaning, Tool, Line
  <2>20. CASE TestPassed(p)
    BY <2>20 DEF TestPassed, tools, tree, faults, Busy, Making, Cleaning, Tool, Line
  <2>21. CASE TestFailed(p)
    BY <2>21 DEF TestFailed, Fails, tools, tree, faults, Busy, Making, Cleaning, Tool, Line
  <2>22. CASE CcFailed(p)
    BY <2>22 DEF CcFailed, Fails, tools, tree, faults, Busy, Making, Cleaning, Tool, Line
  <2>23. CASE RmConf(p)
    BY <2>23 DEF RmConf, tools, tree, faults, Busy, Making, Cleaning, Tool, Line
  <2>24. CASE AppendLine(p)
    BY <2>24 DEF AppendLine, tools, tree, faults, Busy, Making, Cleaning, Tool, Line
  <2>25. CASE Touch(p)
    BY <2>25 DEF Touch, tools, tree, faults, Busy, Making, Cleaning, Tool, Line
  <2>26. CASE Leave(p)
    BY <2>26 DEF Leave, tools, tree, faults, Busy, Making, Cleaning, Tool, Line
  <2>27. CASE Kill(p)
    BY <2>27 DEF Kill, tools, tree, faults, Busy, Making, Cleaning, Tool, Line
  <2> QED
    BY <1>s, <2>1, <2>2, <2>3, <2>4, <2>5, <2>6, <2>7, <2>8, <2>9, <2>10,
         <2>11, <2>12, <2>13, <2>14, <2>15, <2>16, <2>17, <2>18, <2>19, <2>20,
         <2>21, <2>22, <2>23, <2>24, <2>25, <2>26, <2>27 DEF Step
<1> QED
  BY <1>u, <1>e, <1>s DEF Next

\* So the stamp, when no file is newer, vouches for that.
LEMMA StampFreshStep ==
  ASSUME Types, OneBusy, StampTaken, FreshSoFar, StampFresh,
         [Next]_vars, ~raced', ~spoilt'
  PROVE  StampFresh'
<1> USE DEF Types, OneBusy, StampTaken, StampFresh, Goes
<1>u. CASE UNCHANGED vars
  BY <1>u DEF vars
<1>e. CASE Edit
  BY <1>e DEF Edit, NobodyBusy, tools, tree, faults, Busy, Making, Cleaning, Tool, Line
<1>s. ASSUME NEW p \in Proc, Step(p) PROVE StampFresh'
  <2>1. CASE Call(p)
    BY <2>1 DEF Call, tools, tree, faults, Busy, Making, Cleaning, Tool, Line
  <2>2. CASE FoundNewer(p)
    BY <2>2 DEF FoundNewer, tools, tree, faults, Busy, Making, Cleaning, Tool, Line
  <2>3. CASE FoundNothing(p)
    BY <2>3 DEF FoundNothing, tools, tree, faults, Busy, Making, Cleaning, Tool, Line
  <2>4. CASE RmStamp(p)
    BY <2>4 DEF RmStamp, tools, tree, faults, Busy, Making, Cleaning, Tool, Line
  <2>5. CASE NoCleanup(p)
    BY <2>5 DEF NoCleanup, tools, tree, faults, Busy, Making, Cleaning, Tool, Line
  <2>6. CASE Cleanup(p)
    BY <2>6 DEF Cleanup, Others, tools, tree, faults, Busy, Making, Cleaning, Tool, Line
  <2>7. CASE CleanWrapper(p)
    BY <2>7 DEF CleanWrapper, tools, tree, faults, Busy, Making, Cleaning, Tool, Line
  <2>8. CASE CleanBin(p)
    BY <2>8 DEF CleanBin, tools, tree, faults, Busy, Making, Cleaning, Tool, Line
  <2>9. CASE CleanLib(p)
    BY <2>9 DEF CleanLib, tools, tree, faults, Busy, Making, Cleaning, Tool, Line
  <2>10. CASE CleanStamp(p)
    BY <2>10 DEF CleanStamp, tools, tree, faults, Busy, Making, Cleaning, Tool, Line
  <2>11. CASE NothingNeeded(p)
    BY <2>11 DEF NothingNeeded, tools, tree, faults, Busy, Making, Cleaning, Tool, Line
  <2>12. CASE Make(p)
    BY <2>12 DEF Make, Others, tools, tree, faults, Busy, Making, Cleaning, Tool, Line
  <2>13. CASE Cc(p)
    BY <2>13 DEF Cc, tools, tree, faults, Busy, Making, Cleaning, Tool, Line
  <2>14. CASE Mv(p)
    BY <2>14 DEF Mv, tools, tree, faults, Busy, Making, Cleaning, Tool, Line
  <2>15. CASE Sweep(p)
    BY <2>15 DEF Sweep, tools, tree, faults, Busy, Making, Cleaning, Tool, Line
  <2>16. CASE BuildTool(p)
    BY <2>16 DEF BuildTool, Following, tools, tree, faults, Busy, Making, Cleaning, Tool, Line
  <2>17. CASE CcHello(p)
    BY <2>17 DEF CcHello, tools, tree, faults, Busy, Making, Cleaning, Tool, Line
  <2>18. CASE LibcFound(p)
    BY <2>18 DEF LibcFound, tools, tree, faults, Busy, Making, Cleaning, Tool, Line
  <2>19. CASE LibcNotFound(p)
    BY <2>19 DEF LibcNotFound, tools, tree, faults, Busy, Making, Cleaning, Tool, Line
  <2>20. CASE TestPassed(p)
    BY <2>20 DEF TestPassed, tools, tree, faults, Busy, Making, Cleaning, Tool, Line
  <2>21. CASE TestFailed(p)
    BY <2>21 DEF TestFailed, Fails, tools, tree, faults, Busy, Making, Cleaning, Tool, Line
  <2>22. CASE CcFailed(p)
    BY <2>22 DEF CcFailed, Fails, tools, tree, faults, Busy, Making, Cleaning, Tool, Line
  <2>23. CASE RmConf(p)
    BY <2>23 DEF RmConf, tools, tree, faults, Busy, Making, Cleaning, Tool, Line
  <2>24. CASE AppendLine(p)
    BY <2>24 DEF AppendLine, tools, tree, faults, Busy, Making, Cleaning, Tool, Line
  <2>25. CASE Touch(p)
    BY <2>25 DEF Touch, FreshSoFar, HasWrapper, HasBin, HasFl, HasParse, tools, tree, faults, Busy, Making, Cleaning, Tool, Line
  <2>26. CASE Leave(p)
    BY <2>26 DEF Leave, tools, tree, faults, Busy, Making, Cleaning, Tool, Line
  <2>27. CASE Kill(p)
    BY <2>27 DEF Kill, tools, tree, faults, Busy, Making, Cleaning, Tool, Line
  <2> QED
    BY <1>s, <2>1, <2>2, <2>3, <2>4, <2>5, <2>6, <2>7, <2>8, <2>9, <2>10,
         <2>11, <2>12, <2>13, <2>14, <2>15, <2>16, <2>17, <2>18, <2>19, <2>20,
         <2>21, <2>22, <2>23, <2>24, <2>25, <2>26, <2>27 DEF Step
<1> QED
  BY <1>u, <1>e, <1>s DEF Next

-----------------------------------------------------------------------------
\* What is left of it when calls race: tools are never taken away, and an
\* unfinished wrapper is removed only when there is a finished one.
CleanAlone == \A p, q \in Proc : pc[p] \in Cleaning /\ pc[q] \in Busy => p = q

MvSafe == tool["wrapper"] # 0 \/ \A p \in Proc : pc[p] = "mv" => tmp[p] # 0

StampWhole == stamp => Whole \/ \E p \in Proc : pc[p] \in Cleaning

RaceInv == CleanAlone /\ MadeSoFar /\ MvSafe /\ StampWhole

\* A test that fails is counted.
LEMMA FailureNoted ==
  ASSUME Types, NEW p \in Proc, TestFailed(p)
  PROVE  failures' # failures
<1>1. failures \in Nat
  BY DEF Types
<1>2. failures' = failures + 1
  BY DEF TestFailed, Fails
<1> QED
  BY <1>1, <1>2

\* A clean-up and a call that builds never meet, but for a spoilt clean-up.
LEMMA CleanAloneStep ==
  ASSUME Types, CleanAlone, [Next]_vars, ~spoilt'
  PROVE  CleanAlone'
<1> USE DEF Types, CleanAlone, Goes
<1>0. ASSUME NEW p \in Proc, NEW w, pc' = [pc EXCEPT ![p] = w],
             \/ w \notin Busy
             \/ pc[p] \in Busy /\ w \notin Cleaning
             \/ pc[p] \in Cleaning
             \/ \A q \in Proc \ {p} : pc[q] \notin Busy
      PROVE  CleanAlone'
  <2> SUFFICES ASSUME NEW q \in Proc, NEW r \in Proc, pc'[q] \in Cleaning, pc'[r] \in Busy
               PROVE  q = r
    OBVIOUS
  <2>1. Cleaning \subseteq Busy
    BY DEF Busy
  <2> QED
    BY <1>0, <2>1
<1>u. CASE UNCHANGED vars
  BY <1>u DEF vars
<1>e. CASE Edit
  BY <1>e DEF Edit, NobodyBusy, tools, tree, faults, Busy, Making, Cleaning, Tool, Line
<1>s. ASSUME NEW p \in Proc, Step(p) PROVE CleanAlone'
  <2>1. CASE Call(p)
    BY <2>1 DEF Call, tools, tree, faults, Busy, Making, Cleaning, Tool, Line
  <2>2. CASE FoundNewer(p)
    BY <2>2 DEF FoundNewer, tools, tree, faults, Busy, Making, Cleaning, Tool, Line
  <2>3. CASE FoundNothing(p)
    BY <2>3 DEF FoundNothing, tools, tree, faults, Busy, Making, Cleaning, Tool, Line
  <2>4. CASE RmStamp(p)
    BY <2>4 DEF RmStamp, tools, tree, faults, Busy, Making, Cleaning, Tool, Line
  <2>5. CASE NoCleanup(p)
    BY <2>5 DEF NoCleanup, tools, tree, faults, Busy, Making, Cleaning, Tool, Line
  <2>6. CASE Cleanup(p)
    <3>1. \A q \in Proc \ {p} : pc[q] \notin Busy
      BY <2>6 DEF Cleanup, Others
    <3> QED
      BY <2>6, <3>1, <1>0 DEF Cleanup
  <2>7. CASE CleanWrapper(p)
    BY <2>7, <1>0 DEF CleanWrapper, Cleaning
  <2>8. CASE CleanBin(p)
    BY <2>8, <1>0 DEF CleanBin, Cleaning
  <2>9. CASE CleanLib(p)
    BY <2>9, <1>0 DEF CleanLib, Cleaning
  <2>10. CASE CleanStamp(p)
    BY <2>10, <1>0 DEF CleanStamp, Busy, Cleaning, Making, Tool, Line
  <2>11. CASE NothingNeeded(p)
    BY <2>11 DEF NothingNeeded, tools, tree, faults, Busy, Making, Cleaning, Tool, Line
  <2>12. CASE Make(p)
    BY <2>12 DEF Make, Others, tools, tree, faults, Busy, Making, Cleaning, Tool, Line
  <2>13. CASE Cc(p)
    BY <2>13 DEF Cc, tools, tree, faults, Busy, Making, Cleaning, Tool, Line
  <2>14. CASE Mv(p)
    BY <2>14 DEF Mv, tools, tree, faults, Busy, Making, Cleaning, Tool, Line
  <2>15. CASE Sweep(p)
    BY <2>15 DEF Sweep, tools, tree, faults, Busy, Making, Cleaning, Tool, Line
  <2>16. CASE BuildTool(p)
    BY <2>16 DEF BuildTool, Following, tools, tree, faults, Busy, Making, Cleaning, Tool, Line
  <2>17. CASE CcHello(p)
    BY <2>17 DEF CcHello, tools, tree, faults, Busy, Making, Cleaning, Tool, Line
  <2>18. CASE LibcFound(p)
    BY <2>18 DEF LibcFound, tools, tree, faults, Busy, Making, Cleaning, Tool, Line
  <2>19. CASE LibcNotFound(p)
    BY <2>19 DEF LibcNotFound, tools, tree, faults, Busy, Making, Cleaning, Tool, Line
  <2>20. CASE TestPassed(p)
    BY <2>20 DEF TestPassed, tools, tree, faults, Busy, Making, Cleaning, Tool, Line
  <2>21. CASE TestFailed(p)
    BY <2>21 DEF TestFailed, Fails, tools, tree, faults, Busy, Making, Cleaning, Tool, Line
  <2>22. CASE CcFailed(p)
    BY <2>22 DEF CcFailed, Fails, tools, tree, faults, Busy, Making, Cleaning, Tool, Line
  <2>23. CASE RmConf(p)
    BY <2>23 DEF RmConf, tools, tree, faults, Busy, Making, Cleaning, Tool, Line
  <2>24. CASE AppendLine(p)
    BY <2>24 DEF AppendLine, tools, tree, faults, Busy, Making, Cleaning, Tool, Line
  <2>25. CASE Touch(p)
    BY <2>25 DEF Touch, tools, tree, faults, Busy, Making, Cleaning, Tool, Line
  <2>26. CASE Leave(p)
    BY <2>26 DEF Leave, tools, tree, faults, Busy, Making, Cleaning, Tool, Line
  <2>27. CASE Kill(p)
    BY <2>27 DEF Kill, tools, tree, faults, Busy, Making, Cleaning, Tool, Line
  <2> QED
    BY <1>s, <2>1, <2>2, <2>3, <2>4, <2>5, <2>6, <2>7, <2>8, <2>9, <2>10,
         <2>11, <2>12, <2>13, <2>14, <2>15, <2>16, <2>17, <2>18, <2>19, <2>20,
         <2>21, <2>22, <2>23, <2>24, <2>25, <2>26, <2>27 DEF Step
<1> QED
  BY <1>u, <1>e, <1>s DEF Next

\* No call that only builds takes a tool away from another one.
LEMMA MadeInRaces ==
  ASSUME Types, CleanAlone, MadeSoFar, MvSafe, [Next]_vars, failures' = failures
  PROVE  MadeSoFar' /\ MvSafe'
<1> USE DEF Types, CleanAlone, MadeSoFar, MvSafe, Goes, HasWrapper, HasBin, HasFl, HasParse
<1>u. CASE UNCHANGED vars
  BY <1>u DEF vars
<1>e. CASE Edit
  BY <1>e DEF Edit, NobodyBusy, tools, tree, faults, Busy, Making, Cleaning, Tool, Line
<1>s. ASSUME NEW p \in Proc, Step(p) PROVE MadeSoFar' /\ MvSafe'
  <2>1. CASE Call(p)
    BY <2>1 DEF Call, tools, tree, faults, Busy, Making, Cleaning, Tool, Line
  <2>2. CASE FoundNewer(p)
    BY <2>2 DEF FoundNewer, tools, tree, faults, Busy, Making, Cleaning, Tool, Line
  <2>3. CASE FoundNothing(p)
    BY <2>3 DEF FoundNothing, tools, tree, faults, Busy, Making, Cleaning, Tool, Line
  <2>4. CASE RmStamp(p)
    BY <2>4 DEF RmStamp, tools, tree, faults, Busy, Making, Cleaning, Tool, Line
  <2>5. CASE NoCleanup(p)
    BY <2>5 DEF NoCleanup, tools, tree, faults, Busy, Making, Cleaning, Tool, Line
  <2>6. CASE Cleanup(p)
    BY <2>6 DEF Cleanup, Others, tools, tree, faults, Busy, Making, Cleaning, Tool, Line
  <2>7. CASE CleanWrapper(p)
    BY <2>7 DEF CleanWrapper, tools, tree, faults, Busy, Making, Cleaning, Tool, Line
  <2>8. CASE CleanBin(p)
    BY <2>8 DEF CleanBin, tools, tree, faults, Busy, Making, Cleaning, Tool, Line
  <2>9. CASE CleanLib(p)
    BY <2>9 DEF CleanLib, tools, tree, faults, Busy, Making, Cleaning, Tool, Line
  <2>10. CASE CleanStamp(p)
    BY <2>10 DEF CleanStamp, tools, tree, faults, Busy, Making, Cleaning, Tool, Line
  <2>11. CASE NothingNeeded(p)
    BY <2>11 DEF NothingNeeded, tools, tree, faults, Busy, Making, Cleaning, Tool, Line
  <2>12. CASE Make(p)
    BY <2>12 DEF Make, Others, tools, tree, faults, Busy, Making, Cleaning, Tool, Line
  <2>13. CASE Cc(p)
    BY <2>13 DEF Cc, tools, tree, faults, Busy, Making, Cleaning, Tool, Line
  <2>14. CASE Mv(p)
    BY <2>14 DEF Mv, tools, tree, faults, Busy, Making, Cleaning, Tool, Line
  <2>15. CASE Sweep(p)
    BY <2>15 DEF Sweep, tools, tree, faults, Busy, Making, Cleaning, Tool, Line
  <2>16. CASE BuildTool(p)
    BY <2>16 DEF BuildTool, Following, tools, tree, faults, Busy, Making, Cleaning, Tool, Line
  <2>17. CASE CcHello(p)
    BY <2>17 DEF CcHello, tools, tree, faults, Busy, Making, Cleaning, Tool, Line
  <2>18. CASE LibcFound(p)
    BY <2>18 DEF LibcFound, tools, tree, faults, Busy, Making, Cleaning, Tool, Line
  <2>19. CASE LibcNotFound(p)
    BY <2>19 DEF LibcNotFound, tools, tree, faults, Busy, Making, Cleaning, Tool, Line
  <2>20. CASE TestPassed(p)
    BY <2>20 DEF TestPassed, tools, tree, faults, Busy, Making, Cleaning, Tool, Line
  <2>21. CASE TestFailed(p)
    BY <2>21, FailureNoted
  <2>22. CASE CcFailed(p)
    BY <2>22 DEF CcFailed, Fails, tools, tree, faults, Busy, Making, Cleaning, Tool, Line
  <2>23. CASE RmConf(p)
    BY <2>23 DEF RmConf, tools, tree, faults, Busy, Making, Cleaning, Tool, Line
  <2>24. CASE AppendLine(p)
    BY <2>24 DEF AppendLine, tools, tree, faults, Busy, Making, Cleaning, Tool, Line
  <2>25. CASE Touch(p)
    BY <2>25 DEF Touch, tools, tree, faults, Busy, Making, Cleaning, Tool, Line
  <2>26. CASE Leave(p)
    BY <2>26 DEF Leave, tools, tree, faults, Busy, Making, Cleaning, Tool, Line
  <2>27. CASE Kill(p)
    BY <2>27 DEF Kill, tools, tree, faults, Busy, Making, Cleaning, Tool, Line
  <2> QED
    BY <1>s, <2>1, <2>2, <2>3, <2>4, <2>5, <2>6, <2>7, <2>8, <2>9, <2>10,
         <2>11, <2>12, <2>13, <2>14, <2>15, <2>16, <2>17, <2>18, <2>19, <2>20,
         <2>21, <2>22, <2>23, <2>24, <2>25, <2>26, <2>27 DEF Step
<1> QED
  BY <1>u, <1>e, <1>s DEF Next

\* So the stamp vouches for whole tools, or for a clean-up that will remove it.
LEMMA StampInRaces ==
  ASSUME Types, CleanAlone, MadeSoFar, StampWhole, [Next]_vars, ~spoilt', failures' = failures
  PROVE  StampWhole'
<1> USE DEF Types, CleanAlone, StampWhole, Whole, Goes
<1>u. CASE UNCHANGED vars
  BY <1>u DEF vars
<1>e. CASE Edit
  BY <1>e DEF Edit, NobodyBusy, tools, tree, faults, Busy, Making, Cleaning, Tool, Line
<1>s. ASSUME NEW p \in Proc, Step(p) PROVE StampWhole'
  <2>1. CASE Call(p)
    BY <2>1 DEF Call, tools, tree, faults, Busy, Making, Cleaning, Tool, Line
  <2>2. CASE FoundNewer(p)
    BY <2>2 DEF FoundNewer, tools, tree, faults, Busy, Making, Cleaning, Tool, Line
  <2>3. CASE FoundNothing(p)
    BY <2>3 DEF FoundNothing, tools, tree, faults, Busy, Making, Cleaning, Tool, Line
  <2>4. CASE RmStamp(p)
    BY <2>4 DEF RmStamp, tools, tree, faults, Busy, Making, Cleaning, Tool, Line
  <2>5. CASE NoCleanup(p)
    BY <2>5 DEF NoCleanup, tools, tree, faults, Busy, Making, Cleaning, Tool, Line
  <2>6. CASE Cleanup(p)
    BY <2>6 DEF Cleanup, Others, tools, tree, faults, Busy, Making, Cleaning, Tool, Line
  <2>7. CASE CleanWrapper(p)
    BY <2>7 DEF CleanWrapper, tools, tree, faults, Busy, Making, Cleaning, Tool, Line
  <2>8. CASE CleanBin(p)
    BY <2>8 DEF CleanBin, tools, tree, faults, Busy, Making, Cleaning, Tool, Line
  <2>9. CASE CleanLib(p)
    BY <2>9 DEF CleanLib, tools, tree, faults, Busy, Making, Cleaning, Tool, Line
  <2>10. CASE CleanStamp(p)
    BY <2>10 DEF CleanStamp, tools, tree, faults, Busy, Making, Cleaning, Tool, Line
  <2>11. CASE NothingNeeded(p)
    BY <2>11 DEF NothingNeeded, tools, tree, faults, Busy, Making, Cleaning, Tool, Line
  <2>12. CASE Make(p)
    BY <2>12 DEF Make, Others, tools, tree, faults, Busy, Making, Cleaning, Tool, Line
  <2>13. CASE Cc(p)
    BY <2>13 DEF Cc, tools, tree, faults, Busy, Making, Cleaning, Tool, Line
  <2>14. CASE Mv(p)
    BY <2>14 DEF Mv, tools, tree, faults, Busy, Making, Cleaning, Tool, Line
  <2>15. CASE Sweep(p)
    BY <2>15 DEF Sweep, tools, tree, faults, Busy, Making, Cleaning, Tool, Line
  <2>16. CASE BuildTool(p)
    BY <2>16 DEF BuildTool, Following, tools, tree, faults, Busy, Making, Cleaning, Tool, Line
  <2>17. CASE CcHello(p)
    BY <2>17 DEF CcHello, tools, tree, faults, Busy, Making, Cleaning, Tool, Line
  <2>18. CASE LibcFound(p)
    BY <2>18 DEF LibcFound, tools, tree, faults, Busy, Making, Cleaning, Tool, Line
  <2>19. CASE LibcNotFound(p)
    BY <2>19 DEF LibcNotFound, tools, tree, faults, Busy, Making, Cleaning, Tool, Line
  <2>20. CASE TestPassed(p)
    BY <2>20 DEF TestPassed, tools, tree, faults, Busy, Making, Cleaning, Tool, Line
  <2>21. CASE TestFailed(p)
    BY <2>21, FailureNoted
  <2>22. CASE CcFailed(p)
    BY <2>22 DEF CcFailed, Fails, tools, tree, faults, Busy, Making, Cleaning, Tool, Line
  <2>23. CASE RmConf(p)
    BY <2>23 DEF RmConf, tools, tree, faults, Busy, Making, Cleaning, Tool, Line
  <2>24. CASE AppendLine(p)
    BY <2>24 DEF AppendLine, tools, tree, faults, Busy, Making, Cleaning, Tool, Line
  <2>25. CASE Touch(p)
    BY <2>25 DEF Touch, MadeSoFar, HasWrapper, HasBin, HasFl, HasParse, tools, tree, faults, Busy, Making, Cleaning, Tool, Line
  <2>26. CASE Leave(p)
    BY <2>26 DEF Leave, tools, tree, faults, Busy, Making, Cleaning, Tool, Line
  <2>27. CASE Kill(p)
    BY <2>27 DEF Kill, tools, tree, faults, Busy, Making, Cleaning, Tool, Line
  <2> QED
    BY <1>s, <2>1, <2>2, <2>3, <2>4, <2>5, <2>6, <2>7, <2>8, <2>9, <2>10,
         <2>11, <2>12, <2>13, <2>14, <2>15, <2>16, <2>17, <2>18, <2>19, <2>20,
         <2>21, <2>22, <2>23, <2>24, <2>25, <2>26, <2>27 DEF Step
<1> QED
  BY <1>u, <1>e, <1>s DEF Next

\* Faults are counted, and not taken back.
LEMMA FaultsStep ==
  ASSUME Types, [Next]_vars
  PROVE  /\ kills' = 0 => kills = 0 /\ kills' = kills
         /\ failures' = 0 => failures = 0 /\ failures' = failures
<1> DEFINE Kept == /\ kills' = 0 => kills = 0 /\ kills' = kills
                   /\ failures' = 0 => failures = 0 /\ failures' = failures
<1>0. kills \in Nat /\ failures \in Nat /\ \A n \in Nat : n + 1 # 0
  <2>1. \A n \in Nat : n + 1 # 0
    OBVIOUS
  <2> QED
    BY <2>1 DEF Types
<1>t. ASSUME NEW p \in Proc, TestFailed(p) \/ CcFailed(p) PROVE Kept
  BY <1>0, <1>t, Zenon DEF TestFailed, CcFailed, Fails, faults
<1>k. ASSUME NEW p \in Proc, Kill(p) PROVE Kept
  BY <1>0, <1>k, Zenon DEF Kill
<1>u. CASE UNCHANGED <<kills, failures>>
  BY <1>u
<1> QED
  BY <1>t, <1>k, <1>u DEF Next, Step, vars, faults, Edit,
     Call, FoundNewer, FoundNothing, RmStamp, NoCleanup, Cleanup, CleanWrapper, CleanBin,
     CleanLib, CleanStamp, NothingNeeded, Make, Cc, Mv, Sweep, BuildTool, CcHello,
     LibcFound, LibcNotFound, TestPassed, RmConf, AppendLine, Touch, Leave

-----------------------------------------------------------------------------
\* The invariant holds in every state of every behaviour.
THEOREM Invariance == Spec => []IInv
<1> QED
  BY InitInv, InvStep, PTL DEF Spec

\* Type correctness of Build-Tools (BuildTools!TypeOK), with no line of the
\* pkg_*.conf files ever twice as long as no two calls work at the same time.
THEOREM TypeCorrect == Spec => []TypeOK
<1>1. IInv => TypeOK
  BY DEF IInv
<1> QED
  BY Invariance, <1>1, PTL

\* When nobody builds or cleans tools, nobody has done so beside another and
\* no clean-up was killed, the stamp (.lastupdate) vouches for all the tools,
\* however many calls were killed or have failed (Build-Tools:73,99,397).
THEOREM StampIsHonest == Spec => []StampMeansWhole
<1>1. IInv => StampMeansWhole
  BY DEF IInv, Alone, StampVouches, StampMeansWhole, Settled, NobodyBusy, Busy
<1> QED
  BY Invariance, <1>1, PTL

\* The tools the stamp vouches for were built from the sources as they are,
\* unless a change is still to be found or was missed (Build-Tools:55-60,397).
THEOREM StampIsFresh == Spec => []StampMeansFresh
<1> DEFINE Inv == /\ IInv
                  /\ ~raced /\ ~spoilt => FreshSoFar /\ StampFresh
<1>1. Init => Inv
  <2> SUFFICES ASSUME Init PROVE FreshSoFar /\ StampFresh
    BY InitInv
  <2>1. ~stamp /\ \A p \in Proc : pc[p] = "off"
    BY DEF Init
  <2> QED
    BY <2>1 DEF FreshSoFar, StampFresh, HasWrapper, HasBin, HasFl, HasParse
<1>2. Inv /\ [Next]_vars => Inv'
  <2> SUFFICES ASSUME Inv, [Next]_vars PROVE Inv'
    OBVIOUS
  <2>1. IInv' /\ Types /\ Flags
    BY InvStep DEF IInv, TypeOK, Types, Flags
  <2>2. (~raced' => ~raced) /\ (~spoilt' => ~spoilt)
    BY <2>1, FlagsStep
  <2>3. ASSUME ~raced', ~spoilt' PROVE FreshSoFar' /\ StampFresh'
    BY <2>1, <2>2, <2>3, FreshStep, StampFreshStep DEF IInv, Alone
  <2> QED
    BY <2>1, <2>3
<1>3. Inv => StampMeansFresh
  BY DEF StampMeansFresh, StampFresh, Settled, NobodyBusy, Busy
<1> QED
  BY <1>1, <1>2, <1>3, PTL DEF Spec

\* The tools are whole even when calls have built them at the same time
\* (Build-Tools:269-278), if no clean-up, kill or failure has come between.
THEOREM WholeInRaces == Spec => []WholeDespiteRace
<1> DEFINE Inv == /\ Types /\ Flags
                  /\ ~spoilt /\ kills = 0 /\ failures = 0 => RaceInv
<1>1. Init => Inv
  <2> SUFFICES ASSUME Init PROVE Inv
    OBVIOUS
  <2>1. Types /\ Flags /\ MadeSoFar
    BY InitInv DEF IInv, TypeOK, Types, Flags, Alone, Init
  <2>2. ~stamp /\ \A p \in Proc : pc[p] = "off"
    BY DEF Init
  <2> QED
    BY <2>1, <2>2 DEF RaceInv, CleanAlone, MvSafe, StampWhole, Cleaning
<1>2. Inv /\ [Next]_vars => Inv'
  <2> SUFFICES ASSUME Inv, [Next]_vars PROVE Inv'
    OBVIOUS
  <2>1. Types' /\ Flags' /\ (~spoilt' => ~spoilt)
    BY TypesStep, FlagsStep
  <2>2. ASSUME ~spoilt', kills' = 0, failures' = 0 PROVE RaceInv'
    BY <2>1, <2>2, FaultsStep, CleanAloneStep, MadeInRaces, StampInRaces DEF RaceInv
  <2> QED
    BY <2>1, <2>2
<1>3. Inv => WholeDespiteRace
  BY DEF WholeDespiteRace, RaceInv, StampWhole, Settled, NobodyBusy, Busy
<1> QED
  BY <1>1, <1>2, <1>3, PTL DEF Spec
=============================================================================
