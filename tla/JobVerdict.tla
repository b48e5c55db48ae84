----------------------------- MODULE JobVerdict -----------------------------
(***************************************************************************)
(* What scripts/Build-Pkg promises to its caller about the one job it      *)
(* builds: how the job's files in var/adm/logs change and what the exit    *)
(* status says.  BuildPkg is shown to implement it, and the Build-Pkg      *)
(* steps of BuildTarget are these.                                         *)
(*                                                                         *)
(* The verdict is decided before it is told: between the two Build-Pkg may *)
(* still die, and leave a verdict with the status of a death.              *)
(***************************************************************************)
CONSTANT File                \* {"log", "err", "out"}

VARIABLES files, phase, exit

vars == <<files, phase, exit>>

Init == files \in SUBSET File /\ phase = "start" /\ exit = "none"

Denied == /\ phase \in {"start", "cleared"}
          /\ phase' = "ended" /\ exit' = "failure"
          /\ UNCHANGED files

AlreadyBuilt == /\ phase = "start" /\ "log" \in files
                /\ phase' = "ended" /\ exit' = "success"
                /\ UNCHANGED files

Clear == /\ phase = "start"
         /\ phase' = "cleared" /\ files' = {}
         /\ UNCHANGED exit

ConfigError == /\ phase = "cleared"
               /\ phase' = "decided" /\ files' = {"err"}
               /\ UNCHANGED exit

Begin == /\ phase = "cleared"
         /\ phase' = "begun" /\ files' = {"out"}
         /\ UNCHANGED exit

TouchLog == /\ phase = "begun"
            /\ files' = files \cup {"log"}
            /\ UNCHANGED <<phase, exit>>

Abort == /\ phase = "begun"
         /\ files' = files \ {"log"}
         /\ UNCHANGED <<phase, exit>>

\* The verdict: exactly one file is left.
Decide == /\ phase = "begun"
          /\ phase' = "decided"
          /\ files' = IF "log" \in files THEN {"log"} ELSE {"err"}
          /\ UNCHANGED exit

\* The exit status says which.
End == /\ phase = "decided"
       /\ phase' = "ended"
       /\ exit' = IF "log" \in files THEN "success" ELSE "failure"
       /\ UNCHANGED files

Die == /\ phase \in {"start", "cleared", "begun", "decided"}
       /\ phase' = "ended" /\ exit' = "died"
       /\ UNCHANGED files

Next == \/ Denied \/ AlreadyBuilt \/ Clear \/ ConfigError \/ Begin
        \/ TouchLog \/ Abort \/ Decide \/ End \/ Die

Spec == Init /\ [][Next]_vars
=============================================================================
