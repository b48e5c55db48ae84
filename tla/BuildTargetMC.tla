--------------------------- MODULE BuildTargetMC ---------------------------
(***************************************************************************)
(* Small distributions for BuildTarget.                                    *)
(***************************************************************************)
EXTENDS BuildTarget

\* A toolchain package, two ordinary ones with a job on both sides of
\* ContinueOnErrorAfter = 4, and t2-debug in the last stage.
MCStages == <<{0, 5}, {4, 9}, {2, 9}, {9}>>
MCT2Debug == {4}

\* Two packages, for the runs with a restart.
MCTwoStages == <<{1, 9}, {5, 9}>>
MCNoT2Debug == {}

BothModes == {"loop", "job"}
LoopOnly == {"loop"}
=============================================================================
