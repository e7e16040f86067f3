--------------------------- MODULE MCOrchestrator ---------------------------
(* Bounds for TLC.  The dependency graph is chosen in Init, so one run     *)
(* covers every backlog of these stories, those with cycles included.      *)
EXTENDS HarnessTable, TLC

CONSTANTS s1, s2, s3

MCRank == (s1 :> 1) @@ (s2 :> 2) @@ (s3 :> 3)
MCAttemptBudget == (s1 :> 2) @@ (s2 :> 1) @@ (s3 :> 0)

(* Two stories are enough for the runs that look for a counterexample.    *)
MCRank2 == (s1 :> 1) @@ (s2 :> 2)
MCAttemptBudget2 == (s1 :> 1) @@ (s2 :> 1)
=============================================================================
