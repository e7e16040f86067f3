----------------------------- MODULE MCRunBudget -----------------------------
(* Bounds for TLC: one worker with two callers, which can both be past the *)
(* test, and two with one; a pool made for two workers, whose total does   *)
(* not divide evenly.                                                      *)
EXTENDS RunBudget, TLC

CONSTANTS w1, w2, w3, c1, c2, c3, c4

MCWorkerOf == (c1 :> w1) @@ (c2 :> w1) @@ (c3 :> w2) @@ (c4 :> w3)
=============================================================================
