----------------------------- MODULE MCDebugLoop -----------------------------
(* Bounds for TLC: a chain of signals, of which neighbours share a token   *)
(* and the ends do not, so that merging is not transitive; a file that is  *)
(* not there, one with a resolved gene before an active one, one made by   *)
(* hand with genes that share tokens, one with two keyed genes of which    *)
(* the later is the more severe; a bank that is full at two; diagnoses     *)
(* with fewer, as many and more directions than candidates, and one that   *)
(* only asks for a wider write set.  One process is enough: what another   *)
(* leaves in the file is a bank this one may have saved itself.            *)
EXTENDS DebugLoop

CONSTANTS p1

MCSignals == {{"test", "sum"}, {"sum", "lint"}, {"lint", "type:sum"}, {"type:sum"}, {"schema"}}
MCValue == [t \in {"type:sum"} |-> "sum"]

Seeded(id, s, n, status, severity) ==
  [id |-> id, signal |-> s, count |-> n, status |-> status, severity |-> severity,
   remedy |-> status = "resolved", wellFormed |-> TRUE]

MCSeeds ==
  {<<>>,
   <<Seeded(1, {"sum", "lint"}, 2, "resolved", 1), Seeded(2, {"lint", "type:sum"}, 1, "active", 2)>>,
   <<Seeded(2, {"test", "sum"}, 1, "active", 2), Seeded(1, {"sum", "lint"}, 1, "active", 0),
     Seeded(1, {"lint", "type:sum"}, 1, "active", 1)>>,
   <<Seeded(1, {"type:sum"}, 1, "active", 2), Seeded(2, {"lint", "type:sum"}, 1, "active", 0)>>}

MCDiagnoses ==
  {<<"widen_write_set">>,
   <<"widen_write_set", "change_implementation">>,
   <<"change_implementation", "widen_write_set", "tighten_test">>,
   <<"clarify_spec", "widen_write_set", "change_implementation", "tighten_test">>}
=============================================================================
