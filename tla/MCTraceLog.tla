----------------------------- MODULE MCTraceLog -----------------------------
(* Bounds for TLC: two processes fork a chain and three keep two reads     *)
(* pending over a third's append; events enough that a batch of recorder   *)
(* one runs over the single appends of the others.  The viewer, which only *)
(* reads, is taken up with writers that do not overlap, in behaviours of   *)
(* its own: a file with forks is no other to it than one without.          *)
EXTENDS Recorders, TraceView, TLC

CONSTANTS p1, p2, p3

VARIABLE watched   \* a viewer is open

MCGates == [gate_type : {"promotion_review", "approval_request", "hold_release"},
            policy : {"re_notify", "auto_deny", "auto_approve"}, security : BOOLEAN]

(* All events, or those of one story.                                      *)
MCFilters == {1..MaxEvents, {h \in 1..MaxEvents : h % 2 = 0}}

Symmetry == Permutations(Processes)

Alone(p) == \A other \in Processes \ {p} : pc[other] = "idle"

MCInit ==
  /\ RecorderInit /\ ViewInit
  /\ watched \in BOOLEAN

MCNext ==
  /\ UNCHANGED watched
  /\ \/ ~watched /\ RecorderNext /\ UNCHANGED viewVars
     \/ /\ watched /\ UNCHANGED recorderVars
        /\ \/ ViewNext
           \/ \E p \in Processes :
                /\ Alone(p) /\ UNCHANGED viewVars
                /\ Read(p) \/ Write(p, FALSE) \/ TornWrite(p)

MCSpec == MCInit /\ [][MCNext]_<<vars, recorderVars, viewVars, watched>>
=============================================================================
