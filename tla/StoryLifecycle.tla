--------------------------- MODULE StoryLifecycle ---------------------------
(***************************************************************************)
(* What an orchestrator of the harness promises about a backlog, with no   *)
(* states of a tracker, no decisions and no run budget: one story at a     *)
(* time is worked on, a story is started when everything it depends on is  *)
(* done, every verdict is about a patch not judged before, a story is done *)
(* only after a passing verdict and a checkpoint, and the harness gives up *)
(* on a story only when its attempts are spent.                            *)
(***************************************************************************)
EXTENDS Naturals

CONSTANTS Stories, Ids, AttemptBudget

VARIABLES
  phase,     \* where each story is
  tries,     \* patches produced for each story
  unjudged,  \* the story in work has a patch no verdict has been given on
  needs      \* what each story depends on

vars == <<phase, tries, unjudged, needs>>

Phases == {"open", "shut", "working", "verified", "saved", "done", "given_up"}
Finished == {s \in Stories : phase[s] = "done"}
InWork == {s \in Stories : phase[s] \in {"working", "verified", "saved"}}

Init ==
  /\ phase \in [Stories -> {"open", "shut"}]
  /\ tries = [s \in Stories |-> 0]
  /\ unjudged = FALSE
  /\ needs \in [Stories -> SUBSET Ids]

Start(s) ==
  /\ phase[s] = "open" /\ InWork = {} /\ needs[s] \subseteq Finished
  /\ phase' = [phase EXCEPT ![s] = "working"]
  /\ UNCHANGED <<tries, unjudged, needs>>

Patch(s) ==
  /\ phase[s] = "working" /\ ~unjudged /\ tries[s] < AttemptBudget[s]
  /\ tries' = [tries EXCEPT ![s] = @ + 1]
  /\ unjudged' = TRUE
  /\ UNCHANGED <<phase, needs>>

Pass(s) ==
  /\ phase[s] = "working" /\ unjudged
  /\ phase' = [phase EXCEPT ![s] = "verified"]
  /\ unjudged' = FALSE
  /\ UNCHANGED <<tries, needs>>

(* The verdict fails, or the run ends and the patch is dropped with it.    *)
Reject(s) ==
  /\ phase[s] = "working" /\ unjudged
  /\ unjudged' = FALSE
  /\ UNCHANGED <<phase, tries, needs>>

Save(s) ==
  /\ phase[s] = "verified"
  /\ phase' = [phase EXCEPT ![s] = "saved"]
  /\ UNCHANGED <<tries, unjudged, needs>>

Finish(s) ==
  /\ phase[s] = "saved"
  /\ phase' = [phase EXCEPT ![s] = "done"]
  /\ UNCHANGED <<tries, unjudged, needs>>

GiveUp(s) ==
  /\ phase[s] = "working" /\ ~unjudged /\ tries[s] >= AttemptBudget[s]
  /\ phase' = [phase EXCEPT ![s] = "given_up"]
  /\ UNCHANGED <<tries, unjudged, needs>>

Next == \E s \in Stories :
  Start(s) \/ Patch(s) \/ Pass(s) \/ Reject(s) \/ Save(s) \/ Finish(s) \/ GiveUp(s)

Spec == Init /\ [][Next]_vars
=============================================================================
