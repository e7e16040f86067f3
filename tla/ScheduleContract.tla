-------------------------- MODULE ScheduleContract --------------------------
(***************************************************************************)
(* What a caller of a story scheduler relies on, with no batches, workers, *)
(* workspaces or budget: stories that may not run together never do, a     *)
(* story is started when its dependencies are done, it is finished or      *)
(* given up only after it was started, the call ends once, and it ends in  *)
(* a normal return only with nothing in work.                              *)
(***************************************************************************)
EXTENDS Naturals

CONSTANTS Stories

VARIABLES
  phase,    \* where each story is
  needs,    \* what each story depends on
  apart,    \* pairs of stories that must not be in work together
  ended     \* "no", or how the call ended: "return", "give_up", "throw"

vars == <<phase, needs, apart, ended>>

Finished == {s \in Stories : phase[s] = "done"}
InWork == {s \in Stories : phase[s] = "working"}

Init ==
  /\ phase \in [Stories -> {"open", "shut", "done"}]
  /\ needs \in [Stories -> SUBSET Stories]
  /\ apart \in SUBSET SUBSET Stories
  /\ ended = "no"

TakeUp(B) ==
  /\ InWork = {} /\ B # {}
  /\ \A s \in B : phase[s] = "open" /\ needs[s] \subseteq Finished
  /\ \A s, t \in B : s # t => {s, t} \notin apart
  /\ phase' = [s \in Stories |-> IF s \in B THEN "working" ELSE phase[s]]

Start(B) ==
  /\ ended = "no" /\ TakeUp(B)
  /\ UNCHANGED <<needs, apart, ended>>

Finish(s) ==
  /\ ended = "no" /\ phase[s] = "working"
  /\ phase' = [phase EXCEPT ![s] = "done"]
  /\ UNCHANGED <<needs, apart, ended>>

GiveUp(s) ==
  /\ ended = "no" /\ phase[s] = "working"
  /\ phase' = [phase EXCEPT ![s] = "shut"]
  /\ ended' = "give_up"
  /\ UNCHANGED <<needs, apart>>

Return ==
  /\ ended = "no" /\ InWork = {}
  /\ ended' = "return"
  /\ UNCHANGED <<phase, needs, apart>>

(* A call that throws may leave stories in work, those it was just taking  *)
(* up included.                                                            *)
Throw ==
  /\ ended = "no"
  /\ ended' = "throw"
  /\ UNCHANGED phase \/ \E B \in SUBSET Stories : TakeUp(B)
  /\ UNCHANGED <<needs, apart>>

Next ==
  \/ \E B \in SUBSET Stories : Start(B)
  \/ \E s \in Stories : Finish(s) \/ GiveUp(s)
  \/ Return
  \/ Throw

Spec == Init /\ [][Next]_vars
=============================================================================
