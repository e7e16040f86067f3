---------------------------- MODULE Orchestrator ----------------------------
(***************************************************************************)
(* The deterministic orchestrator of harness-core (orchestrator-v0.ts): a  *)
(* driver reads the TrackerState, asks decideNextAction for exactly one    *)
(* decision, lets the agents execute it, and hands decision and result to  *)
(* advanceTrackerState.  The tracker is in memory and the driver is        *)
(* sequential, so a tick (decide, execute, advance) is one step here; what *)
(* is open in a tick is the result the agents return.                      *)
(*                                                                         *)
(* There is one action per decision.  Its guard is the branch of           *)
(* decideNextAction that yields the decision, its effect is the branch of  *)
(* advanceTrackerState that consumes it.  The order of the budget check,   *)
(* which is first in the code, shows as BudgetLeft in every other guard.   *)
(***************************************************************************)
EXTENDS Integers, Sequences

CONSTANTS
  Stories,        \* story_ids of the backlog
  Ids,            \* ids a depends_on list may name: a backlog can name a story it lacks
  NoStory,        \* null / undefined in active_story_id and in a decision's story_id
  Rank,           \* position of a story in the order priority, order_index, story_id
  AttemptBudget,  \* attempt_budget of each story
  RunBudget,      \* run_iteration_budget
  MaxTicks        \* bound of the model: no tick starts with iterations_used at MaxTicks

ASSUME StoriesAssumption ==
  /\ Stories \subseteq Ids
  /\ NoStory \notin Ids
ASSUME RankAssumption ==
  /\ Rank \in [Stories -> Nat]
  /\ \A s, t \in Stories : Rank[s] = Rank[t] => s = t
ASSUME BudgetAssumption ==
  /\ AttemptBudget \in [Stories -> Nat]
  /\ RunBudget \in Nat
  /\ MaxTicks \in Nat

VARIABLES
  state,                   \* OrchestratorV0State
  iterations_used,
  status,                  \* RuntimeStoryStatus of each story
  attempts,                \* develop_patch calls executed for each story
  depends_on,              \* fixed by Init: one behaviour runs one backlog
  active_story_id,
  last_validation_passed,  \* "unknown" is the code's null
  human_gate_cleared,
  stop_reason,             \* "none" is the code's null
  decision_log,
  checkpoints              \* outside the tracker: stories whose checkpoint was really written

storyVars == <<status, attempts, checkpoints>>
vars == <<state, iterations_used, status, attempts, depends_on, active_story_id,
          last_validation_passed, human_gate_cleared, stop_reason, decision_log,
          checkpoints>>

States == {"idle", "select", "contract", "develop", "validate", "debug",
           "checkpoint", "gate", "stopped"}
Statuses == {"todo", "ready", "in_progress", "debugging", "passed",
             "checkpointed", "blocked", "escalated", "done"}
Verdicts == {"unknown", "passed", "failed"}
Actions == {"select_next_story", "issue_contract", "develop_patch", "run_validation",
            "write_checkpoint", "mark_story_done", "route_debugger", "retry_develop",
            "escalate_human", "stop_run"}
Decision == [action : Actions, story_id : Stories \cup {NoStory}, tick : Nat]

(* A story that was picked and has not reached an end. *)
InFlight == {"in_progress", "debugging", "passed", "checkpointed"}

-----------------------------------------------------------------------------
(* Reading the backlog.                                                    *)

Done == {s \in Stories : status[s] = "done"}
Waiting == {s \in Stories : status[s] \in {"todo", "ready"}}
Candidates == {s \in Waiting : depends_on[s] \subseteq Done}

(* selectNextRuntimeStory: the first candidate of the total order. *)
IsNext(s) == s \in Candidates /\ \A t \in Candidates : Rank[s] <= Rank[t]

HasBlockedOrEscalatedDependency ==
  \E s \in Waiting : \E d \in depends_on[s] \cap Stories :
    status[d] \in {"blocked", "escalated"}

(* Mutant of BudgetLeft: it is looked at on selection only.                *)
BudgetLeftWhenSelecting == state \in {"idle", "select"} => iterations_used < RunBudget

BudgetLeft == iterations_used < RunBudget
Choosing == state \in {"idle", "select"}
(* Mutant of AttemptLeft: an off-by-one.                                   *)
AttemptLeftOrJustSpent == attempts[active_story_id] <= AttemptBudget[active_story_id]

AttemptLeft == attempts[active_story_id] < AttemptBudget[active_story_id]

(* The branches that need the active story fall to stop_run without one. *)
At(phase) == BudgetLeft /\ state = phase /\ active_story_id \in Stories

-----------------------------------------------------------------------------
(* What advanceTrackerState does on every tick, whatever the decision.     *)

Tick(action, story) ==
  /\ iterations_used < MaxTicks
  /\ iterations_used' = iterations_used + 1
  /\ decision_log' = Append(decision_log,
       [action |-> action, story_id |-> story, tick |-> iterations_used])
  /\ UNCHANGED <<depends_on, human_gate_cleared>>

SetStatus(story, st) ==
  status' = IF story \in Stories THEN [status EXCEPT ![story] = st] ELSE status

StopFor(reason) ==
  /\ state' = "stopped"
  /\ stop_reason' = reason
  /\ UNCHANGED <<storyVars, active_story_id, last_validation_passed>>

SelectNextStory(s, success) ==
  /\ BudgetLeft /\ Choosing /\ IsNext(s)
  /\ Tick("select_next_story", s)
  /\ IF success
     THEN /\ state' = "contract"
          /\ active_story_id' = s
          /\ last_validation_passed' = "unknown"
          /\ SetStatus(s, "in_progress")
          /\ UNCHANGED <<attempts, checkpoints, stop_reason>>
     ELSE StopFor("select_failed")

(* A cleared gate asks for select_next_story and names no story, which     *)
(* advanceTrackerState answers as a failed selection.                      *)
SelectAfterGate ==
  /\ BudgetLeft /\ state = "gate" /\ human_gate_cleared
  /\ Tick("select_next_story", NoStory)
  /\ StopFor("select_failed")

IssueContract ==
  /\ BudgetLeft /\ state = "contract"
  /\ Tick("issue_contract", active_story_id)
  /\ state' = "develop"
  /\ SetStatus(active_story_id, "in_progress")
  /\ UNCHANGED <<attempts, checkpoints, active_story_id, last_validation_passed, stop_reason>>

DevelopPatch ==
  /\ At("develop") /\ AttemptLeft
  /\ Tick("develop_patch", active_story_id)
  /\ state' = "validate"
  /\ attempts' = [attempts EXCEPT ![active_story_id] = @ + 1]
  /\ last_validation_passed' = "unknown"
  /\ UNCHANGED <<status, checkpoints, active_story_id, stop_reason>>

(* The verdict is the validator's; it may also leave validation_passed out. *)
RunValidation(verdict) ==
  /\ At("validate") /\ last_validation_passed = "unknown"
  /\ Tick("run_validation", active_story_id)
  /\ last_validation_passed' = verdict
  /\ SetStatus(active_story_id, IF verdict = "passed" THEN "passed" ELSE "in_progress")
  /\ UNCHANGED <<state, attempts, checkpoints, active_story_id, stop_reason>>

(* Mutant of WriteCheckpoint: a verdict that is not in counts as passed.   *)
WriteCheckpointUnlessFailed(success) ==
  /\ At("validate") /\ last_validation_passed # "failed"
  /\ Tick("write_checkpoint", active_story_id)
  /\ state' = "checkpoint"
  /\ SetStatus(active_story_id, "checkpointed")
  /\ checkpoints' = IF success THEN checkpoints \cup {active_story_id} ELSE checkpoints
  /\ UNCHANGED <<attempts, active_story_id, last_validation_passed, stop_reason>>

(* advanceTrackerState does not look at result.success here: the tracker   *)
(* moves on whether or not the checkpoint was written.                     *)
WriteCheckpoint(success) ==
  /\ At("validate") /\ last_validation_passed = "passed"
  /\ Tick("write_checkpoint", active_story_id)
  /\ state' = "checkpoint"
  /\ SetStatus(active_story_id, "checkpointed")
  /\ checkpoints' = IF success THEN checkpoints \cup {active_story_id} ELSE checkpoints
  /\ UNCHANGED <<attempts, active_story_id, last_validation_passed, stop_reason>>

RouteDebugger ==
  /\ At("validate") /\ last_validation_passed = "failed" /\ AttemptLeft
  /\ Tick("route_debugger", active_story_id)
  /\ state' = "debug"
  /\ SetStatus(active_story_id, "debugging")
  /\ UNCHANGED <<attempts, checkpoints, active_story_id, last_validation_passed, stop_reason>>

(* Mutant of RetryDevelop: straight to validation with no new patch.       *)
RetryValidation ==
  /\ At("debug")
  /\ Tick("retry_develop", active_story_id)
  /\ state' = "validate"
  /\ last_validation_passed' = "unknown"
  /\ UNCHANGED <<storyVars, active_story_id, stop_reason>>

RetryDevelop ==
  /\ At("debug")
  /\ Tick("retry_develop", active_story_id)
  /\ state' = "develop"
  /\ last_validation_passed' = "unknown"
  /\ UNCHANGED <<storyVars, active_story_id, stop_reason>>

MarkStoryDone ==
  /\ At("checkpoint")
  /\ Tick("mark_story_done", active_story_id)
  /\ state' = "select"
  /\ SetStatus(active_story_id, "done")
  /\ active_story_id' = NoStory
  /\ last_validation_passed' = "unknown"
  /\ UNCHANGED <<attempts, checkpoints, stop_reason>>

(* The gate is entered from develop or validate with the attempts spent,   *)
(* or from select when a waiting story depends on a blocked or escalated   *)
(* one.  The latter decision names no story: the active one is used.       *)
EscalateHuman ==
  /\ BudgetLeft
  /\ \/ /\ At("develop") /\ ~AttemptLeft
        /\ stop_reason' = "attempt_budget_exceeded"
     \/ /\ At("validate") /\ last_validation_passed = "failed" /\ ~AttemptLeft
        /\ stop_reason' = "attempt_budget_exceeded"
     \/ /\ Choosing /\ Candidates = {} /\ HasBlockedOrEscalatedDependency
        /\ stop_reason' = "blocked_dependency"
  /\ Tick("escalate_human", active_story_id)
  /\ state' = "gate"
  /\ SetStatus(active_story_id, "escalated")
  /\ UNCHANGED <<attempts, checkpoints, active_story_id, last_validation_passed>>

(* The reason decideNextAction gives with stop_run, in its order of tests; *)
(* "go_on" when it decides something else.                                 *)
StopReason ==
  CASE ~BudgetLeft -> "run_budget_exhausted"
    [] BudgetLeft /\ Choosing ->
         IF Candidates = {} /\ ~HasBlockedOrEscalatedDependency
         THEN "all_stories_complete" ELSE "go_on"
    [] BudgetLeft /\ state = "gate" ->
         IF human_gate_cleared THEN "go_on" ELSE "awaiting_human_gate"
    [] BudgetLeft /\ state = "stopped" ->
         stop_reason
    [] BudgetLeft /\ state \in {"develop", "validate", "debug", "checkpoint"} ->
         IF active_story_id \in Stories THEN "go_on" ELSE "no_active_story"
    [] OTHER -> "go_on"

StopRun ==
  /\ StopReason # "go_on"
  /\ Tick("stop_run", NoStory)
  /\ StopFor(StopReason)

(* External: the human sets human_gate_cleared; no code under src does.    *)
ClearGate ==
  /\ state = "gate"
  /\ human_gate_cleared' = TRUE
  /\ UNCHANGED <<state, iterations_used, storyVars, depends_on, active_story_id,
                 last_validation_passed, stop_reason, decision_log>>

-----------------------------------------------------------------------------
Init ==
  /\ state \in {"idle", "select"}
  /\ iterations_used = 0
  /\ status \in [Stories -> {"todo", "ready", "blocked"}]
  /\ attempts = [s \in Stories |-> 0]
  /\ depends_on \in [Stories -> SUBSET Ids]
  /\ active_story_id = NoStory
  /\ last_validation_passed = "unknown"
  /\ human_gate_cleared = FALSE
  /\ stop_reason = "none"
  /\ decision_log = <<>>
  /\ checkpoints = {}

(* What the driver's loop runs until the tracker is at a gate or stopped. *)
Work ==
  \/ \E s \in Stories, success \in BOOLEAN : SelectNextStory(s, success)
  \/ IssueContract
  \/ DevelopPatch
  \/ \E verdict \in Verdicts : RunValidation(verdict)
  \/ \E success \in BOOLEAN : WriteCheckpoint(success)
  \/ RouteDebugger
  \/ RetryDevelop
  \/ MarkStoryDone
  \/ EscalateHuman
  \/ StopRun

Next == Work \/ SelectAfterGate \/ ClearGate

(* The loop of the driver leaves at a gate and when stopped: only ticks of *)
(* a running tracker are owed.                                             *)
Running == state \notin {"gate", "stopped"}

Spec == Init /\ [][Next]_vars
FairSpec == Spec /\ WF_vars(Running /\ Work)

-----------------------------------------------------------------------------
(* Properties.                                                             *)

(* Every variable has its type, the log's decisions included.              *)
TypeOK ==
  /\ state \in States
  /\ iterations_used \in Nat
  /\ status \in [Stories -> Statuses]
  /\ attempts \in [Stories -> Nat]
  /\ depends_on \in [Stories -> SUBSET Ids]
  /\ active_story_id \in Stories \cup {NoStory}
  /\ last_validation_passed \in Verdicts
  /\ human_gate_cleared \in BOOLEAN
  /\ decision_log \in Seq(Decision)
  /\ checkpoints \in SUBSET Stories

(* At most one story is in flight and it is the active one, also when the  *)
(* run has stopped in the middle of it: selection never starts a second    *)
(* story over an unfinished one, however the run got back to select.       *)
OneStoryInFlight ==
  \A s \in Stories : status[s] \in InFlight => s = active_story_id

(* A story that was ever started has all its dependencies done, so a done  *)
(* story never rests on a blocked, escalated or unknown one.               *)
StartedAfterDependencies ==
  \A s \in Stories :
    status[s] \in InFlight \cup {"escalated", "done"} => depends_on[s] \subseteq Done

(* develop_patch never runs over the attempt budget, across any number of  *)
(* debug cycles, and a story is escalated only when its budget is spent.   *)
AttemptBudgetKept ==
  \A s \in Stories :
    /\ attempts[s] <= AttemptBudget[s]
    /\ status[s] = "escalated" => attempts[s] = AttemptBudget[s]

(* The log alone proves the chain for every story marked done: the two     *)
(* decisions before mark_story_done are the checkpoint and the validation  *)
(* of the same story, and no tick is missing ("intermediate states are     *)
(* never skipped").                                                        *)
AuditTrailComplete ==
  /\ Len(decision_log) = iterations_used
  /\ \A i \in DOMAIN decision_log : decision_log[i].action = "mark_story_done" =>
       \E j \in DOMAIN decision_log :
         /\ i = j + 2
         /\ decision_log[j].action = "run_validation"
         /\ decision_log[j + 1].action = "write_checkpoint"
         /\ decision_log[j].story_id = decision_log[i].story_id
         /\ decision_log[j + 1].story_id = decision_log[i].story_id

(* A stop is final, a gate ends only in a stop, and the run budget forces  *)
(* the stop: past a gate or a stop no tick and no clearing of the gate     *)
(* moves a story, and no tick after the budget does anything but stop.     *)
StopStep ==
  /\ ~Running => state' \in {state, "stopped"} /\ UNCHANGED <<storyVars, active_story_id>>
  /\ iterations_used' > RunBudget => state' = "stopped" /\ UNCHANGED storyVars
StopIsFinal == [][StopStep]_vars

(* Whatever the agents answer (a validator that never gives a verdict      *)
(* included), a ticking driver brings the run to a gate or to a stop.      *)
RunHalts == <>(state \in {"gate", "stopped"})

(* Every stop that reports all_stories_complete has them complete          *)
(* (configs/decision_matrix.yaml, rule 3).                                 *)
CompleteMeansDone ==
  state = "stopped" /\ stop_reason = "all_stories_complete" => Done = Stories

(* A story marked done has a checkpoint ("checkpoint written; story is     *)
(* done", orchestrator-v0.ts:63).                                          *)
DoneHasCheckpoint == Done \subseteq checkpoints

(* The tracker as the abstract lifecycle sees it.                          *)
PhaseOf(st) ==
  CASE st \in {"todo", "ready"} -> "open"
    [] st = "blocked" -> "shut"
    [] st \in {"in_progress", "debugging"} -> "working"
    [] st = "passed" -> "verified"
    [] st = "checkpointed" -> "saved"
    [] st = "done" -> "done"
    [] st = "escalated" -> "given_up"

Lifecycle == INSTANCE StoryLifecycle WITH
  phase <- [s \in Stories |-> PhaseOf(status[s])],
  tries <- attempts,
  unjudged <- (state = "validate" /\ last_validation_passed = "unknown"),
  needs <- depends_on

(* The tracker implements the lifecycle: every tick is one of its steps or *)
(* changes nothing it sees.                                                *)
ImplementsLifecycle == Lifecycle!Spec

=============================================================================
