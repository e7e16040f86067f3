---------------------------- MODULE HarnessTable ----------------------------
(***************************************************************************)
(* The older engine of the same package (harness-core/src/index.ts): tick, *)
(* a table from HarnessState to an action, and TRANSITIONS, the legal      *)
(* moves.  No driver in the repository runs tick, but the scripts and the  *)
(* invariants of the test suite quote both as what a story goes through.   *)
(* A third table, the supervisor's, decides who is called next from the    *)
(* artifacts a story has so far.  The three were written apart: this       *)
(* module asks of every step of the orchestrator what the others say of it. *)
(***************************************************************************)
EXTENDS Orchestrator

(* TRANSITIONS, for the states a story passes through.                     *)
Transitions ==
  [SUPERVISOR_CONTRACT      |-> {"DEVELOPER_PATCH_PROPOSAL"},
   DEVELOPER_PATCH_PROPOSAL |-> {"DEVELOPER_PREFLIGHT", "HUMAN_GATE"},
   DEVELOPER_PREFLIGHT      |-> {"SPEC_CONFORMANCE_REVIEW", "DEVELOPER_PATCH_PROPOSAL", "HUMAN_GATE"},
   SPEC_CONFORMANCE_REVIEW  |-> {"WORKSPACE_APPLY", "DEVELOPER_PATCH_PROPOSAL", "HUMAN_GATE"},
   WORKSPACE_APPLY          |-> {"VALIDATION"},
   VALIDATION               |-> {"DEBUG_LOOP", "CHECKPOINT", "HUMAN_GATE"},
   DEBUG_LOOP               |-> {"DEVELOPER_PATCH_PROPOSAL", "SUPERVISOR_CONTRACT", "HUMAN_GATE"},
   CHECKPOINT               |-> {"PROMOTION_REVIEW", "SUPERVISOR_CONTRACT"},
   HUMAN_GATE               |-> {"SUPERVISOR_CONTRACT", "CHECKPOINT", "DONE"}]

CanTransition(from, to) == to \in Transitions[from]

EnforceRunBudget == iterations_used < RunBudget

(* Mutant of EnforceAttemptBudget: the attempt in progress does not count. *)
EnforceAttemptBudgetLate(s) == attempts[s] <= AttemptBudget[s]

EnforceAttemptBudget(s) == attempts[s] < AttemptBudget[s]

(* The action tick answers with, for the story s in the state at.          *)
HarnessTick(at, s) ==
  IF ~EnforceRunBudget THEN "stop_run"
  ELSE CASE at = "SUPERVISOR_CONTRACT" -> "issue_contract"
         [] at = "DEVELOPER_PATCH_PROPOSAL" -> "request_patch"
         [] at = "WORKSPACE_APPLY" -> "apply_patch"
         [] at = "VALIDATION" ->
              IF last_validation_passed = "passed" THEN "write_checkpoint"
              ELSE IF last_validation_passed = "unknown" THEN "run_validation"
              ELSE IF EnforceAttemptBudget(s) THEN "route_debugger" ELSE "escalate_human"
         [] at = "DEBUG_LOOP" ->
              IF EnforceAttemptBudget(s) THEN "retry_develop" ELSE "escalate_human"
         [] at = "CHECKPOINT" -> "mark_story_done"
         [] at = "HUMAN_GATE" -> IF human_gate_cleared THEN "select_story" ELSE "stop_run"
         [] at = "PROMOTION_REVIEW" -> "escalate_human"
         [] OTHER -> "stop_run"

-----------------------------------------------------------------------------
(* The supervisor's table (supervisor-runtime).                            *)

(* What decideNextAction is given: the contract is complete, a person's    *)
(* issue, a denial of the gateway, the last report, what the two agents    *)
(* have answered, and whether the signature or an attempt budget is spent. *)
Artifacts ==
  [storyReady : BOOLEAN, humanIssue : {"none", "minor", "critical"},
   permissionDenied : {"none", "discard", "needs_scope"},
   validationReport : {"none", "passed", "failed"},
   debuggerResult : {"none", "within_scope", "needs_scope", "other"},
   developerResult : {"none", "patch", "other"},
   sameSignature : BOOLEAN, attemptsSpent : BOOLEAN]

(* decideNextAction: the first row that matches.                           *)
Supervise(a) ==
  IF ~a.storyReady THEN "replan"
  ELSE IF a.humanIssue # "none"
    THEN IF a.humanIssue = "critical" THEN "ask_human" ELSE "call_debugger"
  ELSE IF a.permissionDenied # "none"
    THEN IF a.permissionDenied = "needs_scope" THEN "ask_human" ELSE "abort_attempt"
  ELSE IF a.validationReport = "passed" THEN "checkpoint"
  ELSE IF a.validationReport = "failed"
    THEN IF a.sameSignature \/ a.attemptsSpent THEN "ask_human" ELSE "call_debugger"
  ELSE IF a.debuggerResult = "needs_scope" THEN "ask_human"
  ELSE IF a.debuggerResult = "within_scope" \/ a.developerResult = "patch" THEN "validate"
  ELSE IF a.developerResult = "none" THEN "call_developer" ELSE "wait"

-----------------------------------------------------------------------------
(* The states and actions of the orchestrator under the tables' names.     *)

HarnessState ==
  [contract |-> "SUPERVISOR_CONTRACT", develop |-> "DEVELOPER_PATCH_PROPOSAL",
   validate |-> "VALIDATION", debug |-> "DEBUG_LOOP", checkpoint |-> "CHECKPOINT",
   gate |-> "HUMAN_GATE"]

HarnessAction(action) ==
  CASE action = "develop_patch" -> "request_patch"
    [] action = "select_next_story" -> "select_story"
    [] OTHER -> action

(* Where the supervisor is asked: before a patch and about its verdict.    *)
(* The debugger's turn is not compared: there its result is validated at   *)
(* once, where the orchestrator has the developer make it a patch.         *)
ArtifactsAt(at, s) ==
  [storyReady |-> TRUE, humanIssue |-> "none", permissionDenied |-> "none",
   validationReport |->
     IF at = "develop" \/ last_validation_passed = "unknown" THEN "none"
     ELSE last_validation_passed,
   debuggerResult |-> "none",
   developerResult |-> IF at = "validate" THEN "patch" ELSE "none",
   sameSignature |-> FALSE, attemptsSpent |-> attempts[s] >= AttemptBudget[s]]

SupervisorAction ==
  [develop_patch |-> "call_developer", run_validation |-> "validate",
   write_checkpoint |-> "checkpoint", route_debugger |-> "call_debugger",
   escalate_human |-> "ask_human"]

(* What the orchestrator has no state of its own for: the developer's turn *)
(* from its proposal to the tree.                                          *)
WithinDevelop == {"DEVELOPER_PREFLIGHT", "SPEC_CONFORMANCE_REVIEW", "WORKSPACE_APPLY"}

LegalMove(from, to) ==
  \/ from = to
  \/ CanTransition(from, to)
  \/ \E a, b, c \in WithinDevelop :
       /\ CanTransition(from, a) /\ CanTransition(a, b)
       /\ CanTransition(b, c) /\ CanTransition(c, to)

(* The engines agree.  Whenever the orchestrator decides something about a *)
(* story it has taken up, or at a gate, it is what tick answers in the     *)
(* corresponding state, whatever attempts, verdicts and budgets led there, *)
(* and what the supervisor's table answers, where that is asked; and its   *)
(* move is one TRANSITIONS has, the developer's turn taken as one.  One    *)
(* decision is the orchestrator's alone: a story whose budget is 0 is      *)
(* escalated before its first patch, where the others ask for it.          *)
TablesAgree ==
  [][decision_log' # decision_log /\ state \in DOMAIN HarnessState =>
       LET action == decision_log'[Len(decision_log')].action IN
       /\ \/ /\ HarnessAction(action) = HarnessTick(HarnessState[state], active_story_id)
             /\ state \in {"develop", "validate"} /\ EnforceRunBudget =>
                  SupervisorAction[action] = Supervise(ArtifactsAt(state, active_story_id))
          \/ state = "develop" /\ AttemptBudget[active_story_id] = 0
       /\ state' \in DOMAIN HarnessState =>
            LegalMove(HarnessState[state], HarnessState[state'])]_vars
=============================================================================
