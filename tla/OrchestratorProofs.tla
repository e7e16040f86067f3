------------------------- MODULE OrchestratorProofs -------------------------
(***************************************************************************)
(* Safety of the orchestrator for every backlog, every order of stories    *)
(* and every budget, and its agreement with the two older tables.          *)
(***************************************************************************)
EXTENDS HarnessTable, TLAPS

(* The properties of Orchestrator are not inductive: what keeps a second   *)
(* story from being started is that the tracker chooses only when no story *)
(* is active, and what keeps the chain to done whole is what each phase    *)
(* says about the active story and about the end of the log.               *)
ActiveInv ==
  /\ Choosing => active_story_id = NoStory
  /\ state \in {"contract", "develop", "validate", "debug", "checkpoint"} =>
       active_story_id \in Stories

PhaseInv ==
  /\ state = "contract" => status[active_story_id] = "in_progress"
  /\ state = "develop" => status[active_story_id] \in {"in_progress", "debugging"}
  /\ state = "validate" =>
       status[active_story_id] \in (CASE last_validation_passed = "unknown" ->
                                           {"in_progress", "debugging"}
                                      [] last_validation_passed = "passed" -> {"passed"}
                                      [] last_validation_passed = "failed" -> {"in_progress"})
  /\ state = "debug" => status[active_story_id] = "debugging"
  /\ state = "checkpoint" => status[active_story_id] = "checkpointed"

LogEndsWith(action, back) ==
  /\ Len(decision_log) > back
  /\ decision_log[Len(decision_log) - back].action = action
  /\ decision_log[Len(decision_log) - back].story_id = active_story_id

LogInv ==
  /\ AuditTrailComplete
  /\ state = "validate" /\ last_validation_passed = "passed" =>
       LogEndsWith("run_validation", 0)
  /\ state = "checkpoint" =>
       /\ LogEndsWith("write_checkpoint", 0)
       /\ LogEndsWith("run_validation", 1)

BudgetInv == iterations_used > RunBudget => state = "stopped"

IInv ==
  /\ TypeOK
  /\ ActiveInv
  /\ PhaseInv
  /\ OneStoryInFlight
  /\ StartedAfterDependencies
  /\ AttemptBudgetKept
  /\ LogInv
  /\ BudgetInv
-----------------------------------------------------------------------------
(* Type correctness.                                                       *)

LEMMA InitTypeOK == Init => TypeOK
<1> SUFFICES ASSUME Init PROVE TypeOK
  OBVIOUS
<1>1. status \in [Stories -> Statuses] /\ attempts \in [Stories -> Nat]
  BY DEF Init, Statuses
<1>2. decision_log \in Seq(Decision)
  BY DEF Init
<1>. QED
  BY <1>1, <1>2 DEF Init, TypeOK, States, Verdicts

(* What every tick does to the log keeps it a sequence of decisions.       *)
LEMMA TickTypes ==
  ASSUME TypeOK, NEW action \in Actions, NEW story \in Stories \cup {NoStory},
         Tick(action, story)
  PROVE  /\ iterations_used' \in Nat
         /\ decision_log' \in Seq(Decision)
         /\ depends_on' \in [Stories -> SUBSET Ids]
         /\ human_gate_cleared' \in BOOLEAN
<1>1. [action |-> action, story_id |-> story, tick |-> iterations_used] \in Decision
  BY DEF Decision, TypeOK
<1>. QED
  BY <1>1 DEF Tick, TypeOK

LEMMA StepTypeOK == TypeOK /\ [Next]_vars => TypeOK'
<1> SUFFICES ASSUME TypeOK, [Next]_vars PROVE TypeOK'
  OBVIOUS
<1>1. ASSUME NEW s \in Stories, NEW success \in BOOLEAN, SelectNextStory(s, success) PROVE TypeOK'
  BY <1>1, TickTypes
     DEF SelectNextStory, SetStatus, StopFor, TypeOK, States, Statuses,
         Verdicts, storyVars, Actions
<1>2. ASSUME IssueContract PROVE TypeOK'
  BY <1>2, TickTypes
     DEF IssueContract, SetStatus, TypeOK, States, Statuses, Actions
<1>3. ASSUME DevelopPatch PROVE TypeOK'
  BY <1>3, TickTypes DEF DevelopPatch, At, TypeOK, States, Verdicts, Actions
<1>4. ASSUME NEW verdict \in Verdicts, RunValidation(verdict) PROVE TypeOK'
  BY <1>4, TickTypes DEF RunValidation, SetStatus, TypeOK, Statuses, Actions
<1>5. ASSUME NEW success \in BOOLEAN, WriteCheckpoint(success) PROVE TypeOK'
  BY <1>5, TickTypes
     DEF WriteCheckpoint, At, SetStatus, TypeOK, States, Statuses, Actions
<1>6. ASSUME RouteDebugger PROVE TypeOK'
  BY <1>6, TickTypes
     DEF RouteDebugger, SetStatus, TypeOK, States, Statuses, Actions
<1>7. ASSUME RetryDevelop PROVE TypeOK'
  BY <1>7, TickTypes
     DEF RetryDevelop, TypeOK, States, Verdicts, storyVars, Actions
<1>8. ASSUME MarkStoryDone PROVE TypeOK'
  BY <1>8, TickTypes
     DEF MarkStoryDone, SetStatus, TypeOK, States, Statuses, Verdicts, Actions
<1>9. ASSUME EscalateHuman PROVE TypeOK'
  BY <1>9, TickTypes
     DEF EscalateHuman, SetStatus, TypeOK, States, Statuses, Actions
<1>10. ASSUME StopRun PROVE TypeOK'
  BY <1>10, TickTypes DEF StopRun, StopFor, TypeOK, States, storyVars, Actions
<1>11. ASSUME SelectAfterGate PROVE TypeOK'
  BY <1>11, TickTypes
     DEF SelectAfterGate, StopFor, TypeOK, States, storyVars, Actions
<1>12. ASSUME ClearGate PROVE TypeOK'
  BY <1>12 DEF ClearGate, TypeOK, storyVars
<1>13. ASSUME UNCHANGED vars PROVE TypeOK'
  BY <1>13 DEF vars, TypeOK
<1>. QED
  BY <1>1, <1>2, <1>3, <1>4, <1>5, <1>6, <1>7, <1>8, <1>9, <1>10, <1>11, <1>12,
     <1>13
     DEF Next, Work

(* Every behaviour of the orchestrator keeps the types of its state.       *)
THEOREM TypeCorrect == Spec => []TypeOK
<1>. QED
  BY InitTypeOK, StepTypeOK, PTL DEF Spec

-----------------------------------------------------------------------------
(* The inductive step, one lemma for each part of the invariant.           *)

(* The phase of the run and the status of the active story move together.  *)
LEMMA StepPhase == IInv /\ [Next]_vars => ActiveInv' /\ PhaseInv'
<1> SUFFICES ASSUME IInv, [Next]_vars PROVE ActiveInv' /\ PhaseInv'
  OBVIOUS
<1>1. ASSUME NEW s \in Stories, NEW success \in BOOLEAN, SelectNextStory(s, success) PROVE ActiveInv' /\ PhaseInv'
  BY <1>1
     DEF SelectNextStory, IInv, TypeOK, SetStatus, StopFor, Choosing,
         ActiveInv, PhaseInv
<1>2. ASSUME IssueContract PROVE ActiveInv' /\ PhaseInv'
  BY <1>2 DEF IssueContract, IInv, SetStatus, Choosing, ActiveInv, PhaseInv
<1>3. ASSUME DevelopPatch PROVE ActiveInv' /\ PhaseInv'
  BY <1>3 DEF DevelopPatch, IInv, At, Choosing, ActiveInv, PhaseInv
<1>4. ASSUME NEW verdict \in Verdicts, RunValidation(verdict) PROVE ActiveInv' /\ PhaseInv'
  BY <1>4
     DEF RunValidation, IInv, TypeOK, At, SetStatus, Choosing, ActiveInv,
         PhaseInv, Verdicts
<1>5. ASSUME NEW success \in BOOLEAN, WriteCheckpoint(success) PROVE ActiveInv' /\ PhaseInv'
  BY <1>5
     DEF WriteCheckpoint, IInv, TypeOK, At, SetStatus, Choosing, ActiveInv,
         PhaseInv
<1>6. ASSUME RouteDebugger PROVE ActiveInv' /\ PhaseInv'
  BY <1>6
     DEF RouteDebugger, IInv, TypeOK, At, SetStatus, Choosing, ActiveInv,
         PhaseInv
<1>7. ASSUME RetryDevelop PROVE ActiveInv' /\ PhaseInv'
  BY <1>7 DEF RetryDevelop, IInv, At, storyVars, Choosing, ActiveInv, PhaseInv
<1>8. ASSUME MarkStoryDone PROVE ActiveInv' /\ PhaseInv'
  BY <1>8 DEF MarkStoryDone, ActiveInv, PhaseInv
<1>9. ASSUME EscalateHuman PROVE ActiveInv' /\ PhaseInv'
  BY <1>9 DEF EscalateHuman, Choosing, ActiveInv, PhaseInv
<1>10. ASSUME StopRun PROVE ActiveInv' /\ PhaseInv'
  BY <1>10 DEF StopRun, StopFor, Choosing, ActiveInv, PhaseInv
<1>11. ASSUME SelectAfterGate PROVE ActiveInv' /\ PhaseInv'
  BY <1>11 DEF SelectAfterGate, StopFor, Choosing, ActiveInv, PhaseInv
<1>12. ASSUME ClearGate PROVE ActiveInv' /\ PhaseInv'
  BY <1>12 DEF ClearGate, Choosing, ActiveInv, PhaseInv
<1>13. ASSUME UNCHANGED vars PROVE ActiveInv' /\ PhaseInv'
  BY <1>13 DEF vars, IInv, Choosing, ActiveInv, PhaseInv
<1>. QED
  BY <1>1, <1>2, <1>3, <1>4, <1>5, <1>6, <1>7, <1>8, <1>9, <1>10, <1>11, <1>12,
     <1>13
     DEF Next, Work

(* No tick starts a story over one that is in flight.                      *)
LEMMA StepInFlight == IInv /\ [Next]_vars => OneStoryInFlight'
<1> SUFFICES ASSUME IInv, [Next]_vars PROVE OneStoryInFlight'
  OBVIOUS
<1>1. ASSUME NEW s \in Stories, NEW success \in BOOLEAN, SelectNextStory(s, success) PROVE OneStoryInFlight'
  BY <1>1, StoriesAssumption
     DEF SelectNextStory, IInv, TypeOK, SetStatus, StopFor, storyVars,
         ActiveInv, OneStoryInFlight
<1>2. ASSUME IssueContract PROVE OneStoryInFlight'
  BY <1>2 DEF IssueContract, IInv, SetStatus, OneStoryInFlight
<1>3. ASSUME DevelopPatch PROVE OneStoryInFlight'
  BY <1>3 DEF DevelopPatch, IInv, OneStoryInFlight
<1>4. ASSUME NEW verdict \in Verdicts, RunValidation(verdict) PROVE OneStoryInFlight'
  BY <1>4 DEF RunValidation, IInv, SetStatus, OneStoryInFlight
<1>5. ASSUME NEW success \in BOOLEAN, WriteCheckpoint(success) PROVE OneStoryInFlight'
  BY <1>5 DEF WriteCheckpoint, IInv, SetStatus, OneStoryInFlight
<1>6. ASSUME RouteDebugger PROVE OneStoryInFlight'
  BY <1>6 DEF RouteDebugger, IInv, SetStatus, OneStoryInFlight
<1>7. ASSUME RetryDevelop PROVE OneStoryInFlight'
  BY <1>7 DEF RetryDevelop, IInv, storyVars, OneStoryInFlight
<1>8. ASSUME MarkStoryDone PROVE OneStoryInFlight'
  BY <1>8
     DEF MarkStoryDone, IInv, TypeOK, SetStatus, OneStoryInFlight, InFlight
<1>9. ASSUME EscalateHuman PROVE OneStoryInFlight'
  BY <1>9 DEF EscalateHuman, IInv, SetStatus, OneStoryInFlight
<1>10. ASSUME StopRun PROVE OneStoryInFlight'
  BY <1>10 DEF StopRun, IInv, StopFor, storyVars, OneStoryInFlight
<1>11. ASSUME SelectAfterGate PROVE OneStoryInFlight'
  BY <1>11 DEF SelectAfterGate, IInv, StopFor, storyVars, OneStoryInFlight
<1>12. ASSUME ClearGate PROVE OneStoryInFlight'
  BY <1>12 DEF ClearGate, IInv, storyVars, OneStoryInFlight
<1>13. ASSUME UNCHANGED vars PROVE OneStoryInFlight'
  BY <1>13 DEF vars, IInv, OneStoryInFlight
<1>. QED
  BY <1>1, <1>2, <1>3, <1>4, <1>5, <1>6, <1>7, <1>8, <1>9, <1>10, <1>11, <1>12,
     <1>13
     DEF Next, Work

(* A story starts as a candidate, and a done story stays done.             *)
LEMMA StepDependencies == IInv /\ [Next]_vars => StartedAfterDependencies'
<1> SUFFICES ASSUME IInv, [Next]_vars PROVE StartedAfterDependencies'
  OBVIOUS
<1>1. ASSUME NEW s \in Stories, NEW success \in BOOLEAN, SelectNextStory(s, success) PROVE StartedAfterDependencies'
  BY <1>1
     DEF SelectNextStory, IInv, TypeOK, SetStatus, StopFor, storyVars,
         StartedAfterDependencies, Done, IsNext, Candidates, Waiting, Tick
<1>2. ASSUME IssueContract PROVE StartedAfterDependencies'
  BY <1>2
     DEF IssueContract, IInv, SetStatus, PhaseInv, StartedAfterDependencies,
         Done, Tick
<1>3. ASSUME DevelopPatch PROVE StartedAfterDependencies'
  BY <1>3 DEF DevelopPatch, IInv, StartedAfterDependencies, Done, Tick
<1>4. ASSUME NEW verdict \in Verdicts, RunValidation(verdict) PROVE StartedAfterDependencies'
  BY <1>4
     DEF RunValidation, IInv, At, SetStatus, PhaseInv,
         StartedAfterDependencies, InFlight, Done, Tick
<1>5. ASSUME NEW success \in BOOLEAN, WriteCheckpoint(success) PROVE StartedAfterDependencies'
  BY <1>5
     DEF WriteCheckpoint, IInv, At, SetStatus, PhaseInv,
         StartedAfterDependencies, InFlight, Done, Tick
<1>6. ASSUME RouteDebugger PROVE StartedAfterDependencies'
  BY <1>6
     DEF RouteDebugger, IInv, At, SetStatus, PhaseInv,
         StartedAfterDependencies, InFlight, Done, Tick
<1>7. ASSUME RetryDevelop PROVE StartedAfterDependencies'
  BY <1>7
     DEF RetryDevelop, IInv, storyVars, StartedAfterDependencies, Done, Tick
<1>8. ASSUME MarkStoryDone PROVE StartedAfterDependencies'
  BY <1>8
     DEF MarkStoryDone, IInv, At, SetStatus, PhaseInv,
         StartedAfterDependencies, InFlight, Done, Tick
<1>9. ASSUME EscalateHuman PROVE StartedAfterDependencies'
  BY <1>9, StoriesAssumption
     DEF EscalateHuman, IInv, At, SetStatus, ActiveInv, PhaseInv,
         StartedAfterDependencies, InFlight, Done, Tick
<1>10. ASSUME StopRun PROVE StartedAfterDependencies'
  BY <1>10
     DEF StopRun, IInv, StopFor, storyVars, StartedAfterDependencies, Done,
         Tick
<1>11. ASSUME SelectAfterGate PROVE StartedAfterDependencies'
  BY <1>11
     DEF SelectAfterGate, IInv, StopFor, storyVars, StartedAfterDependencies,
         Done, Tick
<1>12. ASSUME ClearGate PROVE StartedAfterDependencies'
  BY <1>12 DEF ClearGate, IInv, storyVars, StartedAfterDependencies, Done
<1>13. ASSUME UNCHANGED vars PROVE StartedAfterDependencies'
  BY <1>13 DEF vars, IInv, StartedAfterDependencies, Done
<1>. QED
  BY <1>1, <1>2, <1>3, <1>4, <1>5, <1>6, <1>7, <1>8, <1>9, <1>10, <1>11, <1>12,
     <1>13
     DEF Next, Work

(* Only develop_patch spends an attempt, and only within the budget.       *)
LEMMA StepAttempts == IInv /\ [Next]_vars => AttemptBudgetKept'
<1> SUFFICES ASSUME IInv, [Next]_vars PROVE AttemptBudgetKept'
  OBVIOUS
<1>1. ASSUME NEW s \in Stories, NEW success \in BOOLEAN, SelectNextStory(s, success) PROVE AttemptBudgetKept'
  BY <1>1
     DEF SelectNextStory, IInv, TypeOK, SetStatus, StopFor, storyVars,
         AttemptBudgetKept
<1>2. ASSUME IssueContract PROVE AttemptBudgetKept'
  BY <1>2 DEF IssueContract, IInv, SetStatus, AttemptBudgetKept
<1>3. ASSUME DevelopPatch PROVE AttemptBudgetKept'
  <2>1. active_story_id \in Stories /\ status[active_story_id] # "escalated"
    BY <1>3 DEF DevelopPatch, IInv, At, PhaseInv
  <2>2. ASSUME NEW s \in Stories
        PROVE  /\ attempts'[s] <= AttemptBudget[s]
               /\ status'[s] = "escalated" => attempts'[s] = AttemptBudget[s]
    <3>1. CASE s = active_story_id
      <4>1. attempts'[s] = attempts[s] + 1 /\ attempts[s] < AttemptBudget[s]
        BY <1>3, <3>1 DEF DevelopPatch, IInv, TypeOK, AttemptLeft
      <4>2. attempts[s] \in Nat /\ AttemptBudget[s] \in Nat
        BY BudgetAssumption DEF IInv, TypeOK
      <4>3. status'[s] # "escalated"
        BY <1>3, <2>1, <3>1 DEF DevelopPatch
      <4>. QED
        BY <4>1, <4>2, <4>3
    <3>2. CASE s # active_story_id
      BY <1>3, <2>1, <3>2 DEF DevelopPatch, IInv, AttemptBudgetKept
    <3>. QED
      BY <3>1, <3>2
  <2>. QED
    BY <2>2 DEF AttemptBudgetKept
<1>4. ASSUME NEW verdict \in Verdicts, RunValidation(verdict) PROVE AttemptBudgetKept'
  BY <1>4 DEF RunValidation, IInv, SetStatus, AttemptBudgetKept
<1>5. ASSUME NEW success \in BOOLEAN, WriteCheckpoint(success) PROVE AttemptBudgetKept'
  BY <1>5 DEF WriteCheckpoint, IInv, SetStatus, AttemptBudgetKept
<1>6. ASSUME RouteDebugger PROVE AttemptBudgetKept'
  BY <1>6 DEF RouteDebugger, IInv, SetStatus, AttemptBudgetKept
<1>7. ASSUME RetryDevelop PROVE AttemptBudgetKept'
  BY <1>7 DEF RetryDevelop, IInv, storyVars, AttemptBudgetKept
<1>8. ASSUME MarkStoryDone PROVE AttemptBudgetKept'
  BY <1>8 DEF MarkStoryDone, IInv, SetStatus, AttemptBudgetKept
<1>9. ASSUME EscalateHuman PROVE AttemptBudgetKept'
  BY <1>9, BudgetAssumption, StoriesAssumption
     DEF EscalateHuman, IInv, TypeOK, SetStatus, ActiveInv, AttemptBudgetKept,
         AttemptLeft
<1>10. ASSUME StopRun PROVE AttemptBudgetKept'
  BY <1>10 DEF StopRun, IInv, StopFor, storyVars, AttemptBudgetKept
<1>11. ASSUME SelectAfterGate PROVE AttemptBudgetKept'
  BY <1>11 DEF SelectAfterGate, IInv, StopFor, storyVars, AttemptBudgetKept
<1>12. ASSUME ClearGate PROVE AttemptBudgetKept'
  BY <1>12 DEF ClearGate, IInv, storyVars, AttemptBudgetKept
<1>13. ASSUME UNCHANGED vars PROVE AttemptBudgetKept'
  BY <1>13 DEF vars, IInv, AttemptBudgetKept
<1>. QED
  BY <1>1, <1>2, <1>3, <1>4, <1>5, <1>6, <1>7, <1>8, <1>9, <1>10, <1>11, <1>12,
     <1>13
     DEF Next, Work

(* Every decision but stop_run is taken with budget left.                  *)
LEMMA StepBudget == IInv /\ [Next]_vars => BudgetInv'
<1> SUFFICES ASSUME IInv, [Next]_vars PROVE BudgetInv'
  OBVIOUS
<1>1. ASSUME NEW s \in Stories, NEW success \in BOOLEAN, SelectNextStory(s, success) PROVE BudgetInv'
  BY <1>1, BudgetAssumption
     DEF SelectNextStory, IInv, TypeOK, BudgetInv, BudgetLeft, Tick
<1>2. ASSUME IssueContract PROVE BudgetInv'
  BY <1>2, BudgetAssumption
     DEF IssueContract, IInv, TypeOK, BudgetInv, BudgetLeft, Tick
<1>3. ASSUME DevelopPatch PROVE BudgetInv'
  BY <1>3, BudgetAssumption
     DEF DevelopPatch, IInv, TypeOK, At, BudgetInv, BudgetLeft, Tick
<1>4. ASSUME NEW verdict \in Verdicts, RunValidation(verdict) PROVE BudgetInv'
  BY <1>4, BudgetAssumption
     DEF RunValidation, IInv, TypeOK, At, BudgetInv, BudgetLeft, Tick
<1>5. ASSUME NEW success \in BOOLEAN, WriteCheckpoint(success) PROVE BudgetInv'
  BY <1>5, BudgetAssumption
     DEF WriteCheckpoint, IInv, TypeOK, At, BudgetInv, BudgetLeft, Tick
<1>6. ASSUME RouteDebugger PROVE BudgetInv'
  BY <1>6, BudgetAssumption
     DEF RouteDebugger, IInv, TypeOK, At, BudgetInv, BudgetLeft, Tick
<1>7. ASSUME RetryDevelop PROVE BudgetInv'
  BY <1>7, BudgetAssumption
     DEF RetryDevelop, IInv, TypeOK, At, BudgetInv, BudgetLeft, Tick
<1>8. ASSUME MarkStoryDone PROVE BudgetInv'
  BY <1>8, BudgetAssumption
     DEF MarkStoryDone, IInv, TypeOK, At, BudgetInv, BudgetLeft, Tick
<1>9. ASSUME EscalateHuman PROVE BudgetInv'
  BY <1>9, BudgetAssumption
     DEF EscalateHuman, IInv, TypeOK, BudgetInv, BudgetLeft, Tick
<1>10. ASSUME StopRun PROVE BudgetInv'
  BY <1>10 DEF StopRun, StopFor, BudgetInv
<1>11. ASSUME SelectAfterGate PROVE BudgetInv'
  BY <1>11 DEF SelectAfterGate, StopFor, BudgetInv
<1>12. ASSUME ClearGate PROVE BudgetInv'
  BY <1>12 DEF ClearGate, IInv, BudgetInv
<1>13. ASSUME UNCHANGED vars PROVE BudgetInv'
  BY <1>13 DEF vars, IInv, BudgetInv
<1>. QED
  BY <1>1, <1>2, <1>3, <1>4, <1>5, <1>6, <1>7, <1>8, <1>9, <1>10, <1>11, <1>12,
     <1>13
     DEF Next, Work

(* A tick adds one decision at the end of the log and keeps the others.    *)
LEMMA TickLog ==
  ASSUME TypeOK, NEW action \in Actions, NEW story \in Stories \cup {NoStory},
         Tick(action, story)
  PROVE  /\ decision_log \in Seq(Decision)
         /\ Len(decision_log') = Len(decision_log) + 1
         /\ DOMAIN decision_log' = 1 .. Len(decision_log) + 1
         /\ \A i \in DOMAIN decision_log : decision_log'[i] = decision_log[i]
         /\ decision_log'[Len(decision_log) + 1].action = action
         /\ decision_log'[Len(decision_log) + 1].story_id = story
  BY DEF TypeOK, Tick

(* The trail stays complete when the decision added is not mark_story_done *)
(* or follows the checkpoint and the validation of its story.              *)
LEMMA TickTrail ==
  ASSUME TypeOK, AuditTrailComplete,
         NEW action \in Actions, NEW story \in Stories \cup {NoStory},
         Tick(action, story),
         action = "mark_story_done" =>
           /\ story = active_story_id
           /\ LogEndsWith("write_checkpoint", 0)
           /\ LogEndsWith("run_validation", 1)
  PROVE  AuditTrailComplete'
<1> DEFINE L == decision_log  n == Len(decision_log)
<1>1. /\ L \in Seq(Decision) /\ n \in Nat
      /\ DOMAIN L = 1 .. n /\ DOMAIN L' = 1 .. n + 1 /\ Len(L') = n + 1
      /\ \A i \in 1 .. n : L'[i] = L[i]
      /\ L'[n + 1].action = action /\ L'[n + 1].story_id = story
  BY TickLog
<1>2. Len(L') = iterations_used'
  BY <1>1 DEF AuditTrailComplete, Tick
<1>3. ASSUME NEW i \in DOMAIN L', L'[i].action = "mark_story_done"
      PROVE  \E j \in DOMAIN L' :
               /\ i = j + 2
               /\ L'[j].action = "run_validation"
               /\ L'[j + 1].action = "write_checkpoint"
               /\ L'[j].story_id = L'[i].story_id
               /\ L'[j + 1].story_id = L'[i].story_id
  <2>1. CASE i \in 1 .. n
    BY <1>1, <1>3, <2>1 DEF AuditTrailComplete
  <2>2. CASE i = n + 1
    <3>1. n - 1 \in 1 .. n /\ n \in 1 .. n
      BY <1>1, <1>3, <2>2 DEF LogEndsWith
    <3>2. /\ L'[n - 1].action = "run_validation" /\ L'[n - 1].story_id = story
          /\ L'[n].action = "write_checkpoint" /\ L'[n].story_id = story
      BY <1>1, <1>3, <2>2, <3>1 DEF LogEndsWith
    <3>3. n - 1 + 1 = n /\ i = n - 1 + 2 /\ n - 1 \in DOMAIN L'
      BY <1>1, <2>2, <3>1
    <3>4. L'[n - 1 + 1].action = "write_checkpoint" /\ L'[n - 1 + 1].story_id = L'[i].story_id
      BY <1>1, <2>2, <3>2, <3>3
    <3>. QED
      BY <1>1, <2>2, <3>2, <3>3, <3>4
  <2>. QED
    BY <1>1, <1>3, <2>1, <2>2
<1>. QED
  BY <1>2, <1>3 DEF AuditTrailComplete

(* The end of the log is what the phases validate and checkpoint promise.  *)
LEMMA StepLog == IInv /\ [Next]_vars => LogInv'
<1> SUFFICES ASSUME IInv, [Next]_vars PROVE LogInv'
  OBVIOUS
<1>1. ASSUME NEW s \in Stories, NEW success \in BOOLEAN, SelectNextStory(s, success) PROVE LogInv'
  BY <1>1, TickTrail DEF SelectNextStory, IInv, StopFor, LogInv, Actions
<1>2. ASSUME IssueContract PROVE LogInv'
  BY <1>2, TickTrail DEF IssueContract, IInv, TypeOK, LogInv, Actions
<1>3. ASSUME DevelopPatch PROVE LogInv'
  BY <1>3, TickTrail DEF DevelopPatch, IInv, TypeOK, LogInv, Actions
<1>4. ASSUME NEW verdict \in Verdicts, RunValidation(verdict) PROVE LogInv'
  BY <1>4, TickLog, TickTrail
     DEF RunValidation, IInv, At, LogInv, LogEndsWith, Actions
<1>5. ASSUME NEW success \in BOOLEAN, WriteCheckpoint(success) PROVE LogInv'
  BY <1>5, TickLog, TickTrail
     DEF WriteCheckpoint, IInv, At, LogInv, LogEndsWith, Actions
<1>6. ASSUME RouteDebugger PROVE LogInv'
  BY <1>6, TickTrail DEF RouteDebugger, IInv, TypeOK, LogInv, Actions
<1>7. ASSUME RetryDevelop PROVE LogInv'
  BY <1>7, TickTrail DEF RetryDevelop, IInv, TypeOK, LogInv, Actions
<1>8. ASSUME MarkStoryDone PROVE LogInv'
  BY <1>8, TickTrail DEF MarkStoryDone, IInv, At, LogInv, Actions
<1>9. ASSUME EscalateHuman PROVE LogInv'
  BY <1>9, TickTrail DEF EscalateHuman, IInv, TypeOK, LogInv, Actions
<1>10. ASSUME StopRun PROVE LogInv'
  BY <1>10, TickTrail DEF StopRun, IInv, StopFor, LogInv, Actions
<1>11. ASSUME SelectAfterGate PROVE LogInv'
  BY <1>11, TickTrail DEF SelectAfterGate, IInv, StopFor, LogInv, Actions
<1>12. ASSUME ClearGate PROVE LogInv'
  BY <1>12 DEF ClearGate, IInv, LogInv, AuditTrailComplete
<1>13. ASSUME UNCHANGED vars PROVE LogInv'
  BY <1>13 DEF vars, IInv, LogInv, LogEndsWith, AuditTrailComplete
<1>. QED
  BY <1>1, <1>2, <1>3, <1>4, <1>5, <1>6, <1>7, <1>8, <1>9, <1>10, <1>11, <1>12,
     <1>13
     DEF Next, Work

(* Only stop_run and the external clearing are possible past a gate.       *)
LEMMA StepStop == IInv /\ [Next]_vars => [StopStep]_vars
<1> SUFFICES ASSUME IInv, [Next]_vars PROVE [StopStep]_vars
  OBVIOUS
<1>1. ASSUME NEW s \in Stories, NEW success \in BOOLEAN, SelectNextStory(s, success) PROVE [StopStep]_vars
  BY <1>1, BudgetAssumption
     DEF SelectNextStory, IInv, TypeOK, Choosing, BudgetLeft, Running,
         StopStep, Tick
<1>2. ASSUME IssueContract PROVE [StopStep]_vars
  BY <1>2, BudgetAssumption
     DEF IssueContract, IInv, TypeOK, BudgetLeft, Running, StopStep, Tick
<1>3. ASSUME DevelopPatch PROVE [StopStep]_vars
  BY <1>3, BudgetAssumption
     DEF DevelopPatch, IInv, TypeOK, At, BudgetLeft, Running, StopStep, Tick
<1>4. ASSUME NEW verdict \in Verdicts, RunValidation(verdict) PROVE [StopStep]_vars
  BY <1>4, BudgetAssumption
     DEF RunValidation, IInv, TypeOK, At, BudgetLeft, Running, StopStep, Tick
<1>5. ASSUME NEW success \in BOOLEAN, WriteCheckpoint(success) PROVE [StopStep]_vars
  BY <1>5, BudgetAssumption
     DEF WriteCheckpoint, IInv, TypeOK, At, BudgetLeft, Running, StopStep, Tick
<1>6. ASSUME RouteDebugger PROVE [StopStep]_vars
  BY <1>6, BudgetAssumption
     DEF RouteDebugger, IInv, TypeOK, At, BudgetLeft, Running, StopStep, Tick
<1>7. ASSUME RetryDevelop PROVE [StopStep]_vars
  BY <1>7, BudgetAssumption
     DEF RetryDevelop, IInv, TypeOK, At, BudgetLeft, Running, StopStep, Tick
<1>8. ASSUME MarkStoryDone PROVE [StopStep]_vars
  BY <1>8, BudgetAssumption
     DEF MarkStoryDone, IInv, TypeOK, At, BudgetLeft, Running, StopStep, Tick
<1>9. ASSUME EscalateHuman PROVE [StopStep]_vars
  BY <1>9, BudgetAssumption
     DEF EscalateHuman, IInv, TypeOK, At, Choosing, BudgetLeft, Running,
         StopStep, Tick
<1>10. ASSUME StopRun PROVE [StopStep]_vars
  BY <1>10 DEF StopRun, StopFor, StopStep
<1>11. ASSUME SelectAfterGate PROVE [StopStep]_vars
  BY <1>11 DEF SelectAfterGate, StopFor, StopStep
<1>12. ASSUME ClearGate PROVE [StopStep]_vars
  BY <1>12 DEF ClearGate, IInv, BudgetInv, StopStep
<1>13. ASSUME UNCHANGED vars PROVE [StopStep]_vars
  BY <1>13
<1>. QED
  BY <1>1, <1>2, <1>3, <1>4, <1>5, <1>6, <1>7, <1>8, <1>9, <1>10, <1>11, <1>12,
     <1>13
     DEF Next, Work

-----------------------------------------------------------------------------
(* The theorems.                                                           *)

LEMMA InitInv == Init => IInv
<1> SUFFICES ASSUME Init PROVE IInv
  OBVIOUS
<1>1. TypeOK
  BY InitTypeOK
<1>2. ActiveInv /\ PhaseInv /\ BudgetInv
  BY BudgetAssumption DEF Init, ActiveInv, PhaseInv, BudgetInv
<1>3. OneStoryInFlight /\ StartedAfterDependencies
  BY DEF Init, OneStoryInFlight, StartedAfterDependencies, InFlight
<1>4. AttemptBudgetKept
  <2>1. ASSUME NEW s \in Stories
        PROVE  attempts[s] <= AttemptBudget[s] /\ status[s] # "escalated"
    <3>1. attempts[s] = 0 /\ AttemptBudget[s] \in Nat
      BY BudgetAssumption DEF Init
    <3>2. status[s] \in {"todo", "ready", "blocked"}
      BY DEF Init
    <3>. QED
      BY <3>1, <3>2
  <2>. QED
    BY <2>1 DEF AttemptBudgetKept
<1>5. LogInv
  BY DEF Init, LogInv, AuditTrailComplete
<1>. QED
  BY <1>1, <1>2, <1>3, <1>4, <1>5 DEF IInv

LEMMA StepInv == IInv /\ [Next]_vars => IInv'
  BY StepTypeOK, StepPhase, StepInFlight, StepDependencies, StepAttempts,
     StepLog, StepBudget
     DEF IInv

(* Every reachable state satisfies the strengthened invariant: the         *)
(* tracker's phase, active story, last verdict and decision log always     *)
(* agree with each other.  The theorems below are consequences of it.      *)
THEOREM Invariance == Spec => []IInv
  BY InitInv, StepInv, PTL DEF Spec

(* At most one story is in flight, for every backlog and every budget.     *)
THEOREM OneInFlight == Spec => []OneStoryInFlight
<1>1. IInv => OneStoryInFlight
  BY DEF IInv
<1>. QED
  BY <1>1, Invariance, PTL

(* No story is started, finished or escalated over an unfinished           *)
(* dependency, for every dependency graph, cyclic ones included.           *)
THEOREM DependenciesFirst == Spec => []StartedAfterDependencies
<1>1. IInv => StartedAfterDependencies
  BY DEF IInv
<1>. QED
  BY <1>1, Invariance, PTL

(* develop_patch stays within the attempt budget and a story is escalated  *)
(* exactly when its budget is spent.                                       *)
THEOREM AttemptsWithinBudget == Spec => []AttemptBudgetKept
<1>1. IInv => AttemptBudgetKept
  BY DEF IInv
<1>. QED
  BY <1>1, Invariance, PTL

(* Every story marked done was validated and checkpointed in the two ticks *)
(* before, and the log misses no tick.                                     *)
THEOREM AuditTrail == Spec => []AuditTrailComplete
<1>1. IInv => AuditTrailComplete
  BY DEF IInv, LogInv
<1>. QED
  BY <1>1, Invariance, PTL

(* A stop is final and forced by the run budget.                           *)
THEOREM StopFinal == Spec => StopIsFinal
<1>1. IInv /\ [Next]_vars => [StopStep]_vars
  BY StepStop
<1>. QED
  BY <1>1, Invariance, PTL DEF Spec, StopIsFinal

-----------------------------------------------------------------------------
(* The tracker implements StoryLifecycle.                                  *)

LEMMA PhaseOfStatus ==
  /\ PhaseOf("todo") = "open" /\ PhaseOf("ready") = "open"
  /\ PhaseOf("blocked") = "shut"
  /\ PhaseOf("in_progress") = "working" /\ PhaseOf("debugging") = "working"
  /\ PhaseOf("passed") = "verified" /\ PhaseOf("checkpointed") = "saved"
  /\ PhaseOf("done") = "done" /\ PhaseOf("escalated") = "given_up"
  BY DEF PhaseOf

(* The phase tells the same about a story as its status.                   *)
LEMMA StatusOfPhase ==
  ASSUME TypeOK, NEW s \in Stories
  PROVE  /\ PhaseOf(status[s]) = "open" <=> s \in Waiting
         /\ PhaseOf(status[s]) = "done" <=> s \in Done
         /\ PhaseOf(status[s]) \in {"working", "verified", "saved"} <=>
              status[s] \in InFlight
<1>1. status[s] \in Statuses
  BY DEF TypeOK
<1>. QED
  BY <1>1, PhaseOfStatus DEF Statuses, Waiting, Done, InFlight

(* Setting one status changes the phase of that story and of no other.     *)
LEMMA PhaseAfterSet ==
  ASSUME TypeOK, NEW s \in Stories, NEW st \in Statuses, SetStatus(s, st)
  PROVE  [t \in Stories |-> PhaseOf(status[t])]' =
           [[t \in Stories |-> PhaseOf(status[t])] EXCEPT ![s] = PhaseOf(st)]
<1>1. status' = [status EXCEPT ![s] = st]
  BY DEF SetStatus
<1>2. ASSUME NEW t \in Stories
      PROVE  PhaseOf(status'[t]) = IF t = s THEN PhaseOf(st) ELSE PhaseOf(status[t])
  BY <1>1 DEF TypeOK
<1>. QED
  BY <1>2

LEMMA InitRefines == Init => Lifecycle!Init
<1> SUFFICES ASSUME Init PROVE Lifecycle!Init
  OBVIOUS
<1>1. ASSUME NEW s \in Stories PROVE PhaseOf(status[s]) \in {"open", "shut"}
  <2>1. status[s] \in {"todo", "ready", "blocked"}
    BY DEF Init
  <2>. QED
    BY <2>1, PhaseOfStatus
<1>2. [s \in Stories |-> PhaseOf(status[s])] \in [Stories -> {"open", "shut"}]
  BY <1>1
<1>3. (state = "validate" /\ last_validation_passed = "unknown") = FALSE
  BY DEF Init
<1>. QED
  BY <1>2, <1>3 DEF Init, Lifecycle!Init

LEMMA StepRefines == IInv /\ [Next]_vars => [Lifecycle!Next]_(Lifecycle!vars)
<1> DEFINE P == [s \in Stories |-> PhaseOf(status[s])]
           U == state = "validate" /\ last_validation_passed = "unknown"
           Same == P' = P /\ attempts' = attempts /\ U' = U /\ depends_on' = depends_on
<1> SUFFICES ASSUME IInv, [Next]_vars PROVE Lifecycle!Next \/ Same
  BY DEF Lifecycle!vars
<1>0. TypeOK /\ ActiveInv /\ PhaseInv /\ IInv
  BY DEF IInv
<1>1. ASSUME NEW s \in Stories, SelectNextStory(s, TRUE) PROVE Lifecycle!Next
  <2>1. P[s] = "open" /\ depends_on[s] \subseteq Lifecycle!Finished
    BY <1>0, <1>1, StatusOfPhase
       DEF SelectNextStory, IsNext, Candidates, Done, Lifecycle!Finished
  <2>2. Lifecycle!InWork = {}
    BY <1>0, <1>1, StatusOfPhase, StoriesAssumption
       DEF SelectNextStory, ActiveInv, IInv, OneStoryInFlight, Lifecycle!InWork
  <2>3. P' = [P EXCEPT ![s] = "working"]
    BY <1>0, <1>1, PhaseAfterSet, PhaseOfStatus DEF SelectNextStory, Statuses
  <2>4. U' = U /\ attempts' = attempts /\ depends_on' = depends_on
    BY <1>1 DEF SelectNextStory, Choosing, Tick
  <2>. QED
    BY <2>1, <2>2, <2>3, <2>4 DEF Lifecycle!Start, Lifecycle!Next
<1>2. ASSUME NEW s \in Stories, SelectNextStory(s, FALSE) PROVE Same
  BY <1>2 DEF SelectNextStory, StopFor, storyVars, Choosing, Tick
<1>3. ASSUME IssueContract PROVE Same
  <2>1. active_story_id \in Stories /\ PhaseOf(status[active_story_id]) = "working"
    BY <1>0, <1>3, PhaseOfStatus DEF IssueContract, ActiveInv, PhaseInv
  <2>2. P' = [P EXCEPT ![active_story_id] = "working"]
    BY <1>0, <1>3, <2>1, PhaseAfterSet, PhaseOfStatus
       DEF IssueContract, Statuses
  <2>3. P' = P
    BY <2>1, <2>2
  <2>. QED
    BY <1>3, <2>3 DEF IssueContract, Tick
<1>4. ASSUME DevelopPatch PROVE Lifecycle!Next
  <2>1. active_story_id \in Stories /\ P[active_story_id] = "working"
    BY <1>0, <1>4, PhaseOfStatus DEF DevelopPatch, At, PhaseInv
  <2>2. P' = P /\ ~U /\ U'
    BY <1>4 DEF DevelopPatch, At
  <2>. QED
    BY <1>4, <2>1, <2>2
       DEF DevelopPatch, AttemptLeft, Tick, Lifecycle!Patch, Lifecycle!Next
<1>5. ASSUME RunValidation("passed") PROVE Lifecycle!Next
  <2>1. active_story_id \in Stories /\ P[active_story_id] = "working"
    BY <1>0, <1>5, PhaseOfStatus DEF RunValidation, At, PhaseInv
  <2>2. P' = [P EXCEPT ![active_story_id] = "verified"]
    BY <1>0, <1>5, <2>1, PhaseAfterSet, PhaseOfStatus
       DEF RunValidation, Statuses
  <2>3. U /\ ~U'
    BY <1>5 DEF RunValidation, At
  <2>. QED
    BY <1>5, <2>1, <2>2, <2>3
       DEF RunValidation, Tick, Lifecycle!Pass, Lifecycle!Next
<1>6. ASSUME NEW verdict \in {"unknown", "failed"}, RunValidation(verdict)
      PROVE  Same \/ Lifecycle!Next
  <2>1. active_story_id \in Stories /\ P[active_story_id] = "working"
    BY <1>0, <1>6, PhaseOfStatus DEF RunValidation, At, PhaseInv
  <2>2. P' = [P EXCEPT ![active_story_id] = "working"]
    BY <1>0, <1>6, <2>1, PhaseAfterSet, PhaseOfStatus
       DEF RunValidation, Statuses
  <2>3. P' = P
    BY <2>1, <2>2
  <2>4. U /\ (U' <=> verdict = "unknown")
    BY <1>6 DEF RunValidation, At
  <2>. QED
    BY <1>6, <2>1, <2>3, <2>4
       DEF RunValidation, Tick, Lifecycle!Reject, Lifecycle!Next
<1>7. ASSUME NEW success \in BOOLEAN, WriteCheckpoint(success)
      PROVE  Lifecycle!Next
  <2>1. active_story_id \in Stories /\ P[active_story_id] = "verified"
    BY <1>0, <1>7, PhaseOfStatus DEF WriteCheckpoint, At, PhaseInv
  <2>2. P' = [P EXCEPT ![active_story_id] = "saved"]
    BY <1>0, <1>7, <2>1, PhaseAfterSet, PhaseOfStatus
       DEF WriteCheckpoint, Statuses
  <2>3. ~U /\ ~U'
    BY <1>7 DEF WriteCheckpoint
  <2>. QED
    BY <1>7, <2>1, <2>2, <2>3
       DEF WriteCheckpoint, Tick, Lifecycle!Save, Lifecycle!Next
<1>8. ASSUME RouteDebugger PROVE Same
  <2>1. active_story_id \in Stories /\ P[active_story_id] = "working"
    BY <1>0, <1>8, PhaseOfStatus DEF RouteDebugger, At, PhaseInv
  <2>2. P' = [P EXCEPT ![active_story_id] = "working"]
    BY <1>0, <1>8, <2>1, PhaseAfterSet, PhaseOfStatus
       DEF RouteDebugger, Statuses
  <2>3. P' = P
    BY <2>1, <2>2
  <2>4. ~U /\ ~U'
    BY <1>8 DEF RouteDebugger
  <2>. QED
    BY <1>8, <2>3, <2>4 DEF RouteDebugger, Tick
<1>9. ASSUME RetryDevelop PROVE Same
  BY <1>9 DEF RetryDevelop, At, storyVars, Tick
<1>10. ASSUME MarkStoryDone PROVE Lifecycle!Next
  <2>1. active_story_id \in Stories /\ P[active_story_id] = "saved"
    BY <1>0, <1>10, PhaseOfStatus DEF MarkStoryDone, At, PhaseInv
  <2>2. P' = [P EXCEPT ![active_story_id] = "done"]
    BY <1>0, <1>10, <2>1, PhaseAfterSet, PhaseOfStatus
       DEF MarkStoryDone, Statuses
  <2>3. ~U /\ ~U'
    BY <1>10 DEF MarkStoryDone, At
  <2>. QED
    BY <1>10, <2>1, <2>2, <2>3
       DEF MarkStoryDone, Tick, Lifecycle!Finish, Lifecycle!Next
<1>11. ASSUME EscalateHuman PROVE Same \/ Lifecycle!Next
  <2>1. ~U /\ ~U'
    BY <1>11 DEF EscalateHuman, At, Choosing
  <2>2. CASE Choosing
    <3>1. status' = status
      BY <1>0, <1>11, <2>2, StoriesAssumption
         DEF EscalateHuman, ActiveInv, SetStatus
    <3>. QED
      BY <1>11, <2>1, <3>1 DEF EscalateHuman, Tick
  <2>3. CASE ~Choosing
    <3>1. /\ active_story_id \in Stories /\ ~AttemptLeft
          /\ P[active_story_id] = "working"
      BY <1>0, <1>11, <2>3, PhaseOfStatus DEF EscalateHuman, At, PhaseInv
    <3>2. P' = [P EXCEPT ![active_story_id] = "given_up"]
      BY <1>0, <1>11, <3>1, PhaseAfterSet, PhaseOfStatus
         DEF EscalateHuman, Statuses
    <3>3. attempts[active_story_id] >= AttemptBudget[active_story_id]
      BY <1>0, <3>1, BudgetAssumption DEF AttemptLeft, TypeOK
    <3>. QED
      BY <1>11, <2>1, <3>1, <3>2, <3>3
         DEF EscalateHuman, Tick, Lifecycle!GiveUp, Lifecycle!Next
  <2>. QED
    BY <2>2, <2>3
<1>12. ASSUME StopRun \/ SelectAfterGate PROVE Same \/ Lifecycle!Next
  <2>1. P' = P /\ attempts' = attempts /\ depends_on' = depends_on /\ ~U'
    BY <1>12 DEF StopRun, SelectAfterGate, StopFor, storyVars, Tick
  <2>2. CASE ~U
    BY <2>1, <2>2
  <2>3. CASE U
    <3>1. active_story_id \in Stories /\ P[active_story_id] = "working"
      BY <1>0, <2>3, PhaseOfStatus DEF ActiveInv, PhaseInv
    <3>. QED
      BY <2>1, <2>3, <3>1 DEF Lifecycle!Reject, Lifecycle!Next
  <2>. QED
    BY <2>2, <2>3
<1>13. ASSUME ClearGate PROVE Same
  BY <1>13 DEF ClearGate, storyVars
<1>14. ASSUME UNCHANGED vars PROVE Same
  <2>1. /\ state' = state /\ last_validation_passed' = last_validation_passed
        /\ status' = status /\ attempts' = attempts /\ depends_on' = depends_on
    BY <1>14 DEF vars
  <2>. QED
    BY <2>1
<1>15. ASSUME NEW s \in Stories, NEW success \in BOOLEAN, SelectNextStory(s, success)
       PROVE  Lifecycle!Next \/ Same
  <2>1. success = TRUE \/ success = FALSE
    OBVIOUS
  <2>. QED
    BY <1>1, <1>2, <1>15, <2>1
<1>16. ASSUME NEW verdict \in Verdicts, RunValidation(verdict)
       PROVE  Lifecycle!Next \/ Same
  BY <1>5, <1>6, <1>16 DEF Verdicts
<1>. QED
  BY <1>3, <1>4, <1>7, <1>8, <1>9, <1>10, <1>11, <1>12, <1>13, <1>14, <1>15,
     <1>16
     DEF Next, Work

(* The orchestrator implements the abstract lifecycle.                     *)
THEOREM Refinement == Spec => ImplementsLifecycle
  BY InitRefines, StepRefines, Invariance, PTL
     DEF Spec, ImplementsLifecycle, Lifecycle!Spec

-----------------------------------------------------------------------------
(* The other tables.                                                       *)

(* What a story has left of its budget where the tables look at it: all of *)
(* it before its first patch, and some of it whenever the debugger has     *)
(* been called.                                                            *)
LeftInv ==
  /\ \A s \in Stories : status[s] \in {"todo", "ready"} => attempts[s] = 0
  /\ state = "contract" => attempts[active_story_id] = 0
  /\ state = "develop" => attempts[active_story_id] = 0 \/ AttemptLeft
  /\ state = "debug" => AttemptLeft

LEMMA StepLeft == IInv /\ LeftInv /\ [Next]_vars => LeftInv'
<1> SUFFICES ASSUME TypeOK, ActiveInv, PhaseInv, LeftInv, [Next]_vars PROVE LeftInv'
  BY DEF IInv
<1> USE DEF LeftInv, TypeOK, ActiveInv, AttemptLeft, storyVars
<1>1. ASSUME NEW s \in Stories, NEW success \in BOOLEAN, SelectNextStory(s, success) PROVE LeftInv'
  BY <1>1 DEF SelectNextStory, SetStatus, StopFor, IsNext, Candidates, Waiting
<1>2. CASE IssueContract
  BY <1>2 DEF IssueContract, SetStatus
<1>3. CASE DevelopPatch
  <2>1. status[active_story_id] \notin {"todo", "ready"}
    BY <1>3 DEF DevelopPatch, At, PhaseInv
  <2> QED
    BY <1>3, <2>1 DEF DevelopPatch, At
<1>4. ASSUME NEW verdict \in Verdicts, RunValidation(verdict) PROVE LeftInv'
  BY <1>4 DEF RunValidation, At, SetStatus
<1>5. ASSUME NEW success \in BOOLEAN, WriteCheckpoint(success) PROVE LeftInv'
  BY <1>5 DEF WriteCheckpoint, At, SetStatus
<1>6. CASE RouteDebugger
  BY <1>6 DEF RouteDebugger, At, SetStatus
<1>7. CASE RetryDevelop
  BY <1>7 DEF RetryDevelop, At
<1>8. CASE MarkStoryDone
  BY <1>8 DEF MarkStoryDone, At, SetStatus
<1>9. CASE EscalateHuman
  BY <1>9 DEF EscalateHuman, SetStatus
<1>10. CASE StopRun \/ SelectAfterGate
  BY <1>10 DEF StopRun, SelectAfterGate, StopFor
<1>11. CASE ClearGate \/ UNCHANGED vars
  BY <1>11 DEF ClearGate, vars
<1>. QED
  BY <1>1, <1>2, <1>3, <1>4, <1>5, <1>6, <1>7, <1>8, <1>9, <1>10, <1>11 DEF Next, Work

(* The action a tick leaves at the end of the log.                         *)
LEMMA LastAction ==
  ASSUME TypeOK, NEW action, NEW story, Tick(action, story)
  PROVE  decision_log'[Len(decision_log')].action = action
BY DEF TypeOK, Tick

LEMMA Moves ==
  /\ \A x \in DOMAIN HarnessState : LegalMove(HarnessState[x], HarnessState[x])
  /\ LegalMove(HarnessState["contract"], HarnessState["develop"])
  /\ LegalMove(HarnessState["develop"], HarnessState["validate"])
  /\ LegalMove(HarnessState["develop"], HarnessState["gate"])
  /\ LegalMove(HarnessState["validate"], HarnessState["checkpoint"])
  /\ LegalMove(HarnessState["validate"], HarnessState["debug"])
  /\ LegalMove(HarnessState["validate"], HarnessState["gate"])
  /\ LegalMove(HarnessState["debug"], HarnessState["develop"])
<1>1. LegalMove(HarnessState["develop"], HarnessState["validate"])
  BY DEF LegalMove, HarnessState, CanTransition, Transitions, WithinDevelop
<1> QED
  BY <1>1 DEF LegalMove, HarnessState, CanTransition, Transitions

(* What TablesAgree asks of the action a tick takes and of where it leads. *)
Agrees(action) ==
  \/ /\ HarnessAction(action) = HarnessTick(HarnessState[state], active_story_id)
     /\ state \in {"develop", "validate"} /\ EnforceRunBudget =>
          SupervisorAction[action] = Supervise(ArtifactsAt(state, active_story_id))
  \/ state = "develop" /\ AttemptBudget[active_story_id] = 0

Moved == state' \in DOMAIN HarnessState => LegalMove(HarnessState[state], HarnessState[state'])

TablesStep ==
  decision_log' # decision_log /\ state \in DOMAIN HarnessState =>
    Agrees(decision_log'[Len(decision_log')].action) /\ Moved

(* What the supervisor answers to a verdict against the patch.             *)
LEMMA AfterFailure ==
  ASSUME last_validation_passed = "failed", NEW s
  PROVE  Supervise(ArtifactsAt("validate", s)) =
           IF attempts[s] >= AttemptBudget[s] THEN "ask_human" ELSE "call_debugger"
<1> DEFINE a == ArtifactsAt("validate", s)
<1>1. /\ a.storyReady = TRUE /\ a.humanIssue = "none" /\ a.permissionDenied = "none"
      /\ a.validationReport = "failed" /\ a.sameSignature = FALSE
  BY DEF ArtifactsAt
<1>2. a.attemptsSpent = (attempts[s] >= AttemptBudget[s])
  BY Zenon DEF ArtifactsAt
<1> HIDE DEF a
<1>3. Supervise(a) = IF a.attemptsSpent THEN "ask_human" ELSE "call_debugger"
  BY <1>1 DEF Supervise
<1> QED
  BY <1>2, <1>3 DEF a

LEMMA StepTables == IInv /\ LeftInv /\ [Next]_vars => TablesStep
<1> SUFFICES ASSUME IInv, LeftInv, [Next]_vars,
                    decision_log' # decision_log, state \in DOMAIN HarnessState
             PROVE  Agrees(decision_log'[Len(decision_log')].action) /\ Moved
  BY DEF TablesStep
<1>0. TypeOK /\ ActiveInv /\ AttemptBudgetKept
  BY DEF IInv
<1>1. ASSUME NEW action, NEW story, Tick(action, story), Agrees(action), Moved
      PROVE  Agrees(decision_log'[Len(decision_log')].action) /\ Moved
  BY <1>0, <1>1, LastAction
<1>2. \A s \in Stories : attempts[s] \in Nat /\ AttemptBudget[s] \in Nat
  BY <1>0, BudgetAssumption DEF TypeOK
<1> USE DEF Agrees, Moved, HarnessTick, HarnessState, HarnessAction, EnforceRunBudget,
     EnforceAttemptBudget, BudgetLeft, Choosing, At
<1>3. ASSUME NEW s \in Stories, NEW success \in BOOLEAN, SelectNextStory(s, success) PROVE FALSE
  BY <1>3 DEF SelectNextStory
<1>4. CASE IssueContract
  <2>1. Tick("issue_contract", active_story_id) /\ Agrees("issue_contract") /\ Moved
    BY <1>4, Moves DEF IssueContract
  <2> QED
    BY <1>1, <2>1
<1>5. CASE DevelopPatch
  <2>1. Supervise(ArtifactsAt("develop", active_story_id)) = "call_developer"
    BY DEF Supervise, ArtifactsAt
  <2>2. Tick("develop_patch", active_story_id) /\ Agrees("develop_patch") /\ Moved
    BY <1>5, <2>1, Moves DEF DevelopPatch, SupervisorAction
  <2> QED
    BY <1>1, <2>2
<1>6. ASSUME NEW verdict \in Verdicts, RunValidation(verdict)
      PROVE  Agrees(decision_log'[Len(decision_log')].action) /\ Moved
  <2>1. Supervise(ArtifactsAt("validate", active_story_id)) = "validate"
    BY <1>6 DEF RunValidation, Supervise, ArtifactsAt
  <2>2. Tick("run_validation", active_story_id) /\ Agrees("run_validation") /\ Moved
    BY <1>6, <2>1, Moves DEF RunValidation, SupervisorAction
  <2> QED
    BY <1>1, <2>2
<1>7. ASSUME NEW success \in BOOLEAN, WriteCheckpoint(success)
      PROVE  Agrees(decision_log'[Len(decision_log')].action) /\ Moved
  <2>1. Supervise(ArtifactsAt("validate", active_story_id)) = "checkpoint"
    BY <1>7 DEF WriteCheckpoint, Supervise, ArtifactsAt
  <2>2. Tick("write_checkpoint", active_story_id) /\ Agrees("write_checkpoint") /\ Moved
    BY <1>7, <2>1, Moves DEF WriteCheckpoint, SupervisorAction
  <2> QED
    BY <1>1, <2>2
<1>8. CASE RouteDebugger
  <2>0. last_validation_passed = "failed" /\ ~(attempts[active_story_id] >= AttemptBudget[active_story_id])
    BY <1>2, <1>8 DEF RouteDebugger, AttemptLeft
  <2>1. Supervise(ArtifactsAt("validate", active_story_id)) = "call_debugger"
    BY <2>0, AfterFailure
  <2>2. Tick("route_debugger", active_story_id) /\ Agrees("route_debugger") /\ Moved
    BY <1>8, <2>1, Moves DEF RouteDebugger, AttemptLeft, SupervisorAction
  <2> QED
    BY <1>1, <2>2
<1>9. CASE RetryDevelop
  <2>1. AttemptLeft
    BY <1>9 DEF RetryDevelop, LeftInv
  <2>2. Tick("retry_develop", active_story_id) /\ Agrees("retry_develop") /\ Moved
    BY <1>9, <2>1, Moves DEF RetryDevelop, AttemptLeft
  <2> QED
    BY <1>1, <2>2
<1>10. CASE MarkStoryDone
  <2>1. Tick("mark_story_done", active_story_id) /\ Agrees("mark_story_done") /\ Moved
    BY <1>10 DEF MarkStoryDone
  <2> QED
    BY <1>1, <2>1
<1>11. CASE EscalateHuman
  <2>1. CASE state = "develop"
    <3>1. AttemptBudget[active_story_id] = 0
      BY <1>0, <1>2, <1>11, <2>1 DEF EscalateHuman, LeftInv, AttemptLeft, ActiveInv
    <3>2. Tick("escalate_human", active_story_id) /\ Agrees("escalate_human") /\ Moved
      BY <1>11, <2>1, <3>1, Moves DEF EscalateHuman
    <3> QED
      BY <1>1, <3>2
  <2>2. CASE state = "validate"
    <3>1. /\ active_story_id \in Stories
          /\ last_validation_passed = "failed" /\ ~AttemptLeft /\ BudgetLeft
      BY <1>11, <2>2 DEF EscalateHuman
    <3>2. Supervise(ArtifactsAt("validate", active_story_id)) = "ask_human"
      BY <1>2, <3>1, AfterFailure DEF AttemptLeft
    <3>3. Tick("escalate_human", active_story_id) /\ Agrees("escalate_human") /\ Moved
      BY <1>11, <2>2, <3>1, <3>2, Moves DEF EscalateHuman, AttemptLeft, SupervisorAction
    <3> QED
      BY <1>1, <3>3
  <2> QED
    BY <1>11, <2>1, <2>2 DEF EscalateHuman
<1>12. CASE StopRun
  <2>1. ~BudgetLeft \/ (state = "gate" /\ ~human_gate_cleared)
    BY <1>0, <1>12 DEF StopRun, StopReason, ActiveInv
  <2>2. Tick("stop_run", NoStory) /\ Agrees("stop_run") /\ Moved
    BY <1>12, <2>1 DEF StopRun, StopFor
  <2> QED
    BY <1>1, <2>2
<1>13. CASE SelectAfterGate
  <2>1. Tick("select_next_story", NoStory) /\ Agrees("select_next_story") /\ Moved
    BY <1>13 DEF SelectAfterGate, StopFor
  <2> QED
    BY <1>1, <2>1
<1>14. CASE ClearGate \/ UNCHANGED vars
  BY <1>14 DEF ClearGate, vars
<1>. QED
  BY <1>3, <1>4, <1>5, <1>6, <1>7, <1>8, <1>9, <1>10, <1>11, <1>12, <1>13, <1>14 DEF Next, Work

(* The three tables agree on every backlog, order and budget: the older    *)
(* engine and the supervisor would have decided what the orchestrator did. *)
THEOREM Tables == Spec => TablesAgree
<1>1. Init => LeftInv
  BY DEF Init, LeftInv
<1>2. TablesStep => [decision_log' # decision_log /\ state \in DOMAIN HarnessState =>
       LET action == decision_log'[Len(decision_log')].action IN
       /\ \/ /\ HarnessAction(action) = HarnessTick(HarnessState[state], active_story_id)
             /\ state \in {"develop", "validate"} /\ EnforceRunBudget =>
                  SupervisorAction[action] = Supervise(ArtifactsAt(state, active_story_id))
          \/ state = "develop" /\ AttemptBudget[active_story_id] = 0
       /\ state' \in DOMAIN HarnessState =>
            LegalMove(HarnessState[state], HarnessState[state'])]_vars
  BY DEF TablesStep, Agrees, Moved
<1>. QED
  BY <1>1, <1>2, Invariance, StepLeft, StepTables, PTL DEF Spec, TablesAgree
=============================================================================
