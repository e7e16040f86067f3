----------------------------- MODULE Scheduler -----------------------------
(***************************************************************************)
(* One call of a story scheduler of task-graph (scheduler.ts), parallel or *)
(* sequential, over a backlog of StoryRecords, with the isolation pool of  *)
(* workspace-manager it runs its batches on and selectNextStory of         *)
(* harness-core.                                                           *)
(*                                                                         *)
(* The scheduler's own code runs between two awaits without interruption,  *)
(* so an action is what it does from one await to the next.  The workers   *)
(* of a batch are the concurrent part: each ends in its own step, and goes *)
(* on after the call has thrown.                                           *)
(***************************************************************************)
EXTENDS Integers, Sequences, FiniteSets, SequencesExt

CONSTANTS
  Stories,       \* story_ids of the backlog
  Rank,          \* position of a story in the order of story_id
  SelectRank,    \* position in the order epic_id, story_id
  Backlogs,      \* the dependency graphs considered: functions from Stories to SUBSET Stories
  RunBudget      \* runBudget of the call

ASSUME StoriesAssumption == IsFiniteSet(Stories)
ASSUME RankAssumption ==
  /\ Rank \in [Stories -> Nat] /\ SelectRank \in [Stories -> Nat]
  /\ \A s, t \in Stories : Rank[s] = Rank[t] \/ SelectRank[s] = SelectRank[t] => s = t
ASSUME BacklogsAssumption == Backlogs \subseteq [Stories -> SUBSET Stories]
ASSUME RunBudgetAssumption == RunBudget \in Nat

VARIABLES
  scheduler,     \* which of the two was called; fixed by Init, as the next three
  depends_on,
  parallelism_class,
  overlap,       \* pairs of stories whose allowed_write_sets overlap
  pc,            \* the await the scheduler is at
  status,        \* StoryStatus of each record, as far as the schedulers tell them apart
  worker,        \* of the inner loop of a story this call took up; "none" before
  batch,         \* stories the loop's current turn runs
  workspaces,    \* stories whose isolated workspace exists
  merged,        \* merge commits in the target root, in order
  checkpoints,   \* stories onCheckpoint has resolved for
  completed,
  iterations,
  outcome        \* "none" until the call returns; "thrown" when it rejects

backlog == <<scheduler, depends_on, parallelism_class, overlap>>
vars == <<scheduler, depends_on, parallelism_class, overlap, pc, status, worker, batch,
          workspaces, merged, checkpoints, completed, iterations, outcome>>

Pairs == {p \in SUBSET Stories : Cardinality(p) = 2}
Classes == {"parallel_safe", "sequential", "exclusive"}
Statuses == {"todo", "in_progress", "escalated", "done"}
Outcomes == {"none", "all_done", "halted", "escalated", "thrown"}

IsFirst(s, S) == s \in S /\ \A t \in S : Rank[s] <= Rank[t]
InIdOrder(S) ==
  CHOOSE q \in [1..Cardinality(S) -> S] :
    \A i, j \in DOMAIN q : i < j => Rank[q[i]] < Rank[q[j]]

-----------------------------------------------------------------------------
(* Selection.                                                              *)

Done == {s \in Stories : status[s] = "done"}
(* Mutant of Selectable: a dependency that was taken up counts as done.    *)
SelectableOnceTaken ==
  {s \in Stories : status[s] = "todo" /\ \A d \in depends_on[s] : status[d] # "todo"}
Selectable == {s \in Stories : status[s] = "todo" /\ depends_on[s] \subseteq Done}

(* batchParallel: the sequential scheduler has none.                       *)
BatchParallel ==
  {s \in Selectable : scheduler = "parallel" /\ parallelism_class[s] = "parallel_safe"}

(* selectNextStory of harness-core.                                        *)
HasExclusiveRunning ==
  \E s \in Stories : parallelism_class[s] = "exclusive" /\ status[s] = "in_progress"
IsNext(s) ==
  /\ ~HasExclusiveRunning /\ s \in Selectable
  /\ \A t \in Selectable : SelectRank[s] <= SelectRank[t]
NothingSelectable == BatchParallel = {} /\ (HasExclusiveRunning \/ Selectable = {})

(* computeSpawnPlan: of every connected component of the overlap graph     *)
(* over the candidates, the first story runs.  A component is the least    *)
(* set that holds the story and is closed under overlap.                   *)
Closed(D, C) == \A s \in D, t \in C : {s, t} \in overlap => t \in D
Component(s, C) == {t \in C : \A D \in SUBSET C : s \in D /\ Closed(D, C) => t \in D}
(* Mutants of ParallelBatch: the plan is not applied, and no story of a    *)
(* conflict runs.                                                          *)
WholeBatch(C) == C
ConflictFreeBatch(C) == {s \in C : \A t \in C : {s, t} \notin overlap}
ParallelBatch(C) == {s \in C : \A t \in Component(s, C) : Rank[s] <= Rank[t]}

BudgetLeft == iterations < RunBudget
AtTop == pc = "top" /\ BudgetLeft

-----------------------------------------------------------------------------
Return(out) ==
  /\ pc' = "ended"
  /\ outcome' = out

Complete(s) ==
  /\ status' = [status EXCEPT ![s] = "done"]
  /\ completed' = Append(completed, s)
  /\ checkpoints' = checkpoints \cup {s}

Escalate(s) ==
  /\ status' = [status EXCEPT ![s] = "escalated"]
  /\ Return("escalated")

TakeUp(B) ==
  /\ status' = [s \in Stories |-> IF s \in B THEN "in_progress" ELSE status[s]]
  /\ batch' = B

Halt ==
  /\ pc = "top" /\ ~BudgetLeft
  /\ Return("halted")
  /\ UNCHANGED <<backlog, status, worker, batch, workspaces, merged, checkpoints,
                 completed, iterations>>

AllDone ==
  /\ AtTop /\ NothingSelectable
  /\ Return("all_done")
  /\ UNCHANGED <<backlog, status, worker, batch, workspaces, merged, checkpoints,
                 completed, iterations>>

(* runBatch provisions every workspace and starts every inner loop before  *)
(* its first await.                                                        *)
StartBatch ==
  /\ AtTop /\ BatchParallel # {}
  /\ TakeUp(ParallelBatch(BatchParallel))
  /\ workspaces' = workspaces \cup batch'
  /\ worker' = [s \in Stories |-> IF s \in batch' THEN "running" ELSE worker[s]]
  /\ pc' = "batch"
  /\ UNCHANGED <<backlog, merged, checkpoints, completed, iterations, outcome>>

(* External: the trace file does not take the spawn plan.                  *)
PlanNotRecorded ==
  /\ AtTop /\ BatchParallel # {}
  /\ Return("thrown")
  /\ UNCHANGED <<backlog, status, worker, batch, workspaces, merged, checkpoints,
                 completed, iterations>>

(* External: a workspace cannot be made.  Those already made stay and no   *)
(* inner loop starts.                                                      *)
ProvisionFails(made) ==
  /\ AtTop /\ BatchParallel # {}
  /\ TakeUp(ParallelBatch(BatchParallel))
  /\ made \subseteq batch' /\ made # batch'
  /\ workspaces' = workspaces \cup made
  /\ Return("thrown")
  /\ UNCHANGED <<backlog, worker, merged, checkpoints, completed, iterations>>

StartSequential(s) ==
  /\ AtTop /\ BatchParallel = {} /\ IsNext(s)
  /\ TakeUp({s})
  /\ worker' = [worker EXCEPT ![s] = "running"]
  /\ pc' = "sequential"
  /\ UNCHANGED <<backlog, workspaces, merged, checkpoints, completed, iterations, outcome>>

(* External: an inner loop resolves.  One of a batch may do so after the   *)
(* call has thrown; a sequential one that throws counts as failed.         *)
WorkerEnds(s, result) ==
  /\ worker[s] = "running"
  /\ worker' = [worker EXCEPT ![s] = result]
  /\ UNCHANGED <<backlog, pc, status, batch, workspaces, merged, checkpoints, completed,
                 iterations, outcome>>

(* External: an inner loop of a batch throws.  Its workspace is removed    *)
(* and Promise.all rejects, so the call throws; the others go on.          *)
WorkerThrows(s) ==
  /\ worker[s] = "running" /\ pc # "sequential"
  /\ worker' = [worker EXCEPT ![s] = "threw"]
  /\ workspaces' = workspaces \ {s}
  /\ Return("thrown")
  /\ UNCHANGED <<backlog, status, batch, merged, checkpoints, completed, iterations>>

Passed == {s \in batch : worker[s] = "passed"}
AllEnded == \A s \in batch : worker[s] \in {"passed", "failed"}

(* mergeInOrder: one commit for each passing run.                          *)
MergeInOrder ==
  /\ pc = "batch" /\ AllEnded
  /\ merged' = merged \o InIdOrder(Passed)
  /\ pc' = "settle"
  /\ UNCHANGED <<backlog, status, worker, batch, workspaces, checkpoints, completed,
                 iterations, outcome>>

(* External: git fails after the first n commits.                          *)
MergeFails(n) ==
  /\ pc = "batch" /\ AllEnded /\ n < Cardinality(Passed)
  /\ merged' = merged \o SubSeq(InIdOrder(Passed), 1, n)
  /\ Return("thrown")
  /\ UNCHANGED <<backlog, status, worker, batch, workspaces, checkpoints, completed,
                 iterations>>

Unsettled == {s \in batch : status[s] = "in_progress"}

(* Mutant of SettleRun: an escalation does not leave the loop.             *)
SettleRunAndGoOn(s) ==
  /\ pc = "settle" /\ IsFirst(s, Unsettled)
  /\ \/ /\ worker[s] = "failed"
        /\ status' = [status EXCEPT ![s] = "escalated"]
        /\ UNCHANGED <<completed, checkpoints>>
     \/ /\ worker[s] = "passed"
        /\ Complete(s)
  /\ UNCHANGED <<backlog, pc, outcome, worker, batch, workspaces, merged, iterations>>

(* One turn of the loop over sortedRuns.                                   *)
SettleRun(s) ==
  /\ pc = "settle" /\ IsFirst(s, Unsettled)
  /\ \/ /\ worker[s] = "failed"
        /\ Escalate(s)
        /\ UNCHANGED <<completed, checkpoints>>
     \/ /\ worker[s] = "passed"
        /\ Complete(s)
        /\ UNCHANGED <<pc, outcome>>
  /\ UNCHANGED <<backlog, worker, batch, workspaces, merged, iterations>>

(* External: onCheckpoint throws, in a batch or for a sequential story.    *)
(* Only the sequential scheduler catches it.                               *)
CheckpointFails(s) ==
  /\ \/ pc = "settle" /\ IsFirst(s, Unsettled)
     \/ pc = "sequential" /\ s \in batch
  /\ worker[s] = "passed"
  /\ IF scheduler = "sequential"
     THEN Escalate(s)
     ELSE Return("thrown") /\ UNCHANGED status
  /\ UNCHANGED <<backlog, worker, batch, workspaces, merged, checkpoints, completed,
                 iterations>>

EndBatch ==
  /\ pc = "settle" /\ Unsettled = {}
  /\ iterations' = iterations + Cardinality(batch)
  /\ pc' = "top"
  /\ UNCHANGED <<backlog, status, worker, batch, workspaces, merged, checkpoints,
                 completed, outcome>>

SettleSequential(s) ==
  /\ pc = "sequential" /\ s \in batch
  /\ \/ /\ worker[s] = "failed"
        /\ Escalate(s)
        /\ UNCHANGED <<completed, checkpoints, iterations>>
     \/ /\ worker[s] = "passed"
        /\ Complete(s)
        /\ iterations' = iterations + 1
        /\ pc' = "top"
        /\ UNCHANGED outcome
  /\ UNCHANGED <<backlog, worker, batch, workspaces, merged>>

-----------------------------------------------------------------------------
(* A record may come in with any status: an earlier call that escalated or *)
(* threw leaves stories in_progress.                                       *)
Init ==
  /\ scheduler \in {"parallel", "sequential"}
  /\ depends_on \in Backlogs
  /\ parallelism_class \in [Stories -> Classes]
  /\ overlap \in SUBSET Pairs
  /\ pc = "top"
  /\ status \in [Stories -> {"todo", "in_progress", "done"}]
  /\ worker = [s \in Stories |-> "none"]
  /\ batch = {}
  /\ workspaces = {}
  /\ merged = <<>>
  /\ checkpoints = {}
  /\ completed = <<>>
  /\ iterations = 0
  /\ outcome = "none"

Scheduling ==
  \/ Halt
  \/ AllDone
  \/ StartBatch
  \/ PlanNotRecorded
  \/ \E made \in SUBSET Stories : ProvisionFails(made)
  \/ \E s \in Stories : StartSequential(s)
  \/ MergeInOrder
  \/ \E n \in 0..Cardinality(Stories) : MergeFails(n)
  \/ \E s \in Stories : SettleRun(s)
  \/ \E s \in Stories : CheckpointFails(s)
  \/ EndBatch
  \/ \E s \in Stories : SettleSequential(s)

Working(s) ==
  \/ \E result \in {"passed", "failed"} : WorkerEnds(s, result)
  \/ WorkerThrows(s)

Next == Scheduling \/ \E s \in Stories : Working(s)

(* The scheduler's continuation runs when its await resolves, and an inner *)
(* loop ends: it is bounded by the attempt budget of its story.            *)
Spec == Init /\ [][Next]_vars
FairSpec == Spec /\ WF_vars(Scheduling) /\ \A s \in Stories : WF_vars(Working(s))
-----------------------------------------------------------------------------
(* Properties.                                                             *)

Taken == {s \in Stories : worker[s] # "none"}

(* Type invariant: the call's position, the records of the stories and of  *)
(* their workers, and the logs of what was merged and completed.           *)
TypeOK ==
  /\ scheduler \in {"parallel", "sequential"}
  /\ depends_on \in Backlogs
  /\ parallelism_class \in [Stories -> Classes]
  /\ overlap \in SUBSET Pairs
  /\ pc \in {"top", "batch", "settle", "sequential", "ended"}
  /\ status \in [Stories -> Statuses]
  /\ worker \in [Stories -> {"none", "running", "passed", "failed", "threw"}]
  /\ batch \in SUBSET Stories
  /\ workspaces \in SUBSET Stories
  /\ merged \in Seq(Stories)
  /\ checkpoints \in SUBSET Stories
  /\ completed \in Seq(Stories)
  /\ iterations \in Nat
  /\ outcome \in Outcomes

(* Two inner loops run at once only if both stories are parallel_safe and  *)
(* their write sets do not overlap, those included that are still running  *)
(* after the call has thrown.                                              *)
NoConcurrentOverlap ==
  \A s, t \in Stories :
    worker[s] = "running" /\ worker[t] = "running" /\ s # t =>
      /\ {s, t} \notin overlap
      /\ parallelism_class[s] = "parallel_safe" /\ parallelism_class[t] = "parallel_safe"

(* What a return says of the stories this call took up: none is left       *)
(* unfinished by all_done or halted, halted is said of a spent budget only *)
(* (it is tested between turns, and a turn may hold many stories), and an  *)
(* escalation is of one story, of the last turn, and leaves in progress    *)
(* only stories of that turn that come after it.                           *)
HonestOutcome ==
  /\ outcome = "halted" => Len(completed) >= RunBudget
  /\ outcome \in {"all_done", "halted"} => \A s \in Taken : s \in checkpoints /\ status[s] = "done"
  /\ outcome = "escalated" =>
       \E s \in batch :
         /\ status[s] = "escalated"
         /\ \A t \in Taken \ {s} :
              \/ status[t] = "done" /\ t \in checkpoints
              \/ status[t] = "in_progress" /\ t \in batch /\ Rank[s] < Rank[t]

(* The loop makes progress in every turn and ends, whatever the overlaps.  *)
Terminates == <>(pc = "ended")

(* The isolated workspaces are released by the time the call returns       *)
(* ("Cleans up only on throw; caller is responsible for cleanup on normal  *)
(* return", workspace-manager/src/index.ts:364; the scheduler is the caller *)
(* of runBatch).                                                           *)
WorkspacesReleased ==
  outcome \in {"all_done", "halted", "escalated"} => workspaces = {}

(* How a record counts for the contract of this call: in_progress left by  *)
(* an earlier call is not work of this one.                                *)
PhaseOf(s) ==
  CASE status[s] = "todo" -> "open"
    [] status[s] = "done" -> "done"
    [] status[s] = "escalated" -> "shut"
    [] status[s] = "in_progress" -> IF s \in batch THEN "working" ELSE "shut"

Phases == [s \in Stories |-> PhaseOf(s)]

Apart == {p \in Pairs : p \in overlap \/ \E s \in p : parallelism_class[s] # "parallel_safe"}

Ended ==
  CASE outcome = "none" -> "no"
    [] outcome \in {"all_done", "halted"} -> "return"
    [] outcome = "escalated" -> "give_up"
    [] outcome = "thrown" -> "throw"

Contract == INSTANCE ScheduleContract WITH
  phase <- Phases, needs <- depends_on, apart <- Apart, ended <- Ended

(* A call of either scheduler keeps the contract.                          *)
ImplementsContract == Contract!Spec
=============================================================================
