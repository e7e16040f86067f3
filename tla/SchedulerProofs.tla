-------------------------- MODULE SchedulerProofs --------------------------
(***************************************************************************)
(* A call of a story scheduler, for any finite backlog, any dependencies,  *)
(* overlaps and classes, and any budget.                                   *)
(***************************************************************************)
EXTENDS Integration, InductionLemmas, FiniteSetTheorems, WellFoundedInduction, TLAPS

BacklogOK ==
  /\ scheduler \in {"parallel", "sequential"} /\ depends_on \in Backlogs
  /\ parallelism_class \in [Stories -> Classes]
  /\ overlap \in SUBSET Pairs

CallOK ==
  /\ pc \in {"top", "batch", "settle", "sequential", "ended"} /\ outcome \in Outcomes
  /\ (pc = "ended") = (outcome # "none")
  /\ completed \in Seq(Stories) /\ checkpoints \subseteq Stories
  /\ iterations \in Nat

RecordsOK ==
  /\ status \in [Stories -> Statuses]
  /\ worker \in [Stories -> {"none", "running", "passed", "failed", "threw"}]
  /\ batch \subseteq Stories

Types == BacklogOK /\ CallOK /\ RecordsOK

-----------------------------------------------------------------------------
(* The plan of a batch.                                                    *)

(* Two stories of a batch do not overlap: the one that sorts first would   *)
(* be in the other's component.                                            *)
LEMMA BatchApart ==
  ASSUME NEW C \in SUBSET Stories, NEW s \in ParallelBatch(C), NEW t \in ParallelBatch(C), s # t
  PROVE  {s, t} \notin overlap
<1> SUFFICES ASSUME {s, t} \in overlap PROVE FALSE
  OBVIOUS
<1>1. s \in C /\ t \in C /\ s \in Stories /\ t \in Stories
  BY DEF ParallelBatch
<1>2. t \in Component(s, C)
  BY <1>1 DEF Component, Closed
<1>3. s \in Component(t, C)
  <2>1. {t, s} \in overlap
    BY {t, s} = {s, t}
  <2>. QED
    BY <1>1, <2>1 DEF Component, Closed
<1>4. Rank[s] <= Rank[t] /\ Rank[t] <= Rank[s]
  BY <1>2, <1>3 DEF ParallelBatch
<1>5. Rank[s] \in Nat /\ Rank[t] \in Nat
  BY <1>1, RankAssumption
<1>6. Rank[s] = Rank[t]
  BY <1>4, <1>5
<1>. QED
  BY <1>1, <1>6, RankAssumption

(* Among candidates one has the least rank, and it runs: no batch is       *)
(* empty, whatever overlaps with whatever.                                 *)
LEMMA BatchNotEmpty ==
  ASSUME NEW C \in SUBSET Stories, C # {}
  PROVE  ParallelBatch(C) # {}
<1> DEFINE ranks == {Rank[s] : s \in C}
           less == {ss \in Nat \X Nat : ss[1] < ss[2]}
<1>1. IsWellFoundedOn(less, Nat)
  BY NatLessThanWellFounded DEF OpToRel
<1>2. ranks \subseteq Nat /\ ranks # {}
  BY RankAssumption
<1> HIDE DEF ranks, less
<1>3. PICK x \in ranks : \A y \in ranks : ~(<<y, x>> \in less)
  BY <1>1, <1>2, WFMin
<1>4. x \in Nat /\ \A y \in ranks : y \in Nat /\ x <= y
  <2>1. ASSUME NEW y \in ranks PROVE y \in Nat /\ x <= y
    <3>1. x \in Nat /\ y \in Nat
      BY <1>2, <1>3
    <3>2. <<y, x>> \in less <=> y < x
      BY <3>1 DEF less
    <3>. QED
      BY <1>3, <3>1, <3>2
  <2>. QED
    BY <1>2, <1>3, <2>1
<1>5. PICK s \in C : Rank[s] = x
  BY <1>3 DEF ranks
<1>6. \A t \in C : Rank[s] <= Rank[t]
  BY <1>4, <1>5 DEF ranks
<1>7. s \in ParallelBatch(C)
  BY <1>6 DEF ParallelBatch, Component
<1>. QED
  BY <1>7

LEMMA BatchOfSelectable ==
  /\ ParallelBatch(BatchParallel) \subseteq Selectable
  /\ Selectable \subseteq Stories
  /\ \A s \in ParallelBatch(BatchParallel) : parallelism_class[s] = "parallel_safe"
BY DEF ParallelBatch, BatchParallel, Selectable

-----------------------------------------------------------------------------
(* The types.                                                              *)

LEMMA InitTypes == Init => Types
<1> SUFFICES ASSUME Init PROVE BacklogOK /\ CallOK /\ RecordsOK
  BY DEF Types
<1>1. BacklogOK
  BY DEF Init, BacklogOK
<1>2. CallOK
  BY DEF Init, CallOK, Outcomes
<1>3. RecordsOK
  BY DEF Init, RecordsOK, Statuses
<1>. QED
  BY <1>1, <1>2, <1>3

LEMMA BatchSize ==
  ASSUME NEW B \in SUBSET Stories
  PROVE  IsFiniteSet(B) /\ Cardinality(B) \in Nat
BY StoriesAssumption, FS_Subset, FS_CardinalityType

(* The call does not touch the backlog it was given.                       *)
LEMMA BacklogFixed == [Next]_vars => UNCHANGED backlog
BY DEF Next, vars, backlog, Scheduling, Working, Halt, AllDone, StartBatch, PlanNotRecorded,
   ProvisionFails, StartSequential, WorkerEnds, WorkerThrows, MergeInOrder, MergeFails,
   SettleRun, CheckpointFails, EndBatch, SettleSequential

LEMMA StepTypes == Types /\ [Next]_vars => Types'
<1> SUFFICES ASSUME BacklogOK, CallOK, RecordsOK, [Next]_vars
             PROVE  BacklogOK' /\ CallOK' /\ RecordsOK'
  BY DEF Types
<1>1. BacklogOK'
  BY BacklogFixed DEF backlog, BacklogOK
<1> USE DEF CallOK, RecordsOK, Return, Outcomes, Statuses
<1>2. CASE Halt \/ AllDone \/ PlanNotRecorded
  BY <1>1, <1>2 DEF Halt, AllDone, PlanNotRecorded
<1>3. CASE StartBatch
  <2>1. batch' \subseteq Stories /\ pc' = "batch" /\ outcome = "none"
    BY <1>3, BatchOfSelectable DEF StartBatch, TakeUp, AtTop
  <2>2. status' \in [Stories -> Statuses]
    BY <1>3 DEF StartBatch, TakeUp
  <2>3. worker' \in [Stories -> {"none", "running", "passed", "failed", "threw"}]
    BY <1>3 DEF StartBatch
  <2>4. CallOK'
    BY <1>3, <2>1 DEF StartBatch
  <2>. QED
    BY <1>1, <2>1, <2>2, <2>3, <2>4
<1>4. ASSUME NEW made \in SUBSET Stories, ProvisionFails(made) PROVE CallOK' /\ RecordsOK'
  BY <1>4, BatchOfSelectable DEF ProvisionFails, TakeUp
<1>5. ASSUME NEW s \in Stories, StartSequential(s) PROVE CallOK' /\ RecordsOK'
  BY <1>5 DEF StartSequential, TakeUp, AtTop
<1>6. ASSUME NEW s \in Stories, Working(s) PROVE CallOK' /\ RecordsOK'
  <2>1. CallOK'
    BY <1>6 DEF Working, WorkerEnds, WorkerThrows
  <2>2. RecordsOK'
    BY <1>6 DEF Working, WorkerEnds, WorkerThrows
  <2>. QED
    BY <2>1, <2>2
<1>7. CASE MergeInOrder \/ \E n \in 0..Cardinality(Stories) : MergeFails(n)
  BY <1>1, <1>7 DEF MergeInOrder, MergeFails
<1>8. ASSUME NEW s \in Stories, SettleRun(s) PROVE CallOK' /\ RecordsOK'
  <2>1. CASE worker[s] = "failed"
    BY <1>8, <2>1 DEF SettleRun, Escalate
  <2>2. CASE worker[s] = "passed"
    <3>1. RecordsOK'
      BY <1>8, <2>2 DEF SettleRun, Complete
    <3>2. completed' \in Seq(Stories) /\ checkpoints' \subseteq Stories
      BY SMTT(30), <1>8, <2>2 DEF SettleRun, Complete
    <3>3. UNCHANGED <<pc, outcome, iterations>>
      BY <1>8, <2>2 DEF SettleRun
    <3>. QED
      BY <3>1, <3>2, <3>3
  <2>. QED
    BY <1>8, <2>1, <2>2 DEF SettleRun
<1>9. ASSUME NEW s \in Stories, CheckpointFails(s) PROVE CallOK' /\ RecordsOK'
  BY <1>9 DEF CheckpointFails, Escalate
<1>10. CASE EndBatch
  <2>1. Cardinality(batch) \in Nat
    BY BatchSize
  <2>. QED
    BY <1>1, <1>10, <2>1 DEF EndBatch
<1>11. ASSUME NEW s \in Stories, SettleSequential(s) PROVE CallOK' /\ RecordsOK'
  BY SMTT(30), <1>11 DEF SettleSequential, Escalate, Complete
<1>12. CASE UNCHANGED vars
  BY <1>1, <1>12 DEF vars
<1> HIDE DEF CallOK, RecordsOK
<1>. QED
  BY <1>1, <1>2, <1>3, <1>4, <1>5, <1>6, <1>7, <1>8, <1>9, <1>10, <1>11, <1>12
     DEF Next, Scheduling

-----------------------------------------------------------------------------
(* Who runs when.                                                          *)

(* What runs is of the current batch, and nothing runs between the merge   *)
(* of a batch and the start of the next, or after a call that returned.    *)
RunInv ==
  /\ \A s \in Stories : worker[s] = "running" =>
       s \in batch /\ pc \notin {"top", "settle"} /\ outcome \in {"none", "thrown"}
  /\ pc = "sequential" => \E s \in Stories : batch = {s} /\ status[s] = "in_progress"
  /\ NoConcurrentOverlap

LEMMA StepRun == Types /\ RunInv /\ [Next]_vars => RunInv'
<1> SUFFICES ASSUME Types, RunInv, [Next]_vars PROVE RunInv'
  OBVIOUS
<1>0. CallOK /\ RecordsOK
  BY DEF Types
<1> USE DEF RunInv, NoConcurrentOverlap, Return, backlog
<1>1. CASE Halt \/ AllDone \/ PlanNotRecorded
  BY <1>0, <1>1 DEF Halt, AllDone, PlanNotRecorded, AtTop
<1>2. CASE StartBatch
  <2>1. \A s \in Stories : worker[s] # "running"
    BY <1>2 DEF StartBatch, AtTop
  <2>2. \A s \in Stories : worker'[s] = "running" => s \in batch'
    BY <1>2, <2>1 DEF StartBatch
  <2>3. batch' = ParallelBatch(BatchParallel) /\ pc' = "batch" /\ outcome' = "none"
    BY <1>0, <1>2 DEF StartBatch, TakeUp, AtTop, CallOK
  <2>4. \A s, t \in batch' : s # t =>
          {s, t} \notin overlap /\ parallelism_class[s] = "parallel_safe"
                                /\ parallelism_class[t] = "parallel_safe"
    BY <2>3, BatchApart, BatchOfSelectable, BatchParallel \in SUBSET Stories
       DEF BatchParallel
  <2>5. UNCHANGED <<overlap, parallelism_class>>
    BY <1>2 DEF StartBatch
  <2>. QED
    BY <2>2, <2>3, <2>4, <2>5
<1>3. ASSUME NEW made \in SUBSET Stories, ProvisionFails(made) PROVE RunInv'
  BY <1>0, <1>3 DEF ProvisionFails, AtTop
<1>4. ASSUME NEW s \in Stories, StartSequential(s) PROVE RunInv'
  <2>1. \A t \in Stories : worker'[t] = "running" => t = s
    BY <1>0, <1>4 DEF StartSequential, AtTop, RecordsOK
  <2>2. batch' = {s} /\ pc' = "sequential" /\ outcome' = "none" /\ status'[s] = "in_progress"
    BY <1>0, <1>4 DEF StartSequential, TakeUp, AtTop, CallOK
  <2>. QED
    BY <2>1, <2>2
<1>5. ASSUME NEW s \in Stories, Working(s) PROVE RunInv'
  <2>1. worker[s] = "running" /\ \A t \in Stories : worker'[t] = "running" => worker[t] = "running"
    BY <1>0, <1>5 DEF Working, WorkerEnds, WorkerThrows, RecordsOK
  <2>2. /\ UNCHANGED <<batch, status, overlap, parallelism_class>>
        /\ pc' = pc \/ pc' = "ended"
        /\ outcome' = outcome \/ outcome' = "thrown"
    BY <1>5 DEF Working, WorkerEnds, WorkerThrows
  <2>3. \A t \in Stories : worker'[t] = "running" =>
          t \in batch' /\ pc' \notin {"top", "settle"} /\ outcome' \in {"none", "thrown"}
    BY <2>1, <2>2
  <2>4. pc' = "sequential" => \E t \in Stories : batch' = {t} /\ status'[t] = "in_progress"
    BY <2>2
  <2>5. NoConcurrentOverlap'
    BY <2>1, <2>2
  <2>. QED
    BY <2>3, <2>4, <2>5
<1>6. CASE MergeInOrder \/ \E n \in 0..Cardinality(Stories) : MergeFails(n)
  BY <1>0, <1>6 DEF MergeInOrder, MergeFails, AllEnded
<1>7. ASSUME NEW s \in Stories, SettleRun(s) PROVE RunInv'
  BY <1>0, <1>7 DEF SettleRun, Escalate, Complete
<1>8. ASSUME NEW s \in Stories, CheckpointFails(s) PROVE RunInv'
  <2>1. \A t \in Stories : worker[t] # "running"
    BY <1>8 DEF CheckpointFails
  <2>2. UNCHANGED worker /\ pc' = "ended"
    BY <1>8 DEF CheckpointFails, Escalate
  <2>. QED
    BY <2>1, <2>2
<1>9. CASE EndBatch
  BY <1>0, <1>9 DEF EndBatch
<1>10. ASSUME NEW s \in Stories, SettleSequential(s) PROVE RunInv'
  <2>1. \A t \in Stories : worker[t] # "running"
    BY <1>10 DEF SettleSequential
  <2>2. UNCHANGED worker /\ pc' \in {"top", "ended"}
    BY <1>10 DEF SettleSequential, Escalate, Complete
  <2>. QED
    BY <2>1, <2>2
<1>11. CASE UNCHANGED vars
  BY <1>11 DEF vars
<1> HIDE DEF RunInv, NoConcurrentOverlap, Return, backlog
<1>. QED
  BY <1>1, <1>2, <1>3, <1>4, <1>5, <1>6, <1>7, <1>8, <1>9, <1>10, <1>11 DEF Next, Scheduling

LEMMA RunInvariant == Spec => [](Types /\ RunInv)
<1>1. Init => RunInv
  BY DEF Init, RunInv, NoConcurrentOverlap
<1>. QED
  BY <1>1, InitTypes, StepTypes, StepRun, PTL DEF Spec

(* Stories whose write sets overlap never run at once, nor beside one that *)
(* is not parallel_safe, those included that outlive the call.             *)
THEOREM NoOverlap == Spec => []NoConcurrentOverlap
<1>1. RunInv => NoConcurrentOverlap
  BY DEF RunInv
<1>. QED
  BY <1>1, RunInvariant, PTL

-----------------------------------------------------------------------------
(* What a return says.                                                     *)

(* While the call goes on, what it took up is settled, or in progress and  *)
(* of the current batch; and every turn counts no more than it completed.  *)
Settled(s) == status[s] = "done" /\ s \in checkpoints
Pending(s) == pc # "top" /\ s \in batch /\ status[s] = "in_progress"
DoneOfBatch == {s \in batch : status[s] = "done"}

TurnInv ==
  /\ pc # "ended" => \A s \in Taken : Settled(s) \/ Pending(s)
  /\ pc = "top" => \A s \in batch : status[s] = "done"
  /\ pc \in {"batch", "settle", "sequential"} => batch \subseteq Taken

CountInv ==
  /\ pc \in {"top", "sequential"} => Len(completed) >= iterations
  /\ pc \in {"batch", "settle"} => Len(completed) >= iterations + Cardinality(DoneOfBatch)

LEMMA StepTurn == Types /\ RunInv /\ TurnInv /\ [Next]_vars => TurnInv'
<1> SUFFICES ASSUME CallOK, RecordsOK, RunInv, TurnInv, [Next]_vars PROVE TurnInv'
  BY DEF Types
<1> USE DEF TurnInv, Settled, Pending, Taken, Return
<1>1. CASE Halt \/ AllDone \/ PlanNotRecorded
  BY <1>1 DEF Halt, AllDone, PlanNotRecorded
<1>2. CASE StartBatch
  <2>1. batch' \subseteq Stories /\ pc' = "batch" /\ pc = "top"
    BY <1>2, BatchOfSelectable DEF StartBatch, TakeUp, AtTop
  <2>2. \A s \in batch' : status'[s] = "in_progress" /\ worker'[s] = "running"
    BY <1>2, <2>1 DEF StartBatch, TakeUp
  <2>3. \A s \in Stories \ batch' : status'[s] = status[s] /\ worker'[s] = worker[s]
    BY <1>2 DEF StartBatch, TakeUp
  <2>4. checkpoints' = checkpoints
    BY <1>2 DEF StartBatch
  <2>. QED
    BY <2>1, <2>2, <2>3, <2>4
<1>3. ASSUME NEW made \in SUBSET Stories, ProvisionFails(made) PROVE TurnInv'
  BY <1>3 DEF ProvisionFails
<1>4. ASSUME NEW s \in Stories, StartSequential(s) PROVE TurnInv'
  <2>1. batch' = {s} /\ pc' = "sequential" /\ pc = "top"
    BY <1>4 DEF StartSequential, TakeUp, AtTop
  <2>2. status'[s] = "in_progress" /\ worker'[s] = "running"
    BY <1>4 DEF StartSequential, TakeUp, RecordsOK
  <2>3. \A t \in Stories \ {s} : status'[t] = status[t] /\ worker'[t] = worker[t]
    BY <1>4 DEF StartSequential, TakeUp, RecordsOK
  <2>4. checkpoints' = checkpoints
    BY <1>4 DEF StartSequential
  <2>. QED
    BY <2>1, <2>2, <2>3, <2>4
<1>5. ASSUME NEW s \in Stories, Working(s) PROVE TurnInv'
  <2>1. UNCHANGED <<status, checkpoints, batch>> /\ pc' \in {pc, "ended"}
    BY <1>5 DEF Working, WorkerEnds, WorkerThrows
  <2>2. \A t \in Stories : worker'[t] = "none" <=> worker[t] = "none"
    BY <1>5 DEF Working, WorkerEnds, WorkerThrows, RecordsOK
  <2>3. Taken' = Taken
    BY <2>2
  <2> HIDE DEF Taken
  <2>4. CASE pc' = "ended"
    BY <2>4
  <2>5. CASE pc' = pc
    BY <2>1, <2>3, <2>5
  <2>. QED
    BY <2>1, <2>4, <2>5
<1>6. CASE MergeInOrder \/ \E n \in 0..Cardinality(Stories) : MergeFails(n)
  BY <1>6 DEF MergeInOrder, MergeFails
<1>7. ASSUME NEW s \in Stories, SettleRun(s) PROVE TurnInv'
  <2>1. CASE worker[s] = "failed"
    BY <1>7, <2>1 DEF SettleRun, Escalate
  <2>2. CASE worker[s] = "passed"
    <3>1. /\ UNCHANGED <<pc, worker, batch>>
          /\ status' = [status EXCEPT ![s] = "done"] /\ checkpoints' = checkpoints \cup {s}
      BY <1>7, <2>2 DEF SettleRun, Complete
    <3>2. \A t \in Taken : Settled(t)' \/ Pending(t)'
      BY <1>7, <3>1 DEF RecordsOK, SettleRun
    <3>. QED
      BY <1>7, <3>1, <3>2 DEF SettleRun
  <2>. QED
    BY <1>7, <2>1, <2>2 DEF SettleRun
<1>8. ASSUME NEW s \in Stories, CheckpointFails(s) PROVE TurnInv'
  BY <1>8 DEF CheckpointFails, Escalate
<1>9. CASE EndBatch
  <2>1. \A s \in batch : Settled(s)
    BY <1>9 DEF EndBatch, Unsettled
  <2>. QED
    BY <1>9, <2>1 DEF EndBatch
<1>10. ASSUME NEW s \in Stories, SettleSequential(s) PROVE TurnInv'
  <2>1. CASE worker[s] = "failed"
    BY <1>10, <2>1 DEF SettleSequential, Escalate
  <2>2. CASE worker[s] = "passed"
    <3>1. batch = {s}
      BY <1>10 DEF SettleSequential, RunInv
    <3>2. /\ UNCHANGED <<worker, batch>> /\ pc' = "top" /\ pc = "sequential"
          /\ status' = [status EXCEPT ![s] = "done"] /\ checkpoints' = checkpoints \cup {s}
      BY <1>10, <2>2 DEF SettleSequential, Complete
    <3>. QED
      BY <3>1, <3>2 DEF RecordsOK
  <2>. QED
    BY <1>10, <2>1, <2>2 DEF SettleSequential
<1>11. CASE UNCHANGED vars
  BY <1>11 DEF vars
<1> HIDE DEF TurnInv, Settled, Pending, Taken, Return
<1>. QED
  BY <1>1, <1>2, <1>3, <1>4, <1>5, <1>6, <1>7, <1>8, <1>9, <1>10, <1>11 DEF Next, Scheduling

LEMMA StepCount == Types /\ TurnInv /\ CountInv /\ [Next]_vars => CountInv'
<1> SUFFICES ASSUME CallOK, RecordsOK, TurnInv, CountInv, [Next]_vars PROVE CountInv'
  BY DEF Types
<1>0. /\ iterations \in Nat /\ completed \in Seq(Stories) /\ Len(completed) \in Nat
      /\ Cardinality(batch) \in Nat /\ IsFiniteSet(DoneOfBatch) /\ Cardinality(DoneOfBatch) \in Nat
  BY BatchSize DEF CallOK, RecordsOK, DoneOfBatch
<1> USE DEF CountInv, Return
<1>1. CASE Halt \/ AllDone \/ PlanNotRecorded
  BY <1>1 DEF Halt, AllDone, PlanNotRecorded
<1>2. CASE StartBatch
  <2>1. DoneOfBatch' = {}
    BY <1>2, BatchOfSelectable DEF StartBatch, TakeUp, DoneOfBatch
  <2>2. Cardinality(DoneOfBatch') = 0
    BY <2>1, FS_EmptySet
  <2>. QED
    BY <1>0, <1>2, <2>2 DEF StartBatch, AtTop
<1>3. ASSUME NEW made \in SUBSET Stories, ProvisionFails(made) PROVE CountInv'
  BY <1>3 DEF ProvisionFails
<1>4. ASSUME NEW s \in Stories, StartSequential(s) PROVE CountInv'
  BY <1>4 DEF StartSequential, AtTop
<1>5. ASSUME NEW s \in Stories, Working(s) PROVE CountInv'
  BY <1>5 DEF Working, WorkerEnds, WorkerThrows, DoneOfBatch
<1>6. CASE MergeInOrder \/ \E n \in 0..Cardinality(Stories) : MergeFails(n)
  BY <1>6 DEF MergeInOrder, MergeFails, DoneOfBatch
<1>7. ASSUME NEW s \in Stories, SettleRun(s) PROVE CountInv'
  <2>1. CASE worker[s] = "failed"
    BY <1>7, <2>1 DEF SettleRun, Escalate
  <2>2. CASE worker[s] = "passed"
    <3>1. s \in batch /\ s \notin DoneOfBatch /\ pc = "settle"
      BY <1>7 DEF SettleRun, IsFirst, Unsettled, DoneOfBatch
    <3>2. DoneOfBatch' = DoneOfBatch \cup {s}
      BY <1>7, <2>2, <3>1 DEF SettleRun, Complete, DoneOfBatch, RecordsOK
    <3>3. Cardinality(DoneOfBatch') = Cardinality(DoneOfBatch) + 1
      BY <1>0, <3>1, <3>2, FS_AddElement
    <3>4. Len(completed') = Len(completed) + 1 /\ UNCHANGED <<pc, iterations>>
      BY <1>0, <1>7, <2>2 DEF SettleRun, Complete
    <3>. QED
      BY <1>0, <3>1, <3>3, <3>4
  <2>. QED
    BY <1>7, <2>1, <2>2 DEF SettleRun
<1>8. ASSUME NEW s \in Stories, CheckpointFails(s) PROVE CountInv'
  BY <1>8 DEF CheckpointFails, Escalate
<1>9. CASE EndBatch
  <2>1. DoneOfBatch = batch
    BY <1>9 DEF EndBatch, Unsettled, TurnInv, Settled, Pending, DoneOfBatch
  <2>. QED
    BY <1>0, <1>9, <2>1 DEF EndBatch
<1>10. ASSUME NEW s \in Stories, SettleSequential(s) PROVE CountInv'
  <2>1. CASE worker[s] = "failed"
    BY <1>10, <2>1 DEF SettleSequential, Escalate
  <2>2. CASE worker[s] = "passed"
    <3>1. Len(completed') = Len(completed) + 1 /\ iterations' = iterations + 1
          /\ pc' = "top" /\ pc = "sequential"
      BY <1>0, <1>10, <2>2 DEF SettleSequential, Complete
    <3>. QED
      BY <1>0, <3>1
  <2>. QED
    BY <1>10, <2>1, <2>2 DEF SettleSequential
<1>11. CASE UNCHANGED vars
  BY <1>11 DEF vars, DoneOfBatch
<1> HIDE DEF CountInv, Return
<1>. QED
  BY <1>1, <1>2, <1>3, <1>4, <1>5, <1>6, <1>7, <1>8, <1>9, <1>10, <1>11 DEF Next, Scheduling

(* An escalation comes of the first story of the batch that is not settled *)
(* yet.                                                                    *)
LEMMA Escalating ==
  ASSUME Types, TurnInv, RunInv, NEW s \in Stories, Escalate(s),
         worker[s] # "none", UNCHANGED <<worker, batch, checkpoints, completed>>,
         s \in batch,
         \/ pc = "settle" /\ IsFirst(s, Unsettled)
         \/ pc = "sequential"
  PROVE  HonestOutcome'
<1>0. CallOK /\ RecordsOK
  BY DEF Types
<1>1. outcome' = "escalated" /\ status' = [status EXCEPT ![s] = "escalated"]
  BY DEF Escalate, Return
<1>2. ASSUME NEW t \in Taken \ {s}
      PROVE  \/ status'[t] = "done" /\ t \in checkpoints'
             \/ status'[t] = "in_progress" /\ t \in batch' /\ Rank[s] < Rank[t]
  <2>1. status'[t] = status[t] /\ t \in Stories
    BY <1>0, <1>1 DEF RecordsOK, Taken
  <2>2. CASE Settled(t)
    BY <2>1, <2>2 DEF Settled
  <2>3. CASE Pending(t)
    <3>1. t \in Unsettled
      BY <2>3 DEF Pending, Unsettled
    <3>2. pc = "settle" /\ Rank[s] <= Rank[t]
      BY <2>3, <3>1 DEF IsFirst, RunInv, Pending
    <3>3. Rank[s] \in Nat /\ Rank[t] \in Nat /\ Rank[s] # Rank[t]
      BY <2>1, RankAssumption
    <3>. QED
      BY <2>1, <2>3, <3>2, <3>3 DEF Pending
  <2>. QED
    BY <2>2, <2>3 DEF TurnInv
<1>3. status'[s] = "escalated" /\ s \in batch' /\ Taken' = Taken
  BY <1>0, <1>1 DEF RecordsOK, Taken
<1>. QED
  BY <1>1, <1>2, <1>3 DEF HonestOutcome

LEMMA StepHonest ==
  Types /\ RunInv /\ TurnInv /\ CountInv /\ HonestOutcome /\ [Next]_vars => HonestOutcome'
<1> SUFFICES ASSUME Types, RunInv, TurnInv, CountInv, HonestOutcome, [Next]_vars
             PROVE  HonestOutcome'
  OBVIOUS
<1>0. CallOK /\ RecordsOK
  BY DEF Types
<1>1. CASE outcome' \in {"none", "thrown"}
  BY <1>1 DEF HonestOutcome
<1>2. CASE Halt
  <2>1. pc = "top" /\ outcome' = "halted" /\ ~(iterations < RunBudget)
        /\ UNCHANGED <<status, worker, checkpoints, completed>>
    BY <1>2 DEF Halt, BudgetLeft, Return
  <2>2. \A s \in Taken : Settled(s)
    BY <2>1 DEF TurnInv, Pending
  <2>3. Len(completed) >= RunBudget
    BY <1>0, <2>1, RunBudgetAssumption DEF CountInv, CallOK
  <2>. QED
    BY <2>1, <2>2, <2>3 DEF HonestOutcome, Settled, Taken
<1>3. CASE AllDone
  <2>1. pc = "top" /\ outcome' = "all_done"
        /\ UNCHANGED <<status, worker, checkpoints, completed>>
    BY <1>3 DEF AllDone, AtTop, Return
  <2>2. \A s \in Taken : Settled(s)
    BY <2>1 DEF TurnInv, Pending
  <2>. QED
    BY <2>1, <2>2 DEF HonestOutcome, Settled, Taken
<1>4. ASSUME NEW s \in Stories, SettleRun(s) \/ CheckpointFails(s) \/ SettleSequential(s)
      PROVE  outcome' \in {"none", "thrown"} \/ HonestOutcome'
  <2>1. CASE Escalate(s) /\ SettleRun(s)
    <3>1. worker[s] = "failed"
      BY <2>1 DEF SettleRun, Escalate, Return
    <3>2. pc = "settle" /\ IsFirst(s, Unsettled) /\ s \in batch
      BY <2>1 DEF SettleRun, IsFirst, Unsettled
    <3>. QED
      BY <2>1, <3>1, <3>2, Escalating DEF SettleRun
  <2>4. CASE Escalate(s) /\ CheckpointFails(s)
    <3>1. worker[s] = "passed" /\ s \in batch
      BY <2>4 DEF CheckpointFails, IsFirst, Unsettled
    <3>. QED
      BY <2>4, <3>1, Escalating DEF CheckpointFails
  <2>2. CASE Escalate(s) /\ SettleSequential(s)
    <3>1. worker[s] = "failed"
      BY <1>0, <2>2 DEF SettleSequential, Escalate, Complete, Return, CallOK, RecordsOK
    <3>. QED
      BY <2>2, <3>1, Escalating DEF SettleSequential
  <2>3. CASE ~Escalate(s)
    <3>1. outcome = "none"
      BY <1>0, <1>4 DEF CallOK, SettleRun, CheckpointFails, SettleSequential
    <3>. QED
      BY <1>4, <2>3, <3>1 DEF SettleRun, CheckpointFails, SettleSequential, Complete, Return
  <2>. QED
    BY <1>4, <2>1, <2>2, <2>3, <2>4
<1>5. CASE PlanNotRecorded \/ StartBatch \/ MergeInOrder \/ EndBatch
           \/ (\E made \in SUBSET Stories : ProvisionFails(made))
           \/ (\E s \in Stories : StartSequential(s))
           \/ (\E n \in 0..Cardinality(Stories) : MergeFails(n))
  <2>1. outcome' \in {"none", "thrown"}
    BY <1>0, <1>5 DEF CallOK, PlanNotRecorded, StartBatch, MergeInOrder, EndBatch, ProvisionFails,
       StartSequential, MergeFails, AtTop, Return
  <2>. QED
    BY <1>1, <2>1
<1>6. ASSUME NEW s \in Stories, Working(s) PROVE HonestOutcome'
  <2>1. outcome' \in {"none", "thrown"}
    BY <1>6 DEF Working, WorkerEnds, WorkerThrows, Return, RunInv
  <2>. QED
    BY <1>1, <2>1
<1>7. CASE UNCHANGED vars
  BY <1>7 DEF vars, HonestOutcome, Taken
<1>. QED
  BY <1>1, <1>2, <1>3, <1>4, <1>5, <1>6, <1>7 DEF Next, Scheduling

TurnsInv == Types /\ RunInv /\ TurnInv /\ CountInv /\ HonestOutcome

LEMMA TurnsInvariant == Spec => []TurnsInv
<1>1. Init => TurnInv /\ CountInv /\ HonestOutcome
  BY DEF Init, TurnInv, CountInv, HonestOutcome, Taken
<1>2. Init => RunInv
  BY DEF Init, RunInv, NoConcurrentOverlap
<1>3. TurnsInv /\ [Next]_vars => TurnsInv'
  BY StepTypes, StepRun, StepTurn, StepCount, StepHonest DEF TurnsInv
<1>. QED
  BY <1>1, <1>2, <1>3, InitTypes, PTL DEF Spec, TurnsInv

(* A return never hides unfinished work, a spent budget is spent, and an   *)
(* escalation leaves behind only what comes after it in its batch.         *)
THEOREM Honest == Spec => []HonestOutcome
<1>1. TurnsInv => HonestOutcome
  BY DEF TurnsInv
<1>. QED
  BY <1>1, TurnsInvariant, PTL

-----------------------------------------------------------------------------
(* The contract.                                                           *)

(* The phase of a story, by its record and the current batch.              *)
LEMMA PhaseTells ==
  ASSUME RecordsOK, NEW s \in Stories
  PROVE  /\ Phases[s] = "working" <=> status[s] = "in_progress" /\ s \in batch
         /\ Phases[s] = "open" <=> status[s] = "todo"
         /\ Phases[s] = "done" <=> status[s] = "done"
         /\ Phases[s] \in {"open", "shut", "working", "done"}
<1>1. Phases[s] = PhaseOf(s) /\ status[s] \in Statuses
  BY DEF Phases, RecordsOK
<1>. QED
  BY <1>1 DEF PhaseOf, Statuses

LEMMA PhaseTellsNext ==
  ASSUME RecordsOK', NEW s \in Stories
  PROVE  /\ Phases'[s] = "working" <=> status'[s] = "in_progress" /\ s \in batch'
         /\ Phases'[s] = "open" <=> status'[s] = "todo"
         /\ Phases'[s] = "done" <=> status'[s] = "done"
         /\ Phases'[s] \in {"open", "shut", "working", "done"}
<1>1. Phases'[s] = PhaseOf(s)' /\ status'[s] \in Statuses
  BY DEF Phases, RecordsOK
<1>. QED
  BY <1>1 DEF PhaseOf, Statuses

(* Who has the same record, and is of the batch or not as before, has the  *)
(* same phase.                                                             *)
LEMMA SamePhase ==
  ASSUME RecordsOK, RecordsOK', NEW s \in Stories, status'[s] = status[s],
         s \in batch' <=> s \in batch
  PROVE  Phases'[s] = Phases[s]
BY PhaseTells, PhaseTellsNext

LEMMA SamePhases ==
  ASSUME RecordsOK, RecordsOK', UNCHANGED <<status, batch>>
  PROVE  Phases' = Phases
<1>1. \A s \in Stories : Phases'[s] = Phases[s]
  BY SamePhase
<1>. QED
  BY <1>1 DEF Phases

LEMMA PhaseMoves ==
  ASSUME RecordsOK, RecordsOK', NEW s \in Stories, NEW new \in {"escalated", "done"},
         status' = [status EXCEPT ![s] = new], UNCHANGED batch
  PROVE  Phases' = [Phases EXCEPT ![s] = IF new = "done" THEN "done" ELSE "shut"]
<1>1. \A t \in Stories : t # s => Phases'[t] = Phases[t]
  BY SamePhase DEF RecordsOK
<1>2. status'[s] = new
  BY DEF RecordsOK
<1>3. Phases'[s] = IF new = "done" THEN "done" ELSE "shut"
  BY <1>2, PhaseTellsNext
<1>. QED
  BY <1>1, <1>3 DEF Phases

(* A turn begins with nothing in work and takes up what may be.            *)
LEMMA TakingUp ==
  ASSUME Types, Types', TurnInv, pc = "top", NEW B \in SUBSET Selectable, B # {}, TakeUp(B),
         \A s, t \in B : s # t => {s, t} \notin Apart
  PROVE  Contract!TakeUp(B)
<1>0. RecordsOK /\ RecordsOK' /\ B \subseteq Stories
  BY BatchOfSelectable DEF Types
<1>1. Contract!InWork = {}
  BY <1>0, PhaseTells DEF Contract!InWork, TurnInv
<1>2. \A s \in B : Phases[s] = "open" /\ depends_on[s] \subseteq Contract!Finished
  BY <1>0, PhaseTells DEF Selectable, Done, Contract!Finished
<1>3. ASSUME NEW s \in Stories PROVE Phases'[s] = IF s \in B THEN "working" ELSE Phases[s]
  <2>1. batch' = B /\ status'[s] = IF s \in B THEN "in_progress" ELSE status[s]
    BY DEF TakeUp
  <2>2. Phases[s] # "working"
    BY <1>1 DEF Contract!InWork
  <2>. QED
    BY <1>0, <2>1, <2>2, PhaseTells, PhaseTellsNext
<1>4. Phases' = [s \in Stories |-> IF s \in B THEN "working" ELSE Phases[s]]
  BY <1>3 DEF Phases
<1>. QED
  BY <1>1, <1>2, <1>4 DEF Contract!TakeUp

LEMMA BatchTakenUp ==
  ASSUME Types, Types', TurnInv, AtTop, BatchParallel # {}, TakeUp(ParallelBatch(BatchParallel))
  PROVE  \E B \in SUBSET Stories : Contract!TakeUp(B)
<1> DEFINE B == ParallelBatch(BatchParallel)
<1>1. B \in SUBSET Selectable /\ B # {} /\ B \in SUBSET Stories
  BY BatchOfSelectable, BatchNotEmpty DEF BatchParallel
<1>2. ASSUME NEW s \in B, NEW t \in B, s # t PROVE {s, t} \notin Apart
  <2>1. {s, t} \notin overlap
    BY <1>2, BatchApart, BatchOfSelectable DEF BatchParallel
  <2>. QED
    BY <2>1, BatchOfSelectable DEF Apart
<1>3. TakeUp(B) /\ pc = "top"
  BY DEF AtTop
<1> HIDE DEF B
<1>4. Contract!TakeUp(B)
  BY <1>1, <1>2, <1>3, TakingUp
<1>. QED
  BY <1>1, <1>4

LEMMA EndTells ==
  ASSUME CallOK
  PROVE  /\ Ended = "no" <=> outcome = "none"
         /\ outcome = "thrown" => Ended = "throw"
         /\ outcome = "escalated" => Ended = "give_up"
         /\ outcome \in {"all_done", "halted"} => Ended = "return"
BY DEF CallOK, Outcomes, Ended

LEMMA EndTellsNext ==
  ASSUME CallOK'
  PROVE  /\ Ended' = "no" <=> outcome' = "none"
         /\ outcome' = "thrown" => Ended' = "throw"
         /\ outcome' = "escalated" => Ended' = "give_up"
         /\ outcome' \in {"all_done", "halted"} => Ended' = "return"
BY DEF CallOK, Outcomes, Ended

LEMMA InitRefines == Init => Contract!Init
<1> SUFFICES ASSUME Init PROVE Contract!Init
  OBVIOUS
<1>1. RecordsOK /\ BacklogOK
  BY InitTypes DEF Types
<1>2. \A s \in Stories : Phases[s] \in {"open", "shut", "done"}
  BY <1>1, PhaseTells DEF Init
<1>3. Phases \in [Stories -> {"open", "shut", "done"}]
  BY <1>2 DEF Phases
<1>4. depends_on \in [Stories -> SUBSET Stories] /\ Apart \in SUBSET SUBSET Stories
  BY <1>1, BacklogsAssumption DEF BacklogOK, Apart, Pairs
<1>5. Ended = "no"
  BY DEF Init, Ended
<1>. QED
  BY <1>3, <1>4, <1>5 DEF Contract!Init

LEMMA StepRefines ==
  Types /\ RunInv /\ TurnInv /\ [Next]_vars => [Contract!Next]_(Contract!vars)
<1> DEFINE Same == Phases' = Phases /\ depends_on' = depends_on /\ Apart' = Apart /\ Ended' = Ended
           Given == depends_on' = depends_on /\ Apart' = Apart
<1> SUFFICES ASSUME Types, Types', RunInv, TurnInv, [Next]_vars PROVE Contract!Next \/ Same
  BY StepTypes DEF Contract!vars
<1>0. CallOK /\ RecordsOK /\ CallOK' /\ RecordsOK'
  BY DEF Types
<1>1. Given
  BY BacklogFixed DEF backlog, Apart
<1>2. ASSUME UNCHANGED <<status, batch, outcome>> PROVE Same
  BY <1>0, <1>1, <1>2, SamePhases DEF Ended
<1> HIDE DEF Same
<1>3. ASSUME UNCHANGED <<status, batch>>, outcome = "none", outcome' = "thrown" PROVE Contract!Next
  BY <1>0, <1>1, <1>3, SamePhases, EndTells, EndTellsNext DEF Contract!Throw, Contract!Next
<1>4. CASE Halt \/ AllDone
  <2>1. /\ pc = "top" /\ outcome = "none" /\ outcome' \in {"all_done", "halted"}
        /\ UNCHANGED <<status, batch>>
    BY <1>0, <1>4 DEF Halt, AllDone, AtTop, Return, CallOK
  <2>2. Contract!InWork = {}
    BY <1>0, <2>1, PhaseTells DEF Contract!InWork, TurnInv
  <2>. QED
    BY <1>0, <1>1, <2>1, <2>2, SamePhases, EndTells, EndTellsNext
       DEF Contract!Return, Contract!Next
<1>5. CASE StartBatch
  <2>1. outcome = "none" /\ outcome' = "none"
    BY <1>0, <1>5 DEF StartBatch, AtTop, CallOK
  <2>2. PICK B \in SUBSET Stories : Contract!TakeUp(B)
    BY <1>5, BatchTakenUp DEF StartBatch
  <2>. QED
    BY <1>0, <1>1, <2>1, <2>2, EndTells, EndTellsNext DEF Contract!Start, Contract!Next
<1>6. ASSUME NEW made \in SUBSET Stories, ProvisionFails(made) PROVE Contract!Next
  <2>1. outcome = "none" /\ outcome' = "thrown"
    BY <1>0, <1>6 DEF ProvisionFails, AtTop, CallOK, Return
  <2>2. \E B \in SUBSET Stories : Contract!TakeUp(B)
    BY <1>6, BatchTakenUp DEF ProvisionFails
  <2>. QED
    BY <1>0, <1>1, <2>1, <2>2, EndTells, EndTellsNext DEF Contract!Throw, Contract!Next
<1>7. ASSUME NEW s \in Stories, StartSequential(s) PROVE Contract!Next
  <2>1. pc = "top" /\ outcome = "none" /\ outcome' = "none" /\ s \in Selectable /\ TakeUp({s})
    BY <1>0, <1>7 DEF StartSequential, AtTop, CallOK, IsNext
  <2>2. Contract!TakeUp({s})
    BY <2>1, TakingUp
  <2>. QED
    BY <1>0, <1>1, <2>1, <2>2, EndTells, EndTellsNext DEF Contract!Start, Contract!Next
<1>8. ASSUME NEW s \in Stories, Working(s) PROVE Contract!Next \/ Same
  <2>1. UNCHANGED <<status, batch>> /\ outcome' \in {outcome, "thrown"}
    BY <1>8 DEF Working, WorkerEnds, WorkerThrows, Return
  <2>2. outcome \in {"none", "thrown"}
    BY <1>8 DEF Working, WorkerEnds, WorkerThrows, RunInv
  <2>. QED
    BY <1>2, <1>3, <2>1, <2>2
<1>9. CASE MergeInOrder \/ EndBatch
  BY <1>2, <1>9 DEF MergeInOrder, EndBatch
<1>10. CASE PlanNotRecorded \/ \E n \in 0..Cardinality(Stories) : MergeFails(n)
  BY <1>0, <1>3, <1>10 DEF PlanNotRecorded, MergeFails, AtTop, CallOK, Return
<1>11. ASSUME NEW s \in Stories, Phases[s] = "working", outcome = "none", Escalate(s),
              UNCHANGED batch
       PROVE  Contract!Next
  <2>1. Phases' = [Phases EXCEPT ![s] = "shut"]
    BY <1>0, <1>11, PhaseMoves DEF Escalate
  <2>2. Ended = "no" /\ Ended' = "give_up"
    BY <1>0, <1>11, EndTells, EndTellsNext DEF Escalate, Return
  <2>. QED
    BY <1>1, <1>11, <2>1, <2>2 DEF Contract!GiveUp, Contract!Next
<1>12. ASSUME NEW s \in Stories, Phases[s] = "working", UNCHANGED <<outcome, batch>>,
              outcome = "none", Complete(s)
       PROVE  Contract!Next
  <2>1. Phases' = [Phases EXCEPT ![s] = "done"]
    BY <1>0, <1>12, PhaseMoves DEF Complete
  <2>2. Ended = "no" /\ Ended' = "no"
    BY <1>0, <1>12, EndTells, EndTellsNext
  <2>. QED
    BY <1>1, <1>12, <2>1, <2>2 DEF Contract!Finish, Contract!Next
<1>13. ASSUME NEW s \in Stories, SettleRun(s) PROVE Contract!Next
  <2>1. outcome = "none" /\ s \in batch /\ Phases[s] = "working"
    BY <1>0, <1>13, PhaseTells DEF SettleRun, IsFirst, Unsettled, CallOK
  <2>. QED
    BY <1>11, <1>12, <1>13, <2>1 DEF SettleRun
<1>14. ASSUME NEW s \in Stories, CheckpointFails(s) PROVE Contract!Next
  <2>1. outcome = "none" /\ s \in batch /\ Phases[s] = "working"
    BY <1>0, <1>14, PhaseTells DEF CheckpointFails, IsFirst, Unsettled, CallOK, RunInv
  <2>. QED
    BY <1>3, <1>11, <1>14, <2>1 DEF CheckpointFails, Return
<1>15. ASSUME NEW s \in Stories, SettleSequential(s) PROVE Contract!Next
  <2>1. outcome = "none" /\ s \in batch /\ Phases[s] = "working"
    BY <1>0, <1>15, PhaseTells DEF SettleSequential, CallOK, RunInv
  <2>. QED
    BY <1>11, <1>12, <1>15, <2>1 DEF SettleSequential
<1>16. CASE UNCHANGED vars
  BY <1>2, <1>16 DEF vars
<1>. QED
  BY <1>4, <1>5, <1>6, <1>7, <1>8, <1>9, <1>10, <1>13, <1>14, <1>15, <1>16 DEF Next, Scheduling

(* A call of either scheduler keeps the contract.                          *)
THEOREM Refinement == Spec => ImplementsContract
<1>1. TurnsInv => Types /\ RunInv /\ TurnInv
  BY DEF TurnsInv
<1>. QED
  BY <1>1, InitRefines, StepRefines, TurnsInvariant, PTL
     DEF Spec, ImplementsContract, Contract!Spec

-----------------------------------------------------------------------------
(* The same with what a caller does to the workspaces that a call leaves:  *)
(* it changes none of these variables.                                     *)
THEOREM Integrated ==
  IntegrationSpec => [](NoConcurrentOverlap /\ HonestOutcome) /\ ImplementsContract
<1>1. IntegrationInit => Init
  BY DEF IntegrationInit
<1>2. [IntegrationNext]_<<vars, integrationVars>> => [Next]_vars
  BY DEF IntegrationNext, MergeBatch, ValidateTree
<1>3. IntegrationSpec => Spec
  BY <1>1, <1>2, PTL DEF IntegrationSpec, Spec
<1>. QED
  BY <1>3, NoOverlap, Honest, Refinement, PTL

-----------------------------------------------------------------------------
(* What a merge leaves.                                                    *)

(* A set of stories has an order by id.                                    *)
LEMMA IdOrder ==
  ASSUME NEW S \in SUBSET Stories
  PROVE  LET q == InIdOrder(S) IN
         /\ q \in [1..Cardinality(S) -> S]
         /\ \A i, j \in 1..Cardinality(S) : i < j => Rank[q[i]] < Rank[q[j]]
         /\ \A s \in S : \E i \in 1..Cardinality(S) : q[i] = s
<1> DEFINE n == Cardinality(S)
           Sorted(q) == \A i, j \in DOMAIN q : i < j => Rank[q[i]] < Rank[q[j]]
           before == {p \in S \X S : Rank[p[1]] < Rank[p[2]]}
<1>1. IsFiniteSet(S) /\ n \in Nat
  BY BatchSize
<1>2. \A s, t \in S : Rank[s] \in Nat /\ (Rank[s] = Rank[t] => s = t)
  BY RankAssumption
<1>3. \A s, t \in S : <<s, t>> \in before <=> Rank[s] < Rank[t]
  OBVIOUS
<1> HIDE DEF before
<1>4. StrictOrder(before, S)
  BY <1>2, <1>3 DEF StrictOrder
<1>5. \E q : Ordered(q, before, S)
  BY <1>1, <1>4, Enumeration
<1>6. \A q \in [1..n -> S] : Ordered(q, before, S) <=> Sorted(q)
  BY <1>3 DEF Ordered
<1> DEFINE q == InIdOrder(S)
<1>7. q \in [1..n -> S] /\ Sorted(q)
  <2>1. \E x \in [1..n -> S] : Sorted(x)
    BY <1>5, <1>6 DEF Ordered
  <2> QED
    BY <2>1 DEF InIdOrder
<1> HIDE DEF q
<1>8. Ordered(q, before, S)
  BY <1>6, <1>7
<1>9. \A s \in S : \E i \in 1..n : q[i] = s
  BY <1>1, <1>4, <1>8, EnumerationOnto
<1>10. DOMAIN q = 1..n
  BY <1>7
<1> QED
  BY <1>7, <1>9, <1>10 DEF q

Results == [tree : [Files -> Stories \cup {Base}], merged : Seq(Stories),
            conflict : Stories \cup {NoStory}]

(* What the first n stories of an order have left when they were merged.   *)
Merges(order, n, r) ==
  /\ r \in Results
  /\ Len(r.merged) <= n
  /\ \A i \in 1..Len(r.merged) : r.merged[i] = order[i]
  /\ r.conflict = NoStory => Len(r.merged) = n
  /\ r.conflict # NoStory => Len(r.merged) < n /\ r.conflict = order[Len(r.merged) + 1]
  /\ \A f \in Files : r.tree[f] = Base \/ \E i \in 1..Len(r.merged) : r.tree[f] = r.merged[i]
  /\ \A i \in 1..Len(r.merged) : \A f \in runs'[r.merged[i]].edits :
       \/ r.tree[f] = r.merged[i]
       \/ \E j \in (i + 1)..Len(r.merged) : f \in runs'[r.merged[j]].holds

Workspace(w) == w \in Workspaces /\ w.edits \subseteq w.holds

LEMMA MergeStep ==
  ASSUME NEW N \in Nat, NEW S \in SUBSET Stories, NEW order \in [1..N -> S], NEW n \in 0..(N - 1),
         \A s \in S : Workspace(runs'[s]), NEW r, Merges(order, n, r)
  PROVE  Merges(order, n + 1, MergeRun(r, order[n + 1]))
<1> DEFINE s == order[n + 1]
           d == MergeRun(r, s)
<1>1. /\ s \in S /\ s \in Stories /\ s # NoStory /\ n \in Nat
      /\ runs'[s].edits \subseteq runs'[s].holds /\ runs'[s].holds \subseteq Files
  BY NoStoryAssumption DEF Workspace, Workspaces
<1>2. /\ r \in Results /\ Len(r.merged) <= n
      /\ \A i \in 1..Len(r.merged) : r.merged[i] = order[i]
      /\ r.conflict = NoStory => Len(r.merged) = n
      /\ r.conflict # NoStory => Len(r.merged) < n /\ r.conflict = order[Len(r.merged) + 1]
      /\ \A f \in Files : r.tree[f] = Base \/ \E i \in 1..Len(r.merged) : r.tree[f] = r.merged[i]
      /\ \A i \in 1..Len(r.merged) : \A f \in runs'[r.merged[i]].edits :
           \/ r.tree[f] = r.merged[i]
           \/ \E j \in (i + 1)..Len(r.merged) : f \in runs'[r.merged[j]].holds
  BY DEF Merges
<1>3. /\ r.merged \in Seq(Stories) /\ Len(r.merged) \in Nat /\ r.tree \in [Files -> Stories \cup {Base}]
  BY <1>2 DEF Results
<1> HIDE DEF s
<1>4. CASE r.conflict # NoStory
  <2>1. d = r
    BY <1>4 DEF MergeRun
  <2>2. Len(r.merged) <= n + 1 /\ Len(r.merged) < n + 1
    BY <1>1, <1>2, <1>3
  <2> QED
    BY <1>2, <1>4, <2>1, <2>2 DEF Merges, s
<1>5. CASE r.conflict = NoStory /\ runs'[s].marker
  <2>1. d = [r EXCEPT !.conflict = s]
    BY <1>5 DEF MergeRun
  <2>2. d \in Results /\ d.conflict = s /\ d.merged = r.merged /\ d.tree = r.tree
    BY <1>1, <1>2, <2>1 DEF Results
  <2>3. Len(r.merged) = n /\ n < n + 1 /\ n <= n + 1
    BY <1>1, <1>2, <1>5
  <2> HIDE DEF d
  <2>4. Merges(order, n + 1, d)
    BY <1>1, <1>2, <2>2, <2>3 DEF Merges, s
  <2> QED
    BY <2>4 DEF d, s
<1>6. CASE r.conflict = NoStory /\ ~runs'[s].marker
  <2>1. d = [tree |-> CopyDirContents(r.tree, s), merged |-> Append(r.merged, s), conflict |-> NoStory]
    BY <1>6 DEF MergeRun
  <2>2. /\ d.tree = CopyDirContents(r.tree, s) /\ d.merged = Append(r.merged, s)
        /\ d.conflict = NoStory
    BY <2>1
  <2>3. /\ d.merged \in Seq(Stories) /\ Len(d.merged) = n + 1 /\ d.merged[n + 1] = s
        /\ \A i \in 1..n : d.merged[i] = r.merged[i] /\ i \in 1..(n + 1)
        /\ Len(r.merged) = n
    BY <1>1, <1>2, <1>3, <1>6, <2>2
  <2>4. \A f \in Files : d.tree[f] = IF f \in runs'[s].edits THEN s
                                     ELSE IF f \in runs'[s].holds THEN Base ELSE r.tree[f]
    BY <2>2 DEF CopyDirContents
  <2>5. d.tree \in [Files -> Stories \cup {Base}]
    BY <1>1, <1>3, <2>2 DEF CopyDirContents
  <2>6. d \in Results
    BY <2>1, <2>2, <2>3, <2>5 DEF Results
  <2> HIDE DEF d
  <2>7. \A i \in 1..(n + 1) : i \in 1..n \/ i = n + 1
    BY <1>1
  <2>8. \A i \in 1..(n + 1) : d.merged[i] = order[i]
    BY <1>2, <2>3, <2>7 DEF s
  <2>9. ASSUME NEW f \in Files
        PROVE  d.tree[f] = Base \/ \E i \in 1..(n + 1) : d.tree[f] = d.merged[i]
    <3>1. CASE f \in runs'[s].edits
      <4>1. n + 1 \in 1..(n + 1)
        BY <1>1
      <4> QED
        BY <2>3, <2>4, <3>1, <4>1
    <3>2. CASE f \notin runs'[s].edits
      BY SMTT(30), <1>2, <2>3, <2>4, <3>2
    <3> QED
      BY <3>1, <3>2
  <2>10. ASSUME NEW i \in 1..(n + 1), NEW f \in runs'[d.merged[i]].edits
         PROVE  \/ d.tree[f] = d.merged[i]
                \/ \E j \in (i + 1)..(n + 1) : f \in runs'[d.merged[j]].holds
    <3>1. CASE i = n + 1
      BY <1>1, <2>3, <2>4, <3>1
    <3>2. CASE i \in 1..n /\ f \in runs'[s].holds
      <4>1. n + 1 \in (i + 1)..(n + 1)
        BY <1>1, <3>2
      <4> QED
        BY <2>3, <3>2, <4>1
    <3>3. CASE i \in 1..n /\ f \notin runs'[s].holds
      <4>1. d.merged[i] = r.merged[i] /\ r.merged[i] \in S
        BY <1>2, <2>3, <3>3
      <4>2. f \in Files
        BY <4>1 DEF Workspace, Workspaces
      <4>3. d.tree[f] = r.tree[f]
        BY <1>1, <2>4, <3>3, <4>2
      <4>4. \/ r.tree[f] = r.merged[i]
            \/ \E j \in (i + 1)..n : f \in runs'[r.merged[j]].holds
        BY <1>2, <2>3, <3>3, <4>1
      <4>5. \A j \in (i + 1)..n : j \in 1..n /\ j \in (i + 1)..(n + 1)
        BY <3>3
      <4> QED
        BY <2>3, <4>1, <4>3, <4>4, <4>5
    <3> QED
      BY <2>7, <3>1, <3>2, <3>3
  <2> HIDE DEF s
  <2>11. n + 1 <= n + 1
    BY <1>1
  <2>12. /\ \A f \in Files : d.tree[f] = Base \/ \E i \in 1..(n + 1) : d.tree[f] = d.merged[i]
         /\ \A i \in 1..(n + 1) : \A f \in runs'[d.merged[i]].edits :
              \/ d.tree[f] = d.merged[i]
              \/ \E j \in (i + 1)..(n + 1) : f \in runs'[d.merged[j]].holds
    BY <2>9, <2>10
  <2>13. Len(d.merged) = n + 1
    BY <2>3
  <2>14. Merges(order, n + 1, d)
    BY Zenon, <2>2, <2>6, <2>8, <2>11, <2>12, <2>13 DEF Merges
  <2> QED
    BY <2>14 DEF d, s
<1> QED
  BY <1>4, <1>5, <1>6

LEMMA MergeType ==
  ASSUME NEW s \in Stories, Workspace(runs'[s]), NEW r \in Results
  PROVE  MergeRun(r, s) \in Results
<1>1. /\ runs'[s].edits \subseteq Files /\ runs'[s].holds \subseteq Files
      /\ r.merged \in Seq(Stories) /\ r.tree \in [Files -> Stories \cup {Base}]
  BY DEF Workspace, Workspaces, Results
<1>2. CASE r.conflict # NoStory
  BY <1>2 DEF MergeRun
<1>3. CASE r.conflict = NoStory /\ runs'[s].marker
  BY <1>3 DEF MergeRun, Results
<1>4. CASE r.conflict = NoStory /\ ~runs'[s].marker
  <2>1. CopyDirContents(r.tree, s) \in [Files -> Stories \cup {Base}]
    BY <1>1 DEF CopyDirContents
  <2>2. Append(r.merged, s) \in Seq(Stories)
    BY <1>1
  <2> QED
    BY <1>4, <2>1, <2>2 DEF MergeRun, Results
<1> QED
  BY <1>2, <1>3, <1>4

(* The pass over all of them is defined.                                   *)
LEMMA MergePass ==
  ASSUME NEW N \in Nat, NEW S \in SUBSET Stories, NEW order \in [1..N -> S],
         \A s \in S : Workspace(runs'[s]), NEW base \in Results
  PROVE  \E f : f = [n \in 0..N |-> IF n = 0 THEN base ELSE MergeRun(f[n - 1], order[n])]
<1> DEFINE step == [p \in (1..N) \X Results |-> MergeRun(p[2], order[p[1]])]
<1>1. step \in [(1..N) \X Results -> Results]
  <2>1. ASSUME NEW p \in (1..N) \X Results PROVE MergeRun(p[2], order[p[1]]) \in Results
    BY MergeType
  <2> QED
    BY <2>1
<1>2. \A n \in 1..N, r \in Results : step[<<n, r>>] = MergeRun(r, order[n])
  OBVIOUS
<1> HIDE DEF step
<1>3. PICK f \in [0..N -> Results] :
        f[0] = base /\ \A n \in 1..N : f[n] = step[<<n, f[n - 1]>>]
  <2>1. Recursive(Results, base, N, step)
    BY <1>1, Recursion
  <2> QED
    BY <2>1 DEF Recursive
<1>4. ASSUME NEW n \in 0..N
      PROVE  f[n] = IF n = 0 THEN base ELSE MergeRun(f[n - 1], order[n])
  <2>1. CASE n = 0
    BY <1>3, <2>1
  <2>2. CASE n # 0
    <3>1. n \in 1..N /\ n - 1 \in 0..N
      BY <2>2
    <3>2. f[n - 1] \in Results
      BY <3>1
    <3>3. f[n] = MergeRun(f[n - 1], order[n])
      BY <1>2, <1>3, <3>1, <3>2
    <3> QED
      BY <2>2, <3>3
  <2> QED
    BY <2>1, <2>2
<1>5. f = [n \in 0..N |-> IF n = 0 THEN base ELSE MergeRun(f[n - 1], order[n])]
  BY <1>4
<1> QED
  BY <1>5

(* What it leaves.                                                         *)
LEMMA MergeAll ==
  ASSUME NEW N \in Nat, NEW S \in SUBSET Stories, NEW order \in [1..N -> S],
         \A s \in S : Workspace(runs'[s]), NEW base, Merges(order, 0, base), NEW f,
         f = [n \in 0..N |-> IF n = 0 THEN base ELSE MergeRun(f[n - 1], order[n])]
  PROVE  Merges(order, N, f[N])
<1> DEFINE P == {n \in Nat : n <= N => Merges(order, n, f[n])}
<1> HIDE DEF Merges, MergeRun
<1>1. 0 \in P
  <2>1. f[0] = base
    OBVIOUS
  <2> QED
    BY <2>1
<1>2. ASSUME NEW n \in Nat, n \in P PROVE n + 1 \in P
  <2> SUFFICES ASSUME n + 1 <= N PROVE Merges(order, n + 1, f[n + 1])
    OBVIOUS
  <2>1. n \in 0..(N - 1) /\ Merges(order, n, f[n])
    BY <1>2
  <2>2. f[n + 1] = MergeRun(f[n], order[n + 1])
    <3>1. n + 1 \in 0..N /\ n + 1 # 0 /\ (n + 1) - 1 = n
      OBVIOUS
    <3> QED
      BY <3>1
  <2> QED
    BY <2>1, <2>2, MergeStep
<1> HIDE DEF P
<1>3. Nat \subseteq P
  BY <1>1, <1>2, SetInduction
<1> QED
  BY <1>3 DEF P


(* What that says of the stories of a batch.                               *)
LEMMA MergedInOrder ==
  ASSUME NEW S \in SUBSET Stories, NEW r, Merges(InIdOrder(S), Cardinality(S), r)
  PROVE  /\ r.conflict = NoStory => ToSet(r.merged) = S
         /\ r.conflict # NoStory =>
              ToSet(r.merged) = {s \in S : Rank[s] < Rank[r.conflict]}
         /\ \A f \in Files : r.tree[f] \in ToSet(r.merged) \cup {Base}
         /\ \A i \in DOMAIN r.merged : \A f \in runs'[r.merged[i]].edits :
              \/ r.tree[f] = r.merged[i]
              \/ \E j \in (i + 1)..Len(r.merged) : f \in runs'[r.merged[j]].holds
<1> DEFINE N == Cardinality(S)
           q == InIdOrder(S)
           L == Len(r.merged)
<1>1. /\ q \in [1..N -> S]
      /\ \A i, j \in 1..N : i < j => Rank[q[i]] < Rank[q[j]]
      /\ \A s \in S : \E i \in 1..N : q[i] = s
  BY IdOrder
<1>2. N \in Nat /\ \A s \in S : Rank[s] \in Nat
  BY BatchSize, RankAssumption
<1> HIDE DEF N, q
<1>3. Merges(q, N, r)
  BY DEF N, q
<1>4. L \in Nat /\ L <= N /\ DOMAIN r.merged = 1..L
  BY <1>3 DEF Merges, Results
<1>5. /\ \A i \in 1..L : r.merged[i] = q[i] /\ i \in 1..N
      /\ r.conflict = NoStory => L = N
      /\ r.conflict # NoStory => L < N /\ r.conflict = q[L + 1]
      /\ \A f \in Files : r.tree[f] = Base \/ \E i \in 1..L : r.tree[f] = r.merged[i]
      /\ \A i \in 1..L : \A f \in runs'[r.merged[i]].edits :
           \/ r.tree[f] = r.merged[i]
           \/ \E j \in (i + 1)..L : f \in runs'[r.merged[j]].holds
  BY <1>2, <1>3, <1>4 DEF Merges
<1> HIDE DEF L
<1>6. ToSet(r.merged) = {q[i] : i \in 1..L}
  BY <1>4, <1>5 DEF ToSet
<1>7. ASSUME r.conflict = NoStory PROVE ToSet(r.merged) = S
  BY <1>1, <1>5, <1>6, <1>7
<1>8. ASSUME r.conflict # NoStory
      PROVE  ToSet(r.merged) = {s \in S : Rank[s] < Rank[r.conflict]}
  <2>1. L + 1 \in 1..N /\ r.conflict = q[L + 1]
    BY <1>2, <1>4, <1>5, <1>8
  <2>2. ASSUME NEW i \in 1..L PROVE q[i] \in S /\ Rank[q[i]] < Rank[q[L + 1]]
    BY <1>1, <1>4, <1>5, <2>1
  <2>3. ASSUME NEW s \in S, Rank[s] < Rank[q[L + 1]] PROVE \E i \in 1..L : q[i] = s
    <3>1. PICK i \in 1..N : q[i] = s
      BY <1>1
    <3>2. i # L + 1 /\ ~(Rank[q[L + 1]] < Rank[q[i]])
      BY <1>1, <1>2, <2>1, <2>3, <3>1
    <3>3. i < L + 1
      BY <1>1, <1>4, <2>1, <3>2
    <3> QED
      BY <1>4, <3>1, <3>3
  <2> QED
    BY <1>6, <2>1, <2>2, <2>3
<1>9. \A f \in Files : r.tree[f] \in ToSet(r.merged) \cup {Base}
  BY <1>5, <1>6
<1> QED
  BY <1>4, <1>5, <1>7, <1>8, <1>9 DEF L

-----------------------------------------------------------------------------
(* The tree is as it was until the merge, and the merge is of a batch that *)
(* no later step of the call changes.                                      *)
MergeInv ==
  /\ integration = "none" => tree = [f \in Files |-> Base]
  /\ integration # "none" => pc = "ended"
  /\ IntegrationInOrder

LEMMA StepMerge == Types /\ MergeInv /\ [IntegrationNext]_<<vars, integrationVars>> => MergeInv'
<1> SUFFICES ASSUME Types, MergeInv, [IntegrationNext]_<<vars, integrationVars>>
             PROVE  MergeInv'
  OBVIOUS
<1>1. CASE UNCHANGED <<vars, integrationVars>>
  BY <1>1 DEF vars, integrationVars, MergeInv, IntegrationInOrder
<1>2. CASE Next /\ UNCHANGED integrationVars
  <2>1. CASE integration = "none"
    BY <1>2, <2>1 DEF integrationVars, MergeInv, IntegrationInOrder
  <2>2. CASE integration # "none"
    <3>1. pc = "ended"
      BY <2>2 DEF MergeInv
    <3>2. pc' = "ended" /\ batch' = batch
      <4>1. ~Scheduling
        BY <3>1 DEF Scheduling, Halt, AllDone, StartBatch, PlanNotRecorded, ProvisionFails,
           StartSequential, MergeInOrder, MergeFails, SettleRun, CheckpointFails, EndBatch,
           SettleSequential, AtTop
      <4>2. PICK s \in Stories : Working(s)
        BY <1>2, <4>1 DEF Next
      <4> QED
        BY <3>1, <4>2 DEF Working, WorkerEnds, WorkerThrows, Return
    <3> QED
      BY <1>2, <2>2, <3>2 DEF integrationVars, MergeInv, IntegrationInOrder
  <2> QED
    BY <2>1, <2>2
<1>3. CASE MergeBatch
  <2> DEFINE N == Cardinality(batch)
             order == InIdOrder(batch)
             base == [tree |-> tree, merged |-> <<>>, conflict |-> NoStory]
             Pass(f) == f = [n \in 0..Len(order) |->
                              IF n = 0 THEN base ELSE MergeRun(f[n - 1], order[n])]
             after == CHOOSE f : Pass(f)
             r == after[Len(order)]
  <2>1. batch \in SUBSET Stories
    BY DEF Types, RecordsOK
  <2>2. N \in Nat /\ order \in [1..N -> batch]
    BY <2>1, BatchSize, IdOrder
  <2>3. \A s \in batch : Workspace(runs'[s])
    BY <1>3 DEF MergeBatch, Workspace
  <2>4. integration = "none" /\ tree = [f \in Files |-> Base]
    BY <1>3 DEF MergeBatch, MergeInv
  <2>5. base \in Results /\ base.tree = tree /\ base.merged = <<>> /\ base.conflict = NoStory
    BY <2>4 DEF Results
  <2>6. /\ tree' = r.tree /\ merged_ids' = r.merged /\ conflict' = r.conflict
        /\ integration' = IF r.conflict = NoStory THEN "validating" ELSE "conflict_escalated"
    BY <1>3 DEF MergeBatch
  <2>7. Len(order) = N
    BY <2>2
  <2> HIDE DEF order, N, base
  <2>8. Merges(order, 0, base)
    BY <2>4, <2>5 DEF Merges
  <2>9. \E f : Pass(f)
    <3>1. \E f : f = [n \in 0..N |-> IF n = 0 THEN base ELSE MergeRun(f[n - 1], order[n])]
      BY <2>1, <2>2, <2>3, <2>5, MergePass
    <3> QED
      BY <2>7, <3>1
  <2> HIDE DEF Pass
  <2>10. Pass(after)
    BY <2>9
  <2> HIDE DEF after
  <2>11. after = [n \in 0..N |-> IF n = 0 THEN base ELSE MergeRun(after[n - 1], order[n])]
    BY <2>7, <2>10 DEF Pass
  <2>12. Merges(order, N, after[N])
    BY <2>1, <2>2, <2>3, <2>8, <2>11, MergeAll
  <2>13. Merges(InIdOrder(batch), Cardinality(batch), r)
    BY <2>7, <2>12 DEF order, N
  <2> HIDE DEF r
  <2>14. pc = "ended" /\ UNCHANGED <<pc, batch>>
    BY <1>3 DEF MergeBatch, vars, Types, CallOK
  <2>15. IntegrationInOrder'
    BY <2>1, <2>6, <2>13, <2>14, MergedInOrder DEF IntegrationInOrder
  <2>16. integration' # "none"
    BY <2>6
  <2> QED
    BY <2>14, <2>15, <2>16 DEF MergeInv
<1>4. ASSUME NEW passes \in BOOLEAN, ValidateTree(passes) PROVE MergeInv'
  BY <1>4 DEF ValidateTree, vars, MergeInv, IntegrationInOrder
<1> QED
  BY <1>1, <1>2, <1>3, <1>4 DEF IntegrationNext

(* What is merged over the integration directory is the batch in the order *)
(* of ids, up to the first conflict, and no edit of a merged story is lost *)
(* but to a file that a later workspace holds.                             *)
THEOREM Merged == IntegrationSpec => []IntegrationInOrder
<1>1. IntegrationInit => Init /\ MergeInv
  BY DEF IntegrationInit, MergeInv, IntegrationInOrder
<1>2. [IntegrationNext]_<<vars, integrationVars>> => [Next]_vars
  BY DEF IntegrationNext, MergeBatch, ValidateTree
<1>3. IntegrationSpec => []Types
  BY <1>1, <1>2, RunInvariant, PTL DEF IntegrationSpec, Spec
<1>4. MergeInv => IntegrationInOrder
  BY DEF MergeInv
<1> QED
  BY <1>1, <1>3, <1>4, StepMerge, PTL DEF IntegrationSpec
=============================================================================
