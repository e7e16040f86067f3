----------------------------- MODULE TaskGraph -----------------------------
(***************************************************************************)
(* The subtasks of one story contract (TaskGraph of task-graph): an agent  *)
(* creates tasks, asks for the next one and updates them.  A task is named *)
(* by its sequence number.  Calls that throw change nothing and are left   *)
(* out; what they are asked is among what the guards refuse.               *)
(***************************************************************************)
EXTENDS Naturals, Sequences, FiniteSets

CONSTANTS
  Files,     \* the files a task may name
  WriteSet,  \* those the write set of the contract covers
  MaxTasks,  \* bound of the model: tasks created
  NoTask

ASSUME TaskGraphAssumption ==
  MaxTasks \in Nat /\ WriteSet \subseteq Files /\ NoTask \notin Nat

VARIABLES
  tasks  \* the tasks in order of creation

taskVars == tasks

Statuses == {"pending", "in_progress", "done", "blocked", "abandoned"}
Tasks == DOMAIN tasks
Pending == {t \in Tasks : tasks[t].status = "pending"}
InProgress == {t \in Tasks : tasks[t].status = "in_progress"}
Done == {t \in Tasks : tasks[t].status = "done"}

Legal(status) ==
  CASE status = "pending" -> {"in_progress", "abandoned"}
    [] status = "in_progress" -> {"done", "blocked", "abandoned"}
    [] status = "blocked" -> {"in_progress", "abandoned"}
    [] OTHER -> {}

LegalTransition(from, to) == from = to \/ to \in Legal(from)

(* Mutant of KnownTasks: the check comes after the task was given its id.  *)
KnownTasksAndSelf == 1..(Len(tasks) + 1)

KnownTasks == Tasks

(* TaskGraph.create.                                                       *)
Create(deps, files) ==
  /\ files \subseteq WriteSet
  /\ deps \subseteq KnownTasks
  /\ tasks' = Append(tasks, [deps |-> deps, files |-> files, status |-> "pending"])

Runnable(t) == t \in Pending /\ tasks[t].deps \subseteq Done

(* TaskGraph.next: the first pending task whose dependencies are done.     *)
NextTask ==
  IF \E t \in Tasks : Runnable(t)
  THEN CHOOSE t \in Tasks : Runnable(t) /\ \A u \in Tasks : Runnable(u) => t <= u
  ELSE NoTask

OnlyOne(t, status) == status = "in_progress" => InProgress \subseteq {t}

(* TaskGraph.update does not look at the dependencies: that is up to the   *)
(* agent.                                                                  *)
Update(t, status) ==
  /\ LegalTransition(tasks[t].status, status)
  /\ OnlyOne(t, status)
  /\ tasks' = [tasks EXCEPT ![t].status = status]

TaskInit == tasks = <<>>

TaskNext ==
  \/ Len(tasks) < MaxTasks /\ \E deps \in SUBSET (1..MaxTasks), files \in SUBSET Files : Create(deps, files)
  \/ \E t \in Tasks, status \in Statuses : Update(t, status)

TaskSpec == TaskInit /\ [][TaskNext]_taskVars

-----------------------------------------------------------------------------
(* Properties.                                                             *)

(* Type invariant: dependencies point back, and one task is in progress at *)
(* most ("single-thread v0").                                              *)
TasksTypeOK ==
  /\ \A t \in Tasks :
       /\ tasks[t].status \in Statuses
       /\ tasks[t].files \subseteq WriteSet
       /\ tasks[t].deps \subseteq 1..MaxTasks
  /\ Len(tasks) <= MaxTasks
  /\ Cardinality(InProgress) <= 1

(* next() has nothing to offer while tasks are pending only because of a   *)
(* task that is blocked or was abandoned, and never because tasks wait for *)
(* each other: the first pending task depends on such a one directly.      *)
StuckMeansAbandoned ==
  \A t \in Pending :
    NextTask = NoTask /\ InProgress = {} /\ (\A u \in Pending : t <= u) =>
      \E d \in tasks[t].deps : tasks[d].status \in {"blocked", "abandoned"}
=============================================================================
