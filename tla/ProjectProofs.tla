--------------------------- MODULE ProjectProofs ---------------------------
(***************************************************************************)
(* Theorems about the work a run is given and what becomes of it: the      *)
(* directory of a new project, the repository that is taken over, the      *)
(* tasks of a story contract, and the export of a project with its record. *)
(* None of the four depends on the others; each has an inductive invariant *)
(* of its own.                                                             *)
(***************************************************************************)
EXTENDS Promotion, TaskGraph, Greenfield, Brownfield, SequenceTheorems, FiniteSetTheorems, TLAPS

-----------------------------------------------------------------------------
(* The tasks of a contract, for any files and any number of tasks.         *)

Task == [deps : SUBSET Nat, files : SUBSET WriteSet, status : Statuses]

(* TypeOK does not say what keeps tasks from waiting for each other:       *)
(* create() knows only tasks that are there, so dependencies point back.   *)
PointBack == \A t \in Tasks : tasks[t].deps \subseteq 1..(t - 1)

SingleThread == \A t, u \in InProgress : t = u

TasksInv == tasks \in Seq(Task) /\ Len(tasks) <= MaxTasks /\ PointBack /\ SingleThread

(* A task that is created is the last one.                                 *)
LEMMA CreateInv ==
  ASSUME TasksInv, NEW deps, NEW files \in SUBSET Files, Create(deps, files),
         Len(tasks) < MaxTasks
  PROVE  TasksInv'
<1> DEFINE new == [deps |-> deps, files |-> files, status |-> "pending"]
           n == Len(tasks)
<1>1. /\ new \in Task
      /\ n \in Nat /\ Tasks = 1..n
      /\ new.deps \subseteq 1..n
  BY DEF Create, TasksInv, Task, Statuses, KnownTasks, Tasks
<1>2. /\ tasks' \in Seq(Task)
      /\ Tasks' = 1..(n + 1)
      /\ \A t \in 1..n : tasks'[t] = tasks[t]
      /\ tasks'[n + 1] = new
  BY <1>1 DEF Create, TasksInv, Tasks
<1>3. PointBack'
  <2> SUFFICES ASSUME NEW t \in 1..(n + 1) PROVE tasks'[t].deps \subseteq 1..(t - 1)
    BY <1>2 DEF PointBack
  <2>1. CASE t \in 1..n
    BY <1>1, <1>2, <2>1 DEF TasksInv, PointBack
  <2>2. CASE t = n + 1
    BY <1>1, <1>2, <2>2
  <2> QED
    BY <1>1, <2>1, <2>2
<1>4. InProgress' \subseteq InProgress
  <2> SUFFICES ASSUME NEW t \in 1..(n + 1), tasks'[t].status = "in_progress"
               PROVE  t \in InProgress
    BY <1>2 DEF InProgress
  <2>1. t \in 1..n
    BY <1>1, <1>2
  <2> QED
    BY <1>1, <1>2, <2>1 DEF InProgress
<1>5. Len(tasks') <= MaxTasks
  BY <1>1, <1>2, TaskGraphAssumption DEF Tasks
<1> QED
  BY <1>2, <1>3, <1>4, <1>5 DEF TasksInv, SingleThread

(* An update changes one status, and starts a task only when no other is   *)
(* in progress.                                                            *)
LEMMA UpdateInv ==
  ASSUME TasksInv, NEW t \in Tasks, NEW status \in Statuses, Update(t, status)
  PROVE  TasksInv'
<1>1. /\ tasks' \in Seq(Task) /\ Tasks' = Tasks /\ Len(tasks') = Len(tasks)
      /\ \A u \in Tasks : tasks'[u].deps = tasks[u].deps
      /\ tasks'[t].status = status
      /\ \A u \in Tasks \ {t} : tasks'[u] = tasks[u]
  <2> DEFINE new == [tasks[t] EXCEPT !.status = status]
  <2>1. /\ tasks \in Seq(Task) /\ t \in 1..Len(tasks)
        /\ tasks[t] \in Task
    BY DEF TasksInv, Tasks
  <2>2. new \in Task /\ new.deps = tasks[t].deps /\ new.status = status
    BY <2>1 DEF Task
  <2>3. tasks' = [tasks EXCEPT ![t] = new]
    BY DEF Update
  <2>4. /\ tasks' \in Seq(Task) /\ Len(tasks') = Len(tasks)
        /\ \A u \in 1..Len(tasks) : tasks'[u] = IF u = t THEN new ELSE tasks[u]
    <3> HIDE DEF new
    <3> QED
      BY <2>1, <2>2, <2>3, ExceptSeq
  <2>5. Tasks = 1..Len(tasks) /\ Tasks' = 1..Len(tasks')
    BY <2>1, <2>4 DEF Tasks
  <2> QED
    BY <2>1, <2>2, <2>4, <2>5
<1>2. PointBack'
  BY <1>1 DEF TasksInv, PointBack
<1>3. SingleThread'
  <2> SUFFICES ASSUME NEW u \in InProgress', NEW v \in InProgress' PROVE u = v
    BY DEF SingleThread
  <2>1. CASE status = "in_progress"
    <3>1. InProgress \subseteq {t}
      BY <2>1 DEF Update, OnlyOne
    <3> QED
      BY <1>1, <3>1 DEF InProgress
  <2>2. CASE status # "in_progress"
    <3>1. u \in InProgress /\ v \in InProgress
      BY <1>1, <2>2 DEF InProgress
    <3> QED
      BY <3>1 DEF TasksInv, SingleThread
  <2> QED
    BY <2>1, <2>2
<1> QED
  BY <1>1, <1>2, <1>3 DEF TasksInv

LEMMA TasksInductive == TaskSpec => []TasksInv
<1>1. TaskInit => TasksInv
  <2>1. ASSUME TaskInit PROVE tasks \in Seq(Task) /\ Tasks = {} /\ Len(tasks) = 0
    BY <2>1 DEF TaskInit, Tasks
  <2> QED
    BY <2>1, TaskGraphAssumption DEF TasksInv, PointBack, SingleThread, InProgress
<1>2. TasksInv /\ [TaskNext]_taskVars => TasksInv'
  <2> SUFFICES ASSUME TasksInv, [TaskNext]_taskVars PROVE TasksInv'
    OBVIOUS
  <2>1. ASSUME NEW deps \in SUBSET (1..MaxTasks), NEW files \in SUBSET Files, Create(deps, files),
               Len(tasks) < MaxTasks
        PROVE  TasksInv'
    BY <2>1, CreateInv
  <2>2. ASSUME NEW t \in Tasks, NEW status \in Statuses, Update(t, status) PROVE TasksInv'
    BY <2>2, UpdateInv
  <2>3. ASSUME UNCHANGED taskVars PROVE TasksInv'
    BY <2>3 DEF TasksInv, taskVars, PointBack, SingleThread, InProgress, Tasks
  <2> QED
    BY <2>1, <2>2, <2>3 DEF TaskNext
<1> QED
  BY <1>1, <1>2, PTL DEF TaskSpec

(* Tasks are well formed and one is in progress at most.                   *)
THEOREM TaskTypes == TaskSpec => []TasksTypeOK
<1>1. TasksInv => TasksTypeOK
  <2> SUFFICES ASSUME TasksInv PROVE TasksTypeOK
    OBVIOUS
  <2>1. Tasks = 1..Len(tasks) /\ Len(tasks) \in Nat /\ \A t \in Tasks : tasks[t] \in Task
    BY DEF TasksInv, Tasks
  <2>2. ASSUME NEW t \in Tasks PROVE tasks[t].deps \subseteq 1..MaxTasks
    BY <2>1, TaskGraphAssumption DEF TasksInv, PointBack
  <2>3. Cardinality(InProgress) <= 1
    <3>1. CASE InProgress = {}
      <4>1. Cardinality(InProgress) = 0
        BY <3>1, FS_EmptySet
      <4> QED
        BY <4>1
    <3>2. CASE InProgress # {}
      <4>1. PICK t \in InProgress : InProgress = {t}
        BY <3>2 DEF TasksInv, SingleThread
      <4>2. Cardinality(InProgress) = 1
        BY <4>1, FS_Singleton
      <4> QED
        BY <4>2
    <3> QED
      BY <3>1, <3>2
  <2> QED
    BY <2>1, <2>2, <2>3 DEF TasksTypeOK, TasksInv, Task
<1> QED
  BY <1>1, TasksInductive, PTL

(* A first pending task that could run would be what next() offers; so it  *)
(* cannot, and what it waits for came before it and is not pending.        *)
LEMMA StuckStep == TasksInv => StuckMeansAbandoned
<1> SUFFICES ASSUME TasksInv, NEW t \in Pending, NextTask = NoTask, InProgress = {},
                    \A u \in Pending : t <= u
             PROVE  \E d \in tasks[t].deps : tasks[d].status \in {"blocked", "abandoned"}
  BY DEF StuckMeansAbandoned
<1>1. Tasks = 1..Len(tasks) /\ Len(tasks) \in Nat /\ Tasks \subseteq Nat
  BY DEF TasksInv, Tasks
<1>2. ~Runnable(t)
  <2> SUFFICES ASSUME Runnable(t) PROVE FALSE
    OBVIOUS
  <2> DEFINE First(u) == Runnable(u) /\ \A v \in Tasks : Runnable(v) => u <= v
  <2>1. t \in Tasks /\ First(t)
    BY DEF Runnable, Pending
  <2>2. NextTask = CHOOSE u \in Tasks : First(u)
    BY <2>1 DEF NextTask
  <2>3. (CHOOSE u \in Tasks : First(u)) \in Tasks
    <3> HIDE DEF First
    <3> QED
      BY <2>1
  <2> QED
    BY <1>1, <2>2, <2>3, TaskGraphAssumption
<1>3. PICK d \in tasks[t].deps : d \notin Done
  BY <1>2 DEF Runnable
<1>4. d \in 1..(t - 1) /\ t \in Tasks
  BY DEF TasksInv, PointBack, Pending
<1>5. d \in Tasks /\ ~(t <= d) /\ tasks[d].status \in Statuses
  <2>1. t \in Nat /\ d \in Nat /\ 1 <= d /\ d < t /\ t <= Len(tasks)
    BY <1>1, <1>4
  <2>2. d \in Tasks /\ ~(t <= d)
    BY <1>1, <2>1
  <2>3. tasks[d] \in Task
    BY <1>1, <2>2 DEF TasksInv
  <2> QED
    BY <2>2, <2>3 DEF Task
<1>6. d \notin Pending /\ d \notin InProgress /\ d \notin Done
  BY <1>3, <1>5
<1> QED
  BY <1>5, <1>6 DEF Pending, InProgress, Done, Statuses

(* next() answers null only when all is done or the first pending task     *)
(* depends on one that is blocked or was abandoned, whatever the agent     *)
(* has created and updated.                                                *)
THEOREM Stuck == TaskSpec => []StuckMeansAbandoned
  BY TasksInductive, StuckStep, PTL

-----------------------------------------------------------------------------
(* The directory of a new project, for any template and any other files.   *)

Whole(files) == \A f \in Scaffold : files[f] = "scaffold"

CallTypes ==
  [template : {"minimal-ts", "empty"}, step : {"init", "write", "commit", "made"},
   written : 0..Len(Template)]

DirectoryTypes ==
  /\ tree \in Trees /\ index \in Trees \cup {Absent} /\ head \in Trees \cup {Absent}
  /\ call \in CallTypes \cup {NoCall}
  /\ call.step \in {"write", "commit", "made"} => index # Absent
  /\ call.step = "init" => call.written = 0

(* What a call of 'minimal-ts' has done so far, whatever was there before  *)
(* it: the files up to the one it is at, and then all of them, staged.     *)
CallProgress ==
  call.template = "minimal-ts" =>
    /\ call.step = "write" => \A i \in 1..call.written : tree[Template[i]] = "scaffold"
    /\ call.step = "commit" => index = tree /\ Whole(tree)

(* BootstrapWhole, and where the call is when it holds of it: a later call *)
(* forgets the outcome before it touches anything.                         *)
OutcomeEarned ==
  outcome \in {"created", "unchanged"} =>
    /\ call.step \in {"made", "none"} /\ head # Absent
    /\ call.template = "minimal-ts" => head = tree /\ Whole(tree)

ProjectInv == DirectoryTypes /\ CallProgress /\ OutcomeEarned

LEMMA ProjectInitially == ProjectInit => ProjectInv
<1> SUFFICES ASSUME ProjectInit PROVE ProjectInv
  OBVIOUS
<1>1. DirectoryTypes
  BY DEF ProjectInit, DirectoryTypes, Trees, NoCall
<1>2. CallProgress /\ OutcomeEarned
  BY DEF ProjectInit, CallProgress, OutcomeEarned, NoCall
<1> QED
  BY <1>1, <1>2 DEF ProjectInv

(* The call is told from no call by its template and by its step.          *)
LEMMA CallFields ==
  ASSUME DirectoryTypes
  PROVE  /\ NoCall.template = "none" /\ NoCall.step = "none"
         /\ call # NoCall => /\ call \in CallTypes /\ call.template \in {"minimal-ts", "empty"}
                             /\ call.step \in {"init", "write", "commit", "made"}
                             /\ call.written \in 0..Len(Template)
         /\ call = NoCall => call.template = "none" /\ call.step = "none"
         /\ \A step \in {"init", "write", "commit", "made"} : call.step = step => call # NoCall
BY DEF DirectoryTypes, CallTypes, NoCall

LEMMA TemplateType ==
  /\ Len(Template) \in Nat \ {0} /\ DOMAIN Template = 1..Len(Template)
  /\ \A i \in 1..Len(Template) : Template[i] \in ProjectFiles
  /\ \A f \in Scaffold : \E i \in 1..Len(Template) : f = Template[i]
<1>1. Template \in Seq(Scaffold) /\ Template # <<>>
  BY GreenfieldAssumption
<1> QED
  BY <1>1 DEF Scaffold, ProjectFiles

LEMMA ProjectKept == ProjectInv /\ [ProjectNext]_projectVars => ProjectInv'
<1> SUFFICES ASSUME ProjectInv, [ProjectNext]_projectVars PROVE ProjectInv'
  OBVIOUS
<1>0. DirectoryTypes /\ CallProgress /\ OutcomeEarned
  BY DEF ProjectInv
<1> USE DEF ProjectInv
<1>1. CASE Reject
  BY <1>0, <1>1, CallFields DEF Reject, DirectoryTypes, CallProgress, OutcomeEarned
<1>2. ASSUME NEW template \in {"minimal-ts", "empty"}, MakeDirectory(template)
      PROVE  ProjectInv'
  <2>1. call' \in CallTypes /\ call'.step = "init"
    BY <1>2, TemplateType DEF MakeDirectory, CallTypes
  <2>2. DirectoryTypes'
    BY <1>0, <1>2, <2>1 DEF MakeDirectory, DirectoryTypes
  <2>3. CallProgress' /\ OutcomeEarned'
    BY <1>2, <2>1 DEF MakeDirectory, CallProgress, OutcomeEarned
  <2> QED
    BY <2>2, <2>3
<1>3. CASE InitRepository
  <2>1. /\ call' \in CallTypes /\ call'.step = "write" /\ call'.written = call.written
        /\ call'.template = call.template /\ outcome \notin {"created", "unchanged"}
    BY <1>0, <1>3, CallFields DEF InitRepository, Step, CallTypes, OutcomeEarned
  <2>2. index' \in Trees
    BY <1>0, <1>3 DEF InitRepository, DirectoryTypes, Nothing, Trees
  <2>3. DirectoryTypes'
    BY <1>0, <1>3, <2>1, <2>2, GreenfieldAssumption DEF InitRepository, DirectoryTypes
  <2>4. CallProgress'
    BY <1>0, <1>3, <2>1 DEF InitRepository, DirectoryTypes, CallProgress
  <2>5. OutcomeEarned'
    BY <1>3, <2>1 DEF InitRepository, OutcomeEarned
  <2> QED
    BY <2>3, <2>4, <2>5
<1>4. CASE WriteFile
  <2> DEFINE i == call.written + 1
  <2>1. call \in CallTypes /\ call.template = "minimal-ts" /\ ToWrite = Template
    <3>1. ToWrite # <<>>
      BY <1>4, <1>0, CallFields DEF WriteFile
    <3> QED
      BY <1>4, <1>0, <3>1, CallFields DEF WriteFile, ToWrite
  <2>2. i \in 1..Len(Template) /\ Template[i] \in ProjectFiles
    BY <1>4, <2>1, TemplateType DEF WriteFile, CallTypes
  <2>3. /\ call' \in CallTypes /\ call'.step = "write" /\ call'.written = i
        /\ call'.template = "minimal-ts" /\ outcome \notin {"created", "unchanged"}
    BY <1>0, <1>4, <2>1, <2>2 DEF WriteFile, CallTypes, OutcomeEarned
  <2>4. /\ tree' \in Trees /\ tree'[Template[i]] = "scaffold"
        /\ \A f \in ProjectFiles : tree[f] = "scaffold" => tree'[f] = "scaffold"
    BY <1>0, <1>4, <2>1, <2>2 DEF WriteFile, DirectoryTypes, Trees
  <2>5. DirectoryTypes'
    BY <1>0, <1>4, <2>3, <2>4 DEF WriteFile, DirectoryTypes
  <2>6. CallProgress'
    <3> SUFFICES ASSUME NEW j \in 1..i PROVE tree'[Template[j]] = "scaffold"
      BY <2>3 DEF CallProgress
    <3>1. CASE j = i
      BY <2>4, <3>1
    <3>2. CASE j # i
      <4>1. j \in 1..call.written /\ Template[j] \in ProjectFiles
        BY <2>1, <2>2, <3>2, TemplateType DEF CallTypes
      <4> QED
        BY <1>0, <1>4, <2>1, <2>4, <4>1 DEF CallProgress, WriteFile
    <3> QED
      BY <3>1, <3>2
  <2>7. OutcomeEarned'
    BY <1>4, <2>3 DEF WriteFile, OutcomeEarned
  <2> QED
    BY <2>5, <2>6, <2>7
<1>5. CASE AddAll
  <2>1. call # NoCall /\ call.step = "write" /\ call.written = Len(ToWrite)
    BY <1>0, <1>5, CallFields DEF AddAll
  <2>2. /\ call' \in CallTypes /\ call'.step = "commit" /\ call'.template = call.template
        /\ outcome \notin {"created", "unchanged"}
    BY <1>0, <1>5, <2>1, CallFields DEF AddAll, Step, CallTypes, OutcomeEarned
  <2>3. index' \in Trees /\ index' # Absent
    BY <1>0, <1>5, <2>1, GreenfieldAssumption DEF AddAll, DirectoryTypes
  <2>4. DirectoryTypes'
    BY <1>0, <1>5, <2>2, <2>3 DEF AddAll, DirectoryTypes
  <2>5. ASSUME call.template = "minimal-ts"
        PROVE  index' = tree /\ Whole(tree)
    <3>1. ToWrite = Template /\ ToWrite # <<>>
      BY <2>5, TemplateType DEF ToWrite
    <3>2. Whole(tree)
      BY <1>0, <2>1, <2>5, <3>1, TemplateType DEF CallProgress, Whole
    <3> QED
      BY <1>5, <3>1, <3>2 DEF AddAll
  <2>6. CallProgress'
    BY <1>5, <2>2, <2>5 DEF AddAll, CallProgress, Whole
  <2>7. OutcomeEarned'
    BY <1>5, <2>2 DEF AddAll, OutcomeEarned
  <2> QED
    BY <2>4, <2>6, <2>7
<1>6. CASE CommitScaffold \/ NothingToCommit
  <2>1. call # NoCall /\ call.step = "commit" /\ index # Absent
    BY <1>0, <1>6, CallFields DEF CommitScaffold, NothingToCommit, DirectoryTypes
  <2>2. call' \in CallTypes /\ call'.step = "made" /\ call'.template = call.template
    BY <1>0, <1>6, <2>1, CallFields DEF CommitScaffold, NothingToCommit, Step, CallTypes
  <2>3. head' = index /\ UNCHANGED <<tree, index>>
    BY <1>6 DEF CommitScaffold, NothingToCommit, Changed
  <2>4. DirectoryTypes'
    BY <1>0, <2>1, <2>2, <2>3 DEF DirectoryTypes
  <2>5. CallProgress'
    BY <2>2 DEF CallProgress
  <2>6. OutcomeEarned'
    BY <1>0, <2>1, <2>2, <2>3 DEF CallProgress, OutcomeEarned, Whole
  <2> QED
    BY <2>4, <2>5, <2>6
<1>7. CASE Interrupted
  <2>1. call' = NoCall /\ outcome' = "interrupted" /\ UNCHANGED <<index, head>>
    BY <1>7 DEF Interrupted
  <2>2. tree' \in Trees
    BY <1>0, <1>7 DEF Interrupted, DirectoryTypes, Trees
  <2>3. DirectoryTypes'
    BY <1>0, <2>1, <2>2 DEF DirectoryTypes, NoCall
  <2>4. CallProgress' /\ OutcomeEarned'
    BY <2>1 DEF CallProgress, OutcomeEarned, NoCall
  <2> QED
    BY <2>3, <2>4
<1>8. CASE Return
  <2>1. call' = NoCall /\ UNCHANGED <<tree, index, head, outcome>> /\ call.step = "made"
    BY <1>8 DEF Return
  <2>2. DirectoryTypes'
    BY <1>0, <2>1 DEF DirectoryTypes, NoCall
  <2>3. CallProgress' /\ OutcomeEarned'
    BY <1>0, <2>1 DEF CallProgress, OutcomeEarned, NoCall
  <2> QED
    BY <2>2, <2>3
<1>9. ASSUME NEW f \in ProjectFiles, WorkOn(f)
      PROVE  ProjectInv'
  <2>1. call' = NoCall /\ outcome' = "none"
    BY <1>9 DEF WorkOn
  <2>2. tree' \in Trees
    BY <1>0, <1>9 DEF WorkOn, DirectoryTypes, Trees
  <2>3. index' \in Trees \cup {Absent} /\ head' \in Trees \cup {Absent}
    BY <1>0, <1>9, <2>2 DEF WorkOn, DirectoryTypes
  <2>4. DirectoryTypes'
    BY <2>1, <2>2, <2>3 DEF DirectoryTypes, NoCall
  <2>5. CallProgress' /\ OutcomeEarned'
    BY <2>1 DEF CallProgress, OutcomeEarned, NoCall
  <2> QED
    BY <2>4, <2>5
<1>10. CASE UNCHANGED projectVars
  BY <1>0, <1>10 DEF projectVars, DirectoryTypes, CallProgress, OutcomeEarned, Whole
<1> QED
  BY <1>1, <1>2, <1>3, <1>4, <1>5, <1>6, <1>7, <1>8, <1>9, <1>10 DEF ProjectNext

(* Wherever earlier calls were interrupted, and whatever was in the        *)
(* directory before and was done in it since, a call that has made its     *)
(* commit has the template whole in it and leaves nothing out.             *)
THEOREM Bootstrapped == ProjectSpec => []BootstrapWhole
<1>1. ProjectInv => BootstrapWhole
  BY DEF ProjectInv, OutcomeEarned, BootstrapWhole, Whole
<1> QED
  BY <1>1, ProjectInitially, ProjectKept, PTL DEF ProjectSpec

-----------------------------------------------------------------------------
(* The repository that is taken over: what the imports write, the stories, *)
(* and the changes.  The three parts share no variable.                    *)

Scans == {Scan(there) : there \in SUBSET Entries}
Documents ==
  [architecture : {Architecture(there) : there \in SUBSET Entries} \cup {Unknown},
   conventions : {Conventions(there) : there \in SUBSET Entries} \cup {Unknown}]

IntakeTypes ==
  /\ repo \in SUBSET Entries
  /\ intake \in [Importers -> [step : {"idle", "asking", "thrown", "returned"},
                               place : Outputs \cup {"inside"}, scan : Scans]]
  /\ docs \in [Outputs -> Documents]
  /\ \A i \in Importers : intake[i].step \in {"asking", "returned"} => intake[i].place \in Outputs

(* Both documents of an output tell of an import that has returned, and    *)
(* stay after it: an import that is cut writes over one of them only.      *)
DocsTell ==
  /\ \A place \in Outputs \ cut : docs[place] # Undocumented =>
       \E i \in Importers : /\ intake[i].step = "returned" /\ intake[i].place = place
                            /\ docs[place] = intake[i].scan
  /\ \A i \in Importers : intake[i].step = "returned" =>
       LET d == docs[intake[i].place] IN d.architecture # Unknown /\ d.conventions # Unknown

ImportInv == IntakeTypes /\ DocsTell

(* A scan finds something of either sort.                                  *)
LEMMA ScanType ==
  ASSUME NEW scan \in Scans
  PROVE  scan \in Documents /\ scan.architecture # Unknown /\ scan.conventions # Unknown
BY UnknownAssumption DEF Scans, Scan, Documents

LEMMA ImportKept == ImportInv /\ (Importing \/ UNCHANGED importVars) => ImportInv'
<1> SUFFICES ASSUME ImportInv, Importing \/ UNCHANGED importVars PROVE ImportInv'
  OBVIOUS
<1>0. IntakeTypes /\ DocsTell
  BY DEF ImportInv
<1> USE DEF ImportInv
<1>1. ASSUME NEW i \in Importers, NEW place \in Outputs \cup {"inside"}, BeginImport(i, place)
      PROVE  ImportInv'
  <2>1. Scan(repo) \in Scans
    BY <1>0 DEF IntakeTypes, Scans
  <2>2. /\ intake[i].step = "idle"
        /\ intake' = [intake EXCEPT ![i] =
                        [step |-> IF place = "inside" THEN "thrown" ELSE "asking",
                         place |-> place, scan |-> Scan(repo)]]
        /\ UNCHANGED <<repo, docs, cut>>
    BY <1>1 DEF BeginImport
  <2>3. IntakeTypes'
    BY <1>0, <2>1, <2>2 DEF IntakeTypes
  <2>4. \A j \in Importers : /\ intake[j].step = "returned" => intake'[j] = intake[j]
                             /\ intake'[j].step = "returned" => intake'[j] = intake[j]
    BY <1>0, <2>2 DEF IntakeTypes
  <2>5. DocsTell'
    BY <1>0, <2>2, <2>4 DEF DocsTell
  <2> QED
    BY <2>3, <2>5
<1>2. ASSUME NEW i \in Importers, WriteDocs(i) \/ ImportFails(i) \/ ImportCut(i)
      PROVE  ImportInv'
  <2> DEFINE place == intake[i].place
             scan == intake[i].scan
  <2>1. /\ intake[i].step = "asking" /\ place \in Outputs /\ scan \in Scans
        /\ scan \in Documents /\ scan.architecture # Unknown /\ scan.conventions # Unknown
        /\ docs[place] \in Documents
    BY <1>0, <1>2, ScanType DEF WriteDocs, ImportFails, ImportCut, IntakeTypes
  <2>2. PICK step \in {"thrown", "returned"} : intake' = [intake EXCEPT ![i].step = step]
    BY <1>2 DEF WriteDocs, ImportFails, ImportCut, Ended
  <2>3. /\ intake'[i].step = step /\ intake'[i].place = place /\ intake'[i].scan = scan
        /\ \A j \in Importers \ {i} : intake'[j] = intake[j]
        /\ intake' \in [Importers -> [step : {"idle", "asking", "thrown", "returned"},
                                      place : Outputs \cup {"inside"}, scan : Scans]]
    BY <1>0, <2>2 DEF IntakeTypes
  <2>4. repo' = repo
    BY <1>2 DEF WriteDocs, ImportFails, ImportCut
  <2>5. CASE WriteDocs(i)
    <3>1. /\ docs' = [docs EXCEPT ![place] = scan] /\ cut' = cut \ {place}
          /\ intake'[i].step = "returned"
      BY <1>0, <2>5 DEF WriteDocs, Write, Ended, IntakeTypes
    <3>2. IntakeTypes'
      BY <1>0, <2>1, <2>3, <2>4, <3>1 DEF IntakeTypes
    <3>3. docs'[place] = scan /\ \A p \in Outputs \ {place} : docs'[p] = docs[p]
      BY <1>0, <2>1, <3>1 DEF IntakeTypes
    <3>4. DocsTell'
      BY <1>0, <2>1, <2>3, <3>1, <3>3 DEF DocsTell, IntakeTypes
    <3> QED
      BY <3>2, <3>4
  <2>6. CASE ImportFails(i)
    <3>1. UNCHANGED <<docs, cut>> /\ intake'[i].step = "thrown"
      BY <1>0, <2>6 DEF ImportFails, Ended, IntakeTypes
    <3>2. IntakeTypes'
      BY <1>0, <2>3, <2>4, <3>1 DEF IntakeTypes
    <3>3. DocsTell'
      BY <1>0, <2>1, <2>3, <3>1 DEF DocsTell
    <3> QED
      BY <3>2, <3>3
  <2>7. CASE ImportCut(i)
    <3> DEFINE half == [docs[place] EXCEPT !.architecture = scan.architecture]
    <3>1. /\ docs' = [docs EXCEPT ![place] = half] /\ cut' = cut \cup {place}
          /\ intake'[i].step = "thrown"
      BY <1>0, <2>7 DEF ImportCut, Write, Ended, IntakeTypes
    <3>2. /\ half \in Documents /\ half.architecture = scan.architecture
          /\ half.conventions = docs[place].conventions
      BY <2>1 DEF Documents
    <3> HIDE DEF half
    <3>3. IntakeTypes'
      BY <1>0, <2>1, <2>3, <2>4, <3>1, <3>2 DEF IntakeTypes
    <3>4. docs'[place] = half /\ \A p \in Outputs \ {place} : docs'[p] = docs[p]
      BY <1>0, <2>1, <3>1 DEF IntakeTypes
    <3>5. DocsTell'
      BY <1>0, <2>1, <2>3, <3>1, <3>2, <3>4 DEF DocsTell, IntakeTypes
    <3> QED
      BY <3>3, <3>5
  <2> QED
    BY <1>2, <2>5, <2>6, <2>7
<1>3. ASSUME NEW e \in Entries, EditRepo(e)
      PROVE  ImportInv'
  BY <1>0, <1>3 DEF EditRepo, IntakeTypes, DocsTell
<1>4. CASE UNCHANGED importVars
  BY <1>0, <1>4 DEF importVars, IntakeTypes, DocsTell
<1> QED
  BY <1>1, <1>2, <1>3, <1>4 DEF Importing

(* The stories whose write sets are those they were taken with.            *)
Fixed == DOMAIN Taken \ widened

(* The hot paths hold what any two of them share, whenever they were       *)
(* detected; a story that is enriched looks at them, so that a path of its *)
(* new write set that two of them name keeps it out of the parallel class, *)
(* be it one of the two or not.                                            *)
StoryInv ==
  /\ story \in [DOMAIN Taken -> StoryRecord] /\ enriched \subseteq DOMAIN Taken
  /\ \A s \in Fixed : story[s].writes = Taken[s].writes
  /\ hot # Unknown =>
       \A t, u \in Fixed : t # u => Taken[t].writes \cap Taken[u].writes \subseteq hot
  /\ \A s \in enriched, t, u \in Fixed :
       t # u /\ story[s].writes \cap Taken[t].writes \cap Taken[u].writes # {} =>
         story[s].class # "parallel_safe"

(* A path that two stories name is a hot one.                              *)
LEMMA SharedIsHot ==
  ASSUME StoryInv, NEW s \in Fixed, NEW t \in Fixed, s # t,
         NEW f \in Taken[s].writes \cap Taken[t].writes
  PROVE  f \in HotFiles
<1> DEFINE W == {u \in DOMAIN story : f \in story[u].writes}
<1>1. f \in Paths
  BY BrownfieldAssumption DEF Fixed, StoryRecord
<1>2. DOMAIN story = DOMAIN Taken /\ s \in W /\ t \in W
  BY DEF StoryInv, Fixed
<1>3. IsFiniteSet(W) /\ Cardinality(W) \in Nat
  BY <1>2, BrownfieldAssumption, FS_Subset, FS_CardinalityType
<1>4. Cardinality({s, t}) = 2 /\ {s, t} \subseteq W
  <2>1. IsFiniteSet({s}) /\ Cardinality({s}) = 1
    BY FS_Singleton
  <2>2. {s} \cup {t} = {s, t} /\ t \notin {s}
    OBVIOUS
  <2>3. Cardinality({s} \cup {t}) = 2
    BY <2>1, <2>2, FS_AddElement
  <2> QED
    BY <1>2, <2>2, <2>3
<1>5. Cardinality(W) >= 2
  BY <1>3, <1>4, FS_Subset
<1> QED
  BY <1>1, <1>5 DEF HotFiles

LEMMA StoryKept == StoryInv /\ (Preparing \/ UNCHANGED storyVars) => StoryInv'
<1> SUFFICES ASSUME StoryInv, Preparing \/ UNCHANGED storyVars PROVE StoryInv'
  OBVIOUS
<1>1. CASE DetectHotFiles
  <2>1. hot' = HotFiles /\ UNCHANGED <<story, enriched, widened>>
    BY <1>1 DEF DetectHotFiles
  <2>2. \A s, t \in Fixed : s # t => Taken[s].writes \cap Taken[t].writes \subseteq HotFiles
    BY SharedIsHot
  <2> QED
    BY <2>1, <2>2 DEF StoryInv, Fixed
<1>2. ASSUME NEW s \in DOMAIN story, CheckBundle(s)
      PROVE  StoryInv'
  BY <1>2 DEF CheckBundle, StoryInv, Fixed
<1>3. ASSUME NEW s \in DOMAIN story, NEW impacted \in {Unknown} \cup SUBSET Sources,
             Enrich(s, impacted)
      PROVE  StoryInv'
  <2> DEFINE writes == IF impacted = Unknown THEN story[s].writes ELSE impacted
             class == IF story[s].api THEN "exclusive" ELSE story[s].class
             guarded == IF writes \cap hot # {} /\ class # "exclusive" THEN "sequential" ELSE class
  <2>1. /\ s \in DOMAIN Taken /\ story[s] \in StoryRecord /\ hot # Unknown
        /\ enriched' = enriched \cup {s} /\ UNCHANGED hot
        /\ widened' = IF writes = story[s].writes THEN widened ELSE widened \cup {s}
        /\ story' = [story EXCEPT ![s].writes = writes, ![s].class = guarded]
    BY <1>3 DEF Enrich, StoryInv
  <2>2. /\ writes \in SUBSET Paths
        /\ guarded \in {"parallel_safe", "parallel_with_barrier", "sequential", "exclusive"}
        /\ writes \cap hot # {} => guarded # "parallel_safe"
    BY <2>1 DEF StoryRecord, Paths
  <2> HIDE DEF writes, guarded
  <2>3. /\ story' \in [DOMAIN Taken -> StoryRecord]
        /\ story'[s].writes = writes /\ story'[s].class = guarded
        /\ \A t \in DOMAIN Taken \ {s} : story'[t] = story[t]
    BY <2>1, <2>2 DEF StoryInv, StoryRecord
  <2>4. Fixed' \subseteq Fixed /\ (s \in Fixed' => writes = story[s].writes)
    BY <2>1 DEF Fixed
  <2>5. \A t \in Fixed' : story'[t].writes = Taken[t].writes
    BY <2>1, <2>3, <2>4 DEF StoryInv, Fixed
  <2>6. ASSUME NEW v \in enriched', NEW t \in Fixed', NEW u \in Fixed', t # u,
               story'[v].writes \cap Taken[t].writes \cap Taken[u].writes # {}
        PROVE  story'[v].class # "parallel_safe"
    <3>1. CASE v = s
      <4>1. Taken[t].writes \cap Taken[u].writes \subseteq hot
        BY <2>1, <2>4, <2>6 DEF StoryInv
      <4>2. writes \cap hot # {}
        BY <2>3, <2>6, <3>1, <4>1
      <4> QED
        BY <2>2, <2>3, <3>1, <4>2
    <3>2. CASE v # s
      <4>1. v \in enriched /\ story'[v] = story[v] /\ t \in Fixed /\ u \in Fixed
        BY <2>1, <2>3, <2>4, <3>2 DEF StoryInv
      <4> QED
        BY <2>6, <4>1 DEF StoryInv
    <3> QED
      BY <3>1, <3>2
  <2> QED
    BY <2>1, <2>3, <2>4, <2>5, <2>6 DEF StoryInv
<1>4. CASE UNCHANGED storyVars
  BY <1>4 DEF storyVars, StoryInv, Fixed
<1> QED
  BY <1>1, <1>2, <1>3, <1>4 DEF Preparing

(* What worked is in the baseline, which nothing replaces.                 *)
TestInv ==
  /\ good \subseteq Tests \ Flaky /\ good \subseteq baseline.passing
  /\ works \in [Tests -> {"works", "broken", "gone"}]
  /\ \A t \in good : works[t] # "broken"

(* A run of the tests tells the sound ones that work from those that do    *)
(* not.                                                                    *)
LEMMA ResultsTell ==
  ASSUME NEW w \in [Tests -> {"works", "broken", "gone"}], NEW post \in Results(w),
         NEW t \in Tests \ Flaky
  PROVE  /\ w[t] = "works" => t \in post.passing
         /\ w[t] = "broken" => t \in post.failing
<1>1. PICK P \in {Q \in SUBSET {u \in Tests : w[u] # "gone"} :
                    \A u \in Tests \ Flaky : u \in Q <=> w[u] = "works"} :
        post = [passing |-> P, failing |-> {u \in Tests : w[u] # "gone"} \ P]
  BY DEF Results
<1> QED
  BY <1>1

LEMMA TestKept == TestInv /\ (Judging \/ UNCHANGED testVars) => TestInv'
<1> SUFFICES ASSUME TestInv, Judging \/ UNCHANGED testVars PROVE TestInv'
  OBVIOUS
<1>1. CASE CaptureBaseline
  <2>1. /\ baseline' \in Results(works) /\ works' = works
        /\ good' = {t \in Tests \ Flaky : works[t] = "works"}
    BY <1>1 DEF CaptureBaseline
  <2>2. good' \subseteq baseline'.passing
    BY <2>1, ResultsTell DEF TestInv
  <2> QED
    BY <2>1, <2>2 DEF TestInv
<1>2. ASSUME NEW after \in [Tests -> {"works", "broken", "gone"}], NEW post \in Results(after),
             JudgeChange(after, post)
      PROVE  TestInv'
  <2>1. UNCHANGED <<baseline, good>>
    BY <1>2 DEF JudgeChange
  <2>2. CASE NewFailures(post) = {}
    <3>1. works' = after
      BY <1>2, <2>2 DEF JudgeChange
    <3>2. ASSUME NEW t \in good PROVE after[t] # "broken"
      BY <2>2, ResultsTell DEF NewFailures, TestInv
    <3> QED
      BY <2>1, <3>1, <3>2 DEF TestInv
  <2>3. CASE NewFailures(post) # {}
    BY <1>2, <2>1, <2>3 DEF JudgeChange, TestInv
  <2> QED
    BY <2>2, <2>3
<1>3. CASE UNCHANGED testVars
  BY <1>3 DEF testVars, TestInv
<1> QED
  BY <1>1, <1>2, <1>3 DEF Judging

TakeoverInv == ImportInv /\ StoryInv /\ TestInv

LEMMA TakeoverInitially == TakeoverInit => TakeoverInv
<1> SUFFICES ASSUME TakeoverInit PROVE TakeoverInv
  OBVIOUS
<1>1. ImportInv
  BY DEF TakeoverInit, ImportInv, IntakeTypes, DocsTell, Undocumented, Documents, Scans, Outputs
<1>2. StoryInv
  BY BrownfieldAssumption DEF TakeoverInit, StoryInv, Fixed
<1>3. TestInv
  BY DEF TakeoverInit, TestInv
<1> QED
  BY <1>1, <1>2, <1>3 DEF TakeoverInv

LEMMA TakeoverInductive == TakeoverSpec => []TakeoverInv
<1>1. TakeoverInv /\ [TakeoverNext]_takeoverVars => TakeoverInv'
  <2> SUFFICES ASSUME TakeoverInv, [TakeoverNext]_takeoverVars PROVE TakeoverInv'
    OBVIOUS
  <2>1. Importing => UNCHANGED <<storyVars, testVars>>
    BY DEF Importing, BeginImport, WriteDocs, ImportFails, ImportCut, EditRepo, storyVars, testVars
  <2>2. Preparing => UNCHANGED <<importVars, testVars>>
    BY DEF Preparing, DetectHotFiles, CheckBundle, Enrich, importVars, testVars
  <2>3. Judging => UNCHANGED <<importVars, storyVars>>
    BY DEF Judging, CaptureBaseline, JudgeChange, importVars, storyVars
  <2>4. UNCHANGED takeoverVars => UNCHANGED <<importVars, storyVars, testVars>>
    BY DEF takeoverVars, importVars, storyVars, testVars
  <2> QED
    BY <2>1, <2>2, <2>3, <2>4, ImportKept, StoryKept, TestKept DEF TakeoverInv, TakeoverNext
<1> QED
  BY <1>1, TakeoverInitially, PTL DEF TakeoverSpec

(* However imports overlap, fail and are cut, and however the repository   *)
(* is edited meanwhile, the documents of an output tell of one scan.       *)
THEOREM Documented == TakeoverSpec => []IntakeDocumented
<1>1. TakeoverInv => IntakeDocumented
  <2> SUFFICES ASSUME ImportInv PROVE IntakeDocumented
    BY DEF TakeoverInv
  <2>1. \A i \in Importers : intake[i].step = "returned" => intake[i].place \in Outputs
    BY DEF ImportInv, IntakeTypes
  <2> QED
    BY <2>1 DEF ImportInv, DocsTell, IntakeDocumented, ValidIntake, Outputs
<1> QED
  BY <1>1, TakeoverInductive, PTL

(* However stories are checked, enriched and detected again in any order,  *)
(* a path that two of them have named from the start keeps any enriched    *)
(* one that names it out of the parallel class.                            *)
THEOREM SharedGuarded == TakeoverSpec => []SharedPathsGuarded
<1>1. TakeoverInv => SharedPathsGuarded
  <2> SUFFICES ASSUME StoryInv PROVE SharedPathsGuarded
    BY DEF TakeoverInv
  <2>1. DOMAIN story \ widened = Fixed
    BY DEF StoryInv, Fixed
  <2>2. \A t \in Fixed : story[t].writes = Taken[t].writes
    BY DEF StoryInv
  <2> QED
    BY <2>1, <2>2 DEF StoryInv, SharedPathsGuarded
<1> QED
  BY <1>1, TakeoverInductive, PTL

(* No series of changes that were accepted breaks what worked when the     *)
(* baseline was captured, for any tests and any of them flaky.             *)
THEOREM KeepsWorking == TakeoverSpec => []WorkingStaysWorking
<1>1. TakeoverInv => WorkingStaysWorking
  BY DEF TakeoverInv, TestInv, WorkingStaysWorking
<1> QED
  BY <1>1, TakeoverInductive, PTL

-----------------------------------------------------------------------------
(* The export and its record, for any number of stories.                   *)

DriverSteps ==
  {"off", "build", "checkpoint", "review", "promote", "copied", "cleanup", "ended", "dead"}
OperatorSteps == {"idle", "prompt", "copied", "removed-driver", "removed-operator"}

(* The driver is at work: it holds a run state and a workspace, and has    *)
(* recorded no promotion yet.                                              *)
Working == pc["driver"] \in {"build", "checkpoint", "review", "promote", "copied"}

PcOK ==
  /\ pc \in [Callers -> DriverSteps \cup OperatorSteps]
  /\ pc["driver"] \in DriverSteps /\ pc["operator"] \in OperatorSteps

StateOK ==
  /\ run \in [Callers -> RunState \cup {None}]
  /\ file \in RunState \cup {None} /\ tmp \in RunState \cup {None, Torn}
  /\ built \subseteq Stories
  /\ ws \in Workspaces \cup {None}
  /\ pc["driver"] = "off" => built = {}
  /\ Working => run["driver"] \in RunState /\ ws \in Workspaces

TargetOK ==
  /\ target \in [Callers -> Targets \cup {None}]
  /\ lost \subseteq Callers

TraceOK == trace \in Seq(Record)

Types == PcOK /\ StateOK /\ TargetOK /\ TraceOK

-----------------------------------------------------------------------------
(* The types.                                                              *)

LEMMA InitParts == Init => Types /\ torn \in BOOLEAN
<1> SUFFICES ASSUME Init PROVE Types /\ torn \in BOOLEAN
  OBVIOUS
<1>1. PcOK
  BY DEF Init, PcOK, DriverSteps, OperatorSteps, Callers
<1>2. StateOK
  BY <1>1 DEF Init, StateOK, Working, Callers, PcOK
<1>3. TargetOK
  BY DEF Init, TargetOK, Targets
<1>4. TraceOK
  BY DEF Init, TraceOK
<1>5. torn \in BOOLEAN
  BY DEF Init
<1>. QED
  BY <1>1, <1>2, <1>3, <1>4, <1>5 DEF Types

(* Where a caller goes on to when its promotion is over.                   *)
LEMMA Leaving ==
  ASSUME NEW c \in Callers, Leave(c)
  PROVE  /\ pc' = [pc EXCEPT ![c] = IF c = "driver" THEN "cleanup" ELSE "idle"]
         /\ run' = (IF c = "driver" THEN run ELSE [run EXCEPT ![c] = None])
BY DEF Leave, Goto

LEMMA StepPc == PcOK /\ [Next]_vars => PcOK'
<1> SUFFICES ASSUME PcOK, [Next]_vars PROVE PcOK'
  OBVIOUS
<1> USE DEF PcOK, DriverSteps, OperatorSteps, Callers, Goto
<1>1. CASE Driving
  BY <1>1 DEF Driving, Start, StoryPasses, StoryFails, Checkpoint, CommitFails, SyncStatuses,
     Approve, ApproveThrows, Cleanup
<1>2. CASE SaveTmp \/ SaveFilled \/ SaveRename
  BY <1>2 DEF SaveTmp, SaveFilled, SaveRename
<1>3. CASE Operating
  <2>1. CASE LoadRun \/ Prompt \/ AnswerThrows \/ RecordOther
    BY <2>1 DEF LoadRun, Prompt, AnswerThrows, RecordOther, Leave
  <2>2. ASSUME NEW o \in {"approved", "denied"}, NEW reason \in BOOLEAN, Answer(o, reason)
        PROVE  PcOK'
    BY <2>2 DEF Answer, Leave
  <2>3. ASSUME NEW t \in Callers, TakeBack(t) \/ TakenBack(t) \/ TakeBackNotRecorded(t)
        PROVE  PcOK'
    BY <2>3 DEF TakeBack, TakenBack, TakeBackNotRecorded, Leave, Rollback
  <2>. QED
    BY <1>3, <2>1, <2>2, <2>3 DEF Operating
<1>4. ASSUME NEW c \in Callers, Promoting(c) PROVE PcOK'
  BY <1>4 DEF Promoting, CopyOut, CopyFails, PromoteRejected, CopyRecorded, CopyNotRecorded, Leave
<1>5. ASSUME NEW c \in Callers, Die(c) PROVE PcOK'
  BY <1>5 DEF Die
<1>6. CASE UNCHANGED vars
  BY <1>6 DEF vars
<1>. QED
  BY <1>1, <1>2, <1>3, <1>4, <1>5, <1>6 DEF Next

LEMMA RunStates ==
  /\ FreshRun \in RunState
  /\ \A f : f \in RunState \cup {None} => Loaded(f) \in RunState
  /\ \A content \in SUBSET Stories : Commit(content) \in Sha
  /\ Stub \in Sha
<1>1. FreshRun \in RunState
  BY DEF FreshRun, RunState, Sha, NoSha
<1>. QED
  BY <1>1 DEF Loaded, Sha, Commit, Stub

LEMMA StepState == PcOK /\ StateOK /\ [Next]_vars => StateOK'
<1> SUFFICES ASSUME PcOK, StateOK, [Next]_vars PROVE StateOK'
  OBVIOUS
<1> USE DEF StateOK, Working, Goto
<1>0. /\ "driver" \in Callers /\ "operator" \in Callers
      /\ pc \in [Callers -> DriverSteps \cup OperatorSteps]
  BY DEF Callers, PcOK
<1>1. CASE Start
  BY <1>0, <1>1, RunStates DEF Start, Workspaces
<1>2. ASSUME NEW s \in Stories, StoryPasses(s) \/ StoryFails(s) PROVE StateOK'
  BY <1>0, <1>2 DEF StoryPasses, StoryFails, Workspaces
<1>3. CASE Checkpoint \/ CommitFails
  <2>1. PICK sha \in Sha : SetSha(sha)
    BY <1>3, RunStates DEF Checkpoint, CommitFails, Workspaces
  <2>2. run' \in [Callers -> RunState \cup {None}] /\ run'["driver"] \in RunState
    <3> DEFINE r == run["driver"]
               Signed == [s \in Stories |-> IF s \in built /\ r[s].sha = NoSha
                                            THEN [r[s] EXCEPT !.sha = sha] ELSE r[s]]
    <3>1. r \in RunState
      BY <1>3 DEF Checkpoint, CommitFails
    <3>2. \A s \in Stories : r[s] \in [done : BOOLEAN, sha : Sha]
      BY <3>1 DEF RunState
    <3>3. \A s \in Stories : [r[s] EXCEPT !.sha = sha] \in [done : BOOLEAN, sha : Sha]
      BY <3>2
    <3>4. Signed \in RunState
      BY <3>2, <3>3 DEF RunState
    <3>5. run' = [run EXCEPT !["driver"] = Signed]
      BY <1>0, <2>1 DEF SetSha
    <3>. QED
      BY <1>0, <3>4, <3>5
  <2>. QED
    BY <1>0, <1>3, <2>2 DEF Checkpoint, CommitFails, Workspaces
<1>4. CASE SyncStatuses
  <2>1. run' \in [Callers -> RunState \cup {None}] /\ run'["driver"] \in RunState
    BY <1>0, <1>4 DEF SyncStatuses, RunState
  <2>. QED
    BY <1>0, <1>4, <2>1 DEF SyncStatuses
<1>5. CASE Approve \/ ApproveThrows \/ Cleanup
  BY <1>0, <1>5 DEF Approve, ApproveThrows, Cleanup
<1>6. CASE SaveTmp \/ SaveFilled \/ SaveRename
  BY <1>0, <1>6 DEF SaveTmp, SaveFilled, SaveRename
<1>7. CASE LoadRun
  BY <1>0, <1>7, RunStates DEF LoadRun
<1>8. CASE Operating /\ ~LoadRun
  BY <1>0, <1>8 DEF Operating, Prompt, Answer, AnswerThrows, RecordOther, TakeBack, TakenBack,
     TakeBackNotRecorded, Leave
<1>9. ASSUME NEW c \in Callers, CopyOut(c) PROVE StateOK'
  BY <1>0, <1>9 DEF CopyOut, MayPromote, Callers
<1>10. ASSUME NEW c \in Callers, CopyFails(c) \/ PromoteRejected(c) PROVE StateOK'
  <2>1. /\ pc' = [pc EXCEPT ![c] = IF c = "driver" THEN "cleanup" ELSE "idle"]
        /\ run' = (IF c = "driver" THEN run ELSE [run EXCEPT ![c] = None])
        /\ UNCHANGED <<file, tmp, built, ws>>
    BY <1>10, Leaving DEF CopyFails, PromoteRejected
  <2>. QED
    BY <1>0, <2>1
<1>11. ASSUME NEW c \in Callers, CopyRecorded(c) \/ CopyNotRecorded(c) PROVE StateOK'
  <2>1. /\ pc' = [pc EXCEPT ![c] = IF c = "driver" THEN "cleanup" ELSE "idle"]
        /\ run' = (IF c = "driver" THEN run ELSE [run EXCEPT ![c] = None])
        /\ UNCHANGED <<file, tmp, built, ws>>
    BY <1>11, Leaving DEF CopyRecorded, CopyNotRecorded
  <2>. QED
    BY <1>0, <2>1
<1>12. ASSUME NEW c \in Callers, Die(c) PROVE StateOK'
  <2>1. /\ pc' = [pc EXCEPT ![c] = IF c = "driver" THEN "dead" ELSE "idle"]
        /\ run' = [run EXCEPT ![c] = None]
        /\ UNCHANGED <<file, tmp, built, ws>>
    BY <1>12 DEF Die
  <2>2. run' \in [Callers -> RunState \cup {None}]
    BY <2>1
  <2>3. CASE c = "driver"
    BY <1>0, <2>1, <2>2, <2>3
  <2>4. CASE c # "driver"
    <3>1. pc'["driver"] = pc["driver"] /\ run'["driver"] = run["driver"]
      BY <1>0, <2>1, <2>4
    <3>. QED
      BY <2>1, <2>2, <3>1
  <2>. QED
    BY <2>3, <2>4
<1>13. CASE UNCHANGED vars
  BY <1>13 DEF vars
<1> HIDE DEF StateOK, Working, Goto
<1>. QED
  BY <1>0, <1>1, <1>2, <1>3, <1>4, <1>5, <1>6, <1>7, <1>8, <1>9, <1>10, <1>11, <1>12, <1>13
     DEF Next, Driving, Promoting

LEMMA StepTarget == Types /\ [Next]_vars => TargetOK'
<1> SUFFICES ASSUME PcOK, StateOK, TargetOK, [Next]_vars PROVE TargetOK'
  BY DEF Types
<1> USE DEF TargetOK
<1>1. CASE Driving
  BY <1>1 DEF Driving, Start, StoryPasses, StoryFails, Checkpoint, CommitFails, SyncStatuses,
     Approve, ApproveThrows, Cleanup
<1>2. CASE SaveTmp \/ SaveFilled \/ SaveRename
  BY <1>2 DEF SaveTmp, SaveFilled, SaveRename
<1>3. CASE Operating
  BY <1>3 DEF Operating, LoadRun, Prompt, Answer, AnswerThrows, RecordOther, TakeBack, TakenBack,
     TakeBackNotRecorded
<1>4. ASSUME NEW c \in Callers, CopyOut(c) \/ CopyFails(c) PROVE TargetOK'
  <2>1. ws \in Workspaces
    BY <1>4 DEF StateOK, CopyOut, CopyFails
  <2>2. \E part \in SUBSET ws.tree : target' = [target EXCEPT ![c] = Content(c) \cup part]
    BY <1>4 DEF CopyOut, CopyFails
  <2>3. Content(c) \in Targets
    BY DEF Content, Targets
  <2>4. \A part \in SUBSET ws.tree : Content(c) \cup part \in Targets
    BY <2>1, <2>3 DEF Workspaces, Targets
  <2>5. target' \in [Callers -> Targets \cup {None}]
    BY <2>2, <2>4
  <2>6. lost' \subseteq Callers
    BY <1>4 DEF CopyOut, CopyFails
  <2>. QED
    BY <2>5, <2>6
<1>5. ASSUME NEW c \in Callers, Promoting(c), ~CopyOut(c), ~CopyFails(c) PROVE TargetOK'
  BY <1>5 DEF Promoting, PromoteRejected, CopyRecorded, CopyNotRecorded
<1>6. ASSUME NEW c \in Callers, Die(c) PROVE TargetOK'
  BY <1>6 DEF Die, Unrecorded
<1>7. CASE UNCHANGED vars
  BY <1>7 DEF vars
<1> HIDE DEF TargetOK
<1>. QED
  BY <1>1, <1>2, <1>3, <1>4, <1>5, <1>6, <1>7 DEF Next, Callers

(* What a step does to the trace: a decision, a promotion of what is at    *)
(* the target, a rollback, or something else is recorded, or nothing is.   *)
Decisions == [type : {"human_review"}, outcome : {"approved", "denied"}]
RollbackOf(i) == [trace[i] EXCEPT !.type = "promotion_rollback", !.held = {}]

LEMMA Recordings ==
  ASSUME [Next]_vars
  PROVE  \/ UNCHANGED trace
         \/ \E r \in Decisions \cup {[type |-> "other"]} : trace' = Append(trace, r)
         \/ \E c \in Callers : CopyRecorded(c) /\ trace' = Append(trace, PromotionOf(c))
         \/ \E t \in Callers : TakenBack(t) /\ \E i \in Promotions(t) :
              trace' = Append(trace, RollbackOf(i))
<1> USE DEF Recorded, RecordThrows
<1>1. CASE Driving
  BY <1>1 DEF Driving, Start, StoryPasses, StoryFails, Checkpoint, CommitFails, SyncStatuses,
     Approve, ApproveThrows, Cleanup, Decisions
<1>2. CASE SaveTmp \/ SaveFilled \/ SaveRename
  BY <1>2 DEF SaveTmp, SaveFilled, SaveRename
<1>3. ASSUME NEW verdict \in {"approved", "denied"}, NEW reason \in BOOLEAN, Answer(verdict, reason)
      PROVE  \E r \in Decisions \cup {[type |-> "other"]} : trace' = Append(trace, r)
  BY <1>3 DEF Answer, Decisions
<1>4. ASSUME NEW t \in Callers, TakenBack(t)
      PROVE  \E i \in Promotions(t) : trace' = Append(trace, RollbackOf(i))
  BY <1>4 DEF TakenBack, RollbackOf
<1>5. CASE Operating
  BY <1>3, <1>4, <1>5 DEF Operating, LoadRun, Prompt, AnswerThrows, RecordOther, TakeBack,
     TakeBackNotRecorded
<1>6. ASSUME NEW c \in Callers, Promoting(c)
      PROVE  UNCHANGED trace \/ (CopyRecorded(c) /\ trace' = Append(trace, PromotionOf(c)))
  BY <1>6 DEF Promoting, CopyOut, CopyFails, PromoteRejected, CopyRecorded, CopyNotRecorded
<1>7. (\E c \in Callers : Die(c)) \/ UNCHANGED vars => UNCHANGED trace
  BY DEF Die, vars
<1>. QED
  BY <1>1, <1>2, <1>5, <1>6, <1>7 DEF Next, Callers

LEMMA PromotionRecords ==
  ASSUME TraceOK, TargetOK
  PROVE  /\ \A c \in Callers : PromotionOf(c) \in Record
         /\ \A t \in Callers : \A i \in Promotions(t) :
              /\ RollbackOf(i) \in Record
              /\ RollbackOf(i).type = "promotion_rollback" /\ RollbackOf(i).of = t
<1>1. ASSUME NEW c \in Callers PROVE PromotionOf(c) \in Record
  BY DEF PromotionOf, Content, Record, TargetOK, Targets
<1>2. ASSUME NEW t \in Callers, NEW i \in Promotions(t)
      PROVE  /\ RollbackOf(i) \in Record
             /\ RollbackOf(i).type = "promotion_rollback" /\ RollbackOf(i).of = t
  <2>1. trace[i] \in Record /\ trace[i].type = "promotion" /\ trace[i].of = t
    BY <1>2 DEF Promotions, TraceOK
  <2>2. trace[i] \in [type : {"promotion", "promotion_rollback"}, of : Callers,
                      held : SUBSET (Stories \cup {Foreign})]
    BY <2>1 DEF Record
  <2>. QED
    BY <2>1, <2>2 DEF RollbackOf, Record
<1>. QED
  BY <1>1, <1>2

LEMMA StepTrace == Types /\ [Next]_vars => TraceOK'
<1> SUFFICES ASSUME TraceOK, TargetOK, [Next]_vars PROVE TraceOK'
  BY DEF Types
<1>1. \A r \in Record : Append(trace, r) \in Seq(Record)
  BY DEF TraceOK
<1>2. Decisions \cup {[type |-> "other"]} \subseteq Record
  BY DEF Decisions, Record
<1>3. UNCHANGED trace \/ \E r \in Record : trace' = Append(trace, r)
  BY <1>2, Recordings, PromotionRecords
<1>. QED
  BY <1>1, <1>3 DEF TraceOK

LEMMA StepTypes == Types /\ [Next]_vars => Types'
BY StepPc, StepState, StepTarget, StepTrace DEF Types

LEMMA StepTorn == torn \in BOOLEAN /\ [Next]_vars => (torn \in BOOLEAN)'
<1> SUFFICES ASSUME torn \in BOOLEAN, [Next]_vars PROVE torn' \in {torn, TRUE}
  OBVIOUS
<1> USE DEF Recorded, RecordThrows
<1>1. CASE Driving
  BY <1>1 DEF Driving, Start, StoryPasses, StoryFails, Checkpoint, CommitFails, SyncStatuses,
     Approve, ApproveThrows, Cleanup
<1>2. CASE SaveTmp \/ SaveFilled \/ SaveRename
  BY <1>2 DEF SaveTmp, SaveFilled, SaveRename
<1>3. CASE Operating
  BY <1>3 DEF Operating, LoadRun, Prompt, Answer, AnswerThrows, RecordOther, TakeBack, TakenBack,
     TakeBackNotRecorded
<1>4. ASSUME NEW c \in Callers, Promoting(c) PROVE torn' \in {torn, TRUE}
  BY <1>4 DEF Promoting, CopyOut, CopyFails, PromoteRejected, CopyRecorded, CopyNotRecorded
<1>5. ASSUME NEW c \in Callers, Die(c) PROVE torn' \in {torn, TRUE}
  BY <1>5 DEF Die
<1>6. CASE UNCHANGED vars
  BY <1>6 DEF vars
<1>. QED
  BY <1>1, <1>2, <1>3, <1>4, <1>5, <1>6 DEF Next, Callers

(* The saved run state is never half written.                              *)
THEOREM TypeCorrect == Spec => []TypeOK
<1>1. ASSUME Types, torn \in BOOLEAN PROVE TypeOK
  <2>1. \A i \in DOMAIN trace : trace[i] \in Record
    BY <1>1 DEF Types, TraceOK
  <2>2. pc["operator"] \in {"idle", "prompt", "copied"} \cup {Rollback(t) : t \in Callers}
    BY <1>1 DEF Types, PcOK, OperatorSteps, Rollback, Callers
  <2>. QED
    BY <1>1, <2>1, <2>2 DEF Types, TypeOK, PcOK, StateOK, TargetOK, DriverSteps, Workspaces, Targets
<1>. QED
  BY <1>1, InitParts, StepTypes, StepTorn, PTL DEF Spec

-----------------------------------------------------------------------------
(* What is built.                                                          *)

(* A story that any copy of the run state calls done has been built, and   *)
(* what is built is in the working tree while there is one.                *)
DoneIsBuilt(r) == r \notin {None, Torn} => \A s \in Stories : r[s].done => s \in built

BuiltInv ==
  /\ DoneIsBuilt(file) /\ DoneIsBuilt(tmp) /\ \A c \in Callers : DoneIsBuilt(run[c])
  /\ ws # None => built \subseteq ws.tree

(* A step changes the copies of the run state in one of four ways.         *)
LEMMA Copies ==
  ASSUME Types, [Next]_vars,
         NEW r \in {file', tmp'} \cup {run'[c] : c \in Callers}
  PROVE  \/ r \in {file, tmp, None, Torn} \cup {run[c] : c \in Callers}
         \/ r = FreshRun
         \/ SyncStatuses
         \/ \E sha \in Sha : SetSha(sha) /\ (r = run'["driver"]) /\ Working
<1> USE DEF Goto, Types, StateOK, Callers
<1>1. CASE Start
  BY <1>1 DEF Start, Loaded
<1>2. ASSUME NEW s \in Stories, StoryPasses(s) \/ StoryFails(s)
      PROVE  r \in {file, tmp} \cup {run[c] : c \in Callers}
  BY <1>2 DEF StoryPasses, StoryFails
<1>3. CASE Checkpoint \/ CommitFails
  <2>1. PICK sha \in Sha : SetSha(sha)
    BY <1>3, RunStates DEF Checkpoint, CommitFails, Workspaces, Working
  <2>2. Working /\ UNCHANGED <<file, tmp>>
    BY <1>3 DEF Checkpoint, CommitFails, Working
  <2>3. run'["operator"] = run["operator"]
    BY <2>1 DEF SetSha
  <2>. QED
    BY <2>1, <2>2, <2>3
<1>4. CASE Approve \/ ApproveThrows \/ Cleanup
  BY <1>4 DEF Approve, ApproveThrows, Cleanup
<1>5. CASE SaveTmp \/ SaveFilled \/ SaveRename
  BY <1>5 DEF SaveTmp, SaveFilled, SaveRename
<1>6. CASE LoadRun
  BY <1>6 DEF LoadRun, Loaded
<1>7. CASE Operating /\ ~LoadRun
  BY <1>7 DEF Operating, Prompt, Answer, AnswerThrows, RecordOther, TakeBack, TakenBack,
     TakeBackNotRecorded, Leave
<1>8. ASSUME NEW c \in Callers, Promoting(c)
      PROVE  r \in {file, tmp, None} \cup {run[d] : d \in Callers}
  BY <1>8 DEF Promoting, CopyOut, CopyFails, PromoteRejected, CopyRecorded, CopyNotRecorded, Leave
<1>9. ASSUME NEW c \in Callers, Die(c)
      PROVE  r \in {file, tmp, None} \cup {run[d] : d \in Callers}
  BY <1>9 DEF Die
<1>10. CASE UNCHANGED vars
  BY <1>10 DEF vars
<1> HIDE DEF StateOK, Types
<1>. QED
  BY <1>1, <1>2, <1>3, <1>4, <1>5, <1>6, <1>7, <1>8, <1>9, <1>10 DEF Next, Driving

(* The working tree holds no less than what is built.                      *)
LEMMA StepTree == Types /\ BuiltInv /\ [Next]_vars =>
  built \subseteq built' /\ (ws' # None => built' \subseteq ws'.tree)
<1> SUFFICES ASSUME StateOK, ws # None => built \subseteq ws.tree, [Next]_vars
             PROVE  built \subseteq built' /\ (ws' # None => built' \subseteq ws'.tree)
  BY DEF Types, BuiltInv
<1>1. CASE Start
  BY <1>1 DEF Start, StateOK
<1>2. ASSUME NEW s \in Stories, StoryPasses(s) \/ StoryFails(s)
      PROVE  built \subseteq built' /\ (ws' # None => built' \subseteq ws'.tree)
  <2>1. ws \in Workspaces /\ built \subseteq ws.tree
    BY <1>2, NamesAssumption DEF StoryPasses, StoryFails, StateOK, Working
  <2>. QED
    BY <1>2, <2>1 DEF StoryPasses, StoryFails, Workspaces
<1>3. CASE Checkpoint \/ CommitFails
  <2>1. ws \in Workspaces /\ built \subseteq ws.tree
    BY <1>3, NamesAssumption DEF Checkpoint, CommitFails, StateOK, Working
  <2>. QED
    BY <1>3, <2>1 DEF Checkpoint, CommitFails, Workspaces
<1>4. CASE Driving /\ ~Start /\ ~Checkpoint /\ ~CommitFails
           /\ \A s \in Stories : ~StoryPasses(s) /\ ~StoryFails(s)
  BY <1>4 DEF Driving, SyncStatuses, Approve, ApproveThrows, Cleanup
<1>5. CASE SaveTmp \/ SaveFilled \/ SaveRename
  BY <1>5 DEF SaveTmp, SaveFilled, SaveRename
<1>6. CASE Operating
  BY <1>6 DEF Operating, LoadRun, Prompt, Answer, AnswerThrows, RecordOther, TakeBack, TakenBack,
     TakeBackNotRecorded
<1>7. ASSUME NEW c \in Callers, Promoting(c)
      PROVE  built \subseteq built' /\ (ws' # None => built' \subseteq ws'.tree)
  BY <1>7 DEF Promoting, CopyOut, CopyFails, PromoteRejected, CopyRecorded, CopyNotRecorded
<1>8. ASSUME NEW c \in Callers, Die(c)
      PROVE  built \subseteq built' /\ (ws' # None => built' \subseteq ws'.tree)
  BY <1>8 DEF Die
<1>9. CASE UNCHANGED vars
  BY <1>9 DEF vars
<1>. QED
  BY <1>1, <1>2, <1>3, <1>4, <1>5, <1>6, <1>7, <1>8, <1>9 DEF Next, Callers

LEMMA StepBuilt == Types /\ BuiltInv /\ [Next]_vars => BuiltInv'
<1> SUFFICES ASSUME Types, BuiltInv, [Next]_vars,
                    NEW r \in {file', tmp'} \cup {run'[c] : c \in Callers}
             PROVE  r \notin {None, Torn} => \A s \in Stories : r[s].done => s \in built'
  BY StepTree DEF BuiltInv, DoneIsBuilt
<1>1. CASE r \in {file, tmp, None, Torn} \cup {run[c] : c \in Callers}
  BY <1>1, StepTree DEF BuiltInv, DoneIsBuilt
<1>2. CASE r = FreshRun
  BY <1>2 DEF FreshRun
<1>3. CASE SyncStatuses
  BY <1>3 DEF SyncStatuses, Types, StateOK
<1>4. ASSUME NEW sha \in Sha, SetSha(sha), r = run'["driver"], Working
      PROVE  \A s \in Stories : r[s].done => s \in built'
  <2> SUFFICES ASSUME NEW s \in Stories, r[s].done PROVE s \in built'
    OBVIOUS
  <2> DEFINE q == run["driver"]
  <2>1. q \in RunState
    BY <1>4 DEF Types, StateOK
  <2>2. q[s] \in [done : BOOLEAN, sha : Sha]
    BY <2>1 DEF RunState
  <2>3. r[s] = IF s \in built /\ q[s].sha = NoSha THEN [q[s] EXCEPT !.sha = sha] ELSE q[s]
    BY <1>4 DEF SetSha, Types, StateOK, Callers
  <2>4. q[s].done
    BY <2>2, <2>3
  <2>5. s \in built \/ q = None \/ q = Torn
    BY <2>4 DEF BuiltInv, DoneIsBuilt, Callers
  <2>6. s \in built
    BY <2>1, <2>5, NamesAssumption
  <2>. QED
    BY <2>6, StepTree
<1>. QED
  BY <1>1, <1>2, <1>3, <1>4, Copies

-----------------------------------------------------------------------------
(* What the targets hold and what is on record.                            *)

ExportInv ==
  /\ \A c \in Callers : pc[c] = "copied" => target[c] # None /\ Stories \subseteq target[c]
  /\ pc["driver"] \notin {"cleanup", "ended", "dead"} => Promotions("driver") = {}
  /\ \A t \in Callers : pc["operator"] = Rollback(t) => target[t] = None /\ Promotions(t) # {}
  /\ ExportComplete

LEMMA TargetMoves ==
  ASSUME Types, [Next]_vars, NEW c \in Callers
  PROVE  target'[c] = target[c] \/ CopyOut(c) \/ CopyFails(c) \/ TakeBack(c)
<1>0. target \in [Callers -> Targets \cup {None}]
  BY DEF Types, TargetOK
<1>1. CASE Driving
  BY <1>1 DEF Driving, Start, StoryPasses, StoryFails, Checkpoint, CommitFails, SyncStatuses,
     Approve, ApproveThrows, Cleanup
<1>2. CASE SaveTmp \/ SaveFilled \/ SaveRename
  BY <1>2 DEF SaveTmp, SaveFilled, SaveRename
<1>3. ASSUME NEW t \in Callers, TakeBack(t) \/ TakenBack(t) \/ TakeBackNotRecorded(t)
      PROVE  target'[c] = target[c] \/ TakeBack(c)
  BY <1>0, <1>3 DEF TakeBack, TakenBack, TakeBackNotRecorded
<1>4. CASE Operating
  BY <1>3, <1>4 DEF Operating, LoadRun, Prompt, Answer, AnswerThrows, RecordOther
<1>5. ASSUME NEW d \in Callers, Promoting(d)
      PROVE  target'[c] = target[c] \/ CopyOut(c) \/ CopyFails(c)
  BY <1>0, <1>5 DEF Promoting, CopyOut, CopyFails, PromoteRejected, CopyRecorded, CopyNotRecorded
<1>6. (\E d \in Callers : Die(d)) \/ UNCHANGED vars => target'[c] = target[c]
  BY DEF Die, vars
<1>. QED
  BY <1>1, <1>2, <1>4, <1>5, <1>6 DEF Next, Callers

(* Who is at a step between a change of a target and its record, how it    *)
(* came there and how it leaves.                                           *)
LEMMA Between ==
  ASSUME PcOK, [Next]_vars, NEW t \in Callers
  PROVE  /\ pc'[t] = "copied" => pc[t] = "copied" \/ CopyOut(t)
         /\ pc[t] = "copied" => pc'[t] = "copied" \/ CopyRecorded(t) \/ t \in lost'
         /\ pc'["operator"] = Rollback(t) => pc["operator"] = Rollback(t) \/ TakeBack(t)
         /\ pc["operator"] = Rollback(t) =>
              pc'["operator"] = Rollback(t) \/ TakenBack(t) \/ t \in lost'
         /\ pc'["driver"] \notin {"cleanup", "ended", "dead"} =>
              pc["driver"] \notin {"cleanup", "ended", "dead"}
         /\ t \in lost => t \in lost' \/ CopyRecorded(t) \/ TakenBack(t)
<1> USE DEF Goto, PcOK, Callers, Rollback
<1>1. CASE Driving
  BY <1>1 DEF Driving, Start, StoryPasses, StoryFails, Checkpoint, CommitFails, SyncStatuses,
     Approve, ApproveThrows, Cleanup
<1>2. CASE SaveTmp \/ SaveFilled \/ SaveRename
  BY <1>2 DEF SaveTmp, SaveFilled, SaveRename
<1>3. CASE LoadRun \/ Prompt \/ AnswerThrows \/ RecordOther
           \/ \E verdict \in {"approved", "denied"}, reason \in BOOLEAN : Answer(verdict, reason)
  BY <1>3 DEF LoadRun, Prompt, Answer, AnswerThrows, RecordOther, Leave
<1>4. CASE \E u \in Callers : TakeBack(u) \/ TakenBack(u) \/ TakeBackNotRecorded(u)
  BY <1>4 DEF TakeBack, TakenBack, TakeBackNotRecorded
<1>5. ASSUME NEW d \in Callers, CopyOut(d) PROVE
         /\ pc'[t] = "copied" => pc[t] = "copied" \/ CopyOut(t)
         /\ pc[t] = "copied" => pc'[t] = "copied"
         /\ pc'["operator"] = Rollback(t) => pc["operator"] = Rollback(t)
         /\ pc["operator"] = Rollback(t) => pc'["operator"] = Rollback(t)
         /\ pc'["driver"] \notin {"cleanup", "ended", "dead"} =>
              pc["driver"] \notin {"cleanup", "ended", "dead"}
         /\ t \in lost => t \in lost'
  BY <1>5 DEF CopyOut, MayPromote
<1>6. ASSUME NEW d \in Callers, Promoting(d), ~CopyOut(d) PROVE
         /\ pc'[t] = "copied" => pc[t] = "copied"
         /\ pc[t] = "copied" => pc'[t] = "copied" \/ CopyRecorded(t) \/ t \in lost'
         /\ pc'["operator"] = Rollback(t) => pc["operator"] = Rollback(t)
         /\ pc["operator"] = Rollback(t) => pc'["operator"] = Rollback(t)
         /\ pc'["driver"] \notin {"cleanup", "ended", "dead"} =>
              pc["driver"] \notin {"cleanup", "ended", "dead"}
         /\ t \in lost => t \in lost' \/ CopyRecorded(t)
  BY <1>6 DEF Promoting, CopyFails, PromoteRejected, CopyRecorded, CopyNotRecorded, Leave, MayPromote
<1>7. ASSUME NEW d \in Callers, Die(d) PROVE
         /\ pc'[t] = "copied" => pc[t] = "copied"
         /\ pc[t] = "copied" => pc'[t] = "copied" \/ t \in lost'
         /\ pc'["operator"] = Rollback(t) => pc["operator"] = Rollback(t)
         /\ pc["operator"] = Rollback(t) => pc'["operator"] = Rollback(t) \/ t \in lost'
         /\ pc'["driver"] \notin {"cleanup", "ended", "dead"} =>
              pc["driver"] \notin {"cleanup", "ended", "dead"}
         /\ t \in lost => t \in lost'
  BY <1>7 DEF Die, Unrecorded
<1>8. CASE UNCHANGED vars
  BY <1>8 DEF vars
<1>. QED
  BY <1>1, <1>2, <1>3, <1>4, <1>5, <1>6, <1>7, <1>8 DEF Next, Operating

About(t) == {i \in DOMAIN trace :
               trace[i].type \in {"promotion", "promotion_rollback"} /\ trace[i].of = t}

(* The trace only grows, and by a record about t only when a promotion to  *)
(* t or its rollback is recorded.                                          *)
LEMMA TraceGrows ==
  ASSUME Types, [Next]_vars, NEW t \in Callers
  PROVE  /\ \A i \in DOMAIN trace : i \in DOMAIN trace' /\ trace'[i] = trace[i]
         /\ \/ /\ ~CopyRecorded(t) /\ ~TakenBack(t)
               /\ About(t)' = About(t) /\ Promotions(t)' = Promotions(t)
            \/ /\ CopyRecorded(t)
               /\ Len(trace) + 1 \in DOMAIN trace'
               /\ trace'[Len(trace) + 1] = PromotionOf(t)
               /\ About(t)' = About(t) \cup {Len(trace) + 1}
            \/ /\ TakenBack(t)
               /\ Len(trace) + 1 \in DOMAIN trace'
               /\ trace'[Len(trace) + 1].type = "promotion_rollback"
               /\ About(t)' = About(t) \cup {Len(trace) + 1}
               /\ Promotions(t)' = Promotions(t)
<1> DEFINE n == Len(trace)
<1>0. trace \in Seq(Record) /\ TraceOK /\ TargetOK
  BY DEF Types, TraceOK
<1>1. ASSUME NEW r, trace' = Append(trace, r)
      PROVE  /\ DOMAIN trace' = DOMAIN trace \cup {n + 1}
             /\ n + 1 \notin DOMAIN trace
             /\ trace'[n + 1] = r /\ \A i \in DOMAIN trace : trace'[i] = trace[i]
  BY <1>0, <1>1
<1> HIDE DEF n
<1>2. ASSUME NEW r, trace' = Append(trace, r),
             r.type \notin {"promotion", "promotion_rollback"} \/ r.of # t
      PROVE  About(t)' = About(t) /\ Promotions(t)' = Promotions(t)
  BY <1>1, <1>2 DEF About, Promotions
<1>3. ASSUME NEW r \in Decisions \cup {[type |-> "other"]}, trace' = Append(trace, r)
      PROVE  About(t)' = About(t) /\ Promotions(t)' = Promotions(t)
  <2>1. r.type \notin {"promotion", "promotion_rollback"}
    BY DEF Decisions
  <2>. QED
    BY <1>2, <1>3, <2>1
<1>4. ASSUME NEW c \in Callers, CopyRecorded(c), trace' = Append(trace, PromotionOf(c))
      PROVE  IF c = t THEN About(t)' = About(t) \cup {n + 1}
                           /\ n + 1 \in DOMAIN trace' /\ trace'[n + 1] = PromotionOf(t)
             ELSE About(t)' = About(t) /\ Promotions(t)' = Promotions(t)
  <2>1. PromotionOf(c).type = "promotion" /\ PromotionOf(c).of = c
    BY DEF PromotionOf
  <2>2. CASE c = t
    BY <1>1, <1>4, <2>1, <2>2 DEF About
  <2>3. CASE c # t
    BY <1>2, <1>4, <2>1, <2>3
  <2>. QED
    BY <2>2, <2>3
<1>5. ASSUME NEW u \in Callers, NEW i \in Promotions(u), trace' = Append(trace, RollbackOf(i))
      PROVE  IF u = t THEN /\ About(t)' = About(t) \cup {n + 1}
                           /\ n + 1 \in DOMAIN trace' /\ trace'[n + 1].type = "promotion_rollback"
                           /\ Promotions(t)' = Promotions(t)
             ELSE About(t)' = About(t) /\ Promotions(t)' = Promotions(t)
  <2>1. RollbackOf(i).type = "promotion_rollback" /\ RollbackOf(i).of = u
    BY <1>0, PromotionRecords
  <2>2. CASE u = t
    BY <1>1, <1>5, <2>1, <2>2 DEF About, Promotions
  <2>3. CASE u # t
    BY <1>2, <1>5, <2>1, <2>3
  <2>. QED
    BY <2>2, <2>3
<1>6. UNCHANGED trace => About(t)' = About(t) /\ Promotions(t)' = Promotions(t)
  BY DEF About, Promotions
<1>7. \A i \in DOMAIN trace : i \in DOMAIN trace' /\ trace'[i] = trace[i]
  BY <1>1, Recordings
<1>8. CASE CopyRecorded(t)
  <2>1. trace' = Append(trace, PromotionOf(t))
    BY <1>8 DEF CopyRecorded, Recorded
  <2>. QED
    BY <1>4, <1>7, <1>8, <2>1 DEF n
<1>9. CASE TakenBack(t)
  <2>1. PICK i \in Promotions(t) : trace' = Append(trace, RollbackOf(i))
    BY <1>9 DEF TakenBack, Recorded, RollbackOf
  <2>. QED
    BY <1>5, <1>7, <1>9, <2>1 DEF n
<1>10. CASE ~CopyRecorded(t) /\ ~TakenBack(t)
  <2>1. About(t)' = About(t) /\ Promotions(t)' = Promotions(t)
    BY <1>3, <1>4, <1>5, <1>6, <1>10, Recordings
  <2>. QED
    BY <1>7, <1>10, <2>1
<1>. QED
  BY <1>8, <1>9, <1>10

LEMMA StepExport == Types /\ BuiltInv /\ ExportInv /\ [Next]_vars => ExportInv'
<1> SUFFICES ASSUME Types, BuiltInv, ExportInv, [Next]_vars PROVE ExportInv'
  OBVIOUS
<1>0. PcOK /\ StateOK /\ TargetOK
  BY DEF Types
<1>1. ASSUME NEW c \in Callers, CopyOut(c)
      PROVE  target'[c] # None /\ Stories \subseteq target'[c]
  <2>1. ws \in Workspaces /\ run[c] \in RunState
    BY <1>0, <1>1 DEF CopyOut, MayPromote, StateOK
  <2>2. Stories \subseteq built
    BY <1>1, <2>1, NamesAssumption
       DEF CopyOut, Promotable, AllDone, BuiltInv, DoneIsBuilt
  <2>3. built \subseteq ws.tree
    BY <2>1, NamesAssumption DEF BuiltInv
  <2>4. target'[c] = Content(c) \cup ws.tree
    BY <1>0, <1>1 DEF CopyOut, TargetOK
  <2>5. Content(c) \cup ws.tree \in Targets
    BY <1>0, <2>1 DEF TargetOK, Content, Targets, Workspaces
  <2>. QED
    BY <2>2, <2>3, <2>4, <2>5, NamesAssumption
<1>2. ASSUME NEW c \in Callers, pc'[c] = "copied"
      PROVE  target'[c] # None /\ Stories \subseteq target'[c]
  <2>1. CASE CopyOut(c)
    BY <1>1, <2>1
  <2>2. CASE pc[c] = "copied" /\ ~CopyOut(c)
    <3>1. target[c] # None /\ Stories \subseteq target[c]
      BY <2>2 DEF ExportInv
    <3>2. ~CopyFails(c) /\ ~TakeBack(c)
      BY <2>2 DEF CopyFails, MayPromote, TakeBack, ExportInv, Callers
    <3>. QED
      BY <2>2, <3>1, <3>2, TargetMoves
  <2>. QED
    BY <1>0, <1>2, <2>1, <2>2, Between
<1>3. ASSUME pc'["driver"] \notin {"cleanup", "ended", "dead"} PROVE Promotions("driver")' = {}
  <2>1. pc["driver"] \notin {"cleanup", "ended", "dead"} /\ "driver" \in Callers
    BY <1>0, <1>3, Between DEF Callers
  <2>2. Promotions("driver") = {} /\ ~TakenBack("driver")
    BY <2>1 DEF ExportInv, TakenBack, Callers
  <2>3. ~CopyRecorded("driver")
    BY <1>0, <1>3, Leaving, <2>1 DEF CopyRecorded, PcOK
  <2>. QED
    BY <2>1, <2>2, <2>3, TraceGrows
<1>4. ASSUME NEW t \in Callers, pc'["operator"] = Rollback(t)
      PROVE  target'[t] = None /\ Promotions(t)' # {}
  <2>1. Promotions(t) \subseteq Promotions(t)'
    BY TraceGrows DEF Promotions
  <2>2. CASE TakeBack(t)
    BY <1>0, <2>1, <2>2 DEF TakeBack, TargetOK
  <2>3. CASE pc["operator"] = Rollback(t) /\ ~TakeBack(t)
    <3>1. target[t] = None /\ Promotions(t) # {}
      BY <2>3 DEF ExportInv
    <3>2. ~CopyOut(t) /\ ~CopyFails(t)
      BY <2>3, <3>1 DEF CopyOut, CopyFails, MayPromote, ExportInv, Callers, Rollback
    <3>. QED
      BY <2>1, <2>3, <3>1, <3>2, TargetMoves
  <2>. QED
    BY <1>0, <1>4, <2>2, <2>3, Between
<1>5. ExportComplete'
  <2> SUFFICES ASSUME NEW i \in DOMAIN trace', trace'[i].type = "promotion"
               PROVE  Stories \subseteq trace'[i].held
    BY DEF ExportComplete
  <2>1. CASE i \in DOMAIN trace
    BY <2>1, TraceGrows DEF ExportInv, ExportComplete, Callers
  <2>2. CASE i \notin DOMAIN trace
    <3>1. i = Len(trace) + 1 /\ DOMAIN trace = 1..Len(trace)
          /\ \A r : trace' = Append(trace, r) => trace'[i] = r
      BY <2>2, Recordings DEF Types, TraceOK
    <3>2. PICK c \in Callers : CopyRecorded(c) /\ trace' = Append(trace, PromotionOf(c))
      <4>1. \A r \in Decisions \cup {[type |-> "other"]} : r.type # "promotion"
        BY DEF Decisions
      <4>2. \A t \in Callers : \A j \in Promotions(t) : RollbackOf(j).type # "promotion"
        BY PromotionRecords DEF Types
      <4>. QED
        BY <2>2, <3>1, <4>1, <4>2, Recordings
    <3>3. trace'[i].held = Content(c)
      BY <3>1, <3>2 DEF PromotionOf
    <3>. QED
      BY <3>2, <3>3 DEF CopyRecorded, Content, ExportInv
  <2>. QED
    BY <2>1, <2>2
<1>. QED
  BY <1>2, <1>3, <1>4, <1>5 DEF ExportInv

LEMMA ExportInvariant == Spec => [](Types /\ BuiltInv /\ ExportInv)
<1>1. Init => BuiltInv /\ ExportInv
  <2> SUFFICES ASSUME Init PROVE BuiltInv /\ ExportInv
    OBVIOUS
  <2>1. BuiltInv
    BY DEF Init, BuiltInv, DoneIsBuilt
  <2>2. DOMAIN trace = {} /\ \A c \in Callers : pc[c] \in {"off", "idle"}
    BY DEF Init
  <2>. QED
    BY <2>1, <2>2 DEF ExportInv, Promotions, ExportComplete, Rollback, Callers
<1>. QED
  BY <1>1, InitParts, StepTypes, StepBuilt, StepExport, PTL DEF Spec

(* Whatever a commit or a copy did before, and whoever promoted: what is   *)
(* on record as promoted holds the patches of every story of the run.      *)
THEOREM Export == Spec => []ExportComplete
<1>1. ExportInv => ExportComplete
  BY DEF ExportInv
<1>. QED
  BY <1>1, ExportInvariant, PTL

-----------------------------------------------------------------------------
(* What the trace tells of a target.                                       *)

(* There is a last record about a target as soon as there is one.          *)
LastInv ==
  \A t \in Callers : About(t) # {} => \E i \in About(t) : \A j \in About(t) : j <= i

LEMMA StepLast == Types /\ LastInv /\ [Next]_vars => LastInv'
<1> SUFFICES ASSUME Types, LastInv, [Next]_vars, NEW t \in Callers, About(t)' # {}
             PROVE  \E i \in About(t)' : \A j \in About(t)' : j <= i
  BY DEF LastInv
<1>1. CASE About(t)' = About(t)
  BY <1>1 DEF LastInv
<1>2. CASE About(t)' = About(t) \cup {Len(trace) + 1}
  <2>1. \A j \in About(t) : j <= Len(trace) + 1
    BY DEF About, Types, TraceOK
  <2>2. Len(trace) + 1 <= Len(trace) + 1
    BY DEF Types, TraceOK
  <2>. QED
    BY <1>2, <2>1, <2>2
<1>. QED
  BY <1>1, <1>2, TraceGrows

LEMMA LastIsAbout ==
  ASSUME NEW t \in Callers
  PROVE  LastAbout(t) = IF About(t) = {} THEN "none"
                        ELSE trace[CHOOSE i \in About(t) : \A j \in About(t) : j <= i].type
BY DEF LastAbout, About

(* The last record is the one that a step adds, or stays what it was.      *)
LEMMA LastMoves ==
  ASSUME Types, LastInv, [Next]_vars, NEW t \in Callers
  PROVE  \/ CopyRecorded(t) /\ LastAbout(t)' = "promotion"
         \/ TakenBack(t) /\ LastAbout(t)' = "promotion_rollback"
         \/ ~CopyRecorded(t) /\ ~TakenBack(t) /\ LastAbout(t)' = LastAbout(t)
<1> DEFINE last(A) == CHOOSE i \in A : \A j \in A : j <= i
<1>0. LastAbout(t)' = IF About(t)' = {} THEN "none" ELSE trace'[last(About(t)')].type
  BY DEF LastAbout, About
<1>1. ASSUME About(t)' = About(t) PROVE LastAbout(t)' = LastAbout(t)
  <2>1. CASE About(t) = {}
    BY <1>0, <1>1, <2>1, LastIsAbout
  <2>2. CASE About(t) # {}
    <3>1. last(About(t)) \in About(t)
      BY <2>2 DEF LastInv
    <3>2. trace'[last(About(t))] = trace[last(About(t))]
      BY <3>1, TraceGrows DEF About
    <3>. QED
      BY <1>0, <1>1, <2>2, <3>2, LastIsAbout
  <2>. QED
    BY <2>1, <2>2
<1>2. ASSUME About(t)' = About(t) \cup {Len(trace) + 1}
      PROVE  LastAbout(t)' = trace'[Len(trace) + 1].type
  <2> DEFINE n == Len(trace)
  <2>1. n \in Nat /\ \A j \in About(t) : j \in Nat /\ j <= n
    BY DEF About, Types, TraceOK
  <2> HIDE DEF n
  <2>2. \A i \in About(t) \cup {n + 1} : (\A j \in About(t) \cup {n + 1} : j <= i) <=> i = n + 1
    <3>1. \A j \in About(t) \cup {n + 1} : j <= n + 1
      BY <2>1
    <3>2. \A i \in About(t) : ~(n + 1 <= i)
      BY <2>1
    <3>. QED
      BY <3>1, <3>2
  <2>3. last(About(t) \cup {n + 1}) = n + 1
    BY <2>2
  <2>. QED
    BY <1>0, <1>2, <2>3 DEF n
<1>3. PromotionOf(t).type = "promotion"
  BY DEF PromotionOf
<1>. QED
  BY <1>1, <1>2, <1>3, TraceGrows

LEMMA StepRecord ==
  Types /\ BuiltInv /\ ExportInv /\ LastInv /\ RecordMatchesExport /\ [Next]_vars =>
    RecordMatchesExport'
<1> DEFINE Tells(t) == CASE LastAbout(t) = "promotion" -> target[t] # None /\ Stories \subseteq target[t]
                         [] LastAbout(t) = "promotion_rollback" -> target[t] = None
                         [] OTHER -> Content(t) \subseteq {Foreign}
<1> SUFFICES ASSUME Types, ExportInv, LastInv, RecordMatchesExport, [Next]_vars, NEW t \in Callers,
                    t \notin lost', pc'[t] # "copied", pc'["operator"] # Rollback(t)
             PROVE  Tells(t)'
  BY DEF RecordMatchesExport, Rollback
<1>0. PcOK
  BY DEF Types
<1>1. CASE CopyRecorded(t) /\ LastAbout(t)' = "promotion"
  <2>1. target' = target /\ target[t] # None /\ Stories \subseteq target[t]
    BY <1>1 DEF CopyRecorded, ExportInv
  <2>. QED
    BY <1>1, <2>1
<1>2. CASE TakenBack(t) /\ LastAbout(t)' = "promotion_rollback"
  <2>1. target' = target /\ target[t] = None
    BY <1>2 DEF TakenBack, ExportInv
  <2>. QED
    BY <1>2, <2>1
<1>3. CASE LastAbout(t)' = LastAbout(t) /\ ~CopyRecorded(t) /\ ~TakenBack(t)
  <2>1. t \notin lost /\ pc[t] # "copied" /\ pc["operator"] # Rollback(t)
    BY <1>0, <1>3, Between
  <2>2. Tells(t)
    BY <2>1 DEF RecordMatchesExport
  <2>3. ~CopyOut(t) /\ ~CopyFails(t) /\ ~TakeBack(t)
    BY <1>0 DEF CopyOut, CopyFails, TakeBack, Goto, PcOK, Callers
  <2>4. target'[t] = target[t] /\ Content(t)' = Content(t)
    BY <2>3, TargetMoves DEF Content
  <2>. QED
    BY <1>3, <2>2, <2>4
<1>. QED
  BY <1>1, <1>2, <1>3, LastMoves

(* The trace tells what is at the target, unless a call changed the target *)
(* and did not live to say so.                                             *)
THEOREM RecordTells == Spec => []RecordMatchesExport
<1>1. Init => LastInv /\ RecordMatchesExport
  <2> SUFFICES ASSUME Init PROVE LastInv /\ RecordMatchesExport
    OBVIOUS
  <2>1. \A t \in Callers : About(t) = {} /\ LastAbout(t) = "none"
    BY DEF Init, About, LastAbout
  <2>2. \A t \in Callers : Content(t) \subseteq {Foreign}
    BY DEF Init, Content
  <2>. QED
    BY <2>1, <2>2 DEF LastInv, RecordMatchesExport
<1>. QED
  BY <1>1, ExportInvariant, StepLast, StepRecord, InitParts, StepTypes, PTL DEF Spec
=============================================================================
