------------------------------ MODULE Backlog ------------------------------
(***************************************************************************)
(* How a backlog comes about and is worked off: planning-steward turns an  *)
(* idea into a bundle, its open decisions are answered, the bundle passes  *)
(* the gate of validator-suite and is expanded into stories; scope         *)
(* changes, defect reports and showcases add stories at any time; Admission*)
(* starts them.                                                            *)
(***************************************************************************)
EXTENDS Admission

CONSTANTS
  Ideas,       \* the ideas: mode, what they say, how many components, and (a
               \* bound of the model) how many stories are added beside them
  Messages,    \* the scope changes: slug of the text, epic of its mode, clean
  Reports      \* the defect reports, by number

(* What an idea has to decide.                                             *)
Decisions == {"goals", "users", "constraints"}

ASSUME IdeasAssumption ==
  Ideas \subseteq [mode : STRING, says : SUBSET Decisions, nonGoals : BOOLEAN,
                   components : Nat, web : BOOLEAN, clean : BOOLEAN, added : Nat]

(* The numbers that stand for ids of one kind stay below those of the next *)
(* kind, as the prefixes of the ids do.                                    *)
ASSUME IdsAssumption ==
  /\ Reports \subseteq 0..99
  /\ \A m \in Messages : m.slug \in 0..99 /\ m.epic \in Nat
  /\ \A i \in Ideas : i.added <= 99

VARIABLES
  idea,      \* the idea and what was answered to its open decisions
  stage,     \* "idea", "bundle", "emitted", "rejected" or "refused"
  open,      \* the open decisions of the bundle
  delta,     \* the scope change that waits to be applied, at most one story
  showcases  \* the showcase counter of this process

planVars == <<idea, stage, open, delta, showcases>>
vars == <<admissionVars, planVars>>

(* The places a write set may cover: the parts of the project have one     *)
(* each.                                                                   *)
Src == {<<"src">>}
Dist == {<<"dist">>}
Part(k) == {<<"part", k>>}
Project(n) == {<<"root">>} \cup UNION {Part(k) : k \in 1..n}
Places == Src \cup Dist \cup Part(1) \cup Project(idea.components)

Story(id, epic, deps, area, class, inWave) ==
  [id |-> id, epic |-> epic, deps |-> deps, area |-> area, class |-> class,
   inWave |-> inWave, status |-> "todo"]

(* Ids in code unit order: STORY-REPAIR-, STORY-SC-, STORY-SHOWCASE-, and  *)
(* bundle-...-story-<epic>.<n> after them.                                 *)
RepairId(report) == 100 + report
ScopeId(slug) == 200 + slug
ShowcaseId(n) == 300 + n
PlannedId(epic, n) == 400 + 10 * epic + n
Planned(id) == id >= 400
RepairEpic == 100
ShowcaseEpic == 300

-----------------------------------------------------------------------------
(* From the idea to its stories.                                           *)

(* createPlanningBundle: secrets and suspicious text are refused; what the *)
(* idea leaves out becomes an open decision.                               *)
CreatePlanningBundle ==
  /\ stage = "idea"
  /\ IF idea.clean
     THEN stage' = "bundle" /\ open' = Decisions \ idea.says
     ELSE stage' = "rejected" /\ UNCHANGED open
  /\ UNCHANGED <<idea, delta, showcases, admissionVars>>

(* A person answers a decision, in words of its own or by deferring it.    *)
Answer(d, inWords) ==
  /\ stage = "bundle" /\ d \in open
  /\ open' = open \ {d}
  /\ idea' = (IF inWords THEN [idea EXCEPT !.says = @ \cup {d}] ELSE idea)
  /\ UNCHANGED <<stage, delta, showcases, admissionVars>>

(* planningBundleValidationGate.                                           *)
MachineCheckable == "goals" \in idea.says \/ idea.nonGoals
GatePasses == MachineCheckable /\ idea.components > 0 /\ open = {}

Foundation(n) == Story(PlannedId(1, 1), 1, {}, Project(n), "sequential", FALSE)
Implement(k) ==
  Story(PlannedId(k + 1, 1), k + 1, {PlannedId(1, 1)}, Part(k), "sequential", FALSE)
Test(k) ==
  Story(PlannedId(k + 1, 2), k + 1, {PlannedId(k + 1, 1)}, Part(k), "parallel_safe", FALSE)

(* Mutant of Integration: it waits for a test of its own epic too.         *)
IntegrationOneMore(n) ==
  Story(PlannedId(n + 2, 1), n + 2, {PlannedId(k + 1, 2) : k \in 1..(n + 1)}, Project(n),
        "sequential", FALSE)

Integration(n) ==
  Story(PlannedId(n + 2, 1), n + 2, {PlannedId(k + 1, 2) : k \in 1..n}, Project(n),
        "sequential", FALSE)

Generated(n) ==
  <<Foundation(n)>>
    \o [i \in 1..(2 * n) |-> IF i % 2 = 1 THEN Implement((i + 1) \div 2) ELSE Test(i \div 2)]
    \o <<Integration(n)>>

Add(stories) == backlog' = backlog \o stories /\ UNCHANGED <<running, offer, held, waveOpen, careful>>

(* generateBacklogFromPlanningBundle, after the gate.                      *)
EmitBacklog ==
  /\ stage = "bundle" /\ GatePasses
  /\ stage' = "emitted"
  /\ Add(Generated(idea.components))
  /\ UNCHANGED <<idea, open, delta, showcases>>

(* All decisions are answered, but neither goals nor non-goals are named:  *)
(* deferring the goals is an answer the gate does not take.                *)
GateRefuses ==
  /\ stage = "bundle" /\ open = {} /\ ~GatePasses
  /\ stage' = "refused"
  /\ UNCHANGED <<idea, open, delta, showcases, admissionVars>>

-----------------------------------------------------------------------------
(* Stories that are added later.                                           *)

AddedCount == Cardinality({i \in Stories : ~Planned(backlog[i].id)})
MayAdd == AddedCount + Len(delta) < idea.added

(* processScopeChange, told of at most one of the running stories: a       *)
(* message that is not clean, or whose id is that story's, yields a delta  *)
(* that is not validated and that applyBacklogDelta refuses.               *)
ScopeChange(m, told) ==
  /\ delta = <<>> /\ MayAdd
  /\ told = {} \/ \E s \in RunningStories : told = {s.id}
  /\ m.clean /\ ScopeId(m.slug) \notin told
  /\ delta' = <<Story(ScopeId(m.slug), m.epic, {}, Src, "sequential", TRUE)>>
  /\ UNCHANGED <<idea, stage, open, showcases, admissionVars>>

(* applyBacklogDelta records the ids, and the caller adds the stories.     *)
ApplyBacklogDelta ==
  /\ delta # <<>>
  /\ Add(delta)
  /\ delta' = <<>>
  /\ UNCHANGED <<idea, stage, open, showcases>>

(* The trace cannot be read or appended to.                                *)
ApplyThrows ==
  /\ delta # <<>>
  /\ delta' = <<>>
  /\ UNCHANGED <<idea, stage, open, showcases, admissionVars>>

(* triageDefect: a defect that was reproduced, or whose reproduction       *)
(* failed to run, becomes a repair story over the impacted files, which    *)
(* enrichBrownfieldStory makes exclusive if a public API is frozen.        *)
Reproductions == {"confirmed", "non_reproducible", "error"}
RepairAreas == {Src, Part(1)}

TriageDefect(report, reproduction, area, frozen) ==
  /\ MayAdd
  /\ reproduction # "non_reproducible"
  /\ Add(<<Story(RepairId(report), RepairEpic, {}, area,
                 IF frozen THEN "exclusive" ELSE "sequential", TRUE)>>)
  /\ UNCHANGED planVars

(* askFrontendStageQuestion, answered yes.                                 *)
AskFrontendStage ==
  /\ MayAdd
  /\ idea.mode = "brownfield" => idea.web
  /\ showcases' = showcases + 1
  /\ Add(<<Story(ShowcaseId(showcases'), ShowcaseEpic, {}, Dist, "sequential", TRUE)>>)
  /\ UNCHANGED <<idea, stage, open, delta>>

(* The harness ends between stories and is started again with the tracker. *)
Restart ==
  /\ running = <<>>
  /\ offer' = {} /\ delta' = <<>> /\ showcases' = 0
  /\ UNCHANGED <<backlog, running, held, waveOpen, careful, idea, stage, open>>

-----------------------------------------------------------------------------
Init ==
  /\ idea \in Ideas
  /\ stage = "idea" /\ open = {} /\ delta = <<>> /\ showcases = 0
  /\ backlog = <<>> /\ running = <<>> /\ offer = {}
  /\ held = {} /\ waveOpen = TRUE
  /\ careful \in BOOLEAN

Adding ==
  \/ \E m \in Messages : \E told \in {{}} \cup {{s.id} : s \in RunningStories} : ScopeChange(m, told)
  \/ ApplyBacklogDelta \/ ApplyThrows
  \/ \E report \in Reports, reproduction \in Reproductions, area \in RepairAreas, frozen \in BOOLEAN :
       TriageDefect(report, reproduction, area, frozen)
  \/ AskFrontendStage

Next ==
  \/ CreatePlanningBundle
  \/ \E d \in Decisions, inWords \in BOOLEAN : Answer(d, inWords)
  \/ EmitBacklog \/ GateRefuses
  \/ Adding
  \/ Restart
  \/ Managing /\ UNCHANGED planVars

(* The caller selects again, starts what it may, and stories end.          *)
Fairness ==
  /\ WF_vars(SelectAdmissible /\ UNCHANGED planVars)
  /\ WF_vars(Starts /\ UNCHANGED planVars)
  /\ WF_vars(Ends /\ UNCHANGED planVars)

Spec == Init /\ [][Next]_vars /\ Fairness

-----------------------------------------------------------------------------
(* Properties.                                                             *)

(* Type invariant: only stories in progress are in the list of running     *)
(* ones, each once, and at most one id is held.                            *)
TypeOK ==
  /\ stage \in {"idea", "bundle", "emitted", "rejected", "refused"}
  /\ open \subseteq Decisions /\ showcases \in 0..idea.added
  /\ Len(delta) <= 1 /\ AddedCount + Len(delta) <= idea.added
  /\ \A i \in Stories :
       /\ backlog[i].status \in {"todo", "in_progress", "done", "blocked"}
       /\ backlog[i].class \in {"parallel_safe", "sequential", "exclusive"}
       /\ backlog[i].area \subseteq Places
       /\ (backlog[i].status = "in_progress") = (i \in InProgress)
  /\ Cardinality(InProgress) = Len(running)
  /\ offer \subseteq Stories
  /\ Cardinality(held) <= 1 /\ held \subseteq IdsOf(backlog)
  /\ waveOpen \in BOOLEAN /\ careful \in BOOLEAN

(* Whatever is added when, the backlog stays a graph that validates, its   *)
(* topological order puts every story after what it waits for, and no      *)
(* added story takes the id of a planned one: ids repeat only when a       *)
(* report, a message or a showcase number does.                            *)
BacklogValid ==
  LET order == TopologicalSort(backlog) IN
  /\ ValidateStoryGraph(backlog)
  /\ \A i \in DOMAIN order, j \in DOMAIN order :
       (\E s \in Stories : backlog[s].id = order[j] /\ order[i] \in backlog[s].deps) => i < j
  /\ \A i \in Stories, j \in Stories :
       backlog[i].id = backlog[j].id /\ Planned(backlog[i].id) => i = j

(* The gates never wait for each other: once nobody holds a story, the     *)
(* wave is open for good and the harness is not restarted any more, every  *)
(* story is started and ends, unless the budget is spent or one it waits   *)
(* for was blocked.                                                        *)
Settled ==
  \A i \in Stories :
    /\ i \notin InProgress
    /\ backlog[i].status = "todo" => ~WithinBudget \/ ~DepsDone(backlog[i])

EveryStorySettles ==
  <>[](held = {} /\ waveOpen) /\ <>[][~Restart]_vars => <>[]Settled
=============================================================================
