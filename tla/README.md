# CodeHarness in TLA+

CodeHarness is an orchestration harness for software agents: agents propose
patches, the harness decides what runs, validates, checkpoints and promotes.
This directory holds TLA+ models of its core logic, the TLC configurations that
check them on small instances, and proofs that TLAPS checks for every instance.
Paths below are relative to the repository root, and those of packages to
`packages/`; `PROJECT.json` names, for every definition, the lines of code it
stands for.

## Inventory

The code is a TypeScript monorepo; each package under `packages/` is a few
hundred lines. There is no server process and no database: state is in memory,
in one JSON file per concern, and in an append-only JSONL trace per run.

| Part | State it keeps | Operations | What has to be right |
|---|---|---|---|
| Orchestrator, `harness-core/orchestrator-v0.ts` | `TrackerState`: phase, story statuses and attempts, active story, last verdict, decision log | `decideNextAction`, `advanceTrackerState`, called in a loop by a driver | one story in flight, dependencies first, budgets, done only after validation and checkpoint, the run ends |
| Harness table and supervisor, `harness-core`, `supervisor-runtime` | none | `tick`, `TRANSITIONS`, `decideNextAction` | they say what the orchestrator does |
| Schedulers, `task-graph/scheduler.ts` | story records (shared with the caller), completed list, iterations | `runSequentialScheduler`, `runParallelScheduler` | no two conflicting stories at once, honest outcome, the loop ends |
| Spawn plan, `task-graph/spawn-plan.ts` | none; writes the trace | `computeSpawnPlan`, `recordSpawnPlan` | a batch holds no overlap and is never empty |
| Isolation pool, `workspace-manager` | workspaces on disk and their registry | `runBatch`, `mergeInOrder`, `mergeAndValidate` | a failing story does not disturb its siblings; what is merged is in the tree |
| Trace, `event-log` and the recorders in `harness-core`, `tool-executor`, `workspace-manager` | a JSONL file with `seq` and a hash chain | `appendNextEvent`, the recorders, `validateTraceEvent` | forks are detected, serial use is never refused, what a caller is told is on record |
| Trace viewer, `apps/web/src/useTraceStream.ts` | events shown, position, filter | poll, answer, change of filter | in order, nothing twice, nothing missing in the middle |
| Project run state, `harness-core` | a JSON file written by tmp and rename | `loadOrInitProjectRunState`, `persistProjectRunState` | what is loaded after a crash is a state that was saved |
| Review and promotion, `harness-core`, `tool-executor`, `workspace-manager`, `apps/console` | exported tree, trace | `recordReviewDecision`, `promoteWorkspace`, `rollbackPromotion` | an export has every story; export and record agree |
| Inner loop of a story, `scripts/full-loop-skeleton.ts`, `scripts/walking-skeleton.ts` | a disposable workspace and its registry entry | proposal, preflight, gates, `applyProposal`, `runValidation`, repairs, checkpoint, cleanup | a checkpoint is about the tree as it is, writes stay inside, the workspace goes |
| Permission gateway, `permission-gateway` | none | `evaluateToolRequest` | the first rule that applies decides |
| Model gateway, `model-gateway` | counters and kill switches per worker; registered adapters | `guardedCall`, `RunBudgetPool`, bootstrap, routing checks, `callFirstValid` | bounded overshoot, a kill is final, the first valid answer is taken |
| Codex auth, `codex-auth` | token file, callback server, timer | `login`, `refresh`, `getValidAccessToken`, `logout` | the store is whole, no lost refresh token, the port is released |
| Debug loop and failure bank, `debugger-runtime`, `failure-bank` | genes and their counts | `runDebugLoop`, `runCompetitiveDebug`, `bankGene`, `consolidate`, load and save | recurring failures are escalated, none is lost |
| Task graph, `task-graph` | tasks of one contract | `create`, `update`, `next` | stuck is told from finished |
| Planning, `planning-steward` | bundle, backlog, deltas | bundle, gate, backlog, scope changes, triage, showcases | the backlog stays a valid graph |
| Admission, `story-manager` | none; reads a snapshot | `checkAdmission`, `selectAdmissible` | what is admitted together respects the limits together; nothing waits for ever |
| New projects, `workspace-manager` | a directory and its repository | `bootstrapGreenfieldWorkspace` | whole after any number of interruptions |
| Existing repositories, `planning-steward`, `harness-core`, `validator-suite` | as-is documents, stories, test baseline | `importBrownfieldRepo`, `enrichBrownfieldStory`, `validateBrownfieldChange` | documents tell of one scan, shared files are guarded, what worked works |
| Context, `context-manager`, `skill-runtime` | a window of turns; a packet of sections | compaction, packets, injection, cut to a budget | nothing denied and nothing of another role gets in, skills come after what they depend on, warnings stay |
| Skill tester, `skill-tester` | `.memory.md` of a skill | `registerSkill` | a verdict is earned |
| Preflight, reviewer, developer runtime, agent output, validators, settings | none, or text | stateless checks and formatting | local to one call |
| `apps/api`, the rest of `apps/web` | display | read-only | not modelled |

How they meet: a driver ticks the orchestrator or calls a scheduler; a scheduler
takes callbacks for the inner loop of a story and for its checkpoint, and the
isolation pool for batches; nearly everything records into the trace; the debug
loop and the model gateway live inside the inner loop; review and promotion read
the run state when everything is done. Two processes share files: the harness
and the review console (`apps/console`). Several parts have no caller in the
repository but their tests: `tick`, admission, the task graph, the compaction of
a window, the skill tester, `mergeAndValidate`, `runCompetitiveDebug`, the
bootstrap of a project directory, the enrichment of stories, `getValidAccessToken`. Their callers in
the models are the most general ones the signatures allow, and each module says
where it takes a narrower one.

What is hard: inner loops of a batch run concurrently and one may throw while
the others go on; every file is read, then written, with nothing that locks it;
budgets are checked before an await and charged after it; selections, scans and
baselines are used after what they were made from has changed; merging,
checkpointing and marking done are separate steps that can fail one by one.
`PROJECT.json` lists these hazards with their lines and the properties that watch
them.

## Modules

| Module | Models | Checked by | Proved in |
|---|---|---|---|
| `Orchestrator` | `orchestrator-v0.ts` | `MCOrchestrator` | `OrchestratorProofs` |
| `StoryLifecycle` | what an orchestrator promises about a backlog | as a property of `Orchestrator` | refinement in `OrchestratorProofs` |
| `HarnessTable` | `tick`, `TRANSITIONS`, the supervisor's table, beside `Orchestrator` | `MCOrchestrator` | `OrchestratorProofs` |
| `Scheduler` | `scheduler.ts`, `spawn-plan.ts`, `WorkspaceIsolationPool`, `selectNextStory` | `MCScheduler` | `SchedulerProofs` |
| `ScheduleContract` | what the caller of a scheduler relies on | as a property of `Scheduler` | refinement in `SchedulerProofs` |
| `Integration` | `mergeAndValidate` over what a scheduler run leaves | `MCScheduler` | `SchedulerProofs` |
| `TraceLog` | `event-log` and the read-then-append of its writers | `MCTraceLog` | `TraceLogProofs` |
| `Recorders` | the recorders of `harness-core`, `sendNotification`, `evaluateGateSla`, the reviewer's report, over `TraceLog` | `MCTraceLog` | `TraceLogProofs` |
| `TraceView` | `useTraceStream`, over `TraceLog` | `MCTraceLog` | `TraceLogProofs` |
| `RunBudget` | `BudgetGuard`, `RunBudgetPool`, `guardedCall` | `MCRunBudget` | `LimitProofs` |
| `DebugLoop` | `runDebugLoop`, `runCompetitiveDebug`, `failure-bank`, the wiring in `scripts/full-loop-skeleton.ts` | `MCDebugLoop` | `LimitProofs` |
| `Promotion` | run state, checkpoints, review, promotion, rollback, `scripts/e2e-greenfield.ts`, the review console | `MCPromotion.cfg` | `ProjectProofs` |
| `ToolPolicy` | `evaluateToolRequest` | within `InnerLoop` | `InnerLoopProofs` |
| `Providers` | bootstrap of live providers, routing checks, `callFirstValid` | within `InnerLoop` | `InnerLoopProofs` |
| `InnerLoop` | `full-loop-skeleton.ts` and `walking-skeleton.ts` with workspace, preflight, gates, executor and repairs | `MCInnerLoop` | `InnerLoopProofs` |
| `CodexAuth` | `codex-auth` | `MCInnerLoop` | `InnerLoopProofs` |
| `StoryGraph` | validation and topological order of a backlog, the queues of a spawn plan (operators) | within `Backlog` | `BacklogProofs` |
| `Admission` | `story-manager` and a caller of it | within `Backlog` | `BacklogProofs` |
| `Backlog` | `planning-steward`'s way from an idea to stories, over `Admission` | `MCBacklog` | `BacklogProofs` |
| `Greenfield` | `bootstrapGreenfieldWorkspace` | `MCBacklog` | `ProjectProofs` |
| `Brownfield` | import, intake check, bundle check, hot files, enrichment, baseline | `MCBacklog` | `ProjectProofs` |
| `TaskGraph` | `TaskGraph` of `task-graph` | `MCTaskGraph.cfg` | `ProjectProofs` |
| `ContextWindow` | compaction of a window of turns | `MCContextWindow` | `LimitProofs` |
| `ContextPackets` | packets, skills, injection, cut, over `ContextWindow` | `MCContextWindow` | `LimitProofs` |
| `SkillGate` | `registerSkill` | `MCContextWindow` | `LimitProofs` |
| `Arrays` | `filter` and `reduce` of arrays (operators), for `TraceView`, `ContextWindow` and `ContextPackets` | within them | `InductionLemmas` |

A definition whose comment calls it a mutant is a plausible slip in the code it
stands next to. It is no part of a specification; it is there to show that each
checked property can be broken.

Every module with a state has a type invariant. TLC's run of `Promotion` has it in its list,
where it says more than types. The theorems `TypeCorrect` of `OrchestratorProofs`, `LimitProofs`
(`RunBudget`), `TraceLogProofs`, `ProjectProofs` (`Promotion`) and `InnerLoopProofs`, `AuthTypeCorrect` and
`TaskTypes` prove the type invariants of seven modules; where another invariant is proved, its
strengthening holds the types it needs.

An MC module may run several specifications that share nothing: a variable
`part`, chosen at the start and never changed, says which. That is the sum of
their state spaces and not the product, which would show nothing more.

### Orchestrator

One action per decision. The guard of an action is the branch of
`decideNextAction` that yields the decision, its effect the branch of
`advanceTrackerState` that consumes it; the driver is sequential and the tracker
is in memory, so a tick is one step. What the agents answer is open: success or
failure of a selection and a checkpoint, and the three verdicts the code can be
given (`true`, `false`, absent). `checkpoints` is not part of the tracker: it
records which checkpoints were really written, so that the tracker can be
compared with the world. The order priority, order_index, story_id is abstracted
to `Rank`, and wording, blocked_reason and error texts are left out. The status
`validating` is declared in the code and assigned nowhere. The active story is
always in the backlog (selection takes it from there), so `At` fails only when
there is none.

Properties: `AttemptBudgetKept`, `AuditTrailComplete` (the decision log alone
proves the chain of every done story), `RunHalts`, and `ImplementsLifecycle`:
under a refinement mapping each tick is a step of `StoryLifecycle`, in which
every verdict is about a patch not judged before, or changes nothing it sees.
`OneStoryInFlight`, `StartedAfterDependencies` and `StopIsFinal` are proved and
not run.

`StopIsFinal` holds in a stronger form than the code's text suggests: clearing
the human gate does not resume a run. `decideNextAction` answers a cleared gate
with `select_next_story` without a story, and `advanceTrackerState` answers that
by stopping with `select_failed`.

### HarnessTable

Three tables say what a story does next. No driver runs `tick` or the
supervisor's; the scripts and the invariants of the test suite quote them. The
module runs the orchestrator and maps its phases to `HarnessState`, and to the
artifacts the supervisor looks at. `TablesAgree`: whatever the orchestrator
decides about a story is what both others answer, and its moves are ones
`TRANSITIONS` has, with the three states of a developer's turn taken as one.

Where they differ, by the code: a story with budget 0 is escalated before its
first patch by the orchestrator alone; `tick` can escalate in `DEBUG_LOOP`, which
it never reaches with a spent budget; the orchestrator's way from selection to a
gate has no transition; `checkHumanGate`, which is not in the model, names
`attempt_budget_exceeded` as the reason of every escalation; the supervisor asks a person about a repeated
signature, which the orchestrator does not know; and `full-loop-skeleton` logs
`DEBUG_LOOP` to `VALIDATION`, which `TRANSITIONS` forbids.

### Scheduler and Integration

One behaviour is one call of either scheduler; which one, the dependency graph,
the classes and the overlaps of write sets are chosen in `Init` and do not
change. An action is what the scheduler does from one await to the next; the
inner loops of a batch end one by one, in any order, also after the call has
thrown. Each await can fail: a workspace cannot be made, the plan cannot be
recorded, a loop resolves false or throws, git fails between two merge commits,
`onCheckpoint` throws. Two write sets overlap or not: globs are abstracted to a
symmetric relation, which is general, because any relation on stories is the
overlap of some write sets. A component of the overlap graph is the least closed
set, which is what the code's breadth-first search computes. The class
`parallel_with_barrier` is one the schedulers treat as `sequential`.
A story without an `allowed_write_set` overlaps with nothing and so runs beside
anything; this is what the code does, and the relation covers it.

`mergeInOrder`'s commits are made with `--allow-empty` and bring no content, so
what gets the stories' files into one tree is `mergeAndValidate`. `Integration`
takes a scheduler call as it ended and copies the workspaces of its last batch,
in the order of their ids. A workspace holds files its story edited and others
as they were; the copy takes both.

Properties: `NoConcurrentOverlap`, `HonestOutcome`, `Terminates`,
`ImplementsContract` (the call implements `ScheduleContract`), and
`IntegrationInOrder`. The last shows two limits of the code in its wording: an
earlier story's edit is reverted by a later workspace that merely holds the file,
and what was copied before a conflict stays.

### TraceLog, Recorders, TraceView

The file is a sequence of lines. A recorder reads the tail and appends, in two
steps; recorders of different processes interleave between them.
`recordProviderRegistrations` appends several events after one read, and
`recordSpawnPlan` reads nothing. Hashes are the identities of events, which is
exact as long as nobody edits a line and SHA-256 has no collisions. An append
may write nothing, or half a line: then the file cannot be parsed any more, all
later recorders throw in their read, and a line put by one that had read before
is lost in the half line.

`Recorders` puts the functions of `harness-core` on top: what each refuses before
it reads, what it answers after it wrote, and a throw in between.
`sendNotification` posts up to the configured number of times;
`evaluateGateSla` keeps no state, so past its time it answers, and records, the
same at every tick. The code guards nothing against a second terminal event, writes
`previous_state` as a constant, never reads `GLOBAL_GATES_NO_AUTO_CLOSE`, and
records a reviewer's report also when it is invalid; the model has all that.

`TraceView` polls at an interval whether or not the last answer has come.
Answers come in any order; a filter change starts anew and drops what is under
way. The server behind `/api/trace` is not in the repository; it is modelled as
the client uses it. The view's mock data are left out.

`ChainIsExact`: `validateTraceEvent` accepts exactly the files whose recorders
each appended to the tail they had read, and the weaker check of invariant I6 in
`tests/invariants` accepts the same ones. `AnswersTrue`: an event a recorder has
answered for is in the file; a notification reported sent has arrived, one
reported failed was tried as often as configured and may have arrived all the
same. `ViewInOrder`: nothing twice, nothing out of order or left out until the
filter is changed; after that, older events are added at the end.

### RunBudget

`guardedCall` is two steps, up to its await and from the provider's answer on;
between them every other caller runs. Callers are fixed to a worker and make one
call at a time, so a worker's concurrency is the number of its callers. The
budget of a worker is its share of the pool, rounded down. `made` is history: it
counts the provider calls that have settled, charged or not.

Properties: `OverrunBounded` (checking before the await and charging after it
costs at most what the other callers have in flight, in calls and in tokens),
`NoCallAfterKill`. Nothing in the code refuses more workers than the pool was
made for, and then the total may be passed.

### DebugLoop

A loop is synchronous up to what its repair provider and validator answer, so a
step is one pass of it, from asking for a proposal to the next. Banking a failure
and asking whether it is systemic go through the operations that
`scripts/full-loop-skeleton.ts` gives the loop: it looks up the entry the gene was
merged into, because the gene the loop itself holds always has count 1. A
failure's signal is the set of its tokens; ids, counts, severities and statuses
stay, texts are left out. After an escalation a story that is flagged for it may
have a race: every candidate starts with a direction before any ends, they end in
any order, one may throw, and the genes of the losers are banked. The warnings a
loop shows its repair provider are those `injectRelevant` finds. `saveBank`,
`loadBank` and `consolidate` are called by no script, so the model calls them
whenever no loop runs; `loadBank` drops what `validateFailureGene` refuses.

Properties: `EveryFailureCounted`, `RecurringEscalates`,
`ConsolidationSeparates`. What a signature has failed is not the count of any
gene: it is kept beside the bank (`recent`, history), and `RecurringEscalates`
says that no loop tries a repair of a signature that failed as often as the
threshold, the failure at hand included, however its failures were merged into
genes of other signals, raced for and consolidated. It holds because banking
merges into the first active gene with a token in common and the lookup takes the
first gene with one, and it is lost if merging stops counting or takes another
gene than the first. What the code does not keep is left out by name. The lookup
takes the first gene of any status, so a resolved gene that stands before the
active one decides in its place. Pairing a gene forgets what it counted. A
consolidation forgets a signature unless the active genes it hits all overlap one
another and nothing else (`Together`): along a chain, genes are merged in the
order of their ids, and what counted a signature may end up behind another gene it
hits, or in one it does not hit. A loaded bank brings counts, not failures of this
process. A failure that finds the bank full is not counted and the loop is not
told. The count already includes the failure at hand, so with the threshold 2 the second
occurrence escalates, and so does the retry that `self_correct` asks for. The
genes the loop itself builds have a failure type outside
`VALID_FAILURE_TYPES`: they are gone after a save and a load
(`SavedBankLoads` fails), and, having no `key:value` token, are never injected.

### Promotion

The driver is that of `scripts/e2e-greenfield.ts`; that script does not save its
run state, the model's driver does so as `persistProjectRunState` does. An
operator in another process loads the state, answers the review prompt,
promotes, and rolls back. Either may die between any two steps; a dead driver is
not started again. Copies and the removal of a workspace are atomic, the target
is outside the workspace, and one process saves.

`TypeOK`: the saved state is never half written. `ExportComplete`: a promotion on
record exported the patches of every story, whatever commits failed, because the
working tree is copied and not the commits that the evidence names.
`RecordMatchesExport`: the trace tells what is at the target, unless a process
died, or is, between the two.

By the code, a rollback removes the whole target, where `workspace-manager:286`
says only the exported artifact; it needs the workspace, which the driver's
`finally` removes, so what the driver promoted cannot be rolled back after it;
the evidence may name the stub commit; and promotion never looks up an
approval (`PromotionApproved` fails).

### InnerLoop, ToolPolicy, Providers

`InnerLoop` is one story under either script, from the seeding of its workspace to
the cleanup. `ToolPolicy` is the ordered rules of the permission gateway,
`Providers` the way of a call along its route. A patch declares files and its
text touches files; the gateway judges the first, git applies the second. A tree
is known by the patches in it. Providers answer developer requests; the
debugger's repairs come from the scripted provider. `_proposal.diff` and
`_repair.diff`, which the executor leaves in the workspace, are left out.

`CheckpointVerified`: a checkpoint is about the tree as it is, failed repairs in
it included. `WritesContained`: what patches change is inside this workspace,
although the oracle's `escapesWorkspace` is false for a path into any registered
one and only git refuses it; and in the write set as long as patches touch what
they declare. `FirstValidAnswers`: the answer is that of the first reference
with a valid one; what is called is named no later in the route than its first
placeholder.
`WorkspaceRemoved`: however the loop ends. The preflight's verdict changes
nothing. A routing that passed the boot-time check may name a model the registry cannot
resolve (`CheckedRouteResolves` fails). A workspace whose `git init` fails is on disk
and not registered; no property covers it.

### CodexAuth

Two processes share the token file, its `.tmp`, the callback port and the
account. The server may rotate the refresh token, keep the old one alive or send
none; an answer may be lost; a process may die at any step. `StoreWhole` and
`SessionKept` hold under premises the code does not guarantee, and name them:
`crowded` is two saves at a time, `stranded` a refresh whose new token was never
saved. `PortReleased`: timer or callback, whichever comes first.
PKCE and URLs are text.

### StoryGraph, Admission, Backlog

An idea becomes a bundle with open decisions; they are answered; the gate passes
it; it is expanded into stories. Scope changes, defect reports and showcases add
stories meanwhile. Admission judges all stories against one snapshot by its six
gates; the caller starts what was admitted, one story per selection or all of
it, while stories end and people hold them and close waves. Ids are numbers in
the code-unit order of the strings. The harness may be restarted when nothing runs; the
showcase counter then starts at 0 again.

`BacklogValid`: the graph validates, its topological order puts a story after
what it waits for, and no added story takes a planned id. `AdmissionSound`: the
limits, for a caller that selects again after each start, and what they let pass.
`EveryStorySettles` is liveness: the gates never wait for each other.

By the code: the overlap gate lets a candidate that sorts first run beside a
story it overlaps with, where a test (`story-manager/src/index.test.ts:67`) is
named `running_write_set_overlap_blocks_admission`; a story that is not
exclusive is admitted beside a running exclusive one; stories that are done are
selected again, which the model's caller does not start; goals that are left
open without non-goals are refused by the gate; a report whose reproduction
ended in an error still gets a repair story; and ids of scope changes are cut to
40 characters, so they can repeat.

### Greenfield

`bootstrapGreenfieldWorkspace` step by step, each of which may throw or be the
last of its process, called again and again over what was left, or over work
done since. `BootstrapWhole`: a call that made its commit has every file of the
template whole in the repository and leaves nothing of the directory out of it
(other than what `.gitignore` names, which the model does not hold). By
the code, a directory that is there is taken over: template files are
overwritten and foreign ones committed; a second bootstrap of an unchanged
project throws, because there is nothing to commit; `empty` commits nothing that
is there; and the rollback plan is the removal of the whole directory.

### Brownfield

Three parts that meet only in the intake. *Import*: the repository is scanned
before the await on the code graph and documented after it; imports overlap and
people edit meanwhile. The scan is one look, as it is synchronous. An output
inside the repository is refused; one whose `as-is` directory is the repository
passes, is written into, and only `validateBrownfieldIntake` notices, if the two
paths are spelled alike, which the model takes for granted. *Stories*: the check of
the bundle, hot files, enrichment. A write set names paths, which are files or globs
(`src/**`); the check of the bundle compares them by their fixed prefixes
(`Overlapping`), detection and enrichment by their spelling. An
impact set replaces the write set, the paths of the story included, and frozen paths
are not asked again. A `public_api_constraint` makes a story exclusive also when it
freezes nothing. *Changes*: each is compared with the first baseline.

`IntakeDocumented`: the two documents of an output tell of one scan of a returned
intake, unless the last write failed between them. `SharedPathsGuarded`: a path
that two stories have named from the start keeps every enriched story that names it
out of the parallel class, a third one whose replaced write set came upon it
included, whenever detection ran. This is all that detection and enrichment guard.
A file and a glob that covers it are two spellings, neither of them hot, and both
stories stay parallel; so do two whose write sets were replaced by impact sets with
a file in common. What still parts such stories is the prefix comparison of
`computeSpawnPlan`, within one batch (`overlap` of `Scheduler`). `WorkingStaysWorking`: what worked and has a
test that is not flaky works after any number of accepted changes, or has lost
its test. Deleted tests are not missed, and a test that was mended after the
baseline and broken again is not noticed.

### TaskGraph

Every sequence of legal calls. `next()` answers null both when all is done and
when nothing can go on; `StuckMeansAbandoned` says what the second means: the
first pending task waits for one that is blocked or abandoned, never for another
pending one. `update` does not look at dependencies, so an agent may start
what `next()` has not offered.

### ContextWindow, ContextPackets

A turn is a sequence of pieces, each with its length and whether it is of a
denied kind, with the words that tell so at its head or late in it. The window is
compacted at both levels and cut, at any moment and repeatedly; packets are
started for a role, for a review or by the mode of a project, get their injections
in any order and are cut to a budget.

`SummaryClean`: the summary a developer gets of its previous story holds nothing
denied, if the words stand at the head of a turn (late ones are cut off by the
compaction, and the text passes). `PacketSound` is two things. `PacketForRole`: a
packet holds what its role requires, what may be injected for it, and the text of
registered skills of the role only, also when one depends on a skill that is
quarantined or another role's. `DependenciesFirst`: no skill stands before one it
depends on, whatever is cut and sorted after the skills were injected; the history
variable `loads` is there because it need not hold once they are injected twice. The
visit of `sortByDependencyOrder` is a function of its depth, which is no more than
the number of skills, since a longer path comes back to itself and is a cycle, which
throws. Of two skills with one id only the last is found, and it is placed once.
`WarningsKept`: what is pinned or warns survives a cut, unless all of that is over
the budget by itself, and every skill that is found or is quarantined has warned once
the skills are injected, its text left out or not. By the code, each compaction pins
the turns that are first and last at that moment for good, so the "hard cap" of
`configs/context_manager.yaml:25` is none (`HardCap` fails); a cut may keep a skill
and drop one it depends on; the verdict of `validateContextPacket` is logged and
nothing more.

### SkillGate

Tests once, then `robustnessRuns` times, then the audit and the verdict; the
author may rework the skill and come again. Each run of a test may pass or fail
if it is flaky. An executor that counts is one case, `DEFAULT_EXECUTOR`, which
reads pytest's output, the other. A run of the default one may also not come about
(`NotRun`): pytest is missing, killed or stopped by an error of its own, which is
caught and read as 0 of 1, so that a sound skill can be quarantined for "test
failures" without one. An executor of the caller's may throw in the middle instead.
`VerdictEarned` says what a verdict is worth under either: what is registered was
run, the reason given for a quarantine is true of the runs as they were made
(`first`, `unfailing`, history) and not only of what they answered, and a skill that
was flawless in them is registered; `RegisteredPasses` is what the header of the file promises, and
does not hold under the default one. By the code, tests run in the skill's own
directory and not in a disposable one, `iterationBudget` is read by nobody, a skill without
listed tests is run for robustness all the same, and the verdict is returned and not
written into `skill.json`.

## Runs

| Run | Properties | Bounds | Distinct states |
|---|---|---|---|
| `orchestrator` | `AttemptBudgetKept`, `AuditTrailComplete`, `RunHalts`, `ImplementsLifecycle`, `TablesAgree` | 3 stories, every dependency relation with its cycles, attempt budgets 2, 1 and 0, run budget 14, at most 16 ticks | 1 065 656 |
| `orchestrator_checkpoint` | finding: `DoneHasCheckpoint` fails | 2 stories | until violated |
| `scheduler` | `NoConcurrentOverlap`, `HonestOutcome`, `IntegrationInOrder`, `Terminates`, `ImplementsContract` | 3 stories, every class and every overlap, 4 shapes of dependencies, run budget 2, 2 files | 1 060 457 |
| `trace_log` | `ChainIsExact`, `AnswersTrue`, `ViewInOrder` | 3 processes, 4 events, gates of 3 types and 3 policies with and without security, 2 retries, 2 filters, 2 polls under way | 1 780 912 |
| `run_budget` | `OverrunBounded`, `NoCallAfterKill` | 3 workers with 2, 1 and 1 callers in a pool made for 2, 5 calls and 7 tokens in all, answers of 1 or 3 tokens, at most 4 calls of a worker | 390 705 |
| `debug_loop` | `EveryFailureCounted`, `RecurringEscalates`, `ConsolidationSeparates` | 5 signals, 2 attempts, 2 active genes, threshold 2, 4 failures, 2 candidates, 4 diagnoses, 4 seeded files | 5 548 395 |
| `promotion` | `TypeOK`, `ExportComplete`, `RecordMatchesExport` | 2 stories, 3 records, a crash of either process at any step | 2 449 252 |
| `inner_loop` | `CheckpointVerified`, `WritesContained`, `FirstValidAnswers`, `WorkspaceRemoved`, `StoreWhole`, `SessionKept`, `PortReleased` | 5 sorts of paths, 3 repairs, 4 routings, 6 settings of the gates, 3 scripts; 2 processes, 3 token pairs | 179 677 |
| `skill_gate` | finding: `RegisteredPasses` fails | as `context` | until violated |
| `backlog` | `BacklogValid`, `AdmissionSound`, `EveryStorySettles`, `BootstrapWhole`, `IntakeDocumented`, `SharedPathsGuarded`, `WorkingStaysWorking` | 2 components and 1 or 2 added stories, 1 WIP per epic, budget 6, 3 messages, 1 report; a template of 2 files and a foreign one; 2 imports, 2 edits, 5 stories over 3 files and a glob, 3 tests of which 1 is flaky, 2 changes | 114 977 |
| `task_graph` | `StuckMeansAbandoned` | 4 tasks, 2 files | 531 659 |
| `context` | `SummaryClean`, `PacketSound`, `WarningsKept`, `VerdictEarned` | 6 turns, 2 compactions, 3 injections, budgets 40 and 80, 4 libraries, 2 skill tests, 5 robustness runs, 2 verdicts | 875 905 |

Each of the following properties fails, and shows a place where a comment and
the code part. They are not among the runs; for the trace of one, put it in the
place of the properties of the configuration.

| Property | Configuration | What it shows |
|---|---|---|
| `CompleteMeansDone` | `MCOrchestratorCheckpoint.cfg` | a run reports `all_stories_complete` when what is left waits on each other or on a story that is not there |
| `WorkspacesReleased` | `MCScheduler.cfg` | the parallel scheduler does not release the workspaces of its batches on a normal return |
| `EveryCallTracked` | `MCRunBudget.cfg` | calls that fail are not charged to the budget that guards them |
| `SoleWriterValid` | `MCTraceLogSole.cfg` | `recordSpawnPlan` breaks the hash chain of the trace it writes to, with one writer |
| `PromotionApproved` | `MCPromotion.cfg` | a promotion needs no approval on record |
| `CheckedRouteResolves` | `MCInnerLoop.cfg` | a routing that passed the check throws when it is called |
| `SavedBankLoads` | `MCDebugLoop.cfg` | genes of the loop are lost by a save and a load |
| `HardCap` | `MCContextWindow.cfg` | a window that is compacted often is never cut |

Why the bounds are enough. A story of the orchestrator that passes at once takes
six ticks and one retry takes four more, so 14 ticks hold a story with a retry
followed by the next one up to its validation, or two whole stories; the budget
can run out in every phase, and the two ticks past it show that only a stop
follows. Attempt budgets 2, 1 and 0 are: one retry, none, and a story that
escalates before its first patch. With three stories a chain of overlaps joins
two that do not overlap, a batch of two follows a batch of one and passes the
budget of 2, and a join waits for two stories of one batch; two files let one be
edited and the other merely held. Two processes are enough to fork a trace;
three keep two stale reads pending over the third's append; two slots let answers of the
server overtake each other. A share of 2 calls and two callers let the overrun of one happen,
with a fourth call to show that it is the last; the odd totals make rounding
matter. Of the signals, neighbours share a token and the ends do not, so
that which of them merge depends on the order; with four failures a signal
recurs, the bank is full at two genes, and a third is merged or dropped; two
candidates race for one, two and four directions. Three records hold a review, a
promotion and a rollback or a second promotion; two stories let a commit fail for one and work for the
next. Three repairs let a failed one stay under a failed one; each sort of path
is there once. Three token pairs let a refresh be refreshed and an old one come
back late. The six stories of two components, one or two added ones, a limit of one per epic
and a budget of six make every gate close; a third component adds no new shape. Of the
five stories about a repository two share a file by name; three name one glob, which covers
that file and another; of these one is not about existing code and one froze a file
the glob covers; and one freezes nothing and is exclusive all the same. Two edits
fall before, between and after two scans. Two changes are one that is refused
and one that is accepted, in either order. Six turns are compacted twice with
turns between; three injections are all that a role gets. One library has a skill that
depends on a quarantined one and another role's, one a chain that is listed backwards with a text
longer than the smaller budget and within the larger, one two skills of the same id, one a cycle. Two verdicts let
a skill be quarantined, reworked and registered.

Deadlock checking is off where a model stops because the program does, or at a
bound: an orchestrator at a gate, a scheduler that returned, a trace with no
events left, a driver that ended. `TaskGraph`, `RunBudget` and `DebugLoop` are checked
for deadlock.

Symmetry is used in `trace_log` alone, over processes, where no property is
temporal.

Fairness. `Orchestrator`: weak fairness of ticks while the tracker is neither at
a gate nor stopped, because that is when the drivers of the repository
(`runTicks` in the tests, the scripts) loop; nothing is assumed about gates being
cleared or about the answers. `Scheduler`: weak fairness of the scheduler's
continuations (the event loop runs them) and of each inner loop's end, which is a
callback; a callback that never settles hangs the call, as it does in the code.
`InnerLoop`: weak fairness of its step: the script is one async function, so what
is assumed is that providers answer and commands return. `Backlog`: weak
fairness of selecting, of starting and of ending stories, for
`EveryStorySettles`, whose premise also says that holds are released, the wave
stays open and the harness is not restarted for ever. The other parts promise
nothing in time: no call of a provider has a timeout, and nobody must poll.

## Proofs

Every theorem is about the specification the runs check, for all values of the
constants that satisfy the assumptions named in its module. Most properties are
not inductive as they stand; what follows is what they needed beside them.

**`OrchestratorProofs`**, for every backlog, rank, budget and bound:
`TypeCorrect`, `OneInFlight`, `DependenciesFirst`, `AttemptsWithinBudget`,
`AuditTrail`, `StopFinal`, `Refinement` and `Tables`, from the assumptions stated in
`Orchestrator` (stories are among the ids and differ from `NoStory`, the rank is
injective, budgets are naturals).
The strengthening `IInv` adds:
`ActiveInv` (there is an active story in exactly the phases that work on one),
`PhaseInv` (how the phase, the last verdict and the active story's status go
together: in `validate` with a verdict `passed`, the status is `passed`, and so
on), `LogInv` (what the last one or two decisions are in `validate` and
`checkpoint`, which is what makes the audit trail provable), and `BudgetInv`
(past the budget the tracker is stopped). Each lemma about a step splits `Next`
into its actions, and under it the conjuncts the action can disturb. Dependencies stay done because no action takes a story out of
`done`: every `SetStatus` is on the active story, which `PhaseInv` shows is not
done, or on a candidate.
The refinement maps a story's status to its phase in `StoryLifecycle`, and "a
patch is waiting for its verdict" to `state = "validate"` with no verdict; the
step lemma shows each action to be one abstract action or a stutter.
`Tables` is about the older engine and the supervisor, which look at a budget where the
orchestrator does not. `LeftInv` says what a story has left of it there: all of it before its first
patch, some of it whenever the debugger has been called. The rest is the three tables side by side (`StepTables`), one case
for each decision.

**`InductionLemmas`** is about no part of the program. `SetInduction`, `SequenceInduction` and
`Recursion` are induction and recursion stated for sets, from the well-foundedness of the order of
the naturals: they stand in where a theorem with an operator as its parameter would be needed. `Enumeration`:
a finite set has an order of its elements along any strict total order. The operations of
`Arrays` are recursive functions, so that what they return can be proved: `PickedIs` (what is
picked is of the kind of the elements at its places), `SelectAppend`, `SelectConcat`,
`SelectAll`, `SelectNone`, `SelectIs` and `SelectRange` of filtering, and `ReduceIs` of reducing: over the
empty sequence it is the base, and one element more is one step more. `Pairwise` says that the pairs
of a sequence, in its order, are in a relation; `PairwiseConcat` and `SelectPairwise` say what becomes of it.

**`SchedulerProofs`**, for any finite backlog, whatever its dependencies (cycles
and unknown ids too), classes and overlaps: `NoOverlap`, `Honest`, `Refinement`,
`Integrated` and `Merged`. `RunInv` ties the inner loops that run to the batch of this
turn, which was chosen free of overlaps; without it a loop that outlives its turn
could meet the next batch. A dispatchable set is never empty because ranks are
well founded. `TurnInv` says that whatever a turn took up is settled, with its
checkpoint, before the next turn begins, and `CountInv` that no turn counts an
iteration without completing a story, which is why `completed` bounds the
iterations. The contract is implemented because each step of the code is one of
its steps or a stutter. `Integrated` carries all three over to the caller that
merges what a call leaves. `Merged` is what that merge leaves, for any files and
workspaces: `Merges` says of the first n stories in the order of ids what they put
into the tree, `MergeStep` that one more keeps it. The merge is a recursive
function, not a fold, so that this can be proved for every batch: `MergePass` says that
the recursion is defined.
`IdOrder`: a finite set of stories has exactly one place for each of them in the
order of ids. `NoStoryAssumption` keeps "no conflict" apart from a story in conflict.

**`TraceLogProofs`**, for any number of processes, events, gates and retries:
`TypeCorrect`, `Chain`, `Answers`, `RecordedChain`, `InOrder`. `ChainInv` needs that nothing
is lost and no hash is used twice while the file can be read (`EventsKept`), and
that an event names its predecessor exactly when its recorder had seen that one
(`LinksTell`); then an event of a stale recorder is one the validator refuses,
and no other is. `TailsAssumption` says that no event is mistaken for the absence
of one or for a torn line. `Answers` adds `Filed` and `NoticeInv`, how far a
notification has come with how many attempts (`RetriesAssumption`).
`InOrder` is about the viewer, for any filters and number of polls, beside any writers (`ViewSpec`; TLC's
run lets no two writers overlap). `ViewInv`: what is shown, and every answer still under way, was in
the file, comes once, and under one filter is a prefix of what the filter lets
through. Of two prefixes one goes on where the other ends (`PrefixesMeet`), so what is fresh in an
answer is the rest of it or nothing (`FreshIs`), whichever comes first. Filtering is `Select` of
`Arrays`, with its lemmas.

**`LimitProofs`**, first about `RunBudget`: `TypeCorrect`, `CallOverrun`, `TokenOverrun`,
`Overrun` and `KillSwitch` for any finite sets of workers and callers and any totals. The two
bounds are inductive by themselves, given the types: a call is admitted below the
share, and then no more calls are in flight than there are callers; a settled
call only moves from one summand to the other. What the kill switch needs is
`KillInv`: once it is thrown, no registered worker has a live guard.
Then about `SkillGate`: `Earned`, for any finite set of tests, any thresholds and any number
of fresh runs. `GateInv` adds `RunsTell` (of the fresh runs no fewer passed than were flawless)
and `ResultTells` (the answer the decision looks at is that of the first run, as it was made);
`RunTells` is what one answer says of its run, which is where a pytest that did not run and one that
failed are told apart. The count of failures a threshold lets pass then follows from
the sizes of two disjoint sets.
Then about `DebugLoop`, for any signals, seeds, ids and limits: `FailuresCounted`,
`Escalates` and `Consolidates`. What a bank counts is the size of a set (`Occurrences`: a pair for each
occurrence of each active gene), so that banking a failure is one more element (`CountedMore`,
`CountedAppend`). `ConsolidatedIs` is an induction over the genes in their order: what is kept of
the first n is active, shares no token, and counts as many occurrences as those n. Sorting is a
choice of an order of the places, which exists by `Enumeration`; consolidating, and banking the
losers of a race, are recursive functions. For `Escalates` the bank has to know of every failure of
a signature (`Known`: one gene, the first active one it hits, counts as many). A failure that is
banked is known (`BankKnows`), and so are those of the losers of a race; pairing a gene loses only
what it counts (`ResolvedKnows`); and in the induction over a consolidation, what is kept gathers
the genes of a signature that are together in one place (`Gathers`, `MergeIntoGathers`).
`RecentInv` is that the bank of each process knows of what `recent` says. The
invariant `BankInv` is the count with the types and with `AtWork`: a process at a failure has a signal of one,
which is why a second loser always meets the gene of the first. `SignalsAssumption` is that a
signal is not empty, which a failure type guarantees.
Then about `ContextWindow`: `Clean`, for any pieces, thresholds, rate and number of compactions. A set
of pieces is `Closed` if cutting one short, a space after it and the words of a summary leave it; what a
window consists of then stays in that set through both levels and the sliding window (`Compacted`). Two such
sets make the invariant `WindowInv`: all pieces, and, as long as no late mark was said, the pieces
that tell at their head when they are denied (`Telling`). A turn without a mark consists of pieces of a
third one, those not denied, and so does the summary of such turns. `PiecesAssumption` is the
kinds of pieces the property is about: a denied one has a mark somewhere.
Last about `ContextPackets`, for any library, artifacts, roles and budgets and any
number of injections and cuts: `Sound`, `Warning` and `Acyclic`. `PacketInv` joins
`WindowInv`: each section belongs to the role, each text is of a skill that was
selected, and until skills are injected a second time the packet is `Pairwise` in
`SkillOrder` (of two texts with the same priority, the first does not depend on the
second). Sorting is stable insertion (`InsertedIs`, `ByPriorityIs`): it keeps every
relation that holds across priorities (`AcrossPriorities`), which `SkillOrder` does
and which is why no cut disturbs the order (`CutIs`). What is protected is at the
front of what is sorted, and the budget that holds all of it is not spent on anything
before (`SortedWeight`, `FitKeeps`). The visit of dependencies is an induction over
its depth: unless a cycle is met, what it returns extends what it was given, keeps
dependencies first (`Settled`), has the visited id in it and the stack as it was
(`VisitIs`, by `VisitOne` and `VisitAll`), and so the tour ends with every skill,
each after what it depends on (`DependencyOrder`). There is no cycle when there are
`Ranks` that fall along the dependencies, which a finite relation has exactly if it
has no cycle; a visit that is deeper than the rank of what it visits then ends
without one (`FreeOne`, `FreeAll`). So only a cycle rejects, and what the other
theorems say of a tour that did not meet one is said of every library without one.
`LastOfKind` finds the last skill of its kind and id of a library among those that
are selected. `PacketAssumption` is the types of the inputs, and that a packet's role
has a list of required sections.

**`InnerLoopProofs`**, for any paths, routings, scripts and number of repairs:
`TypeCorrect`, `Checkpointed`, `Contained`, `FirstAnswers`. The loop's invariant
`LoopInv` joins that of the providers, because what a provider answers is what is
applied. `CountsInv` counts patches against repairs, `CheckpointInv` says that
nothing is patched after the checkpoint. `AllowedIsUnguarded` is the lemma about
the permission gateway: what its first applying rule allows is neither a secret
nor protected. For the route, `CalledInv` says that what was called is the route
up to where the call is and that all of it but the last has failed, and `GatedInv`
that a live adapter means open gates. A route may name a reference twice, which
the statement allows for. `ConfigsAssumption` and `OutputsAreAssumption` say that
`None` is neither a reference nor an output.

The same module proves `CodexAuth`, for any number of processes and of token pairs:
`AuthTypeCorrect`, `Port`, `Whole`, `Session`. `SaveInv`: as long as no two save at
once, the writer has the `.tmp` file to itself and renames what it wrote.
`TokenInv`: a token not stored yet is live, and a stored one that is retired has
its successor in the hands of a process about to store it. The types need
`FilesOK` and `IssuedFile` (a file holds a pair that was issued), which no single
action shows. `NobodyAssumption`: no process is named like a file.

**`ProjectProofs`**, for any template, repository, stories and tests:
`TaskTypes`, `Stuck`, `Bootstrapped`, `Documented`, `SharedGuarded`,
`KeepsWorking`. `TasksInv`: dependencies point back (`PointBack`), so that the
first pending task waits for none that is pending, and one task is in progress
(`SingleThread`). `ProjectInv`: how much of the template a call has written, over
whatever an earlier one left, and what an outcome vouches for until the next call.
`TakeoverInv` has a part for each part of `Brownfield`: `DocsTell` (both documents
of an output tell of one import that returned), `StoryInv` (the hot paths hold what
any two stories share whose write sets are the ones they were taken with), and
`TestInv` (what worked is in the baseline, which nothing replaces). The assumptions
are that the template is a sequence of its files without repetition, that stories
are finitely many records of their type, and that `Unknown` and `Absent` differ
from what is known and present.

The same module proves `Promotion`, for any number of stories and of records: `TypeCorrect`,
`Export`, `RecordTells`. `Types` says where each process can be and what the
run state it holds is; `BuiltInv` that what any copy of the run state (the file,
the `.tmp`, in memory) calls done is in the working tree; `ExportInv` that a copy
not yet on record is as complete, and that a rollback empties what has a promotion
on record; `LastInv` that there is a last record about a target.
`NamesAssumption`: an absent or torn file is neither a workspace nor a tree.

**`BacklogProofs`**, for every idea (any number of components and of added stories below the
width of the ids), every sequence of messages, reports and showcases, every hold and closed wave:
`Admissions`, which is `AdmissionSound`, `Sortable`, which is `BacklogValid`, and `PlannedIds`. Every
step is one of four kinds (`Kinds`): stories are added at the end, a selection, a start, an end.
`RunningInv`: the list of running stories has the stories in progress, each once, and what is
offered is still to do. `PlanInv`: what is added neither has a planned id nor waits for an added
story, which needs that the showcase counter stays below what was added (`AddedMore`) and that the
ids generated for n components differ (`GeneratedIds`). A dependency is looked up in a map by id
in which the last of several stories with an id wins; `PlannedDone` shows that for planned ids
that is the only one, so what is done stays done (`DepsInv`). `CarefulInv`: what a careful caller
may still start would keep each limit if it were started now, because until the next start stories
only end, and a story is queued beside fewer others only if it was beside more (`QueuedShrinks`).
`QueuedOrder` gives the pairs that may run together though they share files.
`Linked` adds that a story waits for lesser ids of the backlog (`GeneratedLinked`: those of its own
plan); with `PlanInv` that makes the backlog a `Graph`, in which an id that repeats neither waits nor
is waited for. For such a list the recursion of `TopologicalSort` is defined (`Sorting`) and keeps
`KahnInv`: a degree is the number of pairs of a story and something it waits for that is not in the
order yet (`LessLeft`), an id without such pairs is in the order or in the queue, as often as there
are stories with it, and what is in the order stands after what it waits for. The queue runs empty
within the steps the recursion makes, because order and queue never hold more than there are stories;
and once it is empty nothing waits (`NoneWaits`): the least id that did would wait for a lesser one
that does. `IdeasAssumption` and
`IdsAssumption` say what an idea is, and that the numbers standing for ids of one kind stay below
the next kind, as prefixes of strings do.

Model-checked only:

- liveness (`RunHalts`, `Terminates`, `WorkspaceRemoved`, `EveryStorySettles`),
  which the prover cannot do under fairness.

## What the checks found

1. A failed checkpoint is followed by `mark_story_done` all the same
   (`orchestrator_checkpoint`).
2. A skill is registered with a failing test: the default executor reads "3
   passed, 1 failed" as 3 of 3 (`skill_gate`).

And what the properties above that fail show, and the sections on the modules tell
under "by the code".

## Plan

All parts that are planned are modelled, and every safety property and refinement that a passing run
checks is proved. What stays with TLC is liveness, and the two findings. What could still be added is the
tier ladder of the model gateway and the validation of a packet, which is logged and decides nothing today.

## Not modelled

Text: formatting, wording, redaction, glob matching, schemas, how a path is
spelled (globs are paths of their own, with a relation of overlap); the schedulers sort ids by
`localeCompare` in one place and by code units in another, which is one order
(`Rank`) here. Skills and the summary of the previous story are injected by
`opts.role`, which the model takes for the role of the packet, as every call in the tests does. A torn line of
the trace has lost a part of its text, not its newline alone. `checkHumanGate`. Pure input and output: the web interface but its stream, the API, shell
commands, HTTP adapters. Of the model gateway, the tier ladder, the validation
of keys and the evaluation of models; of the tracker, `buildResumeSummary`. Settings: parsing and merging. The compiled `.js` twins of some
sources are the same code again. Each part is listed in `PROJECT.json` with its
reason. The models stand for about a third of the implementation's lines; the
rest is the twins, the interface, types, and text.
