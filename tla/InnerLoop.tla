----------------------------- MODULE InnerLoop -----------------------------
(***************************************************************************)
(* One story from its packet to its result, by either of two drivers.      *)
(* full-loop-skeleton: a developer proposal along the route of providers,  *)
(* the advisory preflight, the specification gate, the permission gateway  *)
(* and git apply, the validation commands, and repairs until one passes or *)
(* the attempts are spent; then a checkpoint.  walking-skeleton: the       *)
(* commands are run before the proposal as well, there is no preflight and *)
(* no repair, and the story is validated by a patch that makes a failing   *)
(* validation pass.  Everything happens in one disposable workspace which  *)
(* is removed at the end, however the loop ends.                           *)
(*                                                                         *)
(* A patch declares files and its text touches files, and nothing in the   *)
(* program compares the two.  What a patch does to a file is left out: a   *)
(* tree is known by the patches applied to it.                             *)
(***************************************************************************)
EXTENDS ToolPolicy, Providers, FiniteSets

CONSTANTS
  MaxAttempts,
  Own,         \* the workspace of this story
  Neighbours   \* other workspaces in the same registry

ASSUME MaxAttemptsAssumption == MaxAttempts \in Nat

VARIABLES
  driver,      \* "full" or "walking"
  baseline,    \* the walking driver's verdict before the proposal, or "none"
  pc,
  disk,        \* the workspace's directory is there
  registered,  \* the registry confirms it as disposable
  answer,      \* the developer's output, or None
  preflight,   \* the verdict of the preflight, or "none"
  patches,     \* patches git has applied
  tree,        \* files they have touched
  honest,      \* history: each of them touched only what it declared
  verdict,     \* the last verdict and how many patches it was given on
  attempts,    \* repairs asked for
  checkpoint   \* what the result of a successful loop says, or None

loopVars == <<driver, baseline, pc, disk, registered, answer, preflight, patches, tree, honest,
          verdict, attempts, checkpoint>>
vars == <<loopVars, providerVars>>
work == <<patches, tree, honest>>

Proposal ==
  [kind : {"patch_proposal"}, complete : BOOLEAN, conforming : BOOLEAN,
   declared : SUBSET Paths, touched : SUBSET Paths]
Escalation == [kind : {"escalation"}, complete : BOOLEAN]

ASSUME OutputsAssumption == Outputs \subseteq Proposal \cup Escalation

Init ==
  /\ ProvidersInit
  /\ driver \in {"full", "walking"} /\ baseline = "none"
  /\ pc = "off"
  /\ disk = FALSE /\ registered = FALSE
  /\ answer = None
  /\ preflight = "none"
  /\ patches = 0 /\ tree = {} /\ honest = TRUE
  /\ verdict = [passed |-> FALSE, on |-> 0]
  /\ attempts = 0
  /\ checkpoint = None

(* WorkspaceRegistry: the workspaces of the process that are registered.   *)
Registry == Neighbours \cup (IF registered THEN {Own} ELSE {})

(* createDisposableWorkspace.  The registry is told last, and git may      *)
(* throw before that, outside the try.                                     *)
Create ==
  /\ pc = "off" /\ ~disk
  /\ disk' = TRUE
  /\ \/ registered' = TRUE /\ pc' = "seed"
     \/ UNCHANGED registered /\ pc' = "over"
  /\ UNCHANGED <<driver, baseline, answer, preflight, work, verdict, attempts, checkpoint, providerVars>>

(* Mutant of Leave: an early return that is outside the try.               *)
LeaveUncleaned == pc' = "over" /\ UNCHANGED <<attempts, checkpoint>>

(* Every return and every throw inside the try lands in its finally.       *)
Leave == pc' = "cleanup" /\ UNCHANGED <<attempts, checkpoint>>

(* seedFile and commitAll, which throws when git does.                     *)
Seed ==
  /\ pc = "seed"
  /\ \/ /\ pc' = (IF driver = "walking" THEN "baseline" ELSE "model")
        /\ UNCHANGED <<attempts, checkpoint>>
     \/ Leave
  /\ UNCHANGED <<providerVars, driver, baseline, disk, registered, answer, preflight, work, verdict>>

(* The verdict before the proposal is looked at in the end only.           *)
Baseline(passed) ==
  /\ pc = "baseline"
  /\ baseline' = IF passed THEN "passed" ELSE "failed"
  /\ pc' = "model"
  /\ UNCHANGED <<providerVars, driver, disk, registered, answer, preflight, work, verdict,
                 attempts, checkpoint>>

(* The process brings its providers up and checks its routing, or goes to  *)
(* the next provider of the route: the last one threw or gave no valid     *)
(* response.                                                               *)
Model ==
  /\ pc = "model"
  /\ RegisterLocal \/ Bootstrap \/ CheckModels \/ CheckRouting \/ StartCall \/ ProviderFails
  /\ UNCHANGED loopVars

(* The first valid response ends the call; an escalation is not acted on.  *)
ModelAnswers(o) ==
  /\ pc = "model"
  /\ ProviderAnswers(o)
  /\ IF o.kind = "patch_proposal"
     THEN /\ answer' = o
          /\ pc' = (IF driver = "walking" THEN "gate" ELSE "preflight")
          /\ UNCHANGED <<attempts, checkpoint>>
     ELSE Leave /\ UNCHANGED answer
  /\ UNCHANGED <<driver, baseline, disk, registered, preflight, work, verdict>>

(* A check of the routing fails, the route does not resolve, or no provider of  *)
(* it has answered.                                                        *)
NoAnswer ==
  /\ pc = "model" /\ registry # {}
  /\ \/ route = None /\ ~RoutingRegistered(config)
     \/ route = None /\ ~Resolvable(RouteOf(config))
     \/ Exhausted
  /\ Leave
  /\ UNCHANGED <<driver, baseline, disk, registered, answer, preflight, work, verdict, providerVars>>

(* decidePreflightNext.                                                    *)
PreflightNext(passed, selfCorrections, sameSignature) ==
  IF passed THEN "submit"
  ELSE IF sameSignature >= 2 \/ selfCorrections >= 2 THEN "escalate"
  ELSE "self_correct"

(* runPreflight as the skeleton calls it: a command that is not allowed    *)
(* escalates, the results are the caller's, and it has tried nothing yet.  *)
(* Its verdict is written down and not looked at.                          *)
Preflight(commandsAllowed) ==
  /\ pc = "preflight"
  /\ preflight' = IF commandsAllowed THEN PreflightNext(TRUE, 0, 0) ELSE "escalate"
  /\ pc' = "gate"
  /\ UNCHANGED <<providerVars, driver, baseline, disk, registered, answer, work, verdict, attempts, checkpoint>>

(* specConformanceGate: the proposal has what it needs, rollback notes and *)
(* declared files in the write set.  The contract's criteria can be checked. *)
Conforms(o) == o.conforming /\ WithinWriteSet(o.declared)

SpecGate ==
  /\ pc = "gate"
  /\ IF Conforms(answer)
     THEN pc' = "apply" /\ UNCHANGED <<attempts, checkpoint>>
     ELSE Leave
  /\ UNCHANGED <<providerVars, driver, baseline, disk, registered, answer, preflight, work, verdict>>

WriteRequest(file) ==
  [mode |-> "bypass_workspace", tool |-> "apply_patch", isWrite |-> TRUE,
   command |-> {}, targets |-> {file}, opensNetwork |-> FALSE, usesSecretHandle |-> FALSE]

(* Mutant of MayApply: the gateway is asked about the first file only.     *)
MayApplyFirst(declared) ==
  /\ WithinWriteSet(declared)
  /\ \E file \in declared : Evaluate(WriteRequest(file), Registry, FALSE) = "allow"

(* applyProposal before git: every declared file is in the write set, and  *)
(* the gateway allows each of them.                                        *)
MayApply(declared) ==
  /\ WithinWriteSet(declared)
  /\ \A file \in declared : Evaluate(WriteRequest(file), Registry, FALSE) = "allow"

(* applyPatch: git applies all of a patch or throws, as it does when there *)
(* is nothing in it or a path leads out of the workspace, into another one *)
(* of the registry or not.                                                 *)
Apply(o) ==
  /\ o.touched # {} /\ \A path \in o.touched : Home[path] = Own
  /\ patches' = patches + 1
  /\ tree' = tree \cup o.touched
  /\ honest' = (honest /\ o.touched \subseteq o.declared)

(* Nothing looks at the proposal once it is applied.                       *)
ApplyProposal ==
  /\ pc = "apply"
  /\ \/ /\ MayApply(answer.declared)
        /\ Apply(answer)
        /\ pc' = "validate" /\ UNCHANGED <<attempts, checkpoint>>
     \/ Leave /\ UNCHANGED work
  /\ answer' = None
  /\ UNCHANGED <<providerVars, driver, baseline, disk, registered, preflight, verdict>>

(* runValidation: what the commands say of the tree as it is.              *)
Judged(passed, on) == verdict' = [passed |-> passed, on |-> on]

Record(status) ==
  /\ checkpoint' = [debug_loop |-> status, preflight |-> preflight]
  /\ pc' = "cleanup"

Validate ==
  /\ pc = "validate" /\ driver = "full"
  /\ \/ Judged(TRUE, patches) /\ Record("skipped")
     \/ /\ Judged(FALSE, patches)
        /\ pc' = (IF MaxAttempts = 0 THEN "cleanup" ELSE "repair")
        /\ UNCHANGED checkpoint
  /\ UNCHANGED <<providerVars, driver, baseline, disk, registered, answer, preflight, work, attempts>>

(* The walking driver's result: validated unless the commands had passed   *)
(* before the patch, too.                                                  *)
ValidateWalking(passed) ==
  /\ pc = "validate" /\ driver = "walking"
  /\ Judged(passed, patches)
  /\ IF passed /\ baseline = "failed"
     THEN Record("none")
     ELSE pc' = "cleanup" /\ UNCHANGED checkpoint
  /\ UNCHANGED <<providerVars, driver, baseline, disk, registered, answer, preflight, work, attempts>>

Usable(o) ==
  ValidResponse(o) /\ o.kind = "patch_proposal" /\ WithinWriteSet(o.declared)

(* No usable output from the debugger, one of another kind, or one outside *)
(* the write set: runDebugLoop ends without a validated repair.            *)
RepairRefused(o) ==
  /\ pc = "repair"
  /\ ~Usable(o)
  /\ attempts' = attempts + 1
  /\ pc' = "cleanup"
  /\ UNCHANGED <<providerVars, driver, baseline, disk, registered, answer, preflight, work, verdict, checkpoint>>

(* runDebugLoop goes on while attempts are left.                           *)
AfterFailure == pc' = IF attempts + 1 < MaxAttempts THEN "repair" ELSE "cleanup"

(* The gateway or git refuses the repair: the tree is as it was.           *)
RepairNotApplied(o) ==
  /\ pc = "repair" /\ Usable(o)
  /\ attempts' = attempts + 1
  /\ AfterFailure
  /\ UNCHANGED <<providerVars, driver, baseline, disk, registered, answer, preflight, work, verdict, checkpoint>>

(* Mutant of RepairValidated: the validation is not run again.             *)
RepairTaken(o) ==
  /\ pc = "repair" /\ Usable(o)
  /\ MayApply(o.declared)
  /\ Apply(o)
  /\ attempts' = attempts + 1
  /\ Record("validated")
  /\ UNCHANGED <<providerVars, driver, baseline, disk, registered, answer, preflight, verdict>>

RepairValidated(o) ==
  /\ pc = "repair" /\ Usable(o)
  /\ MayApply(o.declared)
  /\ Apply(o)
  /\ Judged(TRUE, patches')
  /\ attempts' = attempts + 1
  /\ Record("validated")
  /\ UNCHANGED <<providerVars, driver, baseline, disk, registered, answer, preflight>>

(* The repair is applied and does not pass: its changes stay in the tree   *)
(* under the next attempt.                                                 *)
RepairFails(o) ==
  /\ pc = "repair" /\ Usable(o)
  /\ MayApply(o.declared)
  /\ Apply(o)
  /\ Judged(FALSE, patches')
  /\ attempts' = attempts + 1
  /\ AfterFailure
  /\ UNCHANGED <<providerVars, driver, baseline, disk, registered, answer, preflight, checkpoint>>

(* cleanupWorkspace, in the finally.                                       *)
Cleanup ==
  /\ pc = "cleanup"
  /\ pc' = "over"
  /\ disk' = FALSE /\ registered' = FALSE
  /\ UNCHANGED <<providerVars, driver, baseline, answer, preflight, work, verdict, attempts, checkpoint>>

Repairing(o) ==
  \/ RepairRefused(o)
  \/ RepairNotApplied(o)
  \/ RepairValidated(o)
  \/ RepairFails(o)

Next ==
  \/ Create
  \/ Seed
  \/ \E passed \in BOOLEAN : Baseline(passed) \/ ValidateWalking(passed)
  \/ Model
  \/ Calling /\ \E o \in Answers : ModelAnswers(o)
  \/ NoAnswer
  \/ \E allowed \in BOOLEAN : Preflight(allowed)
  \/ SpecGate
  \/ ApplyProposal
  \/ Validate
  \/ pc = "repair" /\ \E o \in Outputs : Repairing(o)
  \/ Cleanup

(* Providers answer and commands return: neither has a timeout of its own. *)
Spec == Init /\ [][Next]_vars /\ WF_vars(Next)

-----------------------------------------------------------------------------
(* Properties.                                                             *)

(* Type invariant: a proposal is held from the model's answer on, and the  *)
(* registry confirms no workspace that is not on disk.                     *)
TypeOK ==
  /\ ProvidersTypeOK
  /\ driver \in {"full", "walking"} /\ baseline \in {"none", "passed", "failed"}
  /\ pc \in {"off", "seed", "baseline", "model", "preflight", "gate", "apply", "validate", "repair",
             "cleanup", "over"}
  /\ disk \in BOOLEAN /\ registered \in BOOLEAN /\ (registered => disk)
  /\ answer = None \/ answer \in Proposal
  /\ pc \in {"preflight", "gate", "apply"} => answer # None
  /\ preflight \in {"none", "submit", "escalate"}
  /\ patches \in 0..(MaxAttempts + 1) /\ tree \subseteq Paths /\ honest \in BOOLEAN
  /\ verdict.passed \in BOOLEAN /\ verdict.on \in 0..patches
  /\ attempts \in 0..MaxAttempts

(* A checkpoint is about the tree as it is: the commands passed on it      *)
(* after the last patch of all, the repairs included that failed before    *)
(* and stay in it (runDebugLoop, runValidation: "the sole source of        *)
(* pass/fail").  The walking driver's result also says that the patch is   *)
(* what made them pass.                                                    *)
CheckpointVerified ==
  checkpoint # None =>
    /\ patches > 0 /\ verdict = [passed |-> TRUE, on |-> patches]
    /\ driver = "walking" => baseline = "failed" /\ patches = 1

(* What the patches have changed is inside this workspace, also when the   *)
(* gateway takes a path into a neighbour's for contained, and, as long as  *)
(* every patch touched only what it declared, in the write set and nothing *)
(* the gateway guards (applyProposal checks what is declared, git applies  *)
(* what the text says).                                                    *)
WritesContained ==
  /\ \A path \in tree : Home[path] = Own
  /\ honest => tree \subseteq WriteSet \ (Secrets \cup Protected)

(* A registered workspace is removed from the disk and from the registry   *)
(* however its loop ends (the finally of runFullLoopSkeleton).             *)
WorkspaceRemoved == registered ~> (pc = "over" /\ ~disk /\ ~registered)
=============================================================================
