----------------------------- MODULE Promotion -----------------------------
(***************************************************************************)
(* From the last story to the export: the driver of scripts/e2e-greenfield *)
(* builds the stories of a run in one disposable workspace, reviews the    *)
(* run, promotes the workspace and removes it; an operator in another      *)
(* process loads the saved run state, answers the review prompt, promotes  *)
(* on its own and rolls promotions back.  Either process may die between   *)
(* what it does to the file system and what it records in the trace.       *)
(*                                                                         *)
(* Content is the set of stories whose patches it holds: of the working    *)
(* tree, of a commit, of an exported tree.  A commit's sha is its content. *)
(***************************************************************************)
EXTENDS Naturals, Sequences

CONSTANTS
  N,            \* stories of the run, each depending on the one before
  None,         \* a file or directory that does not exist
  Torn,         \* a file that is half written
  Foreign,      \* what a target directory may hold before any promotion
  MaxRecords    \* bound of the model: records in the trace

ASSUME BoundAssumption == N \in Nat /\ MaxRecords \in Nat

Stories == 1..N

Callers == {"driver", "operator"}

VARIABLES
  pc,       \* where the driver and the operator are
  run,      \* the run state each of them holds, or None
  file,     \* the saved run state
  tmp,      \* the .tmp file beside it, Torn while it is written
  built,    \* stories the scheduler has completed
  ws,       \* the workspace: [tree, head], or None
  target,   \* the directory each of them promotes to
  trace,
  torn,     \* the last line of the trace is cut short
  lost      \* history: targets changed by a call that did not live to record it

vars == <<pc, run, file, tmp, built, ws, target, trace, torn, lost>>

(* A checkpoint_sha: null, 'stub-no-git', or a commit with what it holds.  *)
Sha == [kind : {"null", "stub", "commit"}, holds : SUBSET Stories]
NoSha == [kind |-> "null", holds |-> {}]
Stub == [kind |-> "stub", holds |-> {}]
Commit(content) == [kind |-> "commit", holds |-> content]

RunState == [Stories -> [done : BOOLEAN, sha : Sha]]
Workspaces == [tree : SUBSET Stories, head : SUBSET Stories]
Targets == SUBSET (Stories \cup {Foreign})

(* Nothing that exists is taken for a file that does not, or is torn.      *)
ASSUME NamesAssumption ==
  /\ None # Torn /\ Foreign \notin Nat
  /\ None \notin Workspaces /\ \A content \in Targets : content # None
  /\ None \notin RunState /\ Torn \notin RunState

Record ==
  [type : {"human_review"}, outcome : {"approved", "denied"}]
    \cup [type : {"promotion", "promotion_rollback"}, of : Callers,
          held : SUBSET (Stories \cup {Foreign})]
    \cup [type : {"other"}]

FreshRun == [s \in Stories |-> [done |-> FALSE, sha |-> NoSha]]
AllDone(r) == \A s \in Stories : r[s].done
AllCheckpointed(r) == \A s \in Stories : r[s].sha # NoSha

(* buildReviewSummary, isPromotable and the guard of promoteWorkspace.     *)
Promotable(r) == AllDone(r) /\ AllCheckpointed(r)

Goto(c, label) == pc' = [pc EXCEPT ![c] = label]

(* The driver goes on to its finally; the operator's process ends, and the *)
(* next one loads the run state again.                                     *)
Leave(c) ==
  IF c = "driver" THEN Goto(c, "cleanup") /\ UNCHANGED run
  ELSE Goto(c, "idle") /\ run' = [run EXCEPT ![c] = None]

(* What every recorder does: reads the whole trace, which throws when a    *)
(* line is cut short, and appends.                                         *)
Recorded(r) ==
  /\ ~torn /\ Len(trace) < MaxRecords
  /\ trace' = Append(trace, r)
  /\ UNCHANGED torn

RecordThrows == torn' \in {torn, TRUE} /\ UNCHANGED trace

Init ==
  /\ pc = [c \in Callers |-> IF c = "driver" THEN "off" ELSE "idle"]
  /\ run = [c \in Callers |-> None]
  /\ file = None /\ tmp = None
  /\ built = {}
  /\ ws = None
  /\ target \in [Callers -> {None, {Foreign}}]
  /\ trace = <<>> /\ torn = FALSE
  /\ lost = {}

-----------------------------------------------------------------------------
(* The driver.                                                             *)

(* loadOrInitProjectRunState: what is saved, or else a fresh state.        *)
Loaded(f) == IF f = None THEN FreshRun ELSE f

Start ==
  /\ pc["driver"] = "off"
  /\ Goto("driver", "build")
  /\ run' = [run EXCEPT !["driver"] = Loaded(file)]
  /\ ws' = [tree |-> {}, head |-> {}]
  /\ UNCHANGED <<file, tmp, built, target, trace, torn, lost>>

(* runInnerLoop resolves true: the patch is applied and validated.         *)
StoryPasses(s) ==
  /\ pc["driver"] = "build" /\ built = 1..(s - 1)
  /\ Goto("driver", "checkpoint")
  /\ ws' = [ws EXCEPT !.tree = @ \cup {s}]
  /\ built' = built \cup {s}
  /\ UNCHANGED <<run, file, tmp, target, trace, torn, lost>>

(* It resolves false, perhaps with the patch left in the tree: the         *)
(* scheduler escalates, and the driver leaves through its finally.         *)
StoryFails(s) ==
  /\ pc["driver"] = "build" /\ built = 1..(s - 1)
  /\ Goto("driver", "cleanup")
  /\ \E patch \in SUBSET {s} : ws' = [ws EXCEPT !.tree = @ \cup patch]
  /\ UNCHANGED <<run, file, tmp, built, target, trace, torn, lost>>

(* onCheckpoint gives every built story without a sha the one git names.   *)
SetSha(sha) ==
  run' = [run EXCEPT !["driver"] =
            [s \in Stories |-> IF s \in built /\ @[s].sha = NoSha
                               THEN [@[s] EXCEPT !.sha = sha] ELSE @[s]]]

Checkpoint ==
  /\ pc["driver"] = "checkpoint"
  /\ Goto("driver", "build")
  /\ ws' = [ws EXCEPT !.head = ws.tree]
  /\ SetSha(Commit(ws.tree))
  /\ UNCHANGED <<file, tmp, built, target, trace, torn, lost>>

(* The commit fails and nobody is told: the sha is that of the commit      *)
(* before, or the stub when git does not name that one either.             *)
CommitFails ==
  /\ pc["driver"] = "checkpoint"
  /\ Goto("driver", "build")
  /\ SetSha(Commit(ws.head)) \/ SetSha(Stub)
  /\ UNCHANGED <<file, tmp, built, ws, target, trace, torn, lost>>

(* Mutant of SaveTmp: the state is written over the old one.               *)
SaveInPlace ==
  /\ pc["driver"] \in {"build", "review"} /\ tmp = None
  /\ tmp' = Torn /\ file' = Torn
  /\ UNCHANGED <<pc, run, built, ws, target, trace, torn, lost>>

(* persistProjectRunState: the .tmp file is begun, filled and renamed.     *)
SaveTmp ==
  /\ pc["driver"] \in {"build", "review"} /\ tmp = None
  /\ tmp' = Torn
  /\ UNCHANGED <<pc, run, file, built, ws, target, trace, torn, lost>>

SaveFilled ==
  /\ pc["driver"] \in {"build", "review"} /\ tmp = Torn
  /\ tmp' = run["driver"]
  /\ UNCHANGED <<pc, run, file, built, ws, target, trace, torn, lost>>

SaveRename ==
  /\ pc["driver"] \in {"build", "review"} /\ tmp # None /\ tmp # Torn
  /\ file' = tmp /\ tmp' = None
  /\ UNCHANGED <<pc, run, built, ws, target, trace, torn, lost>>

(* The steps of a save are synchronous: the driver does nothing between.   *)
Saving == tmp # None

(* The scheduler reports all_done and the statuses are copied over.        *)
SyncStatuses ==
  /\ pc["driver"] = "build" /\ built = Stories
  /\ Goto("driver", "review")
  /\ run' = [run EXCEPT !["driver"] = [s \in Stories |-> [@[s] EXCEPT !.done = s \in built]]]
  /\ UNCHANGED <<file, tmp, built, ws, target, trace, torn, lost>>

(* Steps 6 to 8: the summary is promotable and the approval is recorded.   *)
Approve ==
  /\ pc["driver"] = "review" /\ Promotable(run["driver"])
  /\ Recorded([type |-> "human_review", outcome |-> "approved"])
  /\ Goto("driver", "promote")
  /\ UNCHANGED <<run, file, tmp, built, ws, target, lost>>

ApproveThrows ==
  /\ pc["driver"] = "review"
  /\ RecordThrows
  /\ Goto("driver", "cleanup")
  /\ UNCHANGED <<run, file, tmp, built, ws, target, lost>>

(* finally: cleanupWorkspace, on every way out.                            *)
Cleanup ==
  /\ pc["driver"] = "cleanup"
  /\ Goto("driver", "ended")
  /\ ws' = None
  /\ run' = [run EXCEPT !["driver"] = None]
  /\ UNCHANGED <<file, tmp, built, target, trace, torn, lost>>

-----------------------------------------------------------------------------
(* Promotion, by the driver or by the operator.                            *)

Content(t) == IF target[t] = None THEN {} ELSE target[t]
PromotionOf(c) ==
  [type |-> "promotion", of |-> c, held |-> Content(c)]

MayPromote(c) ==
  /\ pc[c] = IF c = "driver" THEN "promote" ELSE "idle"
  /\ run[c] # None

(* Mutant of CopyOut: exports what is committed.                           *)
CopyOutCommitted(c) ==
  /\ MayPromote(c) /\ Promotable(run[c]) /\ ws # None
  /\ target' = [target EXCEPT ![c] = Content(c) \cup ws.head]
  /\ Goto(c, "copied")
  /\ UNCHANGED <<run, file, tmp, built, ws, trace, torn, lost>>

(* promoteWorkspace up to the copy, which adds to what the target holds.   *)
CopyOut(c) ==
  /\ MayPromote(c) /\ Promotable(run[c]) /\ ws # None
  /\ target' = [target EXCEPT ![c] = Content(c) \cup ws.tree]
  /\ Goto(c, "copied")
  /\ UNCHANGED <<run, file, tmp, built, ws, trace, torn, lost>>

(* cpSync throws, or the process dies, with a part copied.                 *)
CopyFails(c) ==
  /\ MayPromote(c) /\ Promotable(run[c]) /\ ws # None
  /\ \E part \in SUBSET ws.tree : target' = [target EXCEPT ![c] = Content(c) \cup part]
  /\ Leave(c)
  /\ lost' = lost \cup {c}
  /\ UNCHANGED <<file, tmp, built, ws, trace, torn>>

(* Not promotable, or no workspace to copy.                                *)
PromoteRejected(c) ==
  /\ MayPromote(c)
  /\ ~Promotable(run[c]) \/ ws = None
  /\ Leave(c)
  /\ UNCHANGED <<file, tmp, built, ws, target, trace, torn, lost>>

CopyRecorded(c) ==
  /\ pc[c] = "copied"
  /\ Recorded(PromotionOf(c))
  /\ Leave(c)
  /\ lost' = lost \ {c}
  /\ UNCHANGED <<file, tmp, built, ws, target>>

CopyNotRecorded(c) ==
  /\ pc[c] = "copied"
  /\ RecordThrows
  /\ Leave(c)
  /\ lost' = lost \cup {c}
  /\ UNCHANGED <<file, tmp, built, ws, target>>

-----------------------------------------------------------------------------
(* The operator.                                                           *)

LoadRun ==
  /\ pc["operator"] = "idle" /\ run["operator"] = None
  /\ run' = [run EXCEPT !["operator"] = Loaded(file)]
  /\ UNCHANGED <<pc, file, tmp, built, ws, target, trace, torn, lost>>

(* runReviewCLI: the prompt is shown for a promotable run only.            *)
Prompt ==
  /\ pc["operator"] = "idle" /\ run["operator"] # None
  /\ Promotable(run["operator"])
  /\ Goto("operator", "prompt")
  /\ UNCHANGED <<run, file, tmp, built, ws, target, trace, torn, lost>>

(* recordReviewDecision; a denial without a reason throws instead.         *)
Answer(outcome, reason) ==
  /\ pc["operator"] = "prompt"
  /\ outcome = "denied" => reason
  /\ Recorded([type |-> "human_review", outcome |-> outcome])
  /\ Leave("operator")
  /\ UNCHANGED <<file, tmp, built, ws, target, lost>>

AnswerThrows ==
  /\ pc["operator"] = "prompt"
  /\ RecordThrows
  /\ Leave("operator")
  /\ UNCHANGED <<file, tmp, built, ws, target, lost>>

(* The other recorders of harness-core: settings, backlog deltas, terminal *)
(* states, gate ticks, test integrity.  They change the trace only.        *)
RecordOther ==
  /\ pc["operator"] = "idle" /\ run["operator"] = None
  /\ Recorded([type |-> "other"])
  /\ UNCHANGED <<pc, run, file, tmp, built, ws, target, lost>>

Promotions(t) == {i \in DOMAIN trace : trace[i].type = "promotion" /\ trace[i].of = t}
Rollback(t) == IF t = "driver" THEN "removed-driver" ELSE "removed-operator"

(* Mutant of TakeBack: the directory is emptied and not removed.           *)
TakeBackContent(t) ==
  /\ pc["operator"] = "idle" /\ run["operator"] = None /\ Promotions(t) # {}
  /\ target[t] # None /\ ws # None
  /\ target' = [target EXCEPT ![t] = {}]
  /\ Goto("operator", Rollback(t))
  /\ UNCHANGED <<run, file, tmp, built, ws, trace, torn, lost>>

(* rollbackPromotion up to the removal of the whole target directory; it   *)
(* throws when the target or the source workspace is gone.                 *)
TakeBack(t) ==
  /\ pc["operator"] = "idle" /\ run["operator"] = None /\ Promotions(t) # {}
  /\ target[t] # None /\ ws # None
  /\ target' = [target EXCEPT ![t] = None]
  /\ Goto("operator", Rollback(t))
  /\ UNCHANGED <<run, file, tmp, built, ws, trace, torn, lost>>

TakenBack(t) ==
  /\ pc["operator"] = Rollback(t)
  /\ \E i \in Promotions(t) : Recorded([trace[i] EXCEPT !.type = "promotion_rollback", !.held = {}])
  /\ Goto("operator", "idle")
  /\ lost' = lost \ {t}
  /\ UNCHANGED <<run, file, tmp, built, ws, target>>

TakeBackNotRecorded(t) ==
  /\ pc["operator"] = Rollback(t)
  /\ RecordThrows
  /\ Goto("operator", "idle")
  /\ lost' = lost \cup {t}
  /\ UNCHANGED <<run, file, tmp, built, ws, target>>

-----------------------------------------------------------------------------
(* A process dies: the driver for good and with its workspace left behind, *)
(* the operator to be started again.                                       *)
Unrecorded(c) ==
  {t \in Callers : (t = c /\ pc[c] = "copied") \/ pc[c] = Rollback(t)}

Die(c) ==
  /\ pc[c] \notin {"off", "ended", "dead", "idle"}
  /\ Goto(c, IF c = "driver" THEN "dead" ELSE "idle")
  /\ run' = [run EXCEPT ![c] = None]
  /\ lost' = lost \cup Unrecorded(c)
  /\ UNCHANGED <<file, tmp, built, ws, target, trace, torn>>

Driving ==
  \/ Start
  \/ \E s \in Stories : StoryPasses(s) \/ StoryFails(s)
  \/ Checkpoint \/ CommitFails
  \/ SyncStatuses \/ Approve \/ ApproveThrows \/ Cleanup

Operating ==
  \/ LoadRun
  \/ Prompt \/ AnswerThrows \/ RecordOther
  \/ \E outcome \in {"approved", "denied"}, reason \in BOOLEAN : Answer(outcome, reason)
  \/ \E t \in Callers : TakeBack(t) \/ TakenBack(t) \/ TakeBackNotRecorded(t)

Promoting(c) ==
  CopyOut(c) \/ CopyFails(c) \/ PromoteRejected(c) \/ CopyRecorded(c) \/ CopyNotRecorded(c)

Next ==
  \/ ~Saving /\ (Driving \/ Promoting("driver"))
  \/ SaveTmp \/ SaveFilled \/ SaveRename
  \/ Operating \/ Promoting("operator")
  \/ \E c \in Callers : Die(c)

Spec == Init /\ [][Next]_vars

-----------------------------------------------------------------------------
(* Properties.                                                             *)

(* Type invariant: the saved run state is never half written, and a record *)
(* of a promotion or a rollback names its target.                          *)
TypeOK ==
  /\ pc["driver"] \in {"off", "build", "checkpoint", "review", "promote", "copied", "cleanup",
                       "ended", "dead"}
  /\ pc["operator"] \in {"idle", "prompt", "copied"} \cup {Rollback(t) : t \in Callers}
  /\ \A c \in Callers : run[c] = None \/ run[c] \in RunState
  /\ file = None \/ file \in RunState
  /\ tmp \in {None, Torn} \/ tmp \in RunState
  /\ built \subseteq Stories
  /\ ws = None \/ ws \in Workspaces
  /\ \A c \in Callers : target[c] = None \/ target[c] \in Targets
  /\ \A i \in DOMAIN trace : trace[i] \in Record
  /\ torn \in BOOLEAN
  /\ lost \subseteq Callers

(* Whatever a commit did, a promotion that is on record exported the       *)
(* patches of every story of the run, by the driver and by an operator who *)
(* works from a saved state (tool-executor, promoteWorkspace: the working  *)
(* tree is copied, not the commits the evidence names).                    *)
ExportComplete ==
  \A i \in DOMAIN trace : trace[i].type = "promotion" => Stories \subseteq trace[i].held

LastAbout(t) ==
  LET about == {i \in DOMAIN trace : trace[i].type \in {"promotion", "promotion_rollback"} /\ trace[i].of = t}
  IN  IF about = {} THEN "none" ELSE trace[CHOOSE i \in about : \A j \in about : j <= i].type

(* The trace tells what is at the target: exported after a promotion, gone *)
(* after a rollback, unless a call changed the target and did not live to  *)
(* record it, or is about to (promoteWorkspace, rollbackPromotion).        *)
RecordMatchesExport ==
  \A t \in Callers :
    t \notin lost /\ pc[t] # "copied" /\ pc["operator"] # Rollback(t) =>
      CASE LastAbout(t) = "promotion" -> target[t] # None /\ Stories \subseteq target[t]
        [] LastAbout(t) = "promotion_rollback" -> target[t] = None
        [] OTHER -> Content(t) \subseteq {Foreign}

(* A promotion on record comes after an approval that no denial followed   *)
(* (harness-core, tick: promotion always requires human approval).         *)
PromotionApproved ==
  \A i \in DOMAIN trace : trace[i].type = "promotion" =>
    \E j \in 1..(i - 1) :
      /\ trace[j] = [type |-> "human_review", outcome |-> "approved"]
      /\ \A k \in j..i : trace[k] # [type |-> "human_review", outcome |-> "denied"]
=============================================================================
