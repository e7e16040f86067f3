---------------------------- MODULE Integration ----------------------------
(***************************************************************************)
(* What a caller of the parallel scheduler may do with the workspaces that *)
(* its last batch leaves behind: mergeAndValidate of workspace-manager     *)
(* copies them, one story after the other, over an integration directory,  *)
(* until one has a conflict marker in it, and runs the validation command  *)
(* over the result.  A workspace holds the files its story edited and      *)
(* others that are as they were when it was made; a copy takes them all.   *)
(***************************************************************************)
EXTENDS Scheduler

CONSTANTS
  Files,    \* the files of the project
  Base,     \* the version of a file no story has edited
  NoStory

ASSUME NoStoryAssumption == NoStory \notin Stories

VARIABLES
  integration,  \* "none", "validating", or the outcome
  runs,         \* of each story of the batch, what its workspace holds
  tree,         \* of each file of the integration directory, who edited it last
  merged_ids,   \* merged_story_ids, in order
  conflict      \* conflict_story_ids, which has one story at most

integrationVars == <<integration, runs, tree, merged_ids, conflict>>

(* A workspace: its files, those among them that were edited, and whether  *)
(* one has a conflict marker.                                              *)
Workspaces == [holds : SUBSET Files, edits : SUBSET Files, marker : BOOLEAN]

(* copyDirContents: whatever the workspace holds replaces what is there.   *)
CopyDirContents(over, s) ==
  [f \in Files |-> IF f \in runs'[s].edits THEN s
                   ELSE IF f \in runs'[s].holds THEN Base ELSE over[f]]

(* Mutant of MergeRun: the copy comes before the scan.                     *)
MergeRunThenScan(r, s) ==
  IF r.conflict # NoStory THEN r
  ELSE [tree |-> CopyDirContents(r.tree, s),
        merged |-> IF runs'[s].marker THEN r.merged ELSE Append(r.merged, s),
        conflict |-> IF runs'[s].marker THEN s ELSE NoStory]

(* One pass of the loop.  It does not look at run.result: a story that was *)
(* escalated is merged like the others.                                    *)
MergeRun(r, s) ==
  IF r.conflict # NoStory THEN r
  ELSE IF runs'[s].marker THEN [r EXCEPT !.conflict = s]
  ELSE [tree |-> CopyDirContents(r.tree, s), merged |-> Append(r.merged, s),
        conflict |-> NoStory]

IntegrationInit ==
  /\ Init
  /\ integration = "none" /\ runs = <<>> /\ merged_ids = <<>> /\ conflict = NoStory
  /\ tree = [f \in Files |-> Base]

(* The call, up to the await of the validation runner.  Stories of a batch *)
(* do not overlap, so no two edited one file.                              *)
MergeBatch ==
  /\ integration = "none" /\ outcome \in {"all_done", "halted", "escalated"}
  /\ batch # {} /\ batch \subseteq workspaces
  /\ runs' \in [batch -> {w \in Workspaces : w.edits \subseteq w.holds}]
  /\ \A s, t \in batch : s # t => runs'[s].edits \cap runs'[t].edits = {}
  /\ LET order == InIdOrder(batch)
         after[n \in 0..Len(order)] ==
           IF n = 0 THEN [tree |-> tree, merged |-> <<>>, conflict |-> NoStory]
           ELSE MergeRun(after[n - 1], order[n])
         r == after[Len(order)]
     IN /\ tree' = r.tree /\ merged_ids' = r.merged /\ conflict' = r.conflict
        /\ integration' = IF r.conflict = NoStory THEN "validating" ELSE "conflict_escalated"
  /\ UNCHANGED vars

(* External: the validation command answers.                               *)
ValidateTree(passes) ==
  /\ integration = "validating"
  /\ integration' = IF passes THEN "passed" ELSE "validation_failed"
  /\ UNCHANGED <<vars, runs, tree, merged_ids, conflict>>

IntegrationNext ==
  \/ Next /\ UNCHANGED integrationVars
  \/ MergeBatch
  \/ \E passes \in BOOLEAN : ValidateTree(passes)

IntegrationSpec ==
  /\ IntegrationInit /\ [][IntegrationNext]_<<vars, integrationVars>>
  /\ WF_vars(Scheduling) /\ \A s \in Stories : WF_vars(Working(s))

-----------------------------------------------------------------------------
(* Properties.                                                             *)

(* A conflict stops the merge where it is found: what comes before it in   *)
(* the order of ids stays merged, nothing of it or of a later story is in  *)
(* the tree, and no such tree is ever reported validated.  What a merged   *)
(* story edited is in the tree, unless the workspace of a story after it   *)
(* holds that file too: edited or not, it takes the place of the edit.     *)
IntegrationInOrder ==
  integration # "none" =>
    /\ conflict = NoStory => ToSet(merged_ids) = batch
    /\ conflict # NoStory =>
         /\ integration = "conflict_escalated"
         /\ ToSet(merged_ids) = {s \in batch : Rank[s] < Rank[conflict]}
    /\ \A f \in Files : tree[f] \in ToSet(merged_ids) \cup {Base}
    /\ \A i \in DOMAIN merged_ids : \A f \in runs[merged_ids[i]].edits :
         \/ tree[f] = merged_ids[i]
         \/ \E j \in (i + 1)..Len(merged_ids) : f \in runs[merged_ids[j]].holds
=============================================================================
