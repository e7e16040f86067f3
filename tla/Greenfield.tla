----------------------------- MODULE Greenfield -----------------------------
(***************************************************************************)
(* The directory of a new project: bootstrapGreenfieldWorkspace makes it,  *)
(* a repository in it, the files of its template and a first commit, one   *)
(* call after the other, each of which may throw and after each of which   *)
(* the process may die; then it is called again, with the directory as it  *)
(* was left or as people have worked on it since.                          *)
(***************************************************************************)
EXTENDS Naturals, Sequences

CONSTANTS
  Template,   \* the files of 'minimal-ts', in the order they are written
  OtherFiles, \* what else a project may hold
  Absent      \* no directory, repository or commit

VARIABLES
  dir,       \* whether the project directory is there
  tree,      \* what each file of it holds
  index,     \* what git has staged, Absent without a repository
  head,      \* what its last commit holds, or Absent
  call,      \* the template and the step of the call, or "none"
  outcome    \* how the last call ended

projectVars == <<dir, tree, index, head, call, outcome>>

Scaffold == {Template[i] : i \in DOMAIN Template}
ProjectFiles == Scaffold \cup OtherFiles
Nothing == [f \in ProjectFiles |-> "none"]

Trees == [ProjectFiles -> {"none", "work", "scaffold", "torn"}]

ASSUME GreenfieldAssumption ==
  /\ Template \in Seq(Scaffold) /\ Template # <<>>
  /\ Absent \notin Trees
  /\ Scaffold \cap OtherFiles = {}
  /\ \A i, j \in DOMAIN Template : i # j => Template[i] # Template[j]

NoCall == [template |-> "none", step |-> "none", written |-> 0]

(* A directory of that name may be there before.                           *)
ProjectInit ==
  /\ dir \in BOOLEAN
  /\ \E F \in SUBSET (IF dir THEN ProjectFiles ELSE {}) :
       tree = [f \in ProjectFiles |-> IF f \in F THEN "work" ELSE "none"]
  /\ index = Absent /\ head = Absent
  /\ call = NoCall /\ outcome = "none"

Step(name) == call' = [call EXCEPT !.step = name]

(* The slug and the sandbox are checked before anything is touched.        *)
Reject ==
  /\ call = NoCall
  /\ outcome' = "rejected"
  /\ UNCHANGED <<dir, tree, index, head, call>>

MakeDirectory(template) ==
  /\ call = NoCall
  /\ dir' = TRUE
  /\ call' = [template |-> template, step |-> "init", written |-> 0]
  /\ outcome' = "none"
  /\ UNCHANGED <<tree, index, head>>

(* git init, which keeps a repository that is there, and git config.       *)
InitRepository ==
  /\ call.step = "init"
  /\ index' = IF index = Absent THEN Nothing ELSE index
  /\ Step("write")
  /\ UNCHANGED <<dir, tree, head, outcome>>

ToWrite == IF call.template = "minimal-ts" THEN Template ELSE <<>>

(* Mutant of WriteFile: a file that is there is left alone.                *)
WriteMissing ==
  /\ call.step = "write" /\ call.written < Len(ToWrite)
  /\ tree' = [tree EXCEPT ![ToWrite[call.written + 1]] = IF @ = "none" THEN "scaffold" ELSE @]
  /\ call' = [call EXCEPT !.written = @ + 1]
  /\ UNCHANGED <<dir, index, head, outcome>>

(* What was there is overwritten.                                          *)
WriteFile ==
  /\ call.step = "write" /\ call.written < Len(ToWrite)
  /\ tree' = [tree EXCEPT ![ToWrite[call.written + 1]] = "scaffold"]
  /\ call' = [call EXCEPT !.written = @ + 1]
  /\ UNCHANGED <<dir, index, head, outcome>>

(* git add -A takes in all that is in the directory; 'empty' adds nothing. *)
AddAll ==
  /\ call.step = "write" /\ call.written = Len(ToWrite)
  /\ index' = IF ToWrite = <<>> THEN index ELSE tree
  /\ Step("commit")
  /\ UNCHANGED <<dir, tree, head, outcome>>

Changed == head = Absent \/ index # head

CommitScaffold ==
  /\ call.step = "commit"
  /\ Changed \/ ToWrite = <<>>
  /\ head' = index
  /\ outcome' = "created" /\ Step("made")
  /\ UNCHANGED <<dir, tree, index>>

(* git refuses a commit of nothing new: so it throws when it is run again  *)
(* on a project it has made.                                               *)
NothingToCommit ==
  /\ call.step = "commit"
  /\ ~Changed /\ ToWrite # <<>>
  /\ outcome' = "unchanged" /\ Step("made")
  /\ UNCHANGED <<dir, tree, index, head>>

(* The file system or git throws, or the process dies, at a file that is   *)
(* half written or between two steps.                                      *)
Interrupted ==
  /\ call # NoCall
  /\ outcome' = "interrupted" /\ call' = NoCall
  /\ \/ UNCHANGED tree
     \/ /\ call.step = "write" /\ call.written < Len(ToWrite)
        /\ tree' = [tree EXCEPT ![ToWrite[call.written + 1]] = "torn"]
  /\ UNCHANGED <<dir, index, head>>

Return ==
  /\ call.step = "made"
  /\ call' = NoCall
  /\ UNCHANGED <<dir, tree, index, head, outcome>>

(* The project is worked on between calls, and its work committed.         *)
WorkOn(f) ==
  /\ call = NoCall /\ head # Absent
  /\ tree' = [tree EXCEPT ![f] = "work"]
  /\ \/ UNCHANGED <<index, head>>
     \/ index' = tree' /\ head' = tree'
  /\ UNCHANGED <<dir, call>> /\ outcome' = "none"

ProjectNext ==
  \/ Reject
  \/ \E template \in {"minimal-ts", "empty"} : MakeDirectory(template)
  \/ InitRepository \/ WriteFile \/ AddAll
  \/ CommitScaffold \/ NothingToCommit
  \/ Interrupted \/ Return
  \/ \E f \in ProjectFiles : WorkOn(f)

ProjectSpec == ProjectInit /\ [][ProjectNext]_projectVars

-----------------------------------------------------------------------------
(* Properties.                                                             *)

(* However often a call was interrupted before, and wherever, one that has *)
(* made the commit of 'minimal-ts', or found nothing left to commit, has   *)
(* every file of the template whole in the repository, and leaves nothing  *)
(* of the directory out of it ("Initializes a clean git repo").            *)
BootstrapWhole ==
  outcome \in {"created", "unchanged"} =>
    /\ head # Absent
    /\ call.template = "minimal-ts" =>
         head = tree /\ \A f \in Scaffold : head[f] = "scaffold"
=============================================================================
