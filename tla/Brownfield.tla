----------------------------- MODULE Brownfield -----------------------------
(***************************************************************************)
(* Taking over a repository that is there.  importBrownfieldRepo scans it, *)
(* asks the code graph about it and writes what it found beside it; the    *)
(* stories about it are checked against what their authors froze, and      *)
(* enriched by what the code graph says they touch; and a change is judged *)
(* by the tests that passed before (planning-steward, validator-suite,     *)
(* harness-core and task-graph).  Imports may run at the same time, and    *)
(* people go on working on the repository.                                 *)
(*                                                                         *)
(* What the code graph answers, and what a change does to the tests, is    *)
(* open; a scan is one look at the repository.                             *)
(***************************************************************************)
EXTENDS Naturals, FiniteSets

CONSTANTS
  Importers,
  Manifest,     \* what the package.json of the repository may say
  Layout,       \* files and directories that may be there
  Sources,      \* the files of the repository
  Globs,        \* patterns that write sets and frozen paths may hold beside files
  Overlapping,  \* pairs of these whose fixed prefixes begin one another
  Taken,        \* stories, by name: what each says before it is enriched
  Tests,
  Flaky,        \* tests that may pass or fail whatever the code does
  Unknown,      \* no answer, file or baseline
  MaxEdits,     \* bounds of the model: edits of the repository,
  MaxChanges    \* and changes that were judged

(* What a write set or the frozen paths may name.                          *)
Paths == Sources \cup Globs

(* A story may have a public_api_constraint (api) that freezes nothing.    *)
StoryRecord ==
  [writes : SUBSET Paths, api : BOOLEAN, frozen : SUBSET Paths, brownfield : BOOLEAN,
   deltas : BOOLEAN,
   class : {"parallel_safe", "parallel_with_barrier", "sequential", "exclusive"}]

ASSUME BrownfieldAssumption ==
  /\ Flaky \subseteq Tests /\ MaxEdits \in Nat /\ MaxChanges \in Nat
  /\ Overlapping \subseteq Paths \X Paths
  /\ IsFiniteSet(DOMAIN Taken) /\ Taken \in [DOMAIN Taken -> StoryRecord]

VARIABLES
  repo,      \* what of these there is
  edits,
  intake,    \* of each importer: where it is, where to, and its scan
  docs,      \* ARCHITECTURE.md and CONVENTIONS.md, by the scan they tell of
  cut,       \* history: where the last one stopped between the two documents
  story,     \* the stories as they are now
  hot,       \* the hot paths as they were last detected, or Unknown
  checked,   \* stories validateTaskClassBundle has accepted
  enriched,  \* stories enriched with hot files
  widened,   \* history: those whose write set was replaced
  works,     \* of each test: what it is about works, does not, or it is gone
  baseline,  \* the names that passed and failed, or Unknown
  good,      \* history: sound tests that worked when it was captured
  changes

takeoverVars == <<repo, edits, intake, docs, cut, story, hot, checked, enriched, widened,
                  works, baseline, good, changes>>
importVars == <<repo, edits, intake, docs, cut>>
storyVars == <<story, hot, checked, enriched, widened>>
testVars == <<works, baseline, good, changes>>

Outputs == {"outside", "above"}
Undocumented == [architecture |-> Unknown, conventions |-> Unknown]
Entries == Manifest \cup Layout

(* discoverEntryPoints: the files the manifest names and the usual ones,   *)
(* as far as they are there.                                               *)
EntryPoints(there) == [named |-> there \cap Manifest, present |-> there \cap Layout]

(* classifyLayers goes by names of directories and configuration files.    *)
Layers(there) == there \cap Layout

(* extractProjectProfile: language, framework and lint are by the          *)
(* dependencies of the manifest.                                           *)
Conventions(there) == there \cap Manifest

(* buildArchitectureMd and buildConventionsMd.                             *)
Architecture(there) == <<EntryPoints(there), Layers(there)>>
Scan(there) == [architecture |-> Architecture(there), conventions |-> Conventions(there)]

(* What a scan finds is told from what there is none of.                   *)
ASSUME UnknownAssumption ==
  \A there \in SUBSET Entries : Architecture(there) # Unknown /\ Conventions(there) # Unknown

TakeoverInit ==
  /\ repo \in SUBSET Entries /\ edits = 0
  /\ intake = [i \in Importers |-> [step |-> "idle", place |-> "outside", scan |-> Scan({})]]
  /\ docs = [place \in Outputs |-> Undocumented]
  /\ cut = {}
  /\ story = Taken
  /\ hot = Unknown /\ checked = {} /\ enriched = {} /\ widened = {}
  /\ works \in [Tests -> {"works", "broken"}]
  /\ baseline = Unknown /\ good = {} /\ changes = 0

-----------------------------------------------------------------------------
(* importBrownfieldRepo.                                                   *)

(* The scan comes before the await.  An output inside the repository is    *)
(* refused; "above" is an output whose as-is directory is the repository.  *)
BeginImport(i, place) ==
  /\ intake[i].step = "idle"
  /\ intake' = [intake EXCEPT ![i] =
                  [step |-> IF place = "inside" THEN "thrown" ELSE "asking",
                   place |-> place, scan |-> Scan(repo)]]
  /\ UNCHANGED <<repo, edits, docs, cut, storyVars, testVars>>

Ended(i, step) == intake' = [intake EXCEPT ![i].step = step]
Write(i, documents) == docs' = [docs EXCEPT ![intake[i].place] = documents]

(* Mutant of WriteDocs: the layers are those of a new scan, the            *)
(* conventions those from before the await.                                *)
WriteDocsRescanned(i) ==
  /\ intake[i].step = "asking"
  /\ Ended(i, "returned")
  /\ Write(i, [intake[i].scan EXCEPT !.architecture = Architecture(repo)])
  /\ cut' = cut \ {intake[i].place}
  /\ UNCHANGED <<repo, edits, storyVars, testVars>>

(* The impact set has come: both documents are written and the intake is   *)
(* returned at once.                                                       *)
WriteDocs(i) ==
  /\ intake[i].step = "asking"
  /\ Ended(i, "returned")
  /\ Write(i, intake[i].scan)
  /\ cut' = cut \ {intake[i].place}
  /\ UNCHANGED <<repo, edits, storyVars, testVars>>

(* The code graph rejects, or the directory cannot be made.                *)
ImportFails(i) ==
  /\ intake[i].step = "asking"
  /\ Ended(i, "thrown")
  /\ UNCHANGED <<repo, edits, docs, cut, storyVars, testVars>>

(* A write throws, or the process dies, after the first document.          *)
ImportCut(i) ==
  /\ intake[i].step = "asking"
  /\ Ended(i, "thrown")
  /\ Write(i, [docs[intake[i].place] EXCEPT !.architecture = intake[i].scan.architecture])
  /\ cut' = cut \cup {intake[i].place}
  /\ UNCHANGED <<repo, edits, storyVars, testVars>>

EditRepo(e) ==
  /\ edits < MaxEdits
  /\ edits' = edits + 1
  /\ repo' = IF e \in repo THEN repo \ {e} ELSE repo \cup {e}
  /\ UNCHANGED <<intake, docs, cut, storyVars, testVars>>

(* validateBrownfieldIntake: all an import returns is there, and the paths *)
(* differ, if they are spelled the same way.                               *)
ValidIntake(i) == intake[i].step = "returned" /\ intake[i].place # "above"

-----------------------------------------------------------------------------
(* The stories.                                                            *)
Known == \E i \in Importers : intake[i].step = "returned"

(* validateTaskClassBundle, which compares paths by prefix (globsOverlap). *)
CheckBundle(s) ==
  /\ Known /\ s \notin checked
  /\ story[s].brownfield => story[s].deltas
  /\ story[s].api => (story[s].writes \X story[s].frozen) \cap Overlapping = {}
  /\ checked' = checked \cup {s}
  /\ UNCHANGED <<importVars, story, hot, enriched, widened, testVars>>

(* Mutant of HotFiles: more than two.                                      *)
HotFilesOfThree ==
  {f \in Paths : Cardinality({s \in DOMAIN story : f \in story[s].writes}) > 2}

(* detectHotFiles: what two write sets spell alike.  A file and a glob     *)
(* that covers it are two paths.                                           *)
HotFiles ==
  {f \in Paths : Cardinality({s \in DOMAIN story : f \in story[s].writes}) >= 2}

DetectHotFiles ==
  /\ Known
  /\ hot' = HotFiles
  /\ UNCHANGED <<importVars, story, checked, enriched, widened, testVars>>

(* enrichBrownfieldStory.  The files of an impact set replace the write    *)
(* set, globs and files of the story included; what was checked of the old *)
(* one is not again.                                                       *)
Enrich(s, impacted) ==
  LET writes == IF impacted = Unknown THEN story[s].writes ELSE impacted
      class == IF story[s].api THEN "exclusive" ELSE story[s].class
  IN  /\ s \in checked \ enriched /\ hot # Unknown
      /\ story[s].brownfield
      /\ story' = [story EXCEPT
                     ![s].writes = writes,
                     ![s].class = IF writes \cap hot # {} /\ class # "exclusive"
                                  THEN "sequential" ELSE class]
      /\ enriched' = enriched \cup {s}
      /\ widened' = IF writes = story[s].writes THEN widened ELSE widened \cup {s}
      /\ UNCHANGED <<importVars, hot, checked, testVars>>

-----------------------------------------------------------------------------
(* Changes against the baseline.                                           *)

(* What one run of the tests may answer: names that passed and failed.     *)
Results(w) ==
  {[passing |-> P, failing |-> {t \in Tests : w[t] # "gone"} \ P] :
     P \in {Q \in SUBSET {t \in Tests : w[t] # "gone"} :
              \A t \in Tests \ Flaky : t \in Q <=> w[t] = "works"}}

CaptureBaseline ==
  /\ Known /\ baseline = Unknown
  /\ baseline' \in Results(works)
  /\ good' = {t \in Tests \ Flaky : works[t] = "works"}
  /\ UNCHANGED <<importVars, storyVars, works, changes>>

NewFailures(post) == post.failing \cap baseline.passing

(* Mutant of JudgeChange: the run of a change that was refused is the next *)
(* baseline.                                                               *)
JudgeChangeRebasing(after, post) ==
  /\ baseline # Unknown /\ changes < MaxChanges
  /\ changes' = changes + 1
  /\ works' = IF NewFailures(post) = {} THEN after ELSE works
  /\ baseline' = IF NewFailures(post) = {} THEN baseline ELSE post
  /\ UNCHANGED <<importVars, storyVars, good>>

(* validateBrownfieldChange: a change goes in when nothing that passed     *)
(* fails.  Tests it removes are not missed.                                *)
JudgeChange(after, post) ==
  /\ baseline # Unknown /\ changes < MaxChanges
  /\ changes' = changes + 1
  /\ works' = IF NewFailures(post) = {} THEN after ELSE works
  /\ UNCHANGED <<importVars, storyVars, baseline, good>>

Importing ==
  \/ \E i \in Importers :
       \/ \E place \in Outputs \cup {"inside"} : BeginImport(i, place)
       \/ WriteDocs(i) \/ ImportFails(i) \/ ImportCut(i)
  \/ \E e \in Entries : EditRepo(e)

Preparing ==
  \/ DetectHotFiles
  \/ \E s \in DOMAIN story :
       \/ CheckBundle(s)
       \/ \E impacted \in {Unknown} \cup SUBSET Sources : Enrich(s, impacted)

Judging ==
  \/ CaptureBaseline
  \/ \E after \in [Tests -> {"works", "broken", "gone"}] :
       \E post \in Results(after) : JudgeChange(after, post)

TakeoverNext == Importing \/ Preparing \/ Judging

TakeoverSpec == TakeoverInit /\ [][TakeoverNext]_takeoverVars

-----------------------------------------------------------------------------
(* Properties.                                                             *)

(* However imports overlap and people work, the two documents of an        *)
(* output tell of one scan of the repository, that of an intake that was   *)
(* returned, unless the last write failed between them; an intake that is  *)
(* valid has both of them; and when nothing failed, a repository that was  *)
(* written into has an intake that is not valid.                           *)
IntakeDocumented ==
  /\ \A place \in Outputs \ cut : docs[place] # Undocumented =>
       \E i \in Importers : /\ intake[i].step = "returned" /\ intake[i].place = place
                            /\ docs[place] = intake[i].scan
                            /\ ValidIntake(i) <=> place = "outside"
  /\ \A i \in Importers : ValidIntake(i) => \A d \in {"architecture", "conventions"} :
                                            docs["outside"][d] # Unknown

(* A path that two stories have named from the start keeps every story     *)
(* that was enriched and names it out of the parallel class: one of the    *)
(* two, whether or not the other is enriched, and one whose write set was  *)
(* replaced, whenever the hot files were detected and whatever write sets  *)
(* were replaced in between (detectHotFiles, enrichBrownfieldStory).       *)
SharedPathsGuarded ==
  \A s \in enriched : \A t, u \in DOMAIN story \ widened :
    t # u /\ story[s].writes \cap story[t].writes \cap story[u].writes # {} =>
      story[s].class # "parallel_safe"

(* What worked when the baseline was captured works after any number of    *)
(* changes that were accepted, or has no test any more; flaky tests may    *)
(* keep a change out, and let none in that breaks a sound one              *)
(* (captureBaseline, validateBrownfieldChange).                            *)
WorkingStaysWorking == \A t \in good : works[t] # "broken"
=============================================================================
