----------------------------- MODULE MCBacklog -----------------------------
(* An idea whose goals are left open, with two components and one story    *)
(* added beside them; and one of a brownfield repository that is rejected, *)
(* so that only the two stories that are added are there.  Where their     *)
(* projects come from is run beside: a new directory with a template of    *)
(* two files and a file of somebody else's, and the import of a repository *)
(* (two imports, two edits), five stories about it, of which some name one *)
(* file or one glob, and three tests of it, one flaky.  What these do is   *)
(* apart from each other but for the import that comes first, so one is    *)
(* run at a time.                                                          *)
EXTENDS Backlog, Greenfield, Brownfield

CONSTANTS i1, i2, entry, layer, f1, f2, f3, src, t1, t2, t3, readme, source, notes

VARIABLE part

MCIdeas ==
  {[mode |-> "patch", says |-> {"users", "constraints"}, nonGoals |-> FALSE,
    components |-> 2, web |-> FALSE, clean |-> TRUE, added |-> 1],
   [mode |-> "brownfield", says |-> Decisions, nonGoals |-> TRUE,
    components |-> 2, web |-> FALSE, clean |-> FALSE, added |-> 2]}

MCMessages == 
  {[slug |-> 1, epic |-> 200, clean |-> TRUE],
   [slug |-> 2, epic |-> 201, clean |-> TRUE],
   [slug |-> 2, epic |-> 201, clean |-> FALSE]}

MCTemplate == <<readme, source>>

(* The story named by a glob alone, the one that freezes nothing and is    *)
(* exclusive, one outside the brownfield that writes the same glob, and    *)
(* one whose glob meets a file it froze.                                   *)
Taking(writes, api, frozen, brownfield) ==
  [writes |-> writes, api |-> api, frozen |-> frozen, brownfield |-> brownfield,
   deltas |-> TRUE, class |-> "parallel_safe"]
MCTaken ==
  <<Taking({f1}, FALSE, {}, TRUE), Taking({f1, f2}, TRUE, {}, TRUE),
    Taking({src}, FALSE, {}, TRUE), Taking({src, f3}, FALSE, {}, FALSE),
    Taking({src}, TRUE, {f2}, TRUE)>>
MCOverlapping ==
  {<<f, f>> : f \in {f1, f2, f3, src}} \cup ({f1, f2} \X {src}) \cup ({src} \X {f1, f2})

BacklogPart == part = "backlog" /\ Next /\ UNCHANGED <<projectVars, takeoverVars>>
ProjectPart == part = "project" /\ ProjectNext /\ UNCHANGED <<vars, takeoverVars>>

(* The import that comes before the stories and the tests.                 *)
FirstImport == BeginImport(i1, "outside") \/ WriteDocs(i1)
TakeoverPart ==
  /\ \/ part = "import" /\ Importing
     \/ part \in {"stories", "tests"} /\ FirstImport
     \/ part = "stories" /\ Preparing
     \/ part = "tests" /\ Judging
  /\ UNCHANGED <<vars, projectVars>>

MCInit ==
  /\ Init /\ ProjectInit /\ TakeoverInit
  /\ part \in {"backlog", "project", "import", "stories", "tests"}
  /\ part # "backlog" => careful /\ idea.mode = "patch"
  /\ part # "project" => dir = FALSE
  /\ part # "import" => repo = {}
  /\ part # "tests" => works = [t \in Tests |-> "works"]

MCNext ==
  /\ BacklogPart \/ ProjectPart \/ TakeoverPart
  /\ UNCHANGED part

MCSpec ==
  /\ MCInit /\ [][MCNext]_<<vars, projectVars, takeoverVars, part>>
  /\ part = "backlog" => Fairness
=============================================================================
