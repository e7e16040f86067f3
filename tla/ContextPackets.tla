--------------------------- MODULE ContextPackets ---------------------------
(***************************************************************************)
(* The packet of sections an agent is called with (context-manager and     *)
(* skill-runtime).  It is started for a role from the artifacts at hand,   *)
(* or for the reviewer from a review, or by the mode of a project; the     *)
(* project's profile, the skills of the role and the summary of the story  *)
(* before (the window of ContextWindow) are injected into it, in the order *)
(* its caller likes, and it is cut to a budget.  A section is a name, its  *)
(* tokens, its priority (a lower number is kept first) and, for a skill,   *)
(* the skill it is about.                                                  *)
(***************************************************************************)
EXTENDS ContextWindow, Functions

CONSTANTS
  NoRole,
  PacketRoles,   \* the roles packets are built for
  Artifacts,     \* sequences of sections a caller may have at hand
  Libraries,     \* sequences of skill manifests
  Budgets,       \* token budgets
  PacketTurns,   \* bound of the model: turns of a story that packets follow
  MaxInjections  \* bound of the model: steps on one packet

NoSkill == "none"

(* The names a caller may give, among them those the code gives itself.    *)
SectionNames ==
  STRING \cup {"as-is", "impact-set", "arch_decisions", "skill", "skill_avoid",
               "project_conventions", "own_previous_story_summary", "failing_test_output",
               "acceptance_criteria", "diff_under_review", "gene_signals",
               "story_objective", "write_set_scope"}

(* A section, and the manifest of a skill with the tokens of its text and  *)
(* of its AVOID lines.                                                     *)
ArtifactRef ==
  [name : SectionNames, tokens : Nat, priority : Nat, skill : STRING \cup {NoSkill}]
FullSkillManifest ==
  [id : STRING, role : STRING, status : STRING, dependsOn : Seq(STRING), tokens : Nat, avoid : Nat]

VARIABLES
  role,       \* whom the packet is for, NoRole before there is one
  sections,   \* packet.sections
  excluded,   \* packet.excluded, names
  library,    \* the manifests that are there when it is started
  injections, \* steps made
  loads       \* history: how often the skills were injected

packetVars == <<role, sections, excluded, library, injections, loads>>

Section(name, tokens, priority, skill) ==
  [name |-> name, tokens |-> tokens, priority |-> priority, skill |-> skill]

Names(s) == [i \in DOMAIN s |-> s[i].name]
SectionTokens(s) == Total([i \in DOMAIN s |-> s[i].tokens])

RequiredContextSections ==
  [planning_steward |-> {"raw_idea", "known_constraints", "source_type"},
   supervisor |-> {"project_status", "story_goal", "codegraph_summary", "invariants"},
   developer |-> {"story_contract", "relevant_files", "allowed_write_set",
                  "validation_commands", "failure_genes"},
   debugger |-> {"failed_logs", "current_patch", "affected_codegraph",
                 "debug_attempts", "matching_failure_genes"},
   reviewer |-> {"failing_test_output", "acceptance_criteria", "diff_under_review",
                 "gene_signals"}]

ASSUME PacketAssumption ==
  /\ PacketRoles \subseteq DOMAIN RequiredContextSections
  /\ Artifacts \subseteq Seq(ArtifactRef)
  /\ Libraries \subseteq Seq(FullSkillManifest)
  /\ Budgets \subseteq Nat /\ MaxInjections \in Nat

Required(r, s) == Picked(s, {i \in DOMAIN s : s[i].name \in RequiredContextSections[r]})
NotRequired(r, s) == Picked(s, {i \in DOMAIN s : s[i].name \notin RequiredContextSections[r]})

-----------------------------------------------------------------------------
(* The budget.                                                             *)

(* [...].sort((a, b) => a.priority - b.priority), which is stable.         *)
Inserted(s, e) ==
  Picked(s, {i \in DOMAIN s : s[i].priority <= e.priority})
  \o <<e>> \o Picked(s, {i \in DOMAIN s : s[i].priority > e.priority})

ByPriority(s) ==
  Reduce(s, <<>>, [x \in Seq(ArtifactRef) \X ArtifactRef |-> Inserted(x[1], x[2])])

Cut == [kept : Seq(ArtifactRef), deferred : Seq(ArtifactRef), used : Nat]

Fit(cut, e, budget) ==
  IF cut.used + e.tokens <= budget
  THEN [cut EXCEPT !.kept = Append(@, e), !.used = @ + e.tokens]
  ELSE [cut EXCEPT !.deferred = Append(@, e)]

FitAll(s, budget) ==
  Reduce(s, [kept |-> <<>>, deferred |-> <<>>, used |-> 0],
         [x \in Cut \X ArtifactRef |-> Fit(x[1], x[2], budget)])

(* Mutant of EnforceTokenBudget: in the order of the packet.               *)
EnforceUnordered(s, budget) == FitAll(s, budget)

(* enforceTokenBudgetByArtifactSelection: what does not fit is deferred,   *)
(* and a smaller section after it may still fit.                           *)
EnforceTokenBudget(s, budget) == FitAll(ByPriority(s), budget)

-----------------------------------------------------------------------------
(* Skills.                                                                 *)
OfRole(r, status) ==
  Picked(library, {i \in DOMAIN library : library[i].role = r /\ library[i].status = status})

(* Mutant of SkillsForRole: status is looked at where skills are listed,   *)
(* not where a dependency is followed.                                     *)
SkillsForRoleAnyStatus(r) == Picked(library, {i \in DOMAIN library : library[i].role = r})

SkillsForRole(r) == OfRole(r, "registered")

SkillIds(skills) == {skills[i].id : i \in DOMAIN skills}

(* new Map: of two with one id the last is found.                          *)
Manifest(skills, id) ==
  skills[CHOOSE i \in DOMAIN skills :
           skills[i].id = id /\ \A j \in DOMAIN skills : skills[j].id = id => j <= i]

(* visit() of sortByDependencyOrder: a dependency that was not selected is *)
(* passed over; a cycle throws.  Dependencies are visited by the function  *)
(* it is given.                                                            *)
Tour == [result : Seq(STRING), stack : SUBSET STRING, cycle : BOOLEAN]

(* Mutant of VisitBy: a skill is added before what it depends on.          *)
VisitByFirst(visit, skills, tour, id) ==
  IF tour.cycle \/ id \in Range(tour.result) \/ id \notin SkillIds(skills) THEN tour
  ELSE Reduce(Manifest(skills, id).dependsOn, [tour EXCEPT !.result = Append(@, id)], visit)

VisitBy(visit, skills, tour, id) ==
  IF tour.cycle \/ id \in Range(tour.result) \/ id \notin SkillIds(skills) THEN tour
  ELSE IF id \in tour.stack THEN [tour EXCEPT !.cycle = TRUE]
  ELSE LET after == Reduce(Manifest(skills, id).dependsOn,
                           [tour EXCEPT !.stack = @ \cup {id}], visit)
       IN  [after EXCEPT !.stack = @ \ {id}, !.result = Append(@, id)]

(* The recursion is no deeper than there are skills: a path of more would  *)
(* come back to one of its own, and is a cycle.                            *)
Visit(skills) ==
  LET visit[depth \in 0..(Len(skills) + 1)] ==
        IF depth = 0 THEN [x \in Tour \X STRING |-> [x[1] EXCEPT !.cycle = TRUE]]
        ELSE [x \in Tour \X STRING |-> VisitBy(visit[depth - 1], skills, x[1], x[2])]
  IN  visit[Len(skills) + 1]

SortByDependencyOrder(skills) ==
  Reduce([i \in DOMAIN skills |-> skills[i].id],
         [result |-> <<>>, stack |-> {}, cycle |-> FALSE], Visit(skills))

(* readSkillContent: the estimate is of the text and the AVOID lines.      *)
SkillSection(m) == Section("skill", m.tokens + m.avoid, 3, m.id)
Warnings(skills) ==
  LET warning == Picked(skills, {i \in DOMAIN skills : skills[i].avoid > 0})
  IN [i \in DOMAIN warning |-> Section("skill_avoid", warning[i].avoid, 1, warning[i].id)]

(* Skills that go over the budget are left out; what they warn of is not.  *)
InjectedSkills(r, budget) ==
  LET selected == SkillsForRole(r)
      sorted == SortByDependencyOrder(selected).result
      ordered == [i \in DOMAIN sorted |-> Manifest(selected, sorted[i])]
      cut == EnforceTokenBudget([i \in DOMAIN ordered |-> SkillSection(ordered[i])], budget)
  IN [sections |-> Warnings(ordered) \o Warnings(OfRole(r, "quarantined")) \o cut.kept,
      excluded |-> Names(cut.deferred)]

-----------------------------------------------------------------------------
(* What a packet is started from.                                          *)
Profile == Section("project_conventions", 10, 4, NoSkill)

ProfileFor(r) == IF r \in {"developer", "debugger"} THEN <<Profile>> ELSE <<>>

(* buildModeAwarePacket.  Documents that are not there are passed over.    *)
ModeAware(r, mode, profile, docs, impact) ==
  (IF profile THEN ProfileFor(r) ELSE <<>>)
  \o (IF mode \in {"brownfield", "patch"} /\ docs
      THEN <<Section("as-is", 20, 1, NoSkill)>> ELSE <<>>)
  \o (IF mode = "patch" /\ impact THEN <<Section("impact-set", 10, 2, NoSkill)>> ELSE <<>>)

(* buildReviewerContextPacket.                                             *)
ReviewSections(objective, scope) ==
  LET Part(name) == Section(name, 10, 3, NoSkill)
  IN <<Part("failing_test_output"), Part("acceptance_criteria"),
       Part("diff_under_review"), Part("gene_signals")>>
     \o (IF objective THEN <<Part("story_objective")>> ELSE <<>>)
     \o (IF scope THEN <<Part("write_set_scope")>> ELSE <<>>)

PacketInit ==
  /\ WindowInit
  /\ role = NoRole /\ sections = <<>> /\ excluded = <<>>
  /\ library = <<>> /\ injections = 0 /\ loads = 0

StartAs(r, s, out) ==
  /\ role = NoRole /\ said <= PacketTurns
  /\ role' = r /\ sections' = s /\ excluded' = out
  /\ library' \in Libraries
  /\ UNCHANGED <<windowVars, injections, loads>>

BuildRoleContextPacket(r, available) ==
  StartAs(r, Required(r, available), Names(NotRequired(r, available)))

BuildModeAwarePacket(r) ==
  \E mode \in {"greenfield", "brownfield", "patch"}, profile, docs, impact \in BOOLEAN :
    StartAs(r, ModeAware(r, mode, profile, docs, impact), <<>>)

BuildReviewerContextPacket ==
  \E objective, scope \in BOOLEAN : StartAs("reviewer", ReviewSections(objective, scope), <<>>)

(* A step on a packet that exists.                                         *)
Inject(s, out) ==
  /\ role # NoRole /\ injections < MaxInjections
  /\ injections' = injections + 1
  /\ sections' = s /\ excluded' = out
  /\ UNCHANGED <<windowVars, role, library>>

InjectProjectProfile ==
  /\ Inject(sections \o ProfileFor(role), excluded)
  /\ UNCHANGED loads

(* A cycle among the skills rejects, and the caller keeps what it had.     *)
InjectSkills(budget) ==
  LET injected == InjectedSkills(role, budget)
  IN /\ role # NoRole
     /\ ~SortByDependencyOrder(SkillsForRole(role)).cycle
     /\ Inject(sections \o injected.sections, excluded \o injected.excluded)
     /\ loads' = loads + 1

InjectOwnPreviousStorySummary ==
  /\ role = "developer"
  /\ Inject(Append(sections, Section("own_previous_story_summary",
                                     Tokens(Length(OwnSummary)), 2, NoSkill)), excluded)
  /\ UNCHANGED loads

(* The caller adds what must not be compressed: buildPinnedZone.           *)
AddPinnedZone ==
  /\ Inject(Append(sections, Section("arch_decisions", SectionLength \div 4, 0, NoSkill)), excluded)
  /\ UNCHANGED loads

CutToBudget(budget) ==
  LET cut == EnforceTokenBudget(sections, budget)
  IN /\ Inject(cut.kept, excluded \o Names(cut.deferred))
     /\ UNCHANGED loads

PacketNext ==
  \/ role = NoRole /\ WindowNext /\ UNCHANGED packetVars
  \/ \E r \in PacketRoles :
       \/ \E available \in Artifacts : BuildRoleContextPacket(r, available)
       \/ BuildModeAwarePacket(r)
  \/ BuildReviewerContextPacket
  \/ InjectProjectProfile
  \/ InjectOwnPreviousStorySummary
  \/ AddPinnedZone
  \/ \E budget \in Budgets : InjectSkills(budget) \/ CutToBudget(budget)

PacketSpec == PacketInit /\ [][PacketNext]_<<windowVars, packetVars>>

-----------------------------------------------------------------------------
(* Properties.                                                             *)

(* A packet holds nothing that is not for its role, however it was         *)
(* started and whatever was injected: what the role requires, what may be  *)
(* injected for it, and the text of registered skills of the role only,    *)
(* also when one depends on a skill that is quarantined or another role's. *)
Injectable(r) ==
  {"as-is", "impact-set", "arch_decisions", "skill", "skill_avoid"}
  \cup (IF r \in {"developer", "debugger"} THEN {"project_conventions"} ELSE {})
  \cup (IF r = "developer" THEN {"own_previous_story_summary"} ELSE {})
  \cup (IF r = "reviewer" THEN {"story_objective", "write_set_scope"} ELSE {})

PacketForRole ==
  role # NoRole =>
    \A i \in DOMAIN sections :
      /\ sections[i].name \in RequiredContextSections[role] \cup Injectable(role)
      /\ sections[i].name = "skill" =>
           \E k \in DOMAIN library :
             /\ library[k].id = sections[i].skill
             /\ library[k].role = role /\ library[k].status = "registered"

(* "return skills in dependency order (deps before dependents)"            *)
(* (skill-runtime/src/index.ts:66), in the packet: whatever was cut and    *)
(* reordered since the skills were injected, no skill stands before one it *)
(* depends on.  Injected twice, they may.                                  *)
DependenciesFirst ==
  loads <= 1 =>
    \A i, j \in DOMAIN sections :
      i < j /\ sections[i].name = "skill" /\ sections[j].name = "skill"
      => sections[j].skill \notin
           Range(Manifest(SkillsForRole(role), sections[i].skill).dependsOn)

(* Both together: what an agent is called with.                            *)
PacketSound == PacketForRole /\ DependenciesFirst

(* The warnings of a skill ("avoid refs are priority 1 - always kept") and *)
(* what is pinned ("priority: 0 (never evicted)") survive every cut: a cut *)
(* defers one of them only if all of them together go over its budget, and *)
(* a quarantined skill, or one that is too long for the budget, has warned *)
(* all the same, unless another registered one came after it by its id.    *)
Protected01(s) == Picked(s, {i \in DOMAIN s : s[i].priority <= 1})

(* The registered skill of the packet's role that is found by its id.      *)
Found(i) ==
  /\ library[i].role = role /\ library[i].status = "registered"
  /\ \A j \in DOMAIN library :
       /\ library[j].role = role /\ library[j].status = "registered"
       /\ library[j].id = library[i].id
       => j <= i

Quarantined(i) == library[i].role = role /\ library[i].status = "quarantined"

WarningsKept ==
  [][/\ \A budget \in Budgets :
          CutToBudget(budget)
          => /\ SectionTokens(sections') <= budget
             /\ SectionTokens(Protected01(sections)) <= budget
                => Range(Protected01(sections)) \subseteq Range(sections')
     /\ loads' # loads =>
          \A i \in DOMAIN library :
            library[i].avoid > 0 /\ (Found(i) \/ Quarantined(i))
            => \E k \in DOMAIN sections' :
                 sections'[k].name = "skill_avoid" /\ sections'[k].skill = library[i].id
    ]_<<windowVars, packetVars>>
=============================================================================
