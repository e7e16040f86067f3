-------------------------- MODULE MCContextWindow --------------------------
(* Bounds for TLC: six turns with KeepFirst = 1 and KeepLast = 2 leave     *)
(* three in the middle for either level, and two compactions let the       *)
(* second meet what the first pinned.  A packet follows a story of at most *)
(* one turn: all it takes of a window is the length of its summary.  The   *)
(* libraries have a skill that depends on a quarantined one, a chain that  *)
(* is listed backwards with one too long for the smaller budget (all of it *)
(* is within the larger), two skills of one id, and a cycle.  The gate     *)
(* that lets a skill into a library is run beside, over packages of up to  *)
(* two cases.                                                              *)
EXTENDS ContextPackets, SkillGate

VARIABLE part  \* which of the two is run

MCPieces ==
  {Plain(40), Plain(400),
   [length |-> 400, denied |-> TRUE, mark |-> "head"],
   [length |-> 400, denied |-> TRUE, mark |-> "late"]}

Skill(id, r, registration, dependsOn, tokens, avoid) ==
  [id |-> id, role |-> r, status |-> registration, dependsOn |-> dependsOn,
   tokens |-> tokens, avoid |-> avoid]

MCLibraries ==
  {<<Skill("a", "developer", "registered", <<"b", "c">>, 10, 5),
     Skill("b", "developer", "quarantined", <<>>, 10, 5),
     Skill("c", "reviewer", "registered", <<>>, 10, 5)>>,
   <<Skill("a", "developer", "registered", <<"b">>, 10, 0),
     Skill("b", "developer", "registered", <<"c">>, 50, 5),
     Skill("c", "developer", "registered", <<>>, 10, 5),
     Skill("d", "reviewer", "draft", <<>>, 10, 5)>>,
   <<Skill("a", "developer", "registered", <<>>, 10, 5),
     Skill("b", "developer", "registered", <<>>, 10, 5),
     Skill("a", "developer", "registered", <<"b">>, 20, 0)>>,
   <<Skill("a", "developer", "registered", <<"b">>, 10, 5),
     Skill("b", "developer", "registered", <<"a">>, 10, 5)>>}

MCArtifacts ==
  {<<>>,
   <<Section("story_contract", 30, 1, NoSkill), Section("failed_logs", 40, 1, NoSkill),
     Section("agent_reasoning", 5, 3, NoSkill), Section("relevant_files", 10, 5, NoSkill),
     Section("gene_signals", 10, 0, NoSkill)>>}

NoPackage == [nature |-> [c \in {} |-> "sound"], listed |-> FALSE, leaks |-> FALSE]

MCInit ==
  /\ PacketInit /\ GateInit
  /\ part \in {"packets", "gate"}
  /\ part = "packets" => skill = NoPackage /\ executor = "default"

MCNext ==
  /\ \/ part = "packets" /\ PacketNext /\ UNCHANGED gateVars
     \/ part = "gate" /\ GateNext /\ UNCHANGED <<windowVars, packetVars>>
  /\ UNCHANGED part

MCSpec == MCInit /\ [][MCNext]_<<windowVars, packetVars, gateVars, part>>
=============================================================================
