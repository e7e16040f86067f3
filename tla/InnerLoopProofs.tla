-------------------------- MODULE InnerLoopProofs --------------------------
(***************************************************************************)
(* Theorems about the inner loop and the providers it calls, for every     *)
(* routing, script, patch, path and number of repairs: its type invariant, *)
(* that a checkpoint is about the tree as it is, that what is written is   *)
(* contained, and that the answer is the first valid one of the route.     *)
(*                                                                         *)
(* The providers are a machine of their own inside the loop.  Its          *)
(* invariant, ProvidersInv, is proved over the steps of Providers alone,   *)
(* LoopNextCalls maps each step of the loop to one of them or to none, and *)
(* the loop's own invariant, LoopInv, takes over from there.               *)
(*                                                                         *)
(* The last part is about the login that live providers need: the callback *)
(* port, the token store and the session, for any number of processes and  *)
(* of token pairs.                                                         *)
(***************************************************************************)
EXTENDS InnerLoop, CodexAuth, TLAPS

-----------------------------------------------------------------------------
(* The permission gateway.                                                 *)

(* A write the gateway allows is to a file no rule guards: the rules about *)
(* secrets and protected paths come before every rule that allows, and the *)
(* first that applies decides.                                             *)
LEMMA AllowedIsUnguarded ==
  ASSUME NEW file, NEW workspaces, Evaluate(WriteRequest(file), workspaces, FALSE) = "allow"
  PROVE  file \notin Secrets \cup Protected
<1> DEFINE rules == Rules(WriteRequest(file), workspaces, FALSE)
           First(i) == rules[i].applies /\ \A j \in 1..(i - 1) : ~rules[j].applies
           first == CHOOSE i \in DOMAIN rules : First(i)
<1>1. DOMAIN rules = 1..11
  BY DEF Rules
<1>2. /\ rules[1].decision = "deny" /\ rules[2].decision = "deny"
      /\ rules[3].decision = "deny" /\ rules[4].decision = "deny"
  BY DEF Rules, Rule
<1>3. /\ rules[3].applies <=> file \in Secrets
      /\ rules[4].applies <=> file \in Protected
  <2>1. rules[3] = Rule({file} \cap Secrets # {}, "deny")
        /\ rules[4] = Rule(TRUE /\ {file} \cap Protected # {}, "deny")
    BY DEF Rules, WriteRequest
  <2>2. \A applies \in BOOLEAN : \A d : Rule(applies, d).applies = applies
    BY DEF Rule
  <2>3. ({file} \cap Secrets # {}) \in BOOLEAN /\ (TRUE /\ {file} \cap Protected # {}) \in BOOLEAN
    OBVIOUS
  <2>4. rules[3].applies = ({file} \cap Secrets # {})
        /\ rules[4].applies = (TRUE /\ {file} \cap Protected # {})
    BY <2>1, <2>2, <2>3, Zenon
  <2> QED
    BY <2>4
<1>4. rules[first].decision = "allow"
  BY DEF Evaluate
<1> HIDE DEF rules
<1> SUFFICES ASSUME file \in Secrets \cup Protected PROVE FALSE
  OBVIOUS
<1>5. \E i \in 1..4 : First(i)
  <2>1. \E i \in 1..4 : rules[i].applies
    BY <1>3
  <2>2. CASE rules[1].applies
    BY <2>2
  <2>3. CASE ~rules[1].applies /\ rules[2].applies
    BY <2>3
  <2>4. CASE ~rules[1].applies /\ ~rules[2].applies /\ rules[3].applies
    BY <2>4
  <2>5. CASE ~rules[1].applies /\ ~rules[2].applies /\ ~rules[3].applies
    BY <2>1, <2>5
  <2> QED
    BY <2>2, <2>3, <2>4, <2>5
<1>6. first \in 1..11 /\ First(first)
  BY <1>1, <1>5
<1>7. first \in 1..4
  BY <1>5, <1>6
<1> HIDE DEF first
<1>8. first = 1 \/ first = 2 \/ first = 3 \/ first = 4
  BY <1>7
<1> QED
  BY <1>2, <1>4, <1>8

(* What applyProposal lets through is in the write set and unguarded.      *)
LEMMA MayApplyContained ==
  ASSUME NEW declared, MayApply(declared)
  PROVE  declared \subseteq WriteSet \ (Secrets \cup Protected)
BY AllowedIsUnguarded DEF MayApply, WithinWriteSet

-----------------------------------------------------------------------------
(* The providers.                                                          *)

ProvidersStep ==
  \/ RegisterLocal \/ Bootstrap \/ CheckModels \/ CheckRouting \/ StartCall
  \/ ProviderFails
  \/ \E o \in Answers : ProviderAnswers(o)

(* How many references of the route have failed.                           *)
Passed == IF answered = None THEN at ELSE at - 1

(* No live provider has an adapter unless every gate is open, and a route  *)
(* that is called has an adapter for all of it.                            *)
GatedInv ==
  /\ registry \cap Live # {} => LiveMode
  /\ route # None => \A i \in DOMAIN route : route[i].provider \in registry

(* What was called is the route up to where the call is, and all of it but *)
(* the one that answered has failed, so that no placeholder is behind it.  *)
CalledInv ==
  /\ route = None => failed = {} /\ answered = None
  /\ route # None => failed = {route[j] : j \in 1..Passed}
  /\ answered # None => at > 0 /\ answered = route[at]
  /\ \A i \in 1..Passed : route[i].provider \notin Placeholders

ProvidersInv == ProvidersTypeOK /\ GatedInv /\ CalledInv

(* A route is a sequence of what its configuration refers to, and is not   *)
(* empty.                                                                  *)
LEMMA RouteType ==
  ASSUME NEW c \in Configs
  PROVE  /\ RouteOf(c) \in Seq(Refs(c)) /\ RouteOf(c) # None
         /\ \A i \in DOMAIN RouteOf(c) : RouteOf(c)[i] \in Refs(c) /\ RouteOf(c)[i] # None
         /\ 1 \in DOMAIN RouteOf(c)
<1> DEFINE S == Refs(c)
<1>1. c.fallbacks \in Seq(S) /\ None \notin S /\ RouteOf(c) # None
  BY ConfigsAssumption
<1>2. CASE c.override # None
  <2>1. RouteOf(c) = <<c.override>> /\ c.override \in S
    BY <1>2 DEF RouteOf, Refs
  <2> QED
    BY <1>1, <2>1
<1>3. CASE c.override = None
  <2>1. RouteOf(c) = <<c.primary>> \o c.fallbacks /\ c.primary \in S
    BY <1>3 DEF RouteOf, Refs
  <2> HIDE DEF S
  <2>2. <<c.primary>> \in Seq(S)
    BY <2>1
  <2>3. RouteOf(c) \in Seq(S) /\ Len(RouteOf(c)) = 1 + Len(c.fallbacks)
    BY <1>1, <2>1, <2>2
  <2>4. Len(c.fallbacks) \in Nat
    BY <1>1
  <2>5. 1 \in DOMAIN RouteOf(c)
    BY <2>3, <2>4
  <2> QED
    BY <1>1, <2>3, <2>5 DEF S
<1> QED
  BY <1>2, <1>3

(* A placeholder has a valid answer whatever it is asked.                  *)
LEMMA PlaceholdersAnswer ==
  ASSUME NEW p \in Placeholders, NEW o \in Returns(p)
  PROVE  ValidResponse(o)
<1>1. CASE Kind[p] = "manual"
  BY <1>1 DEF Returns, ManualReturns, ValidResponse, BuiltEscalation
<1>2. CASE Kind[p] = "scripted" /\ \A s \in ScriptedReturns(p) : ValidResponse(s)
  BY <1>2 DEF Returns
<1> QED
  BY <1>1, <1>2 DEF Placeholders

(* What placeholders are depends on the request and the scripts only.      *)
LEMMA PlaceholdersKept ==
  ASSUME UNCHANGED <<request, script>>
  PROVE  Placeholders' = Placeholders
BY DEF Placeholders, ScriptedReturns

LEMMA ProvidersInitially == ProvidersInit => ProvidersInv
<1> SUFFICES ASSUME ProvidersInit PROVE ProvidersInv
  OBVIOUS
<1>1. ProvidersTypeOK
  BY DEF ProvidersInit, ProvidersTypeOK
<1>2. GatedInv
  BY DEF ProvidersInit, GatedInv
<1>3. CalledInv
  BY DEF ProvidersInit, CalledInv, Passed
<1> QED
  BY <1>1, <1>2, <1>3 DEF ProvidersInv

(* Each step of the providers keeps their invariant.                       *)
LEMMA ProvidersKept ==
  ASSUME ProvidersInv, ProvidersStep
  PROVE  ProvidersInv'
<1> USE DEF ProvidersInv
<1>1. CASE RegisterLocal
  <2> USE <1>1 DEF RegisterLocal, given
  <2>1. route = None
    BY RouteType DEF ProvidersTypeOK, GatedInv
  <2>2. ProvidersTypeOK'
    BY DEF ProvidersTypeOK
  <2>3. GatedInv'
    BY <2>1, ProvidersAssumption DEF GatedInv
  <2>4. CalledInv'
    BY PlaceholdersKept DEF CalledInv, Passed
  <2> QED
    BY <2>2, <2>3, <2>4
<1>2. CASE Bootstrap
  <2> USE <1>2 DEF Bootstrap, given
  <2>1. ProvidersTypeOK'
    BY DEF ProvidersTypeOK
  <2>2. GatedInv'
    BY DEF GatedInv, LiveMode
  <2>3. CalledInv'
    BY PlaceholdersKept DEF CalledInv, Passed
  <2> QED
    BY <2>1, <2>2, <2>3
<1>3. CASE CheckModels \/ CheckRouting
  <2> USE <1>3 DEF CheckModels, CheckRouting, given
  <2>1. ProvidersTypeOK'
    BY DEF ProvidersTypeOK
  <2>2. GatedInv'
    BY DEF GatedInv, LiveMode
  <2>3. CalledInv'
    BY PlaceholdersKept DEF CalledInv, Passed
  <2> QED
    BY <2>1, <2>2, <2>3
<1>4. CASE StartCall
  <2> USE <1>4 DEF StartCall, given
  <2>1. config \in Configs /\ RouteOf(config) # None /\ RouteOf(config) \in Seq(Refs(config))
    BY RouteType DEF ProvidersTypeOK
  <2>2. ProvidersTypeOK'
    BY <2>1 DEF ProvidersTypeOK
  <2>3. GatedInv'
    BY DEF GatedInv, LiveMode, Resolvable, Registered
  <2>4. at = 0 /\ failed = {} /\ answered = None
    BY DEF ProvidersTypeOK, CalledInv
  <2>5. CalledInv'
    BY <2>1, <2>4 DEF CalledInv, Passed
  <2> QED
    BY <2>2, <2>3, <2>5
<1> DEFINE ref == route[at + 1]
<1>5. ASSUME Calling
      PROVE  /\ route = RouteOf(config) /\ config \in Configs /\ route # None
             /\ at \in Nat /\ Len(route) \in Nat /\ at + 1 \in 1..Len(route)
             /\ ref \in Refs(config) /\ ref # None
             /\ Passed = at /\ failed = {route[j] : j \in 1..at}
  BY <1>5, RouteType DEF Calling, ProvidersTypeOK, CalledInv, Passed
<1>6. CASE ProviderFails
  <2> USE <1>6 DEF ProviderFails, given
  <2>1. ProvidersTypeOK'
    BY <1>5 DEF ProvidersTypeOK
  <2>2. GatedInv'
    BY DEF GatedInv, LiveMode
  <2>3. ref.provider \notin Placeholders
    BY PlaceholdersAnswer DEF Answers
  <2>4. answered = None /\ at' = at + 1 /\ Passed' = at + 1
    BY <1>5 DEF Calling, Passed
  <2>5. failed' = {route[j] : j \in 1..(at + 1)}
    BY <1>5
  <2>6. \A i \in 1..(at + 1) : route[i].provider \notin Placeholders
    BY <1>5, <2>3 DEF CalledInv
  <2>7. CalledInv'
    BY <1>5, <2>4, <2>5, <2>6, PlaceholdersKept DEF CalledInv
  <2> QED
    BY <2>1, <2>2, <2>7
<1>7. ASSUME NEW o \in Answers, ProviderAnswers(o)
      PROVE  ProvidersInv'
  <2> USE <1>7 DEF ProviderAnswers, given
  <2>1. ProvidersTypeOK'
    BY <1>5 DEF ProvidersTypeOK
  <2>2. GatedInv'
    BY DEF GatedInv, LiveMode
  <2>3. answered' = ref /\ at' = at + 1 /\ Passed' = at
    BY <1>5 DEF Calling, Passed
  <2>4. CalledInv'
    BY <1>5, <2>3, PlaceholdersKept DEF CalledInv
  <2> QED
    BY <2>1, <2>2, <2>4
<1> QED
  BY <1>1, <1>2, <1>3, <1>4, <1>6, <1>7 DEF ProvidersStep

(* The answer is the first valid one: what the invariant says of a call    *)
(* is what the property says of its references.                            *)
LEMMA ProvidersAnswerFirst == ProvidersInv => FirstValidAnswers
<1> SUFFICES ASSUME ProvidersInv PROVE FirstValidAnswers
  OBVIOUS
<1> USE DEF ProvidersInv
<1> DEFINE refs == RouteOf(config)
<1>1. CASE route = None
  BY <1>1 DEF CalledInv, FirstValidAnswers, Called
<1>2. CASE route # None
  <2>1. /\ route = refs /\ Len(refs) \in Nat /\ DOMAIN refs = 1..Len(refs)
        /\ at \in 0..Len(refs) /\ Passed \in 0..Len(refs)
    BY <1>2, RouteType DEF ProvidersTypeOK, CalledInv, Passed
  <2>2. ASSUME answered # None
        PROVE  \E i \in DOMAIN refs :
                 answered = refs[i] /\ failed = {refs[j] : j \in 1..(i - 1)}
    <3>1. at \in DOMAIN refs /\ answered = refs[at] /\ failed = {refs[j] : j \in 1..(at - 1)}
      BY <1>2, <2>1, <2>2 DEF CalledInv, Passed
    <3> QED
      BY <3>1
  <2>3. Called \subseteq {refs[j] : j \in 1..at}
    BY <1>2, <2>1 DEF Called, CalledInv, Passed
  <2>4. ASSUME NEW ref \in Called, ref.provider \in Live
        PROVE  LiveMode
    <3>1. PICK j \in DOMAIN refs : ref = refs[j]
      BY <2>1, <2>3
    <3> QED
      BY <1>2, <2>1, <2>4, <3>1 DEF GatedInv
  <2>5. ASSUME NEW i \in DOMAIN refs, refs[i].provider \in Placeholders
        PROVE  Called \subseteq {refs[j] : j \in 1..i}
    <3>1. i > Passed
      BY <2>1, <2>5 DEF CalledInv
    <3>2. at <= i
      BY <2>1, <3>1 DEF Passed
    <3> QED
      BY <2>1, <2>3, <3>2
  <2> QED
    BY <2>2, <2>4, <2>5 DEF FirstValidAnswers
<1> QED
  BY <1>1, <1>2

-----------------------------------------------------------------------------
(* The loop.                                                               *)

(* Every step of the loop is a step of the providers or leaves them alone. *)
LEMMA LoopNextCalls == Next => ProvidersStep \/ UNCHANGED providerVars
<1> SUFFICES ASSUME Next PROVE ProvidersStep \/ UNCHANGED providerVars
  OBVIOUS
<1>1. CASE Model
  BY <1>1 DEF Model, ProvidersStep
<1>2. ASSUME NEW o \in Answers, ModelAnswers(o)
      PROVE  ProvidersStep
  BY <1>2 DEF ModelAnswers, ProvidersStep
<1>3. CASE Create \/ Seed \/ NoAnswer \/ SpecGate \/ ApplyProposal \/ Validate \/ Cleanup
  BY <1>3 DEF Create, Seed, NoAnswer, SpecGate, ApplyProposal, Validate, Cleanup
<1>4. ASSUME NEW b \in BOOLEAN, Baseline(b) \/ ValidateWalking(b) \/ Preflight(b)
      PROVE  UNCHANGED providerVars
  BY <1>4 DEF Baseline, ValidateWalking, Preflight
<1>5. ASSUME NEW o \in Outputs, Repairing(o)
      PROVE  UNCHANGED providerVars
  BY <1>5 DEF Repairing, RepairRefused, RepairNotApplied, RepairValidated, RepairFails
<1> QED
  BY <1>1, <1>2, <1>3, <1>4, <1>5 DEF Next

(* A proposal that is taken is one the loop can work with.                 *)
LEMMA AnswerType ==
  ASSUME ProvidersInv, Calling, NEW o \in Answers, o.kind = "patch_proposal"
  PROVE  o \in Proposal /\ o # None
<1> DEFINE p == route[at + 1].provider
<1>1. p \in Local \cup Live /\ request \in Requests /\ script \in Scripts
  <2>1. route = RouteOf(config) /\ config \in Configs /\ at + 1 \in DOMAIN route
    BY RouteType DEF ProvidersInv, ProvidersTypeOK, Calling
  <2> QED
    BY <2>1 DEF ProvidersInv, ProvidersTypeOK, GatedInv, Calling
<1>2. o \in Returns(p)
  BY DEF Answers
<1> HIDE DEF p
<1>3. Kind[p] \in {"scripted", "fixture", "manual", "llm_remote"}
  BY <1>1, ProvidersAssumption
<1>4. o \in Outputs
  <2>1. o # BuiltEscalation /\ o # Thrown
    BY DEF BuiltEscalation, Thrown
  <2>2. CASE Kind[p] = "scripted"
    BY <1>1, <1>2, <2>1, <2>2, OutputsAreAssumption DEF Returns, ScriptedReturns, CaseReturns
  <2>3. CASE Kind[p] = "fixture"
    BY <1>1, <1>2, <2>1, <2>3, OutputsAreAssumption DEF Returns, FixtureReturns
  <2>4. CASE Kind[p] = "manual"
    BY <1>2, <2>1, <2>4 DEF Returns, ManualReturns
  <2>5. CASE Kind[p] = "llm_remote"
    BY <1>2, <2>1, <2>5 DEF Returns, RemoteReturns
  <2> QED
    BY <1>3, <2>2, <2>3, <2>4, <2>5
<1> QED
  BY <1>4, OutputsAssumption, OutputsAreAssumption DEF Escalation

Untouched == {"off", "seed", "baseline", "model", "preflight", "gate", "apply"}

(* One patch comes before the first verdict and at most one with each      *)
(* repair, and a repair is asked for while attempts are left.              *)
CountsInv ==
  /\ pc \in Untouched => patches = 0 /\ attempts = 0
  /\ pc = "validate" => patches = 1 /\ attempts = 0
  /\ pc = "repair" => driver = "full" /\ attempts < MaxAttempts
  /\ patches <= attempts + 1

(* Nothing is patched or judged after the checkpoint.                      *)
CheckpointInv ==
  /\ checkpoint # None => pc \in {"cleanup", "over"}
  /\ CheckpointVerified

LoopInv == TypeOK /\ ProvidersInv /\ CountsInv /\ CheckpointInv /\ WritesContained

LEMMA LoopInitially == Init => LoopInv
<1> SUFFICES ASSUME Init PROVE LoopInv
  OBVIOUS
<1>1. ProvidersInv
  BY ProvidersInitially DEF Init
<1>2. TypeOK
  <2>1. verdict.passed \in BOOLEAN /\ verdict.on \in 0..patches
    BY DEF Init
  <2>2. patches \in 0..(MaxAttempts + 1) /\ attempts \in 0..MaxAttempts
    BY MaxAttemptsAssumption DEF Init
  <2> QED
    BY <1>1, <2>1, <2>2 DEF Init, TypeOK, ProvidersInv
<1>3. CountsInv
  BY DEF Init, CountsInv
<1>4. CheckpointInv
  BY DEF Init, CheckpointInv, CheckpointVerified
<1>5. WritesContained
  BY DEF Init, WritesContained
<1> QED
  BY <1>1, <1>2, <1>3, <1>4, <1>5 DEF LoopInv


LEMMA ProvidersAtRest ==
  ASSUME ProvidersInv, UNCHANGED providerVars
  PROVE  ProvidersInv'
<1> USE DEF ProvidersInv, providerVars
<1>1. ProvidersTypeOK'
  BY DEF ProvidersTypeOK
<1>2. GatedInv'
  BY DEF GatedInv, LiveMode
<1>3. CalledInv'
  BY PlaceholdersKept DEF CalledInv, Passed
<1> QED
  BY <1>1, <1>2, <1>3

(* The part of TypeOK that is about the loop itself.                       *)
LoopTypes ==
  /\ driver \in {"full", "walking"} /\ baseline \in {"none", "passed", "failed"}
  /\ pc \in Untouched \cup {"validate", "repair", "cleanup", "over"}
  /\ disk \in BOOLEAN /\ registered \in BOOLEAN /\ (registered => disk)
  /\ answer = None \/ answer \in Proposal
  /\ pc \in {"preflight", "gate", "apply"} => answer # None
  /\ preflight \in {"none", "submit", "escalate"}

WorkTypes ==
  /\ patches \in 0..(MaxAttempts + 1) /\ tree \subseteq Paths /\ honest \in BOOLEAN
  /\ verdict.passed \in BOOLEAN /\ verdict.on \in 0..patches
  /\ attempts \in 0..MaxAttempts

LEMMA TypeParts == TypeOK <=> ProvidersTypeOK /\ LoopTypes /\ WorkTypes
BY DEF TypeOK, LoopTypes, WorkTypes, Untouched

(* A patch git applies stays in its workspace, and it is in what the       *)
(* gateway let through if it keeps to what it declares.                    *)
LEMMA ApplyContained ==
  ASSUME WritesContained, NEW o, MayApply(o.declared), Apply(o)
  PROVE  WritesContained'
BY MayApplyContained DEF Apply, WritesContained

LEMMA JudgedType ==
  ASSUME NEW passed \in BOOLEAN, NEW on, Judged(passed, on)
  PROVE  verdict'.passed \in BOOLEAN /\ verdict'.on = on
BY DEF Judged

(* Steps before a patch, and the last one, leave the tree, its verdict and *)
(* what is recorded as they are.                                           *)
Beside ==
  /\ UNCHANGED <<driver, work, verdict, attempts, checkpoint>>
  /\ pc \notin Untouched => UNCHANGED baseline
  /\ \/ pc' \in {"cleanup", "over"}
     \/ pc \in Untouched /\ pc' \in Untouched

LEMMA BesideKept ==
  ASSUME LoopInv, LoopTypes', Beside
  PROVE  LoopTypes' /\ WorkTypes' /\ CountsInv' /\ CheckpointInv' /\ WritesContained'
<1> USE DEF LoopInv, Beside, work
<1>1. WorkTypes'
  BY TypeParts DEF WorkTypes
<1>2. CountsInv'
  BY DEF CountsInv, Untouched
<1>3. CheckpointInv'
  <2>1. CASE checkpoint = None
    BY <2>1 DEF CheckpointInv, CheckpointVerified
  <2>2. CASE checkpoint # None
    <3>1. pc \in {"cleanup", "over"} /\ pc' \in {"cleanup", "over"}
      BY <2>2 DEF CheckpointInv, Untouched
    <3>2. UNCHANGED <<checkpoint, patches, verdict, driver, baseline>>
      BY <3>1 DEF Untouched
    <3> QED
      BY <3>1, <3>2 DEF CheckpointInv, CheckpointVerified
  <2> QED
    BY <2>1, <2>2
<1>4. WritesContained'
  BY DEF WritesContained
<1> QED
  BY <1>1, <1>2, <1>3, <1>4


LoopPart == LoopTypes /\ WorkTypes /\ CountsInv /\ CheckpointInv /\ WritesContained

(* Each step of the loop keeps its part of the invariant.                  *)
LEMMA LoopPartKept ==
  ASSUME LoopInv, Next
  PROVE  LoopPart'
<1>0. LoopTypes /\ WorkTypes /\ ProvidersInv /\ CountsInv /\ CheckpointInv /\ WritesContained
  BY TypeParts DEF LoopInv
<1> USE DEF Untouched
<1>1. CASE Create
  <2>1. LoopTypes'
    BY <1>0, <1>1 DEF Create, LoopTypes
  <2>2. Beside
    BY <1>1 DEF Create, Beside
  <2> QED
    BY <2>1, <2>2, BesideKept DEF LoopPart
<1>2. CASE Seed
  <2>1. LoopTypes'
    BY <1>0, <1>2 DEF Seed, Leave, LoopTypes
  <2>2. Beside
    BY <1>2 DEF Seed, Leave, Beside
  <2> QED
    BY <2>1, <2>2, BesideKept DEF LoopPart
<1>3. ASSUME NEW passed \in BOOLEAN, Baseline(passed)
      PROVE  LoopPart'
  <2>1. LoopTypes'
    BY <1>0, <1>3 DEF Baseline, LoopTypes
  <2>2. Beside
    BY <1>3 DEF Baseline, Beside
  <2> QED
    BY <2>1, <2>2, BesideKept DEF LoopPart
<1>4. CASE Model
  <2>1. LoopTypes'
    BY <1>0, <1>4 DEF Model, loopVars, LoopTypes
  <2>2. Beside
    BY <1>4 DEF Model, loopVars, work, Beside
  <2> QED
    BY <2>1, <2>2, BesideKept DEF LoopPart
<1>5. ASSUME Calling, NEW o \in Answers, ModelAnswers(o)
      PROVE  LoopPart'
  <2>1. o.kind = "patch_proposal" => o \in Proposal /\ o # None
    BY <1>0, <1>5, AnswerType
  <2>2. LoopTypes'
    BY <1>0, <1>5, <2>1 DEF ModelAnswers, Leave, LoopTypes
  <2>3. Beside
    BY <1>5 DEF ModelAnswers, Leave, Beside
  <2> QED
    BY <2>2, <2>3, BesideKept DEF LoopPart
<1>6. CASE NoAnswer
  <2>1. LoopTypes'
    BY <1>0, <1>6 DEF NoAnswer, Leave, LoopTypes
  <2>2. Beside
    BY <1>6 DEF NoAnswer, Leave, Beside
  <2> QED
    BY <2>1, <2>2, BesideKept DEF LoopPart
<1>7. ASSUME NEW allowed \in BOOLEAN, Preflight(allowed)
      PROVE  LoopPart'
  <2>1. LoopTypes'
    BY <1>0, <1>7 DEF Preflight, PreflightNext, LoopTypes
  <2>2. Beside
    BY <1>7 DEF Preflight, Beside
  <2> QED
    BY <2>1, <2>2, BesideKept DEF LoopPart
<1>8. CASE SpecGate
  <2>1. LoopTypes'
    BY <1>0, <1>8 DEF SpecGate, Leave, LoopTypes
  <2>2. Beside
    BY <1>8 DEF SpecGate, Leave, Beside
  <2> QED
    BY <2>1, <2>2, BesideKept DEF LoopPart
<1>9. CASE Cleanup
  <2>1. LoopTypes'
    BY <1>0, <1>9 DEF Cleanup, LoopTypes
  <2>2. Beside
    BY <1>9 DEF Cleanup, Beside
  <2> QED
    BY <2>1, <2>2, BesideKept DEF LoopPart
<1>10. CASE ApplyProposal
  <2>1. LoopTypes'
    BY <1>0, <1>10 DEF ApplyProposal, Leave, LoopTypes
  <2>2. CASE Leave /\ UNCHANGED work
    <3>1. Beside
      BY <1>10, <2>2 DEF ApplyProposal, Leave, Beside
    <3> QED
      BY <2>1, <3>1, BesideKept DEF LoopPart
  <2>3. CASE /\ MayApply(answer.declared) /\ Apply(answer)
             /\ pc' = "validate" /\ UNCHANGED <<attempts, checkpoint>>
    <3>1. patches = 0 /\ attempts = 0 /\ patches' = 1 /\ attempts' = 0
      BY <1>0, <1>10, <2>3 DEF ApplyProposal, CountsInv, Apply
    <3>2. answer \in Proposal
      BY <1>0, <1>10 DEF ApplyProposal, LoopTypes
    <3>3. WorkTypes'
      BY <1>0, <1>10, <2>3, <3>1, <3>2, MaxAttemptsAssumption
      DEF ApplyProposal, Apply, WorkTypes, Proposal
    <3>4. CountsInv'
      BY <2>3, <3>1 DEF CountsInv
    <3>5. CheckpointInv'
      BY <1>0, <1>10, <2>3 DEF ApplyProposal, CheckpointInv, CheckpointVerified
    <3>6. WritesContained'
      BY <1>0, <2>3, ApplyContained
    <3> QED
      BY <2>1, <3>3, <3>4, <3>5, <3>6 DEF LoopPart
  <2> QED
    BY <1>10, <2>2, <2>3 DEF ApplyProposal
<1>11. CASE Validate
  <2> USE <1>11 DEF Validate, Judged, Record
  <2>1. LoopTypes'
    BY <1>0 DEF LoopTypes
  <2>2. patches = 1 /\ attempts = 0 /\ checkpoint = None
    BY <1>0 DEF CountsInv, CheckpointInv
  <2>3. WorkTypes'
    <3>1. Judged(TRUE, patches) \/ Judged(FALSE, patches)
      BY DEF Judged
    <3>2. verdict'.passed \in BOOLEAN /\ verdict'.on = patches
      BY <3>1, JudgedType
    <3> QED
      BY <1>0, <2>2, <3>2 DEF WorkTypes, work
  <2>4. CountsInv'
    BY <1>0, <2>2, MaxAttemptsAssumption DEF CountsInv, work
  <2>5. CheckpointInv'
    BY <1>0, <2>2 DEF CheckpointInv, CheckpointVerified, work
  <2>6. WritesContained'
    BY <1>0 DEF WritesContained, work
  <2> QED
    BY <2>1, <2>3, <2>4, <2>5, <2>6 DEF LoopPart
<1>12. ASSUME NEW passed \in BOOLEAN, ValidateWalking(passed)
       PROVE  LoopPart'
  <2> USE <1>12 DEF ValidateWalking, Judged, Record
  <2>1. LoopTypes'
    BY <1>0 DEF LoopTypes
  <2>2. patches = 1 /\ attempts = 0 /\ checkpoint = None
    BY <1>0 DEF CountsInv, CheckpointInv
  <2>3. WorkTypes'
    BY <1>0, <2>2 DEF WorkTypes, work
  <2>4. CountsInv'
    BY <1>0, <2>2 DEF CountsInv, work
  <2>5. CheckpointInv'
    <3>1. CASE passed /\ baseline = "failed"
      BY <2>2, <3>1 DEF CheckpointInv, CheckpointVerified, work
    <3>2. CASE ~(passed /\ baseline = "failed")
      BY <2>2, <3>2 DEF CheckpointInv, CheckpointVerified
    <3> QED
      BY <3>1, <3>2
  <2>6. WritesContained'
    BY <1>0 DEF WritesContained, work
  <2> QED
    BY <2>1, <2>3, <2>4, <2>5, <2>6 DEF LoopPart
<1>13. ASSUME pc = "repair", NEW o \in Outputs, Repairing(o)
       PROVE  LoopPart'
  <2>1. /\ checkpoint = None /\ driver = "full"
        /\ attempts \in Nat /\ attempts < MaxAttempts /\ patches \in Nat /\ patches <= attempts + 1
    BY <1>0, <1>13, MaxAttemptsAssumption DEF CheckpointInv, CountsInv, WorkTypes
  <2>2. /\ attempts' = attempts + 1 /\ UNCHANGED <<driver, baseline, disk, registered, answer, preflight>>
        /\ pc' \in {"repair", "cleanup"} /\ (pc' = "repair" => attempts + 1 < MaxAttempts)
    BY <1>13, <2>1, MaxAttemptsAssumption
    DEF Repairing, RepairRefused, RepairNotApplied, RepairValidated, RepairFails, AfterFailure, Record
  <2>3. LoopTypes'
    BY <1>0, <2>2 DEF LoopTypes
  <2>4. \/ UNCHANGED <<work, verdict, checkpoint>>
        \/ /\ Usable(o) /\ MayApply(o.declared) /\ Apply(o)
           /\ \/ Judged(TRUE, patches') /\ Record("validated")
              \/ Judged(FALSE, patches') /\ UNCHANGED checkpoint
    BY <1>13 DEF Repairing, RepairRefused, RepairNotApplied, RepairValidated, RepairFails
  <2>5. patches' \in {patches, patches + 1}
    BY <2>4 DEF work, Apply
  <2>6. WorkTypes'
    <3>1. o.kind = "patch_proposal" => o.touched \subseteq Paths /\ o.declared \subseteq Paths
      BY OutputsAssumption DEF Proposal, Escalation
    <3>2. patches' \in 0..(MaxAttempts + 1) /\ attempts' \in 0..MaxAttempts
      BY <2>1, <2>2, <2>5, MaxAttemptsAssumption
    <3>3. CASE UNCHANGED <<work, verdict, checkpoint>>
      BY <1>0, <3>2, <3>3 DEF WorkTypes, work
    <3>4. CASE Usable(o) /\ Apply(o) /\ (Judged(TRUE, patches') \/ Judged(FALSE, patches'))
      <4>1. verdict'.passed \in BOOLEAN /\ verdict'.on = patches'
        BY <3>4, JudgedType
      <4>2. tree' \subseteq Paths /\ honest' \in BOOLEAN
        BY <1>0, <3>1, <3>4 DEF WorkTypes, Apply, Usable
      <4> QED
        BY <3>2, <4>1, <4>2 DEF WorkTypes
    <3> QED
      BY <2>4, <3>3, <3>4
  <2>7. CountsInv'
    BY <2>1, <2>2, <2>5 DEF CountsInv
  <2>8. CheckpointInv'
    BY <1>0, <2>1, <2>2, <2>4 DEF CheckpointInv, CheckpointVerified, Judged, Record, work, Apply
  <2>9. WritesContained'
    <3>1. CASE UNCHANGED work
      BY <1>0, <3>1 DEF WritesContained, work
    <3>2. CASE MayApply(o.declared) /\ Apply(o)
      BY <1>0, <3>2, ApplyContained
    <3> QED
      BY <2>4, <3>1, <3>2
  <2> QED
    BY <2>3, <2>6, <2>7, <2>8, <2>9 DEF LoopPart
<1> QED
  BY <1>1, <1>2, <1>3, <1>4, <1>5, <1>6, <1>7, <1>8, <1>9, <1>10, <1>11, <1>12, <1>13 DEF Next


LEMMA LoopKept == LoopInv /\ [Next]_vars => LoopInv'
<1> SUFFICES ASSUME LoopInv, [Next]_vars PROVE LoopInv'
  OBVIOUS
<1>1. CASE Next
  <2>1. ProvidersInv'
    BY <1>1, LoopNextCalls, ProvidersKept, ProvidersAtRest DEF LoopInv
  <2>2. LoopPart'
    BY <1>1, LoopPartKept
  <2>3. TypeOK'
    BY <2>1, <2>2 DEF TypeOK, ProvidersInv, LoopPart, LoopTypes, WorkTypes, Untouched
  <2> QED
    BY <2>1, <2>2, <2>3 DEF LoopPart, LoopInv
<1>2. CASE UNCHANGED vars
  <2> USE <1>2 DEF vars, loopVars, LoopInv
  <2>1. ProvidersInv'
    BY ProvidersAtRest
  <2>2. LoopTypes' /\ WorkTypes'
    BY TypeParts DEF LoopTypes, WorkTypes
  <2>3. CountsInv' /\ CheckpointInv' /\ WritesContained'
    BY DEF CountsInv, CheckpointInv, CheckpointVerified, WritesContained
  <2>4. TypeOK'
    BY <2>1, <2>2 DEF TypeOK, ProvidersInv, LoopTypes, WorkTypes, Untouched
  <2> QED
    BY <2>1, <2>3, <2>4
<1> QED
  BY <1>1, <1>2

LEMMA Inductive == Spec => []LoopInv
BY LoopInitially, LoopKept, PTL DEF Spec

-----------------------------------------------------------------------------
(* The theorems.                                                           *)

(* The inner loop keeps its types: a proposal is held from the answer to   *)
(* the patch, no workspace is confirmed that is not on disk, no more       *)
(* repairs are asked for than MaxAttempts and none is patched twice, and   *)
(* the providers of a call are those of its routing.                       *)
THEOREM TypeCorrect == Spec => []TypeOK
<1>1. LoopInv => TypeOK
  BY DEF LoopInv
<1> QED
  BY <1>1, Inductive, PTL

(* A story's result says validated only of the tree as its last patch left *)
(* it, whichever driver ran it, however many repairs failed before, and of *)
(* the walking driver only after a verdict that had failed.                *)
THEOREM Checkpointed == Spec => []CheckpointVerified
<1>1. LoopInv => CheckpointVerified
  BY DEF LoopInv, CheckpointInv
<1> QED
  BY <1>1, Inductive, PTL

(* What the loop's patches change is inside its own workspace, and in the  *)
(* write set and unguarded while each keeps to what it declares: what the  *)
(* specification gate, the gateway's rules and git check between them is   *)
(* enough, for every set of paths, links included.                         *)
THEOREM Contained == Spec => []WritesContained
<1>1. LoopInv => WritesContained
  BY DEF LoopInv
<1> QED
  BY <1>1, Inductive, PTL

(* Along every route and for every script, fixture and answer, the output  *)
(* that is taken is that of the first provider with a valid one, no live   *)
(* provider is called through a closed gate, and none behind a placeholder.*)
THEOREM FirstAnswers == Spec => []FirstValidAnswers
<1>1. LoopInv => FirstValidAnswers
  BY ProvidersAnswerFirst DEF LoopInv
<1> QED
  BY <1>1, Inductive, PTL

-----------------------------------------------------------------------------
(* The login and its token store.                                          *)

(* Beside its types, what every step may assume: a descriptor leads to one *)
(* of the files, and what a file holds is a pair the server has issued.    *)
FilesOK == fd \in [Callers -> {Nobody, "tmp", "store", "gone"}]
IssuedFile(f) == f.pair <= issued /\ (f.kind = "auth" => f.pair # 0)

TypeInv == AuthTypeOK /\ FilesOK /\ IssuedFile(store) /\ IssuedFile(tmp)

(* While nobody saves beside another, the one who writes has the .tmp file *)
(* to itself, and what it renames is what it wrote.                        *)
OneSaves == \A c, d \in Callers : Saving(c) /\ Saving(d) => c = d

SaveInv ==
  ~crowded =>
    /\ OneSaves
    /\ store.kind # "torn"
    /\ \A c \in Callers : step[c] = "write" => fd[c] = "tmp" /\ tmp.kind = "torn"
    /\ \A c \in Callers : step[c] = "rename" => tmp = Auth(held[c], whole[c])

(* A refresh token that is not stored yet is one the server takes; one     *)
(* that is stored may be retired only by a process that is about to store  *)
(* the next.                                                               *)
TokenInv ==
  ~crowded /\ ~stranded =>
    /\ \A c \in Callers : Unsaved(c) => whole[c] /\ held[c] \in live
    /\ store.kind = "auth" =>
         store.whole /\ (store.pair \in live \/ \E c \in Callers : Unsaved(c))

-----------------------------------------------------------------------------
(* Types.                                                                  *)

(* What processes hold, what the files do, and what the server knows.      *)
ProcessesOK ==
  /\ step \in [Callers -> Steps]
  /\ held \in [Callers -> 0..issued] /\ whole \in [Callers -> BOOLEAN]
  /\ \A c \in Callers : Unsaved(c) \/ step[c] = "refresh" => held[c] # 0
DescriptorsOK ==
  /\ FilesOK
  /\ \A c \in Callers : (fd[c] # Nobody) = (step[c] = "write")
StoresOK == store \in File /\ tmp \in File /\ IssuedFile(store) /\ IssuedFile(tmp)
ServerOK ==
  /\ port = Nobody \/ port \in Callers
  /\ issued \in 0..MaxIssued /\ live \subseteq 1..issued /\ expired \subseteq 1..issued
HistoryOK == crowded \in BOOLEAN /\ stranded \in BOOLEAN

LEMMA AuthTypeParts ==
  TypeInv <=> ProcessesOK /\ DescriptorsOK /\ StoresOK /\ ServerOK /\ HistoryOK
  BY DEF TypeInv, AuthTypeOK, ProcessesOK, DescriptorsOK, FilesOK, StoresOK, ServerOK, HistoryOK

LEMMA FileKinds ==
  /\ Absent \in File /\ TornFile \in File
  /\ \A n \in 0..MaxIssued, b \in BOOLEAN : Auth(n, b) \in File
  BY MaxIssuedAssumption DEF File, Absent, TornFile, Auth

LEMMA InitTypes == AuthInit => TypeInv
<1> SUFFICES ASSUME AuthInit
             PROVE  ProcessesOK /\ DescriptorsOK /\ StoresOK /\ ServerOK /\ HistoryOK
  BY AuthTypeParts
<1>1. ProcessesOK
  BY DEF AuthInit, ProcessesOK, Steps, Unsaved
<1>2. DescriptorsOK
  BY DEF AuthInit, DescriptorsOK, FilesOK
<1>3. StoresOK
  <2>1. store = Absent /\ tmp = Absent /\ issued = 0
    BY DEF AuthInit
  <2>2. Absent \in File
    BY FileKinds
  <2>3. Absent.pair = 0 /\ Absent.kind = "absent"
    BY DEF Absent
  <2>. QED
    BY <2>1, <2>2, <2>3 DEF StoresOK, IssuedFile
<1>5. HistoryOK
  BY DEF AuthInit, HistoryOK
<1>4. ServerOK
  BY MaxIssuedAssumption DEF AuthInit, ServerOK
<1>. QED
  BY <1>1, <1>2, <1>3, <1>4, <1>5

LEMMA StepHistory == TypeInv /\ [AuthNext]_authVars => HistoryOK'
<1> SUFFICES ASSUME HistoryOK, [AuthNext]_authVars PROVE HistoryOK'
  BY AuthTypeParts
<1>1. (crowded' = crowded \/ \E c \in Callers : OpenTmp(c))
  BY DEF AuthNext, authVars, Tokens, Logins, Saves, Load, Refresh, RefreshRefused, Receive, Lost,
     RequestFails, OpenTmp, WriteTmp, RenameTmp, Listen, Callback, CallbackError, Timeout,
     Exchange, Done, Logout, Dies, Expire
<1>2. \/ stranded' = stranded
      \/ \E c \in Callers : Refresh(c) \/ Lost(c) \/ Dies(c)
  BY DEF AuthNext, authVars, Tokens, Logins, Saves, Load, Refresh, RefreshRefused, Receive, Lost,
     RequestFails, OpenTmp, WriteTmp, RenameTmp, Listen, Callback, CallbackError, Timeout,
     Exchange, Done, Logout, Dies, Expire
<1>. QED
  BY <1>1, <1>2 DEF HistoryOK, OpenTmp, Refresh, Lost, Dies

(* What an issue adds: the next number.                                    *)
LEMMA Issuing ==
  ASSUME ServerOK, Issue
  PROVE  /\ issued' \in 1..MaxIssued /\ issued' = issued + 1 /\ expired' = expired
         /\ 1..issued \subseteq 1..issued'
  BY MaxIssuedAssumption DEF ServerOK, Issue

LEMMA StepServer == TypeInv /\ [AuthNext]_authVars => ServerOK' /\ issued <= issued'
<1> SUFFICES ASSUME ProcessesOK, ServerOK, [AuthNext]_authVars PROVE ServerOK' /\ issued <= issued'
  BY AuthTypeParts
<1>0. issued \in Nat
  BY MaxIssuedAssumption DEF ServerOK
<1>1. port' \in {port, Nobody} \cup Callers
  BY DEF AuthNext, authVars, Tokens, Logins, Saves, Load, Refresh, RefreshRefused, Receive, Lost,
     RequestFails, OpenTmp, WriteTmp, RenameTmp, Listen, Callback, CallbackError, Timeout,
     CloseServer, Exchange, Done, Logout, Dies, Expire
<1>2. \/ UNCHANGED server
      \/ Expire \/ \E c \in Callers : Refresh(c) \/ Exchange(c)
  BY DEF AuthNext, authVars, server, Tokens, Logins, Saves, Load, Refresh, RefreshRefused, Receive,
     Lost, RequestFails, OpenTmp, WriteTmp, RenameTmp, Listen, Callback, CallbackError, Timeout,
     Exchange, Done, Logout, Dies, Expire
<1>3. CASE UNCHANGED server
  BY <1>0, <1>1, <1>3 DEF ServerOK, server
<1>4. CASE Expire
  BY <1>0, <1>1, <1>4 DEF ServerOK, Expire
<1>5. ASSUME NEW c \in Callers, Refresh(c) \/ Exchange(c) PROVE ServerOK' /\ issued <= issued'
  <2>1. Issue /\ live' \subseteq live \cup {issued'}
    BY <1>5 DEF Refresh, Exchange
  <2>2. /\ issued' \in 1..MaxIssued /\ issued' = issued + 1 /\ expired' = expired
        /\ 1..issued \subseteq 1..issued' /\ issued' \in 1..issued'
    BY <1>0, <2>1, Issuing
  <2>3. live' \subseteq 1..issued' /\ expired' \subseteq 1..issued'
    BY <2>1, <2>2 DEF ServerOK
  <2>. QED
    BY <1>0, <1>1, <2>2, <2>3, MaxIssuedAssumption DEF ServerOK
<1>. QED
  BY <1>2, <1>3, <1>4, <1>5

(* A pair a process holds has been issued.                                 *)
LEMMA StepProcesses == TypeInv /\ [AuthNext]_authVars => ProcessesOK'
<1> SUFFICES ASSUME ProcessesOK, StoresOK, ServerOK, issued' \in Nat, issued <= issued',
                    [AuthNext]_authVars
             PROVE  ProcessesOK'
  BY StepServer, AuthTypeParts, MaxIssuedAssumption DEF ServerOK
<1>0. /\ issued \in Nat /\ issued' \in Nat /\ 0..issued \subseteq 0..issued'
      /\ held \in [Callers -> 0..issued']
  BY MaxIssuedAssumption DEF ServerOK, ProcessesOK
<1> USE <1>0 DEF ProcessesOK, Go, Hold, Steps, Unsaved
<1>1. ASSUME NEW c \in Callers, Load(c) PROVE ProcessesOK'
  <2>1. CASE store.kind = "auth" /\ store.whole
    <3>1. store.pair \in 0..issued /\ store.pair # 0
      BY <2>1, MaxIssuedAssumption DEF StoresOK, File, IssuedFile
    <3>2. issued' = issued
      BY <1>1 DEF Load, server
    <3>. QED
      BY <1>1, <2>1, <3>1, <3>2 DEF Load
  <2>2. CASE ~(store.kind = "auth" /\ store.whole)
    BY <1>1, <2>2 DEF Load, server
  <2>. QED
    BY <2>1, <2>2
<1>2. ASSUME NEW c \in Callers, Refresh(c) PROVE ProcessesOK'
  <2>1. issued' \in 1..MaxIssued /\ issued' \in 0..issued' /\ issued' # 0
    BY <1>2, Issuing DEF Refresh
  <2>2. /\ step' = [step EXCEPT ![c] = "answered"]
        /\ held' = [held EXCEPT ![c] = issued']
        /\ \E b \in BOOLEAN : whole' = [whole EXCEPT ![c] = b]
    BY <1>2 DEF Refresh
  <2>. QED
    BY <2>1, <2>2
<1>3. ASSUME NEW c \in Callers, RefreshRefused(c) \/ Receive(c) \/ Lost(c) \/ RequestFails(c)
      PROVE  ProcessesOK'
  BY <1>3 DEF RefreshRefused, Receive, Lost, RequestFails
<1>4. ASSUME NEW c \in Callers, Saves(c) PROVE ProcessesOK'
  BY <1>4 DEF Saves, OpenTmp, WriteTmp, RenameTmp
<1>5. ASSUME NEW c \in Callers, Listen(c) \/ Callback(c) \/ CallbackError(c) \/ Timeout(c)
      PROVE  ProcessesOK'
  BY <1>5 DEF Listen, Callback, CallbackError, Timeout
<1>6. ASSUME NEW c \in Callers, Exchange(c) PROVE ProcessesOK'
  <2>1. issued' \in 1..MaxIssued /\ issued' \in 0..issued' /\ issued' # 0
    BY <1>6, Issuing DEF Exchange
  <2>2. /\ step' = [step EXCEPT ![c] = "open"]
        /\ held' = [held EXCEPT ![c] = issued']
        /\ whole' = [whole EXCEPT ![c] = TRUE]
    BY <1>6 DEF Exchange
  <2>. QED
    BY <2>1, <2>2
<1>7. ASSUME NEW c \in Callers, Done(c) \/ Logout(c) \/ Dies(c) PROVE ProcessesOK'
  <2>1. CASE Logout(c)
    BY <2>1 DEF Logout
  <2>2. CASE Done(c) \/ Dies(c)
    <3>1. /\ step' = [step EXCEPT ![c] = "idle"]
          /\ held' = [held EXCEPT ![c] = 0]
          /\ whole' = [whole EXCEPT ![c] = FALSE]
      BY <2>2 DEF Done, Dies
    <3>. QED
      BY <3>1
  <2>. QED
    BY <1>7, <2>1, <2>2
<1>8. ASSUME Expire \/ UNCHANGED authVars PROVE ProcessesOK'
  BY <1>8 DEF Expire, authVars
<1>. QED
  BY <1>1, <1>2, <1>3, <1>4, <1>5, <1>6, <1>7, <1>8 DEF AuthNext, Tokens, Logins

LEMMA StepDescriptors == TypeInv /\ [AuthNext]_authVars => DescriptorsOK'
<1> SUFFICES ASSUME ProcessesOK, DescriptorsOK, [AuthNext]_authVars PROVE DescriptorsOK'
  BY AuthTypeParts
<1>0. step \in [Callers -> Steps]
  BY DEF ProcessesOK
<1> USE NobodyAssumption, <1>0 DEF DescriptorsOK, FilesOK, Go
<1>1. ASSUME NEW c \in Callers, Load(c) \/ Refresh(c) \/ RefreshRefused(c) PROVE DescriptorsOK'
  BY <1>1 DEF Load, Refresh, RefreshRefused
<1>2. ASSUME NEW c \in Callers, Receive(c) \/ Lost(c) \/ RequestFails(c) PROVE DescriptorsOK'
  BY <1>2 DEF Receive, Lost, RequestFails
<1>3. ASSUME NEW c \in Callers, OpenTmp(c) PROVE DescriptorsOK'
  BY <1>3 DEF OpenTmp
<1>4. ASSUME NEW c \in Callers, WriteTmp(c) PROVE DescriptorsOK'
  BY <1>4 DEF WriteTmp, CloseFile
<1>5. ASSUME NEW c \in Callers, RenameTmp(c) PROVE DescriptorsOK'
  BY <1>5 DEF RenameTmp, Followed
<1>6. ASSUME NEW c \in Callers, Logins(c) PROVE DescriptorsOK'
  BY <1>6 DEF Logins, Listen, Callback, CallbackError, Timeout, Exchange
<1>7. ASSUME NEW c \in Callers, Done(c) \/ Logout(c) PROVE DescriptorsOK'
  BY <1>7 DEF Done, Logout
<1>8. ASSUME NEW c \in Callers, Dies(c) PROVE DescriptorsOK'
  BY <1>8 DEF Dies, CloseFile
<1>9. ASSUME Expire \/ UNCHANGED authVars PROVE DescriptorsOK'
  BY <1>9 DEF Expire, authVars
<1>. QED
  BY <1>1, <1>2, <1>3, <1>4, <1>5, <1>6, <1>7, <1>8, <1>9 DEF AuthNext, Tokens, Saves

(* What a step leaves in a file: what one of them held, nothing, a cut     *)
(* text, or what a process holds that has not stored it yet.               *)
LEMMA FileContents ==
  ASSUME [AuthNext]_authVars, NEW f \in {store', tmp'}
  PROVE  \/ f \in {store, tmp, Absent, TornFile}
         \/ \E c \in Callers : step[c] = "write" /\ f = Auth(held[c], whole[c])
<1>1. ASSUME NEW c \in Callers, WriteTmp(c)
      PROVE  f \in {store, tmp, TornFile, Auth(held[c], whole[c])} /\ step[c] = "write"
  BY <1>1 DEF WriteTmp, Written
<1>2. ASSUME NEW c \in Callers, OpenTmp(c) \/ RenameTmp(c) \/ Done(c) \/ Logout(c) \/ Dies(c)
      PROVE  f \in {store, tmp, Absent, TornFile}
  BY <1>2 DEF OpenTmp, RenameTmp, Done, Logout, Dies
<1>3. ASSUME NEW c \in Callers, Logins(c) PROVE f \in {store, tmp}
  BY <1>3 DEF Logins, Listen, Callback, CallbackError, Timeout, Exchange
<1>4. ASSUME NEW c \in Callers, Tokens(c), ~Saves(c) PROVE f \in {store, tmp}
  BY <1>4 DEF Tokens, Load, Refresh, RefreshRefused, Receive, Lost, RequestFails
<1>5. ASSUME Expire \/ UNCHANGED authVars PROVE f \in {store, tmp}
  BY <1>5 DEF Expire, authVars
<1>. QED
  BY <1>1, <1>2, <1>3, <1>4, <1>5 DEF AuthNext, Saves

LEMMA StepStores == TypeInv /\ [AuthNext]_authVars => StoresOK'
<1> SUFFICES ASSUME ProcessesOK, StoresOK, ServerOK, issued <= issued', issued' \in Nat,
                    [AuthNext]_authVars
             PROVE  StoresOK'
  BY StepServer, AuthTypeParts, MaxIssuedAssumption DEF ServerOK
<1>0. issued \in 0..MaxIssued /\ issued \in Nat
  BY MaxIssuedAssumption DEF ServerOK
<1>1. ASSUME NEW f \in {store', tmp'}
      PROVE  f \in File /\ f.pair <= issued' /\ (f.kind = "auth" => f.pair # 0)
  <2>1. CASE f \in {store, tmp}
    <3>1. f \in File /\ f.pair <= issued /\ (f.kind = "auth" => f.pair # 0)
      BY <2>1 DEF StoresOK, IssuedFile
    <3>2. f.pair \in Nat
      BY <3>1, MaxIssuedAssumption DEF File
    <3>. QED
      BY <1>0, <3>1, <3>2
  <2>2. CASE f \in {Absent, TornFile}
    <3>1. f \in File
      BY <2>2, FileKinds
    <3>2. f.pair = 0 /\ f.kind # "auth"
      BY <2>2 DEF Absent, TornFile
    <3>. QED
      BY <3>1, <3>2
  <2>3. ASSUME NEW c \in Callers, step[c] = "write", f = Auth(held[c], whole[c])
        PROVE  f \in File /\ f.pair <= issued' /\ (f.kind = "auth" => f.pair # 0)
    <3>1. held[c] \in 0..issued /\ held[c] # 0 /\ whole[c] \in BOOLEAN
      BY <2>3 DEF ProcessesOK, Unsaved
    <3>2. held[c] \in 0..MaxIssued /\ held[c] <= issued'
      BY <1>0, <3>1, MaxIssuedAssumption
    <3>3. f \in File
      BY <2>3, <3>1, <3>2, FileKinds
    <3>. QED
      BY <2>3, <3>1, <3>2, <3>3 DEF Auth
  <2>. QED
    BY <2>1, <2>2, <2>3, FileContents
<1>. QED
  BY <1>1 DEF StoresOK, IssuedFile

LEMMA StepTypes == TypeInv /\ [AuthNext]_authVars => TypeInv'
<1>1. TypeInv' <=> ProcessesOK' /\ DescriptorsOK' /\ StoresOK' /\ ServerOK' /\ HistoryOK'
  BY DEF TypeInv, AuthTypeOK, ProcessesOK, DescriptorsOK, FilesOK, StoresOK, ServerOK, HistoryOK,
     IssuedFile
<1>. QED
  BY <1>1, StepHistory, StepServer, StepProcesses, StepDescriptors, StepStores

(* Every process is at a step, and only one that saves has a file open.    *)
THEOREM AuthTypeCorrect == AuthSpec => []AuthTypeOK
<1>1. TypeInv => AuthTypeOK
  BY DEF TypeInv
<1>. QED
  BY <1>1, InitTypes, StepTypes, PTL DEF AuthSpec

-----------------------------------------------------------------------------
(* The port.                                                               *)

(* Every way out of a login that waits closes its server: an error of the  *)
(* callback, the timer, the end of the process.                            *)
THEOREM Port == AuthSpec => []PortReleased
<1> DEFINE PortInv == TypeInv /\ PortReleased
<1>1. AuthInit => PortInv
  BY InitTypes, NobodyAssumption DEF AuthInit, PortReleased
<1>2. PortInv /\ [AuthNext]_authVars => PortInv'
  <2> SUFFICES ASSUME TypeInv, PortReleased, step \in [Callers -> Steps], [AuthNext]_authVars
               PROVE  PortReleased'
    BY StepTypes DEF TypeInv, AuthTypeOK
  <2> USE NobodyAssumption DEF PortReleased, Go
  <2>1. ASSUME NEW c \in Callers, Load(c) \/ Refresh(c) \/ RefreshRefused(c)
        PROVE  PortReleased'
    BY <2>1 DEF Load, Refresh, RefreshRefused
  <2>2. ASSUME NEW c \in Callers, Receive(c) \/ Lost(c) \/ RequestFails(c) PROVE PortReleased'
    BY <2>2 DEF Receive, Lost, RequestFails
  <2>3. ASSUME NEW c \in Callers, Saves(c) PROVE PortReleased'
    BY <2>3 DEF Saves, OpenTmp, WriteTmp, RenameTmp
  <2>4. ASSUME NEW c \in Callers, Listen(c) PROVE PortReleased'
    BY <2>4 DEF Listen
  <2>5. ASSUME NEW c \in Callers, Callback(c) \/ CallbackError(c) \/ Timeout(c)
        PROVE  PortReleased'
    BY <2>5 DEF Callback, CallbackError, Timeout, CloseServer
  <2>6. ASSUME NEW c \in Callers, Exchange(c) PROVE PortReleased'
    BY <2>6 DEF Exchange
  <2>7. ASSUME NEW c \in Callers, Done(c) \/ Logout(c) PROVE PortReleased'
    BY <2>7 DEF Done, Logout
  <2>8. ASSUME NEW c \in Callers, Dies(c) PROVE PortReleased'
    BY <2>8 DEF Dies
  <2>9. ASSUME Expire \/ UNCHANGED authVars PROVE PortReleased'
    BY <2>9 DEF Expire, authVars
  <2>. QED
    BY <2>1, <2>2, <2>3, <2>4, <2>5, <2>6, <2>7, <2>8, <2>9 DEF AuthNext, Tokens, Logins
<1>. QED
  BY <1>1, <1>2, PTL DEF AuthSpec

-----------------------------------------------------------------------------
(* The store.                                                              *)

LEMMA StepSave == TypeInv /\ SaveInv /\ [AuthNext]_authVars => SaveInv'
<1> SUFFICES ASSUME TypeInv, SaveInv, [AuthNext]_authVars PROVE SaveInv'
  OBVIOUS
<1> USE DEF TypeInv, AuthTypeOK, FilesOK, Go, Hold, server, SaveInv, OneSaves, Saving
<1>1. ASSUME NEW c \in Callers, Load(c) \/ Refresh(c) \/ RefreshRefused(c) \/ Receive(c)
                                \/ Lost(c) \/ RequestFails(c)
      PROVE  SaveInv'
  BY <1>1 DEF Load, Refresh, RefreshRefused, Receive, Lost, RequestFails
<1>2. ASSUME NEW c \in Callers, OpenTmp(c) PROVE SaveInv'
  BY <1>2 DEF OpenTmp, TornFile
<1>3. ASSUME NEW c \in Callers, WriteTmp(c) PROVE SaveInv'
  BY <1>3 DEF WriteTmp, Written, CloseFile
<1>4. ASSUME NEW c \in Callers, RenameTmp(c) PROVE SaveInv'
  BY <1>4 DEF RenameTmp, Auth
<1>5. ASSUME NEW c \in Callers, Logins(c) PROVE SaveInv'
  BY <1>5 DEF Logins, Listen, Callback, CallbackError, Timeout, Exchange
<1>6. ASSUME NEW c \in Callers, Done(c) \/ Logout(c) PROVE SaveInv'
  BY <1>6 DEF Done, Logout, Absent
<1>7. ASSUME NEW c \in Callers, Dies(c) PROVE SaveInv'
  BY <1>7 DEF Dies, CloseFile
<1>8. ASSUME Expire \/ UNCHANGED authVars PROVE SaveInv'
  BY <1>8 DEF Expire, authVars
<1>. QED
  BY <1>1, <1>2, <1>3, <1>4, <1>5, <1>6, <1>7, <1>8 DEF AuthNext, Tokens, Saves

LEMMA SaveInvariant == AuthSpec => [](TypeInv /\ SaveInv)
<1>1. AuthInit => SaveInv
  BY DEF AuthInit, SaveInv, OneSaves, Saving, Absent
<1>. QED
  BY <1>1, InitTypes, StepTypes, StepSave, PTL DEF AuthSpec

(* Writing beside the store and renaming keeps it whole wherever a process *)
(* dies, as long as two do not save at the same time.                      *)
THEOREM Whole == AuthSpec => []StoreWhole
<1>1. SaveInv => StoreWhole
  BY DEF SaveInv, StoreWhole
<1>. QED
  BY <1>1, SaveInvariant, PTL

-----------------------------------------------------------------------------
(* The session.                                                            *)

LEMMA StepToken == TypeInv /\ SaveInv /\ TokenInv /\ [AuthNext]_authVars => TokenInv'
<1> SUFFICES ASSUME TypeInv, SaveInv, TokenInv, [AuthNext]_authVars PROVE TokenInv'
  OBVIOUS
<1> USE DEF TypeInv, AuthTypeOK, FilesOK, Go, Hold, server, TokenInv, Unsaved
<1>1. ASSUME NEW c \in Callers, Load(c) \/ RefreshRefused(c) \/ Receive(c) \/ RequestFails(c)
      PROVE  TokenInv'
  BY <1>1 DEF Load, RefreshRefused, Receive, RequestFails
<1>2. ASSUME NEW c \in Callers, Refresh(c) PROVE TokenInv'
  BY <1>2 DEF Refresh, Issue
<1>3. ASSUME NEW c \in Callers, Lost(c) PROVE TokenInv'
  BY <1>3 DEF Lost
<1>4. ASSUME NEW c \in Callers, OpenTmp(c) PROVE TokenInv'
  BY <1>4 DEF OpenTmp
<1>5. ASSUME NEW c \in Callers, WriteTmp(c) PROVE TokenInv'
  BY <1>5 DEF WriteTmp, SaveInv
<1>6. ASSUME NEW c \in Callers, RenameTmp(c) PROVE TokenInv'
  BY <1>6 DEF RenameTmp, SaveInv, Auth
<1>7. ASSUME NEW c \in Callers, Logins(c) PROVE TokenInv'
  BY <1>7 DEF Logins, Listen, Callback, CallbackError, Timeout, Exchange, Issue
<1>8. ASSUME NEW c \in Callers, Done(c) \/ Logout(c) PROVE TokenInv'
  BY <1>8 DEF Done, Logout, Absent
<1>9. ASSUME NEW c \in Callers, Dies(c) PROVE TokenInv'
  BY <1>9 DEF Dies
<1>10. ASSUME Expire \/ UNCHANGED authVars PROVE TokenInv'
  BY <1>10 DEF Expire, authVars
<1>. QED
  BY <1>1, <1>2, <1>3, <1>4, <1>5, <1>6, <1>7, <1>8, <1>9, <1>10 DEF AuthNext, Tokens, Saves

(* No refresh token is lost: when nothing is under way, what is stored can *)
(* be refreshed, if every refresh was saved before the next.               *)
THEOREM Session == AuthSpec => []SessionKept
<1>1. AuthInit => TokenInv
  BY DEF AuthInit, TokenInv, Unsaved, Absent
<1>2. TokenInv => SessionKept
  BY DEF TokenInv, SessionKept
<1>. QED
  BY <1>1, <1>2, InitTypes, StepTypes, SaveInvariant, StepToken, PTL DEF AuthSpec
=============================================================================
