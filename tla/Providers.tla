----------------------------- MODULE Providers -----------------------------
(***************************************************************************)
(* The providers of the model gateway: which adapters a process registers  *)
(* when it boots, the checks its routing configuration gets, what the      *)
(* adapter of each kind may return, and how a call goes along its route    *)
(* until a provider answers with a valid output.                           *)
(* A reference is a provider with a model ("codex/gpt-5.5-codex") or a     *)
(* bare provider id, whose model is None; adapters are registered by bare  *)
(* ids.                                                                    *)
(***************************************************************************)
EXTENDS Naturals, Sequences

CONSTANTS
  Local,        \* providers registered with no network: scripted, fixture, manual,
                \* and remote ones made without their gate
  Live,         \* live providers a process brings up
  Kind,         \* of each provider: its ProviderKind
  Outputs,      \* what an agent, a fixture or a script may say
  Requests,     \* what a call asks: what cases match on, and a fixture
  Scripts,      \* the cases of the scripted providers
  Models,       \* the references providers.yaml has a model for
  Configs,      \* routing configurations: [override, primary, fallbacks]
  Gates,        \* what the policy and the environment may say
  None

ASSUME GatesAssumption ==
  Gates \subseteq [enabled : BOOLEAN, killed : BOOLEAN, optIn : BOOLEAN, key : BOOLEAN,
                  ci : BOOLEAN]
ASSUME ProvidersAssumption ==
  /\ Local # {} /\ Local \cap Live = {}
  /\ Kind \in [Local \cup Live -> {"scripted", "fixture", "manual", "llm_remote"}]
  /\ \A p \in Live : Kind[p] = "llm_remote"

VARIABLES
  gate,       \* real_api_calls and the environment as the process read them
  config,     \* the routing of the agent the call is for
  request,    \* the request, and what the file its fixture_id names holds
  script,     \* the cases of each scripted provider, in order
  registry,   \* ids with an adapter
  checked,    \* the boot-time checks the routing has passed
  route,      \* references of the call, or None before it starts
  at,         \* how many of them have been called
  failed,     \* history: references that threw or whose output was not valid
  answered    \* the reference whose output was taken, or None

providerVars == <<gate, config, request, script, registry, checked, route, at, failed, answered>>
given == <<gate, config, request, script>>

Ref(provider, model) == [provider |-> provider, model |-> model]

(* readRealApiGate and resolveE2EMode: every gate is open.                 *)
LiveMode == gate.enabled /\ ~gate.killed /\ gate.optIn /\ gate.key /\ ~gate.ci

(* resolveProviderIdsFromConfig.                                           *)
RouteOf(c) ==
  IF c.override # None THEN <<c.override>> ELSE <<c.primary>> \o c.fallbacks

(* What the routing checks look at, an override or not.                    *)
Refs(c) ==
  {c.primary} \cup {c.fallbacks[i] : i \in DOMAIN c.fallbacks}
    \cup (IF c.override = None THEN {} ELSE {c.override})

(* validateModelRegistry: the references of the agent name a known model,  *)
(* each once.  Overrides are not looked at.                                *)
ValidModelRegistry(c) ==
  LET refs == <<c.primary>> \o c.fallbacks
  IN  /\ \A i \in DOMAIN refs : refs[i] \in Models
      /\ \A i, j \in DOMAIN refs : i # j => refs[i] # refs[j]

(* validateRoutingRegistered over collectRoutedProviderIds.                *)
RoutingRegistered(c) == \A ref \in Refs(c) : ref.provider \in registry

(* ProviderRegistry.get: an id that is not a bare one is nobody's.         *)
Registered(ref) == ref.model = None /\ ref.provider \in registry

(* A routing names its references; None stands for none of them, and for   *)
(* no output.                                                              *)
ASSUME ConfigsAssumption ==
  \A c \in Configs :
    /\ c.fallbacks \in Seq(Refs(c))
    /\ None \notin Refs(c) /\ RouteOf(c) # None
ASSUME OutputsAreAssumption ==
  /\ None \notin Outputs
  /\ \A asked \in Requests : asked.fixture \in Outputs \cup {None}
  /\ \A cases \in Scripts : \A p \in Local \cup Live : Kind[p] = "scripted" =>
       \A i \in DOMAIN cases[p] : cases[p][i].output \in Outputs

ProvidersInit ==
  /\ gate \in Gates
  /\ config \in Configs
  /\ request \in Requests /\ script \in Scripts
  /\ registry = {}
  /\ checked = {}
  /\ route = None /\ at = 0
  /\ failed = {} /\ answered = None

RegisterLocal ==
  /\ registry = {}
  /\ registry' = Local
  /\ UNCHANGED <<given, checked, route, at, failed, answered>>

(* bootstrapLiveProviders.  A handle that is no api key makes it throw and *)
(* nothing in the program catches that: such a process makes no call.      *)
Bootstrap ==
  /\ registry # {} /\ route = None
  /\ LiveMode
  /\ registry' = registry \cup Live
  /\ UNCHANGED <<given, checked, route, at, failed, answered>>

(* The boot-time checks: when one fails the process stops there.           *)
CheckModels ==
  /\ route = None /\ "models" \notin checked
  /\ ValidModelRegistry(config)
  /\ checked' = checked \cup {"models"}
  /\ UNCHANGED <<given, registry, route, at, failed, answered>>

CheckRouting ==
  /\ registry # {} /\ route = None /\ "adapters" \notin checked
  /\ RoutingRegistered(config)
  /\ checked' = checked \cup {"adapters"}
  /\ UNCHANGED <<given, registry, route, at, failed, answered>>

(* resolveRoute: throws when a reference has no adapter, and no provider   *)
(* is called.                                                              *)
Resolvable(refs) == \A i \in DOMAIN refs : Registered(refs[i])

StartCall ==
  /\ registry # {} /\ route = None
  /\ Resolvable(RouteOf(config))
  /\ route' = RouteOf(config)
  /\ UNCHANGED <<given, registry, checked, at, failed, answered>>

Calling == route # None /\ answered = None /\ at < Len(route)

(* shallowProposalErrors and validateEscalation: no output is taken that   *)
(* is not complete.                                                        *)
ValidResponse(o) ==
  o.complete /\ (o.kind = "patch_proposal" => o.declared # {})

Thrown == [kind |-> "thrown", complete |-> FALSE]
BuiltEscalation == [kind |-> "escalation", complete |-> TRUE]

(* matchesCase: what a case does not name it matches.                      *)
Matches(match, asked) == \A field \in DOMAIN match : match[field] = asked[field]

(* The first case that matches, or a blocked_report, which is valid.       *)
CaseReturns(cases, asked) ==
  LET hits == {i \in DOMAIN cases : Matches(cases[i].match, asked)}
  IN  IF hits = {} THEN {BuiltEscalation}
      ELSE {cases[i].output : i \in {h \in hits : \A j \in hits : h <= j}}

ScriptedReturns(p) == CaseReturns(script[p], request)

(* It throws without a fixture_id, on one that leads out of the root, and  *)
(* when the file is not there or does not parse.                           *)
FixtureReturns == {IF request.fixture = None THEN Thrown ELSE request.fixture}

(* A clarification or scope request, which is valid as well.               *)
ManualReturns == {BuiltEscalation}

(* createDisabledRemoteProvider throws; an adapter with its gate throws    *)
(* when the token cannot be had, the request fails, the status is not ok,  *)
(* or the content is missing or no JSON.                                   *)
RemoteReturns(p) == {Thrown} \cup (IF p \in Live THEN Outputs ELSE {})

Returns(p) ==
  CASE Kind[p] = "scripted" -> ScriptedReturns(p)
    [] Kind[p] = "fixture" -> FixtureReturns
    [] Kind[p] = "manual" -> ManualReturns
    [] Kind[p] = "llm_remote" -> RemoteReturns(p)

Answers == Returns(route[at + 1].provider)

(* Mutant of ProviderFails: one reference of the route is passed over.     *)
ProviderFailsSkipping ==
  /\ Calling /\ \E o \in Answers : ~ValidResponse(o)
  /\ at' = at + (IF at + 2 < Len(route) THEN 2 ELSE 1)
  /\ failed' = failed \cup {route[at + 1]}
  /\ UNCHANGED <<given, registry, checked, route, answered>>

(* callProvider: it throws, or answers with what is not valid; the next    *)
(* reference of the route is tried.                                        *)
ProviderFails ==
  /\ Calling /\ \E o \in Answers : ~ValidResponse(o)
  /\ at' = at + 1
  /\ failed' = failed \cup {route[at + 1]}
  /\ UNCHANGED <<given, registry, checked, route, answered>>

ProviderAnswers(o) ==
  /\ Calling /\ o \in Answers /\ ValidResponse(o)
  /\ at' = at + 1
  /\ answered' = route[at + 1]
  /\ UNCHANGED <<given, registry, checked, route, failed>>

Exhausted == route # None /\ answered = None /\ at = Len(route)

-----------------------------------------------------------------------------
(* Properties.                                                             *)

Called == failed \cup (IF answered = None THEN {} ELSE {answered})

(* Type invariant.                                                         *)
ProvidersTypeOK ==
  /\ gate \in Gates /\ config \in Configs /\ request \in Requests /\ script \in Scripts
  /\ registry \subseteq Local \cup Live
  /\ checked \subseteq {"adapters", "models"}
  /\ route = None \/ route = RouteOf(config)
  /\ at \in 0..(IF route = None THEN 0 ELSE Len(route))
  /\ failed \subseteq Refs(config) /\ (answered = None \/ answered \in Refs(config))

(* The adapters that have an answer for everything, be it that they have   *)
(* none: what follows them in a route is never called.                     *)
Placeholders ==
  {p \in Local : \/ Kind[p] = "manual"
                 \/ Kind[p] = "scripted" /\ \A o \in ScriptedReturns(p) : ValidResponse(o)}

(* The answer is the one of the first reference, in the order of the       *)
(* configuration or of its override, that had a valid one: all before it   *)
(* were called and failed, and none after it was called (callFirstValid).  *)
(* No live provider is called unless every gate was open, whatever the     *)
(* route says (readRealApiGate, bootstrapLiveProviders), and what is       *)
(* called is called up to the first placeholder of the route and not       *)
(* behind it, although that did no work.                                   *)
FirstValidAnswers ==
  LET refs == RouteOf(config)
  IN  /\ answered # None =>
           \E i \in DOMAIN refs :
             answered = refs[i] /\ failed = {refs[j] : j \in 1..(i - 1)}
      /\ \A ref \in Called : ref.provider \in Live => LiveMode
      /\ \A i \in DOMAIN refs :
           refs[i].provider \in Placeholders => Called \subseteq {refs[j] : j \in 1..i}

(* A routing that has passed the boot-time check can be called: "fails     *)
(* CLOSED with a clear escalation, instead of crashing at call time"       *)
(* (model-gateway, routing safety).                                        *)
CheckedRouteResolves == "adapters" \in checked => Resolvable(RouteOf(config))
=============================================================================
