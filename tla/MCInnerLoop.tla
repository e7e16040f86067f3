---------------------------- MODULE MCInnerLoop ----------------------------
(* The inner loop with three repairs and a file of each sort: one that may *)
(* be written, one in the write set that the gateway guards, one out of    *)
(* the write set, and links in the write set, one out of every workspace   *)
(* and one into a neighbour's; every gate open or one of them closed;      *)
(* routes of up to four providers of every kind, by bare ids, by           *)
(* references with a model, and overridden.  The token store that stands   *)
(* behind a remote provider is run beside: two processes over three token  *)
(* pairs.                                                                  *)
EXTENDS InnerLoop, CodexAuth, TLC

CONSTANTS code, policy, other, link, near, ws1, ws2, nowhere,
          scripted, fixture, manual, closed, deepseek, model, story1, story2

VARIABLE part  \* which of the two is run

MCPaths == {code, policy, other, link, near}
MCHome == [path \in MCPaths |->
             CASE path = link -> nowhere [] path = near -> ws2 [] OTHER -> ws1]
MCWriteSet == {code, policy, link, near}
MCProtected == {policy}

(* Proposals of one or two files, whose text touches what they declare, a  *)
(* file alone, or nothing; those that lack something are about one file.   *)
Fix == [kind |-> "patch_proposal", complete |-> TRUE, conforming |-> TRUE,
        declared |-> {code}, touched |-> {code}]
Odd == {[Fix EXCEPT !.complete = a, !.conforming = b] : a, b \in BOOLEAN}
Small == {{}} \cup {{code, p} : p \in MCPaths} \cup {{p} : p \in MCPaths}
MCOutputs ==
  Escalation \cup Odd \cup
  UNION {{[Fix EXCEPT !.declared = d, !.touched = t] :
            t \in {d, {}} \cup {{p} : p \in MCPaths}} : d \in Small}

Bare == [Fix EXCEPT !.complete = FALSE]

MCLocal == {scripted, fixture, manual, closed}
MCLive == {deepseek}
MCKind == (scripted :> "scripted") @@ (fixture :> "fixture") @@ (manual :> "manual")
            @@ (closed :> "llm_remote") @@ (deepseek :> "llm_remote")
MCModels == {Ref(deepseek, model)}

MCRequests == {[story |-> story1, fixture |-> f] : f \in {None, Fix, Bare}}
Case(match, output) == [match |-> match, output |-> output]
MCScripts ==
  {scripted :> <<Case([story |-> story2], Fix)>>,
   scripted :> <<Case([story |-> story1], Fix), Case(<<>>, Bare)>>,
   scripted :> <<Case([story |-> story2], Fix), Case(<<>>, Bare)>>}

Routing(override, primary, fallbacks) ==
  [override |-> override, primary |-> primary, fallbacks |-> fallbacks]

MCConfigs ==
  {Routing(None, Ref(deepseek, None),
           <<Ref(scripted, None), Ref(fixture, None), Ref(manual, None)>>),
   Routing(None, Ref(closed, None), <<Ref(manual, None), Ref(deepseek, None)>>),
   Routing(None, Ref(deepseek, model), <<Ref(scripted, None)>>),
   Routing(Ref(deepseek, None), Ref(scripted, None), <<>>)}

Open == [enabled |-> TRUE, killed |-> FALSE, optIn |-> TRUE, key |-> TRUE, ci |-> FALSE]
MCGates ==
  {Open, [Open EXCEPT !.enabled = FALSE], [Open EXCEPT !.killed = TRUE],
   [Open EXCEPT !.optIn = FALSE], [Open EXCEPT !.key = FALSE], [Open EXCEPT !.ci = TRUE]}

(* With a gate closed, what is asked and scripted is not varied.           *)
MCLoopInit ==
  /\ Init
  /\ gate # Open => request.fixture = Fix /\ Matches([story |-> story1], request)
                    /\ Len(script[scripted]) = 1

(* At rest, for the other part.                                            *)
LoopAtRest ==
  /\ Init
  /\ driver = "walking" /\ gate = Open
  /\ config = Routing(Ref(deepseek, None), Ref(scripted, None), <<>>)
  /\ request.fixture = None
  /\ script = (scripted :> <<Case([story |-> story2], Fix)>>)

MCInit ==
  /\ part \in {"loop", "auth"}
  /\ AuthInit
  /\ IF part = "loop" THEN MCLoopInit ELSE LoopAtRest

LoopNext == part = "loop" /\ Next /\ UNCHANGED <<authVars, part>>
AuthPart == part = "auth" /\ AuthNext /\ UNCHANGED <<vars, part>>
MCNext == LoopNext \/ AuthPart

MCSpec == MCInit /\ [][MCNext]_<<vars, authVars, part>> /\ WF_<<vars, authVars, part>>(LoopNext)
=============================================================================
