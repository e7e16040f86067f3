---------------------------- MODULE LimitProofs ----------------------------
(***************************************************************************)
(* What limits are worth: how far a budget can be overrun and that the     *)
(* kill switch is final, for every number of workers and callers and every *)
(* budget; what the thresholds of a skill's gate let through; that the     *)
(* bank of failures counts what it has room for, so that a failure which   *)
(* recurs is escalated at its threshold; that no compaction of a context   *)
(* window brings back into a summary what is kept out of it; and what a    *)
(* packet holds, in which order, and never loses to a budget.              *)
(***************************************************************************)
EXTENDS RunBudget, SkillGate, DebugLoop, ContextPackets, InductionLemmas, SequenceTheorems,
        FiniteSetTheorems, TLAPS

(* The kill switch is final because no live guard is left behind it.       *)
KillInv == _killed => workers \subseteq killed

-----------------------------------------------------------------------------
LEMMA ShareType == CallBudget \in Nat /\ TokenBudget \in Nat
  BY BudgetAssumption DEF CallBudget, TokenBudget, Share

LEMMA StepTypeOK == TypeOK /\ [Next]_vars => TypeOK'
<1> SUFFICES ASSUME TypeOK, [Next]_vars PROVE TypeOK'
  OBVIOUS
<1>1. ASSUME NEW w \in Workers, RegisterWorker(w) PROVE TypeOK'
  BY <1>1 DEF TypeOK, RegisterWorker, KilledWith
<1>2. ASSUME NEW w \in Workers, Kill(w) PROVE TypeOK'
  BY <1>2 DEF TypeOK, Kill
<1>3. ASSUME NEW c \in Callers, StartCall(c) PROVE TypeOK'
  BY <1>3, WorkersAssumption DEF TypeOK, StartCall, KilledWith
<1>4. ASSUME NEW c \in Callers, RefuseCall(c) PROVE TypeOK'
  BY <1>4, WorkersAssumption DEF TypeOK, RefuseCall, KilledWith
<1>5. ASSUME NEW c \in Callers, NEW usage \in Usages, AnswerValid(c, usage) PROVE TypeOK'
  BY <1>5, WorkersAssumption, BudgetAssumption DEF TypeOK, AnswerValid, Settle
<1>6. ASSUME NEW c \in Callers, AnswerFailed(c) PROVE TypeOK'
  BY <1>6, WorkersAssumption DEF TypeOK, AnswerFailed, Settle
<1>7. ASSUME KillAll PROVE TypeOK'
  BY <1>7 DEF TypeOK, KillAll
<1>8. ASSUME UNCHANGED vars PROVE TypeOK'
  BY <1>8 DEF TypeOK, vars
<1>. QED
  BY <1>1, <1>2, <1>3, <1>4, <1>5, <1>6, <1>7, <1>8 DEF Next

(* The fields of the pool and its guards keep their types.                 *)
THEOREM TypeCorrect == Spec => []TypeOK
<1>1. Init => TypeOK
  <2> SUFFICES ASSUME Init PROVE TypeOK
    OBVIOUS
  <2>1. [w \in Workers |-> 0] \in [Workers -> Nat]
    OBVIOUS
  <2>2. calls \in [Workers -> Nat] /\ tokens \in [Workers -> Nat] /\ made \in [Workers -> Nat]
    BY <2>1 DEF Init
  <2>. QED
    BY <2>2 DEF Init, TypeOK
<1>. QED
  BY <1>1, StepTypeOK, PTL DEF Spec

-----------------------------------------------------------------------------
(* Calls in flight.                                                        *)

LEMMA CallersFinite ==
  ASSUME NEW w \in Workers
  PROVE  /\ IsFiniteSet(CallersOf(w))
         /\ Cardinality(CallersOf(w)) \in Nat
<1>1. CallersOf(w) \subseteq Callers
  BY DEF CallersOf
<1>. QED
  BY <1>1, WorkersAssumption, FS_Subset, FS_CardinalityType

LEMMA InFlightFinite ==
  ASSUME NEW w \in Workers, NEW A \in SUBSET Callers
  PROVE  /\ IsFiniteSet(A \cap CallersOf(w))
         /\ Cardinality(A \cap CallersOf(w)) \in Nat
         /\ Cardinality(A \cap CallersOf(w)) <= Cardinality(CallersOf(w))
  BY CallersFinite, FS_Subset, FS_CardinalityType

(* A settled call is one less in flight for its worker, and none less for  *)
(* the others.                                                             *)
LEMMA SettleInFlight ==
  ASSUME TypeOK, NEW c \in Callers, Settle(c), NEW w \in Workers
  PROVE  Cardinality(InFlight(w))' =
           Cardinality(InFlight(w)) - (IF w = WorkerOf[c] THEN 1 ELSE 0)
<1>1. CASE w = WorkerOf[c]
  <2>1. c \in InFlight(w) /\ InFlight(w)' = InFlight(w) \ {c}
    BY <1>1 DEF Settle, InFlight, CallersOf, TypeOK
  <2>2. IsFiniteSet(InFlight(w))
    BY InFlightFinite DEF InFlight, TypeOK
  <2>. QED
    BY <1>1, <2>1, <2>2, FS_RemoveElement
<1>2. CASE w # WorkerOf[c]
  <2>1. InFlight(w)' = InFlight(w)
    BY <1>2 DEF Settle, InFlight, CallersOf
  <2>2. Cardinality(InFlight(w)) \in Nat
    BY InFlightFinite DEF InFlight, TypeOK
  <2>. QED
    BY <1>2, <2>1, <2>2
<1>. QED
  BY <1>1, <1>2

LEMMA StepCallOverrun == TypeOK /\ CallOverrunBounded /\ [Next]_vars => CallOverrunBounded'
<1> SUFFICES ASSUME TypeOK, CallOverrunBounded, [Next]_vars, NEW w \in Workers
             PROVE  LET spent == calls[w] + Cardinality(InFlight(w))
                    IN  (spent = 0 \/ spent < CallBudget + Cardinality(CallersOf(w)))'
  BY DEF CallOverrunBounded
<1> DEFINE inFlight == Cardinality(InFlight(w))
           all == Cardinality(CallersOf(w))
           Bounded == calls[w] + inFlight = 0 \/ calls[w] + inFlight < CallBudget + all
<1>1. calls[w] \in Nat /\ inFlight \in Nat /\ all \in Nat /\ CallBudget \in Nat /\ Bounded
  BY InFlightFinite, CallersFinite, ShareType DEF TypeOK, InFlight, CallOverrunBounded
<1>2. ASSUME calls' = calls, awaiting' = awaiting PROVE Bounded'
  BY <1>1, <1>2 DEF InFlight
<1>3. ASSUME NEW c \in Callers, StartCall(c) PROVE Bounded'
  <2>1. CASE w = WorkerOf[c]
    <3>1. calls[w] < CallBudget /\ calls' = calls
      BY <1>3, <2>1 DEF StartCall, Allowed
    <3>2. awaiting' \in SUBSET Callers
      BY <1>3 DEF StartCall, TypeOK
    <3>3. inFlight' \in Nat /\ inFlight' <= all
      BY <3>2, InFlightFinite DEF InFlight
    <3>. QED
      BY <1>1, <3>1, <3>3
  <2>2. CASE w # WorkerOf[c]
    <3>1. InFlight(w)' = InFlight(w) /\ calls' = calls
      BY <1>3, <2>2 DEF StartCall, InFlight, CallersOf
    <3>. QED
      BY <1>1, <3>1
  <2>. QED
    BY <2>1, <2>2
<1>4. ASSUME NEW c \in Callers, NEW usage \in Usages, AnswerValid(c, usage) PROVE Bounded'
  <2>1. inFlight' = inFlight - (IF w = WorkerOf[c] THEN 1 ELSE 0)
    BY <1>4, SettleInFlight DEF AnswerValid
  <2>2. calls'[w] = calls[w] + (IF w = WorkerOf[c] THEN 1 ELSE 0)
    BY <1>1, <1>4 DEF AnswerValid, TypeOK
  <2>. QED
    BY <1>1, <2>1, <2>2
<1>5. ASSUME NEW c \in Callers, AnswerFailed(c) PROVE Bounded'
  <2>1. inFlight' = inFlight - (IF w = WorkerOf[c] THEN 1 ELSE 0)
    BY <1>5, SettleInFlight DEF AnswerFailed
  <2>2. inFlight' \in Nat
    <3>1. awaiting' \in SUBSET Callers
      BY <1>5 DEF AnswerFailed, Settle, TypeOK
    <3>. QED
      BY <3>1, InFlightFinite DEF InFlight
  <2>3. calls' = calls
    BY <1>5 DEF AnswerFailed
  <2>. QED
    BY <1>1, <2>1, <2>2, <2>3
<1>6. Bounded'
  BY <1>2, <1>3, <1>4, <1>5 DEF Next, RegisterWorker, Kill, RefuseCall, KillAll, vars
<1>. QED
  BY <1>6

(* A worker's calls, those in flight included, pass its share by fewer     *)
(* than its callers, whatever interleaving of checks and charges.          *)
THEOREM CallOverrun == Spec => []CallOverrunBounded
<1>1. Init => CallOverrunBounded
  <2> SUFFICES ASSUME Init, NEW w \in Workers
               PROVE  calls[w] + Cardinality(InFlight(w)) = 0
    BY DEF CallOverrunBounded
  <2>1. calls[w] = 0 /\ InFlight(w) = {}
    BY DEF Init, InFlight
  <2>. QED
    BY <2>1, FS_EmptySet
<1>. QED
  BY <1>1, StepCallOverrun, TypeCorrect, PTL DEF Spec

LEMMA Products ==
  ASSUME NEW m \in Nat, NEW a \in Nat, NEW b \in Nat, a <= b
  PROVE  m * a \in Nat /\ m * b \in Nat /\ m * a <= m * b /\ m * (a - 1) = m * a - m
<1>1. PICK d \in Nat : b = a + d
  <2>1. b - a \in Nat /\ b = a + (b - a)
    OBVIOUS
  <2>. QED
    BY <2>1
<1>2. m * a \in Nat /\ m * d \in Nat /\ m * b = m * a + m * d
  BY <1>1
<1>. QED
  BY <1>2

LEMMA StepTokenOverrun == TypeOK /\ TokenOverrunBounded /\ [Next]_vars => TokenOverrunBounded'
<1> SUFFICES ASSUME TypeOK, TokenOverrunBounded, [Next]_vars, NEW w \in Workers,
                    NEW most \in Usages, \A usage \in Usages : usage <= most
             PROVE  LET spent == tokens[w] + most * Cardinality(InFlight(w))
                    IN  (spent = 0 \/ spent < TokenBudget + most * Cardinality(CallersOf(w)))'
  BY DEF TokenOverrunBounded
<1> DEFINE inFlight == Cardinality(InFlight(w))
           all == Cardinality(CallersOf(w))
           spent == tokens[w] + most * inFlight
           Bounded == spent = 0 \/ spent < TokenBudget + most * all
<1>1. /\ tokens[w] \in Nat /\ inFlight \in Nat /\ all \in Nat /\ TokenBudget \in Nat
      /\ most \in Nat
  BY InFlightFinite, CallersFinite, ShareType, BudgetAssumption DEF TypeOK, InFlight
<1>2. Bounded
  BY DEF TokenOverrunBounded
<1>3. inFlight' \in Nat /\ inFlight' <= all
  <2>1. awaiting' \in SUBSET Callers
    BY StepTypeOK DEF TypeOK
  <2>. QED
    BY <2>1, InFlightFinite DEF InFlight
<1>4. ASSUME tokens' = tokens, awaiting' = awaiting PROVE Bounded'
  BY <1>2, <1>4 DEF InFlight
<1>5. ASSUME NEW c \in Callers, StartCall(c) PROVE Bounded'
  <2>1. CASE w = WorkerOf[c]
    <3>1. tokens[w] < TokenBudget /\ tokens' = tokens
      BY <1>5, <2>1 DEF StartCall, Allowed
    <3>2. most * inFlight' \in Nat /\ most * all \in Nat /\ most * inFlight' <= most * all
      BY <1>1, <1>3, Products
    <3>. QED
      BY <1>1, <3>1, <3>2
  <2>2. CASE w # WorkerOf[c]
    <3>1. InFlight(w)' = InFlight(w) /\ tokens' = tokens
      BY <1>5, <2>2 DEF StartCall, InFlight, CallersOf
    <3>. QED
      BY <1>2, <3>1
  <2>. QED
    BY <2>1, <2>2
<1>6. ASSUME NEW c \in Callers, Settle(c), NEW usage \in Usages,
             tokens'[w] = tokens[w] + (IF w = WorkerOf[c] THEN usage ELSE 0) \/ tokens' = tokens
      PROVE  Bounded'
  <2>1. inFlight' = inFlight - (IF w = WorkerOf[c] THEN 1 ELSE 0)
    BY <1>6, SettleInFlight
  <2>2. usage \in Nat /\ usage <= most
    BY BudgetAssumption
  <2>3. /\ most * inFlight \in Nat /\ most * inFlight' \in Nat /\ most * all \in Nat
        /\ most * (inFlight - 1) = most * inFlight - most
    BY <1>1, <1>3, Products
  <2>4. most * inFlight' = most * inFlight - (IF w = WorkerOf[c] THEN most ELSE 0)
    BY <1>1, <2>1, <2>3
  <2>5. tokens'[w] \in Nat /\ tokens'[w] <= tokens[w] + (IF w = WorkerOf[c] THEN most ELSE 0)
    BY <1>1, <1>6, <2>2
  <2>6. spent' <= spent /\ spent' \in Nat /\ spent \in Nat
    BY <1>1, <2>3, <2>4, <2>5
  <2>. QED
    BY <1>1, <1>2, <2>3, <2>6
<1>7. ASSUME NEW c \in Callers, NEW usage \in Usages, AnswerValid(c, usage) PROVE Bounded'
  <2>1. tokens'[w] = tokens[w] + (IF w = WorkerOf[c] THEN usage ELSE 0)
    BY <1>1, <1>7, BudgetAssumption DEF AnswerValid, TypeOK
  <2>. QED
    BY <1>6, <1>7, <2>1 DEF AnswerValid
<1>8. ASSUME NEW c \in Callers, AnswerFailed(c) PROVE Bounded'
  BY <1>6, <1>8 DEF AnswerFailed
<1>9. Bounded'
  BY <1>4, <1>5, <1>7, <1>8 DEF Next, RegisterWorker, Kill, RefuseCall, KillAll, vars
<1>. QED
  BY <1>9

(* A worker's tokens pass its share by less than what its callers' last    *)
(* admitted calls can cost.                                                *)
THEOREM TokenOverrun == Spec => []TokenOverrunBounded
<1>1. Init => TokenOverrunBounded
  <2> SUFFICES ASSUME Init, NEW w \in Workers, NEW most \in Usages
               PROVE  tokens[w] + most * Cardinality(InFlight(w)) = 0
    BY DEF TokenOverrunBounded
  <2>1. tokens[w] = 0 /\ InFlight(w) = {} /\ most \in Nat
    BY BudgetAssumption DEF Init, InFlight
  <2>2. Cardinality(InFlight(w)) = 0
    BY <2>1, FS_EmptySet
  <2>. QED
    BY <2>1, <2>2
<1>. QED
  BY <1>1, StepTokenOverrun, TypeCorrect, PTL DEF Spec

(* Both bounds, as the run checks them.                                    *)
THEOREM Overrun == Spec => []OverrunBounded
<1>1. CallOverrunBounded /\ TokenOverrunBounded => OverrunBounded
  BY DEF OverrunBounded
<1>. QED
  BY <1>1, CallOverrun, TokenOverrun, PTL

-----------------------------------------------------------------------------
(* The kill switch.                                                        *)

LEMMA StepKill == KillInv /\ [Next]_vars => KillInv'
<1> SUFFICES ASSUME KillInv, [Next]_vars PROVE KillInv'
  OBVIOUS
<1>1. ASSUME NEW w \in Workers, RegisterWorker(w) PROVE KillInv'
  BY <1>1 DEF KillInv, RegisterWorker, KilledWith
<1>2. ASSUME NEW w \in Workers, Kill(w) PROVE KillInv'
  BY <1>2 DEF KillInv, Kill
<1>3. ASSUME NEW c \in Callers, StartCall(c) PROVE KillInv'
  BY <1>3 DEF KillInv, StartCall, KilledWith
<1>4. ASSUME NEW c \in Callers, RefuseCall(c) PROVE KillInv'
  BY <1>4 DEF KillInv, RefuseCall, KilledWith
<1>5. ASSUME NEW c \in Callers, Settle(c) PROVE KillInv'
  BY <1>5 DEF KillInv, Settle
<1>6. ASSUME KillAll PROVE KillInv'
  BY <1>6 DEF KillInv, KillAll
<1>7. ASSUME UNCHANGED vars PROVE KillInv'
  BY <1>7 DEF KillInv, vars
<1>. QED
  BY <1>1, <1>2, <1>3, <1>4, <1>5, <1>6, <1>7 DEF Next, AnswerValid, AnswerFailed

(* Once the pool or its own guard is killed, no caller of a worker gets a  *)
(* call through, also of a worker that registers afterwards.               *)
THEOREM KillSwitch == Spec => NoCallAfterKill
<1>1. ASSUME KillInv, [Next]_vars, NEW c \in Callers, _killed \/ WorkerOf[c] \in killed,
             c \in awaiting'
      PROVE  c \in awaiting
  <2>1. ASSUME NEW d \in Callers, StartCall(d) PROVE d # c
    BY <1>1, <2>1 DEF StartCall, Allowed, KilledWith, KillInv
  <2>2. ASSUME NEW d \in Callers, Settle(d) PROVE awaiting' \subseteq awaiting
    BY <2>2 DEF Settle
  <2>. QED
    BY <1>1, <2>1, <2>2 DEF Next, StartCall, RegisterWorker, Kill, RefuseCall, AnswerValid,
       AnswerFailed, KillAll, vars
<1>2. Init => KillInv
  BY DEF Init, KillInv
<1>3. KillInv /\ [Next]_vars =>
        [\A c \in Callers :
           _killed \/ WorkerOf[c] \in killed => (c \in awaiting' => c \in awaiting)]_vars
  BY <1>1
<1>. QED
  BY <1>2, <1>3, StepKill, PTL DEF Spec, NoCallAfterKill

-----------------------------------------------------------------------------
(* The gate of a skill: a verdict is earned, whatever the thresholds.      *)

(* A clean run passes, and the answer the decision looks at is that of the *)
(* first run.                                                              *)
RunsTell == unfailing <= passing /\ passing <= fresh

ResultTells ==
  IF skill.listed THEN first \in Runs /\ result = RunTests(first)
                  ELSE first = NotRun /\ result = NoTests

Reasons == {"leakage detected", "no tests", "test failures", "low robustness"}

GateTypes ==
  /\ skill \in Skills /\ executor \in {"default", "counting"}
  /\ stage \in {"idle", "robustness", "judged", "thrown"}
  /\ passing \in Nat /\ fresh \in Nat /\ unfailing \in Nat
  /\ memory \in Seq(Reasons)

GateInv ==
  /\ GateTypes
  /\ stage = "robustness" => RunsTell /\ ResultTells
  /\ VerdictEarned

LEMMA DisjointCardinality ==
  ASSUME NEW S, NEW T, IsFiniteSet(S), IsFiniteSet(T), S \cap T = {}
  PROVE  Cardinality(S \cup T) = Cardinality(S) + Cardinality(T)
<1>1. Cardinality(S \cup T) = Cardinality(S) + Cardinality(T) - Cardinality(S \cap T)
  BY FS_Union
<1>2. Cardinality(S \cap T) = 0
  BY FS_EmptySet
<1>3. Cardinality(S) \in Nat /\ Cardinality(T) \in Nat
  BY FS_CardinalityType
<1> QED
  BY <1>1, <1>2, <1>3

(* Cases are finitely many.                                               *)
LEMMA CasesFinite ==
  ASSUME skill \in Skills
  PROVE  IsFiniteSet(Cases) /\ \A F \in SUBSET Cases : IsFiniteSet(F)
<1>1. skill.nature \in UNION {[C -> Natures] : C \in SUBSET Tests}
  BY DEF Skills
<1>2. Cases \subseteq Tests
  BY <1>1 DEF Cases
<1> QED
  BY <1>2, SkillGateAssumption, FS_Subset

(* What a run answers.                                                     *)
LEMMA RunTells ==
  ASSUME skill \in Skills, executor \in {"default", "counting"}, NEW run \in Runs
  PROVE  LET r == RunTests(run) IN
         /\ r.passed \in Nat /\ r.total \in Nat /\ r.passed <= r.total
         /\ r.passed # 0 => run.ran /\ r.passed = Cardinality(Cases \ run.failed)
         /\ executor = "counting" =>
              /\ run.failed \in Failures /\ r.total = Cardinality(Cases)
              /\ r.passed = Cardinality(Cases \ run.failed)
         /\ Flawless(run) => r.passed = r.total /\ r.total # 0
<1> DEFINE F == run.failed
<1>1. \/ run.ran /\ F \in Failures
      \/ executor = "default" /\ ~run.ran /\ F = {}
  BY DEF Runs, NotRun
<1>2. F \in SUBSET Cases
  BY <1>1 DEF Failures
<1>3. IsFiniteSet(Cases \ F) /\ IsFiniteSet(Cases)
  BY CasesFinite
<1>4. /\ Cardinality(Cases \ F) \in Nat /\ Cardinality(Cases) \in Nat
      /\ Cardinality(Cases \ F) <= Cardinality(Cases)
      /\ Cases # {} => Cardinality(Cases) # 0
  BY <1>3, FS_CardinalityType, FS_Subset, FS_EmptySet
<1>5. F = {} => Cases \ F = Cases
  OBVIOUS
<1>6. CASE executor = "counting"
  <2>1. RunTests(run) = Answer(Cardinality(Cases \ F), Cardinality(Cases))
    BY <1>6 DEF RunTests
  <2> QED
    BY <1>1, <1>2, <1>4, <1>5, <1>6, <2>1 DEF Answer, Flawless
<1>7. CASE executor = "default" /\ ~run.ran
  <2>1. RunTests(run) = Answer(0, 1)
    BY <1>7 DEF RunTests
  <2> QED
    BY <1>7, <2>1 DEF Answer, Flawless
<1>8. CASE executor = "default" /\ run.ran
  <2>1. RunTests(run) = IF F = {} /\ Cases # {}
                        THEN Answer(Cardinality(Cases \ F), Cardinality(Cases))
                        ELSE Answer(Cardinality(Cases \ F),
                                    IF Cardinality(Cases \ F) > 1 THEN Cardinality(Cases \ F) ELSE 1)
    BY <1>8 DEF RunTests
  <2> QED
    BY <1>1, <1>2, <1>4, <1>5, <1>8, <2>1 DEF Answer, Flawless
<1> QED
  BY <1>6, <1>7, <1>8

LEMMA GateRun ==
  ASSUME GateInv, NEW run \in Runs, RobustnessRun(run)
  PROVE  RunsTell'
<1>1. Flawless(run) => Passed(RunTests(run))
  BY RunTells DEF GateInv, GateTypes, Passed
<1>2. RunsTell /\ unfailing \in Nat /\ passing \in Nat /\ fresh \in Nat
  BY DEF GateInv, GateTypes, RobustnessRun
<1>3. /\ fresh' = fresh + 1
      /\ passing' = passing + (IF Passed(RunTests(run)) THEN 1 ELSE 0)
      /\ unfailing' = unfailing + (IF Flawless(run) THEN 1 ELSE 0)
  BY DEF RobustnessRun
<1> QED
  BY <1>1, <1>2, <1>3 DEF RunsTell

(* What is registered has earned it.                                       *)
LEMMA GateRegisters ==
  ASSUME GateTypes, RunsTell, ResultTells, fresh = RobustnessRuns,
         Registered(result, passing, LeakageAudit) = "registered"
  PROVE  /\ skill.listed /\ ~skill.leaks
         /\ RegisterPassRate > 0 => first.ran /\ Cases \ first.failed # {}
         /\ passing * 100 >= QuarantineBelow * RobustnessRuns
         /\ executor = "counting" =>
              LET bad == first.failed \cup {c \in Cases : skill.nature[c] = "broken"}
              IN  Cardinality(bad) * 100 <= (100 - RegisterPassRate) * Cardinality(Cases)
<1> DEFINE failed == first.failed
<1>1. /\ ~skill.leaks /\ result.total # 0
      /\ ~Below(result.passed, result.total, RegisterPassRate)
      /\ ~Below(passing, RobustnessRuns, QuarantineBelow)
  BY DEF Registered, DecideStatus, LeakageAudit
<1>2. skill.listed /\ first \in Runs /\ result = RunTests(first)
  BY <1>1 DEF ResultTells, NoTests, Answer
<1>3. /\ result.passed \in Nat /\ result.total \in Nat
      /\ result.passed # 0 => first.ran /\ result.passed = Cardinality(Cases \ failed)
      /\ executor = "counting" =>
           /\ failed \in Failures /\ result.total = Cardinality(Cases)
           /\ result.passed = Cardinality(Cases \ failed)
  BY <1>2, RunTells DEF GateTypes
<1>4. result.passed * 100 >= RegisterPassRate * result.total
  BY <1>1, <1>3, SkillGateAssumption DEF Below
<1>5. ASSUME RegisterPassRate > 0 PROVE first.ran /\ Cases \ failed # {}
  <2>1. result.passed # 0
    BY <1>1, <1>3, <1>4, <1>5, SkillGateAssumption
  <2> QED
    BY <1>3, <2>1, FS_EmptySet
<1>6. passing * 100 >= QuarantineBelow * RobustnessRuns
  BY <1>1, SkillGateAssumption DEF Below, GateTypes
<1>7. ASSUME executor = "counting"
      PROVE  LET bad == failed \cup {c \in Cases : skill.nature[c] = "broken"}
             IN  Cardinality(bad) * 100 <= (100 - RegisterPassRate) * Cardinality(Cases)
  <2>1. failed \in SUBSET Cases /\ failed \cup {c \in Cases : skill.nature[c] = "broken"} = failed
    BY <1>3, <1>7 DEF Failures
  <2>2. IsFiniteSet(Cases) /\ IsFiniteSet(failed) /\ IsFiniteSet(Cases \ failed)
    BY <2>1, CasesFinite DEF GateTypes
  <2>3. Cardinality(Cases) = Cardinality(failed) + Cardinality(Cases \ failed)
    <3>1. Cardinality(Cases) = Cardinality(failed \cup (Cases \ failed))
      BY <2>1
    <3>2. failed \cap (Cases \ failed) = {}
      OBVIOUS
    <3> QED
      BY <2>2, <3>1, <3>2, DisjointCardinality
  <2> DEFINE lost == Cardinality(failed)
             kept == Cardinality(Cases \ failed)
  <2>4. lost \in Nat /\ kept \in Nat /\ RegisterPassRate \in Nat
    BY <2>2, FS_CardinalityType, SkillGateAssumption
  <2>5. kept * 100 >= RegisterPassRate * (lost + kept)
    BY <1>3, <1>4, <1>7, <2>3
  <2> HIDE DEF lost, kept
  <2>6. lost * 100 <= (100 - RegisterPassRate) * (lost + kept)
    BY <2>4, <2>5
  <2> QED
    BY <2>1, <2>3, <2>6 DEF lost, kept
<1> QED
  BY <1>1, <1>2, <1>5, <1>6, <1>7

(* Too few fresh runs that passed are too few that were flawless.          *)
LEMMA FewClean ==
  ASSUME GateTypes, RunsTell, Below(passing, RobustnessRuns, QuarantineBelow)
  PROVE  Below(unfailing, RobustnessRuns, QuarantineBelow)
BY SkillGateAssumption DEF GateTypes, RunsTell, Below

(* What is quarantined is for the reason it is told.                       *)
LEMMA GateQuarantines ==
  ASSUME GateTypes, RunsTell, ResultTells, fresh = RobustnessRuns,
         Registered(result, passing, LeakageAudit) = "quarantined"
  PROVE  \/ Reason(result, LeakageAudit) = "leakage detected" /\ skill.leaks
         \/ Reason(result, LeakageAudit) = "test failures" /\ ~Flawless(first)
         \/ /\ Reason(result, LeakageAudit) = "low robustness"
            /\ Below(unfailing, RobustnessRuns, QuarantineBelow)
<1>1. CASE skill.leaks
  BY <1>1 DEF Reason, LeakageAudit
<1>2. CASE ~skill.leaks
  <2>1. result.total # 0 /\ Below(passing, RobustnessRuns, QuarantineBelow)
    BY <1>2 DEF Registered, DecideStatus, LeakageAudit, GateTypes
  <2>2. skill.listed /\ first \in Runs /\ result = RunTests(first)
    BY <2>1 DEF ResultTells, NoTests, Answer
  <2>3. /\ result.passed \in Nat /\ result.total \in Nat
        /\ Flawless(first) => result.passed = result.total
    BY <2>2, RunTells DEF GateTypes
  <2>4. CASE result.passed < result.total
    <3>1. Reason(result, LeakageAudit) = "test failures"
      BY <1>2, <2>1, <2>4 DEF Reason, LeakageAudit
    <3>2. ~Flawless(first)
      BY <2>3, <2>4 DEF Flawless
    <3> QED
      BY <3>1, <3>2
  <2>5. CASE ~(result.passed < result.total)
    <3>1. Reason(result, LeakageAudit) = "low robustness"
      BY <1>2, <2>1, <2>5 DEF Reason, LeakageAudit
    <3> QED
      BY <2>1, <3>1, FewClean
  <2> QED
    BY <2>4, <2>5
<1> QED
  BY <1>1, <1>2

(* What is flawless is registered.                                         *)
LEMMA GateAdmits ==
  ASSUME GateTypes, RunsTell, ResultTells,
         skill.listed, ~skill.leaks, Flawless(first), ~Below(unfailing, RobustnessRuns, QuarantineBelow)
  PROVE  Registered(result, passing, LeakageAudit) = "registered"
<1>1. ~Below(passing, RobustnessRuns, QuarantineBelow)
  BY FewClean
<1>2. /\ result.passed \in Nat /\ result.total \in Nat
      /\ result.passed = result.total /\ result.total # 0
  <2>1. first \in Runs /\ result = RunTests(first)
    BY DEF ResultTells
  <2> QED
    BY <2>1, RunTells DEF GateTypes
<1>3. ~Below(result.passed, result.total, RegisterPassRate)
  BY <1>2, SkillGateAssumption DEF Below
<1> QED
  BY <1>1, <1>2, <1>3 DEF Registered, DecideStatus, LeakageAudit

LEMMA GateJudges == GateInv /\ Judge => VerdictEarned'
<1> SUFFICES ASSUME GateInv, Judge PROVE VerdictEarned'
  OBVIOUS
<1>0. GateTypes /\ RunsTell /\ ResultTells /\ fresh = RobustnessRuns
  BY DEF GateInv, Judge
<1>1. /\ skill' = skill /\ executor' = executor /\ result' = result
      /\ passing' = passing /\ first' = first /\ unfailing' = unfailing
      /\ Cases' = Cases /\ (Flawless(first))' = Flawless(first)
      /\ status' = Registered(result, passing, LeakageAudit)
  BY DEF Judge, Cases, Flawless
<1>2. CASE status' = "registered"
  BY <1>0, <1>1, <1>2, GateRegisters DEF VerdictEarned
<1>3. skill.listed /\ ~skill.leaks /\ Flawless(first)
        /\ ~Below(unfailing, RobustnessRuns, QuarantineBelow) => status' = "registered"
  BY <1>0, <1>1, GateAdmits
<1>4. CASE status' = "quarantined"
  <2>1. memory' = Append(memory, Reason(result, LeakageAudit))
    BY <1>4 DEF Judge
  <2>2. Reason(result, LeakageAudit) \in Reasons
    BY DEF Reason, Reasons
  <2>3. memory' # <<>> /\ memory'[Len(memory')] = Reason(result, LeakageAudit)
    BY <1>0, <2>1, <2>2 DEF GateTypes
  <2>4. skill.listed \/ skill.leaks
    BY <1>0, <1>1, <1>4 DEF Registered, DecideStatus, ResultTells, NoTests, Answer, LeakageAudit
  <2> DEFINE reason == memory'[Len(memory')]
  <2>5. \/ reason = "leakage detected" /\ skill.leaks
        \/ reason = "test failures" /\ ~Flawless(first)
        \/ reason = "low robustness" /\ Below(unfailing, RobustnessRuns, QuarantineBelow)
    BY <1>0, <1>1, <1>4, <2>3, GateQuarantines
  <2>6. (CASE reason = "leakage detected" -> skill'.leaks
           [] reason = "test failures" -> ~(Flawless(first))'
           [] reason = "low robustness" -> Below(unfailing', RobustnessRuns, QuarantineBelow)
           [] OTHER -> FALSE)
    <3> HIDE DEF reason
    <3> QED
      BY <1>1, <2>5
  <2> QED
    BY <1>1, <1>3, <1>4, <2>3, <2>4, <2>6 DEF VerdictEarned, Below
<1>5. CASE status' = "draft"
  BY <1>1, <1>3, <1>5 DEF VerdictEarned, Below
<1> QED
  BY <1>1, <1>2, <1>4, <1>5 DEF Registered, DecideStatus

LEMMA GateTyped == GateTypes /\ [GateNext]_gateVars => GateTypes'
<1> SUFFICES ASSUME GateTypes, [GateNext]_gateVars PROVE GateTypes'
  OBVIOUS
<1> USE DEF GateTypes
<1>1. ASSUME NEW run \in Runs, RunSkillTests(run) \/ RobustnessRun(run) PROVE GateTypes'
  BY <1>1 DEF RunSkillTests, RobustnessRun
<1>2. CASE Judge
  <2>1. Reason(result, LeakageAudit) \in Reasons
    BY DEF Reason, Reasons
  <2> QED
    BY <1>2, <2>1 DEF Judge
<1>3. CASE Refine \/ ExecutorThrows \/ UNCHANGED gateVars
  BY <1>3 DEF Refine, ExecutorThrows, gateVars
<1> QED
  BY <1>1, <1>2, <1>3 DEF GateNext

LEMMA GateStep == GateInv /\ [GateNext]_gateVars => GateInv'
<1> SUFFICES ASSUME GateInv, [GateNext]_gateVars
             PROVE  /\ stage' = "robustness" => RunsTell' /\ ResultTells'
                    /\ VerdictEarned'
  BY GateTyped DEF GateInv
<1>1. ASSUME NEW run \in Runs, RunSkillTests(run)
      PROVE  RunsTell' /\ ResultTells' /\ VerdictEarned'
  <2>1. RunsTell' /\ VerdictEarned'
    BY <1>1 DEF RunSkillTests, RunsTell, VerdictEarned
  <2>2. ResultTells'
    BY <1>1 DEF RunSkillTests, ResultTells, RunTests, Runs, NotRun, Failures, Cases
  <2> QED
    BY <2>1, <2>2
<1>2. ASSUME NEW run \in Runs, RobustnessRun(run)
      PROVE  RunsTell' /\ ResultTells' /\ VerdictEarned'
  <2>1. ResultTells'
    BY <1>2 DEF RobustnessRun, GateInv, ResultTells, RunTests, Runs, NotRun, Failures, Cases
  <2>2. VerdictEarned'
    BY <1>2 DEF RobustnessRun, VerdictEarned
  <2> QED
    BY <1>2, <2>1, <2>2, GateRun
<1>3. CASE Judge
  BY <1>3, GateJudges DEF Judge
<1>4. CASE Refine \/ ExecutorThrows
  BY <1>4 DEF Refine, ExecutorThrows, VerdictEarned
<1>5. CASE UNCHANGED gateVars
  BY <1>5 DEF gateVars, GateInv, RunsTell, ResultTells, VerdictEarned, RunTests, Runs, NotRun,
     Flawless, Failures, Cases
<1> QED
  BY <1>1, <1>2, <1>3, <1>4, <1>5 DEF GateNext

(* A verdict on a skill is earned, for any tests, thresholds and number of *)
(* fresh runs.                                                             *)
THEOREM Earned == GateSpec => []VerdictEarned
<1>1. GateInit => GateInv
  BY DEF GateInit, GateInv, GateTypes, VerdictEarned
<1>2. GateInv => VerdictEarned
  BY DEF GateInv
<1> QED
  BY <1>1, <1>2, GateStep, PTL DEF GateSpec

-----------------------------------------------------------------------------
(* The failure bank.  What it counts is the size of a set of occurrences,  *)
(* so that neither the order of its genes nor the way they were merged     *)
(* matters to it.                                                          *)

LEMMA GenesOf ==
  ASSUME NEW b \in Seq(Gene)
  PROVE  /\ Len(b) \in Nat /\ DOMAIN b = 1..Len(b) /\ b \in [1..Len(b) -> Gene]
         /\ \A i \in DOMAIN b : b[i] \in Gene /\ b[i].count \in Nat /\ b[i].count # 0
<1>1. Len(b) \in Nat /\ DOMAIN b = 1..Len(b) /\ b \in [1..Len(b) -> Gene]
  BY LenProperties
<1>2. \A i \in DOMAIN b : b[i] \in Gene
  BY <1>1
<1> QED
  BY <1>1, <1>2 DEF Gene

(* The least of some places of a bank.                                     *)
LEMMA FirstIs ==
  ASSUME NEW S \in SUBSET Nat, S # {}
  PROVE  First(S) \in S /\ \A j \in S : First(S) <= j
<1> DEFINE less == {ss \in Nat \X Nat : ss[1] < ss[2]}
<1>1. IsWellFoundedOn(less, Nat)
  BY NatLessThanWellFounded DEF OpToRel
<1> HIDE DEF less
<1>2. PICK x \in S : \A y \in S : ~(<<y, x>> \in less)
  BY <1>1, WFMin
<1>3. \A y \in S : x <= y
  <2>1. ASSUME NEW y \in S PROVE x <= y
    <3>1. y \in Nat /\ x \in Nat
      OBVIOUS
    <3>2. <<y, x>> \in less <=> y < x
      BY <3>1 DEF less
    <3> QED
      BY <1>2, <3>1, <3>2
  <2> QED
    BY <2>1
<1> QED
  BY <1>2, <1>3 DEF First

(* The failures a gene at i counts beyond its first c, n of them.          *)
Beyond(i, c, n) == {i} \X ((c + 1)..(c + n))

LEMMA Strip ==
  ASSUME NEW i, NEW c \in Nat, NEW n \in Nat
  PROVE  IsFiniteSet(Beyond(i, c, n)) /\ Cardinality(Beyond(i, c, n)) = n
<1> DEFINE T == (c + 1)..(c + n)
<1>1. IsFiniteSet(T) /\ Cardinality(T) = n
  BY FS_Interval
<1>2. IsFiniteSet({i}) /\ Cardinality({i}) = 1
  BY FS_Singleton
<1> HIDE DEF T
<1>3. IsFiniteSet({i} \X T) /\ Cardinality({i} \X T) = Cardinality({i}) * Cardinality(T)
  BY <1>1, <1>2, FS_Product
<1> QED
  BY <1>1, <1>2, <1>3 DEF T, Beyond

(* A finite set that grows by one counts n more.                           *)
LEMMA Grows ==
  ASSUME NEW A, IsFiniteSet(A), NEW i, NEW c \in Nat, NEW n \in Nat,
         A \cap Beyond(i, c, n) = {}
  PROVE  /\ IsFiniteSet(A \cup Beyond(i, c, n))
         /\ Cardinality(A \cup Beyond(i, c, n)) = Cardinality(A) + n
<1> DEFINE B == Beyond(i, c, n)
<1>1. IsFiniteSet(B) /\ Cardinality(B) = n
  BY Strip
<1>2. Cardinality(A) \in Nat /\ Cardinality(A \cap B) = 0
  BY FS_CardinalityType, FS_EmptySet
<1> HIDE DEF B
<1>3. /\ IsFiniteSet(A \cup B)
      /\ Cardinality(A \cup B) = Cardinality(A) + Cardinality(B) - Cardinality(A \cap B)
  BY <1>1, FS_Union
<1> QED
  BY <1>1, <1>2, <1>3 DEF B

(* A bank counts finitely many failures.                                   *)
LEMMA OccurrencesFinite ==
  ASSUME NEW b \in Seq(Gene), NEW S \in SUBSET DOMAIN b
  PROVE  IsFiniteSet(Occurrences(b, S))
<1>1. DOMAIN b = 1..Len(b) /\ Len(b) \in Nat /\ \A i \in S : b[i].count \in Nat
  BY GenesOf
<1>2. IsFiniteSet(S)
  <2>1. IsFiniteSet(1..Len(b))
    BY <1>1, FS_Interval
  <2> QED
    BY <1>1, <2>1, FS_Subset
<1> DEFINE T == {{i} \X (1..b[i].count) : i \in S}
           f == [i \in S |-> {i} \X (1..b[i].count)]
<1>3. f \in Surjection(S, T)
  BY DEF Surjection
<1>4. IsFiniteSet(T)
  <2> HIDE DEF T, f
  <2> QED
    BY <1>2, <1>3, FS_Surjection
<1>5. \A t \in T : IsFiniteSet(t)
  <2> SUFFICES ASSUME NEW i \in S PROVE IsFiniteSet({i} \X (1..b[i].count))
    OBVIOUS
  <2>1. b[i].count \in Nat /\ 0 \in Nat
    BY <1>1
  <2>2. IsFiniteSet(Beyond(i, 0, b[i].count))
    BY <2>1, Strip
  <2>3. (0 + 1)..(0 + b[i].count) = 1..b[i].count
    BY <2>1
  <2> QED
    BY <2>2, <2>3 DEF Beyond
<1> QED
  BY <1>4, <1>5, FS_UNION DEF Occurrences

(* One failure more, of a gene that is there or of a new one.              *)
LEMMA CountedMore ==
  ASSUME NEW b \in Seq(Gene), NEW i \in Active(b), NEW n \in Nat
  PROVE  LET d == [b EXCEPT ![i].count = @ + n] IN
         d \in Seq(Gene) /\ Active(d) = Active(b) /\ Counted(d) = Counted(b) + n
<1> DEFINE d == [b EXCEPT ![i].count = @ + n]
           c == b[i].count
<1>1. /\ i \in DOMAIN b /\ b[i] \in Gene /\ c \in Nat /\ c # 0
      /\ DOMAIN b = 1..Len(b) /\ Len(b) \in Nat
  BY GenesOf DEF Active
<1>2. [b[i] EXCEPT !.count = @ + n] \in Gene
  BY SMTT(30), <1>1 DEF Gene
<1>3. d \in Seq(Gene)
  BY <1>1, <1>2, ExceptSeq
<1>4. /\ DOMAIN d = DOMAIN b /\ d[i].count = c + n /\ d[i].status = b[i].status
      /\ \A j \in DOMAIN b : j # i => d[j] = b[j]
  BY <1>1 DEF Gene
<1>5. Active(d) = Active(b)
  BY <1>4 DEF Active
<1> HIDE DEF d
<1>6. Occurrences(d, Active(d)) = Occurrences(b, Active(b)) \cup Beyond(i, c, n)
  <2>1. ASSUME NEW j \in Active(b), j # i
        PROVE  {j} \X (1..d[j].count) = {j} \X (1..b[j].count)
    BY <1>4, <2>1 DEF Active
  <2>2. 1..d[i].count = (1..c) \cup ((c + 1)..(c + n))
    BY <1>1, <1>4
  <2> QED
    BY <1>5, <2>1, <2>2 DEF Occurrences, Beyond
<1>7. Occurrences(b, Active(b)) \cap Beyond(i, c, n) = {}
  BY <1>1 DEF Occurrences, Beyond
<1>8. IsFiniteSet(Occurrences(b, Active(b)))
  BY OccurrencesFinite DEF Active
<1>9. Counted(d) = Counted(b) + n
  <2>1. Cardinality(Occurrences(b, Active(b)) \cup Beyond(i, c, n))
          = Cardinality(Occurrences(b, Active(b))) + n
    BY <1>1, <1>7, <1>8, Grows
  <2> QED
    BY <1>6, <2>1 DEF Counted
<1> QED
  BY <1>3, <1>5, <1>9 DEF d

LEMMA CountedAppend ==
  ASSUME NEW b \in Seq(Gene), NEW g \in Gene, g.status = "active"
  PROVE  LET d == Append(b, g) IN
         /\ d \in Seq(Gene) /\ Active(d) = Active(b) \cup {Len(b) + 1}
         /\ Counted(d) = Counted(b) + g.count
<1> DEFINE d == Append(b, g)
           m == Len(b) + 1
<1>1. /\ d \in Seq(Gene) /\ DOMAIN b = 1..Len(b) /\ DOMAIN d = 1..m /\ d[m] = g
      /\ \A j \in DOMAIN b : d[j] = b[j] /\ Len(b) \in Nat /\ g.count \in Nat
  BY DEF Gene
<1>2. Len(b) \in Nat /\ g.count \in Nat
  BY DEF Gene
<1> HIDE DEF d
<1>3. 1..m = (1..Len(b)) \cup {m} /\ m \notin 1..Len(b)
  BY <1>2
<1>4. Active(d) = Active(b) \cup {m}
  BY <1>1, <1>3 DEF Active
<1>5. m \notin Active(b) /\ \A j \in Active(b) : d[j] = b[j]
  BY <1>1, <1>3 DEF Active
<1>6. Occurrences(d, Active(d)) = Occurrences(b, Active(b)) \cup Beyond(m, 0, g.count)
  <2>1. Occurrences(d, Active(d)) = Occurrences(b, Active(b)) \cup ({m} \X (1..g.count))
    BY <1>1, <1>4, <1>5 DEF Occurrences
  <2> QED
    BY <1>2, <2>1 DEF Beyond
<1>7. Occurrences(b, Active(b)) \cap Beyond(m, 0, g.count) = {}
  BY <1>5 DEF Occurrences, Beyond
<1>8. IsFiniteSet(Occurrences(b, Active(b)))
  BY OccurrencesFinite DEF Active
<1>9. Counted(d) = Counted(b) + g.count
  <2>1. 0 \in Nat /\ g.count \in Nat
    BY <1>2
  <2>2. Cardinality(Occurrences(b, Active(b)) \cup Beyond(m, 0, g.count))
          = Cardinality(Occurrences(b, Active(b))) + g.count
    BY <1>7, <1>8, <2>1, Grows
  <2> QED
    BY <1>6, <2>2 DEF Counted
<1> QED
  BY <1>1, <1>4, <1>9 DEF d

LEMMA ActiveIn ==
  ASSUME NEW b \in Seq(Gene), NEW s
  PROVE  Active(b) \subseteq Nat /\ Hits(b, s) \subseteq Nat /\ Active(b) \subseteq DOMAIN b
BY GenesOf DEF Active, Hits

(* A failure is counted, unless it is dropped; and when one with a signal  *)
(* is not dropped, none with it is after that.                             *)
LEMMA BankCounts ==
  ASSUME NEW b \in Seq(Gene), NEW id \in Nat, NEW s \in Signals
  PROVE  LET d == Bank(b, id, s) IN
         /\ d \in Seq(Gene)
         /\ Dropped(b, s) => d = b
         /\ ~Dropped(b, s) => Counted(d) = Counted(b) + 1 /\ ~Dropped(d, s)
<1> DEFINE d == Bank(b, id, s)
           S == Hits(b, s) \cap Active(b)
           i == First(S)
<1>1. CASE S # {}
  <2>1. i \in S /\ i \in Active(b)
    BY <1>1, ActiveIn, FirstIs
  <2>2. d = [b EXCEPT ![i].count = @ + 1]
    BY <1>1 DEF Bank
  <2>3. d \in Seq(Gene) /\ Active(d) = Active(b) /\ Counted(d) = Counted(b) + 1
    <3> HIDE DEF i, d
    <3>1. i \in Active(b) /\ 1 \in Nat
      BY <2>1
    <3>2. LET e == [b EXCEPT ![i].count = @ + 1] IN
          e \in Seq(Gene) /\ Active(e) = Active(b) /\ Counted(e) = Counted(b) + 1
      BY Zenon, <3>1, CountedMore
    <3> QED
      BY <2>2, <3>2
  <2>4. i \in Hits(d, s)
    <3>1. i \in DOMAIN b /\ b[i] \in Gene /\ Shares(b[i].signal, s)
      BY <2>1, GenesOf DEF Hits
    <3>2. i \in DOMAIN d /\ d[i].signal = b[i].signal
      BY <2>2, <3>1 DEF Gene
    <3> QED
      BY <3>1, <3>2 DEF Hits
  <2> QED
    BY <1>1, <2>1, <2>3, <2>4 DEF Dropped
<1>2. CASE S = {} /\ Full(b)
  BY <1>2 DEF Bank, Dropped
<1>3. CASE S = {} /\ ~Full(b)
  <2> DEFINE g == Built(id, s)
  <2>1. d = Append(b, g)
    BY <1>3 DEF Bank
  <2>2. g \in Gene /\ g.status = "active" /\ g.count = 1 /\ g.signal = s
    BY DEF Built, Gene, Statuses, Severities
  <2> HIDE DEF g
  <2>3. /\ d \in Seq(Gene) /\ Active(d) = Active(b) \cup {Len(b) + 1}
        /\ Counted(d) = Counted(b) + 1
    BY <2>1, <2>2, CountedAppend
  <2>4. Len(b) + 1 \in Hits(d, s)
    <3>1. Len(b) + 1 \in DOMAIN d /\ d[Len(b) + 1] = g
      BY <2>1, GenesOf
    <3> QED
      BY <2>2, <3>1, SignalsAssumption DEF Hits, Shares, NoSignal
  <2> QED
    BY <1>3, <2>3, <2>4 DEF Dropped
<1> QED
  BY <1>1, <1>2, <1>3

(* A bank knows of n failures of a signature: one gene counts them, the    *)
(* first of the active ones that the next such failure is merged into.     *)
Known(b, s, n) == n > 0 => \E i \in Active(b) : Knows(b, i, s) /\ b[i].count >= n

(* Bank d knows of what b knows, and of n failures of s more.              *)
KnowsMore(b, d, s, n) ==
  \A t \in Signatures, k \in Nat : Known(b, t, k) => Known(d, t, k + (IF t = s THEN n ELSE 0))

(* A gene that counts more is where it was, for every signature.           *)
Grown(b, d, i, n) ==
  /\ Active(d) = Active(b) /\ DOMAIN d = DOMAIN b /\ d[i].count = b[i].count + n
  /\ \A j \in DOMAIN b :
       d[j].signal = b[j].signal /\ d[j].count >= b[j].count /\ d[j].count \in Nat
  /\ \A t : Hits(d, t) = Hits(b, t) /\ \A j : Knows(d, j, t) <=> Knows(b, j, t)

LEMMA GeneGrows ==
  ASSUME NEW b \in Seq(Gene), NEW i \in Active(b), NEW n \in Nat
  PROVE  Grown(b, [b EXCEPT ![i].count = @ + n], i, n)
<1> DEFINE d == [b EXCEPT ![i].count = @ + n]
<1>1. i \in DOMAIN b /\ \A j \in DOMAIN b : b[j] \in Gene /\ b[j].count \in Nat
  BY GenesOf DEF Active
<1>2. /\ DOMAIN d = DOMAIN b /\ d[i].count = b[i].count + n /\ d[i].status = b[i].status
      /\ d[i].signal = b[i].signal
      /\ \A j \in DOMAIN b : j # i => d[j] = b[j]
  BY <1>1 DEF Gene
<1> HIDE DEF d
<1>3. \A j \in DOMAIN b : /\ d[j].signal = b[j].signal /\ d[j].count >= b[j].count
                          /\ d[j].count \in Nat
  BY <1>1, <1>2
<1>4. Active(d) = Active(b)
  BY <1>2 DEF Active
<1>5. ASSUME NEW t PROVE Hits(d, t) = Hits(b, t) /\ \A j : Knows(d, j, t) <=> Knows(b, j, t)
  <2>1. Hits(d, t) = Hits(b, t)
    BY <1>2, <1>3 DEF Hits
  <2> QED
    BY <1>4, <2>1 DEF Knows
<1> QED
  BY <1>2, <1>3, <1>4, <1>5 DEF Grown, d

(* A failure that is banked is one the bank knows of.                      *)
LEMMA BankKnows ==
  ASSUME NEW b \in Seq(Gene), NEW id \in Nat, NEW s \in Signals
  PROVE  KnowsMore(b, Bank(b, id, s), s, IF Dropped(b, s) THEN 0 ELSE 1)
<1> DEFINE d == Bank(b, id, s)
           S == Hits(b, s) \cap Active(b)
           i == First(S)
<1>0. SUFFICES ASSUME NEW t \in Signatures, NEW k \in Nat, Known(b, t, k)
               PROVE  Known(d, t, k + (IF t = s THEN IF Dropped(b, s) THEN 0 ELSE 1 ELSE 0))
  BY DEF KnowsMore
<1>1. CASE S # {}
  <2>1. i \in S /\ i \in Active(b) /\ Knows(b, i, s) /\ ~Dropped(b, s)
    BY <1>1, ActiveIn, FirstIs DEF Knows, Dropped
  <2>2. d = [b EXCEPT ![i].count = @ + 1]
    BY <1>1 DEF Bank
  <2> HIDE DEF d, i, S
  <2>3. Grown(b, d, i, 1)
    BY <2>1, <2>2, 1 \in Nat, GeneGrows
  <2>4. \A j \in Active(b) : /\ j \in DOMAIN b /\ b[j].count \in Nat
                            /\ d[j].count >= b[j].count /\ d[j].count \in Nat
    BY <2>3, GenesOf, ActiveIn DEF Grown
  <2>5. b[i].count \in Nat /\ b[i].count # 0 /\ d[i].count = b[i].count + 1
    BY <2>1, <2>3, GenesOf, ActiveIn DEF Grown
  <2>6. CASE t = s
    <3>1. k > 0 => b[i].count >= k
      <4> SUFFICES ASSUME k > 0 PROVE b[i].count >= k
        OBVIOUS
      <4>1. PICK j \in Active(b) : Knows(b, j, s) /\ b[j].count >= k
        BY <1>0, <2>6 DEF Known
      <4>2. i = j
        BY <2>1, <4>1, ActiveIn DEF Knows
      <4> QED
        BY <4>1, <4>2
    <3>2. d[i].count >= k + 1
      BY <2>5, <3>1
    <3> QED
      BY <2>1, <2>3, <2>6, <3>2 DEF Known, Grown
  <2>7. CASE t # s
    <3>1. SUFFICES ASSUME k > 0 PROVE \E j \in Active(d) : Knows(d, j, t) /\ d[j].count >= k
      BY <2>7 DEF Known
    <3>2. PICK j \in Active(b) : Knows(b, j, t) /\ b[j].count >= k
      BY <1>0, <3>1 DEF Known
    <3>3. d[j].count >= k
      BY <2>4, <3>2
    <3> QED
      BY <2>3, <3>2, <3>3 DEF Grown
  <2> QED
    BY <2>6, <2>7
<1>2. CASE S = {} /\ Full(b)
  BY <1>0, <1>2 DEF Bank, Dropped
<1>3. CASE S = {} /\ ~Full(b)
  <2> DEFINE g == Built(id, s)
             m == Len(b) + 1
  <2>1. d = Append(b, g) /\ ~Dropped(b, s)
    BY <1>3 DEF Bank, Dropped
  <2>2. g \in Gene /\ g.status = "active" /\ g.count = 1 /\ g.signal = s
    BY DEF Built, Gene, Statuses, Severities
  <2> HIDE DEF g
  <2>3. Active(d) = Active(b) \cup {m}
    BY <2>1, <2>2, CountedAppend
  <2>4. /\ Len(b) \in Nat /\ DOMAIN b = 1..Len(b) /\ DOMAIN d = 1..m /\ d[m] = g
        /\ \A j \in DOMAIN b : d[j] = b[j]
    BY <2>1, GenesOf
  <2> HIDE DEF d, S
  <2>5. CASE t = s
    <3>1. k = 0
      BY <1>0, <1>3, <2>5 DEF Known, Knows, S
    <3>2. Hits(d, s) \cap Active(d) = {m}
      <4>1. Shares(d[m].signal, s)
        BY <2>2, <2>4, SignalsAssumption DEF Shares, NoSignal
      <4>2. \A j \in Active(b) : ~Shares(d[j].signal, s) /\ j \in DOMAIN d
        BY <1>3, <2>4, ActiveIn DEF Hits, S
      <4> QED
        BY <2>3, <2>4, <4>1, <4>2 DEF Hits
    <3>3. Knows(d, m, s) /\ m \in Active(d)
      BY <2>3, <2>4, <3>2 DEF Knows
    <3> QED
      BY <2>1, <2>2, <2>4, <2>5, <3>1, <3>3 DEF Known
  <2>6. CASE t # s
    <3>1. SUFFICES ASSUME k > 0 PROVE \E j \in Active(d) : Knows(d, j, t) /\ d[j].count >= k
      BY <2>6 DEF Known
    <3>2. PICK j \in Active(b) : Knows(b, j, t) /\ b[j].count >= k
      BY <1>0, <3>1 DEF Known
    <3>3. j \in Active(d) /\ j \in DOMAIN b /\ d[j] = b[j]
      BY <2>3, <2>4, <3>2, ActiveIn
    <3>4. Hits(d, t) \cap Active(d) \subseteq (Hits(b, t) \cap Active(b)) \cup {m}
      <4>1. \A l \in Active(b) : l \in DOMAIN b /\ d[l] = b[l]
        BY <2>4, ActiveIn
      <4> QED
        BY <2>3, <4>1 DEF Hits
    <3>5. j \in Hits(d, t)
      BY <2>4, <3>2, <3>3 DEF Knows, Hits
    <3>6. j <= m
      BY <2>4, <3>3
    <3>7. Knows(d, j, t)
      BY <3>2, <3>3, <3>4, <3>5, <3>6 DEF Knows
    <3> QED
      BY <3>2, <3>3, <3>7
  <2> QED
    BY <2>5, <2>6
<1> QED
  BY <1>1, <1>2, <1>3

(* So are those of the losers of a race, which all have one signal.        *)
Banked(b, s, d, n) ==
  /\ d \in Seq(Gene)
  /\ Dropped(b, s) => d = b
  /\ ~Dropped(b, s) => Counted(d) = Counted(b) + n /\ ~Dropped(d, s)
  /\ KnowsMore(b, d, s, IF Dropped(b, s) THEN 0 ELSE n)

LEMMA BankAllCounts ==
  ASSUME NEW b \in Seq(Gene), NEW id \in Nat, NEW s \in Signals, NEW n \in Nat
  PROVE  /\ BankAll(b, id, s, n) \in Seq(Gene)
         /\ Counted(BankAll(b, id, s, n)) = Counted(b) + (IF Dropped(b, s) THEN 0 ELSE n)
         /\ KnowsMore(b, BankAll(b, id, s, n), s, IF Dropped(b, s) THEN 0 ELSE n)
<1> DEFINE After(f) == f = [m \in 0..n |-> IF m = 0 THEN b ELSE Bank(f[m - 1], id, s)]
           after == CHOOSE f : After(f)
           step == [p \in (1..n) \X Seq(Gene) |-> Bank(p[2], id, s)]
<1>0. Counted(b) \in Nat
  BY OccurrencesFinite, ActiveIn, FS_CardinalityType DEF Counted
<1>1. \E f : After(f)
  <2>1. step \in [(1..n) \X Seq(Gene) -> Seq(Gene)]
    BY BankCounts
  <2>2. \A m \in 1..n, d \in Seq(Gene) : step[<<m, d>>] = Bank(d, id, s)
    OBVIOUS
  <2> HIDE DEF step
  <2>3. Recursive(Seq(Gene), b, n, step)
    BY <2>1, Recursion
  <2>4. PICK f \in [0..n -> Seq(Gene)] :
          f[0] = b /\ \A m \in 1..n : f[m] = step[<<m, f[m - 1]>>]
    BY <2>3 DEF Recursive
  <2>5. ASSUME NEW m \in 0..n PROVE f[m] = IF m = 0 THEN b ELSE Bank(f[m - 1], id, s)
    <3>1. CASE m = 0
      BY <2>4, <3>1
    <3>2. CASE m # 0
      <4>1. m \in 1..n /\ m - 1 \in 0..n
        BY <3>2
      <4>2. f[m - 1] \in Seq(Gene)
        BY <4>1
      <4> QED
        BY <2>2, <2>4, <3>2, <4>1, <4>2
    <3> QED
      BY <3>1, <3>2
  <2>6. After(f)
    BY <2>5
  <2> QED
    BY <2>6
<1> HIDE DEF After
<1>2. After(after)
  BY <1>1
<1>3. BankAll(b, id, s, n) = after[n]
  BY DEF BankAll, After
<1> HIDE DEF after
<1>4. /\ after[0] = b
      /\ \A m \in Nat : m + 1 <= n => after[m + 1] = Bank(after[m], id, s)
  <2>1. after = [m \in 0..n |-> IF m = 0 THEN b ELSE Bank(after[m - 1], id, s)]
    BY <1>2 DEF After
  <2>2. ASSUME NEW m \in Nat, m + 1 <= n PROVE after[m + 1] = Bank(after[m], id, s)
    <3>1. m + 1 \in 0..n /\ m + 1 # 0 /\ (m + 1) - 1 = m
      BY <2>2
    <3> QED
      BY <2>1, <3>1
  <2>3. after[0] = b
    BY <2>1
  <2> QED
    BY <2>2, <2>3
<1> DEFINE P == {m \in Nat : m <= n => Banked(b, s, after[m], m)}
<1>5. 0 \in P
  BY <1>0, <1>4 DEF Banked, KnowsMore
<1>6. ASSUME NEW m \in Nat, m \in P PROVE m + 1 \in P
  <2> SUFFICES ASSUME m + 1 <= n PROVE Banked(b, s, after[m + 1], m + 1)
    OBVIOUS
  <2>1. Banked(b, s, after[m], m) /\ after[m + 1] = Bank(after[m], id, s)
    BY <1>4, <1>6
  <2> DEFINE c == after[m]
             d == Bank(c, id, s)
  <2>2. c \in Seq(Gene)
    BY <2>1 DEF Banked
  <2>3. /\ d \in Seq(Gene)
        /\ Dropped(c, s) => d = c
        /\ ~Dropped(c, s) => Counted(d) = Counted(c) + 1 /\ ~Dropped(d, s)
    BY <2>2, BankCounts
  <2>4. KnowsMore(c, d, s, IF Dropped(c, s) THEN 0 ELSE 1)
    BY <2>2, BankKnows
  <2> HIDE DEF d, c
  <2>5. Banked(b, s, c, m)
    BY <2>1 DEF c
  <2>6. KnowsMore(b, d, s, IF Dropped(b, s) THEN 0 ELSE m + 1)
    <3> SUFFICES ASSUME NEW u \in Signatures, NEW k \in Nat, Known(b, u, k)
                 PROVE  Known(d, u, k + (IF u = s THEN IF Dropped(b, s) THEN 0 ELSE m + 1 ELSE 0))
      BY DEF KnowsMore
    <3> DEFINE l == k + (IF u = s THEN IF Dropped(b, s) THEN 0 ELSE m ELSE 0)
    <3>1. Known(c, u, l) /\ l \in Nat
      BY <2>5 DEF Banked, KnowsMore
    <3>2. Dropped(b, s) <=> Dropped(c, s)
      BY <2>5 DEF Banked
    <3> HIDE DEF l
    <3>3. Known(d, u, l + (IF u = s THEN IF Dropped(c, s) THEN 0 ELSE 1 ELSE 0))
      BY <2>4, <3>1 DEF KnowsMore
    <3>4. l + (IF u = s THEN IF Dropped(c, s) THEN 0 ELSE 1 ELSE 0)
            = k + (IF u = s THEN IF Dropped(b, s) THEN 0 ELSE m + 1 ELSE 0)
      BY <3>2 DEF l
    <3> QED
      BY <3>3, <3>4
  <2>7. Banked(b, s, d, m + 1)
    BY <1>0, <2>3, <2>5, <2>6 DEF Banked
  <2> QED
    BY <2>1, <2>7 DEF c, d
<1> HIDE DEF P
<1>7. n \in P
  BY <1>5, <1>6, SetInduction
<1>8. Banked(b, s, after[n], n)
  BY <1>7 DEF P
<1> QED
  BY <1>0, <1>3, <1>8 DEF Banked


-----------------------------------------------------------------------------
(* Loading, saving and consolidating.                                      *)

LEMMA PlacesFinite ==
  ASSUME NEW b \in Seq(Gene), NEW S \in SUBSET DOMAIN b
  PROVE  IsFiniteSet(S) /\ Cardinality(S) \in Nat /\ S \subseteq Nat
<1>1. Len(b) \in Nat /\ S \subseteq 1..Len(b) /\ S \subseteq Nat
  BY GenesOf
<1>2. IsFiniteSet(1..Len(b))
  BY <1>1, FS_Interval
<1> QED
  BY <1>1, <1>2, FS_Subset, FS_CardinalityType

LEMMA WellFormedType ==
  ASSUME NEW b \in Seq(Gene)
  PROVE  WellFormed(b) \in Seq(Gene)
<1> DEFINE S == {i \in DOMAIN b : b[i].wellFormed}
           N == Cardinality(S)
           InOrder(q) == \A i, j \in 1..N : i < j => q[i] < q[j]
           order == CHOOSE q \in [1..N -> S] : InOrder(q)
           before == {p \in S \X S : p[1] < p[2]}
<1>1. IsFiniteSet(S) /\ N \in Nat /\ S \subseteq Nat /\ S \subseteq DOMAIN b
  BY PlacesFinite
<1>2. WellFormed(b) = [n \in 1..N |-> b[order[n]]]
  BY DEF WellFormed, Listed
<1> HIDE DEF S
<1>3. \A i, j \in S : <<i, j>> \in before <=> i < j
  OBVIOUS
<1> HIDE DEF before
<1>4. StrictOrder(before, S)
  BY <1>1, <1>3 DEF StrictOrder
<1>5. PICK q : Ordered(q, before, S)
  BY <1>1, <1>4, Enumeration
<1>6. q \in [1..N -> S] /\ InOrder(q)
  BY <1>3, <1>5 DEF Ordered
<1>7. order \in [1..N -> S]
  <2> HIDE DEF InOrder, N
  <2> QED
    BY <1>6
<1> HIDE DEF order, N
<1>8. \A n \in 1..N : b[order[n]] \in Gene
  BY <1>1, <1>7, GenesOf
<1> QED
  BY <1>1, <1>2, <1>8, IsASeq

LEMMA SortedIs ==
  ASSUME NEW b \in Seq(Gene)
  PROVE  LET N == Cardinality(Active(b)) IN
         \E q \in [1..N -> Active(b)] :
           /\ Sorted(b) = [n \in 1..N |-> b[q[n]]]
           /\ \A i, j \in 1..N : i # j => q[i] # q[j]
           /\ \A s \in Active(b) : \E i \in 1..N : q[i] = s
<1> DEFINE S == Active(b)
           N == Cardinality(S)
           Earlier(i, j) == b[i].id < b[j].id \/ (b[i].id = b[j].id /\ i < j)
           InOrder(q) == \A i, j \in 1..N : i < j => Earlier(q[i], q[j])
           order == CHOOSE q \in [1..N -> S] : InOrder(q)
           before == {p \in S \X S : Earlier(p[1], p[2])}
<1>1. IsFiniteSet(S) /\ N \in Nat /\ S \subseteq Nat /\ S \subseteq DOMAIN b
  BY PlacesFinite, ActiveIn
<1>2. Sorted(b) = [n \in 1..N |-> b[order[n]]]
  BY DEF Sorted, Listed
<1>3. \A i \in S : b[i].id \in Nat
  BY <1>1, GenesOf DEF Gene
<1> HIDE DEF S
<1>4. \A i, j \in S : <<i, j>> \in before <=> Earlier(i, j)
  OBVIOUS
<1> HIDE DEF before
<1>5. StrictOrder(before, S)
  BY <1>1, <1>3, <1>4 DEF StrictOrder
<1>6. PICK x : Ordered(x, before, S)
  BY <1>1, <1>5, Enumeration
<1>7. \A q \in [1..N -> S] : InOrder(q) <=> Ordered(q, before, S)
  BY <1>4 DEF Ordered
<1>8. x \in [1..N -> S] /\ InOrder(x)
  BY <1>6, <1>7 DEF Ordered
<1>9. order \in [1..N -> S] /\ InOrder(order)
  <2> HIDE DEF InOrder, N
  <2> QED
    BY <1>8
<1> HIDE DEF order
<1>10. Ordered(order, before, S)
  BY <1>7, <1>9
<1>11. /\ \A i, j \in 1..N : i # j => order[i] # order[j]
       /\ \A s \in S : \E i \in 1..N : order[i] = s
  BY <1>1, <1>5, <1>10, EnumerationOnto
<1> QED
  BY <1>2, <1>9, <1>11 DEF S

(* A gene that is paired takes with it only what it counts.                *)
LEMMA ResolvedKnows ==
  ASSUME NEW b \in Seq(Gene), NEW i \in Active(b), NEW s, NEW n \in Nat, Known(b, s, n),
         NEW d, DOMAIN d = DOMAIN b, Active(d) = Active(b) \ {i},
         \A j \in Active(d) : d[j] = b[j]
  PROVE  Known(d, s, IF Knows(b, i, s) THEN 0 ELSE n)
<1> SUFFICES ASSUME ~Knows(b, i, s), n > 0
             PROVE  \E j \in Active(d) : Knows(d, j, s) /\ d[j].count >= n
  BY DEF Known
<1>1. PICK j \in Active(b) : Knows(b, j, s) /\ b[j].count >= n
  BY DEF Known
<1>2. j \in Active(d) /\ d[j] = b[j]
  BY <1>1
<1>3. Hits(d, s) \cap Active(d) = (Hits(b, s) \cap Active(b)) \ {i}
  BY ActiveIn DEF Hits
<1>4. Knows(d, j, s)
  BY <1>1, <1>2, <1>3 DEF Knows
<1> QED
  BY <1>1, <1>2, <1>4

(* Genes k that were merged from those at the places A of a bank hold in   *)
(* one gene what these count of the failures with signature s.             *)
Gathers(k, b, A, s) ==
  /\ \A x \in DOMAIN k : \E j \in A : k[x].signal = b[j].signal
  /\ \A i \in A \cap Hits(b, s) : \E x \in Hits(k, s) : k[x].count >= b[i].count
  /\ \A x, y \in Hits(k, s) : x = y

AllActive(k) == k \in Seq(Gene) /\ Active(k) = DOMAIN k /\ Distinct(k)

LEMMA MergeIntoKeeps ==
  ASSUME NEW k, AllActive(k), NEW g \in Gene, g.status = "active"
  PROVE  AllActive(MergeInto(k, g)) /\ Counted(MergeInto(k, g)) = Counted(k) + g.count
<1> DEFINE S == Hits(k, g.signal)
           i == First(S)
           d == MergeInto(k, g)
<1>1. k \in Seq(Gene) /\ Active(k) = DOMAIN k /\ Distinct(k) /\ g.count \in Nat
  BY DEF AllActive, Gene
<1>2. CASE S = {}
  <2>1. d = Append(k, g)
    BY <1>2 DEF MergeInto
  <2>2. /\ d \in Seq(Gene) /\ Active(d) = Active(k) \cup {Len(k) + 1}
        /\ Counted(d) = Counted(k) + g.count
    BY <1>1, <2>1, CountedAppend
  <2>3. /\ Len(k) \in Nat /\ DOMAIN k = 1..Len(k) /\ DOMAIN d = 1..(Len(k) + 1)
        /\ d[Len(k) + 1] = g /\ \A j \in DOMAIN k : d[j] = k[j]
    BY <1>1, <2>1, GenesOf
  <2>4. \A j \in DOMAIN k : ~Shares(k[j].signal, g.signal) /\ ~Shares(g.signal, k[j].signal)
    BY <1>2 DEF Hits, Shares
  <2> HIDE DEF d
  <2>5. Active(d) = DOMAIN d
    BY <1>1, <2>2, <2>3
  <2>6. \A j \in Active(d) : j \in DOMAIN k \/ j = Len(k) + 1
    BY <1>1, <2>2
  <2>7. ASSUME NEW j \in Active(d), NEW l \in Active(d), j # l
        PROVE  ~Shares(d[j].signal, d[l].signal)
    <3>1. CASE j \in DOMAIN k /\ l \in DOMAIN k
      BY <1>1, <2>3, <2>7, <3>1 DEF Distinct
    <3>2. CASE j = Len(k) + 1 /\ l \in DOMAIN k
      BY <2>3, <2>4, <3>2
    <3>3. CASE j \in DOMAIN k /\ l = Len(k) + 1
      BY <2>3, <2>4, <3>3
    <3> QED
      BY <2>6, <2>7, <3>1, <3>2, <3>3
  <2> QED
    BY <2>2, <2>5, <2>7 DEF AllActive, Distinct, d
<1>3. CASE S # {}
  <2>1. i \in S /\ i \in Active(k)
    BY <1>1, <1>3, ActiveIn, FirstIs DEF Hits
  <2>2. d = [k EXCEPT ![i].count = @ + g.count]
    BY <1>3 DEF MergeInto
  <2> HIDE DEF i, d
  <2>3. LET e == [k EXCEPT ![i].count = @ + g.count] IN
        e \in Seq(Gene) /\ Active(e) = Active(k) /\ Counted(e) = Counted(k) + g.count
    BY Zenon, <1>1, <2>1, CountedMore
  <2>4. d \in Seq(Gene) /\ Active(d) = Active(k) /\ Counted(d) = Counted(k) + g.count
    BY <2>2, <2>3
  <2>5. DOMAIN d = DOMAIN k /\ \A j \in DOMAIN k : d[j].signal = k[j].signal
    <3>1. i \in DOMAIN k /\ \A j \in DOMAIN k : k[j] \in Gene
      BY <1>1, <2>1, GenesOf
    <3> QED
      BY <2>2, <3>1 DEF Gene
  <2>6. Distinct(d)
    BY <1>1, <2>4, <2>5 DEF Distinct
  <2> QED
    BY <1>1, <2>4, <2>5, <2>6 DEF AllActive, d
<1> QED
  BY <1>2, <1>3

(* A gene of a signature whose genes are together is merged into the one   *)
(* that was kept for it, and a gene of another into another.               *)
LEMMA MergeIntoGathers ==
  ASSUME NEW b \in Seq(Gene), NEW A \in SUBSET Active(b), NEW i \in Active(b), NEW s,
         Together(b, s), NEW k, AllActive(k), Gathers(k, b, A, s)
  PROVE  Gathers(MergeInto(k, b[i]), b, A \cup {i}, s)
<1> DEFINE g == b[i]
           d == MergeInto(k, g)
           S == Hits(k, g.signal)
           f == First(S)
           G == Hits(b, s) \cap Active(b)
<1>1. /\ g \in Gene /\ g.count \in Nat /\ g.status = "active"
      /\ k \in Seq(Gene) /\ Active(k) = DOMAIN k
      /\ \A j \in Active(b) : j \in DOMAIN b /\ b[j].count \in Nat
  BY GenesOf, ActiveIn DEF AllActive, Active
<1>2. /\ \A x \in DOMAIN k : \E j \in A : k[x].signal = b[j].signal
      /\ \A j \in A \cap Hits(b, s) : \E x \in Hits(k, s) : k[x].count >= b[j].count
      /\ \A x, y \in Hits(k, s) : x = y
  BY DEF Gathers
<1>3. i \in G => S = Hits(k, s)
  <2> SUFFICES ASSUME i \in G, NEW x \in DOMAIN k
               PROVE  Shares(k[x].signal, g.signal) <=> Shares(k[x].signal, s)
    BY DEF Hits
  <2>1. PICK j \in A : k[x].signal = b[j].signal
    BY <1>2
  <2>2. Shares(b[i].signal, b[j].signal) <=> j \in G
    BY DEF Together
  <2>3. j \in G <=> Shares(b[j].signal, s)
    BY <1>1 DEF Hits
  <2> QED
    BY <2>1, <2>2, <2>3 DEF Shares
<1>4. i \in G <=> Shares(g.signal, s)
  BY <1>1 DEF Hits
<1>5. CASE S = {}
  <2> DEFINE m == Len(k) + 1
  <2>1. d = Append(k, g)
    BY <1>5 DEF MergeInto
  <2>2. /\ Len(k) \in Nat /\ DOMAIN k = 1..Len(k) /\ DOMAIN d = 1..m /\ d[m] = g
        /\ \A j \in DOMAIN k : d[j] = k[j]
    BY <1>1, <2>1, GenesOf
  <2> HIDE DEF d, S
  <2>3. Hits(d, s) = Hits(k, s) \cup (IF i \in G THEN {m} ELSE {})
    <3>1. \A x \in DOMAIN d : x \in DOMAIN k \/ x = m
      BY <2>2
    <3>2. DOMAIN k \subseteq DOMAIN d /\ m \in DOMAIN d /\ m \notin DOMAIN k
      BY <2>2
    <3> HIDE DEF g, G
    <3> QED
      BY <1>4, <2>2, <3>1, <3>2 DEF Hits
  <2>4. i \in G => Hits(k, s) = {} /\ Hits(d, s) = {m}
    BY <1>3, <1>5, <2>3
  <2>5. \A x \in DOMAIN d : \E j \in A \cup {i} : d[x].signal = b[j].signal
    <3> SUFFICES ASSUME NEW x \in DOMAIN d PROVE \E j \in A \cup {i} : d[x].signal = b[j].signal
      OBVIOUS
    <3>1. CASE x = m
      BY <2>2, <3>1
    <3>2. CASE x \in DOMAIN k
      BY <1>2, <2>2, <3>2
    <3> QED
      BY <2>2, <3>1, <3>2
  <2>6. ASSUME NEW j \in (A \cup {i}) \cap Hits(b, s)
        PROVE  \E x \in Hits(d, s) : d[x].count >= b[j].count
    <3>1. CASE j = i
      BY <1>1, <2>2, <2>4, <3>1
    <3>2. CASE j \in A
      <4>1. PICK x \in Hits(k, s) : k[x].count >= b[j].count
        BY <1>2, <3>2
      <4> QED
        BY <2>2, <2>3, <4>1 DEF Hits
    <3> QED
      BY <3>1, <3>2
  <2>7. \A x, y \in Hits(d, s) : x = y
    BY <1>2, <2>3, <2>4
  <2> QED
    BY <2>5, <2>6, <2>7 DEF Gathers, d
<1>6. CASE S # {}
  <2>1. f \in S /\ f \in Active(k)
    BY <1>1, <1>6, ActiveIn, FirstIs DEF Hits
  <2>2. d = [k EXCEPT ![f].count = @ + g.count]
    BY <1>6 DEF MergeInto
  <2> HIDE DEF d, f, S
  <2>3. Grown(k, d, f, g.count)
    <3> HIDE DEF g
    <3> QED
      BY <1>1, <2>1, <2>2, GeneGrows
  <2>4. /\ DOMAIN d = DOMAIN k /\ d[f].count = k[f].count + g.count /\ Hits(d, s) = Hits(k, s)
        /\ \A x \in DOMAIN k :
             d[x].signal = k[x].signal /\ d[x].count >= k[x].count /\ d[x].count \in Nat
    BY <2>3 DEF Grown
  <2>5. \A x \in DOMAIN k : k[x].count \in Nat
    BY <1>1, GenesOf
  <2>6. \A x \in DOMAIN d : \E j \in A \cup {i} : d[x].signal = b[j].signal
    BY <1>2, <2>4
  <2>7. ASSUME NEW j \in (A \cup {i}) \cap Hits(b, s)
        PROVE  \E x \in Hits(d, s) : d[x].count >= b[j].count
    <3>1. CASE j = i
      <4>1. f \in Hits(d, s) /\ f \in DOMAIN k
        BY <1>3, <2>1, <2>4, <3>1, ActiveIn, <1>1
      <4>2. d[f].count >= g.count
        BY <1>1, <2>4, <2>5, <4>1
      <4> QED
        BY <3>1, <4>1, <4>2
    <3>2. CASE j \in A
      <4>1. PICK x \in Hits(k, s) : k[x].count >= b[j].count
        BY <1>2, <3>2
      <4>2. x \in DOMAIN k /\ b[j].count \in Nat
        BY <1>1, <3>2, <4>1 DEF Hits
      <4>3. d[x].count >= b[j].count
        BY <2>4, <2>5, <4>1, <4>2
      <4> QED
        BY <2>4, <4>1, <4>3
    <3> QED
      BY <3>1, <3>2
  <2>8. \A x, y \in Hits(d, s) : x = y
    BY <1>2, <2>4
  <2> QED
    BY <2>6, <2>7, <2>8 DEF Gathers, d
<1> QED
  BY <1>5, <1>6

(* Consolidation counts what the bank counted: the genes in their order    *)
(* are each merged once.  It still knows of the failures of a signature    *)
(* whose genes are together.                                               *)
LEMMA ConsolidatedIs ==
  ASSUME NEW b \in Seq(Gene)
  PROVE  /\ AllActive(Consolidated(b)) /\ Counted(Consolidated(b)) = Counted(b)
         /\ \A s \in Signatures, n \in Nat :
              Together(b, s) /\ Known(b, s, n) => Known(Consolidated(b), s, n)
<1> DEFINE N == Cardinality(Active(b))
<1>1. PICK q \in [1..N -> Active(b)] :
         /\ Sorted(b) = [n \in 1..N |-> b[q[n]]]
         /\ \A i, j \in 1..N : i # j => q[i] # q[j]
         /\ \A s \in Active(b) : \E i \in 1..N : q[i] = s
  BY SortedIs
<1>2. N \in Nat /\ \A n \in 1..N : b[q[n]] \in Gene /\ b[q[n]].status = "active"
  <2>1. N \in Nat
    BY PlacesFinite, ActiveIn
  <2>2. \A i \in Active(b) : b[i] \in Gene /\ b[i].status = "active"
    BY GenesOf DEF Active
  <2> QED
    BY <2>1, <2>2
<1> DEFINE sorted == Sorted(b)
<1>3. sorted \in Seq(Gene) /\ Len(sorted) = N /\ \A n \in 1..N : sorted[n] = b[q[n]]
  <2> HIDE DEF N
  <2> QED
    BY <1>1, <1>2, IsASeq
<1> DEFINE Kept(f) == f = [n \in 0..Len(sorted) |->
                             IF n = 0 THEN <<>> ELSE MergeInto(f[n - 1], sorted[n])]
           kept == CHOOSE f : Kept(f)
           R == {k \in Seq(Gene) : AllActive(k)}
           step == [p \in (1..N) \X R |-> MergeInto(p[2], sorted[p[1]])]
<1> HIDE DEF N, sorted
<1>4. \E f : Kept(f)
  <2>1. step \in [(1..N) \X R -> R]
    <3> SUFFICES ASSUME NEW n \in 1..N, NEW k \in R PROVE MergeInto(k, sorted[n]) \in R
      OBVIOUS
    <3> QED
      BY <1>2, <1>3, MergeIntoKeeps DEF AllActive
  <2>2. \A n \in 1..N, k \in R : step[<<n, k>>] = MergeInto(k, sorted[n])
    OBVIOUS
  <2>3. <<>> \in R
    BY DEF AllActive, Active, Distinct
  <2> HIDE DEF step, R
  <2>4. Recursive(R, <<>>, N, step)
    BY <1>2, <2>1, <2>3, Recursion
  <2>5. PICK f \in [0..N -> R] : f[0] = <<>> /\ \A n \in 1..N : f[n] = step[<<n, f[n - 1]>>]
    BY <2>4 DEF Recursive
  <2>6. ASSUME NEW n \in 0..N
        PROVE  f[n] = IF n = 0 THEN <<>> ELSE MergeInto(f[n - 1], sorted[n])
    <3>1. CASE n = 0
      BY <2>5, <3>1
    <3>2. CASE n # 0
      <4>1. n \in 1..N /\ n - 1 \in 0..N
        BY <1>2, <3>2
      <4>2. f[n - 1] \in R
        BY <4>1
      <4> QED
        BY <2>2, <2>5, <3>2, <4>1, <4>2
    <3> QED
      BY <3>1, <3>2
  <2>7. f = [n \in 0..N |-> IF n = 0 THEN <<>> ELSE MergeInto(f[n - 1], sorted[n])]
    BY <2>6
  <2>8. Kept(f)
    BY <1>3, <2>7
  <2> QED
    BY <2>8
<1> HIDE DEF Kept
<1>5. Kept(kept)
  BY <1>4
<1>6. Consolidated(b) = kept[N]
  BY <1>3 DEF Consolidated, Kept, sorted
<1> HIDE DEF kept
<1>7. kept[0] = <<>> /\ \A n \in Nat : n + 1 <= N => kept[n + 1] = MergeInto(kept[n], sorted[n + 1])
  <2>1. kept = [n \in 0..N |-> IF n = 0 THEN <<>> ELSE MergeInto(kept[n - 1], sorted[n])]
    BY <1>3, <1>5 DEF Kept
  <2>2. ASSUME NEW n \in Nat, n + 1 <= N PROVE kept[n + 1] = MergeInto(kept[n], sorted[n + 1])
    <3>1. n + 1 \in 0..N /\ n + 1 # 0 /\ (n + 1) - 1 = n
      BY <1>2, <2>2
    <3> QED
      BY <2>1, <3>1
  <2>3. kept[0] = <<>>
    BY <1>2, <2>1
  <2> QED
    BY <2>2, <2>3
<1> DEFINE Upto(n) == {q[i] : i \in 1..n}
           Right(n) == /\ AllActive(kept[n])
                       /\ Counted(kept[n]) = Cardinality(Occurrences(b, Upto(n)))
                       /\ \A s \in Signatures : Together(b, s) => Gathers(kept[n], b, Upto(n), s)
           P == {n \in Nat : n <= N => Right(n)}
<1>8. 0 \in P
  <2>1. Upto(0) = {} /\ Occurrences(b, {}) = {} /\ Occurrences(<<>>, Active(<<>>)) = {}
    BY DEF Occurrences, Active
  <2>2. AllActive(<<>>)
    BY DEF AllActive, Active, Distinct
  <2>3. \A s : Gathers(<<>>, b, {}, s)
    BY DEF Gathers, Hits
  <2> QED
    BY <1>7, <2>1, <2>2, <2>3 DEF Counted
<1>9. ASSUME NEW n \in Nat, n \in P PROVE n + 1 \in P
  <2> SUFFICES ASSUME n + 1 <= N PROVE Right(n + 1)
    OBVIOUS
  <2> DEFINE i == q[n + 1]
             A == Occurrences(b, Upto(n))
  <2>1. n + 1 \in 1..N /\ n <= N /\ \A j \in 1..n : j \in 1..N /\ j # n + 1
    BY <1>2
  <2>2. i \in Active(b) /\ b[i] \in Gene /\ b[i].status = "active" /\ sorted[n + 1] = b[i]
    BY <1>2, <1>3, <2>1
  <2>3. /\ AllActive(kept[n]) /\ Counted(kept[n]) = Cardinality(A) /\ b[i].count \in Nat
        /\ \A s \in Signatures : Together(b, s) => Gathers(kept[n], b, Upto(n), s)
    BY <1>9, <2>1, <2>2 DEF Gene
  <2>4. kept[n + 1] = MergeInto(kept[n], b[i])
    BY <1>7, <2>2
  <2>5. AllActive(kept[n + 1]) /\ Counted(kept[n + 1]) = Counted(kept[n]) + b[i].count
    BY <2>2, <2>3, <2>4, MergeIntoKeeps
  <2>6. Upto(n + 1) = Upto(n) \cup {i} /\ i \notin Upto(n) /\ Upto(n) \subseteq Active(b)
    <3>1. 1..(n + 1) = (1..n) \cup {n + 1}
      OBVIOUS
    <3> QED
      BY <1>1, <2>1, <3>1
  <2> HIDE DEF i, Upto
  <2>7. Occurrences(b, Upto(n + 1)) = A \cup Beyond(i, 0, b[i].count)
    <3>1. (0 + 1)..(0 + b[i].count) = 1..b[i].count
      BY <2>3
    <3> QED
      BY <2>6, <3>1 DEF Occurrences, Beyond
  <2>8. A \cap Beyond(i, 0, b[i].count) = {}
    BY <2>6 DEF Occurrences, Beyond
  <2>9. IsFiniteSet(A)
    BY <2>6, ActiveIn, OccurrencesFinite
  <2> HIDE DEF A
  <2>10. Cardinality(A \cup Beyond(i, 0, b[i].count)) = Cardinality(A) + b[i].count
    BY ZenonT(30), <2>3, <2>8, <2>9, 0 \in Nat, Grows
  <2>11. ASSUME NEW s \in Signatures, Together(b, s)
         PROVE  Gathers(kept[n + 1], b, Upto(n + 1), s)
    <3>1. Gathers(kept[n], b, Upto(n), s)
      BY <2>3, <2>11
    <3> HIDE DEF kept
    <3>2. Gathers(MergeInto(kept[n], b[i]), b, Upto(n) \cup {i}, s)
      BY <2>2, <2>3, <2>6, <2>11, <3>1, MergeIntoGathers
    <3> QED
      BY <2>4, <2>6, <3>2
  <2> QED
    BY <2>3, <2>5, <2>7, <2>10, <2>11 DEF A, Upto, i
<1> HIDE DEF P
<1>10. N \in P
  BY <1>2, <1>8, <1>9, SetInduction
<1>11. Right(N)
  <2>1. N <= N
    BY <1>2
  <2> HIDE DEF Right
  <2> QED
    BY <1>10, <2>1 DEF P
<1>12. Upto(N) = Active(b)
  BY <1>1 DEF N
<1> DEFINE c == kept[N]
<1>13. /\ AllActive(c) /\ Counted(c) = Counted(b)
       /\ \A s \in Signatures : Together(b, s) => Gathers(c, b, Active(b), s)
  BY <1>11, <1>12 DEF Counted
<1> HIDE DEF kept, c
<1>14. ASSUME NEW s \in Signatures, NEW n \in Nat, Together(b, s), Known(b, s, n)
       PROVE  Known(c, s, n)
  <2> SUFFICES ASSUME n > 0 PROVE \E x \in Active(c) : Knows(c, x, s) /\ c[x].count >= n
    BY DEF Known
  <2>1. PICK i \in Active(b) : Knows(b, i, s) /\ b[i].count >= n
    BY <1>14 DEF Known
  <2>2. PICK x \in Hits(c, s) : c[x].count >= b[i].count
    BY <1>13, <1>14, <2>1 DEF Gathers, Knows
  <2>3. c \in Seq(Gene) /\ Active(c) = DOMAIN c /\ x \in DOMAIN c
    BY <1>13, <2>2 DEF AllActive, Hits
  <2>4. \A y \in Hits(c, s) : x = y
    BY <1>13, <1>14, <2>2 DEF Gathers
  <2>5. x \in Nat /\ c[x].count \in Nat /\ b[i].count \in Nat
    BY <2>1, <2>3, GenesOf, ActiveIn
  <2>6. Knows(c, x, s)
    BY <2>2, <2>3, <2>4, <2>5 DEF Knows
  <2> QED
    BY <2>1, <2>2, <2>3, <2>5, <2>6
<1> QED
  BY <1>6, <1>13, <1>14 DEF c


-----------------------------------------------------------------------------
(* The processes.                                                          *)
Banks ==
  /\ file \in Seq(Gene)
  /\ pc \in [Processes -> {"off", "idle", "loop", "escalated", "race"}]
  /\ bank \in [Processes -> Seq(Gene)]
  /\ expected \in [Processes -> Nat]

(* What a process is at work on is a failure.                              *)
AtWork ==
  /\ signal \in [Processes -> Signals \cup {NoSignal}]
  /\ \A p \in Processes : pc[p] \in {"loop", "escalated", "race"} => signal[p] \in Signals
  /\ candidate \in [Processes -> {<<>>} \cup [1..Candidates -> Progress]]

BankInv == Banks /\ AtWork /\ EveryFailureCounted

LEMMA CountedIsNat == ASSUME NEW b \in Seq(Gene) PROVE Counted(b) \in Nat
BY OccurrencesFinite, ActiveIn, FS_CardinalityType DEF Counted

LEMMA CountedNone == <<>> \in Seq(Gene) /\ Counted(<<>>) = 0
<1>1. Occurrences(<<>>, Active(<<>>)) = {}
  BY DEF Occurrences, Active
<1> QED
  BY <1>1, FS_EmptySet DEF Counted

LEMMA DebugInitially == DebugInit => BankInv
<1> SUFFICES ASSUME DebugInit PROVE BankInv
  OBVIOUS
<1>1. Banks /\ AtWork
  BY SeedsAssumption, CountedNone DEF DebugInit, Banks, AtWork
<1>2. EveryFailureCounted
  BY CountedNone DEF DebugInit, EveryFailureCounted
<1> QED
  BY <1>1, <1>2 DEF BankInv

(* One process has another bank, and expects of it what it counts.         *)
LEMMA OneBank ==
  ASSUME BankInv, NEW p \in Processes, NEW b \in Seq(Gene), NEW n \in Nat,
         bank' = [bank EXCEPT ![p] = b], expected' = [expected EXCEPT ![p] = n], Counted(b) = n
  PROVE  /\ bank' \in [Processes -> Seq(Gene)] /\ expected' \in [Processes -> Nat]
         /\ EveryFailureCounted'
<1>1. bank' \in [Processes -> Seq(Gene)] /\ expected' \in [Processes -> Nat]
  BY DEF BankInv, Banks
<1>2. ASSUME NEW q \in Processes PROVE Counted(bank'[q]) = expected'[q]
  <2>1. CASE q = p
    BY <2>1 DEF BankInv, Banks
  <2>2. CASE q # p
    BY <2>2 DEF BankInv, Banks, EveryFailureCounted
  <2> QED
    BY <2>1, <2>2
<1> QED
  BY <1>1, <1>2 DEF EveryFailureCounted

(* A failure is banked, and expected.                                      *)
LEMMA FailureBanked ==
  ASSUME BankInv, NEW p \in Processes, NEW id \in Ids, NEW s \in Signals, BankFailure(p, id, s)
  PROVE  /\ bank' \in [Processes -> Seq(Gene)] /\ expected' \in [Processes -> Nat]
         /\ EveryFailureCounted'
<1> DEFINE b == bank[p]
           d == Bank(b, id, s)
           n == expected[p] + (IF Dropped(b, s) THEN 0 ELSE 1)
<1>1. b \in Seq(Gene) /\ Counted(b) = expected[p] /\ expected[p] \in Nat
  BY DEF BankInv, Banks, EveryFailureCounted
<1>2. bank' = [bank EXCEPT ![p] = d] /\ expected' = [expected EXCEPT ![p] = n]
  BY DEF BankFailure, Expect
<1>3. id \in Nat
  BY IdsAssumption
<1> HIDE DEF b
<1>4. d \in Seq(Gene) /\ Counted(d) = n
  <2>1. /\ d \in Seq(Gene)
        /\ Dropped(b, s) => d = b
        /\ ~Dropped(b, s) => Counted(d) = Counted(b) + 1
    BY <1>1, <1>3, BankCounts
  <2> HIDE DEF d
  <2> QED
    BY <1>1, <2>1
<1>5. n \in Nat
  BY <1>1
<1> HIDE DEF d, n
<1> QED
  BY <1>2, <1>4, <1>5, OneBank

(* The candidates that failed can be counted.                              *)
LEMMA LosersCount ==
  ASSUME BankInv, NEW p \in Processes
  PROVE  Cardinality(Those(p, "failed")) \in Nat
<1>1. IsFiniteSet(1..Candidates)
  BY LimitsAssumption, FS_Interval
<1>2. Those(p, "failed") \subseteq 1..Candidates
  <2>1. candidate[p] = <<>> \/ candidate[p] \in [1..Candidates -> Progress]
    BY DEF BankInv, AtWork
  <2>2. Those(p, "failed") \subseteq DOMAIN candidate[p]
    BY DEF Those
  <2>3. DOMAIN candidate[p] = {} \/ DOMAIN candidate[p] = 1..Candidates
    BY <2>1
  <2> QED
    BY <2>2, <2>3
<1> QED
  BY <1>1, <1>2, FS_Subset, FS_CardinalityType

LEMMA DebugKept == BankInv /\ [DebugNext]_debugVars => BankInv'
<1> SUFFICES ASSUME BankInv, [DebugNext]_debugVars PROVE Banks' /\ AtWork' /\ EveryFailureCounted'
  BY DEF BankInv
<1> USE DEF race, history
<1>1. CASE UNCHANGED debugVars
  BY <1>1 DEF BankInv, debugVars, Banks, AtWork, EveryFailureCounted
<1>2. ASSUME NEW p \in Processes, LoadBank(p) PROVE Banks' /\ AtWork' /\ EveryFailureCounted'
  <2>1. file \in Seq(Gene) /\ Counted(file) \in Nat
    BY CountedIsNat DEF BankInv, Banks
  <2>2. /\ bank' \in [Processes -> Seq(Gene)] /\ expected' \in [Processes -> Nat]
        /\ EveryFailureCounted'
    BY <1>2, <2>1, OneBank DEF LoadBank
  <2> QED
    BY <1>2, <2>2 DEF LoadBank, BankInv, Banks, AtWork
<1>3. ASSUME NEW p \in Processes, SaveBank(p) PROVE Banks' /\ AtWork' /\ EveryFailureCounted'
  BY <1>3, WellFormedType DEF SaveBank, BankInv, Banks, AtWork, EveryFailureCounted
<1>4. ASSUME NEW p \in Processes, ConsolidateBank(p)
      PROVE  Banks' /\ AtWork' /\ EveryFailureCounted'
  <2>1. bank[p] \in Seq(Gene) /\ Counted(bank[p]) = expected[p] /\ expected[p] \in Nat
    BY DEF BankInv, Banks, EveryFailureCounted
  <2>2. Consolidated(bank[p]) \in Seq(Gene) /\ Counted(Consolidated(bank[p])) = expected[p]
    BY <2>1, ConsolidatedIs DEF AllActive
  <2>3. /\ bank' = [bank EXCEPT ![p] = Consolidated(bank[p])]
        /\ expected' = [expected EXCEPT ![p] = expected[p]]
    BY <1>4 DEF ConsolidateBank, BankInv, Banks
  <2>4. /\ bank' \in [Processes -> Seq(Gene)] /\ expected' \in [Processes -> Nat]
        /\ EveryFailureCounted'
    BY <2>1, <2>2, <2>3, OneBank
  <2> QED
    BY <1>4, <2>4 DEF ConsolidateBank, BankInv, Banks, AtWork
<1>5. ASSUME NEW p \in Processes, NEW i \in DOMAIN bank[p], ResolveGene(p, i)
      PROVE  Banks' /\ AtWork' /\ EveryFailureCounted'
  <2> DEFINE b == bank[p]
             d == [b EXCEPT ![i] = Resolved(@)]
             A == Occurrences(d, Active(d))
  <2>1. b \in Seq(Gene) /\ Counted(b) = expected[p] /\ expected[p] \in Nat /\ i \in Active(b)
    BY <1>5 DEF BankInv, Banks, EveryFailureCounted, ResolveGene
  <2>2. /\ bank' = [bank EXCEPT ![p] = d]
        /\ expected' = [expected EXCEPT ![p] = expected[p] - b[i].count]
    BY <1>5 DEF ResolveGene, BankInv, Banks
  <2> HIDE DEF b
  <2>3. i \in DOMAIN b /\ b[i] \in Gene /\ b[i].count \in Nat
    BY <2>1, ActiveIn, GenesOf
  <2>4. Resolved(b[i]) \in Gene /\ Resolved(b[i]).status # "active"
    BY <2>3 DEF Resolved, Gene, Statuses
  <2>5. d \in Seq(Gene)
    BY <2>1, <2>3, <2>4, ExceptSeq
  <2>6. DOMAIN d = DOMAIN b /\ d[i] = Resolved(b[i]) /\ \A j \in DOMAIN b : j # i => d[j] = b[j]
    BY <2>3
  <2>7. Active(d) = Active(b) \ {i}
    BY <2>4, <2>6 DEF Active
  <2> HIDE DEF d
  <2>8. Occurrences(b, Active(b)) = A \cup Beyond(i, 0, b[i].count)
    <3>1. (0 + 1)..(0 + b[i].count) = 1..b[i].count
      BY <2>3
    <3>2. \A j \in Active(d) : d[j] = b[j]
      BY <2>6, <2>7 DEF Active
    <3>3. Active(b) = Active(d) \cup {i}
      BY <2>1, <2>7
    <3>4. Occurrences(b, Active(d)) = A
      BY <3>2 DEF Occurrences
    <3>5. Occurrences(b, Active(b)) = Occurrences(b, Active(d)) \cup ({i} \X (1..b[i].count))
      BY <3>3 DEF Occurrences
    <3> QED
      BY <3>1, <3>4, <3>5 DEF Beyond
  <2>9. A \cap Beyond(i, 0, b[i].count) = {}
    BY <2>7 DEF Occurrences, Beyond
  <2>10. IsFiniteSet(A)
    BY <2>5, ActiveIn, OccurrencesFinite
  <2>11. Counted(d) = Cardinality(A) /\ Cardinality(A) \in Nat
    BY <2>10, FS_CardinalityType DEF Counted
  <2> HIDE DEF A
  <2>12. Counted(b) = Cardinality(A) + b[i].count
    <3>1. Cardinality(A \cup Beyond(i, 0, b[i].count)) = Cardinality(A) + b[i].count
      BY <2>3, <2>9, <2>10, 0 \in Nat, Grows
    <3> QED
      BY <2>8, <3>1 DEF Counted
  <2>13. Counted(d) = expected[p] - b[i].count /\ expected[p] - b[i].count \in Nat
    BY <2>1, <2>3, <2>11, <2>12
  <2>14. /\ bank' \in [Processes -> Seq(Gene)] /\ expected' \in [Processes -> Nat]
         /\ EveryFailureCounted'
    BY <2>2, <2>5, <2>13, OneBank
  <2> QED
    BY <1>5, <2>14 DEF ResolveGene, BankInv, Banks, AtWork
<1>6. ASSUME NEW p \in Processes, NEW id \in Ids, NEW s \in Signatures, StartLoop(p, id, s)
      PROVE  Banks' /\ AtWork' /\ EveryFailureCounted'
  <2>1. s \in Signals
    BY DEF Signatures
  <2>2. /\ bank' \in [Processes -> Seq(Gene)] /\ expected' \in [Processes -> Nat]
        /\ EveryFailureCounted'
    BY <1>6, <2>1, FailureBanked DEF StartLoop
  <2>3. pc' \in [Processes -> {"off", "idle", "loop", "escalated", "race"}]
    BY <1>6 DEF StartLoop, EndLoop, BankInv, Banks
  <2>4. AtWork'
    BY <1>6, <2>1 DEF StartLoop, EndLoop, BankInv, Banks, AtWork
  <2> QED
    BY <1>6, <2>2, <2>3, <2>4 DEF StartLoop, BankInv, Banks
<1>7. ASSUME NEW p \in Processes, NoUsableProposal(p) \/ ProposalRefused(p) \/ RepairValidated(p)
      PROVE  Banks' /\ AtWork' /\ EveryFailureCounted'
  BY <1>7 DEF NoUsableProposal, ProposalRefused, RepairValidated, InLoop, EndLoop, Leave,
     BankInv, Banks, AtWork, EveryFailureCounted
<1>8. ASSUME NEW p \in Processes, NEW id \in Ids, RepairFails(p, id)
      PROVE  Banks' /\ AtWork' /\ EveryFailureCounted'
  <2>1. CASE LastAttempt(p)
    BY <1>8, <2>1 DEF RepairFails, InLoop, EndLoop, BankInv, Banks, AtWork, EveryFailureCounted
  <2>2. CASE ~LastAttempt(p)
    <3>1. signal[p] \in Signals /\ BankFailure(p, id, signal[p])
      BY <1>8, <2>2 DEF RepairFails, InLoop, GoOn, BankInv, AtWork
    <3>2. /\ bank' \in [Processes -> Seq(Gene)] /\ expected' \in [Processes -> Nat]
          /\ EveryFailureCounted'
      BY <3>1, FailureBanked
    <3> QED
      BY <1>8, <2>2, <3>2 DEF RepairFails, InLoop, GoOn, BankInv, Banks, AtWork
  <2> QED
    BY <2>1, <2>2
<1>9. ASSUME NEW p \in Processes, NEW ds \in Diagnoses, StartRace(p, ds)
      PROVE  Banks' /\ AtWork' /\ EveryFailureCounted'
  BY <1>9 DEF StartRace, BankInv, Banks, AtWork, EveryFailureCounted, Progress
<1>10. ASSUME NEW p \in Processes, NEW i \in 1..Candidates, NEW how \in Progress \ {"running"},
              CandidateEnds(p, i, how)
       PROVE  Banks' /\ AtWork' /\ EveryFailureCounted'
  <2>1. candidate' \in [Processes -> {<<>>} \cup [1..Candidates -> Progress]]
    <3>1. candidate[p] \in [1..Candidates -> Progress]
      BY <1>10 DEF CandidateEnds, BankInv, AtWork
    <3>2. [candidate[p] EXCEPT ![i] = how] \in [1..Candidates -> Progress]
      BY <3>1
    <3> QED
      BY <1>10, <3>2 DEF CandidateEnds, BankInv, AtWork
  <2> QED
    BY <1>10, <2>1 DEF CandidateEnds, BankInv, Banks, AtWork, EveryFailureCounted
<1>11. ASSUME NEW p \in Processes, LeaveToHuman(p) \/ CandidateThrows(p)
       PROVE  Banks' /\ AtWork' /\ EveryFailureCounted'
  BY <1>11 DEF LeaveToHuman, CandidateThrows, EndRace, Leave, BankInv, Banks, AtWork,
     EveryFailureCounted
<1>12. ASSUME NEW p \in Processes, NEW id \in Ids, SettleRace(p, id)
       PROVE  Banks' /\ AtWork' /\ EveryFailureCounted'
  <2> DEFINE b == bank[p]
             s == signal[p]
             losers == Cardinality(Those(p, "failed"))
             d == BankAll(b, id, s, losers)
             n == expected[p] + (IF Dropped(b, s) THEN 0 ELSE losers)
  <2>1. b \in Seq(Gene) /\ Counted(b) = expected[p] /\ expected[p] \in Nat
    BY DEF BankInv, Banks, EveryFailureCounted
  <2>2. s \in Signals /\ id \in Nat
    BY <1>12, IdsAssumption DEF SettleRace, BankInv, AtWork
  <2>3. losers \in Nat
    BY LosersCount
  <2>4. bank' = [bank EXCEPT ![p] = d] /\ expected' = [expected EXCEPT ![p] = n]
    BY <1>12 DEF SettleRace, Expect
  <2> HIDE DEF b, s, losers
  <2>5. d \in Seq(Gene) /\ Counted(d) = n
    <3>1. /\ d \in Seq(Gene)
          /\ Counted(d) = Counted(b) + (IF Dropped(b, s) THEN 0 ELSE losers)
      BY <2>1, <2>2, <2>3, BankAllCounts
    <3> QED
      BY <2>1, <3>1
  <2>6. n \in Nat
    BY <2>1, <2>3
  <2> HIDE DEF d, n
  <2>7. /\ bank' \in [Processes -> Seq(Gene)] /\ expected' \in [Processes -> Nat]
        /\ EveryFailureCounted'
    BY <2>4, <2>5, <2>6, OneBank
  <2> QED
    BY <1>12, <2>7 DEF SettleRace, EndRace, Leave, BankInv, Banks, AtWork
<1>13. ASSUME NEW p \in Processes, Exit(p) PROVE Banks' /\ AtWork' /\ EveryFailureCounted'
  <2>1. /\ bank' \in [Processes -> Seq(Gene)] /\ expected' \in [Processes -> Nat]
        /\ EveryFailureCounted'
    BY <1>13, CountedNone, OneBank, 0 \in Nat DEF Exit
  <2> QED
    BY <1>13, <2>1 DEF Exit, BankInv, Banks, AtWork
<1> QED
  BY <1>1, <1>2, <1>3, <1>4, <1>5, <1>6, <1>7, <1>8, <1>9, <1>10, <1>11, <1>12, <1>13
     DEF DebugNext, Looping, Racing

LEMMA BankInvariant == DebugSpec => []BankInv
BY DebugInitially, DebugKept, PTL DEF DebugSpec

(* A bank in memory counts every failure that found room in it, once, for  *)
(* any number of processes, signals, candidates and limits.                *)
THEOREM FailuresCounted == DebugSpec => []EveryFailureCounted
<1>1. BankInv => EveryFailureCounted
  BY DEF BankInv
<1> QED
  BY <1>1, BankInvariant, PTL

(* The bank of a process knows of the failures that the history says.      *)
RecentInv ==
  /\ recent \in [Processes -> [Signatures -> Nat]]
  /\ \A p \in Processes, s \in Signatures : Known(bank[p], s, recent[p][s])

LEMMA NoneKnown ==
  /\ NoneYet \in [Signatures -> Nat]
  /\ \A b : \A s \in Signatures : Known(b, s, NoneYet[s])
BY DEF NoneYet, Known

(* One process has another bank, and may know of other failures.           *)
LEMMA OneRecent ==
  ASSUME BankInv, RecentInv, NEW p \in Processes, NEW b, NEW r \in [Signatures -> Nat],
         bank' = [bank EXCEPT ![p] = b], recent' = [recent EXCEPT ![p] = r],
         \A s \in Signatures : Known(b, s, r[s])
  PROVE  RecentInv'
<1>1. recent' \in [Processes -> [Signatures -> Nat]]
  BY DEF RecentInv
<1>2. ASSUME NEW q \in Processes, NEW s \in Signatures PROVE Known(bank'[q], s, recent'[q][s])
  <2>1. CASE q = p
    <3>1. bank'[q] = b /\ recent'[q] = r
      BY <2>1 DEF RecentInv, BankInv, Banks
    <3> QED
      BY <3>1
  <2>2. CASE q # p
    <3>1. bank'[q] = bank[q] /\ recent'[q] = recent[q]
      BY <2>2 DEF RecentInv, BankInv, Banks
    <3>2. Known(bank[q], s, recent[q][s])
      BY DEF RecentInv
    <3> QED
      BY <3>1, <3>2
  <2> QED
    BY <2>1, <2>2
<1>3. \A q \in Processes, s \in Signatures : (Known(bank[q], s, recent[q][s]))'
  BY <1>2 DEF Known, Knows, Hits, Active
<1> QED
  BY <1>1, <1>3 DEF RecentInv

(* Failures with signature s are banked, n of which the bank has to count. *)
LEMMA MoreRecent ==
  ASSUME BankInv, RecentInv, NEW p \in Processes, NEW b, NEW s, NEW n \in Nat,
         bank' = [bank EXCEPT ![p] = b], recent' = [recent EXCEPT ![p][s] = @ + n],
         KnowsMore(bank[p], b, s, n)
  PROVE  RecentInv'
<1> DEFINE r == [recent[p] EXCEPT ![s] = @ + n]
<1>1. recent[p] \in [Signatures -> Nat] /\ \A u \in Signatures : Known(bank[p], u, recent[p][u])
  BY DEF RecentInv
<1>2. \A u \in Signatures : r[u] = recent[p][u] + (IF u = s THEN n ELSE 0)
  BY <1>1
<1>3. r \in [Signatures -> Nat]
  <2>1. DOMAIN r = Signatures /\ \A u \in Signatures : r[u] \in Nat
    BY <1>1, <1>2
  <2> QED
    BY <1>1, <2>1
<1>4. recent' = [recent EXCEPT ![p] = r]
  OBVIOUS
<1> HIDE DEF r
<1>5. ASSUME NEW u \in Signatures PROVE Known(b, u, r[u])
  BY <1>1, <1>2 DEF KnowsMore
<1> QED
  BY <1>3, <1>4, <1>5, OneRecent

LEMMA RecentKept == BankInv /\ RecentInv /\ [DebugNext]_debugVars => RecentInv'
<1> SUFFICES ASSUME BankInv, RecentInv, [DebugNext]_debugVars PROVE RecentInv'
  OBVIOUS
<1> USE DEF race, history
<1>1. ASSUME UNCHANGED <<bank, recent>> PROVE RecentInv'
  BY <1>1 DEF RecentInv, Known, Knows, Hits, Active
<1>2. ASSUME NEW p \in Processes, LoadBank(p) PROVE RecentInv'
  BY <1>2, NoneKnown, OneRecent DEF LoadBank
<1>3. ASSUME NEW p \in Processes, ConsolidateBank(p) PROVE RecentInv'
  <2> DEFINE b == bank[p]
             r == [s \in Signatures |-> IF Together(b, s) THEN recent[p][s] ELSE 0]
  <2>1. /\ b \in Seq(Gene) /\ recent[p] \in [Signatures -> Nat]
        /\ \A s \in Signatures : Known(b, s, recent[p][s])
    BY DEF BankInv, Banks, RecentInv
  <2>2. bank' = [bank EXCEPT ![p] = Consolidated(b)] /\ recent' = [recent EXCEPT ![p] = r]
    BY <1>3 DEF ConsolidateBank, RecentInv, BankInv, Banks
  <2> HIDE DEF b
  <2>3. r \in [Signatures -> Nat]
    BY <2>1
  <2>4. ASSUME NEW s \in Signatures PROVE Known(Consolidated(b), s, r[s])
    <3>1. CASE Together(b, s)
      BY <2>1, <3>1, ConsolidatedIs
    <3>2. CASE ~Together(b, s)
      BY <3>2 DEF Known
    <3> QED
      BY <3>1, <3>2
  <2> HIDE DEF r
  <2> QED
    BY <2>2, <2>3, <2>4, OneRecent
<1>4. ASSUME NEW p \in Processes, NEW i \in DOMAIN bank[p], ResolveGene(p, i) PROVE RecentInv'
  <2> DEFINE b == bank[p]
             d == [b EXCEPT ![i] = Resolved(@)]
             r == [s \in Signatures |-> IF Knows(b, i, s) THEN 0 ELSE recent[p][s]]
  <2>1. /\ b \in Seq(Gene) /\ i \in Active(b) /\ recent[p] \in [Signatures -> Nat]
        /\ \A s \in Signatures : Known(b, s, recent[p][s])
    BY <1>4 DEF BankInv, Banks, RecentInv, ResolveGene
  <2>2. bank' = [bank EXCEPT ![p] = d] /\ recent' = [recent EXCEPT ![p] = r]
    BY <1>4 DEF ResolveGene, RecentInv, BankInv, Banks
  <2> HIDE DEF b
  <2>3. r \in [Signatures -> Nat]
    BY <2>1
  <2>4. DOMAIN d = DOMAIN b /\ Active(d) = Active(b) \ {i} /\ \A j \in Active(d) : d[j] = b[j]
    <3>1. i \in DOMAIN b /\ b[i] \in Gene
      BY <2>1, ActiveIn, GenesOf
    <3>2. Resolved(b[i]).status # "active"
      BY <3>1 DEF Resolved, Gene
    <3>3. DOMAIN d = DOMAIN b /\ d[i] = Resolved(b[i]) /\ \A j \in DOMAIN b : j # i => d[j] = b[j]
      BY <3>1
    <3> HIDE DEF d
    <3> QED
      BY <3>2, <3>3 DEF Active
  <2> HIDE DEF d
  <2>5. ASSUME NEW s \in Signatures PROVE Known(d, s, r[s])
    <3>1. recent[p][s] \in Nat /\ Known(b, s, recent[p][s])
      BY <2>1
    <3>2. Known(d, s, IF Knows(b, i, s) THEN 0 ELSE recent[p][s])
      BY <2>1, <2>4, <3>1, ResolvedKnows
    <3> QED
      BY <3>2
  <2> HIDE DEF r
  <2> QED
    BY <2>2, <2>3, <2>5, OneRecent
<1>5. ASSUME NEW p \in Processes, NEW id \in Ids, NEW s \in Signals, BankFailure(p, id, s)
      PROVE  RecentInv'
  <2> DEFINE n == IF Dropped(bank[p], s) THEN 0 ELSE 1
             b == Bank(bank[p], id, s)
  <2>1. bank' = [bank EXCEPT ![p] = b] /\ recent' = [recent EXCEPT ![p][s] = @ + n]
    BY <1>5 DEF BankFailure, Expect
  <2>2. KnowsMore(bank[p], b, s, n) /\ n \in Nat
    BY IdsAssumption, BankKnows DEF BankInv, Banks
  <2> HIDE DEF n, b
  <2> QED
    BY <2>1, <2>2, MoreRecent
<1>6. ASSUME NEW p \in Processes, NEW id \in Ids, NEW s \in Signatures, StartLoop(p, id, s)
      PROVE  RecentInv'
  BY <1>5, <1>6 DEF StartLoop, Signatures
<1>7. ASSUME NEW p \in Processes, NEW id \in Ids, RepairFails(p, id) PROVE RecentInv'
  <2>1. signal[p] \in Signals
    BY <1>7 DEF RepairFails, InLoop, BankInv, AtWork
  <2> QED
    BY <1>1, <1>5, <1>7, <2>1 DEF RepairFails, GoOn
<1>8. ASSUME NEW p \in Processes, NEW id \in Ids, SettleRace(p, id) PROVE RecentInv'
  <2> DEFINE losers == Cardinality(Those(p, "failed"))
             s == signal[p]
             n == IF Dropped(bank[p], s) THEN 0 ELSE losers
             b == BankAll(bank[p], id, s, losers)
  <2>1. s \in Signals /\ id \in Nat /\ bank[p] \in Seq(Gene)
    BY <1>8, IdsAssumption DEF SettleRace, BankInv, Banks, AtWork
  <2>2. bank' = [bank EXCEPT ![p] = b] /\ recent' = [recent EXCEPT ![p][s] = @ + n]
    BY <1>8 DEF SettleRace, Expect
  <2>3. losers \in Nat
    BY LosersCount
  <2> HIDE DEF losers, s
  <2>4. KnowsMore(bank[p], b, s, n) /\ n \in Nat
    BY <2>1, <2>3, BankAllCounts
  <2> HIDE DEF n, b
  <2> QED
    BY <2>2, <2>4, MoreRecent
<1>9. ASSUME NEW p \in Processes, Exit(p) PROVE RecentInv'
  BY <1>9, NoneKnown, OneRecent DEF Exit
<1> QED
  BY <1>1, <1>2, <1>3, <1>4, <1>6, <1>7, <1>8, <1>9
     DEF DebugNext, Looping, Racing, SaveBank, NoUsableProposal, ProposalRefused,
         RepairValidated, StartRace, CandidateEnds, LeaveToHuman, CandidateThrows, debugVars

LEMMA RecentInvariant == DebugSpec => [](BankInv /\ RecentInv)
<1>1. DebugInit => RecentInv
  BY NoneKnown DEF DebugInit, RecentInv
<1> QED
  BY <1>1, DebugInitially, DebugKept, RecentKept, PTL DEF DebugSpec

(* A failure that has recurred to the threshold is escalated before any    *)
(* repair of it, whatever it was merged into and with whatever its gene    *)
(* was consolidated: the first active gene it hits counts it.              *)
THEOREM Escalates == DebugSpec => RecurringEscalates
<1> DEFINE Early ==
      \A p \in Processes :
        pc[p] = "idle" /\ pc'[p] = "loop" =>
          \/ recent'[p][signal'[p]] < RecurringThreshold
          \/ LET hits == Hits(bank'[p], signal'[p])
             IN  \E i \in hits \ Active(bank'[p]) : \A j \in hits : i <= j
<1>1. (BankInv /\ RecentInv)' /\ BankInv /\ DebugNext => Early
  <2> SUFFICES ASSUME BankInv, BankInv', RecentInv', DebugNext, NEW p \in Processes,
                      pc[p] = "idle", pc'[p] = "loop",
                      ~(recent'[p][signal'[p]] < RecurringThreshold)
               PROVE  LET hits == Hits(bank'[p], signal'[p])
                      IN  \E i \in hits \ Active(bank'[p]) : \A j \in hits : i <= j
    OBVIOUS
  <2>1. pc \in [Processes -> {"off", "idle", "loop", "escalated", "race"}]
    BY DEF BankInv, Banks
  <2>2. \E id \in Ids, s \in Signatures : StartLoop(p, id, s)
    BY <2>1 DEF DebugNext, Looping, Racing, LoadBank, SaveBank, ConsolidateBank, ResolveGene,
       StartLoop, NoUsableProposal, ProposalRefused, RepairValidated, RepairFails, GoOn, InLoop,
       EndLoop, LeaveToHuman, StartRace, CandidateEnds, CandidateThrows, EndRace, SettleRace, Exit
  <2>3. PICK id \in Ids, s \in Signatures : StartLoop(p, id, s)
    BY <2>2
  <2> DEFINE b == bank'[p]
             hits == Hits(b, s)
             n == recent'[p][s]
  <2>4. /\ b \in Seq(Gene) /\ signal'[p] = s /\ n \in Nat /\ n >= RecurringThreshold
        /\ Known(b, s, n)
    <3>1. signal'[p] = s
      BY <2>3 DEF BankInv, StartLoop, AtWork
    <3>2. b \in Seq(Gene) /\ n \in Nat
      BY DEF BankInv, Banks, RecentInv
    <3>3. Known(b, s, n)
      BY DEF RecentInv, Known, Knows, Hits, Active
    <3> QED
      BY <3>1, <3>2, <3>3, LimitsAssumption
  <2>5. ~Systemic(b, s)
    BY <2>1, <2>3 DEF StartLoop, EndLoop
  <2> HIDE DEF b, n
  <2>6. /\ hits \subseteq Nat /\ hits \subseteq DOMAIN b
        /\ \A i \in DOMAIN b : b[i].count \in Nat
    BY <2>4, ActiveIn, GenesOf DEF Hits
  <2>7. RecurringThreshold > 0 /\ hits # {}
    <3>1. RecurringThreshold > 0
      <4> SUFFICES ASSUME RecurringThreshold = 0 PROVE FALSE
        BY LimitsAssumption
      <4>1. First(hits) \in DOMAIN b \/ hits = {}
        BY <2>6, FirstIs
      <4> QED
        BY <2>5, <2>6, <4>1 DEF Systemic
    <3> QED
      BY <2>4, <3>1, LimitsAssumption DEF Known, Knows
  <2>8. PICK i \in Active(b) : Knows(b, i, s) /\ b[i].count >= n
    BY <2>4, <2>7, LimitsAssumption DEF Known
  <2>9. First(hits) \in hits /\ \A j \in hits : First(hits) <= j
    BY <2>6, <2>7, FirstIs
  <2>10. First(hits) \notin Active(b)
    <3> SUFFICES ASSUME First(hits) \in Active(b) PROVE FALSE
      OBVIOUS
    <3>1. First(hits) = i
      BY <2>6, <2>8, <2>9 DEF Knows
    <3>2. b[i].count >= RecurringThreshold
      BY <2>4, <2>6, <2>8, <2>9, <3>1, LimitsAssumption
    <3> QED
      BY <2>5, <2>7, <3>1, <3>2 DEF Systemic
  <2> QED
    BY <2>4, <2>9, <2>10 DEF b
<1>2. DebugSpec => [][Early]_debugVars
  <2> HIDE DEF Early
  <2> QED
    BY <1>1, RecentInvariant, PTL DEF DebugSpec
<1> QED
  BY <1>2 DEF RecurringEscalates

(* Consolidation separates, whatever the bank held.                        *)
THEOREM Consolidates == DebugSpec => ConsolidationSeparates
<1> DEFINE Separated ==
      \A p \in Processes :
        ConsolidateBank(p) => Distinct(bank'[p]) /\ Active(bank'[p]) = DOMAIN bank'[p]
<1>1. BankInv => Separated
  <2> SUFFICES ASSUME BankInv, NEW p \in Processes, ConsolidateBank(p)
               PROVE  Distinct(bank'[p]) /\ Active(bank'[p]) = DOMAIN bank'[p]
    OBVIOUS
  <2>1. bank[p] \in Seq(Gene) /\ bank'[p] = Consolidated(bank[p])
    BY DEF BankInv, Banks, ConsolidateBank
  <2> QED
    BY <2>1, ConsolidatedIs DEF AllActive
<1>2. DebugSpec => [][Separated]_debugVars
  <2> HIDE DEF Separated
  <2> QED
    BY <1>1, BankInvariant, PTL DEF DebugSpec
<1> QED
  BY <1>2 DEF ConsolidationSeparates
-----------------------------------------------------------------------------
(* The context window.  What a window is made of stays what it was made of *)
(* through every compaction: cutting a piece short and joining texts leave *)
(* a set of pieces that is closed under them.                              *)

Closed(K) ==
  /\ K \subseteq Piece
  /\ \A n \in Nat : Plain(n) \in K
  /\ \A p \in K, n \in Nat : CutPiece(p, n) \in K /\ [p EXCEPT !.length = n] \in K

TurnsOf(K) == [n : Nat, content : Seq(K), tokens : Nat, pinned : BOOLEAN]

(* Denied pieces tell so at their head; pieces that are not denied.        *)
Telling == {p \in Piece : p.denied => p.mark = "head"}
Innocent == {p \in Piece : ~p.denied}

WindowInv ==
  /\ said \in Nat
  /\ turns \in Seq(TurnsOf(Piece))
  /\ ~lateMark => turns \in Seq(TurnsOf(Telling))

LEMMA ClosedKinds == Closed(Piece) /\ Closed(Telling) /\ Closed(Innocent)
BY DEF Closed, Telling, Innocent, Piece, Marks, Plain, CutPiece

LEMMA LengthIs == ASSUME NEW p \in Piece PROVE p.length \in Nat
BY DEF Piece

LEMMA LengthType ==
  ASSUME NEW c \in Seq(Piece)
  PROVE  Length(c) \in Nat /\ Tokens(Length(c)) \in Nat
<1> DEFINE s == [i \in DOMAIN c |-> c[i].length]
<1>1. s \in Seq(Nat)
  <2>1. Len(c) \in Nat /\ DOMAIN c = 1..Len(c) /\ \A i \in 1..Len(c) : c[i] \in Piece
    OBVIOUS
  <2>2. \A i \in 1..Len(c) : c[i].length \in Nat
    BY <2>1, LengthIs
  <2> QED
    BY <2>1, <2>2, IsASeq
<1>2. Length(c) \in Nat
  <2> HIDE DEF s
  <2>1. Total(s) \in Nat
    BY <1>1, TotalIs
  <2> QED
    BY <2>1 DEF s, Length
<1> QED
  BY <1>2 DEF Tokens

LEMMA AtRateType == ASSUME NEW l \in Nat PROVE AtRate(l) \in Nat
<1>1. l * RateFloor \in Nat
  BY WindowAssumption, Products
<1> QED
  BY <1>1 DEF AtRate

(* What is taken of a text is of the kinds the text was of.                *)
LEMMA SliceIs ==
  ASSUME NEW K, Closed(K), NEW c \in Seq(K), NEW size \in Nat
  PROVE  Slice(c, size) \in Seq(K)
<1> DEFINE N == Len(c)
           base == [left |-> size, taken |-> <<>>]
           Kept(f) == f = [n \in 0..N |-> IF n = 0 THEN base ELSE Take(f[n - 1], c[n])]
           slice == CHOOSE f : Kept(f)
           R == [left : Nat, taken : Seq(K)]
           step == [p \in (1..N) \X R |-> Take(p[2], c[p[1]])]
<1>1. N \in Nat /\ \A n \in 1..N : c[n] \in K
  OBVIOUS
<1>2. Slice(c, size) = slice[N].taken
  BY DEF Slice
<1>3. base \in R
  OBVIOUS
<1>4. ASSUME NEW r \in R, NEW p \in K PROVE Take(r, p) \in R
  <2>1. r.left \in Nat /\ r.taken \in Seq(K) /\ p.length \in Nat
    BY DEF Closed, Piece
  <2>2. CutPiece(p, r.left) \in K
    BY <2>1 DEF Closed
  <2>3. Append(r.taken, CutPiece(p, r.left)) \in Seq(K)
    BY <2>1, <2>2, AppendedIs
  <2>4. (IF p.length <= r.left THEN r.left - p.length ELSE 0) \in Nat
    BY <2>1
  <2> QED
    BY <2>3, <2>4 DEF Take
<1> HIDE DEF N, base, R
<1>5. \E f : Kept(f)
  <2>1. step \in [(1..N) \X R -> R] /\ \A n \in 1..N, k \in R : step[<<n, k>>] = Take(k, c[n])
    BY <1>1, <1>4
  <2> HIDE DEF step
  <2>2. Recursive(R, base, N, step)
    BY <1>1, <1>3, <2>1, Recursion
  <2>3. PICK f \in [0..N -> R] : f[0] = base /\ \A n \in 1..N : f[n] = step[<<n, f[n - 1]>>]
    BY <2>2 DEF Recursive
  <2>4. ASSUME NEW n \in 0..N PROVE f[n] = IF n = 0 THEN base ELSE Take(f[n - 1], c[n])
    <3>1. CASE n = 0
      BY <2>3, <3>1
    <3>2. CASE n # 0
      <4>1. n \in 1..N /\ n - 1 \in 0..N
        BY <1>1, <3>2
      <4>2. f[n - 1] \in R
        BY <2>3, <4>1
      <4> QED
        BY <2>1, <2>3, <3>2, <4>1, <4>2
    <3> QED
      BY <3>1, <3>2
  <2> QED
    BY <2>3, <2>4
<1> HIDE DEF Kept
<1>6. Kept(slice)
  BY <1>5
<1> HIDE DEF slice
<1> DEFINE Typed == {n \in Nat : n <= N => slice[n] \in R}
<1>7. 0 \in Typed
  BY <1>1, <1>3, <1>6 DEF Kept
<1>8. ASSUME NEW n \in Nat, n \in Typed PROVE n + 1 \in Typed
  <2> SUFFICES ASSUME n + 1 <= N PROVE slice[n + 1] \in R
    OBVIOUS
  <2>1. n + 1 \in 0..N /\ n + 1 \in 1..N /\ n + 1 # 0 /\ (n + 1) - 1 = n /\ slice[n] \in R
    BY <1>1, <1>8
  <2>2. slice[n + 1] = Take(slice[n], c[n + 1])
    BY <1>6, <2>1 DEF Kept
  <2> QED
    BY <1>1, <1>4, <2>1, <2>2
<1> HIDE DEF Typed
<1>9. N \in Typed
  BY <1>1, <1>7, <1>8, SetInduction
<1> QED
  BY <1>1, <1>2, <1>9 DEF Typed, R

LEMMA JoinedIs ==
  ASSUME NEW K, Closed(K), NEW w \in Seq(TurnsOf(K))
  PROVE  Joined(w) \in Seq(K)
<1> DEFINE N == Len(w)
           Kept(f) == f = [n \in 0..N |-> IF n = 0 THEN <<>> ELSE Spaced(f[n - 1]) \o w[n].content]
           text == CHOOSE f : Kept(f)
           R == Seq(K)
           step == [p \in (1..N) \X R |-> Spaced(p[2]) \o w[p[1]].content]
<1>1. N \in Nat /\ \A n \in 1..N : w[n].content \in Seq(K)
  <2>1. N \in Nat /\ \A n \in 1..N : w[n] \in TurnsOf(K)
    OBVIOUS
  <2> QED
    BY <2>1 DEF TurnsOf
<1>2. Joined(w) = text[N]
  BY DEF Joined
<1>3. ASSUME NEW c \in Seq(K), NEW d \in Seq(K) PROVE Spaced(c) \o d \in Seq(K)
  <2>1. CASE c = <<>>
    BY <2>1 DEF Spaced
  <2>2. CASE c # <<>>
    <3>1. Len(c) \in 1..Len(c) /\ c[Len(c)] \in K
      BY <2>2
    <3>2. c[Len(c)].length + 1 \in Nat
      BY <3>1, LengthIs DEF Closed
    <3>3. [c[Len(c)] EXCEPT !.length = c[Len(c)].length + 1] \in K
      BY <3>1, <3>2 DEF Closed
    <3>4. [c EXCEPT ![Len(c)] = [c[Len(c)] EXCEPT !.length = c[Len(c)].length + 1]] \in Seq(K)
      BY <3>1, <3>3, ExceptSeq
    <3>5. Spaced(c) = [c EXCEPT ![Len(c)] = [c[Len(c)] EXCEPT !.length = c[Len(c)].length + 1]]
      BY <2>2 DEF Spaced
    <3>6. Spaced(c) \in Seq(K)
      BY <3>4, <3>5
    <3> QED
      BY <3>6
  <2> QED
    BY <2>1, <2>2
<1>4. <<>> \in R
  OBVIOUS
<1> HIDE DEF N
<1>5. \E f : Kept(f)
  <2>1. /\ step \in [(1..N) \X R -> R]
        /\ \A n \in 1..N, k \in R : step[<<n, k>>] = Spaced(k) \o w[n].content
    <3>1. \A n \in 1..N, k \in R : Spaced(k) \o w[n].content \in R
      BY <1>1, <1>3
    <3> HIDE DEF R
    <3> QED
      BY <3>1
  <2> HIDE DEF step, R
  <2>2. Recursive(R, <<>>, N, step)
    BY <1>1, <1>4, <2>1, Recursion
  <2>3. PICK f \in [0..N -> R] : f[0] = <<>> /\ \A n \in 1..N : f[n] = step[<<n, f[n - 1]>>]
    BY <2>2 DEF Recursive
  <2>4. ASSUME NEW n \in 0..N
        PROVE  f[n] = IF n = 0 THEN <<>> ELSE Spaced(f[n - 1]) \o w[n].content
    <3>1. CASE n = 0
      BY <2>3, <3>1
    <3>2. CASE n # 0
      <4>1. n \in 1..N /\ n - 1 \in 0..N
        BY <1>1, <3>2
      <4>2. f[n - 1] \in R
        BY <2>3, <4>1
      <4> QED
        BY <2>1, <2>3, <3>2, <4>1, <4>2
    <3> QED
      BY <3>1, <3>2
  <2> QED
    BY <2>3, <2>4
<1> HIDE DEF Kept
<1>6. Kept(text)
  BY <1>5
<1> HIDE DEF text
<1> DEFINE Typed == {n \in Nat : n <= N => text[n] \in R}
<1>7. 0 \in Typed
  BY <1>1, <1>4, <1>6 DEF Kept
<1>8. ASSUME NEW n \in Nat, n \in Typed PROVE n + 1 \in Typed
  <2> SUFFICES ASSUME n + 1 <= N PROVE text[n + 1] \in R
    OBVIOUS
  <2>1. n + 1 \in 0..N /\ n + 1 \in 1..N /\ n + 1 # 0 /\ (n + 1) - 1 = n /\ text[n] \in R
    BY <1>1, <1>8
  <2>2. text[n + 1] = Spaced(text[n]) \o w[n + 1].content
    BY <1>6, <2>1 DEF Kept
  <2> QED
    BY <1>1, <1>3, <2>1, <2>2
<1> HIDE DEF Typed
<1>9. N \in Typed
  BY <1>1, <1>7, <1>8, SetInduction
<1> QED
  BY <1>1, <1>2, <1>9 DEF Typed

LEMMA TurnIs ==
  ASSUME NEW K, Closed(K), NEW n \in Nat, NEW c \in Seq(K), NEW pinned \in BOOLEAN
  PROVE  Turn(n, c, pinned) \in TurnsOf(K)
<1>1. c \in Seq(Piece)
  <2>1. K \subseteq Piece
    BY DEF Closed
  <2> QED
    BY <2>1, SeqMonotonic
<1>2. Tokens(Length(c)) \in Nat
  BY <1>1, LengthType
<1> QED
  BY <1>2 DEF Turn, TurnsOf

(* A text that is cut short and ends with the words of a summary.          *)
LEMMA CutShort ==
  ASSUME NEW K, Closed(K), NEW c \in Seq(K), NEW least \in Nat, NEW l \in Nat
  PROVE  /\ Append(Slice(c, Larger(least, AtRate(Length(c)))), Plain(l)) \in Seq(K)
         /\ Larger(least, AtRate(Length(c))) \in Nat
<1>1. K \subseteq Piece /\ Plain(l) \in K
  BY DEF Closed
<1>2. AtRate(Length(c)) \in Nat
  <2>1. c \in Seq(Piece)
    BY <1>1, SeqMonotonic
  <2> QED
    BY <2>1, LengthType, AtRateType
<1>3. Larger(least, AtRate(Length(c))) \in Nat
  BY <1>2 DEF Larger
<1>4. Slice(c, Larger(least, AtRate(Length(c)))) \in Seq(K)
  BY <1>3, SliceIs
<1> QED
  BY <1>1, <1>3, <1>4, AppendedIs

LEMMA SummaryOfTurn ==
  ASSUME NEW K, Closed(K), NEW t \in TurnsOf(K)
  PROVE  SummarizeTurn(t) \in TurnsOf(K)
<1>1. t.content \in Seq(K) /\ t.n \in Nat
  BY DEF TurnsOf
<1>2. Append(Slice(t.content, Larger(50, AtRate(Length(t.content)))), Plain(12)) \in Seq(K)
  BY <1>1, 50 \in Nat, 12 \in Nat, CutShort
<1> QED
  BY <1>1, <1>2, TurnIs DEF SummarizeTurn

LEMMA MergedTurns ==
  ASSUME NEW K, Closed(K), NEW w \in Seq(TurnsOf(K))
  PROVE  MergeAndSummarize(w) \in Seq(TurnsOf(K))
<1>1. CASE w = <<>>
  BY <1>1 DEF MergeAndSummarize
<1>2. CASE w # <<>>
  <2> DEFINE target == Larger(100, AtRate(Length(Joined(w))))
             c == Append(Slice(Joined(w), target), Plain(18))
  <2>1. c \in Seq(K) /\ target \in Nat
    BY JoinedIs, CutShort, 100 \in Nat, 18 \in Nat
  <2>2. MergeAndSummarize(w) =
          <<[n |-> 0, content |-> c, tokens |-> Tokens(target + 18), pinned |-> FALSE]>>
    BY <1>2 DEF MergeAndSummarize
  <2> HIDE DEF c, target
  <2>3. Tokens(target + 18) \in Nat
    BY <2>1 DEF Tokens
  <2> QED
    BY <2>1, <2>2, <2>3 DEF TurnsOf
<1> QED
  BY <1>1, <1>2

LEMMA PickedTurns ==
  ASSUME NEW K, NEW w \in Seq(TurnsOf(K)), NEW P
  PROVE  Picked(w, P) \in Seq(TurnsOf(K))
<1>1. \A n \in DOMAIN w \cap P : w[n] \in TurnsOf(K)
  OBVIOUS
<1> QED
  BY <1>1, PickedIs

(* A compaction leaves a window of the kinds of pieces it was of.          *)
LEMMA Compacted ==
  ASSUME NEW K, Closed(K), NEW w \in Seq(TurnsOf(K))
  PROVE  CompactContextWindow(w) \in Seq(TurnsOf(K))
<1> DEFINE level1 == CompressLargeNodes(w, NodeThreshold)
           level2 == IF Crowded(level1) THEN CompressChain(level1) ELSE level1
<1>1. level1 \in Seq(TurnsOf(K))
  <2>1. Len(w) \in Nat /\ DOMAIN w = 1..Len(w)
    OBVIOUS
  <2>2. ASSUME NEW i \in 1..Len(w) PROVE level1[i] \in TurnsOf(K)
    <3>1. w[i] \in TurnsOf(K)
      OBVIOUS
    <3>2. SummarizeTurn(w[i]) \in TurnsOf(K)
      BY <3>1, SummaryOfTurn
    <3>3. [w[i] EXCEPT !.pinned = TRUE] \in TurnsOf(K)
      BY <3>1 DEF TurnsOf
    <3>4. level1[i] \in {w[i], [w[i] EXCEPT !.pinned = TRUE], SummarizeTurn(w[i])}
      BY <2>1 DEF CompressLargeNodes
    <3> QED
      BY <3>1, <3>2, <3>3, <3>4
  <2>3. level1 = [i \in 1..Len(w) |-> level1[i]]
    BY <2>1 DEF CompressLargeNodes
  <2> HIDE DEF level1
  <2> QED
    BY <2>1, <2>2, <2>3, IsASeq
<1>2. level2 \in Seq(TurnsOf(K))
  <2> HIDE DEF level1
  <2>1. Pinned(level1) \in Seq(TurnsOf(K)) /\ Unpinned(level1) \in Seq(TurnsOf(K))
    BY <1>1, PickedTurns DEF Pinned, Unpinned
  <2>2. MergeAndSummarize(Unpinned(level1)) \in Seq(TurnsOf(K))
    BY <2>1, MergedTurns
  <2>3. CompressChain(level1) \in Seq(TurnsOf(K))
    BY <2>1, <2>2, ConcatProperties DEF CompressChain
  <2> QED
    BY <1>1, <2>3
<1>3. CompactContextWindow(w) = ApplySlidingWindow(level2)
  BY DEF CompactContextWindow
<1> HIDE DEF level1, level2
<1> QED
  BY <1>2, <1>3, PickedTurns DEF ApplySlidingWindow

LEMMA WindowInitially == WindowInit => WindowInv
BY DEF WindowInit, WindowInv

LEMMA WindowKept == WindowInv /\ [WindowNext]_windowVars => WindowInv'
<1> SUFFICES ASSUME WindowInv, [WindowNext]_windowVars PROVE WindowInv'
  OBVIOUS
<1>1. CASE UNCHANGED windowVars
  BY <1>1 DEF windowVars, WindowInv
<1>2. ASSUME NEW p \in Pieces, Say(p) PROVE WindowInv'
  <2> DEFINE t == Turn(said', <<p>>, FALSE)
  <2>1. said' \in Nat /\ turns' = Append(turns, t)
    BY <1>2 DEF Say, WindowInv
  <2>2. p \in Piece /\ (p.denied => p.mark # "none")
    BY PiecesAssumption
  <2>3. t \in TurnsOf(Piece)
    <3>1. <<p>> \in Seq(Piece) /\ FALSE \in BOOLEAN
      BY <2>2
    <3> QED
      BY <2>1, <3>1, ClosedKinds, TurnIs
  <2>4. ~lateMark' => p \in Telling /\ ~lateMark
    BY <1>2, <2>2 DEF Say, Telling, Piece, Marks
  <2>5. ~lateMark' => t \in TurnsOf(Telling)
    <3> SUFFICES ASSUME ~lateMark' PROVE t \in TurnsOf(Telling)
      OBVIOUS
    <3>1. <<p>> \in Seq(Telling) /\ FALSE \in BOOLEAN
      BY <2>4
    <3> QED
      BY <2>1, <3>1, ClosedKinds, TurnIs
  <2> HIDE DEF t
  <2>6. turns' \in Seq(TurnsOf(Piece))
    BY <2>1, <2>3, AppendedIs DEF WindowInv
  <2>7. ~lateMark' => turns' \in Seq(TurnsOf(Telling))
    BY <2>1, <2>4, <2>5, AppendedIs DEF WindowInv
  <2> QED
    BY <2>1, <2>6, <2>7 DEF WindowInv
<1>3. ASSUME NEW section \in BOOLEAN, Compact(section) PROVE WindowInv'
  <2> DEFINE front == IF section THEN <<Turn(0, <<Plain(SectionLength)>>, TRUE)>> ELSE <<>>
  <2>1. /\ turns' = CompactContextWindow(front \o turns)
        /\ UNCHANGED <<said, lateMark>>
    BY <1>3 DEF Compact
  <2>2. ASSUME NEW K, Closed(K) PROVE front \in Seq(TurnsOf(K))
    <3>1. Plain(SectionLength) \in K
      BY <2>2, WindowAssumption DEF Closed
    <3>2. Turn(0, <<Plain(SectionLength)>>, TRUE) \in TurnsOf(K)
      <4>1. <<Plain(SectionLength)>> \in Seq(K) /\ TRUE \in BOOLEAN /\ 0 \in Nat
        BY <3>1
      <4> QED
        BY <2>2, <4>1, TurnIs
    <3> DEFINE t == Turn(0, <<Plain(SectionLength)>>, TRUE)
    <3> HIDE DEF t
    <3>3. <<t>> \in Seq(TurnsOf(K)) /\ <<>> \in Seq(TurnsOf(K))
      <4>1. t \in TurnsOf(K)
        BY <3>2 DEF t
      <4> QED
        BY <4>1
    <3>4. front = <<t>> \/ front = <<>>
      BY DEF t
    <3> QED
      BY <3>3, <3>4
  <2> HIDE DEF front
  <2>3. ASSUME NEW K, Closed(K), turns \in Seq(TurnsOf(K)) PROVE turns' \in Seq(TurnsOf(K))
    <3>1. front \o turns \in Seq(TurnsOf(K))
      BY <2>2, <2>3, ConcatProperties
    <3> QED
      BY <2>1, <2>3, <3>1, Compacted
  <2> QED
    BY <2>1, <2>3, ClosedKinds DEF WindowInv
<1> QED
  BY <1>1, <1>2, <1>3 DEF WindowNext

(* A summary is made of what the turns without a mark are made of.         *)
LEMMA SummaryIs ==
  ASSUME NEW K, NEW L, Closed(K), Closed(L), turns \in Seq(TurnsOf(K)),
         \A t \in TurnsOf(K) : ~Marked(t) => t \in TurnsOf(L)
  PROVE  OwnSummary \in Seq(L)
<1> DEFINE clean == Picked(turns, {k \in DOMAIN turns : ~Marked(turns[k])})
           shown(t) == IF t.pinned \/ t.tokens = 0 THEN t ELSE SummarizeTurn(t)
           w == [k \in DOMAIN clean |-> shown(clean[k])]
<1>1. clean \in Seq(TurnsOf(L))
  <2>1. \A k \in DOMAIN turns \cap {k \in DOMAIN turns : ~Marked(turns[k])} :
           turns[k] \in TurnsOf(L)
    OBVIOUS
  <2> QED
    BY <2>1, PickedIs
<1>2. OwnSummary = Joined(w)
  BY DEF OwnSummary
<1> HIDE DEF clean
<1>3. \A k \in 1..Len(clean) : shown(clean[k]) \in TurnsOf(L)
  BY <1>1, SummaryOfTurn
<1>4. w \in Seq(TurnsOf(L))
  <2>1. Len(clean) \in Nat /\ DOMAIN clean = 1..Len(clean)
    BY <1>1
  <2> HIDE DEF shown
  <2> QED
    BY <1>3, <2>1, IsASeq
<1> HIDE DEF w
<1> QED
  BY <1>2, <1>4, JoinedIs

(* The summary of a developer's previous story holds nothing of a denied   *)
(* kind while the words that mark it stand at the head of what was said,   *)
(* whatever the thresholds, the rate and the number of compactions.        *)
THEOREM Clean == WindowSpec => []SummaryClean
<1>1. WindowInv => SummaryClean
  <2> SUFFICES ASSUME WindowInv, ~lateMark, NEW i \in DOMAIN OwnSummary
               PROVE  ~OwnSummary[i].denied
    BY DEF SummaryClean
  <2>1. turns \in Seq(TurnsOf(Telling))
    BY DEF WindowInv
  <2>2. ASSUME NEW t \in TurnsOf(Telling), ~Marked(t) PROVE t \in TurnsOf(Innocent)
    <3>1. t.content \in Seq(Telling)
      BY DEF TurnsOf
    <3>2. \A k \in 1..Len(t.content) : t.content[k] \in Innocent
      BY <2>2, <3>1 DEF Marked, Telling, Innocent
    <3>3. t.content \in Seq(Innocent)
      BY <3>1, <3>2
    <3> QED
      BY <3>3 DEF TurnsOf
  <2>3. OwnSummary \in Seq(Innocent)
    BY <2>1, <2>2, ClosedKinds, SummaryIs
  <2>4. OwnSummary[i] \in Innocent
    BY <2>3
  <2> QED
    BY <2>4 DEF Innocent
<1> QED
  BY <1>1, WindowInitially, WindowKept, PTL DEF WindowSpec
-----------------------------------------------------------------------------
(* Packets: the sort and the cut.                                          *)

(* The order of sections: by priority.                                     *)
Rising == {x \in ArtifactRef \X ArtifactRef : x[1].priority <= x[2].priority}

(* A relation that holds between sections of different priorities.         *)
AcrossPriorities(Q) == \A x, y \in ArtifactRef : x.priority < y.priority => <<x, y>> \in Q

LEMMA RefIs == ASSUME NEW e \in ArtifactRef
               PROVE  e.tokens \in Nat /\ e.priority \in Nat
BY DEF ArtifactRef

LEMMA InsertedIs ==
  ASSUME NEW s \in Seq(ArtifactRef), NEW e \in ArtifactRef
  PROVE  /\ Inserted(s, e) \in Seq(ArtifactRef)
         /\ Range(Inserted(s, e)) = Range(s) \cup {e}
         /\ \A Q : AcrossPriorities(Q) /\ Pairwise(s, Q) /\ (\A x \in Range(s) : <<x, e>> \in Q)
                   => Pairwise(Inserted(s, e), Q)
         /\ Pairwise(s, Rising) => Pairwise(Inserted(s, e), Rising)
<1> DEFINE Low == {x \in ArtifactRef : x.priority <= e.priority}
           High == {x \in ArtifactRef : x.priority > e.priority}
           low == Select(s, Low)
           high == Select(s, High)
<1>1. \A i \in DOMAIN s : s[i] \in ArtifactRef
  OBVIOUS
<1>2. /\ {i \in DOMAIN s : s[i].priority <= e.priority} = {i \in DOMAIN s : s[i] \in Low}
      /\ {i \in DOMAIN s : s[i].priority > e.priority} = {i \in DOMAIN s : s[i] \in High}
  BY <1>1
<1>3. Inserted(s, e) = low \o <<e>> \o high
  BY <1>2 DEF Inserted, Select
<1>4. ArtifactRef \cap Low = Low /\ ArtifactRef \cap High = High
  OBVIOUS
<1>5. /\ low \in Seq(Low) /\ Range(low) = Range(s) \cap Low
      /\ high \in Seq(High) /\ Range(high) = Range(s) \cap High
  BY <1>4, SelectIs, SelectRange
<1>6. \A Q : Pairwise(s, Q) => Pairwise(low, Q) /\ Pairwise(high, Q)
  BY SelectPairwise
<1>7. Low \cup High = ArtifactRef /\ \A x \in Low, y \in High : x.priority < y.priority
  BY RefIs
<1>8. \A y \in High : e.priority < y.priority
  BY RefIs
<1>9. Low \subseteq ArtifactRef /\ High \subseteq ArtifactRef
      /\ \A x \in Low : x.priority <= e.priority
  OBVIOUS
<1>10. Range(s) \subseteq ArtifactRef
  BY DEF Range
<1> HIDE DEF low, high, Low, High
<1> DEFINE front == low \o <<e>>
<1>11. low \in Seq(ArtifactRef) /\ high \in Seq(ArtifactRef)
  BY <1>5, <1>9
<1>12. front \in Seq(ArtifactRef) /\ Range(front) = Range(low) \cup {e} /\ front = Append(low, e)
  <2>1. front = Append(low, e)
    BY <1>11, AppendIsConcat DEF front
  <2>2. Append(low, e) \in Seq(ArtifactRef) /\ Range(Append(low, e)) = Range(low) \cup {e}
    BY <1>11, AppendedIs
  <2> QED
    BY <2>1, <2>2
<1> HIDE DEF front
<1>13. \A Q : Pairwise(front, Q) <=> Pairwise(low, Q) /\ \A x \in Range(low) : <<x, e>> \in Q
  <2>1. \A Q : Pairwise(Append(low, e), Q)
               <=> Pairwise(low, Q) /\ \A x \in Range(low) : <<x, e>> \in Q
    BY <1>11, PairwiseAppend
  <2> QED
    BY <1>12, <2>1
<1>14. Inserted(s, e) = front \o high
  BY <1>3 DEF front
<1>15. front \o high \in Seq(ArtifactRef) /\ Range(front \o high) = Range(front) \cup Range(high)
  <2>1. front \in Seq(ArtifactRef)
    BY <1>12
  <2>2. front \o high \in Seq(ArtifactRef)
    BY <1>11, <2>1
  <2>3. Range(front \o high) = Range(front) \cup Range(high)
    BY <1>11, <2>1, RangeConcatenation
  <2> QED
    BY <2>2, <2>3
<1>16. \A Q : Pairwise(front \o high, Q) <=> /\ Pairwise(front, Q) /\ Pairwise(high, Q)
                                           /\ \A x \in Range(front), y \in Range(high) : <<x, y>> \in Q
  BY <1>11, <1>12, PairwiseConcat
<1>17. \A x \in Range(front), y \in Range(high) :
         x.priority < y.priority /\ x \in ArtifactRef /\ y \in ArtifactRef
  BY <1>5, <1>7, <1>8, <1>9, <1>12
<1>18. ASSUME NEW Q, AcrossPriorities(Q), Pairwise(s, Q), \A x \in Range(s) : <<x, e>> \in Q
       PROVE  Pairwise(Inserted(s, e), Q)
  <2>1. Pairwise(front, Q) /\ Pairwise(high, Q)
    BY <1>5, <1>6, <1>13, <1>18
  <2>2. \A x \in Range(front), y \in Range(high) : <<x, y>> \in Q
    BY <1>17, <1>18 DEF AcrossPriorities
  <2> QED
    BY <1>14, <1>16, <2>1, <2>2
<1>19. ASSUME Pairwise(s, Rising) PROVE Pairwise(Inserted(s, e), Rising)
  <2>1. \A x \in Range(low) : <<x, e>> \in Rising
    BY <1>5, <1>9 DEF Rising
  <2>2. Pairwise(front, Rising) /\ Pairwise(high, Rising)
    BY <1>6, <1>13, <1>19, <2>1
  <2>3. \A x \in Range(front), y \in Range(high) : <<x, y>> \in Rising
    <3> SUFFICES ASSUME NEW x \in Range(front), NEW y \in Range(high) PROVE <<x, y>> \in Rising
      OBVIOUS
    <3>1. x.priority < y.priority /\ x \in ArtifactRef /\ y \in ArtifactRef
      BY <1>17
    <3>2. x.priority <= y.priority
      BY <3>1, RefIs
    <3> QED
      BY <3>1, <3>2 DEF Rising
  <2> QED
    BY <1>14, <1>16, <2>2, <2>3
<1>20. Range(s) = (Range(s) \cap Low) \cup (Range(s) \cap High)
  BY <1>7, <1>10
<1> QED
  BY <1>5, <1>12, <1>14, <1>15, <1>18, <1>19, <1>20

(* Sorting.                                                                *)
LEMMA ByPriorityStep ==
  /\ ByPriority(<<>>) = <<>>
  /\ \A s \in Seq(ArtifactRef) : ByPriority(s) \in Seq(ArtifactRef)
  /\ \A s \in Seq(ArtifactRef), e \in ArtifactRef :
       ByPriority(Append(s, e)) = Inserted(ByPriority(s), e)
<1> DEFINE step == [x \in Seq(ArtifactRef) \X ArtifactRef |-> Inserted(x[1], x[2])]
<1>1. step \in [Seq(ArtifactRef) \X ArtifactRef -> Seq(ArtifactRef)]
  BY InsertedIs
<1>2. \A s \in Seq(ArtifactRef), e \in ArtifactRef : step[<<s, e>>] = Inserted(s, e)
  OBVIOUS
<1>3. \A s : ByPriority(s) = Reduce(s, <<>>, step)
  BY DEF ByPriority
<1>4. <<>> \in Seq(ArtifactRef)
  OBVIOUS
<1> HIDE DEF step
<1>5. StepsOf(ArtifactRef, Seq(ArtifactRef), <<>>, step)
  BY <1>1, <1>4, ReduceIs
<1>6. ByPriority(<<>>) = <<>> /\ \A s \in Seq(ArtifactRef) : ByPriority(s) \in Seq(ArtifactRef)
  BY <1>3, <1>5 DEF StepsOf
<1>7. ASSUME NEW s \in Seq(ArtifactRef), NEW e \in ArtifactRef
      PROVE  ByPriority(Append(s, e)) = Inserted(ByPriority(s), e)
  <2>1. Reduce(Append(s, e), <<>>, step) = step[<<Reduce(s, <<>>, step), e>>]
    BY <1>5 DEF StepsOf
  <2> QED
    BY <1>2, <1>3, <1>6, <2>1
<1> QED
  BY <1>6, <1>7

LEMMA ByPriorityIs ==
  ASSUME NEW s \in Seq(ArtifactRef)
  PROVE  /\ ByPriority(s) \in Seq(ArtifactRef)
         /\ Range(ByPriority(s)) = Range(s)
         /\ Pairwise(ByPriority(s), Rising)
         /\ \A Q : AcrossPriorities(Q) /\ Pairwise(s, Q) => Pairwise(ByPriority(s), Q)
<1> DEFINE Right(u) == /\ Range(ByPriority(u)) = Range(u)
                       /\ Pairwise(ByPriority(u), Rising)
                       /\ \A Q : AcrossPriorities(Q) /\ Pairwise(u, Q) => Pairwise(ByPriority(u), Q)
           P == {u \in Seq(ArtifactRef) : Right(u)}
<1>1. <<>> \in P
  BY ByPriorityStep, PairwiseEmpty
<1>2. ASSUME NEW u \in Seq(ArtifactRef), NEW e \in ArtifactRef, u \in P PROVE Append(u, e) \in P
  <2> DEFINE v == ByPriority(u)
  <2>1. v \in Seq(ArtifactRef) /\ ByPriority(Append(u, e)) = Inserted(v, e)
    BY ByPriorityStep
  <2>2. Range(v) = Range(u) /\ Pairwise(v, Rising)
        /\ \A Q : AcrossPriorities(Q) /\ Pairwise(u, Q) => Pairwise(v, Q)
    BY <1>2
  <2>3. Append(u, e) \in Seq(ArtifactRef) /\ Range(Append(u, e)) = Range(u) \cup {e}
    BY AppendedIs
  <2> HIDE DEF v
  <2>4. Range(Inserted(v, e)) = Range(u) \cup {e} /\ Pairwise(Inserted(v, e), Rising)
    BY <2>1, <2>2, InsertedIs
  <2>5. ASSUME NEW Q, AcrossPriorities(Q), Pairwise(Append(u, e), Q)
        PROVE  Pairwise(Inserted(v, e), Q)
    <3>1. Pairwise(u, Q) /\ \A x \in Range(u) : <<x, e>> \in Q
      BY <2>5, PairwiseAppend
    <3>2. Pairwise(v, Q) /\ \A x \in Range(v) : <<x, e>> \in Q
      BY <2>2, <2>5, <3>1
    <3> QED
      BY <2>1, <2>5, <3>2, InsertedIs
  <2> QED
    BY <2>1, <2>3, <2>4, <2>5
<1>3. s \in P
  <2> HIDE DEF P
  <2> QED
    BY <1>1, <1>2, SequenceInduction
<1> QED
  BY <1>3, ByPriorityStep
-----------------------------------------------------------------------------
(* Tokens.                                                                 *)
LEMMA TokensIs ==
  /\ SectionTokens(<<>>) = 0
  /\ \A s \in Seq(ArtifactRef) : SectionTokens(s) \in Nat
  /\ \A s \in Seq(ArtifactRef), e \in ArtifactRef :
       SectionTokens(Append(s, e)) = SectionTokens(s) + e.tokens
<1> DEFINE counts(s) == [i \in DOMAIN s |-> s[i].tokens]
<1>1. \A s : SectionTokens(s) = Total(counts(s))
  BY DEF SectionTokens
<1>2. counts(<<>>) = <<>>
  OBVIOUS
<1>3. ASSUME NEW s \in Seq(ArtifactRef) PROVE counts(s) \in Seq(Nat)
  <2>1. Len(s) \in Nat /\ DOMAIN s = 1..Len(s) /\ \A i \in 1..Len(s) : s[i] \in ArtifactRef
    OBVIOUS
  <2>2. \A i \in 1..Len(s) : s[i].tokens \in Nat
    BY <2>1, RefIs
  <2> QED
    BY <2>1, <2>2, IsASeq
<1>4. ASSUME NEW s \in Seq(ArtifactRef), NEW e \in ArtifactRef
      PROVE  counts(Append(s, e)) = Append(counts(s), e.tokens)
  <2> DEFINE N == Len(s)
             t == Append(s, e)
             a == counts(s)
             b == counts(t)
             c == Append(a, e.tokens)
  <2>1. /\ N \in Nat /\ t \in Seq(ArtifactRef) /\ Len(t) = N + 1 /\ t[N + 1] = e
        /\ \A i \in 1..N : t[i] = s[i]
    BY AppendedIs
  <2>2. DOMAIN s = 1..N /\ DOMAIN t = 1..(N + 1)
    BY <2>1
  <2>3. a \in Seq(Nat) /\ b \in Seq(Nat) /\ e.tokens \in Nat
    BY <1>3, <2>1, RefIs
  <2>4. Len(a) = N /\ Len(b) = N + 1
    BY <2>1, <2>2
  <2>5. \A i \in 1..N : a[i] = s[i].tokens
    BY <2>2
  <2>6. \A i \in 1..(N + 1) : b[i] = t[i].tokens
    BY <2>2
  <2> HIDE DEF a, b, t, N
  <2>7. c \in Seq(Nat) /\ Len(c) = N + 1 /\ c[N + 1] = e.tokens /\ \A i \in 1..N : c[i] = a[i]
    BY <2>3, <2>4, AppendedIs
  <2>8. \A i \in 1..(N + 1) : c[i] = b[i]
    <3>1. \A i \in 1..(N + 1) : i \in 1..N \/ i = N + 1
      BY <2>1
    <3> HIDE DEF c
    <3> QED
      BY <2>1, <2>5, <2>6, <2>7, <3>1
  <2> HIDE DEF c
  <2>9. b = c
    BY <2>3, <2>4, <2>7, <2>8, SeqEqual
  <2> QED
    BY <2>9 DEF a, b, c, t
<1> HIDE DEF counts
<1>5. ASSUME NEW s \in Seq(ArtifactRef), NEW e \in ArtifactRef
      PROVE  SectionTokens(Append(s, e)) = SectionTokens(s) + e.tokens
  <2>1. e.tokens \in Nat
    BY RefIs
  <2>2. Total(Append(counts(s), e.tokens)) = Total(counts(s)) + e.tokens
    BY <1>3, <2>1, TotalIs
  <2> QED
    BY <1>1, <1>4, <2>2
<1> QED
  BY <1>1, <1>2, <1>3, <1>5, TotalIs

(* What must not be lost to a cut.                                         *)
Protected == {e \in ArtifactRef : e.priority <= 1}
Weight(s) == SectionTokens(Select(s, Protected))

LEMMA ProtectedIs ==
  ASSUME NEW s \in Seq(ArtifactRef)
  PROVE  Protected01(s) = Select(s, Protected)
<1>1. \A i \in DOMAIN s : s[i] \in ArtifactRef
  OBVIOUS
<1>2. {i \in DOMAIN s : s[i].priority <= 1} = {i \in DOMAIN s : s[i] \in Protected}
  BY <1>1 DEF Protected
<1> QED
  BY <1>2 DEF Protected01, Select

LEMMA WeightIs ==
  /\ Weight(<<>>) = 0
  /\ \A s \in Seq(ArtifactRef) : Weight(s) \in Nat
  /\ \A s \in Seq(ArtifactRef), e \in ArtifactRef :
       Weight(Append(s, e)) = Weight(s) + (IF e \in Protected THEN e.tokens ELSE 0)
<1>1. ASSUME NEW s \in Seq(ArtifactRef) PROVE Select(s, Protected) \in Seq(ArtifactRef)
  <2>1. Select(s, Protected) \in Seq(ArtifactRef \cap Protected)
    BY SelectIs
  <2>2. ArtifactRef \cap Protected \subseteq ArtifactRef
    OBVIOUS
  <2> HIDE DEF Protected
  <2> QED
    BY <2>1, <2>2
<1>2. ASSUME NEW s \in Seq(ArtifactRef), NEW e \in ArtifactRef
      PROVE  Weight(Append(s, e)) = Weight(s) + (IF e \in Protected THEN e.tokens ELSE 0)
  <2> DEFINE t == Select(s, Protected)
  <2>1. Select(Append(s, e), Protected) = IF e \in Protected THEN Append(t, e) ELSE t
    BY SelectAppend
  <2>2. t \in Seq(ArtifactRef)
    BY <1>1
  <2> HIDE DEF t
  <2>3. SectionTokens(Append(t, e)) = SectionTokens(t) + e.tokens /\ SectionTokens(t) \in Nat
    BY <2>2, TokensIs
  <2> QED
    BY <2>1, <2>3 DEF Weight, t
<1>3. Weight(<<>>) = 0
  BY SelectEmpty, TokensIs DEF Weight
<1>4. \A s \in Seq(ArtifactRef) : Weight(s) \in Nat
  BY <1>1, TokensIs DEF Weight
<1> QED
  BY <1>2, <1>3, <1>4

LEMMA WeightConcat ==
  ASSUME NEW s \in Seq(ArtifactRef), NEW t \in Seq(ArtifactRef)
  PROVE  Weight(s \o t) = Weight(s) + Weight(t)
<1> DEFINE P == {u \in Seq(ArtifactRef) : Weight(s \o u) = Weight(s) + Weight(u)}
<1>1. <<>> \in P
  <2>1. s \o <<>> = s
    OBVIOUS
  <2> QED
    BY <2>1, WeightIs
<1>2. ASSUME NEW u \in Seq(ArtifactRef), NEW e \in ArtifactRef, u \in P PROVE Append(u, e) \in P
  <2>1. /\ Append(u, e) \in Seq(ArtifactRef) /\ s \o u \in Seq(ArtifactRef)
        /\ s \o Append(u, e) = Append(s \o u, e)
    BY AppendConcat
  <2>2. Weight(Append(s \o u, e)) = Weight(s \o u) + (IF e \in Protected THEN e.tokens ELSE 0)
    BY <2>1, WeightIs
  <2>3. Weight(Append(u, e)) = Weight(u) + (IF e \in Protected THEN e.tokens ELSE 0)
    BY WeightIs
  <2>4. Weight(s \o u) = Weight(s) + Weight(u)
        /\ Weight(s) \in Nat /\ Weight(u) \in Nat /\ e.tokens \in Nat
    BY <1>2, WeightIs, RefIs
  <2>5. Weight(s \o Append(u, e)) = Weight(s) + Weight(Append(u, e))
    <3> DEFINE more == IF e \in Protected THEN e.tokens ELSE 0
    <3>1. more \in Nat
      BY <2>4
    <3> HIDE DEF more
    <3>2. /\ Weight(s \o Append(u, e)) = (Weight(s) + Weight(u)) + more
          /\ Weight(Append(u, e)) = Weight(u) + more
      BY <2>1, <2>2, <2>3, <2>4 DEF more
    <3> QED
      BY <2>4, <3>1, <3>2
  <2> QED
    BY <2>1, <2>5
<1>3. t \in P
  <2> HIDE DEF P
  <2> QED
    BY <1>1, <1>2, SequenceInduction
<1> QED
  BY <1>3

(* Two halves of a sequence weigh what it weighs.                          *)
LEMMA WeightSplit ==
  ASSUME NEW s \in Seq(ArtifactRef), NEW A, NEW B, A \cap B = {}, ArtifactRef \subseteq A \cup B
  PROVE  Weight(s) = Weight(Select(s, A)) + Weight(Select(s, B))
<1> DEFINE P == {u \in Seq(ArtifactRef) : Weight(u) = Weight(Select(u, A)) + Weight(Select(u, B))}
<1>1. <<>> \in P
  BY SelectEmpty, WeightIs
<1>2. ASSUME NEW u \in Seq(ArtifactRef), NEW e \in ArtifactRef, u \in P PROVE Append(u, e) \in P
  <2> DEFINE a == Select(u, A)
             b == Select(u, B)
             more == IF e \in Protected THEN e.tokens ELSE 0
  <2>1. a \in Seq(ArtifactRef \cap A) /\ b \in Seq(ArtifactRef \cap B)
    BY SelectIs
  <2>2. /\ Select(Append(u, e), A) = IF e \in A THEN Append(a, e) ELSE a
        /\ Select(Append(u, e), B) = IF e \in B THEN Append(b, e) ELSE b
    BY SelectAppend
  <2>3. Weight(u) = Weight(a) + Weight(b)
    BY <1>2
  <2>4. more \in Nat
    BY RefIs
  <2> HIDE DEF a, b
  <2>5. a \in Seq(ArtifactRef) /\ b \in Seq(ArtifactRef)
    BY <2>1
  <2>6. /\ Weight(Append(u, e)) = Weight(u) + more
        /\ Weight(Append(a, e)) = Weight(a) + more /\ Weight(Append(b, e)) = Weight(b) + more
        /\ Weight(a) \in Nat /\ Weight(b) \in Nat
    BY <2>5, WeightIs
  <2> HIDE DEF more
  <2>7. Append(u, e) \in Seq(ArtifactRef)
    BY AppendedIs
  <2>8. Weight(Append(u, e)) = Weight(Select(Append(u, e), A)) + Weight(Select(Append(u, e), B))
    <3>1. CASE e \in A /\ e \notin B
      BY <2>2, <2>3, <2>4, <2>6, <3>1
    <3>2. CASE e \in B /\ e \notin A
      BY <2>2, <2>3, <2>4, <2>6, <3>2
    <3> QED
      BY <3>1, <3>2
  <2> QED
    BY <2>7, <2>8
<1>3. s \in P
  <2> HIDE DEF P
  <2> QED
    BY <1>1, <1>2, SequenceInduction
<1> QED
  BY <1>3

(* Sorting leaves the weight as it is.                                     *)
LEMMA InsertedWeight ==
  ASSUME NEW s \in Seq(ArtifactRef), NEW e \in ArtifactRef
  PROVE  Weight(Inserted(s, e)) = Weight(Append(s, e))
<1> DEFINE Low == {x \in ArtifactRef : x.priority <= e.priority}
           High == {x \in ArtifactRef : x.priority > e.priority}
           low == Select(s, Low)
           high == Select(s, High)
<1>1. \A i \in DOMAIN s : s[i] \in ArtifactRef
  OBVIOUS
<1>2. /\ {i \in DOMAIN s : s[i].priority <= e.priority} = {i \in DOMAIN s : s[i] \in Low}
      /\ {i \in DOMAIN s : s[i].priority > e.priority} = {i \in DOMAIN s : s[i] \in High}
  BY <1>1
<1>3. Inserted(s, e) = low \o <<e>> \o high
  BY <1>2 DEF Inserted, Select
<1>4. Low \cap High = {} /\ ArtifactRef \subseteq Low \cup High
  BY RefIs
<1>5. ArtifactRef \cap Low \subseteq ArtifactRef /\ ArtifactRef \cap High \subseteq ArtifactRef
  OBVIOUS
<1> HIDE DEF Low, High
<1>6. Weight(s) = Weight(low) + Weight(high)
  BY <1>4, WeightSplit
<1>7. low \in Seq(ArtifactRef \cap Low) /\ high \in Seq(ArtifactRef \cap High)
  BY SelectIs
<1> HIDE DEF low, high
<1>8. low \in Seq(ArtifactRef) /\ high \in Seq(ArtifactRef)
  BY <1>5, <1>7
<1>9. low \o <<e>> = Append(low, e) /\ Append(low, e) \in Seq(ArtifactRef)
  BY <1>8, AppendIsConcat, AppendedIs
<1> DEFINE front == Append(low, e)
<1>10. Weight(front) = Weight(low) + (IF e \in Protected THEN e.tokens ELSE 0)
  BY <1>8, WeightIs
<1>11. front \in Seq(ArtifactRef) /\ Inserted(s, e) = front \o high
  BY <1>3, <1>9
<1> HIDE DEF front
<1>12. Weight(Inserted(s, e)) = Weight(front) + Weight(high)
  BY <1>8, <1>11, WeightConcat
<1>13. Weight(Append(s, e)) = Weight(s) + (IF e \in Protected THEN e.tokens ELSE 0)
  BY WeightIs
<1>14. Weight(low) \in Nat /\ Weight(high) \in Nat /\ e.tokens \in Nat
  BY <1>8, WeightIs, RefIs
<1> QED
  BY <1>6, <1>10, <1>12, <1>13, <1>14

LEMMA SortedWeight ==
  ASSUME NEW s \in Seq(ArtifactRef)
  PROVE  Weight(ByPriority(s)) = Weight(s)
<1> DEFINE P == {u \in Seq(ArtifactRef) : Weight(ByPriority(u)) = Weight(u)}
<1>1. <<>> \in P
  BY ByPriorityStep
<1>2. ASSUME NEW u \in Seq(ArtifactRef), NEW e \in ArtifactRef, u \in P PROVE Append(u, e) \in P
  <2> DEFINE v == ByPriority(u)
  <2>1. v \in Seq(ArtifactRef) /\ ByPriority(Append(u, e)) = Inserted(v, e)
    BY ByPriorityStep
  <2>2. Weight(v) = Weight(u)
    BY <1>2
  <2> HIDE DEF v
  <2>3. Weight(Inserted(v, e)) = Weight(Append(v, e))
    BY <2>1, InsertedWeight
  <2>4. Weight(Append(v, e)) = Weight(Append(u, e))
    BY <2>1, <2>2, WeightIs
  <2>5. Append(u, e) \in Seq(ArtifactRef)
    BY AppendedIs
  <2> QED
    BY <2>1, <2>3, <2>4, <2>5
<1>3. s \in P
  <2> HIDE DEF P
  <2> QED
    BY <1>1, <1>2, SequenceInduction
<1> QED
  BY <1>3
-----------------------------------------------------------------------------
(* The cut.                                                                *)
LEMMA FitSteps ==
  ASSUME NEW budget \in Nat
  PROVE  /\ FitAll(<<>>, budget) = [kept |-> <<>>, deferred |-> <<>>, used |-> 0]
         /\ \A s \in Seq(ArtifactRef) : FitAll(s, budget) \in Cut
         /\ \A s \in Seq(ArtifactRef), e \in ArtifactRef :
              FitAll(Append(s, e), budget) = Fit(FitAll(s, budget), e, budget)
<1> DEFINE start == [kept |-> <<>>, deferred |-> <<>>, used |-> 0]
           step == [x \in Cut \X ArtifactRef |-> Fit(x[1], x[2], budget)]
<1>1. ASSUME NEW c \in Cut, NEW e \in ArtifactRef PROVE Fit(c, e, budget) \in Cut
  <2>1. c.kept \in Seq(ArtifactRef) /\ c.deferred \in Seq(ArtifactRef)
        /\ c.used \in Nat /\ e.tokens \in Nat
    BY RefIs DEF Cut
  <2>2. Append(c.kept, e) \in Seq(ArtifactRef) /\ Append(c.deferred, e) \in Seq(ArtifactRef)
    BY <2>1, AppendedIs
  <2>3. c.used + e.tokens \in Nat
    BY <2>1
  <2>4. CASE c.used + e.tokens <= budget
    <3>1. [c EXCEPT !.kept = Append(c.kept, e), !.used = c.used + e.tokens] \in Cut
      BY <2>2, <2>3 DEF Cut
    <3> QED
      BY <2>4, <3>1 DEF Fit
  <2>5. CASE ~(c.used + e.tokens <= budget)
    <3>1. [c EXCEPT !.deferred = Append(c.deferred, e)] \in Cut
      BY <2>2 DEF Cut
    <3> QED
      BY <2>5, <3>1 DEF Fit
  <2> QED
    BY <2>4, <2>5
<1>2. step \in [Cut \X ArtifactRef -> Cut]
  BY <1>1
<1>3. \A c \in Cut, e \in ArtifactRef : step[<<c, e>>] = Fit(c, e, budget)
  OBVIOUS
<1>4. start \in Cut
  BY DEF Cut
<1>5. \A s : FitAll(s, budget) = Reduce(s, start, step)
  BY DEF FitAll
<1> HIDE DEF start, step
<1>6. StepsOf(ArtifactRef, Cut, start, step)
  BY <1>2, <1>4, ReduceIs
<1>7. FitAll(<<>>, budget) = start /\ \A s \in Seq(ArtifactRef) : FitAll(s, budget) \in Cut
  BY <1>5, <1>6 DEF StepsOf
<1>8. ASSUME NEW s \in Seq(ArtifactRef), NEW e \in ArtifactRef
      PROVE  FitAll(Append(s, e), budget) = Fit(FitAll(s, budget), e, budget)
  <2>1. Reduce(Append(s, e), start, step) = step[<<Reduce(s, start, step), e>>]
    BY <1>6 DEF StepsOf
  <2> QED
    BY <1>3, <1>5, <1>7, <2>1
<1> QED
  BY <1>7, <1>8 DEF start

LEMMA FitIs ==
  ASSUME NEW s \in Seq(ArtifactRef), NEW budget \in Nat
  PROVE  LET c == FitAll(s, budget)
         IN  /\ c \in Cut
             /\ Range(c.kept) \subseteq Range(s) /\ Range(c.deferred) \subseteq Range(s)
             /\ \A Q : Pairwise(s, Q) => Pairwise(c.kept, Q)
             /\ c.used = SectionTokens(c.kept) /\ c.used <= budget
<1> DEFINE Right(u, c) == /\ Range(c.kept) \subseteq Range(u) /\ Range(c.deferred) \subseteq Range(u)
                          /\ \A Q : Pairwise(u, Q) => Pairwise(c.kept, Q)
                          /\ c.used = SectionTokens(c.kept) /\ c.used <= budget
           P == {u \in Seq(ArtifactRef) : Right(u, FitAll(u, budget))}
<1>1. <<>> \in P
  BY FitSteps, TokensIs, PairwiseEmpty DEF Range
<1>2. ASSUME NEW u \in Seq(ArtifactRef), NEW e \in ArtifactRef, u \in P PROVE Append(u, e) \in P
  <2> DEFINE c == FitAll(u, budget)
  <2>1. c \in Cut /\ FitAll(Append(u, e), budget) = Fit(c, e, budget)
    BY FitSteps
  <2>2. Right(u, c)
    BY <1>2
  <2>3. Append(u, e) \in Seq(ArtifactRef) /\ Range(Append(u, e)) = Range(u) \cup {e}
    BY AppendedIs
  <2> HIDE DEF c
  <2>4. /\ c.kept \in Seq(ArtifactRef) /\ c.deferred \in Seq(ArtifactRef) /\ c.used \in Nat
        /\ e.tokens \in Nat
    BY <2>1, RefIs DEF Cut
  <2>5. \A Q : Pairwise(Append(u, e), Q) => Pairwise(u, Q) /\ \A x \in Range(u) : <<x, e>> \in Q
    BY PairwiseAppend
  <2>6. CASE c.used + e.tokens <= budget
    <3> DEFINE k == Append(c.kept, e)
               d == [c EXCEPT !.kept = Append(@, e), !.used = @ + e.tokens]
    <3>1. Range(k) = Range(c.kept) \cup {e} /\ SectionTokens(k) = SectionTokens(c.kept) + e.tokens
      BY <2>4, AppendedIs, TokensIs
    <3>2. Fit(c, e, budget) = d /\ d.kept = k /\ d.deferred = c.deferred /\ d.used = c.used + e.tokens
      BY <2>1, <2>6 DEF Fit, Cut
    <3>3. \A Q : Pairwise(c.kept, Q) /\ (\A x \in Range(c.kept) : <<x, e>> \in Q) => Pairwise(k, Q)
      BY <2>4, PairwiseAppend
    <3> HIDE DEF k, d
    <3>4. Right(Append(u, e), d)
      BY <2>2, <2>3, <2>5, <2>6, <3>1, <3>2, <3>3
    <3> HIDE DEF Right
    <3> QED
      BY <2>1, <2>3, <3>2, <3>4
  <2>7. CASE ~(c.used + e.tokens <= budget)
    <3> DEFINE d == [c EXCEPT !.deferred = Append(@, e)]
    <3>1. Range(Append(c.deferred, e)) = Range(c.deferred) \cup {e}
      BY <2>4, AppendedIs
    <3>2. Fit(c, e, budget) = d /\ d.kept = c.kept /\ d.deferred = Append(c.deferred, e) /\ d.used = c.used
      BY <2>1, <2>7 DEF Fit, Cut
    <3> HIDE DEF d
    <3>3. Right(Append(u, e), d)
      BY <2>2, <2>3, <2>5, <3>1, <3>2
    <3> HIDE DEF Right
    <3> QED
      BY <2>1, <2>3, <3>2, <3>3
  <2> QED
    BY <2>6, <2>7
<1>3. s \in P
  <2> HIDE DEF P
  <2> QED
    BY <1>1, <1>2, SequenceInduction
<1> QED
  BY <1>3, FitSteps

(* In the order of priorities, what is protected comes first, and is kept  *)
(* if all of it fits.                                                      *)
LEMMA FitKeeps ==
  ASSUME NEW s \in Seq(ArtifactRef), NEW budget \in Nat, Pairwise(s, Rising), Weight(s) <= budget
  PROVE  Range(s) \cap Protected \subseteq Range(FitAll(s, budget).kept)
<1> DEFINE Right(u, c) ==
             Pairwise(u, Rising) /\ Weight(u) <= budget
             => /\ Range(u) \cap Protected \subseteq Range(c.kept)
                /\ Range(u) \subseteq Protected => c.used = Weight(u)
           P == {u \in Seq(ArtifactRef) : Right(u, FitAll(u, budget))}
<1>1. <<>> \in P
  BY FitSteps, WeightIs DEF Range
<1>2. ASSUME NEW u \in Seq(ArtifactRef), NEW e \in ArtifactRef, u \in P PROVE Append(u, e) \in P
  <2> DEFINE c == FitAll(u, budget)
             t == Append(u, e)
  <2>1. c \in Cut /\ FitAll(t, budget) = Fit(c, e, budget)
    BY FitSteps
  <2>2. Right(u, c)
    BY <1>2
  <2>3. t \in Seq(ArtifactRef) /\ Range(t) = Range(u) \cup {e}
    BY AppendedIs
  <2>4. Weight(t) = Weight(u) + (IF e \in Protected THEN e.tokens ELSE 0) /\ Weight(u) \in Nat
    BY WeightIs
  <2>5. Pairwise(t, Rising) => Pairwise(u, Rising) /\ \A x \in Range(u) : <<x, e>> \in Rising
    BY PairwiseAppend
  <2> HIDE DEF c, t
  <2>6. /\ c.kept \in Seq(ArtifactRef) /\ c.deferred \in Seq(ArtifactRef) /\ c.used \in Nat
        /\ e.tokens \in Nat /\ e.priority \in Nat
    BY <2>1, RefIs DEF Cut
  <2> SUFFICES ASSUME Pairwise(t, Rising), Weight(t) <= budget
               PROVE  /\ Range(t) \cap Protected \subseteq Range(Fit(c, e, budget).kept)
                      /\ Range(t) \subseteq Protected => Fit(c, e, budget).used = Weight(t)
    BY <2>1, <2>3 DEF t
  <2>7. Range(Append(c.kept, e)) = Range(c.kept) \cup {e}
    BY <2>6, AppendedIs
  <2>8. CASE e \in Protected
    <3>1. \A x \in Range(u) : x \in Protected
      <4> SUFFICES ASSUME NEW x \in Range(u) PROVE x \in Protected
        OBVIOUS
      <4>1. x \in ArtifactRef /\ x.priority <= e.priority
        BY <2>5 DEF Rising
      <4>2. e.priority <= 1 /\ x.priority \in Nat
        BY <2>8, <4>1, RefIs DEF Protected
      <4>3. x.priority <= 1
        BY <2>6, <4>1, <4>2
      <4> QED
        BY <4>1, <4>3 DEF Protected
    <3>2. Weight(t) = Weight(u) + e.tokens
      BY <2>4, <2>8
    <3>3. Weight(u) <= budget
      BY <2>4, <2>6, <3>2
    <3>4. c.used = Weight(u) /\ Range(u) \cap Protected \subseteq Range(c.kept)
      BY <2>2, <2>5, <3>1, <3>3
    <3>5. c.used + e.tokens <= budget
      BY <3>2, <3>4
    <3>6. Fit(c, e, budget).kept = Append(c.kept, e) /\ Fit(c, e, budget).used = c.used + e.tokens
      BY <2>1, <3>5 DEF Fit, Cut
    <3> QED
      BY <2>3, <2>7, <3>2, <3>4, <3>6
  <2>9. CASE e \notin Protected
    <3>1. Weight(t) = Weight(u)
      BY <2>4, <2>9
    <3>2. Range(u) \cap Protected \subseteq Range(c.kept)
      BY <2>2, <2>5, <3>1
    <3>3. Fit(c, e, budget).kept = c.kept \/ Fit(c, e, budget).kept = Append(c.kept, e)
      BY <2>1 DEF Fit, Cut
    <3> QED
      BY <2>3, <2>7, <2>9, <3>2, <3>3
  <2> QED
    BY <2>8, <2>9
<1>3. s \in P
  <2> HIDE DEF P
  <2> QED
    BY <1>1, <1>2, SequenceInduction
<1> QED
  BY <1>3

LEMMA CutIs ==
  ASSUME NEW s \in Seq(ArtifactRef), NEW budget \in Nat
  PROVE  LET c == EnforceTokenBudget(s, budget)
         IN  /\ c \in Cut
             /\ Range(c.kept) \subseteq Range(s) /\ Range(c.deferred) \subseteq Range(s)
             /\ \A Q : AcrossPriorities(Q) /\ Pairwise(s, Q) => Pairwise(c.kept, Q)
             /\ SectionTokens(c.kept) <= budget
             /\ Weight(s) <= budget => Range(s) \cap Protected \subseteq Range(c.kept)
<1> DEFINE w == ByPriority(s)
<1>1. /\ w \in Seq(ArtifactRef) /\ Range(w) = Range(s) /\ Pairwise(w, Rising)
      /\ \A Q : AcrossPriorities(Q) /\ Pairwise(s, Q) => Pairwise(w, Q)
  BY ByPriorityIs
<1>2. Weight(w) = Weight(s)
  BY SortedWeight
<1>3. EnforceTokenBudget(s, budget) = FitAll(w, budget)
  BY DEF EnforceTokenBudget
<1> HIDE DEF w
<1> DEFINE c == FitAll(w, budget)
<1>4. /\ c \in Cut
      /\ Range(c.kept) \subseteq Range(w) /\ Range(c.deferred) \subseteq Range(w)
      /\ \A Q : Pairwise(w, Q) => Pairwise(c.kept, Q)
      /\ c.used = SectionTokens(c.kept) /\ c.used <= budget
  BY <1>1, FitIs
<1>5. Weight(w) <= budget => Range(w) \cap Protected \subseteq Range(c.kept)
  BY <1>1, FitKeeps
<1> HIDE DEF c
<1> QED
  BY <1>1, <1>2, <1>3, <1>4, <1>5 DEF c
-----------------------------------------------------------------------------
(* Skills.                                                                 *)
LEMMA SkillIs == ASSUME NEW m \in FullSkillManifest
                 PROVE  /\ m.id \in STRING /\ m.dependsOn \in Seq(STRING)
                        /\ m.tokens \in Nat /\ m.avoid \in Nat
BY DEF FullSkillManifest

(* The last of an id is found.                                             *)
LastWith(skills, id, i) ==
  /\ i \in DOMAIN skills /\ skills[i].id = id
  /\ \A j \in DOMAIN skills : skills[j].id = id => j <= i

LEMMA ManifestIs ==
  ASSUME NEW skills \in Seq(FullSkillManifest)
  PROVE  /\ \A id, i : LastWith(skills, id, i) => Manifest(skills, id) = skills[i]
         /\ \A id \in SkillIds(skills) : \E i : LastWith(skills, id, i)
<1> DEFINE N == Len(skills)
<1>1. N \in Nat /\ DOMAIN skills = 1..N
  OBVIOUS
<1>2. ASSUME NEW id, NEW i, LastWith(skills, id, i) PROVE Manifest(skills, id) = skills[i]
  <2> DEFINE LastIn(k) == skills[k].id = id /\ \A j \in DOMAIN skills : skills[j].id = id => j <= k
             k == CHOOSE k \in DOMAIN skills : LastIn(k)
  <2>1. i \in DOMAIN skills /\ LastIn(i)
    BY <1>2 DEF LastWith
  <2>2. Manifest(skills, id) = skills[k]
    BY DEF Manifest
  <2>3. k \in DOMAIN skills /\ LastIn(k)
    <3> HIDE DEF Last
    <3> QED
      BY <2>1
  <2> HIDE DEF k
  <2>4. k <= i /\ i <= k
    BY <2>1, <2>3
  <2>5. k = i
    BY <1>1, <2>1, <2>3, <2>4
  <2> QED
    BY <2>2, <2>5
<1>3. ASSUME NEW id \in SkillIds(skills) PROVE \E i : LastWith(skills, id, i)
  <2> DEFINE S == {n \in Nat : \E i \in 1..N : skills[i].id = id /\ n = N - i}
  <2>1. S # {} /\ S \in SUBSET Nat
    <3>1. PICK i \in 1..N : skills[i].id = id
      BY <1>1 DEF SkillIds
    <3>2. N - i \in S
      BY <1>1, <3>1
    <3> QED
      BY <3>2
  <2> HIDE DEF S
  <2>2. PICK m \in S : \A n \in S : m <= n
    BY <2>1, LeastNumber
  <2>3. PICK i \in 1..N : skills[i].id = id /\ m = N - i
    BY <2>2 DEF S
  <2>4. ASSUME NEW j \in 1..N, skills[j].id = id PROVE j <= i
    <3>1. N - j \in S
      <4>1. N - j \in Nat
        BY <1>1
      <4> QED
        BY <2>4, <4>1 DEF S
    <3>2. N - i <= N - j
      BY <2>2, <2>3, <3>1
    <3> QED
      BY <1>1, <3>2
  <2>5. LastWith(skills, id, i)
    BY <1>1, <2>3, <2>4 DEF LastWith
  <2> QED
    BY <2>5
<1> QED
  BY <1>2, <1>3

LEMMA ManifestType ==
  ASSUME NEW skills \in Seq(FullSkillManifest), NEW id \in SkillIds(skills)
  PROVE  Manifest(skills, id) \in FullSkillManifest /\ Manifest(skills, id).id = id
         /\ Manifest(skills, id) \in Range(skills)
<1>1. PICK i : LastWith(skills, id, i)
  BY ManifestIs
<1>2. Manifest(skills, id) = skills[i]
  BY <1>1, ManifestIs
<1> QED
  BY <1>1, <1>2 DEF LastWith, Range

(* What a skill depends on, and ids none of which stands before one it     *)
(* depends on.                                                             *)
Depends(skills, id) == Range(Manifest(skills, id).dependsOn)
InOrder(skills) == {x \in STRING \X STRING : x[2] \notin Depends(skills, x[1])}

Settled(skills, r) ==
  /\ Pairwise(r, InOrder(skills))
  /\ Range(r) \subseteq SkillIds(skills)
  /\ \A x \in Range(r) : Depends(skills, x) \cap SkillIds(skills) \subseteq Range(r)

(* What a visit does to a tour.                                            *)
Toured(skills, t, u) ==
  ~u.cycle =>
    /\ ~t.cycle /\ u.stack = t.stack
    /\ Range(t.result) \subseteq Range(u.result)
    /\ Range(u.result) \cap t.stack \subseteq Range(t.result)
    /\ Settled(skills, t.result) => Settled(skills, u.result)

Visits == [Tour \X STRING -> Tour]

Visiting(skills, visit) ==
  \A t \in Tour, id \in STRING :
    /\ Toured(skills, t, visit[<<t, id>>])
    /\ ~visit[<<t, id>>].cycle /\ id \in SkillIds(skills) => id \in Range(visit[<<t, id>>].result)

LEMMA VisitAll ==
  ASSUME NEW skills \in Seq(FullSkillManifest), NEW visit \in Visits, Visiting(skills, visit),
         NEW t \in Tour, NEW ids \in Seq(STRING)
  PROVE  LET u == Reduce(ids, t, visit)
         IN  /\ u \in Tour /\ Toured(skills, t, u)
             /\ ~u.cycle => Range(ids) \cap SkillIds(skills) \subseteq Range(u.result)
<1>1. StepsOf(STRING, Tour, t, visit)
  BY ReduceIs DEF Visits
<1> DEFINE Right(s, u) == /\ Toured(skills, t, u)
                          /\ ~u.cycle => Range(s) \cap SkillIds(skills) \subseteq Range(u.result)
           P == {s \in Seq(STRING) : Right(s, Reduce(s, t, visit))}
<1>2. <<>> \in P
  BY <1>1 DEF StepsOf, Toured, Range
<1>3. ASSUME NEW s \in Seq(STRING), NEW e \in STRING, s \in P PROVE Append(s, e) \in P
  <2> DEFINE u == Reduce(s, t, visit)
             v == visit[<<u, e>>]
  <2>1. u \in Tour /\ Reduce(Append(s, e), t, visit) = v
    BY <1>1 DEF StepsOf
  <2>2. Right(s, u)
    BY <1>3
  <2>3. Append(s, e) \in Seq(STRING) /\ Range(Append(s, e)) = Range(s) \cup {e}
    BY AppendedIs
  <2>4. Toured(skills, u, v) /\ (~v.cycle /\ e \in SkillIds(skills) => e \in Range(v.result))
    BY <2>1 DEF Visiting
  <2> HIDE DEF u, v
  <2>5. Toured(skills, t, v)
    BY <2>2, <2>4 DEF Toured
  <2>6. ~v.cycle => Range(Append(s, e)) \cap SkillIds(skills) \subseteq Range(v.result)
    BY <2>2, <2>3, <2>4 DEF Toured
  <2> QED
    BY <2>1, <2>3, <2>5, <2>6
<1>4. ids \in P
  <2> HIDE DEF P
  <2> QED
    BY <1>2, <1>3, SequenceInduction
<1> QED
  BY <1>1, <1>4 DEF StepsOf

LEMMA VisitOne ==
  ASSUME NEW skills \in Seq(FullSkillManifest), NEW visit \in Visits, Visiting(skills, visit),
         NEW t \in Tour, NEW id \in STRING
  PROVE  LET u == VisitBy(visit, skills, t, id)
         IN  /\ u \in Tour /\ Toured(skills, t, u)
             /\ ~u.cycle /\ id \in SkillIds(skills) => id \in Range(u.result)
<1>1. t.result \in Seq(STRING) /\ t.stack \in SUBSET STRING /\ t.cycle \in BOOLEAN
  BY DEF Tour
<1>2. CASE t.cycle \/ id \in Range(t.result) \/ id \notin SkillIds(skills)
  BY <1>2 DEF VisitBy, Toured
<1>3. CASE /\ ~(t.cycle \/ id \in Range(t.result) \/ id \notin SkillIds(skills))
           /\ id \in t.stack
  <2> DEFINE u == [t EXCEPT !.cycle = TRUE]
  <2>1. VisitBy(visit, skills, t, id) = u
    BY <1>3 DEF VisitBy
  <2>2. u \in Tour /\ u.cycle
    BY <1>1 DEF Tour
  <2> HIDE DEF u
  <2> QED
    BY <2>1, <2>2 DEF Toured
<1>4. CASE /\ ~(t.cycle \/ id \in Range(t.result) \/ id \notin SkillIds(skills))
           /\ id \notin t.stack
  <2> DEFINE m == Manifest(skills, id)
             s == [t EXCEPT !.stack = @ \cup {id}]
             after == Reduce(m.dependsOn, s, visit)
             r == Append(after.result, id)
             u == [after EXCEPT !.stack = @ \ {id}, !.result = Append(@, id)]
  <2>1. VisitBy(visit, skills, t, id) = u
    BY <1>4 DEF VisitBy
  <2>2. m \in FullSkillManifest /\ m.dependsOn \in Seq(STRING) /\ Range(m.dependsOn) = Depends(skills, id)
    BY <1>4, ManifestType, SkillIs DEF Depends
  <2>3. s \in Tour /\ s.stack = t.stack \cup {id} /\ s.result = t.result /\ s.cycle = t.cycle
    BY <1>1 DEF Tour
  <2> HIDE DEF m, s
  <2>4. /\ after \in Tour /\ Toured(skills, s, after)
        /\ ~after.cycle => Depends(skills, id) \cap SkillIds(skills) \subseteq Range(after.result)
    BY <2>2, <2>3, VisitAll
  <2> HIDE DEF after
  <2>5. after.result \in Seq(STRING) /\ after.stack \in SUBSET STRING /\ after.cycle \in BOOLEAN
    BY <2>4 DEF Tour
  <2>6. r \in Seq(STRING) /\ Range(r) = Range(after.result) \cup {id}
    BY <2>5, AppendedIs
  <2>7. Pairwise(r, InOrder(skills)) <=> /\ Pairwise(after.result, InOrder(skills))
                                         /\ \A x \in Range(after.result) : <<x, id>> \in InOrder(skills)
    BY <2>5, PairwiseAppend
  <2>8. u.result = r /\ u.stack = after.stack \ {id} /\ u.cycle = after.cycle
    BY <2>4 DEF Tour
  <2>9. u \in Tour
    <3>1. after.stack \ {id} \in SUBSET STRING
      BY <2>5
    <3> QED
      BY <2>4, <2>6, <3>1 DEF Tour
  <2> HIDE DEF u, r
  <2>10. ASSUME ~after.cycle
         PROVE  /\ ~t.cycle /\ u.stack = t.stack
                /\ Range(t.result) \subseteq Range(u.result)
                /\ Range(u.result) \cap t.stack \subseteq Range(t.result)
                /\ id \notin Range(after.result)
    BY <1>4, <2>3, <2>4, <2>6, <2>8, <2>10 DEF Toured
  <2>11. ASSUME ~after.cycle, Settled(skills, t.result) PROVE Settled(skills, u.result)
    <3>1. Settled(skills, after.result)
      BY <2>3, <2>4, <2>11 DEF Toured
    <3>2. ASSUME NEW x \in Range(after.result) PROVE <<x, id>> \in InOrder(skills)
      <4>1. id \notin Depends(skills, x)
        BY <1>4, <2>10, <2>11, <3>1 DEF Settled
      <4>2. x \in STRING
        BY <2>5 DEF Range
      <4> QED
        BY <4>1, <4>2 DEF InOrder
    <3>3. Pairwise(r, InOrder(skills))
      BY <2>7, <3>1, <3>2 DEF Settled
    <3>4. Range(r) \subseteq SkillIds(skills)
      BY <1>4, <2>6, <3>1 DEF Settled
    <3>5. \A x \in Range(r) : Depends(skills, x) \cap SkillIds(skills) \subseteq Range(r)
      BY <2>4, <2>6, <2>11, <3>1 DEF Settled
    <3> QED
      BY <2>8, <3>3, <3>4, <3>5 DEF Settled
  <2>12. Toured(skills, t, u)
    BY <2>8, <2>10, <2>11 DEF Toured
  <2>13. id \in Range(u.result)
    BY <2>6, <2>8
  <2> QED
    BY <2>1, <2>9, <2>12, <2>13
<1> QED
  BY <1>2, <1>3, <1>4

(* The visits by their depth.                                              *)
LEMMA VisitSteps ==
  ASSUME NEW skills \in Seq(FullSkillManifest)
  PROVE  \E visit :
           /\ Visit(skills) = visit[Len(skills) + 1]
           /\ \A n \in 0..(Len(skills) + 1) : visit[n] \in Visits /\ Visiting(skills, visit[n])
           /\ \A n \in 1..(Len(skills) + 1), t \in Tour, id \in STRING :
                visit[n][<<t, id>>] = VisitBy(visit[n - 1], skills, t, id)
<1> DEFINE N == Len(skills) + 1
           base == [x \in Tour \X STRING |-> [x[1] EXCEPT !.cycle = TRUE]]
           deeper(v) == [x \in Tour \X STRING |-> VisitBy(v, skills, x[1], x[2])]
           Kept(f) == f = [depth \in 0..(Len(skills) + 1) |->
                             IF depth = 0 THEN base ELSE deeper(f[depth - 1])]
           visit == CHOOSE f : Kept(f)
           R == {v \in Visits : Visiting(skills, v)}
           step == [p \in (1..N) \X R |-> deeper(p[2])]
<1>1. N \in Nat
  OBVIOUS
<1>2. Visit(skills) = visit[N]
  BY DEF Visit
<1>3. base \in R
  <2>1. ASSUME NEW t \in Tour PROVE [t EXCEPT !.cycle = TRUE] \in Tour /\ [t EXCEPT !.cycle = TRUE].cycle
    BY DEF Tour
  <2>2. base \in Visits
    BY <2>1 DEF Visits
  <2>3. ASSUME NEW t \in Tour, NEW id \in STRING PROVE base[<<t, id>>].cycle
    BY <2>1
  <2> HIDE DEF base
  <2>4. Visiting(skills, base)
    BY <2>3 DEF Visiting, Toured
  <2> QED
    BY <2>2, <2>4
<1>4. ASSUME NEW v \in R PROVE deeper(v) \in R
  <2>1. v \in Visits /\ Visiting(skills, v)
    OBVIOUS
  <2>2. ASSUME NEW t \in Tour, NEW id \in STRING
        PROVE  /\ deeper(v)[<<t, id>>] = VisitBy(v, skills, t, id)
               /\ VisitBy(v, skills, t, id) \in Tour
               /\ Toured(skills, t, VisitBy(v, skills, t, id))
               /\ ~VisitBy(v, skills, t, id).cycle /\ id \in SkillIds(skills)
                  => id \in Range(VisitBy(v, skills, t, id).result)
    BY <2>1, VisitOne
  <2>3. deeper(v) \in Visits
    BY <2>2 DEF Visits
  <2> HIDE DEF deeper
  <2>4. Visiting(skills, deeper(v))
    BY <2>2 DEF Visiting
  <2> QED
    BY <2>3, <2>4
<1> HIDE DEF base, deeper, R, N
<1>5. step \in [(1..N) \X R -> R] /\ \A n \in 1..N, v \in R : step[<<n, v>>] = deeper(v)
  BY <1>4
<1> HIDE DEF step
<1> Recursive(R, base, N, step)
  BY <1>1, <1>3, <1>5, Recursion
<1>6. PICK f \in [0..N -> R] : f[0] = base /\ \A n \in 1..N : f[n] = step[<<n, f[n - 1]>>]
  BY DEF Recursive
<1>7. \A n \in 1..N : f[n] = deeper(f[n - 1])
  <2> SUFFICES ASSUME NEW n \in 1..N PROVE f[n] = deeper(f[n - 1])
    OBVIOUS
  <2>1. n - 1 \in 0..N
    BY <1>1
  <2> QED
    BY <1>5, <1>6, <2>1
<1>8. Kept(f)
  <2>1. \A n \in 0..N : f[n] = IF n = 0 THEN base ELSE deeper(f[n - 1])
    BY <1>1, <1>6, <1>7
  <2> QED
    BY <1>6, <2>1 DEF N
<1> HIDE DEF Kept
<1>9. Kept(visit)
  BY <1>8
<1> HIDE DEF visit
<1>10. visit[0] = base /\ \A n \in 1..N : visit[n] = deeper(visit[n - 1])
  <2>1. \A n \in 0..N : visit[n] = IF n = 0 THEN base ELSE deeper(visit[n - 1])
    BY <1>9 DEF Kept, N
  <2> QED
    BY <1>1, <2>1
<1> DEFINE Typed == {n \in Nat : n <= N => visit[n] \in R}
<1>11. 0 \in Typed
  BY <1>3, <1>10
<1>12. ASSUME NEW n \in Nat, n \in Typed PROVE n + 1 \in Typed
  <2> SUFFICES ASSUME n + 1 <= N PROVE visit[n + 1] \in R
    OBVIOUS
  <2>1. n + 1 \in 1..N /\ (n + 1) - 1 = n /\ visit[n] \in R
    BY <1>1, <1>12
  <2> QED
    BY <1>4, <1>10, <2>1
<1> HIDE DEF Typed
<1>13. \A n \in Nat : n \in Typed
  BY <1>11, <1>12, SetInduction
<1>14. \A n \in 0..N : visit[n] \in Visits /\ Visiting(skills, visit[n])
  BY <1>1, <1>13 DEF Typed, R
<1>15. \A n \in 1..N, t \in Tour, id \in STRING :
         visit[n][<<t, id>>] = VisitBy(visit[n - 1], skills, t, id)
  BY <1>10 DEF deeper
<1> QED
  BY <1>2, <1>14, <1>15 DEF N

LEMMA VisitIs ==
  ASSUME NEW skills \in Seq(FullSkillManifest)
  PROVE  Visit(skills) \in Visits /\ Visiting(skills, Visit(skills))
<1>1. Len(skills) + 1 \in 0..(Len(skills) + 1)
  OBVIOUS
<1> QED
  BY <1>1, VisitSteps

(* The skills of a role in the order of their dependencies: all of them,   *)
(* unless they form a cycle.                                               *)
LEMMA DependencyOrder ==
  ASSUME NEW skills \in Seq(FullSkillManifest)
  PROVE  LET u == SortByDependencyOrder(skills)
         IN  /\ u \in Tour
             /\ ~u.cycle => /\ Pairwise(u.result, InOrder(skills))
                            /\ Range(u.result) = SkillIds(skills)
<1> DEFINE ids == [i \in DOMAIN skills |-> skills[i].id]
           start == [result |-> <<>>, stack |-> {}, cycle |-> FALSE]
           u == Reduce(ids, start, Visit(skills))
<1>1. SortByDependencyOrder(skills) = u
  BY DEF SortByDependencyOrder
<1>2. ids \in Seq(STRING)
  <2>1. /\ Len(skills) \in Nat /\ DOMAIN skills = 1..Len(skills)
        /\ \A i \in 1..Len(skills) : skills[i].id \in STRING
    BY SkillIs
  <2> QED
    BY <2>1, IsASeq
<1>3. Range(ids) = SkillIds(skills)
  BY DEF Range, SkillIds
<1>4. start \in Tour /\ start.result = <<>> /\ ~start.cycle
  BY DEF Tour
<1>5. Settled(skills, <<>>)
  BY PairwiseEmpty DEF Settled, Range
<1> HIDE DEF ids, start
<1>6. /\ u \in Tour /\ Toured(skills, start, u)
      /\ ~u.cycle => Range(ids) \cap SkillIds(skills) \subseteq Range(u.result)
  BY <1>2, <1>4, VisitIs, VisitAll
<1> HIDE DEF u
<1>7. ~u.cycle => Settled(skills, u.result)
  BY <1>4, <1>5, <1>6 DEF Toured
<1> QED
  BY <1>1, <1>3, <1>6, <1>7 DEF Settled

(* Ranks of skills that fall along their dependencies: there are some      *)
(* unless a skill depends on itself, directly or not.                      *)
Ranks(skills, rank) ==
  /\ rank \in [SkillIds(skills) -> 0..(Len(skills) - 1)]
  /\ \A x \in SkillIds(skills) :
       \A y \in Depends(skills, x) \cap SkillIds(skills) : rank[y] < rank[x]

(* A visit is deep enough for what it visits and does not come back to     *)
(* what it is within.                                                      *)
DeepEnough(skills, rank, stack, id, n) ==
  /\ n >= 1
  /\ id \in SkillIds(skills) =>
       /\ rank[id] + 1 < n
       /\ \A x \in stack \cap SkillIds(skills) : rank[id] < rank[x]

Free(skills, rank, visit, n) ==
  \A t \in Tour, id \in STRING :
    ~t.cycle /\ DeepEnough(skills, rank, t.stack, id, n) => ~visit[<<t, id>>].cycle

LEMMA FreeAll ==
  ASSUME NEW skills \in Seq(FullSkillManifest), NEW rank, NEW n \in Nat,
         NEW visit \in Visits, Visiting(skills, visit), Free(skills, rank, visit, n),
         NEW t \in Tour, ~t.cycle, NEW ids \in Seq(STRING),
         \A id \in Range(ids) : DeepEnough(skills, rank, t.stack, id, n)
  PROVE  ~Reduce(ids, t, visit).cycle
<1>1. StepsOf(STRING, Tour, t, visit)
  BY ReduceIs DEF Visits
<1> DEFINE Good(id) == DeepEnough(skills, rank, t.stack, id, n)
           Right(u) == ~u.cycle /\ u.stack = t.stack
           P == {s \in Seq(STRING) : (\A id \in Range(s) : Good(id)) => Right(Reduce(s, t, visit))}
<1>2. <<>> \in P
  BY <1>1 DEF StepsOf
<1>3. ASSUME NEW s \in Seq(STRING), NEW e \in STRING, s \in P PROVE Append(s, e) \in P
  <2> DEFINE u == Reduce(s, t, visit)
             v == visit[<<u, e>>]
  <2>1. u \in Tour /\ Reduce(Append(s, e), t, visit) = v
    BY <1>1 DEF StepsOf
  <2>2. Append(s, e) \in Seq(STRING) /\ Range(Append(s, e)) = Range(s) \cup {e}
    BY AppendedIs
  <2>3. (\A id \in Range(s) : Good(id)) => Right(u)
    BY <1>3
  <2>4. Right(u) /\ Good(e) => ~v.cycle
    BY <2>1 DEF Free
  <2>5. Toured(skills, u, v)
    BY <2>1 DEF Visiting
  <2> HIDE DEF u, v, Good
  <2>6. Right(u) /\ Good(e) => Right(v)
    BY <2>4, <2>5 DEF Toured
  <2> HIDE DEF Right
  <2> QED
    BY <2>1, <2>2, <2>3, <2>6
<1>4. ids \in P
  <2> HIDE DEF P
  <2> QED
    BY <1>2, <1>3, SequenceInduction
<1> QED
  BY <1>4

LEMMA FreeOne ==
  ASSUME NEW skills \in Seq(FullSkillManifest), NEW rank, Ranks(skills, rank), NEW n \in Nat,
         NEW visit \in Visits, Visiting(skills, visit), Free(skills, rank, visit, n),
         NEW t \in Tour, ~t.cycle, NEW id \in STRING, DeepEnough(skills, rank, t.stack, id, n + 1)
  PROVE  ~VisitBy(visit, skills, t, id).cycle
<1>1. CASE id \in Range(t.result) \/ id \notin SkillIds(skills)
  BY <1>1 DEF VisitBy
<1>2. CASE ~(id \in Range(t.result) \/ id \notin SkillIds(skills))
  <2>1. /\ id \in SkillIds(skills) /\ rank[id] + 1 < n + 1
        /\ \A x \in t.stack \cap SkillIds(skills) : rank[id] < rank[x]
    BY <1>2 DEF DeepEnough
  <2>2. \A x \in SkillIds(skills) : rank[x] \in Nat
    BY DEF Ranks
  <2>3. id \notin t.stack
    <3>1. rank[id] \in Nat /\ ~(rank[id] < rank[id])
      BY <2>1, <2>2
    <3> QED
      BY <2>1, <3>1
  <2> DEFINE m == Manifest(skills, id)
             s == [t EXCEPT !.stack = @ \cup {id}]
             after == Reduce(m.dependsOn, s, visit)
             u == [after EXCEPT !.stack = @ \ {id}, !.result = Append(@, id)]
  <2>4. VisitBy(visit, skills, t, id) = u
    BY <1>2, <2>3 DEF VisitBy
  <2>5. m \in FullSkillManifest /\ m.dependsOn \in Seq(STRING) /\ Range(m.dependsOn) = Depends(skills, id)
    BY <2>1, ManifestType, SkillIs DEF Depends
  <2>6. s \in Tour /\ s.stack = t.stack \cup {id} /\ ~s.cycle
    BY DEF Tour
  <2> HIDE DEF m, s
  <2>7. ASSUME NEW y \in Range(m.dependsOn) PROVE DeepEnough(skills, rank, s.stack, y, n)
    <3>1. n >= 1
      <4>1. rank[id] \in Nat
        BY <2>1, <2>2
      <4> QED
        BY <2>1, <4>1
    <3>2. ASSUME y \in SkillIds(skills)
          PROVE  /\ rank[y] + 1 < n
                 /\ \A x \in s.stack \cap SkillIds(skills) : rank[y] < rank[x]
      <4>1. rank[y] < rank[id]
        BY <2>1, <2>5, <2>7, <3>2 DEF Ranks
      <4>2. rank[y] \in Nat /\ rank[id] \in Nat
        BY <2>1, <2>2, <3>2
      <4>3. ASSUME NEW x \in s.stack \cap SkillIds(skills) PROVE rank[y] < rank[x]
        <5>1. rank[x] \in Nat /\ (x = id \/ rank[id] < rank[x])
          BY <2>1, <2>2, <2>6, <4>3
        <5> QED
          BY <4>1, <4>2, <5>1
      <4> QED
        BY <2>1, <4>1, <4>2, <4>3
    <3> QED
      BY <3>1, <3>2 DEF DeepEnough
  <2>8. ~after.cycle
    BY <2>5, <2>6, <2>7, FreeAll
  <2>9. after \in Tour
    BY <2>5, <2>6, VisitAll
  <2> HIDE DEF after
  <2>10. u.cycle = after.cycle
    BY <2>9 DEF Tour
  <2> QED
    BY <2>4, <2>8, <2>10
<1> QED
  BY <1>1, <1>2

(* Skills without a cycle among them are sorted: only a cycle rejects, and *)
(* the depth the visit is given is enough.                                 *)
THEOREM Acyclic ==
  ASSUME NEW skills \in Seq(FullSkillManifest), NEW rank, Ranks(skills, rank)
  PROVE  ~SortByDependencyOrder(skills).cycle
<1> DEFINE N == Len(skills) + 1
<1>1. PICK visit :
        /\ Visit(skills) = visit[N]
        /\ \A n \in 0..N : visit[n] \in Visits /\ Visiting(skills, visit[n])
        /\ \A n \in 1..N, t \in Tour, id \in STRING :
             visit[n][<<t, id>>] = VisitBy(visit[n - 1], skills, t, id)
  BY VisitSteps
<1>2. N \in Nat /\ \A x \in SkillIds(skills) : rank[x] \in Nat /\ rank[x] + 1 < N
  BY DEF Ranks
<1> DEFINE Deep == {n \in Nat : n <= N => Free(skills, rank, visit[n], n)}
<1>3. 0 \in Deep
  BY DEF Free, DeepEnough
<1>4. ASSUME NEW n \in Nat, n \in Deep PROVE n + 1 \in Deep
  <2> SUFFICES ASSUME n + 1 <= N PROVE Free(skills, rank, visit[n + 1], n + 1)
    OBVIOUS
  <2>1. n \in 0..N /\ n + 1 \in 1..N /\ (n + 1) - 1 = n /\ Free(skills, rank, visit[n], n)
    BY <1>2, <1>4
  <2>2. visit[n] \in Visits /\ Visiting(skills, visit[n])
    BY <1>1, <2>1
  <2>3. \A t \in Tour, id \in STRING : visit[n + 1][<<t, id>>] = VisitBy(visit[n], skills, t, id)
    BY <1>1, <2>1
  <2> SUFFICES ASSUME NEW t \in Tour, NEW id \in STRING, ~t.cycle,
                      DeepEnough(skills, rank, t.stack, id, n + 1)
               PROVE  ~visit[n + 1][<<t, id>>].cycle
    BY DEF Free
  <2>4. ~VisitBy(visit[n], skills, t, id).cycle
    BY <2>1, <2>2, FreeOne
  <2> QED
    BY <2>3, <2>4
<1> HIDE DEF Deep
<1>5. N \in Deep
  BY <1>2, <1>3, <1>4, SetInduction
<1>6. Free(skills, rank, Visit(skills), N)
  BY <1>1, <1>2, <1>5 DEF Deep
<1>7. Visit(skills) \in Visits /\ Visiting(skills, Visit(skills))
  BY VisitIs
<1> DEFINE ids == [i \in DOMAIN skills |-> skills[i].id]
           start == [result |-> <<>>, stack |-> {}, cycle |-> FALSE]
<1>8. SortByDependencyOrder(skills) = Reduce(ids, start, Visit(skills))
  BY DEF SortByDependencyOrder
<1>9. ids \in Seq(STRING)
  <2>1. /\ Len(skills) \in Nat /\ DOMAIN skills = 1..Len(skills)
        /\ \A i \in 1..Len(skills) : skills[i].id \in STRING
    BY SkillIs
  <2> QED
    BY <2>1, IsASeq
<1>10. start \in Tour /\ start.stack = {} /\ ~start.cycle
  BY DEF Tour
<1> HIDE DEF ids, start, N
<1>11. \A id : DeepEnough(skills, rank, start.stack, id, N)
  <2>1. N >= 1
    BY DEF N
  <2> QED
    BY <1>2, <1>10, <2>1 DEF DeepEnough
<1> QED
  BY <1>2, <1>6, <1>7, <1>8, <1>9, <1>10, <1>11, FreeAll
-----------------------------------------------------------------------------
(* The skills of a library.                                                *)
Kind(r, registration) == {m \in FullSkillManifest : m.role = r /\ m.status = registration}

LEMMA OfRoleIs ==
  ASSUME library \in Seq(FullSkillManifest), NEW r, NEW registration
  PROVE  /\ OfRole(r, registration) = Select(library, Kind(r, registration))
         /\ OfRole(r, registration) \in Seq(FullSkillManifest)
         /\ Range(OfRole(r, registration)) = Range(library) \cap Kind(r, registration)
<1>1. \A i \in DOMAIN library : library[i] \in FullSkillManifest
  OBVIOUS
<1>2. {i \in DOMAIN library : library[i].role = r /\ library[i].status = registration}
      = {i \in DOMAIN library : library[i] \in Kind(r, registration)}
  BY <1>1 DEF Kind
<1>3. OfRole(r, registration) = Select(library, Kind(r, registration))
  BY <1>2 DEF OfRole, Select
<1>4. Select(library, Kind(r, registration)) \in Seq(FullSkillManifest \cap Kind(r, registration))
  BY SelectIs
<1>5. FullSkillManifest \cap Kind(r, registration) \subseteq FullSkillManifest
  OBVIOUS
<1>6. Range(Select(library, Kind(r, registration))) = Range(library) \cap Kind(r, registration)
  BY SelectRange
<1> HIDE DEF Kind
<1>7. Select(library, Kind(r, registration)) \in Seq(FullSkillManifest)
  BY <1>4, <1>5
<1> QED
  BY <1>3, <1>6, <1>7

LEMMA ManifestAppend ==
  ASSUME NEW skills \in Seq(FullSkillManifest), NEW e \in FullSkillManifest
  PROVE  /\ Manifest(Append(skills, e), e.id) = e
         /\ \A id \in SkillIds(skills) :
              id # e.id => Manifest(Append(skills, e), id) = Manifest(skills, id)
<1> DEFINE N == Len(skills)
           t == Append(skills, e)
<1>1. /\ N \in Nat /\ t \in Seq(FullSkillManifest) /\ Len(t) = N + 1 /\ t[N + 1] = e
      /\ \A i \in 1..N : t[i] = skills[i]
  BY AppendedIs
<1>2. DOMAIN skills = 1..N /\ DOMAIN t = 1..(N + 1)
  BY <1>1
<1> HIDE DEF N, t
<1>3. LastWith(t, e.id, N + 1)
  BY <1>1, <1>2 DEF LastWith
<1>4. ASSUME NEW id \in SkillIds(skills), id # e.id PROVE Manifest(t, id) = Manifest(skills, id)
  <2>1. PICK i : LastWith(skills, id, i)
    BY ManifestIs
  <2>2. i \in 1..N /\ i \in 1..(N + 1) /\ t[i] = skills[i]
    BY <1>1, <1>2, <2>1 DEF LastWith
  <2>3. \A j \in 1..(N + 1) : t[j].id = id => j \in 1..N /\ skills[j].id = id
    BY <1>1, <1>4
  <2>4. LastWith(t, id, i)
    BY <1>2, <2>1, <2>2, <2>3 DEF LastWith
  <2>5. Manifest(t, id) = t[i] /\ Manifest(skills, id) = skills[i]
    BY <1>1, <2>1, <2>4, ManifestIs
  <2> QED
    BY <2>2, <2>5
<1>5. Manifest(t, e.id) = e
  BY <1>1, <1>3, ManifestIs
<1> QED
  BY <1>4, <1>5 DEF t

(* The last of its kind and id in a library is found among its kind.       *)
LEMMA LastOfKind ==
  ASSUME NEW s \in Seq(FullSkillManifest), NEW S, NEW i \in DOMAIN s, s[i] \in S,
         \A j \in DOMAIN s : s[j] \in S /\ s[j].id = s[i].id => j <= i
  PROVE  Manifest(Select(s, S), s[i].id) = s[i]
<1> DEFINE LastIn(u, k) == k \in DOMAIN u /\ u[k] \in S
                         /\ \A j \in DOMAIN u : u[j] \in S /\ u[j].id = u[k].id => j <= k
           P == {u \in Seq(FullSkillManifest) :
                   \A k : LastIn(u, k) => Manifest(Select(u, S), u[k].id) = u[k]}
<1>1. <<>> \in P
  OBVIOUS
<1>2. ASSUME NEW u \in Seq(FullSkillManifest), NEW e \in FullSkillManifest, u \in P
      PROVE  Append(u, e) \in P
  <2> DEFINE N == Len(u)
             t == Append(u, e)
             q == Select(u, S)
  <2>1. /\ N \in Nat /\ t \in Seq(FullSkillManifest) /\ Len(t) = N + 1 /\ t[N + 1] = e
        /\ \A j \in 1..N : t[j] = u[j]
    BY AppendedIs
  <2>2. DOMAIN u = 1..N /\ DOMAIN t = 1..(N + 1)
    BY <2>1
  <2>3. Select(t, S) = IF e \in S THEN Append(q, e) ELSE q
    BY SelectAppend
  <2>4. q \in Seq(FullSkillManifest) /\ Range(q) = Range(u) \cap S
    <3>1. q \in Seq(FullSkillManifest \cap S) /\ Range(q) = Range(u) \cap S
      BY SelectIs, SelectRange
    <3>2. FullSkillManifest \cap S \subseteq FullSkillManifest
      OBVIOUS
    <3> HIDE DEF q
    <3> QED
      BY <3>1, <3>2
  <2>5. \A k : LastIn(u, k) => Manifest(q, u[k].id) = u[k]
    BY <1>2
  <2> HIDE DEF N, t, q
  <2> SUFFICES ASSUME NEW k, LastIn(t, k) PROVE Manifest(Select(t, S), t[k].id) = t[k]
    BY <2>1 DEF t
  <2>6. CASE k = N + 1
    BY <2>1, <2>3, <2>4, <2>6, ManifestAppend
  <2>7. CASE k # N + 1
    <3>1. k \in 1..N /\ t[k] = u[k]
      BY <2>1, <2>2, <2>7
    <3>2. \A j \in 1..N : j \in 1..(N + 1)
      BY <2>1
    <3>3. LastIn(u, k)
      BY <2>1, <2>2, <3>1, <3>2
    <3>4. Manifest(q, u[k].id) = u[k]
      BY <2>5, <3>3
    <3>5. ~(e \in S /\ e.id = u[k].id)
      <4>1. N + 1 \in 1..(N + 1) /\ ~(N + 1 <= k)
        BY <2>1, <3>1
      <4> QED
        BY <2>1, <2>2, <3>1, <4>1
    <3>6. u[k].id \in SkillIds(q)
      <4>1. u[k] \in Range(q)
        BY <2>2, <2>4, <3>1, <3>3 DEF Range
      <4> QED
        BY <4>1 DEF Range, SkillIds
    <3>7. e \in S => Manifest(Append(q, e), u[k].id) = Manifest(q, u[k].id)
      BY <2>4, <3>5, <3>6, ManifestAppend
    <3> QED
      BY <2>3, <3>1, <3>4, <3>7
  <2> QED
    BY <2>6, <2>7
<1>3. s \in P
  <2> HIDE DEF P
  <2> QED
    BY <1>1, <1>2, SequenceInduction
<1>4. LastIn(s, i)
  OBVIOUS
<1> QED
  BY <1>3, <1>4

-----------------------------------------------------------------------------
(* What is injected.                                                       *)
LEMMA SectionIs ==
  ASSUME NEW n \in SectionNames, NEW t \in Nat, NEW p \in Nat, NEW k \in STRING \cup {NoSkill}
  PROVE  /\ Section(n, t, p, k) \in ArtifactRef
         /\ Section(n, t, p, k).name = n /\ Section(n, t, p, k).priority = p
         /\ Section(n, t, p, k).skill = k
BY DEF Section, ArtifactRef

LEMMA SkillSectionIs ==
  ASSUME NEW m \in FullSkillManifest
  PROVE  /\ SkillSection(m) \in ArtifactRef /\ SkillSection(m).name = "skill"
         /\ SkillSection(m).priority = 3 /\ SkillSection(m).skill = m.id
<1> DEFINE k == m.tokens + m.avoid
           d == m.id
<1>1. k \in Nat /\ d \in STRING
  BY SkillIs
<1>2. SkillSection(m) = Section("skill", k, 3, d)
  BY DEF SkillSection
<1> HIDE DEF k, d
<1>3. /\ Section("skill", k, 3, d) \in ArtifactRef
      /\ Section("skill", k, 3, d).name = "skill" /\ Section("skill", k, 3, d).priority = 3
      /\ Section("skill", k, 3, d).skill = d
  BY <1>1 DEF Section, ArtifactRef, SectionNames
<1> QED
  BY <1>2, <1>3 DEF d

LEMMA WarningsAre ==
  ASSUME NEW skills \in Seq(FullSkillManifest)
  PROVE  /\ Warnings(skills) \in Seq(ArtifactRef)
         /\ \A e \in Range(Warnings(skills)) : e.name = "skill_avoid"
         /\ \A m \in Range(skills) :
              m.avoid > 0 => \E e \in Range(Warnings(skills)) : e.name = "skill_avoid" /\ e.skill = m.id
<1> DEFINE S == {m \in FullSkillManifest : m.avoid > 0}
           q == Select(skills, S)
           w == [i \in DOMAIN q |-> Section("skill_avoid", q[i].avoid, 1, q[i].id)]
<1>1. \A i \in DOMAIN skills : skills[i] \in FullSkillManifest
  OBVIOUS
<1>2. {i \in DOMAIN skills : skills[i].avoid > 0} = {i \in DOMAIN skills : skills[i] \in S}
  BY <1>1
<1>3. Warnings(skills) = w
  BY <1>2 DEF Warnings, Select
<1>4. q \in Seq(FullSkillManifest \cap S) /\ Range(q) = Range(skills) \cap S
  BY SelectIs, SelectRange
<1>5. Range(skills) \subseteq FullSkillManifest /\ \A m \in FullSkillManifest : m.avoid > 0 => m \in S
  BY <1>1 DEF Range
<1> HIDE DEF q, S
<1>6. Len(q) \in Nat /\ DOMAIN q = 1..Len(q) /\ \A i \in 1..Len(q) : q[i] \in FullSkillManifest
  BY <1>4
<1>7. \A i \in 1..Len(q) : /\ w[i] \in ArtifactRef
                           /\ w[i].name = "skill_avoid" /\ w[i].skill = q[i].id
  <2> SUFFICES ASSUME NEW i \in 1..Len(q)
               PROVE  /\ w[i] \in ArtifactRef
                      /\ w[i].name = "skill_avoid" /\ w[i].skill = q[i].id
    OBVIOUS
  <2>1. q[i] \in FullSkillManifest
    BY <1>6
  <2>2. q[i].avoid \in Nat /\ q[i].id \in STRING
    BY <2>1, SkillIs
  <2>3. w[i] = Section("skill_avoid", q[i].avoid, 1, q[i].id)
    BY <1>6
  <2> HIDE DEF w
  <2> DEFINE a == q[i].avoid
             d == q[i].id
  <2>4. a \in Nat /\ d \in STRING /\ 1 \in Nat /\ "skill_avoid" \in SectionNames
    <3>1. "skill_avoid" \in SectionNames
      BY DEF SectionNames
    <3>2. a \in Nat
      BY <2>2
    <3>3. d \in STRING
      BY <2>2
    <3> QED
      BY <3>1, <3>2, <3>3
  <2>5. w[i] = Section("skill_avoid", a, 1, d) /\ d = q[i].id
    BY <2>3
  <2> HIDE DEF a, d
  <2> QED
    BY <2>4, <2>5, SectionIs
<1>8. DOMAIN w = 1..Len(q)
  BY <1>6
<1> HIDE DEF w
<1>9. w \in Seq(ArtifactRef)
  <2>1. w = [i \in 1..Len(q) |-> w[i]]
    BY <1>6, <1>8 DEF w
  <2> QED
    BY <1>6, <1>7, <2>1, MakesSeq
<1>10. \A e \in Range(w) : e.name = "skill_avoid"
  BY <1>7, <1>8 DEF Range
<1>11. ASSUME NEW m \in Range(skills), m.avoid > 0
       PROVE  \E e \in Range(w) : e.name = "skill_avoid" /\ e.skill = m.id
  <2>1. PICK i \in 1..Len(q) : q[i] = m
    BY <1>4, <1>5, <1>6, <1>11 DEF Range
  <2>2. w[i] \in Range(w)
    BY <1>8 DEF Range
  <2> QED
    BY <1>7, <2>1, <2>2
<1> QED
  BY <1>3, <1>9, <1>10, <1>11

(* Of two sections of skills that are kept alike, the first does not       *)
(* depend on the second.                                                   *)
SkillOrder(skills) ==
  {x \in ArtifactRef \X ArtifactRef :
     x[1].name = "skill" /\ x[2].name = "skill" /\ x[1].priority = x[2].priority
     => x[2].skill \notin Depends(skills, x[1].skill)}

LEMMA SkillOrderAcross == ASSUME NEW skills PROVE AcrossPriorities(SkillOrder(skills))
<1> SUFFICES ASSUME NEW x \in ArtifactRef, NEW y \in ArtifactRef, x.priority < y.priority
             PROVE  <<x, y>> \in SkillOrder(skills)
  BY DEF AcrossPriorities
<1>1. x.priority # y.priority
  BY RefIs
<1> QED
  BY <1>1 DEF SkillOrder

LEMMA NoSkillsApart ==
  ASSUME NEW skills, NEW s \in Seq(ArtifactRef), \A e \in Range(s) : e.name # "skill"
  PROVE  Pairwise(s, SkillOrder(skills))
<1>1. \A i \in DOMAIN s : s[i] \in ArtifactRef /\ s[i].name # "skill"
  BY DEF Range
<1> QED
  BY <1>1 DEF Pairwise, SkillOrder

LEMMA InSkillOrder ==
  ASSUME NEW skills, NEW x \in ArtifactRef, NEW y \in ArtifactRef,
         y.skill \notin Depends(skills, x.skill)
  PROVE  <<x, y>> \in SkillOrder(skills)
BY DEF SkillOrder

(* The texts of the skills.                                                *)
ManifestsOf(skills, sorted) == [i \in DOMAIN sorted |-> Manifest(skills, sorted[i])]
Texts(skills) == [i \in DOMAIN skills |-> SkillSection(skills[i])]

LEMMA SkillTexts ==
  ASSUME NEW skills \in Seq(FullSkillManifest), NEW sorted \in Seq(STRING),
         Range(sorted) \subseteq SkillIds(skills), Pairwise(sorted, InOrder(skills))
  PROVE  LET ordered == ManifestsOf(skills, sorted)
             w == Texts(ordered) IN
         /\ ordered \in Seq(FullSkillManifest)
         /\ \A x \in Range(sorted) : Manifest(skills, x) \in Range(ordered)
         /\ w \in Seq(ArtifactRef) /\ Pairwise(w, SkillOrder(skills))
         /\ \A e \in Range(w) : /\ e.name = "skill" /\ e.priority = 3
                                /\ e.skill \in SkillIds(skills)
<1> DEFINE N == Len(sorted)
           ordered == ManifestsOf(skills, sorted)
           w == Texts(ordered)
<1>1. N \in Nat /\ DOMAIN sorted = 1..N /\ \A i \in 1..N : sorted[i] \in STRING
  OBVIOUS
<1>2. \A i \in 1..N : sorted[i] \in SkillIds(skills)
  BY <1>1 DEF Range
<1> HIDE DEF N
<1>3. DOMAIN ordered = 1..N /\ \A i \in 1..N : ordered[i] = Manifest(skills, sorted[i])
  BY <1>1 DEF ManifestsOf
<1>4. \A i \in 1..N : ordered[i] \in FullSkillManifest /\ ordered[i].id = sorted[i]
  BY <1>2, <1>3, ManifestType
<1>5. ordered \in Seq(FullSkillManifest) /\ Len(ordered) = N
  <2>1. ordered = [i \in 1..N |-> ordered[i]]
    BY <1>1 DEF ManifestsOf
  <2>2. ordered \in Seq(FullSkillManifest)
    BY <1>1, <1>4, <2>1, MakesSeq
  <2> QED
    BY <1>1, <1>3, <2>2
<1> HIDE DEF ordered
<1>6. \A i \in 1..N : /\ w[i] \in ArtifactRef /\ w[i].name = "skill" /\ w[i].priority = 3
                      /\ w[i].skill = sorted[i]
  <2> SUFFICES ASSUME NEW i \in 1..N
               PROVE  /\ w[i] \in ArtifactRef /\ w[i].name = "skill" /\ w[i].priority = 3
                      /\ w[i].skill = sorted[i]
    OBVIOUS
  <2>1. ordered[i] \in FullSkillManifest /\ ordered[i].id = sorted[i]
    BY <1>4
  <2>2. w[i] = SkillSection(ordered[i])
    BY <1>3 DEF Texts
  <2> HIDE DEF w
  <2> QED
    BY <2>1, <2>2, SkillSectionIs
<1>7. DOMAIN w = 1..N
  BY <1>3 DEF Texts
<1> HIDE DEF w
<1>8. w \in Seq(ArtifactRef)
  <2>1. w = [i \in 1..N |-> w[i]]
    BY <1>3, <1>7 DEF w, Texts
  <2>2. \A i \in 1..N : w[i] \in ArtifactRef
    BY <1>6
  <2>3. N \in Nat
    BY <1>1
  <2> QED
    BY <2>1, <2>2, <2>3, MakesSeq
<1>9. Pairwise(w, SkillOrder(skills))
  <2> SUFFICES ASSUME NEW i \in 1..N, NEW j \in 1..N, i < j
               PROVE  <<w[i], w[j]>> \in SkillOrder(skills)
    BY <1>7 DEF Pairwise
  <2>1. <<sorted[i], sorted[j]>> \in InOrder(skills)
    BY <1>1 DEF Pairwise
  <2>2. sorted[j] \notin Depends(skills, sorted[i])
    BY <2>1 DEF InOrder
  <2>3. w[i] \in ArtifactRef /\ w[j] \in ArtifactRef
        /\ w[i].skill = sorted[i] /\ w[j].skill = sorted[j]
    BY <1>6
  <2> QED
    BY <2>2, <2>3, InSkillOrder
<1>10. \A e \in Range(w) : e.name = "skill" /\ e.priority = 3 /\ e.skill \in SkillIds(skills)
  BY <1>2, <1>6, <1>7 DEF Range
<1>11. \A x \in Range(sorted) : Manifest(skills, x) \in Range(ordered)
  BY <1>1, <1>3 DEF Range
<1> QED
  BY <1>5, <1>8, <1>9, <1>10, <1>11 DEF ordered, w

LEMMA InjectedIs ==
  ASSUME library \in Seq(FullSkillManifest), NEW r, NEW budget \in Nat,
         ~SortByDependencyOrder(SkillsForRole(r)).cycle
  PROVE  LET s == InjectedSkills(r, budget).sections
         IN  /\ s \in Seq(ArtifactRef)
             /\ Pairwise(s, SkillOrder(SkillsForRole(r)))
             /\ \A e \in Range(s) :
                  \/ e.name = "skill_avoid"
                  \/ e.name = "skill" /\ e.priority = 3 /\ e.skill \in SkillIds(SkillsForRole(r))
             /\ \A id \in SkillIds(SkillsForRole(r)) :
                  Manifest(SkillsForRole(r), id).avoid > 0
                  => \E e \in Range(s) : e.name = "skill_avoid" /\ e.skill = id
             /\ \A m \in Range(OfRole(r, "quarantined")) :
                  m.avoid > 0 => \E e \in Range(s) : e.name = "skill_avoid" /\ e.skill = m.id
<1> DEFINE skills == SkillsForRole(r)
           sorted == SortByDependencyOrder(skills).result
           ordered == ManifestsOf(skills, sorted)
           texts == Texts(ordered)
           kept == EnforceTokenBudget(texts, budget).kept
           warned == Warnings(ordered)
           warnedOf == Warnings(OfRole(r, "quarantined"))
           s == InjectedSkills(r, budget).sections
<1>1. s = warned \o warnedOf \o kept
  BY DEF InjectedSkills, ManifestsOf, Texts
<1>2. skills \in Seq(FullSkillManifest)
  BY OfRoleIs DEF SkillsForRole
<1>3. OfRole(r, "quarantined") \in Seq(FullSkillManifest)
  BY OfRoleIs
<1> HIDE DEF skills
<1>4. sorted \in Seq(STRING) /\ Pairwise(sorted, InOrder(skills)) /\ Range(sorted) = SkillIds(skills)
  <2>1. SortByDependencyOrder(skills) \in Tour /\ ~SortByDependencyOrder(skills).cycle
    BY <1>2, DependencyOrder DEF skills
  <2> QED
    BY <1>2, <2>1, DependencyOrder DEF Tour
<1> HIDE DEF sorted
<1>5. /\ ordered \in Seq(FullSkillManifest)
      /\ \A x \in Range(sorted) : Manifest(skills, x) \in Range(ordered)
      /\ texts \in Seq(ArtifactRef) /\ Pairwise(texts, SkillOrder(skills))
      /\ \A e \in Range(texts) : /\ e.name = "skill" /\ e.priority = 3
                                 /\ e.skill \in SkillIds(skills)
  <2>1. Range(sorted) \subseteq SkillIds(skills)
    BY <1>4
  <2> QED
    BY <1>2, <1>4, <2>1, SkillTexts
<1> HIDE DEF ordered, texts
<1>6. /\ kept \in Seq(ArtifactRef) /\ Range(kept) \subseteq Range(texts)
      /\ Pairwise(kept, SkillOrder(skills))
  BY <1>5, CutIs, SkillOrderAcross DEF Cut
<1>7. /\ warned \in Seq(ArtifactRef) /\ \A e \in Range(warned) : e.name = "skill_avoid"
      /\ \A m \in Range(ordered) :
           m.avoid > 0 => \E e \in Range(warned) : e.name = "skill_avoid" /\ e.skill = m.id
  BY <1>5, WarningsAre
<1>8. /\ warnedOf \in Seq(ArtifactRef) /\ \A e \in Range(warnedOf) : e.name = "skill_avoid"
      /\ \A m \in Range(OfRole(r, "quarantined")) :
           m.avoid > 0 => \E e \in Range(warnedOf) : e.name = "skill_avoid" /\ e.skill = m.id
  BY <1>3, WarningsAre
<1> HIDE DEF kept, warned, warnedOf, s
<1> DEFINE front == warned \o warnedOf
<1>9. front \in Seq(ArtifactRef) /\ Range(front) = Range(warned) \cup Range(warnedOf)
  <2>1. front \in Seq(ArtifactRef)
    BY <1>7, <1>8
  <2>2. Range(front) = Range(warned) \cup Range(warnedOf)
    BY <1>7, <1>8, RangeConcatenation
  <2> QED
    BY <2>1, <2>2
<1> HIDE DEF front
<1>10. s = front \o kept
  BY <1>1 DEF front
<1>11. s \in Seq(ArtifactRef)
  BY <1>6, <1>9, <1>10
<1>12. Range(s) = Range(front) \cup Range(kept)
  BY <1>6, <1>9, <1>10, RangeConcatenation
<1>13. \A e \in Range(front) : e.name = "skill_avoid" /\ e \in ArtifactRef
  <2>1. Range(warned) \subseteq ArtifactRef
    BY <1>7 DEF Range
  <2>2. Range(warnedOf) \subseteq ArtifactRef
    BY <1>8 DEF Range
  <2> QED
    BY <1>7, <1>8, <1>9, <2>1, <2>2
<1>14. Pairwise(front, SkillOrder(skills))
  BY <1>9, <1>13, NoSkillsApart
<1>15. Pairwise(s, SkillOrder(skills))
  <2>1. \A x \in Range(front), y \in Range(kept) : <<x, y>> \in SkillOrder(skills)
    <3>1. Range(kept) \subseteq ArtifactRef
      BY <1>6 DEF Range
    <3> QED
      BY <1>13, <3>1 DEF SkillOrder
  <2> QED
    BY <1>6, <1>9, <1>10, <1>14, <2>1, PairwiseConcat
<1>16. \A e \in Range(s) :
         \/ e.name = "skill_avoid"
         \/ e.name = "skill" /\ e.priority = 3 /\ e.skill \in SkillIds(skills)
  BY <1>5, <1>6, <1>12, <1>13
<1>17. ASSUME NEW id \in SkillIds(skills), Manifest(skills, id).avoid > 0
       PROVE  \E e \in Range(s) : e.name = "skill_avoid" /\ e.skill = id
  <2>1. Manifest(skills, id) \in Range(ordered) /\ Manifest(skills, id).id = id
    BY <1>2, <1>4, <1>5, ManifestType
  <2>2. PICK e \in Range(warned) : e.name = "skill_avoid" /\ e.skill = id
    BY <1>7, <1>17, <2>1
  <2> QED
    BY <1>9, <1>12, <2>2
<1>18. \A m \in Range(OfRole(r, "quarantined")) :
         m.avoid > 0 => \E e \in Range(s) : e.name = "skill_avoid" /\ e.skill = m.id
  BY <1>8, <1>9, <1>12
<1> QED
  BY <1>11, <1>15, <1>16, <1>17, <1>18 DEF skills, s

-----------------------------------------------------------------------------
(* The invariant.                                                          *)

(* What a section of a packet may be.                                      *)
Belongs(r, s) ==
  \A e \in Range(s) : e.name \in RequiredContextSections[r] \cup Injectable(r)

OfSkills(s, skills) ==
  \A e \in Range(s) : e.name = "skill" => e.priority = 3 /\ e.skill \in SkillIds(skills)

Unskilled(s) == \A e \in Range(s) : e.name # "skill"

(* Skills are in the packet only once they were injected, and stand in     *)
(* their order until they are injected again.                              *)
PacketInv ==
  /\ WindowInv
  /\ library \in Seq(FullSkillManifest) /\ loads \in Nat
  /\ sections \in Seq(ArtifactRef)
  /\ role # NoRole => role \in DOMAIN RequiredContextSections /\ Belongs(role, sections)
  /\ OfSkills(sections, SkillsForRole(role))
  /\ loads = 0 => Unskilled(sections)
  /\ loads <= 1 => Pairwise(sections, SkillOrder(SkillsForRole(role)))

LEMMA RequiredNames ==
  ASSUME NEW r \in DOMAIN RequiredContextSections
  PROVE  "skill" \notin RequiredContextSections[r]
BY DEF RequiredContextSections

LEMMA PacketInitially == PacketInit => PacketInv
<1> SUFFICES ASSUME PacketInit PROVE PacketInv
  OBVIOUS
<1>1. WindowInv
  BY WindowInitially DEF PacketInit
<1>2. sections = <<>> /\ library = <<>> /\ loads = 0 /\ role = NoRole
  BY DEF PacketInit
<1>3. Range(sections) = {}
  BY <1>2 DEF Range
<1>4. Pairwise(sections, SkillOrder(SkillsForRole(role)))
  BY <1>2, PairwiseEmpty
<1>5. OfSkills(sections, SkillsForRole(role)) /\ Unskilled(sections)
  BY <1>3 DEF OfSkills, Unskilled
<1>6. library \in Seq(FullSkillManifest) /\ sections \in Seq(ArtifactRef)
  BY <1>2
<1> QED
  BY <1>1, <1>2, <1>4, <1>5, <1>6 DEF PacketInv

LEMMA Started ==
  ASSUME PacketInv, NEW r \in DOMAIN RequiredContextSections, NEW s \in Seq(ArtifactRef),
         Belongs(r, s), Unskilled(s), NEW out, StartAs(r, s, out)
  PROVE  PacketInv'
<1>1. /\ role' = r /\ sections' = s /\ library' \in Libraries
      /\ loads' = loads /\ UNCHANGED windowVars
  BY DEF StartAs
<1>2. WindowInv'
  BY <1>1 DEF PacketInv, WindowInv, windowVars
<1>3. library' \in Seq(FullSkillManifest)
  BY <1>1, PacketAssumption
<1>4. Unskilled(sections)' /\ Belongs(role, sections)'
  BY <1>1 DEF Unskilled, Belongs
<1>5. OfSkills(sections, SkillsForRole(role))'
  BY <1>4 DEF OfSkills, Unskilled
<1>6. \A skills : Pairwise(s, SkillOrder(skills))
  BY NoSkillsApart DEF Unskilled
<1>7. Pairwise(sections, SkillOrder(SkillsForRole(role)))'
  BY <1>1, <1>6
<1>8. loads' \in Nat /\ sections' \in Seq(ArtifactRef) /\ role' \in DOMAIN RequiredContextSections
  BY <1>1 DEF PacketInv
<1> QED
  BY <1>2, <1>3, <1>4, <1>5, <1>7, <1>8 DEF PacketInv

(* A step that leaves the skills in the packet as they are.                *)
LEMMA Stepped ==
  ASSUME PacketInv, NEW s \in Seq(ArtifactRef), NEW out, Inject(s, out), loads' = loads,
         Belongs(role, s), OfSkills(s, SkillsForRole(role)),
         Unskilled(sections) => Unskilled(s),
         Pairwise(sections, SkillOrder(SkillsForRole(role)))
         => Pairwise(s, SkillOrder(SkillsForRole(role)))
  PROVE  PacketInv'
<1>1. /\ sections' = s /\ library' = library /\ role' = role /\ role # NoRole
      /\ UNCHANGED windowVars
  BY DEF Inject
<1>2. WindowInv'
  BY <1>1 DEF PacketInv, WindowInv, windowVars
<1>3. SkillsForRole(role)' = SkillsForRole(role)
  BY <1>1 DEF SkillsForRole, OfRole
<1>4. OfSkills(sections, SkillsForRole(role))'
  BY <1>1, <1>3
<1>5. loads' <= 1 => Pairwise(sections, SkillOrder(SkillsForRole(role)))'
  BY <1>1, <1>3 DEF PacketInv
<1>6. (loads' = 0 => Unskilled(sections)') /\ Belongs(role, sections)'
  BY <1>1 DEF PacketInv
<1>7. /\ library' \in Seq(FullSkillManifest) /\ loads' \in Nat
      /\ sections' \in Seq(ArtifactRef) /\ role' \in DOMAIN RequiredContextSections
  BY <1>1 DEF PacketInv
<1> QED
  BY <1>2, <1>4, <1>5, <1>6, <1>7 DEF PacketInv

(* More is put behind a packet.                                            *)
LEMMA PutBehind ==
  ASSUME PacketInv, role # NoRole, NEW t \in Seq(ArtifactRef), Belongs(role, t)
  PROVE  /\ sections \o t \in Seq(ArtifactRef)
         /\ Range(sections \o t) = Range(sections) \cup Range(t)
         /\ Belongs(role, sections \o t)
         /\ OfSkills(t, SkillsForRole(role)) => OfSkills(sections \o t, SkillsForRole(role))
<1>1. sections \in Seq(ArtifactRef) /\ Belongs(role, sections)
      /\ OfSkills(sections, SkillsForRole(role))
  BY DEF PacketInv
<1>2. sections \o t \in Seq(ArtifactRef)
  BY <1>1
<1>3. Range(sections \o t) = Range(sections) \cup Range(t)
  BY <1>1, RangeConcatenation
<1> QED
  BY <1>1, <1>2, <1>3 DEF Belongs, OfSkills

LEMMA Extended ==
  ASSUME PacketInv, NEW t \in Seq(ArtifactRef), NEW out, Inject(sections \o t, out), loads' = loads,
         Unskilled(t), Belongs(role, t)
  PROVE  PacketInv'
<1>1. role # NoRole /\ sections \in Seq(ArtifactRef)
  BY DEF Inject, PacketInv
<1>2. OfSkills(t, SkillsForRole(role))
  BY DEF OfSkills, Unskilled
<1>3. /\ sections \o t \in Seq(ArtifactRef)
      /\ Range(sections \o t) = Range(sections) \cup Range(t)
      /\ Belongs(role, sections \o t)
      /\ OfSkills(sections \o t, SkillsForRole(role))
  BY <1>1, <1>2, PutBehind
<1>4. Unskilled(sections) => Unskilled(sections \o t)
  BY <1>3 DEF Unskilled
<1> DEFINE Q == SkillOrder(SkillsForRole(role))
<1>5. Pairwise(t, Q)
  BY NoSkillsApart DEF Unskilled
<1>6. \A x \in Range(sections), y \in Range(t) : <<x, y>> \in Q
  <2>1. Range(sections) \subseteq ArtifactRef /\ Range(t) \subseteq ArtifactRef
    BY <1>1 DEF Range
  <2> QED
    BY <2>1 DEF Unskilled, SkillOrder
<1> HIDE DEF Q
<1>7. Pairwise(sections, Q) => Pairwise(sections \o t, Q)
  BY <1>1, <1>5, <1>6, PairwiseConcat
<1> QED
  BY <1>3, <1>4, <1>7, Stepped DEF Q

(* What a packet for a role may be started from, or be given.              *)
Plains(r, s) == s \in Seq(ArtifactRef) /\ Belongs(r, s) /\ Unskilled(s)

LEMMA PlainEmpty == ASSUME NEW r PROVE Plains(r, <<>>)
<1>1. Range(<<>>) = {}
  BY DEF Range
<1> QED
  BY <1>1 DEF Plains, Belongs, Unskilled

LEMMA PlainConcat ==
  ASSUME NEW r, NEW s, NEW t, Plains(r, s), Plains(r, t)
  PROVE  Plains(r, s \o t)
<1>1. s \in Seq(ArtifactRef) /\ t \in Seq(ArtifactRef)
  BY DEF Plains
<1>2. s \o t \in Seq(ArtifactRef)
  BY <1>1
<1>3. Range(s \o t) = Range(s) \cup Range(t)
  BY <1>1, RangeConcatenation
<1> QED
  BY <1>2, <1>3 DEF Plains, Belongs, Unskilled

LEMMA PlainSection ==
  ASSUME NEW r, NEW n \in SectionNames, NEW k \in Nat, NEW p \in Nat,
         n # "skill", n \in RequiredContextSections[r] \cup Injectable(r)
  PROVE  Plains(r, <<Section(n, k, p, NoSkill)>>)
<1> DEFINE e == Section(n, k, p, NoSkill)
<1>1. e \in ArtifactRef /\ e.name = n
  BY DEF Section, ArtifactRef
<1> HIDE DEF e
<1>2. <<e>> \in Seq(ArtifactRef) /\ Len(<<e>>) = 1 /\ <<e>>[1] = e
  BY <1>1
<1>3. Range(<<e>>) = {e}
  BY <1>2 DEF Range
<1>4. Plains(r, <<e>>)
  BY <1>1, <1>2, <1>3 DEF Plains, Belongs, Unskilled
<1> QED
  BY <1>4 DEF e

LEMMA RequiredIs ==
  ASSUME NEW r \in DOMAIN RequiredContextSections, NEW s \in Seq(ArtifactRef)
  PROVE  Plains(r, Required(r, s))
<1> DEFINE S == {e \in ArtifactRef : e.name \in RequiredContextSections[r]}
           q == Select(s, S)
<1>1. \A i \in DOMAIN s : s[i] \in ArtifactRef
  OBVIOUS
<1>2. {i \in DOMAIN s : s[i].name \in RequiredContextSections[r]} = {i \in DOMAIN s : s[i] \in S}
  BY <1>1
<1>3. Required(r, s) = q
  BY <1>2 DEF Required, Select
<1>4. q \in Seq(ArtifactRef \cap S) /\ Range(q) = Range(s) \cap S
  BY SelectIs, SelectRange
<1>5. ArtifactRef \cap S \subseteq ArtifactRef
  OBVIOUS
<1>6. \A e \in S : e.name \in RequiredContextSections[r] /\ e.name # "skill"
  BY RequiredNames
<1> HIDE DEF S, q
<1>7. q \in Seq(ArtifactRef)
  BY <1>4, <1>5
<1>8. \A e \in Range(q) : e.name \in RequiredContextSections[r] /\ e.name # "skill"
  BY <1>4, <1>6
<1> QED
  BY <1>3, <1>7, <1>8 DEF Plains, Belongs, Unskilled

LEMMA ProfileIs == ASSUME NEW r PROVE Plains(r, ProfileFor(r))
<1>1. CASE r \in {"developer", "debugger"}
  <2>1. "project_conventions" \in SectionNames /\ "project_conventions" # "skill"
        /\ 10 \in Nat /\ 4 \in Nat
    BY DEF SectionNames
  <2>2. "project_conventions" \in RequiredContextSections[r] \cup Injectable(r)
    BY <1>1 DEF Injectable
  <2> QED
    BY <1>1, <2>1, <2>2, PlainSection DEF ProfileFor, Profile
<1>2. CASE r \notin {"developer", "debugger"}
  BY <1>2, PlainEmpty DEF ProfileFor
<1> QED
  BY <1>1, <1>2

LEMMA ModeAwareIs ==
  ASSUME NEW r, NEW mode, NEW profile \in BOOLEAN, NEW docs \in BOOLEAN, NEW impact \in BOOLEAN
  PROVE  Plains(r, ModeAware(r, mode, profile, docs, impact))
<1> DEFINE a == IF profile THEN ProfileFor(r) ELSE <<>>
           b == IF mode \in {"brownfield", "patch"} /\ docs
                THEN <<Section("as-is", 20, 1, NoSkill)>> ELSE <<>>
           c == IF mode = "patch" /\ impact THEN <<Section("impact-set", 10, 2, NoSkill)>> ELSE <<>>
<1>1. Plains(r, a)
  BY ProfileIs, PlainEmpty
<1>2. /\ "as-is" \in SectionNames /\ "as-is" # "skill" /\ "as-is" \in Injectable(r)
      /\ "impact-set" \in SectionNames /\ "impact-set" # "skill" /\ "impact-set" \in Injectable(r)
  BY DEF SectionNames, Injectable
<1>3. Plains(r, <<Section("as-is", 20, 1, NoSkill)>>)
  BY <1>2, PlainSection
<1>4. Plains(r, <<Section("impact-set", 10, 2, NoSkill)>>)
  BY <1>2, PlainSection
<1>5. Plains(r, b) /\ Plains(r, c)
  BY <1>3, <1>4, PlainEmpty
<1>6. ModeAware(r, mode, profile, docs, impact) = (a \o b) \o c
  BY DEF ModeAware
<1> HIDE DEF a, b, c
<1>7. Plains(r, a \o b)
  BY <1>1, <1>5, PlainConcat
<1> QED
  BY <1>5, <1>6, <1>7, PlainConcat

LEMMA ReviewIs ==
  ASSUME NEW objective \in BOOLEAN, NEW scope \in BOOLEAN
  PROVE  Plains("reviewer", ReviewSections(objective, scope))
<1> DEFINE Part(name) == Section(name, 10, 3, NoSkill)
           a == Part("failing_test_output")
           b == Part("acceptance_criteria")
           c == Part("diff_under_review")
           d == Part("gene_signals")
           o == IF objective THEN <<Part("story_objective")>> ELSE <<>>
           w == IF scope THEN <<Part("write_set_scope")>> ELSE <<>>
           Own == {"failing_test_output", "acceptance_criteria", "diff_under_review",
                   "gene_signals", "story_objective", "write_set_scope"}
<1>1. Own \subseteq SectionNames /\ "skill" \notin Own
  BY DEF SectionNames
<1>2. Own \subseteq RequiredContextSections["reviewer"] \cup Injectable("reviewer")
  BY DEF RequiredContextSections, Injectable
<1>3. ASSUME NEW name \in Own PROVE Plains("reviewer", <<Part(name)>>)
  BY <1>1, <1>2, PlainSection
<1>4. /\ Plains("reviewer", <<a>>) /\ Plains("reviewer", <<b>>)
      /\ Plains("reviewer", <<c>>) /\ Plains("reviewer", <<d>>)
  BY <1>3
<1>5. Plains("reviewer", o) /\ Plains("reviewer", w)
  BY <1>3, PlainEmpty
<1>6. ReviewSections(objective, scope) = (<<a, b, c, d>> \o o) \o w
  BY DEF ReviewSections
<1> HIDE DEF a, b, c, d, o, w
<1>7. /\ {a, b, c, d} \subseteq ArtifactRef
      /\ \A e \in {a, b, c, d} : e.name \in RequiredContextSections["reviewer"] \cup Injectable("reviewer")
      /\ \A e \in {a, b, c, d} : e.name # "skill"
  <2>1. ASSUME NEW e, Plains("reviewer", <<e>>)
        PROVE  /\ e \in ArtifactRef /\ e.name # "skill"
               /\ e.name \in RequiredContextSections["reviewer"] \cup Injectable("reviewer")
    <3>1. <<e>> \in Seq(ArtifactRef) /\ Len(<<e>>) = 1 /\ <<e>>[1] = e
      BY <2>1 DEF Plains
    <3>2. e \in ArtifactRef /\ e \in Range(<<e>>)
      BY <3>1 DEF Range
    <3> QED
      BY <2>1, <3>2 DEF Plains, Belongs, Unskilled
  <2> QED
    BY <1>4, <2>1
<1>8. <<a, b, c, d>> \in Seq(ArtifactRef) /\ Range(<<a, b, c, d>>) = {a, b, c, d}
  <2>1. <<a, b, c, d>> \in Seq(ArtifactRef)
    BY <1>7
  <2>2. DOMAIN <<a, b, c, d>> = {1, 2, 3, 4}
    OBVIOUS
  <2> QED
    BY <2>1, <2>2 DEF Range
<1>9. Plains("reviewer", <<a, b, c, d>>)
  BY <1>7, <1>8 DEF Plains, Belongs, Unskilled
<1>10. Plains("reviewer", <<a, b, c, d>> \o o)
  BY <1>5, <1>9, PlainConcat
<1> QED
  BY <1>5, <1>6, <1>10, PlainConcat

-----------------------------------------------------------------------------
(* The steps.                                                              *)
LEMMA PlainStarted ==
  ASSUME PacketInv, NEW r \in DOMAIN RequiredContextSections, NEW s, Plains(r, s),
         NEW out, StartAs(r, s, out)
  PROVE  PacketInv'
BY Started DEF Plains

LEMMA PlainExtended ==
  ASSUME PacketInv, NEW t, NEW out, Plains(role, t), Inject(sections \o t, out), loads' = loads
  PROVE  PacketInv'
BY Extended DEF Plains

(* One section more.                                                       *)
LEMMA OneMore ==
  ASSUME PacketInv, NEW n \in SectionNames, NEW k \in Nat, NEW p \in Nat, NEW out,
         n # "skill", n \in Injectable(role),
         Inject(Append(sections, Section(n, k, p, NoSkill)), out), loads' = loads
  PROVE  PacketInv'
<1> DEFINE e == Section(n, k, p, NoSkill)
<1>1. Plains(role, <<e>>)
  BY PlainSection
<1>2. Inject(Append(sections, e), out)
  OBVIOUS
<1> HIDE DEF e
<1>3. sections \in Seq(ArtifactRef) /\ e \in ArtifactRef
  <2>1. <<e>> \in Seq(ArtifactRef) /\ <<e>>[1] = e /\ Len(<<e>>) = 1
    BY <1>1 DEF Plains
  <2> QED
    BY <2>1 DEF PacketInv
<1>4. Append(sections, e) = sections \o <<e>>
  BY <1>3
<1>5. Inject(sections \o <<e>>, out)
  BY <1>2, <1>4
<1> QED
  BY <1>1, <1>5, PlainExtended

LEMMA CutKept ==
  ASSUME PacketInv, NEW budget \in Nat, CutToBudget(budget)
  PROVE  PacketInv'
<1> DEFINE c == EnforceTokenBudget(sections, budget)
           Q == SkillOrder(SkillsForRole(role))
<1>1. Inject(c.kept, excluded \o Names(c.deferred)) /\ loads' = loads
  BY DEF CutToBudget
<1>2. role # NoRole
  BY <1>1 DEF Inject
<1>3. /\ sections \in Seq(ArtifactRef) /\ Belongs(role, sections)
      /\ OfSkills(sections, SkillsForRole(role))
  BY <1>2 DEF PacketInv
<1>4. /\ c \in Cut /\ Range(c.kept) \subseteq Range(sections)
      /\ \A R : AcrossPriorities(R) /\ Pairwise(sections, R) => Pairwise(c.kept, R)
  BY <1>3, CutIs
<1>5. AcrossPriorities(Q)
  BY SkillOrderAcross
<1> HIDE DEF c, Q
<1>6. c.kept \in Seq(ArtifactRef)
  BY <1>4 DEF Cut
<1>7. Belongs(role, c.kept) /\ OfSkills(c.kept, SkillsForRole(role))
      /\ (Unskilled(sections) => Unskilled(c.kept))
  BY <1>3, <1>4 DEF Belongs, OfSkills, Unskilled
<1>8. Pairwise(sections, Q) => Pairwise(c.kept, Q)
  BY <1>4, <1>5
<1> QED
  BY <1>1, <1>6, <1>7, <1>8, Stepped DEF Q

LEMMA SkillsKept ==
  ASSUME PacketInv, NEW budget \in Nat, InjectSkills(budget)
  PROVE  PacketInv'
<1> DEFINE injected == InjectedSkills(role, budget)
           s == injected.sections
           skills == SkillsForRole(role)
           Q == SkillOrder(skills)
<1>1. /\ role # NoRole /\ ~SortByDependencyOrder(skills).cycle
      /\ Inject(sections \o s, excluded \o injected.excluded) /\ loads' = loads + 1
  BY DEF InjectSkills
<1>2. /\ sections \in Seq(ArtifactRef) /\ library \in Seq(FullSkillManifest) /\ loads \in Nat
      /\ role \in DOMAIN RequiredContextSections /\ OfSkills(sections, skills)
      /\ (loads = 0 => Unskilled(sections))
  BY <1>1 DEF PacketInv
<1>3. /\ s \in Seq(ArtifactRef) /\ Pairwise(s, Q)
      /\ \A e \in Range(s) :
           \/ e.name = "skill_avoid"
           \/ e.name = "skill" /\ e.priority = 3 /\ e.skill \in SkillIds(skills)
  BY <1>1, <1>2, InjectedIs
<1>4. /\ sections' = sections \o s /\ library' = library /\ role' = role
      /\ UNCHANGED windowVars
  BY <1>1 DEF Inject
<1>5. SkillsForRole(role)' = skills
  BY <1>4 DEF SkillsForRole, OfRole
<1> HIDE DEF injected, s, skills
<1>6. Belongs(role, s) /\ OfSkills(s, skills)
  BY <1>3 DEF Belongs, OfSkills, Injectable
<1>7. /\ sections \o s \in Seq(ArtifactRef) /\ Belongs(role, sections \o s)
      /\ OfSkills(sections \o s, skills)
  BY <1>1, <1>3, <1>6, PutBehind DEF skills
<1>8. loads = 0 => Pairwise(sections \o s, Q)
  <2> SUFFICES ASSUME loads = 0 PROVE Pairwise(sections \o s, Q)
    OBVIOUS
  <2>1. Unskilled(sections)
    BY <1>2
  <2>2. Pairwise(sections, Q)
    BY <1>2, <2>1, NoSkillsApart DEF Unskilled
  <2>3. \A x \in Range(sections), y \in Range(s) : <<x, y>> \in Q
    <3>1. Range(sections) \subseteq ArtifactRef /\ Range(s) \subseteq ArtifactRef
      BY <1>2, <1>3 DEF Range
    <3> QED
      BY <2>1, <3>1 DEF Unskilled, SkillOrder
  <2> HIDE DEF Q
  <2> QED
    BY <1>2, <1>3, <2>2, <2>3, PairwiseConcat
<1>9. WindowInv'
  BY <1>4 DEF PacketInv, WindowInv, windowVars
<1>10. OfSkills(sections, SkillsForRole(role))'
  BY <1>4, <1>5, <1>7
<1>11. loads' <= 1 => Pairwise(sections, SkillOrder(SkillsForRole(role)))'
  BY <1>1, <1>2, <1>4, <1>5, <1>8
<1>12. Belongs(role, sections)'
  BY <1>4, <1>7
<1>13. /\ library' \in Seq(FullSkillManifest) /\ loads' \in Nat /\ loads' # 0
       /\ sections' \in Seq(ArtifactRef) /\ role' \in DOMAIN RequiredContextSections
  BY <1>1, <1>2, <1>4, <1>7
<1> QED
  BY <1>9, <1>10, <1>11, <1>12, <1>13 DEF PacketInv

LEMMA PacketKept ==
  PacketInv /\ [PacketNext]_<<windowVars, packetVars>> => PacketInv'
<1> SUFFICES ASSUME PacketInv, [PacketNext]_<<windowVars, packetVars>> PROVE PacketInv'
  OBVIOUS
<1>1. ASSUME UNCHANGED packetVars, WindowInv' PROVE PacketInv'
  <2>1. SkillsForRole(role)' = SkillsForRole(role)
    BY <1>1 DEF packetVars, SkillsForRole, OfRole
  <2> QED
    BY <1>1, <2>1 DEF packetVars, PacketInv, OfSkills, Belongs, Unskilled
<1>2. CASE UNCHANGED <<windowVars, packetVars>>
  <2>1. WindowInv'
    BY <1>2, WindowKept DEF PacketInv
  <2> QED
    BY <1>1, <1>2, <2>1
<1>3. CASE role = NoRole /\ WindowNext /\ UNCHANGED packetVars
  <2>1. WindowInv'
    BY <1>3, WindowKept DEF PacketInv
  <2> QED
    BY <1>1, <1>3, <2>1
<1>4. ASSUME NEW r \in PacketRoles, NEW available \in Artifacts, BuildRoleContextPacket(r, available)
      PROVE  PacketInv'
  <2>1. r \in DOMAIN RequiredContextSections /\ available \in Seq(ArtifactRef)
    BY PacketAssumption
  <2>2. Plains(r, Required(r, available))
    BY <2>1, RequiredIs
  <2> QED
    BY <1>4, <2>1, <2>2, PlainStarted DEF BuildRoleContextPacket
<1>5. ASSUME NEW r \in PacketRoles, BuildModeAwarePacket(r) PROVE PacketInv'
  <2>1. PICK mode \in {"greenfield", "brownfield", "patch"}, profile \in BOOLEAN,
             docs \in BOOLEAN, impact \in BOOLEAN :
               StartAs(r, ModeAware(r, mode, profile, docs, impact), <<>>)
    BY <1>5 DEF BuildModeAwarePacket
  <2>2. Plains(r, ModeAware(r, mode, profile, docs, impact))
    BY ModeAwareIs
  <2>3. r \in DOMAIN RequiredContextSections
    BY PacketAssumption
  <2> QED
    BY <2>1, <2>2, <2>3, PlainStarted
<1>6. CASE BuildReviewerContextPacket
  <2>1. PICK objective \in BOOLEAN, scope \in BOOLEAN :
          StartAs("reviewer", ReviewSections(objective, scope), <<>>)
    BY <1>6 DEF BuildReviewerContextPacket
  <2>2. "reviewer" \in DOMAIN RequiredContextSections
    BY DEF RequiredContextSections
  <2> QED
    BY <2>1, <2>2, ReviewIs, PlainStarted
<1>7. CASE InjectProjectProfile
  BY <1>7, ProfileIs, PlainExtended DEF InjectProjectProfile
<1>8. CASE InjectOwnPreviousStorySummary
  <2> DEFINE n == "own_previous_story_summary"
             k == Tokens(Length(OwnSummary))
  <2>1. k \in Nat
    <3>1. OwnSummary \in Seq(Piece)
      <4>1. turns \in Seq(TurnsOf(Piece))
        BY DEF PacketInv, WindowInv
      <4> QED
        BY <4>1, ClosedKinds, SummaryIs
    <3> QED
      BY <3>1, LengthType
  <2>2. n \in SectionNames /\ n # "skill"
    BY DEF SectionNames
  <2>3. n \in Injectable(role)
    BY <1>8 DEF InjectOwnPreviousStorySummary, Injectable
  <2>4. Inject(Append(sections, Section(n, k, 2, NoSkill)), excluded) /\ loads' = loads
    BY <1>8 DEF InjectOwnPreviousStorySummary
  <2> HIDE DEF n, k
  <2> QED
    BY <2>1, <2>2, <2>3, <2>4, OneMore
<1>9. CASE AddPinnedZone
  <2> DEFINE n == "arch_decisions"
             k == SectionLength \div 4
  <2>1. k \in Nat
    BY WindowAssumption
  <2>2. n \in SectionNames /\ n # "skill"
    BY DEF SectionNames
  <2>3. n \in Injectable(role)
    BY DEF Injectable
  <2>4. Inject(Append(sections, Section(n, k, 0, NoSkill)), excluded) /\ loads' = loads
    BY <1>9 DEF AddPinnedZone
  <2> HIDE DEF n, k
  <2> QED
    BY <2>1, <2>2, <2>3, <2>4, OneMore
<1>10. ASSUME NEW budget \in Budgets, InjectSkills(budget) \/ CutToBudget(budget) PROVE PacketInv'
  <2>1. budget \in Nat
    BY PacketAssumption
  <2> QED
    BY <1>10, <2>1, SkillsKept, CutKept
<1> QED
  BY <1>2, <1>3, <1>4, <1>5, <1>6, <1>7, <1>8, <1>9, <1>10 DEF PacketNext

(* A packet holds nothing that is not for its role, for every library,     *)
(* whatever is at hand, and after any number of injections and cuts.       *)
LEMMA ForRole == PacketInv => PacketForRole
<1> SUFFICES ASSUME PacketInv, role # NoRole, NEW i \in DOMAIN sections
             PROVE  /\ sections[i].name \in RequiredContextSections[role] \cup Injectable(role)
                    /\ sections[i].name = "skill" =>
                         \E k \in DOMAIN library :
                           /\ library[k].id = sections[i].skill
                           /\ library[k].role = role /\ library[k].status = "registered"
  BY DEF PacketForRole
<1>1. sections[i] \in Range(sections)
  BY DEF Range
<1>2. Belongs(role, sections) /\ OfSkills(sections, SkillsForRole(role))
      /\ library \in Seq(FullSkillManifest)
  BY DEF PacketInv
<1>3. sections[i].name \in RequiredContextSections[role] \cup Injectable(role)
  BY <1>1, <1>2 DEF Belongs
<1>4. ASSUME sections[i].name = "skill"
      PROVE  \E k \in DOMAIN library :
               /\ library[k].id = sections[i].skill
               /\ library[k].role = role /\ library[k].status = "registered"
  <2> DEFINE skills == SkillsForRole(role)
  <2>1. sections[i].skill \in SkillIds(skills)
    BY <1>1, <1>2, <1>4 DEF OfSkills
  <2>2. Range(skills) = Range(library) \cap Kind(role, "registered")
    BY <1>2, OfRoleIs DEF SkillsForRole
  <2> HIDE DEF skills
  <2>3. PICK m \in Range(skills) : m.id = sections[i].skill
    BY <2>1 DEF SkillIds, Range
  <2>4. m \in Range(library) /\ m.role = role /\ m.status = "registered"
    BY <2>2, <2>3 DEF Kind
  <2> QED
    BY <2>3, <2>4 DEF Range
<1> QED
  BY <1>3, <1>4

(* No skill stands before one it depends on, for every library without a   *)
(* cycle, whatever is cut, as long as the skills are injected once.        *)
LEMMA InDependencyOrder == PacketInv => DependenciesFirst
<1> SUFFICES ASSUME PacketInv, loads <= 1, NEW i \in DOMAIN sections, NEW j \in DOMAIN sections,
                    i < j, sections[i].name = "skill", sections[j].name = "skill"
             PROVE  sections[j].skill \notin
                      Range(Manifest(SkillsForRole(role), sections[i].skill).dependsOn)
  BY DEF DependenciesFirst
<1>1. /\ OfSkills(sections, SkillsForRole(role))
      /\ Pairwise(sections, SkillOrder(SkillsForRole(role)))
  BY DEF PacketInv
<1>2. sections[i].priority = 3 /\ sections[j].priority = 3
  BY <1>1 DEF OfSkills, Range
<1>3. <<sections[i], sections[j]>> \in SkillOrder(SkillsForRole(role))
  BY <1>1 DEF Pairwise
<1> QED
  BY <1>2, <1>3 DEF SkillOrder, Depends

(* Whatever is in a library, at hand and injected, in any order and after  *)
(* any cuts: a packet holds nothing that is not for its role, and until    *)
(* skills are injected again none stands before one it depends on.         *)
THEOREM Sound == PacketSpec => []PacketSound
<1>1. PacketInv => PacketSound
  BY ForRole, InDependencyOrder DEF PacketSound
<1> QED
  BY <1>1, PacketInitially, PacketKept, PTL DEF PacketSpec

-----------------------------------------------------------------------------
(* Warnings.                                                               *)
CutWell(budget) ==
  /\ SectionTokens(sections') <= budget
  /\ SectionTokens(Protected01(sections)) <= budget
     => Range(Protected01(sections)) \subseteq Range(sections')

Warned ==
  \A i \in DOMAIN library :
    library[i].avoid > 0 /\ (Found(i) \/ Quarantined(i))
    => \E k \in DOMAIN sections' :
         sections'[k].name = "skill_avoid" /\ sections'[k].skill = library[i].id

LEMMA CutsWell ==
  ASSUME PacketInv, NEW budget \in Nat, CutToBudget(budget)
  PROVE  CutWell(budget)
<1> DEFINE c == EnforceTokenBudget(sections, budget)
<1>1. sections' = c.kept
  BY DEF CutToBudget, Inject
<1>2. sections \in Seq(ArtifactRef)
  BY DEF PacketInv
<1>3. /\ SectionTokens(c.kept) <= budget
      /\ Weight(sections) <= budget => Range(sections) \cap Protected \subseteq Range(c.kept)
  BY <1>2, CutIs
<1>4. Protected01(sections) = Select(sections, Protected)
  BY <1>2, ProtectedIs
<1>5. Range(Protected01(sections)) = Range(sections) \cap Protected
  BY <1>2, <1>4, SelectRange
<1>6. SectionTokens(Protected01(sections)) = Weight(sections)
  BY <1>4 DEF Weight
<1> HIDE DEF c
<1> QED
  BY <1>1, <1>3, <1>5, <1>6 DEF CutWell

LEMMA WarnsOf ==
  ASSUME PacketInv, NEW budget \in Nat, InjectSkills(budget)
  PROVE  Warned
<1> DEFINE injected == InjectedSkills(role, budget)
           s == injected.sections
           skills == SkillsForRole(role)
<1>1. /\ ~SortByDependencyOrder(skills).cycle
      /\ Inject(sections \o s, excluded \o injected.excluded)
  BY DEF InjectSkills
<1>2. /\ sections \in Seq(ArtifactRef) /\ library \in Seq(FullSkillManifest)
  BY DEF PacketInv
<1>3. /\ s \in Seq(ArtifactRef)
      /\ \A id \in SkillIds(skills) :
           Manifest(skills, id).avoid > 0
           => \E e \in Range(s) : e.name = "skill_avoid" /\ e.skill = id
      /\ \A m \in Range(OfRole(role, "quarantined")) :
           m.avoid > 0 => \E e \in Range(s) : e.name = "skill_avoid" /\ e.skill = m.id
  BY <1>1, <1>2, InjectedIs
<1>4. sections' = sections \o s
  BY <1>1 DEF Inject
<1>5. /\ skills = Select(library, Kind(role, "registered"))
      /\ Range(skills) = Range(library) \cap Kind(role, "registered")
  BY <1>2, OfRoleIs DEF SkillsForRole
<1>6. Range(OfRole(role, "quarantined")) = Range(library) \cap Kind(role, "quarantined")
  BY <1>2, OfRoleIs
<1> HIDE DEF injected, s, skills
<1>7. Range(s) \subseteq Range(sections')
  <2>1. Range(sections \o s) = Range(sections) \cup Range(s)
    BY <1>2, <1>3, RangeConcatenation
  <2> QED
    BY <1>4, <2>1
<1> SUFFICES ASSUME NEW i \in DOMAIN library, library[i].avoid > 0, Found(i) \/ Quarantined(i)
             PROVE  \E e \in Range(s) : e.name = "skill_avoid" /\ e.skill = library[i].id
  BY <1>7 DEF Warned, Range
<1> DEFINE m == library[i]
<1>8. m \in FullSkillManifest /\ m \in Range(library) /\ m.avoid > 0
      /\ \A j \in DOMAIN library : library[j] \in FullSkillManifest
  BY <1>2 DEF Range
<1>9. CASE Found(i)
  <2>1. m \in Kind(role, "registered")
    BY <1>8, <1>9 DEF Found, Kind
  <2>2. \A j \in DOMAIN library :
          library[j] \in Kind(role, "registered") /\ library[j].id = m.id => j <= i
    BY <1>9 DEF Found, Kind
  <2>3. Manifest(skills, m.id) = m
    BY <1>2, <1>5, <2>1, <2>2, LastOfKind
  <2>4. m.id \in SkillIds(skills)
    <3>1. m \in Range(skills)
      BY <1>5, <1>8, <2>1
    <3> QED
      BY <3>1 DEF Range, SkillIds
  <2> QED
    BY <1>3, <1>8, <2>3, <2>4
<1>10. CASE Quarantined(i)
  <2>1. m \in Range(OfRole(role, "quarantined"))
    BY <1>6, <1>8, <1>10 DEF Quarantined, Kind
  <2> QED
    BY <1>3, <1>8, <2>1
<1> QED
  BY <1>9, <1>10

(* What warns of a skill and what is pinned survive every cut that has     *)
(* room for them, and every skill that is found for a role warns when the  *)
(* skills are injected, for every library and budget.                      *)
THEOREM Warning == PacketSpec => WarningsKept
<1> DEFINE A == /\ \A budget \in Budgets : CutToBudget(budget) => CutWell(budget)
                /\ loads' # loads => Warned
<1>1. PacketInv /\ [PacketNext]_<<windowVars, packetVars>> => [A]_<<windowVars, packetVars>>
  <2> SUFFICES ASSUME PacketInv, PacketNext PROVE A
    OBVIOUS
  <2>1. Budgets \subseteq Nat
    BY PacketAssumption
  <2>2. \A budget \in Budgets : CutToBudget(budget) => CutWell(budget)
    BY <2>1, CutsWell
  <2>3. ASSUME loads' # loads PROVE Warned
    <3>1. ~(UNCHANGED packetVars)
      BY <2>3 DEF packetVars
    <3>2. \A r, available : ~BuildRoleContextPacket(r, available)
      BY <2>3 DEF BuildRoleContextPacket, StartAs
    <3>3. \A r : ~BuildModeAwarePacket(r)
      BY <2>3 DEF BuildModeAwarePacket, StartAs
    <3>4. ~BuildReviewerContextPacket
      BY <2>3 DEF BuildReviewerContextPacket, StartAs
    <3>5. /\ ~InjectProjectProfile /\ ~InjectOwnPreviousStorySummary /\ ~AddPinnedZone
          /\ \A budget \in Budgets : ~CutToBudget(budget)
      BY <2>3 DEF InjectProjectProfile, InjectOwnPreviousStorySummary, AddPinnedZone, CutToBudget
    <3>6. PICK budget \in Budgets : InjectSkills(budget)
      BY <3>1, <3>2, <3>3, <3>4, <3>5 DEF PacketNext
    <3> QED
      BY <2>1, <3>6, WarnsOf
  <2> QED
    BY <2>2, <2>3
<1>2. PacketSpec => [][A]_<<windowVars, packetVars>>
  BY <1>1, PacketInitially, PacketKept, PTL DEF PacketSpec
<1> QED
  BY <1>2 DEF WarningsKept, CutWell, Warned
=============================================================================
