----------------------------- MODULE SkillGate -----------------------------
(***************************************************************************)
(* The gate a skill passes before it is registered (registerSkill of       *)
(* skill-tester): its tests are run once, then robustnessRuns times more,  *)
(* its scripts are searched for leaks, and a status is decided; what is    *)
(* quarantined gets a line in its .memory.md.  Its author may rework it    *)
(* and have it judged again.  A run answers how many tests passed of how   *)
(* many: the caller's executor counts them, and may throw instead;         *)
(* DEFAULT_EXECUTOR reads them out of what pytest printed, and catches     *)
(* that it exits with an error, when anything failed or nothing was        *)
(* collected, or could not be run at all.                                  *)
(***************************************************************************)
EXTENDS Naturals, Sequences, FiniteSets

CONSTANTS
  Tests,             \* the test cases under tests/
  RegisterPassRate,  \* percent: cfg.registerPassRate
  QuarantineBelow,   \* percent: cfg.quarantineBelow
  RobustnessRuns,    \* cfg.robustnessRuns
  MaxVerdicts        \* bound of the model: lines of .memory.md

ASSUME SkillGateAssumption ==
  /\ IsFiniteSet(Tests)
  /\ RegisterPassRate \in 0..100 /\ QuarantineBelow \in 0..100
  /\ RobustnessRuns \in Nat \ {0} /\ MaxVerdicts \in Nat

VARIABLES
  skill,     \* the package: its cases by nature, whether skill.json lists
             \* any, whether a script holds what leakageAudit looks for
  executor,  \* "default" or one that counts
  stage,     \* where registerSkill is
  result,    \* what the first run answered
  passing,   \* fresh runs that passed, as far as the answers tell
  fresh,     \* fresh runs made
  status,
  memory,    \* the lines of .memory.md, by their reason
  first,     \* history: the first run
  unfailing  \* history: fresh runs in which there were cases and all passed

gateVars == <<skill, executor, stage, result, passing, fresh, status, memory, first, unfailing>>

(* A case passes always, now and then, or never.                           *)
Natures == {"sound", "flaky", "broken"}
Skills == [nature : UNION {[C -> Natures] : C \in SUBSET Tests}, listed : BOOLEAN, leaks : BOOLEAN]
Cases == DOMAIN skill.nature

(* What may fail in one run.                                               *)
Failures ==
  {F \in SUBSET Cases : \A c \in Cases : /\ skill.nature[c] = "broken" => c \in F
                                         /\ skill.nature[c] = "sound" => c \notin F}

(* One run: pytest comes to its summary and these cases failed, or it is   *)
(* missing, killed or interrupted by an error of its own.                  *)
NotRun == [ran |-> FALSE, failed |-> {}]
Runs ==
  {[ran |-> TRUE, failed |-> F] : F \in Failures} \cup
  (IF executor = "default" THEN {NotRun} ELSE {})

Answer(passed, total) == [passed |-> passed, total |-> total]
NoTests == Answer(0, 0)

(* SkillExecutor.runTests.  The catch of DEFAULT_EXECUTOR reads how many   *)
(* passed, none of an error without output, and never how many failed.     *)
RunTests(run) ==
  LET passed == Cardinality(Cases \ run.failed)
  IN IF executor = "counting" THEN Answer(passed, Cardinality(Cases))
     ELSE IF ~run.ran THEN Answer(0, 1)
     ELSE IF run.failed = {} /\ Cases # {} THEN Answer(passed, Cardinality(Cases))
     ELSE Answer(passed, IF passed > 1 THEN passed ELSE 1)

Flawless(run) == run.ran /\ run.failed = {} /\ Cases # {}

-----------------------------------------------------------------------------
Passed(r) == r.passed = r.total
Below(part, whole, percent) == part * 100 < percent * whole

(* Mutant of DecideStatus: robustness is not looked at.                    *)
DecideStatusOnce(t, runs, audit) ==
  IF audit = "fail" THEN "quarantined"
  ELSE IF t.total = 0 \/ Below(t.passed, t.total, RegisterPassRate) THEN "draft"
  ELSE "registered"

DecideStatus(t, runs, audit) ==
  IF audit = "fail" THEN "quarantined"
  ELSE IF t.total = 0 \/ Below(t.passed, t.total, RegisterPassRate) THEN "draft"
  ELSE IF Below(runs, RobustnessRuns, QuarantineBelow) THEN "quarantined"
  ELSE "registered"

(* registerSkill: a draft whose fresh runs are as bad is quarantined too.  *)
Registered(t, runs, audit) ==
  LET decided == DecideStatus(t, runs, audit)
  IN IF decided = "draft" /\ t.total > 0 /\ Below(runs, RobustnessRuns, QuarantineBelow)
     THEN "quarantined" ELSE decided

Reason(t, audit) ==
  CASE audit = "fail" -> "leakage detected"
    [] audit # "fail" /\ t.total = 0 -> "no tests"
    [] audit # "fail" /\ t.passed < t.total -> "test failures"
    [] OTHER -> "low robustness"

LeakageAudit == IF skill.leaks THEN "fail" ELSE "pass"

-----------------------------------------------------------------------------
GateInit ==
  /\ skill \in Skills /\ executor \in {"default", "counting"}
  /\ stage = "idle" /\ result = NoTests /\ passing = 0 /\ fresh = 0
  /\ status = "draft" /\ memory = <<>> /\ first = NotRun /\ unfailing = 0

(* runSkillTests: a skill that lists no tests is not run.                  *)
RunSkillTests(run) ==
  /\ stage = "idle" /\ Len(memory) < MaxVerdicts
  /\ result' = IF skill.listed THEN RunTests(run) ELSE NoTests
  /\ first' = IF skill.listed THEN run ELSE NotRun
  /\ stage' = "robustness" /\ passing' = 0 /\ fresh' = 0 /\ unfailing' = 0
  /\ UNCHANGED <<skill, executor, status, memory>>

(* One fresh run of robustnessCheck, which does not ask what is listed.    *)
RobustnessRun(run) ==
  /\ stage = "robustness" /\ fresh < RobustnessRuns
  /\ fresh' = fresh + 1
  /\ passing' = passing + (IF Passed(RunTests(run)) THEN 1 ELSE 0)
  /\ unfailing' = unfailing + (IF Flawless(run) THEN 1 ELSE 0)
  /\ UNCHANGED <<skill, executor, stage, result, status, memory, first>>

(* A caller's executor throws in a fresh run, and registerSkill with it.   *)
(* When it does in the first, nothing has changed.                         *)
ExecutorThrows ==
  /\ stage = "robustness" /\ fresh < RobustnessRuns /\ executor = "counting"
  /\ stage' = "thrown"
  /\ UNCHANGED <<skill, executor, result, passing, fresh, status, memory, first, unfailing>>

Judge ==
  /\ stage = "robustness" /\ fresh = RobustnessRuns
  /\ status' = Registered(result, passing, LeakageAudit)
  /\ memory' = IF status' = "quarantined" THEN Append(memory, Reason(result, LeakageAudit)) ELSE memory
  /\ stage' = "judged"
  /\ UNCHANGED <<skill, executor, result, passing, fresh, first, unfailing>>

(* The author reworks the skill; the harness is asked again.               *)
Refine ==
  /\ stage \in {"judged", "thrown"}
  /\ skill' \in Skills
  /\ stage' = "idle"
  /\ UNCHANGED <<executor, result, passing, fresh, status, memory, first, unfailing>>

GateNext ==
  \/ \E run \in Runs : RunSkillTests(run) \/ RobustnessRun(run)
  \/ ExecutorThrows
  \/ Judge
  \/ Refine

GateSpec == GateInit /\ [][GateNext]_gateVars

-----------------------------------------------------------------------------
(* Properties.                                                             *)

(* "a skill is registered ONLY if its tests pass in a disposable           *)
(* workspace, it survives a robustness check, and it passes the leakage    *)
(* audit" (skill-tester/src/index.ts:2).  It is not so under the default   *)
(* executor: pytest that failed is caught, and of "3 passed, 1 failed"     *)
(* only the 3 are read, as 3 of 3.                                         *)
RegisteredPasses == stage = "judged" /\ status = "registered" => first.failed = {} /\ ~skill.leaks

(* The verdict is earned.  What is registered lists tests, leaks nothing   *)
(* and passed often enough in fresh runs; with an executor that counts, no *)
(* more of its cases failed, or always fail, than the rate lets fail; and  *)
(* with any executor, if some must pass, the first run was made and one    *)
(* did.  What is quarantined says why in its memory: low robustness only   *)
(* of fresh runs too few of which were flawless, test failures only when   *)
(* the first run was not, though no case may have failed in it, when       *)
(* pytest could not be run.  What is listed, leaks nothing and was         *)
(* flawless in the first run and in enough fresh ones is registered.  A    *)
(* skill without tests stays a draft unless it leaks.                      *)
VerdictEarned ==
  stage = "judged" =>
    /\ status = "registered" =>
         /\ skill.listed /\ ~skill.leaks
         /\ RegisterPassRate > 0 => first.ran /\ Cases \ first.failed # {}
         /\ passing * 100 >= QuarantineBelow * RobustnessRuns
         /\ executor = "counting" =>
              LET bad == first.failed \cup {c \in Cases : skill.nature[c] = "broken"}
              IN  Cardinality(bad) * 100 <= (100 - RegisterPassRate) * Cardinality(Cases)
    /\ status = "quarantined" =>
         /\ memory # <<>>
         /\ CASE memory[Len(memory)] = "leakage detected" -> skill.leaks
              [] memory[Len(memory)] = "test failures" -> ~Flawless(first)
              [] memory[Len(memory)] = "low robustness" ->
                   Below(unfailing, RobustnessRuns, QuarantineBelow)
              [] OTHER -> FALSE
    /\ ~skill.listed /\ ~skill.leaks => status = "draft"
    /\ skill.listed /\ ~skill.leaks /\ Flawless(first)
         /\ ~Below(unfailing, RobustnessRuns, QuarantineBelow) => status = "registered"
=============================================================================
