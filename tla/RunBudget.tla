----------------------------- MODULE RunBudget -----------------------------
(***************************************************************************)
(* The call and token budgets of model-gateway: a RunBudgetPool that gives *)
(* every worker a BudgetGuard, and the guarded calls its callers make.  A  *)
(* guarded call tests the budget, awaits the provider, and charges the     *)
(* budget when the answer is there, so between the two any other caller    *)
(* runs, and the kill switch may be thrown.                                *)
(***************************************************************************)
EXTENDS Integers, FiniteSets, FiniteSetsExt

CONSTANTS
  Workers,
  Callers,            \* asynchronous functions, each with one call at a time
  WorkerOf,           \* the worker a caller calls for
  TotalCallsBudget, TotalTokensBudget, MaxWorkers,
  Usages,             \* tokens one valid answer may report
  MaxCalls            \* bound of the model: provider calls of one worker

CallersOf(w) == {c \in Callers : WorkerOf[c] = w}

ASSUME WorkersAssumption ==
  /\ IsFiniteSet(Workers) /\ IsFiniteSet(Callers)
  /\ WorkerOf \in [Callers -> Workers]
ASSUME BudgetAssumption ==
  /\ TotalCallsBudget \in Nat /\ TotalTokensBudget \in Nat
  /\ MaxWorkers \in Nat \ {0}
  /\ Usages \subseteq Nat
  /\ MaxCalls \in Nat

VARIABLES
  workers,   \* keys of the pool's map
  _killed,   \* the pool's kill switch
  killed,    \* workers whose guard is killed
  calls, tokens,
  awaiting,  \* callers whose provider call has not settled
  made       \* history: provider calls of a worker that have settled

vars == <<workers, _killed, killed, calls, tokens, awaiting, made>>

(* The default budget of a worker; none is given per worker.               *)
Share(total) == total \div MaxWorkers
CallBudget == Share(TotalCallsBudget)
TokenBudget == Share(TotalTokensBudget)

InFlight(w) == awaiting \cap CallersOf(w)

(* Mutants of Allowed: the comparisons let one more through, and the kill  *)
(* switch is not looked at.                                                *)
AllowedOnceMore(w, dead) ==
  w \notin dead /\ calls[w] <= CallBudget /\ tokens[w] < TokenBudget
AllowedAtTokenBudget(w, dead) ==
  w \notin dead /\ calls[w] < CallBudget /\ tokens[w] <= TokenBudget

(* BudgetGuard.check.                                                      *)
Allowed(w, dead) ==
  w \notin dead /\ calls[w] < CallBudget /\ tokens[w] < TokenBudget

Init ==
  /\ workers = {}
  /\ _killed = FALSE
  /\ killed = {}
  /\ calls = [w \in Workers |-> 0]
  /\ tokens = [w \in Workers |-> 0]
  /\ awaiting = {}
  /\ made = [w \in Workers |-> 0]

(* Mutant of KilledWith: a worker that comes late gets a live guard.       *)
KilledWithoutPool(w) == killed

(* The killed guards once w has one: the guard of a worker that registers  *)
(* after the kill is killed at once.                                       *)
KilledWith(w) == IF w \notin workers /\ _killed THEN killed \cup {w} ELSE killed

(* RunBudgetPool.registerWorker, which gives a known worker its own guard. *)
RegisterWorker(w) ==
  /\ workers' = workers \cup {w}
  /\ killed' = KilledWith(w)
  /\ UNCHANGED <<_killed, calls, tokens, awaiting, made>>

(* workerGuardedCall up to its await.                                      *)
StartCall(c) ==
  LET w == WorkerOf[c]
  IN  /\ c \notin awaiting
      /\ made[w] + Cardinality(InFlight(w)) < MaxCalls
      /\ Allowed(w, KilledWith(w))
      /\ workers' = workers \cup {w}
      /\ killed' = KilledWith(w)
      /\ awaiting' = awaiting \cup {c}
      /\ UNCHANGED <<_killed, calls, tokens, made>>

(* workerGuardedCall when the guard refuses: the caller has its answer at  *)
(* once, and nothing is charged.                                           *)
RefuseCall(c) ==
  LET w == WorkerOf[c]
  IN  /\ c \notin awaiting
      /\ ~Allowed(w, KilledWith(w))
      /\ workers' = workers \cup {w}
      /\ killed' = KilledWith(w)
      /\ UNCHANGED <<_killed, calls, tokens, awaiting, made>>

Settle(c) ==
  /\ c \in awaiting
  /\ awaiting' = awaiting \ {c}
  /\ made' = [made EXCEPT ![WorkerOf[c]] = @ + 1]
  /\ UNCHANGED <<workers, _killed, killed>>

(* The provider answered with a valid output: record.                      *)
AnswerValid(c, usage) ==
  /\ Settle(c)
  /\ calls' = [calls EXCEPT ![WorkerOf[c]] = @ + 1]
  /\ tokens' = [tokens EXCEPT ![WorkerOf[c]] = @ + usage]

(* The provider threw, or its output is not valid: nothing is charged.     *)
AnswerFailed(c) == Settle(c) /\ UNCHANGED <<calls, tokens>>

(* BudgetGuard.kill on one guard.                                          *)
Kill(w) ==
  /\ w \in workers
  /\ killed' = killed \cup {w}
  /\ UNCHANGED <<workers, _killed, calls, tokens, awaiting, made>>

KillAll ==
  /\ _killed' = TRUE
  /\ killed' = killed \cup workers
  /\ UNCHANGED <<workers, calls, tokens, awaiting, made>>

Next ==
  \/ \E w \in Workers : RegisterWorker(w) \/ Kill(w)
  \/ \E c \in Callers :
       \/ StartCall(c)
       \/ RefuseCall(c)
       \/ \E usage \in Usages : AnswerValid(c, usage)
       \/ AnswerFailed(c)
  \/ KillAll

Spec == Init /\ [][Next]_vars

-----------------------------------------------------------------------------
(* Properties.                                                             *)

(* Type invariant: the types of the pool's and the guards' fields.         *)
TypeOK ==
  /\ workers \subseteq Workers
  /\ _killed \in BOOLEAN
  /\ killed \subseteq workers
  /\ calls \in [Workers -> Nat]
  /\ tokens \in [Workers -> Nat]
  /\ awaiting \subseteq Callers
  /\ made \in [Workers -> Nat]

(* A worker's calls, those in flight included, pass its share by fewer     *)
(* than it has callers: guardedCall tests the budget before the await and  *)
(* charges it after, so each of the others may be past the test already.   *)
(* One caller keeps to the share exactly.                                  *)
CallOverrunBounded ==
  \A w \in Workers :
    LET spent == calls[w] + Cardinality(InFlight(w))
    IN  spent = 0 \/ spent < CallBudget + Cardinality(CallersOf(w))

(* So for the tokens, which are known only with the answer: what the last  *)
(* admitted call of every caller costs may come on top.                    *)
TokenOverrunBounded ==
  \A w \in Workers : \A most \in Usages :
    (\A usage \in Usages : usage <= most) =>
      LET spent == tokens[w] + most * Cardinality(InFlight(w))
      IN  spent = 0 \/ spent < TokenBudget + most * Cardinality(CallersOf(w))

(* No worker passes its share further than the calls in flight explain.    *)
OverrunBounded == CallOverrunBounded /\ TokenOverrunBounded

(* The kill switch admits no call any more, not of the workers that have a *)
(* guard and not of those that come later; calls in flight settle.         *)
NoCallAfterKill ==
  [][\A c \in Callers :
       _killed \/ WorkerOf[c] \in killed => (c \in awaiting' => c \in awaiting)]_vars

(* What scripts/e2e-real-provider.ts:96 says of the guard, that it is      *)
(* active across every model call, and its line 103, that it tracks every  *)
(* call.  False: a call that fails is not charged.                         *)
EveryCallTracked == \A w \in Workers : calls[w] = made[w]
=============================================================================
