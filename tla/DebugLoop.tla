----------------------------- MODULE DebugLoop -----------------------------
(***************************************************************************)
(* The debug loop of debugger-runtime with the failure bank it is wired    *)
(* to, the race of repair candidates a story may be flagged for, and the   *)
(* bank file that harness processes load and save as a whole.  A loop is   *)
(* synchronous, the candidates of a race are concurrent, and processes     *)
(* meet only in the file.                                                  *)
(*                                                                         *)
(* A signal is the set of its tokens; the code looks for a token as a      *)
(* substring of another signal where the model looks for an equal token.   *)
(* A token written key:value stands for the word Value gives it; the words *)
(* of a failure are those of its signature.                                *)
(***************************************************************************)
EXTENDS Integers, Sequences, SequencesExt, FiniteSets

CONSTANTS
  Processes,
  Signals,            \* signals of genes, each a set of tokens
  Value,              \* function from the tokens of the form key:value to their words
  Ids,                \* ids a gene may get, numbers in their sorting order
  Seeds,              \* banks the file may hold at first
  Diagnoses,          \* sequences of improvement directions a diagnosis may give
  Candidates,         \* k: how many candidates race
  MaxAttempts,
  MaxActiveGenes,
  MaxGenesPerTurn,
  RecurringThreshold,
  MaxFailures         \* bound of the model: failures the genes of a bank count

ASSUME IdsAssumption == Ids \subseteq Nat
ASSUME LimitsAssumption ==
  /\ MaxAttempts \in Nat /\ MaxActiveGenes \in Nat /\ MaxGenesPerTurn \in Nat
  /\ RecurringThreshold \in Nat /\ Candidates \in Nat /\ MaxFailures \in Nat

VARIABLES
  file,      \* what a load keeps of the saved bank
  pc,        \* of a process: "off", "idle" with a bank loaded, "loop", "escalated" or "race"
  bank,      \* its bank in memory
  signal,    \* the failure its loop or race is about
  attempts,
  warnings,  \* genes its loop shows the repair provider
  seeded,    \* direction of each candidate of its race
  candidate, \* how far each candidate is
  expected,  \* history: failures its bank has to count
  recent     \* history: failures of each signature it has to know of

race == <<seeded, candidate>>
history == <<expected, recent>>
debugVars == <<file, pc, bank, signal, attempts, warnings, race, history>>

Statuses == {"active", "resolved"}
Severities == 0..2     \* fatal, recoverable, warning
Gene == [id : Nat, signal : Signals, count : Nat \ {0}, status : Statuses,
         severity : Severities, remedy : BOOLEAN, wellFormed : BOOLEAN]
NoSignal == {}

ASSUME SeedsAssumption == Seeds \subseteq Seq(Gene)
ASSUME SignalsAssumption == NoSignal \notin Signals    \* a signature names the type of the failure
Signatures == {s \in Signals : s \cap DOMAIN Value = {}}    \* buildFailureSignature makes no key
Progress == {"running", "passed", "failed", "silent"}
NoDirection == "none"

Active(b) == {i \in DOMAIN b : b[i].status = "active"}
Shares(s, t) == s \cap t # {}
Hits(b, s) == {i \in DOMAIN b : Shares(b[i].signal, s)}
First(S) == CHOOSE i \in S : \A j \in S : i <= j
Full(b) == Cardinality(Active(b)) >= MaxActiveGenes

(* The failures that the genes at the places S of a bank count.            *)
Occurrences(b, S) == UNION {{i} \X (1..b[i].count) : i \in S}
Counted(b) == Cardinality(Occurrences(b, Active(b)))

(* The genes at the places S of a bank, put in an order.                   *)
Listed(b, S, Before(_, _)) ==
  LET order == CHOOSE q \in [1..Cardinality(S) -> S] :
                 \A i, j \in 1..Cardinality(S) : i < j => Before(q[i], q[j])
  IN  [n \in 1..Cardinality(S) |-> b[order[n]]]

(* The gene runDebugLoop builds.  Its failure type is of the vocabulary of *)
(* classifyFailure, of which validateFailureGene knows no word; a race's   *)
(* genes, built by emitFailureGene, lack a field as well.                  *)
Built(id, s) ==
  [id |-> id, signal |-> s, count |-> 1, status |-> "active",
   severity |-> 1, remedy |-> FALSE, wellFormed |-> FALSE]

(* Mutant of Bank: merged into the last.                                   *)
BankLast(b, id, s) ==
  LET matching == Hits(b, s) \cap Active(b)
  IN  IF matching # {} THEN [b EXCEPT ![CHOOSE i \in matching : \A j \in matching : j <= i].count = @ + 1]
      ELSE IF Full(b) THEN b
      ELSE Append(b, Built(id, s))

(* bankGene: merged into the first active gene with a token in common,     *)
(* added when there is none, dropped when the bank is full.                *)
Bank(b, id, s) ==
  LET matching == Hits(b, s) \cap Active(b)
  IN  IF matching # {} THEN [b EXCEPT ![First(matching)].count = @ + 1]
      ELSE IF Full(b) THEN b
      ELSE Append(b, Built(id, s))

(* The gene at i counts what fails with signature s.                       *)
Knows(b, i, s) == LET S == Hits(b, s) \cap Active(b) IN i \in S /\ \A j \in S : i <= j

Dropped(b, s) == Hits(b, s) \cap Active(b) = {} /\ Full(b)

(* isSystemic as full-loop-skeleton wires it: the first gene with a token  *)
(* in common, of any status; without one the gene as it was built.         *)
Systemic(b, s) ==
  (IF Hits(b, s) = {} THEN 1 ELSE b[First(Hits(b, s))].count) >= RecurringThreshold

(* signalMatches: only a token with a key can match a context.             *)
SignalMatches(g, words) == \E t \in g.signal \cap DOMAIN Value : Value[t] \in words

UpTo(n, s) == SubSeq(s, 1, IF Len(s) < n THEN Len(s) ELSE n)
MoreRecurring(g, h) == g.count > h.count
MoreUrgent(g, h) ==
  g.severity < h.severity \/ (g.severity = h.severity /\ MoreRecurring(g, h))

(* injectRelevant.                                                         *)
Relevant(b, words) ==
  UpTo(MaxGenesPerTurn,
       SortSeq(SelectSeq(b, LAMBDA g : g.status = "active" /\ SignalMatches(g, words)),
               MoreUrgent))

(* pairResolvedDirection, the copy put in the place of the gene.           *)
Resolved(g) == [g EXCEPT !.status = "resolved", !.remedy = TRUE]

(* The active genes in order of their ids, those with one id as they were. *)
Sorted(b) ==
  Listed(b, Active(b), LAMBDA i, j : b[i].id < b[j].id \/ (b[i].id = b[j].id /\ i < j))

MergeInto(b, g) ==
  LET matching == Hits(b, g.signal)
  IN  IF matching = {} THEN Append(b, g)
      ELSE [b EXCEPT ![First(matching)].count = @ + g.count]

(* Mutants of Consolidated: only archives, and drops what it merges.       *)
ConsolidatedArchiving(b) == Sorted(b)
ConsolidatedDropping(b) ==
  FoldLeft(LAMBDA kept, g : IF Hits(kept, g.signal) = {} THEN Append(kept, g) ELSE kept,
           <<>>, Sorted(b))

(* consolidate: what is not active is archived, and each gene is merged    *)
(* into the first before it that has a token in common and was not merged  *)
(* itself.                                                                 *)
Consolidated(b) ==
  LET sorted == Sorted(b)
      kept[n \in 0..Len(sorted)] ==
        IF n = 0 THEN <<>> ELSE MergeInto(kept[n - 1], sorted[n])
  IN  kept[Len(sorted)]

(* Consolidation keeps the failures with signature s in one place: the     *)
(* active genes s hits share tokens with one another and with no other.    *)
Together(b, s) ==
  LET hits == Hits(b, s) \cap Active(b)
  IN  \A i \in hits, j \in Active(b) : Shares(b[i].signal, b[j].signal) <=> j \in hits

NoneYet == [s \in Signatures |-> 0]

Safe(ds) == SelectSeq(ds, LAMBDA d : d # "widen_write_set")

(* seedDirections: the directions that do not widen the write set, in      *)
(* turn; none when the diagnosis has no other.                             *)
SeedDirections(ds) ==
  [i \in 1..Candidates |-> IF Safe(ds) = <<>> THEN NoDirection
                           ELSE Safe(ds)[((i - 1) % Len(Safe(ds))) + 1]]

-----------------------------------------------------------------------------
DebugInit ==
  /\ file \in Seeds
  /\ pc = [p \in Processes |-> "off"]
  /\ bank = [p \in Processes |-> <<>>]
  /\ signal = [p \in Processes |-> NoSignal]
  /\ attempts = [p \in Processes |-> 0]
  /\ warnings = [p \in Processes |-> <<>>]
  /\ seeded = [p \in Processes |-> <<>>]
  /\ candidate = [p \in Processes |-> <<>>]
  /\ expected = [p \in Processes |-> 0]
  /\ recent = [p \in Processes |-> NoneYet]

(* What loadBank keeps: the genes validateFailureGene accepts.             *)
WellFormed(b) == Listed(b, {i \in DOMAIN b : b[i].wellFormed}, LAMBDA i, j : i < j)

LoadBank(p) ==
  /\ pc[p] = "off"
  /\ pc' = [pc EXCEPT ![p] = "idle"]
  /\ bank' = [bank EXCEPT ![p] = file]
  /\ expected' = [expected EXCEPT ![p] = Counted(file)]
  /\ recent' = [recent EXCEPT ![p] = NoneYet]
  /\ UNCHANGED <<file, signal, attempts, warnings, race>>

SaveBank(p) ==
  /\ pc[p] = "idle"
  /\ file' = WellFormed(bank[p])
  /\ UNCHANGED <<pc, bank, signal, attempts, warnings, race, history>>

ConsolidateBank(p) ==
  /\ pc[p] = "idle"
  /\ bank' = [bank EXCEPT ![p] = Consolidated(@)]
  /\ recent' = [recent EXCEPT ![p] =
                  [s \in Signatures |-> IF Together(bank[p], s) THEN @[s] ELSE 0]]
  /\ UNCHANGED <<file, pc, signal, attempts, warnings, race, expected>>

(* External: a caller pairs a gene with the direction that resolved it.    *)
ResolveGene(p, i) ==
  /\ pc[p] = "idle" /\ i \in Active(bank[p])
  /\ bank' = [bank EXCEPT ![p][i] = Resolved(@)]
  /\ expected' = [expected EXCEPT ![p] = @ - bank[p][i].count]
  /\ recent' = [recent EXCEPT ![p] =
                  [s \in Signatures |-> IF Knows(bank[p], i, s) THEN 0 ELSE @[s]]]
  /\ UNCHANGED <<file, pc, signal, attempts, warnings, race>>

Expect(p, n, s) ==
  LET counted == IF Dropped(bank[p], s) THEN 0 ELSE n
  IN  /\ expected' = [expected EXCEPT ![p] = @ + counted]
      /\ recent' = [recent EXCEPT ![p][s] = @ + counted]
Room(p, n) == Cardinality(Occurrences(bank[p], DOMAIN bank[p])) + n <= MaxFailures

BankFailure(p, id, s) ==
  /\ Room(p, 1)
  /\ bank' = [bank EXCEPT ![p] = Bank(@, id, s)]
  /\ Expect(p, 1, s)

-----------------------------------------------------------------------------
(* The loop.                                                               *)

(* Validated or to be retried, the caller is done with the failure.        *)
EndLoop(p, how) ==
  /\ pc' = [pc EXCEPT ![p] = IF how = "escalated" THEN how ELSE "idle"]
  /\ attempts' = [attempts EXCEPT ![p] = 0]
  /\ warnings' = [warnings EXCEPT ![p] = <<>>]

(* runDebugLoop up to its first attempt.  The count it looks at includes   *)
(* the failure at hand.                                                    *)
StartLoop(p, id, s) ==
  /\ pc[p] = "idle"
  /\ BankFailure(p, id, s)
  /\ signal' = [signal EXCEPT ![p] = s]
  /\ IF Systemic(bank'[p], s) \/ MaxAttempts = 0
     THEN EndLoop(p, "escalated")
     ELSE /\ pc' = [pc EXCEPT ![p] = "loop"]
          /\ warnings' = [warnings EXCEPT ![p] = Relevant(bank'[p], s)]
          /\ UNCHANGED attempts
  /\ UNCHANGED <<file, race>>

InLoop(p) == pc[p] = "loop" /\ UNCHANGED <<file, race>>
LastAttempt(p) == attempts[p] + 1 >= MaxAttempts
Leave(p) == signal' = [signal EXCEPT ![p] = NoSignal]

(* No proposal, or one that is not valid: the caller is asked to retry.    *)
NoUsableProposal(p) ==
  /\ InLoop(p)
  /\ IF LastAttempt(p)
     THEN EndLoop(p, "escalated") /\ UNCHANGED signal
     ELSE EndLoop(p, "self_correct") /\ Leave(p)
  /\ UNCHANGED <<bank, history>>

(* An output of another kind, or a repair outside the write set.           *)
ProposalRefused(p) ==
  /\ InLoop(p)
  /\ EndLoop(p, "escalated")
  /\ UNCHANGED <<bank, signal, history>>

RepairValidated(p) ==
  /\ InLoop(p)
  /\ EndLoop(p, "validated")
  /\ Leave(p)
  /\ UNCHANGED <<bank, history>>

GoOn(p, id) ==
  /\ BankFailure(p, id, signal[p])
  /\ attempts' = [attempts EXCEPT ![p] = @ + 1]
  /\ UNCHANGED <<pc, warnings>>

(* The repair does not pass: banked again, except at the last attempt.     *)
RepairFails(p, id) ==
  /\ InLoop(p)
  /\ IF LastAttempt(p)
     THEN EndLoop(p, "escalated") /\ UNCHANGED <<bank, history>>
     ELSE GoOn(p, id)
  /\ UNCHANGED signal

-----------------------------------------------------------------------------
(* The race.                                                               *)

(* runCompetitiveDebug, after an escalation of a story that is flagged for *)
(* it: every candidate is launched with its direction before any ends.     *)
StartRace(p, ds) ==
  /\ pc[p] = "escalated"
  /\ pc' = [pc EXCEPT ![p] = "race"]
  /\ seeded' = [seeded EXCEPT ![p] = SeedDirections(ds)]
  /\ candidate' = [candidate EXCEPT ![p] = [i \in 1..Candidates |-> "running"]]
  /\ UNCHANGED <<file, bank, signal, attempts, warnings, history>>

(* External: a candidate ends, one that fails with a gene or without.      *)
CandidateEnds(p, i, how) ==
  /\ pc[p] = "race" /\ i \in DOMAIN candidate[p] /\ candidate[p][i] = "running"
  /\ candidate' = [candidate EXCEPT ![p][i] = how]
  /\ UNCHANGED <<file, pc, bank, signal, attempts, warnings, seeded, history>>

(* External: the caller leaves the story to a person.                      *)
LeaveToHuman(p) ==
  /\ pc[p] = "escalated"
  /\ pc' = [pc EXCEPT ![p] = "idle"]
  /\ Leave(p)
  /\ UNCHANGED <<file, bank, attempts, warnings, race, history>>

EndRace(p) ==
  /\ pc' = [pc EXCEPT ![p] = "idle"]
  /\ Leave(p)
  /\ seeded' = [seeded EXCEPT ![p] = <<>>]
  /\ candidate' = [candidate EXCEPT ![p] = <<>>]
  /\ UNCHANGED <<file, attempts, warnings>>

(* External: a candidate throws.  Promise.all rejects at once, and what    *)
(* the others did or will do is lost.                                      *)
CandidateThrows(p) ==
  /\ pc[p] = "race" /\ \E i \in DOMAIN candidate[p] : candidate[p][i] = "running"
  /\ EndRace(p)
  /\ UNCHANGED <<bank, history>>

Those(p, how) == {i \in DOMAIN candidate[p] : candidate[p][i] = how}

BankAll(b, id, s, n) ==
  LET after[m \in 0..n] == IF m = 0 THEN b ELSE Bank(after[m - 1], id, s)
  IN  after[n]

(* All have ended.  The caller records the genes of those that failed,     *)
(* which all have the signature at hand.                                   *)
SettleRace(p, id) ==
  LET losers == Cardinality(Those(p, "failed")) IN
  /\ pc[p] = "race" /\ Those(p, "running") = {}
  /\ Room(p, losers)
  /\ EndRace(p)
  /\ bank' = [bank EXCEPT ![p] = BankAll(@, id, signal[p], losers)]
  /\ Expect(p, losers, signal[p])

(* The process ends or dies, and what it has not saved is gone.            *)
Exit(p) ==
  /\ pc[p] # "off"
  /\ pc' = [pc EXCEPT ![p] = "off"]
  /\ bank' = [bank EXCEPT ![p] = <<>>]
  /\ signal' = [signal EXCEPT ![p] = NoSignal]
  /\ attempts' = [attempts EXCEPT ![p] = 0]
  /\ warnings' = [warnings EXCEPT ![p] = <<>>]
  /\ seeded' = [seeded EXCEPT ![p] = <<>>]
  /\ candidate' = [candidate EXCEPT ![p] = <<>>]
  /\ expected' = [expected EXCEPT ![p] = 0]
  /\ recent' = [recent EXCEPT ![p] = NoneYet]
  /\ UNCHANGED file

Looping(p) ==
  \/ NoUsableProposal(p)
  \/ ProposalRefused(p)
  \/ RepairValidated(p)
  \/ \E id \in Ids : RepairFails(p, id)

Racing(p) ==
  \/ LeaveToHuman(p)
  \/ \E ds \in Diagnoses : StartRace(p, ds)
  \/ \E i \in 1..Candidates, how \in Progress \ {"running"} : CandidateEnds(p, i, how)
  \/ CandidateThrows(p)
  \/ \E id \in Ids : SettleRace(p, id)

DebugNext == \E p \in Processes :
  \/ LoadBank(p)
  \/ SaveBank(p)
  \/ ConsolidateBank(p)
  \/ \E i \in DOMAIN bank[p] : ResolveGene(p, i)
  \/ \E id \in Ids, s \in Signatures : StartLoop(p, id, s)
  \/ Looping(p)
  \/ Racing(p)
  \/ Exit(p)

DebugSpec == DebugInit /\ [][DebugNext]_debugVars

-----------------------------------------------------------------------------
(* Properties.                                                             *)

(* Type invariant: a bank is a sequence of genes that occurred at least    *)
(* once, and a process without a bank has nothing to count.                *)
DebugTypeOK ==
  /\ file \in Seq(Gene)
  /\ pc \in [Processes -> {"off", "idle", "loop", "escalated", "race"}]
  /\ \A p \in Processes : bank[p] \in Seq(Gene) /\ (pc[p] = "off" => bank[p] = <<>>)
  /\ signal \in [Processes -> Signals \cup {NoSignal}]
  /\ attempts \in [Processes -> 0..MaxAttempts]
  /\ \A p \in Processes : warnings[p] \in Seq(Gene) /\ candidate[p] \in Seq(Progress)
  /\ expected \in [Processes -> Nat] /\ recent \in [Processes -> [Signatures -> Nat]]

Distinct(b) == \A i, j \in Active(b) : i # j => ~Shares(b[i].signal, b[j].signal)

(* A bank in memory counts every failure once, those of the losers of a    *)
(* race included, whatever was merged or consolidated in between; only a   *)
(* failure that finds the bank full is lost, which bankGene reports and    *)
(* the loop does not look at.                                              *)
EveryFailureCounted ==
  \A p \in Processes : Counted(bank[p]) = expected[p]

(* A signature that has failed RecurringThreshold times in a process, the  *)
(* failure at hand and the losers of races included, is escalated before   *)
(* any repair is tried, however the failures were merged into genes of     *)
(* other signals; unless a gene with a token in common that was paired     *)
(* with its remedy stands first in the bank.  Failures are forgotten when  *)
(* the gene that counts them is paired, and when the bank is consolidated  *)
(* while the genes they hit overlap in a chain, which may part a signature *)
(* from the gene that counts it.                                           *)
RecurringEscalates ==
  [][\A p \in Processes :
       pc[p] = "idle" /\ pc'[p] = "loop" =>
         \/ recent'[p][signal'[p]] < RecurringThreshold
         \/ LET hits == Hits(bank'[p], signal'[p])
            IN  \E i \in hits \ Active(bank'[p]) : \A j \in hits : i <= j]_debugVars

(* Consolidation leaves no two genes with a token in common, and nothing   *)
(* that is not active.                                                     *)
ConsolidationSeparates ==
  [][\A p \in Processes :
       ConsolidateBank(p) =>
         Distinct(bank'[p]) /\ Active(bank'[p]) = DOMAIN bank'[p]]_debugVars

(* What a process saves is what the next one loads ("Silently drops        *)
(* malformed genes", failure-bank/src/index.ts:263, of which the bank of a *)
(* process holds none: bankGene takes a FailureGene).                      *)
SavedBankLoads == [][\A p \in Processes : SaveBank(p) => file' = bank[p]]_debugVars
=============================================================================
