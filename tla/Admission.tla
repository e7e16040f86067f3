----------------------------- MODULE Admission -----------------------------
(***************************************************************************)
(* story-manager: the six gates a story of the backlog passes before it is *)
(* started, all stories judged against one snapshot (selectAdmissible),    *)
(* and a caller that starts what was admitted, story by story, while other *)
(* stories end and people hold stories and close waves.                    *)
(***************************************************************************)
EXTENDS StoryGraph

CONSTANTS
  MaxWipPerEpic,   \* how many stories of an epic may be in progress
  IterationBudget, \* how many stories may be started
  Holdable         \* bound of the model: the ids that people may hold

ASSUME AdmissionAssumption == MaxWipPerEpic \in Nat /\ IterationBudget \in Nat

VARIABLES
  backlog,   \* the stories, in the order they were added
  running,   \* the indices of those in progress, in the order of their start
  offer,     \* what of the last selection the caller may start
  held,      \* the ids under a human hold
  waveOpen,  \* whether the wave of the added stories is open
  careful    \* whether the caller starts one story of each selection only

admissionVars == <<backlog, running, offer, held, waveOpen, careful>>

Stories == DOMAIN backlog
InProgress == {running[k] : k \in DOMAIN running}
RunningStories == {backlog[i] : i \in InProgress}

(* The story a map by id holds: the last that has it.                      *)
LastWith(id) ==
  CHOOSE i \in Stories : backlog[i].id = id /\ \A j \in Stories : backlog[j].id = id => j <= i

IsDone(id) == id \in IdsOf(backlog) /\ backlog[LastWith(id)].status = "done"

IterationsUsed == Cardinality({i \in Stories : backlog[i].status # "todo"})

-----------------------------------------------------------------------------
(* checkAdmission.                                                         *)
DepsDone(s) == \A d \in s.deps : IsDone(d)
NotHeld(s) == s.id \notin held
WaveOpen(s) == s.inWave => waveOpen
WithinWip(s) ==
  Cardinality({i \in InProgress : backlog[i].epic = s.epic}) < MaxWipPerEpic

(* Mutant of NoOverlap: the candidate is planned without the running ones. *)
NoOverlapAlone(s) == InProgress = {} \/ ~Queued(s, {})

(* Mutant of NoOverlap: what is queued waits also when nothing runs.       *)
NoOverlapWhenIdle(s) == ~Queued(s, RunningStories)

NoOverlap(s) == InProgress = {} \/ ~Queued(s, RunningStories)

WithinBudget == IterationsUsed < IterationBudget

(* The status of the story itself is not among the gates: stories that are *)
(* done or in progress are admitted as well, and the caller leaves them.   *)
Admitted(i) ==
  LET s == backlog[i] IN
  /\ DepsDone(s) /\ NotHeld(s) /\ WaveOpen(s)
  /\ WithinWip(s) /\ NoOverlap(s) /\ WithinBudget

SelectAdmissible ==
  /\ offer' = {i \in Stories : Admitted(i) /\ backlog[i].status = "todo"}
  /\ UNCHANGED <<backlog, running, held, waveOpen, careful>>

-----------------------------------------------------------------------------
(* The caller, and the people around it.                                   *)

SetStatus(i, status) == backlog' = [backlog EXCEPT ![i].status = status]

Kept(i) == IF careful THEN {} ELSE offer \ {i}

StartStory(i) ==
  /\ i \in offer
  /\ SetStatus(i, "in_progress")
  /\ running' = Append(running, i)
  /\ offer' = Kept(i)
  /\ UNCHANGED <<held, waveOpen, careful>>

(* The k-th of the running stories ends.                                   *)
EndStory(k, status) ==
  /\ SetStatus(running[k], status)
  /\ running' = SubSeq(running, 1, k - 1) \o SubSeq(running, k + 1, Len(running))
  /\ UNCHANGED <<offer, held, waveOpen, careful>>

Ends == \E k \in DOMAIN running : EndStory(k, "done") \/ EndStory(k, "blocked")

ToggleHold(id) ==
  /\ held' = (IF id \in held THEN held \ {id} ELSE {id})
  /\ UNCHANGED <<backlog, running, offer, waveOpen, careful>>

ToggleWave ==
  /\ waveOpen' = ~waveOpen
  /\ UNCHANGED <<backlog, running, offer, held, careful>>

Starts == \E i \in Stories : StartStory(i)

Managing ==
  \/ SelectAdmissible \/ Starts \/ Ends
  \/ \E id \in IdsOf(backlog) \cap Holdable : ToggleHold(id)
  \/ ToggleWave

-----------------------------------------------------------------------------
(* Properties.                                                             *)

(* What the gates add up to.  No story is started before its dependencies  *)
(* are done.  And if the caller starts one story of a selection and then   *)
(* selects again: no epic has more stories in progress than its limit, no  *)
(* more stories are started than the budget has, an exclusive story starts *)
(* alone, and of two running stories that may write the same files the     *)
(* later one has an id that sorts first: that is the case the overlap gate *)
(* lets pass, because only the rest of a component is queued.              *)
AdmissionSound ==
  /\ \A i \in Stories : backlog[i].status # "todo" => DepsDone(backlog[i])
  /\ careful =>
       /\ IterationsUsed <= IterationBudget
       /\ \A i \in InProgress :
            Cardinality({j \in InProgress : backlog[j].epic = backlog[i].epic}) <= MaxWipPerEpic
       /\ \A j \in DOMAIN running, k \in DOMAIN running :
            LET earlier == backlog[running[j]]
                later == backlog[running[k]]
            IN j < k =>
                 /\ later.class # "exclusive"
                 /\ Overlap(earlier, later) /\ earlier.class # "exclusive" => later.id <= earlier.id
=============================================================================
