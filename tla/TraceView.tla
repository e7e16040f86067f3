----------------------------- MODULE TraceView ------------------------------
(***************************************************************************)
(* The trace viewer of the web application (useTraceStream): it asks the   *)
(* server for the trace every few seconds, whether or not the last answer  *)
(* has come, and adds what it has not seen.  Answers overtake each other.  *)
(* A change of the filters starts the polling anew, and the answers still  *)
(* under way are dropped; what is on the screen stays.                     *)
(***************************************************************************)
EXTENDS TraceLog, Arrays, Functions

CONSTANTS
  Filters,     \* the filters a person may choose: the events each lets through
  Slots        \* polls under way at one time

ASSUME FiltersAssumption == Filters \subseteq SUBSET (1..MaxEvents)

VARIABLES
  filter,      \* the filters of the running effect
  changed,     \* history: it is not the filter the view was opened with
  liveEvents,
  loading, error,
  polls        \* of each slot: the poll under way

viewVars == <<filter, changed, liveEvents, loading, error, polls>>

NoPoll == [stage |-> "none"]
Asked == [stage |-> "asked"]
Failed == [stage |-> "failed"]
Answered(data) == [stage |-> "answered", data |-> data]

Accepted(f) == {e \in Event : e.hash \in f}
Filtered(events, f) == Select(events, Accepted(f))

ViewInit ==
  /\ filter \in Filters /\ changed = FALSE
  /\ liveEvents = <<>> /\ loading = TRUE /\ error = FALSE
  /\ polls = [q \in Slots |-> NoPoll]

(* The first call of poll and those of the timer.                          *)
Poll(q) ==
  /\ polls[q] = NoPoll
  /\ polls' = [polls EXCEPT ![q] = Asked]
  /\ UNCHANGED <<vars, filter, changed, liveEvents, loading, error>>

(* External: the server reads the trace and answers with the events of the *)
(* story and the types that were asked for, or the request fails, as it    *)
(* does when a line does not parse.                                        *)
Serve(q) ==
  /\ polls[q] = Asked
  /\ \/ Readable /\ polls' = [polls EXCEPT ![q] = Answered(Filtered(log, filter))]
     \/ polls' = [polls EXCEPT ![q] = Failed]
  /\ UNCHANGED <<vars, filter, changed, liveEvents, loading, error>>

(* Mutant of Fresh: what is on the screen is not looked at.                *)
FreshAll(data) == data

Fresh(data) == Select(data, Event \ Range(liveEvents))

Arrive(q) ==
  /\ polls[q].stage = "answered"
  /\ liveEvents' = liveEvents \o Fresh(polls[q].data)
  /\ loading' = FALSE /\ error' = FALSE
  /\ polls' = [polls EXCEPT ![q] = NoPoll]
  /\ UNCHANGED <<vars, filter, changed>>

(* loading is left as it is, true when no poll has been answered yet.      *)
ArriveFailed(q) ==
  /\ polls[q] = Failed
  /\ error' = TRUE
  /\ polls' = [polls EXCEPT ![q] = NoPoll]
  /\ UNCHANGED <<vars, filter, changed, liveEvents, loading>>

(* The effect is cleaned up, which cancels its polls, and run again.       *)
ChangeFilter(f) ==
  /\ f # filter
  /\ filter' = f /\ changed' = TRUE
  /\ loading' = TRUE
  /\ polls' = [q \in Slots |-> NoPoll]
  /\ UNCHANGED <<vars, liveEvents, error>>

ViewNext ==
  \/ \E q \in Slots : Poll(q) \/ Serve(q) \/ Arrive(q) \/ ArriveFailed(q)
  \/ \E f \in Filters : ChangeFilter(f)

Displayed == Filtered(liveEvents, filter)

(* The viewer reads what any processes write.                              *)
ViewSpec ==
  Init /\ ViewInit /\ [][ViewNext \/ (Next /\ UNCHANGED viewVars)]_<<vars, viewVars>>

-----------------------------------------------------------------------------
(* Whatever the order in which the answers come, no event is shown twice,  *)
(* none that is not in the file, and until a person changes the filter the *)
(* view is the beginning of the filtered trace: nothing is out of order or *)
(* left out in the middle.  (After a wider filter older events are added   *)
(* at the end: the view is then in order of arrival.)                      *)
ViewInOrder ==
  /\ IsInjective(liveEvents)
  /\ Range(liveEvents) \subseteq Range(log)
  /\ ~changed => IsPrefix(Displayed, Filtered(log, filter))
=============================================================================
