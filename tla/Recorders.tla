----------------------------- MODULE Recorders ------------------------------
(***************************************************************************)
(* The functions of harness-core that put an event into the trace and tell *)
(* their caller that it is there, and the notification of a person that    *)
(* may follow one of them.  Each reads the file, appends (recordProvider-  *)
(* Registrations more than once) and returns; they differ in what they     *)
(* refuse and in what they answer.  A call that throws in between answers  *)
(* nothing.                                                                *)
(***************************************************************************)
EXTENDS TraceLog

CONSTANTS
  Gates,       \* the gates that are watched: [gate_type, policy, security]
  Retries      \* retry.max_attempts of the webhook

ASSUME RetriesAssumption == Retries \in Nat

VARIABLES
  call,        \* of a process that is recording: what it will answer
  answered,    \* history: the events callers were told of
  notice       \* the notification: requests made and arrived, and the outcome

recorderVars == <<call, answered, notice>>

NoNotice == [calls |-> 0, arrived |-> 0, outcome |-> "none"]

(* What a recorder goes on to: one event, or several, of which it tells    *)
(* its caller no more than that they are there; or an answer that asks the *)
(* caller to notify again.                                                 *)
NoCall == "none"
Calls == {"one", "several", "re_notify"}

(* The read every recorder begins with.                                    *)
Ask(p, answer) ==
  /\ Read(p)
  /\ call' = [call EXCEPT ![p] = answer]
  /\ UNCHANGED <<answered, notice>>

RecordResolvedSettings(p) == Ask(p, "one")
RecordProviderRegistrations(p) == Ask(p, "several")
TransitionToTerminalState(p) == Ask(p, "one")

(* The reviewer's report, without the fields that would give it a say in   *)
(* the write set or the goal; it is recorded whether it is valid or not,   *)
(* and the caller is told which.                                           *)
RunReviewer(p) == Ask(p, "one")

(* A delta that was not validated is refused before the file is read.      *)
ApplyBacklogDelta(p, validated) == validated /\ Ask(p, "one")

(* Only tests the implementer wrote alone need a confirmation.             *)
Authors == {"developer", "debugger", "supervisor", "human", "unknown"}
ImplementerOnly(author) == author \in {"developer", "debugger"}
RecordTestIntegrity(p, author) == ImplementerOnly(author) /\ Ask(p, "one")

(* evaluateGateSla: it keeps no state, so after the time is out it answers *)
(* the same at every tick.                                                 *)
GateAction(g, timed_out) ==
  IF g.gate_type = "promotion_review" THEN "blocked_global_gate"
  ELSE IF ~timed_out THEN "waiting"
  ELSE IF g.policy = "auto_approve" /\ g.security THEN "auto_deny" ELSE g.policy

EvaluateGateSla(p, g, timed_out) ==
  Ask(p, IF GateAction(g, timed_out) = "re_notify" THEN "re_notify" ELSE "one")

(* The append, after which the caller is told.                             *)
Answer(p, more) ==
  /\ more => call[p] = "several"
  /\ Write(p, more)
  /\ IF more THEN UNCHANGED <<call, answered>>
     ELSE /\ answered' = answered \cup {last'[p]}
          /\ call' = [call EXCEPT ![p] = NoCall]
  /\ notice' = IF call[p] = "re_notify" /\ notice = NoNotice
               THEN [notice EXCEPT !.outcome = "due"] ELSE notice

Abort(p) ==
  /\ WriteFails(p) \/ TornWrite(p)
  /\ call' = [call EXCEPT ![p] = NoCall]
  /\ UNCHANGED <<answered, notice>>

-----------------------------------------------------------------------------
(* sendNotification, which a caller that was told to notify again uses.    *)

(* The event is not among those configured, the channel is off, an email,  *)
(* or has no url: an answer with no request made.                          *)
NotificationRefused ==
  /\ notice.outcome = "due" /\ notice.calls = 0
  /\ notice' = [notice EXCEPT !.outcome = "refused"]
  /\ UNCHANGED <<vars, call, answered>>

(* Mutant of Outcome: a throw is answered at once, and not tried again.    *)
OutcomeThrowing(answer, n) ==
  IF answer = "ok" THEN "sent" ELSE IF answer = "not_ok" /\ n < Retries THEN "due" ELSE "failed"

(* After a bad answer the loop goes on, as it does after a throw, until    *)
(* the attempts are used up.                                               *)
Outcome(answer, n) == IF answer = "ok" THEN "sent" ELSE IF n < Retries THEN "due" ELSE "failed"

(* One request: it arrives or not, and the answer is good, bad, or none    *)
(* comes and http throws.                                                  *)
Post(arrives, answer) ==
  /\ notice.outcome = "due" /\ notice.calls < Retries
  /\ answer = "ok" => arrives
  /\ notice' = [calls |-> notice.calls + 1,
                arrived |-> notice.arrived + (IF arrives THEN 1 ELSE 0),
                outcome |-> Outcome(answer, notice.calls + 1)]
  /\ UNCHANGED <<vars, call, answered>>

RecorderInit ==
  /\ Init
  /\ call = [p \in Processes |-> NoCall] /\ answered = {} /\ notice = NoNotice

Recording(p) ==
  \/ RecordResolvedSettings(p) \/ RecordProviderRegistrations(p)
  \/ TransitionToTerminalState(p) \/ RunReviewer(p)
  \/ \E validated \in BOOLEAN : ApplyBacklogDelta(p, validated)
  \/ \E author \in Authors : RecordTestIntegrity(p, author)
  \/ \E g \in Gates, timed_out \in BOOLEAN : EvaluateGateSla(p, g, timed_out)
  \/ RecordSpawnPlan(p) /\ UNCHANGED recorderVars
  \/ \E more \in BOOLEAN : Answer(p, more)
  \/ Abort(p)

Notifying ==
  \/ NotificationRefused
  \/ \E arrives \in BOOLEAN, answer \in {"ok", "not_ok", "throws"} : Post(arrives, answer)

RecorderNext == (\E p \in Processes : Recording(p)) \/ Notifying

RecorderSpec == RecorderInit /\ [][RecorderNext]_<<vars, recorderVars>>

-----------------------------------------------------------------------------
(* What callers are told is so.  The event a recorder has answered for is  *)
(* in the file, whoever wrote before or after, unless a torn line took it, *)
(* and then the file cannot be read any more.  A notification reported     *)
(* sent has arrived, one reported failed was tried as often as configured, *)
(* and may have arrived all the same; one refused never left.              *)
AnswersTrue ==
  /\ Readable => answered \subseteq ToSet(log)
  /\ notice.outcome = "sent" => notice.arrived > 0
  /\ notice.outcome = "failed" => notice.calls = Retries
  /\ notice.outcome = "refused" => notice.calls = 0
=============================================================================
