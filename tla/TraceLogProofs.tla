--------------------------- MODULE TraceLogProofs ---------------------------
(***************************************************************************)
(* The trace file, the answers of its recorders and the view of it, for    *)
(* any number of processes, events, gates, attempts to notify and polls.   *)
(***************************************************************************)
EXTENDS Recorders, TraceView, InductionLemmas, SequenceTheorems, TLAPS

(* What holds of a file that can be read: nothing was ever torn, so every  *)
(* event that was put is in it, and a recorder's tail is one of them.      *)
EventsKept ==
  /\ ~unterminated
  /\ \A i \in DOMAIN log : log[i] \in Event /\ log[i].hash <= created
  /\ \A i, j \in DOMAIN log : log[i].hash = log[j].hash => i = j
  /\ \A p \in Processes : last[p] # NoEvent => \E i \in DOMAIN log : last[p] = log[i]

(* An event names the one before it exactly when its recorder had seen     *)
(* that one, and then its number follows.                                  *)
Linked(i) == log[i].previous = log[i - 1].hash

LinksTell ==
  /\ log # <<>> => log[1].seq = 0 /\ log[1].previous = NoHash
  /\ \A i \in DOMAIN log : i > 1 /\ Linked(i) => log[i].seq = log[i - 1].seq + 1
  /\ stale <=> \E i \in DOMAIN log : i > 1 /\ ~Linked(i)
  /\ ~stale => \A i \in DOMAIN log : log[i].seq = i - 1

ChainInv == TypeOK /\ (Readable => EventsKept /\ LinksTell)

-----------------------------------------------------------------------------
(* The types.                                                              *)

(* What a recorder makes of a tail is an event.                            *)
LEMMA NextEventType ==
  ASSUME created \in 0..MaxEvents, created < MaxEvents, NEW t \in Event \cup {NoEvent}
  PROVE  /\ NextEvent(t) \in Event
         /\ NextEvent(t).hash = created + 1
         /\ NextEvent(t).seq = (IF t = NoEvent THEN 0 ELSE t.seq + 1)
         /\ NextEvent(t).previous = (IF t = NoEvent THEN NoHash ELSE t.hash)
<1>1. CASE t = NoEvent
  BY <1>1, EventsAssumption DEF NextEvent, Event, NoHash
<1>2. CASE t \in Event /\ t # NoEvent
  <2>1. t.seq \in Nat /\ t.hash \in 1..MaxEvents
    BY <1>2 DEF Event
  <2>. QED
    BY <1>2, <2>1, EventsAssumption DEF NextEvent, Event
<1>. QED
  BY <1>1, <1>2

(* The tail of a file is one of its lines.                                 *)
LEMMA TailIsLine ==
  ASSUME TypeOK, log # <<>>
  PROVE  Len(log) \in DOMAIN log /\ TailOf(log) = log[Len(log)]
BY DEF TypeOK, TailOf, Last

LEMMA TailType == TypeOK /\ Readable => TailOf(log) \in Event \cup {NoEvent}
<1> SUFFICES ASSUME TypeOK, Readable, log # <<>> PROVE TailOf(log) \in Event
  BY DEF TailOf
<1>. QED
  BY TailIsLine DEF TypeOK, Readable

LEMMA InitTypes == Init => TypeOK
<1> SUFFICES ASSUME Init PROVE TypeOK
  OBVIOUS
<1>1. log \in Seq(Event \cup {Garbage}) /\ created \in 0..MaxEvents
  BY EventsAssumption DEF Init
<1>2. pc \in [Processes -> {"idle", "writing"}] /\ last \in [Processes -> Event \cup {NoEvent}]
  BY DEF Init
<1>3. unterminated \in BOOLEAN /\ stale \in BOOLEAN
  BY DEF Init
<1>. QED
  BY <1>1, <1>2, <1>3 DEF TypeOK

LEMMA StepTypes == TypeOK /\ [Next]_vars => TypeOK'
<1> SUFFICES ASSUME TypeOK, [Next]_vars PROVE TypeOK'
  OBVIOUS
<1>1. ASSUME NEW p \in Processes, Read(p) PROVE TypeOK'
  BY <1>1, TailType DEF Read, TypeOK
<1>2. ASSUME NEW p \in Processes, NEW more \in BOOLEAN, Write(p, more) PROVE TypeOK'
  <2>1. NextEvent(last[p]) \in Event
    BY <1>2, NextEventType DEF TypeOK, Write
  <2>2. log' \in Seq(Event \cup {Garbage}) /\ created' \in 0..MaxEvents
    BY <1>2, <2>1, EventsAssumption DEF TypeOK, Write, Put
  <2>3. last' \in [Processes -> Event \cup {NoEvent}] /\ pc' \in [Processes -> {"idle", "writing"}]
    BY <1>2, <2>1 DEF TypeOK, Write
  <2>4. unterminated' \in BOOLEAN /\ stale' \in BOOLEAN
    BY <1>2 DEF TypeOK, Write
  <2>. QED
    BY <2>2, <2>3, <2>4 DEF TypeOK
<1>3. ASSUME NEW p \in Processes, RecordSpawnPlan(p) PROVE TypeOK'
  <2>1. NextEvent(NoEvent) \in Event
    BY <1>3, NextEventType DEF TypeOK, RecordSpawnPlan
  <2>2. log' \in Seq(Event \cup {Garbage}) /\ created' \in 0..MaxEvents
    BY <1>3, <2>1, EventsAssumption DEF TypeOK, RecordSpawnPlan, Put
  <2>3. last' \in [Processes -> Event \cup {NoEvent}] /\ pc' \in [Processes -> {"idle", "writing"}]
    BY <1>3 DEF TypeOK, RecordSpawnPlan
  <2>4. unterminated' \in BOOLEAN /\ stale' \in BOOLEAN
    BY <1>3 DEF TypeOK, RecordSpawnPlan
  <2>. QED
    BY <2>2, <2>3, <2>4 DEF TypeOK
<1>4. ASSUME NEW p \in Processes, WriteFails(p) PROVE TypeOK'
  BY <1>4 DEF WriteFails, TypeOK
<1>5. ASSUME NEW p \in Processes, TornWrite(p) PROVE TypeOK'
  BY <1>5, EventsAssumption DEF TornWrite, Put, TypeOK
<1>6. CASE UNCHANGED vars
  BY <1>6 DEF vars, TypeOK
<1>. QED
  BY <1>1, <1>2, <1>3, <1>4, <1>5, <1>6 DEF Next

-----------------------------------------------------------------------------
(* The chain.                                                              *)

(* A file never loses a line, so one that can be read could always be.     *)
LEMMA ReadableBefore ==
  ASSUME TypeOK, [Next]_vars, Readable'
  PROVE  /\ Readable
         /\ ~unterminated => \A p \in Processes : ~TornWrite(p)
<1>1. ASSUME NEW line, Put(line) PROVE \A i \in DOMAIN log : i \in DOMAIN log' /\ log'[i] = log[i]
  BY <1>1 DEF Put, TypeOK
<1>2. UNCHANGED log \/ \E line : Put(line)
  BY DEF Next, vars, Read, Write, RecordSpawnPlan, WriteFails, TornWrite
<1>3. Readable
  BY <1>1, <1>2 DEF Readable
<1>4. ASSUME ~unterminated, NEW p \in Processes, TornWrite(p) PROVE FALSE
  <2>1. log' = Append(log, Garbage)
    BY <1>4 DEF TornWrite, Put
  <2>2. Len(log) + 1 \in DOMAIN log' /\ log'[Len(log) + 1] = Garbage
    BY <2>1 DEF TypeOK
  <2>. QED
    BY <2>2 DEF Readable
<1>. QED
  BY <1>3, <1>4

(* Whoever appends, and to whatever tail it has seen.                      *)
LEMMA Appending ==
  ASSUME TypeOK, Readable, EventsKept, LinksTell, created < MaxEvents,
         NEW t \in Event \cup {NoEvent}, t # NoEvent => \E i \in DOMAIN log : t = log[i],
         Put(NextEvent(t)), stale' = (stale \/ TailOf(log) # t), ~unterminated',
         \A p \in Processes : last'[p] \in {last[p], NextEvent(t)}
  PROVE  EventsKept' /\ LinksTell'
<1> DEFINE n == Len(log)
           e == NextEvent(t)
           Joined(i) == log'[i].previous = log'[i - 1].hash
<1>1. /\ n \in Nat /\ DOMAIN log = 1..n
      /\ created \in Nat /\ created' = created + 1
      /\ log' = Append(log, e)
      /\ DOMAIN log' = 1..(n + 1) /\ log'[n + 1] = e /\ \A i \in 1..n : log'[i] = log[i]
  BY EventsAssumption DEF TypeOK, Put, EventsKept
<1>2. /\ e \in Event /\ e.hash = created + 1
      /\ e.seq = (IF t = NoEvent THEN 0 ELSE t.seq + 1)
      /\ e.previous = (IF t = NoEvent THEN NoHash ELSE t.hash)
  BY NextEventType DEF TypeOK
<1>3. \A i \in 1..n : log[i] \in Event /\ log[i].hash \in Nat \ {0} /\ log[i].seq \in Nat
                      /\ log[i].hash <= created /\ log[i].hash # e.hash
  BY <1>1, <1>2, EventsAssumption DEF EventsKept, Event
<1> HIDE DEF n, e, Joined
<1>4. EventsKept'
  <2>1. \A i \in 1..(n + 1) : log'[i] \in Event /\ log'[i].hash <= created'
    BY <1>1, <1>2, <1>3
  <2>2. \A i, j \in 1..(n + 1) : log'[i].hash = log'[j].hash => i = j
    <3> SUFFICES ASSUME NEW i \in 1..(n + 1), NEW j \in 1..(n + 1), log'[i].hash = log'[j].hash
                 PROVE  i = j
      OBVIOUS
    <3>1. CASE i \in 1..n /\ j \in 1..n
      BY <1>1, <3>1 DEF EventsKept
    <3>2. CASE i = n + 1 \/ j = n + 1
      BY <1>1, <1>3, <3>2
    <3>. QED
      BY <1>1, <3>1, <3>2
  <2>3. ASSUME NEW p \in Processes, last'[p] # NoEvent
        PROVE  \E i \in 1..(n + 1) : last'[p] = log'[i]
    <3>1. CASE last'[p] = NextEvent(t)
      BY <1>1, <3>1 DEF e
    <3>2. CASE last'[p] = last[p]
      BY <1>1, <2>3, <3>2 DEF EventsKept
    <3>. QED
      BY <3>1, <3>2
  <2>. QED
    BY <1>1, <2>1, <2>2, <2>3 DEF EventsKept
<1>5. CASE n = 0
  <2>1. t = NoEvent /\ log = <<>> /\ TailOf(log) = NoEvent
    BY <1>1, <1>5 DEF TailOf, TypeOK
  <2>2. stale' = stale /\ ~stale
    BY <1>1, <1>5, <2>1 DEF LinksTell, TypeOK
  <2>. QED
    BY <1>1, <1>2, <1>4, <1>5, <2>1, <2>2 DEF LinksTell, Linked
<1>6. CASE n > 0
  <2>1. /\ n \in 1..n /\ 1 \in 1..n /\ TailOf(log) = log[n] /\ log # <<>> /\ log' # <<>>
        /\ log[n] # NoEvent
    BY <1>1, <1>3, <1>6, TailIsLine, TailsAssumption DEF n
  <2>2. Joined(n + 1) <=> t = log[n]
    <3>1. Joined(n + 1) <=> e.previous = log[n].hash
      BY <1>1, <2>1 DEF Joined
    <3>2. CASE t = NoEvent
      BY <1>2, <1>3, <2>1, <3>1, <3>2 DEF NoHash
    <3>3. CASE t # NoEvent
      <4>1. PICK i \in 1..n : t = log[i]
        BY <1>1, <3>3
      <4>2. e.previous = log[i].hash
        BY <1>2, <3>3, <4>1
      <4>3. log[i].hash = log[n].hash => i = n
        BY <1>1, <2>1 DEF EventsKept
      <4>. QED
        BY <2>1, <3>1, <4>1, <4>2, <4>3
    <3>. QED
      BY <3>2, <3>3
  <2>3. \A i \in 1..n : i > 1 => (Joined(i) <=> Linked(i))
    BY <1>1 DEF Linked, Joined
  <2>4. log'[1].seq = 0 /\ log'[1].previous = NoHash
    BY <1>1, <2>1 DEF LinksTell
  <2>5. \A i \in 1..(n + 1) : i > 1 /\ Joined(i) => log'[i].seq = log'[i - 1].seq + 1
    <3>1. Joined(n + 1) => log'[n + 1].seq = log'[n].seq + 1
      BY <1>1, <1>2, <2>1, <2>2
    <3>2. ASSUME NEW i \in 1..n, i > 1, Joined(i) PROVE log'[i].seq = log'[i - 1].seq + 1
      <4>1. i - 1 \in 1..n
        BY <1>1, <3>2
      <4>. QED
        BY <1>1, <2>3, <3>2, <4>1 DEF LinksTell
    <3>. QED
      BY <1>1, <3>1, <3>2
  <2>6. stale' <=> \E i \in 1..(n + 1) : i > 1 /\ ~Joined(i)
    <3>1. stale' <=> stale \/ ~Joined(n + 1)
      BY <2>1, <2>2 DEF TypeOK
    <3>2. stale <=> \E i \in 1..n : i > 1 /\ ~Joined(i)
      BY <1>1, <2>3 DEF LinksTell
    <3>3. n + 1 > 1 /\ 1..(n + 1) = (1..n) \cup {n + 1}
      BY <1>1, <1>6
    <3>. QED
      BY <3>1, <3>2, <3>3
  <2>7. ~stale' => \A i \in 1..(n + 1) : log'[i].seq = i - 1
    <3> SUFFICES ASSUME ~stale' PROVE \A i \in 1..(n + 1) : log'[i].seq = i - 1
      OBVIOUS
    <3>1. ~stale /\ t = log[n]
      BY <2>1
    <3>2. \A i \in 1..n : log[i].seq = i - 1
      BY <1>1, <3>1 DEF LinksTell
    <3>3. e.seq = n
      BY <1>1, <1>2, <1>6, <2>1, <3>1, <3>2
    <3>. QED
      BY <1>1, <3>2, <3>3
  <2>. QED
    BY <1>1, <1>4, <2>1, <2>4, <2>5, <2>6, <2>7 DEF LinksTell, Linked, Joined
<1>. QED
  BY <1>1, <1>5, <1>6

LEMMA StepChain == ChainInv /\ [Next]_vars => ChainInv'
<1> SUFFICES ASSUME TypeOK, Readable, EventsKept, LinksTell, [Next]_vars, Readable'
             PROVE  EventsKept' /\ LinksTell'
  BY StepTypes, ReadableBefore DEF ChainInv
<1> USE DEF EventsKept, LinksTell, Linked
<1>1. ASSUME NEW p \in Processes, Read(p) PROVE EventsKept' /\ LinksTell'
  <2>1. TailOf(log) # NoEvent => \E i \in DOMAIN log : TailOf(log) = log[i]
    BY TailIsLine DEF TailOf
  <2>. QED
    BY <1>1, <2>1 DEF Read, TypeOK
<1>2. ASSUME NEW p \in Processes, NEW more \in BOOLEAN, Write(p, more)
      PROVE  EventsKept' /\ LinksTell'
  <2> HIDE DEF EventsKept, LinksTell
  <2>1. /\ last[p] \in Event \cup {NoEvent}
        /\ last[p] # NoEvent => \E i \in DOMAIN log : last[p] = log[i]
    BY DEF TypeOK, EventsKept
  <2>2. /\ created < MaxEvents /\ Put(NextEvent(last[p])) /\ ~unterminated'
        /\ stale' = (stale \/ TailOf(log) # last[p])
        /\ \A q \in Processes : last'[q] \in {last[q], NextEvent(last[p])}
    BY <1>2 DEF Write, TypeOK
  <2>. QED
    BY <2>1, <2>2, Appending
<1>3. ASSUME NEW p \in Processes, RecordSpawnPlan(p) PROVE EventsKept' /\ LinksTell'
  <2> HIDE DEF EventsKept, LinksTell
  <2>1. stale' = (stale \/ TailOf(log) # NoEvent)
    <3>1. log # <<>> => TailOf(log) # NoEvent
      BY TailIsLine, TailsAssumption DEF EventsKept
    <3>. QED
      BY <1>3, <3>1 DEF RecordSpawnPlan, TailOf
  <2>2. /\ created < MaxEvents /\ Put(NextEvent(NoEvent)) /\ ~unterminated'
        /\ \A q \in Processes : last'[q] \in {last[q], NextEvent(NoEvent)}
    BY <1>3 DEF RecordSpawnPlan
  <2>. QED
    BY <2>1, <2>2, Appending
<1>4. ASSUME NEW p \in Processes, WriteFails(p) PROVE EventsKept' /\ LinksTell'
  BY <1>4 DEF WriteFails
<1>5. CASE UNCHANGED vars
  BY <1>5 DEF vars
<1>. QED
  BY <1>1, <1>2, <1>3, <1>4, <1>5, ReadableBefore DEF Next

LEMMA InitChain == Init => ChainInv
<1> SUFFICES ASSUME Init PROVE ChainInv
  OBVIOUS
<1>1. DOMAIN log = {} /\ ~stale
  BY DEF Init
<1>. QED
  BY <1>1, InitTypes DEF Init, ChainInv, EventsKept, LinksTell

LEMMA ChainInvariant == Spec => []ChainInv
BY InitChain, StepChain, PTL DEF Spec

(* The lines of the file are events, or what is left of one.               *)
THEOREM TypeCorrect == Spec => []TypeOK
<1>1. ChainInv => TypeOK
  BY DEF ChainInv
<1>. QED
  BY <1>1, ChainInvariant, PTL

(* Whoever writes and in whatever order: a file that can be read is a      *)
(* valid chain exactly when every recorder appended to the tail it had     *)
(* read, and the weaker check of the invariant suite agrees.               *)
LEMMA ChainTells == ChainInv => ChainIsExact
<1> SUFFICES ASSUME ChainInv, Readable PROVE (Valid <=> ~stale) /\ (Monotonic <=> Valid)
  BY DEF ChainIsExact
<1>0. EventsKept /\ LinksTell /\ DOMAIN log = 1..Len(log) /\ Len(log) \in Nat
  BY DEF ChainInv, TypeOK
<1>1. \A i \in DOMAIN log : log[i].seq \in Nat
  BY <1>0 DEF EventsKept, Event
<1>2. ~stale => Valid
  <2> SUFFICES ASSUME ~stale, NEW i \in DOMAIN log
               PROVE  /\ log[i].seq = i - 1
                      /\ log[i].previous = IF i = 1 THEN NoHash ELSE log[i - 1].hash
    BY DEF Valid
  <2>1. i = 1 \/ i > 1
    BY <1>0
  <2>2. log # <<>>
    BY <1>0
  <2>. QED
    BY <1>0, <2>1, <2>2 DEF LinksTell, Linked
<1>3. Valid => Monotonic
  BY <1>0 DEF Valid, Monotonic
<1>4. Monotonic => ~stale
  BY <1>0 DEF Monotonic, LinksTell, Linked
<1>. QED
  BY <1>2, <1>3, <1>4

THEOREM Chain == Spec => []ChainIsExact
BY ChainInvariant, ChainTells, PTL

-----------------------------------------------------------------------------
(* The answers.                                                            *)

(* Every step of the recorders is one of the file, or leaves it alone.     *)
LEMMA RecordersRefine == [RecorderNext]_<<vars, recorderVars>> => [Next]_vars
<1> USE DEF Ask
<1>1. ASSUME NEW p \in Processes, Recording(p) PROVE Next
  BY <1>1 DEF Recording, RecordResolvedSettings, RecordProviderRegistrations,
     TransitionToTerminalState, RunReviewer, ApplyBacklogDelta, RecordTestIntegrity,
     EvaluateGateSla, Answer, Abort, Next
<1>2. Notifying => UNCHANGED vars
  BY DEF Notifying, NotificationRefused, Post
<1>. QED
  BY <1>1, <1>2 DEF RecorderNext

(* The chain holds whatever the recorders refuse and answer.               *)
LEMMA RecordersChain == RecorderSpec => []ChainInv
<1>1. RecorderInit => ChainInv
  BY InitChain DEF RecorderInit
<1>2. ChainInv /\ [RecorderNext]_<<vars, recorderVars>> => ChainInv'
  BY StepChain, RecordersRefine
<1>. QED
  BY <1>1, <1>2, PTL DEF RecorderSpec

Filed == Readable => answered \subseteq ToSet(log)

NoticeInv ==
  /\ notice.calls \in 0..Retries /\ notice.arrived \in Nat
  /\ notice.outcome = "none" => notice = NoNotice
  /\ notice.outcome = "sent" => notice.arrived > 0
  /\ notice.outcome = "failed" => notice.calls = Retries
  /\ notice.outcome = "refused" => notice.calls = 0

LEMMA StepFiled == ChainInv /\ Filed /\ [RecorderNext]_<<vars, recorderVars>> => Filed'
<1> SUFFICES ASSUME ChainInv, Filed, [RecorderNext]_<<vars, recorderVars>>, Readable'
             PROVE  answered' \subseteq ToSet(log')
  BY DEF Filed
<1>0. TypeOK /\ Readable /\ EventsKept /\ answered \subseteq ToSet(log)
  BY RecordersRefine, ReadableBefore DEF ChainInv, Filed
<1>1. ASSUME NEW line, Put(line)
      PROVE  line \in ToSet(log') /\ ToSet(log) \subseteq ToSet(log')
  <2>1. log' = Append(log, line) /\ log \in Seq(Event \cup {Garbage})
    BY <1>0, <1>1 DEF Put, EventsKept, TypeOK
  <2>. QED
    BY <2>1 DEF ToSet
<1>2. UNCHANGED log \/ \E line : Put(line)
  BY RecordersRefine DEF Next, vars, Read, Write, RecordSpawnPlan, WriteFails, TornWrite
<1>3. ToSet(log) \subseteq ToSet(log')
  BY <1>1, <1>2
<1>4. ASSUME NEW p \in Processes, NEW more \in BOOLEAN, Answer(p, more)
      PROVE  answered' \subseteq ToSet(log')
  <2>1. answered' \subseteq answered \cup {last'[p]}
    BY <1>4 DEF Answer
  <2>2. last'[p] \in ToSet(log')
    BY <1>0, <1>1, <1>4 DEF Answer, Write, TypeOK
  <2>. QED
    BY <1>0, <1>3, <2>1, <2>2
<1>5. UNCHANGED answered \/ \E p \in Processes, more \in BOOLEAN : Answer(p, more)
  BY DEF RecorderNext, Recording, Ask, RecordResolvedSettings, RecordProviderRegistrations,
     TransitionToTerminalState, RunReviewer, ApplyBacklogDelta, RecordTestIntegrity,
     EvaluateGateSla, Abort, Notifying, NotificationRefused, Post, recorderVars
<1>. QED
  BY <1>0, <1>3, <1>4, <1>5

LEMMA StepNotice == NoticeInv /\ [RecorderNext]_<<vars, recorderVars>> => NoticeInv'
<1> SUFFICES ASSUME NoticeInv, [RecorderNext]_<<vars, recorderVars>> PROVE NoticeInv'
  OBVIOUS
<1>1. \/ notice' = notice
      \/ notice = NoNotice /\ notice' = [notice EXCEPT !.outcome = "due"]
      \/ Notifying
  BY DEF RecorderNext, Recording, Ask, RecordResolvedSettings, RecordProviderRegistrations,
     TransitionToTerminalState, RunReviewer, ApplyBacklogDelta, RecordTestIntegrity,
     EvaluateGateSla, Answer, Abort, recorderVars
<1>2. CASE notice = NoNotice /\ notice' = [notice EXCEPT !.outcome = "due"]
  BY <1>2, RetriesAssumption DEF NoticeInv, NoNotice
<1>3. CASE NotificationRefused
  BY <1>3 DEF NotificationRefused, NoticeInv
<1>4. ASSUME NEW arrives \in BOOLEAN, NEW answer \in {"ok", "not_ok", "throws"},
             Post(arrives, answer)
      PROVE  NoticeInv'
  <2>1. /\ notice'.calls = notice.calls + 1 /\ notice.calls < Retries
        /\ notice'.arrived = notice.arrived + (IF arrives THEN 1 ELSE 0)
        /\ answer = "ok" => arrives
        /\ notice'.outcome = Outcome(answer, notice.calls + 1)
    BY <1>4 DEF Post
  <2>2. /\ notice'.outcome \in {"sent", "due", "failed"}
        /\ notice'.outcome = "sent" => arrives
        /\ notice'.outcome = "failed" => ~(notice.calls + 1 < Retries)
    BY <2>1 DEF Outcome
  <2>. QED
    BY <2>1, <2>2, RetriesAssumption DEF NoticeInv
<1>5. CASE notice' = notice
  BY <1>5 DEF NoticeInv
<1>. QED
  BY <1>1, <1>2, <1>3, <1>4, <1>5 DEF Notifying

(* Every event a caller was told of is in the file while it can be read,   *)
(* whoever wrote beside its recorder, and what is said of a notification   *)
(* is what happened to it.                                                 *)
THEOREM Answers == RecorderSpec => []AnswersTrue
<1>1. RecorderInit => Filed /\ NoticeInv
  BY RetriesAssumption DEF RecorderInit, Filed, NoticeInv, NoNotice
<1>2. Filed /\ NoticeInv => AnswersTrue
  BY DEF Filed, NoticeInv, AnswersTrue
<1>. QED
  BY <1>1, <1>2, RecordersChain, StepFiled, StepNotice, PTL DEF RecorderSpec

(* The chain of a trace the recorders of harness-core write.               *)
THEOREM RecordedChain == RecorderSpec => []ChainIsExact
BY RecordersChain, ChainTells, PTL

-----------------------------------------------------------------------------
(* The view.                                                               *)

(* Prefixes, place by place.                                               *)
LEMMA PrefixIs ==
  ASSUME NEW T, NEW s \in Seq(T), NEW t \in Seq(T)
  PROVE  IsPrefix(s, t) <=> Len(s) <= Len(t) /\ \A i \in 1..Len(s) : s[i] = t[i]
<1>1. CASE Len(s) <= Len(t)
  <2>1. /\ SubSeq(s, 1, Len(s)) = s
        /\ Len(SubSeq(t, 1, Len(s))) = Len(s)
        /\ \A i \in 1..Len(s) : SubSeq(t, 1, Len(s))[i] = t[i]
    BY <1>1
  <2>2. SubSeq(t, 1, Len(s)) \in Seq(T)
    BY <1>1
  <2>3. s = SubSeq(t, 1, Len(s)) <=> \A i \in 1..Len(s) : s[i] = SubSeq(t, 1, Len(s))[i]
    BY <2>1, <2>2, SeqEqual
  <2> QED
    BY <1>1, <2>1, <2>3 DEF IsPrefix
<1>2. CASE ~(Len(s) <= Len(t))
  BY <1>2 DEF IsPrefix
<1> QED
  BY <1>1, <1>2

LEMMA PrefixGrows ==
  ASSUME NEW T, NEW s \in Seq(T), NEW t \in Seq(T), NEW e \in T, IsPrefix(s, t)
  PROVE  IsPrefix(s, Append(t, e))
<1>1. Append(t, e) \in Seq(T) /\ Len(Append(t, e)) = Len(t) + 1
      /\ \A i \in 1..Len(t) : Append(t, e)[i] = t[i]
  BY AppendedIs
<1>2. Len(s) <= Len(t) /\ \A i \in 1..Len(s) : s[i] = t[i]
  BY PrefixIs
<1>3. Len(s) <= Len(t) + 1 /\ \A i \in 1..Len(s) : i \in 1..Len(t)
  BY <1>2
<1> QED
  BY <1>1, <1>2, <1>3, PrefixIs

(* Of two prefixes the shorter is one of the longer.                       *)
LEMMA PrefixesMeet ==
  ASSUME NEW T, NEW s \in Seq(T), NEW t \in Seq(T), NEW u \in Seq(T),
         IsPrefix(s, u), IsPrefix(t, u)
  PROVE  IsPrefix(s, t) \/ IsPrefix(t, s)
<1>1. /\ Len(s) <= Len(u) /\ \A i \in 1..Len(s) : s[i] = u[i]
      /\ Len(t) <= Len(u) /\ \A i \in 1..Len(t) : t[i] = u[i]
  BY PrefixIs
<1>2. Len(s) \in Nat /\ Len(t) \in Nat
  OBVIOUS
<1>3. CASE Len(s) <= Len(t)
  <2>1. \A i \in 1..Len(s) : i \in 1..Len(t)
    BY <1>2, <1>3
  <2> QED
    BY <1>1, <1>3, <2>1, PrefixIs
<1>4. CASE Len(t) <= Len(s)
  <2>1. \A i \in 1..Len(t) : i \in 1..Len(s)
    BY <1>2, <1>4
  <2> QED
    BY <1>1, <1>4, <2>1, PrefixIs
<1> QED
  BY <1>2, <1>3, <1>4

(* The rest of a sequence after a prefix.                                  *)
LEMMA PrefixRest ==
  ASSUME NEW T, NEW s \in Seq(T), NEW t \in Seq(T), IsPrefix(s, t)
  PROVE  \E r \in Seq(T) : t = s \o r
<1> DEFINE r == SubSeq(t, Len(s) + 1, Len(t))
<1>1. Len(s) <= Len(t) /\ \A i \in 1..Len(s) : s[i] = t[i]
  BY PrefixIs
<1>2. /\ r \in Seq(T) /\ Len(r) = Len(t) - Len(s)
      /\ \A i \in 1..(Len(t) - Len(s)) : r[i] = t[Len(s) + i]
  BY <1>1
<1> HIDE DEF r
<1>3. /\ s \o r \in Seq(T) /\ Len(s \o r) = Len(s) + Len(r)
      /\ \A i \in 1..(Len(s) + Len(r)) :
           (s \o r)[i] = IF i <= Len(s) THEN s[i] ELSE r[i - Len(s)]
  BY <1>2, ConcatProperties
<1>4. Len(s) \in Nat /\ Len(t) \in Nat
  OBVIOUS
<1>5. ASSUME NEW i \in 1..Len(t) PROVE (s \o r)[i] = t[i]
  <2>1. CASE i <= Len(s)
    BY <1>1, <1>2, <1>3, <1>4, <2>1
  <2>2. CASE ~(i <= Len(s))
    <3>1. i - Len(s) \in 1..(Len(t) - Len(s)) /\ Len(s) + (i - Len(s)) = i
      BY <1>1, <1>4, <2>2
    <3>2. r[i - Len(s)] = t[i]
      BY <1>2, <3>1
    <3> QED
      BY <1>1, <1>2, <1>3, <1>4, <2>2, <3>2
  <2> QED
    BY <2>1, <2>2
<1>6. Len(s \o r) = Len(t)
  BY <1>1, <1>2, <1>3, <1>4
<1>7. s \o r = t
  BY <1>3, <1>5, <1>6, SeqEqual
<1> QED
  BY <1>2, <1>7

(* A sequence after another: both without repetition and apart.            *)
LEMMA ConcatIs ==
  ASSUME NEW T, NEW s \in Seq(T), NEW t \in Seq(T)
  PROVE  /\ s \o t \in Seq(T) /\ Range(s \o t) = Range(s) \cup Range(t)
         /\ IsInjective(s \o t) <=>
              IsInjective(s) /\ IsInjective(t) /\ Range(s) \cap Range(t) = {}
<1> DEFINE m == Len(s)
           n == Len(t)
           u == s \o t
<1>1. /\ m \in Nat /\ n \in Nat /\ DOMAIN s = 1..m /\ DOMAIN t = 1..n
      /\ u \in Seq(T) /\ DOMAIN u = 1..(m + n)
  BY ConcatProperties
<1>2. \A i \in 1..(m + n) : u[i] = IF i <= m THEN s[i] ELSE t[i - m]
  BY ConcatProperties
<1> HIDE DEF m, n, u
<1>3. /\ \A i \in 1..m : i \in 1..(m + n) /\ u[i] = s[i]
      /\ \A i \in 1..n : m + i \in 1..(m + n) /\ u[m + i] = t[i]
      /\ \A i \in 1..(m + n) : i \in 1..m \/ (i - m \in 1..n /\ m + (i - m) = i)
  <2>1. \A i \in 1..n : ~(m + i <= m) /\ (m + i) - m = i /\ m + i \in 1..(m + n)
    BY <1>1
  <2> QED
    BY <1>1, <1>2, <2>1
<1>4. Range(u) = Range(s) \cup Range(t)
  <2>1. Range(s) = {s[i] : i \in 1..m} /\ Range(t) = {t[i] : i \in 1..n}
        /\ Range(u) = {u[i] : i \in 1..(m + n)}
    BY <1>1 DEF Range
  <2>2. Range(s) \cup Range(t) \subseteq Range(u)
    BY <1>3, <2>1
  <2>3. \A i \in 1..(m + n) : u[i] \in Range(s) \cup Range(t)
    BY <1>3, <2>1
  <2> QED
    BY <2>1, <2>2, <2>3
<1>5. IsInjective(u) => IsInjective(s) /\ IsInjective(t) /\ Range(s) \cap Range(t) = {}
  <2> SUFFICES ASSUME IsInjective(u)
               PROVE  IsInjective(s) /\ IsInjective(t) /\ Range(s) \cap Range(t) = {}
    OBVIOUS
  <2>1. \A i, j \in 1..(m + n) : u[i] = u[j] => i = j
    BY <1>1 DEF IsInjective
  <2>2. IsInjective(s)
    BY <1>1, <1>3, <2>1 DEF IsInjective
  <2>3. IsInjective(t)
    <3>1. \A i, j \in 1..n : m + i = m + j => i = j
      BY <1>1
    <3> QED
      BY <1>1, <1>3, <2>1, <3>1 DEF IsInjective
  <2>4. ASSUME NEW i \in 1..m, NEW j \in 1..n, s[i] = t[j] PROVE FALSE
    <3>1. i = m + j
      BY <1>3, <2>1, <2>4
    <3> QED
      BY <1>1, <3>1
  <2> QED
    BY <1>1, <2>2, <2>3, <2>4 DEF Range
<1>6. IsInjective(s) /\ IsInjective(t) /\ Range(s) \cap Range(t) = {} => IsInjective(u)
  <2> SUFFICES ASSUME IsInjective(s), IsInjective(t), Range(s) \cap Range(t) = {},
                      NEW i \in 1..(m + n), NEW j \in 1..(m + n), u[i] = u[j]
               PROVE  i = j
    BY <1>1 DEF IsInjective
  <2>0. \A k \in 1..m, l \in 1..n : s[k] # t[l]
    BY <1>1 DEF Range
  <2>1. CASE i \in 1..m /\ j \in 1..m
    BY <1>1, <1>3, <2>1 DEF IsInjective
  <2>2. CASE i \notin 1..m /\ j \notin 1..m
    <3>1. i - m \in 1..n /\ j - m \in 1..n /\ u[i] = t[i - m] /\ u[j] = t[j - m]
      BY <1>3, <2>2
    <3>2. i - m = j - m
      BY <1>1, <3>1 DEF IsInjective
    <3> QED
      BY <1>1, <3>2
  <2>3. CASE i \in 1..m /\ j \notin 1..m
    <3>1. j - m \in 1..n /\ u[j] = t[j - m] /\ u[i] = s[i]
      BY <1>3, <2>3
    <3> QED
      BY <2>0, <2>3, <3>1
  <2>4. CASE i \notin 1..m /\ j \in 1..m
    <3>1. i - m \in 1..n /\ u[i] = t[i - m] /\ u[j] = s[j]
      BY <1>3, <2>4
    <3> QED
      BY <2>0, <2>4, <3>1
  <2> QED
    BY <2>1, <2>2, <2>3, <2>4
<1> QED
  BY <1>1, <1>4, <1>5, <1>6 DEF u

(* What has been shown or answered was in the file and comes once, and     *)
(* under one filter it is the beginning of what the filter lets through.   *)
Came(d) == d \in Seq(Event) /\ IsInjective(d) /\ Range(d) \subseteq Range(log)
InTime(d) == IsPrefix(d, Filtered(log, filter))

ViewInv ==
  /\ polls \in [Slots -> {NoPoll, Asked, Failed} \cup [stage : {"answered"}, data : Seq(Event)]]
  /\ Came(liveEvents)
  /\ ~changed => InTime(liveEvents)
  /\ \A q \in Slots : polls[q].stage = "answered" => Came(polls[q].data) /\ InTime(polls[q].data)

LEMMA FilteredIs ==
  ASSUME NEW s \in Seq(Event \cup {Garbage}), NEW f
  PROVE  /\ Filtered(s, f) \in Seq(Event)
         /\ Range(Filtered(s, f)) \subseteq Range(s) \cap Accepted(f)
         /\ IsInjective(s) => IsInjective(Filtered(s, f))
<1> DEFINE T == Event \cup {Garbage}
           v == Select(s, Accepted(f))
<1>1. v \in Seq(T \cap Accepted(f)) /\ Range(v) \subseteq Range(s) \cap Accepted(f)
      /\ (IsInjective(s) => IsInjective(v))
  BY SelectIs
<1>2. T \cap Accepted(f) \subseteq Event
  BY DEF Accepted
<1> HIDE DEF v, T
<1>3. v \in Seq(Event)
  BY <1>1, <1>2, SeqMonotonic
<1> QED
  BY <1>1, <1>3 DEF Filtered, v

(* A line that is put changes nothing that was in time.                    *)
LEMMA StillInTime ==
  ASSUME TypeOK, NEW line \in Event \cup {Garbage}, log' \in {log, Append(log, line)},
         filter' = filter, NEW d, Came(d)
  PROVE  /\ d \in Seq(Event) /\ IsInjective(d) /\ Range(d) \subseteq Range(log')
         /\ InTime(d) => IsPrefix(d, Filtered(log', filter))
<1> DEFINE T == Event \cup {Garbage}
<1>1. log \in Seq(T)
  BY DEF TypeOK
<1>2. CASE log' = log
  BY <1>2 DEF Came, InTime
<1>3. CASE log' = Append(log, line)
  <2>1. Range(log') = Range(log) \cup {line}
    BY <1>1, <1>3, AppendedIs
  <2>2. Filtered(log', filter) = IF line \in Accepted(filter) THEN Append(Filtered(log, filter), line)
                                 ELSE Filtered(log, filter)
    BY <1>1, <1>3, SelectAppend DEF Filtered
  <2>3. line \in Accepted(filter) => line \in Event
    BY DEF Accepted
  <2>4. Filtered(log, filter) \in Seq(Event) /\ d \in Seq(Event)
    BY <1>1, FilteredIs DEF Came
  <2>5. InTime(d) => IsPrefix(d, Filtered(log', filter))
    BY <2>2, <2>3, <2>4, PrefixGrows DEF InTime
  <2> QED
    BY <2>1, <2>5 DEF Came
<1> QED
  BY <1>2, <1>3

LEMMA FileMoves ==
  ASSUME TypeOK, TypeOK', [Next]_vars
  PROVE  \E line \in Event \cup {Garbage} : log' \in {log, Append(log, line)}
<1>1. CASE log' = log
  BY <1>1
<1>2. ASSUME NEW line, Put(line), log' # log
      PROVE  line \in Event \cup {Garbage} /\ log' = Append(log, line)
  <2>1. log' = Append(log, line) /\ log \in Seq(Event \cup {Garbage})
        /\ log' \in Seq(Event \cup {Garbage})
    BY <1>2 DEF Put, TypeOK
  <2>2. Len(log) + 1 \in 1..Len(log') /\ log'[Len(log) + 1] = line
    BY <2>1
  <2> QED
    BY <2>1, <2>2
<1>3. UNCHANGED log \/ \E line : Put(line)
  BY DEF Next, vars, Read, Write, RecordSpawnPlan, WriteFails, TornWrite
<1> QED
  BY <1>1, <1>2, <1>3

(* What arrives late or early: the rest of it is new, or nothing is.       *)
LEMMA FreshIs ==
  ASSUME NEW d, Came(d), Came(liveEvents)
  PROVE  /\ Came(liveEvents \o Fresh(d))
         /\ IsPrefix(d, liveEvents) => liveEvents \o Fresh(d) = liveEvents
         /\ IsPrefix(liveEvents, d) => liveEvents \o Fresh(d) = d
<1> DEFINE S == Event \ Range(liveEvents)
           v == Select(d, S)
<1>1. d \in Seq(Event) /\ liveEvents \in Seq(Event) /\ IsInjective(d) /\ IsInjective(liveEvents)
      /\ Range(d) \subseteq Range(log) /\ Range(liveEvents) \subseteq Range(log)
  BY DEF Came
<1>2. /\ v \in Seq(Event \cap S) /\ Range(v) \subseteq Range(d) \cap S
      /\ IsInjective(v)
  BY <1>1, SelectIs
<1>3. v = Fresh(d)
  BY DEF Fresh
<1>4. Range(liveEvents) \cap S = {} /\ Event \cap S \subseteq Event
  OBVIOUS
<1> HIDE DEF v, S
<1>5. v \in Seq(Event)
  BY <1>2, <1>4, SeqMonotonic
<1>6. Came(liveEvents \o v)
  <2>1. /\ liveEvents \o v \in Seq(Event)
        /\ Range(liveEvents \o v) = Range(liveEvents) \cup Range(v)
        /\ IsInjective(liveEvents \o v) <=>
             IsInjective(liveEvents) /\ IsInjective(v) /\ Range(liveEvents) \cap Range(v) = {}
    BY <1>1, <1>5, ConcatIs
  <2> QED
    BY <1>1, <1>2, <1>4, <2>1 DEF Came
<1>7. ASSUME IsPrefix(d, liveEvents) PROVE liveEvents \o v = liveEvents
  <2>1. PICK r \in Seq(Event) : liveEvents = d \o r
    BY <1>1, <1>7, PrefixRest
  <2>2. Range(d) \subseteq Range(liveEvents)
    BY <1>1, <2>1, ConcatIs
  <2>3. v = <<>>
    BY <1>1, <1>4, <2>2, SelectNone DEF v
  <2> QED
    BY <1>1, <2>3
<1>8. ASSUME IsPrefix(liveEvents, d) PROVE liveEvents \o v = d
  <2>1. PICK r \in Seq(Event) : d = liveEvents \o r
    BY <1>1, <1>8, PrefixRest
  <2>2. Range(liveEvents) \cap Range(r) = {}
    BY <1>1, <2>1, ConcatIs
  <2>3. Range(r) \subseteq S
    <3>1. Range(r) \subseteq Event
      BY DEF Range
    <3> QED
      BY <2>2, <3>1 DEF S
  <2>4. Select(liveEvents, S) = <<>> /\ Select(r, S) = r
    BY <1>1, <1>4, <2>3, SelectNone, SelectAll
  <2>5. v = Select(liveEvents, S) \o Select(r, S)
    BY <1>1, <2>1, SelectConcat DEF v
  <2> QED
    BY <2>1, <2>4, <2>5
<1> QED
  BY <1>3, <1>6, <1>7, <1>8

LEMMA ViewInitially == Init /\ ViewInit => ViewInv
<1> SUFFICES ASSUME Init, ViewInit PROVE ViewInv
  OBVIOUS
<1>1. liveEvents = <<>> /\ <<>> \in Seq(Event) /\ Range(<<>>) = {} /\ IsInjective(<<>>)
  BY DEF ViewInit, Range, IsInjective
<1>2. log = <<>>
  BY DEF Init
<1>3. Filtered(log, filter) = <<>>
  BY <1>2, SelectEmpty DEF Filtered
<1>4. IsPrefix(<<>>, <<>>)
  <2>1. Len(<<>>) = 0
    OBVIOUS
  <2> QED
    BY <2>1 DEF IsPrefix
<1>5. polls = [q \in Slots |-> NoPoll] /\ NoPoll.stage # "answered"
  BY DEF ViewInit, NoPoll
<1> QED
  BY <1>1, <1>3, <1>4, <1>5 DEF ViewInv, Came, InTime

LEMMA ViewKept ==
  ASSUME ChainInv, ChainInv', ViewInv, ViewNext
  PROVE  ViewInv'
<1>0. UNCHANGED vars
  BY DEF ViewNext, Poll, Serve, Arrive, ArriveFailed, ChangeFilter
<1>1. log' = log /\ log \in Seq(Event \cup {Garbage})
  BY <1>0 DEF vars, ChainInv, TypeOK
<1> USE DEF NoPoll, Asked, Failed
<1>2. ASSUME NEW q \in Slots, NEW x \in {NoPoll, Asked, Failed}, polls' = [polls EXCEPT ![q] = x],
             UNCHANGED <<filter, changed, liveEvents>>
      PROVE  ViewInv'
  BY <1>1, <1>2 DEF ViewInv, Came, InTime
<1>3. ASSUME NEW q \in Slots, Readable, polls' = [polls EXCEPT ![q] = Answered(Filtered(log, filter))],
             UNCHANGED <<filter, changed, liveEvents>>
      PROVE  ViewInv'
  <2> DEFINE d == Filtered(log, filter)
  <2>1. IsInjective(log)
    BY <1>3 DEF ChainInv, EventsKept, IsInjective
  <2>2. Came(d)
    BY <1>1, <2>1, FilteredIs DEF Came
  <2>3. InTime(d)
    BY <1>1, <2>2, PrefixIs DEF InTime, Came
  <2> HIDE DEF d
  <2>4. Answered(d) \in [stage : {"answered"}, data : Seq(Event)] /\ Answered(d).data = d
    BY <2>2 DEF Answered, Came
  <2>5. polls' = [polls EXCEPT ![q] = Answered(d)]
    BY <1>3 DEF d
  <2>6. polls' \in [Slots -> {NoPoll, Asked, Failed} \cup [stage : {"answered"}, data : Seq(Event)]]
    BY <2>4, <2>5 DEF ViewInv
  <2>7. ASSUME NEW r \in Slots, polls'[r].stage = "answered"
        PROVE  Came(polls'[r].data) /\ InTime(polls'[r].data)
    BY <2>2, <2>3, <2>4, <2>5, <2>7 DEF ViewInv
  <2> QED
    BY <1>1, <1>3, <2>6, <2>7 DEF ViewInv, Came, InTime
<1>4. ASSUME NEW q \in Slots, Arrive(q) PROVE ViewInv'
  <2> DEFINE d == polls[q].data
             live == liveEvents \o Fresh(d)
  <2>1. /\ Came(d) /\ InTime(d) /\ Came(liveEvents) /\ (~changed => InTime(liveEvents))
        /\ liveEvents' = live /\ polls' = [polls EXCEPT ![q] = NoPoll]
        /\ filter' = filter /\ changed' = changed
    BY <1>4 DEF Arrive, ViewInv
  <2> HIDE DEF d
  <2>2. /\ Came(live)
        /\ IsPrefix(d, liveEvents) => live = liveEvents
        /\ IsPrefix(liveEvents, d) => live = d
    BY <2>1, FreshIs
  <2> HIDE DEF live
  <2>3. ASSUME ~changed PROVE InTime(live)
    <3>1. d \in Seq(Event) /\ liveEvents \in Seq(Event) /\ Filtered(log, filter) \in Seq(Event)
      BY <1>1, <2>1, FilteredIs DEF Came
    <3>2. IsPrefix(d, liveEvents) \/ IsPrefix(liveEvents, d)
      BY <2>1, <2>3, <3>1, PrefixesMeet DEF InTime
    <3> QED
      BY <2>1, <2>2, <2>3, <3>2
  <2>4. /\ polls' \in [Slots -> {NoPoll, Asked, Failed} \cup [stage : {"answered"}, data : Seq(Event)]]
        /\ \A r \in Slots : polls'[r].stage = "answered" => polls'[r] = polls[r]
    BY <2>1 DEF ViewInv
  <2> QED
    BY <1>1, <2>1, <2>2, <2>3, <2>4 DEF ViewInv, Came, InTime
<1>5. ASSUME NEW f \in Filters, ChangeFilter(f) PROVE ViewInv'
  BY <1>1, <1>5 DEF ChangeFilter, ViewInv, Came, InTime
<1>6. ASSUME NEW q \in Slots, Poll(q) \/ ArriveFailed(q) PROVE ViewInv'
  BY <1>2, <1>6 DEF Poll, ArriveFailed
<1>7. ASSUME NEW q \in Slots, Serve(q) PROVE ViewInv'
  BY <1>2, <1>3, <1>7 DEF Serve
<1> QED
  BY <1>4, <1>5, <1>6, <1>7 DEF ViewNext

LEMMA FileKeepsView ==
  ASSUME ChainInv, ChainInv', ViewInv, [Next]_vars, UNCHANGED viewVars
  PROVE  ViewInv'
<1>1. TypeOK /\ TypeOK'
  BY DEF ChainInv
<1>2. PICK line \in Event \cup {Garbage} : log' \in {log, Append(log, line)}
  BY <1>1, FileMoves
<1>3. UNCHANGED <<filter, changed, liveEvents, polls>>
  BY DEF viewVars
<1>4. ASSUME NEW d, Came(d)
      PROVE  /\ d \in Seq(Event) /\ IsInjective(d) /\ Range(d) \subseteq Range(log')
             /\ InTime(d) => IsPrefix(d, Filtered(log', filter))
  BY <1>1, <1>2, <1>3, <1>4, StillInTime
<1> QED
  BY <1>3, <1>4 DEF ViewInv, Came, InTime

LEMMA ViewShows == ChainInv /\ ViewInv => ViewInOrder
<1> SUFFICES ASSUME ChainInv, ViewInv PROVE ViewInOrder
  OBVIOUS
<1>1. log \in Seq(Event \cup {Garbage}) /\ Came(liveEvents) /\ liveEvents \in Seq(Event)
  BY DEF ChainInv, TypeOK, ViewInv, Came
<1>2. ASSUME ~changed PROVE IsPrefix(Displayed, Filtered(log, filter))
  <2>1. IsPrefix(liveEvents, Filtered(log, filter))
    BY <1>2 DEF ViewInv, InTime
  <2>2. /\ Filtered(log, filter) \in Seq(Event)
        /\ Range(Filtered(log, filter)) \subseteq Accepted(filter)
    BY <1>1, FilteredIs
  <2>3. PICK r \in Seq(Event) : Filtered(log, filter) = liveEvents \o r
    BY <1>1, <2>1, <2>2, PrefixRest
  <2>4. Range(liveEvents) \subseteq Accepted(filter)
    BY <1>1, <2>2, <2>3, ConcatIs
  <2>5. Displayed = liveEvents
    BY <1>1, <2>4, SelectAll DEF Displayed, Filtered
  <2> QED
    BY <2>1, <2>5
<1> QED
  BY <1>1, <1>2 DEF ViewInOrder, Came

(* The view is in order, whatever overtakes what.                          *)
THEOREM InOrder == ViewSpec => []ViewInOrder
<1>1. Init /\ ViewInit => ChainInv /\ ViewInv
  BY InitChain, ViewInitially
<1>2. ASSUME ChainInv, ViewInv, [ViewNext \/ (Next /\ UNCHANGED viewVars)]_<<vars, viewVars>>
      PROVE  ChainInv' /\ ViewInv'
  <2>1. [Next]_vars
    BY <1>2 DEF ViewNext, Poll, Serve, Arrive, ArriveFailed, ChangeFilter
  <2>2. ChainInv'
    BY <1>2, <2>1, StepChain
  <2>3. CASE ViewNext
    BY <1>2, <2>2, <2>3, ViewKept
  <2>4. CASE UNCHANGED viewVars
    BY <1>2, <2>1, <2>2, <2>4, FileKeepsView
  <2> QED
    BY <1>2, <2>2, <2>3, <2>4
<1> QED
  BY <1>1, <1>2, ViewShows, PTL DEF ViewSpec
=============================================================================
