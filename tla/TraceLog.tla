------------------------------ MODULE TraceLog ------------------------------
(***************************************************************************)
(* The hash-chained trace file of event-log and the functions that append  *)
(* to it.  Every recorder but one (appendNextEvent and its copies in       *)
(* harness-core, tool-executor and workspace-manager) reads the whole file *)
(* and then appends one line; recordProviderRegistrations reads once and   *)
(* appends several; recordSpawnPlan reads nothing.  Reading and appending  *)
(* are two system calls with nothing that locks the file, so recorders of  *)
(* different processes (the harness, the review console) interleave        *)
(* between them.                                                           *)
(*                                                                         *)
(* A hash is as good as the identity of its event: events are unique       *)
(* (event_id is a random UUID) and nothing here edits a line.              *)
(***************************************************************************)
EXTENDS Integers, Sequences, SequencesExt

CONSTANTS
  Processes,
  NoEvent,     \* the tail of an empty file
  Garbage,     \* a line that is not JSON
  MaxEvents    \* bound of the model: events created

ASSUME EventsAssumption == MaxEvents \in Nat

VARIABLES
  log,           \* lines of the file
  unterminated,  \* the last line has no newline
  pc,            \* of a process: "idle", or "writing" between its read and its append
  last,          \* the tail a process has read, or the event it wrote itself since
  created,       \* events created so far
  stale          \* history: some event was appended to a tail its recorder had not seen

vars == <<log, unterminated, pc, last, created, stale>>

NoHash == 0
Event == [seq : Nat, previous : 0..MaxEvents, hash : 1..MaxEvents]

ASSUME TailsAssumption == NoEvent # Garbage /\ NoEvent \notin Event /\ Garbage \notin Event

Readable == \A i \in DOMAIN log : log[i] # Garbage
TailOf(l) == IF l = <<>> THEN NoEvent ELSE Last(l)

(* validateTraceEvent, on a file readJsonl can parse.                      *)
Valid ==
  \A i \in DOMAIN log :
    /\ log[i].seq = i - 1
    /\ log[i].previous = IF i = 1 THEN NoHash ELSE log[i - 1].hash

(* Mutant of NextEvent: the hash of the event before is dropped.           *)
EventWithoutHash(tail) ==
  [seq |-> IF tail = NoEvent THEN 0 ELSE tail.seq + 1,
   previous |-> NoHash,
   hash |-> created + 1]

(* createTraceEvent on the tail that was read.                             *)
NextEvent(tail) ==
  [seq |-> IF tail = NoEvent THEN 0 ELSE tail.seq + 1,
   previous |-> IF tail = NoEvent THEN NoHash ELSE tail.hash,
   hash |-> created + 1]

(* appendJsonl.  A line put after one without newline is part of it, and   *)
(* only ends it.                                                           *)
Put(line) ==
  /\ log' = IF unterminated THEN log ELSE Append(log, line)
  /\ created' = created + 1

Init ==
  /\ log = <<>>
  /\ unterminated = FALSE
  /\ pc = [p \in Processes |-> "idle"]
  /\ last = [p \in Processes |-> NoEvent]
  /\ created = 0
  /\ stale = FALSE

(* readJsonl throws on a line that does not parse, before anything is put. *)
Read(p) ==
  /\ pc[p] = "idle" /\ created < MaxEvents /\ Readable
  /\ last' = [last EXCEPT ![p] = TailOf(log)]
  /\ pc' = [pc EXCEPT ![p] = "writing"]
  /\ UNCHANGED <<log, unterminated, created, stale>>

(* recordProviderRegistrations has more to append, with the event it has   *)
(* just put as the tail; every other recorder is through.                  *)
Write(p, more) ==
  /\ pc[p] = "writing" /\ created < MaxEvents
  /\ LET e == NextEvent(last[p])
     IN  /\ Put(e)
         /\ last' = [last EXCEPT ![p] = e]
  /\ stale' = (stale \/ TailOf(log) # last[p])
  /\ unterminated' = FALSE
  /\ pc' = [pc EXCEPT ![p] = IF more THEN "writing" ELSE "idle"]

(* recordSpawnPlan: seq 0 and no hash, whatever the file holds.            *)
RecordSpawnPlan(p) ==
  /\ pc[p] = "idle" /\ created < MaxEvents
  /\ Put(NextEvent(NoEvent))
  /\ stale' = (stale \/ log # <<>>)
  /\ unterminated' = FALSE
  /\ UNCHANGED <<pc, last>>

(* External: appendFileSync throws having written nothing.                 *)
WriteFails(p) ==
  /\ pc[p] = "writing"
  /\ pc' = [pc EXCEPT ![p] = "idle"]
  /\ UNCHANGED <<log, unterminated, last, created, stale>>

(* External: the disk fills up or the process dies within the append, and  *)
(* half a line stays.                                                      *)
TornWrite(p) ==
  /\ pc[p] = "writing" /\ created < MaxEvents
  /\ Put(Garbage)
  /\ unterminated' = TRUE
  /\ pc' = [pc EXCEPT ![p] = "idle"]
  /\ UNCHANGED <<last, stale>>

Next == \E p \in Processes :
  \/ Read(p)
  \/ \E more \in BOOLEAN : Write(p, more)
  \/ RecordSpawnPlan(p)
  \/ WriteFails(p)
  \/ TornWrite(p)

Spec == Init /\ [][Next]_vars

-----------------------------------------------------------------------------
(* Properties.                                                             *)

(* Type invariant: the lines of the file are events, and what a recorder   *)
(* holds is the tail it read.                                              *)
TypeOK ==
  /\ log \in Seq(Event \cup {Garbage})
  /\ unterminated \in BOOLEAN
  /\ pc \in [Processes -> {"idle", "writing"}]
  /\ last \in [Processes -> Event \cup {NoEvent}]
  /\ created \in 0..MaxEvents
  /\ stale \in BOOLEAN

(* The check of invariant I6 (tests/invariants/system-invariants.ts),      *)
(* which asks only for a growing seq and does not look at the first link.  *)
Monotonic ==
  \A i \in DOMAIN log : i > 1 =>
    /\ log[i].seq > log[i - 1].seq
    /\ log[i].previous = log[i - 1].hash

(* The chain is exact on every file that can be read: it is accepted when  *)
(* and only when every recorder appended to the tail it had read, and the  *)
(* weaker check of I6 accepts the same files.  A fork made by two          *)
(* recorders never goes unnoticed, and a serial trace is never refused.    *)
ChainIsExact == Readable => (Valid <=> ~stale) /\ (Monotonic <=> Valid)

(* A trace one process writes, with no write torn, is a valid chain        *)
(* ("computing seq + previous_event_hash from the file's tail so callers   *)
(* never pass seq by hand", event-log/src/index.ts:83).                    *)
SoleWriterValid == Readable => Valid
=============================================================================
