------------------------------ MODULE EventLog ------------------------------
(***************************************************************************)
(* telemetry/events.jsonl and its recorder                                 *)
(* (infra/telemetry/telemetry-recorder.ts).  Every append reads the whole  *)
(* file, adds a line and writes the whole file back, so appends of tasks   *)
(* that run in parallel must take turns: a queue of promises.  A recorder  *)
(* that starts on an existing file numbers its events after those it can   *)
(* parse; one line it cannot parse hides them all.                         *)
(*                                                                         *)
(* A line is what it tells apart: the number and the event, or Torn, the   *)
(* rest of a line cut short by a failed write or a crash.                  *)
(***************************************************************************)
EXTENDS SequencesExt, Integers

CONSTANTS Event,      \* the events that may be recorded
          Torn,       \* a line that does not parse; none that the recorder writes
          MaxFaults   \* how many reads and writes of the file may fail

VARIABLES file,       \* the lines of events.jsonl
          sequence,   \* the number of the next event of this recorder
          queue,      \* the appends asked for and not settled, oldest first
          writing,    \* those that have read the file and not written it
          faults      \* reads and writes that have failed

logVars == <<file, sequence, queue, writing, faults>>

Line == [seq : Nat, event : Event]
Draft == [event : Event, seq : Nat, base : Seq(Line \cup {Torn})]

\* What is left of the lines when only a part of them reached the disk: some
\* of the lines, and perhaps the start of the next one.
Remains(lines) ==
  {SubSeq(lines, 1, n) : n \in 0 .. Len(lines)}
    \cup {Append(SubSeq(lines, 1, n), Torn) : n \in 0 .. Len(lines) - 1}

\* readEvents: all or nothing.
Parsed(lines) == IF Torn \in ToSet(lines) THEN << >> ELSE lines

-----------------------------------------------------------------------------
EmptyLog ==
  /\ file = << >>
  /\ sequence = 1
  /\ queue = << >>
  /\ writing = {}
  /\ faults = 0

\* append: the event waits for its turn.
Enqueue(e) == queue' = Append(queue, e)

\* Mutant: appends do not wait for one another.
IsNextAny(e) == e \in ToSet(queue)

\* The turn of an event: the one asked for first.
IsNext(e) == queue # << >> /\ e = Head(queue)

\* It is numbered and the file is read, as if empty when that fails.
BeginAppend(e) ==
  /\ IsNext(e)
  /\ \A d \in writing : d.event # e
  /\ \E readFails \in BOOLEAN :
       /\ readFails => faults < MaxFaults
       /\ faults' = IF readFails THEN faults + 1 ELSE faults
       /\ writing' = writing \cup
            {[event |-> e, seq |-> sequence, base |-> IF readFails THEN << >> ELSE file]}
  /\ sequence' = sequence + 1
  /\ UNCHANGED <<file, queue>>

Written(d) == Append(d.base, [seq |-> d.seq, event |-> d.event])

\* Mutant: the number of a failed write is given out again.
FailAppendRenumbered(d) ==
  /\ d \in writing
  /\ writing' = writing \ {d}
  /\ queue' = Tail(queue)
  /\ sequence' = sequence - 1
  /\ faults < MaxFaults
  /\ faults' = faults + 1
  /\ file' \in {file} \cup Remains(Written(d))

\* Mutant: a turn that comes back takes those behind it along.
SettleAll(d) ==
  /\ d \in writing
  /\ writing' = writing \ {d}
  /\ queue' = << >>
  /\ UNCHANGED sequence

\* The turn passes on, whether the write succeeds or fails.
Settle(d) ==
  /\ d \in writing
  /\ writing' = writing \ {d}
  /\ queue' = Tail(queue)
  /\ UNCHANGED sequence

EndAppend(d) ==
  /\ Settle(d)
  /\ file' = Written(d)
  /\ UNCHANGED faults

\* A write that fails leaves the file as it was or cut short.
FailAppend(d) ==
  /\ Settle(d)
  /\ faults < MaxFaults
  /\ faults' = faults + 1
  /\ file' \in {file} \cup Remains(Written(d))

\* The process dies: a write under way may have got anywhere.
CutOff ==
  /\ file' \in {file} \cup UNION {Remains(Written(d)) : d \in writing}
  /\ queue' = << >>
  /\ writing' = {}
  /\ UNCHANGED <<sequence, faults>>

\* Mutant: a file that cannot be parsed is kept, and numbered from one.
InitializeKeeping ==
  /\ file' = file
  /\ sequence' = Len(Parsed(file)) + 1
  /\ UNCHANGED <<writing, faults>>

\* initialize: the numbers go on after the events that can be read; when there
\* are none the file is emptied.
Initialize ==
  /\ \E readFails \in BOOLEAN :
       LET events == IF readFails THEN << >> ELSE Parsed(file)
       IN  /\ readFails => faults < MaxFaults
           /\ faults' = IF readFails THEN faults + 1 ELSE faults
           /\ sequence' = Len(events) + 1
           /\ file' = IF events = << >> THEN << >> ELSE file
  /\ UNCHANGED writing
=============================================================================
