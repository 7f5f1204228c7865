------------------------------ MODULE Dispatch ------------------------------
(***************************************************************************)
(* The dispatches that a stage has under way at once, from                 *)
(* dispatchLeaf and dispatchGenericCoding (application/stage/utils.ts)     *)
(* down to the pi sessions (infra/pi/session-dispatcher.ts), the event log *)
(* they all write to and the widgets they all paint.                       *)
(*                                                                         *)
(* Tasks of a wave run in parallel, and each makes one dispatch after the  *)
(* other.  A dispatch records dispatch.started, opens a session, waits for *)
(* the first of five ends, takes the session off the screen, records       *)
(* dispatch.completed and returns.  The first that throws ends the run:    *)
(* the screen is cleared while the others go on, their own next dispatches *)
(* included, because nothing stops them.  The environment makes agents     *)
(* answer or not, fails reads, writes and sessions, cancels, and crashes.  *)
(***************************************************************************)
EXTENDS LiveView, FiniteSetsExt

CONSTANTS Call,         \* the dispatches
          After,        \* the one it comes after in its task, None for the first
          Kind,         \* "leaf" or "generic"
          LabelOf,      \* the correlation id it is given
          Torn,
          Payload,      \* the statuses that agents return
          MaxFaults,    \* how many reads, writes and openings may fail
          MaxMishaps,   \* how many of those and crashes there may be in all
          MaxTimers     \* how many timers of the box may be set at once

ASSUME CallAssumption ==
  /\ After \in [Call -> Call \cup {None}]
  /\ Kind \in [Call -> {"leaf", "generic"}]
  /\ LabelOf \in [Call -> Label]
  /\ None \notin Call \cup Label
  /\ Payload \subseteq {"PASS", "PARTIAL", "FAIL"}
ASSUME BoundsAssumption == MaxFaults \in Nat /\ MaxMishaps \in Nat /\ MaxTimers \in Nat

VARIABLES file, sequence, queue, writing, faults,   \* of EventLog
          life,       \* how many processes have died
          up,         \* the process has initialized its recorder
          pc,         \* where each dispatch is
          result,     \* the status that each has come to
          aborted,    \* the host has cancelled
          screen,     \* the widgets
          stopped     \* the run is over and has cleared them

\* A payload of stage_return, or how the session ended without one.
Status == {"PASS", "PARTIAL", "FAIL"}
EndReason == {"agent_end", "timeout", "aborted", "session_error"}

DispatchEvent ==
  [life : Nat, call : Call, type : {"started"}] \cup
  [life : Nat, call : Call, type : {"completed"}, status : Status]

Log == INSTANCE EventLog WITH Event <- DispatchEvent

ASSUME TornAssumption == Torn \notin Log!Line

logVars == <<file, sequence, queue, writing, faults>>
callVars == <<life, up, pc, result, aborted, stopped>>
vars == <<logVars, callVars, screen>>

StartedEvent(c) == [life |-> life, call |-> c, type |-> "started"]

\* Mutant: the end of a leaf is logged as a pass, whatever ended it.
CompletedEventCoarse(c, status) ==
  [life |-> life, call |-> c, type |-> "completed",
   status |-> IF Kind[c] = "leaf" THEN "PASS" ELSE status]

CompletedEvent(c, status) ==
  [life |-> life, call |-> c, type |-> "completed", status |-> status]

Underway == {"announcing", "opening", "racing", "reporting"}
Final == {"returned", "threw"}

TypeOK ==
  /\ file \in Seq(Log!Line \cup {Torn})
  /\ sequence \in Nat \ {0}
  /\ queue \in Seq(DispatchEvent)
  /\ writing \in SUBSET Log!Draft
  /\ faults \in 0 .. MaxFaults
  /\ life \in 0 .. MaxMishaps
  /\ up \in BOOLEAN /\ aborted \in BOOLEAN /\ stopped \in BOOLEAN
  /\ pc \in [Call -> {"idle"} \cup Underway \cup Final]
  /\ result \in [Call -> Status \cup {None}]
  /\ screen \in View

Init ==
  /\ Log!EmptyLog
  /\ life = 0
  /\ up = FALSE
  /\ pc = [c \in Call |-> "idle"]
  /\ result = [c \in Call |-> None]
  /\ aborted = FALSE
  /\ stopped = FALSE
  /\ screen = NewView

-----------------------------------------------------------------------------
(* A dispatch *)

Goes(c, from, to) == up /\ pc[c] = from /\ pc' = [pc EXCEPT ![c] = to]

\* The log is initialized and the presenter started before the pipeline runs.
Begin ==
  /\ ~up
  /\ up' = TRUE
  /\ Log!Initialize
  /\ screen' = Started(screen)
  /\ UNCHANGED <<queue, life, pc, result, aborted, stopped>>

\* A task comes to its first dispatch in its own time, after reading its spec,
\* and goes on to its next one even when the run is over.
Announce(c) ==
  /\ After[c] # None => pc[After[c]] = "returned"
  /\ Goes(c, "idle", "announcing")
  /\ Log!Enqueue(StartedEvent(c))
  /\ UNCHANGED <<file, sequence, writing, faults, life, up, result, aborted, screen, stopped>>

BeginAppend(e) ==
  /\ up
  /\ Log!BeginAppend(e)
  /\ UNCHANGED <<callVars, screen>>

\* The event is on file, the widgets hear of it and the dispatch goes on.
EndAppend(d) ==
  /\ Log!EndAppend(d)
  /\ pc' = [pc EXCEPT ![d.event.call] = IF @ = "announcing" THEN "opening" ELSE "returned"]
  /\ screen' = OnDomainEvent(screen)
  /\ UNCHANGED <<life, up, result, aborted, stopped>>

\* record rejects, and with it the dispatch.
FailAppend(d) ==
  /\ Log!FailAppend(d)
  /\ pc' = [pc EXCEPT ![d.event.call] = "threw"]
  /\ UNCHANGED <<life, up, result, aborted, screen, stopped>>

\* What dispatch.completed says of the end of a session.
StatusOf(c, reason) ==
  IF Kind[c] = "leaf" /\ reason = "agent_end" THEN "PASS" ELSE "FAIL"

\* The dispatch has its status and waits for its second record.
Report(c, status) ==
  /\ result' = [result EXCEPT ![c] = status]
  /\ Log!Enqueue(CompletedEvent(c, status))
  /\ UNCHANGED <<file, sequence, writing, faults, life, up, aborted, stopped>>

\* The end of a session, whatever it was.
SessionEnds(c, status) ==
  /\ Goes(c, "racing", "reporting")
  /\ screen' = OnSessionEnd(screen, LabelOf[c])
  /\ Report(c, status)

Open(c) ==
  /\ ~aborted
  /\ Goes(c, "opening", "racing")
  /\ screen' = OnSessionStart(screen, LabelOf[c])
  /\ UNCHANGED <<file, sequence, queue, writing, faults, life, up, result, aborted, stopped>>

\* A session that opens after the cancellation is not prompted.
OpenAborted(c) ==
  /\ aborted
  /\ Goes(c, "opening", "reporting")
  /\ screen' = OnSessionEnd(OnSessionStart(screen, LabelOf[c]), LabelOf[c])
  /\ Report(c, StatusOf(c, "aborted"))

\* The session cannot be created: outside the try of dispatch.
OpenFails(c) ==
  /\ faults < MaxFaults
  /\ faults' = faults + 1
  /\ Goes(c, "opening", "threw")
  /\ UNCHANGED <<file, sequence, queue, writing, life, up, result, aborted, screen, stopped>>

\* The agent calls the return tool; a leaf has none that carries a status.
AgentReturns(c) ==
  /\ ~aborted
  /\ \E payload \in Payload :
       SessionEnds(c, IF Kind[c] = "leaf" THEN "PASS" ELSE payload)

AgentEnds(c) == ~aborted /\ SessionEnds(c, StatusOf(c, "agent_end"))

PromptFails(c) == ~aborted /\ SessionEnds(c, StatusOf(c, "session_error"))

\* Mutant: only a leaf has a deadline.
TimeoutOfLeaf(c) ==
  Kind[c] = "leaf" /\ ~aborted /\ SessionEnds(c, StatusOf(c, "timeout"))

\* Every session has a deadline, a leaf's later than a generic one's.
Timeout(c) == ~aborted /\ SessionEnds(c, StatusOf(c, "timeout"))

SettleAborted(c) == aborted /\ SessionEnds(c, StatusOf(c, "aborted"))

Abort ==
  /\ up /\ ~aborted
  /\ aborted' = TRUE
  /\ UNCHANGED <<logVars, life, up, pc, result, screen, stopped>>

-----------------------------------------------------------------------------
(* The screen and the process *)

\* A reporter hears a session until the session ends.
Activity(c) ==
  /\ up /\ pc[c] = "racing"
  /\ screen' = OnActivity(screen, LabelOf[c])
  /\ UNCHANGED <<logVars, callVars>>

ToolEnds(c) ==
  /\ up /\ pc[c] = "racing"
  /\ screen' = OnToolEnd(screen, LabelOf[c])
  /\ UNCHANGED <<logVars, callVars>>

Output(c) ==
  /\ up /\ pc[c] = "racing"
  /\ screen.timers < MaxTimers
  /\ screen' = OnOutput(screen, LabelOf[c])
  /\ UNCHANGED <<logVars, callVars>>

TimerFires ==
  /\ up /\ screen.timers > 0
  /\ screen' = OnTimer(screen)
  /\ UNCHANGED <<logVars, callVars>>

\* Promise.all settles at the first throw or when all have returned; runPipeline
\* ends and the presenter is stopped.
Stop ==
  /\ up /\ ~stopped
  /\ (\E c \in Call : pc[c] = "threw") \/ (\A c \in Call : pc[c] = "returned")
  /\ stopped' = TRUE
  /\ screen' = Stopped(screen)
  /\ UNCHANGED <<logVars, life, up, pc, result, aborted>>

\* The process dies; a later one dispatches anew on the same file.
Crash ==
  /\ up
  /\ life' = life + 1
  /\ up' = FALSE
  /\ Log!CutOff
  /\ pc' = [c \in Call |-> "idle"]
  /\ result' = [c \in Call |-> None]
  /\ aborted' = FALSE
  /\ stopped' = FALSE
  /\ screen' = NewView

\* A run that is over, and a process that nobody starts again.
Done ==
  /\ up
  /\ \A c \in Call : pc[c] \notin Underway
  /\ UNCHANGED vars

LogSteps ==
  \/ \E e \in ToSet(queue) : BeginAppend(e)
  \/ \E d \in writing : EndAppend(d) \/ FailAppend(d)

Step(c) ==
  \/ Announce(c) \/ Open(c) \/ OpenAborted(c) \/ OpenFails(c)
  \/ AgentReturns(c) \/ AgentEnds(c) \/ PromptFails(c) \/ Timeout(c) \/ SettleAborted(c)
  \/ Activity(c) \/ ToolEnds(c) \/ Output(c)

Next ==
  \/ Begin \/ LogSteps \/ (\E c \in Call : Step(c))
  \/ Abort \/ TimerFires \/ Stop \/ Crash \/ Done

\* Bounds what goes wrong.
InBudget == faults + life <= MaxMishaps

Spec == Init /\ [][Next /\ InBudget']_vars

\* A dispatch gets on, by its deadline at the latest: that an agent ever
\* answers is not assumed.
GetsOn(c) == Announce(c) \/ Open(c) \/ OpenAborted(c) \/ Timeout(c) \/ SettleAborted(c)

Fairness == WF_vars(LogSteps) /\ \A c \in Call : WF_vars(GetsOn(c))

FairSpec == Spec /\ Fairness

-----------------------------------------------------------------------------
(* The log *)

\* What is on file stays there, in its place, while the process lives and
\* nothing it reads or writes fails: appends of parallel tasks do not undo one
\* another (telemetry-recorder.ts:19).
EventsStay == [][up /\ up' /\ faults' = 0 => IsPrefix(file, file')]_vars

\* Without faults the number of an event is its line, also for events that a
\* process appends to the file of one that died.
Numbered ==
  faults = 0 => \A i \in DOMAIN file : file[i] # Torn => file[i].seq = i

\* A process never numbers two events alike, nor writes one out of order,
\* whatever fails meanwhile.
SequenceIncreases ==
  life = 0 =>
    \A i, j \in DOMAIN file :
      i < j /\ file[i] # Torn /\ file[j] # Torn => file[i].seq < file[j].seq

Logged(e) == Cardinality({i \in DOMAIN file : file[i] # Torn /\ file[i].event = e})

\* Without faults, the log tells of the dispatches of this process: each that
\* has opened was announced once, and each that has returned was reported
\* once, with the status it returned.
LogMatchesCalls ==
  up /\ faults = 0 =>
    \A c \in Call :
      /\ Logged(StartedEvent(c)) = IF pc[c] \in {"idle", "announcing"} THEN 0 ELSE 1
      /\ \A s \in Status :
           Logged(CompletedEvent(c, s)) =
             IF pc[c] = "returned" /\ result[c] = s THEN 1 ELSE 0

\* The record that a dispatch waits for.
Awaited(c) ==
  IF pc[c] = "announcing" THEN StartedEvent(c) ELSE CompletedEvent(c, result[c])

\* The queue holds the records that dispatches wait for, each once, and no
\* other: no append that fails, and no dispatch that throws, takes with it the
\* turn of another, which would wait for ever, or leaves one behind.
QueueIsAwaited ==
  up => LET waiting == {c \in Call : pc[c] \in {"announcing", "reporting"}}
        IN  ToSet(queue) = {Awaited(c) : c \in waiting} /\ IsInjective(queue)

-----------------------------------------------------------------------------
(* The screen *)

Running == {c \in Call : pc[c] = "racing"}
LabelsOf(S) == {LabelOf[c] : c \in S}

\* Nothing is left on the screen of a session that has ended, whatever timer
\* or record comes after its end: the strip needs a session that runs, the box
\* shows one, and only such are on the board of tasks.
NothingStale ==
  /\ Shown(screen) \cup ({screen.box} \ {None}) \subseteq LabelsOf(Running)
  /\ screen.strip => Running # {}

\* A session that shares its label with no other dispatch is on the board for
\* as long as it runs, whichever others start and end.
AloneIsShown ==
  \A c \in Running :
    (\A b \in Call \ {c} : LabelOf[b] # LabelOf[c]) => LabelOf[c] \in Shown(screen)

\* live-activity-presenter.ts:6-7: the strip and the box are visible while
\* sessions are active.
VisibleWhileActive ==
  Running # {} /\ ~stopped => screen.strip /\ screen.box # None

-----------------------------------------------------------------------------
(* Liveness *)

\* A dispatch ends even if its agent never answers, the log fails or another
\* dispatch has ended the run; only the end of the process leaves it open.
DispatchEnds ==
  \A c \in Call : pc[c] \in Underway ~> pc[c] \in Final \/ ~up
=============================================================================
