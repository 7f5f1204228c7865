------------------------------ MODULE LiveView ------------------------------
(***************************************************************************)
(* The widgets of a run (infra/pi/live-activity-presenter.ts), a record of *)
(* the presenter's fields and of what is on the screen; each operator is   *)
(* one of its methods.                                                     *)
(***************************************************************************)
EXTENDS SequencesExt, Integers

CONSTANTS Label,      \* the correlation ids of sessions
          None

\* The keys of the map of tasks are in the order they were first set.
View ==
  [tasks : Seq(Label), last : Label \cup {None}, pending : BOOLEAN, timers : Nat,
   strip : BOOLEAN, box : Label \cup {None}, dashboard : BOOLEAN]

NewView ==
  [tasks |-> << >>, last |-> None, pending |-> FALSE, timers |-> 0,
   strip |-> FALSE, box |-> None, dashboard |-> FALSE]

Shown(v) == ToSet(v.tasks)

RepaintBox(v) == [v EXCEPT !.box = IF v.last \in Shown(v) THEN v.last ELSE None]

RepaintAll(v) ==
  [RepaintBox(v) EXCEPT !.dashboard = TRUE, !.strip = TRUE, !.pending = FALSE]

Started(v) == [v EXCEPT !.dashboard = TRUE]

\* Mutant: every event paints the strip.
OnDomainEventAlways(v) == [v EXCEPT !.dashboard = TRUE, !.strip = TRUE]

OnDomainEvent(v) ==
  [v EXCEPT !.dashboard = TRUE, !.strip = @ \/ v.tasks # << >>]

OnSessionStart(v, l) ==
  RepaintAll([v EXCEPT !.tasks = IF l \in Shown(v) THEN @ ELSE Append(@, l),
                       !.last = l])

\* A turn, a tool call or a piece of text.
OnActivity(v, l) ==
  IF l \in Shown(v) THEN RepaintAll([v EXCEPT !.last = l]) ELSE v

\* The end of a tool call is left to the next repaint.
OnToolEnd(v, l) == IF l \in Shown(v) THEN [v EXCEPT !.last = l] ELSE v

\* Output of a tool: the box is painted later, once for all that comes until
\* then.  A repaint of everything forgets the timer that is already set.
OnOutput(v, l) ==
  IF l \in Shown(v)
    THEN [v EXCEPT !.last = l, !.pending = TRUE,
                   !.timers = IF v.pending THEN @ ELSE @ + 1]
    ELSE v

OnTimer(v) == RepaintBox([v EXCEPT !.pending = FALSE, !.timers = @ - 1])

\* Mutant: the end of a session takes every task off the board.
OnSessionEndAll(v, l) ==
  [v EXCEPT !.tasks = << >>, !.last = None, !.dashboard = TRUE, !.strip = FALSE, !.box = None]

\* The entry of a key is deleted; there is one at most.
Without(keys, l) ==
  IF \E n \in DOMAIN keys : keys[n] = l
  THEN LET at == CHOOSE n \in DOMAIN keys : keys[n] = l
       IN  [i \in 1 .. Len(keys) - 1 |-> keys[IF i < at THEN i ELSE i + 1]]
  ELSE keys

\* Without its task the last active is the one that was set last; when no task
\* is left the strip and the box go, otherwise all is painted again.
OnSessionEnd(v, l) ==
  LET rest == Without(v.tasks, l)
      last == IF v.last # l THEN v.last ELSE IF rest = << >> THEN None ELSE Last(rest)
  IN  [tasks |-> rest, last |-> last, dashboard |-> TRUE, timers |-> v.timers,
       strip |-> rest # << >>, pending |-> v.pending /\ rest = << >>,
       box |-> IF last \in ToSet(rest) THEN last ELSE None]

\* Mutant: a timer is counted off that has fired.
StoppedTwice(v) ==
  [v EXCEPT !.timers = @ - 1, !.dashboard = FALSE, !.strip = FALSE, !.box = None]

\* Only the timer set last is cleared.
Stopped(v) ==
  [v EXCEPT !.timers = IF @ > 0 THEN @ - 1 ELSE 0,
            !.dashboard = FALSE, !.strip = FALSE, !.box = None]
=============================================================================
