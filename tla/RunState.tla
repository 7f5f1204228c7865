------------------------------ MODULE RunState ------------------------------
(***************************************************************************)
(* The Run aggregate (src/domain/run/index.ts), the stage graph            *)
(* (src/domain/stage/transition-policy.ts) and the escalation policy       *)
(* (src/domain/backward-loop/artifact-reset-policy.ts).  A run is a record *)
(* of the fields the control flow reads; timestamps, the list of completed *)
(* stages and the telemetry fields are left out.                           *)
(***************************************************************************)
EXTENDS SliceQueue

CONSTANTS MaxBackwardLoops,   \* MAX_BACKWARD_LOOPS
          MaxRequeue,         \* MAX_REQUEUE
          AgentReason,        \* the reasons agents give for an escalation
          None                \* null, a missing file, an absent field

ASSUME CapAssumption == MaxBackwardLoops \in Nat /\ MaxRequeue \in Nat

Stage == {"goals", "research", "design", "skeleton", "baseline", "slice-loop",
          "verify", "accept", "report"}

Loop == {"LOOP_DESIGN", "LOOP_GOALS"}

\* The summaries the stages give their backward loops: constant strings,
\* except in the slice loop, where the reason is an agent's.
Reason == AgentReason \cup
  {"unparsed", "skeletonBroken", "skeletonMerge", "structureReview", "verify", "accept"}

Fingerprint == [slice : SliceId \cup {None}, loop : Loop, reason : Reason,
                actionable : Nat]

RunRecord == [nextStage : Stage \cup {"done"}, backwardLoops : Nat,
              currentSlice : SliceId \cup {None}, slicesDone : SUBSET SliceId,
              slicesBlocked : SUBSET SliceId, requeueCounts : [SliceId -> Nat],
              pendingReconcile : BOOLEAN, fingerprint : Fingerprint \cup {None},
              userTask : BOOLEAN]

StartRun(task) ==
  [nextStage |-> "goals", backwardLoops |-> 0, currentSlice |-> None,
   slicesDone |-> {}, slicesBlocked |-> {}, requeueCounts |-> [s \in SliceId |-> 0],
   pendingReconcile |-> FALSE, fingerprint |-> None, userTask |-> task]

-----------------------------------------------------------------------------
(***************************************************************************)
(* The stage graph.                                                        *)
(***************************************************************************)

\* Mutant: remediation is not routed back to the slice loop.
NextStageIgnoringRemediation(stage, remediation) ==
  CASE stage = "goals"      -> "research"
    [] stage = "research"   -> "design"
    [] stage = "design"     -> "skeleton"
    [] stage = "skeleton"   -> "baseline"
    [] stage = "baseline"   -> "slice-loop"
    [] stage = "slice-loop" -> "verify"
    [] stage = "verify"     -> "accept"
    [] stage = "accept"     -> "report"
    [] stage = "report"     -> "done"

NextStageFor(stage, remediation) ==
  CASE stage = "goals"      -> "research"
    [] stage = "research"   -> "design"
    [] stage = "design"     -> "skeleton"
    [] stage = "skeleton"   -> "baseline"
    [] stage = "baseline"   -> "slice-loop"
    [] stage = "slice-loop" -> "verify"
    [] stage = "verify"     -> IF remediation THEN "slice-loop" ELSE "accept"
    [] stage = "accept"     -> IF remediation THEN "slice-loop" ELSE "report"
    [] stage = "report"     -> "done"

\* Mutant: the class of the loop is taken for a stage.
EscalationTargetRaw(loop) == loop

EscalationTarget(loop) == IF loop = "LOOP_GOALS" THEN "goals" ELSE "design"

-----------------------------------------------------------------------------
(***************************************************************************)
(* Mutations of the aggregate.                                             *)
(***************************************************************************)

CompleteStageIn(r, stage, remediation) ==
  [r EXCEPT !.nextStage = NextStageFor(stage, remediation)]

MarkSliceBuilding(r, s) == [r EXCEPT !.currentSlice = s]

MarkSliceDone(r, s) ==
  [r EXCEPT !.currentSlice = None, !.slicesDone = @ \cup {s}]

\* Mutant: the attempt is not counted.
RequeueUncounted(r, s) == [r EXCEPT !.currentSlice = None]

RequeueSlice(r, s) ==
  [r EXCEPT !.currentSlice = None, !.requeueCounts[s] = @ + 1]

EscalateSlice(r, s) ==
  [r EXCEPT !.currentSlice = None, !.slicesBlocked = @ \cup {s}]

ClearReconcile(r) == [r EXCEPT !.pendingReconcile = FALSE]

\* Mutant: the cap lets one backward loop too many through.
CapHitLate(r) == r.backwardLoops > MaxBackwardLoops

\* isBackwardLoopCapHit.
CapHit(r) == r.backwardLoops >= MaxBackwardLoops

\* Mutant: the requeue cap is compared before the attempt is counted.
RequeueCappedLate(r, s) == r.requeueCounts[s] > MaxRequeue

\* The slice loop's own cap check, on the count this failure would make.
RequeueCapped(r, s) == r.requeueCounts[s] + 1 > MaxRequeue

\* Mutant: the escalation is not counted.
LoopBackUncounted(r, loop, fp) ==
  [r EXCEPT !.fingerprint = fp, !.pendingReconcile = TRUE,
            !.nextStage = EscalationTarget(loop)]

\* Mutant: the slice loop is not told to reconcile.
LoopBackSilently(r, loop, fp) ==
  [r EXCEPT !.backwardLoops = @ + 1, !.fingerprint = fp,
            !.nextStage = EscalationTarget(loop)]

\* What an accepted escalation does to the run: both targets set the flag.
LoopBack(r, loop, fp) ==
  [r EXCEPT !.backwardLoops = @ + 1, !.fingerprint = fp,
            !.pendingReconcile = TRUE, !.nextStage = EscalationTarget(loop)]
=============================================================================
