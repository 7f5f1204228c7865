-------------------------- MODULE DeepLooper_proofs --------------------------
(***************************************************************************)
(* What holds of DeepLooper for every number of slices, every design and   *)
(* proposal, every cap, every setting and every amount of failure.         *)
(***************************************************************************)
EXTENDS DeepLooper, TLAPS

-----------------------------------------------------------------------------
(***************************************************************************)
(* The operations of the Run aggregate keep a Run within its caps.         *)
(***************************************************************************)

RunFields == {"nextStage", "backwardLoops", "currentSlice", "slicesDone", "slicesBlocked",
              "requeueCounts", "pendingReconcile", "fingerprint", "userTask"}

RunOK(r) == /\ DOMAIN r = RunFields
            /\ r.nextStage \in Stage \cup {"done"}
            /\ r.backwardLoops \in 0..MaxBackwardLoops
            /\ r.requeueCounts \in [SliceId -> 0..MaxRequeue]

\* A new Run has used up nothing.
LEMMA StartRunOK ==
  ASSUME NEW t PROVE RunOK(StartRun(t)) /\ StartRun(t).nextStage = "goals"
BY CapAssumption DEF StartRun, RunOK, RunFields, Stage

\* Naming or dropping the current slice changes no count.
LEMMA SliceRunOK ==
  ASSUME NEW r, RunOK(r), NEW s
  PROVE  /\ RunOK(MarkSliceBuilding(r, s)) /\ MarkSliceBuilding(r, s).nextStage = r.nextStage
         /\ RunOK(MarkSliceDone(r, s)) /\ MarkSliceDone(r, s).nextStage = r.nextStage
         /\ RunOK(EscalateSlice(r, s)) /\ EscalateSlice(r, s).nextStage = r.nextStage
         /\ RunOK(ClearReconcile(r)) /\ ClearReconcile(r).nextStage = r.nextStage
BY DEF RunOK, RunFields, MarkSliceBuilding, MarkSliceDone, EscalateSlice, ClearReconcile

\* A requeue below the cap stays within it, whatever the slice.
LEMMA RequeueOK ==
  ASSUME NEW r, RunOK(r), NEW s, ~RequeueCapped(r, s)
  PROVE  RunOK(RequeueSlice(r, s)) /\ RequeueSlice(r, s).nextStage = r.nextStage
<1> DEFINE counts == [r.requeueCounts EXCEPT ![s] = @ + 1]
<1>1. counts \in [SliceId -> 0..MaxRequeue]
  <2>1. CASE s \in SliceId
    <3>1. r.requeueCounts[s] + 1 \in 0..MaxRequeue
      BY <2>1, CapAssumption DEF RunOK, RequeueCapped
    <3>2. QED BY <3>1 DEF RunOK
  <2>2. CASE s \notin SliceId
    BY <2>2 DEF RunOK
  <2>3. QED BY <2>1, <2>2
<1>2. RequeueSlice(r, s) = [r EXCEPT !.currentSlice = None, !.requeueCounts = counts]
  BY DEF RequeueSlice, RunOK, RunFields
<1> HIDE DEF counts
<1>3. QED BY <1>1, <1>2 DEF RunOK, RunFields

\* An escalation below the cap stays within it, and goes to goals or design.
LEMMA LoopBackOK ==
  ASSUME NEW r, RunOK(r), NEW loop, NEW fp, ~CapHit(r)
  PROVE  RunOK(LoopBack(r, loop, fp)) /\ LoopBack(r, loop, fp).nextStage \in {"goals", "design"}
<1>1. r.backwardLoops + 1 \in 0..MaxBackwardLoops
  BY CapAssumption DEF RunOK, CapHit
<1>2. QED BY <1>1 DEF RunOK, RunFields, LoopBack, EscalationTarget, Stage

\* The transition policy stays in the stage graph.
LEMMA CompleteStageOK ==
  ASSUME NEW r, RunOK(r), NEW stage \in Stage, NEW remediation \in BOOLEAN
  PROVE  RunOK(CompleteStageIn(r, stage, remediation))
<1>1. NextStageFor(stage, remediation) \in Stage \cup {"done"}
  BY DEF NextStageFor, Stage
<1>2. QED BY <1>1 DEF RunOK, RunFields, CompleteStageIn

-----------------------------------------------------------------------------
(***************************************************************************)
(* The stage a run is recovered at.                                        *)
(***************************************************************************)

\* The largest of the first nine numbers in a set that holds 1.
LEMMA MaxOfNine ==
  ASSUME NEW S \in SUBSET (1..9), 1 \in S
  PROVE  Max(S) \in S
<1>1. \E m \in S : \A i \in S : i <= m
  <2>1. CASE 9 \in S BY <2>1
  <2>2. CASE 9 \notin S /\ 8 \in S BY <2>2
  <2>3. CASE 9 \notin S /\ 8 \notin S /\ 7 \in S BY <2>3
  <2>4. CASE {9, 8, 7} \cap S = {} /\ 6 \in S BY <2>4
  <2>5. CASE {9, 8, 7, 6} \cap S = {} /\ 5 \in S BY <2>5
  <2>6. CASE {9, 8, 7, 6, 5} \cap S = {} /\ 4 \in S BY <2>6
  <2>7. CASE {9, 8, 7, 6, 5, 4} \cap S = {} /\ 3 \in S BY <2>7
  <2>8. CASE {9, 8, 7, 6, 5, 4, 3} \cap S = {} BY <2>8
  <2>9. QED BY <2>1, <2>2, <2>3, <2>4, <2>5, <2>6, <2>7, <2>8
<1>2. QED BY <1>1 DEF Max

\* The inference finds a stage, and that stage is marked.
LEMMA MarkedStageOK == MarkedStage \in Stage /\ Marked(MarkedStage)
<1> DEFINE S == {i \in DOMAIN PipelineOrder : Marked(PipelineOrder[i])}
<1>1. DOMAIN PipelineOrder = 1..9
  BY DEF PipelineOrder
<1>2. 1 \in S
  <2>1. PipelineOrder[1] = "goals"
    BY DEF PipelineOrder
  <2>2. Marked("goals")
    BY DEF Marked
  <2>3. QED BY <1>1, <2>1, <2>2
<1>3. Max(S) \in S
  BY <1>1, <1>2, MaxOfNine
<1>4. \A i \in 1..9 : PipelineOrder[i] \in Stage
  BY DEF PipelineOrder, Stage
<1>5. QED BY <1>1, <1>3, <1>4 DEF MarkedStage

-----------------------------------------------------------------------------
(***************************************************************************)
(* Each inner step runs in its own stage.                                  *)
(***************************************************************************)

SkeletonPc == {"carryForward", "skeletonResults", "structure"}

ControlOK == /\ pc \in Pc
             /\ pc \in SliceLoopPc => CurrentStage = "slice-loop"
             /\ pc \in SkeletonPc => CurrentStage = "skeleton"
             /\ pc = "remediate" => CurrentStage \in {"verify", "accept"}

\* Every step keeps ControlOK.
LEMMA StepControlOK == ControlOK /\ [Next]_vars => ControlOK'
<1> SUFFICES ASSUME ControlOK, [Next]_vars PROVE ControlOK'
  OBVIOUS
<1> USE DEF ControlOK, CurrentStage, SliceLoopPc, SkeletonPc, StagePc, Pc
<1>1. CASE UNCHANGED vars
  BY <1>1 DEF vars, memory
<1>2. CASE PipelineLoop
  BY <1>2 DEF PipelineLoop, SaveStart, FinishRun, EnterStage, PassGate, GateRejects,
              GateApproves, GateRetries, Resync, StopOnEscalation, FollowEscalation,
              StopOnFail, CompleteStage, memory
<1>3. CASE EarlyStages
  BY <1>3 DEF EarlyStages, GoalsWithoutTask, GoalsStage, ResearchStage, DocumentStage,
              DesignStage, SkeletonEarlyPass, SkeletonFails, SkeletonBuilt, CarryForward,
              WriteSkeletonResults, ReviewStructure, BaselineEarlyPass, BaselineCheck,
              AtStage, Return, memory
<1>4. CASE SliceLoop
  BY <1>4 DEF SliceLoop, BuildQueue, ResumeQueue, ReconcileQueue, ClearFlag, SelectSlice,
              LoopPasses, SaveBuilding, PlanSlice, CheckFeasibility, ImplementSlice,
              CheckDone, CheckEvidence, AskForLoop, ReflectAndMarkDone, SaveDone,
              RequeueFailed, SaveRequeue, EscalateFailed, SaveEscalated,
              ClassifyEscalation, SubStep, SaveSliceRun, WriteQueue, EnterLoop,
              AtStage, Return, memory
<1>5. CASE LateStages
  BY <1>5 DEF LateStages, RunVerifier, RunAcceptance, Remediate, NoRemediation,
              ReportStage, AtStage, Return
<1>6. CASE Environment
  BY <1>6 DEF Environment, Throw, Crash, Resume
<1>7. QED BY <1>1, <1>2, <1>3, <1>4, <1>5, <1>6 DEF Next, Program, Terminated

\* ControlOK is an invariant of the specification.
LEMMA AlwaysControlOK == Spec => []ControlOK
<1>1. Init => ControlOK
  BY DEF Init, ControlOK, SliceLoopPc, SkeletonPc, StagePc, Pc
<1>2. QED BY <1>1, StepControlOK, PTL DEF Spec

-----------------------------------------------------------------------------
(***************************************************************************)
(* Every Run is within its caps: the pipeline loop's, the snapshot of the  *)
(* stage, the slice loop's and the one on disk.  Each is at some point     *)
(* copied over another, so the bound of one is inductive only together     *)
(* with those of the others.                                               *)
(***************************************************************************)

RunsOK == /\ RunOK(run) /\ RunOK(snap) /\ RunOK(sliceRun)
          /\ stateFile # None => RunOK(stateFile)
          /\ snap.nextStage \in Stage
          /\ outcome \in Outcome

\* The Run a resume starts from is within its bounds when state.json is.
LEMMA RecoveredRunOK ==
  ASSUME stateFile # None => RunOK(stateFile)
  PROVE  RunOK(RecoveredRun)
<1>1. NextStageFor(MarkedStage, FALSE) \in Stage \cup {"done"}
  BY MarkedStageOK DEF NextStageFor, Stage
<1>2. RunOK(StartRun(FALSE))
  BY StartRunOK
<1>3. RunOK(InferredRun)
  BY <1>1, <1>2 DEF InferredRun, RunOK, RunFields
<1>4. QED BY <1>2, <1>3 DEF RecoveredRun

\* What a stage may return.
LEMMA ResultsOK ==
  /\ \A s \in {"PASS", "PARTIAL", "FAIL"} : Result(s) \in Outcome
  /\ Passed \in Outcome /\ Failed \in Outcome /\ Unclean \in Outcome
  /\ Remediation \in Outcome
  /\ \A loop \in Loop, reason \in Reason : Escalation(loop, reason) \in Outcome
  /\ \A o \in Outcome : [o EXCEPT !.cap = TRUE] \in Outcome
  /\ \A o \in Outcome : [o EXCEPT !.status = "PARTIAL"] \in Outcome
BY DEF Outcome, Result, Passed, Failed, Unclean, Remediation, Escalation

\* Returning from the stage idles the slice loop's Run, and changes no other.
LEMMA ReturnOK ==
  ASSUME RunsOK, NEW o \in Outcome, Return(o), UNCHANGED <<stateFile, run, snap>>
  PROVE  RunsOK'
BY StartRunOK DEF RunsOK, Return, IdleRun

\* RunsOK holds at the start.
LEMMA InitRunsOK == Init => RunsOK
BY StartRunOK, ResultsOK DEF Init, RunsOK, IdleRun, Stage

\* The pipeline loop keeps RunsOK: only an escalation below the cap counts.
LEMMA PipelineRunsOK == RunsOK /\ PipelineLoop => RunsOK'
<1> SUFFICES ASSUME RunsOK, PipelineLoop PROVE RunsOK'
  OBVIOUS
<1> USE DEF RunsOK
<1>1. CASE SaveStart
  BY <1>1 DEF SaveStart, memory
<1>2. CASE FinishRun
  BY <1>2 DEF FinishRun, memory, durable
<1>3. CASE EnterStage
  <2>1. run.nextStage \in Stage
    BY <1>3 DEF EnterStage, RunOK
  <2>2. QED BY <1>3, <2>1 DEF EnterStage, durable
<1>4. CASE PassGate \/ GateRejects \/ GateRetries
  BY <1>4 DEF PassGate, GateRejects, GateRetries, memory, durable
<1>5. CASE GateApproves
  BY <1>5, ResultsOK DEF GateApproves, durable
<1>6. CASE Resync
  BY <1>6 DEF Resync, Reload, durable
<1>7. CASE StopOnEscalation \/ StopOnFail
  BY <1>7 DEF StopOnEscalation, StopOnFail, memory
<1>8. CASE FollowEscalation
  BY <1>8, LoopBackOK DEF FollowEscalation
<1>9. CASE CompleteStage
  <2>1. outcome.remediation \in BOOLEAN
    BY DEF Outcome
  <2>2. RunOK(CompleteStageIn(run, CurrentStage, outcome.remediation))
    BY <2>1, CompleteStageOK DEF CurrentStage
  <2>3. QED BY <1>9, <2>2 DEF CompleteStage
<1>10. QED BY <1>1, <1>2, <1>3, <1>4, <1>5, <1>6, <1>7, <1>8, <1>9 DEF PipelineLoop

\* The stages before the slice loop keep RunsOK: they save no Run.
LEMMA EarlyRunsOK == RunsOK /\ EarlyStages => RunsOK'
<1> SUFFICES ASSUME RunsOK, EarlyStages PROVE RunsOK'
  OBVIOUS
<1>1. CASE GoalsWithoutTask
  BY <1>1, ReturnOK, ResultsOK DEF GoalsWithoutTask, durable
<1>2. CASE GoalsStage \/ ResearchStage
  BY <1>2, ReturnOK, ResultsOK DEF GoalsStage, ResearchStage, DocumentStage
<1>3. CASE DesignStage
  BY <1>3, ReturnOK, ResultsOK DEF DesignStage
<1>4. CASE SkeletonEarlyPass \/ BaselineEarlyPass
  BY <1>4, ReturnOK, ResultsOK DEF SkeletonEarlyPass, BaselineEarlyPass, durable
<1>5. CASE SkeletonFails
  BY <1>5, ReturnOK, ResultsOK DEF SkeletonFails, durable, Loop, Reason
<1>6. CASE SkeletonBuilt \/ CarryForward \/ WriteSkeletonResults
  BY <1>6 DEF SkeletonBuilt, CarryForward, WriteSkeletonResults, RunsOK, memory, durable
<1>7. CASE ReviewStructure
  <2>1. [Escalation("LOOP_DESIGN", "structureReview") EXCEPT !.cap = TRUE] \in Outcome
    BY ResultsOK DEF Loop, Reason
  <2>2. QED BY <1>7, <2>1, ReturnOK, ResultsOK DEF ReviewStructure
<1>8. CASE BaselineCheck
  BY <1>8, ReturnOK, ResultsOK DEF BaselineCheck
<1>9. QED BY <1>1, <1>2, <1>3, <1>4, <1>5, <1>6, <1>7, <1>8 DEF EarlyStages

\* The slice loop keeps RunsOK: only a requeue below the cap counts.
LEMMA SliceLoopRunsOK == RunsOK /\ SliceLoop => RunsOK'
<1> SUFFICES ASSUME RunsOK, SliceLoop PROVE RunsOK'
  OBVIOUS
<1>1. CASE BuildQueue
  <2>1. CASE design.slices = << >> /\ design.declares
    BY <1>1, <2>1, ReturnOK, ResultsOK DEF BuildQueue, Loop, Reason
  <2>2. CASE ~(design.slices = << >> /\ design.declares)
    BY <1>1, <2>2 DEF BuildQueue, EnterLoop, RunsOK
  <2>3. QED BY <2>1, <2>2
<1>2. CASE ResumeQueue \/ ReconcileQueue
  BY <1>2 DEF ResumeQueue, ReconcileQueue, EnterLoop, RunsOK, durable
<1>3. CASE ClearFlag
  BY <1>3, SliceRunOK DEF ClearFlag, EnterLoop, RunsOK
<1>4. CASE SelectSlice
  BY <1>4, SliceRunOK DEF SelectSlice, WriteQueue, RunsOK
<1>5. CASE LoopPasses
  BY <1>5, ReturnOK, ResultsOK DEF LoopPasses, durable
<1>6. CASE SaveBuilding \/ SaveDone \/ SaveRequeue \/ SaveEscalated
  BY <1>6 DEF SaveBuilding, SaveDone, SaveRequeue, SaveEscalated, SaveSliceRun, RunsOK, memory
<1>7. CASE PlanSlice \/ CheckFeasibility \/ ImplementSlice \/ CheckDone \/ CheckEvidence
           \/ AskForLoop
  BY <1>7 DEF PlanSlice, CheckFeasibility, ImplementSlice, CheckDone, CheckEvidence,
              AskForLoop, SubStep, RunsOK, memory, durable
<1>8. CASE ReflectAndMarkDone \/ EscalateFailed
  BY <1>8, SliceRunOK DEF ReflectAndMarkDone, EscalateFailed, WriteQueue, RunsOK
<1>9. CASE RequeueFailed
  BY <1>9, RequeueOK DEF RequeueFailed, WriteQueue, RunsOK
<1>10. CASE ClassifyEscalation
  BY <1>10, ReturnOK, ResultsOK DEF ClassifyEscalation, durable, Reason
<1>11. QED BY <1>1, <1>2, <1>3, <1>4, <1>5, <1>6, <1>7, <1>8, <1>9, <1>10 DEF SliceLoop

\* Verify, accept and report keep RunsOK: they save no Run.
LEMMA LateRunsOK == ControlOK /\ RunsOK /\ LateStages => RunsOK'
<1> SUFFICES ASSUME ControlOK, RunsOK, LateStages PROVE RunsOK'
  OBVIOUS
<1>1. CASE RunVerifier
  BY <1>1, ReturnOK, ResultsOK DEF RunVerifier, RunsOK
<1>2. CASE RunAcceptance
  BY <1>2, ReturnOK, ResultsOK DEF RunAcceptance, RunsOK
<1>3. CASE Remediate
  BY <1>3, ReturnOK, ResultsOK DEF Remediate
<1>4. CASE NoRemediation
  BY <1>4, ReturnOK, ResultsOK DEF NoRemediation, durable, Loop, Reason, ControlOK
<1>5. CASE ReportStage
  BY <1>5, ReturnOK, ResultsOK DEF ReportStage
<1>6. QED BY <1>1, <1>2, <1>3, <1>4, <1>5 DEF LateStages

\* Throws, crashes and resumes keep RunsOK.
LEMMA EnvironmentRunsOK == RunsOK /\ Environment => RunsOK'
<1> SUFFICES ASSUME RunsOK, Environment PROVE RunsOK'
  OBVIOUS
<1>1. CASE Throw
  BY <1>1, StartRunOK DEF Throw, RunsOK, IdleRun, durable
<1>2. CASE Crash
  BY <1>2, StartRunOK, ResultsOK DEF Crash, Restart, RunsOK, IdleRun, Stage
<1>3. CASE Resume
  BY <1>3, StartRunOK, RecoveredRunOK, ResultsOK
     DEF Resume, Restart, RunsOK, IdleRun, durable, Stage
<1>4. QED BY <1>1, <1>2, <1>3 DEF Environment

\* Every step keeps RunsOK.
LEMMA StepRunsOK == ControlOK /\ RunsOK /\ [Next]_vars => RunsOK'
<1>1. RunsOK /\ UNCHANGED vars => RunsOK'
  BY DEF RunsOK, vars, memory, durable
<1>2. QED BY <1>1, PipelineRunsOK, EarlyRunsOK, SliceLoopRunsOK, LateRunsOK, EnvironmentRunsOK
          DEF Next, Program, Terminated

\* RunsOK is an invariant of the specification.
LEMMA RunsAlwaysOK == Spec => []RunsOK
BY InitRunsOK, StepRunsOK, AlwaysControlOK, PTL DEF Spec

\* No run ever loops back to goals or design more often than the cap allows:
\* not through crashes, torn writes, automatic retries or resumes, although
\* three Runs are saved over each other (pipeline-loop.ts, slice-loop.ts).
THEOREM BackwardLoopsAreBounded == Spec => []BackwardLoopsBounded
<1>1. RunsOK => BackwardLoopsBounded
  BY CapAssumption DEF RunsOK, RunOK, BackwardLoopsBounded
<1>2. QED BY <1>1, RunsAlwaysOK, PTL

\* No slice is requeued more often than the cap allows, by any Run that is in
\* use or on disk, although the slice loop checks the cap only on its own.
THEOREM RequeuesAreBounded == Spec => []RequeuesBounded
<1>1. RunsOK => RequeuesBounded
  BY CapAssumption DEF RunsOK, RunOK, RequeuesBounded
<1>2. QED BY <1>1, RunsAlwaysOK, PTL

-----------------------------------------------------------------------------
(***************************************************************************)
(* A run gets past verify only with a verification result: the stage that  *)
(* any Run names next is vouched for by the artifacts, and while a stage   *)
(* runs every Run names that stage.                                        *)
(***************************************************************************)

Vouched(stage) == /\ stage \in {"accept", "report", "done"} => files.verify = "PASS"
                  /\ stage = "done" => files.report

Verdict == /\ CurrentStage = "verify" =>
                ~outcome.cap /\ (outcome.status = "FAIL" \/ files.verify = "PASS")
           /\ CurrentStage = "report" => files.report

StagesOK ==
  /\ files \in Files
  /\ Vouched(run.nextStage) /\ Vouched(snap.nextStage)
  /\ stateFile # None => Vouched(stateFile.nextStage)
  /\ pc \in StagePc \cup {"resync", "decide"} =>
       /\ run.nextStage = CurrentStage
       /\ stateFile # None => stateFile.nextStage = CurrentStage
  /\ pc = "next" /\ stateFile # None => stateFile.nextStage = run.nextStage
  /\ pc \in SliceLoopPc \ {"clearFlag"} => sliceRun.nextStage = CurrentStage
  /\ pc \in {"gate", "resync", "decide"} => Verdict
  /\ pc = "completed" => run.nextStage = "done"

\* The stage that is inferred without state.json is vouched for.
LEMMA RecoveredStageVouched ==
  ASSUME stateFile # None => Vouched(stateFile.nextStage)
  PROVE  Vouched(RecoveredRun.nextStage)
<1>1. Vouched(NextStageFor(MarkedStage, FALSE))
  BY MarkedStageOK DEF Vouched, NextStageFor, Marked, Stage
<1>2. InferredRun.nextStage = NextStageFor(MarkedStage, FALSE)
  BY DEF InferredRun, StartRun
<1>3. Vouched(StartRun(FALSE).nextStage)
  BY DEF StartRun, Vouched
<1>4. QED BY <1>1, <1>2, <1>3 DEF RecoveredRun

\* StagesOK holds at the start.
LEMMA InitStagesOK == Init => StagesOK
BY DEF Init, StagesOK, Files, StartRun, IdleRun, Vouched, StagePc, SliceLoopPc

\* The pipeline loop keeps StagesOK: it moves on only from a stage that passed.
LEMMA PipelineStagesOK == ControlOK /\ RunsOK /\ StagesOK /\ PipelineLoop => StagesOK'
<1> SUFFICES ASSUME ControlOK, RunsOK, StagesOK, PipelineLoop PROVE StagesOK'
  OBVIOUS
<1> USE DEF StagesOK, CurrentStage, Vouched, Verdict, StagePc, SliceLoopPc
<1>1. CASE SaveStart
  BY <1>1 DEF SaveStart, memory
<1>2. CASE FinishRun
  BY <1>2 DEF FinishRun, memory, durable
<1>3. CASE EnterStage
  BY <1>3 DEF EnterStage, durable
<1>4. CASE PassGate \/ GateRejects
  BY <1>4 DEF PassGate, GateRejects, AtGate, memory, durable
<1>5. CASE GateApproves \/ GateRetries
  <2>1. ~(CurrentStage = "verify")
    BY <1>5 DEF GateApproves, GateRetries, AtGate
  <2>2. CASE GateApproves
    BY <2>1, <2>2 DEF GateApproves, AtGate, durable
  <2>3. CASE GateRetries
    BY <2>3 DEF GateRetries, AtGate, durable, memory
  <2>4. QED BY <1>5, <2>2, <2>3
<1>6. CASE Resync
  BY <1>6 DEF Resync, Reload, durable
<1>7. CASE StopOnEscalation \/ StopOnFail
  BY <1>7 DEF StopOnEscalation, StopOnFail, memory
<1>8. CASE FollowEscalation
  BY <1>8, LoopBackOK DEF FollowEscalation, RunsOK
<1>9. CASE CompleteStage
  <2>1. CurrentStage \in Stage
    BY DEF RunsOK
  <2>2. Vouched(NextStageFor(CurrentStage, outcome.remediation))
    BY <1>9, <2>1 DEF CompleteStage, NextStageFor, Stage
  <2>3. CompleteStageIn(run, CurrentStage, outcome.remediation).nextStage
          = NextStageFor(CurrentStage, outcome.remediation)
    BY DEF CompleteStageIn, RunsOK, RunOK, RunFields
  <2>4. QED BY <1>9, <2>2, <2>3 DEF CompleteStage
<1>10. QED BY <1>1, <1>2, <1>3, <1>4, <1>5, <1>6, <1>7, <1>8, <1>9 DEF PipelineLoop

\* The stages before the slice loop keep StagesOK.
LEMMA EarlyStagesOK == ControlOK /\ StagesOK /\ EarlyStages => StagesOK'
<1> SUFFICES ASSUME ControlOK, StagesOK, EarlyStages PROVE StagesOK'
  OBVIOUS
<1> USE DEF StagesOK, CurrentStage, Vouched, Verdict, StagePc, SliceLoopPc, Files
<1>1. CASE GoalsWithoutTask
  BY <1>1 DEF GoalsWithoutTask, AtStage, Return, durable
<1>2. CASE GoalsStage
  BY <1>2 DEF GoalsStage, DocumentStage, AtStage, Return
<1>3. CASE ResearchStage
  BY <1>3 DEF ResearchStage, DocumentStage, AtStage, Return
<1>4. CASE DesignStage
  BY <1>4 DEF DesignStage, AtStage, Return
<1>5. CASE SkeletonEarlyPass \/ SkeletonFails \/ BaselineEarlyPass
  BY <1>5 DEF SkeletonEarlyPass, SkeletonFails, BaselineEarlyPass, AtStage, Return, durable
<1>6. CASE SkeletonBuilt \/ CarryForward
  BY <1>6 DEF SkeletonBuilt, CarryForward, AtStage, memory, durable
<1>7. CASE WriteSkeletonResults
  BY <1>7 DEF WriteSkeletonResults, memory
<1>8. CASE ReviewStructure
  BY <1>8 DEF ReviewStructure, Return, ControlOK, SkeletonPc
<1>9. CASE BaselineCheck
  BY <1>9 DEF BaselineCheck, AtStage, Return
<1>10. QED BY <1>1, <1>2, <1>3, <1>4, <1>5, <1>6, <1>7, <1>8, <1>9 DEF EarlyStages

\* The slice loop keeps StagesOK.
LEMMA SliceLoopStagesOK ==
  ControlOK /\ RunsOK /\ StagesOK /\ SliceLoop => StagesOK'
<1> SUFFICES ASSUME ControlOK, RunsOK, StagesOK, SliceLoop PROVE StagesOK'
  OBVIOUS
<1> USE DEF StagesOK, CurrentStage, Vouched, Verdict, StagePc, SliceLoopPc, RunsOK
<1>1. CASE BuildQueue
  BY <1>1 DEF BuildQueue, AtStage, EnterLoop, Return
<1>2. CASE ResumeQueue \/ ReconcileQueue
  BY <1>2 DEF ResumeQueue, ReconcileQueue, AtStage, EnterLoop, durable
<1>3. CASE ClearFlag
  BY <1>3, SliceRunOK DEF ClearFlag, EnterLoop
<1>4. CASE SelectSlice
  BY <1>4, SliceRunOK DEF SelectSlice, WriteQueue
<1>5. CASE LoopPasses \/ ClassifyEscalation
  BY <1>5 DEF LoopPasses, ClassifyEscalation, Return, durable, ControlOK
<1>6. CASE SaveBuilding \/ SaveDone \/ SaveRequeue \/ SaveEscalated
  BY <1>6 DEF SaveBuilding, SaveDone, SaveRequeue, SaveEscalated, SaveSliceRun, memory
<1>7. CASE PlanSlice \/ CheckFeasibility \/ ImplementSlice \/ CheckDone \/ CheckEvidence
           \/ AskForLoop
  BY <1>7 DEF PlanSlice, CheckFeasibility, ImplementSlice, CheckDone, CheckEvidence,
              AskForLoop, SubStep, memory, durable
<1>8. CASE ReflectAndMarkDone \/ EscalateFailed
  BY <1>8, SliceRunOK DEF ReflectAndMarkDone, EscalateFailed, WriteQueue
<1>9. CASE RequeueFailed
  BY <1>9, RequeueOK DEF RequeueFailed, WriteQueue
<1>10. QED BY <1>1, <1>2, <1>3, <1>4, <1>5, <1>6, <1>7, <1>8, <1>9 DEF SliceLoop

\* Verify, accept and report keep StagesOK, writing what vouches for them.
LEMMA LateStagesOK == ControlOK /\ StagesOK /\ LateStages => StagesOK'
<1> SUFFICES ASSUME ControlOK, StagesOK, LateStages PROVE StagesOK'
  OBVIOUS
<1> USE DEF StagesOK, CurrentStage, Vouched, Verdict, StagePc, SliceLoopPc, Files
<1>1. CASE RunVerifier
  BY <1>1 DEF RunVerifier, AtStage, Return, Passed, Result
<1>2. CASE RunAcceptance
  BY <1>2 DEF RunAcceptance, AcceptMarker, AtStage, Return
<1>3. CASE Remediate
  BY <1>3 DEF Remediate, Return, Remediation, Failed, Result, ControlOK
<1>4. CASE NoRemediation
  BY <1>4 DEF NoRemediation, Return, Escalation, Failed, Result, ControlOK, durable
<1>5. CASE ReportStage
  BY <1>5 DEF ReportStage, AtStage, Return
<1>6. QED BY <1>1, <1>2, <1>3, <1>4, <1>5 DEF LateStages

\* Throws, crashes and resumes keep StagesOK.
LEMMA EnvironmentStagesOK == StagesOK /\ Environment => StagesOK'
<1> SUFFICES ASSUME StagesOK, Environment PROVE StagesOK'
  OBVIOUS
<1> USE DEF StagesOK, CurrentStage, Verdict, StagePc, SliceLoopPc
<1>1. CASE Throw
  BY <1>1 DEF Throw, AtGate, durable, Vouched
<1>2. Vouched(IdleRun.nextStage)
  BY DEF IdleRun, StartRun, Vouched
<1>3. CASE Crash
  BY <1>2, <1>3 DEF Crash, Restart, Vouched, IdleRun
<1>4. CASE Resume
  BY <1>2, <1>4, RecoveredStageVouched DEF Resume, Restart, durable, Vouched, IdleRun
<1>5. QED BY <1>1, <1>3, <1>4 DEF Environment

\* StagesOK is an invariant of the specification.
LEMMA AlwaysStagesOK == Spec => []StagesOK
<1>1. ControlOK /\ RunsOK /\ StagesOK /\ [Next]_vars => StagesOK'
  <2>1. StagesOK /\ UNCHANGED vars => StagesOK'
    BY DEF StagesOK, CurrentStage, Vouched, Verdict, vars, memory, durable
  <2>2. QED BY <2>1, PipelineStagesOK, EarlyStagesOK, SliceLoopStagesOK, LateStagesOK,
               EnvironmentStagesOK DEF Next, Program, Terminated
<1>2. QED BY <1>1, InitStagesOK, AlwaysControlOK, RunsAlwaysOK, PTL DEF Spec

\* No run completes without a passing verification and a report, even when
\* state.json is lost and the stage has to be inferred from the artifacts.
THEOREM CompletedRunIsVerified == Spec => []CompletedIsVerified
<1>1. StagesOK => CompletedIsVerified
  BY DEF StagesOK, Vouched, CompletedIsVerified
<1>2. QED BY <1>1, AlwaysStagesOK, PTL

-----------------------------------------------------------------------------
(***************************************************************************)
(* Fail-closed and without torn writes, no save takes a count back: every  *)
(* Run that is about to be saved counts at least what state.json counts.   *)
(* Under best-effort this is false (Claims!NoSaveClobbers).                *)
(***************************************************************************)

FailClosedOnly == ~TornWrites /\ \A s \in Settings : ~s.bestEffort

AtLeast(r1, r2) == /\ r1.backwardLoops >= r2.backwardLoops
                   /\ \A s \in SliceId : r1.requeueCounts[s] >= r2.requeueCounts[s]

\* Where the snapshot is what the file holds: nothing has been saved since.
FreshPc == {"stage", "carryForward", "skeletonResults", "structure", "remediate",
            "clearFlag"}

SavesOK ==
  /\ ~setting.bestEffort
  /\ stateFile # None =>
       /\ pc \in {"boot", "next", "decide"} => run = stateFile
       /\ pc \in FreshPc => snap = stateFile
       /\ pc = "gate" /\ outcome.cap => snap = stateFile
       /\ pc \in SliceLoopPc \ {"clearFlag"} => AtLeast(sliceRun, stateFile)

\* AtLeast is a preorder on Runs.
LEMMA AtLeastReflexive ==
  ASSUME NEW r, RunOK(r) PROVE AtLeast(r, r)
BY CapAssumption DEF AtLeast, RunOK

\* AtLeast is transitive.
LEMMA AtLeastTransitive ==
  ASSUME NEW r1, NEW r2, NEW r3, RunOK(r1), RunOK(r2), RunOK(r3),
         AtLeast(r1, r2), AtLeast(r2, r3)
  PROVE  AtLeast(r1, r3)
BY CapAssumption DEF AtLeast, RunOK

\* The slice loop's mutations of its Run take nothing back.
LEMMA SliceRunGrows ==
  ASSUME NEW r, RunOK(r), NEW s
  PROVE  /\ AtLeast(MarkSliceBuilding(r, s), r) /\ AtLeast(MarkSliceDone(r, s), r)
         /\ AtLeast(EscalateSlice(r, s), r) /\ AtLeast(ClearReconcile(r), r)
         /\ AtLeast(r, ClearReconcile(r))
BY CapAssumption
   DEF AtLeast, RunOK, RunFields, MarkSliceBuilding, MarkSliceDone, EscalateSlice,
       ClearReconcile

\* A requeue takes no count back.
LEMMA RequeueGrows ==
  ASSUME NEW r, RunOK(r), NEW s PROVE AtLeast(RequeueSlice(r, s), r)
<1> DEFINE counts == [r.requeueCounts EXCEPT ![s] = @ + 1]
<1>1. \A t \in SliceId : counts[t] >= r.requeueCounts[t]
  BY CapAssumption DEF RunOK
<1>2. RequeueSlice(r, s) = [r EXCEPT !.currentSlice = None, !.requeueCounts = counts]
  BY DEF RequeueSlice, RunOK, RunFields
<1> HIDE DEF counts
<1>3. QED BY <1>1, <1>2, CapAssumption DEF AtLeast, RunOK, RunFields

\* An escalation takes no count back.
LEMMA LoopBackGrows ==
  ASSUME NEW r, RunOK(r), NEW loop, NEW fp PROVE AtLeast(LoopBack(r, loop, fp), r)
BY CapAssumption DEF AtLeast, RunOK, RunFields, LoopBack

\* Completing a stage takes no count back.
LEMMA CompleteStageGrows ==
  ASSUME NEW r, RunOK(r), NEW stage, NEW remediation
  PROVE  AtLeast(CompleteStageIn(r, stage, remediation), r)
BY CapAssumption DEF AtLeast, RunOK, RunFields, CompleteStageIn

\* SavesOK holds at the start.
LEMMA InitSavesOK == FailClosedOnly /\ Init => SavesOK
BY DEF FailClosedOnly, Init, SavesOK

\* The pipeline loop keeps SavesOK and takes no count of state.json back.
LEMMA PipelineSavesOK ==
  RunsOK /\ SavesOK /\ PipelineLoop => SavesOK' /\ CountsNeverDecrease
<1> SUFFICES ASSUME RunsOK, SavesOK, PipelineLoop
             PROVE  SavesOK' /\ CountsNeverDecrease
  OBVIOUS
<1> USE DEF SavesOK, FreshPc, SliceLoopPc
<1>1. stateFile # None => AtLeast(stateFile, stateFile)
  BY AtLeastReflexive DEF RunsOK
<1>2. CASE SaveStart
  BY <1>1, <1>2 DEF SaveStart, memory, CountsNeverDecrease, AtLeast
<1>3. CASE FinishRun \/ EnterStage \/ PassGate \/ GateRejects \/ Resync
  BY <1>1, <1>3 DEF FinishRun, EnterStage, PassGate, GateRejects, Resync, Reload,
                    memory, durable, CountsNeverDecrease, AtLeast
<1>4. CASE GateApproves \/ GateRetries
  BY <1>1, <1>4 DEF GateApproves, GateRetries, AtGate, memory, durable,
                    CountsNeverDecrease, AtLeast
<1>5. CASE StopOnEscalation \/ StopOnFail
  BY <1>1, <1>5 DEF StopOnEscalation, StopOnFail, memory, CountsNeverDecrease, AtLeast
<1>6. CASE FollowEscalation
  <2>1. AtLeast(run', run)
    BY <1>6, LoopBackGrows DEF FollowEscalation, RunsOK
  <2>2. QED BY <1>6, <2>1 DEF FollowEscalation, CountsNeverDecrease, AtLeast
<1>7. CASE CompleteStage
  <2>1. AtLeast(run', run)
    BY <1>7, CompleteStageGrows DEF CompleteStage, RunsOK
  <2>2. QED BY <1>7, <2>1 DEF CompleteStage, CountsNeverDecrease, AtLeast
<1>8. QED BY <1>2, <1>3, <1>4, <1>5, <1>6, <1>7 DEF PipelineLoop

\* A stage that saves nothing leaves everything as it is.
LEMMA UnsavedStep ==
  ASSUME RunsOK, UNCHANGED stateFile PROVE CountsNeverDecrease
<1>1. stateFile # None => AtLeast(stateFile, stateFile)
  BY AtLeastReflexive DEF RunsOK
<1>2. QED BY <1>1 DEF CountsNeverDecrease, AtLeast

\* The stages before the slice loop keep SavesOK, and save no Run.
LEMMA EarlySavesOK ==
  RunsOK /\ SavesOK /\ EarlyStages => SavesOK' /\ CountsNeverDecrease
<1> SUFFICES ASSUME RunsOK, SavesOK, EarlyStages
             PROVE  SavesOK' /\ UNCHANGED stateFile
  BY UnsavedStep
<1> USE DEF SavesOK, FreshPc, SliceLoopPc, AtStage, Return
<1>1. CASE GoalsWithoutTask
  BY <1>1 DEF GoalsWithoutTask, durable
<1>2. CASE GoalsStage \/ ResearchStage
  BY <1>2 DEF GoalsStage, ResearchStage, DocumentStage
<1>3. CASE DesignStage
  BY <1>3 DEF DesignStage
<1>4. CASE SkeletonEarlyPass \/ SkeletonFails \/ BaselineEarlyPass
  BY <1>4 DEF SkeletonEarlyPass, SkeletonFails, BaselineEarlyPass, durable
<1>5. CASE SkeletonBuilt \/ CarryForward \/ WriteSkeletonResults
  BY <1>5 DEF SkeletonBuilt, CarryForward, WriteSkeletonResults, memory, durable
<1>6. CASE ReviewStructure
  BY <1>6 DEF ReviewStructure
<1>7. CASE BaselineCheck
  BY <1>7 DEF BaselineCheck
<1>8. QED BY <1>1, <1>2, <1>3, <1>4, <1>5, <1>6, <1>7 DEF EarlyStages

\* The slice loop keeps SavesOK: what it saves grew from what was saved.
LEMMA SliceLoopSavesOK ==
  RunsOK /\ SavesOK /\ SliceLoop => SavesOK' /\ CountsNeverDecrease
<1> SUFFICES ASSUME RunsOK, SavesOK, SliceLoop
             PROVE  SavesOK' /\ CountsNeverDecrease
  OBVIOUS
<1> USE DEF SavesOK, FreshPc, SliceLoopPc
<1>1. AtLeast(snap, snap) /\ AtLeast(sliceRun, sliceRun)
  BY AtLeastReflexive DEF RunsOK
<1>2. CASE BuildQueue
  <2>1. SavesOK'
    BY <1>1, <1>2 DEF BuildQueue, AtStage, EnterLoop, Return, Escalation, Failed, Result
  <2>2. QED BY <1>2, <2>1, UnsavedStep DEF BuildQueue
<1>3. CASE ResumeQueue \/ ReconcileQueue
  <2>1. SavesOK'
    BY <1>1, <1>3 DEF ResumeQueue, ReconcileQueue, AtStage, EnterLoop, durable
  <2>2. QED BY <1>3, <2>1, UnsavedStep DEF ResumeQueue, ReconcileQueue, durable
<1>4. CASE ClearFlag
  <2>1. AtLeast(ClearReconcile(snap), snap) /\ AtLeast(snap, ClearReconcile(snap))
    BY SliceRunGrows DEF RunsOK
  <2>2. QED BY <1>4, <2>1 DEF ClearFlag, EnterLoop, CountsNeverDecrease, AtLeast
<1>5. CASE SelectSlice \/ ReflectAndMarkDone \/ RequeueFailed \/ EscalateFailed
  <2>1. RunOK(sliceRun') /\ AtLeast(sliceRun', sliceRun)
    BY <1>5, SliceRunOK, SliceRunGrows, RequeueOK, RequeueGrows
       DEF SelectSlice, ReflectAndMarkDone, RequeueFailed, EscalateFailed, WriteQueue, RunsOK
  <2>2. stateFile # None => AtLeast(sliceRun, stateFile)
    BY <1>5 DEF SelectSlice, ReflectAndMarkDone, RequeueFailed, EscalateFailed
  <2>3. stateFile # None => AtLeast(sliceRun', stateFile)
    BY <2>1, <2>2, AtLeastTransitive DEF RunsOK
  <2>4. UNCHANGED <<stateFile, setting>> /\ pc' \in SliceLoopPc \ {"clearFlag"}
    BY <1>5 DEF SelectSlice, ReflectAndMarkDone, RequeueFailed, EscalateFailed, WriteQueue
  <2>5. SavesOK'
    BY <2>3, <2>4
  <2>6. QED BY <2>4, <2>5, UnsavedStep
<1>6. CASE LoopPasses \/ ClassifyEscalation
  <2>1. Passed.cap = FALSE
    BY DEF Passed, Result
  <2>2. \A loop, reason : Escalation(loop, reason).cap = FALSE
    BY DEF Escalation, Failed, Result
  <2>3. outcome'.cap = FALSE /\ pc' = "gate" /\ UNCHANGED <<stateFile, setting>>
    BY <1>6, <2>1, <2>2 DEF LoopPasses, ClassifyEscalation, Return, durable
  <2>4. QED BY <2>3, UnsavedStep
<1>7. CASE SaveBuilding \/ SaveDone \/ SaveRequeue \/ SaveEscalated
  BY <1>1, <1>7 DEF SaveBuilding, SaveDone, SaveRequeue, SaveEscalated, SaveSliceRun,
                    memory, CountsNeverDecrease, AtLeast
<1>8. CASE PlanSlice \/ CheckFeasibility \/ ImplementSlice \/ CheckDone \/ CheckEvidence
           \/ AskForLoop
  <2>1. SavesOK' /\ UNCHANGED stateFile
    BY <1>8 DEF PlanSlice, CheckFeasibility, ImplementSlice, CheckDone, CheckEvidence,
                AskForLoop, SubStep, memory, durable
  <2>2. QED BY <2>1, UnsavedStep
<1>9. QED BY <1>2, <1>3, <1>4, <1>5, <1>6, <1>7, <1>8 DEF SliceLoop

\* Verify, accept and report keep SavesOK, and save no Run.
LEMMA LateSavesOK ==
  RunsOK /\ SavesOK /\ LateStages => SavesOK' /\ CountsNeverDecrease
<1> SUFFICES ASSUME RunsOK, SavesOK, LateStages
             PROVE  SavesOK' /\ UNCHANGED stateFile
  BY UnsavedStep
<1> USE DEF SavesOK, FreshPc, SliceLoopPc, AtStage, Return
<1>1. CASE RunVerifier
  BY <1>1 DEF RunVerifier
<1>2. CASE RunAcceptance
  BY <1>2 DEF RunAcceptance
<1>3. CASE Remediate \/ NoRemediation
  BY <1>3 DEF Remediate, NoRemediation, durable
<1>4. CASE ReportStage
  BY <1>4 DEF ReportStage
<1>5. QED BY <1>1, <1>2, <1>3, <1>4 DEF LateStages

\* Crashes and resumes keep SavesOK; under fail-closed no stage is run again.
LEMMA EnvironmentSavesOK ==
  FailClosedOnly /\ RunsOK /\ SavesOK /\ Environment => SavesOK' /\ CountsNeverDecrease
<1> SUFFICES ASSUME FailClosedOnly, RunsOK, SavesOK, Environment
             PROVE  SavesOK' /\ UNCHANGED stateFile
  BY UnsavedStep
<1> USE DEF SavesOK, FreshPc, SliceLoopPc
<1>1. CASE Throw
  BY <1>1 DEF Throw, durable
<1>2. CASE Crash
  BY <1>2 DEF Crash, FailClosedOnly
<1>3. CASE Resume
  BY <1>3 DEF Resume, Restart, RecoveredRun, FailClosedOnly, durable
<1>4. QED BY <1>1, <1>2, <1>3 DEF Environment

\* Fail-closed and without torn writes, no step of any process takes back a
\* count of state.json: the stage saves Runs of its own, the pipeline loop
\* saves after it, and processes come and go.
THEOREM CountersAreMonotone == FailClosedOnly /\ Spec => CountersMonotone
<1> SUFFICES ASSUME FailClosedOnly PROVE Spec => CountersMonotone
  OBVIOUS
<1>1. Init => SavesOK
  BY InitSavesOK
<1>2. RunsOK /\ SavesOK /\ [Next]_vars => SavesOK' /\ [CountsNeverDecrease]_vars
  <2>1. RunsOK /\ SavesOK /\ UNCHANGED vars => SavesOK'
    BY DEF SavesOK, vars, memory, durable
  <2>2. QED BY <2>1, PipelineSavesOK, EarlySavesOK, SliceLoopSavesOK, LateSavesOK,
               EnvironmentSavesOK DEF Next, Program, Terminated
<1>3. QED BY <1>1, <1>2, RunsAlwaysOK, PTL DEF Spec, CountersMonotone
=============================================================================
