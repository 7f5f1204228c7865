--------------------------- MODULE QueueUse_proofs ---------------------------
(***************************************************************************)
(* What DeepLooper writes to slice-queue.md, for every number of slices,   *)
(* every design and proposal and every cap: its types, that each write is  *)
(* an operation of SliceLife on what was there, how often a slice is       *)
(* attempted, and that every step leaves the run with less to do.          *)
(***************************************************************************)
EXTENDS DeepLooper_proofs, SliceQueue_proofs, FiniteSetTheorems

-----------------------------------------------------------------------------
(***************************************************************************)
(* There is a design wherever a stage after design may be entered.         *)
(***************************************************************************)

AfterDesign == {"skeleton", "baseline", "slice-loop", "verify", "accept", "report", "done"}

Designed(stage) == stage \in AfterDesign => design # None

DesignInv ==
  /\ design \in Designs \cup {None}
  /\ Designed(run.nextStage) /\ Designed(snap.nextStage)
  /\ stateFile # None => Designed(stateFile.nextStage)
  /\ files.verify # "none" => design # None
  /\ pc \in {"gate", "resync", "decide"} /\ CurrentStage = "design" => design # None

\* The stage that is inferred without state.json has the design it needs.
LEMMA RecoveredDesigned ==
  ASSUME DesignInv PROVE Designed(RecoveredRun.nextStage)
<1>1. Designed(NextStageFor(MarkedStage, FALSE))
  BY MarkedStageOK
     DEF DesignInv, Designed, AfterDesign, NextStageFor, Marked, Baselined, Stage
<1>2. InferredRun.nextStage = NextStageFor(MarkedStage, FALSE)
  BY DEF InferredRun, StartRun
<1>3. Designed(StartRun(FALSE).nextStage)
  BY DEF StartRun, Designed, AfterDesign
<1>4. QED
  BY <1>1, <1>2, <1>3 DEF RecoveredRun, DesignInv

\* The pipeline loop keeps DesignInv: it moves past design only from design.
LEMMA PipelineDesignInv ==
  ControlOK /\ RunsOK /\ StagesOK /\ DesignInv /\ PipelineLoop => DesignInv'
<1> SUFFICES ASSUME ControlOK, RunsOK, StagesOK, DesignInv, PipelineLoop PROVE DesignInv'
  OBVIOUS
<1> USE DEF DesignInv, CurrentStage, Designed, AfterDesign
<1>1. CASE SaveStart
  BY <1>1 DEF SaveStart, memory
<1>2. CASE FinishRun \/ PassGate \/ GateRejects \/ GateRetries
  BY <1>2 DEF FinishRun, PassGate, GateRejects, GateRetries, AtGate, memory, durable
<1>3. CASE EnterStage
  BY <1>3 DEF EnterStage, durable
<1>4. CASE GateApproves
  BY <1>4 DEF GateApproves, AtGate, durable
<1>5. CASE Resync
  BY <1>5 DEF Resync, Reload, durable
<1>6. CASE StopOnEscalation \/ StopOnFail
  BY <1>6 DEF StopOnEscalation, StopOnFail, memory
<1>7. CASE FollowEscalation
  BY <1>7, LoopBackOK DEF FollowEscalation, RunsOK
<1>8. CASE CompleteStage
  <2>1. CurrentStage \in Stage
    BY DEF RunsOK
  <2>2. Designed(NextStageFor(CurrentStage, outcome.remediation))
    BY <1>8, <2>1 DEF CompleteStage, NextStageFor, Stage
  <2>3. CompleteStageIn(run, CurrentStage, outcome.remediation).nextStage
          = NextStageFor(CurrentStage, outcome.remediation)
    BY DEF CompleteStageIn, RunsOK, RunOK, RunFields
  <2>4. QED BY <1>8, <2>2, <2>3 DEF CompleteStage
<1>9. QED BY <1>1, <1>2, <1>3, <1>4, <1>5, <1>6, <1>7, <1>8 DEF PipelineLoop

\* A step that leaves the pipeline loop's Runs and the design alone.
LEMMA SameDesign ==
  ASSUME DesignInv, UNCHANGED <<design, run, snap, stateFile>>,
         files'.verify = files.verify, snap.nextStage # "design"
  PROVE  DesignInv'
BY DEF DesignInv, Designed, CurrentStage

\* The stages before the slice loop keep DesignInv.
LEMMA EarlyDesignInv ==
  ControlOK /\ StagesOK /\ DesignInv /\ EarlyStages => DesignInv'
<1> SUFFICES ASSUME ControlOK, StagesOK, DesignInv, EarlyStages PROVE DesignInv'
  OBVIOUS
<1> USE DEF CurrentStage, AtStage
<1>1. CASE GoalsWithoutTask \/ SkeletonEarlyPass \/ SkeletonFails \/ BaselineEarlyPass
           \/ SkeletonBuilt
  BY <1>1, SameDesign DEF GoalsWithoutTask, SkeletonEarlyPass, SkeletonFails,
              BaselineEarlyPass, SkeletonBuilt, memory, durable
<1>2. CASE GoalsStage \/ ResearchStage
  BY <1>2, SameDesign DEF GoalsStage, ResearchStage, DocumentStage, StagesOK, Files
<1>3. CASE DesignStage
  BY <1>3, NoneAssumption DEF DesignStage, DesignInv, Designed, Return
<1>4. CASE CarryForward
  BY <1>4, SameDesign DEF CarryForward, memory, ControlOK, SkeletonPc
<1>5. CASE WriteSkeletonResults \/ ReviewStructure
  BY <1>5, SameDesign DEF WriteSkeletonResults, ReviewStructure, memory, ControlOK,
              SkeletonPc, StagesOK, Files
<1>6. CASE BaselineCheck
  BY <1>6, SameDesign DEF BaselineCheck, StagesOK, Files
<1>7. QED BY <1>1, <1>2, <1>3, <1>4, <1>5, <1>6 DEF EarlyStages

\* The slice loop keeps DesignInv: what it saves names its own stage.
LEMMA SliceLoopDesignInv ==
  ControlOK /\ RunsOK /\ StagesOK /\ DesignInv /\ SliceLoop => DesignInv'
<1> SUFFICES ASSUME ControlOK, RunsOK, StagesOK, DesignInv, SliceLoop PROVE DesignInv'
  OBVIOUS
<1> USE DEF CurrentStage, AtStage, SliceLoopPc
<1>1. CASE ClearFlag
  BY <1>1, SliceRunOK DEF ClearFlag, EnterLoop, DesignInv, Designed, RunsOK
<1>2. CASE SaveBuilding \/ SaveDone \/ SaveRequeue \/ SaveEscalated
  BY <1>2 DEF SaveBuilding, SaveDone, SaveRequeue, SaveEscalated, SaveSliceRun, memory,
              DesignInv, Designed, StagesOK, ControlOK
<1>3. CASE BuildQueue \/ ResumeQueue \/ ReconcileQueue
  BY <1>3, SameDesign DEF BuildQueue, ResumeQueue, ReconcileQueue, durable
<1>4. CASE SelectSlice \/ LoopPasses \/ ClassifyEscalation
  BY <1>4, SameDesign DEF SelectSlice, LoopPasses, ClassifyEscalation, durable, ControlOK
<1>5. CASE PlanSlice \/ CheckFeasibility \/ ImplementSlice \/ CheckDone \/ CheckEvidence
           \/ AskForLoop
  BY <1>5, SameDesign DEF PlanSlice, CheckFeasibility, ImplementSlice, CheckDone,
              CheckEvidence, AskForLoop, SubStep, memory, durable, ControlOK
<1>6. CASE ReflectAndMarkDone \/ RequeueFailed \/ EscalateFailed
  BY <1>6, SameDesign DEF ReflectAndMarkDone, RequeueFailed, EscalateFailed, ControlOK
<1>7. QED BY <1>1, <1>2, <1>3, <1>4, <1>5, <1>6 DEF SliceLoop

\* Verify, accept and report keep DesignInv: they come after design.
LEMMA LateDesignInv ==
  ControlOK /\ StagesOK /\ DesignInv /\ LateStages => DesignInv'
<1> SUFFICES ASSUME ControlOK, StagesOK, DesignInv, LateStages PROVE DesignInv'
  OBVIOUS
<1> USE DEF CurrentStage, AtStage
<1>1. CASE RunVerifier
  BY <1>1 DEF RunVerifier, DesignInv, Designed, AfterDesign
<1>2. CASE RunAcceptance \/ ReportStage
  BY <1>2, SameDesign DEF RunAcceptance, ReportStage, StagesOK, Files
<1>3. CASE Remediate \/ NoRemediation
  BY <1>3, SameDesign DEF Remediate, NoRemediation, durable, ControlOK
<1>4. QED BY <1>1, <1>2, <1>3 DEF LateStages

\* Throws, crashes and resumes keep DesignInv.
LEMMA EnvironmentDesignInv == DesignInv /\ Environment => DesignInv'
<1> SUFFICES ASSUME DesignInv, Environment PROVE DesignInv'
  OBVIOUS
<1>1. CASE Throw
  BY <1>1 DEF Throw, durable, DesignInv, Designed, CurrentStage
<1>2. IdleRun.nextStage = "goals"
  BY DEF IdleRun, StartRun
<1>3. CASE Crash
  BY <1>2, <1>3 DEF Crash, Restart, DesignInv, Designed, AfterDesign, CurrentStage
<1>4. CASE Resume
  BY <1>2, <1>4, RecoveredDesigned
     DEF Resume, Restart, durable, DesignInv, Designed, AfterDesign, CurrentStage
<1>5. QED BY <1>1, <1>3, <1>4 DEF Environment

\* DesignInv is an invariant of the specification.
LEMMA AlwaysDesignInv == Spec => []DesignInv
<1>1. Init => DesignInv
  BY DEF Init, DesignInv, Designed, AfterDesign, StartRun, IdleRun, CurrentStage
<1>2. ControlOK /\ RunsOK /\ StagesOK /\ DesignInv /\ [Next]_vars => DesignInv'
  <2>1. DesignInv /\ UNCHANGED vars => DesignInv'
    BY DEF DesignInv, CurrentStage, Designed, vars, memory, durable
  <2>2. QED BY <2>1, PipelineDesignInv, EarlyDesignInv, SliceLoopDesignInv, LateDesignInv,
               EnvironmentDesignInv DEF Next, Program, Terminated
<1>3. QED BY <1>1, <1>2, AlwaysControlOK, RunsAlwaysOK, AlwaysStagesOK, PTL DEF Spec

-----------------------------------------------------------------------------
(***************************************************************************)
(* Types: the operations of the Run aggregate ...                          *)
(***************************************************************************)

\* A new Run.
LEMMA StartRunType == ASSUME NEW t \in BOOLEAN PROVE StartRun(t) \in RunRecord
BY DEF StartRun, RunRecord, Stage

\* Where the slice loop stands.
LEMMA SliceRunType ==
  ASSUME NEW r \in RunRecord, NEW s \in SliceId
  PROVE  /\ MarkSliceBuilding(r, s) \in RunRecord
         /\ MarkSliceDone(r, s) \in RunRecord
         /\ EscalateSlice(r, s) \in RunRecord
         /\ ClearReconcile(r) \in RunRecord
BY DEF MarkSliceBuilding, MarkSliceDone, EscalateSlice, ClearReconcile, RunRecord

\* The flag is cleared whatever the slice.
LEMMA ClearReconcileType ==
  ASSUME NEW r \in RunRecord PROVE ClearReconcile(r) \in RunRecord
BY DEF ClearReconcile, RunRecord

\* A requeue adds one to a count.
LEMMA RequeueType ==
  ASSUME NEW r \in RunRecord, NEW s \in SliceId PROVE RequeueSlice(r, s) \in RunRecord
<1> DEFINE counts == [r.requeueCounts EXCEPT ![s] = @ + 1]
<1>1. counts \in [SliceId -> Nat]
  BY DEF RunRecord
<1>2. RequeueSlice(r, s) = [r EXCEPT !.currentSlice = None, !.requeueCounts = counts]
  BY DEF RequeueSlice, RunRecord
<1> HIDE DEF counts
<1>3. QED
  BY <1>1, <1>2 DEF RunRecord

\* An escalation, whose fingerprint is one.
LEMMA LoopBackType ==
  ASSUME NEW r \in RunRecord, NEW loop, NEW fp \in Fingerprint
  PROVE  LoopBack(r, loop, fp) \in RunRecord
<1>1. EscalationTarget(loop) \in Stage \cup {"done"}
  BY DEF EscalationTarget, Stage
<1> DEFINE target == EscalationTarget(loop)
<1>2. r.backwardLoops + 1 \in Nat
  BY DEF RunRecord
<1>3. LoopBack(r, loop, fp) = [r EXCEPT !.backwardLoops = r.backwardLoops + 1,
                                        !.fingerprint = fp, !.pendingReconcile = TRUE,
                                        !.nextStage = target]
  BY DEF LoopBack, RunRecord
<1> HIDE DEF target
<1>4. QED
  BY <1>1, <1>2, <1>3 DEF RunRecord, target

\* The end of a stage.
LEMMA CompleteStageType ==
  ASSUME NEW r \in RunRecord, NEW stage \in Stage, NEW remediation \in BOOLEAN
  PROVE  CompleteStageIn(r, stage, remediation) \in RunRecord
<1>1. NextStageFor(stage, remediation) \in Stage \cup {"done"}
  BY DEF NextStageFor, Stage
<1>2. QED
  BY <1>1 DEF CompleteStageIn, RunRecord

\* The ids of the slices with some status are slice ids.
LEMMA IdsWithType ==
  ASSUME NEW q \in Seq(Slice), NEW statuses PROVE IdsWith(q, statuses) \subseteq SliceId
<1>1. \A i \in DOMAIN q : q[i] \in Slice
  BY QueueElements
<1>2. QED
  BY <1>1 DEF IdsWith, Slice

\* The empty queue.
LEMMA NoQueueType == NoQueue \in Seq(Slice)
BY DEF NoQueue

-----------------------------------------------------------------------------
(***************************************************************************)
(* ... and all variables.  A slice is current while one is being built,    *)
(* and an escalation has a reason.                                         *)
(***************************************************************************)

BuildingPc == {"saveBuilding", "plan", "feasibility", "implement", "doneCheck", "evidence",
               "reflect", "failed", "escalating"}

QueueTypes == /\ queueFile # None => queueFile \in Seq(Slice)
              /\ queue \in Seq(Slice)

RunTypes == /\ run \in RunRecord /\ snap \in RunRecord /\ sliceRun \in RunRecord
            /\ stateFile \in RunRecord \cup {None}
            /\ pc \in BuildingPc => CurrentSlice \in SliceId
            /\ outcome.loop # None => outcome.reason \in Reason

OtherTypes == setting \in Settings /\ retried \in BOOLEAN /\ spent \in [Event -> Nat]

\* What is on disk is a queue.
LEMMA QueueOnDiskType == QueueTypes => QueueOnDisk \in Seq(Slice)
BY NoQueueType, ReadBackFacts DEF QueueTypes, QueueOnDisk

\* The fingerprint of an escalation is one.
LEMMA FingerprintType ==
  ASSUME QueueTypes, RunTypes, RunsOK, outcome.loop # None
  PROVE  CurrentFingerprint \in Fingerprint
<1>1. outcome.loop \in Loop /\ outcome.reason \in Reason
  BY DEF RunsOK, Outcome, RunTypes
<1>2. run.currentSlice \in SliceId \cup {None}
  BY DEF RunTypes, RunRecord
<1>3. ASSUME queueFile # None PROVE Cardinality(Actionable(ReadBack(queueFile))) \in Nat
  <2> DEFINE q == ReadBack(queueFile)
  <2>1. q \in Seq(Slice)
    BY <1>3, ReadBackFacts DEF QueueTypes
  <2> HIDE DEF q
  <2>2. Len(q) \in Nat /\ DOMAIN q = 1 .. Len(q)
    BY <2>1, QueueElements
  <2>3. IsFiniteSet(1 .. Len(q))
    BY <2>2, FS_Interval
  <2>4. Actionable(q) \subseteq 1 .. Len(q)
    BY <2>2 DEF Actionable
  <2>5. IsFiniteSet(Actionable(q))
    BY <2>3, <2>4, FS_Subset
  <2>6. Cardinality(Actionable(q)) \in Nat
    BY <2>5, FS_CardinalityType
  <2>7. QED
    BY <2>6 DEF q
<1>4. QED
  BY <1>1, <1>2, <1>3 DEF CurrentFingerprint, Fingerprint

\* The Run a resume starts from is one.
LEMMA RecoveredRunType ==
  ASSUME QueueTypes, stateFile \in RunRecord \cup {None} PROVE RecoveredRun \in RunRecord
<1>1. StartRun(FALSE) \in RunRecord
  BY StartRunType
<1>2. InferredRun \in RunRecord
  <2> DEFINE onDisk == IF Baselined THEN QueueOnDisk ELSE NoQueue
  <2>1. onDisk \in Seq(Slice)
    BY QueueOnDiskType, NoQueueType
  <2>2. /\ DoneIds(onDisk) \subseteq SliceId
        /\ IdsWith(onDisk, {"blocked", "escalated"}) \subseteq SliceId
    BY <2>1, IdsWithType DEF DoneIds
  <2>3. NextStageFor(MarkedStage, FALSE) \in Stage \cup {"done"}
    BY MarkedStageOK DEF NextStageFor, Stage
  <2>4. InferredRun = [StartRun(FALSE) EXCEPT
                         !.nextStage = NextStageFor(MarkedStage, FALSE),
                         !.slicesDone = DoneIds(onDisk),
                         !.slicesBlocked = IdsWith(onDisk, {"blocked", "escalated"})]
    BY DEF InferredRun
  <2> HIDE DEF onDisk
  <2>5. QED
    BY <1>1, <2>2, <2>3, <2>4 DEF RunRecord
<1>3. QED
  BY <1>1, <1>2 DEF RecoveredRun

\* The slice loop's mutations keep a queue.
LEMMA MutationTypes ==
  ASSUME NEW q \in Seq(Slice), NEW id
  PROVE  /\ Promote(q) \in Seq(Slice)
         /\ MarkBuilding(q, id) \in Seq(Slice)
         /\ MarkDone(q, id) \in Seq(Slice)
         /\ Escalate(q, id) \in Seq(Slice)
         /\ Requeue(q, id) \in Seq(Slice)
<1>1. Promote(q) \in Seq(Slice) /\ Requeue(q, id) \in Seq(Slice)
  BY PromoteFacts, RequeueFacts DEF SameSlices
<1>2. \A st \in Status : SetStatus(q, id, st) \in Seq(Slice)
  BY SetStatusFacts DEF SameSlices
<1>3. QED
  BY <1>1, <1>2 DEF MarkBuilding, MarkDone, Escalate, Status

\* The steps that write slice-queue.md.
QueueWrites == \/ CarryForward \/ BuildQueue \/ ReconcileQueue \/ SelectSlice
               \/ ReflectAndMarkDone \/ RequeueFailed \/ EscalateFailed \/ Remediate

\* There is a design where a queue is made from it.
LEMMA WritersDesigned ==
  ControlOK /\ DesignInv /\ (CarryForward \/ BuildQueue \/ ReconcileQueue)
    => design \in Designs /\ IsDesign(design)
BY DesignAssumption
   DEF CarryForward, BuildQueue, ReconcileQueue, AtStage, ControlOK, SkeletonPc, DesignInv,
       Designed, AfterDesign, CurrentStage

\* They write queues.
LEMMA WritesQueues ==
  ControlOK /\ DesignInv /\ QueueTypes /\ QueueWrites => queueFile' \in Seq(Slice)
<1> SUFFICES ASSUME ControlOK, DesignInv, QueueTypes, QueueWrites
             PROVE  queueFile' \in Seq(Slice)
  OBVIOUS
<1>1. CASE CarryForward
  BY <1>1, WritersDesigned, AllDoneFacts DEF CarryForward, SameSlices
<1>2. CASE BuildQueue
  BY <1>2, WritersDesigned, ParseDesignFacts DEF BuildQueue, BuildInitial
<1>3. CASE ReconcileQueue
  <2>1. ReadBack(queueFile) \in Seq(Slice)
    BY <1>3, ReadBackFacts DEF QueueTypes, ReconcileQueue
  <2>2. QED
    BY <1>3, <2>1, WritersDesigned, ReconcileFacts DEF ReconcileQueue, Reconciled
<1>4. CASE SelectSlice \/ ReflectAndMarkDone \/ RequeueFailed \/ EscalateFailed
  BY <1>4, MutationTypes
     DEF SelectSlice, ReflectAndMarkDone, RequeueFailed, EscalateFailed, WriteQueue, QueueTypes
<1>5. CASE Remediate
  <2>1. \A p \in Proposals : ApplyRemediation(QueueOnDisk, p).queue \in Seq(Slice)
    BY QueueOnDiskType, ProposalAssumption, ApplyRemediationFacts DEF IsProposal
  <2>2. QED
    BY <1>5, <2>1 DEF Remediate
<1>6. QED
  BY <1>1, <1>2, <1>3, <1>4, <1>5 DEF QueueWrites

\* No other step changes the file, but for a write that is torn.
LEMMA OthersWriteNothing ==
  [Next]_vars /\ ~QueueWrites => queueFile' \in {queueFile, None}
                                  /\ (Program \/ ~TornWrites => UNCHANGED queueFile)
<1> SUFFICES ASSUME [Next]_vars, ~QueueWrites
             PROVE  /\ queueFile' \in {queueFile, None}
                    /\ Program \/ ~TornWrites => UNCHANGED queueFile
  OBVIOUS
<1> USE DEF QueueWrites
<1>1. CASE UNCHANGED vars
  BY <1>1 DEF vars, durable
<1>2. CASE PipelineLoop
  BY <1>2 DEF PipelineLoop, SaveStart, FinishRun, EnterStage, PassGate, GateRejects,
              GateApproves, GateRetries, Resync, StopOnEscalation, FollowEscalation,
              StopOnFail, CompleteStage, durable
<1>3. CASE EarlyStages
  BY <1>3 DEF EarlyStages, GoalsWithoutTask, GoalsStage, ResearchStage, DocumentStage,
              DesignStage, SkeletonEarlyPass, SkeletonFails, SkeletonBuilt,
              WriteSkeletonResults, ReviewStructure, BaselineEarlyPass, BaselineCheck, durable
<1>4. CASE SliceLoop
  BY <1>4 DEF SliceLoop, ResumeQueue, ClearFlag, LoopPasses, SaveBuilding, PlanSlice,
              CheckFeasibility, ImplementSlice, CheckDone, CheckEvidence, AskForLoop,
              SaveDone, SaveRequeue, SaveEscalated, ClassifyEscalation, SubStep,
              SaveSliceRun, durable
<1>5. CASE LateStages
  BY <1>5 DEF LateStages, RunVerifier, RunAcceptance, NoRemediation, ReportStage, durable
<1>6. CASE Environment /\ ~Program
  BY <1>6 DEF Environment, Throw, Crash, Resume, durable
<1>7. QED
  BY <1>1, <1>2, <1>3, <1>4, <1>5, <1>6 DEF Next, Program, Terminated

\* In memory the stages hold what they wrote, what they read, or nothing.
LEMMA MemoryIsRead ==
  [Next]_vars => \/ queue' \in {queue, NoQueue}
                 \/ QueueWrites /\ queue' = queueFile'
                 \/ queueFile # None /\ queue' = ReadBack(queueFile)
<1> SUFFICES ASSUME [Next]_vars
             PROVE  \/ queue' \in {queue, NoQueue}
                    \/ QueueWrites /\ queue' = queueFile'
                    \/ queueFile # None /\ queue' = ReadBack(queueFile)
  OBVIOUS
<1> USE DEF QueueWrites
<1>1. CASE UNCHANGED vars
  BY <1>1 DEF vars, memory
<1>2. CASE PipelineLoop
  BY <1>2 DEF PipelineLoop, SaveStart, FinishRun, EnterStage, PassGate, GateRejects,
              GateApproves, GateRetries, Resync, StopOnEscalation, FollowEscalation,
              StopOnFail, CompleteStage, memory
<1>3. CASE EarlyStages
  BY <1>3 DEF EarlyStages, GoalsWithoutTask, GoalsStage, ResearchStage, DocumentStage,
              DesignStage, SkeletonEarlyPass, SkeletonFails, SkeletonBuilt, CarryForward,
              WriteSkeletonResults, ReviewStructure, BaselineEarlyPass, BaselineCheck,
              Return, memory
<1>4. CASE SliceLoop
  BY <1>4 DEF SliceLoop, BuildQueue, ResumeQueue, ReconcileQueue, ClearFlag, SelectSlice,
              LoopPasses, SaveBuilding, PlanSlice, CheckFeasibility, ImplementSlice,
              CheckDone, CheckEvidence, AskForLoop, ReflectAndMarkDone, SaveDone,
              RequeueFailed, SaveRequeue, EscalateFailed, SaveEscalated,
              ClassifyEscalation, SubStep, SaveSliceRun, WriteQueue, EnterLoop, Return, memory
<1>5. CASE LateStages
  BY <1>5 DEF LateStages, RunVerifier, RunAcceptance, Remediate, NoRemediation,
              ReportStage, Return
<1>6. CASE Environment
  BY <1>6 DEF Environment, Throw, Crash, Resume, Restart
<1>7. QED
  BY <1>1, <1>2, <1>3, <1>4, <1>5, <1>6 DEF Next, Program, Terminated

\* Every step keeps queues, in memory and in the file.
LEMMA StepQueueTypes ==
  ControlOK /\ DesignInv /\ QueueTypes /\ [Next]_vars => QueueTypes'
<1> SUFFICES ASSUME ControlOK, DesignInv, QueueTypes, [Next]_vars PROVE QueueTypes'
  OBVIOUS
<1>1. queueFile' # None => queueFile' \in Seq(Slice)
  BY WritesQueues, OthersWriteNothing DEF QueueTypes
<1>2. queue' \in Seq(Slice)
  BY MemoryIsRead, WritesQueues, NoQueueType, ReadBackFacts DEF QueueTypes
<1>3. QED
  BY <1>1, <1>2 DEF QueueTypes

\* What a stage returns has a reason when it asks for a loop.
LEMMA ReasonsOK ==
  /\ \A s \in {"PASS", "PARTIAL", "FAIL"} : Result(s).loop = None
  /\ Passed.loop = None /\ Failed.loop = None /\ Unclean.loop = None
  /\ Remediation.loop = None
  /\ \A loop, reason : /\ Escalation(loop, reason).reason = reason
                       /\ [Escalation(loop, reason) EXCEPT !.cap = TRUE].reason = reason
BY DEF Result, Passed, Failed, Unclean, Remediation, Escalation

\* Returning from a stage idles the slice loop's Run.
LEMMA ReturnType ==
  ASSUME RunTypes, NEW o, Return(o), o.loop # None => o.reason \in Reason,
         UNCHANGED <<stateFile, run, snap>>
  PROVE  RunTypes'
BY StartRunType DEF RunTypes, Return, IdleRun, BuildingPc, CurrentSlice

\* The pipeline loop keeps RunTypes.
LEMMA PipelineRunTypes ==
  RunsOK /\ QueueTypes /\ RunTypes /\ PipelineLoop => RunTypes'
<1> SUFFICES ASSUME RunsOK, QueueTypes, RunTypes, PipelineLoop PROVE RunTypes'
  OBVIOUS
<1> USE DEF RunTypes, BuildingPc, CurrentSlice
<1>1. CASE SaveStart \/ StopOnEscalation \/ StopOnFail
  BY <1>1 DEF SaveStart, StopOnEscalation, StopOnFail, memory
<1>2. CASE FinishRun \/ EnterStage \/ PassGate \/ GateRejects \/ GateRetries \/ Resync
  BY <1>2 DEF FinishRun, EnterStage, PassGate, GateRejects, GateRetries, Resync, Reload,
              memory, durable
<1>3. CASE GateApproves
  BY <1>3 DEF GateApproves, durable, RunsOK, Outcome
<1>4. CASE FollowEscalation
  BY <1>4, FingerprintType, LoopBackType DEF FollowEscalation
<1>5. CASE CompleteStage
  <2>1. CurrentStage \in Stage /\ outcome.remediation \in BOOLEAN
    BY DEF RunsOK, Outcome, CurrentStage
  <2>2. QED
    BY <1>5, <2>1, CompleteStageType DEF CompleteStage
<1>6. QED
  BY <1>1, <1>2, <1>3, <1>4, <1>5 DEF PipelineLoop

\* The stages before the slice loop keep RunTypes.
LEMMA EarlyRunTypes == RunTypes /\ EarlyStages => RunTypes'
<1> SUFFICES ASSUME RunTypes, EarlyStages PROVE RunTypes'
  OBVIOUS
<1>1. CASE GoalsWithoutTask \/ SkeletonEarlyPass \/ BaselineEarlyPass
  BY <1>1, ReturnType, ReasonsOK
     DEF GoalsWithoutTask, SkeletonEarlyPass, BaselineEarlyPass, durable
<1>2. CASE GoalsStage \/ ResearchStage
  BY <1>2, ReturnType, ReasonsOK DEF GoalsStage, ResearchStage, DocumentStage
<1>3. CASE DesignStage
  BY <1>3, ReturnType, ReasonsOK DEF DesignStage
<1>4. CASE SkeletonFails
  BY <1>4, ReturnType, ReasonsOK DEF SkeletonFails, durable, Reason
<1>5. CASE SkeletonBuilt \/ CarryForward \/ WriteSkeletonResults
  BY <1>5 DEF SkeletonBuilt, CarryForward, WriteSkeletonResults, RunTypes, BuildingPc,
              CurrentSlice, memory, durable
<1>6. CASE ReviewStructure
  <2> DEFINE o == [Escalation("LOOP_DESIGN", "structureReview") EXCEPT !.cap = TRUE]
  <2>1. o.reason \in Reason
    BY ReasonsOK DEF Reason
  <2>2. \/ Return(Passed)
        \/ Return(o)
    BY <1>6 DEF ReviewStructure
  <2>3. UNCHANGED <<stateFile, run, snap>>
    BY <1>6 DEF ReviewStructure
  <2> HIDE DEF o
  <2>4. QED
    BY <2>1, <2>2, <2>3, ReturnType, ReasonsOK
<1>7. CASE BaselineCheck
  BY <1>7, ReturnType, ReasonsOK DEF BaselineCheck
<1>8. QED
  BY <1>1, <1>2, <1>3, <1>4, <1>5, <1>6, <1>7 DEF EarlyStages

\* The slice loop keeps RunTypes: the slice it selects is one of the queue's.
LEMMA SliceLoopRunTypes == QueueTypes /\ RunTypes /\ SliceLoop => RunTypes'
<1> SUFFICES ASSUME QueueTypes, RunTypes, SliceLoop PROVE RunTypes'
  OBVIOUS
<1> USE DEF BuildingPc, CurrentSlice
<1>1. CASE BuildQueue
  <2>1. CASE design.slices = << >> /\ design.declares
    BY <1>1, <2>1, ReturnType, ReasonsOK DEF BuildQueue, Reason
  <2>2. CASE ~(design.slices = << >> /\ design.declares)
    BY <1>1, <2>2 DEF BuildQueue, EnterLoop, RunTypes
  <2>3. QED
    BY <2>1, <2>2
<1>2. CASE ResumeQueue \/ ReconcileQueue
  BY <1>2 DEF ResumeQueue, ReconcileQueue, EnterLoop, RunTypes, durable
<1>3. CASE ClearFlag
  BY <1>3, ClearReconcileType DEF ClearFlag, EnterLoop, RunTypes
<1>4. CASE SelectSlice
  <2> DEFINE promoted == Promote(queue)
             id == FirstReady(promoted).id
  <2>1. promoted \in Seq(Slice) /\ HasReady(promoted)
    BY <1>4, MutationTypes DEF SelectSlice, QueueTypes
  <2> HIDE DEF promoted
  <2>2. PICK i \in DOMAIN promoted : FirstReady(promoted) = promoted[i]
    BY <2>1, FirstReadyFacts
  <2>3. promoted[i] \in Slice
    BY <2>1, QueueElements
  <2>4. id \in SliceId
    BY <2>2, <2>3 DEF Slice
  <2>5. sliceRun' = MarkSliceBuilding(sliceRun, id) /\ pc' = "saveBuilding"
        /\ UNCHANGED <<run, snap, stateFile, outcome>>
    BY <1>4 DEF SelectSlice, WriteQueue, promoted
  <2> HIDE DEF id
  <2>6. sliceRun' \in RunRecord
    BY <2>4, <2>5, SliceRunType DEF RunTypes
  <2>7. sliceRun'.currentSlice = id
    BY <2>5 DEF MarkSliceBuilding, RunTypes, RunRecord
  <2>8. QED
    BY <2>4, <2>5, <2>6, <2>7 DEF RunTypes
<1>5. CASE LoopPasses \/ ClassifyEscalation
  BY <1>5, ReturnType, ReasonsOK DEF LoopPasses, ClassifyEscalation, durable, Reason
<1>6. CASE SaveBuilding \/ SaveDone \/ SaveRequeue \/ SaveEscalated
  BY <1>6 DEF SaveBuilding, SaveDone, SaveRequeue, SaveEscalated, SaveSliceRun, memory, RunTypes
<1>7. CASE PlanSlice \/ CheckFeasibility \/ ImplementSlice \/ CheckDone \/ CheckEvidence
           \/ AskForLoop
  BY <1>7 DEF PlanSlice, CheckFeasibility, ImplementSlice, CheckDone, CheckEvidence,
              AskForLoop, SubStep, memory, durable, RunTypes
<1>8. CASE ReflectAndMarkDone \/ EscalateFailed
  BY <1>8, SliceRunType DEF ReflectAndMarkDone, EscalateFailed, WriteQueue, RunTypes
<1>9. CASE RequeueFailed
  BY <1>9, RequeueType DEF RequeueFailed, WriteQueue, RunTypes
<1>10. QED
  BY <1>1, <1>2, <1>3, <1>4, <1>5, <1>6, <1>7, <1>8, <1>9 DEF SliceLoop

\* Verify, accept and report keep RunTypes.
LEMMA LateRunTypes == ControlOK /\ RunTypes /\ LateStages => RunTypes'
<1> SUFFICES ASSUME ControlOK, RunTypes, LateStages PROVE RunTypes'
  OBVIOUS
<1>1. CASE RunVerifier \/ RunAcceptance
  <2>1. CASE Return(Passed)
    BY <1>1, <2>1, ReturnType, ReasonsOK DEF RunVerifier, RunAcceptance
  <2>2. CASE pc' = "remediate" /\ UNCHANGED <<queue, sliceRun, outcome>>
    BY <1>1, <2>2 DEF RunVerifier, RunAcceptance, RunTypes, BuildingPc
  <2>3. QED
    BY <1>1, <2>1, <2>2 DEF RunVerifier, RunAcceptance
<1>2. CASE Remediate
  BY <1>2, ReturnType, ReasonsOK DEF Remediate
<1>3. CASE NoRemediation
  BY <1>3, ReturnType, ReasonsOK DEF NoRemediation, durable, Reason, ControlOK
<1>4. CASE ReportStage
  BY <1>4, ReturnType, ReasonsOK DEF ReportStage
<1>5. QED
  BY <1>1, <1>2, <1>3, <1>4 DEF LateStages

\* Throws, crashes and resumes keep RunTypes.
LEMMA EnvironmentRunTypes == QueueTypes /\ RunTypes /\ Environment => RunTypes'
<1> SUFFICES ASSUME QueueTypes, RunTypes, Environment PROVE RunTypes'
  OBVIOUS
<1> USE DEF RunTypes, BuildingPc, CurrentSlice
<1>0. IdleRun \in RunRecord
  BY StartRunType DEF IdleRun
<1>1. CASE Throw
  BY <1>0, <1>1 DEF Throw, durable
<1>2. CASE Crash
  BY <1>0, <1>2, ReasonsOK DEF Crash, Restart
<1>3. CASE Resume
  BY <1>0, <1>3, RecoveredRunType, ReasonsOK DEF Resume, Restart, durable
<1>4. QED
  BY <1>1, <1>2, <1>3 DEF Environment

\* An event is spent one at a time.
LEMMA SpendType ==
  ASSUME spent \in [Event -> Nat], NEW e \in Event, Spend(e) PROVE spent' \in [Event -> Nat]
BY DEF Spend

\* Settings, retries and events keep their types.
LEMMA StepOtherTypes == OtherTypes /\ [Next]_vars => OtherTypes'
<1> SUFFICES ASSUME OtherTypes, [Next]_vars PROVE OtherTypes'
  OBVIOUS
<1> USE DEF OtherTypes
<1>1. CASE UNCHANGED vars
  BY <1>1 DEF vars, memory
<1>2. CASE PipelineLoop
  <2>1. CASE GateRetries
    BY <2>1, SpendType DEF GateRetries, memory, Event
  <2>2. CASE ~GateRetries
    BY <1>2, <2>2 DEF PipelineLoop, SaveStart, FinishRun, EnterStage, PassGate, GateRejects,
              GateApproves, Resync, StopOnEscalation, FollowEscalation, StopOnFail,
              CompleteStage, memory
  <2>3. QED
    BY <2>1, <2>2
<1>3. CASE EarlyStages
  BY <1>3 DEF EarlyStages, GoalsWithoutTask, GoalsStage, ResearchStage, DocumentStage,
              DesignStage, SkeletonEarlyPass, SkeletonFails, SkeletonBuilt, CarryForward,
              WriteSkeletonResults, ReviewStructure, BaselineEarlyPass, BaselineCheck, memory
<1>4. CASE SliceLoop
  BY <1>4 DEF SliceLoop, BuildQueue, ResumeQueue, ReconcileQueue, ClearFlag, SelectSlice,
              LoopPasses, SaveBuilding, PlanSlice, CheckFeasibility, ImplementSlice,
              CheckDone, CheckEvidence, AskForLoop, ReflectAndMarkDone, SaveDone,
              RequeueFailed, SaveRequeue, EscalateFailed, SaveEscalated,
              ClassifyEscalation, SubStep, SaveSliceRun, memory
<1>5. CASE LateStages
  <2>1. CASE Remediate
    BY <2>1, SpendType DEF Remediate, Event
  <2>2. CASE ~Remediate
    BY <1>5, <2>2 DEF LateStages, RunVerifier, RunAcceptance, NoRemediation, ReportStage
  <2>3. QED
    BY <2>1, <2>2
<1>6. CASE Environment
  BY <1>6, SpendType DEF Environment, Throw, Crash, Resume, Restart, Event
<1>7. QED
  BY <1>1, <1>2, <1>3, <1>4, <1>5, <1>6 DEF Next, Program, Terminated

\* The types are an invariant of the specification.
LEMMA AlwaysTypes == Spec => [](QueueTypes /\ RunTypes /\ OtherTypes)
<1>1. Init => QueueTypes /\ RunTypes /\ OtherTypes
  <2> SUFFICES ASSUME Init PROVE QueueTypes /\ RunTypes /\ OtherTypes
    OBVIOUS
  <2>1. QueueTypes
    BY NoQueueType DEF Init, QueueTypes
  <2>2. RunTypes
    BY StartRunType, ReasonsOK DEF Init, RunTypes, IdleRun, BuildingPc
  <2>3. OtherTypes
    BY DEF Init, OtherTypes
  <2>4. QED
    BY <2>1, <2>2, <2>3
<1>2. ControlOK /\ RunsOK /\ DesignInv /\ QueueTypes /\ RunTypes /\ OtherTypes /\ [Next]_vars
        => QueueTypes' /\ RunTypes' /\ OtherTypes'
  <2>1. RunTypes /\ UNCHANGED vars => RunTypes'
    BY DEF RunTypes, CurrentSlice, vars, memory, durable
  <2>2. QED
    BY <2>1, StepQueueTypes, PipelineRunTypes, EarlyRunTypes, SliceLoopRunTypes,
       LateRunTypes, EnvironmentRunTypes, StepOtherTypes DEF Next, Program, Terminated
<1>3. QED
  BY <1>1, <1>2, AlwaysControlOK, RunsAlwaysOK, AlwaysDesignInv, PTL DEF Spec

\* Every variable always holds what the code keeps there: above all, whatever
\* is written to slice-queue.md by whichever stage is a queue, and a slice is
\* named wherever one is being built.
THEOREM TypesAreCorrect == Spec => []TypeOK
<1>1. ControlOK /\ RunsOK /\ StagesOK /\ DesignInv /\ QueueTypes /\ RunTypes /\ OtherTypes
        => TypeOK
  BY DEF ControlOK, RunsOK, StagesOK, DesignInv, QueueTypes, RunTypes, OtherTypes, TypeOK,
         IsQueue
<1>2. QED
  BY <1>1, AlwaysControlOK, RunsAlwaysOK, AlwaysStagesOK, AlwaysDesignInv, AlwaysTypes, PTL

-----------------------------------------------------------------------------
(***************************************************************************)
(* Without torn writes: state.json is there from the first save on, and    *)
(* with it everything that is inferred only when it is not.                *)
(***************************************************************************)

StateKept ==
  stateFile = None => /\ pc \in {"boot", "down"}
                      /\ ~files.goals
                      /\ queueFile = None
                      /\ run.nextStage = "goals"

\* What is saved is a Run.
LEMMA SavesRuns ==
  ASSUME RunTypes, RunTypes', Program, stateFile # None \/ pc = "boot" PROVE stateFile' # None
<1>1. stateFile' = stateFile \/ stateFile' \in {run, run', sliceRun, ClearReconcile(snap)}
  <2>1. CASE PipelineLoop
    BY <2>1 DEF PipelineLoop, SaveStart, FinishRun, EnterStage, PassGate, GateRejects,
              GateApproves, GateRetries, Resync, StopOnEscalation, FollowEscalation,
              StopOnFail, CompleteStage, durable
  <2>2. CASE EarlyStages
    BY <2>2 DEF EarlyStages, GoalsWithoutTask, GoalsStage, ResearchStage, DocumentStage,
              DesignStage, SkeletonEarlyPass, SkeletonFails, SkeletonBuilt, CarryForward,
              WriteSkeletonResults, ReviewStructure, BaselineEarlyPass, BaselineCheck, durable
  <2>3. CASE SliceLoop
    BY <2>3 DEF SliceLoop, BuildQueue, ResumeQueue, ReconcileQueue, ClearFlag, SelectSlice,
              LoopPasses, SaveBuilding, PlanSlice, CheckFeasibility, ImplementSlice,
              CheckDone, CheckEvidence, AskForLoop, ReflectAndMarkDone, SaveDone,
              RequeueFailed, SaveRequeue, EscalateFailed, SaveEscalated,
              ClassifyEscalation, SubStep, SaveSliceRun, durable
  <2>4. CASE LateStages
    BY <2>4 DEF LateStages, RunVerifier, RunAcceptance, Remediate, NoRemediation,
                ReportStage, durable
  <2>5. QED
    BY <2>1, <2>2, <2>3, <2>4 DEF Program
<1>2. {run, run', sliceRun, ClearReconcile(snap)} \subseteq RunRecord
  BY ClearReconcileType DEF RunTypes
<1>3. CASE stateFile # None
  BY <1>1, <1>2, <1>3, NoneAssumption
<1>4. CASE pc = "boot"
  <2>1. SaveStart
    BY <1>4 DEF Program, PipelineLoop, SaveStart, FinishRun, EnterStage, PassGate,
              GateRejects, GateApproves, GateRetries, AtGate, Resync, StopOnEscalation,
              FollowEscalation, StopOnFail, CompleteStage,
              EarlyStages, GoalsWithoutTask, GoalsStage, ResearchStage, DocumentStage,
              DesignStage, SkeletonEarlyPass, SkeletonFails, SkeletonBuilt, CarryForward,
              WriteSkeletonResults, ReviewStructure, BaselineEarlyPass, BaselineCheck,
              SliceLoop, BuildQueue, ResumeQueue, ReconcileQueue, ClearFlag, SelectSlice,
              LoopPasses, SaveBuilding, PlanSlice, CheckFeasibility, ImplementSlice,
              CheckDone, CheckEvidence, AskForLoop, ReflectAndMarkDone, SaveDone,
              RequeueFailed, SaveRequeue, EscalateFailed, SaveEscalated,
              ClassifyEscalation, SubStep, SaveSliceRun,
              LateStages, RunVerifier, RunAcceptance, Remediate, NoRemediation,
              ReportStage, AtStage
  <2>2. QED
    BY <1>2, <2>1, NoneAssumption DEF SaveStart
<1>5. QED
  BY <1>3, <1>4

\* Nothing but the first save happens before it.
LEMMA ProgramStarts == ASSUME Program PROVE pc \notin {"down", "stopped", "completed"}
BY DEF Program, PipelineLoop, SaveStart, FinishRun, EnterStage, PassGate,
       GateRejects, GateApproves, GateRetries, AtGate, Resync, StopOnEscalation,
       FollowEscalation, StopOnFail, CompleteStage,
       EarlyStages, GoalsWithoutTask, GoalsStage, ResearchStage, DocumentStage,
       DesignStage, SkeletonEarlyPass, SkeletonFails, SkeletonBuilt, CarryForward,
       WriteSkeletonResults, ReviewStructure, BaselineEarlyPass, BaselineCheck,
       SliceLoop, BuildQueue, ResumeQueue, ReconcileQueue, ClearFlag, SelectSlice,
       LoopPasses, SaveBuilding, PlanSlice, CheckFeasibility, ImplementSlice,
       CheckDone, CheckEvidence, AskForLoop, ReflectAndMarkDone, SaveDone,
       RequeueFailed, SaveRequeue, EscalateFailed, SaveEscalated,
       ClassifyEscalation, SubStep, SaveSliceRun,
       LateStages, RunVerifier, RunAcceptance, Remediate, NoRemediation,
       ReportStage, AtStage

\* A process that has saved its start finds state.json, whatever a crash left.
Saved == stateFile = None => pc \in {"boot", "down"}

\* Every step keeps Saved.
LEMMA StepSaved == RunTypes /\ RunTypes' /\ Saved /\ [Next]_vars => Saved'
<1> SUFFICES ASSUME RunTypes, RunTypes', Saved, [Next]_vars PROVE Saved'
  OBVIOUS
<1> USE DEF Saved
<1>1. CASE Program
  BY <1>1, SavesRuns, ProgramStarts
<1>2. CASE Throw
  BY <1>2 DEF Throw, AtGate, StagePc, SliceLoopPc, durable
<1>3. CASE Crash \/ Resume
  BY <1>3 DEF Crash, Resume
<1>4. CASE UNCHANGED vars
  BY <1>4 DEF vars, durable
<1>5. QED
  BY <1>1, <1>2, <1>3, <1>4 DEF Next, Environment, Terminated

\* Saved is an invariant.
LEMMA AlwaysSaved == Spec => []Saved
<1>1. Init => Saved
  BY DEF Init, Saved
<1>2. (RunTypes /\ Saved) /\ RunTypes' /\ [Next]_vars => Saved'
  BY StepSaved
<1>3. QED
  BY <1>1, <1>2, AlwaysTypes, PTL DEF Spec

\* Every step keeps StateKept.
LEMMA StepStateKept ==
  ~TornWrites /\ RunTypes /\ RunTypes' /\ StateKept /\ [Next]_vars => StateKept'
<1> SUFFICES ASSUME ~TornWrites, RunTypes, RunTypes', StateKept, [Next]_vars PROVE StateKept'
  OBVIOUS
<1> USE DEF StateKept
<1>1. CASE Program
  BY <1>1, SavesRuns, ProgramStarts
<1>2. CASE Throw
  BY <1>2 DEF Throw, AtGate, StagePc, SliceLoopPc, durable
<1>3. CASE Crash
  BY <1>3 DEF Crash, Restart, IdleRun, StartRun
<1>4. CASE Resume
  BY <1>4 DEF Resume, Restart, RecoveredRun, StartRun, durable
<1>5. CASE UNCHANGED vars
  BY <1>5 DEF vars, durable, memory
<1>6. QED
  BY <1>1, <1>2, <1>3, <1>4, <1>5 DEF Next, Environment, Terminated

\* StateKept is an invariant when no write is torn.
LEMMA AlwaysStateKept == ~TornWrites /\ Spec => []StateKept
<1> SUFFICES ASSUME ~TornWrites PROVE Spec => []StateKept
  OBVIOUS
<1>1. Init => StateKept
  BY DEF Init, StateKept, StartRun
<1>2. (RunTypes /\ StateKept) /\ RunTypes' /\ [Next]_vars => StateKept'
  BY StepStateKept
<1>3. QED
  BY <1>1, <1>2, AlwaysTypes, PTL DEF Spec

-----------------------------------------------------------------------------
(***************************************************************************)
(* What the slice loop holds is what is in the file, and a slice that is   *)
(* current is being built there.  Without torn writes the file is there    *)
(* from the slice loop on.                                                 *)
(***************************************************************************)

AfterLoop == {"verify", "accept", "report", "done"}

Queued(stage) == ~TornWrites /\ stage \in AfterLoop => queueFile # None

HoldInv ==
  /\ pc \in SliceLoopPc => queueFile # None
  /\ pc \in SliceLoopPc \ {"select"} => queue = queueFile
  /\ pc = "select" => queue \in {queueFile, ReadBack(queueFile)}
  /\ pc \in BuildingPc => CurrentSlice \in IdsWith(queueFile, {"building"})
  /\ pc = "carryForward" => Len(design.slices) <= 2
  /\ Queued(run.nextStage) /\ Queued(snap.nextStage)
  /\ stateFile # None => Queued(stateFile.nextStage)
  /\ pc \in {"gate", "resync", "decide"} /\ CurrentStage = "slice-loop" =>
       Queued("verify")

\* The file never goes away, but for a torn write.
LEMMA QueueStays ==
  ASSUME ControlOK, DesignInv, QueueTypes, [Next]_vars, Program \/ ~TornWrites
  PROVE  /\ queueFile # None => queueFile' # None
         /\ QueueWrites => queueFile' # None
BY WritesQueues, OthersWriteNothing, NoneAssumption

\* The slice that is taken is being built in the queue that is written.
LEMMA TakenIsBuilding ==
  ASSUME NEW q \in Seq(Slice), HasReady(Promote(q))
  PROVE  FirstReady(Promote(q)).id
           \in IdsWith(MarkBuilding(Promote(q), FirstReady(Promote(q)).id), {"building"})
<1> DEFINE p == Promote(q)
           id == FirstReady(p).id
<1>1. p \in Seq(Slice) /\ HasReady(p)
  BY MutationTypes
<1> HIDE DEF p
<1>2. PICK i \in DOMAIN p : FirstReady(p) = p[i]
  BY <1>1, FirstReadyFacts
<1>3. "building" \in Status
  BY DEF Status
<1>4. /\ SameSlices(p, MarkBuilding(p, id))
      /\ MarkBuilding(p, id)[i].status = "building"
  BY <1>1, <1>2, <1>3, SetStatusFacts DEF MarkBuilding
<1>5. DOMAIN MarkBuilding(p, id) = DOMAIN p /\ MarkBuilding(p, id)[i].id = id
  BY <1>1, <1>2, <1>4, SameDomain DEF SameSlices
<1> HIDE DEF id
<1>6. id \in IdsWith(MarkBuilding(p, id), {"building"})
  BY <1>2, <1>4, <1>5 DEF IdsWith
<1>7. QED
  BY <1>6 DEF p, id

\* The pipeline loop keeps HoldInv: it gets past the slice loop only from it.
LEMMA PipelineHolds ==
  ControlOK /\ RunsOK /\ StagesOK /\ HoldInv /\ PipelineLoop => HoldInv'
<1> SUFFICES ASSUME ControlOK, RunsOK, StagesOK, HoldInv, PipelineLoop PROVE HoldInv'
  OBVIOUS
<1> USE DEF HoldInv, Queued, AfterLoop, CurrentStage, CurrentSlice, SliceLoopPc, BuildingPc
<1>1. CASE SaveStart
  BY <1>1 DEF SaveStart, memory
<1>2. CASE FinishRun \/ PassGate \/ GateRejects \/ GateRetries
  BY <1>2 DEF FinishRun, PassGate, GateRejects, GateRetries, AtGate, memory, durable
<1>3. CASE EnterStage
  BY <1>3 DEF EnterStage, durable
<1>4. CASE GateApproves
  BY <1>4 DEF GateApproves, AtGate, durable
<1>5. CASE Resync
  BY <1>5 DEF Resync, Reload, durable
<1>6. CASE StopOnEscalation \/ StopOnFail
  BY <1>6 DEF StopOnEscalation, StopOnFail, memory
<1>7. CASE FollowEscalation
  BY <1>7, LoopBackOK DEF FollowEscalation, RunsOK
<1>8. CASE CompleteStage
  <2>1. CurrentStage \in Stage
    BY DEF RunsOK
  <2>2. Queued(NextStageFor(CurrentStage, outcome.remediation))
    BY <1>8, <2>1 DEF CompleteStage, NextStageFor, Stage
  <2>3. CompleteStageIn(run, CurrentStage, outcome.remediation).nextStage
          = NextStageFor(CurrentStage, outcome.remediation)
    BY DEF CompleteStageIn, RunsOK, RunOK, RunFields
  <2>4. QED
    BY <1>8, <2>2, <2>3 DEF CompleteStage
<1>9. QED
  BY <1>1, <1>2, <1>3, <1>4, <1>5, <1>6, <1>7, <1>8 DEF PipelineLoop

\* The stages before the slice loop keep HoldInv.
LEMMA EarlyHolds ==
  ControlOK /\ HoldInv /\ EarlyStages /\ (queueFile # None => queueFile' # None) => HoldInv'
<1> SUFFICES ASSUME ControlOK, HoldInv, EarlyStages, queueFile # None => queueFile' # None
             PROVE  HoldInv'
  OBVIOUS
<1> USE DEF HoldInv, Queued, CurrentStage, CurrentSlice, SliceLoopPc, BuildingPc, AtStage,
            Return
<1>1. CASE GoalsWithoutTask \/ SkeletonEarlyPass \/ SkeletonFails \/ BaselineEarlyPass
  BY <1>1 DEF GoalsWithoutTask, SkeletonEarlyPass, SkeletonFails, BaselineEarlyPass, durable
<1>2. CASE GoalsStage \/ ResearchStage
  BY <1>2 DEF GoalsStage, ResearchStage, DocumentStage
<1>3. CASE DesignStage \/ BaselineCheck
  BY <1>3 DEF DesignStage, BaselineCheck
<1>4. CASE SkeletonBuilt
  BY <1>4 DEF SkeletonBuilt, durable, memory
<1>5. CASE CarryForward \/ WriteSkeletonResults \/ ReviewStructure
  BY <1>5 DEF CarryForward, WriteSkeletonResults, ReviewStructure, memory, ControlOK,
              SkeletonPc
<1>6. QED
  BY <1>1, <1>2, <1>3, <1>4, <1>5 DEF EarlyStages

\* The slice loop keeps HoldInv: it works on what it wrote or read.
LEMMA SliceLoopHolds ==
  ControlOK /\ StagesOK /\ RunsOK /\ QueueTypes /\ RunTypes /\ HoldInv /\ SliceLoop
    /\ (queueFile # None => queueFile' # None) /\ (QueueWrites => queueFile' # None)
    => HoldInv'
<1> SUFFICES ASSUME ControlOK, StagesOK, RunsOK, QueueTypes, RunTypes, HoldInv, SliceLoop,
                    queueFile # None => queueFile' # None, QueueWrites => queueFile' # None
             PROVE  HoldInv'
  OBVIOUS
<1> USE DEF HoldInv, Queued, CurrentStage, CurrentSlice, SliceLoopPc, BuildingPc, AtStage
<1>1. CASE BuildQueue
  BY <1>1 DEF BuildQueue, EnterLoop, Return, QueueWrites
<1>2. CASE ResumeQueue
  BY <1>2 DEF ResumeQueue, EnterLoop, durable
<1>3. CASE ReconcileQueue
  BY <1>3 DEF ReconcileQueue
<1>4. CASE ClearFlag
  BY <1>4, SliceRunOK DEF ClearFlag, EnterLoop, RunsOK
<1>5. CASE SelectSlice
  <2> DEFINE id == FirstReady(Promote(queue)).id
  <2>1. id \in IdsWith(MarkBuilding(Promote(queue), id), {"building"})
    BY <1>5, TakenIsBuilding DEF SelectSlice, QueueTypes
  <2>2. /\ queueFile' = MarkBuilding(Promote(queue), id) /\ queue' = queueFile'
        /\ sliceRun' = MarkSliceBuilding(sliceRun, id) /\ pc' = "saveBuilding"
        /\ UNCHANGED <<run, snap, stateFile>>
    BY <1>5 DEF SelectSlice, WriteQueue
  <2> HIDE DEF id
  <2>3. sliceRun'.currentSlice = id
    BY <2>2 DEF MarkSliceBuilding, RunTypes, RunRecord
  <2>4. QED
    BY <1>5, <2>1, <2>2, <2>3 DEF QueueWrites
<1>6. CASE LoopPasses \/ ClassifyEscalation
  BY <1>6 DEF LoopPasses, ClassifyEscalation, Return, durable
<1>7. CASE SaveBuilding \/ SaveDone \/ SaveRequeue \/ SaveEscalated
  BY <1>7 DEF SaveBuilding, SaveDone, SaveRequeue, SaveEscalated, SaveSliceRun, memory,
              StagesOK, ControlOK
<1>8. CASE PlanSlice \/ CheckFeasibility \/ ImplementSlice \/ CheckDone \/ CheckEvidence
           \/ AskForLoop
  BY <1>8 DEF PlanSlice, CheckFeasibility, ImplementSlice, CheckDone, CheckEvidence,
              AskForLoop, SubStep, memory, durable
<1>9. CASE ReflectAndMarkDone \/ RequeueFailed \/ EscalateFailed
  BY <1>9 DEF ReflectAndMarkDone, RequeueFailed, EscalateFailed, WriteQueue, QueueWrites
<1>10. QED
  BY <1>1, <1>2, <1>3, <1>4, <1>5, <1>6, <1>7, <1>8, <1>9 DEF SliceLoop

\* Verify, accept and report keep HoldInv: the file is there.
LEMMA LateHolds ==
  ControlOK /\ HoldInv /\ LateStages /\ (queueFile # None => queueFile' # None) => HoldInv'
<1> SUFFICES ASSUME ControlOK, HoldInv, LateStages, queueFile # None => queueFile' # None
             PROVE  HoldInv'
  OBVIOUS
<1> USE DEF HoldInv, Queued, CurrentStage, CurrentSlice, SliceLoopPc, BuildingPc, AtStage,
            Return
<1>1. CASE RunVerifier \/ RunAcceptance \/ ReportStage
  BY <1>1 DEF RunVerifier, RunAcceptance, ReportStage
<1>2. CASE Remediate \/ NoRemediation
  BY <1>2 DEF Remediate, NoRemediation, durable, ControlOK
<1>3. QED
  BY <1>1, <1>2 DEF LateStages

\* Throws, crashes and resumes keep HoldInv.
LEMMA EnvironmentHolds ==
  (~TornWrites => StateKept) /\ HoldInv /\ Environment => HoldInv'
<1> SUFFICES ASSUME ~TornWrites => StateKept, HoldInv, Environment PROVE HoldInv'
  OBVIOUS
<1> USE DEF HoldInv, Queued, CurrentStage, CurrentSlice, SliceLoopPc, BuildingPc, AfterLoop
<1>1. CASE Throw
  BY <1>1 DEF Throw, durable
<1>2. IdleRun.nextStage = "goals" /\ StartRun(FALSE).nextStage = "goals"
  BY DEF IdleRun, StartRun
<1>3. CASE Crash
  BY <1>2, <1>3 DEF Crash, Restart
<1>4. CASE Resume
  <2>1. ~TornWrites /\ stateFile = None => RecoveredRun = StartRun(FALSE)
    BY DEF StateKept, RecoveredRun
  <2>2. stateFile # None => RecoveredRun = stateFile
    BY DEF RecoveredRun
  <2>3. QED
    BY <1>2, <1>4, <2>1, <2>2 DEF Resume, Restart, durable
<1>5. QED
  BY <1>1, <1>3, <1>4 DEF Environment

\* HoldInv is an invariant.
LEMMA AlwaysHolds == Spec => []HoldInv
<1>1. Init => HoldInv
  BY DEF Init, HoldInv, Queued, AfterLoop, StartRun, IdleRun, SliceLoopPc, BuildingPc
<1>2. ControlOK /\ RunsOK /\ StagesOK /\ DesignInv /\ QueueTypes /\ RunTypes
        /\ (~TornWrites => StateKept) /\ HoldInv /\ [Next]_vars => HoldInv'
  <2>1. HoldInv /\ UNCHANGED vars => HoldInv'
    BY DEF HoldInv, Queued, CurrentStage, CurrentSlice, vars, memory, durable
  <2>2. QED
    BY <2>1, QueueStays, PipelineHolds, EarlyHolds, SliceLoopHolds, LateHolds,
       EnvironmentHolds DEF Next, Program, Terminated
<1>3. Spec => [](~TornWrites => StateKept)
  <2>1. CASE TornWrites
    <3>1. ~TornWrites => StateKept
      BY <2>1
    <3>2. QED
      BY <3>1, PTL
  <2>2. CASE ~TornWrites
    BY <2>2, AlwaysStateKept, PTL
  <2>3. QED
    BY <2>1, <2>2
<1>4. QED
  BY <1>1, <1>2, <1>3, AlwaysControlOK, RunsAlwaysOK, AlwaysStagesOK, AlwaysDesignInv,
     AlwaysTypes, PTL DEF Spec

-----------------------------------------------------------------------------
(***************************************************************************)
(* Attempts: what a queue records beyond what a Run counts.                *)
(***************************************************************************)

\* Each slice of q has at most n attempts that r does not count.
Counted(q, r, n) == \A i \in DOMAIN q : q[i].requeueCount <= r.requeueCounts[q[i].id] + n

\* The numbers that are compared.
LEMMA CountTypes ==
  ASSUME NEW q \in Seq(Slice), NEW r \in RunRecord, NEW i \in DOMAIN q
  PROVE  q[i] \in Slice /\ q[i].requeueCount \in Nat /\ r.requeueCounts[q[i].id] \in Nat
<1>1. q[i] \in Slice
  BY QueueElements
<1>2. QED
  BY <1>1 DEF Slice, RunRecord

\* More attempts may be missing.
LEMMA CountedMore ==
  ASSUME NEW q \in Seq(Slice), NEW r \in RunRecord, NEW n \in Nat, Counted(q, r, n)
  PROVE  Counted(q, r, n + 1)
BY CountTypes DEF Counted

\* Another Run may have the same counts.
LEMMA CountedSame ==
  ASSUME NEW q, NEW r, NEW u, NEW n, Counted(q, r, n), u.requeueCounts = r.requeueCounts
  PROVE  Counted(q, u, n)
BY DEF Counted

\* Each slice of u is one of q, as far as attempts are concerned.
LEMMA CountedPart ==
  ASSUME NEW q, NEW u, NEW r, NEW n, Counted(q, r, n),
         \A k \in DOMAIN u : \E i \in DOMAIN q :
           u[k].id = q[i].id /\ u[k].requeueCount = q[i].requeueCount
  PROVE  Counted(u, r, n)
BY DEF Counted

\* Nothing has been attempted.
LEMMA CountedFresh ==
  ASSUME NEW q \in Seq(Slice), NEW r \in RunRecord, NEW n \in Nat,
         \A i \in DOMAIN q : q[i].requeueCount = 0
  PROVE  Counted(q, r, n)
BY CountTypes DEF Counted

\* A queue read back, and the slice loop's mutations but the requeue.
LEMMA CountedMutations ==
  ASSUME NEW q \in Seq(Slice), NEW r, NEW n, Counted(q, r, n), NEW id
  PROVE  /\ Counted(ReadBack(q), r, n)
         /\ Counted(Promote(q), r, n)
         /\ \A st \in Status : Counted(SetStatus(q, id, st), r, n)
<1>1. Counted(ReadBack(q), r, n)
  BY ReadBackFacts, CountedPart
<1>2. /\ SameSlices(q, Promote(q))
      /\ \A i \in DOMAIN q : Promote(q)[i].requeueCount = q[i].requeueCount
  BY PromoteFacts
<1>3. Counted(Promote(q), r, n)
  <2>1. DOMAIN Promote(q) = DOMAIN q
    BY <1>2, SameDomain
  <2>2. QED
    BY <1>2, <2>1, CountedPart DEF SameSlices
<1>4. ASSUME NEW st \in Status PROVE Counted(SetStatus(q, id, st), r, n)
  <2>1. /\ SameSlices(q, SetStatus(q, id, st))
        /\ \A i \in DOMAIN q : SetStatus(q, id, st)[i].requeueCount = q[i].requeueCount
    BY SetStatusFacts
  <2>2. DOMAIN SetStatus(q, id, st) = DOMAIN q
    BY <2>1, SameDomain
  <2>3. QED
    BY <2>1, <2>2, CountedPart DEF SameSlices
<1>5. QED
  BY <1>1, <1>3, <1>4

\* A slice taken, done or given up.
LEMMA CountedLoop ==
  ASSUME NEW q \in Seq(Slice), NEW r, NEW n, Counted(q, r, n), NEW id
  PROVE  /\ Counted(MarkBuilding(Promote(q), id), r, n)
         /\ Counted(MarkDone(q, id), r, n)
         /\ Counted(Escalate(q, id), r, n)
<1>1. Promote(q) \in Seq(Slice) /\ Counted(Promote(q), r, n)
  BY MutationTypes, CountedMutations
<1>2. {"building", "done", "escalated"} \subseteq Status
  BY DEF Status
<1> DEFINE p == Promote(q)
<1>3. Counted(MarkBuilding(p, id), r, n)
  <2> HIDE DEF p
  <2>1. p \in Seq(Slice) /\ Counted(p, r, n)
    BY <1>1 DEF p
  <2>2. Counted(SetStatus(p, id, "building"), r, n)
    BY <1>2, <2>1, CountedMutations
  <2>3. QED
    BY <2>2 DEF MarkBuilding
<1>4. QED
  BY <1>2, <1>3, CountedMutations DEF MarkDone, Escalate

\* A requeue adds one attempt to the queue, and counts it.
LEMMA CountedRequeue ==
  ASSUME NEW q \in Seq(Slice), NEW r \in RunRecord, NEW n \in Nat, Counted(q, r, n),
         NEW id \in SliceId
  PROVE  /\ Counted(Requeue(q, id), RequeueSlice(r, id), n)
         /\ Counted(Requeue(q, id), r, n + 1)
<1> DEFINE u == Requeue(q, id)
           counts == [r.requeueCounts EXCEPT ![id] = @ + 1]
<1>1. /\ u \in Seq(Slice) /\ DOMAIN u = DOMAIN q
      /\ \A i \in DOMAIN q :
           /\ u[i].id = q[i].id
           /\ u[i].requeueCount = IF q[i].id = id THEN q[i].requeueCount + 1
                                  ELSE q[i].requeueCount
  BY RequeueFacts, SameDomain DEF SameSlices
<1>2. RequeueSlice(r, id).requeueCounts = counts
  BY DEF RequeueSlice, RunRecord
<1>3. \A s \in SliceId : counts[s] = IF s = id THEN r.requeueCounts[s] + 1
                                     ELSE r.requeueCounts[s]
  BY DEF RunRecord
<1> HIDE DEF u, counts
<1>4. ASSUME NEW i \in DOMAIN q
      PROVE  /\ u[i].requeueCount <= counts[u[i].id] + n
             /\ u[i].requeueCount <= r.requeueCounts[u[i].id] + (n + 1)
  <2>1. /\ q[i].id \in SliceId /\ q[i].requeueCount \in Nat
        /\ r.requeueCounts[q[i].id] \in Nat
        /\ q[i].requeueCount <= r.requeueCounts[q[i].id] + n
    BY CountTypes DEF Counted, Slice
  <2>2. /\ u[i].id = q[i].id
        /\ u[i].requeueCount = IF q[i].id = id THEN q[i].requeueCount + 1
                               ELSE q[i].requeueCount
        /\ counts[q[i].id] = IF q[i].id = id THEN r.requeueCounts[q[i].id] + 1
                             ELSE r.requeueCounts[q[i].id]
    BY <1>1, <1>3, <2>1
  <2>3. QED
    BY <2>1, <2>2
<1>5. QED
  BY <1>1, <1>2, <1>4 DEF Counted, u

\* A new queue, and the queue of a tiny design.
LEMMA CountedNew ==
  ASSUME NEW d, IsDesign(d), NEW r \in RunRecord, NEW n \in Nat
  PROVE  Counted(BuildInitial(d), r, n) /\ Counted(AllDone(d), r, n)
<1>1. ParseDesign(d) \in Seq(Slice) /\ \A i \in DOMAIN ParseDesign(d) :
                                          ParseDesign(d)[i].requeueCount = 0
  BY ParseDesignFacts
<1>2. AllDone(d) \in Seq(Slice) /\ \A i \in DOMAIN AllDone(d) : AllDone(d)[i].requeueCount = 0
  BY AllDoneFacts DEF SameSlices
<1>3. QED
  BY <1>1, <1>2, CountedFresh DEF BuildInitial

\* A redesign keeps the attempts of what is done, and forgets the others.
LEMMA CountedReconcile ==
  ASSUME NEW q \in Seq(Slice), NEW r \in RunRecord, NEW n \in Nat, Counted(q, r, n),
         NEW d, IsDesign(d)
  PROVE  Counted(Reconcile(q, d), r, n)
<1>1. Reconcile(q, d) \in Seq(Slice) /\ IsReconciliation(Reconcile(q, d), q, d)
  BY ReconcileFacts
<1>2. ParseDesign(d) \in Seq(Slice) /\ Counted(ParseDesign(d), r, n)
      /\ DOMAIN ParseDesign(d) = DOMAIN d.slices
  BY CountedNew, ParseDesignFacts DEF BuildInitial
<1>3. QED
  BY <1>1, <1>2 DEF IsReconciliation, Counted

\* A repair leaves the attempts of the slices as they are.
LEMMA CountedRemedy ==
  ASSUME NEW q \in Seq(Slice), NEW r \in RunRecord, NEW n \in Nat, Counted(q, r, n),
         NEW p, IsProposal(p)
  PROVE  Counted(ApplyRemediation(q, p).queue, r, n)
<1> DEFINE u == ApplyRemediation(q, p).queue
<1>1. PICK acc, new : RemedyOf(u, q, p, acc, new)
  BY ApplyRemediationFacts DEF IsProposal
<1> HIDE DEF u
<1>2. /\ acc \in Acc /\ SameSlices(q, acc.queue) /\ acc.queue \in Seq(Slice)
      /\ \A i \in DOMAIN q : acc.queue[i].requeueCount = q[i].requeueCount
  BY <1>1 DEF RemedyOf, AppliedInv, RemedyTypes, Acc
<1>3. DOMAIN acc.queue = DOMAIN q
  BY <1>2, SameDomain
<1>4. Counted(acc.queue, r, n)
  BY <1>2, <1>3, CountedPart DEF SameSlices
<1>5. new \in Seq(Slice) /\ Counted(new, r, n)
  BY <1>1, CountedFresh DEF RemedyOf, Added
<1>6. \A k \in DOMAIN u : \/ k \in DOMAIN acc.queue /\ u[k] = acc.queue[k]
                          \/ \E j \in DOMAIN new : u[k] = new[j]
  BY <1>1 DEF RemedyOf, IsConcat
<1>7. Counted(u, r, n)
  BY <1>4, <1>5, <1>6 DEF Counted
<1>8. QED
  BY <1>7 DEF u

-----------------------------------------------------------------------------
(***************************************************************************)
(* The queue file is at most as many attempts ahead of the Runs that will  *)
(* be read, or saved, as failures may take back, and one more while a      *)
(* requeue is being saved.                                                 *)
(***************************************************************************)

\* The Run whose counts a resume would start from.
SavedRun == Reload(stateFile, IdleRun)

Unsaved == IF pc = "saveRequeue" THEN Forgotten + 1 ELSE Forgotten

\* Where a stage has its snapshot before it, or may get it once more.
SnapshotPc == pc \in FreshPc \/ (pc = "gate" /\ outcome.cap)

AttemptsInv ==
  queueFile # None =>
    /\ Counted(queueFile, SavedRun, Unsaved)
    /\ pc \in SliceLoopPc \ {"clearFlag"} => Counted(queueFile, sliceRun, Forgotten)
    /\ SnapshotPc => Counted(queueFile, snap, Forgotten)
    /\ pc \in {"boot", "next", "decide"} => Counted(queueFile, run, Forgotten)

\* What the steps of the slice loop's own Run do to its counts.
LEMMA SameCounts ==
  ASSUME NEW r \in RunRecord, NEW s
  PROVE  /\ MarkSliceBuilding(r, s).requeueCounts = r.requeueCounts
         /\ MarkSliceDone(r, s).requeueCounts = r.requeueCounts
         /\ EscalateSlice(r, s).requeueCounts = r.requeueCounts
         /\ ClearReconcile(r).requeueCounts = r.requeueCounts
         /\ \A loop, fp : LoopBack(r, loop, fp).requeueCounts = r.requeueCounts
         /\ \A stage, remediation :
              CompleteStageIn(r, stage, remediation).requeueCounts = r.requeueCounts
BY DEF MarkSliceBuilding, MarkSliceDone, EscalateSlice, ClearReconcile, LoopBack,
       CompleteStageIn, RunRecord

\* Everything about the state of a step that the attempts depend on.
Settled == /\ ControlOK /\ RunsOK /\ StagesOK /\ DesignInv
           /\ QueueTypes /\ RunTypes /\ OtherTypes
           /\ Saved /\ HoldInv

\* What is forgotten is counted.
LEMMA ForgottenType ==
  ASSUME OtherTypes
  PROVE  /\ Forgets("crash") \in {1, MaxRequeue} /\ Forgets("throw") \in {1, MaxRequeue}
         /\ Forgotten \in Nat
<1>1. spent["crash"] \in Nat /\ spent["throw"] \in Nat
  BY DEF OtherTypes, Event
<1>2. Forgets("crash") \in {1, MaxRequeue} /\ Forgets("throw") \in {1, MaxRequeue}
  BY DEF Forgets
<1>3. \A m, n \in Nat : m * n \in Nat
  OBVIOUS
<1>4. Forgets("crash") \in Nat /\ Forgets("throw") \in Nat
  BY <1>2, CapAssumption
<1>5. QED
  BY <1>1, <1>2, <1>3, <1>4 DEF Forgotten

\* The types of what is compared.
LEMMA SettledFacts ==
  ASSUME Settled
  PROVE  /\ Forgotten \in Nat /\ Unsaved \in Nat
         /\ queueFile # None => queueFile \in Seq(Slice)
         /\ queue \in Seq(Slice)
         /\ run \in RunRecord /\ snap \in RunRecord /\ sliceRun \in RunRecord
         /\ SavedRun \in RunRecord
         /\ stateFile # None => SavedRun = stateFile
<1>1. SavedRun \in RunRecord
  BY StartRunType DEF SavedRun, Reload, IdleRun, Settled, RunTypes
<1>2. QED
  BY <1>1, ForgottenType DEF Settled, SavedRun, Reload, Unsaved, QueueTypes, RunTypes

\* A retry, a remediation and a resume are not failures.
LEMMA NoFailure ==
  ASSUME OtherTypes, UNCHANGED spent \/ \E e \in {"retry", "remediation", "resume"} : Spend(e)
  PROVE  Forgotten' = Forgotten
<1>1. UNCHANGED <<spent["crash"], spent["throw"]>>
  BY DEF OtherTypes, Spend, Event
<1>2. QED
  BY <1>1 DEF Forgotten, Forgets

\* A failure takes back what it may.
LEMMA OneFailure ==
  ASSUME OtherTypes, NEW e \in {"crash", "throw"}, Spend(e)
  PROVE  Forgotten' = Forgotten + Forgets(e)
<1> DEFINE c == Forgets("crash")
           t == Forgets("throw")
<1>1. c \in Nat /\ t \in Nat
  BY ForgottenType, CapAssumption
<1>2. spent["crash"] \in Nat /\ spent["throw"] \in Nat
  BY DEF OtherTypes, Event
<1>3. /\ spent'["crash"] = IF e = "crash" THEN spent["crash"] + 1 ELSE spent["crash"]
      /\ spent'["throw"] = IF e = "throw" THEN spent["throw"] + 1 ELSE spent["throw"]
  BY DEF OtherTypes, Spend, Event
<1>4. \A k, n \in Nat : k * (n + 1) = k * n + k /\ k * n \in Nat
  OBVIOUS
<1>5. Forgotten = c * spent["crash"] + t * spent["throw"]
  BY DEF Forgotten
<1>6. Forgotten' = c * spent'["crash"] + t * spent'["throw"]
  BY DEF Forgotten, Forgets
<1> HIDE DEF c, t
<1>7. CASE e = "crash"
  <2>1. Forgotten' = Forgotten + c
    BY <1>1, <1>2, <1>3, <1>4, <1>5, <1>6, <1>7
  <2>2. QED
    BY <1>7, <2>1 DEF c
<1>8. CASE e = "throw"
  <2>1. Forgotten' = Forgotten + t
    BY <1>1, <1>2, <1>3, <1>4, <1>5, <1>6, <1>8
  <2>2. QED
    BY <1>8, <2>1 DEF t
<1>9. QED
  BY <1>7, <1>8

\* The attempts of a slice are bounded by the cap and what failures forget.
LEMMA AttemptsAreFew ==
  ASSUME Settled, AttemptsInv PROVE AttemptsBounded
<1> SUFFICES ASSUME queueFile # None, NEW i \in DOMAIN queueFile
             PROVE  queueFile[i].requeueCount <= MaxRequeue + Forgotten
  BY DEF AttemptsBounded
<1>1. /\ queueFile \in Seq(Slice) /\ SavedRun \in RunRecord /\ sliceRun \in RunRecord
      /\ Forgotten \in Nat
  BY SettledFacts
<1>2. queueFile[i].id \in SliceId /\ queueFile[i].requeueCount \in Nat
  BY <1>1, CountTypes DEF Slice
<1>3. MaxRequeue \in Nat /\ RunOK(sliceRun) /\ RunOK(SavedRun)
  BY CapAssumption, StartRunOK DEF Settled, RunsOK, SavedRun, Reload, IdleRun
<1>4. /\ sliceRun.requeueCounts[queueFile[i].id] \in 0 .. MaxRequeue
      /\ SavedRun.requeueCounts[queueFile[i].id] \in 0 .. MaxRequeue
  BY <1>2, <1>3 DEF RunOK
<1>5. CASE pc = "saveRequeue"
  <2>1. queueFile[i].requeueCount <= sliceRun.requeueCounts[queueFile[i].id] + Forgotten
    BY <1>5 DEF AttemptsInv, Counted, SliceLoopPc
  <2>2. QED
    BY <1>1, <1>2, <1>3, <1>4, <2>1
<1>6. CASE pc # "saveRequeue"
  <2>1. queueFile[i].requeueCount <= SavedRun.requeueCounts[queueFile[i].id] + Forgotten
    BY <1>6 DEF AttemptsInv, Counted, Unsaved
  <2>2. QED
    BY <1>1, <1>2, <1>3, <1>4, <2>1
<1>7. QED
  BY <1>5, <1>6

\* A failure makes up for the attempt whose save it prevents, and one that may
\* take back everything for any Run it leaves.
LEMMA FailureForgets ==
  ASSUME Settled, AttemptsInv, queueFile # None, NEW k \in {1, MaxRequeue}
  PROVE  /\ Counted(queueFile, SavedRun, Forgotten + k)
         /\ k = MaxRequeue =>
              \A r \in RunRecord : Counted(queueFile, r, Forgotten + k)
<1>1. /\ queueFile \in Seq(Slice) /\ SavedRun \in RunRecord
      /\ Forgotten \in Nat /\ MaxRequeue \in Nat
  BY SettledFacts, CapAssumption
<1>2. ASSUME k = MaxRequeue, NEW r \in RunRecord
      PROVE  Counted(queueFile, r, Forgotten + k)
  <2> SUFFICES ASSUME NEW i \in DOMAIN queueFile
               PROVE  queueFile[i].requeueCount
                        <= r.requeueCounts[queueFile[i].id] + (Forgotten + k)
    BY DEF Counted
  <2>1. /\ queueFile[i].requeueCount \in Nat
        /\ r.requeueCounts[queueFile[i].id] \in Nat
    BY <1>1, CountTypes
  <2>2. queueFile[i].requeueCount <= MaxRequeue + Forgotten
    BY AttemptsAreFew DEF AttemptsBounded
  <2>3. QED
    BY <1>1, <1>2, <2>1, <2>2
<1>3. ASSUME k = 1 PROVE Counted(queueFile, SavedRun, Forgotten + k)
  BY <1>1, <1>3, CountedMore DEF AttemptsInv, Unsaved
<1>4. QED
  BY <1>1, <1>2, <1>3

\* The pipeline loop hands the counts of state.json on, and saves them again.
LEMMA PipelineAttempts == Settled /\ AttemptsInv /\ PipelineLoop => AttemptsInv'
<1> SUFFICES ASSUME Settled, AttemptsInv, PipelineLoop, queueFile' # None PROVE AttemptsInv'
  BY DEF AttemptsInv
<1>1. /\ UNCHANGED queueFile /\ (UNCHANGED spent \/ Spend("retry"))
      /\ pc' \notin SliceLoopPc /\ pc \notin SliceLoopPc
  BY DEF PipelineLoop, SaveStart, FinishRun, EnterStage, PassGate, GateRejects, AtGate,
         GateApproves, GateRetries, Resync, StopOnEscalation, FollowEscalation,
         StopOnFail, CompleteStage, durable, SliceLoopPc
<1>2. Forgotten' = Forgotten /\ Unsaved = Forgotten /\ Unsaved' = Forgotten
  <2>1. Forgotten' = Forgotten
    BY <1>1, NoFailure DEF Settled
  <2>2. QED
    BY <1>1, <2>1 DEF Unsaved, SliceLoopPc
<1>3. run \in RunRecord /\ run # None
  BY NoneAssumption DEF Settled, RunTypes
<1>4. /\ Counted(queueFile, SavedRun, Forgotten)
      /\ SnapshotPc => Counted(queueFile, snap, Forgotten)
      /\ pc \in {"boot", "next", "decide"} => Counted(queueFile, run, Forgotten)
  BY <1>1, <1>2 DEF AttemptsInv
<1>5. SUFFICES /\ Counted(queueFile, SavedRun', Forgotten)
               /\ SnapshotPc' => Counted(queueFile, snap', Forgotten)
               /\ pc' \in {"boot", "next", "decide"} => Counted(queueFile, run', Forgotten)
  BY <1>1, <1>2 DEF AttemptsInv
<1> USE DEF SavedRun, Reload, SnapshotPc, FreshPc
<1>6. CASE SaveStart \/ StopOnEscalation \/ StopOnFail
  BY <1>3, <1>4, <1>6 DEF SaveStart, StopOnEscalation, StopOnFail, memory
<1>7. CASE FinishRun \/ PassGate \/ GateRejects \/ GateRetries
  BY <1>4, <1>7 DEF FinishRun, PassGate, GateRejects, GateRetries, AtGate, memory, durable
<1>8. CASE EnterStage \/ GateApproves
  BY <1>4, <1>8 DEF EnterStage, GateApproves, durable
<1>9. CASE Resync
  BY <1>4, <1>9 DEF Resync, Settled, Saved, durable
<1>10. CASE FollowEscalation \/ CompleteStage
  <2>1. /\ run' # None /\ stateFile' = run' /\ pc = "decide" /\ pc' = "next"
        /\ run'.requeueCounts = run.requeueCounts
    <3>1. /\ stateFile' = run' /\ pc = "decide" /\ pc' = "next"
          /\ run'.requeueCounts = run.requeueCounts
      BY <1>3, <1>10, SameCounts DEF FollowEscalation, CompleteStage
    <3>2. run' \in RunRecord
      BY <1>10, PipelineRunTypes DEF Settled, RunTypes
    <3>3. QED
      BY <3>1, <3>2, NoneAssumption
  <2>2. Counted(queueFile, run', Forgotten)
    BY <1>4, <2>1, CountedSame
  <2>3. QED
    BY <2>1, <2>2
<1>11. QED
  BY <1>6, <1>7, <1>8, <1>9, <1>10 DEF PipelineLoop

\* The other stages save no Run, and write no attempts.
LEMMA StagesAttempts ==
  Settled /\ AttemptsInv /\ (EarlyStages \/ LateStages) => AttemptsInv'
<1> SUFFICES ASSUME Settled, AttemptsInv, EarlyStages \/ LateStages PROVE AttemptsInv'
  OBVIOUS
<1>1. /\ UNCHANGED <<stateFile, snap>> /\ (UNCHANGED spent \/ Spend("remediation"))
      /\ pc' \notin SliceLoopPc /\ pc \notin SliceLoopPc
      /\ pc \in FreshPc /\ pc' \notin {"boot", "next", "decide"}
  BY DEF EarlyStages, GoalsWithoutTask, GoalsStage, ResearchStage, DocumentStage,
         DesignStage, SkeletonEarlyPass, SkeletonFails, SkeletonBuilt, CarryForward,
         WriteSkeletonResults, ReviewStructure, BaselineEarlyPass, BaselineCheck,
         LateStages, RunVerifier, RunAcceptance, Remediate, NoRemediation, ReportStage,
         AtStage, Return, durable, memory, SliceLoopPc, FreshPc
<1>2. Forgotten' = Forgotten /\ Unsaved = Forgotten /\ Unsaved' = Forgotten
  <2>1. Forgotten' = Forgotten
    BY <1>1, NoFailure DEF Settled
  <2>2. QED
    BY <1>1, <2>1 DEF Unsaved, SliceLoopPc
<1>3. Forgotten \in Nat /\ SavedRun \in RunRecord /\ snap \in RunRecord /\ SavedRun' = SavedRun
  BY <1>1, SettledFacts DEF SavedRun
<1> DEFINE Held(q) == Counted(q, SavedRun, Forgotten) /\ Counted(q, snap, Forgotten)
<1>4. queueFile # None => Held(queueFile)
  BY <1>1, <1>2 DEF AttemptsInv, SnapshotPc
<1>5. SUFFICES ASSUME queueFile' # None PROVE Held(queueFile')
  BY <1>1, <1>2, <1>3 DEF AttemptsInv
<1>6. CASE CarryForward
  <2>1. IsDesign(design) /\ queueFile' = AllDone(design)
    BY <1>6, WritersDesigned DEF CarryForward, Settled
  <2>2. QED
    BY <1>3, <2>1, CountedNew
<1>7. CASE Remediate
  <2>1. PICK p \in Proposals : queueFile' = ApplyRemediation(QueueOnDisk, p).queue
    BY <1>7 DEF Remediate
  <2>2. IsProposal(p)
    BY ProposalAssumption
  <2>3. QueueOnDisk \in Seq(Slice)
    BY QueueOnDiskType DEF Settled
  <2>4. Held(QueueOnDisk)
    <3>1. CASE queueFile = None
      BY <3>1 DEF QueueOnDisk, NoQueue, Counted
    <3>2. CASE queueFile # None
      BY <1>4, <3>2, CountedMutations, SettledFacts DEF QueueOnDisk
    <3>3. QED
      BY <3>1, <3>2
  <2>5. QED
    BY <1>3, <2>1, <2>2, <2>3, <2>4, CountedRemedy
<1>8. CASE UNCHANGED queueFile
  BY <1>4, <1>5, <1>8
<1>9. CarryForward \/ Remediate \/ UNCHANGED queueFile
  BY DEF EarlyStages, GoalsWithoutTask, GoalsStage, ResearchStage, DocumentStage,
         DesignStage, SkeletonEarlyPass, SkeletonFails, SkeletonBuilt,
         WriteSkeletonResults, ReviewStructure, BaselineEarlyPass, BaselineCheck,
         LateStages, RunVerifier, RunAcceptance, NoRemediation, ReportStage, durable
<1>10. QED
  BY <1>6, <1>7, <1>8, <1>9

\* The slice loop counts each attempt: in the queue first, then in the Run it saves.
LEMMA SliceLoopAttempts == Settled /\ AttemptsInv /\ SliceLoop => AttemptsInv'
<1> SUFFICES ASSUME Settled, AttemptsInv, SliceLoop, queueFile' # None PROVE AttemptsInv'
  BY DEF AttemptsInv
<1>0. /\ Forgotten \in Nat /\ Unsaved \in Nat /\ sliceRun \in RunRecord /\ snap \in RunRecord
      /\ SavedRun \in RunRecord
  BY SettledFacts
<1>1. Forgotten' = Forgotten
  <2>1. UNCHANGED spent
    BY DEF SliceLoop, BuildQueue, ResumeQueue, ReconcileQueue, ClearFlag, SelectSlice,
           LoopPasses, SaveBuilding, PlanSlice, CheckFeasibility, ImplementSlice, CheckDone,
           CheckEvidence, AskForLoop, ReflectAndMarkDone, SaveDone, RequeueFailed,
           SaveRequeue, EscalateFailed, SaveEscalated, ClassifyEscalation, SubStep,
           SaveSliceRun, memory
  <2>2. QED
    BY <2>1, NoFailure DEF Settled
<1>2. pc' \in SliceLoopPc \/ (pc' = "gate" /\ ~outcome'.cap)
  <2>1. ~Passed.cap /\ \A loop, reason : ~Escalation(loop, reason).cap
    BY DEF Passed, Failed, Result, Escalation
  <2>2. CASE BuildQueue \/ LoopPasses \/ ClassifyEscalation
    BY <2>1, <2>2 DEF BuildQueue, LoopPasses, ClassifyEscalation, EnterLoop, Return,
                      SliceLoopPc
  <2>3. CASE ~(BuildQueue \/ LoopPasses \/ ClassifyEscalation)
    BY <2>3 DEF SliceLoop, ResumeQueue, ReconcileQueue, ClearFlag, SelectSlice, SaveBuilding,
                PlanSlice, CheckFeasibility, ImplementSlice, CheckDone, CheckEvidence,
                AskForLoop, ReflectAndMarkDone, SaveDone, RequeueFailed, SaveRequeue,
                EscalateFailed, SaveEscalated, SubStep, SaveSliceRun, EnterLoop, WriteQueue,
                SliceLoopPc
  <2>4. QED
    BY <2>2, <2>3
<1>3. SUFFICES /\ Counted(queueFile', SavedRun', Unsaved')
               /\ pc' \in SliceLoopPc \ {"clearFlag"} =>
                    Counted(queueFile', sliceRun', Forgotten)
               /\ pc' = "clearFlag" => Counted(queueFile', snap', Forgotten)
  BY <1>1, <1>2 DEF AttemptsInv, SnapshotPc, FreshPc, SliceLoopPc
<1>4. Unsaved' = IF pc' = "saveRequeue" THEN Forgotten + 1 ELSE Forgotten
  BY <1>1 DEF Unsaved
<1>5. pc # "saveRequeue" /\ queueFile # None => Counted(queueFile, SavedRun, Forgotten)
  BY DEF AttemptsInv, Unsaved
<1>6. UNCHANGED stateFile => SavedRun' = SavedRun
  BY DEF SavedRun
<1>7. CASE BuildQueue
  <2>1. IsDesign(design) /\ queueFile' = BuildInitial(design) /\ UNCHANGED <<stateFile, snap>>
    BY <1>7, WritersDesigned DEF BuildQueue, Settled
  <2>2. Counted(queueFile', SavedRun, Forgotten) /\ Counted(queueFile', snap, Forgotten)
    BY <1>0, <2>1, CountedNew
  <2>3. pc' = "gate" \/ (pc' = "select" /\ sliceRun' = snap)
    BY <1>7 DEF BuildQueue, EnterLoop, Return
  <2>4. QED
    BY <1>4, <1>6, <2>1, <2>2, <2>3 DEF SliceLoopPc
<1>8. CASE ResumeQueue
  <2>1. /\ UNCHANGED <<queueFile, stateFile>> /\ pc = "stage" /\ pc' = "select"
        /\ sliceRun' = snap /\ queueFile # None
    BY <1>8 DEF ResumeQueue, AtStage, EnterLoop, durable
  <2>2. Counted(queueFile, snap, Forgotten)
    BY <2>1 DEF AttemptsInv, SnapshotPc, FreshPc
  <2>3. QED
    BY <1>4, <1>5, <1>6, <2>1, <2>2
<1>9. CASE ReconcileQueue
  <2>1. /\ queueFile' = Reconcile(ReadBack(queueFile), design) /\ UNCHANGED <<stateFile, snap>>
        /\ pc = "stage" /\ pc' = "clearFlag" /\ queueFile # None
    BY <1>9 DEF ReconcileQueue, AtStage, Reconciled
  <2>2. IsDesign(design) /\ queueFile \in Seq(Slice)
    BY <1>9, <2>1, WritersDesigned, SettledFacts DEF Settled
  <2>3. Counted(queueFile, SavedRun, Forgotten) /\ Counted(queueFile, snap, Forgotten)
    BY <1>5, <2>1 DEF AttemptsInv, SnapshotPc, FreshPc
  <2>4. /\ ReadBack(queueFile) \in Seq(Slice)
        /\ Counted(ReadBack(queueFile), SavedRun, Forgotten)
        /\ Counted(ReadBack(queueFile), snap, Forgotten)
    BY <2>2, <2>3, CountedMutations, ReadBackFacts
  <2>5. Counted(queueFile', SavedRun, Forgotten) /\ Counted(queueFile', snap, Forgotten)
    BY <1>0, <2>1, <2>2, <2>4, CountedReconcile
  <2>6. QED
    BY <1>4, <1>6, <2>1, <2>5
<1>10. CASE ClearFlag
  <2>1. /\ UNCHANGED queueFile /\ pc = "clearFlag" /\ pc' = "select"
        /\ sliceRun' = snap /\ stateFile' = ClearReconcile(snap) /\ queueFile # None
    BY <1>10 DEF ClearFlag, EnterLoop, Settled, HoldInv, SliceLoopPc
  <2>2. stateFile'.requeueCounts = snap.requeueCounts /\ stateFile' # None
    BY <1>0, <2>1, SameCounts, ClearReconcileType, NoneAssumption
  <2>3. Counted(queueFile, snap, Forgotten)
    BY <2>1 DEF AttemptsInv, SnapshotPc, FreshPc
  <2>4. Counted(queueFile, SavedRun', Forgotten)
    BY <2>2, <2>3, CountedSame DEF SavedRun, Reload
  <2>5. QED
    BY <1>4, <2>1, <2>3, <2>4
<1>11. CASE SelectSlice \/ ReflectAndMarkDone \/ EscalateFailed
  <2>1. /\ pc \in SliceLoopPc \ {"clearFlag"} /\ pc # "saveRequeue" /\ queueFile # None
        /\ pc' \in SliceLoopPc \ {"clearFlag", "saveRequeue"} /\ UNCHANGED stateFile
    BY <1>11 DEF SelectSlice, ReflectAndMarkDone, EscalateFailed, WriteQueue, SliceLoopPc,
                 Settled, HoldInv
  <2>2. queue \in {queueFile, ReadBack(queueFile)}
    BY <2>1 DEF Settled, HoldInv
  <2>3. queueFile \in Seq(Slice) /\ queue \in Seq(Slice)
    BY <2>1, SettledFacts
  <2>4. Counted(queue, sliceRun, Forgotten) /\ Counted(queue, SavedRun, Forgotten)
    <3>1. Counted(queueFile, sliceRun, Forgotten) /\ Counted(queueFile, SavedRun, Forgotten)
      BY <1>5, <2>1 DEF AttemptsInv
    <3>2. QED
      BY <2>2, <2>3, <3>1, CountedMutations
  <2>5. /\ Counted(queueFile', sliceRun, Forgotten)
        /\ Counted(queueFile', SavedRun, Forgotten)
    BY <1>11, <2>3, <2>4, CountedLoop
       DEF SelectSlice, ReflectAndMarkDone, EscalateFailed, WriteQueue
  <2>6. sliceRun'.requeueCounts = sliceRun.requeueCounts
    BY <1>0, <1>11, SameCounts DEF SelectSlice, ReflectAndMarkDone, EscalateFailed, WriteQueue
  <2>7. Counted(queueFile', sliceRun', Forgotten)
    BY <2>5, <2>6, CountedSame
  <2>8. QED
    BY <1>4, <1>6, <2>1, <2>5, <2>7
<1>12. CASE RequeueFailed
  <2>1. /\ pc = "failed" /\ pc' = "saveRequeue" /\ UNCHANGED stateFile
        /\ queueFile' = Requeue(queue, CurrentSlice)
        /\ sliceRun' = RequeueSlice(sliceRun, CurrentSlice)
    BY <1>12 DEF RequeueFailed, WriteQueue
  <2>2. queue = queueFile /\ queueFile # None /\ CurrentSlice \in SliceId
    BY <2>1 DEF Settled, HoldInv, RunTypes, SliceLoopPc, BuildingPc
  <2>3. queueFile \in Seq(Slice)
    BY <2>2, SettledFacts
  <2>4. Counted(queueFile, sliceRun, Forgotten) /\ Counted(queueFile, SavedRun, Forgotten)
    BY <1>5, <2>1, <2>2 DEF AttemptsInv, SliceLoopPc
  <2>5. /\ Counted(queueFile', sliceRun', Forgotten)
        /\ Counted(queueFile', SavedRun, Forgotten + 1)
    BY <1>0, <2>1, <2>2, <2>3, <2>4, CountedRequeue
  <2>6. QED
    BY <1>4, <1>6, <2>1, <2>5
<1>13. CASE SaveBuilding \/ SaveDone \/ SaveRequeue \/ SaveEscalated
  <2>1. /\ UNCHANGED <<queueFile, sliceRun>> /\ stateFile' = sliceRun
        /\ pc \in SliceLoopPc \ {"clearFlag"} /\ pc' \notin {"saveRequeue", "clearFlag"}
    BY <1>13 DEF SaveBuilding, SaveDone, SaveRequeue, SaveEscalated, SaveSliceRun, memory,
                 SliceLoopPc
  <2>2. SavedRun' = sliceRun
    BY <1>0, <2>1, NoneAssumption DEF SavedRun, Reload
  <2>3. QED
    BY <1>4, <2>1, <2>2 DEF AttemptsInv
<1>14. CASE \/ LoopPasses \/ ClassifyEscalation \/ PlanSlice \/ CheckFeasibility
            \/ ImplementSlice \/ CheckDone \/ CheckEvidence \/ AskForLoop
  <2>1. /\ UNCHANGED <<queueFile, stateFile>> /\ pc # "saveRequeue"
        /\ pc' \notin {"saveRequeue", "clearFlag"} /\ pc \in SliceLoopPc \ {"clearFlag"}
        /\ pc' = "gate" \/ UNCHANGED sliceRun
    BY <1>14 DEF LoopPasses, ClassifyEscalation, PlanSlice, CheckFeasibility, ImplementSlice,
                 CheckDone, CheckEvidence, AskForLoop, SubStep, Return, durable, memory,
                 SliceLoopPc
  <2>2. QED
    BY <1>4, <1>5, <1>6, <2>1 DEF AttemptsInv, SliceLoopPc
<1>15. QED
  BY <1>7, <1>8, <1>9, <1>10, <1>11, <1>12, <1>13, <1>14 DEF SliceLoop

\* A throw gives the snapshot to the stage once more, or ends the process.
LEMMA ThrowAttempts == Settled /\ AttemptsInv /\ Throw => AttemptsInv'
<1> SUFFICES ASSUME Settled, AttemptsInv, Throw, queueFile # None PROVE AttemptsInv'
  BY DEF AttemptsInv, Throw, durable
<1>1. /\ UNCHANGED <<queueFile, stateFile, snap>> /\ SavedRun' = SavedRun
      /\ pc' \in {"stage", "down"} /\ (pc' = "stage" => setting.bestEffort)
  BY DEF Throw, durable, SavedRun
<1>2. Forgotten' = Forgotten + Forgets("throw") /\ Unsaved' = Forgotten'
  <2>1. Spend("throw")
    BY DEF Throw
  <2>2. Forgotten' = Forgotten + Forgets("throw")
    BY <2>1, OneFailure DEF Settled
  <2>3. QED
    BY <1>1, <2>2 DEF Unsaved
<1>3. Forgets("throw") \in {1, MaxRequeue} /\ (pc' = "stage" => Forgets("throw") = MaxRequeue)
  BY <1>1, ForgottenType DEF Forgets, Settled, OtherTypes
<1>4. /\ Counted(queueFile, SavedRun, Forgotten')
      /\ pc' = "stage" => Counted(queueFile, snap, Forgotten')
  BY <1>2, <1>3, FailureForgets, SettledFacts
<1>5. QED
  BY <1>1, <1>2, <1>4 DEF AttemptsInv, SnapshotPc, FreshPc, SliceLoopPc

\* A crash leaves the file, and the counts of state.json or none of them.
LEMMA CrashAttempts == Settled /\ AttemptsInv /\ Crash => AttemptsInv'
<1> SUFFICES ASSUME Settled, AttemptsInv, Crash, queueFile' # None PROVE AttemptsInv'
  BY DEF AttemptsInv
<1>1. /\ UNCHANGED queueFile /\ pc' = "down"
      /\ SavedRun' = SavedRun \/ (TornWrites /\ SavedRun' = IdleRun)
  BY DEF Crash, SavedRun, Reload, IdleRun
<1>2. Forgotten' = Forgotten + Forgets("crash") /\ Unsaved' = Forgotten'
  <2>1. Spend("crash")
    BY DEF Crash
  <2>2. Forgotten' = Forgotten + Forgets("crash")
    BY <2>1, OneFailure DEF Settled
  <2>3. QED
    BY <1>1, <2>2 DEF Unsaved
<1>3. Forgets("crash") \in {1, MaxRequeue} /\ (TornWrites => Forgets("crash") = MaxRequeue)
  BY ForgottenType DEF Forgets, Settled
<1>4. IdleRun \in RunRecord
  BY StartRunType DEF IdleRun
<1>5. Counted(queueFile, SavedRun', Forgotten')
  BY <1>1, <1>2, <1>3, <1>4, FailureForgets
<1>6. QED
  BY <1>1, <1>2, <1>5 DEF AttemptsInv, SnapshotPc, FreshPc, SliceLoopPc

\* A resume starts from the counts of state.json, or from none.
LEMMA ResumeAttempts == Settled /\ AttemptsInv /\ Resume => AttemptsInv'
<1> SUFFICES ASSUME Settled, AttemptsInv, Resume, queueFile # None PROVE AttemptsInv'
  BY DEF AttemptsInv, Resume, durable
<1>1. /\ UNCHANGED <<queueFile, stateFile>> /\ SavedRun' = SavedRun
      /\ pc \in {"down", "stopped"} /\ pc' = "boot" /\ run' = RecoveredRun
  BY DEF Resume, Restart, durable, SavedRun
<1>2. Forgotten' = Forgotten /\ Unsaved = Forgotten /\ Unsaved' = Forgotten
  <2>1. Forgotten' = Forgotten
    BY NoFailure DEF Resume, Settled
  <2>2. QED
    BY <1>1, <2>1 DEF Unsaved
<1>3. RecoveredRun.requeueCounts = SavedRun.requeueCounts
  BY DEF RecoveredRun, InferredRun, SavedRun, Reload, IdleRun, StartRun
<1>4. Counted(queueFile, run', Forgotten)
  BY <1>1, <1>2, <1>3, CountedSame DEF AttemptsInv
<1>5. QED
  BY <1>1, <1>2, <1>4 DEF AttemptsInv, SnapshotPc, FreshPc, SliceLoopPc

\* All of what is settled is an invariant.
LEMMA AlwaysSettled == Spec => []Settled
<1>1. ControlOK /\ RunsOK /\ StagesOK /\ DesignInv /\ (QueueTypes /\ RunTypes /\ OtherTypes)
        /\ Saved /\ HoldInv => Settled
  BY DEF Settled
<1>2. QED
  BY <1>1, AlwaysControlOK, RunsAlwaysOK, AlwaysStagesOK, AlwaysDesignInv, AlwaysTypes,
     AlwaysSaved, AlwaysHolds, PTL

\* And with it AttemptsInv.
LEMMA AlwaysAttempts == Spec => []AttemptsInv
<1>1. Init => AttemptsInv
  BY DEF Init, AttemptsInv
<1>2. Settled /\ AttemptsInv /\ [Next]_vars => AttemptsInv'
  <2>1. AttemptsInv /\ UNCHANGED vars => AttemptsInv'
    BY DEF AttemptsInv, Counted, SavedRun, Reload, Unsaved, Forgotten, Forgets, SnapshotPc,
           vars, memory, durable
  <2>2. QED
    BY <2>1, PipelineAttempts, StagesAttempts, SliceLoopAttempts, ThrowAttempts,
       CrashAttempts, ResumeAttempts DEF Next, Program, Environment, Terminated
<1>3. QED
  BY <1>1, <1>2, AlwaysSettled, PTL DEF Spec

\* No slice is attempted more often than the cap and what failures take back,
\* under every policy and whatever a crash tears: the queue file, which a resume
\* reads, never runs further ahead of the counts in state.json, or in a stage's
\* snapshot (slice-loop.ts:305, stage-runner.ts's automatic retry).
THEOREM AttemptsAreBounded == Spec => []AttemptsBounded
<1>1. Settled /\ AttemptsInv => AttemptsBounded
  BY AttemptsAreFew
<1>2. QED
  BY <1>1, AlwaysSettled, AlwaysAttempts, PTL

-----------------------------------------------------------------------------
(***************************************************************************)
(* Each write is one operation of SliceLife on what was in the file.       *)
(***************************************************************************)

\* The instance works with the operators of SliceQueue ...
LEMMA LifeReads ==
  /\ \A q : Life!ReadBack(q) = ReadBack(q)
  /\ \A q, st : Life!IdsWith(q, st) = IdsWith(q, st)
  /\ \A q : Life!Promote(q) = Promote(q)
  /\ \A q : Life!HasReady(q) = HasReady(q)
  /\ \A q : Life!FirstReady(q) = FirstReady(q)
BY DEF Life!ReadBack, ReadBack, Life!IdsOf, IdsOf, Life!Only, Only, Life!IdsWith, IdsWith,
       Life!Promote, Promote, Life!DepsDone, DepsDone, Life!DoneIds, DoneIds,
       Life!HasReady, HasReady, Life!ReadyAt, ReadyAt, Life!FirstReady, FirstReady

\* ... when it marks a slice ...
LEMMA LifeMarks ==
  \A q, id : /\ Life!MarkBuilding(q, id) = MarkBuilding(q, id)
             /\ Life!MarkDone(q, id) = MarkDone(q, id)
             /\ Life!Escalate(q, id) = Escalate(q, id)
             /\ Life!Requeue(q, id) = Requeue(q, id)
BY DEF Life!MarkBuilding, MarkBuilding, Life!MarkDone, MarkDone, Life!Escalate, Escalate,
       Life!SetStatus, SetStatus, Life!Requeue, Requeue

\* ... and when it makes a queue from a design or a proposal.
LEMMA LifeMakes ==
  /\ \A d : Life!BuildInitial(d) = BuildInitial(d) /\ Life!AllDone(d) = AllDone(d)
  /\ \A q, d : Life!Reconcile(q, d) = Reconcile(q, d)
  /\ \A q, p : Life!ApplyRemediation(q, p).queue = ApplyRemediation(q, p).queue
<1>1. \A d : Life!BuildInitial(d) = BuildInitial(d) /\ Life!AllDone(d) = AllDone(d)
  BY DEF Life!BuildInitial, BuildInitial, Life!ParseDesign, ParseDesign, Life!AllDone, AllDone
<1>2. \A q, d : Life!Reconcile(q, d) = Reconcile(q, d)
  BY DEF Life!Reconcile, Reconcile, Life!DoneSlices, DoneSlices, Life!Without, Without,
         Life!Only, Only, Life!ParseDesign, ParseDesign, Life!DoneIds, DoneIds,
         Life!IdsWith, IdsWith
<1>3. \A q, p : Life!ApplyRemediation(q, p) = ApplyRemediation(q, p)
  BY DEF Life!ApplyRemediation, ApplyRemediation, Life!Applied, Applied,
         Life!ApplyEntry, ApplyEntry, Life!Allowed, Allowed, Life!Only, Only,
         Life!CriteriaOf, CriteriaOf, Life!OwnersOf, OwnersOf, Life!FirstOwner, FirstOwner,
         Life!Reopen, Reopen, Life!SetStatus, SetStatus,
         Life!AddRemediation, AddRemediation, Life!LastPhase, LastPhase, Life!Max, Max,
         Life!ToSet, ToSet
<1>4. QED
  BY <1>1, <1>2, <1>3

\* The environment keeps to its limits.
SpentInv == \A e \in Event : spent[e] <= Limit[e]

\* SpentInv is an invariant.
LEMMA AlwaysSpent == Spec => []SpentInv
<1>1. Init => SpentInv
  BY LimitAssumption DEF Init, SpentInv
<1>2. OtherTypes /\ SpentInv /\ [Next]_vars => SpentInv'
  <2> SUFFICES ASSUME OtherTypes, SpentInv, [Next]_vars PROVE SpentInv'
    OBVIOUS
  <2>1. UNCHANGED spent \/ \E e \in Event : Spend(e)
    <3>1. CASE UNCHANGED vars
      BY <3>1 DEF vars
    <3>2. CASE PipelineLoop \/ EarlyStages
      BY <3>2 DEF PipelineLoop, SaveStart, FinishRun, EnterStage, PassGate, GateRejects,
              GateApproves, GateRetries, Resync, StopOnEscalation, FollowEscalation,
              StopOnFail, CompleteStage,
              EarlyStages, GoalsWithoutTask, GoalsStage, ResearchStage, DocumentStage,
              DesignStage, SkeletonEarlyPass, SkeletonFails, SkeletonBuilt, CarryForward,
              WriteSkeletonResults, ReviewStructure, BaselineEarlyPass, BaselineCheck, Event
    <3>3. CASE SliceLoop
      BY <3>3 DEF SliceLoop, BuildQueue, ResumeQueue, ReconcileQueue, ClearFlag, SelectSlice,
              LoopPasses, SaveBuilding, PlanSlice, CheckFeasibility, ImplementSlice,
              CheckDone, CheckEvidence, AskForLoop, ReflectAndMarkDone, SaveDone,
              RequeueFailed, SaveRequeue, EscalateFailed, SaveEscalated,
              ClassifyEscalation, SubStep, SaveSliceRun
    <3>4. CASE LateStages \/ Environment
      BY <3>4 DEF LateStages, RunVerifier, RunAcceptance, Remediate, NoRemediation,
              ReportStage, Environment, Throw, Crash, Resume, Event
    <3>5. QED
      BY <3>1, <3>2, <3>3, <3>4 DEF Next, Program, Terminated
  <2>2. CASE UNCHANGED spent
    BY <2>2 DEF SpentInv
  <2>3. ASSUME NEW e \in Event, Spend(e) PROVE SpentInv'
    <3>1. \A f \in Event : /\ spent[f] \in Nat /\ Limit[f] \in Nat
                           /\ spent'[f] = IF f = e THEN spent[e] + 1 ELSE spent[f]
      BY <2>3, LimitAssumption DEF Spend, OtherTypes
    <3>2. spent[e] < Limit[e]
      BY <2>3 DEF Spend
    <3>3. QED
      BY <3>1, <3>2 DEF SpentInv
  <2>4. QED
    BY <2>1, <2>2, <2>3
<1>3. QED
  BY <1>1, <1>2, AlwaysTypes, PTL DEF Spec

\* No slice is attempted more often than SliceLife allows.
MostAttempts == MaxRequeue + Forgets("crash") * Limit["crash"]
                  + Forgets("throw") * Limit["throw"]

Permitted ==
  queueFile # None =>
    \A i \in DOMAIN queueFile : queueFile[i].requeueCount <= MostAttempts

\* The limits of the environment bound the attempts.
LEMMA AttemptsPermitted ==
  AttemptsBounded /\ SpentInv /\ OtherTypes /\ QueueTypes => Permitted
<1> SUFFICES ASSUME AttemptsBounded, SpentInv, OtherTypes, QueueTypes, queueFile # None
             PROVE  Permitted
  BY DEF Permitted
<1> DEFINE c == Forgets("crash")
           t == Forgets("throw")
<1>1. /\ spent["crash"] \in Nat /\ spent["throw"] \in Nat
      /\ Limit["crash"] \in Nat /\ Limit["throw"] \in Nat /\ MaxRequeue \in Nat
      /\ spent["crash"] <= Limit["crash"] /\ spent["throw"] <= Limit["throw"]
  BY LimitAssumption, CapAssumption DEF SpentInv, OtherTypes, Event
<1>2. c \in Nat /\ t \in Nat
  BY <1>1, ForgottenType
<1>3. Forgotten = c * spent["crash"] + t * spent["throw"]
      /\ MostAttempts = MaxRequeue + c * Limit["crash"] + t * Limit["throw"]
  BY DEF Forgotten, MostAttempts
<1> HIDE DEF c, t
<1>4. MaxRequeue + Forgotten <= MostAttempts /\ Forgotten \in Nat /\ MostAttempts \in Nat
  <2>1. \A k, m, n \in Nat : m <= n => k * m <= k * n /\ k * m \in Nat /\ k * n \in Nat
    OBVIOUS
  <2>2. /\ c * spent["crash"] <= c * Limit["crash"]
        /\ t * spent["throw"] <= t * Limit["throw"]
        /\ c * spent["crash"] \in Nat /\ c * Limit["crash"] \in Nat
        /\ t * spent["throw"] \in Nat /\ t * Limit["throw"] \in Nat
    BY <1>1, <1>2, <2>1
  <2>3. QED
    BY <1>1, <1>3, <2>2
<1>5. ASSUME NEW i \in DOMAIN queueFile PROVE queueFile[i].requeueCount <= MostAttempts
  <2>1. queueFile[i] \in Slice
    BY QueueElements DEF QueueTypes
  <2>2. queueFile[i].requeueCount \in Nat
    BY <2>1 DEF Slice
  <2>3. queueFile[i].requeueCount <= MaxRequeue + Forgotten
    BY DEF AttemptsBounded
  <2>4. QED
    BY <1>1, <1>4, <2>2, <2>3
<1>6. QED
  BY <1>5 DEF Permitted

\* Every step of DeepLooper is one of SliceLife, or leaves the file alone.
LEMMA StepUsesQueue ==
  ~TornWrites /\ Settled /\ Permitted' /\ [Next]_vars => [Life!Next]_queueFile
<1> SUFFICES ASSUME ~TornWrites, Settled, Permitted', [Next]_vars, QueueWrites
             PROVE  Life!Next
  BY OthersWriteNothing
<1>1. CASE CarryForward
  <2>1. design \in Designs /\ Len(design.slices) <= 2 /\ queueFile' = AllDone(design)
    BY <1>1, WritersDesigned DEF CarryForward, Settled, HoldInv
  <2>2. QED
    BY <2>1, LifeMakes DEF Life!CarryForward, Life!Next
<1>2. CASE BuildQueue
  <2>1. design \in Designs /\ queueFile = None /\ queueFile' = BuildInitial(design)
    BY <1>2, WritersDesigned DEF BuildQueue, Settled
  <2>2. QED
    BY <2>1, LifeMakes DEF Life!Build, Life!Next
<1>3. CASE ReconcileQueue
  <2>1. /\ design \in Designs /\ queueFile # None
        /\ queueFile' = Reconcile(ReadBack(queueFile), design)
    BY <1>3, WritersDesigned DEF ReconcileQueue, Reconciled, Settled
  <2>2. QED
    BY <2>1, LifeMakes, LifeReads DEF Life!Redesign, Life!Next
<1>4. CASE SelectSlice
  <2>1. /\ queueFile # None /\ queue \in {queueFile, ReadBack(queueFile)}
        /\ HasReady(Promote(queue))
        /\ queueFile' = MarkBuilding(Promote(queue), FirstReady(Promote(queue)).id)
    BY <1>4 DEF SelectSlice, WriteQueue, Settled, HoldInv, SliceLoopPc
  <2>2. queue \in Life!Held
    BY <2>1, LifeReads DEF Life!Held
  <2>3. QED
    BY <2>1, <2>2, LifeReads, LifeMarks DEF Life!Take, Life!Next
<1>5. CASE ReflectAndMarkDone \/ RequeueFailed \/ EscalateFailed
  <2>1. queueFile # None /\ queue = queueFile /\ CurrentSlice \in IdsWith(queueFile, {"building"})
    BY <1>5 DEF ReflectAndMarkDone, RequeueFailed, EscalateFailed, Settled, HoldInv,
                SliceLoopPc, BuildingPc
  <2>2. CurrentSlice \in Life!Building
    BY <2>1, LifeReads DEF Life!Building
  <2>3. CASE ReflectAndMarkDone
    <3>1. queueFile' = MarkDone(queueFile, CurrentSlice)
      BY <2>1, <2>3 DEF ReflectAndMarkDone, WriteQueue
    <3>2. QED
      BY <2>1, <2>2, <3>1, LifeMarks DEF Life!Finish, Life!Next
  <2>4. CASE EscalateFailed
    <3>1. queueFile' = Escalate(queueFile, CurrentSlice)
      BY <2>1, <2>4 DEF EscalateFailed, WriteQueue
    <3>2. QED
      BY <2>1, <2>2, <3>1, LifeMarks DEF Life!GiveUp, Life!Next
  <2>5. CASE RequeueFailed
    <3>1. queueFile' = Requeue(queueFile, CurrentSlice)
      BY <2>1, <2>5 DEF RequeueFailed, WriteQueue
    <3>2. queueFile' # None
      BY QueueStays DEF Settled
    <3>3. \A i \in DOMAIN queueFile' :
            queueFile'[i].requeueCount
              <= MaxRequeue + Forgets("crash") * Limit["crash"] + Forgets("throw") * Limit["throw"]
      BY <3>2 DEF Permitted, MostAttempts, Forgets
    <3>4. QED
      BY <2>1, <2>2, <3>1, <3>3, LifeMarks DEF Life!Retry, Life!Next
  <2>6. QED
    BY <1>5, <2>3, <2>4, <2>5
<1>6. CASE Remediate
  <2>1. queueFile # None
    BY <1>6 DEF Remediate, Settled, HoldInv, ControlOK, Queued, AfterLoop, CurrentStage
  <2>2. PICK p \in Proposals : queueFile' = ApplyRemediation(ReadBack(queueFile), p).queue
    BY <1>6, <2>1 DEF Remediate, QueueOnDisk
  <2>3. QED
    BY <2>1, <2>2, LifeMakes, LifeReads DEF Life!Remedy, Life!Next
<1>7. QED
  BY <1>1, <1>2, <1>3, <1>4, <1>5, <1>6 DEF QueueWrites

\* DeepLooper implements SliceLife: whichever stage, process or failure comes
\* between two writes of slice-queue.md, the second is one legal operation of
\* the aggregate on what the first left, never on a queue that is out of date.
THEOREM QueueIsUsedWell == ~TornWrites /\ Spec => QueueIsWellUsed
<1> SUFFICES ASSUME ~TornWrites PROVE Spec => QueueIsWellUsed
  OBVIOUS
<1>1. Init => Life!Init
  BY DEF Init, Life!Init
<1>2. Settled /\ Permitted' /\ [Next]_vars => [Life!Next]_queueFile
  BY StepUsesQueue
<1>3. AttemptsBounded /\ SpentInv /\ (QueueTypes /\ RunTypes /\ OtherTypes) => Permitted
  BY AttemptsPermitted
<1>4. QED
  BY <1>1, <1>2, <1>3, AlwaysSettled, AlwaysTypes, AttemptsAreBounded, AlwaysSpent, PTL
     DEF Spec, QueueIsWellUsed, Life!Spec

-----------------------------------------------------------------------------
(***************************************************************************)
(* Every step uses something up.  While a stage runs, the Runs in memory   *)
(* and on file agree on the backward loops, the slice that is built is not *)
(* done, and a remediation came from verify or accept.                     *)
(***************************************************************************)

Undone(q) == IdsWith(q, Status \ {"done"})

DescentInv ==
  /\ pc \in StagePc \cup {"resync"} => snap.backwardLoops = run.backwardLoops
  /\ pc \in StagePc \cup {"next", "resync", "decide"} /\ stateFile # None =>
       stateFile.backwardLoops = run.backwardLoops
  /\ pc \in AttemptPc => sliceRun.backwardLoops = run.backwardLoops
  /\ pc \in BuildingPc => CurrentSlice \in Undone(queue)
  /\ pc \in AfterStage /\ outcome.remediation => CurrentStage \in {"verify", "accept"}

\* Where a slice's status is changed, the others are as undone as before.
LEMMA UndoneSteps ==
  ASSUME NEW q \in Seq(Slice), NEW id
  PROVE  /\ Undone(Promote(q)) = Undone(q)
         /\ Undone(MarkDone(q, id)) = Undone(q) \ {id}
         /\ id \in Undone(q) => /\ Undone(MarkBuilding(q, id)) = Undone(q)
                                /\ Undone(Escalate(q, id)) = Undone(q)
                                /\ Undone(Requeue(q, id)) = Undone(q)
<1>1. \A i \in DOMAIN q : q[i].status \in Status
  <2>1. \A i \in DOMAIN q : q[i] \in Slice
    BY QueueElements
  <2>2. QED
    BY <2>1 DEF Slice
<1>2. ASSUME NEW r, SameSlices(q, r)
      PROVE  Undone(r) = {q[i].id : i \in {j \in DOMAIN q : r[j].status \in Status \ {"done"}}}
  <2>1. DOMAIN r = DOMAIN q /\ \A i \in DOMAIN q : r[i].id = q[i].id
    BY <1>2, SameDomain DEF SameSlices
  <2>2. QED
    BY <2>1 DEF Undone, IdsWith
<1>3. Undone(q) = {q[i].id : i \in {j \in DOMAIN q : q[j].status \in Status \ {"done"}}}
  BY DEF Undone, IdsWith
<1>4. Undone(Promote(q)) = Undone(q)
  <2>1. \A j \in DOMAIN q : Promote(q)[j].status \in Status \ {"done"}
                              <=> q[j].status \in Status \ {"done"}
    BY <1>1, PromoteFacts DEF Status
  <2>2. QED
    BY <1>2, <1>3, <2>1, PromoteFacts
<1>5. ASSUME NEW st \in Status
      PROVE  /\ st = "done" => Undone(SetStatus(q, id, st)) = Undone(q) \ {id}
             /\ st # "done" /\ id \in Undone(q) => Undone(SetStatus(q, id, st)) = Undone(q)
  <2>1. /\ SameSlices(q, SetStatus(q, id, st))
        /\ \A j \in DOMAIN q :
             SetStatus(q, id, st)[j].status = IF q[j].id = id THEN st ELSE q[j].status
    BY SetStatusFacts
  <2>2. QED
    BY <1>2, <1>3, <2>1
<1>6. id \in Undone(q) => Undone(Requeue(q, id)) = Undone(q)
  <2>1. /\ SameSlices(q, Requeue(q, id))
        /\ \A j \in DOMAIN q :
             Requeue(q, id)[j].status = IF q[j].id = id THEN "ready" ELSE q[j].status
    BY RequeueFacts
  <2>2. "ready" \in Status \ {"done"}
    BY DEF Status
  <2>3. QED
    BY <1>2, <1>3, <2>1, <2>2
<1>7. QED
  BY <1>4, <1>5, <1>6 DEF MarkDone, MarkBuilding, Escalate, Status

\* The slice that is taken was not done.
LEMMA TakenIsUndone ==
  ASSUME NEW q \in Seq(Slice), HasReady(Promote(q))
  PROVE  LET id == FirstReady(Promote(q)).id
         IN  /\ id \in Undone(q)
             /\ Undone(MarkBuilding(Promote(q), id)) = Undone(q)
<1> DEFINE p == Promote(q)
           id == FirstReady(p).id
<1>1. p \in Seq(Slice) /\ HasReady(p)
  BY MutationTypes
<1>2. Undone(p) = Undone(q)
  BY UndoneSteps
<1> HIDE DEF p
<1>3. PICK i \in DOMAIN p : FirstReady(p) = p[i] /\ p[i].status = "ready"
  BY <1>1, FirstReadyFacts
<1>4. id \in Undone(p)
  BY <1>3 DEF Undone, IdsWith, Status
<1> HIDE DEF id
<1>5. Undone(MarkBuilding(p, id)) = Undone(p)
  BY <1>1, <1>4, UndoneSteps
<1>6. QED
  BY <1>2, <1>4, <1>5 DEF p, id

\* What a stage returns asks for no remediation, but for one.
LEMMA RemediationAsked ==
  /\ \A s : ~Result(s).remediation
  /\ ~Passed.remediation /\ ~Failed.remediation /\ ~Unclean.remediation
  /\ \A loop, reason : /\ ~Escalation(loop, reason).remediation
                       /\ ~[Escalation(loop, reason) EXCEPT !.cap = TRUE].remediation
BY DEF Result, Passed, Failed, Unclean, Escalation

\* What the slice loop does to the backward loops of its Run: nothing.
LEMMA SameLoops ==
  ASSUME NEW r \in RunRecord, NEW s
  PROVE  /\ MarkSliceBuilding(r, s).backwardLoops = r.backwardLoops
         /\ MarkSliceDone(r, s).backwardLoops = r.backwardLoops
         /\ RequeueSlice(r, s).backwardLoops = r.backwardLoops
         /\ EscalateSlice(r, s).backwardLoops = r.backwardLoops
         /\ ClearReconcile(r).backwardLoops = r.backwardLoops
         /\ \A stage, remediation :
              CompleteStageIn(r, stage, remediation).backwardLoops = r.backwardLoops
         /\ MarkSliceBuilding(r, s).currentSlice = s
BY DEF MarkSliceBuilding, MarkSliceDone, RequeueSlice, EscalateSlice, ClearReconcile,
       CompleteStageIn, RunRecord

\* The pipeline loop keeps DescentInv.
LEMMA PipelineDescent ==
  ControlOK /\ RunTypes /\ DescentInv /\ PipelineLoop => DescentInv'
<1> SUFFICES ASSUME ControlOK, RunTypes, DescentInv, PipelineLoop PROVE DescentInv'
  OBVIOUS
<1> USE DEF DescentInv, CurrentStage, CurrentSlice, SliceLoopPc, BuildingPc, AttemptPc,
            StagePc, AfterStage
<1>1. CASE SaveStart
  BY <1>1 DEF SaveStart, memory
<1>2. CASE FinishRun \/ PassGate \/ GateRejects \/ GateRetries
  BY <1>2 DEF FinishRun, PassGate, GateRejects, GateRetries, AtGate, memory, durable
<1>3. CASE EnterStage
  BY <1>3 DEF EnterStage, durable
<1>4. CASE GateApproves
  BY <1>4 DEF GateApproves, AtGate, durable
<1>5. CASE Resync
  BY <1>5 DEF Resync, Reload, durable
<1>6. CASE StopOnEscalation \/ StopOnFail
  BY <1>6 DEF StopOnEscalation, StopOnFail, memory
<1>7. CASE FollowEscalation \/ CompleteStage
  BY <1>7 DEF FollowEscalation, CompleteStage
<1>8. QED
  BY <1>1, <1>2, <1>3, <1>4, <1>5, <1>6, <1>7 DEF PipelineLoop

\* A stage that returns keeps it.
LEMMA ReturnDescent ==
  ASSUME DescentInv, pc \in StagePc, NEW o, Return(o), UNCHANGED <<stateFile, run, snap>>,
         o.remediation => CurrentStage \in {"verify", "accept"}
  PROVE  DescentInv'
BY DEF DescentInv, Return, CurrentStage, SliceLoopPc, BuildingPc, AttemptPc, StagePc, AfterStage

\* A step to another place before the attempts keeps it.
LEMMA MoveDescent ==
  ASSUME DescentInv, pc \in StagePc, pc' \in StagePc \ (AttemptPc \cup {"gate"}),
         UNCHANGED <<stateFile, run, snap>>
  PROVE  DescentInv'
BY DEF DescentInv, CurrentStage, SliceLoopPc, BuildingPc, AttemptPc, StagePc, AfterStage

\* The stages before the slice loop keep DescentInv.
LEMMA EarlyDescent == DescentInv /\ EarlyStages => DescentInv'
<1> SUFFICES ASSUME DescentInv, EarlyStages PROVE DescentInv'
  OBVIOUS
<1>1. {"stage", "carryForward", "skeletonResults", "structure"}
        \subseteq StagePc \ (AttemptPc \cup {"gate"})
  BY DEF StagePc, AttemptPc, SliceLoopPc
<1>2. /\ pc \in StagePc
      /\ UNCHANGED <<stateFile, run, snap>>
      /\ \/ pc' \in {"carryForward", "skeletonResults", "structure"}
         \/ \E o : Return(o) /\ ~o.remediation
  <2>1. CASE GoalsWithoutTask \/ SkeletonEarlyPass \/ SkeletonFails \/ BaselineEarlyPass
    BY <1>1, <2>1, RemediationAsked
       DEF GoalsWithoutTask, SkeletonEarlyPass, SkeletonFails, BaselineEarlyPass, durable, AtStage
  <2>2. CASE GoalsStage \/ ResearchStage
    BY <1>1, <2>2, RemediationAsked DEF GoalsStage, ResearchStage, DocumentStage, AtStage
  <2>3. CASE DesignStage \/ BaselineCheck
    BY <1>1, <2>3, RemediationAsked DEF DesignStage, BaselineCheck, AtStage
  <2>4. CASE SkeletonBuilt \/ CarryForward \/ WriteSkeletonResults
    BY <1>1, <2>4 DEF SkeletonBuilt, CarryForward, WriteSkeletonResults, memory, durable, AtStage
  <2>5. CASE ReviewStructure
    BY <1>1, <2>5, RemediationAsked DEF ReviewStructure
  <2>6. QED
    BY <2>1, <2>2, <2>3, <2>4, <2>5 DEF EarlyStages
<1>3. QED
  BY <1>1, <1>2, ReturnDescent, MoveDescent

\* The slice loop keeps DescentInv.
LEMMA SliceLoopDescent ==
  ControlOK /\ QueueTypes /\ RunTypes /\ DescentInv /\ SliceLoop => DescentInv'
<1> SUFFICES ASSUME ControlOK, QueueTypes, RunTypes, DescentInv, SliceLoop PROVE DescentInv'
  OBVIOUS
<1> USE DEF CurrentStage, CurrentSlice, SliceLoopPc, BuildingPc, AttemptPc, StagePc,
            AfterStage, AtStage
<1>1. CASE BuildQueue \/ ResumeQueue \/ ClearFlag
  <2>1. ASSUME EnterLoop(queue'), UNCHANGED <<run, snap>>,
               stateFile' \in {stateFile, ClearReconcile(snap)}, pc \in {"stage", "clearFlag"}
        PROVE  DescentInv'
    <3>1. ClearReconcile(snap).backwardLoops = snap.backwardLoops
      BY SameLoops DEF RunTypes
    <3>2. stateFile' # None => stateFile'.backwardLoops = run.backwardLoops
      BY <2>1, <3>1 DEF DescentInv
    <3>3. sliceRun' = snap /\ pc' = "select" /\ snap.backwardLoops = run.backwardLoops
      BY <2>1 DEF EnterLoop, DescentInv
    <3>4. QED
      BY <2>1, <3>2, <3>3 DEF DescentInv
  <2>2. CASE BuildQueue
    <3>1. Return(Escalation("LOOP_DESIGN", "unparsed")) \/ EnterLoop(queue')
      BY <2>2 DEF BuildQueue, EnterLoop
    <3>2. UNCHANGED <<run, snap, stateFile>> /\ pc = "stage"
      BY <2>2 DEF BuildQueue
    <3>3. QED
      BY <2>1, <3>1, <3>2, ReturnDescent, RemediationAsked
  <2>3. CASE ResumeQueue \/ ClearFlag
    BY <2>1, <2>3 DEF ResumeQueue, ClearFlag, EnterLoop, durable
  <2>4. QED
    BY <1>1, <2>2, <2>3
<1>2. CASE ReconcileQueue
  BY <1>2, MoveDescent DEF ReconcileQueue
<1>3. CASE SelectSlice
  <2> DEFINE id == FirstReady(Promote(queue)).id
  <2>1. id \in Undone(MarkBuilding(Promote(queue), id))
    BY <1>3, TakenIsUndone DEF SelectSlice, QueueTypes
  <2>2. /\ queue' = MarkBuilding(Promote(queue), id)
        /\ sliceRun' = MarkSliceBuilding(sliceRun, id) /\ pc' = "saveBuilding"
        /\ UNCHANGED <<run, snap, stateFile>>
    BY <1>3 DEF SelectSlice, WriteQueue
  <2> HIDE DEF id
  <2>3. QED
    BY <1>3, <2>1, <2>2, SameLoops DEF SelectSlice, DescentInv, RunTypes
<1>4. CASE LoopPasses \/ ClassifyEscalation
  BY <1>4, ReturnDescent, RemediationAsked DEF LoopPasses, ClassifyEscalation, durable
<1>5. CASE SaveBuilding \/ SaveDone \/ SaveRequeue \/ SaveEscalated
  BY <1>5 DEF SaveBuilding, SaveDone, SaveRequeue, SaveEscalated, SaveSliceRun, memory, DescentInv
<1>6. CASE PlanSlice \/ CheckFeasibility \/ ImplementSlice \/ CheckDone \/ CheckEvidence
           \/ AskForLoop
  BY <1>6 DEF PlanSlice, CheckFeasibility, ImplementSlice, CheckDone, CheckEvidence,
              AskForLoop, SubStep, memory, durable, DescentInv
<1>7. CASE ReflectAndMarkDone \/ RequeueFailed \/ EscalateFailed
  <2>1. /\ sliceRun' \in {MarkSliceDone(sliceRun, CurrentSlice),
                          RequeueSlice(sliceRun, CurrentSlice),
                          EscalateSlice(sliceRun, CurrentSlice)}
        /\ pc \in BuildingPc /\ pc' \in {"saveDone", "saveRequeue", "saveEscalated"}
        /\ UNCHANGED <<run, snap, stateFile>>
    BY <1>7 DEF ReflectAndMarkDone, RequeueFailed, EscalateFailed, WriteQueue
  <2>2. sliceRun'.backwardLoops = sliceRun.backwardLoops
    BY <2>1, SameLoops DEF RunTypes
  <2>3. QED
    BY <2>1, <2>2 DEF DescentInv
<1>8. QED
  BY <1>1, <1>2, <1>3, <1>4, <1>5, <1>6, <1>7 DEF SliceLoop

\* Verify, accept and report keep DescentInv.
LEMMA LateDescent == ControlOK /\ DescentInv /\ LateStages => DescentInv'
<1> SUFFICES ASSUME ControlOK, DescentInv, LateStages PROVE DescentInv'
  OBVIOUS
<1> USE DEF SliceLoopPc, AttemptPc, StagePc, AtStage
<1>1. CASE RunVerifier \/ RunAcceptance
  <2>1. Return(Passed) \/ pc' = "remediate"
    BY <1>1 DEF RunVerifier, RunAcceptance
  <2>2. QED
    BY <1>1, <2>1, ReturnDescent, MoveDescent, RemediationAsked DEF RunVerifier, RunAcceptance
<1>2. CASE Remediate
  BY <1>2, ReturnDescent DEF Remediate, ControlOK
<1>3. CASE NoRemediation \/ ReportStage
  BY <1>3, ReturnDescent, RemediationAsked DEF NoRemediation, ReportStage, durable
<1>4. QED
  BY <1>1, <1>2, <1>3 DEF LateStages

\* Throws, crashes and resumes keep DescentInv.
LEMMA EnvironmentDescent == DescentInv /\ Environment => DescentInv'
<1> SUFFICES ASSUME DescentInv, Environment PROVE DescentInv'
  OBVIOUS
<1> USE DEF DescentInv, CurrentStage, CurrentSlice, SliceLoopPc, BuildingPc, AttemptPc,
            StagePc, AfterStage
<1>1. CASE Throw
  BY <1>1 DEF Throw, AtGate, durable
<1>2. CASE Crash
  BY <1>2 DEF Crash, Restart
<1>3. CASE Resume
  BY <1>3 DEF Resume, Restart
<1>4. QED
  BY <1>1, <1>2, <1>3 DEF Environment

\* DescentInv is an invariant.
LEMMA AlwaysDescent == Spec => []DescentInv
<1>1. Init => DescentInv
  BY DEF Init, DescentInv, SliceLoopPc, BuildingPc, AttemptPc, StagePc, AfterStage
<1>2. ControlOK /\ QueueTypes /\ RunTypes /\ DescentInv /\ [Next]_vars => DescentInv'
  <2>1. DescentInv /\ UNCHANGED vars => DescentInv'
    BY DEF DescentInv, CurrentStage, CurrentSlice, vars, memory, durable
  <2>2. QED
    BY <2>1, PipelineDescent, EarlyDescent, SliceLoopDescent, LateDescent, EnvironmentDescent
       DEF Next, Program, Terminated
<1>3. QED
  BY <1>1, <1>2, AlwaysControlOK, AlwaysTypes, PTL DEF Spec

-----------------------------------------------------------------------------
(***************************************************************************)
(* The tuples of what remains are well ordered.                            *)
(***************************************************************************)

\* S is the part of T with the least number at place i.
LeastPart(T, i, S) == /\ S # {} /\ S \subseteq T
                      /\ \A a \in S, b \in S : a[i] = b[i]
                      /\ \A a \in S, b \in T \ S : a[i] < b[i]

\* Of a set of tuples, some have the least number at place i.
LEMMA LeastAt ==
  ASSUME NEW n \in Nat, NEW i \in 1 .. n, NEW T \in SUBSET Tuples(n), T # {}
  PROVE  \E S : LeastPart(T, i, S)
<1> DEFINE N == {a[i] : a \in T}
<1>1. \A a \in T : a[i] \in Nat /\ a[i] \in N
  BY DEF Tuples
<1>2. N \in SUBSET Nat /\ N # {}
  BY <1>1
<1>3. \A m \in N : \E a \in T : a[i] = m
  OBVIOUS
<1> HIDE DEF N
<1>4. PICK m \in N : \A k \in N : m <= k
  BY <1>2, LeastNumber
<1> DEFINE S == {a \in T : a[i] = m}
<1>5. S \in SUBSET T /\ S # {}
  BY <1>3, <1>4
<1>6. \A a \in S : a[i] = m
  OBVIOUS
<1>7. \A b \in T \ S : m < b[i]
  BY <1>1, <1>2, <1>4
<1> HIDE DEF S
<1>8. LeastPart(T, i, S)
  BY <1>5, <1>6, <1>7 DEF LeastPart
<1>9. QED
  BY <1>8

\* S is what is left of T when the least number is sought at each of the first
\* k places in turn.
Narrowed(T, k, S) ==
  /\ S # {} /\ S \subseteq T
  /\ \A a \in S, b \in S : \A j \in 1 .. k : a[j] = b[j]
  /\ \A a \in S, b \in T \ S :
       \E i \in 1 .. k : a[i] < b[i] /\ \A j \in 1 .. i - 1 : a[j] = b[j]

\* There is such a rest for every k.
LEMMA NarrowedExists ==
  ASSUME NEW n \in Nat, NEW T \in SUBSET Tuples(n), T # {}
  PROVE  \E S : Narrowed(T, n, S)
<1> DEFINE K == {k \in 0 .. n : \E S : Narrowed(T, k, S)}
<1>1. 0 \in K
  <2>1. Narrowed(T, 0, T)
    BY DEF Narrowed
  <2>2. QED
    BY <2>1
<1>2. ASSUME NEW k \in 0 .. n - 1, k \in K PROVE k + 1 \in K
  <2>1. PICK S : Narrowed(T, k, S)
    BY <1>2
  <2>2. S \in SUBSET Tuples(n) /\ S # {} /\ k + 1 \in 1 .. n
    BY <2>1 DEF Narrowed
  <2>3. PICK R : LeastPart(S, k + 1, R)
    BY <2>2, LeastAt
  <2>4. \A a \in R, b \in R : \A j \in 1 .. k + 1 : a[j] = b[j]
    <3>1. \A j \in 1 .. k + 1 : j \in 1 .. k \/ j = k + 1
      OBVIOUS
    <3>2. QED
      BY <2>1, <2>3, <3>1 DEF Narrowed, LeastPart
  <2>5. ASSUME NEW a \in R, NEW b \in T \ R
        PROVE  \E i \in 1 .. k + 1 : a[i] < b[i] /\ \A j \in 1 .. i - 1 : a[j] = b[j]
    <3>1. CASE b \in S
      <4>1. a[k + 1] < b[k + 1] /\ \A j \in 1 .. k : a[j] = b[j]
        BY <2>1, <2>3, <2>5, <3>1 DEF Narrowed, LeastPart
      <4>2. k + 1 \in 1 .. k + 1 /\ (k + 1) - 1 = k
        OBVIOUS
      <4>3. QED
        BY <4>1, <4>2
    <3>2. CASE b \notin S
      <4>1. PICK i \in 1 .. k : a[i] < b[i] /\ \A j \in 1 .. i - 1 : a[j] = b[j]
        BY <2>1, <2>3, <2>5, <3>2 DEF Narrowed, LeastPart
      <4>2. i \in 1 .. k + 1
        OBVIOUS
      <4>3. QED
        BY <4>1, <4>2
    <3>3. QED
      BY <3>1, <3>2
  <2>6. Narrowed(T, k + 1, R)
    BY <2>1, <2>3, <2>4, <2>5 DEF Narrowed, LeastPart
  <2>7. k + 1 \in 0 .. n
    OBVIOUS
  <2>8. QED
    BY <2>6, <2>7
<1> HIDE DEF K
<1>3. n \in K
  BY <1>1, <1>2, Induction
<1>4. QED
  BY <1>3 DEF K

\* Every set of tuples that is not empty has one below which there is no other.
LEMMA LeastTuple ==
  ASSUME NEW n \in Nat, NEW T \in SUBSET Tuples(n), T # {}
  PROVE  \E a \in T : \A b \in T : ~Less(b, a)
<1>1. PICK S : Narrowed(T, n, S)
  BY NarrowedExists
<1>2. PICK a : a \in S /\ a \in T
  BY <1>1 DEF Narrowed
<1>3. ASSUME NEW b \in T, Less(b, a) PROVE FALSE
  <2>1. /\ DOMAIN b = 1 .. n
        /\ \A j \in 1 .. n : a[j] \in Nat /\ b[j] \in Nat
    BY <1>2 DEF Tuples
  <2>2. PICK i \in 1 .. n : b[i] < a[i] /\ \A j \in 1 .. i - 1 : b[j] = a[j]
    BY <1>3, <2>1 DEF Less
  <2>3. b \notin S
    BY <1>1, <1>2, <2>1, <2>2 DEF Narrowed
  <2>4. PICK k \in 1 .. n : a[k] < b[k] /\ \A j \in 1 .. k - 1 : a[j] = b[j]
    BY <1>1, <1>2, <2>3 DEF Narrowed
  <2>5. CASE i < k
    BY <2>1, <2>2, <2>4, <2>5
  <2>6. CASE k < i
    BY <2>1, <2>2, <2>4, <2>6
  <2>7. CASE i = k
    BY <2>1, <2>2, <2>4, <2>7
  <2>8. QED
    BY <2>5, <2>6, <2>7
<1>4. QED
  BY <1>2, <1>3

\* What remains cannot go down for ever.
LEMMA NoEndlessDescent ==
  ASSUME NEW n \in Nat
  PROVE  ~\E f : \A m \in Nat : <<f[m], f[m + 1]>> \in Descents(n)
<1> SUFFICES ASSUME NEW f, \A m \in Nat : <<f[m], f[m + 1]>> \in Descents(n)
             PROVE  FALSE
  OBVIOUS
<1>0. \A m \in Nat : f[m] \in Tuples(n) /\ Less(f[m + 1], f[m])
  BY DEF Descents
<1> DEFINE T == {f[m] : m \in Nat}
<1>1. T \in SUBSET Tuples(n) /\ f[0] \in T
  BY <1>0
<1>2. \A m \in Nat : f[m + 1] \in T
  OBVIOUS
<1>3. \A a \in T : \E m \in Nat : a = f[m]
  OBVIOUS
<1> HIDE DEF T
<1>4. PICK a \in T : \A b \in T : ~Less(b, a)
  BY <1>1, LeastTuple
<1>5. PICK m \in Nat : a = f[m]
  BY <1>3
<1>6. QED
  BY <1>0, <1>2, <1>4, <1>5

-----------------------------------------------------------------------------
(***************************************************************************)
(* What remains is a tuple of numbers.                                     *)
(***************************************************************************)

\* The slices of a queue that are not done are finitely many.
LEMMA UndoneFinite == ASSUME NEW q \in Seq(Slice) PROVE IsFiniteSet(Undone(q))
<1> DEFINE I == {i \in DOMAIN q : q[i].status \in Status \ {"done"}}
           f == [i \in I |-> q[i].id]
<1>1. IsFiniteSet(1 .. Len(q)) /\ I \in SUBSET (1 .. Len(q))
  BY FS_Interval
<1>2. IsFiniteSet(I)
  BY <1>1, FS_Subset
<1>3. f \in Surjection(I, Undone(q))
  BY DEF Surjection, Undone, IdsWith
<1> HIDE DEF I, f
<1>4. QED
  BY <1>2, <1>3, FS_Surjection

\* And so are the attempts they have left.
LEMMA AttemptsFinite ==
  ASSUME QueueTypes
  PROVE  IsFiniteSet(AttemptsLeft) /\ Cardinality(AttemptsLeft) \in Nat
<1>1. IsFiniteSet(Undone(queue)) /\ IsFiniteSet(0 .. MaxRequeue)
  BY UndoneFinite, FS_Interval, CapAssumption DEF QueueTypes
<1>2. IsFiniteSet(Undone(queue) \X (0 .. MaxRequeue))
  BY <1>1, FS_Product
<1>3. AttemptsLeft \in SUBSET (Undone(queue) \X (0 .. MaxRequeue))
  BY DEF AttemptsLeft, Undone
<1>4. QED
  BY <1>2, <1>3, FS_Subset, FS_CardinalityType

\* The places of a process have their steps.
LEMMA StepsFromType == \A p \in Pc : StepsFrom[p] \in Nat
BY DEF StepsFrom, Pc, StagePc, SliceLoopPc

\* What remains is a tuple of numbers.
LEMMA RemainingType ==
  ASSUME ControlOK, RunsOK, OtherTypes, QueueTypes, SpentInv
  PROVE  Remaining \in Tuples(7)
<1>1. BudgetLeft \in Nat
  <2>1. \A e \in Event : Limit[e] - spent[e] \in Nat
    BY LimitAssumption DEF OtherTypes, SpentInv
  <2>2. QED
    BY <2>1 DEF BudgetLeft, Event
<1>2. PhasesLeft \in Nat /\ PartsLeft \in Nat
  BY DEF PhasesLeft, PartsLeft
<1>3. LoopsLeft \in Nat
  BY CapAssumption DEF LoopsLeft, RunsOK, RunOK
<1>4. StagesLeft \in Nat
  BY DEF StagesLeft, StagesFrom, RunsOK, RunOK, Stage
<1>5. Cardinality(AttemptsLeft) \in Nat
  BY AttemptsFinite
<1>6. StepsFrom[pc] \in Nat
  BY StepsFromType DEF ControlOK
<1>7. QED
  BY <1>1, <1>2, <1>3, <1>4, <1>5, <1>6 DEF Remaining, Tuples

-----------------------------------------------------------------------------
(***************************************************************************)
(* Every step leaves less: which of the numbers goes down, with those      *)
(* before it as they were.                                                 *)
(***************************************************************************)

Falls ==
  \/ BudgetLeft' < BudgetLeft
  \/ /\ BudgetLeft' = BudgetLeft
     /\ \/ PhasesLeft' < PhasesLeft
        \/ /\ PhasesLeft' = PhasesLeft
           /\ \/ LoopsLeft' < LoopsLeft
              \/ /\ LoopsLeft' = LoopsLeft
                 /\ \/ StagesLeft' < StagesLeft
                    \/ /\ StagesLeft' = StagesLeft
                       /\ \/ PartsLeft' < PartsLeft
                          \/ /\ PartsLeft' = PartsLeft
                             /\ \/ Cardinality(AttemptsLeft)' < Cardinality(AttemptsLeft)
                                \/ /\ Cardinality(AttemptsLeft)' = Cardinality(AttemptsLeft)
                                   /\ StepsFrom[pc'] < StepsFrom[pc]

\* What falls is less.
LEMMA FallsIsLess ==
  ASSUME Remaining \in Tuples(7), Remaining' \in Tuples(7), Falls
  PROVE  UsesUp
<1>1. /\ Remaining[1] = BudgetLeft /\ Remaining'[1] = BudgetLeft'
      /\ Remaining[2] = PhasesLeft /\ Remaining'[2] = PhasesLeft'
      /\ Remaining[3] = LoopsLeft /\ Remaining'[3] = LoopsLeft'
      /\ Remaining[4] = StagesLeft /\ Remaining'[4] = StagesLeft'
      /\ Remaining[5] = PartsLeft /\ Remaining'[5] = PartsLeft'
      /\ Remaining[6] = Cardinality(AttemptsLeft)
      /\ Remaining'[6] = Cardinality(AttemptsLeft)'
      /\ Remaining[7] = StepsFrom[pc] /\ Remaining'[7] = StepsFrom[pc']
  BY DEF Remaining, StepsFrom
<1> DEFINE a == Remaining
           b == Remaining'
<1>2. PICK i \in 1 .. 7 : /\ b[i] < a[i]
                          /\ i > 1 => b[1] = a[1]
                          /\ i > 2 => b[2] = a[2]
                          /\ i > 3 => b[3] = a[3]
                          /\ i > 4 => b[4] = a[4]
                          /\ i > 5 => b[5] = a[5]
                          /\ i > 6 => b[6] = a[6]
  BY <1>1 DEF Falls
<1> HIDE DEF a, b
<1>3. i \in DOMAIN b /\ \A j \in 1 .. i - 1 : b[j] = a[j]
  BY <1>2 DEF Tuples, b
<1>4. Less(b, a)
  BY <1>2, <1>3 DEF Less
<1>5. QED
  BY <1>4 DEF UsesUp, Descents, a, b

\* Without an event of the environment its budget is the same; an event uses it up.
LEMMA BudgetSteps ==
  ASSUME OtherTypes
  PROVE  /\ UNCHANGED spent => BudgetLeft' = BudgetLeft
         /\ \A e \in Event : Spend(e) => BudgetLeft' < BudgetLeft
<1>1. UNCHANGED spent => BudgetLeft' = BudgetLeft
  BY DEF BudgetLeft
<1>2. ASSUME NEW e \in Event, Spend(e) PROVE BudgetLeft' < BudgetLeft
  <2>1. \A f \in Event : spent[f] \in Nat /\ Limit[f] \in Nat
    BY LimitAssumption DEF OtherTypes
  <2>2. \A f \in Event : spent'[f] = IF f = e THEN spent[f] + 1 ELSE spent[f]
    BY <1>2 DEF Spend, OtherTypes
  <2>3. QED
    BY <2>1, <2>2 DEF BudgetLeft, Event
<1>3. QED
  BY <1>1, <1>2

\* Where the process is before a stage's attempts, or between stages.
BeforePc == {"next", "stage", "carryForward", "skeletonResults", "structure", "remediate",
             "clearFlag"}

\* An event of the environment.
LEMMA SpendFalls == ASSUME OtherTypes, NEW e \in Event, Spend(e) PROVE Falls
BY BudgetSteps DEF Falls

\* The process is resumed, starts or ends.
LEMMA PhaseFalls ==
  ASSUME OtherTypes, UNCHANGED spent, PhasesLeft' < PhasesLeft PROVE Falls
BY BudgetSteps DEF Falls

\* Elsewhere there is nothing to attempt.
LEMMA NoAttempts == pc \notin AttemptPc => AttemptsLeft = {}
BY DEF AttemptsLeft

\* A step to a later place before the attempts.
LEMMA MoveFalls ==
  ASSUME OtherTypes, UNCHANGED <<spent, run>>, pc \in BeforePc, pc' \in BeforePc,
         StepsFrom[pc'] < StepsFrom[pc]
  PROVE  Falls
<1>1. AttemptsLeft = {} /\ AttemptsLeft' = {}
  BY DEF AttemptsLeft, AttemptPc, SliceLoopPc, BeforePc
<1>2. PhasesLeft' = PhasesLeft /\ LoopsLeft' = LoopsLeft /\ StagesLeft' = StagesLeft
      /\ PartsLeft' = PartsLeft
  BY DEF PhasesLeft, LoopsLeft, StagesLeft, PartsLeft, BeforePc, AfterStage,
         AttemptPc, SliceLoopPc
<1>3. QED
  BY <1>1, <1>2, BudgetSteps DEF Falls

\* A step from the stage's return to the decision on it.
LEMMA AfterFalls ==
  ASSUME OtherTypes, UNCHANGED spent, pc \in AfterStage, pc' \in AfterStage,
         run'.backwardLoops = run.backwardLoops, run'.nextStage = run.nextStage,
         outcome'.remediation = outcome.remediation, StepsFrom[pc'] < StepsFrom[pc]
  PROVE  Falls
<1>1. AttemptsLeft = {} /\ AttemptsLeft' = {}
  BY DEF AttemptsLeft, AttemptPc, SliceLoopPc, AfterStage
<1>2. PhasesLeft' = PhasesLeft /\ LoopsLeft' = LoopsLeft /\ StagesLeft' = StagesLeft
      /\ PartsLeft' = PartsLeft
  BY DEF PhasesLeft, LoopsLeft, StagesLeft, PartsLeft, AfterStage,
         AttemptPc, SliceLoopPc
<1>3. QED
  BY <1>1, <1>2, BudgetSteps DEF Falls

\* A stage returns without remediation.
LEMMA ReturnFalls ==
  ASSUME OtherTypes, UNCHANGED <<spent, run>>, pc \in StagePc \ {"gate"},
         NEW o, Return(o), ~o.remediation
  PROVE  Falls
<1>1. PhasesLeft' = PhasesLeft /\ LoopsLeft' = LoopsLeft /\ StagesLeft' = StagesLeft
      /\ PartsLeft' < PartsLeft
  BY DEF Return, PhasesLeft, LoopsLeft, StagesLeft, PartsLeft, AfterStage,
         AttemptPc, SliceLoopPc, StagePc
<1>2. QED
  BY <1>1, BudgetSteps DEF Falls

\* The slice loop is entered.
LEMMA EnterFalls ==
  ASSUME OtherTypes, UNCHANGED <<spent, run>>, pc \in {"stage", "clearFlag"}, pc' = "select"
  PROVE  Falls
<1>1. PhasesLeft' = PhasesLeft /\ LoopsLeft' = LoopsLeft /\ StagesLeft' = StagesLeft
      /\ PartsLeft' < PartsLeft
  BY DEF PhasesLeft, LoopsLeft, StagesLeft, PartsLeft, AfterStage,
         AttemptPc, SliceLoopPc
<1>2. QED
  BY <1>1, BudgetSteps DEF Falls

\* In the slice loop an attempt is used up, or a step of one.
LEMMA AttemptFalls ==
  ASSUME OtherTypes, QueueTypes, UNCHANGED <<spent, run>>, pc \in AttemptPc, pc' \in AttemptPc,
         \/ AttemptsLeft' \subseteq AttemptsLeft /\ AttemptsLeft' # AttemptsLeft
         \/ AttemptsLeft' = AttemptsLeft /\ StepsFrom[pc'] < StepsFrom[pc]
  PROVE  Falls
<1>1. PhasesLeft' = PhasesLeft /\ LoopsLeft' = LoopsLeft /\ StagesLeft' = StagesLeft
      /\ PartsLeft' = PartsLeft
  BY DEF PhasesLeft, LoopsLeft, StagesLeft, PartsLeft, AfterStage,
         AttemptPc, SliceLoopPc
<1>2. CASE AttemptsLeft' \subseteq AttemptsLeft /\ AttemptsLeft' # AttemptsLeft
  <2>1. IsFiniteSet(AttemptsLeft) /\ Cardinality(AttemptsLeft) \in Nat
    BY AttemptsFinite
  <2>2. /\ IsFiniteSet(AttemptsLeft')
        /\ Cardinality(AttemptsLeft') <= Cardinality(AttemptsLeft)
        /\ Cardinality(AttemptsLeft) # Cardinality(AttemptsLeft')
    BY <1>2, <2>1, FS_Subset
  <2>3. Cardinality(AttemptsLeft') \in Nat
    BY <2>2, FS_CardinalityType
  <2>4. QED
    BY <1>1, <2>1, <2>2, <2>3, BudgetSteps DEF Falls
<1>3. CASE AttemptsLeft' = AttemptsLeft /\ StepsFrom[pc'] < StepsFrom[pc]
  BY <1>1, <1>3, BudgetSteps DEF Falls
<1>4. QED
  BY <1>2, <1>3

\* The attempts that are left depend on the slices not done and on the counts.
LEMMA SameAttempts ==
  ASSUME pc \in AttemptPc, pc' \in AttemptPc, Undone(queue') = Undone(queue),
         sliceRun'.requeueCounts = sliceRun.requeueCounts
  PROVE  AttemptsLeft' = AttemptsLeft
BY DEF AttemptsLeft, Undone

\* Follows(s, next): without remediation, next is the stage after s.
Follows(s, next) ==
      \/ s = "goals" /\ next = "research"
      \/ s = "research" /\ next = "design"
      \/ s = "design" /\ next = "skeleton"
      \/ s = "skeleton" /\ next = "baseline"
      \/ s = "baseline" /\ next = "slice-loop"
      \/ s = "slice-loop" /\ next = "verify"
      \/ s = "verify" /\ next = "accept"
      \/ s = "accept" /\ next = "report"
      \/ s = "report" /\ next = "done"

\* Follows says what the transition policy does.
LEMMA FollowsIsNext ==
  ASSUME NEW s \in Stage PROVE Follows(s, NextStageFor(s, FALSE))
<1>1. ASSUME NEW next, next = NextStageFor(s, FALSE) PROVE Follows(s, next)
  BY <1>1 DEF NextStageFor, Stage, Follows
<1>2. QED
  BY <1>1

\* The stage after a stage is nearer to the end.
LEMMA FollowsIsNearer ==
  ASSUME NEW s, NEW next, Follows(s, next) PROVE StagesFrom(next) < StagesFrom(s)
BY DEF StagesFrom, Follows

\* The pipeline loop's steps.
LEMMA PipelineFalls ==
  ControlOK /\ RunsOK /\ StagesOK /\ OtherTypes /\ DescentInv /\ PipelineLoop => Falls
<1> SUFFICES ASSUME ControlOK, RunsOK, StagesOK, OtherTypes, DescentInv, PipelineLoop PROVE Falls
  OBVIOUS
<1>1. CASE SaveStart \/ FinishRun \/ StopOnEscalation \/ StopOnFail
  BY <1>1, PhaseFalls
     DEF SaveStart, FinishRun, StopOnEscalation, StopOnFail, PhasesLeft
<1>2. CASE EnterStage
  BY <1>2, MoveFalls DEF EnterStage, BeforePc, StepsFrom
<1>3. CASE PassGate \/ GateRejects
  BY <1>3, AfterFalls DEF PassGate, GateRejects, AtGate, AfterStage, StepsFrom, memory
<1>4. CASE GateApproves
  <2>1. outcome'.remediation = outcome.remediation
    BY <1>4 DEF GateApproves, RunsOK, Outcome
  <2>2. QED
    BY <1>4, <2>1, AfterFalls DEF GateApproves, AtGate, AfterStage, StepsFrom
<1>5. CASE GateRetries
  BY <1>5, SpendFalls DEF GateRetries, Event
<1>6. CASE Resync
  <2>1. run'.backwardLoops = run.backwardLoops /\ run'.nextStage = run.nextStage
    BY <1>6 DEF Resync, Reload, DescentInv, StagesOK
  <2>2. QED
    BY <1>6, <2>1, AfterFalls DEF Resync, AfterStage, StepsFrom
<1>7. CASE FollowEscalation
  <2>1. run'.backwardLoops = run.backwardLoops + 1
    BY <1>7 DEF FollowEscalation, LoopBack, RunsOK, RunOK, RunFields
  <2>2. LoopsLeft' < LoopsLeft
    BY <2>1, CapAssumption DEF LoopsLeft, RunsOK, RunOK
  <2>3. PhasesLeft' = PhasesLeft
    BY <1>7 DEF FollowEscalation, PhasesLeft
  <2>4. QED
    BY <1>7, <2>2, <2>3, BudgetSteps DEF Falls, FollowEscalation
<1>8. CASE CompleteStage
  <2>1. /\ run'.backwardLoops = run.backwardLoops
        /\ run'.nextStage = NextStageFor(CurrentStage, outcome.remediation)
    BY <1>8 DEF CompleteStage, CompleteStageIn, RunsOK, RunOK, RunFields
  <2>2. PhasesLeft' = PhasesLeft /\ LoopsLeft' = LoopsLeft
    BY <1>8, <2>1 DEF CompleteStage, PhasesLeft, LoopsLeft
  <2>3. StagesLeft' = StagesFrom(NextStageFor(CurrentStage, outcome.remediation))
    BY <1>8, <2>1 DEF CompleteStage, StagesLeft, AfterStage
  <2>4. CurrentStage \in Stage /\ run.nextStage = CurrentStage
    BY <1>8 DEF CompleteStage, StagesOK, RunsOK, CurrentStage
  <2>5. CASE outcome.remediation
    <3>1. CurrentStage \in {"verify", "accept"}
      BY <1>8, <2>5 DEF CompleteStage, DescentInv, AfterStage
    <3>2. StagesLeft = StagesFrom("slice-loop") + 1
      BY <1>8, <2>5 DEF CompleteStage, StagesLeft, AfterStage
    <3>3. NextStageFor(CurrentStage, outcome.remediation) = "slice-loop"
      BY <2>5, <3>1 DEF NextStageFor
    <3>4. StagesLeft' < StagesLeft
      BY <2>3, <3>2, <3>3 DEF StagesFrom
    <3>5. QED
      BY <1>8, <2>2, <3>4, BudgetSteps DEF Falls, CompleteStage
  <2>6. CASE ~outcome.remediation
    <3>1. StagesLeft = StagesFrom(CurrentStage)
      BY <2>4, <2>6 DEF StagesLeft
    <3>2. StagesFrom(NextStageFor(CurrentStage, FALSE)) < StagesFrom(CurrentStage)
      BY <2>4, FollowsIsNext, FollowsIsNearer
    <3>3. NextStageFor(CurrentStage, outcome.remediation) = NextStageFor(CurrentStage, FALSE)
      BY <2>6 DEF RunsOK, Outcome
    <3>4. QED
      BY <1>8, <2>2, <2>3, <3>1, <3>2, <3>3, BudgetSteps DEF Falls, CompleteStage
  <2>7. QED
    BY <2>5, <2>6
<1>9. QED
  BY <1>1, <1>2, <1>3, <1>4, <1>5, <1>6, <1>7, <1>8 DEF PipelineLoop

\* The steps of the stages before the slice loop.
LEMMA EarlyFalls == ControlOK /\ OtherTypes /\ EarlyStages => Falls
<1> SUFFICES ASSUME ControlOK, OtherTypes, EarlyStages PROVE Falls
  OBVIOUS
<1>1. "stage" \in StagePc \ {"gate"} /\ "structure" \in StagePc \ {"gate"}
  BY DEF StagePc
<1>2. CASE GoalsWithoutTask \/ SkeletonEarlyPass \/ SkeletonFails \/ BaselineEarlyPass
  BY <1>1, <1>2, ReturnFalls, RemediationAsked
     DEF GoalsWithoutTask, SkeletonEarlyPass, SkeletonFails, BaselineEarlyPass, AtStage
<1>3. CASE GoalsStage \/ ResearchStage
  BY <1>1, <1>3, ReturnFalls, RemediationAsked
     DEF GoalsStage, ResearchStage, DocumentStage, AtStage
<1>4. CASE DesignStage \/ BaselineCheck
  BY <1>1, <1>4, ReturnFalls, RemediationAsked DEF DesignStage, BaselineCheck, AtStage
<1>5. CASE SkeletonBuilt \/ CarryForward \/ WriteSkeletonResults
  BY <1>5, MoveFalls
     DEF SkeletonBuilt, CarryForward, WriteSkeletonResults, memory, AtStage, BeforePc, StepsFrom
<1>6. CASE ReviewStructure
  BY <1>1, <1>6, ReturnFalls, RemediationAsked DEF ReviewStructure
<1>7. QED
  BY <1>2, <1>3, <1>4, <1>5, <1>6 DEF EarlyStages

\* The steps of verify, accept and report.
LEMMA LateFalls == ControlOK /\ OtherTypes /\ LateStages => Falls
<1> SUFFICES ASSUME ControlOK, OtherTypes, LateStages PROVE Falls
  OBVIOUS
<1>1. "stage" \in StagePc \ {"gate"} /\ "remediate" \in StagePc \ {"gate"}
  BY DEF StagePc
<1>2. CASE RunVerifier \/ RunAcceptance
  <2>1. /\ pc = "stage" /\ UNCHANGED <<spent, run>>
        /\ Return(Passed) \/ pc' = "remediate"
    BY <1>2 DEF RunVerifier, RunAcceptance, AtStage
  <2>2. CASE Return(Passed)
    BY <1>1, <2>1, <2>2, ReturnFalls, RemediationAsked
  <2>3. CASE pc' = "remediate"
    BY <2>1, <2>3, MoveFalls DEF BeforePc, StepsFrom
  <2>4. QED
    BY <2>1, <2>2, <2>3
<1>3. CASE Remediate
  BY <1>3, SpendFalls DEF Remediate, Event
<1>4. CASE NoRemediation \/ ReportStage
  BY <1>1, <1>4, ReturnFalls, RemediationAsked DEF NoRemediation, ReportStage, AtStage
<1>5. QED
  BY <1>2, <1>3, <1>4 DEF LateStages

\* The steps of the environment.
LEMMA EnvironmentFalls == OtherTypes /\ Environment => Falls
<1> SUFFICES ASSUME OtherTypes, Environment PROVE Falls
  OBVIOUS
<1>1. CASE Throw \/ Crash
  BY <1>1, SpendFalls DEF Throw, Crash, Event
<1>2. CASE Resume
  <2>1. CASE pc = "stopped"
    BY <1>2, <2>1, SpendFalls DEF Resume, Event
  <2>2. CASE pc # "stopped"
    BY <1>2, <2>2, PhaseFalls DEF Resume, PhasesLeft
  <2>3. QED
    BY <2>1, <2>2
<1>3. QED
  BY <1>1, <1>2 DEF Environment

\* A slice that is done takes its attempts with it.
LEMMA DoneUsesAttempts ==
  ASSUME RunsOK, QueueTypes, DescentInv, ReflectAndMarkDone
  PROVE  AttemptsLeft' \subseteq AttemptsLeft /\ AttemptsLeft' # AttemptsLeft
<1> DEFINE s == CurrentSlice
<1>1. pc = "reflect" /\ pc' = "saveDone" /\ s \in Undone(queue)
  BY DEF ReflectAndMarkDone, WriteQueue, DescentInv, BuildingPc
<1>2. /\ Undone(queue') = Undone(queue) \ {s}
      /\ sliceRun'.requeueCounts = sliceRun.requeueCounts
  BY UndoneSteps DEF ReflectAndMarkDone, WriteQueue, QueueTypes, MarkSliceDone, RunsOK, RunOK,
                     RunFields
<1>3. s \in SliceId /\ sliceRun.requeueCounts[s] \in 0 .. MaxRequeue
  BY <1>1, IdsWithType DEF Undone, QueueTypes, RunsOK, RunOK
<1>4. /\ AttemptsLeft = {a \in Undone(queue) \X (0 .. MaxRequeue) :
                           a[2] >= sliceRun.requeueCounts[a[1]]}
      /\ AttemptsLeft' = {a \in (Undone(queue) \ {s}) \X (0 .. MaxRequeue) :
                            a[2] >= sliceRun.requeueCounts[a[1]]}
  BY <1>1, <1>2 DEF AttemptsLeft, Undone, AttemptPc, SliceLoopPc
<1> HIDE DEF s
<1>5. <<s, MaxRequeue>> \in AttemptsLeft /\ <<s, MaxRequeue>> \notin AttemptsLeft'
  BY <1>1, <1>3, <1>4, CapAssumption
<1>6. QED
  BY <1>4, <1>5

\* An attempt that is requeued is used up.
LEMMA RequeueUsesAttempts ==
  ASSUME RunsOK, QueueTypes, DescentInv, RequeueFailed
  PROVE  AttemptsLeft' \subseteq AttemptsLeft /\ AttemptsLeft' # AttemptsLeft
<1> DEFINE s == CurrentSlice
           counts == sliceRun.requeueCounts
<1>1. pc = "failed" /\ pc' = "saveRequeue" /\ s \in Undone(queue)
  BY DEF RequeueFailed, WriteQueue, DescentInv, BuildingPc
<1>2. Undone(queue') = Undone(queue)
  BY <1>1, UndoneSteps DEF RequeueFailed, WriteQueue, QueueTypes
<1>3. s \in SliceId /\ Undone(queue) \subseteq SliceId
  BY <1>1, IdsWithType DEF Undone, QueueTypes
<1>4. counts \in [SliceId -> 0 .. MaxRequeue] /\ counts[s] + 1 <= MaxRequeue
  BY <1>3, CapAssumption DEF RunsOK, RunOK, RequeueFailed, RequeueCapped
<1>5. sliceRun'.requeueCounts = [counts EXCEPT ![s] = @ + 1]
  BY DEF RequeueFailed, WriteQueue, RequeueSlice, RunsOK, RunOK, RunFields
<1>6. /\ AttemptsLeft = {a \in Undone(queue) \X (0 .. MaxRequeue) : a[2] >= counts[a[1]]}
      /\ AttemptsLeft' = {a \in Undone(queue) \X (0 .. MaxRequeue) :
                            a[2] >= [counts EXCEPT ![s] = @ + 1][a[1]]}
  BY <1>1, <1>2, <1>5 DEF AttemptsLeft, Undone, AttemptPc, SliceLoopPc
<1> HIDE DEF s, counts
<1>7. \A a \in Undone(queue) \X (0 .. MaxRequeue) :
        a[2] >= [counts EXCEPT ![s] = @ + 1][a[1]] => a[2] >= counts[a[1]]
  <2> SUFFICES ASSUME NEW u \in Undone(queue), NEW k \in 0 .. MaxRequeue,
                      k >= [counts EXCEPT ![s] = @ + 1][u]
               PROVE  k >= counts[u]
    OBVIOUS
  <2>1. u \in SliceId /\ counts[u] \in Nat
    BY <1>3, <1>4
  <2>2. QED
    BY <2>1, <1>4
<1>8. <<s, counts[s]>> \in AttemptsLeft
  BY <1>1, <1>3, <1>4, <1>6, CapAssumption
<1>9. <<s, counts[s]>> \notin AttemptsLeft'
  BY <1>3, <1>4, <1>6
<1>10. QED
  BY <1>6, <1>7, <1>8, <1>9

\* The slice loop's steps.
LEMMA SliceLoopFalls ==
  ControlOK /\ RunsOK /\ QueueTypes /\ RunTypes /\ OtherTypes /\ DescentInv /\ SliceLoop => Falls
<1> SUFFICES ASSUME ControlOK, RunsOK, QueueTypes, RunTypes, OtherTypes, DescentInv, SliceLoop
             PROVE  Falls
  OBVIOUS
<1>0. {"stage", "select", "classify"} \subseteq StagePc \ {"gate"}
  BY DEF StagePc, SliceLoopPc
<1>1. CASE BuildQueue
  <2>1. Return(Escalation("LOOP_DESIGN", "unparsed")) \/ pc' = "select"
    BY <1>1 DEF BuildQueue, EnterLoop
  <2>2. UNCHANGED <<spent, run>> /\ pc = "stage"
    BY <1>1 DEF BuildQueue, AtStage
  <2>3. QED
    BY <1>0, <2>1, <2>2, EnterFalls, ReturnFalls, RemediationAsked
<1>2. CASE ResumeQueue \/ ClearFlag
  BY <1>2, EnterFalls DEF ResumeQueue, ClearFlag, EnterLoop, AtStage
<1>3. CASE ReconcileQueue
  BY <1>3, MoveFalls DEF ReconcileQueue, AtStage, BeforePc, StepsFrom
<1>4. CASE SelectSlice
  <2> DEFINE id == FirstReady(Promote(queue)).id
  <2>1. Undone(MarkBuilding(Promote(queue), id)) = Undone(queue)
    BY <1>4, TakenIsUndone DEF SelectSlice, QueueTypes
  <2>2. /\ queue' = MarkBuilding(Promote(queue), id)
        /\ sliceRun' = MarkSliceBuilding(sliceRun, id) /\ pc' = "saveBuilding"
        /\ pc = "select" /\ UNCHANGED <<run, spent>>
    BY <1>4 DEF SelectSlice, WriteQueue
  <2> HIDE DEF id
  <2>3. AttemptsLeft' = AttemptsLeft
    BY <2>1, <2>2, SameAttempts, SameCounts DEF RunTypes, AttemptPc, SliceLoopPc
  <2>4. QED
    BY <2>2, <2>3, AttemptFalls DEF AttemptPc, SliceLoopPc, StepsFrom
<1>5. CASE LoopPasses \/ ClassifyEscalation
  BY <1>0, <1>5, ReturnFalls, RemediationAsked DEF LoopPasses, ClassifyEscalation
<1>6. CASE \/ SaveBuilding \/ SaveDone \/ SaveRequeue \/ SaveEscalated
           \/ PlanSlice \/ CheckFeasibility \/ ImplementSlice \/ CheckDone \/ CheckEvidence
           \/ AskForLoop
  <2>1. /\ pc \in AttemptPc /\ pc' \in AttemptPc /\ StepsFrom[pc'] < StepsFrom[pc]
        /\ UNCHANGED <<queue, sliceRun, run, spent>>
    BY <1>6 DEF SaveBuilding, SaveDone, SaveRequeue, SaveEscalated, SaveSliceRun, PlanSlice,
                CheckFeasibility, ImplementSlice, CheckDone, CheckEvidence, AskForLoop, SubStep,
                memory, AttemptPc, SliceLoopPc, StepsFrom
  <2>2. AttemptsLeft' = AttemptsLeft
    BY <2>1, SameAttempts
  <2>3. QED
    BY <2>1, <2>2, AttemptFalls
<1>7. CASE ReflectAndMarkDone
  <2>1. /\ pc \in AttemptPc /\ pc' \in AttemptPc /\ UNCHANGED <<run, spent>>
    BY <1>7 DEF ReflectAndMarkDone, WriteQueue, AttemptPc, SliceLoopPc
  <2>2. QED
    BY <1>7, <2>1, DoneUsesAttempts, AttemptFalls
<1>8. CASE RequeueFailed
  <2>1. /\ pc \in AttemptPc /\ pc' \in AttemptPc /\ UNCHANGED <<run, spent>>
    BY <1>8 DEF RequeueFailed, WriteQueue, AttemptPc, SliceLoopPc
  <2>2. QED
    BY <1>8, <2>1, RequeueUsesAttempts, AttemptFalls
<1>9. CASE EscalateFailed
  <2>1. /\ pc \in {"escalating", "failed"} /\ pc' = "saveEscalated"
        /\ queue' = Escalate(queue, CurrentSlice)
        /\ sliceRun' = EscalateSlice(sliceRun, CurrentSlice)
        /\ UNCHANGED <<run, spent>>
    BY <1>9 DEF EscalateFailed, WriteQueue
  <2>2. CurrentSlice \in Undone(queue)
    BY <2>1 DEF DescentInv, BuildingPc
  <2>3. AttemptsLeft' = AttemptsLeft
    BY <2>1, <2>2, UndoneSteps, SameAttempts, SameCounts
       DEF QueueTypes, RunTypes, AttemptPc, SliceLoopPc
  <2>4. QED
    BY <2>1, <2>3, AttemptFalls DEF AttemptPc, SliceLoopPc, StepsFrom
<1>10. QED
  BY <1>1, <1>2, <1>3, <1>4, <1>5, <1>6, <1>7, <1>8, <1>9 DEF SliceLoop

\* Every step, of the program or of its environment, leaves less of a tuple of
\* numbers: whatever the stages return, whatever is requeued, escalated,
\* reconciled or proposed, and whenever the process fails and is resumed, with
\* writes torn or not.  With NoEndlessDescent no run takes steps for ever, once
\* the environment has done what it may.
THEOREM EveryStepUsesUp == Spec => EveryStepCounts
<1> DEFINE Known == /\ ControlOK /\ RunsOK /\ StagesOK /\ DescentInv /\ SpentInv
                    /\ QueueTypes /\ RunTypes /\ OtherTypes
           Typed == Remaining \in Tuples(7)
<1>1. Spec => []Known
  BY AlwaysControlOK, RunsAlwaysOK, AlwaysStagesOK, AlwaysDescent, AlwaysSpent, AlwaysTypes, PTL
<1>2. Known => Typed
  BY RemainingType
<1>3. Known /\ Typed /\ Typed' /\ [Next]_vars => [UsesUp]_vars
  <2> SUFFICES ASSUME Known, Typed, Typed', Next, ~UNCHANGED vars PROVE UsesUp
    OBVIOUS
  <2>1. Falls
    BY PipelineFalls, EarlyFalls, SliceLoopFalls, LateFalls, EnvironmentFalls
       DEF Next, Program, Terminated
  <2>2. QED
    BY <2>1, FallsIsLess
<1>4. QED
  BY <1>1, <1>2, <1>3, PTL DEF Spec, EveryStepCounts
=============================================================================
