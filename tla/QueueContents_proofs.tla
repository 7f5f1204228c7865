------------------------ MODULE QueueContents_proofs ------------------------
(***************************************************************************)
(* What slice-queue.md contains when the slice loop and the stages behind  *)
(* it read it, for every number of slices, every design and proposal and   *)
(* every cap: slices of the current design, none lost that was done, none  *)
(* built too early, and all of them done once verify begins.               *)
(***************************************************************************)
EXTENDS QueueUse_proofs

-----------------------------------------------------------------------------
(***************************************************************************)
(* The slice loop works on the current design.  Until something is         *)
(* remediated, every Run that names a stage either carries the flag that   *)
(* asks for a reconciliation, or the queue fits the design and design will *)
(* not be written again.                                                   *)
(***************************************************************************)

\* What of q is still to be built is the design's.
Fits(q, d) == \A i \in DOMAIN q : q[i].status = "done" \/ q[i].id \in DesignIds(d)

UpToDesign == {"goals", "research", "design"}

FitsOrTold(r) ==
  queueFile # None => \/ r.pendingReconcile
                      \/ Fits(queueFile, design) /\ r.nextStage \notin UpToDesign

FitInv == /\ pc # "down" => FitsOrTold(run)
          /\ pc \in StagePc => FitsOrTold(snap)
          /\ stateFile # None => FitsOrTold(stateFile)
          /\ pc \in SliceLoopPc => Fits(queueFile, design)

NotRemediated == spent["remediation"] = 0

\* An event that has not happened did not happen before, and does not in this step.
LEMMA EventsCount ==
  ASSUME OtherTypes, [Next]_vars, NEW e \in Event, spent'[e] = 0
  PROVE  spent[e] = 0 /\ ~Spend(e)
<1>1. spent \in [Event -> Nat]
  BY DEF OtherTypes
<1>2. ~Spend(e)
  BY <1>1 DEF Spend
<1>3. spent' = spent \/ \E x \in Event : Spend(x)
  <2> USE DEF Event
  <2>1. CASE UNCHANGED vars
    BY <2>1 DEF vars
  <2>2. CASE PipelineLoop
    BY <2>2 DEF PipelineLoop, SaveStart, FinishRun, EnterStage, PassGate, GateRejects,
              GateApproves, GateRetries, Resync, StopOnEscalation, FollowEscalation,
              StopOnFail, CompleteStage
  <2>3. CASE EarlyStages
    BY <2>3 DEF EarlyStages, GoalsWithoutTask, GoalsStage, ResearchStage, DocumentStage,
              DesignStage, SkeletonEarlyPass, SkeletonFails, SkeletonBuilt, CarryForward,
              WriteSkeletonResults, ReviewStructure, BaselineEarlyPass, BaselineCheck
  <2>4. CASE SliceLoop
    BY <2>4 DEF SliceLoop, BuildQueue, ResumeQueue, ReconcileQueue, ClearFlag, SelectSlice,
              LoopPasses, SaveBuilding, PlanSlice, CheckFeasibility, ImplementSlice,
              CheckDone, CheckEvidence, AskForLoop, ReflectAndMarkDone, SaveDone,
              RequeueFailed, SaveRequeue, EscalateFailed, SaveEscalated,
              ClassifyEscalation, SubStep, SaveSliceRun
  <2>5. CASE LateStages
    BY <2>5 DEF LateStages, RunVerifier, RunAcceptance, Remediate, NoRemediation,
              ReportStage
  <2>6. CASE Environment
    BY <2>6 DEF Environment, Throw, Crash, Resume
  <2>7. QED
    BY <2>1, <2>2, <2>3, <2>4, <2>5, <2>6 DEF Next, Program, Terminated
<1>4. \A x \in Event : Spend(x) => spent'[e] = spent[e] \/ x = e
  BY <1>1 DEF Spend
<1>5. QED
  BY <1>2, <1>3, <1>4

\* Until something is remediated, no step is a remediation.
LEMMA NothingRemediated ==
  ASSUME OtherTypes, [Next]_vars, NotRemediated'
  PROVE  NotRemediated /\ ~Remediate
<1>1. "remediation" \in Event
  BY DEF Event
<1>2. QED
  BY <1>1, EventsCount DEF NotRemediated, Remediate

\* The slice loop's mutations of a slice that is the design's, or done.
LEMMA FitsMutations ==
  ASSUME NEW q \in Seq(Slice), NEW d, Fits(q, d)
  PROVE  /\ Fits(ReadBack(q), d)
         /\ Fits(Promote(q), d)
         /\ \A id : Fits(MarkDone(q, id), d)
         /\ \A id \in DesignIds(d) : /\ Fits(MarkBuilding(q, id), d)
                                     /\ Fits(Requeue(q, id), d)
                                     /\ Fits(Escalate(q, id), d)
<1>1. Fits(ReadBack(q), d)
  BY ReadBackFacts DEF Fits
<1>2. Fits(Promote(q), d)
  <2>1. /\ SameSlices(q, Promote(q)) /\ DOMAIN Promote(q) = DOMAIN q
        /\ \A i \in DOMAIN q : q[i].status = "done" => Promote(q)[i].status = "done"
    BY PromoteFacts, SameDomain
  <2>2. QED
    BY <2>1 DEF Fits, SameSlices
<1>3. ASSUME NEW id, NEW st \in Status, st = "done" \/ id \in DesignIds(d)
      PROVE  Fits(SetStatus(q, id, st), d)
  <2> DEFINE r == SetStatus(q, id, st)
  <2>1. /\ DOMAIN r = DOMAIN q
        /\ \A i \in DOMAIN q : /\ r[i].id = q[i].id
                               /\ r[i].status = IF q[i].id = id THEN st ELSE q[i].status
    BY SetStatusFacts, SameDomain DEF SameSlices
  <2> HIDE DEF r
  <2>2. QED
    BY <1>3, <2>1 DEF Fits, r
<1>4. ASSUME NEW id \in DesignIds(d) PROVE Fits(Requeue(q, id), d)
  <2> DEFINE r == Requeue(q, id)
  <2>1. /\ DOMAIN r = DOMAIN q
        /\ \A i \in DOMAIN q : /\ r[i].id = q[i].id
                               /\ r[i].status = IF q[i].id = id THEN "ready" ELSE q[i].status
    BY RequeueFacts, SameDomain DEF SameSlices
  <2> HIDE DEF r
  <2>2. QED
    BY <2>1 DEF Fits, r
<1>5. {"building", "done", "escalated"} \subseteq Status
  BY DEF Status
<1>6. QED
  BY <1>1, <1>2, <1>3, <1>4, <1>5 DEF MarkDone, MarkBuilding, Escalate

\* The slice that is taken is ready, and so the design's.
LEMMA FitsTaken ==
  ASSUME NEW q \in Seq(Slice), NEW d, Fits(q, d), HasReady(Promote(q))
  PROVE  Fits(MarkBuilding(Promote(q), FirstReady(Promote(q)).id), d)
<1> DEFINE p == Promote(q)
<1>1. p \in Seq(Slice) /\ HasReady(p) /\ Fits(p, d)
  BY MutationTypes, FitsMutations
<1> HIDE DEF p
<1>2. PICK i \in DOMAIN p : FirstReady(p) = p[i] /\ p[i].status = "ready"
  BY <1>1, FirstReadyFacts
<1>3. FirstReady(p).id \in DesignIds(d)
  BY <1>1, <1>2 DEF Fits
<1>4. QED
  BY <1>1, <1>3, FitsMutations DEF p

\* So is a slice that is being built.
LEMMA FitsBuilding ==
  ASSUME NEW q, NEW d, Fits(q, d), NEW id \in IdsWith(q, {"building"})
  PROVE  id \in DesignIds(d)
BY DEF Fits, IdsWith

\* A queue made from the design fits it.
LEMMA FitsNew ==
  ASSUME NEW d, IsDesign(d)
  PROVE  /\ Fits(BuildInitial(d), d)
         /\ Fits(AllDone(d), d)
         /\ \A q \in Seq(Slice) : Fits(Reconcile(q, d), d)
<1>1. /\ DOMAIN ParseDesign(d) = DOMAIN d.slices
      /\ \A i \in DOMAIN d.slices : ParseDesign(d)[i].id \in DesignIds(d)
  BY ParseDesignFacts DEF DesignIds
<1>2. ASSUME NEW q \in Seq(Slice) PROVE Fits(Reconcile(q, d), d)
  <2>1. IsReconciliation(Reconcile(q, d), q, d)
    BY ReconcileFacts
  <2>2. QED
    BY <1>1, <2>1 DEF IsReconciliation, Fits
<1>3. QED
  BY <1>1, <1>2, AllDoneFacts DEF Fits, BuildInitial

\* The pipeline loop keeps FitInv: it gets past design with the flag, or not before.
LEMMA PipelineFits ==
  ControlOK /\ RunsOK /\ StagesOK /\ RunTypes /\ FitInv /\ PipelineLoop => FitInv'
<1> SUFFICES ASSUME ControlOK, RunsOK, StagesOK, RunTypes, FitInv, PipelineLoop PROVE FitInv'
  OBVIOUS
<1> USE DEF FitInv, FitsOrTold, StagePc, SliceLoopPc
<1>1. CASE SaveStart
  BY <1>1 DEF SaveStart, memory
<1>2. CASE FinishRun \/ PassGate \/ GateRejects \/ GateRetries
  BY <1>2 DEF FinishRun, PassGate, GateRejects, GateRetries, AtGate, memory, durable
<1>3. CASE EnterStage
  BY <1>3 DEF EnterStage, durable
<1>4. CASE GateApproves
  BY <1>4 DEF GateApproves, AtGate, durable
<1>5. CASE Resync
  BY <1>5 DEF Resync, Reload, durable
<1>6. CASE StopOnEscalation \/ StopOnFail
  BY <1>6 DEF StopOnEscalation, StopOnFail, memory
<1>7. CASE FollowEscalation
  <2>1. \A loop, fp : LoopBack(run, loop, fp).pendingReconcile = TRUE
    BY DEF LoopBack, RunTypes, RunRecord
  <2>2. QED
    BY <1>7, <2>1 DEF FollowEscalation
<1>8. CASE CompleteStage
  <2> DEFINE new == CompleteStageIn(run, CurrentStage, outcome.remediation)
  <2>1. CurrentStage \in Stage /\ run.nextStage = CurrentStage
    BY <1>8 DEF RunsOK, CurrentStage, CompleteStage, StagesOK
  <2>2. new.nextStage = NextStageFor(CurrentStage, outcome.remediation)
        /\ new.pendingReconcile = run.pendingReconcile
    BY DEF CompleteStageIn, RunTypes, RunRecord
  <2>3. CurrentStage \notin UpToDesign
          => NextStageFor(CurrentStage, outcome.remediation) \notin UpToDesign
    BY <2>1 DEF NextStageFor, Stage, UpToDesign
  <2>4. FitsOrTold(run)
    BY <1>8 DEF CompleteStage
  <2>5. FitsOrTold(new)
    BY <2>1, <2>2, <2>3, <2>4
  <2>6. run' = new /\ stateFile' = new /\ pc' = "next" /\ UNCHANGED <<queueFile, design>>
    BY <1>8 DEF CompleteStage
  <2> HIDE DEF new
  <2>7. QED
    BY <2>5, <2>6
<1>9. QED
  BY <1>1, <1>2, <1>3, <1>4, <1>5, <1>6, <1>7, <1>8 DEF PipelineLoop

\* The stages before the slice loop keep FitInv: design is written with the flag
\* set, or before there is a queue.
LEMMA EarlyFits ==
  ControlOK /\ StagesOK /\ DesignInv /\ FitInv /\ EarlyStages => FitInv'
<1> SUFFICES ASSUME ControlOK, StagesOK, DesignInv, FitInv, EarlyStages PROVE FitInv'
  OBVIOUS
<1> USE DEF FitInv, FitsOrTold, StagePc, SliceLoopPc, AtStage, Return
<1>1. CASE GoalsWithoutTask \/ SkeletonEarlyPass \/ SkeletonFails \/ BaselineEarlyPass
  BY <1>1 DEF GoalsWithoutTask, SkeletonEarlyPass, SkeletonFails, BaselineEarlyPass, durable
<1>2. CASE GoalsStage \/ ResearchStage
  BY <1>2 DEF GoalsStage, ResearchStage, DocumentStage
<1>3. CASE DesignStage
  <2>1. /\ run.nextStage \in UpToDesign /\ snap.nextStage \in UpToDesign
        /\ stateFile # None => stateFile.nextStage \in UpToDesign
    BY <1>3 DEF DesignStage, StagesOK, CurrentStage, UpToDesign
  <2>2. QED
    BY <1>3, <2>1 DEF DesignStage
<1>4. CASE SkeletonBuilt \/ WriteSkeletonResults \/ ReviewStructure \/ BaselineCheck
  BY <1>4 DEF SkeletonBuilt, WriteSkeletonResults, ReviewStructure, BaselineCheck, memory,
              durable
<1>5. CASE CarryForward
  <2>1. /\ run.nextStage = "skeleton" /\ snap.nextStage = "skeleton"
        /\ stateFile # None => stateFile.nextStage = "skeleton"
    BY <1>5 DEF CarryForward, StagesOK, ControlOK, SkeletonPc, CurrentStage
  <2>2. Fits(queueFile', design)
    BY <1>5, WritersDesigned, FitsNew DEF CarryForward
  <2>3. QED
    BY <1>5, <2>1, <2>2 DEF CarryForward, memory, UpToDesign
<1>6. QED
  BY <1>1, <1>2, <1>3, <1>4, <1>5 DEF EarlyStages

\* The slice loop keeps FitInv: it starts from a queue that fits, and makes it fit
\* where it is told to.
LEMMA SliceLoopFits ==
  ControlOK /\ RunsOK /\ StagesOK /\ DesignInv /\ QueueTypes /\ HoldInv /\ FitInv /\ SliceLoop
    => FitInv'
<1> SUFFICES ASSUME ControlOK, RunsOK, StagesOK, DesignInv, QueueTypes, HoldInv, FitInv,
                    SliceLoop
             PROVE  FitInv'
  OBVIOUS
<1>1. /\ pc \in SliceLoopPc \/ AtStage("slice-loop")
      /\ run.nextStage = "slice-loop" /\ snap.nextStage = "slice-loop"
      /\ stateFile # None => stateFile.nextStage = "slice-loop"
      /\ pc \in SliceLoopPc \ {"clearFlag"} => sliceRun.nextStage = "slice-loop"
  <2>1. pc \in SliceLoopPc \/ AtStage("slice-loop")
    BY DEF SliceLoop, BuildQueue, ResumeQueue, ReconcileQueue, ClearFlag, SelectSlice,
           LoopPasses, SaveBuilding, PlanSlice, CheckFeasibility, ImplementSlice, CheckDone,
           CheckEvidence, AskForLoop, ReflectAndMarkDone, SaveDone, RequeueFailed,
           SaveRequeue, EscalateFailed, SaveEscalated, ClassifyEscalation, SubStep,
           SaveSliceRun, SliceLoopPc
  <2>2. QED
    BY <2>1 DEF StagesOK, ControlOK, CurrentStage, AtStage, StagePc
<1>2. /\ pc \in SliceLoopPc => queueFile \in Seq(Slice) /\ Fits(queueFile, design)
                                /\ Fits(queue, design) /\ queue \in Seq(Slice)
      /\ pc \in BuildingPc => /\ CurrentSlice \in IdsWith(queue, {"building"})
                              /\ CurrentSlice \in DesignIds(design)
  BY FitsMutations, FitsBuilding DEF HoldInv, QueueTypes, FitInv, SliceLoopPc, BuildingPc
<1>3. ASSUME UNCHANGED <<run, snap, design>>, Fits(queueFile', design), pc' # "down",
             stateFile' # None => stateFile'.nextStage = "slice-loop"
      PROVE  FitInv'
  BY <1>1, <1>3 DEF FitInv, FitsOrTold, UpToDesign
<1>4. CASE BuildQueue
  <2>1. queueFile' = BuildInitial(design) /\ pc' # "down"
        /\ UNCHANGED <<run, snap, design, stateFile>>
    BY <1>4 DEF BuildQueue, EnterLoop, Return
  <2>2. Fits(queueFile', design)
    BY <1>4, <2>1, WritersDesigned, FitsNew
  <2>3. QED
    BY <1>1, <1>3, <2>1, <2>2
<1>5. CASE ResumeQueue
  <2>1. Fits(queueFile, design)
    BY <1>5 DEF ResumeQueue, AtStage, FitInv, FitsOrTold, StagePc
  <2>2. UNCHANGED <<run, snap, design, queueFile, stateFile>> /\ pc' # "down"
    BY <1>5 DEF ResumeQueue, EnterLoop, durable
  <2>3. QED
    BY <1>1, <1>3, <2>1, <2>2
<1>6. CASE ReconcileQueue
  <2>1. queueFile' = Reconcile(ReadBack(queueFile), design) /\ pc' # "down"
        /\ UNCHANGED <<run, snap, design, stateFile>>
    BY <1>6 DEF ReconcileQueue, Reconciled
  <2>2. ReadBack(queueFile) \in Seq(Slice)
    BY <1>6, ReadBackFacts DEF ReconcileQueue, QueueTypes
  <2>3. Fits(queueFile', design)
    BY <1>6, <2>1, <2>2, WritersDesigned, FitsNew
  <2>4. QED
    BY <1>1, <1>3, <2>1, <2>3
<1>7. CASE ClearFlag
  <2>1. stateFile' = ClearReconcile(snap) /\ pc' # "down" /\ Fits(queueFile, design)
        /\ UNCHANGED <<run, snap, design, queueFile>>
    BY <1>2, <1>7 DEF ClearFlag, EnterLoop, SliceLoopPc
  <2>2. ClearReconcile(snap).nextStage = "slice-loop"
    BY <1>1, SliceRunOK DEF RunsOK
  <2>3. QED
    BY <1>3, <2>1, <2>2
<1>8. CASE SelectSlice \/ ReflectAndMarkDone \/ RequeueFailed \/ EscalateFailed
  <2>1. pc' # "down" /\ UNCHANGED <<run, snap, design, stateFile>>
    BY <1>8 DEF SelectSlice, ReflectAndMarkDone, RequeueFailed, EscalateFailed, WriteQueue
  <2>2. Fits(queueFile', design)
    <3>1. CASE SelectSlice
      BY <1>2, <3>1, FitsTaken DEF SelectSlice, WriteQueue, SliceLoopPc
    <3>2. CASE ReflectAndMarkDone
      BY <1>2, <3>2, FitsMutations DEF ReflectAndMarkDone, WriteQueue, SliceLoopPc
    <3>3. CASE RequeueFailed \/ EscalateFailed
      BY <1>2, <3>3, FitsMutations
         DEF RequeueFailed, EscalateFailed, WriteQueue, SliceLoopPc, BuildingPc
    <3>4. QED
      BY <1>8, <3>1, <3>2, <3>3
  <2>3. QED
    BY <1>1, <1>3, <2>1, <2>2
<1>9. CASE SaveBuilding \/ SaveDone \/ SaveRequeue \/ SaveEscalated
  <2>1. stateFile' = sliceRun /\ pc' # "down" /\ pc \in SliceLoopPc \ {"clearFlag"}
        /\ UNCHANGED <<run, snap, design, queueFile>>
    BY <1>9 DEF SaveBuilding, SaveDone, SaveRequeue, SaveEscalated, SaveSliceRun, memory,
                SliceLoopPc
  <2>2. QED
    BY <1>1, <1>2, <1>3, <2>1
<1>10. CASE PlanSlice \/ CheckFeasibility \/ ImplementSlice \/ CheckDone \/ CheckEvidence
            \/ AskForLoop \/ LoopPasses \/ ClassifyEscalation
  <2>1. UNCHANGED <<run, snap, design, queueFile, stateFile>> /\ pc' # "down"
        /\ pc \in SliceLoopPc
    BY <1>10 DEF PlanSlice, CheckFeasibility, ImplementSlice, CheckDone, CheckEvidence,
                 AskForLoop, LoopPasses, ClassifyEscalation, SubStep, Return, memory,
                 durable, SliceLoopPc
  <2>2. QED
    BY <1>1, <1>2, <1>3, <2>1
<1>11. QED
  BY <1>4, <1>5, <1>6, <1>7, <1>8, <1>9, <1>10 DEF SliceLoop

\* Verify, accept and report keep FitInv, as long as they remediate nothing.
LEMMA LateFits == ControlOK /\ FitInv /\ LateStages /\ ~Remediate => FitInv'
<1> SUFFICES ASSUME ControlOK, FitInv, LateStages, ~Remediate PROVE FitInv'
  OBVIOUS
<1> USE DEF FitInv, FitsOrTold, StagePc, SliceLoopPc, AtStage, Return
<1>1. CASE RunVerifier \/ RunAcceptance \/ ReportStage
  BY <1>1 DEF RunVerifier, RunAcceptance, ReportStage
<1>2. CASE NoRemediation
  BY <1>2 DEF NoRemediation, durable
<1>3. QED
  BY <1>1, <1>2 DEF LateStages

\* Throws, crashes and resumes keep FitInv: state.json survives them.
LEMMA EnvironmentFits ==
  ~TornWrites /\ StateKept /\ FitInv /\ Environment => FitInv'
<1> SUFFICES ASSUME ~TornWrites, StateKept, FitInv, Environment PROVE FitInv'
  OBVIOUS
<1> USE DEF FitInv, FitsOrTold, StagePc, SliceLoopPc
<1>1. CASE Throw
  BY <1>1 DEF Throw, AtGate, durable
<1>2. CASE Crash
  BY <1>2 DEF Crash, Restart
<1>3. CASE Resume
  <2>1. stateFile = None => queueFile = None
    BY DEF StateKept
  <2>2. stateFile # None => RecoveredRun = stateFile
    BY DEF RecoveredRun
  <2>3. QED
    BY <1>3, <2>1, <2>2 DEF Resume, Restart, durable
<1>4. QED
  BY <1>1, <1>2, <1>3 DEF Environment

\* FitInv holds until something is remediated.
LEMMA AlwaysFits == ~TornWrites /\ Spec => [](NotRemediated => FitInv)
<1> SUFFICES ASSUME ~TornWrites PROVE Spec => [](NotRemediated => FitInv)
  OBVIOUS
<1>1. Init => FitInv
  BY DEF Init, FitInv, FitsOrTold, StagePc, SliceLoopPc
<1>2. ControlOK /\ RunsOK /\ StagesOK /\ DesignInv /\ QueueTypes /\ RunTypes /\ OtherTypes
        /\ StateKept /\ HoldInv /\ (NotRemediated => FitInv) /\ [Next]_vars
        => (NotRemediated => FitInv)'
  <2>1. FitInv /\ UNCHANGED vars => FitInv'
    BY DEF FitInv, FitsOrTold, vars, memory, durable
  <2>2. QED
    BY <2>1, NothingRemediated, PipelineFits, EarlyFits, SliceLoopFits, LateFits,
       EnvironmentFits DEF Next, Program, Terminated
<1>3. QED
  BY <1>1, <1>2, AlwaysControlOK, RunsAlwaysOK, AlwaysStagesOK, AlwaysDesignInv, AlwaysTypes,
     AlwaysStateKept, AlwaysHolds, PTL DEF Spec

\* When the slice loop selects, each slice it may still build is one of the current
\* design: through redesigns, stages that fail on the way to the slice loop, crashes
\* and resumes, the flag that asks for the reconciliation is not lost before it has
\* been done (outcome-interpreter.ts, slice-loop.ts).
THEOREM QueueFitsDesign == ~TornWrites /\ Spec => []QueueMatchesDesign
<1> SUFFICES ASSUME ~TornWrites PROVE Spec => []QueueMatchesDesign
  OBVIOUS
<1>1. QueueTypes /\ HoldInv /\ (NotRemediated => FitInv) => QueueMatchesDesign
  <2> SUFFICES ASSUME QueueTypes, HoldInv, NotRemediated, FitInv, pc = "select"
               PROVE  \A i \in DOMAIN queue :
                        queue[i].status = "done" \/ queue[i].id \in DesignIds(design)
    BY DEF QueueMatchesDesign, NotRemediated
  <2>1. queueFile \in Seq(Slice) /\ Fits(queueFile, design)
        /\ queue \in {queueFile, ReadBack(queueFile)}
    BY DEF HoldInv, SliceLoopPc, QueueTypes, FitInv
  <2>2. Fits(queue, design)
    BY <2>1, FitsMutations
  <2>3. QED
    BY <2>2 DEF Fits
<1>2. QED
  BY <1>1, AlwaysFits, AlwaysHolds, AlwaysTypes, PTL

-----------------------------------------------------------------------------
(***************************************************************************)
(* No two slices share an id, and so no step on one slice undoes another.  *)
(* Designs name their sections apart; what is remediated must do so too,   *)
(* since nothing in the code makes the reflector's ids unique.             *)
(***************************************************************************)

UniqueSections == HeaderId = SliceId /\ \A d \in Designs : SectionsOnce(d)

UniqueInv == queueFile # None => Once(queueFile, SliceId)

\* The slices that a remediation adds have ids of their own, of all that are in
\* the queue then.  Nothing in the code sees to it: the reflector names them.
FreshIds ==
  Remediate => \A i \in DOMAIN queueFile' \ DOMAIN QueueOnDisk :
                 \A j \in DOMAIN queueFile' : queueFile'[i].id = queueFile'[j].id => i = j

\* The slice loop's own writes.
LoopWrites == SelectSlice \/ ReflectAndMarkDone \/ RequeueFailed \/ EscalateFailed

\* What is done stays so, and what is ready now was so, or may be.
Advances(q, r) ==
  \A i \in DOMAIN q :
    /\ q[i].status = "done" => r[i].status = "done"
    /\ r[i].status \in {"ready", "building"} =>
         q[i].status \in {"ready", "building"} \/ DepsDone(q, q[i])

\* Taking a slice advances the queue, when ids are unique.
LEMMA TakeAdvances ==
  ASSUME NEW q \in Seq(Slice), HasReady(Promote(q))
  PROVE  LET r == MarkBuilding(Promote(q), FirstReady(Promote(q)).id)
         IN  SameSlices(q, r) /\ (Once(q, SliceId) => Advances(q, r))
<1> DEFINE p == Promote(q)
           id == FirstReady(p).id
           r == MarkBuilding(p, id)
<1>1. /\ SameSlices(q, p) /\ p \in Seq(Slice) /\ DOMAIN p = DOMAIN q
      /\ \A i \in DOMAIN q : p[i].status = IF q[i].status = "pending" /\ DepsDone(q, q[i])
                                           THEN "ready" ELSE q[i].status
  BY PromoteFacts, SameDomain, MutationTypes
<1>2. HasReady(p)
  OBVIOUS
<1> HIDE DEF p
<1>3. PICK k \in DOMAIN p : FirstReady(p) = p[k] /\ p[k].status = "ready"
  BY <1>1, <1>2, FirstReadyFacts
<1>4. /\ SameSlices(p, r)
      /\ \A i \in DOMAIN p : r[i].status = IF p[i].id = id THEN "building" ELSE p[i].status
  BY <1>1, SetStatusFacts DEF MarkBuilding, Status
<1>5. SameSlices(q, r)
  BY <1>1, <1>4, SameSlicesTrans
<1>6. ASSUME Once(q, SliceId) PROVE Advances(q, r)
  <2>1. \A i \in DOMAIN q : p[i].id = q[i].id /\ q[i].id \in SliceId
    <3>1. \A i \in DOMAIN q : q[i] \in Slice
      BY QueueElements
    <3>2. QED
      BY <1>1, <3>1 DEF SameSlices, Slice
  <2>2. \A i \in DOMAIN q : q[i].id = id => i = k
    BY <1>1, <1>3, <1>6, <2>1 DEF Once
  <2>3. k \in DOMAIN q /\ p[k].status = "ready"
    BY <1>1, <1>3
  <2> HIDE DEF id, r
  <2>4. ASSUME NEW i \in DOMAIN q
        PROVE  /\ q[i].status = "done" => r[i].status = "done"
               /\ r[i].status \in {"ready", "building"} =>
                    q[i].status \in {"ready", "building"} \/ DepsDone(q, q[i])
    <3>1. CASE q[i].id = id
      BY <1>1, <2>2, <2>3, <3>1
    <3>2. CASE q[i].id # id
      <4>1. r[i].status = p[i].status
        BY <1>1, <1>4, <2>1, <3>2
      <4>2. QED
        BY <1>1, <4>1
    <3>3. QED
      BY <3>1, <3>2
  <2>5. QED
    BY <2>4 DEF Advances
<1>7. QED
  BY <1>5, <1>6 DEF p

\* So do the ends of an attempt on a slice that is being built.
LEMMA EndAdvances ==
  ASSUME NEW q \in Seq(Slice), NEW id, NEW r,
         r = MarkDone(q, id) \/ (r \in {Requeue(q, id), Escalate(q, id)}
                                 /\ id \in IdsWith(q, {"building"}))
  PROVE  SameSlices(q, r) /\ (Once(q, SliceId) => Advances(q, r))
<1>1. \A i \in DOMAIN q : q[i].id \in SliceId
  <2>1. \A i \in DOMAIN q : q[i] \in Slice
    BY QueueElements
  <2>2. QED
    BY <2>1 DEF Slice
<1>2. CASE r = MarkDone(q, id)
  BY <1>2, SetStatusFacts DEF MarkDone, Status, Advances
<1>3. CASE r \in {Requeue(q, id), Escalate(q, id)} /\ id \in IdsWith(q, {"building"})
  <2>1. /\ SameSlices(q, r)
        /\ \A i \in DOMAIN q : q[i].id # id => r[i].status = q[i].status
    BY <1>3, SetStatusFacts, RequeueFacts DEF Escalate, Status
  <2>2. PICK k \in DOMAIN q : q[k].id = id /\ q[k].status = "building"
    BY <1>3 DEF IdsWith
  <2>3. ASSUME Once(q, SliceId), NEW i \in DOMAIN q
        PROVE  q[i].status = "building" \/ r[i].status = q[i].status
    BY <1>1, <2>1, <2>2, <2>3 DEF Once
  <2>4. QED
    BY <2>1, <2>3 DEF Advances
<1>4. QED
  BY <1>2, <1>3

\* The slice loop's writes advance the queue.
LEMMA LoopAdvances ==
  ASSUME HeaderId = SliceId, QueueTypes, HoldInv, LoopWrites
  PROVE  /\ queueFile # None /\ queueFile \in Seq(Slice)
         /\ SameSlices(queueFile, queueFile')
         /\ Once(queueFile, SliceId) => Advances(queueFile, queueFile')
<1>1. queueFile # None /\ queueFile \in Seq(Slice) /\ queue = queueFile
  BY ReadBackFacts
     DEF LoopWrites, SelectSlice, ReflectAndMarkDone, RequeueFailed, EscalateFailed, HoldInv,
         QueueTypes, SliceLoopPc
<1>2. CASE SelectSlice
  BY <1>1, <1>2, TakeAdvances DEF SelectSlice, WriteQueue
<1>3. CASE ReflectAndMarkDone
  BY <1>1, <1>3, EndAdvances DEF ReflectAndMarkDone, WriteQueue
<1>4. CASE RequeueFailed \/ EscalateFailed
  <2>1. CurrentSlice \in IdsWith(queueFile, {"building"})
    BY <1>4 DEF RequeueFailed, EscalateFailed, HoldInv, BuildingPc
  <2>2. queueFile' \in {Requeue(queueFile, CurrentSlice), Escalate(queueFile, CurrentSlice)}
    BY <1>1, <1>4 DEF RequeueFailed, EscalateFailed, WriteQueue
  <2>3. QED
    BY <1>1, <2>1, <2>2, EndAdvances
<1>5. QED
  BY <1>1, <1>2, <1>3, <1>4 DEF LoopWrites

\* Remediation leaves the slices in their places, and adds others behind them.
LEMMA RemedyKeeps ==
  ASSUME NEW q \in Seq(Slice), NEW p \in Seq(Repair)
  PROVE  LET r == ApplyRemediation(q, p).queue
         IN  DOMAIN q \subseteq DOMAIN r /\ \A i \in DOMAIN q : r[i].id = q[i].id
<1> DEFINE r == ApplyRemediation(q, p).queue
<1>1. PICK acc, new : RemedyOf(r, q, p, acc, new)
  BY ApplyRemediationFacts
<1> HIDE DEF r
<1>2. IsConcat(r, acc.queue, new) /\ SameSlices(q, acc.queue)
  BY <1>1 DEF RemedyOf, AppliedInv, RemedyTypes
<1>3. DOMAIN acc.queue = DOMAIN q
  BY <1>2, SameDomain
<1>4. DOMAIN q \subseteq DOMAIN r
  BY <1>2, <1>3 DEF IsConcat
<1>5. ASSUME NEW i \in DOMAIN q PROVE r[i].id = q[i].id
  <2>1. r[i] = acc.queue[i]
    BY <1>2, <1>3 DEF IsConcat
  <2>2. QED
    BY <1>2, <2>1 DEF SameSlices
<1>6. QED
  BY <1>4, <1>5 DEF r

\* The queue of a design has its sections, each once.
LEMMA NewOnce ==
  ASSUME NEW d \in Designs, SectionsOnce(d)
  PROVE  Once(BuildInitial(d), SliceId) /\ Once(AllDone(d), SliceId)
<1>0. IsDesign(d)
  BY DesignAssumption
<1> DEFINE q == ParseDesign(d)
<1>1. /\ q \in Seq(Slice) /\ DOMAIN q = DOMAIN d.slices
      /\ \A i \in DOMAIN d.slices : q[i].id = d.slices[i].id
  BY <1>0, ParseDesignFacts
<1>2. SameSlices(q, AllDone(d))
  BY <1>0, <1>1, AllDoneFacts
<1> HIDE DEF q
<1>3. Once(q, SliceId)
  BY <1>1 DEF SectionsOnce, Once
<1>4. Once(AllDone(d), SliceId)
  BY <1>1, <1>2, <1>3, SameOnce
<1>5. QED
  BY <1>3, <1>4 DEF BuildInitial, q

\* Every step keeps the ids unique, but for a remediation that repeats one.
LEMMA OnceStep ==
  UniqueSections /\ ControlOK /\ DesignInv /\ QueueTypes /\ HoldInv /\ UniqueInv
    /\ [Next]_vars /\ FreshIds => UniqueInv'
<1> SUFFICES ASSUME UniqueSections, ControlOK, DesignInv, QueueTypes, HoldInv, UniqueInv,
                    [Next]_vars, FreshIds
             PROVE  UniqueInv'
  OBVIOUS
<1>1. CASE ~QueueWrites
  BY <1>1, OthersWriteNothing DEF UniqueInv
<1>2. CASE CarryForward \/ BuildQueue
  <2>1. design \in Designs /\ queueFile' \in {AllDone(design), BuildInitial(design)}
    BY <1>2, WritersDesigned DEF CarryForward, BuildQueue
  <2>2. Once(queueFile', SliceId)
    BY <2>1, NewOnce DEF UniqueSections
  <2>3. QED
    BY <2>2 DEF UniqueInv
<1>3. CASE ReconcileQueue
  <2>1. /\ design \in Designs /\ IsDesign(design) /\ SectionsOnce(design)
        /\ queueFile # None /\ queueFile \in Seq(Slice)
        /\ queueFile' = Reconcile(queueFile, design)
    BY <1>3, WritersDesigned, ReadBackFacts
       DEF ReconcileQueue, Reconciled, UniqueSections, QueueTypes
  <2>2. Once(queueFile', SliceId)
    BY <2>1, ReconcileOnce DEF UniqueInv
  <2>3. QED
    BY <2>2 DEF UniqueInv
<1>4. CASE LoopWrites
  <2>1. queueFile # None /\ queueFile \in Seq(Slice) /\ SameSlices(queueFile, queueFile')
    BY <1>4, LoopAdvances DEF UniqueSections
  <2>2. Once(queueFile', SliceId)
    BY <2>1, SameOnce DEF UniqueInv
  <2>3. QED
    BY <2>2 DEF UniqueInv
<1>5. CASE Remediate
  <2>1. PICK p \in Proposals : queueFile' = ApplyRemediation(QueueOnDisk, p).queue
    BY <1>5 DEF Remediate
  <2>2. QueueOnDisk \in Seq(Slice) /\ p \in Seq(Repair)
    BY QueueOnDiskType, ProposalAssumption DEF IsProposal
  <2>3. /\ DOMAIN QueueOnDisk \subseteq DOMAIN queueFile'
        /\ \A i \in DOMAIN QueueOnDisk : queueFile'[i].id = QueueOnDisk[i].id
    BY <2>1, <2>2, RemedyKeeps
  <2>4. Once(QueueOnDisk, SliceId)
    <3>1. CASE queueFile = None
      BY <3>1 DEF QueueOnDisk, NoQueue, Once
    <3>2. CASE queueFile # None
      BY <3>2, ReadBackFacts DEF UniqueInv, QueueOnDisk, QueueTypes, UniqueSections
    <3>3. QED
      BY <3>1, <3>2
  <2>5. Once(queueFile', SliceId)
    <3> SUFFICES ASSUME NEW i \in DOMAIN queueFile', NEW j \in DOMAIN queueFile',
                        queueFile'[i].id = queueFile'[j].id, queueFile'[i].id \in SliceId
                 PROVE  i = j
      BY DEF Once
    <3>1. CASE i \in DOMAIN QueueOnDisk /\ j \in DOMAIN QueueOnDisk
      BY <2>3, <2>4, <3>1 DEF Once
    <3>2. CASE i \notin DOMAIN QueueOnDisk \/ j \notin DOMAIN QueueOnDisk
      BY <1>5, <3>2 DEF FreshIds
    <3>3. QED
      BY <3>1, <3>2
  <2>6. QED
    BY <2>5 DEF UniqueInv
<1>6. QED
  BY <1>1, <1>2, <1>3, <1>4, <1>5 DEF QueueWrites, LoopWrites

\* Until something is remediated the ids are unique.
OnceInv == NotRemediated => UniqueInv

\* OnceInv is an invariant.
LEMMA AlwaysOnce == UniqueSections /\ Spec => []OnceInv
<1> SUFFICES ASSUME UniqueSections PROVE Spec => []OnceInv
  OBVIOUS
<1>1. Init => OnceInv
  BY DEF Init, OnceInv, UniqueInv
<1>2. ControlOK /\ DesignInv /\ QueueTypes /\ OtherTypes /\ HoldInv /\ OnceInv /\ [Next]_vars
        => OnceInv'
  <2> SUFFICES ASSUME ControlOK, DesignInv, QueueTypes, OtherTypes, HoldInv, OnceInv,
                      [Next]_vars, NotRemediated'
               PROVE  UniqueInv'
    BY DEF OnceInv
  <2>1. NotRemediated /\ ~Remediate
    BY NothingRemediated
  <2>2. QED
    BY <2>1, OnceStep DEF OnceInv, FreshIds
<1>3. QED
  BY <1>1, <1>2, AlwaysControlOK, AlwaysDesignInv, AlwaysTypes, AlwaysHolds, PTL DEF Spec

\* And they stay unique when every remediation has ids of its own.
LEMMA AlwaysUnique == UniqueSections /\ Spec /\ [][FreshIds]_vars => []UniqueInv
<1> SUFFICES ASSUME UniqueSections PROVE Spec /\ [][FreshIds]_vars => []UniqueInv
  OBVIOUS
<1>1. Init => UniqueInv
  BY DEF Init, UniqueInv
<1>2. ControlOK /\ DesignInv /\ QueueTypes /\ HoldInv /\ UniqueInv /\ [Next]_vars
        /\ [FreshIds]_vars => UniqueInv'
  <2>1. UNCHANGED vars /\ UniqueInv => UniqueInv'
    BY DEF UniqueInv, vars, durable
  <2>2. QED
    BY <2>1, OnceStep
<1>3. QED
  BY <1>1, <1>2, AlwaysControlOK, AlwaysDesignInv, AlwaysTypes, AlwaysHolds, PTL DEF Spec

\* A rewriting that advances the queue loses nothing done.
LEMMA AdvanceKeepsDone ==
  ASSUME NEW q \in Seq(Slice), NEW r, SameSlices(q, r), Advances(q, r)
  PROVE  DoneIds(q) \subseteq DoneIds(r)
<1>1. DOMAIN r = DOMAIN q
  BY SameDomain
<1>2. QED
  BY <1>1 DEF SameSlices, Advances, DoneIds, IdsWith

\* The slice loop never loses a completed slice, as long as no two slices share an id,
\* in whatever number of rounds of redesign and remediation they come:
\* selection, requeues, escalations and reconciliation keep in slice-queue.md
\* whatever it has as done, and no crash between two writes takes it back.
THEOREM NothingDoneIsLost ==
  UniqueSections /\ ~TornWrites /\ Spec /\ [][FreshIds]_vars => LoopKeepsDone
<1> SUFFICES ASSUME UniqueSections, ~TornWrites
             PROVE  Spec /\ [][FreshIds]_vars => LoopKeepsDone
  OBVIOUS
<1>1. ASSUME ControlOK, DesignInv, QueueTypes, HoldInv, UniqueInv, [Next]_vars,
             pc \notin {"carryForward", "remediate"}, queueFile # None
      PROVE  queueFile' # None /\ DoneIds(queueFile) \subseteq DoneIds(queueFile')
  <2>1. queueFile' # None
    BY <1>1, QueueStays
  <2>2. CASE ~QueueWrites
    BY <2>2, <1>1, OthersWriteNothing
  <2>3. CASE ReconcileQueue
    <3>1. /\ IsDesign(design) /\ queueFile \in Seq(Slice)
          /\ queueFile' = Reconcile(queueFile, design)
      BY <1>1, <2>3, WritersDesigned, ReadBackFacts
         DEF ReconcileQueue, Reconciled, UniqueSections, QueueTypes
    <3>2. IsReconciliation(queueFile', queueFile, design)
      BY <3>1, ReconcileFacts
    <3>3. \A i \in DOMAIN queueFile : queueFile[i].status = "done" =>
            \E k \in DOMAIN queueFile' : queueFile'[k] = queueFile[i]
      BY <3>2, Zenon DEF IsReconciliation
    <3>4. QED
      BY <2>1, <3>3 DEF DoneIds, IdsWith
  <2>4. CASE LoopWrites
    <3>1. /\ queueFile \in Seq(Slice) /\ SameSlices(queueFile, queueFile')
          /\ Advances(queueFile, queueFile')
      BY <1>1, <2>4, LoopAdvances DEF UniqueSections, UniqueInv
    <3>2. QED
      BY <2>1, <3>1, AdvanceKeepsDone
  <2>5. CASE CarryForward \/ BuildQueue \/ Remediate
    BY <1>1, <2>5 DEF CarryForward, BuildQueue, Remediate
  <2>6. QED
    BY <2>2, <2>3, <2>4, <2>5 DEF QueueWrites, LoopWrites
<1>2. QED
  BY <1>1, AlwaysControlOK, AlwaysDesignInv, AlwaysTypes, AlwaysHolds, AlwaysUnique, PTL
     DEF Spec, LoopKeepsDone

\* What is ready or being built has what it depends on.
Steady(q) == \A i \in DOMAIN q : q[i].status \in {"ready", "building"} => DepsDone(q, q[i])

SteadyInv == NotRemediated /\ queueFile # None => Steady(queueFile)

\* A rewriting that advances a steady queue leaves it steady.
LEMMA AdvanceSteady ==
  ASSUME NEW q \in Seq(Slice), NEW r, SameSlices(q, r), Advances(q, r), Steady(q)
  PROVE  Steady(r)
<1>1. DOMAIN r = DOMAIN q /\ DoneIds(q) \subseteq DoneIds(r)
  BY SameDomain, AdvanceKeepsDone
<1>2. ASSUME NEW i \in DOMAIN r, r[i].status \in {"ready", "building"}
      PROVE  r[i].deps \subseteq DoneIds(r)
  <2>1. q[i].deps \subseteq DoneIds(q)
    BY <1>1, <1>2 DEF Advances, Steady, DepsDone
  <2>2. QED
    BY <1>1, <1>2, <2>1 DEF SameSlices
<1>3. QED
  BY <1>2 DEF Steady, DepsDone

\* In a new or a reconciled queue nothing is ready.
LEMMA NewSteady ==
  ASSUME NEW d, IsDesign(d)
  PROVE  /\ Steady(BuildInitial(d)) /\ Steady(AllDone(d))
         /\ \A q \in Seq(Slice) : Steady(Reconcile(q, d))
<1>1. /\ DOMAIN ParseDesign(d) = DOMAIN d.slices
      /\ \A i \in DOMAIN d.slices : ParseDesign(d)[i].status = "pending"
  BY ParseDesignFacts
<1>2. ASSUME NEW q \in Seq(Slice) PROVE Steady(Reconcile(q, d))
  <2>1. IsReconciliation(Reconcile(q, d), q, d)
    BY ReconcileFacts
  <2>2. QED
    BY <1>1, <2>1 DEF IsReconciliation, Steady
<1>3. QED
  BY <1>1, <1>2, AllDoneFacts DEF Steady, BuildInitial

\* Every step keeps the queue steady.
LEMMA SteadyStep ==
  UniqueSections /\ ControlOK /\ DesignInv /\ QueueTypes /\ OtherTypes
    /\ HoldInv /\ OnceInv /\ SteadyInv /\ [Next]_vars => SteadyInv'
<1> SUFFICES ASSUME UniqueSections, ControlOK, DesignInv, QueueTypes, OtherTypes,
                    HoldInv, OnceInv, SteadyInv, [Next]_vars, NotRemediated', queueFile' # None
             PROVE  Steady(queueFile')
  BY DEF SteadyInv
<1>1. NotRemediated /\ ~Remediate
  BY NothingRemediated
<1>2. CASE ~QueueWrites
  BY <1>1, <1>2, OthersWriteNothing DEF SteadyInv
<1>3. CASE CarryForward \/ BuildQueue
  BY <1>3, WritersDesigned, NewSteady DEF CarryForward, BuildQueue
<1>4. CASE ReconcileQueue
  <2>1. /\ IsDesign(design) /\ queueFile \in Seq(Slice)
        /\ queueFile' = Reconcile(queueFile, design)
    BY <1>4, WritersDesigned, ReadBackFacts
       DEF ReconcileQueue, Reconciled, UniqueSections, QueueTypes
  <2>2. QED
    BY <2>1, NewSteady
<1>5. CASE LoopWrites
  <2>1. /\ queueFile # None /\ queueFile \in Seq(Slice) /\ SameSlices(queueFile, queueFile')
        /\ Advances(queueFile, queueFile')
    BY <1>1, <1>5, LoopAdvances DEF UniqueSections, OnceInv, UniqueInv
  <2>2. QED
    BY <1>1, <2>1, AdvanceSteady DEF SteadyInv
<1>6. QED
  BY <1>1, <1>2, <1>3, <1>4, <1>5 DEF QueueWrites, LoopWrites

\* Until something is reopened, a slice is built only when everything it depends on
\* is done: a slice once ready stays entitled to its place through requeues,
\* restarts and redesigns, because nothing that is done is lost.
THEOREM BuildsWhatIsReady == UniqueSections /\ Spec => []BuildsOnlyReadySlices
<1> SUFFICES ASSUME UniqueSections PROVE Spec => []BuildsOnlyReadySlices
  OBVIOUS
<1>1. Init => SteadyInv
  BY DEF Init, SteadyInv
<1>2. QueueTypes /\ RunTypes /\ HoldInv /\ OnceInv /\ SteadyInv => BuildsOnlyReadySlices
  <2> SUFFICES ASSUME QueueTypes, RunTypes, HoldInv, OnceInv, SteadyInv, NotRemediated,
                      pc \in {"plan", "feasibility", "implement", "doneCheck", "evidence",
                              "reflect"},
                      NEW i \in DOMAIN queue, queue[i].id = CurrentSlice
               PROVE  DepsDone(queue, queue[i])
    BY DEF BuildsOnlyReadySlices, NotRemediated
  <2>1. queueFile # None /\ queue = queueFile /\ CurrentSlice \in SliceId
        /\ CurrentSlice \in IdsWith(queueFile, {"building"})
    BY DEF HoldInv, SliceLoopPc, BuildingPc, RunTypes
  <2>2. PICK k \in DOMAIN queue : queue[k].id = CurrentSlice /\ queue[k].status = "building"
    BY <2>1 DEF IdsWith
  <2>3. Once(queue, SliceId) /\ Steady(queue)
    BY <2>1 DEF OnceInv, UniqueInv, SteadyInv
  <2>4. i = k
    BY <2>1, <2>2, <2>3 DEF Once
  <2>5. QED
    BY <2>2, <2>3, <2>4 DEF Steady
<1>3. QED
  BY <1>1, <1>2, SteadyStep, AlwaysControlOK, AlwaysDesignInv, AlwaysTypes, AlwaysHolds,
     AlwaysOnce, PTL DEF Spec

-----------------------------------------------------------------------------
(***************************************************************************)
(* Nothing in the file waits for a slice that is gone.                     *)
(***************************************************************************)

\* The headings name every slice, and the designs can be worked through.
WorkableDesigns == HeaderId = SliceId /\ \A d \in Designs : Resolvable(d)

WorkInv == queueFile # None => Workable(queueFile)

\* The queue that the slice loop starts from is the file's.
LEMMA FileIsHeld ==
  ASSUME HeaderId = SliceId, QueueTypes, HoldInv, LoopWrites
  PROVE  queueFile # None /\ queueFile \in Seq(Slice) /\ queue = queueFile
<1>1. queueFile # None
  BY DEF LoopWrites, SelectSlice, ReflectAndMarkDone, RequeueFailed, EscalateFailed, HoldInv,
         SliceLoopPc
<1>2. queueFile \in Seq(Slice) /\ ReadBack(queueFile) = queueFile
  BY <1>1, ReadBackFacts DEF QueueTypes
<1>3. QED
  BY <1>1, <1>2 DEF LoopWrites, SelectSlice, ReflectAndMarkDone, RequeueFailed,
                    EscalateFailed, HoldInv, SliceLoopPc

\* Nothing becomes pending or blocked in the slice loop.
LEMMA LoopWorkable ==
  ASSUME HeaderId = SliceId, QueueTypes, HoldInv, LoopWrites, Workable(queueFile)
  PROVE  Workable(queueFile')
<1>1. queueFile \in Seq(Slice) /\ queue = queueFile /\ SameSlices(queueFile, queueFile')
  BY FileIsHeld, LoopAdvances
<1>2. ASSUME NEW i \in DOMAIN queueFile, queueFile'[i].status \in {"pending", "blocked"}
      PROVE  queueFile'[i].status = queueFile[i].status
  <2>1. CASE SelectSlice
    <3> DEFINE p == Promote(queueFile)
               id == FirstReady(p).id
    <3>1. queueFile' = MarkBuilding(p, id)
      BY <1>1, <2>1 DEF SelectSlice, WriteQueue
    <3>2. /\ p \in Seq(Slice) /\ DOMAIN p = DOMAIN queueFile
          /\ p[i].status = queueFile[i].status \/ p[i].status = "ready"
      BY <1>1, PromoteFacts, SameDomain, MutationTypes
    <3> HIDE DEF p, id
    <3>3. queueFile'[i].status = p[i].status \/ queueFile'[i].status = "building"
      BY <1>2, <3>1, <3>2, SetStatusFacts DEF MarkBuilding, Status
    <3>4. QED
      BY <1>2, <3>2, <3>3
  <2>2. CASE ReflectAndMarkDone
    BY <1>1, <1>2, <2>2, SetStatusFacts DEF ReflectAndMarkDone, WriteQueue, MarkDone, Status
  <2>3. CASE RequeueFailed
    BY <1>1, <1>2, <2>3, RequeueFacts DEF RequeueFailed, WriteQueue
  <2>4. CASE EscalateFailed
    BY <1>1, <1>2, <2>4, SetStatusFacts DEF EscalateFailed, WriteQueue, Escalate, Status
  <2>5. QED
    BY <2>1, <2>2, <2>3, <2>4 DEF LoopWrites
<1>3. QED
  BY <1>1, <1>2, SameWorkable

\* Every step leaves a workable queue.
LEMMA WorkStep ==
  WorkableDesigns /\ ControlOK /\ DesignInv /\ QueueTypes /\ HoldInv /\ WorkInv
    /\ [Next]_vars => WorkInv'
<1> SUFFICES ASSUME WorkableDesigns, ControlOK, DesignInv, QueueTypes, HoldInv,
                    WorkInv, [Next]_vars
             PROVE  WorkInv'
  OBVIOUS
<1> USE DEF WorkInv
<1>1. CASE ~QueueWrites
  BY <1>1, OthersWriteNothing DEF Workable, Grounded, NeverBlocked, IdsOf
<1>2. CarryForward \/ BuildQueue \/ ReconcileQueue
        => design \in Designs /\ IsDesign(design) /\ Resolvable(design)
  BY WritersDesigned DEF WorkableDesigns
<1>3. CASE CarryForward
  <2>1. /\ ParseDesign(design) \in Seq(Slice) /\ Workable(ParseDesign(design))
        /\ queueFile' = AllDone(design)
    BY <1>2, <1>3, NewWorkable, ParseDesignFacts DEF CarryForward
  <2>2. SameSlices(ParseDesign(design), queueFile')
        /\ DOMAIN queueFile' = DOMAIN ParseDesign(design)
        /\ \A i \in DOMAIN queueFile' : queueFile'[i].status = "done"
    BY <1>2, <1>3, <2>1, AllDoneFacts, SameDomain
  <2>3. QED
    BY <2>1, <2>2, SameWorkable
<1>4. CASE BuildQueue
  BY <1>2, <1>4, NewWorkable DEF BuildQueue, BuildInitial
<1>5. CASE ReconcileQueue
  <2>1. ReadBack(queueFile) \in Seq(Slice)
        /\ queueFile' = Reconcile(ReadBack(queueFile), design)
    BY <1>5, ReadBackFacts DEF ReconcileQueue, Reconciled, QueueTypes
  <2>2. QED
    BY <1>2, <1>5, <2>1, ReconcileWorkable
<1>6. CASE LoopWrites
  BY <1>6, FileIsHeld, LoopWorkable DEF WorkableDesigns
<1>7. CASE Remediate
  <2>1. PICK p \in Proposals : queueFile' = ApplyRemediation(QueueOnDisk, p).queue
    BY <1>7 DEF Remediate
  <2>2. QueueOnDisk \in Seq(Slice) /\ Workable(QueueOnDisk)
    <3>1. CASE queueFile = None
      <4>1. QueueOnDisk = << >> /\ DOMAIN << >> = {}
        BY <3>1 DEF QueueOnDisk, NoQueue
      <4>2. [s \in SliceId |-> 0] \in [SliceId -> Nat]
        OBVIOUS
      <4>3. QED
        BY <4>1, <4>2, QueueOnDiskType DEF Workable, Grounded, NeverBlocked, QueueTypes
    <3>2. CASE queueFile # None
      BY <3>2, ReadBackFacts DEF QueueOnDisk, QueueTypes, WorkableDesigns
    <3>3. QED
      BY <3>1, <3>2
  <2>3. QED
    BY <2>1, <2>2, RemedyWorkable, ProposalAssumption DEF IsProposal
<1>8. QED
  BY <1>1, <1>3, <1>4, <1>5, <1>6, <1>7 DEF QueueWrites, LoopWrites

\* The file always holds a workable queue.
LEMMA AlwaysWorkable == WorkableDesigns /\ Spec => []WorkInv
<1> SUFFICES ASSUME WorkableDesigns PROVE Spec => []WorkInv
  OBVIOUS
<1>1. Init => WorkInv
  BY DEF Init, WorkInv
<1>2. QED
  BY <1>1, WorkStep, AlwaysControlOK, AlwaysDesignInv, AlwaysTypes, AlwaysHolds, PTL DEF Spec

-----------------------------------------------------------------------------
(***************************************************************************)
(* What a stage may return: the slice loop no cap and no remediation, and  *)
(* a remediation nothing else.                                             *)
(***************************************************************************)

LeavingLoop == pc \in AfterStage /\ CurrentStage = "slice-loop"

Repaired == pc \in AfterStage /\ outcome.remediation

OutcomeInv == /\ LeavingLoop => ~outcome.cap /\ ~outcome.remediation
              /\ Repaired => outcome = Remediation /\ CurrentStage \in {"verify", "accept"}

\* The fields of the outcomes.
LEMMA OutcomeFields ==
  /\ \A st : ~Result(st).cap /\ ~Result(st).remediation /\ Result(st).status = st
  /\ \A loop, reason : /\ ~Escalation(loop, reason).cap
                       /\ ~Escalation(loop, reason).remediation
                       /\ Escalation(loop, reason).status = "FAIL"
                       /\ ~[Escalation(loop, reason) EXCEPT !.cap = TRUE].remediation
  /\ ~Passed.cap /\ ~Passed.remediation /\ ~Failed.cap /\ ~Failed.remediation
  /\ ~Unclean.remediation
  /\ ~Remediation.cap /\ Remediation.remediation /\ Remediation.status = "FAIL"
BY DEF Result, Passed, Failed, Unclean, Remediation, Escalation

\* Each stage returns what OutcomeInv says.
LEMMA OutcomeStep == ControlOK /\ RunsOK /\ OutcomeInv /\ [Next]_vars => OutcomeInv'
<1> SUFFICES ASSUME ControlOK, RunsOK, OutcomeInv, [Next]_vars PROVE OutcomeInv'
  OBVIOUS
<1> USE DEF OutcomeInv, LeavingLoop, Repaired, AfterStage, CurrentStage, AtStage, Return
<1>1. CASE UNCHANGED vars
  BY <1>1 DEF vars, memory
<1>2. CASE PipelineLoop
  <2>1. CASE SaveStart \/ FinishRun \/ EnterStage \/ GateRetries \/ StopOnEscalation
             \/ FollowEscalation \/ StopOnFail \/ CompleteStage
    BY <2>1 DEF SaveStart, FinishRun, EnterStage, GateRetries, StopOnEscalation,
                FollowEscalation, StopOnFail, CompleteStage
  <2>2. CASE PassGate \/ GateRejects \/ Resync
    BY <2>2 DEF PassGate, GateRejects, AtGate, Resync, memory
  <2>3. CASE GateApproves
    <3>1. pc = "gate" /\ outcome.cap /\ UNCHANGED snap
          /\ outcome' = [outcome EXCEPT !.status = "PARTIAL"]
      BY <2>3 DEF GateApproves, AtGate
    <3>2. outcome'.remediation = outcome.remediation
      BY <3>1 DEF RunsOK, Outcome
    <3>3. ~outcome.remediation /\ ~LeavingLoop
      BY <3>1, OutcomeFields
    <3>4. QED
      BY <3>1, <3>2, <3>3
  <2>4. QED
    BY <1>2, <2>1, <2>2, <2>3 DEF PipelineLoop
<1>3. CASE EarlyStages
  <2>1. \/ pc' \notin AfterStage
        \/ ~outcome'.remediation /\ UNCHANGED snap /\ snap.nextStage # "slice-loop"
    <3>1. CASE GoalsWithoutTask \/ SkeletonEarlyPass \/ BaselineEarlyPass
      BY <3>1, OutcomeFields DEF GoalsWithoutTask, SkeletonEarlyPass, BaselineEarlyPass
    <3>4. CASE GoalsStage \/ ResearchStage
      BY <3>4, OutcomeFields DEF GoalsStage, ResearchStage, DocumentStage
    <3>5. CASE DesignStage
      BY <3>5, OutcomeFields DEF DesignStage
    <3>6. CASE SkeletonFails
      BY <3>6, OutcomeFields DEF SkeletonFails
    <3>7. CASE BaselineCheck
      BY <3>7, OutcomeFields DEF BaselineCheck
    <3>2. CASE SkeletonBuilt \/ CarryForward \/ WriteSkeletonResults
      BY <3>2 DEF SkeletonBuilt, CarryForward, WriteSkeletonResults
    <3>3. CASE ReviewStructure
      BY <3>3, OutcomeFields DEF ReviewStructure, ControlOK, SkeletonPc
    <3>8. QED
      BY <1>3, <3>1, <3>2, <3>3, <3>4, <3>5, <3>6, <3>7 DEF EarlyStages
  <2>2. QED
    BY <2>1
<1>4. CASE SliceLoop
  <2>1. \/ pc' \notin AfterStage
        \/ ~outcome'.cap /\ ~outcome'.remediation
    <3>1. CASE LoopPasses
      BY <3>1, OutcomeFields DEF LoopPasses
    <3>5. CASE BuildQueue
      <4>1. \/ Return(Escalation("LOOP_DESIGN", "unparsed"))
            \/ EnterLoop(queueFile')
        BY <3>5 DEF BuildQueue
      <4>2. CASE Return(Escalation("LOOP_DESIGN", "unparsed"))
        BY <4>2, OutcomeFields
      <4>3. CASE EnterLoop(queueFile')
        BY <4>3 DEF EnterLoop
      <4>4. QED
        BY <4>1, <4>2, <4>3
    <3>2. CASE ClassifyEscalation
      <4>1. PICK loop, reason : Return(Escalation(loop, reason))
        BY <3>2 DEF ClassifyEscalation
      <4>2. QED
        BY <4>1, OutcomeFields
    <3>3. CASE ~(BuildQueue \/ LoopPasses \/ ClassifyEscalation)
      BY <1>4, <3>3
         DEF SliceLoop, ResumeQueue, ReconcileQueue, ClearFlag, SelectSlice, SaveBuilding,
             PlanSlice, CheckFeasibility, ImplementSlice, CheckDone, CheckEvidence,
             AskForLoop, ReflectAndMarkDone, SaveDone, RequeueFailed, SaveRequeue,
             EscalateFailed, SaveEscalated, SubStep, SaveSliceRun, EnterLoop, WriteQueue
    <3>4. QED
      BY <3>1, <3>2, <3>3, <3>5
  <2>2. QED
    BY <2>1
<1>5. CASE LateStages
  <2>1. CASE RunVerifier \/ RunAcceptance \/ ReportStage
    BY <2>1, OutcomeFields DEF RunVerifier, RunAcceptance, ReportStage
  <2>2. CASE Remediate \/ NoRemediation
    BY <2>2, OutcomeFields DEF Remediate, NoRemediation, ControlOK
  <2>3. QED
    BY <1>5, <2>1, <2>2 DEF LateStages
<1>6. CASE Environment
  BY <1>6 DEF Environment, Throw, Crash, Resume
<1>7. QED
  BY <1>1, <1>2, <1>3, <1>4, <1>5, <1>6 DEF Next, Program, Terminated

\* OutcomeInv is an invariant.
LEMMA AlwaysOutcome == Spec => []OutcomeInv
<1>1. Init => OutcomeInv
  BY DEF Init, OutcomeInv, LeavingLoop, Repaired, AfterStage
<1>2. QED
  BY <1>1, OutcomeStep, AlwaysControlOK, RunsAlwaysOK, PTL DEF Spec

-----------------------------------------------------------------------------
(***************************************************************************)
(* Without failures, the stages behind the slice loop see it all done.     *)
(* Outside the slice loop the queue is clean and has every section of the  *)
(* design, or the flag says that it is to be reconciled; behind the slice  *)
(* loop it is finished, until a remediation asks for more.                 *)
(***************************************************************************)

Finished(q) == \A i \in DOMAIN q : q[i].status = "done"

\* Nothing of q is being built, blocked or escalated, but for the slice id.
Unstarted == {"pending", "ready", "done"}

Clean(q) == \A i \in DOMAIN q : q[i].status \in Unstarted

CleanBut(q, id) == \A i \in DOMAIN q : q[i].status \in Unstarted \/ q[i].id = id

Covers(q, d) == DesignIds(d) \subseteq IdsOf(q)

InOrder(r) ==
  queueFile # None => \/ r.pendingReconcile
                      \/ /\ Clean(queueFile) /\ Covers(queueFile, design)
                         /\ r.nextStage \notin UpToDesign

AllBuilt == queueFile # None /\ Finished(queueFile) /\ Covers(queueFile, design)

Complete(stage) == stage \in AfterLoop => AllBuilt

InStagePc == {"stage", "carryForward", "skeletonResults", "structure", "remediate", "gate",
              "resync", "decide"}

OutsidePc == InStagePc \cup {"boot", "next", "completed"}

BetweenSlices == {"clearFlag", "select", "saveDone", "saveRequeue"}

CourseInv ==
  /\ pc # "down"
  /\ pc \in OutsidePc /\ ~LeavingLoop =>
       /\ InOrder(run)
       /\ stateFile # None => InOrder(stateFile)
       /\ pc \in InStagePc => InOrder(snap)
       /\ ~Repaired => Complete(run.nextStage)
  /\ LeavingLoop /\ outcome.status # "FAIL" => AllBuilt
  /\ pc \in SliceLoopPc => Covers(queueFile, design)
  /\ pc \in BetweenSlices => Clean(queueFile)
  /\ pc \in BuildingPc => CleanBut(queueFile, CurrentSlice)

\* A new queue and a reconciled one are clean and have every section.
LEMMA NewCovers ==
  ASSUME NEW d, IsDesign(d)
  PROVE  /\ Clean(BuildInitial(d)) /\ Covers(BuildInitial(d), d)
         /\ Clean(AllDone(d)) /\ Covers(AllDone(d), d)
         /\ \A q \in Seq(Slice) : Clean(Reconcile(q, d)) /\ Covers(Reconcile(q, d), d)
<1> DEFINE new == ParseDesign(d)
<1>1. /\ new \in Seq(Slice) /\ DOMAIN new = DOMAIN d.slices
      /\ \A i \in DOMAIN d.slices : new[i].id = d.slices[i].id /\ new[i].status = "pending"
  BY ParseDesignFacts
<1>2. /\ SameSlices(new, AllDone(d)) /\ DOMAIN AllDone(d) = DOMAIN new
      /\ \A i \in DOMAIN AllDone(d) : AllDone(d)[i].status = "done"
  BY <1>1, AllDoneFacts, SameDomain
<1>3. BuildInitial(d) = new
  BY DEF BuildInitial
<1>4. ASSUME NEW q \in Seq(Slice) PROVE IsReconciliation(Reconcile(q, d), q, d)
  BY <1>4, ReconcileFacts
<1> HIDE DEF new
<1>5. Clean(new) /\ Covers(new, d)
  BY <1>1 DEF Clean, Unstarted, Covers, DesignIds, IdsOf
<1>6. Clean(AllDone(d)) /\ Covers(AllDone(d), d)
  BY <1>1, <1>2 DEF Clean, Unstarted, Covers, DesignIds, IdsOf, SameSlices
<1>7. ASSUME NEW q \in Seq(Slice) PROVE Clean(Reconcile(q, d)) /\ Covers(Reconcile(q, d), d)
  <2> DEFINE r == Reconcile(q, d)
  <2>1. /\ \A k \in DOMAIN r : \/ \E i \in DOMAIN q : q[i].status = "done" /\ r[k] = q[i]
                               \/ \E i \in DOMAIN d.slices : r[k] = new[i]
        /\ \A i \in DOMAIN q : q[i].status = "done" => \E k \in DOMAIN r : r[k] = q[i]
        /\ \A i \in DOMAIN d.slices : d.slices[i].id \notin DoneIds(q) =>
             \E k \in DOMAIN r : r[k] = new[i]
    BY <1>4, Zenon DEF IsReconciliation, new
  <2> HIDE DEF r
  <2>2. Clean(r)
    BY <1>1, <2>1 DEF Clean, Unstarted
  <2>3. DoneIds(q) \subseteq IdsOf(r)
    BY <2>1 DEF DoneIds, IdsWith, IdsOf
  <2>4. ASSUME NEW i \in DOMAIN d.slices, d.slices[i].id \notin DoneIds(q)
        PROVE  d.slices[i].id \in IdsOf(r)
    <3>1. PICK k \in DOMAIN r : r[k] = new[i]
      BY <2>1, <2>4
    <3>2. QED
      BY <1>1, <3>1 DEF IdsOf
  <2>5. Covers(r, d)
    BY <2>3, <2>4 DEF Covers, DesignIds
  <2>6. QED
    BY <2>2, <2>5 DEF r
<1>8. QED
  BY <1>3, <1>5, <1>6, <1>7

\* The slice loop keeps the slices, starts only the one it takes, and ends with it.
LEMMA LoopCourse ==
  ASSUME HeaderId = SliceId, ControlOK, QueueTypes, RunTypes, HoldInv, CourseInv, LoopWrites
  PROVE  /\ Covers(queueFile', design)
         /\ SelectSlice => CleanBut(queueFile', CurrentSlice')
         /\ ReflectAndMarkDone \/ RequeueFailed => Clean(queueFile')
<1>1. /\ queueFile \in Seq(Slice) /\ queue = queueFile
      /\ SameSlices(queueFile, queueFile') /\ DOMAIN queueFile' = DOMAIN queueFile
  BY FileIsHeld, LoopAdvances, SameDomain
<1>2. Covers(queueFile, design)
  BY DEF CourseInv, LoopWrites, SelectSlice, ReflectAndMarkDone, RequeueFailed,
         EscalateFailed, SliceLoopPc
<1>3. Covers(queueFile', design)
  BY <1>1, <1>2 DEF Covers, IdsOf, SameSlices
<1>4. ASSUME SelectSlice PROVE CleanBut(queueFile', CurrentSlice')
  <2> DEFINE p == Promote(queueFile)
             id == FirstReady(p).id
  <2>1. queueFile' = MarkBuilding(p, id) /\ sliceRun' = MarkSliceBuilding(sliceRun, id)
    BY <1>1, <1>4 DEF SelectSlice, WriteQueue
  <2>2. /\ p \in Seq(Slice) /\ DOMAIN p = DOMAIN queueFile
        /\ \A i \in DOMAIN p : p[i].status = queueFile[i].status \/ p[i].status = "ready"
    BY <1>1, PromoteFacts, SameDomain, MutationTypes
  <2> HIDE DEF p, id
  <2>3. CurrentSlice' = id
    BY <2>1 DEF CurrentSlice, MarkSliceBuilding, RunTypes, RunRecord
  <2>4. Clean(queueFile)
    BY <1>4 DEF SelectSlice, CourseInv, BetweenSlices
  <2>5. \A i \in DOMAIN p : /\ queueFile'[i].id = p[i].id
                            /\ queueFile'[i].status = IF p[i].id = id THEN "building"
                                                      ELSE p[i].status
    BY <2>1, <2>2, SetStatusFacts DEF MarkBuilding, Status, SameSlices
  <2>6. QED
    BY <1>1, <2>2, <2>3, <2>4, <2>5 DEF CleanBut, Clean, Unstarted
<1>5. ASSUME ReflectAndMarkDone \/ RequeueFailed PROVE Clean(queueFile')
  <2>1. CleanBut(queueFile, CurrentSlice)
    BY <1>5 DEF ReflectAndMarkDone, RequeueFailed, CourseInv, BuildingPc
  <2>2. \A i \in DOMAIN queueFile :
          queueFile'[i].status = IF queueFile[i].id # CurrentSlice THEN queueFile[i].status
                                 ELSE IF ReflectAndMarkDone THEN "done" ELSE "ready"
    <3>1. CASE ReflectAndMarkDone
      BY <1>1, <3>1, SetStatusFacts DEF ReflectAndMarkDone, WriteQueue, MarkDone, Status
    <3>2. CASE ~ReflectAndMarkDone /\ RequeueFailed
      BY <1>1, <3>2, RequeueFacts DEF RequeueFailed, WriteQueue
    <3>3. QED
      BY <1>5, <3>1, <3>2
  <2>3. QED
    BY <1>1, <2>1, <2>2 DEF CleanBut, Clean, Unstarted
<1>6. QED
  BY <1>3, <1>4, <1>5

\* When nothing of a clean and workable queue is ready, it is finished.
LEMMA NothingLeft ==
  ASSUME NEW q \in Seq(Slice), Workable(q), Clean(q), ~HasReady(Promote(q))
  PROVE  Finished(q)
<1>1. IdsWith(q, {"pending"}) = {}
  BY WorkableNotStranded DEF Clean, Unstarted, IdsWith
<1>2. ASSUME NEW i \in DOMAIN q PROVE q[i].status # "ready"
  <2>1. DOMAIN Promote(q) = DOMAIN q
    BY PromoteFacts, SameDomain
  <2>2. Promote(q)[i].status # "ready"
    BY <2>1 DEF HasReady, ReadyAt
  <2>3. QED
    BY <2>2, PromoteFacts
<1>3. QED
  BY <1>1, <1>2 DEF Finished, Clean, Unstarted, IdsWith

\* Remediation of a finished queue leaves a clean one, with the same slices and more.
LEMMA RemedyCourse ==
  ASSUME NEW q \in Seq(Slice), NEW p \in Seq(Repair), Finished(q)
  PROVE  /\ Clean(ApplyRemediation(q, p).queue)
         /\ IdsOf(q) \subseteq IdsOf(ApplyRemediation(q, p).queue)
<1> DEFINE r == ApplyRemediation(q, p).queue
<1>1. PICK acc, new : RemedyOf(r, q, p, acc, new)
  BY ApplyRemediationFacts
<1> HIDE DEF r
<1>2. IsConcat(r, acc.queue, new) /\ RemedyTypes(acc, q) /\ Added(new, acc.toAdd)
  BY <1>1 DEF RemedyOf, AppliedInv
<1>3. DOMAIN acc.queue = DOMAIN q
  BY <1>2, SameDomain DEF RemedyTypes
<1>4. ASSUME NEW i \in DOMAIN q
      PROVE  i \in DOMAIN r /\ r[i].id = q[i].id /\ r[i].status \in Unstarted
  <2>1. i \in DOMAIN r /\ r[i] = acc.queue[i]
    BY <1>2, <1>3 DEF IsConcat
  <2>2. acc.queue[i].status \in {"done", "ready"} /\ acc.queue[i].id = q[i].id
    BY <1>2 DEF RemedyTypes, SameSlices, Finished
  <2>3. QED
    BY <2>1, <2>2 DEF Unstarted
<1>5. ASSUME NEW i \in DOMAIN r \ DOMAIN q PROVE r[i].status \in Unstarted
  <2>1. PICK k \in DOMAIN new : r[i] = new[k]
    BY <1>2, <1>3, <1>5 DEF IsConcat
  <2>2. new[k].status = "ready"
    BY <1>2 DEF Added
  <2>3. QED
    BY <2>1, <2>2 DEF Unstarted
<1>6. Clean(r)
  BY <1>4, <1>5 DEF Clean
<1>7. IdsOf(q) \subseteq IdsOf(r)
  BY <1>4 DEF IdsOf
<1>8. QED
  BY <1>6, <1>7 DEF r

\* Outside the slice loop, a step that changes neither the Runs nor the queue
\* changes nothing, unless it makes a stage complete by undoing a remediation.
LEMMA CourseStays ==
  ASSUME CourseInv, UNCHANGED <<design, queueFile, stateFile, run, snap>>,
         pc \in OutsidePc, pc' \in OutsidePc, ~LeavingLoop, ~LeavingLoop',
         pc' \in InStagePc => pc \in InStagePc,
         Repaired => Repaired' \/ run.nextStage \notin AfterLoop
  PROVE  CourseInv'
<1>1. pc' \notin SliceLoopPc \cup BetweenSlices \cup BuildingPc \cup {"down"}
  BY DEF OutsidePc, InStagePc, SliceLoopPc, BetweenSlices, BuildingPc
<1>2. /\ InOrder(run)' /\ (stateFile' # None => InOrder(stateFile)')
      /\ pc' \in InStagePc => InOrder(snap)'
      /\ ~Repaired' => Complete(run.nextStage)'
  BY DEF CourseInv, InOrder, Complete, AllBuilt
<1>3. QED
  BY <1>1, <1>2 DEF CourseInv

\* The pipeline loop goes on from what the stage left.
LEMMA PipelineCourse ==
  ControlOK /\ RunsOK /\ StagesOK /\ RunTypes /\ Saved /\ OutcomeInv /\ OutcomeInv'
    /\ CourseInv /\ PipelineLoop => CourseInv'
<1> SUFFICES ASSUME ControlOK, RunsOK, StagesOK, RunTypes, Saved, OutcomeInv, OutcomeInv',
                    CourseInv, PipelineLoop
             PROVE  CourseInv'
  OBVIOUS
<1>0. ASSUME pc' \in {"next", "completed", "stage", "stopped", "resync", "decide"}
      PROVE  pc' \notin SliceLoopPc \cup BetweenSlices \cup BuildingPc \cup {"down"}
  BY <1>0 DEF SliceLoopPc, BetweenSlices, BuildingPc
<1>1. CASE SaveStart
  <2>1. /\ pc = "boot" /\ pc' = "next" /\ stateFile' = run
        /\ UNCHANGED <<run, queueFile, design>>
    BY <1>1 DEF SaveStart, memory
  <2>2. InOrder(run) /\ Complete(run.nextStage)
    BY <2>1 DEF CourseInv, OutsidePc, LeavingLoop, Repaired, AfterStage
  <2>3. InOrder(run)' /\ InOrder(stateFile)' /\ Complete(run.nextStage)'
    BY <2>1, <2>2 DEF InOrder, Complete, AllBuilt
  <2>4. QED
    BY <1>0, <2>1, <2>3 DEF CourseInv, LeavingLoop, AfterStage, InStagePc
<1>2. CASE FinishRun
  BY <1>2, CourseStays
     DEF FinishRun, memory, durable, OutsidePc, InStagePc, LeavingLoop, Repaired, AfterStage
<1>3. CASE EnterStage
  <2>1. /\ pc = "next" /\ pc' = "stage" /\ snap' = run
        /\ UNCHANGED <<run, queueFile, design, stateFile>>
    BY <1>3 DEF EnterStage, durable
  <2>2. /\ InOrder(run) /\ Complete(run.nextStage)
        /\ stateFile # None => InOrder(stateFile)
    BY <2>1 DEF CourseInv, OutsidePc, LeavingLoop, Repaired, AfterStage
  <2>3. /\ InOrder(run)' /\ InOrder(snap)' /\ Complete(run.nextStage)'
        /\ stateFile' # None => InOrder(stateFile)'
    BY <2>1, <2>2 DEF InOrder, Complete, AllBuilt
  <2>4. QED
    BY <1>0, <2>1, <2>3 DEF CourseInv, LeavingLoop, AfterStage
<1>4. CASE PassGate \/ GateRejects \/ GateApproves
  <2>1. /\ pc = "gate" /\ pc' = "resync"
        /\ UNCHANGED <<design, queueFile, stateFile, run, snap>>
    BY <1>4 DEF PassGate, GateRejects, GateApproves, AtGate, memory, durable
  <2>2. CASE LeavingLoop
    <3>1. outcome' = outcome
      BY <1>4, <2>2
         DEF PassGate, GateRejects, GateApproves, AtGate, memory, OutcomeInv
    <3>2. LeavingLoop' /\ (outcome'.status # "FAIL" => AllBuilt')
      BY <2>1, <2>2, <3>1 DEF LeavingLoop, AfterStage, CurrentStage, CourseInv, AllBuilt
    <3>3. QED
      BY <1>0, <2>1, <3>2 DEF CourseInv
  <2>3. CASE ~LeavingLoop
    <3>1. ~LeavingLoop'
      BY <2>1, <2>3 DEF LeavingLoop, AfterStage, CurrentStage
    <3>2. Repaired => Repaired'
      <4>1. outcome'.remediation = outcome.remediation
        BY <1>4 DEF PassGate, GateRejects, GateApproves, AtGate, memory, RunsOK, Outcome
      <4>2. QED
        BY <2>1, <4>1 DEF Repaired, AfterStage
    <3>3. QED
      BY <2>1, <2>3, <3>1, <3>2, CourseStays DEF OutsidePc, InStagePc
  <2>4. QED
    BY <2>2, <2>3
<1>5. CASE GateRetries
  <2>1. /\ pc = "gate" /\ pc' = "stage" /\ outcome.cap
        /\ UNCHANGED <<design, queueFile, stateFile, run, snap>>
    BY <1>5 DEF GateRetries, AtGate, memory, durable
  <2>2. ~LeavingLoop /\ ~Repaired /\ ~LeavingLoop'
    BY <2>1, OutcomeFields DEF OutcomeInv, LeavingLoop, AfterStage, Repaired
  <2>3. QED
    BY <2>1, <2>2, CourseStays DEF OutsidePc, InStagePc
<1>6. CASE Resync
  <2>1. /\ pc = "resync" /\ pc' = "decide" /\ run' = stateFile /\ stateFile # None
        /\ UNCHANGED <<design, queueFile, stateFile, snap, outcome>>
    BY <1>6 DEF Resync, Reload, durable, Saved
  <2>2. stateFile.nextStage = run.nextStage
    BY <2>1 DEF StagesOK
  <2>3. LeavingLoop' = LeavingLoop /\ Repaired' = Repaired
    BY <2>1 DEF LeavingLoop, AfterStage, Repaired, CurrentStage
  <2>4. CASE LeavingLoop
    <3>1. outcome'.status # "FAIL" => AllBuilt'
      BY <2>1, <2>4 DEF CourseInv, AllBuilt
    <3>2. QED
      BY <1>0, <2>1, <2>3, <2>4, <3>1 DEF CourseInv
  <2>5. CASE ~LeavingLoop
    <3>1. InOrder(stateFile) /\ InOrder(snap) /\ (~Repaired => Complete(run.nextStage))
      BY <2>1, <2>5 DEF CourseInv, OutsidePc, InStagePc
    <3>2. InOrder(stateFile)' /\ InOrder(run)' /\ InOrder(snap)'
          /\ (~Repaired' => Complete(run.nextStage)')
      BY <2>1, <2>2, <2>3, <3>1 DEF InOrder, Complete, AllBuilt
    <3>3. QED
      BY <1>0, <2>1, <2>3, <2>5, <3>2 DEF CourseInv
  <2>6. QED
    BY <2>4, <2>5
<1>7. CASE StopOnEscalation \/ StopOnFail
  <2>1. pc' = "stopped"
    BY <1>7 DEF StopOnEscalation, StopOnFail
  <2>2. QED
    BY <1>0, <2>1 DEF CourseInv, OutsidePc, InStagePc, LeavingLoop, AfterStage
<1>8. CASE FollowEscalation
  <2>1. /\ pc' = "next" /\ stateFile' = run'
        /\ run' = LoopBack(run, outcome.loop, CurrentFingerprint)
    BY <1>8 DEF FollowEscalation
  <2>2. run'.pendingReconcile = TRUE /\ run'.nextStage \in {"goals", "design"}
    BY <2>1 DEF LoopBack, EscalationTarget, RunTypes, RunRecord
  <2>3. InOrder(run)' /\ InOrder(stateFile)' /\ Complete(run.nextStage)'
    BY <2>1, <2>2 DEF InOrder, Complete, AfterLoop
  <2>4. QED
    BY <1>0, <2>1, <2>3 DEF CourseInv, LeavingLoop, AfterStage, InStagePc
<1>9. CASE CompleteStage
  <2> DEFINE to == NextStageFor(CurrentStage, outcome.remediation)
  <2>1. /\ pc = "decide" /\ pc' = "next" /\ stateFile' = run'
        /\ run' = CompleteStageIn(run, CurrentStage, outcome.remediation)
        /\ UNCHANGED <<design, queueFile>>
        /\ outcome.status # "FAIL" \/ outcome.remediation
    BY <1>9 DEF CompleteStage
  <2>2. run'.nextStage = to /\ run'.pendingReconcile = run.pendingReconcile
    BY <2>1 DEF CompleteStageIn, RunTypes, RunRecord
  <2>3. CurrentStage \in Stage /\ run.nextStage = CurrentStage
        /\ outcome.remediation \in BOOLEAN
    BY <2>1 DEF RunsOK, CurrentStage, StagesOK, Outcome
  <2>4. /\ CurrentStage \notin UpToDesign => to \notin UpToDesign
        /\ to \in AfterLoop /\ CurrentStage # "slice-loop" => CurrentStage \in AfterLoop
        /\ CurrentStage \in {"verify", "accept"} /\ outcome.remediation => to = "slice-loop"
    BY <2>3 DEF NextStageFor, Stage, UpToDesign, AfterLoop
  <2>5. Repaired => CurrentStage \in {"verify", "accept"} /\ outcome.remediation
    BY DEF OutcomeInv, Repaired
  <2>6. InOrder(run)' /\ Complete(run.nextStage)'
    <3>1. CASE LeavingLoop
      <4>1. AllBuilt /\ CurrentStage = "slice-loop"
        BY <2>1, <3>1, OutcomeFields DEF CourseInv, LeavingLoop, OutcomeInv
      <4>2. AllBuilt' /\ run'.nextStage \notin UpToDesign
        BY <2>1, <2>2, <2>4, <4>1 DEF AllBuilt, UpToDesign
      <4>3. QED
        BY <4>2 DEF InOrder, Complete, AllBuilt, Finished, Clean, Unstarted
    <3>2. CASE ~LeavingLoop
      <4>1. InOrder(run) /\ (~Repaired => Complete(run.nextStage))
        BY <2>1, <3>2 DEF CourseInv, OutsidePc, InStagePc
      <4>2. CurrentStage # "slice-loop"
        BY <2>1, <3>2 DEF LeavingLoop, AfterStage
      <4>3. Complete(run.nextStage)'
        <5>1. CASE Repaired
          BY <2>2, <2>4, <2>5, <5>1 DEF Complete, AfterLoop
        <5>2. CASE ~Repaired
          <6>1. to \in AfterLoop => AllBuilt
            BY <2>3, <2>4, <4>1, <4>2, <5>2 DEF Complete
          <6>2. QED
            BY <2>1, <2>2, <6>1 DEF Complete, AllBuilt
        <5>3. QED
          BY <5>1, <5>2
      <4>4. InOrder(run)'
        BY <2>1, <2>2, <2>3, <2>4, <4>1 DEF InOrder
      <4>5. QED
        BY <4>3, <4>4
    <3>3. QED
      BY <3>1, <3>2
  <2>7. InOrder(stateFile)'
    BY <2>1, <2>6 DEF InOrder
  <2>8. QED
    BY <1>0, <2>1, <2>6, <2>7 DEF CourseInv, LeavingLoop, AfterStage, InStagePc
<1>10. QED
  BY <1>1, <1>2, <1>3, <1>4, <1>5, <1>6, <1>7, <1>8, <1>9 DEF PipelineLoop

\* The stages before the slice loop: a new design comes with the flag set, or before
\* there is a queue; the carried-forward queue is the design's.
LEMMA EarlyCourse ==
  ControlOK /\ RunsOK /\ StagesOK /\ DesignInv /\ OutcomeInv' /\ CourseInv /\ EarlyStages
    => CourseInv'
<1> SUFFICES ASSUME ControlOK, RunsOK, StagesOK, DesignInv, OutcomeInv', CourseInv, EarlyStages
             PROVE  CourseInv'
  OBVIOUS
<1>1. /\ pc \in {"stage", "carryForward", "skeletonResults", "structure"}
      /\ pc' \in {"carryForward", "skeletonResults", "structure", "gate"}
      /\ CurrentStage \in Stage \ ({"slice-loop"} \cup AfterLoop)
      /\ UNCHANGED <<run, snap, stateFile>>
  BY DEF EarlyStages, GoalsWithoutTask, GoalsStage, ResearchStage, DocumentStage,
         DesignStage, SkeletonEarlyPass, SkeletonFails, SkeletonBuilt, CarryForward,
         WriteSkeletonResults, ReviewStructure, BaselineEarlyPass, BaselineCheck,
         AtStage, Return, memory, durable, ControlOK, SkeletonPc, AfterLoop, Stage
<1>2. /\ run.nextStage = CurrentStage
      /\ stateFile # None => stateFile.nextStage = CurrentStage
  BY <1>1 DEF StagesOK, StagePc
<1>3. ~LeavingLoop /\ ~LeavingLoop' /\ ~Repaired /\ pc \in OutsidePc /\ pc' \in OutsidePc
      /\ pc \in InStagePc /\ pc' \in InStagePc
  BY <1>1 DEF LeavingLoop, Repaired, AfterStage, CurrentStage, OutsidePc, InStagePc
<1>4. InOrder(run) /\ InOrder(snap) /\ (stateFile # None => InOrder(stateFile))
  BY <1>3 DEF CourseInv
<1>5. CASE UNCHANGED <<design, queueFile>>
  BY <1>1, <1>3, <1>5, CourseStays
<1>6. CASE DesignStage \/ CarryForward
  <2>1. InOrder(run)' /\ InOrder(snap)' /\ (stateFile' # None => InOrder(stateFile)')
    <3>1. CASE DesignStage
      <4>1. CurrentStage \in UpToDesign /\ UNCHANGED queueFile
        BY <3>1 DEF DesignStage, AtStage, UpToDesign
      <4>2. QED
        BY <1>1, <1>2, <1>4, <4>1 DEF InOrder, CurrentStage
    <3>2. CASE CarryForward
      <4>1. queueFile' = AllDone(design) /\ UNCHANGED design /\ IsDesign(design)
        BY <3>2, WritersDesigned DEF CarryForward
      <4>2. Clean(queueFile') /\ Covers(queueFile', design')
        BY <4>1, NewCovers
      <4>3. CurrentStage \notin UpToDesign
        BY <3>2 DEF CarryForward, ControlOK, SkeletonPc, UpToDesign
      <4>4. QED
        BY <1>1, <1>2, <4>2, <4>3 DEF InOrder, CurrentStage
    <3>3. QED
      BY <1>6, <3>1, <3>2
  <2>2. Complete(run.nextStage)'
    BY <1>1, <1>2 DEF Complete
  <2>3. pc' \notin SliceLoopPc \cup BetweenSlices \cup BuildingPc \cup {"down"}
    BY <1>1 DEF SliceLoopPc, BetweenSlices, BuildingPc
  <2>4. QED
    BY <1>3, <2>1, <2>2, <2>3 DEF CourseInv
<1>7. DesignStage \/ CarryForward \/ UNCHANGED <<design, queueFile>>
  BY DEF EarlyStages, GoalsWithoutTask, GoalsStage, ResearchStage, DocumentStage,
         SkeletonEarlyPass, SkeletonFails, SkeletonBuilt, WriteSkeletonResults,
         ReviewStructure, BaselineEarlyPass, BaselineCheck, durable
<1>8. QED
  BY <1>5, <1>6, <1>7

\* In the slice loop what counts is the queue, not the Runs.
LEMMA CourseInLoop ==
  ASSUME pc' \in SliceLoopPc, Covers(queueFile', design'),
         pc' \in BetweenSlices => Clean(queueFile'),
         pc' \in BuildingPc => CleanBut(queueFile', CurrentSlice')
  PROVE  CourseInv'
BY DEF CourseInv, SliceLoopPc, OutsidePc, InStagePc, LeavingLoop, AfterStage

\* The slice loop: it starts from a clean queue that covers the design, builds one
\* slice at a time, and passes when nothing is left.
LEMMA SliceLoopCourse ==
  WorkableDesigns /\ ControlOK /\ StagesOK /\ DesignInv /\ QueueTypes /\ RunTypes /\ HoldInv
    /\ WorkInv /\ CourseInv /\ SliceLoop => CourseInv'
<1> SUFFICES ASSUME WorkableDesigns, ControlOK, StagesOK, DesignInv, QueueTypes, RunTypes,
                    HoldInv, WorkInv, CourseInv, SliceLoop
             PROVE  CourseInv'
  OBVIOUS
<1>1. HeaderId = SliceId
  BY DEF WorkableDesigns
<1>2. ASSUME NEW o, Return(o), CurrentStage = "slice-loop", UNCHANGED snap,
             o.status # "FAIL" => AllBuilt'
      PROVE  CourseInv'
  <2>1. pc' = "gate" /\ outcome' = o /\ LeavingLoop'
    BY <1>2 DEF Return, LeavingLoop, AfterStage, CurrentStage
  <2>2. QED
    BY <1>2, <2>1 DEF CourseInv, SliceLoopPc, BetweenSlices, BuildingPc
<1>3. CASE BuildQueue
  <2>1. queueFile' = BuildInitial(design) /\ UNCHANGED <<design, snap>>
        /\ CurrentStage = "slice-loop"
    BY <1>3 DEF BuildQueue, AtStage
  <2>2. Clean(queueFile') /\ Covers(queueFile', design')
    BY <1>3, <2>1, WritersDesigned, NewCovers
  <2>3. \/ Return(Escalation("LOOP_DESIGN", "unparsed"))
        \/ EnterLoop(queueFile')
    BY <1>3 DEF BuildQueue
  <2>4. CASE Return(Escalation("LOOP_DESIGN", "unparsed"))
    BY <1>2, <2>1, <2>4, OutcomeFields
  <2>5. CASE EnterLoop(queueFile')
    <3>1. pc' = "select"
      BY <2>5 DEF EnterLoop
    <3>2. QED
      BY <2>2, <3>1, CourseInLoop DEF SliceLoopPc, BuildingPc
  <2>6. QED
    BY <2>3, <2>4, <2>5
<1>4. CASE ResumeQueue
  <2>1. /\ pc = "stage" /\ CurrentStage = "slice-loop" /\ ~snap.pendingReconcile
        /\ queueFile # None /\ UNCHANGED <<queueFile, design>> /\ pc' = "select"
    BY <1>4 DEF ResumeQueue, AtStage, EnterLoop, durable
  <2>2. InOrder(snap)
    BY <2>1 DEF CourseInv, OutsidePc, InStagePc, LeavingLoop, AfterStage
  <2>3. Clean(queueFile) /\ Covers(queueFile, design)
    BY <2>1, <2>2 DEF InOrder
  <2>4. QED
    BY <2>1, <2>3, CourseInLoop DEF SliceLoopPc, BuildingPc
<1>5. CASE ReconcileQueue
  <2>1. /\ queueFile' = Reconcile(ReadBack(queueFile), design) /\ UNCHANGED design
        /\ pc' = "clearFlag" /\ ReadBack(queueFile) \in Seq(Slice)
    BY <1>5, ReadBackFacts DEF ReconcileQueue, Reconciled, QueueTypes
  <2>2. Clean(queueFile') /\ Covers(queueFile', design')
    BY <1>5, <2>1, WritersDesigned, NewCovers
  <2>3. QED
    BY <2>1, <2>2, CourseInLoop DEF SliceLoopPc, BuildingPc
<1>6. CASE ClearFlag
  <2>1. pc = "clearFlag" /\ pc' = "select" /\ UNCHANGED <<queueFile, design>>
    BY <1>6 DEF ClearFlag, EnterLoop
  <2>2. Clean(queueFile) /\ Covers(queueFile, design)
    BY <2>1 DEF CourseInv, BetweenSlices, SliceLoopPc
  <2>3. QED
    BY <2>1, <2>2, CourseInLoop DEF SliceLoopPc, BuildingPc
<1>7. CASE LoopWrites
  <2>1. /\ Covers(queueFile', design)
        /\ SelectSlice => CleanBut(queueFile', CurrentSlice')
        /\ ReflectAndMarkDone \/ RequeueFailed => Clean(queueFile')
    BY <1>1, <1>7, LoopCourse
  <2>2. /\ UNCHANGED design
        /\ pc' = IF SelectSlice THEN "saveBuilding"
                 ELSE IF ReflectAndMarkDone THEN "saveDone"
                 ELSE IF RequeueFailed THEN "saveRequeue" ELSE "saveEscalated"
    BY <1>7 DEF LoopWrites, SelectSlice, ReflectAndMarkDone, RequeueFailed, EscalateFailed,
                WriteQueue
  <2>3. QED
    BY <2>1, <2>2, CourseInLoop DEF SliceLoopPc, BuildingPc, BetweenSlices
<1>8. CASE LoopPasses
  <2>1. /\ pc = "select" /\ ~HasReady(Promote(queue)) /\ Return(Passed)
        /\ UNCHANGED <<queueFile, design, snap>>
    BY <1>8 DEF LoopPasses, durable
  <2>2. /\ queueFile # None /\ queueFile \in Seq(Slice) /\ queue = queueFile
    BY <1>1, <2>1, ReadBackFacts DEF HoldInv, SliceLoopPc, QueueTypes
  <2>3. Clean(queueFile) /\ Covers(queueFile, design) /\ Workable(queueFile)
    BY <2>1, <2>2 DEF CourseInv, BetweenSlices, SliceLoopPc, WorkInv
  <2>4. AllBuilt
    BY <2>1, <2>2, <2>3, NothingLeft DEF AllBuilt
  <2>5. AllBuilt'
    BY <2>1, <2>4 DEF AllBuilt
  <2>6. CurrentStage = "slice-loop"
    BY <2>1 DEF ControlOK, SliceLoopPc
  <2>7. QED
    BY <1>2, <2>1, <2>5, <2>6
<1>9. CASE ClassifyEscalation
  <2>1. PICK loop, reason : Return(Escalation(loop, reason))
    BY <1>9 DEF ClassifyEscalation
  <2>2. CurrentStage = "slice-loop" /\ UNCHANGED snap
    BY <1>9 DEF ClassifyEscalation, ControlOK, SliceLoopPc
  <2>3. QED
    BY <1>2, <2>1, <2>2, OutcomeFields
<1>10. CASE SaveBuilding \/ SaveDone \/ SaveRequeue \/ SaveEscalated \/ PlanSlice
            \/ CheckFeasibility \/ ImplementSlice \/ CheckDone \/ CheckEvidence \/ AskForLoop
  <2>1. /\ UNCHANGED <<queueFile, design, sliceRun>> /\ pc \in SliceLoopPc
        /\ pc' \in SliceLoopPc
        /\ pc' \in BuildingPc => pc \in BuildingPc
        /\ pc' \in BetweenSlices => pc \in BetweenSlices
    BY <1>10 DEF SaveBuilding, SaveDone, SaveRequeue, SaveEscalated, SaveSliceRun, PlanSlice,
                 CheckFeasibility, ImplementSlice, CheckDone, CheckEvidence, AskForLoop,
                 SubStep, memory, durable, SliceLoopPc, BuildingPc, BetweenSlices
  <2>2. /\ Covers(queueFile', design')
        /\ pc' \in BetweenSlices => Clean(queueFile')
        /\ pc' \in BuildingPc => CleanBut(queueFile', CurrentSlice')
    BY <2>1 DEF CourseInv, CurrentSlice
  <2>3. QED
    BY <2>1, <2>2, CourseInLoop
<1>11. QED
  BY <1>3, <1>4, <1>5, <1>6, <1>7, <1>8, <1>9, <1>10 DEF SliceLoop, LoopWrites

\* Behind the slice loop, only a remediation changes the queue, and it starts from a
\* finished one.
LEMMA LateCourse ==
  WorkableDesigns /\ ControlOK /\ StagesOK /\ QueueTypes /\ HoldInv /\ OutcomeInv'
    /\ CourseInv /\ LateStages => CourseInv'
<1> SUFFICES ASSUME WorkableDesigns, ControlOK, StagesOK, QueueTypes, HoldInv, OutcomeInv',
                    CourseInv, LateStages
             PROVE  CourseInv'
  OBVIOUS
<1>1. /\ pc \in {"stage", "remediate"} /\ pc' \in {"remediate", "gate"}
      /\ CurrentStage \in AfterLoop /\ CurrentStage # "slice-loop"
      /\ UNCHANGED <<run, snap, stateFile, design>>
  BY DEF LateStages, RunVerifier, RunAcceptance, Remediate, NoRemediation, ReportStage,
         AtStage, Return, durable, ControlOK, AfterLoop
<1>2. /\ run.nextStage = CurrentStage
      /\ stateFile # None => stateFile.nextStage = CurrentStage
  BY <1>1 DEF StagesOK, StagePc
<1>3. ~LeavingLoop /\ ~LeavingLoop' /\ ~Repaired /\ pc \in OutsidePc /\ pc' \in OutsidePc
      /\ pc \in InStagePc /\ pc' \in InStagePc
  BY <1>1 DEF LeavingLoop, Repaired, AfterStage, CurrentStage, OutsidePc, InStagePc
<1>4. CASE ~Remediate
  <2>1. UNCHANGED queueFile
    BY <1>4 DEF LateStages, RunVerifier, RunAcceptance, NoRemediation, ReportStage, durable
  <2>2. QED
    BY <1>1, <1>3, <2>1, CourseStays
<1>5. CASE Remediate
  <2>1. AllBuilt
    BY <1>1, <1>2, <1>3 DEF CourseInv, Complete
  <2>2. PICK p \in Proposals : queueFile' = ApplyRemediation(QueueOnDisk, p).queue
    BY <1>5 DEF Remediate
  <2>3. QueueOnDisk = queueFile /\ queueFile \in Seq(Slice) /\ p \in Seq(Repair)
    BY <2>1, ReadBackFacts, ProposalAssumption
       DEF AllBuilt, QueueOnDisk, QueueTypes, WorkableDesigns, IsProposal
  <2>4. Clean(queueFile') /\ IdsOf(queueFile) \subseteq IdsOf(queueFile')
    BY <2>1, <2>2, <2>3, RemedyCourse DEF AllBuilt
  <2>5. Covers(queueFile', design')
    BY <1>1, <2>1, <2>4 DEF AllBuilt, Covers
  <2>6. CurrentStage \notin UpToDesign
    BY <1>1 DEF AfterLoop, UpToDesign
  <2>7. InOrder(run)' /\ InOrder(snap)' /\ (stateFile' # None => InOrder(stateFile)')
    BY <1>1, <1>2, <2>4, <2>5, <2>6 DEF InOrder, CurrentStage
  <2>8. Repaired'
    BY <1>5, OutcomeFields DEF Remediate, Return, Repaired, AfterStage
  <2>9. pc' \notin SliceLoopPc \cup BetweenSlices \cup BuildingPc \cup {"down"}
    BY <1>1 DEF SliceLoopPc, BetweenSlices, BuildingPc
  <2>10. QED
    BY <1>3, <2>7, <2>8, <2>9 DEF CourseInv
<1>6. QED
  BY <1>4, <1>5

\* Until something fails, no step is a failure, and nobody resumes the run.
LEMMA NothingFails ==
  ASSUME OtherTypes, CourseInv, [Next]_vars, FaultFree'
  PROVE  ~Environment
<1>1. {"crash", "throw", "resume"} \subseteq Event
  BY DEF Event
<1>2. ~Throw /\ ~Crash
  BY <1>1, EventsCount DEF FaultFree, Throw, Crash
<1>3. ~Resume
  BY <1>1, EventsCount DEF FaultFree, Resume, CourseInv
<1>4. QED
  BY <1>2, <1>3 DEF Environment

\* CourseInv holds until something fails.
LEMMA AlwaysCourse ==
  WorkableDesigns /\ Spec => [](FaultFree => CourseInv)
<1> SUFFICES ASSUME WorkableDesigns PROVE Spec => [](FaultFree => CourseInv)
  OBVIOUS
<1>1. Init => CourseInv
  BY DEF Init, CourseInv, OutsidePc, InStagePc, SliceLoopPc, BetweenSlices, BuildingPc,
         LeavingLoop, AfterStage, InOrder, Complete, StartRun, AfterLoop
<1>2. ControlOK /\ RunsOK /\ StagesOK /\ DesignInv /\ QueueTypes /\ RunTypes /\ OtherTypes
        /\ Saved /\ HoldInv /\ WorkInv /\ OutcomeInv /\ OutcomeInv'
        /\ (FaultFree => CourseInv) /\ [Next]_vars
        => (FaultFree => CourseInv)'
  <2> SUFFICES ASSUME ControlOK, RunsOK, StagesOK, DesignInv, QueueTypes, RunTypes, OtherTypes,
                      Saved, HoldInv, WorkInv, OutcomeInv, OutcomeInv',
                      FaultFree => CourseInv, [Next]_vars, FaultFree'
               PROVE  CourseInv'
    OBVIOUS
  <2>1. FaultFree
    BY EventsCount DEF FaultFree, Event
  <2>2. CourseInv /\ UNCHANGED vars => CourseInv'
    BY DEF CourseInv, InOrder, Complete, AllBuilt, LeavingLoop, Repaired, CurrentStage,
           CurrentSlice, vars, memory, durable
  <2>3. CourseInv /\ ~Environment
    BY <2>1, NothingFails
  <2>4. QED
    BY <2>2, <2>3, PipelineCourse, EarlyCourse, SliceLoopCourse, LateCourse
       DEF Next, Program, Terminated
<1>3. QED
  BY <1>1, <1>2, AlwaysControlOK, RunsAlwaysOK, AlwaysStagesOK, AlwaysDesignInv, AlwaysTypes,
     AlwaysSaved, AlwaysHolds, AlwaysWorkable, AlwaysOutcome, PTL DEF Spec

\* Without failures, verify, accept and report find every slice done, whatever was
\* escalated, redesigned or remediated on the way: nothing leaves the slice loop
\* passing while a slice waits (slice-loop.ts, slice-queue.ts).
THEOREM LateStagesFindAllDone ==
  WorkableDesigns /\ Spec => []LateStagesSeeAllDone
<1> SUFFICES ASSUME WorkableDesigns PROVE Spec => []LateStagesSeeAllDone
  OBVIOUS
<1>1. StagesOK /\ QueueTypes /\ (FaultFree => CourseInv) => LateStagesSeeAllDone
  <2> SUFFICES ASSUME StagesOK, QueueTypes, CourseInv, pc = "stage",
                      CurrentStage \in {"verify", "accept", "report"}
               PROVE  Finished(QueueOnDisk)
    BY DEF LateStagesSeeAllDone, Finished
  <2>1. run.nextStage \in AfterLoop
    BY DEF StagesOK, StagePc, AfterLoop
  <2>2. AllBuilt
    BY <2>1 DEF CourseInv, OutsidePc, InStagePc, LeavingLoop, Repaired, AfterStage, Complete
  <2>3. QueueOnDisk = queueFile
    BY <2>2, ReadBackFacts DEF AllBuilt, QueueOnDisk, QueueTypes, WorkableDesigns
  <2>4. QED
    BY <2>2, <2>3 DEF AllBuilt
<1>2. QED
  BY <1>1, AlwaysCourse, AlwaysStagesOK, AlwaysTypes, PTL

\* Without failures, a run that completes has done every slice of its last design,
\* through any number of redesigns and remediations (pipeline-loop.ts).
THEOREM CompletedRunCoversDesign ==
  WorkableDesigns /\ Spec => []CompletedCoversDesign
<1> SUFFICES ASSUME WorkableDesigns PROVE Spec => []CompletedCoversDesign
  OBVIOUS
<1>1. StagesOK /\ QueueTypes /\ (FaultFree => CourseInv) => CompletedCoversDesign
  <2> SUFFICES ASSUME StagesOK, QueueTypes, CourseInv, pc = "completed"
               PROVE  DesignIds(design) \subseteq DoneIds(QueueOnDisk)
    BY DEF CompletedCoversDesign
  <2>1. AllBuilt
    BY DEF StagesOK, CourseInv, OutsidePc, LeavingLoop, Repaired, AfterStage, Complete,
           AfterLoop
  <2>2. QueueOnDisk = queueFile
    BY <2>1, ReadBackFacts DEF AllBuilt, QueueOnDisk, QueueTypes, WorkableDesigns
  <2>3. IdsOf(queueFile) \subseteq DoneIds(queueFile)
    BY <2>1 DEF AllBuilt, Finished, IdsOf, DoneIds, IdsWith
  <2>4. QED
    BY <2>1, <2>2, <2>3 DEF AllBuilt, Covers
<1>2. QED
  BY <1>1, AlwaysCourse, AlwaysStagesOK, AlwaysTypes, PTL
=============================================================================
