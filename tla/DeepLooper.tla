----------------------------- MODULE DeepLooper -----------------------------
(***************************************************************************)
(* One run of the pipeline: the process that drives the stages             *)
(* (application/pipeline), the slice loop (application/stage/slice-loop),  *)
(* the stages around it, the files they leave, and the operator who        *)
(* resumes a run after a crash or a stop.                                  *)
(*                                                                         *)
(* The process is a single flow of control, so an action is the code       *)
(* between two points where it can be cut short: an agent dispatch, a file *)
(* write or a prompt.  Wherever slice-queue.md and state.json are written  *)
(* one after the other, the two writes are two actions.                    *)
(***************************************************************************)
EXTENDS RunState, FiniteSets, Progress

CONSTANTS Designs,     \* the designs the synthesizer may write
          Proposals,   \* what the reflector may propose: sequences of entries
          Settings,    \* the mode and failure policy a process may be given
          Limit,       \* bounds on what the environment does, by event
          TornWrites   \* may a crash leave the file being written empty?

Setting == [interactive : BOOLEAN, bestEffort : BOOLEAN]

Event == {"crash", "throw", "resume", "retry", "remediation"}

ASSUME NoneAssumption == None \notin Designs /\ None \notin Seq(Slice) /\ None \notin RunRecord
ASSUME DesignAssumption == \A d \in Designs : IsDesign(d)
ASSUME ProposalAssumption == \A p \in Proposals : IsProposal(p)
ASSUME SettingsAssumption == Settings \subseteq Setting
ASSUME LimitAssumption == Limit \in [Event -> Nat]
ASSUME TornAssumption == TornWrites \in BOOLEAN

VARIABLES
  design,      \* design.md
  files,       \* the other artifacts that mark a stage as done
  queueFile,   \* slice-queue.md
  stateFile,   \* state.json
  pc,          \* where the process is
  setting,     \* the mode and failure policy of the process
  run,         \* the pipeline loop's Run
  snap,        \* runtime.state, the snapshot the stage was given
  retried,     \* has the stage had its automatic retry?
  queue,       \* the slice loop's queue, ctx.queue
  sliceRun,    \* the slice loop's Run, ctx.run
  outcome,     \* what the stage returned
  spent        \* how often each event of the environment has happened

durable == <<design, files, queueFile, stateFile>>
memory == <<run, snap, retried, queue, sliceRun, outcome>>
vars == <<durable, pc, setting, memory, spent>>

-----------------------------------------------------------------------------
(***************************************************************************)
(* State.                                                                  *)
(***************************************************************************)

\* The slice loop's inner steps, in order, and the ends of a failed step.
SliceLoopPc == {"clearFlag", "select", "saveBuilding", "plan", "feasibility",
                "implement", "doneCheck", "evidence", "reflect", "saveDone",
                "failed", "saveRequeue", "escalating", "saveEscalated", "classify"}

\* Inside executeStage, where a throw is caught.
StagePc == SliceLoopPc \cup {"stage", "carryForward", "skeletonResults", "structure",
                             "remediate", "gate"}

Pc == StagePc \cup {"boot", "next", "resync", "decide", "down", "stopped", "completed"}

Files == [goals : BOOLEAN, research : BOOLEAN, structure : BOOLEAN,
          skeletonResults : BOOLEAN, baseline : BOOLEAN, report : BOOLEAN,
          verify : {"none", "PASS", "FAIL"}, accept : {"none", "PASS", "FAIL"}]

Outcome == [status : {"PASS", "PARTIAL", "FAIL"}, loop : Loop \cup {None},
            reason : Reason \cup {None}, cap : BOOLEAN, remediation : BOOLEAN]

Result(status) ==
  [status |-> status, loop |-> None, reason |-> None, cap |-> FALSE, remediation |-> FALSE]

Passed == Result("PASS")
Failed == Result("FAIL")
Unclean == [Failed EXCEPT !.cap = TRUE]
Escalation(loop, reason) == [Failed EXCEPT !.loop = loop, !.reason = reason]
Remediation == [Failed EXCEPT !.remediation = TRUE]

\* The stage being run and the slice being built.
CurrentStage == snap.nextStage
CurrentSlice == sliceRun.currentSlice

\* Memory that nothing reads any more is put back to its initial value.
NoQueue == << >>
IdleRun == StartRun(FALSE)

Spend(event) == /\ spent[event] < Limit[event]
                /\ spent' = [spent EXCEPT ![event] = @ + 1]

\* The stage returns o.
Return(o) == /\ outcome' = o
             /\ pc' = "gate"
             /\ queue' = NoQueue
             /\ sliceRun' = IdleRun

AtStage(stage) == pc = "stage" /\ CurrentStage = stage

Init == /\ design = None
        /\ files = [goals |-> FALSE, research |-> FALSE, structure |-> FALSE,
                    skeletonResults |-> FALSE, baseline |-> FALSE, report |-> FALSE,
                    verify |-> "none", accept |-> "none"]
        /\ queueFile = None
        /\ stateFile = None
        /\ pc = "boot"
        /\ setting \in Settings
        /\ run = StartRun(TRUE)
        /\ snap = IdleRun
        /\ retried = FALSE
        /\ queue = NoQueue
        /\ sliceRun = IdleRun
        /\ outcome = Passed
        /\ spent = [e \in Event |-> 0]

-----------------------------------------------------------------------------
(***************************************************************************)
(* The pipeline loop.                                                      *)
(***************************************************************************)

SaveStart == /\ pc = "boot"
             /\ stateFile' = run
             /\ pc' = "next"
             /\ UNCHANGED <<design, files, queueFile, setting, memory, spent>>

FinishRun == /\ pc = "next" /\ run.nextStage = "done"
             /\ pc' = "completed"
             /\ UNCHANGED <<durable, setting, memory, spent>>

EnterStage == /\ pc = "next" /\ run.nextStage # "done"
              /\ snap' = run
              /\ retried' = FALSE
              /\ pc' = "stage"
              /\ UNCHANGED <<durable, setting, run, queue, sliceRun, outcome, spent>>

\* A stage other than accept that failed at its review cap goes to the gate.
AtGate == /\ pc = "gate"
          /\ outcome.status = "FAIL" /\ outcome.cap
          /\ CurrentStage # "accept"

PassGate == /\ pc = "gate" /\ ~AtGate
            /\ pc' = "resync"
            /\ UNCHANGED <<durable, setting, memory, spent>>

\* Automated fail-closed, or the operator aborts.
GateRejects == /\ AtGate
               /\ setting.interactive \/ ~setting.bestEffort
               /\ pc' = "resync"
               /\ UNCHANGED <<durable, setting, memory, spent>>

\* Automated best-effort, or the operator approves.
GateApproves == /\ AtGate
                /\ setting.interactive \/ setting.bestEffort
                /\ outcome' = [outcome EXCEPT !.status = "PARTIAL"]
                /\ pc' = "resync"
                /\ UNCHANGED <<durable, setting, run, snap, retried, queue, sliceRun, spent>>

\* The operator asks for the stage again, on the same snapshot.
GateRetries == /\ AtGate
               /\ setting.interactive
               /\ Spend("retry")
               /\ pc' = "stage"
               /\ UNCHANGED <<durable, setting, memory>>

\* Mutant: the loop goes on with the Run it had before the stage.
KeepStaleRun(file, r) == r

Reload(file, r) == IF file # None THEN file ELSE r

Resync == /\ pc = "resync"
          /\ run' = Reload(stateFile, run)
          /\ pc' = "decide"
          /\ UNCHANGED <<durable, setting, snap, retried, queue, sliceRun, outcome, spent>>

\* The fingerprint of this escalation: the slice of the Run, the class, the
\* reason and the number of ready or building slices in the file.
CurrentFingerprint ==
  [slice |-> run.currentSlice, loop |-> outcome.loop, reason |-> outcome.reason,
   actionable |-> IF queueFile = None THEN 0
                  ELSE Cardinality(Actionable(ReadBack(queueFile)))]

NoProgress == run.fingerprint = CurrentFingerprint

StopOnEscalation == /\ pc = "decide" /\ outcome.loop # None
                    /\ NoProgress \/ CapHit(run)
                    /\ stateFile' = run
                    /\ pc' = "stopped"
                    /\ UNCHANGED <<design, files, queueFile, setting, memory, spent>>

FollowEscalation == /\ pc = "decide" /\ outcome.loop # None
                    /\ ~NoProgress /\ ~CapHit(run)
                    /\ run' = LoopBack(run, outcome.loop, CurrentFingerprint)
                    /\ stateFile' = run'
                    /\ pc' = "next"
                    /\ UNCHANGED <<design, files, queueFile, setting, snap, retried, queue,
                                   sliceRun, outcome, spent>>

StopOnFail == /\ pc = "decide" /\ outcome.loop = None
              /\ outcome.status = "FAIL" /\ ~outcome.remediation
              /\ stateFile' = run
              /\ pc' = "stopped"
              /\ UNCHANGED <<design, files, queueFile, setting, memory, spent>>

CompleteStage == /\ pc = "decide" /\ outcome.loop = None
                 /\ outcome.status # "FAIL" \/ outcome.remediation
                 /\ run' = CompleteStageIn(run, CurrentStage, outcome.remediation)
                 /\ stateFile' = run'
                 /\ pc' = "next"
                 /\ UNCHANGED <<design, files, queueFile, setting, snap, retried, queue,
                                sliceRun, outcome, spent>>

PipelineLoop == \/ SaveStart \/ FinishRun \/ EnterStage
                \/ PassGate \/ GateRejects \/ GateApproves \/ GateRetries
                \/ Resync
                \/ StopOnEscalation \/ FollowEscalation \/ StopOnFail \/ CompleteStage

-----------------------------------------------------------------------------
(***************************************************************************)
(* The stages before the slice loop.  Each is an agent and its reviewers:  *)
(* what it leaves on disk, and how it may end.                             *)
(***************************************************************************)

\* What goals and research have in common: they write their document in the
\* middle, and may fail before it, after it, or at the review cap.
DocumentStage(stage, doc, unreviewed) ==
  /\ AtStage(stage)
  /\ \E written \in {files[doc], TRUE}, o \in {Passed, Failed, Unclean} :
       /\ o = Passed => written
       /\ o = Unclean => written \/ unreviewed
       /\ files' = [files EXCEPT ![doc] = written]
       /\ Return(o)
  /\ UNCHANGED <<design, queueFile, stateFile, setting, run, snap, retried, spent>>

\* Without a task description the stage fails before anything else.
GoalsWithoutTask == /\ AtStage("goals") /\ ~snap.userTask
                    /\ Return(Failed)
                    /\ UNCHANGED <<durable, setting, run, snap, retried, spent>>

GoalsStage == snap.userTask /\ DocumentStage("goals", "goals", FALSE)

\* The synthesizer's own FAIL counts as a review cap, summary or not.
ResearchStage == DocumentStage("research", "research", TRUE)

\* design.md is rewritten on every entry; an operator may also reject it.
DesignStage ==
  /\ AtStage("design")
  /\ \E o \in {Passed, Unclean} \cup
              (IF setting.interactive /\ ~setting.bestEffort THEN {Failed} ELSE {}) :
       Return(o)
  /\ design' \in Designs
  /\ UNCHANGED <<files, queueFile, stateFile, setting, run, snap, retried, spent>>

\* structure.md is there and every scaffold file it names is on disk.
SkeletonEarlyPass == /\ AtStage("skeleton") /\ files.structure
                     /\ Return(Passed)
                     /\ UNCHANGED <<durable, setting, run, snap, retried, spent>>

SkeletonFails ==
  /\ AtStage("skeleton")
  /\ \E o \in {Failed, Escalation("LOOP_DESIGN", "skeletonBroken"),
               Escalation("LOOP_DESIGN", "skeletonMerge")} : Return(o)
  /\ UNCHANGED <<durable, setting, run, snap, retried, spent>>

\* The scaffold is merged; a tiny design may have been implemented whole.
SkeletonBuilt ==
  /\ AtStage("skeleton")
  /\ \/ pc' = "skeletonResults"
     \/ Len(design.slices) <= 2 /\ pc' = "carryForward"
  /\ UNCHANGED <<durable, setting, memory, spent>>

CarryForward == /\ pc = "carryForward"
                /\ queueFile' = AllDone(design)
                /\ pc' = "skeletonResults"
                /\ UNCHANGED <<design, files, stateFile, setting, memory, spent>>

WriteSkeletonResults ==
  /\ pc = "skeletonResults"
  /\ files' = [files EXCEPT !.skeletonResults = TRUE]
  /\ pc' = "structure"
  /\ UNCHANGED <<design, queueFile, stateFile, setting, memory, spent>>

\* A failed review is both an escalation and a review cap.
ReviewStructure ==
  /\ pc = "structure"
  /\ \/ /\ files' = [files EXCEPT !.structure = TRUE]
        /\ Return(Passed)
     \/ /\ \E written \in {files.structure, TRUE} :
             files' = [files EXCEPT !.structure = written]
        /\ Return([Escalation("LOOP_DESIGN", "structureReview") EXCEPT !.cap = TRUE])
  /\ UNCHANGED <<design, queueFile, stateFile, setting, run, snap, retried, spent>>

\* The results file is trusted once it exists, whatever it says.
BaselineEarlyPass == /\ AtStage("baseline") /\ files.baseline
                     /\ Return(Passed)
                     /\ UNCHANGED <<durable, setting, run, snap, retried, spent>>

BaselineCheck == /\ AtStage("baseline") /\ ~files.baseline
                 /\ files' = [files EXCEPT !.baseline = TRUE]
                 /\ \E s \in {"PASS", "PARTIAL", "FAIL"} : Return(Result(s))
                 /\ UNCHANGED <<design, queueFile, stateFile, setting, run, snap, retried,
                                spent>>

EarlyStages == \/ GoalsWithoutTask \/ GoalsStage \/ ResearchStage \/ DesignStage
               \/ SkeletonEarlyPass \/ SkeletonFails \/ SkeletonBuilt
               \/ CarryForward \/ WriteSkeletonResults \/ ReviewStructure
               \/ BaselineEarlyPass \/ BaselineCheck

-----------------------------------------------------------------------------
(***************************************************************************)
(* The slice loop.                                                         *)
(***************************************************************************)

\* Enter the loop with q: its Run is rehydrated from the stage's snapshot.
EnterLoop(q) == /\ queue' = q
                /\ sliceRun' = snap
                /\ pc' = "select"
                /\ UNCHANGED outcome

\* Write the queue file, and go on to the save of the Run.
WriteQueue(q, r, at) == /\ queue' = q
                        /\ queueFile' = q
                        /\ sliceRun' = r
                        /\ pc' = at

SaveSliceRun(at, next) == /\ pc = at
                          /\ stateFile' = sliceRun
                          /\ pc' = next
                          /\ UNCHANGED <<design, files, queueFile, setting, memory, spent>>

\* First entry: an empty result from a design that declares slices is an error.
BuildQueue ==
  /\ AtStage("slice-loop") /\ queueFile = None
  /\ queueFile' = BuildInitial(design)
  /\ IF design.slices = << >> /\ design.declares
     THEN Return(Escalation("LOOP_DESIGN", "unparsed"))
     ELSE EnterLoop(queueFile')
  /\ UNCHANGED <<design, files, stateFile, setting, run, snap, retried, spent>>

ResumeQueue == /\ AtStage("slice-loop") /\ queueFile # None /\ ~snap.pendingReconcile
               /\ EnterLoop(ReadBack(queueFile))
               /\ UNCHANGED <<durable, setting, run, snap, retried, spent>>

\* Mutant: the old queue goes on as it is.
ReconciledAsIs(q, d) == ReadBack(q)

\* Mutant: the queue is built anew, and the completed slices are forgotten.
ReconciledAnew(q, d) == BuildInitial(d)

Reconciled(q, d) == Reconcile(ReadBack(q), d)

ReconcileQueue ==
  /\ AtStage("slice-loop") /\ queueFile # None /\ snap.pendingReconcile
  /\ queue' = Reconciled(queueFile, design)
  /\ queueFile' = queue'
  /\ pc' = "clearFlag"
  /\ UNCHANGED <<design, files, stateFile, setting, run, snap, retried, sliceRun, outcome,
                 spent>>

\* The cleared flag is saved from a Run of its own; ctx.run keeps the old one.
ClearFlag == /\ pc = "clearFlag"
             /\ stateFile' = ClearReconcile(snap)
             /\ EnterLoop(queue)
             /\ UNCHANGED <<design, files, queueFile, setting, run, snap, retried, spent>>

SelectSlice ==
  LET promoted == Promote(queue)
  IN  /\ pc = "select" /\ HasReady(promoted)
      /\ LET id == FirstReady(promoted).id
         IN  WriteQueue(MarkBuilding(promoted, id), MarkSliceBuilding(sliceRun, id),
                        "saveBuilding")
      /\ UNCHANGED <<design, files, stateFile, setting, run, snap, retried, outcome, spent>>

\* Nothing is ready: the stage passes, whatever the other slices are.
LoopPasses == /\ pc = "select" /\ ~HasReady(Promote(queue))
              /\ Return(Passed)
              /\ UNCHANGED <<durable, setting, run, snap, retried, spent>>

SaveBuilding == SaveSliceRun("saveBuilding", "plan")

\* One sub-step on the current slice: it passes, or it fails the attempt.
SubStep(at, next) == /\ pc = at
                     /\ pc' \in {next, "failed"}
                     /\ UNCHANGED <<durable, setting, memory, spent>>

PlanSlice        == SubStep("plan", "feasibility")
CheckFeasibility == SubStep("feasibility", "implement")
ImplementSlice   == SubStep("implement", "doneCheck")
CheckDone        == SubStep("doneCheck", "evidence")
CheckEvidence    == SubStep("evidence", "reflect")

\* The planner and the implementation may also ask for a loop at once.
AskForLoop == /\ pc \in {"plan", "implement"}
              /\ pc' = "escalating"
              /\ UNCHANGED <<durable, setting, memory, spent>>

ReflectAndMarkDone ==
  /\ pc = "reflect"
  /\ WriteQueue(MarkDone(queue, CurrentSlice), MarkSliceDone(sliceRun, CurrentSlice), "saveDone")
  /\ UNCHANGED <<design, files, stateFile, setting, run, snap, retried, outcome, spent>>

SaveDone == SaveSliceRun("saveDone", "select")

RequeueFailed ==
  /\ pc = "failed" /\ ~RequeueCapped(sliceRun, CurrentSlice)
  /\ WriteQueue(Requeue(queue, CurrentSlice), RequeueSlice(sliceRun, CurrentSlice), "saveRequeue")
  /\ UNCHANGED <<design, files, stateFile, setting, run, snap, retried, outcome, spent>>

SaveRequeue == SaveSliceRun("saveRequeue", "select")

EscalateFailed ==
  /\ pc = "escalating" \/ (pc = "failed" /\ RequeueCapped(sliceRun, CurrentSlice))
  /\ WriteQueue(Escalate(queue, CurrentSlice), EscalateSlice(sliceRun, CurrentSlice),
                "saveEscalated")
  /\ UNCHANGED <<design, files, stateFile, setting, run, snap, retried, outcome, spent>>

SaveEscalated == SaveSliceRun("saveEscalated", "classify")

\* The detector's verdict, or the class proposed when it finds no loop.
ClassifyEscalation ==
  /\ pc = "classify"
  /\ \E loop \in Loop, reason \in AgentReason : Return(Escalation(loop, reason))
  /\ UNCHANGED <<durable, setting, run, snap, retried, spent>>

SliceLoop == \/ BuildQueue \/ ResumeQueue \/ ReconcileQueue \/ ClearFlag
             \/ SelectSlice \/ LoopPasses \/ SaveBuilding
             \/ PlanSlice \/ CheckFeasibility \/ ImplementSlice \/ CheckDone \/ CheckEvidence
             \/ AskForLoop \/ ReflectAndMarkDone \/ SaveDone
             \/ RequeueFailed \/ SaveRequeue \/ EscalateFailed \/ SaveEscalated
             \/ ClassifyEscalation

-----------------------------------------------------------------------------
(***************************************************************************)
(* Verify, accept and report.                                              *)
(***************************************************************************)

RunVerifier ==
  /\ AtStage("verify")
  /\ \E s \in {"PASS", "FAIL"} :
       /\ files' = [files EXCEPT !.verify = s]
       /\ IF s = "PASS" THEN Return(Passed)
          ELSE pc' = "remediate" /\ UNCHANGED <<queue, sliceRun, outcome>>
  /\ UNCHANGED <<design, queueFile, stateFile, setting, run, snap, retried, spent>>

\* The agent may write the results file itself; the controller writes it only
\* when it is not there.
AcceptMarker(s, byAgent) ==
  IF byAgent \/ files.accept = "none" THEN s ELSE files.accept

RunAcceptance ==
  /\ AtStage("accept")
  /\ \E s \in {"PASS", "FAIL"}, byAgent \in BOOLEAN :
       /\ files' = [files EXCEPT !.accept = AcceptMarker(s, byAgent)]
       /\ IF s = "PASS" THEN Return(Passed)
          ELSE pc' = "remediate" /\ UNCHANGED <<queue, sliceRun, outcome>>
  /\ UNCHANGED <<design, queueFile, stateFile, setting, run, snap, retried, spent>>

QueueOnDisk == IF queueFile = None THEN NoQueue ELSE ReadBack(queueFile)

Remedied(p) == LET r == ApplyRemediation(QueueOnDisk, p)
               IN  r.reopened # {} \/ r.added # {}

\* The reflector's entries change the queue, and the slice loop is next.
Remediate ==
  /\ pc = "remediate"
  /\ \E p \in Proposals :
       /\ Remedied(p)
       /\ queueFile' = ApplyRemediation(QueueOnDisk, p).queue
  /\ Spend("remediation")
  /\ Return(Remediation)
  /\ UNCHANGED <<design, files, stateFile, setting, run, snap, retried>>

\* No entry does: the failure is design's.
NoRemediation == /\ pc = "remediate"
                 /\ Return(Escalation("LOOP_DESIGN", CurrentStage))
                 /\ UNCHANGED <<durable, setting, run, snap, retried, spent>>

ReportStage == /\ AtStage("report")
               /\ files' = [files EXCEPT !.report = TRUE]
               /\ Return(Passed)
               /\ UNCHANGED <<design, queueFile, stateFile, setting, run, snap, retried, spent>>

LateStages == RunVerifier \/ RunAcceptance \/ Remediate \/ NoRemediation \/ ReportStage

-----------------------------------------------------------------------------
(***************************************************************************)
(* Failures and the operator.                                              *)
(***************************************************************************)

\* Something in the stage throws: best-effort runs it once more, on the same
\* snapshot, unless the host has cancelled the run; otherwise the error ends
\* the process.
Throw == /\ pc \in StagePc \ {"gate"} \/ AtGate
         /\ Spend("throw")
         /\ \/ setting.bestEffort /\ ~retried /\ pc' = "stage" /\ retried' = TRUE
            \/ pc' = "down" /\ UNCHANGED retried
         /\ queue' = NoQueue
         /\ sliceRun' = IdleRun
         /\ UNCHANGED <<durable, setting, run, snap, outcome>>

\* A new or a dead process: nothing in memory but the run.
Restart(r) == /\ run' = r
              /\ snap' = IdleRun
              /\ retried' = FALSE
              /\ queue' = NoQueue
              /\ sliceRun' = IdleRun
              /\ outcome' = Passed

\* The places where state.json, or slice-queue.md, is the next thing written.
SavingState == pc \in {"boot", "clearFlag", "saveBuilding", "saveDone", "saveRequeue",
                       "saveEscalated", "decide"}
SavingQueue == \/ pc \in {"carryForward", "reflect", "failed", "escalating"}
               \/ pc = "select" /\ HasReady(Promote(queue))
               \/ AtStage("slice-loop") /\ (queueFile = None \/ snap.pendingReconcile)
               \/ pc = "remediate" /\ \E p \in Proposals : Remedied(p)

\* The process dies.  A write in progress may leave its file empty, which the
\* readers treat as missing.
Crash == /\ pc \notin {"down", "stopped", "completed"}
         /\ Spend("crash")
         /\ Restart(IdleRun)
         /\ pc' = "down"
         /\ \/ UNCHANGED <<queueFile, stateFile>>
            \/ TornWrites /\ SavingState /\ stateFile' = None /\ UNCHANGED queueFile
            \/ TornWrites /\ SavingQueue /\ queueFile' = None /\ UNCHANGED stateFile
         /\ UNCHANGED <<design, files, setting>>

\* Without state.json the stage is inferred from the artifacts: the markers
\* are walked in order, but verify's does not ask for those before it.
PipelineOrder == <<"goals", "research", "design", "skeleton", "baseline", "slice-loop",
                   "verify", "accept", "report">>

Baselined == /\ files.research /\ design # None
             /\ files.structure \/ files.skeletonResults
             /\ files.baseline

\* Mutant: a FAIL in stage9-summary.md counts as a marker.
MarkedAnyVerdict(stage) ==
  CASE stage = "goals"      -> TRUE
    [] stage = "research"   -> files.research
    [] stage = "design"     -> files.research /\ design # None
    [] stage = "skeleton"   -> /\ files.research /\ design # None
                               /\ files.structure \/ files.skeletonResults
    [] stage = "baseline"   -> Baselined
    [] stage = "slice-loop" -> Baselined /\ queueFile # None /\ IsExhausted(QueueOnDisk)
    [] stage = "verify"     -> files.verify # "none"
    [] stage = "accept"     -> files.verify = "PASS" /\ files.accept = "PASS"
    [] stage = "report"     -> files.verify = "PASS" /\ files.accept = "PASS" /\ files.report

Marked(stage) ==
  CASE stage = "goals"      -> TRUE
    [] stage = "research"   -> files.research
    [] stage = "design"     -> files.research /\ design # None
    [] stage = "skeleton"   -> /\ files.research /\ design # None
                               /\ files.structure \/ files.skeletonResults
    [] stage = "baseline"   -> Baselined
    [] stage = "slice-loop" -> Baselined /\ queueFile # None /\ IsExhausted(QueueOnDisk)
    [] stage = "verify"     -> files.verify = "PASS"
    [] stage = "accept"     -> files.verify = "PASS" /\ files.accept = "PASS"
    [] stage = "report"     -> files.verify = "PASS" /\ files.accept = "PASS" /\ files.report

MarkedStage ==
  PipelineOrder[Max({i \in DOMAIN PipelineOrder : Marked(PipelineOrder[i])})]

InferredRun ==
  LET onDisk == IF Baselined THEN QueueOnDisk ELSE NoQueue
  IN  [StartRun(FALSE) EXCEPT
         !.nextStage = NextStageFor(MarkedStage, FALSE),
         !.slicesDone = DoneIds(onDisk),
         !.slicesBlocked = IdsWith(onDisk, {"blocked", "escalated"})]

RecoveredRun == IF stateFile # None THEN stateFile
                ELSE IF files.goals THEN InferredRun
                ELSE StartRun(FALSE)

\* The operator resumes the run, perhaps under other settings.  After a crash
\* that is always possible; after a stop it is bounded.
Resume == /\ pc \in {"down", "stopped"}
          /\ IF pc = "stopped" THEN Spend("resume") ELSE UNCHANGED spent
          /\ Restart(RecoveredRun)
          /\ setting' \in Settings
          /\ pc' = "boot"
          /\ UNCHANGED durable

\* The process has ended, and nobody resumes the run.
Terminated == /\ pc \in {"completed", "stopped"}
              /\ UNCHANGED vars

Environment == Throw \/ Crash \/ Resume

Program == PipelineLoop \/ EarlyStages \/ SliceLoop \/ LateStages

Next == Program \/ Environment \/ Terminated

Spec == Init /\ [][Next]_vars

\* Where an interactive run waits for its operator: at the gate, and at the
\* questions of goals and design.  None of these prompts has a deadline.
AwaitsOperator == /\ setting.interactive
                  /\ AtGate \/ AtStage("design") \/ (AtStage("goals") /\ snap.userTask)

\* What the process does without being answered.
OnItsOwn == ~AwaitsOperator /\ Program

\* The process runs on as long as it lives; nothing obliges the operator to
\* answer it or to resume it, or the environment to fail.
FairSpec == Spec /\ WF_vars(OnItsOwn)

-----------------------------------------------------------------------------
(***************************************************************************)
(* Types.                                                                  *)
(***************************************************************************)

\* Every variable holds a value of the kind the code keeps there.
TypeOK == /\ design \in Designs \cup {None}
          /\ files \in Files
          /\ queueFile # None => IsQueue(queueFile)
          /\ stateFile \in RunRecord \cup {None}
          /\ pc \in Pc
          /\ setting \in Settings
          /\ run \in RunRecord /\ snap \in RunRecord /\ sliceRun \in RunRecord
          /\ retried \in BOOLEAN
          /\ IsQueue(queue)
          /\ outcome \in Outcome
          /\ spent \in [Event -> Nat]

-----------------------------------------------------------------------------
(***************************************************************************)
(* Safety.                                                                 *)
(***************************************************************************)

\* No run loops back to goals or design more often than MAX_BACKWARD_LOOPS,
\* through any interleaving of crashes, automatic retries and resumes: the
\* count goes through the pipeline loop's Run, the stage's snapshot and the
\* slice loop's Run, and each of them is at some point saved over the others.
BackwardLoopsBounded ==
  /\ stateFile # None => stateFile.backwardLoops <= MaxBackwardLoops
  /\ run.backwardLoops <= MaxBackwardLoops

\* No slice is requeued more often than MAX_REQUEUE by the counts the state
\* file keeps, although the cap check reads a Run rehydrated from a snapshot
\* and is itself the only bound on the slice loop.
RequeuesBounded ==
  \A s \in SliceId :
    /\ stateFile # None => stateFile.requeueCounts[s] <= MaxRequeue
    /\ sliceRun.requeueCounts[s] <= MaxRequeue

\* How many counts one failure may take back.  A best-effort retry, which goes
\* back to the stage's snapshot, and a torn state.json may take all of them;
\* any other only the attempt that is in slice-queue.md and not yet counted.
Forgets(e) ==
  IF \/ e = "throw" /\ \E s \in Settings : s.bestEffort
     \/ e = "crash" /\ TornWrites
  THEN MaxRequeue ELSE 1

Forgotten == Forgets("crash") * spent["crash"] + Forgets("throw") * spent["throw"]

\* The attempts that slice-queue.md records go beyond the cap only by what
\* failures took from the counts in state.json, or from the Run in memory: the
\* queue is written first, and the cap check reads the other file's counts.
AttemptsBounded ==
  queueFile # None =>
    \A i \in DOMAIN queueFile : queueFile[i].requeueCount <= MaxRequeue + Forgotten

\* Fail-closed: no step takes back a count that state.json holds: not the
\* slice loop, which saves a Run of its own, nor the pipeline loop, which ran
\* the stage with an older one and saves after it.
CountsNeverDecrease ==
  stateFile # None /\ stateFile' # None =>
    /\ stateFile'.backwardLoops >= stateFile.backwardLoops
    /\ \A s \in SliceId : stateFile'.requeueCounts[s] >= stateFile.requeueCounts[s]

\* The action property of CountsNeverDecrease.
CountersMonotone == [][CountsNeverDecrease]_vars

\* The slice loop never loses a completed slice: what slice-queue.md has as
\* done stays done through each of its steps, through the reconciliation with
\* any redesign, and through crashes and resumes between the steps.
LoopKeepsDone ==
  [][ pc \notin {"carryForward", "remediate"} /\ queueFile # None =>
        /\ queueFile' # None
        /\ DoneIds(queueFile) \subseteq DoneIds(queueFile') ]_vars

\* A slice is built only when everything it depends on is done, through
\* requeues, restarts and redesigns, as long as nothing has been reopened.
BuildsOnlyReadySlices ==
  pc \in {"plan", "feasibility", "implement", "doneCheck", "evidence", "reflect"}
  /\ spent["remediation"] = 0 =>
    \A i \in DOMAIN queue :
      queue[i].id = CurrentSlice => DepsDone(queue, queue[i])

DesignIds(d) == {d.slices[i].id : i \in DOMAIN d.slices}

\* The slice loop works on the current design: a slice that it may still build
\* is one of that design's, although the queue was written for an older one
\* and the flag that says so passes through four stages and their failures.
\* (A slice that verify or accept reopened may be an older design's.)
QueueMatchesDesign ==
  pc = "select" /\ spent["remediation"] = 0 =>
    \A i \in DOMAIN queue :
      queue[i].status = "done" \/ queue[i].id \in DesignIds(design)

FaultFree == \A e \in {"crash", "throw", "resume"} : spent[e] = 0

\* Without failures, verify, accept and report are entered only with every
\* slice of the queue done, whatever was escalated or appended before.
LateStagesSeeAllDone ==
  pc = "stage" /\ CurrentStage \in {"verify", "accept", "report"} /\ FaultFree =>
    \A i \in DOMAIN QueueOnDisk : QueueOnDisk[i].status = "done"

\* Without failures, a completed run has done every slice of its last design.
CompletedCoversDesign ==
  pc = "completed" /\ FaultFree => DesignIds(design) \subseteq DoneIds(QueueOnDisk)

\* A completed run has a verification result that is not FAIL, even when its
\* stage was inferred from the artifacts because state.json was lost.
CompletedIsVerified == pc = "completed" => files.verify = "PASS" /\ files.report

-----------------------------------------------------------------------------
(***************************************************************************)
(* Refinement.                                                             *)
(***************************************************************************)

Life == INSTANCE SliceLife WITH file <- queueFile,
          MaxAttempts <- MaxRequeue + Forgets("crash") * Limit["crash"]
                           + Forgets("throw") * Limit["throw"]

\* Whatever the stages, the failures and the operator do, slice-queue.md lives
\* the life of SliceLife: each write is one legal operation on what was there,
\* and no slice is requeued beyond the cap but for what failures forget.
QueueIsWellUsed == Life!Spec

-----------------------------------------------------------------------------
(***************************************************************************)
(* Progress: what a run has left to do, and its environment.               *)
(***************************************************************************)

\* What the environment may still do.
BudgetLeft ==
  (Limit["crash"] - spent["crash"]) + (Limit["throw"] - spent["throw"])
    + (Limit["resume"] - spent["resume"]) + (Limit["retry"] - spent["retry"])
    + (Limit["remediation"] - spent["remediation"])

\* A process is resumed, saves its start, runs and ends.
PhasesLeft == CASE pc = "down" -> 3
                [] pc = "boot" -> 2
                [] pc \in {"stopped", "completed"} -> 0
                [] OTHER -> 1

LoopsLeft == MaxBackwardLoops - run.backwardLoops

StagesFrom(stage) ==
  CASE stage = "goals"      -> 9
    [] stage = "research"   -> 8
    [] stage = "design"     -> 7
    [] stage = "skeleton"   -> 6
    [] stage = "baseline"   -> 5
    [] stage = "slice-loop" -> 4
    [] stage = "verify"     -> 3
    [] stage = "accept"     -> 2
    [] stage = "report"     -> 1
    [] stage = "done"       -> 0

AfterStage == {"gate", "resync", "decide"}

\* A remediation, once it is paid for, leads back to the slice loop.
StagesLeft == IF pc \in AfterStage /\ outcome.remediation
              THEN StagesFrom("slice-loop") + 1
              ELSE StagesFrom(run.nextStage)

\* Where slices are attempted; a stage is before it, in it or after it.
AttemptPc == SliceLoopPc \ {"clearFlag"}

PartsLeft == CASE pc \in AttemptPc -> 1
               [] pc \in AfterStage -> 0
               [] OTHER -> 2

\* The attempts that the requeue cap leaves to the slices that are not done,
\* each with its number.
AttemptsLeft ==
  IF pc \in AttemptPc
  THEN {a \in IdsWith(queue, Status \ {"done"}) \X (0 .. MaxRequeue) :
          a[2] >= sliceRun.requeueCounts[a[1]]}
  ELSE {}

StepsFrom ==
  [down |-> 0, boot |-> 0, stopped |-> 0, completed |-> 0,
   next |-> 6, stage |-> 5, carryForward |-> 4, skeletonResults |-> 3, structure |-> 2,
   remediate |-> 2, clearFlag |-> 2,
   saveDone |-> 13, saveRequeue |-> 13, select |-> 12, saveBuilding |-> 11, plan |-> 10,
   feasibility |-> 9, implement |-> 8, doneCheck |-> 7, evidence |-> 6, reflect |-> 5,
   failed |-> 4, escalating |-> 3, saveEscalated |-> 2, classify |-> 1,
   gate |-> 2, resync |-> 1, decide |-> 0]

Remaining ==
  <<BudgetLeft, PhasesLeft, LoopsLeft, StagesLeft, PartsLeft, Cardinality(AttemptsLeft),
    StepsFrom[pc]>>

\* Nothing goes round for nothing: every step, of the program or of its
\* environment, leaves less of a tuple of numbers that never go below zero.
\* A requeue, an escalation, a reconciliation, a second try or a resume each
\* start something over, on a Run read from one of three places; each uses up
\* what none of the others gives back.
UsesUp == <<Remaining, Remaining'>> \in Descents(7)

EveryStepCounts == [][UsesUp]_vars

-----------------------------------------------------------------------------
(***************************************************************************)
(* Liveness.                                                               *)
(***************************************************************************)

Ended == pc \in {"completed", "stopped", "down"}

\* Every run ends, or waits for an answer of its operator: escalations,
\* requeues and retries cannot go on for ever once the reflector has no more
\* remediation to propose, which nothing in the code obliges it to.
Terminates == <>[](Ended \/ AwaitsOperator)

\* Unless the process fails, a slice that is being built is done, requeued or
\* escalated, in the file that a resume would read.
NothingLeftBuilding ==
  (queueFile # None /\ IdsWith(queueFile, {"building"}) # {}) ~>
    (queueFile # None /\ IdsWith(queueFile, {"building"}) = {}) \/ ~FaultFree
=============================================================================
