----------------------- MODULE Implementation_proofs -----------------------
(***************************************************************************)
(* Proofs about Implementation, for any task specs, any number of tasks    *)
(* and any number of calls, throws and crashes, of a process that has its  *)
(* run branch checked out.                                                 *)
(*                                                                         *)
(* The argument: within a call, what is completed or merged is on the run  *)
(* branch, which only grows; a wave holds only tasks whose dependencies    *)
(* are completed, unless they cannot be resolved; and a worktree is made   *)
(* from the run branch when its wave is there.                             *)
(*                                                                         *)
(* That every step uses something up needs no assumption on the branch: a  *)
(* wave is a part of the tasks that are left and is not empty, so that a   *)
(* wave that is over leaves fewer; and within one each step of a task, in  *)
(* whatever order they come, leaves fewer steps.                           *)
(***************************************************************************)
EXTENDS Implementation, FiniteSetTheorems, TLAPS

-----------------------------------------------------------------------------
(***************************************************************************)
(* Types.                                                                  *)
(***************************************************************************)

\* The types, and: while one task is being merged, there is one.
TInv == /\ TypeOK
        /\ pc \in {"commit", "conflict", "fix", "resquash"} => merging \in Id

\* The larger of two lengths is one of them.
LEMMA MaxOfTwo ==
  ASSUME NEW a \in Nat, NEW b \in Nat
  PROVE  Max({a, b}) \in {a, b} /\ Max({a, b}) >= a /\ Max({a, b}) >= b
<1>1. \E x \in {a, b} : \A y \in {a, b} : x >= y
  OBVIOUS
<1> QED
  BY <1>1 DEF Max

\* What a planner leaves in the phase are task specs.
LEMMA OverwrittenType ==
  ASSUME NEW s \in Seq(TaskSpec), NEW plan \in Seq(TaskSpec)
  PROVE  Overwritten(s, plan) \in Seq(TaskSpec)
<1> DEFINE n == Max({Len(s), Len(plan)})
<1>1. n \in Nat /\ (n = Len(s) \/ n = Len(plan))
  BY MaxOfTwo
<1> HIDE DEF n
<1>2. \A i \in 1..n : i <= Len(plan) \/ i <= Len(s)
  BY <1>1
<1>3. [i \in 1..n |-> IF i <= Len(plan) THEN plan[i] ELSE s[i]] \in [1..n -> TaskSpec]
  BY <1>1, <1>2
<1>4. Overwritten(s, plan) \in [1..n -> TaskSpec]
  BY <1>3 DEF Overwritten, n
<1> QED
  BY <1>1, <1>4

\* The tasks of a phase, and of a wave, have ids.
LEMMA TaskIdsType ==
  ASSUME NEW s \in Seq(TaskSpec), NEW done
  PROVE  TaskIds(s) \subseteq Id /\ NextWave(s, done) \subseteq TaskIds(s)
<1>1. \A i \in DOMAIN s : s[i] \in TaskSpec
  OBVIOUS
<1> QED
  BY <1>1 DEF TaskIds, NextWave, TaskSpec

\* The work on a task is a change.
LEMMA WorkType ==
  ASSUME TypeOK, NEW t \in Id
  PROVE  Work(t) \in Change
BY DEF TypeOK, Work, Change, Call, Event

\* A limited event is counted.
LEMMA SpendType ==
  ASSUME TypeOK, NEW e \in Event, Spend(e)
  PROVE  spent' \in [Event -> Nat]
BY DEF TypeOK, Spend

\* A call that is over leaves nothing in memory.
LEMMA ReturnType ==
  ASSUME NEW o \in Outcome, Return(o)
  PROVE  /\ outcome' \in Outcome /\ pc' = "idle" /\ completed' = {} /\ wave' = {}
         /\ job' \in [Id -> Job] /\ attempt' \in [Id -> 1..MaxAttempts]
         /\ merging' = NoTask /\ regressed' = FALSE
BY DEF Return, Job, MaxAttempts

\* TInv holds at the start, and every step keeps it.
LEMMA TInit == Init => TInv
<1> SUFFICES ASSUME Init PROVE TInv
  OBVIOUS
<1>1. regressed \in BOOLEAN
  BY DEF Init
<1> QED
  BY <1>1 DEF Init, TInv, TypeOK, Job, Outcome, Pc, Running, Checks, MaxAttempts, Branch,
              CheckedOut, Event, NoTask

LEMMA TNext == TInv /\ [Next]_vars => TInv'
<1> SUFFICES ASSUME TInv, [Next]_vars PROVE TInv'
  OBVIOUS
<1> USE DEF TInv
<1>1. CASE StartCall
  <2>1. spent' \in [Event -> Nat]
    BY <1>1, SpendType DEF StartCall, Event
  <2>2. specs' \in Seq(TaskSpec)
    BY <1>1, OverwrittenType, PlansAssumption DEF StartCall, TypeOK
  <2>3. wave' \subseteq Id
    BY <1>1, <2>2, TaskIdsType DEF StartCall
  <2>4. regressed' \in BOOLEAN
    BY <1>1 DEF StartCall
  <2> QED
    BY <1>1, <2>1, <2>2, <2>3, <2>4 DEF StartCall, TypeOK, Job, Pc, Running, Checks, Outcome,
                                        MaxAttempts, NoTask
<1>2. CASE Checkpoint
  BY <1>2 DEF Checkpoint, TypeOK, memory
<1>3. CASE \E t \in Id : \/ PrepareWorktree(t) \/ Code(t) \/ Tests(t)
                        \/ VerifyPasses(t) \/ ReviewPasses(t) \/ VerifyFails(t)
  <2> PICK t \in Id : \/ PrepareWorktree(t) \/ Code(t) \/ Tests(t)
                     \/ VerifyPasses(t) \/ ReviewPasses(t) \/ VerifyFails(t)
    BY <1>3
  <2>1. CASE PrepareWorktree(t)
    BY <2>1 DEF PrepareWorktree, Step, TypeOK, Job, Branch
  <2>2. CASE Code(t) \/ Tests(t) \/ VerifyPasses(t) \/ ReviewPasses(t)
    BY <2>2 DEF Code, Tests, VerifyPasses, ReviewPasses, Agent, Step, TypeOK, Job, durable
  <2>3. CASE VerifyFails(t)
    BY <2>3 DEF VerifyFails, Retry, Judged, Step, TypeOK, Job, durable, MaxAttempts
  <2> QED
    BY <2>1, <2>2, <2>3
<1>4. CASE StartWork
  BY <1>4 DEF StartWork, TypeOK, Job, Pc, Running, Checks, durable
<1>5. CASE FailWave \/ CheckIntegration
  <2>1. PICK o \in Outcome : Return(o)
    BY <1>5 DEF FailWave, CheckIntegration, Outcome
  <2>2. UNCHANGED <<durable, spent>>
    BY <1>5 DEF FailWave, CheckIntegration
  <2> QED
    BY <2>1, <2>2, ReturnType DEF TypeOK, durable, Pc
<1>6. CASE StartMerge
  BY <1>6 DEF StartMerge, TypeOK, Pc, Running, Checks, durable, memory
<1>7. CASE MergeNext \/ Resquash
  <2>1. PICK t \in Id : SquashEmpty(t) \/ SquashStaged(t) \/ SquashRefused(t)
    BY <1>7 DEF MergeNext, Resquash, Unmerged, TypeOK
  <2>2. Work(t) \in Change
    BY WorkType
  <2>3. CASE SquashEmpty(t)
    BY <2>2, <2>3 DEF SquashEmpty, Merged, Step, TypeOK, Job, Pc, Running, Checks
  <2>4. CASE SquashStaged(t) \/ SquashRefused(t)
    BY <2>2, <2>4 DEF SquashStaged, SquashRefused, TypeOK, Pc, Running, Checks
  <2> QED
    BY <2>1, <2>3, <2>4
<1>8. CASE CommitSquash
  BY <1>8 DEF CommitSquash, Merged, Step, TypeOK, Job, Pc, Running, Checks
<1>9. CASE Rebase \/ FixConflict
  BY <1>9 DEF Rebase, FixConflict, Rebased, TypeOK, Pc, Running, Checks, Branch, durable, memory
<1>10. CASE Abandon
  BY <1>10, ReturnType DEF Abandon, TypeOK, Pc, Outcome
<1>11. CASE NextWaveStarts
  <2>1. wave' \subseteq Id
    BY <1>11, TaskIdsType DEF NextWaveStarts, TypeOK
  <2> QED
    BY <1>11, <2>1 DEF NextWaveStarts, TypeOK, Pc, Running, Checks, durable
<1>12. CASE Throw
  <2>1. spent' \in [Event -> Nat]
    BY <1>12, SpendType DEF Throw, Event
  <2> QED
    BY <1>12, <2>1, ReturnType DEF Throw, TypeOK, durable, Pc, Outcome
<1>13. CASE Crash
  <2>1. spent' \in [Event -> Nat]
    BY <1>13, SpendType DEF Crash, Event
  <2>2. head' \in Branch
    BY <1>13 DEF Crash, CheckedOut, TypeOK
  <2> QED
    BY <1>13, <2>1, <2>2, ReturnType DEF Crash, TypeOK, Pc, Outcome
<1>14. CASE CheckE2E \/ CheckBaseline
  BY <1>14 DEF CheckE2E, CheckBaseline, TypeOK, Pc, Running, Checks, durable, memory
<1>15. CASE UNCHANGED vars
  BY <1>15 DEF vars, durable, memory, TypeOK
<1> QED
  BY <1>1, <1>2, <1>3, <1>4, <1>5, <1>6, <1>7, <1>8, <1>9, <1>10, <1>11, <1>12, <1>13, <1>14, <1>15
     DEF Next, SliceLoop, Program, Waves, Merges, Terminated

\* Every variable of an implementation holds a value of its kind, whatever the
\* plans, the branches and the failures.
THEOREM TypeCorrect == Spec => []TypeOK
<1>1. Spec => []TInv
  BY TInit, TNext, PTL DEF Spec
<1>2. TInv => TypeOK
  BY DEF TInv
<1> QED
  BY <1>1, <1>2, PTL

-----------------------------------------------------------------------------
(***************************************************************************)
(* The order of the waves and what is merged.                              *)
(***************************************************************************)

\* A task whose dependencies can be resolved is in a wave only after them.
LEMMA WavesFollowDependencies ==
  ASSUME NEW s, NEW done, NEW t \in NextWave(s, done) \cap Resolvable(s)
  PROVE  DepsIn(s, t) \subseteq done
<1> DEFINE rest == TaskIds(s) \ done
           free == {x \in rest : DepsIn(s, x) \subseteq done}
<1>1. CASE free # {}
  BY <1>1 DEF NextWave
<1>2. CASE free = {}
  <2>1. t \in rest
    BY <1>2 DEF NextWave
  <2>2. PICK ts \in SUBSET TaskIds(s) : WellOrdered(s, ts) /\ t \in ts
    BY DEF Resolvable
  <2> DEFINE u == ts \ done
  <2>3. u # {} /\ u \in SUBSET ts
    BY <2>1, <2>2
  <2>4. PICK x \in u : DepsIn(s, x) \cap u = {}
    BY <2>2, <2>3 DEF WellOrdered
  <2>5. DepsIn(s, x) \subseteq ts
    BY <2>2, <2>4 DEF WellOrdered
  <2>6. DepsIn(s, x) \subseteq done
    BY <2>4, <2>5
  <2>7. x \in free
    BY <2>2, <2>4, <2>6
  <2> QED
    BY <1>2, <2>7
<1> QED
  BY <1>1, <1>2
\* What is merged or completed is on the run branch, and what waits for its
\* commit is in the index.
MergesOK == /\ head = "run"
            /\ \A t \in completed : In(branch["run"], t)
            /\ \A t \in Id : job[t] = "merged" => In(branch["run"], t)
            /\ pc = "commit" => In(index, merging)

\* The waves come in the order of the dependencies, and the call goes on to
\* its checks when they are over.
WavesOK == /\ \A t \in wave \cap Resolvable(specs) : DepsIn(specs, t) \subseteq completed
           /\ pc \in Checks => TaskIds(specs) \subseteq completed

\* A worktree that is there has what its task depends on.
WorktreesOK == \A t \in Id \cap Resolvable(specs) :
                 job[t] \in InWorktree \cup {"prepared"} =>
                   \A d \in DepsIn(specs, t) : In(base[t], d)

MInv == MergesOK /\ WavesOK /\ WorktreesOK /\ PassedIsMerged

LEMMA MInit == ASSUME ~OffRunBranch PROVE Init => MInv
BY DEF Init, MInv, MergesOK, WavesOK, WorktreesOK, PassedIsMerged, CheckedOut, InWorktree, Checks

\* A call that is over has promised nothing, unless it passed.
LEMMA MReturn ==
  ASSUME NEW o, Return(o), head' = "run",
         o \in {"PASS", "PARTIAL"} => \A t \in TaskIds(specs') : In(branch["run"], t)'
  PROVE  MInv'
BY DEF Return, MInv, MergesOK, WavesOK, WorktreesOK, PassedIsMerged, InWorktree, Checks

LEMMA MNext ==
  ASSUME ~OffRunBranch
  PROVE  TInv /\ TInv' /\ MInv /\ [Next]_vars => MInv'
<1> SUFFICES ASSUME TInv, TInv', MInv, [Next]_vars PROVE MInv'
  OBVIOUS
<1> USE DEF TInv, MInv, Checks
<1>1. CASE StartCall
  <2>1. \A t \in wave' \cap Resolvable(specs') : DepsIn(specs', t) \subseteq {}
    BY <1>1, WavesFollowDependencies DEF StartCall
  <2> QED
    BY <1>1, <2>1 DEF StartCall, MergesOK, WavesOK, WorktreesOK, PassedIsMerged, InWorktree
<1>2. CASE Checkpoint
  BY <1>2 DEF Checkpoint, TypeOK, Branch, memory, MergesOK, WavesOK, WorktreesOK, PassedIsMerged,
              In, Work, Call
<1>3. CASE \E t \in Id : PrepareWorktree(t)
  <2> PICK t \in Id : PrepareWorktree(t)
    BY <1>3
  <2>1. t \in Resolvable(specs) => \A d \in DepsIn(specs, t) : In(branch["run"], d)
    BY DEF PrepareWorktree, WavesOK, MergesOK
  <2>2. WorktreesOK'
    BY <2>1 DEF PrepareWorktree, Step, TypeOK, WorktreesOK, In, Work, Call
  <2>3. MergesOK' /\ WavesOK' /\ PassedIsMerged'
    BY DEF PrepareWorktree, Step, TypeOK, MergesOK, WavesOK, PassedIsMerged, In, Work, Call
  <2> QED
    BY <2>2, <2>3
<1>4. CASE \E t \in Id : Code(t) \/ Tests(t) \/ VerifyPasses(t) \/ ReviewPasses(t) \/ VerifyFails(t)
  <2> PICK t \in Id : Code(t) \/ Tests(t) \/ VerifyPasses(t) \/ ReviewPasses(t) \/ VerifyFails(t)
    BY <1>4
  <2>1. \E from, to \in InWorktree : Step(t, from, to)
    BY DEF Code, Tests, VerifyPasses, ReviewPasses, VerifyFails, Agent, Retry, Judged, InWorktree
  <2>2. UNCHANGED <<durable, pc, completed, wave, merging, regressed, outcome, spent>>
    BY DEF Code, Tests, VerifyPasses, ReviewPasses, VerifyFails, Agent
  <2>3. \A x \in Id : /\ job'[x] = "merged" => job[x] = "merged"
                      /\ job'[x] \in InWorktree \cup {"prepared"} =>
                           job[x] \in InWorktree \cup {"prepared"}
    BY <2>1 DEF Step, TypeOK, InWorktree
  <2> QED
    BY <2>2, <2>3 DEF durable, MergesOK, WavesOK, WorktreesOK, PassedIsMerged, In, Work, Call
<1>5. CASE StartWork
  <2>1. \A x \in Id : /\ job'[x] = "merged" => job[x] = "merged"
                      /\ job'[x] \in InWorktree \cup {"prepared"} =>
                           job[x] \in InWorktree \cup {"prepared"}
    BY <1>5 DEF StartWork, InWorktree
  <2> QED
    BY <1>5, <2>1 DEF StartWork, durable, MergesOK, WavesOK, WorktreesOK, PassedIsMerged, In, Work, Call
<1>6. CASE FailWave \/ Abandon
  <2>1. Return("FAIL") /\ head' = "run"
    BY <1>6 DEF FailWave, Abandon, durable, MergesOK
  <2> QED
    BY <2>1, MReturn
<1>7. CASE StartMerge
  BY <1>7 DEF StartMerge, durable, memory, MergesOK, WavesOK, WorktreesOK, PassedIsMerged, In, Work, Call
<1>8. CASE MergeNext \/ Resquash
  <2>1. PICK t \in Id : SquashEmpty(t) \/ SquashStaged(t) \/ SquashRefused(t)
    BY <1>8 DEF MergeNext, Resquash, Unmerged, TypeOK
  <2>2. CASE SquashEmpty(t)
    <3>1. branch'["run"] = branch["run"] \cup {Work(t)} /\ spent' = spent
      BY <2>2 DEF SquashEmpty, TypeOK, Branch, MergesOK
    <3>2. \A x : In(branch["run"], x) \/ x = t => In(branch["run"], x)'
      BY <3>1 DEF In, Work, Call
    <3>3. \A x \in Id : job'[x] = IF x = t THEN "merged" ELSE job[x]
      BY <2>2 DEF SquashEmpty, Merged, Step, TypeOK
    <3>4. MergesOK'
      BY <2>2, <3>2, <3>3 DEF SquashEmpty, MergesOK
    <3>5. WavesOK'
      BY <2>2 DEF SquashEmpty, WavesOK
    <3>6. WorktreesOK'
      BY <2>2, <3>1, <3>3 DEF SquashEmpty, Merged, WorktreesOK, InWorktree, In, Work, Call
    <3>7. PassedIsMerged'
      BY <2>2, <3>2 DEF SquashEmpty, PassedIsMerged
    <3> QED
      BY <3>4, <3>5, <3>6, <3>7
  <2>3. CASE SquashStaged(t) \/ SquashRefused(t)
    BY <2>3 DEF SquashStaged, SquashRefused, MergesOK, WavesOK, WorktreesOK, PassedIsMerged, In, Work, Call
  <2> QED
    BY <2>1, <2>2, <2>3
<1>9. CASE CommitSquash
  <2>1. branch'["run"] = branch["run"] \cup index /\ spent' = spent
    BY <1>9 DEF CommitSquash, TypeOK, Branch, MergesOK
  <2>2. \A x : In(branch["run"], x) \/ x = merging => In(branch["run"], x)'
    BY <1>9, <2>1 DEF CommitSquash, MergesOK, In, Work, Call
  <2>3. \A x \in Id : job'[x] = IF x = merging THEN "merged" ELSE job[x]
    BY <1>9 DEF CommitSquash, Merged, Step, TypeOK
  <2>4. MergesOK'
    BY <1>9, <2>2, <2>3 DEF CommitSquash, MergesOK
  <2>5. WavesOK'
    BY <1>9 DEF CommitSquash, WavesOK
  <2>6. WorktreesOK'
    BY <1>9, <2>1, <2>3 DEF CommitSquash, Merged, WorktreesOK, InWorktree, In, Work, Call
  <2>7. PassedIsMerged'
    BY <1>9, <2>2 DEF CommitSquash, PassedIsMerged
  <2> QED
    BY <2>4, <2>5, <2>6, <2>7
<1>10. CASE Rebase \/ FixConflict
  <2>1. \A x \in Id : base[x] \subseteq base'[x]
    BY <1>10 DEF Rebase, FixConflict, Rebased, durable, TypeOK
  <2>2. UNCHANGED <<specs, head, branch, index, memory, outcome, spent>> /\ pc' \in {"resquash", "fix"}
    BY <1>10 DEF Rebase, FixConflict, Rebased, durable
  <2> QED
    BY <2>1, <2>2 DEF memory, MergesOK, WavesOK, WorktreesOK, PassedIsMerged, In, Work, Call
<1>11. CASE NextWaveStarts
  <2>1. \A t \in wave : job[t] = "merged"
    BY <1>11 DEF NextWaveStarts, Unmerged
  <2>2. MergesOK'
    BY <1>11, <2>1 DEF NextWaveStarts, durable, TypeOK, MergesOK, In, Work, Call
  <2>3. WavesOK'
    <3>1. CASE TaskIds(specs) \subseteq completed'
      BY <1>11, <3>1 DEF NextWaveStarts, durable, WavesOK
    <3>2. CASE ~(TaskIds(specs) \subseteq completed')
      BY <1>11, <3>2, WavesFollowDependencies DEF NextWaveStarts, durable, WavesOK
    <3> QED
      BY <3>1, <3>2
  <2>4. WorktreesOK' /\ PassedIsMerged'
    BY <1>11 DEF NextWaveStarts, durable, WorktreesOK, PassedIsMerged, In, Work, Call
  <2> QED
    BY <2>2, <2>3, <2>4
<1>12. CASE CheckIntegration
  <2>1. PICK o : Return(o)
    BY <1>12 DEF CheckIntegration
  <2>2. UNCHANGED <<durable, spent>> /\ \A t \in TaskIds(specs) : In(branch["run"], t)
    BY <1>12 DEF CheckIntegration, WavesOK, MergesOK
  <2> QED
    BY <2>1, <2>2, MReturn DEF durable, MergesOK, In, Work, Call
<1>13. CASE Throw
  BY <1>13, MReturn DEF Throw, durable, MergesOK
<1>14. CASE Crash
  BY <1>14, MReturn DEF Crash, CheckedOut, MergesOK
<1>15. CASE CheckE2E \/ CheckBaseline
  BY <1>15 DEF CheckE2E, CheckBaseline, Checks, durable, memory, MergesOK, WavesOK, WorktreesOK,
               PassedIsMerged, In, Work, Call
<1>16. CASE UNCHANGED vars
  BY <1>16 DEF vars, durable, memory, MergesOK, WavesOK, WorktreesOK, PassedIsMerged, In, Work, Call
<1> QED
  BY <1>1, <1>2, <1>3, <1>4, <1>5, <1>6, <1>7, <1>8, <1>9, <1>10, <1>11, <1>12, <1>13, <1>14, <1>15, <1>16
     DEF Next, SliceLoop, Program, Waves, Merges, Terminated

\* On the run branch, the agents of a task work on what the task depends on.
THEOREM TasksAreBuiltOnDependencies ==
  ASSUME ~OffRunBranch
  PROVE  Spec => []BuiltOnDependencies
<1>1. Init => TInv /\ MInv
  BY TInit, MInit
<1>2. TInv /\ MInv /\ [Next]_vars => (TInv /\ MInv)'
  BY TNext, MNext
<1>3. TInv /\ MInv => BuiltOnDependencies
  <2>1. \A t \in Resolvable(specs) : t \in TaskIds(specs)
    BY DEF Resolvable
  <2> QED
    BY <2>1, TaskIdsType DEF TInv, TypeOK, MInv, WorktreesOK, BuiltOnDependencies
<1> QED
  BY <1>1, <1>2, <1>3, PTL DEF Spec

\* On the run branch, a call that reports success has merged all its tasks.
THEOREM PassedCallsAreMerged ==
  ASSUME ~OffRunBranch
  PROVE  Spec => []PassedIsMerged
<1>1. Init => TInv /\ MInv
  BY TInit, MInit
<1>2. TInv /\ MInv /\ [Next]_vars => (TInv /\ MInv)'
  BY TNext, MNext
<1>3. MInv => PassedIsMerged
  BY DEF MInv
<1> QED
  BY <1>1, <1>2, <1>3, PTL DEF Spec
-----------------------------------------------------------------------------
(***************************************************************************)
(* Nothing of a failed wave.                                               *)
(***************************************************************************)

\* Whatever is on a branch or in the index is of this call or an earlier one.
CallsOK == /\ \A b \in Branch : \A c \in branch[b] : c.call <= Call
           /\ \A c \in index : c.call <= Call

\* What a call put on a branch is completed or merged, and what it put in the
\* index waits for its commit.
KeptOK == pc \in Running =>
            \A t \in Id :
              /\ In(index, t) => pc = "commit" /\ t = merging
              /\ \A b \in Branch : In(branch[b], t) => t \in completed \/ job[t] = "merged"

\* The tasks of a wave are not completed, start idle, and have all passed when
\* their merges start.
JobsOK == /\ pc = "idle" => wave = {}
          /\ pc \in {"prepare", "work"} =>
               /\ wave \cap completed = {}
               /\ \A t \in Id : job[t] = "merged" => t \in completed
          /\ \A t \in Id : job[t] # "idle" => t \in completed \cup wave
          /\ \A t \in wave : job[t] = "failed" => pc = "work"

FInv == CallsOK /\ KeptOK /\ JobsOK

LEMMA FInit == Init => FInv
BY DEF Init, FInv, CallsOK, KeptOK, JobsOK, Running, Checks

\* A call that is over leaves no job, and nothing of a later call.
LEMMA FReturn ==
  ASSUME TypeOK, FInv, NEW o, Return(o), branch' = branch, index' \subseteq index,
         spent'["call"] = spent["call"]
  PROVE  FInv'
BY DEF Return, FInv, CallsOK, KeptOK, JobsOK, Running, Checks, Call

LEMMA FNext == TInv /\ TInv' /\ FInv /\ [Next]_vars => FInv'
<1> SUFFICES ASSUME TInv, TInv', FInv, [Next]_vars PROVE FInv'
  OBVIOUS
<1> USE DEF TInv, FInv
<1>1. CASE StartCall
  <2>1. Call' = Call + 1 /\ Call \in Nat
    BY <1>1 DEF StartCall, Spend, Call, TypeOK, Event
  <2>2. CallsOK' /\ \A t : ~In(index, t)' /\ \A b \in Branch : ~In(branch[b], t)'
    <3>1. \A c \in index : c \in Change /\ c.call <= Call
      BY DEF CallsOK, TypeOK
    <3>2. \A b \in Branch : \A c \in branch[b] : c \in Change /\ c.call <= Call
      BY DEF CallsOK, TypeOK
    <3>3. \A c \in Change : c.call <= Call => c.call <= Call' /\ c.call # Call'
      BY <2>1 DEF Change
    <3>4. index' = index /\ branch' = branch
      BY <1>1 DEF StartCall
    <3> QED
      BY <3>1, <3>2, <3>3, <3>4 DEF CallsOK, In, Work
  <2>3. wave' \subseteq Id
    BY DEF TypeOK
  <2>4. JobsOK'
    BY <1>1, <2>3 DEF StartCall, JobsOK
  <2> QED
    BY <2>2, <2>4 DEF KeptOK
<1>2. CASE Checkpoint
  BY <1>2 DEF Checkpoint, TypeOK, memory, CallsOK, KeptOK, JobsOK, Running, Checks, Call
<1>3. CASE \E t \in Id : PrepareWorktree(t)
  BY <1>3 DEF PrepareWorktree, Step, TypeOK, CallsOK, KeptOK, JobsOK, Running, Checks, In, Work, Call
<1>4. CASE \E t \in Id : Code(t) \/ Tests(t) \/ VerifyPasses(t) \/ ReviewPasses(t) \/ VerifyFails(t)
  <2>1. PICK t \in Id, from, to \in InWorktree : Step(t, from, to)
    BY <1>4 DEF Code, Tests, VerifyPasses, ReviewPasses, VerifyFails, Agent, Retry, Judged, InWorktree
  <2>2. UNCHANGED <<durable, pc, completed, wave, merging, regressed, outcome, spent>> /\ pc = "work"
    BY <1>4 DEF Code, Tests, VerifyPasses, ReviewPasses, VerifyFails, Agent
  <2>3. \A x \in Id : /\ job'[x] = "merged" <=> job[x] = "merged"
                      /\ job'[x] # "idle" <=> job[x] # "idle"
    BY <2>1 DEF Step, TypeOK, InWorktree
  <2> QED
    BY <2>2, <2>3 DEF durable, CallsOK, KeptOK, JobsOK, Running, Checks, In, Work, Call
<1>5. CASE StartWork
  <2>1. \A x \in Id : job'[x] = IF x \in wave THEN "code" ELSE job[x]
    BY <1>5 DEF StartWork
  <2>2. pc = "prepare" /\ pc' = "work" /\ wave \subseteq Id
    BY <1>5 DEF StartWork, TypeOK
  <2>3. UNCHANGED <<branch, index, completed, wave, merging, spent>>
    BY <1>5 DEF StartWork, durable
  <2>4. CallsOK'
    BY <2>3 DEF CallsOK, Call
  <2>5. KeptOK'
    BY <2>1, <2>2, <2>3 DEF KeptOK, JobsOK, Running, Checks, In, Work, Call
  <2>6. JobsOK'
    BY <2>1, <2>2, <2>3 DEF JobsOK
  <2> QED
    BY <2>4, <2>5, <2>6
<1>6. CASE FailWave \/ Abandon \/ CheckIntegration
  <2>1. PICK o : Return(o)
    BY <1>6 DEF FailWave, Abandon, CheckIntegration
  <2>2. branch' = branch /\ index' \subseteq index /\ spent' = spent
    BY <1>6 DEF FailWave, Abandon, CheckIntegration, durable
  <2> QED
    BY <2>1, <2>2, FReturn
<1>7. CASE StartMerge
  BY <1>7 DEF StartMerge, WaveOver, WavePassed, durable, memory, CallsOK, KeptOK, JobsOK, Running, Checks,
              In, Work, Call
<1>8. CASE MergeNext \/ Resquash
  <2>1. PICK t \in Id : SquashEmpty(t) \/ SquashStaged(t) \/ SquashRefused(t)
    BY <1>8 DEF MergeNext, Resquash, Unmerged, TypeOK
  <2>2. pc \in {"merge", "resquash"} /\ Work(t).call = Call /\ Call \in Nat
    BY <1>8 DEF MergeNext, Resquash, Work, Call, TypeOK, Event
  <2>3. CASE SquashEmpty(t)
    BY <2>2, <2>3 DEF SquashEmpty, Merged, Step, TypeOK, CallsOK, KeptOK, JobsOK, Running, Checks, In, Work, Call
  <2>4. CASE SquashStaged(t)
    BY <2>2, <2>4 DEF SquashStaged, CallsOK, KeptOK, JobsOK, Running, Checks, In, Work, Call
  <2>5. CASE SquashRefused(t)
    BY <2>2, <2>5 DEF SquashRefused, CallsOK, KeptOK, JobsOK, Running, Checks, In, Work, Call
  <2> QED
    BY <2>1, <2>3, <2>4, <2>5
<1>9. CASE CommitSquash
  <2>1. CallsOK'
    BY <1>9 DEF CommitSquash, TypeOK, CallsOK, Call
  <2>2. \A x \in Id : job'[x] = IF x = merging THEN "merged" ELSE job[x]
    BY <1>9 DEF CommitSquash, Merged, Step, TypeOK
  <2>3. KeptOK'
    BY <1>9, <2>2 DEF CommitSquash, TypeOK, KeptOK, Running, Checks, In, Work, Call
  <2>4. JobsOK'
    BY <1>9, <2>2 DEF CommitSquash, Merged, Step, JobsOK
  <2> QED
    BY <2>1, <2>3, <2>4
<1>10. CASE Rebase \/ FixConflict
  BY <1>10 DEF Rebase, FixConflict, Rebased, durable, memory, CallsOK, KeptOK, JobsOK, Running, Checks,
               In, Work, Call
<1>11. CASE NextWaveStarts
  <2>1. \A t \in wave : job[t] = "merged"
    BY <1>11 DEF NextWaveStarts, Unmerged
  <2>2. pc' = "prepare" => wave' \cap completed' = {}
    BY <1>11 DEF NextWaveStarts, NextWave
  <2> QED
    BY <1>11, <2>1, <2>2 DEF NextWaveStarts, durable, TypeOK, CallsOK, KeptOK, JobsOK, Running, Checks,
                             In, Work, Call
<1>12. CASE Throw \/ Crash
  <2>1. PICK o : Return(o)
    BY <1>12 DEF Throw, Crash
  <2>2. branch' = branch /\ index' = index /\ spent'["call"] = spent["call"]
    BY <1>12 DEF Throw, Crash, durable, Spend, TypeOK, Event
  <2> QED
    BY <2>1, <2>2, FReturn
<1>13. CASE CheckE2E \/ CheckBaseline
  BY <1>13 DEF CheckE2E, CheckBaseline, durable, memory, CallsOK, KeptOK, JobsOK, Running, Checks,
               In, Work, Call
<1>14. CASE UNCHANGED vars
  BY <1>14 DEF vars, durable, memory, CallsOK, KeptOK, JobsOK, In, Work, Call
<1> QED
  BY <1>1, <1>2, <1>3, <1>4, <1>5, <1>6, <1>7, <1>8, <1>9, <1>10, <1>11, <1>12, <1>13, <1>14
     DEF Next, SliceLoop, Program, Waves, Merges, Terminated

\* Whatever branch is checked out, a wave in which a task failed leaves nothing
\* of itself on a branch or in the index.
THEOREM FailedWavesLeaveNothing == Spec => []NothingOfFailedWave
<1>1. Init => TInv /\ FInv
  BY TInit, FInit
<1>2. TInv /\ FInv /\ [Next]_vars => (TInv /\ FInv)'
  BY TNext, FNext
<1>3. TInv /\ FInv => NothingOfFailedWave
  BY DEF TInv, TypeOK, FInv, KeptOK, JobsOK, NothingOfFailedWave, Running, Checks
<1> QED
  BY <1>1, <1>2, <1>3, PTL DEF Spec

-----------------------------------------------------------------------------
(***************************************************************************)
(* Every step uses something up.  While there is a wave, it is a part of   *)
(* the tasks that are left; the task that is merged is one of it; and      *)
(* outside the wave no task has steps to take.                             *)
(***************************************************************************)

MergingPc == {"commit", "conflict", "fix", "resquash"}

CourseInv ==
  /\ \A e \in Event : spent[e] <= Limit[e]
  /\ wave \subseteq TaskIds(specs)
  /\ pc \in Running \ Checks => wave # {} /\ wave \cap completed = {}
  /\ pc \in MergingPc => merging \in wave
  /\ pc \in Running => \A t \in Id \ wave : job[t] \in {"idle", "merged"}

\* The next wave is a part of the tasks that are left, and not empty.
LEMMA NextWaveFacts ==
  ASSUME NEW s, NEW done, ~(TaskIds(s) \subseteq done)
  PROVE  /\ NextWave(s, done) # {} /\ NextWave(s, done) \subseteq TaskIds(s)
         /\ NextWave(s, done) \cap done = {}
BY DEF NextWave

\* A phase with a spec has a task.
LEMMA SpecsHaveTasks ==
  ASSUME NEW s \in Seq(TaskSpec), s # << >> PROVE TaskIds(s) # {}
<1>1. 1 \in DOMAIN s
  OBVIOUS
<1> QED
  BY <1>1 DEF TaskIds

\* An event is spent within its limit.
LEMMA SpendBounded ==
  ASSUME TypeOK, \A e \in Event : spent[e] <= Limit[e],
         UNCHANGED spent \/ \E e \in Event : Spend(e)
  PROVE  \A e \in Event : spent'[e] <= Limit[e]
<1>1. CASE UNCHANGED spent
  BY <1>1
<1>2. ASSUME NEW e \in Event, Spend(e) PROVE \A f \in Event : spent'[f] <= Limit[f]
  <2>1. \A f \in Event : /\ spent[f] \in Nat /\ Limit[f] \in Nat
                         /\ spent'[f] = IF f = e THEN spent[f] + 1 ELSE spent[f]
    BY <1>2, LimitAssumption DEF Spend, TypeOK
  <2>2. spent[e] < Limit[e]
    BY <1>2 DEF Spend
  <2> QED
    BY <2>1, <2>2
<1> QED
  BY <1>1, <1>2

\* A step spends nothing, or one event.
LEMMA StepSpends ==
  ASSUME [Next]_vars PROVE UNCHANGED spent \/ \E e \in Event : Spend(e)
<1>1. CASE SliceLoop \/ Throw \/ Crash
  BY <1>1 DEF SliceLoop, StartCall, Checkpoint, Throw, Crash, Event
<1>2. CASE Waves
  BY <1>2 DEF Waves, PrepareWorktree, Code, Tests, Agent, VerifyPasses, ReviewPasses,
              VerifyFails, StartWork, FailWave, StartMerge
<1>3. CASE Merges
  BY <1>3 DEF Merges, MergeNext, SquashEmpty, SquashStaged, SquashRefused, CommitSquash, Rebase,
              Rebased, FixConflict, Abandon, Resquash, NextWaveStarts, CheckE2E, CheckBaseline,
              CheckIntegration
<1>4. CASE Terminated \/ UNCHANGED vars
  BY <1>4 DEF Terminated, vars
<1> QED
  BY <1>1, <1>2, <1>3, <1>4 DEF Next, Program

\* What CourseInv says of a call, without the events.
CallInv ==
  /\ wave \subseteq TaskIds(specs)
  /\ pc \in Running \ Checks => wave # {} /\ wave \cap completed = {}
  /\ pc \in MergingPc => merging \in wave
  /\ pc \in Running => \A t \in Id \ wave : job[t] \in {"idle", "merged"}

\* A call that is over has no wave.
LEMMA ReturnCourse == ASSUME NEW o, Return(o) PROVE CallInv'
BY DEF Return, CallInv, MergingPc, Running, Checks

\* Every step keeps CallInv.
LEMMA CallNext == TInv /\ TInv' /\ CallInv /\ [Next]_vars => CallInv'
<1> SUFFICES ASSUME TInv, TInv', CallInv, [Next]_vars PROVE CallInv'
  OBVIOUS
<1> USE DEF CallInv, TInv, MergingPc, Running, Checks
<1>1. CASE StartCall
  <2>1. ~(TaskIds(specs') \subseteq {})
    BY <1>1, SpecsHaveTasks DEF StartCall, TypeOK
  <2>2. /\ wave' # {} /\ wave' \subseteq TaskIds(specs')
        /\ \A t \in Id : job'[t] = "idle"
    BY <1>1, <2>1, NextWaveFacts DEF StartCall
  <2> QED
    BY <1>1, <2>2 DEF StartCall
<1>2. CASE Checkpoint
  BY <1>2 DEF Checkpoint, memory
<1>3. CASE \E t \in Id : \/ PrepareWorktree(t) \/ Code(t) \/ Tests(t)
                        \/ VerifyPasses(t) \/ ReviewPasses(t) \/ VerifyFails(t)
  <2>1. PICK t \in Id : \/ PrepareWorktree(t) \/ Code(t) \/ Tests(t)
                        \/ VerifyPasses(t) \/ ReviewPasses(t) \/ VerifyFails(t)
    BY <1>3
  <2>2. /\ UNCHANGED <<specs, pc, completed, wave, merging>> /\ pc \in {"prepare", "work"}
        /\ \A u \in Id \ {t} : job'[u] = job[u]
        /\ job[t] = "idle" => t \in wave
    BY <2>1 DEF PrepareWorktree, Code, Tests, Agent, VerifyPasses, ReviewPasses, VerifyFails,
                Retry, Judged, Step, durable, TypeOK
  <2>3. job[t] \notin {"merged"}
    BY <2>1 DEF PrepareWorktree, Code, Tests, Agent, VerifyPasses, ReviewPasses, VerifyFails,
                Retry, Judged, Step
  <2>4. t \in wave
    BY <2>2, <2>3
  <2> QED
    BY <2>2, <2>4
<1>4. CASE StartWork
  BY <1>4 DEF StartWork, durable
<1>5. CASE FailWave \/ Abandon \/ CheckIntegration \/ Throw \/ Crash
  BY <1>5, ReturnCourse DEF FailWave, Abandon, CheckIntegration, Throw, Crash
<1>6. CASE StartMerge
  BY <1>6 DEF StartMerge, WaveOver, durable, memory
<1>7. CASE MergeNext \/ Resquash
  <2>1. PICK t \in wave : SquashEmpty(t) \/ SquashStaged(t) \/ SquashRefused(t)
    BY <1>7 DEF MergeNext, Resquash, Unmerged
  <2>2. CASE SquashEmpty(t)
    BY <1>7, <2>1, <2>2 DEF SquashEmpty, Merged, Step, TypeOK, MergeNext, Resquash
  <2>3. CASE SquashStaged(t) \/ SquashRefused(t)
    BY <1>7, <2>1, <2>3 DEF SquashStaged, SquashRefused, MergeNext, Resquash
  <2> QED
    BY <2>1, <2>2, <2>3
<1>8. CASE CommitSquash
  BY <1>8 DEF CommitSquash, Merged, Step, TypeOK
<1>9. CASE Rebase \/ FixConflict
  BY <1>9 DEF Rebase, FixConflict, Rebased, durable, memory
<1>10. CASE NextWaveStarts
  <2>1. \A t \in wave : job[t] = "merged"
    BY <1>10 DEF NextWaveStarts, Unmerged
  <2>2. \A t \in Id : job[t] \in {"idle", "merged"}
    BY <1>10, <2>1 DEF NextWaveStarts
  <2>3. /\ wave' \subseteq TaskIds(specs)
        /\ pc' = "prepare" => wave' # {} /\ wave' \cap completed' = {}
    BY <1>10, NextWaveFacts DEF NextWaveStarts
  <2> QED
    BY <1>10, <2>2, <2>3 DEF NextWaveStarts, durable
<1>11. CASE CheckE2E \/ CheckBaseline
  BY <1>11 DEF CheckE2E, CheckBaseline, durable, memory
<1>12. CASE UNCHANGED vars
  BY <1>12 DEF vars, durable, memory
<1> QED
  BY <1>1, <1>2, <1>3, <1>4, <1>5, <1>6, <1>7, <1>8, <1>9, <1>10, <1>11, <1>12
     DEF Next, SliceLoop, Program, Waves, Merges, Terminated

\* CourseInv is an invariant.
LEMMA AlwaysCourse == Spec => [](TInv /\ CourseInv)
<1>1. Init => TInv /\ CourseInv
  BY TInit, LimitAssumption DEF Init, CourseInv, MergingPc, Running, Checks
<1>2. TInv /\ CourseInv /\ [Next]_vars => TInv' /\ CourseInv'
  <2> SUFFICES ASSUME TInv, CourseInv, [Next]_vars PROVE TInv' /\ CourseInv'
    OBVIOUS
  <2>1. TInv'
    BY TNext
  <2>2. CallInv /\ CallInv'
    BY <2>1, CallNext DEF CourseInv, CallInv
  <2>3. \A e \in Event : spent'[e] <= Limit[e]
    BY StepSpends, SpendBounded DEF TInv, CourseInv
  <2> QED
    BY <2>1, <2>2, <2>3 DEF CourseInv, CallInv
<1> QED
  BY <1>1, <1>2, PTL DEF Spec

\* What is left is a tuple of numbers: the tasks of a phase are finitely many.
LEMMA TasksFinite == ASSUME NEW s \in Seq(TaskSpec) PROVE IsFiniteSet(TaskIds(s))
<1> DEFINE f == [i \in DOMAIN s |-> s[i].id]
<1>1. IsFiniteSet(DOMAIN s)
  <2>1. IsFiniteSet(1 .. Len(s)) /\ DOMAIN s = 1 .. Len(s)
    BY FS_Interval
  <2> QED
    BY <2>1
<1>2. f \in Surjection(DOMAIN s, TaskIds(s))
  BY DEF Surjection, TaskIds
<1> HIDE DEF f
<1> QED
  BY <1>1, <1>2, FS_Surjection

\* The numbers of a task's places.
LEMMA JobNumbers ==
  /\ \A j \in Job : JobSteps[j] \in 0 .. 7
  /\ JobSteps["idle"] = 7 /\ JobSteps["prepared"] = 6 /\ JobSteps["code"] = 5
  /\ JobSteps["tests"] = 4 /\ JobSteps["verify"] = 3 /\ JobSteps["review"] = 2
  /\ JobSteps["passed"] = 1 /\ JobSteps["failed"] = 1 /\ JobSteps["merged"] = 0
BY DEF JobSteps, Job

\* The numbers of a call's places.
LEMMA PlaceNumbers ==
  /\ \A p \in Pc : PlacesLeft[p] \in Nat
  /\ PlacesLeft["prepare"] = 8 /\ PlacesLeft["work"] = 7 /\ PlacesLeft["merge"] = 6
  /\ PlacesLeft["conflict"] = 5 /\ PlacesLeft["fix"] = 4 /\ PlacesLeft["resquash"] = 3
  /\ PlacesLeft["commit"] = 2 /\ PlacesLeft["e2e"] = 2 /\ PlacesLeft["baseline"] = 1
  /\ PlacesLeft["check"] = 0
  /\ PlacesLeft["idle"] = IF index = {} THEN 0 ELSE 1
BY DEF PlacesLeft, Pc, Running, Checks

\* A task has so many steps left.
LEMMA TaskStepsType == ASSUME TypeOK, NEW t \in Id PROVE TaskSteps(t) \in 0 .. 11
<1>1. JobSteps[job[t]] \in 0 .. 7 /\ attempt[t] \in 1 .. 2
  BY JobNumbers DEF TypeOK, MaxAttempts
<1> QED
  BY <1>1 DEF TaskSteps, MaxAttempts

\* The sets that are counted are finite.
LEMMA LeftFinite ==
  ASSUME TypeOK, wave \subseteq TaskIds(specs)
  PROVE  IsFiniteSet(TasksLeft) /\ IsFiniteSet(StepsLeft)
<1>1. IsFiniteSet(TaskIds(specs)) /\ IsFiniteSet(1 .. 7 + 4 * MaxAttempts)
  <2>1. IsFiniteSet(TaskIds(specs))
    BY TasksFinite DEF TypeOK
  <2>2. 7 + 4 * MaxAttempts \in Int
    BY DEF MaxAttempts
  <2> QED
    BY <2>1, <2>2, FS_Interval
<1>2. IsFiniteSet(wave) /\ IsFiniteSet(TasksLeft)
  BY <1>1, FS_Subset DEF TasksLeft
<1>3. IsFiniteSet(wave \X (1 .. 7 + 4 * MaxAttempts))
  BY <1>1, <1>2, FS_Product
<1>4. StepsLeft \in SUBSET (wave \X (1 .. 7 + 4 * MaxAttempts))
  BY DEF StepsLeft
<1> QED
  BY <1>2, <1>3, <1>4, FS_Subset

\* What is left is a tuple of numbers.
LEMMA RemainingType == ASSUME TInv, CourseInv PROVE Remaining \in Tuples(5)
<1>1. EventsLeft \in Nat
  <2>1. \A e \in Event : Limit[e] - spent[e] \in Nat
    BY LimitAssumption DEF TInv, TypeOK, CourseInv
  <2> QED
    BY <2>1 DEF EventsLeft, Event
<1>2. CallsOpen \in Nat
  BY DEF CallsOpen
<1>3. Cardinality(TasksLeft) \in Nat /\ Cardinality(StepsLeft) \in Nat
  BY LeftFinite, FS_CardinalityType DEF TInv, CourseInv
<1>4. PlacesLeft[pc] \in Nat
  BY PlaceNumbers DEF TInv, TypeOK
<1> QED
  BY <1>1, <1>2, <1>3, <1>4 DEF Remaining, Tuples

\* Which of the numbers goes down, with those before it as they were.
Falls ==
  \/ EventsLeft' < EventsLeft
  \/ /\ EventsLeft' = EventsLeft
     /\ \/ CallsOpen' < CallsOpen
        \/ /\ CallsOpen' = CallsOpen
           /\ \/ Cardinality(TasksLeft)' < Cardinality(TasksLeft)
              \/ /\ Cardinality(TasksLeft)' = Cardinality(TasksLeft)
                 /\ \/ Cardinality(StepsLeft)' < Cardinality(StepsLeft)
                    \/ /\ Cardinality(StepsLeft)' = Cardinality(StepsLeft)
                       /\ PlacesLeft'[pc'] < PlacesLeft[pc]

\* What falls is less.
LEMMA FallsIsLess ==
  ASSUME Remaining \in Tuples(5), Remaining' \in Tuples(5), Falls
  PROVE  UsesUp
<1>1. /\ Remaining[1] = EventsLeft /\ Remaining'[1] = EventsLeft'
      /\ Remaining[2] = CallsOpen /\ Remaining'[2] = CallsOpen'
      /\ Remaining[3] = Cardinality(TasksLeft) /\ Remaining'[3] = Cardinality(TasksLeft)'
      /\ Remaining[4] = Cardinality(StepsLeft) /\ Remaining'[4] = Cardinality(StepsLeft)'
      /\ Remaining[5] = PlacesLeft[pc] /\ Remaining'[5] = PlacesLeft'[pc']
  BY DEF Remaining
<1> DEFINE a == Remaining
           b == Remaining'
<1>2. PICK i \in 1 .. 5 : /\ b[i] < a[i]
                          /\ i > 1 => b[1] = a[1]
                          /\ i > 2 => b[2] = a[2]
                          /\ i > 3 => b[3] = a[3]
                          /\ i > 4 => b[4] = a[4]
  BY <1>1 DEF Falls
<1> HIDE DEF a, b
<1>3. i \in DOMAIN b /\ \A j \in 1 .. i - 1 : b[j] = a[j]
  BY <1>2 DEF Tuples, b
<1>4. Less(b, a)
  BY <1>2, <1>3 DEF Less
<1> QED
  BY <1>4 DEF UsesUp, Descents, a, b

\* An event of the environment is used up; without one its budget is the same.
LEMMA EventSteps ==
  ASSUME TypeOK
  PROVE  /\ UNCHANGED spent => EventsLeft' = EventsLeft
         /\ \A e \in Event : Spend(e) => EventsLeft' < EventsLeft
<1>1. UNCHANGED spent => EventsLeft' = EventsLeft
  BY DEF EventsLeft
<1>2. ASSUME NEW e \in Event, Spend(e) PROVE EventsLeft' < EventsLeft
  <2>1. \A f \in Event : spent[f] \in Nat /\ Limit[f] \in Nat
    BY LimitAssumption DEF TypeOK
  <2>2. \A f \in Event : spent'[f] = IF f = e THEN spent[f] + 1 ELSE spent[f]
    BY <1>2 DEF Spend, TypeOK
  <2> QED
    BY <2>1, <2>2 DEF EventsLeft, Event
<1> QED
  BY <1>1, <1>2

\* The call stays open.
Open == /\ UNCHANGED <<spent, specs>>
        /\ pc \in Running /\ pc' \in Running

LEMMA OpenSame ==
  ASSUME TypeOK, Open PROVE EventsLeft' = EventsLeft /\ CallsOpen' = CallsOpen
BY EventSteps DEF Open, CallsOpen

\* An event of the environment.
LEMMA SpendFalls == ASSUME TypeOK, NEW e \in Event, Spend(e) PROVE Falls
BY EventSteps DEF Falls

\* A call that was open is over.
LEMMA ReturnFalls ==
  ASSUME TypeOK, UNCHANGED spent, pc \in Running, pc' = "idle" PROVE Falls
<1>1. CallsOpen = 1 /\ CallsOpen' = 0
  BY DEF CallsOpen, Running, Checks
<1> QED
  BY <1>1, EventSteps DEF Falls

\* A step that leaves the tasks where they are, to a later place.
LEMMA PlaceFalls ==
  ASSUME TypeOK, Open, UNCHANGED <<completed, wave, job, attempt>>,
         PlacesLeft[pc'] < PlacesLeft[pc]
  PROVE  Falls
<1>1. TasksLeft' = TasksLeft
  BY DEF TasksLeft, Open, TaskIds
<1>2. StepsLeft' = StepsLeft
  BY DEF StepsLeft, TaskSteps
<1>3. PlacesLeft'[pc'] = PlacesLeft[pc']
  BY DEF Open, PlacesLeft, Running, Checks
<1> QED
  BY <1>1, <1>2, <1>3, OpenSame DEF Falls

\* A step of one task of the wave, or of more, and none goes back.
LEMMA TaskFalls ==
  ASSUME TypeOK, wave \subseteq TaskIds(specs), Open, UNCHANGED <<completed, wave>>,
         NEW u \in wave, TaskSteps(u)' < TaskSteps(u),
         \A t \in wave : TaskSteps(t)' <= TaskSteps(t),
         \A t \in wave : TaskSteps(t)' \in 0 .. 11
  PROVE  Falls
<1>1. TasksLeft' = TasksLeft
  BY DEF TasksLeft, Open, TaskIds
<1>2. \A t \in wave : TaskSteps(t) \in 0 .. 11
  BY TaskStepsType DEF TypeOK
<1>3. StepsLeft' \in SUBSET StepsLeft
  <2>1. ASSUME NEW a \in wave \X (1 .. 7 + 4 * MaxAttempts), a[2] <= TaskSteps(a[1])'
        PROVE  a[2] <= TaskSteps(a[1])
    <3>1. a[1] \in wave /\ a[2] \in Nat
      BY DEF MaxAttempts
    <3> QED
      BY <1>2, <2>1, <3>1
  <2>2. StepsLeft' = {a \in wave \X (1 .. 7 + 4 * MaxAttempts) : a[2] <= TaskSteps(a[1])'}
    BY DEF StepsLeft
  <2> QED
    BY <2>1, <2>2 DEF StepsLeft
<1>4. StepsLeft' # StepsLeft
  <2> DEFINE a == <<u, TaskSteps(u)>>
  <2>1. TaskSteps(u) \in 1 .. 7 + 4 * MaxAttempts
    BY <1>2 DEF MaxAttempts
  <2>2. a \in StepsLeft
    BY <1>2, <2>1 DEF StepsLeft
  <2>3. a \notin StepsLeft'
    BY <1>2 DEF StepsLeft
  <2> QED
    BY <2>2, <2>3
<1>5. IsFiniteSet(StepsLeft)
  BY LeftFinite
<1>6. /\ Cardinality(StepsLeft)' <= Cardinality(StepsLeft)
      /\ Cardinality(StepsLeft)' # Cardinality(StepsLeft)
  BY <1>3, <1>4, <1>5, FS_Subset
<1>7. Cardinality(StepsLeft) \in Nat /\ Cardinality(StepsLeft)' \in Nat
  BY <1>3, <1>5, FS_Subset, FS_CardinalityType
<1> QED
  BY <1>1, <1>6, <1>7, OpenSame DEF Falls

\* One task goes on to a place, or an attempt, with fewer steps left.
LEMMA JobFalls ==
  ASSUME TypeOK, TypeOK', wave \subseteq TaskIds(specs), Open, UNCHANGED <<completed, wave>>,
         NEW u \in wave,
         \A t \in Id \ {u} : job'[t] = job[t] /\ attempt'[t] = attempt[t],
         JobSteps[job'[u]] + 4 * (MaxAttempts - attempt'[u])
           < JobSteps[job[u]] + 4 * (MaxAttempts - attempt[u])
  PROVE  Falls
<1>1. wave \subseteq Id
  BY DEF TypeOK
<1>2. TaskSteps(u)' < TaskSteps(u)
  BY DEF TaskSteps
<1>3. \A t \in wave \ {u} : TaskSteps(t)' = TaskSteps(t)
  BY <1>1 DEF TaskSteps
<1>4. \A t \in wave : TaskSteps(t) \in 0 .. 11
  BY <1>1, TaskStepsType
<1>5. \A t \in wave \ {u} : TaskSteps(t)' <= TaskSteps(t) /\ TaskSteps(t)' \in 0 .. 11
  BY <1>3, <1>4
<1>6. TaskSteps(u)' \in 0 .. 11
  <2>1. JobSteps[job'[u]] \in 0 .. 7 /\ attempt'[u] \in 1 .. MaxAttempts
    BY <1>1, JobNumbers DEF TypeOK
  <2> QED
    BY <2>1 DEF TaskSteps, MaxAttempts
<1>7. \A t \in wave : TaskSteps(t)' <= TaskSteps(t) /\ TaskSteps(t)' \in 0 .. 11
  BY <1>2, <1>4, <1>5, <1>6
<1> QED
  BY <1>2, <1>7, TaskFalls

\* A step of one task's loop.
LEMMA LoopFalls ==
  ASSUME TInv, TypeOK', CourseInv, NEW t \in Id,
         \/ PrepareWorktree(t) \/ Code(t) \/ Tests(t)
         \/ VerifyPasses(t) \/ ReviewPasses(t) \/ VerifyFails(t)
  PROVE  Falls
<1>1. /\ UNCHANGED <<specs, pc, completed, wave, spent>> /\ pc \in {"prepare", "work"}
      /\ \A u \in Id \ {t} : job'[u] = job[u] /\ attempt'[u] = attempt[u]
      /\ job[t] = "idle" => t \in wave
      /\ job[t] # "merged"
  BY DEF PrepareWorktree, Code, Tests, Agent, VerifyPasses, ReviewPasses, VerifyFails,
         Retry, Judged, Step, durable, TInv, TypeOK
<1>2. t \in wave
  BY <1>1 DEF CourseInv, Running, Checks
<1>3. Open
  BY <1>1 DEF Open, Running, Checks
<1>4. attempt[t] \in 1 .. 2 /\ attempt'[t] \in 1 .. 2
  BY DEF TInv, TypeOK, MaxAttempts
<1>5. JobSteps[job'[t]] + 4 * (2 - attempt'[t]) < JobSteps[job[t]] + 4 * (2 - attempt[t])
  <2>1. CASE PrepareWorktree(t)
    BY <2>1, <1>4, JobNumbers DEF PrepareWorktree, Step, TInv, TypeOK
  <2>2. CASE Code(t) \/ Tests(t)
    BY <2>2, <1>4, JobNumbers DEF Code, Tests, Agent, Step, TInv, TypeOK
  <2>3. CASE VerifyPasses(t) \/ ReviewPasses(t)
    BY <2>3, <1>4, JobNumbers DEF VerifyPasses, ReviewPasses, Step, TInv, TypeOK
  <2>4. CASE VerifyFails(t)
    <3>1. CASE Retry(t)
      <4>1. /\ job[t] \in {"verify", "review"} /\ job'[t] = "code"
            /\ attempt'[t] = attempt[t] + 1
        BY <3>1 DEF Retry, Judged, Step, TInv, TypeOK
      <4> QED
        BY <4>1, <1>4, JobNumbers
    <3>2. CASE Judged(t, "failed") /\ UNCHANGED attempt
      <4>1. job[t] \in {"verify", "review"} /\ job'[t] = "failed"
        BY <3>2 DEF Judged, Step, TInv, TypeOK
      <4> QED
        BY <4>1, <3>2, <1>4, JobNumbers
    <3> QED
      BY <2>4, <3>1, <3>2 DEF VerifyFails
  <2> QED
    BY <2>1, <2>2, <2>3, <2>4
<1> QED
  BY <1>1, <1>2, <1>3, <1>5, JobFalls DEF TInv, CourseInv, MaxAttempts

\* All the loops of a wave start.
LEMMA StartWorkFalls ==
  ASSUME TInv, TypeOK', CourseInv, StartWork PROVE Falls
<1>1. /\ Open /\ UNCHANGED <<completed, wave, attempt>> /\ wave \subseteq Id
      /\ \A t \in wave : job[t] = "prepared" /\ job'[t] = "code"
  BY DEF StartWork, Open, Running, Checks, durable, TInv, TypeOK
<1>2. PICK u \in wave : TRUE
  BY DEF StartWork, CourseInv, Running, Checks
<1>3. \A t \in wave : TaskSteps(t)' < TaskSteps(t)
  <2>1. \A t \in wave : /\ TaskSteps(t) = 6 + 4 * (2 - attempt[t])
                        /\ TaskSteps(t)' = 5 + 4 * (2 - attempt[t])
                        /\ attempt[t] \in 1 .. 2
    BY <1>1, JobNumbers DEF TaskSteps, MaxAttempts, TInv, TypeOK
  <2> QED
    BY <2>1
<1>4. \A t \in wave : TaskSteps(t)' \in 0 .. 11
  <2>1. \A t \in wave : JobSteps[job'[t]] = 5 /\ attempt'[t] \in 1 .. 2
    BY <1>1, JobNumbers DEF TypeOK, MaxAttempts
  <2> QED
    BY <2>1 DEF TaskSteps, MaxAttempts
<1>5. \A t \in wave : TaskSteps(t) \in 0 .. 11
  BY <1>1, TaskStepsType DEF TInv
<1>6. \A t \in wave : TaskSteps(t)' <= TaskSteps(t)
  BY <1>3, <1>4, <1>5
<1> QED
  BY <1>1, <1>2, <1>3, <1>4, <1>6, TaskFalls DEF TInv, CourseInv

\* A task is merged.
LEMMA MergedFalls ==
  ASSUME TInv, TypeOK', CourseInv, NEW t \in wave, Open, UNCHANGED <<completed, wave, attempt>>,
         Merged(t)
  PROVE  Falls
<1>1. /\ wave \subseteq Id /\ job[t] = "passed" /\ job'[t] = "merged"
      /\ \A u \in Id \ {t} : job'[u] = job[u] /\ attempt'[u] = attempt[u]
      /\ attempt[t] \in 1 .. 2 /\ attempt'[t] = attempt[t]
  BY DEF Merged, Step, TInv, TypeOK, MaxAttempts
<1>2. JobSteps[job'[t]] + 4 * (2 - attempt'[t]) < JobSteps[job[t]] + 4 * (2 - attempt[t])
  BY <1>1, JobNumbers
<1> QED
  BY <1>1, <1>2, JobFalls DEF TInv, CourseInv, MaxAttempts

\* A squash, staged or refused, is dealt with before the next one.
LEMMA SquashFalls ==
  ASSUME TInv, TypeOK', CourseInv, MergeNext \/ Resquash PROVE Falls
<1>1. PICK t \in wave : SquashEmpty(t) \/ SquashStaged(t) \/ (SquashRefused(t) /\ pc = "merge")
  BY DEF MergeNext, Resquash, Unmerged, CourseInv, MergingPc
<1>2. pc \in {"merge", "resquash"}
  BY DEF MergeNext, Resquash
<1>3. CASE SquashEmpty(t)
  BY <1>2, <1>3, MergedFalls DEF SquashEmpty, Open, Running, Checks
<1>4. CASE SquashStaged(t)
  <2>1. Open /\ UNCHANGED <<completed, wave, job, attempt>> /\ pc' = "commit"
    BY <1>2, <1>4 DEF SquashStaged, Open, Running, Checks
  <2> QED
    BY <1>2, <2>1, PlaceFalls, PlaceNumbers DEF TInv
<1>5. CASE SquashRefused(t) /\ pc = "merge"
  <2>1. Open /\ UNCHANGED <<completed, wave, job, attempt>> /\ pc' = "conflict"
    BY <1>5 DEF SquashRefused, Open, Running, Checks
  <2> QED
    BY <1>5, <2>1, PlaceFalls, PlaceNumbers DEF TInv
<1> QED
  BY <1>1, <1>3, <1>4, <1>5

\* A refused squash is rebased and tried again; after a wave come the checks.
LEMMA PlacesFall ==
  ASSUME TInv, StartMerge \/ Rebase \/ FixConflict \/ CheckE2E \/ CheckBaseline
  PROVE  Falls
<1>1. CASE StartMerge
  <2>1. Open /\ UNCHANGED <<completed, wave, job, attempt>> /\ pc = "work" /\ pc' = "merge"
    BY <1>1 DEF StartMerge, WaveOver, Open, Running, Checks, durable, memory
  <2> QED
    BY <2>1, PlaceFalls, PlaceNumbers DEF TInv
<1>2. CASE Rebase \/ FixConflict
  <2>1. /\ Open /\ UNCHANGED <<completed, wave, job, attempt>>
        /\ \/ pc = "conflict" /\ pc' \in {"resquash", "fix"}
           \/ pc = "fix" /\ pc' = "resquash"
    BY <1>2 DEF Rebase, FixConflict, Rebased, Open, Running, Checks, durable, memory
  <2> QED
    BY <2>1, PlaceFalls, PlaceNumbers DEF TInv
<1>3. CASE CheckE2E \/ CheckBaseline
  <2>1. /\ Open /\ UNCHANGED <<completed, wave, job, attempt>>
        /\ \/ pc = "e2e" /\ pc' = "baseline"
           \/ pc = "baseline" /\ pc' = "check"
    BY <1>3 DEF CheckE2E, CheckBaseline, Open, Running, Checks, durable, memory
  <2> QED
    BY <2>1, PlaceFalls, PlaceNumbers DEF TInv
<1> QED
  BY <1>1, <1>2, <1>3

\* A wave that is over leaves fewer tasks.
LEMMA NextWaveFalls ==
  ASSUME TInv, CourseInv, NextWaveStarts PROVE Falls
<1>1. /\ Open /\ completed' = completed \cup wave
      /\ wave # {} /\ wave \cap completed = {} /\ wave \subseteq TaskIds(specs)
  BY DEF NextWaveStarts, Open, Running, Checks, durable, CourseInv
<1>2. TasksLeft' = TasksLeft \ wave /\ wave \subseteq TasksLeft
  BY <1>1 DEF TasksLeft, Open, TaskIds
<1>3. IsFiniteSet(TasksLeft)
  BY LeftFinite DEF TInv, CourseInv
<1>4. TasksLeft' \in SUBSET TasksLeft /\ TasksLeft' # TasksLeft
  BY <1>1, <1>2
<1>5. /\ Cardinality(TasksLeft)' <= Cardinality(TasksLeft)
      /\ Cardinality(TasksLeft)' # Cardinality(TasksLeft)
      /\ Cardinality(TasksLeft) \in Nat /\ Cardinality(TasksLeft)' \in Nat
  BY <1>3, <1>4, FS_Subset, FS_CardinalityType
<1> QED
  BY <1>1, <1>5, OpenSame DEF Falls, TInv

\* What a call has left in the index is committed.
LEMMA CheckpointFalls ==
  ASSUME TInv, Checkpoint PROVE Falls
<1>1. /\ UNCHANGED <<spent, specs, completed, wave, job, attempt>>
      /\ pc = "idle" /\ pc' = "idle" /\ index # {} /\ index' = {}
  BY DEF Checkpoint, memory
<1>2. EventsLeft' = EventsLeft
  BY <1>1, EventSteps DEF TInv
<1>3. CallsOpen' = CallsOpen /\ TasksLeft' = TasksLeft /\ StepsLeft' = StepsLeft
  BY <1>1 DEF CallsOpen, TasksLeft, TaskIds, StepsLeft, TaskSteps
<1>4. PlacesLeft[pc] = 1 /\ PlacesLeft'[pc'] = 0
  BY <1>1 DEF PlacesLeft
<1> QED
  BY <1>2, <1>3, <1>4 DEF Falls

\* Every step uses something up: nothing goes round for nothing, in any call.
THEOREM EveryStepUsesUp == Spec => EveryStepCounts
<1>1. ASSUME TInv, TInv', CourseInv, CourseInv', [Next]_vars PROVE [UsesUp]_vars
  <2>1. Remaining \in Tuples(5)
    BY <1>1, RemainingType
  <2>2. (TInv /\ CourseInv => Remaining \in Tuples(5))'
    BY RemainingType, PTL
  <2> SUFFICES ASSUME Next, vars' # vars PROVE Falls
    BY <1>1, <2>1, <2>2, FallsIsLess
  <2>3. CASE StartCall \/ Throw \/ Crash
    <3>1. \E e \in Event : Spend(e)
      BY <2>3 DEF StartCall, Throw, Crash, Event
    <3> QED
      BY <1>1, <3>1, SpendFalls DEF TInv
  <2>4. CASE Checkpoint
    BY <1>1, <2>4, CheckpointFalls
  <2>5. CASE \E t \in Id : \/ PrepareWorktree(t) \/ Code(t) \/ Tests(t)
                          \/ VerifyPasses(t) \/ ReviewPasses(t) \/ VerifyFails(t)
    BY <1>1, <2>5, LoopFalls DEF TInv
  <2>6. CASE StartWork
    BY <1>1, <2>6, StartWorkFalls DEF TInv
  <2>7. CASE FailWave \/ Abandon \/ CheckIntegration
    <3>1. UNCHANGED spent /\ pc \in Running /\ pc' = "idle"
      BY <2>7 DEF FailWave, Abandon, CheckIntegration, Return, WaveOver, Running, Checks
    <3> QED
      BY <1>1, <3>1, ReturnFalls DEF TInv
  <2>8. CASE StartMerge \/ Rebase \/ FixConflict \/ CheckE2E \/ CheckBaseline
    BY <1>1, <2>8, PlacesFall
  <2>9. CASE MergeNext \/ Resquash
    BY <1>1, <2>9, SquashFalls DEF TInv
  <2>10. CASE CommitSquash
    <3>1. Open /\ UNCHANGED <<completed, wave, attempt>> /\ merging \in wave
      BY <1>1, <2>10 DEF CommitSquash, Open, Running, Checks, CourseInv, MergingPc
    <3> QED
      BY <1>1, <2>10, <3>1, MergedFalls DEF TInv, CommitSquash
  <2>11. CASE NextWaveStarts
    BY <1>1, <2>11, NextWaveFalls
  <2> QED
    BY <2>3, <2>4, <2>5, <2>6, <2>7, <2>8, <2>9, <2>10, <2>11
       DEF Next, SliceLoop, Program, Waves, Merges, Terminated
<1> QED
  BY <1>1, AlwaysCourse, PTL DEF Spec, EveryStepCounts
=============================================================================
