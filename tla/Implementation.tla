--------------------------- MODULE Implementation ---------------------------
(***************************************************************************)
(* The implementation of one slice (application/stage/implement): the      *)
(* planner's task specs, the waves they are built in, one git worktree and *)
(* one code-test-verify loop per task, the squash merges, the resolution   *)
(* of conflicts, and the checks after the last wave.                       *)
(*                                                                         *)
(* The slice loop may call it again, after a failure or a throw, on the    *)
(* same phase directory, the same branches and the same index: those are   *)
(* what this module keeps from call to call.                               *)
(*                                                                         *)
(* The tasks of a wave run in parallel, and the waves one after the other. *)
(* git is external: where a command may be refused, it may be refused.     *)
(***************************************************************************)
EXTENDS Integers, Sequences, FiniteSetsExt, Progress

CONSTANTS Id,            \* task ids
          Plans,         \* the task specs a planner may write
          Limit,         \* bounds on calls, and on throws and crashes
          OffRunBranch   \* may a process have another branch checked out?

TaskSpec == [id : Id, deps : SUBSET Id]

Event == {"call", "throw", "crash"}

ASSUME IdAssumption == Id \subseteq Nat \ {0}
ASSUME PlansAssumption == Plans \subseteq Seq(TaskSpec)
ASSUME LimitAssumption == Limit \in [Event -> Nat]
ASSUME BranchAssumption == OffRunBranch \in BOOLEAN

MaxAttempts == 2

VARIABLES
  specs,      \* the phase's task specs, in the order of their files
  head,       \* the branch checked out in the workspace
  branch,     \* what each branch contains
  index,      \* what a squash has staged in the workspace and not committed
  base,       \* what the worktree of each task contains of other work
  pc,         \* where the slice's implementation is
  completed,  \* the tasks of the waves that are over
  wave,       \* the tasks of the current wave
  job,        \* where each task is
  attempt,    \* the attempt of each task's loop
  merging,    \* the task whose branch is being merged
  regressed,  \* did a check of the baseline fail?
  outcome,    \* what the last call returned
  spent       \* how often each event has happened

durable == <<specs, head, branch, index, base>>
memory == <<completed, wave, job, attempt, merging, regressed>>
vars == <<durable, pc, memory, outcome, spent>>

-----------------------------------------------------------------------------
(***************************************************************************)
(* State.                                                                  *)
(***************************************************************************)

NoTask == 0

\* The run's own branch, and any other the workspace may be on: what the first
\* process gets from git when it makes the run branch is not looked at, and a
\* resumed process checks nothing out.
Branch == {"run", "other"}
CheckedOut(b) == {b} \cup (IF OffRunBranch THEN Branch ELSE {})

\* The work on a task in one call.
Change == [task : Id, call : Nat]

Job == {"idle", "prepared", "code", "tests", "verify", "review", "passed", "failed", "merged"}

Checks == {"e2e", "baseline", "check"}
Running == {"prepare", "work", "merge", "commit", "conflict", "fix", "resquash"} \cup Checks
Pc == Running \cup {"idle"}

Outcome == {"none", "PASS", "PARTIAL", "FAIL", "LOOP_DESIGN", "LOCAL_SLICE", "threw"}

Call == spent["call"]
Spend(event) == /\ spent[event] < Limit[event]
                /\ spent' = [spent EXCEPT ![event] = @ + 1]

\* Specs with the same id are one task, and the last of them counts.
TaskIds(s) == {s[i].id : i \in DOMAIN s}
DepsIn(s, t) == s[Max({i \in DOMAIN s : s[i].id = t})].deps

\* A planner overwrites the files it writes, and leaves the others.
Overwritten(s, plan) ==
  [i \in 1..Max({Len(s), Len(plan)}) |-> IF i <= Len(plan) THEN plan[i] ELSE s[i]]

\* Mutant: the dependencies are not looked at.
NextWaveOfAll(s, done) == TaskIds(s) \ done

\* The tasks whose dependencies are done; or, if there is none, all the rest.
NextWave(s, done) ==
  LET rest == TaskIds(s) \ done
      free == {t \in rest : DepsIn(s, t) \subseteq done}
  IN  IF free # {} THEN free ELSE rest

Work(t) == [task |-> t, call |-> Call]
In(content, t) == Work(t) \in content

Step(t, from, to) == /\ job[t] = from
                     /\ job' = [job EXCEPT ![t] = to]

Init == /\ specs = << >>
        /\ head \in CheckedOut("run")
        /\ branch = [b \in Branch |-> {}]
        /\ index = {}
        /\ base = [t \in Id |-> {}]
        /\ pc = "idle"
        /\ completed = {}
        /\ wave = {}
        /\ job = [t \in Id |-> "idle"]
        /\ attempt = [t \in Id |-> 1]
        /\ merging = NoTask
        /\ regressed = FALSE
        /\ outcome = "none"
        /\ spent = [e \in Event |-> 0]

-----------------------------------------------------------------------------
(***************************************************************************)
(* The slice loop's side.                                                  *)
(***************************************************************************)

\* The planner writes its specs, which no code clears before it does, and the
\* implementation starts; a phase without specs is requeued at once.
StartCall ==
  /\ pc = "idle"
  /\ Spend("call")
  /\ \E plan \in Plans : specs' = Overwritten(specs, plan)
  /\ specs' # << >>
  /\ completed' = {}
  /\ wave' = NextWave(specs', {})
  /\ job' = [t \in Id |-> "idle"]
  /\ attempt' = [t \in Id |-> 1]
  /\ merging' = NoTask
  /\ regressed' = FALSE
  /\ outcome' = "none"
  /\ pc' = "prepare"
  /\ UNCHANGED <<head, branch, index, base>>

\* A checkpoint of the slice loop or of a stage commits whatever is staged.
Checkpoint == /\ pc = "idle" /\ index # {}
              /\ branch' = [branch EXCEPT ![head] = @ \cup index]
              /\ index' = {}
              /\ UNCHANGED <<specs, head, base, pc, memory, outcome, spent>>

\* The call is over; nothing in memory is read again.
Return(o) == /\ outcome' = o
             /\ pc' = "idle"
             /\ completed' = {}
             /\ wave' = {}
             /\ job' = [t \in Id |-> "idle"]
             /\ attempt' = [t \in Id |-> 1]
             /\ merging' = NoTask
             /\ regressed' = FALSE

SliceLoop == StartCall \/ Checkpoint

-----------------------------------------------------------------------------
(***************************************************************************)
(* A wave: worktrees, then the tasks' loops, then their verdicts.          *)
(***************************************************************************)

\* A worktree left by an earlier call is removed, and a new one is made from
\* the run branch.
PrepareWorktree(t) ==
  /\ pc = "prepare" /\ t \in wave
  /\ Step(t, "idle", "prepared")
  /\ base' = [base EXCEPT ![t] = branch["run"]]
  /\ UNCHANGED <<specs, head, branch, index, pc, completed, wave, attempt, merging, regressed, outcome, spent>>

\* The loops start when every worktree of the wave is there.
StartWork ==
  /\ pc = "prepare" /\ \A t \in wave : job[t] = "prepared"
  /\ job' = [t \in Id |-> IF t \in wave THEN "code" ELSE job[t]]
  /\ pc' = "work"
  /\ UNCHANGED <<durable, completed, wave, attempt, merging, regressed, outcome, spent>>

\* One agent of a task's loop: it goes on to the next, or the task fails.
Agent(t, from, to) ==
  /\ pc = "work"
  /\ Step(t, from, to) \/ Step(t, from, "failed")
  /\ UNCHANGED <<durable, pc, completed, wave, attempt, merging, regressed, outcome, spent>>

Code(t)  == Agent(t, "code", "tests")
Tests(t) == Agent(t, "tests", "verify")

VerifyPasses(t) ==
  /\ pc = "work"
  /\ Step(t, "verify", "review")
  /\ UNCHANGED <<durable, pc, completed, wave, attempt, merging, regressed, outcome, spent>>

\* No reviewer of the code fails it with a blocking severity.
ReviewPasses(t) ==
  /\ pc = "work"
  /\ Step(t, "review", "passed")
  /\ UNCHANGED <<durable, pc, completed, wave, attempt, merging, regressed, outcome, spent>>

Judged(t, verdict) == Step(t, "verify", verdict) \/ Step(t, "review", verdict)

\* Mutant: the attempt is not counted.
RetryUncounted(t) ==
  /\ Judged(t, "code")
  /\ UNCHANGED attempt

\* Mutant: the bound is not looked at.
RetryUnbounded(t) ==
  /\ Judged(t, "code")
  /\ attempt' = [attempt EXCEPT ![t] = @ + 1]

\* A failed verification, or code review, sends the task back to code once.
Retry(t) ==
  /\ attempt[t] < MaxAttempts
  /\ Judged(t, "code")
  /\ attempt' = [attempt EXCEPT ![t] = @ + 1]

VerifyFails(t) ==
  /\ pc = "work"
  /\ \/ Retry(t)
     \/ attempt[t] = MaxAttempts /\ Judged(t, "failed") /\ UNCHANGED attempt
  /\ UNCHANGED <<durable, pc, completed, wave, merging, regressed, outcome, spent>>

\* Mutant: one task that passed is enough.
WavePassedInPart == \E t \in wave : job[t] = "passed"

WavePassed == \A t \in wave : job[t] = "passed"

WaveOver == pc = "work" /\ \A t \in wave : job[t] \in {"passed", "failed"}

\* A task failed: nothing of the wave is merged, and its worktrees stay.
FailWave == /\ WaveOver /\ ~WavePassed
            /\ Return("FAIL")
            /\ UNCHANGED <<durable, spent>>

StartMerge == /\ WaveOver /\ WavePassed
              /\ pc' = "merge"
              /\ UNCHANGED <<durable, memory, outcome, spent>>

-----------------------------------------------------------------------------
(***************************************************************************)
(* The squash merges, in the order of the ids.                             *)
(***************************************************************************)

Unmerged == {t \in wave : job[t] # "merged"}

\* The worktree of a merged task is removed, or is when it is prepared again.
Merged(t) == /\ Step(t, "passed", "merged")
             /\ UNCHANGED base

\* The squash of t: it changes nothing, or it is staged and waits for its
\* commit, or it is refused, and the index is reset with whatever it held.
SquashEmpty(t) ==
  /\ index = {}
  /\ branch' = [branch EXCEPT ![head] = @ \cup {Work(t)}]
  /\ Merged(t)
  /\ pc' = "merge"
  /\ UNCHANGED <<specs, head, index, completed, wave, attempt, merging, regressed, outcome, spent>>

SquashStaged(t) ==
  /\ index' = index \cup {Work(t)}
  /\ merging' = t
  /\ pc' = "commit"
  /\ UNCHANGED <<specs, head, branch, base, completed, wave, job, attempt, regressed, outcome, spent>>

SquashRefused(t) ==
  /\ index' = {}
  /\ merging' = t
  /\ pc' = "conflict"
  /\ UNCHANGED <<specs, head, branch, base, completed, wave, job, attempt, regressed, outcome, spent>>

MergeNext ==
  /\ pc = "merge"
  /\ \E t \in Unmerged : /\ \A u \in Unmerged : t <= u
                         /\ SquashEmpty(t) \/ SquashStaged(t) \/ SquashRefused(t)

CommitSquash ==
  /\ pc = "commit"
  /\ branch' = [branch EXCEPT ![head] = @ \cup index]
  /\ index' = {}
  /\ Merged(merging)
  /\ pc' = "merge"
  /\ UNCHANGED <<specs, head, completed, wave, attempt, merging, regressed, outcome, spent>>

\* After a refusal the worktree is rebased on the run branch, by git alone or
\* with an agent that resolves the conflicts, and the squash is tried again.
Rebased == /\ base' = [base EXCEPT ![merging] = @ \cup branch["run"]]
           /\ pc' = "resquash"
           /\ UNCHANGED <<specs, head, branch, index, memory, outcome, spent>>

Rebase == /\ pc = "conflict"
          /\ \/ Rebased
             \/ pc' = "fix" /\ UNCHANGED <<durable, memory, outcome, spent>>

FixConflict == /\ pc = "fix" /\ Rebased

\* Mutant: what came of the conflict is not looked at.
AbandonUnnoticed == /\ pc \in {"fix", "resquash"}
                    /\ index' = {}
                    /\ Merged(merging)
                    /\ pc' = "merge"
                    /\ UNCHANGED <<specs, head, branch, completed, wave, attempt, merging, regressed, outcome, spent>>

\* The agent fails, or the rebase cannot go on, or the squash is refused
\* again: the task is abandoned, with what was merged before it.
Abandon == /\ pc \in {"fix", "resquash"}
           /\ index' = {}
           /\ Return("FAIL")
           /\ UNCHANGED <<specs, head, branch, base, spent>>

Resquash == /\ pc = "resquash"
            /\ SquashEmpty(merging) \/ SquashStaged(merging)

NextWaveStarts ==
  /\ pc = "merge" /\ Unmerged = {}
  /\ completed' = completed \cup wave
  /\ IF TaskIds(specs) \subseteq completed'
     THEN pc' = "e2e" /\ UNCHANGED wave
     ELSE pc' = "prepare" /\ wave' = NextWave(specs, completed')
  /\ UNCHANGED <<durable, job, attempt, merging, regressed, outcome, spent>>

\* The end-to-end check: its verdict is only reported.
CheckE2E ==
  /\ pc = "e2e"
  /\ pc' = "baseline"
  /\ UNCHANGED <<durable, memory, outcome, spent>>

\* The build, lint, typecheck and test scripts.
CheckBaseline ==
  /\ pc = "baseline"
  /\ regressed' \in BOOLEAN
  /\ pc' = "check"
  /\ UNCHANGED <<durable, completed, wave, job, attempt, merging, outcome, spent>>

\* The integration checker may fail the slice, and ask for a loop back.
CheckIntegration ==
  /\ pc = "check"
  /\ \E o \in {"FAIL", "LOOP_DESIGN", "LOCAL_SLICE", IF regressed THEN "PARTIAL" ELSE "PASS"} :
       Return(o)
  /\ UNCHANGED <<durable, spent>>

Waves == \/ \E t \in Id : \/ PrepareWorktree(t)
                          \/ Code(t) \/ Tests(t) \/ VerifyPasses(t)
                          \/ ReviewPasses(t) \/ VerifyFails(t)
         \/ StartWork \/ FailWave \/ StartMerge

Merges == \/ MergeNext \/ CommitSquash
          \/ Rebase \/ FixConflict \/ Abandon \/ Resquash
          \/ NextWaveStarts \/ CheckE2E \/ CheckBaseline \/ CheckIntegration

-----------------------------------------------------------------------------
(***************************************************************************)
(* Failures.                                                               *)
(***************************************************************************)

\* A command or an agent throws: the stage ends with the error.  Nobody stops
\* the wave's other agents, and what they still write is left out.
Throw == /\ pc \in Running
         /\ Spend("throw")
         /\ Return("threw")
         /\ UNCHANGED durable

\* The process dies, and a new one is started, on whatever branch is checked
\* out then.
Crash == /\ pc \in Running
         /\ Spend("crash")
         /\ Return("none")
         /\ head' \in CheckedOut(head)
         /\ UNCHANGED <<specs, branch, index, base>>

Program == Waves \/ Merges

Terminated == /\ pc = "idle" /\ spent["call"] = Limit["call"]
              /\ UNCHANGED vars

Next == SliceLoop \/ Program \/ Throw \/ Crash \/ Terminated

Spec == Init /\ [][Next]_vars

\* The process runs on as long as it lives; nothing obliges the slice loop to
\* call again.
FairSpec == Spec /\ WF_vars(Program)

-----------------------------------------------------------------------------
(***************************************************************************)
(* Properties.                                                             *)
(***************************************************************************)

\* Every variable holds a value of the kind the code keeps there.
TypeOK == /\ specs \in Seq(TaskSpec)
          /\ head \in Branch
          /\ branch \in [Branch -> SUBSET Change]
          /\ index \subseteq Change
          /\ base \in [Id -> SUBSET Change]
          /\ pc \in Pc
          /\ completed \subseteq Id /\ wave \subseteq Id
          /\ job \in [Id -> Job]
          /\ attempt \in [Id -> 1..MaxAttempts]
          /\ merging \in Id \cup {NoTask}
          /\ regressed \in BOOLEAN
          /\ outcome \in Outcome
          /\ spent \in [Event -> Nat]

\* Tasks whose dependencies are tasks of the phase and run in no circle:
\* every subset has one that depends on nothing in it.
WellOrdered(s, ts) ==
  /\ \A t \in ts : DepsIn(s, t) \subseteq ts
  /\ \A u \in SUBSET ts : u # {} => \E t \in u : DepsIn(s, t) \cap u = {}

Resolvable(s) == UNION {ts \in SUBSET TaskIds(s) : WellOrdered(s, ts)}

InWorktree == {"code", "tests", "verify", "review", "passed", "failed"}

\* The agents of a task work on what it depends on: whatever other tasks, with
\* circular or unknown dependencies, are in the phase, and whatever earlier
\* calls left behind, the worktree has this call's merges of its dependencies.
BuiltOnDependencies ==
  \A t \in Resolvable(specs) :
    job[t] \in InWorktree =>
      \A d \in DepsIn(specs, t) : In(base[t], d)

\* A wave in which a task failed leaves nothing of the call's work on any
\* branch or in the index for a later commit to take along.
NothingOfFailedWave ==
  \A t \in wave : job[t] = "failed" =>
    \A u \in wave : \A b \in Branch : ~In(branch[b], u) /\ ~In(index, u)

\* A call that reports success has all its tasks on the run branch, through
\* refused squashes, rebases and conflicts, and whatever earlier calls and
\* crashes left in the index.
PassedIsMerged ==
  outcome \in {"PASS", "PARTIAL"} =>
    \A t \in TaskIds(specs) : In(branch["run"], t)

-----------------------------------------------------------------------------
(***************************************************************************)
(* Progress: what a call has left to do, and its environment.              *)
(***************************************************************************)

EventsLeft == (Limit["call"] - spent["call"]) + (Limit["throw"] - spent["throw"])
                + (Limit["crash"] - spent["crash"])

CallsOpen == IF pc \in Running THEN 1 ELSE 0

TasksLeft == TaskIds(specs) \ completed

\* The steps a task has left, in this attempt and in those it may still have.
JobSteps == [idle |-> 7, prepared |-> 6, code |-> 5, tests |-> 4, verify |-> 3, review |-> 2,
             passed |-> 1, failed |-> 1, merged |-> 0]

TaskSteps(t) == JobSteps[job[t]] + 4 * (MaxAttempts - attempt[t])

\* The steps the tasks of the wave have left, each with its number.
StepsLeft == {a \in wave \X (1 .. 7 + 4 * MaxAttempts) : a[2] <= TaskSteps(a[1])}

\* A wave is prepared, worked on and merged; a merge leads back to it.  What
\* the index holds when the call is over waits for a checkpoint.
PlacesLeft ==
  [prepare |-> 8, work |-> 7, merge |-> 6, conflict |-> 5, fix |-> 4, resquash |-> 3,
   commit |-> 2, e2e |-> 2, baseline |-> 1, check |-> 0, idle |-> IF index = {} THEN 0 ELSE 1]

Remaining == <<EventsLeft, CallsOpen, Cardinality(TasksLeft), Cardinality(StepsLeft),
               PlacesLeft[pc]>>

\* Nothing goes round for nothing: every step, whichever task's it is and in
\* whatever order the tasks' steps come, leaves less of a tuple of numbers
\* that never go below zero.  Attempts, waves, conflicts and further calls on
\* what earlier ones left each start something over; each uses up what none
\* of the others gives back.
UsesUp == <<Remaining, Remaining'>> \in Descents(5)

EveryStepCounts == [][UsesUp]_vars

-----------------------------------------------------------------------------
(***************************************************************************)
(* Liveness.                                                               *)
(***************************************************************************)

\* Every call returns or throws, unless the process dies.
CallsReturn == (pc \in Running) ~> (pc = "idle")
=============================================================================
