# A verification project for pi-deeplooper

pi-deeplooper drives a coding run through a fixed pipeline of agents. Its program
logic is small and entirely about control: which stage is next, which slice is
built, what is counted, what is written to disk before what, and what a resumed
process makes of it. This directory models that logic in TLA+, checks it with TLC
and proves part of it with TLAPS. Paths below are relative to the repository.

## 1. The system

| Component | State | Operations | Talks to |
|---|---|---|---|
| Pipeline loop (`src/application/pipeline/pipeline-loop.ts`) | its `Run`, saved to `state.json` | enter a stage, reload the Run after it, follow or refuse an escalation, complete a stage, stop | every stage, state file, queue file (for the fingerprint), git |
| Stage runner and gate (`stage-runner.ts`, `review-gate-coordinator.ts`) | automatic retries of the stage | run, retry after a throw, approve / reject / retry at a review cap | the stage, the operator |
| Outcome interpreter, transition and escalation policies (`outcome-interpreter.ts`, `src/domain/stage`, `src/domain/backward-loop`) | none | next stage, reset target | the Run |
| Run aggregate (`src/domain/run/index.ts`) | next stage, current slice, done and blocked slices, requeue counts, backward loops, reconcile flag, last fingerprint | one mutation per field group | pipeline loop, slice loop, inference |
| Slice queue (`src/domain/slice/slice-queue.ts`) | the slices: id, dependencies, status, requeue count, criteria, phase | build, parse, serialize, select, mark, requeue, escalate, reopen, reconcile, add remediation | slice loop, skeleton, verify, accept, pipeline loop |
| Slice loop (`src/application/stage/slice-loop.ts`) | a queue and a `Run` of its own | build or reconcile the queue, take the next slice through six sub-steps, requeue, escalate | queue file, state file, agents, slice implementation |
| Outer stages (`goals`, `research`, `design`, `skeleton`, `baseline`, `verify`, `accept`, `report`) | the artifacts they write | run once per entry, early pass on what is already there | artifacts, agents, queue file |
| State files and inference (`src/infra/fs`, `src/index.ts`) | `state.json`, `slice-queue.md`, the markers | save, load, infer the stage from artifacts | the operator's `resume` |
| Slice implementation (`implement.ts`, `fast-impl-*.ts`, `wave-planner.ts`, `version-control.ts`) | task worktrees, task branches, the run branch | waves, attempts, merges, conflict resolution | slice loop, git |
| Review loops (`src/application/workflow`, `research-pass.ts`, `goals.ts`, `skeleton.ts`) | rounds, dispatch retries, the scaffold's worktree | review, rewrite, cap; build, inspect and merge a scaffold | outer stages |
| Dispatches (`src/application/stage/utils.ts`, `src/infra/pi/session-dispatcher.ts`, `prompt-completion.ts`) | the sessions under way, a deadline for each | announce, open, wait for the first of five ends, report | every stage and task, event log, live UI |
| Event log (`src/infra/telemetry/telemetry-recorder.ts`) | `telemetry/events.jsonl`, the next number, a queue of appends | initialize, append | every dispatch |
| Live UI (`src/infra/pi/live-activity-presenter.ts`) | the tasks on the board, a timer, three widgets | one repaint per kind of event | every session and record |
| Model routing, replay, codec, rendering of telemetry, ports | nothing that outlives a call | not part of the control | everything |

Everything runs in one Node process and, apart from the tasks of a wave, in one
flow of control. What makes it hard is less parallelism than that the same facts
live in several places at once:

* the pipeline loop's Run, the snapshot it hands to a stage, the Run the slice
  loop makes from that snapshot, a fourth Run for clearing the reconcile flag, and
  `state.json`, over which each of them is at some point saved;
* the slice queue in memory and in `slice-queue.md`, which is written before
  `state.json` in every operation that changes both, and is replaced by skeleton
  and appended to by verify and accept behind the slice loop's back;
* a process that may die between any two writes or in the middle of one, a stage
  that may throw and be run again on its old snapshot, an operator who resumes
  with other settings, and a resume that infers the stage from artifacts when
  `state.json` is gone.

The tasks of a wave do run in parallel. They share the run branch, the event log, each
append of which rewrites the whole file, and the widgets; and when one of
them throws, the run is over while the others go on, since nothing stops them.

What correctness means, per component:

* *slice queue*: a completed slice is never lost, no slice comes twice, none waits
  for a slice that is gone, none is built before its dependencies, and a failing
  criterion is always repaired by some slice;
* *run and pipeline*: backward loops and requeues are bounded, counts are never
  taken back, every run ends or waits for its operator, and a completed run has been
  verified;
* *slice loop and redesign*: what is built belongs to the current design, what is
  being built is eventually resolved, and the late stages see a finished queue;
* *implementation*: a task starts from the work it depends on, and what failed is
  not merged;
* *review loops*: what a stage returns as reviewed is what a reviewer saw, and what
  the reviewers were not satisfied with is reported as such; what later entries
  take for a merged scaffold is one;
* *dispatches*: every dispatch ends, with or without an answer; the log tells of
  each what it did, once and in order; the screen shows the sessions that run and no
  other.

`PROJECT.json` lists the components with what is and is not modelled, and the
hazards, each at its line with the properties that cover it.

## 2. Plan

The modules build on each other, in the order in which they were written:

1. `SliceQueue`: the slice aggregate as operators on a sequence of slices.
2. `RunState`: the Run aggregate, the stage graph and the escalation policy, as
   operators on a record.
3. `DeepLooper`: the process, its stages and its files, over 1 and 2. The core.
4. `SliceLife`: the abstract specification of `slice-queue.md`, which `DeepLooper`
   implements.
5. `Claims`: what comments and documentation say and `DeepLooper` refutes.
6. `Implementation`: what the sub-step "implement" of the slice loop does inside.
7. `Reviews`: what the stages goals, research, design and skeleton do inside.
8. `EventLog` and `LiveView`: the recorder and the widgets; `Dispatch` composes
   them with the dispatches of a wave.
9. `Progress`: an order on tuples of numbers, over which 3, 6 and 7 say that nothing
   goes round for nothing.
10. `*_proofs`: theorems about 1, 3, 4, 6, 7, 8 and 9, and that 3 implements 4.

All of these are there. What would come next, in order of importance:

* *Composition.* `DeepLooper` takes the outcome of a stage or of a slice's
  implementation as a choice, and `Implementation` and `Reviews` say which choices
  are real. The link is an abstract specification of a stage ("entered, then
  returns one of these outcomes, having written at most these files") which both
  `Reviews` and `Implementation` implement with `INSTANCE ... WITH`, and which
  `DeepLooper` uses.
* *Phase directories*: regression reuse in verify
  (`src/infra/git/version-control.ts:396-438`) and the specs of an earlier call.
* *More of section 8 as checked claims*, above all the structure review whose cap is
  softened, and merges while another branch is checked out.
* *The reviewers of a wave* (`src/application/stage/code-review.ts:31-52`), which write
  records of their own beside those of `dispatchLeaf`.

## 3. The modules and the code

### SliceQueue and RunState

One operator for each mutation of the aggregates in `src/domain/slice/slice-queue.ts`
and `src/domain/run/index.ts`, named after the method. A slice keeps its id,
dependencies, status, requeue count, criteria, phase number and source (design or
remediation). Titles, reasons, timestamps and markdown are left out.
A queue is a sequence, since the code maps over an array and two slices may share
an id. `ReadBack` is what `parse` gives for what `serialize` wrote, which is not
the identity: only ids that the heading pattern admits (`HeaderId`) come back. The
runs have ids that it admits; the theorems hold for any. A design is the
list of slices that the parsers find, and whether it declares a slices section at
all. The fingerprint of an escalation is a record instead of a hash.
What the code does with `filter` is `Only`, a selection by the places to keep instead
of by a predicate, because the provers have no definition of `SelectSeq`; `Applied` is
the loop of `applyRemediationWithReopen`. Both are recursive functions.

### DeepLooper

The process is one flow of control, so an action is the code between two places
where it can be cut short: a dispatch, a file write, a prompt. `pc` says which
write or dispatch is next.

| Variable | Code |
|---|---|
| `design`, `files` | `design.md` and the other artifacts that inference looks for |
| `queueFile`, `stateFile` | `slice-queue.md`, `state.json`; `None` is missing, empty or torn |
| `run` | `run` in `PipelineLoop.execute` |
| `snap` | `runtime.state`, the snapshot the stage was given |
| `queue`, `sliceRun` | `ctx.queue` and `ctx.run` of the slice loop |
| `retried` | the automatic retry of `stage-runner.ts` |
| `setting` | interaction mode and failure policy, which a resume may change |
| `outcome` | the `StageOutcome` |
| `spent` | only bounds what the environment does |

The actions are grouped as `PipelineLoop` (enter a stage, gate, resync, decide),
`EarlyStages`, `SliceLoop`, `LateStages` and `Environment` (throw, crash, resume).
Wherever the code writes `slice-queue.md` and then `state.json` there are two
actions with a crash between them. The agents' answers are choices: a stage may
end in every way its code lets it end, and what it has written by then is part of
the choice; a PARTIAL verification goes on as a PASS does, and is one here. Throws are caught where `stage-runner.ts` catches them, and nowhere
else: under best-effort the stage is run again once, unless the host has cancelled the
run, and so a throw may end the process under any setting. `Resume` contains the inference of `state-reconstruction.ts`, marker by
marker.

### SliceLife

What the life of `slice-queue.md` is, whoever writes it: a file that is `None` or a
queue, and one action for each operation of the aggregate, enabled when the aggregate
allows it and on nothing else. There is no process, no stage and no `state.json`.
`DeepLooper` states with `Life == INSTANCE SliceLife WITH file <- queueFile, ...` that it
implements it (`QueueIsWellUsed`): each of its steps is one such operation or leaves the
file alone, and a slice is requeued at most `MaxRequeue` times plus what crashes and
throws make the Run forget (`Forgets`): one count each, or up to `MaxRequeue` where
best-effort runs the stage again on its snapshot or a write of `state.json` is torn.

### Implementation

One slice, implemented once or more on the same phase directory. What a branch, a
worktree and the index contain is the set of *changes* they have, a change being
the work on one task in one call; that is what tells apart "built on its
dependency" and "built on what an earlier call left of it". A squash merge is
empty, or staged and then committed, or refused; a refusal leads to the rebase, the
agent that resolves conflicts, and the second squash. `Checkpoint` is the commit
that the slice loop or another stage makes of whatever is staged.

`OffRunBranch` stands for two places where the code does not look at what git
answers: `createRunBranch` (`src/infra/git/version-control.ts:280`) and a
resume, which checks nothing out. With `OffRunBranch`, merges go to whatever
branch is checked out while worktrees are made from the run branch.

### Reviews

The review loops inside goals, design, the skeleton's structure (all three over
`agent-review-loop.ts`) and research (`research-pass.ts`). `disk` are the documents, `shown` what the last
reviewer read, `verdict` what it said; `origin` remembers of each answer which
questions it answers and whether it had evidence. A text is a number; all that
matters is whether two are the same. An entry may happen at any time (`Enter`),
which covers a crash in the middle, a later entry after a loop back, and an
automatic retry: nothing but the documents survives it.

The skeleton comes with what precedes its review: the build loop in a worktree
(`StartBuild`, `Build`), the inspection that accepts, reduces or refuses the scaffold
(`Accept`, `Refuse`), the merge, the queue with all slices done that a tiny project
carries forward (`Carry`), and the map of the structure. `merged` holds, for each scaffold
merged into the run branch, whether its build had passed, and `disk.allDone` is
the carried queue. `EarlyPass` is the entry that finds `structure.md` and the
files it names. A failed dispatch in the skeleton's review loop is returned as
its cap (`skeleton.ts:302`), unlike in goals and research; the models have both.

### EventLog, LiveView and Dispatch

`EventLog` is `telemetry-recorder.ts`: an append takes its turn in the queue of
promises, gets its number, reads the whole file and writes it back with one more
line. A line is the number and the event, or `Torn`, which does not parse; a failed write
and a crash may leave any first part of what was to be written (`Remains`).
`readEvents` is all or nothing, and `Initialize` empties a file in which it finds
nothing. `LiveView` is `live-activity-presenter.ts`: the presenter's fields and what
each method makes of them and of the three widgets. The throttle of the box is the flag
`pending` and a number of timers, since a repaint forgets a timer that is already set.

`Dispatch` has the dispatches of the tasks of a wave, each task one after the
other, and steps them from `dispatchLeaf` and `dispatchGenericCoding` (`utils.ts`)
down to the session:

| `pc` | Where the dispatch is |
|---|---|
| `announcing` | its `dispatch.started` is in the queue of the log or being written |
| `opening` | the session is being created |
| `racing` | `waitForPromptCompletion`: return tool, end of the agent, failed prompt, deadline, cancellation |
| `reporting` | its `dispatch.completed` is in the queue of the log or being written |
| `returned`, `threw` | its promise is settled |

A task comes to its first dispatch in its own time (`Announce`), after it has read its
spec, so the first records of a wave enter the queue in any order and at any distance
(`fast-impl-code.ts:16-18`). Of a session the presenter hears turns, tool calls and text
(`Activity`), the end of a tool call, which changes the last active session and paints
nothing (`ToolEnds`), and output (`Output`).

`Stop` is the end of `runPipeline`, which comes at the first throw; no action of
a dispatch asks whether it has happened. A `Crash` is followed by a new process
that dispatches anew on the same file; `life` tells the processes apart.

### Progress

`Tuples(n)`, their lexicographic order `Less` and the steps down in it, `Descents(n)`.
`DeepLooper`, `Implementation` and `Reviews` each define a tuple `Remaining` of what is left to do, and the action property
`EveryStepCounts`: a step leaves less of it. The tuples are not in the code; what
they count is:

| Module | From the weightiest on |
|---|---|
| `DeepLooper` | what the environment may still do; whether the process is down, starting, running or over; backward loops up to the cap; stages up to `done`; before, in or after the attempts of the slice loop; for each slice that is not done, the attempts that its requeue count leaves; steps of the attempt, or of the way to the next stage |
| `Implementation` | calls, throws and crashes; whether the call is open; tasks not completed; steps and attempts that the tasks of the wave have left, all together; the place in the wave |
| `Reviews` | entries and rejections; parts of the entry; rounds; places of the round; answers and transient retries |

A step that starts something over (a requeue, an escalation, a retry, a rejection) has to
pay with a number that weighs more and that nothing gives back. This is the argument that
a reader of the caps makes in his head, and the part of termination that the provers
can check.

## 4. The runs

| Run | Question | Distinct states |
|---|---|---|
| `pipeline` | the queue follows the design, late stages see a finished queue | 1.5 million |
| `best_effort` | loops and attempts are bounded and completed slices kept through crashes, throws and retries on old snapshots; only ready slices are built; the queue file refines `SliceLife` | 4.3 million |
| `liveness` | every run ends or waits for its operator, every slice being built is resolved, every step leaves less to do, counts are not taken back, a completed run was verified, even when its stage was inferred | 902 thousand |
| `slice_life` | the aggregate alone: unique, not stranded, repaired | 40 thousand |
| `implementation` | worktrees, merges, failed waves, progress, returns | 132 thousand |
| `reviews` | what a stage returns was reviewed, structures stand on scaffolds, answers are current, evidence is reported, every step leaves less to do | 38 thousand |
| `dispatch` | every dispatch ends, the log tells what it did, its queue holds what is waited for, the screen shows what runs | 257 thousand |
| `stuck_building`, `reconcile_flag`, `stale_retry`, `unparsed_redesign`, `hidden_sessions` | section 8 | refuted |

**The instance of DeepLooper.** Two design slices, of which B waits for A, and one
id for remediation: enough for a dependency, for a slice that a redesign drops
(`OnlyB`) or cannot name (`Garbled`), and for a criterion whose owner is reopened.
The caps are 1 where the code has 3 and 2; every property about a cap is
about reaching it and going one further, which takes two failures at a cap of 1. The
exception is the requeue cap in `best_effort`, which is 2: only there can a retry take
back more counts than one. The theorems of section 6 hold for any cap. Each run allows
the failures it is about and no others, in `Limit`: `best_effort` one crash between any
two writes and one throw, since a second ends the process like a crash does;
`liveness` one crash, which may tear a file, and one round of remediation; `pipeline`
one resume of a stopped run, one gate retry and one round of remediation. The
theorems hold for any number of each. `liveness` uses
one design and an operator at every gate (`Interactive`): an operator who may approve, reject and
retry can do whatever the automated fail-closed settings do, and whatever best-effort does but
the automatic retry, which `best_effort` has and for which `EveryStepUsesUp` is proved.
That he may also leave the run waiting, which `Terminates` admits (section 5), excuses
no automated run: one that went on for ever would be one whose operator always answers at once,
which is not at his gate for good, and the run would find it.

**SliceLife** has three design slices and a second design that turns two of them
round, so that a reconciliation may invert a dependency. Remediation could make the
queue grow for ever; the run lets it leave three slices at most (`Short` in
`MCSliceLife`, an action constraint), so it adds one where the tiny design is in
force and reopens anywhere. The theorems hold for any number of slices. Its properties are about
the queue as an aggregate, in any order of operations, also orders that
`DeepLooper` does not produce. `NothingStranded` and `ProposalsRepaired` are
meant for the aggregate, whoever calls it.

**Implementation** has three tasks and five plans: a fan out, a dependency on a
task that is only there from an earlier call, a circle beside a chain, two specs
with one id, and no spec. Two calls, one throw and one crash are what it takes for
a call to inherit specs, branches, worktrees and a staged index. The run has
`OffRunBranch = FALSE` (see 6).

**Reviews** has two texts (the same again, or another one), a question that is
answered from the web and one that is not, three rounds so that there is a middle
one, two entries, so that the first one's documents are on disk in the second, and two
rejections.

**Dispatch** has two tasks: one makes a generic dispatch and then one with a
label of its own, the other a generic one. That is the smallest instance in which two
sessions share a label and a third does not, in which a task goes on after the other
has thrown, and in which two appends wait for a third. One read, write or opening fails, or
the process dies; the theorems hold for any number of both. An agent that calls the return
tool of a generic dispatch says FAIL there, so that the ends of such a dispatch come to the same
and the run stays small; the leaf, whose ends come to PASS or FAIL, shows a status that the log
gets wrong. The box has one timer under way, which the end of its session, another session and
the end of the run may all overtake. Other answers and more timers are left to the theorems, which
cover them all.

Deadlock is checked in every run: the ends of a run are the self-loops
`Terminated` and, in `Dispatch`, `Done`.

## 5. Fairness

In `DeepLooper`, `FairSpec` is weak fairness of `OnItsOwn`, in `Implementation` and
`Reviews` of `Program`: the process runs on as long as it lives and waits for nobody. It is
justified because every dispatch has a deadline
(`src/infra/pi/session-dispatcher.ts:73`) and comes back, with a failure at worst,
and every file write ends. A question that an agent puts to the operator inside its
session (`ask_human`) is under that deadline too.

The prompts of the program itself are not: the gate at a review cap
(`src/application/pipeline/review-gate-coordinator.ts:58`), the questions of goals
(`src/application/stage/goals.ts:236`, `293`) and the gate of design
(`src/application/workflow/synthesize-review-gate-workflow.ts:68`, `112`, `163`) wait for
ever if nobody answers. Where an interactive run may be at one of them is
`AwaitsOperator` in `DeepLooper`; there nothing is fair, and `OnItsOwn` is `Program`
elsewhere. In `Reviews` the answers are `Operator`, apart from `Program`.

Nothing else is fair. The operator need not resume, reject or answer; crashes and throws
need not happen; in `Implementation` nothing obliges the slice loop to call, in
`Reviews` nothing obliges anyone to enter the stage. No choice is fair either: an
agent may fail every time, so what ends a run are the caps of the code and nothing else
(`EveryStepCounts`), with one exception: the rounds of verify or accept and remediation have
no cap in the code, and the models bound them by `Limit["remediation"]`. `Terminates` and
`EveryStepCounts` say of a run that a reflector with always something new to propose can
keep it going, and nothing else can.
`Terminates` says accordingly that a run completes, stops or is down in the end, or, with an
operator, waits for him; and
`NothingLeftBuilding` excludes the crash that finding 1 is about.

In `Dispatch`, `FairSpec` is weak fairness of the log's steps (`LogSteps`), whose turn
comes because the queue goes on after a failure too, and, for each dispatch, of
what it does without its agent (`GetsOn`): begin or go on, open its session, and be
ended by its deadline or by a cancellation. That an agent ever answers or fails is not assumed, nor
that a timer fires or the run is stopped. That is what the deadline of ten minutes,
or of an hour for a leaf, gives.

## 6. What is proved

The proofs are of safety, for every value of the constants, and each follows from
an invariant that is inductive together with the one below it.

**DeepLooper** (`DeepLooper_proofs`), for any design, any number of slices,
caps, settings, crashes, torn writes and resumes:

* `ControlOK`: `pc` and the stage it belongs to agree.
* `RunsOK`: *all four* Runs (the loop's, the snapshot, the slice loop's, the saved
  one) are within the caps. Each is at some point copied over another, so the
  bound of one is not inductive without the others. It gives
  `BackwardLoopsAreBounded` and `RequeuesAreBounded`.
* `StagesOK`: whatever stage any Run names next is vouched for by the artifacts
  (accept or later only with a passing `stage9-summary.md`, done only with the report),
  and while a stage runs every Run names that stage. It gives
  `CompletedRunIsVerified`, which needs a lemma on what inference finds
  (`RecoveredStageVouched`).
* `SavesOK`: the Run that is saved next counts at least what the file counts. It
  gives `CountersAreMonotone`, which assumes `FailClosedOnly` (no best-effort setting
  and no torn writes); without it the statement is false, see finding 3.

**Implementation** (`Implementation_proofs`), for any plans and any number of
tasks, calls, throws and crashes:

* `TInv`: types, and a merge in progress has a task. It gives `TypeCorrect`,
  with the bound on attempts.
* `MInv`: within a call, what is completed or merged is on the run branch, which
  only grows; a wave holds only tasks whose dependencies are completed, unless they
  cannot be resolved; and a worktree is made from the run branch when its wave is
  there. It gives `TasksAreBuiltOnDependencies` and `PassedCallsAreMerged`, both
  under `~OffRunBranch`: with another branch checked out the merges go there, and
  both are false. The lemma `WavesFollowDependencies` is the one about the wave
  planner: a task that can be resolved never comes into a wave by the fallback
  for circles.
* `FInv`: nothing carries the number of a call that has not begun, and before its
  merges a call's changes of the current wave are nowhere. It gives
  `FailedWavesLeaveNothing`, with no assumption on the branch.

**Reviews** (`Reviews_proofs`), for any cap, questions, texts, entries and
rejections:

* `TInv` (types, and a rewriting happens below the cap) gives `RoundsAreBounded`.
* `ReviewInv` (at the gate the verdict is PASS and the documents are as
  shown; there is no outcome before the end) gives `ReturnsWhatWasReviewed`.
* `AnswerInv` (what is not on the list of questions to answer has an answer to the
  current questions, and the flags are those without evidence) gives
  `MissingEvidenceIsReported` and `ResearchAnswersItsQuestions`.

The skeleton adds one:

* `ScaffoldInv` (past the merge, and wherever a structure or an all-done queue is on
  disk, something has been merged; what is carried has built) gives
  `SkeletonIsMerged`.

**Dispatch** (`Dispatch_proofs`), for any number of tasks, dispatches, labels, faults,
cancellations and crashes. `IInv` is inductive as a whole:

* `OneTurn`: the only draft is that of the head of the queue, with the last number given.
* `FaultFree`: while nothing has failed every line's number is its place, a draft has
  read all of the file, and a live process' file has no torn line. It gives
  `NumberedHolds`, and `EventsStayHolds` with a lemma on what a step does
  to the file (`FileStep`). A crash may still tear the file; that the next process
  starts on an empty one then, and on the whole of it otherwise, is what keeps the numbers.
* `FirstProcess`: numbers increase in the file and in what is about to be written,
  also when a write is cut short. It gives `SequenceHolds`.
* `TInv` (`CallTypes`, `Waits` and `Tells`): while the process lives the queue holds the
  records that dispatches wait for, each once (`Waits`), whatever has failed; and the
  file those they are past, each once, while nothing has. `Waits` gives
  `EveryRecordIsQueued`: an append that fails, or a session that cannot be opened, leaves
  no dispatch waiting for a turn that never comes and no turn for nobody. With the lemma
  `LoggedCounts` on cardinalities `Tells` gives `LogTellsOfCalls`.
* `ScreenInv`: what is on the board is the label of a dispatch that has a session, the
  box is on the board, the strip is not there over an empty one, and no label is twice on
  it. It gives `NothingStaleHolds`, and
  `AloneIsShownHolds`: only the end of a session with the same label takes a task off.
  The lemmas before it say what each method of the presenter does to the board
  (`Repainted`, `OnSessionEndOK`); the two about a board of one more and of one less
  (`WithOneMore`, `WithoutOne`) are what the properties hang on.
* With `Budgets` they give `TypeCorrect`.

**The queue's operators** (`SliceQueue_proofs`): what selecting, reconciling,
reading back and remediating does to any queue. They go along a sequence, and the library's
induction theorems take an operator, which no installed prover can instantiate. `WFMin`
is about a set instead, and gives `LeastNumber` (a set of numbers that is not empty has a
least one), from which `Induction` follows for sets. The functions `upTo` inside
`Only` and `Applied` are pinned down by showing that a function with their equation exists
(`SelectionExists`, `ApplicationExists`), and then by induction along it
(`OnlyFacts`, `AppliedFacts`).

**SliceLife** (`SliceLife_proofs`), in any order of operations:

* `ProposalsAreRepaired`, with no assumption.
* `DesignSlicesAreUnique`, when the sections of each design have different ids
  (`DistinctIds`).
* `NothingIsStranded`, for designs whose dependencies exist and have no cycle, with ids
  that survive the file (`WorkableDesigns`). The invariant is `Workable`: there is a rank
  that goes down along the dependencies of pending slices, and a pending slice
  of least rank waits for something that is not pending.

**DeepLooper implements SliceLife** (`QueueUse_proofs`). `TypesAreCorrect` and
`AttemptsAreBounded` need no assumption, `QueueIsUsedWell` only that no write is torn: a
torn queue file is not one that any operation of the aggregate leaves. The chain
of invariants:

* `DesignInv`: wherever a design is read there is one.
* `Saved`: once a process has saved its start it finds a `state.json`, whatever an
  earlier crash left.
* `HoldInv`: what the slice loop holds is what is in the file, its current slice is
  being built there, and, without torn writes, there is a file from the slice loop on.
* `AttemptsInv`: in the file a slice has at most as many attempts as each Run counts that
  may be used next (the slice loop's, the pipeline loop's, the snapshot that a retry goes
  back to, the one a resume reads), plus what failures may have forgotten (`Forgotten`),
  and one more between the two writes of a requeue. Under best-effort a throw takes
  back all that the stage has counted, since the second attempt starts from the
  snapshot; a Run has never counted more than the cap (`RunsOK`), so that is the most
  it can forget, and it does so once for each throw.

**Progress** (`QueueUse_proofs`, `Implementation_proofs`, `Reviews_proofs`), each with no
assumption but those of its module: `EveryStepUsesUp` in each says `EveryStepCounts` for
every value of the constants. The lemma `NoEndlessDescent`, which is about numbers and not about
the code, says that a tuple of them cannot become
less for ever, so that no run takes infinitely many steps. It is proved from `LeastNumber`
(`LeastTuple`: among any tuples there is one with none below it, by narrowing them down
to those with the least number at each place in turn). What the measures need on top of
the types:

* in `DeepLooper`, `DescentInv`: the snapshot, the slice loop's Run and `state.json`
  count the backward loops as the pipeline loop does, or an escalation would be paid for
  on one Run and forgotten by the next; the slice that is being built is not done, or
  its attempt would not count; and only verify and accept ask for a remediation.
  That nothing goes beyond its cap is `RunsOK`. A crash may bring back a Run with lower
  counts, and pays with the environment's budget.
* in `Implementation`, `CourseInv`: a wave is a part of the tasks that are not completed and
  is not empty, whatever circles and unknown dependencies the specs have, or the fallback
  of the planner would go round for nothing; what is being merged is of the wave; and
  the loops of other tasks stand still.
* in `Reviews`, that entries and rejections stay within their bounds (`BudgetInv`). The
  questions are finitely many (`QuestionAssumption`), as a file holds no others.

Together with weak fairness (`OnItsOwn`, or `Program`) this is what makes `Terminates`,
`CallsReturn` and `StageEnds` true. The last step, that a process which can go on does so, is about ENABLED
and stays with TLC, which checks the three as well.

**What the queue contains** (`QueueContents_proofs`), under any failure policy:

* `FitInv` gives `QueueFitsDesign`, without torn writes (`StateKept`: once there is a
  queue there is a `state.json`, or the flag could be lost with it): each of three Runs
  either has the flag or names a stage behind design, and then the queue fits it. It
  holds until something is remediated; after that an older design's slice may have been
  reopened.
* `UniqueInv` gives `NothingDoneIsLost`, without torn writes, which lose all: ids are
  unique in the file, so that no step on one slice undoes another. It assumes that
  designs name their sections apart (`UniqueSections`) and of every step of the run
  that a remediation adds slices with ids of their own (`FreshIds`, a hypothesis on the
  behaviour and not on the constants, so that it covers any number of remediations):
  nothing in the code makes the reflector's ids unique, and when two slices share one,
  marking one of them unmarks the other (`slice-queue.ts:271`, section 8). Until the first
  remediation ids are unique without that (`OnceInv`).
* `SteadyInv` gives `BuildsWhatIsReady`: the dependencies of what is ready or being
  built are done in the file, under `UniqueSections`. A torn write takes
  the queue with all that is ready in it, so it does no harm here.
* `CourseInv` gives `LateStagesFindAllDone` and `CompletedRunCoversDesign`, under
  `WorkableDesigns`: outside the slice loop the queue is clean (nothing is being built or
  escalated) and has every section of the design, or the Run has the flag; inside,
  only the current slice is not clean; behind it all is done until a remediation.
  That the loop passes only when all is done is `NothingLeft`, from the rank above.
  It holds until something fails; after a crash it is false, which is finding 1.

**Only model-checked**: liveness, for which TLAPS has no rules here (`Terminates`,
`NothingLeftBuilding`, `CallsReturn`, `StageEnds`, `DispatchEnds`). Of the
first four of these the safety core is proved: of `Terminates`, `CallsReturn` and
`StageEnds` `EveryStepCounts`; `NothingLeftBuilding` has none. Of `DispatchEnds` it is
`QueueIsAwaited`.

## 7. What is not modelled

* What agents say, beyond the verdicts that the code branches on; prompts,
  transcripts, the markdown of documents.
* Model routing, the markdown codec, record and replay, the build tool, clock and
  command runner: lookups, parsers, a test harness and wrappers without state of
  their own. Of telemetry the rendering of `run-log.md` and
  `metrics-summary.md` and the mapping of fields; of the live UI the lines painted,
  toasts and the progress reporter; of the dispatcher the session's options, the texts and
  `dispatchChain`, which nobody calls.
* The reflector's calls in verify and accept: in `DeepLooper` as what they may
  write and return.
* The phase directories of an earlier call: that the planner's check is satisfied by task
  specs of then (`slice-loop.ts:402-413`) is in `Implementation` as the specs that `StartCall` may
  take over, but no document says which specs a call is to have, and no property tells.
* The code reviewers of a wave: they call the dispatcher themselves and write records of another
  shape (`code-review.ts:31-52`), beside the ones of `dispatchLeaf` and
  `dispatchGenericCoding` that `Dispatch` has. `LogMatchesCalls` says nothing of them; their
  sessions end and their records take turns as the others' do.
* Two recorders at once: a run that has ended by a throw leaves dispatches behind that
  still append, and one resumed in the same host makes a recorder of its own for
  the same file. `Dispatch` has the first half (`Stop` stops nothing) and ends there.
  Nor is it modelled that such dispatches paint the dashboard of a run that is over,
  beyond what `NothingStale` says of the strip, the box and the board.
* The file system below a file: a write is whole, absent, or (with `TornWrites`)
  empty. Renames and directories are left out.
* Two processes on one run: the code does not guard against it and does not claim to.
* In `Implementation`, what the agents of a wave still write after the call has
  thrown; nobody stops them, but the next call makes their worktrees anew.

## 8. Findings

Five statements of the repository that a run refutes:

1. **A crash while a slice is built ends in verify with that slice unbuilt**
   (`stuck_building`). `selectNextReady` returns ready slices only
   (`src/application/stage/slice-loop.ts:111`), so a slice that was `building` when the
   process died is never taken again. If nothing else is ready, the loop returns PASS with
   "Slice queue exhausted".
2. **The reconcile flag comes back** (`reconcile_flag`). It is cleared on a Run of
   its own (`slice-loop.ts:105`), and the slice loop's next save writes the
   snapshot's, where it is still set. The next entry reconciles again and drops
   the remediation slices that verify or accept have added.
3. **An automatic retry takes counts back** (`stale_retry`). It runs the stage on the
   snapshot made before the first attempt (`src/application/pipeline/stage-runner.ts:45`), so the saves of the second
   attempt lose the requeue counts of the first one. Backward loops stay bounded even so.
4. **A redesign that cannot be parsed passes the slice loop** (`unparsed_redesign`).
   The check for zero slices is on the branch that builds the queue
   (`slice-loop.ts:66`), not on the one that reconciles it.
5. **Sessions that run are not shown** (`hidden_sessions`). The strip and the box are to be
   visible while sessions are active (`live-activity-presenter.ts:6-7`), but
   sessions are kept by correlation id, and the tasks of a wave all
   have the id `generic` (`utils.ts:90`; the fast-implementation agents pass
   no task). The end of the first takes the others off the screen. A session that
   shares its id with no other is shown for as long as it runs (`AloneIsShown`).

Other differences that reading the code against its documents and comments has
brought up, and that the models have as the code has them:

* What a failure or a second round leaves behind: the slice loop saves an escalated slice
  (`slice-loop.ts:269`) before it returns the escalation, so after a crash between the two the
  resumed loop finds nothing ready and passes, and the escalation of `slice-loop.ts:13` is
  never made. Inference reads `stage9-summary.md` whatever the queue says
  (`state-reconstruction.ts:121-128`), so after a remediation and a torn `state.json` the PASS of the
  round before leads on to accept, although line 112 has an unfinished loop resumed.
  A scaffold that is built anew and carried forward replaces the queue by the new design's slices
  (`skeleton.ts:226-233`), with what was completed before, where `docs/mental-model.md:80` has
  backward loops delete no completed work. Accept writes its results only when there are
  none (`accept.ts:141`), so unless the agent writes over those of a failure, the pass that
  follows is not on file and inference never finds accept done; `docs/mental-model.md:132` has
  the stage write them. When every criterion of a remediation has an owner, the owner of
  the first is reopened (`slice-queue.ts:464-466`), whoever owns the others, where
  `slice-queue.ts:230-231` wants one slice that owns all of them.
* Pipeline and resume: the design stage does not clear `pendingReconcile` as
  `docs/mental-model.md:103` has it, the slice loop does
  (`outcome-interpreter.ts:33`). A structure review at its cap still loops back when
  best-effort softens it (`skeleton.ts:297`, `README.md:98`). Inference reads the verdict of
  verify with a wider pattern than verify does (`state-reconstruction.ts:190-195`,
  `verify.ts:202-208`); the models have one verdict. Nothing bounds the rounds of verify or accept
  and remediation (`verify.ts:105-174`), where everything else that goes back has a cap.
* Queue: a slice that waits for a reopened dependency and is `ready` already stays
  ready (`slice-queue.ts:132-143`). An id with a dot does not come back from the file
  (`slice-queue.ts:63`). The reflector may use an `R-NNN` id again, and every mutation
  rewrites all slices with an id (`slice-queue.ts:271`). Phase directories are numbered
  by the position in the design, so that a redesigned slice may share that of another
  (`slice-queue.ts:577`).
* Implementation: the planner's check is satisfied by the specs of an earlier call
  (`slice-loop.ts:402-413`). A code reviewer whose session failed blocks
  nothing (`code-review.ts:70`). Two specs with one id are counted twice by the
  wave planner (`wave-planner.ts:10`). The result of `createRunBranch` is not looked at
  (`version-control.ts:280-282`).
* Reviews: a dismissed gate counts as approval (`goals.ts:248`). The rejected
  artifact that the next draft is given is the first draft, not the one that was
  rejected (`goals.ts:206-213`, `agents/dl-goals-synthesizer.md:25`). Rewrites do not
  get the gate's earlier feedback (`synthesize-review-gate-workflow.ts:216-222`,
  `agents/dl-design-synthesizer.md:29`). A failed design synthesizer is not
  noticed and its empty text becomes `design.md`
  (`synthesize-review-gate-workflow.ts:74-83`). A research synthesizer that
  declares failure counts as a review cap without any review
  (`research-pass.ts:94-101`, `research.ts:30`), which best-effort then softens. A summary of an
  earlier entry is accepted when the synthesizer writes none
  (`research-pass.ts:448-456`). A failed dispatch in the skeleton's
  structure loop is returned as its cap (`skeleton.ts:302`), where goals and research
  distinguish them (`goals.ts:185`, `research.ts:30`); both escalate, so nothing comes of it. A
  `structure.md` that never passed its review lets the next entry of the skeleton pass
  (`skeleton.ts:50`).
* Event log: a file with one line that does not parse, which a failed write or a crash leaves,
  is emptied by the next process, and all its events with it
  (`telemetry-recorder.ts:31`). After a read that failed, an append writes a file of one line
  (`telemetry-recorder.ts:63`).
