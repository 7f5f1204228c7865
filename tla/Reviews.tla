------------------------------ MODULE Reviews ------------------------------
(***************************************************************************)
(* What happens inside the stages that write a document and have it        *)
(* reviewed: goals and design (application/stage/goals, application/       *)
(* workflow/synthesize-review-gate-workflow, both over application/        *)
(* workflow/agent-review-loop), and research (application/stage/questions  *)
(* and research-pass).                                                     *)
(*                                                                         *)
(* A document is written, reviewed and rewritten until its reviewer passes *)
(* it or the rounds are over; goals and design then ask the operator, who  *)
(* may send the whole stage round again.  The skeleton (application/stage/ *)
(* skeleton) first builds a scaffold, in rounds of its own, and merges it. *)
(* A stage is entered again after a crash or when the run loops back to    *)
(* it, and what it wrote before is still on disk.  The agents are          *)
(* external: they may answer anything, run out of time, or fail, and they  *)
(* write only what they are asked to.                                      *)
(***************************************************************************)
EXTENDS Integers, FiniteSetsExt, Progress

CONSTANTS Text,        \* what an agent may write, the empty text included
          Question,    \* the research questions, in their order
          Web,         \* those that are answered from the web
          Rounds,      \* the rounds of a review loop
          MaxEntries,  \* bounds how often the stage is entered
          MaxRejections \* bounds how often the operator rejects

ASSUME TextAssumption == Text \subseteq Nat \ {0}
ASSUME QuestionAssumption == /\ Question \subseteq Nat /\ IsFiniteSet(Question)
                              /\ Web \subseteq Question
ASSUME BoundsAssumption == /\ Rounds \in Nat \ {0}
                           /\ MaxEntries \in Nat /\ MaxRejections \in Nat

MaxTransientRetries == 1

NoText == 0
Texts == Text \cup {NoText}

VARIABLES
  stage,      \* which stage this is
  gates,      \* the interaction mode and the failure policy
  disk,       \* the stage's documents on disk
  merged,     \* of each scaffold merged into the run branch: whether it built
  scaffold,   \* the skeleton's worktree and what it is to become
  origin,     \* of each answer: the questions it was written for, its evidence
  pc,         \* where the stage is
  round,      \* the round of the review loop
  attempt,    \* transient failures of the current dispatch
  todo,       \* the questions whose answers are to be written
  flagged,    \* noEvidenceIds: the answers without evidence
  shown,      \* the documents as the last reviewer was shown them
  verdict,    \* what that reviewer said
  rejections, \* how often the operator has rejected
  entries,    \* how often the stage has been entered
  outcome     \* what the stage returned

fixed == <<stage, gates>>
loop == <<round, attempt, todo, flagged>>
reviewed == <<shown, verdict>>
work == <<merged, scaffold>>
vars == <<fixed, disk, origin, work, pc, loop, reviewed, rejections, entries, outcome>>

-----------------------------------------------------------------------------
(***************************************************************************)
(* State.                                                                  *)
(***************************************************************************)

Stage == {"goals", "design", "research", "skeleton"}
Gates == [interactive : BOOLEAN, failClosed : BOOLEAN]

\* goals.md, design.md or structure.md; questions.md, the findings and
\* research/summary.md; and whether slice-queue.md has all slices done.
Documents == [draft : Texts, questions : Texts, answers : [Question -> Texts],
              summary : Texts, allDone : BOOLEAN]

\* Whether the project is tiny, the last build passed, and what was built
\* beyond the scaffold is carried forward as the finished slices.
Scaffold == [tiny : BOOLEAN, built : BOOLEAN, carried : BOOLEAN]

Origin == [about : Texts, evidence : BOOLEAN]

Pc == {"interview", "discussion", "draft", "generate", "vet", "answers", "review", "rewrite",
       "gate", "structure", "build", "inspect", "merge", "carry", "map", "done"}

Verdict == {"none", "PASS", "FAIL"}
Outcome == [status : {"none", "PASS", "FAIL"}, capped : BOOLEAN, noEvidence : BOOLEAN]

NoDocuments == [draft |-> NoText, questions |-> NoText,
                answers |-> [q \in Question |-> NoText], summary |-> NoText, allDone |-> FALSE]
NoScaffold == [tiny |-> FALSE, built |-> FALSE, carried |-> FALSE]
NotReturned == [status |-> "none", capped |-> FALSE, noEvidence |-> FALSE]

\* Mutant: the documents are read once, before the first round.
ShownOnce == IF round = 1 THEN disk ELSE shown

\* What a reviewer is shown: the documents are read anew in every round.
Shown == disk

\* Mutant: the questions whose answers are on disk already are skipped.
ToAnswerMissing == {q \in Question : disk.answers[q] = NoText}

\* Every question is researched when the stage is entered.
ToAnswer == Question

\* Mutant: a revised answer keeps the flag of the one it replaces.
FlagsKept(fs, q, evidence) == IF evidence THEN fs ELSE fs \cup {q}

\* An answer with evidence takes the flag of its question back.
Flags(fs, q, evidence) == IF evidence THEN fs \ {q} ELSE fs \cup {q}

\* Mutant: the first attempt is not counted.
MayRetryLate(n) == n <= MaxTransientRetries

\* One more attempt after a transient failure.
MayRetry(n) == n < MaxTransientRetries

\* Mutant: a rewriting does not end the round.
SameRound == round

\* A rewriting ends the round.
NextRound == round + 1

\* Mutant: what is built beyond the scaffold is accepted though it fails.
MayCarryFailed == scaffold.tiny

\* What a build adds beyond the scaffold is accepted in a tiny project.
MayCarry == scaffold.tiny /\ scaffold.built

Init == /\ stage \in Stage
        /\ gates \in Gates
        /\ disk = NoDocuments
        /\ origin = [q \in Question |-> [about |-> NoText, evidence |-> TRUE]]
        /\ merged = {} /\ scaffold = NoScaffold
        /\ pc = "done"
        /\ round = 0 /\ attempt = 0 /\ todo = {} /\ flagged = {}
        /\ shown = NoDocuments /\ verdict = "none"
        /\ rejections = 0 /\ entries = 0
        /\ outcome = NotReturned

-----------------------------------------------------------------------------
(***************************************************************************)
(* Entering, returning, and transient failures.                            *)
(***************************************************************************)

\* An operator is asked for preferences before every draft of the design.
AskOrDraft == IF stage = "design" /\ gates.interactive THEN "discussion" ELSE "draft"

First == CASE stage = "goals"    -> "interview"
           [] stage = "research" -> "generate"
           [] stage = "skeleton" -> "structure"
           [] OTHER              -> AskOrDraft

\* The stage is run: the first time, after it returned, or in a new process
\* after a crash.  Only the documents are left of what it did before.
Enter == /\ entries < MaxEntries
         /\ entries' = entries + 1
         /\ pc' = First
         /\ round' = IF stage = "research" THEN 1 ELSE 0
         /\ attempt' = 0 /\ todo' = {} /\ flagged' = {}
         /\ shown' = NoDocuments /\ verdict' = "none"
         /\ outcome' = NotReturned
         /\ scaffold' = NoScaffold
         /\ UNCHANGED <<fixed, disk, origin, merged, rejections>>

Return(status, capped, noEvidence) ==
  /\ pc' = "done"
  /\ outcome' = [status |-> status, capped |-> capped, noEvidence |-> noEvidence]

\* The interview, and what a review loop of the goals or of the structure
\* dispatches, are tried again after a timeout or a session error, without
\* counting a round.
Retry == /\ stage \in {"goals", "skeleton"}
         /\ pc \in {"interview", "map", "review", "rewrite"}
         /\ MayRetry(attempt)
         /\ attempt' = attempt + 1
         /\ UNCHANGED <<fixed, disk, origin, work, pc, round, todo, flagged, reviewed, rejections, entries, outcome>>

\* Missing evidence is not reported by a first pass that an agent breaks off.
FirstAnswers == pc = "answers" /\ round = 0 /\ todo # {}

\* An agent fails for good, and the stage with it: any agent but those of the
\* design, which are not asked whether they failed, and an interviewer under
\* best-effort.  A synthesizer of the research may have written its summary.
\* The skeleton takes a failure in its review loop for one at the cap.
AgentFails ==
  /\ \/ stage = "goals" /\ pc \in {"draft", "review", "rewrite"}
     \/ stage = "goals" /\ pc = "interview" /\ gates.failClosed
     \/ stage = "research" /\ pc # "done"
     \/ stage = "skeleton" /\ pc \in {"inspect", "map", "review", "rewrite"}
  /\ \E s \in Texts :
       /\ s = disk.summary \/ (pc = "answers" /\ todo = {} /\ s # NoText)
       /\ disk' = [disk EXCEPT !.summary = s]
  /\ Return("FAIL", stage = "skeleton" /\ pc # "inspect", flagged # {} /\ ~FirstAnswers)
  /\ UNCHANGED <<fixed, origin, work, loop, reviewed, rejections, entries>>

-----------------------------------------------------------------------------
(***************************************************************************)
(* Goals, design and structure.                                                *)
(***************************************************************************)

\* The branches that the interview leaves open are filled in or fail it,
\* depending on the failure policy: the latter is AgentFails.
Interview == /\ pc = "interview"
             /\ pc' = "draft"
             /\ attempt' = 0
             /\ UNCHANGED <<fixed, disk, origin, work, round, todo, flagged, reviewed, rejections, entries, outcome>>

Discuss == /\ pc = "discussion"
           /\ pc' = "draft"
           /\ UNCHANGED <<fixed, disk, origin, work, loop, reviewed, rejections, entries, outcome>>

WriteDraft == \E t \in Text : disk' = [disk EXCEPT !.draft = t]

\* The document is written anew, and a review loop starts.  An agent of the
\* design that failed leaves whatever text it returned.
Draft == /\ pc = "draft"
         /\ WriteDraft
         /\ pc' = "review"
         /\ round' = 1 /\ attempt' = 0
         /\ UNCHANGED <<fixed, origin, work, todo, flagged, reviewed, rejections, entries, outcome>>

Judge(v) == /\ pc = "review"
            /\ shown' = Shown
            /\ verdict' = v

ReviewPasses ==
  /\ stage # "research" /\ Judge("PASS")
  /\ IF gates.interactive /\ stage # "skeleton"
       THEN pc' = "gate" /\ UNCHANGED outcome
       ELSE Return("PASS", FALSE, FALSE)
  /\ UNCHANGED <<fixed, disk, origin, work, loop, rejections, entries>>

\* At the cap the document stays as it is, and so does the loop.
ReviewFails ==
  /\ stage # "research" /\ Judge("FAIL")
  /\ attempt' = 0
  /\ IF round = Rounds THEN Return("FAIL", TRUE, FALSE)
                       ELSE pc' = "rewrite" /\ UNCHANGED outcome
  /\ UNCHANGED <<fixed, disk, origin, work, round, todo, flagged, rejections, entries>>

Rewrite == /\ pc = "rewrite"
           /\ WriteDraft
           /\ pc' = "review"
           /\ round' = NextRound /\ attempt' = 0
           /\ UNCHANGED <<fixed, origin, work, todo, flagged, reviewed, rejections, entries, outcome>>

\* The operator approves, or dismisses the question.
Approve == /\ pc = "gate"
           /\ Return("PASS", FALSE, FALSE)
           /\ UNCHANGED <<fixed, disk, origin, work, loop, reviewed, rejections, entries>>

\* A rejection sends the stage back to its draft; without feedback it fails a
\* stage that fails closed.
Reject == /\ pc = "gate"
          /\ rejections < MaxRejections
          /\ rejections' = rejections + 1
          /\ \/ pc' = AskOrDraft /\ UNCHANGED outcome
             \/ gates.failClosed /\ Return("FAIL", FALSE, FALSE)
          /\ UNCHANGED <<fixed, disk, origin, work, loop, reviewed, entries>>

-----------------------------------------------------------------------------
(***************************************************************************)
(* The skeleton: build, inspection, merge, and the structure.              *)
(***************************************************************************)

\* structure.md is there, and so are the files it says are to be created.
EarlyPass == /\ pc = "structure"
             /\ disk.draft # NoText
             /\ Return("PASS", FALSE, FALSE)
             /\ UNCHANGED <<fixed, disk, origin, work, loop, reviewed, rejections, entries>>

StartBuild == /\ pc = "structure"
              /\ pc' = "build"
              /\ round' = 1
              /\ \E tiny \in BOOLEAN : scaffold' = [scaffold EXCEPT !.tiny = tiny]
              /\ UNCHANGED <<fixed, disk, origin, merged, attempt, todo, flagged, reviewed,
                             rejections, entries, outcome>>

\* One implementation loop in the worktree; the reviewer looks at a failure too.
Build == /\ pc = "build"
         /\ pc' = "inspect"
         /\ \E built \in BOOLEAN : scaffold' = [scaffold EXCEPT !.built = built]
         /\ UNCHANGED <<fixed, disk, origin, merged, loop, reviewed, rejections, entries, outcome>>

\* The scaffold is as it should be, or more and accepted as that.
Accept == /\ pc = "inspect"
          /\ pc' = "merge"
          /\ \E more \in BOOLEAN : /\ more => MayCarry
                                   /\ scaffold' = [scaffold EXCEPT !.carried = more]
          /\ UNCHANGED <<fixed, disk, origin, merged, loop, reviewed, rejections, entries, outcome>>

\* The scaffold is broken, which is the design's fault; or it is more than one,
\* and is reduced while rounds are left.
Refuse == /\ pc = "inspect"
          /\ \/ Return("FAIL", FALSE, FALSE) /\ UNCHANGED round
             \/ ~MayCarry /\ round < Rounds
                /\ pc' = "build" /\ round' = NextRound /\ UNCHANGED outcome
          /\ UNCHANGED <<fixed, disk, origin, work, attempt, todo, flagged, reviewed,
                         rejections, entries>>

\* What is merged joins what the run branch has.
Merged == merged \cup {scaffold.built}

\* The structure is mapped unless an earlier entry has left one.
ToReview == pc' = IF disk.draft = NoText THEN "map" ELSE "review"

Merge == /\ pc = "merge"
         /\ merged' = Merged
         /\ round' = 1 /\ attempt' = 0
         /\ IF scaffold.carried THEN pc' = "carry" ELSE ToReview
         /\ UNCHANGED <<fixed, disk, origin, scaffold, todo, flagged, reviewed,
                        rejections, entries, outcome>>

Conflict == /\ pc = "merge"
            /\ Return("FAIL", FALSE, FALSE)
            /\ UNCHANGED <<fixed, disk, origin, work, loop, reviewed, rejections, entries>>

\* All slices of the design are written down as done.
Carry == /\ pc = "carry"
         /\ disk' = [disk EXCEPT !.allDone = TRUE]
         /\ ToReview
         /\ UNCHANGED <<fixed, origin, work, loop, reviewed, rejections, entries, outcome>>

\* A retry after this does not map again.
Map == /\ pc = "map"
       /\ WriteDraft
       /\ pc' = "review"
       /\ UNCHANGED <<fixed, origin, work, loop, reviewed, rejections, entries, outcome>>

-----------------------------------------------------------------------------
(***************************************************************************)
(* Research: questions, answers, summary.                                  *)
(***************************************************************************)

Generate == /\ pc = "generate"
            /\ \E t \in Text : disk' = [disk EXCEPT !.questions = t]
            /\ pc' = "vet"
            /\ UNCHANGED <<fixed, origin, work, loop, reviewed, rejections, entries, outcome>>

\* Both reviewers of the questions pass them, and the research starts.
QuestionsPass == /\ pc = "vet"
                 /\ pc' = "answers"
                 /\ round' = 0 /\ todo' = ToAnswer
                 /\ UNCHANGED <<fixed, disk, origin, work, attempt, flagged, reviewed, rejections, entries, outcome>>

QuestionsFail ==
  /\ pc = "vet"
  /\ IF round = Rounds THEN Return("FAIL", FALSE, FALSE) /\ UNCHANGED round
                       ELSE pc' = "generate" /\ round' = round + 1 /\ UNCHANGED outcome
  /\ UNCHANGED <<fixed, disk, origin, work, attempt, todo, flagged, reviewed, rejections, entries>>

\* The questions are answered one after the other.
Answer ==
  /\ pc = "answers" /\ todo # {}
  /\ \E q \in todo, t \in Text, evidence \in BOOLEAN :
       /\ \A p \in todo : q <= p
       /\ q \notin Web => evidence
       /\ disk' = [disk EXCEPT !.answers[q] = t]
       /\ origin' = [origin EXCEPT ![q] = [about |-> disk.questions, evidence |-> evidence]]
       /\ flagged' = Flags(flagged, q, evidence)
       /\ todo' = todo \ {q}
  /\ UNCHANGED <<fixed, work, pc, round, attempt, reviewed, rejections, entries, outcome>>

\* The synthesizer writes the summary or leaves an older one, and a review
\* follows; or it says itself that it failed, which counts as a cap.
Summarize ==
  /\ pc = "answers" /\ todo = {}
  /\ \E s \in Text \cup {disk.summary} :
       /\ disk' = [disk EXCEPT !.summary = s]
       /\ \/ /\ s # NoText
             /\ pc' = "review"
             /\ round' = NextRound
             /\ UNCHANGED outcome
          \/ Return("FAIL", TRUE, flagged # {}) /\ UNCHANGED round
  /\ UNCHANGED <<fixed, origin, work, attempt, todo, flagged, reviewed, rejections, entries>>

ResearchPasses ==
  /\ stage = "research" /\ Judge("PASS")
  /\ Return("PASS", FALSE, flagged # {})
  /\ UNCHANGED <<fixed, disk, origin, work, loop, rejections, entries>>

\* The reviewer finds what it has been shown in the round before.
NoProgress == round > 1 /\ disk = shown

\* The reviewer names the answers that are to be revised.
ResearchFails ==
  /\ stage = "research" /\ Judge("FAIL")
  /\ IF NoProgress \/ round = Rounds
       THEN Return("FAIL", TRUE, flagged # {}) /\ UNCHANGED todo
       ELSE todo' \in SUBSET Question /\ pc' = "answers" /\ UNCHANGED outcome
  /\ UNCHANGED <<fixed, disk, origin, work, round, attempt, flagged, rejections, entries>>

-----------------------------------------------------------------------------
(***************************************************************************)
(* The specification.                                                      *)
(***************************************************************************)

Authors == \/ Interview \/ Draft \/ ReviewPasses \/ ReviewFails \/ Rewrite
Research == \/ Generate \/ QuestionsPass \/ QuestionsFail \/ Answer \/ Summarize
            \/ ResearchPasses \/ ResearchFails
Operator == Discuss \/ Approve \/ Reject

Skeleton == \/ EarlyPass \/ StartBuild \/ Build \/ Accept \/ Refuse \/ Merge \/ Conflict
            \/ Carry \/ Map

Program == Authors \/ Research \/ Skeleton \/ Retry \/ AgentFails

Terminated == /\ pc = "done" /\ entries = MaxEntries
              /\ UNCHANGED vars

Next == Enter \/ Program \/ Operator \/ Terminated

Spec == Init /\ [][Next]_vars

\* Every dispatch comes back, and the stage runs on.  Nobody has to answer a
\* question or to enter the stage.
FairSpec == Spec /\ WF_vars(Program)

-----------------------------------------------------------------------------
(***************************************************************************)
(* Properties.                                                             *)
(***************************************************************************)

\* Every variable holds a value of the kind the code keeps there, and neither
\* the rounds nor the retries of a dispatch exceed their caps.
TypeOK == /\ stage \in Stage /\ gates \in Gates
          /\ disk \in Documents /\ shown \in Documents
          /\ merged \subseteq BOOLEAN /\ scaffold \in Scaffold
          /\ origin \in [Question -> Origin]
          /\ pc \in Pc
          /\ round \in 0..Rounds /\ attempt \in 0..MaxTransientRetries
          /\ todo \subseteq Question /\ flagged \subseteq Question
          /\ verdict \in Verdict
          /\ rejections \in Nat /\ entries \in Nat
          /\ outcome \in Outcome

\* A skeleton that builds nothing has found the structure of an earlier entry.
FoundStructure == stage = "skeleton" /\ round = 0

\* What a stage passes, or stops with at its cap (which best-effort lets pass
\* as PARTIAL), is what its last reviewer was shown, word for word, and a pass
\* is that reviewer's: through retries, rewritings, rejections at the gate,
\* and documents left over from an earlier entry.  The exceptions are a
\* structure that was found, a research that its own synthesizer gave up, and
\* a skeleton whose agents failed: it calls that a cap, and escalates.
ReturnedIsReviewed ==
  /\ outcome.status = "PASS" /\ ~FoundStructure => verdict = "PASS" /\ disk = shown
  /\ outcome.capped /\ stage \in {"goals", "design"} => verdict = "FAIL" /\ disk = shown

\* Later entries take structure.md for the scaffold being there, and the slice
\* loop takes an all-done queue for all the work: neither is on disk, and no
\* skeleton passes, before a scaffold is on the run branch, and the queue not
\* before one whose build passed; whatever crash, conflict, failed build or
\* failed review an entry ends with.
StandsOnScaffold ==
  stage = "skeleton" =>
    /\ disk.draft # NoText \/ outcome.status = "PASS" => merged # {}
    /\ disk.allDone => TRUE \in merged

\* A research that passes reports missing evidence if and only if an answer
\* on disk is without it, however often the answers have been revised.
EvidenceIsReported ==
  stage = "research" /\ outcome.status = "PASS" =>
    (outcome.noEvidence <=> \E q \in Question : ~origin[q].evidence)

\* A research that passes has answered the questions it has now, though the
\* answers to those of an earlier entry were on disk when it began.
AnswersAreCurrent ==
  stage = "research" /\ outcome.status = "PASS" =>
    \A q \in Question : origin[q].about = disk.questions

-----------------------------------------------------------------------------
(***************************************************************************)
(* Progress: what a stage has left to do, and its environment.             *)
(***************************************************************************)

EventsLeft == (MaxEntries - entries) + (MaxRejections - rejections)

\* The parts of an entry, each with rounds of its own: the operator's wishes,
\* the first document or the scaffold, its merge, and the review.
PartsFrom ==
  [interview |-> 4, discussion |-> 4, structure |-> 4,
   draft |-> 3, generate |-> 3, vet |-> 3, build |-> 3, inspect |-> 3, merge |-> 2,
   carry |-> 1, map |-> 1, review |-> 1, rewrite |-> 1, answers |-> 1, gate |-> 1, done |-> 0]

RoundsLeft == Rounds - round

\* The places of one round of a part.
PlacesFrom ==
  [interview |-> 0, discussion |-> 0, structure |-> 0,
   draft |-> 0, generate |-> 1, vet |-> 0, build |-> 1, inspect |-> 0, merge |-> 0,
   carry |-> 3, map |-> 2, review |-> 1, rewrite |-> 0, answers |-> 0, gate |-> 0, done |-> 0]

\* What is dispatched from one place: the answers that are to be written, and
\* one more attempt.
DispatchesLeft == Cardinality(todo) + (MaxTransientRetries - attempt)

Remaining == <<EventsLeft, PartsFrom[pc], RoundsLeft, PlacesFrom[pc], DispatchesLeft>>

\* Nothing goes round for nothing: every step leaves less of a tuple of
\* numbers that never go below zero.  A retry starts the dispatch over, a
\* failed review the writing, a merge the rounds, and a rejection the stage;
\* each uses up what none of the others gives back.
UsesUp == <<Remaining, Remaining'>> \in Descents(5)

EveryStepCounts == [][UsesUp]_vars

-----------------------------------------------------------------------------
(***************************************************************************)
(* Liveness.                                                               *)
(***************************************************************************)

\* A stage that is entered returns or waits for the operator, whatever its
\* agents answer.
StageEnds == (pc # "done") ~> (pc \in {"discussion", "gate", "done"})
=============================================================================
