--------------------------- MODULE Reviews_proofs ---------------------------
(***************************************************************************)
(* Proofs about Reviews, for any texts, questions, rounds and bounds.      *)
(*                                                                         *)
(* The argument: no document changes between a review and what follows     *)
(* from it, so what the last reviewer was shown is still on disk at the    *)
(* gate and when the stage returns (ReviewInv); and from the moment the    *)
(* questions are approved, an answer that has been written in this entry   *)
(* is about them and is flagged exactly if it is without evidence, and     *)
(* once the first pass is over every answer has been (AnswerInv).  The     *)
(* skeleton writes nothing that later entries rely on before its merge,    *)
(* and carries forward only what it has seen built (ScaffoldInv).  And of  *)
(* entries, parts of an entry, rounds, places and dispatches each is less  *)
(* after a step that leaves those before it as they are (Falls).           *)
(***************************************************************************)
EXTENDS Reviews, FiniteSetTheorems, TLAPS

USE DEF MaxTransientRetries, NoText

-----------------------------------------------------------------------------
(***************************************************************************)
(* Types.                                                                  *)
(***************************************************************************)

\* A document is only rewritten, and an answer only revised, when a round is left.
RoundsOK == pc \in {"rewrite", "answers"} => round < Rounds

TInv == TypeOK /\ RoundsOK

LEMMA ReturnType ==
  ASSUME NEW s \in {"PASS", "FAIL"}, NEW c \in BOOLEAN, NEW n \in BOOLEAN, Return(s, c, n)
  PROVE  pc' = "done" /\ outcome' \in Outcome
BY DEF Return, Outcome

LEMMA TInit == Init => TInv
<1> SUFFICES ASSUME Init PROVE TInv
  OBVIOUS
<1>1. NoDocuments \in Documents /\ NotReturned \in Outcome /\ NoScaffold \in Scaffold
  BY DEF NoDocuments, Documents, Texts, NotReturned, Outcome, NoScaffold, Scaffold
<1>2. origin \in [Question -> Origin]
  BY DEF Init, Origin, Texts
<1> QED
  BY <1>1, <1>2, BoundsAssumption DEF Init, TInv, TypeOK, RoundsOK, Pc, Verdict

LEMMA TNext == TInv /\ [Next]_vars => TInv'
<1> SUFFICES ASSUME TInv, [Next]_vars PROVE TInv'
  OBVIOUS
<1> USE BoundsAssumption DEF TInv, TypeOK, RoundsOK, Pc, Verdict, loop, fixed, reviewed, work
<1>1. CASE Enter
  <2>1. /\ NoDocuments \in Documents /\ NotReturned \in Outcome
        /\ NoScaffold \in Scaffold
    BY DEF NoDocuments, Documents, Texts, NotReturned, Outcome, NoScaffold, Scaffold
  <2> QED
    BY <1>1, <2>1 DEF Enter, First, AskOrDraft, Stage
<1>2. CASE Retry
  BY <1>2 DEF Retry, MayRetry
<1>3. CASE AgentFails
  <2>1. pc' = "done" /\ outcome' \in Outcome
    BY <1>3, ReturnType DEF AgentFails
  <2>2. disk' \in Documents
    BY <1>3 DEF AgentFails, Documents
  <2> QED
    BY <1>3, <2>1, <2>2 DEF AgentFails
<1>4. CASE Interview
  BY <1>4 DEF Interview
<1>5. CASE Discuss
  BY <1>5 DEF Discuss
<1>6. CASE Draft
  <2>1. disk' \in Documents
    BY <1>6 DEF Draft, WriteDraft, Documents, Texts
  <2> QED
    BY <1>6, <2>1 DEF Draft
<1>7. CASE Rewrite
  <2>1. disk' \in Documents
    BY <1>7 DEF Rewrite, WriteDraft, Documents, Texts
  <2> QED
    BY <1>7, <2>1 DEF Rewrite, NextRound
<1>8. CASE ReviewPasses
  <2>1. pc' \in {"gate", "done"} /\ outcome' \in Outcome
    BY <1>8, ReturnType DEF ReviewPasses
  <2> QED
    BY <1>8, <2>1 DEF ReviewPasses, Judge, Shown
<1>9. CASE ReviewFails
  <2>1. /\ pc' = "done" \/ (pc' = "rewrite" /\ round # Rounds)
        /\ outcome' \in Outcome
    BY <1>9, ReturnType DEF ReviewFails
  <2> QED
    BY <1>9, <2>1 DEF ReviewFails, Judge, Shown
<1>10. CASE Approve
  BY <1>10, ReturnType DEF Approve
<1>11. CASE Reject
  <2>1. pc' \in {"discussion", "draft", "done"} /\ outcome' \in Outcome
    BY <1>11, ReturnType DEF Reject, AskOrDraft
  <2> QED
    BY <1>11, <2>1 DEF Reject
<1>12. CASE Generate
  <2>1. disk' \in Documents
    BY <1>12 DEF Generate, Documents, Texts
  <2> QED
    BY <1>12, <2>1 DEF Generate
<1>13. CASE QuestionsPass
  BY <1>13 DEF QuestionsPass, ToAnswer
<1>14. CASE QuestionsFail
  <2>1. /\ pc' \in {"generate", "done"} /\ outcome' \in Outcome
        /\ round' \in 0..Rounds
    <3>1. CASE round = Rounds
      BY <1>14, <3>1, ReturnType DEF QuestionsFail
    <3>2. CASE round # Rounds
      BY <1>14, <3>2 DEF QuestionsFail
    <3> QED
      BY <3>1, <3>2
  <2> QED
    BY <1>14, <2>1 DEF QuestionsFail
<1>15. CASE Answer
  <2> PICK q \in todo, t \in Text, evidence \in BOOLEAN :
        /\ disk' = [disk EXCEPT !.answers[q] = t]
        /\ origin' = [origin EXCEPT ![q] = [about |-> disk.questions, evidence |-> evidence]]
        /\ flagged' = Flags(flagged, q, evidence)
        /\ todo' = todo \ {q}
    BY <1>15 DEF Answer
  <2>1. disk' \in Documents
    BY DEF Documents, Texts
  <2>2. origin' \in [Question -> Origin]
    BY DEF Documents, Origin
  <2>3. flagged' \subseteq Question /\ todo' \subseteq Question
    BY DEF Flags
  <2> QED
    BY <1>15, <2>1, <2>2, <2>3 DEF Answer
<1>16. CASE Summarize
  <2>1. disk' \in Documents
    BY <1>16 DEF Summarize, Documents, Texts
  <2>2. \/ pc' = "review" /\ round' = NextRound /\ outcome' = outcome
        \/ pc' = "done" /\ outcome' \in Outcome /\ round' = round
    BY <1>16, ReturnType DEF Summarize
  <2> QED
    BY <1>16, <2>1, <2>2 DEF Summarize, NextRound
<1>17. CASE ResearchPasses
  <2>1. pc' = "done" /\ outcome' \in Outcome
    BY <1>17, ReturnType DEF ResearchPasses
  <2> QED
    BY <1>17, <2>1 DEF ResearchPasses, Judge, Shown
<1>18. CASE ResearchFails
  <2>1. /\ pc' = "done" \/ (pc' = "answers" /\ round # Rounds)
        /\ outcome' \in Outcome /\ todo' \subseteq Question
    BY <1>18, ReturnType DEF ResearchFails
  <2> QED
    BY <1>18, <2>1 DEF ResearchFails, Judge, Shown
<1>19. CASE EarlyPass \/ Conflict
  <2>1. pc' = "done" /\ outcome' \in Outcome
    BY <1>19, ReturnType DEF EarlyPass, Conflict
  <2> QED
    BY <1>19, <2>1 DEF EarlyPass, Conflict
<1>20. CASE StartBuild \/ Build \/ Accept
  <2>1. scaffold' \in Scaffold
    BY <1>20 DEF StartBuild, Build, Accept, Scaffold
  <2> QED
    BY <1>20, <2>1 DEF StartBuild, Build, Accept
<1>21. CASE Refuse
  <2>1. /\ pc' \in {"build", "done"} /\ outcome' \in Outcome
        /\ round' \in 0..Rounds
    <3>1. CASE Return("FAIL", FALSE, FALSE) /\ UNCHANGED round
      BY <3>1, ReturnType
    <3>2. CASE round < Rounds /\ pc' = "build" /\ round' = NextRound /\ UNCHANGED outcome
      BY <3>2 DEF NextRound
    <3> QED
      BY <1>21, <3>1, <3>2 DEF Refuse
  <2> QED
    BY <1>21, <2>1 DEF Refuse
<1>22. CASE Merge
  <2>1. merged' \subseteq BOOLEAN
    BY <1>22 DEF Merge, Merged, Scaffold
  <2>2. pc' \in {"carry", "map", "review"}
    BY <1>22 DEF Merge, ToReview
  <2> QED
    BY <1>22, <2>1, <2>2 DEF Merge
<1>23. CASE Carry \/ Map
  <2>1. disk' \in Documents
    BY <1>23 DEF Carry, Map, WriteDraft, Documents, Texts
  <2> QED
    BY <1>23, <2>1 DEF Carry, Map, ToReview
<1>24. CASE UNCHANGED vars
  BY <1>24 DEF vars
<1> QED
  BY <1>1, <1>2, <1>3, <1>4, <1>5, <1>6, <1>7, <1>8, <1>9, <1>10, <1>11, <1>12, <1>13,
     <1>14, <1>15, <1>16, <1>17, <1>18, <1>19, <1>20, <1>21, <1>22, <1>23, <1>24
  DEF Next, Program, Authors, Research, Skeleton, Operator, Terminated

\* The reviews stay within their rounds, and the retries within their cap.
THEOREM RoundsAreBounded == Spec => []TypeOK
<1>1. TInv => TypeOK
  BY DEF TInv
<1> QED
  BY TInit, TNext, <1>1, PTL DEF Spec

-----------------------------------------------------------------------------
(***************************************************************************)
(* What was reviewed.                                                      *)
(***************************************************************************)

\* Research has steps of its own, and the others have theirs.
ResearchPc == {"generate", "vet", "answers"}
AuthorPc == {"interview", "discussion", "draft", "rewrite", "gate"}
SkeletonPc == {"structure", "build", "inspect", "merge", "carry", "map"}

PcOK == /\ pc \in ResearchPc => stage = "research"
        /\ pc \in AuthorPc => stage # "research"
        /\ pc \in SkeletonPc => stage = "skeleton"
        /\ pc \in {"interview", "discussion", "draft", "gate"} => stage \in {"goals", "design"}

\* Only a skeleton at its entrance has no round yet.
SkeletonRoundOK == /\ stage = "skeleton" /\ pc \notin {"structure", "done"} => round > 0
                   /\ pc = "structure" => round = 0

\* Nothing is returned before the stage is done.
OutcomeOK == pc # "done" => outcome = NotReturned

\* At the gate the operator sees what the reviewer has passed.
GateOK == pc = "gate" => verdict = "PASS" /\ disk = shown

ReviewInv == PcOK /\ SkeletonRoundOK /\ OutcomeOK /\ GateOK /\ ReturnedIsReviewed

LEMMA RInit == Init => ReviewInv
BY DEF Init, ReviewInv, PcOK, SkeletonRoundOK, OutcomeOK, GateOK, ReturnedIsReviewed,
       FoundStructure, NotReturned, ResearchPc, AuthorPc, SkeletonPc

\* A failure that is no cap, or the skeleton's, says nothing of the documents.
LEMMA PlainFailure ==
  ASSUME NEW c, NEW n, Return("FAIL", c, n), c => stage' = "skeleton"
  PROVE  ReviewInv'
BY DEF Return, ReviewInv, PcOK, SkeletonRoundOK, OutcomeOK, GateOK, ReturnedIsReviewed,
       FoundStructure, ResearchPc, AuthorPc, SkeletonPc

LEMMA RNext == TInv /\ ReviewInv /\ [Next]_vars => ReviewInv'
<1> SUFFICES ASSUME TInv, ReviewInv, [Next]_vars PROVE ReviewInv'
  OBVIOUS
<1> USE DEF ReviewInv, PcOK, SkeletonRoundOK, OutcomeOK, GateOK, ReturnedIsReviewed,
            FoundStructure, ResearchPc, AuthorPc, SkeletonPc,
            fixed, loop, reviewed, work
<1>a. round \in Nat
  BY BoundsAssumption DEF TInv, TypeOK
<1>1. CASE Enter
  BY <1>1 DEF Enter, First, AskOrDraft, NotReturned, TInv, TypeOK, Stage
<1>2. CASE Retry
  BY <1>2 DEF Retry
<1>3. CASE AgentFails
  <2> DEFINE c == stage = "skeleton" /\ pc # "inspect"
             n == flagged # {} /\ ~FirstAnswers
  <2>1. Return("FAIL", c, n) /\ stage' = stage
    BY <1>3 DEF AgentFails
  <2>2. c => stage' = "skeleton"
    BY <2>1
  <2> HIDE DEF c, n
  <2> QED
    BY <2>1, <2>2, PlainFailure
<1>4. CASE Interview
  BY <1>4 DEF Interview, NotReturned
<1>5. CASE Discuss
  BY <1>5 DEF Discuss, NotReturned
<1>6. CASE Draft \/ Rewrite \/ Generate
  <2>1. CASE Draft
    BY <2>1 DEF Draft, NotReturned
  <2>2. CASE Rewrite
    <3>1. round' > 0
      BY <2>2, <1>a DEF Rewrite, NextRound
    <3> QED
      BY <2>2, <3>1 DEF Rewrite, NotReturned
  <2>3. CASE Generate
    BY <2>3 DEF Generate, NotReturned
  <2> QED
    BY <1>6, <2>1, <2>2, <2>3
<1>7. CASE ReviewPasses
  BY <1>7 DEF ReviewPasses, Judge, Shown, Return, NotReturned, TInv, TypeOK, Stage
<1>8. CASE ReviewFails
  BY <1>8 DEF ReviewFails, Judge, Shown, Return, NotReturned
<1>9. CASE Approve
  BY <1>9 DEF Approve, Return
<1>10. CASE Reject
  <2>1. CASE pc' = AskOrDraft /\ UNCHANGED outcome
    BY <1>10, <2>1 DEF Reject, AskOrDraft, NotReturned
  <2>2. CASE Return("FAIL", FALSE, FALSE)
    BY <2>2, PlainFailure
  <2> QED
    BY <1>10, <2>1, <2>2 DEF Reject
<1>11. CASE QuestionsPass
  BY <1>11 DEF QuestionsPass, NotReturned
<1>12. CASE QuestionsFail
  <2>1. CASE Return("FAIL", FALSE, FALSE)
    BY <2>1, PlainFailure
  <2>2. CASE pc' = "generate" /\ UNCHANGED outcome
    BY <1>12, <2>2 DEF QuestionsFail, NotReturned
  <2> QED
    BY <1>12, <2>1, <2>2 DEF QuestionsFail
<1>13. CASE Answer
  BY <1>13 DEF Answer, NotReturned
<1>14. CASE Summarize
  BY <1>14 DEF Summarize, Return, NotReturned
<1>15. CASE ResearchPasses
  BY <1>15 DEF ResearchPasses, Judge, Shown, Return
<1>16. CASE ResearchFails
  BY <1>16 DEF ResearchFails, Judge, Shown, Return, NotReturned
<1>17. CASE EarlyPass
  BY <1>17 DEF EarlyPass, Return
<1>18. CASE StartBuild \/ Build \/ Accept \/ Carry \/ Map
  BY <1>18 DEF StartBuild, Build, Accept, Carry, Map, ToReview, NotReturned
<1>19. CASE Refuse
  <2>1. CASE Return("FAIL", FALSE, FALSE)
    BY <2>1, PlainFailure
  <2>2. CASE pc' = "build" /\ round' = NextRound /\ UNCHANGED outcome
    BY <1>19, <1>a, <2>2 DEF Refuse, NextRound, NotReturned
  <2> QED
    BY <1>19, <2>1, <2>2 DEF Refuse
<1>20. CASE Merge
  BY <1>20 DEF Merge, ToReview, NotReturned
<1>21. CASE Conflict
  BY <1>21, PlainFailure DEF Conflict
<1>22. CASE UNCHANGED vars
  BY <1>22 DEF vars
<1> QED
  BY <1>1, <1>2, <1>3, <1>4, <1>5, <1>6, <1>7, <1>8, <1>9, <1>10, <1>11, <1>12, <1>13,
     <1>14, <1>15, <1>16, <1>17, <1>18, <1>19, <1>20, <1>21, <1>22
  DEF Next, Program, Authors, Research, Skeleton, Operator, Terminated

\* What a stage passes, or stops with at its cap, is what its last reviewer
\* was shown.
THEOREM ReturnsWhatWasReviewed == Spec => []ReturnedIsReviewed
<1>1. ReviewInv => ReturnedIsReviewed
  BY DEF ReviewInv
<1> QED
  BY TInit, TNext, RInit, RNext, <1>1, PTL DEF Spec

-----------------------------------------------------------------------------
(***************************************************************************)
(* What stands on the scaffold.                                            *)
(***************************************************************************)

\* What is carried forward has passed its build, and nothing is written for
\* later entries before the merge.
ScaffoldOK ==
  stage = "skeleton" =>
    /\ pc = "merge" /\ scaffold.carried => scaffold.built
    /\ pc = "carry" => TRUE \in merged
    /\ pc \in {"carry", "map", "review", "rewrite"} => merged # {}

ScaffoldInv == ScaffoldOK /\ StandsOnScaffold

LEMMA SInit == Init => ScaffoldInv
BY DEF Init, ScaffoldInv, ScaffoldOK, StandsOnScaffold, NoDocuments, NotReturned

LEMMA SNext == TInv /\ ReviewInv /\ ScaffoldInv /\ [Next]_vars => ScaffoldInv'
<1> SUFFICES ASSUME TInv, ReviewInv, ScaffoldInv, [Next]_vars PROVE ScaffoldInv'
  OBVIOUS
<1> USE DEF ScaffoldInv, ScaffoldOK, StandsOnScaffold, fixed, loop, reviewed, work
<1>a. disk \in Documents /\ scaffold \in Scaffold
  BY DEF TInv, TypeOK
<1>b. pc # "done" => outcome.status = "none"
  BY DEF ReviewInv, OutcomeOK, NotReturned
<1>1. CASE Enter
  BY <1>1 DEF Enter, First, AskOrDraft, NotReturned
<1>2. CASE Retry
  BY <1>2 DEF Retry
<1>3. CASE AgentFails
  <2>1. pc' = "done" /\ outcome'.status = "FAIL" /\ UNCHANGED <<stage, merged>>
    BY <1>3 DEF AgentFails, Return
  <2>2. disk'.draft = disk.draft /\ disk'.allDone = disk.allDone
    BY <1>3, <1>a DEF AgentFails, Documents
  <2> QED
    BY <2>1, <2>2
<1>4. CASE Interview \/ Discuss \/ Draft \/ Approve \/ Reject \/ Generate \/ QuestionsPass
           \/ QuestionsFail \/ Answer \/ Summarize \/ ResearchPasses \/ ResearchFails
  <2>1. stage # "skeleton" /\ stage' = stage
    BY <1>4 DEF Interview, Discuss, Draft, Approve, Reject, Generate, QuestionsPass,
                QuestionsFail, Answer, Summarize, ResearchPasses, ResearchFails,
                ReviewInv, PcOK, ResearchPc, AuthorPc
  <2> QED
    BY <2>1
<1>5. CASE ReviewPasses \/ ReviewFails
  BY <1>5 DEF ReviewPasses, ReviewFails, Judge, Return
<1>6. CASE Rewrite \/ Map
  <2>1. disk'.allDone = disk.allDone
    BY <1>6, <1>a DEF Rewrite, Map, WriteDraft, Documents
  <2>2. pc' = "review" /\ (stage = "skeleton" => merged # {})
    BY <1>6 DEF Rewrite, Map
  <2> QED
    BY <1>6, <2>1, <2>2 DEF Rewrite, Map
<1>7. CASE EarlyPass
  BY <1>7 DEF EarlyPass, Return
<1>8. CASE StartBuild \/ Build
  BY <1>8 DEF StartBuild, Build
<1>9. CASE Accept
  <2>1. scaffold'.built = scaffold.built /\ (scaffold'.carried => scaffold.built)
    BY <1>9, <1>a DEF Accept, MayCarry, Scaffold
  <2> QED
    BY <1>9, <2>1 DEF Accept
<1>10. CASE Refuse \/ Conflict
  <2>1. pc' \in {"build", "done"} /\ outcome'.status # "PASS"
    BY <1>10, <1>b DEF Refuse, Conflict, Return
  <2> QED
    BY <1>10, <2>1 DEF Refuse, Conflict
<1>11. CASE Merge
  <2>1. /\ merged' # {} /\ (TRUE \in merged => TRUE \in merged')
        /\ stage = "skeleton" /\ scaffold.carried => TRUE \in merged'
    BY <1>11, <1>a DEF Merge, Merged, Scaffold
  <2>2. pc' \in {"carry", "map", "review"} /\ (pc' = "carry" => scaffold.carried)
    BY <1>11 DEF Merge, ToReview
  <2> QED
    BY <1>11, <2>1, <2>2 DEF Merge
<1>12. CASE Carry
  <2>1. disk'.draft = disk.draft
    BY <1>12, <1>a DEF Carry, Documents
  <2> QED
    BY <1>12, <2>1, <1>b DEF Carry, ToReview
<1>13. CASE UNCHANGED vars
  BY <1>13 DEF vars
<1> QED
  BY <1>1, <1>2, <1>3, <1>4, <1>5, <1>6, <1>7, <1>8, <1>9, <1>10, <1>11, <1>12, <1>13
  DEF Next, Program, Authors, Research, Skeleton, Operator, Terminated

\* structure.md, an all-done queue and a passing skeleton stand on a merged
\* scaffold, the queue on one whose build passed.
THEOREM SkeletonIsMerged == Spec => []StandsOnScaffold
<1>1. ScaffoldInv => StandsOnScaffold
  BY DEF ScaffoldInv
<1> QED
  BY TInit, TNext, RInit, RNext, SInit, SNext, <1>1, PTL DEF Spec

-----------------------------------------------------------------------------
(***************************************************************************)
(* Answers and their evidence.                                             *)
(***************************************************************************)

\* The answer is about the questions on disk, and flagged as it should be.
Current(q) == /\ origin[q].about = disk.questions
              /\ q \in flagged <=> ~origin[q].evidence

\* In the first pass the answers written so far are current; after it, all.
AnswersOK ==
  /\ pc = "answers" => \A q \in Question : round > 0 \/ q \notin todo => Current(q)
  /\ pc = "review" /\ stage = "research" => \A q \in Question : Current(q)
  /\ pc = "review" => round > 0

AnswerInv == AnswersOK /\ EvidenceIsReported /\ AnswersAreCurrent

LEMMA AInit == Init => AnswerInv
BY DEF Init, AnswerInv, AnswersOK, EvidenceIsReported, AnswersAreCurrent, NotReturned

LEMMA ANext == TInv /\ ReviewInv /\ AnswerInv /\ [Next]_vars => AnswerInv'
<1> SUFFICES ASSUME TInv, ReviewInv, AnswerInv, [Next]_vars PROVE AnswerInv'
  OBVIOUS
<1> USE DEF AnswerInv, AnswersOK, EvidenceIsReported, AnswersAreCurrent, fixed, loop, reviewed
<1>a. stage = "research" /\ pc # "done" =>
        pc \in {"generate", "vet", "answers", "review"} /\ outcome.status = "none"
  BY DEF ReviewInv, PcOK, OutcomeOK, AuthorPc, SkeletonPc, TInv, TypeOK, Pc, NotReturned
<1>b. round \in Nat /\ todo \subseteq Question /\ flagged \subseteq Question
  BY BoundsAssumption DEF TInv, TypeOK
<1>1. CASE Enter
  BY <1>1 DEF Enter, First, AskOrDraft, NotReturned
<1>2. CASE Retry
  BY <1>2 DEF Retry, Current
<1>3. CASE AgentFails
  BY <1>3 DEF AgentFails, Return
<1>4. CASE Interview \/ Discuss \/ Approve \/ Reject \/ Draft \/ Rewrite
  <2>1. stage # "research" /\ stage' = stage
    BY <1>4 DEF ReviewInv, PcOK, AuthorPc, Interview, Discuss, Approve, Reject, Draft, Rewrite
  <2>2. pc' # "answers" /\ (pc' = "review" => round' > 0)
    BY <1>4, <1>b DEF Interview, Discuss, Approve, Reject, Draft, Rewrite, AskOrDraft, Return, NextRound
  <2> QED
    BY <2>1, <2>2
<1>5. CASE ReviewPasses \/ ReviewFails
  BY <1>5 DEF ReviewPasses, ReviewFails, Judge, Return
<1>6. CASE Generate
  BY <1>6, <1>a DEF Generate, ReviewInv, PcOK, ResearchPc
<1>7. CASE QuestionsPass
  BY <1>7, <1>a DEF QuestionsPass, ToAnswer, ReviewInv, PcOK, ResearchPc
<1>8. CASE QuestionsFail
  BY <1>8, <1>a DEF QuestionsFail, Return, ReviewInv, PcOK, ResearchPc
<1>9. CASE Answer
  <2> PICK q \in todo, t \in Text, evidence \in BOOLEAN :
        /\ disk' = [disk EXCEPT !.answers[q] = t]
        /\ origin' = [origin EXCEPT ![q] = [about |-> disk.questions, evidence |-> evidence]]
        /\ flagged' = Flags(flagged, q, evidence)
        /\ todo' = todo \ {q}
    BY <1>9 DEF Answer
  <2>1. disk'.questions = disk.questions
    BY DEF TInv, TypeOK, Documents
  <2>2. Current(q)'
    BY <2>1, <1>b DEF Current, Flags, TInv, TypeOK
  <2>3. ASSUME NEW p \in Question, p # q, Current(p) PROVE Current(p)'
    BY <2>1, <2>3 DEF Current, Flags, TInv, TypeOK
  <2>4. pc = "answers" /\ pc' = "answers" /\ round' = round /\ outcome' = outcome /\ stage' = stage
    BY <1>9 DEF Answer
  <2>5. \A p \in Question : round' > 0 \/ p \notin todo' => Current(p)'
    BY <2>2, <2>3, <2>4
  <2>6. stage = "research" => outcome'.status = "none"
    BY <2>4, <1>a
  <2> QED
    BY <2>4, <2>5, <2>6
<1>10. CASE Summarize
  <2>1. disk'.questions = disk.questions
    BY <1>10 DEF Summarize, TInv, TypeOK, Documents
  <2>2. \A q \in Question : Current(q)'
    BY <1>10, <2>1 DEF Summarize, Current
  <2>3. \/ pc' = "review" /\ round' > 0 /\ outcome' = outcome
        \/ pc' = "done" /\ outcome'.status = "FAIL"
    BY <1>10, <1>b DEF Summarize, NextRound, Return
  <2>4. stage' = stage /\ pc = "answers"
    BY <1>10 DEF Summarize
  <2> QED
    BY <2>2, <2>3, <2>4, <1>a
<1>11. CASE ResearchPasses
  <2>1. \A q \in Question : Current(q)
    BY <1>11 DEF ResearchPasses, Judge
  <2>2. pc' = "done" /\ outcome'.status = "PASS" /\ (outcome'.noEvidence <=> flagged # {})
    BY <1>11 DEF ResearchPasses, Return
  <2>3. flagged # {} <=> \E q \in Question : ~origin[q].evidence
    BY <2>1, <1>b DEF Current
  <2>4. UNCHANGED <<disk, origin, flagged>>
    BY <1>11 DEF ResearchPasses
  <2> QED
    BY <2>1, <2>2, <2>3, <2>4 DEF Current
<1>12. CASE ResearchFails
  <2>1. /\ \A q \in Question : Current(q)
        /\ round > 0
    BY <1>12 DEF ResearchFails, Judge
  <2>2. /\ \/ pc' = "done" /\ outcome'.status = "FAIL"
           \/ pc' = "answers" /\ outcome'.status = "none"
        /\ UNCHANGED <<disk, origin, flagged, round>>
    BY <1>12, <1>a DEF ResearchFails, Judge, Return
  <2> QED
    BY <2>1, <2>2 DEF Current
<1>13. CASE Skeleton
  <2>1. stage = "skeleton" /\ stage' = stage
    BY <1>13 DEF Skeleton, EarlyPass, StartBuild, Build, Accept, Refuse, Merge, Conflict,
                 Carry, Map, ReviewInv, PcOK, SkeletonPc
  <2>2. pc' # "answers" /\ (pc' = "review" => round' > 0)
    BY <1>13, <2>1 DEF Skeleton, EarlyPass, StartBuild, Build, Accept, Refuse, Merge, Conflict,
                 Carry, Map, Return, ToReview, ReviewInv, SkeletonRoundOK
  <2> QED
    BY <2>1, <2>2
<1>14. CASE UNCHANGED vars
  BY <1>14 DEF vars, Current
<1> QED
  BY <1>1, <1>2, <1>3, <1>4, <1>5, <1>6, <1>7, <1>8, <1>9, <1>10, <1>11, <1>12, <1>13, <1>14
  DEF Next, Program, Authors, Research, Operator, Terminated

\* A research that passes reports missing evidence if and only if an answer on
\* disk is without it.
THEOREM MissingEvidenceIsReported == Spec => []EvidenceIsReported
<1>1. AnswerInv => EvidenceIsReported
  BY DEF AnswerInv
<1> QED
  BY TInit, TNext, RInit, RNext, AInit, ANext, <1>1, PTL DEF Spec

\* A research that passes has answered the questions it has now.
THEOREM ResearchAnswersItsQuestions == Spec => []AnswersAreCurrent
<1>1. AnswerInv => AnswersAreCurrent
  BY DEF AnswerInv
<1> QED
  BY TInit, TNext, RInit, RNext, AInit, ANext, <1>1, PTL DEF Spec

-----------------------------------------------------------------------------
(***************************************************************************)
(* Every step uses something up.                                           *)
(***************************************************************************)

\* The bounds on entries and rejections are kept.
BudgetInv == entries <= MaxEntries /\ rejections <= MaxRejections

\* A step enters the stage, or it is a rejection, or it leaves both as they are.
Entered == entries' = entries + 1 /\ entries < MaxEntries /\ UNCHANGED rejections
Rejected == rejections' = rejections + 1 /\ rejections < MaxRejections /\ UNCHANGED entries

\* The environment's steps use up its budget, and the others leave it.
LEMMA EventSteps ==
  ASSUME TypeOK
  PROVE  /\ Entered \/ Rejected => EventsLeft' < EventsLeft
         /\ UNCHANGED <<entries, rejections>> => EventsLeft' = EventsLeft
BY BoundsAssumption DEF TypeOK, EventsLeft, Entered, Rejected

\* The numbers of the places.
LEMMA PlaceNumbers ==
  /\ \A p \in Pc : PartsFrom[p] \in Nat /\ PlacesFrom[p] \in Nat
  /\ \A p \in {"interview", "discussion", "structure"} : PartsFrom[p] = 4
  /\ \A p \in {"draft", "generate", "vet", "build", "inspect"} : PartsFrom[p] = 3
  /\ PartsFrom["merge"] = 2 /\ PartsFrom["done"] = 0
  /\ \A p \in {"carry", "map", "review", "rewrite", "answers", "gate"} : PartsFrom[p] = 1
  /\ \A p \in {"vet", "inspect", "rewrite", "answers", "gate"} : PlacesFrom[p] = 0
  /\ \A p \in {"generate", "build", "review"} : PlacesFrom[p] = 1
  /\ PlacesFrom["carry"] = 3 /\ PlacesFrom["map"] = 2
BY DEF PartsFrom, PlacesFrom, Pc

\* What is to be dispatched from a place is a number.
LEMMA DispatchesType ==
  ASSUME TypeOK
  PROVE  /\ IsFiniteSet(todo) /\ Cardinality(todo) \in Nat
         /\ DispatchesLeft \in Nat
<1>1. IsFiniteSet(todo)
  BY FS_Subset, QuestionAssumption DEF TypeOK
<1>2. Cardinality(todo) \in Nat
  BY <1>1, FS_CardinalityType
<1> QED
  BY <1>1, <1>2 DEF DispatchesLeft, TypeOK

\* What is left is a tuple of numbers.
LEMMA RemainingType == ASSUME TypeOK, BudgetInv PROVE Remaining \in Tuples(5)
<1>1. EventsLeft \in Nat /\ RoundsLeft \in Nat
  BY BoundsAssumption DEF TypeOK, BudgetInv, EventsLeft, RoundsLeft
<1>2. PartsFrom[pc] \in Nat /\ PlacesFrom[pc] \in Nat
  BY PlaceNumbers DEF TypeOK
<1> QED
  BY <1>1, <1>2, DispatchesType DEF Remaining, Tuples

\* Which of the numbers goes down, with those before it as they were.
Falls ==
  \/ EventsLeft' < EventsLeft
  \/ /\ EventsLeft' = EventsLeft
     /\ \/ PartsFrom[pc'] < PartsFrom[pc]
        \/ /\ PartsFrom[pc'] = PartsFrom[pc]
           /\ \/ RoundsLeft' < RoundsLeft
              \/ /\ RoundsLeft' = RoundsLeft
                 /\ \/ PlacesFrom[pc'] < PlacesFrom[pc]
                    \/ /\ PlacesFrom[pc'] = PlacesFrom[pc]
                       /\ DispatchesLeft' < DispatchesLeft

\* What falls is less.
LEMMA FallsIsLess ==
  ASSUME Remaining \in Tuples(5), Remaining' \in Tuples(5), Falls
  PROVE  UsesUp
<1>1. /\ Remaining[1] = EventsLeft /\ Remaining'[1] = EventsLeft'
      /\ Remaining[2] = PartsFrom[pc] /\ Remaining'[2] = PartsFrom[pc']
      /\ Remaining[3] = RoundsLeft /\ Remaining'[3] = RoundsLeft'
      /\ Remaining[4] = PlacesFrom[pc] /\ Remaining'[4] = PlacesFrom[pc']
      /\ Remaining[5] = DispatchesLeft /\ Remaining'[5] = DispatchesLeft'
  BY DEF Remaining, PartsFrom, PlacesFrom
<1> DEFINE a == Remaining
           b == Remaining'
<1>2. PICK i \in 1 .. 5 : /\ b[i] < a[i]
                          /\ i > 1 => b[1] = a[1]
                          /\ i > 2 => b[2] = a[2]
                          /\ i > 3 => b[3] = a[3]
                          /\ i > 4 => b[4] = a[4]
  BY <1>1 DEF Falls
<1> HIDE DEF a, b
<1>3. i \in DOMAIN b /\ \A j \in 1 .. i - 1 : b[j] = a[j]
  BY <1>2 DEF Tuples, b
<1>4. Less(b, a)
  BY <1>2, <1>3 DEF Less
<1> QED
  BY <1>4 DEF UsesUp, Descents, a, b

\* The steps that are neither.
Stays == UNCHANGED <<entries, rejections>>

\* To a later part of the entry.
LEMMA PartFalls ==
  ASSUME TypeOK, Stays, PartsFrom[pc'] < PartsFrom[pc] PROVE Falls
BY EventSteps DEF Falls, Stays

\* To the next round of a part, or to a later place of a round.
LEMMA PlaceFalls ==
  ASSUME TypeOK, Stays, PartsFrom[pc'] = PartsFrom[pc],
         \/ round' = round + 1
         \/ UNCHANGED round /\ PlacesFrom[pc'] < PlacesFrom[pc]
  PROVE  Falls
<1>1. \/ RoundsLeft' < RoundsLeft
      \/ RoundsLeft' = RoundsLeft /\ PlacesFrom[pc'] < PlacesFrom[pc]
  BY BoundsAssumption DEF TypeOK, RoundsLeft
<1> QED
  BY <1>1, EventSteps DEF Falls, Stays

\* A retry, or an answer.
LEMMA DispatchFalls ==
  ASSUME TypeOK, Stays, UNCHANGED <<pc, round>>, DispatchesLeft' < DispatchesLeft PROVE Falls
BY EventSteps DEF Falls, Stays, RoundsLeft

\* An agent is tried again.
LEMMA RetryFalls == ASSUME TypeOK, Retry PROVE Falls
<1>1. Stays /\ UNCHANGED <<pc, round, todo>> /\ attempt' = attempt + 1
  BY DEF Retry, Stays
<1>2. Cardinality(todo) \in Nat /\ attempt \in Nat
  BY DispatchesType DEF TypeOK
<1>3. DispatchesLeft' < DispatchesLeft
  BY <1>1, <1>2 DEF DispatchesLeft
<1> QED
  BY <1>1, <1>3, DispatchFalls

\* A question is answered.
LEMMA AnswerFalls == ASSUME TypeOK, Answer PROVE Falls
<1>1. Stays /\ UNCHANGED <<pc, round, attempt>>
  BY DEF Answer, Stays
<1>2. PICK q \in todo : todo' = todo \ {q}
  BY DEF Answer
<1>3. IsFiniteSet(todo) /\ Cardinality(todo) \in Nat /\ attempt \in Nat
  BY DispatchesType DEF TypeOK
<1>4. Cardinality(todo \ {q}) = Cardinality(todo) - 1
  BY <1>3, FS_RemoveElement
<1>5. DispatchesLeft' < DispatchesLeft
  BY <1>1, <1>2, <1>3, <1>4 DEF DispatchesLeft
<1> QED
  BY <1>1, <1>5, DispatchFalls

\* The stage returns, or goes on to a part without the rounds of this one.
LEMMA PartsFall ==
  ASSUME TypeOK, RoundsOK,
         \/ AgentFails \/ Interview \/ Discuss \/ Draft \/ Approve \/ EarlyPass \/ StartBuild
         \/ Accept \/ Merge \/ Conflict \/ QuestionsPass \/ ResearchPasses
         \/ pc # "done" /\ Stays /\ pc' = "done"
  PROVE  Falls
<1>1. Stays
  BY DEF Stays, AgentFails, Interview, Discuss, Draft, Approve, EarlyPass, StartBuild, Accept,
         Merge, Conflict, QuestionsPass, ResearchPasses
<1>2. \/ pc # "done" /\ pc' = "done"
      \/ pc \in {"interview", "discussion"} /\ pc' = "draft"
      \/ pc = "structure" /\ pc' = "build"
      \/ pc = "draft" /\ pc' = "review"
      \/ pc = "inspect" /\ pc' = "merge"
      \/ pc = "merge" /\ pc' \in {"carry", "map", "review"}
      \/ pc = "vet" /\ pc' = "answers"
  BY DEF AgentFails, Interview, Discuss, Draft, Approve, EarlyPass, StartBuild, Accept, Return,
         Merge, ToReview, Conflict, QuestionsPass, ResearchPasses, Judge
<1>3. pc # "done" => PartsFrom[pc] > 0
  BY DEF TypeOK, Pc, PartsFrom
<1>4. PartsFrom[pc'] < PartsFrom[pc]
  BY <1>2, <1>3, PlaceNumbers
<1> QED
  BY <1>1, <1>4, PartFalls

\* The steps within a part.
LEMMA PlacesFall ==
  ASSUME TypeOK,
         \/ ReviewPasses \/ ReviewFails \/ Rewrite \/ Generate \/ QuestionsFail \/ Summarize
         \/ ResearchFails \/ Build \/ Refuse \/ Carry \/ Map
  PROVE  Falls \/ (pc # "done" /\ Stays /\ pc' = "done")
<1>1. Stays
  BY DEF Stays, ReviewPasses, ReviewFails, Rewrite, Generate, QuestionsFail, Summarize,
         ResearchFails, Build, Refuse, Carry, Map
<1>2. \/ pc # "done" /\ pc' = "done"
      \/ pc = "review" /\ pc' \in {"gate", "rewrite", "answers"} /\ UNCHANGED round
      \/ pc \in {"rewrite", "answers"} /\ pc' = "review" /\ round' = round + 1
      \/ pc = "generate" /\ pc' = "vet" /\ UNCHANGED round
      \/ pc = "vet" /\ pc' = "generate" /\ round' = round + 1
      \/ pc = "build" /\ pc' = "inspect" /\ UNCHANGED round
      \/ pc = "inspect" /\ pc' = "build" /\ round' = round + 1
      \/ pc = "carry" /\ pc' \in {"map", "review"} /\ UNCHANGED round
      \/ pc = "map" /\ pc' = "review" /\ UNCHANGED round
  BY DEF ReviewPasses, ReviewFails, Judge, Return, Rewrite, Generate, QuestionsFail, Summarize,
         ResearchFails, Build, Refuse, Carry, Map, ToReview, NextRound, loop
<1>3. CASE pc # "done" /\ pc' = "done"
  BY <1>1, <1>3
<1>4. CASE ~(pc # "done" /\ pc' = "done")
  <2>1. /\ PartsFrom[pc'] = PartsFrom[pc]
        /\ round' = round + 1 \/ (UNCHANGED round /\ PlacesFrom[pc'] < PlacesFrom[pc])
    BY <1>2, <1>4, PlaceNumbers
  <2> QED
    BY <1>1, <2>1, PlaceFalls
<1> QED
  BY <1>3, <1>4

\* The stage is entered at most so often, and the operator rejects so often.
LEMMA BudgetNext == ASSUME TypeOK, BudgetInv, [Next]_vars PROVE BudgetInv'
<1>1. Entered \/ Rejected \/ Stays
  BY DEF Next, Enter, Program, Authors, Research, Skeleton, Operator, Terminated, vars, Entered,
         Rejected, Stays, Retry, AgentFails, Interview, Draft, ReviewPasses, ReviewFails, Rewrite,
         Generate, QuestionsPass, QuestionsFail, Answer, Summarize, ResearchPasses, ResearchFails,
         Discuss, Approve, Reject, EarlyPass, StartBuild, Build, Accept, Refuse, Merge, Conflict,
         Carry, Map
<1> QED
  BY <1>1, BoundsAssumption DEF TypeOK, BudgetInv, Entered, Rejected, Stays

\* Every step uses something up, whichever stage it is of.
THEOREM EveryStepUsesUp == Spec => EveryStepCounts
<1>1. Init => TInv /\ BudgetInv
  BY TInit, BoundsAssumption DEF Init, BudgetInv
<1>2. TInv /\ BudgetInv /\ [Next]_vars => TInv' /\ BudgetInv'
  BY TNext, BudgetNext DEF TInv
<1>3. ASSUME TInv, TInv', BudgetInv, BudgetInv', [Next]_vars PROVE [UsesUp]_vars
  <2>1. Remaining \in Tuples(5)
    BY <1>3, RemainingType DEF TInv
  <2>2. (TypeOK /\ BudgetInv => Remaining \in Tuples(5))'
    BY RemainingType, PTL
  <2>3. Remaining' \in Tuples(5)
    BY <1>3, <2>2 DEF TInv
  <2> SUFFICES ASSUME Next, vars' # vars PROVE Falls
    BY <1>3, <2>1, <2>3, FallsIsLess
  <2>4. CASE Enter \/ Reject
    BY <1>3, <2>4, EventSteps DEF Enter, Reject, Entered, Rejected, Falls, TInv
  <2>5. CASE Retry \/ Answer
    BY <1>3, <2>5, RetryFalls, AnswerFalls DEF TInv
  <2>6. CASE \/ AgentFails \/ Interview \/ Discuss \/ Draft \/ Approve \/ EarlyPass
             \/ StartBuild \/ Accept \/ Merge \/ Conflict \/ QuestionsPass \/ ResearchPasses
    BY <1>3, <2>6, PartsFall DEF TInv
  <2>7. CASE \/ ReviewPasses \/ ReviewFails \/ Rewrite \/ Generate \/ QuestionsFail \/ Summarize
             \/ ResearchFails \/ Build \/ Refuse \/ Carry \/ Map
    BY <1>3, <2>7, PlacesFall, PartsFall DEF TInv
  <2> QED
    BY <2>4, <2>5, <2>6, <2>7
       DEF Next, Program, Authors, Research, Skeleton, Operator, Terminated
<1> QED
  BY <1>1, <1>2, <1>3, PTL DEF Spec, EveryStepCounts
=============================================================================
