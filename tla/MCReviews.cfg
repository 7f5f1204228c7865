SPECIFICATION FairSpec
CONSTANTS
  Text <- TwoTexts
  Question <- TwoQuestions
  Web <- SecondQuestion
  Rounds = 3
  MaxEntries = 2
  MaxRejections = 2
INVARIANTS
  TypeOK
  ReturnedIsReviewed
  StandsOnScaffold
  EvidenceIsReported
  AnswersAreCurrent
PROPERTIES
  StageEnds
  EveryStepCounts
