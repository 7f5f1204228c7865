SPECIFICATION FairSpec
CONSTANTS
  Id <- Ids
  Plans <- SomePlans
  Limit <- OneFailure
  OffRunBranch = FALSE
INVARIANTS
  TypeOK
  BuiltOnDependencies
  NothingOfFailedWave
  PassedIsMerged
PROPERTIES
  CallsReturn
  EveryStepCounts
