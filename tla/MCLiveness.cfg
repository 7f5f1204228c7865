SPECIFICATION FairSpec
CONSTANTS
  SliceId <- Ids
  HeaderId <- Ids
  Criterion <- Criteria
  MaxBackwardLoops = 1
  MaxRequeue = 1
  AgentReason = {"r1"}
  None = None
  Designs <- OneDesign
  Proposals <- OneEntry
  Settings <- Interactive
  Limit <- CrashAndRemedy
  TornWrites = TRUE
PROPERTIES
  Terminates
  NothingLeftBuilding
  CountersMonotone
  EveryStepCounts
INVARIANTS
  CompletedIsVerified
