SPECIFICATION Spec
CONSTANTS
  SliceId <- Ids
  HeaderId <- Ids
  Criterion <- Criteria
  MaxBackwardLoops = 1
  MaxRequeue = 2
  AgentReason = {"r1"}
  None = None
  Designs <- TwoDesigns
  Proposals <- OneEntry
  Settings <- BestEffort
  Limit <- CrashAndThrow
  TornWrites = FALSE
INVARIANTS
  BackwardLoopsBounded
  AttemptsBounded
  BuildsOnlyReadySlices
PROPERTIES
  QueueIsWellUsed
  LoopKeepsDone
