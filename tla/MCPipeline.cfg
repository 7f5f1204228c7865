SPECIFICATION Spec
CONSTANTS
  SliceId <- Ids
  HeaderId <- Ids
  Criterion <- Criteria
  MaxBackwardLoops = 1
  MaxRequeue = 1
  AgentReason = {"r1"}
  None = None
  Designs <- AnyDesign
  Proposals <- SomeEntries
  Settings <- FailClosed
  Limit <- OneResume
  TornWrites = FALSE
INVARIANTS
  TypeOK
  RequeuesBounded
  QueueMatchesDesign
  LateStagesSeeAllDone
  CompletedCoversDesign
