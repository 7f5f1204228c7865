SPECIFICATION Spec
CONSTANTS
  SliceId <- Ids
  HeaderId <- Ids
  Criterion <- Criteria
  MaxBackwardLoops = 1
  MaxRequeue = 1
  AgentReason = {"r1"}
  None = None
  Designs <- OneDesign
  Proposals <- OneEntry
  Settings <- Automated
  Limit <- OneCrash
  TornWrites = FALSE
INVARIANTS
  VerifyOnExhaustedQueue
