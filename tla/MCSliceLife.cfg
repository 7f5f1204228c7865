SPECIFICATION Spec
CONSTANTS
  SliceId <- Ids
  HeaderId <- Ids
  Criterion <- Criteria
  Designs <- SomeDesigns
  Proposals <- SingleEntries
  None = None
  MaxAttempts = 1
  MaxSlices = 3
ACTION_CONSTRAINT Short
INVARIANTS
  DesignSlicesUnique
  NothingStranded
  ProposalsRepaired
