SPECIFICATION Spec
CONSTANTS
  code1 = code1
  review1 = review1
  code2 = code2
  None = None
  Torn = Torn
  Call <- Calls
  After <- Chain
  Kind <- KindOf
  Label <- Labels
  LabelOf <- Shared
  MaxFaults = 1
  MaxMishaps = 1
  Payload = {"PARTIAL"}
  MaxTimers = 2
INVARIANT
  VisibleWhileActive
