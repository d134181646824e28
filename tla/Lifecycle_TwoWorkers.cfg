SPECIFICATION Spec
CONSTANTS
  p1 = p1
  p2 = p2
  n1 = n1
  n2 = n2
  None = None
  PO = {p1, p2}
  NS = {n1}
  Claims <- SharedClaims
  Kinds <- CoreKinds
  CacheLags = FALSE
  MaxConcurrent = 2
  MaxEdits = 2
  MaxFaults = 0
SYMMETRY ObjectsSymmetry
CONSTRAINT ListedByAll
CHECK_DEADLOCK FALSE
PROPERTIES TornDownOnlyWithConsent
