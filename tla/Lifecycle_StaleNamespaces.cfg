SPECIFICATION Spec
CONSTANTS
  p1 = p1
  p2 = p2
  n1 = n1
  n2 = n2
  None = None
  PO = {p1}
  NS = {n1}
  Claims <- SharedClaims
  Kinds <- PlainKinds
  CacheLags = TRUE
  MaxConcurrent = 2
  MaxEdits = 2
  MaxFaults = 0
CHECK_DEADLOCK FALSE
INVARIANTS GoneMeansReleased
