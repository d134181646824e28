SPECIFICATION FootprintSpec
CONSTANTS
  p1 = p1
  n1 = n1
  n2 = n2
  None = None
  PO = {p1}
  NS = {n1, n2}
  Claims <- SharedClaims
  Kinds <- PlainKinds
  CacheLags = FALSE
  MaxConcurrent = 2
  MaxEdits = 2
  MaxFaults = 1
SYMMETRY NamesSymmetry
CHECK_DEADLOCK FALSE
INVARIANTS TypeOK FootprintTypeOK GoneMeansReleased CustodyInv GaugeOwned QuietMeansAccounted
PROPERTIES TornDownOnlyWithConsent ImplementsCustody TenantsKeepTheirs
