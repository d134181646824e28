SPECIFICATION FairSpec
CONSTANTS
  p1 = p1
  p2 = p2
  s1 = s1
  s2 = s2
  None = None
  PO = {p1}
  Size = {s1}
  CacheLags = TRUE
  MaxReviews = 2
  MaxEdits = 2
  MaxFaults = 1
CHECK_DEADLOCK FALSE
INVARIANTS TypeOK QuietMeansCounted QuietMeansApplied
PROPERTIES KnownReferenceHolds OnlyMissingSizeBlocks
