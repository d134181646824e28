SPECIFICATION FairSpec
CONSTANTS
  p1 = p1
  p2 = p2
  s1 = s1
  s2 = s2
  None = None
  PO = {p1}
  Size = {s1}
  CacheLags = FALSE
  MaxReviews = 2
  MaxEdits = 1
  MaxFaults = 0
CHECK_DEADLOCK FALSE
PROPERTIES DeletionGoesThrough
