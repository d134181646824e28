SPECIFICATION Spec
CONSTANTS
  t1 = t1
  t2 = t2
  g1 = g1
  g2 = g2
  pol1 = pol1
  prj1 = prj1
  prj2 = prj2
  argo1 = argo1
  None = None
  Tenant = {t1, t2}
  Group = {g1, g2}
  Policy = {pol1}
  Project = {prj1, prj2}
  ArgoNS = {argo1}
  Size = {"S", "L"}
  Role = {"admin", "edit"}
  Entries <- TwoEntries
  CacheLags = FALSE
  Careful = FALSE
  Tampered = {}
  Foreign = {"quota", "group"}
  MaxEdits = 3
  MaxFaults = 1
INVARIANTS TypeOK OffboardedMeansRemoved
PROPERTIES EntriesIndependent ForeignUntouched
