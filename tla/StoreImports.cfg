SPECIFICATION Spec
CONSTANTS
  i1 = i1  i2 = i2  i3 = i3
  m1 = m1  m2 = m2
  p1 = p1  p2 = p2
  d1 = d1  d2 = d2
  n1 = n1  n2 = n2
  None = None
  Imports = {i1, i2, i3}
  Models = {m1, m2}
  Profiles = {p1, p2}
  Docs = {d1, d2}
  Concurrency = 2
  MaxFaults = 1
  ModelOf <- LateModels
  ProfileOf <- SomeProfiles
  DocsOf <- Overlapping
  DimOf <- TwoDims
INVARIANT TypeOK
INVARIANT BoundBeforeIndexed
INVARIANT FilesBehindDocs
INVARIANT CreatorBinds
INVARIANT VectorsBound
CHECK_DEADLOCK FALSE
