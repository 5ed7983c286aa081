CONSTANTS
  Calls = {k1, k2, k3}
  Indexes = {i1, i2}
  d1 = d1
  d2 = d2
  small = small
  large = large
  Ids = {d1, d2}
  Dims = {small, large}
  Batches <- SomeBatches
  Chunk = 2
  MaxFaults = 1
  None = None
SPECIFICATION Spec
CHECK_DEADLOCK FALSE
SYMMETRY Symmetric
INVARIANTS TypeOK AnsweredOnce VectorsFit CountedIsWritten ClaimsOverlap
PROPERTIES Promised
