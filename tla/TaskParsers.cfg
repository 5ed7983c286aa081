SPECIFICATION Spec
CONSTANTS
  r1 = r1  r2 = r2  r3 = r3
  Default = Default
  None = None
  Requests = {r1, r2, r3}
  Uploaded = {r2}
  Inline = {r3}
  Workers = {w1, w2}
  w1 = w1  w2 = w2
  KeepFailed = FALSE
  MaxFaults = 0
INVARIANT TypeOK
INVARIANT OnlyProven
INVARIANT RunsOnlyValidated
INVARIANT UploadsStay
INVARIANT RecordedUnlessReplaced
CHECK_DEADLOCK FALSE
