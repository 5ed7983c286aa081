SPECIFICATION FairSpec
CONSTANTS
  r1 = r1  r2 = r2  r3 = r3
  Default = Default
  None = None
  Requests = {r1, r2}
  Uploaded = {}
  Inline = {r2}
  Workers = {w1}
  w1 = w1  w2 = w2
  KeepFailed = TRUE
  MaxFaults = 1
PROPERTY NoLeak
CHECK_DEADLOCK FALSE
