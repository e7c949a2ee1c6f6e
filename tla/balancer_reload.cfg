SPECIFICATION Spec
CONSTANTS
  a = a
  b = b
  c = c
  r1 = r1
  r2 = r2
  r3 = r3
  Requests = {r1, r2, r3}
  Strategies = {"consistent-hashing", "least-connections", "latency"}
  Ids = {a, b, c}
  Configs <- MCConfigs
  Weight <- MCWeight
  Tagged = {a, c}
  Selective = {r3}
  HealthEnabled = TRUE
  M = 5
  Offset <- MCOffset
  Skip <- MCSkip
  HashOn = "cookie"
  HashFallback = "header"
  Attributes <- MCAttributes
  SlotOf <- MCSlotOf
  LoadCheckAbove = 1
  MaxRetries = 1
  MaxChanges = 1
SYMMETRY MCSymmetry
INVARIANTS TypeOK RingBalanced RetriesAvoidFailed
PROPERTIES PrimaryServes LoadNeverRefuses
CHECK_DEADLOCK FALSE
