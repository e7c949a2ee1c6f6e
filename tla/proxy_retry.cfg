SPECIFICATION Spec
CONSTANTS
  r1 = r1
  r2 = r2
  r3 = r3
  r4 = r4
  r5 = r5
  Requests = {r1, r2, r3, r4, r5}
  N = 2
  Matching <- AllMatch
  MaxRetries = 2
  Impatient = {}
  WithBody = {}
  BadPath = {r5}
  Direct = {r4}
  Unlooped = {r3}
  MaxReloads = 1
  MaxRequests = 2
  FailureThreshold = 2
  RateRequests = 3
  HealthEnabled = FALSE
  ActiveConfigured = FALSE
  PassiveConfigured = FALSE
  ActiveSuccesses = 0
  ActiveFailures = 0
  PassiveSuccesses = 0
  PassiveFailures = 0
  CounterCap = 1
SYMMETRY Symmetry
ACTION_CONSTRAINT EarlyEndsFirst
INVARIANTS
  TypeOK
  
  RetriesSpread
  HalfOpenNeverWedged
PROPERTIES
  
  ClosesAfterAllProbes
