SPECIFICATION Spec
CONSTANTS
  r1 = r1
  r2 = r2
  r3 = r3
  r4 = r4
  r5 = r5
  Requests = {r1}
  N = 2
  Matching <- AllMatch
  MaxRetries = 1
  Impatient = {r1}
  WithBody = {r1}
  BadPath = {}
  Direct = {}
  Unlooped = {}
  MaxReloads = 0
  MaxRequests = 1
  FailureThreshold = 1
  RateRequests = 2
  HealthEnabled = TRUE
  ActiveConfigured = TRUE
  PassiveConfigured = TRUE
  ActiveSuccesses = 2
  ActiveFailures = 2
  PassiveSuccesses = 2
  PassiveFailures = 1
  CounterCap = 2
PROPERTIES
  
  Recovery
