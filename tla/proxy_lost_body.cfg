SPECIFICATION Spec
CONSTANTS
  r1 = r1
  r2 = r2
  r3 = r3
  r4 = r4
  r5 = r5
  Requests = {r1, r2}
  N = 2
  Matching <- AllMatch
  MaxRetries = 1
  Impatient = {}
  WithBody = {r1}
  BadPath = {}
  Direct = {}
  Unlooped = {}
  MaxReloads = 0
  MaxRequests = 2
  FailureThreshold = 2
  RateRequests = 3
  HealthEnabled = FALSE
  ActiveConfigured = FALSE
  PassiveConfigured = FALSE
  ActiveSuccesses = 0
  ActiveFailures = 0
  PassiveSuccesses = 0
  PassiveFailures = 0
  CounterCap = 1
PROPERTIES
  RetryCanSucceed
