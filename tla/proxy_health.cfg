SPECIFICATION HistorySpec
CONSTANTS
  r1 = r1
  r2 = r2
  r3 = r3
  r4 = r4
  r5 = r5
  Requests = {r1, r2}
  N = 2
  Matching <- OneTagged
  MaxRetries = 1
  Impatient = {}
  WithBody = {r1}
  BadPath = {}
  Direct = {}
  Unlooped = {}
  MaxReloads = 0
  MaxRequests = 1
  FailureThreshold = 1
  RateRequests = 2
  HealthEnabled = TRUE
  ActiveConfigured = FALSE
  PassiveConfigured = TRUE
  ActiveSuccesses = 0
  ActiveFailures = 0
  PassiveSuccesses = 1
  PassiveFailures = 1
  CounterCap = 1
PROPERTIES
  NoFalse503
