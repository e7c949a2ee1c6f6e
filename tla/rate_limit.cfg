SPECIFICATION Spec
CONSTANTS
  r1 = r1
  r2 = r2
  r3 = r3
  Requests = {r1, r2, r3}
  Gateway <- MCGateway
  Client <- MCClient
  Service <- MCService
  Route <- MCRoute
  ServiceLevel = {}
  RouteLevel = {"list"}
  Limit <- MCLimit
  Length <- MCLength
  FaultTolerant = TRUE
  MaxTime = 2
  MaxFaults = 1
INVARIANTS TypeOK GrantsWithinLimit CountIsExact KeysExpire
PROPERTY LimiterRefined
SYMMETRY RequestSymmetry
CHECK_DEADLOCK FALSE
