SPECIFICATION Spec
CONSTANTS
  a = a
  b = b
  c = c
  r1 = r1
  r2 = r2
  Requests = {r1, r2}
  Upstreams <- MCUpstreams
  Weight <- MCWeight
  Matching <- MCMatching
  SlowStart = 2
INVARIANTS TypeOK WeightsBalance NoStarvation CreditBounded
