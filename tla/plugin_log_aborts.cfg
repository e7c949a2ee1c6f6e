SPECIFICATION Spec
CONSTANTS
  Requests = {r1, r2}
  Backends = {b1, b2}
  Required = {b1}
  Configs <- MCConfigs
  Inputs <- MCInputs
PROPERTIES
  LogNeverStops
