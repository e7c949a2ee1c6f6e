SPECIFICATION Spec
CONSTANTS
  http = http
  https = https
  r1 = r1
  r2 = r2
  Requests = {r1, r2}
  Servers = {http, https}
  Http = http
CHECK_DEADLOCK FALSE
INVARIANTS
  TypeOK
  
PROPERTIES
  ShutdownCompletes
