SPECIFICATION Spec
CONSTANTS
  a1 = a1
  a2 = a2
  s1 = s1
  s2 = s2
  h1 = h1
  t1 = t1
  None = None
  Admins = {a1, a2}
  Services = {s1, s2}
  Routes = {"r"}
  Hosts = {h1}
  Ports = {80, 8080}
  DefaultPort = 80
  Targets = {t1}
  Bodies <- MixedBodies
  MaxWrites = 2
  MaxFaults = 1
  MaxCrashes = 1
CHECK_DEADLOCK FALSE
SYMMETRY Symmetry
INVARIANTS
  TypeOK
  InvalidStoreNoticed
  
PROPERTIES
  SoloReloadSyncs
