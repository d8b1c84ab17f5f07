CONSTANTS
  p1 = p1  p2 = p2  v1 = v1  v2 = v2  malformed = malformed
  Profiles = {p1, p2}
  Passthrough = Passthrough
  NoProfile = NoProfile
  Views = {v1, v2}
  NoView = NoView
  Width = 2
  HostRoute = HostRoute
  MaxInstances = 2
  Queries = {q1}
  Lookups = {l1}
  Devices <- SomeDevices
  Overrides <- SomeOverrides
  View = v1
  Corefiles <- SomeReloads
  Reloads <- SomeReloads
SPECIFICATION Spec
INVARIANTS NothingFrozen
CHECK_DEADLOCK FALSE
