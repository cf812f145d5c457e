SPECIFICATION Spec
CONSTANTS
  Process = {p1, p2, p3}
  p1 = p1
  p2 = p2
  p3 = p3
  Lease = {l1, l2}
  l1 = l1
  l2 = l2
  Versions <- AnyVersion
  QuietUpgrade = TRUE
SYMMETRY Symmetry
INVARIANTS
  SchemaSound
  LeasesKept
PROPERTIES
  VersionRises
CHECK_DEADLOCK FALSE
