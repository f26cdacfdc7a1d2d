\* Three calls of two processes while the registry is upgraded.
CONSTANTS
  c1 = c1
  c2 = c2
  c3 = c3
  Calls = {c1, c2, c3}
  Owner <- TwoProcesses
  Nobody = Nobody
  MaxVersion = 2
  Environment = {"ioErrors", "rmErrors", "badBodies", "crashes"}
SPECIFICATION Spec
INVARIANTS
  BinaryIsRight
PROPERTIES
  WholeStays
CHECK_DEADLOCK FALSE
