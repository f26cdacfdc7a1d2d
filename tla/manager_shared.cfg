\* A start and three loads or resumes of the session, anything may fail.
CONSTANTS
  NoDriver = NoDriver
  Opens = {o1, o2, o3, o4}
  Starters = {o4}
  Environment <- AllFailures
SPECIFICATION Spec
SYMMETRY Symmetry
INVARIANTS
  ActiveIsOpen
  RefCountExact
PROPERTIES
  SiblingsSurvive
CHECK_DEADLOCK FALSE
