\* Four loads or resumes; configuration and files never fail.
CONSTANTS
  NoDriver = NoDriver
  Opens = {o1, o2, o3, o4}
  Starters = {}
  Environment = {"openFailures", "closeFailures"}
SPECIFICATION FairSpec
INVARIANTS
  NoDriverLeaked
  ReopenWaitsForClose
PROPERTIES
  Shares
  EveryOpenReturns
CHECK_DEADLOCK FALSE
