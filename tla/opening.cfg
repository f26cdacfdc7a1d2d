\* One start or listing, with everything an agent and its process may do.
CONSTANTS
  a = a
  b = b
  c = c
  Requests = {"opening", "prompt"}
  Holders = {TRUE}
  Wanted <- SomeWanted
  Required = {"model"}
  Modes <- SomeModes
  Agents <- SomeAgents
  MethodLists <- SomeMethods
  Handlers = {TRUE, FALSE}
SPECIFICATION FairSpec
INVARIANTS
  LeavesNothing
  ReportTrue
PROPERTIES
  DeathIsNoticed
  DisposeReturns
CHECK_DEADLOCK FALSE
