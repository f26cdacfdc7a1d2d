\* Two sessions, served by processes one after another.
CONSTANTS
  s1 = s1
  s2 = s2
  Sessions = {s1, s2}
  Actions <- SomeActions
  Faults = {"hang", "timeout", "crash", "duplicateTool"}
  Modes = {"deny"}
  MaxMoves = 3
  Environment = {"kills", "closes", "clientErrors"}
SPECIFICATION FairSpec
INVARIANTS
  AnsweredIsStored
  RulesAreGiven
  RegularUnlessStruck
PROPERTIES
  CancelReturns
CHECK_DEADLOCK FALSE
