\* Two turns, one with a timeout, an agent that may never answer.
CONSTANTS
  t1 = t1
  t2 = t2
  t3 = t3
  NoTurn = NoTurn
  Turns = {t1, t2}
  TimedTurns = {t1}
  Environment = {"policyChanges", "connectionLoss"}
  Answers = {"endTurn", "error"}
  MaxWire = 2
SPECIFICATION FairSpec
PROPERTIES
  AnsweredTurnsSettle
  TimedTurnSettles
  ClosedSessionStops
CHECK_DEADLOCK FALSE
