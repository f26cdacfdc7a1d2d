\* Two turns with timeouts; watchers call back, the connection may die.
CONSTANTS
  t1 = t1
  t2 = t2
  t3 = t3
  NoTurn = NoTurn
  Turns = {t1, t2}
  TimedTurns = {t1, t2}
  Environment <- ReentrantEnvironment
  Answers <- AllAnswers
  MaxWire = 2
SPECIFICATION Spec
SYMMETRY Symmetry
INVARIANTS
  DroppedNeverPrompted
  NoStrandedTurn
  StreamShape
CHECK_DEADLOCK FALSE
