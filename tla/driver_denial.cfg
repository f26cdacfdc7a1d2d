\* An agent that answers a denied permission with an error.
CONSTANTS
  t1 = t1
  t2 = t2
  t3 = t3
  NoTurn = NoTurn
  Turns = {t1, t2}
  TimedTurns = {}
  Environment = {"denials"}
  Answers <- AllAnswers
  MaxWire = 2
SPECIFICATION Spec
SYMMETRY Symmetry
INVARIANTS
  DenialDecidesOutcome
CHECK_DEADLOCK FALSE
