\* Three turns: order, merging and removal in the queue, cancels on the wire;
\* SessionDriver implements TurnService.
CONSTANTS
  t1 = t1
  t2 = t2
  t3 = t3
  NoTurn = NoTurn
  Turns = {t1, t2, t3}
  TimedTurns = {}
  Environment = {"policyChanges"}
  Answers = {"endTurn", "error"}
  MaxWire = 2
SPECIFICATION Spec
SYMMETRY Symmetry
INVARIANTS
  OneActiveTurn
  CancelHitsOnlyAsked
  CancelNotLost
  QueueOrder
  CoalescedCarried
PROPERTIES
  NoWorkAfterClose
  Refines
CHECK_DEADLOCK FALSE
