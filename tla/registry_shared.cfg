\* Two processes save and delete two sessions in one file; they may die
\* or be slow, until a lock is taken away from one inside.
CONSTANTS
  Nobody = Nobody
  Processes = {p1, p2}
  Ids = {s1, s2}
  MaxStamp = 2
  Environment = {"crashes", "slowHolders", "ioErrors", "deletes"}
SPECIFICATION Spec
SYMMETRY Symmetry
CONSTRAINT NotStolen
INVARIANTS
  LockExclusive
  ConfirmedIsStored
  DeletionKept
PROPERTIES
  NoEntryLost
CHECK_DEADLOCK FALSE
