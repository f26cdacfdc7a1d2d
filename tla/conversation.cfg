\* A load and two turns whose updates wait for a terminal's output, and
\* whose agent asks for permission.
CONSTANTS
  Absent = Absent
  k1 = k1
  k2 = k2
  x1 = x1
  f1 = f1
  NoTurn = NoTurn
  HistoryTurn = HistoryTurn
  Turns = {t1, t2}
  Tools = {k1, k2}
  Terminals = {x1}
  Updates <- WordsAndTools
  Requests <- SomeRequests
  Answers = {"end_turn"}
  ModeDenies = FALSE
  MaxWrites = 2
SPECIFICATION Spec
SYMMETRY Symmetry
INVARIANTS
  DecisionsKept
  
  ReplayWhole
  ObjectsTrue
PROPERTIES
  EndedThreadFrozen
VIEW View
CHECK_DEADLOCK FALSE
