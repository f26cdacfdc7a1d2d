\* Two processes, one session: every save is answered,
\* though processes die and files and locks fail.
CONSTANTS
  Nobody = Nobody
  Processes = {p1, p2}
  Ids = {s1}
  MaxStamp = 2
  Environment = {"crashes", "ioErrors", "rmErrors"}
SPECIFICATION FairSpec
PROPERTIES
  EveryCallReturns
CHECK_DEADLOCK FALSE
