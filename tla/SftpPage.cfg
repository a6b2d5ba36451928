CONSTANTS
  Ids = {i1, i2, i3}
  Callers = {}
  None = None
  Chars = {"/", ".", " ", "a", "b"}
  DirNames <- MCDirNames
  MaxDepth = 3
  MaxConnects = 3
  MaxAttempts = 2
SPECIFICATION FairSpec
INVARIANTS
  TypeOK
  SessionIsHeldOnce
  ScreenShowsSession
  PathNamesDirectory
PROPERTIES
  ConnectingEnds
  DeadSessionIsClosed
\* The page left, or its last connect used up: the system stops.
CHECK_DEADLOCK FALSE
