CONSTANTS
  Ids = {i1, i2, i3}
  Callers = {}
  None = None
  MaxOpens = 4
  MaxTaps = 3
  MaxAsked = 3
  Dirs = {"/", "/d"}
  Root = "/"
SPECIFICATION Spec
INVARIANTS
  TypeOK
  FilesFollowPath
  NoSessionOutOfReach
PROPERTIES
  UnmountCloses
  ConnectingEnds
\* A page left, or connected with nothing under way: the system stops.
CHECK_DEADLOCK FALSE
