CONSTANTS
  Pages = {p1, p2}
  Ids = {i1, i2, i3}
  Callers = {}
  None = None
  MaxAttempts = 2
SPECIFICATION FairSpec
INVARIANTS
  TypeOK
  SessionHasOnePage
  TimersFollowSession
PROPERTIES
  OnlyDeadOrLeftIsClosed
  DeadSessionIsClosed
