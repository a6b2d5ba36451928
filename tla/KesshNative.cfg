CONSTANTS
  UI = UI
  Tasks = {t1}
  Jobs = {j1}
  Socks = {s1, s2}
  Libs = {l1, l2}
  MaxId = 2
  Chunks = 1
  None = None
SPECIFICATION Spec
SYMMETRY Symmetry
INVARIANTS
  TypeOK
  HandlesOwnedOnce
  NoSocketLeak
  TransferHoldsSession
  OpenSessionsAreReachable
PROPERTIES
  IdsNeverReused
  KeepaliveFailureIsFinal
  ImplementsTable
