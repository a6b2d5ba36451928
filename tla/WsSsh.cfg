CONSTANTS
  Sockets = {w1, w2}
  MaxEvents = 4
  None = None
SPECIFICATION FairSpec
INVARIANTS
  TypeOK
  InputsReachShellInOrder
PROPERTIES
  ConnectIsSettled
  SocketTakesItsSshAlong
\* Every WebSocket used and the page left: the system stops.
CHECK_DEADLOCK FALSE
