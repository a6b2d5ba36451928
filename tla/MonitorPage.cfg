CONSTANTS
  Ids = {i1, i2}
  Hosts = {h1}
  Metrics = {cpu, mem}
  Fetches = {f1, f2}
  Callers <- MonitorCallers
  None = None
SPECIFICATION FairSpec
INVARIANTS
  TypeOK
  OpenSessionIsCurrent
PROPERTIES
  GonePageStartsNothing
  LoadingEnds
CHECK_DEADLOCK FALSE \* a page that has gone does nothing more
