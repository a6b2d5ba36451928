CONSTANTS
  Ids = {i1, i2}
  Hosts = {h1, h2}
  Metrics = {cpu, mem}
  Fetches = {f1, f2}
  Callers <- MonitorCallers
  None = None
SPECIFICATION Spec
PROPERTIES
  NewMetricsAreOfSelectedHost
CHECK_DEADLOCK FALSE \* a page that has gone does nothing more
