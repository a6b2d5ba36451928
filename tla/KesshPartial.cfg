CONSTANTS
  UI = UI
  Tasks = {t1}
  Jobs = {}
  Socks = {s1}
  Libs = {l1}
  MaxId = 1
  Chunks = 2
  None = None
SPECIFICATION Spec
INVARIANT TransferIsWhole
