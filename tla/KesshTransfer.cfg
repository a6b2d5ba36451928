CONSTANTS
  UI = UI
  Tasks = {t1}
  Jobs = {}
  Socks = {s1}
  Libs = {l1}
  MaxId = 1
  Chunks = 3
  None = None
SPECIFICATION FairSpec
INVARIANT UploadSendsContent
PROPERTY BlockingTransferEnds
