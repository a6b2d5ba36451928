CONSTANTS
  Targets = {t1, t2, t3}
  None = None
  MaxRecords = 3
  MaxIndexes = 2
SPECIFICATION Spec
INVARIANTS
  TypeOK
  SavedPasswordFitsRecord
PROPERTY
  OnlyStaleCopyMisdirects
