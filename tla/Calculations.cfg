CONSTANTS
  Bytes = {{}, {0}, {0, 2, 3, 6}, {1, 3, 5, 7}, {0, 1, 2, 3, 4, 5, 6, 7}}
  MaxLength = 4
  Octets = {0, 129, 255}
  Empty = Empty
  NoPage = NoPage
SPECIFICATION Spec
INVARIANTS
  AtobDecodes
  BtoaCarriesData
  SubnetsPartition
\* The result is shown, or the data as long as it gets: the system stops.
CHECK_DEADLOCK FALSE
