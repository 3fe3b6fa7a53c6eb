SPECIFICATION FairSpec
CONSTANTS
  N = 3
  Ends <- MCEnds
  x = x
  y = y
  Contents <- MCContents
  Absent = Absent
  Disks <- MCDisks
  Quick <- MCQuick
  Sources = {"local", "network"}
  Checked = TRUE
  None = None
  Workers = 2
  MaxFaults = 2
INVARIANTS
  TypeOK
  DurablePrefix
PROPERTIES
  MissingWasGone
  CompletedIsHashed
  ScansComplete
CHECK_DEADLOCK FALSE
