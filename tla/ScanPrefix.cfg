SPECIFICATION Spec
CONSTANTS
  N = 2
  Ends <- MCEnds
  x = x
  y = y
  Contents <- MCContents
  Absent = Absent
  Disks <- MCDisks
  Quick <- MCQuick
  Sources = {"local"}
  Checked = FALSE
  None = None
  Workers = 2
  MaxFaults = 2
PROPERTIES
  PrefixNotMissing
CHECK_DEADLOCK FALSE
