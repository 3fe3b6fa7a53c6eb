SPECIFICATION Spec
CONSTANTS
  N = 2
  Ends <- MCEnds
  x = x
  y = y
  Contents <- MCContents
  Absent = Absent
  Disks <- MCDisks
  Quick <- MCQuick
  Sources = {"network"}
  Checked = FALSE
  None = None
  Workers = 2
  MaxFaults = 2
PROPERTIES
  ResumeRevisits
CHECK_DEADLOCK FALSE
