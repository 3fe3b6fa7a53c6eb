SPECIFICATION FairSpec
CONSTANTS
  Jobs <- MCOneJob
  Calls = {c1, c2}
  Users = {u1, u2}
  Procs <- MCProcs
  Scoped = {"server"}
  Nobody = Nobody
  MaxOpens = 3
INVARIANTS
  TypeOK
  Agreement
PROPERTIES
  EndsOnce
  CancelEnds
CHECK_DEADLOCK FALSE
