SPECIFICATION Spec
CONSTANTS
  Jobs <- MCOneJob
  Calls = {c1, c2}
  Users = {u1}
  Procs <- MCProcs
  Scoped = {"server"}
  Nobody = Nobody
  MaxOpens = 2
PROPERTIES
  LegalTransitions
CHECK_DEADLOCK FALSE
