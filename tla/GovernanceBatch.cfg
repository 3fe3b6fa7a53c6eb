SPECIFICATION FairSpec
CONSTANTS
  Groups = {g1, g2}
  Requests = {{g1, g2}}
  Decisions = {d1, primary}
  Batched = {d1}
  Tokens = {t1}
  Keys = {k1, k2}
  Callers = {c1, c2}
  Versions = {v1}
  Changing = {g1}
  Gone = Gone
  Undecided = Undecided
  Nobody = Nobody
  MaxLive = 1
  MaxSaves = 1
INVARIANTS
  TypeOK
  RecordsAgree
PROPERTIES
  DecidedWhenSafe
  RetryCompletes
  LedgerSpec
CHECK_DEADLOCK FALSE
