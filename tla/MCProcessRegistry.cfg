SPECIFICATION FairSpec
CONSTANTS
  c1 = c1
  c2 = c2
  c3 = c3
  a = a
  b = b
  None = None
  Calls = {c1, c2, c3}
  Specs = {a, b}
  Inputs <- MCInputs
INVARIANTS
  TypeOK OneServer RecordsLive
PROPERTIES
  OrphanedInTwoWays AcquireSettles
CHECK_DEADLOCK FALSE
