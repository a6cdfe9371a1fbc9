SPECIFICATION FairSpec
CONSTANTS
  Sweeper = Sweeper
  None = None
  Reqs = {r1, r2}
  Kinds = {"question", "env-write", "workspace-setup"}
  Deadline = 1
  Grace = 1
  Horizon = 3
  MaxFaults = 1
  MaxCrashes = 1
INVARIANTS
  TypeOK AnsweredApplied ToldInTime
PROPERTIES
  ImplementsContract WaiterReturns PendingCloses
CHECK_DEADLOCK FALSE
