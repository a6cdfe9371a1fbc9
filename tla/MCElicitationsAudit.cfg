SPECIFICATION Spec
CONSTANTS
  Sweeper = Sweeper
  None = None
  Reqs = {r1, r2}
  Kinds = {"question", "env-write", "workspace-setup"}
  Deadline = 1
  Grace = 1
  Horizon = 3
  MaxFaults = 0
  MaxCrashes = 0
INVARIANTS
  AuditKept
CHECK_DEADLOCK FALSE
