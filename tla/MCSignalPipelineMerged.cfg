SPECIFICATION Spec
CONSTANTS
  s1 = s1
  s2 = s2
  k1 = k1
  None = None
  Sigs = {s1, s2}
  KeyOf <- MCKeyOf
  Callers = {s1}
  DupWindow = 1
  QueueTimeout = 1
  CallTimeout = 2
  MaxDeliver = 2
  Horizon = 3
  MaxCrashes = 0
INVARIANTS
  PublishedIsStored
CHECK_DEADLOCK FALSE
