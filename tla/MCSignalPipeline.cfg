SPECIFICATION FairSpec
CONSTANTS
  s1 = s1
  s2 = s2
  k1 = k1
  None = None
  Sigs = {s1, s2}
  KeyOf <- MCKeyOf
  Callers = {s1, s2}
  DupWindow = 1
  QueueTimeout = 1
  CallTimeout = 2
  MaxDeliver = 3
  Horizon = 2
  MaxCrashes = 2
INVARIANTS
  TypeOK AdmittedOnce AckedWasForwarded
PROPERTIES
  AdmittedInTime SignalSettles CallerReleased
CHECK_DEADLOCK FALSE
