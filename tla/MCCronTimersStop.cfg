SPECIFICATION Spec
CONSTANTS
  None = None
  Period = 2
  Window = 3
  Policies = {"manual"}
  Horizon = 4
  MaxWire = 2
  MaxFaults = 0
  MaxStops = 1
  MaxEdits = 0
INVARIANTS
  PauseSurvives
CHECK_DEADLOCK FALSE
