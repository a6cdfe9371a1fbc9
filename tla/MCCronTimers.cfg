SPECIFICATION Spec
CONSTANTS
  None = None
  Period = 2
  Window = 3
  Policies = {"skip", "coalesce", "catchup", "manual"}
  Horizon = 6
  MaxWire = 2
  MaxFaults = 1
  MaxStops = 1
  MaxEdits = 1
INVARIANTS
  TypeOK ToldOnce Accounted StoreAgrees
CHECK_DEADLOCK FALSE
