\* A busy interval before the first snapshot.
SPECIFICATION Spec
CONSTANTS
  SampleCounts = {1}
  Troubles = {"calm", "cpu"}
  BootedHost <- MCBootedHost
  Window <- MCWindow
  Restarts <- MCRestarts
  Losses <- NoLosses
  CgroupOrders <- Orders
  MaxMishaps = 1
INVARIANT FindingsAreOfTheWindow
