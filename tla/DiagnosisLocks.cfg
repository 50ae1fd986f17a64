\* Two samples, each with a blocked file lock.
SPECIFICATION Spec
CONSTANTS
  SampleCounts = {2}
  Troubles = {"calm", "stuck"}
  BootedHost <- MCBootedHost
  Window <- MCWindow
  Restarts <- MCRestarts
  Losses <- NoLosses
  CgroupOrders <- Orders
  MaxMishaps = 2
INVARIANT SteadyTroubleIsFound
