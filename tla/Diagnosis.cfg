\* Every trouble, one to three samples, any one source, collector or file lost, either order.
SPECIFICATION Spec
CONSTANTS
  SampleCounts = {1, 2, 3}
  Troubles <- MCTroubles
  BootedHost <- MCBootedHost
  Window <- MCWindow
  Restarts <- MCRestarts
  Losses <- MCLosses
  CgroupOrders <- Orders
  MaxMishaps = 2
INVARIANTS
  TypeOK
  DeltasWithinWindow
  HistoryIsForgotten
  LostReadingAddsNothing
  OutlierSampleIsIgnored
  CgroupOrderDecidesOneRule
