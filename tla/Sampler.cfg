\* Watching and single-shot runs with signals, failed snapshots and failed output.
SPECIFICATION FairSpec
CONSTANTS
  Configs <- MCConfigs
  MaxShift = 1
INVARIANTS
  TypeOK
  AtMostOneLateReport
  WatchReportsMeasured
PROPERTIES
  SignalEndsProgram
  WatchKeepsSampling
  SingleShotEnds
