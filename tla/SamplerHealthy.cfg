SPECIFICATION Spec
CONSTANTS
  Configs <- SingleShot
  MaxShift = 0
INVARIANT HealthyIsMeasured
