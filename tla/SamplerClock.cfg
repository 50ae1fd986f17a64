SPECIFICATION Spec
CONSTANTS
  Configs <- SingleShot
  MaxShift = 2
INVARIANT BackwardJumpDetected
