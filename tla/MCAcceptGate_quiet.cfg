\* One thread closes while a completion runs.
CONSTANTS
  Workers = {w1, w2}
  Shells = {s1}
  Maint = m
  Window = 2
  MayKill = FALSE
  CancelMayFail = FALSE
  MaxRetry = 0
  MaxOpens = 1
  MaxArrivals = 1
  MaxRefusals = 0
SPECIFICATION Spec
INVARIANT
  ClosedMeansQuiet
CHECK_DEADLOCK FALSE
