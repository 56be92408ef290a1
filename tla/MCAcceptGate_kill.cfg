\* Two workers, a scope that may be killed and a Cancel that may be refused.
CONSTANTS
  Workers = {w1, w2}
  Shells = {s1}
  Maint = m
  Window = 2
  MayKill = TRUE
  CancelMayFail = TRUE
  MaxRetry = 1
  MaxOpens = 1
  MaxArrivals = 1
  MaxRefusals = 1
SPECIFICATION Spec
INVARIANTS
  AcceptsCounted
CHECK_DEADLOCK FALSE
