\* Two openings of a gate, one worker, two clients, a refused submission; one
\* thread opens and closes.
CONSTANTS
  Workers = {w1}
  Shells = {s1}
  Maint = m
  Window = 2
  MayKill = FALSE
  CancelMayFail = FALSE
  MaxRetry = 0
  MaxOpens = 2
  MaxArrivals = 2
  MaxRefusals = 1
SPECIFICATION FairSpec
INVARIANTS
  ListenerOutlivesAccepts
PROPERTY
  WindowRecovers
CHECK_DEADLOCK FALSE
