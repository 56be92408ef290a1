\* Two threads reset and close without owning a reference; the context may be killed.
CONSTANTS
  Slots = {c1}
  Fds = {f1, f2}
  Workers = {w1}
  Resetters = {m, n}
  ShellVerbs = {"Reap", "Reset", "Close"}
  Filtered = {FALSE}
  RingMayRefuse = FALSE
  MayInterrupt = TRUE
  MaxAccepts = 2
  MaxKeepAlive = 0
  NoSlot = NoSlot
  NoFd = NoFd
  NoThread = NoThread
SPECIFICATION Spec
SYMMETRY Interchangeable
INVARIANTS
  FinalizeExclusive
  InUseExact
  CloseOnce
CHECK_DEADLOCK FALSE
