\* Two clients that are given the same descriptor number, one after the other.
CONSTANTS
  Slots = {c1}
  Fds = {f1}
  Workers = {w1}
  Resetters = {}
  ShellVerbs = {}
  Filtered = {FALSE}
  RingMayRefuse = FALSE
  MayInterrupt = FALSE
  MaxAccepts = 2
  MaxKeepAlive = 1
  NoSlot = NoSlot
  NoFd = NoFd
  NoThread = NoThread
SPECIFICATION Spec
INVARIANT
  CancelHitsOwnClient
CHECK_DEADLOCK FALSE
