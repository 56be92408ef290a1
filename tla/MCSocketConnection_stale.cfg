\* The maintenance thread is held up inside finalizeIfDraining while the slot changes hands.
CONSTANTS
  Slots = {c1}
  Fds = {f1}
  Workers = {w1}
  Resetters = {m}
  ShellVerbs = {"Reap"}
  Filtered = {FALSE}
  RingMayRefuse = FALSE
  MayInterrupt = FALSE
  MaxAccepts = 2
  MaxKeepAlive = 1
  NoSlot = NoSlot
  NoFd = NoFd
  NoThread = NoThread
SPECIFICATION Spec
INVARIANT
  NoStaleCompletion
CHECK_DEADLOCK FALSE
