\* One tenure of the slot, reset by anyone at any time; the ring may refuse.
CONSTANTS
  Slots = {c1}
  Fds = {f1}
  Workers = {w1, w2}
  Resetters = {m, n}
  ShellVerbs = {"Reap", "Reset"}
  Filtered = {FALSE}
  RingMayRefuse = TRUE
  MayInterrupt = FALSE
  MaxAccepts = 1
  MaxKeepAlive = 1
  NoSlot = NoSlot
  NoFd = NoFd
  NoThread = NoThread
SPECIFICATION Spec
SYMMETRY Interchangeable
INVARIANTS
  OpsNameOwnSocket
CHECK_DEADLOCK FALSE
