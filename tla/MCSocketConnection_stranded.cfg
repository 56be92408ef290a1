\* The maintenance thread resets between the chain's open check and its submission.
CONSTANTS
  Slots = {c1}
  Fds = {f1}
  Workers = {w1}
  Resetters = {m}
  ShellVerbs = {"Reap"}
  Filtered = {FALSE}
  RingMayRefuse = FALSE
  MayInterrupt = FALSE
  MaxAccepts = 1
  MaxKeepAlive = 1
  NoSlot = NoSlot
  NoFd = NoFd
  NoThread = NoThread
SPECIFICATION FairSpec
PROPERTY
  DrainConverges
CHECK_DEADLOCK FALSE
