\* Two clients, one after the other, on one slot; the ring may refuse;
\* every reset is made by a thread that owns a reference.
CONSTANTS
  Slots = {c1}
  Fds = {f1, f2}
  Workers = {w1, w2}
  Resetters = {}
  ShellVerbs = {}
  Filtered = {FALSE, TRUE}
  RingMayRefuse = TRUE
  MayInterrupt = FALSE
  MaxAccepts = 2
  MaxKeepAlive = 1
  NoSlot = NoSlot
  NoFd = NoFd
  NoThread = NoThread
SPECIFICATION FairSpec
INVARIANTS
  RefsCounted
  NoStaleCompletion
  OneDriver
  DescriptorsAccounted
  OpsNameOwnSocket
PROPERTY
  ImplementsPromise
CHECK_DEADLOCK FALSE
