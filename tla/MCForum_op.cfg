\* The op a crash forgets: the first post claims the thread in memory only.
CONSTANTS
  Tokens = {ann, bob}
  Texts <- MCTexts
  Chunks <- MCChunks
  MaxThreads = 2
  MaxKeys = 3
  MaxRequests = 3
  MaxCrashes = 1
  MaxRefusals = 0
SPECIFICATION Spec
INVARIANTS
  OpIsFirstPoster
CHECK_DEADLOCK FALSE
