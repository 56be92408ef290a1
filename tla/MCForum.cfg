\* Two threads at most, two crashes and one refused statement anywhere.
CONSTANTS
  Tokens = {ann, bob}
  Texts <- MCTexts
  Chunks <- MCChunks
  MaxThreads = 2
  MaxKeys = 3
  MaxRequests = 4
  MaxCrashes = 2
  MaxRefusals = 1
SPECIFICATION Spec
SYMMETRY Symmetry
INVARIANTS
  WhatWasSaidStands
  Verifies
  NewIsEmpty
CHECK_DEADLOCK FALSE
