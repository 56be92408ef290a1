\* Two sessions, two requests each, a staging buffer smaller than a flight
\* and than a piece of a response.
CONSTANTS
  Sessions <- MCSessions
  MaxNotes = 1
  Chunk = 3
  InCap = 2
  OutCap = 2
SPECIFICATION FairSpec
INVARIANTS
  RefsExact
  Delivered
  NothingHeldBack
PROPERTY
  CloseEnds
CHECK_DEADLOCK FALSE
