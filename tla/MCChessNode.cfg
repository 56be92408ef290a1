\* Two selves at a board and at the shell; three at the name server.
CONSTANTS
  Names = {ann, bob, cy}
  NoOne = NoOne
  Pages = {p1}
  NoPage = NoPage
  Matches = {m1}
  Relay = 1
  MaxPairs = 1
  MaxResults = 1
  Areas <- BoardOrServer
  MayGo = {}
SPECIFICATION Spec
SYMMETRY Symmetry
INVARIANTS
  SeatsApart
  EdgesHold
  OneTable
PROPERTIES
  ResultsCountOnce
  PairEndsByItsOwn
CHECK_DEADLOCK FALSE
