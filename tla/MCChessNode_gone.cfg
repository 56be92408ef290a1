\* Two selves, one of which goes without a word; the one that stays polls.
CONSTANTS
  Names = {ann, bob}
  NoOne = NoOne
  Pages = {p1}
  NoPage = NoPage
  Matches = {m1}
  Relay = 1
  MaxPairs = 1
  MaxResults = 1
  Areas <- BoardOrRelay
  MayGo = {ann}
SPECIFICATION Spec
PROPERTIES
  SeatsComeFree
  PairsComeFree
CHECK_DEADLOCK FALSE
