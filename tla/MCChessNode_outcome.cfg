\* Two selves at one board.
CONSTANTS
  Names = {ann, bob}
  NoOne = NoOne
  Pages = {p1}
  NoPage = NoPage
  Matches = {m1}
  Relay = 1
  MaxPairs = 0
  MaxResults = 1
  Areas <- BoardAlone
  MayGo = {}
SPECIFICATION Spec
PROPERTY OutcomeStands
CHECK_DEADLOCK FALSE
