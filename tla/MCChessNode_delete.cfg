\* Two selves at one board, and the shell beside it with its Delete.
CONSTANTS
  Names = {ann, bob}
  NoOne = NoOne
  Pages = {p1}
  NoPage = NoPage
  Matches = {m1}
  Relay = 1
  MaxPairs = 0
  MaxResults = 1
  Areas <- BoardAndDelete
  MayGo = {}
SPECIFICATION Spec
INVARIANT WalksAreSafe
CHECK_DEADLOCK FALSE
