CONSTANTS
  NoLayer = NoLayer
  NoPic = NoPic
  NoBox = NoBox
  NoAuthor = NoAuthor
  l1 = l1
  l2 = l2
  l3 = l3
  Layers = {l1, l2, l3}
  Boxes = {b1, b2}
  SnapEvery = 2
  FirstPages <- MCFirstPages
  Budgets <- TextBudgets
SPECIFICATION Spec
INVARIANT
  TextAlwaysFollowsPath
CHECK_DEADLOCK FALSE
