CONSTANTS
  NoLayer = NoLayer
  NoPic = NoPic
  NoBox = NoBox
  NoAuthor = NoAuthor
  l1 = l1
  l2 = l2
  lg = lg
  Layers = {l1, l2, lg}
  Boxes = {b1}
  SnapEvery = 2
  Owner = owner
  Guests = {guest}
  Stride = 10
  OwnersPage <- TwoLayers
  GuestsPage <- PutAway
  Budgets <- MCBudgets
SPECIFICATION FairSpec
INVARIANTS
  PictureIsTheRecords
PROPERTIES
  UndoIsOnesOwn
  Converges
CHECK_DEADLOCK FALSE
