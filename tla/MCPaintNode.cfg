\* A host and a guest; a membership more than pages, so that the guest comes back
\* as somebody else.
CONSTANTS
  Pages = {h, g1}
  Host = h
  Names = {ann, bob, cy}
  Boxes = {b1}
  NoName = NoName
  NoBox = NoBox
  MaxTokens = 3
  MaxLines = 1
  MaxParts = 2
SPECIFICATION Spec
SYMMETRY Symmetry
INVARIANTS
  OneOwner
  TokensApart
  PushesLandWhole
PROPERTIES
  TextFollowsTheHand
  OnlyTheGrantedWrite
CHECK_DEADLOCK FALSE
